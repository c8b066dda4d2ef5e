SPECIFICATION OneCall
CONSTANTS
    a = a
    b = b
    Data = {a, b}
    Noop = Noop
    Genesis = Genesis
    Catalog <- Ghosts
    InOrder <- Merging
    Ranks <- OneRank
    Configs <- Merging
CHECK_DEADLOCK FALSE
INVARIANTS
    OneIsKept

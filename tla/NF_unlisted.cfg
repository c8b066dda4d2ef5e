SPECIFICATION Spec
CONSTANTS
    a = a
    b = b
    Data = {a, b}
    Noop = Noop
    Genesis = Genesis
    Catalog <- Twins
    InOrder <- Merging
    Ranks <- FourRanks
    Configs <- Merging
INVARIANTS
    NothingUnlisted

SPECIFICATION Spec
CONSTANTS
    a = a
    b = b
    Data = {a, b}
    Noop = Noop
    Genesis = Genesis
    Catalog <- Twins
    InOrder <- Merging
    Ranks <- FourRanks
    Configs <- Three
INVARIANTS
    TypeOK
    DefaultIsC3
    StatsAccount
    NothingToMerge
    OneEventPerShape
    StaysWhole
    IncrementalExact
    TurnsBounded

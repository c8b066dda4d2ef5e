SPECIFICATION FairSpec
CONSTANTS
    a = a
    b = b
    n1 = n1
    n2 = n2
    n3 = n3
    Data = {a, b}
    Noop = Noop
    Genesis = Genesis
    Node = {n1, n2, n3}
    Catalog <- Forked
    InOrder = TRUE
INVARIANTS
    TypeOK
    HistoryIsView
PROPERTIES
    OrderIsStable
    RefinesGrowOnly
    EventuallyConverged

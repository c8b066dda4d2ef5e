SPECIFICATION NetFairSpec
CONSTANTS
    a = a
    b = b
    n1 = n1
    n2 = n2
    n3 = n3
    Data = {a, b}
    Noop = Noop
    Genesis = Genesis
    Node = {n1, n2, n3}
    Catalog <- ThreeAtTip
    Peers <- OneBehind
    InOrder = TRUE
CHECK_DEADLOCK FALSE
PROPERTIES
    EveryCallReturns

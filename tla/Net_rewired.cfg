SPECIFICATION NetSpec
CONSTANTS
    a = a
    b = b
    n1 = n1
    n2 = n2
    n3 = n3
    Data = {a, b}
    Noop = Noop
    Genesis = Genesis
    Node = {n1, n2}
    Catalog <- NoopInside
    Peers <- Each
    InOrder = TRUE
CHECK_DEADLOCK FALSE
PROPERTIES
    SyncUnifies

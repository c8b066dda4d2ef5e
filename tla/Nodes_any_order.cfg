SPECIFICATION OneByOne
CONSTANTS
    a = a
    b = b
    n1 = n1
    n2 = n2
    Data = {a, b}
    Noop = Noop
    Genesis = Genesis
    Node = {n1, n2}
    Catalog <- OneNoop
    InOrder = FALSE
INVARIANTS
    SameReceivedSameState

SPECIFICATION Spec
CONSTANTS
    a = a
    b = b
    p = p
    q = q
    r = r
    Data = {a, b}
    Noop = Noop
    Genesis = Genesis
    Author = {p, q, r}
    Catalog <- Events6
    InOrder = TRUE
SYMMETRY Symmetry
INVARIANTS
    TypeOK
    MergeJoins
    MergeAssociates
    ReduceEarlyOrLate

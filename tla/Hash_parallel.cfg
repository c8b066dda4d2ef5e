SPECIFICATION FairSpec
CONSTANTS
    a = a
    b = b
    c = c
    Data = {a, b, c}
    Noop = Noop
    Genesis = Genesis
    Dags <- Shapes
    Cores = {1, 2, 3, 4}
INVARIANTS
    SlicesExact
    ParallelExact
PROPERTIES
    HashingEnds

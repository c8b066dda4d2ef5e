SPECIFICATION Spec
CONSTANTS
    a = a
    b = b
    Data = {a, b}
    Noop = Noop
    Genesis = Genesis
    Catalog <- Diamond
    Removable <- DiamondIds
    Tombstones <- InnerIds
    Queried <- TwoQueried
INVARIANTS
    TypeOK
    IndexExact
    MemoSound
    FrontierIsWholePast
    CompactionComposes
    TopoExact
PROPERTIES
    CausalityPreserved
    NoNewGap

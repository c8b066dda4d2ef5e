SPECIFICATION Spec
CONSTANTS
    a = a
    b = b
    Data = {a, b}
    Noop = Noop
    Genesis = Genesis
    Garbage = Garbage
    Sets = {a, b}
    Rank <- SomeRank
    Catalog <- NoopAtTip
    Configs = {"default", "plain"}
    Intervals = {0, 2}
    MaxLines = 3
    MaxCount = 4
    MaxSnapshots = 1
INVARIANTS
    StoreTypeOK
    LogDeterminesKernel
    SnapshotBehindLog
    CountCoversLog
    CachedFresh
PROPERTIES
    RefinesDurable

SPECIFICATION FairSpec
CONSTANTS
    s1 = s1
    s2 = s2
    Stores <- MCStores
    KeepRecent = 1
    KeepEvery = 3
    Interval = 2
    InitialVersion = 0
    SnapshotInterval = 3
    StateSync = TRUE
    MaxVersion = 9
    MaxCrashes = 2
INVARIANTS
    LatestLoadable
    Retained
    NoLeakedVersion
    SnapshotComplete
PROPERTIES
    AtomicCommit
    CatchesUp

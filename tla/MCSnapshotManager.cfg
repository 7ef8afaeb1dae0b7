SPECIFICATION FairSpec
CONSTANTS
    Chunks = 2
    KeepRecent = 1
    BufferSize = 1
    MaxHeight = 3
    MaxCrashes = 1
    MaxFailures = 1

INVARIANTS
    ListedComplete

PROPERTIES
    NewestKept
    CompleteMeansRestored
    ExporterEnds
    ApplyReturns

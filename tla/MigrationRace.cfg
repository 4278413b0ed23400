SPECIFICATION Spec
CONSTANTS
    NrMetaZones = 3
    MetaCapacity = 4
    SnapshotBlocks = 2
    Names = {a, b}
    ManyThreads = FALSE
    GCEnabled = TRUE
    Faults = {}
    MaxFileId = 2
    MaxExtents = 2
    MaxSeq = 5
    MaxCrashes = 0
INVARIANT StableKept
CHECK_DEADLOCK FALSE

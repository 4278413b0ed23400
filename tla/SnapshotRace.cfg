SPECIFICATION Spec
CONSTANTS
    NrMetaZones = 3
    MetaCapacity = 4
    SnapshotBlocks = 2
    Names = {a, b}
    ManyThreads = TRUE
    GCEnabled = FALSE
    Faults = {}
    MaxFileId = 2
    MaxExtents = 2
    MaxSeq = 4
    MaxCrashes = 0
INVARIANT StableKept
CHECK_DEADLOCK FALSE

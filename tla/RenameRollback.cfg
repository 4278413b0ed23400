SPECIFICATION Spec
CONSTANTS
    NrMetaZones = 3
    MetaCapacity = 4
    SnapshotBlocks = 2
    Names = {a, b}
    ManyThreads = FALSE
    GCEnabled = FALSE
    Faults = {"reset"}
    MaxFileId = 2
    MaxExtents = 1
    MaxSeq = 4
    MaxCrashes = 1
INVARIANT ToldIsInMemory
CHECK_DEADLOCK FALSE

SPECIFICATION Spec
CONSTANTS
    NrMetaZones = 3
    MetaCapacity = 4
    SnapshotBlocks = 2
    Names = {a, b}
    ManyThreads = FALSE
    GCEnabled = FALSE
    Faults = {"offline"}
    MaxFileId = 2
    MaxExtents = 1
    MaxSeq = 4
    MaxCrashes = 0
INVARIANT Mountable
CHECK_DEADLOCK FALSE

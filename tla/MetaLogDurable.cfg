SPECIFICATION Spec
CONSTANTS
    NrMetaZones = 3
    MetaCapacity = 4
    SnapshotBlocks = 2
    Names = {a, b}
    ManyThreads = FALSE
    GCEnabled = FALSE
    Faults = {}
    MaxFileId = 3
    MaxExtents = 2
    MaxSeq = 5
    MaxCrashes = 2
INVARIANTS StableKept ExtentsInOrder
PROPERTY DurableSpec
CHECK_DEADLOCK FALSE

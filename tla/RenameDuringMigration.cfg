SPECIFICATION Spec
CONSTANTS
    NrMetaZones = 3
    MetaCapacity = 4
    SnapshotBlocks = 2
    Names = {a, b}
    ManyThreads = FALSE
    GCEnabled = TRUE
    Faults = {}
    MaxFileId = 1
    MaxExtents = 1
    MaxSeq = 5
    MaxCrashes = 0
INVARIANT ExtentsInOrder
CHECK_DEADLOCK FALSE

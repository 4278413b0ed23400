SPECIFICATION Spec
CONSTANTS
    NrMetaZones = 3
    MetaCapacity = 4
    SnapshotBlocks = 2
    Names = {a, b}
    ManyThreads = TRUE
    GCEnabled = TRUE
    Faults = {"reset"}
    MaxFileId = 2
    MaxExtents = 1
    MaxSeq = 4
    MaxCrashes = 1
INVARIANTS TypeOK NamesKept Mountable
CHECK_DEADLOCK FALSE

SPECIFICATION Spec
CONSTANTS
    NrMetaZones = 3
    MetaCapacity = 4
    SnapshotBlocks = 2
    Names = {a, b}
    ManyThreads = FALSE
    GCEnabled = FALSE
    Faults = {"append", "offline", "torn"}
    MaxFileId = 2
    MaxExtents = 1
    MaxSeq = 5
    MaxCrashes = 1
INVARIANTS LinksAgree LogsOrdered NamesKeptUnlessRollFailed
CHECK_DEADLOCK FALSE

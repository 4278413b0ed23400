\* The inductive invariants of the proofs about the log: ExtInv implies LogInv.
SPECIFICATION Spec
CONSTANTS
    NrMetaZones = 3
    MetaCapacity = 4
    SnapshotBlocks = 2
    Names = {a, b}
    ManyThreads = FALSE
    GCEnabled = FALSE
    Faults = {"reset"}
    MaxFileId = 2
    MaxExtents = 2
    MaxSeq = 4
    MaxCrashes = 1
INVARIANT ExtInv
CHECK_DEADLOCK FALSE

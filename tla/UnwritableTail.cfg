SPECIFICATION Spec
CONSTANTS
    NrZones = 2
    BlockSize = 2
    ZoneCapacity = 4
    ZoneSize = 6
    wal = wal
    sst = sst
    Files = {wal, sst}
    Kinds <- MCKinds
    DirectSyncs = FALSE
    Collected = {sst}
    BufferSize = 4
    RollAnytime = FALSE
    Faults <- MCFaults
    MaxData <- MCMaxData
    MaxMigrations = 0
    MaxBroken = 0
    MaxCrashes = 1
INVARIANT SyncedKept
CHECK_DEADLOCK FALSE

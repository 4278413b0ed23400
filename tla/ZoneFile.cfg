SPECIFICATION Spec
CONSTANTS
    NrZones = 2
    BlockSize = 2
    ZoneCapacity = 4
    ZoneSize = 4
    wal = wal
    sst = sst
    Files = {wal, sst}
    Kinds <- MCKinds
    DirectSyncs = FALSE
    Collected = {sst}
    BufferSize = 4
    RollAnytime = FALSE
    Faults <- MCFaults
    MaxData <- MCMaxData
    MaxMigrations = 1
    MaxBroken = 1
    MaxCrashes = 1
INVARIANTS TypeOK SyncedKept OnlyOwnData ZonesCharged
CHECK_DEADLOCK FALSE

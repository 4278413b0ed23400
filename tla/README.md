# Verification of the PLAZA zone allocator and of ZenFS

PLAZA places the files of an LSM engine in the zones of a ZNS SSD. It is a version of ZenFS, a
RocksDB file system plugin, with more placement policies and another garbage collector. This
directory holds TLA+ modules that model it, TLC configurations that check them on small
instances, and TLAPS proofs. Paths below are relative to `src/lib/rocksdb/plugin/zenfs/fs/`.

## The system

| Part | Source | State it owns | Module |
|---|---|---|---|
| Zone | `zbd_zenfs.h`, `zbd_zenfs.cc` 54-165 | write pointer, capacity left, `used_capacity_`, `busy_` | `ZoneAllocator`, `ZoneFile` |
| Zone allocator | `zbd_zenfs.cc` 195-945 | `active_io_zones_`, `open_io_zones_`, `alloc_mutex_`, `zone_resources_` | `ZoneAllocator` |
| Placement policies, empty-zone allocators | `zbd_extension_zenfs.cc` | per-level file records, level hints | abstracted in `ZoneAllocator`; the records in `FileLocks` |
| Zone files | `zbd_zonefile_zenfs.cc` | extent list, active zone, WR lock, links, synced position | `ZoneFile`, `MetaLog`, `FileLocks` |
| File system | `fs_zenfs.cc` | `files_` under `files_mtx_`, file ids | `MetaLog`, `FileLocks` |
| Metadata log | `fs_zenfs.cc` 57-263, 347-505, 1119-1539 | superblock, log of records in the meta zones | `MetaLog` |
| Garbage collection | `fs_gc_zenfs.cc`, `snapshot.h`, `io_zenfs.cc` 358-393 | zones to clean, files to move | a part of each |
| Writable files | `io_zenfs.cc`, `io_zenfs.h` | write buffers, count of buffers in use | `ZoneFile`, `FileLocks` |
| Back ends | `zonefs_zenfs.cc`, `zbdlib_zenfs.cc` | LRU cache of descriptors | only their failures |
| Parameters, metrics, CLI, workload runner, scripts | `param_loader.h`, `metrics*.h`, `../util`, `src/src` | none that matters here | none |

Writers (RocksDB flush, compaction and log threads) append to zone files. A file without a zone
calls `AllocateIOZone`, which runs entirely under `alloc_mutex_`: it applies the finish threshold,
waits for an open token, looks for a match among open zones, and otherwise takes an active token
(finishing the cheapest zone to get one) and an empty zone. Deleting a file ends in a sweep,
`ResetUnusedIOZones`, which runs in the caller's thread without `alloc_mutex_`. The GC thread holds
`alloc_mutex_` for an iteration, copies extents and sweeps. Between them stand only `busy_`, an
atomic flag per zone, and the token counters.

What a file is (its names, its extents) is persisted as a record in a log that fills one meta zone
after the other; a full zone is replaced by an empty one that starts with a superblock and a snapshot
of all files. `Mount` takes the log with the highest sequence number that it can read.

The modules cut the system into four questions, each with the rest of the system as single steps:
who may use a zone (`ZoneAllocator`), what survives a crash of the name space and of the extent lists
(`MetaLog`), who waits for whom (`FileLocks`), and whether the bytes of a file are where its extents
say (`ZoneFile`).

## Modules

| Module | Content |
|---|---|
| `ZoneAllocator`, `MCZoneAllocator` | zones, tokens, allocation, appends, closing, sweeping, migration, crash and mount; instances for TLC |
| `MetaLog` | records, rolls, snapshots, crash and mount, the operations on names, the synced position of extents |
| `DurableFiles` | what the file system promises across crashes; implemented by `MetaLog` |
| `FileLocks` | `files_mtx_`, `alloc_mutex_`, WR locks, write buffers, readers' locks |
| `ZoneFile`, `MCZoneFile` | the content of direct, buffered and sparse files, recovery of active extents, charges of zones |
| `ZoneAllocatorTyping` | frame and typing lemmas |
| `ZoneAllocatorSafety` | the inductive invariant, the theorems that follow from it, the limit on open zones, room for appends |
| `ZoneAllocatorActive` | the limit on active zones |
| `FileLocksProofs` | the theorems about locks |
| `MetaLogTyping` | typing of the metadata log, whatever fails |
| `MetaLogPersist` | lemmas on tables and replay; the steps that write records and roll the log |
| `MetaLogProofs` | the steps that start and end operations, migrations, crash and mount; mountability and names |
| `MetaLogExtents` | lists of extents, what the log has of each file, and the refinement of `DurableFiles` |

### ZoneAllocator and the code

`pc[t]` is the point a thread has reached; each label is a point where another thread may run.
`wp`, `capacity` and `busy` are the fields of a zone. `usedBy[z]` is the set of files with extents
in `z`, so that `used_capacity_ > 0` is `usedBy[z] # {}`. `zone[t]` is the zone whose busy flag `t`
has set (`active_zone_` of a file, or a local variable). Operators carry the names of the functions;
a function with several points of interleaving is split into named steps:

- `AllocateIOZone`: `LockAllocMutex`, `ThresholdVisit/Finish/Put`, `WaitForOpenIOZoneToken`,
  `GetBestOpenZoneMatch`, `TryActiveToken`, `DecideOnMatch`, `KeepMatch`, `GetActiveIOZoneToken`,
  `FinishCheapestIOZone`, `FinishVictim`, `FinishPut`, `AllocateEmptyZone`, `NoZonePutActive`,
  `FailPutOpen`.
- A file: `OpenFile`, `StartAppend`, `AppendChunk`, `AppendError`, `RollFullZone`, `StartClose`,
  `CloseActiveZone`, `ClosePutOpen`, `ClosePutActive`, `ReopenFile`, `ClearExtents`.
- `DeleteFile` and `ResetUnusedIOZones`: `SweepAcquire/Check/Reset/Release/Put`.
- Collection: `GCWorker`, `MigrateFileExtents`, `NextExtent`, `TakeMigrateZone`, `MigrateData`,
  `ReleaseMigrateZone`, `SyncFileExtents`.
- `CrashAndMount`: any thread at any point stops; `Open` counts active zones, `Mount` sweeps. A sweep in
  which a reset fails makes `Mount` fail, and is not a step: the mount that succeeds is.

Abstractions:

- Data is a number of blocks. An append writes 1 to `MaxAppend` of them.
- The twelve policies and five empty-zone allocators are abstracted to what they share: a match is
  *some* acquirable open zone in use with room, an empty zone is *some* acquirable one, and the score
  of a match is free. Their effect on the records of files is in `FileLocks`.
- A loop over `io_zones` that acquires and releases each zone is one step; with `ScansMiss` it may
  miss any zone it could have found, since another scan or sweep may hold that zone for a moment.
- Decrementing a token counter and notifying are one step. The waiter only re-reads the counter.
- Deferred errors are left out: `SetZoneDeferredStatus` never stores one (`zbd_zenfs.cc:987`).
- The GC sweeps after each file, may move any number of extents and may select any closed file.
- The extents of direct writes are charged when written; the code charges them before it releases
  the zone, and nobody looks at the zone before.
- `Faults` names the device commands that may fail: `reset`, `offline` (a reset that takes the zone
  offline), `finish`, `close`, `append`, `migrate` (a write of a migration, whose status is ignored).

### MetaLog and the code

All metadata operations run under `files_mtx_`, so at most one is in progress: `op`, at the point `pc`.
Every device command is a step, and a crash may come between any two. `mem` is `files_` with the link
names and extents of the files, `synced` is `nr_synced_extents_`, `open` the files with a writer, `cur`
and `old` the zones of `meta_log_` and `old_meta_log`, `seq` the superblock's sequence. `img[z]` is what
`RecoverFrom` makes of the records in zone `z`: `RecoverFrom` is a left fold of the `Decode` functions
over the records, and `Replay` is one step of it, taken when the record is appended. A crash therefore
needs no separate parser, and a record that cannot be decoded makes the image `corrupt`.

- Operations: `OpenWritableFile`, `ReopenWritableFile`, `DeleteFile`, `RenameFile`, `LinkFile`,
  `SyncFileMetadata` (from `Fsync` and from `CloseWR`), each starting with its change of memory and the
  record it wants persisted. A rename or creation over an existing name deletes that first and goes on
  from `DeleteOk`. A rename of a file to its own name deletes it as well and then fails (`error`).
- Persisting: `PersistRecord`, and for a full zone `AllocateMetaZone`, `WriteEndRecord`, `FinishOld`,
  `WriteSuperblock`, `EncodeSnapshot`, `WriteSnapshot`, `ResetOld`. The status of the end record is
  ignored, as in the code: a zone that is finished without one does not read to its end (`FinishOld`).
- Returning, with the roll backs of the failure paths: `CreateOk/Failed`, `DeleteOk/Failed`,
  `RenameOk/Failed`, `LinkOk/Failed`, `SyncOk/Failed`, `GCDone`, `MountOk/Failed`.
- Outside the mutex: `AddExtent` of a writer (beside another operation only if `ManyThreads`) and, if
  `GCEnabled`, `GCLock`, `ReplaceExtentList`, `GCSync` of a migration.
- `Crash`, `Mount`. `MkFS` is the initial state.

`promise` and `stable` are what callers have been told of a name and of a file's extents; a promise ends
when a caller asks for another change of the name. `Misled` marks a name of which a caller was told that
a change had succeeded when it had been rolled back. An extent is its number and its copy.
`linkfiles_` is a set: its order only decides under which name a new file is first inserted. Deleting a
file that is open for writing is not modelled. Faults: `append` (a write fails), `reset` (a reset fails),
`offline` (it takes the zone offline), `torn` (a crash tears a snapshot of several blocks).

### FileLocks and the code

`pc[t]` and `file[t]` say where a thread is and which file it works on. `filesMtx` and `allocMtx` have an
owner because opens and GC iterations hold them over waits; a mutex taken and released without a wait in
between is one step, possible when it is free. `wr[f]` owns the WR lock, `buffers` is the pool of
`ZonedWritableFile`, `reading` the readers inside an extent list, `writerMtx` the lock that
`ReplaceExtentList` takes and then spins on until the readers have left. `place[f]` is where the extents
are, so that a reader with stale extents is visible. `recorded` is `levelwise_file_list_`, plain pointers
to files: a close adds one (`CreateOrUpdateRecord`), a deletion removes it, and the policies remove and add
that of the file they find a zone for (`RecordByPolicy`), in `AllocateIOZone` and, if `EnableGC`, in
`TakeMigrateZone`. A migration takes zones any number of times and stops at `CheckFile` when its file is
no longer in `files_`. RocksDB hands a file from one thread to the next; two writers never name the same file.

### ZoneFile and the code

`data[z]` is the sequence of units written to a zone, each marked with the file and position it belongs
to, or as a header or padding. `zf[f]` is the `ZoneFile` in memory, `meta[f]` the last persisted record,
`buf` the write buffer, `sent` and `stored` what callers have appended and what they have been told is
stored. The append loops are `AppendChunk`, `EndOfRound`, `NextZone`, `Appended` with `AllocateNewZone`
and `PersistActiveExtent`; syncing and closing are `DataSync`, `PersistMetadata`, `CloseWR`,
`CloseActiveZone`. `Recover` and `RecoverSparseExtents` rebuild the active extent from its persisted start
and the write pointer. Migration is `StartMigration`, `MigrateData`, `ReplaceExtentList`,
`SyncFileExtents`; zones are reset and finished by `ResetUnusedIOZone` and `Finish`.

Abstractions: pushing an extent and moving `extent_start_` are one step; `PositionedAppend` and
`RangeSync` are the same calls as `Append` and `Sync`; `.sst` files are always buffered, as the code
opens them; the appends of a migration do not fail; deleting an open file is not modelled. The write
pointer that a device reports of a full zone (`MountedWp`) is external.

## Runs

| Run | Instance | Shows |
|---|---|---|
| `open_tokens` | 2 zones, 3 writers (one of a write-ahead log), 2 open tokens, symmetry of the plain writers | `OpenZonesWithinLimit`, `NoLostWakeup`, the inductive invariants `IndInv` and `ActiveInv` |
| `crash` | 2 zones, 2 writers, a sweeper, GC, one crash; closes, appends and resets fail | `ActiveZonesWithinLimit`, `LiveDataKept` |
| `offline` | 2 zones, 2 writers, a sweeper, GC, threshold 100, reserve 1; zones go offline, migration writes and finishes fail | `TypeOK`, `ZoneExclusive`, `ResetOnlyUnused`, `AppendHasRoom` |
| `liveness` | 2 zones, a direct and a buffered writer, a sweeper, 1 active token, no faults, fair | `AllocationReturnsUnlessLost` |
| `allocation_hang` | 2 zones, a buffered writer, 1 active token, fair | `AllocationReturns` fails |
| `metalog_durable` | 3 meta zones of 4 blocks, 2 names, 3 files, 2 extents, 2 crashes, one thread, no faults | `StableKept`, `ExtentsInOrder`, `DurableSpec` |
| `metalog_resets` | the same zones, 2 files, writers and GC beside the operations, resets fail, 1 crash | `TypeOK`, `NamesKept`, `Mountable` |
| `metalog_faults` | the same zones, 2 files, one thread; appends fail, zones go offline, snapshots are torn, 1 crash | `LinksAgree`, `LogsOrdered`, `NamesKeptUnlessRollFailed` |
| `file_locks` | 2 writers, a reader, GC, 2 files, 2 buffers; closes fail, fair | `TypeOK`, `WriterOwnsFile`, `ReadsCurrentExtents`, `LockInv`, `CallsReturn` |
| `buffer_deadlock` | 2 writers, 1 buffer, fair | `OpensReturn` fails |
| `dangling_record` | 1 writer, a reader, GC, 1 file | `RecordsAlive` fails |
| `zone_file` | 2 zones of 2 blocks, a log (sparse or direct) and an `.sst` file, 1 migration, 1 crash, failing appends and records | `TypeOK`, `SyncedKept`, `OnlyOwnData`, `ZonesCharged` |

Bounds.

- `ZoneAllocator`: a capacity of two blocks distinguishes an empty, a partly written and a full zone.
  Two zones let a thread drop one and take another. One active token makes every allocation compete for
  it and reaches the finish loop; two open tokens are the smallest number that lets both kinds of writer
  proceed. `MaxAppend` and `MaxCrashes` bound an append and the crashes; nothing else is bounded, and
  files are closed, reopened, deleted and created again without limit.
- `MetaLog`: a zone of four blocks takes a superblock, a snapshot of two and one record, so every second
  record rolls the log; three zones are what the code reserves. `MaxSeq` ends the requests after several
  rolls, `MaxFileId` and `MaxExtents` bound what is created.
- `FileLocks`: nothing is bounded. One file is migrated and one reopened (both at once deadlocks, see below).
- `ZoneFile`: a zone of two blocks and a buffer of two, so that a flush is cut at the end of a zone. Data
  goes up to 3 units of the log (two blocks, one of them padded) and 2 of the `.sst` file.

Deadlock is not checked in `crash`, the runs of `MetaLog` and those of `ZoneFile`. With a failing
`Zone::Close`, `CloseActiveZone` keeps its open token (`zbd_zonefile_zenfs.cc:308`), and enough failures
leave an allocator asleep for ever. `NamesKeptUnlessRollFailed` is checked without failing resets: a zone
that a failed roll left without a superblock and that then cannot be reset makes mounts fail even after
the next roll has succeeded. The other modules stop when their bounds are used up or when a device
cannot be mounted.

Fairness.

- `ZoneAllocator`: a thread inside an operation keeps being scheduled (weak fairness). A thread waiting for
  `alloc_mutex_` gets it if it is free again and again, and a file is eventually closed (strong fairness):
  RocksDB closes every file it has finished. `AllocationReturnsUnlessLost` assumes in addition that sweeps
  stop at some point; a sweeper that for ever holds each zone just when the finish loop looks at it would keep
  that loop going. GC is off in this run.
- `FileLocks`: threads are scheduled, a mutex that is free again and again is obtained, reads end and
  files are closed at some time. A migration has finitely many extents to copy; the model does
  not count them, and says with strong fairness of `WriteLock` that the copying ends.

## What fails

Listed as violation runs and findings:

- **An allocation does not return** (`allocation_hang`). A buffered append that fills its zone exactly
  allocates another zone although nothing is left to write. Closing the file then releases an empty zone
  without returning its token (`ActiveTokenLeak`). When every active token has been lost this way,
  `FinishCheapestIOZone` has no zone to finish and reports success, and the loop around it
  (`zbd_zenfs.cc:897`) goes on for ever with `alloc_mutex_` held.
- **A record outlives its file** (`dangling_record`). A file that is deleted during its migration is put
  back in the list of its level by the policy that `TakeMigrateZone` calls. `~ZoneFile` leaves it there, and
  the next policy that walks the list follows a pointer to a destroyed object.
- **An open waits for a buffer with `files_mtx_` held** (`buffer_deadlock`), which the files that have
  the buffers need to be closed.

Further configurations refute the property they name; the proofs and passing runs exclude what they show:

| Config | Property | What happens |
|---|---|---|
| `ActiveTokenLeak` | `ActiveTokensReturned` | each file closed after it has filled its zone exactly costs an active token until the next mount. A migration that fills its target zone keeps its token too (`ReleaseMigrateZone`, `zbd_zenfs.cc:770`, where the return is commented out) |
| `PriorityInversion` | `PrioritizedNotBlocked` | the wait for an open token happens under `alloc_mutex_`, which a log's allocation needs first |
| `MigrateZoneNull` | `MigrateZoneNotNull` | `TakeMigrateZone` counts empty zones that are busy and then uses a null zone |
| `ReserveUsed` | `ReserveNotUsedForFiles` | a new file gets the reserve, contrary to the repository's `README.md:32` |
| `CreationLost` | `CreationDurable` | the creation is persisted before the file is in `files_`; if that rolls the log, the snapshot leaves it out (`fs_zenfs.cc:838`) |
| `SnapshotRace` | `StableKept` | an extent added while a roll writes its snapshot is marked as synced and never persisted (`fs_zenfs.cc:353`) |
| `MigrationRace` | `StableKept` | a migration replaces the extents while a snapshot is written; its own record is then empty |
| `RenameDuringMigration` | `ExtentsInOrder` | a rename between the replacement and its record persists all extents again as an update, and a mount finds them twice |
| `RenameRollback` | `ToldIsInMemory` | the status of the roll back overwrites the error of the rename (`fs_zenfs.cc:1016`) |
| `TornSnapshot` | `Mountable` | a torn snapshot is corruption, not `NotFound`, so that `Mount` gives up instead of going to the previous zone, contrary to the comment at `fs_zenfs.cc:1386` |
| `FailedRoll` | `Mountable` | an end record that could not be written leaves a finished zone that does not read to its end, until the new snapshot is written; and after a roll whose superblock could not be written, records go to a zone without one |
| `OfflineMetaZone` | `Mountable` | a meta zone that went offline passes for empty, its superblock does not fit, and the next roll starts from it |
| `ReopenDeadlock` | `OpensReturn` | a reopen waits for the WR lock with `files_mtx_` held, while GC holds the WR lock and needs `files_mtx_` |
| `DirectFullZone` | `SyncedKept` | a direct file that is synced when it ends at the end of a zone loses its position: `extent_start_` is then the first address of the next zone (`zbd_zonefile_zenfs.cc:508`), and `Recover` looks there, contrary to the comment at `zbd_zonefile_zenfs.cc:112` |
| `RollAtZoneEnd` | `SyncedKept` | as `DirectFullZone`, when a roll by another thread persists a file that is between two zones |
| `UnwritableTail` | `SyncedKept` | as `DirectFullZone`, on devices whose zones are larger than their capacity: a full zone's write pointer lies behind the data |

## Proofs

The theorems hold for all values of the constants: any number of zones, threads, files, names, crashes
and, in `ZoneAllocator`, any set of faults unless noted. They assume the named assumptions of the
modules. `SizesAssumption`: sizes are natural numbers, a zone has a capacity, the threshold is a
percentage. `ThreadsAssumption`: finite disjoint sets of threads; offline zones and crashes are not
combined, since `Open` leaves offline zones out. `MetaLogAssumption`: there are two meta zones and a
snapshot with its superblock fits one. `FileLocksAssumption`: there is a buffer, and the names of
threads and files differ.

| Theorem | Statement | Hypothesis |
|---|---|---|
| `Inductive` | `Spec => []IndInv` | |
| `TypeCorrect`, `Exclusive`, `OnlyUnusedReset`, `WakeupsNotLost` | `TypeOK`, `ZoneExclusive`, `ResetOnlyUnused`, `NoLostWakeup` always hold | |
| `LiveDataNeverReset` | `Spec => LiveDataKept`, an action property | |
| `OpenLimitKept` | `Spec => []OpenZonesWithinLimit` | |
| `RoomToAppend` | `Spec => []AppendHasRoom` | |
| `ActiveInductive`, `ActiveLimitKept` | `Spec => []ActiveInv`, `Spec => []ActiveZonesWithinLimit` | `MigrationsSucceed` |
| `LocksHeld`, `WritersOwnFiles` | `LockInv`, `WriterOwnsFile` always hold | |
| `RecordedFilesExist` | `RecordsExist` always holds | `~EnableGC` |
| `ReadersUndisturbed`, `MutexesHeld` | `ReadsCurrentExtents`, `TypeOK` of `FileLocks` always hold | |
| `LogTyped` | `TypeOK` of `MetaLog` always holds | |
| `LogKept`, `AlwaysMountable`, `NamesDurable`, `LinksKept` | `LogInv`, `Mountable`, `NamesKept`, `LinksAgree` always hold | `ResetsOnly` |
| `ExtentsKept`, `StoredExtentsKept`, `ReplayInOrder` | `ExtInv`, `StableKept`, `ExtentsInOrder` always hold | `ResetsOnly`, `SingleThread` |
| `FilesDurable` | `Spec => DurableSpec` | `Faults = {}`, `SingleThread` |

### The zone allocator

`ZoneExclusive` and `ResetOnlyUnused` are not inductive: to know that a release clears the flag of
one's own zone, the invariant has to say at which points a thread holds a zone (`PcZoneAgree`), who
owns `alloc_mutex_` (`MutexOwner`, which also makes the sleeper unique and so `NoLostWakeup` hold),
and that GC has a file in its hands while it moves extents (`MovingFile`). `IndInv` is their
conjunction. The central lemma, `OthersZone`, says that nobody changes the write pointer, the
capacity or the users of a zone another thread holds; the check of a sweep therefore still holds at
its reset.

The limits compare a counter with a set of charges. For open zones these are the writers holding or
about to return a token; for active zones they are the zones that are partly written or held for
writing, and the threads about to return a token. Each step that adds a charge counts up or drops
another, and each one that counts down drops one. A leaked token only makes the counter larger, so
the limit holds in spite of the leak. For active zones the argument needs that a match or victim is
partly written (`HeldActive`), hence that zones with live extents are written (`UsedIsWritten`). This
is where `MigrationsSucceed` enters: a migration whose write fails charges an extent to a zone that
may be empty, and an offline zone is both empty and full.

`AppendHasRoom` needs `RoomInv`: the zone of a writer has room from the moment it is found, through
every point of the allocation and of the append loop, unless it is an empty one that went offline. By
`OthersZone` only the writer itself can fill it, and after a chunk that does it leaves the loop.

### Locks

`LockInv` says which thread has the WR lock at which points, that a writer's file is nobody else's and
exists while it is open, and that a new object is not the one GC holds. With it a policy that runs for a
writer records a file that exists, and without GC no other policy runs: this is `RecordedFilesExist`, which
`dangling_record` refutes for the code with GC. `ReadInv` adds that only
`ReplaceExtentList` moves extents, which waits for the readers, and `TypeInv` that the pool of buffers is
finite, so that it can be counted.

### The metadata log

`LogTyped` holds with every fault. `TypeOK` needs the types of what `TypeOK` does not mention: what a zone
replays to is a table, whatever records were torn or lost (`DeviceType`), the record in the hand of an
operation has the shape its kind requires, and a deletion that goes on as a creation or a rename still has
the identity or the file it needs (`OpType`), the snapshot a roll is about to write is a table (`RollType`),
and a migration has a file (`GCType`).

`LogInv` names a leading zone: the one with the complete log of the highest sequence number, which is the
zone of `meta_log_` outside a roll, and the old one until the snapshot is written (`RollInv`). From it
follows that `Mount` chooses this zone (lemma `Leading`) and `Recovered` is its table. `Agree` says how
that table's names differ from `files_`: only at the names of the operation in progress, before or after
its record, and for files that are created and not synced, which a roll in their creation leaves out
(`MayMiss`). `PromiseInv` says that nothing is promised of exactly these names. `OpInv` and `MemInv` say
what an operation has done in memory and that names and links belong together, without which a replay of
its record does not give the new table (lemmas `ReplayUpdate`, `ReplayDeletion`, `ReplaySnapshot`).
The eight steps that persist a record or roll the log have a lemma each; those that start and end
operations are grouped by what they change.

`ExtInv` adds that every extent list, in memory, in the leading log and as reported, is a prefix of the
same list, that `nr_synced_extents_` is the length of the one in the log except between a record and
`MetadataSynced`, and that the record to be written goes on from there. This is what makes a replayed
update continue the list without a gap and without a repetition.

`ResetsOnly` excludes the faults of `FailedRoll`, `OfflineMetaZone` and `TornSnapshot`, which refute
`Mountable`. `SingleThread` (neither `ManyThreads` nor `GCEnabled`) is needed because `SnapshotRace`,
`MigrationRace` and `RenameDuringMigration` refute the properties of extents otherwise; the theorems about
names and mountability do without it.

`FilesDurable` is proved step by step: `DurableInit` for the initial states; `NothingFails`, by which no
operation fails on a device without faults and no caller is misled; `LogChanges` and `OneNameChanges`, by
which a step of the log changes one name, without a promise, and shortens no list (`ListsGrow`);
`ToldIsOnDisk`, by which callers are told what the leading log says; and `DurableStep`, which maps every
step to a `Request`, a `Change`, a `Reply` or a stutter. With failing resets it would not hold as stated:
`RenameRollback` tells a caller of a rename that did not take place.

Checked by TLC before they were proved: `IndInv`, `ActiveInv` and `LockInv` in runs, `LogInv` and `ExtInv`
with `MetaLogInv.cfg` (`ExtInv` implies `LogInv`).

### Only model-checked

- `AllocationReturnsUnlessLost`, `CallsReturn`: liveness under fairness is out of the prover's reach.
- `LogsOrdered`, `NamesKeptUnlessRollFailed`, and `LinksAgree` when appends fail: `LogInv`, on which the proofs
  rest, presumes that a roll succeeds.
- `SyncedKept`, `OnlyOwnData`, `ZonesCharged` and `TypeOK` of `ZoneFile`: they speak of sums over extent lists
  and of the concatenation of their cells, defined by folds. What a fold computes for every list needs an
  induction over data, with theorems whose operator parameters the installed provers cannot instantiate.

## Not modelled

- The ranking of zones by placement policies and by GC, the snapshots it is computed from and the migration
  of cold files: heuristics over statistics. Any choice they can make is a choice of the model.
  `MoveFileToNewLevel` (`fs_zenfs.h:342`) has no callers.
- The cache of descriptors in `zonefs_zenfs.cc` and the `ioctl` layer `zbdlib_zenfs.cc`; their failures are
  the `Faults`.
- The byte formats and checksums of records: a record can be read or it cannot.
- Metrics, logging, parameter parsing, the command-line tool, the workload runner, Tectonic and the scripts,
  which have no state the file system depends on. RocksDB is the environment; it makes up nearly all of the
  repository's lines, so that the modules cover a small share of the repository and most of the state
  machine of the 9,300 lines in `fs/`.
- `MigrateFileExtents` calls `GetFileNoLock` without `files_mtx_` (`fs_gc_zenfs.cc:124`); the look-up is taken
  to be atomic.

----------------------------- MODULE FileLocks -----------------------------
(***************************************************************************)
(* Who waits for whom: files_mtx_, alloc_mutex_, the WR lock of a file,    *)
(* the pool of write buffers and the readers' lock of an extent list, as   *)
(* taken by opening, writing, closing, deleting and reading files and by   *)
(* the GC worker.  A mutex that is taken and released with no wait between *)
(* is one step, possible when the mutex is free; a mutex that is held over *)
(* a wait is a variable's owner.                                           *)
(*                                                                         *)
(* A file here is a ZoneFile object.  RocksDB hands a file from one thread *)
(* to the next, so that no two writers name the same file at a time.       *)
(***************************************************************************)
EXTENDS Integers, FiniteSets

CONSTANTS
    Writers,      \* threads of RocksDB that write and delete files
    Readers,      \* threads of RocksDB that read files
    Files,        \* files
    Migratable,   \* files the GC worker migrates: the .sst files
    Reopenable,   \* files that are opened by ReopenWritableFile
    MaxBuffers,   \* max_buffer_count
    CloseFails,   \* files whose PersistMetadata may fail when they are closed
    EnableGC      \* FLAGS_ENABLE_GC of the superblock: there is a GC worker

CONSTANTS gc, None   \* the GC worker; nobody, nothing

ASSUME FileLocksAssumption ==
    /\ Migratable \subseteq Files /\ Reopenable \subseteq Files
    /\ CloseFails \subseteq Files
    /\ MaxBuffers \in Nat \ {0} /\ EnableGC \in BOOLEAN
    /\ gc \notin Writers /\ None \notin Writers \cup {gc} \cup Files

Threads == Writers \cup {gc}

VARIABLES
    pc,         \* the point of a thread
    file,       \* the file a thread works on
    filesMtx,   \* owner of files_mtx_
    allocMtx,   \* owner of alloc_mutex_
    wr,         \* owner of a file's open_for_wr_mtx_
    buffers,    \* writers that have a write buffer
    exists,     \* files in files_
    recorded,   \* files in levelwise_file_list_
    place,      \* where a file's extents are: 0 or 1, changed by a migration
    writerMtx,  \* owner of a file's writer_mtx_
    reading,    \* the file and the extents a reader is reading
    todo        \* the files the GC worker has chosen

vars == <<pc, file, filesMtx, allocMtx, wr, buffers, exists, recorded, place, writerMtx, reading, todo>>

Init ==
    /\ pc = [t \in Threads |-> "idle"]
    /\ file = [t \in Threads |-> None]
    /\ filesMtx = None /\ allocMtx = None
    /\ wr = [f \in Files |-> None]
    /\ buffers = {} /\ exists = {} /\ recorded = {}
    /\ place = [f \in Files |-> 0]
    /\ writerMtx = [f \in Files |-> None]
    /\ reading = [r \in Readers |-> None] /\ todo = {}

Goto(t, l) == pc' = [pc EXCEPT ![t] = l]

At(t, l) == pc[t] = l

\* No other writer has this file in its hands.
Unshared(f) == \A v \in Writers : file[v] # f

\* Nothing refers to an object that was deleted: it can stand for a new one.
Fresh(f) ==
    /\ file[gc] # f /\ f \notin recorded
    /\ \A r \in Readers : reading[r] # None => reading[r].file # f

\* GetBestOpenZoneMatch of a file with a level: three of the placement policies
\* take the file's record out and put it in again, where it belongs by now.
RecordByPolicy(f) == recorded' \in {recorded, recorded \cup ({f} \cap Migratable)}

-----------------------------------------------------------------------------
(***************************************************************************)
(* OpenWritableFile.                                                       *)
(***************************************************************************)
StartOpen(w, f) ==
    /\ At(w, "idle") /\ Unshared(f)
    /\ IF f \in exists THEN f \in Reopenable ELSE Fresh(f)
    /\ file' = [file EXCEPT ![w] = f]
    /\ Goto(w, "open")
    /\ UNCHANGED <<filesMtx, allocMtx, wr, buffers, exists, recorded, place, writerMtx, reading, todo>>

\* Under files_mtx_: a new file, whose WR lock is free, or one to be reopened.
OpenWritableFile(w) ==
    /\ At(w, "open") /\ filesMtx = None
    /\ filesMtx' = w
    /\ IF file[w] \in exists
       THEN Goto(w, "wrlock") /\ UNCHANGED <<wr, exists>>
       ELSE /\ wr' = [wr EXCEPT ![file[w]] = w]
            /\ exists' = exists \cup {file[w]}
            /\ Goto(w, "buffer")
    /\ UNCHANGED <<file, allocMtx, buffers, recorded, place, writerMtx, reading, todo>>

\* For a mutant: files_mtx_ is given up when the WR lock is there.
AcquireWRLockUnlocking(w) ==
    /\ At(w, "wrlock") /\ wr[file[w]] = None
    /\ wr' = [wr EXCEPT ![file[w]] = w]
    /\ filesMtx' = None
    /\ Goto(w, "buffer")
    /\ UNCHANGED <<file, allocMtx, buffers, exists, recorded, place, writerMtx, reading, todo>>

\* Still under files_mtx_.
AcquireWRLock(w) ==
    /\ At(w, "wrlock") /\ wr[file[w]] = None
    /\ wr' = [wr EXCEPT ![file[w]] = w]
    /\ Goto(w, "buffer")
    /\ UNCHANGED <<file, filesMtx, allocMtx, buffers, exists, recorded, place, writerMtx, reading, todo>>

\* The constructor of ZonedWritableFile, still under files_mtx_.
TakeBuffer(w) ==
    /\ At(w, "buffer") /\ Cardinality(buffers) < MaxBuffers
    /\ buffers' = buffers \cup {w}
    /\ filesMtx' = None
    /\ Goto(w, "writing")
    /\ UNCHANGED <<file, allocMtx, wr, exists, recorded, place, writerMtx, reading, todo>>

-----------------------------------------------------------------------------
(***************************************************************************)
(* Writing: a flush that needs a zone calls AllocateIOZone, under          *)
(* alloc_mutex_, and then PersistMetadata, under files_mtx_.               *)
(***************************************************************************)
FlushBuffer(w) ==
    /\ At(w, "writing")
    /\ Goto(w, "alloc")
    /\ UNCHANGED <<file, filesMtx, allocMtx, wr, buffers, exists, recorded, place, writerMtx, reading, todo>>

AllocateIOZone(w) ==
    /\ At(w, "alloc") /\ allocMtx = None
    /\ RecordByPolicy(file[w])
    /\ Goto(w, "persist")
    /\ UNCHANGED <<file, filesMtx, allocMtx, wr, buffers, exists, place, writerMtx, reading, todo>>

PersistMetadata(w) ==
    /\ At(w, "persist") /\ filesMtx = None
    /\ Goto(w, "writing")
    /\ UNCHANGED <<file, filesMtx, allocMtx, wr, buffers, exists, recorded, place, writerMtx, reading, todo>>

\* CloseWR up to PersistMetadata; the .sst files are the ones with a level.
CreateOrUpdateRecord(w) ==
    /\ At(w, "writing")
    /\ recorded' = recorded \cup ({file[w]} \cap Migratable)
    /\ Goto(w, "closewr")
    /\ UNCHANGED <<file, filesMtx, allocMtx, wr, buffers, exists, place, writerMtx, reading, todo>>

\* For a mutant: the WR lock is not released when the close succeeds either.
CloseWRKeepLock(w) ==
    /\ At(w, "closewr") /\ filesMtx = None
    /\ Goto(w, "destroy")
    /\ UNCHANGED <<file, filesMtx, allocMtx, wr, buffers, exists, recorded, place, writerMtx, reading, todo>>

\* The rest of CloseWR; when PersistMetadata fails, for the Close and again for
\* the destructor, the WR lock is kept.
CloseWR(w) ==
    /\ At(w, "closewr") /\ filesMtx = None
    /\ \/ wr' = [wr EXCEPT ![file[w]] = None]
       \/ file[w] \in CloseFails /\ UNCHANGED wr
    /\ Goto(w, "destroy")
    /\ UNCHANGED <<file, filesMtx, allocMtx, buffers, exists, recorded, place, writerMtx, reading, todo>>

\* The destructor of ZonedWritableFile.
ReturnBuffer(w) ==
    /\ At(w, "destroy")
    /\ buffers' = buffers \ {w}
    /\ file' = [file EXCEPT ![w] = None]
    /\ Goto(w, "idle")
    /\ UNCHANGED <<filesMtx, allocMtx, wr, exists, recorded, place, writerMtx, reading, todo>>

StartDelete(w, f) ==
    /\ At(w, "idle") /\ f \in exists /\ Unshared(f)
    /\ file' = [file EXCEPT ![w] = f]
    /\ Goto(w, "delete")
    /\ UNCHANGED <<filesMtx, allocMtx, wr, buffers, exists, recorded, place, writerMtx, reading, todo>>

\* DeleteFileNoLock with SetDeleted, which removes the file's record.
DeleteFile(w) ==
    /\ At(w, "delete") /\ filesMtx = None
    /\ exists' = exists \ {file[w]}
    /\ recorded' = recorded \ {file[w]}
    /\ file' = [file EXCEPT ![w] = None]
    /\ Goto(w, "idle")
    /\ UNCHANGED <<filesMtx, allocMtx, wr, buffers, place, writerMtx, reading, todo>>

-----------------------------------------------------------------------------
(***************************************************************************)
(* PositionedRead: ReadLock, and its end.                                  *)
(***************************************************************************)
StartRead(r, f) ==
    /\ reading[r] = None /\ f \in exists /\ writerMtx[f] = None
    /\ reading' = [reading EXCEPT ![r] = [file |-> f, place |-> place[f]]]
    /\ UNCHANGED <<pc, file, filesMtx, allocMtx, wr, buffers, exists, recorded, place, writerMtx, todo>>

EndRead(r) ==
    /\ reading[r] # None
    /\ reading' = [reading EXCEPT ![r] = None]
    /\ UNCHANGED <<pc, file, filesMtx, allocMtx, wr, buffers, exists, recorded, place, writerMtx, todo>>

-----------------------------------------------------------------------------
(***************************************************************************)
(* The GC worker, under alloc_mutex_ for an iteration.                     *)
(***************************************************************************)
GCWorker ==
    /\ EnableGC /\ At(gc, "idle") /\ allocMtx = None
    /\ allocMtx' = gc
    /\ Goto(gc, "select")
    /\ UNCHANGED <<file, filesMtx, wr, buffers, exists, recorded, place, writerMtx, reading, todo>>

\* GetZenFSSnapshot, under files_mtx_, skips the files that are open; some of
\* the others have extents in the zones to be cleaned.
GetZenFSSnapshot ==
    /\ At(gc, "select") /\ filesMtx = None
    /\ \E chosen \in SUBSET {f \in exists \cap Migratable : wr[f] = None} : todo' = chosen
    /\ Goto(gc, "next")
    /\ UNCHANGED <<file, filesMtx, allocMtx, wr, buffers, exists, recorded, place, writerMtx, reading>>

\* GetFile of MigrateFileExtents, under files_mtx_.
GetFile ==
    /\ At(gc, "next") /\ filesMtx = None
    /\ \E f \in todo :
         /\ todo' = todo \ {f}
         /\ IF f \in exists
            THEN file' = [file EXCEPT ![gc] = f] /\ Goto(gc, "trylock")
            ELSE UNCHANGED <<file, pc>>
    /\ UNCHANGED <<filesMtx, allocMtx, wr, buffers, exists, recorded, place, writerMtx, reading>>

\* For a mutant: the WR lock of an open file is not respected.
TryAcquireWRLockAnyway ==
    /\ At(gc, "trylock")
    /\ wr' = [wr EXCEPT ![file[gc]] = gc] /\ Goto(gc, "copy")
    /\ UNCHANGED <<file, filesMtx, allocMtx, buffers, exists, recorded, place, writerMtx, reading, todo>>

TryAcquireWRLock ==
    /\ At(gc, "trylock")
    /\ IF wr[file[gc]] = None
       THEN wr' = [wr EXCEPT ![file[gc]] = gc] /\ Goto(gc, "copy")
       ELSE Goto(gc, "next") /\ UNCHANGED wr
    /\ UNCHANGED <<file, filesMtx, allocMtx, buffers, exists, recorded, place, writerMtx, reading, todo>>

\* One extent of the file: TakeMigrateZone chooses a zone by the placement
\* policies, also for a file that was deleted since GetFile, and MigrateData
\* copies the extent there; without a zone the extent is passed over.
TakeMigrateZone ==
    /\ At(gc, "copy")
    /\ RecordByPolicy(file[gc])
    /\ \E l \in {"copied", "copy"} : Goto(gc, l)
    /\ UNCHANGED <<file, filesMtx, allocMtx, wr, buffers, exists, place, writerMtx, reading, todo>>

\* GetFileNoLock after the copy: the loop ends when the file is gone.
CheckFile ==
    /\ At(gc, "copied")
    /\ Goto(gc, IF file[gc] \in exists THEN "copy" ELSE "swap")
    /\ UNCHANGED <<file, filesMtx, allocMtx, wr, buffers, exists, recorded, place, writerMtx, reading, todo>>

\* For a mutant: the WR lock is given up before the extents are replaced.
WriteLockReleasing ==
    /\ pc[gc] \in {"copy", "swap"}
    /\ writerMtx' = [writerMtx EXCEPT ![file[gc]] = gc]
    /\ wr' = [wr EXCEPT ![file[gc]] = None]
    /\ Goto(gc, "replace")
    /\ UNCHANGED <<file, filesMtx, allocMtx, buffers, exists, recorded, place, reading, todo>>

\* After the last extent, the WriteLock of ReplaceExtentList keeps new readers
\* out ...
WriteLock ==
    /\ pc[gc] \in {"copy", "swap"}
    /\ writerMtx' = [writerMtx EXCEPT ![file[gc]] = gc]
    /\ Goto(gc, "replace")
    /\ UNCHANGED <<file, filesMtx, allocMtx, wr, buffers, exists, recorded, place, reading, todo>>

\* For a mutant: the readers there are are not waited for.
ReplaceExtentListAtOnce ==
    /\ At(gc, "replace")
    /\ place' = [place EXCEPT ![file[gc]] = 1 - @]
    /\ writerMtx' = [writerMtx EXCEPT ![file[gc]] = None]
    /\ Goto(gc, "sync")
    /\ UNCHANGED <<file, filesMtx, allocMtx, wr, buffers, exists, recorded, reading, todo>>

\* ... and waits for the ones there are.
ReplaceExtentList ==
    /\ At(gc, "replace")
    /\ \A r \in Readers : reading[r] # None => reading[r].file # file[gc]
    /\ place' = [place EXCEPT ![file[gc]] = 1 - @]
    /\ writerMtx' = [writerMtx EXCEPT ![file[gc]] = None]
    /\ Goto(gc, "sync")
    /\ UNCHANGED <<file, filesMtx, allocMtx, wr, buffers, exists, recorded, reading, todo>>

SyncFileMetadata ==
    /\ At(gc, "sync") /\ filesMtx = None
    /\ Goto(gc, "release")
    /\ UNCHANGED <<file, filesMtx, allocMtx, wr, buffers, exists, recorded, place, writerMtx, reading, todo>>

ReleaseWRLock ==
    /\ At(gc, "release")
    /\ wr' = [wr EXCEPT ![file[gc]] = None]
    /\ Goto(gc, "next")
    /\ UNCHANGED <<file, filesMtx, allocMtx, buffers, exists, recorded, place, writerMtx, reading, todo>>

EndOfIteration ==
    /\ At(gc, "next") /\ todo = {}
    /\ allocMtx' = None
    /\ file' = [file EXCEPT ![gc] = None]
    /\ Goto(gc, "idle")
    /\ UNCHANGED <<filesMtx, wr, buffers, exists, recorded, place, writerMtx, reading, todo>>

-----------------------------------------------------------------------------
\* Steps that wait for a mutex, and the steps of a thread that is not waiting.
Locks(w) ==
    OpenWritableFile(w) \/ AllocateIOZone(w) \/ PersistMetadata(w) \/ CloseWR(w) \/ DeleteFile(w)

Steps(w) == AcquireWRLock(w) \/ TakeBuffer(w) \/ ReturnBuffer(w)

GCLocks == GetZenFSSnapshot \/ GetFile \/ SyncFileMetadata

GCSteps ==
    \/ TryAcquireWRLock \/ TakeMigrateZone \/ CheckFile \/ WriteLock
    \/ ReplaceExtentList \/ ReleaseWRLock \/ EndOfIteration

Next ==
    \/ \E w \in Writers :
         \/ \E f \in Files : StartOpen(w, f) \/ StartDelete(w, f)
         \/ FlushBuffer(w) \/ CreateOrUpdateRecord(w) \/ Locks(w) \/ Steps(w)
    \/ \E r \in Readers : EndRead(r) \/ \E f \in Files : StartRead(r, f)
    \/ GCWorker \/ GCLocks \/ GCSteps

Spec == Init /\ [][Next]_vars

\* Threads keep being scheduled, a mutex that is free again and again is
\* obtained, a read ends, a file is closed at some time, and a file has finitely
\* many extents to migrate.
FairSpec ==
    /\ Spec
    /\ \A w \in Writers : /\ SF_vars(Locks(w)) /\ WF_vars(Steps(w))
                          /\ SF_vars(CreateOrUpdateRecord(w))
    /\ \A r \in Readers : WF_vars(EndRead(r))
    /\ SF_vars(GCLocks) /\ WF_vars(GCSteps) /\ SF_vars(WriteLock)

-----------------------------------------------------------------------------
Points == {"idle", "open", "wrlock", "buffer", "writing", "alloc", "persist", "closewr",
           "destroy", "delete", "select", "next", "trylock", "copy", "copied", "swap",
           "replace", "sync", "release"}

\* Points at which a thread has the WR lock of its file.
Owning == {"buffer", "writing", "alloc", "persist", "closewr"}
Migrating == {"copy", "copied", "swap", "replace", "sync", "release"}

\* The variables have their types, and a mutex that is held over a wait is held
\* by a thread at one of the points where the code holds it.
TypeOK ==
    /\ \A t \in Threads : file[t] \in Files \cup {None}
    /\ filesMtx \in Writers \cup {None} /\ allocMtx \in {gc, None}
    /\ wr \in [Files -> Threads \cup {None}]
    /\ todo \subseteq Migratable
    /\ buffers \subseteq Writers /\ Cardinality(buffers) <= MaxBuffers
    /\ exists \subseteq Files /\ recorded \subseteq Files
    /\ \A w \in Writers : filesMtx = w <=> pc[w] \in {"wrlock", "buffer"}
    /\ allocMtx = gc <=> pc[gc] # "idle"

\* A writer has the WR lock of the file it writes, from the open to the close,
\* whatever the GC worker migrates meanwhile.
WriterOwnsFile ==
    \A w \in Writers : pc[w] \in {"writing", "alloc", "persist", "closewr"} => wr[file[w]] = w

\* A reader that is in the middle of a read reads the extents the file has:
\* a migration does not move them, nor free the old ones, under it.
ReadsCurrentExtents ==
    \A r \in Readers : reading[r] # None => place[reading[r].file] = reading[r].place

\* The files in levelwise_file_list_ exist.
RecordsExist == recorded \subseteq exists

\* The records that the placement policies follow are plain pointers; each points
\* to a ZoneFile object that files_, the GC worker or a reader keeps alive.
RecordsAlive ==
    \A f \in recorded :
        \/ f \in exists
        \/ file[gc] = f /\ pc[gc] \in Migrating \cup {"trylock"}
        \/ \E r \in Readers : reading[r] # None /\ reading[r].file = f

\* What makes WriterOwnsFile inductive: a writer's file is its own and exists
\* while it is open, the WR lock belongs to the thread that is between taking and
\* releasing it, and a new object is not being migrated.
LockInv ==
    /\ pc \in [Threads -> Points]
    /\ file \in [Threads -> Files \cup {None}]
    /\ wr \in [Files -> Threads \cup {None}]
    /\ exists \subseteq Files /\ todo \subseteq Files /\ recorded \subseteq Files
    /\ \A w \in Writers : file[w] = None <=> pc[w] = "idle"
    /\ \A v, w \in Writers : v # w /\ file[v] = file[w] => file[w] = None
    /\ \A w \in Writers : pc[w] \in Owning => wr[file[w]] = w
    /\ \A w \in Writers : pc[w] \in Owning \cup {"wrlock", "destroy"} => file[w] \in exists
    /\ \A w \in Writers : pc[w] = "open" /\ file[w] \notin exists => file[gc] # file[w]
    /\ pc[gc] \in Migrating \cup {"trylock"} => file[gc] # None
    /\ pc[gc] \in Migrating => wr[file[gc]] = gc

\* Every call of OpenWritableFile, Append, Close and DeleteFile returns.
CallsReturn ==
    \A w \in Writers : pc[w] \notin {"idle", "writing"} ~> pc[w] \in {"idle", "writing"}

\* Every call of OpenWritableFile returns.
OpensReturn ==
    \A w \in Writers : pc[w] = "open" ~> pc[w] = "writing"

=============================================================================

------------------------------ MODULE MetaLog ------------------------------
(***************************************************************************)
(* The metadata log of ZenFS: the records that describe files, the meta    *)
(* zones they are appended to, rolling the log to another meta zone, and   *)
(* Mount, which rebuilds the file table after a crash.                     *)
(*                                                                         *)
(* All metadata operations run under files_mtx_, so there is at most one   *)
(* in progress: "op", at the point "pc".  Every device command is a step   *)
(* of its own and a crash may come between any two.  What runs outside the *)
(* mutex are the appends of writers (AddExtent) and the first half of a    *)
(* migration's SyncFileExtents.                                            *)
(*                                                                         *)
(* The log of a zone is represented by what RecoverFrom makes of it        *)
(* record by record: RecoverFrom is a left fold of its Decode functions    *)
(* over the records, and Replay is one step of that fold, taken when the   *)
(* record is appended.                                                     *)
(***************************************************************************)
EXTENDS Integers, Sequences, FiniteSets

CONSTANTS
    NrMetaZones,     \* number of meta zones
    MetaCapacity,    \* blocks of a meta zone
    SnapshotBlocks,  \* blocks of a snapshot; every other record has one
    Names,           \* names of files
    ManyThreads,     \* do writers append while another thread holds files_mtx_?
    GCEnabled,       \* does the GC worker migrate files?
    Faults,          \* device faults that happen, a subset of AllFaults
    MaxFileId,       \* bound: file identities
    MaxExtents,      \* bound: extents of a file
    MaxSeq,          \* bound: superblock sequence number at which requests stop
    MaxCrashes       \* bound: crashes

AllFaults == {"append", "reset", "offline", "torn"}

ASSUME MetaLogAssumption ==
    /\ NrMetaZones \in Nat /\ NrMetaZones >= 2
    /\ SnapshotBlocks \in Nat \ {0}
    /\ MetaCapacity \in Nat /\ MetaCapacity > SnapshotBlocks
    /\ ManyThreads \in BOOLEAN /\ GCEnabled \in BOOLEAN
    /\ Faults \subseteq AllFaults
    /\ MaxFileId \in Nat /\ MaxExtents \in Nat /\ MaxSeq \in Nat /\ MaxCrashes \in Nat

MetaZones == 1..NrMetaZones
FileIds == 1..MaxFileId
NoFile == 0
Unknown == -1
Misled == -2
NoSuper == 0       \* the zone has no record
BadSuper == -1     \* the first record of the zone is not a superblock

VARIABLES
    cap,       \* Zone::capacity_ of the meta zones, in blocks
    super,     \* sequence number of the superblock a zone starts with
    img,       \* what RecoverFrom makes of a zone's records
    mem,       \* files_ and the link names and extents of the ZoneFiles
    synced,    \* ZoneFile::nr_synced_extents_
    next,      \* next_file_id_
    open,      \* files whose WR lock a writer holds
    deleted,   \* files marked by SetDeleted
    cur, old,  \* zones of meta_log_ and, in a roll, of old_meta_log
    seq,       \* superblock_->sequence_
    op, pc,    \* the metadata operation in progress and its point
    snap,      \* the snapshot that is being written
    gc,        \* the file the GC worker migrates, and its point
    crashes,   \* number of crashes
    promise,   \* what callers have been told of a name: a file, or NoFile, or Misled
    stable     \* the extents of a file that callers have been told are stored

device == <<cap, super, img>>
files  == <<mem, synced, next, open, deleted>>
roll   == <<cur, old, seq, snap>>
told   == <<promise, stable>>
vars   == <<device, files, roll, op, pc, gc, crashes, told>>

-----------------------------------------------------------------------------
(***************************************************************************)
(* File tables, as in memory and as recovered from a zone.  linkfiles_ is  *)
(* a set: its order only matters to DecodeFileUpdateFrom's "new file".     *)
(***************************************************************************)
NoFiles == [files |-> [n \in Names |-> NoFile],
            links |-> [i \in FileIds |-> {}],
            exts  |-> [i \in FileIds |-> << >>]]

Blank == [state |-> "none", ended |-> FALSE, table |-> NoFiles, next |-> 1]

Alive(t) == {t.files[n] : n \in Names} \ {NoFile}

SetFile(t, n, i) == [t EXCEPT !.files = [t.files EXCEPT ![n] = i]]

SetLinks(t, i, N) == [t EXCEPT !.links = [t.links EXCEPT ![i] = N]]

SetExts(t, i, e) == [t EXCEPT !.exts = [t.exts EXCEPT ![i] = e]]

\* A name of files_ together with AddLinkName, RemoveLinkName and RenameLink.
AddLinkName(t, i, n) == SetLinks(SetFile(t, n, i), i, t.links[i] \cup {n})

RemoveLinkName(t, i, n) == SetLinks(SetFile(t, n, NoFile), i, t.links[i] \ {n})

RenameLink(t, i, src, dest) ==
    SetLinks(SetFile(SetFile(t, src, NoFile), dest, i), i, (t.links[i] \ {src}) \cup {dest})

\* For a mutant: the extents from the last synced one on.
EncodeOffByOne(t, i, from, tag) ==
    [tag |-> tag, id |-> i, links |-> t.links[i],
     exts |-> SubSeq(t.exts[i], IF from = 0 THEN 1 ELSE from, Len(t.exts[i]))]

\* For a mutant: all extents but the last.
EncodeWithoutLast(t, i, from, tag) ==
    [tag |-> tag, id |-> i, links |-> t.links[i],
     exts |-> SubSeq(t.exts[i], from + 1, Len(t.exts[i]) - 1)]

\* ZoneFile::EncodeTo from an extent on.
Encode(t, i, from, tag) ==
    [tag |-> tag, id |-> i, links |-> t.links[i],
     exts |-> SubSeq(t.exts[i], from + 1, Len(t.exts[i]))]

Deletion(i, n) == [tag |-> "deletion", id |-> i, name |-> n]

\* EncodeSnapshotTo: the files of files_, whatever other ZoneFiles exist.
Snapshot(t) ==
    [tag |-> "snapshot",
     table |-> [files |-> t.files,
                links |-> [i \in FileIds |-> IF i \in Alive(t) THEN t.links[i] ELSE {}],
                exts  |-> [i \in FileIds |-> IF i \in Alive(t) THEN t.exts[i] ELSE << >>]]]

\* A file of which no name is left is destroyed.
Drop(t, i) ==
    IF i \in Alive(t) THEN t ELSE SetExts(SetLinks(t, i, {}), i, << >>)

\* For a mutant: the names a file had are not erased.
DecodeFileUpdateKeepsNames(m, r) ==
    LET t == m.table
    IN  [m EXCEPT !.table = [files |-> [n \in Names |-> IF n \in r.links THEN r.id ELSE t.files[n]],
                             links |-> [t.links EXCEPT ![r.id] = r.links],
                             exts  |-> [t.exts EXCEPT ![r.id] = @ \o r.exts]],
                  !.next = IF r.id >= @ THEN r.id + 1 ELSE @]

DecodeFileUpdateFrom(m, r) ==
    LET t     == m.table
        known == r.id \in Alive(t)
        under == IF known THEN r.links ELSE {CHOOSE n \in r.links : TRUE}
        freed == [n \in Names |-> IF known /\ n \in t.links[r.id] THEN NoFile ELSE t.files[n]]
    IN  IF known /\ \E n \in t.links[r.id] : t.files[n] = NoFile
        THEN [m EXCEPT !.state = "corrupt"]
        ELSE [m EXCEPT
               !.table = [files |-> [n \in Names |-> IF n \in under /\ freed[n] = NoFile
                                                     THEN r.id ELSE freed[n]],
                          links |-> [t.links EXCEPT ![r.id] = r.links],
                          exts  |-> [t.exts EXCEPT
                                       ![r.id] = IF known /\ r.tag = "update"
                                                 THEN @ \o r.exts ELSE r.exts]],
               !.next = IF r.id >= @ THEN r.id + 1 ELSE @]

DecodeFileDeletionFrom(m, r) ==
    LET t == m.table
        u == RemoveLinkName(t, r.id, r.name)
    IN  IF t.files[r.name] # r.id THEN [m EXCEPT !.state = "corrupt"]
        ELSE [m EXCEPT !.table = Drop(u, r.id)]

DecodeSnapshotFrom(m, r) ==
    LET ids == Alive(r.table) \cup {m.next - 1}
    IN  [m EXCEPT !.state = "ok", !.table = r.table,
                  !.next = 1 + CHOOSE i \in ids : \A j \in ids : j <= i]

\* One round of RecoverFrom's loop: nothing is read after an end record or an
\* error; a torn record fails its checksum.
Replay(m, r) ==
    IF m.ended \/ m.state = "corrupt" THEN m
    ELSE CASE r.tag = "end"      -> [m EXCEPT !.ended = TRUE]
           [] r.tag = "torn"     -> [m EXCEPT !.state = "corrupt"]
           [] r.tag = "snapshot" -> DecodeSnapshotFrom(m, r)
           [] r.tag = "deletion" -> DecodeFileDeletionFrom(m, r)
           [] OTHER              -> DecodeFileUpdateFrom(m, r)

-----------------------------------------------------------------------------
(***************************************************************************)
(* Mount's choice of a log.  Valid superblocks are tried from the highest  *)
(* sequence number down; only a zone without a snapshot (NotFound) is      *)
(* passed over.                                                            *)
(***************************************************************************)
Valid == {z \in MetaZones : super[z] > NoSuper}

Before(y, z) == super[y] > super[z] \/ (super[y] = super[z] /\ y > z)

MountsFrom(z) ==
    /\ z \in Valid
    /\ img[z].state # "none"
    /\ \A y \in Valid : Before(y, z) => img[y].state = "none"

MountSucceeds ==
    /\ \A z \in MetaZones : super[z] # BadSuper
    /\ \E z \in MetaZones : MountsFrom(z) /\ img[z].state = "ok"

\* What a mount would find now.
Recovered ==
    IF MountSucceeds THEN img[CHOOSE z \in MetaZones : MountsFrom(z)].table ELSE NoFiles

-----------------------------------------------------------------------------
\* For a mutant: the capacity is not checked.
AddRecordUnchecked(z, r, blocks) ==
    /\ cap' = [cap EXCEPT ![z] = @ - blocks]
    /\ IF r.tag = "super"
       THEN super' = [super EXCEPT ![z] = r.seq] /\ UNCHANGED img
       ELSE img' = [img EXCEPT ![z] = Replay(@, r)] /\ UNCHANGED super

\* ZenMetaLog::AddRecord: one Append of a zone that has room for it.
AddRecord(z, r, blocks) ==
    /\ cap[z] >= blocks
    /\ cap' = [cap EXCEPT ![z] = @ - blocks]
    /\ IF r.tag = "super"
       THEN super' = [super EXCEPT ![z] = r.seq] /\ UNCHANGED img
       ELSE /\ super' = [super EXCEPT ![z] = IF @ = NoSuper THEN BadSuper ELSE @]
            /\ img' = [img EXCEPT ![z] = Replay(@, r)]

\* Zone::Reset; a zone that the reset finds offline has no capacity.  The fault
\* "offline" takes one zone offline.
Reset(z, capacity) ==
    /\ cap' = [cap EXCEPT ![z] = capacity]
    /\ super' = [super EXCEPT ![z] = NoSuper]
    /\ img' = [img EXCEPT ![z] = Blank]

IsEmpty(z) == super[z] = NoSuper

ResetCapacities ==
    {MetaCapacity} \cup {c \in {0} : /\ "offline" \in Faults
                                     /\ \A z \in MetaZones : ~(IsEmpty(z) /\ cap[z] = 0)}

NoOp == [kind |-> "none"]
Idle == pc' = "idle" /\ op' = NoOp

\* The promises of names end when a request that concerns them starts.
Doubt(N) == promise' = [n \in Names |-> IF n \in N THEN Unknown ELSE promise[n]]

-----------------------------------------------------------------------------
(***************************************************************************)
(* PersistRecord and RollMetaZoneLocked.                                   *)
(***************************************************************************)
\* For a mutant: the status of a failed append is lost.
PersistRecordIgnoresFailure ==
    /\ pc = "persist"
    /\ \/ AddRecord(cur, op.rec, 1) /\ pc' = "ok"
       \/ cap[cur] < 1 /\ pc' = "allocate" /\ UNCHANGED device
       \/ "append" \in Faults /\ cap[cur] >= 1 /\ pc' = "ok" /\ UNCHANGED device
    /\ UNCHANGED <<files, roll, op, gc, crashes, told>>

\* AddRecord of the operation's record; a full zone starts a roll.
PersistRecord ==
    /\ pc = "persist"
    /\ \/ AddRecord(cur, op.rec, 1) /\ pc' = "ok"
       \/ cap[cur] < 1 /\ pc' = "allocate" /\ UNCHANGED device
       \/ "append" \in Faults /\ cap[cur] >= 1 /\ pc' = "failed" /\ UNCHANGED device
    /\ UNCHANGED <<files, roll, op, gc, crashes, told>>

\* The first meta zone that is not busy, reset if it is not empty; zones whose
\* reset fails are passed over.
AllocateMetaZone ==
    /\ pc = "allocate"
    /\ \/ \E z \in MetaZones \ {cur} :
            /\ \A y \in MetaZones \ {cur} : y < z => ~IsEmpty(y) /\ "reset" \in Faults
            /\ IF IsEmpty(z) THEN UNCHANGED device
               ELSE \E c \in ResetCapacities : Reset(z, c)
            /\ cur' = z /\ old' = cur
            /\ pc' = "end"
       \/ /\ "reset" \in Faults
          /\ \A y \in MetaZones \ {cur} : ~IsEmpty(y)
          /\ pc' = "failed"
          /\ UNCHANGED <<device, cur, old>>
    /\ UNCHANGED <<files, seq, snap, op, gc, crashes, told>>

\* The end record and the Finish of the old zone; their status is ignored.
WriteEndRecord ==
    /\ pc = "end"
    /\ \/ AddRecord(old, [tag |-> "end"], 1)
       \/ (cap[old] = 0 \/ "append" \in Faults) /\ UNCHANGED device
    /\ pc' = "finish"
    /\ UNCHANGED <<files, roll, op, gc, crashes, told>>

\* For a mutant: the old zone is reset before the snapshot is written.
ResetOldFirst ==
    /\ pc = "finish"
    /\ Reset(old, MetaCapacity)
    /\ pc' = "super"
    /\ UNCHANGED <<files, roll, op, gc, crashes, told>>

\* Without its end record, a zone that is finished with capacity left reads as
\* zeros after the last record, which are no valid record.
FinishOld ==
    /\ pc = "finish"
    /\ cap' = [cap EXCEPT ![old] = 0]
    /\ img' = IF cap[old] = 0 THEN img ELSE [img EXCEPT ![old] = Replay(@, [tag |-> "torn"])]
    /\ pc' = "super"
    /\ UNCHANGED <<super, files, roll, op, gc, crashes, told>>

\* For a mutant: the superblock is written with the old sequence number.
WriteSuperblockSameSeq ==
    /\ pc = "super"
    /\ \/ AddRecord(cur, [tag |-> "super", seq |-> seq], 1) /\ pc' = "encode"
       \/ (cap[cur] = 0 \/ "append" \in Faults) /\ pc' = "failed" /\ UNCHANGED device
    /\ UNCHANGED <<files, roll, op, gc, crashes, told>>

WriteSuperblock ==
    /\ pc = "super"
    /\ seq' = seq + 1
    /\ \/ AddRecord(cur, [tag |-> "super", seq |-> seq + 1], 1) /\ pc' = "encode"
       \/ (cap[cur] = 0 \/ "append" \in Faults) /\ pc' = "failed" /\ UNCHANGED device
    /\ UNCHANGED <<files, cur, old, snap, op, gc, crashes, told>>

\* WriteSnapshotLocked: what EncodeSnapshotTo saw is written, and what
\* MetadataSynced marks afterwards is what the files hold by then.
EncodeSnapshot ==
    /\ pc = "encode"
    /\ snap' = Snapshot(mem)
    /\ pc' = "snapshot"
    /\ UNCHANGED <<device, files, cur, old, seq, op, gc, crashes, told>>

WriteSnapshot ==
    /\ pc = "snapshot"
    /\ \/ /\ AddRecord(cur, snap, SnapshotBlocks)
          /\ synced' = [i \in FileIds |-> IF i \in Alive(mem) THEN Len(mem.exts[i])
                                          ELSE synced[i]]
          /\ pc' = "reset"
       \/ /\ cap[cur] < SnapshotBlocks \/ "append" \in Faults
          /\ pc' = "failed"
          /\ UNCHANGED <<device, synced>>
    /\ snap' = NoOp
    /\ UNCHANGED <<mem, next, open, deleted, cur, old, seq, op, gc, crashes, told>>

ResetOld ==
    /\ pc = "reset"
    /\ \/ \E c \in ResetCapacities : Reset(old, c)
       \/ "reset" \in Faults /\ UNCHANGED device
    /\ pc' = "ok"
    /\ UNCHANGED <<files, roll, op, gc, crashes, told>>

-----------------------------------------------------------------------------
(***************************************************************************)
(* The operations up to PersistRecord.  Start(o, t) leaves table t in      *)
(* memory and the operation o to be persisted.                             *)
(***************************************************************************)
Start(o, t) == op' = o /\ mem' = t /\ pc' = "persist"

Request == pc = "idle" /\ seq < MaxSeq

\* DeleteFileNoLock up to its record; "then" is what its caller does next.
StartDelete(n, then, from) ==
    LET i == mem.files[n]
        t == RemoveLinkName(mem, i, n)
    IN  Start([kind |-> "delete", id |-> i, name |-> n, from |-> from, then |-> then,
               rec |-> Deletion(i, n)], t)

\* OpenWritableFile from make_shared up to its record.
StartCreate(n) ==
    LET t == SetLinks(mem, next, {n})
    IN  /\ Start([kind |-> "create", id |-> next, name |-> n,
                  rec |-> Encode(t, next, 0, "update")], t)
        /\ next' = next + 1

\* RenameFileNoLock from RenameLink up to its record.
StartRename(from, n) ==
    LET i == mem.files[from]
        t == RenameLink(mem, i, from, n)
    IN  Start([kind |-> "rename", id |-> i, name |-> n, from |-> from,
               rec |-> Encode(t, i, synced[i], "update")], t)

\* A file that is open for writing keeps its names: RocksDB closes it first.
Closed(n) == mem.files[n] \notin open

OpenWritableFile(n) ==
    /\ Request /\ next <= MaxFileId /\ Closed(n)
    /\ IF mem.files[n] # NoFile
       THEN StartDelete(n, "create", n) /\ UNCHANGED next
       ELSE StartCreate(n)
    /\ Doubt({n})
    /\ UNCHANGED <<device, synced, open, deleted, roll, gc, crashes, stable>>

ReopenWritableFile(n) ==
    /\ Request /\ mem.files[n] # NoFile /\ Closed(n) /\ gc.id # mem.files[n]
    /\ open' = open \cup {mem.files[n]}
    /\ UNCHANGED <<device, mem, synced, next, deleted, roll, op, pc, gc, crashes, told>>

DeleteFile(n) ==
    /\ Request /\ mem.files[n] # NoFile /\ Closed(n)
    /\ StartDelete(n, "return", n)
    /\ Doubt({n})
    /\ UNCHANGED <<device, synced, next, open, deleted, roll, gc, crashes, stable>>

\* An existing destination is deleted first.  When that is the source itself,
\* RenameLink no longer finds the name, and the caller gets an error.
RenameFile(from, n) ==
    /\ Request /\ mem.files[from] # NoFile /\ Closed(from) /\ Closed(n)
    /\ IF mem.files[n] # NoFile
       THEN StartDelete(n, IF from = n THEN "error" ELSE "rename", from)
       ELSE StartRename(from, n)
    /\ Doubt({from, n})
    /\ UNCHANGED <<device, synced, next, open, deleted, roll, gc, crashes, stable>>

LinkFile(n, link) ==
    LET i == mem.files[n]
        t == AddLinkName(mem, i, link)
    IN  /\ Request /\ i # NoFile /\ Closed(n) /\ mem.files[link] = NoFile
        /\ Start([kind |-> "link", id |-> i, name |-> link,
                  rec |-> Encode(t, i, synced[i], "update")], t)
        /\ Doubt({link})
        /\ UNCHANGED <<device, synced, next, open, deleted, roll, gc, crashes, stable>>

\* PersistMetadata of an open file, from its Fsync or its CloseWR.
SyncFileMetadata(i, kind) ==
    /\ Request /\ i \in open
    /\ Start([kind |-> kind, id |-> i, rec |-> Encode(mem, i, synced[i], "update")], mem)
    /\ UNCHANGED <<device, synced, next, open, deleted, roll, gc, crashes, told>>

\* A writer's PushExtent; its own thread is not in a metadata operation.
AddExtent(i) ==
    /\ i \in open
    /\ pc = "idle" \/ (ManyThreads /\ ~(op.kind \in {"fsync", "close"} /\ op.id = i))
    /\ Len(mem.exts[i]) < MaxExtents
    /\ mem' = SetExts(mem, i, Append(mem.exts[i], [n |-> Len(mem.exts[i]) + 1, copy |-> 0]))
    /\ UNCHANGED <<device, synced, next, open, deleted, roll, op, pc, gc, crashes, told>>

-----------------------------------------------------------------------------
(***************************************************************************)
(* The operations from PersistRecord on.  MetadataSynced marks what the    *)
(* file holds by now, not what was encoded.                                *)
(***************************************************************************)
Synced == synced' = [synced EXCEPT ![op.id] = Len(mem.exts[op.id])]

\* Callers learn that the names N denote what they denote in table t.
Tell(N, t) ==
    promise' = [n \in Names |-> IF n \in N THEN t.files[n] ELSE promise[n]]

CreateOk ==
    /\ pc = "ok" /\ op.kind = "create"
    /\ mem' = SetFile(mem, op.name, op.id)
    /\ open' = open \cup {op.id}
    /\ Synced /\ Idle
    /\ UNCHANGED <<device, next, deleted, roll, gc, crashes, told>>

CreateFailed ==
    /\ pc = "failed" /\ op.kind = "create"
    /\ mem' = Drop(mem, op.id)
    /\ Idle
    /\ UNCHANGED <<device, synced, next, open, deleted, roll, gc, crashes, told>>

\* The last link marks the file deleted; then the caller goes on.
DeleteOk ==
    /\ pc = "ok" /\ op.kind = "delete"
    /\ deleted' = IF mem.links[op.id] = {} THEN deleted \cup {op.id} ELSE deleted
    /\ CASE op.then = "return" -> Idle /\ Tell({op.name}, mem) /\ UNCHANGED <<mem, next>>
         [] op.then = "create" -> StartCreate(op.name) /\ UNCHANGED promise
         [] op.then = "rename" -> StartRename(op.from, op.name) /\ UNCHANGED <<next, promise>>
         [] op.then = "error"  -> Idle /\ UNCHANGED <<mem, next, promise>>
    /\ UNCHANGED <<device, synced, open, roll, gc, crashes, stable>>

DeleteFailed ==
    /\ pc = "failed" /\ op.kind = "delete"
    /\ mem' = AddLinkName(mem, op.id, op.name)
    /\ Idle
    /\ UNCHANGED <<device, synced, next, open, deleted, roll, gc, crashes, told>>

RenameOk ==
    /\ pc = "ok" /\ op.kind = "rename"
    /\ Synced /\ Idle
    /\ Tell({op.from, op.name}, mem)
    /\ UNCHANGED <<device, mem, next, open, deleted, roll, gc, crashes, stable>>

\* A roll back overwrites the status with the one of its own RenameLink or
\* RemoveLinkName, so the caller is told that the change took place.
Mislead(N) == promise' = [n \in Names |-> IF n \in N THEN Misled ELSE promise[n]]

\* For a mutant: files_ is rolled back and the link names of the file are not.
RenameFailedKeepsLink ==
    /\ pc = "failed" /\ op.kind = "rename"
    /\ mem' = SetFile(SetFile(mem, op.name, NoFile), op.from, op.id)
    /\ Mislead({op.from, op.name}) /\ Idle
    /\ UNCHANGED <<device, synced, next, open, deleted, roll, gc, crashes, stable>>

RenameFailed ==
    /\ pc = "failed" /\ op.kind = "rename"
    /\ mem' = RenameLink(mem, op.id, op.name, op.from)
    /\ Mislead({op.from, op.name}) /\ Idle
    /\ UNCHANGED <<device, synced, next, open, deleted, roll, gc, crashes, stable>>

LinkOk ==
    /\ pc = "ok" /\ op.kind = "link"
    /\ Synced /\ Idle
    /\ Tell({op.name}, mem)
    /\ UNCHANGED <<device, mem, next, open, deleted, roll, gc, crashes, stable>>

LinkFailed ==
    /\ pc = "failed" /\ op.kind = "link"
    /\ mem' = RemoveLinkName(mem, op.id, op.name)
    /\ Mislead({op.name}) /\ Idle
    /\ UNCHANGED <<device, synced, next, open, deleted, roll, gc, crashes, stable>>

\* Fsync returns; CloseWR releases the WR lock as well.
SyncOk ==
    /\ pc = "ok" /\ op.kind \in {"fsync", "close"}
    /\ open' = IF op.kind = "close" THEN open \ {op.id} ELSE open
    /\ Synced /\ Idle
    /\ Tell(mem.links[op.id], mem)
    /\ stable' = [stable EXCEPT ![op.id] = mem.exts[op.id]]
    /\ UNCHANGED <<device, mem, next, deleted, roll, gc, crashes>>

\* CloseWR returns before it releases the WR lock.
SyncFailed ==
    /\ pc = "failed" /\ op.kind \in {"fsync", "close"}
    /\ Idle
    /\ UNCHANGED <<device, files, roll, gc, crashes, told>>

-----------------------------------------------------------------------------
(***************************************************************************)
(* MigrateFileExtents of the GC worker.  The file's WR lock is held from   *)
(* GCLock on; files_mtx_ only by GetFile (GCLock) and SyncFileMetadata.    *)
(***************************************************************************)
NoGC == [pc |-> "idle", id |-> NoFile]

GCLock(i) ==
    /\ Request /\ GCEnabled /\ gc = NoGC
    /\ i \in Alive(mem) \ open /\ mem.exts[i] # << >>
    /\ gc' = [pc |-> "copied", id |-> i]
    /\ UNCHANGED <<device, files, roll, op, pc, crashes, told>>

\* SyncFileExtents up to SyncFileMetadata: ReplaceExtentList of the extents
\* moved (any of them: a copy may fail) and MetadataUnsynced.
ReplaceExtentList ==
    /\ gc.pc = "copied"
    /\ LET es == mem.exts[gc.id]
       IN  \E moved \in SUBSET (DOMAIN es) :
             mem' = SetExts(mem, gc.id, [k \in DOMAIN es |-> IF k \in moved
                                                            THEN [es[k] EXCEPT !.copy = 1]
                                                            ELSE es[k]])
    /\ synced' = [synced EXCEPT ![gc.id] = 0]
    /\ gc' = [gc EXCEPT !.pc = "replaced"]
    /\ UNCHANGED <<device, next, open, deleted, roll, op, pc, crashes, told>>

\* SyncFileMetadata(file, replace): a deleted file is skipped.
GCSync ==
    /\ gc.pc = "replaced" /\ pc = "idle"
    /\ IF gc.id \in deleted
       THEN gc' = NoGC /\ UNCHANGED <<op, pc, mem>>
       ELSE /\ Start([kind |-> "replace", id |-> gc.id,
                      rec |-> Encode(mem, gc.id, synced[gc.id], "replace")], mem)
            /\ gc' = [gc EXCEPT !.pc = "syncing"]
    /\ UNCHANGED <<device, synced, next, open, deleted, roll, crashes, told>>

GCDone ==
    /\ pc \in {"ok", "failed"} /\ op.kind = "replace"
    /\ IF pc = "ok" THEN Synced ELSE UNCHANGED synced
    /\ gc' = NoGC /\ Idle
    /\ stable' = IF pc = "ok" THEN [stable EXCEPT ![op.id] = mem.exts[op.id]] ELSE stable
    /\ UNCHANGED <<device, mem, next, open, deleted, roll, crashes, promise>>

-----------------------------------------------------------------------------
(***************************************************************************)
(* Crash and Mount.                                                        *)
(***************************************************************************)
\* What is left in memory of the file system when it is not running.
PowerDown ==
    /\ pc' = "down"
    /\ mem' = NoFiles /\ synced' = [i \in FileIds |-> 0] /\ next' = 1
    /\ open' = {} /\ deleted' = {} /\ snap' = NoOp /\ gc' = NoGC /\ op' = NoOp
    /\ cur' = 1 /\ old' = 1 /\ seq' = 0

\* A crash may tear the snapshot that is being appended, if it has several blocks.
Crash ==
    /\ pc \notin {"down", "unmountable"} /\ crashes < MaxCrashes
    /\ crashes' = crashes + 1
    /\ \/ UNCHANGED device
       \/ /\ "torn" \in Faults /\ pc = "snapshot" /\ SnapshotBlocks > 1
          /\ AddRecord(cur, [tag |-> "torn"], SnapshotBlocks - 1)
    /\ PowerDown
    /\ UNCHANGED told

\* Mount up to its roll.
Mount ==
    /\ pc = "down"
    /\ IF MountSucceeds
       THEN \E z \in MetaZones :
              /\ MountsFrom(z)
              /\ mem' = img[z].table
              /\ synced' = [i \in FileIds |-> Len(img[z].table.exts[i])]
              /\ next' = img[z].next
              /\ cur' = z /\ seq' = super[z]
              /\ op' = [kind |-> "mount"]
              /\ pc' = "allocate"
       ELSE pc' = "unmountable" /\ UNCHANGED <<mem, synced, next, cur, seq, op>>
    /\ UNCHANGED <<device, open, deleted, old, snap, gc, crashes, told>>

\* Callers find the files that were recovered.
MountOk ==
    /\ pc = "ok" /\ op.kind = "mount"
    /\ Idle
    /\ promise' = mem.files
    /\ stable' = mem.exts
    /\ UNCHANGED <<device, files, roll, gc, crashes>>

MountFailed ==
    /\ pc = "failed" /\ op.kind = "mount"
    /\ PowerDown
    /\ UNCHANGED <<device, crashes, told>>

\* MkFS has written a superblock and an empty snapshot to the first zone.
Init ==
    /\ cap = [z \in MetaZones |-> IF z = 1 THEN MetaCapacity - 1 - SnapshotBlocks
                                  ELSE MetaCapacity]
    /\ super = [z \in MetaZones |-> IF z = 1 THEN 1 ELSE NoSuper]
    /\ img = [z \in MetaZones |-> IF z = 1 THEN [Blank EXCEPT !.state = "ok"] ELSE Blank]
    /\ mem = NoFiles /\ synced = [i \in FileIds |-> 0] /\ next = 1
    /\ open = {} /\ deleted = {} /\ snap = NoOp /\ gc = NoGC /\ op = NoOp
    /\ cur = 1 /\ old = 1 /\ seq = 0
    /\ pc = "down" /\ crashes = 0
    /\ promise = [n \in Names |-> Unknown]
    /\ stable = [i \in FileIds |-> << >>]

Requests ==
    \/ \E n \in Names :
         \/ OpenWritableFile(n) \/ ReopenWritableFile(n) \/ DeleteFile(n)
         \/ \E m \in Names : RenameFile(n, m) \/ LinkFile(n, m)
    \/ \E i \in FileIds :
         AddExtent(i) \/ SyncFileMetadata(i, "fsync") \/ SyncFileMetadata(i, "close")

Persist ==
    \/ PersistRecord \/ AllocateMetaZone \/ WriteEndRecord \/ FinishOld
    \/ WriteSuperblock \/ EncodeSnapshot \/ WriteSnapshot \/ ResetOld

Return ==
    \/ CreateOk \/ CreateFailed \/ DeleteOk \/ DeleteFailed \/ RenameOk \/ RenameFailed
    \/ LinkOk \/ LinkFailed \/ SyncOk \/ SyncFailed \/ GCDone \/ MountOk \/ MountFailed

GC == (\E i \in FileIds : GCLock(i)) \/ ReplaceExtentList \/ GCSync

Next == Requests \/ Persist \/ Return \/ GC \/ Mount \/ Crash

Spec == Init /\ [][Next]_vars

-----------------------------------------------------------------------------
(***************************************************************************)
(* Properties.                                                             *)
(***************************************************************************)
Extents == [n : 1..MaxExtents, copy : {0, 1}]

Tables == [files : [Names -> FileIds \cup {NoFile}],
           links : [FileIds -> SUBSET Names],
           exts  : [FileIds -> Seq(Extents)]]

Points == {"down", "unmountable", "idle", "persist", "allocate", "end", "finish", "super",
           "encode", "snapshot", "reset", "ok", "failed"}

\* The variables have their types: capacities of meta zones never go below
\* zero (AddRecord), and what is recovered from a zone is a file table.
TypeOK ==
    /\ cap \in [MetaZones -> 0..MetaCapacity]
    /\ super \in [MetaZones -> Nat \cup {BadSuper}]
    /\ \A z \in MetaZones : /\ img[z].state \in {"none", "ok", "corrupt"}
                            /\ img[z].ended \in BOOLEAN
                            /\ img[z].table \in Tables
                            /\ img[z].next \in 1..MaxFileId + 1
    /\ mem \in Tables
    /\ synced \in [FileIds -> Nat]
    /\ next \in 1..MaxFileId + 1
    /\ open \subseteq FileIds /\ deleted \subseteq FileIds
    /\ cur \in MetaZones /\ old \in MetaZones /\ seq \in Nat
    /\ pc \in Points
    /\ gc \in [pc : {"idle", "copied", "replaced", "syncing"}, id : FileIds \cup {NoFile}]
    /\ crashes \in 0..MaxCrashes
    /\ promise \in [Names -> FileIds \cup {NoFile, Unknown, Misled}]
    /\ stable \in [FileIds -> Seq(Extents)]

\* Whenever the machine stops, the next Mount finds a log that it can read to
\* its end: RollMetaZoneLocked never leaves the device without one.
Mountable == MountSucceeds

\* What a caller has been told of a name (a file created and synced, renamed,
\* linked, deleted) is what a mount would find, until a caller asks for another
\* change of that name.  Roll backs reported as a success are left out.
NamesKept ==
    \A n \in Names : promise[n] \notin {Unknown, Misled} => Recovered.files[n] = promise[n]

\* Every file that a mount would find has all the extents that an Fsync, a
\* Close or a migration of it reported as stored, in that copy or a later one.
StableKept ==
    \A i \in Alive(Recovered) :
        /\ Len(stable[i]) <= Len(Recovered.exts[i])
        /\ \A k \in DOMAIN stable[i] :
             /\ Recovered.exts[i][k].n = stable[i][k].n
             /\ Recovered.exts[i][k].copy >= stable[i][k].copy

\* A file that a mount would find has each of its extents once, in the order
\* they were written: replaying the records of a file puts its content together.
ExtentsInOrder ==
    \A i \in Alive(Recovered) : \A k \in DOMAIN Recovered.exts[i] : Recovered.exts[i][k].n = k

\* The file system implements DurableFiles, with what a mount would find as its
\* disk: appending, rolling, crashing and mounting change that only by one
\* change of the name space at a time, at names that callers have asked about,
\* and no file that stays loses an extent.
Abstract ==
    INSTANCE DurableFiles WITH
        disk <- [files |-> Recovered.files, exts |-> Recovered.exts]

DurableSpec == Abstract!Spec

\* When no operation is in progress, a file's link names are the names under
\* which files_ has it: every roll back of a create, delete, rename or link whose
\* record could not be persisted, and every mount, returns to a consistent state.
LinksAgree ==
    pc = "idle" => \A i \in FileIds : mem.links[i] = {n \in Names : mem.files[n] = i}

\* Logs that Mount could recover from have different sequence numbers, so that it
\* tries them in the order in which they were written.
LogsOrdered ==
    \A y, z \in Valid :
        super[y] = super[z] /\ img[y].state # "none" /\ img[z].state # "none" => y = z

\* As long as the log in use has a snapshot, a mount would find what callers have
\* been told, whatever appends failed: a roll that fails ends this, and the next
\* one that succeeds restores it, as long as resets of meta zones do not fail.
NamesKeptUnlessRollFailed == pc = "idle" /\ img[cur].state = "ok" => NamesKept

\* OpenWritableFile has persisted the creation of a file when it returns.
CreationDurable ==
    pc = "idle" => \A n \in Names : mem.files[n] # NoFile => Recovered.files[n] = mem.files[n]

\* When no operation is in progress, what callers have been told of a name is
\* what files_ says of it.
ToldIsInMemory ==
    pc = "idle" => \A n \in Names : promise[n] # Unknown => promise[n] = mem.files[n]

-----------------------------------------------------------------------------
(***************************************************************************)
(* The inductive invariant behind Mountable and NamesKept, for a device    *)
(* whose only fault is that meta zones fail to reset.                      *)
(***************************************************************************)
\* The points of a roll at which the log that counts is still the old one.
Rolling == {"end", "finish", "super", "encode", "snapshot"}

\* The points before, and after, the log holds the change of the operation.
Pre  == {"persist", "allocate", "failed"} \cup Rolling
Post == {"reset", "ok"}

IsTable(t) ==
    /\ t = [files |-> t.files, links |-> t.links, exts |-> t.exts]
    /\ t.files \in [Names -> FileIds \cup {NoFile}]
    /\ t.links \in [FileIds -> SUBSET Names]

\* The names and the links of a table belong together.
Match(t) == IsTable(t) /\ \A i \in FileIds : t.links[i] = {n \in Names : t.files[n] = i}

IsImage(m) == m = [state |-> m.state, ended |-> m.ended, table |-> m.table, next |-> m.next]

\* z has the complete log with the highest sequence number.
Lead(z) ==
    /\ super[z] > NoSuper /\ img[z].state = "ok"
    /\ \A y \in MetaZones \ {z} :
         super[y] > NoSuper /\ img[y].state # "none" => super[y] < super[z]

\* Which zone leads, and how far a roll has come.
RollInv(z) ==
    /\ pc \in Points \ {"unmountable"}
    /\ cap \in [MetaZones -> Nat] /\ super \in [MetaZones -> Nat]
    /\ DOMAIN img = MetaZones /\ \A y \in MetaZones : IsImage(img[y])
    /\ cur \in MetaZones /\ old \in MetaZones /\ seq \in Nat
    /\ \A y \in MetaZones : IsEmpty(y) => cap[y] = MetaCapacity /\ img[y] = Blank
    /\ Lead(z)
    /\ pc \notin Rolling \cup {"down"} =>
         /\ z = cur /\ seq = super[cur]
         /\ ~img[cur].ended \/ (pc \in Pre /\ op.kind = "mount")
    /\ pc \in Rolling => z = old /\ old # cur /\ img[cur] = Blank
    /\ pc \in {"end", "finish", "super"} => IsEmpty(cur) /\ seq = super[old]
    /\ pc \in {"encode", "snapshot"} => /\ super[cur] = super[old] + 1 /\ seq = super[cur]
                                        /\ cap[cur] = MetaCapacity - 1
    /\ pc = "finish" => cap[old] = 0 \/ img[old].ended
    /\ pc = "reset" => old # cur

\* What a mount finds in a log.
Sound(m) ==
    /\ IsImage(m) /\ Match(m.table)
    /\ m.next \in Nat \ {0}
    /\ \A n \in Names : m.table.files[n] < m.next

Creating(i) == op.kind = "create" /\ op.id = i

\* Names and links in memory belong together; files that are open, or that are
\* migrated and not deleted, have names.
MemInv ==
    /\ IsTable(mem) /\ next \in Nat \ {0}
    /\ open \subseteq FileIds
    /\ \A n \in Names : mem.files[n] < next
    /\ \A i \in FileIds :
         mem.links[i] = IF Creating(i) THEN {op.name} ELSE {n \in Names : mem.files[n] = i}
    /\ \A i \in open : \E n \in Names : mem.files[n] = i
    /\ gc = [pc |-> gc.pc, id |-> gc.id]
    /\ gc.pc \in {"idle", "copied", "replaced", "syncing"}
    /\ gc.pc = "idle" => gc.id = NoFile
    /\ gc.pc # "idle" => gc.id \in FileIds \ open /\ gc.id < next
    /\ gc.pc # "idle" /\ gc.id \notin deleted =>
         \/ \E n \in Names : mem.files[n] = gc.id
         \/ op.kind = "delete" /\ op.id = gc.id

Kinds == {"create", "delete", "rename", "link", "fsync", "close", "replace", "mount"}

\* What an operation has done in memory, and what its record says.
OpInv ==
    /\ pc \in {"idle", "down"} => op.kind = "none"
    /\ pc \notin {"idle", "down"} => op.kind \in Kinds
    /\ pc = "down" => open = {} /\ gc.pc = "idle"
    /\ op.kind = "mount" => pc # "persist" /\ open = {} /\ gc.pc = "idle"
    /\ op.kind \in Kinds \ {"mount"} =>
         op.id \in FileIds /\ op.id < next /\ op.rec.id = op.id
    /\ op.kind = "create" =>
         /\ op.name \in Names /\ mem.files[op.name] = NoFile
         /\ \A n \in Names : mem.files[n] # op.id
         /\ op.id # gc.id
         /\ op.rec.tag = "update" /\ op.rec.links = {op.name}
    /\ op.kind = "delete" =>
         /\ op.name \in Names /\ mem.files[op.name] = NoFile /\ op.id \notin open
         /\ op.rec.tag = "deletion" /\ op.rec.name = op.name
         /\ op.then \in {"return", "create", "rename", "error"}
         /\ op.then = "create" => next <= MaxFileId
         /\ op.then = "rename" => /\ op.from \in Names \ {op.name}
                                  /\ mem.files[op.from] \in FileIds \ open
    /\ op.kind = "rename" =>
         /\ op.name \in Names /\ op.from \in Names \ {op.name} /\ op.id \notin open
         /\ mem.files[op.name] = op.id /\ mem.files[op.from] = NoFile
    /\ op.kind = "link" =>
         /\ op.name \in Names /\ op.id \notin open /\ mem.files[op.name] = op.id
         /\ \E n \in Names \ {op.name} : mem.files[n] = op.id
    /\ op.kind \in {"fsync", "close"} => op.id \in open
    /\ op.kind = "replace" =>
         /\ op.id = gc.id /\ gc.pc = "syncing" /\ op.rec.tag = "replace"
         /\ \E n \in Names : mem.files[n] = op.id
    /\ op.kind \in {"rename", "link", "fsync", "close"} => op.rec.tag = "update"
    /\ op.kind \in {"rename", "link", "fsync", "close", "replace"} =>
         op.rec.links = mem.links[op.id]
    /\ gc.pc = "syncing" => op.kind = "replace"

\* A file that is created and not yet synced may be missing from the log: a roll
\* that takes place in its creation leaves it out.
MayMiss(i) == i \in open /\ ~(pc \in Post /\ op.kind \in {"fsync", "close"} /\ op.id = i)

\* The names that the operation in progress changes.
Changing(n) ==
    \/ op.kind \in {"create", "delete", "rename", "link"} /\ n = op.name
    \/ op.kind = "rename" /\ n = op.from

\* The log has the names that memory has, except that the change in progress may
\* be in one of them only.
Agree(z) ==
    LET f == img[z].table.files
    IN  pc # "down" =>
          /\ \A n \in Names : f[n] < next
          /\ \A n \in Names : ~Changing(n) =>
               f[n] = mem.files[n] \/ (f[n] = NoFile /\ MayMiss(mem.files[n]))
          /\ pc \in Pre =>
               /\ op.kind = "create" => \A n \in Names : f[n] # op.id
               /\ op.kind \in {"create", "rename", "link"} => f[op.name] = NoFile
               /\ op.kind = "delete" => f[op.name] = op.id
               /\ op.kind = "rename" => f[op.from] = op.id
          /\ pc \in Post =>
               /\ op.kind = "create" => f[op.name] \in {op.id, NoFile}
               /\ op.kind \in {"delete", "rename", "link"} => f[op.name] = mem.files[op.name]
               /\ op.kind = "rename" => f[op.from] = NoFile
          /\ \A i \in open : \/ \A n \in Names : mem.files[n] = i => f[n] = i
                             \/ \E n \in Names : mem.links[i] = {n}

\* A roll writes the names and links of the table in memory.
SnapInv ==
    pc = "snapshot" =>
      snap.tag = "snapshot" /\ Match(snap.table) /\ snap.table.files = mem.files

Promised(n) == promise[n] \notin {Unknown, Misled}

\* What callers have been told is in the log, and nothing is promised of names
\* that the operation in progress, or a later record of an open file, changes.
PromiseInv(z) ==
    LET f == img[z].table.files
    IN  /\ \A n \in Names : Promised(n) => f[n] = promise[n]
        /\ pc # "down" => \A n \in Names : mem.files[n] \in open /\ f[n] = NoFile => ~Promised(n)
        /\ op.kind \in {"create", "delete", "rename", "link"} => ~Promised(op.name)
        /\ op.kind = "rename" \/ (op.kind = "delete" /\ op.then = "rename") => ~Promised(op.from)

NameInv(z) == Sound(img[z]) /\ Agree(z) /\ PromiseInv(z)

LogInvAt(z) == RollInv(z) /\ NameInv(z) /\ MemInv /\ OpInv /\ SnapInv

LogInv == \E z \in MetaZones : LogInvAt(z)

-----------------------------------------------------------------------------
(***************************************************************************)
(* The inductive invariant behind StableKept, ExtentsInOrder and           *)
(* DurableSpec, for a single thread without migrations.                    *)
(***************************************************************************)
\* The list of the first m extents of a file, and the lists of that form.
Written(m) == [k \in 1..m |-> [n |-> k, copy |-> 0]]

WrittenLists == {Written(m) : m \in 0..MaxExtents}

\* The operation in progress persists what is new of file i.
Updating(i) == op.kind \in {"create", "rename", "link", "fsync", "close"} /\ op.id = i

\* Nothing of file i is in the log of zone z or has been reported as stored.
Starting(z, i) == i >= next \/ Creating(i) \/ (i \in open /\ i \notin Alive(img[z].table))

\* The log of zone z has no less of file i than was reported as stored.
LoggedExtents(z, i) ==
    LET m == img[z]
    IN  /\ i >= m.next => m.table.exts[i] = << >>
        /\ i \in Alive(m.table) => Len(stable[i]) <= Len(m.table.exts[i])

\* nr_synced_extents_ is how far the log of zone z has got with file i, except
\* between a record and MetadataSynced; the next record goes on from there.
SyncedExtents(z, i) ==
    LET t == img[z].table
        e == mem.exts[i]
    IN  /\ synced[i] <= Len(e)
        /\ op.kind = "mount" => synced[i] = Len(e)
        /\ i >= next \/ Creating(i) => e = << >>
        /\ Starting(z, i) => synced[i] = 0 /\ (op.kind = "mount" \/ stable[i] = << >>)
        /\ i \in Alive(t) => Len(t.exts[i]) = IF pc \in Post /\ Updating(i) THEN Len(e)
                                              ELSE synced[i]
        /\ pc \in Pre /\ Updating(i) => op.rec.exts = SubSeq(e, synced[i] + 1, Len(e))

ExtInvAt(z) ==
    /\ gc = NoGC
    /\ mem.exts \in [FileIds -> WrittenLists] /\ stable \in [FileIds -> WrittenLists]
    /\ img[z].table.exts \in [FileIds -> WrittenLists] /\ synced \in [FileIds -> Nat]
    /\ pc = "snapshot" => snap = Snapshot(mem)
    /\ \A i \in FileIds : LoggedExtents(z, i) /\ (pc # "down" => SyncedExtents(z, i))

ExtInv == \E z \in MetaZones : LogInvAt(z) /\ ExtInvAt(z)

=============================================================================

------------------------------ MODULE ZoneFile ------------------------------
(***************************************************************************)
(* The content of files: how appends of the three kinds of files put data  *)
(* into zones, which extents and which active extent start are persisted   *)
(* at which point, and what Recover puts together again after a crash from *)
(* the last persisted record and the write pointers of the zones.          *)
(*                                                                         *)
(* The unit of data stands for some bytes; a block has BlockSize units and *)
(* a sparse header one.  Data unit n of file f is the cell <<f, n>>.       *)
(* MetaLog shows how a record gets to be persisted, ZoneAllocator how a    *)
(* zone is found, held and reset; here both are single steps.              *)
(***************************************************************************)
EXTENDS Integers, Sequences, FiniteSets
LOCAL INSTANCE SequencesExt

CONSTANTS
    NrZones,        \* number of IO zones
    BlockSize,      \* units of a block
    ZoneCapacity,   \* units that can be written to a zone
    ZoneSize,       \* units of the address space between two zones' starts
    Files, Kinds,   \* files, and the kinds each may be opened as
    DirectSyncs,    \* are direct files synced before they are closed?
    Collected,      \* files the GC worker migrates: the .sst files
    BufferSize,     \* units of a write buffer
    RollAnytime,    \* may a roll find a file between a full zone and the next one?
    Faults,         \* faults that happen: the appends or the records of a file fail
    MaxData,        \* bound: data units of a file
    MaxMigrations,  \* bound: migrations
    MaxBroken,      \* bound: files of which calls have failed when a fault happens
    MaxCrashes      \* bound: crashes

AllFaults == Files \X {"append", "persist"}

ASSUME ZoneFileAssumption ==
    /\ NrZones \in Nat \ {0} /\ BlockSize \in Nat /\ BlockSize > 1
    /\ ZoneCapacity \in Nat \ {0} /\ ZoneCapacity % BlockSize = 0
    /\ ZoneSize \in Nat /\ ZoneSize >= ZoneCapacity
    /\ Kinds \in [Files -> SUBSET {"sparse", "buffered", "direct"}]
    /\ DirectSyncs \in BOOLEAN
    /\ Collected \subseteq {f \in Files : Kinds[f] = {"buffered"}}
    /\ BufferSize \in Nat \ {0} /\ BufferSize % BlockSize = 0
    /\ RollAnytime \in BOOLEAN /\ Faults \subseteq AllFaults
    /\ MaxData \in [Files -> Nat] /\ MaxMigrations \in Nat
    /\ MaxBroken \in Nat /\ MaxCrashes \in Nat

VARIABLES
    data,      \* the cells written to a zone since its reset
    used,      \* Zone::used_capacity_
    busy,      \* Zone::busy_
    meta,      \* what is persisted of a file
    zf,        \* the ZoneFile in memory
    pc, call,  \* the point of a file's writer, and the call it is in
    buf,       \* the write buffer up to buffer_pos; for direct files, the caller's data
    sent,      \* number of data units callers have appended to a file
    stored,    \* number of data units callers have been told are stored
    broken,    \* files of which some call has failed
    gc,        \* the migration in progress
    migrations,\* number of migrations
    crashes    \* number of crashes

device == <<data, used, busy>>
writer == <<zf, pc, call, buf>>
told   == <<sent, stored, broken>>
vars   == <<device, meta, writer, told, gc, migrations, crashes>>

-----------------------------------------------------------------------------
(***************************************************************************)
(* Zones and addresses.                                                    *)
(***************************************************************************)
Zones == 1..NrZones
NoZone == 0
Header(n) == <<"header", n>>
Pad == <<"pad", 0>>
Unwritten == <<"unwritten", 0>>

Start(z) == (z - 1) * ZoneSize
Wp(z) == Start(z) + Len(data[z])
Capacity(z) == ZoneCapacity - Len(data[z])

\* The zone of an address, or NoZone.
GetIOZone(a) == IF a \div ZoneSize < NrZones THEN 1 + (a \div ZoneSize) ELSE NoZone

\* The write pointer that a device reports of a full zone is the end of the zone.
MountedWp(z) == Start(z) + IF Capacity(z) = 0 THEN ZoneSize ELSE Len(data[z])

Cell(a) ==
    LET z == GetIOZone(a)
        o == 1 + (a % ZoneSize)
    IN  IF z # NoZone /\ o <= Len(data[z]) THEN data[z][o] ELSE Unwritten

Padding(n) == [i \in 1..((BlockSize - (n % BlockSize)) % BlockSize) |-> Pad]

-----------------------------------------------------------------------------
(***************************************************************************)
(* ZoneFiles and their content.                                            *)
(***************************************************************************)
NoExtent == -1
NoRecord == [none |-> TRUE]

Extent(z, start, len) == [zone |-> z, start |-> start, len |-> len]

NoCall == [then |-> "none", left |-> 0, chunk |-> 0]

NewZoneFile(kind) ==
    [kind |-> kind, exts |-> << >>, start |-> NoExtent, size |-> 0, pos |-> 0, zone |-> NoZone]

NoFile == NewZoneFile("none")

Length(exts) == MapThenSumSet(LAMBDA i : exts[i].len, DOMAIN exts)

\* Units of a list of extents in a zone.
InZone(exts, z) ==
    MapThenSumSet(LAMBDA i : exts[i].len, {i \in DOMAIN exts : exts[i].zone = z})

CellsOf(e) == [i \in 1..e.len |-> Cell(e.start + i - 1)]

\* What reading a file from its start returns.
Content(exts, size) ==
    LET cells == FlattenSeq([i \in DOMAIN exts |-> CellsOf(exts[i])])
    IN  SubSeq(cells, 1, IF size < Len(cells) THEN size ELSE Len(cells))

(***************************************************************************)
(* Recover of a file whose persisted record is r.                          *)
(***************************************************************************)
Failed == [ok |-> FALSE, exts |-> << >>, size |-> 0]

\* The segments of a sparse file from an address up to a write pointer.
\* What is not a header has no length to go on with.
RecoverSparseExtents(start, end, z) ==
    LET from[a \in start..end + ZoneSize] ==
          IF a >= end THEN << >>
          ELSE LET len  == IF Cell(a)[1] = "header" THEN Cell(a)[2] ELSE 0
                   next == a + len + 1 + Len(Padding(len + 1))
               IN  IF len = 0 THEN <<Extent(z, a, 0)>>
                   ELSE <<Extent(z, a + 1, len)>> \o from[next]
    IN  from[start]

Recover(r) ==
    LET z == GetIOZone(r.start)
        more == IF r.kind = "sparse" THEN RecoverSparseExtents(r.start, MountedWp(z), z)
                ELSE <<Extent(z, r.start, MountedWp(z) - r.start)>>
        exts == r.exts \o more
    IN  CASE r.start = NoExtent -> [ok |-> TRUE, exts |-> r.exts, size |-> r.size]
          [] r.start # NoExtent /\ (z = NoZone \/ MountedWp(z) < r.start) -> Failed
          [] r.start # NoExtent /\ MountedWp(z) = r.start ->
               [ok |-> TRUE, exts |-> r.exts, size |-> r.size]
          [] OTHER -> [ok   |-> \A i \in DOMAIN more : more[i].len > 0,
                       exts |-> exts, size |-> Length(exts)]

-----------------------------------------------------------------------------
(***************************************************************************)
(* PersistMetadata: an update of the file's record, or a roll, whose       *)
(* snapshot holds the records of all files.                                *)
(***************************************************************************)
Record(f) == [kind |-> zf[f].kind, exts |-> zf[f].exts, start |-> zf[f].start, size |-> zf[f].size]

\* The active extent of a file would start behind the last unit of a zone.
AtZoneEnd(f) ==
    /\ zf[f].start # NoExtent
    /\ \E z \in Zones : zf[f].start = Start(z) + ZoneCapacity /\ zf[f].zone \in {NoZone, z}

Persist(f) ==
    \/ meta' = [meta EXCEPT ![f] = Record(f)]
    \/ /\ RollAnytime \/ \A g \in Files : ~AtZoneEnd(g)
       /\ meta' = [g \in Files |-> IF meta[g] = NoRecord THEN NoRecord ELSE Record(g)]

Goto(f, p) == pc' = [pc EXCEPT ![f] = p]

\* The call goes on at p, or returns when p is a point between two calls.
Continue(f, then, p) ==
    /\ Goto(f, p)
    /\ call' = [call EXCEPT ![f] = IF p \in {"open", "closed"} THEN NoCall
                                   ELSE [NoCall EXCEPT !.then = then]]

Fault(f, what) == <<f, what>> \in Faults /\ Cardinality(broken \ {f}) < MaxBroken

\* The call returns an error: the caller gives the file up, and the destructor
\* that runs then gives up as well.
Fail(f) ==
    /\ Goto(f, IF call[f].then = "destroy" THEN "zombie" ELSE "failed")
    /\ call' = [call EXCEPT ![f] = NoCall]
    /\ broken' = broken \cup {f}

-----------------------------------------------------------------------------
(***************************************************************************)
(* Calls of a ZonedWritableFile.                                           *)
(***************************************************************************)
OpenWritableFile(f) ==
    /\ pc[f] = "none"
    /\ \E kind \in Kinds[f] :
         /\ zf' = [zf EXCEPT ![f] = NewZoneFile(kind)]
         /\ meta' = [meta EXCEPT ![f] = [kind |-> kind, exts |-> << >>, start |-> NoExtent, size |-> 0]]
    /\ Goto(f, "open")
    /\ UNCHANGED <<device, call, buf, told, gc, migrations, crashes>>

Kind(f) == zf[f].kind

Room(f) == IF Kind(f) = "sparse" THEN BufferSize - 1 ELSE BufferSize

\* SparseAppend, BufferedAppend or Append of some cells; then the call goes on.
Enter(f, then, cells) ==
    /\ call' = [call EXCEPT ![f] = [then |-> then, left |-> Len(cells), chunk |-> 0]]
    /\ buf' = [buf EXCEPT ![f] = cells]
    /\ Goto(f, IF zf[f].zone = NoZone THEN "alloc" ELSE "append")

Units(f, n) == [i \in 1..n |-> <<f, sent[f] + i>>]

\* Append of one unit to a buffer; a full one is flushed first.
BufferedWrite(f) ==
    /\ pc[f] = "open" /\ Kind(f) # "direct" /\ sent[f] < MaxData[f]
    /\ IF Len(buf[f]) < Room(f)
       THEN /\ buf' = [buf EXCEPT ![f] = @ \o Units(f, 1)]
            /\ sent' = [sent EXCEPT ![f] = @ + 1]
            /\ UNCHANGED <<pc, call>>
       ELSE Enter(f, "write", buf[f]) /\ UNCHANGED sent
    /\ UNCHANGED <<device, meta, zf, stored, broken, gc, migrations, crashes>>

\* Append of a block; the last one of a file is padded and the file truncated.
DirectWrite(f) ==
    /\ pc[f] = "open" /\ Kind(f) = "direct" /\ sent[f] % BlockSize = 0
    /\ \E n \in 1..BlockSize :
         /\ sent[f] + n <= MaxData[f]
         /\ sent' = [sent EXCEPT ![f] = @ + n]
         /\ Enter(f, IF n < BlockSize THEN "truncate" ELSE "write", Units(f, n) \o Padding(n))
    /\ UNCHANGED <<device, meta, zf, stored, broken, gc, migrations, crashes>>

\* Where a call goes on after DataSync's flush or PushExtent.
AfterFlush(f, then) ==
    CASE then \in {"write", "truncate"}                -> "open"
      [] then = "fsync" \/ (Kind(f) = "buffered" /\ then # "write") -> "persist"
      [] then \in {"close", "destroy"}                 -> "close"
      [] OTHER                                         -> "open"

\* What is written but in no extent yet becomes one.
PushExtent(f) ==
    LET e == Extent(zf[f].zone, zf[f].start, zf[f].size - zf[f].pos)
    IN  IF zf[f].zone = NoZone \/ e.len = 0 THEN UNCHANGED <<zf, used>>
        ELSE /\ zf' = [zf EXCEPT ![f].exts = Append(@, e), ![f].start = Wp(e.zone),
                                 ![f].pos = zf[f].size]
             /\ used' = [used EXCEPT ![e.zone] = @ + e.len]

Told(f) == stored' = [stored EXCEPT ![f] = zf[f].size]

\* Sync, Fsync, Close and the destructor of a file whose call has failed.
DataSync(f, then) ==
    /\ pc[f] = IF then = "destroy" THEN "failed" ELSE "open"
    /\ then \in {"sync", "fsync"} => Kind(f) # "direct" \/ DirectSyncs
    /\ IF Kind(f) # "direct" /\ buf[f] # << >>
       THEN Enter(f, then, buf[f]) /\ UNCHANGED <<zf, used, stored>>
       ELSE /\ IF Kind(f) = "direct" THEN PushExtent(f) ELSE UNCHANGED <<zf, used>>
            /\ Continue(f, then, AfterFlush(f, then))
            /\ IF AfterFlush(f, then) = "open" THEN Told(f) ELSE UNCHANGED stored
            /\ UNCHANGED buf
    /\ UNCHANGED <<data, busy, meta, sent, broken, gc, migrations, crashes>>

PersistMetadata(f) ==
    /\ pc[f] = "persist"
    /\ \/ /\ Persist(f)
          /\ IF call[f].then \in {"close", "destroy"}
             THEN Continue(f, call[f].then, "close") /\ UNCHANGED stored
             ELSE Continue(f, call[f].then, "open") /\ Told(f)
          /\ UNCHANGED broken
       \/ Fault(f, "persist") /\ Fail(f) /\ UNCHANGED <<meta, stored>>
    /\ UNCHANGED <<device, zf, buf, sent, gc, migrations, crashes>>

\* For a mutant: the zone is released before NO_EXTENT is persisted.
CloseWREarly(f) ==
    /\ pc[f] = "close"
    /\ zf' = [zf EXCEPT ![f].start = NoExtent, ![f].zone = NoZone]
    /\ busy' = busy \ {zf[f].zone}
    /\ Goto(f, "closewr")
    /\ UNCHANGED <<data, used, meta, call, buf, told, gc, migrations, crashes>>

\* CloseWR marks the file as closed ...
CloseWR(f) ==
    /\ pc[f] = "close"
    /\ zf' = [zf EXCEPT ![f].start = NoExtent]
    /\ Goto(f, "closewr")
    /\ UNCHANGED <<device, meta, call, buf, told, gc, migrations, crashes>>

\* ... and persists that before it releases the zone.
CloseActiveZone(f) ==
    /\ pc[f] = "closewr"
    /\ \/ /\ Persist(f)
          /\ busy' = busy \ {zf[f].zone}
          /\ zf' = [zf EXCEPT ![f].zone = NoZone]
          /\ IF call[f].then = "close" THEN Told(f) ELSE UNCHANGED stored
          /\ Continue(f, call[f].then, "closed")
          /\ UNCHANGED broken
       \/ Fault(f, "persist") /\ Fail(f) /\ UNCHANGED <<meta, busy, zf, stored>>
    /\ UNCHANGED <<data, used, buf, sent, gc, migrations, crashes>>

-----------------------------------------------------------------------------
(***************************************************************************)
(* SparseAppend, BufferedAppend and Append.                                *)
(***************************************************************************)
\* For a mutant: the start of the active extent is not persisted.
AllocateNewZoneUnpersisted(f) ==
    /\ pc[f] = "alloc"
    /\ \E z \in Zones \ busy :
         /\ Capacity(z) > 0
         /\ busy' = busy \cup {z}
         /\ zf' = [zf EXCEPT ![f].zone = z, ![f].start = Wp(z), ![f].pos = zf[f].size]
         /\ Goto(f, "append")
    /\ UNCHANGED <<data, used, meta, call, buf, told, gc, migrations, crashes>>

\* AllocateNewZone takes some zone that has room ...
AllocateNewZone(f) ==
    /\ pc[f] = "alloc"
    /\ \/ \E z \in Zones \ busy :
            /\ Capacity(z) > 0
            /\ busy' = busy \cup {z}
            /\ zf' = [zf EXCEPT ![f].zone = z, ![f].start = Wp(z), ![f].pos = zf[f].size]
            /\ Goto(f, "allocated")
            /\ UNCHANGED <<call, broken>>
       \/ /\ \A z \in Zones \ busy : Capacity(z) = 0
          /\ Fail(f)
          /\ UNCHANGED <<busy, zf>>
    /\ UNCHANGED <<data, used, meta, buf, sent, stored, gc, migrations, crashes>>

\* ... and persists where the active extent starts.
PersistActiveExtent(f) ==
    /\ pc[f] = "allocated"
    /\ \/ Persist(f) /\ Goto(f, "append") /\ UNCHANGED <<call, broken>>
       \/ Fault(f, "persist") /\ Fail(f) /\ UNCHANGED meta
    /\ UNCHANGED <<device, zf, buf, sent, stored, gc, migrations, crashes>>

\* The cells of the next chunk, with n of the units that are left.
Chunk(f, n) ==
    LET from  == IF Kind(f) = "direct" THEN Len(buf[f]) - call[f].left ELSE 0
        units == SubSeq(buf[f], from + 1, from + n)
    IN  IF Kind(f) = "sparse" THEN <<Header(n)>> \o units \o Padding(n + 1)
        ELSE units \o Padding(n)

\* The padding of a chunk overwrites what follows it in the buffer.
Padded(f, n) ==
    LET pad == Len(Padding(IF Kind(f) = "sparse" THEN n + 1 ELSE n))
    IN  [buf EXCEPT ![f] = [i \in DOMAIN @ |-> IF n < i /\ i <= n + pad THEN Pad ELSE @[i]]]

\* For a mutant: the chunk is not cut to the capacity of the zone.
ChunkUnitsAll(f) == call[f].left

ChunkUnits(f) ==
    LET room == Capacity(zf[f].zone) - (IF Kind(f) = "sparse" THEN 1 ELSE 0)
    IN  IF call[f].left < room THEN call[f].left ELSE room

\* A zone append of the next chunk, or of some blocks of it before it fails.
AppendChunk(f) ==
    LET z == zf[f].zone
        n == ChunkUnits(f)
        cells == Chunk(f, n)
        Written(k) == data' = [data EXCEPT ![z] = @ \o SubSeq(cells, 1, k)]
    IN  /\ pc[f] = "append" /\ call[f].left > 0 /\ Capacity(z) > 0
        /\ \/ /\ Written(Len(cells))
              /\ IF Kind(f) = "direct"
                 THEN /\ zf' = [zf EXCEPT ![f].size = @ + n]
                      /\ call' = [call EXCEPT ![f].left = @ - n]
                      /\ UNCHANGED pc
                 ELSE /\ call' = [call EXCEPT ![f].chunk = n]
                      /\ Goto(f, "appended")
                      /\ UNCHANGED zf
              /\ UNCHANGED broken
           \/ /\ Fault(f, "append")
              /\ \E blocks \in 0..Len(cells) :
                   blocks * BlockSize < Len(cells) /\ Written(blocks * BlockSize)
              /\ Fail(f)
              /\ UNCHANGED zf
        /\ buf' = IF Kind(f) = "direct" THEN buf ELSE Padded(f, n)
        /\ UNCHANGED <<used, busy, meta, sent, stored, gc, migrations, crashes>>

\* The rest of the round: the extent of the chunk; a full zone is closed and
\* what is left moves to the front of the buffer.
EndOfRound(f) ==
    LET z == zf[f].zone
        n == call[f].chunk
        e == Extent(z, zf[f].start + (IF Kind(f) = "sparse" THEN 1 ELSE 0), n)
        full == Capacity(z) = 0
    IN  /\ pc[f] = "appended"
        /\ used' = [used EXCEPT ![z] = @ + n]
        /\ zf' = [zf EXCEPT ![f].exts = Append(@, e), ![f].start = Wp(z), ![f].size = @ + n,
                            ![f].zone = IF full THEN NoZone ELSE @]
        /\ busy' = IF full THEN busy \ {z} ELSE busy
        /\ call' = [call EXCEPT ![f].left = @ - n, ![f].chunk = 0]
        /\ buf' = IF full THEN [buf EXCEPT ![f] = [i \in DOMAIN @ |->
                                   IF i <= call[f].left - n THEN @[i + n] ELSE @[i]]]
                  ELSE buf
        /\ Goto(f, IF full THEN "alloc" ELSE "append")
        /\ UNCHANGED <<data, meta, told, gc, migrations, crashes>>

\* Append of a direct file finds its zone full.
NextZone(f) ==
    /\ pc[f] = "append" /\ Kind(f) = "direct" /\ call[f].left > 0 /\ Capacity(zf[f].zone) = 0
    /\ LET e == Extent(zf[f].zone, zf[f].start, zf[f].size - zf[f].pos)
       IN  /\ zf' = [zf EXCEPT ![f].exts = IF e.len = 0 THEN @ ELSE Append(@, e),
                               ![f].start = IF e.len = 0 THEN @ ELSE Wp(e.zone),
                               ![f].pos = zf[f].size, ![f].zone = NoZone]
           /\ used' = [used EXCEPT ![e.zone] = @ + e.len]
           /\ busy' = busy \ {e.zone}
    /\ Goto(f, "alloc")
    /\ UNCHANGED <<data, meta, call, buf, told, gc, migrations, crashes>>

\* Nothing is left: the append returns, and its caller truncates or goes on.
Appended(f) ==
    /\ pc[f] = "append" /\ call[f].left = 0
    /\ buf' = [buf EXCEPT ![f] = << >>]
    /\ zf' = IF call[f].then = "truncate" THEN [zf EXCEPT ![f].size = sent[f]] ELSE zf
    /\ Continue(f, call[f].then, AfterFlush(f, call[f].then))
    /\ IF call[f].then = "sync" /\ AfterFlush(f, "sync") = "open" THEN Told(f) ELSE UNCHANGED stored
    /\ UNCHANGED <<device, meta, sent, broken, gc, migrations, crashes>>

-----------------------------------------------------------------------------
(***************************************************************************)
(* Deleting files, and the zones of which nothing is used.                 *)
(***************************************************************************)
NoGC == [pc |-> "idle"]

Migrates(f) == gc # NoGC /\ gc.file = f

\* ClearExtents.
Uncharged(exts) == [z \in Zones |-> used[z] - InZone(exts, z)]

\* The deletion is persisted; the ZoneFile lives on while it is migrated.
DeleteFile(f) ==
    /\ pc[f] = "closed"
    /\ meta' = [meta EXCEPT ![f] = NoRecord]
    /\ Goto(f, "deleted")
    /\ stored' = [stored EXCEPT ![f] = 0]
    /\ IF Migrates(f) THEN UNCHANGED <<zf, used>>
       ELSE zf' = [zf EXCEPT ![f] = NoFile] /\ used' = Uncharged(zf[f].exts)
    /\ UNCHANGED <<data, busy, call, buf, sent, broken, gc, migrations, crashes>>

ResetUnusedIOZone(z) ==
    /\ z \notin busy /\ used[z] = 0 /\ data[z] # << >>
    /\ data' = [data EXCEPT ![z] = << >>]
    /\ UNCHANGED <<used, busy, meta, writer, told, gc, migrations, crashes>>

\* FinishCheapestIOZone or the finish threshold.
Finish(z) ==
    /\ z \notin busy /\ data[z] # << >> /\ Capacity(z) > 0
    /\ data' = [data EXCEPT ![z] = @ \o [i \in 1..Capacity(z) |-> Unwritten]]
    /\ UNCHANGED <<used, busy, meta, writer, told, gc, migrations, crashes>>

-----------------------------------------------------------------------------
(***************************************************************************)
(* MigrateFileExtents.                                                     *)
(***************************************************************************)
StartMigration(f) ==
    /\ migrations < MaxMigrations /\ migrations' = migrations + 1
    /\ gc = NoGC /\ f \in Collected /\ pc[f] = "closed" /\ zf[f].exts # << >>
    /\ \E todo \in SUBSET (DOMAIN zf[f].exts) \ {{}} :
         gc' = [pc |-> "copy", file |-> f, todo |-> todo, exts |-> zf[f].exts]
    /\ UNCHANGED <<device, meta, writer, told, crashes>>

\* TakeMigrateZone and MigrateData of the next extent, then its new zone;
\* no zone, and the extent stays; no file, and the copying ends.
MigrateData ==
    LET k == CHOOSE k \in gc.todo : \A j \in gc.todo : k <= j
        e == gc.exts[k]
        gone == pc[gc.file] = "deleted"
        rest == IF gone THEN {} ELSE gc.todo \ {k}
        copy == [i \in 1..e.len + Len(Padding(e.len)) |-> Cell(e.start + i - 1)]
    IN  /\ gc.pc = "copy" /\ gc.todo # {}
        /\ \/ \E z \in Zones \ busy :
                /\ Capacity(z) >= e.len
                /\ data' = [data EXCEPT ![z] = @ \o copy]
                /\ IF gone THEN gc' = [gc EXCEPT !.todo = rest] /\ UNCHANGED used
                   ELSE /\ gc' = [gc EXCEPT !.todo = rest, !.exts[k] = Extent(z, Wp(z), e.len)]
                        /\ used' = [used EXCEPT ![z] = @ + e.len]
           \/ gc' = [gc EXCEPT !.todo = @ \ {k}] /\ UNCHANGED <<data, used>>
        /\ UNCHANGED <<busy, meta, writer, told, migrations, crashes>>

\* SyncFileExtents up to its record.
ReplaceExtentList ==
    /\ gc.pc = "copy" /\ gc.todo = {}
    /\ zf' = [zf EXCEPT ![gc.file].exts = gc.exts]
    /\ gc' = [gc EXCEPT !.pc = "sync", !.exts = zf[gc.file].exts]
    /\ UNCHANGED <<device, meta, pc, call, buf, told, migrations, crashes>>

\* For a mutant: the zones the extents have moved to are uncharged.
MovedTo(old, new) == SelectSeq([i \in DOMAIN old |-> [new[i] EXCEPT !.len =
                       IF old[i].start = new[i].start THEN 0 ELSE @]], LAMBDA e : e.len > 0)

\* Extents of the old list that have moved.
Moved(old, new) == SelectSeq([i \in DOMAIN old |-> [old[i] EXCEPT !.len =
                     IF old[i].start = new[i].start THEN 0 ELSE @]], LAMBDA e : e.len > 0)

\* The record and the zones of the old extents, unless it fails; the record of
\* a file that was deleted is skipped, and the file goes with the migration.
SyncFileExtents ==
    LET f == gc.file
        gone == pc[f] = "deleted"
        old == Moved(gc.exts, zf[f].exts)
    IN  /\ gc.pc = "sync"
        /\ \/ /\ IF gone THEN UNCHANGED meta ELSE Persist(f)
              /\ used' = Uncharged(old \o (IF gone THEN zf[f].exts ELSE << >>))
           \/ /\ Fault(f, "persist") /\ ~gone
              /\ UNCHANGED <<meta, used>>
        /\ zf' = IF gone THEN [zf EXCEPT ![f] = NoFile] ELSE zf
        /\ gc' = NoGC
        /\ UNCHANGED <<data, busy, pc, call, buf, told, migrations, crashes>>

-----------------------------------------------------------------------------
(***************************************************************************)
(* A crash and the Mount after it: the persisted files, repaired, in a new *)
(* snapshot, and the zones reset that none of them uses.                   *)
(***************************************************************************)
Live == {f \in Files : meta[f] # NoRecord}

Crash ==
    LET r == [f \in Live |-> Recover(meta[f])]
        inUse == [z \in Zones |-> MapThenSumSet(LAMBDA f : InZone(r[f].exts, z), Live)]
    IN  /\ crashes < MaxCrashes
        /\ \A f \in Live : r[f].ok
        /\ crashes' = crashes + 1
        /\ zf' = [f \in Files |-> IF f \in Live THEN [NewZoneFile(meta[f].kind) EXCEPT !.exts = r[f].exts,
                                                                          !.size = r[f].size]
                                  ELSE NoFile]
        /\ meta' = [f \in Files |-> IF f \in Live THEN [meta[f] EXCEPT !.exts = r[f].exts,
                                                       !.start = NoExtent, !.size = r[f].size]
                                    ELSE NoRecord]
        /\ used' = inUse
        /\ data' = [z \in Zones |-> IF inUse[z] = 0 THEN << >> ELSE data[z]]
        /\ busy' = {}
        /\ pc' = [f \in Files |-> IF f \in Live THEN "closed" ELSE pc[f]]
        /\ call' = [f \in Files |-> NoCall]
        /\ buf' = [f \in Files |-> << >>]
        /\ gc' = NoGC
        /\ UNCHANGED <<told, migrations>>

Init ==
    /\ data = [z \in Zones |-> << >>] /\ used = [z \in Zones |-> 0] /\ busy = {}
    /\ meta = [f \in Files |-> NoRecord]
    /\ zf = [f \in Files |-> NoFile]
    /\ pc = [f \in Files |-> "none"]
    /\ call = [f \in Files |-> NoCall]
    /\ buf = [f \in Files |-> << >>]
    /\ sent = [f \in Files |-> 0] /\ stored = [f \in Files |-> 0] /\ broken = {}
    /\ gc = NoGC /\ migrations = 0 /\ crashes = 0

Next ==
    \/ \E f \in Files :
         \/ OpenWritableFile(f) \/ BufferedWrite(f) \/ DirectWrite(f)
         \/ \E then \in {"sync", "fsync", "close", "destroy"} : DataSync(f, then)
         \/ PersistMetadata(f) \/ CloseWR(f) \/ CloseActiveZone(f)
         \/ AllocateNewZone(f) \/ PersistActiveExtent(f) \/ AppendChunk(f)
         \/ EndOfRound(f) \/ NextZone(f) \/ Appended(f)
         \/ DeleteFile(f) \/ StartMigration(f)
    \/ \E z \in Zones : ResetUnusedIOZone(z) \/ Finish(z)
    \/ MigrateData \/ ReplaceExtentList \/ SyncFileExtents
    \/ Crash

Spec == Init /\ [][Next]_vars

-----------------------------------------------------------------------------
Points == {"none", "open", "closed", "deleted", "failed", "zombie", "alloc", "allocated", "append", "appended",
           "persist", "close", "closewr"}

\* The variables have their types: no zone is written beyond its capacity, and
\* it is written in blocks.
TypeOK ==
    /\ \A z \in Zones : Len(data[z]) <= ZoneCapacity /\ Len(data[z]) % BlockSize = 0
    /\ used \in [Zones -> Nat] /\ busy \subseteq Zones
    /\ pc \in [Files -> Points]
    /\ \A f \in Files : zf[f].zone \in Zones \cup {NoZone} /\ zf[f].size \in Nat
    /\ broken \subseteq Files /\ crashes \in 0..MaxCrashes

\* Whenever the machine stops, Recover succeeds for every file and brings back
\* at least what a Sync, Fsync or Close of it has reported as stored.
SyncedKept ==
    \A f \in Live :
        LET r == Recover(meta[f])
            c == Content(r.exts, r.size)
        IN  /\ r.ok
            /\ stored[f] <= Len(c)
            /\ \A i \in 1..stored[f] : c[i] = <<f, i>>

\* Some data of the file, in order, and nothing behind it but padding.
OwnData(f, c) ==
    \E k \in 0..Len(c) : /\ k <= sent[f]
                         /\ \A i \in 1..k : c[i] = <<f, i>>
                         /\ \A i \in k + 1..Len(c) : c[i] = Pad

\* A file of which no call has failed, as it is read and as a crash would leave
\* it, holds what was appended to it, once and in order, never another file's
\* data: whatever is migrated, reset, reused and recovered meanwhile.
OnlyOwnData ==
    \A f \in Live \ broken :
        /\ OwnData(f, Content(zf[f].exts, zf[f].size))
        /\ LET r == Recover(meta[f]) IN r.ok => OwnData(f, Content(r.exts, r.size))

\* A zone that nobody holds is charged with every extent in it, those that a
\* migration has copied but not yet put into the file included, so that it is
\* not reset as unused while anything refers to it.
ZonesCharged ==
    \A z \in Zones \ busy :
        LET copied == IF gc # NoGC THEN Moved(gc.exts, zf[gc.file].exts) ELSE << >>
        IN  used[z] >= InZone(copied, z) + MapThenSumSet(LAMBDA f : InZone(zf[f].exts, z), Files)

=============================================================================

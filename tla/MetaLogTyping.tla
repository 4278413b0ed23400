--------------------------- MODULE MetaLogTyping ----------------------------
(***************************************************************************)
(* The types of the metadata log, whatever faults the device has: an       *)
(* append never takes more blocks than a meta zone has left, what is       *)
(* replayed from a zone is always a file table, and every operation        *)
(* persists a record of a file and of names that there are.                *)
(***************************************************************************)
EXTENDS MetaLog, WellFoundedInduction, TLAPS

\* A leaf is first-order reasoning unless it cites SMT.
USE Zenon

\* A bounded set of naturals has a greatest element.
LEMMA Greatest ==
    ASSUME NEW S \in SUBSET Nat, S # {}, NEW b \in Nat, \A s \in S : s <= b
    PROVE  \E m \in S : \A s \in S : s <= m
<1> DEFINE Gaps == {b - s : s \in S}
           Less == OpToRel(<, Nat)
<1>1. \A s \in S : s \in Nat /\ b - s \in Nat  BY SMT
<1>2. \A x, y \in Nat : x < y => <<x, y>> \in Less  BY DEF OpToRel
<1>3. IsWellFoundedOn(Less, Nat)  BY NatLessThanWellFounded
<1>4. Gaps # {} /\ \A g \in Gaps : \E s \in S : g = b - s  OBVIOUS
<1>5. \A s \in S : b - s \in Gaps  OBVIOUS
<1> HIDE DEF Less, Gaps
<1>6. Gaps \subseteq Nat  BY <1>1, <1>4
<1>7. PICK g \in Gaps : \A h \in Gaps : <<h, g>> \notin Less  BY <1>3, <1>4, <1>6, WFMin
<1>8. PICK m \in S : g = b - m  BY <1>4
<1>9. ASSUME NEW s \in S PROVE s <= m
  <2>1. <<b - s, b - m>> \notin Less  BY <1>5, <1>7, <1>8
  <2>2. ~(b - s < b - m)  BY <1>1, <1>2, <2>1
  <2> QED  BY SMT, <1>1, <2>2
<1> QED  BY <1>9

-----------------------------------------------------------------------------
(***************************************************************************)
(* Types, whatever the device does.                                        *)
(***************************************************************************)
\* What RecoverFrom makes of a zone.
Images == [state : {"none", "ok", "corrupt"}, ended : BOOLEAN, table : Tables,
           next : 1..MaxFileId + 1]

\* The records that operations persist.
IsRecord(r) ==
    \/ r.tag = "deletion" /\ r.id \in FileIds /\ r.name \in Names
    \/ r.tag \in {"update", "replace"} /\ r.id \in FileIds /\ r.links \subseteq Names
       /\ r.exts \in Seq(Extents)

\* The meta zones.
DeviceType ==
    /\ cap \in [MetaZones -> 0..MetaCapacity]
    /\ super \in [MetaZones -> Nat \cup {BadSuper}]
    /\ img \in [MetaZones -> Images]

\* The files in memory.
FilesType ==
    /\ mem \in Tables /\ synced \in [FileIds -> Nat] /\ next \in 1..MaxFileId + 1
    /\ open \subseteq FileIds /\ deleted \subseteq FileIds

\* A roll, with the snapshot it is about to write.
RollType ==
    /\ cur \in MetaZones /\ old \in MetaZones /\ seq \in Nat /\ pc \in Points
    /\ pc = "snapshot" => snap.tag = "snapshot" /\ snap.table \in Tables

\* The file that is migrated.
GCType ==
    /\ gc \in [pc : {"idle", "copied", "replaced", "syncing"}, id : FileIds \cup {NoFile}]
    /\ gc.pc # "idle" => gc.id \in FileIds

\* What callers were told.
ToldType ==
    /\ crashes \in 0..MaxCrashes
    /\ promise \in [Names -> FileIds \cup {NoFile, Unknown, Misled}]
    /\ stable \in [FileIds -> Seq(Extents)]

\* The operation in progress has a file, a record, and the names it goes on with.
OpType ==
    /\ pc = "persist" => op.kind # "mount"
    /\ pc \in {"idle", "down", "unmountable"} <=> op.kind = "none"
    /\ op.kind \in Kinds \cup {"none"}
    /\ op.kind \notin {"mount", "none"} => op.id \in FileIds /\ IsRecord(op.rec)
    /\ op.kind \in {"create", "delete", "rename", "link"} => op.name \in Names
    /\ op.kind = "rename" => op.from \in Names
    /\ op.kind = "delete" => op.then \in {"return", "create", "rename", "error"}
    /\ op.kind = "delete" /\ op.then = "create" => next <= MaxFileId
    /\ op.kind = "delete" /\ op.then = "rename" => op.from \in Names /\ mem.files[op.from] # NoFile

\* The inductive invariant behind TypeOK: StartCreate needs an identity that is
\* left, and a rename that goes on after a deletion the file it started from.
TypeInv == DeviceType /\ FilesType /\ RollType /\ GCType /\ ToldType /\ OpType

(* What is left of a list from some place on is a list.                    *)
LEMMA RestSeq ==
    ASSUME NEW S, NEW s \in Seq(S), NEW a \in Nat
    PROVE  SubSeq(s, a + 1, Len(s)) \in Seq(S)
<1>1. CASE a <= Len(s)
  BY SMT, <1>1
<1>2. CASE a > Len(s)
  BY SMT, <1>2
<1> QED
  BY SMT, <1>1, <1>2

(* A table is its three parts.                                             *)
LEMMA TableParts ==
    ASSUME NEW t
    PROVE  t \in Tables <=> /\ t = [files |-> t.files, links |-> t.links, exts |-> t.exts]
                            /\ t.files \in [Names -> FileIds \cup {NoFile}]
                            /\ t.links \in [FileIds -> SUBSET Names]
                            /\ t.exts \in [FileIds -> Seq(Extents)]
  BY DEF Tables

(* The operations on tables give tables.                                   *)
LEMMA TablesSet ==
    ASSUME NEW t \in Tables, NEW n \in Names, NEW i \in FileIds \cup {NoFile}
    PROVE  /\ SetFile(t, n, i) \in Tables
           /\ i \in FileIds => \A N \in SUBSET Names : SetLinks(t, i, N) \in Tables
           /\ i \in FileIds => \A e \in Seq(Extents) : SetExts(t, i, e) \in Tables
           /\ i \in FileIds => t.links[i] \in SUBSET Names /\ t.exts[i] \in Seq(Extents)
           /\ t.files[n] \in FileIds \cup {NoFile}
<1>1. /\ t = [files |-> t.files, links |-> t.links, exts |-> t.exts]
      /\ t.files \in [Names -> FileIds \cup {NoFile}]
      /\ t.links \in [FileIds -> SUBSET Names]
      /\ t.exts \in [FileIds -> Seq(Extents)]
  BY TableParts
<1>2. SetFile(t, n, i) \in Tables
  BY DEF SetFile, Tables
<1>3. ASSUME i \in FileIds, NEW N \in SUBSET Names PROVE SetLinks(t, i, N) \in Tables
  BY <1>3 DEF SetLinks, Tables
<1>4. ASSUME i \in FileIds, NEW e \in Seq(Extents) PROVE SetExts(t, i, e) \in Tables
  BY <1>4 DEF SetExts, Tables
<1> QED
  BY <1>1, <1>2, <1>3, <1>4

(* So do the operations on names and links.                                *)
LEMMA TablesNamed ==
    ASSUME NEW t \in Tables, NEW n \in Names, NEW i \in FileIds
    PROVE  /\ AddLinkName(t, i, n) \in Tables
           /\ RemoveLinkName(t, i, n) \in Tables
           /\ \A m \in Names : RenameLink(t, i, m, n) \in Tables
           /\ Drop(t, i) \in Tables
<1>1. t.links[i] \in SUBSET Names /\ NoFile \in FileIds \cup {NoFile}
  BY TablesSet
<1>2. AddLinkName(t, i, n) \in Tables
  <2>1. SetFile(t, n, i) \in Tables
    BY TablesSet
  <2> QED
    BY SMT, <1>1, <2>1, TablesSet DEF AddLinkName
<1>3. RemoveLinkName(t, i, n) \in Tables
  <2>1. SetFile(t, n, NoFile) \in Tables
    BY <1>1, TablesSet
  <2> QED
    BY SMT, <1>1, <2>1, TablesSet DEF RemoveLinkName
<1>4. ASSUME NEW m \in Names PROVE RenameLink(t, i, m, n) \in Tables
  <2>1. SetFile(t, m, NoFile) \in Tables
    BY <1>1, TablesSet
  <2>2. SetFile(SetFile(t, m, NoFile), n, i) \in Tables
    <3>1. PICK u : u = SetFile(t, m, NoFile)
      OBVIOUS
    <3> QED
      BY <2>1, <3>1, TablesSet
  <2> QED
    BY SMT, <1>1, <2>2, TablesSet DEF RenameLink
<1>5. Drop(t, i) \in Tables
  <2>1. SetLinks(t, i, {}) \in Tables
    BY TablesSet
  <2>3. << >> \in Seq(Extents)
    BY SMT
  <2>4. PICK u : u = SetLinks(t, i, {})
    OBVIOUS
  <2>5. SetExts(u, i, << >>) \in Tables
    BY <2>1, <2>3, <2>4, TablesSet
  <2>2. SetExts(SetLinks(t, i, {}), i, << >>) \in Tables
    BY <2>4, <2>5
  <2> QED
    BY <2>2 DEF Drop
<1> QED
  BY <1>2, <1>3, <1>4, <1>5

(* The empty table is a table, and the image of an empty zone an image.    *)
LEMMA NoFilesTable == NoFiles \in Tables /\ Blank \in Images
<1>1. NoFiles \in Tables
  BY SMT DEF NoFiles, Tables
<1> QED
  BY SMT, <1>1, MetaLogAssumption DEF Blank, Images

(* A record or a snapshot read after an image of a log gives an image.     *)
LEMMA ReplayImage ==
    ASSUME NEW m \in Images, NEW r,
           \/ IsRecord(r) \/ r.tag \in {"end", "torn"}
           \/ r.tag = "snapshot" /\ r.table \in Tables
    PROVE  Replay(m, r) \in Images
<1>1. /\ m = [state |-> m.state, ended |-> m.ended, table |-> m.table, next |-> m.next]
      /\ m.state \in {"none", "ok", "corrupt"} /\ m.ended \in BOOLEAN
      /\ m.table \in Tables /\ m.next \in 1..MaxFileId + 1
  BY DEF Images
<1>2. ASSUME NEW t \in Tables, NEW k \in 1..MaxFileId + 1, NEW s \in {"none", "ok", "corrupt"}
      PROVE  /\ [m EXCEPT !.table = t, !.next = k] \in Images
             /\ [m EXCEPT !.table = t] \in Images
             /\ [m EXCEPT !.state = s] \in Images
             /\ [m EXCEPT !.ended = TRUE] \in Images
             /\ [m EXCEPT !.state = s, !.table = t, !.next = k] \in Images
  BY <1>1, <1>2 DEF Images
<1>3. MaxFileId \in Nat
  BY MetaLogAssumption
<1>4. CASE r.tag = "end"
  BY <1>1, <1>2, <1>4 DEF Replay
<1>5. CASE r.tag = "torn"
  BY <1>1, <1>2, <1>5 DEF Replay
<1>6. CASE r.tag = "snapshot" /\ r.table \in Tables
  <2> DEFINE ids == Alive(r.table) \cup {m.next - 1}
             k == CHOOSE i \in ids : \A j \in ids : j <= i
  <2>1. r.table.files \in [Names -> FileIds \cup {NoFile}]
    BY <1>6, TableParts
  <2>2. ids \subseteq 0..MaxFileId
    BY SMT, <1>1, <1>3, <2>1 DEF Alive, FileIds, NoFile
  <2>3. ids # {}
    OBVIOUS
  <2> HIDE DEF ids
  <2>9. ids \in SUBSET Nat /\ \A i \in ids : i <= MaxFileId
    BY SMT, <1>3, <2>2
  <2>4. \E i \in ids : \A j \in ids : j <= i
    BY <1>3, <2>9, <2>3, Greatest
  <2>5. k \in ids
    BY <2>4
  <2> HIDE DEF k
  <2>6. 1 + k \in 1..MaxFileId + 1
    BY SMT, <1>3, <2>9, <2>5
  <2>7. DecodeSnapshotFrom(m, r) = [m EXCEPT !.state = "ok", !.table = r.table, !.next = 1 + k]
    BY DEF DecodeSnapshotFrom, ids, k
  <2>8. DecodeSnapshotFrom(m, r) \in Images
    <3>1. PICK q : q = 1 + k
      OBVIOUS
    <3>2. [m EXCEPT !.state = "ok", !.table = r.table, !.next = q] \in Images
      BY <1>1, <1>6, <2>6, <3>1 DEF Images
    <3> QED
      BY <2>7, <3>1, <3>2
  <2> QED
    BY <1>6, <2>8 DEF Replay
<1>7. CASE r.tag = "deletion" /\ r.id \in FileIds /\ r.name \in Names
  <2>1. RemoveLinkName(m.table, r.id, r.name) \in Tables
    BY <1>1, <1>7, TablesNamed
  <2>2. Drop(RemoveLinkName(m.table, r.id, r.name), r.id) \in Tables
    BY <1>7, <2>1, TablesNamed
  <2>3. DecodeFileDeletionFrom(m, r) \in Images
    BY <1>1, <1>2, <2>2 DEF DecodeFileDeletionFrom
  <2> QED
    BY <1>7, <2>3 DEF Replay
<1>8. CASE /\ r.tag \in {"update", "replace"} /\ r.id \in FileIds /\ r.links \subseteq Names
           /\ r.exts \in Seq(Extents)
  <2> DEFINE t == m.table
             known == r.id \in Alive(t)
             under == IF known THEN r.links ELSE {CHOOSE n \in r.links : TRUE}
             freed == [n \in Names |-> IF known /\ n \in t.links[r.id] THEN NoFile ELSE t.files[n]]
             u == [files |-> [n \in Names |-> IF n \in under /\ freed[n] = NoFile
                                              THEN r.id ELSE freed[n]],
                   links |-> [t.links EXCEPT ![r.id] = r.links],
                   exts  |-> [t.exts EXCEPT ![r.id] = IF known /\ r.tag = "update"
                                                      THEN @ \o r.exts ELSE r.exts]]
             k == IF r.id >= m.next THEN r.id + 1 ELSE m.next
  <2>1. /\ t.files \in [Names -> FileIds \cup {NoFile}] /\ t.links \in [FileIds -> SUBSET Names]
        /\ t.exts \in [FileIds -> Seq(Extents)]
    BY <1>1, TableParts
  <2>2. freed \in [Names -> FileIds \cup {NoFile}]
    BY <2>1
  <2>3. t.exts[r.id] \o r.exts \in Seq(Extents)
    BY SMT, <1>8, <2>1
  <2>4. k \in 1..MaxFileId + 1
    BY SMT, <1>1, <1>3, <1>8 DEF FileIds
  <2>5. u \in Tables
    <3> HIDE DEF known, under, freed, t
    <3>1. [n \in Names |-> IF n \in under /\ freed[n] = NoFile THEN r.id ELSE freed[n]]
            \in [Names -> FileIds \cup {NoFile}]
      BY <1>8, <2>2
    <3>2. [t.links EXCEPT ![r.id] = r.links] \in [FileIds -> SUBSET Names]
      BY <1>8, <2>1
    <3>3. [t.exts EXCEPT ![r.id] = IF known /\ r.tag = "update" THEN @ \o r.exts ELSE r.exts]
            \in [FileIds -> Seq(Extents)]
      BY <1>8, <2>1, <2>3
    <3> QED
      BY <3>1, <3>2, <3>3 DEF Tables
  <2>6. \/ DecodeFileUpdateFrom(m, r) = [m EXCEPT !.state = "corrupt"]
        \/ DecodeFileUpdateFrom(m, r) = [m EXCEPT !.table = u, !.next = k]
    BY <1>1 DEF DecodeFileUpdateFrom
  <2> HIDE DEF u, k
  <2>7. DecodeFileUpdateFrom(m, r) \in Images
    BY <1>2, <2>4, <2>5, <2>6
  <2> QED
    BY <1>1, <1>8, <2>7 DEF Replay
<1> QED
  BY <1>4, <1>5, <1>6, <1>7, <1>8 DEF IsRecord

(* An encoded file is a record.                                            *)
LEMMA EncodeRecord ==
    ASSUME NEW t \in Tables, NEW i \in FileIds, NEW from \in Nat, NEW tag \in {"update", "replace"}
    PROVE  IsRecord(Encode(t, i, from, tag))
<1>1. t.links[i] \subseteq Names /\ t.exts[i] \in Seq(Extents)
  BY DEF Tables
<1>2. SubSeq(t.exts[i], from + 1, Len(t.exts[i])) \in Seq(Extents)
  BY <1>1, RestSeq
<1> QED
  BY <1>1, <1>2 DEF Encode, IsRecord

(* A snapshot of a table holds a table.                                    *)
LEMMA SnapshotTable ==
    ASSUME NEW t \in Tables
    PROVE  Snapshot(t).tag = "snapshot" /\ Snapshot(t).table \in Tables
<1>1. /\ t.files \in [Names -> FileIds \cup {NoFile}] /\ t.links \in [FileIds -> SUBSET Names]
      /\ t.exts \in [FileIds -> Seq(Extents)]
  BY TableParts
<1>2. [i \in FileIds |-> IF i \in Alive(t) THEN t.links[i] ELSE {}] \in [FileIds -> SUBSET Names]
  BY <1>1
<1>3. [i \in FileIds |-> IF i \in Alive(t) THEN t.exts[i] ELSE << >>] \in [FileIds -> Seq(Extents)]
  BY SMT, <1>1
<1> QED
  BY <1>1, <1>2, <1>3 DEF Snapshot, Tables

(* AddRecord never takes more room than there is, and Replay keeps what is *)
(* recovered a table.                                                      *)
LEMMA AddRecordType ==
    ASSUME DeviceType, NEW z \in MetaZones, NEW r, NEW blocks \in Nat, AddRecord(z, r, blocks),
           \/ r.tag = "super" /\ r.seq \in Nat
           \/ IsRecord(r) \/ r.tag \in {"end", "torn"}
           \/ r.tag = "snapshot" /\ r.table \in Tables
    PROVE  DeviceType'
<1>1. cap' \in [MetaZones -> 0..MetaCapacity]
  BY SMT, MetaLogAssumption DEF DeviceType, AddRecord
<1>2. super' \in [MetaZones -> Nat \cup {BadSuper}]
  BY DEF DeviceType, AddRecord, IsRecord
<1>3. img' \in [MetaZones -> Images]
  <2>1. CASE r.tag = "super"
    BY <2>1 DEF DeviceType, AddRecord
  <2>2. CASE r.tag # "super"
    <3>1. img[z] \in Images
      BY DEF DeviceType
    <3>2. Replay(img[z], r) \in Images
      BY <2>2, <3>1, ReplayImage
    <3>3. img' = [img EXCEPT ![z] = Replay(img[z], r)]
      BY <2>2 DEF AddRecord
    <3> QED
      BY <3>2, <3>3 DEF DeviceType
  <2> QED
    BY <2>1, <2>2
<1> QED
  BY <1>1, <1>2, <1>3 DEF DeviceType

(* Zone::Reset leaves an empty zone with all its room, or none.            *)
LEMMA ResetType ==
    ASSUME DeviceType, NEW z \in MetaZones, NEW c \in ResetCapacities, Reset(z, c)
    PROVE  DeviceType'
<1>1. c \in 0..MetaCapacity
  BY SMT, MetaLogAssumption DEF ResetCapacities
<1>2. cap' \in [MetaZones -> 0..MetaCapacity]
  BY <1>1 DEF DeviceType, Reset
<1>3. super' \in [MetaZones -> Nat \cup {BadSuper}]
  BY DEF DeviceType, Reset, NoSuper
<1>4. img' \in [MetaZones -> Images]
  BY NoFilesTable DEF DeviceType, Reset
<1> QED
  BY <1>2, <1>3, <1>4 DEF DeviceType

(* What an action leaves alone keeps its type.                             *)
LEMMA TypeFrame ==
    /\ DeviceType /\ UNCHANGED device => DeviceType'
    /\ FilesType /\ UNCHANGED files => FilesType'
    /\ RollType /\ UNCHANGED <<roll, pc>> => RollType'
    /\ GCType /\ UNCHANGED gc => GCType'
    /\ ToldType /\ UNCHANGED <<crashes, told>> => ToldType'
    /\ OpType /\ UNCHANGED <<op, pc, next>> /\ mem'.files = mem.files => OpType'
<1>1. DeviceType /\ UNCHANGED device => DeviceType'
  BY DEF DeviceType, device
<1>2. FilesType /\ UNCHANGED files => FilesType'
  BY DEF FilesType, files
<1>3. RollType /\ UNCHANGED <<roll, pc>> => RollType'
  BY DEF RollType, roll
<1>4. GCType /\ UNCHANGED gc => GCType'
  BY DEF GCType
<1>5. ToldType /\ UNCHANGED <<crashes, told>> => ToldType'
  BY DEF ToldType, told
<1>6. OpType /\ UNCHANGED <<op, pc, next>> /\ mem'.files = mem.files => OpType'
  BY DEF OpType, IsRecord
<1> QED
  BY <1>1, <1>2, <1>3, <1>4, <1>5, <1>6

(* No operation is in progress when the file system is idle or down.       *)
LEMMA NoOpType ==
    ASSUME pc' \in {"idle", "down", "unmountable"}, op' = NoOp
    PROVE  OpType'
  BY DEF OpType, NoOp

(* The operation in progress goes on.                                      *)
LEMMA OpGoesOn ==
    ASSUME OpType, pc \notin {"idle", "down", "unmountable"},
           pc' \notin {"idle", "down", "unmountable", "persist"},
           UNCHANGED <<op, next, mem>>
    PROVE  OpType'
  BY DEF OpType, IsRecord

(* The steps of PersistRecord and of a roll keep the types.                *)
LEMMA PersistType == ASSUME TypeInv, Persist PROVE TypeInv'
<1> USE DEF TypeInv
<1>0. /\ cur \in MetaZones /\ old \in MetaZones /\ seq \in Nat /\ pc \in Points
      /\ SnapshotBlocks \in Nat /\ 1 \in Nat
  BY MetaLogAssumption DEF RollType
<1>1. CASE PersistRecord
  <2>1. IsRecord(op.rec)
    BY <1>1 DEF PersistRecord, OpType
  <2>2. DeviceType'
    <3>1. CASE AddRecord(cur, op.rec, 1)
      BY <1>0, <2>1, <3>1, AddRecordType
    <3>2. CASE UNCHANGED device
      BY <3>2, TypeFrame
    <3> QED
      BY <1>1, <3>1, <3>2 DEF PersistRecord
  <2>3. OpType' /\ RollType'
    <3>1. pc = "persist" /\ pc' \in {"ok", "allocate", "failed"} /\ UNCHANGED <<op, next, mem, cur, old, seq>>
      BY <1>1 DEF PersistRecord, files, roll
    <3> QED
      BY <1>0, <3>1, OpGoesOn DEF RollType, Points
  <2> QED
    BY <1>1, <2>2, <2>3, TypeFrame DEF PersistRecord
<1>2. CASE AllocateMetaZone
  <2>1. DeviceType' /\ cur' \in MetaZones /\ old' \in MetaZones
    <3>1. CASE UNCHANGED <<device, cur, old>>
      BY <1>0, <3>1, TypeFrame
    <3>2. ASSUME NEW z \in MetaZones, cur' = z, old' = cur,
                 UNCHANGED device \/ \E c \in ResetCapacities : Reset(z, c)
          PROVE  DeviceType' /\ cur' \in MetaZones /\ old' \in MetaZones
      BY <1>0, <3>2, TypeFrame, ResetType
    <3> QED
      BY <1>2, <3>1, <3>2 DEF AllocateMetaZone
  <2>2. OpType' /\ RollType'
    <3>1. pc = "allocate" /\ pc' \in {"end", "failed"} /\ UNCHANGED <<op, next, mem, seq>>
      BY <1>2 DEF AllocateMetaZone, files
    <3> QED
      BY <1>0, <2>1, <3>1, OpGoesOn DEF RollType, Points
  <2> QED
    BY <1>2, <2>1, <2>2, TypeFrame DEF AllocateMetaZone
<1>3. CASE WriteEndRecord
  <2>1. DeviceType'
    <3>1. CASE AddRecord(old, [tag |-> "end"], 1)
      BY <1>0, <3>1, AddRecordType
    <3> QED
      BY <1>3, <3>1, TypeFrame DEF WriteEndRecord
  <2>2. OpType' /\ RollType'
    <3>1. pc = "end" /\ pc' = "finish" /\ UNCHANGED <<op, next, mem, cur, old, seq>>
      BY <1>3 DEF WriteEndRecord, files, roll
    <3> QED
      BY <1>0, <3>1, OpGoesOn DEF RollType, Points
  <2> QED
    BY <1>3, <2>1, <2>2, TypeFrame DEF WriteEndRecord
<1>4. CASE FinishOld
  <2>1. DeviceType'
    <3>1. cap' = [cap EXCEPT ![old] = 0] /\ super' = super
      BY <1>4 DEF FinishOld
    <3>2. cap' \in [MetaZones -> 0..MetaCapacity]
      BY SMT, <1>0, <3>1, MetaLogAssumption DEF DeviceType
    <3>3. PICK r : r = [tag |-> "torn"]
      OBVIOUS
    <3>4. Replay(img[old], r) \in Images
      BY <1>0, <3>3, ReplayImage DEF DeviceType
    <3>5. img' \in [MetaZones -> Images]
      BY <1>0, <1>4, <3>3, <3>4 DEF FinishOld, DeviceType
    <3> QED
      BY <3>1, <3>2, <3>5 DEF DeviceType
  <2>2. OpType' /\ RollType'
    <3>1. pc = "finish" /\ pc' = "super" /\ UNCHANGED <<op, next, mem, cur, old, seq>>
      BY <1>4 DEF FinishOld, files, roll
    <3> QED
      BY <1>0, <3>1, OpGoesOn DEF RollType, Points
  <2> QED
    BY <1>4, <2>1, <2>2, TypeFrame DEF FinishOld
<1>5. CASE WriteSuperblock
  <2>1. DeviceType'
    <3>1. CASE AddRecord(cur, [tag |-> "super", seq |-> seq + 1], 1)
      <4>1. PICK r : r = [tag |-> "super", seq |-> seq + 1]
        OBVIOUS
      <4>2. r.tag = "super" /\ r.seq \in Nat
        BY SMT, <1>0, <4>1
      <4>3. AddRecord(cur, r, 1)
        BY <3>1, <4>1
      <4> QED
        BY <1>0, <4>2, <4>3, AddRecordType
    <3> QED
      BY <1>5, <3>1, TypeFrame DEF WriteSuperblock
  <2>2. OpType' /\ RollType'
    <3>1. /\ pc = "super" /\ pc' \in {"encode", "failed"} /\ seq' = seq + 1
          /\ UNCHANGED <<op, next, mem, cur, old>>
      BY <1>5 DEF WriteSuperblock, files
    <3> QED
      BY SMT, <1>0, <3>1, OpGoesOn DEF RollType, Points
  <2> QED
    BY <1>5, <2>1, <2>2, TypeFrame DEF WriteSuperblock
<1>6. CASE EncodeSnapshot
  <2>1. snap'.tag = "snapshot" /\ snap'.table \in Tables
    BY <1>6, SnapshotTable DEF EncodeSnapshot, FilesType
  <2>2. OpType' /\ RollType'
    <3>1. pc = "encode" /\ pc' = "snapshot" /\ UNCHANGED <<op, next, mem, cur, old, seq>>
      BY <1>6 DEF EncodeSnapshot, files
    <3> QED
      BY <1>0, <2>1, <3>1, OpGoesOn DEF RollType, Points
  <2> QED
    BY <1>6, <2>2, TypeFrame DEF EncodeSnapshot
<1>7. CASE WriteSnapshot
  <2>1. snap.tag = "snapshot" /\ snap.table \in Tables
    BY <1>7 DEF WriteSnapshot, RollType
  <2>2. DeviceType'
    <3>1. CASE AddRecord(cur, snap, SnapshotBlocks)
      BY <1>0, <2>1, <3>1, AddRecordType
    <3> QED
      BY <1>7, <3>1, TypeFrame DEF WriteSnapshot
  <2>3. synced' \in [FileIds -> Nat]
    <3>1. \A i \in FileIds : Len(mem.exts[i]) \in Nat
      BY SMT DEF FilesType, Tables
    <3>2. synced \in [FileIds -> Nat]
      BY DEF FilesType
    <3> QED
      BY <1>7, <3>1, <3>2 DEF WriteSnapshot
  <2>4. OpType' /\ RollType'
    <3>1. pc = "snapshot" /\ pc' \in {"reset", "failed"} /\ UNCHANGED <<op, next, mem, cur, old, seq>>
      BY <1>7 DEF WriteSnapshot
    <3> QED
      BY <1>0, <3>1, OpGoesOn DEF RollType, Points
  <2>5. FilesType'
    BY <1>7, <2>3 DEF WriteSnapshot, FilesType
  <2> QED
    BY <1>7, <2>2, <2>4, <2>5, TypeFrame DEF WriteSnapshot
<1>8. CASE ResetOld
  <2>1. DeviceType'
    BY <1>0, <1>8, ResetType, TypeFrame DEF ResetOld
  <2>2. OpType' /\ RollType'
    <3>1. pc = "reset" /\ pc' = "ok" /\ UNCHANGED <<op, next, mem, cur, old, seq>>
      BY <1>8 DEF ResetOld, files, roll
    <3> QED
      BY <1>0, <3>1, OpGoesOn DEF RollType, Points
  <2> QED
    BY <1>8, <2>1, <2>2, TypeFrame DEF ResetOld
<1> QED
  BY <1>1, <1>2, <1>3, <1>4, <1>5, <1>6, <1>7, <1>8 DEF Persist

(* DeleteFileNoLock up to its record: what it leaves in memory is a table, *)
(* and what it persists is a record.                                       *)
LEMMA StartDeleteType ==
    ASSUME TypeInv, NEW n \in Names, NEW from \in Names,
           NEW then \in {"return", "create", "rename", "error"}, mem.files[n] # NoFile, StartDelete(n, then, from), UNCHANGED next,
           then = "create" => next <= MaxFileId,
           then = "rename" => from # n /\ mem.files[from] # NoFile
    PROVE  mem' \in Tables /\ OpType' /\ pc' = "persist"
<1>1. mem \in Tables /\ mem.files \in [Names -> FileIds \cup {NoFile}] /\ mem.files[n] \in FileIds
  BY DEF TypeInv, FilesType, Tables
<1>2. PICK i \in FileIds : i = mem.files[n]
  BY <1>1
<1>3. /\ mem' = RemoveLinkName(mem, i, n) /\ pc' = "persist"
      /\ op' = [kind |-> "delete", id |-> i, name |-> n, from |-> from, then |-> then,
                rec |-> Deletion(i, n)]
  BY <1>2 DEF StartDelete, Start
<1>4. mem' \in Tables
  BY <1>1, <1>3, TablesNamed
<1>5. mem'.files = [mem.files EXCEPT ![n] = NoFile]
  BY <1>1, <1>3 DEF RemoveLinkName, SetLinks, SetFile, Tables
<1>6. then = "rename" => mem'.files[from] # NoFile
  BY <1>1, <1>5
<1>7. IsRecord(op'.rec)
  BY <1>3 DEF Deletion, IsRecord
<1>8. OpType'
  BY <1>3, <1>6, <1>7 DEF OpType, Kinds, IsRecord
<1> QED
  BY <1>3, <1>4, <1>8

(* OpenWritableFile up to its record, with an identity that is left.       *)
LEMMA StartCreateType ==
    ASSUME TypeInv, NEW n \in Names, next <= MaxFileId, StartCreate(n)
    PROVE  mem' \in Tables /\ OpType' /\ pc' = "persist" /\ next' \in 1..MaxFileId + 1
<1>1. mem \in Tables /\ next \in FileIds /\ next' = next + 1 /\ MaxFileId \in Nat
  BY SMT, MetaLogAssumption DEF TypeInv, FilesType, FileIds, StartCreate
<1>2. SetLinks(mem, next, {n}) \in Tables
  BY <1>1, TablesSet
<1>3. IsRecord(Encode(SetLinks(mem, next, {n}), next, 0, "update"))
  BY <1>1, <1>2, EncodeRecord
<1>4. /\ mem' = SetLinks(mem, next, {n}) /\ pc' = "persist"
      /\ op' = [kind |-> "create", id |-> next, name |-> n,
                rec |-> Encode(SetLinks(mem, next, {n}), next, 0, "update")]
  BY DEF StartCreate, Start
<1>5. IsRecord(op'.rec)
  BY <1>3, <1>4
<1>6. OpType'
  BY <1>1, <1>4, <1>5 DEF OpType, Kinds, IsRecord
<1> QED
  BY SMT, <1>1, <1>2, <1>4, <1>6 DEF FileIds

(* RenameFileNoLock up to its record.                                      *)
LEMMA StartRenameType ==
    ASSUME TypeInv, NEW n \in Names, NEW from \in Names, mem.files[from] # NoFile,
           StartRename(from, n)
    PROVE  mem' \in Tables /\ OpType' /\ pc' = "persist"
<1>1. mem \in Tables /\ mem.files[from] \in FileIds /\ synced \in [FileIds -> Nat]
  BY DEF TypeInv, FilesType, Tables
<1>2. PICK i \in FileIds : i = mem.files[from]
  BY <1>1
<1>3. PICK t : t = RenameLink(mem, i, from, n)
  OBVIOUS
<1>4. t \in Tables
  BY <1>1, <1>3, TablesNamed
<1>5. IsRecord(Encode(t, i, synced[i], "update"))
  BY <1>1, <1>4, EncodeRecord
<1>6. /\ mem' = t /\ pc' = "persist"
      /\ op' = [kind |-> "rename", id |-> i, name |-> n, from |-> from,
                rec |-> Encode(t, i, synced[i], "update")]
  BY <1>2, <1>3 DEF StartRename, Start
<1>7. IsRecord(op'.rec)
  BY <1>5, <1>6
<1>8. OpType'
  BY <1>6, <1>7 DEF OpType, Kinds, IsRecord
<1> QED
  BY <1>4, <1>6, <1>8

(* PersistMetadata of a file.                                              *)
LEMMA StartSyncType ==
    ASSUME TypeInv, NEW i \in FileIds, NEW kind \in {"fsync", "close", "replace"},
           NEW tag \in {"update", "replace"},
           Start([kind |-> kind, id |-> i, rec |-> Encode(mem, i, synced[i], tag)], mem)
    PROVE  mem' = mem /\ OpType' /\ pc' = "persist"
<1>1. mem \in Tables /\ synced[i] \in Nat
  BY DEF TypeInv, FilesType
<1>2. IsRecord(Encode(mem, i, synced[i], tag))
  BY <1>1, EncodeRecord
<1>3. /\ mem' = mem /\ pc' = "persist"
      /\ op' = [kind |-> kind, id |-> i, rec |-> Encode(mem, i, synced[i], tag)]
  BY DEF Start
<1>4. IsRecord(op'.rec)
  BY <1>2, <1>3
<1>5. OpType'
  BY <1>3, <1>4 DEF OpType, Kinds, IsRecord
<1> QED
  BY <1>3, <1>5

(* Callers are told of files, of none, or of nothing.                      *)
LEMMA DoubtType ==
    ASSUME ToldType, NEW N, UNCHANGED <<crashes, stable>>,
           Doubt(N) \/ Mislead(N) \/ (\E t \in Tables : Tell(N, t)) \/ UNCHANGED promise
    PROVE  ToldType'
<1>1. CASE Doubt(N)
  BY <1>1 DEF Doubt, ToldType
<1>2. CASE Mislead(N)
  BY <1>2 DEF Mislead, ToldType
<1>3. ASSUME NEW t \in Tables, Tell(N, t) PROVE ToldType'
  <2>1. t.files \in [Names -> FileIds \cup {NoFile}]
    BY TableParts
  <2> QED
    BY <1>3, <2>1 DEF Tell, ToldType
<1>4. CASE UNCHANGED promise
  BY <1>4 DEF ToldType
<1> QED
  BY <1>1, <1>2, <1>3, <1>4

(* The point of the operation moves and the roll's variables stay.         *)
LEMMA RollStays ==
    ASSUME RollType, UNCHANGED roll, pc' \in Points \ {"snapshot"}
    PROVE  RollType'
  BY DEF RollType, roll

(* The requests keep the types.                                            *)
LEMMA RequestType == ASSUME TypeInv, Requests PROVE TypeInv'
<1>0. DeviceType /\ FilesType /\ RollType /\ GCType /\ ToldType /\ OpType
  BY DEF TypeInv
<1>1. ASSUME NEW n \in Names, OpenWritableFile(n) PROVE TypeInv'
  <2>1. mem' \in Tables /\ OpType' /\ pc' = "persist" /\ next' \in 1..MaxFileId + 1
    <3>1. CASE mem.files[n] # NoFile
      BY <1>0, <1>1, <3>1, StartDeleteType DEF OpenWritableFile, FilesType
    <3>2. CASE mem.files[n] = NoFile
      BY <1>1, <3>2, StartCreateType DEF OpenWritableFile
    <3> QED
      BY <3>1, <3>2
  <2>2. FilesType'
    BY <1>0, <1>1, <2>1 DEF OpenWritableFile, FilesType
  <2>3. ToldType'
    BY <1>0, <1>1, DoubtType DEF OpenWritableFile
  <2>4. RollType'
    BY <1>0, <1>1, <2>1, RollStays DEF OpenWritableFile, Points
  <2> QED
    BY <1>0, <1>1, <2>1, <2>2, <2>3, <2>4, TypeFrame DEF OpenWritableFile, TypeInv
<1>2. ASSUME NEW n \in Names, ReopenWritableFile(n) PROVE TypeInv'
  <2>1. FilesType'
    BY <1>0, <1>2 DEF ReopenWritableFile, FilesType, Tables
  <2>2. OpType' /\ RollType'
    BY <1>0, <1>2, TypeFrame DEF ReopenWritableFile
  <2> QED
    BY <1>0, <1>2, <2>1, <2>2, TypeFrame DEF ReopenWritableFile, TypeInv
<1>3. ASSUME NEW n \in Names, DeleteFile(n) PROVE TypeInv'
  <2>1. mem' \in Tables /\ OpType' /\ pc' = "persist"
    BY <1>3, StartDeleteType DEF DeleteFile
  <2>2. FilesType'
    BY <1>0, <1>3, <2>1 DEF DeleteFile, FilesType
  <2>3. ToldType'
    BY <1>0, <1>3, DoubtType DEF DeleteFile
  <2>4. RollType'
    BY <1>0, <1>3, <2>1, RollStays DEF DeleteFile, Points
  <2> QED
    BY <1>0, <1>3, <2>1, <2>2, <2>3, <2>4, TypeFrame DEF DeleteFile, TypeInv
<1>4. ASSUME NEW from \in Names, NEW n \in Names, RenameFile(from, n) PROVE TypeInv'
  <2>1. mem' \in Tables /\ OpType' /\ pc' = "persist"
    <3>1. CASE mem.files[n] # NoFile
      <4>1. PICK then \in {"rename", "error"} :
              then = (IF from = n THEN "error" ELSE "rename")
        OBVIOUS
      <4>2. StartDelete(n, then, from) /\ UNCHANGED next /\ mem.files[from] # NoFile
        BY <1>4, <3>1, <4>1 DEF RenameFile
      <4>3. then = "rename" => from # n
        BY <4>1
      <4> QED
        BY <3>1, <4>2, <4>3, StartDeleteType
    <3>2. CASE mem.files[n] = NoFile
      BY <1>4, <3>2, StartRenameType DEF RenameFile
    <3> QED
      BY <3>1, <3>2
  <2>2. FilesType'
    BY <1>0, <1>4, <2>1 DEF RenameFile, FilesType
  <2>3. ToldType'
    BY <1>0, <1>4, DoubtType DEF RenameFile
  <2>4. RollType'
    BY <1>0, <1>4, <2>1, RollStays DEF RenameFile, Points
  <2> QED
    BY <1>0, <1>4, <2>1, <2>2, <2>3, <2>4, TypeFrame DEF RenameFile, TypeInv
<1>5. ASSUME NEW n \in Names, NEW link \in Names, LinkFile(n, link) PROVE TypeInv'
  <2>1. mem \in Tables /\ mem.files[n] \in FileIds /\ synced \in [FileIds -> Nat]
    BY <1>0, <1>5 DEF LinkFile, FilesType, Tables
  <2>2. PICK i \in FileIds : i = mem.files[n]
    BY <2>1
  <2>3. PICK t : t = AddLinkName(mem, i, link)
    OBVIOUS
  <2>4. t \in Tables
    BY <2>1, <2>3, TablesNamed
  <2>5. IsRecord(Encode(t, i, synced[i], "update"))
    BY <2>1, <2>4, EncodeRecord
  <2>6. /\ mem' = t /\ pc' = "persist"
        /\ op' = [kind |-> "link", id |-> i, name |-> link,
                  rec |-> Encode(t, i, synced[i], "update")]
    BY <1>5, <2>2, <2>3 DEF LinkFile, Start
  <2>7. IsRecord(op'.rec)
    BY <2>5, <2>6
  <2>8. OpType'
    BY <2>6, <2>7 DEF OpType, Kinds, IsRecord
  <2>9. FilesType'
    BY <1>0, <1>5, <2>4, <2>6 DEF LinkFile, FilesType
  <2>10. ToldType'
    BY <1>0, <1>5, DoubtType DEF LinkFile
  <2>11. RollType'
    BY <1>0, <1>5, <2>6, RollStays DEF LinkFile, Points
  <2> QED
    BY <1>0, <1>5, <2>8, <2>9, <2>10, <2>11, TypeFrame DEF LinkFile, TypeInv
<1>6. ASSUME NEW i \in FileIds, AddExtent(i) PROVE TypeInv'
  <2>1. PICK es : es = mem.exts[i]
    OBVIOUS
  <2>2. mem \in Tables /\ es \in Seq(Extents) /\ Len(es) \in Nat /\ Len(es) < MaxExtents
    BY SMT, <1>0, <1>6, <2>1 DEF AddExtent, FilesType, Tables
  <2>3. PICK e : e = [n |-> Len(es) + 1, copy |-> 0]
    OBVIOUS
  <2>4. e \in Extents
    BY SMT, <2>2, <2>3, MetaLogAssumption DEF Extents
  <2>5. PICK fs : fs = Append(es, e)
    OBVIOUS
  <2>6. fs \in Seq(Extents)
    BY SMT, <2>2, <2>4, <2>5
  <2>7. mem' = SetExts(mem, i, fs)
    BY <1>6, <2>1, <2>3, <2>5 DEF AddExtent
  <2>8. mem' \in Tables /\ mem'.files = mem.files
    BY <2>2, <2>6, <2>7 DEF SetExts, Tables
  <2>9. FilesType'
    BY <1>0, <1>6, <2>8 DEF AddExtent, FilesType
  <2>10. OpType' /\ RollType'
    BY <1>0, <1>6, <2>8, TypeFrame DEF AddExtent
  <2> QED
    BY <1>0, <1>6, <2>9, <2>10, TypeFrame DEF AddExtent, TypeInv
<1>7. ASSUME NEW i \in FileIds, NEW kind \in {"fsync", "close"}, SyncFileMetadata(i, kind)
      PROVE  TypeInv'
  <2>1. mem' = mem /\ OpType' /\ pc' = "persist"
    BY <1>7, StartSyncType DEF SyncFileMetadata
  <2>2. FilesType'
    BY <1>0, <1>7, <2>1 DEF SyncFileMetadata, FilesType
  <2>3. RollType'
    BY <1>0, <1>7, <2>1, RollStays DEF SyncFileMetadata, Points
  <2> QED
    BY <1>0, <1>7, <2>1, <2>2, <2>3, TypeFrame DEF SyncFileMetadata, TypeInv
<1> QED
  BY <1>1, <1>2, <1>3, <1>4, <1>5, <1>6, <1>7 DEF Requests

(* What is left of the file system when it is down.                        *)
LEMMA DownType ==
    ASSUME PowerDown
    PROVE  FilesType' /\ RollType' /\ GCType' /\ OpType'
<1>1. FilesType'
  BY SMT, NoFilesTable, MetaLogAssumption DEF PowerDown, FilesType
<1>2. RollType' /\ GCType'
  BY SMT, MetaLogAssumption DEF PowerDown, RollType, GCType, Points, MetaZones, NoGC
<1>3. OpType'
  BY NoOpType DEF PowerDown
<1> QED
  BY <1>1, <1>2, <1>3

(* MetadataSynced marks a number of extents.                               *)
LEMMA SyncedType ==
    ASSUME FilesType, op.id \in FileIds, Synced
    PROVE  synced' \in [FileIds -> Nat]
<1>1. Len(mem.exts[op.id]) \in Nat
  BY SMT DEF FilesType, Tables
<1> QED
  BY <1>1 DEF Synced, FilesType

(* The operations from PersistRecord on keep the types.                    *)
LEMMA ReturnType == ASSUME TypeInv, Return PROVE TypeInv'
<1>0. DeviceType /\ FilesType /\ RollType /\ GCType /\ ToldType /\ OpType
  BY DEF TypeInv
<1>1. mem \in Tables /\ synced \in [FileIds -> Nat]
  BY <1>0 DEF FilesType
<1>2. Idle => pc' = "idle" /\ pc' \in Points \ {"snapshot"} /\ OpType'
  BY NoOpType DEF Idle, Points
<1>3. CASE CreateOk
  <2>1. op.id \in FileIds /\ op.name \in Names
    BY <1>0, <1>3 DEF CreateOk, OpType
  <2>2. SetFile(mem, op.name, op.id) \in Tables
    BY <1>1, <2>1, TablesSet
  <2>3. synced' \in [FileIds -> Nat]
    BY <1>0, <1>3, <2>1, SyncedType DEF CreateOk
  <2>4. FilesType'
    BY <1>0, <1>3, <2>1, <2>2, <2>3 DEF CreateOk, FilesType
  <2>5. OpType' /\ RollType'
    BY <1>0, <1>2, <1>3, RollStays DEF CreateOk
  <2> QED
    BY <1>0, <1>3, <2>4, <2>5, TypeFrame DEF CreateOk, TypeInv
<1>4. CASE CreateFailed
  <2>1. op.id \in FileIds /\ op.name \in Names
    BY <1>0, <1>4 DEF CreateFailed, OpType
  <2>2. Drop(mem, op.id) \in Tables
    BY <1>1, <2>1, TablesNamed
  <2>3. FilesType'
    BY <1>0, <1>4, <2>2 DEF CreateFailed, FilesType
  <2>4. OpType' /\ RollType'
    BY <1>0, <1>2, <1>4, RollStays DEF CreateFailed
  <2> QED
    BY <1>0, <1>4, <2>3, <2>4, TypeFrame DEF CreateFailed, TypeInv
<1>5. CASE DeleteOk
  <2>1. op.id \in FileIds /\ op.name \in Names /\ op.then \in {"return", "create", "rename", "error"}
    BY <1>0, <1>5 DEF DeleteOk, OpType
  <2>2. deleted' \subseteq FileIds
    BY <1>0, <1>5, <2>1 DEF DeleteOk, FilesType
  <2>3. /\ mem' \in Tables /\ next' \in 1..MaxFileId + 1 /\ OpType' /\ pc' \in {"idle", "persist"}
        /\ UNCHANGED promise \/ Tell({op.name}, mem)
    <3>1. CASE op.then = "return"
      <4>1. Idle /\ Tell({op.name}, mem) /\ UNCHANGED <<mem, next>>
        BY <1>5, <3>1 DEF DeleteOk
      <4> QED
        BY <1>0, <1>2, <4>1 DEF FilesType
    <3>2. CASE op.then = "create"
      <4>1. next <= MaxFileId /\ StartCreate(op.name) /\ UNCHANGED promise
        BY <1>0, <1>5, <3>2 DEF DeleteOk, OpType
      <4> QED
        BY <2>1, <4>1, StartCreateType
    <3>3. CASE op.then = "rename"
      <4>1. /\ op.from \in Names /\ mem.files[op.from] # NoFile
            /\ StartRename(op.from, op.name) /\ UNCHANGED <<next, promise>>
        BY <1>0, <1>5, <3>3 DEF DeleteOk, OpType
      <4>2. mem' \in Tables /\ OpType' /\ pc' = "persist"
        BY <2>1, <4>1, StartRenameType
      <4> QED
        BY <1>0, <4>1, <4>2 DEF FilesType
    <3>4. CASE op.then = "error"
      <4>1. Idle /\ UNCHANGED <<mem, next, promise>>
        BY <1>5, <3>4 DEF DeleteOk
      <4> QED
        BY <1>0, <1>2, <4>1 DEF FilesType
    <3> QED
      BY <2>1, <3>1, <3>2, <3>3, <3>4
  <2>4. FilesType'
    BY <1>0, <1>5, <2>2, <2>3 DEF DeleteOk, FilesType
  <2>5. ToldType'
    BY <1>0, <1>1, <1>5, <2>3, DoubtType DEF DeleteOk
  <2>6. RollType'
    BY <1>0, <1>5, <2>3, RollStays DEF DeleteOk, Points
  <2> QED
    BY <1>0, <1>5, <2>3, <2>4, <2>5, <2>6, TypeFrame DEF DeleteOk, TypeInv
<1>6. CASE DeleteFailed
  <2>1. op.id \in FileIds /\ op.name \in Names
    BY <1>0, <1>6 DEF DeleteFailed, OpType
  <2>2. AddLinkName(mem, op.id, op.name) \in Tables
    BY <1>1, <2>1, TablesNamed
  <2>3. FilesType'
    BY <1>0, <1>6, <2>2 DEF DeleteFailed, FilesType
  <2>4. OpType' /\ RollType'
    BY <1>0, <1>2, <1>6, RollStays DEF DeleteFailed
  <2> QED
    BY <1>0, <1>6, <2>3, <2>4, TypeFrame DEF DeleteFailed, TypeInv
<1>7. CASE RenameOk
  <2>1. op.id \in FileIds
    BY <1>0, <1>7 DEF RenameOk, OpType
  <2>2. synced' \in [FileIds -> Nat]
    BY <1>0, <1>7, <2>1, SyncedType DEF RenameOk
  <2>3. FilesType'
    BY <1>0, <1>7, <2>2 DEF RenameOk, FilesType
  <2>4. ToldType'
    BY <1>0, <1>1, <1>7, DoubtType DEF RenameOk
  <2>5. OpType' /\ RollType'
    BY <1>0, <1>2, <1>7, RollStays DEF RenameOk
  <2> QED
    BY <1>0, <1>7, <2>3, <2>4, <2>5, TypeFrame DEF RenameOk, TypeInv
<1>8. CASE RenameFailed
  <2>1. op.id \in FileIds /\ op.name \in Names /\ op.from \in Names
    BY <1>0, <1>8 DEF RenameFailed, OpType
  <2>2. RenameLink(mem, op.id, op.name, op.from) \in Tables
    BY <1>1, <2>1, TablesNamed
  <2>3. FilesType'
    BY <1>0, <1>8, <2>2 DEF RenameFailed, FilesType
  <2>4. ToldType'
    BY <1>0, <1>8, DoubtType DEF RenameFailed
  <2>5. OpType' /\ RollType'
    BY <1>0, <1>2, <1>8, RollStays DEF RenameFailed
  <2> QED
    BY <1>0, <1>8, <2>3, <2>4, <2>5, TypeFrame DEF RenameFailed, TypeInv
<1>9. CASE LinkOk
  <2>1. op.id \in FileIds
    BY <1>0, <1>9 DEF LinkOk, OpType
  <2>2. synced' \in [FileIds -> Nat]
    BY <1>0, <1>9, <2>1, SyncedType DEF LinkOk
  <2>3. FilesType'
    BY <1>0, <1>9, <2>2 DEF LinkOk, FilesType
  <2>4. ToldType'
    BY <1>0, <1>1, <1>9, DoubtType DEF LinkOk
  <2>5. OpType' /\ RollType'
    BY <1>0, <1>2, <1>9, RollStays DEF LinkOk
  <2> QED
    BY <1>0, <1>9, <2>3, <2>4, <2>5, TypeFrame DEF LinkOk, TypeInv
<1>10. CASE LinkFailed
  <2>1. op.id \in FileIds /\ op.name \in Names
    BY <1>0, <1>10 DEF LinkFailed, OpType
  <2>2. RemoveLinkName(mem, op.id, op.name) \in Tables
    BY <1>1, <2>1, TablesNamed
  <2>3. FilesType'
    BY <1>0, <1>10, <2>2 DEF LinkFailed, FilesType
  <2>4. ToldType'
    BY <1>0, <1>10, DoubtType DEF LinkFailed
  <2>5. OpType' /\ RollType'
    BY <1>0, <1>2, <1>10, RollStays DEF LinkFailed
  <2> QED
    BY <1>0, <1>10, <2>3, <2>4, <2>5, TypeFrame DEF LinkFailed, TypeInv
<1>11. CASE SyncOk
  <2>1. op.id \in FileIds
    BY <1>0, <1>11 DEF SyncOk, OpType
  <2>2. synced' \in [FileIds -> Nat]
    BY <1>0, <1>11, <2>1, SyncedType DEF SyncOk
  <2>3. FilesType'
    BY <1>0, <1>11, <2>2 DEF SyncOk, FilesType
  <2>4. ToldType'
    <3>1. mem.exts[op.id] \in Seq(Extents) /\ mem.files \in [Names -> FileIds \cup {NoFile}]
      BY <1>1, <2>1 DEF Tables
    <3>2. stable' \in [FileIds -> Seq(Extents)]
      BY <1>0, <1>11, <3>1 DEF SyncOk, ToldType
    <3>3. promise' \in [Names -> FileIds \cup {NoFile, Unknown, Misled}]
      BY <1>0, <1>11, <3>1 DEF SyncOk, Tell, ToldType
    <3> QED
      BY <1>0, <1>11, <3>2, <3>3 DEF SyncOk, ToldType
  <2>5. OpType' /\ RollType'
    BY <1>0, <1>2, <1>11, RollStays DEF SyncOk
  <2> QED
    BY <1>0, <1>11, <2>3, <2>4, <2>5, TypeFrame DEF SyncOk, TypeInv
<1>12. CASE SyncFailed
  <2>1. OpType' /\ RollType'
    BY <1>0, <1>2, <1>12, RollStays DEF SyncFailed
  <2> QED
    BY <1>0, <1>12, <2>1, TypeFrame DEF SyncFailed, TypeInv
<1>13. CASE GCDone
  <2>1. op.id \in FileIds
    BY <1>0, <1>13 DEF GCDone, OpType
  <2>2. synced' \in [FileIds -> Nat]
    BY <1>0, <1>1, <1>13, <2>1, SyncedType DEF GCDone
  <2>3. FilesType'
    BY <1>0, <1>13, <2>2 DEF GCDone, FilesType
  <2>4. ToldType'
    <3>1. mem.exts[op.id] \in Seq(Extents)
      BY <1>1, <2>1 DEF Tables
    <3> QED
      BY <1>0, <1>13, <3>1 DEF GCDone, ToldType
  <2>5. OpType' /\ RollType'
    BY <1>0, <1>2, <1>13, RollStays DEF GCDone
  <2>6. GCType'
    BY <1>13 DEF GCDone, NoGC, GCType
  <2> QED
    BY <1>0, <1>13, <2>3, <2>4, <2>5, <2>6, TypeFrame DEF GCDone, TypeInv
<1>14. CASE MountOk
  <2>1. ToldType'
    BY <1>0, <1>1, <1>14 DEF MountOk, ToldType, Tables
  <2>2. OpType' /\ RollType'
    BY <1>0, <1>2, <1>14, RollStays DEF MountOk
  <2> QED
    BY <1>0, <1>14, <2>1, <2>2, TypeFrame DEF MountOk, TypeInv
<1>15. CASE MountFailed
  <2>1. PowerDown /\ UNCHANGED <<device, crashes, told>>
    BY <1>15 DEF MountFailed
  <2> QED
    BY <1>0, <2>1, TypeFrame, DownType DEF TypeInv
<1> QED
  BY <1>3, <1>4, <1>5, <1>6, <1>7, <1>8, <1>9, <1>10, <1>11, <1>12, <1>13, <1>14, <1>15 DEF Return

(* The migration of a file, a crash, and Mount keep the types.             *)
LEMMA OtherType == ASSUME TypeInv, GC \/ Mount \/ Crash PROVE TypeInv'
<1>0. DeviceType /\ FilesType /\ RollType /\ GCType /\ ToldType /\ OpType
  BY DEF TypeInv
<1>1. ASSUME NEW i \in FileIds, GCLock(i) PROVE TypeInv'
  <2>1. GCType'
    BY <1>1 DEF GCLock, GCType
  <2>2. OpType' /\ RollType'
    BY <1>0, <1>1, TypeFrame DEF GCLock, files
  <2> QED
    BY <1>0, <1>1, <2>1, <2>2, TypeFrame DEF GCLock, TypeInv
<1>2. CASE ReplaceExtentList
  <2>1. gc.id \in FileIds /\ mem \in Tables
    BY <1>0, <1>2 DEF ReplaceExtentList, GCType, FilesType
  <2>2. PICK es : es = mem.exts[gc.id]
    OBVIOUS
  <2>3. es \in Seq(Extents)
    BY <2>1, <2>2 DEF Tables
  <2>4. PICK moved \in SUBSET (DOMAIN es) :
          mem' = SetExts(mem, gc.id, [k \in DOMAIN es |-> IF k \in moved
                                                          THEN [es[k] EXCEPT !.copy = 1]
                                                          ELSE es[k]])
    BY <1>2, <2>2 DEF ReplaceExtentList
  <2>5. PICK fs : fs = [k \in DOMAIN es |-> IF k \in moved THEN [es[k] EXCEPT !.copy = 1] ELSE es[k]]
    OBVIOUS
  <2>6. \A e \in Extents : [e EXCEPT !.copy = 1] \in Extents
    BY DEF Extents
  <2>7. fs \in Seq(Extents)
    <3>1. DOMAIN es = 1..Len(es) /\ Len(es) \in Nat /\ \A k \in DOMAIN es : es[k] \in Extents
      BY SMT, <2>3
    <3>2. fs \in [1..Len(es) -> Extents]
      BY <2>5, <2>6, <3>1
    <3> QED
      BY SMT, <3>1, <3>2
  <2>8. mem' \in Tables /\ mem'.files = mem.files
    <3>1. mem' = SetExts(mem, gc.id, fs)
      BY <2>4, <2>5
    <3> QED
      BY <2>1, <2>7, <3>1 DEF SetExts, Tables
  <2>9. FilesType'
    BY <1>0, <1>2, <2>8 DEF ReplaceExtentList, FilesType
  <2>10. GCType'
    BY <1>0, <1>2, <2>1 DEF ReplaceExtentList, GCType
  <2>11. OpType' /\ RollType'
    BY <1>0, <1>2, <2>8, TypeFrame DEF ReplaceExtentList
  <2> QED
    BY <1>0, <1>2, <2>9, <2>10, <2>11, TypeFrame DEF ReplaceExtentList, TypeInv
<1>3. CASE GCSync
  <2>1. gc.id \in FileIds
    BY <1>0, <1>3 DEF GCSync, GCType
  <2>2. GCType'
    BY SMT, <1>0, <1>3, <2>1 DEF GCSync, GCType, NoGC
  <2>3. mem' = mem /\ OpType' /\ pc' \in {"idle", "persist"}
    <3>1. CASE gc.id \in deleted
      BY <1>0, <1>3, <3>1, TypeFrame DEF GCSync
    <3>2. CASE gc.id \notin deleted
      BY <1>3, <2>1, <3>2, StartSyncType DEF GCSync
    <3> QED
      BY <3>1, <3>2
  <2>4. FilesType'
    BY <1>0, <1>3, <2>3 DEF GCSync, FilesType
  <2>5. RollType'
    BY <1>0, <1>3, <2>3, RollStays DEF GCSync, Points
  <2> QED
    BY <1>0, <1>3, <2>2, <2>3, <2>4, <2>5, TypeFrame DEF GCSync, TypeInv
<1>4. CASE Mount
  <2>1. CASE MountSucceeds
    <3>1. PICK z \in MetaZones :
            /\ super[z] > NoSuper
            /\ mem' = img[z].table
            /\ synced' = [i \in FileIds |-> Len(img[z].table.exts[i])]
            /\ next' = img[z].next
            /\ cur' = z /\ seq' = super[z]
            /\ op' = [kind |-> "mount"]
            /\ pc' = "allocate"
      BY <1>4, <2>1 DEF Mount, MountsFrom, Valid
    <3>2. img[z].table \in Tables /\ img[z].next \in 1..MaxFileId + 1 /\ super[z] \in Nat
      BY SMT, <1>0, <3>1 DEF DeviceType, Images, NoSuper, BadSuper
    <3>3. synced' \in [FileIds -> Nat]
      <4>1. \A i \in FileIds : Len(img[z].table.exts[i]) \in Nat
        BY SMT, <3>2 DEF Tables
      <4> QED
        BY <3>1, <4>1
    <3>4. FilesType'
      BY <1>0, <1>4, <3>1, <3>2, <3>3 DEF Mount, FilesType
    <3>5. RollType'
      BY <1>0, <1>4, <3>1, <3>2 DEF Mount, RollType, Points
    <3>6. OpType'
      BY <3>1 DEF OpType, Kinds
    <3> QED
      BY <1>0, <1>4, <3>4, <3>5, <3>6, TypeFrame DEF Mount, TypeInv
  <2>2. CASE ~MountSucceeds
    <3>1. /\ pc = "down" /\ pc' = "unmountable"
          /\ UNCHANGED <<device, files, roll, op, gc, crashes, told>>
      BY <1>4, <2>2 DEF Mount, files, roll
    <3>2. RollType'
      BY <1>0, <3>1, RollStays DEF Points
    <3>3. OpType'
      BY <1>0, <3>1 DEF OpType
    <3> QED
      BY <1>0, <3>1, <3>2, <3>3, TypeFrame DEF TypeInv
  <2> QED
    BY <2>1, <2>2
<1>5. CASE Crash
  <2>1. DeviceType'
    <3>1. CASE AddRecord(cur, [tag |-> "torn"], SnapshotBlocks - 1)
      <4>1. cur \in MetaZones /\ SnapshotBlocks - 1 \in Nat
        BY SMT, <1>0, MetaLogAssumption DEF RollType
      <4>2. PICK r : r = [tag |-> "torn"]
        OBVIOUS
      <4>3. PICK b : b = SnapshotBlocks - 1
        OBVIOUS
      <4>4. r.tag = "torn" /\ AddRecord(cur, r, b)
        BY <3>1, <4>2, <4>3
      <4> QED
        BY <1>0, <4>1, <4>3, <4>4, AddRecordType
    <3> QED
      BY <1>0, <1>5, <3>1, TypeFrame DEF Crash
  <2>2. ToldType'
    BY SMT, <1>0, <1>5, MetaLogAssumption DEF Crash, ToldType, told
  <2> QED
    BY <1>5, <2>1, <2>2, DownType DEF Crash, TypeInv
<1> QED
  BY <1>1, <1>2, <1>3, <1>4, <1>5 DEF GC

(* The variables of the metadata log always have their types, whatever     *)
(* device faults happen: no append takes more blocks than a meta zone has  *)
(* left (AddRecord), and whatever is replayed from a zone, a log that a    *)
(* crash has torn included, is a file table (RecoverFrom).                 *)
THEOREM LogTyped == Spec => []TypeOK
<1>1. Init => TypeInv
  <2> SUFFICES ASSUME Init PROVE TypeInv
    OBVIOUS
  <2>1. DeviceType
    <3>1. cap \in [MetaZones -> 0..MetaCapacity]
      BY SMT, MetaLogAssumption DEF Init
    <3>2. super \in [MetaZones -> Nat \cup {BadSuper}]
      BY DEF Init, NoSuper
    <3>3. Blank \in Images /\ [Blank EXCEPT !.state = "ok"] \in Images
      BY NoFilesTable DEF Images
    <3>4. img \in [MetaZones -> Images]
      BY <3>3 DEF Init
    <3> QED
      BY <3>1, <3>2, <3>4 DEF DeviceType
  <2>2. FilesType
    BY SMT, NoFilesTable, MetaLogAssumption DEF Init, FilesType
  <2>3. RollType /\ GCType
    BY SMT, MetaLogAssumption DEF Init, RollType, GCType, Points, MetaZones, NoGC
  <2>4. ToldType
    BY SMT, MetaLogAssumption DEF Init, ToldType
  <2>5. OpType
    BY DEF Init, OpType, NoOp
  <2> QED
    BY <2>1, <2>2, <2>3, <2>4, <2>5 DEF TypeInv
<1>2. TypeInv /\ [Next]_vars => TypeInv'
  <2>1. ASSUME TypeInv, UNCHANGED vars PROVE TypeInv'
    <3>1. UNCHANGED <<device, files, roll, op, pc, gc, crashes, told>> /\ UNCHANGED <<mem, next>>
      BY <2>1 DEF vars, files
    <3> QED
      BY <2>1, <3>1, TypeFrame DEF TypeInv
  <2> QED
    BY <2>1, RequestType, PersistType, ReturnType, OtherType DEF Next
<1>3. TypeInv => TypeOK
  BY DEF TypeInv, TypeOK, DeviceType, FilesType, RollType, GCType, ToldType, Images
<1> QED
  BY <1>1, <1>2, <1>3, PTL DEF Spec

=============================================================================

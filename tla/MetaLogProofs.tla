--------------------------- MODULE MetaLogProofs ----------------------------
(***************************************************************************)
(* Mount always succeeds, and recovers every name as callers were told,    *)
(* for all numbers of meta zones, names, files and crashes, on a device    *)
(* whose only fault is that meta zones fail to reset.                      *)
(*                                                                         *)
(* NameInv, MemInv and OpInv say how far the names in the log that a mount *)
(* would choose, the names in memory and the names callers were told may   *)
(* differ while an operation is in progress.  Between operations this      *)
(* comes down to Settled, so a request is proved from Settled and a return *)
(* into it.                                                                *)
(***************************************************************************)
EXTENDS MetaLogPersist

\* A leaf is first-order reasoning unless it cites SMT.
USE Zenon

-----------------------------------------------------------------------------
(***************************************************************************)
(* Names: the operations before and after PersistRecord.                   *)
(***************************************************************************)
\* What holds of the file table in memory when no change of it is in progress.
Settled(z) ==
    LET f == img[z].table.files
    IN  /\ Match(mem) /\ next \in Nat \ {0} /\ open \subseteq FileIds
        /\ \A n \in Names : mem.files[n] < next /\ f[n] < next
        /\ \A i \in open : \E n \in Names : mem.files[n] = i
        /\ \A n \in Names : f[n] = mem.files[n] \/ (f[n] = NoFile /\ mem.files[n] \in open)
        /\ \A i \in open : \/ \A n \in Names : mem.files[n] = i => f[n] = i
                           \/ \E n \in Names : mem.links[i] = {n}
        /\ \A n \in Names : Promised(n) => f[n] = promise[n]
        /\ \A n \in Names : mem.files[n] \in open /\ f[n] = NoFile => ~Promised(n)

GCHas ==
    /\ gc = [pc |-> gc.pc, id |-> gc.id]
    /\ gc.pc \in {"idle", "copied", "replaced", "syncing"}
    /\ gc.pc = "idle" => gc.id = NoFile
    /\ gc.pc # "idle" => gc.id \in FileIds \ open /\ gc.id < next

GCNamed == gc.pc # "idle" /\ gc.id \notin deleted => \E n \in Names : mem.files[n] = gc.id

\* No change is in progress when no operation is.
LEMMA IdleIsSettled ==
    ASSUME NEW z \in MetaZones, NameInv(z), MemInv, OpInv, pc = "idle"
    PROVE  Settled(z) /\ GCHas /\ GCNamed /\ gc.pc # "syncing" /\ op.kind = "none"
<1>1. op.kind = "none"  BY DEF OpInv
<1>2. (\A n : ~Changing(n)) /\ (\A i : ~Creating(i))  BY <1>1 DEF Changing, Creating
<1>3. GCHas  BY DEF MemInv, GCHas
<1>4. GCNamed  BY <1>1 DEF MemInv, GCNamed
<1>5. gc.pc # "syncing"  BY <1>1 DEF OpInv
<1>6. /\ IsTable(mem) /\ next \in Nat \ {0} /\ open \subseteq FileIds
      /\ \A n \in Names : mem.files[n] < next
      /\ \A i \in FileIds : mem.links[i] = {n \in Names : mem.files[n] = i}
      /\ \A i \in open : \E n \in Names : mem.files[n] = i
  BY <1>2 DEF MemInv
<1>7. Settled(z)
  BY <1>2, <1>6 DEF Settled, Match, NameInv, Agree, PromiseInv, MayMiss
<1> QED  BY <1>1, <1>3, <1>4, <1>5, <1>7

\* The converse, for the state after a step.
LEMMA SettledNames ==
    ASSUME NEW z \in MetaZones, Settled(z)', GCHas', GCNamed', gc'.pc # "syncing",
           Sound(img'[z]), pc' = "idle", op'.kind = "none"
    PROVE  NameInv(z)' /\ MemInv' /\ OpInv' /\ SnapInv'
<1>2. pc' \notin Pre /\ pc' \notin Post /\ pc' # "down" /\ pc' # "snapshot"
  BY DEF Pre, Post, Rolling
<1>3. (\A n : ~Changing(n)') /\ (\A i : ~Creating(i)')  BY DEF Changing, Creating
<1>4. MemInv'  BY <1>3 DEF MemInv, Settled, Match, GCHas, GCNamed
<1>5. OpInv'  BY <1>2 DEF OpInv, Kinds
<1>6. \A i : MayMiss(i)' <=> i \in open'  BY <1>2 DEF MayMiss
<1>7. Agree(z)'  BY <1>2, <1>3, <1>6 DEF Agree, Settled
<1>8. PromiseInv(z)'  BY DEF PromiseInv, Settled
<1>9. SnapInv'  BY <1>2 DEF SnapInv
<1> QED  BY <1>4, <1>5, <1>7, <1>8, <1>9 DEF NameInv

\* The promises of the names N end.
LEMMA DoubtStep ==
    ASSUME NEW N \in SUBSET Names, Doubt(N)
    PROVE  \A n \in Names : /\ n \in N => ~Promised(n)'
                            /\ n \notin N => promise'[n] = promise[n]
                            /\ Promised(n)' => Promised(n) /\ promise'[n] = promise[n]
BY DEF Doubt, Promised

\* What the start of an operation needs of the promises.
Weaker(N) ==
    \A n \in Names : /\ n \in N => ~Promised(n)'
                     /\ Promised(n)' => Promised(n) /\ promise'[n] = promise[n]

\* NoFile is not a file.
LEMMA NoFileSmall ==
    ASSUME NEW z \in MetaZones, Settled(z)
    PROVE  NoFile < next /\ NoFile \notin open
BY SMT DEF Settled, FileIds, NoFile

\* DeleteFile_impl up to its record.
LEMMA StartDeleteStep ==
    ASSUME NEW z \in MetaZones, RollInv(z)', Sound(img[z]), Settled(z), GCHas, GCNamed,
           gc.pc # "syncing",
           NEW n \in Names, mem.files[n] # NoFile, Closed(n),
           NEW then, NEW from \in Names, StartDelete(n, then, from), 
           UNCHANGED <<img, next, open, deleted, gc>>,
           then \in {"return", "create", "rename", "error"},
           then = "create" => next <= MaxFileId,
           then = "rename" => from # n /\ mem.files[from] \in FileIds \ open,
           Weaker({n}), then = "rename" => Weaker({n, from})
    PROVE  LogInvAt(z)'
<1> DEFINE i == mem.files[n]
           f == img[z].table.files
<1>0. Match(mem) /\ i \in FileIds /\ i \notin open /\ i < next
  BY SMT DEF Settled, Match, IsTable, Closed
<1>1. /\ pc' = "persist" /\ op'.kind = "delete" /\ op'.id = i /\ op'.name = n /\ op'.from = from
      /\ op'.then = then /\ op'.rec.tag = "deletion" /\ op'.rec.id = i /\ op'.rec.name = n
      /\ mem' = RemoveLinkName(mem, i, n)
  BY DEF StartDelete, Start, Deletion
<1>2. Match(mem') /\ mem'.files = [mem.files EXCEPT ![n] = NoFile]
  <2>1. mem.files[n] = i  OBVIOUS
  <2> HIDE DEF i
  <2> QED  BY SMT, <1>0, <1>1, <2>1, Unname
<1>3. mem'.files[n] = NoFile /\ \A k \in Names \ {n} : mem'.files[k] = mem.files[k]
  BY <1>0, <1>2 DEF Match, IsTable
<1>4. /\ pc' \in Pre /\ pc' \notin Post /\ pc' \notin {"down", "snapshot", "idle"}
      /\ NoFile < next /\ NoFile \notin open
  BY <1>1, NoFileSmall DEF Pre, Post, Rolling
<1>5. MemInv'
  <2>1. \A j : ~Creating(j)'  BY <1>1 DEF Creating
  <2>2. \A j \in open : \E k \in Names : mem'.files[k] = j
    BY SMT, <1>0, <1>3 DEF Settled
  <2>3. gc.pc # "idle" /\ gc.id \notin deleted =>
          (\E k \in Names : mem'.files[k] = gc.id) \/ gc.id = i
    BY <1>0, <1>3 DEF GCNamed
  <2>4. \A k \in Names : mem'.files[k] < next  BY <1>3, <1>4 DEF Settled
  <2> QED  BY <1>1, <1>2, <2>1, <2>2, <2>3, <2>4 DEF MemInv, GCHas, Settled, Match
<1>6. OpInv'
  BY <1>0, <1>1, <1>3, <1>4 DEF OpInv, Kinds
<1>7. Agree(z)'
  <2>1. \A k \in Names : Changing(k)' <=> k = n  BY <1>1 DEF Changing
  <2>2. \A j : MayMiss(j)' <=> j \in open  BY <1>4 DEF MayMiss
  <2>3. f[n] = i  BY <1>0 DEF Settled
  <2>4. \A k \in Names : k # n =>
          f[k] = mem'.files[k] \/ (f[k] = NoFile /\ mem'.files[k] \in open)
    BY <1>3 DEF Settled
  <2>5. ASSUME NEW j \in open
        PROVE  \/ \A k \in Names : mem'.files[k] = j => f[k] = j
               \/ \E k \in Names : mem'.links[j] = {k}
    <3>1. \A k \in Names : mem'.files[k] = j <=> mem.files[k] = j  BY <1>0, <1>3, <1>4
    <3>2. mem'.links[j] = mem.links[j]
      <4>1. j \in FileIds /\ Match(mem) /\ Match(mem')  BY <1>0, <1>2 DEF Settled
      <4> QED  BY SMT, <3>1, <4>1, SameLinks
    <3> QED  BY SMT, <3>1, <3>2 DEF Settled
  <2>6. \A k \in Names : f[k] < next  BY DEF Settled
  <2> QED  BY <1>1, <1>4, <2>1, <2>2, <2>3, <2>4, <2>5, <2>6 DEF Agree
<1>8. PromiseInv(z)'
  <2>1. \A k \in Names : mem'.files[k] \in open /\ f[k] = NoFile => ~Promised(k)'
    BY <1>3, <1>4 DEF Settled, Weaker
  <2>2. \A k \in Names : Promised(k)' => f[k] = promise'[k]  BY DEF Settled, Weaker
  <2>3. ~Promised(n)' /\ (then = "rename" => ~Promised(from)')  BY DEF Weaker
  <2> QED  BY <1>1, <2>1, <2>2, <2>3 DEF PromiseInv, Promised
<1>9. SnapInv'  BY <1>4 DEF SnapInv
<1> QED  BY <1>5, <1>6, <1>7, <1>8, <1>9 DEF LogInvAt, NameInv

\* OpenWritableFile of a new file up to its record.
LEMMA StartCreateStep ==
    ASSUME NEW z \in MetaZones, RollInv(z)', Sound(img[z]), Settled(z), GCHas,
           gc.pc # "idle" /\ gc.id \notin deleted' => \E k \in Names : mem.files[k] = gc.id,
           gc.pc # "syncing", NEW n \in Names, mem.files[n] = NoFile, next <= MaxFileId,
           StartCreate(n), UNCHANGED <<img, open, gc>>, Weaker({n})
    PROVE  LogInvAt(z)'
<1> DEFINE i == next
           f == img[z].table.files
<1>0. /\ IsTable(mem) /\ i \in FileIds /\ next \in Nat \ {0} /\ {n} \in SUBSET Names
      /\ \A k \in Names : mem.files[k] \in Nat /\ mem.files[k] < next
      /\ \A k \in Names : f[k] \in Nat /\ f[k] < next
  <2>1. /\ IsTable(mem) /\ next \in Nat \ {0}
        /\ \A k \in Names : mem.files[k] < next /\ f[k] < next
    BY DEF Settled, Match
  <2>2. i \in FileIds  BY SMT, <2>1, MetaLogAssumption DEF FileIds
  <2>3. FileIds \cup {NoFile} \subseteq Nat  BY SMT, MetaLogAssumption DEF FileIds, NoFile
  <2>4. \A k \in Names : mem.files[k] \in Nat  BY <2>1, <2>3 DEF IsTable
  <2>5. \A k \in Names : f[k] \in Nat  BY <2>3 DEF Sound, Match, IsTable
  <2> QED  BY <2>1, <2>2, <2>4, <2>5
<1>1. /\ pc' = "persist" /\ op'.kind = "create" /\ op'.id = i /\ op'.name = n
      /\ op'.rec.tag = "update" /\ op'.rec.id = i
      /\ op'.rec.links = SetLinks(mem, next, {n}).links[next]
      /\ mem' = SetLinks(mem, next, {n}) /\ next' = next + 1
  BY DEF StartCreate, Start, Encode
<1>2. /\ IsTable(mem') /\ mem'.files = mem.files /\ mem'.links = [mem.links EXCEPT ![i] = {n}]
  <2> DEFINE N == {n}
  <2>1. IsTable(mem) /\ next \in FileIds /\ N \in SUBSET Names /\ mem' = SetLinks(mem, next, N)
    BY <1>0, <1>1
  <2> HIDE DEF N
  <2>2. IsTable(mem') /\ mem'.files = mem.files /\ mem'.links = [mem.links EXCEPT ![next] = N]
    BY SMT, <2>1, SetLinksTable
  <2> QED  BY <2>2 DEF N
<1>3. op'.rec.links = {n}  BY <1>0, <1>1, <1>2 DEF IsTable
<1>4. /\ pc' \in Pre /\ pc' \notin Post /\ pc' \notin {"down", "snapshot", "idle"}
      /\ NoFile \notin open
  BY <1>1, NoFileSmall DEF Pre, Post, Rolling
<1>5. \A k \in Names : mem.files[k] # i /\ f[k] # i
  BY SMT, <1>0
<1>6. MemInv'
  <2>1. \A j \in FileIds : mem'.links[j] = IF Creating(j)' THEN {op'.name}
                                           ELSE {k \in Names : mem'.files[k] = j}
    <3>1. \A j : Creating(j)' <=> j = i  BY <1>1 DEF Creating
    <3>2. ASSUME NEW j \in FileIds, j # i PROVE mem'.links[j] = {k \in Names : mem'.files[k] = j}
      <4>1. mem'.links[j] = mem.links[j]  BY <1>0, <1>2, <3>2 DEF IsTable
      <4>2. mem.links[j] = {k \in Names : mem.files[k] = j}  BY DEF Settled, Match
      <4> QED  BY <1>2, <4>1, <4>2
    <3>3. mem'.links[i] = {op'.name}  BY <1>0, <1>1, <1>2 DEF IsTable
    <3> QED  BY <3>1, <3>2, <3>3
  <2>2. ASSUME NEW k \in Names PROVE mem'.files[k] < next'
    <3>1. mem.files[k] < next /\ mem.files[k] \in Nat /\ next \in Nat  BY <1>0
    <3>2. mem'.files[k] = mem.files[k] /\ next' = next + 1  BY <1>1, <1>2
    <3> QED  BY SMT, <3>1, <3>2
  <2>3. GCHas'
    BY SMT, MetaLogAssumption, <1>0, <1>1 DEF GCHas, FileIds
  <2>4. next' \in Nat \ {0}  BY SMT, <1>0, <1>1
  <2>5. \A j \in open' : \E k \in Names : mem'.files[k] = j
    <3>1. \A j \in open : \E k \in Names : mem.files[k] = j  BY DEF Settled
    <3> QED  BY <1>2, <3>1
  <2>6. open' \subseteq FileIds  BY DEF Settled
  <2> QED  BY <1>2, <2>1, <2>2, <2>3, <2>4, <2>5, <2>6 DEF MemInv, GCHas
<1>7. OpInv'
  <2>1. op'.id \in FileIds /\ op'.id < next'  BY SMT, <1>0, <1>1
  <2>2. op'.id # gc.id
    BY SMT, MetaLogAssumption, <1>0, <1>1 DEF GCHas, FileIds, NoFile
  <2>3. op'.id \notin open  BY <1>1, <1>5 DEF Settled
  <2> QED  BY <1>1, <1>2, <1>3, <1>4, <1>5, <2>1, <2>2, <2>3 DEF OpInv, Kinds
<1>8. Agree(z)'
  <2>1. \A k \in Names : Changing(k)' <=> k = n  BY <1>1 DEF Changing
  <2>2. \A j : MayMiss(j)' <=> j \in open  BY <1>4 DEF MayMiss
  <2>3. f[n] = NoFile  BY <1>4 DEF Settled
  <2>4. ASSUME NEW j \in open
        PROVE  \/ \A k \in Names : mem'.files[k] = j => f[k] = j
               \/ \E k \in Names : mem'.links[j] = {k}
    <3>1. j # i  BY <1>5 DEF Settled
    <3>2. mem'.links[j] = mem.links[j]  BY <1>0, <1>2, <3>1 DEF IsTable, Settled
    <3> QED  BY SMT, <1>2, <3>2 DEF Settled
  <2>5. \A k \in Names : f[k] < next'  BY SMT, <1>0, <1>1
  <2>6. \A k \in Names : f[k] = mem'.files[k] \/ (f[k] = NoFile /\ mem'.files[k] \in open)
    BY <1>2 DEF Settled
  <2> QED  BY <1>1, <1>4, <1>5, <2>1, <2>2, <2>3, <2>4, <2>5, <2>6 DEF Agree
<1>9. PromiseInv(z)'
  <2>1. \A k \in Names : mem'.files[k] \in open /\ f[k] = NoFile => ~Promised(k)'
    BY <1>2 DEF Settled, Weaker
  <2>2. \A k \in Names : Promised(k)' => f[k] = promise'[k]  BY DEF Settled, Weaker
  <2>3. ~Promised(n)'  BY DEF Weaker
  <2> QED  BY <1>1, <2>1, <2>2, <2>3 DEF PromiseInv, Promised
<1>10. SnapInv'  BY <1>4 DEF SnapInv
<1> QED  BY <1>6, <1>7, <1>8, <1>9, <1>10 DEF LogInvAt, NameInv

\* RenameFile up to its record.
LEMMA StartRenameStep ==
    ASSUME NEW z \in MetaZones, RollInv(z)', Sound(img[z]), Settled(z), GCHas,
           gc.pc # "idle" /\ gc.id \notin deleted' => \E k \in Names : mem.files[k] = gc.id,
           gc.pc # "syncing", NEW from \in Names, NEW n \in Names, from # n,
           mem.files[from] \in FileIds \ open, mem.files[n] = NoFile,
           StartRename(from, n), UNCHANGED <<img, next, open, gc>>, Weaker({n, from})
    PROVE  LogInvAt(z)'
<1> DEFINE i == mem.files[from]
           f == img[z].table.files
<1>0. Match(mem) /\ i \in FileIds /\ i \notin open /\ i < next  BY DEF Settled
<1>1. /\ pc' = "persist" /\ op'.kind = "rename" /\ op'.id = i /\ op'.name = n /\ op'.from = from
      /\ op'.rec.tag = "update" /\ op'.rec.id = i /\ op'.rec.links = mem'.links[i]
      /\ mem' = RenameLink(mem, i, from, n)
  BY DEF StartRename, Start, Encode
<1>2. /\ Match(mem') /\ mem'.files[from] = NoFile /\ mem'.files[n] = i
      /\ \A k \in Names \ {from, n} : mem'.files[k] = mem.files[k]
  <2>1. mem.files[from] = i  OBVIOUS
  <2> HIDE DEF i
  <2>2. Match(mem) /\ i \in FileIds /\ mem' = RenameLink(mem, i, from, n)  BY <1>0, <1>1
  <2> QED  BY SMT, <2>1, <2>2, Rename
<1>3. /\ pc' \in Pre /\ pc' \notin Post /\ pc' \notin {"down", "snapshot", "idle"}
      /\ NoFile < next /\ NoFile \notin open
  BY <1>1, NoFileSmall DEF Pre, Post, Rolling
<1>4. \A j \in open, k \in Names : mem'.files[k] = j <=> mem.files[k] = j
  BY <1>0, <1>2, <1>3
<1>5. MemInv'
  <2>1. \A j : ~Creating(j)'  BY <1>1 DEF Creating
  <2>2. \A j \in open : \E k \in Names : mem'.files[k] = j  BY <1>4 DEF Settled
  <2>3. gc.pc # "idle" /\ gc.id \notin deleted' => \E k \in Names : mem'.files[k] = gc.id
    <3>1. ASSUME NEW k \in Names, mem.files[k] = gc.id, gc.id # NoFile
          PROVE  \E l \in Names : mem'.files[l] = gc.id
      <4>1. CASE k = from  BY <1>2, <3>1, <4>1
      <4>2. CASE k # from  BY <1>2, <3>1, <4>2
      <4> QED  BY <4>1, <4>2
    <3> QED  BY SMT, <3>1 DEF GCHas, FileIds, NoFile
  <2>4. \A k \in Names : mem'.files[k] < next  BY <1>0, <1>2, <1>3 DEF Settled
  <2> QED  BY <1>1, <1>2, <2>1, <2>2, <2>3, <2>4 DEF MemInv, GCHas, Settled, Match
<1>6. OpInv'
  BY <1>0, <1>1, <1>2, <1>3 DEF OpInv, Kinds
<1>7. Agree(z)'
  <2>1. \A k \in Names : Changing(k)' <=> k = n \/ k = from  BY <1>1 DEF Changing
  <2>2. \A j : MayMiss(j)' <=> j \in open  BY <1>3 DEF MayMiss
  <2>3. f[n] = NoFile /\ f[from] = i  BY <1>0, <1>3 DEF Settled
  <2>4. \A k \in Names : k # n /\ k # from =>
          f[k] = mem'.files[k] \/ (f[k] = NoFile /\ mem'.files[k] \in open)
    BY <1>2 DEF Settled
  <2>5. ASSUME NEW j \in open
        PROVE  \/ \A k \in Names : mem'.files[k] = j => f[k] = j
               \/ \E k \in Names : mem'.links[j] = {k}
    <3>1. mem'.links[j] = mem.links[j]
      <4>1. j \in FileIds /\ Match(mem) /\ Match(mem')  BY <1>0, <1>2 DEF Settled
      <4> QED  BY SMT, <1>4, <4>1, SameLinks
    <3> QED  BY SMT, <1>4, <3>1 DEF Settled
  <2>6. \A k \in Names : f[k] < next  BY DEF Settled
  <2>7. \A k \in Names : ~Changing(k)' =>
          f[k] = mem'.files[k] \/ (f[k] = NoFile /\ MayMiss(mem.files[k])')
    BY <2>1, <2>2, <2>4
  <2>8. op'.kind = "rename" /\ f[op'.name] = NoFile /\ f[op'.from] = op'.id  BY <1>1, <2>3
  <2> HIDE DEF i
  <2> QED  BY <1>3, <2>5, <2>6, <2>7, <2>8 DEF Agree
<1>8. PromiseInv(z)'
  <2>1. \A k \in Names : mem'.files[k] \in open /\ f[k] = NoFile => ~Promised(k)'
    BY <1>4 DEF Settled, Weaker
  <2>2. \A k \in Names : Promised(k)' => f[k] = promise'[k]  BY DEF Settled, Weaker
  <2>3. ~Promised(n)' /\ ~Promised(from)'  BY DEF Weaker
  <2> QED  BY <1>1, <2>1, <2>2, <2>3 DEF PromiseInv, Promised
<1>9. SnapInv'  BY <1>3 DEF SnapInv
<1> QED  BY <1>5, <1>6, <1>7, <1>8, <1>9 DEF LogInvAt, NameInv

\* LinkFile up to its record.
LEMMA LinkFileStep ==
    ASSUME NEW z \in MetaZones, RollInv(z)', Sound(img[z]), Settled(z), GCHas, GCNamed,
           gc.pc # "syncing", NEW n \in Names, NEW link \in Names, LinkFile(n, link)
    PROVE  LogInvAt(z)'
<1> DEFINE i == mem.files[n]
           f == img[z].table.files
<1>0. /\ Match(mem) /\ i \in FileIds /\ i \notin open /\ i < next /\ link # n
      /\ mem.files[link] = NoFile /\ UNCHANGED <<img, next, open, deleted, gc>>
  <2>1. /\ i # NoFile /\ i \notin open /\ mem.files[link] = NoFile
        /\ UNCHANGED <<img, next, open, deleted, gc>>
    BY DEF LinkFile, Closed, device
  <2>2. Match(mem) /\ i < next  BY DEF Settled
  <2>3. mem.files \in [Names -> FileIds \cup {NoFile}]  BY <2>2 DEF Match, IsTable
  <2> QED  BY <2>1, <2>2, <2>3
<1>1. /\ pc' = "persist" /\ op'.kind = "link" /\ op'.id = i /\ op'.name = link
      /\ op'.rec.tag = "update" /\ op'.rec.id = i /\ op'.rec.links = mem'.links[i]
      /\ mem' = AddLinkName(mem, i, link)
  BY DEF LinkFile, Start, Encode
<1>2. /\ Match(mem') /\ mem'.files[link] = i /\ mem'.files[n] = i
      /\ \A k \in Names \ {link} : mem'.files[k] = mem.files[k]
  <2>1. Match(mem') /\ mem'.files = [mem.files EXCEPT ![link] = i]
    <3> HIDE DEF i
    <3> QED  BY SMT, <1>0, <1>1, Name
  <2> QED  BY <1>0, <2>1 DEF Match, IsTable
<1>3. /\ pc' \in Pre /\ pc' \notin Post /\ pc' \notin {"down", "snapshot", "idle"}
      /\ NoFile < next /\ NoFile \notin open
  BY <1>1, NoFileSmall DEF Pre, Post, Rolling
<1>4. \A j \in open, k \in Names : mem'.files[k] = j <=> mem.files[k] = j
  BY <1>0, <1>2, <1>3
<1>5. MemInv'
  <2>1. \A j : ~Creating(j)'  BY <1>1 DEF Creating
  <2>2. \A j \in open : \E k \in Names : mem'.files[k] = j  BY <1>4 DEF Settled
  <2>3. gc.pc # "idle" /\ gc.id \notin deleted => \E k \in Names : mem'.files[k] = gc.id
    <3>1. gc.pc # "idle" => gc.id # NoFile  BY SMT DEF GCHas, FileIds, NoFile
    <3> QED  BY <1>0, <1>2, <3>1 DEF GCNamed
  <2>4. \A k \in Names : mem'.files[k] < next  BY <1>0, <1>2, <1>3 DEF Settled
  <2> QED  BY <1>0, <1>1, <1>2, <2>1, <2>2, <2>3, <2>4 DEF MemInv, GCHas, Settled, Match
<1>6. OpInv'
  BY <1>0, <1>1, <1>2, <1>3 DEF OpInv, Kinds
<1>7. Agree(z)'
  <2>1. \A k \in Names : Changing(k)' <=> k = link  BY <1>1 DEF Changing
  <2>2. \A j : MayMiss(j)' <=> j \in open  BY <1>0, <1>3 DEF MayMiss
  <2>3. f[link] = NoFile  BY <1>0, <1>3 DEF Settled
  <2>4. \A k \in Names \ {link} :
          f[k] = mem'.files[k] \/ (f[k] = NoFile /\ mem'.files[k] \in open)
    BY <1>2 DEF Settled
  <2>5. ASSUME NEW j \in open
        PROVE  \/ \A k \in Names : mem'.files[k] = j => f[k] = j
               \/ \E k \in Names : mem'.links[j] = {k}
    <3>1. mem'.links[j] = mem.links[j]
      <4>1. j \in FileIds /\ Match(mem) /\ Match(mem')  BY <1>0, <1>2 DEF Settled
      <4> QED  BY SMT, <1>4, <4>1, SameLinks
    <3> QED  BY SMT, <1>4, <3>1 DEF Settled
  <2>6. \A k \in Names : f[k] < next  BY DEF Settled
  <2> QED  BY <1>0, <1>1, <1>3, <2>1, <2>2, <2>3, <2>4, <2>5, <2>6 DEF Agree
<1>8. PromiseInv(z)'
  <2>0. Weaker({link})  BY DoubtStep DEF LinkFile, Weaker
  <2>1. \A k \in Names : mem'.files[k] \in open /\ f[k] = NoFile => ~Promised(k)'
    <3>1. \A k \in Names : mem.files[k] \in open /\ f[k] = NoFile => ~Promised(k)  BY DEF Settled
    <3>2. \A k \in Names : Promised(k)' => Promised(k)  BY <2>0 DEF Weaker
    <3> QED  BY <1>4, <3>1, <3>2
  <2>2. \A k \in Names : Promised(k)' => f[k] = promise'[k]  BY <2>0 DEF Settled, Weaker
  <2>3. ~Promised(link)'  BY <2>0 DEF Weaker
  <2> QED  BY <1>0, <1>1, <2>1, <2>2, <2>3 DEF PromiseInv, Promised
<1>9. SnapInv'  BY <1>3 DEF SnapInv
<1> QED  BY <1>0, <1>5, <1>6, <1>7, <1>8, <1>9 DEF LogInvAt, NameInv

\* The record of a sync or a migration is about to be written.
LEMMA StartSyncStep ==
    ASSUME NEW z \in MetaZones, RollInv(z)', Sound(img[z]), Settled(z), GCHas', GCNamed,
           op'.kind \in {"fsync", "close", "replace"}, op'.id \in FileIds, op'.id < next,
           op'.rec.id = op'.id, op'.rec.links = mem.links[op'.id],
           op'.kind # "replace" =>
             op'.id \in open /\ op'.rec.tag = "update" /\ gc' = gc /\ gc.pc # "syncing",
           op'.kind = "replace" =>
             /\ op'.id = gc'.id /\ gc'.pc = "syncing" /\ op'.rec.tag = "replace"
             /\ gc'.id = gc.id /\ gc.pc # "idle" /\ gc.id \notin deleted,
           pc' = "persist", UNCHANGED <<img, mem, next, open, deleted, promise>>
    PROVE  LogInvAt(z)'
<1> DEFINE f == img[z].table.files
<1>1. pc' \in Pre /\ pc' \notin Post /\ pc' \notin {"down", "snapshot", "idle"}
  BY DEF Pre, Post, Rolling
<1>2. MemInv'
  <2>1. \A j : ~Creating(j)'  BY DEF Creating
  <2>2. gc'.pc # "idle" /\ gc'.id \notin deleted => \E k \in Names : mem.files[k] = gc'.id
    BY SMT DEF GCNamed
  <2> QED  BY <2>1, <2>2 DEF MemInv, Settled, Match, GCHas
<1>3. OpInv'
  <2>1. op'.kind = "replace" => \E k \in Names : mem.files[k] = op'.id  BY DEF GCNamed
  <2> QED  BY <1>1, <2>1 DEF OpInv, Kinds
<1>4. Agree(z)'
  <2>1. \A k : ~Changing(k)'  BY DEF Changing
  <2>2. \A j : MayMiss(j)' <=> j \in open  BY <1>1 DEF MayMiss
  <2> QED  BY <1>1, <2>1, <2>2 DEF Agree, Settled
<1>5. PromiseInv(z)'  BY DEF PromiseInv, Settled, Promised
<1>6. SnapInv'  BY <1>1 DEF SnapInv
<1> QED  BY <1>2, <1>3, <1>4, <1>5, <1>6 DEF LogInvAt, NameInv

\* Only the extents of a file change.
LEMMA ExtentsStep ==
    ASSUME NEW z \in MetaZones, LogInvAt(z), IsTable(mem'), mem'.files = mem.files,
           mem'.links = mem.links, UNCHANGED <<device, next, open, deleted, roll, op, pc, promise>>,
           gc' = gc \/ (gc.pc = "copied" /\ gc' = [gc EXCEPT !.pc = "replaced"])
    PROVE  LogInvAt(z)'
<1>0. RollInv(z) /\ NameInv(z) /\ MemInv /\ OpInv /\ SnapInv  BY DEF LogInvAt
<1>1. UNCHANGED <<cap, super, img, cur, old, seq, snap>>  BY DEF device, roll
<1>2. RollInv(z)'
  <2>1. Lead(z)'  BY <1>0, <1>1 DEF RollInv, Lead
  <2> QED  BY <1>0, <1>1, <2>1 DEF RollInv, IsEmpty
<1>3. /\ gc' = [pc |-> gc'.pc, id |-> gc.id] /\ gc'.id = gc.id
      /\ gc'.pc \in {"idle", "copied", "replaced", "syncing"}
      /\ gc'.pc = "idle" <=> gc.pc = "idle"
      /\ gc'.pc = "syncing" <=> gc.pc = "syncing"
  BY <1>0 DEF MemInv
<1>4. \A i : Creating(i)' <=> Creating(i)  BY DEF Creating
<1>5. MemInv'
  <2>1. \A i \in FileIds : mem'.links[i] = IF Creating(i)' THEN {op'.name}
                                           ELSE {n \in Names : mem'.files[n] = i}
    <3>1. ASSUME NEW i \in FileIds
          PROVE  mem'.links[i] = IF Creating(i)' THEN {op'.name}
                                 ELSE {n \in Names : mem'.files[n] = i}
      <4>1. CASE Creating(i)
        <5>1. mem.links[i] = {op.name} /\ Creating(i)'  BY <1>0, <1>4, <4>1 DEF MemInv
        <5> QED  BY <5>1
      <4>2. CASE ~Creating(i)
        <5>1. mem.links[i] = {n \in Names : mem.files[n] = i} /\ ~Creating(i)'
          BY <1>0, <1>4, <4>2 DEF MemInv
        <5> QED  BY <5>1
      <4> QED  BY <4>1, <4>2
    <3> QED  BY <3>1
  <2>2. /\ \A n \in Names : mem'.files[n] < next'
        /\ \A i \in open' : \E n \in Names : mem'.files[n] = i
    BY <1>0 DEF MemInv
  <2>3. gc'.pc # "idle" /\ gc'.id \notin deleted' =>
          (\E n \in Names : mem'.files[n] = gc'.id) \/ (op'.kind = "delete" /\ op'.id = gc'.id)
    BY <1>0, <1>3 DEF MemInv
  <2>4. /\ next' \in Nat \ {0} /\ open' \subseteq FileIds
        /\ gc'.pc = "idle" => gc'.id = NoFile
        /\ gc'.pc # "idle" => gc'.id \in FileIds \ open' /\ gc'.id < next'
    BY <1>0, <1>3 DEF MemInv
  <2> QED  BY <1>3, <2>1, <2>2, <2>3, <2>4 DEF MemInv
<1>6. OpInv'  BY <1>0, <1>3 DEF OpInv
<1>7. \A n : Changing(n)' <=> Changing(n)  BY DEF Changing
<1>8. \A i : MayMiss(i)' <=> MayMiss(i)  BY DEF MayMiss
<1>9. Agree(z)'
  <2>1. Agree(z)  BY <1>0 DEF NameInv
  <2> QED  BY <1>1, <1>7, <1>8, <2>1, AgreeFrame
<1>10. PromiseInv(z)'
  <2>1. PromiseInv(z)  BY <1>0 DEF NameInv
  <2> QED  BY <1>1, <2>1 DEF PromiseInv, Promised
<1>11. SnapInv'  BY <1>0, <1>1 DEF SnapInv
<1>12. Sound(img[z])'  BY <1>0, <1>1 DEF NameInv
<1> QED  BY <1>2, <1>5, <1>6, <1>9, <1>10, <1>11, <1>12 DEF LogInvAt, NameInv

\* Every request keeps the invariant.
LEMMA RequestStep ==
    ASSUME NEW z \in MetaZones, LogInvAt(z), Requests
    PROVE  LogInvAt(z)'
<1>0. RollInv(z) /\ NameInv(z) /\ MemInv /\ OpInv /\ Sound(img[z])  BY DEF LogInvAt, NameInv
<1>1. pc = "idle" => /\ Settled(z) /\ GCHas /\ GCNamed /\ gc.pc # "syncing"
                     /\ op.kind # "mount"
  BY <1>0, IdleIsSettled
<1>2. ASSUME pc = "idle", pc' = "persist", UNCHANGED <<device, roll>> PROVE RollInv(z)'
  BY <1>0, <1>1, <1>2, RollFrame DEF roll
<1>3. ASSUME NEW n \in Names, OpenWritableFile(n) PROVE LogInvAt(z)'
  <2>1. /\ pc = "idle" /\ next <= MaxFileId /\ UNCHANGED <<device, img, roll, open, deleted, gc>>
        /\ Closed(n) /\ Doubt({n})
    BY <1>3 DEF OpenWritableFile, Request, device
  <2>2. Weaker({n})  BY <2>1, DoubtStep DEF Weaker
  <2>3. CASE mem.files[n] # NoFile
    <3>1. StartDelete(n, "create", n) /\ UNCHANGED next  BY <1>3, <2>3 DEF OpenWritableFile
    <3>2. RollInv(z)'  BY <1>2, <2>1, <3>1 DEF StartDelete, Start
    <3> QED  BY <1>0, <1>1, <2>1, <2>2, <2>3, <3>1, <3>2, StartDeleteStep
  <2>4. CASE mem.files[n] = NoFile
    <3>1. StartCreate(n)  BY <1>3, <2>4 DEF OpenWritableFile
    <3>2. RollInv(z)'  BY <1>2, <2>1, <3>1 DEF StartCreate, Start
    <3>3. gc.pc # "idle" /\ gc.id \notin deleted' => \E k \in Names : mem.files[k] = gc.id
      BY <1>1, <2>1 DEF GCNamed
    <3> QED  BY <1>0, <1>1, <2>1, <2>2, <2>4, <3>1, <3>2, <3>3, StartCreateStep
  <2> QED  BY <2>3, <2>4
<1>4. ASSUME NEW n \in Names, ReopenWritableFile(n) PROVE LogInvAt(z)'
  <2> DEFINE i == mem.files[n]
             f == img[z].table.files
  <2>1. /\ pc = "idle" /\ UNCHANGED <<device, img, mem, next, deleted, roll, op, pc, gc, promise>>
        /\ i \notin open /\ i # NoFile /\ gc.id # i /\ open' = open \cup {i}
    BY <1>4 DEF ReopenWritableFile, Request, Closed, device, told
  <2>2. Settled(z) /\ GCHas /\ GCNamed /\ gc.pc # "syncing"  BY <1>1, <2>1
  <2>3. i \in FileIds  BY SMT, <2>1, <2>2 DEF Settled, Match, IsTable
  <2>4. \A k \in Names : mem.files[k] = i => f[k] = i  BY <2>1, <2>2 DEF Settled
  <2>5. Settled(z)'
    <3>1. open' \subseteq FileIds /\ \A j \in open' : \E k \in Names : mem.files[k] = j
      BY <2>1, <2>2, <2>3 DEF Settled
    <3>2. \A j \in open' : \/ \A k \in Names : mem.files[k] = j => f[k] = j
                           \/ \E k \in Names : mem.links[j] = {k}
      BY <2>1, <2>2, <2>4 DEF Settled
    <3>3. \A k \in Names : mem.files[k] \in open' /\ f[k] = NoFile => ~Promised(k)
      BY <2>1, <2>2, <2>4 DEF Settled
    <3>4. \A k \in Names : f[k] = mem.files[k] \/ (f[k] = NoFile /\ mem.files[k] \in open')
      BY <2>1, <2>2 DEF Settled
    <3>5. /\ Match(mem) /\ next \in Nat \ {0} /\ \A k \in Names : mem.files[k] < next /\ f[k] < next
          /\ \A k \in Names : Promised(k) => f[k] = promise[k]
      BY <2>2 DEF Settled
    <3>6. \A k : Promised(k)' <=> Promised(k)  BY <2>1 DEF Promised
    <3> HIDE DEF i
    <3> QED  BY <2>1, <3>1, <3>2, <3>3, <3>4, <3>5, <3>6 DEF Settled
  <2>6. GCHas' /\ GCNamed'  BY <2>1, <2>2 DEF GCHas, GCNamed
  <2>7. RollInv(z)'
    BY <1>0, <1>1, <2>1, RollFrame DEF roll
  <2>8. NameInv(z)' /\ MemInv' /\ OpInv' /\ SnapInv'
    <3>1. op'.kind = "none" /\ pc' = "idle"  BY <1>0, <2>1 DEF OpInv
    <3>2. gc'.pc # "syncing" /\ Sound(img'[z])  BY <1>0, <2>1, <2>2
    <3> QED  BY <2>5, <2>6, <3>1, <3>2, SettledNames
  <2> QED  BY <2>7, <2>8 DEF LogInvAt
<1>5. ASSUME NEW n \in Names, DeleteFile(n) PROVE LogInvAt(z)'
  <2>1. /\ pc = "idle" /\ UNCHANGED <<device, img, roll, next, open, deleted, gc>>
        /\ Closed(n) /\ Doubt({n}) /\ mem.files[n] # NoFile /\ StartDelete(n, "return", n)
    BY <1>5 DEF DeleteFile, Request, device
  <2>2. Weaker({n})  BY <2>1, DoubtStep DEF Weaker
  <2>3. RollInv(z)'  BY <1>2, <2>1 DEF StartDelete, Start
  <2> QED  BY <1>0, <1>1, <2>1, <2>2, <2>3, StartDeleteStep
<1>6. ASSUME NEW from \in Names, NEW n \in Names, RenameFile(from, n) PROVE LogInvAt(z)'
  <2>1. /\ pc = "idle" /\ UNCHANGED <<device, img, roll, next, open, deleted, gc>>
        /\ Closed(from) /\ Closed(n) /\ Doubt({from, n}) /\ mem.files[from] # NoFile
    BY <1>6 DEF RenameFile, Request, device
  <2>2. Weaker({n, from}) /\ Weaker({n})  BY <2>1, DoubtStep DEF Weaker
  <2>3. mem.files[from] \in FileIds \ open
    BY SMT, <1>1, <2>1 DEF Settled, Match, IsTable, Closed
  <2>4. CASE mem.files[n] # NoFile
    <3>1. PICK then \in {"rename", "error"} : then = (IF from = n THEN "error" ELSE "rename")
      OBVIOUS
    <3>2. StartDelete(n, then, from) /\ (then = "rename" => from # n)
      BY <1>6, <2>4, <3>1 DEF RenameFile
    <3>3. RollInv(z)'  BY <1>2, <2>1, <3>2 DEF StartDelete, Start
    <3> QED  BY <1>0, <1>1, <2>1, <2>2, <2>3, <2>4, <3>2, <3>3, StartDeleteStep
  <2>5. CASE mem.files[n] = NoFile
    <3>1. StartRename(from, n) /\ from # n  BY <1>6, <2>1, <2>5 DEF RenameFile
    <3>2. RollInv(z)'  BY <1>2, <2>1, <3>1 DEF StartRename, Start
    <3>3. gc.pc # "idle" /\ gc.id \notin deleted' => \E k \in Names : mem.files[k] = gc.id
      BY <1>1, <2>1 DEF GCNamed
    <3> QED  BY <1>0, <1>1, <2>1, <2>2, <2>3, <2>5, <3>1, <3>2, <3>3, StartRenameStep
  <2> QED  BY <2>4, <2>5
<1>7. ASSUME NEW n \in Names, NEW link \in Names, LinkFile(n, link) PROVE LogInvAt(z)'
  <2>1. pc = "idle" /\ pc' = "persist" /\ UNCHANGED <<device, roll>>
    BY <1>7 DEF LinkFile, Request, Start
  <2> QED  BY <1>0, <1>1, <1>2, <1>7, <2>1, LinkFileStep
<1>8. ASSUME NEW i \in FileIds, NEW kind \in {"fsync", "close"}, SyncFileMetadata(i, kind)
      PROVE  LogInvAt(z)'
  <2>1. /\ pc = "idle" /\ pc' = "persist" /\ UNCHANGED <<device, img, roll>>
        /\ UNCHANGED <<mem, next, open, deleted, gc, promise>>
        /\ i \in open /\ op'.kind = kind /\ op'.id = i /\ op'.rec.id = i
        /\ op'.rec.tag = "update" /\ op'.rec.links = mem.links[i]
    BY <1>8 DEF SyncFileMetadata, Request, Start, Encode, device, told
  <2>2. RollInv(z)'  BY <1>2, <2>1
  <2>3. i < next  BY <1>1, <2>1 DEF Settled
  <2>4. GCHas'  BY <1>1, <2>1 DEF GCHas
  <2> QED  BY <1>0, <1>1, <2>1, <2>2, <2>3, <2>4, StartSyncStep
<1>9. ASSUME NEW i \in FileIds, AddExtent(i) PROVE LogInvAt(z)'
  <2>1. /\ UNCHANGED <<device, next, open, deleted, roll, op, pc, gc, promise>>
        /\ mem' = SetExts(mem, i, Append(mem.exts[i], [n |-> Len(mem.exts[i]) + 1, copy |-> 0]))
    BY <1>9 DEF AddExtent, told
  <2>2. IsTable(mem') /\ mem'.files = mem.files /\ mem'.links = mem.links
    <3>1. IsTable(mem)  BY <1>0 DEF MemInv
    <3> QED  BY <2>1, <3>1, SetExtsTable
  <2> QED  BY <2>1, <2>2, ExtentsStep
<1> QED  BY <1>3, <1>4, <1>5, <1>6, <1>7, <1>8, <1>9 DEF Requests

\* The steps of a migration keep the invariant.
LEMMA MigrationStep ==
    ASSUME NEW z \in MetaZones, LogInvAt(z), GC
    PROVE  LogInvAt(z)'
<1>0. RollInv(z) /\ NameInv(z) /\ MemInv /\ OpInv /\ Sound(img[z])  BY DEF LogInvAt, NameInv
<1>1. pc = "idle" => /\ Settled(z) /\ GCHas /\ GCNamed /\ gc.pc # "syncing"
                     /\ op.kind = "none"
  BY <1>0, IdleIsSettled
<1>2. ASSUME pc = "idle", UNCHANGED <<device, files, roll, op, pc, told>>,
             GCHas', GCNamed', gc'.pc # "syncing"
      PROVE  LogInvAt(z)'
  <2>1. UNCHANGED <<device, cur, old, seq, img, mem, next, open, deleted, promise>>
    BY <1>2 DEF device, files, roll, told
  <2>2. RollInv(z)'  BY <1>0, <1>1, <1>2, <2>1, RollFrame
  <2>3. Settled(z)'
    <3>1. \A n : Promised(n)' <=> Promised(n)  BY <2>1 DEF Promised
    <3> QED  BY <1>1, <1>2, <2>1, <3>1 DEF Settled
  <2>4. Sound(img'[z]) /\ pc' = "idle" /\ op'.kind = "none"  BY <1>0, <1>1, <1>2, <2>1
  <2> QED  BY <1>2, <2>2, <2>3, <2>4, SettledNames DEF LogInvAt
<1>3. ASSUME NEW i \in FileIds, GCLock(i) PROVE LogInvAt(z)'
  <2>1. /\ pc = "idle" /\ UNCHANGED <<device, files, roll, op, pc, told>>
        /\ i \in Alive(mem) \ open /\ gc' = [pc |-> "copied", id |-> i]
        /\ UNCHANGED <<mem, open, next, deleted>>
    BY <1>3 DEF GCLock, Request, files
  <2>2. PICK n \in Names : mem.files[n] = i  BY <2>1 DEF Alive
  <2>3. i < next  BY <1>1, <2>1, <2>2 DEF Settled
  <2>4. GCHas' /\ GCNamed' /\ gc'.pc # "syncing"  BY <2>1, <2>2, <2>3 DEF GCHas, GCNamed
  <2> QED  BY <1>2, <2>1, <2>4
<1>4. CASE ReplaceExtentList
  <2>1. /\ UNCHANGED <<device, next, open, deleted, roll, op, pc, promise>>
        /\ gc.pc = "copied" /\ gc' = [gc EXCEPT !.pc = "replaced"]
        /\ \E e : mem' = SetExts(mem, gc.id, e)
    BY <1>4 DEF ReplaceExtentList, told
  <2>2. IsTable(mem') /\ mem'.files = mem.files /\ mem'.links = mem.links
    <3>1. IsTable(mem)  BY <1>0 DEF MemInv
    <3> QED  BY SMT, <2>1, <3>1, SetExtsTable
  <2> QED  BY <2>1, <2>2, ExtentsStep
<1>5. CASE GCSync
  <2>1. /\ pc = "idle" /\ gc.pc = "replaced"
        /\ UNCHANGED <<device, cur, old, seq, img, next, open, deleted, promise>>
    BY <1>5 DEF GCSync, device, roll, told
  <2>2. CASE gc.id \in deleted
    <3>1. /\ gc' = NoGC /\ UNCHANGED <<device, files, roll, op, pc, told>>
      BY <1>5, <2>2 DEF GCSync, files
    <3>2. GCHas' /\ GCNamed' /\ gc'.pc # "syncing"  BY <3>1 DEF GCHas, GCNamed, NoGC
    <3> QED  BY <1>2, <2>1, <3>1, <3>2
  <2>3. CASE gc.id \notin deleted
    <3>1. /\ pc' = "persist" /\ op'.kind = "replace" /\ op'.id = gc.id /\ op'.rec.id = gc.id
          /\ op'.rec.tag = "replace" /\ op'.rec.links = mem.links[gc.id]
          /\ mem' = mem /\ gc' = [gc EXCEPT !.pc = "syncing"]
      BY SMT, <1>5, <2>3 DEF GCSync, Start, Encode
    <3>2. RollInv(z)'  BY <1>0, <1>1, <2>1, <3>1, RollFrame
    <3>3. /\ gc' = [pc |-> "syncing", id |-> gc.id] /\ gc.id \in FileIds \ open /\ gc.id < next
      BY <1>1, <2>1, <3>1 DEF GCHas
    <3>4. GCHas'  BY <2>1, <3>3 DEF GCHas
    <3> QED  BY <1>0, <1>1, <2>1, <2>3, <3>1, <3>2, <3>3, <3>4, StartSyncStep
  <2> QED  BY <2>2, <2>3
<1> QED  BY <1>3, <1>4, <1>5 DEF GC

\* Once its record is in the log an operation, other than a creation, is settled;
\* one that only syncs a file always is.
LEMMA ReturnSettled ==
    ASSUME NEW z \in MetaZones, NameInv(z), MemInv, OpInv, pc \in {"ok", "failed"},
           op.kind # "create",
           pc = "ok" \/ op.kind \in {"fsync", "close", "replace", "mount"}
    PROVE  /\ Settled(z) /\ GCHas
           /\ op.kind \in {"delete", "rename", "link"} =>
                img[z].table.files[op.name] = mem.files[op.name]
           /\ op.kind = "rename" => img[z].table.files[op.from] = mem.files[op.from]
           /\ pc = "ok" /\ op.kind \in {"fsync", "close"} =>
                \A n \in Names : mem.files[n] = op.id => img[z].table.files[n] = op.id
<1> DEFINE f == img[z].table.files
<1>1. pc # "down" /\ (pc = "ok" => pc \in Post)  BY DEF Post
<1>2. Match(mem)
  <2>1. \A i : ~Creating(i)  BY DEF Creating
  <2> QED  BY <2>1 DEF MemInv, Match
<1>3. /\ op.kind \in {"delete", "rename", "link"} => f[op.name] = mem.files[op.name]
      /\ op.kind = "rename" => f[op.from] = mem.files[op.from]
  <2>1. op.kind \in {"delete", "rename", "link"} => pc \in Post  BY <1>1
  <2>2. op.kind = "rename" => mem.files[op.from] = NoFile  BY DEF OpInv
  <2> QED  BY <1>1, <2>1, <2>2 DEF NameInv, Agree
<1>4. ASSUME NEW n \in Names
      PROVE  f[n] = mem.files[n] \/ (f[n] = NoFile /\ MayMiss(mem.files[n]))
  <2>1. CASE Changing(n)  BY <1>3, <2>1 DEF Changing
  <2>2. CASE ~Changing(n)  BY <1>1, <2>2 DEF NameInv, Agree
  <2> QED  BY <2>1, <2>2
<1>5. \A i : MayMiss(i) => i \in open  BY DEF MayMiss
<1>6. pc = "ok" /\ op.kind \in {"fsync", "close"} => ~MayMiss(op.id)  BY <1>1 DEF MayMiss
<1>7. Settled(z)
  <2>1. /\ next \in Nat \ {0} /\ open \subseteq FileIds
        /\ \A n \in Names : mem.files[n] < next
        /\ \A i \in open : \E n \in Names : mem.files[n] = i
    BY DEF MemInv
  <2>2. /\ \A n \in Names : f[n] < next
        /\ \A i \in open : \/ \A n \in Names : mem.files[n] = i => f[n] = i
                           \/ \E n \in Names : mem.links[i] = {n}
    BY <1>1 DEF NameInv, Agree
  <2>3. /\ \A n \in Names : Promised(n) => f[n] = promise[n]
        /\ \A n \in Names : mem.files[n] \in open /\ f[n] = NoFile => ~Promised(n)
    BY <1>1 DEF NameInv, PromiseInv
  <2> QED  BY <1>2, <1>4, <1>5, <2>1, <2>2, <2>3 DEF Settled
<1>8. GCHas  BY DEF MemInv, GCHas
<1> QED  BY <1>3, <1>4, <1>6, <1>7, <1>8

\* Callers are told of names that are in the log.
LEMMA TellStep ==
    ASSUME NEW z \in MetaZones, Settled(z), NEW N \in SUBSET Names, Tell(N, mem),
           \A n \in N : img[z].table.files[n] = mem.files[n],
           UNCHANGED <<img, mem, next>>, open' \subseteq open,
           \A i \in open \ open' : \A n \in Names : mem.files[n] = i => img[z].table.files[n] = i
    PROVE  Settled(z)'
<1> DEFINE f == img[z].table.files
<1>1. ASSUME NEW n \in Names
      PROVE  /\ n \in N => promise'[n] = mem.files[n]
             /\ n \notin N => promise'[n] = promise[n] /\ (Promised(n)' <=> Promised(n))
  BY DEF Tell, Promised
<1>2. \A n \in Names : Promised(n)' => f[n] = promise'[n]  BY <1>1 DEF Settled
<1>3. ASSUME NEW n \in Names, mem.files[n] \in open', f[n] = NoFile PROVE ~Promised(n)'
  <2>1. mem.files[n] # NoFile  BY SMT, <1>3 DEF Settled, FileIds, NoFile
  <2>2. n \notin N  BY <1>3, <2>1
  <2> QED  BY <1>1, <1>3, <2>2 DEF Settled
<1>4. \A n \in Names : f[n] = mem.files[n] \/ (f[n] = NoFile /\ mem.files[n] \in open')
  BY DEF Settled
<1>5. /\ open' \subseteq FileIds
      /\ \A i \in open' : \E n \in Names : mem.files[n] = i
      /\ \A i \in open' : \/ \A n \in Names : mem.files[n] = i => f[n] = i
                          \/ \E n \in Names : mem.links[i] = {n}
  BY DEF Settled
<1>6. Match(mem) /\ next \in Nat \ {0} /\ \A n \in Names : mem.files[n] < next /\ f[n] < next
  BY DEF Settled
<1> QED  BY <1>2, <1>3, <1>4, <1>5, <1>6 DEF Settled

\* The names D are set back in memory to what the log has of them.
LEMMA SetBackStep ==
    ASSUME NEW z \in MetaZones, NameInv(z), MemInv, OpInv, pc = "failed", Match(mem'),
           UNCHANGED <<img, next, open>>, NEW D \in SUBSET Names, Weaker({}),
           \A n \in D : /\ img[z].table.files[n] = mem'.files[n]
                        /\ mem.files[n] \notin open /\ mem'.files[n] \notin open,
           \A n \in Names \ D : mem'.files[n] = mem.files[n] /\ ~Changing(n)
    PROVE  Settled(z)'
<1> DEFINE f == img[z].table.files
           g == mem'.files
<1>1. pc # "down"  OBVIOUS
<1>2. \A i : MayMiss(i) => i \in open  BY DEF MayMiss
<1>3. \A n \in Names : f[n] = g[n] \/ (f[n] = NoFile /\ g[n] \in open)
  BY <1>1, <1>2 DEF NameInv, Agree
<1>4. \A n \in Names : g[n] < next /\ f[n] < next
  BY <1>1 DEF NameInv, Agree, MemInv
<1>5. ASSUME NEW i \in open
      PROVE  /\ i \in FileIds
             /\ \E n \in Names : g[n] = i
             /\ \/ \A n \in Names : g[n] = i => f[n] = i
                \/ \E n \in Names : mem'.links[i] = {n}
  <2>1. i \in FileIds  BY DEF MemInv
  <2>2. PICK m \in Names : mem.files[m] = i  BY DEF MemInv
  <2>3. g[m] = i  BY <2>2
  <2>4. CASE \A n \in Names : mem.files[n] = i => f[n] = i
    <3>1. \A n \in Names : g[n] = i => f[n] = i  BY <2>4
    <3> QED  BY <2>1, <2>3, <3>1
  <2>5. CASE \E n \in Names : mem.links[i] = {n}
    <3>1. ~Creating(i)  BY <2>2 DEF Creating, OpInv
    <3>2. mem.links[i] = {n \in Names : mem.files[n] = i}  BY <2>1, <3>1 DEF MemInv
    <3>3. mem'.links[i] = {n \in Names : g[n] = i}  BY <2>1 DEF Match
    <3>4. \A n \in Names : g[n] = i <=> mem.files[n] = i  OBVIOUS
    <3>5. mem'.links[i] = mem.links[i]  BY SMT, <3>2, <3>3, <3>4
    <3> QED  BY <2>1, <2>3, <2>5, <3>5
  <2>6. \/ \A n \in Names : mem.files[n] = i => f[n] = i
        \/ \E n \in Names : mem.links[i] = {n}
    BY <1>1 DEF NameInv, Agree
  <2> QED  BY <2>4, <2>5, <2>6
<1>6. \A n \in Names : Promised(n)' => f[n] = promise'[n]
  BY DEF NameInv, PromiseInv, Weaker
<1>7. ASSUME NEW n \in Names, g[n] \in open, f[n] = NoFile PROVE ~Promised(n)'
  BY <1>1, <1>5, <1>7 DEF NameInv, PromiseInv, Weaker, FileIds, NoFile
<1>8. next \in Nat \ {0}  BY DEF MemInv
<1> QED  BY SMT, <1>3, <1>4, <1>5, <1>6, <1>7, <1>8 DEF Settled

\* A creation that is in the log, or that a roll has left out of it, is settled.
LEMMA CreateOkStep ==
    ASSUME NEW z \in MetaZones, NameInv(z), MemInv, OpInv, CreateOk
    PROVE  Settled(z)' /\ GCHas' /\ GCNamed'
<1> DEFINE f == img[z].table.files
           i == op.id
           g == mem'.files
<1>0. /\ pc = "ok" /\ op.kind = "create" /\ mem' = SetFile(mem, op.name, i)
      /\ open' = open \cup {i} /\ UNCHANGED <<img, next, deleted, gc, promise>>
  BY DEF CreateOk, device, told
<1>1. /\ op.name \in Names /\ i \in FileIds /\ i < next /\ i # gc.id
      /\ mem.files[op.name] = NoFile /\ \A n \in Names : mem.files[n] # i
  BY <1>0 DEF OpInv, Kinds
<1>2. pc \in Post /\ pc # "down" /\ i # NoFile  BY <1>0, <1>1 DEF Post, FileIds, NoFile
<1>3. /\ IsTable(mem') /\ g = [mem.files EXCEPT ![op.name] = i] /\ mem'.links = mem.links
  <2>1. IsTable(mem)  BY DEF MemInv
  <2> QED  BY SMT, <1>0, <1>1, <2>1, SetFileTable
<1>4. g[op.name] = i /\ \A n \in Names \ {op.name} : g[n] = mem.files[n]
  <2>1. mem.files \in [Names -> FileIds \cup {NoFile}]  BY DEF MemInv, IsTable
  <2> QED  BY <1>1, <1>3, <2>1
<1> HIDE DEF g
<1>5. ASSUME NEW j \in FileIds PROVE mem'.links[j] = {n \in Names : g[n] = j}
  <2>1. CASE j = i
    <3>1. mem.links[j] = {op.name}  BY <1>0, <2>1 DEF MemInv, Creating
    <3>2. \A n \in Names : g[n] = j <=> n = op.name  BY <1>1, <1>4, <2>1
    <3> QED  BY <1>1, <1>3, <3>1, <3>2
  <2>2. CASE j # i
    <3>0. ~Creating(j)  BY <2>2 DEF Creating
    <3>1. mem.links[j] = {n \in Names : mem.files[n] = j}  BY <3>0 DEF MemInv
    <3>2. \A n \in Names : g[n] = j <=> mem.files[n] = j
      BY SMT, <1>1, <1>4, <2>2 DEF FileIds, NoFile
    <3> QED  BY <1>3, <3>1, <3>2
  <2> QED  BY <2>1, <2>2
<1>6. Match(mem')  BY <1>3, <1>5 DEF Match, g
<1>7. \A n \in Names : g[n] < next /\ f[n] < next
  BY <1>1, <1>2, <1>4 DEF NameInv, Agree, MemInv
<1>8. ASSUME NEW n \in Names
      PROVE  f[n] = g[n] \/ (f[n] = NoFile /\ g[n] \in open')
  <2>1. CASE n = op.name
    <3>1. f[n] \in {i, NoFile}  BY <1>0, <1>2, <2>1 DEF NameInv, Agree
    <3> QED  BY <1>0, <1>4, <2>1, <3>1
  <2>2. CASE n # op.name
    <3>1. ~Changing(n)  BY <1>0, <2>2 DEF Changing
    <3> QED  BY <1>0, <1>2, <1>4, <2>2, <3>1 DEF NameInv, Agree, MayMiss
  <2> QED  BY <2>1, <2>2
<1>9. ASSUME NEW j \in open'
      PROVE  /\ j \in FileIds
             /\ \E n \in Names : g[n] = j
             /\ \/ \A n \in Names : g[n] = j => f[n] = j
                \/ \E n \in Names : mem'.links[j] = {n}
  <2>1. CASE j = i
    <3>1. mem'.links[j] = {op.name}
      <4>1. \A n \in Names : g[n] = j <=> n = op.name  BY <1>1, <1>4, <2>1
      <4> QED  BY <1>1, <1>5, <2>1, <4>1
    <3> QED  BY <1>1, <1>4, <2>1, <3>1
  <2>2. CASE j # i
    <3>1. j \in open /\ j \in FileIds  BY <1>0, <2>2 DEF MemInv
    <3>2. PICK m \in Names : mem.files[m] = j  BY <3>1 DEF MemInv
    <3>3. g[m] = j  BY SMT, <1>1, <1>4, <3>1, <3>2 DEF FileIds, NoFile
    <3>4. \A n \in Names : g[n] = j => mem.files[n] = j  BY <1>4, <2>2
    <3>5. \/ \A n \in Names : mem.files[n] = j => f[n] = j
          \/ \E n \in Names : mem.links[j] = {n}
      BY <1>2, <3>1 DEF NameInv, Agree
    <3> QED  BY <1>3, <3>1, <3>3, <3>4, <3>5
  <2> QED  BY <2>1, <2>2
<1>10. \A n : Promised(n)' <=> Promised(n)  BY <1>0 DEF Promised
<1>11. \A n \in Names : Promised(n)' => f[n] = promise[n]
  BY <1>10 DEF NameInv, PromiseInv
<1>12. ASSUME NEW n \in Names, g[n] \in open', f[n] = NoFile PROVE ~Promised(n)'
  <2>1. CASE n = op.name  BY <1>0, <1>10, <2>1 DEF NameInv, PromiseInv
  <2>2. CASE n # op.name
    <3>1. mem.files[n] \in open  BY <1>0, <1>1, <1>4, <1>12, <2>2
    <3> QED  BY <1>2, <1>10, <1>12, <3>1 DEF NameInv, PromiseInv
  <2> QED  BY <2>1, <2>2
<1>13. next \in Nat \ {0} /\ open' \subseteq FileIds  BY <1>0, <1>1 DEF MemInv
<1>14. Settled(z)'
  BY <1>0, <1>6, <1>7, <1>8, <1>9, <1>11, <1>12, <1>13 DEF Settled, g
<1>15. GCHas'  BY <1>0, <1>1 DEF MemInv, GCHas
<1>16. GCNamed'
  <2>1. SUFFICES ASSUME gc.pc # "idle", gc.id \notin deleted
                 PROVE  \E n \in Names : g[n] = gc.id
    BY <1>0 DEF GCNamed, g
  <2>2. PICK n \in Names : mem.files[n] = gc.id  BY <1>0, <2>1 DEF MemInv
  <2>3. gc.id # NoFile  BY SMT, <2>1 DEF MemInv, FileIds, NoFile
  <2> QED  BY <1>1, <1>4, <2>2, <2>3
<1> QED  BY <1>14, <1>15, <1>16

\* A failed operation takes its change of the names in memory back.
LEMMA FailedStep ==
    ASSUME NEW z \in MetaZones, NameInv(z), MemInv, OpInv,
           CreateFailed \/ DeleteFailed \/ RenameFailed \/ LinkFailed
    PROVE  Settled(z)' /\ GCHas' /\ GCNamed'
<1> DEFINE f == img[z].table.files
           i == op.id
           g == mem'.files
<1>0. /\ pc = "failed" /\ op.kind \in {"create", "delete", "rename", "link"}
      /\ UNCHANGED <<img, next, open, deleted, gc>>
  BY DEF CreateFailed, DeleteFailed, RenameFailed, LinkFailed, device
<1>1. Weaker({})
  <2>1. promise' = promise \/ \E N : Mislead(N)
    BY DEF CreateFailed, DeleteFailed, RenameFailed, LinkFailed, told
  <2> QED  BY <2>1 DEF Weaker, Mislead, Promised
<1>2. pc \in Pre /\ pc # "down"  BY <1>0 DEF Pre
<1>3. op.name \in Names /\ i \in FileIds /\ i # NoFile /\ NoFile \notin open
  BY SMT, <1>0 DEF OpInv, Kinds, MemInv, FileIds, NoFile
<1>4. op.kind # "create" => Match(mem)
  <2>1. op.kind # "create" => \A j : ~Creating(j)  BY DEF Creating
  <2> QED  BY <2>1 DEF Match, MemInv
<1>5. GCHas'  BY <1>0 DEF MemInv, GCHas
<1>6. ASSUME \A n \in Names : mem.files[n] = gc.id => \E m \in Names : g[m] = gc.id,
             op.kind = "delete" => g[op.name] = i
      PROVE  GCNamed'
  BY <1>0, <1>3, <1>6 DEF GCNamed, MemInv
<1>7. CASE CreateFailed
  <2>1. /\ op.kind = "create" /\ mem' = Drop(mem, i) /\ mem.files[op.name] = NoFile
        /\ \A n \in Names : mem.files[n] # i
    BY <1>7 DEF CreateFailed, OpInv
  <2>2. i \notin Alive(mem)  BY <2>1 DEF Alive
  <2>3. IsTable(mem') /\ g = mem.files /\ mem'.links = [mem.links EXCEPT ![i] = {}]
    <3>1. IsTable(mem)  BY DEF MemInv
    <3> QED  BY <1>3, <2>1, <2>2, <3>1, DropTable
  <2>4. ASSUME NEW j \in FileIds PROVE mem'.links[j] = {n \in Names : g[n] = j}
    <3>0. mem.links \in [FileIds -> SUBSET Names]  BY DEF MemInv, IsTable
    <3>1. CASE j = i
      <4>1. mem'.links[j] = {}  BY <2>3, <3>0, <3>1
      <4> QED  BY <2>1, <2>3, <3>1, <4>1
    <3>2. CASE j # i
      <4>1. ~Creating(j)  BY <3>2 DEF Creating
      <4>2. mem.links[j] = {n \in Names : mem.files[n] = j}  BY <4>1 DEF MemInv
      <4>3. mem'.links[j] = mem.links[j]  BY <2>3, <3>0, <3>2
      <4> QED  BY <2>3, <4>2, <4>3
    <3> QED  BY <3>1, <3>2
  <2>5. Match(mem')  BY <2>3, <2>4 DEF Match
  <2>6. f[op.name] = NoFile  BY <1>2, <2>1 DEF NameInv, Agree
  <2>7. \A n \in Names \ {op.name} : ~Changing(n)  BY <2>1 DEF Changing
  <2> DEFINE D == {op.name}
  <2>8. /\ D \in SUBSET Names
        /\ \A n \in D : f[n] = g[n] /\ mem.files[n] \notin open /\ g[n] \notin open
        /\ \A n \in Names \ D : g[n] = mem.files[n] /\ ~Changing(n)
    BY <1>3, <2>1, <2>3, <2>6, <2>7
  <2> HIDE DEF D
  <2>9. Settled(z)'  BY <1>0, <1>1, <2>5, <2>8, SetBackStep
  <2>10. GCNamed'  BY <1>6, <2>1, <2>3
  <2> QED  BY <1>5, <2>9, <2>10
<1>8. CASE DeleteFailed
  <2>1. /\ op.kind = "delete" /\ mem' = AddLinkName(mem, i, op.name)
        /\ mem.files[op.name] = NoFile /\ i \notin open
    BY <1>8 DEF DeleteFailed, OpInv
  <2>2. Match(mem') /\ g = [mem.files EXCEPT ![op.name] = i]
    <3>1. Match(mem)  BY <1>4, <2>1
    <3>2. PICK n \in Names : n = op.name  BY <1>3
    <3>3. PICK j \in FileIds : j = i  BY <1>3
    <3> QED  BY SMT, <2>1, <3>1, <3>2, <3>3, Name
  <2>3. g[op.name] = i /\ \A n \in Names \ {op.name} : g[n] = mem.files[n]
    <3>1. mem.files \in [Names -> FileIds \cup {NoFile}]  BY DEF MemInv, IsTable
    <3> QED  BY <1>3, <2>2, <3>1
  <2>6. f[op.name] = i  BY <1>2, <2>1 DEF NameInv, Agree
  <2>7. \A n \in Names \ {op.name} : ~Changing(n)  BY <2>1 DEF Changing
  <2> DEFINE D == {op.name}
  <2>8. /\ D \in SUBSET Names
        /\ \A n \in D : f[n] = g[n] /\ mem.files[n] \notin open /\ g[n] \notin open
        /\ \A n \in Names \ D : g[n] = mem.files[n] /\ ~Changing(n)
    BY <1>3, <2>1, <2>3, <2>6, <2>7
  <2> HIDE DEF D
  <2>9. Settled(z)'  BY <1>0, <1>1, <2>2, <2>8, SetBackStep
  <2>10. GCNamed'
    <3>1. CASE gc.pc = "idle"  BY <1>0, <3>1 DEF GCNamed
    <3>2. CASE gc.pc # "idle"
      <4>1. gc.id # NoFile  BY SMT, <3>2 DEF MemInv, FileIds, NoFile
      <4>2. ASSUME NEW n \in Names, mem.files[n] = gc.id PROVE \E m \in Names : g[m] = gc.id
        BY <2>1, <2>3, <4>1, <4>2
      <4> QED  BY <1>6, <2>3, <4>2
    <3> QED  BY <3>1, <3>2
  <2> QED  BY <1>5, <2>9, <2>10
<1>9. CASE RenameFailed
  <2>1. /\ op.kind = "rename" /\ mem' = RenameLink(mem, i, op.name, op.from)
        /\ mem.files[op.name] = i /\ mem.files[op.from] = NoFile /\ i \notin open
        /\ op.from \in Names /\ op.from # op.name
    BY <1>9 DEF RenameFailed, OpInv
  <2>2. /\ Match(mem') /\ g[op.name] = NoFile /\ g[op.from] = i
        /\ \A n \in Names \ {op.name, op.from} : g[n] = mem.files[n]
    <3>1. Match(mem)  BY <1>4, <2>1
    <3>2. PICK n \in Names : n = op.name  BY <1>3
    <3>3. PICK m \in Names : m = op.from  BY <2>1
    <3>4. PICK j \in FileIds : j = i  BY <1>3
    <3>5. n # m /\ mem.files[n] = j /\ mem.files[m] = NoFile /\ mem' = RenameLink(mem, j, n, m)
      BY <2>1, <3>2, <3>3, <3>4
    <3>6. /\ Match(mem') /\ g[n] = NoFile /\ g[m] = j
          /\ \A k \in Names \ {n, m} : g[k] = mem.files[k]
      BY SMT, <3>1, <3>5, Rename
    <3> QED  BY <3>2, <3>3, <3>4, <3>6
  <2>6. f[op.name] = NoFile /\ f[op.from] = i  BY <1>2, <2>1 DEF NameInv, Agree
  <2>7. \A n \in Names \ {op.name, op.from} : ~Changing(n)  BY <2>1 DEF Changing
  <2> DEFINE D == {op.name, op.from}
  <2>8. /\ D \in SUBSET Names
        /\ \A n \in D : f[n] = g[n] /\ mem.files[n] \notin open /\ g[n] \notin open
        /\ \A n \in Names \ D : g[n] = mem.files[n] /\ ~Changing(n)
    BY <1>3, <2>1, <2>2, <2>6, <2>7
  <2> HIDE DEF D
  <2>9. Settled(z)'  BY <1>0, <1>1, <2>2, <2>8, SetBackStep
  <2>10. GCNamed'
    <3>1. ASSUME NEW n \in Names, mem.files[n] = gc.id PROVE \E m \in Names : g[m] = gc.id
      <4>1. CASE n = op.name  BY <2>1, <2>2, <3>1, <4>1
      <4>2. CASE n = op.from  BY <1>3, <2>1, <2>2, <3>1, <4>2
      <4>3. CASE n \notin {op.name, op.from}  BY <2>2, <3>1, <4>3
      <4> QED  BY <4>1, <4>2, <4>3
    <3> QED  BY <1>6, <2>1, <3>1
  <2> QED  BY <1>5, <2>9, <2>10
<1>10. CASE LinkFailed
  <2>1. /\ op.kind = "link" /\ mem' = RemoveLinkName(mem, i, op.name)
        /\ mem.files[op.name] = i /\ i \notin open
        /\ \E n \in Names \ {op.name} : mem.files[n] = i
    BY <1>10 DEF LinkFailed, OpInv
  <2>2. Match(mem') /\ g = [mem.files EXCEPT ![op.name] = NoFile]
    <3>1. Match(mem)  BY <1>4, <2>1
    <3>2. PICK n \in Names : n = op.name  BY <1>3
    <3>3. PICK j \in FileIds : j = i  BY <1>3
    <3> QED  BY SMT, <2>1, <3>1, <3>2, <3>3, Unname
  <2>3. g[op.name] = NoFile /\ \A n \in Names \ {op.name} : g[n] = mem.files[n]
    <3>1. mem.files \in [Names -> FileIds \cup {NoFile}]  BY DEF MemInv, IsTable
    <3> QED  BY <1>3, <2>2, <3>1
  <2>6. f[op.name] = NoFile  BY <1>2, <2>1 DEF NameInv, Agree
  <2>7. \A n \in Names \ {op.name} : ~Changing(n)  BY <2>1 DEF Changing
  <2> DEFINE D == {op.name}
  <2>8. /\ D \in SUBSET Names
        /\ \A n \in D : f[n] = g[n] /\ mem.files[n] \notin open /\ g[n] \notin open
        /\ \A n \in Names \ D : g[n] = mem.files[n] /\ ~Changing(n)
    BY <1>3, <2>1, <2>3, <2>6, <2>7
  <2> HIDE DEF D
  <2>9. Settled(z)'  BY <1>0, <1>1, <2>2, <2>8, SetBackStep
  <2>10. GCNamed'
    <3>1. ASSUME NEW n \in Names, mem.files[n] = gc.id PROVE \E m \in Names : g[m] = gc.id
      <4>1. CASE n = op.name  BY <2>1, <2>3, <3>1, <4>1
      <4>2. CASE n # op.name  BY <2>3, <3>1, <4>2
      <4> QED  BY <4>1, <4>2
    <3> QED  BY <1>6, <2>1, <3>1
  <2> QED  BY <1>5, <2>9, <2>10
<1> QED  BY <1>7, <1>8, <1>9, <1>10

\* Every return of an operation but a failed mount keeps the invariant.
LEMMA ReturnStep ==
    ASSUME NEW z \in MetaZones, LogInvAt(z), Return, ~MountFailed
    PROVE  LogInvAt(z)'
<1> DEFINE f == img[z].table.files
<1>0. RollInv(z) /\ NameInv(z) /\ MemInv /\ OpInv /\ Sound(img[z])  BY DEF LogInvAt, NameInv
<1>1. ASSUME pc \in {"ok", "failed"}, op.kind # "mount" \/ pc = "ok", Idle,
             UNCHANGED <<device, roll>>, gc'.pc # "syncing", Settled(z)', GCHas', GCNamed'
      PROVE  LogInvAt(z)'
  <2>1. UNCHANGED <<device, cur, old, seq, img>> /\ pc' = "idle" /\ op'.kind = "none"
    BY <1>1 DEF device, roll, Idle, NoOp
  <2>2. RollInv(z)'  BY <1>0, <1>1, <2>1, RollFrame
  <2>3. Sound(img'[z])  BY <1>0, <2>1
  <2> QED  BY <1>1, <2>1, <2>2, <2>3, SettledNames DEF LogInvAt
<1>2. op.kind # "replace" => gc.pc # "syncing"  BY <1>0 DEF OpInv
<1>3. op.kind # "delete" => GCNamed  BY <1>0 DEF MemInv, GCNamed
<1>4. CASE CreateOk
  <2>1. pc = "ok" /\ op.kind = "create" /\ Idle /\ UNCHANGED <<device, roll, gc>>
    BY <1>4 DEF CreateOk
  <2>2. Settled(z)' /\ GCHas' /\ GCNamed'  BY <1>0, <1>4, CreateOkStep
  <2> QED  BY <1>1, <1>2, <2>1, <2>2
<1>5. CASE CreateFailed \/ DeleteFailed \/ RenameFailed \/ LinkFailed
  <2>1. /\ pc = "failed" /\ op.kind \in {"create", "delete", "rename", "link"}
        /\ Idle /\ UNCHANGED <<device, roll, gc>>
    BY <1>5 DEF CreateFailed, DeleteFailed, RenameFailed, LinkFailed
  <2>2. Settled(z)' /\ GCHas' /\ GCNamed'  BY <1>0, <1>5, FailedStep
  <2> QED  BY <1>1, <1>2, <2>1, <2>2
<1>6. CASE DeleteOk
  <2> DEFINE n == op.name
  <2>1. /\ pc = "ok" /\ op.kind = "delete" /\ UNCHANGED <<device, img, roll, open, gc>>
        /\ deleted' = IF mem.links[op.id] = {} THEN deleted \cup {op.id} ELSE deleted
    BY <1>6 DEF DeleteOk, device
  <2>2. Settled(z) /\ GCHas /\ f[n] = mem.files[n]  BY <1>0, <2>1, ReturnSettled
  <2>3. /\ n \in Names /\ mem.files[n] = NoFile /\ op.id \in FileIds
        /\ op.then \in {"return", "create", "rename", "error"}
    BY <1>0, <2>1 DEF OpInv, Kinds
  <2>4. gc.pc # "idle" /\ gc.id \notin deleted' => \E k \in Names : mem.files[k] = gc.id
    <3>1. SUFFICES ASSUME gc.pc # "idle", gc.id \notin deleted'
                   PROVE  \E k \in Names : mem.files[k] = gc.id
      OBVIOUS
    <3>2. gc.id \notin deleted  BY <2>1, <3>1
    <3>3. CASE op.id = gc.id
      <4>1. mem.links[op.id] # {}  BY <2>1, <3>1, <3>3
      <4>2. mem.links[op.id] = {k \in Names : mem.files[k] = op.id}
        BY <2>2, <2>3 DEF Settled, Match
      <4> QED  BY <3>3, <4>1, <4>2
    <3>4. CASE op.id # gc.id  BY <1>0, <3>1, <3>2, <3>4 DEF MemInv
    <3> QED  BY <3>3, <3>4
  <2>5. CASE op.then = "return"
    <3>1. Idle /\ Tell({n}, mem) /\ UNCHANGED <<mem, next>>  BY <1>6, <2>5 DEF DeleteOk
    <3> DEFINE N == {n}
    <3>2. /\ N \in SUBSET Names /\ Tell(N, mem) /\ \A k \in N : f[k] = mem.files[k]
          /\ open' \subseteq open /\ open \ open' = {}
      BY <2>1, <2>2, <2>3, <3>1
    <3> HIDE DEF N
    <3>3. Settled(z)'  BY <2>1, <2>2, <3>1, <3>2, TellStep
    <3>4. GCHas' /\ GCNamed'  BY <2>1, <2>2, <2>4, <3>1 DEF GCHas, GCNamed
    <3> QED  BY <1>1, <1>2, <2>1, <3>1, <3>3, <3>4
  <2>6. CASE op.then = "create"
    <3>1. StartCreate(n) /\ UNCHANGED promise  BY <1>6, <2>6 DEF DeleteOk
    <3>2. next <= MaxFileId  BY <1>0, <2>1, <2>6 DEF OpInv
    <3>3. ~Promised(n)  BY <1>0, <2>1 DEF NameInv, PromiseInv
    <3>4. Weaker({n})  BY <3>1, <3>3 DEF Weaker, Promised
    <3>5. pc' = "persist"  BY <3>1 DEF StartCreate, Start
    <3>6. RollInv(z)'  BY <1>0, <2>1, <3>5, RollFrame DEF roll
    <3> HIDE DEF n
    <3> QED  BY <1>0, <1>2, <2>1, <2>2, <2>3, <2>4, <3>1, <3>2, <3>4, <3>6, StartCreateStep
  <2>7. CASE op.then = "rename"
    <3>1. StartRename(op.from, n) /\ UNCHANGED <<next, promise>>  BY <1>6, <2>7 DEF DeleteOk
    <3>2. op.from \in Names /\ op.from # n /\ mem.files[op.from] \in FileIds \ open
      BY <1>0, <2>1, <2>7 DEF OpInv
    <3>3. ~Promised(n) /\ ~Promised(op.from)  BY <1>0, <2>1, <2>7 DEF NameInv, PromiseInv
    <3>4. Weaker({n, op.from})  BY <3>1, <3>3 DEF Weaker, Promised
    <3>5. pc' = "persist"  BY <3>1 DEF StartRename, Start
    <3>6. RollInv(z)'  BY <1>0, <2>1, <3>5, RollFrame DEF roll
    <3> HIDE DEF n
    <3> QED  BY <1>0, <1>2, <2>1, <2>2, <2>3, <2>4, <3>1, <3>2, <3>4, <3>6, StartRenameStep
  <2>8. CASE op.then = "error"
    <3>1. Idle /\ UNCHANGED <<mem, next, promise>>  BY <1>6, <2>8 DEF DeleteOk
    <3>2. \A k : Promised(k)' <=> Promised(k)  BY <3>1 DEF Promised
    <3>3. Settled(z)'  BY SMT, <2>1, <2>2, <3>1, <3>2 DEF Settled
    <3>4. GCHas' /\ GCNamed'  BY <2>1, <2>2, <2>4, <3>1 DEF GCHas, GCNamed
    <3> QED  BY <1>1, <1>2, <2>1, <3>1, <3>3, <3>4
  <2> QED  BY <2>3, <2>5, <2>6, <2>7, <2>8
<1>7. CASE RenameOk
  <2> DEFINE N == {op.from, op.name}
  <2>1. /\ pc = "ok" /\ op.kind = "rename" /\ Idle /\ Tell(N, mem)
        /\ UNCHANGED <<device, img, roll, mem, next, open, deleted, gc>>
    BY <1>7 DEF RenameOk, device
  <2>2. Settled(z) /\ GCHas /\ N \in SUBSET Names /\ \A k \in N : f[k] = mem.files[k]
    <3>1. op.name \in Names /\ op.from \in Names  BY <1>0, <2>1 DEF OpInv
    <3>2. Settled(z) /\ GCHas /\ f[op.name] = mem.files[op.name] /\ f[op.from] = mem.files[op.from]
      BY <1>0, <2>1, ReturnSettled
    <3> QED  BY <3>1, <3>2
  <2> HIDE DEF N
  <2>3. Settled(z)'  BY <2>1, <2>2, TellStep
  <2>4. GCHas' /\ GCNamed'  BY <1>3, <2>1, <2>2 DEF GCHas, GCNamed
  <2> QED  BY <1>1, <1>2, <2>1, <2>3, <2>4
<1>8. CASE LinkOk
  <2> DEFINE N == {op.name}
  <2>1. /\ pc = "ok" /\ op.kind = "link" /\ Idle /\ Tell(N, mem)
        /\ UNCHANGED <<device, img, roll, mem, next, open, deleted, gc>>
    BY <1>8 DEF LinkOk, device
  <2>2. Settled(z) /\ GCHas /\ N \in SUBSET Names /\ \A k \in N : f[k] = mem.files[k]
    <3>1. op.name \in Names  BY <1>0, <2>1 DEF OpInv
    <3>2. Settled(z) /\ GCHas /\ f[op.name] = mem.files[op.name]
      BY <1>0, <2>1, ReturnSettled
    <3> QED  BY <3>1, <3>2
  <2> HIDE DEF N
  <2>3. Settled(z)'  BY <2>1, <2>2, TellStep
  <2>4. GCHas' /\ GCNamed'  BY <1>3, <2>1, <2>2 DEF GCHas, GCNamed
  <2> QED  BY <1>1, <1>2, <2>1, <2>3, <2>4
<1>9. CASE SyncOk
  <2> DEFINE N == mem.links[op.id]
  <2>1. /\ pc = "ok" /\ op.kind \in {"fsync", "close"} /\ Idle /\ Tell(N, mem)
        /\ open' = IF op.kind = "close" THEN open \ {op.id} ELSE open
        /\ UNCHANGED <<device, img, roll, mem, next, deleted, gc>>
    BY <1>9 DEF SyncOk, device
  <2>2. /\ Settled(z) /\ GCHas
        /\ \A n \in Names : mem.files[n] = op.id => f[n] = op.id
    BY <1>0, <2>1, ReturnSettled
  <2>3. N = {n \in Names : mem.files[n] = op.id}
    <3>1. op.id \in FileIds  BY <1>0, <2>1 DEF OpInv, Kinds
    <3> QED  BY <2>2, <3>1 DEF Settled, Match
  <2>4. N \in SUBSET Names /\ \A k \in N : f[k] = mem.files[k]  BY <2>2, <2>3
  <2>5. open' \subseteq open /\ \A i \in open \ open' : i = op.id  BY <2>1
  <2> HIDE DEF N
  <2>6. Settled(z)'  BY <2>1, <2>2, <2>4, <2>5, TellStep
  <2>7. GCHas' /\ GCNamed'  BY <1>3, <2>1, <2>2, <2>5 DEF GCHas, GCNamed
  <2> QED  BY <1>1, <1>2, <2>1, <2>6, <2>7
<1>10. CASE SyncFailed \/ GCDone
  <2>1. /\ pc \in {"ok", "failed"} /\ op.kind \in {"fsync", "close", "replace"} /\ Idle
        /\ UNCHANGED <<device, img, roll, mem, next, open, deleted, promise>>
        /\ gc' = NoGC \/ (gc' = gc /\ op.kind # "replace")
    BY <1>10 DEF SyncFailed, GCDone, device, files, told
  <2>2. Settled(z) /\ GCHas  BY <1>0, <2>1, ReturnSettled
  <2>3. Settled(z)'
    <3>1. \A n : Promised(n)' <=> Promised(n)  BY <2>1 DEF Promised
    <3> QED  BY SMT, <2>1, <2>2, <3>1 DEF Settled
  <2>4. GCHas' /\ GCNamed' /\ gc'.pc # "syncing"
    BY SMT, <1>2, <1>3, <2>1, <2>2 DEF GCHas, GCNamed, NoGC
  <2> QED  BY <1>1, <2>1, <2>3, <2>4
<1>11. CASE MountOk
  <2>1. /\ pc = "ok" /\ op.kind = "mount" /\ Idle /\ promise' = mem.files
        /\ UNCHANGED <<device, img, roll, mem, next, open, deleted, gc>>
    BY <1>11 DEF MountOk, device, files
  <2>2. Settled(z) /\ GCHas  BY <1>0, <2>1, ReturnSettled
  <2>3. open = {}  BY <1>0, <2>1 DEF OpInv
  <2>4. Tell(Names, mem)
    <3>1. mem.files \in [Names -> FileIds \cup {NoFile}]  BY <1>0 DEF MemInv, IsTable
    <3> QED  BY <2>1, <3>1 DEF Tell
  <2>5. \A n \in Names : f[n] = mem.files[n]  BY <2>2, <2>3 DEF Settled
  <2>6. Settled(z)'  BY <2>1, <2>2, <2>4, <2>5, TellStep
  <2>7. GCHas' /\ GCNamed'  BY <1>3, <2>1, <2>2 DEF GCHas, GCNamed
  <2> QED  BY <1>1, <1>2, <2>1, <2>6, <2>7
<1> QED  BY <1>4, <1>5, <1>6, <1>7, <1>8, <1>9, <1>10, <1>11 DEF Return

\* The empty file table.
LEMMA Empty == Match(NoFiles) /\ NoFiles.files = [n \in Names |-> NoFile]
BY SMT DEF Match, IsTable, NoFiles, FileIds, NoFile

\* A crash, or a mount that fails, leaves what the device has.
LEMMA DownStep ==
    ASSUME NEW z \in MetaZones, LogInvAt(z), UNCHANGED <<device, promise>>, PowerDown
    PROVE  LogInvAt(z)'
<1>0. RollInv(z) /\ NameInv(z)  BY DEF LogInvAt
<1>1. UNCHANGED img  BY DEF device
<1>2. /\ pc' = "down" /\ mem' = NoFiles /\ next' = 1 /\ open' = {} /\ gc' = NoGC
      /\ op'.kind = "none"
  BY DEF PowerDown, NoOp
<1>3. RollInv(z)'  BY <1>0, RollDown
<1>4. MemInv'
  <2>1. \A i : ~Creating(i)'  BY <1>2 DEF Creating
  <2>2. \A n \in Names : mem'.files[n] < next'  BY SMT, <1>2, Empty DEF NoFile
  <2>3. gc' = [pc |-> gc'.pc, id |-> gc'.id] /\ gc'.pc = "idle" /\ gc'.id = NoFile
    BY <1>2 DEF NoGC
  <2>4. Match(mem') /\ IsTable(mem')  BY <1>2, Empty DEF Match
  <2>5. next' \in Nat \ {0} /\ open' = {}  BY SMT, <1>2
  <2>6. \A i \in FileIds : mem'.links[i] = {n \in Names : mem'.files[n] = i}  BY <2>4 DEF Match
  <2> QED  BY <2>1, <2>2, <2>3, <2>4, <2>5, <2>6 DEF MemInv
<1>5. OpInv'  BY <1>2 DEF OpInv, Kinds, NoGC
<1>6. Agree(z)' /\ SnapInv'  BY <1>2 DEF Agree, SnapInv
<1>7. PromiseInv(z)'  BY <1>0, <1>1, <1>2 DEF NameInv, PromiseInv, Promised
<1>8. Sound(img'[z])  BY <1>0, <1>1 DEF NameInv
<1> QED  BY <1>3, <1>4, <1>5, <1>6, <1>7, <1>8 DEF LogInvAt, NameInv

\* Mount takes the names in memory from the leading log.
LEMMA MountStep ==
    ASSUME NEW z \in MetaZones, LogInvAt(z), Mount
    PROVE  LogInvAt(z)'
<1> DEFINE t == img[z].table
<1>0. RollInv(z) /\ NameInv(z) /\ MemInv /\ OpInv  BY DEF LogInvAt
<1>1. MountSucceeds /\ \A y \in MetaZones : MountsFrom(y) <=> y = z
  BY <1>0, Leading DEF RollInv
<1>2. /\ pc = "down" /\ mem' = t /\ next' = img[z].next /\ cur' = z /\ seq' = super[z]
      /\ op' = [kind |-> "mount"] /\ pc' = "allocate"
      /\ UNCHANGED <<cap, super, img, open, deleted, old, gc, promise>>
  BY <1>1 DEF Mount, device, told
<1>3. /\ Sound(img[z]) /\ Match(t) /\ img[z].next \in Nat \ {0}
      /\ \A n \in Names : t.files[n] < img[z].next
  BY <1>0 DEF NameInv, Sound
<1>4. open = {} /\ gc.pc = "idle"  BY <1>0, <1>2 DEF OpInv
<1>5. pc' \in Pre /\ pc' \notin Post /\ pc' \notin Rolling  BY <1>2 DEF Pre, Post, Rolling
<1>6. RollInv(z)'
  <2>1. Lead(z)'  BY <1>0, <1>2 DEF RollInv, Lead
  <2>2. super[z] \in Nat  BY <1>0 DEF RollInv
  <2>3. pc' \in Points \ {"unmountable"}  BY <1>2 DEF Points
  <2> QED  BY <1>0, <1>2, <1>5, <2>1, <2>2, <2>3 DEF RollInv, IsEmpty
<1>7. MemInv'
  <2>1. \A i : ~Creating(i)'  BY <1>2 DEF Creating
  <2>2. /\ gc = [pc |-> gc.pc, id |-> gc.id] /\ gc.id = NoFile  BY <1>0, <1>4 DEF MemInv
  <2> HIDE DEF t
  <2> QED  BY <1>2, <1>3, <1>4, <2>1, <2>2 DEF MemInv, Match
<1>8. OpInv'  BY <1>2, <1>4 DEF OpInv, Kinds
<1>9. Agree(z)'
  <2>1. img'[z].table.files = mem'.files  BY <1>2
  <2> QED  BY <1>2, <1>3, <1>4, <2>1 DEF Agree
<1>10. PromiseInv(z)'  BY <1>0, <1>2, <1>4 DEF NameInv, PromiseInv, Promised
<1>11. SnapInv'  BY <1>2 DEF SnapInv
<1>12. Sound(img'[z])  BY <1>2, <1>3
<1> QED  BY <1>6, <1>7, <1>8, <1>9, <1>10, <1>11, <1>12 DEF LogInvAt, NameInv

\* What MkFS leaves on the device.
LEMMA LogInit == Init => 1 \in MetaZones /\ LogInvAt(1)
<1> SUFFICES ASSUME Init PROVE 1 \in MetaZones /\ LogInvAt(1)
  OBVIOUS
<1> DEFINE m == img[1]
<1>1. 1 \in MetaZones  BY SMT, MetaLogAssumption DEF MetaZones
<1>2. /\ m = [state |-> "ok", ended |-> FALSE, table |-> NoFiles, next |-> 1]
      /\ \A y \in MetaZones \ {1} : img[y] = Blank
      /\ DOMAIN img = MetaZones
  BY <1>1 DEF Init, Blank
<1>3. Sound(m)
  <2>1. \A n \in Names : NoFiles.files[n] < 1  BY SMT, Empty DEF NoFile
  <2> QED  BY SMT, <1>2, <2>1, Empty DEF Sound, IsImage
<1>4. RollInv(1)
  <2>1. /\ super[1] = 1 /\ \A y \in MetaZones \ {1} : super[y] = NoSuper
        /\ super \in [MetaZones -> Nat]
    BY <1>1 DEF Init, NoSuper
  <2>2. /\ cap \in [MetaZones -> Nat]
        /\ \A y \in MetaZones \ {1} : cap[y] = MetaCapacity
    <3>1. MetaCapacity \in Nat /\ MetaCapacity - 1 - SnapshotBlocks \in Nat
      BY SMT, MetaLogAssumption
    <3> QED  BY <1>1, <3>1 DEF Init
  <2>3. Lead(1)  BY SMT, <1>2, <2>1 DEF Lead, NoSuper
  <2>4. \A y \in MetaZones : IsImage(img[y])
    <3>1. IsImage(Blank)  BY DEF IsImage, Blank
    <3> QED  BY <1>2, <1>3, <3>1 DEF Sound
  <2>5. \A y \in MetaZones : IsEmpty(y) => cap[y] = MetaCapacity /\ img[y] = Blank
    BY SMT, <1>2, <2>1, <2>2 DEF IsEmpty, NoSuper
  <2>6. pc = "down" /\ cur = 1 /\ old = 1 /\ seq = 0  BY DEF Init
  <2> QED  BY <1>1, <1>2, <2>1, <2>2, <2>3, <2>4, <2>5, <2>6 DEF RollInv, Points, Rolling
<1>5. /\ pc = "down" /\ mem = NoFiles /\ next = 1 /\ open = {} /\ gc = NoGC
      /\ op.kind = "none" /\ promise = [n \in Names |-> Unknown]
  BY DEF Init, NoOp
<1>6. MemInv
  <2>1. \A i : ~Creating(i)  BY <1>5 DEF Creating
  <2>2. \A n \in Names : mem.files[n] < next  BY SMT, <1>5, Empty DEF NoFile
  <2>3. gc = [pc |-> gc.pc, id |-> gc.id] /\ gc.pc = "idle" /\ gc.id = NoFile
    BY <1>5 DEF NoGC
  <2>4. Match(mem) /\ IsTable(mem)  BY <1>5, Empty DEF Match
  <2>5. next \in Nat \ {0} /\ open = {}  BY SMT, <1>5
  <2>6. \A i \in FileIds : mem.links[i] = {n \in Names : mem.files[n] = i}  BY <2>4 DEF Match
  <2> QED  BY <2>1, <2>2, <2>3, <2>4, <2>5, <2>6 DEF MemInv
<1>7. OpInv  BY <1>5 DEF OpInv, Kinds, NoGC
<1>8. Agree(1) /\ SnapInv  BY <1>5 DEF Agree, SnapInv
<1>9. PromiseInv(1)  BY <1>5 DEF PromiseInv, Promised, Unknown, Misled
<1> QED  BY <1>1, <1>3, <1>4, <1>6, <1>7, <1>8, <1>9 DEF LogInvAt, NameInv

\* A step that changes nothing.
LEMMA LogStutter ==
    ASSUME NEW z \in MetaZones, LogInvAt(z), UNCHANGED vars
    PROVE  LogInvAt(z)'
<1>1. /\ UNCHANGED <<device, next, open, deleted, roll, op, pc, promise>> /\ gc' = gc /\ mem' = mem
  BY DEF vars, files, told
<1>2. IsTable(mem)  BY DEF LogInvAt, MemInv
<1> QED  BY <1>1, <1>2, ExtentsStep

\* Every step of the file system keeps the invariant.
LEMMA LogStep == ResetsOnly /\ LogInv /\ [Next]_vars => LogInv'
<1> SUFFICES ASSUME ResetsOnly, NEW z \in MetaZones, LogInvAt(z), [Next]_vars
             PROVE  \E y \in MetaZones : LogInvAt(y)'
  BY DEF LogInv
<1>1. CASE Requests  BY <1>1, RequestStep
<1>2. CASE Persist  BY <1>2, PersistStep
<1>3. CASE Return /\ ~MountFailed  BY <1>3, ReturnStep
<1>4. CASE MountFailed
  <2>1. UNCHANGED <<device, promise>> /\ PowerDown  BY <1>4 DEF MountFailed, told
  <2> QED  BY <2>1, DownStep
<1>5. CASE GC  BY <1>5, MigrationStep
<1>6. CASE Mount  BY <1>6, MountStep
<1>7. CASE Crash
  <2>1. UNCHANGED <<device, promise>> /\ PowerDown  BY <1>7 DEF Crash, ResetsOnly, told
  <2> QED  BY <2>1, DownStep
<1>8. CASE UNCHANGED vars  BY <1>8, LogStutter
<1> QED  BY <1>1, <1>2, <1>3, <1>4, <1>5, <1>6, <1>7, <1>8 DEF Next

-----------------------------------------------------------------------------
(***************************************************************************)
(* The theorems.                                                           *)
(***************************************************************************)
\* One meta zone always has a complete log with the highest sequence number, and
\* that log has the names in memory up to the change in progress: PersistRecord,
\* RollMetaZoneLocked, the roll backs of failed operations and Mount keep this.
THEOREM LogKept == ResetsOnly => (Spec => []LogInv)
<1>1. ResetsOnly /\ LogInv /\ [Next]_vars => LogInv'  BY LogStep
<1>2. Init => LogInv  BY LogInit DEF LogInv
<1> SUFFICES ASSUME ResetsOnly PROVE Spec => []LogInv  OBVIOUS
<1>3. LogInv /\ [Next]_vars => LogInv'  BY <1>1
<1> QED  BY <1>2, <1>3, PTL DEF Spec

\* Whenever the machine stops, Mount finds a log that it can read to its end, for
\* any number of meta zones, names, files and crashes.
THEOREM AlwaysMountable == ResetsOnly => (Spec => []Mountable)
<1>1. LogInv => Mountable
  <2> SUFFICES ASSUME NEW z \in MetaZones, LogInvAt(z) PROVE MountSucceeds
    BY DEF LogInv, Mountable
  <2> QED  BY Leading DEF LogInvAt, RollInv
<1> SUFFICES ASSUME ResetsOnly PROVE Spec => []Mountable  OBVIOUS
<1>2. Spec => []LogInv  BY LogKept
<1> QED  BY <1>1, <1>2, PTL

\* A name that a caller has been told about is recovered as told after a crash at
\* any point of any later operation, until a caller changes that name.
THEOREM NamesDurable == ResetsOnly => (Spec => []NamesKept)
<1>1. LogInv => NamesKept
  <2> SUFFICES ASSUME NEW z \in MetaZones, LogInvAt(z), NEW n \in Names, Promised(n)
               PROVE  Recovered.files[n] = promise[n]
    BY DEF LogInv, NamesKept, Promised
  <2>1. Recovered = img[z].table  BY Leading DEF LogInvAt, RollInv
  <2> QED  BY <2>1 DEF LogInvAt, NameInv, PromiseInv
<1> SUFFICES ASSUME ResetsOnly PROVE Spec => []NamesKept  OBVIOUS
<1>2. Spec => []LogInv  BY LogKept
<1> QED  BY <1>1, <1>2, PTL

\* Between operations a file's link names are the names files_ has it under, for
\* any number of operations that were rolled back because no meta zone was left.
THEOREM LinksKept == ResetsOnly => (Spec => []LinksAgree)
<1>1. LogInv => LinksAgree
  <2> SUFFICES ASSUME NEW z \in MetaZones, LogInvAt(z), pc = "idle", NEW i \in FileIds
               PROVE  mem.links[i] = {n \in Names : mem.files[n] = i}
    BY DEF LogInv, LinksAgree
  <2>1. ~Creating(i)  BY DEF LogInvAt, OpInv, Creating
  <2> QED  BY <2>1 DEF LogInvAt, MemInv
<1> SUFFICES ASSUME ResetsOnly PROVE Spec => []LinksAgree  OBVIOUS
<1>2. Spec => []LogInv  BY LogKept
<1> QED  BY <1>1, <1>2, PTL

=============================================================================

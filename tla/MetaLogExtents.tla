--------------------------- MODULE MetaLogExtents ---------------------------
(***************************************************************************)
(* What a mount recovers has the extents that callers were told are        *)
(* stored, each once and in order, for a single thread; and on a device    *)
(* without faults the file system implements DurableFiles.                 *)
(***************************************************************************)
EXTENDS MetaLogProofs

\* A leaf is first-order reasoning unless it cites SMT.
USE Zenon

(***************************************************************************)
(* Lists of extents.                                                       *)
(***************************************************************************)
\* Appending to a list.
LEMMA AppendSeq ==
    ASSUME NEW S, NEW s \in Seq(S), NEW e \in S
    PROVE  /\ Append(s, e) \in Seq(S) /\ Len(Append(s, e)) = Len(s) + 1
           /\ \A k \in 1..Len(s) : Append(s, e)[k] = s[k]
           /\ Append(s, e)[Len(s) + 1] = e
  BY SMT

\* Joining two lists.
LEMMA ConcatSeq ==
    ASSUME NEW S, NEW s \in Seq(S), NEW r \in Seq(S)
    PROVE  /\ s \o r \in Seq(S) /\ Len(s \o r) = Len(s) + Len(r)
           /\ \A k \in 1..Len(s) : (s \o r)[k] = s[k]
           /\ \A k \in 1..Len(r) : (s \o r)[Len(s) + k] = r[k]
  BY SMT

\* The end of a list.
LEMMA SubSeqSeq ==
    ASSUME NEW S, NEW s \in Seq(S), NEW a \in Nat, a <= Len(s)
    PROVE  /\ SubSeq(s, a + 1, Len(s)) \in Seq(S)
           /\ Len(SubSeq(s, a + 1, Len(s))) = Len(s) - a
           /\ \A k \in 1..Len(s) - a : SubSeq(s, a + 1, Len(s))[k] = s[a + k]
  BY SMT

\* Lists with the same elements are equal.
LEMMA SameSeq ==
    ASSUME NEW S, NEW s \in Seq(S), NEW r \in Seq(S), Len(s) = Len(r),
           \A k \in 1..Len(s) : s[k] = r[k]
    PROVE  s = r
  BY SMT

\* The list of the first extents of a file.
LEMMA WrittenSeq ==
    ASSUME NEW m \in Nat
    PROVE  /\ Written(m) \in Seq([n : Nat, copy : {0}]) /\ Len(Written(m)) = m
           /\ \A k \in 1..m : Written(m)[k] = [n |-> k, copy |-> 0]
  BY SMT DEF Written

\* The empty list.
LEMMA WrittenNone == Written(0) = << >>
  <1>1. Written(0) \in Seq([n : Nat, copy : {0}]) /\ Len(Written(0)) = 0
    BY WrittenSeq
  <1> QED BY SMT, <1>1

\* One extent more, as AddExtent appends it.
LEMMA WrittenMore ==
    ASSUME NEW m \in Nat
    PROVE  Append(Written(m), [n |-> m + 1, copy |-> 0]) = Written(m + 1)
  <1>1. PICK S : S = [n : Nat, copy : {0}]  OBVIOUS
  <1>2. PICK s : s = Written(m)  OBVIOUS
  <1>3. PICK r : r = Written(m + 1)  OBVIOUS
  <1>4. PICK e : e = [n |-> m + 1, copy |-> 0]  OBVIOUS
  <1>5. /\ s \in Seq(S) /\ Len(s) = m /\ \A k \in 1..m : s[k] = [n |-> k, copy |-> 0]
    BY <1>1, <1>2, WrittenSeq
  <1>6. /\ r \in Seq(S) /\ Len(r) = m + 1 /\ \A k \in 1..m + 1 : r[k] = [n |-> k, copy |-> 0]
    <2>1. m + 1 \in Nat  BY SMT
    <2> QED BY <1>1, <1>3, <2>1, WrittenSeq
  <1>7. e \in S
    BY SMT, <1>1, <1>4
  <1>8. /\ Append(s, e) \in Seq(S) /\ Len(Append(s, e)) = m + 1
        /\ \A k \in 1..m : Append(s, e)[k] = s[k]
        /\ Append(s, e)[m + 1] = e
    BY SMT, <1>5, <1>7, AppendSeq
  <1>9. \A k \in 1..m + 1 : Append(s, e)[k] = r[k]
    BY SMT, <1>4, <1>5, <1>6, <1>8
  <1>10. Append(s, e) = r
    BY <1>6, <1>8, <1>9, SameSeq
  <1> QED BY <1>2, <1>3, <1>4, <1>10

\* The extents from nr_synced_extents_ on complete the ones before.
LEMMA WrittenOn ==
    ASSUME NEW m \in Nat, NEW a \in Nat, a <= m
    PROVE  Written(a) \o SubSeq(Written(m), a + 1, m) = Written(m)
  <1>1. PICK S : S = [n : Nat, copy : {0}]  OBVIOUS
  <1>2. PICK s : s = Written(a)  OBVIOUS
  <1>3. PICK w : w = Written(m)  OBVIOUS
  <1>4. PICK r : r = SubSeq(w, a + 1, m)  OBVIOUS
  <1>5. /\ s \in Seq(S) /\ Len(s) = a /\ \A k \in 1..a : s[k] = [n |-> k, copy |-> 0]
    BY <1>1, <1>2, WrittenSeq
  <1>6. /\ w \in Seq(S) /\ Len(w) = m /\ \A k \in 1..m : w[k] = [n |-> k, copy |-> 0]
    BY <1>1, <1>3, WrittenSeq
  <1>7. r \in Seq(S) /\ Len(r) = m - a /\ \A k \in 1..m - a : r[k] = w[a + k]
    BY SMT, <1>4, <1>6, SubSeqSeq
  <1>8. /\ s \o r \in Seq(S) /\ Len(s \o r) = m
        /\ \A k \in 1..a : (s \o r)[k] = s[k]
        /\ \A k \in 1..m - a : (s \o r)[a + k] = r[k]
    <2>1. /\ s \o r \in Seq(S) /\ Len(s \o r) = Len(s) + Len(r)
          /\ \A k \in 1..Len(s) : (s \o r)[k] = s[k]
          /\ \A k \in 1..Len(r) : (s \o r)[Len(s) + k] = r[k]
      <3>1. s \in Seq(S) /\ r \in Seq(S)
        BY <1>5, <1>7
      <3> QED BY SMT, <3>1, ConcatSeq
    <2> QED BY SMT, <1>5, <1>7, <2>1
  <1>9. ASSUME NEW k \in 1..m PROVE (s \o r)[k] = w[k]
    <2>1. CASE k <= a
      BY SMT, <1>5, <1>6, <1>8, <2>1
    <2>2. CASE ~(k <= a)
      <3>1. k - a \in 1..m - a /\ a + (k - a) = k
        BY SMT, <2>2
      <3>2. (s \o r)[a + (k - a)] = r[k - a] /\ r[k - a] = w[a + (k - a)]
        BY <1>7, <1>8, <3>1
      <3> QED BY <3>1, <3>2
    <2> QED BY <2>1, <2>2
  <1>10. s \o r = w
    BY <1>6, <1>8, <1>9, SameSeq
  <1> QED BY <1>2, <1>3, <1>4, <1>10

\* A list in order is determined by its length.
LEMMA ListIsWritten ==
    ASSUME NEW e \in WrittenLists
    PROVE  /\ Len(e) \in 0..MaxExtents /\ Len(e) \in Nat /\ e = Written(Len(e))
           /\ e = << >> <=> Len(e) = 0
           /\ DOMAIN e = 1..Len(e) /\ \A k \in DOMAIN e : e[k] = [n |-> k, copy |-> 0]
<1>1. PICK m \in 0..MaxExtents : e = Written(m)
  BY DEF WrittenLists
<1>2. m \in Nat
  BY SMT, MetaLogAssumption
<1>3. /\ e \in Seq([n : Nat, copy : {0}]) /\ Len(e) = m
      /\ \A k \in 1..m : e[k] = [n |-> k, copy |-> 0]
  BY <1>1, <1>2, WrittenSeq
<1>4. DOMAIN e = 1..m
  BY <1>1 DEF Written
<1>5. e = << >> <=> m = 0
  BY SMT, <1>3
<1> QED
  BY <1>1, <1>2, <1>3, <1>4, <1>5

\* So the extents behind the first ones complete a list.
LEMMA ListGoesOn ==
    ASSUME NEW e \in WrittenLists, NEW d \in WrittenLists, Len(d) <= Len(e)
    PROVE  d \o SubSeq(e, Len(d) + 1, Len(e)) = e
<1>1. Len(d) \in Nat /\ Len(e) \in Nat /\ d = Written(Len(d)) /\ e = Written(Len(e))
  BY ListIsWritten
<1>2. Written(Len(d)) \o SubSeq(Written(Len(e)), Len(d) + 1, Len(e)) = Written(Len(e))
  BY <1>1, WrittenOn
<1> QED
  BY <1>1, <1>2

\* A list from its first extent on.
LEMMA WholeList ==
    ASSUME NEW e \in WrittenLists
    PROVE  SubSeq(e, 0 + 1, Len(e)) = e
<1>1. PICK S : S = [n : Nat, copy : {0}]
  OBVIOUS
<1>2. e \in Seq(S) /\ Len(e) \in Nat
  BY <1>1, ListIsWritten, WrittenSeq
<1>3. /\ SubSeq(e, 0 + 1, Len(e)) \in Seq(S) /\ Len(SubSeq(e, 0 + 1, Len(e))) = Len(e) - 0
      /\ \A k \in 1..Len(e) - 0 : SubSeq(e, 0 + 1, Len(e))[k] = e[0 + k]
  BY SMT, <1>2, SubSeqSeq
<1>4. \A k \in 1..Len(e) : SubSeq(e, 0 + 1, Len(e))[k] = e[k]
  BY SMT, <1>2, <1>3
<1> QED
  BY SMT, <1>2, <1>3, <1>4, SameSeq

\* The empty list is in order, and AddExtent keeps a list in order.
LEMMA EmptyList == << >> \in WrittenLists /\ Len(<< >>) = 0
<1>1. 0 \in 0..MaxExtents
  BY SMT, MetaLogAssumption
<1>2. Written(0) = << >>
  BY WrittenNone
<1> QED
  BY <1>1, <1>2 DEF WrittenLists

\* A list that AddExtent has appended to.
LEMMA ListGrows ==
    ASSUME NEW e \in WrittenLists, Len(e) < MaxExtents,
           NEW d, d = Append(e, [n |-> Len(e) + 1, copy |-> 0])
    PROVE  d \in WrittenLists /\ Len(d) = Len(e) + 1
<1>1. Len(e) \in Nat /\ e = Written(Len(e)) /\ Len(e) + 1 \in 0..MaxExtents
  BY SMT, ListIsWritten, MetaLogAssumption
<1>2. d = Written(Len(e) + 1)
  BY <1>1, WrittenMore
<1>3. Len(Written(Len(e) + 1)) = Len(e) + 1
  BY SMT, <1>1, WrittenSeq
<1> QED
  BY <1>1, <1>2, <1>3 DEF WrittenLists

-----------------------------------------------------------------------------
(***************************************************************************)
(* What changes of names, and the records of a log, do to extent lists.    *)
(***************************************************************************)
\* Changes of names leave extents alone.
LEMMA NamingKeepsExtents ==
    ASSUME NEW t, IsTable(t), NEW n \in Names, NEW m \in Names, NEW i \in FileIds
    PROVE  /\ RemoveLinkName(t, i, n).exts = t.exts
           /\ AddLinkName(t, i, n).exts = t.exts
           /\ RenameLink(t, i, m, n).exts = t.exts
           /\ \A N \in SUBSET Names : SetLinks(t, i, N).exts = t.exts
           /\ \A j \in FileIds : SetFile(t, n, j).exts = t.exts
<1>1. \A u, N : IsTable(u) => SetLinks(u, i, N).exts = u.exts
  BY DEF SetLinks, IsTable
<1>2. \A u, k, j : IsTable(u) => SetFile(u, k, j).exts = u.exts
  BY DEF SetFile, IsTable
<1>3. \A k \in Names, j \in FileIds \cup {NoFile} : IsTable(SetFile(t, k, j))
  BY SetFileTable
<1>4. IsTable(SetFile(SetFile(t, m, NoFile), n, i))
  <2>1. PICK u : u = SetFile(t, m, NoFile)  OBVIOUS
  <2>2. IsTable(u)  BY <1>3, <2>1
  <2> QED  BY <2>1, <2>2, SetFileTable
<1>5. RemoveLinkName(t, i, n).exts = t.exts /\ AddLinkName(t, i, n).exts = t.exts
  BY SMT, <1>1, <1>2, <1>3 DEF RemoveLinkName, AddLinkName
<1>6. RenameLink(t, i, m, n).exts = t.exts
  <2>1. PICK u : u = SetFile(t, m, NoFile)  OBVIOUS
  <2>2. IsTable(u) /\ u.exts = t.exts  BY <1>2, <1>3, <2>1
  <2>3. PICK v : v = SetFile(u, n, i)  OBVIOUS
  <2>4. IsTable(v) /\ v.exts = t.exts  BY <1>2, <1>4, <2>1, <2>2, <2>3
  <2> QED  BY <1>1, <2>1, <2>3, <2>4 DEF RenameLink
<1> QED  BY SMT, <1>1, <1>2, <1>5, <1>6

\* A file without a name loses its extents.
LEMMA DropExtents ==
    ASSUME NEW t, IsTable(t), NEW i \in FileIds
    PROVE  /\ i \in Alive(t) => Drop(t, i).exts = t.exts
           /\ i \notin Alive(t) => Drop(t, i).exts = [t.exts EXCEPT ![i] = << >>]
<1>1. CASE i \in Alive(t)  BY <1>1 DEF Drop
<1>2. CASE i \notin Alive(t)
  <2>1. PICK u : u = SetLinks(t, i, {})  OBVIOUS
  <2>2. IsTable(u) /\ u.exts = t.exts  BY <2>1, SetLinksTable DEF SetLinks, IsTable
  <2>3. Drop(t, i) = SetExts(u, i, << >>)  BY <1>2, <2>1 DEF Drop
  <2>4. SetExts(u, i, << >>).exts = [u.exts EXCEPT ![i] = << >>]
    BY <2>2 DEF SetExts, IsTable
  <2> QED  BY <1>2, <2>2, <2>3, <2>4
<1> QED  BY <1>1, <1>2

\* A deletion record leaves the lists of the files that still have names.
LEMMA DeletionExtents ==
    ASSUME NEW m, Sound(m), m.state = "ok", ~m.ended,
           NEW r, r.tag = "deletion", r.id \in FileIds, r.name \in Names,
           m.table.files[r.name] = r.id
    PROVE  /\ Replay(m, r).next = m.next
           /\ \/ Replay(m, r).table.exts = m.table.exts
              \/ /\ r.id \notin Alive(Replay(m, r).table)
                 /\ Replay(m, r).table.exts = [m.table.exts EXCEPT ![r.id] = << >>]
<1>1. PICK u : u = RemoveLinkName(m.table, r.id, r.name)  OBVIOUS
<1>2. PICK d : d = Drop(u, r.id)  OBVIOUS
<1>3. Match(m.table) /\ IsTable(m.table)  BY DEF Sound, Match
<1>4. IsTable(u) /\ u.exts = m.table.exts
  <2>1. Match(u)  BY <1>1, <1>3, Unname
  <2> QED  BY SMT, <1>1, <1>3, <2>1, NamingKeepsExtents DEF Match
<1>5. d.files = u.files /\ (r.id \in Alive(d) <=> r.id \in Alive(u))
  <2>1. d.files = u.files  BY <1>2, <1>4, DropTable
  <2> QED  BY <2>1 DEF Alive
<1>6. \/ d.exts = m.table.exts
      \/ r.id \notin Alive(d) /\ d.exts = [m.table.exts EXCEPT ![r.id] = << >>]
  BY SMT, <1>2, <1>4, <1>5, DropExtents
<1>7. Replay(m, r).table = d /\ Replay(m, r).next = m.next
  <2>1. Replay(m, r) = DecodeFileDeletionFrom(m, r)  BY DEF Replay
  <2>2. DecodeFileDeletionFrom(m, r) = [m EXCEPT !.table = d]
    BY <1>1, <1>2 DEF DecodeFileDeletionFrom
  <2> QED  BY <2>1, <2>2 DEF Sound, IsImage
<1> QED  BY <1>6, <1>7

\* An update record goes on with the list of a file that is known.
LEMMA UpdateExtents ==
    ASSUME NEW m, Sound(m), m.state = "ok", ~m.ended,
           NEW r, r.tag = "update", r.id \in FileIds, Replay(m, r).state = "ok"
    PROVE  /\ Replay(m, r).next = IF r.id >= m.next THEN r.id + 1 ELSE m.next
           /\ Replay(m, r).table.exts =
                [m.table.exts EXCEPT ![r.id] = IF r.id \in Alive(m.table)
                                               THEN m.table.exts[r.id] \o r.exts ELSE r.exts]
<1> DEFINE t     == m.table
           known == r.id \in Alive(t)
           under == IF known THEN r.links ELSE {CHOOSE n \in r.links : TRUE}
           freed == [n \in Names |-> IF known /\ n \in t.links[r.id] THEN NoFile ELSE t.files[n]]
           fs    == [n \in Names |-> IF n \in under /\ freed[n] = NoFile THEN r.id ELSE freed[n]]
           ls    == [t.links EXCEPT ![r.id] = r.links]
           es    == [t.exts EXCEPT ![r.id] = IF known /\ r.tag = "update"
                                             THEN t.exts[r.id] \o r.exts ELSE r.exts]
           u     == [files |-> fs, links |-> ls, exts |-> es]
           nx    == IF r.id >= m.next THEN r.id + 1 ELSE m.next
           bad   == known /\ \E n \in t.links[r.id] : t.files[n] = NoFile
<1>1. Replay(m, r) = DecodeFileUpdateFrom(m, r)  BY DEF Replay
<1>2. m = [state |-> "ok", ended |-> m.ended, table |-> m.table, next |-> m.next]
  BY DEF Sound, IsImage
<1>3. ~bad
  <2> SUFFICES ASSUME bad PROVE FALSE  OBVIOUS
  <2>1. DecodeFileUpdateFrom(m, r) = [m EXCEPT !.state = "corrupt"]
    BY DEF DecodeFileUpdateFrom
  <2>2. [m EXCEPT !.state = "corrupt"].state = "corrupt"
    <3> HIDE DEF bad
    <3> QED  BY <1>2
  <2> QED  BY <1>1, <2>1, <2>2
<1>4. DecodeFileUpdateFrom(m, r) = [m EXCEPT !.table = u, !.next = nx]
  BY <1>3 DEF DecodeFileUpdateFrom
<1>5. Replay(m, r).table = u /\ Replay(m, r).next = nx
  <2> DEFINE v == [m EXCEPT !.table = u]
  <2>1. v = [state |-> "ok", ended |-> m.ended, table |-> u, next |-> m.next]
    <3> HIDE DEF u
    <3> QED  BY SMT, <1>2
  <2>2. [v EXCEPT !.next = nx] = [state |-> "ok", ended |-> m.ended, table |-> u, next |-> nx]
    <3> HIDE DEF u, nx, v
    <3> QED  BY SMT, <2>1
  <2>3. [m EXCEPT !.table = u, !.next = nx] = [v EXCEPT !.next = nx]
    <3> HIDE DEF u, nx
    <3> QED  OBVIOUS
  <2> HIDE DEF u, nx, v
  <2> QED  BY SMT, <1>1, <1>4, <2>2, <2>3
<1>6. u.exts = es
  <2> HIDE DEF fs, ls, es
  <2> QED  OBVIOUS
<1> HIDE DEF u, nx
<1>7. Replay(m, r).table.exts = es  BY <1>5, <1>6
<1> QED  BY <1>5, <1>7 DEF nx

-----------------------------------------------------------------------------
(***************************************************************************)
(* PersistRecord and RollMetaZoneLocked keep ExtInv.                       *)
(***************************************************************************)
\* The theorems about extents are about one thread that changes metadata.
SingleThread == ~ManyThreads /\ ~GCEnabled

extending == <<mem, next, open, op, gc, stable>>

\* Files of a log are files.
LEMMA AliveInLog ==
    ASSUME NEW z \in MetaZones, Sound(img[z])
    PROVE  \A i \in Alive(img[z].table) : i \in FileIds /\ i < img[z].next
  BY SMT DEF Sound, Match, IsTable, Alive

\* While the log stays, so does what it has of each file.
LEMMA ExtentsStay ==
    ASSUME NEW z \in MetaZones, ExtInvAt(z), UNCHANGED extending, UNCHANGED synced, Stays(z),
           IsTable(mem)
    PROVE  ExtInvAt(z)'
<1>1. /\ mem' = mem /\ next' = next /\ open' = open /\ op' = op /\ gc' = gc /\ stable' = stable
      /\ synced' = synced /\ img'[z].table = img[z].table /\ img'[z].next = img[z].next
  BY DEF extending, Stays
<1>2. pc # "down" /\ (pc' \in Post <=> pc \in Post) /\ (pc' \in Pre => pc \in Pre)
  BY DEF Stays, Pre, Post, Rolling
<1>3. ASSUME NEW i \in FileIds PROVE LoggedExtents(z, i)' /\ SyncedExtents(z, i)'
  <2>1. LoggedExtents(z, i) /\ SyncedExtents(z, i)
    BY <1>2 DEF ExtInvAt
  <2>2. LoggedExtents(z, i)'
    BY <1>1, <2>1 DEF LoggedExtents
  <2>3. Updating(i)' = Updating(i) /\ Creating(i)' = Creating(i) /\ Starting(z, i)' = Starting(z, i)
    BY <1>1 DEF Updating, Creating, Starting
  <2> QED
    BY <1>1, <1>2, <2>1, <2>2, <2>3 DEF SyncedExtents
<1>4. pc' = "snapshot" => snap' = Snapshot(mem)
  BY DEF Stays
<1> QED
  BY <1>1, <1>3, <1>4 DEF ExtInvAt

\* The record of an operation brings the log up to the extents in memory.
LEMMA ExtentsGrow ==
    ASSUME NEW z \in MetaZones, LogInvAt(z), ExtInvAt(z), UNCHANGED extending, UNCHANGED synced,
           Grows(z), Sound(img'[z])
    PROVE  ExtInvAt(z)'
<1> DEFINE t == img[z].table
<1>0. /\ NameInv(z) /\ MemInv /\ OpInv /\ Sound(img[z]) /\ Match(t)
      /\ \A i \in FileIds : LoggedExtents(z, i) /\ SyncedExtents(z, i)
      /\ mem.exts \in [FileIds -> WrittenLists] /\ stable \in [FileIds -> WrittenLists]
      /\ t.exts \in [FileIds -> WrittenLists] /\ synced \in [FileIds -> Nat] /\ gc = NoGC
  BY DEF LogInvAt, NameInv, Sound, ExtInvAt, Grows
<1>1. /\ mem' = mem /\ next' = next /\ open' = open /\ op' = op /\ gc' = gc /\ stable' = stable
      /\ synced' = synced /\ pc = "persist" /\ pc' = "ok" /\ img'[z] = Replay(img[z], op.rec)
      /\ img[z].state = "ok" /\ ~img[z].ended
  BY DEF extending, Grows
<1>2. /\ op.kind \in Kinds \ {"mount", "replace"} /\ op.rec.id = op.id /\ op.id \in FileIds
      /\ op.id < next
  BY <1>0, <1>1 DEF OpInv, Kinds, NoGC
<1>7. op.id \in Nat /\ op.id # NoFile /\ img[z].next \in Nat /\ next \in Nat
  <2>1. op.id \in Nat /\ op.id # NoFile  BY SMT, <1>2 DEF FileIds, NoFile
  <2> QED  BY <1>0, <2>1 DEF Sound, MemInv
<1>3. /\ Replay(img[z], op.rec).state = "ok"
      /\ op.kind = "delete" => img'[z].table.files = [t.files EXCEPT ![op.name] = NoFile]
      /\ op.kind # "delete" =>
           img'[z].table.files =
             [n \in Names |-> IF n \in op.rec.links THEN op.id
                              ELSE IF t.files[n] = op.id THEN NoFile ELSE t.files[n]]
      /\ op.kind # "delete" => \A n \in op.rec.links : t.files[n] \in {NoFile, op.id}
      /\ op.kind \in {"rename", "link"} => op.id \in Alive(t)
  BY <1>0, <1>1, RecordFits
<1>4. \A i \in FileIds \ {op.id} : i \in Alive(img'[z].table) => i \in Alive(t)
  <2> SUFFICES ASSUME NEW i \in FileIds \ {op.id}, NEW n \in Names, img'[z].table.files[n] = i
               PROVE  t.files[n] = i /\ i # NoFile
    BY DEF Alive
  <2>1. i # NoFile  BY SMT DEF FileIds, NoFile
  <2>2. CASE op.kind = "delete"
    BY <1>0, <1>3, <2>1, <2>2 DEF Match, IsTable
  <2>3. CASE op.kind # "delete"
    BY <1>3, <2>1, <2>3
  <2> QED  BY <2>1, <2>2, <2>3
<1>5. CASE op.kind = "delete"
  <2>0. /\ op.rec.tag = "deletion" /\ op.rec.name = op.name /\ op.name \in Names
        /\ t.files[op.name] = op.id
    BY <1>0, <1>1, <1>5 DEF OpInv, NameInv, Agree, Pre
  <2>1. /\ img'[z].next = img[z].next
        /\ \/ img'[z].table.exts = t.exts
           \/ /\ op.id \notin Alive(img'[z].table)
              /\ img'[z].table.exts = [t.exts EXCEPT ![op.id] = << >>]
    <3>1. PICK r : r = op.rec  OBVIOUS
    <3>2. PICK m : m = img[z]  OBVIOUS
    <3>3. /\ Sound(m) /\ m.state = "ok" /\ ~m.ended /\ r.tag = "deletion" /\ r.id \in FileIds
          /\ r.name \in Names /\ m.table.files[r.name] = r.id
      BY <1>0, <1>1, <1>2, <2>0, <3>1, <3>2
    <3>4. /\ Replay(m, r).next = m.next
          /\ \/ Replay(m, r).table.exts = m.table.exts
             \/ /\ r.id \notin Alive(Replay(m, r).table)
                /\ Replay(m, r).table.exts = [m.table.exts EXCEPT ![r.id] = << >>]
      BY <3>3, DeletionExtents
    <3> QED
      BY <1>1, <1>2, <3>1, <3>2, <3>4
  <2>2. op.id \in Alive(t)
    <3>1. op.id # NoFile  BY SMT, <1>2 DEF FileIds, NoFile
    <3> QED  BY <1>2, <2>0, <3>1 DEF Alive
  <2>3. img'[z].table.exts \in [FileIds -> WrittenLists]
    BY <1>0, <2>1, EmptyList
  <2>4. ASSUME NEW i \in FileIds PROVE LoggedExtents(z, i)' /\ SyncedExtents(z, i)'
    <3>1. ~Updating(i) /\ ~Updating(i)' /\ ~Creating(i) /\ ~Creating(i)'
      BY <1>1, <1>5 DEF Updating, Creating
    <3>2. i \in Alive(img'[z].table) => i \in Alive(t) /\ img'[z].table.exts[i] = t.exts[i]
      <4>1. CASE i = op.id  BY <2>1, <2>2, <4>1
      <4>2. CASE i # op.id  BY <1>0, <1>4, <2>1, <4>2
      <4> QED  BY <4>1, <4>2
    <3>3. img'[z].table.exts[i] = t.exts[i] \/ img'[z].table.exts[i] = << >>
      BY <1>0, <2>1
    <3>4. LoggedExtents(z, i)'
      BY <1>0, <1>1, <2>1, <3>2, <3>3 DEF LoggedExtents
    <3>5. i \in open => i # op.id
      BY <1>0, <1>5 DEF OpInv
    <3>6. i \in Alive(t) /\ i # op.id => i \in Alive(img'[z].table)
      <4> SUFFICES ASSUME NEW n \in Names, t.files[n] = i, i # op.id
                   PROVE  img'[z].table.files[n] = i
        BY DEF Alive, FileIds, NoFile
      <4>1. t.files[op.name] = op.id
        BY <1>0, <1>1, <1>5 DEF NameInv, Agree, Pre
      <4>2. n # op.name
        BY <4>1
      <4> QED
        BY <1>0, <1>3, <1>5, <4>2 DEF Match, IsTable
    <3>7. Starting(z, i)' => Starting(z, i)
      BY <1>1, <3>1, <3>5, <3>6 DEF Starting
    <3> QED
      BY <1>0, <1>1, <3>1, <3>2, <3>4, <3>7 DEF SyncedExtents, Post, Pre, Rolling
  <2> QED
    BY <1>0, <1>1, <2>3, <2>4 DEF ExtInvAt
<1>6. CASE op.kind # "delete"
  <2>0. op.rec.tag = "update" /\ Updating(op.id)
    BY <1>0, <1>2, <1>6 DEF OpInv, Updating, Kinds
  <2>1. /\ img'[z].next = IF op.id >= img[z].next THEN op.id + 1 ELSE img[z].next
        /\ img'[z].table.exts =
             [t.exts EXCEPT ![op.id] = IF op.id \in Alive(t) THEN t.exts[op.id] \o op.rec.exts
                                       ELSE op.rec.exts]
    <3>1. PICK r : r = op.rec  OBVIOUS
    <3>2. PICK m : m = img[z]  OBVIOUS
    <3>3. /\ Sound(m) /\ m.state = "ok" /\ ~m.ended /\ r.tag = "update" /\ r.id \in FileIds
          /\ Replay(m, r).state = "ok"
      BY <1>0, <1>1, <1>2, <1>3, <2>0, <3>1, <3>2
    <3>4. /\ Replay(m, r).next = IF r.id >= m.next THEN r.id + 1 ELSE m.next
          /\ Replay(m, r).table.exts =
               [m.table.exts EXCEPT ![r.id] = IF r.id \in Alive(m.table)
                                              THEN m.table.exts[r.id] \o r.exts ELSE r.exts]
      BY <3>3, UpdateExtents
    <3> QED
      BY <1>1, <1>2, <3>1, <3>2, <3>4
  <2>2. PICK e : e = mem.exts[op.id]  OBVIOUS
  <2>3. e \in WrittenLists /\ synced[op.id] \in Nat /\ synced[op.id] <= Len(e)
    BY <1>0, <1>2, <2>2 DEF SyncedExtents
  <2>4. op.rec.exts = SubSeq(e, synced[op.id] + 1, Len(e))
    BY <1>0, <1>1, <1>2, <2>0, <2>2 DEF SyncedExtents, Pre
  <2>5. op.id \notin Alive(t) => Starting(z, op.id) /\ op.kind # "mount"
    <3>1. op.id \notin Alive(t) => op.kind \in {"create", "fsync", "close"}
      BY <1>2, <1>3, <1>6 DEF Kinds
    <3> QED
      BY <1>0, <3>1 DEF Starting, Creating, OpInv
  <2>6. img'[z].table.exts[op.id] = e
    <3>1. CASE op.id \in Alive(t)
      <4>1. PICK d : d = t.exts[op.id]  OBVIOUS
      <4>2. d \in WrittenLists  BY <1>0, <1>2, <4>1
      <4>3. Len(d) = synced[op.id]
        BY <1>0, <1>1, <1>2, <3>1, <4>1 DEF SyncedExtents, Post
      <4>4. d \o SubSeq(e, Len(d) + 1, Len(e)) = e
        BY <2>3, <4>2, <4>3, ListGoesOn
      <4> QED
        <5>1. img'[z].table.exts[op.id] = d \o op.rec.exts
          BY <1>0, <1>2, <2>1, <3>1, <4>1
        <5>2. op.rec.exts = SubSeq(e, Len(d) + 1, Len(e))
          BY <2>4, <4>3
        <5> QED
          BY <4>4, <5>1, <5>2
    <3>2. CASE op.id \notin Alive(t)
      <4>2. synced[op.id] = 0
        BY <1>0, <1>2, <2>5, <3>2 DEF SyncedExtents
      <4>3. op.rec.exts = e
        BY <2>3, <2>4, <4>2, WholeList
      <4> QED
        BY <1>0, <1>2, <2>1, <3>2, <4>3
    <3> QED
      BY <3>1, <3>2
  <2>7. \A i \in FileIds \ {op.id} : img'[z].table.exts[i] = t.exts[i]
    BY <1>0, <2>1
  <2>8. img'[z].table.exts \in [FileIds -> WrittenLists]
    <3>1. DOMAIN img'[z].table.exts = FileIds
      BY <1>0, <2>1
    <3>2. img'[z].table.exts = [i \in FileIds |-> img'[z].table.exts[i]]
      BY <1>0, <2>1
    <3>3. \A i \in FileIds : img'[z].table.exts[i] \in WrittenLists
      BY <1>0, <2>3, <2>6, <2>7
    <3> QED
      BY <3>2, <3>3
  <2>9. op.id \in Alive(t) => Len(stable[op.id]) <= Len(e)
    <3> SUFFICES ASSUME op.id \in Alive(t) PROVE Len(stable[op.id]) <= Len(e)
      OBVIOUS
    <3>1. Len(stable[op.id]) <= Len(t.exts[op.id])
      BY <1>0, <1>2 DEF LoggedExtents
    <3>2. Len(t.exts[op.id]) = synced[op.id]
      BY <1>0, <1>1, <1>2 DEF SyncedExtents, Post
    <3>3. Len(stable[op.id]) \in Nat /\ Len(e) \in Nat
      BY <1>0, <1>2, <2>3, ListIsWritten
    <3> QED
      BY SMT, <2>3, <3>1, <3>2, <3>3
  <2>10. op.id \notin Alive(t) => Len(stable[op.id]) <= Len(e)
    <3> SUFFICES ASSUME op.id \notin Alive(t) PROVE Len(stable[op.id]) <= Len(e)
      OBVIOUS
    <3>2. stable[op.id] = << >>
      BY <1>0, <1>2, <2>5 DEF SyncedExtents
    <3>3. Len(e) \in Nat
      BY <2>3, ListIsWritten
    <3> QED
      BY SMT, <3>2, <3>3, EmptyList
  <2>11. ASSUME NEW i \in FileIds PROVE LoggedExtents(z, i)' /\ SyncedExtents(z, i)'
    <3>1. CASE i = op.id
      <4>1. ~(op.id >= img'[z].next)
        BY SMT, <1>7, <2>1
      <4>5. Len(stable[op.id]) <= Len(e)
        BY <2>9, <2>10
      <4>2. LoggedExtents(z, i)'
        BY <1>1, <2>6, <3>1, <4>1, <4>5 DEF LoggedExtents
      <4>3. Starting(z, i)' => Starting(z, i)
        <5> SUFFICES ASSUME Starting(z, i)', op.kind # "create" PROVE FALSE
          BY <1>1, <3>1 DEF Starting, Creating
        <5>1. op.kind \in {"fsync", "close", "rename", "link"}
          BY <1>2, <1>6 DEF Kinds
        <5>2. \E n \in Names : mem.files[n] = op.id
          BY <1>0, <5>1 DEF OpInv, MemInv
        <5>3. op.rec.links = {n \in Names : mem.files[n] = op.id}
          BY <1>0, <1>2, <5>1 DEF OpInv, MemInv, Creating
        <5>4. op.id \in Alive(img'[z].table)
          BY <1>3, <1>6, <1>7, <5>2, <5>3 DEF Alive
        <5>5. ~(op.id >= next)
          BY SMT, <1>2, <1>7
        <5> QED
          BY <1>1, <3>1, <5>1, <5>4, <5>5 DEF Starting, Creating
      <4>4. Updating(i)' /\ pc' \in Post /\ pc' \notin Pre
        BY <1>1, <2>0, <3>1 DEF Updating, Post, Pre, Rolling
      <4> QED
        BY <1>0, <1>1, <2>2, <2>6, <3>1, <4>2, <4>3, <4>4 DEF SyncedExtents, Creating
    <3>2. CASE i # op.id
      <4>1. img'[z].next >= img[z].next
        BY SMT, <1>7, <2>1
      <4>2. i >= img'[z].next => i >= img[z].next
        <5>1. i \in Nat  BY SMT DEF FileIds
        <5> QED  BY SMT, <1>7, <2>1, <4>1, <5>1
      <4>3. i \in Alive(img'[z].table) => i \in Alive(t)
        BY <1>4, <3>2
      <4>4. LoggedExtents(z, i)'
        BY <1>0, <1>1, <2>7, <3>2, <4>2, <4>3 DEF LoggedExtents
      <4>5. i \in Alive(t) => i \in Alive(img'[z].table)
        <5> SUFFICES ASSUME NEW n \in Names, t.files[n] = i PROVE img'[z].table.files[n] = i
          BY DEF Alive, FileIds, NoFile
        <5>1. n \notin op.rec.links
          <6>1. i # NoFile  BY SMT DEF FileIds, NoFile
          <6> QED  BY <1>3, <1>6, <3>2, <6>1
        <5> QED
          BY <1>3, <1>6, <3>2, <5>1
      <4>6. Starting(z, i)' => Starting(z, i)
        BY <1>1, <4>5 DEF Starting, Creating
      <4>7. ~Updating(i) /\ ~Updating(i)' /\ ~Creating(i) /\ ~Creating(i)'
        BY <1>1, <3>2 DEF Updating, Creating
      <4> QED
        BY <1>0, <1>1, <2>7, <3>2, <4>3, <4>4, <4>6, <4>7 DEF SyncedExtents, Post, Pre, Rolling
    <3> QED
      BY <3>1, <3>2
  <2> QED
    BY <1>0, <1>1, <2>8, <2>11 DEF ExtInvAt
<1> QED
  BY <1>5, <1>6

\* While the log is not up to the operation in progress, what memory has a name
\* for is in the log, or is open and was never synced.
LEMMA AliveInMemory ==
    ASSUME NEW z \in MetaZones, LogInvAt(z), pc \in Pre, NEW i \in Alive(mem)
    PROVE  \/ i \in Alive(img[z].table)
           \/ i \in open /\ op.kind # "mount"
<1> DEFINE f == img[z].table.files
<1>0. NameInv(z) /\ MemInv /\ OpInv /\ Agree(z) /\ pc # "down" /\ pc \notin Post
  BY DEF LogInvAt, NameInv, Pre, Post, Rolling
<1>1. PICK n \in Names : mem.files[n] = i /\ i # NoFile
  BY DEF Alive
<1>2. op.kind = "mount" => open = {}
  BY <1>0 DEF OpInv
<1>3. \A k \in Names : mem.files[k] = i /\ ~Changing(k) => f[k] = i \/ i \in open
  BY <1>0 DEF Agree, MayMiss
<1>4. CASE ~Changing(n)
  BY <1>1, <1>2, <1>3, <1>4 DEF Alive
<1>5. CASE Changing(n)
  <2>1. op.kind \in {"rename", "link"} /\ n = op.name /\ op.id = i
    BY <1>0, <1>1, <1>5 DEF Changing, OpInv
  <2>2. CASE op.kind = "rename"
    <3>1. op.from \in Names /\ f[op.from] = i
      BY <1>0, <2>1, <2>2 DEF OpInv, Agree
    <3> QED
      BY <1>1, <3>1 DEF Alive
  <2>3. CASE op.kind = "link"
    <3>1. PICK k \in Names \ {op.name} : mem.files[k] = i
      BY <1>0, <2>1, <2>3 DEF OpInv
    <3>2. ~Changing(k) /\ i \notin open
      BY <1>0, <2>1, <2>3, <3>1 DEF Changing, OpInv
    <3> QED
      BY <1>1, <1>3, <3>1, <3>2 DEF Alive
  <2> QED
    BY <2>1, <2>2, <2>3
<1> QED
  BY <1>4, <1>5

\* The snapshot of a roll has all extents in memory, and marks them as synced.
LEMMA ExtentsRolled ==
    ASSUME NEW z \in MetaZones, NEW y \in MetaZones, LogInvAt(z), ExtInvAt(z), GivesWay(y),
           LogInvAt(y)'
    PROVE  ExtInvAt(y)'
<1> DEFINE t == img[z].table
           u == img'[y].table
<1>0. /\ MemInv /\ OpInv /\ SnapInv /\ Sound(img'[y]) /\ IsTable(mem)
      /\ \A i \in FileIds : LoggedExtents(z, i) /\ SyncedExtents(z, i)
      /\ mem.exts \in [FileIds -> WrittenLists] /\ stable \in [FileIds -> WrittenLists]
      /\ t.exts \in [FileIds -> WrittenLists] /\ synced \in [FileIds -> Nat] /\ gc = NoGC
      /\ snap = Snapshot(mem)
  BY DEF LogInvAt, NameInv, ExtInvAt, GivesWay, MemInv
<1>1. /\ mem' = mem /\ next' = next /\ open' = open /\ op' = op /\ gc' = gc /\ stable' = stable
      /\ pc = "snapshot" /\ pc' = "reset"
      /\ synced' = [i \in FileIds |-> IF i \in Alive(mem) THEN Len(mem.exts[i]) ELSE synced[i]]
  BY DEF GivesWay, WriteSnapshot, told
<1>2. pc \in Pre /\ pc \notin Post /\ pc' \in Post /\ pc' \notin Pre /\ pc' # "snapshot"
  BY <1>1 DEF Pre, Post, Rolling
<1>3. u = snap.table
  BY <1>0 DEF GivesWay, Replay, DecodeSnapshotFrom, Blank, Snapshot
<1>4. /\ u.files = mem.files /\ Alive(u) = Alive(mem)
      /\ u.exts = [i \in FileIds |-> IF i \in Alive(mem) THEN mem.exts[i] ELSE << >>]
  <2>1. u.files = mem.files
    BY SMT, <1>0, <1>3 DEF Snapshot
  <2>2. Alive(u) = Alive(mem)
    BY <2>1 DEF Alive
  <2>3. u.exts = [i \in FileIds |-> IF i \in Alive(mem) THEN mem.exts[i] ELSE << >>]
    BY SMT, <1>0, <1>3 DEF Snapshot
  <2> QED
    BY <2>1, <2>2, <2>3
<1>5. u.exts \in [FileIds -> WrittenLists] /\ synced' \in [FileIds -> Nat]
  <2>1. ASSUME NEW i \in FileIds PROVE mem.exts[i] \in WrittenLists /\ Len(mem.exts[i]) \in Nat
    BY <1>0, ListIsWritten
  <2>2. << >> \in WrittenLists
    BY EmptyList
  <2> QED
    BY <1>0, <1>1, <1>4, <2>1, <2>2
<1> HIDE DEF u
<1>6. ASSUME NEW i \in FileIds PROVE LoggedExtents(y, i)' /\ SyncedExtents(y, i)'
  <2>0. PICK e : e = mem.exts[i]  OBVIOUS
  <2>1. /\ LoggedExtents(z, i) /\ SyncedExtents(z, i) /\ e \in WrittenLists /\ Len(e) \in Nat
        /\ synced[i] \in Nat /\ stable[i] \in WrittenLists /\ t.exts[i] \in WrittenLists
    BY <1>0, <2>0, ListIsWritten
  <2>2. i >= img'[y].next => i \notin Alive(u)
    <3> SUFFICES ASSUME i >= img'[y].next, NEW n \in Names, u.files[n] = i PROVE FALSE
      BY DEF Alive
    <3>1. u.files[n] < img'[y].next /\ img'[y].next \in Nat /\ i \in Nat
      BY SMT, <1>0 DEF Sound, u, FileIds
    <3> QED
      BY SMT, <3>1
  <2>3. i \in Alive(u) => Len(stable[i]) <= Len(e)
    <3> SUFFICES ASSUME i \in Alive(u) PROVE Len(stable[i]) <= Len(e)
      OBVIOUS
    <3>1. CASE i \in Alive(t)
      <4>1. Len(stable[i]) <= Len(t.exts[i]) /\ Len(t.exts[i]) = synced[i] /\ synced[i] <= Len(e)
        BY <1>2, <2>0, <2>1, <3>1 DEF LoggedExtents, SyncedExtents
      <4>2. Len(stable[i]) \in Nat
        BY <2>1, ListIsWritten
      <4> QED
        BY SMT, <2>1, <4>1, <4>2
    <3>2. CASE i \notin Alive(t)
      <4>1. i \in open /\ op.kind # "mount"
        BY <1>2, <1>4, <3>2, AliveInMemory
      <4>2. stable[i] = << >>
        BY <2>1, <3>2, <4>1 DEF SyncedExtents, Starting
      <4> QED
        BY SMT, <2>1, <4>2, EmptyList
    <3> QED
      BY <3>1, <3>2
  <2>4. i \in Alive(u) => u.exts[i] = e
    BY <1>4, <2>0
  <2>5. LoggedExtents(y, i)'
    <3>1. i >= img'[y].next => u.exts[i] = << >>
      BY <1>4, <2>2
    <3> QED
      BY <1>1, <2>3, <2>4, <3>1 DEF LoggedExtents, u
  <2>6. synced'[i] = IF i \in Alive(mem) THEN Len(e) ELSE synced[i]
    BY <1>1, <2>0
  <2>7. Starting(y, i)' => i >= next \/ Creating(i)
    <3> SUFFICES ASSUME i \in open PROVE i \in Alive(u)
      BY <1>1 DEF Starting, Creating, u
    <3> QED
      BY SMT, <1>0, <1>4 DEF MemInv, Alive, FileIds, NoFile
  <2>8. i >= next \/ Creating(i) =>
          /\ e = << >> /\ synced'[i] = 0 /\ (op.kind = "mount" \/ stable[i] = << >>)
    BY <2>0, <2>1, <2>6, EmptyList DEF SyncedExtents, Starting
  <2>9. synced'[i] <= Len(e) /\ (op.kind = "mount" => synced'[i] = Len(e))
    BY SMT, <2>0, <2>1, <2>6 DEF SyncedExtents
  <2>10. i \in Alive(u) => Len(u.exts[i]) = Len(e) /\ synced'[i] = Len(e)
    BY <1>4, <2>4, <2>6
  <2>11. SyncedExtents(y, i)'
    BY <1>1, <1>2, <2>0, <2>7, <2>8, <2>9, <2>10 DEF SyncedExtents, Creating, u
  <2> QED
    BY <2>5, <2>11
<1> QED
  BY <1>0, <1>1, <1>2, <1>5, <1>6 DEF ExtInvAt, u

\* Every step of PersistRecord and of a roll keeps the invariant.
LEMMA ExtentsPersist ==
    ASSUME ResetsOnly, NEW z \in MetaZones, LogInvAt(z), ExtInvAt(z), Persist
    PROVE  \E y \in MetaZones : LogInvAt(y)' /\ ExtInvAt(y)' /\ Continues(z, y)
<1>1. PICK y \in MetaZones : LogInvAt(y)' /\ Continues(z, y)
  BY PersistStep
<1>2. UNCHANGED extending
  BY DEF Persist, extending, PersistRecord, AllocateMetaZone, WriteEndRecord, FinishOld,
         WriteSuperblock, EncodeSnapshot, WriteSnapshot, ResetOld, files, told
<1>3. CASE GivesWay(y)
  BY <1>1, <1>3, ExtentsRolled
<1>4. CASE y = z /\ (Stays(z) \/ Grows(z))
  <2>1. UNCHANGED synced
    <3>1. CASE WriteSnapshot
      BY <1>4, <3>1 DEF WriteSnapshot, Stays, Grows, Pre, Post, Rolling
    <3>2. CASE ~WriteSnapshot
      BY <3>2 DEF Persist, PersistRecord, AllocateMetaZone, WriteEndRecord, FinishOld,
                  WriteSuperblock, EncodeSnapshot, ResetOld, files
    <3> QED
      BY <3>1, <3>2
  <2>2. IsTable(mem) /\ Sound(img'[z])
    BY <1>1, <1>4 DEF LogInvAt, MemInv, NameInv
  <2>3. ExtInvAt(z)'
    BY <1>2, <1>4, <2>1, <2>2, ExtentsStay, ExtentsGrow
  <2> QED
    BY <1>1, <1>4, <2>3
<1> QED
  BY <1>1, <1>3, <1>4 DEF Continues

-----------------------------------------------------------------------------
(***************************************************************************)
(* Calls, Mount and crashes keep ExtInv.                                   *)
(***************************************************************************)
\* A call, or the return of one that has stored nothing, leaves extents alone.
LEMMA ExtentsCalled ==
    ASSUME NEW z \in MetaZones, ExtInvAt(z), pc # "down", op.kind # "mount",
           \A i \in FileIds : pc \in Post => ~Updating(i),
           UNCHANGED <<img, synced, stable, gc>>, mem'.exts = mem.exts,
           pc' \in {"persist", "idle"}, op'.kind # "mount",
           \A i \in FileIds : i >= next' \/ Creating(i)' => i >= next \/ Creating(i),
           open' \subseteq open \cup Alive(img[z].table),
           \A i \in FileIds : pc' = "persist" /\ Updating(i)' =>
             op'.rec.exts = SubSeq(mem.exts[i], synced[i] + 1, Len(mem.exts[i]))
    PROVE  ExtInvAt(z)'
<1>1. /\ pc' \notin Post /\ pc' # "snapshot" /\ pc' # "down" /\ img' = img /\ synced' = synced
      /\ stable' = stable /\ gc' = gc /\ (pc' \in Pre => pc' = "persist")
  BY DEF Post, Pre, Rolling
<1>2. ASSUME NEW i \in FileIds PROVE LoggedExtents(z, i)' /\ SyncedExtents(z, i)'
  <2>1. LoggedExtents(z, i) /\ SyncedExtents(z, i)
    BY DEF ExtInvAt
  <2>2. Starting(z, i)' => Starting(z, i)
    BY <1>1 DEF Starting
  <2>3. LoggedExtents(z, i)'
    BY <1>1, <2>1 DEF LoggedExtents
  <2>4. SyncedExtents(z, i)'
    BY <1>1, <2>1, <2>2 DEF SyncedExtents
  <2> QED
    BY <2>3, <2>4
<1> QED
  BY <1>1, <1>2 DEF ExtInvAt

\* The return of a call that has stored what is new of a file marks it as synced.
LEMMA ExtentsReturned ==
    ASSUME NEW z \in MetaZones, LogInvAt(z), ExtInvAt(z), pc = "ok", Updating(op.id), Synced, Idle,
           op.kind = "create" \/ op.id \in Alive(img[z].table),
           UNCHANGED <<img, gc, next>>, mem'.exts = mem.exts, open' \subseteq open \cup {op.id},
           \/ UNCHANGED stable
           \/ op.kind # "create" /\ stable' = [stable EXCEPT ![op.id] = mem.exts[op.id]]
    PROVE  ExtInvAt(z)'
<1> DEFINE t == img[z].table
<1>0. /\ op.id \in FileIds /\ op.id < next /\ next \in Nat /\ pc \in Post
      /\ \A i \in FileIds : LoggedExtents(z, i) /\ SyncedExtents(z, i)
      /\ mem.exts \in [FileIds -> WrittenLists] /\ stable \in [FileIds -> WrittenLists]
      /\ t.exts \in [FileIds -> WrittenLists] /\ synced \in [FileIds -> Nat] /\ gc = NoGC
  BY DEF LogInvAt, OpInv, MemInv, ExtInvAt, Updating, Kinds, Post
<1>1. /\ img' = img /\ gc' = gc /\ next' = next /\ pc' = "idle" /\ op'.kind = "none"
      /\ synced' = [synced EXCEPT ![op.id] = Len(mem.exts[op.id])]
  BY DEF Idle, NoOp, Synced
<1>2. pc' \notin Pre /\ pc' \notin Post
  BY <1>1 DEF Pre, Post, Rolling
<1>3. synced' \in [FileIds -> Nat] /\ stable' \in [FileIds -> WrittenLists]
  <2>1. mem.exts[op.id] \in WrittenLists /\ Len(mem.exts[op.id]) \in Nat
    BY <1>0, ListIsWritten
  <2> QED
    BY <1>0, <1>1, <2>1
<1>4. ASSUME NEW i \in FileIds PROVE LoggedExtents(z, i)' /\ SyncedExtents(z, i)'
  <2>1. LoggedExtents(z, i) /\ SyncedExtents(z, i)
    BY <1>0
  <2>2. ~Creating(i)' /\ ~Updating(i)'
    BY <1>1 DEF Creating, Updating
  <2>3. CASE i # op.id
    <3>1. stable'[i] = stable[i] /\ synced'[i] = synced[i] /\ ~Updating(i) /\ ~Creating(i)
      BY <1>0, <1>1, <2>3 DEF Updating, Creating
    <3>2. Starting(z, i)' => Starting(z, i)
      BY <1>1, <2>2, <2>3 DEF Starting
    <3>3. op.kind # "mount"
      BY DEF Updating
    <3>4. LoggedExtents(z, i)'
      BY <1>1, <2>1, <3>1 DEF LoggedExtents
    <3>5. SyncedExtents(z, i)'
      BY <1>1, <1>2, <2>1, <2>2, <3>1, <3>2, <3>3 DEF SyncedExtents
    <3> QED
      BY <3>4, <3>5
  <2>4. CASE i = op.id
    <3>0. PICK e : e = mem.exts[i]  OBVIOUS
    <3>1. /\ synced'[i] = Len(e) /\ Len(e) \in Nat /\ ~(i >= next) /\ Updating(i)
          /\ i \in Alive(t) => Len(t.exts[i]) = Len(e)
      <4>1. e \in WrittenLists /\ synced'[i] = Len(e)
        BY <1>0, <1>1, <2>4, <3>0
      <4>2. Len(e) \in Nat
        BY <4>1, ListIsWritten
      <4>3. ~(i >= next) /\ Updating(i)
        <5>1. op.id \in Nat /\ op.id < next /\ next \in Nat
          BY SMT, <1>0 DEF FileIds
        <5>2. ~(op.id >= next)
          BY SMT, <5>1
        <5> QED
          BY <2>4, <5>2
      <4>4. i \in Alive(t) => Len(t.exts[i]) = Len(e)
        BY <1>0, <2>1, <3>0, <4>3 DEF SyncedExtents
      <4> QED
        BY <4>1, <4>2, <4>3, <4>4
    <3>2. stable'[i] = stable[i] \/ (op.kind # "create" /\ stable'[i] = e)
      BY <1>0, <2>4, <3>0
    <3>3. LoggedExtents(z, i)'
      <4>1. /\ i >= img[z].next => t.exts[i] = << >>
            /\ i \in Alive(t) => Len(stable[i]) <= Len(t.exts[i])
        BY <2>1 DEF LoggedExtents
      <4>2. i \in Alive(t) /\ stable'[i] = e => Len(stable'[i]) <= Len(t.exts[i])
        BY SMT, <3>1
      <4>3. i \in Alive(t) => Len(stable'[i]) <= Len(t.exts[i])
        BY <3>2, <4>1, <4>2
      <4> QED
        BY <1>1, <4>1, <4>3 DEF LoggedExtents
    <3>4. Starting(z, i)' => Creating(i)
      BY <1>1, <2>2, <2>4, <3>1 DEF Starting, Creating
    <3>5. Creating(i) => e = << >> /\ Len(e) = 0 /\ stable'[i] = << >>
      BY <2>1, <3>0, <3>2, EmptyList DEF SyncedExtents, Starting, Creating
    <3>6. SyncedExtents(z, i)'
      <4>1. Len(e) <= Len(e)
        BY SMT, <3>1
      <4>2. mem'.exts[i] = e /\ img' = img /\ next' = next /\ op'.kind = "none"
        BY <1>1, <3>0
      <4>3. Starting(z, i)' => synced'[i] = 0 /\ stable'[i] = << >>
        BY <3>1, <3>4, <3>5
      <4> QED
        BY <1>2, <2>2, <3>1, <4>1, <4>2, <4>3 DEF SyncedExtents
    <3> QED
      BY <3>3, <3>6
  <2> QED
    BY <2>3, <2>4
<1> QED
  BY <1>0, <1>1, <1>2, <1>3, <1>4 DEF ExtInvAt

\* An operation may start: none has stored extents and not returned yet.
Resting == pc # "down" /\ op.kind # "mount" /\ \A i \in FileIds : pc \in Post => ~Updating(i)

\* DeleteFileNoLock up to its record leaves extents alone.
LEMMA DeleteStartsExtents ==
    ASSUME NEW z \in MetaZones, ExtInvAt(z), IsTable(mem), Resting,
           UNCHANGED <<img, synced, stable, gc, next, open>>,
           NEW n \in Names, mem.files[n] # NoFile, NEW then, NEW from, StartDelete(n, then, from)
    PROVE  ExtInvAt(z)'
<1>1. /\ pc' = "persist" /\ op'.kind = "delete" /\ mem' = RemoveLinkName(mem, mem.files[n], n)
      /\ mem.files[n] \in FileIds
  BY DEF StartDelete, Start, IsTable
<1>2. mem'.exts = mem.exts
  BY <1>1, NamingKeepsExtents
<1>3. \A i \in FileIds : ~Creating(i)' /\ ~Updating(i)'
  BY <1>1 DEF Creating, Updating
<1> QED
  BY <1>1, <1>2, <1>3, ExtentsCalled DEF Resting

\* A new file has no extents, and its record has none.
LEMMA CreateStartsExtents ==
    ASSUME NEW z \in MetaZones, ExtInvAt(z), IsTable(mem), next \in Nat \ {0}, next <= MaxFileId,
           Resting, UNCHANGED <<img, synced, stable, gc, open>>, NEW n \in Names, StartCreate(n)
    PROVE  ExtInvAt(z)'
<1>0. next \in FileIds /\ {n} \in SUBSET Names
  BY SMT, MetaLogAssumption DEF FileIds
<1>1. PICK t : t = SetLinks(mem, next, {n})
  OBVIOUS
<1>2. t.exts = mem.exts
  BY <1>0, <1>1, NamingKeepsExtents
<1>3. /\ pc' = "persist" /\ op'.kind = "create" /\ op'.id = next /\ next' = next + 1 /\ mem' = t
      /\ op'.rec.exts = SubSeq(t.exts[next], 0 + 1, Len(t.exts[next]))
  BY <1>1 DEF StartCreate, Start, Encode
<1>4. synced[next] = 0
  <2>1. SyncedExtents(z, next) /\ next >= next
    BY SMT, <1>0 DEF ExtInvAt, Resting
  <2> QED
    BY <2>1 DEF SyncedExtents, Starting
<1>5. \A i \in FileIds : i >= next' \/ Creating(i)' => i >= next \/ Creating(i)
  BY SMT, <1>3 DEF Creating, FileIds
<1>6. \A i \in FileIds : Updating(i)' =>
        op'.rec.exts = SubSeq(mem.exts[i], synced[i] + 1, Len(mem.exts[i]))
  BY <1>2, <1>3, <1>4 DEF Updating
<1>7. mem'.exts = mem.exts /\ op'.kind # "mount" /\ pc' \in {"persist", "idle"}
      /\ open' \subseteq open \cup Alive(img[z].table)
  BY <1>2, <1>3
<1> QED
  BY <1>5, <1>6, <1>7, ExtentsCalled DEF Resting

\* Operations that persist what is new of a file.
LEMMA UpdateStartsExtents ==
    ASSUME NEW z \in MetaZones, ExtInvAt(z), Resting,
           UNCHANGED <<img, synced, stable, gc, next, open>>, mem'.exts = mem.exts,
           pc' = "persist", op'.kind \in {"rename", "link", "fsync", "close"}, NEW t,
           t.exts = mem.exts, NEW i, op'.id = i, op'.rec = Encode(t, i, synced[i], "update")
    PROVE  ExtInvAt(z)'
<1>1. op'.rec.exts = SubSeq(mem.exts[i], synced[i] + 1, Len(mem.exts[i]))
  <2>1. PICK k : k = synced[i]  OBVIOUS
  <2>2. Encode(t, i, k, "update").exts = SubSeq(t.exts[i], k + 1, Len(t.exts[i]))
    BY DEF Encode
  <2> QED
    BY <2>1, <2>2
<1>2. \A j \in FileIds : Updating(j)' =>
        op'.rec.exts = SubSeq(mem.exts[j], synced[j] + 1, Len(mem.exts[j]))
  BY <1>1 DEF Updating
<1>3. \A j \in FileIds : j >= next' \/ Creating(j)' => j >= next \/ Creating(j)
  BY DEF Creating
<1> QED
  BY <1>2, <1>3, ExtentsCalled DEF Resting

\* RenameFileNoLock up to its record: the record goes on from nr_synced_extents_.
LEMMA RenameStartsExtents ==
    ASSUME NEW z \in MetaZones, ExtInvAt(z), IsTable(mem), Resting,
           UNCHANGED <<img, synced, stable, gc, next, open>>, NEW n \in Names, NEW from \in Names,
           mem.files[from] \in FileIds, StartRename(from, n)
    PROVE  ExtInvAt(z)'
<1>1. PICK i \in FileIds : i = mem.files[from]
  OBVIOUS
<1>2. PICK t : t = RenameLink(mem, i, from, n)
  OBVIOUS
<1>3. /\ pc' = "persist" /\ op'.kind = "rename" /\ op'.id = i /\ mem' = t
      /\ op'.rec = Encode(t, i, synced[i], "update")
  BY <1>1, <1>2 DEF StartRename, Start
<1>4. t.exts = mem.exts
  BY SMT, <1>2, NamingKeepsExtents
<1> QED
  BY <1>3, <1>4, UpdateStartsExtents

\* A writer appends when no operation is in progress.
LEMMA ExtentsAppended ==
    ASSUME SingleThread, NEW z \in MetaZones, LogInvAt(z), ExtInvAt(z), NEW i \in FileIds,
           AddExtent(i)
    PROVE  ExtInvAt(z)'
<1>0. /\ pc = "idle" /\ i \in open /\ IsTable(mem) /\ next \in Nat /\ op.kind = "none"
      /\ mem.exts \in [FileIds -> WrittenLists] /\ synced \in [FileIds -> Nat]
      /\ UNCHANGED <<img, synced, next, open, op, pc, gc, stable>>
  BY DEF SingleThread, AddExtent, LogInvAt, MemInv, OpInv, ExtInvAt, device, told
<1>1. ~(i >= next)
  <2>1. PICK n \in Names : mem.files[n] = i
    BY <1>0 DEF LogInvAt, MemInv
  <2> QED
    BY SMT, <1>0, <2>1 DEF LogInvAt, MemInv, FileIds
<1>2. PICK e : e = mem.exts[i]  OBVIOUS
<1>3. PICK d : d = Append(e, [n |-> Len(e) + 1, copy |-> 0])  OBVIOUS
<1>4. mem'.exts = [mem.exts EXCEPT ![i] = d]
  BY <1>0, <1>2, <1>3 DEF AddExtent, SetExts, IsTable
<1>5. e \in WrittenLists /\ Len(e) \in Nat /\ d \in WrittenLists /\ Len(d) = Len(e) + 1
  <2>1. e \in WrittenLists /\ Len(e) < MaxExtents
    BY <1>0, <1>2 DEF AddExtent
  <2> QED
    BY <1>3, <2>1, ListIsWritten, ListGrows
<1>6. mem'.exts \in [FileIds -> WrittenLists]
  BY <1>0, <1>4, <1>5
<1>7. pc # "down" /\ pc \notin Pre /\ pc \notin Post /\ pc # "snapshot"
  BY <1>0 DEF Pre, Post, Rolling
<1>8. ASSUME NEW j \in FileIds PROVE LoggedExtents(z, j)' /\ SyncedExtents(z, j)'
  <2>1. LoggedExtents(z, j) /\ SyncedExtents(z, j) /\ synced[j] \in Nat
    BY <1>0, <1>7 DEF ExtInvAt
  <2>2. LoggedExtents(z, j)'
    BY <1>0, <2>1 DEF LoggedExtents
  <2>3. ~Creating(j) /\ ~Creating(j)' /\ (Starting(z, j)' <=> Starting(z, j))
    BY <1>0 DEF Creating, Starting
  <2>4. CASE j # i
    <3>1. mem'.exts[j] = mem.exts[j]
      BY <1>0, <1>4, <2>4
    <3> QED
      BY <1>0, <1>7, <2>1, <2>2, <2>3, <3>1 DEF SyncedExtents
  <2>5. CASE j = i
    <3>1. mem'.exts[j] = d /\ synced[j] <= Len(e)
      BY <1>0, <1>2, <1>4, <2>1, <2>5 DEF SyncedExtents
    <3>2. synced[j] <= Len(d)
      BY SMT, <1>5, <2>1, <3>1
    <3> QED
      BY <1>0, <1>1, <1>7, <2>1, <2>2, <2>3, <2>5, <3>1, <3>2 DEF SyncedExtents
  <2> QED
    BY <2>4, <2>5
<1> QED
  BY <1>0, <1>6, <1>7, <1>8 DEF ExtInvAt

\* Every request keeps ExtInv.
LEMMA ExtentsRequested ==
    ASSUME SingleThread, NEW z \in MetaZones, LogInvAt(z), ExtInvAt(z), Requests
    PROVE  ExtInvAt(z)'
<1>0. /\ IsTable(mem) /\ next \in Nat \ {0} /\ NameInv(z) /\ MemInv /\ OpInv
      /\ open \subseteq FileIds
  BY DEF LogInvAt, MemInv
<1>1. pc = "idle" => Resting /\ op.kind = "none"
  BY <1>0 DEF Resting, OpInv, Post
<1>2. ASSUME NEW n \in Names, OpenWritableFile(n) PROVE ExtInvAt(z)'
  <2>1. pc = "idle" /\ next <= MaxFileId /\ UNCHANGED <<img, synced, stable, gc, open>>
    BY <1>2 DEF OpenWritableFile, Request, device
  <2>2. CASE mem.files[n] # NoFile
    BY <1>0, <1>1, <1>2, <2>1, <2>2, DeleteStartsExtents DEF OpenWritableFile
  <2>3. CASE mem.files[n] = NoFile
    BY <1>0, <1>1, <1>2, <2>1, <2>3, CreateStartsExtents DEF OpenWritableFile
  <2> QED
    BY <2>2, <2>3
<1>3. ASSUME NEW n \in Names, ReopenWritableFile(n) PROVE ExtInvAt(z)'
  <2>1. /\ pc = "idle" /\ open' = open \cup {mem.files[n]} /\ mem.files[n] \notin open
        /\ mem.files[n] # NoFile /\ UNCHANGED <<img, synced, stable, gc, mem, op, pc, next>>
    BY <1>3 DEF ReopenWritableFile, Request, Closed, device, told
  <2>2. img[z].table.files[n] = mem.files[n]
    BY <1>0, <1>1, <2>1 DEF NameInv, Agree, MayMiss, Changing
  <2>3. open' \subseteq open \cup Alive(img[z].table)
    BY <2>1, <2>2 DEF Alive
  <2>4. \A i \in FileIds : ~Creating(i)' /\ ~Updating(i)'
    BY <1>1, <2>1 DEF Creating, Updating
  <2> QED
    BY <1>1, <2>1, <2>3, <2>4, ExtentsCalled DEF Resting
<1>4. ASSUME NEW n \in Names, DeleteFile(n) PROVE ExtInvAt(z)'
  <2>1. /\ pc = "idle" /\ mem.files[n] # NoFile /\ StartDelete(n, "return", n)
        /\ UNCHANGED <<img, synced, stable, gc, next, open>>
    BY <1>4 DEF DeleteFile, Request, device
  <2> QED
    BY <1>0, <1>1, <2>1, DeleteStartsExtents
<1>5. ASSUME NEW from \in Names, NEW n \in Names, RenameFile(from, n) PROVE ExtInvAt(z)'
  <2>1. /\ pc = "idle" /\ mem.files[from] # NoFile
        /\ UNCHANGED <<img, synced, stable, gc, next, open>>
    BY <1>5 DEF RenameFile, Request, device
  <2>2. CASE mem.files[n] # NoFile
    BY <1>0, <1>1, <1>5, <2>1, <2>2, DeleteStartsExtents DEF RenameFile
  <2>3. CASE mem.files[n] = NoFile
    <3>1. StartRename(from, n) /\ mem.files[from] \in FileIds
      BY <1>0, <1>5, <2>1, <2>3 DEF RenameFile, IsTable
    <3> QED
      BY <1>0, <1>1, <2>1, <3>1, RenameStartsExtents
  <2> QED
    BY <2>2, <2>3
<1>6. ASSUME NEW n \in Names, NEW link \in Names, LinkFile(n, link) PROVE ExtInvAt(z)'
  <2>1. PICK i : i = mem.files[n]  OBVIOUS
  <2>2. PICK t : t = AddLinkName(mem, i, link)  OBVIOUS
  <2>3. /\ pc = "idle" /\ i \in FileIds /\ UNCHANGED <<img, synced, stable, gc, next, open>>
        /\ pc' = "persist" /\ op'.kind = "link" /\ op'.id = i /\ mem' = t
        /\ op'.rec = Encode(t, i, synced[i], "update")
    BY <1>0, <1>6, <2>1, <2>2 DEF LinkFile, Request, Start, device, IsTable
  <2>4. t.exts = mem.exts
    BY SMT, <1>0, <2>2, <2>3, NamingKeepsExtents
  <2> QED
    BY <1>1, <2>3, <2>4, UpdateStartsExtents
<1>7. ASSUME NEW i \in FileIds, NEW kind \in {"fsync", "close"}, SyncFileMetadata(i, kind)
      PROVE  ExtInvAt(z)'
  <2>1. /\ pc = "idle" /\ UNCHANGED <<img, synced, stable, gc, next, open>>
        /\ pc' = "persist" /\ op'.kind = kind /\ op'.id = i /\ mem' = mem
        /\ op'.rec = Encode(mem, i, synced[i], "update")
    BY <1>7 DEF SyncFileMetadata, Request, Start, device, told
  <2> QED
    BY <1>1, <2>1, UpdateStartsExtents
<1> QED
  BY <1>2, <1>3, <1>4, <1>5, <1>6, <1>7, ExtentsAppended DEF Requests

\* A call that returns after a failure leaves extents alone.
LEMMA ExtentsFailed ==
    ASSUME NEW z \in MetaZones, LogInvAt(z), ExtInvAt(z),
           CreateFailed \/ DeleteFailed \/ RenameFailed \/ LinkFailed \/ SyncFailed
    PROVE  ExtInvAt(z)'
<1>0. /\ IsTable(mem) /\ OpInv /\ mem.exts \in [FileIds -> WrittenLists]
      /\ \A i \in FileIds : SyncedExtents(z, i)
  BY DEF LogInvAt, MemInv, ExtInvAt, CreateFailed, DeleteFailed, RenameFailed, LinkFailed,
         SyncFailed
<1>1. /\ pc = "failed" /\ op.kind \in {"create", "delete", "rename", "link", "fsync", "close"}
      /\ Idle /\ UNCHANGED <<img, synced, stable, gc, next, open>>
  BY DEF CreateFailed, DeleteFailed, RenameFailed, LinkFailed, SyncFailed, device, files, told
<1>2. op.id \in FileIds
  BY <1>0, <1>1 DEF OpInv, Kinds
<1>3. mem'.exts = mem.exts
  <2>1. CASE CreateFailed
    <3>1. op.kind = "create" /\ mem' = Drop(mem, op.id)
      BY <2>1 DEF CreateFailed
    <3>2. op.id \notin Alive(mem)
      BY <1>0, <3>1 DEF OpInv, Alive
    <3>3. mem'.exts = [mem.exts EXCEPT ![op.id] = << >>]
      BY <1>0, <1>2, <3>1, <3>2, DropExtents
    <3>4. mem.exts[op.id] = << >>
      BY <1>0, <1>2, <3>1 DEF SyncedExtents, Creating
    <3> QED
      BY <1>0, <3>3, <3>4
  <2>2. CASE DeleteFailed
    <3>1. mem' = AddLinkName(mem, op.id, op.name) /\ op.name \in Names
      BY <1>0, <2>2 DEF DeleteFailed, OpInv
    <3> QED
      BY <1>0, <1>2, <3>1, NamingKeepsExtents
  <2>3. CASE RenameFailed
    <3>1. /\ mem' = RenameLink(mem, op.id, op.name, op.from)
          /\ op.name \in Names /\ op.from \in Names
      BY <1>0, <2>3 DEF RenameFailed, OpInv
    <3> QED
      BY <1>0, <1>2, <3>1, NamingKeepsExtents
  <2>4. CASE LinkFailed
    <3>1. mem' = RemoveLinkName(mem, op.id, op.name) /\ op.name \in Names
      BY <1>0, <2>4 DEF LinkFailed, OpInv
    <3> QED
      BY <1>0, <1>2, <3>1, NamingKeepsExtents
  <2>5. CASE SyncFailed
    BY <2>5 DEF SyncFailed, files
  <2> QED
    BY <2>1, <2>2, <2>3, <2>4, <2>5
<1>4. pc' = "idle" /\ op'.kind = "none" /\ pc \notin Post /\ pc # "down"
  BY <1>1 DEF Idle, NoOp, Post
<1>5. \A i \in FileIds : ~Creating(i)'
  BY <1>4 DEF Creating
<1> QED
  BY <1>1, <1>3, <1>4, <1>5, ExtentsCalled

\* DeleteFileNoLock goes on with the creation or the renaming that called it.
LEMMA ExtentsDeleted ==
    ASSUME NEW z \in MetaZones, LogInvAt(z), ExtInvAt(z), DeleteOk
    PROVE  ExtInvAt(z)'
<1>0. /\ IsTable(mem) /\ next \in Nat \ {0} /\ OpInv
  BY DEF LogInvAt, MemInv
<1>1. /\ pc = "ok" /\ op.kind = "delete" /\ UNCHANGED <<img, synced, stable, gc, open>>
      /\ op.name \in Names /\ op.then \in {"return", "create", "rename", "error"}
  BY <1>0 DEF DeleteOk, OpInv, device
<1>2. Resting
  BY <1>1 DEF Resting, Updating
<1>3. CASE op.then = "return"
  <2>1. Idle /\ UNCHANGED <<mem, next>>
    BY <1>1, <1>3 DEF DeleteOk
  <2>2. pc' = "idle" /\ op'.kind = "none" /\ \A i \in FileIds : ~Creating(i)'
    BY <2>1 DEF Idle, NoOp, Creating
  <2> QED
    BY <1>1, <1>2, <2>1, <2>2, ExtentsCalled DEF Resting
<1>4. CASE op.then = "create"
  <2>1. StartCreate(op.name) /\ next <= MaxFileId
    BY <1>0, <1>1, <1>4 DEF DeleteOk, OpInv
  <2> QED
    BY <1>0, <1>1, <1>2, <2>1, CreateStartsExtents
<1>5. CASE op.then = "rename"
  <2>1. /\ StartRename(op.from, op.name) /\ op.from \in Names /\ mem.files[op.from] \in FileIds
        /\ UNCHANGED next
    BY <1>0, <1>1, <1>5 DEF DeleteOk, OpInv
  <2> QED
    BY <1>0, <1>1, <1>2, <2>1, RenameStartsExtents
<1>6. CASE op.then = "error"
  <2>1. Idle /\ UNCHANGED <<mem, next>>
    BY <1>1, <1>6 DEF DeleteOk
  <2>2. pc' = "idle" /\ op'.kind = "none" /\ \A i \in FileIds : ~Creating(i)'
    BY <2>1 DEF Idle, NoOp, Creating
  <2> QED
    BY <1>1, <1>2, <2>1, <2>2, ExtentsCalled DEF Resting
<1> QED
  BY <1>1, <1>3, <1>4, <1>5, <1>6

\* A call that returns after it has stored what is new of a file.
LEMMA ExtentsStored ==
    ASSUME NEW z \in MetaZones, LogInvAt(z), ExtInvAt(z), CreateOk \/ RenameOk \/ LinkOk \/ SyncOk
    PROVE  ExtInvAt(z)'
<1>0. IsTable(mem) /\ NameInv(z) /\ MemInv /\ OpInv
  BY DEF LogInvAt, MemInv
<1>1. /\ pc = "ok" /\ op.kind \in {"create", "rename", "link", "fsync", "close"} /\ Synced /\ Idle
      /\ UNCHANGED <<img, gc, next>>
  BY DEF CreateOk, RenameOk, LinkOk, SyncOk, device
<1>2. op.id \in FileIds /\ Updating(op.id) /\ pc \in Post
  BY <1>0, <1>1 DEF OpInv, Kinds, Updating, Post
<1>3. CASE CreateOk
  <2>1. /\ op.kind = "create" /\ mem' = SetFile(mem, op.name, op.id) /\ op.name \in Names
        /\ open' = open \cup {op.id} /\ UNCHANGED stable
    BY <1>0, <1>3 DEF CreateOk, OpInv, told
  <2>2. mem'.exts = mem.exts
    BY <1>0, <1>2, <2>1, NamingKeepsExtents
  <2> QED
    BY <1>1, <1>2, <2>1, <2>2, ExtentsReturned
<1>4. CASE RenameOk \/ LinkOk
  <2>1. op.kind \in {"rename", "link"} /\ UNCHANGED <<mem, open, stable>>
    BY <1>4 DEF RenameOk, LinkOk
  <2>2. op.name \in Names /\ img[z].table.files[op.name] = op.id
    BY <1>0, <1>1, <1>2, <2>1 DEF OpInv, NameInv, Agree
  <2>3. op.id \in Alive(img[z].table)
    BY SMT, <1>2, <2>2 DEF Alive, FileIds, NoFile
  <2> QED
    BY <1>1, <1>2, <2>1, <2>3, ExtentsReturned
<1>5. CASE SyncOk
  <2>1. /\ op.kind \in {"fsync", "close"} /\ open' \subseteq open /\ UNCHANGED mem
        /\ stable' = [stable EXCEPT ![op.id] = mem.exts[op.id]]
    BY <1>5 DEF SyncOk
  <2>2. PICK n \in Names : mem.files[n] = op.id
    BY <1>0, <2>1 DEF OpInv, MemInv
  <2>3. img[z].table.files[n] = op.id
    BY <1>0, <1>1, <2>1, <2>2, ReturnSettled
  <2>4. op.id \in Alive(img[z].table)
    BY SMT, <1>2, <2>3 DEF Alive, FileIds, NoFile
  <2> QED
    BY <1>1, <1>2, <2>1, <2>4, ExtentsReturned
<1> QED
  BY <1>3, <1>4, <1>5

\* Mount takes over what the log has of each file.
LEMMA ExtentsMounted ==
    ASSUME NEW z \in MetaZones, LogInvAt(z), ExtInvAt(z), Mount
    PROVE  ExtInvAt(z)'
<1> DEFINE t == img[z].table
<1>0. /\ RollInv(z) /\ Sound(img[z]) /\ OpInv /\ pc = "down"
      /\ t.exts \in [FileIds -> WrittenLists] /\ gc = NoGC
      /\ \A i \in FileIds : LoggedExtents(z, i) /\ t.exts[i] \in WrittenLists
  BY DEF LogInvAt, NameInv, ExtInvAt, Mount
<1>1. MountSucceeds /\ \A y \in MetaZones : MountsFrom(y) <=> y = z
  BY <1>0, Leading DEF RollInv
<1>2. /\ mem' = t /\ next' = img[z].next /\ op' = [kind |-> "mount"] /\ pc' = "allocate"
      /\ synced' = [i \in FileIds |-> Len(t.exts[i])]
      /\ UNCHANGED <<img, open, gc, stable>>
  BY <1>1 DEF Mount, device, told
<1>3. open = {} /\ op'.kind = "mount" /\ pc' \notin Post
  BY <1>0, <1>2 DEF OpInv, Post
<1>4. synced' \in [FileIds -> Nat]
  <2>1. \A i \in FileIds : Len(t.exts[i]) \in Nat
    BY <1>0, ListIsWritten
  <2> QED
    BY <1>2, <2>1
<1>5. ASSUME NEW i \in FileIds PROVE LoggedExtents(z, i)' /\ SyncedExtents(z, i)'
  <2>1. LoggedExtents(z, i) /\ Len(t.exts[i]) \in Nat /\ synced'[i] = Len(t.exts[i])
    BY <1>0, <1>2, ListIsWritten
  <2>2. LoggedExtents(z, i)'
    BY <1>2, <2>1 DEF LoggedExtents
  <2>3. ~Creating(i)' /\ ~Updating(i)' /\ (Starting(z, i)' => i >= img[z].next)
    BY <1>2, <1>3 DEF Creating, Updating, Starting
  <2>4. i >= img[z].next => t.exts[i] = << >> /\ synced'[i] = 0
    BY <2>1, EmptyList DEF LoggedExtents
  <2>5. SyncedExtents(z, i)'
    <3>1. mem'.exts[i] = t.exts[i] /\ synced'[i] <= Len(t.exts[i])
      BY SMT, <1>2, <2>1
    <3>2. i >= next' \/ Creating(i)' => t.exts[i] = << >>
      BY <1>2, <2>3, <2>4
    <3>3. Starting(z, i)' => synced'[i] = 0
      BY <2>3, <2>4
    <3> QED
      BY <1>2, <1>3, <2>1, <2>3, <3>1, <3>2, <3>3 DEF SyncedExtents
  <2> QED
    BY <2>2, <2>5
<1> QED
  BY <1>0, <1>2, <1>4, <1>5 DEF ExtInvAt

\* What Mount has recovered is what callers find.
LEMMA ExtentsFound ==
    ASSUME NEW z \in MetaZones, LogInvAt(z), ExtInvAt(z), MountOk
    PROVE  ExtInvAt(z)'
<1> DEFINE t == img[z].table
<1>0. /\ OpInv /\ pc = "ok" /\ op.kind = "mount" /\ mem.exts \in [FileIds -> WrittenLists]
      /\ \A i \in FileIds : LoggedExtents(z, i) /\ SyncedExtents(z, i)
  BY DEF LogInvAt, ExtInvAt, MountOk
<1>1. /\ pc' = "idle" /\ op'.kind = "none" /\ stable' = mem.exts
      /\ UNCHANGED <<img, mem, synced, next, open, gc>>
  BY DEF MountOk, Idle, NoOp, device, files
<1>2. open = {} /\ pc' \notin Pre /\ pc' \notin Post
  BY <1>0, <1>1 DEF OpInv, Pre, Post, Rolling
<1>3. ASSUME NEW i \in FileIds PROVE LoggedExtents(z, i)' /\ SyncedExtents(z, i)'
  <2>0. PICK e : e = mem.exts[i]  OBVIOUS
  <2>2. ~Creating(i)' /\ ~Updating(i)' /\ ~Updating(i) /\ (Starting(z, i)' => i >= next)
    BY <1>0, <1>1, <1>2 DEF Creating, Updating, Starting
  <2>3. synced[i] = Len(e) /\ Len(e) \in Nat /\ (i \in Alive(t) => Len(t.exts[i]) = Len(e))
    <3>1. Len(e) \in Nat
      BY <1>0, <2>0, ListIsWritten
    <3> QED
      BY <1>0, <2>0, <2>2, <3>1 DEF SyncedExtents
  <2>4. LoggedExtents(z, i)'
    BY SMT, <1>0, <1>1, <2>0, <2>3 DEF LoggedExtents
  <2>5. i >= next => e = << >> /\ synced[i] = 0
    BY <1>0, <2>0, <2>3, EmptyList DEF SyncedExtents
  <2>6. SyncedExtents(z, i)'
    <3>1. mem'.exts[i] = e /\ synced'[i] = Len(e) /\ synced'[i] <= Len(e)
      BY SMT, <1>1, <2>0, <2>3
    <3>2. Starting(z, i)' \/ i >= next' \/ Creating(i)' =>
            e = << >> /\ synced'[i] = 0 /\ stable'[i] = << >>
      BY <1>1, <2>0, <2>2, <2>5
    <3>3. i \in Alive(t) => Len(t.exts[i]) = synced'[i]
      BY <2>3, <3>1
    <3> QED
      BY <1>1, <1>2, <3>1, <3>2, <3>3 DEF SyncedExtents
  <2> QED
    BY <2>4, <2>6
<1> QED
  BY <1>0, <1>1, <1>3 DEF ExtInvAt

\* A crash, or a mount that fails, leaves what the log has of each file.
LEMMA ExtentsDown ==
    ASSUME NEW z \in MetaZones, ExtInvAt(z), PowerDown, UNCHANGED <<img, stable>>
    PROVE  ExtInvAt(z)'
<1>1. /\ pc' = "down" /\ mem'.exts = [i \in FileIds |-> << >>] /\ gc' = NoGC
      /\ synced' = [i \in FileIds |-> 0]
  BY DEF PowerDown, NoFiles
<1>2. mem'.exts \in [FileIds -> WrittenLists] /\ synced' \in [FileIds -> Nat]
  BY <1>1, EmptyList
<1>3. \A i \in FileIds : LoggedExtents(z, i)'
  BY DEF ExtInvAt, LoggedExtents
<1> QED
  BY <1>1, <1>2, <1>3 DEF ExtInvAt

-----------------------------------------------------------------------------
(***************************************************************************)
(* Every step keeps ExtInv.                                                *)
(***************************************************************************)
LEMMA ExtentsInit == Init => ExtInv
<1> SUFFICES ASSUME Init PROVE ExtInvAt(1)
  BY LogInit DEF ExtInv
<1>1. 1 \in MetaZones
  BY LogInit
<1>2. /\ pc = "down" /\ gc = NoGC /\ mem.exts = [i \in FileIds |-> << >>]
      /\ stable = [i \in FileIds |-> << >>] /\ synced = [i \in FileIds |-> 0]
      /\ img[1].table = NoFiles /\ img[1].table.exts = [i \in FileIds |-> << >>]
  BY <1>1 DEF Init, NoFiles, Blank
<1>3. \A i \in FileIds : LoggedExtents(1, i)
  BY SMT, <1>2, EmptyList DEF LoggedExtents
<1> QED
  BY <1>2, <1>3, EmptyList DEF ExtInvAt

\* A step leaves the log that a mount would choose, or makes it go on.
LEMMA ExtentsNext ==
    ASSUME ResetsOnly, SingleThread, NEW z \in MetaZones, LogInvAt(z), ExtInvAt(z), [Next]_vars
    PROVE  \E y \in MetaZones : /\ LogInvAt(y)' /\ ExtInvAt(y)'
                                /\ (y = z /\ img' = img) \/ (Persist /\ Continues(z, y))
<1>0. gc = NoGC
  BY DEF ExtInvAt
<1>1. CASE Persist
  BY <1>1, ExtentsPersist
<1>2. CASE Requests
  <2>1. img' = img
    BY <1>2 DEF Requests, OpenWritableFile, ReopenWritableFile, DeleteFile, RenameFile, LinkFile,
                AddExtent, SyncFileMetadata, device
  <2>2. LogInvAt(z)' /\ ExtInvAt(z)'
    BY <1>2, RequestStep, ExtentsRequested
  <2> QED
    BY <2>1, <2>2
<1>3. CASE Return /\ ~MountFailed
  <2>1. ~GCDone
    BY <1>0 DEF GCDone, LogInvAt, OpInv, NoGC
  <2>2. ExtInvAt(z)'
    BY <1>3, <2>1, ExtentsFailed, ExtentsDeleted, ExtentsStored, ExtentsFound DEF Return
  <2>3. img' = img
    BY <1>3, <2>1 DEF Return, CreateOk, CreateFailed, DeleteOk, DeleteFailed, RenameOk,
       RenameFailed, LinkOk, LinkFailed, SyncOk, SyncFailed, MountOk, device
  <2>4. LogInvAt(z)'
    BY <1>3, ReturnStep
  <2> QED
    BY <2>2, <2>3, <2>4
<1>4. CASE MountFailed \/ Crash
  <2>1. UNCHANGED <<device, promise>> /\ PowerDown /\ UNCHANGED <<img, stable>>
    BY <1>4 DEF MountFailed, Crash, ResetsOnly, told, device
  <2> QED
    BY <2>1, DownStep, ExtentsDown
<1>5. CASE GC
  <2>1. FALSE
    BY <1>0, <1>5 DEF GC, GCLock, ReplaceExtentList, GCSync, NoGC, SingleThread
  <2> QED
    BY <2>1
<1>6. CASE Mount
  <2>1. img' = img
    BY <1>6 DEF Mount, device
  <2> QED
    BY <1>6, <2>1, MountStep, ExtentsMounted
<1>7. CASE UNCHANGED vars
  <2>1. UNCHANGED <<mem, next, open, op, gc, stable, img, synced, pc, snap>>
    BY <1>7 DEF vars, device, files, roll, told
  <2>2. ExtInvAt(z)'
    <3>1. ASSUME NEW i \in FileIds, SyncedExtents(z, i) PROVE SyncedExtents(z, i)'
      BY <2>1, <3>1 DEF SyncedExtents, Starting, Creating, Updating
    <3>2. ASSUME NEW i \in FileIds, LoggedExtents(z, i) PROVE LoggedExtents(z, i)'
      BY <2>1, <3>2 DEF LoggedExtents
    <3> QED
      BY <2>1, <3>1, <3>2 DEF ExtInvAt
  <2> QED
    BY <1>7, <2>1, <2>2, LogStutter
<1> QED
  BY <1>1, <1>2, <1>3, <1>4, <1>5, <1>6, <1>7 DEF Next

\* Extents and names in the log that a mount would choose are those in memory as
\* far as they have been synced, at every point of every operation and roll.
THEOREM ExtentsKept == ResetsOnly /\ SingleThread => (Spec => []ExtInv)
<1> SUFFICES ASSUME ResetsOnly, SingleThread PROVE Spec => []ExtInv
  OBVIOUS
<1>1. Init => ExtInv
  BY ExtentsInit
<1>2. ExtInv /\ [Next]_vars => ExtInv'
  BY ExtentsNext DEF ExtInv
<1> QED
  BY <1>1, <1>2, PTL DEF Spec

\* What a mount would find is the table of the zone that leads.
LEMMA RecoveredIs == \A z \in MetaZones : LogInvAt(z) => Recovered = img[z].table
  BY Leading DEF LogInvAt, RollInv

\* Every file that a mount would find has all the extents that an Fsync or a Close
\* of it reported as stored, whatever crashes and rolls came in between.
THEOREM StoredExtentsKept == ResetsOnly /\ SingleThread => (Spec => []StableKept)
<1>1. ExtInv => StableKept
  <2> SUFFICES ASSUME NEW z \in MetaZones, LogInvAt(z), ExtInvAt(z), NEW i \in Alive(Recovered)
               PROVE  /\ Len(stable[i]) <= Len(Recovered.exts[i])
                      /\ \A k \in DOMAIN stable[i] :
                           /\ Recovered.exts[i][k].n = stable[i][k].n
                           /\ Recovered.exts[i][k].copy >= stable[i][k].copy
    BY DEF ExtInv, StableKept
  <2>1. Recovered = img[z].table /\ i \in FileIds
    <3>1. Recovered = img[z].table
      BY RecoveredIs
    <3> QED
      BY <3>1, AliveInLog DEF LogInvAt, NameInv
  <2>2. PICK e : e = Recovered.exts[i]  OBVIOUS
  <2>3. PICK d : d = stable[i]  OBVIOUS
  <2>4. e \in WrittenLists /\ d \in WrittenLists /\ Len(d) <= Len(e)
    BY <2>1, <2>2, <2>3 DEF ExtInvAt, LoggedExtents
  <2>5. /\ Len(e) \in Nat /\ Len(d) \in Nat /\ DOMAIN d = 1..Len(d) /\ DOMAIN e = 1..Len(e)
        /\ \A k \in DOMAIN d : d[k] = [n |-> k, copy |-> 0]
        /\ \A k \in DOMAIN e : e[k] = [n |-> k, copy |-> 0]
    BY <2>4, ListIsWritten
  <2>6. ASSUME NEW k \in DOMAIN d PROVE e[k].n = d[k].n /\ e[k].copy >= d[k].copy
    <3>1. k \in DOMAIN e
      BY SMT, <2>4, <2>5
    <3>2. e[k] = [n |-> k, copy |-> 0] /\ d[k] = [n |-> k, copy |-> 0]
      BY <2>5, <3>1
    <3> QED
      BY SMT, <3>2
  <2> QED
    BY <2>2, <2>3, <2>4, <2>6
<1> SUFFICES ASSUME ResetsOnly, SingleThread PROVE Spec => []StableKept
  OBVIOUS
<1>2. Spec => []ExtInv
  BY ExtentsKept
<1> QED
  BY <1>1, <1>2, PTL

\* Replaying the updates, snapshots and deletions of a log gives each file its
\* extents once and in the order they were written.
THEOREM ReplayInOrder == ResetsOnly /\ SingleThread => (Spec => []ExtentsInOrder)
<1>1. ExtInv => ExtentsInOrder
  <2> SUFFICES ASSUME NEW z \in MetaZones, LogInvAt(z), ExtInvAt(z), NEW i \in Alive(Recovered),
                      NEW k \in DOMAIN Recovered.exts[i]
               PROVE  Recovered.exts[i][k].n = k
    BY DEF ExtInv, ExtentsInOrder
  <2>1. Recovered = img[z].table
    BY RecoveredIs
  <2>2. i \in FileIds
    BY <2>1, AliveInLog DEF LogInvAt, NameInv
  <2>3. Recovered.exts[i] \in WrittenLists
    BY <2>1, <2>2 DEF ExtInvAt
  <2>4. Recovered.exts[i][k] = [n |-> k, copy |-> 0]
    BY <2>3, ListIsWritten
  <2> QED
    BY SMT, <2>4
<1> SUFFICES ASSUME ResetsOnly, SingleThread PROVE Spec => []ExtentsInOrder
  OBVIOUS
<1>2. Spec => []ExtInv
  BY ExtentsKept
<1> QED
  BY <1>1, <1>2, PTL

-----------------------------------------------------------------------------
(***************************************************************************)
(* The refinement of DurableFiles, on a device without faults.             *)
(***************************************************************************)
\* No operation fails, so no caller is misled.
NoFailure == pc # "failed" /\ \A n \in Names : promise[n] # Misled

\* Without faults every record, superblock and snapshot has room.
LEMMA NothingFails ==
    ASSUME Faults = {}, NEW z \in MetaZones, LogInvAt(z), NoFailure, [Next]_vars
    PROVE  NoFailure'
<1>0. RollInv(z) /\ pc # "failed" /\ IsTable(mem) /\ OpInv
  BY DEF LogInvAt, MemInv, NoFailure
<1>1. CASE Persist
  <2>1. UNCHANGED promise
    BY <1>1 DEF Persist, PersistRecord, AllocateMetaZone, WriteEndRecord, FinishOld,
                WriteSuperblock, EncodeSnapshot, WriteSnapshot, ResetOld, told
  <2>2. CASE WriteSuperblock
    <3>1. cur \in MetaZones /\ cap[cur] = MetaCapacity /\ MetaCapacity # 0
      BY SMT, <1>0, <2>2, MetaLogAssumption DEF WriteSuperblock, RollInv
    <3>2. pc' # "failed"
      BY <2>2, <3>1 DEF WriteSuperblock
    <3> QED
      BY <2>1, <3>2 DEF NoFailure
  <2>3. CASE WriteSnapshot
    <3>1. cap[cur] = MetaCapacity - 1 /\ ~(cap[cur] < SnapshotBlocks)
      BY SMT, <1>0, <2>3, MetaLogAssumption DEF WriteSnapshot, RollInv
    <3>2. pc' # "failed"
      BY <2>3, <3>1 DEF WriteSnapshot
    <3> QED
      BY <2>1, <3>2 DEF NoFailure
  <2>4. CASE ~WriteSuperblock /\ ~WriteSnapshot
    <3>1. pc' # "failed"
      BY <1>1, <2>4 DEF Persist, PersistRecord, AllocateMetaZone, WriteEndRecord, FinishOld,
                        EncodeSnapshot, ResetOld
    <3> QED
      BY <2>1, <3>1 DEF NoFailure
  <2> QED
    BY <2>2, <2>3, <2>4
<1>2. ASSUME NEW N, Doubt(N), pc' # "failed" PROVE NoFailure'
  BY SMT, <1>2 DEF Doubt, NoFailure, Unknown, Misled
<1>3. ASSUME NEW N, Tell(N, mem), pc' # "failed" PROVE NoFailure'
  <2>1. \A n \in Names : mem.files[n] # Misled
    BY SMT, <1>0 DEF IsTable, FileIds, NoFile, Misled
  <2> QED
    BY <1>3, <2>1 DEF Tell, NoFailure
<1>4. ASSUME UNCHANGED promise, pc' # "failed" PROVE NoFailure'
  BY <1>4 DEF NoFailure
<1>5. CASE Requests
  <2>1. pc' # "failed"
    BY <1>5 DEF Requests, OpenWritableFile, ReopenWritableFile, DeleteFile, RenameFile, LinkFile,
        AddExtent, SyncFileMetadata, Request, Start, StartDelete, StartCreate, StartRename,
        NoFailure
  <2>2. UNCHANGED promise \/ \E N \in SUBSET Names : Doubt(N)
    BY <1>5 DEF Requests, OpenWritableFile, ReopenWritableFile, DeleteFile, RenameFile, LinkFile,
        AddExtent, SyncFileMetadata, told
  <2> QED
    BY <1>2, <1>4, <2>1, <2>2
<1>6. CASE Return
  <2>1. CASE DeleteOk
    <3>1. op.then \in {"return", "create", "rename", "error"}
      BY <1>0, <2>1 DEF DeleteOk, OpInv
    <3>2. pc' # "failed" /\ (UNCHANGED promise \/ Tell({op.name}, mem))
      BY <2>1, <3>1 DEF DeleteOk, Idle, StartCreate, StartRename, Start
    <3> QED
      BY <1>3, <1>4, <3>2
  <2>2. CASE RenameOk \/ LinkOk \/ SyncOk
    <3>1. pc' # "failed" /\ \E N : Tell(N, mem)
      BY <2>2 DEF RenameOk, LinkOk, SyncOk, Idle
    <3> QED
      BY <1>3, <3>1
  <2>3. CASE MountOk
    <3>1. pc' # "failed" /\ promise' = mem.files
      BY <2>3 DEF MountOk, Idle
    <3> QED
      BY SMT, <1>0, <3>1 DEF NoFailure, IsTable, FileIds, NoFile, Misled
  <2>4. CASE CreateOk \/ GCDone
    <3>1. pc' # "failed" /\ UNCHANGED promise
      BY <2>4 DEF CreateOk, GCDone, Idle, told
    <3> QED
      BY <1>4, <3>1
  <2> QED
    BY <1>0, <1>6, <2>1, <2>2, <2>3, <2>4
       DEF Return, CreateFailed, DeleteFailed, RenameFailed, LinkFailed, SyncFailed, MountFailed
<1>7. CASE GC \/ Mount \/ Crash
  <2>1. pc' # "failed" /\ UNCHANGED promise
    BY <1>0, <1>7 DEF GC, GCLock, ReplaceExtentList, GCSync, Start, Mount, Crash, PowerDown, told
  <2> QED
    BY <1>4, <2>1
<1>8. CASE UNCHANGED vars
  BY <1>0, <1>4, <1>8 DEF vars, told
<1> QED
  BY <1>1, <1>5, <1>6, <1>7, <1>8 DEF Next

\* What a file has in the log does not get less when the log goes on.
LEMMA ListsGrow ==
    ASSUME NEW z \in MetaZones, NEW y \in MetaZones, ExtInvAt(z), ExtInvAt(y)', pc \in Pre,
           pc' \in Post, mem' = mem, op' = op, \A i \in FileIds : synced'[i] >= synced[i],
           NEW i \in FileIds, i \in Alive(img[z].table), i \in Alive(img'[y].table)
    PROVE  Abstract!Covers(img'[y].table.exts[i], img[z].table.exts[i])
<1>1. PICK was : was = img[z].table.exts[i]  OBVIOUS
<1>2. PICK new : new = img'[y].table.exts[i]  OBVIOUS
<1>3. was \in WrittenLists /\ new \in WrittenLists
  BY <1>1, <1>2 DEF ExtInvAt
<1>4. pc \notin Post /\ pc # "down" /\ pc' # "down"
  BY DEF Pre, Post, Rolling
<1>5. SyncedExtents(z, i) /\ SyncedExtents(y, i)' /\ synced[i] \in Nat /\ synced'[i] \in Nat
  BY <1>4 DEF ExtInvAt
<1>6. Len(was) = synced[i] /\ synced[i] <= Len(mem.exts[i])
  BY <1>1, <1>4, <1>5 DEF SyncedExtents
<1>7. Len(new) = Len(mem.exts[i]) \/ Len(new) = synced'[i]
  BY <1>2, <1>5 DEF SyncedExtents
<1>8. /\ Len(was) \in Nat /\ Len(new) \in Nat /\ DOMAIN was = 1..Len(was)
      /\ DOMAIN new = 1..Len(new) /\ \A k \in DOMAIN was : was[k] = [n |-> k, copy |-> 0]
      /\ \A k \in DOMAIN new : new[k] = [n |-> k, copy |-> 0]
  BY <1>3, ListIsWritten
<1>9. Len(was) <= Len(new)
  <2>1. synced'[i] >= synced[i]
    OBVIOUS
  <2> QED
    BY <1>5, <1>6, <1>7, <1>8, <2>1
<1>10. ASSUME NEW k \in DOMAIN was PROVE new[k].n = was[k].n /\ new[k].copy >= was[k].copy
  <2>1. k \in DOMAIN new
    BY SMT, <1>8, <1>9
  <2>2. was[k] = [n |-> k, copy |-> 0] /\ new[k] = [n |-> k, copy |-> 0]
    BY <1>8, <2>1
  <2> QED
    BY SMT, <2>2
<1>11. Abstract!Covers(new, was)
  BY <1>9, <1>10 DEF Abstract!Covers
<1> QED
  BY <1>1, <1>2, <1>11

\* Until the log has the change of an operation, it has no other file behind a
\* name than memory, except for the one name that the operation takes away.
LEMMA OneName ==
    ASSUME NEW z \in MetaZones, LogInvAt(z), pc \in Pre, Names # {}
    PROVE  \E g \in Names : \A n \in Names \ {g} :
             img[z].table.files[n] # NoFile => img[z].table.files[n] = mem.files[n] /\ ~Changing(n)
<1> DEFINE f == img[z].table.files
<1>0. Agree(z) /\ OpInv /\ pc # "down"
  BY DEF LogInvAt, NameInv, Pre, Rolling
<1>1. \A n \in Names : f[n] # NoFile /\ ~Changing(n) => f[n] = mem.files[n]
  BY <1>0 DEF Agree
<1>2. CASE op.kind = "delete"
  <2>1. op.name \in Names /\ \A n \in Names : Changing(n) => n = op.name
    BY <1>0, <1>2 DEF OpInv, Changing
  <2> QED
    BY <1>1, <2>1
<1>3. CASE op.kind = "rename"
  <2>1. /\ op.from \in Names /\ f[op.name] = NoFile
        /\ \A n \in Names : Changing(n) => n \in {op.name, op.from}
    BY <1>0, <1>3 DEF OpInv, Agree, Changing
  <2> QED
    BY <1>1, <2>1
<1>4. CASE op.kind \notin {"delete", "rename"}
  <2>1. \A n \in Names : Changing(n) => f[n] = NoFile
    BY <1>0, <1>4 DEF Agree, Changing
  <2> QED
    BY <1>1, <2>1
<1> QED
  BY <1>2, <1>3, <1>4

\* The record of an operation, or the snapshot of a roll, changes one name.
LEMMA OneNameChanges ==
    ASSUME NEW z \in MetaZones, NEW y \in MetaZones, LogInvAt(z), LogInvAt(y)', Names # {},
           (y = z /\ Grows(z)) \/ GivesWay(y)
    PROVE  Abstract!OneChange(img[z].table.files, img'[y].table.files)
<1> DEFINE f == img[z].table.files
           g == img'[y].table.files
<1>0. NameInv(z) /\ MemInv /\ OpInv /\ SnapInv /\ Agree(z) /\ pc \in Pre /\ pc # "down"
  BY DEF LogInvAt, NameInv, Grows, GivesWay, Pre, Rolling
<1>1. PICK k \in Names : \A n \in Names \ {k} : f[n] # NoFile => f[n] = mem.files[n] /\ ~Changing(n)
  BY <1>0, OneName
<1>2. ASSUME NEW n \in Names \ {k}, f[n] # NoFile PROVE g[n] = f[n]
  <2>1. f[n] = mem.files[n] /\ ~Changing(n)
    BY <1>1, <1>2
  <2>2. CASE GivesWay(y)
    <3>1. snap.tag = "snapshot" /\ snap.table.files = mem.files
      BY <1>0, <2>2 DEF SnapInv, GivesWay
    <3>2. g = snap.table.files
      BY <2>2, <3>1 DEF GivesWay, Replay, DecodeSnapshotFrom, Blank
    <3> QED
      BY <2>1, <3>1, <3>2
  <2>3. CASE y = z /\ Grows(z)
    <3>1. /\ pc = "persist" /\ op.kind \in Kinds \ {"mount"} /\ img[z].state = "ok"
          /\ ~img[z].ended /\ img'[z] = Replay(img[z], op.rec)
      BY <1>0, <2>3 DEF Grows, OpInv
    <3>2. /\ op.kind = "delete" => g = [f EXCEPT ![op.name] = NoFile]
          /\ op.kind # "delete" =>
               g = [m \in Names |-> IF m \in op.rec.links THEN op.id
                                    ELSE IF f[m] = op.id THEN NoFile ELSE f[m]]
          /\ op.kind # "delete" => \A m \in op.rec.links : f[m] \in {NoFile, op.id}
      BY <1>0, <2>3, <3>1, RecordFits
    <3>3. CASE op.kind = "delete"
      <4>1. n # op.name
        BY <2>1, <3>3 DEF Changing
      <4>2. f \in [Names -> FileIds \cup {NoFile}]
        BY <1>0 DEF NameInv, Sound, Match, IsTable
      <4> QED
        BY <3>2, <3>3, <4>1, <4>2
    <3>4. CASE op.kind # "delete"
      <4>1. n \in op.rec.links => f[n] = op.id
        BY <1>2, <3>2, <3>4
      <4>2. f[n] = op.id => n \in op.rec.links
        <5> SUFFICES ASSUME mem.files[n] = op.id PROVE n \in op.rec.links
          BY <2>1
        <5>1. op.kind # "create"
          BY <1>0 DEF OpInv
        <5>2. op.rec.links = mem.links[op.id] /\ op.id \in FileIds
          BY <1>0, <3>1, <3>4, <5>1 DEF OpInv, Kinds
        <5> QED
          BY <1>0, <5>1, <5>2 DEF MemInv, Creating
      <4> QED
        BY <3>2, <3>4, <4>1, <4>2
    <3> QED
      BY <3>3, <3>4
  <2> QED
    BY <2>2, <2>3
<1> HIDE DEF f, g
<1>3. Abstract!OneChange(f, g)
  <2>1. \A n \in Names \ {k} : f[n] # NoFile => g[n] = f[n]
    BY <1>2
  <2>2. Abstract!NoFile = NoFile
    BY DEF Abstract!NoFile, NoFile
  <2> QED
    BY <2>1, <2>2 DEF Abstract!OneChange
<1> QED
  BY <1>3 DEF f, g

\* When the log goes on, the disk of DurableFiles makes one Change.
LEMMA LogChanges ==
    ASSUME NEW z \in MetaZones, NEW y \in MetaZones, LogInvAt(z), ExtInvAt(z), LogInvAt(y)',
           ExtInvAt(y)', Recovered = img[z].table, Recovered' = img'[y].table, NoFailure, Persist,
           (y = z /\ Grows(z)) \/ GivesWay(y)
    PROVE  Abstract!Change
<1> DEFINE f == img[z].table.files
           g == img'[y].table.files
<1>1. /\ pc \in Pre /\ pc' \in Post /\ mem' = mem /\ op' = op /\ UNCHANGED promise
      /\ pc = "persist" \/ WriteSnapshot
  BY DEF Grows, GivesWay, Pre, Post, Rolling, Persist, PersistRecord, AllocateMetaZone,
         WriteEndRecord, FinishOld, WriteSuperblock, EncodeSnapshot, WriteSnapshot, ResetOld,
         files, told
<1>2. \A i \in FileIds : synced'[i] >= synced[i]
  <2> SUFFICES ASSUME NEW i \in FileIds PROVE synced'[i] >= synced[i]
    OBVIOUS
  <2>1. synced[i] \in Nat /\ synced[i] <= Len(mem.exts[i])
    BY <1>1 DEF ExtInvAt, SyncedExtents, Pre, Rolling
  <2>2. CASE pc = "persist"
    <3>1. synced' = synced
      BY <2>2 DEF Persist, PersistRecord, AllocateMetaZone, WriteEndRecord, FinishOld,
                  WriteSuperblock, EncodeSnapshot, WriteSnapshot, ResetOld, files
    <3> QED
      BY SMT, <2>1, <3>1
  <2>3. CASE WriteSnapshot
    <3>1. synced'[i] \in {Len(mem.exts[i]), synced[i]}
      BY <2>3 DEF WriteSnapshot
    <3>2. Len(mem.exts[i]) \in Nat
      BY ListIsWritten DEF ExtInvAt
    <3> QED
      BY SMT, <2>1, <3>1, <3>2
  <2> QED
    BY <1>1, <2>2, <2>3
<1>3. f \in [Names -> FileIds \cup {NoFile}] /\ g \in [Names -> FileIds \cup {NoFile}]
  BY DEF LogInvAt, NameInv, Sound, Match, IsTable
<1>4. f # g => Abstract!OneChange(f, g)
  <2>1. f # g => Names # {}
    BY SMT, <1>3
  <2> QED
    BY <2>1, OneNameChanges
<1>5. ASSUME NEW n \in Names, promise[n] # Unknown PROVE g[n] = f[n]
  <2>1. Promised(n) /\ Promised(n)'
    BY <1>1, <1>5 DEF Promised, NoFailure
  <2>2. f[n] = promise[n] /\ g[n] = promise'[n]
    BY <2>1 DEF LogInvAt, NameInv, PromiseInv
  <2> QED
    BY <1>1, <2>2
<1>6. ASSUME NEW n \in Names, NEW i \in FileIds, f[n] = i, NEW m \in Names, g[m] = i
      PROVE  Abstract!Covers(img'[y].table.exts[i], img[z].table.exts[i])
  <2>1. i \in Alive(img[z].table) /\ i \in Alive(img'[y].table)
    BY SMT, <1>6 DEF Alive, FileIds, NoFile
  <2> QED
    BY <1>1, <1>2, <2>1, ListsGrow
<1>7. PICK e : e = img[z].table.exts  OBVIOUS
<1>8. PICK d : d = img'[y].table.exts  OBVIOUS
<1>9. /\ Recovered.files = f /\ Recovered.exts = e /\ Recovered'.files = g /\ Recovered'.exts = d
  BY <1>7, <1>8
<1>10. Abstract!FileIds = FileIds /\ Abstract!Unknown = Unknown
  BY DEF Abstract!FileIds, FileIds, Abstract!Unknown, Unknown
<1> HIDE DEF f, g
<1> QED
  BY <1>1, <1>4, <1>5, <1>6, <1>7, <1>8, <1>9, <1>10 DEF Abstract!Change

\* While an operation returns, what its caller is told is on the disk.
LEMMA ToldIsOnDisk ==
    ASSUME NEW z \in MetaZones, LogInvAt(z), Recovered = img[z].table, NoFailure, Return
    PROVE  \/ UNCHANGED promise
           \/ \E N \in SUBSET Names :
                promise' = [n \in Names |-> IF n \in N THEN Recovered.files[n] ELSE promise[n]]
<1> DEFINE f == img[z].table.files
<1>0. NameInv(z) /\ MemInv /\ OpInv /\ IsTable(mem) /\ pc # "failed"
  BY DEF LogInvAt, MemInv, NoFailure
<1>1. ASSUME NEW N \in SUBSET Names, Tell(N, mem), \A n \in N : f[n] = mem.files[n]
      PROVE  promise' = [n \in Names |-> IF n \in N THEN Recovered.files[n] ELSE promise[n]]
  BY <1>1 DEF Tell
<1>2. CASE DeleteOk
  <2>1. pc = "ok" /\ op.kind = "delete" /\ op.name \in Names
    BY <1>0, <1>2 DEF DeleteOk, OpInv
  <2>2. f[op.name] = mem.files[op.name]
    BY <1>0, <2>1, ReturnSettled
  <2>3. op.then \in {"return", "create", "rename", "error"}
    BY <1>0, <2>1 DEF OpInv
  <2>4. UNCHANGED promise \/ Tell({op.name}, mem)
    BY <1>2, <2>3 DEF DeleteOk
  <2>5. {op.name} \in SUBSET Names /\ \A n \in {op.name} : f[n] = mem.files[n]
    BY <2>1, <2>2
  <2> QED
    BY <1>1, <2>4, <2>5
<1>3. CASE RenameOk
  <2>1. /\ pc = "ok" /\ op.kind = "rename" /\ op.name \in Names /\ op.from \in Names
        /\ Tell({op.from, op.name}, mem)
    BY <1>0, <1>3 DEF RenameOk, OpInv
  <2>2. f[op.name] = mem.files[op.name] /\ f[op.from] = mem.files[op.from]
    BY <1>0, <2>1, ReturnSettled
  <2>3. /\ {op.from, op.name} \in SUBSET Names
        /\ \A n \in {op.from, op.name} : f[n] = mem.files[n]
    BY <2>1, <2>2
  <2> QED
    BY <1>1, <2>1, <2>3
<1>4. CASE LinkOk
  <2>1. pc = "ok" /\ op.kind = "link" /\ op.name \in Names /\ Tell({op.name}, mem)
    BY <1>0, <1>4 DEF LinkOk, OpInv
  <2>2. f[op.name] = mem.files[op.name]
    BY <1>0, <2>1, ReturnSettled
  <2>3. {op.name} \in SUBSET Names /\ \A n \in {op.name} : f[n] = mem.files[n]
    BY <2>1, <2>2
  <2> QED
    BY <1>1, <2>1, <2>3
<1>5. CASE SyncOk
  <2>1. /\ pc = "ok" /\ op.kind \in {"fsync", "close"} /\ op.id \in FileIds
        /\ Tell(mem.links[op.id], mem)
    BY <1>0, <1>5 DEF SyncOk, OpInv, Kinds
  <2>2. \A n \in Names : mem.files[n] = op.id => f[n] = op.id
    BY <1>0, <2>1, ReturnSettled
  <2>3. mem.links[op.id] = {n \in Names : mem.files[n] = op.id}
    BY <1>0, <2>1 DEF MemInv, Creating
  <2>4. /\ mem.links[op.id] \in SUBSET Names
        /\ \A n \in mem.links[op.id] : f[n] = mem.files[n]
    BY <2>2, <2>3
  <2> QED
    BY <1>1, <2>1, <2>4
<1>6. CASE MountOk
  <2>1. pc = "ok" /\ op.kind = "mount" /\ promise' = mem.files /\ open = {}
    BY <1>0, <1>6 DEF MountOk, OpInv
  <2>2. \A n \in Names : f[n] = mem.files[n]
    BY <1>0, <2>1 DEF NameInv, Agree, MayMiss, Changing
  <2>3. promise' = [n \in Names |-> IF n \in Names THEN Recovered.files[n] ELSE promise[n]]
    BY <1>0, <2>1, <2>2 DEF IsTable
  <2> QED
    BY <2>3
<1>7. CASE CreateOk \/ GCDone
  BY <1>7 DEF CreateOk, GCDone, told
<1> QED
  BY <1>0, <1>2, <1>3, <1>4, <1>5, <1>6, <1>7
     DEF Return, CreateFailed, DeleteFailed, RenameFailed, LinkFailed, SyncFailed, MountFailed

\* Every step of the file system is a step of DurableFiles, or changes nothing of it.
LEMMA DurableStep ==
    ASSUME Faults = {}, SingleThread, NEW z \in MetaZones, LogInvAt(z), ExtInvAt(z), NoFailure,
           [Next]_vars,
           \A y \in MetaZones : LogInvAt(y) => Recovered = img[y].table,
           \A y \in MetaZones : LogInvAt(y)' => Recovered' = img'[y].table
    PROVE  [Abstract!Next]_(Abstract!dvars)
<1>1. ResetsOnly
  BY DEF ResetsOnly
<1>2. PICK y \in MetaZones : /\ LogInvAt(y)' /\ ExtInvAt(y)'
                             /\ (y = z /\ img' = img) \/ (Persist /\ Continues(z, y))
  BY <1>1, ExtentsNext
<1>3. Recovered = img[z].table /\ Recovered' = img'[y].table
  BY <1>2
<1>4. ASSUME Recovered' = Recovered, UNCHANGED promise PROVE UNCHANGED Abstract!dvars
  BY <1>4 DEF Abstract!dvars
<1>5. ASSUME Recovered' = Recovered, NEW N \in SUBSET Names, Doubt(N) PROVE Abstract!Request
  BY <1>5 DEF Abstract!Request, Doubt, Abstract!Unknown, Unknown
<1>6. ASSUME Recovered' = Recovered, NEW N \in SUBSET Names,
             promise' = [n \in Names |-> IF n \in N THEN Recovered.files[n] ELSE promise[n]]
      PROVE  Abstract!Reply
  BY <1>6 DEF Abstract!Reply
<1>7. CASE Persist /\ Continues(z, y)
  <2>1. CASE y = z /\ Stays(z)
    <3>1. Recovered' = Recovered
      BY <1>3, <2>1 DEF Stays
    <3>2. UNCHANGED promise
      BY <1>7 DEF Persist, PersistRecord, AllocateMetaZone, WriteEndRecord, FinishOld,
                  WriteSuperblock, EncodeSnapshot, WriteSnapshot, ResetOld, told
    <3> QED
      BY <1>4, <3>1, <3>2
  <2>2. CASE (y = z /\ Grows(z)) \/ GivesWay(y)
    <3>1. Abstract!Change
      BY <1>2, <1>3, <1>7, <2>2, LogChanges
    <3> QED
      BY <3>1 DEF Abstract!Next
  <2> QED
    BY <1>7, <2>1, <2>2 DEF Continues
<1>8. CASE y = z /\ img' = img /\ ~Persist
  <2>1. Recovered' = Recovered
    BY <1>3, <1>8
  <2>2. CASE Requests
    <3>1. UNCHANGED promise \/ \E N \in SUBSET Names : Doubt(N)
      BY <2>2 DEF Requests, OpenWritableFile, ReopenWritableFile, DeleteFile, RenameFile,
          LinkFile, AddExtent, SyncFileMetadata, told
    <3> QED
      BY <1>4, <1>5, <2>1, <3>1 DEF Abstract!Next
  <2>3. CASE Return
    <3>1. \/ UNCHANGED promise
          \/ \E N \in SUBSET Names :
               promise' = [n \in Names |-> IF n \in N THEN Recovered.files[n] ELSE promise[n]]
      BY <1>3, <2>3, ToldIsOnDisk
    <3> QED
      BY <1>4, <1>6, <2>1, <3>1 DEF Abstract!Next
  <2>4. CASE GC \/ Mount \/ Crash \/ UNCHANGED vars
    <3>1. UNCHANGED promise
      BY <2>4 DEF GC, GCLock, ReplaceExtentList, GCSync, Mount, Crash, vars, told
    <3> QED
      BY <1>4, <2>1, <3>1
  <2> QED
    BY <1>8, <2>2, <2>3, <2>4 DEF Next
<1>9. CASE y = z /\ img' = img /\ Persist
  <2>1. Recovered' = Recovered
    BY <1>3, <1>9
  <2>2. UNCHANGED promise
    BY <1>9 DEF Persist, PersistRecord, AllocateMetaZone, WriteEndRecord, FinishOld,
                WriteSuperblock, EncodeSnapshot, WriteSnapshot, ResetOld, told
  <2> QED
    BY <1>4, <2>1, <2>2
<1> QED
  BY <1>2, <1>7, <1>8, <1>9

\* After MkFS the disk of DurableFiles is empty.
LEMMA DurableInit == Init => Abstract!Init
<1> SUFFICES ASSUME Init PROVE Abstract!Init
  OBVIOUS
<1>1. Recovered = img[1].table
  BY LogInit, RecoveredIs
<1>2. img[1].table = NoFiles
  BY LogInit DEF Init, Blank
<1>3. promise = [n \in Names |-> Unknown]
  BY DEF Init
<1> QED
  BY SMT, <1>1, <1>2, <1>3 DEF Abstract!Init, NoFiles, Abstract!NoFile, NoFile, Abstract!Unknown, Unknown,
     Abstract!FileIds, FileIds

DurableInv == ExtInv /\ NoFailure

\* The file system implements DurableFiles, on a device without faults and with one
\* thread: across crashes, mounts and rolls the disk changes by one change of the
\* name space at a time, at names that callers have asked about, no file that stays
\* loses an extent, and callers are told what is on the disk.
THEOREM FilesDurable == Faults = {} /\ SingleThread => (Spec => DurableSpec)
<1>1. \A y \in MetaZones : LogInvAt(y) => Recovered = img[y].table
  BY RecoveredIs
<1>2. (\A y \in MetaZones : LogInvAt(y) => Recovered = img[y].table)'
  BY <1>1, PTL
<1> SUFFICES ASSUME Faults = {}, SingleThread PROVE Spec => DurableSpec
  OBVIOUS
<1>3. Init => DurableInv
  <2>1. Init => NoFailure
    BY SMT DEF Init, NoFailure, Unknown, Misled
  <2> QED
    BY <2>1, ExtentsInit DEF DurableInv
<1>4. ResetsOnly
  BY DEF ResetsOnly
<1>5. DurableInv /\ [Next]_vars => DurableInv'
  <2> SUFFICES ASSUME NEW z \in MetaZones, LogInvAt(z), ExtInvAt(z), NoFailure, [Next]_vars
               PROVE  ExtInv' /\ NoFailure'
    BY DEF DurableInv, ExtInv
  <2>1. NoFailure'
    BY NothingFails
  <2>2. ExtInv'
    BY <1>4, ExtentsNext DEF ExtInv
  <2> QED
    BY <2>1, <2>2
<1>6. DurableInv /\ [Next]_vars => [Abstract!Next]_(Abstract!dvars)
  <2> SUFFICES ASSUME NEW z \in MetaZones, LogInvAt(z), ExtInvAt(z), NoFailure, [Next]_vars
               PROVE  [Abstract!Next]_(Abstract!dvars)
    BY DEF DurableInv, ExtInv
  <2>1. \A y \in MetaZones : LogInvAt(y)' => Recovered' = img'[y].table
    BY <1>2
  <2> QED
    BY <1>1, <2>1, DurableStep
<1> QED
  BY <1>3, <1>5, <1>6, DurableInit, PTL DEF Spec, DurableSpec, Abstract!Spec

=============================================================================

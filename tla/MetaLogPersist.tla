--------------------------- MODULE MetaLogPersist ---------------------------
(***************************************************************************)
(* What replaying one record does to file tables,                          *)
(* what zone a mount would choose at every point of a roll, and that       *)
(* PersistRecord and RollMetaZoneLocked keep LogInv: the log that a mount  *)
(* would choose goes from lacking the change of the operation in progress  *)
(* to having it in one step, whether by its record or by a snapshot.       *)
(***************************************************************************)
EXTENDS MetaLog, WellFoundedInduction, TLAPS

\* A leaf is first-order reasoning unless it cites SMT.
USE Zenon

\* A bounded set of naturals has a greatest element.
LEMMA Greatest ==
    ASSUME NEW S \in SUBSET Nat, S # {}, NEW b \in Nat, \A s \in S : s <= b
    PROVE  \E m \in S : \A s \in S : s <= m
<1> DEFINE Gaps == {b - s : s \in S}
           Less == OpToRel(<, Nat)
<1>1. \A s \in S : s \in Nat /\ b - s \in Nat  BY SMT
<1>2. \A x, y \in Nat : x < y => <<x, y>> \in Less  BY DEF OpToRel
<1>3. IsWellFoundedOn(Less, Nat)  BY NatLessThanWellFounded
<1>4. Gaps # {} /\ \A g \in Gaps : \E s \in S : g = b - s  OBVIOUS
<1>5. \A s \in S : b - s \in Gaps  OBVIOUS
<1> HIDE DEF Less, Gaps
<1>6. Gaps \subseteq Nat  BY <1>1, <1>4
<1>7. PICK g \in Gaps : \A h \in Gaps : <<h, g>> \notin Less  BY <1>3, <1>4, <1>6, WFMin
<1>8. PICK m \in S : g = b - m  BY <1>4
<1>9. ASSUME NEW s \in S PROVE s <= m
  <2>1. <<b - s, b - m>> \notin Less  BY <1>5, <1>7, <1>8
  <2>2. ~(b - s < b - m)  BY <1>1, <1>2, <2>1
  <2> QED  BY SMT, <1>1, <2>2
<1> QED  BY <1>9

\* Mount takes the leading zone, and no other.
LEMMA Leading ==
    ASSUME super \in [MetaZones -> Nat], NEW z \in MetaZones, Lead(z)
    PROVE  /\ MountSucceeds
           /\ \A y \in MetaZones : MountsFrom(y) <=> y = z
           /\ Recovered = img[z].table
<1>1. MountsFrom(z)
  BY SMT, MetaLogAssumption DEF MountsFrom, Valid, Before, Lead, MetaZones, NoSuper
<1>2. ASSUME NEW y \in MetaZones, MountsFrom(y), y # z PROVE FALSE
  <2>1. super[y] < super[z]  BY <1>2 DEF MountsFrom, Valid, Lead
  <2>2. z \in Valid /\ Before(z, y)  BY <2>1 DEF Valid, Before, Lead
  <2> QED  BY <1>2, <2>2 DEF MountsFrom, Lead
<1>3. MountSucceeds
  BY SMT, <1>1 DEF MountSucceeds, Lead, BadSuper
<1>4. (CHOOSE y \in MetaZones : MountsFrom(y)) = z  BY <1>1, <1>2
<1> QED  BY <1>1, <1>2, <1>3, <1>4 DEF Recovered

-----------------------------------------------------------------------------
(***************************************************************************)
(* File tables.                                                            *)
(***************************************************************************)
\* Giving a name a file changes that name only.
LEMMA SetFileTable ==
    ASSUME NEW t, IsTable(t), NEW n \in Names, NEW i \in FileIds \cup {NoFile}
    PROVE  /\ IsTable(SetFile(t, n, i))
           /\ SetFile(t, n, i).files = [t.files EXCEPT ![n] = i]
           /\ SetFile(t, n, i).links = t.links
BY SMT DEF IsTable, SetFile

\* Setting the links of a file changes those only.
LEMMA SetLinksTable ==
    ASSUME NEW t, IsTable(t), NEW i \in FileIds, NEW N \in SUBSET Names
    PROVE  /\ IsTable(SetLinks(t, i, N))
           /\ SetLinks(t, i, N).files = t.files
           /\ SetLinks(t, i, N).links = [t.links EXCEPT ![i] = N]
BY SMT DEF IsTable, SetLinks

\* Setting the extents of a file changes neither names nor links.
LEMMA SetExtsTable ==
    ASSUME NEW t, IsTable(t), NEW i, NEW e
    PROVE  /\ IsTable(SetExts(t, i, e))
           /\ SetExts(t, i, e).files = t.files
           /\ SetExts(t, i, e).links = t.links
BY SMT DEF IsTable, SetExts

\* Dropping a file leaves the names and the links of all others alone.
LEMMA DropTable ==
    ASSUME NEW t, IsTable(t), NEW i \in FileIds
    PROVE  /\ IsTable(Drop(t, i))
           /\ Drop(t, i).files = t.files
           /\ i \in Alive(t) => Drop(t, i).links = t.links
           /\ i \notin Alive(t) => Drop(t, i).links = [t.links EXCEPT ![i] = {}]
<1>1. CASE i \in Alive(t)  BY <1>1 DEF Drop
<1>2. CASE i \notin Alive(t)
  <2> DEFINE u == SetLinks(t, i, {})
  <2>1. IsTable(u) /\ u.files = t.files /\ u.links = [t.links EXCEPT ![i] = {}]
    BY SMT, SetLinksTable
  <2>2. Drop(t, i) = SetExts(u, i, << >>)  BY <1>2 DEF Drop
  <2> HIDE DEF u
  <2> QED  BY SMT, <1>2, <2>1, <2>2, SetExtsTable
<1> QED  BY <1>1, <1>2

\* Taking a name from a file, giving it one and renaming it keep them together.
LEMMA Unname ==
    ASSUME NEW t, Match(t), NEW n \in Names, NEW i \in FileIds, t.files[n] = i,
           NEW u, u = RemoveLinkName(t, i, n)
    PROVE  Match(u) /\ u.files = [t.files EXCEPT ![n] = NoFile]
<1> DEFINE v == SetFile(t, n, NoFile)
           N == t.links[i] \ {n}
<1>0. IsTable(t) /\ N \in SUBSET Names  BY DEF Match, IsTable
<1>1. IsTable(v) /\ v.files = [t.files EXCEPT ![n] = NoFile] /\ v.links = t.links
  BY SMT, <1>0, SetFileTable
<1>2. IsTable(u) /\ u.files = [t.files EXCEPT ![n] = NoFile] /\ u.links = [t.links EXCEPT ![i] = N]
  <2>1. u = SetLinks(v, i, N)  BY DEF RemoveLinkName
  <2> HIDE DEF v, N
  <2> QED  BY SMT, <1>0, <1>1, <2>1, SetLinksTable
<1>3. ASSUME NEW j \in FileIds PROVE u.links[j] = {k \in Names : u.files[k] = j}
  <2>1. \A k \in Names : u.files[k] = j <=> t.files[k] = j /\ k # n
    BY SMT, <1>0, <1>2 DEF IsTable, FileIds, NoFile
  <2>2. t.links[j] = {k \in Names : t.files[k] = j}  BY DEF Match
  <2>3. u.links[j] = t.links[j] \ {n}  BY SMT, <1>0, <1>2, <2>2 DEF IsTable
  <2> QED  BY <2>1, <2>2, <2>3
<1> QED  BY <1>2, <1>3 DEF Match

\* AddLinkName of a free name.
LEMMA Name ==
    ASSUME NEW t, Match(t), NEW n \in Names, NEW i \in FileIds, t.files[n] = NoFile,
           NEW u, u = AddLinkName(t, i, n)
    PROVE  Match(u) /\ u.files = [t.files EXCEPT ![n] = i]
<1> DEFINE v == SetFile(t, n, i)
           N == t.links[i] \cup {n}
<1>0. IsTable(t) /\ N \in SUBSET Names  BY DEF Match, IsTable
<1>1. IsTable(v) /\ v.files = [t.files EXCEPT ![n] = i] /\ v.links = t.links
  BY SMT, <1>0, SetFileTable
<1>2. IsTable(u) /\ u.files = [t.files EXCEPT ![n] = i] /\ u.links = [t.links EXCEPT ![i] = N]
  <2>1. u = SetLinks(v, i, N)  BY DEF AddLinkName
  <2> HIDE DEF v, N
  <2> QED  BY SMT, <1>0, <1>1, <2>1, SetLinksTable
<1>3. ASSUME NEW j \in FileIds PROVE u.links[j] = {k \in Names : u.files[k] = j}
  <2>1. \A k \in Names : u.files[k] = j <=> t.files[k] = j \/ (k = n /\ j = i)
    BY SMT, <1>0, <1>2 DEF IsTable, FileIds, NoFile
  <2>2. t.links[j] = {k \in Names : t.files[k] = j}  BY DEF Match
  <2>3. u.links[j] = IF j = i THEN t.links[j] \cup {n} ELSE t.links[j]
    BY <1>0, <1>2 DEF IsTable
  <2> QED  BY <2>1, <2>2, <2>3
<1> QED  BY <1>2, <1>3 DEF Match

\* RenameLink to a free name.
LEMMA Rename ==
    ASSUME NEW t, Match(t), NEW m \in Names, NEW n \in Names, m # n,
           NEW i \in FileIds, t.files[m] = i, t.files[n] = NoFile,
           NEW u, u = RenameLink(t, i, m, n)
    PROVE  /\ Match(u) /\ u.files[m] = NoFile /\ u.files[n] = i
           /\ \A k \in Names \ {m, n} : u.files[k] = t.files[k]
<1> DEFINE v == SetFile(t, m, NoFile)
           w == SetFile(v, n, i)
           N == (t.links[i] \ {m}) \cup {n}
<1>0. IsTable(t) /\ N \in SUBSET Names  BY DEF Match, IsTable
<1>1. IsTable(v) /\ v.files = [t.files EXCEPT ![m] = NoFile] /\ v.links = t.links
  BY SMT, <1>0, SetFileTable
<1>2. IsTable(w) /\ w.files = [v.files EXCEPT ![n] = i] /\ w.links = t.links
  <2> HIDE DEF v
  <2> QED  BY SMT, <1>1, SetFileTable
<1>3. IsTable(u) /\ u.files = w.files /\ u.links = [t.links EXCEPT ![i] = N]
  <2>1. u = SetLinks(w, i, N)  BY DEF RenameLink
  <2> HIDE DEF w, N
  <2> QED  BY SMT, <1>0, <1>2, <2>1, SetLinksTable
<1> HIDE DEF v, w
<1>4. /\ u.files[m] = NoFile /\ u.files[n] = i
      /\ \A k \in Names \ {m, n} : u.files[k] = t.files[k]
  <2>1. v.files[m] = NoFile /\ \A k \in Names \ {m} : v.files[k] = t.files[k]
    BY <1>0, <1>1 DEF IsTable
  <2>2. w.files[n] = i /\ \A k \in Names \ {n} : w.files[k] = v.files[k]
    BY <1>1, <1>2 DEF IsTable
  <2> QED  BY <1>3, <2>1, <2>2
<1>5. ASSUME NEW j \in FileIds PROVE u.links[j] = {k \in Names : u.files[k] = j}
  <2>1. \A k \in Names : u.files[k] = j <=> (t.files[k] = j /\ k # m) \/ (k = n /\ j = i)
    BY SMT, <1>4 DEF FileIds, NoFile
  <2>2. t.links[j] = {k \in Names : t.files[k] = j}  BY DEF Match
  <2>3. u.links[j] = IF j = i THEN (t.links[j] \ {m}) \cup {n} ELSE t.links[j]
    BY <1>0, <1>3 DEF IsTable
  <2> QED  BY <2>1, <2>2, <2>3
<1> QED  BY <1>3, <1>4, <1>5 DEF Match

\* Files with the same names in two tables have the same links.
LEMMA SameLinks ==
    ASSUME NEW t, NEW u, Match(t), Match(u), NEW j \in FileIds,
           \A k \in Names : u.files[k] = j <=> t.files[k] = j
    PROVE  u.links[j] = t.links[j]
<1>1. t.links[j] = {k \in Names : t.files[k] = j} /\ u.links[j] = {k \in Names : u.files[k] = j}
  BY DEF Match
<1> QED  BY <1>1

-----------------------------------------------------------------------------
(***************************************************************************)
(* Replaying one record.                                                   *)
(***************************************************************************)
\* An end record changes nothing in the table that is recovered.
LEMMA ReplayEnd ==
    ASSUME NEW m, Sound(m), NEW r, r.tag = "end"
    PROVE  /\ Sound(Replay(m, r))
           /\ Replay(m, r).state = m.state
           /\ Replay(m, r).table = m.table
           /\ Replay(m, r).next = m.next
           /\ m.state = "ok" => Replay(m, r).ended
BY DEF Replay, Sound, IsImage

\* A snapshot is recovered as it is.
LEMMA ReplaySnapshot ==
    ASSUME NEW r, r.tag = "snapshot", Match(r.table)
    PROVE  /\ Sound(Replay(Blank, r))
           /\ Replay(Blank, r).state = "ok"
           /\ ~Replay(Blank, r).ended
           /\ Replay(Blank, r).table = r.table
<1> DEFINE ids == Alive(r.table) \cup {0}
           max == CHOOSE i \in ids : \A j \in ids : j <= i
<1>1. ids \in SUBSET Nat /\ ids # {} /\ \A i \in ids : i <= MaxFileId
  BY SMT, MetaLogAssumption DEF Alive, Match, IsTable, FileIds, NoFile
<1>2. max \in ids /\ \A j \in ids : j <= max
  <2>1. \E i \in ids : \A j \in ids : j <= i
    <3> HIDE DEF ids
    <3> QED  BY <1>1, Greatest, MetaLogAssumption
  <2> QED  BY <2>1
<1>3. Replay(Blank, r) =
        [state |-> "ok", ended |-> FALSE, table |-> r.table, next |-> 1 + max]
  <2>1. /\ Blank.ended = FALSE /\ Blank.state = "none" /\ Blank.next - 1 = 0
        /\ Blank = [state |-> "none", ended |-> FALSE, table |-> NoFiles, next |-> 1]
    BY SMT DEF Blank
  <2>2. Replay(Blank, r) = DecodeSnapshotFrom(Blank, r)
    BY <2>1 DEF Replay
  <2>3. DecodeSnapshotFrom(Blank, r) =
          [Blank EXCEPT !.state = "ok", !.table = r.table, !.next = 1 + max]
    BY <2>1 DEF DecodeSnapshotFrom
  <2> HIDE DEF max
  <2> QED  BY <2>1, <2>2, <2>3
<1>4. \A n \in Names : r.table.files[n] \in ids
  <2>1. ASSUME NEW n \in Names PROVE r.table.files[n] \in ids
    <3>1. CASE r.table.files[n] = NoFile  BY <3>1 DEF NoFile
    <3>2. CASE r.table.files[n] # NoFile  BY <3>2 DEF Alive
    <3> QED  BY <3>1, <3>2
  <2> QED  BY <2>1
<1> HIDE DEF max, ids
<1>5. max \in Nat /\ \A n \in Names : r.table.files[n] \in Nat /\ r.table.files[n] <= max
  BY <1>1, <1>2, <1>4
<1>6. 1 + max \in Nat \ {0} /\ \A n \in Names : r.table.files[n] < 1 + max
  BY SMT, <1>5
<1> QED  BY SMT, <1>3, <1>6 DEF Sound, IsImage

\* A deletion record of a file under one of its names takes the name away.
LEMMA ReplayDeletion ==
    ASSUME NEW m, Sound(m), m.state = "ok", ~m.ended,
           NEW r, r.tag = "deletion", r.id \in FileIds, r.name \in Names,
           m.table.files[r.name] = r.id
    PROVE  /\ Sound(Replay(m, r))
           /\ Replay(m, r).state = "ok"
           /\ ~Replay(m, r).ended
           /\ Replay(m, r).table.files = [m.table.files EXCEPT ![r.name] = NoFile]
<1> DEFINE t == m.table
           u == RemoveLinkName(t, r.id, r.name)
           d == Drop(u, r.id)
<1>0. Match(t) /\ IsTable(t)  BY DEF Sound, Match
<1>1. Match(u) /\ u.files = [t.files EXCEPT ![r.name] = NoFile]
  <2> HIDE DEF t, u
  <2> QED  BY SMT, <1>0, Unname DEF t, u
<1>3. Match(d) /\ d.files = u.files
  <2> HIDE DEF u
  <2>0. IsTable(u)  BY <1>1 DEF Match
  <2>1. CASE r.id \in Alive(u)
    <3>1. IsTable(d) /\ d.files = u.files /\ d.links = u.links  BY <2>0, <2>1, DropTable
    <3> HIDE DEF d
    <3> QED  BY SMT, <3>1, <1>1 DEF Match
  <2>2. CASE r.id \notin Alive(u)
    <3>1. u.links[r.id] = {}
      <4>1. r.id # NoFile  BY SMT DEF FileIds, NoFile
      <4>2. \A n \in Names : u.files[n] # r.id  BY <2>2, <4>1 DEF Alive
      <4> QED  BY SMT, <4>2, <1>1 DEF Match
    <3>2. IsTable(d) /\ d.files = u.files /\ d.links = [u.links EXCEPT ![r.id] = {}]
      BY <2>0, <2>2, DropTable
    <3>3. d.links = u.links
      <4> HIDE DEF d
      <4> QED  BY <2>0, <3>1, <3>2 DEF IsTable
    <3> HIDE DEF d
    <3> QED  BY SMT, <3>2, <3>3, <1>1 DEF Match
  <2> QED  BY <2>1, <2>2
<1>4. Replay(m, r) = [state |-> "ok", ended |-> m.ended, table |-> d, next |-> m.next]
  <2>1. Replay(m, r) = DecodeFileDeletionFrom(m, r)  BY DEF Replay
  <2>2. DecodeFileDeletionFrom(m, r) = [m EXCEPT !.table = d]
    BY DEF DecodeFileDeletionFrom
  <2>3. m = [state |-> "ok", ended |-> m.ended, table |-> m.table, next |-> m.next]
    BY DEF Sound, IsImage
  <2>4. [m EXCEPT !.table = d] = [state |-> "ok", ended |-> m.ended, table |-> d, next |-> m.next]
    <3> HIDE DEF d
    <3> QED  BY SMT, <2>3
  <2> QED  BY <2>1, <2>2, <2>4
<1> HIDE DEF d, u
<1>5. \A n \in Names : d.files[n] < m.next
  BY SMT, <1>0, <1>1, <1>3 DEF Sound, IsTable, NoFile
<1>6. /\ Replay(m, r).table = d /\ Replay(m, r).state = "ok" /\ Replay(m, r).ended = m.ended
      /\ Replay(m, r).next = m.next /\ IsImage(Replay(m, r))
  BY SMT, <1>4 DEF IsImage
<1>7. m.next \in Nat \ {0}  BY DEF Sound
<1>8. Sound(Replay(m, r))
  BY <1>3, <1>5, <1>6, <1>7 DEF Sound
<1> QED  BY <1>1, <1>3, <1>6, <1>8

\* An update record gives the file the names it lists, if these are free or the
\* file's own.  A file that is not known yet comes with one name.
LEMMA ReplayUpdate ==
    ASSUME NEW m, Sound(m), m.state = "ok", ~m.ended,
           NEW r, r.tag \in {"update", "replace"}, r.id \in FileIds, r.links \in SUBSET Names,
           \A n \in r.links : m.table.files[n] \in {NoFile, r.id},
           \/ r.id \in Alive(m.table)
           \/ r.id \notin Alive(m.table) /\ \E n \in Names : r.links = {n}
    PROVE  /\ Sound(Replay(m, r))
           /\ Replay(m, r).state = "ok"
           /\ ~Replay(m, r).ended
           /\ Replay(m, r).table.files =
                [n \in Names |-> IF n \in r.links THEN r.id
                                 ELSE IF m.table.files[n] = r.id THEN NoFile
                                 ELSE m.table.files[n]]
<1> DEFINE t     == m.table
           known == r.id \in Alive(t)
           under == IF known THEN r.links ELSE {CHOOSE n \in r.links : TRUE}
           freed == [n \in Names |-> IF known /\ n \in t.links[r.id] THEN NoFile ELSE t.files[n]]
           fs    == [n \in Names |-> IF n \in under /\ freed[n] = NoFile THEN r.id ELSE freed[n]]
           gs    == [n \in Names |-> IF n \in r.links THEN r.id
                                     ELSE IF t.files[n] = r.id THEN NoFile ELSE t.files[n]]
           ls    == [t.links EXCEPT ![r.id] = r.links]
           es    == [t.exts EXCEPT ![r.id] = IF known /\ r.tag = "update"
                                             THEN t.exts[r.id] \o r.exts ELSE r.exts]
           u     == [files |-> fs, links |-> ls, exts |-> es]
           nx    == IF r.id >= m.next THEN r.id + 1 ELSE m.next
<1>0. /\ IsTable(t) /\ m.next \in Nat \ {0} /\ r.id \in Nat \ {0} /\ NoFile = 0
      /\ \A n \in Names : t.files[n] \in FileIds \cup {NoFile}
      /\ \A n \in Names : t.files[n] \in Nat /\ t.files[n] < m.next
  BY SMT, MetaLogAssumption DEF Sound, Match, IsTable, FileIds, NoFile
<1>1. under = r.links
  <2>1. CASE known  BY <2>1
  <2>2. CASE ~known
    <3>1. PICK n \in Names : r.links = {n}  BY <2>2
    <3> QED  BY <2>2, <3>1
  <2> QED  BY <2>1, <2>2
<1>2. known => t.links[r.id] = {k \in Names : t.files[k] = r.id}
  BY DEF Sound, Match
<1>3. ~known => \A n \in Names : t.files[n] # r.id  BY <1>0 DEF Alive
<1>4. \A n \in Names : freed[n] = IF t.files[n] = r.id THEN NoFile ELSE t.files[n]
  BY <1>2, <1>3
<1>5. fs = gs
  <2>1. ASSUME NEW n \in Names PROVE fs[n] = gs[n]
    <3>1. CASE n \in r.links
      <4>1. freed[n] = NoFile  BY <1>4, <3>1
      <4> HIDE DEF freed, under
      <4> QED  BY <4>1, <3>1, <1>1
    <3>2. CASE n \notin r.links
      <4> HIDE DEF freed, under
      <4> QED  BY <1>4, <3>2, <1>1
    <3> QED  BY <3>1, <3>2
  <2> HIDE DEF freed, under
  <2> QED  BY <2>1
<1>6. ~(known /\ \E n \in t.links[r.id] : t.files[n] = NoFile)  BY <1>2, <1>0
<1>7. Replay(m, r) = [state |-> "ok", ended |-> m.ended, table |-> u, next |-> nx]
  <2>1. Replay(m, r) = DecodeFileUpdateFrom(m, r)  BY DEF Replay
  <2>2. DecodeFileUpdateFrom(m, r) = [m EXCEPT !.table = u, !.next = nx]
    BY <1>6 DEF DecodeFileUpdateFrom
  <2>3. m = [state |-> "ok", ended |-> m.ended, table |-> m.table, next |-> m.next]
    BY DEF Sound, IsImage
  <2>4. [m EXCEPT !.table = u, !.next = nx] =
          [state |-> "ok", ended |-> m.ended, table |-> u, next |-> nx]
    <3> DEFINE v == [m EXCEPT !.table = u]
    <3>1. v = [state |-> "ok", ended |-> m.ended, table |-> u, next |-> m.next]
      <4> HIDE DEF u
      <4> QED  BY SMT, <2>3
    <3>2. [v EXCEPT !.next = nx] = [state |-> "ok", ended |-> m.ended, table |-> u, next |-> nx]
      <4> HIDE DEF u, nx, v
      <4> QED  BY SMT, <3>1
    <3> HIDE DEF u, nx
    <3> QED  BY <3>2
  <2> QED  BY <2>1, <2>2, <2>4
<1> HIDE DEF fs, es, known, under, freed
<1>8. IsTable(u)
  <2>1. gs \in [Names -> FileIds \cup {NoFile}]  BY <1>0
  <2>2. ls \in [FileIds -> SUBSET Names]  BY <1>0 DEF IsTable
  <2> HIDE DEF gs, ls
  <2> QED  BY <1>5, <2>1, <2>2 DEF IsTable
<1>9. u.files = gs /\ u.links = ls  BY <1>5
<1>10. nx \in Nat \ {0} /\ \A n \in Names : gs[n] < nx  BY SMT, <1>0
<1>11. ASSUME NEW j \in FileIds PROVE ls[j] = {k \in Names : gs[k] = j}
  <2>0. j # NoFile  BY SMT DEF FileIds, NoFile
  <2>1. CASE j = r.id
    <3>1. ls[j] = r.links  BY <2>1, <1>0 DEF IsTable
    <3>2. \A k \in Names : gs[k] = j <=> k \in r.links  BY <1>0, <2>1
    <3> HIDE DEF gs, ls
    <3> QED  BY <3>1, <3>2
  <2>2. CASE j # r.id
    <3>1. ls[j] = t.links[j]  BY <2>2, <1>0 DEF IsTable
    <3>2. \A k \in Names : gs[k] = j <=> t.files[k] = j  BY <2>0, <2>2, <1>0
    <3>3. t.links[j] = {k \in Names : t.files[k] = j}  BY DEF Sound, Match
    <3> HIDE DEF gs, ls
    <3> QED  BY <3>1, <3>2, <3>3
  <2> QED  BY <2>1, <2>2
<1> HIDE DEF u, nx
<1>12. /\ Replay(m, r).table = u /\ Replay(m, r).state = "ok" /\ Replay(m, r).ended = m.ended
       /\ Replay(m, r).next = nx /\ IsImage(Replay(m, r))
  BY SMT, <1>7 DEF IsImage
<1>13. Sound(Replay(m, r))
  <2> HIDE DEF gs, ls
  <2> QED  BY SMT, <1>8, <1>9, <1>10, <1>11, <1>12 DEF Sound, Match
<1> QED  BY <1>9, <1>12, <1>13

-----------------------------------------------------------------------------
(***************************************************************************)
(* The device and the roll.                                                *)
(***************************************************************************)
\* The device faults that the theorems allow: resets that fail.
ResetsOnly == Faults \subseteq {"reset"}

\* A reset that does not put a zone offline gives it its capacity back.
LEMMA Capacities == ResetsOnly => ResetCapacities = {MetaCapacity}
BY DEF ResetsOnly, ResetCapacities

\* Steps of callers leave the device and the log alone.
LEMMA RollFrame ==
    ASSUME NEW z \in MetaZones, RollInv(z), UNCHANGED <<device, cur, old, seq>>,
           pc \in {"idle", "persist", "ok", "failed"}, op.kind # "mount" \/ pc = "ok",
           pc' \in {"idle", "persist", "allocate"}
    PROVE  RollInv(z)'
<1>1. pc' \in Points \ {"unmountable"} /\ pc' \notin Rolling \cup {"down", "reset"}
  BY DEF Points, Rolling
<1>2. z = cur /\ seq = super[cur] /\ ~img[cur].ended
  BY DEF RollInv, Rolling, Pre
<1>3. UNCHANGED <<cap, super, img, cur, old, seq>>  BY DEF device
<1>4. Lead(z)'  BY <1>3 DEF RollInv, Lead
<1> QED  BY <1>1, <1>2, <1>3, <1>4 DEF RollInv, IsEmpty, Rolling

\* A crash leaves the device as it is.
LEMMA RollDown ==
    ASSUME NEW z \in MetaZones, RollInv(z), UNCHANGED device, PowerDown
    PROVE  RollInv(z)'
<1>1. pc' = "down" /\ cur' = 1 /\ old' = 1 /\ seq' = 0 /\ 1 \in MetaZones
  BY SMT, MetaLogAssumption DEF PowerDown, MetaZones
<1>2. UNCHANGED <<cap, super, img>>  BY DEF device
<1>3. Lead(z)'  BY <1>2 DEF RollInv, Lead
<1> QED  BY <1>1, <1>2, <1>3 DEF RollInv, IsEmpty, Rolling, Points

\* The image of a zone that is not empty is the only thing a record changes.
LEMMA Appended ==
    ASSUME NEW z \in MetaZones, RollInv(z), NEW y \in MetaZones, super[y] > NoSuper,
           NEW r, r.tag # "super", NEW n \in Nat, AddRecord(y, r, n)
    PROVE  /\ super' = super
           /\ cap' \in [MetaZones -> Nat] /\ cap'[y] = cap[y] - n
           /\ \A x \in MetaZones \ {y} : cap'[x] = cap[x]
           /\ img' = [img EXCEPT ![y] = Replay(img[y], r)]
<1>1. super[y] # NoSuper  BY SMT DEF NoSuper
<1>2. super' = [super EXCEPT ![y] = super[y]]  BY <1>1 DEF AddRecord
<1>3. super' = super  BY <1>2 DEF RollInv
<1>4. cap' = [cap EXCEPT ![y] = cap[y] - n] /\ cap[y] >= n  BY DEF AddRecord
<1>5. img' = [img EXCEPT ![y] = Replay(img[y], r)]  BY DEF AddRecord
<1> QED  BY SMT, <1>3, <1>4, <1>5 DEF RollInv

\* PersistRecord finds room in the current zone.
LEMMA RollPersisted ==
    ASSUME NEW z \in MetaZones, RollInv(z), pc = "persist", pc' = "ok", OpInv,
           op.rec.tag # "super", AddRecord(cur, op.rec, 1), UNCHANGED <<cur, old, seq>>,
           IsImage(Replay(img[cur], op.rec)), Replay(img[cur], op.rec).state = "ok",
           ~Replay(img[cur], op.rec).ended
    PROVE  RollInv(z)' /\ img'[z] = Replay(img[z], op.rec)
<1>1. z = cur /\ seq = super[cur] /\ super[cur] > NoSuper
  BY DEF RollInv, Rolling, Lead
<1>2. /\ super' = super /\ cap' \in [MetaZones -> Nat]
      /\ \A x \in MetaZones \ {cur} : cap'[x] = cap[x]
      /\ img' = [img EXCEPT ![cur] = Replay(img[cur], op.rec)]
  BY <1>1, Appended
<1>3. DOMAIN img' = MetaZones /\ img'[z] = Replay(img[z], op.rec)
      /\ \A x \in MetaZones \ {z} : img'[x] = img[x]
  BY <1>1, <1>2 DEF RollInv
<1>4. Lead(z)'  BY <1>1, <1>2, <1>3 DEF RollInv, Lead
<1>5. \A y \in MetaZones : IsEmpty(y)' => y # z /\ IsEmpty(y)
  BY SMT, <1>1, <1>2 DEF IsEmpty, NoSuper
<1>6. \A y \in MetaZones : IsImage(img'[y])
  BY <1>1, <1>3 DEF RollInv
<1> QED  BY <1>1, <1>2, <1>3, <1>4, <1>5, <1>6 DEF RollInv, Points, Rolling

\* AllocateMetaZone takes an empty zone, which no log is in.
LEMMA RollAllocate ==
    ASSUME ResetsOnly, NEW z \in MetaZones, RollInv(z), Sound(img[z]), AllocateMetaZone
    PROVE  RollInv(z)' /\ img'[z] = img[z] /\ pc' \in Pre \ {"persist", "snapshot"}
<1>1. z = cur /\ seq = super[cur] /\ super[cur] > NoSuper /\ pc = "allocate"
  BY DEF AllocateMetaZone, RollInv, Rolling, Lead
<1>2. UNCHANGED <<seq, op>>  BY DEF AllocateMetaZone
<1>3. CASE pc' = "failed" /\ UNCHANGED <<device, cur, old>>
  <2>1. UNCHANGED <<cap, super, img, cur, old, seq>>  BY <1>2, <1>3 DEF device
  <2>2. Lead(z)'  BY <2>1 DEF RollInv, Lead
  <2>3. pc' \in Pre \ {"persist", "snapshot"}  BY <1>3 DEF Pre, Rolling
  <2> QED  BY <1>1, <1>2, <1>3, <2>1, <2>2, <2>3 DEF RollInv, IsEmpty, Points, Rolling, Pre
<1>4. ASSUME NEW y \in MetaZones \ {cur},
             IF IsEmpty(y) THEN UNCHANGED device ELSE \E c \in ResetCapacities : Reset(y, c),
             cur' = y, old' = cur, pc' = "end"
      PROVE  RollInv(z)' /\ img'[z] = img[z]
  <2>1. /\ cap' \in [MetaZones -> Nat] /\ super' \in [MetaZones -> Nat] /\ DOMAIN img' = MetaZones
        /\ cap'[y] = MetaCapacity /\ super'[y] = NoSuper /\ img'[y] = Blank
        /\ \A x \in MetaZones \ {y} : cap'[x] = cap[x] /\ super'[x] = super[x] /\ img'[x] = img[x]
    <3>1. CASE IsEmpty(y)  BY <1>4, <3>1 DEF RollInv, device, IsEmpty
    <3>2. CASE ~IsEmpty(y)
      <4>1. Reset(y, MetaCapacity)  BY <1>4, <3>2, Capacities
      <4> QED  BY <4>1, MetaLogAssumption DEF RollInv, Reset, NoSuper
    <3> QED  BY <3>1, <3>2
  <2>2. IsImage(Blank)  BY DEF IsImage, Blank
  <2>3. Lead(z)'  BY <1>1, <1>4, <2>1 DEF RollInv, Lead
  <2>4. \A x \in MetaZones : IsEmpty(x)' => cap'[x] = MetaCapacity /\ img'[x] = Blank
    BY <2>1 DEF RollInv, IsEmpty
  <2>5. \A x \in MetaZones : IsImage(img'[x])  BY <2>1, <2>2 DEF RollInv
  <2>6. z # y /\ img'[z] = img[z]  BY <1>1, <2>1
  <2>7. IsEmpty(cur)' /\ seq' = super'[old']  BY <1>1, <1>2, <1>4, <2>1 DEF IsEmpty
  <2> QED
    BY <1>1, <1>2, <1>4, <2>1, <2>3, <2>4, <2>5, <2>6, <2>7 DEF RollInv, Points, Rolling
<1> QED  BY <1>3, <1>4 DEF AllocateMetaZone, Pre, Rolling

\* The end record leaves the old log in the lead.
LEMMA RollEnd ==
    ASSUME ResetsOnly, NEW z \in MetaZones, RollInv(z), Sound(img[z]), WriteEndRecord
    PROVE  /\ RollInv(z)' /\ Sound(img'[z])
           /\ img'[z].table = img[z].table /\ img'[z].next = img[z].next
           /\ pc' = "finish"
<1>1. /\ z = old /\ old # cur /\ super[old] > NoSuper /\ pc = "end" /\ pc' = "finish"
      /\ UNCHANGED <<seq, op, cur, old>>
  BY DEF WriteEndRecord, RollInv, Rolling, Lead, roll
<1>2. CASE cap[old] = 0 /\ UNCHANGED device
  <2>1. UNCHANGED <<cap, super, img>>  BY <1>2 DEF device
  <2>2. Lead(z)'  BY <2>1 DEF RollInv, Lead
  <2> QED  BY <1>1, <1>2, <2>1, <2>2 DEF RollInv, IsEmpty, Points, Rolling
<1>3. CASE AddRecord(old, [tag |-> "end"], 1)
  <2> DEFINE r == [tag |-> "end"]
  <2>1. /\ super' = super /\ cap' \in [MetaZones -> Nat]
        /\ \A x \in MetaZones \ {old} : cap'[x] = cap[x]
        /\ img' = [img EXCEPT ![old] = Replay(img[old], r)]
    BY <1>1, <1>3, Appended
  <2>2. /\ Sound(Replay(img[z], r)) /\ Replay(img[z], r).state = "ok"
        /\ Replay(img[z], r).table = img[z].table /\ Replay(img[z], r).next = img[z].next
        /\ Replay(img[z], r).ended
    BY ReplayEnd DEF RollInv, Lead
  <2>3. /\ DOMAIN img' = MetaZones /\ img'[z] = Replay(img[z], r)
        /\ \A x \in MetaZones \ {z} : img'[x] = img[x]
    BY <1>1, <2>1 DEF RollInv
  <2> HIDE DEF r
  <2>4. Lead(z)'  BY <1>1, <2>1, <2>2, <2>3 DEF RollInv, Lead
  <2>5. \A y \in MetaZones : IsEmpty(y)' => y # z /\ IsEmpty(y)
    BY SMT, <1>1, <2>1 DEF IsEmpty, NoSuper
  <2>6. \A y \in MetaZones : IsImage(img'[y])
    BY <2>2, <2>3 DEF RollInv, Sound
  <2>7. IsEmpty(cur)' /\ seq' = super'[old] /\ img'[cur] = Blank
    BY <1>1, <2>1, <2>3 DEF RollInv, IsEmpty, Rolling
  <2> QED
    BY <1>1, <2>1, <2>2, <2>3, <2>4, <2>5, <2>6, <2>7 DEF RollInv, Points, Rolling
<1> QED  BY <1>2, <1>3 DEF WriteEndRecord, ResetsOnly

\* Finishing the old zone, full or after its end record, leaves its log in the lead.
LEMMA RollFinish ==
    ASSUME NEW z \in MetaZones, RollInv(z), FinishOld
    PROVE  RollInv(z)' /\ img'[z] = img[z] /\ pc' = "super"
<1>1. /\ z = old /\ old # cur /\ super[old] > NoSuper /\ pc = "finish" /\ pc' = "super"
      /\ UNCHANGED <<super, seq, op, cur, old>> /\ cap' = [cap EXCEPT ![old] = 0]
  BY DEF FinishOld, RollInv, Rolling, Lead, roll
<1>2. cap[old] = 0 \/ img[old].ended  BY <1>1 DEF RollInv
<1>3. DOMAIN img' = MetaZones /\ \A y \in MetaZones : img'[y] = img[y]
  BY <1>2 DEF FinishOld, RollInv, Replay
<1>4. Lead(z)'  BY <1>1, <1>3 DEF RollInv, Lead
<1>5. \A y \in MetaZones : IsEmpty(y)' => y # old /\ IsEmpty(y)
  BY SMT, <1>1 DEF IsEmpty, NoSuper
<1> QED  BY <1>1, <1>3, <1>4, <1>5 DEF RollInv, Points, Rolling, IsEmpty

\* A superblock without a snapshot does not take the lead.
LEMMA RollSuper ==
    ASSUME ResetsOnly, NEW z \in MetaZones, RollInv(z), WriteSuperblock
    PROVE  RollInv(z)' /\ UNCHANGED img /\ pc' = "encode"
<1>1. /\ z = old /\ old # cur /\ super[old] > NoSuper /\ pc = "super"
      /\ seq = super[old] /\ IsEmpty(cur) /\ cap[cur] = MetaCapacity /\ img[cur] = Blank
      /\ UNCHANGED <<op, cur, old>> /\ seq' = seq + 1
  BY DEF WriteSuperblock, RollInv, Rolling, Lead
<1>2. MetaCapacity >= 1 /\ MetaCapacity \in Nat /\ MetaCapacity # 0  BY SMT, MetaLogAssumption
<1>3. AddRecord(cur, [tag |-> "super", seq |-> seq + 1], 1) /\ pc' = "encode"
  BY <1>1, <1>2 DEF WriteSuperblock, ResetsOnly
<1>4. /\ cap' = [cap EXCEPT ![cur] = cap[cur] - 1] /\ super' = [super EXCEPT ![cur] = seq + 1]
      /\ UNCHANGED img
  BY <1>3 DEF AddRecord
<1>5. /\ cap' \in [MetaZones -> Nat] /\ super' \in [MetaZones -> Nat]
      /\ super'[cur] = super[old] + 1 /\ cap'[cur] = MetaCapacity - 1
      /\ \A x \in MetaZones \ {cur} : cap'[x] = cap[x] /\ super'[x] = super[x]
  <2>1. /\ cap \in [MetaZones -> Nat] /\ super \in [MetaZones -> Nat] /\ cur \in MetaZones
        /\ super[old] \in Nat
    BY DEF RollInv
  <2>2. MetaCapacity - 1 \in Nat /\ seq + 1 = super[old] + 1 /\ super[old] + 1 \in Nat
    BY SMT, <1>1, <1>2, <2>1
  <2>3. cap' = [cap EXCEPT ![cur] = MetaCapacity - 1] /\ super' = [super EXCEPT ![cur] = super[old] + 1]
    BY <1>1, <1>4, <2>2
  <2> QED  BY <2>1, <2>2, <2>3
<1>6. Lead(z)'
  <2>1. Lead(z) /\ cur \in MetaZones  BY DEF RollInv
  <2>2. img[cur].state = "none"  BY SMT, <1>1 DEF Blank
  <2>3. z # cur /\ img' = img /\ super'[z] = super[z]  BY <1>1, <1>4, <1>5
  <2> QED  BY <1>5, <2>1, <2>2, <2>3 DEF Lead
<1>7. \A y \in MetaZones : IsEmpty(y)' => y # cur /\ IsEmpty(y)
  BY SMT, <1>1, <1>5 DEF IsEmpty, NoSuper, RollInv
<1> QED  BY <1>1, <1>3, <1>4, <1>5, <1>6, <1>7 DEF RollInv, Points, Rolling

\* Encoding the snapshot writes nothing.
LEMMA RollEncode ==
    ASSUME NEW z \in MetaZones, RollInv(z), EncodeSnapshot
    PROVE  RollInv(z)' /\ UNCHANGED img /\ pc' = "snapshot"
<1>1. /\ z = old /\ old # cur /\ pc = "encode" /\ pc' = "snapshot"
      /\ UNCHANGED <<cap, super, img, cur, old, seq>>
  BY DEF EncodeSnapshot, RollInv, Rolling, device
<1>2. Lead(z)'  BY <1>1 DEF RollInv, Lead
<1> QED  BY <1>1, <1>2 DEF RollInv, Points, Rolling, IsEmpty

\* With its snapshot the new zone takes over.
LEMMA RollSnapshot ==
    ASSUME ResetsOnly, NEW z \in MetaZones, RollInv(z), WriteSnapshot, snap.tag # "super",
           Sound(Replay(Blank, snap)), Replay(Blank, snap).state = "ok",
           ~Replay(Blank, snap).ended, NEW c \in MetaZones, c = cur
    PROVE  RollInv(c)' /\ img'[c] = Replay(Blank, snap) /\ pc' = "reset"
<1>1. /\ z = old /\ old # cur /\ super[old] > NoSuper /\ pc = "snapshot"
      /\ super[cur] = super[old] + 1 /\ seq = super[cur] /\ cap[cur] = MetaCapacity - 1
      /\ img[cur] = Blank /\ UNCHANGED <<op, cur, old, seq>>
  BY DEF WriteSnapshot, RollInv, Rolling, Lead
<1>2. AddRecord(cur, snap, SnapshotBlocks) /\ pc' = "reset"
  BY SMT, <1>1, MetaLogAssumption DEF WriteSnapshot, ResetsOnly
<1>3. super[cur] > NoSuper /\ super[cur] > super[old]  BY SMT, <1>1 DEF RollInv, NoSuper
<1>4. /\ super' = super /\ cap' \in [MetaZones -> Nat]
      /\ \A x \in MetaZones \ {cur} : cap'[x] = cap[x]
      /\ img' = [img EXCEPT ![cur] = Replay(img[cur], snap)]
  BY <1>1, <1>2, <1>3, Appended, MetaLogAssumption
<1>5. /\ DOMAIN img' = MetaZones /\ img'[c] = Replay(Blank, snap)
      /\ \A x \in MetaZones \ {c} : img'[x] = img[x]
  BY <1>1, <1>4 DEF RollInv
<1>6. Lead(c)'
  <2>1. ASSUME NEW y \in MetaZones \ {c}, super[y] > NoSuper, img[y].state # "none"
        PROVE  super[y] < super[c]
    <3>1. super[y] <= super[old]  BY SMT, <1>1, <2>1 DEF RollInv, Lead
    <3>2. super[y] \in Nat /\ super[old] \in Nat /\ super[c] \in Nat  BY DEF RollInv
    <3> QED  BY SMT, <1>3, <3>1, <3>2
  <2> QED  BY <1>3, <1>4, <1>5, <2>1 DEF Lead
<1>7. \A y \in MetaZones : IsEmpty(y)' => y # c /\ IsEmpty(y)
  BY SMT, <1>3, <1>4 DEF IsEmpty, NoSuper
<1>8. \A y \in MetaZones : IsImage(img'[y])  BY <1>5 DEF RollInv, Sound
<1> QED  BY <1>1, <1>2, <1>4, <1>5, <1>6, <1>7, <1>8 DEF RollInv, Points, Rolling

\* The old zone may go once the new one leads.
LEMMA RollReset ==
    ASSUME ResetsOnly, NEW z \in MetaZones, RollInv(z), ResetOld
    PROVE  RollInv(z)' /\ img'[z] = img[z] /\ pc' = "ok"
<1>1. /\ z = cur /\ old # cur /\ seq = super[cur] /\ pc = "reset" /\ pc' = "ok"
      /\ ~img[cur].ended /\ UNCHANGED <<op, cur, old, seq>>
  BY DEF ResetOld, RollInv, Rolling, Pre, roll
<1>2. CASE UNCHANGED device
  <2>1. UNCHANGED <<cap, super, img>>  BY <1>2 DEF device
  <2>2. Lead(z)'  BY <2>1 DEF RollInv, Lead
  <2> QED  BY <1>1, <2>1, <2>2 DEF RollInv, IsEmpty, Points, Rolling
<1>3. CASE Reset(old, MetaCapacity)
  <2>1. /\ cap' \in [MetaZones -> Nat] /\ super' \in [MetaZones -> Nat] /\ DOMAIN img' = MetaZones
        /\ cap'[old] = MetaCapacity /\ super'[old] = NoSuper /\ img'[old] = Blank
        /\ \A x \in MetaZones \ {old} : cap'[x] = cap[x] /\ super'[x] = super[x] /\ img'[x] = img[x]
    BY <1>3, MetaLogAssumption DEF RollInv, Reset, NoSuper
  <2>2. IsImage(Blank)  BY DEF IsImage, Blank
  <2>3. Lead(z)'  BY <1>1, <2>1 DEF RollInv, Lead
  <2>4. \A x \in MetaZones : IsEmpty(x)' => cap'[x] = MetaCapacity /\ img'[x] = Blank
    BY <2>1 DEF RollInv, IsEmpty
  <2>5. \A x \in MetaZones : IsImage(img'[x])  BY <2>1, <2>2 DEF RollInv
  <2>6. img'[z] = img[z] /\ super'[z] = super[z]  BY <1>1, <2>1
  <2> QED  BY <1>1, <2>1, <2>3, <2>4, <2>5, <2>6 DEF RollInv, Points, Rolling
<1> QED  BY <1>2, <1>3, Capacities DEF ResetOld

-----------------------------------------------------------------------------
(***************************************************************************)
(* Names: the steps of PersistRecord and of a roll.                        *)
(***************************************************************************)
naming == <<mem, next, open, deleted, op, gc, promise>>

\* The steps of PersistRecord and of a roll leave the operation alone.
LEMMA OpFrame ==
    ASSUME MemInv, OpInv, UNCHANGED naming,
           pc \notin {"idle", "down"}, pc' \notin {"idle", "down", "persist"}
    PROVE  MemInv' /\ OpInv'
<1>1. UNCHANGED <<mem, next, open, deleted, op, gc, promise>>  BY DEF naming
<1>2. MemInv'  BY <1>1 DEF MemInv, Creating
<1>3. OpInv'  BY <1>1 DEF OpInv
<1> QED  BY <1>2, <1>3

\* What the log says of names agrees with memory as before if both stay.
LEMMA AgreeFrame ==
    ASSUME NEW z \in MetaZones, Agree(z), mem'.files = mem.files, mem'.links = mem.links,
           UNCHANGED <<next, open, op>>, img'[z].table.files = img[z].table.files,
           pc' = "down" <=> pc = "down", pc' \in Pre <=> pc \in Pre, pc' \in Post <=> pc \in Post,
           \A n : Changing(n)' <=> Changing(n), \A i : MayMiss(i)' <=> MayMiss(i)
    PROVE  Agree(z)'
<1> DEFINE f == img[z].table.files
<1>0. CASE pc = "down"  BY <1>0 DEF Agree
<1> SUFFICES ASSUME pc # "down" PROVE Agree(z)'  BY <1>0
<1>1. \A n \in Names : f[n] < next  BY DEF Agree
<1>2. \A n \in Names : ~Changing(n) => f[n] = mem.files[n] \/ (f[n] = NoFile /\ MayMiss(mem.files[n]))
  BY DEF Agree
<1>3. pc \in Pre =>
        /\ op.kind = "create" => \A n \in Names : f[n] # op.id
        /\ op.kind \in {"create", "rename", "link"} => f[op.name] = NoFile
        /\ op.kind = "delete" => f[op.name] = op.id
        /\ op.kind = "rename" => f[op.from] = op.id
  BY DEF Agree
<1>4. pc \in Post =>
        /\ op.kind = "create" => f[op.name] \in {op.id, NoFile}
        /\ op.kind \in {"delete", "rename", "link"} => f[op.name] = mem.files[op.name]
        /\ op.kind = "rename" => f[op.from] = NoFile
  BY DEF Agree
<1>5. \A i \in open : \/ \A n \in Names : mem.files[n] = i => f[n] = i
                      \/ \E n \in Names : mem.links[i] = {n}
  BY DEF Agree
<1>6. \A n \in Names : ~Changing(n)' => f[n] = mem'.files[n] \/ (f[n] = NoFile /\ MayMiss(mem.files[n])')
  BY <1>2
<1> HIDE DEF f
<1>7. img'[z].table.files = f /\ mem'.files = mem.files /\ mem'.links = mem.links  BY DEF f
<1>8. /\ \A n \in Names : f[n] < next'
      /\ pc' \in Pre =>
           /\ op'.kind = "create" => \A n \in Names : f[n] # op'.id
           /\ op'.kind \in {"create", "rename", "link"} => f[op'.name] = NoFile
           /\ op'.kind = "delete" => f[op'.name] = op'.id
           /\ op'.kind = "rename" => f[op'.from] = op'.id
  BY <1>1, <1>3
<1>9. /\ pc' \in Post =>
           /\ op'.kind = "create" => f[op'.name] \in {op'.id, NoFile}
           /\ op'.kind \in {"delete", "rename", "link"} => f[op'.name] = mem'.files[op'.name]
           /\ op'.kind = "rename" => f[op'.from] = NoFile
      /\ \A i \in open' : \/ \A n \in Names : mem'.files[n] = i => f[n] = i
                         \/ \E n \in Names : mem'.links[i] = {n}
  BY <1>4, <1>5
<1> QED  BY <1>6, <1>7, <1>8, <1>9 DEF Agree

\* Steps that leave the leading log's table alone.
LEMMA NamesFrame ==
    ASSUME NEW z \in MetaZones, NameInv(z), MemInv, OpInv, UNCHANGED naming,
           Sound(img'[z]), img'[z].table = img[z].table,
           (pc \in Pre /\ pc' \in Pre \ {"persist"}) \/ (pc \in Post /\ pc' \in Post)
    PROVE  NameInv(z)' /\ MemInv' /\ OpInv'
<1>1. UNCHANGED <<mem, next, open, deleted, op, gc, promise>>  BY DEF naming
<1>2. /\ pc \notin {"idle", "down"} /\ pc' \notin {"idle", "down", "persist"}
      /\ pc' \in Pre <=> pc \in Pre
      /\ pc' \in Post <=> pc \in Post
  BY DEF Pre, Post, Rolling
<1>3. MemInv' /\ OpInv'  BY <1>2, OpFrame
<1>4. \A n : Changing(n)' <=> Changing(n)  BY <1>1 DEF Changing
<1>5. \A i : MayMiss(i)' <=> MayMiss(i)  BY <1>1, <1>2 DEF MayMiss
<1>6. Agree(z)'
  <2>1. Agree(z)  BY DEF NameInv
  <2> QED  BY <1>1, <1>2, <1>4, <1>5, <2>1, AgreeFrame
<1>7. PromiseInv(z)'
  <2>1. PromiseInv(z)  BY DEF NameInv
  <2> QED  BY <1>1, <1>2, <2>1 DEF PromiseInv, Promised
<1> QED  BY <1>3, <1>6, <1>7 DEF NameInv

\* The new zone starts with the names in memory.
LEMMA NamesSnapshot ==
    ASSUME NEW z \in MetaZones, NameInv(z), MemInv, OpInv, UNCHANGED naming,
           pc = "snapshot", pc' = "reset",
           NEW c \in MetaZones, Sound(img'[c]), img'[c].table.files = mem.files
    PROVE  NameInv(c)' /\ MemInv' /\ OpInv'
<1> DEFINE f == img[z].table.files
<1>1. UNCHANGED <<mem, next, open, deleted, op, gc, promise>>  BY DEF naming
<1>2. pc \in Pre /\ pc' \in Post /\ pc' \notin Pre  BY DEF Pre, Post, Rolling
<1>3. MemInv' /\ OpInv'  BY OpFrame
<1>4. Agree(c)'
  <2>1. \A n \in Names : mem.files[n] < next  BY DEF MemInv
  <2>2. op.kind = "create" => mem.files[op.name] = NoFile  BY DEF OpInv
  <2>3. op.kind = "rename" => mem.files[op.from] = NoFile  BY DEF OpInv
  <2> QED  BY <1>1, <1>2, <2>1, <2>2, <2>3 DEF Agree
<1>5. PromiseInv(c)'
  <2>1. ASSUME NEW n \in Names, Promised(n) PROVE mem.files[n] = promise[n]
    <3>1. f[n] = promise[n]  BY <2>1 DEF NameInv, PromiseInv
    <3>2. ~Changing(n)  BY <2>1 DEF NameInv, PromiseInv, Changing
    <3>3. f[n] = mem.files[n] \/ (f[n] = NoFile /\ mem.files[n] \in open)
      BY <3>2 DEF NameInv, Agree, MayMiss
    <3>4. ~(mem.files[n] \in open /\ f[n] = NoFile)  BY <2>1 DEF NameInv, PromiseInv
    <3> QED  BY <3>1, <3>3, <3>4
  <2>2. \A n \in Names : mem.files[n] \in open => mem.files[n] # NoFile
    BY SMT DEF MemInv, FileIds, NoFile
  <2>3. PromiseInv(z)  BY DEF NameInv
  <2> QED  BY <1>1, <2>1, <2>2, <2>3 DEF PromiseInv, Promised
<1> QED  BY <1>3, <1>4, <1>5 DEF NameInv

\* The record of a creation, a rename, a link or a sync is one that can be
\* replayed, and so is the one of a deletion.
LEMMA RecordFits ==
    ASSUME NEW z \in MetaZones, NameInv(z), MemInv, OpInv, pc = "persist",
           img[z].state = "ok", ~img[z].ended
    PROVE  /\ op.rec.tag # "super"
           /\ Sound(Replay(img[z], op.rec))
           /\ Replay(img[z], op.rec).state = "ok"
           /\ ~Replay(img[z], op.rec).ended
           /\ op.kind = "delete" =>
                Replay(img[z], op.rec).table.files =
                  [img[z].table.files EXCEPT ![op.name] = NoFile]
           /\ op.kind # "delete" =>
                Replay(img[z], op.rec).table.files =
                  [n \in Names |-> IF n \in op.rec.links THEN op.id
                                   ELSE IF img[z].table.files[n] = op.id THEN NoFile
                                   ELSE img[z].table.files[n]]
           /\ op.kind # "delete" => \A n \in op.rec.links : img[z].table.files[n] \in {NoFile, op.id}
           /\ op.kind \in {"rename", "link"} => op.id \in Alive(img[z].table)
<1> DEFINE f == img[z].table.files
           r == op.rec
<1>1. /\ op.kind \in Kinds \ {"mount"} /\ r.id = op.id /\ op.id \in FileIds
      /\ op.id # NoFile /\ NoFile \notin open /\ pc \in Pre /\ pc # "down" /\ pc \notin Post
  <2>1. op.kind \in Kinds \ {"mount"} /\ r.id = op.id /\ op.id \in FileIds  BY DEF OpInv, Kinds
  <2>2. open \subseteq FileIds  BY DEF MemInv
  <2>3. op.id # NoFile /\ NoFile \notin open  BY SMT, <2>1, <2>2 DEF FileIds, NoFile
  <2>4. pc \in Pre /\ pc # "down" /\ pc \notin Post  BY DEF Pre, Post, Rolling
  <2> QED  BY <2>1, <2>3, <2>4
<1>2. Sound(img[z])  BY DEF NameInv
<1>3. CASE op.kind = "delete"
  <2>1. r.tag = "deletion" /\ r.name = op.name /\ op.name \in Names  BY <1>3 DEF OpInv
  <2>2. f[op.name] = op.id  BY <1>1, <1>3 DEF NameInv, Agree
  <2>3. PICK m : m = img[z]  OBVIOUS
  <2>4. PICK s : s = r  OBVIOUS
  <2>5. /\ Sound(m) /\ m.state = "ok" /\ ~m.ended /\ s.tag = "deletion" /\ s.id \in FileIds
        /\ s.name \in Names /\ m.table.files[s.name] = s.id
    BY <1>1, <1>2, <2>1, <2>2, <2>3, <2>4
  <2>6. /\ Sound(Replay(m, s)) /\ Replay(m, s).state = "ok" /\ ~Replay(m, s).ended
        /\ Replay(m, s).table.files = [m.table.files EXCEPT ![s.name] = NoFile]
    BY <2>5, ReplayDeletion
  <2> QED  BY <1>3, <2>1, <2>3, <2>4, <2>6
<1>4. CASE op.kind # "delete"
  <2>1. r.tag \in {"update", "replace"}  BY <1>1, <1>4 DEF OpInv, Kinds
  <2>2. r.links \in SUBSET Names
    <3>1. CASE op.kind = "create"  BY <3>1 DEF OpInv
    <3>2. CASE op.kind # "create"
      <4>1. r.links = mem.links[op.id]  BY <1>1, <1>4, <3>2 DEF OpInv, Kinds
      <4> QED  BY <4>1, <1>1 DEF MemInv, IsTable
    <3> QED  BY <3>1, <3>2
  <2>3. op.kind # "create" => r.links = {n \in Names : mem.files[n] = op.id}
    <3>1. op.kind # "create" => r.links = mem.links[op.id]  BY <1>1, <1>4 DEF OpInv, Kinds
    <3> QED  BY <3>1, <1>1 DEF MemInv, Creating
  <2>4. /\ \A n \in r.links : f[n] \in {NoFile, op.id}
        /\ \/ op.id \in Alive(img[z].table)
           \/ op.id \notin Alive(img[z].table) /\ \E n \in Names : r.links = {n}
        /\ op.kind \in {"rename", "link"} => op.id \in Alive(img[z].table)
    <3>0. \A n \in Names : f[n] = op.id => op.id \in Alive(img[z].table)  BY <1>1 DEF Alive
    <3>1. CASE op.kind = "create"
      <4>1. r.links = {op.name} /\ op.name \in Names  BY <3>1 DEF OpInv
      <4>2. f[op.name] = NoFile /\ \A n \in Names : f[n] # op.id  BY <1>1, <3>1 DEF NameInv, Agree
      <4>3. op.id \notin Alive(img[z].table)  BY <4>2 DEF Alive
      <4> QED  BY <3>1, <4>1, <4>2, <4>3
    <3>2. CASE op.kind = "rename"
      <4>1. f[op.name] = NoFile /\ f[op.from] = op.id  BY <1>1, <3>2 DEF NameInv, Agree
      <4>2. op.name \in Names /\ op.from \in Names /\ op.id \notin open  BY <3>2 DEF OpInv
      <4>3. ASSUME NEW n \in r.links PROVE f[n] \in {NoFile, op.id}
        <5>1. n \in Names /\ mem.files[n] = op.id  BY <2>3, <3>2
        <5>2. Changing(n) => n = op.name \/ n = op.from  BY <3>2 DEF Changing
        <5>3. ~Changing(n) => f[n] = mem.files[n] \/ f[n] = NoFile  BY <1>1, <5>1 DEF NameInv, Agree
        <5> QED  BY <4>1, <5>1, <5>2, <5>3
      <4> QED  BY <3>0, <4>1, <4>2, <4>3
    <3>3. CASE op.kind = "link"
      <4>1. f[op.name] = NoFile  BY <1>1, <3>3 DEF NameInv, Agree
      <4>2. op.name \in Names /\ op.id \notin open  BY <3>3 DEF OpInv
      <4>3. PICK m \in Names \ {op.name} : mem.files[m] = op.id  BY <3>3 DEF OpInv
      <4>4. ASSUME NEW n \in r.links PROVE f[n] \in {NoFile, op.id}
        <5>1. n \in Names /\ mem.files[n] = op.id  BY <2>3, <3>3
        <5>2. Changing(n) => n = op.name  BY <3>3 DEF Changing
        <5>3. ~Changing(n) => f[n] = mem.files[n] \/ f[n] = NoFile  BY <1>1, <5>1 DEF NameInv, Agree
        <5> QED  BY <4>1, <5>1, <5>2, <5>3
      <4>5. ~Changing(m)  BY <3>3 DEF Changing
      <4>6. f[m] = op.id  BY <1>1, <4>2, <4>3, <4>5 DEF NameInv, Agree, MayMiss
      <4> QED  BY <3>0, <4>4, <4>6
    <3>4. CASE op.kind \in {"fsync", "close", "replace"}
      <4>1. \A n : ~Changing(n)  BY <3>4 DEF Changing
      <4>2. \A n \in Names : f[n] = mem.files[n] \/ (f[n] = NoFile /\ mem.files[n] \in open)
        BY <1>1, <4>1 DEF NameInv, Agree, MayMiss
      <4>3. PICK m \in Names : mem.files[m] = op.id
        BY <1>1, <3>4 DEF OpInv, MemInv
      <4>4. \A n \in r.links : f[n] \in {NoFile, op.id}  BY <2>3, <3>4, <4>2
      <4>5. CASE f[m] = op.id  BY <3>0, <3>4, <4>4, <4>5
      <4>6. CASE f[m] # op.id
        <5>1. op.id \in open  BY <4>2, <4>3, <4>6
        <5>2. \E n \in Names : mem.links[op.id] = {n}
          BY <1>1, <4>3, <4>6, <5>1 DEF NameInv, Agree
        <5>3. r.links = mem.links[op.id]  BY <3>4 DEF OpInv
        <5> QED  BY <3>4, <4>4, <5>2, <5>3
      <4> QED  BY <4>5, <4>6
    <3> QED  BY <1>1, <1>4, <3>1, <3>2, <3>3, <3>4 DEF Kinds
  <2>5. PICK m : m = img[z]  OBVIOUS
  <2>6. PICK s : s = r  OBVIOUS
  <2>7. /\ Sound(m) /\ m.state = "ok" /\ ~m.ended /\ s.tag \in {"update", "replace"}
        /\ s.id \in FileIds /\ s.links \in SUBSET Names
        /\ \A n \in s.links : m.table.files[n] \in {NoFile, s.id}
        /\ \/ s.id \in Alive(m.table)
           \/ s.id \notin Alive(m.table) /\ \E n \in Names : s.links = {n}
    BY <1>1, <1>2, <2>1, <2>2, <2>4, <2>5, <2>6
  <2>8. /\ Sound(Replay(m, s)) /\ Replay(m, s).state = "ok" /\ ~Replay(m, s).ended
        /\ Replay(m, s).table.files =
             [n \in Names |-> IF n \in s.links THEN s.id
                              ELSE IF m.table.files[n] = s.id THEN NoFile ELSE m.table.files[n]]
    BY SMT, <2>7, ReplayUpdate
  <2>9. /\ Sound(Replay(img[z], r)) /\ Replay(img[z], r).state = "ok" /\ ~Replay(img[z], r).ended
        /\ Replay(img[z], r).table.files =
             [n \in Names |-> IF n \in r.links THEN op.id ELSE IF f[n] = op.id THEN NoFile ELSE f[n]]
    BY SMT, <1>1, <2>5, <2>6, <2>8
  <2> QED  BY <1>4, <2>1, <2>4, <2>9
<1> QED  BY <1>3, <1>4

\* Appending the record brings the log up to the table in memory.
LEMMA NamesPersisted ==
    ASSUME NEW z \in MetaZones, NameInv(z), MemInv, OpInv, UNCHANGED naming,
           pc = "persist", pc' = "ok", img[z].state = "ok", ~img[z].ended,
           img'[z] = Replay(img[z], op.rec)
    PROVE  NameInv(z)' /\ MemInv' /\ OpInv'
<1> DEFINE f == img[z].table.files
           h == img'[z].table.files
<1>1. UNCHANGED <<mem, next, open, deleted, op, gc, promise>>  BY DEF naming
<1>2. /\ op.kind \in Kinds \ {"mount"} /\ op.id \in FileIds /\ op.id < next
      /\ op.id # NoFile /\ NoFile \notin open /\ NoFile < next
      /\ pc \in Pre /\ pc # "down" /\ pc \notin Post
      /\ pc' \in Post /\ pc' # "down" /\ pc' \notin Pre
  <2>1. op.kind \in Kinds \ {"mount"} /\ op.id \in FileIds /\ op.id < next  BY DEF OpInv, Kinds
  <2>2. open \subseteq FileIds /\ next \in Nat \ {0}  BY DEF MemInv
  <2>3. op.id # NoFile /\ NoFile \notin open /\ NoFile < next  BY SMT, <2>1, <2>2 DEF FileIds, NoFile
  <2>4. /\ pc \in Pre /\ pc # "down" /\ pc \notin Post
        /\ pc' \in Post /\ pc' # "down" /\ pc' \notin Pre
    BY DEF Pre, Post, Rolling
  <2> QED  BY <2>1, <2>3, <2>4
<1>3. MemInv' /\ OpInv'  BY OpFrame
<1>4. /\ Sound(img'[z])
      /\ op.kind = "delete" => h = [f EXCEPT ![op.name] = NoFile]
      /\ op.kind # "delete" => h = [n \in Names |-> IF n \in op.rec.links THEN op.id
                                                    ELSE IF f[n] = op.id THEN NoFile ELSE f[n]]
  BY RecordFits
<1>5. f \in [Names -> FileIds \cup {NoFile}]  BY DEF NameInv, Sound, Match, IsTable
<1>6. /\ op.kind \in {"create", "delete", "rename", "link"} => op.name \in Names
      /\ op.kind = "rename" => op.from \in Names
  BY DEF OpInv
<1>7. /\ op.kind = "create" => op.rec.links = {op.name}
      /\ op.kind \notin {"create", "delete"} => op.rec.links = {n \in Names : mem.files[n] = op.id}
  <2>1. op.kind \notin {"create", "delete"} => op.rec.links = mem.links[op.id]
    BY <1>2 DEF OpInv, Kinds
  <2> QED  BY <1>2, <2>1 DEF OpInv, MemInv, Creating
<1>8. op.kind \notin {"fsync", "close"} => op.id \notin open
  BY <1>2 DEF OpInv, MemInv, Kinds
<1>9. \A n \in Names : ~Changing(n) =>
         f[n] = mem.files[n] \/ (f[n] = NoFile /\ mem.files[n] \in open)
  BY <1>2 DEF NameInv, Agree, MayMiss
<1>10. ASSUME NEW n \in Names, ~Changing(n)
       PROVE  /\ h[n] = f[n] \/ (h[n] = op.id /\ mem.files[n] = op.id /\ op.id \in open /\ f[n] = NoFile)
              /\ h[n] = mem.files[n] \/
                   (h[n] = NoFile /\ mem.files[n] \in open
                      /\ ~(op.kind \in {"fsync", "close"} /\ op.id = mem.files[n]))
  <2>1. CASE op.kind = "delete"
    <3>1. n # op.name  BY <1>10, <2>1 DEF Changing
    <3> QED  BY <1>4, <1>5, <1>9, <1>10, <2>1, <3>1
  <2>2. CASE op.kind = "create"
    <3>1. n # op.name  BY <1>10, <2>2 DEF Changing
    <3>2. f[n] # op.id  BY <1>2, <2>2 DEF NameInv, Agree
    <3> QED  BY <1>4, <1>7, <1>9, <1>10, <2>2, <3>1, <3>2
  <2>3. CASE op.kind \notin {"create", "delete"}
    <3>1. n \in op.rec.links <=> mem.files[n] = op.id  BY <1>7, <2>3
    <3>2. h[n] = IF n \in op.rec.links THEN op.id
                 ELSE IF f[n] = op.id THEN NoFile ELSE f[n]
      BY <1>4, <2>3
    <3> QED  BY <1>2, <1>9, <1>10, <3>1, <3>2
  <2> QED  BY <2>1, <2>2, <2>3
<1>11. /\ op.kind = "create" => h[op.name] = op.id
       /\ op.kind \in {"delete", "rename", "link"} => h[op.name] = mem.files[op.name]
       /\ op.kind = "rename" => h[op.from] = NoFile
  <2>1. CASE op.kind = "create"  BY <1>4, <1>6, <1>7, <2>1
  <2>2. CASE op.kind = "delete"
    <3>1. mem.files[op.name] = NoFile  BY <2>2 DEF OpInv
    <3> QED  BY <1>4, <1>5, <1>6, <2>2, <3>1
  <2>3. CASE op.kind = "rename"
    <3>1. mem.files[op.name] = op.id /\ mem.files[op.from] = NoFile  BY <2>3 DEF OpInv
    <3>2. f[op.from] = op.id  BY <1>2, <2>3 DEF NameInv, Agree
    <3> QED  BY <1>2, <1>4, <1>6, <1>7, <2>3, <3>1, <3>2
  <2>4. CASE op.kind = "link"
    <3>1. mem.files[op.name] = op.id  BY <2>4 DEF OpInv
    <3> QED  BY <1>2, <1>4, <1>6, <1>7, <2>4, <3>1
  <2> QED  BY <2>1, <2>2, <2>3, <2>4
<1>12. Agree(z)'
  <2>1. \A n \in Names : h[n] < next
    <3>1. \A n \in Names : f[n] < next  BY <1>2 DEF NameInv, Agree
    <3> QED  BY <1>2, <1>4, <1>5, <3>1
  <2>2. \A n : Changing(n)' <=> Changing(n)  BY <1>1 DEF Changing
  <2>4. \A i : MayMiss(i)' <=> i \in open /\ ~(op.kind \in {"fsync", "close"} /\ op.id = i)
    BY <1>1, <1>2 DEF MayMiss
  <2>3. ASSUME NEW i \in open
        PROVE  \/ \A n \in Names : mem.files[n] = i => h[n] = i
               \/ \E n \in Names : mem.links[i] = {n}
    <3>1. i # NoFile  BY <1>2
    <3>2. \A n \in Names : mem.files[n] = i => ~Changing(n)
      <4>1. op.kind \in {"create", "delete"} => mem.files[op.name] = NoFile  BY DEF OpInv
      <4>2. op.kind \in {"rename", "link"} => mem.files[op.name] # i  BY <1>8 DEF OpInv
      <4>3. op.kind = "rename" => mem.files[op.from] = NoFile  BY DEF OpInv
      <4> QED  BY <3>1, <4>1, <4>2, <4>3 DEF Changing
    <3>3. \/ \A n \in Names : mem.files[n] = i => f[n] = i
          \/ \E n \in Names : mem.links[i] = {n}
      BY <1>2 DEF NameInv, Agree
    <3> QED  BY <1>10, <3>1, <3>2, <3>3
  <2>5. \A n \in Names : ~Changing(n)' =>
           h[n] = mem.files[n] \/ (h[n] = NoFile /\ MayMiss(mem.files[n])')
    <3> HIDE DEF h
    <3> QED  BY <1>1, <1>10, <2>2, <2>4
  <2> QED  BY <1>1, <1>2, <1>11, <2>1, <2>3, <2>5 DEF Agree
<1>13. PromiseInv(z)'
  <2>0. PromiseInv(z)  BY DEF NameInv
  <2>1. ASSUME NEW n \in Names, Promised(n)
        PROVE  h[n] = promise[n] /\ ~(mem.files[n] \in open /\ h[n] = NoFile)
    <3>1. ~Changing(n) /\ f[n] = promise[n] /\ ~(mem.files[n] \in open /\ f[n] = NoFile)
      BY <1>2, <2>0, <2>1 DEF PromiseInv, Changing
    <3>2. h[n] = f[n]  BY <1>10, <3>1
    <3> QED  BY <3>1, <3>2
  <2> QED  BY <1>1, <2>0, <2>1 DEF PromiseInv, Promised
<1> QED  BY <1>3, <1>4, <1>12, <1>13 DEF NameInv

\* What a step of PersistRecord or of a roll makes of the log in zone z that a mount
\* would choose: it stays, or gets the record of the operation, or gives way to the
\* log of the snapshot in zone y.
Stays(z) ==
    /\ img'[z].table = img[z].table /\ img'[z].next = img[z].next
    /\ (pc \in Pre /\ pc' \in Pre \ {"persist"}) \/ (pc \in Post /\ pc' \in Post)
    /\ pc' = "snapshot" => snap' = Snapshot(mem)

Grows(z) ==
    /\ pc = "persist" /\ pc' = "ok" /\ img[z].state = "ok" /\ ~img[z].ended
    /\ img'[z] = Replay(img[z], op.rec)

GivesWay(y) ==
    WriteSnapshot /\ pc = "snapshot" /\ pc' = "reset" /\ img'[y] = Replay(Blank, snap)

Continues(z, y) == (y = z /\ (Stays(z) \/ Grows(z))) \/ GivesWay(y)

\* Every step of PersistRecord and of a roll keeps the invariant.
LEMMA PersistStep ==
    ASSUME ResetsOnly, NEW z \in MetaZones, LogInvAt(z), Persist
    PROVE  \E y \in MetaZones : LogInvAt(y)' /\ Continues(z, y)
<1>0. RollInv(z) /\ NameInv(z) /\ MemInv /\ OpInv /\ SnapInv /\ Sound(img[z])
  BY DEF LogInvAt, NameInv
<1>1. CASE PersistRecord
  <2>1. /\ UNCHANGED naming /\ UNCHANGED <<cur, old, seq>> /\ pc = "persist"
        /\ z = cur /\ img[z].state = "ok" /\ ~img[z].ended /\ op.kind # "mount"
    BY <1>0, <1>1 DEF PersistRecord, naming, files, roll, told, RollInv, Rolling, Lead, OpInv
  <2>2. CASE AddRecord(cur, op.rec, 1) /\ pc' = "ok"
    <3>1. /\ op.rec.tag # "super" /\ Sound(Replay(img[z], op.rec))
          /\ Replay(img[z], op.rec).state = "ok" /\ ~Replay(img[z], op.rec).ended
      BY <1>0, <2>1, RecordFits
    <3>2. RollInv(z)' /\ img'[z] = Replay(img[z], op.rec)
      BY <1>0, <2>1, <2>2, <3>1, RollPersisted DEF Sound
    <3>3. NameInv(z)' /\ MemInv' /\ OpInv'  BY <1>0, <2>1, <2>2, <3>2, NamesPersisted
    <3>4. SnapInv'  BY <2>2 DEF SnapInv
    <3>5. LogInvAt(z)'  BY <3>2, <3>3, <3>4 DEF LogInvAt
    <3> QED  BY <2>1, <2>2, <3>2, <3>5 DEF Continues, Grows
  <2>3. CASE pc' = "allocate" /\ UNCHANGED device
    <3>1. RollInv(z)'  BY <1>0, <2>1, <2>3, RollFrame
    <3>2. img' = img  BY <2>3 DEF device
    <3>3. pc \in Pre /\ pc' \in Pre \ {"persist"}  BY <2>1, <2>3 DEF Pre, Rolling
    <3>4. NameInv(z)' /\ MemInv' /\ OpInv'  BY <1>0, <2>1, <3>2, <3>3, NamesFrame
    <3>5. SnapInv'  BY <2>3 DEF SnapInv
    <3>6. LogInvAt(z)'  BY <3>1, <3>4, <3>5 DEF LogInvAt
    <3> QED  BY <2>3, <3>2, <3>3, <3>6 DEF Continues, Stays
  <2> QED  BY <1>1, <2>2, <2>3 DEF PersistRecord, ResetsOnly
<1>2. CASE AllocateMetaZone
  <2>1. UNCHANGED naming /\ pc = "allocate" /\ pc \in Pre
    BY <1>2 DEF AllocateMetaZone, naming, files, told, Pre
  <2>2. RollInv(z)' /\ img'[z] = img[z] /\ pc' \in Pre \ {"persist", "snapshot"}
    BY <1>0, <1>2, RollAllocate
  <2>3. NameInv(z)' /\ MemInv' /\ OpInv'  BY <1>0, <2>1, <2>2, NamesFrame
  <2>4. SnapInv'  BY <2>2 DEF SnapInv
  <2>5. LogInvAt(z)'  BY <2>2, <2>3, <2>4 DEF LogInvAt
  <2> QED  BY <2>1, <2>2, <2>5 DEF Continues, Stays
<1>3. CASE WriteEndRecord
  <2>1. UNCHANGED naming /\ pc = "end" /\ pc \in Pre
    BY <1>3 DEF WriteEndRecord, naming, files, told, Pre, Rolling
  <2>2. /\ RollInv(z)' /\ Sound(img'[z]) /\ pc' = "finish"
        /\ img'[z].table = img[z].table /\ img'[z].next = img[z].next
    BY <1>0, <1>3, RollEnd
  <2>3. pc' \in Pre \ {"persist"}  BY <2>2 DEF Pre, Rolling
  <2>4. NameInv(z)' /\ MemInv' /\ OpInv'  BY <1>0, <2>1, <2>2, <2>3, NamesFrame
  <2>5. SnapInv'  BY <2>2 DEF SnapInv
  <2>6. LogInvAt(z)'  BY <2>2, <2>4, <2>5 DEF LogInvAt
  <2> QED  BY <2>1, <2>2, <2>3, <2>6 DEF Continues, Stays
<1>4. CASE FinishOld \/ WriteSuperblock
  <2>1. UNCHANGED naming /\ pc \in Pre
    BY <1>4 DEF FinishOld, WriteSuperblock, naming, files, told, Pre, Rolling
  <2>2. RollInv(z)' /\ img'[z] = img[z] /\ pc' \in {"super", "encode"}
    BY <1>0, <1>4, RollFinish, RollSuper
  <2>3. pc' \in Pre \ {"persist"}  BY <2>2 DEF Pre, Rolling
  <2>4. NameInv(z)' /\ MemInv' /\ OpInv'  BY <1>0, <2>1, <2>2, <2>3, NamesFrame
  <2>5. SnapInv'  BY <2>2 DEF SnapInv
  <2>6. LogInvAt(z)'  BY <2>2, <2>4, <2>5 DEF LogInvAt
  <2> QED  BY <2>1, <2>2, <2>3, <2>6 DEF Continues, Stays
<1>5. CASE EncodeSnapshot
  <2>1. UNCHANGED naming /\ pc \in Pre /\ snap' = Snapshot(mem) /\ mem' = mem
    BY <1>5 DEF EncodeSnapshot, naming, files, told, Pre, Rolling
  <2>2. RollInv(z)' /\ UNCHANGED img /\ pc' = "snapshot"
    BY <1>0, <1>5, RollEncode
  <2>3. pc' \in Pre \ {"persist"}  BY <2>2 DEF Pre, Rolling
  <2>4. NameInv(z)' /\ MemInv' /\ OpInv'  BY <1>0, <2>1, <2>2, <2>3, NamesFrame
  <2>5. SnapInv'
    <3>0. IsTable(mem)  BY <1>0 DEF MemInv
    <3>1. snap'.tag = "snapshot" /\ snap'.table.files = mem.files
      BY <2>1 DEF Snapshot
    <3>2. IsTable(snap'.table)
      BY <2>1, <3>0 DEF Snapshot, IsTable
    <3>3. ASSUME NEW i \in FileIds
          PROVE  snap'.table.links[i] = {n \in Names : mem.files[n] = i}
      <4>1. snap'.table.links[i] = IF i \in Alive(mem) THEN mem.links[i] ELSE {}
        BY <2>1 DEF Snapshot
      <4>2. i \in Alive(mem) <=> \E n \in Names : mem.files[n] = i
        BY SMT DEF Alive, FileIds, NoFile
      <4>3. i \in Alive(mem) => ~Creating(i)  BY <1>0, <4>2 DEF OpInv, Creating
      <4>4. i \in Alive(mem) => mem.links[i] = {n \in Names : mem.files[n] = i}
        BY <1>0, <4>3 DEF MemInv
      <4> QED  BY <4>1, <4>2, <4>4
    <3> QED  BY <2>1, <3>1, <3>2, <3>3 DEF SnapInv, Match
  <2>6. LogInvAt(z)'  BY <2>2, <2>4, <2>5 DEF LogInvAt
  <2> QED  BY <2>1, <2>2, <2>3, <2>6 DEF Continues, Stays
<1>6. CASE WriteSnapshot
  <2>1. /\ UNCHANGED naming /\ pc = "snapshot" /\ snap.tag = "snapshot" /\ Match(snap.table)
        /\ snap.table.files = mem.files
    BY <1>0, <1>6 DEF WriteSnapshot, naming, told, SnapInv
  <2>3. /\ Sound(Replay(Blank, snap)) /\ Replay(Blank, snap).state = "ok"
        /\ ~Replay(Blank, snap).ended /\ Replay(Blank, snap).table = snap.table
    BY <2>1, ReplaySnapshot
  <2>4. PICK c \in MetaZones : c = cur  BY <1>0 DEF RollInv
  <2>5. RollInv(c)' /\ img'[c] = Replay(Blank, snap) /\ pc' = "reset"
    BY <1>0, <1>6, <2>1, <2>3, <2>4, RollSnapshot
  <2>6. NameInv(c)' /\ MemInv' /\ OpInv'
    BY <1>0, <2>1, <2>3, <2>5, NamesSnapshot
  <2>7. SnapInv'  BY <2>5 DEF SnapInv
  <2>8. LogInvAt(c)'  BY <2>5, <2>6, <2>7 DEF LogInvAt
  <2> QED  BY <1>6, <2>1, <2>5, <2>8 DEF Continues, GivesWay
<1>7. CASE ResetOld
  <2>1. UNCHANGED naming /\ pc \in Post
    BY <1>7 DEF ResetOld, naming, files, told, Post
  <2>2. RollInv(z)' /\ img'[z] = img[z] /\ pc' = "ok"  BY <1>0, <1>7, RollReset
  <2>3. pc' \in Post  BY <2>2 DEF Post
  <2>4. NameInv(z)' /\ MemInv' /\ OpInv'  BY <1>0, <2>1, <2>2, <2>3, NamesFrame
  <2>5. SnapInv'  BY <2>2 DEF SnapInv
  <2>6. LogInvAt(z)'  BY <2>2, <2>4, <2>5 DEF LogInvAt
  <2> QED  BY <2>1, <2>2, <2>3, <2>6 DEF Continues, Stays
<1> QED  BY <1>1, <1>2, <1>3, <1>4, <1>5, <1>6, <1>7 DEF Persist

=============================================================================

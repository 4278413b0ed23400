------------------------ MODULE ZoneAllocatorTyping ------------------------
(***************************************************************************)
(* Type correctness of the steps of ZoneAllocator, and lemmas that say     *)
(* which steps touch which variables, for any number of zones, writers and *)
(* sweepers, any capacity, any limits and any set of failing commands.     *)
(***************************************************************************)
EXTENDS ZoneAllocator, FiniteSetTheorems, TLAPS

\* A leaf is first-order reasoning unless it cites SMT.
USE Zenon

-----------------------------------------------------------------------------
(* Facts about the building blocks of the actions                          *)

(* A thread whose program counter says it holds a zone holds one of Zones. *)
LEMMA HeldZone ==
    ASSUME HolderTypeOK, PcZoneAgree
    PROVE  /\ \A w \in Writers :
                pc[w] \in MatchHeldPc \cup {"append", "close"} => zone[w] \in Zones
           /\ \A t \in Sweeping :
                pc[t] \in {"check", "reset", "resetFull", "release", "releasePut",
                           "migrate", "releaseMigrate"}
                    => zone[t] \in Zones
  BY DEF HolderTypeOK, PcZoneAgree, Threads, Sweeping

(* Zone::Append, Finish and Reset keep write pointer and capacity of every *)
(* zone in range.                                                          *)
LEMMA AdvanceType ==
    ASSUME ZoneTypeOK, NEW z \in Zones, NEW n \in Nat, n <= capacity[z], Advance(z, n)
    PROVE  ZoneTypeOK'
  <1>1. wp[z] \in Nat /\ capacity[z] \in Nat /\ wp[z] + capacity[z] <= MaxCapacity
    BY SMT, SizesAssumption DEF ZoneTypeOK
  <1>2. wp[z] + n \in 0 .. MaxCapacity /\ capacity[z] - n \in 0 .. MaxCapacity
    BY SMT, <1>1, SizesAssumption
  <1> QED BY SMT, <1>1, <1>2, SizesAssumption DEF ZoneTypeOK, Advance

(* Zone::Finish keeps the zone counters in their ranges.                   *)
LEMMA FinishType ==
    ASSUME ZoneTypeOK, NEW z \in Zones, FinishZone(z)
    PROVE  ZoneTypeOK'
  BY SMT, SizesAssumption DEF ZoneTypeOK, FinishZone

(* Zone::Reset keeps the zone counters in their ranges, offline or not.    *)
LEMMA ResetType ==
    ASSUME ZoneTypeOK, NEW z \in Zones, ResetZone(z)
    PROVE  ZoneTypeOK'
  <1>1. CASE capacity' = [capacity EXCEPT ![z] = MaxCapacity]
    BY SMT, <1>1, SizesAssumption DEF ZoneTypeOK, ResetZone
  <1>2. CASE capacity' = [capacity EXCEPT ![z] = 0]
    BY SMT, <1>2, SizesAssumption DEF ZoneTypeOK, ResetZone
  <1> QED BY <1>1, <1>2 DEF ResetZone

(* What an append writes fits the zone and is no more than is left.        *)
LEMMA ChunkType ==
    ASSUME ZoneTypeOK, FileTypeOK, NEW w \in Writers, zone[w] \in Zones
    PROVE  /\ ChunkSize(w) \in 0 .. MaxAppend
           /\ ChunkSize(w) <= capacity[zone[w]]
           /\ ChunkSize(w) <= left[w]
  BY SMT, SizesAssumption DEF ZoneTypeOK, FileTypeOK, ChunkSize, Threads

(* How a step changes hands of zones: a thread acquires a zone that is not *)
(* busy, releases the one it holds, or does neither.                       *)
HolderStep(t) ==
    \/ UNCHANGED <<busy, zone>>
    \/ \E z \in Zones : ~busy[z] /\ zone[t] = NoZone /\ Acquire(t, z)
    \/ zone[t] \in Zones /\ Release(t)

(* Such a step keeps the busy flags and the holders in agreement.          *)
LEMMA HolderStepType ==
    ASSUME HolderTypeOK, NEW t \in Threads, HolderStep(t)
    PROVE  HolderTypeOK'
  <1>1. CASE \E z \in Zones : Acquire(t, z)
    BY <1>1 DEF HolderTypeOK, Acquire
  <1>2. CASE zone[t] \in Zones /\ Release(t)
    BY <1>2 DEF HolderTypeOK, Release
  <1> QED BY <1>1, <1>2 DEF HolderTypeOK, HolderStep

(* Acquiring a free zone or releasing one's own keeps zones exclusive.     *)
LEMMA HolderStepExclusive ==
    ASSUME HolderTypeOK, ZoneExclusive, NEW t \in Threads, HolderStep(t)
    PROVE  ZoneExclusive'
  <1>1. CASE UNCHANGED <<busy, zone>>
    BY <1>1 DEF ZoneExclusive
  <1>2. ASSUME NEW z \in Zones, ~busy[z], zone[t] = NoZone, Acquire(t, z)
        PROVE  ZoneExclusive'
    <2>1. \A u \in Threads : zone'[u] = IF u = t THEN z ELSE zone[u]
      BY <1>2 DEF HolderTypeOK, Acquire
    <2>2. busy'[z] /\ \A y \in Zones : y # z => (busy'[y] <=> busy[y])
      BY <1>2 DEF HolderTypeOK, Acquire
    <2>3. \A u \in Threads : zone[u] # z
      BY <1>2 DEF ZoneExclusive
    <2>4. z # NoZone /\ \A y \in Zones : y # NoZone
      BY SMT, SizesAssumption DEF Zones, NoZone
    <2>5. ASSUME NEW y \in Zones PROVE busy'[y] <=> \E u \in Threads : zone'[u] = y
      <3>1. CASE y = z
        BY <3>1, <2>1, <2>2
      <3>2. CASE y # z
        <4>1. (\E u \in Threads : zone'[u] = y) <=> (\E u \in Threads : zone[u] = y)
          BY <3>2, <2>1, <2>4, <1>2
        <4> QED BY <3>2, <4>1, <2>2 DEF ZoneExclusive
      <3> QED BY <3>1, <3>2
    <2>6. ASSUME NEW y \in Zones, NEW u \in Threads, NEW v \in Threads,
                 zone'[u] = y, zone'[v] = y
          PROVE  u = v
      BY SMT, <2>1, <2>3, <2>6 DEF ZoneExclusive
    <2> QED BY <2>5, <2>6 DEF ZoneExclusive
  <1>3. CASE zone[t] \in Zones /\ Release(t)
    BY SMT, <1>3 DEF ZoneExclusive, HolderTypeOK, Release, NoZone, Zones
  <1> QED BY <1>1, <1>2, <1>3 DEF HolderStep


(* What a crash and the following mount leave behind.                      *)
LEMMA CrashEffect ==
    ASSUME CrashAndMount
    PROVE  /\ crashes < MaxCrashes /\ crashes' = crashes + 1
           /\ wp' = [z \in Zones |-> IF usedBy'[z] = {} THEN 0 ELSE wp[z]]
           /\ capacity' = [z \in Zones |->
                             IF usedBy'[z] = {} /\ ~IsEmpty(z) THEN MaxCapacity ELSE capacity[z]]
           /\ active_io_zones' = Cardinality({z \in ActiveZones : usedBy'[z] # {}})
           /\ open_io_zones' = 0 /\ sleeping' = {} /\ alloc_mutex' = NoThread
           /\ busy' = [z \in Zones |-> FALSE]
           /\ zone' = [t \in Threads |-> NoZone]
           /\ left' = [t \in Threads |-> 0]
           /\ scan' = [t \in Threads |-> 1]
           /\ moving' = NoMove
           /\ \E survivors \in SUBSET Writers :
                /\ pc' = [t \in Threads |-> IF t \in survivors THEN "closed" ELSE InitialPc[t]]
                /\ closing' = [t \in Threads |-> t \in survivors]
                /\ usedBy' \in [Zones -> SUBSET survivors]
  <1>1. PICK survivors \in SUBSET {w \in Writers : pc[w] \notin {"absent", "deleted"}} :
          /\ usedBy' = [z \in Zones |->
                          (usedBy[z] \cap survivors)
                            \ (IF z \in moving.to \ moving.had THEN {moving.file} ELSE {})]
          /\ pc' = [t \in Threads |-> IF t \in survivors THEN "closed" ELSE InitialPc[t]]
          /\ closing' = [t \in Threads |-> t \in survivors]
    BY DEF CrashAndMount
  <1>2. survivors \in SUBSET Writers /\ usedBy' \in [Zones -> SUBSET survivors]
    BY <1>1
  <1> QED BY <1>1, <1>2 DEF CrashAndMount

-----------------------------------------------------------------------------
(* Which steps touch which variables                                       *)

(* The only steps of a writer that change write pointers and extents.      *)
LEMMA WriterFrame ==
    ASSUME NEW w \in Writers, WriterStep(w)
    PROVE  /\ \/ UNCHANGED <<wp, capacity>>
              \/ ThresholdFinish(w) \/ FinishVictim(w) \/ AppendChunk(w) \/ AppendError(w)
           /\ UNCHANGED usedBy \/ AppendChunk(w) \/ ClearExtents(w)
           /\ \/ UNCHANGED <<busy, zone>>
              \/ ThresholdVisit(w) \/ GetBestOpenZoneMatch(w) \/ FinishCheapestIOZone(w)
              \/ AllocateEmptyZone(w) \/ ThresholdFinish(w) \/ DecideOnMatch(w)
              \/ FinishVictim(w) \/ CloseActiveZone(w)
  <1> USE DEF WriterStep, AllocateIOZone, Write, zoneVars
  <1>1. \/ UNCHANGED <<wp, capacity>>
        \/ ThresholdFinish(w) \/ FinishVictim(w) \/ AppendChunk(w) \/ AppendError(w)
    BY DEF LockAllocMutex, ThresholdVisit, ThresholdPut, WaitForOpenIOZoneToken,
       GetBestOpenZoneMatch, TryActiveToken, DecideOnMatch, KeepMatch, GetActiveIOZoneToken,
       FinishCheapestIOZone, FinishPut, AllocateEmptyZone, NoZonePutActive, FailPutOpen,
       OpenFile, StartAppend, RollFullZone, StartClose, CloseActiveZone, ClosePutOpen,
       ClosePutActive, ReopenFile, ClearExtents
  <1>2. UNCHANGED usedBy \/ AppendChunk(w) \/ ClearExtents(w)
    BY DEF LockAllocMutex, ThresholdVisit, ThresholdFinish, ThresholdPut,
       WaitForOpenIOZoneToken, GetBestOpenZoneMatch, TryActiveToken, DecideOnMatch, KeepMatch,
       GetActiveIOZoneToken, FinishCheapestIOZone, FinishVictim, FinishPut,
       AllocateEmptyZone, NoZonePutActive, FailPutOpen, OpenFile, StartAppend,
       AppendError, RollFullZone, StartClose, CloseActiveZone, ClosePutOpen,
       ClosePutActive, ReopenFile
  <1>3. \/ UNCHANGED <<busy, zone>>
        \/ ThresholdVisit(w) \/ GetBestOpenZoneMatch(w) \/ FinishCheapestIOZone(w)
        \/ AllocateEmptyZone(w) \/ ThresholdFinish(w) \/ DecideOnMatch(w)
        \/ FinishVictim(w) \/ CloseActiveZone(w)
    BY DEF LockAllocMutex, ThresholdPut, WaitForOpenIOZoneToken, TryActiveToken, KeepMatch,
       GetActiveIOZoneToken, FinishPut, NoZonePutActive, FailPutOpen, OpenFile,
       StartAppend, AppendChunk, AppendError, RollFullZone, StartClose, ClosePutOpen,
       ClosePutActive, ReopenFile, ClearExtents
  <1> QED BY <1>1, <1>2, <1>3

(* The only step of ResetUnusedIOZones that changes write pointers.        *)
LEMMA SweeperFrame ==
    ASSUME NEW t \in Sweeping, ResetUnusedIOZones(t)
    PROVE  /\ UNCHANGED <<wp, capacity>> \/ SweepReset(t)
           /\ UNCHANGED usedBy
           /\ UNCHANGED <<busy, zone>> \/ SweepAcquire(t) \/ SweepRelease(t)
  BY DEF ResetUnusedIOZones, zoneVars, SweepAcquire, SweepCheck, SweepReset, SweepRelease,
     SweepPut

(* The only steps of garbage collection that change zones and extents.     *)
LEMMA GCFrame ==
    ASSUME Collect
    PROVE  /\ UNCHANGED <<wp, capacity>> \/ MigrateData
           /\ UNCHANGED usedBy \/ ReleaseMigrateZone \/ SyncFileExtents
           /\ UNCHANGED <<busy, zone>> \/ TakeMigrateZone \/ ReleaseMigrateZone
  BY DEF Collect, zoneVars, GCWorker, MigrateFileExtents, NextExtent, TakeMigrateZone,
     MigrateData, ReleaseMigrateZone, SyncFileExtents

(* DeleteFile leaves the zones alone.                                      *)
LEMMA DeleteFrame ==
    ASSUME NEW t \in Sweepers, NEW w \in Writers, DeleteFile(t, w)
    PROVE  UNCHANGED <<wp, capacity, usedBy, busy, zone>>
  BY DEF DeleteFile, zoneVars

(* Every step of a writer, a sweeper or GC hands over zones as HolderStep  *)
(* says.                                                                   *)
LEMMA WriterHolderStep ==
    ASSUME HolderTypeOK, PcZoneAgree, NEW w \in Writers, WriterStep(w)
    PROVE  HolderStep(w)
  <1>1. CASE ThresholdVisit(w)
    BY <1>1 DEF ThresholdVisit, HolderStep, PcZoneAgree, MatchHeldPc
  <1>2. CASE GetBestOpenZoneMatch(w)
    BY <1>2 DEF GetBestOpenZoneMatch, OpenZoneMatches, Seen, HolderStep, PcZoneAgree, MatchHeldPc
  <1>3. CASE FinishCheapestIOZone(w)
    BY <1>3 DEF FinishCheapestIOZone, FinishCandidates, Seen, HolderStep, PcZoneAgree, MatchHeldPc
  <1>4. CASE AllocateEmptyZone(w)
    BY <1>4 DEF AllocateEmptyZone, AcquirableEmptyZones, Seen, HolderStep, PcZoneAgree, MatchHeldPc
  <1>5. CASE ThresholdFinish(w) \/ FinishVictim(w) \/ CloseActiveZone(w)
    BY <1>5, HeldZone DEF ThresholdFinish, FinishVictim, CloseActiveZone, HolderStep, MatchHeldPc
  <1>6. CASE DecideOnMatch(w)
    BY <1>6, HeldZone DEF DecideOnMatch, HolderStep, MatchHeldPc
  <1> QED BY <1>1, <1>2, <1>3, <1>4, <1>5, <1>6, WriterFrame DEF HolderStep

(* A sweep acquires a free zone, releases its own, or neither.             *)
LEMMA SweeperHolderStep ==
    ASSUME HolderTypeOK, PcZoneAgree, NEW t \in Sweeping, ResetUnusedIOZones(t)
    PROVE  HolderStep(t)
  <1>1. CASE SweepAcquire(t)
    BY <1>1 DEF SweepAcquire, HolderStep, PcZoneAgree
  <1>2. CASE SweepRelease(t)
    BY <1>2, HeldZone DEF SweepRelease, HolderStep
  <1> QED BY <1>1, <1>2, SweeperFrame DEF HolderStep

(* So does a step of garbage collection.                                   *)
LEMMA GCHolderStep ==
    ASSUME HolderTypeOK, PcZoneAgree, Collect
    PROVE  HolderStep(GC)
  <1>1. CASE TakeMigrateZone
    BY <1>1 DEF TakeMigrateZone, OpenZoneMatches, AcquirableEmptyZones, Seen, HolderStep,
       PcZoneAgree, Sweeping
  <1>2. CASE ReleaseMigrateZone
    BY <1>2, HeldZone DEF ReleaseMigrateZone, HolderStep, Sweeping
  <1> QED BY <1>1, <1>2, GCFrame DEF HolderStep

-----------------------------------------------------------------------------
(* Type correctness                                                        *)

(* Write pointers and capacities stay in range.                            *)
LEMMA ZoneTypeStep ==
    ASSUME TypeOK, PcZoneAgree, [Next]_vars
    PROVE  ZoneTypeOK'
  <1> USE DEF TypeOK
  <1>1. CASE UNCHANGED <<wp, capacity>>
    BY <1>1 DEF ZoneTypeOK
  <1>2. ASSUME NEW w \in Writers, ThresholdFinish(w) \/ FinishVictim(w)
        PROVE  ZoneTypeOK'
    <2>1. zone[w] \in Zones
      BY <1>2, HeldZone DEF ThresholdFinish, FinishVictim, MatchHeldPc
    <2> QED BY <1>1, <1>2, <2>1, FinishType DEF ThresholdFinish, FinishVictim
  <1>3. ASSUME NEW w \in Writers, AppendChunk(w) \/ AppendError(w)
        PROVE  ZoneTypeOK'
    <2>1. zone[w] \in Zones
      BY <1>3, HeldZone DEF AppendChunk, AppendError
    <2>2. PICK n \in 0 .. MaxAppend : n <= ChunkSize(w) /\ Advance(zone[w], n)
      BY SMT, <1>3, <2>1, ChunkType, SizesAssumption DEF AppendChunk, AppendError
    <2>3. n \in Nat /\ n <= capacity[zone[w]]
      BY SMT, <2>1, <2>2, ChunkType, SizesAssumption DEF ZoneTypeOK
    <2> QED BY <2>1, <2>2, <2>3, AdvanceType
  <1>4. ASSUME NEW t \in Sweeping, SweepReset(t)
        PROVE  ZoneTypeOK'
    <2>1. zone[t] \in Zones
      BY <1>4, HeldZone DEF SweepReset
    <2> QED BY <1>1, <1>4, <2>1, ResetType DEF SweepReset, ResetError
  <1>5. CASE MigrateData
    <2>1. zone[GC] \in Zones
      BY <1>5, HeldZone DEF MigrateData, Sweeping
    <2>2. left[GC] \in Nat
      BY SMT, SizesAssumption DEF FileTypeOK, Threads
    <2>3. PICK n \in Nat : n <= capacity[zone[GC]] /\ Advance(zone[GC], n)
      BY SMT, <1>5, <2>2 DEF MigrateData
    <2> QED BY <2>1, <2>3, AdvanceType
  <1>6. CASE CrashAndMount
    <2>1. wp' = [z \in Zones |-> IF usedBy'[z] = {} THEN 0 ELSE wp[z]]
      BY <1>6, CrashEffect
    <2>2. capacity' = [z \in Zones |->
                         IF usedBy'[z] = {} /\ ~IsEmpty(z) THEN MaxCapacity ELSE capacity[z]]
      BY <1>6, CrashEffect
    <2>3. \A z \in Zones : /\ wp[z] \in 0 .. MaxCapacity
                           /\ capacity[z] \in 0 .. MaxCapacity
                           /\ wp[z] + capacity[z] <= MaxCapacity
      BY DEF ZoneTypeOK
    <2> QED BY SMT, <2>1, <2>2, <2>3, SizesAssumption DEF ZoneTypeOK, IsEmpty
  <1>7. CASE UNCHANGED vars
    BY <1>1, <1>7 DEF vars, zoneVars
  <1> QED
    BY <1>1, <1>2, <1>3, <1>4, <1>5, <1>6, <1>7,
       WriterFrame, DeleteFrame, SweeperFrame, GCFrame DEF Next, Run, Terminated

(* Extents belong to files.                                                *)
LEMMA UsedByTypeStep ==
    ASSUME TypeOK, PcZoneAgree, MovingFile, [Next]_vars
    PROVE  usedBy' \in [Zones -> SUBSET Writers]
  <1> USE DEF TypeOK
  <1>1. CASE UNCHANGED usedBy
    BY <1>1
  <1>2. ASSUME NEW w \in Writers, AppendChunk(w)
        PROVE  usedBy' \in [Zones -> SUBSET Writers]
    <2>1. \E x \in SUBSET Writers : usedBy' = [usedBy EXCEPT ![zone[w]] = x]
      BY <1>2, HeldZone DEF AppendChunk
    <2> QED BY <2>1
  <1>3. ASSUME NEW w \in Writers, ClearExtents(w)
        PROVE  usedBy' \in [Zones -> SUBSET Writers]
    BY <1>3 DEF ClearExtents
  <1>4. CASE ReleaseMigrateZone
    <2>1. moving.file \in Writers /\ zone[GC] \in Zones
      BY <1>4, HeldZone DEF ReleaseMigrateZone, MovingFile, Sweeping
    <2> QED BY SMT, <1>4, <2>1 DEF ReleaseMigrateZone
  <1>5. CASE SyncFileExtents
    BY <1>5 DEF SyncFileExtents
  <1>6. CASE CrashAndMount
    BY <1>6, CrashEffect
  <1>7. CASE UNCHANGED vars
    BY <1>1, <1>7 DEF vars, zoneVars
  <1> QED
    BY <1>1, <1>2, <1>3, <1>4, <1>5, <1>6, <1>7,
       WriterFrame, DeleteFrame, SweeperFrame, GCFrame DEF Next, Run, Terminated

(* Busy flags are Boolean and threads hold zones.                          *)
LEMMA HolderTypeStep ==
    ASSUME TypeOK, PcZoneAgree, [Next]_vars
    PROVE  HolderTypeOK'
  <1> USE DEF TypeOK
  <1>1. \A t \in Threads : HolderStep(t) => HolderTypeOK'
    BY HolderStepType
  <1>2. CASE CrashAndMount
    BY <1>2, CrashEffect DEF HolderTypeOK
  <1>3. CASE UNCHANGED vars
    BY <1>3 DEF vars, zoneVars, HolderTypeOK
  <1> QED
    BY <1>1, <1>2, <1>3, WriterHolderStep, DeleteFrame, SweeperHolderStep, GCHolderStep
       DEF Next, Run, Threads, Sweeping, Terminated, HolderStep

(* What a step of a thread does to the program counters, to the tokens and *)
(* to the progress of files: it moves its own, and nobody else's.          *)
PcMove(t, labels) == UNCHANGED pc \/ \E l \in labels : Goto(t, l)

TokenMove(t) ==
    /\ active_io_zones' \in Int /\ open_io_zones' \in Int
    /\ sleeping' \subseteq sleeping \cup {t}
    /\ alloc_mutex' \in {alloc_mutex, t, NoThread}

FileMove(t) ==
    /\ UNCHANGED left \/ \E n \in 0 .. MaxAppend : left' = [left EXCEPT ![t] = n]
    /\ UNCHANGED closing \/ \E b \in BOOLEAN : closing' = [closing EXCEPT ![t] = b]
    /\ UNCHANGED scan \/ \E n \in 1 .. NrZones + 1 : scan' = [scan EXCEPT ![t] = n]
    /\ UNCHANGED crashes

(* Moves to the labels of its kind of thread keep program counters typed.  *)
LEMMA PcMoveType ==
    ASSUME PcTypeOK, NEW t \in Threads, NEW labels, PcMove(t, labels),
           \/ t \in Writers /\ labels = WriterPc
           \/ t \in Sweepers /\ labels = SweeperPc
           \/ t = GC /\ labels = GCPc
    PROVE  PcTypeOK'
  <1>1. CASE UNCHANGED pc
    BY <1>1 DEF PcTypeOK
  <1>2. ASSUME NEW l \in labels, Goto(t, l) PROVE PcTypeOK'
    <2>1. pc' = [pc EXCEPT ![t] = l]
      BY <1>2 DEF Goto
    <2> QED BY <1>2, <2>1, ThreadsAssumption DEF PcTypeOK, Threads
  <1> QED BY <1>1, <1>2 DEF PcMove

(* A TokenMove of a writer, or of a thread that does not sleep, keeps the  *)
(* tokens typed.                                                           *)
LEMMA TokenMoveType ==
    ASSUME TokenTypeOK, NEW t, TokenMove(t),
           t \in Writers \/ (sleeping' \subseteq sleeping /\ alloc_mutex' \in {alloc_mutex, GC, NoThread})
    PROVE  TokenTypeOK'
  BY DEF TokenTypeOK, TokenMove

(* A FileMove keeps the files typed, if the migration stays typed.         *)
LEMMA FileMoveType ==
    ASSUME FileTypeOK, NEW t \in Threads, FileMove(t),
           moving' \in [file : Writers \cup {NoFile}, src : Zones \cup {NoZone},
                        to : SUBSET Zones, had : SUBSET Zones]
    PROVE  FileTypeOK'
  <1>1. left' \in [Threads -> 0 .. MaxAppend]
    BY DEF FileTypeOK, FileMove
  <1>2. closing' \in [Threads -> BOOLEAN]
    BY DEF FileTypeOK, FileMove
  <1>3. scan' \in [Threads -> 1 .. NrZones + 1]
    BY DEF FileTypeOK, FileMove
  <1>4. crashes' \in 0 .. MaxCrashes
    BY DEF FileTypeOK, FileMove
  <1> QED BY <1>1, <1>2, <1>3, <1>4 DEF FileTypeOK

(* notify_one wakes at most one sleeper.                                   *)
LEMMA NotifyWakes ==
    ASSUME NotifyOne
    PROVE  sleeping' \subseteq sleeping
  BY DEF NotifyOne

(* Where the steps of AllocateIOZone lead.                                 *)
LEMMA AllocatePcMove ==
    ASSUME NEW w \in Writers, AllocateIOZone(w)
    PROVE  PcMove(w, WriterPc)
  <1> USE DEF PcMove, WriterPc, HoldingOpenPc
  <1>LockAllocMutex. CASE LockAllocMutex(w)
    BY <1>LockAllocMutex DEF LockAllocMutex
  <1>ThresholdVisit. CASE ThresholdVisit(w)
    BY <1>ThresholdVisit DEF ThresholdVisit
  <1>ThresholdFinish. CASE ThresholdFinish(w)
    BY <1>ThresholdFinish DEF ThresholdFinish, AllocationFailed
  <1>ThresholdPut. CASE ThresholdPut(w)
    BY <1>ThresholdPut DEF ThresholdPut
  <1>WaitForOpenIOZoneToken. CASE WaitForOpenIOZoneToken(w)
    BY <1>WaitForOpenIOZoneToken DEF WaitForOpenIOZoneToken
  <1>GetBestOpenZoneMatch. CASE GetBestOpenZoneMatch(w)
    BY <1>GetBestOpenZoneMatch DEF GetBestOpenZoneMatch, Allocated, Seen
  <1>TryActiveToken. CASE TryActiveToken(w)
    BY <1>TryActiveToken DEF TryActiveToken, Allocated
  <1>DecideOnMatch. CASE DecideOnMatch(w)
    BY <1>DecideOnMatch DEF DecideOnMatch, Allocated
  <1>KeepMatch. CASE KeepMatch(w)
    BY <1>KeepMatch DEF KeepMatch, Allocated
  <1>GetActiveIOZoneToken. CASE GetActiveIOZoneToken(w)
    BY <1>GetActiveIOZoneToken DEF GetActiveIOZoneToken
  <1>FinishCheapestIOZone. CASE FinishCheapestIOZone(w)
    BY <1>FinishCheapestIOZone DEF FinishCheapestIOZone, Seen
  <1>FinishVictim. CASE FinishVictim(w)
    BY <1>FinishVictim DEF FinishVictim
  <1>FinishPut. CASE FinishPut(w)
    BY <1>FinishPut DEF FinishPut
  <1>AllocateEmptyZone. CASE AllocateEmptyZone(w)
    BY <1>AllocateEmptyZone DEF AllocateEmptyZone, Allocated, Seen
  <1>NoZonePutActive. CASE NoZonePutActive(w)
    BY <1>NoZonePutActive DEF NoZonePutActive
  <1>FailPutOpen. CASE FailPutOpen(w)
    BY <1>FailPutOpen DEF FailPutOpen, AllocationFailed
  <1> QED BY <1>LockAllocMutex, <1>ThresholdVisit, <1>ThresholdFinish, <1>ThresholdPut,
     <1>WaitForOpenIOZoneToken, <1>GetBestOpenZoneMatch, <1>TryActiveToken,
     <1>DecideOnMatch, <1>KeepMatch, <1>GetActiveIOZoneToken, <1>FinishCheapestIOZone,
     <1>FinishVictim, <1>FinishPut, <1>AllocateEmptyZone, <1>NoZonePutActive,
     <1>FailPutOpen DEF AllocateIOZone

(* Where the steps of Append and CloseWR lead.                             *)
LEMMA WritePcMove ==
    ASSUME NEW w \in Writers, Write(w)
    PROVE  PcMove(w, WriterPc)
  <1> USE DEF PcMove, WriterPc, HoldingOpenPc
  <1>OpenFile. CASE OpenFile(w)
    BY <1>OpenFile DEF OpenFile
  <1>StartAppend. CASE StartAppend(w)
    BY <1>StartAppend DEF StartAppend
  <1>AppendChunk. CASE AppendChunk(w)
    BY <1>AppendChunk DEF AppendChunk
  <1>AppendError. CASE AppendError(w)
    BY <1>AppendError DEF AppendError
  <1>RollFullZone. CASE RollFullZone(w)
    BY <1>RollFullZone DEF RollFullZone
  <1>StartClose. CASE StartClose(w)
    BY <1>StartClose DEF StartClose
  <1>CloseActiveZone. CASE CloseActiveZone(w)
    BY <1>CloseActiveZone DEF CloseActiveZone
  <1>ClosePutOpen. CASE ClosePutOpen(w)
    BY <1>ClosePutOpen DEF ClosePutOpen, AfterClose
  <1>ClosePutActive. CASE ClosePutActive(w)
    BY <1>ClosePutActive DEF ClosePutActive, AfterClose
  <1>ReopenFile. CASE ReopenFile(w)
    BY <1>ReopenFile DEF ReopenFile
  <1>ClearExtents. CASE ClearExtents(w)
    BY <1>ClearExtents DEF ClearExtents
  <1> QED BY <1>OpenFile, <1>StartAppend, <1>AppendChunk, <1>AppendError,
     <1>RollFullZone, <1>StartClose, <1>CloseActiveZone, <1>ClosePutOpen,
     <1>ClosePutActive, <1>ReopenFile, <1>ClearExtents DEF Write

(* What the steps of AllocateIOZone do to the tokens.                      *)
LEMMA AllocateTokenMove ==
    ASSUME TokenTypeOK, NEW w \in Writers, AllocateIOZone(w)
    PROVE  TokenMove(w)
  <1> USE DEF TokenMove, TokenTypeOK
  <1>LockAllocMutex. CASE LockAllocMutex(w)
    BY <1>LockAllocMutex DEF LockAllocMutex, tokenVars
  <1>ThresholdVisit. CASE ThresholdVisit(w)
    BY <1>ThresholdVisit DEF ThresholdVisit, tokenVars
  <1>ThresholdFinish. CASE ThresholdFinish(w)
    BY <1>ThresholdFinish DEF ThresholdFinish, tokenVars, AllocationFailed
  <1>ThresholdPut. CASE ThresholdPut(w)
    BY SMT, <1>ThresholdPut, NotifyWakes DEF ThresholdPut, PutActiveIOZoneToken
  <1>WaitForOpenIOZoneToken. CASE WaitForOpenIOZoneToken(w)
    BY SMT, <1>WaitForOpenIOZoneToken DEF WaitForOpenIOZoneToken
  <1>GetBestOpenZoneMatch. CASE GetBestOpenZoneMatch(w)
    BY <1>GetBestOpenZoneMatch DEF GetBestOpenZoneMatch, tokenVars, Allocated
  <1>TryActiveToken. CASE TryActiveToken(w)
    BY SMT, <1>TryActiveToken DEF TryActiveToken, Allocated
  <1>DecideOnMatch. CASE DecideOnMatch(w)
    BY <1>DecideOnMatch DEF DecideOnMatch, tokenVars, Allocated
  <1>KeepMatch. CASE KeepMatch(w)
    BY SMT, <1>KeepMatch, NotifyWakes DEF KeepMatch, PutActiveIOZoneToken, Allocated
  <1>GetActiveIOZoneToken. CASE GetActiveIOZoneToken(w)
    BY SMT, <1>GetActiveIOZoneToken DEF GetActiveIOZoneToken
  <1>FinishCheapestIOZone. CASE FinishCheapestIOZone(w)
    BY <1>FinishCheapestIOZone DEF FinishCheapestIOZone, tokenVars
  <1>FinishVictim. CASE FinishVictim(w)
    BY <1>FinishVictim DEF FinishVictim, tokenVars
  <1>FinishPut. CASE FinishPut(w)
    BY SMT, <1>FinishPut, NotifyWakes DEF FinishPut, PutActiveIOZoneToken
  <1>AllocateEmptyZone. CASE AllocateEmptyZone(w)
    BY <1>AllocateEmptyZone DEF AllocateEmptyZone, tokenVars, Allocated
  <1>NoZonePutActive. CASE NoZonePutActive(w)
    BY SMT, <1>NoZonePutActive, NotifyWakes DEF NoZonePutActive, PutActiveIOZoneToken
  <1>FailPutOpen. CASE FailPutOpen(w)
    BY SMT, <1>FailPutOpen, NotifyWakes DEF FailPutOpen, PutOpenIOZoneToken,
       AllocationFailed
  <1> QED BY <1>LockAllocMutex, <1>ThresholdVisit, <1>ThresholdFinish, <1>ThresholdPut,
     <1>WaitForOpenIOZoneToken, <1>GetBestOpenZoneMatch, <1>TryActiveToken,
     <1>DecideOnMatch, <1>KeepMatch, <1>GetActiveIOZoneToken, <1>FinishCheapestIOZone,
     <1>FinishVictim, <1>FinishPut, <1>AllocateEmptyZone, <1>NoZonePutActive,
     <1>FailPutOpen DEF AllocateIOZone

(* What the steps of Append and CloseWR do to the tokens.                  *)
LEMMA WriteTokenMove ==
    ASSUME TokenTypeOK, NEW w \in Writers, Write(w)
    PROVE  TokenMove(w)
  <1> USE DEF TokenMove, TokenTypeOK
  <1>OpenFile. CASE OpenFile(w)
    BY <1>OpenFile DEF OpenFile, tokenVars
  <1>StartAppend. CASE StartAppend(w)
    BY <1>StartAppend DEF StartAppend, tokenVars
  <1>AppendChunk. CASE AppendChunk(w)
    BY <1>AppendChunk DEF AppendChunk, tokenVars
  <1>AppendError. CASE AppendError(w)
    BY <1>AppendError DEF AppendError, tokenVars
  <1>RollFullZone. CASE RollFullZone(w)
    BY <1>RollFullZone DEF RollFullZone, tokenVars
  <1>StartClose. CASE StartClose(w)
    BY <1>StartClose DEF StartClose, tokenVars
  <1>CloseActiveZone. CASE CloseActiveZone(w)
    BY <1>CloseActiveZone DEF CloseActiveZone, tokenVars
  <1>ClosePutOpen. CASE ClosePutOpen(w)
    BY SMT, <1>ClosePutOpen, NotifyWakes DEF ClosePutOpen, PutOpenIOZoneToken
  <1>ClosePutActive. CASE ClosePutActive(w)
    BY SMT, <1>ClosePutActive, NotifyWakes DEF ClosePutActive, PutActiveIOZoneToken
  <1>ReopenFile. CASE ReopenFile(w)
    BY <1>ReopenFile DEF ReopenFile, tokenVars
  <1>ClearExtents. CASE ClearExtents(w)
    BY <1>ClearExtents DEF ClearExtents, tokenVars
  <1> QED BY <1>OpenFile, <1>StartAppend, <1>AppendChunk, <1>AppendError,
     <1>RollFullZone, <1>StartClose, <1>CloseActiveZone, <1>ClosePutOpen,
     <1>ClosePutActive, <1>ReopenFile, <1>ClearExtents DEF Write

(* The values that counters and positions are set to are in their ranges.  *)
LEMMA FileRanges ==
    /\ 0 \in 0 .. MaxAppend
    /\ \A n \in 1 .. MaxAppend : n \in 0 .. MaxAppend
    /\ 1 \in 1 .. NrZones + 1 /\ NrZones + 1 \in 1 .. NrZones + 1
    /\ TRUE \in BOOLEAN /\ FALSE \in BOOLEAN
  BY SMT, SizesAssumption

(* What the steps of AllocateIOZone do to the progress of a file.          *)
LEMMA AllocateFileMove ==
    ASSUME FileTypeOK, NEW w \in Writers, AllocateIOZone(w)
    PROVE  FileMove(w) /\ UNCHANGED moving
  <1> USE FileRanges DEF FileMove
  <1>LockAllocMutex. CASE LockAllocMutex(w)
    BY <1>LockAllocMutex DEF LockAllocMutex
  <1>ThresholdVisit. CASE ThresholdVisit(w)
    <2>1. scan[w] \in 1 .. NrZones + 1
      BY DEF FileTypeOK, Threads, Sweeping
    <2>2. scan[w] \in Zones => scan[w] + 1 \in 1 .. NrZones + 1
      BY SMT, <2>1, SizesAssumption DEF Zones
    <2> QED BY <1>ThresholdVisit, <2>2 DEF ThresholdVisit
  <1>ThresholdFinish. CASE ThresholdFinish(w)
    BY <1>ThresholdFinish DEF ThresholdFinish, AllocationFailed
  <1>ThresholdPut. CASE ThresholdPut(w)
    BY <1>ThresholdPut DEF ThresholdPut, fileVars
  <1>WaitForOpenIOZoneToken. CASE WaitForOpenIOZoneToken(w)
    BY <1>WaitForOpenIOZoneToken DEF WaitForOpenIOZoneToken, fileVars
  <1>GetBestOpenZoneMatch. CASE GetBestOpenZoneMatch(w)
    BY <1>GetBestOpenZoneMatch DEF GetBestOpenZoneMatch, fileVars
  <1>TryActiveToken. CASE TryActiveToken(w)
    BY <1>TryActiveToken DEF TryActiveToken, fileVars
  <1>DecideOnMatch. CASE DecideOnMatch(w)
    BY <1>DecideOnMatch DEF DecideOnMatch, fileVars
  <1>KeepMatch. CASE KeepMatch(w)
    BY <1>KeepMatch DEF KeepMatch, fileVars
  <1>GetActiveIOZoneToken. CASE GetActiveIOZoneToken(w)
    BY <1>GetActiveIOZoneToken DEF GetActiveIOZoneToken, fileVars
  <1>FinishCheapestIOZone. CASE FinishCheapestIOZone(w)
    BY <1>FinishCheapestIOZone DEF FinishCheapestIOZone, fileVars
  <1>FinishVictim. CASE FinishVictim(w)
    BY <1>FinishVictim DEF FinishVictim, fileVars
  <1>FinishPut. CASE FinishPut(w)
    BY <1>FinishPut DEF FinishPut, fileVars
  <1>AllocateEmptyZone. CASE AllocateEmptyZone(w)
    BY <1>AllocateEmptyZone DEF AllocateEmptyZone, fileVars
  <1>NoZonePutActive. CASE NoZonePutActive(w)
    BY <1>NoZonePutActive DEF NoZonePutActive, fileVars
  <1>FailPutOpen. CASE FailPutOpen(w)
    BY <1>FailPutOpen DEF FailPutOpen, AllocationFailed
  <1> QED BY <1>LockAllocMutex, <1>ThresholdVisit, <1>ThresholdFinish, <1>ThresholdPut,
     <1>WaitForOpenIOZoneToken, <1>GetBestOpenZoneMatch, <1>TryActiveToken,
     <1>DecideOnMatch, <1>KeepMatch, <1>GetActiveIOZoneToken, <1>FinishCheapestIOZone,
     <1>FinishVictim, <1>FinishPut, <1>AllocateEmptyZone, <1>NoZonePutActive,
     <1>FailPutOpen DEF AllocateIOZone

(* What the steps of Append and CloseWR do to the progress of a file.      *)
LEMMA WriteFileMove ==
    ASSUME TypeOK, ZoneTypeOK, HolderTypeOK, FileTypeOK, PcZoneAgree, NEW w \in Writers, Write(w)
    PROVE  FileMove(w) /\ UNCHANGED moving
  <1> USE FileRanges DEF FileMove
  <1>OpenFile. CASE OpenFile(w)
    BY <1>OpenFile DEF OpenFile, fileVars
  <1>StartAppend. CASE StartAppend(w)
    BY <1>StartAppend DEF StartAppend
  <1>AppendChunk. CASE AppendChunk(w)
    <2>1. zone[w] \in Zones
      BY <1>AppendChunk, HeldZone DEF AppendChunk
    <2>2. left[w] - ChunkSize(w) \in 0 .. MaxAppend
      <3>1. ChunkSize(w) \in 0 .. MaxAppend /\ ChunkSize(w) <= left[w]
        BY <2>1, ChunkType
      <3>2. left[w] \in 0 .. MaxAppend
        BY DEF FileTypeOK, Threads
      <3> QED BY SMT, <3>1, <3>2, SizesAssumption
    <2> QED BY <1>AppendChunk, <2>2 DEF AppendChunk
  <1>AppendError. CASE AppendError(w)
    BY <1>AppendError DEF AppendError
  <1>RollFullZone. CASE RollFullZone(w)
    BY <1>RollFullZone DEF RollFullZone, fileVars
  <1>StartClose. CASE StartClose(w)
    BY <1>StartClose DEF StartClose
  <1>CloseActiveZone. CASE CloseActiveZone(w)
    BY <1>CloseActiveZone DEF CloseActiveZone
  <1>ClosePutOpen. CASE ClosePutOpen(w)
    BY <1>ClosePutOpen DEF ClosePutOpen, fileVars
  <1>ClosePutActive. CASE ClosePutActive(w)
    BY <1>ClosePutActive DEF ClosePutActive, fileVars
  <1>ReopenFile. CASE ReopenFile(w)
    BY <1>ReopenFile DEF ReopenFile
  <1>ClearExtents. CASE ClearExtents(w)
    BY <1>ClearExtents DEF ClearExtents
  <1> QED BY <1>OpenFile, <1>StartAppend, <1>AppendChunk, <1>AppendError,
     <1>RollFullZone, <1>StartClose, <1>CloseActiveZone, <1>ClosePutOpen,
     <1>ClosePutActive, <1>ReopenFile, <1>ClearExtents DEF Write

(* Where the steps of ResetUnusedIOZones lead.                             *)
LEMMA SweeperPcMove ==
    ASSUME NEW t \in Sweeping, ResetUnusedIOZones(t)
    PROVE  PcMove(t, IF t = GC THEN GCPc ELSE SweeperPc)
  <1> USE DEF PcMove, GCPc, SweeperPc, SweepPc
  <1>SweepAcquire. CASE SweepAcquire(t)
    BY <1>SweepAcquire DEF SweepAcquire, AfterSweep
  <1>SweepCheck. CASE SweepCheck(t)
    BY <1>SweepCheck DEF SweepCheck
  <1>SweepReset. CASE SweepReset(t)
    BY <1>SweepReset DEF SweepReset, ResetError
  <1>SweepRelease. CASE SweepRelease(t)
    BY <1>SweepRelease DEF SweepRelease
  <1>SweepPut. CASE SweepPut(t)
    BY <1>SweepPut DEF SweepPut
  <1> QED BY <1>SweepAcquire, <1>SweepCheck, <1>SweepReset, <1>SweepRelease,
     <1>SweepPut DEF ResetUnusedIOZones

(* What the steps of ResetUnusedIOZones do to the tokens.                  *)
LEMMA SweeperTokenMove ==
    ASSUME TokenTypeOK, NEW t \in Sweeping, ResetUnusedIOZones(t)
    PROVE  TokenMove(t) /\ sleeping' \subseteq sleeping /\ UNCHANGED alloc_mutex
  <1> USE DEF TokenMove, TokenTypeOK
  <1>SweepAcquire. CASE SweepAcquire(t)
    BY <1>SweepAcquire DEF SweepAcquire, tokenVars
  <1>SweepCheck. CASE SweepCheck(t)
    BY <1>SweepCheck DEF SweepCheck, tokenVars
  <1>SweepReset. CASE SweepReset(t)
    BY <1>SweepReset DEF SweepReset, tokenVars
  <1>SweepRelease. CASE SweepRelease(t)
    BY <1>SweepRelease DEF SweepRelease, tokenVars
  <1>SweepPut. CASE SweepPut(t)
    BY SMT, <1>SweepPut, NotifyWakes DEF SweepPut, PutActiveIOZoneToken
  <1> QED BY <1>SweepAcquire, <1>SweepCheck, <1>SweepReset, <1>SweepRelease,
     <1>SweepPut DEF ResetUnusedIOZones

(* What the steps of ResetUnusedIOZones do to loop positions.              *)
LEMMA SweeperFileMove ==
    ASSUME FileTypeOK, NEW t \in Sweeping, ResetUnusedIOZones(t)
    PROVE  FileMove(t) /\ UNCHANGED moving
  <1> USE FileRanges DEF FileMove
  <1>SweepAcquire. CASE SweepAcquire(t)
    <2>1. scan[t] \in 1 .. NrZones + 1
      BY DEF FileTypeOK, Threads, Sweeping
    <2>2. scan[t] \in Zones => scan[t] + 1 \in 1 .. NrZones + 1
      BY SMT, <2>1, SizesAssumption DEF Zones
    <2> QED BY <1>SweepAcquire, <2>2 DEF SweepAcquire
  <1>SweepCheck. CASE SweepCheck(t)
    BY <1>SweepCheck DEF SweepCheck, fileVars
  <1>SweepReset. CASE SweepReset(t)
    BY <1>SweepReset DEF SweepReset, ResetError
  <1>SweepRelease. CASE SweepRelease(t)
    BY <1>SweepRelease DEF SweepRelease, fileVars
  <1>SweepPut. CASE SweepPut(t)
    BY <1>SweepPut DEF SweepPut, fileVars
  <1> QED BY <1>SweepAcquire, <1>SweepCheck, <1>SweepReset, <1>SweepRelease,
     <1>SweepPut DEF ResetUnusedIOZones

(* Where the steps of garbage collection lead.                             *)
LEMMA GCPcMove ==
    ASSUME Collect
    PROVE  PcMove(GC, GCPc)
  <1> USE DEF PcMove, GCPc, SweepPc
  <1>GCWorker. CASE GCWorker
    BY <1>GCWorker DEF GCWorker
  <1>MigrateFileExtents. CASE MigrateFileExtents
    BY <1>MigrateFileExtents DEF MigrateFileExtents, StartSweep
  <1>NextExtent. CASE NextExtent
    BY <1>NextExtent DEF NextExtent
  <1>TakeMigrateZone. CASE TakeMigrateZone
    BY <1>TakeMigrateZone DEF TakeMigrateZone, Seen
  <1>MigrateData. CASE MigrateData
    BY <1>MigrateData DEF MigrateData
  <1>ReleaseMigrateZone. CASE ReleaseMigrateZone
    BY <1>ReleaseMigrateZone DEF ReleaseMigrateZone
  <1>SyncFileExtents. CASE SyncFileExtents
    BY <1>SyncFileExtents DEF SyncFileExtents, StartSweep
  <1> QED BY <1>GCWorker, <1>MigrateFileExtents, <1>NextExtent, <1>TakeMigrateZone,
     <1>MigrateData, <1>ReleaseMigrateZone, <1>SyncFileExtents DEF Collect

(* What the steps of garbage collection do to the tokens.                  *)
LEMMA GCTokenMove ==
    ASSUME TokenTypeOK, Collect
    PROVE  /\ TokenMove(GC) /\ sleeping' \subseteq sleeping
           /\ alloc_mutex' \in {alloc_mutex, GC, NoThread}
  <1> USE DEF TokenMove, TokenTypeOK
  <1>GCWorker. CASE GCWorker
    BY <1>GCWorker DEF GCWorker, tokenVars
  <1>MigrateFileExtents. CASE MigrateFileExtents
    BY <1>MigrateFileExtents DEF MigrateFileExtents, tokenVars
  <1>NextExtent. CASE NextExtent
    BY <1>NextExtent DEF NextExtent, tokenVars
  <1>TakeMigrateZone. CASE TakeMigrateZone
    <2>1. UNCHANGED <<open_io_zones, sleeping, alloc_mutex>>
      BY <1>TakeMigrateZone DEF TakeMigrateZone
    <2>2. active_io_zones' \in {active_io_zones, active_io_zones + 1}
      BY <1>TakeMigrateZone DEF TakeMigrateZone
    <2> QED BY SMT, <2>1, <2>2
  <1>MigrateData. CASE MigrateData
    BY <1>MigrateData DEF MigrateData, tokenVars
  <1>ReleaseMigrateZone. CASE ReleaseMigrateZone
    BY <1>ReleaseMigrateZone DEF ReleaseMigrateZone, tokenVars
  <1>SyncFileExtents. CASE SyncFileExtents
    BY <1>SyncFileExtents DEF SyncFileExtents, tokenVars
  <1> QED BY <1>GCWorker, <1>MigrateFileExtents, <1>NextExtent, <1>TakeMigrateZone,
     <1>MigrateData, <1>ReleaseMigrateZone, <1>SyncFileExtents DEF Collect

(* What the steps of garbage collection do to loop positions.              *)
LEMMA GCFileMove ==
    ASSUME FileTypeOK, Collect
    PROVE  FileMove(GC)
  <1> USE FileRanges DEF FileMove
  <1>GCWorker. CASE GCWorker
    BY <1>GCWorker DEF GCWorker, fileVars
  <1>MigrateFileExtents. CASE MigrateFileExtents
    BY <1>MigrateFileExtents DEF MigrateFileExtents, StartSweep
  <1>NextExtent. CASE NextExtent
    BY <1>NextExtent DEF NextExtent
  <1>TakeMigrateZone. CASE TakeMigrateZone
    BY <1>TakeMigrateZone DEF TakeMigrateZone, fileVars
  <1>MigrateData. CASE MigrateData
    BY <1>MigrateData DEF MigrateData, fileVars
  <1>ReleaseMigrateZone. CASE ReleaseMigrateZone
    BY <1>ReleaseMigrateZone DEF ReleaseMigrateZone
  <1>SyncFileExtents. CASE SyncFileExtents
    BY <1>SyncFileExtents DEF SyncFileExtents, StartSweep
  <1> QED BY <1>GCWorker, <1>MigrateFileExtents, <1>NextExtent, <1>TakeMigrateZone,
     <1>MigrateData, <1>ReleaseMigrateZone, <1>SyncFileExtents DEF Collect

(* The migration under way stays typed.                                    *)
LEMMA GCMovingType ==
    ASSUME FileTypeOK, HolderTypeOK, PcZoneAgree, Collect
    PROVE  moving' \in [file : Writers \cup {NoFile}, src : Zones \cup {NoZone},
                        to : SUBSET Zones, had : SUBSET Zones]
  <1>1. CASE UNCHANGED moving
    BY <1>1 DEF FileTypeOK
  <1>2. CASE MigrateFileExtents
    <2>1. CASE UNCHANGED moving
      BY <1>1, <2>1
    <2>2. ASSUME NEW f \in Writers, NEW z \in Zones,
                 moving' = [file |-> f, src |-> z, to |-> {},
                            had |-> {y \in Zones : f \in usedBy[y]}]
          PROVE  moving' \in [file : Writers \cup {NoFile}, src : Zones \cup {NoZone},
                              to : SUBSET Zones, had : SUBSET Zones]
      BY <2>2
    <2> QED BY <1>2, <2>1, <2>2 DEF MigrateFileExtents
  <1>3. CASE ReleaseMigrateZone
    <2>1. zone[GC] \in Zones
      BY <1>3, HeldZone DEF ReleaseMigrateZone, Sweeping
    <2> QED BY SMT, <1>3, <2>1 DEF ReleaseMigrateZone, FileTypeOK
  <1>4. CASE SyncFileExtents
    BY <1>4 DEF SyncFileExtents, NoMove, FileTypeOK
  <1>5. CASE GCWorker \/ NextExtent \/ TakeMigrateZone \/ MigrateData
    <2>1. UNCHANGED moving
      BY <1>5 DEF GCWorker, NextExtent, TakeMigrateZone, MigrateData
    <2> QED BY <1>1, <2>1
  <1> QED BY <1>2, <1>3, <1>4, <1>5 DEF Collect

(* Every step of a writer keeps tokens, files and program counters typed.  *)
LEMMA WriterTypeStep ==
    ASSUME TypeOK, PcZoneAgree, NEW w \in Writers, WriterStep(w)
    PROVE  TokenTypeOK' /\ FileTypeOK' /\ PcTypeOK'
  <1>1. TokenTypeOK /\ FileTypeOK /\ PcTypeOK /\ ZoneTypeOK /\ HolderTypeOK /\ w \in Threads
    BY DEF TypeOK, Threads
  <1>2. PcMove(w, WriterPc) /\ TokenMove(w)
    BY <1>1, AllocatePcMove, WritePcMove, AllocateTokenMove, WriteTokenMove DEF WriterStep
  <1>3. FileMove(w) /\ UNCHANGED moving
    BY <1>1, AllocateFileMove, WriteFileMove DEF WriterStep
  <1>4. moving' \in [file : Writers \cup {NoFile}, src : Zones \cup {NoZone},
                     to : SUBSET Zones, had : SUBSET Zones]
    BY <1>1, <1>3 DEF FileTypeOK
  <1>5. TokenTypeOK'
    BY <1>1, <1>2, TokenMoveType
  <1>6. FileTypeOK'
    BY <1>1, <1>3, <1>4, FileMoveType
  <1>7. PcTypeOK'
    BY <1>1, <1>2, PcMoveType
  <1> QED BY <1>5, <1>6, <1>7

(* DeleteFile keeps tokens, files and program counters typed.              *)
LEMMA DeleteTypeStep ==
    ASSUME TypeOK, NEW t \in Sweepers, NEW w \in Writers, DeleteFile(t, w)
    PROVE  TokenTypeOK' /\ FileTypeOK' /\ PcTypeOK'
  <1>1. TokenTypeOK /\ FileTypeOK /\ PcTypeOK
    BY DEF TypeOK
  <1>2. TokenTypeOK'
    <2>1. UNCHANGED <<active_io_zones, open_io_zones, sleeping, alloc_mutex>>
      BY DEF DeleteFile, tokenVars
    <2> QED BY <1>1, <2>1 DEF TokenTypeOK
  <1>3. FileTypeOK'
    <2>1. UNCHANGED <<left, closing, moving, crashes>> /\ scan' = [scan EXCEPT ![t] = 1]
      BY DEF DeleteFile
    <2> QED BY <1>1, <2>1, FileRanges DEF FileTypeOK
  <1>4. PcTypeOK'
    <2>1. pc' = [pc EXCEPT ![w] = "deleted", ![t] = "sweep"]
      BY DEF DeleteFile
    <2>2. "deleted" \in WriterPc /\ "sweep" \in SweeperPc
      BY DEF WriterPc, SweeperPc, SweepPc
    <2> QED BY <1>1, <2>1, <2>2, ThreadsAssumption DEF PcTypeOK, Threads
  <1> QED BY <1>2, <1>3, <1>4

(* ResetUnusedIOZones keeps tokens, files and program counters typed.      *)
LEMMA SweeperTypeStep ==
    ASSUME TypeOK, NEW t \in Sweeping, ResetUnusedIOZones(t)
    PROVE  TokenTypeOK' /\ FileTypeOK' /\ PcTypeOK'
  <1>1. TokenTypeOK /\ FileTypeOK /\ PcTypeOK /\ t \in Threads
    BY DEF TypeOK, Threads, Sweeping
  <1>2. PcMove(t, IF t = GC THEN GCPc ELSE SweeperPc)
    BY SweeperPcMove
  <1>3. TokenMove(t) /\ sleeping' \subseteq sleeping /\ UNCHANGED alloc_mutex
    BY <1>1, SweeperTokenMove
  <1>4. FileMove(t) /\ UNCHANGED moving
    BY <1>1, SweeperFileMove
  <1>5. moving' \in [file : Writers \cup {NoFile}, src : Zones \cup {NoZone},
                     to : SUBSET Zones, had : SUBSET Zones]
    BY <1>1, <1>4 DEF FileTypeOK
  <1>6. TokenTypeOK'
    BY <1>1, <1>3, TokenMoveType
  <1>7. FileTypeOK'
    BY <1>1, <1>4, <1>5, FileMoveType
  <1>8. PcTypeOK'
    <2>1. CASE t = GC
      BY <1>1, <1>2, <2>1, PcMoveType
    <2>2. CASE t # GC
      <3>1. t \in Sweepers
        BY <2>2 DEF Sweeping
      <3> QED BY <1>1, <1>2, <2>2, <3>1, PcMoveType
    <2> QED BY <2>1, <2>2
  <1> QED BY <1>6, <1>7, <1>8

(* Garbage collection keeps tokens, files and program counters typed.      *)
LEMMA GCTypeStep ==
    ASSUME TypeOK, PcZoneAgree, Collect
    PROVE  TokenTypeOK' /\ FileTypeOK' /\ PcTypeOK'
  <1>1. TokenTypeOK /\ FileTypeOK /\ PcTypeOK /\ HolderTypeOK /\ GC \in Threads
    BY DEF TypeOK, Threads
  <1>2. TokenTypeOK'
    BY <1>1, GCTokenMove, TokenMoveType
  <1>3. FileTypeOK'
    BY <1>1, GCFileMove, GCMovingType, FileMoveType
  <1>4. PcTypeOK'
    BY <1>1, GCPcMove, PcMoveType
  <1> QED BY <1>2, <1>3, <1>4

(* So does a crash followed by Open and Mount.                             *)
LEMMA CrashTypeStep ==
    ASSUME TypeOK, CrashAndMount
    PROVE  TokenTypeOK' /\ FileTypeOK' /\ PcTypeOK'
  <1>1. TokenTypeOK'
    <2>1. Cardinality({z \in ActiveZones : usedBy'[z] # {}}) \in Nat
      <3>1. IsFiniteSet(Zones)
        BY SMT, FS_Interval, SizesAssumption DEF Zones
      <3>2. IsFiniteSet({z \in ActiveZones : usedBy'[z] # {}})
        BY <3>1, FS_Subset DEF ActiveZones
      <3> QED BY <3>2, FS_CardinalityType
    <2>2. /\ active_io_zones' = Cardinality({z \in ActiveZones : usedBy'[z] # {}})
          /\ open_io_zones' = 0 /\ sleeping' = {} /\ alloc_mutex' = NoThread
      BY CrashEffect
    <2> HIDE DEF CrashAndMount
    <2> QED BY SMT, <2>1, <2>2 DEF TokenTypeOK
  <1>2. FileTypeOK'
    <2>1. crashes' \in 0 .. MaxCrashes
      <3>1. crashes < MaxCrashes /\ crashes' = crashes + 1
        BY CrashEffect
      <3>2. crashes \in 0 .. MaxCrashes
        BY DEF TypeOK, FileTypeOK
      <3> QED BY SMT, <3>1, <3>2, SizesAssumption
    <2>2. closing' \in [Threads -> BOOLEAN]
      <3>1. PICK survivors : closing' = [t \in Threads |-> t \in survivors]
        BY CrashEffect
      <3>2. \A t \in Threads : (t \in survivors) \in BOOLEAN
        BY SMT
      <3> QED BY <3>1, <3>2
    <2>3. /\ left' = [t \in Threads |-> 0] /\ scan' = [t \in Threads |-> 1]
          /\ moving' = NoMove
      BY CrashEffect
    <2>4. NoMove \in [file : Writers \cup {NoFile}, src : Zones \cup {NoZone},
                      to : SUBSET Zones, had : SUBSET Zones]
      BY DEF NoMove
    <2>5. left' \in [Threads -> 0 .. MaxAppend] /\ scan' \in [Threads -> 1 .. NrZones + 1]
      BY <2>3, FileRanges
    <2> HIDE DEF CrashAndMount
    <2> QED BY <2>1, <2>2, <2>3, <2>4, <2>5 DEF FileTypeOK
  <1>3. PcTypeOK'
    <2>1. PICK survivors \in SUBSET Writers :
            pc' = [t \in Threads |-> IF t \in survivors THEN "closed" ELSE InitialPc[t]]
      BY CrashEffect
    <2>2. /\ \A w \in Writers : w \in Threads /\ InitialPc[w] = "absent"
          /\ \A t \in Sweepers \cup {GC} :
               t \in Threads /\ t \notin Writers /\ InitialPc[t] = "idle"
      BY ThreadsAssumption DEF InitialPc, Threads
    <2> QED BY <2>1, <2>2 DEF PcTypeOK, Threads, WriterPc, SweeperPc, GCPc
  <1> QED BY <1>1, <1>2, <1>3

(* TypeOK is preserved, given what the program counters say about zones    *)
(* and about the file under migration.                                     *)
LEMMA TypeStep ==
    ASSUME TypeOK, PcZoneAgree, MovingFile, [Next]_vars
    PROVE  TypeOK'
  <1>1. TokenTypeOK' /\ FileTypeOK' /\ PcTypeOK'
    <2>1. CASE UNCHANGED vars
      BY <2>1 DEF vars, tokenVars, fileVars, TypeOK, TokenTypeOK, FileTypeOK, PcTypeOK
    <2> QED
      BY <2>1, WriterTypeStep, DeleteTypeStep, SweeperTypeStep, GCTypeStep, CrashTypeStep
         DEF Next, Run, Terminated
  <1> QED BY <1>1, ZoneTypeStep, UsedByTypeStep, HolderTypeStep DEF TypeOK

=============================================================================

------------------------ MODULE ZoneAllocatorActive ------------------------
(***************************************************************************)
(* Proof that ZoneAllocator never has more active zones than the device    *)
(* supports, as long as no zone goes offline and no write of a migration   *)
(* fails.                                                                  *)
(***************************************************************************)
EXTENDS ZoneAllocatorSafety

\* A leaf is first-order reasoning unless it cites SMT.
USE Zenon

-----------------------------------------------------------------------------
(* Zones with live extents are written, and empty ones are all free.       *)

(* Zones with live extents stay written, and empty ones stay all free.     *)
LEMMA UsedStep ==
    ASSUME MigrationsSucceed, IndInv, UsedIsWritten, [Next]_vars, NEW z \in Zones
    PROVE  /\ (IsUsed(z) => ~IsEmpty(z))'
           /\ (IsEmpty(z) => capacity[z] = MaxCapacity)'
  <1> USE DEF IsUsed, IsEmpty
  <1>1. /\ wp[z] \in Nat /\ capacity[z] \in Nat /\ wp[z] <= MaxCapacity
        /\ usedBy[z] # {} => wp[z] # 0
        /\ wp[z] = 0 => capacity[z] = MaxCapacity
        /\ TypeOK /\ PcZoneAgree /\ ZoneTypeOK /\ HolderTypeOK /\ FileTypeOK
    BY SMT, SizesAssumption DEF IndInv, TypeOK, ZoneTypeOK, UsedIsWritten
  <1>2. CASE UNCHANGED <<wp, capacity, usedBy>>
    BY <1>1, <1>2
  <1>3. ASSUME NEW w \in Writers, ThresholdFinish(w) \/ FinishVictim(w)
        PROVE  (usedBy'[z] # {} => wp'[z] # 0) /\ (wp'[z] = 0 => capacity'[z] = MaxCapacity)
    <2>1. UNCHANGED usedBy /\ (UNCHANGED <<wp, capacity>> \/ FinishZone(zone[w]))
      BY <1>3 DEF ThresholdFinish, FinishVictim
    <2> QED BY <1>1, <2>1, SizesAssumption DEF FinishZone, ZoneTypeOK
  <1>4. ASSUME NEW w \in Writers, AppendChunk(w)
        PROVE  (usedBy'[z] # {} => wp'[z] # 0) /\ (wp'[z] = 0 => capacity'[z] = MaxCapacity)
    <2>1. zone[w] \in Zones
      BY <1>1, <1>4, HeldZone DEF AppendChunk
    <2>2. ChunkSize(w) \in Nat
      BY SMT, <1>1, <2>1, ChunkType
    <2>3. /\ wp'[z] = IF z = zone[w] THEN wp[z] + ChunkSize(w) ELSE wp[z]
          /\ capacity'[z] = IF z = zone[w] THEN capacity[z] - ChunkSize(w) ELSE capacity[z]
      BY <1>1, <1>4 DEF AppendChunk, Advance, ZoneTypeOK
    <2>4. usedBy'[z] = IF z = zone[w] /\ ChunkSize(w) # 0 THEN usedBy[z] \cup {w} ELSE usedBy[z]
      BY <1>1, <1>4 DEF AppendChunk, TypeOK
    <2> QED BY SMT, <1>1, <2>2, <2>3, <2>4
  <1>5. ASSUME NEW w \in Writers, AppendError(w)
        PROVE  (usedBy'[z] # {} => wp'[z] # 0) /\ (wp'[z] = 0 => capacity'[z] = MaxCapacity)
    <2>1. PICK n \in 0 .. MaxAppend : Advance(zone[w], n)
      BY <1>5 DEF AppendError
    <2>2. UNCHANGED usedBy
      BY <1>5 DEF AppendError
    <2> QED BY SMT, <1>1, <2>1, <2>2, SizesAssumption DEF Advance, ZoneTypeOK
  <1>6. ASSUME NEW w \in Writers, ClearExtents(w)
        PROVE  (usedBy'[z] # {} => wp'[z] # 0) /\ (wp'[z] = 0 => capacity'[z] = MaxCapacity)
    BY <1>1, <1>6 DEF ClearExtents
  <1>7. ASSUME NEW t \in Sweeping, SweepReset(t)
        PROVE  (usedBy'[z] # {} => wp'[z] # 0) /\ (wp'[z] = 0 => capacity'[z] = MaxCapacity)
    <2>1. usedBy[zone[t]] = {}
      BY <1>7 DEF IndInv, ResetOnlyUnused, Unused, SweepReset
    <2>2. UNCHANGED usedBy /\ (UNCHANGED <<wp, capacity>> \/ ResetZone(zone[t]))
      BY <1>7 DEF SweepReset, ResetError
    <2> QED BY <1>1, <2>1, <2>2 DEF ResetZone, MigrationsSucceed, ZoneTypeOK
  <1>8. ASSUME MigrateData
        PROVE  (usedBy'[z] # {} => wp'[z] # 0) /\ (wp'[z] = 0 => capacity'[z] = MaxCapacity)
    <2>1. left[GC] \in Nat
      BY SMT, <1>1, SizesAssumption DEF FileTypeOK, Threads
    <2>2. PICK n \in Nat : UNCHANGED usedBy /\ Advance(zone[GC], n)
      BY SMT, <1>8, <2>1 DEF MigrateData
    <2> QED BY SMT, <1>1, <2>1, <2>2 DEF Advance, ZoneTypeOK
  <1>9. ASSUME ReleaseMigrateZone
        PROVE  (usedBy'[z] # {} => wp'[z] # 0) /\ (wp'[z] = 0 => capacity'[z] = MaxCapacity)
    <2>1. wp[zone[GC]] # 0
      BY <1>9 DEF UsedIsWritten, ReleaseMigrateZone
    <2> QED BY <1>1, <1>9, <2>1 DEF ReleaseMigrateZone, TypeOK
  <1>10. ASSUME SyncFileExtents
        PROVE  (usedBy'[z] # {} => wp'[z] # 0) /\ (wp'[z] = 0 => capacity'[z] = MaxCapacity)
    BY <1>1, <1>10 DEF SyncFileExtents, TypeOK
  <1>11. ASSUME CrashAndMount
        PROVE  (usedBy'[z] # {} => wp'[z] # 0) /\ (wp'[z] = 0 => capacity'[z] = MaxCapacity)
    <2>1. /\ wp'[z] = IF usedBy'[z] = {} THEN 0 ELSE wp[z]
          /\ capacity'[z] = IF usedBy'[z] = {} /\ wp[z] # 0 THEN MaxCapacity ELSE capacity[z]
      BY <1>11, CrashEffect
    <2>2. usedBy'[z] \subseteq usedBy[z]
      BY SMT, <1>11 DEF CrashAndMount
    <2> QED BY <1>1, <2>1, <2>2
  <1>12. CASE UNCHANGED vars
    BY <1>2, <1>12 DEF vars, zoneVars
  <1> QED
    BY <1>2, <1>3, <1>4, <1>5, <1>6, <1>7, <1>8, <1>9, <1>10, <1>11, <1>12,
       WriterFrame, DeleteFrame, SweeperFrame, GCFrame DEF Next, Run, Terminated

(* The zone GC migrates to has room or is written, and is written before   *)
(* it gets extents.                                                        *)
LEMMA MigrationStep ==
    ASSUME MigrationsSucceed, IndInv, UsedIsWritten, [Next]_vars
    PROVE  /\ (pc[GC] = "migrate" => left[GC] <= capacity[zone[GC]] \/ ~IsEmpty(zone[GC]))'
           /\ (pc[GC] = "releaseMigrate" => ~IsEmpty(zone[GC]))'
  <1> DEFINE Goal ==
        /\ pc'[GC] = "migrate" => left'[GC] <= capacity'[zone'[GC]] \/ wp'[zone'[GC]] # 0
        /\ pc'[GC] = "releaseMigrate" => wp'[zone'[GC]] # 0
  <1> SUFFICES Goal
    BY DEF IsEmpty
  <1>1. /\ TypeOK /\ PcZoneAgree /\ ZoneTypeOK /\ HolderTypeOK /\ FileTypeOK /\ PcTypeOK
        /\ MovingFile /\ ZoneExclusive
        /\ GC \in Threads
    BY DEF IndInv, TypeOK, Threads
  <1>2. /\ pc[GC] = "migrate" => left[GC] <= capacity[zone[GC]] \/ wp[zone[GC]] # 0
        /\ pc[GC] = "releaseMigrate" => wp[zone[GC]] # 0
    BY DEF UsedIsWritten, IsEmpty
  <1>3. ASSUME UNCHANGED <<pc[GC], left[GC]>>,
               zone[GC] \in Zones => zone'[GC] = zone[GC] /\ Untouched(zone[GC])
        PROVE  Goal
    BY <1>1, <1>2, <1>3, HeldZone DEF Untouched, Sweeping
  <1>4. ASSUME NEW w \in Writers, WriterStep(w) PROVE Goal
    <2>1. left'[GC] = left[GC]
      BY <1>1, <1>4, ThreadsAssumption
         DEF WriterStep, AllocateIOZone, Write, fileVars, Allocated, AllocationFailed,
            FileTypeOK, LockAllocMutex, ThresholdVisit, ThresholdFinish, ThresholdPut,
            WaitForOpenIOZoneToken, GetBestOpenZoneMatch, TryActiveToken, DecideOnMatch, KeepMatch,
            GetActiveIOZoneToken, FinishCheapestIOZone, FinishVictim, FinishPut,
            AllocateEmptyZone, NoZonePutActive, FailPutOpen, OpenFile, StartAppend,
            AppendChunk, AppendError, RollFullZone, StartClose, CloseActiveZone,
            ClosePutOpen, ClosePutActive, ReopenFile, ClearExtents
    <2> QED BY <1>1, <1>3, <1>4, <2>1, OwnPc, OthersZone, ThreadsAssumption
  <1>5. ASSUME NEW t \in Sweeping, ResetUnusedIOZones(t) PROVE Goal
    <2>1. CASE t = GC
      BY <1>1, <1>5, <2>1 DEF ResetUnusedIOZones, SweepAcquire, AfterSweep, SweepCheck,
         SweepReset, ResetError, SweepRelease, SweepPut, Goto, PcTypeOK
    <2>2. CASE t # GC
      <3>1. left'[GC] = left[GC]
        BY <1>5 DEF ResetUnusedIOZones, fileVars, SweepAcquire, SweepCheck, SweepReset,
           SweepRelease, SweepPut
      <3> QED BY <1>1, <1>3, <1>5, <2>2, <3>1, OwnPc, OthersZone
    <2> QED BY <2>1, <2>2
  <1>11. ASSUME NEW t \in Sweepers, NEW w \in Writers, DeleteFile(t, w) PROVE Goal
    <2>1. pc'[GC] = pc[GC] /\ left'[GC] = left[GC]
      BY <1>1, <1>11, OwnPc, ThreadsAssumption DEF DeleteFile
    <2> QED BY <1>3, <1>11, <2>1, DeleteFrame DEF Untouched
  <1>6. CASE GCWorker \/ MigrateFileExtents \/ NextExtent \/ ReleaseMigrateZone \/ SyncFileExtents
    BY <1>1, <1>6 DEF GCWorker, MigrateFileExtents, StartSweep, NextExtent, ReleaseMigrateZone,
       SyncFileExtents, Goto, PcTypeOK
  <1>7. CASE TakeMigrateZone
    <2>1. left[GC] \in 1 .. MaxCapacity /\ UNCHANGED <<left, wp, capacity>>
      BY <1>1, <1>7 DEF TakeMigrateZone, MovingFile, fileVars
    <2>2. pc'[GC] # "releaseMigrate"
      BY <1>1, <1>7 DEF TakeMigrateZone, Goto, PcTypeOK
    <2>3. ASSUME pc'[GC] = "migrate"
          PROVE  \E z \in Zones : Acquire(GC, z) /\ (IsUsed(z) \/ IsEmpty(z))
      BY <1>1, <1>7, <2>3
         DEF TakeMigrateZone, OpenZoneMatches, AcquirableEmptyZones, Seen, Goto, PcTypeOK
    <2>4. \A z \in Zones : /\ IsUsed(z) => wp[z] # 0
                           /\ IsEmpty(z) => capacity[z] = MaxCapacity
      BY DEF UsedIsWritten, IsEmpty
    <2>5. ASSUME pc'[GC] = "migrate"
          PROVE  left'[GC] <= capacity'[zone'[GC]] \/ wp'[zone'[GC]] # 0
      <3>1. PICK z \in Zones : Acquire(GC, z) /\ (IsUsed(z) \/ IsEmpty(z))
        BY <2>3, <2>5
      <3>2. zone'[GC] = z
        BY <1>1, <3>1 DEF Acquire, HolderTypeOK
      <3> QED BY SMT, <2>1, <2>4, <3>1, <3>2, SizesAssumption
    <2> QED BY <2>2, <2>5
  <1>8. CASE MigrateData
    <2>1. zone[GC] \in Zones /\ left[GC] \in 1 .. MaxCapacity
      BY <1>1, <1>8, HeldZone DEF MigrateData, MovingFile, Sweeping
    <2>2. pc'[GC] = "releaseMigrate" /\ UNCHANGED zone
      BY <1>1, <1>8 DEF MigrateData, Goto, PcTypeOK
    <2>3. wp[zone[GC]] \in Nat /\ capacity[zone[GC]] \in Nat
      BY SMT, <1>1, <2>1, SizesAssumption DEF ZoneTypeOK
    <2>4. PICK n \in 0 .. left[GC] :
            (n < left[GC] => left[GC] > capacity[zone[GC]]) /\ Advance(zone[GC], n)
      BY <1>8 DEF MigrateData, MigrationsSucceed
    <2>5. wp'[zone[GC]] = wp[zone[GC]] + n
      BY <1>1, <2>1, <2>4 DEF Advance, ZoneTypeOK
    <2>6. wp[zone[GC]] # 0 \/ n = left[GC]
      BY SMT, <1>2, <1>8, <2>1, <2>3, <2>4 DEF MigrateData
    <2> QED BY SMT, <2>1, <2>2, <2>3, <2>5, <2>6
  <1>9. CASE CrashAndMount
    BY <1>9, CrashEffect, ThreadsAssumption DEF InitialPc, Threads
  <1>10. CASE UNCHANGED vars
    BY <1>3, <1>10 DEF vars, zoneVars, fileVars, Untouched
  <1> QED
    BY <1>4, <1>5, <1>6, <1>7, <1>8, <1>9, <1>10, <1>11 DEF Next, Run, Collect, Terminated

-----------------------------------------------------------------------------
(* A match and a victim are partly written zones.                          *)

(* A zone held as a match or a victim stays partly written.                *)
LEMMA HeldActiveStep ==
    ASSUME IndInv, UsedIsWritten, HeldActive, [Next]_vars
    PROVE  HeldActive'
  <1> DEFINE Held(w) == \/ pc[w] \in MatchHeldPc
                        \/ pc[w] = "notGood" /\ zone[w] # NoZone
  <1> SUFFICES ASSUME NEW w \in Writers, Held(w)' PROVE Active(zone[w])'
    BY DEF HeldActive
  <1>1. /\ TypeOK /\ PcZoneAgree /\ ZoneTypeOK /\ HolderTypeOK /\ PcTypeOK /\ ZoneExclusive
        /\ w \in Threads
    BY DEF IndInv, TypeOK, Threads
  <1>2. Held(w) => Active(zone[w]) /\ zone[w] \in Zones
    <2>1. Held(w) => Active(zone[w])
      BY DEF HeldActive
    <2>2. Held(w) => zone[w] \in Zones
      BY <1>1 DEF HolderTypeOK, PcZoneAgree
    <2> QED BY <2>1, <2>2
  <1>3. ASSUME Held(w), zone'[w] = zone[w], Untouched(zone[w])
        PROVE  Active(zone[w])'
    BY <1>2, <1>3 DEF Untouched, Active, IsEmpty, IsFull
  <1>4. ASSUME NEW v \in Writers, WriterStep(v), v # w PROVE Active(zone[w])'
    <2>1. pc'[w] = pc[w]
      BY <1>1, <1>4, OwnPc
    <2>2. Held(w)
      <3>1. HolderStep(v)
        BY <1>1, <1>4, WriterHolderStep
      <3>2. zone'[w] = zone[w]
        BY <1>1, <1>4, <3>1 DEF HolderStep, Acquire, Release, HolderTypeOK
      <3> QED BY <2>1, <3>2
    <2> QED BY <1>1, <1>2, <1>3, <1>4, <2>2, OthersZone
  <1>5. ASSUME NEW t \in Sweeping, ResetUnusedIOZones(t) PROVE Active(zone[w])'
    <2>1. pc'[w] = pc[w] /\ w # t
      BY <1>1, <1>5, OwnPc, ThreadsAssumption DEF Sweeping
    <2>2. Held(w)
      <3>1. zone'[w] = zone[w]
        BY <1>1, <1>5, <2>1, SweeperHolderStep DEF HolderStep, Acquire, Release, HolderTypeOK
      <3> QED BY <2>1, <3>1
    <2> QED BY <1>1, <1>2, <1>3, <1>5, <2>1, <2>2, OthersZone
  <1>6. CASE Collect
    <2>1. pc'[w] = pc[w] /\ w # GC
      BY <1>1, <1>6, OwnPc, ThreadsAssumption
    <2>2. Held(w)
      <3>1. zone'[w] = zone[w]
        BY <1>1, <1>6, <2>1, GCHolderStep DEF HolderStep, Acquire, Release, HolderTypeOK
      <3> QED BY <2>1, <3>1
    <2> QED BY <1>1, <1>2, <1>3, <1>6, <2>1, <2>2, OthersZone
  <1>7. ASSUME WriterStep(w) PROVE Active(zone[w])'
    <2>1. ASSUME NEW z \in Zones, Acquire(w, z), Active(z), UNCHANGED <<wp, capacity>>
          PROVE  Active(zone[w])'
      BY <1>1, <2>1 DEF Acquire, HolderTypeOK, Active, IsEmpty, IsFull
    <2>2. CASE ThresholdVisit(w)
      BY <1>1, <2>1, <2>2, ThreadsAssumption
         DEF ThresholdVisit, WithinFinishThreshold, MatchHeldPc, PcTypeOK, Goto
    <2>3. CASE GetBestOpenZoneMatch(w)
      <3>1. \A min : \A z \in OpenZoneMatches(min) : z \in Zones /\ Active(z)
        BY DEF OpenZoneMatches, Active, UsedIsWritten
      <3>2. zone[w] = NoZone
        BY <1>1, <2>3 DEF GetBestOpenZoneMatch, PcZoneAgree, MatchHeldPc
      <3>3. UNCHANGED <<wp, capacity>>
        BY <2>3 DEF GetBestOpenZoneMatch
      <3>4. \/ \E min : \E z \in OpenZoneMatches(min) : Acquire(w, z)
            \/ Goto(w, "notGood") /\ UNCHANGED zone
        BY <2>3 DEF GetBestOpenZoneMatch, Seen
      <3>5. CASE Goto(w, "notGood") /\ UNCHANGED zone
        BY <1>1, <3>2, <3>5 DEF Goto, PcTypeOK, MatchHeldPc
      <3> QED BY <2>1, <3>1, <3>3, <3>4, <3>5
    <2>4. CASE TryActiveToken(w) \/ DecideOnMatch(w)
      <3>1. UNCHANGED <<wp, capacity>>
        BY <2>4 DEF TryActiveToken, DecideOnMatch, zoneVars
      <3>2. UNCHANGED zone
        BY <1>1, <2>4 DEF TryActiveToken, DecideOnMatch, Goto, PcTypeOK, MatchHeldPc
      <3>3. Held(w)
        BY <1>1, <2>4, <3>2 DEF TryActiveToken, DecideOnMatch, Allocated, Goto, PcTypeOK, MatchHeldPc
      <3> QED BY <1>2, <3>1, <3>2, <3>3 DEF Active, IsEmpty, IsFull
    <2>5. CASE FinishCheapestIOZone(w)
      BY <1>1, <2>1, <2>5 DEF FinishCheapestIOZone, FinishCandidates, Seen, MatchHeldPc, PcTypeOK, Goto
    <2>6. \/ ThresholdVisit(w) \/ GetBestOpenZoneMatch(w) \/ TryActiveToken(w)
          \/ DecideOnMatch(w) \/ FinishCheapestIOZone(w)
      BY <1>1, <1>7 DEF WriterStep, AllocateIOZone, Write, PcTypeOK, MatchHeldPc, Goto,
         Allocated, AllocationFailed, AfterClose, LockAllocMutex, ThresholdFinish,
         ThresholdPut, WaitForOpenIOZoneToken, KeepMatch, GetActiveIOZoneToken,
         FinishVictim, FinishPut, AllocateEmptyZone, NoZonePutActive, FailPutOpen, OpenFile,
         StartAppend, AppendChunk, AppendError, RollFullZone, StartClose,
         CloseActiveZone, ClosePutOpen, ClosePutActive, ReopenFile, ClearExtents
    <2> QED BY <2>2, <2>3, <2>4, <2>5, <2>6
  <1>8. ~CrashAndMount
    BY <1>1, CrashEffect DEF InitialPc, MatchHeldPc
  <1>10. ASSUME NEW t \in Sweepers, NEW v \in Writers, DeleteFile(t, v) PROVE Active(zone[w])'
    <2>1. v # w
      BY <1>1, <1>10, ThreadsAssumption DEF DeleteFile, PcTypeOK, MatchHeldPc
    <2>2. pc'[w] = pc[w] /\ zone'[w] = zone[w] /\ Untouched(zone[w])
      BY <1>1, <1>10, <2>1, OwnPc, DeleteFrame, ThreadsAssumption DEF Untouched
    <2>3. Held(w)
      BY <2>2
    <2> QED BY <1>3, <2>2, <2>3
  <1>9. CASE UNCHANGED vars
    BY <1>2, <1>9 DEF vars, zoneVars, Active, IsEmpty, IsFull
  <1> QED BY <1>4, <1>5, <1>6, <1>7, <1>8, <1>9, <1>10 DEF Next, Run, Terminated

-----------------------------------------------------------------------------
(* Active tokens.  Seen from the thread u that takes a step and the zone z *)
(* it holds, acquires or releases, the step moves at most one charge.      *)

Charge(u, z) == z \in Zones /\ (Active(z) \/ (zone[u] = z /\ Writing(u)))

TokenStep(u, z) ==
    /\ zone[u] \in {z, NoZone} /\ zone'[u] \in {z, NoZone}
    /\ \/ /\ active_io_zones' = active_io_zones
          /\ \/ (OwesActiveToken(u)' => OwesActiveToken(u)) /\ (Charge(u, z)' => Charge(u, z))
             \/ OwesActiveToken(u) /\ ~OwesActiveToken(u)'
             \/ Charge(u, z) /\ ~Charge(u, z)'
       \/ /\ active_io_zones' = active_io_zones - 1
          /\ OwesActiveToken(u) /\ ~OwesActiveToken(u)' /\ (Charge(u, z)' => Charge(u, z))
       \/ /\ active_io_zones < MaxActive
          /\ active_io_zones' = active_io_zones + 1
          /\ (OwesActiveToken(u)' => OwesActiveToken(u)) \/ (Charge(u, z)' => Charge(u, z))

(* AllocateIOZone moves active tokens only together with charges.          *)
LEMMA AllocateTokenStep ==
    ASSUME IndInv, UsedIsWritten, HeldActive, NEW w \in Writers, AllocateIOZone(w)
    PROVE  \E z \in Zones \cup {NoZone} : TokenStep(w, z)
  <1>0. /\ TypeOK /\ ZoneTypeOK /\ HolderTypeOK /\ PcTypeOK /\ PcZoneAgree
        /\ w \in Threads /\ zone[w] \in Zones \cup {NoZone}
        /\ NoZone \notin Zones
    BY SMT, SizesAssumption DEF IndInv, TypeOK, HolderTypeOK, Threads, Zones, NoZone
  <1> PICK y \in Zones \cup {NoZone} : y = zone[w]
    BY <1>0
  <1> USE DEF Charge, Writing, OwesActiveToken, Goto, Active, IsEmpty, IsFull
  <1>1. CASE LockAllocMutex(w) \/ WaitForOpenIOZoneToken(w) \/ FailPutOpen(w)
    <2>1. TokenStep(w, y)
      BY SMT, <1>0, <1>1 DEF LockAllocMutex, WaitForOpenIOZoneToken, FailPutOpen, AllocationFailed,
         PutOpenIOZoneToken, zoneVars, tokenVars, TokenStep, PcTypeOK, PcZoneAgree, MatchHeldPc
    <2> QED BY <1>0, <2>1
  <1>2. CASE ThresholdPut(w) \/ KeepMatch(w) \/ FinishPut(w) \/ NoZonePutActive(w)
    <2>1. TokenStep(w, y)
      BY <1>0, <1>2 DEF ThresholdPut, KeepMatch, FinishPut, NoZonePutActive, Allocated,
         PutActiveIOZoneToken, zoneVars, TokenStep, PcTypeOK, HeldActive, MatchHeldPc
    <2> QED BY <1>0, <2>1
  <1>3. CASE GetActiveIOZoneToken(w)
    <2>1. TokenStep(w, y)
      BY <1>0, <1>3 DEF GetActiveIOZoneToken, ActiveTokenAvailable, zoneVars, TokenStep,
         PcTypeOK, PcZoneAgree, MatchHeldPc
    <2> QED BY <1>0, <2>1
  <1>4. ASSUME NEW z \in Zones, Acquire(w, z), Active(z), zone[w] = NoZone, ~OwesActiveToken(w)',
               UNCHANGED <<wp, capacity, active_io_zones>>
        PROVE  TokenStep(w, z)
    BY <1>0, <1>4 DEF Acquire, HolderTypeOK, TokenStep
  <1>5. ASSUME UNCHANGED <<zone, wp, capacity, active_io_zones>>, ~OwesActiveToken(w)',
               zone[w] = NoZone
        PROVE  TokenStep(w, y)
    BY <1>0, <1>5 DEF TokenStep
  <1>6. CASE ThresholdVisit(w)
    <2>1. zone[w] = NoZone /\ UNCHANGED <<wp, capacity, active_io_zones>> /\ ~OwesActiveToken(w)'
      BY <1>0, <1>6 DEF ThresholdVisit, tokenVars, PcTypeOK, PcZoneAgree, MatchHeldPc
    <2>2. UNCHANGED zone \/ (scan[w] \in Zones /\ Acquire(w, scan[w]) /\ Active(scan[w]))
      BY <1>6 DEF ThresholdVisit, WithinFinishThreshold
    <2> QED BY <1>0, <1>4, <1>5, <2>1, <2>2
  <1>7. CASE GetBestOpenZoneMatch(w)
    <2>1. zone[w] = NoZone /\ UNCHANGED <<wp, capacity, active_io_zones>> /\ ~OwesActiveToken(w)'
      BY <1>0, <1>7 DEF GetBestOpenZoneMatch, Allocated, tokenVars, PcTypeOK, PcZoneAgree,
         MatchHeldPc
    <2>2. UNCHANGED zone \/ \E z \in Zones : Acquire(w, z) /\ Active(z)
      BY <1>7 DEF GetBestOpenZoneMatch, OpenZoneMatches, Seen, UsedIsWritten
    <2> QED BY <1>0, <1>4, <1>5, <2>1, <2>2
  <1>8. CASE FinishCheapestIOZone(w)
    <2>1. zone[w] = NoZone /\ UNCHANGED <<wp, capacity, active_io_zones>> /\ ~OwesActiveToken(w)'
      BY <1>0, <1>8 DEF FinishCheapestIOZone, tokenVars, PcTypeOK, PcZoneAgree, MatchHeldPc
    <2>2. UNCHANGED zone \/ \E z \in Zones : Acquire(w, z) /\ Active(z)
      BY <1>8 DEF FinishCheapestIOZone, FinishCandidates, Seen
    <2> QED BY <1>0, <1>4, <1>5, <2>1, <2>2
  <1>9. CASE AllocateEmptyZone(w)
    <2>1. CASE UNCHANGED <<busy, zone>> /\ Goto(w, "noZone")
      <3>1. TokenStep(w, y)
        BY <1>0, <1>9, <2>1 DEF AllocateEmptyZone, tokenVars, PcTypeOK, PcZoneAgree, MatchHeldPc,
           TokenStep
      <3> QED BY <1>0, <3>1
    <2>2. ASSUME NEW z \in Zones, Acquire(w, z), Allocated(w) PROVE TokenStep(w, z)
      BY <1>0, <1>9, <2>2 DEF AllocateEmptyZone, Allocated, Acquire, HolderTypeOK, tokenVars,
         PcTypeOK, PcZoneAgree, MatchHeldPc, TokenStep
    <2> QED BY <1>9, <2>1, <2>2 DEF AllocateEmptyZone, AcquirableEmptyZones, Seen
  <1>10. CASE ThresholdFinish(w) \/ FinishVictim(w)
    <2>1. zone[w] \in Zones /\ Charge(w, y)
      BY <1>0, <1>10, HeldZone DEF ThresholdFinish, FinishVictim, HeldActive, MatchHeldPc
    <2>2. zone'[w] = NoZone /\ active_io_zones' = active_io_zones
      BY <1>0, <1>10 DEF ThresholdFinish, FinishVictim, Release, HolderTypeOK, tokenVars
    <2>3. CASE FinishZone(zone[w])
      BY <1>0, <2>1, <2>2, <2>3 DEF FinishZone, ZoneTypeOK, TokenStep
    <2>4. CASE UNCHANGED <<wp, capacity>> /\ ~OwesActiveToken(w)'
      BY <1>0, <2>1, <2>2, <2>4 DEF TokenStep
    <2>5. FinishZone(zone[w]) \/ (UNCHANGED <<wp, capacity>> /\ ~OwesActiveToken(w)')
      BY <1>0, <1>10 DEF ThresholdFinish, FinishVictim, AllocationFailed, PcTypeOK
    <2> QED BY <1>0, <2>3, <2>4, <2>5
  <1>11. CASE TryActiveToken(w)
    <2>1. UNCHANGED <<wp, capacity, zone>> /\ ~OwesActiveToken(w)
      BY <1>0, <1>11 DEF TryActiveToken, zoneVars
    <2>2. Charge(w, y)' => Charge(w, y)
      BY <1>0, <1>11, <2>1 DEF TryActiveToken, HeldActive, MatchHeldPc
    <2>3. \/ active_io_zones' = active_io_zones /\ ~OwesActiveToken(w)'
          \/ active_io_zones < MaxActive /\ active_io_zones' = active_io_zones + 1
      BY <1>0, <1>11 DEF TryActiveToken, Allocated, ActiveTokenAvailable, PcTypeOK
    <2>4. TokenStep(w, y)
      BY <1>0, <2>1, <2>2, <2>3 DEF TokenStep
    <2> QED BY <1>0, <2>4
  <1>12. CASE DecideOnMatch(w)
    <2>1. UNCHANGED <<wp, capacity, active_io_zones>> /\ zone'[w] \in {zone[w], NoZone}
      BY <1>0, <1>12 DEF DecideOnMatch, Release, HolderTypeOK, tokenVars
    <2>2. Charge(w, y)' => Charge(w, y)
      BY <1>0, <1>12, <2>1 DEF DecideOnMatch, HeldActive, MatchHeldPc
    <2>3. OwesActiveToken(w)' => OwesActiveToken(w)
      BY <1>0, <1>12 DEF DecideOnMatch, Allocated, PcTypeOK
    <2>4. TokenStep(w, y)
      BY <1>0, <2>1, <2>2, <2>3 DEF TokenStep
    <2> QED BY <1>0, <2>4
  <1> HIDE DEF Charge, Writing, OwesActiveToken, Goto, Active, IsEmpty, IsFull
  <1> QED
    BY <1>0, <1>1, <1>2, <1>3, <1>6, <1>7, <1>8, <1>9, <1>10, <1>11, <1>12 DEF AllocateIOZone

(* So do Append and CloseWR.                                               *)
LEMMA WriteTokenStep ==
    ASSUME IndInv, NEW w \in Writers, Write(w)
    PROVE  \E z \in Zones \cup {NoZone} : TokenStep(w, z)
  <1>0. /\ TypeOK /\ ZoneTypeOK /\ HolderTypeOK /\ PcTypeOK /\ PcZoneAgree
        /\ w \in Threads /\ zone[w] \in Zones \cup {NoZone}
        /\ NoZone \notin Zones
    BY SMT, SizesAssumption DEF IndInv, TypeOK, HolderTypeOK, Threads, Zones, NoZone
  <1> PICK y \in Zones \cup {NoZone} : y = zone[w]
    BY <1>0
  <1> USE DEF Charge, Writing, OwesActiveToken, Goto
  <1>1. CASE OpenFile(w) \/ ReopenFile(w) \/ ClearExtents(w) \/ ClosePutOpen(w)
    <2>1. TokenStep(w, y)
      BY <1>0, <1>1 DEF MatchHeldPc, OpenFile, ReopenFile, ClearExtents, ClosePutOpen, AfterClose,
         PutOpenIOZoneToken, zoneVars, tokenVars, TokenStep, PcTypeOK, PcZoneAgree,
         Active, IsEmpty, IsFull
    <2> QED BY <2>1
  <1>2. CASE StartAppend(w) \/ StartClose(w) \/ RollFullZone(w)
    <2>1. zone[w] \in Zones => Charge(w, y)
      BY <1>2 DEF StartAppend, StartClose, RollFullZone
    <2>2. ~OwesActiveToken(w)' /\ UNCHANGED <<zone, active_io_zones>>
      BY <1>0, <1>2 DEF StartAppend, StartClose, RollFullZone, tokenVars, PcTypeOK
    <2>3. TokenStep(w, y)
      BY <1>0, <2>1, <2>2 DEF TokenStep
    <2> QED BY <2>3
  <1>3. CASE AppendChunk(w) \/ AppendError(w)
    <2>1. zone[w] \in Zones => Charge(w, y)
      BY <1>3 DEF AppendChunk, AppendError
    <2>2. ~OwesActiveToken(w)' /\ UNCHANGED <<zone, active_io_zones>>
      BY <1>0, <1>3 DEF AppendChunk, AppendError, tokenVars, PcTypeOK
    <2>3. TokenStep(w, y)
      BY <1>0, <2>1, <2>2 DEF TokenStep
    <2> QED BY <2>3
  <1>4. CASE CloseActiveZone(w)
    <2>1. y \in Zones /\ Charge(w, y)
      BY <1>0, <1>4, HeldZone DEF CloseActiveZone
    <2>2. zone'[w] = NoZone /\ UNCHANGED <<wp, capacity, active_io_zones>>
      BY <1>0, <1>4 DEF CloseActiveZone, Release, HolderTypeOK, tokenVars
    <2>3. OwesActiveToken(w)' => IsFull(y)
      BY <1>0, <1>4 DEF CloseActiveZone, PcTypeOK
    <2>4. TokenStep(w, y)
      BY <1>0, <2>1, <2>2, <2>3 DEF TokenStep, Active, IsEmpty, IsFull
    <2> QED BY <2>4
  <1>5. CASE ClosePutActive(w)
    <2>1. TokenStep(w, y)
      BY <1>0, <1>5 DEF MatchHeldPc, ClosePutActive, AfterClose, PutActiveIOZoneToken, zoneVars, TokenStep,
         PcTypeOK, PcZoneAgree, Active, IsEmpty, IsFull
    <2> QED BY <2>1
  <1> HIDE DEF Charge, Writing, OwesActiveToken, Goto
  <1> QED BY <1>1, <1>2, <1>3, <1>4, <1>5 DEF Write

(* So does ResetUnusedIOZones.                                             *)
LEMMA SweeperTokenStep ==
    ASSUME MigrationsSucceed, IndInv, NEW t \in Sweeping, ResetUnusedIOZones(t)
    PROVE  \E z \in Zones \cup {NoZone} : TokenStep(t, z)
  <1>0. /\ TypeOK /\ ZoneTypeOK /\ HolderTypeOK /\ PcTypeOK /\ PcZoneAgree
        /\ t \in Threads /\ zone[t] \in Zones \cup {NoZone}
        /\ NoZone \notin Zones
    BY SMT, SizesAssumption DEF IndInv, TypeOK, HolderTypeOK, Threads, Sweeping, Zones, NoZone
  <1> PICK y \in Zones \cup {NoZone} : y = zone[t]
    BY <1>0
  <1> USE DEF Charge, Writing, OwesActiveToken, Goto, Active, IsEmpty, IsFull
  <1>1. CASE SweepAcquire(t)
    <2>1. /\ zone[t] = NoZone /\ UNCHANGED <<wp, capacity, active_io_zones>>
          /\ pc[t] = "sweep" /\ pc'[t] \in {"sweep", "check", "idle", "select"}
      BY <1>0, <1>1 DEF SweepAcquire, AfterSweep, tokenVars, PcTypeOK, PcZoneAgree
    <2>2. CASE UNCHANGED zone
      <3>1. TokenStep(t, y)
        BY <1>0, <2>1, <2>2 DEF TokenStep
      <3> QED BY <3>1
    <2>3. ASSUME NEW z \in Zones, Acquire(t, z) PROVE TokenStep(t, z)
      BY <1>0, <2>1, <2>3 DEF Acquire, HolderTypeOK, TokenStep
    <2> QED BY <1>1, <2>2, <2>3 DEF SweepAcquire
  <1>2. CASE SweepCheck(t)
    <2>1. TokenStep(t, y)
      BY <1>0, <1>2 DEF SweepCheck, zoneVars, tokenVars, TokenStep, PcTypeOK
    <2> QED BY <2>1
  <1>3. CASE SweepReset(t)
    <2>1. /\ y \in Zones /\ UNCHANGED <<zone, active_io_zones>>
          /\ pc[t] = "reset" => Active(y)
          /\ pc[t] \in {"reset", "resetFull"} /\ pc'[t] \in {"release", "releasePut"}
      BY <1>0, <1>3, HeldZone
         DEF SweepReset, ResetError, tokenVars, IndInv, ResetOnlyUnused, Unused, PcTypeOK
    <2>2. CASE ResetZone(zone[t])
      <3>1. ~Charge(t, y)'
        BY <1>0, <2>1, <2>2 DEF ResetZone, ZoneTypeOK
      <3>2. pc[t] = "resetFull" => ~OwesActiveToken(t)'
        BY <1>0, <1>3, <2>2 DEF SweepReset, ResetError, PcTypeOK
      <3>3. TokenStep(t, y)
        BY <1>0, <1>3, <2>1, <3>1, <3>2 DEF SweepReset, TokenStep
      <3> QED BY <3>3
    <2>3. CASE UNCHANGED <<wp, capacity>> /\ ~OwesActiveToken(t)'
      <3>1. TokenStep(t, y)
        BY <1>0, <2>1, <2>3 DEF TokenStep
      <3> QED BY <3>1
    <2>4. ResetZone(zone[t]) \/ (UNCHANGED <<wp, capacity>> /\ ~OwesActiveToken(t)')
      BY <1>0, <1>3 DEF SweepReset, ResetError, PcTypeOK
    <2> QED BY <2>2, <2>3, <2>4
  <1>4. CASE SweepRelease(t)
    <2>1. TokenStep(t, y)
      BY <1>0, <1>4 DEF SweepRelease, Release, HolderTypeOK, tokenVars, TokenStep, PcTypeOK
    <2> QED BY <2>1
  <1>5. CASE SweepPut(t)
    <2>1. TokenStep(t, y)
      BY <1>0, <1>5 DEF SweepPut, PutActiveIOZoneToken, zoneVars, TokenStep, PcTypeOK
    <2> QED BY <2>1
  <1> HIDE DEF Charge, Writing, OwesActiveToken, Goto, Active, IsEmpty, IsFull
  <1> QED BY <1>1, <1>2, <1>3, <1>4, <1>5 DEF ResetUnusedIOZones

(* So does garbage collection, except for tokens it never returns.         *)
LEMMA GCTokenStep ==
    ASSUME IndInv, UsedIsWritten, Collect
    PROVE  \E z \in Zones \cup {NoZone} : TokenStep(GC, z)
  <1>0. /\ TypeOK /\ ZoneTypeOK /\ HolderTypeOK /\ PcTypeOK /\ PcZoneAgree
        /\ GC \in Threads /\ zone[GC] \in Zones \cup {NoZone}
        /\ NoZone \notin Zones
    BY SMT, SizesAssumption DEF IndInv, TypeOK, HolderTypeOK, Threads, Zones, NoZone
  <1> PICK y \in Zones \cup {NoZone} : y = zone[GC]
    BY <1>0
  <1> USE DEF Charge, Writing, OwesActiveToken, Goto
  <1>1. CASE GCWorker \/ MigrateFileExtents \/ NextExtent \/ SyncFileExtents
    <2>1. TokenStep(GC, y)
      BY SMT, <1>0, <1>1 DEF GCWorker, MigrateFileExtents, NextExtent, SyncFileExtents, StartSweep,
         zoneVars, tokenVars, TokenStep, PcTypeOK, Active, IsEmpty, IsFull
    <2> QED BY <2>1
  <1>2. CASE TakeMigrateZone
    <2>1. zone[GC] = NoZone /\ UNCHANGED <<wp, capacity>> /\ ~OwesActiveToken(GC)
      BY <1>0, <1>2 DEF TakeMigrateZone, PcZoneAgree, Sweeping
    <2>2. ASSUME NEW z \in Zones, Acquire(GC, z), Goto(GC, "migrate"),
                 \/ Active(z) /\ UNCHANGED active_io_zones
                 \/ active_io_zones < MaxActive /\ active_io_zones' = active_io_zones + 1
          PROVE  TokenStep(GC, z)
      BY <1>0, <2>1, <2>2 DEF Acquire, HolderTypeOK, PcTypeOK, TokenStep, Active, IsEmpty, IsFull
    <2>3. ASSUME UNCHANGED <<busy, zone>>,
                 \/ Goto(GC, "extent") /\ UNCHANGED active_io_zones
                 \/ active_io_zones < MaxActive /\ active_io_zones' = active_io_zones + 1
          PROVE  TokenStep(GC, y)
      BY <1>0, <2>1, <2>3 DEF PcTypeOK, TokenStep
    <2>4. \A min : \A z \in OpenZoneMatches(min) : z \in Zones /\ Active(z)
      BY DEF OpenZoneMatches, UsedIsWritten, Active
    <2> HIDE DEF Goto
    <2> QED BY <1>2, <2>2, <2>3, <2>4
            DEF TakeMigrateZone, ActiveTokenAvailable, AcquirableEmptyZones, Seen
  <1>3. CASE MigrateData
    <2>1. TokenStep(GC, y)
      BY <1>0, <1>3, HeldZone DEF MigrateData, Sweeping, tokenVars, TokenStep, PcTypeOK
    <2> QED BY <2>1
  <1>4. CASE ReleaseMigrateZone
    <2>1. TokenStep(GC, y)
      BY <1>0, <1>4, HeldZone DEF ReleaseMigrateZone, Sweeping, Release, HolderTypeOK, tokenVars,
         TokenStep, PcTypeOK
    <2> QED BY <2>1
  <1> HIDE DEF Charge, Writing, OwesActiveToken, Goto
  <1> QED BY <1>1, <1>2, <1>3, <1>4 DEF Collect

(* There are finitely many charges for active tokens.                      *)
LEMMA ChargesFinite ==
    /\ IsFiniteSet(ActiveCharges) /\ Cardinality(ActiveCharges) \in Nat
    /\ IsFiniteSet(ActiveCharges') /\ Cardinality(ActiveCharges') \in Nat
  <1>1. IsFiniteSet(Zones) /\ IsFiniteSet(Threads)
    <2>1. IsFiniteSet(Zones)
      BY SMT, FS_Interval, SizesAssumption DEF Zones
    <2>2. IsFiniteSet(Writers \cup Sweepers)
      BY FS_Union, ThreadsAssumption
    <2> QED BY <2>1, <2>2, FS_Singleton, FS_Union DEF Threads
  <1>2. IsFiniteSet(Zones \cup Threads)
    BY <1>1, FS_Union
  <1>3. ActiveCharges \subseteq Zones \cup Threads /\ ActiveCharges' \subseteq Zones \cup Threads
    BY DEF ActiveCharges
  <1> QED BY <1>2, <1>3, ChargeSubset

(* At most one of two charges comes and goes with the counter.            *)
Moved(x, y) ==
    \/ /\ active_io_zones' = active_io_zones
       /\ \/ /\ x \in ActiveCharges' => x \in ActiveCharges
             /\ y \in ActiveCharges' => y \in ActiveCharges
          \/ x \in ActiveCharges /\ x \notin ActiveCharges'
          \/ y \in ActiveCharges /\ y \notin ActiveCharges'
    \/ /\ active_io_zones' = active_io_zones - 1
       /\ x \in ActiveCharges /\ x \notin ActiveCharges'
       /\ y \in ActiveCharges' => y \in ActiveCharges
    \/ /\ active_io_zones < MaxActive
       /\ active_io_zones' = active_io_zones + 1
       /\ \/ x \in ActiveCharges' => x \in ActiveCharges
          \/ y \in ActiveCharges' => y \in ActiveCharges

(* The counter covers the charges after a step that moves at most one.     *)
LEMMA ChargesBounded ==
    ASSUME TypeOK, ActiveZonesWithinLimit,
           NEW x, NEW y, x # y,
           ActiveCharges' \ {x, y} \subseteq ActiveCharges \ {x, y},
           Moved(x, y)
    PROVE  ActiveZonesWithinLimit'
  <1> DEFINE X == ActiveCharges
             Y == ActiveCharges'
  <1>1. IsFiniteSet(X) /\ Cardinality(X) \in Nat /\ IsFiniteSet(Y) /\ Cardinality(Y) \in Nat
    BY ChargesFinite
  <1>2. active_io_zones \in Int /\ MaxActive \in Int
    BY SMT, SizesAssumption DEF TypeOK, TokenTypeOK
  <1>3. Cardinality(X) <= active_io_zones /\ active_io_zones <= MaxActive
    BY DEF ActiveZonesWithinLimit
  <1>4. SUFFICES Cardinality(Y) <= active_io_zones' /\ active_io_zones' <= MaxActive
    BY DEF ActiveZonesWithinLimit
  <1> HIDE DEF X, Y
  <1>5. CASE Y \subseteq X /\ active_io_zones' = active_io_zones
    BY SMT, <1>1, <1>2, <1>3, <1>5, ChargeSubset
  <1>6. CASE x \in X /\ Y \subseteq X \ {x} /\ active_io_zones' = active_io_zones - 1
    <2>1. Cardinality(Y) <= Cardinality(X) - 1
      BY <1>1, <1>6, ChargeDrop
    <2> QED BY SMT, <1>1, <1>2, <1>3, <1>6, <2>1
  <1>7. ASSUME NEW e, Y \subseteq X \cup {e}, active_io_zones < MaxActive,
               active_io_zones' = active_io_zones + 1
        PROVE  Cardinality(Y) <= active_io_zones' /\ active_io_zones' <= MaxActive
    <2>1. Cardinality(Y) <= Cardinality(X) + 1
      BY <1>1, <1>7, ChargeAdd
    <2> QED BY SMT, <1>1, <1>2, <1>3, <1>7, <2>1
  <1>8. ASSUME NEW d \in X, NEW e, Y \subseteq (X \ {d}) \cup {e},
               active_io_zones' = active_io_zones
        PROVE  Cardinality(Y) <= active_io_zones' /\ active_io_zones' <= MaxActive
    <2>1. Cardinality(Y) <= Cardinality(X)
      BY <1>1, <1>8, ChargeSwap
    <2> QED BY SMT, <1>1, <1>2, <1>3, <1>8, <2>1
  <1> QED BY SMT, <1>5, <1>6, <1>7, <1>8 DEF X, Y, Moved

(* The only zone a TokenStep may hold, before it and after it.             *)
LEMMA TokenStepZone ==
    ASSUME NEW u, NEW z, TokenStep(u, z)
    PROVE  zone[u] \in {z, NoZone} /\ zone'[u] \in {z, NoZone}
  BY DEF TokenStep

(* Other threads keep their charges, and no two charge the same zone.      *)
LEMMA ChargesMoved ==
    ASSUME IndInv, ZoneExclusive', ActiveZonesWithinLimit,
           NEW u \in Threads, NEW z \in Zones \cup {NoZone}, TokenStep(u, z),
           \A t \in Threads : t # u => pc'[t] = pc[t] /\ zone'[t] = zone[t],
           \A y \in Zones : y # zone[u] => wp'[y] = wp[y] /\ capacity'[y] = capacity[y]
    PROVE  ActiveZonesWithinLimit'
  <1> DEFINE X == ActiveCharges
             Y == ActiveCharges'
  <1>1. NoZone \notin Zones /\ Zones \cap Threads = {} /\ NoZone \notin Threads
    <2>1. NoZone \notin Zones
      BY SMT, SizesAssumption DEF Zones, NoZone
    <2> QED BY <2>1, ThreadsAssumption
  <1>2. \A y \in Zones : y # z => (y \in Y <=> y \in X)
    <2> SUFFICES ASSUME NEW y \in Zones, y # z PROVE y \in Y <=> y \in X
      OBVIOUS
    <2>0. zone[u] \in {z, NoZone} /\ zone'[u] \in {z, NoZone}
      BY TokenStepZone
    <2>1. y # zone[u] /\ y # zone'[u]
      BY SMT, <1>1, <2>0
    <2>2. Active(y)' <=> Active(y)
      BY <2>1 DEF Active, IsEmpty, IsFull
    <2>3. HeldForWriting(y)' <=> HeldForWriting(y)
      BY <2>1 DEF HeldForWriting, Writing
    <2> QED BY <1>1, <2>2, <2>3 DEF ActiveCharges
  <1>3. \A t \in Threads : (t \in Y <=> OwesActiveToken(t)') /\ (t \in X <=> OwesActiveToken(t))
    BY <1>1 DEF ActiveCharges
  <1>4. \A t \in Threads : t # u => (t \in Y <=> t \in X)
    BY <1>3 DEF OwesActiveToken
  <1>5. X \subseteq Zones \cup Threads /\ Y \subseteq Zones \cup Threads
    BY DEF ActiveCharges
  <1>6. CASE z \in Zones /\ (zone[u] = z \/ zone'[u] = z)
    <2>1. \A t \in Threads : t # u => zone[t] # z /\ zone'[t] # z
      BY SMT, <1>6 DEF IndInv, ZoneExclusive
    <2>2. (z \in X <=> Charge(u, z)) /\ (z \in Y <=> Charge(u, z)')
      BY <1>1, <1>6, <2>1 DEF ActiveCharges, HeldForWriting, Charge
    <2>3. u # z /\ Y \ {u, z} \subseteq X \ {u, z}
      BY <1>1, <1>2, <1>4, <1>5
    <2>4. (u \in X <=> OwesActiveToken(u)) /\ (u \in Y <=> OwesActiveToken(u)')
      BY <1>3
    <2> HIDE DEF X, Y
    <2>5. Moved(u, z)
      BY <2>2, <2>4 DEF TokenStep, Moved, X, Y
    <2> QED BY <2>3, <2>5, ChargesBounded DEF IndInv, X, Y
  <1>7. CASE ~(z \in Zones /\ (zone[u] = z \/ zone'[u] = z))
    <2>0. zone[u] \in {z, NoZone} /\ zone'[u] \in {z, NoZone}
      BY TokenStepZone
    <2>1. zone[u] = NoZone /\ zone'[u] = NoZone
      BY <1>7, <2>0
    <2>2. \A y \in Zones : Active(y)' <=> Active(y)
      BY <1>1, <2>1 DEF Active, IsEmpty, IsFull
    <2>3. \A y \in Zones : y \in Y <=> y \in X
      <3> SUFFICES ASSUME NEW y \in Zones PROVE y \in Y <=> y \in X
        OBVIOUS
      <3>1. y # zone[u] /\ y # zone'[u]
        BY <1>1, <2>1
      <3>2. HeldForWriting(y)' <=> HeldForWriting(y)
        BY <3>1 DEF HeldForWriting, Writing
      <3> QED BY <1>1, <2>2, <3>2 DEF ActiveCharges
    <2>4. Charge(u, z)' <=> Charge(u, z)
      BY <1>1, <2>1, <2>2 DEF Charge
    <2>5. u # z /\ Y \ {u, z} \subseteq X \ {u, z} /\ (z \in Y <=> z \in X)
      BY <1>1, <1>4, <1>5, <2>3
    <2>6. (u \in X <=> OwesActiveToken(u)) /\ (u \in Y <=> OwesActiveToken(u)')
      BY <1>3
    <2> HIDE DEF X, Y
    <2>7. Moved(u, z)
      BY <2>4, <2>5, <2>6 DEF TokenStep, Moved, X, Y
    <2> QED BY <2>5, <2>7, ChargesBounded DEF IndInv, X, Y
  <1> QED BY <1>6, <1>7

(* Every step keeps the active zones within their limit.                   *)
LEMMA ActiveLimitStep ==
    ASSUME MigrationsSucceed, IndInv, ActiveInv, [Next]_vars
    PROVE  ActiveZonesWithinLimit'
  <1>1. /\ TypeOK /\ HolderTypeOK /\ PcZoneAgree
        /\ UsedIsWritten /\ HeldActive /\ ActiveZonesWithinLimit
    BY DEF IndInv, TypeOK, ActiveInv
  <1>2. ZoneExclusive'
    BY IndInvStep DEF IndInv
  <1>3. ASSUME NEW w \in Writers, WriterStep(w) PROVE ActiveZonesWithinLimit'
    <2>1. PICK z \in Zones \cup {NoZone} : TokenStep(w, z)
      BY <1>1, <1>3, AllocateTokenStep, WriteTokenStep DEF WriterStep
    <2>2. \A t \in Threads : t # w => pc'[t] = pc[t] /\ zone'[t] = zone[t]
      BY <1>1, <1>3, OwnPc, WriterHolderStep
         DEF HolderStep, Acquire, Release, HolderTypeOK
    <2> QED BY <1>1, <1>2, <1>3, <2>1, <2>2, ZonesWritten, ChargesMoved DEF Threads
  <1>4. ASSUME NEW u \in Sweeping, ResetUnusedIOZones(u) PROVE ActiveZonesWithinLimit'
    <2>1. PICK z \in Zones \cup {NoZone} : TokenStep(u, z)
      BY <1>1, <1>4, SweeperTokenStep
    <2>2. \A t \in Threads : t # u => pc'[t] = pc[t] /\ zone'[t] = zone[t]
      BY <1>1, <1>4, OwnPc, SweeperHolderStep
         DEF HolderStep, Acquire, Release, HolderTypeOK
    <2> QED BY <1>1, <1>2, <1>4, <2>1, <2>2, ZonesWritten, ChargesMoved DEF Threads, Sweeping
  <1>5. CASE Collect
    <2>1. PICK z \in Zones \cup {NoZone} : TokenStep(GC, z)
      BY <1>1, <1>5, GCTokenStep
    <2>2. \A t \in Threads : t # GC => pc'[t] = pc[t] /\ zone'[t] = zone[t]
      BY <1>1, <1>5, OwnPc, GCHolderStep
         DEF HolderStep, Acquire, Release, HolderTypeOK
    <2> QED BY <1>1, <1>2, <1>5, <2>1, <2>2, ZonesWritten, ChargesMoved DEF Threads
  <1>6. CASE CrashAndMount
    <2> DEFINE S == {z \in ActiveZones : usedBy'[z] # {}}
    <2>1. ActiveCharges' \subseteq S
      <3>1. \A t \in Threads : ~OwesActiveToken(t)' /\ ~Writing(t)'
        BY <1>6, CrashEffect DEF OwesActiveToken, Writing, InitialPc
      <3>2. \A z \in Zones : Active(z)' => z \in S
        BY <1>6, CrashEffect DEF Active, ActiveZones, IsEmpty, IsFull
      <3> QED BY <3>1, <3>2 DEF ActiveCharges, HeldForWriting
    <2>2. S \subseteq ActiveCharges
      BY DEF ActiveZones, ActiveCharges
    <2>3. /\ IsFiniteSet(S) /\ Cardinality(S) \in Nat
          /\ Cardinality(S) <= Cardinality(ActiveCharges)
          /\ Cardinality(ActiveCharges') <= Cardinality(S)
      BY <2>1, <2>2, ChargesFinite, ChargeSubset
    <2>4. active_io_zones' = Cardinality(S)
      BY <1>6, CrashEffect
    <2>5. active_io_zones \in Int /\ MaxActive \in Int
      BY SMT, <1>1, SizesAssumption DEF TypeOK, TokenTypeOK
    <2> QED BY SMT, <1>1, <2>3, <2>4, <2>5, ChargesFinite DEF ActiveZonesWithinLimit
  <1>7. CASE UNCHANGED vars
    BY <1>1, <1>7 DEF vars, zoneVars, tokenVars, ActiveZonesWithinLimit, ActiveCharges,
       HeldForWriting, Writing, OwesActiveToken, Active, IsEmpty, IsFull
  <1>8. ASSUME NEW u \in Sweepers, NEW w \in Writers, DeleteFile(u, w)
        PROVE  ActiveZonesWithinLimit'
    <2>1. /\ pc[w] = "closed" /\ pc'[w] = "deleted" /\ pc[u] = "idle" /\ pc'[u] = "sweep"
          /\ \A t \in Threads : t # u /\ t # w => pc'[t] = pc[t]
          /\ UNCHANGED <<wp, capacity, zone, active_io_zones>>
      BY <1>1, <1>8, ThreadsAssumption
         DEF DeleteFile, zoneVars, tokenVars, TypeOK, PcTypeOK, Threads
    <2>2. \A t \in Threads : /\ OwesActiveToken(t)' <=> OwesActiveToken(t)
                             /\ Writing(t)' <=> Writing(t)
      BY <2>1 DEF OwesActiveToken, Writing
    <2>3. ActiveCharges' = ActiveCharges
      BY <2>1, <2>2 DEF ActiveCharges, HeldForWriting, Active, IsEmpty, IsFull
    <2> QED BY <1>1, <2>1, <2>3 DEF ActiveZonesWithinLimit
  <1> QED BY <1>3, <1>4, <1>5, <1>6, <1>7, <1>8 DEF Next, Run, Terminated

(* The invariant of the active limit holds initially.                      *)
LEMMA ActiveInvInit == Init => ActiveInv
  <1> SUFFICES ASSUME Init PROVE ActiveInv
    OBVIOUS
  <1>1. /\ \A t \in Threads : zone[t] = NoZone /\ pc[t] \in {"absent", "idle"}
        /\ \A z \in Zones : wp[z] = 0 /\ capacity[z] = MaxCapacity /\ usedBy[z] = {}
    BY DEF Init, InitialPc
  <1>2. UsedIsWritten /\ HeldActive
    BY <1>1 DEF UsedIsWritten, HeldActive, MatchHeldPc, IsUsed, IsEmpty, Threads
  <1>3. ActiveCharges = {}
    BY <1>1 DEF ActiveCharges, Active, HeldForWriting, Writing, OwesActiveToken, IsEmpty
  <1>4. active_io_zones = 0
    BY DEF Init
  <1>5. ActiveZonesWithinLimit
    BY SMT, <1>3, <1>4, FS_EmptySet, SizesAssumption DEF ActiveZonesWithinLimit
  <1> QED BY <1>2, <1>5 DEF ActiveInv

(* Every step preserves the invariant of the active limit.                 *)
LEMMA ActiveInvStep ==
    ASSUME MigrationsSucceed, IndInv, ActiveInv, [Next]_vars
    PROVE  ActiveInv'
  <1>1. UsedIsWritten /\ HeldActive
    BY DEF ActiveInv
  <1>2. UsedIsWritten'
    BY <1>1, UsedStep, MigrationStep DEF UsedIsWritten
  <1>3. HeldActive'
    BY <1>1, HeldActiveStep DEF HeldActive
  <1> QED BY <1>2, <1>3, ActiveLimitStep DEF ActiveInv

(* As long as no zone goes offline and every write of a migration arrives, *)
(* zones with live extents are written, empty zones are all free, a writer *)
(* holds active zones, and each of these has its active token.             *)
THEOREM ActiveInductive ==
    ASSUME MigrationsSucceed
    PROVE  Spec => []ActiveInv
  <1>1. Init => ActiveInv
    BY ActiveInvInit
  <1>2. IndInv /\ ActiveInv /\ [Next]_vars => ActiveInv'
    BY ActiveInvStep
  <1> QED BY <1>1, <1>2, Inductive, PTL DEF Spec

(* Under the same condition the device never has more than                 *)
(* max_nr_active_io_zones_ zones that are partly written or about to be:   *)
(* each has its token of active_io_zones_, through finishes, resets,       *)
(* migrations, failed commands and crashes.                                *)
THEOREM ActiveLimitKept ==
    ASSUME MigrationsSucceed
    PROVE  Spec => []ActiveZonesWithinLimit
  <1>1. ActiveInv => ActiveZonesWithinLimit
    BY DEF ActiveInv
  <1>2. Spec => []ActiveInv
    BY ActiveInductive
  <1> QED BY <1>1, <1>2, PTL

=============================================================================

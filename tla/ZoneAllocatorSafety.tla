------------------------ MODULE ZoneAllocatorSafety ------------------------
(***************************************************************************)
(* Proofs that in ZoneAllocator a zone has one holder, that only unused    *)
(* zones are reset, that no wake-up of the wait for an open token is lost, *)
(* that the token counter bounds the open zones, and that an append finds  *)
(* room.  The inductive invariant IndInv adds to these what the program    *)
(* counter of a thread says about the zone, the mutex and the file it has  *)
(* in its hands.                                                           *)
(***************************************************************************)
EXTENDS ZoneAllocatorTyping

\* A leaf is first-order reasoning unless it cites SMT.
USE Zenon

-----------------------------------------------------------------------------
(* A thread holds a zone exactly where its program counter says so.        *)

(* A writer that moves on with the right zone keeps PcZoneAgree.           *)
LEMMA WriterAgrees ==
    ASSUME TypeOK, PcZoneAgree, NEW w \in Writers, NEW z, NEW l,
           zone' = [zone EXCEPT ![w] = z], Goto(w, l),
           l \in MatchHeldPc \cup {"append", "close"} => z # NoZone,
           l \notin MatchHeldPc \cup {"append", "close", "ready", "notGood"} => z = NoZone
    PROVE  PcZoneAgree'
  BY SMT, ThreadsAssumption
     DEF TypeOK, HolderTypeOK, PcTypeOK, PcZoneAgree, Threads, Sweeping, Goto

(* AllocateIOZone holds a zone exactly where PcZoneAgree says so.          *)
LEMMA AllocateHoldsZone ==
    ASSUME TypeOK, PcZoneAgree, NEW w \in Writers, AllocateIOZone(w)
    PROVE  PcZoneAgree'
  <1> USE SizesAssumption, ThreadsAssumption
      DEF TypeOK, HolderTypeOK, PcTypeOK, PcZoneAgree, MatchHeldPc, Threads, Sweeping, Zones, NoZone
  <1>LockAllocMutex. CASE LockAllocMutex(w)
    BY <1>LockAllocMutex DEF LockAllocMutex, Goto, zoneVars
  <1>ThresholdVisit. CASE ThresholdVisit(w)
    BY SMT, <1>ThresholdVisit DEF ThresholdVisit, Goto, Acquire
  <1>ThresholdFinish. CASE ThresholdFinish(w)
    BY SMT, <1>ThresholdFinish DEF ThresholdFinish, Release, Goto, AllocationFailed
  <1>ThresholdPut. CASE ThresholdPut(w)
    BY <1>ThresholdPut DEF ThresholdPut, Goto, zoneVars
  <1>WaitForOpenIOZoneToken. CASE WaitForOpenIOZoneToken(w)
    <2>1. /\ pc[w] = "waitOpen" /\ zone' = zone
          /\ pc' = pc \/ Goto(w, "match")
      BY <1>WaitForOpenIOZoneToken DEF WaitForOpenIOZoneToken
    <2>2. CASE pc' = pc
      BY <2>1, <2>2
    <2>3. CASE Goto(w, "match")
      BY <2>1, <2>3 DEF Goto
    <2> QED BY <2>1, <2>2, <2>3
  <1>GetBestOpenZoneMatch. CASE GetBestOpenZoneMatch(w)
    <2>1. zone[w] = NoZone /\ zone = [zone EXCEPT ![w] = NoZone]
      BY SMT, <1>GetBestOpenZoneMatch DEF GetBestOpenZoneMatch
    <2>2. CASE UNCHANGED zone /\ Goto(w, "notGood")
      BY SMT, <2>1, <2>2, WriterAgrees
    <2>3. ASSUME NEW z \in Zones, Acquire(w, z),
                 Allocated(w) \/ Goto(w, "couldBeWorse") \/ Goto(w, "notGood")
          PROVE  PcZoneAgree'
      <3>1. z # NoZone
        BY SMT
      <3> HIDE DEF TypeOK, PcZoneAgree, NoZone, Zones, Sweeping
      <3> QED BY <2>3, <3>1, WriterAgrees DEF Acquire, Allocated
    <2> QED BY <1>GetBestOpenZoneMatch, <2>2, <2>3 DEF GetBestOpenZoneMatch, OpenZoneMatches,
       Seen
  <1>DecideOnMatch. CASE DecideOnMatch(w)
    <2>1. zone = [zone EXCEPT ![w] = zone[w]]
      OBVIOUS
    <2>2. CASE UNCHANGED zone /\ (Goto(w, "keepMatch") \/ Allocated(w))
      BY SMT, <1>DecideOnMatch, <2>1, <2>2, WriterAgrees DEF DecideOnMatch, Allocated
    <2>3. CASE Release(w) /\ (Goto(w, "allocEmpty") \/ Goto(w, "getActive"))
      BY <2>3, WriterAgrees DEF Release
    <2> QED BY <1>DecideOnMatch, <2>2, <2>3 DEF DecideOnMatch
  <1>TryActiveToken. CASE TryActiveToken(w)
    BY SMT, <1>TryActiveToken DEF TryActiveToken, Allocated, zoneVars, Goto
  <1>KeepMatch. CASE KeepMatch(w)
    BY <1>KeepMatch DEF KeepMatch, Allocated, zoneVars, Goto
  <1>GetActiveIOZoneToken. CASE GetActiveIOZoneToken(w)
    BY SMT, <1>GetActiveIOZoneToken DEF GetActiveIOZoneToken, Goto, zoneVars
  <1>FinishCheapestIOZone. CASE FinishCheapestIOZone(w)
    <2>1. zone[w] = NoZone /\ zone = [zone EXCEPT ![w] = NoZone]
      BY SMT, <1>FinishCheapestIOZone DEF FinishCheapestIOZone
    <2>2. CASE UNCHANGED zone /\ Goto(w, "getActive")
      <3>1. zone' = [zone EXCEPT ![w] = NoZone]
        BY <2>1, <2>2
      <3> HIDE DEF TypeOK, PcZoneAgree, NoZone, Zones, Sweeping
      <3> QED BY <2>2, <3>1, WriterAgrees DEF MatchHeldPc
    <2>3. ASSUME NEW z \in Zones, Acquire(w, z), Goto(w, "finishVictim")
          PROVE  PcZoneAgree'
      <3>1. z # NoZone
        BY SMT
      <3> HIDE DEF TypeOK, PcZoneAgree, NoZone, Zones, Sweeping
      <3> QED BY <2>3, <3>1, WriterAgrees DEF Acquire
    <2> QED BY <1>FinishCheapestIOZone, <2>2, <2>3 DEF FinishCheapestIOZone, FinishCandidates,
       Seen
  <1>FinishVictim. CASE FinishVictim(w)
    BY SMT, <1>FinishVictim DEF FinishVictim, Release, Goto
  <1>FinishPut. CASE FinishPut(w)
    BY <1>FinishPut DEF FinishPut, Goto, zoneVars
  <1>AllocateEmptyZone. CASE AllocateEmptyZone(w)
    BY SMT, <1>AllocateEmptyZone DEF AllocateEmptyZone, AcquirableEmptyZones, Seen, Acquire,
       Allocated, Goto
  <1>NoZonePutActive. CASE NoZonePutActive(w)
    BY <1>NoZonePutActive DEF NoZonePutActive, Goto, zoneVars
  <1>FailPutOpen. CASE FailPutOpen(w)
    BY <1>FailPutOpen DEF FailPutOpen, AllocationFailed, zoneVars, Goto
  <1> HIDE SizesAssumption, ThreadsAssumption
      DEF TypeOK, HolderTypeOK, PcTypeOK, PcZoneAgree, MatchHeldPc, Threads, Sweeping, Zones, NoZone
  <1> QED BY <1>LockAllocMutex, <1>ThresholdVisit, <1>ThresholdFinish, <1>ThresholdPut,
     <1>WaitForOpenIOZoneToken, <1>GetBestOpenZoneMatch, <1>TryActiveToken,
     <1>DecideOnMatch, <1>KeepMatch,
     <1>GetActiveIOZoneToken, <1>FinishCheapestIOZone, <1>FinishVictim, <1>FinishPut,
     <1>AllocateEmptyZone, <1>NoZonePutActive, <1>FailPutOpen DEF AllocateIOZone

(* So do Append and CloseWR.                                               *)
LEMMA WriteHoldsZone ==
    ASSUME TypeOK, PcZoneAgree, NEW w \in Writers, Write(w)
    PROVE  PcZoneAgree'
  <1> USE SizesAssumption, ThreadsAssumption
      DEF TypeOK, HolderTypeOK, PcTypeOK, PcZoneAgree, MatchHeldPc, Threads, Sweeping, Zones, NoZone
  <1>OpenFile. CASE OpenFile(w)
    BY <1>OpenFile DEF OpenFile, Goto, zoneVars
  <1>StartAppend. CASE StartAppend(w)
    BY <1>StartAppend DEF StartAppend, Goto, zoneVars
  <1>AppendChunk. CASE AppendChunk(w)
    BY <1>AppendChunk DEF AppendChunk, Goto
  <1>AppendError. CASE AppendError(w)
    BY <1>AppendError DEF AppendError, Goto
  <1>RollFullZone. CASE RollFullZone(w)
    BY <1>RollFullZone DEF RollFullZone, Goto, zoneVars
  <1>StartClose. CASE StartClose(w)
    BY <1>StartClose DEF StartClose, Goto, zoneVars
  <1>CloseActiveZone. CASE CloseActiveZone(w)
    BY SMT, <1>CloseActiveZone DEF CloseActiveZone, Release, Goto
  <1>ClosePutOpen. CASE ClosePutOpen(w)
    <2>1. pc[w] \in {"putBoth", "putOpen"} /\ UNCHANGED zone
      BY <1>ClosePutOpen DEF ClosePutOpen
    <2>2. zone[w] = NoZone /\ zone' = [zone EXCEPT ![w] = NoZone]
      BY SMT, <2>1
    <2>3. \E l \in {"putActive", "closed", "lock"} : Goto(w, l)
      BY <1>ClosePutOpen DEF ClosePutOpen, AfterClose
    <2> HIDE DEF TypeOK, PcZoneAgree, NoZone, Zones, Sweeping
    <2> QED BY <2>2, <2>3, WriterAgrees DEF MatchHeldPc
  <1>ClosePutActive. CASE ClosePutActive(w)
    BY <1>ClosePutActive DEF ClosePutActive, AfterClose, zoneVars, Goto
  <1>ReopenFile. CASE ReopenFile(w)
    BY <1>ReopenFile DEF ReopenFile, Goto, zoneVars
  <1>ClearExtents. CASE ClearExtents(w)
    BY <1>ClearExtents DEF ClearExtents, Goto
  <1> HIDE SizesAssumption, ThreadsAssumption
      DEF TypeOK, HolderTypeOK, PcTypeOK, PcZoneAgree, MatchHeldPc, Threads, Sweeping, Zones, NoZone
  <1> QED BY <1>OpenFile, <1>StartAppend, <1>AppendChunk, <1>AppendError,
     <1>RollFullZone, <1>StartClose, <1>CloseActiveZone, <1>ClosePutOpen,
     <1>ClosePutActive, <1>ReopenFile, <1>ClearExtents DEF Write

(* So does ResetUnusedIOZones.                                             *)
LEMMA SweeperHoldsZone ==
    ASSUME TypeOK, PcZoneAgree, NEW t \in Sweeping, ResetUnusedIOZones(t)
    PROVE  PcZoneAgree'
  <1> USE SizesAssumption, ThreadsAssumption
      DEF TypeOK, HolderTypeOK, PcTypeOK, PcZoneAgree, MatchHeldPc, Threads, Sweeping, Zones, NoZone
  <1>SweepAcquire. CASE SweepAcquire(t)
    BY SMT, <1>SweepAcquire DEF SweepAcquire, AfterSweep, Acquire, Goto
  <1>SweepCheck. CASE SweepCheck(t)
    BY <1>SweepCheck DEF SweepCheck, Goto, zoneVars
  <1>SweepReset. CASE SweepReset(t)
    BY SMT, <1>SweepReset DEF SweepReset, ResetError, Goto
  <1>SweepRelease. CASE SweepRelease(t)
    BY <1>SweepRelease DEF SweepRelease, Release, Goto
  <1>SweepPut. CASE SweepPut(t)
    BY <1>SweepPut DEF SweepPut, Goto, zoneVars
  <1> HIDE SizesAssumption, ThreadsAssumption
      DEF TypeOK, HolderTypeOK, PcTypeOK, PcZoneAgree, MatchHeldPc, Threads, Sweeping, Zones, NoZone
  <1> QED BY <1>SweepAcquire, <1>SweepCheck, <1>SweepReset, <1>SweepRelease, <1>SweepPut
     DEF ResetUnusedIOZones

(* DeleteFile holds no zone.                                               *)
LEMMA DeleteHoldsZone ==
    ASSUME TypeOK, PcZoneAgree, NEW t \in Sweepers, NEW w \in Writers, DeleteFile(t, w)
    PROVE  PcZoneAgree'
  BY SMT, ThreadsAssumption
     DEF DeleteFile, zoneVars, TypeOK, HolderTypeOK, PcTypeOK, PcZoneAgree, MatchHeldPc, Threads,
         Sweeping

(* Garbage collection holds a zone only while it migrates an extent.       *)
LEMMA GCHoldsZone ==
    ASSUME TypeOK, PcZoneAgree, Collect
    PROVE  PcZoneAgree'
  <1> USE SizesAssumption, ThreadsAssumption
      DEF TypeOK, HolderTypeOK, PcTypeOK, PcZoneAgree, MatchHeldPc, Threads, Sweeping, Zones, NoZone
  <1>GCWorker. CASE GCWorker
    BY SMT, <1>GCWorker DEF GCWorker, Goto, zoneVars
  <1>MigrateFileExtents. CASE MigrateFileExtents
    <2>1. pc[GC] = "select" /\ UNCHANGED zone /\ (Goto(GC, "extent") \/ Goto(GC, "sweep"))
      BY <1>MigrateFileExtents DEF MigrateFileExtents, StartSweep
    <2> QED BY SMT, <2>1 DEF Goto
  <1>NextExtent. CASE NextExtent
    BY SMT, <1>NextExtent DEF NextExtent, Goto, zoneVars
  <1>TakeMigrateZone. CASE TakeMigrateZone
    <2>1. PICK z \in Zones \cup {NoZone}, l \in {"migrate", "nullZone", "extent"} :
            /\ zone' = [zone EXCEPT ![GC] = z]
            /\ Goto(GC, l)
            /\ z # NoZone <=> l = "migrate"
      <3>1. zone[GC] = NoZone /\ zone = [zone EXCEPT ![GC] = NoZone]
        BY SMT, <1>TakeMigrateZone DEF TakeMigrateZone
      <3> QED BY SMT, <1>TakeMigrateZone, <3>1
              DEF TakeMigrateZone, OpenZoneMatches, AcquirableEmptyZones, Seen, Acquire
    <2> QED BY SMT, <2>1 DEF Goto
  <1>MigrateData. CASE MigrateData
    BY <1>MigrateData DEF MigrateData, Goto
  <1>ReleaseMigrateZone. CASE ReleaseMigrateZone
    BY SMT, <1>ReleaseMigrateZone DEF ReleaseMigrateZone, Release, Goto
  <1>SyncFileExtents. CASE SyncFileExtents
    BY <1>SyncFileExtents DEF SyncFileExtents, StartSweep, Goto
  <1> HIDE SizesAssumption, ThreadsAssumption
      DEF TypeOK, HolderTypeOK, PcTypeOK, PcZoneAgree, MatchHeldPc, Threads, Sweeping, Zones, NoZone
  <1> QED BY <1>GCWorker, <1>MigrateFileExtents, <1>NextExtent, <1>TakeMigrateZone, <1>MigrateData,
     <1>ReleaseMigrateZone, <1>SyncFileExtents DEF Collect

(* Every step keeps program counters and held zones in agreement.          *)
LEMMA HoldsZoneStep ==
    ASSUME TypeOK, PcZoneAgree, [Next]_vars
    PROVE  PcZoneAgree'
  <1>1. CASE CrashAndMount
    <2>1. \A w \in Writers : pc'[w] \in {"absent", "closed"} /\ zone'[w] = NoZone
      BY <1>1, CrashEffect DEF InitialPc, Threads
    <2>2. \A t \in Sweepers \cup {GC} : pc'[t] = "idle" /\ zone'[t] = NoZone
      <3>1. \A t \in Sweepers \cup {GC} : t \in Threads /\ t \notin Writers
        BY ThreadsAssumption DEF Threads
      <3> QED BY SMT, <1>1, <3>1, CrashEffect DEF InitialPc
    <2> QED BY <2>1, <2>2 DEF PcZoneAgree, MatchHeldPc, Sweeping
  <1>2. CASE UNCHANGED vars
    BY <1>2 DEF vars, PcZoneAgree
  <1> QED
    BY <1>1, <1>2, AllocateHoldsZone, WriteHoldsZone, DeleteHoldsZone, SweeperHoldsZone,
       GCHoldsZone DEF Next, Run, WriterStep, Terminated

-----------------------------------------------------------------------------
(* alloc_mutex_ has one owner, a sleeper is its owner and has no token to  *)
(* take, and GC knows the file it moves.                                   *)

(* A writer inside AllocateIOZone, and not asleep, goes on inside it with  *)
(* alloc_mutex_ or leaves it without.                                      *)
AllocatorMove(w) ==
    /\ pc[w] \in AllocatingPc \ {"waitOpen"}
    /\ \/ \E l \in AllocatingPc : Goto(w, l) /\ alloc_mutex' = alloc_mutex
       \/ \E l \in {"ready", "append"} : Goto(w, l) /\ alloc_mutex' = NoThread
    /\ UNCHANGED left \/ left' = [left EXCEPT ![w] = 0]
    /\ UNCHANGED sleeping \/ NotifyOne
    /\ UNCHANGED moving

(* A writer outside AllocateIOZone leaves alloc_mutex_ alone, and wakes a  *)
(* sleeper whenever it returns an open token.                              *)
FileMoveOutside(w) ==
    /\ pc[w] \notin AllocatingPc
    /\ \E l \in WriterPc \ AllocatingPc : Goto(w, l)
    /\ UNCHANGED left \/ \E n : left' = [left EXCEPT ![w] = n]
    /\ UNCHANGED <<open_io_zones, sleeping>> \/ NotifyOne
    /\ UNCHANGED <<alloc_mutex, moving>>

(* A sweep leaves alloc_mutex_ alone; GC keeps it.                         *)
SweepMove(t) ==
    /\ pc[t] \in SweepPc
    /\ \E l \in SweepPc \cup {IF t = GC THEN "select" ELSE "idle"} : Goto(t, l)
    /\ UNCHANGED sleeping \/ NotifyOne
    /\ UNCHANGED <<open_io_zones, alloc_mutex, left, moving>>

(* The threads are what their names say, and none of them is nobody.       *)
LEMMA ThreadKinds ==
    /\ Writers \subseteq Threads /\ Sweepers \subseteq Threads /\ GC \in Threads
    /\ GC \notin Writers /\ GC \notin Sweepers /\ Writers \cap Sweepers = {}
    /\ NoThread \notin Threads
  BY ThreadsAssumption DEF Threads

(* Goto moves one thread.                                                  *)
LEMMA GotoMoves ==
    ASSUME PcTypeOK, NEW t \in Threads, NEW l, Goto(t, l)
    PROVE  pc'[t] = l /\ \A u \in Threads : u # t => pc'[u] = pc[u]
  BY DEF PcTypeOK, Goto

(* A thread that stays where it is has gone there.                         *)
LEMMA GotoSame ==
    ASSUME PcTypeOK, NEW t \in Threads, UNCHANGED pc
    PROVE  Goto(t, pc[t])
  BY DEF PcTypeOK, Goto

(* The progress of a writer is not GC's.                                   *)
LEMMA LeftOfGC ==
    ASSUME FileTypeOK, NEW w \in Writers, NEW n,
           UNCHANGED left \/ left' = [left EXCEPT ![w] = n]
    PROVE  left'[GC] = left[GC]
  BY ThreadKinds DEF FileTypeOK

(* There is at most one sleeper, so notify_one leaves none.                *)
LEMMA NotifyWakesAll ==
    ASSUME NoLostWakeup, NotifyOne
    PROVE  sleeping' = {}
  BY DEF NoLostWakeup, NotifyOne

(* AllocatorMove keeps alloc_mutex_ with its owner and loses no wake-up.   *)
LEMMA AllocatorGoesOn ==
    ASSUME TypeOK, MutexOwner, MovingFile, NoLostWakeup, NEW w \in Writers, AllocatorMove(w)
    PROVE  MutexOwner' /\ MovingFile' /\ NoLostWakeup'
  <1>1. PICK l : /\ Goto(w, l)
                 /\ \/ l \in AllocatingPc /\ alloc_mutex' = alloc_mutex
                    \/ l \notin AllocatingPc /\ alloc_mutex' = NoThread
    BY DEF AllocatorMove, AllocatingPc
  <1>2. pc'[w] = l /\ \A t \in Threads : t # w => pc'[t] = pc[t]
    BY <1>1, ThreadKinds, GotoMoves DEF TypeOK
  <1>3. left'[GC] = left[GC] /\ UNCHANGED moving
    BY LeftOfGC DEF AllocatorMove, TypeOK
  <1>4. alloc_mutex = w
    BY DEF AllocatorMove, MutexOwner
  <1>5. sleeping = {}
    BY <1>4 DEF AllocatorMove, NoLostWakeup
  <1>6. sleeping' = {}
    BY <1>5, NotifyWakes DEF AllocatorMove
  <1>7. MutexOwner'
    BY <1>1, <1>2, <1>4, ThreadKinds DEF MutexOwner
  <1>8. MovingFile'
    BY <1>2, <1>3, ThreadKinds DEF MovingFile
  <1>9. NoLostWakeup'
    BY <1>6 DEF NoLostWakeup
  <1> QED BY <1>7, <1>8, <1>9

(* So does FileMoveOutside.                                                *)
LEMMA FileGoesOn ==
    ASSUME TypeOK, MutexOwner, MovingFile, NoLostWakeup, NEW w \in Writers, FileMoveOutside(w)
    PROVE  MutexOwner' /\ MovingFile' /\ NoLostWakeup'
  <1>1. PICK l : Goto(w, l) /\ l \notin AllocatingPc
    BY DEF FileMoveOutside
  <1>2. pc'[w] = l /\ \A t \in Threads : t # w => pc'[t] = pc[t]
    BY <1>1, ThreadKinds, GotoMoves DEF TypeOK
  <1>3. left'[GC] = left[GC] /\ UNCHANGED <<moving, alloc_mutex>> /\ pc[w] \notin AllocatingPc
    BY LeftOfGC DEF FileMoveOutside, TypeOK
  <1>4. MutexOwner'
    BY <1>1, <1>2, <1>3, ThreadKinds DEF MutexOwner
  <1>5. MovingFile'
    BY <1>2, <1>3, ThreadKinds DEF MovingFile
  <1>6. NoLostWakeup'
    <2>1. CASE NotifyOne
      BY <2>1, NotifyWakesAll DEF NoLostWakeup
    <2>2. CASE UNCHANGED <<open_io_zones, sleeping>>
      <3>1. \A u \in sleeping : u \in Threads /\ u # w
        BY <1>3, ThreadKinds DEF NoLostWakeup, TypeOK, TokenTypeOK, AllocatingPc
      <3> QED BY <1>2, <1>3, <2>2, <3>1 DEF NoLostWakeup, OpenLimit
    <2> QED BY <2>1, <2>2 DEF FileMoveOutside
  <1> QED BY <1>4, <1>5, <1>6

(* So does SweepMove.                                                      *)
LEMMA SweeperGoesOn ==
    ASSUME TypeOK, MutexOwner, MovingFile, NoLostWakeup, NEW t \in Sweeping, SweepMove(t)
    PROVE  MutexOwner' /\ MovingFile' /\ NoLostWakeup'
  <1>1. PICK l \in SweepPc \cup {IF t = GC THEN "select" ELSE "idle"} : Goto(t, l)
    BY DEF SweepMove
  <1>2. t \in Threads /\ t \notin Writers
    BY ThreadKinds DEF Sweeping
  <1>3. pc'[t] = l /\ \A u \in Threads : u # t => pc'[u] = pc[u]
    BY <1>1, <1>2, GotoMoves DEF TypeOK
  <1>4. UNCHANGED <<open_io_zones, alloc_mutex, left, moving>> /\ pc[t] \in SweepPc
    BY DEF SweepMove
  <1>5. pc'[GC] = pc[GC] \/ (pc[GC] \in SweepPc /\ pc'[GC] \in SweepPc \cup {"select"})
    BY <1>1, <1>3, <1>4, ThreadKinds
  <1>6. \A w \in Writers : pc'[w] = pc[w]
    BY <1>2, <1>3, ThreadKinds
  <1>7. MutexOwner'
    BY <1>4, <1>5, <1>6 DEF MutexOwner, SweepPc
  <1>8. MovingFile'
    BY <1>4, <1>5 DEF MovingFile, SweepPc
  <1>9. NoLostWakeup'
    <2>1. sleeping' \subseteq sleeping /\ sleeping \subseteq Writers
      BY NotifyWakes DEF SweepMove, TypeOK, TokenTypeOK
    <2> QED BY <1>4, <1>6, <2>1 DEF NoLostWakeup, OpenLimit
  <1> QED BY <1>7, <1>8, <1>9

(* GC goes on with alloc_mutex_.                                           *)
LEMMA CollectorGoesOn ==
    ASSUME TypeOK, MutexOwner, NoLostWakeup, pc[GC] # "idle", NEW l, l # "idle", Goto(GC, l),
           UNCHANGED <<open_io_zones, sleeping, alloc_mutex>>
    PROVE  MutexOwner' /\ NoLostWakeup' /\ pc'[GC] = l
  <1>1. pc'[GC] = l /\ \A u \in Threads : u # GC => pc'[u] = pc[u]
    BY ThreadKinds, GotoMoves DEF TypeOK
  <1>2. MutexOwner'
    BY <1>1, ThreadKinds DEF MutexOwner
  <1>3. NoLostWakeup'
    <2>1. sleeping \subseteq Writers
      BY DEF TypeOK, TokenTypeOK
    <2> QED BY <1>1, <2>1, ThreadKinds DEF NoLostWakeup, OpenLimit
  <1> QED BY <1>1, <1>2, <1>3

(* AllocateIOZone locks alloc_mutex_ and sleeps only without a token.      *)
LEMMA LockHoldsMutex ==
    ASSUME TypeOK, MutexOwner, MovingFile, NoLostWakeup, NEW w \in Writers, LockAllocMutex(w)
    PROVE  MutexOwner' /\ MovingFile' /\ NoLostWakeup'
  <1>1. /\ alloc_mutex = NoThread /\ alloc_mutex' = w
        /\ UNCHANGED <<sleeping, left, moving>>
    BY DEF LockAllocMutex, tokenVars
  <1>2. PICK l \in {"waitOpen", "threshold"} : Goto(w, l)
    BY DEF LockAllocMutex
  <1>3. pc'[w] = l /\ \A t \in Threads : t # w => pc'[t] = pc[t]
    BY <1>2, ThreadKinds, GotoMoves DEF TypeOK
  <1>4. MutexOwner'
    BY <1>1, <1>3, ThreadKinds DEF MutexOwner, AllocatingPc
  <1>5. MovingFile'
    BY <1>1, <1>3, ThreadKinds DEF MovingFile
  <1>6. sleeping = {}
    BY <1>1, ThreadKinds DEF NoLostWakeup, TypeOK, TokenTypeOK
  <1> QED BY <1>1, <1>4, <1>5, <1>6 DEF NoLostWakeup

(* The wait for an open token.                                             *)
LEMMA WaitHoldsMutex ==
    ASSUME TypeOK, MutexOwner, MovingFile, NoLostWakeup, NEW w \in Writers,
           WaitForOpenIOZoneToken(w)
    PROVE  MutexOwner' /\ MovingFile' /\ NoLostWakeup'
  <1>1. pc[w] = "waitOpen" /\ w \notin sleeping /\ UNCHANGED <<alloc_mutex, left, moving>>
    BY DEF WaitForOpenIOZoneToken, fileVars
  <1>2. alloc_mutex = w
    BY <1>1 DEF MutexOwner, AllocatingPc
  <1>3. sleeping = {}
    BY <1>1, <1>2 DEF NoLostWakeup
  <1>4. \E l \in {"waitOpen", "match"} : Goto(w, l)
    BY <1>1, GotoSame, ThreadKinds DEF WaitForOpenIOZoneToken, TypeOK
  <1>5. pc'[w] \in {"waitOpen", "match"} /\ \A t \in Threads : t # w => pc'[t] = pc[t]
    BY <1>4, ThreadKinds, GotoMoves DEF TypeOK
  <1>6. MutexOwner'
    BY <1>1, <1>2, <1>5, ThreadKinds DEF MutexOwner, AllocatingPc
  <1>7. MovingFile'
    BY <1>1, <1>5, ThreadKinds DEF MovingFile
  <1>8. NoLostWakeup'
    <2>1. CASE open_io_zones < OpenLimit(w)
      <3>1. sleeping' = {}
        BY <1>3, <2>1 DEF WaitForOpenIOZoneToken
      <3> QED BY <3>1 DEF NoLostWakeup
    <2>2. CASE ~(open_io_zones < OpenLimit(w))
      <3>1. sleeping' = {w} /\ UNCHANGED <<open_io_zones, pc>>
        BY <1>3, <2>2 DEF WaitForOpenIOZoneToken
      <3>2. open_io_zones \in Int /\ OpenLimit(w) \in Int
        BY SMT, SizesAssumption DEF OpenLimit, TypeOK, TokenTypeOK
      <3>3. open_io_zones >= OpenLimit(w)
        BY SMT, <2>2, <3>2
      <3> QED BY <1>1, <1>2, <3>1, <3>3 DEF NoLostWakeup, OpenLimit
    <2> QED BY <2>1, <2>2
  <1> QED BY <1>6, <1>7, <1>8

(* AllocateIOZone runs under alloc_mutex_.                                 *)
LEMMA AllocateHoldsMutex ==
    ASSUME TypeOK, MutexOwner, MovingFile, NoLostWakeup, NEW w \in Writers, AllocateIOZone(w)
    PROVE  MutexOwner' /\ MovingFile' /\ NoLostWakeup'
  <1> SUFFICES ASSUME ~LockAllocMutex(w), ~WaitForOpenIOZoneToken(w)
               PROVE  AllocatorMove(w)
    BY LockHoldsMutex, WaitHoldsMutex, AllocatorGoesOn
  <1> USE DEF AllocatorMove, AllocatingPc
  <1>ThresholdVisit. CASE ThresholdVisit(w)
    <2>1. PcTypeOK /\ w \in Threads
      BY ThreadKinds DEF TypeOK
    <2>2. \E l \in AllocatingPc : Goto(w, l)
      BY <1>ThresholdVisit, <2>1, GotoSame DEF ThresholdVisit
    <2> QED BY <1>ThresholdVisit, <2>2 DEF ThresholdVisit, tokenVars
  <1>ThresholdFinish. CASE ThresholdFinish(w)
    BY <1>ThresholdFinish DEF ThresholdFinish, AllocationFailed, tokenVars
  <1>ThresholdPut. CASE ThresholdPut(w)
    BY <1>ThresholdPut DEF ThresholdPut, PutActiveIOZoneToken, fileVars
  <1>GetBestOpenZoneMatch. CASE GetBestOpenZoneMatch(w)
    BY <1>GetBestOpenZoneMatch DEF GetBestOpenZoneMatch, Allocated, tokenVars, fileVars
  <1>DecideOnMatch. CASE DecideOnMatch(w)
    BY <1>DecideOnMatch DEF DecideOnMatch, Allocated, tokenVars, fileVars
  <1>TryActiveToken. CASE TryActiveToken(w)
    BY <1>TryActiveToken DEF TryActiveToken, Allocated, fileVars
  <1>KeepMatch. CASE KeepMatch(w)
    BY <1>KeepMatch DEF KeepMatch, PutActiveIOZoneToken, Allocated, fileVars
  <1>GetActiveIOZoneToken. CASE GetActiveIOZoneToken(w)
    BY <1>GetActiveIOZoneToken DEF GetActiveIOZoneToken, fileVars
  <1>FinishCheapestIOZone. CASE FinishCheapestIOZone(w)
    BY <1>FinishCheapestIOZone DEF FinishCheapestIOZone, tokenVars, fileVars
  <1>FinishVictim. CASE FinishVictim(w)
    BY <1>FinishVictim DEF FinishVictim, tokenVars, fileVars
  <1>FinishPut. CASE FinishPut(w)
    BY <1>FinishPut DEF FinishPut, PutActiveIOZoneToken, fileVars
  <1>AllocateEmptyZone. CASE AllocateEmptyZone(w)
    BY <1>AllocateEmptyZone DEF AllocateEmptyZone, Allocated, tokenVars, fileVars
  <1>NoZonePutActive. CASE NoZonePutActive(w)
    BY <1>NoZonePutActive DEF NoZonePutActive, PutActiveIOZoneToken, fileVars
  <1>FailPutOpen. CASE FailPutOpen(w)
    BY <1>FailPutOpen DEF FailPutOpen, PutOpenIOZoneToken, AllocationFailed
  <1> HIDE DEF AllocatorMove, AllocatingPc
  <1> QED BY <1>ThresholdVisit, <1>ThresholdFinish, <1>ThresholdPut,
     <1>GetBestOpenZoneMatch, <1>TryActiveToken, <1>DecideOnMatch, <1>KeepMatch,
     <1>GetActiveIOZoneToken, <1>FinishCheapestIOZone, <1>FinishVictim, <1>FinishPut,
     <1>AllocateEmptyZone, <1>NoZonePutActive, <1>FailPutOpen DEF AllocateIOZone

(* Append and CloseWR do not touch alloc_mutex_ nor wake up too few.       *)
LEMMA WriteHoldsMutex ==
    ASSUME TypeOK, MutexOwner, MovingFile, NoLostWakeup, NEW w \in Writers, Write(w)
    PROVE  MutexOwner' /\ MovingFile' /\ NoLostWakeup'
  <1> SUFFICES FileMoveOutside(w)
    BY FileGoesOn
  <1> USE DEF FileMoveOutside, AllocatingPc, WriterPc, HoldingOpenPc
  <1>OpenFile. CASE OpenFile(w)
    BY <1>OpenFile DEF OpenFile, tokenVars, fileVars
  <1>StartAppend. CASE StartAppend(w)
    BY <1>StartAppend DEF StartAppend, tokenVars
  <1>AppendChunk. CASE AppendChunk(w)
    BY <1>AppendChunk DEF AppendChunk, tokenVars
  <1>AppendError. CASE AppendError(w)
    BY <1>AppendError DEF AppendError, tokenVars
  <1>RollFullZone. CASE RollFullZone(w)
    BY <1>RollFullZone DEF RollFullZone, tokenVars, fileVars
  <1>StartClose. CASE StartClose(w)
    BY <1>StartClose DEF StartClose, tokenVars
  <1>CloseActiveZone. CASE CloseActiveZone(w)
    BY <1>CloseActiveZone DEF CloseActiveZone, tokenVars
  <1>ClosePutOpen. CASE ClosePutOpen(w)
    BY <1>ClosePutOpen DEF ClosePutOpen, PutOpenIOZoneToken, AfterClose, fileVars
  <1>ClosePutActive. CASE ClosePutActive(w)
    BY <1>ClosePutActive DEF ClosePutActive, PutActiveIOZoneToken, AfterClose, fileVars
  <1>ReopenFile. CASE ReopenFile(w)
    BY <1>ReopenFile DEF ReopenFile, tokenVars
  <1>ClearExtents. CASE ClearExtents(w)
    BY <1>ClearExtents DEF ClearExtents, tokenVars
  <1> HIDE DEF FileMoveOutside, AllocatingPc, WriterPc, HoldingOpenPc
  <1> QED BY <1>OpenFile, <1>StartAppend, <1>AppendChunk, <1>AppendError,
     <1>RollFullZone, <1>StartClose, <1>CloseActiveZone, <1>ClosePutOpen,
     <1>ClosePutActive, <1>ReopenFile, <1>ClearExtents DEF Write

(* ResetUnusedIOZones leaves alloc_mutex_ to its owner.                    *)
LEMMA SweeperHoldsMutex ==
    ASSUME TypeOK, MutexOwner, MovingFile, NoLostWakeup, NEW t \in Sweeping, ResetUnusedIOZones(t)
    PROVE  MutexOwner' /\ MovingFile' /\ NoLostWakeup'
  <1> SUFFICES SweepMove(t)
    BY SweeperGoesOn
  <1> USE DEF SweepMove, SweepPc
  <1>SweepAcquire. CASE SweepAcquire(t)
    <2>1. PcTypeOK /\ t \in Threads
      BY ThreadKinds DEF TypeOK, Sweeping
    <2>2. pc[t] = "sweep" /\ UNCHANGED <<open_io_zones, sleeping, alloc_mutex, left, moving>>
      BY <1>SweepAcquire DEF SweepAcquire, tokenVars
    <2>3. UNCHANGED pc => Goto(t, "sweep")
      BY <2>1, <2>2, GotoSame
    <2>4. UNCHANGED pc \/ Goto(t, "check") \/ Goto(t, IF t = GC THEN "select" ELSE "idle")
      BY <1>SweepAcquire DEF SweepAcquire, AfterSweep
    <2> QED BY <2>2, <2>3, <2>4
  <1>SweepCheck. CASE SweepCheck(t)
    BY <1>SweepCheck DEF SweepCheck, tokenVars, fileVars
  <1>SweepReset. CASE SweepReset(t)
    BY <1>SweepReset DEF SweepReset, ResetError, tokenVars
  <1>SweepRelease. CASE SweepRelease(t)
    BY <1>SweepRelease DEF SweepRelease, tokenVars, fileVars
  <1>SweepPut. CASE SweepPut(t)
    BY <1>SweepPut DEF SweepPut, PutActiveIOZoneToken, fileVars
  <1> HIDE DEF SweepMove, SweepPc
  <1> QED BY <1>SweepAcquire, <1>SweepCheck, <1>SweepReset, <1>SweepRelease, <1>SweepPut
     DEF ResetUnusedIOZones

(* DeleteFile leaves alloc_mutex_ to its owner.                            *)
LEMMA DeleteHoldsMutex ==
    ASSUME TypeOK, MutexOwner, MovingFile, NoLostWakeup,
           NEW t \in Sweepers, NEW w \in Writers, DeleteFile(t, w)
    PROVE  MutexOwner' /\ MovingFile' /\ NoLostWakeup'
  <1>1. /\ pc[w] = "closed" /\ pc' = [pc EXCEPT ![w] = "deleted", ![t] = "sweep"]
        /\ UNCHANGED <<open_io_zones, sleeping, alloc_mutex, left, moving>>
    BY DEF DeleteFile, tokenVars
  <1>2. pc'[w] = "deleted" /\ \A u \in Threads : u # t /\ u # w => pc'[u] = pc[u]
    BY <1>1, ThreadKinds DEF TypeOK, PcTypeOK
  <1>3. sleeping \subseteq Writers \ {w}
    BY <1>1 DEF NoLostWakeup, TypeOK, TokenTypeOK
  <1>4. MutexOwner'
    BY <1>1, <1>2, ThreadKinds DEF MutexOwner, AllocatingPc
  <1>5. MovingFile'
    BY <1>1, <1>2, ThreadKinds DEF MovingFile
  <1>6. NoLostWakeup'
    BY <1>1, <1>2, <1>3, ThreadKinds DEF NoLostWakeup, OpenLimit
  <1> QED BY <1>4, <1>5, <1>6

(* Garbage collection holds alloc_mutex_ for a whole iteration.            *)
LEMMA GCHoldsMutex ==
    ASSUME TypeOK, MutexOwner, MovingFile, NoLostWakeup, Collect
    PROVE  MutexOwner' /\ MovingFile' /\ NoLostWakeup'
  <1>GCWorker. CASE GCWorker
    <2>1. UNCHANGED <<open_io_zones, sleeping>>
      BY <1>GCWorker DEF GCWorker, tokenVars
    <2>2. \/ alloc_mutex = NoThread /\ alloc_mutex' = GC /\ Goto(GC, "select")
          \/ pc[GC] = "select" /\ alloc_mutex' = NoThread /\ Goto(GC, "idle")
      BY <1>GCWorker DEF GCWorker
    <2>3. pc'[GC] \in {"select", "idle"} /\ \A u \in Threads : u # GC => pc'[u] = pc[u]
      BY <2>2, ThreadKinds, GotoMoves DEF TypeOK
    <2>4. alloc_mutex \notin Writers /\ alloc_mutex' \notin Writers
      BY <2>2, ThreadKinds DEF MutexOwner
    <2>5. alloc_mutex' = GC <=> pc'[GC] # "idle"
      BY <2>2, ThreadKinds, GotoMoves DEF TypeOK
    <2>6. MutexOwner'
      BY <2>3, <2>4, <2>5, ThreadKinds DEF MutexOwner
    <2>7. MovingFile'
      BY <2>3 DEF MovingFile
    <2>8. sleeping = {}
      BY <2>4 DEF NoLostWakeup, TypeOK, TokenTypeOK
    <2> QED BY <2>1, <2>6, <2>7, <2>8 DEF NoLostWakeup
  <1>MigrateFileExtents. CASE MigrateFileExtents
    <2>1. pc[GC] = "select" /\ UNCHANGED <<open_io_zones, sleeping, alloc_mutex, left>>
      BY <1>MigrateFileExtents DEF MigrateFileExtents, tokenVars
    <2>2. \/ Goto(GC, "extent") /\ \E f \in Writers, z \in Zones :
                                     moving' = [file |-> f, src |-> z, to |-> {},
                                                had |-> {y \in Zones : f \in usedBy[y]}]
          \/ Goto(GC, "sweep")
      BY <1>MigrateFileExtents DEF MigrateFileExtents, StartSweep
    <2>3. MutexOwner' /\ NoLostWakeup' /\ pc'[GC] \in {"extent", "sweep"}
      BY <2>1, <2>2, CollectorGoesOn
    <2>4. CASE Goto(GC, "sweep")
      <3>1. pc'[GC] = "sweep"
        BY <2>1, <2>4, CollectorGoesOn
      <3> QED BY <2>3, <3>1 DEF MovingFile
    <2>5. ASSUME NEW f \in Writers, NEW z \in Zones, Goto(GC, "extent"),
                 moving' = [file |-> f, src |-> z, to |-> {},
                            had |-> {y \in Zones : f \in usedBy[y]}]
          PROVE  MovingFile'
      <3>1. pc'[GC] = "extent"
        BY <2>1, <2>5, CollectorGoesOn
      <3>2. moving'.file \in Writers /\ moving'.src \in Zones
        BY <2>5
      <3> QED BY <3>1, <3>2 DEF MovingFile
    <2> QED BY <2>2, <2>3, <2>4, <2>5
  <1>NextExtent. CASE NextExtent
    <2>1. /\ pc[GC] = "extent"
          /\ UNCHANGED <<open_io_zones, sleeping, alloc_mutex, moving>>
      BY <1>NextExtent DEF NextExtent, tokenVars
    <2>2. \/ Goto(GC, "take") /\ \E n \in 1 .. MaxCapacity : left' = [left EXCEPT ![GC] = n]
          \/ Goto(GC, "sync")
      BY SMT, <1>NextExtent, SizesAssumption DEF NextExtent
    <2>3. MutexOwner' /\ NoLostWakeup' /\ pc'[GC] \in {"take", "sync"}
      BY <2>1, <2>2, CollectorGoesOn
    <2>4. pc'[GC] = "take" => left'[GC] \in 1 .. MaxCapacity
      <3>1. CASE Goto(GC, "sync")
        BY SMT, <2>1, <3>1, CollectorGoesOn
      <3>2. CASE \E n \in 1 .. MaxCapacity : left' = [left EXCEPT ![GC] = n]
        BY <3>2, ThreadKinds DEF TypeOK, FileTypeOK
      <3> QED BY <2>2, <3>1, <3>2
    <2> QED BY <2>1, <2>3, <2>4 DEF MovingFile
  <1>TakeMigrateZone. CASE TakeMigrateZone
    <2>1. /\ pc[GC] = "take"
          /\ UNCHANGED <<open_io_zones, sleeping, alloc_mutex, left, moving>>
      BY <1>TakeMigrateZone DEF TakeMigrateZone, fileVars
    <2>2. \E l \in {"migrate", "nullZone", "extent"} : Goto(GC, l)
      BY <1>TakeMigrateZone DEF TakeMigrateZone
    <2>3. MutexOwner' /\ NoLostWakeup' /\ pc'[GC] \in {"migrate", "nullZone", "extent"}
      BY <2>1, <2>2, CollectorGoesOn
    <2> QED BY <2>1, <2>3 DEF MovingFile
  <1>MigrateData. CASE MigrateData
    <2>1. /\ pc[GC] = "migrate" /\ Goto(GC, "releaseMigrate")
          /\ UNCHANGED <<open_io_zones, sleeping, alloc_mutex, left, moving>>
      BY <1>MigrateData DEF MigrateData, tokenVars, fileVars
    <2>2. MutexOwner' /\ NoLostWakeup' /\ pc'[GC] = "releaseMigrate"
      BY <2>1, CollectorGoesOn
    <2> QED BY <2>1, <2>2 DEF MovingFile
  <1>ReleaseMigrateZone. CASE ReleaseMigrateZone
    <2>1. pc[GC] = "releaseMigrate" /\ UNCHANGED <<open_io_zones, sleeping, alloc_mutex>>
      BY <1>ReleaseMigrateZone DEF ReleaseMigrateZone, tokenVars
    <2>2. Goto(GC, "sync") \/ Goto(GC, "extent")
      BY <1>ReleaseMigrateZone DEF ReleaseMigrateZone
    <2>3. UNCHANGED moving \/ moving' = [moving EXCEPT !.to = @ \cup {zone[GC]}]
      BY <1>ReleaseMigrateZone DEF ReleaseMigrateZone
    <2>4. moving'.file = moving.file /\ moving'.src = moving.src
      BY <2>3 DEF TypeOK, FileTypeOK
    <2>5. MutexOwner' /\ NoLostWakeup' /\ pc'[GC] \in {"sync", "extent"}
      BY <2>1, <2>2, CollectorGoesOn
    <2> QED BY <2>1, <2>4, <2>5 DEF MovingFile
  <1>SyncFileExtents. CASE SyncFileExtents
    <2>1. pc[GC] = "sync" /\ Goto(GC, "sweep") /\ UNCHANGED <<open_io_zones, sleeping, alloc_mutex>>
      BY <1>SyncFileExtents DEF SyncFileExtents, StartSweep, tokenVars
    <2>2. MutexOwner' /\ NoLostWakeup' /\ pc'[GC] = "sweep"
      BY <2>1, CollectorGoesOn
    <2> QED BY <2>2 DEF MovingFile
  <1> QED BY <1>GCWorker, <1>MigrateFileExtents, <1>NextExtent, <1>TakeMigrateZone, <1>MigrateData,
     <1>ReleaseMigrateZone, <1>SyncFileExtents DEF Collect

(* Every step keeps alloc_mutex_ with its owner and loses no wake-up.      *)
LEMMA HoldsMutexStep ==
    ASSUME TypeOK, MutexOwner, MovingFile, NoLostWakeup, [Next]_vars
    PROVE  MutexOwner' /\ MovingFile' /\ NoLostWakeup'
  <1>1. CASE CrashAndMount
    <2>1. \A w \in Writers : pc'[w] \in {"absent", "closed"}
      BY <1>1, CrashEffect DEF InitialPc, Threads
    <2>2. pc'[GC] = "idle" /\ sleeping' = {} /\ alloc_mutex' = NoThread
      BY <1>1, CrashEffect, ThreadsAssumption DEF InitialPc, Threads
    <2> QED BY <2>1, <2>2, ThreadsAssumption
            DEF MutexOwner, MovingFile, NoLostWakeup, AllocatingPc, Threads
  <1>2. CASE UNCHANGED vars
    BY <1>2 DEF vars, tokenVars, fileVars, MutexOwner, MovingFile, NoLostWakeup, OpenLimit
  <1> QED
    BY <1>1, <1>2, AllocateHoldsMutex, WriteHoldsMutex, DeleteHoldsMutex, SweeperHoldsMutex,
       GCHoldsMutex DEF Next, Run, WriterStep, Terminated

-----------------------------------------------------------------------------
(* Zone ownership                                                          *)

(* Every step keeps each zone in the hands of at most one thread.          *)
LEMMA ExclusiveStep ==
    ASSUME TypeOK, PcZoneAgree, ZoneExclusive, [Next]_vars
    PROVE  ZoneExclusive'
  <1>1. \A t \in Threads : HolderStep(t) => ZoneExclusive'
    BY HolderStepExclusive DEF TypeOK
  <1>2. CASE CrashAndMount
    <2>1. \A z \in Zones : busy'[z] = FALSE
      BY <1>2, CrashEffect
    <2>2. \A t \in Threads : zone'[t] \notin Zones
      BY SMT, <1>2, CrashEffect, SizesAssumption DEF NoZone, Zones
    <2> QED BY SMT, <2>1, <2>2 DEF ZoneExclusive
  <1>3. CASE UNCHANGED vars
    BY <1>3 DEF vars, zoneVars, ZoneExclusive
  <1> QED
    BY <1>1, <1>2, <1>3, WriterHolderStep, DeleteFrame, SweeperHolderStep, GCHolderStep
       DEF Next, Run, Threads, Sweeping, TypeOK, Terminated, HolderStep

(* A step moves the program counter of the thread that takes it only,      *)
(* except that DeleteFile also marks the file as deleted.                  *)
LEMMA OwnPc ==
    ASSUME TypeOK, NEW t \in Threads
    PROVE  /\ \A w \in Writers : WriterStep(w) /\ t # w => pc'[t] = pc[t]
           /\ \A u \in Sweeping : ResetUnusedIOZones(u) /\ t # u => pc'[t] = pc[t]
           /\ \A u \in Sweepers, w \in Writers :
                DeleteFile(u, w) /\ t # u /\ t # w => pc'[t] = pc[t]
           /\ Collect /\ t # GC => pc'[t] = pc[t]
  <1> USE DEF TypeOK, PcTypeOK, Goto
  <1>1. ASSUME NEW w \in Writers, AllocateIOZone(w), t # w PROVE pc'[t] = pc[t]
    BY <1>1 DEF AllocateIOZone, Allocated, AllocationFailed, LockAllocMutex, ThresholdVisit,
       ThresholdFinish, ThresholdPut, WaitForOpenIOZoneToken, GetBestOpenZoneMatch,
       TryActiveToken, DecideOnMatch,
       KeepMatch, GetActiveIOZoneToken, FinishCheapestIOZone, FinishVictim, FinishPut,
       AllocateEmptyZone, NoZonePutActive, FailPutOpen
  <1>2. ASSUME NEW w \in Writers, Write(w), t # w PROVE pc'[t] = pc[t]
    BY <1>2 DEF Write, AfterClose, OpenFile, StartAppend, AppendChunk, AppendError,
       RollFullZone, StartClose, CloseActiveZone, ClosePutOpen, ClosePutActive,
       ReopenFile, ClearExtents
  <1>3. ASSUME NEW u \in Sweeping, ResetUnusedIOZones(u), t # u PROVE pc'[t] = pc[t]
    BY <1>3 DEF ResetUnusedIOZones, SweepAcquire, AfterSweep, SweepCheck, SweepReset,
       ResetError, SweepRelease, SweepPut
  <1>4. ASSUME Collect, t # GC PROVE pc'[t] = pc[t]
    BY <1>4 DEF Collect, GCWorker, MigrateFileExtents, StartSweep, NextExtent,
       TakeMigrateZone, MigrateData, ReleaseMigrateZone, SyncFileExtents
  <1>5. ASSUME NEW u \in Sweepers, NEW w \in Writers, DeleteFile(u, w), t # u, t # w
        PROVE  pc'[t] = pc[t]
    BY <1>5 DEF DeleteFile
  <1> QED BY <1>1, <1>2, <1>3, <1>4, <1>5 DEF WriterStep

(* A step writes at most the zone in the hands of the thread that takes it. *)
LEMMA ZonesWritten ==
    ASSUME TypeOK, NEW y \in Zones
    PROVE  /\ \A w \in Writers : WriterStep(w) /\ y # zone[w] =>
                wp'[y] = wp[y] /\ capacity'[y] = capacity[y]
           /\ \A t \in Sweeping : ResetUnusedIOZones(t) /\ y # zone[t] =>
                wp'[y] = wp[y] /\ capacity'[y] = capacity[y]
           /\ Collect /\ y # zone[GC] => wp'[y] = wp[y] /\ capacity'[y] = capacity[y]
  <1> USE DEF TypeOK, ZoneTypeOK, Advance
  <1>1. \A w \in Writers : WriterStep(w) /\ y # zone[w] =>
          wp'[y] = wp[y] /\ capacity'[y] = capacity[y]
    <2> SUFFICES ASSUME NEW w \in Writers, WriterStep(w), y # zone[w]
                 PROVE  wp'[y] = wp[y] /\ capacity'[y] = capacity[y]
      OBVIOUS
    <2>1. CASE ThresholdFinish(w) \/ FinishVictim(w)
      BY <2>1 DEF ThresholdFinish, FinishVictim, FinishZone
    <2>2. CASE AppendChunk(w) \/ AppendError(w)
      BY <2>2 DEF AppendChunk, AppendError
    <2> QED BY <2>1, <2>2, WriterFrame
  <1>2. \A t \in Sweeping : ResetUnusedIOZones(t) /\ y # zone[t] =>
          wp'[y] = wp[y] /\ capacity'[y] = capacity[y]
    <2> SUFFICES ASSUME NEW t \in Sweeping, ResetUnusedIOZones(t), y # zone[t]
                 PROVE  wp'[y] = wp[y] /\ capacity'[y] = capacity[y]
      OBVIOUS
    <2>1. CASE SweepReset(t)
      BY <2>1 DEF SweepReset, ResetError, ResetZone
    <2> QED BY <2>1, SweeperFrame
  <1>3. Collect /\ y # zone[GC] => wp'[y] = wp[y] /\ capacity'[y] = capacity[y]
    BY GCFrame DEF MigrateData
  <1> QED BY <1>1, <1>2, <1>3

(* While a thread holds a zone, others neither write to it nor give it     *)
(* extents.                                                                *)
Untouched(z) ==
    /\ wp'[z] = wp[z]
    /\ capacity'[z] = capacity[z]
    /\ usedBy'[z] \subseteq usedBy[z]

(* Nobody else touches a zone that a thread holds.                         *)
LEMMA OthersZone ==
    ASSUME TypeOK, PcZoneAgree, ZoneExclusive, NEW t \in Threads, zone[t] \in Zones
    PROVE  /\ \A w \in Writers : WriterStep(w) /\ t # w => zone'[t] = zone[t] /\ Untouched(zone[t])
           /\ \A u \in Sweeping :
                ResetUnusedIOZones(u) /\ t # u => zone'[t] = zone[t] /\ Untouched(zone[t])
           /\ Collect /\ t # GC => zone'[t] = zone[t] /\ Untouched(zone[t])
  <1>1. \A u \in Threads : t # u => zone[u] # zone[t]
    BY DEF ZoneExclusive
  <1>2. \A u \in Threads : HolderStep(u) /\ t # u => zone'[t] = zone[t]
    BY DEF HolderStep, Acquire, Release, TypeOK, HolderTypeOK
  <1>3. ASSUME NEW w \in Writers, WriterStep(w), t # w PROVE Untouched(zone[t])
    <2>1. zone[w] # zone[t]
      BY <1>1, <1>3 DEF Threads
    <2>2. wp'[zone[t]] = wp[zone[t]] /\ capacity'[zone[t]] = capacity[zone[t]]
      BY <1>3, <2>1, ZonesWritten
    <2>3. usedBy'[zone[t]] \subseteq usedBy[zone[t]]
      <3>1. CASE AppendChunk(w)
        BY <3>1, <2>1 DEF AppendChunk, TypeOK
      <3>2. CASE ClearExtents(w)
        BY <3>2 DEF ClearExtents
      <3> QED BY <3>1, <3>2, <1>3, WriterFrame
    <2> QED BY <2>2, <2>3 DEF Untouched
  <1>4. ASSUME NEW u \in Sweeping, ResetUnusedIOZones(u), t # u PROVE Untouched(zone[t])
    <2>1. zone[u] # zone[t]
      BY <1>1, <1>4 DEF Threads, Sweeping
    <2> QED BY <1>4, <2>1, SweeperFrame, ZonesWritten DEF Untouched
  <1>5. ASSUME Collect, t # GC PROVE Untouched(zone[t])
    <2>1. zone[GC] # zone[t]
      BY <1>1, <1>5 DEF Threads
    <2>2. wp'[zone[t]] = wp[zone[t]] /\ capacity'[zone[t]] = capacity[zone[t]]
      BY <1>5, <2>1, ZonesWritten
    <2>3. usedBy'[zone[t]] \subseteq usedBy[zone[t]]
      BY <1>5, <2>1, GCFrame DEF ReleaseMigrateZone, SyncFileExtents, TypeOK
    <2> QED BY <2>2, <2>3 DEF Untouched
  <1>6. HolderTypeOK
    BY DEF TypeOK
  <1> QED
    BY <1>2, <1>3, <1>4, <1>5, <1>6, WriterHolderStep, SweeperHolderStep, GCHolderStep
       DEF Threads, Sweeping

(* The check of a sweep still holds when it resets the zone.               *)
LEMMA ResetStep ==
    ASSUME IndInv, [Next]_vars, (TypeOK /\ PcZoneAgree /\ ZoneExclusive)'
    PROVE  ResetOnlyUnused'
  <1> SUFFICES ASSUME NEW t \in Sweeping, pc'[t] \in {"reset", "resetFull"}
               PROVE  /\ busy'[zone'[t]]
                      /\ Unused(zone[t])'
                      /\ pc'[t] = "resetFull" <=> IsFull(zone[t])'
    BY DEF ResetOnlyUnused
  <1> t \in Threads /\ t \notin Writers
    BY ThreadsAssumption DEF Threads, Sweeping
  <1>1. busy'[zone'[t]]
    <2>1. zone'[t] \in Zones
      BY DEF TypeOK, HolderTypeOK, PcZoneAgree
    <2> QED BY <2>1 DEF ZoneExclusive
  <1>2. ASSUME pc'[t] = pc[t], zone[t] \in Zones => zone'[t] = zone[t] /\ Untouched(zone[t])
        PROVE  Unused(zone[t])' /\ (pc'[t] = "resetFull" <=> IsFull(zone[t])')
    <2>1. zone[t] \in Zones
      BY <1>2, HeldZone DEF IndInv, TypeOK
    <2>2. Unused(zone[t]) /\ (pc[t] = "resetFull" <=> IsFull(zone[t]))
      BY <1>2 DEF IndInv, ResetOnlyUnused
    <2> QED BY <1>2, <2>1, <2>2 DEF Untouched, Unused, IsEmpty, IsUsed, IsFull
  <1>3. ASSUME NEW w \in Writers, WriterStep(w)
        PROVE  Unused(zone[t])' /\ (pc'[t] = "resetFull" <=> IsFull(zone[t])')
    BY <1>2, <1>3, OwnPc, OthersZone, ThreadsAssumption DEF IndInv
  <1>4. ASSUME NEW u \in Sweeping, ResetUnusedIOZones(u), t # u
        PROVE  Unused(zone[t])' /\ (pc'[t] = "resetFull" <=> IsFull(zone[t])')
    BY <1>2, <1>4, OwnPc, OthersZone DEF IndInv
  <1>5. CASE Collect
    <2>1. CASE t # GC
      BY <1>1, <1>2, <1>5, <2>1, OwnPc, OthersZone DEF IndInv
    <2>2. CASE t = GC
      BY <1>5, <2>2 DEF Collect, GCWorker, MigrateFileExtents, StartSweep, NextExtent,
         TakeMigrateZone, MigrateData, ReleaseMigrateZone, SyncFileExtents, Goto, IndInv,
         TypeOK, PcTypeOK
    <2> QED BY <1>1, <2>1, <2>2
  <1>10. ASSUME NEW u \in Sweepers, NEW w \in Writers, DeleteFile(u, w)
         PROVE  Unused(zone[t])' /\ (pc'[t] = "resetFull" <=> IsFull(zone[t])')
    <2>1. t # u
      BY <1>10 DEF DeleteFile, IndInv, TypeOK, PcTypeOK
    <2>2. pc'[t] = pc[t] /\ zone'[t] = zone[t] /\ Untouched(zone[t])
      BY <1>10, <2>1, OwnPc, DeleteFrame DEF IndInv, Untouched
    <2> QED BY <1>2, <2>2
  <1>6. CASE SweepCheck(t)
    <2>1. pc'[t] = IF ~Unused(zone[t]) THEN "release"
                   ELSE IF IsFull(zone[t]) THEN "resetFull" ELSE "reset"
      BY <1>6 DEF SweepCheck, Goto, IndInv, TypeOK, PcTypeOK
    <2>2. UNCHANGED <<wp, capacity, usedBy, zone>>
      BY <1>6 DEF SweepCheck, zoneVars
    <2> QED BY <1>1, <2>1, <2>2 DEF Unused, IsEmpty, IsUsed, IsFull
  <1>7. ~(SweepAcquire(t) \/ SweepReset(t) \/ SweepRelease(t) \/ SweepPut(t))
    BY DEF SweepAcquire, AfterSweep, SweepReset, ResetError, SweepRelease, SweepPut, Goto,
       IndInv, TypeOK, PcTypeOK
  <1>8. ~CrashAndMount
    BY CrashEffect, ThreadsAssumption DEF InitialPc
  <1>9. CASE UNCHANGED vars
    BY <1>1, <1>2, <1>9 DEF vars, zoneVars, Untouched
  <1> QED
    BY <1>1, <1>3, <1>4, <1>5, <1>6, <1>7, <1>8, <1>9, <1>10
       DEF Next, Run, ResetUnusedIOZones, Terminated

-----------------------------------------------------------------------------
(* The inductive invariant and the theorems                                *)

(* The inductive invariant holds initially.                                *)
LEMMA IndInvInit == Init => IndInv
  <1> SUFFICES ASSUME Init PROVE IndInv
    OBVIOUS
  <1>1. /\ \A w \in Writers : pc[w] = "absent" /\ zone[w] = NoZone
        /\ \A t \in Sweepers \cup {GC} : pc[t] = "idle" /\ zone[t] = NoZone
    BY ThreadsAssumption DEF Init, InitialPc, Threads
  <1>2. TypeOK
    <2>1. ZoneTypeOK /\ usedBy \in [Zones -> SUBSET Writers] /\ HolderTypeOK /\ TokenTypeOK
      BY SMT, SizesAssumption DEF Init, NoZone, ZoneTypeOK, HolderTypeOK, TokenTypeOK
    <2>2. FileTypeOK
      <3>1. /\ left = [t \in Threads |-> 0] /\ closing = [t \in Threads |-> FALSE]
            /\ scan = [t \in Threads |-> 1] /\ moving = NoMove /\ crashes = 0
        BY DEF Init
      <3>2. NoMove \in [file : Writers \cup {NoFile}, src : Zones \cup {NoZone},
                        to : SUBSET Zones, had : SUBSET Zones]
        BY DEF NoMove
      <3>3. 0 \in 0 .. MaxCrashes
        BY SMT, SizesAssumption
      <3> QED BY <3>1, <3>2, <3>3, FileRanges DEF FileTypeOK
    <2>3. PcTypeOK
      <3>1. \A t \in Threads : pc[t] \in {"absent", "idle"}
        BY <1>1 DEF Threads
      <3>2. pc = [t \in Threads |-> pc[t]]
        BY DEF Init, InitialPc
      <3> QED BY <1>1, <3>1, <3>2 DEF PcTypeOK, WriterPc, SweeperPc, GCPc
    <2> QED BY <2>1, <2>2, <2>3 DEF TypeOK
  <1>3. PcZoneAgree /\ ResetOnlyUnused
    BY <1>1 DEF PcZoneAgree, MatchHeldPc, Sweeping, ResetOnlyUnused
  <1>4. MutexOwner /\ MovingFile /\ NoLostWakeup
    BY <1>1, ThreadsAssumption
       DEF Init, MutexOwner, AllocatingPc, MovingFile, NoLostWakeup, Threads
  <1>5. ZoneExclusive
    BY SMT, <1>1, SizesAssumption DEF Init, ZoneExclusive, Threads, Zones, NoZone
  <1> QED BY <1>2, <1>3, <1>4, <1>5 DEF IndInv

(* Every step preserves the inductive invariant.                           *)
LEMMA IndInvStep == IndInv /\ [Next]_vars => IndInv'
  <1> SUFFICES ASSUME IndInv, [Next]_vars PROVE IndInv'
    OBVIOUS
  <1>1. TypeOK'
    BY TypeStep DEF IndInv
  <1>2. PcZoneAgree'
    BY HoldsZoneStep DEF IndInv
  <1>3. MutexOwner' /\ MovingFile' /\ NoLostWakeup'
    BY HoldsMutexStep DEF IndInv
  <1>4. ZoneExclusive'
    BY ExclusiveStep DEF IndInv
  <1>5. ResetOnlyUnused'
    BY <1>1, <1>2, <1>4, ResetStep
  <1> QED BY <1>1, <1>2, <1>3, <1>4, <1>5 DEF IndInv

(* The inductive invariant holds in every reachable state.                 *)
THEOREM Inductive == Spec => []IndInv
  BY IndInvInit, IndInvStep, PTL DEF Spec

(* Every variable keeps its type: write pointers and capacities stay in    *)
(* range whatever interleaving of appends, finishes, resets, migrations    *)
(* and crashes happens.                                                    *)
THEOREM TypeCorrect == Spec => []TypeOK
  BY Inductive, PTL DEF IndInv

(* A busy zone has exactly one holder among writers, sweepers and GC.      *)
THEOREM Exclusive == Spec => []ZoneExclusive
  BY Inductive, PTL DEF IndInv

(* ResetUnusedIOZones resets only zones that nobody uses, although it      *)
(* checks and resets in separate steps and shares no mutex with writers.   *)
THEOREM OnlyUnusedReset == Spec => []ResetOnlyUnused
  BY Inductive, PTL DEF IndInv

(* A writer never sleeps in WaitForOpenIOZoneToken while an open token it  *)
(* may take is free.                                                       *)
THEOREM WakeupsNotLost == Spec => []NoLostWakeup
  BY Inductive, PTL DEF IndInv

(* The numbers an append works with: a chunk fits into the writer's zone.  *)
LEMMA ChunkFits ==
    ASSUME ZoneTypeOK, FileTypeOK, NEW w \in Threads, zone[w] \in Zones
    PROVE  /\ capacity[zone[w]] \in Nat /\ wp[zone[w]] \in Nat
           /\ ChunkSize(w) \in Nat /\ ChunkSize(w) <= capacity[zone[w]]
  <1>1. /\ capacity[zone[w]] \in 0 .. MaxCapacity /\ wp[zone[w]] \in 0 .. MaxCapacity
        /\ left[w] \in 0 .. MaxAppend
    BY DEF ZoneTypeOK, FileTypeOK
  <1>2. /\ capacity[zone[w]] \in Nat /\ wp[zone[w]] \in Nat /\ left[w] \in Nat
    BY SMT, <1>1, SizesAssumption
  <1> QED BY SMT, <1>2 DEF ChunkSize

(* Taking less than all of some room leaves some.                          *)
LEMMA RoomLeft ==
    ASSUME NEW c \in Nat, NEW n \in Nat, n <= c, n # c
    PROVE  c - n # 0
  BY SMT

(* A write pointer is no smaller than itself.                              *)
LEMMA NotSmaller == \A n \in Nat : n >= n
  BY SMT

(* No step moves the write pointer of a zone with live extents back.       *)
LEMMA LiveDataStep ==
    ASSUME IndInv, [Next]_vars, NEW z \in Zones, usedBy[z] \cap usedBy'[z] # {}
    PROVE  wp'[z] >= wp[z]
  <1>1. TypeOK /\ ZoneTypeOK /\ HolderTypeOK /\ FileTypeOK /\ PcZoneAgree /\ wp[z] \in Nat
    BY SMT, SizesAssumption DEF IndInv, TypeOK, ZoneTypeOK
  <1>0. wp'[z] = wp[z] => wp'[z] >= wp[z]
    <2>1. wp[z] \in Nat
      BY <1>1
    <2>2. wp[z] >= wp[z]
      BY <2>1, NotSmaller
    <2> QED BY <2>2
  <1>2. CASE UNCHANGED wp
    BY <1>0, <1>2
  <1>3. ASSUME NEW n \in Nat, NEW t \in Threads, Advance(zone[t], n) PROVE wp'[z] >= wp[z]
    <2>1. wp' = [wp EXCEPT ![zone[t]] = @ + n] /\ wp \in [Zones -> 0 .. MaxCapacity]
      BY <1>1, <1>3 DEF Advance, ZoneTypeOK
    <2>2. wp'[z] = wp[z] \/ wp'[z] = wp[z] + n
      BY <2>1
    <2>3. wp[z] \in Nat
      BY <1>1
    <2> QED BY SMT, <2>2, <2>3
  <1>4. ASSUME NEW w \in Writers, WriterStep(w) PROVE wp'[z] >= wp[z]
    <2>1. CASE ThresholdFinish(w) \/ FinishVictim(w)
      <3>1. UNCHANGED wp \/ FinishZone(zone[w])
        BY <2>1 DEF ThresholdFinish, FinishVictim
      <3>2. CASE FinishZone(zone[w])
        <4>1. wp' = [wp EXCEPT ![zone[w]] = MaxCapacity]
          BY <3>2 DEF FinishZone
        <4>2. wp \in [Zones -> 0 .. MaxCapacity]
          BY <1>1 DEF ZoneTypeOK
        <4> QED BY SMT, <4>1, <4>2, SizesAssumption
      <3> QED BY <1>2, <3>1, <3>2
    <2>2. CASE AppendChunk(w) \/ AppendError(w)
      <3>1. zone[w] \in Zones
        BY <1>1, <2>2, HeldZone DEF AppendChunk, AppendError
      <3>2. ChunkSize(w) \in Nat /\ \A n \in 0 .. MaxAppend : n \in Nat
        BY SMT, <1>1, <3>1, ChunkType, SizesAssumption
      <3>3. Advance(zone[w], ChunkSize(w)) \/ \E n \in 0 .. MaxAppend : Advance(zone[w], n)
        BY <2>2 DEF AppendChunk, AppendError
      <3>4. \E n \in Nat : Advance(zone[w], n)
        BY <3>2, <3>3
      <3> QED BY <1>3, <3>4 DEF Threads
    <2> QED BY <1>2, <1>4, <2>1, <2>2, WriterFrame
  <1>5. ASSUME NEW t \in Sweeping, ResetUnusedIOZones(t) PROVE wp'[z] >= wp[z]
    <2>1. CASE SweepReset(t)
      <3>1. z # zone[t]
        BY <1>5, <2>1 DEF SweepReset, IndInv, ResetOnlyUnused, Unused, IsUsed
      <3>2. UNCHANGED wp \/ wp' = [wp EXCEPT ![zone[t]] = 0]
        BY <2>1 DEF SweepReset, ResetError, ResetZone
      <3>3. wp'[z] = wp[z]
        BY <1>1, <3>1, <3>2 DEF ZoneTypeOK
      <3> QED BY <1>0, <3>3
    <2> QED BY <1>2, <1>5, <2>1, SweeperFrame
  <1>6. CASE Collect
    <2>1. CASE MigrateData
      <3>1. left[GC] \in Nat /\ GC \in Threads
        BY SMT, <1>1, SizesAssumption DEF FileTypeOK, Threads
      <3>2. PICK n \in 0 .. left[GC] : Advance(zone[GC], n)
        BY <2>1 DEF MigrateData
      <3>3. n \in Nat
        BY SMT, <3>1
      <3> QED BY <1>3, <3>1, <3>2, <3>3
    <2> QED BY <1>2, <1>6, <2>1, GCFrame
  <1>7. CASE CrashAndMount
    <2>1. wp' = [y \in Zones |-> IF usedBy'[y] = {} THEN 0 ELSE wp[y]]
      BY <1>7, CrashEffect
    <2>2. usedBy'[z] # {}
      OBVIOUS
    <2> QED BY SMT, <1>1, <2>1, <2>2
  <1> QED BY <1>2, <1>4, <1>5, <1>6, <1>7, DeleteFrame DEF Next, Run, Terminated, vars, zoneVars

(* No step takes the write pointer of a zone back while a file has extents *)
(* there: neither a sweep nor a mount after a crash resets live data.      *)
THEOREM LiveDataNeverReset == Spec => LiveDataKept
  <1>1. IndInv /\ [Next]_vars =>
          [\A z \in Zones : usedBy[z] \cap usedBy'[z] # {} => wp'[z] >= wp[z]]_vars
    BY LiveDataStep
  <1> QED BY <1>1, Inductive, PTL DEF Spec, LiveDataKept

-----------------------------------------------------------------------------
(* Tokens.  A counter is compared with a set of charges.  Each step adds   *)
(* at most one charge, and does so only if it counts the counter up or     *)
(* drops another charge; it counts down only if it drops one.              *)

(* Charges that only go away do not exceed the counter.                    *)
LEMMA ChargeSubset ==
    ASSUME NEW X, IsFiniteSet(X), NEW Y, Y \subseteq X
    PROVE  IsFiniteSet(Y) /\ Cardinality(Y) \in Nat /\ Cardinality(Y) <= Cardinality(X)
  BY FS_Subset, FS_CardinalityType

(* One more charge costs at most one token.                                *)
LEMMA ChargeAdd ==
    ASSUME NEW X, IsFiniteSet(X), NEW x, NEW Y, Y \subseteq X \cup {x}
    PROVE  Cardinality(Y) <= Cardinality(X) + 1
  <1>1. /\ IsFiniteSet(X \cup {x})
        /\ Cardinality(X \cup {x}) = Cardinality(X) \/ Cardinality(X \cup {x}) = Cardinality(X) + 1
    BY FS_AddElement
  <1>2. Cardinality(Y) \in Nat /\ Cardinality(Y) <= Cardinality(X \cup {x})
    BY <1>1, ChargeSubset
  <1>3. Cardinality(X) \in Nat
    BY FS_CardinalityType
  <1> QED BY SMT, <1>1, <1>2, <1>3

(* A charge that goes away frees a token.                                  *)
LEMMA ChargeDrop ==
    ASSUME NEW X, IsFiniteSet(X), NEW x \in X, NEW Y, Y \subseteq X \ {x}
    PROVE  Cardinality(Y) <= Cardinality(X) - 1
  <1>1. IsFiniteSet(X \ {x}) /\ Cardinality(X \ {x}) = Cardinality(X) - 1
    BY FS_RemoveElement
  <1>2. Cardinality(Y) <= Cardinality(X \ {x})
    BY <1>1, ChargeSubset
  <1> QED BY <1>1, <1>2

(* A charge that replaces another costs nothing.                           *)
LEMMA ChargeSwap ==
    ASSUME NEW X, IsFiniteSet(X), NEW x \in X, NEW y, NEW Y, Y \subseteq (X \ {x}) \cup {y}
    PROVE  Cardinality(Y) <= Cardinality(X)
  <1>1. IsFiniteSet(X \ {x}) /\ Cardinality(X \ {x}) = Cardinality(X) - 1
    BY FS_RemoveElement
  <1>2. Cardinality(Y) <= Cardinality(X \ {x}) + 1
    BY <1>1, ChargeAdd
  <1>3. Cardinality(X) \in Nat
    BY FS_CardinalityType
  <1> QED BY SMT, <1>1, <1>2, <1>3

-----------------------------------------------------------------------------
(* Open tokens                                                             *)

(* A writer takes and returns an open token together with its charge.      *)
LEMMA WriterOpenToken ==
    ASSUME TypeOK, PcZoneAgree, NEW w \in Writers, WriterStep(w)
    PROVE  \/ (HoldsOpenToken(w)' => HoldsOpenToken(w)) /\ open_io_zones' = open_io_zones
           \/ /\ HoldsOpenToken(w) /\ ~HoldsOpenToken(w)'
              /\ open_io_zones' = open_io_zones - 1
           \/ open_io_zones < OpenLimit(w) /\ open_io_zones' = open_io_zones + 1
  <1> USE DEF TypeOK, PcTypeOK, HolderTypeOK, PcZoneAgree, HoldsOpenToken, HoldingOpenPc,
          Goto, Threads

  <1>1. CASE LockAllocMutex(w) \/ ThresholdVisit(w) \/ ThresholdFinish(w) \/
     ThresholdPut(w)
    BY SMT, <1>1 DEF LockAllocMutex, tokenVars, ThresholdVisit, Acquire, ThresholdFinish,
       Release, AllocationFailed, ThresholdPut, PutActiveIOZoneToken
  <1>2. CASE WaitForOpenIOZoneToken(w)
    BY <1>2 DEF WaitForOpenIOZoneToken
  <1>3. CASE GetBestOpenZoneMatch(w)
    BY <1>3 DEF GetBestOpenZoneMatch, Acquire, Allocated, tokenVars
  <1>4. CASE TryActiveToken(w) \/ DecideOnMatch(w) \/ KeepMatch(w)
    BY <1>4 DEF TryActiveToken, DecideOnMatch, MatchHeldPc, tokenVars, zoneVars, Allocated,
       Release, KeepMatch, PutActiveIOZoneToken
  <1>5. CASE GetActiveIOZoneToken(w) \/ FinishCheapestIOZone(w) \/ FinishVictim(w) \/
     FinishPut(w)
    BY <1>5 DEF GetActiveIOZoneToken, FinishCheapestIOZone, Acquire, tokenVars,
       FinishVictim, Release, FinishPut, PutActiveIOZoneToken
  <1>6. CASE AllocateEmptyZone(w) \/ NoZonePutActive(w)
    BY <1>6 DEF AllocateEmptyZone, Acquire, Allocated, tokenVars, NoZonePutActive,
       PutActiveIOZoneToken
  <1>7. CASE FailPutOpen(w) \/ ClosePutOpen(w)
    BY SMT, <1>7 DEF MatchHeldPc, FailPutOpen, PutOpenIOZoneToken, AllocationFailed, ClosePutOpen,
       AfterClose
  <1>8. CASE OpenFile(w) \/ StartAppend(w) \/ AppendError(w)
    BY <1>8 DEF MatchHeldPc, OpenFile, tokenVars, StartAppend, AppendError
  <1>9. CASE AppendChunk(w)
    BY <1>9 DEF AppendChunk, tokenVars
  <1>10. CASE RollFullZone(w) \/ StartClose(w) \/ CloseActiveZone(w)
    BY <1>10 DEF RollFullZone, tokenVars, StartClose, CloseActiveZone, Release
  <1>11. CASE ClosePutActive(w) \/ ReopenFile(w) \/ ClearExtents(w)
    BY <1>11 DEF MatchHeldPc, ClosePutActive, PutActiveIOZoneToken, AfterClose, ReopenFile,
       tokenVars, ClearExtents
  <1> HIDE DEF TypeOK, PcTypeOK, HolderTypeOK, PcZoneAgree, HoldsOpenToken, HoldingOpenPc,
          Goto, Threads
  <1> QED BY <1>1, <1>2, <1>3, <1>4, <1>5, <1>6, <1>7, <1>8, <1>9, <1>10, <1>11 DEF
     WriterStep, AllocateIOZone, Write

(* Every step keeps the open tokens within their limits.                   *)
LEMMA OpenLimitStep ==
    ASSUME IndInv, OpenZonesWithinLimit, [Next]_vars
    PROVE  OpenZonesWithinLimit'
  <1>1. IsFiniteSet(OpenHolders) /\ IsFiniteSet(OpenHolders \ WALWriters)
    BY FS_Subset, ThreadsAssumption DEF OpenHolders
  <1>2. open_io_zones \in Int /\ Cardinality(OpenHolders) \in Nat
    BY <1>1, FS_CardinalityType DEF IndInv, TypeOK, TokenTypeOK
  <1>3. ASSUME OpenHolders' \subseteq OpenHolders,
               \/ open_io_zones' = open_io_zones
               \/ \E w \in OpenHolders : w \notin OpenHolders' /\ open_io_zones' = open_io_zones - 1
        PROVE  OpenZonesWithinLimit'
    <2>1. Cardinality(OpenHolders') <= open_io_zones' /\ open_io_zones' <= MaxOpen
      <3>1. CASE open_io_zones' = open_io_zones
        BY SMT, <1>1, <1>2, <1>3, <3>1, ChargeSubset, SizesAssumption DEF OpenZonesWithinLimit
      <3>2. ASSUME NEW w \in OpenHolders, w \notin OpenHolders', open_io_zones' = open_io_zones - 1
            PROVE  Cardinality(OpenHolders') <= open_io_zones' /\ open_io_zones' <= MaxOpen
        <4>1. Cardinality(OpenHolders') <= Cardinality(OpenHolders) - 1
          BY <1>1, <1>3, <3>2, ChargeDrop
        <4>2. Cardinality(OpenHolders') \in Nat
          BY <1>1, <1>3, ChargeSubset
        <4> QED BY SMT, <1>2, <3>2, <4>1, <4>2, SizesAssumption DEF OpenZonesWithinLimit
      <3> QED BY <1>3, <3>1, <3>2
    <2>2. /\ OpenHolders' \ WALWriters \subseteq OpenHolders \ WALWriters
          /\ Cardinality(OpenHolders' \ WALWriters) \in Nat
          /\ Cardinality(OpenHolders' \ WALWriters) <= Cardinality(OpenHolders \ WALWriters)
      BY <1>1, <1>3, ChargeSubset
    <2>3. Cardinality(OpenHolders \ WALWriters) \in Nat
      BY <1>1, FS_CardinalityType
    <2> QED BY SMT, <2>1, <2>2, <2>3, SizesAssumption DEF OpenZonesWithinLimit
  <1>4. ASSUME NEW w \in Writers, OpenHolders' \subseteq OpenHolders \cup {w},
               open_io_zones < OpenLimit(w), open_io_zones' = open_io_zones + 1
        PROVE  OpenZonesWithinLimit'
    <2>1. IsFiniteSet(OpenHolders') /\ Cardinality(OpenHolders') \in Nat
      BY <1>1, <1>4, FS_AddElement, ChargeSubset
    <2>2. Cardinality(OpenHolders') <= open_io_zones'
      <3>1. Cardinality(OpenHolders') <= Cardinality(OpenHolders) + 1
        BY <1>1, <1>4, ChargeAdd
      <3> QED BY SMT, <1>2, <1>4, <2>1, <3>1 DEF OpenZonesWithinLimit
    <2>3. open_io_zones' <= MaxOpen
      BY SMT, <1>2, <1>4, SizesAssumption DEF OpenLimit
    <2>4. CASE w \in WALWriters
      <3>1. /\ OpenHolders' \ WALWriters \subseteq OpenHolders \ WALWriters
            /\ Cardinality(OpenHolders' \ WALWriters) \in Nat
            /\ Cardinality(OpenHolders' \ WALWriters) <= Cardinality(OpenHolders \ WALWriters)
        BY <1>1, <1>4, <2>4, ChargeSubset
      <3>2. Cardinality(OpenHolders \ WALWriters) \in Nat
        BY <1>1, FS_CardinalityType
      <3> QED BY SMT, <2>2, <2>3, <3>1, <3>2, SizesAssumption DEF OpenZonesWithinLimit
    <2>5. CASE w \notin WALWriters
      <3>1. /\ Cardinality(OpenHolders' \ WALWriters) \in Nat
            /\ Cardinality(OpenHolders' \ WALWriters) <= Cardinality(OpenHolders')
        BY <2>1, ChargeSubset
      <3>2. open_io_zones' <= MaxOpen - 1
        BY SMT, <1>2, <1>4, <2>5, SizesAssumption DEF OpenLimit
      <3> QED BY SMT, <1>2, <1>4, <2>1, <2>2, <2>3, <3>1, <3>2, SizesAssumption
              DEF OpenZonesWithinLimit
    <2> QED BY <2>4, <2>5
  <1>5. ASSUME NEW w \in Writers, WriterStep(w) PROVE OpenZonesWithinLimit'
    <2>1. \A v \in Writers : v # w => pc'[v] = pc[v] /\ zone'[v] = zone[v]
      <3>1. HolderStep(w)
        BY <1>5, WriterHolderStep DEF IndInv, TypeOK
      <3>2. \A v \in Writers : v # w => zone'[v] = zone[v]
        BY <3>1 DEF HolderStep, Acquire, Release, IndInv, TypeOK, HolderTypeOK, Threads
      <3> QED BY <1>5, <3>2, OwnPc DEF IndInv, Threads
    <2>2. \A v \in Writers : v # w => (v \in OpenHolders' <=> v \in OpenHolders)
      BY <2>1 DEF OpenHolders, HoldsOpenToken
    <2>3. /\ w \in OpenHolders' <=> HoldsOpenToken(w)'
          /\ w \in OpenHolders <=> HoldsOpenToken(w)
          /\ OpenHolders \subseteq Writers /\ OpenHolders' \subseteq Writers
      BY DEF OpenHolders
    <2>4. \/ (HoldsOpenToken(w)' => HoldsOpenToken(w)) /\ open_io_zones' = open_io_zones
          \/ /\ HoldsOpenToken(w) /\ ~HoldsOpenToken(w)'
             /\ open_io_zones' = open_io_zones - 1
          \/ open_io_zones < OpenLimit(w) /\ open_io_zones' = open_io_zones + 1
      BY <1>5, WriterOpenToken DEF IndInv
    <2> QED BY <1>3, <1>4, <2>2, <2>3, <2>4
  <1>6. ASSUME UNCHANGED open_io_zones, \A v \in Writers : pc'[v] = pc[v] /\ zone'[v] = zone[v]
        PROVE  OpenZonesWithinLimit'
    BY <1>3, <1>6 DEF OpenHolders, HoldsOpenToken
  <1>7. ASSUME NEW t \in Sweeping, ResetUnusedIOZones(t) PROVE OpenZonesWithinLimit'
    <2>1. \A v \in Writers : pc'[v] = pc[v]
      BY <1>7, OwnPc, ThreadsAssumption DEF IndInv, Threads, Sweeping
    <2>2. \A v \in Writers : zone'[v] = zone[v]
      BY SMT, <1>7, SweeperHolderStep, ThreadsAssumption
         DEF HolderStep, Acquire, Release, IndInv, TypeOK, HolderTypeOK, Threads, Sweeping
    <2>3. UNCHANGED open_io_zones
      BY <1>7 DEF ResetUnusedIOZones, SweepAcquire, SweepCheck, SweepReset, SweepRelease,
         SweepPut, PutActiveIOZoneToken, tokenVars
    <2> QED BY <1>6, <2>1, <2>2, <2>3
  <1>8. CASE Collect
    <2>1. \A v \in Writers : pc'[v] = pc[v]
      BY <1>8, OwnPc, ThreadsAssumption DEF IndInv, Threads
    <2>2. \A v \in Writers : zone'[v] = zone[v]
      BY <1>8, GCHolderStep, ThreadsAssumption
         DEF HolderStep, Acquire, Release, IndInv, TypeOK, HolderTypeOK, Threads
    <2>3. UNCHANGED open_io_zones
      BY <1>8 DEF Collect, GCWorker, MigrateFileExtents, NextExtent, TakeMigrateZone, MigrateData,
         ReleaseMigrateZone, SyncFileExtents, tokenVars
    <2> QED BY <1>6, <2>1, <2>2, <2>3
  <1>9. CASE CrashAndMount
    <2>1. \A w \in Writers : pc'[w] \in {"absent", "closed"}
      BY <1>9, CrashEffect DEF InitialPc, Threads
    <2>2. OpenHolders' = {} /\ OpenHolders' \ WALWriters = {}
      BY <2>1 DEF OpenHolders, HoldsOpenToken, HoldingOpenPc
    <2>3. open_io_zones' = 0
      BY <1>9, CrashEffect
    <2> QED BY SMT, <2>2, <2>3, FS_EmptySet, SizesAssumption DEF OpenZonesWithinLimit
  <1>10. CASE UNCHANGED vars
    BY <1>6, <1>10 DEF vars, tokenVars
  <1>11. ASSUME NEW t \in Sweepers, NEW w \in Writers, DeleteFile(t, w)
         PROVE  OpenZonesWithinLimit'
    <2>1. /\ pc'[w] = "deleted" /\ UNCHANGED <<zone, open_io_zones>>
          /\ \A v \in Writers : v # w => pc'[v] = pc[v]
      BY <1>11, ThreadsAssumption
         DEF DeleteFile, tokenVars, IndInv, TypeOK, PcTypeOK, Threads
    <2>2. OpenHolders' \subseteq OpenHolders
      BY <2>1 DEF OpenHolders, HoldsOpenToken, HoldingOpenPc
    <2> QED BY <1>3, <2>1, <2>2
  <1> QED BY <1>5, <1>7, <1>8, <1>9, <1>10, <1>11 DEF Next, Run, Terminated

(* Every zone a writer has or is about to get is covered by one of at most *)
(* max_nr_open_io_zones_ tokens of WaitForOpenIOZoneToken, and all writers *)
(* but those of write-ahead logs leave one token to spare.                 *)
THEOREM OpenLimitKept == Spec => []OpenZonesWithinLimit
  <1>1. Init => OpenZonesWithinLimit
    <2> SUFFICES ASSUME Init PROVE OpenZonesWithinLimit
      OBVIOUS
    <2>1. OpenHolders = {} /\ OpenHolders \ WALWriters = {}
      BY DEF Init, InitialPc, Threads, OpenHolders, HoldsOpenToken, HoldingOpenPc
    <2> QED BY SMT, <2>1, FS_EmptySet, SizesAssumption DEF Init, OpenZonesWithinLimit
  <1>2. IndInv /\ OpenZonesWithinLimit /\ [Next]_vars => OpenZonesWithinLimit'
    BY OpenLimitStep
  <1> QED BY <1>1, <1>2, Inductive, PTL DEF Spec

-----------------------------------------------------------------------------
(* Room to write.  A zone that a writer got as a match has room, and keeps *)
(* it until the writer itself has filled it; one that it got as an empty   *)
(* zone may have gone offline.                                             *)

Appending(w) ==
    \/ pc[w] \in MatchHeldPc \cup {"notGood"}
    \/ pc[w] \in {"ready", "append"} /\ w \notin DirectWriters

RoomInv ==
    \A w \in Writers :
        Appending(w) /\ zone[w] # NoZone => (IsFull(zone[w]) => IsEmpty(zone[w]))

(* A step of a writer leaves room in its own zone.                         *)
LEMMA OwnRoomStep ==
    ASSUME IndInv, RoomInv, NEW w \in Writers, WriterStep(w),
           Appending(w)', zone'[w] # NoZone
    PROVE  (IsFull(zone[w]) => IsEmpty(zone[w]))'
  <1>1. /\ PcZoneAgree /\ ZoneTypeOK /\ HolderTypeOK /\ PcTypeOK /\ FileTypeOK
        /\ w \in Threads
    BY DEF IndInv, TypeOK, Threads
  <1>2. ASSUME NEW z \in Zones, Acquire(w, z), ~IsFull(z) \/ IsEmpty(z), UNCHANGED <<wp, capacity>>
        PROVE  (IsFull(zone[w]) => IsEmpty(zone[w]))'
    BY <1>1, <1>2 DEF Acquire, HolderTypeOK, IsEmpty, IsFull
  <1>3. ASSUME Appending(w), zone'[w] = zone[w], UNCHANGED <<wp, capacity>>
        PROVE  (IsFull(zone[w]) => IsEmpty(zone[w]))'
    BY <1>3 DEF RoomInv, IsEmpty, IsFull
  <1>4. CASE ThresholdVisit(w)
    <2>1. UNCHANGED <<wp, capacity>>
      BY <1>4 DEF ThresholdVisit
    <2>2. zone[w] = NoZone
      BY <1>1, <1>4 DEF ThresholdVisit, PcZoneAgree, MatchHeldPc
    <2>3. \E z \in Zones : Acquire(w, z) /\ ~IsFull(z)
      BY <1>4, <2>2 DEF ThresholdVisit, WithinFinishThreshold, Active
    <2> QED BY <1>2, <2>1, <2>3
  <1>5. CASE GetBestOpenZoneMatch(w)
    <2>1. UNCHANGED <<wp, capacity>>
      BY <1>5 DEF GetBestOpenZoneMatch
    <2>2. zone[w] = NoZone
      BY <1>1, <1>5 DEF GetBestOpenZoneMatch, PcZoneAgree, MatchHeldPc
    <2>3. \A min : \A z \in OpenZoneMatches(min) : z \in Zones /\ ~IsFull(z)
      BY DEF OpenZoneMatches
    <2>4. \E min : \E z \in OpenZoneMatches(min) : Acquire(w, z)
      BY <1>5, <2>2 DEF GetBestOpenZoneMatch, Seen
    <2> QED BY <1>2, <2>1, <2>3, <2>4
  <1>6. CASE TryActiveToken(w) \/ DecideOnMatch(w) \/ KeepMatch(w)
    <2>1. UNCHANGED <<wp, capacity>>
      BY <1>6 DEF TryActiveToken, DecideOnMatch, KeepMatch, zoneVars
    <2>2. zone'[w] = zone[w]
      BY <1>1, <1>6 DEF TryActiveToken, DecideOnMatch, KeepMatch, Release, HolderTypeOK
    <2>3. Appending(w)
      BY <1>6 DEF TryActiveToken, DecideOnMatch, KeepMatch, Appending, MatchHeldPc
    <2> QED BY <1>3, <2>1, <2>2, <2>3
  <1>7. CASE FinishCheapestIOZone(w)
    <2>1. UNCHANGED <<wp, capacity>>
      BY <1>7 DEF FinishCheapestIOZone
    <2>2. zone[w] = NoZone
      BY <1>1, <1>7 DEF FinishCheapestIOZone, PcZoneAgree, MatchHeldPc
    <2>3. \E z \in Zones : Acquire(w, z) /\ ~IsFull(z)
      BY <1>7, <2>2 DEF FinishCheapestIOZone, FinishCandidates, Seen, Active
    <2> QED BY <1>2, <2>1, <2>3
  <1>8. CASE AllocateEmptyZone(w)
    <2>1. UNCHANGED <<wp, capacity>>
      BY <1>8 DEF AllocateEmptyZone
    <2>2. zone[w] = NoZone
      BY <1>1, <1>8 DEF AllocateEmptyZone, PcZoneAgree, MatchHeldPc
    <2>3. \E z \in Zones : Acquire(w, z) /\ IsEmpty(z)
      BY <1>8, <2>2 DEF AllocateEmptyZone, AcquirableEmptyZones, Seen
    <2> QED BY <1>2, <2>1, <2>3
  <1>9. CASE StartAppend(w)
    <2>1. UNCHANGED <<wp, capacity>> /\ zone'[w] = zone[w]
      BY <1>9 DEF StartAppend, zoneVars
    <2>2. Appending(w)
      BY <1>1, <1>9 DEF StartAppend, Appending, Goto, PcTypeOK, MatchHeldPc
    <2> QED BY <1>3, <2>1, <2>2
  <1>10. CASE AppendChunk(w)
    <2> DEFINE z == zone[w]  n == ChunkSize(w)
    <2>1. pc[w] = "append" /\ z \in Zones /\ zone'[w] = z
      BY <1>1, <1>10 DEF AppendChunk, PcZoneAgree, HolderTypeOK
    <2>2. w \notin DirectWriters /\ n # capacity[z]
      BY <1>1, <1>10, <2>1 DEF AppendChunk, Appending, Goto, PcTypeOK, MatchHeldPc
    <2>3. capacity[z] \in Nat /\ n \in Nat /\ n <= capacity[z]
      BY <1>1, <2>1, ChunkFits
    <2>4. capacity'[z] = capacity[z] - n
      BY <1>1, <1>10, <2>1 DEF AppendChunk, Advance, ZoneTypeOK
    <2> HIDE DEF n
    <2>5. capacity[z] - n # 0
      BY <2>2, <2>3, RoomLeft
    <2>6. capacity'[zone'[w]] # 0
      BY <2>1, <2>4, <2>5
    <2> QED BY <2>6 DEF IsFull
  <1>11. CASE AppendError(w)
    <2> DEFINE z == zone[w]
    <2>1. pc[w] = "append" /\ z \in Zones /\ zone'[w] = z /\ Appending(w)
      BY <1>1, <1>11 DEF AppendError, PcZoneAgree, HolderTypeOK, Appending, Goto, PcTypeOK, MatchHeldPc
    <2>2. /\ capacity[z] \in Nat /\ wp[z] \in Nat
          /\ ChunkSize(w) \in Nat /\ ChunkSize(w) <= capacity[z]
      BY <1>1, <2>1, ChunkFits
    <2>3. PICK n \in 0 .. MaxAppend : (n < ChunkSize(w) \/ n = 0) /\ Advance(z, n)
      BY <1>11 DEF AppendError
    <2>4. capacity'[z] = capacity[z] - n /\ wp'[z] = wp[z] + n
      BY <1>1, <2>1, <2>3 DEF Advance, ZoneTypeOK
    <2>5. IsFull(z) => IsEmpty(z)
      BY <2>1, SizesAssumption DEF RoomInv, Zones, NoZone
    <2>6. CASE n = 0
      <3>1. capacity'[zone'[w]] = capacity[z] /\ wp'[zone'[w]] = wp[z]
        BY SMT, <2>1, <2>2, <2>4, <2>6
      <3> QED BY <2>5, <3>1 DEF IsFull, IsEmpty
    <2>7. CASE n < ChunkSize(w)
      <3>1. n \in Nat /\ n <= capacity[z] /\ n # capacity[z]
        BY SMT, <2>2, <2>7
      <3>2. capacity[z] - n # 0
        BY <2>2, <3>1, RoomLeft
      <3>3. capacity'[zone'[w]] # 0
        BY <2>1, <2>4, <3>2
      <3> QED BY <3>3 DEF IsFull
    <2> QED BY <2>3, <2>6, <2>7
  <1>12. \/ ThresholdVisit(w) \/ GetBestOpenZoneMatch(w) \/ TryActiveToken(w)
         \/ DecideOnMatch(w) \/ KeepMatch(w) \/ FinishCheapestIOZone(w) \/ AllocateEmptyZone(w)
         \/ StartAppend(w) \/ AppendChunk(w) \/ AppendError(w)
    <2>1. CASE AllocateIOZone(w)
      BY <1>1, <2>1 DEF AllocateIOZone, PcTypeOK, PcZoneAgree, MatchHeldPc, Goto, Appending,
         HolderTypeOK, Release, AllocationFailed, LockAllocMutex, ThresholdFinish,
         ThresholdPut, WaitForOpenIOZoneToken, GetActiveIOZoneToken,
         FinishVictim, FinishPut, NoZonePutActive, FailPutOpen
    <2>2. CASE Write(w)
      BY <1>1, <2>2 DEF Write, PcTypeOK, PcZoneAgree, MatchHeldPc, Goto, Appending,
         HolderTypeOK, Release, AfterClose, OpenFile, RollFullZone, StartClose,
         CloseActiveZone, ClosePutOpen, ClosePutActive, ReopenFile, ClearExtents
    <2> QED BY <2>1, <2>2 DEF WriterStep
  <1> QED BY <1>4, <1>5, <1>6, <1>7, <1>8, <1>9, <1>10, <1>11, <1>12

(* Every step preserves RoomInv: other threads do not touch the zone a     *)
(* writer holds.                                                           *)
LEMMA RoomStep == IndInv /\ RoomInv /\ [Next]_vars => RoomInv'
  <1> SUFFICES ASSUME IndInv, RoomInv, [Next]_vars, NEW w \in Writers,
                      Appending(w)', zone'[w] # NoZone
               PROVE  (IsFull(zone[w]) => IsEmpty(zone[w]))'
    BY DEF RoomInv
  <1>1. /\ TypeOK /\ PcZoneAgree /\ HolderTypeOK /\ PcTypeOK /\ ZoneExclusive
        /\ w \in Threads
    BY DEF IndInv, TypeOK, Threads
  <1>2. ASSUME pc'[w] = pc[w], zone'[w] = zone[w], Untouched(zone[w])
        PROVE  (IsFull(zone[w]) => IsEmpty(zone[w]))'
    <2>1. Appending(w)
      BY <1>2 DEF Appending
    <2> QED BY <1>2, <2>1 DEF RoomInv, Untouched, IsEmpty, IsFull
  <1>3. ASSUME NEW u \in Threads, u # w, HolderStep(u) PROVE zone'[w] = zone[w] /\ zone[w] \in Zones
    BY <1>1, <1>3 DEF HolderStep, Acquire, Release, HolderTypeOK
  <1>4. ASSUME NEW v \in Writers, WriterStep(v), v # w
        PROVE  (IsFull(zone[w]) => IsEmpty(zone[w]))'
    <2>1. v \in Threads /\ HolderStep(v)
      BY <1>1, <1>4, WriterHolderStep DEF Threads
    <2> QED BY <1>1, <1>2, <1>3, <1>4, <2>1, OwnPc, OthersZone
  <1>5. ASSUME NEW t \in Sweeping, ResetUnusedIOZones(t)
        PROVE  (IsFull(zone[w]) => IsEmpty(zone[w]))'
    <2>1. t \in Threads /\ t # w /\ HolderStep(t)
      BY <1>1, <1>5, SweeperHolderStep, ThreadsAssumption DEF Threads, Sweeping
    <2> QED BY <1>1, <1>2, <1>3, <1>5, <2>1, OwnPc, OthersZone
  <1>6. CASE Collect
    <2>1. GC \in Threads /\ GC # w /\ HolderStep(GC)
      BY <1>1, <1>6, GCHolderStep, ThreadsAssumption DEF Threads
    <2> QED BY <1>1, <1>2, <1>3, <1>6, <2>1, OwnPc, OthersZone
  <1>7. ASSUME NEW t \in Sweepers, NEW v \in Writers, DeleteFile(t, v)
        PROVE  (IsFull(zone[w]) => IsEmpty(zone[w]))'
    <2>1. v # w
      BY <1>1, <1>7, ThreadsAssumption DEF DeleteFile, PcTypeOK, Appending, MatchHeldPc, Threads
    <2>2. pc'[w] = pc[w] /\ zone'[w] = zone[w] /\ Untouched(zone[w])
      BY <1>1, <1>7, <2>1, OwnPc, DeleteFrame, ThreadsAssumption DEF Untouched
    <2> QED BY <1>2, <2>2
  <1>8. ~CrashAndMount
    BY <1>1, CrashEffect
  <1>9. CASE UNCHANGED vars
    BY <1>2, <1>9 DEF vars, zoneVars, Untouched
  <1> QED BY <1>4, <1>5, <1>6, <1>7, <1>8, <1>9, OwnRoomStep DEF Next, Run, Terminated

(* A buffered append always finds room in the zone it was given, whatever  *)
(* fails, unless it is an empty zone that went offline: every turn of the  *)
(* append loop writes something.                                           *)
THEOREM RoomToAppend == Spec => []AppendHasRoom
  <1>1. Init => RoomInv
    BY DEF Init, RoomInv, Threads
  <1>2. IndInv /\ RoomInv /\ [Next]_vars => RoomInv'
    BY RoomStep
  <1>3. IndInv /\ RoomInv => AppendHasRoom
    BY DEF IndInv, PcZoneAgree, RoomInv, AppendHasRoom, Appending
  <1> QED BY <1>1, <1>2, <1>3, Inductive, PTL DEF Spec

=============================================================================

--------------------------- MODULE ZoneAllocator ---------------------------
(***************************************************************************)
(* How the threads of ZenFS share the IO zones of a zoned device: the busy *)
(* flag of each zone, the tokens that bound the open and the active zones, *)
(* and alloc_mutex_, which serialises placement decisions.                 *)
(*                                                                         *)
(* A writer is one ZoneFile open for writing.  It appends data, asks       *)
(* AllocateIOZone for a zone when it has none, rolls to another zone when  *)
(* one fills up, and closes.  A sweeper is a thread that deletes files and *)
(* then resets the zones nobody uses any more.  GC is the garbage-         *)
(* collection thread, which moves extents of closed files and sweeps too.  *)
(* A crash ends all of them; Open then rebuilds the counters from the zone *)
(* report of the device.                                                   *)
(*                                                                         *)
(* Data is abstracted to block counts.  usedBy[z] is the set of files with *)
(* extents in z: used_capacity_ > 0 exactly when it is not empty.  The     *)
(* placement policies are abstracted to what they have in common: a match  *)
(* is some open zone in use with room left, and its score is free.         *)
(***************************************************************************)
EXTENDS Integers, FiniteSets

CONSTANTS
    NrZones,        \* io_zones.size()
    MaxCapacity,    \* max_capacity_ of a zone, in blocks
    Writers,        \* files that get written
    WALWriters,     \* the writers of write-ahead logs: io_type_ = kWAL
    DirectWriters,  \* the writers that bypass the write buffer: !buffered
    Sweepers,       \* threads that delete files and sweep
    GC,             \* the garbage-collection thread
    EnableGC,       \* enable_gc of the superblock: whether Mount starts it
    MaxOpen,        \* max_nr_open_io_zones_
    MaxActive,      \* max_nr_active_io_zones_
    Reserve,        \* reserve_zone_count
    FinishThreshold,\* finish_threshold_, a percentage; 0 switches it off
    MaxAppend,      \* bound: blocks of one Append call or one extent
    MaxCrashes,     \* bound: crashes in one behaviour
    ScansMiss,      \* whether scans meet zones that are busy for a moment
    Faults          \* device commands that may fail

Zones == 1 .. NrZones
Threads == Writers \cup Sweepers \cup {GC}
Sweeping == Sweepers \cup {GC}
NoZone == 0
NoThread == "none"
NoFile == "nofile"

ASSUME SizesAssumption ==
    /\ NrZones \in Nat
    /\ MaxCapacity \in Nat \ {0}
    /\ MaxOpen \in Nat
    /\ MaxActive \in Nat
    /\ Reserve \in Nat
    /\ FinishThreshold \in 0 .. 100
    /\ MaxAppend \in Nat
    /\ MaxCrashes \in Nat

ASSUME ThreadsAssumption ==
    /\ IsFiniteSet(Writers) /\ IsFiniteSet(Sweepers)
    /\ WALWriters \subseteq Writers
    /\ DirectWriters \subseteq Writers
    /\ Writers \cap Sweepers = {}
    /\ GC \notin Writers \cup Sweepers
    /\ EnableGC \in BOOLEAN
    /\ ScansMiss \in BOOLEAN
    /\ NoThread \notin Threads
    /\ NoFile \notin Writers
    /\ (Zones \cup {NoZone}) \cap Threads = {}
    /\ Faults \subseteq {"reset", "offline", "finish", "close", "append", "migrate"}
    /\ "offline" \in Faults => MaxCrashes = 0  \* Open leaves offline zones out

VARIABLES
    wp,                 \* wp[z]: blocks between start_ and wp_
    capacity,           \* capacity[z]: capacity_, blocks left
    usedBy,             \* usedBy[z]: the files with extents in z
    busy,               \* busy[z]: busy_
    active_io_zones,
    open_io_zones,
    sleeping,           \* threads asleep on zone_resources_
    alloc_mutex,        \* owner of alloc_mutex_
    pc,                 \* where each thread is
    zone,               \* zone[t]: the zone whose busy flag t has set
    left,               \* left[w]: blocks the current Append still has to write
    closing,            \* closing[w]: inside CloseWR
    scan,               \* scan[t]: loop position in io_zones
    moving,             \* what GC migrates
    crashes

zoneVars == <<wp, capacity, usedBy, busy>>
tokenVars == <<active_io_zones, open_io_zones, sleeping>>
fileVars == <<left, closing, scan>>
vars == <<zoneVars, tokenVars, alloc_mutex, pc, zone, fileVars, moving, crashes>>

-----------------------------------------------------------------------------
(* Zone predicates and the token counters                                  *)

IsEmpty(z) == wp[z] = 0
IsFull(z) == capacity[z] = 0
IsUsed(z) == usedBy[z] # {}

(* An empty zone and a full one need no active resource of the device.     *)
Active(z) == ~IsEmpty(z) /\ ~IsFull(z)

GetEmptyZoneCount == Cardinality({z \in Zones : IsEmpty(z)})

(* MUTANT: a token is put back and nobody is told.                         *)
NotifyNobody == UNCHANGED sleeping

(* zone_resources_.notify_one()                                            *)
NotifyOne ==
    IF sleeping = {} THEN sleeping' = {}
                     ELSE \E t \in sleeping : sleeping' = sleeping \ {t}

PutOpenIOZoneToken ==
    /\ open_io_zones' = open_io_zones - 1
    /\ NotifyOne
    /\ UNCHANGED active_io_zones

PutActiveIOZoneToken ==
    /\ active_io_zones' = active_io_zones - 1
    /\ NotifyOne
    /\ UNCHANGED open_io_zones

(* MUTANT: one token too many.                                             *)
ActiveTokenOffByOne == active_io_zones <= MaxActive

ActiveTokenAvailable == active_io_zones < MaxActive

(* A loop over io_zones acquires the zones one by one and misses those in  *)
(* other hands when it gets to them, even if they are free when it ends.   *)
Seen(zs) == {seen \in SUBSET zs : ScansMiss \/ seen = zs}

Goto(t, l) == pc' = [pc EXCEPT ![t] = l]
Acquire(t, z) ==
    /\ busy' = [busy EXCEPT ![z] = TRUE]
    /\ zone' = [zone EXCEPT ![t] = z]
Release(t) ==
    /\ busy' = [busy EXCEPT ![zone[t]] = FALSE]
    /\ zone' = [zone EXCEPT ![t] = NoZone]

(* Zone::Finish of a zone z                                                *)
FinishZone(z) ==
    /\ capacity' = [capacity EXCEPT ![z] = 0]
    /\ wp' = [wp EXCEPT ![z] = MaxCapacity]

-----------------------------------------------------------------------------
(* AllocateIOZone, by a writer.  The whole operation runs under            *)
(* alloc_mutex_; a step that ends it also unlocks.                         *)

(* The allocation succeeded: SetActiveZone, then back into the Append loop, *)
(* which ends when nothing is left to write.                               *)
Allocated(w) ==
    /\ Goto(w, IF left[w] = 0 THEN "ready" ELSE "append")
    /\ alloc_mutex' = NoThread

(* The allocation failed and Append returns the error to its caller.       *)
AllocationFailed(w) ==
    /\ Goto(w, "ready")
    /\ left' = [left EXCEPT ![w] = 0]
    /\ alloc_mutex' = NoThread

(* Lock alloc_mutex_.  Only allocations that are not for a write-ahead log *)
(* apply the finish threshold.                                             *)
LockAllocMutex(w) ==
    /\ pc[w] = "lock"
    /\ alloc_mutex = NoThread
    /\ alloc_mutex' = w
    /\ scan' = [scan EXCEPT ![w] = 1]
    /\ Goto(w, IF w \in WALWriters \/ FinishThreshold = 0 THEN "waitOpen" ELSE "threshold")
    /\ UNCHANGED <<zoneVars, tokenVars, zone, left, closing, moving, crashes>>

(* ApplyFinishThreshold: one iteration of its loop over io_zones.          *)
WithinFinishThreshold(z) ==
    Active(z) /\ capacity[z] < (MaxCapacity * FinishThreshold) \div 100

ThresholdVisit(w) ==
    /\ pc[w] = "threshold"
    /\ IF scan[w] \notin Zones
         THEN Goto(w, "waitOpen") /\ scan' = [scan EXCEPT ![w] = 1] /\ UNCHANGED <<busy, zone>>
         ELSE /\ scan' = [scan EXCEPT ![w] = @ + 1]
              /\ IF ~busy[scan[w]] /\ WithinFinishThreshold(scan[w])
                   THEN Acquire(w, scan[w]) /\ Goto(w, "thresholdFinish")
                   ELSE UNCHANGED <<busy, zone, pc>>
    /\ UNCHANGED <<wp, capacity, usedBy, tokenVars, alloc_mutex, left, closing, moving, crashes>>

ThresholdFinish(w) ==
    /\ pc[w] = "thresholdFinish"
    /\ Release(w)
    /\ \/ FinishZone(zone[w]) /\ Goto(w, "thresholdPut") /\ UNCHANGED <<alloc_mutex, left>>
       \/ "finish" \in Faults /\ AllocationFailed(w) /\ UNCHANGED <<wp, capacity>>
    /\ UNCHANGED <<usedBy, tokenVars, closing, scan, moving, crashes>>

ThresholdPut(w) ==
    /\ pc[w] = "thresholdPut"
    /\ PutActiveIOZoneToken
    /\ Goto(w, "threshold")
    /\ UNCHANGED <<zoneVars, alloc_mutex, zone, fileVars, moving, crashes>>

(* MUTANT: prioritized and other allocators get the same limit.            *)
OpenLimitForAll(w) == MaxOpen

(* WaitForOpenIOZoneToken: one evaluation of the predicate of the wait.    *)
OpenLimit(w) == IF w \in WALWriters THEN MaxOpen ELSE MaxOpen - 1

WaitForOpenIOZoneToken(w) ==
    /\ pc[w] = "waitOpen"
    /\ w \notin sleeping
    /\ IF open_io_zones < OpenLimit(w)
         THEN open_io_zones' = open_io_zones + 1 /\ Goto(w, "match") /\ UNCHANGED sleeping
         ELSE sleeping' = sleeping \cup {w} /\ UNCHANGED <<open_io_zones, pc>>
    /\ UNCHANGED <<zoneVars, active_io_zones, alloc_mutex, zone, fileVars, moving, crashes>>

(* MUTANT: full zones match when the minimum capacity is 0.                *)
OpenOrFullZoneMatches(min) ==
    {z \in Zones : ~busy[z] /\ IsUsed(z) /\ capacity[z] >= min}

(* GetBestOpenZoneMatch.  Every policy accepts only acquirable open zones  *)
(* in use with room for min_capacity, and the last resort, the lifetime    *)
(* match, accepts any of them.  min_capacity is what is left to write, or  *)
(* 0 when fragmentation is enabled or the file has no level or keys.  A    *)
(* score below LIFETIME_DIFF_COULD_BE_WORSE settles for the match.         *)
OpenZoneMatches(min) ==
    {z \in Zones : ~busy[z] /\ IsUsed(z) /\ ~IsFull(z) /\ capacity[z] >= min}

GetBestOpenZoneMatch(w) ==
    /\ pc[w] = "match"
    /\ \E min \in {0, left[w]} : \E seen \in Seen(OpenZoneMatches(min)) :
         \/ \E z \in seen :
              /\ Acquire(w, z)
              /\ \/ Allocated(w)
                 \/ Goto(w, "couldBeWorse") /\ UNCHANGED alloc_mutex
                 \/ Goto(w, "notGood") /\ UNCHANGED alloc_mutex
         \/ /\ seen = {}
            /\ Goto(w, "notGood")
            /\ UNCHANGED <<busy, zone, alloc_mutex>>
    /\ UNCHANGED <<wp, capacity, usedBy, tokenVars, fileVars, moving, crashes>>

(* The match is not good enough, or there is none: got_token =             *)
(* GetActiveIOZoneTokenIfAvailable().  Without a token, a match that       *)
(* "could be worse" is kept.                                               *)
TryActiveToken(w) ==
    /\ pc[w] \in {"couldBeWorse", "notGood"}
    /\ \/ /\ ActiveTokenAvailable
          /\ active_io_zones' = active_io_zones + 1
          /\ Goto(w, IF zone[w] = NoZone THEN "allocEmpty" ELSE "haveToken")
          /\ UNCHANGED alloc_mutex
       \/ /\ ~ActiveTokenAvailable
          /\ IF pc[w] = "couldBeWorse" THEN Allocated(w)
             ELSE /\ Goto(w, IF zone[w] = NoZone THEN "getActive" ELSE "noToken")
                  /\ UNCHANGED alloc_mutex
          /\ UNCHANGED active_io_zones
    /\ UNCHANGED <<zoneVars, open_io_zones, sleeping, zone, fileVars, moving, crashes>>

(* Drop the match in favour of an empty zone, if there are more of them    *)
(* than the reserve.                                                       *)
DecideOnMatch(w) ==
    /\ pc[w] \in {"haveToken", "noToken"}
    /\ IF GetEmptyZoneCount > Reserve
         THEN /\ Release(w)
              /\ Goto(w, IF pc[w] = "haveToken" THEN "allocEmpty" ELSE "getActive")
              /\ UNCHANGED alloc_mutex
         ELSE /\ IF pc[w] = "haveToken" THEN Goto(w, "keepMatch") /\ UNCHANGED alloc_mutex
                                        ELSE Allocated(w)
              /\ UNCHANGED <<busy, zone>>
    /\ UNCHANGED <<wp, capacity, usedBy, tokenVars, fileVars, moving, crashes>>

KeepMatch(w) ==
    /\ pc[w] = "keepMatch"
    /\ PutActiveIOZoneToken
    /\ Allocated(w)
    /\ UNCHANGED <<zoneVars, zone, fileVars, moving, crashes>>

(* while (!got_token && !GetActiveIOZoneTokenIfAvailable())                *)
(*   FinishCheapestIOZone()                                                *)
GetActiveIOZoneToken(w) ==
    /\ pc[w] = "getActive"
    /\ IF ActiveTokenAvailable
         THEN active_io_zones' = active_io_zones + 1 /\ Goto(w, "allocEmpty")
         ELSE Goto(w, "finishScan") /\ UNCHANGED active_io_zones
    /\ UNCHANGED <<zoneVars, open_io_zones, sleeping, alloc_mutex, zone, fileVars, moving, crashes>>

FinishCandidates == {z \in Zones : ~busy[z] /\ Active(z)}

FinishCheapestIOZone(w) ==
    /\ pc[w] = "finishScan"
    /\ \E seen \in Seen(FinishCandidates) :
         \/ \E z \in seen :
              /\ \A y \in seen : capacity[z] <= capacity[y]
              /\ Acquire(w, z)
              /\ Goto(w, "finishVictim")
         \/ seen = {} /\ Goto(w, "getActive") /\ UNCHANGED <<busy, zone>>
    /\ UNCHANGED <<wp, capacity, usedBy, tokenVars, alloc_mutex, fileVars, moving, crashes>>

FinishVictim(w) ==
    /\ pc[w] = "finishVictim"
    /\ Release(w)
    /\ \/ FinishZone(zone[w]) /\ Goto(w, "finishPut")
       \/ "finish" \in Faults /\ Goto(w, "fail") /\ UNCHANGED <<wp, capacity>>
    /\ UNCHANGED <<usedBy, tokenVars, alloc_mutex, fileVars, moving, crashes>>

(* MUTANT: the token of a finished zone is not returned.                   *)
FinishPutForgotten(w) ==
    /\ pc[w] = "finishPut"
    /\ Goto(w, "getActive")
    /\ UNCHANGED <<zoneVars, tokenVars, alloc_mutex, zone, fileVars, moving, crashes>>

FinishPut(w) ==
    /\ pc[w] = "finishPut"
    /\ PutActiveIOZoneToken
    /\ Goto(w, "getActive")
    /\ UNCHANGED <<zoneVars, alloc_mutex, zone, fileVars, moving, crashes>>

(* MUTANT: an empty zone is taken without acquiring it.                    *)
EmptyZones == {z \in Zones : IsEmpty(z)}

(* AllocateEmptyZone: each of the five allocators takes one of the empty   *)
(* zones it can acquire, and none only if it can acquire none.             *)
AcquirableEmptyZones == {z \in Zones : ~busy[z] /\ IsEmpty(z)}

AllocateEmptyZone(w) ==
    /\ pc[w] = "allocEmpty"
    /\ \E seen \in Seen(AcquirableEmptyZones) :
         \/ \E z \in seen : Acquire(w, z) /\ Allocated(w)
         \/ seen = {} /\ Goto(w, "noZone") /\ UNCHANGED <<busy, zone, alloc_mutex>>
    /\ UNCHANGED <<wp, capacity, usedBy, tokenVars, fileVars, moving, crashes>>

NoZonePutActive(w) ==
    /\ pc[w] = "noZone"
    /\ PutActiveIOZoneToken
    /\ Goto(w, "fail")
    /\ UNCHANGED <<zoneVars, alloc_mutex, zone, fileVars, moving, crashes>>

FailPutOpen(w) ==
    /\ pc[w] = "fail"
    /\ PutOpenIOZoneToken
    /\ AllocationFailed(w)
    /\ UNCHANGED <<zoneVars, zone, closing, scan, moving, crashes>>

AllocateIOZone(w) ==
    \/ LockAllocMutex(w)
    \/ ThresholdVisit(w) \/ ThresholdFinish(w) \/ ThresholdPut(w)
    \/ WaitForOpenIOZoneToken(w)
    \/ GetBestOpenZoneMatch(w) \/ TryActiveToken(w) \/ DecideOnMatch(w) \/ KeepMatch(w)
    \/ GetActiveIOZoneToken(w)
    \/ FinishCheapestIOZone(w) \/ FinishVictim(w) \/ FinishPut(w)
    \/ AllocateEmptyZone(w) \/ NoZonePutActive(w) \/ FailPutOpen(w)

-----------------------------------------------------------------------------
(* A file: Append, CloseActiveZone, CloseWR, and its end                   *)

OpenFile(w) ==
    /\ pc[w] = "absent"
    /\ Goto(w, "ready")
    /\ UNCHANGED <<zoneVars, tokenVars, alloc_mutex, zone, fileVars, moving, crashes>>

(* BufferedAppend, SparseAppend and Append up to their loop.               *)
StartAppend(w) ==
    /\ pc[w] = "ready"
    /\ \E n \in 1 .. MaxAppend : left' = [left EXCEPT ![w] = n]
    /\ Goto(w, IF zone[w] = NoZone THEN "lock" ELSE "append")
    /\ UNCHANGED <<zoneVars, tokenVars, alloc_mutex, zone, closing, scan, moving, crashes>>

(* MUTANT: the capacity left is not updated.                               *)
AdvanceUncharged(z, n) ==
    /\ wp' = [wp EXCEPT ![z] = @ + n]
    /\ UNCHANGED capacity

(* What an append of n blocks does to the active zone.                     *)
Advance(z, n) ==
    /\ wp' = [wp EXCEPT ![z] = @ + n]
    /\ capacity' = [capacity EXCEPT ![z] = @ - n]

ChunkSize(w) ==
    IF left[w] <= capacity[zone[w]] THEN left[w] ELSE capacity[zone[w]]

(* One iteration of the loop.  A buffered writer rolls to another zone as  *)
(* soon as it has filled one, even with nothing left to write; a direct    *)
(* writer rolls when it meets a full zone with data to write.  The extent  *)
(* of a direct write is only pushed later, but always before the busy flag *)
(* is dropped, and nobody else looks at the zone until then.               *)
AppendChunk(w) ==
    /\ pc[w] = "append"
    /\ ~(w \in DirectWriters /\ IsFull(zone[w]))
    /\ LET z == zone[w]
           n == ChunkSize(w)
       IN  /\ Advance(z, n)
           /\ usedBy' = [usedBy EXCEPT ![z] = IF n = 0 THEN @ ELSE @ \cup {w}]
           /\ left' = [left EXCEPT ![w] = @ - n]
           /\ Goto(w, IF w \notin DirectWriters /\ n = capacity[z] THEN "close"
                      ELSE IF n = left[w] THEN "ready" ELSE "append")
    /\ UNCHANGED <<busy, tokenVars, alloc_mutex, zone, closing, scan, moving, crashes>>

(* The device fails the write after some blocks of it.  With none written, *)
(* this is also what a failing PersistMetadata in AllocateNewZone does.    *)
AppendError(w) ==
    /\ "append" \in Faults
    /\ pc[w] = "append"
    /\ \E n \in 0 .. MaxAppend : (n < ChunkSize(w) \/ n = 0) /\ Advance(zone[w], n)
    /\ left' = [left EXCEPT ![w] = 0]
    /\ Goto(w, "ready")
    /\ UNCHANGED <<usedBy, busy, tokenVars, alloc_mutex, zone, closing, scan, moving, crashes>>

RollFullZone(w) ==
    /\ pc[w] = "append"
    /\ w \in DirectWriters
    /\ IsFull(zone[w])
    /\ Goto(w, "close")
    /\ UNCHANGED <<zoneVars, tokenVars, alloc_mutex, zone, fileVars, moving, crashes>>

(* CloseWR up to CloseActiveZone.  If PersistMetadata fails, the file just *)
(* stays open.                                                             *)
StartClose(w) ==
    /\ pc[w] = "ready"
    /\ closing' = [closing EXCEPT ![w] = TRUE]
    /\ Goto(w, IF zone[w] = NoZone THEN "closed" ELSE "close")
    /\ UNCHANGED <<zoneVars, tokenVars, alloc_mutex, zone, left, scan, moving, crashes>>

(* CloseActiveZone: read IsFull, close the zone, release it, and only then *)
(* return the tokens.  The device is asked to close active zones only; if  *)
(* that fails the zone is released and the tokens are kept.                *)
AfterClose(w) == Goto(w, IF closing[w] THEN "closed" ELSE "lock")

CloseActiveZone(w) ==
    /\ pc[w] = "close"
    /\ Release(w)
    /\ \/ Goto(w, IF IsFull(zone[w]) THEN "putBoth" ELSE "putOpen") /\ UNCHANGED left
       \/ /\ "close" \in Faults
          /\ Active(zone[w])
          /\ Goto(w, IF closing[w] THEN "closed" ELSE "ready")
          /\ left' = [left EXCEPT ![w] = 0]
    /\ UNCHANGED <<wp, capacity, usedBy, tokenVars, alloc_mutex, closing, scan, moving, crashes>>

ClosePutOpen(w) ==
    /\ pc[w] \in {"putBoth", "putOpen"}
    /\ PutOpenIOZoneToken
    /\ IF pc[w] = "putBoth" THEN Goto(w, "putActive") ELSE AfterClose(w)
    /\ UNCHANGED <<zoneVars, alloc_mutex, zone, fileVars, moving, crashes>>

ClosePutActive(w) ==
    /\ pc[w] = "putActive"
    /\ PutActiveIOZoneToken
    /\ AfterClose(w)
    /\ UNCHANGED <<zoneVars, alloc_mutex, zone, fileVars, moving, crashes>>

(* OpenWritableFile with reopen: AcquireWRLock waits while GC has it.      *)
ReopenFile(w) ==
    /\ pc[w] = "closed"
    /\ moving.file # w
    /\ closing' = [closing EXCEPT ![w] = FALSE]
    /\ Goto(w, "ready")
    /\ UNCHANGED <<zoneVars, tokenVars, alloc_mutex, zone, left, scan, moving, crashes>>

(* The destructor of a deleted file, once readers and GC have dropped      *)
(* their references to it.                                                 *)
ClearExtents(w) ==
    /\ pc[w] = "deleted"
    /\ moving.file # w
    /\ usedBy' = [z \in Zones |-> usedBy[z] \ {w}]
    /\ closing' = [closing EXCEPT ![w] = FALSE]
    /\ Goto(w, "absent")
    /\ UNCHANGED <<wp, capacity, busy, tokenVars, alloc_mutex, zone, left, scan, moving, crashes>>

Write(w) ==
    \/ OpenFile(w) \/ StartAppend(w)
    \/ AppendChunk(w) \/ AppendError(w) \/ RollFullZone(w)
    \/ StartClose(w) \/ CloseActiveZone(w) \/ ClosePutOpen(w) \/ ClosePutActive(w)
    \/ ReopenFile(w) \/ ClearExtents(w)

-----------------------------------------------------------------------------
(* DeleteFile and ResetUnusedIOZones.  GC sweeps too.                      *)

StartSweep(t) == Goto(t, "sweep") /\ scan' = [scan EXCEPT ![t] = 1]

AfterSweep(t) == Goto(t, IF t = GC THEN "select" ELSE "idle")

(* DeleteFile: the name is gone, then come the sweep and, sooner or later, *)
(* ClearExtents.  Nobody deletes a file that is being written.  Sweeps     *)
(* after a rename over a file and after a file has been replaced are the   *)
(* same.                                                                   *)
DeleteFile(t, w) ==
    /\ pc[t] = "idle"
    /\ pc[w] = "closed"
    /\ pc' = [pc EXCEPT ![w] = "deleted", ![t] = "sweep"]
    /\ scan' = [scan EXCEPT ![t] = 1]
    /\ UNCHANGED <<zoneVars, tokenVars, alloc_mutex, zone, left, closing, moving, crashes>>

(* MUTANT: a zone in the hands of another thread is swept too.             *)
SweepAcquireBusy(t) ==
    /\ pc[t] = "sweep"
    /\ IF scan[t] \notin Zones
         THEN AfterSweep(t) /\ scan' = [scan EXCEPT ![t] = 1] /\ UNCHANGED <<busy, zone>>
         ELSE /\ scan' = [scan EXCEPT ![t] = @ + 1]
              /\ Acquire(t, scan[t])
              /\ Goto(t, "check")
    /\ UNCHANGED <<wp, capacity, usedBy, tokenVars, alloc_mutex, left, closing, moving, crashes>>

SweepAcquire(t) ==
    /\ pc[t] = "sweep"
    /\ IF scan[t] \notin Zones
         THEN AfterSweep(t) /\ scan' = [scan EXCEPT ![t] = 1] /\ UNCHANGED <<busy, zone>>
         ELSE /\ scan' = [scan EXCEPT ![t] = @ + 1]
              /\ IF busy[scan[t]] THEN UNCHANGED <<busy, zone, pc>>
                                  ELSE Acquire(t, scan[t]) /\ Goto(t, "check")
    /\ UNCHANGED <<wp, capacity, usedBy, tokenVars, alloc_mutex, left, closing, moving, crashes>>

Unused(z) == ~IsEmpty(z) /\ ~IsUsed(z)

(* MUTANT: only the write pointer is looked at.                            *)
SweepCheckWritten(t) ==
    /\ pc[t] = "check"
    /\ Goto(t, IF IsEmpty(zone[t]) THEN "release"
               ELSE IF IsFull(zone[t]) THEN "resetFull" ELSE "reset")
    /\ UNCHANGED <<zoneVars, tokenVars, alloc_mutex, zone, fileVars, moving, crashes>>

SweepCheck(t) ==
    /\ pc[t] = "check"
    /\ Goto(t, IF ~Unused(zone[t]) THEN "release"
               ELSE IF IsFull(zone[t]) THEN "resetFull" ELSE "reset")
    /\ UNCHANGED <<zoneVars, tokenVars, alloc_mutex, zone, fileVars, moving, crashes>>

(* Zone::Reset.  A zone that goes offline ends up both empty and full.     *)
ResetZone(z) ==
    /\ wp' = [wp EXCEPT ![z] = 0]
    /\ \/ capacity' = [capacity EXCEPT ![z] = MaxCapacity]
       \/ "offline" \in Faults /\ capacity' = [capacity EXCEPT ![z] = 0]

(* A reset that fails ends the loop.                                       *)
ResetError(t) ==
    /\ "reset" \in Faults
    /\ Goto(t, "release")
    /\ scan' = [scan EXCEPT ![t] = NrZones + 1]
    /\ UNCHANGED <<wp, capacity>>

(* MUTANT: IsFull is read after the reset, when it is false.               *)
SweepResetThenFull(t) ==
    /\ pc[t] \in {"reset", "resetFull"}
    /\ \/ ResetZone(zone[t]) /\ Goto(t, "releasePut") /\ UNCHANGED scan
       \/ ResetError(t)
    /\ UNCHANGED <<usedBy, busy, tokenVars, alloc_mutex, zone, left, closing, moving, crashes>>

SweepReset(t) ==
    /\ pc[t] \in {"reset", "resetFull"}
    /\ \/ /\ ResetZone(zone[t])
          /\ Goto(t, IF pc[t] = "reset" THEN "releasePut" ELSE "release")
          /\ UNCHANGED scan
       \/ ResetError(t)
    /\ UNCHANGED <<usedBy, busy, tokenVars, alloc_mutex, zone, left, closing, moving, crashes>>

SweepRelease(t) ==
    /\ pc[t] \in {"release", "releasePut"}
    /\ Release(t)
    /\ Goto(t, IF pc[t] = "releasePut" THEN "sweepPut" ELSE "sweep")
    /\ UNCHANGED <<wp, capacity, usedBy, tokenVars, alloc_mutex, fileVars, moving, crashes>>

SweepPut(t) ==
    /\ pc[t] = "sweepPut"
    /\ PutActiveIOZoneToken
    /\ Goto(t, "sweep")
    /\ UNCHANGED <<zoneVars, alloc_mutex, zone, fileVars, moving, crashes>>

ResetUnusedIOZones(t) ==
    \/ SweepAcquire(t) \/ SweepCheck(t) \/ SweepReset(t) \/ SweepRelease(t) \/ SweepPut(t)

-----------------------------------------------------------------------------
(* Garbage collection.  GCWorker holds alloc_mutex_ for a whole iteration. *)

(* A migration of the extents a file has in one zone: the zones it has put *)
(* extents into, and the zones the file used before.                       *)
NoMove == [file |-> NoFile, src |-> NoZone, to |-> {}, had |-> {}]

GCWorker ==
    /\ EnableGC
    /\ \/ pc[GC] = "idle" /\ alloc_mutex = NoThread /\ alloc_mutex' = GC /\ Goto(GC, "select")
       \/ pc[GC] = "select" /\ alloc_mutex' = NoThread /\ Goto(GC, "idle")
    /\ UNCHANGED <<zoneVars, tokenVars, zone, fileVars, moving, crashes>>

(* MigrateFileExtents skips files deleted since the snapshot and files     *)
(* open for writing.  CloseWR releases the WR lock before it closes the    *)
(* active zone.  MigrateExtents sweeps after each file.                    *)
MigrateFileExtents ==
    /\ pc[GC] = "select"
    /\ \/ \E f \in Writers, z \in Zones :
            /\ closing[f] /\ pc[f] # "deleted"
            /\ f \in usedBy[z]
            /\ moving' = [file |-> f, src |-> z, to |-> {},
                          had |-> {y \in Zones : f \in usedBy[y]}]
            /\ Goto(GC, "extent")
            /\ UNCHANGED scan
       \/ /\ \E f \in Writers : ~closing[f] \/ pc[f] = "deleted"
          /\ StartSweep(GC)
          /\ UNCHANGED moving
    /\ UNCHANGED <<zoneVars, tokenVars, alloc_mutex, zone, left, closing, crashes>>

(* The loop over the extents of the file.                                  *)
NextExtent ==
    /\ pc[GC] = "extent"
    /\ \/ \E n \in 1 .. MaxAppend :
            /\ n <= MaxCapacity
            /\ left' = [left EXCEPT ![GC] = n]
            /\ Goto(GC, "take")
       \/ Goto(GC, "sync") /\ UNCHANGED left
    /\ UNCHANGED <<zoneVars, tokenVars, alloc_mutex, zone, closing, scan, moving, crashes>>

(* TakeMigrateZone.  GetEmptyZoneCount also counts empty zones that are    *)
(* busy; when all of them are, AllocateEmptyZone finds none and the code   *)
(* goes on to read the start of a null zone ("nullZone").  The minimum     *)
(* capacity is ignored for a file without level or keys.                   *)
TakeMigrateZone ==
    /\ pc[GC] = "take"
    /\ \E min \in {0, left[GC]} : \E seen \in Seen(OpenZoneMatches(min)) :
         \/ \E z \in seen :
              Acquire(GC, z) /\ Goto(GC, "migrate") /\ UNCHANGED active_io_zones
         \/ /\ seen = {}
            /\ GetEmptyZoneCount > 0 /\ ActiveTokenAvailable
            /\ active_io_zones' = active_io_zones + 1
            /\ \E empty \in Seen(AcquirableEmptyZones) :
                 \/ \E z \in empty : Acquire(GC, z) /\ Goto(GC, "migrate")
                 \/ empty = {} /\ Goto(GC, "nullZone") /\ UNCHANGED <<busy, zone>>
         \/ /\ seen = {}
            /\ GetEmptyZoneCount = 0 \/ ~ActiveTokenAvailable
            /\ Goto(GC, "extent")
            /\ UNCHANGED <<busy, zone, active_io_zones>>
    /\ UNCHANGED <<wp, capacity, usedBy, open_io_zones, sleeping, alloc_mutex, fileVars, moving, crashes>>

(* MigrateData: the data goes over in steps, and a step that does not fit  *)
(* or fails is not noticed.                                                *)
MigrateData ==
    /\ pc[GC] = "migrate"
    /\ \E n \in 0 .. left[GC] :
         /\ n <= capacity[zone[GC]]
         /\ n < left[GC] => left[GC] > capacity[zone[GC]] \/ "migrate" \in Faults
         /\ Advance(zone[GC], n)
    /\ Goto(GC, "releaseMigrate")
    /\ UNCHANGED <<usedBy, busy, tokenVars, alloc_mutex, zone, fileVars, moving, crashes>>

(* If the file still exists the extent is charged to its new zone, and the *)
(* loop goes on.  ReleaseMigrateZone returns no token.                     *)
ReleaseMigrateZone ==
    /\ pc[GC] = "releaseMigrate"
    /\ IF pc[moving.file] = "deleted"
         THEN Goto(GC, "sync") /\ UNCHANGED <<usedBy, moving>>
         ELSE /\ usedBy' = [usedBy EXCEPT ![zone[GC]] = @ \cup {moving.file}]
              /\ moving' = [moving EXCEPT !.to = @ \cup {zone[GC]}]
              /\ Goto(GC, "extent")
    /\ Release(GC)
    /\ left' = [left EXCEPT ![GC] = 0]
    /\ UNCHANGED <<wp, capacity, tokenVars, alloc_mutex, closing, scan, crashes>>

(* SyncFileExtents takes the old extents off their zone; the file may have *)
(* others there that were not moved, or that were moved there.             *)
SyncFileExtents ==
    /\ pc[GC] = "sync"
    /\ \/ UNCHANGED usedBy
       \/ /\ moving.to # {} /\ moving.src \notin moving.to
          /\ usedBy' = [usedBy EXCEPT ![moving.src] = @ \ {moving.file}]
    /\ moving' = NoMove
    /\ left' = [left EXCEPT ![GC] = 0]
    /\ StartSweep(GC)
    /\ UNCHANGED <<wp, capacity, busy, tokenVars, alloc_mutex, zone, closing, crashes>>

Collect ==
    \/ GCWorker \/ MigrateFileExtents \/ NextExtent
    \/ TakeMigrateZone \/ MigrateData \/ ReleaseMigrateZone \/ SyncFileExtents

-----------------------------------------------------------------------------
(* A crash and the following Open and Mount                                *)

NullDereference == pc[GC] = "nullZone"

(* The process has been killed and nobody restarts it.                     *)
Terminated == NullDereference /\ UNCHANGED vars

ActiveZones == {z \in Zones : Active(z)}

InitialPc == [t \in Threads |-> IF t \in Writers THEN "absent" ELSE "idle"]

(* Files closed before the crash survive it; of the files open for writing *)
(* some survive.  A migration whose extents were not synced is undone.     *)
(* Open counts the zones the device reports as active, and Mount resets    *)
(* the unused zones, returning the tokens of the active ones.  A Mount     *)
(* whose sweep fails returns the error before anything else runs; Open and *)
(* Mount are then tried again, and this is the attempt that succeeds.      *)
CrashAndMount ==
    /\ crashes < MaxCrashes
    /\ crashes' = crashes + 1
    /\ \E survivors \in SUBSET {w \in Writers : pc[w] \notin {"absent", "deleted"}} :
         /\ {w \in Writers : pc[w] = "closed"} \subseteq survivors
         /\ usedBy' = [z \in Zones |->
                         (usedBy[z] \cap survivors)
                           \ (IF z \in moving.to \ moving.had THEN {moving.file} ELSE {})]
         /\ pc' = [t \in Threads |-> IF t \in survivors THEN "closed" ELSE InitialPc[t]]
         /\ closing' = [t \in Threads |-> t \in survivors]
    /\ wp' = [z \in Zones |-> IF usedBy'[z] = {} THEN 0 ELSE wp[z]]
    /\ capacity' = [z \in Zones |->
                      IF usedBy'[z] = {} /\ ~IsEmpty(z) THEN MaxCapacity ELSE capacity[z]]
    /\ active_io_zones' = Cardinality({z \in ActiveZones : usedBy'[z] # {}})
    /\ open_io_zones' = 0
    /\ sleeping' = {}
    /\ alloc_mutex' = NoThread
    /\ busy' = [z \in Zones |-> FALSE]
    /\ zone' = [t \in Threads |-> NoZone]
    /\ left' = [t \in Threads |-> 0]
    /\ scan' = [t \in Threads |-> 1]
    /\ moving' = NoMove

-----------------------------------------------------------------------------
Init ==
    /\ wp = [z \in Zones |-> 0]
    /\ capacity = [z \in Zones |-> MaxCapacity]
    /\ usedBy = [z \in Zones |-> {}]
    /\ busy = [z \in Zones |-> FALSE]
    /\ active_io_zones = 0
    /\ open_io_zones = 0
    /\ sleeping = {}
    /\ alloc_mutex = NoThread
    /\ pc = InitialPc
    /\ zone = [t \in Threads |-> NoZone]
    /\ left = [t \in Threads |-> 0]
    /\ closing = [t \in Threads |-> FALSE]
    /\ scan = [t \in Threads |-> 1]
    /\ moving = NoMove
    /\ crashes = 0

WriterStep(w) == AllocateIOZone(w) \/ Write(w)

Run ==
    \/ \E w \in Writers : WriterStep(w)
    \/ \E t \in Sweepers, w \in Writers : DeleteFile(t, w)
    \/ \E t \in Sweeping : ResetUnusedIOZones(t)
    \/ Collect

Next == (~NullDereference /\ Run) \/ CrashAndMount \/ Terminated

Spec == Init /\ [][Next]_vars

(* A thread inside an operation keeps running, a mutex that becomes free   *)
(* again and again is eventually obtained, and files do not grow for ever. *)
InsideOperation(w) ==
    \/ ThresholdVisit(w) \/ ThresholdFinish(w) \/ ThresholdPut(w)
    \/ WaitForOpenIOZoneToken(w)
    \/ GetBestOpenZoneMatch(w) \/ TryActiveToken(w) \/ DecideOnMatch(w) \/ KeepMatch(w)
    \/ GetActiveIOZoneToken(w)
    \/ FinishCheapestIOZone(w) \/ FinishVictim(w) \/ FinishPut(w)
    \/ AllocateEmptyZone(w) \/ NoZonePutActive(w) \/ FailPutOpen(w)
    \/ AppendChunk(w) \/ RollFullZone(w)
    \/ CloseActiveZone(w) \/ ClosePutOpen(w) \/ ClosePutActive(w)

Fairness ==
    /\ \A w \in Writers :
         /\ WF_vars(InsideOperation(w))
         /\ SF_vars(LockAllocMutex(w))
         /\ SF_vars(StartClose(w))
    /\ \A t \in Sweepers :
         WF_vars(ResetUnusedIOZones(t))

FairSpec == Spec /\ Fairness

-----------------------------------------------------------------------------
(* Properties                                                              *)

(* The writer steps between WaitForOpenIOZoneToken and the return of       *)
(* AllocateIOZone, and those of CloseActiveZone up to PutOpenIOZoneToken.  *)
HoldingOpenPc ==
    {"match", "couldBeWorse", "notGood", "haveToken", "noToken", "keepMatch", "getActive",
     "finishScan", "finishVictim", "finishPut", "allocEmpty", "noZone", "fail", "close",
     "putBoth", "putOpen"}

WriterPc ==
    {"absent", "ready", "lock", "threshold", "thresholdFinish", "thresholdPut", "waitOpen",
     "append", "putActive", "closed", "deleted"} \cup HoldingOpenPc

SweepPc ==
    {"sweep", "check", "reset", "resetFull", "release", "releasePut", "sweepPut"}

SweeperPc == {"idle"} \cup SweepPc

GCPc ==
    {"idle", "select", "extent", "take", "migrate", "releaseMigrate", "sync", "nullZone"}
        \cup SweepPc

ZoneTypeOK ==
    /\ wp \in [Zones -> 0 .. MaxCapacity]
    /\ capacity \in [Zones -> 0 .. MaxCapacity]
    /\ \A z \in Zones : wp[z] + capacity[z] <= MaxCapacity

HolderTypeOK ==
    /\ busy \in [Zones -> BOOLEAN]
    /\ zone \in [Threads -> Zones \cup {NoZone}]

TokenTypeOK ==
    /\ active_io_zones \in Int
    /\ open_io_zones \in Int
    /\ sleeping \subseteq Writers
    /\ alloc_mutex \in Writers \cup {GC, NoThread}

FileTypeOK ==
    /\ left \in [Threads -> 0 .. MaxAppend]
    /\ closing \in [Threads -> BOOLEAN]
    /\ scan \in [Threads -> 1 .. NrZones + 1]
    /\ moving \in [file : Writers \cup {NoFile}, src : Zones \cup {NoZone},
                    to : SUBSET Zones, had : SUBSET Zones]
    /\ crashes \in 0 .. MaxCrashes

PcTypeOK ==
    /\ pc \in [Threads -> WriterPc \cup SweeperPc \cup GCPc]
    /\ \A w \in Writers : pc[w] \in WriterPc
    /\ \A t \in Sweepers : pc[t] \in SweeperPc
    /\ pc[GC] \in GCPc

(* Type invariant: every variable stays within the ranges its code type    *)
(* and the bounds of the model give it, and the blocks written to a zone   *)
(* and the blocks left in it never exceed its capacity.                    *)
TypeOK ==
    /\ ZoneTypeOK
    /\ usedBy \in [Zones -> SUBSET Writers]
    /\ HolderTypeOK
    /\ TokenTypeOK
    /\ FileTypeOK
    /\ PcTypeOK

(* Zone ownership: the busy flag of a zone is set exactly while one thread *)
(* holds the zone, and no two threads ever hold the same one.  This is     *)
(* what makes every CheckRelease succeed and every append sequential.      *)
ZoneExclusive ==
    \A z \in Zones :
        /\ busy[z] <=> \E t \in Threads : zone[t] = z
        /\ \A t, u \in Threads : zone[t] = z /\ zone[u] = z => t = u

(* The assertions of Zone::Reset and what ResetUnusedIOZones relies on     *)
(* between its check and the reset: the zone is still busy, still without  *)
(* live extents, and the IsFull it has read still holds.                   *)
ResetOnlyUnused ==
    \A t \in Sweeping :
        pc[t] \in {"reset", "resetFull"} =>
            /\ busy[zone[t]]
            /\ Unused(zone[t])
            /\ pc[t] = "resetFull" <=> IsFull(zone[t])

(* Live data is never reset: as long as some file has extents in a zone,   *)
(* the write pointer of the zone does not move back, whatever sweepers,    *)
(* finishes, deletions, migrations and crashes happen around it.           *)
LiveDataKept ==
    [][\A z \in Zones : usedBy[z] \cap usedBy'[z] # {} => wp'[z] >= wp[z]]_vars

(* What an active token is in use for: a zone that is partly written or in *)
(* the hands of a writer or of GC, or a thread about to return a token.    *)
Writing(t) ==
    /\ t \in Writers \cup {GC}
    /\ pc[t] \in {"ready", "append", "close", "migrate", "releaseMigrate"}

HeldForWriting(z) == \E t \in Threads : zone[t] = z /\ Writing(t)

OwesActiveToken(t) ==
    pc[t] \in {"thresholdPut", "haveToken", "keepMatch", "finishPut", "allocEmpty", "noZone",
               "putBoth", "putActive", "releasePut", "sweepPut", "nullZone"}

ActiveCharges ==
    {z \in Zones : Active(z) \/ HeldForWriting(z)} \cup {t \in Threads : OwesActiveToken(t)}

(* The device never sees more active zones than it supports: each active   *)
(* zone, and each one about to be, is covered by a token of                *)
(* active_io_zones_, and the counter never passes its limit, through       *)
(* finishes, resets, migrations, failed device commands and crashes.       *)
ActiveZonesWithinLimit ==
    /\ Cardinality(ActiveCharges) <= active_io_zones
    /\ active_io_zones <= MaxActive

HoldsOpenToken(w) ==
    pc[w] \in HoldingOpenPc \/ (pc[w] \in {"ready", "append"} /\ zone[w] # NoZone)

OpenHolders == {w \in Writers : HoldsOpenToken(w)}

(* The same for open zones: every writer with a zone, or on its way to     *)
(* one, holds one of at most MaxOpen open tokens, and all but the writers  *)
(* of write-ahead logs together hold at most MaxOpen - 1.                  *)
OpenZonesWithinLimit ==
    /\ Cardinality(OpenHolders) <= open_io_zones
    /\ open_io_zones <= MaxOpen
    /\ OpenHolders \ WALWriters # {} => Cardinality(OpenHolders \ WALWriters) <= MaxOpen - 1

(* No wake-up is lost although PutOpenIOZoneToken only notifies one        *)
(* waiter: whoever sleeps in WaitForOpenIOZoneToken holds alloc_mutex_, so *)
(* it is the only one, and it sleeps only while there is no token for it.  *)
NoLostWakeup ==
    \A w \in sleeping :
        /\ alloc_mutex = w
        /\ pc[w] = "waitOpen"
        /\ open_io_zones >= OpenLimit(w)

(* A buffered append finds room in the zone it was given, so that each     *)
(* turn of its loop writes something.  The only exception is a zone that   *)
(* went offline, which is still handed out as an empty one.                *)
AppendHasRoom ==
    \A w \in Writers \ DirectWriters :
        pc[w] = "append" /\ IsFull(zone[w]) => IsEmpty(zone[w])

(* AllocateIOZone returns to the Append loop, with a zone or an error,     *)
(* unless sweepers go on for ever to hold zones just when it looks.        *)
SweepsEnd == \A t \in Sweepers : <>[](pc[t] = "idle")

AllocationsEnd == \A w \in Writers : pc[w] = "lock" ~> pc[w] \in {"append", "ready"}

(* CloseActiveZone of a zone that is still empty keeps its active token.   *)
LosesActiveToken(w) == pc[w] = "close" /\ IsEmpty(zone[w])

(* As long as no file is closed with a zone it has not written to, every   *)
(* allocation returns: the wait for an open token and the loop that        *)
(* finishes zones to get an active one, both with alloc_mutex_ held, come  *)
(* to an end.                                                              *)
AllocationReturnsUnlessLost ==
    SweepsEnd /\ [](\A w \in Writers : ~LosesActiveToken(w)) => AllocationsEnd

-----------------------------------------------------------------------------
(* What an inductive argument for these invariants has to add              *)

(* Where a thread is determines whether it has a zone in its hands.        *)
MatchHeldPc ==
    {"thresholdFinish", "couldBeWorse", "haveToken", "noToken", "keepMatch", "finishVictim"}

PcZoneAgree ==
    /\ \A w \in Writers :
         /\ pc[w] \in MatchHeldPc \cup {"append", "close"} => zone[w] # NoZone
         /\ pc[w] \notin MatchHeldPc \cup {"append", "close", "ready", "notGood"} =>
              zone[w] = NoZone
    /\ \A t \in Sweeping :
         zone[t] # NoZone <=>
             pc[t] \in {"check", "reset", "resetFull", "release", "releasePut",
                        "migrate", "releaseMigrate"}

(* alloc_mutex_ is held exactly inside AllocateIOZone and GCWorker.        *)
AllocatingPc ==
    {"threshold", "thresholdFinish", "thresholdPut", "waitOpen", "match", "couldBeWorse",
     "notGood", "haveToken", "noToken", "keepMatch", "getActive", "finishScan",
     "finishVictim", "finishPut", "allocEmpty", "noZone", "fail"}

MutexOwner ==
    /\ \A w \in Writers : alloc_mutex = w <=> pc[w] \in AllocatingPc
    /\ alloc_mutex = GC <=> pc[GC] # "idle"

(* GC has picked a file, and extents that fit a zone.                      *)
MovingFile ==
    /\ pc[GC] \in {"extent", "take", "migrate", "releaseMigrate", "sync", "nullZone"} =>
         moving.file \in Writers /\ moving.src \in Zones
    /\ pc[GC] \in {"take", "migrate", "releaseMigrate", "nullZone"} => left[GC] \in 1 .. MaxCapacity

(* A zone held as a match or as a victim stays partly written.             *)
HeldActive ==
    \A w \in Writers :
        \/ pc[w] \in MatchHeldPc
        \/ pc[w] = "notGood" /\ zone[w] # NoZone
        => Active(zone[w])

(* As long as no zone goes offline and no write of a migration fails, a    *)
(* zone with live extents has been written, and an empty one is all free.  *)
MigrationsSucceed == Faults \cap {"offline", "migrate"} = {}

UsedIsWritten ==
    /\ \A z \in Zones : IsUsed(z) => ~IsEmpty(z)
    /\ \A z \in Zones : IsEmpty(z) => capacity[z] = MaxCapacity
    /\ pc[GC] = "migrate" => left[GC] <= capacity[zone[GC]] \/ ~IsEmpty(zone[GC])
    /\ pc[GC] = "releaseMigrate" => ~IsEmpty(zone[GC])

IndInv ==
    /\ TypeOK
    /\ PcZoneAgree
    /\ MutexOwner
    /\ MovingFile
    /\ ZoneExclusive
    /\ ResetOnlyUnused
    /\ NoLostWakeup

ActiveInv ==
    /\ UsedIsWritten
    /\ HeldActive
    /\ ActiveZonesWithinLimit

-----------------------------------------------------------------------------
(* What comments and documents say and the code does not do                *)

(* zbd_zenfs.cc says of an active token that the callee is responsible for *)
(* returning it: when no operation is in progress, the tokens taken are    *)
(* those of the active zones.                                              *)
Quiescent ==
    /\ \A t \in Threads : zone[t] = NoZone /\ ~OwesActiveToken(t)
    /\ alloc_mutex = NoThread

ActiveTokensReturned ==
    Quiescent => active_io_zones = Cardinality(ActiveZones)

(* AllocateIOZone says of the loop around FinishCheapestIOZone: "We have   *)
(* to make sure we can open an empty zone".  Every allocation returns.     *)
AllocationReturns == SweepsEnd => AllocationsEnd

(* WaitForOpenIOZoneToken: "Avoid non-priortized allocators from starving  *)
(* prioritized ones".  No write-ahead log waits for a zone behind a        *)
(* sleeping allocator while there is an open token it could have.          *)
PrioritizedNotBlocked ==
    \A w \in WALWriters :
        pc[w] = "lock" /\ alloc_mutex \in sleeping => open_io_zones >= OpenLimit(w)

(* TakeMigrateZone reports that it found no zone by leaving it null, which *)
(* MigrateFileExtents tests; it never uses a null zone itself.             *)
MigrateZoneNotNull == ~NullDereference

(* README.md on reserve_count: "Those zones can't be used for storing new  *)
(* files".                                                                 *)
ReserveNotUsedForFiles ==
    [][\A w \in Writers :
          pc[w] = "allocEmpty" /\ zone'[w] # NoZone => GetEmptyZoneCount > Reserve]_vars

=============================================================================

-------------------------- MODULE FileLocksProofs --------------------------
(***************************************************************************)
(* The locks of FileLocks protect what they are there for, for any number  *)
(* of writers, readers, files and buffers, whether closes fail or not.     *)
(***************************************************************************)
EXTENDS FileLocks, FiniteSetTheorems, TLAPS

(* Nothing is open before the first step.                                  *)
LEMMA LockInit == Init => LockInv
  BY FileLocksAssumption DEF Init, LockInv, Threads, Points, Owning, Migrating

(* Steps that leave every variable of LockInv alone keep it.               *)
LEMMA LockFrame ==
    ASSUME LockInv, UNCHANGED <<pc, file, wr, exists, recorded, todo>>
    PROVE  LockInv'
  BY DEF LockInv

(* Opening a file: of two writers that open at a time, each has a file of  *)
(* its own, and a new object is locked by the writer that creates it.      *)
LEMMA OpenStep ==
    ASSUME LockInv, NEW w \in Writers, NEW f \in Files,
           StartOpen(w, f) \/ OpenWritableFile(w) \/ AcquireWRLock(w) \/ TakeBuffer(w)
    PROVE  LockInv'
  <1> USE FileLocksAssumption DEF LockInv, Threads, Points, Owning, Migrating, At, Goto
  <1>1. CASE StartOpen(w, f)
    BY <1>1 DEF StartOpen, Unshared, Fresh
  <1>2. CASE OpenWritableFile(w)
    BY <1>2 DEF OpenWritableFile
  <1>3. CASE AcquireWRLock(w)
    BY <1>3 DEF AcquireWRLock
  <1>4. CASE TakeBuffer(w)
    BY <1>4 DEF TakeBuffer
  <1> QED BY <1>1, <1>2, <1>3, <1>4

(* Writing, closing and deleting a file: the WR lock is released by the    *)
(* writer that has it, and a file is deleted by the writer that names it.  *)
LEMMA WriteStep ==
    ASSUME LockInv, NEW w \in Writers, NEW f \in Files,
           \/ FlushBuffer(w) \/ AllocateIOZone(w) \/ PersistMetadata(w)
           \/ CreateOrUpdateRecord(w) \/ CloseWR(w) \/ ReturnBuffer(w)
           \/ StartDelete(w, f) \/ DeleteFile(w)
    PROVE  LockInv'
  <1> USE FileLocksAssumption DEF LockInv, Threads, Points, Owning, Migrating, At, Goto
  <1>1. CASE FlushBuffer(w)
    BY <1>1 DEF FlushBuffer
  <1>2. CASE AllocateIOZone(w)
    BY <1>2 DEF AllocateIOZone, RecordByPolicy
  <1>3. CASE PersistMetadata(w)
    BY <1>3 DEF PersistMetadata
  <1>4. CASE CreateOrUpdateRecord(w)
    BY <1>4 DEF CreateOrUpdateRecord
  <1>5. CASE CloseWR(w)
    BY <1>5 DEF CloseWR
  <1>6. CASE ReturnBuffer(w)
    BY <1>6 DEF ReturnBuffer
  <1>7. CASE StartDelete(w, f)
    BY <1>7 DEF StartDelete, Unshared
  <1>8. CASE DeleteFile(w)
    BY <1>8 DEF DeleteFile
  <1> QED BY <1>1, <1>2, <1>3, <1>4, <1>5, <1>6, <1>7, <1>8

(* The GC worker takes the WR lock only when it is free and releases only  *)
(* the one it has.                                                         *)
LEMMA GCStep ==
    ASSUME LockInv, GCWorker \/ GCLocks \/ GCSteps
    PROVE  LockInv'
  <1> USE FileLocksAssumption DEF LockInv, Threads, Points, Owning, Migrating, At, Goto
  <1>1. CASE GCWorker
    BY <1>1 DEF GCWorker
  <1>2. CASE GetZenFSSnapshot
    BY <1>2 DEF GetZenFSSnapshot
  <1>3. CASE GetFile
    BY <1>3 DEF GetFile
  <1>4. CASE TryAcquireWRLock
    BY <1>4 DEF TryAcquireWRLock
  <1>5. CASE TakeMigrateZone
    BY <1>5 DEF TakeMigrateZone, RecordByPolicy
  <1>6. CASE CheckFile
    BY <1>6 DEF CheckFile
  <1>7. CASE WriteLock
    BY <1>7 DEF WriteLock
  <1>8. CASE ReplaceExtentList
    BY <1>8 DEF ReplaceExtentList
  <1>9. CASE SyncFileMetadata
    BY <1>9 DEF SyncFileMetadata
  <1>10. CASE ReleaseWRLock
    BY <1>10 DEF ReleaseWRLock
  <1>11. CASE EndOfIteration
    BY <1>11 DEF EndOfIteration
  <1> QED BY <1>1, <1>2, <1>3, <1>4, <1>5, <1>6, <1>7, <1>8, <1>9, <1>10, <1>11
          DEF GCLocks, GCSteps

(* A writer inside a call has a file in its hands.                         *)
LEMMA FileInHand ==
    ASSUME LockInv, NEW w \in Writers,
           FlushBuffer(w) \/ CreateOrUpdateRecord(w) \/ Locks(w) \/ Steps(w)
    PROVE  file[w] \in Files
  BY FileLocksAssumption
     DEF LockInv, Threads, Points, Locks, Steps, At, FlushBuffer, CreateOrUpdateRecord,
         OpenWritableFile, AllocateIOZone, PersistMetadata, CloseWR, DeleteFile,
         AcquireWRLock, TakeBuffer, ReturnBuffer

(* Every step keeps LockInv.                                               *)
LEMMA LockStep == LockInv /\ [Next]_vars => LockInv'
  <1> SUFFICES ASSUME LockInv, [Next]_vars PROVE LockInv'
    OBVIOUS
  <1>1. CASE UNCHANGED vars
    BY <1>1, LockFrame DEF vars
  <1>2. ASSUME NEW w \in Writers, NEW f \in Files, StartOpen(w, f) \/ StartDelete(w, f)
        PROVE  LockInv'
    BY <1>2, OpenStep, WriteStep
  <1>3. ASSUME NEW w \in Writers, FlushBuffer(w) \/ CreateOrUpdateRecord(w) \/ Locks(w) \/ Steps(w)
        PROVE  LockInv'
    BY <1>3, FileInHand, OpenStep, WriteStep DEF Locks, Steps
  <1>4. ASSUME NEW r \in Readers, EndRead(r) \/ \E f \in Files : StartRead(r, f)
        PROVE  LockInv'
    <2>1. UNCHANGED <<pc, file, wr, exists, recorded, todo>>
      BY <1>4 DEF EndRead, StartRead
    <2> QED BY <2>1, LockFrame
  <1>5. CASE GCWorker \/ GCLocks \/ GCSteps
    BY <1>5, GCStep
  <1> QED BY <1>1, <1>2, <1>3, <1>4, <1>5 DEF Next

(* LockInv holds in every reachable state.                                 *)
THEOREM LocksHeld == Spec => []LockInv
  BY LockInit, LockStep, PTL DEF Spec

(* A writer has the WR lock of the file it writes, from the open to the    *)
(* close.                                                                  *)
THEOREM WritersOwnFiles == Spec => []WriterOwnsFile
  <1>1. LockInv => WriterOwnsFile
    BY DEF LockInv, WriterOwnsFile, Owning
  <1> QED BY <1>1, LocksHeld, PTL

(* Without a GC worker a record is inserted only for a file that is open   *)
(* for writing.                                                            *)
RecordInv == recorded \subseteq exists /\ pc[gc] = "idle"

(* Every step of a writer or a reader keeps RecordInv: a file that is open *)
(* exists, and the one that is deleted loses its record.                   *)
LEMMA RecordStep == ~EnableGC /\ LockInv /\ RecordInv /\ [Next]_vars => RecordInv'
  <1> SUFFICES ASSUME ~EnableGC, LockInv, RecordInv, [Next]_vars PROVE RecordInv'
    OBVIOUS
  <1> USE FileLocksAssumption DEF RecordInv, At, Goto
  <1>1. CASE UNCHANGED <<pc, exists, recorded>>
    BY <1>1
  <1>2. ASSUME NEW w \in Writers, NEW f \in Files, StartOpen(w, f) \/ StartDelete(w, f)
        PROVE  RecordInv'
    BY <1>2 DEF StartOpen, StartDelete, LockInv, Threads
  <1>3. ASSUME NEW w \in Writers, FlushBuffer(w) \/ CreateOrUpdateRecord(w) \/ Locks(w) \/ Steps(w)
        PROVE  RecordInv'
    <2>1. pc'[gc] = "idle"
      BY <1>3 DEF LockInv, Threads, Locks, Steps, FlushBuffer, CreateOrUpdateRecord,
                  OpenWritableFile, AllocateIOZone, PersistMetadata, CloseWR, DeleteFile,
                  AcquireWRLock, TakeBuffer, ReturnBuffer
    <2>2. CASE CreateOrUpdateRecord(w) \/ AllocateIOZone(w)
      BY <2>1, <2>2 DEF CreateOrUpdateRecord, AllocateIOZone, RecordByPolicy, LockInv, Owning
    <2>3. CASE OpenWritableFile(w) \/ DeleteFile(w)
      BY <2>1, <2>3 DEF OpenWritableFile, DeleteFile
    <2>4. CASE \/ FlushBuffer(w) \/ PersistMetadata(w) \/ CloseWR(w)
               \/ AcquireWRLock(w) \/ TakeBuffer(w) \/ ReturnBuffer(w)
      BY <2>1, <2>4 DEF FlushBuffer, PersistMetadata, CloseWR, AcquireWRLock, TakeBuffer,
                        ReturnBuffer
    <2> QED BY <1>3, <2>2, <2>3, <2>4 DEF Locks, Steps
  <1>4. ASSUME NEW r \in Readers, EndRead(r) \/ \E f \in Files : StartRead(r, f)
        PROVE  RecordInv'
    BY <1>4 DEF EndRead, StartRead
  <1>5. ~(GCWorker \/ GCLocks \/ GCSteps)
    BY DEF GCWorker, GCLocks, GCSteps, GetZenFSSnapshot, GetFile, SyncFileMetadata,
           TryAcquireWRLock, TakeMigrateZone, CheckFile, WriteLock, ReplaceExtentList,
           ReleaseWRLock, EndOfIteration
  <1>6. CASE UNCHANGED vars
    BY <1>1, <1>6 DEF vars
  <1> QED BY <1>2, <1>3, <1>4, <1>5, <1>6 DEF Next

(* Where no GC worker runs, the records that placement follows point to    *)
(* files that exist: the writers, which insert records when they allocate  *)
(* a zone and when they close a file, and remove them with the file, never *)
(* leave one behind.  (With a GC worker RecordsAlive is false.)            *)
THEOREM RecordedFilesExist == ~EnableGC => (Spec => []RecordsExist)
  <1> SUFFICES ASSUME ~EnableGC PROVE Spec => []RecordsExist
    OBVIOUS
  <1>1. Init => RecordInv
    BY DEF Init, RecordInv, Threads
  <1>2. LockInv /\ RecordInv /\ [Next]_vars => RecordInv'
    BY RecordStep
  <1>3. RecordInv => RecordsExist
    BY DEF RecordInv, RecordsExist
  <1> QED BY <1>1, <1>2, <1>3, LocksHeld, PTL DEF Spec

(* A read is of a file, and files have a place.                            *)
ReadInv ==
    /\ place \in [Files -> Int]
    /\ DOMAIN reading = Readers
    /\ \A r \in Readers : reading[r] # None => reading[r].file \in Files
    /\ ReadsCurrentExtents

(* Every step keeps ReadInv: only ReplaceExtentList moves extents, and it  *)
(* waits until the file has no readers.                                    *)
LEMMA ReadStep == LockInv /\ ReadInv /\ [Next]_vars => ReadInv'
  <1> SUFFICES ASSUME LockInv, ReadInv, [Next]_vars PROVE ReadInv'
    OBVIOUS
  <1>1. CASE UNCHANGED <<place, reading>>
    BY <1>1 DEF ReadInv, ReadsCurrentExtents
  <1>2. ASSUME NEW r \in Readers, NEW f \in Files, StartRead(r, f) PROVE ReadInv'
    BY <1>2 DEF StartRead, ReadInv, ReadsCurrentExtents
  <1>3. ASSUME NEW r \in Readers, EndRead(r) PROVE ReadInv'
    BY <1>3 DEF EndRead, ReadInv, ReadsCurrentExtents
  <1>4. CASE ReplaceExtentList
    <2>1. file[gc] \in Files
      BY <1>4, FileLocksAssumption
         DEF ReplaceExtentList, At, LockInv, Threads, Migrating
    <2> QED BY <1>4, <2>1 DEF ReplaceExtentList, ReadInv, ReadsCurrentExtents
  <1>5. ASSUME NEW w \in Writers, NEW f \in Files, StartOpen(w, f) \/ StartDelete(w, f)
        PROVE  UNCHANGED <<place, reading>>
    BY <1>5 DEF StartOpen, StartDelete
  <1>6. ASSUME NEW w \in Writers, FlushBuffer(w) \/ CreateOrUpdateRecord(w) \/ Locks(w) \/ Steps(w)
        PROVE  UNCHANGED <<place, reading>>
    BY <1>6 DEF Locks, Steps, FlushBuffer, CreateOrUpdateRecord, OpenWritableFile,
                AllocateIOZone, PersistMetadata, CloseWR, DeleteFile, AcquireWRLock,
                TakeBuffer, ReturnBuffer
  <1>7. CASE \/ GCWorker \/ GCLocks \/ TryAcquireWRLock \/ TakeMigrateZone \/ CheckFile
             \/ WriteLock \/ ReleaseWRLock \/ EndOfIteration
    <2>1. UNCHANGED <<place, reading>>
      BY <1>7 DEF GCWorker, GCLocks, GetZenFSSnapshot, GetFile, SyncFileMetadata,
                  TryAcquireWRLock, TakeMigrateZone, CheckFile, WriteLock, ReleaseWRLock,
                  EndOfIteration
    <2> QED BY <1>1, <2>1
  <1>8. CASE UNCHANGED vars
    BY <1>1, <1>8 DEF vars
  <1> QED BY <1>1, <1>2, <1>3, <1>4, <1>5, <1>6, <1>7, <1>8 DEF Next, GCSteps

(* A migration does not move the extents that a reader is in the middle of *)
(* reading.                                                                *)
THEOREM ReadersUndisturbed == Spec => []ReadsCurrentExtents
  <1>1. Init => ReadInv
    BY DEF Init, ReadInv, ReadsCurrentExtents
  <1>2. ReadInv => ReadsCurrentExtents
    BY DEF ReadInv
  <1> QED BY <1>1, <1>2, ReadStep, LocksHeld, PTL DEF Spec

-----------------------------------------------------------------------------
(* The pool of buffers stays finite, so that it can be counted.            *)
TypeInv == TypeOK /\ IsFiniteSet(buffers)

(* A writer that takes a buffer finds one, and one that returns its buffer *)
(* makes the pool no larger.                                               *)
LEMMA PoolSize ==
    ASSUME IsFiniteSet(buffers), Cardinality(buffers) <= MaxBuffers, NEW w,
           \/ Cardinality(buffers) < MaxBuffers /\ buffers' = buffers \cup {w}
           \/ buffers' = buffers \ {w}
    PROVE  IsFiniteSet(buffers') /\ Cardinality(buffers') <= MaxBuffers
  <1>1. Cardinality(buffers) \in Nat
    BY FS_CardinalityType
  <1>2. /\ IsFiniteSet(buffers \cup {w})
        /\ \/ Cardinality(buffers \cup {w}) = Cardinality(buffers)
           \/ Cardinality(buffers \cup {w}) = Cardinality(buffers) + 1
    <2>1. CASE w \in buffers
      BY <2>1, FS_AddElement
    <2>2. CASE w \notin buffers
      BY <2>2, FS_AddElement
    <2> QED BY <2>1, <2>2
  <1>3. /\ IsFiniteSet(buffers \ {w})
        /\ \/ Cardinality(buffers \ {w}) = Cardinality(buffers)
           \/ Cardinality(buffers \ {w}) = Cardinality(buffers) - 1
    BY FS_RemoveElement
  <1>4. MaxBuffers \in Nat
    BY FileLocksAssumption
  <1>5. CASE Cardinality(buffers) < MaxBuffers /\ buffers' = buffers \cup {w}
    BY <1>1, <1>2, <1>4, <1>5
  <1>6. CASE buffers' = buffers \ {w}
    BY <1>1, <1>3, <1>4, <1>6
  <1> QED BY <1>5, <1>6

(* Opening takes files_mtx_ when it is free, and gives it up with a buffer *)
(* in hand.                                                                *)
LEMMA OpenType ==
    ASSUME LockInv, TypeInv, NEW w \in Writers, NEW f \in Files,
           StartOpen(w, f) \/ OpenWritableFile(w) \/ AcquireWRLock(w) \/ TakeBuffer(w)
    PROVE  TypeInv'
  <1>0. TakeBuffer(w) => IsFiniteSet(buffers') /\ Cardinality(buffers') <= MaxBuffers
    <2>1. TakeBuffer(w) => Cardinality(buffers) < MaxBuffers /\ buffers' = buffers \cup {w}
      BY DEF TakeBuffer
    <2>2. IsFiniteSet(buffers) /\ Cardinality(buffers) <= MaxBuffers
      BY DEF TypeInv, TypeOK
    <2> QED BY <2>1, <2>2, PoolSize
  <1> USE FileLocksAssumption DEF TypeInv, TypeOK, LockInv, Threads, Points, Owning, At, Goto
  <1>1. CASE StartOpen(w, f)
    BY <1>1 DEF StartOpen
  <1>2. CASE OpenWritableFile(w)
    BY <1>2 DEF OpenWritableFile
  <1>3. CASE AcquireWRLock(w)
    BY <1>3 DEF AcquireWRLock
  <1>4. CASE TakeBuffer(w)
    BY <1>4, <1>0 DEF TakeBuffer
  <1> QED BY <1>1, <1>2, <1>3, <1>4

(* Writing, closing and deleting only pass through files_mtx_ and          *)
(* alloc_mutex_.                                                           *)
LEMMA WriteType ==
    ASSUME LockInv, TypeInv, NEW w \in Writers, NEW f \in Files,
           \/ FlushBuffer(w) \/ AllocateIOZone(w) \/ PersistMetadata(w)
           \/ CreateOrUpdateRecord(w) \/ CloseWR(w) \/ ReturnBuffer(w)
           \/ StartDelete(w, f) \/ DeleteFile(w)
    PROVE  TypeInv'
  <1>0. ReturnBuffer(w) => IsFiniteSet(buffers') /\ Cardinality(buffers') <= MaxBuffers
    <2>1. ReturnBuffer(w) => buffers' = buffers \ {w}
      BY DEF ReturnBuffer
    <2>2. IsFiniteSet(buffers) /\ Cardinality(buffers) <= MaxBuffers
      BY DEF TypeInv, TypeOK
    <2> QED BY <2>1, <2>2, PoolSize
  <1> USE FileLocksAssumption DEF TypeInv, TypeOK, LockInv, Threads, Points, Owning, At, Goto
  <1>1. CASE FlushBuffer(w) \/ AllocateIOZone(w) \/ PersistMetadata(w)
    BY <1>1 DEF FlushBuffer, AllocateIOZone, PersistMetadata, RecordByPolicy
  <1>2. CASE CreateOrUpdateRecord(w)
    BY <1>2 DEF CreateOrUpdateRecord
  <1>3. CASE CloseWR(w)
    BY <1>3 DEF CloseWR
  <1>4. CASE ReturnBuffer(w)
    BY <1>4, <1>0 DEF ReturnBuffer
  <1>5. CASE StartDelete(w, f)
    BY <1>5 DEF StartDelete
  <1>6. CASE DeleteFile(w)
    BY <1>6 DEF DeleteFile
  <1> QED BY <1>1, <1>2, <1>3, <1>4, <1>5, <1>6

(* The GC worker has alloc_mutex_ for the whole of an iteration.           *)
LEMMA GCType ==
    ASSUME LockInv, TypeInv, GCWorker \/ GCLocks \/ GCSteps
    PROVE  TypeInv'
  <1> USE FileLocksAssumption DEF TypeInv, TypeOK, LockInv, Threads, Points, Migrating, At, Goto
  <1>1. CASE GCWorker \/ EndOfIteration
    BY <1>1 DEF GCWorker, EndOfIteration
  <1>2. CASE GetZenFSSnapshot \/ GetFile
    BY <1>2 DEF GetZenFSSnapshot, GetFile
  <1>3. CASE TryAcquireWRLock \/ ReleaseWRLock
    BY <1>3 DEF TryAcquireWRLock, ReleaseWRLock
  <1>4. CASE WriteLock \/ ReplaceExtentList \/ SyncFileMetadata
    BY <1>4 DEF WriteLock, ReplaceExtentList, SyncFileMetadata
  <1>5. CASE TakeMigrateZone \/ CheckFile
    BY <1>5 DEF TakeMigrateZone, CheckFile, RecordByPolicy
  <1> QED BY <1>1, <1>2, <1>3, <1>4, <1>5 DEF GCLocks, GCSteps

(* Every step keeps TypeInv.                                               *)
LEMMA TypeStep == LockInv /\ TypeInv /\ [Next]_vars => TypeInv'
  <1> SUFFICES ASSUME LockInv, TypeInv, [Next]_vars PROVE TypeInv'
    OBVIOUS
  <1>1. CASE UNCHANGED <<pc, file, filesMtx, allocMtx, wr, buffers, exists, recorded, todo>>
    BY <1>1 DEF TypeInv, TypeOK
  <1>2. ASSUME NEW w \in Writers, NEW f \in Files, StartOpen(w, f) \/ StartDelete(w, f)
        PROVE  TypeInv'
    BY <1>2, OpenType, WriteType
  <1>3. ASSUME NEW w \in Writers, FlushBuffer(w) \/ CreateOrUpdateRecord(w) \/ Locks(w) \/ Steps(w)
        PROVE  TypeInv'
    BY <1>3, FileInHand, OpenType, WriteType DEF Locks, Steps
  <1>4. ASSUME NEW r \in Readers, EndRead(r) \/ \E f \in Files : StartRead(r, f)
        PROVE  TypeInv'
    <2>1. UNCHANGED <<pc, file, filesMtx, allocMtx, wr, buffers, exists, recorded, todo>>
      BY <1>4 DEF EndRead, StartRead
    <2> QED BY <1>1, <2>1
  <1>5. CASE GCWorker \/ GCLocks \/ GCSteps
    BY <1>5, GCType
  <1>6. CASE UNCHANGED vars
    BY <1>1, <1>6 DEF vars
  <1> QED BY <1>2, <1>3, <1>4, <1>5, <1>6 DEF Next

(* files_mtx_ is held exactly by the writer that waits for a WR lock or a  *)
(* buffer, alloc_mutex_ exactly by a GC worker in an iteration, and never  *)
(* are there more write buffers than max_buffer_count.                     *)
THEOREM MutexesHeld == Spec => []TypeOK
  <1>1. Init => TypeInv
    BY FileLocksAssumption, FS_EmptySet DEF Init, TypeInv, TypeOK, Threads
  <1>2. LockInv /\ TypeInv /\ [Next]_vars => TypeInv'
    BY TypeStep
  <1>3. TypeInv => TypeOK
    BY DEF TypeInv
  <1> QED BY <1>1, <1>2, <1>3, LocksHeld, PTL DEF Spec

=============================================================================

\* Two writers, a reader and the GC worker; the migrated file may fail to close,
\* another file may be reopened.
SPECIFICATION FairSpec
CONSTANTS
    Writers = {w1, w2}
    Readers = {r1}
    Files = {f1, f2}
    Migratable = {f1}
    Reopenable = {f2}
    CloseFails = {f1}
    MaxBuffers = 2
    EnableGC = TRUE
    gc = gc
    None = None
INVARIANTS TypeOK WriterOwnsFile ReadsCurrentExtents LockInv
PROPERTY CallsReturn

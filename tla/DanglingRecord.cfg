\* A file that is migrated and deleted at the same time.
SPECIFICATION Spec
CONSTANTS
    Writers = {w1}
    Readers = {r1}
    Files = {f1}
    Migratable = {f1}
    Reopenable = {}
    CloseFails = {}
    MaxBuffers = 1
    EnableGC = TRUE
    gc = gc
    None = None
INVARIANT RecordsAlive

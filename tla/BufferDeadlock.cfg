SPECIFICATION FairSpec
CONSTANTS
    Writers = {w1, w2}
    Readers = {}
    Files = {f1, f2}
    Migratable = {}
    Reopenable = {}
    MaxBuffers = 1
    CloseFails = {}
    EnableGC = FALSE
    gc = gc
    None = None
PROPERTY OpensReturn
CHECK_DEADLOCK FALSE

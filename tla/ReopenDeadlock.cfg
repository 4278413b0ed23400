SPECIFICATION FairSpec
CONSTANTS
    Writers = {w1, w2}
    Readers = {}
    Files = {f1}
    Migratable = {f1}
    Reopenable = {f1}
    MaxBuffers = 2
    CloseFails = {}
    EnableGC = TRUE
    gc = gc
    None = None
PROPERTY OpensReturn
CHECK_DEADLOCK FALSE

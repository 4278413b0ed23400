\* Crashes between any two steps, with garbage collection and failing commands; Open
\* and Mount rebuild the counters.  A failed close keeps its open token, so that
\* everybody may end up waiting for one.
SPECIFICATION Spec
CONSTANTS
  NrZones = 2
  MaxCapacity = 2
  w1 = w1
  w2 = w2
  w3 = w3
  s1 = s1
  Writers = {w1, w2}
  WALWriters = {w1}
  DirectWriters = {w1}
  Sweepers = {s1}
  GC = gc
  EnableGC = TRUE
  MaxOpen = 2
  MaxActive = 1
  Reserve = 1
  FinishThreshold = 0
  MaxAppend = 1
  MaxCrashes = 1
  ScansMiss = TRUE
  Faults = {"close", "append", "reset"}
INVARIANT ActiveZonesWithinLimit
PROPERTY LiveDataKept
CHECK_DEADLOCK FALSE

\* An active token is lost when an append fills its zone exactly.
SPECIFICATION Spec
CONSTANTS
  NrZones = 2
  MaxCapacity = 2
  w1 = w1
  w2 = w2
  w3 = w3
  s1 = s1
  Writers = {w1, w2}
  WALWriters = {w1}
  DirectWriters = {}
  Sweepers = {s1}
  GC = gc
  EnableGC = FALSE
  MaxOpen = 2
  MaxActive = 2
  Reserve = 0
  FinishThreshold = 0
  MaxAppend = 2
  MaxCrashes = 0
  ScansMiss = FALSE
  Faults = {}
INVARIANT ActiveTokensReturned

\* Zones go offline at a reset and writes of migrations are lost.
SPECIFICATION Spec
CONSTANTS
  NrZones = 2
  MaxCapacity = 2
  w1 = w1
  w2 = w2
  w3 = w3
  s1 = s1
  Writers = {w1, w2}
  WALWriters = {w1}
  DirectWriters = {w1}
  Sweepers = {s1}
  GC = gc
  EnableGC = TRUE
  MaxOpen = 2
  MaxActive = 1
  Reserve = 1
  FinishThreshold = 100
  MaxAppend = 1
  MaxCrashes = 0
  ScansMiss = FALSE
  Faults = {"offline", "migrate", "finish"}
INVARIANT TypeOK
INVARIANT ZoneExclusive
INVARIANT ResetOnlyUnused
INVARIANT AppendHasRoom


\* A direct and a buffered writer, fair scheduling.
SPECIFICATION FairSpec
CONSTANTS
  NrZones = 2
  MaxCapacity = 2
  w1 = w1
  w2 = w2
  w3 = w3
  s1 = s1
  Writers = {w1, w2}
  WALWriters = {w1}
  DirectWriters = {w1}
  Sweepers = {s1}
  GC = gc
  EnableGC = FALSE
  MaxOpen = 2
  MaxActive = 1
  Reserve = 0
  FinishThreshold = 0
  MaxAppend = 2
  MaxCrashes = 0
  ScansMiss = FALSE
  Faults = {}
PROPERTY AllocationReturnsUnlessLost

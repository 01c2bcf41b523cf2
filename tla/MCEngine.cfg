SPECIFICATION Spec
CONSTANTS
  Writes = {w1, w2, w3}
  Snapshotters = {s1, s2}
  Readers = {r1}
  MaxCrashes = 1
  Faults = {}
  SegmentSize = 0
  WaitersCap = 2
  MaxSize = 0
INVARIANTS
  AckedDurable
  
  LogCovered
  QueriesComplete
PROPERTY
  KeepsPromise

SPECIFICATION FairSpec
CONSTANTS
  Writes = {w1, w2, w3}
  Snapshotters = {s1}
  Readers = {r1}
  MaxCrashes = 0
  Faults = {"snapshotFails"}
  SegmentSize = 1
  WaitersCap = 1
  MaxSize = 2
INVARIANTS
  QueriesComplete
PROPERTIES
  WritesReturn
  AckedFiled

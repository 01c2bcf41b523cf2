SPECIFICATION Spec
CONSTANTS
  Writes = {w1, w2}
  Snapshotters = {s1}
  Readers = {}
  MaxCrashes = 1
  Faults = {"snapshotFails"}
  SegmentSize = 0
  WaitersCap = 2
  MaxSize = 0
INVARIANT
  AckedDurable
CHECK_DEADLOCK FALSE

SPECIFICATION FairSpec
CONSTANTS
  r1 = r1
  r2 = r2
  Requests = {r1, r2}
  Executions <- MCExecutions
  Timed <- FirstRequest
  NameOf <- CheckName
  Key <- OneKey
  ExecFaults = {"fork fails", "slow start", "slow timer", "daemon"}
  Unencodable = {r2}
  QueueCap = 1
  Overlapping = FALSE
INVARIANTS
  KilledIsTimeout
  ReportIsTrue
  
  
PROPERTIES
  ExecutionEnds
  EventIsSent
CHECK_DEADLOCK FALSE

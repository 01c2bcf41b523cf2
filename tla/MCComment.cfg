SPECIFICATION Spec
CONSTANTS
  Width = 2
  MaxDigits = 4
  Pow10 <- MCPow10
  Second = 4
  Millisecond = 2
  Microsecond = 1
  Minute = 8
  Hour = 16
  MinNanoTime <- MCMin
  MaxNanoTime <- MCMax
  Null = Null
  CommentNames = {"#cpu"}
  LongNames = {"longname"}
  Conflicts <- MCConflicts
  GroupDuration = 200
  NoMsg = NoMsg
  BadAddrs = {"ftp://host"}
  DefaultAddr = "http://localhost:8086"
  ServerAddr = "http://localhost:8086"
  Databases = {"sensu"}
  AuthEnabled = TRUE
  Authenticated = {"bob", "guest"}
  Writers = {"bob"}
  MaxBodySize = 3
  RetentionStarts <- MCRetention
  Procs = {p1}
  Invocations <- MCComment
INVARIANT
  EveryPointStored
CHECK_DEADLOCK FALSE

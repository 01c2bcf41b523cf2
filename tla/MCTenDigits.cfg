SPECIFICATION Spec
CONSTANTS
  Width = 3
  MaxDigits = 5
  Pow10 <- MCPow10
  Second = 12
  Millisecond = 4
  Microsecond = 2
  Minute = 60
  Hour = 720
  MinNanoTime <- MCMin
  MaxNanoTime <- MCMax
  Stamps <- MCFewStamps
  Precisions <- MCPrecisions
INVARIANT
  TenDigitsKept
CHECK_DEADLOCK FALSE

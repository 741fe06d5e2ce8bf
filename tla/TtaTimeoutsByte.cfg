SPECIFICATION TimeSpec
CONSTANTS
  Unit = 3
  Timeouts <- MCTimeouts
  ByteTimes <- MCNoByteTime
  RfGap = 2
  Rfs = {FALSE}
  Delays = {0, 1}
INVARIANT WaitsInFull
CHECK_DEADLOCK FALSE

SPECIFICATION TimeFairSpec
CONSTANTS
  Unit = 3
  Timeouts <- MCOneSecond
  ByteTimes = {1}
  RfGap = 2
  Rfs = {FALSE}
  Delays = {0, 1}
PROPERTY ConnectsAtLast
CHECK_DEADLOCK FALSE

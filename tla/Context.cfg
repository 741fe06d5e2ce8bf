SPECIFICATION MCSpec
CONSTANTS
  h1 = h1
  h2 = h2
  Headers <- MCHeaders
  Lengths = {0, 249, 250, 300}
  Overhead = 7
  MaxAdu = 256
  Ids = {1, 2, 3}
  MaxTries = 2
  MaxFd = 4
  Backends = {"tcp", "rs485", "rf"}
  Unit = 3
  Timeouts <- MCTimeouts
  ByteTimes <- MCByteTimes
  RfGap = 2
  Rfs = {TRUE, FALSE}
  Delays = {0, 1}
  Length = 9
  Values = {0, 37, 165}
  Floats <- MCFloats
INVARIANTS
  HeapExact
  SaidWhole
  NoLeak
  OnTime
  StoredIsKept
PROPERTY
  OthersKept
CHECK_DEADLOCK FALSE

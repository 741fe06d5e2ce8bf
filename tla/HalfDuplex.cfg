SPECIFICATION MCSpec
CONSTANTS
  d1 = d1
  d2 = d2
  c1 = c1
  c2 = c2
  None = None
  Original = Original
  Absent = Absent
  Slaves <- MCSlaves
  Commands <- MCCommands
  Recoveries = {TRUE, FALSE}
  Filter = TRUE
  MaxRequests = 3
  MaxLost = 1
  Cap = 3
  DriveLevel = TRUE
  Setups <- MCSetups
  Frames = {1, 2, 3, 4}
  Links = {TRUE, FALSE}
  Sleep = 3
  Lag = 2
  Answer = 2
  MaxFaults = 2
  Devices = {"empty", "fits", "long"}
  Bauds = {1200, 9600, 12345}
  Speeds = {1200, 9600}
  Modes = {"none", "up", "down"}
  x1 = x1
  x2 = x2
  Nobody = Nobody
  Channels = {0, 1}
  Powers = {1}
  Results = {1, 2}
  CalStart = 32
  PollLimit = 3
  CalPolls = 5
  RfLinks = {TRUE, FALSE}
  Preamble = 2
  FrameTicks = 4
  Tries = 2
  SendLimit = 6
  SendGap = 2
  RecvGap = 3
  ResponseTimeout = 10
  Turnaround = 3
  MaxOthers = 3
  Contexts <- MCContexts
  Locked = TRUE
  MaxPackets = 6
INVARIANTS
  FromRequestedSlave
  AnswersThisRequest
  LineReleased
  FrameDriven
  NoCollision
  SentOnce
  PortKept
  Calibrated
  CalRestored
  AsAsked
  TurnsInTime
  RfSentOnce
  OwnPacket
PROPERTIES
  SendReturns
  CallsReturn
CHECK_DEADLOCK FALSE

SPECIFICATION MCSpec
CONSTANTS
  Parts = {"stream", "serial"}
  HeaderLen = 2
  ChecksumLen = 0
  MaxAdu = 4
  CheckIntegrity <- MCNoCheck
  Byte <- MCByte
  Frames <- MCTcpFramesAndOversize
  RecoveryModes <- MCAllModes
  Serial = FALSE
  Prompt = FALSE
  MaxSent = 2
  MaxLost = 0
INVARIANTS
  TypeOK
  BufferBound
  FrameExact
  SerialBufferBound
PROPERTIES
  TimedReceiveReturns
  SerialReceiveReturns
CHECK_DEADLOCK FALSE

SPECIFICATION MCSpec
CONSTANTS
  Parts = {"stream"}
  HeaderLen = 2
  ChecksumLen = 0
  MaxAdu = 4
  CheckIntegrity <- MCNoCheck
  Byte <- MCByte
  Frames <- MCTcpFrames
  RecoveryModes <- MCLinkModes
  Serial = FALSE
  Prompt = TRUE
  MaxSent = 3
  MaxLost = 0
INVARIANT AlignedStart
PROPERTY ImplementsChannel

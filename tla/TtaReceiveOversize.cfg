SPECIFICATION Spec
CONSTANTS
  HeaderLen = 2
  ChecksumLen = 0
  MaxAdu = 4
  CheckIntegrity <- MCNoCheck
  Byte <- MCByte
  Frames <- MCTcpFramesAndOversize
  RecoveryModes <- MCBothModes
  Serial = FALSE
  Prompt = TRUE
  MaxSent = 3
  MaxLost = 0
INVARIANT AlignedStart

SPECIFICATION FairSpec
CONSTANTS
  FrameLen = 3
  RxDepth = 4
  TxDepth = 2
  D1 = D1
  OtherDevice = other
  Drives <- MCDrives
  SectorLens <- MCSectorLens
  MaxFrames = 1
  MaxResets = 1
PROPERTY PollReturns
CHECK_DEADLOCK FALSE

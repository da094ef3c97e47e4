SPECIFICATION HSpec
CONSTANTS
  FrameLen = 3
  RxDepth = 4
  TxDepth = 2
  D1 = D1
  OtherDevice = other
  Drives <- MCDrives
  SectorLens <- MCSectorLens
  MaxFrames = 3
  MaxResets = 0
INVARIANT LastFrameFound
CHECK_DEADLOCK FALSE

SPECIFICATION FairSpec
CONSTANTS
  FrameLen = 3
  RxDepth = 4
  TxDepth = 2
  D1 = D1
  OtherDevice = other
  Drives <- MCDrives
  SectorLens <- MCSectorLens
  MaxFrames = 3
  MaxResets = 1
INVARIANTS TypeOK NoForgedFrame
PROPERTIES ServiceSpec PollReturnsUnlessReset
CHECK_DEADLOCK FALSE

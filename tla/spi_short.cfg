SPECIFICATION Spec
CONSTANTS
  QueueDepth = 2
  Quad = 2
  BootFiles <- MCBootFiles
  SdramLen = 4
  SweepLens <- MCSweepLens
  MaxAttempts = 3
  MaxResets = 0
  MaxReads = 0
  MaxErrors = 1
INVARIANT BootLoadsFiles

SPECIFICATION Spec
CONSTANTS
  QueueDepth = 2
  Quad = 2
  BootFiles <- MCBootFiles
  SdramLen = 4
  SweepLens <- MCSweepLens
  MaxAttempts = 3
  MaxResets = 2
  MaxReads = 2
  MaxErrors = 1
INVARIANTS TypeOK CleanLoadIsWritten QuietBootLoadsFiles

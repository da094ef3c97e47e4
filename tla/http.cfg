SPECIFICATION Spec
CONSTANTS
  Conns = {c1, c2}
  Paths = {f}
  BodyLens = {0, 2}
  HdrMax = 2
  SndBuf = 2
  PageLen = 3
  MaxReqs = 2
  MaxFaults = 1
INVARIANTS TypeOK SlotHasOneOwner NeverTouchesFreed
PROPERTIES UploadOkIsStored Answered SlotFreed
CHECK_DEADLOCK FALSE

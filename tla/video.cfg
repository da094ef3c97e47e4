SPECIFICATION Spec
CONSTANTS
  SrcH = 3
  RowQuads = 6
  BatchLen = 3
  FifoDepth = 1
  XStart = 2
  VSkip = 1
  VActive = 7
  VTotal = 8
  NumBanks = 2
  CoreLines = {2}
  ResetLines = {3}
  Faults = {"menu", "reset", "drop", "late", "mix", "load"}
INVARIANTS
  TypeOK
  ShownRowIsRight
  ReadsFinishedCaptures
  NoPortStarves

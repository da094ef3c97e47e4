SPECIFICATION Spec
CONSTANTS
  IdCode <- MCIdCode
  Images <- MCImages
  FileBytes <- MCFileBytes
  StartTicks = 2
  FlashSector = 2
  StageMax = 6
  Packet = 64
  ShiftMax = 2
  ReadBuf = 2
  ClearTicks = 1
  QueuePackets = 1
  HostImages = {"a"}
  MaxOps = 3
INVARIANTS TypeOK ReadbackInOrder StagedIsWhole StagedIsNewest FlashConfigures FirstIdcodeGenuine
PROPERTIES NoNeedlessErase
CHECK_DEADLOCK FALSE

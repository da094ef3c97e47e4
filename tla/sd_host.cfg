SPECIFICATION Spec
CONSTANTS
  SS = 4
  CSize = 1
  NFatEnt = 10
  NFats = 1
  VolBase = 1
  Sfn <- MCSfn
  Lossy <- MCLossy
  LfnEnts <- MCLfnEnts
  CfgPath <- MCCfg
  ImgPath <- MCImg
  FilePaths <- MCFiles
  DirPaths <- MCDirs
  HostPath <- MCHost
  HostWaits = FALSE
  FileLen = 6
  ChunkLens = {3, 5}
  MaxOps = 3
  MaxFaults = 0
  MaxFuse = 16
INVARIANT Durable
CHECK_DEADLOCK FALSE

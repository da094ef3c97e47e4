SPECIFICATION Spec
CONSTANTS
  SS = 4
  CSize = 1
  NFatEnt = 10
  NFats = 1
  VolBase = 1
  Sfn <- MCSfn
  Lossy <- MCLossy
  LfnEnts <- MCLfnEnts
  CfgPath <- MCCfg
  ImgPath <- MCImg
  FilePaths <- MCFiles
  DirPaths <- MCDirs
  HostPath <- MCHost
  HostWaits = TRUE
  FileLen = 6
  ChunkLens = {3, 5}
  MaxOps = 4
  MaxFaults = 1
  MaxFuse = 16
INVARIANTS TypeOK CardSound Durable OpenFilesOwnTheirChains SectorsAreOfTheImage ListingTrue
CHECK_DEADLOCK FALSE

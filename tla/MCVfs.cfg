\* Volumes of three clusters with every FAT; up to three failing reads.
CONSTANTS
  SectorSize = 2
  FatPerSector = 4
  DirPerSector = 2
  MinClusters = 3
  MaxClusters = 4
  Word = 1000
  ShortName <- MCShortName
  Paths <- MCPaths
  Capacities = {8}
  MaxGlitches = 3
  Disks <- MCDisks
SPECIFICATION Spec
INVARIANT DiskIsTrue
PROPERTY EveryCallEnds

SPECIFICATION FairSpec
CONSTANTS
  Disks <- MCDisks
  Names <- MCNames
  Nib = 3
  BytsPerSec = 4
  FATSz = 3
  SecPerTrk = 5
  RootDirSectors = 2
  TotSec = 14
  EntriesPerSector = 2
  Clusters <- MCClusters
  SegHalves = 6
INVARIANTS
  TypeOK
  MemoryHoldsFile
PROPERTIES
  LoadsAsPromised
  LoadEnds

SPECIFICATION Spec
CONSTANTS
  Procs = {p1, p2}
  Descs = {d1}
  W = 16
  SectorSize = 2
  BlockSize = 4
  NDirect = 1
  Disk <- DiskImage
  Contents <- Stored
  InodesPerGroup = 3
  InodeSize = 6
  GroupTable = 2
  Paths <- PathsUsed
  Asks = {1, 5, 15}
  Offsets = {2, 7, 15}
  MaxCalls = 3
  None = None
INVARIANTS DeliversTheFile  AloneReadsInOrder
PROPERTIES EveryReadReturns
CHECK_DEADLOCK FALSE

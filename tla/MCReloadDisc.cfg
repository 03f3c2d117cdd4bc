SPECIFICATION Spec
CONSTANTS
  Device <- MCDevice
  Disc = {game}
  FragSize <- MCFragSize
  MaxFragList = 8
  Offset <- MCOffset
  ReadOffset <- MCOffset
  LoaderBit = {}
  DualLayer <- MCDualLayer
  Title = {title1}
  FatDevice = {}
  Partition <- MCPartition
  Path = {path}
  None = None
  Partial = Partial
INVARIANTS
  EmulationIsSaved
  FilesReadOnce
PROPERTIES
  ReloadKeepsPromise

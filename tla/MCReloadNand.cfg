SPECIFICATION Spec
CONSTANTS
  Device = {}
  Disc = {}
  FragSize <- MCFragSize
  MaxFragList = 8
  Offset <- MCOffset
  ReadOffset <- MCOffset
  LoaderBit = {}
  DualLayer <- MCDualLayer
  Title = {title1, title2}
  FatDevice = {sd}
  Partition <- MCPartition
  Path = {path}
  None = None
  Partial = Partial
INVARIANTS
  EsRequestIsOurs
  ReloadingTitleKept
PROPERTIES
  ReloadKeepsPromise

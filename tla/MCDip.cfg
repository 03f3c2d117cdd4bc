SPECIFICATION DipSpec
CONSTANTS
  Device <- MCDevice
  Disc = {game}
  FragSize <- MCFragSize
  MaxFragList = 8
  Offset <- MCOffset
  ReadOffset <- MCReadOffset
  LoaderBit <- MCLoaderBit
  DualLayer = {7}
  None = None
INVARIANTS
  ModeIsBacked
  SnapshotMatchesSource
PROPERTIES
  TitleCannotSwitchDisc

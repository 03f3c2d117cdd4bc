SPECIFICATION FfsSpec
CONSTANTS
  Client = {es, game}
  Es = es
  Dip = dip
  Fs = fs
  Path <- MCPath
  Folder = {root}
  Root = root
  Fd = {d1, d2}
  MaxFatFd = 1
  MaxTids = 8
  None = None
SYMMETRY FfsSymmetry
INVARIANTS
  OldFilesForgotten
  EmulationAuthorised
PROPERTIES
  HashAloneReal
  TitleCannotSwitchNand

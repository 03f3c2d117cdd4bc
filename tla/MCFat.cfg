SPECIFICATION FatSpec
CONSTANTS
  Drive = {sd, usb}
  Partition = {p0, p1}
  Fil = {f1, f2}
  MaxId = 3
  None = None
SYMMETRY FatSymmetry
INVARIANTS
  FileStaysPut
  WindowGoesHome
  VolumeHasPartition

SPECIFICATION VolSpec
CONSTANTS
  a = a
  b = b
  Name = {a, b}
  Long = {b}
  Stamp = {x}
  Fil = {f}
  NClust = 4
  Csize = 1
  PerFat = 8
  PerSect = 2
  Unit = 2
  Path <- Deep
  Folder <- Roots
  Modes = {}
  Lens = {}
  Offsets = {}
  MaxAccess = 3
  MaxFault = 1
  Faults = {"cut"}
  None = None
VIEW State
INVARIANTS
  FatVolTypeOK
  NoLostCluster
PROPERTIES
  KeepsPromise

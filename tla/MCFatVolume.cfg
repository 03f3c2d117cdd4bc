SPECIFICATION VolSpec
CONSTANTS
  a = a
  b = b
  Name = {a, b}
  Long = {}
  Stamp = {x}
  Fil = {f}
  NClust = 3
  Csize = 1
  PerFat = 3
  PerSect = 2
  Unit = 2
  Path <- Roots
  Folder <- NoPath
  Modes = {{"R", "W"}, {"R", "W", "ALWAYS"}}
  Lens = {3}
  Offsets = {0, 1, 2, 3}
  MaxAccess = 3
  MaxFault = 1
  Faults = {"cut"}
  None = None
VIEW State
INVARIANTS
  NoCrossLink
  WindowIsCopy
PROPERTIES
  KeepsPromise

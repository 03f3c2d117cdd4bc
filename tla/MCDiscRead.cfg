SPECIFICATION Spec
CONSTANTS
  Card = {sdhc, sd}
  Rca = {a1, a2}
  Sdhc = {sdhc}
  Sector = {5}
  Tries = 2
  MaxFault = 1
  MaxSwap = 1
  None = None
  Words = 2
  DvdWords = 4
  MaxDma = 4
  DmaEnd = 12
  Align = 2
  IdxChunk = 2
  FragLists <- MCFragLists
  Request <- MCRequest
  DvdRequest <- MCDvdRequest
SYMMETRY Alike
VIEW View
INVARIANTS
  MovedIsAsked
  CardReleased
  StartedAgrees
  DiscReadTrue

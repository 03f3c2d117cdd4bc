SPECIFICATION PathsSpec
CONSTANTS
  title = title
  ticket = ticket
  meta = meta
  import = import
  sys = sys
  tmp = tmp
  dev = dev
  launch_sys = launch_sys
  uid_sys = uid_sys
  disc_sys = disc_sys
  id = id
  colon = colon
  escapedColon = escapedColon
  Titles = {id}
  Tickets = {}
  Path <- MCPath
  Escaped <- MCEscaped
  Stamp = {x}
  Fil = {h}
  MaxLen = 2
  UnitBlocks = 8000
  MaxFault = 1
  Off = Off
PROPERTIES
  NandKeepsPromise
  ContentKept
VIEW State

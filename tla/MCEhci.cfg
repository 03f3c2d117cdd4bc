SPECIFICATION EhciFairSpec
CONSTANTS
  d1 = d1
  d2 = d2
  Device = {d1, d2}
  Model <- Different
  NSect = 3
  Chunk = 1
  Wrap = 3
  Value = {x}
  Uses <- Kinds
  app = app
  tool = tool
  Client = {app, tool}
  Wbfs = {d1}
  Span <- Spans
  MaxFault = 0
  Timer = TRUE
  Faults = {"gone", "lost", "late", "short", "bad"}
  None = None
VIEW State
INVARIANTS
  EhciTypeOK
  WatchdogArmed
PROPERTIES
  NoStranger
  Served

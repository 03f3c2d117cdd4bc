SPECIFICATION EhciSpec
CONSTANTS
  d1 = d1
  d2 = d2
  Device = {d1, d2}
  Model <- Different
  NSect = 3
  Chunk = 1
  Wrap = 3
  Value = {x}
  Uses <- AllKinds
  app = app
  tool = tool
  Client = {app}
  Wbfs = {d1}
  Span <- LongSpans
  MaxFault = 1
  Timer = FALSE
  Faults = {"gone", "lost", "late", "short", "bad", "failed"}
  None = None
VIEW State
INVARIANTS
  SessionAgrees
  BufferBalance
PROPERTIES
  AnswerIsTrue

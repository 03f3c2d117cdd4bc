SPECIFICATION Spec
CONSTANTS
  stick = stick
  Client = {c1, c2}
  Library = {c1}
  Dev = {d1, d2}
  ModelOf <- MCModelOf
  QueueSize = 5
  None = None
INVARIANTS
  QueueHasRoom
  MountedBeforeAsked
  NoDeviceForgotten
PROPERTIES
  ListSettles
VIEW State

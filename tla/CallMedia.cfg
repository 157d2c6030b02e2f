CONSTANTS
  Client = {a, b}
  Caller = {a}
  CallId = {k1}
  MaxMedia = 2
  MaxLosses = 0
  None = None
SPECIFICATION Spec
INVARIANTS MediaReleased
CHECK_DEADLOCK FALSE

CONSTANTS
  Client = {a, b}
  Caller = {a, b}
  CallId = {k1, k2}
  MaxMedia = 2
  MaxLosses = 1
  None = None
SPECIFICATION FairSpec
INVARIANTS TypeOK RingHasDeadline NoLateTimeout NoLoneRing
PROPERTIES RingingSettles
CHECK_DEADLOCK FALSE

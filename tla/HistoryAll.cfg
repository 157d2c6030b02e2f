CONSTANTS
  User = {a, b}
  Id = {m1, m2}
  Kinds = {"text", "once"}
  Handler = {h1}
  Poller = {p1}
  MaxQueue = 2
  MaxActs = 2
  MaxFailed = 1
  None = None
SPECIFICATION Spec
SYMMETRY Interchangeable
INVARIANTS TypeOK OpenedOnce Told Settled
PROPERTIES Kept Onward Swept
CHECK_DEADLOCK FALSE

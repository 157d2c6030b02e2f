CONSTANTS
  User = {a, b}
  Id = {m1}
  Kinds = {"text"}
  Handler = {h1}
  Poller = {p1}
  MaxQueue = 2
  MaxActs = 2
  MaxFailed = 0
  None = None
SPECIFICATION Spec
PROPERTIES HistoryPersists
CHECK_DEADLOCK FALSE

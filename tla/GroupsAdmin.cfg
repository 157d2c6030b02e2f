CONSTANTS
  Account = {a, b, c, d}
  UserTask = {u1, u2}
  PollTask = {p1, p2}
  Creator = {a}
  Remover = {a}
  MaxTexts = 0
  MaxRemovals = 2
  MaxFailures = 0
SPECIFICATION Spec
SYMMETRY Interchangeable
INVARIANTS Converged RemovedStops
CHECK_DEADLOCK FALSE

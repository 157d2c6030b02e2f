CONSTANTS
  Account = {a, b}
  UserTask = {u1, u2}
  PollTask = {p1, p2}
  Creator = {a}
  Remover = {a, b}
  MaxTexts = 2
  MaxRemovals = 1
  MaxFailures = 1
SPECIFICATION Spec
SYMMETRY Interchangeable
INVARIANTS TypeOK TextsOnce TextsInOrder
CHECK_DEADLOCK FALSE

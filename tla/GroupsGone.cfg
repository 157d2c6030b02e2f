CONSTANTS
  Account = {a, b, c}
  UserTask = {u1, u2}
  PollTask = {p1, p2}
  Creator = {a}
  Remover = {a, b}
  MaxTexts = 0
  MaxRemovals = 2
  MaxFailures = 1
SPECIFICATION FairSpec
INVARIANT OwnRoster
PROPERTY EventuallyGone
CHECK_DEADLOCK FALSE

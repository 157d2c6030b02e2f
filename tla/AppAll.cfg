CONSTANTS
  Contact = {c}
  Group = {g}
  Handler = {h1, h2}
  Poller = {p1}
  Timer = {i1, i2}
  Mounts = {1}
  MaxIdentities = 2
  None = None
SPECIFICATION FairSpec
INVARIANTS TypeOK NothingStuck AccountIsRegistered OneLoop
PROPERTIES AccountKept StaysOpen Polls
CHECK_DEADLOCK FALSE

CONSTANTS
  Account = {a1, a2}
  Device = {d1, d2, d3}
  Code = {c1}
  KeyId = {1}
  Worker = {w1, w2}
  Route = {"register", "init", "link", "unlink", "bundle"}
  MaxMessages = 0
  None = None
SPECIFICATION Spec
SYMMETRY Interchangeable
INVARIANTS TypeOK PrekeyOnce CodeOnce RevokedIsRefused
PROPERTY LinkAtomic

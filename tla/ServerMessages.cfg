CONSTANTS
  Account = {a1, a2}
  Device = {d1, d2}
  Code = {}
  KeyId = {}
  Worker = {w1, w2, w3}
  Route = {"register", "send", "fetch", "unlink"}
  MaxMessages = 2
  None = None
SPECIFICATION Spec
SYMMETRY Interchangeable
INVARIANTS Consistent HandedInOrder AtMostOnce
PROPERTY MailboxSpec

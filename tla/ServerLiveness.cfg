CONSTANTS
  Account = {a1}
  Device = {d1}
  Code = {}
  KeyId = {1}
  Worker = {w1, w2}
  Route = {"register", "send", "fetch", "bundle", "unlink"}
  MaxMessages = 1
  None = None
SPECIFICATION FairSpec
PROPERTIES RequestsFinish QueuesDrain

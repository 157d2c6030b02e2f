CONSTANTS
  Device = {a, b}
  Task = {t1, t2}
  Store = {s1, s2}
  MaxSends = 3
  MaxEvents = 1
  None = None
SPECIFICATION Spec
SYMMETRY Interchangeable
CONSTRAINT Undisturbed
INVARIANTS TypeOK KeyOnce Readable
CHECK_DEADLOCK FALSE

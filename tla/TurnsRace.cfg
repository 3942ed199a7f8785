CONSTANTS
  t1 = t1  t2 = t2  t3 = t3
  a = a  b = b  c = c  d = d  e = e
  None = None
  Threads = {t1, t2}
  Texts = {a, b, d}
  Deliveries = {d}
  Ops = {"prompt", "chat", "queue", "user", "drain", "compact", "autocompact"}
  Faults = {"fail", "reject", "storage", "precompact", "closing"}
  MaxSteps = 2
  MaxPops = 0
SPECIFICATION Spec
SYMMETRY Symmetry
INVARIANTS OneAtATime NoStaleStart
PROPERTY FateSpec
CHECK_DEADLOCK FALSE
PROPERTY LatchStops

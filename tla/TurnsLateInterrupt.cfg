CONSTANTS
  t1 = t1  t2 = t2  t3 = t3
  a = a  b = b  c = c  d = d  e = e
  None = None
  Threads = {t1, t2}
  Texts = {a, b}
  Deliveries = {}
  Ops = {"prompt", "queue", "user"}
  Faults = {}
  MaxSteps = 1
  MaxPops = 0
SPECIFICATION Spec
CHECK_DEADLOCK FALSE
INVARIANT NoStaleStartEver

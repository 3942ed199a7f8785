CONSTANTS
  t1 = t1  t2 = t2  t3 = t3
  a = a  b = b  c = c  d = d  e = e
  None = None
  Threads = {t1, t2}
  Texts = {a, b, c, d}
  Deliveries = {}
  Ops = {"prompt", "queue"}
  Faults = {}
  MaxSteps = 1
  MaxPops = 0
SPECIFICATION FairSpec
CHECK_DEADLOCK FALSE
PROPERTY InOrder

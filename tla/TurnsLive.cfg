CONSTANTS
  t1 = t1  t2 = t2  t3 = t3
  a = a  b = b  c = c  d = d  e = e
  None = None
  Threads = {t1, t2}
  Texts = {a, b}
  Deliveries = {}
  Ops = {"prompt", "queue", "user", "autocompact"}
  Faults = {"fail","oversize"}
  MaxSteps = 1
  MaxPops = 1
SPECIFICATION FairSpec
CHECK_DEADLOCK FALSE
PROPERTY QueuedLeaves

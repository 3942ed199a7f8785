CONSTANTS
  a1 = a1  a2 = a2  b1 = b1
  p = p  q = q
  None = None
  Actors = {a1, b1}
  Processes = {p, q}
  ProcessOf <- MCTwoProcesses
  Ops = {"open"}
  Faults = {}
  MaxRows = 2
SPECIFICATION Spec
CHECK_DEADLOCK FALSE
INVARIANT InSync

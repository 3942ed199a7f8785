CONSTANTS
  a1 = a1  a2 = a2  b1 = b1
  p = p  q = q
  None = None
  Actors = {a1, a2, b1}
  Processes = {p, q}
  ProcessOf <- MCProcessOf
  Ops = {"new", "open", "lock", "unlock", "prune", "archive", "delete"}
  Faults = {"disk", "kill"}
  MaxRows = 1
SPECIFICATION FairSpec
CHECK_DEADLOCK FALSE
INVARIANTS OneWriter NamesHolder NothingLeft
PROPERTIES ClaimHonoured GuardFreed

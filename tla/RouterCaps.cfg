CONSTANTS
  m1 = m1  m2 = m2  d1 = d1  d2 = d2
  Members = {m1, m2}
  Loops = {d1, d2}
  MaxEnv = 1
  HopLimit = 1
  TurnCap = 1
  MaxWorking = 1
  MaxFails = 1
  MaxRestarts = 1
  MaxPaused = 0
  MaxTyped = 0
  Inputs = {"cap","day"}
SPECIFICATION Spec
CHECK_DEADLOCK FALSE
SYMMETRY Symmetry
PROPERTIES CapsComeBack

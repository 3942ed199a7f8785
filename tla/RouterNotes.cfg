CONSTANTS
  m1 = m1  m2 = m2  d1 = d1  d2 = d2
  Members = {m1, m2}
  Loops = {d1, d2}
  MaxEnv = 5
  HopLimit = 2
  TurnCap = 1
  MaxWorking = 2
  MaxFails = 0
  MaxRestarts = 0
  MaxPaused = 0
  MaxTyped = 0
  Inputs = {"note"}
SPECIFICATION Spec
CHECK_DEADLOCK FALSE
SYMMETRY Symmetry
INVARIANTS NoNoteLost

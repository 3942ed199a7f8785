CONSTANTS
  m1 = m1  m2 = m2  d1 = d1  d2 = d2
  Members = {m1, m2}
  Loops = {d1, d2}
  MaxEnv = 2
  HopLimit = 1
  TurnCap = 1
  MaxWorking = 1
  MaxFails = 1
  MaxRestarts = 1
  MaxPaused = 1
  MaxTyped = 0
  Inputs = {"note", "fault", "cap", "day", "stop", "update"}
SPECIFICATION Spec
CHECK_DEADLOCK FALSE
SYMMETRY Symmetry
INVARIANTS OwedIsPending PausesSurvive

CONSTANTS
  m1 = m1  m2 = m2  d1 = d1  d2 = d2
  Members = {m1, m2}
  Loops = {d1, d2}
  MaxEnv = 3
  HopLimit = 1
  TurnCap = 1
  MaxWorking = 1
  MaxFails = 0
  MaxRestarts = 0
  MaxPaused = 0
  MaxTyped = 1
  Inputs = {"note", "fault", "busy"}
SPECIFICATION Spec
CHECK_DEADLOCK FALSE
SYMMETRY Symmetry
INVARIANTS NotesCounted ChainWasRead SlotsAgree

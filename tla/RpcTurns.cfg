CONSTANTS
  d1 = d1
  Doors = {d1}
  None = None
  MaxTurns = 3
  MaxAsks = 2
  MaxCalls = 4
  Kinds = {"question", "approval"}
  Inputs = {"compact", "abort", "answer", "dismiss", "eof", "over"}
SPECIFICATION FairSpec
INVARIANTS InOrder InReach AnswersAgree
PROPERTIES NotIntoLiveTurn OwnTurnOnly ReleasedEnds
CHECK_DEADLOCK FALSE

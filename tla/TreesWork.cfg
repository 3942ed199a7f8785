CONSTANTS
  s1 = s1  s2 = s2  n1 = n1
  Names = {n1}
  Owners = {s1, s2}
  None = None
  MaxCommits = 2
  Faults = {"save", "crash", "refuse", "count"}
SPECIFICATION Spec
INVARIANT NothingStranded
PROPERTIES OwnWorkKept ClaimStands
SYMMETRY Symmetry

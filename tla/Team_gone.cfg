SPECIFICATION Spec
CONSTANTS
  Players = {p1, p2, p3}
  None = None
  Freed = Freed
  TeamLimit = 1
  MaxPackets = 2
SYMMETRY Symmetry
INVARIANT GoneFromTeams
CHECK_DEADLOCK FALSE

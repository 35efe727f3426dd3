SPECIFICATION Spec
CONSTANTS
  Players = {p1, p2, p3}
  None = None
  Freed = Freed
  TeamLimit = 1
  MaxPackets = 2
SYMMETRY Symmetry
INVARIANT TypeOK
INVARIANT NobodyStuck
INVARIANT TeleportEnds
INVARIANT TeamsFit
CHECK_DEADLOCK FALSE

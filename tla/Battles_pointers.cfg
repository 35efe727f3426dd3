SPECIFICATION Spec
CONSTANTS
  Players = {p1, p2, p3, p4}
  Engines = {e1, e2}
  Null = Null
  Freed = Freed
SYMMETRY Symmetry
INVARIANTS TypeOK DriversAreMasters OneBattleEach
CHECK_DEADLOCK FALSE

SPECIFICATION FairSpec
CONSTANTS
  World = World
  Main = Main
  WorldStatements = {s1}
  MainStatements = {s2}
  None = None
  Freed = Freed
  Null = Null
  HolderSize = 2
  MaxUnits = 2
  MaxLen = 2
  MaxTroubles = 1
INVARIANT TypeOK
INVARIANT NothingLeftOpen
PROPERTY Implements
PROPERTY Decides
PROPERTY CallbacksRun
CHECK_DEADLOCK FALSE

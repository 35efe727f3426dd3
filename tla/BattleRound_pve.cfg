SPECIFICATION Spec
CONSTANTS
  Players = {"p1", "p2"}
  Attackers = {"p1", "p2"}
  Pets = {}
  Creatures = {"c1", "c2"}
  Owner <- MCOwner
  PetSeat <- MCPetSeat
  Cell <- MCCell
  Agility <- MCAgility
  None = None
  CreatureSkills = {"area"}
  ClientSkills = {"area", "defend"}
  ClientSeats <- MCAnySeats
  ClientTargets <- MCFoes
  TurnBound = 2
  Linkable = {"attack", "area"}
  Area = {"area"}
  Models = {2, 3}
  MaxActionTime = 1
  AnimTicks = 1
  ItemTicks = 1
  MaxStun = 1
  CountBound = 3
INVARIANT TypeOK
INVARIANT LinkedSound
PROPERTY FirstTargetLives
PROPERTY DropsAreGiven
CHECK_DEADLOCK FALSE

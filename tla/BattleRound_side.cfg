SPECIFICATION Spec
CONSTANTS
  Players = {"p1"}
  Attackers = {"p1"}
  Pets = {"x1"}
  Creatures = {"c1", "c2"}
  Owner <- MCOwner
  PetSeat <- MCPetSeat
  Cell <- MCCell
  Agility <- MCAgility
  None = None
  CreatureSkills = {"area"}
  ClientSkills = {"area", "defend"}
  ClientSeats <- MCOwnSeats
  ClientTargets <- MCFoes
  TurnBound = 2
  Linkable = {"attack", "area"}
  Area = {"area"}
  Models = {2}
  MaxActionTime = 2
  AnimTicks = 1
  ItemTicks = 1
  MaxStun = 1
  CountBound = 3
PROPERTY TargetSideOnly
CHECK_DEADLOCK FALSE

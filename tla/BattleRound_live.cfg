SPECIFICATION FairSpec
CONSTANTS
  Players = {"p1", "p2"}
  Attackers = {"p1"}
  Pets = {"x1"}
  Creatures = {"c1"}
  Owner <- MCOwner
  PetSeat <- MCPetSeat
  Cell <- MCCell
  Agility <- MCAgility
  None = None
  CreatureSkills = {"stun"}
  ClientSkills = {"attack", "escape", "catch"}
  ClientSeats <- MCSomeSeats
  ClientTargets <- MCFighters
  TurnBound = 1
  Linkable = {"attack", "area"}
  Area = {"area"}
  Models = {2}
  MaxActionTime = 2
  AnimTicks = 1
  ItemTicks = 1
  MaxStun = 1
  CountBound = 3
INVARIANT WaitIsQuiet
INVARIANT MembersOnBoard
PROPERTY PetsFollowOwners
PROPERTY WaitEnds
PROPERTY DecidedBattleEnds
CHECK_DEADLOCK FALSE

SPECIFICATION Spec
CONSTANTS
  Guids = {g1, g2, g3}
  Potion = Potion
  Ring = Ring
  Finger = Finger
  Entries = {Potion, Ring}
  None = None
  Null = Null
  EquipSlot <- MCEquipSlot
  Stackable <- MCStackable
  MaxCount <- MCMaxCount
  BagSize = 2
  CountModulus = 8
  MaxAsked = 1
  MaxPending = 1
  PetModBound = 0
SYMMETRY Symmetry
PROPERTY SaveStoresAll

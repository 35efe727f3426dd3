---------------------------- MODULE MCInventory ----------------------------
(***************************************************************************)
(* Small inventories: potions that stack and rings that are worn.          *)
(***************************************************************************)
EXTENDS Inventory, TLC

CONSTANTS Potion, Ring, Finger

MCEquipSlot == Potion :> None @@ Ring :> Finger
MCStackable == Potion :> 2 @@ Ring :> 1
MCMaxCount  == Potion :> 3 @@ Ring :> 2

Symmetry == Permutations(Guids)
=============================================================================

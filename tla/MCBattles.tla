----------------------------- MODULE MCBattles -----------------------------
(***************************************************************************)
(* Small worlds for Battles.  Players differ in nothing but their names,   *)
(* nor do engines.                                                         *)
(***************************************************************************)
EXTENDS Battles, TLC

Symmetry == Permutations(Players) \cup Permutations(Engines)
=============================================================================

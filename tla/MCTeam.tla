------------------------------- MODULE MCTeam -------------------------------
(***************************************************************************)
(* Small worlds for Team.  Players differ in nothing but their names.      *)
(***************************************************************************)
EXTENDS Team, TLC

Symmetry == Permutations(Players)
=============================================================================

--------------------------- MODULE MCBattleRound ---------------------------
(***************************************************************************)
(* Small battles for BattleRound: two players with at most a pet each, and *)
(* creatures.  The configurations choose who takes part and which skills   *)
(* the clients use.                                                        *)
(***************************************************************************)
EXTENDS BattleRound

MCOwner   == [x \in Pets |-> IF x \in {"x2", "y2"} THEN "p2" ELSE "p1"]
MCPetSeat == [p \in Players |-> IF p = "p1" THEN "front1" ELSE "front2"]

\* The leader in the middle and the first member below (Engage), the players in
\* the back row of their side and their pets in front; two creatures likewise.
MCCell == [s \in Seats |->
  LET row == IF s \in {"p2", "front2"} THEN 3 ELSE 2
      col == IF s \in Players \cup {"c1"} THEN 0 ELSE 1
  IN  <<IF s \in AtkSeats THEN 3 - col ELSE col, row>>]

\* The client of the first player commands the others' units as well.  What is
\* aimed at a player who is not there is redirected to the creature.
MCOwnSeats  == [p \in Players |-> {p, PetSeat[p]}]
MCAnySeats  == [p \in Players |-> IF p = "p1" THEN Seats ELSE {p, PetSeat[p]}]
MCSomeSeats == [p \in Players |-> IF p = "p1" THEN {p, PetSeat[p], "c1"} ELSE {p}]
MCFighters  == Players \cup {"front1"}
MCFoes      == DefSeats

\* the second creature and the pets are slower
MCAgility == [u \in Units |-> IF u \in {"p1", "p2", "c1"} THEN 2 ELSE 1]
=============================================================================

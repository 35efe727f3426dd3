----------------------------- MODULE HitModels -----------------------------
(***************************************************************************)
(* The geometry of the battle board (game/BattleSystem.cpp): which cells a *)
(* skill of a given hit model strikes besides its primary target           *)
(* (ParseSpell), and which memory a cell that is asked for stands for      *)
(* (GetBattleUnit, m_BattleUnit[BATTLE_COL_MAX][BATTLE_ROW_MAX]).          *)
(*                                                                         *)
(* A cell is <<column, row>>.  Columns 0 and 1 are the defenders' back and *)
(* front row, 2 and 3 the attackers' front and back row.                   *)
(***************************************************************************)
EXTENDS Integers

Cells      == (0..3) \X (0..4)
AreaModels == {2, 3, 4, 5, 6, 10}    \* the other hit models strike one target

isDefPos(x) == x < 2
Side(x)     == IF isDefPos(x) THEN {0, 1} ELSE {2, 3}

\* GetBattleUnit lets one column and one row too many through (a row of -1 is
\* 255 as a uint8), and m_BattleUnit is a flat piece of memory.
Found(c)   == c[1] \in 0..4 /\ c[2] \in 0..5
Slot(c)    == 5 * c[1] + c[2]
InArray(c) == Slot(c) < 20

\* Rolling stone, hit model 2: on the attackers' side the signs are swapped.
Rolled(x)  == IF x \in {0, 3} THEN x + 1 ELSE x - 1

\* Hit models 4 and 6: the other row of the side.
Other(x)   == IF x \in {0, 2} THEN x + 1 ELSE x - 1

Upper(c)   == <<c[1], c[2] - 1>>
Bottom(c)  == <<c[1], c[2] + 1>>
Beside(c)  == {Upper(c), Bottom(c)}

\* ParseSpell: the cells asked for besides the primary target c; the cases 6, 4
\* and 3 of its switch fall through.  For a neighbour Berserker does not find it
\* pushes the primary target again: it asks for no other cells.
Fan(m, c) ==
  LET opposite == <<Other(c[1]), c[2]>> IN
  CASE m = 2  -> {<<Rolled(c[1]), c[2]>>}
    [] m = 3  -> Beside(c)
    [] m = 4  -> Beside(c) \cup {opposite}
    [] m = 6  -> Beside(c) \cup {opposite} \cup Beside(opposite)
    [] m = 5  -> {<<c[1], y>> : y \in 0..4} \ {c}
    [] m = 10 -> (Side(c[1]) \X (0..4)) \ {c}
    [] OTHER  -> {}
=============================================================================

-------------------------- MODULE HitModelsProofs --------------------------
(***************************************************************************)
(* What a skill of each hit model strikes, for every target on the board:  *)
(* facts about ParseSpell (game/BattleSystem.cpp) that no run of a battle  *)
(* with a few units can cover.                                             *)
(***************************************************************************)
EXTENDS HitModels, TLAPS

LEMMA CellParts ==
  ASSUME NEW c \in Cells
  PROVE  c = <<c[1], c[2]>> /\ c[1] \in 0..3 /\ c[2] \in 0..4
BY DEF Cells

\* The cells of each hit model, case by case.
LEMMA FanCells ==
  ASSUME NEW m \in AreaModels, NEW c \in Cells, NEW q \in Fan(m, c)
  PROVE  \/ m = 2 /\ q = <<Rolled(c[1]), c[2]>>
         \/ m \in {3, 4, 6} /\ (q = <<c[1], c[2] - 1>> \/ q = <<c[1], c[2] + 1>>)
         \/ m \in {4, 6} /\ q = <<Other(c[1]), c[2]>>
         \/ m = 6 /\ (q = <<Other(c[1]), c[2] - 1>> \/ q = <<Other(c[1]), c[2] + 1>>)
         \/ /\ m \in {5, 10} /\ q # c
            /\ \E x \in Side(c[1]), y \in 0..4 : q = <<x, y>> /\ (m = 5 => x = c[1])
<1>1. CASE m = 2
  BY <1>1 DEF Fan
<1>2. CASE m = 3
  BY <1>2 DEF Fan, Beside, Upper, Bottom
<1>3. CASE m = 4
  BY <1>3 DEF Fan, Beside, Upper, Bottom
<1>4. CASE m = 6
  BY <1>4 DEF Fan, Beside, Upper, Bottom
<1>5. CASE m = 5
  <2>1. q # c /\ \E y \in 0..4 : q = <<c[1], y>>
    BY <1>5 DEF Fan
  <2>2. c[1] \in Side(c[1])
    BY CellParts DEF Side, isDefPos
  <2> QED
    BY <1>5, <2>1, <2>2
<1>6. CASE m = 10
  <2>1. q # c /\ q \in Side(c[1]) \X (0..4)
    BY <1>6 DEF Fan
  <2> QED
    BY <1>6, <2>1
<1> QED
  BY <1>1, <1>2, <1>3, <1>4, <1>5, <1>6 DEF AreaModels

\* GetBattleUnit reads beyond m_BattleUnit for exactly these targets: the back
\* row of the attackers under hit model 2, and their last row under the models
\* that take the neighbours below.
THEOREM BeyondTheArray ==
  ASSUME NEW m \in AreaModels, NEW c \in Cells
  PROVE  (\E q \in Fan(m, c) : Found(q) /\ ~InArray(q))
           <=> \/ m = 2 /\ c[1] = 3
               \/ m \in {3, 4} /\ c = <<3, 4>>
               \/ m = 6 /\ c \in {<<2, 4>>, <<3, 4>>}
<1>0. c = <<c[1], c[2]>> /\ c[1] \in 0..3 /\ c[2] \in 0..4
  BY CellParts
<1>1. ASSUME NEW q \in Fan(m, c), Found(q), ~InArray(q)
      PROVE  \/ m = 2 /\ c[1] = 3
             \/ m \in {3, 4} /\ c = <<3, 4>>
             \/ m = 6 /\ c \in {<<2, 4>>, <<3, 4>>}
  <2>1. CASE m = 2 /\ q = <<Rolled(c[1]), c[2]>>
    BY <1>0, <1>1, <2>1 DEF InArray, Slot, Rolled
  <2>2. CASE m \in {3, 4, 6} /\ (q = <<c[1], c[2] - 1>> \/ q = <<c[1], c[2] + 1>>)
    BY <1>0, <1>1, <2>2 DEF InArray, Slot
  <2>3. CASE m \in {4, 6} /\ q = <<Other(c[1]), c[2]>>
    BY <1>0, <1>1, <2>3 DEF InArray, Slot, Other
  <2>4. CASE m = 6 /\ (q = <<Other(c[1]), c[2] - 1>> \/ q = <<Other(c[1]), c[2] + 1>>)
    BY <1>0, <1>1, <2>4 DEF InArray, Slot, Other
  <2>5. CASE \E x \in Side(c[1]), y \in 0..4 : q = <<x, y>>
    BY <1>0, <1>1, <2>5 DEF InArray, Slot, Side
  <2> QED
    BY <2>1, <2>2, <2>3, <2>4, <2>5, FanCells
<1>2. ASSUME m = 2, c[1] = 3 PROVE \E q \in Fan(m, c) : Found(q) /\ ~InArray(q)
  <2>1. <<4, c[2]>> \in Fan(m, c)
    BY <1>2 DEF Fan, Rolled
  <2> QED
    BY <1>0, <2>1 DEF Found, InArray, Slot
<1>3. ASSUME m \in {3, 4, 6}, c = <<3, 4>> PROVE \E q \in Fan(m, c) : Found(q) /\ ~InArray(q)
  <2>1. <<3, 5>> \in Fan(m, c)
    BY <1>3 DEF Fan, Beside, Bottom
  <2> QED
    BY <2>1 DEF Found, InArray, Slot
<1>4. ASSUME m = 6, c = <<2, 4>> PROVE \E q \in Fan(m, c) : Found(q) /\ ~InArray(q)
  <2>1. <<3, 5>> \in Fan(m, c)
    BY <1>4 DEF Fan, Beside, Bottom, Other
  <2> QED
    BY <2>1 DEF Found, InArray, Slot
<1> QED
  BY <1>1, <1>2, <1>3, <1>4

\* With another model than 2, and no target in the last row, a skill asks for
\* cells of its target's side only, all of them in the array.
THEOREM TargetSide ==
  ASSUME NEW m \in AreaModels \ {2}, NEW c \in Cells, c[2] < 4,
         NEW q \in Fan(m, c), Found(q)
  PROVE  q \in Cells /\ q[1] \in Side(c[1])
<1>0. c = <<c[1], c[2]>> /\ c[1] \in 0..3 /\ c[2] \in 0..4
  BY CellParts
<1>1. q = <<q[1], q[2]>>
  BY FanCells
<1>2. c[1] \in Side(c[1]) /\ Other(c[1]) \in Side(c[1]) /\ Side(c[1]) \subseteq 0..3
  BY <1>0 DEF Side, isDefPos, Other
<1>3. q[1] \in Side(c[1]) /\ q[2] <= 4
  BY <1>0, <1>2, FanCells
<1> QED
  BY <1>1, <1>2, <1>3 DEF Found, Cells

\* The primary target and the cells ParseSpell asks for besides are different
\* places of m_BattleUnit, although a cell outside the board stands for another
\* one: no cell of the fan is the target again, or another cell of the fan.  (How
\* often a cell is pushed is not said: Berserker pushes its target once more for
\* each neighbour it does not find.)
THEOREM DistinctCells ==
  ASSUME NEW m \in AreaModels, NEW c \in Cells,
         NEW q \in Fan(m, c) \cup {c}, NEW r \in Fan(m, c) \cup {c},
         Found(q), Found(r), Slot(q) = Slot(r)
  PROVE  q = r
<1>0. c = <<c[1], c[2]>> /\ c[1] \in 0..3 /\ c[2] \in 0..4
  BY CellParts
<1>1. CASE m \in {5, 10}
  <2>1. ASSUME NEW p \in Fan(m, c) \cup {c}
        PROVE  \E x \in 0..3, y \in 0..4 : p = <<x, y>>
    <3>1. CASE p = c
      BY <1>0, <3>1
    <3>2. CASE p \in Fan(m, c)
      <4>1. \E x \in Side(c[1]), y \in 0..4 : p = <<x, y>>
        BY <1>1, <3>2, FanCells
      <4> QED
        BY <4>1 DEF Side
    <3> QED
      BY <2>1, <3>1, <3>2
  <2> QED
    BY <2>1 DEF Slot
<1>2. CASE m \notin {5, 10}
  <2>1. ASSUME NEW p \in Fan(m, c) \cup {c}, Found(p)
        PROVE  /\ p = <<p[1], p[2]>> /\ p[1] \in 0..4 /\ p[2] \in 0..5
               /\ p[1] - c[1] \in {-1, 0, 1} /\ p[2] - c[2] \in {-1, 0, 1}
    <3>1. CASE p = c
      BY <1>0, <3>1
    <3>2. CASE p \in Fan(m, c)
      <4>1. Rolled(c[1]) - c[1] \in {-1, 1} /\ Other(c[1]) - c[1] \in {-1, 1}
        BY <1>0 DEF Rolled, Other
      <4> QED
        BY <1>0, <1>2, <2>1, <3>2, <4>1, FanCells DEF Found
    <3> QED
      BY <2>1, <3>1, <3>2
  <2>2. \/ q[1] = r[1] /\ q[2] = r[2]
        \/ q[1] - r[1] \in {-2, -1, 1, 2} /\ q[2] - r[2] \in {-10, -5, 5, 10}
    BY <2>1 DEF Slot
  <2>3. q[2] - r[2] \in {-2, -1, 0, 1, 2}
    BY <1>0, <2>1
  <2> QED
    BY <2>1, <2>2, <2>3
<1> QED
  BY <1>1, <1>2
=============================================================================

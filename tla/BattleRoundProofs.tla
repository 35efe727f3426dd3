------------------------- MODULE BattleRoundProofs -------------------------
(***************************************************************************)
(* Theorems about BattleRound, for any number of players, pets, creatures  *)
(* and any bounds.  The parts of the inductive invariant:                  *)
(*                                                                         *)
(*   TypeOK, LinkedSound  (of BattleRound)                                  *)
(*   NoEngine      what a deleted engine leaves behind                     *)
(*   Quiet         where a wait for commands may begin                     *)
(*   Visited       AIMove looks only at creatures on the board             *)
(*   Aimed         the command being executed has a target on the board    *)
(*   Pending       who will give the items that were dropped               *)
(*   Seating       everyone has a seat of their own: a player its own, a   *)
(*                 battle pet the one in front of its owner                *)
(*   Mastered      an engine that runs has a master                        *)
(***************************************************************************)
EXTENDS BattleRound, HitModelsProofs, FiniteSetTheorems, SequenceTheorems, TLAPS

NoEngine ==
  engine = "none" => phase = "idle" /\ queue = <<>> /\ animationTime = 0 /\ dropped = {}

Quiet == wait => queue = <<>> /\ animationTime = 0 /\ phase \notin {"ai", "sort", "send"}

Visited == phase = "ai" => \A s \in todo : at[s] # None

Aimed == phase = "send" => queue # <<>> /\ at[queue[1].cmd.target] # None

Pending ==
  phase \in {"idle", "ai", "sort", "update"} => dropped = {} \/ animationTime > 0

Seating ==
  /\ \A p \in Players : p \in list <=> at[p] = p
  /\ \A s \in Seats \ PetSeats : at[s] \in {s, None}
  /\ \A p \in Players : at[PetSeat[p]] # None => p \in list /\ battlePet[p] = at[PetSeat[p]]
  /\ \A p \in Players : battlePet[p] # None => Owner[battlePet[p]] = p

\* No pet is parted from its owner by this step.
PetsStay == \A p \in Players : PetSeated(p) => PetSeated(p)'

Mastered == engine = "on" => master \in Players

-----------------------------------------------------------------------------
\* Waits are quiet

\* Every packet handler ends in an answer.
LEMMA HandlersAnswer ==
  Handlers => /\ Idle /\ \E b, turn, c : Answer(b, turn, c)
              /\ UNCHANGED <<animationTime, creatureKilled, dropped, engine>>
<1> DEFINE R == /\ Idle /\ \E b, turn, c : Answer(b, turn, c)
                /\ UNCHANGED <<animationTime, creatureKilled, dropped, engine>>
<1>1. ASSUME NEW p, NEW s, NEW k, NEW t, Attack(p, s, k, t) PROVE R
  BY <1>1 DEF Attack, lootVars
<1>2. ASSUME NEW p, UseItem(p) PROVE R
  BY <1>2 DEF UseItem, lootVars
<1>3. ASSUME NEW p, NEW x, PetBattle(p, x) PROVE R
  BY <1>3 DEF PetBattle, lootVars
<1>4. ASSUME NEW p, PetRest(p) PROVE R
  BY <1>4 DEF PetRest, lootVars
<1> HIDE DEF R
<1>5. Handlers => R
  BY <1>1, <1>2, <1>3, <1>4 DEF Handlers
<1> QED
  BY <1>5 DEF R

LEMMA QuietInit == Init => NoEngine /\ Quiet
BY DEF Init, NoEngine, Quiet

LEMMA QuietStep == NoEngine /\ Quiet /\ [Next]_vars => NoEngine' /\ Quiet'
<1> SUFFICES ASSUME NoEngine, Quiet, [Next]_vars PROVE NoEngine' /\ Quiet'
  OBVIOUS
<1> USE DEF NoEngine, Quiet
<1>1. ASSUME NEW p, NEW mates, NEW E, NEW C, Engage(p, mates, E, C)
      PROVE  NoEngine' /\ Quiet'
  BY <1>1 DEF Engage, timeVars, lootVars
<1>2. ASSUME NEW b, NEW turn, NEW c, Idle, Answer(b, turn, c),
             UNCHANGED <<animationTime, lootVars, engine>>
      PROVE  NoEngine' /\ Quiet'
  BY <1>2 DEF Idle, Answer, BuildActions, lootVars
<1>3. ASSUME NEW p, NEW s, NEW k, NEW t, Attack(p, s, k, t) PROVE NoEngine' /\ Quiet'
  BY <1>2, <1>3 DEF Attack
<1>4. ASSUME NEW p, UseItem(p) PROVE NoEngine' /\ Quiet'
  BY <1>2, <1>4 DEF UseItem
<1>5. ASSUME NEW p, NEW x, PetBattle(p, x) PROVE NoEngine' /\ Quiet'
  BY <1>2, <1>5 DEF PetBattle
<1>6. ASSUME NEW p, PetRest(p) PROVE NoEngine' /\ Quiet'
  BY <1>2, <1>6 DEF PetRest
<1>7. ASSUME NEW p, NEW x, PetOutside(p, x) PROVE NoEngine' /\ Quiet'
  BY <1>7 DEF PetOutside, roundVars, timeVars, lootVars, ctrlVars
<1>8. ASSUME NEW p, Logout(p) \/ \E s : AttackNobody(p, s) PROVE NoEngine' /\ Quiet'
  BY <1>8 DEF Logout, AttackNobody, Crash, Idle, DeleteEngine, roundVars, timeVars, lootVars, ctrlVars
<1>9. CASE Build
  BY <1>9 DEF Build, Inside, AIMove, AIDone, BuildNext, BuildDone,
              roundVars, timeVars, lootVars, ctrlVars
<1>10. CASE TickStart
  BY <1>10 DEF TickStart, Idle, BuildActions, roundVars, timeVars, lootVars
<1>11. CASE Update
  <2> USE DEF Goes, Inside, Crash, roundVars, timeVars, lootVars, ctrlVars
  <2>1. CASE ItemAnimation
    BY <2>1 DEF ItemAnimation
  <2>2. CASE StopInUpdate
    BY <2>2 DEF StopInUpdate
  <2>3. CASE StillWaiting
    BY <2>3 DEF StillWaiting
  <2>4. CASE Animation
    BY <2>4 DEF Animation
  <2>5. CASE RoundOver
    BY <2>5 DEF RoundOver
  <2>6. CASE TakeGroup
    BY <2>6 DEF TakeGroup
  <2>7. CASE RedirectCrash
    BY <2>7 DEF RedirectCrash
  <2> QED
    BY <1>11, <2>1, <2>2, <2>3, <2>4, <2>5, <2>6, <2>7 DEF Update
<1>12. CASE Send
  <2>1. Inside("send") /\ \E a : Done(a)
    BY <1>12 DEF Send, Acting, Skip, Defend, Escape, Strike, Disable, Catch
  <2> QED
    BY <2>1 DEF Inside, Done
<1>13. CASE Finish
  BY <1>13 DEF Finish, Inside, Crash, DeleteEngine, ConcludeCrash, GoOn, Conclude,
               roundVars, timeVars, lootVars, ctrlVars
<1>14. CASE UNCHANGED vars
  BY <1>14 DEF vars, roundVars, timeVars, lootVars, ctrlVars
<1>15. CASE StrikeCrash \/ EscapeCrash
  BY <1>15 DEF StrikeCrash, EscapeCrash, Crash, Acting, Inside, roundVars, timeVars, lootVars
<1> QED
  BY <1>1, <1>3, <1>4, <1>5, <1>6, <1>7, <1>8, <1>9, <1>10, <1>11, <1>12, <1>13, <1>14, <1>15
  DEF Next, Handlers, World

\* Commands are executed only between two waits: when SendTurnComplete asks for
\* commands, BuildActions of the last round has left nothing in m_Actions and
\* WaitForAnimation nothing to wait for.
THEOREM WaitsAreQuiet == Spec => []WaitIsQuiet
<1>1. NoEngine /\ Quiet => WaitIsQuiet
  BY DEF Quiet, WaitIsQuiet
<1> QED
  BY QuietInit, QuietStep, <1>1, PTL DEF Spec

-----------------------------------------------------------------------------
\* Types

\* The functions and sequences the actions build.
LEMMA Seated == Seats \subseteq Players \cup Creatures \cup PetSeats /\ IsFiniteSet(Seats)
BY UnitsAssumption DEF Seats

LEMMA CardinalityIsNat == ASSUME NEW S \in SUBSET Seats PROVE Cardinality(S) \in Nat
BY Seated, FS_Subset, FS_CardinalityType

\* The count wraps at 256 (m_PlayerActionCount is a uint8).
LEMMA CountWraps == ASSUME NEW c \in Nat PROVE c % 256 \in 0..255
OBVIOUS

\* Taking an element out of a sequence leaves a sequence.
LEMMA WithoutType ==
  ASSUME NEW S, NEW q \in Seq(S), NEW i \in 1..Len(q) PROVE Without(q, i) \in Seq(S)
<1>1. \A j \in 1..(Len(q) - 1) : (IF j < i THEN q[j] ELSE q[j + 1]) \in S
  OBVIOUS
<1>2. Len(q) - 1 \in Nat
  OBVIOUS
<1> QED
  BY <1>1, <1>2 DEF Without

LEMMA OpenSlotType == ASSUME NEW q \in Seq(Entries) PROVE OpenSlot(q) \in Seq(Entries)
<1>1. ASSUME NEW e \in Entries PROVE [cmd |-> e.cmd, linked |-> FALSE] \in Entries
  BY DEF Entries
<1>2. \A i \in 1..Len(q) : q[i] \in Entries
  OBVIOUS
<1>3. OpenSlot(q) \in [1..Len(q) -> Entries]
  BY <1>1, <1>2 DEF OpenSlot
<1>4. Len(q) \in Nat
  OBVIOUS
<1> QED
  BY <1>3, <1>4, SeqDef

\* What the shared pieces assign.
LEMMA BuildActionsType ==
  ASSUME NEW b, NEW turn \in Seq(Commands), NEW tick \in BOOLEAN, BuildActions(b, turn, tick)
  PROVE  /\ wait' \in BOOLEAN /\ actionTime' \in Nat /\ queue' \in Seq(Entries)
         /\ unitTurn' \in Seq(Commands) /\ phase' \in Phases /\ inTick' \in BOOLEAN
         /\ todo' \subseteq Seats /\ \A s \in todo' : b[s] # None
<1>1. todo' \subseteq {s \in DefSeats : ~Human(b, s) /\ Able(b, s)}
  BY DEF BuildActions
<1>2. todo' \subseteq Seats /\ \A s \in todo' : b[s] # None
  BY <1>1 DEF DefSeats, Able, Alive
<1>3. <<>> \in Seq(Entries)
  OBVIOUS
<1> QED
  BY <1>2, <1>3 DEF BuildActions, Phases

LEMMA AnswerType ==
  ASSUME TypeOK, NEW b, NEW turn \in Seq(Commands), NEW c \in Nat, Answer(b, turn, c)
  PROVE  /\ count' \in 0..255
         /\ wait' \in BOOLEAN /\ actionTime' \in Nat /\ queue' \in Seq(Entries)
         /\ unitTurn' \in Seq(Commands) /\ phase' \in Phases /\ inTick' \in BOOLEAN
         /\ todo' \subseteq Seats
<1>1. count' \in 0..255
  BY CountWraps DEF Answer
<1>2. CASE BuildActions(b, turn, FALSE)
  <2>1. FALSE \in BOOLEAN
    OBVIOUS
  <2> QED
    BY <1>1, <1>2, <2>1, BuildActionsType
<1>3. CASE unitTurn' = turn /\ UNCHANGED <<wait, actionTime, queue, phase, inTick, todo>>
  BY <1>1, <1>3 DEF TypeOK
<1> QED
  BY <1>2, <1>3 DEF Answer

LEMMA LeaveBattleType ==
  ASSUME TypeOK, NEW P \in SUBSET Players, LeaveBattle(P)
  PROVE  /\ dead' \subseteq Units /\ stun' \in [Units -> 0..(MaxStun + 1)]
         /\ list' \subseteq Players /\ at' \in [Seats -> Units \cup {None}]
BY TimeAssumption DEF LeaveBattle, Revive, TypeOK

LEMMA ResetActionType ==
  ASSUME TypeOK, NEW b, ResetAction(b)
  PROVE  /\ need' \in Nat /\ count' \in 0..255 /\ actionTime' \in Nat
         /\ stun' \in [Units -> 0..(MaxStun + 1)]
<1>1. AbleHumans(b) \subseteq Seats
  BY DEF AbleHumans
<1> QED
  BY <1>1, CardinalityIsNat, TimeAssumption DEF ResetAction, TypeOK

\* The board of a new battle seats players, their pets and creatures.
LEMMA NewBoardType ==
  ASSUME TypeOK, NEW P \in SUBSET Players, NEW C \in SUBSET Creatures
  PROVE  NewBoard(P, C) \in [Seats -> Units \cup {None}]
<1>1. ASSUME NEW s \in PetSeats, SeatOwner(s) \in P PROVE battlePet[SeatOwner(s)] \in Pets \cup {None}
  BY <1>1 DEF TypeOK
<1> QED
  BY <1>1 DEF NewBoard, Units

LEMMA TypeInit == Init => TypeOK
<1> SUFFICES ASSUME Init PROVE TypeOK
  OBVIOUS
<1>1. queue \in Seq(Entries) /\ unitTurn \in Seq(Commands)
  BY DEF Init
<1>2. stun \in [Units -> 0..(MaxStun + 1)]
  BY TimeAssumption DEF Init
<1>3. at \in [Seats -> Units \cup {None}]
  BY DEF Init
<1>4. battlePet \in [Players -> Pets \cup {None}] /\ phase \in Phases /\ count \in 0..255
  BY DEF Init, Phases
<1> QED
  BY <1>1, <1>2, <1>3, <1>4 DEF Init, TypeOK

\* A deleted engine, apart from the units it lets go.
LEMMA DeleteEngineType ==
  ASSUME TypeOK, DeleteEngine, NEW P \in SUBSET Players, Revive(P), UNCHANGED battlePet
  PROVE  TypeOK'
<1>1. queue' \in Seq(Entries) /\ unitTurn' \in Seq(Commands)
  BY DEF DeleteEngine
<1>2. dead' \subseteq Units /\ stun' \in [Units -> 0..(MaxStun + 1)]
  BY TimeAssumption DEF Revive, TypeOK
<1>3. at' \in [Seats -> Units \cup {None}]
  BY DEF DeleteEngine
<1>4. battlePet' \in [Players -> Pets \cup {None}] /\ phase' \in Phases /\ count' \in 0..255
  BY DEF DeleteEngine, Phases, TypeOK
<1> QED
  BY <1>1, <1>2, <1>3, <1>4 DEF DeleteEngine, TypeOK

LEMMA TypeHandlers ==
  ASSUME TypeOK, NEW p \in Players,
         \/ \E s \in Seats, k \in ClientSkills, t \in Seats : Attack(p, s, k, t)
         \/ \E s \in Seats : AttackNobody(p, s)
         \/ UseItem(p)
         \/ \E x \in Pets : PetBattle(p, x)
         \/ PetRest(p)
         \/ \E y \in Pets \cup {None} : PetOutside(p, y)
         \/ Logout(p)
  PROVE  TypeOK'
<1> USE DEF unitVars, boardVars, roundVars, timeVars, lootVars, ctrlVars
<1>1. ASSUME NEW s \in Seats, NEW k \in ClientSkills, NEW t \in Seats, Attack(p, s, k, t)
      PROVE  TypeOK'
  <2> DEFINE target == IF k \in {"defend", "escape"} THEN s ELSE t
             c == [seat |-> s, skill |-> k, target |-> target, agi |-> Agility[at[s]]]
  <2>1. at[s] \in Units /\ Idle /\ Answer(at, Append(unitTurn, c), count + 1)
    BY <1>1 DEF Attack, TypeOK
  <2>2. c \in Commands
    BY <2>1, UnitsAssumption, SkillAssumption DEF Commands
  <2>3. Append(unitTurn, c) \in Seq(Commands) /\ count + 1 \in Nat
    BY <2>2 DEF TypeOK
  <2> HIDE DEF c
  <2>4. count' \in 0..255 /\ wait' \in BOOLEAN /\ actionTime' \in Nat /\ queue' \in Seq(Entries)
        /\ unitTurn' \in Seq(Commands) /\ phase' \in Phases /\ inTick' \in BOOLEAN
        /\ todo' \subseteq Seats
    BY <2>1, <2>3, AnswerType
  <2> QED
    BY <1>1, <2>4 DEF Attack, TypeOK
<1>2. CASE UseItem(p)
  <2>1. Answer(at, unitTurn, count + 1) /\ unitTurn \in Seq(Commands) /\ count + 1 \in Nat
    BY <1>2 DEF UseItem, TypeOK
  <2>2. count' \in 0..255 /\ wait' \in BOOLEAN /\ actionTime' \in Nat /\ queue' \in Seq(Entries)
        /\ unitTurn' \in Seq(Commands) /\ phase' \in Phases /\ inTick' \in BOOLEAN
        /\ todo' \subseteq Seats
    BY <2>1, AnswerType
  <2> QED
    BY <1>2, <2>2 DEF UseItem, TypeOK
<1>3. ASSUME NEW x \in Pets, PetBattle(p, x) PROVE TypeOK'
  <2>1. unitTurn \in Seq(Commands) /\ count \in Nat
    BY DEF TypeOK
  <2>2. PICK d \in {0, 1} : Answer(at', unitTurn, count + d + 1)
    BY <1>3 DEF PetBattle
  <2>3. count + d + 1 \in Nat
    BY <2>1
  <2>4. count' \in 0..255 /\ wait' \in BOOLEAN /\ actionTime' \in Nat /\ queue' \in Seq(Entries)
        /\ unitTurn' \in Seq(Commands) /\ phase' \in Phases /\ inTick' \in BOOLEAN
        /\ todo' \subseteq Seats
    BY <2>1, <2>2, <2>3, AnswerType
  <2>5. at' \in [Seats -> Units \cup {None}] /\ battlePet' \in [Players -> Pets \cup {None}]
    BY <1>3 DEF PetBattle, TypeOK, Units
  <2> QED
    BY <1>3, <2>4, <2>5 DEF PetBattle, TypeOK
<1>4. CASE PetRest(p)
  <2>1. unitTurn \in Seq(Commands) /\ count \in Nat
    BY DEF TypeOK
  <2>2. PICK d \in {0, 1, 2} : Answer(at', unitTurn, count + d)
    BY <1>4 DEF PetRest
  <2>3. count + d \in Nat
    BY <2>1
  <2>4. count' \in 0..255 /\ wait' \in BOOLEAN /\ actionTime' \in Nat /\ queue' \in Seq(Entries)
        /\ unitTurn' \in Seq(Commands) /\ phase' \in Phases /\ inTick' \in BOOLEAN
        /\ todo' \subseteq Seats
    BY <2>1, <2>2, <2>3, AnswerType
  <2>5. at' \in [Seats -> Units \cup {None}] /\ battlePet' \in [Players -> Pets \cup {None}]
    BY <1>4 DEF PetRest, TypeOK, Units
  <2> QED
    BY <1>4, <2>4, <2>5 DEF PetRest, TypeOK
<1>5. ASSUME NEW y \in Pets \cup {None}, PetOutside(p, y) PROVE TypeOK'
  BY <1>5 DEF PetOutside, TypeOK
<1>6. CASE Logout(p)
  <2>1. CASE p = master /\ list \ {p} = {}
    BY <1>6, <2>1, DeleteEngineType DEF Logout
  <2>2. CASE ~(p = master /\ list \ {p} = {})
    <3>1. /\ dead' \subseteq Units /\ stun' \in [Units -> 0..(MaxStun + 1)]
          /\ list' \subseteq Players /\ at' \in [Seats -> Units \cup {None}]
      BY <1>6, <2>2, LeaveBattleType DEF Logout, TypeOK
    <3>2. master' \in Players \cup {None}
      BY <1>6, <2>2 DEF Logout, TypeOK
    <3>3. UNCHANGED <<battlePet, roundVars, timeVars, lootVars, ctrlVars>>
      BY <1>6, <2>2 DEF Logout
    <3> QED
      BY <3>1, <3>2, <3>3 DEF TypeOK
  <2> QED
    BY <2>1, <2>2
<1>7. ASSUME NEW s, AttackNobody(p, s) PROVE TypeOK'
  BY <1>7 DEF AttackNobody, Crash, TypeOK
<1> QED
  BY <1>1, <1>2, <1>3, <1>4, <1>5, <1>6, <1>7

LEMMA TypeEngage ==
  ASSUME TypeOK, NEW p \in Players, NEW mates \in SUBSET Players, NEW E \in SUBSET Players,
         NEW C \in SUBSET Creatures, Engage(p, mates, E, C)
  PROVE  TypeOK'
<1>1. at' \in [Seats -> Units \cup {None}]
  BY NewBoardType DEF Engage
<1>2. need' \in Nat
  <2> DEFINE b == NewBoard(mates \cup E, C)
             S == {s \in Seats : b[s] \in (Players \cup Pets) \ dead /\ stun[b[s]] = 0}
  <2>1. S \subseteq Seats
    OBVIOUS
  <2>2. need' = Cardinality(S)
    BY DEF Engage
  <2> HIDE DEF S
  <2> QED
    BY <2>1, <2>2, CardinalityIsNat
<1>3. stun' \in [Units -> 0..(MaxStun + 1)] /\ dead' \subseteq Units
  BY TimeAssumption DEF Engage, TypeOK
<1>4. count' \in 0..255 /\ wait' \in BOOLEAN /\ engine' = "on" /\ master' \in Players
      /\ list' \subseteq Players
  BY DEF Engage, TypeOK
<1>5. UNCHANGED <<battlePet, unitTurn, queue, timeVars, lootVars, phase, inTick, todo, acted>>
  BY DEF Engage
<1> QED
  BY <1>1, <1>2, <1>3, <1>4, <1>5 DEF TypeOK, timeVars, lootVars

LEMMA TypeBuild == TypeOK /\ Visited /\ Build => TypeOK'
<1> SUFFICES ASSUME TypeOK, Visited, Build PROVE TypeOK'
  OBVIOUS
<1> USE DEF unitVars, boardVars, roundVars, timeVars, lootVars, ctrlVars
<1>1. CASE AIMove
  <2>1. PICK s \in First(todo), k \in CreatureSkills :
          /\ \E t \in First(LiveOn(at, AtkSeats)) :
               unitTurn' = Append(unitTurn, [seat |-> s, skill |-> k, target |-> t,
                                             agi |-> Agility[at[s]]])
          /\ todo' = todo \ {s}
    BY <1>1 DEF AIMove
  <2>2. PICK t \in First(LiveOn(at, AtkSeats)) :
          unitTurn' = Append(unitTurn, [seat |-> s, skill |-> k, target |-> t,
                                        agi |-> Agility[at[s]]])
    BY <2>1
  <2>3. s \in todo /\ t \in LiveOn(at, AtkSeats) /\ phase = "ai"
    BY <1>1 DEF First, AIMove, Inside
  <2>4. s \in Seats /\ at[s] \in Units
    BY <2>3 DEF TypeOK, Visited
  <2>5. t \in Seats
    BY <2>3, UnitsAssumption DEF LiveOn, AtkSeats, Seats, PetSeats
  <2>6. k \in Skills
    BY SkillAssumption DEF Skills
  <2>7. [seat |-> s, skill |-> k, target |-> t, agi |-> Agility[at[s]]] \in Commands
    BY <2>4, <2>5, <2>6, UnitsAssumption DEF Commands
  <2>8. unitTurn' \in Seq(Commands) /\ todo' \subseteq Seats
    BY <2>1, <2>2, <2>7 DEF TypeOK
  <2> QED
    BY <1>1, <2>8 DEF AIMove, TypeOK
<1>2. CASE AIDone
  BY <1>2 DEF AIDone, TypeOK, Phases
<1>3. CASE BuildNext
  <2>1. PICK i \in Front(unitTurn) :
          /\ \E l \in BOOLEAN : queue' = Append(queue, [cmd |-> unitTurn[i], linked |-> l])
          /\ unitTurn' = Without(unitTurn, i)
    BY <1>3 DEF BuildNext
  <2>2. i \in 1..Len(unitTurn) /\ unitTurn \in Seq(Commands) /\ queue \in Seq(Entries)
    BY DEF Front, TypeOK
  <2>3. unitTurn' \in Seq(Commands)
    BY <2>1, <2>2, WithoutType
  <2>4. unitTurn[i] \in Commands
    BY <2>2
  <2>5. queue' \in Seq(Entries)
    BY <2>1, <2>2, <2>4 DEF Entries
  <2> QED
    BY <1>3, <2>3, <2>5 DEF BuildNext, TypeOK
<1>4. CASE BuildDone
  BY <1>4 DEF BuildDone, TypeOK, Phases
<1> QED
  BY <1>1, <1>2, <1>3, <1>4 DEF Build

LEMMA GiveItemType ==
  ASSUME TypeOK, GiveItemDropped PROVE itemTime' \in Nat /\ dropped' \subseteq Seats
BY TimeAssumption DEF GiveItemDropped, TypeOK

\* Redirecting changes the target only.
LEMMA RedirectedType ==
  ASSUME TypeOK, queue # <<>> PROVE Redirected(queue[1].cmd) \subseteq Commands
<1>1. queue[1] \in Entries
  BY DEF TypeOK
<1>2. queue[1].cmd \in Commands
  BY <1>1 DEF Entries
<1> QED
  BY <1>2 DEF Redirected, First, LiveFoes, LiveOn, Commands

LEMMA TypeUpdate == TypeOK /\ Update => TypeOK'
<1> SUFFICES ASSUME TypeOK, Update PROVE TypeOK'
  OBVIOUS
<1> USE DEF unitVars, boardVars, roundVars, timeVars, lootVars, ctrlVars
<1>1. CASE ItemAnimation
  BY <1>1 DEF ItemAnimation, TypeOK, Phases
<1>2. CASE StopInUpdate
  <2>1. CASE Crash
    BY <2>1 DEF Crash, TypeOK
  <2>2. CASE ~Crash
    <3>0. LeaveBattle(list) /\ list \in SUBSET Players
      BY <1>2, <2>2 DEF StopInUpdate, TypeOK
    <3>1. /\ dead' \subseteq Units /\ stun' \in [Units -> 0..(MaxStun + 1)]
          /\ list' \subseteq Players /\ at' \in [Seats -> Units \cup {None}]
      BY <3>0, LeaveBattleType
    <3>2. phase' = "conclude"
          /\ UNCHANGED <<battlePet, master, roundVars, timeVars, lootVars, engine, inTick, todo, acted>>
      BY <1>2, <2>2 DEF StopInUpdate
    <3> QED
      BY <3>1, <3>2 DEF TypeOK, Phases
  <2> QED
    BY <2>1, <2>2
<1>3. CASE StillWaiting
  BY <1>3, GiveItemType DEF StillWaiting, TypeOK, Phases
<1>4. CASE Animation
  BY <1>4 DEF Animation, TypeOK, Phases
<1>5. CASE RoundOver
  <2>1. /\ need' \in Nat /\ count' \in 0..255 /\ actionTime' \in Nat
        /\ stun' \in [Units -> 0..(MaxStun + 1)]
    BY <1>5, ResetActionType DEF RoundOver, SendTurnComplete
  <2>2. itemTime' \in Nat /\ dropped' \subseteq Seats
    BY <1>5, GiveItemType DEF RoundOver
  <2> QED
    BY <1>5, <2>1, <2>2 DEF RoundOver, SendTurnComplete, TypeOK, Phases
<1>6. CASE TakeGroup
  <2>1. itemTime' \in Nat /\ dropped' \subseteq Seats
    BY <1>6, GiveItemType DEF TakeGroup
  <2>2. queue' \in Seq(Entries)
    <3>1. queue \in Seq(Entries) /\ queue # <<>>
      BY <1>6 DEF TakeGroup, TypeOK
    <3>2. Tail(queue) \in Seq(Entries)
      BY <3>1
    <3>3. OpenSlot(Tail(queue)) \in Seq(Entries)
      BY <3>2, OpenSlotType
    <3>4. ASSUME NEW c \in Redirected(queue[1].cmd) PROVE c \in Commands
      BY <3>1, <3>4, RedirectedType
    <3>5. ASSUME NEW c \in Redirected(queue[1].cmd)
          PROVE  <<[cmd |-> c, linked |-> FALSE]>> \o OpenSlot(Tail(queue)) \in Seq(Entries)
      <4>1. [cmd |-> c, linked |-> FALSE] \in Entries
        BY <3>4 DEF Entries
      <4> QED
        BY <3>3, <4>1
    <3> QED
      BY <1>6, <3>1, <3>5 DEF TakeGroup
  <2> QED
    BY <1>6, <2>1, <2>2 DEF TakeGroup, TypeOK, Phases
<1>7. CASE RedirectCrash
  BY <1>7 DEF RedirectCrash, Crash, TypeOK
<1> QED
  BY <1>1, <1>2, <1>3, <1>4, <1>5, <1>6, <1>7 DEF Update

\* A command that was executed leaves the sequence; Done changes nothing else
\* that has a type of its own.
LEMMA DoneType ==
  ASSUME TypeOK, Aimed, phase = "send", NEW a \in BOOLEAN, Done(a)
  PROVE  /\ queue' \in Seq(Entries) /\ phase' \in Phases /\ acted' \in BOOLEAN
         /\ animationTime' \in Nat
         /\ UNCHANGED <<battlePet, master, unitTurn, need, count, wait, actionTime, itemTime,
                        engine, inTick, todo>>
<1>1. queue \in Seq(Entries) /\ queue # <<>>
  BY DEF TypeOK, Aimed
<1>2. Tail(queue) \in Seq(Entries)
  BY <1>1
<1> QED
  BY <1>2, TimeAssumption DEF Done, TypeOK, Phases

LEMMA CmdType ==
  ASSUME TypeOK, Aimed, phase = "send"
  PROVE  Cmd \in Commands /\ Cmd.seat \in Seats /\ at[Cmd.target] \in Units
<1>1. queue[1] \in Entries
  BY DEF TypeOK, Aimed
<1>2. Cmd \in Commands
  BY <1>1 DEF Entries, Cmd
<1> QED
  BY <1>2 DEF Commands, TypeOK, Aimed, Cmd

LEMMA TypeAfterDone ==
  ASSUME TypeOK, Aimed, phase = "send", NEW a \in BOOLEAN, Done(a),
         dead' \subseteq Units, stun' \in [Units -> 0..(MaxStun + 1)], list' \subseteq Players,
         at' \in [Seats -> Units \cup {None}], creatureKilled' \in BOOLEAN,
         dropped' \subseteq Seats
  PROVE  TypeOK'
<1>1. /\ queue' \in Seq(Entries) /\ phase' \in Phases /\ acted' \in BOOLEAN
      /\ animationTime' \in Nat
      /\ UNCHANGED <<battlePet, master, unitTurn, need, count, wait, actionTime, itemTime,
                     engine, inTick, todo>>
  BY DoneType
<1> QED
  BY <1>1 DEF TypeOK

LEMMA KillType ==
  ASSUME dead \subseteq Units, creatureKilled \in BOOLEAN, dropped \subseteq Seats,
         Cmd.seat \in Seats, NEW K, \A s \in K : at[s] \in Units, Kill(K)
  PROVE  dead' \subseteq Units /\ creatureKilled' \in BOOLEAN /\ dropped' \subseteq Seats
<1>1. dead' \subseteq Units /\ creatureKilled' \in BOOLEAN
  BY DEF Kill
<1>2. dropped' = dropped \/ dropped' = dropped \cup {Cmd.seat}
  BY DEF Kill
<1> QED
  BY <1>1, <1>2

LEMMA VictimsType ==
  ASSUME at \in [Seats -> Units \cup {None}], Cmd.target \in Seats, at[Cmd.target] \in Units
  PROVE  \A m : \A s \in Victims(m) : s \in Seats /\ at[s] \in Units
<1>1. ASSUME NEW S, S \subseteq Seats, NEW s \in LiveOn(at, S) PROVE s \in Seats /\ at[s] \in Units
  BY <1>1 DEF LiveOn, Alive
<1>2. \A C : OnCells(C) \subseteq Seats
  BY DEF OnCells
<1> QED
  BY <1>1, <1>2 DEF Victims

\* Whom a hurting command of a group may kill.
LEMMA StrikeKills ==
  ASSUME at \in [Seats -> Units \cup {None}], Cmd.target \in Seats, at[Cmd.target] \in Units, Strike
  PROVE  \E K : /\ Kill(K) /\ \A s \in K : s \in Seats /\ at[s] \in Units
                /\ \/ K \subseteq {Cmd.target}
                   \/ \E m \in Models : K \subseteq Victims(m)
<1>1. CASE \E K \in SUBSET LiveOn(at, {Cmd.target}) : Kill(K)
  BY <1>1 DEF LiveOn, Alive
<1>2. CASE \E m \in Models : \E K \in SUBSET Victims(m) : Kill(K)
  BY <1>2, VictimsType
<1> QED
  BY <1>1, <1>2 DEF Strike

\* Without hit model 2 and with nobody in the last row, the units a skill may
\* strike are on the side it is aimed at.
LEMMA VictimsOnSide ==
  ASSUME Cmd.target \in Seats, NEW m \in Models, m # 2, \A s \in Seats : Cell[s][2] < 4,
         NEW t \in Victims(m)
  PROVE  t \in SideOf(Cmd.target)
<1> DEFINE p == Cell[Cmd.target]
<1>1. p \in Cells /\ p[2] < 4 /\ m \in AreaModels \ {2}
  BY BoardAssumption, SkillAssumption
<1>2. Cmd.target \in SideOf(Cmd.target)
  BY DEF SideOf, DefSeats
<1>3. ASSUME NEW C, \A q \in C : Found(q) => q \in Cells /\ q[1] \in Side(p[1]),
             NEW s \in OnCells(C)
      PROVE  s \in SideOf(Cmd.target)
  <2>1. PICK q \in C : s \in Seats /\ Found(q) /\ Slot(q) = Slot(Cell[s])
    BY <1>3 DEF OnCells
  <2>2. q \in Cells /\ Cell[s] \in Cells /\ q[1] \in Side(p[1])
    BY <1>3, <2>1, BoardAssumption
  <2>3. Cell[s][1] = q[1]
    <3>1. /\ q[1] \in 0..3 /\ q[2] \in 0..4
          /\ Cell[s][1] \in 0..3 /\ Cell[s][2] \in 0..4
      BY <2>2, CellParts
    <3> HIDE DEF p
    <3> QED
      BY <2>1, <3>1 DEF Slot
  <2>4. isDefPos(Cell[s][1]) <=> isDefPos(p[1])
    BY <1>1, <2>2, <2>3, CellParts DEF Side, isDefPos
  <2>5. s \in DefSeats <=> Cmd.target \in DefSeats
    BY <2>1, <2>4, BoardAssumption
  <2> QED
    BY <2>1, <2>5 DEF SideOf, DefSeats
<1>4. \A q \in Fan(m, p) : Found(q) => q \in Cells /\ q[1] \in Side(p[1])
  BY <1>1, TargetSide
<1>5. \A q \in Beside(p) : Found(q) => q \in Cells /\ q[1] \in Side(p[1])
  <2>1. p[1] \in 0..3 /\ p[2] \in 0..4
    BY <1>1, CellParts
  <2> QED
    BY <1>1, <2>1 DEF Beside, Upper, Bottom, Found, Cells, Side, isDefPos
<1>6. \/ t = Cmd.target \/ t \in OnCells(Fan(m, p)) \/ t \in OnCells(Beside(p))
  BY DEF Victims, LiveOn
<1> QED
  BY <1>2, <1>3, <1>4, <1>5, <1>6

LEMMA TypeSend == TypeOK /\ Aimed /\ Send => TypeOK'
<1> SUFFICES ASSUME TypeOK, Aimed, Send PROVE TypeOK'
  OBVIOUS
<1>1. phase = "send" /\ acted \in BOOLEAN /\ TRUE \in BOOLEAN /\ FALSE \in BOOLEAN
  BY DEF Send, Skip, Defend, Escape, Strike, Disable, Catch, Acting, Inside, TypeOK
<1>2. /\ dead \subseteq Units /\ stun \in [Units -> 0..(MaxStun + 1)] /\ list \subseteq Players
      /\ at \in [Seats -> Units \cup {None}] /\ creatureKilled \in BOOLEAN
      /\ dropped \subseteq Seats
  BY DEF TypeOK
<1>3. Cmd \in Commands /\ Cmd.seat \in Seats /\ Cmd.target \in Seats /\ at[Cmd.target] \in Units
  BY <1>1, CmdType DEF Commands
<1>4. ASSUME NEW a \in BOOLEAN, Done(a), UNCHANGED <<dead, stun, list, at, lootVars>> PROVE TypeOK'
  BY <1>1, <1>2, <1>4, TypeAfterDone DEF lootVars
<1>5. CASE Skip \/ Defend
  BY <1>1, <1>4, <1>5 DEF Skip, Defend
<1>6. CASE Escape
  <2>1. CASE LeaveBattle({Escaper}) /\ Done(acted) /\ UNCHANGED lootVars
    <3>1. dead' \subseteq Units /\ stun' \in [Units -> 0..(MaxStun + 1)]
      BY <1>2, <2>1, TimeAssumption DEF LeaveBattle, Revive
    <3>2. list' \subseteq Players /\ at' \in [Seats -> Units \cup {None}]
      BY <1>2, <2>1 DEF LeaveBattle
    <3> QED
      BY <1>1, <1>2, <2>1, <3>1, <3>2, TypeAfterDone DEF lootVars
  <2>2. CASE Done(TRUE) /\ UNCHANGED <<dead, stun, list, at, lootVars>>
    BY <1>1, <1>4, <2>2
  <2> QED
    BY <1>6, <2>1, <2>2 DEF Escape
<1>7. CASE Strike
  <2>1. PICK K : Kill(K) /\ \A s \in K : at[s] \in Units
    BY <1>2, <1>3, <1>7, StrikeKills
  <2>4. dead' \subseteq Units /\ creatureKilled' \in BOOLEAN /\ dropped' \subseteq Seats
    BY <1>2, <1>3, <2>1, KillType
  <2>5. Done(TRUE) /\ UNCHANGED <<stun, list, at>>
    BY <1>7 DEF Strike
  <2> QED
    BY <1>1, <1>2, <2>4, <2>5, TypeAfterDone
<1>8. CASE Disable
  <2>1. Done(TRUE) /\ UNCHANGED <<list, at>>
    BY <1>8 DEF Disable
  <2>2. CASE UNCHANGED <<stun, dead, lootVars>>
    BY <1>1, <1>2, <2>1, <2>2, TypeAfterDone DEF lootVars
  <2>3. CASE /\ \E d \in 1..MaxStun : stun' = [stun EXCEPT ![at[Cmd.target]] = d + 1]
             /\ \E K \in SUBSET {Cmd.target} : Kill(K)
    <3>1. stun' \in [Units -> 0..(MaxStun + 1)]
      BY <1>2, <1>3, <2>3, TimeAssumption
    <3>2. PICK K \in SUBSET {Cmd.target} : Kill(K)
      BY <2>3
    <3>3. dead' \subseteq Units /\ creatureKilled' \in BOOLEAN /\ dropped' \subseteq Seats
      BY <1>2, <1>3, <3>2, KillType
    <3> QED
      BY <1>1, <1>2, <2>1, <3>1, <3>3, TypeAfterDone
  <2> QED
    BY <1>8, <2>2, <2>3 DEF Disable
<1>9. CASE Catch
  <2>1. at' \in [Seats -> Units \cup {None}]
    BY <1>2, <1>9 DEF Catch
  <2>2. Done(TRUE) /\ UNCHANGED <<dead, stun, list, lootVars>>
    BY <1>9 DEF Catch
  <2> QED
    BY <1>1, <1>2, <2>1, <2>2, TypeAfterDone DEF lootVars
<1> QED
  BY <1>5, <1>6, <1>7, <1>8, <1>9 DEF Send

LEMMA TypeTick == TypeOK /\ TickStart => TypeOK'
<1> SUFFICES ASSUME TypeOK, TickStart PROVE TypeOK'
  OBVIOUS
<1> USE DEF unitVars, boardVars, roundVars, timeVars, lootVars
<1>1. CASE BuildActions(at, unitTurn, TRUE) /\ UNCHANGED <<need, count>>
  <2>1. unitTurn \in Seq(Commands)
    BY DEF TypeOK
  <2>2. /\ wait' \in BOOLEAN /\ actionTime' \in Nat /\ queue' \in Seq(Entries)
        /\ unitTurn' \in Seq(Commands) /\ phase' \in Phases /\ inTick' \in BOOLEAN
        /\ todo' \subseteq Seats
    BY <1>1, <2>1, BuildActionsType
  <2> QED
    BY <1>1, <2>2 DEF TickStart, TypeOK
<1>2. CASE /\ phase' = "update" /\ inTick' = TRUE /\ actionTime' \in {actionTime, actionTime + 1}
         /\ UNCHANGED <<roundVars, todo>>
  BY <1>2 DEF TickStart, TypeOK, Phases
<1> QED
  BY <1>1, <1>2 DEF TickStart

LEMMA TypeFinish == TypeOK /\ Finish => TypeOK'
<1> SUFFICES ASSUME TypeOK, Finish PROVE TypeOK'
  OBVIOUS
<1> USE DEF unitVars, boardVars, roundVars, timeVars, lootVars
<1>1. CASE Crash
  BY <1>1 DEF Crash, TypeOK
<1>2. CASE GoOn
  BY <1>2, GiveItemType DEF GoOn, TypeOK, Phases
<1>3. CASE DeleteEngine /\ Revive(list) /\ UNCHANGED battlePet
  BY <1>3, DeleteEngineType DEF TypeOK
<1> QED
  BY <1>1, <1>2, <1>3 DEF Finish, ConcludeCrash, Conclude

LEMMA TypeStep == TypeOK /\ Visited /\ Aimed /\ [Next]_vars => TypeOK'
<1> SUFFICES ASSUME TypeOK, Visited, Aimed, [Next]_vars PROVE TypeOK'
  OBVIOUS
<1>1. ASSUME NEW p \in Attackers, NEW mates \in SUBSET Attackers,
             \/ \E C \in SUBSET Creatures \ {{}} : Engage(p, mates, {}, C)
             \/ \E E \in SUBSET Defenders \ {{}} : Engage(p, mates, E, {})
      PROVE  TypeOK'
  <2>1. p \in Players /\ mates \in SUBSET Players /\ {} \in SUBSET Players
    BY UnitsAssumption
  <2>2. ASSUME NEW C \in SUBSET Creatures, Engage(p, mates, {}, C) PROVE TypeOK'
    BY <2>1, <2>2, TypeEngage
  <2>3. ASSUME NEW E \in SUBSET Defenders, Engage(p, mates, E, {}) PROVE TypeOK'
    BY <2>1, <2>3, TypeEngage DEF Defenders
  <2> QED
    BY <1>1, <2>2, <2>3
<1>2. CASE Handlers
  <2>1. PICK p \in list :
          \/ \E s \in ClientSeats[p], k \in ClientSkills, t \in ClientTargets : Attack(p, s, k, t)
          \/ UseItem(p)
          \/ \E x \in PetsOf(p) : PetBattle(p, x)
          \/ PetRest(p)
    BY <1>2 DEF Handlers
  <2>2. /\ p \in Players /\ PetsOf(p) \subseteq Pets
        /\ ClientSeats[p] \subseteq Seats /\ ClientTargets \subseteq Seats
    BY SkillAssumption DEF TypeOK, PetsOf
  <2> QED
    BY <2>1, <2>2, TypeHandlers
<1>3. ASSUME NEW p \in Players, \/ Logout(p) \/ \E s \in ClientSeats[p] : AttackNobody(p, s)
                                \/ \E x \in Pets \cup {None} : PetOutside(p, x)
      PROVE  TypeOK'
  <2>1. ClientSeats[p] \subseteq Seats
    BY SkillAssumption
  <2> QED
    BY <1>3, <2>1, TypeHandlers
<1>4. CASE World
  <2>1. StrikeCrash \/ EscapeCrash => TypeOK'
    BY DEF StrikeCrash, EscapeCrash, Crash, unitVars, boardVars, roundVars, timeVars, lootVars, TypeOK
  <2> QED
    BY <1>4, <2>1, TypeTick, TypeBuild, TypeUpdate, TypeSend, TypeFinish DEF World
<1>5. CASE UNCHANGED vars
  BY <1>5 DEF vars, unitVars, boardVars, roundVars, timeVars, lootVars, ctrlVars, TypeOK
<1> QED
  BY <1>1, <1>2, <1>3, <1>4, <1>5 DEF Next

-----------------------------------------------------------------------------
\* Rounds are built on what is on the board

LEMMA VisitedStep == TypeOK /\ NoEngine /\ Visited /\ [Next]_vars => Visited'
<1> SUFFICES ASSUME TypeOK, NoEngine, Visited, [Next]_vars PROVE Visited'
  OBVIOUS
<1> USE DEF Visited
<1>1. ASSUME NEW p, NEW mates, NEW E, NEW C, Engage(p, mates, E, C) PROVE Visited'
  BY <1>1 DEF Engage, NoEngine
<1>2. ASSUME NEW b, NEW turn, NEW tick, BuildActions(b, turn, tick)
      PROVE  \A s \in todo' : b[s] # None
  BY <1>2 DEF BuildActions, Able, Alive
<1>3. ASSUME NEW b, NEW turn, NEW c, Idle, Answer(b, turn, c)
      PROVE  phase' = "ai" => \A s \in todo' : b[s] # None
  BY <1>2, <1>3 DEF Idle, Answer
<1>4. ASSUME NEW p, NEW s, NEW k, NEW t, Attack(p, s, k, t) PROVE Visited'
  BY <1>3, <1>4 DEF Attack, boardVars
<1>5. ASSUME NEW p, UseItem(p) PROVE Visited'
  BY <1>3, <1>5 DEF UseItem, boardVars
<1>6. ASSUME NEW p, NEW x, PetBattle(p, x) PROVE Visited'
  BY <1>3, <1>6 DEF PetBattle
<1>7. ASSUME NEW p, PetRest(p) PROVE Visited'
  BY <1>3, <1>7 DEF PetRest
<1>8. ASSUME NEW p, NEW x, PetOutside(p, x) PROVE Visited'
  BY <1>8 DEF PetOutside, ctrlVars
<1>9. ASSUME NEW p, Logout(p) \/ \E s : AttackNobody(p, s) PROVE Visited'
  BY <1>9 DEF Logout, AttackNobody, Crash, boardVars, Idle, DeleteEngine, ctrlVars
<1>10. CASE Build
  BY <1>10 DEF Build, AIMove, AIDone, BuildNext, BuildDone, Inside, ctrlVars, boardVars
<1>11. CASE TickStart
  BY <1>2, <1>11 DEF TickStart, Idle, boardVars
<1>12. CASE Update \/ Finish
  BY <1>12 DEF Update, ItemAnimation, StopInUpdate, StillWaiting, Animation, RoundOver, TakeGroup,
               RedirectCrash, Goes, Finish, ConcludeCrash, GoOn, Conclude, DeleteEngine, Crash,
               Inside, boardVars, ctrlVars
<1>13. CASE Send
  <2>1. Inside("send") /\ \E a : Done(a)
    BY <1>13 DEF Send, Acting, Skip, Defend, Escape, Strike, Disable, Catch
  <2> QED
    BY <2>1 DEF Inside, Done
<1>14. CASE UNCHANGED vars
  BY <1>14 DEF vars, boardVars, ctrlVars
<1>15. CASE StrikeCrash \/ EscapeCrash
  BY <1>15 DEF StrikeCrash, EscapeCrash, Crash, Acting, Inside, boardVars
<1> QED
  BY <1>1, <1>4, <1>5, <1>6, <1>7, <1>8, <1>9, <1>10, <1>11, <1>12, <1>13, <1>14, <1>15
  DEF Next, Handlers, World

-----------------------------------------------------------------------------
\* Groups

\* A group grows only by commands CanLink accepts.
LEMMA LinkedAppend ==
  ASSUME TypeOK, LinkedSound, NEW d, NEW l \in BOOLEAN,
         l => queue # <<>> /\ CanLink(queue[Len(queue)].cmd, d),
         queue' = Append(queue, [cmd |-> d, linked |-> l])
  PROVE  LinkedSound'
<1> DEFINE n == Len(queue)
           e == [cmd |-> d, linked |-> l]
<1>1. queue \in Seq(Entries) /\ n \in Nat /\ (queue # <<>> => n > 0)
  BY DEF TypeOK
<1>2. Len(queue') = n + 1 /\ queue'[n + 1] = e /\ \A i \in 1..n : queue'[i] = queue[i]
  BY <1>1
<1>3. ASSUME NEW i \in 1..(Len(queue') - 1), (queue'[i + 1]).linked
      PROVE  CanLink((queue'[i]).cmd, (queue'[i + 1]).cmd)
  <2>1. CASE i = n
    BY <1>1, <1>2, <1>3, <2>1
  <2>2. CASE i \in 1..(n - 1)
    <3>1. queue'[i] = queue[i] /\ queue'[i + 1] = queue[i + 1]
      BY <1>1, <1>2, <2>2
    <3> QED
      BY <1>3, <2>2, <3>1 DEF LinkedSound
  <2> QED
    BY <1>1, <1>2, <2>1, <2>2
<1> QED
  BY <1>3 DEF LinkedSound, CanLink

\* Executing a command shortens its group.
LEMMA LinkedTail ==
  ASSUME TypeOK, LinkedSound, queue # <<>>, queue' = Tail(queue) PROVE LinkedSound'
<1>1. queue \in Seq(Entries)
  BY DEF TypeOK
<1>2. Len(queue') = Len(queue) - 1 /\ \A i \in 1..(Len(queue) - 1) : queue'[i] = queue[i + 1]
  BY <1>1
<1>3. ASSUME NEW i \in 1..(Len(queue') - 1), (queue'[i + 1]).linked
      PROVE  CanLink((queue'[i]).cmd, (queue'[i + 1]).cmd)
  <2>1. /\ i + 1 \in 1..(Len(queue) - 1)
        /\ queue'[i] = queue[i + 1] /\ queue'[i + 1] = queue[(i + 1) + 1]
    BY <1>1, <1>2
  <2> QED
    BY <1>3, <2>1 DEF LinkedSound
<1> QED
  BY <1>3 DEF LinkedSound, CanLink

\* A group broken up by SendAction is a single command and a group of the rest.
LEMMA LinkedBroken ==
  ASSUME TypeOK, LinkedSound, queue # <<>>, NEW c \in Commands,
         queue' = <<[cmd |-> c, linked |-> FALSE]>> \o OpenSlot(Tail(queue))
  PROVE  LinkedSound'
<1> DEFINE n == Len(queue)
           r == OpenSlot(Tail(queue))
<1>1. queue \in Seq(Entries) /\ n \in Nat \ {0}
  BY DEF TypeOK
<1>2. Tail(queue) \in Seq(Entries) /\ Len(Tail(queue)) = n - 1
      /\ \A i \in 1..(n - 1) : Tail(queue)[i] = queue[i + 1]
  BY <1>1
<1>3. /\ r \in Seq(Entries) /\ Len(r) = n - 1
      /\ \A i \in 1..(n - 1) : i # 1 => r[i] = queue[i + 1]
      /\ n > 1 => r[1] = [cmd |-> queue[2].cmd, linked |-> FALSE]
  <2>1. r \in Seq(Entries)
    BY <1>2, OpenSlotType
  <2>2. DOMAIN r = 1..(n - 1)
    BY <1>2 DEF OpenSlot
  <2>3. Len(r) = n - 1
    BY <1>1, <2>1, <2>2
  <2>4. \A i \in 1..(n - 1) : i # 1 => r[i] = queue[i + 1]
    BY <1>2 DEF OpenSlot
  <2>5. ASSUME n > 1 PROVE r[1] = [cmd |-> queue[2].cmd, linked |-> FALSE]
    <3>1. 1 \in 1..Len(Tail(queue)) /\ Tail(queue)[1] = queue[2]
      BY <1>1, <1>2, <2>5
    <3> QED
      BY <3>1 DEF OpenSlot
  <2> QED
    BY <2>1, <2>3, <2>4, <2>5
<1>4. queue' = <<[cmd |-> c, linked |-> FALSE]>> \o r
  OBVIOUS
<1> HIDE DEF r
<1>5. Len(queue') = n /\ \A i \in 2..n : queue'[i] = r[i - 1]
  <2>1. <<[cmd |-> c, linked |-> FALSE]>> \in Seq(Entries)
    BY DEF Entries
  <2> QED
    BY <1>1, <1>3, <1>4, <2>1, ConcatProperties
<1>6. ASSUME NEW i \in 1..(Len(queue') - 1), (queue'[i + 1]).linked
      PROVE  CanLink((queue'[i]).cmd, (queue'[i + 1]).cmd)
  <2>1. CASE i = 1
    <3>1. queue'[2] = r[1] /\ n > 1
      BY <1>1, <1>5, <2>1
    <3> QED
      BY <1>3, <1>6, <2>1, <3>1
  <2>2. CASE i = 2
    <3>1. n > 2 /\ queue'[3] = queue[3] /\ queue'[2] = r[1]
      BY <1>1, <1>3, <1>5, <2>2
    <3>2. r[1] = [cmd |-> queue[2].cmd, linked |-> FALSE]
      BY <1>3, <3>1
    <3>3. queue[3].linked => CanLink(queue[2].cmd, queue[3].cmd)
      BY <1>1, <3>1 DEF LinkedSound
    <3> QED
      BY <1>6, <2>2, <3>1, <3>2, <3>3
  <2>3. CASE i > 2
    <3>1. ASSUME NEW j \in 3..n PROVE queue'[j] = queue[j]
      <4>1. queue'[j] = r[j - 1] /\ j - 1 \in 1..(n - 1) /\ j - 1 # 1 /\ (j - 1) + 1 = j
        BY <1>1, <1>5
      <4> QED
        BY <1>3, <4>1
    <3>2. i \in 3..n /\ i + 1 \in 3..n /\ i \in 1..(n - 1)
      BY <1>1, <1>5, <2>3
    <3>3. queue'[i] = queue[i] /\ queue'[i + 1] = queue[i + 1]
      BY <3>1, <3>2
    <3> QED
      BY <1>6, <3>2, <3>3 DEF LinkedSound
  <2> QED
    BY <1>1, <1>5, <2>1, <2>2, <2>3
<1> QED
  BY <1>6 DEF LinkedSound, CanLink

LEMMA LinkedEmpty == queue' = <<>> => LinkedSound'
BY DEF LinkedSound

LEMMA LinkedKept == LinkedSound /\ UNCHANGED queue => LinkedSound'
BY DEF LinkedSound, CanLink

LEMMA LinkedStep == TypeOK /\ LinkedSound /\ Aimed /\ [Next]_vars => LinkedSound'
<1> SUFFICES ASSUME TypeOK, LinkedSound, Aimed, [Next]_vars PROVE LinkedSound'
  OBVIOUS
<1>1. CASE BuildNext
  BY <1>1, LinkedAppend DEF BuildNext
<1>2. CASE TakeGroup
  BY <1>2, LinkedBroken, LinkedKept, RedirectedType DEF TakeGroup
<1>3. CASE Send
  <2>1. Inside("send") /\ \E a : Done(a)
    BY <1>3 DEF Send, Acting, Skip, Defend, Escape, Strike, Disable, Catch
  <2> QED
    BY <2>1, LinkedTail DEF Inside, Done, Aimed
<1>4. CASE ~BuildNext /\ ~TakeGroup /\ ~Send
  <2>1. \A b, turn, c : Answer(b, turn, c) => queue' = <<>> \/ UNCHANGED queue
    BY DEF Answer, BuildActions
  <2>2. queue' = <<>> \/ UNCHANGED queue
    <3> USE DEF roundVars
    <3>1. CASE Handlers
      BY <2>1, <3>1, HandlersAnswer
    <3>2. CASE World
      BY <1>4, <3>2 DEF World, TickStart, BuildActions, Build, AIMove, AIDone, BuildDone, Update,
                        ItemAnimation, StopInUpdate, StillWaiting, Animation, RoundOver,
                        RedirectCrash, StrikeCrash, EscapeCrash, Finish, ConcludeCrash, GoOn, Conclude, DeleteEngine, Crash
    <3>3. CASE \E p, s, x : Logout(p) \/ AttackNobody(p, s) \/ PetOutside(p, x)
      BY <3>3 DEF Logout, DeleteEngine, AttackNobody, Crash, PetOutside
    <3>4. ASSUME NEW p, NEW mates, NEW E, NEW C, Engage(p, mates, E, C) PROVE UNCHANGED queue
      BY <3>4 DEF Engage
    <3>5. CASE UNCHANGED vars
      BY <3>5 DEF vars
    <3> QED
      BY <3>1, <3>2, <3>3, <3>4, <3>5 DEF Next
  <2> QED
    BY <2>2, LinkedEmpty, LinkedKept
<1> QED
  BY <1>1, <1>2, <1>3, <1>4

\* The command at the head of a group that goes on is followed by one that links
\* with it, so both are plain blows at the same target.
LEMMA GroupGoesOn ==
  ASSUME TypeOK, LinkedSound, Aimed, phase = "send", ~GroupEnds
  PROVE  /\ Tail(queue) # <<>> /\ Tail(queue)[1] = queue[2]
         /\ queue[2].cmd.target = Cmd.target /\ Cmd.skill \in {"attack", "area", "stun"}
<1>1. queue \in Seq(Entries) /\ queue # <<>>
  BY DEF TypeOK, Aimed
<1>2. Len(queue) >= 2 /\ queue[2].linked
  <2>1. Len(queue) \in Nat \ {0, 1}
    BY <1>1 DEF GroupEnds
  <2>2. Len(queue) >= 2
    <3>1. \A n \in Nat \ {0, 1} : n >= 2
      OBVIOUS
    <3> QED
      BY <2>1, <3>1
  <2>3. queue[2] \in Entries
    BY <1>1, <2>2
  <2>4. queue[2].linked \in BOOLEAN
    BY <2>3 DEF Entries
  <2> QED
    BY <2>2, <2>4 DEF GroupEnds
<1>3. CanLink(queue[1].cmd, queue[2].cmd)
  <2>1. 1 \in 1..(Len(queue) - 1)
    BY <1>1, <1>2
  <2> QED
    BY <1>2, <2>1 DEF LinkedSound
<1>4. Tail(queue) # <<>> /\ Tail(queue)[1] = queue[2]
  <2>1. Tail(queue) \in Seq(Entries) /\ Len(Tail(queue)) = Len(queue) - 1
    BY <1>1, <1>2
  <2>2. Tail(queue)[1] = queue[2]
    BY <1>1, <1>2
  <2>3. Tail(queue) # <<>>
    <3>1. Len(Tail(queue)) # 0
      BY <1>1, <1>2, <2>1
    <3> QED
      BY <2>1, <3>1, EmptySeq
  <2> QED
    BY <2>2, <2>3
<1> QED
  BY <1>3, <1>4, SkillAssumption DEF CanLink, Cmd

\* RedirectTarget finds a living enemy: BattleConcluded was asked before, and
\* no item kept it from answering.
LEMMA Redirects ==
  ASSUME TypeOK, Pending, Goes, animationTime = 0, NEW c \in Redirected(queue[1].cmd)
  PROVE  Alive(at, c.target) /\ at[c.target] # None
<1> DEFINE s == queue[1].cmd.seat
<1>1. ~Decided
  BY DEF Goes, Inside, Concluded, Pending
<1>2. AtkSeats \subseteq Seats
  BY UnitsAssumption DEF AtkSeats, Seats, PetSeats
<1>3. LiveFoes(s) # {}
  <2>1. Seats \ SideOf(s) = DefSeats \/ Seats \ SideOf(s) = AtkSeats
    BY <1>2 DEF SideOf, DefSeats
  <2> QED
    BY <1>1, <2>1 DEF LiveFoes, Decided
<1>4. PICK t \in First(LiveFoes(s)) : c.target = t
  BY <1>3 DEF Redirected
<1> QED
  BY <1>4 DEF First, LiveFoes, LiveOn, Alive

LEMMA TakeGroupAims ==
  ASSUME TypeOK, Pending, TakeGroup
  PROVE  queue' # <<>> /\ Alive(at, (queue'[1]).cmd.target)
<1>1. queue \in Seq(Entries) /\ queue # <<>>
  BY DEF TypeOK, TakeGroup
<1>2. CASE Alive(at, queue[1].cmd.target) /\ queue' = queue
  BY <1>1, <1>2
<1>3. ASSUME NEW c \in Redirected(queue[1].cmd),
             queue' = <<[cmd |-> c, linked |-> FALSE]>> \o OpenSlot(Tail(queue))
      PROVE  queue' # <<>> /\ Alive(at, (queue'[1]).cmd.target)
  <2>1. Tail(queue) \in Seq(Entries) /\ c \in Commands
    BY <1>1, RedirectedType
  <2>2. OpenSlot(Tail(queue)) \in Seq(Entries) /\ <<[cmd |-> c, linked |-> FALSE]>> \in Seq(Entries)
    <3>1. [cmd |-> c, linked |-> FALSE] \in Entries
      BY <2>1 DEF Entries
    <3>2. OpenSlot(Tail(queue)) \in Seq(Entries)
      BY <2>1, OpenSlotType
    <3> QED
      BY <3>1, <3>2
  <2>3. queue' \in Seq(Entries) /\ Len(queue') >= 1 /\ queue'[1] = [cmd |-> c, linked |-> FALSE]
    BY <1>3, <2>2, ConcatProperties
  <2>4. Alive(at, c.target)
    BY Redirects DEF TakeGroup
  <2> QED
    BY <2>3, <2>4
<1> QED
  BY <1>2, <1>3 DEF TakeGroup

LEMMA AimedStep ==
  TypeOK /\ NoEngine /\ LinkedSound /\ Aimed /\ Pending /\ [Next]_vars => Aimed'
<1> SUFFICES ASSUME TypeOK, NoEngine, LinkedSound, Aimed, Pending, [Next]_vars PROVE Aimed'
  OBVIOUS
<1>1. CASE TakeGroup
  <2>1. queue' # <<>> /\ Alive(at, (queue'[1]).cmd.target) /\ UNCHANGED at
    BY <1>1, TakeGroupAims DEF TakeGroup, boardVars
  <2> QED
    BY <2>1 DEF Aimed, Alive
<1>2. CASE Send
  <2>0. phase = "send" /\ \E a : Done(a)
    BY <1>2 DEF Send, Acting, Inside, Skip, Defend, Escape, Strike, Disable, Catch
  <2>1. CASE GroupEnds
    BY <2>0, <2>1 DEF Done, Aimed
  <2>2. CASE ~GroupEnds
    <3>1. Skip \/ Strike \/ Disable
      BY <1>2, <2>0, <2>2, GroupGoesOn DEF Send, Defend, Escape, Catch, Acting
    <3>2. UNCHANGED at
      BY <3>1 DEF Skip, Strike, Disable
    <3>3. queue' = Tail(queue)
      BY <2>0 DEF Done
    <3> QED
      BY <2>0, <2>2, <3>2, <3>3, GroupGoesOn DEF Aimed, Cmd
  <2> QED
    BY <2>1, <2>2
<1>3. CASE ~TakeGroup /\ ~Send
  <2>1. phase' # "send" \/ UNCHANGED <<phase, queue, at>>
    <3> USE DEF boardVars, roundVars, ctrlVars
    <3>1. \A b, turn, c : Idle /\ Answer(b, turn, c) => phase' # "send"
      BY DEF Idle, Answer, BuildActions
    <3>2. CASE Handlers
      BY <3>1, <3>2, HandlersAnswer
    <3>3. CASE World
      BY <1>3, <3>3 DEF World, TickStart, BuildActions, Build, AIMove, AIDone, BuildNext, BuildDone,
                        Update, ItemAnimation, StopInUpdate, StillWaiting, Animation, RoundOver,
                        RedirectCrash, StrikeCrash, EscapeCrash, Acting, Finish, ConcludeCrash, GoOn, Conclude, DeleteEngine, Crash,
                        Inside, Idle
    <3>4. ASSUME NEW p, Logout(p) \/ \E s, x : AttackNobody(p, s) \/ PetOutside(p, x)
          PROVE  phase' # "send"
      BY <3>4 DEF Logout, DeleteEngine, AttackNobody, Crash, PetOutside, Idle
    <3>5. ASSUME NEW p, NEW mates, NEW E, NEW C, Engage(p, mates, E, C) PROVE phase' # "send"
      BY <3>5 DEF Engage, NoEngine
    <3>6. CASE UNCHANGED vars
      BY <3>6 DEF vars
    <3> QED
      BY <3>2, <3>3, <3>4, <3>5, <3>6 DEF Next
  <2> QED
    BY <2>1 DEF Aimed
<1> QED
  BY <1>1, <1>2, <1>3

LEMMA PendingStep == TypeOK /\ NoEngine /\ Pending /\ [Next]_vars => Pending'
<1> SUFFICES ASSUME TypeOK, NoEngine, Pending, [Next]_vars PROVE Pending'
  OBVIOUS
<1> USE DEF lootVars, timeVars, ctrlVars, Pending
<1>1. ASSUME NEW b, NEW turn, NEW c, Idle, Answer(b, turn, c), UNCHANGED <<animationTime, lootVars>>
      PROVE  Pending'
  BY <1>1 DEF Idle
<1>2. CASE Handlers
  BY <1>1, <1>2, HandlersAnswer
<1>3. ASSUME NEW p, Logout(p) \/ \E s, x : AttackNobody(p, s) \/ PetOutside(p, x) PROVE Pending'
  BY <1>3 DEF Logout, DeleteEngine, AttackNobody, Crash, PetOutside
<1>4. ASSUME NEW p, NEW mates, NEW E, NEW C, Engage(p, mates, E, C) PROVE Pending'
  BY <1>4 DEF Engage, NoEngine
<1>5. CASE TickStart
  BY <1>5 DEF TickStart, Idle
<1>6. CASE Build
  BY <1>6 DEF Build, AIMove, AIDone, BuildNext, BuildDone, Inside
<1>7. CASE Update
  BY <1>7 DEF Update, ItemAnimation, StopInUpdate, StillWaiting, Animation, RoundOver, TakeGroup,
              RedirectCrash, Crash
<1>8. CASE Send
  <2>1. Inside("send") /\ \E a : Done(a)
    BY <1>8 DEF Send, Acting, Skip, Defend, Escape, Strike, Disable, Catch
  <2> QED
    BY <2>1 DEF Done
<1>9. CASE Finish
  BY <1>9 DEF Finish, ConcludeCrash, GoOn, GiveItemDropped, Gives, Conclude, DeleteEngine, Crash, TypeOK
<1>10. CASE UNCHANGED vars
  BY <1>10 DEF vars
<1>11. CASE StrikeCrash \/ EscapeCrash
  BY <1>11 DEF StrikeCrash, EscapeCrash, Acting, Inside, Crash
<1> QED
  BY <1>2, <1>3, <1>4, <1>5, <1>6, <1>7, <1>8, <1>9, <1>10, <1>11 DEF Next, World

-----------------------------------------------------------------------------
\* Who sits where

\* LeaveBattle clears the seats of those who leave, and of no others.
LEMMA LeaveKeepsSeats ==
  ASSUME TypeOK, Seating, NEW P \in SUBSET Players, LeaveBattle(P), UNCHANGED battlePet
  PROVE  Seating' /\ PetsStay
<1> USE DEF Seating
<1>1. /\ list' = list \ P
      /\ \A s \in Seats : at'[s] = IF at[s] \in Leavers(P) THEN None ELSE at[s]
  BY DEF LeaveBattle
<1>2. Players \subseteq Seats /\ \A p \in Players : PetSeat[p] \in Seats
  BY DEF Seats, PetSeats
<1>3. None \notin Players
  BY UnitsAssumption DEF Units
<1>4. ASSUME NEW p \in Players PROVE p \in Leavers(P) <=> p \in P
  BY UnitsAssumption DEF Leavers, TypeOK
<1>5. ASSUME NEW p \in Players PROVE p \in list' <=> at'[p] = p
  BY <1>1, <1>2, <1>3, <1>4
<1>6. ASSUME NEW s \in Seats \ PetSeats PROVE at'[s] \in {s, None}
  BY <1>1
<1>7. ASSUME NEW p \in Players, at'[PetSeat[p]] # None
      PROVE  p \in list' /\ battlePet'[p] = at'[PetSeat[p]]
  <2>1. at'[PetSeat[p]] = at[PetSeat[p]] /\ at[PetSeat[p]] \notin Leavers(P)
    BY <1>1, <1>2, <1>7
  <2>2. p \in list /\ battlePet[p] = at[PetSeat[p]]
    BY <1>7, <2>1
  <2>3. p \notin P
    BY <1>7, <2>1, <2>2 DEF Leavers
  <2> QED
    BY <1>1, <2>1, <2>2, <2>3
<1>8. \A p \in Players : battlePet'[p] # None => Owner[battlePet'[p]] = p
  OBVIOUS
<1>9. ASSUME NEW p \in Players, PetSeated(p) PROVE PetSeated(p)'
  <2> DEFINE x == at[PetSeat[p]]
  <2>1. at'[PetSeat[p]] = IF x \in Leavers(P) THEN None ELSE x
    BY <1>1, <1>2
  <2>2. CASE p \in P
    BY <1>1, <1>9, <2>1, <2>2 DEF PetSeated, Leavers
  <2>3. CASE p \notin P /\ x # None
    <3>1. x \in Pets /\ Owner[x] = p /\ x = battlePet[p]
      BY <1>2, <2>3 DEF TypeOK
    <3>2. x \notin Leavers(P)
      BY <2>3, <3>1, UnitsAssumption DEF Leavers
    <3> QED
      BY <1>1, <1>9, <2>1, <2>3, <3>2 DEF PetSeated
  <2>4. CASE p \notin P /\ x = None
    BY <1>1, <1>9, <2>1, <2>4 DEF PetSeated
  <2> QED
    BY <2>2, <2>3, <2>4
<1> QED
  BY <1>5, <1>6, <1>7, <1>8, <1>9 DEF PetsStay

LEMMA SeatsKept == ASSUME Seating, UNCHANGED <<list, at, battlePet>> PROVE Seating' /\ PetsStay
BY DEF Seating, PetsStay, PetSeated

LEMMA DeletedSeats ==
  ASSUME Seating, DeleteEngine, UNCHANGED battlePet PROVE Seating' /\ PetsStay
<1>1. list' = {} /\ \A s \in Seats : at'[s] = None
  BY DEF DeleteEngine
<1>2. Players \subseteq Seats /\ (\A p \in Players : PetSeat[p] \in Seats) /\ None \notin Players
  BY UnitsAssumption DEF Seats, PetSeats, Units
<1> QED
  BY <1>1, <1>2 DEF Seating, PetsStay, PetSeated

\* Engage seats the two sides with their battle pets.
LEMMA EngageSeats ==
  ASSUME TypeOK, Seating, NEW p, NEW mates \in SUBSET Players, NEW E \in SUBSET Players,
         NEW C \in SUBSET Creatures, Engage(p, mates, E, C)
  PROVE  Seating' /\ PetsStay
<1> DEFINE P == mates \cup E
<1>1. list' = P /\ at' = NewBoard(P, C) /\ UNCHANGED battlePet
  BY DEF Engage
<1>2. /\ Players \subseteq Seats /\ None \notin Players /\ Players \cap PetSeats = {}
      /\ Players \cap Creatures = {}
  BY UnitsAssumption DEF Seats, Units
<1>3. ASSUME NEW q \in Players PROVE q \in list' <=> at'[q] = q
  BY <1>1, <1>2 DEF NewBoard
<1>4. ASSUME NEW s \in Seats \ PetSeats PROVE at'[s] \in {s, None}
  BY <1>1 DEF NewBoard
<1>5. ASSUME NEW q \in Players PROVE at'[PetSeat[q]] = IF q \in P THEN battlePet[q] ELSE None
  <2>1. PetSeat[q] \in PetSeats /\ PetSeat[q] \in Seats /\ PetSeat[q] \notin P \cup C
    BY UnitsAssumption DEF PetSeats, Seats
  <2>2. SeatOwner(PetSeat[q]) = q
    BY UnitsAssumption DEF SeatOwner
  <2> QED
    BY <1>1, <2>1, <2>2 DEF NewBoard
<1> QED
  BY <1>1, <1>3, <1>4, <1>5 DEF Seating, PetsStay, PetSeated

\* A pet that is called to the board, or sent away, is its owner's.
LEMMA PetCalled ==
  ASSUME TypeOK, Seating, NEW p \in Players, NEW x \in PetsOf(p) \cup {None},
         UNCHANGED list,
         battlePet' = [battlePet EXCEPT ![p] = x],
         \/ p \in list /\ at' = [at EXCEPT ![PetSeat[p]] = x]
         \/ at[PetSeat[p]] = None /\ UNCHANGED at /\ (p \notin list \/ x = None)
  PROVE  Seating' /\ PetsStay
<1> USE DEF Seating
<1>1. /\ Players \subseteq Seats /\ Players \cap PetSeats = {} /\ PetSeat[p] \in Seats
      /\ PetSeat[p] \in PetSeats /\ \A q \in Players : q # p => PetSeat[q] # PetSeat[p]
  BY UnitsAssumption DEF Seats, PetSeats
<1>2. \A s \in Seats : s # PetSeat[p] => at'[s] = at[s]
  BY DEF TypeOK
<1>3. at'[PetSeat[p]] # None => p \in list /\ at'[PetSeat[p]] = x
  BY <1>1 DEF TypeOK
<1>4. battlePet'[p] = x /\ \A q \in Players : q # p => battlePet'[q] = battlePet[q]
  BY DEF TypeOK
<1>5. x # None => Owner[x] = p
  BY DEF PetsOf
<1>6. \A q \in Players : PetSeat[q] \in Seats
  BY DEF Seats, PetSeats
<1>7. ASSUME NEW q \in Players PROVE q \in list' <=> at'[q] = q
  BY <1>1, <1>2
<1>8. ASSUME NEW s \in Seats \ PetSeats PROVE at'[s] \in {s, None}
  BY <1>1, <1>2
<1>9. ASSUME NEW q \in Players, at'[PetSeat[q]] # None
      PROVE  q \in list' /\ battlePet'[q] = at'[PetSeat[q]]
  <2>1. CASE q = p
    BY <1>3, <1>4, <1>9, <2>1
  <2>2. CASE q # p
    BY <1>1, <1>2, <1>4, <1>6, <1>9, <2>2
  <2> QED
    BY <2>1, <2>2
<1>10. \A q \in Players : battlePet'[q] # None => Owner[battlePet'[q]] = q
  BY <1>4, <1>5
<1>11. ASSUME NEW q \in Players, PetSeated(q) PROVE PetSeated(q)'
  <2>1. CASE q = p
    <3>1. at'[PetSeat[p]] = IF p \in list THEN x ELSE None
      BY <1>1 DEF TypeOK
    <3> QED
      BY <1>4, <2>1, <3>1 DEF PetSeated
  <2>2. CASE q # p
    BY <1>1, <1>2, <1>4, <1>6, <1>11, <2>2 DEF PetSeated
  <2> QED
    BY <2>1, <2>2
<1> QED
  BY <1>7, <1>8, <1>9, <1>10, <1>11 DEF PetsStay

\* Whoever is caught is no player, and nobody else's seat changes.
LEMMA CatchSeats ==
  ASSUME TypeOK, Seating, Aimed, Catch
  PROVE  /\ Seating'
         /\ \A p \in Players : PetSeated(p) /\ ~PetSeated(p)' => Cmd.target = PetSeat[p]
<1>1. UNCHANGED <<list, battlePet>> /\ phase = "send"
  BY DEF Catch, Done, Acting, Inside
<1>2. CASE UNCHANGED at
  BY <1>1, <1>2, SeatsKept DEF PetsStay
<1>3. CASE Catchable /\ at' = [at EXCEPT ![Cmd.target] = None]
  <2>1. Cmd.target \in Seats /\ Players \subseteq Seats /\ \A p \in Players : PetSeat[p] \in Seats
    BY <1>1, CmdType DEF Commands, Seats, PetSeats
  <2>2. at[Cmd.target] \notin Players \cup {None}
    BY <1>3, UnitsAssumption DEF Catchable, Alive
  <2>3. \A p \in Players : Cmd.target # p
    BY <2>1, <2>2, UnitsAssumption DEF Seating
  <2>4. \A s \in Seats : s # Cmd.target => at'[s] = at[s]
    BY <1>3 DEF TypeOK
  <2>5. at'[Cmd.target] = None
    BY <1>3, <2>1 DEF TypeOK
  <2>6. ASSUME NEW p \in Players PROVE p \in list' <=> at'[p] = p
    BY <1>1, <2>1, <2>3, <2>4 DEF Seating
  <2>7. ASSUME NEW s \in Seats \ PetSeats PROVE at'[s] \in {s, None}
    BY <2>4, <2>5 DEF Seating
  <2>8. ASSUME NEW p \in Players, at'[PetSeat[p]] # None
        PROVE  p \in list' /\ battlePet'[p] = at'[PetSeat[p]]
    BY <1>1, <2>1, <2>4, <2>5, <2>8 DEF Seating
  <2>9. ASSUME NEW p \in Players, PetSeated(p), ~PetSeated(p)' PROVE Cmd.target = PetSeat[p]
    BY <1>1, <2>1, <2>4, <2>9 DEF PetSeated
  <2> QED
    BY <1>1, <2>6, <2>7, <2>8, <2>9 DEF Seating
<1> QED
  BY <1>2, <1>3 DEF Catch

\* A pet is caught: the only way seat and battle pet part.
PetsCaught ==
  \A p \in Players : PetSeated(p) /\ ~PetSeated(p)' =>
    phase = "send" /\ Cmd.skill = "catch" /\ Cmd.target = PetSeat[p]

LEMMA SendSeats ==
  ASSUME TypeOK, Aimed, Seating, Send PROVE Seating' /\ PetsCaught
<1>1. phase = "send" /\ UNCHANGED battlePet
  BY DEF Send, Skip, Defend, Escape, Strike, Disable, Catch, Acting, Inside, Done
<1>2. CASE Catch
  <2>1. Cmd.skill = "catch"
    BY <1>2 DEF Catch, Acting
  <2> QED
    BY <1>1, <1>2, <2>1, CatchSeats DEF PetsCaught
<1>3. CASE Cmd.seat \notin Creatures /\ LeaveBattle({Escaper})
  <2>1. Cmd.seat \in Players \cup PetSeats
    BY <1>1, <1>3, CmdType DEF Commands, Seats
  <2>2. Escaper \in Players
    BY <2>1 DEF Escaper, SeatOwner, PetSeats
  <2>3. PICK e : e = Escaper
    OBVIOUS
  <2>4. {e} \in SUBSET Players /\ LeaveBattle({e})
    BY <1>3, <2>2, <2>3
  <2> QED
    BY <1>1, <2>4, LeaveKeepsSeats DEF PetsStay, PetsCaught
<1>4. CASE UNCHANGED <<list, at>>
  BY <1>1, <1>4, SeatsKept DEF PetsStay, PetsCaught
<1> QED
  BY <1>2, <1>3, <1>4 DEF Send, Skip, Defend, Escape, Strike, Disable

LEMMA SeatingStep ==
  TypeOK /\ Aimed /\ Seating /\ [Next]_vars => Seating' /\ PetsCaught
<1> SUFFICES ASSUME TypeOK, Aimed, Seating, [Next]_vars PROVE Seating' /\ PetsCaught
  OBVIOUS
<1>0. PetsStay => PetsCaught
  BY DEF PetsStay, PetsCaught
<1> USE DEF boardVars, unitVars
<1>1. ASSUME NEW p \in Attackers, NEW mates \in SUBSET Attackers,
             \/ \E C \in SUBSET Creatures \ {{}} : Engage(p, mates, {}, C)
             \/ \E E \in SUBSET Defenders \ {{}} : Engage(p, mates, E, {})
      PROVE  Seating' /\ PetsStay
  <2>1. mates \in SUBSET Players /\ {} \in SUBSET Players /\ {} \in SUBSET Creatures
    BY UnitsAssumption
  <2> QED
    BY <1>1, <2>1, EngageSeats DEF Defenders
<1>2. ASSUME NEW p, UseItem(p) \/ \E s, k, t : Attack(p, s, k, t) \/ AttackNobody(p, s)
      PROVE  Seating' /\ PetsStay
  BY <1>2, SeatsKept DEF UseItem, Attack, AttackNobody, Crash
<1>3. ASSUME NEW p \in Players, NEW x \in PetsOf(p), PetBattle(p, x) PROVE Seating' /\ PetsStay
  BY <1>3, PetCalled DEF PetBattle
<1>4. ASSUME NEW p \in Players, PetRest(p) PROVE Seating' /\ PetsStay
  <2>1. p \in list /\ UNCHANGED list /\ battlePet' = [battlePet EXCEPT ![p] = None]
    BY <1>4 DEF PetRest
  <2>2. CASE battlePet[p] = None
    <3>1. at[PetSeat[p]] = None /\ UNCHANGED at
      BY <1>4, <2>2 DEF PetRest, Seating
    <3> QED
      BY <2>1, <3>1, PetCalled
  <2>3. CASE battlePet[p] # None
    <3>1. at' = [at EXCEPT ![PetSeat[p]] = None]
      BY <1>4, <2>3 DEF PetRest
    <3> QED
      BY <2>1, <3>1, PetCalled
  <2> QED
    BY <2>2, <2>3
<1>5. ASSUME NEW p \in Players, NEW x \in Pets \cup {None}, PetOutside(p, x) PROVE Seating' /\ PetsStay
  <2>1. at[PetSeat[p]] = None /\ p \notin list
    BY <1>5 DEF PetOutside, Seating
  <2> QED
    BY <1>5, <2>1, PetCalled DEF PetOutside
<1>6. ASSUME NEW p \in Players, Logout(p) PROVE Seating' /\ PetsStay
  <2>1. CASE DeleteEngine /\ UNCHANGED battlePet
    BY <2>1, DeletedSeats
  <2>2. CASE LeaveBattle({p}) /\ UNCHANGED battlePet
    BY <2>2, LeaveKeepsSeats
  <2>3. CASE UNCHANGED <<list, at, battlePet>>
    BY <2>3, SeatsKept
  <2> QED
    BY <1>6, <2>1, <2>2, <2>3 DEF Logout
<1>7. CASE Send
  BY <1>7, SendSeats
<1>8. CASE StopInUpdate /\ ~Crash
  <2>1. LeaveBattle(list) /\ UNCHANGED battlePet /\ list \in SUBSET Players
    BY <1>8 DEF StopInUpdate, TypeOK
  <2> QED
    BY <1>0, <2>1, LeaveKeepsSeats
<1>9. CASE Conclude /\ ~Crash
  BY <1>0, <1>9, DeletedSeats DEF Conclude
<1>10. CASE World /\ ~Send /\ (~StopInUpdate \/ Crash) /\ (~Conclude \/ Crash)
  <2>1. UNCHANGED <<list, at, battlePet>>
    BY <1>10 DEF World, TickStart, Build, AIMove, AIDone, BuildNext, BuildDone, Update, ItemAnimation,
                 StillWaiting, Animation, RoundOver, TakeGroup, RedirectCrash, StrikeCrash, EscapeCrash,
                 Finish, ConcludeCrash, GoOn, Crash
  <2> QED
    BY <1>0, <2>1, SeatsKept
<1>11. CASE UNCHANGED vars
  BY <1>0, <1>11, SeatsKept DEF vars
<1>12. CASE Handlers
  <2>1. list \subseteq Players
    BY DEF TypeOK
  <2> QED
    BY <1>0, <1>2, <1>3, <1>4, <1>12, <2>1 DEF Handlers
<1> QED
  BY <1>0, <1>1, <1>2, <1>5, <1>6, <1>7, <1>8, <1>9, <1>10, <1>11, <1>12 DEF Next

\* The master changes only by Engage, by FindNewMaster or with the
\* engine.
LEMMA MasteredStep == TypeOK /\ Mastered /\ [Next]_vars => Mastered'
<1> SUFFICES ASSUME TypeOK, Mastered, [Next]_vars PROVE Mastered'
  OBVIOUS
<1> USE DEF Mastered, boardVars, ctrlVars
<1>1. CASE Handlers
  BY <1>1 DEF Handlers, Attack, UseItem, PetBattle, PetRest
<1>2. ASSUME NEW p \in Players, Logout(p) \/ \E s, x : AttackNobody(p, s) \/ PetOutside(p, x)
      PROVE  Mastered'
  BY <1>2 DEF Logout, AttackNobody, Crash, PetOutside, DeleteEngine, TypeOK
<1>3. ASSUME NEW p \in Players, NEW mates, NEW E, NEW C, Engage(p, mates, E, C) PROVE Mastered'
  BY <1>3 DEF Engage
<1>4. CASE Send
  <2>1. \E a : Done(a)
    BY <1>4 DEF Send, Skip, Defend, Escape, Strike, Disable, Catch
  <2> QED
    BY <2>1 DEF Done
<1>5. CASE World /\ ~Send
  BY <1>5 DEF World, TickStart, Build, AIMove, AIDone, BuildNext, BuildDone, Update, ItemAnimation,
              StopInUpdate, StillWaiting, Animation, RoundOver, TakeGroup, RedirectCrash, StrikeCrash, EscapeCrash,
              Finish, ConcludeCrash, GoOn, Conclude, DeleteEngine, Crash
<1>6. CASE UNCHANGED vars
  BY <1>6 DEF vars
<1> QED
  BY <1>1, <1>2, <1>3, <1>4, <1>5, <1>6, UnitsAssumption DEF Next

-----------------------------------------------------------------------------
\* The inductive invariant

Inv ==
  /\ TypeOK /\ NoEngine /\ Quiet /\ Visited /\ LinkedSound /\ Aimed /\ Pending
  /\ Seating /\ Mastered

LEMMA InvInit == Init => Inv
<1> SUFFICES ASSUME Init PROVE Inv
  OBVIOUS
<1>1. Visited /\ LinkedSound /\ Aimed /\ Pending /\ Mastered
  BY DEF Init, Visited, LinkedSound, Aimed, Pending, Mastered
<1>3. Seating
  <2>1. Players \subseteq Seats /\ None \notin Players /\ \A p \in Players : PetSeat[p] \in Seats
    BY UnitsAssumption DEF Seats, PetSeats, Units
  <2> QED
    BY <2>1 DEF Init, Seating
<1> QED
  BY <1>1, <1>3, TypeInit, QuietInit DEF Inv

LEMMA InvStep == Inv /\ [Next]_vars => Inv'
BY TypeStep, QuietStep, VisitedStep, LinkedStep, AimedStep, PendingStep, SeatingStep,
   MasteredStep DEF Inv

LEMMA SpecInv == Spec => []Inv
BY InvInit, InvStep, PTL DEF Spec

\* Every piece of the engine's state keeps its type; in particular a unit that
\* is hurt is a unit of the board (isDealDamageToAndKill is never called on an
\* empty cell) and the answer count stays a uint8.
THEOREM TypesAreKept == Spec => []TypeOK
<1>1. Inv => TypeOK
  BY DEF Inv
<1> QED
  BY SpecInv, <1>1, PTL

\* However groups are built by BuildActions, broken up and put back by
\* SendAction, a linked attack is one side hitting one target.
THEOREM LinksAreSound == Spec => []LinkedSound
<1>1. Inv => LinkedSound
  BY DEF Inv
<1> QED
  BY SpecInv, <1>1, PTL

\* Whoever is called, rests, escapes, is caught or logs out, and whatever board
\* a battle started on: the members of a battle are the players on its board,
\* and an engine has a player for its master (JoinBattle, LeaveBattle,
\* FindNewMaster).
THEOREM MembersAreSeated == Spec => []MembersOnBoard
<1>1. Inv => MembersOnBoard
  BY DEF Inv, Seating, Mastered, MembersOnBoard
<1> QED
  BY SpecInv, <1>1, PTL

\* The unit in front of a player is the battle pet of that player, and a pet
\* of its own; no pet stays on the board without its owner, and a member's battle
\* pet stays in front of it until it rests or is caught.
THEOREM PetsAreSeated ==
  Spec => /\ PetsFollowOwners
          /\ [](\A p \in Players : at[PetSeat[p]] # None => Owner[at[PetSeat[p]]] = p)
<1> DEFINE I == \A p \in Players : at[PetSeat[p]] # None => PetSeated(p)
           J == \A p \in Players : at[PetSeat[p]] # None => Owner[at[PetSeat[p]]] = p
<1>1. Inv => I /\ J
  BY DEF Inv, Seating, PetSeated
<1>2. Inv /\ [Next]_vars => [PetsCaught]_vars
  BY SeatingStep DEF Inv
<1>3. Spec => []I /\ []J /\ [][PetsCaught]_vars
  BY SpecInv, <1>1, <1>2, PTL DEF Spec
<1> QED
  BY <1>3 DEF PetsFollowOwners, PetsCaught

\* A group taken by SendAction starts with a living target.
THEOREM TargetsAlive == Spec => FirstTargetLives
<1> DEFINE A == phase = "update" /\ phase' = "send" => Alive(at, (queue'[1]).cmd.target)
<1>1. Inv /\ [Next]_vars => [A]_vars
  <2> SUFFICES ASSUME Inv, Next, phase = "update", phase' = "send"
               PROVE  Alive(at, (queue'[1]).cmd.target)
    OBVIOUS
  <2>1. TakeGroup
    <3> USE DEF ctrlVars
    <3>1. Handlers => FALSE
      BY DEF Handlers, Attack, UseItem, PetBattle, PetRest, Idle
    <3>2. \A p, s, x : ~Logout(p) /\ ~AttackNobody(p, s) /\ ~PetOutside(p, x)
      BY DEF Logout, AttackNobody, PetOutside, Idle
    <3>3. \A p, mates, E, C : ~Engage(p, mates, E, C)
      BY DEF Engage
    <3>4. World => TakeGroup
      BY DEF World, TickStart, Idle, Build, AIMove, AIDone, BuildNext, BuildDone, Inside, Send, Skip, StrikeCrash, EscapeCrash,
             Defend, Escape, Strike, Disable, Catch, Acting, Update, ItemAnimation, StopInUpdate,
             StillWaiting, Animation, RoundOver, RedirectCrash, Finish, ConcludeCrash, GoOn, Conclude,
             Crash
    <3> QED
      BY <3>1, <3>2, <3>3, <3>4 DEF Next
  <2> QED
    BY <2>1, TakeGroupAims DEF Inv
<1> QED
  BY SpecInv, <1>1, PTL DEF Spec, FirstTargetLives

\* An item that was won is given before the next command is served, and the end
\* of the battle waits for it.
THEOREM DropsGiven == Spec => DropsAreGiven
<1> DEFINE I == phase = "idle" /\ engine = "on" => dropped = {} \/ animationTime > 0
           A == phase = "conclude" /\ engine' = "none" => dropped = {}
<1>1. Inv => I
  BY DEF Inv, Pending
<1>2. Inv /\ [Next]_vars => [A]_vars
  <2> SUFFICES ASSUME Inv, Next, phase = "conclude", engine' = "none" PROVE dropped = {}
    OBVIOUS
  <2> USE DEF ctrlVars
  <2>1. Handlers => FALSE
    BY DEF Handlers, Attack, UseItem, PetBattle, PetRest, Idle
  <2>2. \A p, s, x : ~Logout(p) /\ ~AttackNobody(p, s) /\ ~PetOutside(p, x)
    BY DEF Logout, AttackNobody, PetOutside, Idle
  <2>3. \A p, mates, E, C : ~Engage(p, mates, E, C)
    BY DEF Engage
  <2>4. World => dropped = {}
    BY DEF World, TickStart, Idle, Build, AIMove, AIDone, BuildNext, BuildDone, Inside, Send, Skip, StrikeCrash, EscapeCrash,
           Defend, Escape, Strike, Disable, Catch, Acting, Update, ItemAnimation, StopInUpdate,
           StillWaiting, Animation, RoundOver, TakeGroup, Goes, RedirectCrash, Finish, ConcludeCrash,
           GoOn, Conclude, Concluded, Crash
  <2> QED
    BY <2>1, <2>2, <2>3, <2>4 DEF Next
<1> QED
  BY SpecInv, <1>1, <1>2, PTL DEF Spec, DropsAreGiven

\* Without hit model 2 and with nobody in the last row of the board, whoever
\* falls to a skill was on the side it was aimed at.
THEOREM StrikesStayOnSide ==
  ASSUME 2 \notin Models, \A s \in Seats : Cell[s][2] < 4
  PROVE  Spec => TargetSideOnly
<1> DEFINE Fallen == {at[s] : s \in SideOf(Cmd.target)}
           A == phase = "send" => dead' \ dead \subseteq Fallen
<1>1. Inv /\ [Next]_vars => [A]_vars
  <2> SUFFICES ASSUME Inv, Next, phase = "send" PROVE dead' \ dead \subseteq Fallen
    OBVIOUS
  <2>1. /\ at \in [Seats -> Units \cup {None}] /\ Cmd.target \in Seats /\ at[Cmd.target] \in Units
    BY CmdType DEF Inv, TypeOK, Commands
  <2>2. ASSUME NEW K, Kill(K), K \subseteq SideOf(Cmd.target) PROVE dead' \ dead \subseteq Fallen
    BY <2>2 DEF Kill
  <2>3. Cmd.target \in SideOf(Cmd.target)
    BY <2>1 DEF SideOf, DefSeats
  <2>4. CASE Strike
    <3>1. PICK K : /\ Kill(K) /\ \A s \in K : s \in Seats
                   /\ \/ K \subseteq {Cmd.target}
                      \/ \E m \in Models : K \subseteq Victims(m)
      BY <2>1, <2>4, StrikeKills
    <3>2. ASSUME NEW m \in Models, NEW s \in Victims(m) PROVE s \in SideOf(Cmd.target)
      BY <2>1, <2>3, <3>2, VictimsOnSide
    <3> QED
      BY <2>2, <2>3, <3>1, <3>2
  <2>5. CASE Disable
    <3>1. UNCHANGED dead \/ \E K \in SUBSET {Cmd.target} : Kill(K)
      BY <2>5 DEF Disable
    <3> QED
      BY <2>2, <2>3, <3>1
  <2>6. CASE ~Strike /\ ~Disable
    <3>1. dead' \subseteq dead
      <4> USE DEF ctrlVars, unitVars
      <4>1. Handlers => FALSE
        BY DEF Handlers, Attack, UseItem, PetBattle, PetRest, Idle
      <4>2. \A p, s, x : ~Logout(p) /\ ~AttackNobody(p, s) /\ ~PetOutside(p, x)
        BY DEF Logout, AttackNobody, PetOutside, Idle
      <4>3. ASSUME NEW p, NEW mates, NEW E, NEW C, Engage(p, mates, E, C) PROVE dead' \subseteq dead
        BY <4>3 DEF Engage
      <4>4. World => dead' \subseteq dead
        BY <2>6 DEF World, TickStart, Idle, Build, AIMove, AIDone, BuildNext, BuildDone, Inside, Send, Skip,
               StrikeCrash, EscapeCrash, Defend, Escape, LeaveBattle, Revive, Catch, Update, ItemAnimation, StopInUpdate,
               StillWaiting, Animation, RoundOver, TakeGroup, Goes, RedirectCrash, Finish, ConcludeCrash,
               GoOn, Conclude, Crash
      <4> QED
        BY <4>1, <4>2, <4>3, <4>4 DEF Next
    <3> QED
      BY <3>1
  <2> QED
    BY <2>4, <2>5, <2>6
<1> QED
  BY SpecInv, <1>1, PTL DEF Spec, TargetSideOnly

=============================================================================

---------------------------- MODULE BattleRound ----------------------------
(***************************************************************************)
(* One battle engine (class BattleSystem, game/BattleSystem.cpp) and the   *)
(* round protocol it runs with the sessions of its players:                *)
(*                                                                         *)
(*   - the engine asks for commands (SendTurnComplete) and counts answers  *)
(*     (m_PlayerActionNeed, m_PlayerActionCount) that arrive from three    *)
(*     packet handlers;                                                    *)
(*   - once the count is reached, or the wait times out in Player::Update, *)
(*     BuildActions adds the moves of the creatures, sorts by agility and  *)
(*     groups consecutive commands into linked attacks;                    *)
(*   - every world tick of the battle master (Player::Update) executes one *)
(*     group (SendAction), lets animations run, and ends the battle when a *)
(*     side has nobody left alive.                                         *)
(*                                                                         *)
(* Everything runs in the world thread: a handler or a Player::Update runs *)
(* to its end before another one starts.  The loops inside them are steps  *)
(* of this module; "phase" is the control point, and every handler is      *)
(* guarded by phase = "idle".                                              *)
(*                                                                         *)
(* Abstractions: hit points are reduced to alive/dead and a damage roll to *)
(* its outcome; spells to the kinds the engine tells apart, with their hit *)
(* models (HitModels); buffs and the DEFEND stance (they only scale        *)
(* damage) are left out.  A linked group is a run of m_Actions: an entry   *)
(* of "queue" with linked = FALSE opens a slot, the following entries with *)
(* linked = TRUE share it.                                                 *)
(***************************************************************************)
EXTENDS HitModels, Sequences, FiniteSets

CONSTANTS
  Players,        \* player characters
  Attackers,      \* the players of the attacking side
  Pets,           \* carried pets
  Owner,          \* [Pets -> Players]
  Creatures,      \* creatures, each with a seat of its own
  PetSeat,        \* [Players -> the seat in front of the player]
  Cell,           \* [Seats -> Cells], where the seats are on the board
  Agility,        \* [Units -> Int]
  None,           \* an empty seat, or no pet / no master
  CreatureSkills, \* the skills GetRandomSpell may return
  ClientSkills,   \* the skills clients send
  ClientSeats,    \* [Players -> the seats its client commands]: nothing asks whose they are
  ClientTargets,  \* the seats clients aim at: nothing asks which side they are on
  Linkable,       \* skills whose SpellInfo.Type > 0, and the basic attack
  Area,           \* skills of hit model 2..10: the primary target is always hit
  Models,         \* their hit models
  MaxActionTime,  \* MAX_ACTION_TIME, ticks
  AnimTicks,      \* ticks of a WaitForAnimation (12, 25 or 40)
  ItemTicks,      \* ticks of the item animation (3)
  MaxStun,        \* longest disabled state, in rounds
  CountBound,     \* bound on the answers counted in one round
  TurnBound       \* bound on the commands waiting in m_unitTurn

Units      == Players \cup Pets \cup Creatures
PetSeats   == {PetSeat[p] : p \in Players}
Seats      == Players \cup Creatures \cup PetSeats
Skills     == {"attack", "area", "stun", "catch", "defend", "escape"}
Defenders  == Players \ Attackers
AtkSeats   == Attackers \cup {PetSeat[p] : p \in Attackers}
DefSeats   == Seats \ AtkSeats
PetsOf(p)  == {x \in Pets : Owner[x] = p}
Commands   == [seat : Seats, skill : Skills, target : Seats, agi : Int]
Entries    == [cmd : Commands, linked : BOOLEAN]
Phases     == {"idle", "ai", "sort", "update", "send", "conclude"}

ASSUME UnitsAssumption ==
  /\ IsFiniteSet(Seats)
  /\ Attackers \subseteq Players
  /\ Players \cap Pets = {} /\ Players \cap Creatures = {} /\ Pets \cap Creatures = {}
  /\ None \notin Units
  /\ Owner \in [Pets -> Players]
  /\ PetSeats \cap (Players \cup Creatures) = {}
  /\ \A p, q \in Players : PetSeat[p] = PetSeat[q] => p = q
  /\ Agility \in [Units -> Int]

\* No two units share a cell, and the sides have the columns of isDefPos.
ASSUME BoardAssumption ==
  /\ Cell \in [Seats -> Cells]
  /\ \A s, t \in Seats : Cell[s] = Cell[t] => s = t
  /\ \A s \in Seats : s \in DefSeats <=> isDefPos(Cell[s][1])

\* SPELL_BASIC links by definition; the Type of the self-targeted spells is 0
ASSUME SkillAssumption ==
  /\ CreatureSkills \subseteq {"attack", "area", "stun"}
  /\ ClientSkills \subseteq Skills
  /\ ClientSeats \in [Players -> SUBSET Seats] /\ ClientTargets \subseteq Seats
  /\ Linkable \subseteq {"attack", "area", "stun"}
  /\ Area \subseteq {"area"}
  /\ Models \subseteq AreaModels

ASSUME TimeAssumption ==
  /\ MaxActionTime \in Nat \ {0} /\ AnimTicks \in Nat \ {0}
  /\ ItemTicks \in Nat \ {0} /\ MaxStun \in Nat \ {0}
  /\ CountBound \in 1..255 /\ TurnBound \in Nat

VARIABLES
  engine,         \* PlayerBattleClass of the master: "none", "on"; "crashed": it died, or may do anything
  phase,          \* control point of the world thread
  inTick,         \* the running BuildActions was called by Player::Update
  master,         \* i_master
  list,           \* m_PlayerList
  at,             \* m_BattleUnit
  dead,           \* units whose death state is DEAD
  stun,           \* m_disabled_duration; isDisabled() iff it is not 0
  battlePet,      \* Player::m_battlePet
  unitTurn,       \* m_unitTurn
  queue,          \* m_Actions, slot after slot
  todo,           \* creatures AIMove has still to visit
  need, count,    \* m_PlayerActionNeed, m_PlayerActionCount
  wait,           \* m_waitForAction
  actionTime, animationTime, itemTime,
  creatureKilled, \* m_creatureKilled
  dropped,        \* receiver seats of m_itemDropped
  acted           \* valid_action of the running SendAction

unitVars  == <<dead, stun, battlePet>>
boardVars == <<master, list, at>>
roundVars == <<unitTurn, queue, need, count, wait>>
timeVars  == <<actionTime, animationTime, itemTime>>
lootVars  == <<creatureKilled, dropped>>
ctrlVars  == <<engine, phase, inTick, todo, acted>>
vars == <<unitVars, boardVars, roundVars, timeVars, lootVars, ctrlVars>>

-----------------------------------------------------------------------------
\* The board.  "b" is a value of at: a pet command changes the board first
\* and builds the round on the new one.

SeatOwner(s)   == CHOOSE p \in Players : PetSeat[p] = s
Alive(b, s)    == b[s] # None /\ b[s] \notin dead        \* isUnitAvail
Able(b, s)     == Alive(b, s) /\ stun[b[s]] = 0
Human(b, s)    == b[s] \in Players \cup Pets
SideOf(s)      == IF s \in AtkSeats THEN AtkSeats ELSE DefSeats
LiveOn(b, S)   == {s \in S : Alive(b, s)}
LiveFoes(s)    == LiveOn(at, Seats \ SideOf(s))
ScanOrder(s)   == 4 * Cell[s][2] + Cell[s][1]            \* row by row
First(S)       == {s \in S : \A t \in S : ScanOrder(s) <= ScanOrder(t)}
AbleHumans(b)  == {s \in Seats : Human(b, s) /\ Able(b, s)}
DecidedByDefenders == LiveOn(at, DefSeats) = {}   \* faulty variant: one side only
Decided        == LiveOn(at, DefSeats) = {} \/ LiveOn(at, AtkSeats) = {}
Idle           == engine = "on" /\ phase = "idle"
Inside(ph)     == engine = "on" /\ phase = ph

TypeOK ==
  /\ engine \in {"none", "on", "crashed"} /\ phase \in Phases
  /\ inTick \in BOOLEAN /\ todo \subseteq Seats /\ acted \in BOOLEAN
  /\ master \in Players \cup {None} /\ list \subseteq Players
  /\ at \in [Seats -> Units \cup {None}]
  /\ dead \subseteq Units /\ stun \in [Units -> 0..(MaxStun + 1)]
  /\ battlePet \in [Players -> Pets \cup {None}]
  /\ unitTurn \in Seq(Commands) /\ queue \in Seq(Entries)
  /\ need \in Nat /\ count \in 0..255 /\ wait \in BOOLEAN
  /\ actionTime \in Nat /\ animationTime \in Nat /\ itemTime \in Nat
  /\ creatureKilled \in BOOLEAN /\ dropped \subseteq Seats

-----------------------------------------------------------------------------
\* Pieces the handlers and the tick share

\* The process dies (an ASSERT fails, a NULL pointer is dereferenced) or does
\* what the language leaves undefined.
Crash ==
  /\ engine' = "crashed"
  /\ UNCHANGED <<unitVars, boardVars, roundVars, timeVars, lootVars, phase, inTick, todo, acted>>

\* Faulty variant: the duration is counted down without looking whether it is 0.
ResetActionUnchecked(b) ==
  /\ need' = Cardinality(AbleHumans(b)) /\ count' = 0 /\ actionTime' = 0
  /\ stun' = [u \in Units |-> IF \E s \in Seats : b[s] = u THEN stun[u] - 1 ELSE stun[u]]

\* ResetAction on board b: units are counted before their state is released.
ResetAction(b) ==
  /\ need' = Cardinality(AbleHumans(b)) /\ count' = 0 /\ actionTime' = 0
  /\ stun' = [u \in Units |-> IF stun[u] > 0 /\ \E s \in Seats : b[s] = u
                                THEN stun[u] - 1 ELSE stun[u]]

SendTurnComplete(b) == ResetAction(b) /\ wait' = TRUE

\* Faulty variant: m_waitForAction is not reset.
BuildActionsWaiting(b, turn, tick) ==
  /\ wait' = wait /\ actionTime' = 0 /\ queue' = <<>> /\ unitTurn' = turn
  /\ phase' = "ai" /\ inTick' = tick
  /\ todo' = IF LiveOn(b, AtkSeats) = {} THEN {}
             ELSE {s \in DefSeats : ~Human(b, s) /\ Able(b, s)}

\* BuildActions, up to its first loop.
BuildActions(b, turn, tick) ==
  /\ wait' = FALSE /\ actionTime' = 0 /\ queue' = <<>> /\ unitTurn' = turn
  /\ phase' = "ai" /\ inTick' = tick
  /\ todo' = IF LiveOn(b, AtkSeats) = {} THEN {}
             ELSE {s \in DefSeats : ~Human(b, s) /\ Able(b, s)}

\* IncAction until c answers are counted, then "final check is action complete ?"
Answer(b, turn, c) ==
  /\ count' = c % 256
  /\ IF need = c % 256
       THEN BuildActions(b, turn, FALSE)
       ELSE unitTurn' = turn /\ UNCHANGED <<wait, actionTime, queue, phase, inTick, todo>>

\* Faulty variant: battle pets stay behind.
LeaversAlone(P) == P

\* LeaveBattle for the players of P and their battle pets.
Leavers(P) == P \cup ({battlePet[p] : p \in P} \ {None})

Revive(P) ==
  /\ dead' = dead \ Leavers(P)
  /\ stun' = [u \in Units |-> IF u \in Leavers(P) THEN 0 ELSE stun[u]]

\* Faulty variant: the seats are not cleared.
LeaveBattleSeated(P) ==
  /\ Revive(P)
  /\ list' = list \ P
  /\ at' = at

LeaveBattle(P) ==
  /\ Revive(P)
  /\ list' = list \ P
  /\ at' = [s \in Seats |-> IF at[s] \in Leavers(P) THEN None ELSE at[s]]

\* delete PlayerBattleClass
DeleteEngine ==
  /\ engine' = "none" /\ phase' = "idle" /\ inTick' = FALSE /\ todo' = {} /\ acted' = FALSE
  /\ master' = None /\ list' = {} /\ at' = [s \in Seats |-> None]
  /\ unitTurn' = <<>> /\ queue' = <<>> /\ need' = 0 /\ count' = 0 /\ wait' = FALSE
  /\ actionTime' = 0 /\ animationTime' = 0 /\ itemTime' = 0
  /\ creatureKilled' = FALSE /\ dropped' = {}

-----------------------------------------------------------------------------
\* A battle starts

Init ==
  /\ engine = "none" /\ phase = "idle" /\ inTick = FALSE /\ todo = {} /\ acted = FALSE
  /\ master = None /\ list = {} /\ at = [s \in Seats |-> None]
  /\ dead = {} /\ stun = [u \in Units |-> 0]
  /\ battlePet \in {f \in [Players -> Pets \cup {None}] :
                      \A p \in Players : f[p] # None => Owner[f[p]] = p}
  /\ unitTurn = <<>> /\ queue = <<>> /\ need = 0 /\ count = 0 /\ wait = FALSE
  /\ actionTime = 0 /\ animationTime = 0 /\ itemTime = 0
  /\ creatureKilled = FALSE /\ dropped = {}

\* The board of a new battle: everyone on their seat, battle pets in front.
NewBoard(P, C) ==
  [s \in Seats |-> IF s \in P \cup C THEN s
                   ELSE IF s \in PetSeats /\ SeatOwner(s) \in P
                        THEN battlePet[SeatOwner(s)] ELSE None]

\* Player::Engage by p, whose team members at hand are "mates"; the enemy is a
\* group of creatures (C) or a player with its team (E).  BattleStart ends in
\* SendTurnComplete.
Engage(p, mates, E, C) ==
  /\ engine = "none"
  /\ p \in mates
  /\ engine' = "on" /\ master' = p /\ list' = mates \cup E
  /\ LET b == NewBoard(mates \cup E, C) IN
       /\ at' = b
       /\ need' = Cardinality({s \in Seats : /\ b[s] \in (Players \cup Pets) \ dead
                                             /\ stun[b[s]] = 0})
       /\ stun' = [u \in Units |-> IF u \in Creatures THEN 0
                                   ELSE IF stun[u] > 0 /\ \E s \in Seats : b[s] = u
                                        THEN stun[u] - 1 ELSE stun[u]]
  /\ dead' = dead \ Creatures
  /\ count' = 0 /\ wait' = TRUE
  /\ UNCHANGED <<battlePet, unitTurn, queue, timeVars, lootVars, phase, inTick, todo, acted>>

-----------------------------------------------------------------------------
\* Packet handlers of the members' sessions

\* HandlePlayerAttackOpcode: a client commands the unit on a seat, its own or
\* anybody's; a skill for oneself has its target overridden.
Attack(p, s, k, t) ==
  LET target == IF k \in {"defend", "escape"} THEN s ELSE t IN
  /\ Idle /\ p \in list
  /\ at[s] # None
  /\ count # need                                    \* "Prevent flood actions"
  /\ count < CountBound /\ Len(unitTurn) < TurnBound
  /\ Answer(at, Append(unitTurn, [seat |-> s, skill |-> k, target |-> target, agi |-> Agility[at[s]]]),
            count + 1)
  /\ UNCHANGED <<unitVars, boardVars, need, animationTime, itemTime, lootVars, engine, acted>>

\* The seat is empty, perhaps since the command was sent: ASSERT(attacker).
AttackNobody(p, s) ==
  /\ Idle /\ p \in list /\ at[s] = None
  /\ Crash

\* HandleUseItemOpcodes, when it reaches its end.
UseItem(p) ==
  /\ Idle /\ p \in list
  /\ count < CountBound
  /\ Answer(at, unitTurn, count + 1)
  /\ UNCHANGED <<unitVars, boardVars, need, animationTime, itemTime, lootVars, engine, acted>>

\* HandlePetCommandOpcodes 0x01.  DeactivatePetFor has no return statement on
\* success, so whether that answer is counted is anybody's guess.
PetBattle(p, x) ==
  /\ Idle /\ p \in list /\ x \in PetsOf(p)
  /\ count < CountBound - 1
  /\ at' = [at EXCEPT ![PetSeat[p]] = x]
  /\ battlePet' = [battlePet EXCEPT ![p] = x]
  /\ \E d \in IF battlePet[p] # None THEN {0, 1} ELSE {0} : Answer(at', unitTurn, count + d + 1)
  /\ UNCHANGED <<dead, stun, master, list, need, animationTime, itemTime, lootVars, engine, acted>>

\* HandlePetCommandOpcodes 0x02: without a battle pet nothing is counted, but
\* the final check is made all the same.
PetRest(p) ==
  /\ Idle /\ p \in list
  /\ count < CountBound - 1
  /\ at' = IF battlePet[p] = None THEN at ELSE [at EXCEPT ![PetSeat[p]] = None]
  /\ battlePet' = [battlePet EXCEPT ![p] = None]
  /\ \E d \in IF battlePet[p] # None THEN {1, 2} ELSE {0} : Answer(at', unitTurn, count + d)
  /\ UNCHANGED <<dead, stun, master, list, need, animationTime, itemTime, lootVars, engine, acted>>

\* The same commands of a player that is in no battle.
PetOutside(p, x) ==
  /\ engine # "crashed" /\ phase = "idle" /\ p \notin list
  /\ x \in PetsOf(p) \cup {None} /\ battlePet' = [battlePet EXCEPT ![p] = x]
  /\ UNCHANGED <<dead, stun, boardVars, roundVars, timeVars, lootVars, ctrlVars>>

\* LogoutPlayer, ~Player: the engine goes to another member (FindNewMaster) or
\* is deleted; then the player leaves the battle it is in.
Logout(p) ==
  /\ Idle /\ p \in list \cup {master}
  /\ IF p = master /\ list \ {p} = {}
       THEN DeleteEngine /\ Revive({p}) /\ UNCHANGED battlePet
       ELSE /\ master' \in IF p = master THEN list \ {p} ELSE {master}
            /\ IF p \in list THEN LeaveBattle({p}) ELSE UNCHANGED <<dead, stun, list, at>>
            /\ UNCHANGED <<battlePet, roundVars, timeVars, lootVars, ctrlVars>>

-----------------------------------------------------------------------------
\* BuildActions, continued

\* One creature of AIMove: the first living enemy of the scan is its target.
AIMove ==
  /\ Inside("ai")
  /\ \E s \in First(todo), k \in CreatureSkills :
       /\ \E t \in First(LiveOn(at, AtkSeats)) :
            unitTurn' = Append(unitTurn, [seat |-> s, skill |-> k, target |-> t,
                                          agi |-> Agility[at[s]]])
       /\ todo' = todo \ {s}
  /\ UNCHANGED <<unitVars, boardVars, queue, need, count, wait, timeVars, lootVars,
                 engine, phase, inTick, acted>>

AIDone ==
  /\ Inside("ai") /\ todo = {}
  /\ phase' = "sort"
  /\ UNCHANGED <<unitVars, boardVars, roundVars, timeVars, lootVars, engine, inTick, todo, acted>>

\* The front of m_unitTurn once sorted: stable, highest agility first.
Front(turn) ==
  {i \in 1..Len(turn) : \A j \in 1..Len(turn) :
     turn[j].agi < turn[i].agi \/ (turn[j].agi = turn[i].agi /\ i <= j)}

Without(turn, i) ==
  [j \in 1..(Len(turn) - 1) |-> IF j < i THEN turn[j] ELSE turn[j + 1]]

\* CanLink and SameSide.  The roll and the agility tolerance are left open.
CanLink(c, d) ==
  /\ SideOf(c.seat) = SideOf(d.seat)
  /\ c.target = d.target /\ c.seat # d.seat
  /\ c.skill \in Linkable /\ d.skill \in Linkable

BuildNext ==
  /\ Inside("sort")
  /\ \E i \in Front(unitTurn) :
       /\ \E l \in BOOLEAN :
            /\ l => queue # <<>> /\ CanLink(queue[Len(queue)].cmd, unitTurn[i])
            /\ queue' = Append(queue, [cmd |-> unitTurn[i], linked |-> l])
       /\ unitTurn' = Without(unitTurn, i)
  /\ UNCHANGED <<unitVars, boardVars, need, count, wait, timeVars, lootVars, ctrlVars>>

BuildDone ==
  /\ Inside("sort") /\ unitTurn = <<>>
  /\ phase' = IF inTick THEN "update" ELSE "idle"
  /\ UNCHANGED <<unitVars, boardVars, roundVars, timeVars, lootVars, engine, inTick, todo, acted>>

-----------------------------------------------------------------------------
\* Player::Update of the battle master: isActionTimedOut, UpdateBattleAction,
\* BattleConcluded

\* Faulty variant: the time of a wait is not counted.
TickStartUntimed ==
  /\ Idle
  /\ phase' = "update" /\ inTick' = TRUE
  /\ UNCHANGED <<unitVars, boardVars, roundVars, timeVars, lootVars, engine, todo, acted>>

TickStart ==
  /\ Idle
  /\ \/ /\ ~wait
        /\ phase' = "update" /\ inTick' = TRUE
        /\ UNCHANGED <<roundVars, actionTime, todo>>
     \/ /\ wait /\ actionTime + 1 < MaxActionTime
        /\ actionTime' = actionTime + 1
        /\ phase' = "update" /\ inTick' = TRUE
        /\ UNCHANGED <<roundVars, todo>>
     \/ /\ wait /\ actionTime + 1 >= MaxActionTime
        /\ BuildActions(at, unitTurn, TRUE)
        /\ UNCHANGED <<need, count>>
  /\ UNCHANGED <<unitVars, boardVars, animationTime, itemTime, lootVars, engine, acted>>

\* GiveItemDropped has something to give.  SendItemDropped looks up the seat the
\* killer had, and uses the unit it finds there without a check.
GiveFails == \E r \in dropped : at[r] = None
Gives     == animationTime = 0 /\ dropped # {}

\* Faulty variant: m_itemDropped is not emptied.
GiveItemKept ==
  /\ itemTime' = IF Gives THEN ItemTicks ELSE itemTime
  /\ dropped' = dropped

\* GiveItemDropped inside BattleConcluded.
GiveItemDropped ==
  /\ itemTime' = IF Gives THEN ItemTicks ELSE itemTime
  /\ dropped' = IF Gives THEN {} ELSE dropped

\* What BattleConcluded answers once the items are given.
Concluded == animationTime = 0 /\ itemTime = 0 /\ dropped = {} /\ Decided

\* Faulty variant: the item animation is waited for, but not counted down.
ItemAnimationStuck ==
  /\ Inside("update") /\ itemTime > 0
  /\ phase' = "conclude"
  /\ UNCHANGED <<unitVars, boardVars, roundVars, timeVars, lootVars,
                 engine, inTick, todo, acted>>

ItemAnimation ==
  /\ Inside("update") /\ itemTime > 0
  /\ itemTime' = itemTime - 1 /\ phase' = "conclude"
  /\ UNCHANGED <<unitVars, boardVars, roundVars, actionTime, animationTime, lootVars,
                 engine, inTick, todo, acted>>

\* BattleStop erases the elements of m_PlayerList it iterates over: the loop
\* runs on, or the process dies on the freed node.
StopInUpdate ==
  /\ Inside("update") /\ Concluded
  /\ \/ /\ LeaveBattle(list)
        /\ phase' = "conclude"
        /\ UNCHANGED <<battlePet, master, roundVars, timeVars, lootVars,
                       engine, inTick, todo, acted>>
     \/ list # {} /\ Crash

\* UpdateBattleAction past its first two checks.
Goes == Inside("update") /\ itemTime = 0 /\ ~Concluded

StillWaiting ==
  /\ Goes /\ wait
  /\ GiveItemDropped /\ phase' = "conclude"
  /\ UNCHANGED <<unitVars, boardVars, roundVars, actionTime, animationTime, creatureKilled, engine, inTick, todo, acted>>

Animation ==
  /\ Goes /\ ~wait /\ animationTime > 0
  /\ animationTime' = animationTime - 1 /\ phase' = "conclude"
  /\ UNCHANGED <<unitVars, boardVars, roundVars, actionTime, itemTime, lootVars,
                 engine, inTick, todo, acted>>

\* SendAction finds every slot of m_Actions empty.
RoundOver ==
  /\ Goes /\ ~wait /\ animationTime = 0 /\ queue = <<>>
  /\ creatureKilled' = FALSE /\ GiveItemDropped
  /\ SendTurnComplete(at) /\ phase' = "conclude"
  /\ UNCHANGED <<dead, battlePet, boardVars, unitTurn, queue, animationTime, engine, inTick, todo, acted>>

\* Faulty variant: the rest of a broken up group stays linked.
OpenSlotLinked(q) == q

\* The rest of a broken up group goes back to the slot, as a group of its own.
OpenSlot(q) ==
  [i \in 1..Len(q) |-> IF i = 1 THEN [cmd |-> q[1].cmd, linked |-> FALSE] ELSE q[i]]

\* RedirectTarget: the first living enemy, or the old target if none lives.
Redirected(c) ==
  IF LiveFoes(c.seat) = {} THEN {c}
  ELSE {[seat |-> c.seat, skill |-> c.skill, target |-> t, agi |-> c.agi] :
          t \in First(LiveFoes(c.seat))}

\* SendAction takes the first group; when the target of its first command is
\* gone, that command is redirected and goes alone.
TakeGroup ==
  /\ Goes /\ ~wait /\ animationTime = 0 /\ queue # <<>>
  /\ \/ /\ Alive(at, queue[1].cmd.target)
        /\ queue' = queue
     \/ /\ ~Alive(at, queue[1].cmd.target) /\ at[queue[1].cmd.seat] # None
        /\ \E c \in Redirected(queue[1].cmd) :
             queue' = <<[cmd |-> c, linked |-> FALSE]>> \o OpenSlot(Tail(queue))
  /\ creatureKilled' = FALSE /\ GiveItemDropped
  /\ phase' = "send" /\ acted' = FALSE
  /\ UNCHANGED <<unitVars, boardVars, unitTurn, need, count, wait, actionTime, animationTime, engine, inTick, todo>>

\* RedirectTarget names the attacker in its log lines, present or not.
RedirectCrash ==
  /\ Goes /\ ~wait /\ animationTime = 0 /\ queue # <<>>
  /\ ~Alive(at, queue[1].cmd.target) /\ at[queue[1].cmd.seat] = None
  /\ Crash

-----------------------------------------------------------------------------
\* The loop of SendAction over the commands of a group

Cmd       == queue[1].cmd
Actor     == at[Cmd.seat]
GroupEnds == Len(queue) = 1 \/ ~queue[2].linked
Acting(K) == Inside("send") /\ Able(at, Cmd.seat) /\ Cmd.skill \in K

\* The command is done; a says whether its group has something to animate.
Done(a) ==
  /\ queue' = Tail(queue)
  /\ phase' = IF GroupEnds THEN "conclude" ELSE "send"
  /\ acted' = (a /\ ~GroupEnds)
  /\ animationTime' = IF GroupEnds /\ a THEN AnimTicks ELSE animationTime
  /\ UNCHANGED <<battlePet, master, unitTurn, need, count, wait, actionTime, itemTime,
                 engine, inTick, todo>>

\* An attacker that is gone, dead or disabled is passed over.
Skip ==
  /\ Inside("send") /\ ~Able(at, Cmd.seat)
  /\ Done(acted) /\ UNCHANGED <<dead, stun, list, at, lootVars>>

Defend ==
  /\ Acting({"defend"})
  /\ Done(FALSE) /\ UNCHANGED <<dead, stun, list, at, lootVars>>

\* Escaped looks for the player on the back seat: a pet takes its owner along.
Escaper == IF Cmd.seat \in PetSeats THEN SeatOwner(Cmd.seat) ELSE Cmd.seat

Escape ==
  /\ Acting({"escape"})
  /\ \/ Cmd.seat \notin Creatures /\ LeaveBattle({Escaper}) /\ Done(acted) /\ UNCHANGED lootVars
     \/ Done(TRUE) /\ UNCHANGED <<dead, stun, list, at, lootVars>>

\* A client made a creature escape: what is on the back seat is no Player.
EscapeCrash ==
  /\ Acting({"escape"}) /\ Cmd.seat \in Creatures
  /\ Crash

\* The command belongs to a group of several ("linked").
Linked == queue[1].linked \/ ~GroupEnds

\* ParseSpell: a skill of hit model 1 hits a living target only; the others hit
\* their primary target whatever its state, and the living units of the cells
\* their model asks for: on whichever side GetBattleUnit finds them, and in a
\* linked attack dead ones above and below the target as well.
OnCells(C) == {s \in Seats : \E c \in C : Found(c) /\ Slot(c) = Slot(Cell[s])}

Victims(m) ==
  {Cmd.target} \cup LiveOn(at, OnCells(Fan(m, Cell[Cmd.target])))
    \cup {s \in OnCells(Beside(Cell[Cmd.target])) : Linked /\ m \in {3, 4, 6} /\ at[s] # None}

\* The units on the seats of K are hit for their last hit points (again, if they
\* have none left).  A creature killed by a player or a pet may drop an item the
\* killer has room for.
Kill(K) ==
  /\ dead' = dead \cup {at[s] : s \in K}
  /\ creatureKilled' = (creatureKilled \/ K # {})
  /\ dropped' \in {dropped} \cup (IF Actor \notin Creatures /\ {at[s] : s \in K} \cap Creatures # {}
                                    THEN {dropped \cup {Cmd.seat}} ELSE {})

\* A hurting skill.
Strike ==
  /\ \/ /\ Acting({"attack", "area"} \ Area)
        /\ \E K \in SUBSET LiveOn(at, {Cmd.target}) : Kill(K)
     \/ /\ Acting(Area)
        /\ \E m \in Models : \E K \in SUBSET Victims(m) : Kill(K)
  /\ Done(TRUE)
  /\ UNCHANGED <<stun, list, at>>

\* Beyond m_BattleUnit lies the list of commands: what is found there is taken
\* for a unit, and either passes for dead or is struck.
StrikeCrash ==
  /\ Acting(Area)
  /\ \E m \in Models : \E c \in Fan(m, Cell[Cmd.target]) : Found(c) /\ ~InArray(c)
  /\ Crash

\* A disabling skill, which may also hurt: addUnitState fails on a unit that is
\* disabled already, and then nothing else happens.
Disable ==
  /\ Acting({"stun"})
  /\ \/ UNCHANGED <<stun, dead, lootVars>>
     \/ /\ Able(at, Cmd.target)
        /\ \E d \in 1..MaxStun : stun' = [stun EXCEPT ![at[Cmd.target]] = d + 1]
        /\ \E K \in SUBSET {Cmd.target} : Kill(K)
  /\ Done(TRUE)
  /\ UNCHANGED <<list, at>>

\* CanCatchPet and CanSummonPet: what is weak enough is caught, a creature or a
\* pet ("not a player or not a pet" is true of everything), unless the catcher has
\* one like it, as it has of its own pet.  A player is no template of a pet.
Catchable ==
  /\ Actor \notin Creatures
  /\ Alive(at, Cmd.target)
  /\ \/ at[Cmd.target] \in Creatures
     \/ /\ at[Cmd.target] \in Pets
        /\ Owner[at[Cmd.target]] # IF Actor \in Pets THEN Owner[Actor] ELSE Actor

\* SPELL_CATCH: the caught unit is taken off the board, and a new pet made of its
\* template.  A pet of somebody stays that player's m_battlePet.
Catch ==
  /\ Acting({"catch"})
  /\ \/ UNCHANGED at
     \/ Catchable /\ at' = [at EXCEPT ![Cmd.target] = None]
  /\ Done(TRUE)
  /\ UNCHANGED <<dead, stun, list, lootVars>>

-----------------------------------------------------------------------------
\* The second BattleConcluded of Player::Update

ConcludeCrash ==
  /\ Inside("conclude") /\ Gives /\ GiveFails
  /\ Crash

GoOn ==
  /\ Inside("conclude") /\ ~(Gives /\ GiveFails) /\ ~Concluded
  /\ GiveItemDropped /\ phase' = "idle" /\ inTick' = FALSE
  /\ UNCHANGED <<unitVars, boardVars, roundVars, actionTime, animationTime, creatureKilled, engine, todo, acted>>

Conclude ==
  /\ Inside("conclude") /\ Concluded
  /\ \/ DeleteEngine /\ Revive(list) /\ UNCHANGED battlePet
     \/ list # {} /\ Crash

-----------------------------------------------------------------------------

Handlers ==
  \E p \in list :
    \/ \E s \in ClientSeats[p], k \in ClientSkills, t \in ClientTargets : Attack(p, s, k, t)
    \/ UseItem(p)
    \/ \E x \in PetsOf(p) : PetBattle(p, x)
    \/ PetRest(p)

Build  == AIMove \/ AIDone \/ BuildNext \/ BuildDone
Update == \/ ItemAnimation \/ StopInUpdate \/ StillWaiting
          \/ Animation \/ RoundOver \/ TakeGroup \/ RedirectCrash
Send   == Skip \/ Defend \/ Escape \/ Strike \/ Disable \/ Catch
Finish == ConcludeCrash \/ GoOn \/ Conclude
World  == TickStart \/ Build \/ Update \/ Send \/ StrikeCrash \/ EscapeCrash \/ Finish

Next ==
  \/ \E p \in Attackers, mates \in SUBSET Attackers :
       \/ \E C \in SUBSET Creatures \ {{}} : Engage(p, mates, {}, C)
       \/ \E E \in SUBSET Defenders \ {{}} : Engage(p, mates, E, {})
  \/ Handlers
  \/ \E p \in Players : \/ Logout(p)
                       \/ \E s \in ClientSeats[p] : AttackNobody(p, s)
                       \/ \E x \in Pets \cup {None} : PetOutside(p, x)
  \/ World

Spec == Init /\ [][Next]_vars

\* WorldRunnable::run calls World::Update every 100 ms, and every World::Update
\* that has served the packets goes on to Player::Update: what runs goes on, and
\* ticks keep coming however many commands arrive in between.
FairSpec == Spec /\ WF_vars(World) /\ SF_vars(TickStart)

-----------------------------------------------------------------------------
\* Properties

\* Commands are executed only between two waits: while the engine waits for
\* commands (m_waitForAction) no group of an earlier round is left in m_Actions
\* and no animation is running, whichever of the four callers of BuildActions
\* closed the last round and whoever left the battle since.
WaitIsQuiet == wait => queue = <<>> /\ animationTime = 0

\* A linked attack is one side hitting one target with different actors
\* (CanLink, SameSide), also after a group was broken up and put back by
\* SendAction.
LinkedSound ==
  \A i \in 1..(Len(queue) - 1) :
    queue[i + 1].linked => CanLink(queue[i].cmd, queue[i + 1].cmd)

\* The first command of a group is aimed at a living unit when its group is
\* taken ("Here we are, we will have a live target to deals with"): redirecting
\* never fails, because BattleConcluded was asked in the same tick.
FirstTargetLives ==
  [][phase = "update" /\ phase' = "send" => Alive(at, (queue'[1]).cmd.target)]_vars

\* Nothing that was won is forgotten: an item put into an inventory by
\* AddKillItemDropped is announced as soon as its animation is over, and the
\* engine is not deleted with one pending, unless the last member logs out.
DropsAreGiven ==
  /\ [](phase = "idle" /\ engine = "on" => dropped = {} \/ animationTime > 0)
  /\ [][phase = "conclude" /\ engine' = "none" => dropped = {}]_vars

\* The pet in front of a member is the member's battle pet.
PetSeated(p) == at[PetSeat[p]] = IF p \in list THEN battlePet[p] ELSE None

\* A pet fights only in front of its owner, whose battle pet it is; and seat and
\* battle pet part only when the pet is caught off its seat: not by summoning,
\* resting, escape, logout or the change of the master.
PetsFollowOwners ==
  /\ [](\A p \in Players : at[PetSeat[p]] # None => PetSeated(p))
  /\ [][\A p \in Players : PetSeated(p) /\ ~PetSeated(p)' =>
          phase = "send" /\ Cmd.skill = "catch" /\ Cmd.target = PetSeat[p]]_vars

\* The engine always has somebody to drive it and the members it messages are
\* the players on the board (JoinBattle, LeaveBattle, FindNewMaster).
MembersOnBoard ==
  /\ engine = "on" => master \in Players
  /\ \A p \in Players : p \in list <=> at[p] = p

\* A round is never stuck: whatever is missing (a member gone, a disabled unit,
\* need = 0), a wait is followed by a round, or by the end of the battle.
WaitEnds == wait ~> ~wait \/ engine = "crashed"

\* A battle one side of which is wiped out ends, unless a player brings a
\* living pet to the board in time.
DecidedBattleEnds == engine = "on" /\ Decided ~> engine # "on" \/ ~Decided

\* A claim of the code's own comments that the code does not keep

\* "just push all target side" (ParseSpell, hit model 10; "add primary and
\* front/back", hit model 2): whoever falls to a skill was on the side it was
\* aimed at.
TargetSideOnly ==
  [][phase = "send" => dead' \ dead \subseteq {at[s] : s \in SideOf(Cmd.target)}]_vars
=============================================================================

------------------------------ MODULE Battles ------------------------------
(***************************************************************************)
(* Who is in which battle, with several battle engines at once             *)
(* (game/Player.cpp, game/BattleSystem.cpp).  Two pointers of a player say *)
(* so, and an engine keeps two of its own:                                 *)
(*                                                                         *)
(*   - PlayerBattleClass, the engine the player drives: its Player::Update *)
(*     is what makes that battle go on;                                    *)
(*   - i_battleMaster, the player who drives the battle the player is in,  *)
(*     whom its packet handlers ask for the engine;                        *)
(*   - i_master and m_PlayerList of the engine.                            *)
(*                                                                         *)
(* Engage asks only whether the caller drives a battle.  Whoever else it   *)
(* enlists may be in another battle or drive one (after an escape without  *)
(* being in it), and JoinBattle, LeaveBattle and FindNewMaster then        *)
(* overwrite pointers of the other battle.  BattleRound is one engine      *)
(* whose members are in no other battle.                                   *)
(*                                                                         *)
(* Abstractions: when an escape succeeds and a battle is decided is open   *)
(* (BattleRound says when), as is who belongs to the teams of both sides   *)
(* (Team).  A deleted player a pointer still names is Freed; the model     *)
(* stops ("broken") where the code looks at one, since anything may happen *)
(* then.                                                                   *)
(***************************************************************************)
EXTENDS FiniteSets

CONSTANTS
  Players,  \* accounts, each with its one character
  Engines,  \* the battle engines there can be at once
  Null,     \* a NULL pointer
  Freed     \* a pointer to a deleted Player

ASSUME PointersAssumption ==
  Null \notin Players \cup Engines /\ Freed \notin Players \cup {Null}

VARIABLES
  online,    \* players in the world
  engineOf,  \* PlayerBattleClass
  masterOf,  \* i_battleMaster
  master,    \* i_master; Null: there is no such engine
  list,      \* m_PlayerList
  reused,    \* observes that a player was enlisted that had to do with another battle
  broken     \* a deleted player was looked at

pointers == <<engineOf, masterOf, master, list>>
vars     == <<online, pointers, reused, broken>>

TypeOK ==
  /\ online \subseteq Players
  /\ engineOf \in [Players -> Engines \cup {Null}]
  /\ masterOf \in [Players -> online \cup {Null, Freed}]
  /\ master \in [Engines -> online \cup {Null, Freed}]
  /\ list \in [Engines -> SUBSET (online \cup {Freed})]
  /\ reused \in BOOLEAN /\ broken \in BOOLEAN

Init ==
  /\ online = {} /\ reused = FALSE /\ broken = FALSE
  /\ engineOf = [p \in Players |-> Null] /\ masterOf = [p \in Players |-> Null]
  /\ master = [e \in Engines |-> Null] /\ list = [e \in Engines |-> {}]

Driven(e) == \E p \in online : engineOf[p] = e

\* The code looks at a deleted player.
Break == broken' = TRUE /\ UNCHANGED <<online, pointers, reused>>

-----------------------------------------------------------------------------
\* Battles begin

Login(p) ==
  /\ p \notin online
  /\ online' = online \cup {p}
  /\ UNCHANGED <<pointers, reused, broken>>

\* Player::Engage by p: a new engine enlists the fighters of both sides.
Engage(p, fighters) ==
  /\ p \in online /\ engineOf[p] = Null
  /\ \E e \in Engines :
       /\ master[e] = Null
       /\ master' = [master EXCEPT ![e] = p]
       /\ list' = [list EXCEPT ![e] = fighters]
       /\ engineOf' = [engineOf EXCEPT ![p] = e]
  /\ masterOf' = [q \in Players |-> IF q \in fighters THEN p ELSE masterOf[q]]
  /\ reused' = (reused \/ \E q \in fighters : masterOf[q] # Null \/ engineOf[q] # Null)
  /\ UNCHANGED <<online, broken>>

\* HandlePlayerBattleCommandOpcodes 0x02 0x03 and HandlePlayerClickNpc, with
\* the team of p.
EngageCreature(p) == \E mates \in SUBSET online : p \in mates /\ Engage(p, mates)

\* Faulty variant: nobody asks whether the enemy is still there.
MayFightUnasked(p, q) == TRUE

\* The client names the account of a player on its screen; an enemy that has
\* gone since is not found.
MayFight(p, q) == q \in online

\* HandlePlayerBattleCommandOpcodes 0x02 0x02, with the teams of p and q.
EngagePlayer(p, q) ==
  /\ MayFight(p, q)
  /\ \E mates \in SUBSET online : p \in mates /\ Engage(p, mates \cup {q})

-----------------------------------------------------------------------------
\* Players leave and battles end, in the Player::Update of the driver

\* BattleSystem::LeaveBattle for a player on the list.
LeaveBattle(e, q) ==
  /\ list' = [list EXCEPT ![e] = @ \ {q}]
  /\ masterOf' = [masterOf EXCEPT ![q] = Null]

\* Escaped: the master may leave its own battle and goes on driving it.
Escape(e, q) ==
  /\ Driven(e) /\ Freed \notin list[e] /\ q \in list[e]
  /\ LeaveBattle(e, q)
  /\ UNCHANGED <<online, engineOf, master, reused, broken>>

\* BattleStop and the deletion of the engine.
BattleStop(e) ==
  /\ masterOf' = [q \in Players |-> IF q \in list[e] THEN Null ELSE masterOf[q]]
  /\ list' = [list EXCEPT ![e] = {}] /\ master' = [master EXCEPT ![e] = Null]

\* Faulty variant: PlayerBattleClass is not reset.
ConcludeKept(p) ==
  /\ p \in online /\ engineOf[p] # Null /\ Freed \notin list[engineOf[p]]
  /\ BattleStop(engineOf[p])
  /\ UNCHANGED <<online, engineOf, reused, broken>>

\* Player::Update once BattleConcluded.
Conclude(p) ==
  /\ p \in online /\ engineOf[p] # Null /\ Freed \notin list[engineOf[p]]
  /\ BattleStop(engineOf[p])
  /\ engineOf' = [engineOf EXCEPT ![p] = Null]
  /\ UNCHANGED <<online, reused, broken>>

\* BattleStop erases the elements it iterates over: the process may die.
\* A driver's engine that lists a deleted player looks at it in its next tick.
UpdateBreaks(p) ==
  /\ p \in online /\ engineOf[p] # Null
  /\ list[engineOf[p]] # {}
  /\ Break

\* The attack, item and pet handlers ask the master for the engine.
CommandBreaks(p) == p \in online /\ masterOf[p] = Freed /\ Break

-----------------------------------------------------------------------------
\* LogoutPlayer, ~Player: FindNewMaster and Player::LeaveBattle.  "b" is a
\* record of the four pointers.

Pointers == [engineOf |-> engineOf, masterOf |-> masterOf, master |-> master, list |-> list]

Heirs(e, p) == list[e] \ {p}

\* Faulty variant: the others are not told.
NewMasterUntold(e, q) ==
  [engineOf |-> [engineOf EXCEPT ![q] = e], masterOf |-> masterOf,
   master   |-> [master EXCEPT ![e] = q],   list     |-> list]

\* FindNewMaster finds q, whatever q was driving until now.
NewMaster(e, q) ==
  [engineOf |-> [engineOf EXCEPT ![q] = e],
   masterOf |-> [r \in Players |-> IF r \in list[e] THEN q ELSE masterOf[r]],
   master   |-> [master EXCEPT ![e] = q],
   list     |-> list]

\* It finds nobody, and ~Player deletes the engine.
NoNewMaster(e, p) ==
  [engineOf |-> [engineOf EXCEPT ![p] = Null], masterOf |-> masterOf,
   master   |-> [master EXCEPT ![e] = Null],   list     |-> [list EXCEPT ![e] = {}]]

\* Player::LeaveBattle: p leaves the battle its master drives, if any.
Left(b, p) ==
  LET m == b.masterOf[p] IN
  IF m = Null \/ b.engineOf[m] = Null THEN b
  ELSE [b EXCEPT !.list = [b.list EXCEPT ![b.engineOf[m]] = @ \ {p}]]

\* The memory of p is freed; what still points to it dangles.
Forget(b, p) ==
  /\ online' = online \ {p}
  /\ engineOf' = [b.engineOf EXCEPT ![p] = Null]
  /\ masterOf' = [q \in Players |-> IF q = p THEN Null
                                    ELSE IF b.masterOf[q] = p THEN Freed ELSE b.masterOf[q]]
  /\ master' = [e \in Engines |-> IF b.master[e] = p THEN Freed ELSE b.master[e]]
  /\ list' = [e \in Engines |-> IF p \in b.list[e] THEN (b.list[e] \ {p}) \cup {Freed}
                                ELSE b.list[e]]

\* The player leaves by way of b; its master, if it has one, must not be deleted.
Leave(b, p) ==
  IF b.masterOf[p] = Freed THEN Break
  ELSE Forget(Left(b, p), p) /\ UNCHANGED <<reused, broken>>

\* ~Player of a player that drives no battle.
LogoutMember(p) == p \in online /\ engineOf[p] = Null /\ Leave(Pointers, p)

\* ~Player of a driver.  FindNewMaster touches the whole list.
LogoutDriver(p) ==
  LET e == engineOf[p] IN
  /\ p \in online /\ e # Null
  /\ \/ Freed \in list[e] /\ Break
     \/ /\ Freed \notin list[e] /\ Heirs(e, p) # {}
        /\ \E q \in Heirs(e, p) : Leave(NewMaster(e, q), p)
     \/ /\ Heirs(e, p) = {}
        /\ Leave(NoNewMaster(e, p), p)

-----------------------------------------------------------------------------
Next ==
  /\ ~broken
  /\ \/ \E p \in Players : Login(p) \/ EngageCreature(p) \/ Conclude(p) \/ UpdateBreaks(p)
                             \/ CommandBreaks(p) \/ LogoutMember(p) \/ LogoutDriver(p)
     \/ \E p, q \in Players : EngagePlayer(p, q)
     \/ \E e \in Engines, q \in Players : Escape(e, q)

Spec == Init /\ [][Next]_vars

-----------------------------------------------------------------------------
\* Properties

\* Player::Update, the handlers and ~Player use PlayerBattleClass without asking
\* whether the engine still exists: it does, it has that player as its master,
\* and so no two players drive the same engine, whoever was enlisted twice.
DriversAreMasters ==
  \A p \in Players : engineOf[p] # Null => p \in online /\ master[engineOf[p]] = p

\* As long as nobody is enlisted that has to do with another battle, the four
\* pointers agree through escapes, logouts and changes of the master: each battle
\* is driven by its master, who is in the world; its list names exactly the players
\* that have this master; each player is in at most one battle, and drives no other.
OneBattleEach ==
  ~reused =>
    /\ \A e \in Engines : master[e] # Null => Driven(e)
    /\ \A e \in Engines : list[e] = {q \in Players : masterOf[q] # Null /\ masterOf[q] = master[e]}
    /\ \A q \in Players : masterOf[q] # Null => \E e \in Engines : q \in list[e]
    /\ \A e \in Engines : \A q \in list[e] : engineOf[q] \in {Null, e}
=============================================================================

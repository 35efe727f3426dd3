# The LeGACY server in TLA+

LeGACY (`src/`) is the server of an online role-playing game. This directory holds
TLA+ models of its core logic, the TLC runs that check them on small instances, and
proofs, checked by TLAPS, of theorems about them for every instance. `PROJECT.json`
lists components, runs, mutants, hazards, findings and theorems, and maps every
definition to the source lines it stands for.

## 1. Inventory

The first-party code is `src/src` (about 34 000 lines); `src/dep` is vendored.

| Component | Where | State | Operations | What makes it correct |
|---|---|---|---|---|
| Hit models | `BattleSystem.cpp` 1643-1987, 2627-2688 | the cells of the board | whom a skill strikes | the target's side, cells of the board, no place in memory for two cells |
| Battle engine | `game/BattleSystem.cpp`, `CombatHandler`, `PetHandler`, `ItemHandler`, `Player::Update` | the board, members, commands of the round, answers needed and counted, timers, items won | engage, answer, time out, order and link, execute, disable, kill, escape, catch, conclude | rounds never mix; a wait ends; groups stay legal; what is won is announced; board, members and pets agree |
| Battle membership | `Player.cpp` 98-121, 3160-3201, `BattleSystem.cpp` | pointers between players and engines | engage, enlist, escape, end, hand over, log out | one battle each, every battle driven, no pointer to what is gone |
| Player teams | `GroupHandler.cpp`, `Player.cpp` 3206-3414 | leader, list of members, move lock | ask, answer, leave, dismiss, door, logout | nobody is stuck; teams fit; the lists do not loop; no list outlives its players |
| SQL execution | `shared/Database` | queue of operations, transaction per thread, running flag | execute, begin/commit/rollback, delay, halt | order kept, transactions whole, nothing lost at shutdown |
| Items and pets: saving | `Item.cpp`, `Pet.cpp`, `Player::SaveToDB` | row state, update queue, rows | change, remove, save, write, load, crash | every difference between memory and rows is queued; what is loaded is what was there |
| Inventory | `Player.cpp`, `ItemHandler.cpp` | items, stacks, what is worn, modifiers | gain, store, drop, consume, put on, take off | no goods lost or doubled, one item per slot, modifiers match what is worn |
| Experience, points | `Unit.cpp`, `CharacterHandler.cpp` | level, experience, points | gain, level up, spend | points never wrap, gains are counted once |
| Sessions | `WorldSocket.cpp`, `WorldSession.cpp`, `World.cpp`, `CharacterHandler.cpp` | sockets, session map, players in the world, online flags of two databases | authenticate, kick, create, load, log out, restart | sockets and sessions agree; nothing stays marked online; abandoned sessions end; one player per account |
| World loop | `legacyd/WorldRunnable.cpp`, `World.cpp` | timers | update every 100 ms | the scheduler of everything above |
| Maps, object registry, creatures and AI, chat, scripts, sockets, utilities | `game`, `framework`, `shared` | | | not modelled, reasons in `PROJECT.json` |

How they interact. Sockets append packets to a session's queue. One world thread calls
`World::Update`: every session serves its packets (each handler runs to its end), then
the maps update their objects, `Player::Update` of a battle master driving its engine.
Handlers change players, engines and teams directly, through raw pointers. SQL statements
go to one delay thread per database and come back, if they have results, through a
queue the world thread empties at the end of an update. The main thread serves the sockets:
it authenticates clients, and may remove, log out and save the player of an older session.

What is hard about it:

- packets act on a state the client saw some time ago (answers after the timeout, leave
  packets for an earlier leader);
- four callers can close a round (attack, item and pet handlers, the timer), and the
  counter they compare is tested for equality;
- raw pointers outlive their objects (members of a team or of a battle that log out);
- results of a tick are shown by timers, and later ticks act on what is left by then;
- statements of a character are written asynchronously by another thread, and read back by
  synchronous queries in between;
- sessions are added and removed by the socket thread while the world thread serves them, and
  both collect transactions through one unlocked `tranThread`.

## 2. Plan

1. **BattleRound** (done): the round protocol of one engine. BattleRoundProofs.
2. **Team** (done): packets served late, against the team lists. TeamProofs.
3. **SqlLog**, **Sql** (done): `Database` as an ordered log of whole operations, and the
   delay thread with its queue, transactions and shutdown, shown to implement it. SqlProofs.
4. **HitModels** (done): whom a skill strikes, composed into BattleRound. HitModelsProofs.
5. **Inventory** (done): items in memory, the update queue, saving, rows and loading.
   InventoryProofs.
6. **Sessions** (done): authentication on the socket thread against the world thread, with
   what synchronous queries read in the middle of a save. SessionsProofs.
7. **Battles** (done): several engines and the pointers of the players they share.
   BattlesProofs.
8. Left: **Experience** (gains of several levels, spending points) as a pure algorithm against
   a reference definition; gold and vendors on top of Inventory.

Every invariant and every safety action property of a passing run is a theorem (section 5).
Theorems left: under which conditions the properties that runs refute do hold, as
`StrikesStayOnSide` and `SavesAreComplete` already do for two of them: `GoneFromTeams` while
nobody leaves for a leader it no longer has, `OnePlayerInWorld` while no login outlives its session.

## 3. Modules

### BattleRound

One engine (`class BattleSystem`) with the sessions of its members. The world thread
runs one handler or one `Player::Update` at a time, so the control point is a single
variable `phase`: handlers are enabled in `idle`; a tick passes through `update`
(UpdateBattleAction), `send` (the loop of SendAction) and `conclude` (the second
BattleConcluded); BuildActions is the loop `ai` (AIMove) and `sort` (ordering and
linking), entered from a handler or, by the timeout, from a tick (`inTick`).

| State | Code |
|---|---|
| `at`, `list`, `master` | `m_BattleUnit`, `m_PlayerList`, `i_master` |
| `dead`, `stun`, `battlePet` | death state, `m_disabled_duration`, `Player::m_battlePet` |
| `unitTurn`, `queue` | `m_unitTurn`; `m_Actions`, slot after slot: `linked = FALSE` opens a slot |
| `need`, `count`, `wait`, `actionTime` | `m_PlayerActionNeed`, `m_PlayerActionCount` (8 bits), `m_waitForAction`, `m_actionTime` |
| `animationTime`, `itemTime`, `dropped`, `creatureKilled` | the two animation timers, receivers in `m_itemDropped`, `m_creatureKilled` |
| `Cell` (constant) | the column and row of a seat |

| Actions | Code |
|---|---|
| `Engage` | Player::Engage, BattleSystem::Engage, BattleStart |
| `Attack`, `UseItem`, `PetBattle`, `PetRest` | the packet handlers that count answers |
| `AttackNobody` | the assertion of HandlePlayerAttackOpcode: nobody sits where the client says |
| `PetOutside`, `Logout` | SetBattlePet out of battle, LogoutPlayer and ~Player with FindNewMaster |
| `AIMove`, `AIDone`, `BuildNext`, `BuildDone` | BuildActions |
| `TickStart`, `ItemAnimation`, `StopInUpdate`, `StillWaiting`, `Animation`, `RoundOver`, `TakeGroup`, `RedirectCrash` | isActionTimedOut, UpdateBattleAction |
| `Skip`, `Defend`, `Escape`, `EscapeCrash`, `Strike`, `StrikeCrash`, `Disable`, `Catch` | one command of SendAction |
| `ConcludeCrash`, `GoOn`, `Conclude` | BattleConcluded, BattleStop, deletion |

Abstractions. Hit points are alive or dead, a damage roll is its outcome, and skills are
the kinds the engine tells apart. The rows of the spell table are not in the repository,
so which skills link (`Linkable`, type above 0) and which hit more than their target
(`Area`, hit models 2 to 10, and which of them, `Models`) are constants. Hit model 1 hits
the living target only; the others push their primary target whatever its state and take
the living units on the cells HitModels names, in a linked attack also dead ones above and
below. That a Berserker with no neighbour strikes its target again changes nothing here.

A client names the seat that acts and the one it aims at, and HandlePlayerAttackOpcode asks
neither whose the first is nor on which side the second lies: `ClientSeats` and `ClientTargets`
say which ones clients name (columns and rows beyond the board are not enumerated). Catching
follows the condition as it is written (1342), which is true of everything: the creatures
can be caught and so can the pet of an opponent, whose seat is emptied while it stays its
owner's `m_battlePet`; one's own pet is refused by CanSummonPet, and a player has no entry
among the templates of pets.

Undefined behaviour is a choice. BattleStop erases the list element its iterator
stands on: the loop finishes or the process dies. DeactivatePetFor lacks a return, so
that answer is counted or not. A cell beyond the array is found empty or dead, or is struck
(`StrikeCrash`). Escaped takes what sits behind a creature for a Player (`EscapeCrash`). A NULL
dereference or a failed assertion leads to `engine = "crashed"`, which
is final; this, and battles that end, are why deadlock is not checked.

### HitModels

A cell is a pair of column and row: columns 0 and 1 are the defenders' back and front row,
2 and 3 the attackers' front and back row. `Fan(m, c)` are the cells ParseSpell asks for
besides the target `c` under hit model `m` (the cases 6, 4 and 3 of its switch fall through);
`Found` is the range check of GetBattleUnit, which lets one column and one row too many
through, and `Slot` the place in memory a cell stands for: row 5 of a column is row 0 of
the next, column 4 is behind `m_BattleUnit` (`InArray`). BattleRound strikes whoever sits on
the slots that are found.

### Battles

Several engines at once, and only who is in which: BattleRound is one of them, between its
start and its end, as long as its members are in no other.

| State | Code |
|---|---|
| `engineOf`, `masterOf` | `PlayerBattleClass`, `i_battleMaster` of the players |
| `master`, `list` | `i_master`, `m_PlayerList` of the engines |
| `reused`, `broken` | observers: somebody was enlisted that had to do with another battle; a deleted player was looked at |

| Actions | Code |
|---|---|
| `Login` | a new Player |
| `EngageCreature`, `EngagePlayer` | the handlers, Player::Engage, BattleSystem::Engage, JoinBattle |
| `Escape`, `Conclude` | Escaped with LeaveBattle; BattleStop and the deletion in Player::Update |
| `LogoutMember`, `LogoutDriver` | ~Player: FindNewMaster or deletion, then Player::LeaveBattle |
| `UpdateBreaks`, `CommandBreaks` | a deleted player is looked at, or BattleStop's iterator fails |

Who belongs to a team, when an escape succeeds and when a battle is decided is open. Pointers
to a deleted player become `Freed`, in the engines' lists and in other players; the model stops
where one is used, as in Team.

### Team

A session's packets wait in `inbox` and are served in order, one whole handler per
step, while the clients send what makes sense from what they saw. `asked[l]` are the
requests on the screen of l's client, which may be answered much later. `leader` is
`m_leaderGuid`, `frozen` is `m_dontMove`, and `team` is `m_team` as a bag, since no
property depends on its order but duplicates occur. `Logout` replaces what other lists
say of the player by `Freed`. Every step that walks a list with a `Freed` entry sets
`broken`, after which the model stops: the properties are claimed up to the first
undefined behaviour. Requests and answers may be ignored because a party is in a battle.

### SqlLog, Sql

`SqlLog` is the promise: operations handed over wait in `pending` and take effect one after
the other, each as a whole or not at all; a group of queries reads the `log` as it is at its
turn. A transaction handed over is what its thread has written since it began it, until two
threads call at the same time; from then on any statements may be handed over (`Mixed`), still
whole and in order. `Sql` is one Database object with its two callers, its delay thread and its
connection. The world thread runs the handlers; the main thread runs the sockets, and opens
transactions too when it removes a session (RemoveSession, LogoutPlayer, SaveToDB). Both go
through `tranThread`, one member without a lock: a call sets it and then reads it again, and the
transaction looked up is that of the thread named last.

| State | Code |
|---|---|
| `life` | where the process is: serving, world thread ended, `m_running` cleared, thread joined, dead |
| `call`, `tranThread`, `tran` | the call each thread is in, and how far; `tranThread`; `m_tranQueues` |
| `writing`, `overlapped` | observers: what each thread has written since its BeginTransaction; two calls overlapped |
| `sqlQueue`, `results` | `m_sqlQueue`, the world thread's `SqlResultQueue` |
| `pc`, `cur`, `rest`, `got` | SqlDelayThread::run, the operation in hand, what is left of a transaction, a holder's results |
| `up`, `db`, `open` | the connection, the statements in effect, those of the open transaction |

| Actions | Code |
|---|---|
| `Call`, `Execute` | DatabaseMysql::Execute, setting `tranThread` and reading it |
| `BeginTransaction`, `NewTransaction`, `CommitTransaction`, `RollbackTransaction`, `ClearTransaction`, `NoTransaction` | the other calls, in halves where the map is read twice |
| `FindsFreed` | one thread uses what the other has committed or deleted: the model ends (`life = "broken"`) |
| `DelayQueryHolder`, `Callback`, `WorldEnds`, `Stop`, `Halted` | asking, answering, shutdown |
| `TestRunning`, `Wake`, `TakeNext`, `StatementExecute`, `Transaction...`, `HolderQuery`, `HolderDone` | SqlDelayThread::run and the operations |
| `ConnectionLost`, `Crash`, `Restart` | the connection, the process |

Every DirectExecute and Query is a step of its own, since the mutex of the connection is
released between them. `Log` maps `db` to the log and `Undecided`, the operation in hand
followed by the queue, to what is pending; a transaction takes effect at COMMIT and is
dropped at the first statement that fails. The server is external: a statement or query may
fail at any time, START TRANSACTION fails only with the connection, the tables are InnoDB
(`sql/characters.sql`), so what is open is rolled back when the connection or the process
dies. Nothing in the code reconnects; `Restart` is a new process on the same database.

### Inventory

The items of one player in memory, the queue of those to be saved and their rows, which the
delay thread writes later. A row is `character_inventory` joined with `item_instance`, since
both are always written together.

| State | Code |
|---|---|
| `stage`, `todo` | offline, in the loop of `_LoadInventory` with rows left, in the world |
| `items`, `queue` | the Item objects with count, place and `uState`; `m_itemUpdateQueue` |
| `selfMods`, `petMods`, `petState` | how often `_ApplyItemModsFor` has added an item; the pet's `uState` |
| `rows`, `petRow`, `pending` | the tables, and transactions not yet written |
| `views`, `absorbed`, `grown` | observers: the rows after each pending transaction; the two stacks of a merge during the login |

| Actions | Code |
|---|---|
| `AddNewInventoryItem`, `Drop`, `SellNew`, `Consume` | Player::AddNewInventoryItem, the item handlers |
| `Equip`, `Unequip`, `PetEquip`, `PetUnequip` | the equip handlers with RemoveItem, CanStoreItem, StoreItem |
| `PetChanges` | Pet::SetState |
| `Save`, `Logout` | Player::SaveToDB, `_SaveInventory`, Item::SaveToDB |
| `Write`, `Crash` | the delay thread, as SqlLog promises; the process |
| `Login`, `LoadRow`, `FinishLoading` | the login queries, `_LoadInventory`, `_ApplyAllItemMods` |

An item is where it is (bag, worn by the player or the pet), not its slot number: equipment
has one slot per kind, and the first stack that fits is any that fits. What the client asks
for is cut or checked as the handlers do. A sale does what a drop does, with one difference: it
marks the item as removed before RemoveItem takes it out of its slot (494-496), which deletes a
new item. What the use of the freed object does is a choice: it passes for `Drop`, or the process
dies (`SellNew`). Counts wrap at `CountModulus` (2^32 in the code).
Every transaction commits.

### Sessions

Two threads and two delay threads. The socket thread is in one call of `_HandleAuthSession`
at a time (`auth`), whose three steps can be interleaved with the world thread; the world
thread is in a session's update (`serving`) where it can be seen half-way: between handing
over a new character and reading its row, and between LogoutPlayer and erasing the session.

| State | Code |
|---|---|
| `sockets`, `sessions` | WorldSocket with `_session`; `m_sessions`, with socket, player, `m_playerLoading` and the packet waiting |
| `auth`, `serving` | where the socket and the world thread are |
| `world` | Player objects on the maps, per character |
| `loginQueue`, `online` | the login database: operations not yet written, `accounts.online` |
| `charQueue`, `saving`, `rows`, `answers` | the characters database: operations, half a save written, `characters.online`, `m_resultQueue` |
| `refused`, `overwritten` | observers: accounts that lost a session to an authentication which then ended; a connection authenticated for a second account |

| Actions | Code |
|---|---|
| `AuthAsk`, `AuthRemove`, `AuthAdd`, `AuthLook` | `_HandleAuthSession`, with World::RemoveSession, AddSession |
| `OnDelete` | the client goes away, WorldSocket::OnDelete |
| `SendCreate`, `HandleCharCreate`, `LoginCreated`, `ServeLogin` | character creation, HandlePlayerLoginOpcode |
| `HandlePlayerLoginCallback`, `AutoSave` | UpdateResultQueue, Player::Update |
| `EndSession`, `EraseSession` | WorldSession::Update, LogoutPlayer, World::UpdateSessions |
| `WriteLogin`, `BeginSave`, `WriteChar`, `Restart` | the delay threads; a new process, which clears the marks |

A synchronous query sees a row unless a save has deleted it and not yet inserted it
(`Visible`). Both threads inside the same session is undefined behaviour: the server dies and
is started again. A query of a login may fail. `_HandleAuthSession` does not ask whether its socket
has a session: a client may authenticate again on the same connection, for the same account or
for another. World::RemoveSession has no return statement and its result is asked for, so
`AuthRemove` goes on or ends there, the session being gone in either case; if it had a player,
LogoutPlayer has cleared the mark of the account, otherwise nobody does.

### MCBattleRound, MCBattles, MCTeam, MCInventory, MCSessions

Instances for TLC: owners, seats and cells (the leader in the middle row, the first member
below, as Engage places them), agility, and whose seats a client commands; the symmetry of the players in Team, of
players and engines in Battles and of the item guids in Inventory (sound there: no liveness in those runs, and no definition tells them apart).
Sql is run as it is.

## 4. Runs

| Run | Question |
|---|---|
| `battle_pve` | types, `LinkedSound`, `FirstTargetLives`, `DropsAreGiven`: two players against two creatures with skills that hit several; groups are linked, broken up and put back |
| `battle_live` | `WaitIsQuiet`, `MembersOnBoard`, `PetsFollowOwners`, and `WaitEnds`, `DecidedBattleEnds` under fairness: a player with a pet in a duel or against a creature; a client that commands others' seats and empty ones, pet commands that close rounds at odd moments, disabling, catching a creature or the opponent's pet, escape, a dying pet, logout of the master |
| `battle_side` | a skill strikes its own side, see the findings |
| `battles` | types, `DriversAreMasters`, `OneBattleEach`: players are enlisted twice, escape from battles they go on driving, hand over engines |
| `team` | types, `NobodyStuck`, `TeleportEnds`, `TeamsFit` |
| `team_gone` | a logged-out player stays in a list, see the findings |
| `sql_log` | two threads that call: types, `NothingLeftOpen`; `Implements`: Sql implements SqlLog; `Decides`, `CallbacksRun` under fairness |
| `inventory` | types, `EveryChangeIsQueued`, `ModifiersHold`, `OnePerSlot`, `GoodsMove`, `SaveStoresUnmerged`: gains, merges, exchanges, saves written late, crashes and logins |
| `inventory_stored` | stacks merged during the login are not saved, see the findings |
| `sessions` | types, `LinksAgree`, `OnlineAccountsHaveSessions`, `MarkedCharactersPlay`, and `AbandonedSessionsEnd` under fairness: kicks, clients that go away in the middle of a login or authenticate twice, late writes, failing queries, restarts |
| `sessions_load`, `sessions_two` | a login that never ends, two players of one account, see the findings |

Bounds. `MaxActionTime` (220 ticks in the code), `AnimTicks` (12 to 40) and `ItemTicks` (3)
are 1 or 2: the code compares them with zero or the limit only, and ticks interleave with
packets at every value. `CountBound` limits the answers of one round above what is needed,
so the count can jump over `need`; `TurnBound` limits the commands in one round, so
that surplus commands occur. `MaxStun` is one round after the one it is set in. Two players,
a pet and two creatures give linked groups, breaking up, redirecting, a change of the
master and surplus answers; `battle_pve` uses the hit models 2 and 3, so units fall beside the
target, on the wrong side, and beyond the board. In `battle_pve` one client commands every seat,
in `battle_live` the creature's (empty in a duel) besides its own, and in `battle_side` all
command their own; targets are the opponents, in `battle_live` any player and the first one's pet
(what is aimed at a player who is not there is redirected to the creature). In Team, two packets in flight are what a stale leave and an
answer need, three players make chains of lists, and a limit of one member besides the leader
(four in the code) makes full teams. In Battles, four players and two engines let each battle
have a driver who is no member, an heir and a member of the other one.

In Sql, two operations (`MaxUnits`) are one before or during and one after a failure, two statements
(`MaxLen`), one of each thread, make a transaction that can fail half-way and tell whose it is, and
of what goes wrong besides failing statements (`MaxTroubles`) one thing happens: a death of the
process, after which a restart starts from nothing but `db`, a lost connection, or calls that
overlap. The proofs need none of these bounds.

In Inventory, three guids of a stacking kind with a maximum and a worn kind, and a bag of two,
are what merging, an exchange and a full bag need; one transaction not yet written
(`MaxPending`) leaves rows and memory apart while the player goes on; clients ask for one
piece (`MaxAsked`), and a pet puts on and saves modifiers up to `PetModBound` (`Bounded`), since
every login adds to them without end: one saved and one added by the login are enough to
have more than is worn. In Sessions, an account with two connections gives every
kick and every race, a second account, without a character and reached by one of the
connections only (`Passwords`), is what a second authentication on a connection needs, one or two
marks (`MaxMarks`) and one operation (`MaxPending`, two in the runs that show findings) that wait
when a client authenticates or a character is saved let marks, a save and a query lag, and `MaxObjects` stops the players
that `sessions_two` shows to pile up.

Fairness (`sql_log`). The delay thread is scheduled and its queries return, and
World::Update ends with UpdateResultQueue: weak fairness of `DelayThread` and `Callback`.

Fairness (`sessions`, `sessions_load`). The delay thread goes through its queue: weak fairness of
writing. What the world thread is in the middle of it completes: weak fairness of `LoginCreated`
and `EraseSession`. World::Update looks at every session and then at the answers, in each round, so
none is passed over for ever although the service of another comes in between, which disables
its step for a moment: strong fairness of `HandlePlayerLoginCallback` and, for each account, of
serving and ending its session. Of clients, authentications, saves and restarts nothing is assumed.

Fairness (`battle_live`). WorldRunnable calls World::Update every 100 ms, and once it has
started, a handler or a tick runs to its end: weak fairness of `World`. Packets are
served before the maps update in the same World::Update, so a stream of commands cannot keep
ticks away for ever, though each of them disables `TickStart` for a moment: strong
fairness of `TickStart`. Nothing is assumed of the players.

Every property has a mutant: a definition with a plausible mistake (the operators commented
"Faulty variant") that makes TLC find the property violated in the same run.

Findings, where the code does not do what its comments say (the quotations are in
`PROJECT.json`):

- `battle_side`: hit model 2 mistakes the attackers' front row for their back row: a creature
  that uses it on a pet strikes the front row of its own side.
- `team_gone`: a leave packet for an earlier leader clears the player's leader and leaves it
  in the list of its present one, which keeps a dangling pointer after logout.
- `inventory_stored`: a stack merged into another while the inventory is loaded keeps its row,
  and the stack that grew is marked unchanged; after its next change both are in the database.
- `sessions_load`: a new character's row may not be written after the 10 ms the handler sleeps;
  the session then loads for ever and the account stays online.
- `sessions_two`: the queries of a session kicked while loading go on, and their answer is
  given to the account's new session, which ends up with two players in the world.

Met while modelling and kept as choices or notes on hazards: Engage enlists players of other
battles, who on logging out leave only the battle of their last master (Player.cpp:120 says
"Leave from battle if any"; in Battles the first one keeps `Freed` on its list), the flood guard that compares
for equality (`battle_live` shows that waits end all the same), RedirectTarget's use of an
attacker that is gone (`RedirectCrash`), and a statement added while the delay thread stops,
which is never executed (`Sql`: it stays pending for ever, and `Decides` exempts the halt), calls
on two threads that overlap (`Implements` promises no more of their transactions than that what
is handed over takes effect whole and in order), the result RemoveSession does not return
(`refused`), a connection that authenticates for a second account (`overwritten`), the catch of an
opponent's pet, a sale that uses a freed item, a pet's modifiers that pile up with every login
(Pet.cpp:70) and an amount consumed that wraps the count (Player.cpp:3150).

## 5. What is proved

`BattleRoundProofs` (for any players, pets, creatures, agilities, skills and bounds):

- `TypesAreKept`: `TypeOK`. In particular `stun` never underflows and `count` keeps eight bits.
- `WaitsAreQuiet`: `WaitIsQuiet`.
- `LinksAreSound`: `LinkedSound`.
- `TargetsAlive`: `FirstTargetLives`.
- `DropsGiven`: `DropsAreGiven`.
- `StrikesStayOnSide`: `TargetSideOnly`, if no skill has hit model 2 and nobody sits in the last
  row: the two causes are the only ones.
- `MembersAreSeated`: `MembersOnBoard`.
- `PetsAreSeated`: `PetsFollowOwners`: a pet on the board is in front of its owner and its battle
  pet; and a seat and a battle pet that agree part only by a catch.

They follow from one inductive invariant `Inv`. None of them is inductive alone. That
waits are quiet needs `Quiet`: a wait begins only in a tick that found the queue empty and no
animation running, and ends before anything is queued. Types need `Visited` (AIMove looks
up the agility of creatures still on the board) and `Aimed` (the command executed has
a target on the board, which needs `LinkedSound`: all commands of a group share their
target, and only skills that remove nobody link). `FirstTargetLives` needs that
BattleConcluded was asked in the same tick: an undecided battle has a living enemy to
redirect to (`Redirects`, which uses that the scan order of the seats has a first). `DropsAreGiven` needs
`Pending`: outside a tick a pending item has an animation running. Members and pets need
`Seating` (a seat other than a pet's holds its own unit or nobody, a battle pet belongs to its
player) and `Mastered`. The part of `PetsFollowOwners` about steps is proved in two lemmas: every
step other than a catch keeps what is seated (`PetsStay`), and a catch parts only the pet of the
seat it is aimed at (`PetsCaught`).
The proof goes action by action (`TypeStep`, `QuietStep`, `VisitedStep`, `LinkedStep`,
`AimedStep`, `PendingStep`, `SeatingStep`, `MasteredStep`).

`HitModelsProofs` (for every target on the board and every hit model; TLC's boards have a
few cells only):

- `BeyondTheArray`: exactly which targets make a skill read behind the array.
- `TargetSide`: apart from hit model 2 and the last row, a skill stays on its target's side.
- `DistinctCells`: two cells a skill asks for, or one and the target, that are the same place in
  memory are the same cell, though cells outside the board alias others. How often a cell is pushed
  it does not say: a Berserker without a neighbour pushes its target again.

`BattlesProofs` (for any players and engines):

- `TypesAreKept`, `DriversKeepMasters` (`DriversAreMasters`), `BattlesStayApart`
  (`OneBattleEach`), and `NobodyLeftBehind`: until a player is enlisted twice, no
  engine keeps a pointer to a player that has logged out.

The three invariants are inductive together. The logout is proved for any record of pointers
that is `Sound` and will `Agree` once the player is gone (`LeaveKeeps`), and then for the three
records ~Player makes: unchanged, handed over, deleted. That a hand-over takes nobody from
another battle needs the last part of `OneBattleEach`: who is on a list drives no other battle.

`TeamProofs` (for any players, packets and limit):

- `TypesAreKept`, `NobodyIsStuck` (`NobodyStuck`), `TeleportsEnd` (`TeleportEnds`), `TeamsAreSmall`
  (`TeamsFit`).

The invariant adds `Listed` (whoever has a leader is on its list), `FrozenAreLed`,
`Others` (nobody asks itself) and `Connected` (packets come from players in the world:
an offline leader could not accept). `TeleportEnds` is inductive because a player who
joins leads nobody: it becomes the member of every set with no successor in it. The size of a
list is the cardinality of its `Places`, the pairs of a name and the number of its occurrence, so
that a list with duplicates can be counted without a fold: joining adds one place
(`OnePlaceMore`), leaving removes some (`FewerPlaces`), and a logout, which turns the places of
the player into places of `Freed`, leaves as many at most (`ForgetKeepsPlaces`, by an
injection).

`SqlProofs` (for any statements, holder size and bounds):

- `TypesAreKept`, `NothingIsLeftOpen` (`NothingLeftOpen`), `ImplementsLog` (`Implements`: the
  initial states and every step map to SqlLog). Until two calls overlap this says that each thread's
  transaction is one operation; afterwards it says nothing of what a transaction contains.

The refinement needs `Halfway` (what is open on the server and what is left of the
transaction make the whole of it, as long as the connection lives, so COMMIT adds exactly
the transaction), `Snapshot` (the results a holder has so far all are the present contents:
only the delay thread writes), `Single` (a statement operation has one statement) and
`OpenHere` (an open transaction does not survive the connection or the process). That what a thread
commits is what it has written needs `Separate`: until two calls overlap, a thread in a call is the
one named in `tranThread`, no other is in one, and outside the halves of a call its entry of
`m_tranQueues` is exactly what it has written.

`InventoryProofs` (for any items, prototypes, amounts and bounds):

- `TypesAreKept`, `ChangesAreQueued` (`EveryChangeIsQueued`), `ModifiersAreHeld`
  (`ModifiersHold`), `SlotsAreKept` (`OnePerSlot`), `GoodsAreMoved` (`GoodsMove`).
- `SavesAreComplete` (`SaveStoresUnmerged`): a save leaves what the player holds, piece for piece,
  if the login merged no stacks; the merge `inventory_stored` shows is the only cause.

`EveryChangeIsQueued` needs `Chained` (each view follows from the one before by its
transaction), `Staged` (what an offline and a loading player has), `Awaiting` (rows the
login has not looked at have no pending change), `GrownHaveRows` and `AbsorbedInBag` (the two
stacks of a merge). `ModifiersHold` needs `NoDebts`: no saved modifier of a pet is negative.
What the functions that move items do to a memory is stated once (`StoreItemDoes`, `TakenFromDoes`,
`PutOnDoes` and so on), in terms of items that are the same, kept or gone. `Held` is the
cardinality of `Pieces` (an item and a number up to its count), so goods are compared by bijections
of pieces instead of sums. `GoodsMove` adds `Stacked`, an invariant of its own: a stack of
equipment is not above its `Stackable`, in memory and in every view of the rows, so that an item taken
off into a stack of its kind does not wrap (`StackAssumption`: `Stackable` is a smallint in
`sql/legacydb.sql` 105, a count has 32 bits). `SavesAreComplete` follows from
`EveryChangeIsQueued`, once no stack that grew during the login is left out (`GrownByAbsorbing`).

`SessionsProofs` (for any sockets, accounts, characters and bounds):

- `TypesAreKept`, `LinksAreKept` (`LinksAgree`), `PlayersArePresent` (the player of a session
  is in the world and belongs to the account), `OnlineMarksAgree` (`OnlineAccountsHaveSessions`),
  `CharacterMarksAgree` (`MarkedCharactersPlay`).

`LinksAgree` needs `AuthInStep` (what the call of `_HandleAuthSession` has done so far still
holds, whatever the world thread did since) and `ServingLives` (the session the world thread
is inside exists); the type of `world` (no player is removed twice) needs `PlayersInWorld`
and `OwnedQueues` (a character is loaded for its own account only). What a database is going
to say of an account or a character is the last waiting operation about it, or the row if none
waits (`Settles`), instead of a fold over the queue: a write moves that operation to the row, a
new one is last. `OnlineMarks` then says where the mark runs ahead of the session: it is gone as
soon as the session is on its way out, and stays for an account in `refused`. A character is marked only where its player enters the
world (`CallbackMarks`), and what takes a player out of it also unmarks all characters of the
account, after the last save (`LogoutSettles`).

Assumptions are those named in the modules on their constants (distinct seats, cells and
names, finite boards and bags, self-targeted skills do not link, NULL is not a value).

Only model-checked, not proved: the liveness properties `WaitEnds`, `DecidedBattleEnds`, `Decides`,
`CallbacksRun` and `AbandonedSessionsEnd` (fairness and ENABLED are out of the prover's reach).

## 6. Not modelled

Damage, buffs and experience; the bound of `m_Actions[20]`; releasing a pet in a
battle; sub-leaders and the positions of teams; gold, set bonuses and the
effects of items; banks and slot numbers; transactions of a save that fail; wrong passwords
and names; transactions before the delay thread exists or after it is halted, which nobody
opens; and the components marked `not_modelled` in `PROJECT.json`, each with its reason.

The lines the map covers are a small part of the repository: nearly three quarters of it
(`src/dep`) is vendored code, and much of the rest is tables of opcodes and spells, packet
layouts, logging and grid templates that keep no state the properties could be about.

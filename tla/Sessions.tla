------------------------------ MODULE Sessions ------------------------------
(***************************************************************************)
(* Logging in and out: the sockets and the authentication handler on the   *)
(* socket thread (game/WorldSocket.cpp), the sessions the world thread     *)
(* serves and ends (game/World.cpp, game/WorldSession.cpp), the creation   *)
(* and the loading of a character (game/CharacterHandler.cpp), and the     *)
(* "online" marks in the accounts and characters tables, which two delay   *)
(* threads write, one for each database (legacyd/Master.cpp clears them    *)
(* when the server starts).                                                *)
(*                                                                         *)
(* A client connects, authenticates, creates a character when it is asked  *)
(* to, and may go away at any moment; it may authenticate again on the     *)
(* same connection, for the same or for another account.  Names, passwords *)
(* and the other packets are left out: none of them changes this state.    *)
(*                                                                         *)
(* Statements are executed as SqlLog says.  A query that is not delayed    *)
(* uses the connection of the delay thread, so it sees what an unfinished  *)
(* transaction has deleted.                                                *)
(***************************************************************************)
EXTENDS Naturals, Sequences

CONSTANTS
  Sockets,     \* WorldSocket objects
  Accounts,    \* account ids
  Characters,  \* character guids
  Owner,       \* the account a character is or will be created for
  Existing,    \* the characters there are when the server starts
  Passwords,   \* the accounts the client of a connection can authenticate for
  Null,        \* no object
  MaxMarks,    \* bound on the marks of accounts that wait, and
  MaxPending,  \* on the operations on the characters database that wait when a
               \* client authenticates or a character is saved
  MaxObjects   \* bound on the Player objects of a character in the world
               \* when a client authenticates

ASSUME OwnerAssumption ==
  /\ Owner \in [Characters -> Accounts] /\ Existing \subseteq Characters
  /\ Passwords \in [Sockets -> SUBSET Accounts]

VARIABLES
  sockets,      \* the connections: whether the client is asked to create a
                \* character, and _session
  auth,         \* the call of _HandleAuthSession the socket thread is in
  sessions,     \* m_sessions
  serving,      \* the call for a session the world thread is in
  world,        \* the number of Player objects of a character on the maps
  loginQueue,   \* operations of the login database not yet written
  online,       \* accounts.online
  charQueue,    \* operations of the characters database not yet executed
  saving,       \* the oldest has deleted the character's row and not yet inserted it
  rows,         \* characters.online, "none" for no row
  answers,      \* m_resultQueue
  refused,      \* the accounts whose session without a player was removed
                \* by an authentication that then went no further
  overwritten   \* a connection has authenticated for a second account

vars == <<sockets, auth, sessions, serving, world, loginQueue, online,
          charQueue, saving, rows, answers, refused, overwritten>>

net      == <<sockets, auth>>
loginDb  == <<loginQueue, online>>
charDb   == <<charQueue, saving, rows, answers>>
seen     == <<refused, overwritten>>

Session == [socket : Sockets \cup {Null}, player : Characters \cup {Null},
            loading : BOOLEAN, packet : {"none", "login", "create"}]

Connection == [challenged : BOOLEAN, session : Accounts \cup {Null}]

Authentication == [socket : Sockets, account : Accounts, at : {"remove", "add", "look"}]

Turn == [account : Accounts, at : {"created", "ended"}]

ASSUME NullAssumption ==
  /\ Null \notin Accounts /\ Null \notin Characters /\ Null \notin Sockets
  /\ Null \notin Session /\ Null \notin Connection
  /\ Null \notin Authentication /\ Null \notin Turn

LoginOps == [kind : {"mark"}, account : Accounts, to : BOOLEAN] \cup [kind : {"clear"}]

CharOps ==
  [kind : {"save", "online"}, character : Characters]
    \cup [kind : {"offline"}, account : Accounts]
    \cup [kind : {"load"}, account : Accounts, character : Characters]
    \cup [kind : {"clear"}]

Answers == [account : Accounts, character : Characters, found : BOOLEAN]

TypeOK ==
  /\ sockets \in [Sockets -> Connection \cup {Null}]
  /\ auth \in Authentication \cup {Null}
  /\ sessions \in [Accounts -> Session \cup {Null}]
  /\ serving \in Turn \cup {Null}
  /\ world \in [Characters -> Nat]
  /\ loginQueue \in Seq(LoginOps) /\ online \in [Accounts -> BOOLEAN]
  /\ charQueue \in Seq(CharOps) /\ saving \in BOOLEAN
  /\ rows \in [Characters -> {"none", "offline", "online"}]
  /\ answers \in Seq(Answers)
  /\ refused \subseteq Accounts /\ overwritten \in BOOLEAN

\* clearOnlineAccounts, when the server starts.
Started ==
  /\ sockets' = [k \in Sockets |-> Null] /\ auth' = Null
  /\ sessions' = [a \in Accounts |-> Null] /\ serving' = Null
  /\ world' = [c \in Characters |-> 0]
  /\ loginQueue' = <<[kind |-> "clear"]>> /\ charQueue' = <<[kind |-> "clear"]>>
  /\ saving' = FALSE /\ answers' = <<>>
  /\ refused' = {} /\ overwritten' = FALSE

Init ==
  /\ sockets = [k \in Sockets |-> Null] /\ auth = Null
  /\ sessions = [a \in Accounts |-> Null] /\ serving = Null
  /\ world = [c \in Characters |-> 0]
  /\ loginQueue = <<[kind |-> "clear"]>> /\ charQueue = <<[kind |-> "clear"]>>
  /\ saving = FALSE /\ answers = <<>>
  /\ refused = {} /\ overwritten = FALSE
  /\ online = [a \in Accounts |-> FALSE]
  /\ rows = [c \in Characters |-> IF c \in Existing THEN "offline" ELSE "none"]

\* Faulty variant of Restart: the marks of the run before stay.
RestartUncleared ==
  /\ sockets' = [k \in Sockets |-> Null] /\ auth' = Null
  /\ sessions' = [a \in Accounts |-> Null] /\ serving' = Null
  /\ world' = [c \in Characters |-> 0]
  /\ loginQueue' = <<[kind |-> "clear"]>> /\ charQueue' = <<>>
  /\ saving' = FALSE /\ answers' = <<>> /\ refused' = {} /\ overwritten' = FALSE
  /\ UNCHANGED <<online, rows>>

\* The server is stopped, or dies, and is started again.
Restart == Started /\ UNCHANGED <<online, rows>>

(***************************************************************************)
(* The databases.                                                          *)
(***************************************************************************)
Mark(a, b)  == [kind |-> "mark", account |-> a, to |-> b]
SaveOf(c)   == [kind |-> "save", character |-> c]
Online(c)   == [kind |-> "online", character |-> c]
Offline(a)  == [kind |-> "offline", account |-> a]
Load(a, c)  == [kind |-> "load", account |-> a, character |-> c]

AccountsAfter(marks, op) ==
  IF op.kind = "clear" THEN [a \in Accounts |-> FALSE] ELSE [marks EXCEPT ![op.account] = op.to]

\* SaveToDB deletes the row and inserts it without the column "online".
RowsAfter(rs, op) ==
  CASE op.kind = "save"    -> [rs EXCEPT ![op.character] = "offline"]
    [] op.kind = "online"  -> [rs EXCEPT ![op.character] = IF @ = "none" THEN "none" ELSE "online"]
    [] op.kind = "offline" -> [c \in Characters |->
                                 IF Owner[c] = op.account /\ rs[c] # "none" THEN "offline" ELSE rs[c]]
    [] op.kind = "clear"   -> [c \in Characters |-> IF rs[c] = "none" THEN "none" ELSE "offline"]
    [] OTHER               -> rs

WriteLogin ==
  /\ loginQueue # <<>>
  /\ online' = AccountsAfter(online, Head(loginQueue)) /\ loginQueue' = Tail(loginQueue)
  /\ UNCHANGED <<net, sessions, serving, world, charDb, seen>>

\* A transaction deletes the row before it inserts it.
BeginSave ==
  /\ charQueue # <<>> /\ Head(charQueue).kind = "save" /\ ~saving
  /\ saving' = TRUE
  /\ UNCHANGED <<net, sessions, serving, world, loginDb, charQueue, rows, answers, seen>>

\* The row of a character is found by the queries of a login, or they fail.
Results(op) ==
  {r \in [account : {op.account}, character : {op.character}, found : BOOLEAN] :
     r.found => \E c \in Characters : Owner[c] = op.account /\ rows[c] # "none"}

WriteChar ==
  /\ charQueue # <<>> /\ (Head(charQueue).kind = "save" => saving)
  /\ rows' = RowsAfter(rows, Head(charQueue))
  /\ charQueue' = Tail(charQueue) /\ saving' = FALSE
  /\ IF Head(charQueue).kind # "load" THEN UNCHANGED answers
     ELSE \E r \in Results(Head(charQueue)) : answers' = Append(answers, r)
  /\ UNCHANGED <<net, sessions, serving, world, loginDb, seen>>

\* What a query that is not delayed finds for an account.
Visible(a) ==
  {c \in Characters : /\ Owner[c] = a /\ rows[c] # "none"
                      /\ ~(saving /\ Head(charQueue).character = c)}

(***************************************************************************)
(* The clients and the socket thread.                                      *)
(***************************************************************************)
\* The client goes away, which it may do at any moment, or the socket thread
\* deletes a connection that was closed.
OnDelete(k) ==
  /\ auth = Null /\ sockets[k] # Null
  /\ sockets' = [sockets EXCEPT ![k] = Null]
  /\ sessions' = [a \in Accounts |->
       IF a = sockets[k].session THEN [sessions[a] EXCEPT !.socket = Null] ELSE sessions[a]]
  /\ UNCHANGED <<auth, serving, world, loginDb, charDb, seen>>

\* Faulty variant of LogoutPlayer: the account is freed only with a player.
LogoutPlayerLoaded(a) ==
  LET player == sessions[a].player IN
  /\ loginQueue' = IF player = Null THEN loginQueue ELSE Append(loginQueue, Mark(a, FALSE))
  /\ charQueue' = charQueue \o (IF player = Null THEN <<>> ELSE <<SaveOf(player)>>) \o <<Offline(a)>>
  /\ world' = [c \in Characters |-> IF c = player THEN world[c] - 1 ELSE world[c]]

\* Faulty variant of LogoutPlayer: a player is removed though none is loaded.
LogoutPlayerUnasked(a) ==
  /\ loginQueue' = Append(loginQueue, Mark(a, FALSE))
  /\ charQueue' = Append(charQueue, Offline(a))
  /\ world' = [c \in Characters |-> IF Owner[c] = a THEN world[c] - 1 ELSE world[c]]

LogoutPlayer(a) ==
  LET player == sessions[a].player IN
  /\ loginQueue' = Append(loginQueue, Mark(a, FALSE))
  /\ charQueue' = charQueue \o (IF player = Null THEN <<>> ELSE <<SaveOf(player)>>) \o <<Offline(a)>>
  /\ world' = [c \in Characters |-> IF c = player THEN world[c] - 1 ELSE world[c]]

\* A client is authenticated, its account not being online as far as is
\* written: on a new connection, which changes nothing until then, or once
\* more on one that may have a session, or was closed while its packets wait
\* to be read.
AuthAsk(k, a) ==
  /\ auth = Null /\ a \in Passwords[k] /\ ~online[a]
  /\ Len(charQueue) + Len(answers) < MaxPending /\ Len(loginQueue) < MaxMarks[a]
  /\ \A c \in Characters : world[c] <= MaxObjects
  /\ sockets' = IF sockets[k] # Null THEN sockets
                ELSE [sockets EXCEPT ![k] = [challenged |-> FALSE, session |-> Null]]
  /\ auth' = [socket |-> k, account |-> a, at |-> "remove"]
  /\ UNCHANGED <<sessions, serving, world, loginDb, charDb, seen>>

AuthAt(at) == auth # Null /\ auth.at = at

\* Faulty variant of CloseSocket: the socket keeps its pointer to the session.
CloseSocketKept(k) == sockets

\* A socket that is deleted stays so: what is written to it has no effect.
\* The others are deleted later, like one whose client goes away.
CloseSocket(k) ==
  [j \in Sockets |->
     IF j = k /\ sockets[j] # Null THEN [sockets[j] EXCEPT !.session = Null] ELSE sockets[j]]

\* The world thread is in the middle of something for the session.
Inside(a) == serving # Null /\ serving.account = a

\* The session the account still has is deleted, and its socket is closed.
RemoveSession(a) ==
  /\ IF sessions[a] # Null /\ sessions[a].player # Null THEN LogoutPlayer(a)
     ELSE UNCHANGED <<loginQueue, charQueue, world>>
  /\ sockets' = IF sessions[a] = Null THEN sockets ELSE CloseSocket(sessions[a].socket)
  /\ sessions' = [sessions EXCEPT ![a] = Null]

\* When the world thread is inside the session both threads delete or use
\* it, and the server dies.  RemoveSession returns nothing, and its result is
\* asked for: read as true the authentication goes on, read as false it ends.
AuthRemove ==
  /\ AuthAt("remove")
  /\ LET a == auth.account IN
     IF sessions[a] # Null /\ Inside(a) THEN Restart
     ELSE /\ RemoveSession(a)
          /\ \/ auth' = [auth EXCEPT !.at = "add"] /\ UNCHANGED refused
             \/ /\ auth' = Null
                /\ refused' = IF sessions[a] # Null /\ sessions[a].player = Null
                              THEN refused \cup {a} ELSE refused
          /\ UNCHANGED <<serving, online, saving, rows, answers, overwritten>>

AuthAdd ==
  /\ AuthAt("add")
  /\ LET k == auth.socket
         a == auth.account IN
     /\ loginQueue' = Append(loginQueue, Mark(a, TRUE))
     /\ sessions' = [sessions EXCEPT ![a] =
          [socket |-> k, player |-> Null, loading |-> FALSE, packet |-> "none"]]
     /\ sockets' = [sockets EXCEPT ![k].session = a]
     /\ refused' = refused \ {a}
     /\ overwritten' = (overwritten \/ sockets[k].session # Null)
  /\ auth' = [auth EXCEPT !.at = "look"]
  /\ UNCHANGED <<serving, world, online, charDb>>

\* With a character that is not marked online the packet goes on to the
\* session; without one the client is asked to create one.
AuthLook ==
  /\ AuthAt("look")
  /\ LET found == \E c \in Visible(auth.account) : rows[c] = "offline" IN
     /\ sockets' = [sockets EXCEPT ![auth.socket].challenged = ~found]
     /\ sessions' = IF found THEN [sessions EXCEPT ![auth.account].packet = "login"] ELSE sessions
  /\ auth' = Null
  /\ UNCHANGED <<serving, world, loginDb, charDb, seen>>

SendCreate(k) ==
  /\ auth = Null /\ sockets[k] # Null
  /\ sockets[k].challenged /\ sockets[k].session # Null
  /\ sockets' = [sockets EXCEPT ![k].challenged = FALSE]
  /\ sessions' = [sessions EXCEPT ![sockets[k].session].packet = "create"]
  /\ UNCHANGED <<auth, serving, world, loginDb, charDb, seen>>

(***************************************************************************)
(* The world thread.                                                       *)
(***************************************************************************)
Has(a) == serving = Null /\ sessions[a] # Null

\* The session is loading from here on, also when the row is not found.
HandlePlayerLoginOpcode(a) ==
  /\ sessions' = [sessions EXCEPT ![a].loading = TRUE, ![a].packet = "none"]
  /\ \/ Visible(a) = {} /\ UNCHANGED charQueue
     \/ \E c \in Visible(a) : charQueue' = Append(charQueue, Load(a, c))
  /\ UNCHANGED <<net, world, loginDb, saving, rows, answers, seen>>

ServeLogin(a) ==
  /\ Has(a) /\ sessions[a].packet = "login"
  /\ HandlePlayerLoginOpcode(a) /\ UNCHANGED serving

\* The character is handed over to be saved, then the world thread sleeps;
\* without a name or when it cannot be created nothing happens.
HandleCharCreate(a) ==
  /\ Has(a) /\ sessions[a].packet = "create"
  /\ sessions' = [sessions EXCEPT ![a].packet = "none"]
  /\ \/ UNCHANGED <<charQueue, serving>>
     \/ \E c \in Characters :
          /\ Owner[c] = a /\ rows[c] = "none"
          /\ \A i \in 1..Len(charQueue) : charQueue[i] # SaveOf(c)
          /\ charQueue' = Append(charQueue, SaveOf(c))
          /\ serving' = [account |-> a, at |-> "created"]
  /\ UNCHANGED <<net, world, loginDb, saving, rows, answers, seen>>

LoginCreated ==
  /\ serving # Null /\ serving.at = "created"
  /\ HandlePlayerLoginOpcode(serving.account) /\ serving' = Null

\* WorldSession::Update, the socket gone and nothing left to serve.
EndSession(a) ==
  /\ Has(a) /\ sessions[a].packet = "none"
  /\ sessions[a].socket = Null /\ ~sessions[a].loading
  /\ LogoutPlayer(a)
  /\ sessions' = [sessions EXCEPT ![a].player = Null]
  /\ serving' = [account |-> a, at |-> "ended"]
  /\ UNCHANGED <<net, online, saving, rows, answers, seen>>

\* World::Update deletes and erases it.
EraseSession ==
  /\ serving # Null /\ serving.at = "ended"
  /\ sessions' = [sessions EXCEPT ![serving.account] = Null]
  /\ serving' = Null
  /\ UNCHANGED <<net, world, loginDb, charDb, seen>>

\* Faulty variant of HandlePlayerLogin: a login that fails goes on loading.
HandlePlayerLoginStuck(ans) ==
  IF ans.found
  THEN /\ sessions' = [sessions EXCEPT ![ans.account].loading = FALSE,
                                       ![ans.account].player = ans.character]
       /\ world' = [world EXCEPT ![ans.character] = @ + 1]
       /\ charQueue' = Append(charQueue, Online(ans.character))
  ELSE UNCHANGED <<sessions, world, charQueue>>

\* The player enters the world, in the place of one the session may have.
HandlePlayerLogin(ans) ==
  IF ans.found
  THEN /\ sessions' = [sessions EXCEPT ![ans.account].loading = FALSE,
                                       ![ans.account].player = ans.character]
       /\ world' = [world EXCEPT ![ans.character] = @ + 1]
       /\ charQueue' = Append(charQueue, Online(ans.character))
  ELSE /\ sessions' = [sessions EXCEPT ![ans.account].loading = FALSE]
       /\ UNCHANGED <<world, charQueue>>

\* UpdateResultQueue: the answer goes to the session the account has now.
HandlePlayerLoginCallback ==
  /\ serving = Null /\ answers # <<>>
  /\ IF sessions[Head(answers).account] = Null THEN UNCHANGED <<sessions, world, charQueue>>
     ELSE HandlePlayerLogin(Head(answers))
  /\ answers' = Tail(answers)
  /\ UNCHANGED <<net, serving, loginDb, saving, rows, seen>>

\* Player::Update saves every so often.
AutoSave(c) ==
  /\ serving = Null /\ world[c] > 0 /\ Len(charQueue) < MaxPending
  /\ charQueue' = Append(charQueue, SaveOf(c))
  /\ UNCHANGED <<net, sessions, serving, world, loginDb, saving, rows, answers, seen>>

Next ==
  \/ \E k \in Sockets, a \in Accounts : AuthAsk(k, a)
  \/ \E k \in Sockets : OnDelete(k) \/ SendCreate(k)
  \/ AuthRemove \/ AuthAdd \/ AuthLook
  \/ \E a \in Accounts : ServeLogin(a) \/ HandleCharCreate(a) \/ EndSession(a)
  \/ LoginCreated \/ EraseSession \/ HandlePlayerLoginCallback
  \/ \E c \in Characters : AutoSave(c)
  \/ WriteLogin \/ BeginSave \/ WriteChar
  \/ Restart

Spec == Init /\ [][Next]_vars

\* The delay thread goes through its queue.  World::Update looks at every
\* session and then at the answers, in each of its rounds: neither is passed
\* over for ever, though what other sessions ask for comes in between.
Fairness ==
  /\ WF_vars(BeginSave \/ WriteChar)
  /\ WF_vars(LoginCreated \/ EraseSession) /\ SF_vars(HandlePlayerLoginCallback)
  /\ \A a \in Accounts : SF_vars(ServeLogin(a) \/ HandleCharCreate(a) \/ EndSession(a))

FairSpec == Spec /\ Fairness

(***************************************************************************)
(* Properties                                                              *)
(***************************************************************************)

\* A socket's session points back at it: no socket keeps a session that
\* another connection has removed (CloseSocket, OnDelete and the comment at
\* WorldSocket.cpp 237), so its packets never reach a session that is deleted
\* or is another client's.  A session's socket points back at it as well, as
\* long as no connection has authenticated for two accounts: the first
\* session would keep a socket that no longer knows it (WorldSocket.cpp 358).
LinksAgree ==
  /\ \A k \in Sockets :
       sockets[k] # Null /\ sockets[k].session # Null =>
         sessions[sockets[k].session] # Null /\ sessions[sockets[k].session].socket = k
  /\ \A a \in Accounts :
       ~overwritten /\ sessions[a] # Null /\ sessions[a].socket # Null =>
         sockets[sessions[a].socket] # Null /\ sockets[sessions[a].socket].session = a

\* Authenticating the account right now.
Entering(a) == auth # Null /\ auth.at = "add" /\ auth.account = a

Leaving(a) == serving # Null /\ serving.at = "ended" /\ serving.account = a

\* What the operations q are going to leave behind: whether the last one of S
\* among them is one of Y, or b when there is none.
Settles(q, S, Y, b) ==
  \/ \E i \in 1..Len(q) : q[i] \in Y /\ \A j \in (i + 1)..Len(q) : q[j] \notin S
  \/ b /\ \A i \in 1..Len(q) : q[i] \notin S

MarksOf(a)      == {Mark(a, TRUE), Mark(a, FALSE), [kind |-> "clear"]}
GoingOnline(a)  == Settles(loginQueue, MarksOf(a), {Mark(a, TRUE)}, online[a])
UpdatesOf(c)    == {SaveOf(c), Online(c), Offline(Owner[c]), [kind |-> "clear"]}
GoingMarked(c)  == Settles(charQueue, UpdatesOf(c), {Online(c)}, rows[c] = "online")

\* Once the login database has caught up, exactly the accounts with a session
\* are marked online, whatever was kicked, lost or restarted in between, and
\* those an authentication took the session from that then ended: these alone
\* are locked until the next start (WorldSession.cpp 252, WorldSocket.cpp 349
\* and 354, the missing return of World.cpp 261 and clearOnlineAccounts).
OnlineAccountsHaveSessions ==
  \A a \in Accounts : ~Entering(a) /\ ~Leaving(a) =>
    (GoingOnline(a) <=> sessions[a] # Null \/ a \in refused)

\* Once the characters database has caught up, only characters in the world
\* are marked online, so no character is left that the authentication does
\* not find (WorldSocket.cpp 363, LogoutPlayer and clearOnlineAccounts).
MarkedCharactersPlay == \A c \in Characters : GoingMarked(c) => world[c] > 0

Awaited(a) ==
  \/ \E i \in 1..Len(charQueue) : charQueue[i].kind = "load" /\ charQueue[i].account = a
  \/ \E i \in 1..Len(answers) : answers[i].account = a

\* A client that has gone with nothing left to serve frees its account, also
\* when it left in the middle of the login: its session ends, unless it
\* waits for an answer nobody will give (WorldSession::Update,
\* HandlePlayerLoginCallback).
AbandonedSessionsEnd ==
  \A a \in Accounts :
    (/\ sessions[a] # Null /\ sessions[a].socket = Null
     /\ sessions[a].packet = "none" /\ ~Inside(a)
     /\ sessions[a].loading => Awaited(a))
      ~> (sessions[a] = Null \/ sessions[a].socket # Null)

\* A character that has just been created can be loaded, so every session
\* that starts to load stops loading: CharacterHandler.cpp 249, "do a small
\* delay to make sure player save to database completed".
LoadingEnds ==
  \A a \in Accounts :
    (sessions[a] # Null /\ sessions[a].loading) ~> (sessions[a] = Null \/ ~sessions[a].loading)

\* At most one Player object of an account is in the world: WorldSocket.cpp
\* 348, "kick already loaded player with same account (if any) and remove
\* session".
OnePlayerInWorld ==
  \A c, d \in Characters : Owner[c] = Owner[d] =>
    (IF c = d THEN world[c] <= 1 ELSE world[c] = 0 \/ world[d] = 0)
=============================================================================

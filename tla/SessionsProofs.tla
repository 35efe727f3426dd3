--------------------------- MODULE SessionsProofs ---------------------------
(***************************************************************************)
(* Theorems about Sessions, for any number of sockets, accounts and        *)
(* characters and whatever the bounds.  The parts of the inductive         *)
(* invariant:                                                              *)
(*                                                                         *)
(*   TypeOK, LinksAgree  (of Sessions)                                     *)
(*   OwnedQueues         a character is only loaded for its own account    *)
(*   AuthInStep          what the call of _HandleAuthSession has done so   *)
(*                       far still holds                                   *)
(*   ServingLives        the session the world thread is inside exists     *)
(*   PlayersInWorld      the player of a session is in the world, and is   *)
(*                       a character of the account                        *)
(*                                                                         *)
(* On top of it two more invariants are inductive, about what is left when *)
(* every operation that waits has taken effect (Settles):                  *)
(*                                                                         *)
(*   OnlineMarks           an account is marked exactly while a session of *)
(*                         it is neither on its way in nor out, or since   *)
(*                         an authentication took its session and ended    *)
(*   MarkedCharactersPlay  (of Sessions)                                   *)
(***************************************************************************)
EXTENDS Sessions, TLAPS

OwnedOps == {o \in CharOps : o.kind = "load" => Owner[o.character] = o.account}

OwnedAnswers == {r \in Answers : Owner[r.character] = r.account}

OwnedQueues == charQueue \in Seq(OwnedOps) /\ answers \in Seq(OwnedAnswers)

AuthInStep ==
  auth # Null =>
    /\ sockets[auth.socket] # Null
    /\ auth.at = "add" => sessions[auth.account] = Null
    /\ auth.at = "look" => sockets[auth.socket].session = auth.account

ServingLives ==
  serving # Null =>
    /\ sessions[serving.account] # Null
    /\ serving.at = "ended" => sessions[serving.account].socket = Null

PlayersInWorld ==
  \A a \in Accounts :
    sessions[a] # Null /\ sessions[a].player # Null =>
      Owner[sessions[a].player] = a /\ world[sessions[a].player] > 0

Inv == TypeOK /\ OwnedQueues /\ LinksAgree /\ AuthInStep /\ ServingLives /\ PlayersInWorld

-----------------------------------------------------------------------------
\* The queues

LEMMA OpsAreOwned ==
  /\ [kind |-> "clear"] \in OwnedOps /\ [kind |-> "clear"] \in LoginOps
  /\ \A a \in Accounts : Offline(a) \in OwnedOps
  /\ \A a \in Accounts, b \in BOOLEAN : Mark(a, b) \in LoginOps
  /\ \A c \in Characters : SaveOf(c) \in OwnedOps /\ Online(c) \in OwnedOps
  /\ \A a \in Accounts, c \in Characters : Owner[c] = a => Load(a, c) \in OwnedOps
BY DEF OwnedOps, CharOps, LoginOps, Offline, Mark, SaveOf, Online, Load

LEMMA AppendKeeps ==
  ASSUME NEW S, NEW s \in Seq(S), NEW e \in S
  PROVE  Append(s, e) \in Seq(S)
OBVIOUS

LEMMA TailKeeps ==
  ASSUME NEW S, NEW s \in Seq(S), s # <<>>
  PROVE  Tail(s) \in Seq(S) /\ Head(s) \in S
OBVIOUS

LEMMA LogoutKeeps ==
  ASSUME TypeOK, OwnedQueues, PlayersInWorld, NEW a \in Accounts, sessions[a] # Null,
         LogoutPlayer(a)
  PROVE  /\ loginQueue' \in Seq(LoginOps) /\ charQueue' \in Seq(OwnedOps)
         /\ world' \in [Characters -> Nat]
         /\ \A c \in Characters : c # sessions[a].player => world'[c] = world[c]
<1>1. sessions[a] \in Session
  BY DEF TypeOK
<1>2. loginQueue' \in Seq(LoginOps)
  BY OpsAreOwned, AppendKeeps DEF LogoutPlayer, TypeOK
<1>3. charQueue' \in Seq(OwnedOps)
  <2>1. charQueue \in Seq(OwnedOps) /\ Offline(a) \in OwnedOps
    BY OpsAreOwned DEF OwnedQueues
  <2>2. CASE sessions[a].player = Null
    <3>1. charQueue' = charQueue \o <<>> \o <<Offline(a)>>
      BY <2>2 DEF LogoutPlayer
    <3> QED
      BY <2>1, <3>1
  <2>3. CASE sessions[a].player # Null
    <3>1. charQueue' = charQueue \o <<SaveOf(sessions[a].player)>> \o <<Offline(a)>>
      BY <2>3 DEF LogoutPlayer
    <3>2. SaveOf(sessions[a].player) \in OwnedOps
      BY <1>1, <2>3, OpsAreOwned DEF Session
    <3> QED
      BY <2>1, <3>1, <3>2
  <2> QED
    BY <2>2, <2>3
<1>4. world' = [c \in Characters |-> IF c = sessions[a].player THEN world[c] - 1 ELSE world[c]]
  BY DEF LogoutPlayer
<1>5. ASSUME NEW c \in Characters, c = sessions[a].player
      PROVE  world[c] > 0
  BY <1>5, NullAssumption DEF PlayersInWorld
<1>6. world' \in [Characters -> Nat]
  BY <1>4, <1>5 DEF TypeOK
<1> QED
  BY <1>2, <1>3, <1>4, <1>6

-----------------------------------------------------------------------------
\* The databases

Net == LinksAgree /\ AuthInStep /\ ServingLives /\ PlayersInWorld

LEMMA NetUntouched ==
  ASSUME Net, UNCHANGED <<sockets, auth, sessions, serving, world, seen>>
  PROVE  Net'
BY DEF seen, Net, LinksAgree, AuthInStep, ServingLives, PlayersInWorld

LEMMA RowsKeep ==
  ASSUME NEW rs \in [Characters -> {"none", "offline", "online"}], NEW op
  PROVE  RowsAfter(rs, op) \in [Characters -> {"none", "offline", "online"}]
BY DEF RowsAfter

LEMMA WriteLoginKeeps == ASSUME Inv, WriteLogin PROVE Inv'
<1>1. Net'
  BY NetUntouched DEF Inv, Net, WriteLogin, net
<1>2. Tail(loginQueue) \in Seq(LoginOps) /\ Head(loginQueue) \in LoginOps
  BY TailKeeps DEF Inv, TypeOK, WriteLogin
<1>3. online' \in [Accounts -> BOOLEAN]
  BY <1>2 DEF Inv, TypeOK, WriteLogin, AccountsAfter, LoginOps
<1>4. TypeOK' /\ OwnedQueues'
  BY <1>2, <1>3 DEF Inv, TypeOK, OwnedQueues, seen, WriteLogin, net, charDb
<1> QED
  BY <1>1, <1>4 DEF Inv, Net

LEMMA BeginSaveKeeps == ASSUME Inv, BeginSave PROVE Inv'
<1>1. Net'
  BY NetUntouched DEF Inv, Net, BeginSave, net
<1>2. TypeOK' /\ OwnedQueues'
  BY DEF Inv, TypeOK, OwnedQueues, seen, BeginSave, net, loginDb
<1> QED
  BY <1>1, <1>2 DEF Inv, Net

LEMMA WriteCharKeeps == ASSUME Inv, WriteChar PROVE Inv'
<1>1. Net'
  BY NetUntouched DEF Inv, Net, WriteChar, net
<1>2. Tail(charQueue) \in Seq(OwnedOps) /\ Head(charQueue) \in OwnedOps
  BY TailKeeps DEF Inv, OwnedQueues, WriteChar
<1>3. rows' \in [Characters -> {"none", "offline", "online"}]
  BY RowsKeep DEF Inv, TypeOK, WriteChar
<1>4. answers' \in Seq(OwnedAnswers)
  <2>1. CASE Head(charQueue).kind # "load"
    BY <2>1 DEF Inv, OwnedQueues, WriteChar
  <2>2. CASE Head(charQueue).kind = "load"
    <3>1. PICK r \in Results(Head(charQueue)) : answers' = Append(answers, r)
      BY <2>2 DEF WriteChar
    <3>2. /\ Head(charQueue).account \in Accounts /\ Head(charQueue).character \in Characters
          /\ Owner[Head(charQueue).character] = Head(charQueue).account
      BY <1>2, <2>2 DEF OwnedOps, CharOps
    <3>3. r \in OwnedAnswers
      BY <3>2 DEF Results, OwnedAnswers, Answers
    <3> QED
      BY <3>1, <3>3, AppendKeeps DEF Inv, OwnedQueues
  <2> QED
    BY <2>1, <2>2
<1>5. OwnedQueues'
  BY <1>2, <1>4 DEF OwnedQueues, WriteChar
<1>6. charQueue' \in Seq(CharOps) /\ answers' \in Seq(Answers)
  BY <1>5 DEF OwnedQueues, OwnedOps, OwnedAnswers
<1>7. TypeOK'
  BY <1>3, <1>6 DEF Inv, TypeOK, WriteChar, net, loginDb, seen
<1> QED
  BY <1>1, <1>5, <1>7 DEF Inv, Net

-----------------------------------------------------------------------------
\* The clients and the socket thread

LEMMA QueuesUntouched ==
  ASSUME OwnedQueues, UNCHANGED <<charQueue, answers>>
  PROVE  OwnedQueues'
BY DEF OwnedQueues

LEMMA AuthAskKeeps ==
  ASSUME Inv, NEW k \in Sockets, NEW a \in Accounts, AuthAsk(k, a)
  PROVE  Inv'
<1> DEFINE new == [challenged |-> FALSE, session |-> Null]
<1>1. /\ auth' = [socket |-> k, account |-> a, at |-> "remove"]
      /\ UNCHANGED <<sessions, serving, world, loginDb, charDb, seen>>
  BY DEF AuthAsk
<1>2. new \in Connection /\ auth' \in Authentication
  BY <1>1 DEF Connection, Authentication
<1>3. /\ sockets' \in [Sockets -> Connection \cup {Null}] /\ sockets'[k] # Null
      /\ \A j \in Sockets : \/ sockets'[j] = sockets[j]
                            \/ sockets[j] = Null /\ sockets'[j].session = Null
  <2>1. CASE sockets[k] # Null /\ sockets' = sockets
    BY <2>1 DEF Inv, TypeOK
  <2>2. CASE sockets[k] = Null /\ sockets' = [sockets EXCEPT ![k] = new]
    <3>1. sockets'[k] = new /\ \A j \in Sockets \ {k} : sockets'[j] = sockets[j]
      BY <2>2 DEF Inv, TypeOK
    <3> QED
      BY <1>2, <2>2, <3>1, NullAssumption DEF Inv, TypeOK
  <2> QED
    BY <2>1, <2>2 DEF AuthAsk
<1>4. LinksAgree'
  BY <1>1, <1>3 DEF Inv, LinksAgree, TypeOK, Session, seen
<1>5. AuthInStep'
  BY <1>1, <1>3 DEF AuthInStep
<1>6. ServingLives' /\ PlayersInWorld'
  BY <1>1 DEF Inv, ServingLives, PlayersInWorld
<1>7. TypeOK' /\ OwnedQueues'
  BY <1>1, <1>2, <1>3 DEF Inv, TypeOK, OwnedQueues, seen, loginDb, charDb
<1> QED
  BY <1>4, <1>5, <1>6, <1>7 DEF Inv

\* A step that leaves sockets and sessions where they are, and as linked.
SameLinks ==
  /\ \A k \in Sockets :
       /\ sockets'[k] # Null <=> sockets[k] # Null
       /\ sockets[k] # Null =>
            sockets'[k].session = sockets[k].session
  /\ \A a \in Accounts :
       /\ sessions'[a] # Null <=> sessions[a] # Null
       /\ sessions[a] # Null => sessions'[a].socket = sessions[a].socket

LEMMA SameLinksKeep ==
  ASSUME Inv, SameLinks, auth' \in {auth, Null}, UNCHANGED seen
  PROVE  LinksAgree' /\ AuthInStep' /\ (serving' \in {serving, Null} => ServingLives')
<1>1. LinksAgree'
  <2>1. ASSUME NEW k \in Sockets, sockets'[k] # Null, sockets'[k].session # Null
        PROVE  sessions'[sockets'[k].session] # Null /\ sessions'[sockets'[k].session].socket = k
    <3>1. sockets[k] # Null /\ sockets'[k].session = sockets[k].session
      BY <2>1 DEF SameLinks
    <3>2. /\ sockets[k].session \in Accounts
          /\ sessions[sockets[k].session] # Null /\ sessions[sockets[k].session].socket = k
      BY <2>1, <3>1 DEF Inv, LinksAgree, TypeOK, Connection
    <3> QED
      BY <3>1, <3>2 DEF SameLinks
  <2>2. ASSUME NEW a \in Accounts, ~overwritten', sessions'[a] # Null, sessions'[a].socket # Null
        PROVE  sockets'[sessions'[a].socket] # Null /\ sockets'[sessions'[a].socket].session = a
    <3>1. sessions[a] # Null /\ sessions'[a].socket = sessions[a].socket
      BY <2>2 DEF SameLinks
    <3>2. /\ sessions[a].socket \in Sockets
          /\ sockets[sessions[a].socket] # Null /\ sockets[sessions[a].socket].session = a
      BY <2>2, <3>1 DEF Inv, LinksAgree, TypeOK, Session, seen
    <3> QED
      BY <3>1, <3>2 DEF SameLinks
  <2> QED
    BY <2>1, <2>2 DEF LinksAgree
<1>2. AuthInStep'
  <2> SUFFICES ASSUME auth # Null, auth' = auth PROVE AuthInStep'
    BY DEF AuthInStep
  <2>1. auth.socket \in Sockets /\ auth.account \in Accounts /\ sockets[auth.socket] # Null
    BY DEF Inv, AuthInStep, TypeOK, Authentication
  <2> QED
    BY <2>1 DEF SameLinks, Inv, AuthInStep
<1>3. serving' \in {serving, Null} => ServingLives'
  <2> SUFFICES ASSUME serving # Null, serving' = serving PROVE ServingLives'
    BY DEF ServingLives
  <2>1. serving.account \in Accounts
    BY DEF Inv, TypeOK, Turn
  <2> QED
    BY <2>1 DEF SameLinks, Inv, ServingLives
<1> QED
  BY <1>1, <1>2, <1>3

LEMMA OnDeleteKeeps == ASSUME Inv, NEW k \in Sockets, OnDelete(k) PROVE Inv'
<1>1. /\ auth = Null /\ sockets[k] # Null
      /\ sockets' = [sockets EXCEPT ![k] = Null]
      /\ sessions' = [a \in Accounts |->
           IF a = sockets[k].session THEN [sessions[a] EXCEPT !.socket = Null] ELSE sessions[a]]
      /\ UNCHANGED <<auth, serving, world, loginDb, charDb, seen>>
  BY DEF OnDelete
<1>2. sockets[k] \in Connection
  BY <1>1 DEF Inv, TypeOK
<1>3. sockets'[k] = Null /\ \A j \in Sockets \ {k} : sockets'[j] = sockets[j]
  BY <1>1 DEF Inv, TypeOK
<1>4. \A a \in Accounts : a # sockets[k].session => sessions'[a] = sessions[a]
  BY <1>1
<1>5. ASSUME NEW a \in Accounts, a = sockets[k].session
      PROVE  /\ sessions[a] \in Session /\ sessions[a].socket = k
             /\ sessions'[a] \in Session /\ sessions'[a].socket = Null
             /\ sessions'[a].player = sessions[a].player
  <2>1. sessions[a] \in Session /\ sessions[a].socket = k
    BY <1>1, <1>5, NullAssumption DEF Inv, LinksAgree, TypeOK
  <2>2. sessions'[a] = [sessions[a] EXCEPT !.socket = Null]
    BY <1>1, <1>5
  <2> QED
    BY <2>1, <2>2 DEF Session
<1>6. sessions' \in [Accounts -> Session \cup {Null}]
  <2>1. \A a \in Accounts : sessions'[a] \in Session \cup {Null}
    BY <1>4, <1>5 DEF Inv, TypeOK
  <2> QED
    BY <1>1, <2>1
<1>7. TypeOK' /\ OwnedQueues'
  BY <1>1, <1>6 DEF Inv, TypeOK, OwnedQueues, seen, loginDb, charDb
<1>8. LinksAgree'
  <2>1. ASSUME NEW j \in Sockets, sockets'[j] # Null, sockets'[j].session # Null
        PROVE  sessions'[sockets'[j].session] # Null /\ sessions'[sockets'[j].session].socket = j
    <3>1. j # k /\ sockets'[j] = sockets[j]
      BY <1>3, <2>1
    <3>2. /\ sockets[j].session \in Accounts
          /\ sessions[sockets[j].session] # Null /\ sessions[sockets[j].session].socket = j
      BY <2>1, <3>1 DEF Inv, LinksAgree, TypeOK, Connection
    <3>3. sockets[j].session # sockets[k].session
      BY <1>5, <3>1, <3>2
    <3> QED
      BY <1>4, <3>1, <3>2, <3>3
  <2>2. ASSUME NEW a \in Accounts, ~overwritten', sessions'[a] # Null, sessions'[a].socket # Null
        PROVE  sockets'[sessions'[a].socket] # Null /\ sockets'[sessions'[a].socket].session = a
    <3>1. a # sockets[k].session /\ sessions'[a] = sessions[a]
      BY <1>4, <1>5, <2>2
    <3>2. /\ sessions[a].socket \in Sockets
          /\ sockets[sessions[a].socket] # Null /\ sockets[sessions[a].socket].session = a
      BY <1>1, <2>2, <3>1 DEF Inv, LinksAgree, TypeOK, Session, seen
    <3> QED
      BY <1>3, <3>1, <3>2
  <2> QED
    BY <2>1, <2>2 DEF LinksAgree
<1>9. AuthInStep'
  BY <1>1 DEF AuthInStep
<1>10. ServingLives'
  BY <1>1, <1>4, <1>5, NullAssumption DEF Inv, ServingLives, TypeOK, Turn
<1>11. PlayersInWorld'
  BY <1>1, <1>4, <1>5, NullAssumption DEF Inv, PlayersInWorld
<1> QED
  BY <1>7, <1>8, <1>9, <1>10, <1>11 DEF Inv

\* A change of what the client is asked for and its session has to serve.
LEMMA ServedKeeps ==
  ASSUME Inv, NEW k \in Sockets, sockets[k] # Null, NEW a \in Accounts, sessions[a] # Null,
         NEW c \in BOOLEAN, NEW p \in {"none", "login", "create"},
         sockets' = [sockets EXCEPT ![k].challenged = c],
         sessions' = [sessions EXCEPT ![a].packet = p]
  PROVE  /\ sockets' \in [Sockets -> Connection \cup {Null}]
         /\ sessions' \in [Accounts -> Session \cup {Null}]
         /\ SameLinks /\ (UNCHANGED world => PlayersInWorld')
<1>1. /\ [sockets[k] EXCEPT !.challenged = c] \in Connection
      /\ [sockets[k] EXCEPT !.challenged = c].session = sockets[k].session
  BY DEF Inv, TypeOK, Connection
<1>2. /\ [sessions[a] EXCEPT !.packet = p] \in Session
      /\ [sessions[a] EXCEPT !.packet = p].socket = sessions[a].socket
      /\ [sessions[a] EXCEPT !.packet = p].player = sessions[a].player
  BY DEF Inv, TypeOK, Session
<1>3. /\ sockets'[k] = [sockets[k] EXCEPT !.challenged = c]
      /\ \A j \in Sockets \ {k} : sockets'[j] = sockets[j]
      /\ sessions'[a] = [sessions[a] EXCEPT !.packet = p]
      /\ \A b \in Accounts \ {a} : sessions'[b] = sessions[b]
  BY DEF Inv, TypeOK
<1>4. SameLinks
  BY <1>1, <1>2, <1>3, NullAssumption DEF SameLinks
<1>5. UNCHANGED world => PlayersInWorld'
  BY <1>2, <1>3 DEF Inv, PlayersInWorld
<1> QED
  BY <1>1, <1>2, <1>4, <1>5 DEF Inv, TypeOK

LEMMA SendCreateKeeps == ASSUME Inv, NEW k \in Sockets, SendCreate(k) PROVE Inv'
<1>1. /\ sockets[k] # Null /\ sockets[k].session # Null
      /\ sockets' = [sockets EXCEPT ![k].challenged = FALSE]
      /\ sessions' = [sessions EXCEPT ![sockets[k].session].packet = "create"]
      /\ UNCHANGED <<auth, serving, world, loginDb, charDb, seen>>
  BY DEF SendCreate
<1>2. sockets[k].session \in Accounts /\ sessions[sockets[k].session] # Null
  BY <1>1 DEF Inv, TypeOK, LinksAgree, Connection
<1>3. /\ sockets' \in [Sockets -> Connection \cup {Null}]
      /\ sessions' \in [Accounts -> Session \cup {Null}]
      /\ SameLinks /\ PlayersInWorld'
  BY <1>1, <1>2, ServedKeeps
<1>4. LinksAgree' /\ AuthInStep' /\ ServingLives'
  BY <1>1, <1>3, SameLinksKeep
<1>5. TypeOK' /\ OwnedQueues'
  BY <1>1, <1>3 DEF Inv, TypeOK, OwnedQueues, seen, loginDb, charDb
<1> QED
  BY <1>3, <1>4, <1>5 DEF Inv

LEMMA RestartKeeps == ASSUME Inv, Restart PROVE Inv'
<1>1. <<[kind |-> "clear"]>> \in Seq(OwnedOps) /\ <<[kind |-> "clear"]>> \in Seq(LoginOps)
  BY OpsAreOwned
<1>2. <<[kind |-> "clear"]>> \in Seq(CharOps) /\ <<>> \in Seq(OwnedAnswers) /\ <<>> \in Seq(Answers)
  BY <1>1 DEF OwnedOps
<1>3. TypeOK' /\ OwnedQueues'
  BY <1>1, <1>2 DEF Restart, Started, Inv, TypeOK, OwnedQueues
<1>4. LinksAgree' /\ AuthInStep' /\ ServingLives' /\ PlayersInWorld'
  BY DEF Restart, Started, LinksAgree, AuthInStep, ServingLives, PlayersInWorld
<1> QED
  BY <1>3, <1>4 DEF Inv

\* What RemoveSession leaves behind, whichever way its result is read.
LEMMA RemoveSessionKeeps ==
  ASSUME Inv, NEW a \in Accounts, ~(sessions[a] # Null /\ Inside(a)), RemoveSession(a),
         UNCHANGED <<serving, online, saving, rows, answers, overwritten>>,
         auth' \in Authentication \cup {Null}, refused' \subseteq Accounts
  PROVE  /\ TypeOK' /\ OwnedQueues' /\ LinksAgree' /\ ServingLives' /\ PlayersInWorld'
         /\ sessions'[a] = Null
         /\ \A j \in Sockets : sockets[j] # Null => sockets'[j] # Null
<1> DEFINE gone == IF sessions[a] = Null THEN Null ELSE sessions[a].socket
<1>1. sessions' = [sessions EXCEPT ![a] = Null]
  BY DEF RemoveSession
<1>2. \A j \in Sockets :
        /\ j # gone => sockets'[j] = sockets[j]
        /\ sockets[j] = Null => sockets'[j] = Null
        /\ j = gone /\ sockets[j] # Null => sockets'[j] \in Connection /\ sockets'[j].session = Null
  <2> TAKE j \in Sockets
  <2>1. CASE sessions[a] = Null
    BY <2>1, NullAssumption DEF RemoveSession
  <2>2. CASE sessions[a] # Null
    <3>1. sockets'[j] = IF j = gone /\ sockets[j] # Null
                        THEN [sockets[j] EXCEPT !.session = Null] ELSE sockets[j]
      BY <2>2 DEF RemoveSession, CloseSocket
    <3>2. sockets[j] # Null => /\ [sockets[j] EXCEPT !.session = Null] \in Connection
                               /\ [sockets[j] EXCEPT !.session = Null].session = Null
      BY DEF Inv, TypeOK, Connection
    <3> QED
      BY <3>1, <3>2
  <2> QED
    BY <2>1, <2>2
<1>3. sessions'[a] = Null /\ \A b \in Accounts \ {a} : sessions'[b] = sessions[b]
  BY <1>1 DEF Inv, TypeOK
<1>4. /\ loginQueue' \in Seq(LoginOps) /\ charQueue' \in Seq(OwnedOps)
      /\ world' \in [Characters -> Nat]
      /\ \A c \in Characters :
           (sessions[a] # Null /\ c = sessions[a].player) \/ world'[c] = world[c]
  <2>1. CASE sessions[a] # Null /\ sessions[a].player # Null
    <3>1. TypeOK /\ OwnedQueues /\ PlayersInWorld /\ sessions[a] # Null /\ LogoutPlayer(a)
      BY <2>1 DEF RemoveSession, Inv
    <3> QED
      BY <3>1, LogoutKeeps
  <2>2. CASE ~(sessions[a] # Null /\ sessions[a].player # Null)
    BY <2>2 DEF RemoveSession, Inv, TypeOK, OwnedQueues
  <2> QED
    BY <2>1, <2>2
<1>5. charQueue' \in Seq(CharOps)
  BY <1>4 DEF OwnedOps
<1>6. sockets' \in [Sockets -> Connection \cup {Null}]
  <2>1. \A j \in Sockets : sockets'[j] \in Connection \cup {Null}
    BY <1>2 DEF Inv, TypeOK
  <2>2. DOMAIN sockets' = Sockets /\ sockets' = [j \in Sockets |-> sockets'[j]]
    BY DEF RemoveSession, CloseSocket, Inv, TypeOK
  <2> QED
    BY <2>1, <2>2
<1>7. TypeOK' /\ OwnedQueues'
  BY <1>1, <1>4, <1>5, <1>6 DEF Inv, TypeOK, OwnedQueues
<1>8. LinksAgree'
  <2>1. ASSUME NEW j \in Sockets, sockets'[j] # Null, sockets'[j].session # Null
        PROVE  sessions'[sockets'[j].session] # Null /\ sessions'[sockets'[j].session].socket = j
    <3>1. j # gone /\ sockets'[j] = sockets[j]
      BY <1>2, <2>1
    <3>2. /\ sockets[j].session \in Accounts
          /\ sessions[sockets[j].session] # Null /\ sessions[sockets[j].session].socket = j
      BY <2>1, <3>1 DEF Inv, LinksAgree, TypeOK, Connection
    <3>3. sockets[j].session # a
      BY <3>1, <3>2
    <3> QED
      BY <1>3, <3>1, <3>2, <3>3
  <2>2. ASSUME NEW b \in Accounts, ~overwritten', sessions'[b] # Null, sessions'[b].socket # Null
        PROVE  sockets'[sessions'[b].socket] # Null /\ sockets'[sessions'[b].socket].session = b
    <3>1. b # a /\ sessions'[b] = sessions[b]
      BY <1>3, <2>2
    <3>2. /\ sessions[b].socket \in Sockets
          /\ sockets[sessions[b].socket] # Null /\ sockets[sessions[b].socket].session = b
      BY <2>2, <3>1 DEF Inv, LinksAgree, TypeOK, Session
    <3>3. sessions[b].socket # gone
      BY <2>2, <3>1, <3>2 DEF Inv, LinksAgree
    <3> QED
      BY <1>2, <3>1, <3>2, <3>3
  <2> QED
    BY <2>1, <2>2 DEF LinksAgree
<1>9. ServingLives'
  BY <1>3 DEF Inv, ServingLives, Inside, TypeOK, Turn
<1>10. PlayersInWorld'
  <2> SUFFICES ASSUME NEW b \in Accounts, sessions'[b] # Null, sessions'[b].player # Null
               PROVE  Owner[sessions'[b].player] = b /\ world'[sessions'[b].player] > 0
    BY DEF PlayersInWorld
  <2>1. b # a /\ sessions'[b] = sessions[b]
    BY <1>3
  <2>2. /\ sessions[b].player \in Characters
        /\ Owner[sessions[b].player] = b /\ world[sessions[b].player] > 0
    BY <2>1 DEF Inv, PlayersInWorld, TypeOK, Session
  <2>3. sessions[a] # Null => sessions[b].player # sessions[a].player
    BY <2>1, <2>2, NullAssumption DEF Inv, PlayersInWorld
  <2> QED
    BY <1>4, <2>1, <2>2, <2>3
<1>11. \A j \in Sockets : sockets[j] # Null => sockets'[j] # Null
  BY <1>2, NullAssumption
<1> QED
  BY <1>3, <1>7, <1>8, <1>9, <1>10, <1>11

LEMMA AuthRemoveKeeps == ASSUME Inv, AuthRemove PROVE Inv'
<1> DEFINE a == auth.account
<1>1. /\ auth \in Authentication /\ auth.at = "remove" /\ a \in Accounts
      /\ auth.socket \in Sockets /\ sockets[auth.socket] # Null
  BY DEF AuthRemove, AuthAt, Inv, TypeOK, AuthInStep, Authentication
<1>2. CASE Restart
  BY <1>2, RestartKeeps
<1>3. CASE ~Restart
  <2>1. /\ ~(sessions[a] # Null /\ Inside(a)) /\ RemoveSession(a)
        /\ UNCHANGED <<serving, online, saving, rows, answers, overwritten>>
        /\ \/ auth' = [auth EXCEPT !.at = "add"] /\ UNCHANGED refused
           \/ auth' = Null /\ refused' \in {refused, refused \cup {a}}
    BY <1>3 DEF AuthRemove
  <2>2. /\ auth' \in Authentication \cup {Null} /\ refused' \subseteq Accounts
        /\ auth' # Null => auth'.socket = auth.socket /\ auth'.account = a /\ auth'.at = "add"
    BY <1>1, <2>1 DEF Authentication, Inv, TypeOK
  <2>3. /\ TypeOK' /\ OwnedQueues' /\ LinksAgree' /\ ServingLives' /\ PlayersInWorld'
        /\ sessions'[a] = Null /\ sockets'[auth.socket] # Null
    BY <1>1, <2>1, <2>2, RemoveSessionKeeps
  <2>4. AuthInStep'
    BY <2>2, <2>3 DEF AuthInStep
  <2> QED
    BY <2>3, <2>4 DEF Inv
<1> QED
  BY <1>2, <1>3

LEMMA AuthAddKeeps == ASSUME Inv, AuthAdd PROVE Inv'
<1> DEFINE k == auth.socket
           a == auth.account
           new == [socket |-> k, player |-> Null, loading |-> FALSE, packet |-> "none"]
<1>1. /\ auth \in Authentication /\ k \in Sockets /\ sockets[k] \in Connection
      /\ sockets[k] # Null /\ a \in Accounts /\ sessions[a] = Null
  BY DEF AuthAdd, AuthAt, Inv, TypeOK, AuthInStep, Authentication
<1>2. /\ loginQueue' = Append(loginQueue, Mark(a, TRUE))
      /\ sessions' = [sessions EXCEPT ![a] = new]
      /\ sockets' = [sockets EXCEPT ![k].session = a]
      /\ refused' = refused \ {a} /\ overwritten' = (overwritten \/ sockets[k].session # Null)
      /\ auth' = [auth EXCEPT !.at = "look"]
      /\ UNCHANGED <<serving, world, online, charDb>>
  BY DEF AuthAdd
<1>3. /\ new \in Session /\ [sockets[k] EXCEPT !.session = a] \in Connection
      /\ [sockets[k] EXCEPT !.session = a].session = a
      /\ auth' \in Authentication /\ auth'.socket = k /\ auth'.account = a /\ auth'.at = "look"
  BY <1>1, <1>2 DEF Session, Connection, Authentication
<1>4. /\ sockets'[k] = [sockets[k] EXCEPT !.session = a]
      /\ \A j \in Sockets \ {k} : sockets'[j] = sockets[j]
      /\ sessions'[a] = new /\ \A b \in Accounts \ {a} : sessions'[b] = sessions[b]
  BY <1>1, <1>2 DEF Inv, TypeOK
<1>5. sockets'[k] # Null /\ new # Null /\ new.socket = k /\ new.player = Null
  BY <1>3, <1>4, NullAssumption
<1>6. TypeOK' /\ OwnedQueues'
  <2>1. loginQueue' \in Seq(LoginOps)
    BY <1>1, <1>2, OpsAreOwned, AppendKeeps DEF Inv, TypeOK
  <2>2. refused' \subseteq Accounts /\ overwritten' \in BOOLEAN
    BY <1>2 DEF Inv, TypeOK
  <2> QED
    BY <1>2, <1>3, <2>1, <2>2 DEF Inv, TypeOK, OwnedQueues, charDb
<1>7. LinksAgree'
  <2>1. ASSUME NEW j \in Sockets, sockets'[j] # Null, sockets'[j].session # Null
        PROVE  sessions'[sockets'[j].session] # Null /\ sessions'[sockets'[j].session].socket = j
    <3>1. CASE j = k
      <4>1. sockets'[j].session = a
        BY <1>3, <1>4, <3>1
      <4> QED
        BY <1>4, <1>5, <3>1, <4>1
    <3>2. CASE j # k
      <4>1. sockets'[j] = sockets[j]
        BY <1>4, <3>2
      <4>2. /\ sockets[j].session \in Accounts
            /\ sessions[sockets[j].session] # Null /\ sessions[sockets[j].session].socket = j
        BY <2>1, <4>1 DEF Inv, LinksAgree, TypeOK, Connection
      <4> QED
        BY <1>1, <1>4, <4>1, <4>2
    <3> QED
      BY <3>1, <3>2
  <2>2. ASSUME NEW b \in Accounts, ~overwritten', sessions'[b] # Null, sessions'[b].socket # Null
        PROVE  sockets'[sessions'[b].socket] # Null /\ sockets'[sessions'[b].socket].session = b
    <3>1. CASE b = a
      <4>1. sessions'[b].socket = k
        BY <1>4, <1>5, <3>1
      <4>2. sockets'[k].session = a
        BY <1>3, <1>4
      <4> QED
        BY <1>5, <3>1, <4>1, <4>2
    <3>2. CASE b # a
      <4>1. sessions'[b] = sessions[b]
        BY <1>4, <3>2
      <4>2. /\ sessions[b].socket \in Sockets
            /\ sockets[sessions[b].socket] # Null /\ sockets[sessions[b].socket].session = b
        BY <1>2, <2>2, <4>1 DEF Inv, LinksAgree, TypeOK, Session
      <4>3. sessions[b].socket # k
        BY <1>2, <2>2, <4>2, NullAssumption
      <4> QED
        BY <1>4, <4>1, <4>2, <4>3
    <3> QED
      BY <3>1, <3>2
  <2> QED
    BY <2>1, <2>2 DEF LinksAgree
<1>8. AuthInStep'
  BY <1>3, <1>4, <1>5 DEF AuthInStep
<1>9. ServingLives' /\ PlayersInWorld'
  BY <1>1, <1>2, <1>4, <1>5 DEF Inv, ServingLives, PlayersInWorld, TypeOK, Turn
<1> QED
  BY <1>6, <1>7, <1>8, <1>9 DEF Inv

LEMMA AuthLookKeeps == ASSUME Inv, AuthLook PROVE Inv'
<1> DEFINE k == auth.socket
           a == auth.account
           found == \E c \in Visible(a) : rows[c] = "offline"
<1>1. /\ k \in Sockets /\ sockets[k] \in Connection /\ sockets[k] # Null
      /\ a \in Accounts /\ sockets[k].session = a /\ sessions[a] \in Session /\ sessions[a] # Null
  BY NullAssumption
  DEF AuthLook, AuthAt, Inv, TypeOK, AuthInStep, LinksAgree, Authentication
<1>2. auth' = Null /\ UNCHANGED <<serving, world, loginDb, charDb, seen>>
  BY DEF AuthLook
<1>3. /\ sockets' \in [Sockets -> Connection \cup {Null}]
      /\ sessions' \in [Accounts -> Session \cup {Null}]
      /\ SameLinks /\ PlayersInWorld'
  <2>1. sockets' = [sockets EXCEPT ![k].challenged = ~found] /\ (~found) \in BOOLEAN
    BY DEF AuthLook
  <2>2. CASE found
    <3>1. sessions' = [sessions EXCEPT ![a].packet = "login"]
      BY <2>2 DEF AuthLook
    <3> HIDE DEF found
    <3> QED
      BY <1>1, <1>2, <2>1, <3>1, ServedKeeps
  <2>3. CASE ~found
    <3>1. sessions' = [sessions EXCEPT ![a].packet = sessions[a].packet]
      BY <1>1, <2>3 DEF AuthLook, Inv, TypeOK, Session
    <3>2. sessions[a].packet \in {"none", "login", "create"}
      BY <1>1 DEF Session
    <3> HIDE DEF found
    <3> QED
      BY <1>1, <1>2, <2>1, <3>1, <3>2, ServedKeeps
  <2> QED
    BY <2>2, <2>3
<1>4. LinksAgree' /\ AuthInStep' /\ ServingLives'
  BY <1>2, <1>3, SameLinksKeep
<1>5. TypeOK' /\ OwnedQueues'
  BY <1>2, <1>3 DEF Inv, TypeOK, OwnedQueues, seen, loginDb, charDb
<1> QED
  BY <1>3, <1>4, <1>5 DEF Inv

-----------------------------------------------------------------------------
\* The world thread

\* A change of what a session has to serve and whether it loads.
LEMMA SessionKeeps ==
  ASSUME Inv, NEW a \in Accounts, sessions[a] # Null, NEW s \in Session,
         s.socket = sessions[a].socket, sessions' = [sessions EXCEPT ![a] = s],
         UNCHANGED sockets
  PROVE  /\ sessions' \in [Accounts -> Session \cup {Null}] /\ SameLinks
         /\ s.player = sessions[a].player /\ UNCHANGED world => PlayersInWorld'
<1>1. sessions'[a] = s /\ \A b \in Accounts \ {a} : sessions'[b] = sessions[b]
  BY DEF Inv, TypeOK
<1>2. SameLinks
  BY <1>1, NullAssumption DEF SameLinks
<1>3. s.player = sessions[a].player /\ UNCHANGED world => PlayersInWorld'
  BY <1>1 DEF Inv, PlayersInWorld
<1> QED
  BY <1>2, <1>3 DEF Inv, TypeOK

LEMMA HandlePlayerLoginOpcodeKeeps ==
  ASSUME Inv, NEW a \in Accounts, sessions[a] # Null, HandlePlayerLoginOpcode(a),
         serving' \in {serving, Null}
  PROVE  Inv'
<1> DEFINE s == [[sessions[a] EXCEPT !.loading = TRUE] EXCEPT !.packet = "none"]
<1>1. /\ s \in Session /\ s.socket = sessions[a].socket /\ s.player = sessions[a].player
      /\ sessions' = [sessions EXCEPT ![a] = s]
      /\ UNCHANGED <<net, world, loginDb, saving, rows, answers, seen>>
  BY DEF HandlePlayerLoginOpcode, Inv, TypeOK, Session
<1>2. charQueue' \in Seq(OwnedOps)
  <2>1. CASE UNCHANGED charQueue
    BY <2>1 DEF Inv, OwnedQueues
  <2>2. CASE \E c \in Visible(a) : charQueue' = Append(charQueue, Load(a, c))
    <3>1. PICK c \in Visible(a) : charQueue' = Append(charQueue, Load(a, c))
      BY <2>2
    <3>2. Load(a, c) \in OwnedOps
      BY OpsAreOwned DEF Visible
    <3> QED
      BY <3>1, <3>2, AppendKeeps DEF Inv, OwnedQueues
  <2> QED
    BY <2>1, <2>2 DEF HandlePlayerLoginOpcode
<1>3. sessions' \in [Accounts -> Session \cup {Null}] /\ SameLinks /\ PlayersInWorld'
  BY <1>1, SessionKeeps DEF net
<1>4. LinksAgree' /\ AuthInStep' /\ ServingLives'
  BY <1>1, <1>3, SameLinksKeep DEF net
<1>5. charQueue' \in Seq(CharOps)
  BY <1>2 DEF OwnedOps
<1>6. TypeOK' /\ OwnedQueues'
  BY <1>1, <1>2, <1>3, <1>5 DEF Inv, TypeOK, OwnedQueues, seen, net, loginDb
<1> QED
  BY <1>3, <1>4, <1>6 DEF Inv

LEMMA ServeLoginKeeps == ASSUME Inv, NEW a \in Accounts, ServeLogin(a) PROVE Inv'
BY HandlePlayerLoginOpcodeKeeps DEF ServeLogin, Has

LEMMA LoginCreatedKeeps == ASSUME Inv, LoginCreated PROVE Inv'
<1>1. serving.account \in Accounts /\ sessions[serving.account] # Null
  BY DEF LoginCreated, Inv, TypeOK, ServingLives, Turn
<1> QED
  BY <1>1, HandlePlayerLoginOpcodeKeeps DEF LoginCreated

LEMMA HandleCharCreateKeeps == ASSUME Inv, NEW a \in Accounts, HandleCharCreate(a) PROVE Inv'
<1> DEFINE s == [sessions[a] EXCEPT !.packet = "none"]
<1>1. /\ serving = Null /\ sessions[a] # Null
      /\ sessions' = [sessions EXCEPT ![a] = s]
      /\ UNCHANGED <<net, world, loginDb, saving, rows, answers, seen>>
  BY DEF HandleCharCreate, Has
<1>2. s \in Session /\ s.socket = sessions[a].socket /\ s.player = sessions[a].player
  BY <1>1 DEF Inv, TypeOK, Session
<1>3. sessions' \in [Accounts -> Session \cup {Null}] /\ SameLinks /\ PlayersInWorld'
  BY <1>1, <1>2, SessionKeeps DEF net
<1>4. charQueue' \in Seq(OwnedOps) /\ serving' \in {serving, [account |-> a, at |-> "created"]}
  <2>1. CASE UNCHANGED <<charQueue, serving>>
    BY <2>1 DEF Inv, OwnedQueues
  <2>2. CASE \E c \in Characters : /\ charQueue' = Append(charQueue, SaveOf(c))
                                   /\ serving' = [account |-> a, at |-> "created"]
    <3>1. PICK c \in Characters : /\ charQueue' = Append(charQueue, SaveOf(c))
                                  /\ serving' = [account |-> a, at |-> "created"]
      BY <2>2
    <3> QED
      BY <3>1, OpsAreOwned, AppendKeeps DEF Inv, OwnedQueues
  <2> QED
    BY <2>1, <2>2 DEF HandleCharCreate
<1>5. [account |-> a, at |-> "created"] \in Turn
  BY DEF Turn
<1>6. charQueue' \in Seq(CharOps)
  BY <1>4 DEF OwnedOps
<1>7. TypeOK' /\ OwnedQueues'
  BY <1>1, <1>3, <1>4, <1>5, <1>6 DEF Inv, TypeOK, OwnedQueues, seen, net, loginDb
<1>8. LinksAgree' /\ AuthInStep'
  BY <1>1, <1>3, SameLinksKeep DEF net
<1>9. ServingLives'
  BY <1>1, <1>3, <1>4, <1>5, NullAssumption DEF ServingLives, SameLinks
<1> QED
  BY <1>3, <1>7, <1>8, <1>9 DEF Inv

\* No two sessions have one player.
LEMMA PlayersDiffer ==
  ASSUME Inv, NEW a \in Accounts, NEW b \in Accounts, a # b, sessions[b] # Null,
         sessions[b].player # Null
  PROVE  /\ sessions[b].player \in Characters /\ Owner[sessions[b].player] = b
         /\ world[sessions[b].player] > 0
         /\ sessions[a] # Null => sessions[b].player # sessions[a].player
<1>1. /\ sessions[b].player \in Characters /\ Owner[sessions[b].player] = b
      /\ world[sessions[b].player] > 0
  BY DEF Inv, PlayersInWorld, TypeOK, Session
<1>2. ASSUME sessions[a] # Null, sessions[b].player = sessions[a].player PROVE FALSE
  BY <1>1, <1>2 DEF Inv, PlayersInWorld
<1> QED
  BY <1>1, <1>2

LEMMA EndSessionKeeps == ASSUME Inv, NEW a \in Accounts, EndSession(a) PROVE Inv'
<1> DEFINE s == [sessions[a] EXCEPT !.player = Null]
<1>1. /\ sessions[a] # Null /\ sessions[a].socket = Null /\ LogoutPlayer(a)
      /\ sessions' = [sessions EXCEPT ![a] = s]
      /\ serving' = [account |-> a, at |-> "ended"]
      /\ UNCHANGED <<net, online, saving, rows, answers, seen>>
  BY DEF EndSession, Has
<1>2. s \in Session /\ s.socket = Null /\ s.player = Null
  BY <1>1 DEF Inv, TypeOK, Session
<1>3. sessions'[a] = s /\ \A b \in Accounts \ {a} : sessions'[b] = sessions[b]
  BY <1>1 DEF Inv, TypeOK
<1>4. sessions' \in [Accounts -> Session \cup {Null}] /\ SameLinks
  BY <1>1, <1>2, SessionKeeps DEF net
<1>5. LinksAgree' /\ AuthInStep'
  BY <1>1, <1>4, SameLinksKeep DEF net
<1>6. ServingLives'
  BY <1>1, <1>2, <1>3, NullAssumption DEF ServingLives
<1>7. /\ loginQueue' \in Seq(LoginOps) /\ charQueue' \in Seq(OwnedOps)
      /\ world' \in [Characters -> Nat]
      /\ \A c \in Characters : c # sessions[a].player => world'[c] = world[c]
  <2>1. TypeOK /\ OwnedQueues /\ PlayersInWorld
    BY DEF Inv
  <2> QED
    BY <1>1, <2>1, LogoutKeeps
<1>8. PlayersInWorld'
  <2> SUFFICES ASSUME NEW b \in Accounts, sessions'[b] # Null, sessions'[b].player # Null
               PROVE  Owner[sessions'[b].player] = b /\ world'[sessions'[b].player] > 0
    BY DEF PlayersInWorld
  <2>1. a # b /\ sessions'[b] = sessions[b]
    BY <1>2, <1>3
  <2>2. /\ sessions[b].player \in Characters /\ Owner[sessions[b].player] = b
        /\ world[sessions[b].player] > 0 /\ sessions[b].player # sessions[a].player
    BY <1>1, <2>1, PlayersDiffer
  <2> QED
    BY <1>7, <2>1, <2>2
<1>9. TypeOK' /\ OwnedQueues'
  <2>1. charQueue' \in Seq(CharOps)
    BY <1>7 DEF OwnedOps
  <2>2. [account |-> a, at |-> "ended"] \in Turn
    BY DEF Turn
  <2> QED
    BY <1>1, <1>4, <1>7, <2>1, <2>2 DEF Inv, TypeOK, OwnedQueues, seen, net
<1> QED
  BY <1>5, <1>6, <1>8, <1>9 DEF Inv

LEMMA EraseSessionKeeps == ASSUME Inv, EraseSession PROVE Inv'
<1> DEFINE a == serving.account
<1>1. /\ a \in Accounts /\ sessions[a] # Null /\ sessions[a].socket = Null
      /\ sessions' = [sessions EXCEPT ![a] = Null] /\ serving' = Null
      /\ UNCHANGED <<net, world, loginDb, charDb, seen>>
  BY DEF EraseSession, Inv, TypeOK, ServingLives, Turn
<1>2. sessions'[a] = Null /\ \A b \in Accounts \ {a} : sessions'[b] = sessions[b]
  BY <1>1 DEF Inv, TypeOK
<1>3. \A j \in Sockets : sockets[j] # Null => sockets[j].session # a
  BY <1>1, NullAssumption DEF Inv, LinksAgree
<1>4. LinksAgree'
  <2>1. ASSUME NEW j \in Sockets, sockets'[j] # Null, sockets'[j].session # Null
        PROVE  sessions'[sockets'[j].session] # Null /\ sessions'[sockets'[j].session].socket = j
    <3>1. /\ sockets[j].session \in Accounts /\ sockets'[j] = sockets[j]
          /\ sessions[sockets[j].session] # Null /\ sessions[sockets[j].session].socket = j
      BY <1>1, <2>1 DEF Inv, LinksAgree, TypeOK, Connection, net
    <3> QED
      BY <1>2, <1>3, <2>1, <3>1
  <2>2. ASSUME NEW b \in Accounts, ~overwritten', sessions'[b] # Null, sessions'[b].socket # Null
        PROVE  sockets'[sessions'[b].socket] # Null /\ sockets'[sessions'[b].socket].session = b
    BY <1>1, <1>2, <2>2 DEF Inv, LinksAgree, net, seen
  <2> QED
    BY <2>1, <2>2 DEF LinksAgree
<1>5. AuthInStep'
  <2> SUFFICES ASSUME auth # Null PROVE AuthInStep'
    BY <1>1 DEF AuthInStep, net
  <2>1. auth.account \in Accounts
    BY DEF Inv, TypeOK, Authentication
  <2> QED
    BY <1>1, <1>2, <2>1 DEF Inv, AuthInStep, net
<1>6. ServingLives' /\ PlayersInWorld'
  BY <1>1, <1>2 DEF Inv, ServingLives, PlayersInWorld
<1>7. TypeOK' /\ OwnedQueues'
  BY <1>1 DEF Inv, TypeOK, OwnedQueues, seen, net, loginDb, charDb
<1> QED
  BY <1>4, <1>5, <1>6, <1>7 DEF Inv

LEMMA HandlePlayerLoginKeeps ==
  ASSUME Inv, NEW r \in OwnedAnswers, sessions[r.account] # Null, HandlePlayerLogin(r),
         UNCHANGED sockets
  PROVE  /\ sessions' \in [Accounts -> Session \cup {Null}] /\ world' \in [Characters -> Nat]
         /\ charQueue' \in Seq(OwnedOps) /\ SameLinks /\ PlayersInWorld'
<1> DEFINE a == r.account
           c == r.character
<1>1. a \in Accounts /\ c \in Characters /\ Owner[c] = a /\ sessions[a] \in Session
  BY DEF OwnedAnswers, Answers, Inv, TypeOK
<1>2. CASE r.found
  <2> DEFINE s == [[sessions[a] EXCEPT !.loading = FALSE] EXCEPT !.player = c]
  <2>1. /\ sessions' = [sessions EXCEPT ![a] = s] /\ world' = [world EXCEPT ![c] = @ + 1]
        /\ charQueue' = Append(charQueue, Online(c))
    BY <1>1, <1>2 DEF HandlePlayerLogin, Inv, TypeOK, Session
  <2>2. s \in Session /\ s.socket = sessions[a].socket /\ s.player = c
    BY <1>1 DEF Session
  <2>3. sessions' \in [Accounts -> Session \cup {Null}] /\ SameLinks
    BY <1>1, <2>1, <2>2, SessionKeeps
  <2>4. world' \in [Characters -> Nat] /\ \A d \in Characters : world'[d] >= world[d]
    BY <1>1, <2>1 DEF Inv, TypeOK
  <2>5. charQueue' \in Seq(OwnedOps)
    BY <1>1, <2>1, OpsAreOwned, AppendKeeps DEF Inv, OwnedQueues
  <2>6. PlayersInWorld'
    <3> SUFFICES ASSUME NEW b \in Accounts, sessions'[b] # Null, sessions'[b].player # Null
                 PROVE  Owner[sessions'[b].player] = b /\ world'[sessions'[b].player] > 0
      BY DEF PlayersInWorld
    <3>1. CASE b = a
      <4>1. sessions'[b].player = c
        BY <1>1, <2>1, <2>2, <3>1 DEF Inv, TypeOK
      <4>2. world'[c] = world[c] + 1 /\ world[c] \in Nat
        BY <1>1, <2>1 DEF Inv, TypeOK
      <4> QED
        BY <1>1, <3>1, <4>1, <4>2
    <3>2. CASE b # a
      <4>1. sessions'[b] = sessions[b]
        BY <1>1, <2>1, <3>2 DEF Inv, TypeOK
      <4>2. /\ sessions[b].player \in Characters
            /\ Owner[sessions[b].player] = b /\ world[sessions[b].player] > 0
        BY <1>1, <3>2, <4>1, PlayersDiffer
      <4>3. world[sessions[b].player] \in Nat
        BY <4>2 DEF Inv, TypeOK
      <4>4. world'[sessions[b].player] \in Nat /\ world'[sessions[b].player] >= world[sessions[b].player]
        BY <2>4, <4>2
      <4> QED
        BY <4>1, <4>2, <4>3, <4>4
    <3> QED
      BY <3>1, <3>2
  <2> QED
    BY <2>3, <2>4, <2>5, <2>6
<1>3. CASE ~r.found
  <2> DEFINE s == [sessions[a] EXCEPT !.loading = FALSE]
  <2>1. sessions' = [sessions EXCEPT ![a] = s] /\ UNCHANGED <<world, charQueue>>
    BY <1>1, <1>3 DEF HandlePlayerLogin
  <2>2. s \in Session /\ s.socket = sessions[a].socket /\ s.player = sessions[a].player
    BY <1>1 DEF Session
  <2>3. sessions' \in [Accounts -> Session \cup {Null}] /\ SameLinks /\ PlayersInWorld'
    BY <1>1, <2>1, <2>2, SessionKeeps
  <2> QED
    BY <2>1, <2>3 DEF Inv, TypeOK, OwnedQueues, seen
<1> QED
  BY <1>2, <1>3

LEMMA HandlePlayerLoginCallbackKeeps == ASSUME Inv, HandlePlayerLoginCallback PROVE Inv'
<1>1. /\ answers # <<>> /\ answers' = Tail(answers) /\ serving' = serving
      /\ UNCHANGED <<net, serving, loginDb, saving, rows, seen>>
  BY DEF HandlePlayerLoginCallback
<1>2. Tail(answers) \in Seq(OwnedAnswers) /\ Head(answers) \in OwnedAnswers
  BY <1>1, TailKeeps DEF Inv, OwnedQueues
<1>3. /\ sessions' \in [Accounts -> Session \cup {Null}] /\ world' \in [Characters -> Nat]
      /\ charQueue' \in Seq(OwnedOps) /\ SameLinks /\ PlayersInWorld'
  <2>1. CASE sessions[Head(answers).account] = Null
    <3>1. UNCHANGED <<sessions, world, charQueue>>
      BY <2>1 DEF HandlePlayerLoginCallback
    <3> QED
      BY <1>1, <3>1 DEF Inv, TypeOK, OwnedQueues, seen, SameLinks, PlayersInWorld, net
  <2>2. CASE sessions[Head(answers).account] # Null
    BY <1>1, <1>2, <2>2, HandlePlayerLoginKeeps DEF HandlePlayerLoginCallback, net
  <2> QED
    BY <2>1, <2>2
<1>4. LinksAgree' /\ AuthInStep' /\ ServingLives'
  BY <1>1, <1>3, SameLinksKeep DEF net
<1>5. charQueue' \in Seq(CharOps) /\ answers' \in Seq(Answers)
  BY <1>1, <1>2, <1>3 DEF OwnedOps, OwnedAnswers
<1>6. TypeOK' /\ OwnedQueues'
  BY <1>1, <1>2, <1>3, <1>5 DEF Inv, TypeOK, OwnedQueues, seen, net, loginDb
<1> QED
  BY <1>3, <1>4, <1>6 DEF Inv

LEMMA AutoSaveKeeps == ASSUME Inv, NEW c \in Characters, AutoSave(c) PROVE Inv'
<1>1. charQueue' \in Seq(OwnedOps)
  BY OpsAreOwned, AppendKeeps DEF AutoSave, Inv, OwnedQueues
<1>2. charQueue' \in Seq(CharOps)
  BY <1>1 DEF OwnedOps
<1>3. TypeOK' /\ OwnedQueues'
  BY <1>1, <1>2 DEF AutoSave, Inv, TypeOK, OwnedQueues, seen, net, loginDb
<1>4. Net'
  BY NetUntouched DEF Inv, Net, AutoSave, net
<1> QED
  BY <1>3, <1>4 DEF Inv, Net

-----------------------------------------------------------------------------
\* The inductive invariant

LEMMA Initially == Init => Inv
<1> SUFFICES ASSUME Init PROVE Inv
  OBVIOUS
<1>1. <<[kind |-> "clear"]>> \in Seq(OwnedOps) /\ <<[kind |-> "clear"]>> \in Seq(LoginOps)
  BY OpsAreOwned
<1>2. <<[kind |-> "clear"]>> \in Seq(CharOps) /\ <<>> \in Seq(OwnedAnswers) /\ <<>> \in Seq(Answers)
  BY <1>1 DEF OwnedOps
<1>3. TypeOK /\ OwnedQueues
  BY <1>1, <1>2 DEF Init, TypeOK, OwnedQueues
<1>4. LinksAgree /\ AuthInStep /\ ServingLives /\ PlayersInWorld
  BY DEF Init, LinksAgree, AuthInStep, ServingLives, PlayersInWorld
<1> QED
  BY <1>3, <1>4 DEF Inv

LEMMA StepsKeep == Inv /\ [Next]_vars => Inv'
<1> SUFFICES ASSUME Inv, [Next]_vars PROVE Inv'
  OBVIOUS
<1>1. CASE UNCHANGED vars
  <2>1. TypeOK' /\ OwnedQueues'
    BY <1>1 DEF vars, Inv, TypeOK, OwnedQueues
  <2>2. Net'
    BY <1>1, NetUntouched DEF vars, seen, Inv, Net
  <2> QED
    BY <2>1, <2>2 DEF Inv, Net
<1>2. ASSUME NEW k \in Sockets, NEW a \in Accounts, AuthAsk(k, a) PROVE Inv'
  BY <1>2, AuthAskKeeps
<1>3. ASSUME NEW k \in Sockets, OnDelete(k) \/ SendCreate(k) PROVE Inv'
  BY <1>3, OnDeleteKeeps, SendCreateKeeps
<1>4. CASE AuthRemove \/ AuthAdd \/ AuthLook
  BY <1>4, AuthRemoveKeeps, AuthAddKeeps, AuthLookKeeps
<1>5. ASSUME NEW a \in Accounts, ServeLogin(a) \/ HandleCharCreate(a) \/ EndSession(a) PROVE Inv'
  BY <1>5, ServeLoginKeeps, HandleCharCreateKeeps, EndSessionKeeps
<1>6. CASE LoginCreated \/ EraseSession \/ HandlePlayerLoginCallback
  BY <1>6, LoginCreatedKeeps, EraseSessionKeeps, HandlePlayerLoginCallbackKeeps
<1>7. ASSUME NEW c \in Characters, AutoSave(c) PROVE Inv'
  BY <1>7, AutoSaveKeeps
<1>8. CASE WriteLogin \/ BeginSave \/ WriteChar
  BY <1>8, WriteLoginKeeps, BeginSaveKeeps, WriteCharKeeps
<1>9. CASE Restart
  BY <1>9, RestartKeeps
<1> QED
  BY <1>1, <1>2, <1>3, <1>4, <1>5, <1>6, <1>7, <1>8, <1>9 DEF Next

LEMMA InvHolds == Spec => []Inv
BY Initially, StepsKeep, PTL DEF Spec

-----------------------------------------------------------------------------
\* What the operations that wait are going to leave behind

\* An operation that is handed over has the last word if it is one of S.
LEMMA SettlesAppend ==
  ASSUME NEW T, NEW q \in Seq(T), NEW e \in T, NEW S, NEW Y, Y \subseteq S, NEW b
  PROVE  /\ e \in S => (Settles(Append(q, e), S, Y, b) <=> e \in Y)
         /\ e \notin S => (Settles(Append(q, e), S, Y, b) <=> Settles(q, S, Y, b))
<1> DEFINE r == Append(q, e)
           n == Len(q)
<1>1. /\ n \in Nat /\ Len(r) = n + 1 /\ r[n + 1] = e
      /\ \A i \in 1..n : r[i] = q[i]
  OBVIOUS
<1> HIDE DEF r
<1>2. ASSUME e \in S PROVE Settles(r, S, Y, b) <=> e \in Y
  <2>1. ASSUME e \in Y PROVE Settles(r, S, Y, b)
    <3>1. n + 1 \in 1..Len(r) /\ (n + 2)..Len(r) = {} /\ (n + 1) + 1 = n + 2
      BY <1>1
    <3> QED
      BY <1>1, <2>1, <3>1 DEF Settles
  <2>2. ASSUME Settles(r, S, Y, b) PROVE e \in Y
    <3>1. n + 1 \in 1..Len(r) /\ r[n + 1] \in S
      BY <1>1, <1>2
    <3>2. PICK i \in 1..Len(r) : r[i] \in Y /\ \A j \in (i + 1)..Len(r) : r[j] \notin S
      BY <2>2, <3>1 DEF Settles
    <3>3. i = n + 1
      <4>1. n + 1 \notin (i + 1)..Len(r)
        BY <3>1, <3>2
      <4> QED
        BY <1>1, <4>1
    <3> QED
      BY <1>1, <3>2, <3>3
  <2> QED
    BY <2>1, <2>2
<1>3. ASSUME e \notin S PROVE Settles(r, S, Y, b) <=> Settles(q, S, Y, b)
  <2>1. (\A i \in 1..Len(r) : r[i] \notin S) <=> (\A i \in 1..n : q[i] \notin S)
    <3>1. 1..Len(r) = 1..n \cup {n + 1}
      BY <1>1
    <3> QED
      BY <1>1, <1>3, <3>1
  <2>2. ASSUME NEW i \in 1..n
        PROVE  (\A j \in (i + 1)..Len(r) : r[j] \notin S) <=> (\A j \in (i + 1)..n : q[j] \notin S)
    <3>1. (i + 1)..Len(r) = (i + 1)..n \cup {n + 1} /\ (i + 1)..n \subseteq 1..n
      BY <1>1
    <3> QED
      BY <1>1, <1>3, <3>1
  <2>3. 1..Len(r) = 1..n \cup {n + 1} /\ r[n + 1] \notin Y
    BY <1>1, <1>3
  <2> QED
    BY <1>1, <2>1, <2>2, <2>3 DEF Settles
<1> QED
  BY <1>2, <1>3 DEF r

\* Once the oldest operation has taken effect the others settle the same.
LEMMA SettlesTail ==
  ASSUME NEW T, NEW q \in Seq(T), q # <<>>, NEW S, NEW Y, Y \subseteq S,
         NEW b, NEW c,
         Head(q) \in S => (c <=> Head(q) \in Y), Head(q) \notin S => (c <=> b)
  PROVE  Settles(Tail(q), S, Y, c) <=> Settles(q, S, Y, b)
<1> DEFINE t == Tail(q)
           n == Len(q)
<1>1. /\ n \in Nat \ {0} /\ Len(t) = n - 1 /\ Head(q) = q[1]
      /\ \A i \in 1..(n - 1) : t[i] = q[i + 1]
  OBVIOUS
<1> HIDE DEF t, n
<1>2. \A i \in 1..(n - 1) :
        (\A j \in (i + 1)..(n - 1) : t[j] \notin S) <=> (\A j \in (i + 2)..n : q[j] \notin S)
  <2> TAKE i \in 1..(n - 1)
  <2>1. ASSUME \A j \in (i + 2)..n : q[j] \notin S, NEW j \in (i + 1)..(n - 1)
        PROVE  t[j] \notin S
    <3>1. j + 1 \in (i + 2)..n /\ j \in 1..(n - 1)
      BY <1>1
    <3> QED
      BY <1>1, <2>1, <3>1
  <2>2. ASSUME \A j \in (i + 1)..(n - 1) : t[j] \notin S, NEW j \in (i + 2)..n
        PROVE  q[j] \notin S
    <3>1. j - 1 \in (i + 1)..(n - 1) /\ j - 1 \in 1..(n - 1) /\ (j - 1) + 1 = j
      BY <1>1
    <3> QED
      BY <1>1, <2>2, <3>1
  <2> QED
    BY <2>1, <2>2
<1>3. (\A j \in 1..(n - 1) : t[j] \notin S) <=> (\A j \in 2..n : q[j] \notin S)
  <2>1. ASSUME \A j \in 2..n : q[j] \notin S, NEW j \in 1..(n - 1) PROVE t[j] \notin S
    <3>1. j + 1 \in 2..n
      BY <1>1
    <3> QED
      BY <1>1, <2>1, <3>1
  <2>2. ASSUME \A j \in 1..(n - 1) : t[j] \notin S, NEW j \in 2..n PROVE q[j] \notin S
    <3>1. j - 1 \in 1..(n - 1) /\ (j - 1) + 1 = j
      BY <1>1
    <3> QED
      BY <1>1, <2>2, <3>1
  <2> QED
    BY <2>1, <2>2
<1>4. 1..n = {1} \cup 2..n /\ 1 + 1 = 2
  BY <1>1
<1>5. (\A i \in 1..n : q[i] \notin S) <=> Head(q) \notin S /\ \A i \in 1..(n - 1) : t[i] \notin S
  BY <1>1, <1>3, <1>4
<1>6. ASSUME NEW i \in 1..(n - 1)
      PROVE  /\ i + 1 \in 1..n /\ t[i] = q[i + 1] /\ (i + 1) + 1 = i + 2
  BY <1>1
<1>7. ASSUME Settles(t, S, Y, c) PROVE Settles(q, S, Y, b)
  <2>1. CASE \E i \in 1..(n - 1) : t[i] \in Y /\ \A j \in (i + 1)..(n - 1) : t[j] \notin S
    <3>1. PICK i \in 1..(n - 1) : t[i] \in Y /\ \A j \in (i + 1)..(n - 1) : t[j] \notin S
      BY <2>1
    <3>2. q[i + 1] \in Y /\ \A j \in ((i + 1) + 1)..n : q[j] \notin S
      BY <1>2, <1>6, <3>1
    <3> QED
      BY <1>6, <3>2 DEF Settles, n
  <2>2. CASE c /\ \A i \in 1..(n - 1) : t[i] \notin S
    <3>1. CASE Head(q) \in S
      <4>1. q[1] \in Y /\ 1 \in 1..n /\ \A j \in (1 + 1)..n : q[j] \notin S
        BY <1>1, <1>3, <2>2, <3>1
      <4> QED
        BY <4>1 DEF Settles, n
    <3>2. CASE Head(q) \notin S
      BY <1>5, <2>2, <3>2 DEF Settles, n
    <3> QED
      BY <3>1, <3>2
  <2> QED
    BY <1>1, <1>7, <2>1, <2>2 DEF Settles
<1>8. ASSUME Settles(q, S, Y, b) PROVE Settles(t, S, Y, c)
  <2>1. CASE \E i \in 1..n : q[i] \in Y /\ \A j \in (i + 1)..n : q[j] \notin S
    <3>1. PICK i \in 1..n : q[i] \in Y /\ \A j \in (i + 1)..n : q[j] \notin S
      BY <2>1
    <3>2. CASE i = 1
      <4>1. c /\ \A j \in 1..(n - 1) : t[j] \notin S
        BY <1>1, <1>3, <1>4, <3>1, <3>2
      <4> QED
        BY <1>1, <4>1 DEF Settles
    <3>3. CASE i # 1
      <4>1. i - 1 \in 1..(n - 1) /\ (i - 1) + 1 = i /\ (i - 1) + 2 = i + 1
        BY <1>1, <3>3
      <4>2. t[i - 1] \in Y /\ \A j \in ((i - 1) + 1)..(n - 1) : t[j] \notin S
        BY <1>1, <1>2, <3>1, <4>1
      <4> QED
        BY <1>1, <4>1, <4>2 DEF Settles
    <3> QED
      BY <3>2, <3>3
  <2>2. CASE b /\ \A i \in 1..n : q[i] \notin S
    BY <1>1, <1>5, <2>2 DEF Settles
  <2> QED
    BY <1>8, <2>1, <2>2 DEF Settles, n
<1> QED
  BY <1>7, <1>8 DEF t

-----------------------------------------------------------------------------
\* The marks of the accounts

\* Between the two halves of _HandleAuthSession and of World::Update a session
\* is on its way in or out: the mark is a step ahead of it.
Agrees(a) ==
  /\ a \in refused => sessions[a] = Null
  /\ ~Entering(a) => (GoingOnline(a) <=> (sessions[a] # Null /\ ~Leaving(a)) \/ a \in refused)

OnlineMarks == \A a \in Accounts : Agrees(a)

LEMMA MarksDiffer ==
  ASSUME NEW a \in Accounts
  PROVE  /\ {Mark(a, TRUE)} \subseteq MarksOf(a)
         /\ [kind |-> "clear"] \in MarksOf(a) /\ [kind |-> "clear"] # Mark(a, TRUE)
         /\ \A b \in Accounts, v \in BOOLEAN :
              /\ Mark(b, v) \in MarksOf(a) <=> b = a
              /\ Mark(a, v) = Mark(a, TRUE) <=> v
<1>1. [kind |-> "clear"] # Mark(a, TRUE)
  <2>1. [kind |-> "clear"].kind = "clear" /\ Mark(a, TRUE).kind = "mark"
    BY DEF Mark
  <2> QED
    BY <2>1
<1>2. ASSUME NEW b \in Accounts, NEW v \in BOOLEAN
      PROVE  /\ Mark(b, v) \in MarksOf(a) <=> b = a
             /\ Mark(a, v) = Mark(a, TRUE) <=> v
  <2>1. /\ Mark(b, v).account = b /\ Mark(b, v).to = v /\ Mark(b, v).kind = "mark"
        /\ Mark(a, v).to = v /\ Mark(a, TRUE).to = TRUE /\ Mark(a, FALSE).to = FALSE
        /\ Mark(a, TRUE).account = a /\ Mark(a, FALSE).account = a
        /\ [kind |-> "clear"].kind = "clear"
    BY DEF Mark
  <2>2. v = TRUE \/ v = FALSE
    OBVIOUS
  <2> QED
    BY <2>1, <2>2 DEF MarksOf
<1> QED
  BY <1>1, <1>2 DEF MarksOf

\* A mark that is handed over settles its account and no other.
LEMMA MarkSettles ==
  ASSUME TypeOK, NEW a \in Accounts, NEW v \in BOOLEAN,
         loginQueue' = Append(loginQueue, Mark(a, v)), UNCHANGED online
  PROVE  /\ GoingOnline(a)' <=> v
         /\ \A b \in Accounts \ {a} : GoingOnline(b)' <=> GoingOnline(b)
<1>1. loginQueue \in Seq(LoginOps) /\ Mark(a, v) \in LoginOps /\ \A b \in Accounts : online[b] \in BOOLEAN
  BY OpsAreOwned DEF TypeOK
<1>2. GoingOnline(a)' <=> v
  <2>1. Mark(a, v) \in MarksOf(a) /\ {Mark(a, TRUE)} \subseteq MarksOf(a) /\ online[a] \in BOOLEAN
    BY <1>1, MarksDiffer
  <2>2. Settles(Append(loginQueue, Mark(a, v)), MarksOf(a), {Mark(a, TRUE)}, online[a])
          <=> Mark(a, v) \in {Mark(a, TRUE)}
    BY <1>1, <2>1, SettlesAppend
  <2>3. Mark(a, v) = Mark(a, TRUE) <=> v
    BY MarksDiffer
  <2> QED
    BY <2>2, <2>3 DEF GoingOnline
<1>3. ASSUME NEW b \in Accounts \ {a} PROVE GoingOnline(b)' <=> GoingOnline(b)
  <2>1. Mark(a, v) \notin MarksOf(b) /\ {Mark(b, TRUE)} \subseteq MarksOf(b) /\ online[b] \in BOOLEAN
    BY <1>1, MarksDiffer
  <2>2. Settles(Append(loginQueue, Mark(a, v)), MarksOf(b), {Mark(b, TRUE)}, online[b])
          <=> Settles(loginQueue, MarksOf(b), {Mark(b, TRUE)}, online[b])
    BY <1>1, <2>1, SettlesAppend
  <2> QED
    BY <2>2 DEF GoingOnline
<1> QED
  BY <1>2, <1>3

\* The delay thread of the login database changes nothing that is settled.
LEMMA WriteLoginSettles ==
  ASSUME TypeOK, WriteLogin, NEW a \in Accounts
  PROVE  GoingOnline(a)' <=> GoingOnline(a)
<1> DEFINE op == Head(loginQueue)
<1>1. /\ loginQueue \in Seq(LoginOps) /\ loginQueue # <<>> /\ op \in LoginOps
      /\ loginQueue' = Tail(loginQueue) /\ online' = AccountsAfter(online, op)
      /\ online[a] \in BOOLEAN
  BY TailKeeps DEF TypeOK, WriteLogin
<1>2. online'[a] \in BOOLEAN
  BY WriteLogin, <1>1 DEF AccountsAfter, TypeOK, LoginOps
<1>3. /\ op \in MarksOf(a) => (online'[a] <=> op \in {Mark(a, TRUE)})
      /\ op \notin MarksOf(a) => (online'[a] <=> online[a])
  <2>1. CASE op.kind = "clear"
    <3>1. op = [kind |-> "clear"]
      BY <1>1, <2>1 DEF LoginOps
    <3>2. [kind |-> "clear"] \in MarksOf(a) /\ [kind |-> "clear"] \notin {Mark(a, TRUE)}
      BY MarksDiffer
    <3>3. online'[a] = FALSE
      BY <1>1, <2>1 DEF AccountsAfter
    <3> QED
      BY <3>1, <3>2, <3>3
  <2>2. CASE op.kind # "clear"
    <3>1. op.account \in Accounts /\ op.to \in BOOLEAN /\ op = Mark(op.account, op.to)
      <4>1. op \in [kind : {"mark"}, account : Accounts, to : BOOLEAN]
        BY <1>1, <2>2 DEF LoginOps
      <4> QED
        BY <4>1 DEF Mark
    <3>2. /\ Mark(op.account, op.to) \in MarksOf(a) <=> op.account = a
          /\ Mark(a, op.to) = Mark(a, TRUE) <=> op.to
      BY <3>1, MarksDiffer
    <3>3. online' = [online EXCEPT ![op.account] = op.to]
      BY <1>1, <2>2 DEF AccountsAfter
    <3>4. online'[a] = IF op.account = a THEN op.to ELSE online[a]
      BY <3>3 DEF TypeOK
    <3> QED
      BY <3>1, <3>2, <3>4
  <2> QED
    BY <2>1, <2>2
<1>4. Settles(Tail(loginQueue), MarksOf(a), {Mark(a, TRUE)}, online'[a])
        <=> Settles(loginQueue, MarksOf(a), {Mark(a, TRUE)}, online[a])
  <2>1. {Mark(a, TRUE)} \subseteq MarksOf(a)
    BY MarksDiffer
  <2> QED
    BY <1>1, <1>2, <1>3, <2>1, SettlesTail
<1> QED
  BY <1>1, <1>4 DEF GoingOnline

LEMMA StillThere ==
  ASSUME TypeOK, NEW a \in Accounts, sessions[a] # Null, NEW s \in Session,
         sessions' = [sessions EXCEPT ![a] = s]
  PROVE  \A b \in Accounts : sessions'[b] # Null <=> sessions[b] # Null
BY NullAssumption DEF TypeOK

\* A step that hands no mark over and lets no session come or go.
LEMMA QuietStep ==
  ASSUME OnlineMarks, UNCHANGED <<loginQueue, online, refused>>,
         \A a \in Accounts : Entering(a) => Entering(a)',
         \A a \in Accounts : sessions'[a] # Null <=> sessions[a] # Null,
         \A a \in Accounts : Leaving(a)' <=> Leaving(a)
  PROVE  OnlineMarks'
BY DEF OnlineMarks, Agrees, GoingOnline

\* A step that hands over a mark for one account, or lets its session come or go.
LEMMA OneAccount ==
  ASSUME OnlineMarks, NEW a \in Accounts, Agrees(a)',
         \A b \in Accounts \ {a} : Entering(b) => Entering(b)',
         \A b \in Accounts \ {a} : Leaving(b)' <=> Leaving(b),
         \A b \in Accounts \ {a} : GoingOnline(b)' <=> GoingOnline(b),
         \A b \in Accounts \ {a} : b \in refused' <=> b \in refused,
         \A b \in Accounts \ {a} : sessions'[b] = sessions[b]
  PROVE  OnlineMarks'
<1> SUFFICES ASSUME NEW b \in Accounts, b # a PROVE Agrees(b)'
  BY DEF OnlineMarks
<1>1. b \in Accounts \ {a} /\ Agrees(b)
  BY DEF OnlineMarks
<1> QED
  BY <1>1 DEF Agrees

LEMMA SocketsMark ==
  ASSUME Inv, OnlineMarks, NEW k \in Sockets,
         OnDelete(k) \/ SendCreate(k) \/ AuthLook \/ \E a \in Accounts : AuthAsk(k, a)
  PROVE  OnlineMarks'
<1>1. UNCHANGED <<loginQueue, online, serving, refused>>
  BY DEF OnDelete, SendCreate, AuthLook, AuthAsk, loginDb, seen
<1>2. \A a \in Accounts : Leaving(a)' <=> Leaving(a)
  BY <1>1 DEF Leaving
<1>3. \A a \in Accounts : Entering(a) => Entering(a)'
  BY DEF OnDelete, SendCreate, AuthLook, AuthAt, AuthAsk, Entering
<1>4. \A a \in Accounts : sessions'[a] # Null <=> sessions[a] # Null
  <2>1. CASE UNCHANGED sessions
    BY <2>1
  <2>2. CASE OnDelete(k)
    <3>1. /\ sockets[k] # Null
          /\ \A a \in Accounts : sessions'[a] =
               IF a = sockets[k].session THEN [sessions[a] EXCEPT !.socket = Null] ELSE sessions[a]
      BY <2>2 DEF OnDelete
    <3>2. ASSUME NEW a \in Accounts, a = sockets[k].session
          PROVE  sessions[a] # Null /\ sessions'[a] # Null
      <4>1. sessions[a] \in Session /\ sessions[a] # Null
        BY <3>1, <3>2, NullAssumption DEF Inv, LinksAgree, TypeOK
      <4>2. sessions'[a] \in Session
        BY <3>1, <3>2, <4>1 DEF Session
      <4> QED
        BY <4>1, <4>2, NullAssumption
    <3> QED
      BY <3>1, <3>2
  <2>3. ASSUME NEW a \in Accounts, sessions[a] # Null, NEW p \in {"none", "login", "create"},
               sessions' = [sessions EXCEPT ![a].packet = p]
        PROVE  \A b \in Accounts : sessions'[b] # Null <=> sessions[b] # Null
    <3>1. [sessions[a] EXCEPT !.packet = p] \in Session
      BY <2>3 DEF Inv, TypeOK, Session
    <3> QED
      BY <2>3, <3>1, StillThere DEF Inv
  <2>4. CASE SendCreate(k)
    <3>1. sockets[k].session \in Accounts /\ sessions[sockets[k].session] # Null
      BY <2>4 DEF SendCreate, Inv, TypeOK, LinksAgree, Connection
    <3> QED
      BY <2>3, <2>4, <3>1 DEF SendCreate
  <2>5. CASE AuthLook
    <3> DEFINE a == auth.account
    <3>1. a \in Accounts /\ sessions[a] # Null
      BY <2>5, NullAssumption
      DEF AuthLook, AuthAt, Inv, TypeOK, AuthInStep, LinksAgree, Authentication, Connection
    <3>2. UNCHANGED sessions \/ sessions' = [sessions EXCEPT ![a].packet = "login"]
      BY <2>5 DEF AuthLook
    <3> QED
      BY <2>1, <2>3, <3>1, <3>2
  <2> QED
    BY <2>1, <2>2, <2>4, <2>5 DEF AuthAsk
<1> QED
  BY <1>1, <1>2, <1>3, <1>4, QuietStep

LEMMA AuthRemoveMarks == ASSUME Inv, OnlineMarks, AuthRemove, ~Restart PROVE OnlineMarks'
<1> SUFFICES ASSUME NEW a, a = auth.account PROVE OnlineMarks'
  OBVIOUS
<1>1. /\ auth \in Authentication /\ auth # Null /\ auth.at = "remove" /\ a \in Accounts
  BY DEF AuthRemove, AuthAt, Inv, TypeOK, Authentication
<1>2. /\ ~(sessions[a] # Null /\ Inside(a)) /\ RemoveSession(a) /\ UNCHANGED <<serving, online>>
      /\ \/ auth' = [auth EXCEPT !.at = "add"] /\ UNCHANGED refused
         \/ /\ auth' = Null
            /\ refused' = IF sessions[a] # Null /\ sessions[a].player = Null
                          THEN refused \cup {a} ELSE refused
  BY DEF AuthRemove
<1>3. sessions'[a] = Null /\ \A b \in Accounts \ {a} : sessions'[b] = sessions[b]
  BY <1>1, <1>2 DEF RemoveSession, Inv, TypeOK
<1>4. \A b \in Accounts : ~Entering(b) /\ (Leaving(b)' <=> Leaving(b))
  BY <1>1, <1>2 DEF Entering, Leaving
<1>5. \A b \in Accounts \ {a} : GoingOnline(b)' <=> GoingOnline(b)
  <2>1. CASE UNCHANGED loginQueue
    BY <1>2, <2>1 DEF GoingOnline
  <2>2. CASE LogoutPlayer(a)
    BY <1>1, <1>2, <2>2, MarkSettles DEF LogoutPlayer, Inv
  <2> QED
    BY <1>2, <2>1, <2>2 DEF RemoveSession
<1>6. \A b \in Accounts \ {a} : b \in refused' <=> b \in refused
  BY <1>2
<1>7. Agrees(a)'
  <2>1. CASE auth' = [auth EXCEPT !.at = "add"]
    <3>1. auth' \in Authentication /\ auth'.at = "add" /\ auth'.account = a
      BY <1>1, <2>1 DEF Authentication
    <3>2. Entering(a)'
      BY <3>1, NullAssumption DEF Entering
    <3> QED
      BY <1>3, <3>2 DEF Agrees
  <2>2. CASE /\ auth' = Null
             /\ refused' = IF sessions[a] # Null /\ sessions[a].player = Null
                           THEN refused \cup {a} ELSE refused
    <3>1. Agrees(a) /\ ~Entering(a) /\ ~Entering(a)'
      BY <1>1, <1>4, <2>2 DEF OnlineMarks, Entering
    <3>2. CASE sessions[a] # Null /\ sessions[a].player # Null
      <4>1. LogoutPlayer(a) /\ a \notin refused'
        BY <1>2, <2>2, <3>1, <3>2 DEF RemoveSession, Agrees
      <4>2. ~GoingOnline(a)'
        BY <1>1, <1>2, <4>1, MarkSettles DEF LogoutPlayer, Inv
      <4> QED
        BY <1>3, <4>1, <4>2 DEF Agrees
    <3>3. CASE ~(sessions[a] # Null /\ sessions[a].player # Null)
      <4>1. GoingOnline(a)' <=> GoingOnline(a)
        BY <1>2, <3>3 DEF RemoveSession, GoingOnline
      <4>2. sessions[a] # Null => ~Leaving(a)
        BY <1>2 DEF Leaving, Inside
      <4> QED
        BY <1>3, <2>2, <3>1, <3>3, <4>1, <4>2 DEF Agrees
    <3> QED
      BY <3>2, <3>3
  <2> QED
    BY <1>2, <2>1, <2>2
<1> QED
  BY <1>1, <1>3, <1>4, <1>5, <1>6, <1>7, OneAccount

LEMMA AuthAddMarks == ASSUME Inv, OnlineMarks, AuthAdd PROVE OnlineMarks'
<1> DEFINE k == auth.socket
           new == [socket |-> k, player |-> Null, loading |-> FALSE, packet |-> "none"]
<1> SUFFICES ASSUME NEW a, a = auth.account PROVE OnlineMarks'
  OBVIOUS
<1>1. /\ auth \in Authentication /\ k \in Sockets /\ a \in Accounts /\ sessions[a] = Null
      /\ auth # Null /\ auth.at = "add"
  BY DEF AuthAdd, AuthAt, Inv, TypeOK, AuthInStep, Authentication
<1>2. /\ loginQueue' = Append(loginQueue, Mark(a, TRUE)) /\ sessions' = [sessions EXCEPT ![a] = new]
      /\ refused' = refused \ {a} /\ UNCHANGED <<serving, online>>
  BY DEF AuthAdd
<1>3. new \in Session /\ new # Null
  <2>1. new \in Session
    BY <1>1 DEF Session
  <2> QED
    BY <2>1, NullAssumption
<1>4. sessions'[a] # Null /\ \A b \in Accounts \ {a} : sessions'[b] = sessions[b]
  BY <1>1, <1>2, <1>3 DEF Inv, TypeOK
<1>5. \A b \in Accounts : Leaving(b)' <=> Leaving(b)
  BY <1>2 DEF Leaving
<1>6. ~Leaving(a)
  BY <1>1 DEF Leaving, Inv, ServingLives
<1>7. \A b \in Accounts \ {a} : ~Entering(b)
  BY <1>1 DEF Entering
<1>8. GoingOnline(a)' /\ \A b \in Accounts \ {a} : GoingOnline(b)' <=> GoingOnline(b)
  BY <1>1, <1>2, MarkSettles DEF Inv
<1>9. a \notin refused' /\ \A b \in Accounts \ {a} : b \in refused' <=> b \in refused
  BY <1>2
<1>10. Agrees(a)'
  <2>1. ~Leaving(a)'
    BY <1>1, <1>5, <1>6
  <2> QED
    BY <1>4, <1>8, <1>9, <2>1 DEF Agrees
<1>11. \A b \in Accounts \ {a} : Leaving(b)' <=> Leaving(b)
  BY <1>5
<1> QED
  BY <1>1, <1>4, <1>7, <1>8, <1>9, <1>10, <1>11, OneAccount

LEMMA EndSessionMarks ==
  ASSUME Inv, OnlineMarks, NEW a \in Accounts, EndSession(a)
  PROVE  OnlineMarks'
<1>1. /\ serving = Null /\ sessions[a] # Null /\ LogoutPlayer(a)
      /\ sessions' = [sessions EXCEPT ![a].player = Null]
      /\ serving' = [account |-> a, at |-> "ended"] /\ UNCHANGED <<sockets, auth, online, refused>>
  BY DEF EndSession, Has, net, seen
<1>2. \A b \in Accounts \ {a} : sessions'[b] = sessions[b]
  BY <1>1 DEF Inv, TypeOK
<1>3. \A b \in Accounts : Entering(b)' <=> Entering(b)
  BY <1>1 DEF Entering
<1>4. Leaving(a)'
  <2>1. serving' \in Turn
    BY <1>1 DEF Turn
  <2> QED
    BY <1>1, <2>1, NullAssumption DEF Leaving
<1>5. \A b \in Accounts \ {a} : ~Leaving(b) /\ ~Leaving(b)'
  BY <1>1 DEF Leaving
<1>6. ~GoingOnline(a)' /\ \A b \in Accounts \ {a} : GoingOnline(b)' <=> GoingOnline(b)
  BY <1>1, MarkSettles DEF LogoutPlayer, Inv
<1>7. Agrees(a)'
  <2>1. a \notin refused'
    BY <1>1 DEF OnlineMarks, Agrees
  <2> QED
    BY <1>4, <1>6, <2>1 DEF Agrees
<1> QED
  BY <1>1, <1>2, <1>3, <1>5, <1>6, <1>7, OneAccount

LEMMA EraseSessionMarks == ASSUME Inv, OnlineMarks, EraseSession PROVE OnlineMarks'
<1> SUFFICES ASSUME NEW a, a = serving.account PROVE OnlineMarks'
  OBVIOUS
<1>1. /\ serving # Null /\ serving.at = "ended" /\ a \in Accounts
      /\ sessions' = [sessions EXCEPT ![a] = Null] /\ serving' = Null
      /\ UNCHANGED <<sockets, auth, loginQueue, online, refused>>
  BY DEF EraseSession, Inv, TypeOK, Turn, net, loginDb, seen
<1>2. sessions'[a] = Null /\ \A b \in Accounts \ {a} : sessions'[b] = sessions[b]
  BY <1>1 DEF Inv, TypeOK
<1>3. Leaving(a) /\ \A b \in Accounts : ~Leaving(b)' /\ (b # a => ~Leaving(b))
  BY <1>1 DEF Leaving
<1>4. \A b \in Accounts : (Entering(b)' <=> Entering(b)) /\ (GoingOnline(b)' <=> GoingOnline(b))
  BY <1>1 DEF Entering, GoingOnline
<1>5. Agrees(a)'
  <2>1. ~Entering(a)
    BY <1>1 DEF Entering, Inv, AuthInStep, ServingLives
  <2> QED
    BY <1>1, <1>2, <1>3, <1>4, <2>1 DEF OnlineMarks, Agrees
<1> QED
  BY <1>1, <1>2, <1>3, <1>4, <1>5, OneAccount

\* The other steps of the world thread.
LEMMA ServingMarks ==
  ASSUME Inv, OnlineMarks, NEW a \in Accounts,
         ServeLogin(a) \/ HandleCharCreate(a) \/ LoginCreated \/ HandlePlayerLoginCallback
  PROVE  OnlineMarks'
<1>1. UNCHANGED <<sockets, auth, loginQueue, online, refused>>
  BY DEF ServeLogin, HandleCharCreate, LoginCreated, HandlePlayerLoginCallback,
         HandlePlayerLoginOpcode, net, loginDb, seen
<1>2. \A b \in Accounts : Entering(b) => Entering(b)'
  BY <1>1 DEF Entering
<1>3. \A b \in Accounts : ~Leaving(b) /\ ~Leaving(b)'
  BY DEF ServeLogin, HandleCharCreate, LoginCreated, HandlePlayerLoginCallback, Has, Leaving
<1>4. \A b \in Accounts : sessions'[b] # Null <=> sessions[b] # Null
  <2>1. ASSUME NEW b \in Accounts, sessions[b] # Null, HandlePlayerLoginOpcode(b)
        PROVE  \A d \in Accounts : sessions'[d] # Null <=> sessions[d] # Null
    <3> DEFINE s == [[sessions[b] EXCEPT !.loading = TRUE] EXCEPT !.packet = "none"]
    <3>1. s \in Session /\ sessions' = [sessions EXCEPT ![b] = s]
      BY <2>1 DEF HandlePlayerLoginOpcode, Inv, TypeOK, Session
    <3> QED
      BY <2>1, <3>1, StillThere DEF Inv
  <2>2. CASE ServeLogin(a)
    BY <2>1, <2>2 DEF ServeLogin, Has
  <2>3. CASE LoginCreated
    <3>1. serving.account \in Accounts /\ sessions[serving.account] # Null
      BY <2>3 DEF LoginCreated, Inv, TypeOK, ServingLives, Turn
    <3> QED
      BY <2>1, <2>3, <3>1 DEF LoginCreated
  <2>4. CASE HandleCharCreate(a)
    <3>1. /\ sessions[a] # Null
          /\ [sessions[a] EXCEPT !.packet = "none"] \in Session
          /\ sessions' = [sessions EXCEPT ![a] = [sessions[a] EXCEPT !.packet = "none"]]
      BY <2>4 DEF HandleCharCreate, Has, Inv, TypeOK, Session
    <3> QED
      BY <3>1, StillThere DEF Inv
  <2>5. CASE HandlePlayerLoginCallback
    <3> DEFINE r == Head(answers)
    <3>1. CASE sessions[r.account] = Null
      BY <2>5, <3>1 DEF HandlePlayerLoginCallback
    <3>2. CASE sessions[r.account] # Null
      <4>1. HandlePlayerLogin(r) /\ r \in OwnedAnswers /\ UNCHANGED sockets
        BY <1>1, <2>5, <3>2, TailKeeps DEF HandlePlayerLoginCallback, Inv, OwnedQueues
      <4>2. SameLinks
        BY <3>2, <4>1, HandlePlayerLoginKeeps
      <4> QED
        BY <4>2 DEF SameLinks
    <3> QED
      BY <3>1, <3>2
  <2> QED
    BY <2>2, <2>3, <2>4, <2>5
<1> QED
  BY <1>1, <1>2, <1>3, <1>4, QuietStep

\* The clearing that is queued at the start frees every account.
LEMMA ClearSettles ==
  ASSUME NEW q, q = <<[kind |-> "clear"]>>, NEW S, NEW Y,
         [kind |-> "clear"] \in S, [kind |-> "clear"] \notin Y, NEW b
  PROVE  ~Settles(q, S, Y, b)
<1>1. Len(q) = 1 /\ q[1] = [kind |-> "clear"] /\ 1 \in 1..1 /\ \A i \in 1..1 : i = 1
  OBVIOUS
<1> QED
  BY <1>1 DEF Settles

LEMMA RestartMarks == Restart => OnlineMarks'
<1> SUFFICES ASSUME Restart, NEW a \in Accounts PROVE Agrees(a)'
  BY DEF OnlineMarks
<1>1. loginQueue' = <<[kind |-> "clear"]>> /\ sessions'[a] = Null /\ refused' = {}
  BY DEF Restart, Started
<1>2. [kind |-> "clear"] \in MarksOf(a) /\ [kind |-> "clear"] \notin {Mark(a, TRUE)}
  BY MarksDiffer
<1>3. ~Settles(loginQueue', MarksOf(a), {Mark(a, TRUE)}, online'[a])
  BY <1>1, <1>2, ClearSettles
<1> QED
  BY <1>1, <1>3 DEF GoingOnline, Agrees

LEMMA InitialMarks == Init => OnlineMarks
<1> SUFFICES ASSUME Init, NEW a \in Accounts PROVE Agrees(a)
  BY DEF OnlineMarks
<1>1. loginQueue = <<[kind |-> "clear"]>> /\ sessions[a] = Null /\ refused = {}
  BY DEF Init
<1>2. [kind |-> "clear"] \in MarksOf(a) /\ [kind |-> "clear"] \notin {Mark(a, TRUE)}
  BY MarksDiffer
<1>3. ~Settles(loginQueue, MarksOf(a), {Mark(a, TRUE)}, online[a])
  BY <1>1, <1>2, ClearSettles
<1> QED
  BY <1>1, <1>3 DEF GoingOnline, Agrees

LEMMA OnlineMarksStep == Inv /\ OnlineMarks /\ [Next]_vars => OnlineMarks'
<1> SUFFICES ASSUME Inv, OnlineMarks, [Next]_vars PROVE OnlineMarks'
  OBVIOUS
<1>1. CASE UNCHANGED vars
  BY <1>1 DEF vars, OnlineMarks, Agrees, GoingOnline, Entering, Leaving
<1>2. CASE Restart
  BY <1>2, RestartMarks
<1>3. ASSUME NEW k \in Sockets,
             OnDelete(k) \/ SendCreate(k) \/ \E a \in Accounts : AuthAsk(k, a)
      PROVE  OnlineMarks'
  BY <1>3, SocketsMark
<1>4. CASE AuthLook
  <2>1. auth.socket \in Sockets
    BY <1>4 DEF AuthLook, AuthAt, Inv, TypeOK, Authentication
  <2> QED
    BY <1>4, <2>1, SocketsMark
<1>5. CASE AuthRemove
  BY <1>2, <1>5, AuthRemoveMarks
<1>6. CASE AuthAdd
  BY <1>6, AuthAddMarks
<1>7. ASSUME NEW a \in Accounts, ServeLogin(a) \/ HandleCharCreate(a) PROVE OnlineMarks'
  BY <1>7, ServingMarks
<1>8. ASSUME NEW a \in Accounts, EndSession(a) PROVE OnlineMarks'
  BY <1>8, EndSessionMarks
<1>9. CASE EraseSession
  BY <1>9, EraseSessionMarks
<1>10. CASE LoginCreated \/ HandlePlayerLoginCallback
  <2>1. PICK a : a \in Accounts
    <3>1. CASE LoginCreated
      BY <3>1 DEF LoginCreated, Inv, TypeOK, Turn
    <3>2. CASE HandlePlayerLoginCallback
      <4>1. Head(answers) \in Answers
        BY <3>2, TailKeeps DEF HandlePlayerLoginCallback, Inv, TypeOK
      <4> QED
        BY <4>1 DEF Answers
    <3> QED
      BY <1>10, <3>1, <3>2
  <2> QED
    BY <1>10, <2>1, ServingMarks
<1>11. CASE (\E c \in Characters : AutoSave(c)) \/ BeginSave \/ WriteChar
  <2>1. UNCHANGED <<sockets, auth, sessions, serving, loginQueue, online, refused>>
    BY <1>11 DEF AutoSave, BeginSave, WriteChar, net, loginDb, seen
  <2> QED
    BY <2>1 DEF OnlineMarks, Agrees, GoingOnline, Entering, Leaving
<1>12. CASE WriteLogin
  <2>1. UNCHANGED <<sockets, auth, sessions, serving, refused>>
    BY <1>12 DEF WriteLogin, net, seen
  <2>2. \A a \in Accounts : GoingOnline(a)' <=> GoingOnline(a)
    BY <1>12, WriteLoginSettles DEF Inv
  <2> QED
    BY <2>1, <2>2 DEF OnlineMarks, Agrees, Entering, Leaving
<1> QED
  BY <1>1, <1>2, <1>3, <1>4, <1>5, <1>6, <1>7, <1>8, <1>9, <1>10, <1>11, <1>12 DEF Next

-----------------------------------------------------------------------------
\* The marks of the characters

LEMMA UpdatesDiffer ==
  ASSUME NEW c \in Characters
  PROVE  /\ {Online(c)} \subseteq UpdatesOf(c)
         /\ [kind |-> "clear"] \in UpdatesOf(c) /\ [kind |-> "clear"] # Online(c)
         /\ \A d \in Characters :
              /\ SaveOf(d) \in UpdatesOf(c) <=> d = c
              /\ Online(d) \in UpdatesOf(c) <=> d = c
              /\ SaveOf(d) # Online(c)
         /\ \A a \in Accounts :
              /\ Offline(a) \in UpdatesOf(c) <=> a = Owner[c]
              /\ Offline(a) # Online(c)
         /\ \A a \in Accounts, d \in Characters : Load(a, d) \notin UpdatesOf(c)
<1>1. [kind |-> "clear"].kind = "clear" /\ Online(c).kind = "online" /\ Online(c).character = c
      /\ SaveOf(c).kind = "save" /\ SaveOf(c).character = c
      /\ Offline(Owner[c]).kind = "offline" /\ Offline(Owner[c]).account = Owner[c]
  BY DEF Online, SaveOf, Offline
<1>2. ASSUME NEW d \in Characters
      PROVE  /\ SaveOf(d) \in UpdatesOf(c) <=> d = c
             /\ Online(d) \in UpdatesOf(c) <=> d = c
             /\ SaveOf(d) # Online(c)
  <2>1. SaveOf(d).kind = "save" /\ SaveOf(d).character = d
        /\ Online(d).kind = "online" /\ Online(d).character = d
    BY DEF SaveOf, Online
  <2> QED
    BY <1>1, <2>1 DEF UpdatesOf
<1>3. ASSUME NEW a \in Accounts
      PROVE  (Offline(a) \in UpdatesOf(c) <=> a = Owner[c]) /\ Offline(a) # Online(c)
  <2>1. Offline(a).kind = "offline" /\ Offline(a).account = a
    BY DEF Offline
  <2> QED
    BY <1>1, <2>1 DEF UpdatesOf
<1>4. ASSUME NEW a \in Accounts, NEW d \in Characters PROVE Load(a, d) \notin UpdatesOf(c)
  <2>1. Load(a, d).kind = "load"
    BY DEF Load
  <2> QED
    BY <1>1, <2>1 DEF UpdatesOf
<1>5. [kind |-> "clear"] # Online(c) /\ {Online(c)} \subseteq UpdatesOf(c)
      /\ [kind |-> "clear"] \in UpdatesOf(c)
  BY <1>1 DEF UpdatesOf
<1> QED
  BY <1>2, <1>3, <1>4, <1>5

\* A character is only going to be marked by an operation that says so.
LEMMA UpdateSettles ==
  ASSUME NEW q \in Seq(CharOps), NEW op \in CharOps, NEW c \in Characters, NEW b,
         Settles(Append(q, op), UpdatesOf(c), {Online(c)}, b), op # Online(c)
  PROVE  Settles(q, UpdatesOf(c), {Online(c)}, b) /\ op \notin UpdatesOf(c)
<1>1. {Online(c)} \subseteq UpdatesOf(c)
  BY UpdatesDiffer
<1>2. op \notin UpdatesOf(c)
  <2>1. ASSUME op \in UpdatesOf(c) PROVE op \in {Online(c)}
    BY <1>1, <2>1, SettlesAppend
  <2> QED
    BY <2>1
<1>3. Settles(q, UpdatesOf(c), {Online(c)}, b)
  BY <1>1, <1>2, SettlesAppend
<1> QED
  BY <1>2, <1>3

\* The delay thread of the characters database marks no character that was
\* not going to be; one without a row is not marked at all.
LEMMA WriteCharSettles ==
  ASSUME TypeOK, WriteChar, NEW c \in Characters, GoingMarked(c)'
  PROVE  GoingMarked(c)
<1> DEFINE op == Head(charQueue)
           S == UpdatesOf(c)
           Y == {Online(c)}
           b == rows[c] = "online"
           d == IF op \in S THEN op \in Y ELSE b
<1>1. /\ charQueue \in Seq(CharOps) /\ charQueue # <<>> /\ op \in CharOps
      /\ charQueue' = Tail(charQueue) /\ rows' = RowsAfter(rows, op)
      /\ rows \in [Characters -> {"none", "offline", "online"}]
  BY TailKeeps DEF TypeOK, WriteChar
<1>2. rows'[c] = "online" => d
  <2>1. SUFFICES ASSUME rows'[c] = "online" PROVE d
    OBVIOUS
  <2>2. CASE op \in S
    <3>1. CASE op = Online(c)
      BY <2>2, <3>1
    <3>2. CASE op = SaveOf(c)
      <4>1. op.kind = "save" /\ op.character = c
        BY <3>2 DEF SaveOf
      <4> QED
        BY <1>1, <2>1, <4>1 DEF RowsAfter
    <3>3. CASE op = Offline(Owner[c])
      <4>1. op.kind = "offline" /\ op.account = Owner[c]
        BY <3>3 DEF Offline
      <4>2. rows'[c] = IF Owner[c] = op.account /\ rows[c] # "none" THEN "offline" ELSE rows[c]
        BY <1>1, <4>1 DEF RowsAfter
      <4> QED
        BY <1>1, <2>1, <4>1, <4>2
    <3>4. CASE op = [kind |-> "clear"]
      <4>1. op.kind = "clear"
        BY <3>4
      <4> QED
        BY <1>1, <2>1, <4>1 DEF RowsAfter
    <3> QED
      BY <2>2, <3>1, <3>2, <3>3, <3>4 DEF UpdatesOf
  <2>3. CASE op \notin S
    <3>1. CASE op.kind \in {"save", "online"}
      <4>1. op.character \in Characters /\ op \in {SaveOf(op.character), Online(op.character)}
        <5>1. op \in [kind : {"save", "online"}, character : Characters]
          BY <1>1, <3>1 DEF CharOps
        <5> QED
          BY <5>1 DEF SaveOf, Online
      <4>2. op.character # c
        BY <2>3, <4>1, UpdatesDiffer
      <4>3. rows'[c] = rows[c]
        BY <1>1, <3>1, <4>2 DEF RowsAfter
      <4> QED
        BY <2>1, <2>3, <4>3
    <3>2. CASE op.kind = "offline"
      <4>1. op.account \in Accounts /\ op = Offline(op.account)
        <5>1. op \in [kind : {"offline"}, account : Accounts]
          BY <1>1, <3>2 DEF CharOps
        <5> QED
          BY <5>1 DEF Offline
      <4>2. op.account # Owner[c]
        BY <2>3, <4>1, UpdatesDiffer
      <4>3. rows'[c] = IF Owner[c] = op.account /\ rows[c] # "none" THEN "offline" ELSE rows[c]
        BY <1>1, <3>2 DEF RowsAfter
      <4> QED
        BY <2>1, <2>3, <4>2, <4>3
    <3>3. CASE op.kind = "clear"
      <4>1. op = [kind |-> "clear"]
        BY <1>1, <3>3 DEF CharOps
      <4> QED
        BY <2>3, <4>1, UpdatesDiffer
    <3>4. CASE op.kind = "load"
      <4>1. rows' = rows
        BY <1>1, <3>4 DEF RowsAfter
      <4> QED
        BY <2>1, <2>3, <4>1
    <3> QED
      BY <1>1, <3>1, <3>2, <3>3, <3>4 DEF CharOps
  <2> QED
    BY <2>2, <2>3
<1>3. Settles(Tail(charQueue), S, Y, rows'[c] = "online")
  BY <1>1 DEF GoingMarked
<1>4. op \in S => (d <=> op \in Y)
  OBVIOUS
<1>5. op \notin S => (d <=> b)
  OBVIOUS
<1> HIDE DEF d
<1>6. Settles(Tail(charQueue), S, Y, d)
  BY <1>2, <1>3 DEF Settles
<1>7. Y \subseteq S
  BY UpdatesDiffer
<1> HIDE DEF S, Y, b
<1>8. Settles(charQueue, S, Y, b)
  BY <1>1, <1>4, <1>5, <1>6, <1>7, SettlesTail
<1> QED
  BY <1>8 DEF GoingMarked, S, Y, b

\* LogoutPlayer unmarks every character of the account, after the last save.
LEMMA LogoutSettles ==
  ASSUME Inv, NEW a \in Accounts, sessions[a] # Null, LogoutPlayer(a), UNCHANGED rows,
         NEW c \in Characters, GoingMarked(c)'
  PROVE  GoingMarked(c) /\ world'[c] = world[c]
<1> DEFINE p == sessions[a].player
           q == IF p = Null THEN charQueue ELSE Append(charQueue, SaveOf(p))
           b == rows[c] = "online"
<1>1. charQueue \in Seq(CharOps) /\ p \in Characters \cup {Null} /\ Offline(a) \in CharOps
      /\ \A d \in Characters : SaveOf(d) \in CharOps
  BY OpsAreOwned DEF Inv, TypeOK, Session, OwnedOps
<1>2. charQueue' = Append(q, Offline(a)) /\ q \in Seq(CharOps)
  <2>1. CASE p = Null
    <3>1. charQueue' = charQueue \o <<>> \o <<Offline(a)>>
      BY <2>1 DEF LogoutPlayer
    <3> QED
      BY <1>1, <2>1, <3>1
  <2>2. CASE p # Null
    <3>1. charQueue' = charQueue \o <<SaveOf(p)>> \o <<Offline(a)>> /\ SaveOf(p) \in CharOps
      BY <1>1, <2>2 DEF LogoutPlayer
    <3> QED
      BY <1>1, <2>2, <3>1
  <2> QED
    BY <2>1, <2>2
<1>3. Settles(Append(q, Offline(a)), UpdatesOf(c), {Online(c)}, b)
  BY <1>2 DEF GoingMarked
<1>4. Offline(a) # Online(c)
  BY UpdatesDiffer
<1> HIDE DEF b
<1>5. Settles(q, UpdatesOf(c), {Online(c)}, b) /\ Offline(a) \notin UpdatesOf(c)
  BY <1>1, <1>2, <1>3, <1>4, UpdateSettles
<1>6. Settles(charQueue, UpdatesOf(c), {Online(c)}, b)
  <2>1. CASE p = Null
    BY <1>5, <2>1
  <2>2. CASE p # Null
    <3>1. SaveOf(p) \in CharOps /\ SaveOf(p) # Online(c) /\ q = Append(charQueue, SaveOf(p))
      BY <1>1, <2>2, UpdatesDiffer
    <3> QED
      BY <1>1, <1>5, <3>1, UpdateSettles
  <2> QED
    BY <2>1, <2>2
<1>7. c # p
  BY <1>5, UpdatesDiffer, NullAssumption DEF Inv, PlayersInWorld
<1>8. world'[c] = world[c]
  BY <1>7 DEF LogoutPlayer
<1> QED
  BY <1>6, <1>8 DEF GoingMarked, b

\* A step of the world thread that may hand an operation over.
LEMMA OpKeepsMarks ==
  ASSUME TypeOK, MarkedCharactersPlay, UNCHANGED <<rows, world>>, NEW op \in CharOps,
         \A c \in Characters : op # Online(c), charQueue' = Append(charQueue, op)
  PROVE  MarkedCharactersPlay'
<1> SUFFICES ASSUME NEW c \in Characters, GoingMarked(c)' PROVE world'[c] > 0
  BY DEF MarkedCharactersPlay
<1>1. Settles(Append(charQueue, op), UpdatesOf(c), {Online(c)}, rows[c] = "online")
  BY DEF GoingMarked
<1>2. Settles(charQueue, UpdatesOf(c), {Online(c)}, rows[c] = "online")
  BY <1>1, UpdateSettles DEF TypeOK
<1> QED
  BY <1>2 DEF MarkedCharactersPlay, GoingMarked

LEMMA UnchangedMarks ==
  ASSUME MarkedCharactersPlay, UNCHANGED <<charQueue, rows, world>>
  PROVE  MarkedCharactersPlay'
BY DEF MarkedCharactersPlay, GoingMarked

LEMMA LogoutMarks ==
  ASSUME Inv, MarkedCharactersPlay, NEW a \in Accounts, sessions[a] # Null,
         LogoutPlayer(a), UNCHANGED rows
  PROVE  MarkedCharactersPlay'
<1> SUFFICES ASSUME NEW c \in Characters, GoingMarked(c)' PROVE world'[c] > 0
  BY DEF MarkedCharactersPlay
<1>1. GoingMarked(c) /\ world'[c] = world[c]
  BY LogoutSettles
<1> QED
  BY <1>1 DEF MarkedCharactersPlay

LEMMA LoadMarks ==
  ASSUME Inv, MarkedCharactersPlay, NEW a \in Accounts, HandlePlayerLoginOpcode(a)
  PROVE  MarkedCharactersPlay'
<1>1. UNCHANGED <<rows, world>>
  BY DEF HandlePlayerLoginOpcode
<1>2. CASE UNCHANGED charQueue
  BY <1>1, <1>2, UnchangedMarks
<1>3. ASSUME NEW c \in Visible(a), charQueue' = Append(charQueue, Load(a, c))
      PROVE  MarkedCharactersPlay'
  <2>1. c \in Characters /\ Load(a, c) \in CharOps
    BY DEF Visible, Load, CharOps
  <2>2. \A d \in Characters : Load(a, c) # Online(d)
    BY <2>1, UpdatesDiffer
  <2> QED
    BY <1>1, <1>3, <2>1, <2>2, OpKeepsMarks DEF Inv
<1> QED
  BY <1>2, <1>3 DEF HandlePlayerLoginOpcode

LEMMA SaveMarks ==
  ASSUME TypeOK, MarkedCharactersPlay, UNCHANGED <<rows, world>>, NEW c \in Characters,
         charQueue' = Append(charQueue, SaveOf(c))
  PROVE  MarkedCharactersPlay'
<1>1. SaveOf(c) \in CharOps
  BY DEF SaveOf, CharOps
<1>2. \A d \in Characters : SaveOf(c) # Online(d)
  BY UpdatesDiffer
<1> QED
  BY <1>1, <1>2, OpKeepsMarks

\* Only a character that enters the world is marked.
LEMMA CallbackMarks ==
  ASSUME Inv, MarkedCharactersPlay, HandlePlayerLoginCallback
  PROVE  MarkedCharactersPlay'
<1> DEFINE r == Head(answers)
<1>1. r \in Answers /\ UNCHANGED rows
  BY TailKeeps DEF HandlePlayerLoginCallback, Inv, TypeOK
<1>2. CASE UNCHANGED <<world, charQueue>>
  BY <1>1, <1>2, UnchangedMarks
<1>3. CASE /\ world' = [world EXCEPT ![r.character] = @ + 1]
           /\ charQueue' = Append(charQueue, Online(r.character))
  <2> SUFFICES ASSUME NEW c \in Characters, GoingMarked(c)' PROVE world'[c] > 0
    BY DEF MarkedCharactersPlay
  <2>1. r.character \in Characters /\ world \in [Characters -> Nat]
    BY <1>1 DEF Answers, Inv, TypeOK
  <2>2. CASE c = r.character
    BY <1>3, <2>1, <2>2
  <2>3. CASE c # r.character
    <3>1. Online(r.character) \in CharOps /\ Online(r.character) # Online(c)
      <4>1. Online(r.character).character = r.character /\ Online(c).character = c
        BY DEF Online
      <4> QED
        BY <2>1, <2>3, <4>1 DEF Online, CharOps
    <3>2. Settles(Append(charQueue, Online(r.character)), UpdatesOf(c), {Online(c)}, rows[c] = "online")
      BY <1>1, <1>3 DEF GoingMarked
    <3>3. Settles(charQueue, UpdatesOf(c), {Online(c)}, rows[c] = "online")
      BY <3>1, <3>2, UpdateSettles DEF Inv, TypeOK
    <3>4. world[c] > 0 /\ world'[c] = world[c]
      BY <1>3, <2>1, <2>3, <3>3 DEF MarkedCharactersPlay, GoingMarked
    <3> QED
      BY <3>4
  <2> QED
    BY <2>2, <2>3
<1> QED
  BY <1>2, <1>3 DEF HandlePlayerLoginCallback, HandlePlayerLogin

\* The clearing that is queued at the start unmarks every character.
LEMMA ClearedMarks ==
  ASSUME NEW q, q = <<[kind |-> "clear"]>>, NEW c \in Characters, NEW b
  PROVE  ~Settles(q, UpdatesOf(c), {Online(c)}, b)
<1>1. [kind |-> "clear"] \in UpdatesOf(c) /\ [kind |-> "clear"] \notin {Online(c)}
  BY UpdatesDiffer
<1> QED
  BY <1>1, ClearSettles

LEMMA MarkedCharactersStep == Inv /\ MarkedCharactersPlay /\ [Next]_vars => MarkedCharactersPlay'
<1> SUFFICES ASSUME Inv, MarkedCharactersPlay, [Next]_vars PROVE MarkedCharactersPlay'
  OBVIOUS
<1>1. CASE UNCHANGED vars
  BY <1>1, UnchangedMarks DEF vars
<1>2. CASE Restart
  <2>1. charQueue' = <<[kind |-> "clear"]>>
    BY <1>2 DEF Restart, Started
  <2>2. \A c \in Characters : ~GoingMarked(c)'
    BY <2>1, ClearedMarks DEF GoingMarked
  <2> QED
    BY <2>2 DEF MarkedCharactersPlay
<1>3. ASSUME NEW k \in Sockets,
             OnDelete(k) \/ SendCreate(k) \/ \E a \in Accounts : AuthAsk(k, a)
      PROVE  MarkedCharactersPlay'
  BY <1>3, UnchangedMarks DEF OnDelete, SendCreate, AuthAsk, charDb
<1>4. CASE AuthAdd \/ AuthLook \/ EraseSession \/ WriteLogin \/ BeginSave
  BY <1>4, UnchangedMarks DEF AuthAdd, AuthLook, EraseSession, WriteLogin, BeginSave, charDb
<1>5. CASE AuthRemove /\ ~Restart
  <2> DEFINE a == auth.account
  <2>1. a \in Accounts /\ UNCHANGED rows /\ RemoveSession(a)
    BY <1>5 DEF AuthRemove, AuthAt, Inv, TypeOK, Authentication
  <2>2. CASE UNCHANGED <<charQueue, world>>
    BY <2>1, <2>2, UnchangedMarks
  <2>3. CASE sessions[a] # Null /\ LogoutPlayer(a)
    BY <2>1, <2>3, LogoutMarks
  <2> QED
    BY <2>1, <2>2, <2>3 DEF RemoveSession
<1>6. ASSUME NEW a \in Accounts, ServeLogin(a) PROVE MarkedCharactersPlay'
  BY <1>6, LoadMarks DEF ServeLogin
<1>7. CASE LoginCreated
  <2>1. serving.account \in Accounts
    BY <1>7 DEF LoginCreated, Inv, TypeOK, Turn
  <2> QED
    BY <1>7, <2>1, LoadMarks DEF LoginCreated
<1>8. ASSUME NEW a \in Accounts, HandleCharCreate(a) PROVE MarkedCharactersPlay'
  <2>1. UNCHANGED <<rows, world>>
    BY <1>8 DEF HandleCharCreate
  <2>2. CASE UNCHANGED charQueue
    BY <2>1, <2>2, UnchangedMarks
  <2>3. ASSUME NEW c \in Characters, charQueue' = Append(charQueue, SaveOf(c))
        PROVE  MarkedCharactersPlay'
    BY <2>1, <2>3, SaveMarks DEF Inv
  <2> QED
    BY <1>8, <2>2, <2>3 DEF HandleCharCreate
<1>9. ASSUME NEW a \in Accounts, EndSession(a) PROVE MarkedCharactersPlay'
  BY <1>9, LogoutMarks DEF EndSession, Has
<1>10. CASE HandlePlayerLoginCallback
  BY <1>10, CallbackMarks
<1>11. ASSUME NEW c \in Characters, AutoSave(c) PROVE MarkedCharactersPlay'
  BY <1>11, SaveMarks DEF AutoSave, Inv
<1>12. CASE WriteChar
  <2>1. world' = world /\ \A c \in Characters : GoingMarked(c)' => GoingMarked(c)
    BY <1>12, WriteCharSettles DEF WriteChar, Inv
  <2> QED
    BY <2>1 DEF MarkedCharactersPlay
<1> QED
  BY <1>1, <1>2, <1>3, <1>4, <1>5, <1>6, <1>7, <1>8, <1>9, <1>10, <1>11, <1>12 DEF Next

-----------------------------------------------------------------------------
\* The theorems

\* Whatever connects, is kicked, ends, dies and is restarted, the state keeps
\* its types: above all a session never takes a player from the world that is
\* not there (LogoutPlayer).
THEOREM TypesAreKept == Spec => []TypeOK
<1>1. Inv => TypeOK
  BY DEF Inv
<1> QED
  BY <1>1, InvHolds, PTL

\* For any number of connections and accounts, the session of a socket points
\* back at it, and its socket at a session unless a connection authenticated
\* for a second account (CloseSocket, OnDelete, RemoveSession, AddSession).
THEOREM LinksAreKept == Spec => []LinksAgree
<1>1. Inv => LinksAgree
  BY DEF Inv
<1> QED
  BY <1>1, InvHolds, PTL

\* No two sessions ever have the same player, and the player of a session is
\* in the world, so that LogoutPlayer saves and removes what is there; what
\* OnePlayerInWorld finds are players no session has.
THEOREM PlayersArePresent ==
  Spec => [](/\ PlayersInWorld
             /\ \A a, b \in Accounts :
                  a # b /\ sessions[a] # Null /\ sessions[b] # Null /\ sessions[b].player # Null =>
                    sessions[a].player # sessions[b].player)
<1>1. Inv => /\ PlayersInWorld
             /\ \A a, b \in Accounts :
                  a # b /\ sessions[a] # Null /\ sessions[b] # Null /\ sessions[b].player # Null =>
                    sessions[a].player # sessions[b].player
  BY PlayersDiffer DEF Inv
<1> QED
  BY <1>1, InvHolds, PTL

\* Whatever is kicked, lost, ended or restarted, and however late the login
\* database is: once it has caught up exactly the accounts with a session are
\* marked online, and those whose session without a player RemoveSession
\* deleted while its caller, for want of a result, then read false.  No other
\* account stays locked (_HandleAuthSession, LogoutPlayer,
\* clearOnlineAccounts).
THEOREM OnlineMarksAgree == Spec => []OnlineAccountsHaveSessions
<1>1. OnlineMarks => OnlineAccountsHaveSessions
  BY DEF OnlineMarks, Agrees, OnlineAccountsHaveSessions
<1> QED
  BY <1>1, InitialMarks, OnlineMarksStep, InvHolds, PTL DEF Spec

\* Once the characters database has caught up only characters in the world are
\* marked online, so that the authentication finds every other one; what a
\* login that comes late puts into the world is marked while it is there
\* (LogoutPlayer, HandlePlayerLogin, clearOnlineAccounts).
THEOREM CharacterMarksAgree == Spec => []MarkedCharactersPlay
<1>1. Init => MarkedCharactersPlay
  <2> SUFFICES ASSUME Init PROVE MarkedCharactersPlay
    OBVIOUS
  <2>1. charQueue = <<[kind |-> "clear"]>>
    BY DEF Init
  <2>2. \A c \in Characters : ~GoingMarked(c)
    BY <2>1, ClearedMarks DEF GoingMarked
  <2> QED
    BY <2>2 DEF MarkedCharactersPlay
<1> QED
  BY <1>1, MarkedCharactersStep, InvHolds, PTL DEF Spec
=============================================================================

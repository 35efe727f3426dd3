----------------------------- MODULE TeamProofs -----------------------------
(***************************************************************************)
(* Theorems about Team, for any number of players, packets and team sizes. *)
(* The parts of the inductive invariant:                                   *)
(*                                                                         *)
(*   TypeOK, TeleportEnds  (of Team)                                       *)
(*   Listed                who has a leader is on its list                 *)
(*   FrozenAreLed          who may not move has a leader                   *)
(*   Others                nobody asks, or answers, itself                 *)
(*   Connected             packets come from players in the world          *)
(*                                                                         *)
(* Bounded (no list has more than TeamLimit places) is inductive on top of *)
(* it: CanJoinTeam counts the places when the answer is served, leaving    *)
(* only takes places away, and a logout at most renames them.              *)
(***************************************************************************)
EXTENDS Team, FiniteSetTheorems, FunctionTheorems, TLAPS

Listed ==
  \A p \in Players : isJoinedTeam(p) => leader[p] \in online /\ p \in Named(leader[p])

FrozenAreLed == \A p \in frozen : isJoinedTeam(p)

Others ==
  /\ \A l \in Players : l \notin asked[l]
  /\ \A p \in Players, i \in Nat :
       i \in 1..Len(inbox[p]) /\ inbox[p][i].kind \in {"join", "answer"} => inbox[p][i].who # p

Connected == \A p \in Players : inbox[p] # <<>> => p \in online

Inv == TypeOK /\ Listed /\ FrozenAreLed /\ Others /\ Connected /\ TeleportEnds

-----------------------------------------------------------------------------
\* Packets

LEMMA SendKeeps ==
  ASSUME inbox \in [Players -> Seq(Packets)], NEW p \in Players, NEW m \in Packets, Send(p, m)
  PROVE  /\ inbox' \in [Players -> Seq(Packets)]
         /\ /\ Others /\ \A l \in Players : l \notin asked'[l]
            /\ m.kind \in {"join", "answer"} => m.who # p
            => Others'
<1>1. inbox' = [inbox EXCEPT ![p] = Append(@, m)]
  BY DEF Send
<1>2. inbox' \in [Players -> Seq(Packets)]
  BY <1>1
<1>3. ASSUME Others, \A l \in Players : l \notin asked'[l],
             m.kind \in {"join", "answer"} => m.who # p
      PROVE  Others'
  <2>1. ASSUME NEW q \in Players, NEW i \in Nat, i \in 1..Len(inbox'[q]),
               inbox'[q][i].kind \in {"join", "answer"}
        PROVE  inbox'[q][i].who # q
    <3>1. CASE q = p /\ i = Len(inbox[p]) + 1
      BY <1>1, <1>3, <2>1, <3>1
    <3>2. CASE q = p /\ i # Len(inbox[p]) + 1
      <4>1. i \in 1..Len(inbox[p]) /\ inbox'[p][i] = inbox[p][i]
        BY <1>1, <2>1, <3>2
      <4> QED
        BY <1>3, <2>1, <3>2, <4>1 DEF Others
    <3>3. CASE q # p
      BY <1>1, <1>3, <2>1, <3>3 DEF Others
    <3> QED
      BY <3>1, <3>2, <3>3
  <2> QED
    BY <1>3, <2>1 DEF Others
<1> QED
  BY <1>2, <1>3

LEMMA ServeKeeps ==
  ASSUME inbox \in [Players -> Seq(Packets)], NEW p \in Players, NEW m \in Packets, Serve(p, m)
  PROVE  /\ inbox' \in [Players -> Seq(Packets)]
         /\ Others => (m.kind \in {"join", "answer"} => m.who # p)
         /\ Others /\ (\A l \in Players : l \notin asked'[l]) => Others'
<1>1. /\ inbox[p] # <<>> /\ m = inbox[p][1] /\ inbox' = [inbox EXCEPT ![p] = Tail(@)]
      /\ Len(inbox[p]) >= 1
  BY DEF Serve
<1>2. inbox' \in [Players -> Seq(Packets)]
  BY <1>1
<1>3. Others => (m.kind \in {"join", "answer"} => m.who # p)
  BY <1>1 DEF Others
<1>4. ASSUME Others, \A l \in Players : l \notin asked'[l] PROVE Others'
  <2>1. ASSUME NEW q \in Players, NEW i \in Nat, i \in 1..Len(inbox'[q]),
               inbox'[q][i].kind \in {"join", "answer"}
        PROVE  inbox'[q][i].who # q
    <3>1. CASE q = p
      <4>1. i + 1 \in 1..Len(inbox[p]) /\ inbox'[p][i] = inbox[p][i + 1]
        BY <1>1, <2>1, <3>1
      <4> QED
        BY <1>4, <2>1, <3>1, <4>1 DEF Others
    <3>2. CASE q # p
      BY <1>1, <1>4, <2>1, <3>2 DEF Others
    <3> QED
      BY <3>1, <3>2
  <2> QED
    BY <1>4, <2>1 DEF Others
<1> QED
  BY <1>2, <1>3, <1>4

-----------------------------------------------------------------------------
\* What joining and leaving do to the teams

Teams == leader \in [Players -> Players \cup {None}] /\ team \in [Players -> [Entries -> Nat]]
         /\ frozen \subseteq Players /\ broken \in BOOLEAN

Led == Listed /\ FrozenAreLed /\ TeleportEnds

LEMMA Leaderless == ASSUME NEW p \in Players, NEW S, S \subseteq Players, p \in S, Named(p) \cap S = {}
                    PROVE  \E q \in S : Named(q) \cap S = {}
OBVIOUS

\* Whoever joins leads nobody: the lists stay free of circles.
LEMMA JoinTeamKeeps ==
  ASSUME Teams, Led, NEW l \in Players, NEW m \in Players, l # m, l \in online, MayJoin(l, m),
         JoinTeam(l, m), UNCHANGED <<online, broken>>
  PROVE  Teams' /\ Led'
<1> USE DEF Teams, Entries
<1>1. /\ frozen' = frozen \cup {m} /\ leader' = [leader EXCEPT ![m] = l]
      /\ team' = [team EXCEPT ![l][m] = @ + 1]
  BY DEF JoinTeam
<1>2. Teams'
  <2>1. m \in Entries /\ team[l][m] + 1 \in Nat
    OBVIOUS
  <2>2. [team[l] EXCEPT ![m] = @ + 1] \in [Entries -> Nat]
    BY <2>1
  <2>3. team' \in [Players -> [Entries -> Nat]]
    BY <1>1, <2>2
  <2> QED
    BY <1>1, <2>3
<1>3. Named(l)' = Named(l) \cup {m} /\ \A p \in Players \ {l} : Named(p)' = Named(p)
  <2>1. \A e \in Entries : team'[l][e] = IF e = m THEN team[l][m] + 1 ELSE team[l][e]
    BY <1>1
  <2>2. \A p \in Players \ {l} : team'[p] = team[p]
    BY <1>1
  <2>3. team[l][m] + 1 > 0
    OBVIOUS
  <2> QED
    BY <2>1, <2>2, <2>3 DEF Named
<1>4. Listed'
  <2> SUFFICES ASSUME NEW q \in Players, leader'[q] # None
               PROVE  leader'[q] \in online /\ team'[leader'[q]][q] > 0
    BY DEF Listed, isJoinedTeam, Named
  <2>1. CASE q = m
    <3>1. leader'[q] = l /\ team'[l][m] = team[l][m] + 1
      BY <1>1, <2>1
    <3>2. team[l][m] + 1 > 0
      OBVIOUS
    <3> QED
      BY <2>1, <3>1, <3>2
  <2>2. CASE q # m
    <3>1. leader'[q] = leader[q] /\ leader[q] \in Players
      BY <1>1, <2>2
    <3>2. leader[q] \in online /\ team[leader[q]][q] > 0
      BY <2>2, <3>1 DEF Led, Listed, isJoinedTeam, Named
    <3>3. team'[leader[q]][q] = team[leader[q]][q]
      BY <1>1, <2>2, <3>1
    <3> QED
      BY <3>1, <3>2, <3>3
  <2> QED
    BY <2>1, <2>2
<1>5. FrozenAreLed'
  BY <1>1, PlayersAssumption DEF Led, FrozenAreLed, isJoinedTeam
<1>6. TeleportEnds'
  <2>1. ASSUME NEW S \in SUBSET Players, S # {} PROVE \E p \in S : Named(p)' \cap S = {}
    <3>1. CASE m \in S
      BY <1>3, <3>1 DEF MayJoin, isTeamLeader
    <3>2. CASE m \notin S
      <4>1. PICK p \in S : Named(p) \cap S = {}
        BY <2>1 DEF Led, TeleportEnds
      <4> QED
        BY <1>3, <3>2, <4>1
    <3> QED
      BY <3>1, <3>2
  <2> QED
    BY <2>1 DEF TeleportEnds
<1> QED
  BY <1>2, <1>4, <1>5, <1>6 DEF Led

\* Whoever leaves, the wrong leader included, has no leader and may move.
LEMMA LeaveTeamKeeps ==
  ASSUME Teams, Led, NEW l \in Players, NEW M, M \subseteq Players,
         LeaveTeam(l, M), UNCHANGED online
  PROVE  Teams' /\ Led'
<1> USE DEF Teams
<1>1. /\ frozen' = frozen \ M
      /\ leader' = [p \in Players |-> IF p \in M THEN None ELSE leader[p]]
      /\ team' = [team EXCEPT ![l] = [e \in Entries |-> IF e \in M THEN 0 ELSE @[e]]]
  BY DEF LeaveTeam
<1>2. Teams'
  BY <1>1 DEF LeaveTeam, Walk
<1>3. Named(l)' = Named(l) \ M /\ \A p \in Players \ {l} : Named(p)' = Named(p)
  <2>1. \A e \in Entries : team'[l][e] = IF e \in M THEN 0 ELSE team[l][e]
    BY <1>1
  <2>2. \A p \in Players \ {l} : team'[p] = team[p]
    BY <1>1
  <2> QED
    BY <2>1, <2>2 DEF Named
<1>4. Listed'
  BY <1>1, <1>3 DEF Led, Listed, isJoinedTeam
<1>5. FrozenAreLed'
  BY <1>1 DEF Led, FrozenAreLed, isJoinedTeam
<1>6. TeleportEnds'
  <2>1. \A p \in Players : Named(p)' \subseteq Named(p)
    BY <1>3
  <2> HIDE DEF Teams
  <2> QED
    BY <2>1 DEF Led, TeleportEnds
<1> QED
  BY <1>2, <1>4, <1>5, <1>6 DEF Led

LEMMA LogoutKeeps ==
  ASSUME Teams, Led, NEW p \in Players, Logout(p)
  PROVE  Teams' /\ Led'
<1> USE DEF Teams
<1> DEFINE Gone == Dismissed(p) \cup {p}
<1>1. /\ online' = online \ {p} /\ frozen' = frozen \ Gone
      /\ leader' = [q \in Players |-> IF q \in Gone THEN None ELSE leader[q]]
      /\ team' = [x \in Players |-> IF x = p THEN NoTeam
                                    ELSE IF x \in LeaderOf(p) THEN [team[x] EXCEPT ![p] = 0]
                                    ELSE Forget(p, x)]
      /\ Walk({p} \cup LeaderOf(p) \cup Dismissed(p))
  BY DEF Logout
<1>2. \A x \in Players : Forget(p, x) \in [Entries -> Nat]
  <2>1. \A x \in Players : team[x][Freed] \in Nat /\ team[x][p] \in Nat
    BY DEF Entries
  <2> QED
    BY <2>1 DEF Forget
<1>3. Teams'
  <2>1. team' \in [Players -> [Entries -> Nat]]
    BY <1>1, <1>2 DEF NoTeam
  <2>2. broken' \in BOOLEAN
    BY <1>1 DEF Walk
  <2> QED
    BY <1>1, <2>1, <2>2
<1>4. \A x, e \in Players : team'[x][e] = IF x = p \/ e = p THEN 0 ELSE team[x][e]
  <2> SUFFICES ASSUME NEW x \in Players, NEW e \in Players
               PROVE  team'[x][e] = IF x = p \/ e = p THEN 0 ELSE team[x][e]
    OBVIOUS
  <2>1. e \in Entries /\ e # Freed /\ p \in Entries
    BY PlayersAssumption DEF Entries
  <2>2. CASE x = p
    BY <1>1, <2>1, <2>2 DEF NoTeam
  <2>3. CASE x # p /\ x \in LeaderOf(p)
    <3>1. team[x] \in [Entries -> Nat] /\ team'[x] = [team[x] EXCEPT ![p] = 0]
      BY <1>1, <2>3
    <3> QED
      BY <2>1, <2>3, <3>1
  <2>4. CASE x # p /\ x \notin LeaderOf(p)
    <3>1. team'[x] = Forget(p, x)
      BY <1>1, <2>4
    <3> QED
      BY <2>1, <2>4, <3>1 DEF Forget
  <2> QED
    BY <2>2, <2>3, <2>4
<1>5. Listed'
  <2> SUFFICES ASSUME NEW q \in Players, leader'[q] # None
               PROVE  leader'[q] \in online' /\ team'[leader'[q]][q] > 0
    <3>1. \A q \in Players : q \in Entries
      BY DEF Entries
    <3> QED
      BY <3>1 DEF Listed, isJoinedTeam, Named
  <2>1. q \notin Gone /\ leader'[q] = leader[q] /\ leader[q] \in Players
    BY <1>1
  <2>2. leader[q] \in online /\ q \in Named(leader[q])
    BY <2>1 DEF Led, Listed, isJoinedTeam
  <2>3. leader[q] # p
    BY <2>1, <2>2 DEF Dismissed
  <2>4. q # p /\ team[leader[q]][q] > 0
    BY <2>1, <2>2 DEF Named
  <2>5. team'[leader[q]][q] > 0
    BY <1>4, <2>1, <2>3, <2>4
  <2> QED
    BY <1>1, <2>1, <2>2, <2>3, <2>5
<1>6. FrozenAreLed'
  BY <1>1 DEF Led, FrozenAreLed, isJoinedTeam
<1>7. TeleportEnds'
  <2>1. \A x \in Players : Named(x)' \cap Players \subseteq Named(x)
    BY <1>4 DEF Named
  <2> HIDE DEF Teams
  <2> QED
    BY <2>1 DEF Led, TeleportEnds
<1> QED
  BY <1>3, <1>5, <1>6, <1>7 DEF Led

-----------------------------------------------------------------------------
\* The invariant

LEMMA InvInit == Init => Inv
<1> SUFFICES ASSUME Init PROVE Inv
  OBVIOUS
<1>1. TypeOK
  <2>1. NoTeam \in [Entries -> Nat]
    BY DEF NoTeam
  <2>2. inbox \in [Players -> Seq(Packets)]
    BY DEF Init
  <2>3. team \in [Players -> [Entries -> Nat]]
    BY <2>1 DEF Init
  <2> QED
    BY <2>2, <2>3 DEF Init, TypeOK
<1>2. \A p \in Players : Named(p) = {} /\ ~isJoinedTeam(p)
  BY DEF Init, NoTeam, Named, isJoinedTeam
<1>3. Listed /\ FrozenAreLed /\ TeleportEnds
  BY <1>2 DEF Init, Listed, FrozenAreLed, TeleportEnds
<1>4. Others /\ Connected
  BY DEF Init, Others, Connected
<1> QED
  BY <1>1, <1>3, <1>4 DEF Inv

\* A client only adds to the packets and the requests.
LEMMA ClientKeeps == ASSUME Inv, NEW p \in Players, Client(p) PROVE Inv'
<1>1. TypeOK /\ Listed /\ FrozenAreLed /\ Others /\ Connected /\ TeleportEnds
  BY DEF Inv
<1>2. inbox \in [Players -> Seq(Packets)] /\ asked \in [Players -> SUBSET Players]
  BY <1>1 DEF TypeOK
<1>3. UNCHANGED <<online, leader, team, frozen, broken>>
  BY DEF Client, SendJoin, SendAnswer, SendLeave, SendDoor
<1>4. Listed' /\ FrozenAreLed' /\ TeleportEnds'
  BY <1>1, <1>3 DEF Listed, FrozenAreLed, TeleportEnds, Named, isJoinedTeam
<1> DEFINE Goal == /\ inbox' \in [Players -> Seq(Packets)]
                   /\ asked' \in [Players -> SUBSET Players] /\ Others'
<1>5. ASSUME NEW m \in Packets, m.kind \in {"join", "answer"} => m.who # p, Send(p, m),
             asked' \in [Players -> SUBSET Players], \A l \in Players : l \notin asked'[l]
      PROVE  Goal
  <2>1. inbox' \in [Players -> Seq(Packets)] /\ Others'
    BY <1>1, <1>2, <1>5, SendKeeps
  <2> QED
    BY <1>5, <2>1
<1>6. \A l \in Players : l \notin asked[l]
  BY <1>1 DEF Others
<1> HIDE DEF Goal
<1>7. ASSUME NEW l \in Players, SendJoin(p, l) PROVE Goal
  <2>1. [kind |-> "join", who |-> l] \in Packets
    BY DEF Packets
  <2>2. l # p /\ Send(p, [kind |-> "join", who |-> l]) /\ UNCHANGED asked
    BY <1>7 DEF SendJoin
  <2> QED
    BY <1>2, <1>5, <1>6, <2>1, <2>2
<1>8. ASSUME NEW l \in Players, SendAnswer(p, l) PROVE Goal
  <2>1. /\ l # p /\ asked' \in [Players -> SUBSET Players]
        /\ \A q \in Players : q \notin asked'[q]
    BY <1>2, <1>6, <1>8 DEF SendAnswer
  <2>2. CASE inbox' = inbox
    BY <1>1, <1>2, <2>1, <2>2 DEF Others, Goal
  <2>3. CASE Send(p, [kind |-> "answer", who |-> l])
    <3>1. [kind |-> "answer", who |-> l] \in Packets
      BY DEF Packets
    <3> QED
      BY <1>5, <2>1, <2>3, <3>1
  <2> QED
    BY <1>8, <2>2, <2>3 DEF SendAnswer
<1>9. ASSUME NEW l \in Players, SendLeave(p, l) PROVE Goal
  <2>1. [kind |-> "leave", who |-> l] \in Packets
    BY DEF Packets
  <2>2. Send(p, [kind |-> "leave", who |-> l]) /\ UNCHANGED asked
    BY <1>9 DEF SendLeave
  <2> QED
    BY <1>2, <1>5, <1>6, <2>1, <2>2
<1>10. ASSUME SendDoor(p) PROVE Goal
  <2>1. PICK m \in Packets : m = [kind |-> "door", who |-> p]
    BY DEF Packets
  <2>2. Send(p, m) /\ UNCHANGED asked /\ m.kind = "door"
    BY <1>10, <2>1 DEF SendDoor
  <2> QED
    BY <1>2, <1>5, <1>6, <2>2
<1>11. Goal
  <2>1. \/ \E l \in Players : SendJoin(p, l) \/ SendAnswer(p, l) \/ SendLeave(p, l)
        \/ SendDoor(p)
    BY DEF Client
  <2> QED
    BY <1>7, <1>8, <1>9, <1>10, <2>1 DEF Goal
<1>12. TypeOK'
  BY <1>1, <1>3, <1>11 DEF TypeOK, Goal
<1>13. Connected'
  <2>1. p \in online /\ \A q \in Players \ {p} : inbox'[q] = inbox[q]
    BY <1>2 DEF Client, SendJoin, SendAnswer, SendLeave, SendDoor, Send
  <2> QED
    BY <1>1, <1>3, <2>1 DEF Connected
<1> QED
  BY <1>4, <1>11, <1>12, <1>13 DEF Inv, Goal

\* Every handler, and a player coming or going, keeps the teams in order.
LEMMA ServerKeeps == ASSUME Inv, NEW p \in Players, NEW m \in Packets,
                            Join(p, m) \/ Answer(p, m) \/ Leave(p, m) \/ Door(p, m)
                     PROVE  Inv'
<1>1. TypeOK /\ Teams /\ Led /\ Others /\ Connected
  BY DEF Inv, TypeOK, Teams, Led
<1>2. /\ inbox \in [Players -> Seq(Packets)] /\ asked \in [Players -> SUBSET Players]
      /\ online \subseteq Players /\ m.who \in Players /\ Serve(p, m) /\ UNCHANGED online
  BY <1>1 DEF TypeOK, Packets, Join, Answer, Leave, Door, Ignored
<1>3. inbox' \in [Players -> Seq(Packets)] /\ (m.kind \in {"join", "answer"} => m.who # p)
  BY <1>1, <1>2, ServeKeeps
<1>4. asked' \in [Players -> SUBSET Players] /\ \A l \in Players : l \notin asked'[l]
  <2>1. CASE UNCHANGED asked
    BY <1>1, <1>2, <2>1 DEF Others
  <2>2. CASE m.kind = "join" /\ asked' = [asked EXCEPT ![m.who] = @ \cup {p}]
    BY <1>1, <1>2, <1>3, <2>2 DEF Others
  <2> QED
    BY <2>1, <2>2 DEF Join, Answer, Leave, Door, Ignored
<1>5. Others'
  BY <1>1, <1>2, <1>4, ServeKeeps
<1>6. Teams' /\ Led'
  <2>1. CASE UNCHANGED <<online, leader, team, frozen, broken>>
    BY <1>1, <2>1 DEF Teams, Led, Listed, FrozenAreLed, TeleportEnds, Named, isJoinedTeam
  <2>2. CASE Answer(p, m) /\ ~Ignored
    <3>1. p \in online
      BY <1>1, <1>2 DEF Connected, Serve
    <3> QED
      BY <1>1, <1>2, <1>3, <2>2, <3>1, JoinTeamKeeps DEF Answer
  <2>3. ASSUME NEW l \in Players, NEW M, M \subseteq Players, LeaveTeam(l, M) PROVE Teams' /\ Led'
    BY <1>1, <1>2, <2>3, LeaveTeamKeeps
  <2>4. CASE Door(p, m) /\ ~Ignored
    <3>1. /\ frozen' \subseteq frozen /\ UNCHANGED <<online, leader, team>> /\ broken' \in BOOLEAN
      BY <2>4 DEF Door, Walk
    <3> QED
      BY <1>1, <3>1 DEF Teams, Led, Listed, FrozenAreLed, TeleportEnds, Named, isJoinedTeam
  <2> QED
    BY <1>2, <2>1, <2>2, <2>3, <2>4 DEF Join, Answer, Leave, Door, Ignored, Dismissed
<1>7. Connected'
  BY <1>1, <1>2 DEF Connected, Serve
<1> QED
  BY <1>2, <1>3, <1>4, <1>5, <1>6, <1>7 DEF Inv, TypeOK, Teams, Led

LEMMA InvStep == Inv /\ [Next]_vars => Inv'
<1> SUFFICES ASSUME Inv, [Next]_vars PROVE Inv'
  OBVIOUS
<1>1. CASE UNCHANGED vars
  <2>1. TypeOK' /\ Others' /\ Connected'
    BY <1>1 DEF vars, Inv, TypeOK, Others, Connected
  <2>2. Listed' /\ FrozenAreLed' /\ TeleportEnds'
    BY <1>1 DEF vars, Inv, Listed, FrozenAreLed, TeleportEnds, Named, isJoinedTeam
  <2> QED
    BY <2>1, <2>2 DEF Inv
<1>2. ASSUME NEW p \in Players, Client(p) PROVE Inv'
  BY <1>2, ClientKeeps
<1>3. ASSUME NEW p \in Players, Server(p) PROVE Inv'
  BY <1>3, ServerKeeps DEF Server
<1>4. ASSUME NEW p \in Players, Login(p) PROVE Inv'
  <2>1. /\ UNCHANGED <<leader, team, frozen, asked, inbox, broken>>
        /\ online' = online \cup {p}
    BY <1>4 DEF Login
  <2>2. TypeOK' /\ Others' /\ Connected'
    BY <2>1 DEF Inv, TypeOK, Others, Connected
  <2>3. Listed' /\ FrozenAreLed' /\ TeleportEnds'
    BY <2>1 DEF Inv, Listed, FrozenAreLed, TeleportEnds, Named, isJoinedTeam
  <2> QED
    BY <2>2, <2>3 DEF Inv
<1>5. ASSUME NEW p \in Players, Logout(p) PROVE Inv'
  <2>1. Teams' /\ Led'
    BY <1>5, LogoutKeeps DEF Inv, TypeOK, Teams, Led
  <2>2. /\ online' \subseteq Players /\ online' = online \ {p}
        /\ inbox' = [inbox EXCEPT ![p] = <<>>] /\ asked' = [asked EXCEPT ![p] = {}]
    BY <1>5 DEF Inv, TypeOK, Logout
  <2>3. /\ inbox' \in [Players -> Seq(Packets)] /\ asked' \in [Players -> SUBSET Players]
    BY <2>2 DEF Inv, TypeOK
  <2>4. Others' /\ Connected'
    BY <2>2, <2>3 DEF Inv, TypeOK, Others, Connected
  <2> QED
    BY <2>1, <2>2, <2>3, <2>4 DEF Inv, TypeOK, Teams, Led
<1> QED
  BY <1>1, <1>2, <1>3, <1>4, <1>5 DEF Next

\* The inductive invariant holds throughout, of every client and server step.
THEOREM SpecInv == Spec => []Inv
<1> QED
  BY InvInit, InvStep, PTL DEF Spec

-----------------------------------------------------------------------------
\* How many places a list has

Bounded == \A p \in Players : IsFiniteSet(Places(team[p])) /\ Size(p) <= TeamLimit

LEMMA PlacesOf ==
  ASSUME NEW f, NEW e \in Entries, NEW i
  PROVE  <<e, i>> \in Places(f) <=> i \in 1..f[e]
BY DEF Places

LEMMA PlacesArePairs ==
  ASSUME NEW f \in [Entries -> Nat], NEW x \in Places(f)
  PROVE  \E e \in Entries, i \in Nat : i \in 1..f[e] /\ x = <<e, i>>
BY DEF Places

\* A list with less in it has no more places.
LEMMA FewerPlaces ==
  ASSUME NEW f \in [Entries -> Nat], NEW g \in [Entries -> Nat],
         \A e \in Entries : g[e] <= f[e], IsFiniteSet(Places(f))
  PROVE  IsFiniteSet(Places(g)) /\ Cardinality(Places(g)) <= Cardinality(Places(f))
<1>1. Places(g) \subseteq Places(f)
  <2> SUFFICES ASSUME NEW x \in Places(g) PROVE x \in Places(f)
    OBVIOUS
  <2>1. PICK e \in Entries, i \in Nat : i \in 1..g[e] /\ x = <<e, i>>
    BY PlacesArePairs
  <2>2. i \in 1..f[e]
    BY <2>1
  <2> QED
    BY <2>1, <2>2, PlacesOf
<1> QED
  BY <1>1, FS_Subset

\* A list that names e once more has one place more.
LEMMA OnePlaceMore ==
  ASSUME NEW f \in [Entries -> Nat], NEW e \in Entries, IsFiniteSet(Places(f)),
         NEW g, g = [f EXCEPT ![e] = @ + 1]
  PROVE  IsFiniteSet(Places(g)) /\ Cardinality(Places(g)) = Cardinality(Places(f)) + 1
<1>1. g \in [Entries -> Nat] /\ \A d \in Entries : g[d] = IF d = e THEN f[e] + 1 ELSE f[d]
  OBVIOUS
<1>2. Places(g) = Places(f) \cup {<<e, f[e] + 1>>}
  <2>1. ASSUME NEW x \in Places(g) PROVE x \in Places(f) \cup {<<e, f[e] + 1>>}
    <3> g \in [Entries -> Nat]
      BY <1>1
    <3>1. PICK d \in Entries, i \in Nat : i \in 1..g[d] /\ x = <<d, i>>
      BY <2>1, PlacesArePairs
    <3>2. i \in 1..f[d] \/ (d = e /\ i = f[e] + 1)
      BY <1>1, <3>1
    <3> QED
      BY <3>1, <3>2, PlacesOf
  <2>2. ASSUME NEW x \in Places(f) PROVE x \in Places(g)
    <3>1. PICK d \in Entries, i \in Nat : i \in 1..f[d] /\ x = <<d, i>>
      BY <2>2, PlacesArePairs
    <3>2. i \in 1..g[d]
      BY <1>1, <3>1
    <3> QED
      BY <3>1, <3>2, PlacesOf
  <2>3. <<e, f[e] + 1>> \in Places(g)
    <3>1. f[e] + 1 \in 1..g[e]
      BY <1>1
    <3> QED
      BY <3>1, PlacesOf
  <2> QED
    BY <2>1, <2>2, <2>3
<1>3. <<e, f[e] + 1>> \notin Places(f)
  <2>1. f[e] + 1 \notin 1..f[e]
    OBVIOUS
  <2> QED
    BY <2>1, PlacesOf
<1>4. /\ IsFiniteSet(Places(f) \cup {<<e, f[e] + 1>>})
      /\ Cardinality(Places(f) \cup {<<e, f[e] + 1>>}) = Cardinality(Places(f)) + 1
  BY <1>3, FS_AddElement
<1> QED
  BY <1>2, <1>4

\* The places of a player that is gone become places of Freed: there are as many
\* as before, or fewer.
LEMMA ForgetKeepsPlaces ==
  ASSUME TypeOK, NEW p \in Players, NEW x \in Players, IsFiniteSet(Places(team[x]))
  PROVE  /\ IsFiniteSet(Places(Forget(p, x)))
         /\ Cardinality(Places(Forget(p, x))) <= Cardinality(Places(team[x]))
<1>1. PICK f \in [Entries -> Nat] : f = team[x]
  BY DEF TypeOK
<1>2. /\ p \in Entries /\ Freed \in Entries /\ p # Freed
      /\ f[p] \in Nat /\ f[Freed] \in Nat
  BY PlayersAssumption DEF Entries
<1>3. PICK g \in [Entries -> Nat] :
               /\ g = Forget(p, x)
               /\ \A e \in Entries : g[e] = IF e = p THEN 0
                                            ELSE IF e = Freed THEN f[Freed] + f[p] ELSE f[e]
  <2>1. Forget(p, x) = [e \in Entries |-> IF e = p THEN 0
                                          ELSE IF e = Freed THEN f[Freed] + f[p] ELSE f[e]]
    BY <1>1 DEF Forget
  <2>2. Forget(p, x) \in [Entries -> Nat]
    BY <1>2, <2>1
  <2> QED
    BY <2>1, <2>2
<1> DEFINE Was(y) == IF y[1] = Freed /\ y[2] > f[Freed] THEN <<p, y[2] - f[Freed]>> ELSE y
           was == [y \in Places(g) |-> Was(y)]
<1>4. \A y \in Places(g) : \E e \in Entries, i \in Nat : i \in 1..g[e] /\ y = <<e, i>>
  BY PlacesArePairs
<1>5. ASSUME NEW y \in Places(g) PROVE Was(y) \in Places(f)
  <2>1. PICK e \in Entries, i \in Nat : i \in 1..g[e] /\ y = <<e, i>>
    BY <1>4, <1>5
  <2>2. CASE e = Freed /\ i > f[Freed]
    <3>1. i - f[Freed] \in 1..f[p]
      BY <1>2, <1>3, <2>1, <2>2
    <3>2. Was(y) = <<p, i - f[Freed]>>
      BY <2>1, <2>2
    <3> QED
      BY <1>2, <3>1, <3>2, PlacesOf
  <2>3. CASE ~(e = Freed /\ i > f[Freed])
    <3>1. e # p /\ i \in 1..f[e]
      BY <1>2, <1>3, <2>1, <2>3
    <3>2. Was(y) = <<e, i>>
      BY <2>1, <2>3
    <3> QED
      BY <3>1, <3>2, PlacesOf
  <2> QED
    BY <2>2, <2>3
<1>6. ASSUME NEW y \in Places(g), NEW z \in Places(g), Was(y) = Was(z) PROVE y = z
  <2>1. PICK e \in Entries, i \in Nat : i \in 1..g[e] /\ y = <<e, i>>
    BY <1>4, <1>6
  <2>2. PICK d \in Entries, j \in Nat : j \in 1..g[d] /\ z = <<d, j>>
    BY <1>4, <1>6
  <2>3. e # p /\ d # p /\ i \in Int /\ j \in Int
    BY <1>2, <1>3, <2>1, <2>2
  <2> QED
    BY <1>2, <1>6, <2>1, <2>2, <2>3
<1> HIDE DEF Was
<1>7. was \in Injection(Places(g), Places(f))
  <2>1. was \in [Places(g) -> Places(f)]
    BY <1>5
  <2>2. \A y, z \in Places(g) : was[y] = was[z] => y = z
    BY <1>6
  <2> HIDE DEF was
  <2> QED
    BY <2>1, <2>2, Fun_IsInj
<1> HIDE DEF was
<1> QED
  BY <1>1, <1>3, <1>7, FS_Injection

LEMMA BoundedStep == Inv /\ Bounded /\ [Next]_vars => Bounded'
<1> SUFFICES ASSUME Inv, Bounded, [Next]_vars PROVE Bounded'
  OBVIOUS
<1>1. TypeOK /\ team \in [Players -> [Entries -> Nat]] /\ TypeOK'
  BY InvStep DEF Inv, TypeOK
<1>2. CASE UNCHANGED team
  BY <1>2 DEF Bounded, Size
<1>3. ASSUME NEW x \in Players, NEW f \in [Entries -> Nat], team'[x] = f,
             \A e \in Entries : f[e] <= team[x][e]
      PROVE  IsFiniteSet(Places(team'[x])) /\ Size(x)' <= TeamLimit
  <2>1. team[x] \in [Entries -> Nat] /\ IsFiniteSet(Places(team[x])) /\ Size(x) <= TeamLimit
    BY <1>1 DEF Bounded
  <2>2. IsFiniteSet(Places(f)) /\ Cardinality(Places(f)) <= Cardinality(Places(team[x]))
    BY <1>3, <2>1, FewerPlaces
  <2> QED
    BY <1>3, <2>1, <2>2, FS_CardinalityType, TeamLimitAssumption DEF Size
<1>4. ASSUME NEW l \in Players, NEW m \in Players, JoinTeam(l, m) PROVE Bounded'
  <2>1. team' = [team EXCEPT ![l] = [team[l] EXCEPT ![m] = @ + 1]] /\ Size(l) < TeamLimit
    BY <1>1, <1>4 DEF JoinTeam, CanJoinTeam
  <2> SUFFICES ASSUME NEW x \in Players
               PROVE  IsFiniteSet(Places(team'[x])) /\ Size(x)' <= TeamLimit
    BY DEF Bounded
  <2>2. CASE x = l
    <3>1. /\ team[l] \in [Entries -> Nat] /\ m \in Entries /\ IsFiniteSet(Places(team[l]))
          /\ team'[l] = [team[l] EXCEPT ![m] = @ + 1]
      BY <1>1, <2>1 DEF Entries, Bounded
    <3>2. /\ IsFiniteSet(Places(team'[l]))
          /\ Cardinality(Places(team'[l])) = Cardinality(Places(team[l])) + 1
      BY <3>1, OnePlaceMore
    <3>3. Cardinality(Places(team[l])) \in Nat
      BY <3>1, FS_CardinalityType
    <3> QED
      BY <2>1, <2>2, <3>2, <3>3, TeamLimitAssumption DEF Size
  <2>3. CASE x # l
    BY <1>1, <2>1, <2>3 DEF Bounded, Size
  <2> QED
    BY <2>2, <2>3
<1>5. ASSUME NEW l \in Players, NEW M, LeaveTeam(l, M) PROVE Bounded'
  <2> SUFFICES ASSUME NEW x \in Players
               PROVE  IsFiniteSet(Places(team'[x])) /\ Size(x)' <= TeamLimit
    BY DEF Bounded
  <2>1. team' = [team EXCEPT ![l] = [e \in Entries |-> IF e \in M THEN 0 ELSE @[e]]]
    BY <1>5 DEF LeaveTeam
  <2>2. team'[x] \in [Entries -> Nat]
    BY <1>1 DEF TypeOK
  <2>3. \A e \in Entries : team'[x][e] <= team[x][e]
    BY <1>1, <2>1
  <2> QED
    BY <1>3, <2>2, <2>3
<1>6. ASSUME NEW p \in Players, Logout(p) PROVE Bounded'
  <2> SUFFICES ASSUME NEW x \in Players
               PROVE  IsFiniteSet(Places(team'[x])) /\ Size(x)' <= TeamLimit
    BY DEF Bounded
  <2>1. team'[x] = IF x = p THEN NoTeam
                   ELSE IF x \in LeaderOf(p) THEN [team[x] EXCEPT ![p] = 0] ELSE Forget(p, x)
    BY <1>6 DEF Logout
  <2>2. team'[x] \in [Entries -> Nat] /\ team[x] \in [Entries -> Nat]
    BY <1>1 DEF TypeOK
  <2>3. CASE x = p \/ x \in LeaderOf(p)
    <3>1. \A e \in Entries : team'[x][e] <= team[x][e]
      BY <2>1, <2>2, <2>3 DEF NoTeam
    <3> QED
      BY <1>3, <2>2, <3>1
  <2>4. CASE ~(x = p \/ x \in LeaderOf(p))
    <3>1. IsFiniteSet(Places(team[x])) /\ Size(x) <= TeamLimit
      BY DEF Bounded
    <3>2. /\ IsFiniteSet(Places(team'[x]))
          /\ Cardinality(Places(team'[x])) <= Cardinality(Places(team[x]))
      BY <1>1, <2>1, <2>4, <3>1, ForgetKeepsPlaces
    <3> QED
      BY <3>1, <3>2, FS_CardinalityType, TeamLimitAssumption DEF Size
  <2> QED
    BY <2>3, <2>4
<1>7. ASSUME NEW p \in Players, Client(p) PROVE Bounded'
  BY <1>2, <1>7 DEF Client, SendJoin, SendAnswer, SendLeave, SendDoor
<1>8. ASSUME NEW p \in Players, NEW m \in Packets,
             Join(p, m) \/ Answer(p, m) \/ Leave(p, m) \/ Door(p, m)
      PROVE  Bounded'
  <2>1. m.who \in Players
    BY DEF Packets
  <2> QED
    BY <1>2, <1>4, <1>5, <1>8, <2>1 DEF Join, Answer, Leave, Door, Ignored
<1> QED
  BY <1>2, <1>6, <1>7, <1>8 DEF Next, Server, Login, vars

-----------------------------------------------------------------------------
\* Theorems

\* The variables of the teams keep their types through every handler of
\* GroupHandler.cpp, every door and every logout.
THEOREM TypesAreKept == Spec => []TypeOK
<1>1. Inv => TypeOK
  BY DEF Inv
<1> QED
  BY <1>1, SpecInv, PTL

\* However many players ask, answer, leave and log out in whatever order, a
\* player with m_dontMove set has a leader in the world who takes it along.
THEOREM NobodyIsStuck == Spec => []NobodyStuck
<1>1. Inv => NobodyStuck
  BY DEF Inv, TypeOK, Listed, FrozenAreLed, NobodyStuck
<1> QED
  BY <1>1, SpecInv, PTL

\* The recursion of TeleportTo and SendMapChanged over the m_team lists ends for
\* any number of players: the lists never lead in a circle.
THEOREM TeleportsEnd == Spec => []TeleportEnds
<1>1. Inv => TeleportEnds
  BY DEF Inv
<1> QED
  BY <1>1, SpecInv, PTL

\* CanJoinTeam is asked again when an accepted request is served, so a list never
\* has more places than TeamLimit, however many requests were open at once.
THEOREM TeamsAreSmall == Spec => []TeamsFit
<1>1. Init => Bounded
  <2> SUFFICES ASSUME Init, NEW p \in Players
               PROVE  IsFiniteSet(Places(team[p])) /\ Size(p) <= TeamLimit
    BY DEF Bounded
  <2>1. team[p] = NoTeam
    BY DEF Init
  <2>2. \A e \in Entries : \A i \in 1..NoTeam[e] : FALSE
    BY DEF NoTeam
  <2>3. Places(NoTeam) = {}
    BY <2>2 DEF Places
  <2> QED
    BY <2>1, <2>3, FS_EmptySet, TeamLimitAssumption DEF Size
<1>2. Bounded => TeamsFit
  BY DEF Bounded, TeamsFit
<1> QED
  BY <1>1, <1>2, SpecInv, BoundedStep, PTL DEF Spec

=============================================================================

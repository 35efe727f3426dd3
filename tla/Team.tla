-------------------------------- MODULE Team --------------------------------
(***************************************************************************)
(* Teams of players (game/GroupHandler.cpp and the team part of            *)
(* game/Player.cpp).  A player asks another one to lead it; the other's    *)
(* client is shown the request and answers some time later; members and    *)
(* leaders leave, log out, and walk through doors with the whole team.     *)
(*                                                                         *)
(* The clients act on what they saw last and the server on what holds when *)
(* it comes to a packet: every session has a queue of packets              *)
(* ("inbox"), served in order, one whole handler per step (World::Update   *)
(* calls WorldSession::Update in one thread).                              *)
(*                                                                         *)
(* Abstractions: m_team, a list of pointers, is a bag: the team is the     *)
(* same in any order.  A deleted player an m_team still points to is the   *)
(* entry Freed; the model stops ("broken") where the code looks at one,    *)
(* since anything may happen then.  Battles only make the server ignore    *)
(* requests and answers.  Sub-leaders, positions and maps are left out.    *)
(***************************************************************************)
EXTENDS Integers, Sequences, FiniteSetsExt

CONSTANTS
  Players,     \* accounts, each with its one character
  None,        \* no leader (m_leaderGuid = 0)
  Freed,       \* a pointer to a deleted Player
  TeamLimit,   \* members of a full team: 4
  MaxPackets   \* bound on the packets not yet served

ASSUME PlayersAssumption ==
  IsFiniteSet(Players) /\ None \notin Players /\ Freed \notin Players

ASSUME TeamLimitAssumption == TeamLimit \in Nat \ {0}

VARIABLES
  online,  \* players in the world
  leader,  \* m_leaderGuid
  team,    \* m_team: how often a player's list names an entry
  frozen,  \* players with m_dontMove
  asked,   \* asked[l]: whose requests are shown to l's client
  inbox,   \* packets of each session, in order
  broken   \* a freed player was looked at

vars == <<online, leader, team, frozen, asked, inbox, broken>>

Entries == Players \cup {Freed}
Packets == [kind : {"join", "answer", "leave", "door"}, who : Players]
NoTeam  == [e \in Entries |-> 0]

TypeOK ==
  /\ online \subseteq Players /\ frozen \subseteq Players
  /\ leader \in [Players -> Players \cup {None}]
  /\ team \in [Players -> [Entries -> Nat]]
  /\ asked \in [Players -> SUBSET Players]
  /\ inbox \in [Players -> Seq(Packets)]
  /\ broken \in BOOLEAN

Init ==
  /\ online = {} /\ frozen = {} /\ broken = FALSE
  /\ leader = [p \in Players |-> None]
  /\ team = [p \in Players |-> NoTeam]
  /\ asked = [p \in Players |-> {}]
  /\ inbox = [p \in Players |-> <<>>]

Named(p)        == {e \in Entries : team[p][e] > 0}
Places(list)    == UNION {{e} \X (1..list[e]) : e \in Entries}
Size(p)         == Cardinality(Places(team[p]))
isTeamLeader(p) == Named(p) # {}
isJoinedTeam(p) == leader[p] # None
CanJoinTeam(p)  == ~isJoinedTeam(p) /\ Size(p) < TeamLimit

\* The lists of the players of P are walked.
Walk(P) == broken' = (broken \/ \E p \in P : Freed \in Named(p))

-----------------------------------------------------------------------------
\* The clients

Sent(p)    == Len(inbox[p])
InFlight   == MapThenSumSet(Sent, Players)
Send(p, m) == InFlight < MaxPackets /\ inbox' = [inbox EXCEPT ![p] = Append(@, m)]

\* A player without a team clicks on another one.
SendJoin(p, l) ==
  /\ p # l /\ {p, l} \subseteq online /\ ~isJoinedTeam(p)
  /\ Send(p, [kind |-> "join", who |-> l])
  /\ UNCHANGED <<online, leader, team, frozen, asked, broken>>

\* A player accepts a request on its screen, or the request goes away.
SendAnswer(l, m) ==
  /\ l \in online /\ m \in asked[l]
  /\ asked' = [asked EXCEPT ![l] = @ \ {m}]
  /\ inbox' = inbox \/ Send(l, [kind |-> "answer", who |-> m])
  /\ UNCHANGED <<online, leader, team, frozen, broken>>

\* A member leaves its leader; a leader, who names itself, ends its team.
SendLeave(p, l) ==
  /\ p \in online
  /\ l = leader[p] \/ (l = p /\ isTeamLeader(p))
  /\ Send(p, [kind |-> "leave", who |-> l])
  /\ UNCHANGED <<online, leader, team, frozen, asked, broken>>

SendDoor(p) ==
  /\ p \in online
  /\ Send(p, [kind |-> "door", who |-> p])
  /\ UNCHANGED <<online, leader, team, frozen, asked, broken>>

-----------------------------------------------------------------------------
\* The server

\* Packet m of p is taken from its queue.
Serve(p, m) == inbox[p] # <<>> /\ m = Head(inbox[p]) /\ inbox' = [inbox EXCEPT ![p] = Tail(@)]

\* A packet that one of the checks of its handler turns away.
Ignored == UNCHANGED <<online, leader, team, frozen, asked, broken>>

\* HandleGroupOpcodes 0x01.
Join(p, m) ==
  /\ m.kind = "join" /\ Serve(p, m)
  /\ \/ Ignored
     \/ /\ ~isJoinedTeam(p) /\ m.who \in online /\ ~isJoinedTeam(m.who)
        /\ asked' = [asked EXCEPT ![m.who] = @ \cup {p}]
        /\ UNCHANGED <<online, leader, team, frozen, broken>>

\* Faulty variant: the check of the requester's own team is missing.
MayJoinUnled(l, m) == ~isJoinedTeam(l) /\ m \in online /\ ~isJoinedTeam(m)

\* The checks of 0x03 before the answer is passed on.
MayJoin(l, m) ==
  /\ ~isJoinedTeam(l)
  /\ m \in online /\ ~isJoinedTeam(m) /\ ~isTeamLeader(m)

\* Faulty variant: whether the team is full was asked with the request.
JoinTeamFull(l, m) ==
  /\ frozen' = frozen \cup {m}
  /\ leader' = [leader EXCEPT ![m] = l]
  /\ team' = [team EXCEPT ![l][m] = @ + 1]

\* CanJoinTeam, JoinTeam.
JoinTeam(l, m) ==
  /\ CanJoinTeam(l)
  /\ frozen' = frozen \cup {m}
  /\ leader' = [leader EXCEPT ![m] = l]
  /\ team' = [team EXCEPT ![l][m] = @ + 1]

\* HandleGroupOpcodes 0x03, response 0x01.
Answer(p, m) ==
  /\ m.kind = "answer" /\ Serve(p, m)
  /\ \/ Ignored
     \/ /\ MayJoin(p, m.who) /\ JoinTeam(p, m.who)
        /\ UNCHANGED <<online, asked, broken>>

\* Faulty variant: one entry is taken off the list, there or not.
LeaveTeamOnce(l, M) ==
  /\ frozen' = frozen \ M
  /\ leader' = [p \in Players |-> IF p \in M THEN None ELSE leader[p]]
  /\ team' = [team EXCEPT ![l] = [e \in Entries |-> IF e \in M THEN @[e] - 1 ELSE @[e]]]
  /\ Walk({l} \cup M)

\* LeaveTeam of l for each of M: nobody asks whether l leads them.
LeaveTeam(l, M) ==
  /\ frozen' = frozen \ M
  /\ leader' = [p \in Players |-> IF p \in M THEN None ELSE leader[p]]
  /\ team' = [team EXCEPT ![l] = [e \in Entries |-> IF e \in M THEN 0 ELSE @[e]]]
  /\ Walk({l} \cup M)

\* Faulty variant: the own team is not dismissed.
DismissedNone(p) == {}

\* The members a leader lets go when it ends the team or departs.
Dismissed(p) == Named(p) \cap Players

\* HandleGroupOpcodes 0x04, with DismissTeam.
Leave(p, m) ==
  /\ m.kind = "leave" /\ Serve(p, m)
  /\ \/ isTeamLeader(p) /\ LeaveTeam(p, Dismissed(p))
     \/ ~isTeamLeader(p) /\ m.who \in online /\ LeaveTeam(m.who, {p})
     \/ ~isTeamLeader(p) /\ m.who \notin online /\ UNCHANGED <<leader, team, frozen, broken>>
  /\ UNCHANGED <<online, asked>>

\* The entries a door takes along: TeleportTo and SendMapChanged call themselves
\* for every entry of the lists.
Reached(p) ==
  {e \in Entries : \A S \in SUBSET Entries :
     p \in S /\ (\A q \in S \cap Players : Named(q) \subseteq S) => e \in S}

\* HandlePlayerEnterDoorOpcode.  Leaders stand still from TeleportTo until the end
\* of SendMapChanged.
Door(p, m) ==
  /\ m.kind = "door" /\ Serve(p, m)
  /\ \/ Ignored
     \/ /\ p \notin frozen
        /\ frozen' = frozen \ {q \in Reached(p) \cap Players : isTeamLeader(q)}
        /\ Walk(Reached(p) \cap Players)
        /\ UNCHANGED <<online, leader, team, asked>>

Login(p) ==
  /\ p \notin online
  /\ online' = online \cup {p}
  /\ UNCHANGED <<leader, team, frozen, asked, inbox, broken>>

\* The list of x once p is deleted.
Forget(p, x) ==
  [e \in Entries |-> IF e = p THEN 0
                     ELSE IF e = Freed THEN team[x][Freed] + team[x][p] ELSE team[x][e]]

\* The leader a departing player still finds.
LeaderOf(p) == {leader[p]} \cap online

\* LogoutPlayer and ~Player: LeaveTeam by the leader, then for the own members.
Logout(p) ==
  /\ p \in online
  /\ online' = online \ {p}
  /\ frozen' = frozen \ (Dismissed(p) \cup {p})
  /\ leader' = [q \in Players |-> IF q \in Dismissed(p) \cup {p} THEN None ELSE leader[q]]
  /\ team' = [x \in Players |-> IF x = p THEN NoTeam
                                ELSE IF x \in LeaderOf(p) THEN [team[x] EXCEPT ![p] = 0]
                                ELSE Forget(p, x)]
  /\ asked' = [asked EXCEPT ![p] = {}]
  /\ inbox' = [inbox EXCEPT ![p] = <<>>]
  /\ Walk({p} \cup LeaderOf(p) \cup Dismissed(p))

-----------------------------------------------------------------------------

Client(p) ==
  \/ \E l \in Players : SendJoin(p, l) \/ SendAnswer(p, l) \/ SendLeave(p, l)
  \/ SendDoor(p)

Server(p) == \E m \in Packets : Join(p, m) \/ Answer(p, m) \/ Leave(p, m) \/ Door(p, m)

Next == ~broken /\ \E p \in Players : Client(p) \/ Server(p) \/ Login(p) \/ Logout(p)

Spec == Init /\ [][Next]_vars

-----------------------------------------------------------------------------
\* Properties

\* Nobody is stuck: a player who may not move on its own (m_dontMove) has a
\* leader in the world whose list takes it along, whatever was sent, answered or
\* left in the meantime and whoever logged out.
NobodyStuck ==
  \A p \in frozen : leader[p] \in online /\ p \in Named(leader[p])

\* A team never outgrows the five seats of a battle row, leader included, however
\* many requests were open when its members were accepted.
TeamsFit == \A p \in Players : Size(p) <= TeamLimit

\* TeleportTo and SendMapChanged end: in every set of players there is one whose
\* list names nobody of the set, so the lists cannot lead in a circle.
TeleportEnds ==
  \A S \in SUBSET Players : S # {} => \E p \in S : Named(p) \cap S = {}

\* "Leave from team if joined" (~Player): a player that is gone is in no list.
GoneFromTeams == \A p \in Players : Freed \notin Named(p)

=============================================================================

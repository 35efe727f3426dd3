------------------------------ MODULE SqlProofs ------------------------------
(***************************************************************************)
(* Theorems about Sql, for any statements and any bounds: its typing, that *)
(* no transaction is left open, and that it implements SqlLog.             *)
(*                                                                         *)
(* The parts of the inductive invariant:                                   *)
(*                                                                         *)
(*   TypeOK, NothingLeftOpen  (of Sql)                                     *)
(*   Busy          an operation is in hand between TakeNext and Finish     *)
(*   Single        a statement operation has one statement                 *)
(*   OpenHere      an open transaction has a server that knows it          *)
(*   Halfway       done and left of a transaction make the whole of it     *)
(*   Snapshot      a holder's results so far are the present contents      *)
(*   Emptied       a dead process has no operation in hand                 *)
(*   CallShape     a call that executes has a statement                    *)
(*   Separate      until calls overlap, a thread in a call is the one      *)
(*                 named, alone, and finds what it has written itself      *)
(***************************************************************************)
EXTENDS Sql, SequenceTheorems, TLAPS

Busy == cur # None <=> pc \in {"exec", "trans"}

IsSingle(op) == op.kind = "statement" => Len(op.stmts) = 1

Single ==
  /\ cur # None => IsSingle(cur)
  /\ \A i \in 1..Len(sqlQueue) : IsSingle(sqlQueue[i])

OpenHere == open # None => up /\ life # "dead"

Halfway ==
  pc = "trans" =>
    /\ cur.kind = "transaction"
    /\ up /\ life # "dead" => open # None /\ open \o rest = cur.stmts

Snapshot ==
  /\ \A i \in 1..Len(got) : got[i] \in {Null, db}
  /\ got # <<>> => pc = "exec" /\ cur # None /\ cur.kind = "holder"
  /\ Len(got) <= HolderSize

Emptied == life = "dead" => pc = "head"

CallShape ==
  \A t \in Threads : InCall(t) => (call[t].op = "execute" => call[t].stmt \in Statements)

HalfDone(t) == InCall(t) /\ call[t].op \in {"create", "clear"}

Separate ==
  ~overlapped =>
    \A t \in Threads :
      /\ InCall(t) => tranThread = t /\ \A u \in Threads : InCall(u) => u = t
      /\ HalfDone(t) => writing[t] = None /\ call[t].owner = t
      /\ ~HalfDone(t) => tran[t] = writing[t]

Core == TypeOK /\ NothingLeftOpen /\ Busy /\ Single /\ OpenHere /\ Halfway /\ Snapshot

Inv == Core /\ Emptied /\ CallShape /\ Separate
-----------------------------------------------------------------------------
\* Sequences

LEMMA Single1 == ASSUME NEW S, NEW e \in S PROVE <<e>> \in Seq(S) /\ Len(<<e>>) = 1 /\ <<e>>[1] = e
OBVIOUS

\* A queue with one more operation in front.
LEMMA InFront ==
  ASSUME NEW S, NEW e \in S, NEW q \in Seq(S)
  PROVE  /\ <<e>> \o q \in Seq(S) /\ <<e>> \o q # <<>>
         /\ Head(<<e>> \o q) = e /\ Tail(<<e>> \o q) = q
<1> DEFINE t == <<e>> \o q
<1>1. /\ t \in Seq(S) /\ Len(t) = Len(q) + 1 /\ Len(q) \in Nat
      /\ \A i \in 1..Len(t) : t[i] = IF i = 1 THEN e ELSE q[i - 1]
  BY Single1, ConcatProperties, LenProperties
<1> HIDE DEF t
<1>2. t # <<>> /\ Head(t) = e
  BY <1>1
<1>3. /\ Tail(t) \in Seq(S) /\ Len(Tail(t)) = Len(q)
      /\ \A i \in 1..Len(q) : Tail(t)[i] = t[i + 1]
  BY <1>1, <1>2, HeadTailProperties
<1>4. \A i \in 1..Len(q) : Tail(t)[i] = q[i]
  BY <1>1, <1>3
<1>5. Tail(t) = q
  BY <1>3, <1>4, SeqEqual
<1> QED
  BY <1>1, <1>2, <1>5 DEF t

\* A nonempty queue is its first operation in front of the others.
LEMMA HeadInFront ==
  ASSUME NEW S, NEW q \in Seq(S), q # <<>>
  PROVE  <<Head(q)>> \o Tail(q) = q
<1>1. /\ Head(q) \in S /\ Tail(q) \in Seq(S) /\ Len(Tail(q)) = Len(q) - 1
      /\ \A i \in 1..Len(Tail(q)) : Tail(q)[i] = q[i + 1]
  BY HeadTailProperties
<1> DEFINE t == <<Head(q)>> \o Tail(q)
<1>2. /\ t \in Seq(S) /\ Len(t) = Len(q) /\ Len(q) \in Nat \ {0}
      /\ \A i \in 1..Len(t) : t[i] = IF i = 1 THEN Head(q) ELSE Tail(q)[i - 1]
  BY <1>1, Single1, ConcatProperties, EmptySeq
<1>3. Head(q) = q[1]
  OBVIOUS
<1> HIDE DEF t
<1>4. \A i \in 1..Len(t) : t[i] = q[i]
  BY <1>1, <1>2, <1>3
<1>5. t = q
  BY <1>2, <1>4, SeqEqual
<1> QED
  BY <1>5 DEF t

\* A statement moves from the rest of a transaction to what is done of it.
LEMMA MoveOne ==
  ASSUME NEW S, NEW p \in Seq(S), NEW q \in Seq(S), q # <<>>
  PROVE  Append(p, Head(q)) \o Tail(q) = p \o q
<1>1. Head(q) \in S /\ Tail(q) \in Seq(S) /\ <<Head(q)>> \in Seq(S)
  BY HeadTailProperties
<1>2. Append(p, Head(q)) = p \o <<Head(q)>>
  BY <1>1, AppendIsConcat
<1>3. (p \o <<Head(q)>>) \o Tail(q) = p \o (<<Head(q)>> \o Tail(q))
  BY <1>1, ConcatAssociative
<1> QED
  BY <1>2, <1>3, HeadInFront

\* What is handed over goes to the end, whatever is in hand.
LEMMA AtTheEnd ==
  ASSUME NEW S, NEW p \in Seq(S), NEW q \in Seq(S), NEW e \in S
  PROVE  p \o Append(q, e) = Append(p \o q, e)
<1>1. Append(q, e) = q \o <<e>> /\ <<e>> \in Seq(S) /\ p \o q \in Seq(S)
  BY AppendIsConcat, ConcatProperties
<1>2. Append(p \o q, e) = (p \o q) \o <<e>>
  BY <1>1, AppendIsConcat
<1> QED
  BY <1>1, <1>2, ConcatAssociative

LEMMA LastOfAppend ==
  ASSUME NEW S, NEW q \in Seq(S), NEW e \in S
  PROVE  Append(q, e) # <<>> /\ Append(q, e)[Len(Append(q, e))] = e
BY AppendProperties

-----------------------------------------------------------------------------
\* The invariant: what the shared pieces do

LEMMA InvInit == Init => Inv
<1> SUFFICES ASSUME Init PROVE Inv
  OBVIOUS
<1>1. TypeOK
  <2>1. /\ Nothing \in [Threads -> Calls \cup {None}]
        /\ Nothing \in [Threads -> Seq(Statements) \cup {None, Freed}]
        /\ Nothing \in [Threads -> Seq(Statements) \cup {None}]
        /\ \A t \in Threads : Nothing[t] = None
    BY DEF Nothing
  <2>2. /\ <<>> \in Seq(Operations) /\ <<>> \in Seq(Answers) /\ <<>> \in Seq(Values)
        /\ <<>> \in Seq(Statements)
    OBVIOUS
  <2> QED
    BY <2>1, <2>2 DEF Init, TypeOK
<1>2. NothingLeftOpen /\ Busy /\ Single /\ OpenHere /\ Halfway /\ Emptied
  BY DEF Init, NothingLeftOpen, Busy, Single, OpenHere, Halfway, Emptied
<1>3. Snapshot
  BY SizeAssumption DEF Init, Snapshot
<1>4. CallShape /\ Separate
  BY DEF Init, CallShape, Separate, HalfDone, InCall, Nothing
<1> QED
  BY <1>1, <1>2, <1>3, <1>4 DEF Inv, Core

\* Delay appends an operation that keeps the queue as it should be.
LEMMA DelayKeeps ==
  ASSUME TypeOK, Single, NEW kind \in {"statement", "transaction", "holder"},
         NEW stmts \in Seq(Statements), kind = "statement" => Len(stmts) = 1,
         Delay(kind, stmts), UNCHANGED cur
  PROVE  /\ sqlQueue' \in Seq(Operations) /\ sent' \in Nat
         /\ Single'
<1> DEFINE op == [kind |-> kind, stmts |-> stmts]
<1>1. op \in Operations /\ IsSingle(op)
  BY DEF Operations, IsSingle
<1>2. sqlQueue' = Append(sqlQueue, op) /\ sent' \in Nat
  BY DEF Delay, TypeOK
<1>3. sqlQueue \in Seq(Operations)
  BY DEF TypeOK
<1> HIDE DEF op
<1>4. sqlQueue' \in Seq(Operations) /\ Len(sqlQueue') = Len(sqlQueue) + 1
  BY <1>1, <1>2, <1>3
<1>5. ASSUME NEW i \in 1..Len(sqlQueue') PROVE IsSingle(sqlQueue'[i])
  <2>1. CASE i = Len(sqlQueue) + 1
    BY <1>1, <1>2, <1>3, <2>1
  <2>2. CASE i # Len(sqlQueue) + 1
    <3>1. i \in 1..Len(sqlQueue) /\ sqlQueue'[i] = sqlQueue[i]
      BY <1>1, <1>2, <1>3, <1>4, <2>2
    <3> QED
      BY <3>1 DEF Single
  <2> QED
    BY <2>1, <2>2
<1> QED
  BY <1>2, <1>4, <1>5 DEF Single

\* What the callers do does not touch the delay thread or the server.
LEMMA ThreadLeftAlone ==
  ASSUME Inv, UNCHANGED <<threadVars, serverVars>>, life # "dead", life' # "dead"
  PROVE  NothingLeftOpen' /\ Busy' /\ OpenHere' /\ Halfway' /\ Snapshot' /\ Emptied'
BY DEF Inv, Core, threadVars, serverVars, NothingLeftOpen, Busy, OpenHere, Halfway, Snapshot, Emptied

LEMMA QueueLeftAlone == ASSUME Single, UNCHANGED <<cur, sqlQueue>> PROVE Single'
BY DEF Single, IsSingle

\* And the delay thread leaves the calls alone.
LEMMA CallsLeftAlone ==
  ASSUME CallShape, Separate, UNCHANGED tranVars PROVE CallShape' /\ Separate'
BY DEF CallShape, Separate, HalfDone, InCall, tranVars

LEMMA CallType ==
  ASSUME TypeOK, NEW t \in Threads, InCall(t)
  PROVE  /\ call[t] \in Calls /\ tranThread \in Threads
         /\ tran[tranThread] \in Seq(Statements) \cup {None, Freed}
         /\ writing[t] \in Seq(Statements) \cup {None}
         /\ call \in [Threads -> Calls \cup {None}]
         /\ tran \in [Threads -> Seq(Statements) \cup {None, Freed}]
         /\ writing \in [Threads -> Seq(Statements) \cup {None}]
<1>1. tranThread \in Threads /\ call[t] \in Calls
  BY NoneAssumption DEF TypeOK, InCall
<1> QED
  BY <1>1 DEF TypeOK

\* A call that ends or goes on leaves the other thread's as it is.
LEMMA CallKept ==
  ASSUME TypeOK, CallShape, NEW t \in Threads, InCall(t),
         Return(t) \/ (\E op \in {"create", "clear"} : Leave(t, op))
  PROVE  /\ call' \in [Threads -> Calls \cup {None}] /\ CallShape'
         /\ \A u \in Threads \ {t} : call'[u] = call[u]
         /\ Return(t) => ~InCall(t)'
         /\ ~Return(t) => HalfDone(t)' /\ call'[t].owner = tranThread
         /\ \A u \in Threads : InCall(u)' => InCall(u)
<1>1. call \in [Threads -> Calls \cup {None}] /\ tranThread \in Threads
  BY CallType
<1>2. CASE Return(t)
  BY <1>1, <1>2 DEF Return, CallShape, InCall
<1>3. ASSUME NEW op \in {"create", "clear"}, Leave(t, op)
      PROVE  /\ call' \in [Threads -> Calls \cup {None}] /\ CallShape'
             /\ \A u \in Threads \ {t} : call'[u] = call[u]
             /\ HalfDone(t)' /\ call'[t].owner = tranThread
             /\ \A u \in Threads : InCall(u)' => InCall(u)
  <2> DEFINE c == [op |-> op, stmt |-> None, owner |-> tranThread]
  <2>1. c \in Calls /\ c.op = op /\ c.owner = tranThread
    BY <1>1 DEF Calls
  <2>2. c # None
    BY <2>1, NoneAssumption
  <2>3. call' = [call EXCEPT ![t] = c]
    BY <1>3 DEF Leave
  <2> HIDE DEF c
  <2> QED
    BY <1>1, <2>1, <2>2, <2>3 DEF CallShape, InCall, HalfDone
<1>4. ASSUME NEW op \in {"create", "clear"}, Leave(t, op) PROVE ~Return(t)
  <2>1. HalfDone(t)'
    BY <1>3, <1>4
  <2> QED
    BY <1>1, <2>1 DEF Return, HalfDone, InCall
<1> QED
  BY <1>2, <1>3, <1>4

\* What a call does to its own thread's transaction keeps the threads apart.
LEMMA SeparateKept ==
  ASSUME Inv, NEW t \in Threads, InCall(t),
         Return(t) \/ (\E op \in {"create", "clear"} : Leave(t, op)),
         UNCHANGED <<tranThread, overlapped>>,
         ~overlapped =>
           /\ \A u \in Threads \ {t} : tran'[u] = tran[u] /\ writing'[u] = writing[u]
           /\ Return(t) => tran'[t] = writing'[t]
           /\ ~Return(t) => writing'[t] = None
  PROVE  Separate'
<1> SUFFICES ASSUME ~overlapped PROVE Separate'
  BY DEF Separate
<1>1. /\ call' \in [Threads -> Calls \cup {None}]
      /\ \A u \in Threads \ {t} : call'[u] = call[u]
      /\ Return(t) => ~InCall(t)'
      /\ ~Return(t) => HalfDone(t)' /\ call'[t].owner = tranThread
      /\ \A u \in Threads : InCall(u)' => InCall(u)
  BY CallKept DEF Inv, Core
<1>2. tranThread = t /\ \A u \in Threads : InCall(u) => u = t
  BY DEF Inv, Core, Separate
<1>3. ASSUME NEW u \in Threads, u # t PROVE ~HalfDone(u)' /\ tran'[u] = writing'[u]
  BY <1>1, <1>2, <1>3 DEF Inv, Core, Separate, HalfDone, InCall
<1>4. Return(t) => ~HalfDone(t)'
  BY <1>1 DEF HalfDone, InCall
<1> QED
  BY <1>1, <1>2, <1>3, <1>4 DEF Separate

LEMMA CallKeeps ==
  ASSUME Inv, NEW t \in Threads, NEW op \in {"execute", "begin", "commit", "rollback"},
         NEW s \in Statements \cup {None}, op = "execute" => s \in Statements, Call(t, op, s)
  PROVE  Inv'
<1> USE DEF threadVars, serverVars, boundVars
<1> DEFINE c == [op |-> op, stmt |-> s, owner |-> None]
<1>1. /\ c \in Calls /\ c.op = op /\ c.stmt = s /\ c.op \notin {"create", "clear"}
  BY DEF Calls
<1>2. c # None
  BY <1>1, NoneAssumption
<1>3. /\ call' = [call EXCEPT ![t] = c] /\ tranThread' = t /\ ~InCall(t)
      /\ overlapped' = (overlapped \/ SomeCall)
      /\ UNCHANGED <<life, tran, writing, results, given, sqlQueue, threadVars, serverVars,
                     boundVars>>
      /\ life \in {"serving", "ending"}
  BY DEF Call
<1> HIDE DEF c
<1>4. call \in [Threads -> Calls \cup {None}] /\ overlapped \in BOOLEAN
  BY DEF Inv, Core, TypeOK
<1>5. /\ call' \in [Threads -> Calls \cup {None}] /\ call'[t] = c
      /\ \A u \in Threads \ {t} : call'[u] = call[u]
  BY <1>1, <1>3, <1>4
<1>6. overlapped' \in BOOLEAN
  BY <1>3, <1>4
<1>7. TypeOK'
  BY <1>3, <1>5, <1>6, NoneAssumption DEF Inv, Core, TypeOK
<1>8. Single'
  BY <1>3, QueueLeftAlone DEF Inv, Core
<1>9. CallShape'
  BY <1>1, <1>5 DEF Inv, Core, CallShape, InCall
<1>10. Separate'
  <2> SUFFICES ASSUME ~overlapped' PROVE Separate'
    BY DEF Separate
  <2>1. ~overlapped /\ \A u \in Threads : ~InCall(u)
    BY <1>3 DEF SomeCall
  <2>2. \A u \in Threads : InCall(u)' => u = t
    BY <1>5, <2>1 DEF InCall
  <2>3. \A u \in Threads : ~HalfDone(u)' /\ ~HalfDone(u)
    BY <1>1, <1>5, <2>1, <2>2 DEF InCall, HalfDone
  <2>4. \A u \in Threads : tran'[u] = writing'[u]
    BY <1>3, <2>1, <2>3 DEF Inv, Core, Separate
  <2> QED
    BY <1>3, <2>2, <2>3, <2>4 DEF Separate
<1> QED
  BY <1>3, <1>7, <1>8, <1>9, <1>10, ThreadLeftAlone DEF Inv, Core

LEMMA ExecuteKeeps == ASSUME Inv, NEW t \in Threads, Execute(t) PROVE Inv'
<1> USE DEF threadVars, serverVars, boundVars
<1> DEFINE s == call[t].stmt
           tr == tran[tranThread]
<1>0. TypeOK /\ Single
  BY DEF Inv, Core
<1>1. /\ InCall(t) /\ Return(t) /\ life \in {"serving", "ending"} /\ s \in Statements
      /\ UNCHANGED <<life, tranThread, overlapped, results, given, threadVars, serverVars,
                     asked, crashes>>
      /\ \/ /\ tr = None /\ Delay("statement", <<s>>) /\ UNCHANGED tran
         \/ /\ tr \notin {None, Freed} /\ UNCHANGED <<sqlQueue, sent>>
            /\ tran' = [tran EXCEPT ![tranThread] = Append(tr, s)]
      /\ writing' = IF writing[t] = None THEN writing
                    ELSE [writing EXCEPT ![t] = Append(writing[t], s)]
  BY DEF Execute, At, Inv, Core, CallShape
<1>2. /\ tranThread \in Threads /\ tr \in Seq(Statements) \cup {None, Freed}
      /\ writing[t] \in Seq(Statements) \cup {None}
      /\ tran \in [Threads -> Seq(Statements) \cup {None, Freed}]
      /\ writing \in [Threads -> Seq(Statements) \cup {None}]
  BY <1>0, <1>1, CallType
<1> HIDE DEF s
<1>3. <<s>> \in Seq(Statements) /\ Len(<<s>>) = 1
  BY <1>1
<1>4. /\ sqlQueue' \in Seq(Operations) /\ sent' \in Nat /\ Single'
      /\ tran' \in [Threads -> Seq(Statements) \cup {None, Freed}]
  <2>1. CASE Delay("statement", <<s>>) /\ UNCHANGED tran
    BY <1>0, <1>1, <1>2, <1>3, <2>1, DelayKeeps
  <2>2. CASE tr \notin {None, Freed} /\ UNCHANGED <<sqlQueue, sent>>
             /\ tran' = [tran EXCEPT ![tranThread] = Append(tr, s)]
    <3>1. Append(tr, s) \in Seq(Statements)
      BY <1>1, <1>2, <2>2
    <3> QED
      BY <1>0, <1>1, <1>2, <2>2, <3>1, QueueLeftAlone DEF TypeOK
  <2> QED
    BY <1>1, <2>1, <2>2
<1>5. writing' \in [Threads -> Seq(Statements) \cup {None}]
  <2>1. writing[t] # None => Append(writing[t], s) \in Seq(Statements)
    BY <1>1, <1>2
  <2> QED
    BY <1>1, <1>2, <2>1
<1>6. CallShape' /\ call' \in [Threads -> Calls \cup {None}]
      /\ \A u \in Threads : InCall(u)' => InCall(u)
  BY <1>1, CallKept DEF Inv, Core
<1>7. TypeOK'
  BY <1>0, <1>1, <1>4, <1>5, <1>6 DEF TypeOK, InCall
<1>8. Separate'
  <2>1. ASSUME ~overlapped
        PROVE  /\ \A u \in Threads \ {t} : tran'[u] = tran[u] /\ writing'[u] = writing[u]
               /\ tran'[t] = writing'[t]
    <3>1. tranThread = t
      BY <1>1, <2>1 DEF Inv, Core, Separate
    <3>2. ~HalfDone(t)
      BY DEF Execute, At, HalfDone
    <3>3. tr = writing[t]
      BY <2>1, <3>1, <3>2 DEF Inv, Core, Separate
    <3> QED
      BY <1>1, <1>2, <3>1, <3>3
  <2> QED
    BY <1>1, <2>1, SeparateKept
<1> QED
  BY <1>1, <1>4, <1>6, <1>7, <1>8, ThreadLeftAlone DEF Inv, Core

\* A call that puts another value in place of the transaction it has found
\* and hands nothing over.
LEMMA PutKeeps ==
  ASSUME Inv, NEW t \in Threads, InCall(t), life \in {"serving", "ending"},
         NEW o \in Threads, NEW x \in Seq(Statements) \cup {None, Freed},
         NEW w \in Seq(Statements) \cup {None},
         Return(t) \/ (\E op \in {"create", "clear"} : Leave(t, op)),
         tran' = [tran EXCEPT ![o] = x], writing' = [writing EXCEPT ![t] = w],
         UNCHANGED <<life, tranThread, overlapped, results, given, threadVars, serverVars,
                     asked, crashes>>,
         sqlQueue' \in Seq(Operations), sent' \in Nat, Single',
         ~overlapped => o = t,
         Return(t) => x = w, ~Return(t) => w = None
  PROVE  Inv'
<1> USE DEF threadVars, serverVars, boundVars
<1>1. /\ tran \in [Threads -> Seq(Statements) \cup {None, Freed}]
      /\ writing \in [Threads -> Seq(Statements) \cup {None}]
  BY CallType DEF Inv, Core
<1>2. CallShape' /\ call' \in [Threads -> Calls \cup {None}]
      /\ \A u \in Threads : InCall(u)' => InCall(u)
  BY CallKept DEF Inv, Core
<1>3. TypeOK'
  BY <1>1, <1>2 DEF Inv, Core, TypeOK, InCall
<1>4. Separate'
  BY <1>1, SeparateKept
<1> QED
  BY <1>2, <1>3, <1>4, ThreadLeftAlone DEF Inv, Core

\* What a call finds, and has found, belongs to its thread until calls overlap.
LEMMA FindsItsOwn ==
  ASSUME Inv, NEW t \in Threads, InCall(t), ~overlapped
  PROVE  tranThread = t /\ (~HalfDone(t) => tran[tranThread] = writing[t])
         /\ (HalfDone(t) => call[t].owner = t)
BY DEF Inv, Core, Separate

LEMMA CallStepsKeep == ASSUME Inv, NEW t \in Threads, CallSteps(t) PROVE Inv'
<1> USE DEF threadVars, serverVars, boundVars
<1>0. TypeOK /\ Single
  BY DEF Inv, Core
<1>0a. sqlQueue \in Seq(Operations) /\ sent \in Nat
  BY <1>0 DEF TypeOK
<1>0b. InCall(t) /\ life \in {"serving", "ending"}
  BY DEF CallSteps, Execute, BeginTransaction, NewTransaction, CommitTransaction,
         RollbackTransaction, NoTransaction, ClearTransaction, FindsFreed, At
<1>0c. /\ tranThread \in Threads /\ tran[tranThread] \in Seq(Statements) \cup {None, Freed}
       /\ tran \in [Threads -> Seq(Statements) \cup {None, Freed}]
       /\ writing \in [Threads -> Seq(Statements) \cup {None}]
       /\ call[t] \in Calls
  BY <1>0, <1>0b, CallType
<1>0d. ~overlapped => tranThread = t
  BY <1>0b, FindsItsOwn
<1>0e. <<>> \in Seq(Statements)
  OBVIOUS
<1>0f. ASSUME NEW op \in {"create", "clear"}, Leave(t, op) PROVE ~Return(t)
  <2>1. [op |-> op, stmt |-> None, owner |-> tranThread] \in Calls
    BY <1>0c DEF Calls
  <2> QED
    BY <1>0, <1>0f, <2>1, NoneAssumption DEF Leave, Return, TypeOK
<1>1. CASE Execute(t)
  BY <1>1, ExecuteKeeps
<1>2. CASE BeginTransaction(t)
  <2> DEFINE x == IF tran[tranThread] = None THEN None ELSE Freed
  <2>1. /\ tran' = [tran EXCEPT ![tranThread] = x] /\ writing' = [writing EXCEPT ![t] = None]
        /\ Leave(t, "create")
        /\ UNCHANGED <<life, tranThread, overlapped, results, given, sqlQueue, threadVars,
                       serverVars, boundVars>>
    BY <1>2 DEF BeginTransaction
  <2>2. Single'
    BY <1>0, <2>1, QueueLeftAlone
  <2> QED
    BY <1>0a, <1>0b, <1>0c, <1>0d, <1>0f, <2>1, <2>2, PutKeeps
<1>3. CASE NewTransaction(t)
  <2>1. /\ tran' = [tran EXCEPT ![tranThread] = <<>>] /\ writing' = [writing EXCEPT ![t] = <<>>]
        /\ Return(t)
        /\ UNCHANGED <<life, tranThread, overlapped, results, given, sqlQueue, threadVars,
                       serverVars, boundVars>>
    BY <1>3 DEF NewTransaction
  <2>2. Single'
    BY <1>0, <2>1, QueueLeftAlone
  <2> QED
    BY <1>0a, <1>0b, <1>0c, <1>0d, <1>0e, <2>1, <2>2, PutKeeps
<1>4. CASE CommitTransaction(t)
  <2>1. /\ tran' = [tran EXCEPT ![tranThread] = Freed] /\ writing' = [writing EXCEPT ![t] = None]
        /\ Leave(t, "clear") /\ tran[tranThread] \in Seq(Statements)
        /\ Delay("transaction", tran[tranThread])
        /\ UNCHANGED <<life, tranThread, overlapped, results, given, threadVars, serverVars,
                       asked, crashes>>
    BY <1>0c, <1>4 DEF CommitTransaction
  <2>2. sqlQueue' \in Seq(Operations) /\ sent' \in Nat /\ Single'
    BY <1>0, <2>1, DelayKeeps
  <2> QED
    BY <1>0b, <1>0c, <1>0d, <1>0f, <2>1, <2>2, PutKeeps
<1>5. CASE RollbackTransaction(t)
  <2>1. /\ tran' = [tran EXCEPT ![tranThread] = Freed] /\ writing' = [writing EXCEPT ![t] = None]
        /\ Leave(t, "clear")
        /\ UNCHANGED <<life, tranThread, overlapped, results, given, sqlQueue, threadVars,
                       serverVars, boundVars>>
    BY <1>5 DEF RollbackTransaction
  <2>2. Single'
    BY <1>0, <2>1, QueueLeftAlone
  <2> QED
    BY <1>0a, <1>0b, <1>0c, <1>0d, <1>0f, <2>1, <2>2, PutKeeps
<1>6. CASE NoTransaction(t)
  <2>1. /\ tran[tranThread] = None /\ Return(t) /\ writing' = [writing EXCEPT ![t] = None]
        /\ UNCHANGED <<life, tranThread, tran, overlapped, results, given, sqlQueue, threadVars,
                       serverVars, boundVars>>
    BY <1>6 DEF NoTransaction
  <2>2. tran' = [tran EXCEPT ![tranThread] = None]
    BY <1>0c, <2>1
  <2>3. Single'
    BY <1>0, <2>1, QueueLeftAlone
  <2> QED
    BY <1>0a, <1>0b, <1>0c, <1>0d, <2>1, <2>2, <2>3, PutKeeps
<1>7. CASE ClearTransaction(t)
  <2> DEFINE o == call[t].owner
  <2>1. /\ tran' = [tran EXCEPT ![o] = None] /\ Return(t)
        /\ UNCHANGED <<life, tranThread, writing, overlapped, results, given, sqlQueue,
                       threadVars, serverVars, boundVars>>
        /\ HalfDone(t)
    BY <1>7 DEF ClearTransaction, At, HalfDone
  <2>2. ~overlapped => o = t /\ writing[t] = None
    BY <1>0b, <2>1 DEF Inv, Core, Separate
  <2>3. Single'
    BY <1>0, <2>1, QueueLeftAlone
  <2>4. CallShape' /\ call' \in [Threads -> Calls \cup {None}]
        /\ \A u \in Threads : InCall(u)' => InCall(u)
    BY <1>0b, <2>1, CallKept DEF Inv, Core
  <2>5. tran' \in [Threads -> Seq(Statements) \cup {None, Freed}]
    BY <1>0c, <2>1
  <2>6. TypeOK'
    BY <1>0, <2>1, <2>4, <2>5 DEF TypeOK, InCall
  <2>7. Separate'
    <3> HIDE DEF o
    <3>1. ~overlapped =>
           /\ \A u \in Threads \ {t} : tran'[u] = tran[u] /\ writing'[u] = writing[u]
           /\ tran'[t] = writing'[t]
      BY <1>0c, <2>1, <2>2
    <3> QED
      BY <1>0b, <2>1, <3>1, SeparateKept
  <2> QED
    BY <1>0b, <2>1, <2>3, <2>4, <2>6, <2>7, ThreadLeftAlone DEF Inv, Core
<1>8. CASE FindsFreed(t)
  <2>1. /\ life' = "broken"
        /\ UNCHANGED <<tranVars, results, given, sqlQueue, threadVars, serverVars, boundVars>>
    BY <1>8 DEF FindsFreed
  <2>2. TypeOK'
    BY <1>0, <2>1 DEF TypeOK, tranVars
  <2>3. Single' /\ CallShape' /\ Separate'
    BY <2>1, QueueLeftAlone, CallsLeftAlone DEF Inv, Core
  <2> QED
    BY <1>0b, <2>1, <2>2, <2>3, ThreadLeftAlone DEF Inv, Core
<1> QED
  BY <1>1, <1>2, <1>3, <1>4, <1>5, <1>6, <1>7, <1>8 DEF CallSteps

LEMMA CallersKeep == Inv /\ Callers => Inv'
<1> SUFFICES ASSUME Inv, Callers PROVE Inv'
  OBVIOUS
<1> USE DEF callerVars, threadVars, serverVars, boundVars
<1>0. TypeOK /\ Single
  BY DEF Inv, Core
<1>1. ASSUME NEW t \in Threads, NEW s \in Own(t), Call(t, "execute", s) PROVE Inv'
  <2>1. s \in Statements
    BY DEF Own, Statements
  <2> QED
    BY <1>1, <2>1, CallKeeps
<1>2. ASSUME NEW t \in Threads, NEW op \in {"begin", "commit", "rollback"}, Call(t, op, None)
      PROVE  Inv'
  BY <1>2, CallKeeps
<1>3. ASSUME NEW t \in Threads, CallSteps(t) PROVE Inv'
  BY <1>3, CallStepsKeep
<1>6. CASE DelayQueryHolder
  <2>1. /\ UNCHANGED <<threadVars, serverVars>> /\ life = "serving" /\ life' = life
        /\ Delay("holder", <<>>) /\ UNCHANGED tranVars
    BY <1>6 DEF DelayQueryHolder
  <2>2. <<>> \in Seq(Statements)
    OBVIOUS
  <2>4. sqlQueue' \in Seq(Operations) /\ sent' \in Nat /\ Single'
    BY <1>0, <2>1, <2>2, DelayKeeps
  <2>3. TypeOK'
    BY <1>0, <1>6, <2>4 DEF DelayQueryHolder, TypeOK, tranVars
  <2> QED
    BY <2>1, <2>3, <2>4, ThreadLeftAlone, CallsLeftAlone DEF Inv, Core
<1>7. CASE Callback
  <2>1. results \in Seq(Answers) /\ given \in Seq(Answers) /\ results # <<>>
    BY <1>0, <1>7 DEF Callback, TypeOK
  <2>2. results' \in Seq(Answers) /\ given' \in Seq(Answers)
    BY <1>7, <2>1, HeadTailProperties DEF Callback
  <2>3. TypeOK'
    BY <1>0, <1>7, <2>2 DEF Callback, TypeOK, tranVars
  <2>4. Single' /\ CallShape' /\ Separate'
    BY <1>7, QueueLeftAlone, CallsLeftAlone DEF Inv, Core, Callback
  <2> QED
    BY <1>7, <2>3, <2>4, ThreadLeftAlone DEF Inv, Core, Callback
<1>8. CASE WorldEnds \/ Stop \/ Halted
  <2>1. TypeOK'
    BY <1>0, <1>8 DEF WorldEnds, Stop, Halted, TypeOK, tranVars
  <2>2. Single' /\ CallShape' /\ Separate'
    BY <1>8, QueueLeftAlone, CallsLeftAlone DEF Inv, Core, WorldEnds, Stop, Halted
  <2> QED
    BY <1>8, <2>1, <2>2, ThreadLeftAlone DEF Inv, Core, WorldEnds, Stop, Halted
<1> QED
  BY <1>1, <1>2, <1>3, <1>6, <1>7, <1>8 DEF Callers


-----------------------------------------------------------------------------
\* The invariant: the delay thread

LEMMA TakeNextKeeps == Inv /\ TakeNext => Core'
<1> SUFFICES ASSUME Inv, TakeNext PROVE Core'
  OBVIOUS
<1> USE DEF callerVars, tranVars, serverVars, boundVars
<1>1. CASE sqlQueue = <<>>
  <2>1. pc = "drain" /\ pc' = "head" /\ UNCHANGED <<cur, sqlQueue, rest, got>>
    BY <1>1 DEF TakeNext
  <2>2. TypeOK'
    BY <1>1 DEF Inv, Core, TakeNext, TypeOK
  <2>3. Single'
    BY <2>1, QueueLeftAlone DEF Inv, Core
  <2> QED
    BY <2>1, <2>2, <2>3
    DEF TakeNext, Inv, Core, NothingLeftOpen, Busy, OpenHere, Halfway, Snapshot
<1>2. CASE sqlQueue # <<>>
  <2>1. /\ pc = "drain" /\ pc' = "exec" /\ UNCHANGED <<rest, got>>
        /\ cur' = Head(sqlQueue) /\ sqlQueue' = Tail(sqlQueue)
    BY <1>2 DEF TakeNext
  <2>2. sqlQueue \in Seq(Operations)
    BY DEF Inv, Core, TypeOK
  <2>3. /\ cur' \in Operations /\ sqlQueue' \in Seq(Operations)
        /\ cur' = sqlQueue[1] /\ 1 \in 1..Len(sqlQueue)
        /\ \A i \in 1..Len(sqlQueue') : i + 1 \in 1..Len(sqlQueue) /\ sqlQueue'[i] = sqlQueue[i + 1]
    BY <1>2, <2>1, <2>2
  <2>4. TypeOK'
    BY <2>1, <2>3 DEF Inv, Core, TakeNext, TypeOK
  <2>5. Single'
    BY <2>3 DEF Inv, Core, Single, IsSingle
  <2>6. cur' # None
    BY <2>3, NoneAssumption
  <2>7. got = <<>>
    BY <2>1 DEF Inv, Core, Snapshot
  <2> QED
    BY <2>1, <2>4, <2>5, <2>6, <2>7
    DEF TakeNext, Inv, Core, NothingLeftOpen, Busy, OpenHere, Halfway, Snapshot
<1> QED
  BY <1>1, <1>2

\* A statement, in a transaction or not, leaves typed contents behind.
LEMMA DirectExecuteType ==
  ASSUME TypeOK, NEW s \in Statements, NEW ok, DirectExecute(s, ok)
  PROVE  db' \in Seq(Statements) /\ open' \in Seq(Statements) \cup {None} /\ up' = up
<1>1. db \in Seq(Statements) /\ open \in Seq(Statements) \cup {None}
  BY DEF TypeOK
<1>2. CASE UNCHANGED <<db, open>>
  BY <1>1, <1>2 DEF DirectExecute
<1>3. CASE db' = Append(db, s) /\ UNCHANGED open
  BY <1>1, <1>3 DEF DirectExecute
<1>4. CASE open # None /\ open' = Append(open, s) /\ UNCHANGED db
  BY <1>1, <1>4 DEF DirectExecute
<1> QED
  BY <1>2, <1>3, <1>4 DEF DirectExecute

LEMMA StatementKeeps == Inv /\ StatementExecute => Core'
<1> SUFFICES ASSUME Inv, StatementExecute PROVE Core'
  OBVIOUS
<1> USE DEF callerVars, tranVars, boundVars
<1>1. /\ pc = "exec" /\ cur.kind = "statement" /\ pc' = "drain" /\ cur' = None
      /\ UNCHANGED <<life, sqlQueue, rest, got>>
  BY DEF StatementExecute, Finish
<1>2. PICK ok \in BOOLEAN : DirectExecute(Head(cur.stmts), ok)
  BY DEF StatementExecute
<1>3. cur # None /\ cur \in Operations /\ cur.stmts \in Seq(Statements) /\ Len(cur.stmts) = 1
  BY <1>1 DEF Inv, Core, Busy, TypeOK, Single, IsSingle, Operations
<1>4. Head(cur.stmts) \in Statements
  BY <1>3
<1>5. open = None /\ got = <<>>
  BY <1>1 DEF Inv, Core, NothingLeftOpen, Snapshot
<1>6. TypeOK'
  BY <1>1, <1>2, <1>4, DirectExecuteType DEF Inv, Core, TypeOK, StatementExecute
<1>7. open' = None
  BY <1>2, <1>5 DEF DirectExecute
<1>8. NothingLeftOpen' /\ Busy' /\ OpenHere' /\ Halfway'
  BY <1>1, <1>7 DEF NothingLeftOpen, Busy, OpenHere, Halfway
<1>9. Single' /\ Snapshot'
  BY <1>1, <1>5, SizeAssumption DEF Inv, Core, Single, IsSingle, Snapshot
<1> QED
  BY <1>6, <1>8, <1>9 DEF Inv, Core

LEMMA StartKeeps == Inv /\ TransactionStart => Core'
<1> SUFFICES ASSUME Inv, TransactionStart PROVE Core'
  OBVIOUS
<1> USE DEF callerVars, tranVars, serverVars, boundVars
<1>1. /\ pc = "exec" /\ cur.kind = "transaction" /\ cur # None /\ cur \in Operations
      /\ UNCHANGED <<life, sqlQueue, got, up, db>> /\ life # "dead"
  BY DEF TransactionStart, Inv, Core, Busy, TypeOK, Running
<1>2. open = None /\ got = <<>> /\ cur.stmts \in Seq(Statements)
  BY <1>1 DEF Inv, Core, NothingLeftOpen, Snapshot, Operations
<1>3. CASE cur.stmts = <<>>
  <2>1. pc' = "drain" /\ cur' = None /\ UNCHANGED <<rest, open>>
    BY <1>3 DEF TransactionStart, Finish
  <2>2. TypeOK'
    BY <1>3, <2>1 DEF Inv, Core, TypeOK, TransactionStart
  <2> QED
    BY <1>1, <1>2, <2>1, <2>2, SizeAssumption
    DEF Inv, Core, NothingLeftOpen, Busy, Single, IsSingle, OpenHere, Halfway, Snapshot
<1>4. CASE cur.stmts # <<>>
  <2>1. /\ pc' = "trans" /\ rest' = cur.stmts /\ cur' = cur
        /\ open' = (IF up THEN <<>> ELSE None)
    BY <1>2, <1>4 DEF TransactionStart
  <2>2. <<>> \in Seq(Statements) /\ <<>> \o cur.stmts = cur.stmts
    BY <1>2, ConcatEmptySeq
  <2>3. TypeOK'
    BY <1>1, <1>2, <2>1, <2>2 DEF Inv, Core, TypeOK, TransactionStart
  <2>4. NothingLeftOpen' /\ Busy' /\ OpenHere'
    BY <1>1, <2>1 DEF Inv, Core, NothingLeftOpen, Busy, OpenHere
  <2>5. Halfway'
    BY <1>1, <2>1, <2>2, NoneAssumption DEF Halfway
  <2>6. Single' /\ Snapshot'
    BY <1>1, <1>2, <2>1, SizeAssumption DEF Inv, Core, Single, IsSingle, Snapshot
  <2> QED
    BY <2>3, <2>4, <2>5, <2>6 DEF Inv, Core
<1> QED
  BY <1>3, <1>4

LEMMA TransactionKeeps == Inv /\ TransactionStatement => Core'
<1> SUFFICES ASSUME Inv, TransactionStatement PROVE Core'
  OBVIOUS
<1> USE DEF callerVars, tranVars, boundVars
<1>1. /\ pc = "trans" /\ rest # <<>> /\ rest \in Seq(Statements) /\ life # "dead"
      /\ UNCHANGED <<life, sqlQueue, got>> /\ cur # None /\ got = <<>>
  BY DEF TransactionStatement, Inv, Core, TypeOK, Busy, Snapshot, Running
<1>2. Head(rest) \in Statements /\ Tail(rest) \in Seq(Statements)
  BY <1>1, HeadTailProperties
<1>3. ASSUME DirectExecute(Head(rest), TRUE), rest' = Tail(rest), UNCHANGED <<pc, cur>>
      PROVE  Core'
  <2>1. up /\ up' = up /\ db' \in Seq(Statements) /\ open' \in Seq(Statements) \cup {None}
    BY <1>2, <1>3, DirectExecuteType DEF Inv, Core, DirectExecute
  <2>2. open # None /\ open \in Seq(Statements) /\ open \o rest = cur.stmts
        /\ cur.kind = "transaction"
    BY <1>1, <2>1 DEF Inv, Core, Halfway, TypeOK
  <2>3. open' = Append(open, Head(rest)) /\ db' = db
    BY <1>3, <2>2 DEF DirectExecute
  <2>4. open' \o rest' = cur.stmts
    BY <1>1, <1>3, <2>2, <2>3, MoveOne
  <2>5. open' # None
    BY <1>2, <2>2, <2>3, NoneAssumption
  <2>6. TypeOK'
    BY <1>2, <1>3, <2>1 DEF Inv, Core, TypeOK, TransactionStatement
  <2>7. NothingLeftOpen' /\ Busy' /\ OpenHere'
    BY <1>1, <1>3, <2>1, <2>2 DEF Inv, Core, NothingLeftOpen, Busy, OpenHere
  <2>8. Halfway' /\ Single' /\ Snapshot'
    BY <1>1, <1>3, <2>2, <2>3, <2>4, <2>5 DEF Inv, Core, Halfway, Single, IsSingle, Snapshot
  <2> QED
    BY <2>6, <2>7, <2>8 DEF Inv, Core
<1>4. ASSUME DirectExecute(Head(rest), FALSE), pc' = "rollback", cur' = None, rest' = <<>>
      PROVE  Core'
  <2>1. UNCHANGED <<up, db, open>>
    BY <1>4 DEF DirectExecute
  <2>2. TypeOK'
    BY <1>4, <2>1 DEF Inv, Core, TypeOK, TransactionStatement
  <2>3. NothingLeftOpen' /\ Busy' /\ OpenHere' /\ Halfway'
    BY <1>1, <1>4, <2>1 DEF Inv, Core, NothingLeftOpen, Busy, OpenHere, Halfway
  <2>4. Single' /\ Snapshot'
    BY <1>1, <1>4, <2>1, SizeAssumption DEF Inv, Core, Single, IsSingle, Snapshot
  <2> QED
    BY <2>2, <2>3, <2>4 DEF Inv, Core
<1> QED
  BY <1>3, <1>4 DEF TransactionStatement

LEMMA CommitKeeps == Inv /\ TransactionCommit => Core'
<1> SUFFICES ASSUME Inv, TransactionCommit PROVE Core'
  OBVIOUS
<1> USE DEF callerVars, tranVars, boundVars
<1>1. /\ pc' = "drain" /\ cur' = None /\ open' = None /\ got = <<>>
      /\ UNCHANGED <<life, sqlQueue, got, rest, up>>
  BY DEF TransactionCommit, Finish, Inv, Core, Snapshot
<1>2. db' \in Seq(Statements)
  <2>1. db \in Seq(Statements) /\ open \in Seq(Statements) \cup {None}
    BY DEF Inv, Core, TypeOK
  <2>2. CASE open = None
    BY <2>1, <2>2 DEF TransactionCommit
  <2>3. CASE open # None
    BY <2>1, <2>3, ConcatProperties DEF TransactionCommit
  <2> QED
    BY <2>2, <2>3
<1>3. TypeOK'
  BY <1>1, <1>2 DEF Inv, Core, TypeOK, TransactionCommit
<1>4. NothingLeftOpen' /\ Busy' /\ OpenHere' /\ Halfway'
  BY <1>1 DEF NothingLeftOpen, Busy, OpenHere, Halfway
<1>5. Single' /\ Snapshot'
  BY <1>1, SizeAssumption DEF Inv, Core, Single, IsSingle, Snapshot
<1> QED
  BY <1>3, <1>4, <1>5 DEF Inv, Core

LEMMA QueryKeeps == Inv /\ HolderQuery => Core'
<1> SUFFICES ASSUME Inv, HolderQuery PROVE Core'
  OBVIOUS
<1> USE DEF callerVars, tranVars, serverVars, boundVars
<1>1. /\ pc = "exec" /\ cur # None /\ cur.kind = "holder" /\ Len(got) < HolderSize
      /\ got \in Seq(Values) /\ db \in Seq(Statements)
      /\ UNCHANGED <<life, sqlQueue, pc, cur, rest, up, db, open>>
  BY DEF HolderQuery, Inv, Core, Busy, TypeOK
<1>2. open = None
  BY <1>1 DEF Inv, Core, NothingLeftOpen
<1>3. PICK r \in {Null, db} : got' = Append(got, r)
  BY <1>2 DEF HolderQuery, Visible
<1>4. /\ got' \in Seq(Values) /\ Len(got') = Len(got) + 1
      /\ \A i \in 1..Len(got') : got'[i] = IF i = Len(got) + 1 THEN r ELSE got[i]
  BY <1>1, <1>3 DEF Values
<1>5. TypeOK'
  BY <1>1, <1>4 DEF Inv, Core, TypeOK, HolderQuery
<1>6. Snapshot'
  <2>1. Len(got') <= HolderSize
    BY <1>1, <1>4, SizeAssumption
  <2>2. ASSUME NEW i \in 1..Len(got') PROVE got'[i] \in {Null, db}
    <3>1. CASE i = Len(got) + 1
      BY <1>3, <1>4, <3>1
    <3>2. CASE i # Len(got) + 1
      <4>1. i \in 1..Len(got)
        BY <1>1, <1>4, <3>2
      <4> QED
        BY <1>4, <3>2, <4>1 DEF Inv, Core, Snapshot
    <3> QED
      BY <3>1, <3>2
  <2> QED
    BY <1>1, <2>1, <2>2 DEF Snapshot
<1> QED
  BY <1>1, <1>5, <1>6
  DEF Inv, Core, NothingLeftOpen, Busy, Single, IsSingle, OpenHere, Halfway

LEMMA HolderDoneKeeps == Inv /\ HolderDone => Core'
<1> SUFFICES ASSUME Inv, HolderDone PROVE Core'
  OBVIOUS
<1> USE DEF serverVars, boundVars, tranVars
<1>1. /\ pc = "exec" /\ pc' = "drain" /\ cur' = None /\ got' = <<>>
      /\ results' = Append(results, got) /\ Len(got) = HolderSize
      /\ UNCHANGED <<life, sqlQueue, rest, up, db, open>>
  BY DEF HolderDone, Finish
<1>2. open = None
  BY <1>1 DEF Inv, Core, NothingLeftOpen
<1>3. got \in Answers /\ results \in Seq(Answers)
  BY <1>1 DEF Inv, Core, TypeOK, Answers
<1>4. results' \in Seq(Answers)
  BY <1>1, <1>3
<1>5. TypeOK'
  BY <1>1, <1>4 DEF Inv, Core, TypeOK, HolderDone
<1>6. NothingLeftOpen' /\ Busy' /\ OpenHere' /\ Halfway'
  BY <1>1, <1>2 DEF NothingLeftOpen, Busy, OpenHere, Halfway
<1>7. Single' /\ Snapshot'
  BY <1>1, SizeAssumption DEF Inv, Core, Single, IsSingle, Snapshot
<1> QED
  BY <1>5, <1>6, <1>7 DEF Inv, Core

LEMMA ThreadCore == Inv /\ DelayThread => Core'
<1> SUFFICES ASSUME Inv, DelayThread PROVE Core'
  OBVIOUS
<1> USE DEF callerVars, tranVars, serverVars, boundVars
<1>1. CASE TestRunning \/ Wake
  <2>1. /\ pc \in {"head", "asleep"} /\ pc' \in {"asleep", "over", "drain"}
        /\ UNCHANGED <<life, call, tranThread, tran, writing, overlapped, results, given, sqlQueue, cur, rest, got, up, db, open, sent, asked, crashes>>
    BY <1>1 DEF TestRunning, Wake
  <2>2. TypeOK'
    BY <2>1 DEF Inv, Core, TypeOK
  <2>3. open = None /\ got = <<>> /\ cur = None
    BY <2>1 DEF Inv, Core, NothingLeftOpen, Snapshot, Busy
  <2> QED
    BY <2>1, <2>2, <2>3
    DEF Inv, Core, NothingLeftOpen, Busy, Single, IsSingle, OpenHere, Halfway, Snapshot
<1>2. CASE TransactionRollback
  <2>1. /\ pc = "rollback" /\ pc' = "drain" /\ open' = None
        /\ UNCHANGED <<life, call, tranThread, tran, writing, overlapped, results, given, sqlQueue, cur, rest, got, up, db, sent, asked, crashes>>
    BY <1>2 DEF TransactionRollback
  <2>2. TypeOK'
    BY <2>1 DEF Inv, Core, TypeOK
  <2> QED
    BY <2>1, <2>2
    DEF Inv, Core, NothingLeftOpen, Busy, Single, IsSingle, OpenHere, Halfway, Snapshot
<1> QED
  BY <1>1, <1>2, TakeNextKeeps, StatementKeeps, StartKeeps, TransactionKeeps,
     CommitKeeps, QueryKeeps, HolderDoneKeeps DEF DelayThread

LEMMA ThreadKeeps == Inv /\ DelayThread => Inv'
<1> SUFFICES ASSUME Inv, DelayThread PROVE Inv'
  OBVIOUS
<1>1. life # "dead" /\ life' = life /\ UNCHANGED tranVars
  BY DEF DelayThread, TestRunning, Wake, TakeNext, StatementExecute, TransactionStart,
         TransactionStatement, TransactionCommit, TransactionRollback, HolderQuery,
         HolderDone, Running, callerVars
<1>2. CallShape' /\ Separate'
  BY <1>1, CallsLeftAlone DEF Inv
<1> QED
  BY <1>1, <1>2, ThreadCore DEF Inv, Emptied

\* The server and the machine fail.
LEMMA FailuresKeep == Inv /\ (ConnectionLost \/ Crash \/ Restart) => Inv'
<1> SUFFICES ASSUME Inv, ConnectionLost \/ Crash \/ Restart PROVE Inv'
  OBVIOUS
<1> USE DEF callerVars, threadVars, serverVars, boundVars
<1>1. CASE ConnectionLost
  <2>1. /\ open' = None /\ up' = FALSE
        /\ UNCHANGED <<life, tranVars, results, given, sqlQueue, pc, cur, rest, got, db, sent,
                       asked, crashes>>
    BY <1>1 DEF ConnectionLost
  <2>2. TypeOK'
    BY <2>1 DEF Inv, Core, TypeOK, tranVars
  <2>3. CallShape' /\ Separate'
    BY <2>1, CallsLeftAlone DEF Inv
  <2> QED
    BY <2>1, <2>2, <2>3
    DEF Inv, Core, NothingLeftOpen, Busy, Single, IsSingle, OpenHere, Halfway, Snapshot, Emptied
<1>2. CASE Crash
  <2>1. /\ <<>> \in Seq(Operations) /\ <<>> \in Seq(Answers) /\ <<>> \in Seq(Values)
        /\ <<>> \in Seq(Statements)
    OBVIOUS
  <2>2. crashes' \in Nat
    BY <1>2 DEF Inv, Core, TypeOK, Crash
  <2>3. TypeOK'
    BY <1>2, <2>1, <2>2 DEF Inv, Core, TypeOK, Crash, Nothing
  <2>4. CallShape' /\ Separate'
    BY <1>2 DEF Crash, CallShape, Separate, HalfDone, InCall, Nothing
  <2> QED
    BY <1>2, <2>3, <2>4, SizeAssumption
    DEF Crash, Inv, Core, NothingLeftOpen, Busy, Single, IsSingle, OpenHere, Halfway, Snapshot,
        Emptied
<1>3. CASE Restart
  <2>1. /\ life = "dead" /\ life' = "serving" /\ up' = TRUE
        /\ UNCHANGED <<tranVars, results, given, sqlQueue, pc, cur, rest, got, db, open, sent,
                       asked, crashes>>
    BY <1>3 DEF Restart
  <2>2. TypeOK'
    BY <2>1 DEF Inv, Core, TypeOK, tranVars
  <2>3. open = None /\ pc = "head"
    BY <2>1 DEF Inv, Core, OpenHere, Emptied
  <2>4. CallShape' /\ Separate'
    BY <2>1, CallsLeftAlone DEF Inv
  <2> QED
    BY <2>1, <2>2, <2>3, <2>4
    DEF Inv, Core, NothingLeftOpen, Busy, Single, IsSingle, OpenHere, Halfway, Snapshot, Emptied
<1> QED
  BY <1>1, <1>2, <1>3

LEMMA InvStep == Inv /\ [Next]_vars => Inv'
<1>1. ASSUME Inv, UNCHANGED vars PROVE Inv'
  <2>1. UNCHANGED <<life, results, given, sqlQueue, pc, cur, rest, got, up, db, open, sent, asked, crashes>>
        /\ UNCHANGED tranVars
    BY <1>1 DEF vars, callerVars, threadVars, serverVars, boundVars
  <2>2. TypeOK'
    BY <1>1, <2>1 DEF Inv, Core, TypeOK, tranVars
  <2>3. CallShape' /\ Separate'
    BY <1>1, <2>1, CallsLeftAlone DEF Inv
  <2> QED
    BY <1>1, <2>1, <2>2, <2>3
    DEF Inv, Core, NothingLeftOpen, Busy, Single, IsSingle, OpenHere, Halfway, Snapshot, Emptied
<1> QED
  BY <1>1, CallersKeep, ThreadKeeps, FailuresKeep DEF Next

\* The inductive invariant holds throughout, whatever is handed over and
\* whatever fails.
THEOREM SpecInv == Spec => []Inv
<1> QED
  BY InvInit, InvStep, PTL DEF Spec

-----------------------------------------------------------------------------
\* Sql implements SqlLog

\* An operation in hand is the oldest one that is undecided.
LEMMA InHand ==
  ASSUME Inv, cur # None
  PROVE  /\ cur \in Operations
         /\ Undecided # <<>> /\ Head(Undecided) = cur /\ Tail(Undecided) = sqlQueue
<1>1. cur \in Operations /\ sqlQueue \in Seq(Operations) /\ Undecided = <<cur>> \o sqlQueue
  BY DEF Inv, Core, TypeOK, Undecided
<1> QED
  BY <1>1, InFront

\* With none in hand, the queue is all there is.
LEMMA NoneInHand == ASSUME Inv, cur = None PROVE Undecided = sqlQueue
<1>1. sqlQueue \in Seq(Operations) /\ Undecided = <<>> \o sqlQueue
  BY DEF Inv, Core, TypeOK, Undecided
<1> QED
  BY <1>1, ConcatEmptySeq

\* What is handed over is the last of what is undecided.
LEMMA DelaySends ==
  ASSUME Inv, NEW kind \in {"statement", "transaction", "holder"},
         NEW stmts \in Seq(Statements), Delay(kind, stmts), UNCHANGED cur
  PROVE  /\ Log!HandOver(kind, stmts)
         /\ Undecided' # <<>> /\ Undecided'[Len(Undecided')] \in Log!Operations
         /\ Undecided' = Append(Undecided, Undecided'[Len(Undecided')])
<1> DEFINE op == [kind |-> kind, stmts |-> stmts]
           hand == IF cur = None THEN <<>> ELSE <<cur>>
<1>1. op \in Operations /\ op \in Log!Operations
  BY DEF Operations, Log!Operations
<1>2. sqlQueue \in Seq(Operations) /\ cur \in Operations \cup {None}
  BY DEF Inv, Core, TypeOK
<1>3. hand \in Seq(Operations)
  BY <1>2
<1>4. sqlQueue' = Append(sqlQueue, op)
  BY DEF Delay
<1>5. Undecided = hand \o sqlQueue /\ Undecided' = hand \o sqlQueue'
  BY DEF Undecided
<1>9. ASSUME Undecided' = Append(Undecided, op) PROVE Log!HandOver(kind, stmts)
  BY <1>9 DEF Log!HandOver
<1> HIDE DEF op, hand
<1>6. Undecided' = Append(Undecided, op)
  BY <1>1, <1>2, <1>3, <1>4, <1>5, AtTheEnd
<1>7. Undecided \in Seq(Operations)
  BY <1>2, <1>3, <1>5, ConcatProperties
<1>8. Undecided' # <<>> /\ Undecided'[Len(Undecided')] = op
  BY <1>1, <1>6, <1>7, LastOfAppend
<1> QED
  BY <1>1, <1>6, <1>8, <1>9

LEMMA NothingHandedOver == ASSUME UNCHANGED <<cur, sqlQueue>> PROVE UNCHANGED Undecided
BY DEF Undecided

\* A call that writes: apart from the other thread, a statement of its own or
\* one more of its transaction; mixed, anything.
LEMMA ExecuteImplements == ASSUME Inv, NEW t \in Threads, Execute(t) PROVE Log!Next
<1> USE DEF threadVars, serverVars
<1> DEFINE s == call[t].stmt
           tr == tran[tranThread]
<1>1. /\ InCall(t) /\ ~HalfDone(t) /\ s \in Statements
      /\ UNCHANGED <<overlapped, results, given, cur, db>>
      /\ \/ tr = None /\ Delay("statement", <<s>>)
         \/ tr # None /\ UNCHANGED sqlQueue
      /\ writing' = IF writing[t] = None THEN writing
                    ELSE [writing EXCEPT ![t] = Append(writing[t], s)]
  BY DEF Execute, At, HalfDone, Inv, CallShape
<1>2. <<s>> \in Seq(Statements)
  BY <1>1
<1>3. CASE tr = None
  <2>1. Delay("statement", <<s>>)
    BY <1>1, <1>3
  <2>2. /\ Log!HandOver("statement", <<s>>)
        /\ Undecided' # <<>> /\ Undecided'[Len(Undecided')] \in Log!Operations
        /\ Undecided' = Append(Undecided, Undecided'[Len(Undecided')])
    BY <1>1, <1>2, <2>1, DelaySends
  <2>3. CASE overlapped
    BY <1>1, <2>2, <2>3 DEF Log!Next, Log!Mixed
  <2>4. CASE ~overlapped
    <3>1. writing[t] = None
      BY <1>1, <1>3, <2>4, FindsItsOwn
    <3>2. Log!Write(t, s)
      BY <1>1, <2>2, <3>1 DEF Log!Write
    <3> QED
      BY <1>1, <3>2 DEF Log!Next
  <2> QED
    BY <2>3, <2>4
<1>4. CASE tr # None
  <2>1. UNCHANGED Undecided
    BY <1>1, <1>4, NothingHandedOver
  <2>2. CASE overlapped
    BY <1>1, <2>1, <2>2 DEF Log!Next, Log!Mixed
  <2>3. CASE ~overlapped
    <3>1. writing[t] # None
      BY <1>1, <1>4, <2>3, FindsItsOwn
    <3>2. Log!Collect(t, s)
      BY <1>1, <2>1, <3>1 DEF Log!Collect
    <3> QED
      BY <1>1, <3>2 DEF Log!Next
  <2> QED
    BY <2>2, <2>3
<1> QED
  BY <1>3, <1>4

LEMMA CommitImplements == ASSUME Inv, NEW t \in Threads, CommitTransaction(t) PROVE Log!Next
<1> USE DEF threadVars, serverVars
<1>1. /\ InCall(t) /\ ~HalfDone(t) /\ tran[tranThread] \notin {None, Freed}
      /\ Delay("transaction", tran[tranThread]) /\ writing' = [writing EXCEPT ![t] = None]
      /\ UNCHANGED <<overlapped, results, given, cur, db>>
  BY DEF CommitTransaction, At, HalfDone
<1>2. tran[tranThread] \in Seq(Statements)
  BY <1>1, CallType DEF Inv, Core
<1>3. /\ Log!HandOver("transaction", tran[tranThread])
      /\ Undecided' # <<>> /\ Undecided'[Len(Undecided')] \in Log!Operations
      /\ Undecided' = Append(Undecided, Undecided'[Len(Undecided')])
  BY <1>1, <1>2, DelaySends
<1>4. CASE overlapped
  BY <1>1, <1>3, <1>4 DEF Log!Next, Log!Mixed
<1>5. CASE ~overlapped
  <2>1. tran[tranThread] = writing[t]
    BY <1>1, <1>5, FindsItsOwn
  <2>2. Log!Commit(t)
    BY <1>1, <1>3, <2>1 DEF Log!Commit
  <2> QED
    BY <2>2 DEF Log!Next
<1> QED
  BY <1>4, <1>5

LEMMA CallersImplement == Inv /\ Callers => [Log!Next]_Log!logVars
<1> SUFFICES ASSUME Inv, Callers PROVE [Log!Next]_Log!logVars
  OBVIOUS
<1> USE DEF callerVars, threadVars, serverVars, boundVars
<1>1. ASSUME UNCHANGED <<writing, overlapped, cur, sqlQueue, db, results, given>>
      PROVE  UNCHANGED Log!logVars
  BY <1>1 DEF Log!logVars, Undecided
<1>2. ASSUME NEW t \in Threads, NEW op, NEW s, Call(t, op, s) PROVE [Log!Next]_Log!logVars
  <2>1. /\ overlapped' = (overlapped \/ SomeCall)
        /\ UNCHANGED <<writing, cur, sqlQueue, db, results, given>>
    BY <1>2 DEF Call
  <2>2. CASE overlapped' = overlapped
    BY <1>1, <2>1, <2>2
  <2>3. CASE overlapped' # overlapped
    <3>1. overlapped' = TRUE
      BY <2>1, <2>3 DEF Inv, Core, TypeOK
    <3> QED
      BY <2>1, <3>1, NothingHandedOver DEF Log!Next, Log!Overlap
  <2> QED
    BY <2>2, <2>3
<1>3. ASSUME NEW t \in Threads, CallSteps(t) PROVE [Log!Next]_Log!logVars
  <2>1. CASE Execute(t)
    BY <2>1, ExecuteImplements
  <2>2. CASE BeginTransaction(t) \/ RollbackTransaction(t) \/ NoTransaction(t)
    <3>1. /\ writing' = [writing EXCEPT ![t] = None]
          /\ UNCHANGED <<overlapped, cur, sqlQueue, db, results, given>>
      BY <2>2 DEF BeginTransaction, RollbackTransaction, NoTransaction
    <3>2. Log!Drop(t)
      BY <3>1, NothingHandedOver DEF Log!Drop
    <3> QED
      BY <3>2 DEF Log!Next
  <2>3. CASE NewTransaction(t)
    <3>1. /\ writing' = [writing EXCEPT ![t] = <<>>]
          /\ UNCHANGED <<overlapped, cur, sqlQueue, db, results, given>>
      BY <2>3 DEF NewTransaction
    <3>2. Log!Begin(t)
      BY <3>1, NothingHandedOver DEF Log!Begin
    <3> QED
      BY <3>2 DEF Log!Next
  <2>4. CASE CommitTransaction(t)
    BY <2>4, CommitImplements
  <2>5. CASE ClearTransaction(t) \/ FindsFreed(t)
    BY <1>1, <2>5 DEF ClearTransaction, FindsFreed, tranVars
  <2> QED
    BY <1>3, <2>1, <2>2, <2>3, <2>4, <2>5 DEF CallSteps
<1>6. CASE DelayQueryHolder
  <2>1. <<>> \in Seq(Statements) /\ Delay("holder", <<>>)
    BY <1>6 DEF DelayQueryHolder
  <2>2. Log!HandOver("holder", <<>>)
    BY <1>6, <2>1, DelaySends DEF DelayQueryHolder
  <2> QED
    BY <1>6, <2>2 DEF DelayQueryHolder, Log!Next, Log!Ask, tranVars
<1>7. CASE Callback
  <2>1. UNCHANGED <<cur, sqlQueue, db>>
    BY <1>7 DEF Callback
  <2>2. UNCHANGED Undecided
    BY <2>1 DEF Undecided
  <2> QED
    BY <1>7, <2>1, <2>2 DEF Callback, Log!Next, Log!Give, tranVars
<1>8. CASE WorldEnds \/ Stop \/ Halted
  BY <1>1, <1>8 DEF WorldEnds, Stop, Halted, tranVars
<1> QED
  BY <1>2, <1>3, <1>6, <1>7, <1>8 DEF Callers

\* Finish takes the operation in hand out of what is undecided.
LEMMA FinishDecides ==
  ASSUME Inv, cur # None, cur' = None, UNCHANGED sqlQueue
  PROVE  Undecided # <<>> /\ Head(Undecided) = cur /\ Undecided' = Tail(Undecided)
<1>1. sqlQueue \in Seq(Operations)
  BY DEF Inv, Core, TypeOK
<1>2. Undecided' = <<>> \o sqlQueue
  BY DEF Undecided
<1> QED
  BY <1>1, <1>2, InHand, ConcatEmptySeq

LEMMA ThreadImplements == Inv /\ DelayThread => [Log!Next]_Log!logVars
<1> SUFFICES ASSUME Inv, DelayThread PROVE [Log!Next]_Log!logVars
  OBVIOUS
<1> USE DEF callerVars, tranVars, serverVars, boundVars
<1>1. ASSUME UNCHANGED <<writing, overlapped, cur, sqlQueue, db, results, given>> PROVE UNCHANGED Log!logVars
  BY <1>1 DEF Log!logVars, Undecided
<1>2. ASSUME cur # None, cur' = None, cur.kind # "holder", db' \in {db, db \o cur.stmts},
             UNCHANGED <<writing, overlapped, sqlQueue, results, given>>
      PROVE  Log!Next
  BY <1>2, FinishDecides DEF Log!Next, Log!TakeEffect
<1>3. CASE TestRunning \/ Wake \/ TransactionRollback \/ HolderQuery
  BY <1>1, <1>3 DEF TestRunning, Wake, TransactionRollback, HolderQuery
<1>4. CASE TakeNext
  <2>1. pc = "drain" /\ UNCHANGED <<writing, overlapped, db, results, given>>
    BY <1>4 DEF TakeNext
  <2>2. cur = None /\ sqlQueue \in Seq(Operations)
    BY <2>1 DEF Inv, Core, Busy, TypeOK
  <2>3. CASE sqlQueue = <<>>
    BY <1>1, <1>4, <2>1, <2>3 DEF TakeNext
  <2>4. CASE sqlQueue # <<>>
    <3>1. cur' = Head(sqlQueue) /\ sqlQueue' = Tail(sqlQueue)
      BY <1>4, <2>4 DEF TakeNext
    <3>2. cur' \in Operations /\ cur' # None
      BY <2>2, <2>4, <3>1, NoneAssumption
    <3>3. Undecided' = <<Head(sqlQueue)>> \o Tail(sqlQueue)
      BY <3>1, <3>2 DEF Undecided
    <3>4. Undecided' = Undecided
      BY <2>2, <2>4, <3>3, HeadInFront, NoneInHand
    <3> QED
      BY <2>1, <3>4 DEF Log!logVars
  <2> QED
    BY <2>3, <2>4
<1>5. CASE StatementExecute
  <2>1. /\ pc = "exec" /\ cur.kind = "statement" /\ cur' = None
        /\ UNCHANGED <<writing, overlapped, sqlQueue, results, given>>
    BY <1>5 DEF StatementExecute, Finish
  <2>2. PICK ok \in BOOLEAN : DirectExecute(Head(cur.stmts), ok)
    BY <1>5 DEF StatementExecute
  <2>3. /\ cur # None /\ cur.stmts \in Seq(Statements) /\ Len(cur.stmts) = 1
        /\ db \in Seq(Statements) /\ open = None
    BY <2>1 DEF Inv, Core, Busy, TypeOK, Operations, Single, IsSingle, NothingLeftOpen
  <2>4. Head(cur.stmts) \in Statements /\ cur.stmts = <<Head(cur.stmts)>>
    BY <2>3
  <2>5. Append(db, Head(cur.stmts)) = db \o cur.stmts
    BY <2>3, <2>4, AppendIsConcat
  <2>6. db' \in {db, db \o cur.stmts}
    BY <2>2, <2>3, <2>5 DEF DirectExecute
  <2> QED
    BY <1>2, <2>1, <2>3, <2>6
<1>6. CASE TransactionStart
  <2>1. pc = "exec" /\ cur.kind = "transaction" /\ UNCHANGED <<writing, overlapped, sqlQueue, results, given, db>>
    BY <1>6 DEF TransactionStart
  <2>2. cur # None
    BY <2>1 DEF Inv, Core, Busy
  <2> QED
    BY <1>1, <1>2, <1>6, <2>1, <2>2 DEF TransactionStart, Finish
<1>7. CASE TransactionStatement
  <2>1. /\ pc = "trans" /\ rest # <<>> /\ life # "dead"
        /\ UNCHANGED <<writing, overlapped, sqlQueue, results, given>>
    BY <1>7 DEF TransactionStatement, Running
  <2>2. cur # None /\ cur.kind = "transaction"
    BY <2>1 DEF Inv, Core, Busy, Halfway
  <2>3. ASSUME DirectExecute(Head(rest), TRUE), UNCHANGED cur PROVE UNCHANGED Log!logVars
    <3>1. up
      BY <2>3 DEF DirectExecute
    <3>2. open # None
      BY <2>1, <3>1 DEF Inv, Core, Halfway
    <3>3. db' = db
      BY <2>3, <3>2 DEF DirectExecute
    <3> QED
      BY <1>1, <2>1, <2>3, <3>3
  <2>4. ASSUME DirectExecute(Head(rest), FALSE), cur' = None PROVE Log!Next
    <3>1. db' = db
      BY <2>4 DEF DirectExecute
    <3> QED
      BY <1>2, <2>1, <2>2, <2>4, <3>1
  <2> QED
    BY <1>7, <2>3, <2>4 DEF TransactionStatement
<1>8. CASE TransactionCommit
  <2>1. /\ pc = "trans" /\ rest = <<>> /\ cur' = None /\ life # "dead"
        /\ db' = (IF open = None THEN db ELSE db \o open)
        /\ UNCHANGED <<writing, overlapped, sqlQueue, results, given>>
    BY <1>8 DEF TransactionCommit, Finish, Running
  <2>2. cur # None /\ cur.kind = "transaction"
    BY <2>1 DEF Inv, Core, Busy, Halfway
  <2>3. ASSUME open # None PROVE open = cur.stmts
    <3>1. open \in Seq(Statements) /\ open \o rest = cur.stmts
      BY <2>1, <2>3 DEF Inv, Core, OpenHere, Halfway, TypeOK
    <3> QED
      BY <2>1, <3>1, ConcatEmptySeq
  <2> QED
    BY <1>2, <2>1, <2>2, <2>3
<1>9. CASE HolderDone
  <2>1. /\ pc = "exec" /\ cur.kind = "holder" /\ Len(got) = HolderSize /\ cur' = None
        /\ results' = Append(results, got) /\ UNCHANGED <<writing, overlapped, sqlQueue, given, db>>
    BY <1>9 DEF HolderDone, Finish
  <2>2. cur # None
    BY <2>1 DEF Inv, Core, Busy
  <2>3. got \in [1..HolderSize -> Values] /\ \A i \in 1..HolderSize : got[i] \in {Null, db}
    BY <2>1 DEF Inv, Core, TypeOK, Snapshot
  <2> DEFINE failed == {i \in 1..HolderSize : got[i] = Null}
  <2>4. got = [i \in 1..HolderSize |-> IF i \in failed THEN Null ELSE db]
    BY <2>3
  <2>5. failed \in SUBSET (1..HolderSize)
    OBVIOUS
  <2> HIDE DEF failed
  <2>6. Log!Read
    BY <2>1, <2>2, <2>4, <2>5, FinishDecides DEF Log!Read
  <2> QED
    BY <2>6 DEF Log!Next
<1> QED
  BY <1>3, <1>4, <1>5, <1>6, <1>7, <1>8, <1>9 DEF DelayThread

LEMMA FailuresImplement ==
  Inv /\ (ConnectionLost \/ Crash \/ Restart) => [Log!Next]_Log!logVars
<1> SUFFICES ASSUME Inv, ConnectionLost \/ Crash \/ Restart PROVE [Log!Next]_Log!logVars
  OBVIOUS
<1> USE DEF callerVars, tranVars, threadVars, serverVars, boundVars
<1>1. CASE ConnectionLost \/ Restart
  <2>1. UNCHANGED <<writing, overlapped, cur, sqlQueue, db, results, given>>
    BY <1>1 DEF ConnectionLost, Restart
  <2> QED
    BY <2>1 DEF Log!logVars, Undecided
<1>2. CASE Crash
  <2>1. /\ cur' = None /\ sqlQueue' = <<>> /\ results' = <<>> /\ UNCHANGED <<given, db>>
        /\ writing' = Log!Nothing /\ overlapped' = FALSE
    BY <1>2 DEF Crash, Nothing, Log!Nothing
  <2>2. Undecided' = <<>> \o <<>>
    BY <2>1 DEF Undecided
  <2>3. Undecided' = <<>>
    BY <2>2, ConcatEmptySeq, EmptySeq
  <2> QED
    BY <2>1, <2>3 DEF Log!Next, Log!Lose
<1> QED
  BY <1>1, <1>2

LEMMA StepImplements == Inv /\ [Next]_vars => [Log!Next]_Log!logVars
<1>1. ASSUME UNCHANGED vars PROVE UNCHANGED Log!logVars
  BY <1>1 DEF vars, callerVars, tranVars, threadVars, serverVars, Log!logVars, Undecided
<1> QED
  BY <1>1, CallersImplement, ThreadImplements, FailuresImplement DEF Next

-----------------------------------------------------------------------------
\* Theorems

\* The queues, the operation in hand and the server's contents keep their
\* types, in SqlDelayThread::run and every operation it executes.
THEOREM TypesAreKept == Spec => []TypeOK
<1>1. Inv => TypeOK
  BY DEF Inv, Core
<1> QED
  BY <1>1, SpecInv, PTL

\* SqlTransaction::Execute leaves no transaction open behind it, whichever
\* statement fails and whenever the connection drops.
THEOREM NothingIsLeftOpen == Spec => []NothingLeftOpen
<1>1. Inv => NothingLeftOpen
  BY DEF Inv, Core
<1> QED
  BY <1>1, SpecInv, PTL

\* The delay thread, its queue and the connection together are one sequence
\* of whole operations, through failed statements, lost connections and
\* crashes, for any number of operations of any length; and until two calls
\* overlap, what each thread commits is what it has written itself.
THEOREM ImplementsLog == Spec => Implements
<1>1. Init => Log!Init
  <2>1. ASSUME Init PROVE Undecided = <<>>
    <3>1. Undecided = <<>> \o <<>>
      BY <2>1 DEF Init, Undecided
    <3> QED
      BY <3>1, ConcatEmptySeq, EmptySeq
  <2> QED
    BY <2>1 DEF Init, Log!Init, Nothing, Log!Nothing
<1> QED
  BY <1>1, SpecInv, StepImplements, PTL DEF Spec, Implements, Log!Spec

=============================================================================

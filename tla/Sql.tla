-------------------------------- MODULE Sql ---------------------------------
(***************************************************************************)
(* Asynchronous SQL (shared/Database): one Database object, the delay      *)
(* thread that executes what is queued, and its MySQL connection.          *)
(*                                                                         *)
(* The world thread runs handlers, which collect transactions, write       *)
(* single statements and ask query holders whose callbacks it runs later.  *)
(* The main thread runs the sockets: it writes single statements and, when *)
(* it removes a session, saves the player in a transaction of its own.     *)
(* When the world thread has ended it writes a last statement and halts    *)
(* the delay thread (Master::Run).                                         *)
(*                                                                         *)
(* Execute, BeginTransaction, CommitTransaction and RollbackTransaction    *)
(* name the calling thread in tranThread, one member without a lock, and   *)
(* then look up that thread's transaction by reading it: a call is several *)
(* steps here, and the two threads' steps interleave.  (Two insertions     *)
(* into the map at a time may also end the process: Crash.)                *)
(*                                                                         *)
(* A statement is a member of a small set and the contents of the database *)
(* are the statements in effect, in order.  The server (external, InnoDB   *)
(* tables) rejects a statement now and then, and may lose the connection   *)
(* or the process at any time; it then rolls back what is open.  Nothing   *)
(* reconnects.  Synchronous queries change nothing here.                   *)
(***************************************************************************)
EXTENDS Integers, Sequences

CONSTANTS
  World, Main, \* the threads that call
  WorldStatements, MainStatements,  \* statements that write, of each thread
  None,        \* no transaction, no operation, nobody (a NULL pointer)
  Freed,       \* a transaction that is deleted, or the delay thread's to delete
  Null,        \* the result of a query that failed
  HolderSize,  \* queries in a SqlQueryHolder: MAX_PLAYER_LOGIN_QUERY
  MaxUnits,    \* bound on the operations handed over
  MaxLen,      \* bound on the statements of a transaction
  MaxTroubles  \* bound on what goes wrong: deaths of the process, and in the
               \* present process a lost connection and overlapping calls

Threads == {World, Main}
Statements == WorldStatements \cup MainStatements
Own(t) == IF t = World THEN WorldStatements ELSE MainStatements

Operations ==
  [kind : {"statement", "transaction", "holder"}, stmts : Seq(Statements)]

\* A call in progress.  At "create" and "clear" it is half done, with the
\* transaction of "owner".
Calls ==
  [op : {"execute", "begin", "commit", "rollback", "create", "clear"},
   stmt : Statements \cup {None}, owner : Threads \cup {None}]

ASSUME ThreadAssumption == World # Main
ASSUME NoneAssumption ==
  None \notin Seq(Statements) \cup Operations \cup Calls \cup Threads \cup {Freed}
ASSUME FreedAssumption == Freed \notin Seq(Statements)
ASSUME SizeAssumption == HolderSize \in Nat

VARIABLES
  life,      \* the process: "serving", "ending" (the world thread has ended),
             \* "stopped" (m_running is false), "halted", "dead"; "broken"
             \* when the program has used a freed transaction
  call,      \* the call each thread is in
  tranThread,\* tranThread
  tran,      \* m_tranQueues
  writing,   \* what a thread has written since its BeginTransaction
  overlapped,\* observer: two threads were in a call at a time
  sqlQueue,  \* m_sqlQueue of the delay thread
  results,   \* m_resultQueue: answers for the world thread
  given,     \* answers given to callbacks
  pc,        \* where the delay thread is in SqlDelayThread::run
  cur,       \* the operation it is executing
  rest,      \* what is left of a transaction's m_queue
  got,       \* results of a holder's queries so far
  up,        \* the connection works
  db,        \* statements in effect
  open,      \* statements of the transaction open on the connection
  sent,      \* counts the operations handed over
  asked,     \* counts the holders among them
  crashes    \* counts the crashes

tranVars   == <<call, tranThread, tran, writing, overlapped>>
callerVars == <<life, tranVars, results, given>>
threadVars == <<pc, cur, rest, got>>
serverVars == <<up, db, open>>
boundVars  == <<sent, asked, crashes>>
vars == <<callerVars, sqlQueue, threadVars, serverVars, boundVars>>

Values  == Seq(Statements) \cup {Null}
Answers == [1..HolderSize -> Values]

TypeOK ==
  /\ life \in {"serving", "ending", "stopped", "halted", "dead", "broken"}
  /\ call \in [Threads -> Calls \cup {None}]
  /\ tranThread \in Threads \cup {None}
  /\ \A t \in Threads : call[t] # None => tranThread # None
  /\ tran \in [Threads -> Seq(Statements) \cup {None, Freed}]
  /\ writing \in [Threads -> Seq(Statements) \cup {None}]
  /\ overlapped \in BOOLEAN
  /\ sqlQueue \in Seq(Operations)
  /\ results \in Seq(Answers) /\ given \in Seq(Answers)
  /\ pc \in {"head", "asleep", "drain", "exec", "trans", "rollback", "over"}
  /\ cur \in Operations \cup {None}
  /\ rest \in Seq(Statements) /\ got \in Seq(Values)
  /\ up \in BOOLEAN /\ db \in Seq(Statements) /\ open \in Seq(Statements) \cup {None}
  /\ sent \in Nat /\ asked \in Nat /\ crashes \in Nat

Nothing == [t \in Threads |-> None]

Init ==
  /\ life = "serving" /\ call = Nothing /\ tranThread = None /\ tran = Nothing
  /\ writing = Nothing /\ overlapped = FALSE /\ sqlQueue = <<>>
  /\ results = <<>> /\ given = <<>>
  /\ pc = "head" /\ cur = None /\ rest = <<>> /\ got = <<>>
  /\ up = TRUE /\ db = <<>> /\ open = None
  /\ sent = 0 /\ asked = 0 /\ crashes = 0

-----------------------------------------------------------------------------
\* The callers

\* SqlDelayThread::Delay
Delay(kind, stmts) ==
  /\ sent' = sent + 1
  /\ sqlQueue' = Append(sqlQueue, [kind |-> kind, stmts |-> stmts])

\* The bounds.  They leave room for what the calls in progress hand over.
RoomFor(n) == sent + n < MaxUnits

TroubleMayCome ==
  crashes + (IF up THEN 0 ELSE 1) + (IF overlapped THEN 1 ELSE 0) < MaxTroubles

InCall(t) == call[t] # None
SomeCall  == \E t \in Threads : InCall(t)

\* A thread enters a call, and names itself.  The main thread collects
\* transactions while it serves sockets only; nobody begins a transaction in
\* another.
Call(t, op, s) ==
  /\ ~InCall(t)
  /\ life = "serving" \/ (life = "ending" /\ t = Main /\ op = "execute")
  /\ op = "begin" => writing[t] = None
  /\ op = "execute" => \A u \in Threads : tran[u] \notin {None, Freed} => Len(tran[u]) < MaxLen
  /\ SomeCall => TroubleMayCome
  /\ RoomFor(IF SomeCall THEN 1 ELSE 0)
  /\ tranThread' = t
  /\ call' = [call EXCEPT ![t] = [op |-> op, stmt |-> s, owner |-> None]]
  /\ overlapped' = (overlapped \/ SomeCall)
  /\ UNCHANGED <<life, tran, writing, results, given, sqlQueue, threadVars, serverVars,
                 boundVars>>

Return(t) == call' = [call EXCEPT ![t] = None]

\* The call of t looks up the transaction of the thread named last ...
At(t, op) == InCall(t) /\ life \in {"serving", "ending"} /\ call[t].op = op

\* ... and is half done with it.
Leave(t, op) ==
  call' = [call EXCEPT ![t] = [op |-> op, stmt |-> None, owner |-> tranThread]]

\* It finds one that is no longer there: undefined behaviour, where the
\* model ends.
FindsFreed(t) ==
  /\ At(t, "execute") \/ At(t, "begin") \/ At(t, "commit") \/ At(t, "rollback")
  /\ tran[tranThread] = Freed
  /\ life' = "broken"
  /\ UNCHANGED <<tranVars, results, given, sqlQueue, threadVars, serverVars, boundVars>>

\* DelayExecute in a transaction, or a statement of its own.
Execute(t) ==
  /\ At(t, "execute") /\ Return(t)
  /\ \/ /\ tran[tranThread] = None
        /\ Delay("statement", <<call[t].stmt>>) /\ UNCHANGED tran
     \/ /\ tran[tranThread] \notin {None, Freed}
        /\ tran' = [tran EXCEPT ![tranThread] = Append(@, call[t].stmt)]
        /\ UNCHANGED <<sqlQueue, sent>>
  /\ writing' = IF writing[t] = None THEN writing
                ELSE [writing EXCEPT ![t] = Append(@, call[t].stmt)]
  /\ UNCHANGED <<life, tranThread, overlapped, results, given, threadVars, serverVars,
                 asked, crashes>>

\* A transaction that is there is deleted (no transaction in a transaction),
BeginTransaction(t) ==
  /\ At(t, "begin") /\ Leave(t, "create")
  /\ tran[tranThread] # Freed
  /\ tran' = [tran EXCEPT ![tranThread] = IF @ = None THEN None ELSE Freed]
  /\ writing' = [writing EXCEPT ![t] = None]
  /\ UNCHANGED <<life, tranThread, overlapped, results, given, sqlQueue, threadVars,
                 serverVars, boundVars>>

\* and a new one made, for the thread named by then.
NewTransaction(t) ==
  /\ At(t, "create") /\ Return(t)
  /\ tran' = [tran EXCEPT ![tranThread] = <<>>]
  /\ writing' = [writing EXCEPT ![t] = <<>>]
  /\ UNCHANGED <<life, tranThread, overlapped, results, given, sqlQueue, threadVars,
                 serverVars, boundVars>>

\* Faulty variant: the queue is not asked for.
CommitUnopened(t) ==
  /\ At(t, "commit") /\ Leave(t, "clear")
  /\ Delay("transaction", tran[tranThread])
  /\ tran' = [tran EXCEPT ![tranThread] = Freed]
  /\ writing' = [writing EXCEPT ![t] = None]
  /\ UNCHANGED <<life, tranThread, overlapped, results, given, threadVars, serverVars,
                 asked, crashes>>

\* The transaction is the delay thread's from here on.
CommitTransaction(t) ==
  /\ At(t, "commit") /\ Leave(t, "clear")
  /\ tran[tranThread] \notin {None, Freed}
  /\ Delay("transaction", tran[tranThread])
  /\ tran' = [tran EXCEPT ![tranThread] = Freed]
  /\ writing' = [writing EXCEPT ![t] = None]
  /\ UNCHANGED <<life, tranThread, overlapped, results, given, threadVars, serverVars,
                 asked, crashes>>

RollbackTransaction(t) ==
  /\ At(t, "rollback") /\ Leave(t, "clear")
  /\ tran[tranThread] \notin {None, Freed}
  /\ tran' = [tran EXCEPT ![tranThread] = Freed]
  /\ writing' = [writing EXCEPT ![t] = None]
  /\ UNCHANGED <<life, tranThread, overlapped, results, given, sqlQueue, threadVars,
                 serverVars, boundVars>>

\* Nothing to commit or to roll back.
NoTransaction(t) ==
  /\ At(t, "commit") \/ At(t, "rollback")
  /\ tran[tranThread] = None /\ Return(t)
  /\ writing' = [writing EXCEPT ![t] = None]
  /\ UNCHANGED <<life, tranThread, tran, overlapped, results, given, sqlQueue, threadVars,
                 serverVars, boundVars>>

\* i->second = NULL
ClearTransaction(t) ==
  /\ At(t, "clear") /\ Return(t)
  /\ tran' = [tran EXCEPT ![call[t].owner] = None]
  /\ UNCHANGED <<life, tranThread, writing, overlapped, results, given, sqlQueue,
                 threadVars, serverVars, boundVars>>

DelayQueryHolder ==
  /\ life = "serving" /\ ~InCall(World)
  /\ RoomFor(IF InCall(Main) THEN 1 ELSE 0)
  /\ Delay("holder", <<>>) /\ asked' = asked + 1
  /\ UNCHANGED <<callerVars, threadVars, serverVars, crashes>>

\* Faulty variant: the callback of a holder with a failed query is not run.
CallbackIfFound ==
  /\ life = "serving" /\ results # <<>>
  /\ \A i \in 1..HolderSize : Head(results)[i] # Null
  /\ results' = Tail(results) /\ given' = Append(given, Head(results))
  /\ UNCHANGED <<life, tranVars, sqlQueue, threadVars, serverVars, boundVars>>

\* One round of SqlResultQueue::Update.  It moves an answer from one queue
\* to another, so that it does not matter which call it falls into.
Callback ==
  /\ life = "serving" /\ results # <<>>
  /\ results' = Tail(results) /\ given' = Append(given, Head(results))
  /\ UNCHANGED <<life, tranVars, sqlQueue, threadVars, serverVars, boundVars>>

\* The main thread has left its loop and waited for the world thread: no
\* handler is running.
WorldEnds ==
  /\ life = "serving"
  /\ \A t \in Threads : ~InCall(t) /\ writing[t] = None
  /\ life' = "ending"
  /\ UNCHANGED <<tranVars, results, given, sqlQueue, threadVars, serverVars, boundVars>>

\* HaltDelayThread: Stop, and then wait for the thread.
Stop ==
  /\ life = "ending" /\ ~InCall(Main)
  /\ life' = "stopped"
  /\ UNCHANGED <<tranVars, results, given, sqlQueue, threadVars, serverVars, boundVars>>

Halted ==
  /\ life = "stopped" /\ pc = "over"
  /\ life' = "halted"
  /\ UNCHANGED <<tranVars, results, given, sqlQueue, threadVars, serverVars, boundVars>>

-----------------------------------------------------------------------------
\* The delay thread

Running == life \notin {"dead", "halted", "broken"}

\* while (m_running)
TestRunning ==
  /\ Running /\ pc = "head"
  /\ pc' = IF life = "stopped" THEN "over" ELSE "asleep"
  /\ UNCHANGED <<callerVars, sqlQueue, cur, rest, got, serverVars, boundVars>>

Wake ==
  /\ Running /\ pc = "asleep"
  /\ pc' = "drain"
  /\ UNCHANGED <<callerVars, sqlQueue, cur, rest, got, serverVars, boundVars>>

\* while (!m_sqlQueue.empty()) ... next()
TakeNext ==
  /\ Running /\ pc = "drain"
  /\ \/ /\ sqlQueue = <<>>
        /\ pc' = "head" /\ UNCHANGED <<cur, sqlQueue>>
     \/ /\ sqlQueue # <<>>
        /\ pc' = "exec" /\ cur' = Head(sqlQueue) /\ sqlQueue' = Tail(sqlQueue)
  /\ UNCHANGED <<callerVars, rest, got, serverVars, boundVars>>

\* The operation is executed and deleted.
Finish == pc' = "drain" /\ cur' = None

\* DirectExecute of statement s succeeds, or not.
DirectExecute(s, ok) ==
  /\ ok => up
  /\ \/ ~ok /\ UNCHANGED <<db, open>>
     \/ ok /\ open = None /\ db' = Append(db, s) /\ UNCHANGED open
     \/ ok /\ open # None /\ open' = Append(open, s) /\ UNCHANGED db
  /\ UNCHANGED up

\* Faulty variant: a statement that fails is tried again.
StatementAgain ==
  /\ Running /\ pc = "exec" /\ cur.kind = "statement"
  /\ \E ok \in BOOLEAN :
       /\ DirectExecute(Head(cur.stmts), ok)
       /\ IF ok THEN Finish ELSE UNCHANGED <<pc, cur>>
  /\ UNCHANGED <<callerVars, sqlQueue, rest, got, boundVars>>

\* SqlStatement::Execute
StatementExecute ==
  /\ Running /\ pc = "exec" /\ cur.kind = "statement"
  /\ \E ok \in BOOLEAN : DirectExecute(Head(cur.stmts), ok)
  /\ Finish
  /\ UNCHANGED <<callerVars, sqlQueue, rest, got, boundVars>>

\* SqlTransaction::Execute, up to START TRANSACTION (which fails with the
\* connection only).
TransactionStart ==
  /\ Running /\ pc = "exec" /\ cur.kind = "transaction"
  /\ \/ /\ cur.stmts = <<>>
        /\ Finish /\ UNCHANGED <<rest, serverVars>>
     \/ /\ cur.stmts # <<>>
        /\ pc' = "trans" /\ rest' = cur.stmts
        /\ open' = (IF up THEN <<>> ELSE open) /\ UNCHANGED <<cur, up, db>>
  /\ UNCHANGED <<callerVars, sqlQueue, got, boundVars>>

\* Faulty variant: statements that fail are passed over.
TransactionGoesOn ==
  /\ Running /\ pc = "trans" /\ rest # <<>>
  /\ \E ok \in BOOLEAN : DirectExecute(Head(rest), ok)
  /\ rest' = Tail(rest)
  /\ UNCHANGED <<callerVars, sqlQueue, pc, cur, got, boundVars>>

\* Its loop: the first statement that fails ends it.
TransactionStatement ==
  /\ Running /\ pc = "trans" /\ rest # <<>>
  /\ \/ /\ DirectExecute(Head(rest), TRUE)
        /\ rest' = Tail(rest) /\ UNCHANGED <<pc, cur>>
     \/ /\ DirectExecute(Head(rest), FALSE)
        /\ pc' = "rollback" /\ cur' = None /\ rest' = <<>>
  /\ UNCHANGED <<callerVars, sqlQueue, got, boundVars>>

TransactionCommit ==
  /\ Running /\ pc = "trans" /\ rest = <<>>
  /\ Finish
  /\ open' = None
  /\ db' = IF open = None THEN db ELSE db \o open
  /\ UNCHANGED <<callerVars, sqlQueue, rest, got, up, boundVars>>

\* Faulty variant: the failure is logged only.
TransactionStaysOpen ==
  /\ Running /\ pc = "rollback"
  /\ pc' = "drain"
  /\ UNCHANGED <<callerVars, sqlQueue, cur, rest, got, serverVars, boundVars>>

TransactionRollback ==
  /\ Running /\ pc = "rollback"
  /\ pc' = "drain" /\ open' = None
  /\ UNCHANGED <<callerVars, sqlQueue, cur, rest, got, up, db, boundVars>>

\* What a query on the connection reads: its own open transaction, too.
Visible == IF open = None THEN db ELSE db \o open

\* SqlQueryHolderEx::Execute, one query
HolderQuery ==
  /\ Running /\ pc = "exec" /\ cur.kind = "holder" /\ Len(got) < HolderSize
  /\ \E r \in {Null} \cup (IF up THEN {Visible} ELSE {}) : got' = Append(got, r)
  /\ UNCHANGED <<callerVars, sqlQueue, pc, cur, rest, serverVars, boundVars>>

\* The callback goes to the world thread's queue.
HolderDone ==
  /\ Running /\ pc = "exec" /\ cur.kind = "holder" /\ Len(got) = HolderSize
  /\ results' = Append(results, got)
  /\ got' = <<>> /\ Finish
  /\ UNCHANGED <<life, tranVars, given, sqlQueue, rest, serverVars, boundVars>>

DelayThread ==
  \/ TestRunning \/ Wake \/ TakeNext
  \/ StatementExecute
  \/ TransactionStart \/ TransactionStatement \/ TransactionCommit \/ TransactionRollback
  \/ HolderQuery \/ HolderDone

-----------------------------------------------------------------------------
\* The server and the machine

ConnectionLost ==
  /\ Running /\ up /\ TroubleMayCome
  /\ up' = FALSE /\ open' = None
  /\ UNCHANGED <<callerVars, sqlQueue, threadVars, db, boundVars>>

\* The process dies, with all it has in memory.
Crash ==
  /\ Running /\ TroubleMayCome
  /\ life' = "dead" /\ call' = Nothing /\ tranThread' = None /\ tran' = Nothing
  /\ writing' = Nothing /\ overlapped' = FALSE /\ sqlQueue' = <<>> /\ results' = <<>>
  /\ pc' = "head" /\ cur' = None /\ rest' = <<>> /\ got' = <<>>
  /\ open' = None /\ up' = FALSE /\ crashes' = crashes + 1
  /\ UNCHANGED <<given, db, sent, asked>>

\* A new process connects to the database the old one left.
Restart ==
  /\ life = "dead"
  /\ life' = "serving" /\ up' = TRUE
  /\ UNCHANGED <<tranVars, results, given, sqlQueue, threadVars, db, open, boundVars>>

-----------------------------------------------------------------------------
CallSteps(t) ==
  \/ Execute(t) \/ BeginTransaction(t) \/ NewTransaction(t)
  \/ CommitTransaction(t) \/ RollbackTransaction(t) \/ NoTransaction(t)
  \/ ClearTransaction(t) \/ FindsFreed(t)

Callers ==
  \/ \E t \in Threads :
       \/ \E s \in Own(t) : Call(t, "execute", s)
       \/ \E op \in {"begin", "commit", "rollback"} : Call(t, op, None)
       \/ CallSteps(t)
  \/ DelayQueryHolder \/ Callback
  \/ WorldEnds \/ Stop \/ Halted

Next == Callers \/ DelayThread \/ ConnectionLost \/ Crash \/ Restart

Spec == Init /\ [][Next]_vars

\* The delay thread is scheduled, and the world thread empties its result
\* queue in every World::Update.
FairSpec == Spec /\ WF_vars(DelayThread) /\ WF_vars(Callback)

-----------------------------------------------------------------------------
\* Properties

\* Seen from its callers, the database is one sequence of whole operations.
\* What a thread writes between BeginTransaction and CommitTransaction is one
\* operation whatever the other thread calls in between, until two calls
\* overlap (tranThread names the last caller only).  Even after that nothing
\* overtakes, what is handed over (SqlTransaction::Execute) is in effect as a
\* whole or not at all even if a statement fails, the connection drops or the
\* process dies half-way, and all queries of a holder read the database
\* exactly as the operations handed over before it left it.
Undecided == (IF cur = None THEN <<>> ELSE <<cur>>) \o sqlQueue

Log == INSTANCE SqlLog WITH pending <- Undecided, log <- db, ready <- results

Implements == Log!Spec

\* Between two operations no transaction is open on the connection: what a
\* single statement writes is in effect at once and survives a crash.
NothingLeftOpen ==
  open # None =>
    \/ pc = "rollback"
    \/ pc = "trans" /\ cur # None /\ cur.kind = "transaction"

\* Unless the process dies or is halted, what is handed over is decided.
Decides ==
  \A n \in 1..MaxUnits :
    sent >= n ~> \/ sent - Len(sqlQueue) - (IF cur = None THEN 0 ELSE 1) >= n
                 \/ life \in {"dead", "stopped", "halted", "broken"}

\* Unless the process ends first, the callback of every holder runs: a login
\* goes on whatever its queries return.
CallbacksRun ==
  \A n \in 1..MaxUnits :
    asked >= n ~> Len(given) >= n \/ crashes > 0 \/ life # "serving"
=============================================================================

------------------------------- MODULE SqlLog -------------------------------
(***************************************************************************)
(* What shared/Database promises the code that calls it: the operations    *)
(* handed over (statements, transactions, groups of queries) form one      *)
(* sequence and take effect one after the other.  Each one takes effect    *)
(* as a whole or not at all, and a group of queries reads what the         *)
(* operations before it left behind.  When the process dies, the           *)
(* operations that have not taken effect are lost.                         *)
(*                                                                         *)
(* A transaction handed over is what its thread has written since it began *)
(* it, as long as no two threads call at the same time; once two calls     *)
(* have overlapped, any statements may be handed over.                     *)
(***************************************************************************)
EXTENDS Sequences, Naturals

CONSTANTS
  Threads,     \* threads that call
  Statements,  \* statements that write
  None,        \* no transaction
  Null,        \* the result of a query that failed
  HolderSize   \* queries in a SqlQueryHolder

VARIABLES
  writing,    \* what each thread has written since it began a transaction
  overlapped, \* two threads have called at the same time
  pending,    \* operations handed over that have not taken effect
  log,        \* the statements in effect, in order
  ready,      \* answers whose callback has not been called
  given       \* answers given to callbacks

logVars == <<writing, overlapped, pending, log, ready, given>>

Operations ==
  [kind : {"statement", "transaction", "holder"}, stmts : Seq(Statements)]

Nothing == [t \in Threads |-> None]

Init ==
  /\ writing = Nothing /\ overlapped = FALSE
  /\ pending = <<>> /\ log = <<>> /\ ready = <<>> /\ given = <<>>

HandOver(kind, stmts) == pending' = Append(pending, [kind |-> kind, stmts |-> stmts])

\* A thread begins a transaction, and drops one it was writing.
Begin(t) ==
  /\ writing' = [writing EXCEPT ![t] = <<>>]
  /\ UNCHANGED <<overlapped, pending, log, ready, given>>

Drop(t) ==
  /\ writing' = [writing EXCEPT ![t] = None]
  /\ UNCHANGED <<overlapped, pending, log, ready, given>>

Collect(t, s) ==
  /\ writing[t] # None
  /\ writing' = [writing EXCEPT ![t] = Append(@, s)]
  /\ UNCHANGED <<overlapped, pending, log, ready, given>>

\* What it has written is one operation.
Commit(t) ==
  /\ writing[t] # None
  /\ HandOver("transaction", writing[t])
  /\ writing' = [writing EXCEPT ![t] = None]
  /\ UNCHANGED <<overlapped, log, ready, given>>

\* Outside a transaction, a statement is one.
Write(t, s) ==
  /\ writing[t] = None
  /\ HandOver("statement", <<s>>)
  /\ UNCHANGED <<writing, overlapped, log, ready, given>>

Ask ==
  /\ HandOver("holder", <<>>)
  /\ UNCHANGED <<writing, overlapped, log, ready, given>>

\* Two threads call at the same time.
Overlap ==
  /\ overlapped' = TRUE
  /\ UNCHANGED <<writing, pending, log, ready, given>>

\* From then on, a call writes and hands over any statements.
Mixed ==
  /\ overlapped
  /\ \/ UNCHANGED pending
     \/ /\ pending' # <<>>
        /\ LET op == pending'[Len(pending')] IN
             op \in Operations /\ pending' = Append(pending, op)
  /\ UNCHANGED <<overlapped, log, ready, given>>

\* The oldest operation writes all of its statements, or none.
TakeEffect ==
  /\ pending # <<>> /\ Head(pending).kind # "holder"
  /\ pending' = Tail(pending)
  /\ log' \in {log, log \o Head(pending).stmts}
  /\ UNCHANGED <<writing, overlapped, ready, given>>

\* The oldest operation reads; any of its queries may fail.
Read ==
  /\ pending # <<>> /\ Head(pending).kind = "holder"
  /\ pending' = Tail(pending)
  /\ \E failed \in SUBSET (1..HolderSize) :
       ready' = Append(ready, [i \in 1..HolderSize |-> IF i \in failed THEN Null ELSE log])
  /\ UNCHANGED <<writing, overlapped, log, given>>

\* The callback of the oldest answer runs.
Give ==
  /\ ready # <<>>
  /\ ready' = Tail(ready) /\ given' = Append(given, Head(ready))
  /\ UNCHANGED <<writing, overlapped, pending, log>>

\* The process died and a new one starts.
Lose ==
  /\ writing' = Nothing /\ overlapped' = FALSE
  /\ pending' = <<>> /\ ready' = <<>>
  /\ UNCHANGED <<log, given>>

Next ==
  \/ \E t \in Threads :
       \/ Begin(t) \/ Drop(t) \/ Commit(t)
       \/ \E s \in Statements : Collect(t, s) \/ Write(t, s)
  \/ Ask \/ Overlap \/ Mixed
  \/ TakeEffect \/ Read \/ Give \/ Lose

Spec == Init /\ [][Next]_logVars
=============================================================================

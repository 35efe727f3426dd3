----------------------------- MODULE MCSessions -----------------------------
(***************************************************************************)
(* An account with a character to be created, two connections for it, and  *)
(* another account one of them can authenticate for as well.               *)
(***************************************************************************)
EXTENDS Sessions, TLC

CONSTANTS Account, Knows

MCMarks == [a \in Accounts |-> IF a = Account THEN 2 ELSE 1]

MCOwner == [c \in Characters |-> Account]

MCPasswords == [k \in Sockets |-> IF k \in Knows THEN Accounts ELSE {Account}]
=============================================================================

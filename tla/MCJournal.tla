----------------------------- MODULE MCJournal -----------------------------
(***************************************************************************)
(* The request journal on small instances.                                 *)
(***************************************************************************)
EXTENDS Journal, TLC

CONSTANTS d1, d2, n1, n2, f1, f2, c1, c2, r1, create, remove

\* Two daemons that know one database by two names, or one daemon.
TwoNames == (d1 :> n1) @@ (d2 :> n2)
OneName == [d \in Daemon |-> n1]
Links == [n \in Name |-> f1]

\* Invocations with one request id, for one operation or for two.
SameId == [c \in Client |-> r1]
SameOp == [c \in Client |-> create]
OtherOp == [c \in Client |-> IF c = c1 THEN create ELSE remove]
=============================================================================

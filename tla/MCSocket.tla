------------------------------ MODULE MCSocket ------------------------------
(***************************************************************************)
(* The socket on small instances.                                          *)
(***************************************************************************)
EXTENDS Socket, TLC

CONSTANTS c1, c2, m1, db, otherDb

\* The daemon started by hand is for another database.
TwoDbs == (m1 :> otherDb) @@ [c \in Command |-> db]
=============================================================================

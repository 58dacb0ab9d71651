-------------------------------- MODULE Scan --------------------------------
(***************************************************************************)
(* How the readers of a status and of a string go through their input:     *)
(* from the first element on, where one that is read may take the next one *)
(* with it, and one that is not good spoils them all.                      *)
(***************************************************************************)
EXTENDS Naturals, Sequences

Read(items) == [ok |-> TRUE, items |-> items]
Unreadable == [ok |-> FALSE, items |-> <<>>]

\* Of n elements the one at i reads as item[i] if it is good, and after[i] is
\* the next one to read.
Scan(n, good, after, item) ==
    LET from[i \in 1..(n + 1)] ==
            IF i > n THEN Read(<<>>)
            ELSE IF good[i] /\ from[after[i]].ok
            THEN Read(<<item[i]>> \o from[after[i]].items)
            ELSE Unreadable
    IN  from[1]
=============================================================================

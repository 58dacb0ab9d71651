---------------------------- MODULE Reservations ----------------------------
(***************************************************************************)
(* What the reservations table promises: a creation holds its path and its *)
(* branch, against every other, from the moment it is reserved until it    *)
(* failed or its worktree is gone, and a key serves one creation.          *)
(***************************************************************************)
CONSTANTS Key, Path, Branch, None

VARIABLE creation   \* the creation of each key

Fresh == [phase |-> "fresh", path |-> None, branch |-> None]
Holds(k) == creation[k].phase \in {"pending", "standing"}

Init == creation = [k \in Key |-> Fresh]

Reserve(k, p, b) ==
    /\ creation[k] = Fresh
    /\ \A l \in Key : Holds(l) => creation[l].path # p /\ creation[l].branch # b
    /\ creation' = [creation EXCEPT ![k] = [phase |-> "pending", path |-> p, branch |-> b]]

\* The worktree is there, or it will not be.
Settle(k, phase) ==
    /\ creation[k].phase = "pending"
    /\ creation' = [creation EXCEPT ![k].phase = phase]

\* The worktrees at some paths are gone.
Release(ps) ==
    creation' = [k \in Key |->
                   IF creation[k].phase = "standing" /\ creation[k].path \in ps
                   THEN [creation[k] EXCEPT !.phase = "over"] ELSE creation[k]]

Next ==
    \/ \E k \in Key, p \in Path, b \in Branch : Reserve(k, p, b)
    \/ \E k \in Key, phase \in {"standing", "over"} : Settle(k, phase)
    \/ \E ps \in SUBSET Path : Release(ps)

Spec == Init /\ [][Next]_creation
=============================================================================

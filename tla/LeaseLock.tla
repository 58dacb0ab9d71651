----------------------------- MODULE LeaseLock -----------------------------
(***************************************************************************)
(* What a lease promises: a worktree has at most one owner, a session owns *)
(* at most one worktree, and an owner is never replaced, only given up     *)
(* (released, expired, or lost with its worktree) before another follows.  *)
(***************************************************************************)
CONSTANTS Worktree, Session, None
VARIABLE owner

Init == owner = [w \in Worktree |-> None]

\* Any number of owners may be lost at once (a clock tick, a reconciliation);
\* whoever gains a worktree gains one nobody owned.
Pass ==
    /\ owner' \in [Worktree -> Session \cup {None}]
    /\ \A w \in Worktree : owner'[w] # owner[w] => None \in {owner[w], owner'[w]}
    /\ \A v, w \in Worktree :
          owner'[v] = owner'[w] /\ owner'[v] # None => v = w

Spec == Init /\ [][Pass]_owner
=============================================================================

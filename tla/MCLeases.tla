------------------------------ MODULE MCLeases ------------------------------
(***************************************************************************)
(* Leases on small instances: two worktrees that Git may lose and find     *)
(* again, sessions that compete for them, and a spare lease id so that a   *)
(* second active row could exist if the code let it.                       *)
(***************************************************************************)
EXTENDS Leases, TLC, FiniteSets

\* Sessions and worktrees are only compared for equality.
Symmetry == Permutations(Session) \cup Permutations(Worktree)
=============================================================================

---------------------------- MODULE MCLifecycle ----------------------------
(***************************************************************************)
(* Lifecycle on small instances.  A handler begins only when nobody holds  *)
(* the mutation guard, so that one process shows what two do; where it is  *)
(* cheap there are two.                                                    *)
(***************************************************************************)
EXTENDS Lifecycle, TLC

\* Branches, keys and processes are only compared for equality (paths are
\* ordered).  Not used where a liveness property is checked.
Symmetry == Permutations(Branch) \cup Permutations(Key) \cup Permutations(Proc)
=============================================================================

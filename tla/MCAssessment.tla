---------------------------- MODULE MCAssessment ----------------------------
(***************************************************************************)
(* What the program reads, on small instances: worktrees and what Git      *)
(* prints of them, and the JSON of requests.  A behaviour is about one of  *)
(* these, and only worktrees are assessed after they were read.            *)
(***************************************************************************)
EXTENDS Inspection, Json, Strings

Unused(what) == what = [as |-> "nothing", of |-> <<>>]
InitMC ==
    \/ InitAll /\ Unused(tried) /\ Unused(given)
    \/ /\ (Tries /\ Unused(given)) \/ (Unused(tried) /\ InitStrings)
       /\ NoReport /\ base = None /\ worktree = Idle({}, base) /\ handle = None
       /\ lost = {} /\ moved = FALSE /\ failed = {} /\ verdict = "none"

NextMC == Unused(tried) /\ Unused(given) /\ NextAll /\ UNCHANGED <<tried, given>>
SpecMC == InitMC /\ [][NextMC]_<<vars, reported, tried, given>>
=============================================================================

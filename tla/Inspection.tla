----------------------------- MODULE Inspection -----------------------------
(***************************************************************************)
(* Assessment together with the parsers that what it observes of a         *)
(* worktree comes from: from what Git prints to the verdict.               *)
(***************************************************************************)
EXTENDS Assessment, Porcelain

\* The changes, in the terms of Assessment, that Git means by a status.
Touched(cs, side) == \E i \in 1..Len(cs) : Touches(cs[i], side)
Occurs(cs, what) == \E i \in 1..Len(cs) : cs[i].what = what
ChangesOf(cs) ==
    {k \in ChangeOf :
        \/ k = "staged" /\ Touched(cs, "index")
        \/ k = "unstaged" /\ Touched(cs, "tree")
        \/ k = "conflicted" /\ Occurs(cs, "unmerged")
        \/ k \in {"untracked", "ignored"} /\ Occurs(cs, k)}

\* A worktree that nothing but its changes keeps, merged into r, with no other ref.
Idle(changes, r) ==
    [primary |-> FALSE, prunable |-> FALSE, dir |-> TRUE, locked |-> FALSE, leased |-> FALSE,
     head |-> TRUE, usage |-> "none", age |-> MinimumAge, changes |-> changes,
     tips |-> [s \in Ref |-> IF s = r THEN "merged" ELSE "absent"], origin |-> None]

\* Either any worktree is assessed, whose changes are given, or an idle one,
\* whose status is parsed: one that cannot be is a failed read.  Listings are
\* read on their own.
Asked(what) == reported.asked = what
NoReport == reported = [asked |-> "nothing", of |-> <<>>]
Parsed == ParseStatus(PrintStatus(reported.of))
InitAll ==
    \/ NoReport /\ Init
    \/ /\ Reports
       /\ base \in {Local(b) : b \in Branch}
       /\ worktree = Idle(IF Asked("status") THEN ChangesOf(reported.of) ELSE {}, base)
       /\ handle = Discovered(worktree, {}) /\ lost = {} /\ moved = FALSE
       /\ failed = IF Asked("status") /\ ~Parsed.ok THEN {Error("changes")} ELSE {}
       /\ verdict = "none"

NextAll ==
    /\ (NoReport /\ Next) \/ (Asked("status") /\ Assess)
    /\ UNCHANGED reported

SpecAll == InitAll /\ [][NextAll]_<<vars, reported>>

-----------------------------------------------------------------------------
(* Properties. *)

\* From what Git prints to the verdict: an idle worktree is unsafe exactly if
\* its parsed status counts a change that is not ignored, it is for review if
\* the status cannot be read, and only otherwise is it eligible.
DirtyIsAssessed ==
    Asked("status") /\ verdict # "none" =>
        verdict = IF ~Parsed.ok THEN "review"
                  ELSE IF IsDirty(Summary(Parsed)) THEN "unsafe" ELSE "eligible"
=============================================================================

----------------------------- MODULE Assessment -----------------------------
(***************************************************************************)
(* Cleanup assessment: what GitRepository::discover finds of a repository, *)
(* what inspect_worktree and active_processes read of a worktree later,    *)
(* any read of which may fail and then leaves a default that looks         *)
(* harmless, and the classification that assess_worktree makes of it.      *)
(* Whether a classification is still true when it is used is module        *)
(* Lifecycle's concern.                                                    *)
(*                                                                         *)
(* Left out: the words of the blockers, disk usage, upstream and last      *)
(* commit (only that their reads may fail), remotes other than origin, and *)
(* bare repositories.                                                      *)
(***************************************************************************)
EXTENDS Integers, Sequences, FiniteSets

CONSTANTS
    Branch,     \* names that an integration branch may have
    None,       \* no branch, no ref, nothing discovered
    Usage,      \* how processes may be using a worktree, see UsageOf
    Change,     \* which kinds of changes occur, see ChangeOf
    MinimumAge, \* minimum cleanup age, in units of time
    MaxAge,     \* bound: ages of worktrees are in -1..MaxAge
    MaxTrouble  \* bound: what keeps a worktree, failing reads and a moved ref together

\* Somebody has the worktree as its working directory, or one below it, or only
\* the program itself has it.
UsageOf == {"none", "root", "below", "self"}
ChangeOf == {"staged", "unstaged", "untracked", "conflicted", "ignored"}

\* Branches of the repository and remote-tracking branches of origin; origin/HEAD
\* is a symbolic one.
Local(b) == <<"local", b>>
Remote(b) == <<"remote", b>>
Ref == {"local", "remote"} \X Branch
OriginHead == Remote("HEAD")

ASSUME AgeAssumption == MinimumAge \in Nat /\ MaxAge \in Nat /\ MaxTrouble \in Nat
ASSUME KindAssumption == Usage \subseteq UsageOf /\ Change \subseteq ChangeOf
ASSUME RefAssumption == None \notin Ref \cup Branch /\ "HEAD" \notin Branch

VARIABLES
    worktree,   \* the worktree and the refs of its repository as they are
    handle,     \* the GitRepository: what was discovered, None before
    lost,       \* the lookups that failed in discovery
    moved,      \* whether a ref changed since
    base,       \* the base_override of the request
    failed,     \* the reads of the worktree that failed
    verdict     \* the classification, "none" before the assessment

vars == <<worktree, handle, lost, moved, base, failed, verdict>>

Class == {"in-use", "unsafe", "review", "eligible"}

\* tips: whether a ref is there and has the commits of the worktree, which has
\* none if head is false; origin: the branch that origin/HEAD names.  The age is
\* negative if the clock was set back.
Worktree ==
    [primary: BOOLEAN, prunable: BOOLEAN, dir: BOOLEAN, locked: BOOLEAN, leased: BOOLEAN,
     head: BOOLEAN, usage: Usage, age: -1..MaxAge, changes: SUBSET Change,
     tips: [Ref -> {"absent", "apart", "merged"}], origin: Branch \cup {None}]

\* What there is to keep a worktree whatever the refs say, for the bound.
Keeps(w) ==
    {k \in {"primary", "prunable", "locked", "leased"} : w[k]}
    \cup {k \in {"dir", "head"} : ~w[k]}
    \cup {u \in {w.usage} : u # "none"} \cup {k \in {"young"} : w.age < MinimumAge}
    \cup w.changes
Trouble == Cardinality(Keeps(worktree)) + Cardinality(lost) + Cardinality(failed)
           + IF moved THEN 1 ELSE 0

Init ==
    /\ worktree \in {w \in Worktree : Cardinality(Keeps(w)) <= MaxTrouble}
    /\ base \in Ref \cup {None}
    /\ handle = None /\ lost = {} /\ moved = FALSE
    /\ failed = {} /\ verdict = "none"

-----------------------------------------------------------------------------
(* GitRepository::discover of w if Git exits with an error in the lookups l. *)
(* Any such exit of symbolic-ref and of show-ref passes for "there is none". *)

Has(w, r, l) == r \in Ref \ l /\ w.tips[r] # "absent"
HeadOf(w, l) == IF OriginHead \in l THEN None ELSE w.origin

\* find_integration_branch: the branch of origin/HEAD if it is here, or main, or
\* master.
Names(head) == (IF head = None THEN <<>> ELSE <<head>>) \o <<"main", "master">>
IntegrationOf(w, l) ==
    LET names == Names(HeadOf(w, l))
        here == {i \in 1..Len(names) : Has(w, Local(names[i]), l)}
    IN  IF here = {} THEN None ELSE Local(names[CHOOSE i \in here : \A j \in here : i <= j])

\* The remote branch of origin/HEAD, or else the one of the integration branch.
RemoteOf(w, l) ==
    LET of == IntegrationOf(w, l)
    IN  IF HeadOf(w, l) # None THEN Remote(HeadOf(w, l))
        ELSE IF of # None /\ Has(w, Remote(of[2]), l) THEN Remote(of[2]) ELSE None

OfHeadOnly(w, l) ==   \* mutant: without origin/HEAD there is no remote branch
    [integration |-> IntegrationOf(w, l),
     remote |-> IF HeadOf(w, l) = None THEN None ELSE Remote(HeadOf(w, l))]
Discovered(w, l) == [integration |-> IntegrationOf(w, l), remote |-> RemoteOf(w, l)]

\* A lookup that cannot be made at all fails discovery, and nothing is assessed.
Discover ==
    /\ handle = None
    /\ lost' \in {l \in SUBSET (Ref \cup {OriginHead}) :
                    Cardinality(l) + Trouble <= MaxTrouble}
    /\ handle' = Discovered(worktree, lost')
    /\ UNCHANGED <<worktree, moved, base, failed, verdict>>

\* Somebody fetches, merges, creates or deletes a branch, or commits: a daemon
\* discovers once in its life.  The reads, and what fails of them, come after.
RefMoves ==
    /\ handle # None /\ verdict = "none" /\ failed = {}
    /\ moved \/ Trouble < MaxTrouble
    /\ \/ \E r \in Ref, tip \in {"absent", "apart", "merged"} :
             worktree' = [worktree EXCEPT !.tips[r] = tip]
       \/ \E b \in Branch \cup {None} : worktree' = [worktree EXCEPT !.origin = b]
    /\ moved' = TRUE
    /\ UNCHANGED <<handle, lost, base, failed, verdict>>

-----------------------------------------------------------------------------
(* What is observed of worktree w if the reads of f fail.  A read fails with *)
(* an error if it cannot be made or what it prints cannot be read, and some  *)
(* have exits of their own: those that do not fail are taken for an answer.  *)

Error(read) == <<"error", read>>
Exit(read) == <<"exit", read>>

ThereAnyway(w) == w.dir   \* mutant: what Git would prune is not looked at
Available(w) == ~w.prunable /\ w.dir

\* read_change_summary and dirty; a failure leaves an empty summary.  Ignored
\* files are counted, and do not count.
Dirty(w, f) ==
    Available(w) /\ Error("changes") \notin f
    /\ w.changes \cap {"staged", "unstaged", "untracked", "conflicted"} # {}

\* What HEAD is compared with: with a base the remote branch is looked up now,
\* by a show-ref whose exits again pass for "there is none"; without one both
\* are as discovered.
Target(w, h, b, f) ==
    IF b = None THEN h
    ELSE [integration |-> b,
          remote |-> IF Has(w, Remote(b[2]), {})
                        /\ Error("remote branch") \notin f /\ Exit("remote branch") \notin f
                     THEN Remote(b[2]) ELSE None]

\* read_merge_status: nothing is known of an unavailable worktree, of one with
\* nothing to compare with, or after an error.
Compared(w, t, f) == Available(w) /\ t.integration # None /\ Error("merge") \notin f

\* rev_list_count and is_ancestor: a Git that exits with an error, as it does if
\* there is no commit or no such ref, leaves the answer unknown.
Resolves(w, r) == w.head /\ w.tips[r] # "absent"
UniqueCommits(w, t, f) ==
    IF Compared(w, t, f) /\ Resolves(w, t.integration) /\ Exit("rev-list") \notin f
    THEN IF w.tips[t.integration] = "merged" THEN "none" ELSE "some" ELSE "unknown"
MergedLocally(w, t, f) ==
    /\ Compared(w, t, f) /\ Resolves(w, t.integration) /\ Exit("ancestor") \notin f
    /\ w.tips[t.integration] = "merged"

\* The remote branch counts only if it was found.
RemoteKnown(w, t, f) == Compared(w, t, f) /\ t.remote # None
MergedRemotely(w, t, f) ==
    /\ RemoteKnown(w, t, f) /\ Resolves(w, t.remote) /\ Exit("remote ancestor") \notin f
    /\ w.tips[t.remote] = "merged"

\* lsof looks for processes whose working directory is the worktree itself; the
\* program's own is dropped, and an exit with 1 and without a message passes for
\* "there is none".
InUse(w, f) ==
    w.dir /\ Error("lsof") \notin f /\ Exit("lsof") \notin f /\ w.usage = "root"

\* The errors that inspect_worktree collects; an unavailable worktree is one.
NoErrors(w, f) == ~Available(w)   \* mutant: only the early return reports
Incomplete(w, f) ==
    \/ ~Available(w)
    \/ \E read \in {"changes", "upstream", "last commit", "remote branch", "merge", "disk usage"} :
          Error(read) \in f

-----------------------------------------------------------------------------
(* assess_worktree: each blocker promotes the classification. *)

Grounds(w, t, f) ==
    {c \in Class :
        \/ c = "eligible"
        \/ c = "review" /\ w.primary
        \/ c = "review" /\ ~Available(w)
        \/ c = "review" /\ w.locked
        \/ c = "in-use" /\ InUse(w, f)
        \/ c = "review" /\ w.dir /\ Error("lsof") \in f
        \/ c = "in-use" /\ w.leased
        \/ c = "review" /\ w.age < MinimumAge
        \/ c = "review" /\ Incomplete(w, f)
        \/ c = "unsafe" /\ Dirty(w, f)
        \/ c = "unsafe" /\ UniqueCommits(w, t, f) = "some"
        \/ c = "review" /\ UniqueCommits(w, t, f) = "unknown"
        \/ c = "review" /\ ~MergedLocally(w, t, f)
        \/ c = "review" /\ RemoteKnown(w, t, f) /\ ~MergedRemotely(w, t, f)}

LaxPriority(c) ==   \* mutant: what is unsafe outranks what is in use
    IF c = "in-use" THEN 3 ELSE IF c = "unsafe" THEN 4 ELSE IF c = "review" THEN 2 ELSE 1
Priority(c) ==
    IF c = "in-use" THEN 4 ELSE IF c = "unsafe" THEN 3 ELSE IF c = "review" THEN 2 ELSE 1

Promoted(grounds) == CHOOSE c \in grounds : \A d \in grounds : Priority(d) <= Priority(c)

\* How the reads of w may fail; one that is not made cannot.
Made(w, t, b) ==
    (IF w.dir THEN {Error("lsof"), Exit("lsof")} ELSE {}) \cup
    (IF Available(w)
     THEN {Error("changes"), Error("upstream"), Exit("upstream"), Error("last commit"),
           Exit("last commit"), Error("disk usage")} ELSE {}) \cup
    (IF Available(w) /\ b # None THEN {Error("remote branch"), Exit("remote branch")} ELSE {}) \cup
    (IF Available(w) /\ t.integration # None
     THEN {Error("merge"), Exit("rev-list"), Exit("ancestor")} ELSE {}) \cup
    (IF Available(w) /\ t.integration # None /\ t.remote # None
     THEN {Exit("remote ancestor")} ELSE {})

Found == Target(worktree, handle, base, failed)

\* One more read fails, in one way, and those that did are made all the same.
Fails ==
    /\ handle # None /\ verdict = "none" /\ Trouble < MaxTrouble
    /\ UNCHANGED <<worktree, handle, lost, moved, base, verdict>>
    /\ \E r \in Made(worktree, Found, base) :
          /\ \A s \in failed : s[2] # r[2]
          /\ failed' = failed \cup {r}
          /\ failed' \subseteq Made(worktree, Found', base)

Assess ==
    /\ handle # None /\ verdict = "none"
    /\ verdict' = Promoted(Grounds(worktree, Found, failed))
    /\ UNCHANGED <<worktree, handle, lost, moved, base, failed>>

Next == Discover \/ RefMoves \/ Fails \/ Assess

Spec == Init /\ [][Next]_vars

-----------------------------------------------------------------------------
(* Properties. *)

\* A worktree that is dirty, locked, leased, too young, not there, or not merged
\* into the branch it is compared with is never classified eligible, whichever
\* reads failed and left their defaults, and nor is one that somebody works in,
\* except if lsof said nothing: README.md:71, "dirty, conflicted, locked, leased,
\* in-use, unmerged, unavailable, or ambiguous worktrees are blocked".
EligibleIsSafe ==
    verdict = "eligible" =>
        /\ ~worktree.primary /\ ~worktree.prunable /\ worktree.dir /\ ~worktree.locked
        /\ ~worktree.leased /\ worktree.age >= MinimumAge
        /\ worktree.usage = "root" => Exit("lsof") \in failed
        /\ worktree.changes \subseteq {"ignored"}
        /\ worktree.head /\ Found.integration # None
        /\ worktree.tips[Found.integration] = "merged"

\* The remote branch that a lookup without a failure finds now.
Due == IF base = None THEN RemoteOf(worktree, {})
       ELSE IF Has(worktree, Remote(base[2]), {}) THEN Remote(base[2]) ELSE None

\* Nor is one that is not merged into the remote branch, if there is one: with a
\* base, unless the show-ref that looks for it exits with an error; without, unless
\* a lookup of the discovery did, or refs moved since, which a daemon does not see.
RemoteIsRespected ==
    verdict = "eligible" /\ Due # None =>
        \/ worktree.tips[Due] = "merged"
        \/ base # None /\ Exit("remote branch") \in failed
        \/ base = None /\ (lost # {} \/ moved)

\* A read of the worktree that failed keeps it from being eligible, also one
\* whose result is never looked at, except for the exits that the code takes for
\* answers: no upstream, no commit, no remote branch, no process.
FailureBlocks ==
    verdict = "eligible" =>
        failed \subseteq {Exit(r) : r \in {"upstream", "last commit", "remote branch", "lsof"}}

\* The policy table of docs/implementation-plan.md:220-227, which ranks use
\* over danger over doubt: of a worktree in use nothing else is reported, and
\* of one with changes or commits of its own no doubt hides them.
PolicyOrder ==
    verdict # "none" =>
        /\ verdict = "in-use" <=> worktree.leased \/ InUse(worktree, failed)
        /\ verdict = "unsafe" <=>
              /\ ~worktree.leased /\ ~InUse(worktree, failed)
              /\ \/ Dirty(worktree, failed)
                 \/ UniqueCommits(worktree, Found, failed) = "some"

-----------------------------------------------------------------------------
(* A statement of the documentation that the code does not keep. *)

\* "No removal while an active validated lease or process exists"
\* (docs/implementation-plan.md:334): a worktree that another process works in,
\* at its root or below, is not eligible.
UseIsBlocked == verdict = "eligible" => worktree.usage \in {"none", "self"}
=============================================================================

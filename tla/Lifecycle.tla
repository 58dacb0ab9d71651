----------------------------- MODULE Lifecycle -----------------------------
(***************************************************************************)
(* Creating, removing and reconciling worktrees: the multi-step handlers   *)
(* of the mutation service over two stores that no transaction spans, Git  *)
(* and the SQLite inventory.                                               *)
(*                                                                         *)
(* A handler runs under the mutation guard (a process mutex and a flock in *)
(* the common Git directory).  One action is one command run in Git or one *)
(* transaction; a crash may fall between any two of them and frees the     *)
(* guard, and Git commands run outside the tool may fall anywhere.         *)
(*                                                                         *)
(* Left out: detached and bare worktrees, the primary worktree (never      *)
(* created or removed), 'archived' rows (nothing writes that state), and   *)
(* commit ids (a worktree is known by its branch).                         *)
(***************************************************************************)
EXTENDS Naturals, FiniteSets

CONSTANTS
    N,          \* number of paths; `git worktree list' lists 1..N in order
    Branch,     \* branch names
    Key,        \* idempotency keys (the daemon uses the request id if none is given)
    Proc,       \* processes and threads with a service of their own
    None,       \* no branch, no holder
    Condition,  \* which states of a working tree occur, see CondOf
    Outside,    \* which Git commands are run outside the tool
    Crashes,    \* bound: crashes in a behaviour
    MinimumAge  \* whether a minimum cleanup age is configured (zero is allowed)

Path == 1..N
CondOf == {"fit", "dirty", "used", "locked"}

ASSUME NAssumption == N \in Nat /\ Crashes \in Nat /\ MinimumAge \in BOOLEAN
ASSUME ConditionAssumption == "fit" \in Condition /\ Condition \subseteq CondOf
ASSUME NoneAssumption == None \notin Branch \cup Proc

VARIABLES
    (* Git and the file system *)
    at,         \* branch of the worktree linked at each path, None if not listed
    dir,        \* paths where a directory exists
    branches,   \* local branches
    cond,       \* fit to be removed, dirty, in use or unmerged, or locked
    young,      \* worktrees younger than the minimum cleanup age
    (* the inventory *)
    rows,       \* the worktrees table, with the last remove_worktree event of each
    res,        \* the reservations table by idempotency key
    leased,     \* paths with an unexpired active lease (module Leases)
    (* the handlers *)
    guard,      \* holder of the mutation guard
    pc, arg,    \* where each process is in its handler, and with what
    crashes,
    (* history *)
    last        \* how each path last came to be linked or unlinked

git == <<at, dir, branches, cond, young, last>>
tables == <<rows, res, leased>>
run == <<guard, pc, arg>>
vars == <<git, tables, run, crashes>>

Life == {"none", "active", "missing", "removed"}
ResState == {"none", "pending", "succeeded", "failed", "released"}
Label == {"idle", "c_refresh", "c_reserve", "c_decide", "c_again", "c_adopt",
          "c_git", "c_rescan", "c_record", "c_mark", "c_done", "r_refresh",
          "r_assess", "r_start", "r_recheck", "r_git", "r_mark", "r_release",
          "r_branch", "l_refresh", "l_git", "l_rescan", "l_record"}
Listing == [Path -> Branch \cup {None}]
Blank == [path |-> None, branch |-> None, key |-> None, flag |-> FALSE,
          seen |-> [p \in Path |-> None]]

TypeOK ==
    /\ at \in Listing /\ dir \subseteq Path /\ branches \subseteq Branch
    /\ cond \in [Path -> Condition] /\ young \subseteq Path
    /\ rows \in [Path -> [life: Life, branch: Branch \cup {None},
                          created: {"unset", "young", "old"},
                          first: {"young", "old"}, mark: BOOLEAN]]
    /\ res \in [Key -> [state: ResState, path: Path \cup {None},
                        branch: Branch \cup {None}]]
    /\ leased \subseteq Path
    /\ guard \in Proc \cup {None} /\ pc \in [Proc -> Label]
    /\ arg \in [Proc -> [path: Path \cup {None}, branch: Branch \cup {None},
                         key: Key \cup {None}, flag: BOOLEAN, seen: Listing]]
    /\ crashes \in 0..Crashes
    /\ last \in [Path -> {"never", "created", "added", "removed", "lost"}]

Init ==
    /\ at = [p \in Path |-> None] /\ dir = {} /\ branches = {}
    /\ cond = [p \in Path |-> "fit"] /\ young = {}
    /\ rows = [p \in Path |-> [life |-> "none", branch |-> None, created |-> "unset",
                               first |-> "young", mark |-> FALSE]]
    /\ res = [k \in Key |-> [state |-> "none", path |-> None, branch |-> None]]
    /\ leased = {}
    /\ guard = None /\ pc = [i \in Proc |-> "idle"] /\ arg = [i \in Proc |-> Blank]
    /\ crashes = 0
    /\ last = [p \in Path |-> "never"]

-----------------------------------------------------------------------------
(* Reconciling the inventory with a listing. *)

\* The upserts run in the order of the listing, against the unique index on
\* the branches of live rows.  One fails on a row of another path that still
\* has the branch: listed later, or unlisted and not yet marked missing.
Conflict(seen) ==
    \E p, q \in Path :
        /\ p # q /\ seen[p] # None /\ p \in dir
        /\ rows[q].life = "active" /\ rows[q].branch = seen[p]
        /\ seen[q] = None \/ q > p

\* The rows whose sessions go stale and whose reservations are released: listed
\* without a directory, or not listed.  Rows in state 'removed' are passed over.
LostListed(seen) == {p \in Path : seen[p] # None /\ p \notin dir}   \* mutant: unlisted rows stay
Lost(seen) ==
    {p \in Path : \/ seen[p] # None /\ p \notin dir
                  \/ seen[p] = None /\ rows[p].life \in {"active", "missing"}}

\* An unlisted row was removed by the tool if its last remove_worktree event
\* is not a failure, and went missing otherwise.  first_seen_at is written
\* with the first row of a path, created_at never.
GoneArchived(p) == IF rows[p].mark THEN "removed" ELSE "archived"   \* mutant: a state of its own
GoneAs(p) == IF rows[p].mark THEN "removed" ELSE "missing"

RowAfter(p, seen) ==
    IF seen[p] # None
    THEN [rows[p] EXCEPT
            !.branch = seen[p],
            !.life = IF p \in dir THEN "active" ELSE "missing",
            !.first = IF rows[p].life = "none" THEN "young" ELSE @]
    ELSE IF p \in Lost(seen) THEN [rows[p] EXCEPT !.life = GoneAs(p)]
    ELSE rows[p]

\* release_reservations_for_worktree, for the worktrees of ps.
Released(ps) ==
    [k \in Key |-> IF res[k].state = "succeeded" /\ res[k].path \in ps
                   THEN [res[k] EXCEPT !.state = "released"] ELSE res[k]]

\* taken: the worktrees whose lease the same handler grants.
Reconcile(seen, taken) ==
    /\ ~Conflict(seen)
    /\ rows' = [p \in Path |-> RowAfter(p, seen)]
    /\ res' = Released(Lost(seen))
    /\ leased' = (leased \ Lost(seen)) \cup taken

\* service.refresh, and what opening a daemon does.
Refresh ==
    /\ guard = None
    /\ Reconcile(at, {})
    /\ UNCHANGED <<git, run, crashes>>

-----------------------------------------------------------------------------
(* Handlers in general. *)

Begin(i, label, a) ==
    /\ guard = None /\ pc[i] = "idle"
    /\ guard' = i
    /\ pc' = [pc EXCEPT ![i] = label]
    /\ arg' = [arg EXCEPT ![i] = a]

Goto(i, label) == pc' = [pc EXCEPT ![i] = label] /\ UNCHANGED <<guard, arg>>

Finish(i) ==
    /\ guard' = None
    /\ pc' = [pc EXCEPT ![i] = "idle"]
    /\ arg' = [arg EXCEPT ![i] = Blank]

\* Another listing, kept for the steps that follow.
Rescan(i, label) ==
    /\ arg' = [arg EXCEPT ![i].seen = at]
    /\ pc' = [pc EXCEPT ![i] = label]
    /\ UNCHANGED guard

\* refresh_from_worktrees inside a handler: an error ends the handler.
RefreshIn(i, from, to) ==
    /\ pc[i] = from
    /\ \/ Conflict(arg[i].seen) /\ Finish(i) /\ UNCHANGED tables
       \/ Reconcile(arg[i].seen, {}) /\ (IF to = "idle" THEN Finish(i) ELSE Goto(i, to))
    /\ UNCHANGED <<git, crashes>>

SetResIfDone(k, s) ==   \* mutant: errors leave the reservation pending
    IF s = "failed" THEN UNCHANGED res ELSE res' = [res EXCEPT ![k].state = s]
SetRes(k, s) == res' = [res EXCEPT ![k].state = s]

-----------------------------------------------------------------------------
(* create *)

CreateBegin(i, p, b, k) ==
    /\ Begin(i, "c_refresh", [Blank EXCEPT !.path = p, !.branch = b, !.key = k, !.seen = at])
    /\ UNCHANGED <<git, tables, crashes>>

CreateRefresh(i) == RefreshIn(i, "c_refresh", "c_reserve")

Unfinished == {"pending", "succeeded"}

\* The rows reserve_creation finds in the way of a new reservation.
SamePath(p, b) ==   \* mutant: the path only
    {k \in Key : res[k].state \in Unfinished /\ res[k].path = p}
SamePathOrBranch(p, b) ==
    {k \in Key : /\ res[k].state \in Unfinished
                 /\ res[k].path = p \/ res[k].branch = b}

\* A known key answers with its reservation; a new one inserts it.
CreateReserve(i) ==
    LET a == arg[i]
        old == res[a.key]
        known == old.state # "none"
        refused == \/ known /\ (old.path # a.path \/ old.branch # a.branch)
                   \/ known /\ old.state \notin Unfinished
                   \/ ~known /\ SamePathOrBranch(a.path, a.branch) # {}
    IN  /\ pc[i] = "c_reserve"
        /\ \/ refused /\ Finish(i) /\ UNCHANGED res
           \/ /\ ~refused
              /\ res' = IF known THEN res
                        ELSE [res EXCEPT ![a.key] = [state |-> "pending", path |-> a.path,
                                                     branch |-> a.branch]]
              /\ Goto(i, "c_decide")
        /\ UNCHANGED <<git, rows, leased, crashes>>

\* What is decided on the first listing: the replay of a completed creation or
\* the recovery of an interrupted one, if the worktree is there; an answer of a
\* completed one that is gone; the refusals that fail the reservation; going on.
CreateDecide(i) ==
    LET a == arg[i]
        pending == res[a.key].state = "pending"
        here == a.seen[a.path]
        inUse == IF here = None
                 THEN a.path \in dir \/ \E q \in Path : a.seen[q] = a.branch
                 ELSE here # a.branch
    IN  /\ pc[i] = "c_decide"
        /\ \/ ~pending /\ here = None /\ Finish(i) /\ UNCHANGED res
           \/ /\ here # None /\ (pending => here = a.branch)
              /\ Goto(i, "c_again") /\ UNCHANGED res
           \/ pending /\ inUse /\ SetRes(a.key, "failed") /\ Finish(i)
           \/ pending /\ here = None /\ ~inUse /\ Goto(i, "c_git") /\ UNCHANGED res
        /\ UNCHANGED <<git, rows, leased, crashes>>

\* A worktree that is there is refreshed once more; recovery then completes
\* the reservation, and does nothing else that a creation would have done.
CreateAgain(i) == RefreshIn(i, "c_again", "c_adopt")

AdoptAnyway(i) ==   \* mutant: whatever became of the reservation
    /\ pc[i] = "c_adopt"
    /\ SetRes(arg[i].key, "succeeded") /\ Finish(i)
    /\ UNCHANGED <<git, rows, leased, crashes>>
CreateAdopt(i) ==
    /\ pc[i] = "c_adopt"
    /\ res' = [res EXCEPT ![arg[i].key].state = IF @ = "pending" THEN "succeeded" ELSE @]
    /\ Finish(i)
    /\ UNCHANGED <<git, rows, leased, crashes>>

\* `git worktree add -b': refused if the branch or the directory exists, and
\* it may fail of itself, leaving the branch it made first.
CreateGit(i) ==
    LET p == arg[i].path
        b == arg[i].branch
    IN  /\ pc[i] = "c_git"
        /\ \/ /\ b \notin branches /\ p \notin dir /\ at[p] = None
              /\ at' = [at EXCEPT ![p] = b] /\ dir' = dir \cup {p}
              /\ branches' = branches \cup {b} /\ young' = young \cup {p}
              /\ last' = [last EXCEPT ![p] = "created"]
              /\ Goto(i, "c_rescan")
              /\ UNCHANGED <<cond, res>>
           \/ /\ branches' \in {branches, branches \cup {b}}
              /\ SetRes(arg[i].key, "failed") /\ Finish(i)
              /\ UNCHANGED <<at, dir, cond, young, last>>
        /\ UNCHANGED <<rows, leased, crashes>>

\* The second listing: an error fails the reservation, a listing without the
\* worktree ends the handler with the reservation still pending.
CreateRescan(i) ==
    LET a == arg[i]
    IN  /\ pc[i] = "c_rescan"
        /\ \/ SetRes(a.key, "failed") /\ Finish(i)
           \/ at[a.path] # a.branch /\ Finish(i) /\ UNCHANGED res
           \/ at[a.path] = a.branch /\ Rescan(i, "c_record") /\ UNCHANGED res
        /\ UNCHANGED <<git, rows, leased, crashes>>

RecordSkipped(i) ==   \* mutant: no refresh before mark_created
    pc[i] = "c_record" /\ Goto(i, "c_mark") /\ UNCHANGED <<git, tables, crashes>>
CreateRecord(i) == RefreshIn(i, "c_record", "c_mark")

CreateMark(i) ==
    /\ pc[i] = "c_mark"
    /\ rows' = [rows EXCEPT ![arg[i].path].created = "young",
                            ![arg[i].path].life = "active"]
    /\ Goto(i, "c_done")
    /\ UNCHANGED <<git, res, leased, crashes>>

CreateDone(i) ==
    /\ pc[i] = "c_done"
    /\ SetRes(arg[i].key, "succeeded") /\ Finish(i)
    /\ UNCHANGED <<git, rows, leased, crashes>>

-----------------------------------------------------------------------------
(* remove *)

\* created_at, or else first_seen_at.
RowAge(p) == IF rows[p].created = "unset" THEN rows[p].first ELSE rows[p].created

\* The classification of assess_worktree (module Assessment has its parts).
Eligible(p) ==
    /\ p \in dir /\ cond[p] = "fit"
    /\ p \notin leased
    /\ MinimumAge => RowAge(p) = "old"

RemoveBegin(i, p, withBranch) ==
    /\ Begin(i, "r_refresh", [Blank EXCEPT !.path = p, !.flag = withBranch, !.seen = at])
    /\ UNCHANGED <<git, tables, crashes>>

RemoveRefresh(i) == RefreshIn(i, "r_refresh", "r_assess")

\* A worktree Git does not list is an error, or a removal already done: then
\* what is left to do is to delete its branch.
RemoveAssess(i) ==
    LET p == arg[i].path
        listed == arg[i].seen[p] # None
        done == ~listed /\ rows[p].life = "removed" /\ arg[i].flag
        proceed(label, b) == /\ pc' = [pc EXCEPT ![i] = label]
                             /\ arg' = [arg EXCEPT ![i].branch = b]
                             /\ UNCHANGED guard
    IN  /\ pc[i] = "r_assess"
        /\ CASE listed /\ Eligible(p) -> proceed("r_start", arg[i].seen[p])
             [] done                  -> proceed("r_branch", rows[p].branch)
             [] OTHER                 -> Finish(i)
        /\ UNCHANGED <<git, tables, crashes>>

\* The 'started' event sets the mark, a 'failed' one clears it.
Mark(i, m) == rows' = [rows EXCEPT ![arg[i].path].mark = m]

StartUnrecorded(i) ==   \* mutant: no 'started' event
    pc[i] = "r_start" /\ Goto(i, "r_recheck") /\ UNCHANGED <<git, tables, crashes>>
RemoveStart(i) ==
    /\ pc[i] = "r_start"
    /\ Mark(i, TRUE)
    /\ Goto(i, "r_recheck")
    /\ UNCHANGED <<git, res, leased, crashes>>

\* The checks once more, on a third listing.  A worktree that vanished since
\* ends the handler without a 'failed' event.
RemoveRecheck(i) ==
    LET p == arg[i].path
        still == at[p] = arg[i].branch /\ Eligible(p)
    IN  /\ pc[i] = "r_recheck"
        /\ \/ at[p] = None /\ Finish(i) /\ UNCHANGED rows
           \/ at[p] # None /\ still /\ Goto(i, "r_git") /\ UNCHANGED rows
           \/ at[p] # None /\ ~still /\ Finish(i) /\ Mark(i, FALSE)
        /\ UNCHANGED <<git, res, leased, crashes>>

\* `git worktree remove' refuses a dirty or a locked worktree and one that is
\* not linked, and may fail of itself.
RemoveGit(i) ==
    LET p == arg[i].path
    IN  /\ pc[i] = "r_git"
        /\ \/ /\ at[p] # None /\ cond[p] \notin {"dirty", "locked"}
              /\ at' = [at EXCEPT ![p] = None] /\ dir' = dir \ {p}
              /\ cond' = [cond EXCEPT ![p] = "fit"] /\ young' = young \ {p}
              /\ last' = [last EXCEPT ![p] = "removed"]
              /\ Goto(i, "r_mark")
              /\ UNCHANGED <<branches, rows>>
           \/ Finish(i) /\ Mark(i, FALSE) /\ UNCHANGED git
        /\ UNCHANGED <<res, leased, crashes>>

RemoveMark(i) ==
    /\ pc[i] = "r_mark"
    /\ rows' = [rows EXCEPT ![arg[i].path].life = "removed"]
    /\ Goto(i, "r_release")
    /\ UNCHANGED <<git, res, leased, crashes>>

RemoveRelease(i) ==
    /\ pc[i] = "r_release"
    /\ res' = Released({arg[i].path})
    /\ IF arg[i].flag THEN Goto(i, "r_branch") ELSE Finish(i)
    /\ UNCHANGED <<git, rows, leased, crashes>>

\* `git branch -d' fails on a branch that is checked out, or of itself.
RemoveBranch(i) ==
    /\ pc[i] = "r_branch"
    /\ \/ UNCHANGED branches
       \/ /\ \A q \in Path : at[q] # arg[i].branch
          /\ branches' = branches \ {arg[i].branch}
    /\ Finish(i)
    /\ UNCHANGED <<at, dir, cond, young, last, tables, crashes>>

-----------------------------------------------------------------------------
(* lock and unlock *)

\* A worktree already in the requested state is answered without a step.
LockBegin(i, p, lock) ==
    /\ "locked" \in Condition
    /\ at[p] # None /\ (cond[p] = "locked") # lock
    /\ Begin(i, "l_refresh", [Blank EXCEPT !.path = p, !.flag = lock, !.seen = at])
    /\ UNCHANGED <<git, tables, crashes>>

LockRefresh(i) == RefreshIn(i, "l_refresh", "l_git")

\* Git refuses what is no longer linked or already in the requested state.  The
\* condition that a lock covers is any of the others once it is gone.
LockGit(i) ==
    LET p == arg[i].path
    IN  /\ pc[i] = "l_git"
        /\ \/ /\ at[p] # None /\ (cond[p] = "locked") # arg[i].flag
              /\ \E c \in Condition : /\ (c = "locked") = arg[i].flag
                                     /\ cond' = [cond EXCEPT ![p] = c]
              /\ Goto(i, "l_rescan")
           \/ Finish(i) /\ UNCHANGED cond
        /\ UNCHANGED <<at, dir, branches, young, last, tables, crashes>>

LockRescan(i) ==
    /\ pc[i] = "l_rescan"
    /\ IF at[arg[i].path] = None THEN Finish(i) ELSE Rescan(i, "l_record")
    /\ UNCHANGED <<git, tables, crashes>>

LockRecord(i) == RefreshIn(i, "l_record", "idle")

-----------------------------------------------------------------------------
(* The environment. *)

\* The process dies; the operating system drops its flock.
Crash(i) ==
    /\ pc[i] # "idle" /\ crashes < Crashes
    /\ crashes' = crashes + 1
    /\ Finish(i)
    /\ UNCHANGED <<git, tables>>

\* A lease is taken under the guard, by a handler that reconciles or by a
\* heartbeat, which does not; it ends by release or by time (module Leases).
TakeUnguarded(p) ==   \* mutant: heartbeats do not wait for the guard
    /\ rows[p].life # "none" /\ leased' = leased \cup {p}
    /\ UNCHANGED <<git, rows, res, run, crashes>>
LeaseTake(p) ==
    /\ guard = None
    /\ \/ at[p] # None /\ p \in dir /\ Reconcile(at, {p})
       \/ rows[p].life # "none" /\ leased' = leased \cup {p} /\ UNCHANGED <<rows, res>>
    /\ UNCHANGED <<git, run, crashes>>

LeaseEnd(p) ==
    /\ p \in leased /\ leased' = leased \ {p}
    /\ UNCHANGED <<git, rows, res, run, crashes>>

\* The minimum age elapses for all there is.
Age ==
    /\ MinimumAge
    /\ young' = {}
    /\ rows' = [p \in Path |->
                  [rows[p] EXCEPT !.first = IF rows[p].life = "none" THEN @ ELSE "old",
                                  !.created = IF @ = "young" THEN "old" ELSE @]]
    /\ UNCHANGED <<at, dir, branches, cond, last, res, leased, run, crashes>>

Free(b) == \A q \in Path : at[q] # b

OutAdd(p, b) ==
    /\ "add" \in Outside
    /\ at[p] = None /\ p \notin dir /\ Free(b)
    /\ at' = [at EXCEPT ![p] = b] /\ dir' = dir \cup {p}
    /\ branches' = branches \cup {b} /\ young' = young \cup {p}
    /\ last' = [last EXCEPT ![p] = "added"]
    /\ UNCHANGED <<cond, tables, run, crashes>>

Unlinked(p) ==
    /\ at' = [at EXCEPT ![p] = None]
    /\ cond' = [cond EXCEPT ![p] = "fit"] /\ young' = young \ {p}
    /\ last' = [last EXCEPT ![p] = "lost"]

\* `git worktree remove', or `git worktree prune' once the directory is gone.
OutRemove(p) ==
    /\ "remove" \in Outside
    /\ at[p] # None /\ cond[p] # "locked"
    /\ Unlinked(p) /\ dir' = dir \ {p}
    /\ UNCHANGED <<branches, tables, run, crashes>>

\* `git switch', to a branch that exists or a new one.
OutSwitch(p, b) ==
    /\ "switch" \in Outside
    /\ at[p] # None /\ p \in dir /\ Free(b)
    /\ at' = [at EXCEPT ![p] = b] /\ branches' = branches \cup {b}
    /\ UNCHANGED <<dir, cond, young, last, tables, run, crashes>>

\* `git worktree move'.
OutMove(p, q) ==
    /\ "move" \in Outside
    /\ at[p] # None /\ p \in dir /\ cond[p] # "locked" /\ at[q] = None /\ q \notin dir
    /\ at' = [at EXCEPT ![p] = None, ![q] = at[p]]
    /\ dir' = (dir \ {p}) \cup {q}
    /\ cond' = [cond EXCEPT ![p] = "fit", ![q] = cond[p]]
    /\ young' = (young \ {p}) \cup (IF p \in young THEN {q} ELSE {})
    /\ last' = [last EXCEPT ![p] = "lost", ![q] = "added"]
    /\ UNCHANGED <<branches, tables, run, crashes>>

\* The directory of a worktree, or one of no worktree, disappears or appears.
OutDir(p) ==
    /\ "dir" \in Outside
    /\ dir' = (dir \ {p}) \cup ({p} \ dir)
    /\ UNCHANGED <<at, branches, cond, young, last, tables, run, crashes>>

\* `git branch -D' of a branch that is not checked out.
OutBranch(b) ==
    /\ "branch" \in Outside
    /\ b \in branches /\ Free(b)
    /\ branches' = branches \ {b}
    /\ UNCHANGED <<at, dir, cond, young, last, tables, run, crashes>>

\* Work in a worktree, and locks set beside the tool.
OutWork(p, c) ==
    /\ at[p] # None /\ p \in dir
    /\ cond' = [cond EXCEPT ![p] = c]
    /\ UNCHANGED <<at, dir, branches, young, last, tables, run, crashes>>

Create(i) ==
    \/ \E p \in Path, b \in Branch, k \in Key : CreateBegin(i, p, b, k)
    \/ CreateRefresh(i) \/ CreateReserve(i) \/ CreateDecide(i) \/ CreateAgain(i)
    \/ CreateAdopt(i) \/ CreateGit(i) \/ CreateRescan(i) \/ CreateRecord(i)
    \/ CreateMark(i) \/ CreateDone(i)

Remove(i) ==
    \/ \E p \in Path, f \in BOOLEAN : RemoveBegin(i, p, f)
    \/ RemoveRefresh(i) \/ RemoveAssess(i) \/ RemoveStart(i) \/ RemoveRecheck(i)
    \/ RemoveGit(i) \/ RemoveMark(i) \/ RemoveRelease(i) \/ RemoveBranch(i)

SetLock(i) ==
    \/ \E p \in Path, f \in BOOLEAN : LockBegin(i, p, f)
    \/ LockRefresh(i) \/ LockGit(i) \/ LockRescan(i) \/ LockRecord(i)

OutsideStep ==
    \/ \E p \in Path, b \in Branch : OutAdd(p, b) \/ OutSwitch(p, b)
    \/ \E p \in Path : OutRemove(p) \/ OutDir(p)
    \/ \E p, q \in Path : OutMove(p, q)
    \/ \E b \in Branch : OutBranch(b)
    \/ \E p \in Path, c \in Condition : OutWork(p, c)

Next ==
    \/ Refresh
    \/ \E i \in Proc : Create(i) \/ Remove(i) \/ SetLock(i) \/ Crash(i)
    \/ \E p \in Path : LeaseTake(p) \/ LeaseEnd(p)
    \/ Age
    \/ OutsideStep

Spec == Init /\ [][Next]_vars

-----------------------------------------------------------------------------
(* Scheduling: a handler that has begun goes on until it ends or crashes; a  *)
(* refresh is tried for ever; the client of a creation that was interrupted  *)
(* repeats its call with the same key.                                       *)

Handle(i) == pc[i] # "idle" /\ (Create(i) \/ Remove(i) \/ SetLock(i))

Retry(k) ==
    /\ res[k].state = "pending"
    /\ \E i \in Proc : CreateBegin(i, res[k].path, res[k].branch, k)

FairSpec ==
    /\ Spec
    /\ WF_vars(Refresh)
    /\ \A i \in Proc : WF_vars(Handle(i))
    /\ \A k \in Key : SF_vars(Retry(k))

-----------------------------------------------------------------------------
(* Properties. *)

\* Two creations are never under way, or done and still standing, for one path
\* or for one branch, whatever crashed between reserving and completing.
ReservationsDisjoint ==
    \A k, l \in Key :
        /\ k # l
        /\ res[k].state \in Unfinished /\ res[l].state \in Unfinished
        => res[k].path # res[l].path /\ res[k].branch # res[l].branch

\* No two rows in state 'active' share a branch.  The unique index enforces it
\* on the upserts; the update of mark_created, which the index would make fail
\* and leave the reservation pending, never runs into it either.
UniqueActiveBranch ==
    \A p, q \in Path :
        rows[p].life = "active" /\ rows[q].life = "active" /\ p # q =>
            rows[p].branch # rows[q].branch

\* The table keeps what module Reservations promises.  In particular a failed or
\* released reservation is never revived, not by a replay of a completed creation
\* whose own refresh released it, and none is made beside another of its path or
\* branch that a crash left behind.
Promise == INSTANCE Reservations WITH
    creation <- [k \in Key |->
                   [phase  |-> CASE res[k].state = "none"      -> "fresh"
                                 [] res[k].state = "pending"   -> "pending"
                                 [] res[k].state = "succeeded" -> "standing"
                                 [] OTHER                      -> "over",
                    path   |-> res[k].path,
                    branch |-> res[k].branch]]
ImplementsReservations == Promise!Spec

\* The tool never removes a worktree that is leased at that moment, although
\* the lease was looked at several Git commands earlier.
NoLeasedRemoval ==
    [][\A p \in Path : last[p] # "removed" /\ last'[p] = "removed" => p \notin leased]_vars

\* A worktree that the tool removed is never reported missing, not even if the
\* tool died between the Git command and its own bookkeeping.
RemovedNotMissing ==
    [][\A p \in Path :
          last[p] = "removed" /\ rows[p].life = "active" => rows'[p].life # "missing"]_vars

\* As long as nobody else moves branches between worktrees, no interrupted
\* creation or removal leaves rows behind that a reconciliation trips over.
NeverWedged == ~Conflict(at)

\* A creation that was interrupted, by a crash or an error, does not keep its
\* path and branch reserved for ever: repeating the call ends the reservation.
PendingResolves ==
    \A k \in Key : res[k].state = "pending" ~> res[k].state # "pending"

-----------------------------------------------------------------------------
(* Statements of the documentation that the code does not keep. *)

\* A removal by the tool is of a worktree that has the minimum age.
AgeRespected ==
    [][\A p \in Path : last[p] # "removed" /\ last'[p] = "removed" => p \notin young]_vars

\* A removal that is retried and answered as done has released what the
\* removal releases.
RetryReleases ==
    \A i \in Proc, k \in Key :
        /\ pc[i] = "r_assess" /\ arg[i].seen[arg[i].path] = None
        /\ rows[arg[i].path].life = "removed"
        => ~(res[k].state = "succeeded" /\ res[k].path = arg[i].path)

\* The inventory catches up with what Git says of a worktree.
InventoryCatchesUp ==
    \A p \in Path, b \in Branch :
        at[p] = b ~> at[p] # b \/ rows[p].branch = b
=============================================================================

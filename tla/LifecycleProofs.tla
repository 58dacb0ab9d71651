-------------------------- MODULE LifecycleProofs --------------------------
(***************************************************************************)
(* Theorems about creating, removing and reconciling worktrees, for any    *)
(* paths, branches, keys and processes, whatever is done in Git outside    *)
(* the tool (unless a theorem says otherwise) and however often it dies.   *)
(*                                                                         *)
(* Inv is the inductive invariant.  What the properties say of the stores  *)
(* does not sustain itself, because a handler acts on what it found some   *)
(* steps ago.  So Inv also says, of each label, what is still true of it:  *)
(* that the reservation of a creation is still pending (settling it twice  *)
(* would revive it), that the listing it is about to record has no branch  *)
(* twice and nothing the tool removed since, that the worktree it is about *)
(* to remove is marked and not leased.  All of that rests on the guard:    *)
(* whoever is not its holder is in no handler.                             *)
(***************************************************************************)
EXTENDS Lifecycle, TLAPS

\* A listing, like Git itself, has a branch checked out in one worktree.
Once(listing) == \A p, q \in Path : listing[p] # None /\ listing[p] = listing[q] => p = q
CheckedOutOnce == Once(at) /\ \A p \in Path : at[p] # None => at[p] \in branches

\* A key that was never used names nothing.
NamesNothing == \A k \in Key : res[k].state = "none" => res[k].path = None /\ res[k].branch = None

\* What the tool removed is gone, and marked until the inventory says so too.
Marked ==
    \A p \in Path :
        last[p] = "removed" => at[p] = None /\ (rows[p].life = "active" => rows[p].mark)

-----------------------------------------------------------------------------
(* What is known of a handler at each of its labels.                         *)

Creating == {"c_refresh", "c_reserve", "c_decide", "c_again", "c_adopt",
             "c_git", "c_rescan", "c_record", "c_mark", "c_done"}
Unsettled == {"c_git", "c_rescan", "c_record", "c_mark", "c_done"}
AfterGit == {"r_mark", "r_release", "r_branch"}

\* Only the holder of the mutation guard is in a handler, and knows its call.
Called(i) ==
    /\ pc[i] = "idle" => arg[i] = Blank
    /\ pc[i] # "idle" => guard = i /\ arg[i].path \in Path
    /\ pc[i] \in Creating => arg[i].branch \in Branch /\ arg[i].key \in Key

\* Whoever creates a worktree does so for a reservation that is pending.
Reserved(i) == pc[i] \in Unsettled => res[arg[i].key].state = "pending"

\* What a creation marks is what it saw when it looked again.
Rescanned(i) ==
    /\ Once(arg[i].seen)
    /\ pc[i] \in {"c_record", "c_mark"} => arg[i].seen[arg[i].path] = arg[i].branch
    /\ pc[i] = "c_mark" =>
          /\ rows[arg[i].path].branch = arg[i].branch
          /\ \A q \in Path : rows[q].life = "active" => rows[q].branch = arg[i].seen[q]

\* No lease is taken between the recheck and `git worktree remove'.
Unleased(i) == pc[i] = "r_git" => arg[i].path \notin leased

\* A worktree is marked before Git removes it, and no listing that is still to
\* be recorded has one that the tool removed.
MarksFirst(i) ==
    /\ pc[i] \notin AfterGit => \A p \in Path : arg[i].seen[p] # None => last[p] # "removed"
    /\ pc[i] \in {"r_recheck", "r_git"} => rows[arg[i].path].mark
    /\ pc[i] = "r_git" => last[arg[i].path] # "removed"

Handler(i) == Called(i) /\ Reserved(i) /\ Rescanned(i) /\ Unleased(i) /\ MarksFirst(i)
Handlers == \A i \in Proc : Handler(i)
Stores == /\ TypeOK /\ CheckedOutOnce /\ NamesNothing /\ ReservationsDisjoint
          /\ UniqueActiveBranch /\ Marked

Inv == Stores /\ Handlers

Rows == [Path -> [life: Life, branch: Branch \cup {None}, created: {"unset", "young", "old"},
                  first: {"young", "old"}, mark: BOOLEAN]]
Table == [Key -> [state: ResState, path: Path \cup {None}, branch: Branch \cup {None}]]
Arg == [path: Path \cup {None}, branch: Branch \cup {None}, key: Key \cup {None},
        flag: BOOLEAN, seen: Listing]
Last == {"never", "created", "added", "removed", "lost"}

LEMMA BlankArg == Blank \in Arg /\ Once(Blank.seen)
                  /\ \A p \in Path : Blank.seen[p] = None
BY DEF Blank, Arg, Listing, Once

-----------------------------------------------------------------------------
(* Reconciling.                                                              *)

\* What the upserts and the marking of lost worktrees do to one row.
LEMMA RowFacts ==
    ASSUME Stores, NEW seen \in Listing, NEW p \in Path
    PROVE  /\ RowAfter(p, seen) \in [life: Life, branch: Branch \cup {None},
                                     created: {"unset", "young", "old"},
                                     first: {"young", "old"}, mark: BOOLEAN]
           /\ RowAfter(p, seen).mark = rows[p].mark
           /\ seen[p] # None => RowAfter(p, seen).branch = seen[p]
           /\ RowAfter(p, seen).life = "active" => seen[p] # None
           /\ seen[p] = None /\ rows[p].life = "active" /\ rows[p].mark =>
                 RowAfter(p, seen).life = "removed"
<1> DEFINE r == rows[p]
<1>1. r \in [life: Life, branch: Branch \cup {None}, created: {"unset", "young", "old"},
             first: {"young", "old"}, mark: BOOLEAN]
  BY DEF Stores, TypeOK
<1>2. CASE seen[p] # None
  BY <1>1, <1>2 DEF RowAfter, Life, Listing
<1>3. CASE seen[p] = None /\ p \in Lost(seen)
  BY <1>1, <1>3 DEF RowAfter, Life, GoneAs
<1>4. CASE seen[p] = None /\ p \notin Lost(seen)
  BY <1>1, <1>4 DEF RowAfter, Life, Lost
<1> QED
  BY <1>2, <1>3, <1>4

\* release_reservations_for_worktree ends completed creations, and no other.
LEMMA ReleasedFacts ==
    ASSUME Stores, NEW ps, res' = Released(ps)
    PROVE  /\ res' \in Table /\ NamesNothing' /\ ReservationsDisjoint'
           /\ \A k \in Key : res[k].state = "pending" => res'[k].state = "pending"
<1>1. \A k \in Key : res[k] \in [state: ResState, path: Path \cup {None},
                                 branch: Branch \cup {None}]
  BY DEF Stores, TypeOK
<1>2. \A k \in Key :
         /\ res'[k] \in [state: ResState, path: Path \cup {None}, branch: Branch \cup {None}]
         /\ res'[k].path = res[k].path /\ res'[k].branch = res[k].branch
         /\ \/ res'[k].state = res[k].state
            \/ res[k].state = "succeeded" /\ res'[k].state = "released"
  <2> SUFFICES ASSUME NEW k \in Key
               PROVE  /\ res'[k] \in [state: ResState, path: Path \cup {None},
                                      branch: Branch \cup {None}]
                      /\ res'[k].path = res[k].path /\ res'[k].branch = res[k].branch
                      /\ \/ res'[k].state = res[k].state
                         \/ res[k].state = "succeeded" /\ res'[k].state = "released"
    OBVIOUS
  <2>1. CASE res[k].state = "succeeded" /\ res[k].path \in ps
    <3>1. res'[k] = [res[k] EXCEPT !.state = "released"]
      BY <2>1 DEF Released
    <3> QED
      BY <1>1, <2>1, <3>1 DEF ResState
  <2>2. CASE ~(res[k].state = "succeeded" /\ res[k].path \in ps)
    <3>1. res'[k] = res[k]
      BY <2>2 DEF Released
    <3> QED
      BY <1>1, <3>1
  <2> QED
    BY <2>1, <2>2
<1>3. res' \in Table
  BY <1>2 DEF Table, Released
<1>4. NamesNothing' /\ ReservationsDisjoint'
  BY <1>2 DEF Stores, NamesNothing, ReservationsDisjoint, Unfinished
<1> QED
  BY <1>2, <1>3, <1>4

\* A reconciliation with a listing in which nothing stands that the tool removed.
LEMMA Reconciled ==
    ASSUME Stores, NEW seen \in Listing, NEW taken \in SUBSET Path, Once(seen),
           \A p \in Path : seen[p] # None => last[p] # "removed",
           Reconcile(seen, taken), UNCHANGED git
    PROVE  /\ rows' \in Rows /\ res' \in Table /\ leased' \subseteq Path
           /\ CheckedOutOnce' /\ NamesNothing' /\ ReservationsDisjoint'
           /\ UniqueActiveBranch' /\ Marked'
           /\ \A k \in Key : res[k].state = "pending" => res'[k].state = "pending"
           /\ \A p \in Path : /\ rows'[p].mark = rows[p].mark
                              /\ seen[p] # None => rows'[p].branch = seen[p]
                              /\ rows'[p].life = "active" => seen[p] # None
           /\ leased' \subseteq leased \cup taken
<1>1. /\ rows' = [p \in Path |-> RowAfter(p, seen)]
      /\ res' = Released(Lost(seen)) /\ leased' = (leased \ Lost(seen)) \cup taken
  BY DEF Reconcile
<1>2. \A p \in Path : rows'[p] = RowAfter(p, seen)
  BY <1>1
<1>3. rows' \in Rows
  BY <1>1, RowFacts DEF Rows
<1>4. \A p \in Path : /\ rows'[p].mark = rows[p].mark
                      /\ seen[p] # None => rows'[p].branch = seen[p]
                      /\ rows'[p].life = "active" => seen[p] # None
  BY <1>2, RowFacts
<1>5. UniqueActiveBranch'
  BY <1>4 DEF UniqueActiveBranch, Once
<1>6. CheckedOutOnce'
  BY DEF Stores, CheckedOutOnce, Once, git
<1>7. Marked'
  BY <1>4 DEF Stores, Marked, git
<1>8. leased' \subseteq Path /\ leased' \subseteq leased \cup taken
  BY <1>1 DEF Stores, TypeOK
<1> QED
  BY <1>1, <1>3, <1>4, <1>5, <1>6, <1>7, <1>8, ReleasedFacts

-----------------------------------------------------------------------------
(* Handlers: one at a time is in one.                                        *)

RunOK == guard \in Proc \cup {None} /\ pc \in [Proc -> Label] /\ arg \in [Proc -> Arg]

LEMMA TypeParts ==
    TypeOK <=> /\ at \in Listing /\ dir \subseteq Path /\ branches \subseteq Branch
               /\ cond \in [Path -> Condition] /\ young \subseteq Path
               /\ last \in [Path -> Last]
               /\ rows \in Rows /\ res \in Table /\ leased \subseteq Path
               /\ RunOK /\ crashes \in 0..Crashes
BY DEF TypeOK, Rows, Table, RunOK, Arg, Last

LEMMA TypeParts1 ==
    TypeOK' <=> /\ at' \in Listing /\ dir' \subseteq Path /\ branches' \subseteq Branch
                /\ cond' \in [Path -> Condition] /\ young' \subseteq Path
                /\ last' \in [Path -> Last]
                /\ rows' \in Rows /\ res' \in Table /\ leased' \subseteq Path
                /\ RunOK' /\ crashes' \in 0..Crashes
BY DEF TypeOK, Rows, Table, RunOK, Arg, Last

LEMMA OthersIdle ==
    ASSUME Handlers, NEW i \in Proc, pc[i] # "idle"
    PROVE  \A j \in Proc : j # i => pc[j] = "idle" /\ arg[j] = Blank
BY DEF Handlers, Handler, Called

LEMMA NobodyIn ==
    ASSUME Handlers, guard = None
    PROVE  \A j \in Proc : pc[j] = "idle" /\ arg[j] = Blank
BY NoneAssumption DEF Handlers, Handler, Called

\* Nothing is asked of a process that is in no handler.
LEMMA IdleHandler ==
    ASSUME NEW j \in Proc, pc'[j] = "idle", arg'[j] = Blank
    PROVE  Handler(j)'
BY BlankArg DEF Handler, Called, Reserved, Rescanned, Unleased, MarksFirst,
                Creating, Unsettled, AfterGit, Once, Blank

LEMMA Begins ==
    ASSUME Inv, NEW i \in Proc, NEW label \in Label, NEW a \in Arg, Begin(i, label, a)
    PROVE  /\ RunOK' /\ guard' = i /\ pc'[i] = label /\ arg'[i] = a
           /\ Handler(i)' => Handlers'
<1>1. /\ RunOK' /\ guard' = i /\ pc'[i] = label /\ arg'[i] = a
      /\ \A j \in Proc : j # i => pc'[j] = pc[j] /\ arg'[j] = arg[j]
  BY TypeParts DEF Inv, Stores, RunOK, Begin
<1>2. \A j \in Proc : pc[j] = "idle" /\ arg[j] = Blank
  BY NobodyIn DEF Inv, Begin
<1> QED
  BY <1>1, <1>2, IdleHandler DEF Handlers

LEMMA GoesTo ==
    ASSUME Inv, NEW i \in Proc, NEW label \in Label, pc[i] # "idle", Goto(i, label)
    PROVE  /\ RunOK' /\ guard' = i /\ pc'[i] = label /\ arg' = arg
           /\ Handler(i)' => Handlers'
<1>1. /\ RunOK' /\ guard' = i /\ pc'[i] = label /\ arg' = arg
      /\ \A j \in Proc : j # i => pc'[j] = pc[j]
  BY TypeParts DEF Inv, Stores, RunOK, Goto, Handlers, Handler, Called
<1>2. \A j \in Proc : j # i => pc[j] = "idle" /\ arg[j] = Blank
  BY OthersIdle DEF Inv
<1> QED
  BY <1>1, <1>2, IdleHandler DEF Handlers

LEMMA Ends ==
    ASSUME Inv, NEW i \in Proc, pc[i] # "idle", Finish(i)
    PROVE  RunOK' /\ Handlers'
<1>1. /\ RunOK' /\ pc'[i] = "idle" /\ arg'[i] = Blank
      /\ \A j \in Proc : j # i => pc'[j] = pc[j] /\ arg'[j] = arg[j]
  BY TypeParts, BlankArg DEF Inv, Stores, RunOK, Finish, Label
<1>2. \A j \in Proc : j # i => pc[j] = "idle" /\ arg[j] = Blank
  BY OthersIdle DEF Inv
<1> QED
  BY <1>1, <1>2, IdleHandler DEF Handlers

\* A step of the processes that no table and no worktree notices.
LEMMA StoresStay ==
    ASSUME Stores, RunOK', UNCHANGED <<git, tables>>, crashes' \in 0..Crashes
    PROVE  Stores'
<1>1. TypeOK'
  BY TypeParts, TypeParts1 DEF Stores, git, tables
<1>2. CheckedOutOnce' /\ NamesNothing' /\ ReservationsDisjoint' /\ UniqueActiveBranch' /\ Marked'
  BY DEF Stores, git, tables, CheckedOutOnce, Once, NamesNothing, ReservationsDisjoint,
         UniqueActiveBranch, Marked
<1> QED
  BY <1>1, <1>2 DEF Stores

LEMMA CrashesStay == Inv => crashes \in 0..Crashes /\ Stores /\ Handlers /\ TypeOK
BY DEF Inv, Stores, TypeOK

-----------------------------------------------------------------------------
(* The steps that several handlers share.                                    *)

LEMMA RefreshInInv ==
    ASSUME Inv, NEW i \in Proc, NEW from \in Label, NEW to \in Label,
           from \notin AfterGit \cup {"idle"},
           to \notin AfterGit \cup {"c_record", "r_recheck", "r_git"},
           to \in Creating => from \in Creating,
           to \in Unsettled => from = "c_record" /\ to = "c_mark",
           to = "c_mark" => from = "c_record",
           RefreshIn(i, from, to)
    PROVE  Inv'
<1> DEFINE seen == arg[i].seen
<1>1. /\ pc[i] = from /\ UNCHANGED git /\ crashes' = crashes
      /\ arg \in [Proc -> Arg] /\ seen \in Listing
      /\ Handler(i) /\ Stores /\ crashes' \in 0..Crashes
  BY CrashesStay, TypeParts DEF RefreshIn, Inv, Stores, RunOK, Arg, Handlers
<1>2. CASE Conflict(seen) /\ Finish(i) /\ UNCHANGED tables
  BY <1>1, <1>2, Ends, StoresStay DEF Inv
<1>3. CASE Reconcile(seen, {}) /\ (IF to = "idle" THEN Finish(i) ELSE Goto(i, to))
  <2>1. Once(seen) /\ \A p \in Path : seen[p] # None => last[p] # "removed"
    BY <1>1 DEF Handler, Rescanned, MarksFirst
  <2>2. /\ rows' \in Rows /\ res' \in Table /\ leased' \subseteq Path
        /\ CheckedOutOnce' /\ NamesNothing' /\ ReservationsDisjoint'
        /\ UniqueActiveBranch' /\ Marked'
        /\ \A k \in Key : res[k].state = "pending" => res'[k].state = "pending"
        /\ \A p \in Path : /\ rows'[p].mark = rows[p].mark
                           /\ seen[p] # None => rows'[p].branch = seen[p]
                           /\ rows'[p].life = "active" => seen[p] # None
    BY <1>1, <1>3, <2>1, Reconciled
  <2>3. RunOK' => Stores'
    BY <1>1, <2>2, TypeParts, TypeParts1 DEF Stores, git
  <2>4. CASE to = "idle"
    BY <1>1, <1>3, <2>3, <2>4, Ends DEF Inv
  <2>5. CASE to # "idle"
    <3>1. /\ RunOK' /\ guard' = i /\ pc'[i] = to /\ arg' = arg
          /\ Handler(i)' => Handlers'
      BY <1>1, <1>3, <2>5, GoesTo
    <3>2. Called(i)'
      BY <1>1, <2>5, <3>1 DEF Handler, Called
    <3>3. Reserved(i)'
      BY <1>1, <2>2, <3>1 DEF Handler, Called, Reserved, Creating, Unsettled
    <3>4. Rescanned(i)'
      <4>1. Once(arg'[i].seen) /\ pc'[i] # "c_record"
        BY <1>1, <3>1 DEF Handler, Rescanned
      <4>2. CASE to = "c_mark"
        <5>1. seen[arg[i].path] = arg[i].branch /\ arg[i].branch \in Branch /\ arg[i].path \in Path
          BY <1>1, <4>2 DEF Handler, Rescanned, Called, Creating
        <5> QED
          BY <2>2, <3>1, <4>1, <5>1, NoneAssumption DEF Rescanned
      <4>3. CASE to # "c_mark"
        BY <3>1, <4>1, <4>3 DEF Rescanned
      <4> QED
        BY <4>2, <4>3
    <3>5. Unleased(i)' /\ MarksFirst(i)'
      BY <1>1, <2>1, <3>1 DEF Unleased, MarksFirst, git
    <3> QED
      BY <2>3, <3>1, <3>2, <3>3, <3>4, <3>5 DEF Inv, Handler
  <2> QED
    BY <2>4, <2>5
<1> QED
  BY <1>1, <1>2, <1>3 DEF RefreshIn

LEMMA RefreshInv == Inv /\ Refresh => Inv'
<1> SUFFICES ASSUME Inv, Refresh PROVE Inv'
  OBVIOUS
<1>1. /\ guard = None /\ Reconcile(at, {}) /\ UNCHANGED <<git, run, crashes>>
      /\ Stores /\ Handlers /\ crashes \in 0..Crashes /\ at \in Listing
  BY CrashesStay, TypeParts DEF Refresh
<1>2. Once(at) /\ \A p \in Path : at[p] # None => last[p] # "removed"
  BY <1>1 DEF Stores, CheckedOutOnce, Marked
<1>3. /\ rows' \in Rows /\ res' \in Table /\ leased' \subseteq Path
      /\ CheckedOutOnce' /\ NamesNothing' /\ ReservationsDisjoint'
      /\ UniqueActiveBranch' /\ Marked'
  BY <1>1, <1>2, Reconciled
<1>4. RunOK' /\ crashes' \in 0..Crashes
  BY <1>1, TypeParts DEF Stores, run, RunOK
<1>5. Stores'
  BY <1>1, <1>3, <1>4, TypeParts, TypeParts1 DEF Stores, git
<1>6. Handlers'
  BY <1>1, NobodyIn, IdleHandler DEF Handlers, run
<1> QED
  BY <1>5, <1>6 DEF Inv

-----------------------------------------------------------------------------
(* Creating.                                                                 *)

\* The listing a handler begins with has nothing that the tool removed.
LEMMA ListedNow ==
    ASSUME Stores
    PROVE  /\ at \in Listing /\ Once(at)
           /\ \A p \in Path : at[p] # None => last[p] # "removed"
BY TypeParts DEF Stores, CheckedOutOnce, Marked

LEMMA CreateBeginInv ==
    ASSUME Inv, NEW i \in Proc, NEW p \in Path, NEW b \in Branch, NEW k \in Key,
           CreateBegin(i, p, b, k)
    PROVE  Inv'
<1> DEFINE a == [Blank EXCEPT !.path = p, !.branch = b, !.key = k, !.seen = at]
<1>1. /\ Begin(i, "c_refresh", a) /\ UNCHANGED <<git, tables, crashes>>
      /\ Stores /\ crashes' \in 0..Crashes
  BY CrashesStay DEF CreateBegin
<1>2. a \in Arg /\ a.path = p /\ a.branch = b /\ a.key = k /\ a.seen = at
  BY <1>1, ListedNow DEF Arg, Blank
<1> HIDE DEF a
<1>3. /\ RunOK' /\ guard' = i /\ pc'[i] = "c_refresh" /\ arg'[i] = a
      /\ Handler(i)' => Handlers'
  BY <1>1, <1>2, Begins DEF Label
<1>4. Handler(i)'
  BY <1>1, <1>2, <1>3, ListedNow
     DEF Handler, Called, Reserved, Rescanned, Unleased, MarksFirst, Unsettled, Once, git
<1> QED
  BY <1>1, <1>3, <1>4, StoresStay DEF Inv

LEMMA CreateReserveInv ==
    ASSUME Inv, NEW i \in Proc, CreateReserve(i)
    PROVE  Inv'
<1> DEFINE a == arg[i]
           new == [state |-> "pending", path |-> a.path, branch |-> a.branch]
<1>1. /\ pc[i] = "c_reserve" /\ UNCHANGED <<git, rows, leased, crashes>>
      /\ Stores /\ Handler(i) /\ crashes' \in 0..Crashes
      /\ a.path \in Path /\ a.branch \in Branch /\ a.key \in Key
      /\ res \in Table
  BY CrashesStay, TypeParts DEF CreateReserve, Handlers, Handler, Called, Creating
<1>2. CASE Finish(i) /\ UNCHANGED res
  BY <1>1, <1>2, Ends, StoresStay DEF Inv, tables
<1>3. CASE Goto(i, "c_decide") /\ UNCHANGED res
  <2>1. /\ RunOK' /\ guard' = i /\ pc'[i] = "c_decide" /\ arg' = arg
        /\ Handler(i)' => Handlers'
    BY <1>1, <1>3, GoesTo DEF Label
  <2>2. Handler(i)'
    BY <1>1, <1>3, <2>1
       DEF Handler, Called, Reserved, Rescanned, Unleased, MarksFirst, Unsettled,
           AfterGit, Once, git
  <2> QED
    BY <1>1, <1>3, <2>1, <2>2, StoresStay DEF Inv, tables
<1>4. CASE /\ Goto(i, "c_decide") /\ res[a.key].state = "none"
           /\ SamePathOrBranch(a.path, a.branch) = {}
           /\ res' = [res EXCEPT ![a.key] = new]
  <2>1. /\ RunOK' /\ guard' = i /\ pc'[i] = "c_decide" /\ arg' = arg
        /\ Handler(i)' => Handlers'
    BY <1>1, <1>4, GoesTo DEF Label
  <2>2. Handler(i)'
    BY <1>1, <1>4, <2>1
       DEF Handler, Called, Reserved, Rescanned, Unleased, MarksFirst, Unsettled,
           AfterGit, Once, git
  <2>3. new \in [state: ResState, path: Path \cup {None}, branch: Branch \cup {None}]
    BY <1>1 DEF ResState
  <2>4. new.state = "pending" /\ new.path = a.path /\ new.branch = a.branch
    OBVIOUS
  <2> HIDE DEF new
  <2>5. res' \in Table /\ \A k \in Key : res'[k] = IF k = a.key THEN new ELSE res[k]
    BY <1>1, <1>4, <2>3 DEF Table
  <2>6. \A k \in Key : res[k].state \in Unfinished =>
            res[k].path # a.path /\ res[k].branch # a.branch
    BY <1>4 DEF SamePathOrBranch
  <2>7. NamesNothing' /\ ReservationsDisjoint'
    BY <1>1, <2>4, <2>5, <2>6 DEF Stores, NamesNothing, ReservationsDisjoint
  <2>8. CheckedOutOnce' /\ UniqueActiveBranch' /\ Marked'
    BY <1>1 DEF Stores, git, CheckedOutOnce, Once, UniqueActiveBranch, Marked
  <2>9. TypeOK'
    BY <1>1, <2>1, <2>5, TypeParts, TypeParts1 DEF Stores, git
  <2> QED
    BY <2>1, <2>2, <2>7, <2>8, <2>9 DEF Inv, Stores
<1> QED
  BY <1>1, <1>2, <1>3, <1>4 DEF CreateReserve

\* A handler that settles its reservation ends.
LEMMA Settles ==
    ASSUME Stores, NEW k \in Key, NEW s \in ResState \ {"none"},
           res' = [res EXCEPT ![k].state = s],
           s \in Unfinished => res[k].state = "pending"
    PROVE  res' \in Table /\ NamesNothing' /\ ReservationsDisjoint'
<1>1. res \in Table
  BY TypeParts DEF Stores
<1>2. res' \in Table
  BY <1>1 DEF Table
<1>3. \A l \in Key : /\ res'[l].path = res[l].path /\ res'[l].branch = res[l].branch
                     /\ res'[l].state = IF l = k THEN s ELSE res[l].state
  BY <1>1 DEF Table
<1>4. NamesNothing' /\ ReservationsDisjoint'
  BY <1>3 DEF Stores, NamesNothing, ReservationsDisjoint, Unfinished
<1> QED
  BY <1>2, <1>4

\* A reservation that fails, and a pending one that succeeds.
LEMMA Fails ==
    ASSUME Stores, NEW k \in Key, SetRes(k, "failed")
    PROVE  res' \in Table /\ NamesNothing' /\ ReservationsDisjoint'
<1>1. "failed" \in ResState \ {"none"} /\ "failed" \notin Unfinished
  BY DEF ResState, Unfinished
<1>2. res' = [res EXCEPT ![k].state = "failed"]
  BY DEF SetRes
<1> QED
  BY <1>1, <1>2, Settles

LEMMA Succeeds ==
    ASSUME Stores, NEW k \in Key, SetRes(k, "succeeded"), res[k].state = "pending"
    PROVE  res' \in Table /\ NamesNothing' /\ ReservationsDisjoint'
<1>1. "succeeded" \in ResState \ {"none"}
  BY DEF ResState
<1>2. res' = [res EXCEPT ![k].state = "succeeded"]
  BY DEF SetRes
<1> QED
  BY <1>1, <1>2, Settles

\* Only the reservations table changes.
LEMMA ReservationsChange ==
    ASSUME Stores, RunOK', UNCHANGED <<git, rows, leased>>, crashes' \in 0..Crashes,
           res' \in Table, NamesNothing', ReservationsDisjoint'
    PROVE  Stores'
<1>1. TypeOK'
  BY TypeParts, TypeParts1 DEF Stores, git
<1>2. CheckedOutOnce' /\ UniqueActiveBranch' /\ Marked'
  BY DEF Stores, git, CheckedOutOnce, Once, UniqueActiveBranch, Marked
<1> QED
  BY <1>1, <1>2 DEF Stores

\* What is known of a handler of a creation.
LEMMA InCreation ==
    ASSUME Inv, NEW i \in Proc, pc[i] \in Creating
    PROVE  /\ Stores /\ Handler(i) /\ pc[i] # "idle" /\ crashes \in 0..Crashes
           /\ arg[i].path \in Path /\ arg[i].branch \in Branch /\ arg[i].key \in Key
BY CrashesStay DEF Handlers, Handler, Called, Creating

LEMMA CreateDecideInv ==
    ASSUME Inv, NEW i \in Proc, CreateDecide(i)
    PROVE  Inv'
<1> DEFINE k == arg[i].key
<1>1. /\ pc[i] = "c_decide" /\ UNCHANGED <<git, rows, leased, crashes>>
      /\ Stores /\ Handler(i) /\ crashes' \in 0..Crashes /\ k \in Key
  BY InCreation DEF CreateDecide, Creating
<1>2. CASE Finish(i) /\ UNCHANGED res
  BY <1>1, <1>2, Ends, StoresStay DEF Inv, tables
<1>3. CASE Finish(i) /\ SetRes(k, "failed")
  <2>1. res' \in Table /\ NamesNothing' /\ ReservationsDisjoint'
    BY <1>1, <1>3, Fails
  <2> QED
    BY <1>1, <1>3, <2>1, Ends, ReservationsChange DEF Inv
<1>4. ASSUME NEW label \in {"c_again", "c_git"}, Goto(i, label), UNCHANGED res,
             label = "c_git" => res[k].state = "pending"
      PROVE  Inv'
  <2>1. /\ RunOK' /\ guard' = i /\ pc'[i] = label /\ arg' = arg
        /\ Handler(i)' => Handlers'
    BY <1>1, <1>4, GoesTo DEF Label
  <2>2. Handler(i)'
    BY <1>1, <1>4, <2>1
       DEF Handler, Called, Reserved, Rescanned, Unleased, MarksFirst, Creating, Unsettled,
           AfterGit, Once, git
  <2> QED
    BY <1>1, <1>4, <2>1, <2>2, StoresStay DEF Inv, tables
<1> QED
  BY <1>2, <1>3, <1>4 DEF CreateDecide

LEMMA CreateAdoptInv ==
    ASSUME Inv, NEW i \in Proc, CreateAdopt(i)
    PROVE  Inv'
<1> DEFINE k == arg[i].key
<1>1. /\ pc[i] = "c_adopt" /\ UNCHANGED <<git, rows, leased, crashes>> /\ Finish(i)
      /\ res' = [res EXCEPT ![k].state = IF @ = "pending" THEN "succeeded" ELSE @]
      /\ Stores /\ crashes' \in 0..Crashes /\ k \in Key /\ res \in Table
  BY InCreation, TypeParts DEF CreateAdopt, Creating, Stores
<1>2. CASE res[k].state = "pending"
  <2>1. SetRes(k, "succeeded")
    BY <1>1, <1>2 DEF SetRes
  <2>2. res' \in Table /\ NamesNothing' /\ ReservationsDisjoint'
    BY <1>1, <1>2, <2>1, Succeeds
  <2> QED
    BY <1>1, <2>2, Ends, ReservationsChange DEF Inv
<1>3. CASE res[k].state # "pending"
  <2>1. res' = res
    BY <1>1, <1>3 DEF Table
  <2> QED
    BY <1>1, <2>1, Ends, StoresStay DEF Inv, tables
<1> QED
  BY <1>2, <1>3

\* A branch that did not exist was checked out nowhere.
LEMMA CreateGitInv ==
    ASSUME Inv, NEW i \in Proc, CreateGit(i)
    PROVE  Inv'
<1> DEFINE p == arg[i].path
           b == arg[i].branch
           k == arg[i].key
<1>1. /\ pc[i] = "c_git" /\ UNCHANGED <<rows, leased, crashes>>
      /\ Stores /\ Handler(i) /\ crashes' \in 0..Crashes
      /\ p \in Path /\ b \in Branch /\ k \in Key /\ b # None
  BY InCreation, NoneAssumption DEF CreateGit, Creating
<1>2. /\ at \in Listing /\ dir \subseteq Path /\ branches \subseteq Branch
      /\ cond \in [Path -> Condition] /\ young \subseteq Path
      /\ last \in [Path -> Last]
      /\ rows \in Rows /\ res \in Table /\ leased \subseteq Path
  BY <1>1, TypeParts DEF Stores
<1>3. CASE /\ b \notin branches /\ p \notin dir /\ at[p] = None
           /\ at' = [at EXCEPT ![p] = b] /\ dir' = dir \cup {p}
           /\ branches' = branches \cup {b} /\ young' = young \cup {p}
           /\ last' = [last EXCEPT ![p] = "created"]
           /\ Goto(i, "c_rescan")
           /\ UNCHANGED <<cond, res>>
  <2>1. /\ RunOK' /\ guard' = i /\ pc'[i] = "c_rescan" /\ arg' = arg
        /\ Handler(i)' => Handlers'
    BY <1>1, <1>3, GoesTo DEF Label
  <2>2. /\ at' \in Listing /\ \A q \in Path : at'[q] = IF q = p THEN b ELSE at[q]
        /\ last' \in [Path -> Last]
        /\ \A q \in Path : last'[q] = IF q = p THEN "created" ELSE last[q]
    BY <1>1, <1>2, <1>3 DEF Listing, Last
  <2>3. Handler(i)'
    BY <1>1, <1>3, <2>1, <2>2
       DEF Handler, Called, Reserved, Rescanned, Unleased, MarksFirst, Creating, Unsettled,
           AfterGit, Once
  <2>4. CheckedOutOnce' /\ Marked'
    BY <1>1, <1>2, <1>3, <2>2 DEF Stores, CheckedOutOnce, Once, Marked
  <2>5. NamesNothing' /\ ReservationsDisjoint' /\ UniqueActiveBranch'
    BY <1>1, <1>3 DEF Stores, NamesNothing, ReservationsDisjoint, UniqueActiveBranch
  <2>6. TypeOK'
    BY <1>1, <1>2, <1>3, <2>1, <2>2, TypeParts1
  <2> QED
    BY <2>1, <2>3, <2>4, <2>5, <2>6 DEF Inv, Stores
<1>4. CASE /\ branches' \in {branches, branches \cup {b}}
           /\ SetRes(k, "failed") /\ Finish(i)
           /\ UNCHANGED <<at, dir, cond, young, last>>
  <2>1. res' \in Table /\ NamesNothing' /\ ReservationsDisjoint'
    BY <1>1, <1>4, Fails
  <2>2. RunOK' /\ Handlers'
    BY <1>1, <1>4, Ends
  <2>3. CheckedOutOnce' /\ Marked' /\ UniqueActiveBranch'
    BY <1>1, <1>4 DEF Stores, CheckedOutOnce, Once, Marked, UniqueActiveBranch
  <2>4. TypeOK'
    BY <1>1, <1>2, <1>4, <2>1, <2>2, TypeParts1
  <2> QED
    BY <2>1, <2>2, <2>3, <2>4 DEF Inv, Stores
<1> QED
  BY <1>3, <1>4 DEF CreateGit

\* Another listing is like the first.
LEMMA RescansTo ==
    ASSUME Inv, NEW i \in Proc, NEW label \in Label, pc[i] # "idle", Rescan(i, label)
    PROVE  /\ RunOK' /\ guard' = i /\ pc'[i] = label
           /\ arg'[i].seen = at /\ arg'[i].path = arg[i].path
           /\ arg'[i].branch = arg[i].branch /\ arg'[i].key = arg[i].key
           /\ Handler(i)' => Handlers'
<1>1. /\ arg \in [Proc -> Arg] /\ pc \in [Proc -> Label] /\ guard = i /\ at \in Listing
  BY TypeParts DEF Inv, Stores, RunOK, Handlers, Handler, Called
<1>2. /\ RunOK' /\ guard' = i /\ pc'[i] = label
      /\ arg'[i].seen = at /\ arg'[i].path = arg[i].path
      /\ arg'[i].branch = arg[i].branch /\ arg'[i].key = arg[i].key
      /\ \A j \in Proc : j # i => pc'[j] = pc[j] /\ arg'[j] = arg[j]
  BY <1>1 DEF RunOK, Rescan, Arg
<1>3. \A j \in Proc : j # i => pc[j] = "idle" /\ arg[j] = Blank
  BY OthersIdle DEF Inv
<1> QED
  BY <1>2, <1>3, IdleHandler DEF Handlers

LEMMA CreateRescanInv ==
    ASSUME Inv, NEW i \in Proc, CreateRescan(i)
    PROVE  Inv'
<1> DEFINE k == arg[i].key
<1>1. /\ pc[i] = "c_rescan" /\ UNCHANGED <<git, rows, leased, crashes>>
      /\ Stores /\ Handler(i) /\ crashes' \in 0..Crashes /\ k \in Key
      /\ arg[i].path \in Path /\ arg[i].branch \in Branch
  BY InCreation DEF CreateRescan, Creating
<1>2. CASE Finish(i) /\ UNCHANGED res
  BY <1>1, <1>2, Ends, StoresStay DEF Inv, tables
<1>3. CASE Finish(i) /\ SetRes(k, "failed")
  <2>1. res' \in Table /\ NamesNothing' /\ ReservationsDisjoint'
    BY <1>1, <1>3, Fails
  <2> QED
    BY <1>1, <1>3, <2>1, Ends, ReservationsChange DEF Inv
<1>4. CASE /\ at[arg[i].path] = arg[i].branch /\ Rescan(i, "c_record") /\ UNCHANGED res
  <2>1. /\ RunOK' /\ guard' = i /\ pc'[i] = "c_record"
        /\ arg'[i].seen = at /\ arg'[i].path = arg[i].path
        /\ arg'[i].branch = arg[i].branch /\ arg'[i].key = arg[i].key
        /\ Handler(i)' => Handlers'
    BY <1>1, <1>4, RescansTo DEF Label
  <2>2. Handler(i)'
    BY <1>1, <1>4, <2>1, ListedNow
       DEF Handler, Called, Reserved, Rescanned, Unleased, MarksFirst, Creating, Unsettled,
           AfterGit, Once, git
  <2> QED
    BY <1>1, <1>4, <2>1, <2>2, StoresStay DEF Inv, tables
<1> QED
  BY <1>2, <1>3, <1>4 DEF CreateRescan

\* mark_created sets the state of a row, and no other row has its branch.
LEMMA CreateMarkInv ==
    ASSUME Inv, NEW i \in Proc, CreateMark(i)
    PROVE  Inv'
<1> DEFINE p == arg[i].path
<1>1. /\ pc[i] = "c_mark" /\ UNCHANGED <<git, res, leased, crashes>> /\ Goto(i, "c_done")
      /\ rows' = [rows EXCEPT ![p].created = "young", ![p].life = "active"]
      /\ Stores /\ Handler(i) /\ crashes' \in 0..Crashes
      /\ p \in Path /\ arg[i].branch \in Branch /\ arg[i].branch # None
      /\ rows \in Rows
  BY InCreation, TypeParts, NoneAssumption DEF CreateMark, Creating, Stores
<1>2. /\ RunOK' /\ guard' = i /\ pc'[i] = "c_done" /\ arg' = arg
      /\ Handler(i)' => Handlers'
  BY <1>1, GoesTo DEF Label
<1>3. /\ rows' \in Rows
      /\ \A q \in Path : /\ rows'[q].branch = rows[q].branch
                         /\ rows'[q].mark = rows[q].mark
                         /\ q # p => rows'[q] = rows[q]
  BY <1>1 DEF Rows, Life
<1>4. /\ arg[i].seen[p] = arg[i].branch /\ rows[p].branch = arg[i].branch
      /\ \A q \in Path : rows[q].life = "active" => rows[q].branch = arg[i].seen[q]
      /\ Once(arg[i].seen)
      /\ last[p] # "removed"
  BY <1>1 DEF Handler, Rescanned, MarksFirst, AfterGit
<1>5. UniqueActiveBranch'
  <2>1. \A q \in Path : rows'[q].life = "active" => rows'[q].branch = arg[i].seen[q]
    <3> SUFFICES ASSUME NEW q \in Path, rows'[q].life = "active"
                 PROVE  rows'[q].branch = arg[i].seen[q]
      OBVIOUS
    <3>1. CASE q = p
      BY <1>3, <1>4, <3>1
    <3>2. CASE q # p
      BY <1>3, <1>4, <3>2
    <3> QED
      BY <3>1, <3>2
  <2>2. \A q \in Path \ {p} : rows'[q].life = "active" => rows'[q].branch # rows[p].branch
    <3> SUFFICES ASSUME NEW q \in Path \ {p}, rows'[q].life = "active"
                 PROVE  rows'[q].branch # rows[p].branch
      OBVIOUS
    <3>1. p \in Path /\ arg[i].branch # None
      BY <1>1
    <3>2. arg[i].seen[q] # arg[i].seen[p]
      BY <1>4, <3>1 DEF Once
    <3> QED
      BY <1>4, <2>1, <3>2
  <2> QED
    <3> SUFFICES ASSUME NEW q \in Path, NEW r \in Path, q # r,
                        rows'[q].life = "active", rows'[r].life = "active"
                 PROVE  rows'[q].branch # rows'[r].branch
      BY DEF UniqueActiveBranch
    <3>1. CASE q = p
      BY <1>3, <1>4, <2>2, <3>1
    <3>2. CASE r = p
      BY <1>3, <1>4, <2>2, <3>2
    <3>3. CASE q # p /\ r # p
      <4>1. rows'[q] = rows[q] /\ rows'[r] = rows[r]
        BY <1>3, <3>3
      <4>2. \A x, y \in Path :
               rows[x].life = "active" /\ rows[y].life = "active" /\ x # y =>
                   rows[x].branch # rows[y].branch
        BY <1>1 DEF Stores, UniqueActiveBranch
      <4> QED
        BY <4>1, <4>2
    <3> QED
      BY <3>1, <3>2, <3>3
<1>6. Handler(i)'
  BY <1>1, <1>2, <1>3
     DEF Handler, Called, Reserved, Rescanned, Unleased, MarksFirst, Creating, Unsettled,
         AfterGit, Once, git
<1>7. Marked' /\ CheckedOutOnce'
  BY <1>1, <1>3, <1>4 DEF Stores, Marked, CheckedOutOnce, Once, git
<1>8. NamesNothing' /\ ReservationsDisjoint'
  BY <1>1 DEF Stores, NamesNothing, ReservationsDisjoint
<1>9. TypeOK'
  BY <1>1, <1>2, <1>3, TypeParts, TypeParts1 DEF Stores, git
<1> QED
  BY <1>2, <1>5, <1>6, <1>7, <1>8, <1>9 DEF Inv, Stores

LEMMA CreateDoneInv ==
    ASSUME Inv, NEW i \in Proc, CreateDone(i)
    PROVE  Inv'
<1> DEFINE k == arg[i].key
<1>1. /\ pc[i] = "c_done" /\ UNCHANGED <<git, rows, leased, crashes>> /\ Finish(i)
      /\ SetRes(k, "succeeded") /\ res[k].state = "pending"
      /\ Stores /\ crashes' \in 0..Crashes /\ k \in Key
  BY InCreation DEF CreateDone, Creating, Handler, Reserved, Unsettled
<1>2. res' \in Table /\ NamesNothing' /\ ReservationsDisjoint'
  BY <1>1, Succeeds
<1> QED
  BY <1>1, <1>2, Ends, ReservationsChange DEF Inv

-----------------------------------------------------------------------------
(* Removing.                                                                 *)

LEMMA InHandler ==
    ASSUME Inv, NEW i \in Proc, pc[i] # "idle"
    PROVE  /\ Stores /\ Handler(i) /\ crashes \in 0..Crashes
           /\ guard = i /\ arg[i] \in Arg /\ arg[i].path \in Path
BY CrashesStay, TypeParts DEF Stores, RunOK, Handlers, Handler, Called

\* A handler of a removal or a lock goes on, and nothing of its claims is new.
LEMMA RemoveBeginInv ==
    ASSUME Inv, NEW i \in Proc, NEW p \in Path, NEW f \in BOOLEAN, RemoveBegin(i, p, f)
    PROVE  Inv'
<1> DEFINE a == [Blank EXCEPT !.path = p, !.flag = f, !.seen = at]
<1>1. /\ Begin(i, "r_refresh", a) /\ UNCHANGED <<git, tables, crashes>>
      /\ Stores /\ crashes' \in 0..Crashes
  BY CrashesStay DEF RemoveBegin
<1>2. a \in Arg /\ a.path = p /\ a.seen = at
  BY <1>1, ListedNow DEF Arg, Blank
<1> HIDE DEF a
<1>3. /\ RunOK' /\ guard' = i /\ pc'[i] = "r_refresh" /\ arg'[i] = a
      /\ Handler(i)' => Handlers'
  BY <1>1, <1>2, Begins DEF Label
<1>4. Handler(i)'
  BY <1>1, <1>2, <1>3, ListedNow
     DEF Handler, Called, Reserved, Rescanned, Unleased, MarksFirst, Creating, Unsettled, Once, git
<1> QED
  BY <1>1, <1>3, <1>4, StoresStay DEF Inv

LEMMA RemoveAssessInv ==
    ASSUME Inv, NEW i \in Proc, RemoveAssess(i)
    PROVE  Inv'
<1>1. /\ pc[i] = "r_assess" /\ UNCHANGED <<git, tables, crashes>>
      /\ Stores /\ Handler(i) /\ crashes' \in 0..Crashes
      /\ guard = i /\ arg[i] \in Arg /\ arg[i].path \in Path
  BY InHandler DEF RemoveAssess
<1>2. CASE Finish(i)
  BY <1>1, <1>2, Ends, StoresStay DEF Inv
<1>3. ASSUME NEW label \in {"r_start", "r_branch"}, NEW b \in Branch \cup {None},
             pc' = [pc EXCEPT ![i] = label], arg' = [arg EXCEPT ![i].branch = b],
             UNCHANGED guard
      PROVE  Inv'
  <2>1. /\ RunOK' /\ guard' = i /\ pc'[i] = label
        /\ arg'[i].path = arg[i].path /\ arg'[i].seen = arg[i].seen
        /\ \A j \in Proc : j # i => pc'[j] = pc[j] /\ arg'[j] = arg[j]
    BY <1>1, <1>3, TypeParts DEF Stores, RunOK, Label, Arg
  <2>2. \A j \in Proc : j # i => pc[j] = "idle" /\ arg[j] = Blank
    BY <1>1, OthersIdle DEF Inv
  <2>3. Handler(i)'
    BY <1>1, <1>3, <2>1
       DEF Handler, Called, Reserved, Rescanned, Unleased, MarksFirst, Creating, Unsettled,
           AfterGit, git
  <2>4. Handlers'
    BY <2>1, <2>2, <2>3, IdleHandler DEF Handlers
  <2> QED
    BY <1>1, <2>1, <2>4, StoresStay DEF Inv
<1>4. arg[i].seen[arg[i].path] \in Branch \cup {None}
      /\ rows[arg[i].path].branch \in Branch \cup {None}
  BY <1>1, TypeParts DEF Arg, Listing, Stores, Rows
<1> QED
  BY <1>2, <1>3, <1>4 DEF RemoveAssess

\* A handler sets the mark of its worktree, or clears it if the worktree was
\* not removed.
LEMMA Marks ==
    ASSUME Inv, NEW i \in Proc, pc[i] # "idle", NEW m \in BOOLEAN, Mark(i, m),
           m \/ last[arg[i].path] # "removed",
           UNCHANGED <<git, res, leased, crashes>>, RunOK'
    PROVE  /\ Stores' /\ rows'[arg[i].path].mark = m
           /\ \A q \in Path : rows'[q].branch = rows[q].branch /\ rows'[q].life = rows[q].life
<1> DEFINE p == arg[i].path
<1>1. rows' = [rows EXCEPT ![p].mark = m] /\ rows \in Rows /\ p \in Path /\ Stores
  BY InHandler, TypeParts DEF Mark, Stores
<1>2. /\ rows' \in Rows /\ rows'[p].mark = m
      /\ \A q \in Path : /\ rows'[q].branch = rows[q].branch /\ rows'[q].life = rows[q].life
                         /\ q # p => rows'[q] = rows[q]
  BY <1>1 DEF Rows
<1>3. TypeOK'
  BY <1>1, <1>2, TypeParts, TypeParts1 DEF Stores, git
<1>4. CheckedOutOnce' /\ NamesNothing' /\ ReservationsDisjoint'
  BY <1>1 DEF Stores, CheckedOutOnce, Once, NamesNothing, ReservationsDisjoint, git
<1>5. UniqueActiveBranch'
  BY <1>1, <1>2 DEF Stores, UniqueActiveBranch
<1>6. Marked'
  BY <1>1, <1>2 DEF Stores, Marked, git
<1> QED
  BY <1>2, <1>3, <1>4, <1>5, <1>6 DEF Stores

LEMMA RemoveStartInv ==
    ASSUME Inv, NEW i \in Proc, RemoveStart(i)
    PROVE  Inv'
<1>1. /\ pc[i] = "r_start" /\ UNCHANGED <<git, res, leased, crashes>>
      /\ Mark(i, TRUE) /\ Goto(i, "r_recheck") /\ Handler(i) /\ arg[i].path \in Path
  BY InHandler DEF RemoveStart
<1>2. /\ RunOK' /\ guard' = i /\ pc'[i] = "r_recheck" /\ arg' = arg
      /\ Handler(i)' => Handlers'
  BY <1>1, GoesTo DEF Label
<1>3. Stores' /\ rows'[arg[i].path].mark
  BY <1>1, <1>2, Marks
<1>4. Handler(i)'
  BY <1>1, <1>2, <1>3
     DEF Handler, Called, Reserved, Rescanned, Unleased, MarksFirst, Creating, Unsettled,
         AfterGit, git
<1> QED
  BY <1>2, <1>3, <1>4 DEF Inv

LEMMA RemoveRecheckInv ==
    ASSUME Inv, NEW i \in Proc, RemoveRecheck(i)
    PROVE  Inv'
<1> DEFINE p == arg[i].path
<1>1. /\ pc[i] = "r_recheck" /\ UNCHANGED <<git, res, leased, crashes>>
      /\ Stores /\ Handler(i) /\ p \in Path /\ crashes' \in 0..Crashes
  BY InHandler DEF RemoveRecheck
<1>2. at[p] # None => last[p] # "removed"
  BY <1>1, ListedNow
<1>3. CASE Finish(i) /\ UNCHANGED rows
  BY <1>1, <1>3, Ends, StoresStay DEF Inv, tables
<1>4. CASE at[p] # None /\ Finish(i) /\ Mark(i, FALSE)
  <2>1. RunOK' /\ Handlers'
    BY <1>1, <1>4, Ends
  <2> QED
    BY <1>1, <1>2, <1>4, <2>1, Marks DEF Inv
<1>5. CASE at[p] # None /\ Eligible(p) /\ Goto(i, "r_git") /\ UNCHANGED rows
  <2>1. /\ RunOK' /\ guard' = i /\ pc'[i] = "r_git" /\ arg' = arg
        /\ Handler(i)' => Handlers'
    BY <1>1, <1>5, GoesTo DEF Label
  <2>2. Handler(i)'
    BY <1>1, <1>2, <1>5, <2>1
       DEF Handler, Called, Reserved, Rescanned, Unleased, MarksFirst, Creating, Unsettled,
           AfterGit, git, Eligible
  <2> QED
    BY <1>1, <1>5, <2>1, <2>2, StoresStay DEF Inv, tables
<1> QED
  BY <1>3, <1>4, <1>5 DEF RemoveRecheck

LEMMA RemoveGitInv ==
    ASSUME Inv, NEW i \in Proc, RemoveGit(i)
    PROVE  Inv'
<1> DEFINE p == arg[i].path
<1>1. /\ pc[i] = "r_git" /\ UNCHANGED <<res, leased, crashes>>
      /\ Stores /\ Handler(i) /\ p \in Path /\ crashes' \in 0..Crashes
      /\ rows[p].mark /\ last[p] # "removed"
  BY InHandler DEF RemoveGit, Handler, MarksFirst
<1>2. CASE Finish(i) /\ Mark(i, FALSE) /\ UNCHANGED git
  <2>1. RunOK' /\ Handlers'
    BY <1>1, <1>2, Ends
  <2> QED
    BY <1>1, <1>2, <2>1, Marks DEF Inv
<1>3. CASE /\ at' = [at EXCEPT ![p] = None] /\ dir' = dir \ {p}
           /\ cond' = [cond EXCEPT ![p] = "fit"] /\ young' = young \ {p}
           /\ last' = [last EXCEPT ![p] = "removed"]
           /\ Goto(i, "r_mark")
           /\ UNCHANGED <<branches, rows>>
  <2>1. /\ RunOK' /\ guard' = i /\ pc'[i] = "r_mark" /\ arg' = arg
        /\ Handler(i)' => Handlers'
    BY <1>1, <1>3, GoesTo DEF Label
  <2>2. /\ at \in Listing /\ dir \subseteq Path /\ branches \subseteq Branch
        /\ cond \in [Path -> Condition] /\ young \subseteq Path
        /\ last \in [Path -> Last]
        /\ rows \in Rows /\ res \in Table /\ leased \subseteq Path
    BY <1>1, TypeParts DEF Stores
  <2>3. /\ at' \in Listing /\ \A q \in Path : at'[q] = IF q = p THEN None ELSE at[q]
        /\ last' \in [Path -> Last]
        /\ \A q \in Path : last'[q] = IF q = p THEN "removed" ELSE last[q]
        /\ cond' \in [Path -> Condition]
    BY <1>1, <1>3, <2>2, ConditionAssumption DEF Listing, Last
  <2>4. Handler(i)'
    BY <1>1, <2>1
       DEF Handler, Called, Reserved, Rescanned, Unleased, MarksFirst, Creating, Unsettled,
           AfterGit
  <2>5. CheckedOutOnce' /\ Marked'
    BY <1>1, <1>3, <2>3 DEF Stores, CheckedOutOnce, Once, Marked
  <2>6. NamesNothing' /\ ReservationsDisjoint' /\ UniqueActiveBranch'
    BY <1>1, <1>3 DEF Stores, NamesNothing, ReservationsDisjoint, UniqueActiveBranch
  <2>7. TypeOK'
    BY <1>1, <1>3, <2>1, <2>2, <2>3, TypeParts1
  <2> QED
    BY <2>1, <2>4, <2>5, <2>6, <2>7 DEF Inv, Stores
<1> QED
  BY <1>2, <1>3 DEF RemoveGit

LEMMA RemoveMarkInv ==
    ASSUME Inv, NEW i \in Proc, RemoveMark(i)
    PROVE  Inv'
<1> DEFINE p == arg[i].path
<1>1. /\ pc[i] = "r_mark" /\ UNCHANGED <<git, res, leased, crashes>> /\ Goto(i, "r_release")
      /\ rows' = [rows EXCEPT ![p].life = "removed"]
      /\ Stores /\ Handler(i) /\ p \in Path /\ crashes' \in 0..Crashes /\ rows \in Rows
  BY InHandler, TypeParts DEF RemoveMark, Stores
<1>2. /\ RunOK' /\ guard' = i /\ pc'[i] = "r_release" /\ arg' = arg
      /\ Handler(i)' => Handlers'
  BY <1>1, GoesTo DEF Label
<1>3. /\ rows' \in Rows /\ rows'[p].life = "removed"
      /\ \A q \in Path : q # p => rows'[q] = rows[q]
  BY <1>1 DEF Rows, Life
<1>4. Handler(i)'
  BY <1>1, <1>2
     DEF Handler, Called, Reserved, Rescanned, Unleased, MarksFirst, Creating, Unsettled, AfterGit
<1>5. CheckedOutOnce' /\ NamesNothing' /\ ReservationsDisjoint'
  BY <1>1 DEF Stores, CheckedOutOnce, Once, NamesNothing, ReservationsDisjoint, git
<1>6. UniqueActiveBranch' /\ Marked'
  BY <1>1, <1>3 DEF Stores, UniqueActiveBranch, Marked, git
<1>7. TypeOK'
  BY <1>1, <1>2, <1>3, TypeParts, TypeParts1 DEF Stores, git
<1> QED
  BY <1>2, <1>4, <1>5, <1>6, <1>7 DEF Inv, Stores

LEMMA RemoveReleaseInv ==
    ASSUME Inv, NEW i \in Proc, RemoveRelease(i)
    PROVE  Inv'
<1>1. /\ pc[i] = "r_release" /\ UNCHANGED <<git, rows, leased, crashes>>
      /\ res' = Released({arg[i].path})
      /\ Stores /\ Handler(i) /\ crashes' \in 0..Crashes
  BY InHandler DEF RemoveRelease
<1>2. RunOK' => Stores'
  BY <1>1, ReleasedFacts, ReservationsChange
<1>3. CASE Finish(i)
  BY <1>1, <1>2, <1>3, Ends DEF Inv
<1>4. CASE Goto(i, "r_branch")
  <2>1. /\ RunOK' /\ guard' = i /\ pc'[i] = "r_branch" /\ arg' = arg
        /\ Handler(i)' => Handlers'
    BY <1>1, <1>4, GoesTo DEF Label
  <2>2. Handler(i)'
    BY <1>1, <2>1
       DEF Handler, Called, Reserved, Rescanned, Unleased, MarksFirst, Creating, Unsettled,
           AfterGit
  <2> QED
    BY <1>2, <2>1, <2>2 DEF Inv
<1> QED
  BY <1>1, <1>3, <1>4 DEF RemoveRelease

\* A branch that is checked out is not deleted.
LEMMA BranchGoes ==
    ASSUME Stores, NEW b, branches' = branches \ {b}, \A q \in Path : at[q] # b,
           UNCHANGED <<at, dir, cond, young, last, tables>>, RunOK', crashes' \in 0..Crashes
    PROVE  Stores'
<1>1. TypeOK'
  BY TypeParts, TypeParts1 DEF Stores, tables
<1>2. CheckedOutOnce' /\ NamesNothing' /\ ReservationsDisjoint' /\ UniqueActiveBranch' /\ Marked'
  BY DEF Stores, tables, CheckedOutOnce, Once, NamesNothing, ReservationsDisjoint,
         UniqueActiveBranch, Marked
<1> QED
  BY <1>1, <1>2 DEF Stores

LEMMA RemoveBranchInv ==
    ASSUME Inv, NEW i \in Proc, RemoveBranch(i)
    PROVE  Inv'
<1>1. /\ pc[i] = "r_branch" /\ UNCHANGED <<at, dir, cond, young, last, tables, crashes>>
      /\ Finish(i) /\ Stores /\ crashes' \in 0..Crashes
  BY InHandler DEF RemoveBranch
<1>2. RunOK' /\ Handlers'
  BY <1>1, Ends
<1>3. CASE UNCHANGED branches
  BY <1>1, <1>2, <1>3, StoresStay DEF Inv, git
<1>4. CASE /\ \A q \in Path : at[q] # arg[i].branch
           /\ branches' = branches \ {arg[i].branch}
  BY <1>1, <1>2, <1>4, BranchGoes DEF Inv
<1> QED
  BY <1>3, <1>4 DEF RemoveBranch

-----------------------------------------------------------------------------
(* Locking.                                                                  *)

LEMMA LockBeginInv ==
    ASSUME Inv, NEW i \in Proc, NEW p \in Path, NEW f \in BOOLEAN, LockBegin(i, p, f)
    PROVE  Inv'
<1> DEFINE a == [Blank EXCEPT !.path = p, !.flag = f, !.seen = at]
<1>1. /\ Begin(i, "l_refresh", a) /\ UNCHANGED <<git, tables, crashes>>
      /\ Stores /\ crashes' \in 0..Crashes
  BY CrashesStay DEF LockBegin
<1>2. a \in Arg /\ a.path = p /\ a.seen = at
  BY <1>1, ListedNow DEF Arg, Blank
<1> HIDE DEF a
<1>3. /\ RunOK' /\ guard' = i /\ pc'[i] = "l_refresh" /\ arg'[i] = a
      /\ Handler(i)' => Handlers'
  BY <1>1, <1>2, Begins DEF Label
<1>4. Handler(i)'
  BY <1>1, <1>2, <1>3, ListedNow
     DEF Handler, Called, Reserved, Rescanned, Unleased, MarksFirst, Creating, Unsettled, Once, git
<1> QED
  BY <1>1, <1>3, <1>4, StoresStay DEF Inv

LEMMA LockGitInv ==
    ASSUME Inv, NEW i \in Proc, LockGit(i)
    PROVE  Inv'
<1>1. /\ pc[i] = "l_git" /\ UNCHANGED <<at, dir, branches, young, last, tables, crashes>>
      /\ Stores /\ Handler(i) /\ crashes' \in 0..Crashes
  BY InHandler DEF LockGit
<1>2. CASE Finish(i) /\ UNCHANGED cond
  BY <1>1, <1>2, Ends, StoresStay DEF Inv, git
<1>3. ASSUME NEW c \in Condition, cond' = [cond EXCEPT ![arg[i].path] = c],
             Goto(i, "l_rescan")
      PROVE  Inv'
  <2>1. /\ RunOK' /\ guard' = i /\ pc'[i] = "l_rescan" /\ arg' = arg
        /\ Handler(i)' => Handlers'
    BY <1>1, <1>3, GoesTo DEF Label
  <2>2. Handler(i)'
    BY <1>1, <2>1
       DEF Handler, Called, Reserved, Rescanned, Unleased, MarksFirst, Creating, Unsettled,
           AfterGit
  <2>3. TypeOK'
    BY <1>1, <1>3, <2>1, TypeParts, TypeParts1 DEF Stores, tables
  <2>4. CheckedOutOnce' /\ NamesNothing' /\ ReservationsDisjoint' /\ UniqueActiveBranch' /\ Marked'
    BY <1>1 DEF Stores, tables, CheckedOutOnce, Once, NamesNothing, ReservationsDisjoint,
                UniqueActiveBranch, Marked
  <2> QED
    BY <2>1, <2>2, <2>3, <2>4 DEF Inv, Stores
<1> QED
  BY <1>1, <1>2, <1>3 DEF LockGit

LEMMA LockRescanInv ==
    ASSUME Inv, NEW i \in Proc, LockRescan(i)
    PROVE  Inv'
<1>1. /\ pc[i] = "l_rescan" /\ UNCHANGED <<git, tables, crashes>>
      /\ Stores /\ Handler(i) /\ crashes' \in 0..Crashes
  BY InHandler DEF LockRescan
<1>2. CASE Finish(i)
  BY <1>1, <1>2, Ends, StoresStay DEF Inv
<1>3. CASE Rescan(i, "l_record")
  <2>1. /\ RunOK' /\ guard' = i /\ pc'[i] = "l_record"
        /\ arg'[i].seen = at /\ arg'[i].path = arg[i].path
        /\ Handler(i)' => Handlers'
    BY <1>1, <1>3, RescansTo DEF Label
  <2>2. Handler(i)'
    BY <1>1, <2>1, ListedNow
       DEF Handler, Called, Reserved, Rescanned, Unleased, MarksFirst, Creating, Unsettled,
           AfterGit, Once, git
  <2> QED
    BY <1>1, <2>1, <2>2, StoresStay DEF Inv
<1> QED
  BY <1>1, <1>2, <1>3 DEF LockRescan

-----------------------------------------------------------------------------
(* The environment.                                                          *)

\* What leaves the handlers alone.
LEMMA HandlersStay ==
    ASSUME Inv, UNCHANGED <<run, res>>, leased' \subseteq leased,
           \A p \in Path : /\ last'[p] = "removed" => last[p] = "removed"
                           /\ rows'[p].branch = rows[p].branch /\ rows'[p].life = rows[p].life
                           /\ rows'[p].mark = rows[p].mark
    PROVE  RunOK' /\ Handlers'
<1>1. RunOK'
  BY TypeParts DEF Inv, Stores, RunOK, run
<1>2. ASSUME NEW i \in Proc PROVE Handler(i)'
  <2>1. Handler(i)
    BY DEF Inv, Handlers
  <2>2. Called(i)' /\ Reserved(i)' /\ Unleased(i)'
    BY <2>1 DEF Handler, Called, Reserved, Unleased, run
  <2>3. pc[i] # "idle" => arg[i].path \in Path
    BY <2>1 DEF Handler, Called
  <2>4. Rescanned(i)'
    BY <2>1, <2>3 DEF Handler, Rescanned, Once, run
  <2>5. MarksFirst(i)'
    BY <2>1, <2>3 DEF Handler, MarksFirst, run
  <2> QED
    BY <2>2, <2>4, <2>5 DEF Handler
<1> QED
  BY <1>1, <1>2 DEF Handlers

LEMMA CrashInv ==
    ASSUME Inv, NEW i \in Proc, Crash(i)
    PROVE  Inv'
<1>1. crashes' \in 0..Crashes
  BY CrashesStay, NAssumption DEF Crash
<1> QED
  BY <1>1, CrashesStay, Ends, StoresStay DEF Crash, Inv

LEMMA LeaseTakeInv ==
    ASSUME Inv, NEW p \in Path, LeaseTake(p)
    PROVE  Inv'
<1>1. /\ guard = None /\ UNCHANGED <<git, run, crashes>> /\ Stores /\ Handlers
      /\ crashes' \in 0..Crashes
  BY CrashesStay DEF LeaseTake
<1>2. RunOK' /\ Handlers'
  BY <1>1, NobodyIn, IdleHandler, TypeParts DEF Handlers, run, Stores, RunOK
<1>3. CASE Reconcile(at, {p})
  <2>1. /\ rows' \in Rows /\ res' \in Table /\ leased' \subseteq Path
        /\ CheckedOutOnce' /\ NamesNothing' /\ ReservationsDisjoint'
        /\ UniqueActiveBranch' /\ Marked'
    BY <1>1, <1>3, ListedNow, Reconciled
  <2>2. Stores'
    BY <1>1, <1>2, <2>1, TypeParts, TypeParts1 DEF Stores, git
  <2> QED
    BY <1>2, <2>2 DEF Inv
<1>4. CASE leased' = leased \cup {p} /\ UNCHANGED <<rows, res>>
  <2>1. TypeOK'
    BY <1>1, <1>2, <1>4, TypeParts, TypeParts1 DEF Stores, git
  <2>2. CheckedOutOnce' /\ NamesNothing' /\ ReservationsDisjoint' /\ UniqueActiveBranch' /\ Marked'
    BY <1>1, <1>4 DEF Stores, git, CheckedOutOnce, Once, NamesNothing, ReservationsDisjoint,
                      UniqueActiveBranch, Marked
  <2> QED
    BY <1>2, <2>1, <2>2 DEF Inv, Stores
<1> QED
  BY <1>3, <1>4 DEF LeaseTake

LEMMA LeaseEndInv ==
    ASSUME Inv, NEW p \in Path, LeaseEnd(p)
    PROVE  Inv'
<1>1. /\ leased' = leased \ {p} /\ UNCHANGED <<git, rows, res, run, crashes>>
      /\ Stores /\ crashes' \in 0..Crashes
  BY CrashesStay DEF LeaseEnd
<1>2. RunOK' /\ Handlers'
  BY <1>1, HandlersStay DEF git
<1>3. TypeOK'
  BY <1>1, <1>2, TypeParts, TypeParts1 DEF Stores, git
<1>4. CheckedOutOnce' /\ NamesNothing' /\ ReservationsDisjoint' /\ UniqueActiveBranch' /\ Marked'
  BY <1>1 DEF Stores, git, CheckedOutOnce, Once, NamesNothing, ReservationsDisjoint,
              UniqueActiveBranch, Marked
<1> QED
  BY <1>2, <1>3, <1>4 DEF Inv, Stores

LEMMA AgeInv ==
    ASSUME Inv, Age
    PROVE  Inv'
<1>1. /\ young' = {}
      /\ UNCHANGED <<at, dir, branches, cond, last, res, leased, run, crashes>>
      /\ Stores /\ crashes' \in 0..Crashes /\ rows \in Rows
  BY CrashesStay, TypeParts DEF Age, Stores
<1>2. /\ rows' \in Rows
      /\ \A p \in Path : /\ rows'[p].branch = rows[p].branch /\ rows'[p].life = rows[p].life
                         /\ rows'[p].mark = rows[p].mark
  <2> DEFINE Row == [life: Life, branch: Branch \cup {None},
                     created: {"unset", "young", "old"}, first: {"young", "old"}, mark: BOOLEAN]
  <2>1. \A p \in Path : rows[p] \in Row
    BY <1>1 DEF Rows
  <2>2. \A p \in Path : \E t \in {"young", "old"}, u \in {"unset", "young", "old"} :
           rows'[p] = [rows[p] EXCEPT !.first = t, !.created = u]
    <3> SUFFICES ASSUME NEW p \in Path
                 PROVE  \E t \in {"young", "old"}, u \in {"unset", "young", "old"} :
                           rows'[p] = [rows[p] EXCEPT !.first = t, !.created = u]
      OBVIOUS
    <3> DEFINE t == IF rows[p].life = "none" THEN rows[p].first ELSE "old"
               u == IF rows[p].created = "young" THEN "old" ELSE rows[p].created
    <3>1. t \in {"young", "old"} /\ u \in {"unset", "young", "old"}
      BY <2>1
    <3>2. rows'[p] = [rows[p] EXCEPT !.first = t, !.created = u]
      BY DEF Age
    <3> QED
      BY <3>1, <3>2
  <2>3. rows' = [p \in Path |-> rows'[p]]
    BY DEF Age
  <2>4. ASSUME NEW p \in Path
        PROVE  /\ rows'[p] \in Row
               /\ rows'[p].branch = rows[p].branch /\ rows'[p].life = rows[p].life
               /\ rows'[p].mark = rows[p].mark
    <3>1. PICK t \in {"young", "old"}, u \in {"unset", "young", "old"} :
             rows'[p] = [rows[p] EXCEPT !.first = t, !.created = u]
      BY <2>2
    <3> QED
      BY <2>1, <3>1
  <2>5. Rows = [Path -> Row]
    BY DEF Rows
  <2> HIDE DEF Row
  <2> QED
    BY <2>3, <2>4, <2>5
<1>3. RunOK' /\ Handlers'
  BY <1>1, <1>2, HandlersStay
<1>4. TypeOK'
  BY <1>1, <1>2, <1>3, TypeParts, TypeParts1 DEF Stores
<1>5. CheckedOutOnce' /\ NamesNothing' /\ ReservationsDisjoint' /\ UniqueActiveBranch' /\ Marked'
  BY <1>1, <1>2 DEF Stores, CheckedOutOnce, Once, NamesNothing, ReservationsDisjoint,
              UniqueActiveBranch, Marked
<1> QED
  BY <1>3, <1>4, <1>5 DEF Inv, Stores

\* Git run outside the tool: it checks a branch out in one worktree only, and
\* removes nothing that counts as removed by the tool.
LEMMA OutsideInv ==
    ASSUME Inv, OutsideStep
    PROVE  Inv'
<1> DEFINE GitOK == /\ at' \in Listing /\ dir' \subseteq Path /\ branches' \subseteq Branch
                    /\ cond' \in [Path -> Condition] /\ young' \subseteq Path
                    /\ last' \in [Path -> Last]
                    /\ CheckedOutOnce'
                    /\ \A p \in Path : last'[p] = "removed" =>
                          last[p] = "removed" /\ (at[p] = None => at'[p] = None)
<1>1. /\ Stores /\ crashes \in 0..Crashes
      /\ at \in Listing /\ dir \subseteq Path /\ branches \subseteq Branch
      /\ cond \in [Path -> Condition] /\ young \subseteq Path
      /\ last \in [Path -> Last] /\ CheckedOutOnce
  BY CrashesStay, TypeParts DEF Stores
<1>2. ASSUME GitOK, UNCHANGED <<tables, run, crashes>>
      PROVE  Inv'
  <2>1. RunOK' /\ Handlers'
    BY <1>2, HandlersStay DEF tables
  <2>2. TypeOK'
    BY <1>1, <1>2, <2>1, TypeParts, TypeParts1 DEF Stores, tables
  <2>3. NamesNothing' /\ ReservationsDisjoint' /\ UniqueActiveBranch' /\ Marked'
    BY <1>1, <1>2 DEF Stores, tables, NamesNothing, ReservationsDisjoint, UniqueActiveBranch, Marked
  <2> QED
    BY <1>2, <2>1, <2>2, <2>3 DEF Inv, Stores
<1>3. ASSUME NEW p \in Path, NEW b \in Branch, OutAdd(p, b)
      PROVE  GitOK
  <2>1. /\ \A q \in Path : at'[q] = IF q = p THEN b ELSE at[q]
        /\ \A q \in Path : last'[q] = IF q = p THEN "added" ELSE last[q]
        /\ at' \in Listing /\ last' \in [Path -> Last]
    BY <1>1, <1>3 DEF OutAdd, Listing, Last
  <2>2. CheckedOutOnce'
    BY <1>1, <1>3, <2>1 DEF OutAdd, CheckedOutOnce, Once, Free
  <2> QED
    BY <1>1, <1>3, <2>1, <2>2 DEF OutAdd
<1>4. ASSUME NEW p \in Path, NEW b \in Branch, OutSwitch(p, b)
      PROVE  GitOK
  <2>1. /\ \A q \in Path : at'[q] = IF q = p THEN b ELSE at[q]
        /\ at' \in Listing
    BY <1>1, <1>4 DEF OutSwitch, Listing
  <2>2. CheckedOutOnce'
    BY <1>1, <1>4, <2>1 DEF OutSwitch, CheckedOutOnce, Once, Free
  <2>3. last[p] # "removed"
    BY <1>1, <1>4 DEF OutSwitch, Stores, Marked
  <2> QED
    BY <1>1, <1>4, <2>1, <2>2, <2>3 DEF OutSwitch
<1>5. ASSUME NEW p \in Path, OutRemove(p)
      PROVE  GitOK
  <2>1. /\ \A q \in Path : at'[q] = IF q = p THEN None ELSE at[q]
        /\ \A q \in Path : last'[q] = IF q = p THEN "lost" ELSE last[q]
        /\ at' \in Listing /\ last' \in [Path -> Last] /\ cond' \in [Path -> Condition]
    BY <1>1, <1>5, ConditionAssumption DEF OutRemove, Unlinked, Listing, Last
  <2>2. CheckedOutOnce'
    BY <1>1, <1>5, <2>1 DEF OutRemove, CheckedOutOnce, Once
  <2> QED
    BY <1>1, <1>5, <2>1, <2>2 DEF OutRemove, Unlinked
<1>6. ASSUME NEW p \in Path, NEW q \in Path, OutMove(p, q)
      PROVE  GitOK
  <2>1. p # q /\ at[p] # None /\ at[q] = None
    BY <1>6 DEF OutMove
  <2>2. /\ \A r \in Path : at'[r] = IF r = q THEN at[p] ELSE IF r = p THEN None ELSE at[r]
        /\ \A r \in Path : last'[r] = IF r = q THEN "added" ELSE IF r = p THEN "lost" ELSE last[r]
        /\ at' \in Listing /\ last' \in [Path -> Last] /\ cond' \in [Path -> Condition]
    BY <1>1, <1>6, <2>1, ConditionAssumption DEF OutMove, Listing, Last
  <2>3. CheckedOutOnce'
    <3>1. branches' = branches
      BY <1>6 DEF OutMove
    <3>2. \A r \in Path : at'[r] # None =>
              \E s \in Path : /\ at'[r] = at[s] /\ s # q
                             /\ s = IF r = q THEN p ELSE r
      BY <2>1, <2>2
    <3>3. \A r \in Path : at'[r] # None => at'[r] \in branches'
      BY <1>1, <3>1, <3>2 DEF CheckedOutOnce
    <3>4. Once(at')
      <4> SUFFICES ASSUME NEW r \in Path, NEW s \in Path, at'[r] # None, at'[r] = at'[s]
                   PROVE  r = s
        BY DEF Once
      <4>1. r # p /\ s # p
        BY <2>1, <2>2
      <4> QED
        BY <1>1, <2>1, <2>2, <4>1 DEF CheckedOutOnce, Once
    <3> QED
      BY <3>3, <3>4 DEF CheckedOutOnce, Once
  <2> QED
    BY <1>1, <1>6, <2>1, <2>2, <2>3 DEF OutMove
<1>7. ASSUME NEW p \in Path, OutDir(p)
      PROVE  GitOK
  BY <1>1, <1>7 DEF OutDir, CheckedOutOnce, Once
<1>8. ASSUME NEW b \in Branch, OutBranch(b)
      PROVE  GitOK
  BY <1>1, <1>8 DEF OutBranch, CheckedOutOnce, Once, Free
<1>9. ASSUME NEW p \in Path, NEW c \in Condition, OutWork(p, c)
      PROVE  GitOK
  BY <1>1, <1>9 DEF OutWork, CheckedOutOnce, Once
<1>10. GitOK
  BY <1>3, <1>4, <1>5, <1>6, <1>7, <1>8, <1>9 DEF OutsideStep
<1>11. UNCHANGED <<tables, run, crashes>>
  BY DEF OutsideStep, OutAdd, OutSwitch, OutRemove, OutMove, OutDir, OutBranch, OutWork
<1> QED
  BY <1>2, <1>10, <1>11

-----------------------------------------------------------------------------
(* The invariant holds.                                                      *)

LEMMA InitInv == Init => Inv
<1> SUFFICES ASSUME Init PROVE Inv
  OBVIOUS
<1>1. TypeOK
  BY NAssumption, ConditionAssumption, BlankArg
     DEF Init, TypeOK, Listing, Life, ResState, Label, Arg
<1>2. CheckedOutOnce /\ NamesNothing /\ ReservationsDisjoint /\ UniqueActiveBranch /\ Marked
  BY DEF Init, CheckedOutOnce, Once, NamesNothing, ReservationsDisjoint, Unfinished,
         UniqueActiveBranch, Marked
<1>3. Handlers
  BY BlankArg DEF Init, Handlers, Handler, Called, Reserved, Rescanned, Unleased, MarksFirst,
                  Creating, Unsettled, AfterGit
<1> QED
  BY <1>1, <1>2, <1>3 DEF Inv, Stores

\* Every refresh in a handler goes from a label to the next.
LEMMA RefreshesInv ==
    ASSUME Inv, NEW i \in Proc,
           \/ CreateRefresh(i) \/ CreateAgain(i) \/ CreateRecord(i)
           \/ RemoveRefresh(i) \/ LockRefresh(i) \/ LockRecord(i)
    PROVE  Inv'
<1>1. CASE CreateRefresh(i)
  BY <1>1, RefreshInInv DEF CreateRefresh, Label, AfterGit, Creating, Unsettled
<1>2. CASE CreateAgain(i)
  BY <1>2, RefreshInInv DEF CreateAgain, Label, AfterGit, Creating, Unsettled
<1>3. CASE CreateRecord(i)
  BY <1>3, RefreshInInv DEF CreateRecord, Label, AfterGit, Creating, Unsettled
<1>4. CASE RemoveRefresh(i)
  BY <1>4, RefreshInInv DEF RemoveRefresh, Label, AfterGit, Creating, Unsettled
<1>5. CASE LockRefresh(i)
  BY <1>5, RefreshInInv DEF LockRefresh, Label, AfterGit, Creating, Unsettled
<1>6. CASE LockRecord(i)
  BY <1>6, RefreshInInv DEF LockRecord, Label, AfterGit, Creating, Unsettled
<1> QED
  BY <1>1, <1>2, <1>3, <1>4, <1>5, <1>6

LEMMA StutterInv == Inv /\ UNCHANGED vars => Inv'
<1> SUFFICES ASSUME Inv, UNCHANGED vars PROVE Inv'
  OBVIOUS
<1>1. UNCHANGED <<git, tables, run, crashes>> /\ crashes \in 0..Crashes /\ Stores
  BY CrashesStay DEF vars
<1>2. RunOK' /\ Handlers'
  BY <1>1, HandlersStay DEF tables, git
<1> QED
  BY <1>1, <1>2, StoresStay DEF Inv

LEMMA NextInv == Inv /\ [Next]_vars => Inv'
<1> SUFFICES ASSUME Inv, Next PROVE Inv'
  BY StutterInv
<1>1. ASSUME NEW i \in Proc, Create(i) PROVE Inv'
  BY <1>1, CreateBeginInv, RefreshesInv, CreateReserveInv, CreateDecideInv, CreateAdoptInv,
     CreateGitInv, CreateRescanInv, CreateMarkInv, CreateDoneInv DEF Create
<1>2. ASSUME NEW i \in Proc, Remove(i) PROVE Inv'
  BY <1>2, RemoveBeginInv, RefreshesInv, RemoveAssessInv, RemoveStartInv, RemoveRecheckInv,
     RemoveGitInv, RemoveMarkInv, RemoveReleaseInv, RemoveBranchInv DEF Remove
<1>3. ASSUME NEW i \in Proc, SetLock(i) PROVE Inv'
  BY <1>3, LockBeginInv, RefreshesInv, LockGitInv, LockRescanInv DEF SetLock
<1> QED
  BY <1>1, <1>2, <1>3, RefreshInv, CrashInv, LeaseTakeInv, LeaseEndInv, AgeInv, OutsideInv
     DEF Next

\* The invariant, for any paths, branches, keys and processes, whatever is done
\* in Git outside the tool and however often the tool dies.
THEOREM InvHolds == Spec => []Inv
BY InitInv, NextInv, PTL DEF Spec

\* Every variable has its type.
THEOREM TypeOKHolds == Spec => []TypeOK
<1>1. Inv => TypeOK
  BY DEF Inv, Stores
<1> QED
  BY <1>1, InvHolds, PTL

\* Two creations are never under way or standing for one path or one branch.
THEOREM ReservationsDisjointHolds == Spec => []ReservationsDisjoint
<1>1. Inv => ReservationsDisjoint
  BY DEF Inv, Stores
<1> QED
  BY <1>1, InvHolds, PTL

\* No two rows in state 'active' share a branch, so that the update of
\* mark_created never runs into the unique index.
THEOREM UniqueActiveBranchHolds == Spec => []UniqueActiveBranch
<1>1. Inv => UniqueActiveBranch
  BY DEF Inv, Stores
<1> QED
  BY <1>1, InvHolds, PTL

-----------------------------------------------------------------------------
(* Action properties.                                                        *)

\* `git worktree remove' is the only step after which a worktree counts as
\* removed by the tool.
LEMMA OnlyRemoveGit ==
    ASSUME Inv, Next, NEW p \in Path, last[p] # "removed", last'[p] = "removed"
    PROVE  \E i \in Proc : pc[i] = "r_git" /\ arg[i].path = p
<1>1. last \in [Path -> Last]
  BY TypeParts DEF Inv, Stores
<1>3. ASSUME NEW i \in Proc, Create(i) PROVE FALSE
  <2>1. CASE CreateGit(i)
    BY <1>1, <2>1 DEF CreateGit
  <2>2. CASE ~CreateGit(i)
    <3>1. UNCHANGED git
      BY <1>3, <2>2 DEF Create, CreateBegin, CreateRefresh, CreateReserve, CreateDecide,
                        CreateAgain, CreateAdopt, CreateRescan, CreateRecord, CreateMark,
                        CreateDone, RefreshIn
    <3> QED
      BY <3>1 DEF git
  <2> QED
    BY <2>1, <2>2
<1>4. ASSUME NEW i \in Proc, Remove(i) PROVE pc[i] = "r_git" /\ arg[i].path = p
  <2>1. CASE RemoveGit(i)
    <3>1. /\ pc[i] = "r_git"
          /\ UNCHANGED git \/ last' = [last EXCEPT ![arg[i].path] = "removed"]
      BY <2>1 DEF RemoveGit
    <3> QED
      BY <1>1, <3>1 DEF git
  <2>2. CASE ~RemoveGit(i)
    <3>1. UNCHANGED last
      BY <1>4, <2>2 DEF Remove, RemoveBegin, RemoveRefresh, RemoveAssess, RemoveStart,
                        RemoveRecheck, RemoveMark, RemoveRelease, RemoveBranch, RefreshIn, git
    <3> QED
      BY <3>1
  <2> QED
    BY <2>1, <2>2
<1>5. ASSUME NEW i \in Proc, SetLock(i) \/ Crash(i) PROVE FALSE
  <2>1. UNCHANGED last
    BY <1>5 DEF SetLock, LockBegin, LockRefresh, LockGit, LockRescan, LockRecord, Crash,
                RefreshIn, git
  <2> QED
    BY <2>1
<1>6. ASSUME Refresh \/ Age \/ \E q \in Path : LeaseTake(q) \/ LeaseEnd(q) PROVE FALSE
  <2>1. UNCHANGED last
    BY <1>6 DEF Refresh, Age, LeaseTake, LeaseEnd, git
  <2> QED
    BY <2>1
<1>7. ASSUME OutsideStep PROVE FALSE
  BY <1>1, <1>7 DEF OutsideStep, OutAdd, OutSwitch, OutRemove, Unlinked, OutMove, OutDir,
                    OutBranch, OutWork
<1> QED
  BY <1>3, <1>4, <1>5, <1>6, <1>7 DEF Next

\* The tool never removes a worktree that is leased at that moment: leases are
\* taken under the guard, which the removal holds since it rechecked.
THEOREM NoLeasedRemovalHolds == Spec => NoLeasedRemoval
<1>1. ASSUME Inv, [Next]_vars
      PROVE  [\A p \in Path : last[p] # "removed" /\ last'[p] = "removed" => p \notin leased]_vars
  <2>1. CASE UNCHANGED vars
    BY <2>1
  <2>2. CASE Next
    BY <1>1, <2>2, OnlyRemoveGit DEF Inv, Handlers, Handler, Unleased
  <2> QED
    BY <1>1, <2>1, <2>2
<1> QED
  BY <1>1, InvHolds, PTL DEF Spec, NoLeasedRemoval

\* A reconciliation reports nothing missing that the tool removed.
LEMMA ReconcileReports ==
    ASSUME Stores, NEW seen \in Listing, NEW taken, Reconcile(seen, taken),
           \A p \in Path : seen[p] # None => last[p] # "removed",
           NEW p \in Path, last[p] = "removed", rows[p].life = "active"
    PROVE  rows'[p].life # "missing"
<1>1. rows'[p] = RowAfter(p, seen)
  BY DEF Reconcile
<1>2. seen[p] = None /\ rows[p].mark
  BY DEF Stores, Marked
<1> QED
  BY <1>1, <1>2, RowFacts

\* What the other steps do to the life of a row.
LEMMA LivesChange ==
    ASSUME Inv, Next, NEW p \in Path, last[p] = "removed", rows[p].life = "active"
    PROVE  rows'[p].life # "missing"
<1>1. Stores /\ Handlers /\ rows \in Rows
  BY TypeParts DEF Inv, Stores
<1>2. ASSUME NEW i \in Proc, NEW from \in Label \ (AfterGit \cup {"idle"}), NEW to \in Label,
             RefreshIn(i, from, to)
      PROVE  rows'[p].life # "missing"
  <2>1. /\ pc[i] = from /\ arg[i].seen \in Listing
        /\ \A q \in Path : arg[i].seen[q] # None => last[q] # "removed"
    BY <1>1, <1>2, InHandler DEF RefreshIn, Handler, MarksFirst, Arg
  <2>2. \/ Reconcile(arg[i].seen, {}) \/ UNCHANGED rows
    BY <1>2 DEF RefreshIn, tables
  <2> QED
    BY <1>1, <2>1, <2>2, ReconcileReports
<1>3. ASSUME NEW i \in Proc, Create(i) PROVE rows'[p].life # "missing"
  <2>1. CASE CreateRefresh(i) \/ CreateAgain(i) \/ CreateRecord(i)
    BY <1>2, <2>1 DEF CreateRefresh, CreateAgain, CreateRecord, Label, AfterGit
  <2>2. CASE CreateMark(i)
    BY <1>1, <2>2 DEF CreateMark, Rows
  <2>3. CASE ~(CreateRefresh(i) \/ CreateAgain(i) \/ CreateRecord(i) \/ CreateMark(i))
    <3>1. UNCHANGED rows
      BY <1>3, <2>3 DEF Create, CreateBegin, CreateReserve, CreateDecide, CreateAdopt,
                        CreateGit, CreateRescan, CreateDone, tables
    <3> QED
      BY <3>1
  <2> QED
    BY <2>1, <2>2, <2>3
<1>4. ASSUME NEW i \in Proc, Remove(i) PROVE rows'[p].life # "missing"
  <2>1. CASE RemoveRefresh(i)
    BY <1>2, <2>1 DEF RemoveRefresh, Label, AfterGit
  <2>2. CASE RemoveMark(i)
    BY <1>1, <2>2 DEF RemoveMark, Rows
  <2>3. CASE \E m \in BOOLEAN : Mark(i, m)
    BY <1>1, <2>3 DEF Mark, Rows
  <2>4. CASE ~(RemoveRefresh(i) \/ RemoveMark(i) \/ \E m \in BOOLEAN : Mark(i, m))
    <3>1. UNCHANGED rows
      BY <1>4, <2>4 DEF Remove, RemoveBegin, RemoveAssess, RemoveStart, RemoveRecheck,
                        RemoveGit, RemoveRelease, RemoveBranch, tables
    <3> QED
      BY <3>1
  <2> QED
    BY <2>1, <2>2, <2>3, <2>4
<1>5. ASSUME NEW i \in Proc, SetLock(i) \/ Crash(i) PROVE rows'[p].life # "missing"
  <2>1. CASE LockRefresh(i) \/ LockRecord(i)
    BY <1>2, <2>1 DEF LockRefresh, LockRecord, Label, AfterGit
  <2>2. CASE ~(LockRefresh(i) \/ LockRecord(i))
    <3>1. UNCHANGED rows
      BY <1>5, <2>2 DEF SetLock, LockBegin, LockGit, LockRescan, Crash, tables
    <3> QED
      BY <3>1
  <2> QED
    BY <2>1, <2>2
<1>6. ASSUME Refresh \/ \E q \in Path : LeaseTake(q) PROVE rows'[p].life # "missing"
  <2>1. UNCHANGED rows \/ \E taken : Reconcile(at, taken)
    BY <1>6 DEF Refresh, LeaseTake
  <2> QED
    BY <1>1, <2>1, ListedNow, ReconcileReports
<1>7. ASSUME Age \/ OutsideStep \/ \E q \in Path : LeaseEnd(q) PROVE rows'[p].life # "missing"
  <2>1. CASE Age
    BY <1>1, <2>1 DEF Age, Rows
  <2>2. CASE OutsideStep \/ \E q \in Path : LeaseEnd(q)
    BY <2>2 DEF OutsideStep, OutAdd, OutSwitch, OutRemove, OutMove, OutDir, OutBranch, OutWork,
                LeaseEnd, tables
  <2> QED
    BY <1>7, <2>1, <2>2
<1> QED
  BY <1>3, <1>4, <1>5, <1>6, <1>7 DEF Next

\* A worktree that the tool removed is never reported missing, whatever crashed
\* between the Git command and the bookkeeping.
THEOREM RemovedNotMissingHolds == Spec => RemovedNotMissing
<1>1. ASSUME Inv, [Next]_vars
      PROVE  [\A p \in Path :
                 last[p] = "removed" /\ rows[p].life = "active" => rows'[p].life # "missing"]_vars
  <2>1. CASE UNCHANGED vars
    BY <2>1
  <2>2. CASE Next
    BY <1>1, <2>2, LivesChange
  <2> QED
    BY <1>1, <2>1, <2>2
<1> QED
  BY <1>1, InvHolds, PTL DEF Spec, RemovedNotMissing

-----------------------------------------------------------------------------
(* The reservations table implements its promise.                            *)

\* What a step does to the reservations.
LEMMA ReservationSteps ==
    ASSUME Inv, Next
    PROVE  \/ UNCHANGED res
           \/ \E ps \in SUBSET Path : res' = Released(ps)
           \/ \E k \in Key, p \in Path, b \in Branch :
                 /\ res[k].state = "none" /\ SamePathOrBranch(p, b) = {}
                 /\ res' = [res EXCEPT ![k] = [state |-> "pending", path |-> p, branch |-> b]]
           \/ \E k \in Key, s \in {"succeeded", "failed"} :
                 res[k].state = "pending" /\ SetRes(k, s)
<1> DEFINE Kept == UNCHANGED res
           Let == \E ps \in SUBSET Path : res' = Released(ps)
           Made == \E k \in Key, p \in Path, b \in Branch :
                 /\ res[k].state = "none" /\ SamePathOrBranch(p, b) = {}
                 /\ res' = [res EXCEPT ![k] = [state |-> "pending", path |-> p, branch |-> b]]
           Done == \E k \in Key, s \in {"succeeded", "failed"} :
                 res[k].state = "pending" /\ SetRes(k, s)
<1>1. ASSUME NEW seen, NEW taken, Reconcile(seen, taken) PROVE Let
  BY <1>1 DEF Reconcile, Lost
<1>2. ASSUME NEW i \in Proc, NEW from, NEW to, RefreshIn(i, from, to) PROVE Kept \/ Let
  BY <1>1, <1>2 DEF RefreshIn, tables
<1>3. ASSUME NEW i \in Proc, Create(i) PROVE Kept \/ Let \/ Made \/ Done
  <2>1. CASE \E p \in Path, b \in Branch, k \in Key : CreateBegin(i, p, b, k)
    BY <2>1 DEF CreateBegin, tables
  <2>2. CASE CreateRefresh(i) \/ CreateAgain(i) \/ CreateRecord(i)
    BY <1>2, <2>2 DEF CreateRefresh, CreateAgain, CreateRecord
  <2>3. CASE CreateReserve(i)
    <3>1. arg[i].path \in Path /\ arg[i].branch \in Branch /\ arg[i].key \in Key
      BY <2>3, InCreation DEF CreateReserve, Creating
    <3> QED
      BY <2>3, <3>1 DEF CreateReserve
  <2>4. CASE CreateDecide(i)
    <3>1. arg[i].key \in Key
      BY <2>4, InCreation DEF CreateDecide, Creating
    <3> QED
      BY <2>4, <3>1 DEF CreateDecide
  <2>5. CASE CreateAdopt(i)
    <3>1. arg[i].key \in Key /\ res \in Table
      BY <2>5, InCreation, TypeParts DEF CreateAdopt, Creating, Stores
    <3>2. CASE res[arg[i].key].state = "pending"
      BY <2>5, <3>1, <3>2 DEF CreateAdopt, SetRes
    <3>3. CASE res[arg[i].key].state # "pending"
      BY <2>5, <3>1, <3>3 DEF CreateAdopt, Table
    <3> QED
      BY <3>2, <3>3
  <2>6. CASE CreateGit(i) \/ CreateRescan(i) \/ CreateDone(i)
    <3>1. arg[i].key \in Key /\ res[arg[i].key].state = "pending"
      BY <2>6, InCreation
         DEF CreateGit, CreateRescan, CreateDone, Creating, Handler, Reserved, Unsettled
    <3> QED
      BY <2>6, <3>1 DEF CreateGit, CreateRescan, CreateDone
  <2>7. CASE CreateMark(i)
    BY <2>7 DEF CreateMark
  <2> QED
    BY <1>3, <2>1, <2>2, <2>3, <2>4, <2>5, <2>6, <2>7 DEF Create
<1>4. ASSUME NEW i \in Proc, Remove(i) PROVE Kept \/ Let
  <2>1. CASE RemoveRefresh(i)
    BY <1>2, <2>1 DEF RemoveRefresh
  <2>2. CASE RemoveRelease(i)
    BY <2>2, InHandler DEF RemoveRelease
  <2>3. CASE ~RemoveRefresh(i) /\ ~RemoveRelease(i)
    BY <1>4, <2>3 DEF Remove, RemoveBegin, RemoveAssess, RemoveStart, RemoveRecheck,
                      RemoveGit, RemoveMark, RemoveBranch, tables
  <2> QED
    BY <2>1, <2>2, <2>3
<1>5. ASSUME NEW i \in Proc, SetLock(i) \/ Crash(i) PROVE Kept \/ Let
  <2>1. CASE LockRefresh(i) \/ LockRecord(i)
    BY <1>2, <2>1 DEF LockRefresh, LockRecord
  <2>2. CASE ~(LockRefresh(i) \/ LockRecord(i))
    BY <1>5, <2>2 DEF SetLock, LockBegin, LockGit, LockRescan, Crash, tables
  <2> QED
    BY <2>1, <2>2
<1>6. ASSUME Refresh \/ \E p \in Path : LeaseTake(p) \/ LeaseEnd(p) PROVE Kept \/ Let
  BY <1>1, <1>6 DEF Refresh, LeaseTake, LeaseEnd
<1>7. ASSUME Age \/ OutsideStep PROVE Kept
  BY <1>7 DEF Age, OutsideStep, OutAdd, OutSwitch, OutRemove, OutMove, OutDir, OutBranch,
              OutWork, tables
<1> QED
  BY <1>3, <1>4, <1>5, <1>6, <1>7 DEF Next

\* What the promise sees of the table, as in Promise.
Creation == [k \in Key |->
               [phase  |-> CASE res[k].state = "none"      -> "fresh"
                             [] res[k].state = "pending"   -> "pending"
                             [] res[k].state = "succeeded" -> "standing"
                             [] OTHER                      -> "over",
                path   |-> res[k].path,
                branch |-> res[k].branch]]

LEMMA CreationFacts ==
    ASSUME NEW k \in Key
    PROVE  /\ Creation[k].path = res[k].path /\ Creation[k].branch = res[k].branch
           /\ res[k].state = "none"      => Creation[k].phase = "fresh"
           /\ res[k].state = "pending"   => Creation[k].phase = "pending"
           /\ res[k].state = "succeeded" => Creation[k].phase = "standing"
           /\ res[k].state \in {"failed", "released"} => Creation[k].phase = "over"
           /\ Creation[k] = [phase |-> Creation[k].phase, path |-> Creation[k].path,
                             branch |-> Creation[k].branch]
BY DEF Creation

LEMMA CreationFacts1 ==
    ASSUME NEW k \in Key
    PROVE  /\ Creation'[k].path = res'[k].path /\ Creation'[k].branch = res'[k].branch
           /\ res'[k].state = "none"      => Creation'[k].phase = "fresh"
           /\ res'[k].state = "pending"   => Creation'[k].phase = "pending"
           /\ res'[k].state = "succeeded" => Creation'[k].phase = "standing"
           /\ res'[k].state \in {"failed", "released"} => Creation'[k].phase = "over"
           /\ Creation'[k] = [phase |-> Creation'[k].phase, path |-> Creation'[k].path,
                              branch |-> Creation'[k].branch]
BY DEF Creation

\* Every step reserves, settles, releases or leaves the table alone.
LEMMA NextPromise ==
    ASSUME Inv, Next
    PROVE  Promise!Next \/ UNCHANGED Creation
<1> DEFINE C == Creation
           Reserves == \E k \in Key, p \in Path, b \in Branch :
              /\ C[k] = [phase |-> "fresh", path |-> None, branch |-> None]
              /\ \A l \in Key : C[l].phase \in {"pending", "standing"} =>
                    C[l].path # p /\ C[l].branch # b
              /\ C' = [C EXCEPT ![k] = [phase |-> "pending", path |-> p, branch |-> b]]
           Settling == \E k \in Key, phase \in {"standing", "over"} :
              C[k].phase = "pending" /\ C' = [C EXCEPT ![k].phase = phase]
           Releases == \E ps \in SUBSET Path :
              C' = [k \in Key |->
                      IF C[k].phase = "standing" /\ C[k].path \in ps
                      THEN [C[k] EXCEPT !.phase = "over"] ELSE C[k]]
<1>1. SUFFICES Reserves \/ Settling \/ Releases \/ UNCHANGED res
  BY DEF Promise!Next, Promise!Reserve, Promise!Settle, Promise!Release, Promise!Fresh,
         Promise!Holds, Creation
<1>2. /\ C = [k \in Key |-> C[k]] /\ C' = [k \in Key |-> C'[k]]
      /\ \A k \in Key : res[k].state \in ResState
      /\ NamesNothing /\ res \in Table
  BY TypeParts DEF Creation, Inv, Stores, Table
<1>0. \A k \in Key : C[k].path = res[k].path /\ C[k].branch = res[k].branch
  BY CreationFacts
<1> HIDE DEF C
<1>3. ASSUME NEW ps \in SUBSET Path, res' = Released(ps) PROVE Releases
  <2>1. \A k \in Key : C'[k] = IF C[k].phase = "standing" /\ C[k].path \in ps
                               THEN [C[k] EXCEPT !.phase = "over"] ELSE C[k]
    <3> SUFFICES ASSUME NEW k \in Key
                 PROVE  C'[k] = IF C[k].phase = "standing" /\ C[k].path \in ps
                                THEN [C[k] EXCEPT !.phase = "over"] ELSE C[k]
      OBVIOUS
    <3>1. CASE res[k].state = "succeeded" /\ res[k].path \in ps
      <4>1. res'[k] = [res[k] EXCEPT !.state = "released"]
        BY <1>3, <3>1 DEF Released
      <4>2. /\ res'[k].state = "released" /\ res'[k].path = res[k].path
            /\ res'[k].branch = res[k].branch
        BY <1>2, <4>1 DEF Table
      <4>3. C[k].phase = "standing" /\ C[k].path \in ps
        BY <3>1, CreationFacts DEF C
      <4>4. /\ C'[k] = [phase |-> "over", path |-> res[k].path, branch |-> res[k].branch]
            /\ C[k] = [phase |-> "standing", path |-> res[k].path, branch |-> res[k].branch]
        <5>1. C'[k] = [phase |-> "over", path |-> res[k].path, branch |-> res[k].branch]
          BY <4>2, CreationFacts1 DEF C
        <5>2. C[k] = [phase |-> "standing", path |-> res[k].path, branch |-> res[k].branch]
          BY <3>1, CreationFacts DEF C
        <5> QED
          BY <5>1, <5>2
      <4> QED
        BY <4>3, <4>4
    <3>2. CASE ~(res[k].state = "succeeded" /\ res[k].path \in ps)
      <4>1. res'[k] = res[k]
        BY <1>3, <3>2 DEF Released
      <4>2. C'[k] = C[k]
        BY <4>1 DEF C, Creation
      <4>3. ~(C[k].phase = "standing" /\ C[k].path \in ps)
        BY <1>2, <3>2, CreationFacts DEF C, ResState
      <4> QED
        BY <4>2, <4>3
    <3> QED
      BY <3>1, <3>2
  <2> QED
    BY <1>2, <2>1
<1>4. ASSUME NEW k \in Key, NEW p \in Path, NEW b \in Branch,
             res[k].state = "none", SamePathOrBranch(p, b) = {},
             res' = [res EXCEPT ![k] = [state |-> "pending", path |-> p, branch |-> b]]
      PROVE  Reserves
  <2>1. /\ res'[k].state = "pending" /\ res'[k].path = p /\ res'[k].branch = b
        /\ \A l \in Key : l # k => res'[l] = res[l]
    BY <1>2, <1>4 DEF Table
  <2>2. C[k] = [phase |-> "fresh", path |-> None, branch |-> None]
    BY <1>2, <1>4, CreationFacts DEF C, NamesNothing
  <2>3. C'[k] = [phase |-> "pending", path |-> p, branch |-> b]
    BY <2>1, CreationFacts1 DEF C
  <2>4. \A l \in Key : l # k => C'[l] = C[l]
    BY <2>1 DEF C, Creation
  <2>5. C' = [C EXCEPT ![k] = [phase |-> "pending", path |-> p, branch |-> b]]
    BY <1>2, <2>3, <2>4
  <2>6. \A l \in Key : C[l].phase \in {"pending", "standing"} => res[l].state \in Unfinished
    BY <1>2, CreationFacts DEF C, ResState, Unfinished
  <2>7. \A l \in Key : C[l].phase \in {"pending", "standing"} => C[l].path # p /\ C[l].branch # b
    BY <1>4, <1>0, <2>6 DEF SamePathOrBranch
  <2> QED
    BY <2>2, <2>5, <2>7
<1>5. ASSUME NEW k \in Key, NEW s \in {"succeeded", "failed"},
             res[k].state = "pending", SetRes(k, s)
      PROVE  Settling
  <2> DEFINE phase == IF s = "succeeded" THEN "standing" ELSE "over"
  <2>1. /\ res'[k].state = s /\ res'[k].path = res[k].path /\ res'[k].branch = res[k].branch
        /\ \A l \in Key : l # k => res'[l] = res[l]
    BY <1>2, <1>5 DEF SetRes, Table
  <2>2. C'[k] = [phase |-> phase, path |-> res[k].path, branch |-> res[k].branch]
    <3>1. CASE s = "succeeded"
      <4>1. Creation'[k].phase = "standing"
        BY <2>1, <3>1, CreationFacts1
      <4> QED
        BY <2>1, <3>1, <4>1, CreationFacts1 DEF C
    <3>2. CASE s = "failed"
      <4>1. Creation'[k].phase = "over"
        BY <2>1, <3>2, CreationFacts1
      <4> QED
        BY <2>1, <3>2, <4>1, CreationFacts1 DEF C
    <3> QED
      BY <3>1, <3>2
  <2>3. C[k] = [phase |-> "pending", path |-> res[k].path, branch |-> res[k].branch]
    BY <1>5, CreationFacts DEF C
  <2>4. \A l \in Key : l # k => C'[l] = C[l]
    BY <2>1 DEF C, Creation
  <2> HIDE DEF phase
  <2>5. C' = [C EXCEPT ![k].phase = phase]
    BY <1>2, <2>2, <2>3, <2>4
  <2>6. phase \in {"standing", "over"} /\ C[k].phase = "pending"
    BY <2>3 DEF phase
  <2> QED
    BY <2>5, <2>6
<1> QED
  BY <1>3, <1>4, <1>5, ReservationSteps

\* The reservations table keeps what module Reservations promises.
THEOREM LifecycleImplementsReservations == Spec => ImplementsReservations
<1>1. Init => Promise!Init
  BY DEF Init, Promise!Init, Promise!Fresh
<1>2. ASSUME Inv, [Next]_vars PROVE [Promise!Next]_Creation
  <2>1. CASE UNCHANGED vars
    BY <2>1 DEF vars, tables, Creation
  <2> QED
    BY <1>2, <2>1, NextPromise
<1> QED
  BY <1>1, <1>2, InvHolds, PTL DEF Spec, ImplementsReservations, Promise!Spec, Creation

-----------------------------------------------------------------------------
(* As long as nobody beside the tool links, switches or moves worktrees, no  *)
(* reconciliation fails.                                                     *)

Undisturbed == Outside \cap {"add", "switch", "move"} = {}

\* No other worktree has the branch.
Own(q, b) == b # None /\ \A r \in Path : at[r] = b => r = q

\* The branch of a live row, or of a worktree in a listing that is still to be
\* recorded, is in no other worktree; nor will it be, by what a creation is about
\* to do in Git.
Covered == \A q \in Path : rows[q].life = "active" => Own(q, rows[q].branch)

Listed == {"c_refresh", "c_reserve", "c_decide", "c_again", "c_record", "c_mark",
           "r_refresh", "l_refresh", "l_record"}
Current(i) ==
    /\ pc[i] \in Listed => \A q \in Path : arg[i].seen[q] # None => Own(q, arg[i].seen[q])
    /\ pc[i] \in {"c_reserve", "c_decide"} =>
          \A q \in Path : rows[q].life = "active" => rows[q].branch = arg[i].seen[q]
    /\ pc[i] = "c_git" =>
          \A q \in Path : rows[q].life = "active" => rows[q].branch # arg[i].branch

Calm == Covered /\ \A i \in Proc : Current(i)

\* Branches that are checked out nowhere any more are in nobody's way.
LEMMA CoveredStays ==
    ASSUME Covered, \A p \in Path : at'[p] \in {at[p], None},
           \A p \in Path : /\ rows'[p].branch = rows[p].branch
                           /\ rows'[p].life = "active" => rows[p].life = "active"
    PROVE  Covered'
BY DEF Covered, Own

LEMMA ReconcileCovers ==
    ASSUME Inv, NEW seen \in Listing, NEW taken \in SUBSET Path, Reconcile(seen, taken),
           UNCHANGED git, Once(seen), \A p \in Path : seen[p] # None => last[p] # "removed",
           \A p \in Path : seen[p] # None => Own(p, seen[p])
    PROVE  Covered' /\ \A p \in Path : rows'[p].life = "active" => rows'[p].branch = seen[p]
<1>1. \A p \in Path : /\ seen[p] # None => rows'[p].branch = seen[p]
                      /\ rows'[p].life = "active" => seen[p] # None
  BY Reconciled DEF Inv
<1>2. at' = at
  BY DEF git
<1> QED
  BY <1>1, <1>2 DEF Covered, Own

\* Nothing is asked of the other processes.
LEMMA OneHandler ==
    ASSUME Inv', NEW i \in Proc, guard' \in {i, None}, Current(i)'
    PROVE  \A j \in Proc : Current(j)'
BY NoneAssumption DEF Inv, Handlers, Handler, Called, Current, Listed

LEMMA NowOwn ==
    ASSUME Inv
    PROVE  \A q \in Path : at[q] # None => Own(q, at[q])
BY ListedNow DEF Inv, Own, Once

LEMMA CalmTypes ==
    ASSUME Inv, Calm
    PROVE  /\ pc \in [Proc -> Label] /\ arg \in [Proc -> Arg] /\ rows \in Rows /\ at \in Listing
           /\ Covered /\ \A i \in Proc : Current(i)
BY TypeParts DEF Inv, Stores, RunOK, Calm

LEMMA RefreshInCalm ==
    ASSUME Inv, Inv', Calm, NEW i \in Proc, NEW from \in Listed, NEW to, RefreshIn(i, from, to),
           to # "c_git"
    PROVE  Calm'
<1> DEFINE seen == arg[i].seen
<1>1. /\ pc[i] = from /\ UNCHANGED git /\ at' = at /\ Covered
      /\ guard = i /\ pc \in [Proc -> Label] /\ seen \in Listing
      /\ \A q \in Path : seen[q] # None => Own(q, seen[q])
      /\ Handler(i) /\ from \notin AfterGit
  BY InHandler, CalmTypes DEF RefreshIn, Current, git, Listed, Arg, AfterGit
<1>2. CASE Finish(i) /\ UNCHANGED tables
  <2>1. pc'[i] = "idle" /\ guard' = None /\ rows' = rows
    BY <1>1, <1>2 DEF Finish, tables
  <2>2. Current(i)'
    BY <2>1 DEF Current, Listed
  <2> QED
    BY <1>1, <2>1, <2>2, CoveredStays, OneHandler DEF Calm
<1>3. CASE Reconcile(seen, {}) /\ (IF to = "idle" THEN Finish(i) ELSE Goto(i, to))
  <2>1. Once(seen) /\ \A p \in Path : seen[p] # None => last[p] # "removed"
    BY <1>1 DEF Handler, Rescanned, MarksFirst
  <2>2. Covered' /\ \A p \in Path : rows'[p].life = "active" => rows'[p].branch = seen[p]
    BY <1>1, <1>3, <2>1, ReconcileCovers
  <2>3. CASE to = "idle"
    <3>1. pc'[i] = "idle" /\ guard' = None
      BY <1>1, <1>3, <2>3 DEF Finish
    <3>2. Current(i)'
      BY <3>1 DEF Current, Listed
    <3> QED
      BY <2>2, <3>1, <3>2, OneHandler DEF Calm
  <2>4. CASE to # "idle"
    <3>1. arg' = arg /\ guard' = i /\ pc'[i] = to
      BY <1>1, <1>3, <2>4 DEF Goto
    <3>2. Current(i)'
      BY <1>1, <2>2, <3>1 DEF Current, Own
    <3> QED
      BY <2>2, <3>1, <3>2, OneHandler DEF Calm
  <2> QED
    BY <2>3, <2>4
<1> QED
  BY <1>1, <1>2, <1>3 DEF RefreshIn

\* A handler begins with a listing of what is there now.
LEMMA BeginCalm ==
    ASSUME Inv, Inv', Calm, NEW i \in Proc, NEW a, NEW label \in Listed,
           label \notin {"c_reserve", "c_decide"}, a.seen = at,
           Begin(i, label, a), UNCHANGED <<git, tables>>
    PROVE  Calm'
<1>1. UNCHANGED <<at, rows>> /\ guard' = i /\ pc'[i] = label /\ arg'[i].seen = at
  BY CalmTypes DEF Begin, git, tables
<1>2. Current(i)'
  BY <1>1, NowOwn DEF Current, Own, Listed
<1> QED
  BY <1>1, <1>2, CoveredStays, CalmTypes, OneHandler DEF Calm

\* A creation goes on in Git only with a branch that it saw in no worktree.
LEMMA CreateCalm ==
    ASSUME Inv, Inv', Calm, NEW i \in Proc, Create(i)
    PROVE  Calm'
<1>1. /\ pc \in [Proc -> Label] /\ arg \in [Proc -> Arg] /\ rows \in Rows /\ at \in Listing
      /\ Covered /\ Current(i)
  BY CalmTypes
<1>2. CASE CreateRefresh(i) \/ CreateAgain(i) \/ CreateRecord(i)
  BY <1>2, RefreshInCalm DEF CreateRefresh, CreateAgain, CreateRecord, Listed
<1>3. CASE \E p \in Path, b \in Branch, k \in Key : CreateBegin(i, p, b, k)
  <2>1. PICK p \in Path, b \in Branch, k \in Key : CreateBegin(i, p, b, k)
    BY <1>3
  <2> DEFINE a == [Blank EXCEPT !.path = p, !.branch = b, !.key = k, !.seen = at]
  <2>2. a.seen = at /\ "c_refresh" \in Listed
    BY DEF Blank, Listed
  <2>3. Begin(i, "c_refresh", a) /\ UNCHANGED <<git, tables>>
    BY <2>1 DEF CreateBegin
  <2> HIDE DEF a
  <2> QED
    BY <2>2, <2>3, BeginCalm
<1>4. CASE CreateReserve(i) \/ CreateDecide(i) \/ CreateAdopt(i) \/ CreateRescan(i) \/ CreateDone(i)
  <2>1. UNCHANGED <<at, rows>> /\ pc[i] # "idle" /\ guard = i
    BY <1>4, InHandler DEF CreateReserve, CreateDecide, CreateAdopt, CreateRescan, CreateDone, git
  <2>2. \/ Finish(i)
        \/ pc[i] = "c_reserve" /\ Goto(i, "c_decide")
        \/ pc[i] = "c_decide" /\ Goto(i, "c_again")
        \/ /\ pc[i] = "c_decide" /\ Goto(i, "c_git")
           /\ \A q \in Path : arg[i].seen[q] # arg[i].branch
        \/ Rescan(i, "c_record")
    BY <1>4 DEF CreateReserve, CreateDecide, CreateAdopt, CreateRescan, CreateDone
  <2>3. guard' \in {i, None}
    BY <2>1, <2>2 DEF Finish, Goto, Rescan
  <2>4. Current(i)'
    <3>1. CASE Finish(i)
      BY <1>1, <3>1 DEF Finish, Current, Listed
    <3>2. CASE \/ pc[i] = "c_reserve" /\ Goto(i, "c_decide")
               \/ pc[i] = "c_decide" /\ Goto(i, "c_again")
      BY <1>1, <2>1, <3>2 DEF Goto, Current, Listed, Own
    <3>3. CASE /\ pc[i] = "c_decide" /\ Goto(i, "c_git")
               /\ \A q \in Path : arg[i].seen[q] # arg[i].branch
      BY <1>1, <2>1, <3>3 DEF Goto, Current, Listed
    <3>4. CASE Rescan(i, "c_record")
      <4>1. pc'[i] = "c_record" /\ arg'[i].seen = at /\ at' = at
        BY <1>1, <2>1, <3>4 DEF Rescan, Arg
      <4> QED
        BY <4>1, NowOwn DEF Current, Own
    <3> QED
      BY <2>2, <3>1, <3>2, <3>3, <3>4
  <2> QED
    BY <1>1, <2>1, <2>3, <2>4, CoveredStays, OneHandler DEF Calm
<1>5. CASE CreateGit(i)
  <2> DEFINE p == arg[i].path
             b == arg[i].branch
  <2>1. /\ pc[i] = "c_git" /\ guard = i /\ rows' = rows
        /\ \A q \in Path : rows[q].life = "active" => rows[q].branch # b
    BY <1>1, <1>5, InHandler DEF CreateGit, Current
  <2>2. /\ guard' \in {i, None} /\ pc'[i] \in {"idle", "c_rescan"}
        /\ at' = at \/ at' = [at EXCEPT ![p] = b]
    BY <1>1, <1>5, <2>1 DEF CreateGit, Finish, Goto
  <2>3. Current(i)'
    BY <2>2 DEF Current, Listed
  <2>4. \A q \in Path : at'[q] \in {at[q], b}
    BY <1>1, <2>2 DEF Listing
  <2>5. Covered'
    BY <1>1, <2>1, <2>4 DEF Covered, Own
  <2> QED
    BY <2>2, <2>3, <2>5, OneHandler DEF Calm
<1>6. CASE CreateMark(i)
  <2> DEFINE p == arg[i].path
  <2>1. /\ pc[i] = "c_mark" /\ guard = i /\ at' = at /\ Goto(i, "c_done")
        /\ rows' = [rows EXCEPT ![p].created = "young", ![p].life = "active"]
        /\ p \in Path /\ rows[p].branch = arg[i].seen[p] /\ Own(p, rows[p].branch)
    BY <1>1, <1>6, InHandler, InCreation, NoneAssumption
       DEF CreateMark, Creating, Current, Handler, Rescanned, git, Listed
  <2>2. \A q \in Path : /\ rows'[q].branch = rows[q].branch
                        /\ q # p => rows'[q] = rows[q]
    BY <1>1, <2>1 DEF Rows
  <2>3. \A q \in Path : rows'[q].life = "active" => Own(q, rows[q].branch)
    BY <1>1, <2>1, <2>2 DEF Covered
  <2>4. Covered'
    <3>1. \A q \in Path : rows'[q].life = "active" => Own(q, rows'[q].branch)
      BY <2>2, <2>3
    <3> QED
      BY <2>1, <3>1 DEF Covered, Own
  <2>5. guard' = i /\ pc'[i] = "c_done"
    BY <1>1, <2>1 DEF Goto
  <2>6. Current(i)'
    BY <2>5 DEF Current, Listed
  <2> QED
    BY <2>4, <2>5, <2>6, OneHandler DEF Calm
<1> QED
  BY <1>2, <1>3, <1>4, <1>5, <1>6 DEF Create

LEMMA RemoveCalm ==
    ASSUME Inv, Inv', Calm, NEW i \in Proc, Remove(i)
    PROVE  Calm'
<1>1. /\ pc \in [Proc -> Label] /\ arg \in [Proc -> Arg] /\ rows \in Rows /\ at \in Listing
      /\ Covered
  BY CalmTypes
<1>2. CASE RemoveRefresh(i)
  BY <1>2, RefreshInCalm DEF RemoveRefresh, Listed
<1>3. ASSUME NEW p \in Path, NEW f \in BOOLEAN, RemoveBegin(i, p, f)
      PROVE  Calm'
  <2> DEFINE a == [Blank EXCEPT !.path = p, !.flag = f, !.seen = at]
  <2>1. a.seen = at /\ "r_refresh" \in Listed
    BY DEF Blank, Listed
  <2>2. Begin(i, "r_refresh", a) /\ UNCHANGED <<git, tables>>
    BY <1>3 DEF RemoveBegin
  <2> HIDE DEF a
  <2> QED
    BY <2>1, <2>2, BeginCalm
<1>4. CASE ~RemoveRefresh(i) /\ ~\E p \in Path, f \in BOOLEAN : RemoveBegin(i, p, f)
  <2>1. pc[i] # "idle" /\ guard = i
    BY <1>4, InHandler DEF Remove, RemoveAssess, RemoveStart, RemoveRecheck,
                           RemoveGit, RemoveMark, RemoveRelease, RemoveBranch
  <2>2. guard' \in {i, None} /\ pc'[i] \notin Listed \cup {"c_git"}
    BY <1>1, <1>4, <2>1 DEF Remove, RemoveAssess, RemoveStart, RemoveRecheck,
                            RemoveGit, RemoveMark, RemoveRelease, RemoveBranch,
                            Finish, Goto, Listed
  <2>3. \A j \in Proc : Current(j)'
    BY <2>2, OneHandler DEF Current, Listed
  <2>4. \A q \in Path : /\ rows'[q].branch = rows[q].branch
                        /\ rows'[q].life = "active" => rows[q].life = "active"
    BY <1>1, <1>4 DEF Remove, RemoveAssess, RemoveStart, RemoveRecheck, tables,
                      RemoveGit, RemoveMark, RemoveRelease, RemoveBranch, Mark, Rows
  <2>5. at' = at \/ at' = [at EXCEPT ![arg[i].path] = None]
    BY <1>4 DEF Remove, RemoveAssess, RemoveStart, RemoveRecheck, git,
                RemoveGit, RemoveMark, RemoveRelease, RemoveBranch
  <2>6. \A q \in Path : at'[q] \in {at[q], None}
    BY <1>1, <2>5 DEF Listing
  <2> QED
    BY <1>1, <2>3, <2>4, <2>6, CoveredStays DEF Calm
<1> QED
  BY <1>2, <1>3, <1>4

LEMMA LockCalm ==
    ASSUME Inv, Inv', Calm, NEW i \in Proc, SetLock(i) \/ Crash(i)
    PROVE  Calm'
<1>1. /\ pc \in [Proc -> Label] /\ arg \in [Proc -> Arg] /\ Covered
  BY CalmTypes
<1>2. CASE LockRefresh(i) \/ LockRecord(i)
  BY <1>2, RefreshInCalm DEF LockRefresh, LockRecord, Listed
<1>3. CASE ~(LockRefresh(i) \/ LockRecord(i))
  <2>1. UNCHANGED <<at, rows>>
    BY <1>3 DEF SetLock, LockBegin, LockGit, LockRescan, Crash, git, tables
  <2>2. pc[i] # "idle" => guard = i
    BY InHandler
  <2>3. /\ guard' \in {i, None}
        /\ \/ pc'[i] \notin Listed \cup {"c_git"}
           \/ pc'[i] \in {"l_refresh", "l_record"} /\ arg'[i].seen = at
    <3>1. CASE \E p \in Path, f \in BOOLEAN : LockBegin(i, p, f)
      BY <1>1, <3>1 DEF LockBegin, Begin, Listed, Blank
    <3>2. CASE LockGit(i)
      BY <1>1, <2>2, <3>2 DEF LockGit, Finish, Goto, Listed
    <3>3. CASE LockRescan(i)
      BY <1>1, <2>2, <3>3 DEF LockRescan, Finish, Rescan, Listed, Arg
    <3>4. CASE Crash(i)
      BY <1>1, <3>4 DEF Crash, Finish, Listed
    <3> QED
      BY <1>3, <3>1, <3>2, <3>3, <3>4 DEF SetLock
  <2>4. Current(i)'
    BY <2>1, <2>3, NowOwn DEF Current, Listed, Own
  <2> QED
    BY <1>1, <2>1, <2>3, <2>4, CoveredStays, OneHandler DEF Calm
<1> QED
  BY <1>2, <1>3

LEMMA NextCalm ==
    ASSUME Undisturbed, Inv, Inv', Calm, [Next]_vars
    PROVE  Calm'
<1>1. /\ rows \in Rows /\ at \in Listing /\ Covered /\ \A i \in Proc : Current(i)
  BY CalmTypes
<1>2. CASE Refresh \/ \E p \in Path : LeaseTake(p)
  <2>1. UNCHANGED git /\ at' = at /\ guard' = None
    BY <1>2 DEF Refresh, LeaseTake, run, git
  <2>2. \A i \in Proc : Current(i)'
    BY <2>1, NoneAssumption DEF Inv, Handlers, Handler, Called, Current, Listed
  <2>3. CASE UNCHANGED rows
    BY <1>1, <2>1, <2>2, <2>3, CoveredStays DEF Calm
  <2>4. CASE \E taken \in SUBSET Path : Reconcile(at, taken)
    BY <1>1, <2>1, <2>2, <2>4, ListedNow, NowOwn, ReconcileCovers DEF Calm, Inv
  <2> QED
    BY <1>2, <2>3, <2>4 DEF Refresh, LeaseTake
<1>3. CASE Age \/ OutsideStep \/ UNCHANGED vars \/ \E p \in Path : LeaseEnd(p)
  <2>1. /\ UNCHANGED <<pc, arg>> /\ \A q \in Path : at'[q] \in {at[q], None}
        /\ \A q \in Path : rows'[q].branch = rows[q].branch /\ rows'[q].life = rows[q].life
    <3>1. CASE Age
      BY <1>1, <3>1 DEF Age, run, Rows
    <3>2. CASE OutsideStep
      <4>1. UNCHANGED <<run, tables>> /\ (at' = at \/ \E p \in Path : at' = [at EXCEPT ![p] = None])
        BY <3>2 DEF OutsideStep, OutAdd, OutSwitch, OutRemove, OutMove, OutDir, OutBranch, OutWork,
                    Unlinked, Undisturbed
      <4> QED
        BY <1>1, <4>1 DEF tables, run, Listing
    <3>3. CASE UNCHANGED vars \/ \E p \in Path : LeaseEnd(p)
      BY <3>3 DEF LeaseEnd, vars, git, tables, run
    <3> QED
      BY <1>3, <3>1, <3>2, <3>3
  <2>2. \A i \in Proc : Current(i)'
    BY <1>1, <2>1 DEF Current, Own
  <2> QED
    BY <1>1, <2>1, <2>2, CoveredStays DEF Calm
<1> QED
  BY <1>2, <1>3, CreateCalm, RemoveCalm, LockCalm DEF Next

\* As long as nobody else moves branches between worktrees, nothing that crashed
\* or failed leaves rows behind that a reconciliation trips over.
THEOREM NeverWedgedHolds == Undisturbed /\ Spec => []NeverWedged
<1>1. Init => Calm
  BY DEF Init, Calm, Covered, Current, Listed
<1>2. Undisturbed /\ Inv /\ Inv' /\ Calm /\ [Next]_vars => Calm'
  BY NextCalm
<1>3. Inv /\ Calm => NeverWedged
  BY DEF Calm, Covered, Own, NeverWedged, Conflict
<1>4. Undisturbed => []Undisturbed
  BY DEF Undisturbed
<1> QED
  BY <1>1, <1>2, <1>3, <1>4, InvHolds, PTL DEF Spec
=============================================================================

# Formal models of git-worktree-manager

`git-worktree-manager` keeps an inventory of the Git worktrees of a repository
and lets people and coding agents create, lease, inspect and remove them.  It
deletes directories and branches, it is called by several processes at once, and
it keeps two stores, Git and a SQLite file, that no transaction spans.  The TLA+
modules here model that part of the program; TLC checks them on small instances,
and TLAPS proves the safety properties of its five state machines for every
instance, and what its parsers of Git's output and its reader of strings
make of inputs of any length.

Paths are relative to the repository; `src/` below is the crate's source
directory.

## 1. The system

### Components, their state and operations

| Component | State | Operations | Model |
|---|---|---|---|
| Sessions and leases (`src/inventory.rs`, `src/service.rs`) | tables `sessions`, `leases` | register, heartbeat, acquire, release lease, release session, staling by reconciliation, expiry | `Leases` |
| Worktree lifecycle (`src/service.rs`, `src/inventory.rs`) | Git's worktree list, directories, branches; tables `worktrees`, `reservations`, `events` | create, remove, lock, unlock, refresh | `Lifecycle` |
| Request journal (`src/daemon.rs`, `src/inventory.rs`) | table `requests`; a mutex per daemon, two flocks | serve, `handle_idempotent`, client retries, startup | `Journal` |
| Cleanup assessment (`src/service.rs`, `src/git.rs`, `src/process.rs`) | what was discovered of the repository, once in the life of a process | `discover`, `inspect_worktree`, `active_processes`, `assess_worktree` | `Assessment` |
| Daemon startup and socket (`src/daemon.rs`, `src/cli.rs`) | a Unix socket, a connection counter | probe, unlink, bind, listen, accept, `wtm daemon clean`; the command line looks for a daemon, starts one, waits, kills it, repeats | `Socket`; locks of the startup and connection counter in `Journal` |
| Porcelain parsers (`src/git.rs`) | none | `parse_worktree_list_porcelain`, `parse_status_porcelain` | `Porcelain`; with the assessment in `Inspection` |
| SQLite binding, schema (`src/inventory.rs`) | connection | prepare, bind, step; DDL | not modelled |
| JSON codec, operation hash (`src/json.rs`, `src/daemon.rs`) | none | `parse`, `to_json`, `string`, `request_operation` | `Json`; strings in `Strings` |
| Command line, display (`src/cli.rs`, `src/main.rs`) | none | options, formatting | not modelled |
| Disk usage, timestamps (`src/git.rs`, `src/model.rs`) | none | read-only | only that they may fail |

### How they interact

- A command either runs the service in its own process or sends a request over
  a Unix socket to a daemon, which runs the same service in a thread per
  connection.  A command sends its request at most twice under one request id
  (`src/cli.rs` 939-977), and looks for a daemon, or starts one, before each; the
  client of the library repeats it three times (`src/daemon.rs` 986-1028).
- A daemon is known by one path in the file system.  Starting daemons, ending
  ones, `wtm daemon clean` and commands whose daemon failed all look at that path
  and remove it, and no lock keeps them apart.
- A thread of the daemon takes the request mutex, the flock of the database's
  name and the flock of the database file, first to open a service and then
  again to look its request up in the journal, execute it and record the answer.
- Every mutating handler of the service runs under the *mutation guard*, a
  mutex of the process and a flock in the common Git directory.  It begins with
  a *reconciliation*: `git worktree list` is compared with the table of
  worktrees, new rows are inserted, and what is gone is marked missing or
  removed, its sessions stale and its reservations released.
- Git may be used beside the tool at any time and waits for none of these locks.

### What is hard

Two stores without a common transaction, and a crash between any two steps;
decisions taken on a listing and used several Git commands later; leases that
run out by the clock; clients that give up while their request is still
executing, and repeat it; databases with two names and databases replaced under
their name; a socket that is removed by one process while another binds it;
a request that goes to another daemon than the one that said it is ready; reads of Git and of the process table that fail and leave a default
that looks harmless.  `PROJECT.json` lists these hazards at their lines with the
properties that cover them.

### What makes each component correct

- Leases: one owner per worktree; an owner is never replaced while it counts on
  its lease; no lease outlives its session.
- Lifecycle: two creations never share a path or a branch; a crash leaves
  nothing behind that wedges the tool or keeps a reservation pending; the table
  tells what the tool removed from what others removed; no leased worktree is
  removed.
- Journal: a success is decided once and everybody is told that one; requests
  on one database are executed one at a time; nobody waits for ever.
- Socket: a command that finds no daemon starts one, and fails only if something
  failed; it is answered from its own database; it leaves no dead socket; it ends.
- Parsers and codec: what Git or the writer means is what is read, or nothing is.
- Assessment: what is called eligible can be removed without a loss, also if reads
  failed.  For failures that Git or `lsof` reports by nothing but its exit this is not so; the
  properties name these and what they cost.

## 2. The modules

| Module | What it is |
|---|---|
| `LeaseLock` | abstract: an exclusive lock per worktree whose owner is only given up, never replaced |
| `Leases` | the two tables and every handler that writes them; implements `LeaseLock` |
| `LeasesProofs` | theorems about `Leases` |
| `Reservations` | abstract: a creation holds its path and its branch until it failed or its worktree is gone |
| `Lifecycle` | create, remove, lock, unlock and refresh step by step, crashes, Git used outside; implements `Reservations` |
| `LifecycleProofs` | theorems about `Lifecycle` |
| `OnceOnly` | abstract: a request is decided once and told as decided |
| `Journal` | clients, daemons, threads, three locks, the connection limit, the `requests` table; implements `OnceOnly` |
| `JournalProofs` | theorems about `Journal` |
| `Socket` | the path of the socket, daemons that start and end, commands that look for one, cleaners |
| `SocketProofs` | theorems about `Socket` |
| `Scan` | how readers go through their input: an element that is read may take the next one with it |
| `Strings` | how strings of JSON are read and written, and how a text may be spelled |
| `StringsProofs` | theorem about `Strings` |
| `Json` | reader and writer of values, and the bytes that identify an operation |
| `Porcelain` | the two parsers of what Git prints, and what Git means by it |
| `Assessment` | observation with failing reads, and classification |
| `AssessmentProofs` | theorems about `Assessment` |
| `Inspection` | `Assessment` and `Porcelain` composed: from what Git prints to the verdict |
| `InspectionProofs` | theorems about `Inspection`, and so about both parsers |
| `Induction` | lemmas on recursion over data, for the last two |
| `MCLeases`, `MCLifecycle`, `MCJournal`, `MCSocket` | definitions for TLC: symmetry sets, which client uses which request id |
| `MCAssessment` | `Inspection`, `Json` and `Strings` side by side |

In a module, definitions whose comment begins with `mutant:` are plausible bugs
of the definition that follows them.  No specification uses them; substituting
one for its neighbour makes a property fail and so shows that the property says
something about the code.

### Leases

All handlers run under the mutation guard and write in one transaction, so each
is one action.  A row of `leases` carries the time it has left; every comparison
in the code is of `expires_at` with the current time, and `expires_at <= now` is
`left = 0`.  `Tick` is the clock.  Only rows in state 'active' are kept, as no
handler decides anything by another.

| Action | Code |
|---|---|
| `Register`, `Heartbeat`, `Acquire`, `ReleaseLease`, `ReleaseSession` | the handlers of these names in `src/service.rs` with `register_session` ... `release_session` in `src/inventory.rs` |
| `Take` | `acquire_lease_inner` |
| `Reconcile`, `Settled`, `Kept`, `Vanished` | `refresh_from_worktrees`, `mark_sessions_stale_for_worktree` |
| `ToolRemove` | what the removal of `Lifecycle` does to these tables |
| `GitChange`, `Tick` | the environment |

The history variable `told` is what the client of a session was last told of its
lease, counted down with the clock: the properties relate the table to it.

### Lifecycle

One action is one Git command or one transaction.  `pc` says where a process is
in its handler, `arg` carries what the handler read before (in particular
`arg.seen`, the listing it works on), and `guard` is the holder of the mutation
guard.  A step that fails in the code (an error of Git, a conflict in the
unique index on the branches of live rows) is a disjunct that ends the handler
with the code's clean-up.  `Crash` ends a handler anywhere without it.

| Actions | Code |
|---|---|
| `CreateBegin` ... `CreateDone` | `RepositoryService::create`, `Inventory::reserve_creation`, `mark_created`, the reservation updates |
| `RemoveBegin` ... `RemoveBranch` | `remove_with_minimum_age`, `recheck_...`, `mark_removed`, `release_reservations_for_worktree` |
| `LockBegin` ... `LockRecord` | `set_lock` |
| `Reconcile`, `RefreshIn`, `Conflict`, `RowAfter`, `GoneAs` | `refresh_from_worktrees`: the order of the upserts against the unique index, the event that decides between 'missing' and 'removed' |
| `OutAdd`, `OutRemove`, `OutSwitch`, `OutMove`, `OutDir`, `OutBranch`, `OutWork` | Git and file commands outside the tool |
| `LeaseTake`, `LeaseEnd` | `Leases`, as far as removal sees it |

`rows[p].mark` is whether the last `remove_worktree` event of the row is other
than a failure.  The history variable `last` says how each path last came to be
linked or unlinked; no action reads it.

The refinement of `Reservations` maps a row of the reservations table to the
phase of the creation that its key stands for; failed and released are both
'over'.  Every step of a handler, of a reconciliation and of a crash has to be
one reservation, one settlement, or the release of the creations at some paths.

### Journal

A thread serves one attempt of a client.  The locks are not variables: a lock is
held by whoever is at a label of its set (`HoldsMutex`, `HoldsName`,
`HoldsFile`), as the guards of the code are values that live from one label to
another.  Opening the service and serving the request are two stints with the
locks let go in between.  Executing a request is one action here (`Lifecycle` has its
steps) and its answer is the number of the execution, so that an answer of an
earlier execution can be told from a later one.  `Replace` puts another file
behind a name; `SameFile` is `ensure_path_identity`, and `Replaced` the ending
of a thread that finds the file changed.  A connection beyond `MaxConnections` is
closed at once (`Full`); the counter `active` is given back by every ending
(`Ends`), as the guard of the code is dropped however the thread ends.  One way
is a thread whose request never begins (`NotOpened`): its first byte is late, or
its database cannot be opened, for which it is enough that another process
touches the file at that moment (the identity that is compared includes the
time of the last change, `src/inventory.rs` 443-476).

### Socket

`path` is the socket at the path, known by the daemon that bound it.  One action
is one system call of a daemon or a cleaner (`Look`, `Probe`, `Unlink`, `Bind`,
`Listen`, `Chmod`), or one step of a command.  `prepare_socket_path` and
`clean_stale_socket` make the same calls and share their actions; `After` and
`Ends` say where each caller goes from there.  `bind` and `listen` are apart, as
the library makes two system calls of them: between the two the socket refuses
connections and passes for a dead one.

| Actions | Code |
|---|---|
| `Ping`, `Spawn`, `Wait`, `Grace`, `Deadline` | `daemon_client`: first handshake, start of the child, loop, half a second after its exit, kill after 120 seconds |
| `Answers`, `Ready`, `NotReady` | `daemon_is_ready`, which compares the database of whoever answers |
| `Request`, `Reply`, `Fails` | `send_once` on a connection of its own, and the one repetition of `daemon_request_result` |
| `Open`, `Bind`, `Listen`, `Chmod`, `AcceptFails` | `DaemonServer::open` and `serve` |
| `Clean`, `StartManual` | `wtm daemon clean`, `wtm daemon` |

Time enters twice.  A handshake that a daemon could answer may still be answered
too late, for instance because the daemon waits for the locks of a long request
(a fault of the bound `Faults`).  And `Patient`: half a second and 120 seconds are taken
to be longer than the few system calls between the first look at the path and
`chmod`, so that a command does not give up while a daemon is at them.  Opening a database,
which waits for locks, may take longer than the deadline, which is a fault again.

`since` is a history variable.  It says whether, since a command began,
something happened that no command can cope with: 'excused' after a fault, a removal of the
socket by a cleaner, a daemon of another database at the path, or a second
'theft', the removal of a live socket by a starting daemon.

### Strings and Json

What stands between the quotes of a string is a sequence of units, and a unit is a
character as it is, the letter of a short escape, or the number of a `\u` escape.
`Good` is whether the unit at a place can be read, `Char` the character it stands for,
alone or with the one after it (`Pair`), and `After` the place of the next one.
`Scan` goes through them.  The reference definition is `Spellings`, all ways to spell a text.

A text of `Json` is a sequence of tokens, in which a string is one.  `ReadValue` and
`Elements` are the recursive descent of
`Parser`, `Encode` is the sequence of bytes that `stable_hash_value` hashes, with
`Sorted` its stable sort of the fields.  The reference definitions are the
values themselves (what is written must be read)
and `Same` (equal but for the order of fields).  `Journal` compares operations
by a constant `OpOf`; `SameOperation` is what makes that a faithful picture, as
far as the hash tells bytes apart.  Names with control characters, which could
imitate a length, are not among those tried.

### Porcelain

`ParseStatus` and `ParseList` are the parsers, over fields that are already
split at NULs.  A status is gone through by `Scan`, as an entry takes its source
with it.  A listing is folded twice, into records (`Took`) and each record into a worktree
(`With`).  `Edit` and `Listed` are the changes and worktrees that Git may
report, over names and reasons from a constant set `Text`, `PrintEdit` and `PrintWorktree` what it prints for them,
and `Meant` and
`Understood` what the tool should make of it; these are external.  A name that is not UTF-8
(`Garbled`) is refused, a lock reason that is not is replaced.

### Assessment

`worktree` is what is true of a worktree and of the refs of its repository.  `handle` is what
`discover` found of these refs, `failed` the set of reads of the worktree that
failed, and each operator of the middle section is what one function returns
given these.

| Step | Code |
|---|---|
| `Discover` | `GitRepository::discover`: the branch that origin/HEAD names, the local integration branch, its remote branch.  Any of the lookups (`lost`) may exit with an error, which `has_ref` and `find_remote_integration_branch` take for "there is none" |
| `RefMoves` | somebody fetches, commits, merges, creates or deletes a branch.  A command discovers when it starts, a daemon once in its life (`src/cli.rs` 174, `src/daemon.rs` 260), so that much may happen in between |
| `Fails` | one more read of the worktree fails |
| `Assess` | the reads and `assess_worktree`, as far as `cleanup_scan` and `remove` share them |

A read fails in one of two ways.  With an `Error` if Git cannot be run, prints what cannot be
read, or, where the code requires success, exits with an error; these are collected in
`observation_error` (`Incomplete`) or, of `lsof`, are a blocker of their own.  With an `Exit` if
the code looks at the status and goes on: `rev-list` and `merge-base` leave
an unknown, which is a blocker; `rev-parse @{upstream}`, `git show`, `show-ref`
and an `lsof` that exits with 1 and prints nothing pass for an answer.
The remote branch is looked up for each worktree only if the request has a base (`Target`); without one it is the
one of the discovery.  Processes of the program itself are dropped from the answer of `lsof` (`"self"`).
`Grounds` is the list of blockers of `assess_worktree`, each with its classification, and
`Promoted` the fold of `promote_classification`.

Three properties share what can go wrong.  `EligibleIsSafe` is about the
worktree and the branch that it is compared with, and `RemoteIsRespected` about the remote branch
that is there at the moment of the assessment: an eligible worktree is merged into it unless
its lookup exited with an error, or there is no base and refs moved since the discovery.
`FailureBlocks` lists the failures that an eligible worktree may have.

`Inspection` puts a parser before it: a worktree that nothing but its changes keeps
(`Idle`) is, after a discovery without a failure, assessed with the status that was parsed, and a status that
cannot be parsed is a failed read.

## 3. The runs

| Run | Instance | What it shows |
|---|---|---|
| `leases` | 2 worktrees, 3 sessions, 3 lease ids, TTL up to 2 (85 thousand states) | types; `LeaseExclusive`, `ActiveLeaseOwner`, `ToldLeaseStands`, `OneBeliever`; `Leases` implements `LeaseLock` |
| `lifecycle_one_path` | 1 path, 1 branch, 2 keys, 2 processes, 1 crash, all conditions, every outside command but move (400 thousand) | types; `Lifecycle` implements `Reservations`; no leased worktree is removed by the tool |
| `lifecycle_moves` | 2 paths, 2 branches, 1 crash, move and switch (1.8 million) | no two live rows share a branch; what the tool removed is never reported missing |
| `lifecycle_retries` | 2 paths, 2 keys, 1 branch, 2 crashes, fair (108 thousand) | unfinished creations never share a path or a branch; no interrupted handler wedges the reconciliation; an interrupted creation does not stay pending if the call is repeated |
| `journal_ends` | 2 daemons, 2 names of 1 file, 3 attempts, 2 connections, 2 crashes, fair (186 thousand) | one execution at a time; none after a recorded success; every attempt ends |
| `journal_clients` | 1 daemon, 2 clients with one id for two operations, 2 files, 2 attempts, 3 connections, 1 fault (736 thousand) | types; nobody is told the answer of another operation; connections are counted; `Journal` implements `OnceOnly` |
| `assessment` | worktrees with every two of: a condition or change that keeps it, a read or a lookup that fails, refs that moved; 2 branches here and at origin, each absent, merged or not; every base or none (2.1 million); statuses and listings of up to 2 records over two names of which one is garbled (187 thousand); texts of up to 6 tokens, 421 parameter objects (598 thousand); texts and strings of up to 3 units (47 thousand) | `EligibleIsSafe`, `RemoteIsRespected`, `FailureBlocks`, `PolicyOrder`; `StatusIsUnderstood`, `ListIsUnderstood`, `DirtyIsAssessed`; `ReadsWhatItWrites`, `SameOperation`; `StringsAreRead` |
| `socket` | 2 commands, a daemon of another database started by hand, a cleaner, of which 2 run; 2 faults, fair (478 thousand) | types; a command fails only for a reason, is answered from its own database, leaves no socket of a failed child, and ends |
| `age_respected`, `retry_releases`, `inventory_catches_up`, `use_is_blocked` | as small as shows it | statements of the documentation that the code does not keep, see section 6 |

The properties of `Json`, `Strings` and `Porcelain` are about single inputs.  What is written,
read or reported is a variable (`tried`, `given`, `reported`) that the initial states of
`assessment` give every value within the bounds, one of them at a time.  A behaviour that begins with a
reported status goes on to assess a worktree with these changes, so that
`DirtyIsAssessed` reaches from what Git prints to the verdict.

### Bounds, and why they are enough

- *Leases.*  Two sessions fight for a worktree and a third may hold another or
  come in between; three ids allow a second active row of a worktree to
  appear; a TTL of 2 has the states fresh, due at the next tick and due now.
  One provider: the check of the provider only refuses calls, and the theorems
  hold for any number.
- *Lifecycle.*  A conflict of two rows needs two paths.  Handlers exclude each other by the guard,
  which `Begin` requires and only `Finish` frees, so that a
  second process adds names and no behaviour; it is there in
  `lifecycle_one_path` only to show that.  Two crashes let a recovery crash again.  Each run restricts
  the outside commands (`Outside`) to those that matter to its question; all of them
  fire in one run or another.
- *Journal.*  Two attempts is what a command makes (`src/cli.rs` 939-977); with a
  third, `journal_ends` also has a daemon that is full.  Two names are needed to bypass the lock of the name,
  two files for a replacement; `Faults` bounds crashes and replacements together.
- *Socket.*  Each command has two attempts and so two children; two invocations
  are two commands with up to four daemons, or a command beside a cleaner or a
  daemon of another database.  Two faults let the repetition go wrong as the first attempt did.  The
  safety properties also hold with three invocations and one fault (2.1 million states with
  symmetric commands, not among the runs).
- *Json and Strings.*  Six tokens are an array or an object with an element too many, too
  few or too deep for a limit of 2; three units are a surrogate pair and its neighbour.  Characters
  and escapes are those at the ends of every range that the code distinguishes.
- *Porcelain.*  Two records show every way in which one may be taken for a part of the other.
- *Assessment.*  `MaxTrouble` counts together what keeps the worktree (conditions and
  changes), the lookups and reads that fail, and moved refs: two of them show what one may hide of
  another, and a failure that hides what keeps the worktree is already a pair.  The state of the refs
  is free beside them, and once refs move they may move any number of times.  The theorems hold for any number.  A
  second branch is needed for an origin/HEAD that names another one than is here; `master` is not
  among the names, and stands behind `main` in the list.  Ages are negative (the clock was set
  back), below and at the minimum.

Deadlock is not checked for `Journal` and `Socket` (all clients and commands have
ended) and `assessment` (the verdict ends a behaviour); in the other modules it is.

### Fairness

`Lifecycle`: a handler that has begun goes on (`WF` of its steps: a thread is scheduled
and every Git command and transaction returns); reconciliations are run again and
again (`WF` of `Refresh`: every command begins with one); the caller of an interrupted creation
repeats it with its key (`SF`, since the guard is taken by others in between;
`flock` makes it wait and does not refuse it).  The last one is an assumption on the client and is
what idempotency keys are for: without it a pending reservation stays, and
`PendingResolves` says nothing.  Nothing is assumed of outside commands or of
crashes, of which there are finitely many.

`Journal`: threads and starting daemons go on (`WF`), and a lock that is free is
taken by somebody.  No fairness among waiters is assumed: attempts are finitely
many, and each holds the locks finitely often.  Clients need not do anything.  A
daemon that fails to start is started again by somebody else, if at all; such failures
are among the bounded crashes, since a starting daemon that fails for ever
could keep a thread from the lock of the name.

`Socket`: every daemon, cleaner and command that has begun makes its next system
call (`WF` of each).  Nothing is assumed of daemons that wait to be connected to,
of `accept`, or of whether an answer comes in time.

## 4. What is proved

For every value of the constants that satisfies the named assumptions of the
modules, checked by `tlapm`.  Every safety property that a passing run
checks is a theorem, except two of `Json` (section 5), and so are the three
refinements.  The inductive invariants below were first tried with TLC on the
instances of the runs.

| Theorem | Says |
|---|---|
| `Leases`: `TypeOKHolds`, `LeaseExclusiveHolds`, `ActiveLeaseOwnerHolds`, `ToldLeaseStandsHolds`, `OneBelieverHolds` | the invariants of run `leases` |
| `LeasesImplementLock` | `Leases` implements `LeaseLock` |
| `Lifecycle`: `TypeOKHolds`, `ReservationsDisjointHolds`, `UniqueActiveBranchHolds`, `NoLeasedRemovalHolds`, `RemovedNotMissingHolds` | the safety properties of the runs `lifecycle_...`, with every outside command |
| `NeverWedgedHolds` | no reconciliation is wedged, if nobody adds, switches or moves worktrees outside the tool |
| `LifecycleImplementsReservations` | `Lifecycle` implements `Reservations` |
| `Journal`: `TypeOKHolds`, `OneAtATimeHolds`, `NothingSinceHolds`, `AnswerIsOwnHolds`, `ConnectionsCountedHolds` | the invariants of the runs `journal_...` |
| `JournalImplementsOnce` | `Journal` implements `OnceOnly` |
| `Socket`: `TypeOKHolds`, `FailsForAReasonHolds`, `AnswerFromOwnDatabaseHolds`, `NoSocketOfAFailedChildHolds` | the invariants of run `socket` |
| `EligibleIsSafeHolds`, `RemoteIsRespectedHolds`, `FailureBlocksHolds`, `PolicyOrderHolds` | verdicts, for any policy, any branches, any number of failing lookups and reads, and refs that move |
| `StatusIsUnderstoodHolds`, `ListIsUnderstoodHolds` | a status of any number of changes, a listing of any number of worktrees, over any names, is read as Git means it, or not at all if a name is garbled |
| `DirtyIsAssessedHolds` | from what Git prints, of any length, to the verdict |
| `StringsAreReadHolds` | every spelling of every text over all characters is read as that text, and what is read is spelled so |
| `ScanOfPath` in `Induction` | what a reader returns along a way through its input |

**Leases.**  Assumptions: `MaxTTL` is a positive number, `None` is no session.
The sets may be infinite.  `LeaseExclusive` alone is not inductive: a heartbeat
renews rows by session, so that a row whose session had moved to another
worktree would be renewed for both, and a registration assigns the worktree of
a session, which must not have rows yet.  The inductive invariant is

    Inv == TypeOK /\ LeaseExclusive /\ ActiveLeaseOwner /\ ToldLeaseStands /\ ToldOnlyToSessions

where `ToldOnlyToSessions` (only an active or a stale session was told of a lease
that may last) is what a registration that revives a session needs.  `TakeRows` says what
`acquire_lease_inner` does to the table and is used by the three handlers that
call it; then there is one lemma per handler, and `NextInv` puts them together.  `OneBeliever` follows
from `Inv` without a step of its own: two believers would have two rows of one worktree.
The refinement maps the owner of a worktree to the session of its unexpired
row, which `LeaseExclusive` makes unique (`OwnerIs`); `NextPasses` shows that
whenever the owner changes it was or becomes nobody.

**Lifecycle.**  Assumptions: the bounds are natural numbers, 'fit' is a condition a
worktree may be in, `None` is no branch and no process.  Paths are numbered 1 to
`N`, the order in which Git lists them; everything else may be infinite.
The properties are about what is stored, and what is stored does not sustain
itself: handlers write what they found some Git commands earlier.  The inductive
invariant therefore has two halves,

    Inv == Stores /\ Handlers

- `Stores`: `TypeOK`, `ReservationsDisjoint`, `UniqueActiveBranch`; Git has a branch checked out
  once; an unused key names nothing; and `Marked`, what the tool removed is gone from
  Git and marked in its row until the row says so too.
- `Handlers`, for each process: it is off 'idle' only as the holder of the guard
  (`Called`); past `c_reserve` the reservation it works for is still pending, so that settling it
  revives nothing (`Reserved`); what it is about to record is a listing in which
  no branch is twice and the new worktree stands (`Rescanned`); between the recheck and `git worktree
  remove` there is no lease (`Unleased`); and the row of what it is about to remove is
  marked, while no listing still to be recorded has a worktree that the tool removed since
  (`MarksFirst`).

All of `Handlers` rests on the guard: a step of one process can disturb what is
known of another only if that one is in a handler, and there is one at a
time.  Outside commands and crashes are the steps the guard does not stop, and for
each there is a lemma.  `RemovedNotMissing` and `NoLeasedRemoval` are action
properties, shown for every action from `Inv`.  The refinement is shown action by
action too: a handler's step is `Reserve`, `Settle` or a stutter, a reconciliation is
`Release` of the creations at the paths that are gone.

`NeverWedged` is not a consequence of `Inv`, and false if worktrees are added, switched or moved
outside the tool (finding `InventoryCatchesUp` is such a case).  The theorem
has the hypothesis `Undisturbed`, which leaves removed directories, worktrees and
branches, changed conditions and any crash.  It needs a second invariant, `Calm`: the
branch of a live row, or of a worktree in a listing still to be recorded, is checked out in no
other worktree, and no live row has the branch that a creation is about to add.

**Journal.**  Assumptions: `NameOf`, `File0` and `IdOf` are functions of the right types, the bounds
are positive, `None` is no daemon and no file, and there are finitely many clients,
as executions and connections are counted.  The core of the inductive invariant is `FileExclusive`:
at most one thread or starting daemon is at a label at which it holds the flock
of a file, although the locks are not variables.  Hence nobody else writes the row of a request that is being
executed (`Underway`), so that what `complete_request` records is the
number of the last execution (`NothingSince`, `Recorded`), and what a client was told still
stands in the table (`ToldStands`), from which `AnswerIsOwn` follows.  `ConnectionsCounted` is
inductive with the facts on where a thread is; it needs that a set that loses or gains
one element changes its cardinality by one.  `RunsBounded` bounds the executions by the attempts
that are past, which is what types them.  In the refinement,
`Finish` decides, the arrival of an answer tells, and every other step stutters.

**Socket.**  Assumptions: the bounds are natural numbers, and names of different
kinds of process differ.  A command that waits may fail only for a reason,
although no daemon is sure to keep the path: others unlink it.  The invariant is

    Inv == TypeOK /\ Bound /\ Attended /\ \A c \in Command : Sound(c)

where `Attended` is the heart: while an undisturbed command waits whose daemon
got past its opening, an empty path means that some daemon is about to look or to bind, and
a dead socket that some daemon is about to find it dead.  Whoever leaves the path
empty or dead is such a daemon itself or excuses every command.  So once nobody starts
any more (`Patient`), which is when a command gives up, the path has a live
daemon (`SomebodyServes`), and the command either reaches it or is excused.
`Sound` is what is known of each command: where its child is (`Parent`); that it has a theft or
better behind it in its second round, and an excuse when it gives up (`Reason`); and
that the daemon it found is still at the path unless there was a theft that it has not coped with
yet (`Found`).

**Assessment.**  Assumptions: the minimum age and the bounds are natural numbers; changes and
usages are of the known kinds; no branch is called `HEAD`, and "none" is no branch.
`Justified` is inductive.  It says that a verdict is the one that `Promoted` picks from the
grounds of this worktree, what it is compared with and these failures; that only
reads that are made have failed, which depends on the failures themselves (without a
remote branch nothing is compared with it); and that the discovery is still
true if no lookup of it failed and no ref moved.  `PromotedIsHighest` turns the `CHOOSE` into a
fact (the set of grounds is never empty, and priorities are distinct), from which
`EligibleHasNoGround` says all that is observed of an eligible worktree; the theorems then follow
ground by ground.  `RemoteIsRespected` needs the last part of `Justified`
without a base, and with one that an error of the lookup is collected.

**Induction.**  The library's induction theorems take the hypothesis as an operator,
which no prover here can supply.  The lemmas of `Induction` take it as a *set*: a set of numbers with 0 that is
closed under successor has all numbers (`AllNumbers`, from the well-foundedness of `<`), hence
`Upwards` and `Downwards` between 0 and a bound.  A proof by induction then
defines the set of those `k` for which the claim holds.
A recursive function is a `CHOOSE`, so that its equation has to be earned by showing
that some function satisfies it: `RecursionExists` does so for any step from `k` to `k + 1`, and from it
`FoldExists`, `ScanExists` and `FlattenParts` for `FoldLeft`, `Scan` and
`FlattenSeq`.  Three facts on `Scan` are what the readers need:

- `ScanOfPath`: if a way through the input visits elements that are all good and ends behind the
  last one, the result is what these read as, in order;
- `ScanStops`: if it visits one that is not good, nothing is read;
- `PathOfScan`: if anything is read, there is such a way.

**Strings.**  Assumption: characters are Unicode scalar values, and the numbers of escapes have 16 bits;
`Character` may be all of them.  `PairNumbers` and `NumbersOfPair` are the arithmetic of
surrogates, in both directions.  A form of a character is one good unit or a pair (`FormReads`), so
the ends of the forms of a spelling are a way through it (`FlattenOffsets`), which
`ScanOfPath` reads (`SpellingReads`).  Conversely the way of a string that is read (`PathOfScan`)
cuts it into slices, each of which is a form of what it is read as (`GoodForm`), and their
concatenation is the string again (`FlattenSlices`).

**Porcelain and Inspection.**  Assumption: 'no value' is no text, and neither
it nor a garbled text is the name of a ref.  `MaxRecords` bounds the initial states; the lemmas
are about any number of records, and the invariants about any number that is reported.

*Listings.*  `ParsesByField` and `CollectsByField` turn both folds into
functions with one equation per field.  `WorktreeFieldsAre` says which of the fields that Git
may print for a worktree are there and at which place; from there `ReadToPath` ...
`ReadToEnd` follow the parser from field to field, each saying what the
record is so far (`Reads`, field by field of the result).  `RecordsOf` shows by induction over the
worktrees, and in each over its fields, that the fields are cut where Git ended a record:
no field but the last of a worktree is empty.

*Statuses.*  `EditPrints` says for each change which letters it has, whether
its entry is taken for a rename, how it is counted and called.  `Printed` puts the entries at their offsets.
If all names are legible these offsets are a way through the status (`LegibleIsRead`), on which a source is never visited,
whatever it looks like; else the first illegible change stops it (`IllegibleIsNot`).
`SummaryIsMeant` compares the counts, which are of the same sets of indices.

*The verdict.*  `DirtyIsAssessed` is about a later state than the one
in which the status was reported.  The invariant `Inspected` keeps what relates the two:

    Inspected == Reported /\ (Asked("status") =>
        worktree is Idle with the changes that Git meant, failed says whether the status
        was parsed, and once there is a verdict, it is Promoted of the grounds of these)

`IdleVerdict` computes that verdict from the grounds, and `MeantIsDirty` relates the counts, which
are positive exactly if some change is of that kind, to the changes of the worktree.

## 5. What is only model-checked

- `ReadsWhatItWrites` and `SameOperation`: `Json` follows the program and descends into
  trees with `RECURSIVE` operators, and with one of these in reach `tlapm` has no SMT solver.
  They hold for the values, texts and parameters of the run.
- Liveness (`PendingResolves`, `EveryAttemptEnds`, `CommandEnds`) stays with TLC: `tlapm` does
  not support `ENABLED`, on which fairness depends.

## 6. Statements of the documentation that the code does not keep

Each has a run that checks only the statement and finds it violated, and an
entry in `PROJECT.json` that quotes it.

- `AgeRespected`: the row of a path keeps the dates of an earlier worktree at
  that path, so that a worktree added a moment ago may be old enough to be removed.
- `RetryReleases`: after a crash between `mark_removed` and
  `release_reservations_for_worktree`, the retry is answered as done and the
  reservation is kept; nothing releases it any more.
- `InventoryCatchesUp`: after `git worktree move` the upsert of the new path
  runs into the unique index, and so does every later reconciliation.
- `UseIsBlocked`: a process that works in a directory below the root of a
  worktree does not keep it from being eligible.

### What the code does that one might not expect

These are in the models.  No property is about them, or one that makes an exception of them.

- A worktree that vanishes between the 'started' event of its removal and the
  recheck leaves no 'failed' event (`src/service.rs` 1096), so that it is
  recorded as removed by the tool although others removed it.
- A creation that is recovered after a crash never gets its `created_at`
  (`src/service.rs` 669-692); its age counts from `first_seen_at`.
- The journal repeats a recorded success although the worktree it reports may
  be gone since (`src/daemon.rs` 491), where the service itself would refuse.
- An answer too long for a line of the protocol is stored as a success that
  repeats an error.
- Heartbeats go on for sessions of worktrees that are gone until a
  reconciliation stales them, and for those removed by the tool as no
  reconciliation looks at them again.
- Ignored files do not keep a worktree from being removed.
- A `show-ref` or `symbolic-ref` that exits with any error, be it that the repository cannot be
  read, passes for "there is no remote branch" (`src/git.rs` 844, 892).  A worktree
  that is not merged remotely is then eligible, and no error is reported (`RemoteIsRespected`).
- A daemon does not notice a remote branch that is fetched, or an origin/HEAD that is set, after it
  started: it asks for no merge into it, or for one into the branch it found then, unless a
  request names a base; `remove` never does (`src/service.rs` 1066).  docs/implementation-plan.md:226 would have
  a stale remote status reviewed.
- `rev-parse @{upstream}` and `git show` that exit with an error leave an eligible worktree eligible;
  nothing of the classification depends on their answers (`FailureBlocks`).
- An `lsof` that exits with 1 and prints nothing passes for "nobody works here", which is also how it
  says so; and a worktree that only the program itself works in is not in use.
- The readiness ping of the daemon waits for the request mutex like any request,
  so that a busy daemon passes for none.  The command then starts a second one, which
  finds the socket in use and exits, and the command fails after half a second of grace unless the first one
  answers by then.
- A starting daemon may remove the socket of a live one: it probes the socket between the
  other's `bind` and `listen`, or before the other replaced a dead socket, and
  unlinks by the path (`src/daemon.rs` 1612-1641).  The other daemon goes on without
  a path and is never reached again, nor does it end.  README.md:98 says that
  `wtm daemon clean` "refuses to remove a socket that accepts connections"; this holds of the
  moment of the probe.  Commands survive one such theft (`FailsForAReason`) because
  they look for a daemon again.
- A request may reach a daemon of another database if the daemon of the handshake
  lost its path in between.  `AnswerFromOwnDatabase` excepts more than that: any command that was
  disturbed since it began, be it before the handshake.
- At its deadline a command kills the daemon it started, even if that daemon serves others by then.
- `error` lines of a daemon go to a pipe that the command which started it
  closes when it ends; the thread that writes one then panics.  It holds no lock at that point and is counted off.
- One name in a worktree's status that is not UTF-8, or a field of a listing that
  a newer Git adds, fails the whole status or listing.
- A second text field of the same name in a request is ignored and still makes it another operation.

## 7. What is not modelled

- SQLite: transactions are atomic, durable and do not fail.  A failing write
  ends a handler like a crash does, which is modelled.  A failure to record an
  event is left out.
- The schema and its migrations: DDL, and one update at opening.
- The command line's options, display, disk usage, timestamps.
- In `Json` and `Strings`: white space, the bytes that encode a character, the grammar of numbers, and the hash itself, which is
  taken to tell its inputs apart.
- In `Assessment`: remotes other than origin, bases that are no branch (a tag or a commit, of which there is no
  remote branch), refs that move between two reads of one assessment, and bare worktrees.
- In `Porcelain`: the splitting of bytes into fields, and letters that no Git prints.
- In `Socket`: paths that are too long or are no socket, errors other than those a race
  can cause, and `shutdown`, which nothing sets outside of tests.
- In `Lifecycle`: detached and bare worktrees, the primary worktree, commit ids;
  a prunable worktree is one without its directory.  The rule for a replaced inventory is left out
  because its condition compares a value with a copy of itself and is never true.
- In `Leases`: released and expired rows, and the texts of a session (label, pid).
- In `Journal`: requests that only read and requests without an id, which are not
  recorded.

## 8. Plan

Done, in this order: `Leases` with its proofs, because leases are what callers rely on between
two calls; `Lifecycle`, because it deletes; `Journal`; `Assessment` with its proofs;
`Socket`; `Porcelain` and `Json`; `Reservations` and its refinement by `Lifecycle`; the
proofs for `Journal`, `Lifecycle` and `Socket`; `Induction` with the proofs for
`Porcelain`, `Inspection` and `Strings`.

Next:

1. An abstract specification of what `Socket` promises a command (it is served by a daemon
   of its database, or was disturbed), and the refinement from `SocketProofs`.
2. A composition of `Leases` and `Lifecycle` on the worktrees table, so that
   `ToolRemove` and `LeaseTake` need not stand for the other module, with
   `ActiveLeaseOwner` and `NoLeasedRemoval` proved of the composition.
3. `Json` with recursive functions in place of its operators, on the sets of values up to a
   height, so that `ReadsWhatItWrites` can be proved from the lemmas of `Induction`.

------------------------------- MODULE Leases -------------------------------
(***************************************************************************)
(* Sessions and ownership leases: the sessions and leases tables of the    *)
(* inventory and the service handlers that read and write them.            *)
(*                                                                         *)
(* Every handler runs under the mutation guard (service.rs:1346) and       *)
(* writes its tables in one transaction, so a handler is one action.  A    *)
(* call that the code refuses rolls its transaction back: what is left of  *)
(* it is the reconciliation it began with (a Refresh step) or nothing.     *)
(*                                                                         *)
(* A lease row carries the time it has left instead of expires_at: every   *)
(* comparison of the code is of expires_at with the current time, and      *)
(* `expires_at <= now' is left = 0.  `leases' holds the rows in state      *)
(* 'active'; no handler decides anything by an expired or released row.    *)
(***************************************************************************)
EXTENDS Naturals

CONSTANTS
    Worktree,   \* rows of the worktrees table (one per path, for ever)
    Session,    \* session ids a client may use
    Provider,   \* agent providers
    LeaseId,    \* identifiers of lease rows
    MaxTTL,     \* longest lease a client asks for, in clock ticks
    None        \* no session

ASSUME MaxTTLAssumption == MaxTTL \in Nat \ {0}
ASSUME NoneAssumption == None \notin Session

VARIABLES
    git,        \* what `git worktree list' says of each path
    life,       \* worktrees.lifecycle_state, "none" before the first row
    sstate,     \* sessions.state, "none" before the first registration
    home,       \* sessions.worktree_id
    provider,   \* sessions.provider
    leases,     \* the active rows of the leases table
    told        \* history: what is left of the lease the session was last told of

vars == <<git, life, sstate, home, provider, leases, told>>

TTL == 1..MaxTTL
LeaseRow == [id: LeaseId, worktree: Worktree, session: Session, left: 0..MaxTTL]

TypeOK ==
    /\ git \in [Worktree -> {"absent", "present", "prunable"}]
    /\ life \in [Worktree -> {"none", "active", "missing", "removed"}]
    /\ sstate \in [Session -> {"none", "active", "stale", "released"}]
    /\ home \in [Session -> Worktree]
    /\ provider \in [Session -> Provider]
    /\ leases \in SUBSET LeaseRow
    /\ told \in [Session -> 0..MaxTTL]

Init ==
    /\ git \in [Worktree -> {"absent", "present"}]
    /\ life = [w \in Worktree |-> "none"]
    /\ sstate = [s \in Session |-> "none"]
    /\ home \in [Session -> Worktree]       \* free until the registration
    /\ provider \in [Session -> Provider]   \* likewise
    /\ leases = {}
    /\ told = [s \in Session |-> 0]

-----------------------------------------------------------------------------
(* Reconciliation, which opens refresh, register_session and acquire_lease. *)

\* The rows a reconciliation gives up: listed without a directory, or no
\* longer listed.  Rows already in state 'removed' are passed over.
Vanished ==
    {w \in Worktree : \/ git[w] = "prunable"
                      \/ git[w] = "absent" /\ life[w] \in {"active", "missing"}}

\* mark_sessions_stale_for_worktree, on both of its tables.
KeptAll == leases   \* mutant: the leases of a staled session survive it
Kept == {l \in leases : l.worktree \notin Vanished}
Settled == [s \in Session |->
               IF sstate[s] = "active" /\ home[s] \in Vanished
               THEN "stale" ELSE sstate[s]]

\* The event journal decides between 'missing' and 'removed' (module
\* Lifecycle); either way the row is out of use here.
Reconcile ==
    life' \in {f \in [Worktree -> {"none", "active", "missing", "removed"}] :
                 \A w \in Worktree :
                    CASE git[w] = "present"  -> f[w] = "active"
                      [] git[w] = "prunable" -> f[w] = "missing"
                      [] OTHER -> IF w \in Vanished
                                  THEN f[w] \in {"missing", "removed"}
                                  ELSE f[w] = life[w]}

Refresh ==
    /\ Reconcile
    /\ leases' = Kept
    /\ sstate' = Settled
    /\ UNCHANGED <<git, home, provider, told>>

-----------------------------------------------------------------------------
(* The handlers. *)

\* expires_at > now.
OutlivesNextTick(l) == l.left > 1   \* mutant: expiry one second early
Unexpired(l) == l.left > 0

\* UPDATE leases SET expires_at = now + ttl.
Extended(l, ttl) == [l EXCEPT !.left = @ + ttl]   \* mutant: adds to the old expiry
Renewed(l, ttl) == [l EXCEPT !.left = ttl]

\* What acquire_lease_inner leaves of the rows after it expired those of w.
Evicted(rows, w) == {l \in rows : l.worktree # w}   \* mutant: expires every row of w
Swept(rows, w) == {l \in rows : l.worktree = w => Unexpired(l)}

\* The session's own row of w, and whether w has no row at all.
RowOf(rows, w, s) == {l \in rows : l.worktree = w}   \* mutant: anybody's row
OwnRow(rows, w, s) == {l \in rows : l.worktree = w /\ l.session = s}
FreeOf(rows, w, s) == \A l \in rows : l.session # s   \* mutant: looks for s, not w
Free(rows, w, s) == \A l \in rows : l.worktree # w

\* acquire_lease_inner for an active session s of worktree w, over the rows
\* the transaction sees: due rows of w expire, the row of another session
\* refuses the call, the session's own row is renewed, else one is inserted.
Take(rows, w, s, ttl) ==
    LET live == Swept(rows, w)
    IN  /\ \/ \E l \in OwnRow(live, w, s) :
                 leases' = (live \ {l}) \cup {Renewed(l, ttl)}
           \/ /\ Free(live, w, s)
              /\ \E i \in LeaseId :
                    /\ \A l \in live : l.id # i
                    /\ leases' = live \cup {[id |-> i, worktree |-> w,
                                             session |-> s, left |-> ttl]}
        /\ told' = [told EXCEPT ![s] = ttl]

\* The session row is inserted, or revived whatever state it was in; a call
\* without a TTL answers with no lease.
Register(s, w, p, ttl) ==
    /\ git[w] = "present"
    /\ sstate[s] # "none" => home[s] = w /\ provider[s] = p
    /\ Reconcile
    /\ sstate' = [Settled EXCEPT ![s] = "active"]
    /\ home' = [home EXCEPT ![s] = w]
    /\ provider' = [provider EXCEPT ![s] = p]
    /\ \/ ttl = 0 /\ leases' = Kept /\ told' = [told EXCEPT ![s] = 0]
       \/ ttl \in TTL /\ Take(Kept, w, s, ttl)
    /\ UNCHANGED git

\* heartbeat_session does not look at the worktree: neither Git nor the
\* lifecycle state of its row is consulted, and nothing is reconciled.
Heartbeat(s, ttl) ==
    LET live == {l \in leases : Unexpired(l)}
        mine == {l \in live : l.session = s}
    IN  /\ sstate[s] = "active"
        /\ \/ /\ ttl = 0
              /\ leases' = live
              /\ \/ mine = {} /\ told' = [told EXCEPT ![s] = 0]
                 \/ \E l \in mine : told' = [told EXCEPT ![s] = l.left]
           \/ /\ ttl \in TTL
              /\ mine # {}
              /\ leases' = (live \ mine) \cup {Renewed(l, ttl) : l \in mine}
              /\ told' = [told EXCEPT ![s] = ttl]
           \/ ttl \in TTL /\ mine = {} /\ Take(live, home[s], s, ttl)
        /\ UNCHANGED <<git, life, sstate, home, provider>>

Acquire(s, w, ttl) ==
    /\ git[w] # "absent"
    /\ Reconcile
    /\ sstate' = Settled
    /\ Settled[s] = "active"
    /\ home[s] = w
    /\ Take(Kept, w, s, ttl)
    /\ UNCHANGED <<git, home, provider>>

ReleaseLease(s) ==
    /\ sstate[s] # "none"
    /\ leases' = {l \in leases : l.session # s}
    /\ told' = [told EXCEPT ![s] = 0]
    /\ UNCHANGED <<git, life, sstate, home, provider>>

ReleaseSession(s) ==
    /\ sstate[s] # "none"
    /\ leases' = {l \in leases : l.session # s}
    /\ sstate' = [sstate EXCEPT ![s] = "released"]
    /\ told' = [told EXCEPT ![s] = 0]
    /\ UNCHANGED <<git, life, home, provider>>

\* A removal by the tool, from its last assessment to mark_removed (module
\* Lifecycle has the steps): refused while an unexpired lease exists, it
\* leaves the sessions and the due lease rows of the worktree as they are.
ToolRemove(w) ==
    /\ git[w] = "present"
    /\ \A l \in leases : l.worktree = w => ~Unexpired(l)
    /\ git' = [git EXCEPT ![w] = "absent"]
    /\ life' = [life EXCEPT ![w] = "removed"]
    /\ UNCHANGED <<sstate, home, provider, leases, told>>

-----------------------------------------------------------------------------
(* The environment: the clock, and Git commands run beside the tool. *)

Tick ==
    /\ \/ \E l \in leases : l.left > 0
       \/ \E s \in Session : told[s] > 0
    /\ leases' = {[l EXCEPT !.left = IF @ = 0 THEN 0 ELSE @ - 1] : l \in leases}
    /\ told' = [s \in Session |-> IF told[s] = 0 THEN 0 ELSE told[s] - 1]
    /\ UNCHANGED <<git, life, sstate, home, provider>>

GitChange(w) ==
    /\ git' \in {[git EXCEPT ![w] = g] : g \in {"absent", "present", "prunable"}}
    /\ git[w] = "absent" => git'[w] = "present"
    /\ UNCHANGED <<life, sstate, home, provider, leases, told>>

Next ==
    \/ Refresh
    \/ \E s \in Session, w \in Worktree, p \in Provider, ttl \in 0..MaxTTL :
          Register(s, w, p, ttl)
    \/ \E s \in Session, ttl \in 0..MaxTTL : Heartbeat(s, ttl)
    \/ \E s \in Session, w \in Worktree, ttl \in TTL : Acquire(s, w, ttl)
    \/ \E s \in Session : ReleaseLease(s)
    \/ \E s \in Session : ReleaseSession(s)
    \/ \E w \in Worktree : ToolRemove(w)
    \/ Tick
    \/ \E w \in Worktree : GitChange(w)

Spec == Init /\ [][Next]_vars

-----------------------------------------------------------------------------
(* Properties. *)

\* Lease ownership is exclusive per worktree: two active rows of the leases
\* table are never of one worktree, and two rows never share an id.  This is
\* the promise of acquire_lease_inner's check, which heartbeats, renewals and
\* registrations all have to go through.
LeaseExclusive ==
    \A l, m \in leases : l.worktree = m.worktree \/ l.id = m.id => l = m

\* Each active lease row is backed by an active session of its own worktree:
\* whatever ends or stales a session (release, reconciliation) ends its leases
\* in the same transaction, and no renewal finds a row of an ended session.
ActiveLeaseOwner ==
    \A l \in leases : sstate[l.session] = "active" /\ home[l.session] = l.worktree

\* What a client was told holds: as long as the time of the lease it was last
\* told of has not run out and its session was not staled behind its back, the
\* table has a row of that session on its worktree that lasts at least as long.
ToldLeaseStands ==
    \A s \in Session :
        told[s] > 0 /\ sstate[s] = "active" =>
            \E l \in leases :
                l.session = s /\ l.worktree = home[s] /\ l.left >= told[s]

\* Two clients never both believe they hold one worktree, except when Git lost
\* the worktree in between and one of the sessions went stale with it.
OneBeliever ==
    \A s, t \in Session :
        /\ s # t /\ home[s] = home[t]
        /\ told[s] > 0 /\ told[t] > 0
        => "stale" \in {sstate[s], sstate[t]}

\* The owner of a worktree, as the abstract lock sees it: the session of its
\* unexpired active lease.
OwnerIn(rows, w) ==
    IF \E l \in rows : l.worktree = w /\ Unexpired(l)
    THEN (CHOOSE l \in rows : l.worktree = w /\ Unexpired(l)).session
    ELSE None
Owners == [w \in Worktree |-> OwnerIn(leases, w)]

\* Leases implement an exclusive lock: ownership passes from one session to
\* another only through a moment in which nobody owns the worktree.
Lock == INSTANCE LeaseLock WITH owner <- Owners
ImplementsLock == Lock!Spec
=============================================================================

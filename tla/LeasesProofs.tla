---------------------------- MODULE LeasesProofs ----------------------------
(***************************************************************************)
(* Theorems about sessions and leases, for any sets of worktrees,          *)
(* sessions, providers and lease ids and any bound on the TTL.             *)
(*                                                                         *)
(* Inv is the inductive invariant: LeaseExclusive alone is not, because a  *)
(* heartbeat renews by session (two rows of one worktree could appear if   *)
(* a row's session were not tied to the worktree), and a registration may  *)
(* set a session's worktree (only ActiveLeaseOwner says that a session not *)
(* registered yet has no row).                                             *)
(***************************************************************************)
EXTENDS Leases, TLAPS

\* Only an active or a stale session was ever told of a lease that may last.
ToldOnlyToSessions ==
    \A s \in Session : told[s] > 0 => sstate[s] \in {"active", "stale"}

Inv == TypeOK /\ LeaseExclusive /\ ActiveLeaseOwner /\ ToldLeaseStands /\ ToldOnlyToSessions

\* The rows a handler works on once it dropped some of the table.
LEMMA DropRows ==
    ASSUME TypeOK, LeaseExclusive, NEW rows \in SUBSET leases, leases' = rows
    PROVE  leases' \in SUBSET LeaseRow /\ LeaseExclusive'
BY DEF TypeOK, LeaseExclusive

\* A renewed row keeps its id, worktree and session, and has the TTL asked for.
LEMMA RenewedRow ==
    ASSUME NEW l \in LeaseRow, NEW ttl \in TTL
    PROVE  /\ Renewed(l, ttl) \in LeaseRow
           /\ Renewed(l, ttl).id = l.id
           /\ Renewed(l, ttl).worktree = l.worktree
           /\ Renewed(l, ttl).session = l.session
           /\ Renewed(l, ttl).left = ttl
BY MaxTTLAssumption DEF LeaseRow, Renewed, TTL

\* acquire_lease_inner: it touches only rows of w, leaves there exactly one,
\* the caller's, with the TTL asked for, and keeps every row of elsewhere.
LEMMA TakeRows ==
    ASSUME TypeOK, LeaseExclusive, NEW rows \in SUBSET leases,
           NEW w \in Worktree, NEW s \in Session, NEW ttl \in TTL,
           Take(rows, w, s, ttl)
    PROVE  /\ leases' \in SUBSET LeaseRow
           /\ \A l \in leases' : \/ l \in rows /\ l.worktree # w
                                 \/ l.worktree = w /\ l.session = s /\ l.left = ttl
           /\ \E l \in leases' : l.worktree = w /\ l.session = s /\ l.left = ttl
           /\ \A l \in rows : l.worktree # w => l \in leases'
           /\ LeaseExclusive'
<1> DEFINE live == Swept(rows, w)
<1>0. /\ live \in SUBSET LeaseRow
      /\ live \in SUBSET rows
      /\ \A l, m \in live : l.worktree = m.worktree \/ l.id = m.id => l = m
      /\ \A l \in rows : l.worktree # w => l \in live
  BY DEF Swept, TypeOK, LeaseExclusive
<1>1. CASE \E l \in OwnRow(live, w, s) :
              leases' = (live \ {l}) \cup {Renewed(l, ttl)}
  <2>1. PICK l \in live : /\ l.worktree = w /\ l.session = s
                          /\ leases' = (live \ {l}) \cup {Renewed(l, ttl)}
    BY <1>1 DEF OwnRow
  <2>2. /\ Renewed(l, ttl) \in LeaseRow
        /\ Renewed(l, ttl).id = l.id
        /\ Renewed(l, ttl).worktree = w
        /\ Renewed(l, ttl).session = s
        /\ Renewed(l, ttl).left = ttl
    BY <1>0, <2>1, RenewedRow
  <2>3. \A m \in live \ {l} : m.worktree # w /\ m.id # l.id
    BY <1>0, <2>1
  <2>4. LeaseExclusive'
    BY <1>0, <2>1, <2>2, <2>3 DEF LeaseExclusive
  <2> QED
    BY <1>0, <2>1, <2>2, <2>3, <2>4
<1>2. CASE /\ Free(live, w, s)
           /\ \E i \in LeaseId :
                 /\ \A l \in live : l.id # i
                 /\ leases' = live \cup {[id |-> i, worktree |-> w,
                                          session |-> s, left |-> ttl]}
  <2>1. PICK i \in LeaseId :
           /\ \A l \in live : l.id # i
           /\ leases' = live \cup {[id |-> i, worktree |-> w,
                                    session |-> s, left |-> ttl]}
    BY <1>2
  <2> DEFINE new == [id |-> i, worktree |-> w, session |-> s, left |-> ttl]
  <2>2. new \in LeaseRow
    BY MaxTTLAssumption DEF LeaseRow, TTL
  <2>3. /\ new.id = i /\ new.worktree = w /\ new.session = s /\ new.left = ttl
        /\ leases' = live \cup {new}
    BY <2>1
  <2>4. \A m \in live : m.worktree # w /\ m.id # i
    BY <1>2, <2>1 DEF Free
  <2> HIDE DEF new
  <2>5. LeaseExclusive'
    BY <1>0, <2>3, <2>4 DEF LeaseExclusive
  <2> QED
    BY <1>0, <2>2, <2>3, <2>4, <2>5
<1> QED
  BY <1>1, <1>2 DEF Take

-----------------------------------------------------------------------------
(* The inductive invariant. *)

\* What reconciliation leaves: no row of a vanished worktree, and no session
\* of one active.
LEMMA Reconciled ==
    ASSUME Inv
    PROVE  /\ Kept \in SUBSET leases
           /\ Settled \in [Session -> {"none", "active", "stale", "released"}]
           /\ \A l \in Kept : Settled[l.session] = "active" /\ home[l.session] = l.worktree
           /\ \A s \in Session :
                 Settled[s] = "active" => sstate[s] = "active" /\ home[s] \notin Vanished
           /\ \A s \in Session : Settled[s] = "none" <=> sstate[s] = "none"
           /\ \A s \in Session :
                 sstate[s] \in {"active", "stale"} => Settled[s] \in {"active", "stale"}
           /\ \A l \in leases : l.worktree \notin Vanished => l \in Kept
BY DEF Inv, TypeOK, LeaseRow, Kept, Settled, ActiveLeaseOwner

\* Whatever the reconciliation decides of the rows, they stay in their states.
LEMMA ReconcileType ==
    ASSUME Reconcile
    PROVE  life' \in [Worktree -> {"none", "active", "missing", "removed"}]
BY DEF Reconcile

\* Before anything is registered the tables are empty.
LEMMA InitInv == Init => Inv
BY MaxTTLAssumption DEF Init, Inv, TypeOK, LeaseExclusive, ActiveLeaseOwner,
                        ToldLeaseStands, ToldOnlyToSessions

\* A refresh drops the leases and stales the sessions of the same worktrees.
LEMMA RefreshInv == Inv /\ Refresh => Inv'
<1> SUFFICES ASSUME Inv, Refresh PROVE Inv'
  OBVIOUS
<1>1. /\ leases' = Kept /\ sstate' = Settled
      /\ git' = git /\ home' = home /\ provider' = provider /\ told' = told
  BY DEF Refresh
<1>2. TypeOK'
  BY <1>1, Reconciled, ReconcileType DEF Inv, TypeOK, Refresh
<1>3. LeaseExclusive'
  BY <1>1, Reconciled, DropRows DEF Inv
<1>4. ActiveLeaseOwner'
  BY <1>1, Reconciled DEF ActiveLeaseOwner
<1>5. ToldLeaseStands'
  BY <1>1, Reconciled DEF Inv, ToldLeaseStands
<1>6. ToldOnlyToSessions'
  BY <1>1, Reconciled DEF Inv, ToldOnlyToSessions
<1> QED
  BY <1>2, <1>3, <1>4, <1>5, <1>6 DEF Inv

\* A row of one session on a worktree stands in the way of another session.
LEMMA Blocked ==
    ASSUME Inv, NEW rows \in SUBSET leases, NEW w \in Worktree,
           NEW s \in Session, NEW ttl \in TTL, Take(rows, w, s, ttl),
           NEW l \in rows, l.left > 0, l.worktree = w
    PROVE  l.session = s
<1>1. l \in Swept(rows, w)
  BY DEF Swept, Unexpired
<1>2. ~Free(Swept(rows, w), w, s)
  BY <1>1 DEF Free
<1>3. PICK m \in Swept(rows, w) : m.worktree = w /\ m.session = s
  BY <1>2 DEF Take, OwnRow
<1>4. m \in leases /\ l \in leases
  BY <1>1, <1>3 DEF Swept
<1> QED
  BY <1>3, <1>4 DEF Inv, LeaseExclusive

\* register_session revives or inserts the session and may take a lease with it.
LEMMA RegisterInv ==
    ASSUME Inv, NEW s \in Session, NEW w \in Worktree, NEW p \in Provider,
           NEW ttl \in 0..MaxTTL, Register(s, w, p, ttl)
    PROVE  Inv'
<1>1. /\ sstate' = [Settled EXCEPT ![s] = "active"]
      /\ home' = [home EXCEPT ![s] = w]
      /\ provider' = [provider EXCEPT ![s] = p]
      /\ git' = git /\ Reconcile
      /\ sstate[s] # "none" => home[s] = w
      /\ git[w] = "present"
  BY DEF Register
<1>2. /\ home' \in [Session -> Worktree] /\ home'[s] = w
      /\ \A t \in Session \ {s} : home'[t] = home[t]
      /\ \A t \in Session : sstate[t] # "none" => home'[t] = home[t]
      /\ sstate' \in [Session -> {"none", "active", "stale", "released"}]
      /\ sstate'[s] = "active"
      /\ \A t \in Session \ {s} : sstate'[t] = Settled[t]
      /\ w \notin Vanished
  BY <1>1, Reconciled DEF Inv, TypeOK, Vanished
<1>3. \A l \in leases : l \in LeaseRow /\ l.session \in Session /\ l.worktree \in Worktree
  BY DEF Inv, TypeOK, LeaseRow
<1>4. \A l \in Kept : sstate'[l.session] = "active" /\ home'[l.session] = l.worktree
  BY <1>2, <1>3, Reconciled DEF Inv, ActiveLeaseOwner
<1>5. CASE ttl = 0 /\ leases' = Kept /\ told' = [told EXCEPT ![s] = 0]
  <2>1. /\ told' \in [Session -> 0..MaxTTL] /\ told'[s] = 0
        /\ \A t \in Session \ {s} : told'[t] = told[t]
    BY <1>5, MaxTTLAssumption DEF Inv, TypeOK
  <2>2. TypeOK' /\ LeaseExclusive'
    BY <1>1, <1>2, <1>5, <2>1, Reconciled, ReconcileType, DropRows DEF Inv, TypeOK
  <2>3. ActiveLeaseOwner'
    BY <1>4, <1>5 DEF ActiveLeaseOwner
  <2>4. ToldOnlyToSessions'
    BY <1>2, <2>1, Reconciled DEF Inv, ToldOnlyToSessions
  <2>5. ToldLeaseStands'
    <3> SUFFICES ASSUME NEW t \in Session, told'[t] > 0, sstate'[t] = "active"
                 PROVE  \E l \in leases' : /\ l.session = t /\ l.worktree = home'[t]
                                           /\ l.left >= told'[t]
      BY DEF ToldLeaseStands
    <3>1. t # s /\ told[t] > 0 /\ sstate[t] = "active" /\ home[t] \notin Vanished
      BY <1>2, <2>1, Reconciled
    <3> QED
      BY <3>1, <1>2, <1>5, <2>1, Reconciled DEF Inv, ToldLeaseStands
  <2> QED
    BY <2>2, <2>3, <2>4, <2>5 DEF Inv
<1>6. CASE ttl \in TTL /\ Take(Kept, w, s, ttl)
  <2>0. /\ leases' \in SUBSET LeaseRow
        /\ \A l \in leases' : \/ l \in Kept /\ l.worktree # w
                              \/ l.worktree = w /\ l.session = s /\ l.left = ttl
        /\ \E l \in leases' : l.worktree = w /\ l.session = s /\ l.left = ttl
        /\ \A l \in Kept : l.worktree # w => l \in leases'
        /\ LeaseExclusive'
    BY <1>6, Reconciled, TakeRows DEF Inv
  <2>1. /\ told' \in [Session -> 0..MaxTTL] /\ told'[s] = ttl
        /\ \A t \in Session \ {s} : told'[t] = told[t]
    BY <1>6, MaxTTLAssumption DEF Inv, TypeOK, Take, TTL
  <2>2. TypeOK'
    BY <1>1, <1>2, <2>0, <2>1, ReconcileType DEF Inv, TypeOK
  <2>3. ActiveLeaseOwner'
    BY <1>2, <1>4, <2>0 DEF ActiveLeaseOwner
  <2>4. ToldOnlyToSessions'
    BY <1>2, <2>1, Reconciled DEF Inv, ToldOnlyToSessions
  <2>5. ToldLeaseStands'
    <3> SUFFICES ASSUME NEW t \in Session, told'[t] > 0, sstate'[t] = "active"
                 PROVE  \E l \in leases' : /\ l.session = t /\ l.worktree = home'[t]
                                           /\ l.left >= told'[t]
      BY DEF ToldLeaseStands
    <3>1. CASE t = s
      BY <3>1, <1>2, <2>0, <2>1 DEF TTL
    <3>2. CASE t # s
      <4>1. /\ told[t] = told'[t] /\ told[t] > 0 /\ sstate[t] = "active"
            /\ home[t] \notin Vanished /\ home'[t] = home[t]
        BY <3>2, <1>2, <2>1, Reconciled
      <4>2. PICK l \in Kept : /\ l.session = t /\ l.worktree = home[t]
                              /\ l.left >= told[t]
        BY <4>1, Reconciled DEF Inv, ToldLeaseStands
      \* A row of t on w would have refused the call.
      <4>3. l.worktree # w
        <5>1. l.left > 0
          BY <1>3, <4>1, <4>2, Reconciled DEF LeaseRow, Inv, TypeOK
        <5> QED
          BY <3>2, <4>2, <5>1, <1>6, Reconciled, Blocked
      <4> QED
        BY <4>1, <4>2, <4>3, <2>0
    <3> QED
      BY <3>1, <3>2
  <2> QED
    BY <2>0, <2>2, <2>3, <2>4, <2>5 DEF Inv
<1> QED
  BY <1>5, <1>6 DEF Register

\* Taking a lease in a step that leaves home alone and only stales sessions.
LEMMA TakeInv ==
    ASSUME Inv, NEW rows \in SUBSET leases, NEW w \in Worktree,
           NEW s \in Session, NEW ttl \in TTL, Take(rows, w, s, ttl),
           sstate[s] = "active", home[s] = w, sstate'[s] = "active",
           sstate' \in [Session -> {"none", "active", "stale", "released"}],
           UNCHANGED home,
           \A l \in rows : sstate'[l.session] = "active",
           \A t \in Session : sstate'[t] = "active" => sstate[t] = "active",
           \A t \in Session : sstate[t] \in {"active", "stale"}
                                 => sstate'[t] \in {"active", "stale"},
           \A l \in leases : l.left > 0 /\ sstate'[l.session] = "active" => l \in rows
    PROVE  /\ leases' \in SUBSET LeaseRow /\ told' \in [Session -> 0..MaxTTL]
           /\ LeaseExclusive' /\ ActiveLeaseOwner'
           /\ ToldLeaseStands' /\ ToldOnlyToSessions'
<1>0. /\ leases' \in SUBSET LeaseRow
      /\ \A l \in leases' : \/ l \in rows /\ l.worktree # w
                            \/ l.worktree = w /\ l.session = s /\ l.left = ttl
      /\ \E l \in leases' : l.worktree = w /\ l.session = s /\ l.left = ttl
      /\ \A l \in rows : l.worktree # w => l \in leases'
      /\ LeaseExclusive'
  <2>1. TypeOK /\ LeaseExclusive /\ rows \in SUBSET leases /\ Take(rows, w, s, ttl)
    BY DEF Inv
  <2>2. w \in Worktree /\ s \in Session /\ ttl \in TTL
    OBVIOUS
  <2> QED
    BY ONLY <2>1, <2>2, TakeRows
<1>1. /\ told' \in [Session -> 0..MaxTTL] /\ told'[s] = ttl
      /\ \A t \in Session \ {s} : told'[t] = told[t]
  BY MaxTTLAssumption DEF Inv, TypeOK, Take, TTL
<1>2. ActiveLeaseOwner'
  BY <1>0 DEF Inv, ActiveLeaseOwner
<1>3. ToldOnlyToSessions'
  BY <1>1 DEF Inv, ToldOnlyToSessions
<1>4. ToldLeaseStands'
  <2> SUFFICES ASSUME NEW t \in Session, told'[t] > 0, sstate'[t] = "active"
               PROVE  \E l \in leases' : /\ l.session = t /\ l.worktree = home[t]
                                         /\ l.left >= told'[t]
    BY DEF ToldLeaseStands
  <2>1. CASE t = s
    BY <2>1, <1>0, <1>1 DEF TTL
  <2>2. CASE t # s
    <3>1. told[t] = told'[t] /\ told[t] \in 0..MaxTTL /\ told[t] > 0 /\ sstate[t] = "active"
      BY <2>2, <1>1 DEF Inv, TypeOK
    <3>2. PICK l \in leases : /\ l.session = t /\ l.worktree = home[t]
                              /\ l.left >= told[t]
      BY <3>1 DEF Inv, ToldLeaseStands
    <3>3. l \in rows /\ l.left > 0
      BY <3>1, <3>2, MaxTTLAssumption DEF Inv, TypeOK, LeaseRow
    <3>4. l.worktree # w
      BY <2>2, <3>2, <3>3, Blocked
    <3> QED
      BY <3>1, <3>2, <3>3, <3>4, <1>0
  <2> QED
    BY <2>1, <2>2
<1> QED
  BY <1>0, <1>1, <1>2, <1>3, <1>4

\* acquire_lease works for a session that the reconciliation left active.
LEMMA AcquireInv ==
    ASSUME Inv, NEW s \in Session, NEW w \in Worktree, NEW ttl \in TTL,
           Acquire(s, w, ttl)
    PROVE  Inv'
<1>1. /\ sstate' = Settled /\ Settled[s] = "active" /\ sstate[s] = "active"
      /\ home[s] = w /\ Take(Kept, w, s, ttl) /\ Reconcile
      /\ git' = git /\ home' = home /\ provider' = provider
  BY Reconciled DEF Acquire
<1>2. \A l \in leases : l.left > 0 /\ sstate'[l.session] = "active" => l \in Kept
  BY <1>1, Reconciled DEF Inv, ActiveLeaseOwner, TypeOK, LeaseRow
<1>3. /\ leases' \in SUBSET LeaseRow /\ told' \in [Session -> 0..MaxTTL]
      /\ LeaseExclusive' /\ ActiveLeaseOwner'
      /\ ToldLeaseStands' /\ ToldOnlyToSessions'
  <2>1. /\ Kept \in SUBSET leases /\ UNCHANGED home /\ sstate'[s] = "active"
        /\ sstate' \in [Session -> {"none", "active", "stale", "released"}]
        /\ \A l \in Kept : sstate'[l.session] = "active"
        /\ \A t \in Session : /\ sstate'[t] = "active" => sstate[t] = "active"
                              /\ sstate[t] \in {"active", "stale"} =>
                                    sstate'[t] \in {"active", "stale"}
    BY <1>1, Reconciled
  <2> QED
    BY <1>1, <1>2, <2>1, TakeInv
<1>4. TypeOK'
  BY <1>1, <1>3, Reconciled, ReconcileType DEF Inv, TypeOK
<1> QED
  BY <1>3, <1>4 DEF Inv

\* heartbeat_session expires what is due, and renews or takes the session's lease.
LEMMA HeartbeatInv ==
    ASSUME Inv, NEW s \in Session, NEW ttl \in 0..MaxTTL, Heartbeat(s, ttl)
    PROVE  Inv'
<1> DEFINE live == {l \in leases : Unexpired(l)}
           mine == {l \in live : l.session = s}
<1>0. /\ sstate[s] = "active"
      /\ UNCHANGED <<git, life, sstate, home, provider>>
      /\ live \in SUBSET leases /\ mine \in SUBSET live
      /\ \A l \in leases : l \in LeaseRow /\ l.left \in 0..MaxTTL /\ l.id \in LeaseId
      /\ \A l \in live : l.left > 0 /\ sstate[l.session] = "active"
      /\ \A l \in leases : l.left > 0 => l \in live
      /\ told \in [Session -> 0..MaxTTL]
      /\ 0..MaxTTL \in SUBSET Nat
  BY MaxTTLAssumption DEF Heartbeat, Inv, TypeOK, LeaseRow, Unexpired, ActiveLeaseOwner
<1>1. CASE /\ ttl = 0
           /\ leases' = live
           /\ \/ mine = {} /\ told' = [told EXCEPT ![s] = 0]
              \/ \E l \in mine : told' = [told EXCEPT ![s] = l.left]
  <2>1. LeaseExclusive' /\ leases' \in SUBSET LeaseRow
    BY <1>0, <1>1, DropRows DEF Inv
  <2>2. PICK n \in 0..MaxTTL : /\ told' = [told EXCEPT ![s] = n]
                               /\ n > 0 => \E l \in mine : n = l.left
    BY <1>0, <1>1, MaxTTLAssumption
  <2>3. told'[s] = n /\ told' \in [Session -> 0..MaxTTL]
        /\ \A t \in Session \ {s} : told'[t] = told[t]
    BY <1>0, <2>2
  <2>4. TypeOK' /\ ActiveLeaseOwner' /\ ToldOnlyToSessions'
    BY <1>0, <1>1, <2>1, <2>3 DEF Inv, TypeOK, ActiveLeaseOwner, ToldOnlyToSessions
  <2>5. ToldLeaseStands'
    <3> SUFFICES ASSUME NEW t \in Session, told'[t] > 0, sstate[t] = "active"
                 PROVE  \E l \in live : /\ l.session = t /\ l.worktree = home[t]
                                        /\ l.left >= told'[t]
      BY <1>0, <1>1 DEF ToldLeaseStands
    <3>1. CASE t = s
      <4>1. PICK l \in mine : n = l.left
        BY <2>2, <2>3, <3>1
      <4> QED
        BY <4>1, <3>1, <2>3, <1>0 DEF Inv, ActiveLeaseOwner
    <3>2. CASE t # s
      <4>1. told[t] > 0 /\ told[t] = told'[t] /\ told[t] \in Nat
        BY <3>2, <2>3, <1>0
      <4>2. PICK l \in leases : l.session = t /\ l.worktree = home[t] /\ l.left >= told[t]
        BY <4>1 DEF Inv, ToldLeaseStands
      <4>3. l.left > 0
        BY <4>1, <4>2, <1>0
      <4> QED
        BY <4>1, <4>2, <4>3, <1>0
    <3> QED
      BY <3>1, <3>2
  <2> QED
    BY <2>1, <2>4, <2>5 DEF Inv
<1>2. CASE /\ ttl \in TTL
           /\ mine # {}
           /\ leases' = (live \ mine) \cup {Renewed(l, ttl) : l \in mine}
           /\ told' = [told EXCEPT ![s] = ttl]
  <2>1. \A l \in mine : /\ Renewed(l, ttl) \in LeaseRow
                        /\ Renewed(l, ttl).id = l.id
                        /\ Renewed(l, ttl).worktree = l.worktree
                        /\ Renewed(l, ttl).session = s
                        /\ Renewed(l, ttl).left = ttl
    BY <1>0, <1>2, RenewedRow
  <2>2. /\ told' \in [Session -> 0..MaxTTL] /\ told'[s] = ttl
        /\ \A t \in Session \ {s} : told'[t] = told[t]
    BY <1>0, <1>2 DEF TTL
  <2>3. leases' \in SUBSET LeaseRow
    BY <1>0, <1>2, <2>1
  <2>4. LeaseExclusive'
    BY <1>0, <1>2, <2>1 DEF Inv, LeaseExclusive
  <2>5. ActiveLeaseOwner'
    BY <1>0, <1>2, <2>1 DEF Inv, ActiveLeaseOwner
  <2>6. TypeOK' /\ ToldOnlyToSessions'
    BY <1>0, <2>2, <2>3 DEF Inv, TypeOK, ToldOnlyToSessions
  <2>7. ToldLeaseStands'
    <3> SUFFICES ASSUME NEW t \in Session, told'[t] > 0, sstate[t] = "active"
                 PROVE  \E l \in leases' : /\ l.session = t /\ l.worktree = home[t]
                                           /\ l.left >= told'[t]
      BY <1>0 DEF ToldLeaseStands
    <3>1. CASE t = s
      <4>1. PICK l \in mine : TRUE
        BY <1>2
      <4>2. l.worktree = home[s]
        BY <4>1, <1>0 DEF Inv, ActiveLeaseOwner
      <4> QED
        BY <3>1, <4>1, <4>2, <1>2, <2>1, <2>2 DEF TTL
    <3>2. CASE t # s
      <4>1. told[t] > 0 /\ told[t] = told'[t] /\ told[t] \in Nat
        BY <3>2, <2>2, <1>0
      <4>2. PICK l \in leases : l.session = t /\ l.worktree = home[t] /\ l.left >= told[t]
        BY <4>1 DEF Inv, ToldLeaseStands
      <4>3. l.left > 0 /\ l \in live \ mine
        BY <3>2, <4>1, <4>2, <1>0
      <4> QED
        BY <4>1, <4>2, <4>3, <1>2
    <3> QED
      BY <3>1, <3>2
  <2> QED
    BY <2>4, <2>5, <2>6, <2>7 DEF Inv
<1>3. CASE ttl \in TTL /\ mine = {} /\ Take(live, home[s], s, ttl)
  <2>1. home[s] \in Worktree
    BY DEF Inv, TypeOK
  <2>2. /\ leases' \in SUBSET LeaseRow /\ told' \in [Session -> 0..MaxTTL]
        /\ LeaseExclusive' /\ ActiveLeaseOwner'
        /\ ToldLeaseStands' /\ ToldOnlyToSessions'
    <3> HIDE DEF live, mine
    <3> QED
      BY <1>0, <1>3, <2>1, TakeInv DEF Inv, TypeOK
  <2> QED
    BY <1>0, <2>2 DEF Inv, TypeOK
<1> QED
  BY <1>1, <1>2, <1>3 DEF Heartbeat

\* release_lease and release_session: they differ in the session's state.
LEMMA ReleaseInv ==
    ASSUME Inv, NEW s \in Session, ReleaseLease(s) \/ ReleaseSession(s)
    PROVE  Inv'
<1>1. /\ leases' = {l \in leases : l.session # s}
      /\ told' = [told EXCEPT ![s] = 0]
      /\ sstate' = sstate \/ sstate' = [sstate EXCEPT ![s] = "released"]
      /\ UNCHANGED <<git, life, home, provider>>
  BY DEF ReleaseLease, ReleaseSession
<1>2. /\ told' \in [Session -> 0..MaxTTL] /\ told'[s] = 0
      /\ \A t \in Session \ {s} : told'[t] = told[t] /\ sstate'[t] = sstate[t]
      /\ sstate' \in [Session -> {"none", "active", "stale", "released"}]
  BY <1>1, MaxTTLAssumption DEF Inv, TypeOK
<1>3. LeaseExclusive' /\ leases' \in SUBSET LeaseRow
  BY <1>1, DropRows DEF Inv
<1>4. TypeOK' /\ ToldOnlyToSessions'
  BY <1>1, <1>2, <1>3 DEF Inv, TypeOK, ToldOnlyToSessions
<1>5. ActiveLeaseOwner'
  BY <1>1, <1>2 DEF Inv, TypeOK, LeaseRow, ActiveLeaseOwner
<1>6. ToldLeaseStands'
  BY <1>1, <1>2 DEF Inv, ToldLeaseStands
<1> QED
  BY <1>3, <1>4, <1>5, <1>6 DEF Inv

\* A second passes for the rows and for what clients believe of them alike.
LEMMA TickInv == Inv /\ Tick => Inv'
<1> SUFFICES ASSUME Inv, Tick PROVE Inv'
  OBVIOUS
<1> DEFINE older(n) == IF n = 0 THEN 0 ELSE n - 1
           aged(l) == [l EXCEPT !.left = older(@)]
<1>1. /\ leases' = {aged(l) : l \in leases}
      /\ told' = [t \in Session |-> older(told[t])]
      /\ UNCHANGED <<git, life, sstate, home, provider>>
  BY DEF Tick
<1>2. \A n \in 0..MaxTTL : /\ older(n) \in 0..MaxTTL
                           /\ \A m \in 0..MaxTTL : n >= m => older(n) >= older(m)
                           /\ older(n) > 0 => n > 0
  BY MaxTTLAssumption
<1> HIDE DEF older
<1>3. \A l \in leases : /\ aged(l) \in LeaseRow /\ aged(l).id = l.id
                        /\ aged(l).worktree = l.worktree
                        /\ aged(l).session = l.session
                        /\ aged(l).left = older(l.left)
                        /\ l.left \in 0..MaxTTL
  BY <1>2 DEF Inv, TypeOK, LeaseRow
<1> HIDE DEF aged
<1>4. told' \in [Session -> 0..MaxTTL] /\ leases' \in SUBSET LeaseRow
  BY <1>1, <1>2, <1>3 DEF Inv, TypeOK
<1>5. TypeOK'
  BY <1>1, <1>4 DEF Inv, TypeOK
<1>6. LeaseExclusive' /\ ActiveLeaseOwner'
  BY <1>1, <1>3 DEF Inv, LeaseExclusive, ActiveLeaseOwner
<1>7. ToldOnlyToSessions'
  BY <1>1, <1>2 DEF Inv, TypeOK, ToldOnlyToSessions
<1>8. ToldLeaseStands'
  <2> SUFFICES ASSUME NEW t \in Session, told'[t] > 0, sstate[t] = "active"
               PROVE  \E l \in leases' : /\ l.session = t /\ l.worktree = home[t]
                                         /\ l.left >= told'[t]
    BY <1>1 DEF ToldLeaseStands
  <2>1. told[t] \in 0..MaxTTL /\ told[t] > 0 /\ told'[t] = older(told[t])
    BY <1>1, <1>2 DEF Inv, TypeOK
  <2>2. PICK l \in leases : l.session = t /\ l.worktree = home[t] /\ l.left >= told[t]
    BY <2>1 DEF Inv, ToldLeaseStands
  <2>3. aged(l) \in leases' /\ aged(l).left >= told'[t]
    BY <1>1, <1>2, <1>3, <2>1, <2>2
  <2> QED
    BY <1>3, <2>2, <2>3
<1> QED
  BY <1>5, <1>6, <1>7, <1>8 DEF Inv

\* The tool's removal and Git's own changes leave both tables alone.
LEMMA WorktreeInv ==
    ASSUME Inv, NEW w \in Worktree, ToolRemove(w) \/ GitChange(w)
    PROVE  Inv'
<1>1. UNCHANGED <<sstate, home, provider, leases, told>>
  BY DEF ToolRemove, GitChange
<1>2. TypeOK'
  BY <1>1 DEF Inv, TypeOK, ToolRemove, GitChange
<1> QED
  BY <1>1, <1>2 DEF Inv, LeaseExclusive, ActiveLeaseOwner, ToldLeaseStands,
                    ToldOnlyToSessions

\* No handler, no second and no change in Git breaks the invariant.
LEMMA NextInv == Inv /\ [Next]_vars => Inv'
<1> SUFFICES ASSUME Inv, [Next]_vars PROVE Inv'
  OBVIOUS
<1>1. CASE Refresh
  BY <1>1, RefreshInv
<1>2. ASSUME NEW s \in Session, NEW w \in Worktree, NEW p \in Provider,
             NEW ttl \in 0..MaxTTL, Register(s, w, p, ttl)
      PROVE  Inv'
  BY <1>2, RegisterInv
<1>3. ASSUME NEW s \in Session, NEW ttl \in 0..MaxTTL, Heartbeat(s, ttl)
      PROVE  Inv'
  BY <1>3, HeartbeatInv
<1>4. ASSUME NEW s \in Session, NEW w \in Worktree, NEW ttl \in TTL, Acquire(s, w, ttl)
      PROVE  Inv'
  BY <1>4, AcquireInv
<1>5. ASSUME NEW s \in Session, ReleaseLease(s) \/ ReleaseSession(s)
      PROVE  Inv'
  BY <1>5, ReleaseInv
<1>6. ASSUME NEW w \in Worktree, ToolRemove(w) \/ GitChange(w)
      PROVE  Inv'
  BY <1>6, WorktreeInv
<1>7. CASE Tick
  BY <1>7, TickInv
<1>8. CASE UNCHANGED vars
  BY <1>8 DEF vars, Inv, TypeOK, LeaseExclusive, ActiveLeaseOwner,
              ToldLeaseStands, ToldOnlyToSessions
<1> QED
  BY <1>1, <1>2, <1>3, <1>4, <1>5, <1>6, <1>7, <1>8 DEF Next

\* The inductive invariant holds in every reachable state.
THEOREM InvHolds == Spec => []Inv
  BY InitInv, NextInv, PTL DEF Spec

\* Every variable stays in its type.
THEOREM TypeOKHolds == Spec => []TypeOK
  BY InvHolds, PTL DEF Inv

\* No worktree ever has two active lease rows.
THEOREM LeaseExclusiveHolds == Spec => []LeaseExclusive
  BY InvHolds, PTL DEF Inv

\* An active lease always belongs to an active session of its worktree.
THEOREM ActiveLeaseOwnerHolds == Spec => []ActiveLeaseOwner
  BY InvHolds, PTL DEF Inv

\* A client may rely on the lease it was told of until its time is over,
\* unless its session was staled.
THEOREM ToldLeaseStandsHolds == Spec => []ToldLeaseStands
  BY InvHolds, PTL DEF Inv

\* Two sessions that both still count on one worktree: one of them is stale.
THEOREM OneBelieverHolds == Spec => []OneBeliever
<1>1. Inv => OneBeliever
  <2> SUFFICES ASSUME Inv, NEW s \in Session, NEW t \in Session, s # t,
                      home[s] = home[t], told[s] > 0, told[t] > 0,
                      sstate[s] # "stale", sstate[t] # "stale"
               PROVE  FALSE
    BY DEF OneBeliever
  <2>1. sstate[s] = "active" /\ sstate[t] = "active"
    BY DEF Inv, ToldOnlyToSessions
  <2>2. PICK l \in leases : l.session = s /\ l.worktree = home[s]
    BY <2>1 DEF Inv, ToldLeaseStands
  <2>3. PICK m \in leases : m.session = t /\ m.worktree = home[t]
    BY <2>1 DEF Inv, ToldLeaseStands
  <2>4. l = m
    BY <2>2, <2>3 DEF Inv, LeaseExclusive
  <2> QED
    BY <2>2, <2>3, <2>4
<1> QED
  BY <1>1, InvHolds, PTL

-----------------------------------------------------------------------------
(* Leases implement LeaseLock. *)

\* Under exclusivity the owner is characterised without CHOOSE.
LEMMA OwnerIs ==
    ASSUME NEW rows \in SUBSET LeaseRow,
           \A l, m \in rows : l.worktree = m.worktree => l = m,
           NEW w \in Worktree
    PROVE  /\ OwnerIn(rows, w) # None =>
                 \E l \in rows : /\ l.worktree = w /\ l.left > 0
                                 /\ l.session = OwnerIn(rows, w)
           /\ OwnerIn(rows, w) \in Session \cup {None}
BY NoneAssumption DEF OwnerIn, Unexpired, LeaseRow

\* The rows a step may leave: each unexpired row after it either was there
\* before with the same session, unexpired, or its worktree had no owner.
RowsPass ==
    \A m \in leases' : m.left > 0 =>
        \A l \in leases : l.worktree = m.worktree /\ l.left > 0 => l.session = m.session

\* acquire_lease_inner is a RowsPass step for the rows it does not drop.
LEMMA TakePasses ==
    ASSUME Inv, NEW rows \in SUBSET leases, NEW w \in Worktree,
           NEW s \in Session, NEW ttl \in TTL, Take(rows, w, s, ttl),
           \A l \in leases : l.worktree = w /\ l.left > 0 => l \in rows
    PROVE  RowsPass
<1>1. TypeOK /\ LeaseExclusive
  BY DEF Inv
<1>2. \A m \in leases' : \/ m \in rows /\ m.worktree # w
                         \/ m.worktree = w /\ m.session = s /\ m.left = ttl
  BY <1>1, TakeRows
<1>3. \A l \in leases : l.worktree = w /\ l.left > 0 => l.session = s
  BY Blocked
<1> QED
  BY <1>1, <1>2, <1>3 DEF RowsPass, LeaseExclusive

\* Every step hands worktrees on as the abstract lock allows, row by row.
LEMMA NextPasses == Inv /\ [Next]_vars => RowsPass
<1> SUFFICES ASSUME Inv, [Next]_vars PROVE RowsPass
  OBVIOUS
<1>1. ASSUME leases' \in SUBSET leases PROVE RowsPass
  BY <1>1 DEF RowsPass, Inv, LeaseExclusive
<1>2. CASE Refresh
  BY <1>1, <1>2, Reconciled DEF Refresh
<1>3. ASSUME NEW s \in Session, NEW w \in Worktree, NEW p \in Provider,
             NEW ttl \in 0..MaxTTL, Register(s, w, p, ttl)
      PROVE  RowsPass
  <2>1. w \notin Vanished
    BY <1>3 DEF Register, Vanished
  <2>2. \A l \in leases : l.worktree = w /\ l.left > 0 => l \in Kept
    BY <2>1 DEF Kept
  <2>3. leases' = Kept \/ (ttl \in TTL /\ Take(Kept, w, s, ttl))
    BY <1>3 DEF Register
  <2> QED
    BY <1>1, <2>2, <2>3, Reconciled, TakePasses
<1>4. ASSUME NEW s \in Session, NEW ttl \in 0..MaxTTL, Heartbeat(s, ttl)
      PROVE  RowsPass
  <2> DEFINE live == {l \in leases : Unexpired(l)}
             mine == {l \in live : l.session = s}
  <2>1. CASE leases' = live
    BY <2>1, <1>1
  <2>2. CASE ttl \in TTL /\ leases' = (live \ mine) \cup {Renewed(l, ttl) : l \in mine}
    <3>1. \A l \in mine : Renewed(l, ttl).worktree = l.worktree /\ Renewed(l, ttl).session = s
      BY <2>2, RenewedRow DEF Inv, TypeOK
    <3> QED
      BY <2>2, <3>1 DEF RowsPass, Inv, LeaseExclusive
  <2>3. CASE ttl \in TTL /\ Take(live, home[s], s, ttl)
    <3>1. home[s] \in Worktree /\ live \in SUBSET leases
          /\ \A l \in leases : l.worktree = home[s] /\ l.left > 0 => l \in live
      BY DEF Inv, TypeOK, Unexpired
    <3> HIDE DEF live
    <3> QED
      BY <2>3, <3>1, TakePasses
  <2> QED
    BY <1>4, <2>1, <2>2, <2>3 DEF Heartbeat
<1>5. ASSUME NEW s \in Session, NEW w \in Worktree, NEW ttl \in TTL, Acquire(s, w, ttl)
      PROVE  RowsPass
  \* The session is still active after the reconciliation, so w is not lost.
  <2>1. w \notin Vanished /\ Take(Kept, w, s, ttl)
    BY <1>5, Reconciled DEF Acquire
  <2>2. \A l \in leases : l.worktree = w /\ l.left > 0 => l \in Kept
    BY <2>1 DEF Kept
  <2> QED
    BY <2>1, <2>2, Reconciled, TakePasses
<1>6. ASSUME NEW s \in Session, ReleaseLease(s) \/ ReleaseSession(s)
      PROVE  RowsPass
  BY <1>1, <1>6 DEF ReleaseLease, ReleaseSession
<1>7. ASSUME NEW w \in Worktree, ToolRemove(w) \/ GitChange(w)
      PROVE  RowsPass
  BY <1>1, <1>7 DEF ToolRemove, GitChange
<1>8. CASE Tick
  <2>1. \A m \in leases' : \E l \in leases : m.worktree = l.worktree /\ m.session = l.session
    BY <1>8 DEF Tick, Inv, TypeOK, LeaseRow
  <2> QED
    BY <2>1 DEF RowsPass, Inv, LeaseExclusive
<1>9. CASE UNCHANGED vars
  BY <1>1, <1>9 DEF vars
<1> QED
  BY <1>2, <1>3, <1>4, <1>5, <1>6, <1>7, <1>8, <1>9 DEF Next

\* Leases are an exclusive lock: the refinement that a run checks on a small
\* instance, for every instance.
THEOREM LeasesImplementLock == Spec => ImplementsLock
<1>1. Init => Lock!Init
  BY DEF Init, Lock!Init, Owners, OwnerIn
<1>2. Inv /\ Inv' /\ [Next]_vars => [Lock!Pass]_Owners
  <2> SUFFICES ASSUME Inv, Inv', [Next]_vars PROVE Lock!Pass
    OBVIOUS
  <2> DEFINE old(w) == OwnerIn(leases, w)
             new(w) == OwnerIn(leases', w)
  <2>1. /\ leases \in SUBSET LeaseRow /\ leases' \in SUBSET LeaseRow
        /\ \A l, m \in leases : l.worktree = m.worktree => l = m
        /\ \A l, m \in leases' : l.worktree = m.worktree => l = m
        /\ \A l \in leases' : home'[l.session] = l.worktree
        /\ RowsPass
    BY NextPasses DEF Inv, TypeOK, LeaseExclusive, ActiveLeaseOwner
  <2>2. \A w \in Worktree :
           /\ old(w) # None =>
                 \E l \in leases : l.worktree = w /\ l.left > 0 /\ l.session = old(w)
           /\ new(w) # None =>
                 \E l \in leases' : l.worktree = w /\ l.left > 0 /\ l.session = new(w)
           /\ new(w) \in Session \cup {None}
    BY <2>1, OwnerIs
  <2> HIDE DEF old, new
  <2>3. \A w \in Worktree : new(w) # old(w) => None \in {old(w), new(w)}
    BY <2>1, <2>2 DEF RowsPass
  <2>4. \A v, w \in Worktree : new(v) = new(w) /\ new(v) # None => v = w
    BY <2>1, <2>2
  <2>5. Owners = [w \in Worktree |-> old(w)] /\ Owners' = [w \in Worktree |-> new(w)]
    BY DEF Owners, old, new
  <2> QED
    BY <2>2, <2>3, <2>4, <2>5 DEF Lock!Pass
<1> QED
  BY <1>1, <1>2, InvHolds, PTL DEF Spec, ImplementsLock, Lock!Spec, Owners
=============================================================================

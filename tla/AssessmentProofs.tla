-------------------------- MODULE AssessmentProofs --------------------------
(***************************************************************************)
(* Proofs about cleanup assessment, for every minimum age, every set of    *)
(* branches, changes and usages, and any number of failing reads.          *)
(***************************************************************************)
EXTENDS Assessment, TLAPS

\* What a verdict says of the worktree: it is the promoted ground, only reads that
\* were made have failed, and a discovery without a failure is still true as long
\* as no ref moves.
Justified ==
    /\ worktree \in Worktree
    /\ handle = None => failed = {} /\ verdict = "none"
    /\ handle # None /\ lost = {} /\ ~moved => handle = Discovered(worktree, {})
    /\ failed \subseteq Made(worktree, Found, base)
    /\ verdict # "none" => verdict = Promoted(Grounds(worktree, Found, failed))

\* promote_classification: of the grounds there are, the one it ends with is
\* one that no other outranks.
LEMMA PromotedIsHighest ==
    ASSUME NEW g \in SUBSET Class, "eligible" \in g
    PROVE  /\ Promoted(g) \in g
           /\ \A d \in g : Priority(d) <= Priority(Promoted(g))
<1>1. \E c \in g : \A d \in g : Priority(d) <= Priority(c)
    <2>1. CASE "in-use" \in g BY <2>1 DEF Class, Priority
    <2>2. CASE "in-use" \notin g /\ "unsafe" \in g BY <2>2 DEF Class, Priority
    <2>3. CASE "in-use" \notin g /\ "unsafe" \notin g /\ "review" \in g
        BY <2>3 DEF Class, Priority
    <2>4. CASE g = {"eligible"} BY <2>4 DEF Class, Priority
    <2> QED BY <2>1, <2>2, <2>3, <2>4 DEF Class
<1> QED BY <1>1 DEF Promoted

\* Somebody's commit, fetch or branch leaves a worktree.
LEMMA RefMovesKeepsType == worktree \in Worktree /\ RefMoves => worktree' \in Worktree
<1> SUFFICES ASSUME worktree \in Worktree, RefMoves PROVE worktree' \in Worktree
    OBVIOUS
<1>1. CASE \E r \in Ref, tip \in {"absent", "apart", "merged"} :
              worktree' = [worktree EXCEPT !.tips[r] = tip]
    BY <1>1 DEF Worktree
<1>2. CASE \E b \in Branch \cup {None} : worktree' = [worktree EXCEPT !.origin = b]
    BY <1>2 DEF Worktree
<1> QED BY <1>1, <1>2 DEF RefMoves

\* Every verdict is justified.
LEMMA JustifiedHolds == Spec => []Justified
<1>1. Init => Justified BY DEF Init, Justified
<1>2. Justified /\ [Next]_vars => Justified'
    <2> SUFFICES ASSUME Justified, [Next]_vars PROVE Justified'
        OBVIOUS
    <2>1. CASE Discover
        <3>1. failed = {} /\ verdict = "none" /\ UNCHANGED <<worktree, failed, verdict>>
            BY <2>1 DEF Justified, Discover
        <3>2. handle' = Discovered(worktree', lost')
            BY <2>1 DEF Discover
        <3> QED BY <3>1, <3>2 DEF Justified
    <2>2. CASE RefMoves
        <3>1. failed' = {} /\ verdict' = "none" /\ moved' = TRUE
            BY <2>2 DEF RefMoves
        <3>2. worktree' \in Worktree
            BY <2>2, RefMovesKeepsType DEF Justified
        <3> QED BY <3>1, <3>2 DEF Justified
    <2>3. CASE Fails
        <3>1. /\ UNCHANGED <<worktree, handle, lost, moved, verdict>>
              /\ handle # None /\ verdict = "none" /\ failed' \subseteq Made(worktree', Found', base')
            BY <2>3 DEF Fails
        <3> QED BY <3>1 DEF Justified
    <2>4. CASE Assess
        BY <2>4 DEF Justified, Assess, Found
    <2>5. CASE UNCHANGED vars
        BY <2>5 DEF Justified, vars, Found
    <2> QED BY <2>1, <2>2, <2>3, <2>4, <2>5 DEF Next
<1> QED BY <1>1, <1>2, PTL DEF Spec

\* A justified verdict is one of the grounds, and none outranks it.
LEMMA VerdictIsHighest ==
    ASSUME Justified, verdict # "none"
    PROVE  /\ verdict \in Grounds(worktree, Found, failed)
           /\ \A d \in Grounds(worktree, Found, failed) : Priority(d) <= Priority(verdict)
<1>1. "eligible" \in Grounds(worktree, Found, failed) BY DEF Grounds, Class
<1>2. Grounds(worktree, Found, failed) \in SUBSET Class BY DEF Grounds
<1> QED BY <1>1, <1>2, PromotedIsHighest DEF Justified

\* No ground but "eligible" is left to an eligible worktree: everything that is
\* observed of it speaks for it.
LEMMA EligibleHasNoGround ==
    ASSUME Justified, verdict = "eligible"
    PROVE  /\ Available(worktree) /\ ~Incomplete(worktree, failed)
           /\ ~worktree.primary /\ ~worktree.locked /\ ~worktree.leased
           /\ ~(worktree.age < MinimumAge)
           /\ ~InUse(worktree, failed) /\ Error("lsof") \notin failed
           /\ ~Dirty(worktree, failed) /\ UniqueCommits(worktree, Found, failed) = "none"
           /\ MergedLocally(worktree, Found, failed)
           /\ RemoteKnown(worktree, Found, failed) => MergedRemotely(worktree, Found, failed)
<1> DEFINE G == Grounds(worktree, Found, failed)
<1>1. \A d \in G : Priority(d) <= Priority("eligible")
    BY VerdictIsHighest
<1>2. "in-use" \notin G /\ "unsafe" \notin G /\ "review" \notin G
    BY <1>1 DEF Priority
<1>3. worktree.dir
    BY <1>2 DEF Grounds, Class, Available
<1>4. UniqueCommits(worktree, Found, failed) \in {"none", "some", "unknown"}
    BY DEF UniqueCommits
<1> QED BY <1>2, <1>3, <1>4 DEF Grounds, Class

\* Whatever assess_worktree calls eligible is safe to remove, for every policy,
\* in a repository of any branches, except that lsof may have kept a user to
\* itself.
THEOREM EligibleIsSafeHolds == Spec => []EligibleIsSafe
<1>1. Justified => EligibleIsSafe
    <2> SUFFICES ASSUME Justified, verdict = "eligible"
                 PROVE  EligibleIsSafe
        BY DEF EligibleIsSafe
    <2>1. worktree \in Worktree BY DEF Justified
    <2>2. Available(worktree) /\ ~Incomplete(worktree, failed)
        BY EligibleHasNoGround
    <2>3. ~worktree.primary /\ ~worktree.prunable /\ worktree.dir /\ ~worktree.locked
          /\ ~worktree.leased
        BY <2>2, EligibleHasNoGround DEF Available
    <2>4. worktree.age >= MinimumAge
        BY <2>1, EligibleHasNoGround, AgeAssumption DEF Worktree
    <2>5. worktree.usage = "root" => Exit("lsof") \in failed
        BY <2>3, EligibleHasNoGround DEF InUse
    <2>6. worktree.changes \subseteq {"ignored"}
        <3>1. ~Dirty(worktree, failed) BY EligibleHasNoGround
        <3>2. worktree.changes \subseteq ChangeOf BY <2>1, KindAssumption DEF Worktree
        <3> QED BY <2>2, <3>1, <3>2 DEF Dirty, Incomplete, ChangeOf
    <2>7. /\ worktree.head /\ Found.integration # None
          /\ worktree.tips[Found.integration] = "merged"
        BY EligibleHasNoGround DEF MergedLocally, Compared, Resolves
    <2> QED BY <2>3, <2>4, <2>5, <2>6, <2>7 DEF EligibleIsSafe
<1> QED BY <1>1, JustifiedHolds, PTL

\* A remote branch is respected for every worktree, repository and base, unless
\* its lookup failed silently or is older than the branch.
THEOREM RemoteIsRespectedHolds == Spec => []RemoteIsRespected
<1>1. Justified => RemoteIsRespected
    <2> SUFFICES ASSUME Justified, verdict = "eligible", Due # None,
                        ~(base # None /\ Exit("remote branch") \in failed),
                        ~(base = None /\ (lost # {} \/ moved))
                 PROVE  worktree.tips[Due] = "merged"
        BY DEF RemoteIsRespected
    <2>1. Found.remote = Due
        <3>1. CASE base = None
            <4>1. handle = Discovered(worktree, {})
                BY <3>1 DEF Justified
            <4>2. Found = handle
                BY <3>1 DEF Found, Target
            <4> QED BY <3>1, <4>1, <4>2 DEF Discovered, Due
        <3>2. CASE base # None
            <4>1. Error("remote branch") \notin failed
                BY EligibleHasNoGround DEF Incomplete
            <4> QED BY <3>2, <4>1 DEF Found, Target, Due
        <3> QED BY <3>1, <3>2
    <2>2. RemoteKnown(worktree, Found, failed)
        BY <2>1, EligibleHasNoGround DEF RemoteKnown, MergedLocally
    <2> QED BY <2>1, <2>2, EligibleHasNoGround DEF MergedRemotely
<1> QED BY <1>1, JustifiedHolds, PTL

\* However many reads fail, a worktree that is eligible all the same has lost no
\* more than the four answers that the code reads into a silent exit.
THEOREM FailureBlocksHolds == Spec => []FailureBlocks
<1>1. Justified => FailureBlocks
    <2> SUFFICES ASSUME Justified, verdict = "eligible", NEW r \in failed
                 PROVE  r \in {Exit("upstream"), Exit("last commit"), Exit("remote branch"),
                               Exit("lsof")}
        BY DEF FailureBlocks
    <2>1. r \in Made(worktree, Found, base) BY DEF Justified
    <2>2. ~Incomplete(worktree, failed) /\ r # Error("lsof")
        BY EligibleHasNoGround
    <2>3. r \notin {Error("changes"), Error("upstream"), Error("last commit"),
                    Error("remote branch"), Error("merge"), Error("disk usage")}
        BY <2>2 DEF Incomplete
    <2>4. r # Exit("rev-list")
        BY EligibleHasNoGround DEF UniqueCommits
    <2>5. r # Exit("ancestor")
        BY EligibleHasNoGround DEF MergedLocally
    <2>6. r # Exit("remote ancestor")
        <3>1. SUFFICES ASSUME r = Exit("remote ancestor") PROVE FALSE
            OBVIOUS
        <3>2. Found.remote # None BY <2>1, <3>1 DEF Made, Exit, Error
        <3>3. Compared(worktree, Found, failed) BY EligibleHasNoGround DEF MergedLocally
        <3>4. MergedRemotely(worktree, Found, failed)
            BY <3>2, <3>3, EligibleHasNoGround DEF RemoteKnown
        <3> QED BY <3>1, <3>4 DEF MergedRemotely
    <2> QED BY <2>1, <2>2, <2>3, <2>4, <2>5, <2>6 DEF Made
<1> QED BY <1>1, JustifiedHolds, PTL

\* Use outranks danger, and danger outranks doubt, whatever was observed.
THEOREM PolicyOrderHolds == Spec => []PolicyOrder
<1>1. Justified => PolicyOrder
    <2> SUFFICES ASSUME Justified, verdict # "none"
                 PROVE  PolicyOrder
        BY DEF PolicyOrder
    <2> DEFINE G == Grounds(worktree, Found, failed)
    <2>1. verdict \in G /\ \A d \in G : Priority(d) <= Priority(verdict)
        BY VerdictIsHighest
    <2>2. "in-use" \in G <=> worktree.leased \/ InUse(worktree, failed)
        BY DEF Grounds, Class
    <2>3. "unsafe" \in G <=> \/ Dirty(worktree, failed)
                             \/ UniqueCommits(worktree, Found, failed) = "some"
        BY DEF Grounds, Class
    <2>4. verdict = "in-use" <=> "in-use" \in G
        BY <2>1 DEF Priority, Grounds, Class
    <2>5. verdict = "unsafe" <=> "unsafe" \in G /\ "in-use" \notin G
        BY <2>1 DEF Priority, Grounds, Class
    <2> QED BY <2>2, <2>3, <2>4, <2>5 DEF PolicyOrder
<1> QED BY <1>1, JustifiedHolds, PTL
=============================================================================

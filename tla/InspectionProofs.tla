-------------------------- MODULE InspectionProofs --------------------------
(***************************************************************************)
(* Proofs about the parsers of what Git prints and about the way from      *)
(* there to the verdict, for all texts and any number of changes and       *)
(* worktrees.                                                              *)
(***************************************************************************)
EXTENDS Inspection, AssessmentProofs, Induction, FiniteSetTheorems

-----------------------------------------------------------------------------
(* The folds of the parser of listings, field by field. *)

AnyValue == Text \cup {Nothing, "id", "replaced", "main", "topic/fix", "refs/heads/main",
                       "refs/heads/topic/fix", "refs/bisect/main"}
Keys == {"worktree", "HEAD", "branch", "detached", "bare", "locked", "prunable"}
Keyed == [key: Keys, value: AnyValue]
AnyField == Keyed \cup {End}
AnyWorktree ==
    [ok: BOOLEAN, path: AnyValue, head: AnyValue, branch: AnyValue, detached: BOOLEAN,
     bare: BOOLEAN, locked: BOOLEAN, reason: AnyValue, prunable: BOOLEAN, why: AnyValue]

\* What With takes and gives.
LEMMA WithType ==
    ASSUME NEW w \in AnyWorktree, NEW f \in AnyField
    PROVE  With(w, f) \in AnyWorktree
<1>1. f.value \in AnyValue
    <2>1. f \in Keyed => f.value \in AnyValue
        BY DEF Keyed
    <2>2. End.value = Nothing /\ Nothing \in AnyValue
        BY DEF End, Field, AnyValue
    <2> QED BY <2>1, <2>2 DEF AnyField
<1>2. Short(f.value) \in AnyValue /\ Lossy(f.value) \in AnyValue
    BY <1>1 DEF AnyValue, Short, Lossy
<1>3. w.ok \in BOOLEAN
    BY DEF AnyWorktree
<1> HIDE DEF AnyValue
<1> QED
    BY <1>1, <1>2, <1>3 DEF AnyWorktree, With

LEMMA BlankType == Blank \in AnyWorktree
BY DEF Blank, AnyWorktree, AnyValue

\* The worktree after each field of a record.
Parses(g, record) ==
    /\ g[0] = Blank
    /\ \A i \in 1..Len(record) : g[i] = With(g[i - 1], record[i])
    /\ FoldLeft(With, Blank, record) = g[Len(record)]

LEMMA ParsesByField ==
    ASSUME NEW record \in Seq(AnyField)
    PROVE  \E g : Parses(g, record)
<1>1. PICK n \in Nat : n = Len(record)
    OBVIOUS
<1>2. DOMAIN record = 1..n /\ \A i \in 1..n : record[i] \in AnyField
    BY <1>1
<1> DEFINE h == [i \in 1..n |-> [w \in AnyWorktree |-> With(w, record[i])]]
           at(f, s) == IF s = {} THEN Blank ELSE With(f[s \ {Max(s)}], record[Max(s)])
           Eq(f) == f = [s \in SUBSET (1..n) |-> at(f, s)]
           f == CHOOSE f : Eq(f)
<1>3. h \in [1..n -> [AnyWorktree -> AnyWorktree]]
    BY <1>2, WithType
<1>4. \A i \in 1..n : \A w \in AnyWorktree : h[i][w] = With(w, record[i])
    OBVIOUS
<1> HIDE DEF h
<1>5. PICK it \in [SUBSET (1..n) -> AnyWorktree] :
         \A s \in SUBSET (1..n) : FoldsAt(it, s, Blank, h)
    BY <1>3, BlankType, FoldExists
<1>6. ASSUME NEW s \in SUBSET (1..n) PROVE it[s] = at(it, s)
    <2>1. CASE s = {}
        BY <2>1, <1>5 DEF FoldsAt
    <2>2. CASE s # {}
        <3>1. Max(s) \in 1..n /\ s \ {Max(s)} \in SUBSET (1..n)
            BY <2>2, MaxExists
        <3>2. it[s] = h[Max(s)][it[s \ {Max(s)}]]
            BY <2>2, <1>5 DEF FoldsAt
        <3>3. it[s \ {Max(s)}] \in AnyWorktree
            BY <3>1
        <3>4. it[s] = With(it[s \ {Max(s)}], record[Max(s)])
            BY <3>1, <3>2, <3>3, <1>4
        <3> QED BY <2>2, <3>4
    <2> QED BY <2>1, <2>2
<1>7. Eq(it)
    <2> HIDE DEF at
    <2> QED BY <1>6
<1>8. Eq(f)
    <2> HIDE DEF Eq
    <2> QED BY <1>7
<1>9. FoldLeft(With, Blank, record) = f[1..n]
    BY <1>2 DEF FoldLeft, MapThenFoldSet
<1> HIDE DEF f
<1>10. \A s \in SUBSET (1..n) : f[s] = at(f, s)
    <2> HIDE DEF at
    <2> QED BY <1>8
<1> DEFINE g == [k \in 0..n |-> f[1..k]]
<1>11. \A k \in 0..n : g[k] = f[1..k]
    OBVIOUS
<1> HIDE DEF g
<1>12. g[0] = Blank
    <2>1. 1..0 = {} /\ 1..0 \in SUBSET (1..n)
        OBVIOUS
    <2>2. f[1..0] = Blank
        BY <2>1, <1>10
    <2> QED BY <2>2, <1>11
<1>13. ASSUME NEW i \in 1..n PROVE g[i] = With(g[i - 1], record[i])
    <2>1. 1..i \in SUBSET (1..n) /\ 1..i # {} /\ (1..i) \ {i} = 1..(i - 1)
        OBVIOUS
    <2>a. i - 1 \in 0..n /\ i \in 0..n
        OBVIOUS
    <2>2. Max(1..i) = i
        BY LastOfPrefix
    <2>3. f[1..i] = With(f[1..(i - 1)], record[i])
        BY <2>1, <2>2, <1>10
    <2> QED BY <2>a, <2>3, <1>11
<1>14. g[n] = f[1..n]
    BY <1>11
<1> QED
    BY <1>1, <1>9, <1>12, <1>13, <1>14 DEF Parses

AnyRecord == Seq(AnyField)
AnyRecords == [done: Seq(AnyRecord), current: AnyRecord]

LEMMA TookType ==
    ASSUME NEW acc \in AnyRecords, NEW f \in AnyField
    PROVE  Took(acc, f) \in AnyRecords
<1>1. acc.done \in Seq(AnyRecord) /\ acc.current \in AnyRecord
    BY DEF AnyRecords
<1>2. Append(acc.current, f) \in AnyRecord
    BY <1>1 DEF AnyRecord
<1>3. Append(acc.done, acc.current) \in Seq(AnyRecord)
    BY <1>1
<1>4. <<>> \in AnyRecord
    BY DEF AnyRecord
<1> HIDE DEF AnyRecord
<1> QED
    BY <1>1, <1>2, <1>3, <1>4 DEF Took, AnyRecords

LEMMA NoFieldsType == NoFields \in AnyRecords
<1>1. <<>> \in AnyRecord /\ <<>> \in Seq(AnyRecord)
    BY DEF AnyRecord
<1> QED
    BY <1>1 DEF NoFields, AnyRecords

\* The records after each field of a listing.
Collects(g, fields) ==
    /\ g[0] = NoFields
    /\ \A i \in 1..Len(fields) : g[i] = Took(g[i - 1], fields[i])
    /\ FoldLeft(Took, NoFields, fields) = g[Len(fields)]

LEMMA CollectsByField ==
    ASSUME NEW fields \in Seq(AnyField)
    PROVE  \E g : Collects(g, fields)
<1>1. PICK n \in Nat : n = Len(fields)
    OBVIOUS
<1>2. DOMAIN fields = 1..n /\ \A i \in 1..n : fields[i] \in AnyField
    BY <1>1
<1> DEFINE h == [i \in 1..n |-> [w \in AnyRecords |-> Took(w, fields[i])]]
           at(f, s) == IF s = {} THEN NoFields ELSE Took(f[s \ {Max(s)}], fields[Max(s)])
           Eq(f) == f = [s \in SUBSET (1..n) |-> at(f, s)]
           f == CHOOSE f : Eq(f)
<1>3. h \in [1..n -> [AnyRecords -> AnyRecords]]
    BY <1>2, TookType
<1>4. \A i \in 1..n : \A w \in AnyRecords : h[i][w] = Took(w, fields[i])
    OBVIOUS
<1> HIDE DEF h
<1>5. PICK it \in [SUBSET (1..n) -> AnyRecords] :
         \A s \in SUBSET (1..n) : FoldsAt(it, s, NoFields, h)
    BY <1>3, NoFieldsType, FoldExists
<1>6. ASSUME NEW s \in SUBSET (1..n) PROVE it[s] = at(it, s)
    <2>1. CASE s = {}
        BY <2>1, <1>5 DEF FoldsAt
    <2>2. CASE s # {}
        <3>1. Max(s) \in 1..n /\ s \ {Max(s)} \in SUBSET (1..n)
            BY <2>2, MaxExists
        <3>2. it[s] = h[Max(s)][it[s \ {Max(s)}]]
            BY <2>2, <1>5 DEF FoldsAt
        <3>3. it[s \ {Max(s)}] \in AnyRecords
            BY <3>1
        <3>4. it[s] = Took(it[s \ {Max(s)}], fields[Max(s)])
            BY <3>1, <3>2, <3>3, <1>4
        <3> QED BY <2>2, <3>4
    <2> QED BY <2>1, <2>2
<1>7. Eq(it)
    <2> HIDE DEF at
    <2> QED BY <1>6
<1>8. Eq(f)
    <2> HIDE DEF Eq
    <2> QED BY <1>7
<1>9. FoldLeft(Took, NoFields, fields) = f[1..n]
    BY <1>2 DEF FoldLeft, MapThenFoldSet
<1> HIDE DEF f
<1>10. \A s \in SUBSET (1..n) : f[s] = at(f, s)
    <2> HIDE DEF at
    <2> QED BY <1>8
<1> DEFINE g == [k \in 0..n |-> f[1..k]]
<1>11. \A k \in 0..n : g[k] = f[1..k]
    OBVIOUS
<1> HIDE DEF g
<1>12. g[0] = NoFields
    <2>1. 1..0 = {} /\ 1..0 \in SUBSET (1..n)
        OBVIOUS
    <2>2. f[1..0] = NoFields
        BY <2>1, <1>10
    <2> QED BY <2>2, <1>11
<1>13. ASSUME NEW i \in 1..n PROVE g[i] = Took(g[i - 1], fields[i])
    <2>1. 1..i \in SUBSET (1..n) /\ 1..i # {} /\ (1..i) \ {i} = 1..(i - 1)
        OBVIOUS
    <2>a. i - 1 \in 0..n /\ i \in 0..n
        OBVIOUS
    <2>2. Max(1..i) = i
        BY LastOfPrefix
    <2>3. f[1..i] = Took(f[1..(i - 1)], fields[i])
        BY <2>1, <2>2, <1>10
    <2> QED BY <2>a, <2>3, <1>11
<1>14. g[n] = f[1..n]
    BY <1>11
<1> QED
    BY <1>1, <1>9, <1>12, <1>13, <1>14 DEF Collects

-----------------------------------------------------------------------------
(* The fields that are printed of a worktree, and how each is read. *)

HeadFields(w) ==
    IF w.bare THEN <<Field("bare", Nothing)>>
    ELSE <<Field("HEAD", "id"), IF w.on = Nothing THEN Field("detached", Nothing)
                                ELSE Field("branch", w.on.ref)>>
LockFields(w) == IF w.locked THEN <<Field("locked", w.reason)>> ELSE <<>>
PruneFields(w) == IF w.why # Nothing THEN <<Field("prunable", w.why)>> ELSE <<>>

\* How many there are up to the HEAD, and up to the lock.
UpToHead(w) == IF w.bare THEN 2 ELSE 3
UpToLock(w) == UpToHead(w) + (IF w.locked THEN 1 ELSE 0)

LEMMA FieldParts ==
    ASSUME NEW key, NEW value
    PROVE  /\ Field(key, value).key = key /\ Field(key, value).value = value
           /\ End \notin Keyed
<1>1. Field(key, value).key = key /\ Field(key, value).value = value /\ End.key = ""
    BY DEF Field, End
<1>2. \A f \in Keyed : f.key \in Keys
    BY DEF Keyed
<1>3. "" \notin Keys
    BY DEF Keys
<1> QED
    BY <1>1, <1>2, <1>3

\* They are at these places, and none of them ends the record.
FieldsOf(r, w) ==
    /\ r \in Seq(Keyed)
    /\ Len(r) = UpToLock(w) + (IF w.why # Nothing THEN 1 ELSE 0)
    /\ r[1] = Field("worktree", w.path)
    /\ w.bare => r[2] = Field("bare", Nothing)
    /\ ~w.bare => /\ r[2] = Field("HEAD", "id")
                  /\ w.on = Nothing => r[3] = Field("detached", Nothing)
                  /\ w.on # Nothing => r[3] = Field("branch", w.on.ref)
    /\ w.locked => r[UpToHead(w) + 1] = Field("locked", w.reason)
    /\ w.why # Nothing => r[UpToLock(w) + 1] = Field("prunable", w.why)

LEMMA ListedFields ==
    ASSUME NEW w \in Listed
    PROVE  /\ w.path \in Text /\ w.bare \in BOOLEAN /\ w.on \in On \cup {Nothing}
           /\ w.locked \in BOOLEAN /\ w.reason \in Text \cup {Nothing}
           /\ w.why \in Text \cup {Nothing}
           /\ w.bare => w.on = Nothing
           /\ ~w.locked => w.reason = Nothing
BY DEF Listed

LEMMA KeyedFields ==
    ASSUME NEW w \in Listed
    PROVE  /\ <<Field("worktree", w.path)>> \in Seq(Keyed)
           /\ HeadFields(w) \in Seq(Keyed) /\ Len(HeadFields(w)) = UpToHead(w) - 1
           /\ LockFields(w) \in Seq(Keyed) /\ Len(LockFields(w)) = UpToLock(w) - UpToHead(w)
           /\ PruneFields(w) \in Seq(Keyed)
           /\ Len(PruneFields(w)) = IF w.why # Nothing THEN 1 ELSE 0
<1>1. ASSUME NEW value \in AnyValue
      PROVE  /\ Field("worktree", value) \in Keyed /\ Field("HEAD", value) \in Keyed
             /\ Field("branch", value) \in Keyed /\ Field("detached", value) \in Keyed
             /\ Field("bare", value) \in Keyed /\ Field("locked", value) \in Keyed
             /\ Field("prunable", value) \in Keyed
    BY DEF Field, Keyed, Keys
<1>2. /\ w.path \in AnyValue /\ w.reason \in AnyValue /\ w.why \in AnyValue
      /\ Nothing \in AnyValue /\ "id" \in AnyValue
    BY ListedFields DEF AnyValue
<1>3. w.on # Nothing => w.on.ref \in AnyValue
    BY ListedFields DEF AnyValue, On
<1>4. <<Field("worktree", w.path)>> \in Seq(Keyed)
    BY <1>1, <1>2, Singleton
<1>5. HeadFields(w) \in Seq(Keyed) /\ Len(HeadFields(w)) = UpToHead(w) - 1
    <2>1. CASE w.bare
        <3>1. Field("bare", Nothing) \in Keyed
            BY <1>1, <1>2
        <3> QED BY <2>1, <3>1, Singleton DEF HeadFields, UpToHead
    <2>2. CASE ~w.bare
        <3>1. Field("HEAD", "id") \in Keyed
            BY <1>1, <1>2
        <3>2. PICK f \in Keyed : f = IF w.on = Nothing THEN Field("detached", Nothing)
                                     ELSE Field("branch", w.on.ref)
            BY <1>1, <1>2, <1>3
        <3>3. HeadFields(w) = <<Field("HEAD", "id"), f>>
            BY <2>2, <3>2 DEF HeadFields
        <3> QED BY <2>2, <3>1, <3>3, Couple DEF UpToHead
    <2> QED BY <2>1, <2>2
<1>6. LockFields(w) \in Seq(Keyed) /\ Len(LockFields(w)) = UpToLock(w) - UpToHead(w)
    <2>1. Field("locked", w.reason) \in Keyed
        BY <1>1, <1>2
    <2>2. UpToHead(w) \in Nat
        BY DEF UpToHead
    <2>3. CASE w.locked
        BY <2>1, <2>2, <2>3, Singleton DEF LockFields, UpToLock
    <2>4. CASE ~w.locked
        BY <2>2, <2>4 DEF LockFields, UpToLock
    <2> QED BY <2>3, <2>4
<1>7. /\ PruneFields(w) \in Seq(Keyed)
      /\ Len(PruneFields(w)) = IF w.why # Nothing THEN 1 ELSE 0
    <2>1. Field("prunable", w.why) \in Keyed
        BY <1>1, <1>2
    <2> QED BY <2>1, Singleton DEF PruneFields
<1> QED
    BY <1>4, <1>5, <1>6, <1>7

LEMMA WorktreeFieldsAre ==
    ASSUME NEW w \in Listed
    PROVE  FieldsOf(WorktreeFields(w), w)
<1> DEFINE p == <<Field("worktree", w.path)>>
           h == HeadFields(w)
           l == LockFields(w)
           q == PruneFields(w)
<1>1. /\ p \in Seq(Keyed) /\ h \in Seq(Keyed) /\ l \in Seq(Keyed) /\ q \in Seq(Keyed)
      /\ Len(h) = UpToHead(w) - 1 /\ Len(l) = UpToLock(w) - UpToHead(w)
      /\ Len(q) = IF w.why # Nothing THEN 1 ELSE 0
    BY KeyedFields
<1>2. Len(p) = 1 /\ p[1] = Field("worktree", w.path)
    OBVIOUS
<1>3. /\ UpToHead(w) \in {2, 3} /\ UpToLock(w) \in {UpToHead(w), UpToHead(w) + 1}
      /\ (w.bare => UpToHead(w) = 2) /\ (~w.bare => UpToHead(w) = 3)
      /\ (w.locked => UpToLock(w) = UpToHead(w) + 1)
    BY DEF UpToHead, UpToLock
<1>4. /\ w.bare => h[1] = Field("bare", Nothing)
      /\ ~w.bare => /\ h[1] = Field("HEAD", "id")
                    /\ w.on = Nothing => h[2] = Field("detached", Nothing)
                    /\ w.on # Nothing => h[2] = Field("branch", w.on.ref)
      /\ w.locked => l[1] = Field("locked", w.reason)
      /\ w.why # Nothing => q[1] = Field("prunable", w.why)
    BY DEF HeadFields, LockFields, PruneFields
<1>5. WorktreeFields(w) = p \o h \o l \o q
    BY DEF WorktreeFields, HeadFields, LockFields, PruneFields
<1> HIDE DEF p, h, l, q
<1> DEFINE a == p \o h
           b == a \o l
           r == b \o q
<1>6. a \in Seq(Keyed) /\ Len(a) = UpToHead(w)
      /\ a[1] = p[1] /\ \A j \in 1..Len(h) : a[j + 1] = h[j]
    <2>1. a \in Seq(Keyed) /\ Len(a) = Len(p) + Len(h)
        BY <1>1, ConcatProperties
    <2>2. \A j \in 1..Len(p) + Len(h) : a[j] = IF j <= Len(p) THEN p[j] ELSE h[j - Len(p)]
        BY <1>1, ConcatProperties
    <2>3. UpToHead(w) \in Nat /\ Len(h) \in Nat
        BY <1>1, <1>3
    <2> HIDE DEF a
    <2>4. Len(a) = UpToHead(w)
        BY <1>1, <1>2, <2>1, <2>3
    <2>5. a[1] = p[1]
        <3>1. 1 \in 1..1 + Len(h) /\ 1 <= 1
            BY <2>3
        <3> QED BY <3>1, <2>2, <1>2
    <2>6. ASSUME NEW j \in 1..Len(h) PROVE a[j + 1] = h[j]
        <3>1. j + 1 \in 1..1 + Len(h) /\ ~(j + 1 <= 1) /\ (j + 1) - 1 = j
            BY <2>3
        <3> QED BY <3>1, <2>2, <1>2
    <2> QED BY <2>1, <2>4, <2>5, <2>6
<1> HIDE DEF a
<1>7. /\ b \in Seq(Keyed) /\ Len(b) = UpToLock(w)
      /\ \A j \in 1..Len(a) : b[j] = a[j]
      /\ w.locked => b[UpToHead(w) + 1] = l[1]
    <2>1. b \in Seq(Keyed) /\ Len(b) = Len(a) + Len(l)
        BY <1>1, <1>6, ConcatProperties
    <2>2. \A j \in 1..Len(a) + Len(l) : b[j] = IF j <= Len(a) THEN a[j] ELSE l[j - Len(a)]
        BY <1>1, <1>6, ConcatProperties
    <2>3. UpToHead(w) \in Nat /\ UpToLock(w) \in Nat /\ Len(l) \in Nat
        BY <1>1, <1>3
    <2> HIDE DEF b
    <2>4. Len(b) = UpToLock(w)
        BY <1>1, <1>6, <2>1, <2>3
    <2>5. ASSUME NEW j \in 1..Len(a) PROVE b[j] = a[j]
        <3>1. j \in 1..Len(a) + Len(l) /\ j <= Len(a)
            BY <1>6, <2>3
        <3> QED BY <3>1, <2>2
    <2>6. ASSUME w.locked PROVE b[UpToHead(w) + 1] = l[1]
        <3>1. Len(l) = 1
            BY <1>1, <1>3, <2>6
        <3>2. PICK j \in Nat : j = UpToHead(w) + 1 /\ j - UpToHead(w) = 1
            BY <2>3
        <3>3. j \in 1..UpToHead(w) + 1 /\ ~(j <= UpToHead(w))
            BY <2>3, <3>2
        <3> QED BY <3>1, <3>2, <3>3, <2>2, <1>6
    <2> QED BY <2>1, <2>4, <2>5, <2>6
<1> HIDE DEF b
<1>8. /\ r \in Seq(Keyed) /\ Len(r) = UpToLock(w) + (IF w.why # Nothing THEN 1 ELSE 0)
      /\ \A j \in 1..Len(b) : r[j] = b[j]
      /\ w.why # Nothing => r[UpToLock(w) + 1] = q[1]
    <2>1. r \in Seq(Keyed) /\ Len(r) = Len(b) + Len(q)
        BY <1>1, <1>7, ConcatProperties
    <2>2. \A j \in 1..Len(b) + Len(q) : r[j] = IF j <= Len(b) THEN b[j] ELSE q[j - Len(b)]
        BY <1>1, <1>7, ConcatProperties
    <2>3. UpToLock(w) \in Nat /\ Len(q) \in Nat
        BY <1>1, <1>3
    <2> HIDE DEF r
    <2>5. ASSUME NEW j \in 1..Len(b) PROVE r[j] = b[j]
        <3>1. j \in 1..Len(b) + Len(q) /\ j <= Len(b)
            BY <1>7, <2>3
        <3> QED BY <3>1, <2>2
    <2>6. ASSUME w.why # Nothing PROVE r[UpToLock(w) + 1] = q[1]
        <3>1. Len(q) = 1
            BY <1>1, <2>6
        <3>2. PICK j \in Nat : j = UpToLock(w) + 1 /\ j - UpToLock(w) = 1
            BY <2>3
        <3>3. j \in 1..UpToLock(w) + 1 /\ ~(j <= UpToLock(w))
            BY <2>3, <3>2
        <3> QED BY <3>1, <3>2, <3>3, <2>2, <1>7
    <2> QED BY <2>1, <2>5, <2>6, <1>1, <1>7
<1> HIDE DEF r
<1>9. ASSUME NEW j \in 1..UpToHead(w) PROVE r[j] = a[j]
    <2>1. j \in 1..Len(a) /\ j \in 1..Len(b)
        BY <1>3, <1>6, <1>7
    <2> QED BY <2>1, <1>7, <1>8
<1>10. r[1] = p[1] /\ r[2] = h[1] /\ (~w.bare => r[3] = h[2])
    <2>1. 1 \in 1..UpToHead(w) /\ 2 \in 1..UpToHead(w) /\ (~w.bare => 3 \in 1..UpToHead(w))
        BY <1>3
    <2>2. r[1] = a[1] /\ r[2] = a[2] /\ (~w.bare => r[3] = a[3])
        BY <2>1, <1>9
    <2>3. 1 \in 1..Len(h) /\ 1 + 1 = 2 /\ (~w.bare => 2 \in 1..Len(h)) /\ 2 + 1 = 3
        BY <1>1, <1>3
    <2>4. a[2] = h[1] /\ (~w.bare => a[3] = h[2])
        BY <2>3, <1>6
    <2> QED BY <2>2, <2>4, <1>6
<1>11. w.locked => r[UpToHead(w) + 1] = l[1]
    <2> SUFFICES ASSUME w.locked PROVE r[UpToHead(w) + 1] = l[1]
        OBVIOUS
    <2>1. UpToHead(w) + 1 \in 1..Len(b)
        BY <1>3, <1>7
    <2> QED BY <2>1, <1>7, <1>8
<1>12. WorktreeFields(w) = r
    BY <1>5 DEF r, b, a
<1>13. FieldsOf(r, w)
    BY <1>2, <1>4, <1>8, <1>10, <1>11 DEF FieldsOf
<1> QED
    BY <1>12, <1>13

\* A worktree, field by field.
Reads(w, ok, path, head, branch, detached, bare, locked, reason, prunable, why) ==
    /\ w \in AnyWorktree
    /\ w.ok = ok /\ w.path = path /\ w.head = head /\ w.branch = branch
    /\ w.detached = detached /\ w.bare = bare /\ w.locked = locked /\ w.reason = reason
    /\ w.prunable = prunable /\ w.why = why

LEMMA ReadAlike ==
    ASSUME NEW w, NEW ok, NEW path, NEW head, NEW branch, NEW detached, NEW bare,
           NEW locked, NEW reason, NEW prunable, NEW why, NEW u,
           Reads(w, ok, path, head, branch, detached, bare, locked, reason, prunable, why),
           Reads(u, ok, path, head, branch, detached, bare, locked, reason, prunable, why)
    PROVE  w = u
<1>1. w \in AnyWorktree /\ u \in AnyWorktree
    BY DEF Reads
<1>2. /\ w.ok = u.ok /\ w.path = u.path /\ w.head = u.head /\ w.branch = u.branch
      /\ w.detached = u.detached /\ w.bare = u.bare /\ w.locked = u.locked
      /\ w.reason = u.reason /\ w.prunable = u.prunable /\ w.why = u.why
    BY DEF Reads
<1> HIDE DEF AnyValue
<1> QED
    BY <1>1, <1>2 DEF AnyWorktree

\* What each field does to a worktree: the path,
LEMMA WithPath ==
    ASSUME NEW w, NEW ok, NEW path, NEW head, NEW branch, NEW detached, NEW bare,
           NEW locked, NEW reason, NEW prunable, NEW why, NEW v \in AnyValue,
           Reads(w, ok, path, head, branch, detached, bare, locked, reason, prunable, why),
           ok \in BOOLEAN, v \notin {Garbled, Nothing}
    PROVE  Reads(With(w, Field("worktree", v)), ok, v, head, branch, detached, bare,
                 locked, reason, prunable, why)
<1> DEFINE f == Field("worktree", v)
<1>1. f.key = "worktree" /\ f.value = v
    BY FieldParts
<1>2. f \in AnyField
    BY DEF AnyField, Keyed, Keys, Field
<1> HIDE DEF f
<1>3. w \in AnyWorktree /\ With(w, f) \in AnyWorktree
    BY <1>2, WithType DEF Reads
<1>4. With(w, f) = [w EXCEPT !.path = v]
    BY <1>1 DEF With, Reads
<1>5. Reads(With(w, f), w.ok, v, w.head, w.branch, w.detached, w.bare, w.locked,
            w.reason, w.prunable, w.why)
    BY <1>3, <1>4 DEF Reads, AnyWorktree
<1> QED
    BY <1>5 DEF Reads, f

\* a path that is not UTF-8,
LEMMA WithGarbled ==
    ASSUME NEW w, NEW ok, NEW path, NEW head, NEW branch, NEW detached, NEW bare,
           NEW locked, NEW reason, NEW prunable, NEW why, NEW v \in AnyValue,
           Reads(w, ok, path, head, branch, detached, bare, locked, reason, prunable, why),
           v \in {Garbled, Nothing}
    PROVE  Reads(With(w, Field("worktree", v)), FALSE, v, head, branch, detached, bare,
                 locked, reason, prunable, why)
<1> DEFINE f == Field("worktree", v)
<1>1. f.key = "worktree" /\ f.value = v
    BY FieldParts
<1>2. f \in AnyField
    BY DEF AnyField, Keyed, Keys, Field
<1> HIDE DEF f
<1>3. w \in AnyWorktree /\ With(w, f) \in AnyWorktree
    BY <1>2, WithType DEF Reads
<1>4. With(w, f) = [w EXCEPT !.path = v, !.ok = FALSE]
    BY <1>1 DEF With, Reads
<1>5. Reads(With(w, f), FALSE, v, w.head, w.branch, w.detached, w.bare, w.locked,
            w.reason, w.prunable, w.why)
    BY <1>3, <1>4 DEF Reads, AnyWorktree
<1> QED
    BY <1>5 DEF Reads, f

\* the HEAD,
LEMMA WithHead ==
    ASSUME NEW w, NEW ok, NEW path, NEW head, NEW branch, NEW detached, NEW bare,
           NEW locked, NEW reason, NEW prunable, NEW why, NEW v \in AnyValue,
           Reads(w, ok, path, head, branch, detached, bare, locked, reason, prunable, why),
           ok \in BOOLEAN, v \notin {Garbled, Nothing}
    PROVE  Reads(With(w, Field("HEAD", v)), ok, path, v, branch, detached, bare,
                 locked, reason, prunable, why)
<1> DEFINE f == Field("HEAD", v)
<1>1. f.key = "HEAD" /\ f.value = v
    BY FieldParts
<1>2. f \in AnyField
    BY DEF AnyField, Keyed, Keys, Field
<1> HIDE DEF f
<1>3. w \in AnyWorktree /\ With(w, f) \in AnyWorktree
    BY <1>2, WithType DEF Reads
<1>4. With(w, f) = [w EXCEPT !.head = v]
    BY <1>1 DEF With, Reads
<1>5. Reads(With(w, f), w.ok, w.path, v, w.branch, w.detached, w.bare, w.locked,
            w.reason, w.prunable, w.why)
    BY <1>3, <1>4 DEF Reads, AnyWorktree
<1> QED
    BY <1>5 DEF Reads, f

\* the branch,
LEMMA WithBranch ==
    ASSUME NEW w, NEW ok, NEW path, NEW head, NEW branch, NEW detached, NEW bare,
           NEW locked, NEW reason, NEW prunable, NEW why, NEW v \in AnyValue,
           Reads(w, ok, path, head, branch, detached, bare, locked, reason, prunable, why),
           ok \in BOOLEAN, v \notin {Garbled, Nothing}
    PROVE  Reads(With(w, Field("branch", v)), ok, path, head, Short(v), detached, bare,
                 locked, reason, prunable, why)
<1> DEFINE f == Field("branch", v)
<1>1. f.key = "branch" /\ f.value = v
    BY FieldParts
<1>2. f \in AnyField
    BY DEF AnyField, Keyed, Keys, Field
<1> HIDE DEF f
<1>3. w \in AnyWorktree /\ With(w, f) \in AnyWorktree
    BY <1>2, WithType DEF Reads
<1>4. With(w, f) = [w EXCEPT !.branch = Short(v)]
    BY <1>1 DEF With, Reads
<1>5. Reads(With(w, f), w.ok, w.path, w.head, Short(v), w.detached, w.bare, w.locked,
            w.reason, w.prunable, w.why)
    BY <1>3, <1>4 DEF Reads, AnyWorktree
<1> QED
    BY <1>5 DEF Reads, f

\* a detached HEAD,
LEMMA WithDetached ==
    ASSUME NEW w, NEW ok, NEW path, NEW head, NEW branch, NEW detached, NEW bare,
           NEW locked, NEW reason, NEW prunable, NEW why, NEW v \in AnyValue,
           Reads(w, ok, path, head, branch, detached, bare, locked, reason, prunable, why)
    PROVE  Reads(With(w, Field("detached", v)), ok, path, head, branch, TRUE, bare,
                 locked, reason, prunable, why)
<1> DEFINE f == Field("detached", v)
<1>1. f.key = "detached" /\ f.value = v
    BY FieldParts
<1>2. f \in AnyField
    BY DEF AnyField, Keyed, Keys, Field
<1> HIDE DEF f
<1>3. w \in AnyWorktree /\ With(w, f) \in AnyWorktree
    BY <1>2, WithType DEF Reads
<1>4. With(w, f) = [w EXCEPT !.detached = TRUE]
    BY <1>1 DEF With, Reads
<1>5. Reads(With(w, f), w.ok, w.path, w.head, w.branch, TRUE, w.bare, w.locked,
            w.reason, w.prunable, w.why)
    BY <1>3, <1>4 DEF Reads, AnyWorktree
<1> QED
    BY <1>5 DEF Reads, f

\* a bare repository,
LEMMA WithBare ==
    ASSUME NEW w, NEW ok, NEW path, NEW head, NEW branch, NEW detached, NEW bare,
           NEW locked, NEW reason, NEW prunable, NEW why, NEW v \in AnyValue,
           Reads(w, ok, path, head, branch, detached, bare, locked, reason, prunable, why)
    PROVE  Reads(With(w, Field("bare", v)), ok, path, head, branch, detached, TRUE,
                 locked, reason, prunable, why)
<1> DEFINE f == Field("bare", v)
<1>1. f.key = "bare" /\ f.value = v
    BY FieldParts
<1>2. f \in AnyField
    BY DEF AnyField, Keyed, Keys, Field
<1> HIDE DEF f
<1>3. w \in AnyWorktree /\ With(w, f) \in AnyWorktree
    BY <1>2, WithType DEF Reads
<1>4. With(w, f) = [w EXCEPT !.bare = TRUE]
    BY <1>1 DEF With, Reads
<1>5. Reads(With(w, f), w.ok, w.path, w.head, w.branch, w.detached, TRUE, w.locked,
            w.reason, w.prunable, w.why)
    BY <1>3, <1>4 DEF Reads, AnyWorktree
<1> QED
    BY <1>5 DEF Reads, f

\* a lock,
LEMMA WithLocked ==
    ASSUME NEW w, NEW ok, NEW path, NEW head, NEW branch, NEW detached, NEW bare,
           NEW locked, NEW reason, NEW prunable, NEW why, NEW v \in AnyValue,
           Reads(w, ok, path, head, branch, detached, bare, locked, reason, prunable, why)
    PROVE  Reads(With(w, Field("locked", v)), ok, path, head, branch, detached, bare,
                 TRUE, Lossy(v), prunable, why)
<1> DEFINE f == Field("locked", v)
<1>1. f.key = "locked" /\ f.value = v
    BY FieldParts
<1>2. f \in AnyField
    BY DEF AnyField, Keyed, Keys, Field
<1> HIDE DEF f
<1>3. w \in AnyWorktree /\ With(w, f) \in AnyWorktree
    BY <1>2, WithType DEF Reads
<1>4. With(w, f) = [w EXCEPT !.locked = TRUE, !.reason = Lossy(v)]
    BY <1>1 DEF With, Reads
<1>5. Reads(With(w, f), w.ok, w.path, w.head, w.branch, w.detached, w.bare, TRUE,
            Lossy(v), w.prunable, w.why)
    BY <1>3, <1>4 DEF Reads, AnyWorktree
<1> QED
    BY <1>5 DEF Reads, f

\* and a worktree that can be pruned.
LEMMA WithPrunable ==
    ASSUME NEW w, NEW ok, NEW path, NEW head, NEW branch, NEW detached, NEW bare,
           NEW locked, NEW reason, NEW prunable, NEW why, NEW v \in AnyValue,
           Reads(w, ok, path, head, branch, detached, bare, locked, reason, prunable, why)
    PROVE  Reads(With(w, Field("prunable", v)), ok, path, head, branch, detached, bare,
                 locked, reason, TRUE, Lossy(v))
<1> DEFINE f == Field("prunable", v)
<1>1. f.key = "prunable" /\ f.value = v
    BY FieldParts
<1>2. f \in AnyField
    BY DEF AnyField, Keyed, Keys, Field
<1> HIDE DEF f
<1>3. w \in AnyWorktree /\ With(w, f) \in AnyWorktree
    BY <1>2, WithType DEF Reads
<1>4. With(w, f) = [w EXCEPT !.prunable = TRUE, !.why = Lossy(v)]
    BY <1>1 DEF With, Reads
<1>5. Reads(With(w, f), w.ok, w.path, w.head, w.branch, w.detached, w.bare, w.locked,
            w.reason, TRUE, Lossy(v))
    BY <1>3, <1>4 DEF Reads, AnyWorktree
<1> QED
    BY <1>5 DEF Reads, f

\* What is known of a worktree once it is read to its HEAD, to its lock, to the end.
Known(w, ok, head, branch, detached) ==
    /\ ok \in BOOLEAN /\ (ok <=> w.path # Garbled)
    /\ head = IF w.bare THEN Nothing ELSE "id"
    /\ branch = IF w.on = Nothing THEN Nothing ELSE w.on.branch
    /\ detached \in BOOLEAN /\ (detached <=> ~w.bare /\ w.on = Nothing)

LEMMA ReadToPath ==
    ASSUME NEW w \in Listed, NEW r, FieldsOf(r, w), NEW g, Parses(g, r),
           NEW ok \in BOOLEAN, ok <=> w.path # Garbled
    PROVE  Reads(g[1], ok, w.path, Nothing, Nothing, FALSE, FALSE, FALSE, Nothing, FALSE, Nothing)
<1>1. Reads(Blank, TRUE, Nothing, Nothing, Nothing, FALSE, FALSE, FALSE, Nothing, FALSE, Nothing)
    BY BlankType DEF Reads, Blank
<1>2. r[1] = Field("worktree", w.path) /\ Len(r) \in Nat /\ Len(r) >= 1
    BY DEF FieldsOf, UpToLock, UpToHead
<1>3. g[1] = With(Blank, Field("worktree", w.path))
    <2>1. 1 \in 1..Len(r) /\ 1 - 1 = 0
        BY <1>2
    <2> QED BY <1>2, <2>1 DEF Parses
<1>4. w.path \in AnyValue /\ w.path # Nothing
    BY ListedFields, TextAssumption DEF AnyValue
<1>5. CASE w.path = Garbled
    <2>1. ok = FALSE /\ w.path \in {Garbled, Nothing}
        BY <1>5
    <2> QED BY <1>1, <1>3, <1>4, <2>1, WithGarbled
<1>6. CASE w.path # Garbled
    <2>1. PICK yes \in BOOLEAN, v \in AnyValue : yes = TRUE /\ v = w.path
        BY <1>4
    <2>2. Reads(Blank, yes, Nothing, Nothing, Nothing, FALSE, FALSE, FALSE, Nothing, FALSE,
                Nothing)
        BY <1>1, <2>1
    <2>3. v \notin {Garbled, Nothing}
        BY <1>4, <1>6, <2>1
    <2>4. Reads(With(Blank, Field("worktree", v)), yes, v, Nothing, Nothing, FALSE, FALSE,
                FALSE, Nothing, FALSE, Nothing)
        BY <2>2, <2>3, WithPath
    <2>5. yes = ok
        BY <1>6, <2>1
    <2> QED BY <1>3, <2>1, <2>4, <2>5
<1> QED
    BY <1>5, <1>6

LEMMA OnBranch ==
    ASSUME NEW w \in Listed, w.on # Nothing
    PROVE  /\ w.on.ref \in AnyValue /\ w.on.ref \notin {Garbled, Nothing}
           /\ Short(w.on.ref) = w.on.branch
<1> DEFINE main == [ref |-> "refs/heads/main", branch |-> "main"]
           topic == [ref |-> "refs/heads/topic/fix", branch |-> "topic/fix"]
           bisect == [ref |-> "refs/bisect/main", branch |-> "refs/bisect/main"]
<1>1. w.on \in {main, topic, bisect}
    BY ListedFields DEF On
<1>2. /\ main.ref = "refs/heads/main" /\ main.branch = "main"
      /\ topic.ref = "refs/heads/topic/fix" /\ topic.branch = "topic/fix"
      /\ bisect.ref = "refs/bisect/main" /\ bisect.branch = "refs/bisect/main"
    OBVIOUS
<1> HIDE DEF main, topic, bisect
<1>3. /\ Short("refs/heads/main") = "main" /\ Short("refs/heads/topic/fix") = "topic/fix"
      /\ Short("refs/bisect/main") = "refs/bisect/main"
    BY DEF Short
<1>4. \A ref \in {"refs/heads/main", "refs/heads/topic/fix", "refs/bisect/main"} :
         ref \in AnyValue /\ ref \notin {Garbled, Nothing}
    BY TextAssumption DEF AnyValue
<1> QED
    BY <1>1, <1>2, <1>3, <1>4

LEMMA ReadToHead ==
    ASSUME NEW w \in Listed, NEW r, FieldsOf(r, w), NEW g, Parses(g, r),
           NEW ok, NEW head, NEW branch, NEW detached, Known(w, ok, head, branch, detached)
    PROVE  Reads(g[UpToHead(w)], ok, w.path, head, branch, detached, w.bare, FALSE, Nothing,
                 FALSE, Nothing)
<1>1. Reads(g[1], ok, w.path, Nothing, Nothing, FALSE, FALSE, FALSE, Nothing, FALSE, Nothing)
    BY ReadToPath DEF Known
<1>2. ok \in BOOLEAN /\ detached \in BOOLEAN /\ w.bare \in BOOLEAN
    BY ListedFields DEF Known
<1>3. \A i \in 1..Len(r) : g[i] = With(g[i - 1], r[i])
    BY DEF Parses
<1>4. Len(r) \in Nat /\ Len(r) >= UpToHead(w) /\ 2 - 1 = 1 /\ 3 - 1 = 2
    BY DEF FieldsOf, UpToLock, UpToHead
<1>5. Nothing \in AnyValue /\ "id" \in AnyValue /\ "id" \notin {Garbled, Nothing}
    BY TextAssumption DEF AnyValue
<1>6. CASE w.bare
    <2>1. 2 \in 1..Len(r) /\ UpToHead(w) = 2 /\ r[2] = Field("bare", Nothing)
        BY <1>4, <1>6 DEF UpToHead, FieldsOf
    <2>2. g[2] = With(g[1], Field("bare", Nothing))
        BY <1>3, <1>4, <2>1
    <2>3. head = Nothing /\ branch = Nothing /\ detached = FALSE /\ w.bare = TRUE
        BY <1>2, <1>6, ListedFields DEF Known
    <2>4. Reads(g[2], ok, w.path, Nothing, Nothing, FALSE, TRUE, FALSE, Nothing, FALSE, Nothing)
        BY <1>1, <1>5, <2>2, WithBare
    <2> QED BY <2>1, <2>3, <2>4
<1>7. CASE ~w.bare
    <2>1. 2 \in 1..Len(r) /\ 3 \in 1..Len(r) /\ UpToHead(w) = 3 /\ r[2] = Field("HEAD", "id")
        BY <1>4, <1>7 DEF UpToHead, FieldsOf
    <2>2. g[2] = With(g[1], Field("HEAD", "id")) /\ g[3] = With(g[2], r[3])
        BY <1>3, <1>4, <2>1
    <2>3. head = "id" /\ w.bare = FALSE
        BY <1>2, <1>7 DEF Known
    <2>4. Reads(g[2], ok, w.path, "id", Nothing, FALSE, FALSE, FALSE, Nothing, FALSE, Nothing)
        <3>1. PICK u, id : u = g[1] /\ id = "id" /\ id \in AnyValue /\ id \notin {Garbled, Nothing}
            BY <1>5
        <3>2. Reads(u, ok, w.path, Nothing, Nothing, FALSE, FALSE, FALSE, Nothing, FALSE, Nothing)
            BY <1>1, <3>1
        <3>3. Reads(With(u, Field("HEAD", id)), ok, w.path, id, Nothing, FALSE, FALSE, FALSE,
                    Nothing, FALSE, Nothing)
            BY <1>2, <3>1, <3>2, WithHead
        <3> QED BY <2>2, <3>1, <3>3
    <2>5. CASE w.on = Nothing
        <3>1. g[3] = With(g[2], Field("detached", Nothing))
            BY <1>7, <2>2, <2>5 DEF FieldsOf
        <3>2. branch = Nothing /\ detached = TRUE
            BY <1>2, <1>7, <2>5 DEF Known
        <3>3. Reads(g[3], ok, w.path, "id", Nothing, TRUE, FALSE, FALSE, Nothing, FALSE, Nothing)
            BY <1>5, <2>4, <3>1, WithDetached
        <3> QED BY <2>1, <2>3, <3>2, <3>3
    <2>6. CASE w.on # Nothing
        <3>1. g[3] = With(g[2], Field("branch", w.on.ref))
            BY <1>7, <2>2, <2>6 DEF FieldsOf
        <3>2. PICK ref : ref = w.on.ref /\ ref \in AnyValue /\ ref \notin {Garbled, Nothing}
                         /\ Short(ref) = w.on.branch
            BY <2>6, OnBranch
        <3>3. branch = Short(ref) /\ detached = FALSE
            BY <1>2, <2>6, <3>2 DEF Known
        <3>4. Reads(g[3], ok, w.path, "id", Short(ref), FALSE, FALSE, FALSE, Nothing, FALSE,
                    Nothing)
            <4>1. PICK u, id : u = g[2] /\ id = "id"
                OBVIOUS
            <4>2. Reads(u, ok, w.path, id, Nothing, FALSE, FALSE, FALSE, Nothing, FALSE,
                        Nothing)
                BY <2>4, <4>1
            <4>3. Reads(With(u, Field("branch", ref)), ok, w.path, id, Short(ref), FALSE,
                        FALSE, FALSE, Nothing, FALSE, Nothing)
                BY <1>2, <3>2, <4>2, WithBranch
            <4> QED BY <3>1, <3>2, <4>1, <4>3
        <3> QED BY <2>1, <2>3, <3>3, <3>4
    <2> QED BY <2>5, <2>6
<1> QED
    BY <1>2, <1>6, <1>7

LEMMA ReadToLock ==
    ASSUME NEW w \in Listed, NEW r, FieldsOf(r, w), NEW g, Parses(g, r),
           NEW ok, NEW head, NEW branch, NEW detached, Known(w, ok, head, branch, detached),
           NEW reason, reason = Lossy(w.reason)
    PROVE  Reads(g[UpToLock(w)], ok, w.path, head, branch, detached, w.bare, w.locked, reason,
                 FALSE, Nothing)
<1>1. Reads(g[UpToHead(w)], ok, w.path, head, branch, detached, w.bare, FALSE, Nothing,
            FALSE, Nothing)
    BY ReadToHead
<1>2. CASE w.locked
    <2>1. PICK n \in Nat : n = UpToLock(w) /\ n - 1 = UpToHead(w) /\ n = UpToHead(w) + 1
        BY <1>2 DEF UpToLock, UpToHead
    <2>2. n \in 1..Len(r) /\ r[n] = Field("locked", w.reason)
        BY <1>2, <2>1 DEF FieldsOf, UpToHead
    <2>3. g[n] = With(g[UpToHead(w)], Field("locked", w.reason))
        BY <2>1, <2>2 DEF Parses
    <2>4. w.reason \in AnyValue
        BY ListedFields DEF AnyValue
    <2>5. Reads(g[n], ok, w.path, head, branch, detached, w.bare, TRUE, Lossy(w.reason),
                FALSE, Nothing)
        BY <1>1, <2>3, <2>4, WithLocked
    <2>6. w.locked = TRUE
        BY <1>2, ListedFields
    <2> QED BY <2>1, <2>5, <2>6
<1>3. CASE ~w.locked
    <2>1. UpToLock(w) = UpToHead(w)
        BY <1>3 DEF UpToLock, UpToHead
    <2>2. w.locked = FALSE /\ reason = Nothing
        BY <1>3, ListedFields, TextAssumption DEF Lossy
    <2> QED BY <1>1, <2>1, <2>2
<1> QED
    BY <1>2, <1>3

LEMMA ReadToEnd ==
    ASSUME NEW w \in Listed, NEW r, FieldsOf(r, w), NEW g, Parses(g, r),
           NEW ok, NEW head, NEW branch, NEW detached, Known(w, ok, head, branch, detached),
           NEW reason, reason = Lossy(w.reason), NEW why, why = Lossy(w.why),
           NEW prunable \in BOOLEAN, prunable <=> w.why # Nothing
    PROVE  Reads(g[Len(r)], ok, w.path, head, branch, detached, w.bare, w.locked, reason,
                 prunable, why)
<1>1. Reads(g[UpToLock(w)], ok, w.path, head, branch, detached, w.bare, w.locked, reason,
            FALSE, Nothing)
    BY ReadToLock
<1>2. CASE w.why # Nothing
    <2>1. PICK n \in Nat : n = Len(r) /\ n - 1 = UpToLock(w) /\ n = UpToLock(w) + 1
        BY <1>2 DEF FieldsOf, UpToLock, UpToHead
    <2>2. n \in 1..Len(r) /\ r[n] = Field("prunable", w.why)
        BY <1>2, <2>1 DEF FieldsOf, UpToLock, UpToHead
    <2>3. g[n] = With(g[UpToLock(w)], Field("prunable", w.why))
        BY <2>1, <2>2 DEF Parses
    <2>4. w.why \in AnyValue
        BY ListedFields DEF AnyValue
    <2>5. Reads(g[n], ok, w.path, head, branch, detached, w.bare, w.locked, reason,
                TRUE, Lossy(w.why))
        BY <1>1, <2>3, <2>4, WithPrunable
    <2>6. prunable = TRUE
        BY <1>2
    <2> QED BY <2>1, <2>5, <2>6
<1>3. CASE w.why = Nothing
    <2>1. Len(r) = UpToLock(w)
        BY <1>3 DEF FieldsOf, UpToLock, UpToHead
    <2>2. prunable = FALSE /\ why = Nothing
        BY <1>3, TextAssumption DEF Lossy
    <2> QED BY <1>1, <2>1, <2>2
<1> QED
    BY <1>2, <1>3

\* A record that is printed is read as what Git lists, unless its path is garbled.
LEMMA RecordIsUnderstood ==
    ASSUME NEW w \in Listed
    PROVE  /\ ParseRecord(WorktreeFields(w)).ok <=> w.path # Garbled
           /\ w.path # Garbled => ParseRecord(WorktreeFields(w)) = Understood(w)
<1>1. PICK r : r = WorktreeFields(w) /\ FieldsOf(r, w)
    BY WorktreeFieldsAre
<1>2. r \in Seq(AnyField)
    <2>1. r \in Seq(Keyed)
        BY <1>1 DEF FieldsOf
    <2>2. Keyed \subseteq AnyField
        BY DEF AnyField
    <2> QED BY <2>1, <2>2
<1>3. PICK g : Parses(g, r)
    BY <1>2, ParsesByField
<1>4. PICK ok \in BOOLEAN, detached \in BOOLEAN, prunable \in BOOLEAN :
        /\ ok <=> w.path # Garbled
        /\ detached <=> ~w.bare /\ w.on = Nothing
        /\ prunable <=> w.why # Nothing
    OBVIOUS
<1>a. PICK head, branch, reason, why :
        /\ head = IF w.bare THEN Nothing ELSE "id"
        /\ branch = IF w.on = Nothing THEN Nothing ELSE w.on.branch
        /\ reason = Lossy(w.reason) /\ why = Lossy(w.why)
    OBVIOUS
<1>b. Known(w, ok, head, branch, detached)
    BY <1>4, <1>a DEF Known
<1>5. PICK u : u = g[Len(r)]
    OBVIOUS
<1>6. Reads(u, ok, w.path, head, branch, detached, w.bare, w.locked, reason, prunable, why)
    BY <1>1, <1>3, <1>4, <1>a, <1>b, <1>5, ReadToEnd
<1>7. FoldLeft(With, Blank, r) = u
    BY <1>3, <1>5 DEF Parses
<1>8. u \in AnyWorktree /\ u.ok = ok /\ u.path # Nothing /\ ok \in BOOLEAN
    BY <1>4, <1>6, ListedFields, TextAssumption DEF Reads
<1>9. ParseRecord(r) = u
    <2>1. ParseRecord(r) = [u EXCEPT !.ok = u.ok /\ u.path # Nothing]
        BY <1>7 DEF ParseRecord
    <2>2. PICK v \in BOOLEAN : v = (u.ok /\ u.path # Nothing)
        OBVIOUS
    <2>3. v = u.ok
        BY <1>8, <2>2
    <2>4. [u EXCEPT !.ok = u.ok] = u
        BY <1>8 DEF AnyWorktree
    <2> QED BY <2>1, <2>2, <2>3, <2>4
<1>10. ASSUME w.path # Garbled PROVE u = Understood(w)
    <2>1. Understood(w) \in AnyWorktree
        <3>1. w.path \in AnyValue /\ w.why \in AnyValue /\ w.reason \in AnyValue
            BY ListedFields DEF AnyValue
        <3>2. w.on = Nothing \/ w.on.branch \in AnyValue
            BY ListedFields DEF AnyValue, On
        <3>3. "id" \in AnyValue /\ Nothing \in AnyValue /\ "replaced" \in AnyValue
            BY DEF AnyValue
        <3> HIDE DEF AnyValue
        <3> QED BY <3>1, <3>2, <3>3, ListedFields DEF Understood, AnyWorktree
    <2>2. Reads(Understood(w), ok, w.path, head, branch, detached, w.bare, w.locked, reason,
                prunable, why)
        BY <1>4, <1>a, <1>10, <2>1 DEF Reads, Understood, Lossy
    <2> QED BY <1>6, <2>2, ReadAlike
<1> QED
    BY <1>1, <1>4, <1>8, <1>9, <1>10

-----------------------------------------------------------------------------
(* The records of a listing. *)

Collected(done, current) == [done |-> done, current |-> current]

LEMMA TookField ==
    ASSUME NEW done, NEW current, NEW f, f # End
    PROVE  Took(Collected(done, current), f) = Collected(done, Append(current, f))
BY DEF Took, Collected

LEMMA TookEnd ==
    ASSUME NEW done, NEW current, current # <<>>
    PROVE  Took(Collected(done, current), End) = Collected(Append(done, current), <<>>)
BY DEF Took, Collected

LEMMA OneMore ==
    ASSUME NEW T, NEW s \in Seq(T), NEW j \in Nat, j + 1 \in 1..Len(s)
    PROVE  Append(SubSeq(s, 1, j), s[j + 1]) = SubSeq(s, 1, j + 1)
<1>1. PICK k : k = j + 1 /\ k - 1 = j /\ k \in 1..Len(s) /\ 1 \in 1..Len(s) /\ j \in 0..Len(s)
    OBVIOUS
<1>2. SubSeq(s, 1, k) = SubSeq(s, 1, k - 1) \o <<s[k]>>
    BY <1>1, SubSeqRecursiveSecond
<1>3. SubSeq(s, 1, j) \in Seq(T) /\ s[k] \in T
    BY <1>1
<1>4. Append(SubSeq(s, 1, j), s[k]) = SubSeq(s, 1, j) \o <<s[k]>>
    BY <1>3, AppendIsConcat
<1> QED
    BY <1>1, <1>2, <1>4

\* Records that each end with an empty field are told apart.
LEMMA RecordsOf ==
    ASSUME NEW n \in Nat, NEW bs \in [1..n -> Seq(Keyed)],
           \A k \in 1..n : bs[k] # <<>>,
           NEW ps, ps = [k \in 1..n |-> Append(bs[k], End)]
    PROVE  Records(FlattenSeq(ps)) = bs
<1>1. ASSUME NEW k \in 1..n
      PROVE  /\ ps[k] \in Seq(AnyField) /\ Len(ps[k]) = Len(bs[k]) + 1
             /\ ps[k][Len(bs[k]) + 1] = End
             /\ \A j \in 1..Len(bs[k]) : ps[k][j] = bs[k][j]
    <2>1. bs[k] \in Seq(AnyField) /\ End \in AnyField
        BY DEF AnyField
    <2>2. ps[k] = Append(bs[k], End)
        OBVIOUS
    <2> QED BY <2>1, <2>2, AppendProperties
<1>2. ps \in [1..n -> Seq(AnyField)]
    BY <1>1
<1> DEFINE us == FlattenSeq(ps)
<1>3. us \in Seq(AnyField) /\ \E off : Offsets(off, n, ps, us)
    BY <1>2, FlattenOffsets
<1> HIDE DEF us
<1>4. PICK off : Offsets(off, n, ps, us)
    BY <1>3
<1>5. /\ off \in [0..n -> Nat] /\ off[0] = 0 /\ off[n] = Len(us)
      /\ \A k \in 1..n :
            /\ off[k] = off[k - 1] + Len(ps[k]) /\ off[k] <= off[n]
            /\ \A j \in 1..Len(ps[k]) : us[off[k - 1] + j] = ps[k][j]
    BY <1>4 DEF Offsets
<1>6. PICK g : Collects(g, us)
    BY <1>3, CollectsByField
<1>7. \A i \in 1..Len(us) : g[i] = Took(g[i - 1], us[i])
    BY <1>6 DEF Collects
<1> DEFINE Done(k) == [i \in 1..k |-> bs[i]]
           S == {k \in 0..n : g[off[k]] = Collected(Done(k), <<>>)}
<1>8. \A k \in 0..n : Done(k) \in Seq(Seq(Keyed)) /\ Len(Done(k)) = k
                      /\ \A i \in 1..k : Done(k)[i] = bs[i]
    OBVIOUS
<1> HIDE DEF Done
<1>9. 0 \in S
    <2>1. Done(0) = <<>>
        BY <1>8 DEF Done
    <2>2. g[0] = Collected(<<>>, <<>>)
        BY <1>6 DEF Collects, NoFields, Collected
    <2> QED BY <1>5, <2>1, <2>2
<1>10. ASSUME NEW k \in 0..(n - 1), k \in S PROVE k + 1 \in S
    <2>1. PICK m \in 1..n : m = k + 1 /\ m - 1 = k /\ m \in 0..n /\ k \in 0..n
        OBVIOUS
    <2>2. PICK b \in Seq(Keyed) : b = bs[m] /\ b # <<>>
        OBVIOUS
    <2>3. PICK L \in Nat : L = Len(b) /\ L >= 1
        BY <2>2
    <2>4. PICK a \in Nat : a = off[k]
        BY <1>5, <2>1
    <2>5. off[m] = a + (L + 1) /\ a + (L + 1) <= Len(us) /\ Len(us) \in Nat
          /\ \A j \in 1..(L + 1) : us[a + j] = ps[m][j]
        <3>1. Len(ps[m]) = L + 1
            BY <1>1, <2>2, <2>3
        <3>2. off[m] = off[k] + Len(ps[m]) /\ off[m] <= off[n]
              /\ \A j \in 1..Len(ps[m]) : us[off[k] + j] = ps[m][j]
            <4>1. off[m] = off[m - 1] + Len(ps[m]) /\ off[m] <= off[n]
                  /\ \A j \in 1..Len(ps[m]) : us[off[m - 1] + j] = ps[m][j]
                BY <1>5
            <4>2. off[m - 1] = off[k]
                BY <2>1
            <4> QED BY <4>1, <4>2
        <3>3. Len(us) \in Nat /\ off[n] = Len(us)
            BY <1>3, <1>5
        <3>4. off[m] = a + (L + 1) /\ off[m] <= Len(us)
            BY <2>4, <3>1, <3>2, <3>3
        <3>5. \A j \in 1..(L + 1) : us[a + j] = ps[m][j]
            BY <2>4, <3>1, <3>2
        <3> QED BY <3>3, <3>4, <3>5
    <2>6. ps[m][L + 1] = End /\ \A j \in 1..L : ps[m][j] = b[j] /\ b[j] # End
        <3>1. \A j \in 1..L : b[j] \in Keyed
            BY <2>3
        <3>2. End \notin Keyed
            BY FieldParts
        <3> QED BY <1>1, <2>2, <2>3, <3>1, <3>2
    <2> DEFINE d == Done(k)
               Q == {j \in 0..L : g[a + j] = Collected(d, SubSeq(b, 1, j))}
    <2> HIDE DEF d
    <2>7. 0 \in Q
        <3>1. SubSeq(b, 1, 0) = <<>>
            BY SubSeqEmpty
        <3>2. g[a] = Collected(d, <<>>) /\ a + 0 = a /\ 0 \in 0..L
            BY <1>10, <2>4 DEF d
        <3> QED BY <3>1, <3>2
    <2>8. ASSUME NEW j \in 0..(L - 1), j \in Q PROVE j + 1 \in Q
        <3>1. PICK i \in 1..L : i = j + 1 /\ i \in 0..L /\ j \in Nat
            BY <2>3
        <3>2. PICK q : q = a + i /\ q - 1 = a + j /\ q \in 1..Len(us)
            BY <2>5, <3>1
        <3>3. us[q] = b[i] /\ us[q] # End
            <4>1. i \in 1..(L + 1)
                BY <3>1
            <4>2. us[a + i] = ps[m][i]
                BY <2>5, <4>1
            <4> QED BY <2>6, <3>2, <4>2
        <3>4. g[q] = Took(g[a + j], us[q])
            BY <1>7, <3>2
        <3>5. g[a + j] = Collected(d, SubSeq(b, 1, j))
            BY <2>8
        <3>6. g[q] = Collected(d, Append(SubSeq(b, 1, j), b[i]))
            BY <3>3, <3>4, <3>5, TookField
        <3>7. Append(SubSeq(b, 1, j), b[i]) = SubSeq(b, 1, i)
            BY <2>2, <2>3, <3>1, OneMore
        <3>8. g[a + i] = Collected(d, SubSeq(b, 1, i))
            BY <3>2, <3>6, <3>7
        <3> QED BY <3>1, <3>8
    <2>9. L \in Q
        <3>1. 0..L \subseteq Q
            <4> HIDE DEF Q
            <4> QED BY <2>7, <2>8, Upwards
        <3> QED BY <3>1
    <2>10. g[a + L] = Collected(d, b)
        <3>1. SubSeq(b, 1, L) = b
            BY <2>3, SubSeqFull
        <3> QED BY <2>9, <3>1
    <2>11. g[off[m]] = Collected(Append(d, b), <<>>)
        <3>1. PICK q : q = a + (L + 1) /\ q - 1 = a + L /\ q \in 1..Len(us)
            BY <2>5
        <3>2. us[q] = End
            <4>1. L + 1 \in 1..(L + 1)
                BY <2>3
            <4>2. us[a + (L + 1)] = ps[m][L + 1]
                BY <2>5, <4>1
            <4> QED BY <2>6, <3>1, <4>2
        <3>3. g[q] = Took(Collected(d, b), End)
            BY <1>7, <2>10, <3>1, <3>2
        <3> QED BY <2>2, <2>5, <3>1, <3>3, TookEnd
    <2>12. Append(d, b) = Done(m)
        <3>1. d \in Seq(Seq(Keyed)) /\ Len(d) = k /\ \A i \in 1..k : d[i] = bs[i]
            BY <1>8, <2>1 DEF d
        <3>2. Done(m) \in Seq(Seq(Keyed)) /\ Len(Done(m)) = m /\ \A i \in 1..m : Done(m)[i] = bs[i]
            BY <1>8, <2>1
        <3>3. /\ Append(d, b) \in Seq(Seq(Keyed)) /\ Len(Append(d, b)) = k + 1
              /\ \A i \in 1..k : Append(d, b)[i] = d[i]
              /\ Append(d, b)[k + 1] = b
            <4>1. PICK T : T = Seq(Keyed)
                OBVIOUS
            <4>2. b \in T /\ d \in Seq(T)
                BY <3>1, <4>1
            <4>3. /\ Append(d, b) \in Seq(T) /\ Len(Append(d, b)) = Len(d) + 1
                  /\ \A i \in 1..Len(d) : Append(d, b)[i] = d[i]
                  /\ Append(d, b)[Len(d) + 1] = b
                BY <4>2, AppendProperties
            <4> QED BY <3>1, <4>1, <4>3
        <3>4. \A i \in 1..m : i \in 1..k \/ i = k + 1
            BY <2>1
        <3>5. \A i \in 1..m : Append(d, b)[i] = Done(m)[i]
            BY <2>1, <2>2, <3>1, <3>2, <3>3, <3>4
        <3>6. PICK s, t : s = Append(d, b) /\ t = Done(m)
            OBVIOUS
        <3>7. /\ s \in Seq(Seq(Keyed)) /\ t \in Seq(Seq(Keyed)) /\ Len(s) = Len(t)
              /\ \A i \in 1..Len(s) : s[i] = t[i]
            BY <2>1, <3>2, <3>3, <3>5, <3>6
        <3>8. s = t
            BY <3>7, SeqEqual
        <3> QED BY <3>6, <3>8
    <2> QED BY <2>1, <2>11, <2>12
<1>11. n \in S
    <2>1. 0..n \subseteq S
        <3> HIDE DEF S
        <3> QED BY <1>9, <1>10, Upwards
    <2> QED BY <2>1
<1>12. FoldLeft(Took, NoFields, us) = Collected(Done(n), <<>>)
    BY <1>5, <1>6, <1>11 DEF Collects
<1>13. Records(us) = Done(n)
    BY <1>12 DEF Records, Collected
<1>14. Done(n) = bs
    BY DEF Done
<1> QED
    BY <1>13, <1>14 DEF us

LEMMA ListUnderstood ==
    ASSUME NEW n \in Nat, NEW ws \in [1..n -> Listed]
    PROVE  LET parsed == ParseList(PrintList(ws))
           IN  IF \A i \in 1..Len(ws) : ws[i].path # Garbled
               THEN parsed.ok /\ parsed.worktrees = [i \in 1..Len(ws) |-> Understood(ws[i])]
               ELSE ~parsed.ok
<1> DEFINE bs == [k \in 1..n |-> WorktreeFields(ws[k])]
           ps == [k \in 1..n |-> Append(bs[k], End)]
           rs == [k \in 1..n |-> ParseRecord(bs[k])]
<1>1. ASSUME NEW k \in 1..n
      PROVE  WorktreeFields(ws[k]) \in Seq(Keyed) /\ WorktreeFields(ws[k]) # <<>>
    <2>1. FieldsOf(WorktreeFields(ws[k]), ws[k])
        BY WorktreeFieldsAre
    <2>2. Len(WorktreeFields(ws[k])) # 0
        BY <2>1 DEF FieldsOf, UpToLock, UpToHead
    <2> QED BY <2>1, <2>2 DEF FieldsOf
<1>2. bs \in [1..n -> Seq(Keyed)] /\ \A k \in 1..n : bs[k] = WorktreeFields(ws[k]) /\ bs[k] # <<>>
    BY <1>1
<1>3. PrintList(ws) = FlattenSeq(ps) /\ Len(ws) = n
    <2>1. Len(ws) = n
        OBVIOUS
    <2>2. ps = [k \in 1..n |-> PrintWorktree(ws[k])]
        BY DEF PrintWorktree
    <2> HIDE DEF ps
    <2> QED BY <2>1, <2>2 DEF PrintList
<1> HIDE DEF bs
<1>4. Records(PrintList(ws)) = bs
    <2>1. Records(FlattenSeq(ps)) = bs
        BY <1>2, RecordsOf
    <2> QED BY <1>3, <2>1
<1>5. Len(bs) = n
    BY <1>2
<1>6. ParseList(PrintList(ws)) = [ok |-> \A k \in DOMAIN rs : rs[k].ok, worktrees |-> rs]
    BY <1>4, <1>5 DEF ParseList
<1>7. \A k \in 1..n : /\ rs[k].ok <=> ws[k].path # Garbled
                      /\ ws[k].path # Garbled => rs[k] = Understood(ws[k])
    <2> SUFFICES ASSUME NEW k \in 1..n
                 PROVE  /\ rs[k].ok <=> ws[k].path # Garbled
                        /\ ws[k].path # Garbled => rs[k] = Understood(ws[k])
        OBVIOUS
    <2>1. rs[k] = ParseRecord(WorktreeFields(ws[k]))
        BY <1>2
    <2>2. ws[k] \in Listed
        OBVIOUS
    <2> HIDE DEF rs
    <2> QED BY <2>1, <2>2, RecordIsUnderstood
<1>8. DOMAIN rs = 1..n
    OBVIOUS
<1>9. ASSUME \A k \in 1..n : ws[k].path # Garbled
      PROVE  rs = [k \in 1..n |-> Understood(ws[k])]
    BY <1>7, <1>9
<1> HIDE DEF rs
<1>10. (\A k \in DOMAIN rs : rs[k].ok) <=> \A k \in 1..n : ws[k].path # Garbled
    BY <1>7, <1>8
<1> QED
    BY <1>3, <1>6, <1>9, <1>10

-----------------------------------------------------------------------------
(* What is printed of a change. *)

StatusField ==
    [x: {"", " ", "M", "A", "D", "R", "C", "T", "U", "?", "!"},
     y: {"", " ", "M", "A", "D", "R", "C", "T", "U", "?", "!"}, name: Text]

\* The entry f says what the change c is.
Says(f, c) ==
    /\ f \in StatusField /\ IsEntry(f) /\ f.name = c.name
    /\ Renamed(f) <=> Moves(c)
    /\ Ignored(f) <=> c.what = "ignored"
    /\ Untracked(f) <=> c.what = "untracked"
    /\ Conflicted(f) <=> c.what = "unmerged"
    /\ Counts(f.x) <=> Touches(c, "index")
    /\ Counts(f.y) <=> Touches(c, "tree")
    /\ c.what # "ignored" => Kind(f) = KindMeant(c)

\* The fields p are the entry of the change c and, after it, the source of a rename.
Prints(p, c) ==
    /\ p \in Seq(StatusField) /\ Len(p) = IF Moves(c) THEN 2 ELSE 1
    /\ Says(p[1], c)
    /\ Moves(c) => p[2] = c.source

LEMMA EntryParts ==
    ASSUME NEW x, NEW y, NEW name
    PROVE  Entry(x, y, name).x = x /\ Entry(x, y, name).y = y /\ Entry(x, y, name).name = name
BY DEF Entry

LEMMA LetterIs ==
    /\ DOMAIN Letter = {"same", "modified", "added", "deleted", "renamed", "copied", "typechanged"}
    /\ Letter["same"] = " " /\ Letter["modified"] = "M" /\ Letter["added"] = "A"
    /\ Letter["deleted"] = "D" /\ Letter["renamed"] = "R" /\ Letter["copied"] = "C"
    /\ Letter["typechanged"] = "T"
BY DEF Letter

LEMMA TrackedIs ==
    ASSUME NEW c \in Tracked
    PROVE  /\ c.what = "tracked" /\ c.name \in Text
           /\ c.index \in DOMAIN Letter /\ c.tree \in DOMAIN Letter \ {"copied"}
           /\ c.index # "same" \/ c.tree # "same"
           /\ {c.index, c.tree} # {"added"} /\ {c.index, c.tree} # {"deleted"}
           /\ Moves(c) => c.source \in StatusField
           /\ Moves(c) <=> {c.index, c.tree} \cap {"renamed", "copied"} # {}
<1>1. Source \subseteq StatusField
    <2>1. ASSUME NEW name \in Text
          PROVE  Bare(name) \in StatusField /\ Entry("R", " ", name) \in StatusField
        BY DEF Bare, Entry, StatusField
    <2> QED BY <2>1 DEF Source
<1> QED
    BY <1>1 DEF Tracked, Moves

LEMMA TrackedSays ==
    ASSUME NEW c \in Tracked
    PROVE  Says(Entry(Letter[c.index], Letter[c.tree], c.name), c)
<1>1. PICK i, t, x, y : i = c.index /\ t = c.tree /\ x = Letter[i] /\ y = Letter[t]
    OBVIOUS
<1>2. /\ i \in {"same", "modified", "added", "deleted", "renamed", "copied", "typechanged"}
      /\ t \in {"same", "modified", "added", "deleted", "renamed", "typechanged"}
      /\ i # "same" \/ t # "same"
      /\ ~(i = "added" /\ t = "added") /\ ~(i = "deleted" /\ t = "deleted")
      /\ Moves(c) <=> i \in {"renamed", "copied"} \/ t = "renamed"
      /\ c.what = "tracked" /\ c.name \in Text
    <2>1. /\ c.what = "tracked" /\ c.name \in Text
          /\ i \in DOMAIN Letter /\ t \in DOMAIN Letter \ {"copied"}
          /\ i # "same" \/ t # "same"
          /\ {i, t} # {"added"} /\ {i, t} # {"deleted"}
          /\ Moves(c) <=> {i, t} \cap {"renamed", "copied"} # {}
        BY <1>1, TrackedIs
    <2>2. /\ i \in {"same", "modified", "added", "deleted", "renamed", "copied", "typechanged"}
          /\ t \in {"same", "modified", "added", "deleted", "renamed", "typechanged"}
        BY <2>1, LetterIs
    <2>3. ~(i = "added" /\ t = "added") /\ ~(i = "deleted" /\ t = "deleted")
        BY <2>1
    <2>4. Moves(c) <=> i \in {"renamed", "copied"} \/ t = "renamed"
        BY <2>1
    <2> QED BY <2>1, <2>2, <2>3, <2>4
<1>3. /\ i = "same" => x = " "
      /\ i = "modified" => x = "M"
      /\ i = "added" => x = "A"
      /\ i = "deleted" => x = "D"
      /\ i = "renamed" => x = "R"
      /\ i = "copied" => x = "C"
      /\ i = "typechanged" => x = "T"
      /\ t = "same" => y = " "
      /\ t = "modified" => y = "M"
      /\ t = "added" => y = "A"
      /\ t = "deleted" => y = "D"
      /\ t = "renamed" => y = "R"
      /\ t = "typechanged" => y = "T"
    BY <1>1, LetterIs
<1>4. PICK f : f = Entry(x, y, c.name) /\ f.x = x /\ f.y = y /\ f.name = c.name
    BY EntryParts
<1>5. f \in StatusField
    <2>1. /\ x \in {"", " ", "M", "A", "D", "R", "C", "T", "U", "?", "!"}
          /\ y \in {"", " ", "M", "A", "D", "R", "C", "T", "U", "?", "!"}
        BY <1>2, <1>3
    <2> QED BY <1>2, <1>4, <2>1 DEF Entry, StatusField
<1>6. IsEntry(f) /\ (Renamed(f) <=> Moves(c))
    BY <1>2, <1>3, <1>4 DEF IsEntry, Renamed
<1>7. ~Ignored(f) /\ ~Untracked(f) /\ ~Conflicted(f)
    BY <1>2, <1>3, <1>4 DEF Ignored, Untracked, Conflicted
<1>8. (Counts(f.x) <=> Touches(c, "index")) /\ (Counts(f.y) <=> Touches(c, "tree"))
    <2>1. Touches(c, "index") <=> i # "same"
        BY <1>1, <1>2 DEF Touches
    <2>2. Touches(c, "tree") <=> t # "same"
        BY <1>1, <1>2 DEF Touches
    <2> QED BY <1>2, <1>3, <1>4, <2>1, <2>2 DEF Counts
<1>9. Kind(f) = KindMeant(c)
    <2>1. ASSUME NEW letter
          PROVE  /\ letter = "M" => KindOf(letter) = "modified"
                 /\ letter = "A" => KindOf(letter) = "added"
                 /\ letter = "D" => KindOf(letter) = "deleted"
                 /\ letter = "R" => KindOf(letter) = "renamed"
                 /\ letter = "C" => KindOf(letter) = "copied"
                 /\ letter = "T" => KindOf(letter) = "type-changed"
        BY DEF KindOf
    <2>2. Kind(f) = KindOf(IF i # "same" THEN x ELSE y)
        BY <1>2, <1>3, <1>4, <1>7 DEF Kind
    <2>3. PICK k : k = IF i # "same" THEN i ELSE t
        OBVIOUS
    <2>4. KindMeant(c) = IF k = "typechanged" THEN "type-changed" ELSE k
        BY <1>1, <1>2, <2>3 DEF KindMeant
    <2>5. PICK l : l = IF i # "same" THEN x ELSE y
        OBVIOUS
    <2>6. /\ k \in {"modified", "added", "deleted", "renamed", "copied", "typechanged"}
          /\ k = "modified" => l = "M"
          /\ k = "added" => l = "A"
          /\ k = "deleted" => l = "D"
          /\ k = "renamed" => l = "R"
          /\ k = "copied" => l = "C"
          /\ k = "typechanged" => l = "T"
        BY <1>2, <1>3, <2>3, <2>5
    <2>7. KindOf(l) = IF k = "typechanged" THEN "type-changed" ELSE k
        <3>1. CASE k = "typechanged"
            BY <2>1, <2>6, <3>1
        <3>2. CASE k \in {"modified", "added", "deleted", "renamed", "copied"}
            <4>1. KindOf(l) = k
                BY <2>1, <2>6, <3>2
            <4> QED BY <3>2, <4>1
        <3> QED BY <2>6, <3>1, <3>2
    <2> QED BY <2>2, <2>4, <2>5, <2>7
<1>10. c.what # "ignored" /\ c.what # "untracked" /\ c.what # "unmerged"
    BY <1>2
<1> QED
    BY <1>1, <1>4, <1>5, <1>6, <1>7, <1>8, <1>9, <1>10 DEF Says

LEMMA UnmergedSays ==
    ASSUME NEW c \in [what: {"unmerged"}, sides: Sides, name: Text]
    PROVE  Says(Entry(c.sides[1], c.sides[2], c.name), c) /\ ~Moves(c)
<1>1. PICK x, y : x = c.sides[1] /\ y = c.sides[2]
    OBVIOUS
<1>2. c.what = "unmerged" /\ c.name \in Text /\ c.sides \in Sides
    OBVIOUS
<1>3. /\ x \in {"A", "D", "U"} /\ y \in {"A", "D", "U"}
      /\ x = "U" \/ y = "U" \/ x = y
    BY <1>1, <1>2 DEF Sides
<1>4. PICK f : f = Entry(x, y, c.name) /\ f.x = x /\ f.y = y /\ f.name = c.name
    BY EntryParts
<1>5. f \in StatusField
    BY <1>2, <1>3, <1>4 DEF Entry, StatusField
<1>6. ~Moves(c) /\ IsEntry(f) /\ ~Renamed(f) /\ ~Ignored(f) /\ ~Untracked(f)
    BY <1>2, <1>3, <1>4 DEF IsEntry, Renamed, Ignored, Untracked, Moves
<1>7. Conflicted(f)
    BY <1>3, <1>4 DEF Conflicted
<1>8. /\ Counts(f.x) /\ Counts(f.y)
      /\ Touches(c, "index") /\ Touches(c, "tree")
    BY <1>2, <1>3, <1>4 DEF Counts, Touches
<1>9. Kind(f) = "unmerged" /\ KindMeant(c) = "unmerged"
    BY <1>2, <1>7 DEF Kind, KindMeant
<1>10. c.what # "ignored" /\ c.what # "untracked"
    BY <1>2
<1> QED
    BY <1>1, <1>2, <1>4, <1>5, <1>6, <1>7, <1>8, <1>9, <1>10 DEF Says

LEMMA OtherSays ==
    ASSUME NEW c \in [what: {"untracked", "ignored"}, name: Text]
    PROVE  /\ ~Moves(c)
           /\ c.what = "untracked" => Says(Entry("?", "?", c.name), c)
           /\ c.what = "ignored" => Says(Entry("!", "!", c.name), c)
<1>1. c.what \in {"untracked", "ignored"} /\ c.name \in Text
    OBVIOUS
<1>2. ~Moves(c) /\ ~Touches(c, "index") /\ ~Touches(c, "tree")
    BY <1>1 DEF Moves, Touches
<1>3. ASSUME NEW l \in {"?", "!"}, (l = "?") <=> (c.what = "untracked")
      PROVE  Says(Entry(l, l, c.name), c)
    <2>1. PICK f : f = Entry(l, l, c.name) /\ f.x = l /\ f.y = l /\ f.name = c.name
        BY EntryParts
    <2>2. f \in StatusField
        BY <1>1, <2>1 DEF Entry, StatusField
    <2>3. IsEntry(f) /\ ~Renamed(f) /\ ~Conflicted(f) /\ ~Counts(f.x) /\ ~Counts(f.y)
        BY <2>1 DEF IsEntry, Renamed, Conflicted, Counts
    <2>4. (Ignored(f) <=> c.what = "ignored") /\ (Untracked(f) <=> c.what = "untracked")
        BY <1>1, <1>3, <2>1 DEF Ignored, Untracked
    <2>5. c.what # "ignored" => Kind(f) = KindMeant(c)
        <3> SUFFICES ASSUME c.what # "ignored" PROVE Kind(f) = KindMeant(c)
            OBVIOUS
        <3>1. l = "?" /\ c.what = "untracked"
            BY <1>1, <1>3
        <3>2. KindMeant(c) = "untracked"
            BY <3>1 DEF KindMeant
        <3>3. KindOf("?") = "untracked"
            BY DEF KindOf
        <3> QED BY <2>1, <2>3, <3>1, <3>2, <3>3 DEF Kind
    <2>6. c.what # "unmerged"
        BY <1>1
    <2> QED BY <1>2, <2>1, <2>2, <2>3, <2>4, <2>5, <2>6 DEF Says
<1> QED
    BY <1>1, <1>2, <1>3

LEMMA EditPrints ==
    ASSUME NEW c \in Edit
    PROVE  Prints(PrintEdit(c), c) /\ PrintEdit(c) \in Seq(StatusField)
<1>1. ASSUME NEW f, Says(f, c), ~Moves(c) PROVE Prints(<<f>>, c)
    <2>1. f \in StatusField
        BY <1>1 DEF Says
    <2> QED BY <1>1, <2>1, Singleton DEF Prints
<1>2. CASE c \in Tracked
    <2>1. PICK f : f = Entry(Letter[c.index], Letter[c.tree], c.name) /\ Says(f, c)
        BY <1>2, TrackedSays
    <2>2. c.what = "tracked" /\ f \in StatusField
        BY <1>2, <2>1, TrackedIs DEF Says
    <2>3. PrintEdit(c) = <<f>> \o (IF Moves(c) THEN <<c.source>> ELSE <<>>)
        BY <2>1, <2>2 DEF PrintEdit
    <2>4. CASE Moves(c)
        <3>1. PICK b \in StatusField : b = c.source
            BY <1>2, <2>4, TrackedIs
        <3>2. PrintEdit(c) = <<f, b>>
            BY <2>2, <2>3, <2>4, <3>1, Couple
        <3>3. <<f, b>> \in Seq(StatusField) /\ Len(<<f, b>>) = 2 /\ <<f, b>>[1] = f
              /\ <<f, b>>[2] = b
            BY <2>2, <3>1, Couple
        <3> QED BY <2>1, <2>4, <3>1, <3>2, <3>3 DEF Prints
    <2>5. CASE ~Moves(c)
        <3>1. <<f>> \o <<>> = <<f>>
            BY <2>2, Singleton, ConcatEmptySeq
        <3>2. PrintEdit(c) = <<f>>
            BY <2>3, <2>5, <3>1
        <3>3. Prints(<<f>>, c)
            BY <1>1, <2>1, <2>5
        <3> QED BY <3>2, <3>3 DEF Prints
    <2> QED BY <2>4, <2>5 DEF Prints
<1>3. CASE c \in [what: {"unmerged"}, sides: Sides, name: Text]
    <2>1. PICK f : f = Entry(c.sides[1], c.sides[2], c.name) /\ Says(f, c) /\ ~Moves(c)
        BY <1>3, UnmergedSays
    <2>2. c.what = "unmerged"
        BY <1>3
    <2>3. PrintEdit(c) = <<f>>
        BY <2>1, <2>2 DEF PrintEdit
    <2> QED BY <1>1, <2>1, <2>3 DEF Prints
<1>4. CASE c \in [what: {"untracked", "ignored"}, name: Text]
    <2>1. c.what \in {"untracked", "ignored"}
        BY <1>4
    <2>2. CASE c.what = "untracked"
        <3>1. PICK f : f = Entry("?", "?", c.name) /\ Says(f, c) /\ ~Moves(c)
            BY <1>4, <2>2, OtherSays
        <3>2. PrintEdit(c) = <<f>>
            BY <2>2, <3>1 DEF PrintEdit
        <3> QED BY <1>1, <3>1, <3>2 DEF Prints
    <2>3. CASE c.what = "ignored"
        <3>1. PICK f : f = Entry("!", "!", c.name) /\ Says(f, c) /\ ~Moves(c)
            BY <1>4, <2>3, OtherSays
        <3>2. PrintEdit(c) = <<f>>
            BY <2>3, <3>1 DEF PrintEdit
        <3> QED BY <1>1, <3>1, <3>2 DEF Prints
    <2> QED BY <2>1, <2>2, <2>3
<1> QED
    BY <1>2, <1>3, <1>4 DEF Edit

-----------------------------------------------------------------------------
(* The way of the parser through what is printed. *)

Goods(us) ==
    [i \in 1..Len(us) |->
        /\ IsEntry(us[i]) /\ Decodable(us[i])
        /\ Renamed(us[i]) => i < Len(us) /\ Decodable(us[i + 1])]
Afters(us) == [i \in 1..Len(us) |-> IF Renamed(us[i]) THEN i + 2 ELSE i + 1]
Items(us) ==
    [i \in 1..Len(us) |-> [entry |-> us[i], source |-> IF Renamed(us[i]) THEN us[i + 1]
                                                       ELSE Nothing]]

LEMMA ParseStatusIsScan ==
    ASSUME NEW us
    PROVE  ParseStatus(us) = Scan(Len(us), Goods(us), Afters(us), Items(us))
BY DEF ParseStatus, Goods, Afters, Items

LEMMA StatusScannable ==
    ASSUME NEW us \in Seq(StatusField)
    PROVE  \E T : Scannable(T, Len(us), Goods(us), Afters(us), Items(us))
<1>1. PICK n \in Nat : n = Len(us)
    OBVIOUS
<1>2. PICK T : T = {Items(us)[i] : i \in 1..n}
    OBVIOUS
<1>3. Items(us) \in [1..n -> T]
    BY <1>1, <1>2 DEF Items
<1>4. ASSUME NEW i \in 1..n
      PROVE  Goods(us)[i] \in BOOLEAN /\ (Goods(us)[i] => Afters(us)[i] \in (i + 1)..(n + 1))
    <2>1. Goods(us)[i] = (/\ IsEntry(us[i]) /\ Decodable(us[i])
                          /\ Renamed(us[i]) => i < n /\ Decodable(us[i + 1]))
        BY <1>1 DEF Goods
    <2>2. Afters(us)[i] = IF Renamed(us[i]) THEN i + 2 ELSE i + 1
        BY <1>1 DEF Afters
    <2> QED BY <2>1, <2>2
<1> QED
    BY <1>1, <1>3, <1>4 DEF Scannable, Forward

\* Where the changes are printed, and what the parser makes of each.
Printed(off, n, cs, us) ==
    /\ n \in Nat /\ off \in [0..n -> Nat] /\ off[0] = 0 /\ off[n] = Len(us)
    /\ us \in Seq(StatusField)
    /\ \A k \in 1..n :
          /\ cs[k] \in Edit
          /\ off[k - 1] + 1 \in 1..Len(us) /\ Says(us[off[k - 1] + 1], cs[k])
          /\ Moves(cs[k]) => /\ off[k] = off[k - 1] + 2 /\ off[k - 1] + 2 \in 1..Len(us)
                             /\ us[off[k - 1] + 2] = cs[k].source
          /\ ~Moves(cs[k]) => off[k] = off[k - 1] + 1

LEMMA StatusPrinted ==
    ASSUME NEW n \in Nat, NEW cs \in [1..n -> Edit]
    PROVE  \E off : Printed(off, n, cs, PrintStatus(cs))
<1> DEFINE ps == [k \in 1..n |-> PrintEdit(cs[k])]
<1>1. ASSUME NEW k \in 1..n
      PROVE  cs[k] \in Edit /\ ps[k] \in Seq(StatusField) /\ Prints(ps[k], cs[k])
    <2>1. cs[k] \in Edit /\ ps[k] = PrintEdit(cs[k])
        OBVIOUS
    <2> QED BY <2>1, EditPrints
<1>2. ps \in [1..n -> Seq(StatusField)]
    <2>1. ps = [k \in 1..n |-> ps[k]]
        OBVIOUS
    <2> HIDE DEF ps
    <2> QED BY <1>1, <2>1
<1>3. PrintStatus(cs) = FlattenSeq(ps)
    <2>1. Len(cs) = n
        OBVIOUS
    <2> QED BY <2>1 DEF PrintStatus
<1> HIDE DEF ps
<1>4. PICK us : us = PrintStatus(cs) /\ us \in Seq(StatusField) /\ \E off : Offsets(off, n, ps, us)
    BY <1>2, <1>3, FlattenOffsets
<1>5. PICK off : Offsets(off, n, ps, us)
    BY <1>4
<1>6. /\ off \in [0..n -> Nat] /\ off[0] = 0 /\ off[n] = Len(us)
      /\ \A k \in 1..n :
            /\ off[k] = off[k - 1] + Len(ps[k]) /\ off[k] <= off[n]
            /\ \A j \in 1..Len(ps[k]) : us[off[k - 1] + j] = ps[k][j]
    BY <1>5 DEF Offsets
<1>7. ASSUME NEW k \in 1..n
      PROVE  /\ off[k - 1] + 1 \in 1..Len(us) /\ Says(us[off[k - 1] + 1], cs[k])
             /\ Moves(cs[k]) => /\ off[k] = off[k - 1] + 2 /\ off[k - 1] + 2 \in 1..Len(us)
                                /\ us[off[k - 1] + 2] = cs[k].source
             /\ ~Moves(cs[k]) => off[k] = off[k - 1] + 1
    <2>1. k - 1 \in 0..n
        OBVIOUS
    <2>2. PICK a \in Nat, L \in Nat, N \in Nat :
             a = off[k - 1] /\ L = Len(ps[k]) /\ N = Len(us)
        BY <1>1, <1>4, <1>6, <2>1
    <2>3. off[k] = a + L /\ a + L <= N /\ \A j \in 1..L : us[a + j] = ps[k][j]
        BY <1>6, <2>2
    <2>4. /\ Moves(cs[k]) => L = 2 /\ ps[k][2] = cs[k].source
          /\ ~Moves(cs[k]) => L = 1
          /\ Says(ps[k][1], cs[k])
        BY <1>1, <2>2 DEF Prints
    <2>5. 1 <= L
        BY <2>4
    <2>6. us[a + 1] = ps[k][1] /\ a + 1 \in 1..N
        <3>1. 1 \in 1..L
            BY <2>5
        <3> QED BY <2>3, <2>5, <3>1
    <2>7. CASE Moves(cs[k])
        <3>1. L = 2 /\ 2 \in 1..L /\ ps[k][2] = cs[k].source
            BY <2>4, <2>7
        <3>2. us[a + 2] = ps[k][2]
            BY <2>3, <3>1
        <3>3. off[k] = a + 2 /\ a + 2 \in 1..N /\ us[a + 2] = cs[k].source
            BY <2>3, <3>1, <3>2
        <3> QED BY <2>2, <2>4, <2>6, <2>7, <3>3
    <2>8. CASE ~Moves(cs[k])
        <3>1. off[k] = a + 1
            BY <2>3, <2>4, <2>8
        <3> QED BY <2>2, <2>4, <2>6, <2>8, <3>1
    <2> QED BY <2>7, <2>8
<1> QED
    BY <1>1, <1>4, <1>6, <1>7 DEF Printed

\* A change is read if and only if its names are UTF-8.
IsRead(off, cs, us, k) ==
    /\ off[k - 1] + 1 \in 1..Len(us)
    /\ Goods(us)[off[k - 1] + 1] <=> Legible(cs[k])
    /\ Afters(us)[off[k - 1] + 1] = off[k] + 1
    /\ Items(us)[off[k - 1] + 1] =
          [entry |-> us[off[k - 1] + 1],
           source |-> IF Moves(cs[k]) THEN cs[k].source ELSE Nothing]
    /\ Says(us[off[k - 1] + 1], cs[k])

LEMMA EntryReads ==
    ASSUME NEW off, NEW n, NEW cs, NEW us, Printed(off, n, cs, us), NEW k \in 1..n
    PROVE  IsRead(off, cs, us, k)
<1>1. PICK N \in Nat : N = Len(us)
    BY DEF Printed
<1>2. n \in Nat /\ off \in [0..n -> Nat] /\ k - 1 \in 0..n
    BY DEF Printed
<1> DEFINE a == off[k - 1]
           c == cs[k]
<1>3. a \in Nat
    BY <1>2
<1>4. /\ a + 1 \in 1..N /\ Says(us[a + 1], c)
      /\ Moves(c) => off[k] = a + 2 /\ a + 2 \in 1..N /\ us[a + 2] = c.source
      /\ ~Moves(c) => off[k] = a + 1
    BY <1>1 DEF Printed
<1> HIDE DEF a, c
<1>5. PICK i, f : i = a + 1 /\ i + 1 = a + 2 /\ f = us[i]
    BY <1>3
<1>6. IsEntry(f) /\ f.name = c.name /\ (Renamed(f) <=> Moves(c))
    BY <1>4, <1>5 DEF Says
<1>7. Goods(us)[i] <=> Legible(c)
    <2>1. Goods(us)[i] = (/\ IsEntry(us[i]) /\ Decodable(us[i])
                          /\ Renamed(us[i]) => i < N /\ Decodable(us[i + 1]))
        BY <1>1, <1>4, <1>5 DEF Goods
    <2>2. Decodable(f) <=> c.name # Garbled
        BY <1>6 DEF Decodable
    <2>3. Moves(c) => i < N /\ us[i + 1] = c.source
        BY <1>1, <1>4, <1>5
    <2> QED BY <1>5, <1>6, <2>1, <2>2, <2>3 DEF Legible
<1>8. Afters(us)[i] = off[k] + 1
    <2>1. Afters(us)[i] = IF Renamed(f) THEN i + 2 ELSE i + 1
        BY <1>1, <1>4, <1>5 DEF Afters
    <2> QED BY <1>3, <1>4, <1>5, <1>6, <2>1
<1>9. Items(us)[i] = [entry |-> f, source |-> IF Moves(c) THEN c.source ELSE Nothing]
    <2>1. Items(us)[i] = [entry |-> f, source |-> IF Renamed(f) THEN us[i + 1] ELSE Nothing]
        BY <1>1, <1>4, <1>5 DEF Items
    <2>2. (IF Renamed(f) THEN us[i + 1] ELSE Nothing) = IF Moves(c) THEN c.source ELSE Nothing
        BY <1>4, <1>5, <1>6
    <2> QED BY <2>1, <2>2
<1> QED
    BY <1>1, <1>3, <1>4, <1>5, <1>7, <1>8, <1>9 DEF IsRead, a, c

\* Read in full, one by one.
ItemOf(us, off, cs, k) ==
    [entry |-> us[off[k - 1] + 1], source |-> IF Moves(cs[k]) THEN cs[k].source ELSE Nothing]

LEMMA LegibleIsRead ==
    ASSUME NEW n, NEW cs, NEW off, NEW us, Printed(off, n, cs, us),
           \A k \in 1..n : Legible(cs[k])
    PROVE  ParseStatus(us) = Read([k \in 1..n |-> ItemOf(us, off, cs, k)])
<1>1. us \in Seq(StatusField) /\ n \in Nat /\ off \in [0..n -> Nat] /\ off[0] = 0
      /\ off[n] = Len(us)
    BY DEF Printed
<1>2. PICK T : Scannable(T, Len(us), Goods(us), Afters(us), Items(us))
    BY <1>1, StatusScannable
<1>3. Leads(off, n, Len(us), Goods(us), Afters(us))
    <2>1. ASSUME NEW k \in 1..n
          PROVE  /\ off[k - 1] + 1 \in 1..Len(us) /\ Goods(us)[off[k - 1] + 1]
                 /\ Afters(us)[off[k - 1] + 1] = off[k] + 1
        <3>1. IsRead(off, cs, us, k)
            BY EntryReads
        <3> QED BY <3>1 DEF IsRead
    <2> QED BY <1>1, <2>1 DEF Leads, Passes
<1>4. Scan(Len(us), Goods(us), Afters(us), Items(us)) = Read(Picked(Items(us), off, n))
    BY <1>2, <1>3, ScanOfPath
<1>5. ASSUME NEW k \in 1..n PROVE Items(us)[off[k - 1] + 1] = ItemOf(us, off, cs, k)
    <2>1. IsRead(off, cs, us, k)
        BY EntryReads
    <2> QED BY <2>1 DEF ItemOf, IsRead
<1>6. Picked(Items(us), off, n) = [k \in 1..n |-> ItemOf(us, off, cs, k)]
    BY <1>5 DEF Picked
<1> QED
    BY <1>4, <1>6, ParseStatusIsScan

LEMMA IllegibleIsNot ==
    ASSUME NEW n, NEW cs, NEW off, NEW us, Printed(off, n, cs, us),
           ~ \A k \in 1..n : Legible(cs[k])
    PROVE  ParseStatus(us).ok = FALSE
<1>1. us \in Seq(StatusField) /\ n \in Nat /\ off \in [0..n -> Nat] /\ off[0] = 0
    BY DEF Printed
<1>2. PICK T : Scannable(T, Len(us), Goods(us), Afters(us), Items(us))
    BY <1>1, StatusScannable
<1> DEFINE K == {k \in 1..n : ~Legible(cs[k])}
<1>3. PICK k \in K : \A j \in K : k <= j
    <2>1. K # {}
        OBVIOUS
    <2>2. K \in SUBSET Nat
        BY <1>1
    <2> QED BY <2>1, <2>2, Least
<1>4. PICK m \in 0..n : m = k - 1 /\ k = m + 1 /\ k \in 1..n /\ m \in Nat
    BY <1>1
<1> DEFINE on == [j \in 0..m |-> off[j]]
<1>5. on \in [0..m -> Nat] /\ \A j \in 0..m : on[j] = off[j]
    <2>1. \A j \in 0..m : j \in 0..n
        BY <1>1
    <2> QED BY <1>1, <2>1
<1> HIDE DEF on
<1>6. ASSUME NEW j \in 1..m
      PROVE  on[j - 1] + 1 \in 1..Len(us) /\ Afters(us)[on[j - 1] + 1] = on[j] + 1
    <2>1. j \in 1..n /\ j - 1 \in 0..m /\ j \in 0..m
        BY <1>1, <1>4
    <2>2. on[j - 1] = off[j - 1] /\ on[j] = off[j]
        BY <1>5, <2>1
    <2>3. IsRead(off, cs, us, j)
        BY <2>1, EntryReads
    <2> QED BY <2>2, <2>3 DEF IsRead
<1>7. on[m] + 1 \in 1..Len(us) /\ ~Goods(us)[on[m] + 1]
    <2>1. on[m] = off[k - 1] /\ ~Legible(cs[k])
        BY <1>3, <1>4, <1>5
    <2>2. IsRead(off, cs, us, k)
        BY <1>4, EntryReads
    <2> QED BY <2>1, <2>2 DEF IsRead
<1>8. on[0] = 0
    BY <1>1, <1>4, <1>5
<1>9. Halts(on, m, Len(us), Goods(us), Afters(us))
    BY <1>4, <1>5, <1>6, <1>7, <1>8 DEF Halts
<1>10. Scan(Len(us), Goods(us), Afters(us), Items(us)).ok = FALSE
    BY <1>2, <1>9, ScanStops
<1> QED
    BY <1>10, ParseStatusIsScan

-----------------------------------------------------------------------------
(* What is read is summarized as what is meant. *)

SummaryOf(staged, unstaged, untracked, conflicted, ignored, entries) ==
    [staged |-> Cardinality(staged), unstaged |-> Cardinality(unstaged),
     untracked |-> Cardinality(untracked), conflicted |-> Cardinality(conflicted),
     ignored |-> Cardinality(ignored), entries |-> InOrder(entries)]

Tell(items, n, cs, f, source) ==
    /\ n \in Nat /\ cs \in [1..n -> Edit]
    /\ items = [k \in 1..n |-> [entry |-> f[k], source |-> source[k]]]
    /\ \A k \in 1..n : /\ Says(f[k], cs[k])
                       /\ source[k] = IF Moves(cs[k]) THEN cs[k].source ELSE Nothing

LEMMA SummaryIsMeant ==
    ASSUME NEW n, NEW cs, NEW f, NEW source, NEW items, Tell(items, n, cs, f, source)
    PROVE  Summary(Read(items)) = Meant(cs)
<1> DEFINE all == 1..n
           kept == {i \in all : ~Ignored(items[i].entry)}
           meant == {i \in all : cs[i].what # "ignored"}
           read == [i \in kept |-> [path |-> items[i].entry.name, source |-> items[i].source,
                                    kind |-> Kind(items[i].entry)]]
           due == [i \in meant |->
                      [path |-> cs[i].name,
                       source |-> IF Moves(cs[i]) THEN cs[i].source ELSE Nothing,
                       kind |-> KindMeant(cs[i])]]
<1>1. Len(items) = n /\ Len(cs) = n /\ Read(items).items = items
    BY DEF Read, Tell
<1>2. \A i \in all : /\ items[i].entry = f[i] /\ items[i].source = source[i]
                     /\ source[i] = IF Moves(cs[i]) THEN cs[i].source ELSE Nothing
    BY DEF Tell
<1>3. \A i \in all :
         /\ f[i].name = cs[i].name
         /\ Ignored(f[i]) <=> cs[i].what = "ignored"
         /\ Untracked(f[i]) <=> cs[i].what = "untracked"
         /\ Conflicted(f[i]) <=> cs[i].what = "unmerged"
         /\ Counts(f[i].x) <=> Touches(cs[i], "index")
         /\ Counts(f[i].y) <=> Touches(cs[i], "tree")
         /\ cs[i].what # "ignored" => Kind(f[i]) = KindMeant(cs[i])
    BY DEF Says, Tell
<1>4. \A i \in all : Ignored(f[i]) => ~Counts(f[i].x) /\ ~Counts(f[i].y)
    BY DEF Ignored, Counts
<1>5. Summary(Read(items)) =
         SummaryOf({i \in kept : Counts(items[i].entry.x)}, {i \in kept : Counts(items[i].entry.y)},
                   {i \in kept : Untracked(items[i].entry)},
                   {i \in kept : Conflicted(items[i].entry)}, all \ kept, read)
    BY <1>1 DEF Summary, SummaryOf, Read
<1>6. Meant(cs) =
         SummaryOf({i \in all : Touches(cs[i], "index")}, {i \in all : Touches(cs[i], "tree")},
                   {i \in all : cs[i].what = "untracked"}, {i \in all : cs[i].what = "unmerged"},
                   {i \in all : cs[i].what = "ignored"}, due)
    BY <1>1 DEF Meant, SummaryOf
<1>7. kept = meant
    BY <1>2, <1>3
<1>8. {i \in kept : Counts(items[i].entry.x)} = {i \in all : Touches(cs[i], "index")}
    BY <1>2, <1>3, <1>4
<1>9. {i \in kept : Counts(items[i].entry.y)} = {i \in all : Touches(cs[i], "tree")}
    BY <1>2, <1>3, <1>4
<1>10. {i \in kept : Untracked(items[i].entry)} = {i \in all : cs[i].what = "untracked"}
    BY <1>2, <1>3
<1>11. {i \in kept : Conflicted(items[i].entry)} = {i \in all : cs[i].what = "unmerged"}
    BY <1>2, <1>3
<1>12. all \ kept = {i \in all : cs[i].what = "ignored"}
    BY <1>2, <1>3
<1>13. read = due
    <2>1. ASSUME NEW i \in meant
          PROVE  /\ items[i].entry.name = cs[i].name
                 /\ items[i].source = IF Moves(cs[i]) THEN cs[i].source ELSE Nothing
                 /\ Kind(items[i].entry) = KindMeant(cs[i])
        BY <1>2, <1>3
    <2> HIDE DEF kept, meant
    <2> QED BY <1>7, <2>1
<1> HIDE DEF all, kept, meant, read, due
<1> QED
    BY <1>5, <1>6, <1>7, <1>8, <1>9, <1>10, <1>11, <1>12, <1>13

LEMMA StatusUnderstood ==
    ASSUME NEW n \in Nat, NEW cs \in [1..n -> Edit]
    PROVE  LET parsed == ParseStatus(PrintStatus(cs))
           IN  IF \A i \in 1..Len(cs) : Legible(cs[i])
               THEN parsed.ok /\ Summary(parsed) = Meant(cs)
               ELSE ~parsed.ok
<1>1. PICK us, off : us = PrintStatus(cs) /\ Printed(off, n, cs, us)
    BY StatusPrinted
<1>2. Len(cs) = n
    OBVIOUS
<1>3. CASE \A k \in 1..n : Legible(cs[k])
    <2> DEFINE f == [k \in 1..n |-> us[off[k - 1] + 1]]
               source == [k \in 1..n |-> IF Moves(cs[k]) THEN cs[k].source ELSE Nothing]
               items == [k \in 1..n |-> ItemOf(us, off, cs, k)]
    <2>1. ParseStatus(us) = Read(items)
        BY <1>1, <1>3, LegibleIsRead
    <2>2. items = [k \in 1..n |-> [entry |-> f[k], source |-> source[k]]]
        BY DEF ItemOf
    <2>3. ASSUME NEW k \in 1..n
          PROVE  /\ Says(f[k], cs[k])
                 /\ source[k] = IF Moves(cs[k]) THEN cs[k].source ELSE Nothing
        <3>1. IsRead(off, cs, us, k)
            BY <1>1, EntryReads
        <3> QED BY <3>1 DEF IsRead
    <2> HIDE DEF f, source, items
    <2>4. Summary(Read(items)) = Meant(cs)
        <3>1. Tell(items, n, cs, f, source)
            BY <2>2, <2>3 DEF Tell
        <3> QED BY <3>1, SummaryIsMeant
    <2>5. Read(items).ok
        BY DEF Read
    <2> QED BY <1>1, <1>2, <1>3, <2>1, <2>4, <2>5
<1>4. CASE ~ \A k \in 1..n : Legible(cs[k])
    <2>1. ParseStatus(us).ok = FALSE
        BY <1>1, <1>4, IllegibleIsNot
    <2> QED BY <1>1, <1>2, <1>4, <2>1
<1> QED
    BY <1>3, <1>4

-----------------------------------------------------------------------------
(* What is reported, and what becomes of it. *)

\* Git is asked for nothing, for a status or for a listing.
Reported ==
    \/ NoReport
    \/ \E n \in Nat : reported \in [asked: {"status"}, of: [1..n -> Edit]]
    \/ \E n \in Nat : reported \in [asked: {"list"}, of: [1..n -> Listed]]

LEMMA ReportedHolds == SpecAll => []Reported
<1>1. InitAll => Reported
    <2>1. Reports => Reported
        BY TextAssumption DEF Reports, Reported
    <2> QED BY <2>1 DEF InitAll, Reported
<1>2. Reported /\ [NextAll]_<<vars, reported>> => Reported'
    <2> SUFFICES ASSUME Reported, reported' = reported PROVE Reported'
        BY DEF NextAll
    <2> QED BY DEF Reported, NoReport
<1> QED
    BY <1>1, <1>2, PTL DEF SpecAll

\* Whatever Git reports, a status of any length is read as what Git means by it,
\* or not at all if a name is not UTF-8.
THEOREM StatusIsUnderstoodHolds == SpecAll => []StatusIsUnderstood
<1>1. Reported => StatusIsUnderstood
    <2> SUFFICES ASSUME Reported, reported.asked = "status"
                 PROVE  StatusIsUnderstood
        BY DEF StatusIsUnderstood
    <2>1. PICK n \in Nat : reported.of \in [1..n -> Edit]
        BY DEF Reported, NoReport
    <2> QED BY <2>1, StatusUnderstood DEF StatusIsUnderstood
<1> QED
    BY <1>1, ReportedHolds, PTL

\* Whatever Git reports, a listing of any number of worktrees is read as what
\* Git lists, or not at all if a path is not UTF-8.
THEOREM ListIsUnderstoodHolds == SpecAll => []ListIsUnderstood
<1>1. Reported => ListIsUnderstood
    <2> SUFFICES ASSUME Reported, reported.asked = "list"
                 PROVE  ListIsUnderstood
        BY DEF ListIsUnderstood
    <2>1. PICK n \in Nat : reported.of \in [1..n -> Listed]
        BY DEF Reported, NoReport
    <2> QED BY <2>1, ListUnderstood DEF ListIsUnderstood
<1> QED
    BY <1>1, ReportedHolds, PTL

\* A number of changes is positive if there is one.
LEMMA Positive ==
    ASSUME NEW n \in Nat, NEW S \in SUBSET (1..n)
    PROVE  Cardinality(S) > 0 <=> \E i \in 1..n : i \in S
<1>1. IsFiniteSet(1..n)
    BY FS_Interval
<1>2. IsFiniteSet(S)
    BY <1>1, FS_Subset
<1>3. Cardinality(S) \in Nat /\ (Cardinality(S) = 0 <=> S = {})
    BY <1>2, FS_CardinalityType, FS_EmptySet
<1> QED
    BY <1>3

LEMMA MeantIsDirty ==
    ASSUME NEW n \in Nat, NEW cs \in [1..n -> Edit]
    PROVE  IsDirty(Meant(cs)) <=>
               ChangesOf(cs) \cap {"staged", "unstaged", "untracked", "conflicted"} # {}
<1> DEFINE S == {i \in 1..n : Touches(cs[i], "index")}
           U == {i \in 1..n : Touches(cs[i], "tree")}
           N == {i \in 1..n : cs[i].what = "untracked"}
           C == {i \in 1..n : cs[i].what = "unmerged"}
<1>1. Len(cs) = n
    OBVIOUS
<1>2. /\ Meant(cs).staged = Cardinality(S) /\ Meant(cs).unstaged = Cardinality(U)
      /\ Meant(cs).untracked = Cardinality(N) /\ Meant(cs).conflicted = Cardinality(C)
    BY <1>1 DEF Meant
<1>3. /\ S \in SUBSET (1..n) /\ U \in SUBSET (1..n) /\ N \in SUBSET (1..n)
      /\ C \in SUBSET (1..n)
    OBVIOUS
<1>4. /\ Touched(cs, "index") <=> \E i \in 1..n : i \in S
      /\ Touched(cs, "tree") <=> \E i \in 1..n : i \in U
      /\ Occurs(cs, "untracked") <=> \E i \in 1..n : i \in N
      /\ Occurs(cs, "unmerged") <=> \E i \in 1..n : i \in C
    BY <1>1 DEF Touched, Occurs
<1> HIDE DEF S, U, N, C
<1>5. /\ Cardinality(S) > 0 <=> Touched(cs, "index")
      /\ Cardinality(U) > 0 <=> Touched(cs, "tree")
      /\ Cardinality(N) > 0 <=> Occurs(cs, "untracked")
      /\ Cardinality(C) > 0 <=> Occurs(cs, "unmerged")
    BY <1>3, <1>4, Positive
<1>6. /\ "staged" \in ChangesOf(cs) <=> Touched(cs, "index")
      /\ "unstaged" \in ChangesOf(cs) <=> Touched(cs, "tree")
      /\ "untracked" \in ChangesOf(cs) <=> Occurs(cs, "untracked")
      /\ "conflicted" \in ChangesOf(cs) <=> Occurs(cs, "unmerged")
    BY DEF ChangesOf, ChangeOf
<1>7. IsDirty(Meant(cs)) <=> \/ Touched(cs, "index") \/ Touched(cs, "tree")
                             \/ Occurs(cs, "untracked") \/ Occurs(cs, "unmerged")
    BY <1>2, <1>5 DEF IsDirty
<1> QED
    BY <1>6, <1>7

\* What becomes of an idle worktree w that is compared with branch b, if the reads
\* f fail.
IdleGrounds(w, b, f) == Grounds(w, Target(w, Discovered(w, {}), Local(b), f), f)

\* The verdict on an idle worktree depends on its changes, and on whether they
\* could be read.
LEMMA IdleVerdict ==
    ASSUME NEW changes, NEW b \in Branch, NEW f, f = {} \/ f = {Error("changes")},
           NEW dirty \in BOOLEAN,
           dirty <=> changes \cap {"staged", "unstaged", "untracked", "conflicted"} # {}
    PROVE  Promoted(IdleGrounds(Idle(changes, Local(b)), b, f)) =
               IF f # {} THEN "review" ELSE IF dirty THEN "unsafe" ELSE "eligible"
<1>1. PICK w : w = Idle(changes, Local(b))
    OBVIOUS
<1>2. /\ ~w.primary /\ ~w.prunable /\ w.dir /\ ~w.locked /\ ~w.leased /\ w.head
      /\ w.usage = "none" /\ w.age = MinimumAge /\ w.changes = changes
      /\ w.tips = [s \in Ref |-> IF s = Local(b) THEN "merged" ELSE "absent"]
    BY <1>1 DEF Idle
<1>3. PICK t : t = Target(w, Discovered(w, {}), Local(b), f)
    OBVIOUS
<1>4. t.integration = Local(b) /\ t.remote = None
    <2>1. Local(b) \in Ref /\ Remote(b) \in Ref /\ Remote(b) # Local(b)
        BY DEF Ref, Local, Remote
    <2>2. Local(b) # None /\ Local(b)[2] = b
        BY <2>1, RefAssumption DEF Local
    <2>3. w.tips[Remote(b)] = "absent"
        BY <1>2, <2>1
    <2>4. ~Has(w, Remote(Local(b)[2]), {})
        BY <2>2, <2>3 DEF Has
    <2> QED BY <1>3, <2>2, <2>4 DEF Target
<1>5. Local(b) # None /\ w.tips[Local(b)] = "merged"
    <2>1. Local(b) \in Ref
        BY DEF Ref, Local
    <2> QED BY <1>2, <2>1, RefAssumption
<1>6. /\ \A r \in {"merge", "lsof", "upstream", "last commit", "remote branch", "disk usage"} :
            Error(r) \notin f
      /\ \A r \in {"rev-list", "ancestor", "lsof"} : Exit(r) \notin f
      /\ Error("changes") \in f <=> f # {}
    BY DEF Error, Exit
<1>7. /\ Available(w) /\ Compared(w, t, f) /\ MergedLocally(w, t, f) /\ ~RemoteKnown(w, t, f)
      /\ ~InUse(w, f) /\ UniqueCommits(w, t, f) = "none"
    <2>1. Available(w) /\ ~InUse(w, f)
        BY <1>2 DEF Available, InUse
    <2>2. Compared(w, t, f) /\ Resolves(w, t.integration)
        BY <1>2, <1>6, <1>4, <1>5, <2>1 DEF Compared, Resolves
    <2> QED BY <1>6, <1>4, <1>5, <2>1, <2>2 DEF MergedLocally, RemoteKnown, UniqueCommits
<1>8. Incomplete(w, f) <=> f # {}
    BY <1>6, <1>7 DEF Incomplete
<1>9. Dirty(w, f) <=> f = {} /\ dirty
    BY <1>2, <1>6, <1>7 DEF Dirty
<1>10. ~(w.age < MinimumAge)
    BY <1>2, AgeAssumption
<1>11. \A c : c \in Grounds(w, t, f) <=>
          \/ c = "eligible"
          \/ c = "review" /\ f # {}
          \/ c = "unsafe" /\ f = {} /\ dirty
    BY <1>2, <1>6, <1>7, <1>8, <1>9, <1>10 DEF Grounds, Class
<1>12. /\ Grounds(w, t, f) \in SUBSET Class /\ "eligible" \in Grounds(w, t, f)
    BY <1>11 DEF Grounds
<1>13. IdleGrounds(w, b, f) = Grounds(w, t, f)
    BY <1>3 DEF IdleGrounds
<1>14. PICK c : c = Promoted(Grounds(w, t, f)) /\ c \in Grounds(w, t, f)
                /\ \A d \in Grounds(w, t, f) : Priority(d) <= Priority(c)
    BY <1>12, PromotedIsHighest
<1>15. Priority("eligible") = 1 /\ Priority("review") = 2 /\ Priority("unsafe") = 3
    BY DEF Priority
<1>16. CASE f # {}
    <2>1. "review" \in Grounds(w, t, f) /\ c \in {"eligible", "review"}
        BY <1>11, <1>14, <1>16
    <2>2. c # "eligible"
        BY <1>14, <1>15, <2>1
    <2> QED BY <1>1, <1>13, <1>14, <1>16, <2>1, <2>2
<1>17. CASE f = {} /\ dirty
    <2>1. "unsafe" \in Grounds(w, t, f) /\ c \in {"eligible", "unsafe"}
        BY <1>11, <1>14, <1>17
    <2>2. c # "eligible"
        BY <1>14, <1>15, <2>1
    <2> QED BY <1>1, <1>13, <1>14, <1>17, <2>1, <2>2
<1>18. CASE f = {} /\ ~dirty
    <2>1. c = "eligible"
        BY <1>11, <1>14, <1>18
    <2> QED BY <1>1, <1>13, <1>14, <1>18, <2>1
<1> QED
    BY <1>16, <1>17, <1>18

\* A worktree whose status is asked for is idle, and it is assessed with what
\* the parser made of the status.
Inspected ==
    /\ Reported
    /\ Asked("status") =>
          \E b \in Branch :
             /\ base = Local(b) /\ worktree = Idle(ChangesOf(reported.of), base)
             /\ handle = Discovered(worktree, {})
             /\ failed = IF Parsed.ok THEN {} ELSE {Error("changes")}
             /\ verdict # "none" => verdict = Promoted(IdleGrounds(worktree, b, failed))

LEMMA InspectedHolds == SpecAll => []Inspected
<1>1. InitAll => Inspected
    <2> SUFFICES ASSUME InitAll PROVE Inspected
        OBVIOUS
    <2>1. Reports => Reported
        BY TextAssumption DEF Reports, Reported
    <2>2. NoReport => ~Asked("status")
        BY DEF NoReport, Asked
    <2>3. CASE NoReport /\ Init
        BY <2>2, <2>3 DEF Inspected, Reported
    <2>4. CASE ~(NoReport /\ Init)
        <3>1. /\ Reports /\ verdict = "none" /\ handle = Discovered(worktree, {})
              /\ \E b \in Branch : base = Local(b)
              /\ worktree = Idle(IF Asked("status") THEN ChangesOf(reported.of) ELSE {}, base)
              /\ failed = IF Asked("status") /\ ~Parsed.ok THEN {Error("changes")} ELSE {}
            BY <2>4 DEF InitAll
        <3> QED BY <2>1, <3>1 DEF Inspected
    <2> QED BY <2>3, <2>4
<1>2. Inspected /\ [NextAll]_<<vars, reported>> => Inspected'
    <2> SUFFICES ASSUME Inspected, [NextAll]_<<vars, reported>> PROVE Inspected'
        OBVIOUS
    <2>1. reported' = reported
        BY DEF NextAll
    <2>2. /\ Reported' /\ (Asked("status")' <=> Asked("status")) /\ Parsed' = Parsed
          /\ ChangesOf(reported.of)' = ChangesOf(reported.of)
        BY <2>1 DEF Inspected, Reported, NoReport, Asked, Parsed
    <2>3. CASE ~Asked("status")
        BY <2>2, <2>3 DEF Inspected
    <2>4. CASE Asked("status") /\ NextAll
        <3>1. NoReport => ~Asked("status")
            BY DEF NoReport, Asked
        <3>2. Assess
            BY <2>4, <3>1 DEF NextAll
        <3>3. /\ UNCHANGED <<worktree, handle, base, failed>>
              /\ verdict' = Promoted(Grounds(worktree, Found, failed))
            BY <3>2 DEF Assess
        <3>4. PICK b \in Branch :
                /\ base = Local(b) /\ worktree = Idle(ChangesOf(reported.of), base)
                /\ handle = Discovered(worktree, {})
                /\ failed = IF Parsed.ok THEN {} ELSE {Error("changes")}
            BY <2>4 DEF Inspected
        <3>5. verdict' = Promoted(IdleGrounds(worktree, b, failed))
            BY <3>3, <3>4 DEF IdleGrounds, Found
        <3>6. IdleGrounds(worktree, b, failed)' = IdleGrounds(worktree, b, failed)
            BY <3>3
        <3>7. \E e \in Branch :
                /\ base' = Local(e) /\ worktree' = Idle(ChangesOf(reported'.of), base')
                /\ handle' = Discovered(worktree', {})
                /\ failed' = IF Parsed'.ok THEN {} ELSE {Error("changes")}
                /\ verdict' = Promoted(IdleGrounds(worktree', e, failed'))
            BY <2>1, <2>2, <3>3, <3>4, <3>5
        <3> QED BY <2>2, <3>7 DEF Inspected
    <2>5. CASE UNCHANGED <<vars, reported>>
        BY <2>2, <2>5 DEF Inspected, vars, IdleGrounds
    <2> QED BY <2>3, <2>4, <2>5
<1> QED
    BY <1>1, <1>2, PTL DEF SpecAll

\* From what Git prints to the verdict, for a status of any length.
THEOREM DirtyIsAssessedHolds == SpecAll => []DirtyIsAssessed
<1>1. Inspected => DirtyIsAssessed
    <2> SUFFICES ASSUME Inspected, Asked("status"), verdict # "none"
                 PROVE  verdict = IF ~Parsed.ok THEN "review"
                                  ELSE IF IsDirty(Summary(Parsed)) THEN "unsafe" ELSE "eligible"
        BY DEF DirtyIsAssessed
    <2> DEFINE cs == reported.of
    <2>0. cs = reported.of
        OBVIOUS
    <2>1. PICK n \in Nat : cs \in [1..n -> Edit]
        BY DEF Inspected, Reported, NoReport, Asked
    <2> HIDE DEF cs
    <2>2. PICK p : p = Parsed /\ p = ParseStatus(PrintStatus(cs))
        BY <2>0 DEF Parsed
    <2>3. p.ok => Summary(p) = Meant(cs)
        BY <2>1, <2>2, StatusUnderstood
    <2>4. PICK dirty \in BOOLEAN :
             dirty <=> ChangesOf(cs) \cap {"staged", "unstaged", "untracked", "conflicted"} # {}
        OBVIOUS
    <2>5. IsDirty(Meant(cs)) <=> dirty
        BY <2>1, <2>4, MeantIsDirty
    <2>6. PICK b \in Branch :
             /\ worktree = Idle(ChangesOf(cs), Local(b))
             /\ failed = IF p.ok THEN {} ELSE {Error("changes")}
             /\ verdict = Promoted(IdleGrounds(worktree, b, failed))
        BY <2>0, <2>2 DEF Inspected
    <2>7. failed = {} \/ failed = {Error("changes")}
        BY <2>6
    <2>8. failed # {} <=> ~p.ok
        BY <2>6
    <2>9. verdict = IF failed # {} THEN "review" ELSE IF dirty THEN "unsafe" ELSE "eligible"
        BY <2>4, <2>6, <2>7, IdleVerdict
    <2> QED BY <2>2, <2>3, <2>5, <2>8, <2>9
<1> QED
    BY <1>1, InspectedHolds, PTL
=============================================================================

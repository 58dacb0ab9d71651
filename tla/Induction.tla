----------------------------- MODULE Induction -----------------------------
(***************************************************************************)
(* Lemmas about recursion over data, for the proofs about what the readers *)
(* compute: induction over numbers, functions that are defined by          *)
(* recursion, folds, and the concatenation of sequences.                   *)
(*                                                                         *)
(* An induction theorem whose hypothesis is an operator cannot be applied  *)
(* by the provers; here the hypothesis is a set of numbers, and the step   *)
(* from one number to the next one of a recursive definition a function.   *)
(***************************************************************************)
EXTENDS Integers, Sequences, SequencesExt, SequenceTheorems, Scan,
        WellFoundedInduction, TLAPS

-----------------------------------------------------------------------------
(* Numbers. *)

LEMMA Least ==
    ASSUME NEW T \in SUBSET Nat, T # {}
    PROVE  \E n \in T : \A m \in T : n <= m
<1> DEFINE R == OpToRel(<, Nat)
<1>1. IsWellFoundedOn(R, Nat)
    BY NatLessThanWellFounded
<1>2. \A m, n \in Nat : m < n => <<m, n>> \in R
    BY DEF OpToRel
<1> HIDE DEF R
<1>3. PICK n \in T : \A m \in T : ~ (<<m, n>> \in R)
    BY <1>1, WFMin
<1>4. \A m \in T : ~ (m < n)
    BY <1>2, <1>3
<1>5. n \in Nat /\ \A m \in T : m \in Nat
    OBVIOUS
<1>6. \A m \in T : n <= m
    BY <1>4, <1>5
<1> QED
    BY <1>6

LEMMA AllNumbers ==
    ASSUME NEW S \in SUBSET Nat, 0 \in S, \A n \in S : n + 1 \in S
    PROVE  S = Nat
<1> SUFFICES ASSUME S # Nat PROVE FALSE
    OBVIOUS
<1>1. PICK n \in Nat \ S : \A m \in Nat \ S : n <= m
    BY Least
<1>2. n # 0 /\ n - 1 \in Nat /\ ~(n <= n - 1)
    OBVIOUS
<1>3. n - 1 \in S
    BY <1>1, <1>2
<1>4. (n - 1) + 1 = n
    OBVIOUS
<1> QED
    BY <1>3, <1>4

\* Induction up to a number, and down from it.
LEMMA Upwards ==
    ASSUME NEW n \in Nat, NEW S, 0 \in S, \A k \in 0..(n - 1) : k \in S => k + 1 \in S
    PROVE  0..n \subseteq S
<1> DEFINE T == {k \in Nat : k <= n => k \in S}
<1>1. 0 \in T
    OBVIOUS
<1>2. ASSUME NEW k \in T PROVE k + 1 \in T
    BY <1>2
<1>3. T = Nat
    <2> HIDE DEF T
    <2>1. T \in SUBSET Nat BY DEF T
    <2> QED BY <1>1, <1>2, <2>1, AllNumbers
<1> QED
    BY <1>3

LEMMA Downwards ==
    ASSUME NEW n \in Nat, NEW S, n \in S, \A k \in 1..n : k \in S => k - 1 \in S
    PROVE  0..n \subseteq S
<1> DEFINE T == {k \in 0..n : n - k \in S}
<1>1. 0 \in T
    OBVIOUS
<1>2. ASSUME NEW k \in 0..(n - 1), k \in T PROVE k + 1 \in T
    <2>1. n - k \in 1..n /\ n - k \in S /\ n - (k + 1) = (n - k) - 1 /\ k + 1 \in 0..n
        BY <1>2
    <2>2. (n - k) - 1 \in S
        BY <2>1
    <2>3. n - (k + 1) \in S
        BY <2>1, <2>2
    <2> QED BY <2>1, <2>3
<1>3. 0..n \subseteq T
    <2> HIDE DEF T
    <2> QED BY <1>1, <1>2, Upwards
<1>4. ASSUME NEW k \in 0..n PROVE k \in S
    <2>1. n - k \in 0..n /\ n - (n - k) = k
        OBVIOUS
    <2> QED BY <2>1, <1>3
<1> QED
    BY <1>4

\* The greatest of some numbers up to another one.
LEMMA MaxExists ==
    ASSUME NEW n \in Nat, NEW s \in SUBSET (1..n), s # {}
    PROVE  /\ Max(s) \in s
           /\ \A y \in s : Max(s) >= y
<1> DEFINE T == {m \in Nat : \A y \in s : m >= y}
<1>1. n \in T
    OBVIOUS
<1>2. PICK m \in T : \A k \in T : m <= k
    BY <1>1, Least
<1>3. m \in s
    <2> SUFFICES ASSUME m \notin s PROVE FALSE
        OBVIOUS
    <2>1. \A y \in s : y \in 1..n /\ m >= y /\ m # y
        OBVIOUS
    <2>2. m - 1 \in Nat /\ \A y \in s : m - 1 >= y
        <3>1. PICK y \in s : TRUE
            OBVIOUS
        <3>2. m > 0
            BY <2>1
        <3> QED BY <2>1, <3>2
    <2>3. m - 1 \in T
        BY <2>2
    <2>4. m <= m - 1
        BY <2>3, <1>2
    <2> QED
        BY <2>4
<1>4. \A y \in s : m >= y
    OBVIOUS
<1> QED
    BY <1>3, <1>4 DEF Max

LEMMA MaxOfAll ==
    ASSUME NEW n \in Nat, NEW k \in 1..n, NEW s \in SUBSET (1..k), k \in s
    PROVE  Max(s) = k
<1>1. s \in SUBSET (1..n)
    OBVIOUS
<1>2. Max(s) \in s /\ \A y \in s : Max(s) >= y
    BY <1>1, MaxExists
<1>3. Max(s) \in 1..k /\ Max(s) >= k
    BY <1>2
<1> QED
    BY <1>3

-----------------------------------------------------------------------------
(* Functions that are defined by recursion: that there is one that satisfies *)
(* the equation is what makes the function that is chosen satisfy it.        *)

\* g starts at base, and h[i] leads from its value before i to the one at i.
Iterates(g, n, base, h) == g[0] = base /\ \A i \in 1..n : g[i] = h[i][g[i - 1]]

LEMMA RecursionExists ==
    ASSUME NEW n \in Nat, NEW D, NEW base \in D, NEW h \in [1..n -> [D -> D]]
    PROVE  \E g \in [0..n -> D] : Iterates(g, n, base, h)
<1> DEFINE S == {m \in 0..n : \E g \in [0..n -> D] : Iterates(g, m, base, h)}
<1>1. 0 \in S
    <2> DEFINE f == [i \in 0..n |-> base]
    <2>1. f \in [0..n -> D] /\ f[0] = base
        OBVIOUS
    <2> HIDE DEF f
    <2>2. Iterates(f, 0, base, h)
        BY <2>1 DEF Iterates
    <2> QED BY <2>1, <2>2
<1>2. ASSUME NEW m \in 0..(n - 1), m \in S PROVE m + 1 \in S
    <2>1. PICK g \in [0..n -> D] : Iterates(g, m, base, h)
        BY <1>2
    <2>2. m + 1 \in 1..n /\ m \in 0..n
        OBVIOUS
    <2>3. h[m + 1][g[m]] \in D
        BY <2>1, <2>2
    <2> DEFINE f == [g EXCEPT ![m + 1] = h[m + 1][g[m]]]
    <2>4. f \in [0..n -> D] /\ f[m + 1] = h[m + 1][g[m]]
        BY <2>1, <2>2, <2>3
    <2>5. \A i \in 0..n : i # m + 1 => f[i] = g[i]
        BY <2>1
    <2> HIDE DEF f
    <2>6. f[0] = base
        BY <2>1, <2>5 DEF Iterates
    <2>7. ASSUME NEW i \in 1..m PROVE f[i] = h[i][f[i - 1]]
        <3>1. i - 1 \in 0..n /\ i \in 0..n /\ i # m + 1 /\ i - 1 # m + 1
            OBVIOUS
        <3> QED BY <3>1, <2>1, <2>5 DEF Iterates
    <2>8. f[m + 1] = h[m + 1][f[m]]
        BY <2>2, <2>4, <2>5
    <2>9. \A i \in 1..(m + 1) : i \in 1..m \/ i = m + 1
        OBVIOUS
    <2>10. Iterates(f, m + 1, base, h)
        BY <2>6, <2>7, <2>8, <2>9 DEF Iterates
    <2> QED BY <2>2, <2>4, <2>10
<1>3. n \in S
    <2> HIDE DEF S
    <2>1. 0..n \subseteq S
        BY <1>1, <1>2, Upwards
    <2> QED BY <2>1
<1> QED
    BY <1>3

-----------------------------------------------------------------------------
(* FoldLeft, which is a recursion over sets of positions. *)

\* A function that folds the positions in each set, the last of them last.
FoldsAt(it, s, base, h) == it[s] = IF s = {} THEN base ELSE h[Max(s)][it[s \ {Max(s)}]]

LEMMA FoldExists ==
    ASSUME NEW n \in Nat, NEW D, NEW base \in D, NEW h \in [1..n -> [D -> D]]
    PROVE  \E it \in [SUBSET (1..n) -> D] : \A s \in SUBSET (1..n) : FoldsAt(it, s, base, h)
<1> DEFINE Fits(it, m) == \A s \in SUBSET (1..m) : FoldsAt(it, s, base, h)
           S == {m \in 0..n : \E it \in [SUBSET (1..n) -> D] : Fits(it, m)}
<1>1. 0 \in S
    <2> DEFINE it == [s \in SUBSET (1..n) |-> base]
    <2>1. it \in [SUBSET (1..n) -> D] /\ it[{}] = base
        OBVIOUS
    <2>2. \A s \in SUBSET (1..0) : s = {}
        OBVIOUS
    <2> HIDE DEF it
    <2>3. Fits(it, 0)
        BY <2>1, <2>2 DEF FoldsAt
    <2> QED BY <2>1, <2>3
<1>2. ASSUME NEW m \in 0..(n - 1), m \in S PROVE m + 1 \in S
    <2>1. PICK f \in [SUBSET (1..n) -> D] : Fits(f, m)
        BY <1>2
    <2>2. m + 1 \in 1..n
        OBVIOUS
    <2> DEFINE it == [s \in SUBSET (1..n) |-> IF m + 1 \in s THEN h[m + 1][f[s \ {m + 1}]]
                                              ELSE f[s]]
    <2>3. it \in [SUBSET (1..n) -> D]
        BY <2>2
    <2>4. ASSUME NEW s \in SUBSET (1..n), m + 1 \notin s PROVE it[s] = f[s]
        BY <2>4
    <2>5. ASSUME NEW s \in SUBSET (1..n), m + 1 \in s PROVE it[s] = h[m + 1][f[s \ {m + 1}]]
        BY <2>5
    <2> HIDE DEF it
    <2>6. ASSUME NEW s \in SUBSET (1..(m + 1)) PROVE FoldsAt(it, s, base, h)
        <3>1. s \in SUBSET (1..n)
            BY <2>2
        <3>2. CASE m + 1 \in s
            <4>1. Max(s) = m + 1
                BY <2>2, <3>2, MaxOfAll
            <4>2. it[s \ {m + 1}] = f[s \ {m + 1}]
                BY <2>4, <3>1
            <4>3. it[s] = h[m + 1][it[s \ {m + 1}]]
                BY <2>5, <3>1, <3>2, <4>2
            <4> QED BY <3>2, <4>1, <4>3 DEF FoldsAt
        <3>3. CASE m + 1 \notin s
            <4>1. s \in SUBSET (1..m)
                BY <3>3
            <4>2. FoldsAt(f, s, base, h)
                BY <2>1, <4>1
            <4>3. it[s] = f[s] /\ it[s \ {Max(s)}] = f[s \ {Max(s)}]
                BY <2>4, <3>1, <3>3
            <4> QED BY <4>2, <4>3 DEF FoldsAt
        <3> QED BY <3>2, <3>3
    <2>7. Fits(it, m + 1)
        BY <2>6
    <2> QED BY <2>2, <2>3, <2>7
<1>3. n \in S
    <2> HIDE DEF S
    <2>1. 0..n \subseteq S
        BY <1>1, <1>2, Upwards
    <2> QED BY <2>1
<1> QED
    BY <1>3

\* The sets of positions that FoldLeft reaches.
LEMMA InitialSets ==
    ASSUME NEW n \in Nat, NEW k \in 1..n
    PROVE  /\ 1..k \in SUBSET (1..n) /\ 1..k # {}
           /\ (1..k) \ {k} = 1..(k - 1) /\ 1..(k - 1) \in SUBSET (1..n)
OBVIOUS

LEMMA LastOfPrefix ==
    ASSUME NEW n \in Nat, NEW k \in 1..n
    PROVE  Max(1..k) = k
BY MaxOfAll

-----------------------------------------------------------------------------
(* FlattenSeq. *)

\* The prefixes that it goes through.
Concatenates(parts, n, ps) == parts[0] = <<>> /\ \A i \in 1..n : parts[i] = parts[i - 1] \o ps[i]

LEMMA FlattenParts ==
    ASSUME NEW T, NEW n \in Nat, NEW ps \in [1..n -> Seq(T)]
    PROVE  \E parts \in [0..n -> Seq(T)] :
              Concatenates(parts, n, ps) /\ FlattenSeq(ps) = parts[n]
<1>1. Len(ps) = n /\ ps \in Seq(Seq(T))
    OBVIOUS
<1>0. \A i \in 1..n : \A q \in Seq(T) : ps[i] \in Seq(T) /\ q \o ps[i] \in Seq(T)
    OBVIOUS
<1>2. PICK step \in [1..n -> [Seq(T) -> Seq(T)]] :
         \A i \in 1..n : \A q \in Seq(T) : step[i][q] = q \o ps[i]
    <2> DEFINE s == [i \in 1..n |-> [q \in Seq(T) |-> q \o ps[i]]]
    <2>1. s \in [1..n -> [Seq(T) -> Seq(T)]]
        BY <1>0
    <2>2. \A i \in 1..n : \A q \in Seq(T) : s[i][q] = q \o ps[i]
        OBVIOUS
    <2> QED BY <2>1, <2>2
<1>3. PICK g \in [0..n -> Seq(T)] : g[0] = <<>> /\ \A i \in 1..n : g[i] = g[i - 1] \o ps[i]
    <2>1. PICK E : E = Seq(T)
        OBVIOUS
    <2>2. PICK b \in E : b = <<>>
        <3>1. <<>> \in Seq(T)
            OBVIOUS
        <3> QED BY <2>1, <3>1
    <2>3. step \in [1..n -> [E -> E]]
        BY <2>1
    <2>4. PICK g \in [0..n -> E] : Iterates(g, n, b, step)
        BY <2>3, RecursionExists
    <2>5. ASSUME NEW i \in 1..n PROVE g[i] = g[i - 1] \o ps[i]
        <3>1. i - 1 \in 0..n
            OBVIOUS
        <3>2. g[i - 1] \in Seq(T) /\ g[i] = step[i][g[i - 1]]
            BY <2>1, <2>4, <3>1 DEF Iterates
        <3> QED BY <3>2, <1>2
    <2>6. g \in [0..n -> Seq(T)] /\ g[0] = <<>>
        BY <2>1, <2>2, <2>4 DEF Iterates
    <2> QED BY <2>5, <2>6
<1>4. Concatenates(g, n, ps)
    BY <1>3 DEF Concatenates
<1>7. 1 \in 1..n => g[1] = ps[1]
    <2> SUFFICES ASSUME 1 \in 1..n PROVE g[1] = ps[1]
        OBVIOUS
    <2>1. PICK i \in 1..n : i = 1 /\ i - 1 = 0
        OBVIOUS
    <2>2. g[i] = g[i - 1] \o ps[i] /\ ps[i] \in Seq(T)
        BY <1>0, <1>3
    <2>3. g[1] = <<>> \o ps[1] /\ ps[1] \in Seq(T)
        BY <1>3, <2>1, <2>2
    <2> QED BY <2>3
<1>5. CASE n = 0
    <2>1. FlattenSeq(ps) = <<>>
        BY <1>1, <1>5 DEF FlattenSeq
    <2> QED BY <1>3, <1>4, <1>5, <2>1
<1>6. CASE n # 0
    <2>0. 1 \in 1..n
        BY <1>6
    <2> DEFINE Eq(f) == f = [i \in 1..n |-> IF i = 1 THEN ps[i] ELSE f[i - 1] \o ps[i]]
               f == CHOOSE f : Eq(f)
               e == [i \in 1..n |-> g[i]]
    <2>1. Eq(e)
        <3>1. ASSUME NEW i \in 1..n
              PROVE  g[i] = IF i = 1 THEN ps[i] ELSE e[i - 1] \o ps[i]
            <4>1. CASE i = 1
                <5> QED BY <4>1, <2>0, <1>7
            <4>2. CASE i # 1
                <5>1. i - 1 \in 1..n
                    BY <4>2
                <5>2. e[i - 1] = g[i - 1]
                    BY <5>1
                <5> HIDE DEF e
                <5> QED BY <4>2, <5>2, <1>3
            <4> QED BY <4>1, <4>2
        <3>2. e = [i \in 1..n |-> IF i = 1 THEN ps[i] ELSE e[i - 1] \o ps[i]]
            BY <3>1
        <3> QED BY <3>2
    <2>2. Eq(f)
        <3> HIDE DEF Eq, e
        <3> QED BY <2>1
    <2>3. FlattenSeq(ps) = f[n]
        BY <1>1, <1>6 DEF FlattenSeq
    <2> HIDE DEF f
    <2>4. \A i \in 1..n : f[i] = IF i = 1 THEN ps[i] ELSE f[i - 1] \o ps[i]
        BY <2>2, Zenon
    <2> DEFINE S == {i \in 0..n : i # 0 => f[i] = g[i]}
    <2>5. 0 \in S
        OBVIOUS
    <2>6. ASSUME NEW i \in 0..(n - 1), i \in S PROVE i + 1 \in S
        <3>1. i + 1 \in 1..n /\ (i + 1) - 1 = i
            OBVIOUS
        <3>2. g[i + 1] = g[i] \o ps[i + 1]
            BY <3>1, <1>3
        <3>3. f[i + 1] = g[i + 1]
            <4>1. CASE i = 0
                <5>1. f[1] = ps[1]
                    BY <2>0, <2>4
                <5> QED BY <4>1, <5>1, <2>0, <1>7
            <4>2. CASE i # 0
                <5>1. f[i] = g[i] /\ i + 1 # 1
                    BY <4>2, <2>6
                <5>2. f[i + 1] = f[i] \o ps[i + 1]
                    BY <5>1, <2>4, <3>1
                <5> QED BY <5>1, <5>2, <3>2
            <4> QED BY <4>1, <4>2
        <3>4. i + 1 \in 0..n
            BY <3>1
        <3> QED BY <3>3, <3>4
    <2>7. n \in S
        <3> HIDE DEF S
        <3>1. 0..n \subseteq S BY <2>5, <2>6, Upwards
        <3> QED BY <3>1
    <2> QED BY <1>4, <1>6, <2>3, <2>7
<1> QED
    BY <1>5, <1>6

\* Where each of the sequences is in the concatenation.
Offsets(off, n, ps, us) ==
    /\ off \in [0..n -> Nat] /\ off[0] = 0 /\ off[n] = Len(us)
    /\ \A k \in 1..n :
          /\ off[k] = off[k - 1] + Len(ps[k]) /\ off[k] <= off[n]
          /\ \A j \in 1..Len(ps[k]) : us[off[k - 1] + j] = ps[k][j]

LEMMA FlattenOffsets ==
    ASSUME NEW T, NEW n \in Nat, NEW ps \in [1..n -> Seq(T)]
    PROVE  /\ FlattenSeq(ps) \in Seq(T)
           /\ \E off : Offsets(off, n, ps, FlattenSeq(ps))
<1>1. PICK parts \in [0..n -> Seq(T)] :
         Concatenates(parts, n, ps) /\ FlattenSeq(ps) = parts[n]
    BY FlattenParts
<1>2. ASSUME NEW i \in 0..n PROVE parts[i] \in Seq(T)
    BY <1>1
<1>3. ASSUME NEW i \in 1..n
      PROVE  /\ i - 1 \in 0..n /\ ps[i] \in Seq(T) /\ parts[i - 1] \in Seq(T)
             /\ parts[i] = parts[i - 1] \o ps[i]
    <2>1. i - 1 \in 0..n
        OBVIOUS
    <2> QED BY <2>1, <1>1, <1>2 DEF Concatenates
<1> DEFINE Extends(m, k) ==
               /\ Len(parts[k]) <= Len(parts[m])
               /\ \A p \in 1..Len(parts[k]) : parts[m][p] = parts[k][p]
           S == {m \in 0..n : \A k \in 0..m : Extends(m, k)}
<1>4. 0 \in S
    <2>1. \A k \in 0..0 : Extends(0, k)
        BY <1>2
    <2> QED BY <2>1
<1>5. ASSUME NEW m \in 0..(n - 1), m \in S PROVE m + 1 \in S
    <2>1. /\ m + 1 \in 1..n /\ (m + 1) - 1 = m /\ m \in 0..n /\ m + 1 \in 0..n
        OBVIOUS
    <2>2. parts[m + 1] = parts[m] \o ps[m + 1] /\ ps[m + 1] \in Seq(T) /\ parts[m] \in Seq(T)
        BY <2>1, <1>3
    <2>3. Extends(m + 1, m)
        <3>1. PICK t \in Seq(T) : t = ps[m + 1]
            BY <2>2
        <3>2. PICK s \in Seq(T) : s = parts[m]
            BY <2>2
        <3>3. Len(s) <= Len(s \o t) /\ \A p \in 1..Len(s) : (s \o t)[p] = s[p]
            OBVIOUS
        <3>4. parts[m + 1] = s \o t
            BY <2>2, <3>1, <3>2
        <3> QED BY <3>2, <3>3, <3>4
    <2>4. ASSUME NEW k \in 0..m PROVE Extends(m + 1, k)
        <3>1. Extends(m, k)
            BY <1>5
        <3>2. parts[k] \in Seq(T)
            BY <1>2, <2>1
        <3>3. Len(parts[k]) \in Nat /\ Len(parts[m]) \in Nat /\ Len(parts[m + 1]) \in Nat
            BY <3>2, <2>2, <2>1, <1>2
        <3>4. Len(parts[k]) <= Len(parts[m + 1])
            BY <3>1, <3>3, <2>3
        <3>5. ASSUME NEW p \in 1..Len(parts[k]) PROVE parts[m + 1][p] = parts[k][p]
            <4>1. parts[m][p] = parts[k][p] /\ p \in 1..Len(parts[m])
                BY <3>1, <3>3
            <4> QED BY <4>1, <2>3
        <3> QED BY <3>4, <3>5
    <2>5. Extends(m + 1, m + 1)
        BY <1>2, <2>1
    <2>6. \A k \in 0..(m + 1) : k \in 0..m \/ k = m + 1
        OBVIOUS
    <2> QED BY <2>1, <2>4, <2>5, <2>6
<1>6. n \in S
    <2> HIDE DEF S
    <2>1. 0..n \subseteq S
        BY <1>4, <1>5, Upwards
    <2> QED BY <2>1
<1> DEFINE off == [k \in 0..n |-> Len(parts[k])]
<1>7. off \in [0..n -> Nat] /\ off[0] = 0 /\ off[n] = Len(FlattenSeq(ps))
    BY <1>1, <1>2 DEF Concatenates
<1>8. ASSUME NEW k \in 1..n
      PROVE  /\ off[k] = off[k - 1] + Len(ps[k]) /\ off[k] <= off[n]
             /\ \A j \in 1..Len(ps[k]) : FlattenSeq(ps)[off[k - 1] + j] = ps[k][j]
    <2>1. Extends(n, k)
        BY <1>6
    <2>2. off[k] = off[k - 1] + Len(ps[k]) /\ off[k] = Len(parts[k]) /\ off[n] = Len(parts[n])
        BY <1>3
    <2>3. ASSUME NEW j \in 1..Len(ps[k]) PROVE parts[n][off[k - 1] + j] = ps[k][j]
        <3>1. PICK p \in Seq(T) : p = parts[k - 1]
            BY <1>3
        <3>2. PICK q \in Seq(T) : q = ps[k]
            BY <1>3
        <3>3. (p \o q)[Len(p) + j] = q[j] /\ Len(p) + j \in 1..Len(p \o q)
            BY <3>2
        <3>4. off[k - 1] = Len(p)
            BY <3>1
        <3>5. parts[k] = p \o q
            BY <1>3, <3>1, <3>2
        <3>6. parts[k][off[k - 1] + j] = ps[k][j] /\ off[k - 1] + j \in 1..Len(parts[k])
            BY <3>2, <3>3, <3>4, <3>5
        <3> HIDE DEF off
        <3> QED BY <3>6, <2>1
    <2> HIDE DEF off
    <2> QED BY <2>1, <2>2, <2>3, <1>1
<1>9. FlattenSeq(ps) \in Seq(T)
    BY <1>1
<1> QED
    <2> HIDE DEF off
    <2>1. Offsets(off, n, ps, FlattenSeq(ps))
        BY <1>7, <1>8 DEF Offsets
    <2> QED BY <1>9, <2>1

\* A sequence is the concatenation of its slices.
Slices(fs, m, off, us) ==
    /\ off \in [0..m -> Nat] /\ off[0] = 0 /\ off[m] = Len(us)
    /\ \A k \in 1..m : /\ off[k - 1] <= off[k] /\ off[k] <= Len(us)
                       /\ fs[k] = SubSeq(us, off[k - 1] + 1, off[k])

LEMMA FlattenSlices ==
    ASSUME NEW T, NEW us \in Seq(T), NEW m \in Nat, NEW fs, NEW off,
           fs \in [1..m -> Seq(T)], Slices(fs, m, off, us)
    PROVE  FlattenSeq(fs) = us
<1> USE DEF Slices
<1>1. PICK parts \in [0..m -> Seq(T)] : Concatenates(parts, m, fs) /\ FlattenSeq(fs) = parts[m]
    BY FlattenParts
<1> DEFINE S == {k \in 0..m : parts[k] = SubSeq(us, 1, off[k])}
<1>2. 0 \in S
    <2>1. SubSeq(us, 1, off[0]) = <<>>
        BY SubSeqEmpty
    <2>2. parts[0] = <<>>
        BY <1>1 DEF Concatenates
    <2> QED BY <2>1, <2>2
<1>3. ASSUME NEW i \in 0..(m - 1), i \in S PROVE i + 1 \in S
    <2>1. PICK k \in 1..m : k = i + 1 /\ k - 1 = i
        OBVIOUS
    <2>2. parts[k] = parts[k - 1] \o fs[k] /\ parts[k - 1] = SubSeq(us, 1, off[k - 1])
        BY <1>1, <1>3, <2>1 DEF Concatenates
    <2>3. /\ 1 \in 1..(Len(us) + 1) /\ off[k - 1] \in (1 - 1)..Len(us)
          /\ off[k] \in off[k - 1]..Len(us)
        <3>0. k - 1 \in 0..m /\ k \in 0..m
            OBVIOUS
        <3>1. off[k - 1] \in Nat /\ off[k] \in Nat /\ off[k - 1] <= off[k] /\ off[k] <= Len(us)
            BY <3>0
        <3>2. PICK n \in Nat : n = Len(us)
            OBVIOUS
        <3>3. PICK a \in Nat : a = off[k - 1]
            BY <3>1
        <3>4. PICK b \in Nat : b = off[k]
            BY <3>1
        <3>5. a <= b /\ b <= n
            BY <3>1, <3>2, <3>3, <3>4
        <3>6. 1 \in 1..(n + 1) /\ a \in (1 - 1)..n /\ b \in a..n
            BY <3>5
        <3> QED BY <3>2, <3>3, <3>4, <3>6
    <2>4. SubSeq(us, 1, off[k - 1]) \o SubSeq(us, off[k - 1] + 1, off[k]) = SubSeq(us, 1, off[k])
        BY <2>3, ConcatAdjacentSubSeq
    <2>5. parts[k] = SubSeq(us, 1, off[k])
        BY <2>2, <2>4
    <2> QED BY <2>1, <2>5
<1>4. m \in S
    <2> HIDE DEF S
    <2>1. 0..m \subseteq S
        BY <1>2, <1>3, Upwards
    <2> QED BY <2>1
<1>5. SubSeq(us, 1, Len(us)) = us
    BY SubSeqFull
<1> QED
    BY <1>1, <1>4, <1>5

LEMMA Singleton ==
    ASSUME NEW T, NEW a \in T
    PROVE  <<a>> \in Seq(T) /\ Len(<<a>>) = 1 /\ <<a>>[1] = a
OBVIOUS

LEMMA Couple ==
    ASSUME NEW T, NEW a \in T, NEW b \in T
    PROVE  /\ <<a, b>> \in Seq(T) /\ Len(<<a, b>>) = 2
           /\ <<a, b>>[1] = a /\ <<a, b>>[2] = b /\ <<a>> \o <<b>> = <<a, b>>
<1> DEFINE s == <<a>>
           t == <<b>>
           u == <<a, b>>
<1>1. u \in Seq(T) /\ Len(u) = 2 /\ u[1] = a /\ u[2] = b
    OBVIOUS
<1>2. s \in Seq(T) /\ Len(s) = 1 /\ s[1] = a /\ t \in Seq(T) /\ Len(t) = 1 /\ t[1] = b
    BY Singleton
<1> HIDE DEF s, t, u
<1>3. s \o t \in Seq(T) /\ Len(s \o t) = 2 /\ (s \o t)[1] = a /\ (s \o t)[2] = b
    <2>1. s \o t \in Seq(T) /\ Len(s \o t) = Len(s) + Len(t)
        BY <1>2, ConcatProperties
    <2>2. \A i \in 1..Len(s) + Len(t) : (s \o t)[i] = IF i <= Len(s) THEN s[i] ELSE t[i - Len(s)]
        BY <1>2, ConcatProperties
    <2>3. (s \o t)[1] = s[1] /\ (s \o t)[2] = t[1]
        <3>1. 1 \in 1..Len(s) + Len(t) /\ 1 <= Len(s)
            BY <1>2
        <3>2. 2 \in 1..Len(s) + Len(t) /\ ~(2 <= Len(s)) /\ 2 - Len(s) = 1
            BY <1>2
        <3> QED BY <3>1, <3>2, <2>2
    <2> QED BY <1>2, <2>1, <2>3
<1>4. \A i \in 1..2 : i = 1 \/ i = 2
    OBVIOUS
<1>5. s \o t = u
    BY <1>1, <1>3, <1>4, SeqEqual
<1> QED
    BY <1>1, <1>5 DEF s, t, u

LEMMA Tabulated ==
    ASSUME NEW T, NEW n \in Nat, NEW a \in [1..n -> T]
    PROVE  a \in Seq(T) /\ Len(a) = n
OBVIOUS

\* Slices of one and of two elements.
LEMMA OneElement ==
    ASSUME NEW T, NEW us \in Seq(T), NEW k \in 1..Len(us)
    PROVE  SubSeq(us, k, k) = <<us[k]>>
<1>1. SubSeq(us, k, k) = <<us[k]>> \o SubSeq(us, k + 1, k)
    BY SubSeqRecursiveFirst
<1>2. SubSeq(us, k + 1, k) = <<>>
    BY SubSeqEmpty
<1>3. <<us[k]>> \in Seq(T)
    OBVIOUS
<1> QED
    BY <1>1, <1>2, <1>3, ConcatEmptySeq

LEMMA TwoElements ==
    ASSUME NEW T, NEW us \in Seq(T), NEW k \in 1..Len(us), k + 1 \in 1..Len(us)
    PROVE  SubSeq(us, k, k + 1) = <<us[k], us[k + 1]>>
<1>1. k + 1 \in k..Len(us)
    BY SMT
<1>2. SubSeq(us, k, k + 1) = <<us[k]>> \o SubSeq(us, k + 1, k + 1)
    BY <1>1, SubSeqRecursiveFirst
<1>3. SubSeq(us, k + 1, k + 1) = <<us[k + 1]>>
    BY OneElement
<1>4. us[k] \in T /\ us[k + 1] \in T
    OBVIOUS
<1>5. <<us[k]>> \o <<us[k + 1]>> = <<us[k], us[k + 1]>>
    BY <1>4, Couple
<1> QED
    BY <1>2, <1>3, <1>5

\* And that of its elements.
LEMMA FlattenSingletons ==
    ASSUME NEW T, NEW us \in Seq(T)
    PROVE  FlattenSeq([k \in 1..Len(us) |-> <<us[k]>>]) = us
<1>1. PICK m \in Nat : m = Len(us)
    OBVIOUS
<1> DEFINE fs == [k \in 1..m |-> <<us[k]>>]
           off == [k \in 0..m |-> k]
<1>2. off \in [0..m -> Nat] /\ \A k \in 0..m : off[k] = k
    OBVIOUS
<1>3. fs \in [1..m -> Seq(T)] /\ \A k \in 1..m : fs[k] = <<us[k]>>
    <2>1. \A k \in 1..m : us[k] \in T
        BY <1>1
    <2> QED BY <2>1
<1> HIDE DEF off, fs
<1>4. off[0] = 0 /\ off[m] = Len(us)
    BY <1>1, <1>2
<1>5. ASSUME NEW k \in 1..m
      PROVE  /\ off[k - 1] <= off[k] /\ off[k] <= Len(us)
             /\ fs[k] = SubSeq(us, off[k - 1] + 1, off[k])
    <2>1. k - 1 \in 0..m /\ k \in 0..m
        OBVIOUS
    <2>2. off[k - 1] = k - 1 /\ off[k] = k /\ (k - 1) + 1 = k
        BY <2>1, <1>2
    <2>3. SubSeq(us, k, k) = <<us[k]>>
        BY <1>1, OneElement
    <2> QED BY <2>2, <2>3, <1>1, <1>3
<1>6. Slices(fs, m, off, us)
    BY <1>2, <1>4, <1>5 DEF Slices
<1>7. FlattenSeq(fs) = us
    BY <1>3, <1>6, FlattenSlices
<1> QED
    BY <1>1, <1>7 DEF fs

-----------------------------------------------------------------------------
(* Scan. *)

Readings(T) == {Read(items) : items \in Seq(T)} \cup {Unreadable}

LEMMA ReadFields ==
    /\ \A items : Read(items).ok = TRUE /\ Read(items).items = items
    /\ Unreadable.ok = FALSE
BY DEF Read, Unreadable

LEMMA ReadingsOk ==
    ASSUME NEW T, NEW r \in Readings(T)
    PROVE  /\ r.ok \in BOOLEAN
           /\ r.ok => r.items \in Seq(T) /\ r = Read(r.items)
<1>1. CASE r = Unreadable
    BY <1>1, ReadFields
<1>2. CASE r \in {Read(items) : items \in Seq(T)}
    <2>1. PICK items \in Seq(T) : r = Read(items)
        BY <1>2
    <2> QED BY <2>1, ReadFields
<1> QED
    BY <1>1, <1>2 DEF Readings

\* The reading from position i on, by readings from later ones.
ReadingAt(f, i, n, good, after, item) ==
    IF i > n THEN Read(<<>>)
    ELSE IF good[i] /\ f[after[i]].ok
    THEN Read(<<item[i]>> \o f[after[i]].items)
    ELSE Unreadable
ScansAt(f, i, n, good, after, item) == f[i] = ReadingAt(f, i, n, good, after, item)

\* What Scan asks of its arguments.
Forward(n, good, after) ==
    \A i \in 1..n : good[i] \in BOOLEAN /\ (good[i] => after[i] \in (i + 1)..(n + 1))

LEMMA ReadingAtIsReading ==
    ASSUME NEW T, NEW n \in Nat, NEW good, NEW after, NEW item \in [1..n -> T],
           Forward(n, good, after), NEW i \in 1..(n + 1), NEW f,
           \A j \in (i + 1)..(n + 1) : f[j] \in Readings(T)
    PROVE  ReadingAt(f, i, n, good, after, item) \in Readings(T)
<1>1. Read(<<>>) \in Readings(T)
    <2>1. <<>> \in Seq(T)
        OBVIOUS
    <2> QED BY <2>1 DEF Readings
<1>2. ASSUME i <= n, good[i], f[after[i]].ok
      PROVE  Read(<<item[i]>> \o f[after[i]].items) \in Readings(T)
    <2>1. f[after[i]] \in Readings(T)
        BY <1>2 DEF Forward
    <2>2. f[after[i]].items \in Seq(T)
        BY <1>2, <2>1, ReadingsOk
    <2>3. <<item[i]>> \in Seq(T)
        BY <1>2
    <2>4. <<item[i]>> \o f[after[i]].items \in Seq(T)
        BY <2>2, <2>3
    <2> QED BY <2>4 DEF Readings
<1>3. Unreadable \in Readings(T)
    BY DEF Readings
<1> QED
    BY <1>1, <1>2, <1>3 DEF ReadingAt

LEMMA ScanExists ==
    ASSUME NEW T, NEW n \in Nat, NEW good, NEW after, NEW item \in [1..n -> T],
           Forward(n, good, after)
    PROVE  \E f \in [1..(n + 1) -> Readings(T)] :
              \A i \in 1..(n + 1) : ScansAt(f, i, n, good, after, item)
<1> DEFINE Eq(f, i) == ScansAt(f, i, n, good, after, item)
           From(f, k) == \A i \in (k + 1)..(n + 1) : Eq(f, i)
           S == {k \in 0..n : \E f \in [1..(n + 1) -> Readings(T)] : From(f, k)}
\* One position more, as what is read there depends on later positions only.
<1>1. ASSUME NEW k \in 1..(n + 1), NEW f \in [1..(n + 1) -> Readings(T)], From(f, k)
      PROVE  \E g \in [1..(n + 1) -> Readings(T)] : From(g, k - 1)
    <2> DEFINE v == ReadingAt(f, k, n, good, after, item)
               g == [f EXCEPT ![k] = v]
    <2>1. v \in Readings(T)
        <3> HIDE DEF v
        <3>1. \A j \in (k + 1)..(n + 1) : f[j] \in Readings(T)
            OBVIOUS
        <3> QED BY <3>1, ReadingAtIsReading DEF v
    <2> HIDE DEF v
    <2>2. g \in [1..(n + 1) -> Readings(T)] /\ g[k] = v
        BY <2>1
    <2>3. \A j \in 1..(n + 1) : j # k => g[j] = f[j]
        OBVIOUS
    <2> HIDE DEF g
    <2>4. ASSUME NEW i \in k..(n + 1)
          PROVE  ReadingAt(g, i, n, good, after, item) = ReadingAt(f, i, n, good, after, item)
        <3>1. i \in 1..n /\ good[i] => after[i] \in 1..(n + 1) /\ after[i] # k
            BY DEF Forward
        <3>2. i \in 1..n /\ good[i] => g[after[i]] = f[after[i]]
            BY <3>1, <2>3
        <3> QED BY <3>2 DEF ReadingAt, Forward
    <2>5. ASSUME NEW i \in k..(n + 1) PROVE Eq(g, i)
        <3>1. CASE i = k
            BY <3>1, <2>2, <2>4 DEF v, ScansAt
        <3>2. CASE i # k
            <4>1. i \in (k + 1)..(n + 1) /\ i \in 1..(n + 1)
                BY <3>2
            <4>2. f[i] = ReadingAt(f, i, n, good, after, item)
                BY <4>1, <1>1 DEF ScansAt
            <4> QED BY <3>2, <4>1, <4>2, <2>3, <2>4 DEF ScansAt
        <3> QED BY <3>1, <3>2
    <2>6. (k - 1) + 1 = k
        OBVIOUS
    <2>7. From(g, k - 1)
        BY <2>5, <2>6
    <2> QED BY <2>2, <2>7
<1>2. n \in S
    <2> DEFINE f == [i \in 1..(n + 1) |-> Unreadable]
    <2>1. f \in [1..(n + 1) -> Readings(T)]
        BY DEF Readings
    <2> HIDE DEF f
    <2>2. n + 1 \in 1..(n + 1) /\ (n + 1) - 1 = n /\ From(f, n + 1)
        OBVIOUS
    <2> HIDE DEF From
    <2> QED BY <2>1, <2>2, <1>1
<1>3. ASSUME NEW k \in 1..n, k \in S PROVE k - 1 \in S
    <2>1. PICK f \in [1..(n + 1) -> Readings(T)] : From(f, k)
        BY <1>3
    <2>2. k \in 1..(n + 1) /\ k - 1 \in 0..n
        OBVIOUS
    <2> HIDE DEF From
    <2> QED BY <2>1, <2>2, <1>1
<1>4. 0 \in S
    <2> HIDE DEF S
    <2>1. 0..n \subseteq S
        BY <1>2, <1>3, Downwards
    <2> QED BY <2>1
<1> QED
    BY <1>4

\* The function that Scan computes.
Scanned(f, T, n, good, after, item) ==
    /\ f \in [1..(n + 1) -> Readings(T)]
    /\ \A i \in 1..(n + 1) : ScansAt(f, i, n, good, after, item)
    /\ Scan(n, good, after, item) = f[1]

LEMMA ScanReads ==
    ASSUME NEW T, NEW n \in Nat, NEW good, NEW after, NEW item \in [1..n -> T],
           Forward(n, good, after)
    PROVE  \E f : Scanned(f, T, n, good, after, item)
<1> DEFINE at(f, i) == ReadingAt(f, i, n, good, after, item)
           Eq(f) == f = [i \in 1..(n + 1) |-> at(f, i)]
           f == CHOOSE f : Eq(f)
<1>1. PICK g \in [1..(n + 1) -> Readings(T)] :
         \A i \in 1..(n + 1) : ScansAt(g, i, n, good, after, item)
    BY ScanExists
<1>2. Eq(g)
    <2>1. ASSUME NEW i \in 1..(n + 1) PROVE g[i] = at(g, i)
        BY <1>1 DEF ScansAt
    <2> HIDE DEF at
    <2> QED BY <2>1
<1>3. Eq(f)
    <2> HIDE DEF Eq
    <2> QED BY <1>2
<1>4. Scan(n, good, after, item) = f[1]
    BY DEF Scan, ReadingAt
<1> HIDE DEF f
<1>5. ASSUME NEW i \in 1..(n + 1) PROVE f[i] = at(f, i)
    <2> HIDE DEF at
    <2> QED BY <1>3
<1> DEFINE S == {k \in 0..n : \A i \in (k + 1)..(n + 1) : f[i] \in Readings(T)}
<1>6. ASSUME NEW k \in 1..(n + 1), \A i \in (k + 1)..(n + 1) : f[i] \in Readings(T)
      PROVE  \A i \in ((k - 1) + 1)..(n + 1) : f[i] \in Readings(T)
    <2>1. f[k] \in Readings(T)
        BY <1>5, <1>6, ReadingAtIsReading
    <2>2. \A i \in ((k - 1) + 1)..(n + 1) : i = k \/ i \in (k + 1)..(n + 1)
        OBVIOUS
    <2> QED BY <1>6, <2>1, <2>2
<1>7. n \in S
    <2>1. n + 1 \in 1..(n + 1) /\ \A i \in ((n + 1) + 1)..(n + 1) : f[i] \in Readings(T)
        OBVIOUS
    <2>2. \A i \in (((n + 1) - 1) + 1)..(n + 1) : f[i] \in Readings(T)
        BY <2>1, <1>6
    <2> QED BY <2>2
<1>8. ASSUME NEW k \in 1..n, k \in S PROVE k - 1 \in S
    BY <1>6, <1>8
<1>9. \A i \in 1..(n + 1) : f[i] \in Readings(T)
    <2> HIDE DEF S
    <2>1. 0..n \subseteq S
        BY <1>7, <1>8, Downwards
    <2>2. 0 \in S
        BY <2>1
    <2> QED BY <2>2 DEF S
<1>10. f \in [1..(n + 1) -> Readings(T)]
    <2> HIDE DEF at
    <2> QED BY <1>3, <1>9
<1> QED
    BY <1>4, <1>5, <1>10 DEF ScansAt, Scanned

\* A way through the elements on which each that is read is good; off counts the
\* elements before it, so that it reads those at off[0] + 1, off[1] + 1 and so on.
Passes(off, m, n, good, after) ==
    /\ off[m] = n
    /\ \A k \in 1..m :
          /\ off[k - 1] + 1 \in 1..n /\ good[off[k - 1] + 1]
          /\ after[off[k - 1] + 1] = off[k] + 1

Leads(off, m, n, good, after) ==
    m \in Nat /\ off \in [0..m -> Nat] /\ off[0] = 0 /\ Passes(off, m, n, good, after)

\* What a scan is given.
Scannable(T, n, good, after, item) ==
    n \in Nat /\ item \in [1..n -> T] /\ Forward(n, good, after)

LEMMA ConsTabulated ==
    ASSUME NEW T, NEW m \in Nat, NEW a \in [1..m -> T], NEW k \in 1..m
    PROVE  <<a[k]>> \o [j \in 1..(m - k) |-> a[k + j]]
              = [j \in 1..(m - (k - 1)) |-> a[(k - 1) + j]]
<1> DEFINE s == [j \in 1..(m - k) |-> a[k + j]]
           t == [j \in 1..(m - (k - 1)) |-> a[(k - 1) + j]]
           u == <<a[k]>> \o s
<1>1. s \in Seq(T) /\ Len(s) = m - k
    OBVIOUS
<1>2. t \in Seq(T) /\ Len(t) = (m - k) + 1
    OBVIOUS
<1>3. \A j \in 1..(m - k) : s[j] = a[k + j]
    OBVIOUS
<1>4. \A j \in 1..((m - k) + 1) : t[j] = a[(k - 1) + j]
    OBVIOUS
<1> HIDE DEF s, t
<1>5. a[k] \in T
    OBVIOUS
<1>6. u \in Seq(T) /\ Len(u) = (m - k) + 1
    BY <1>1, <1>5
<1>7. u[1] = a[k] /\ \A j \in 2..((m - k) + 1) : u[j] = s[j - 1]
    BY <1>1, <1>5
<1> HIDE DEF u
<1>8. ASSUME NEW j \in 1..((m - k) + 1) PROVE u[j] = t[j]
    <2>1. CASE j = 1
        <3>1. (k - 1) + 1 = k
            OBVIOUS
        <3> QED BY <2>1, <3>1, <1>4, <1>7
    <2>2. CASE j # 1
        <3>1. j \in 2..((m - k) + 1) /\ j - 1 \in 1..(m - k) /\ k + (j - 1) = (k - 1) + j
            BY <2>2
        <3>2. u[j] = s[j - 1] /\ s[j - 1] = a[k + (j - 1)] /\ t[j] = a[(k - 1) + j]
            BY <3>1, <1>3, <1>4, <1>7
        <3> QED BY <3>1, <3>2
    <2> QED BY <2>1, <2>2
<1>9. u = t
    BY <1>2, <1>6, <1>8, SeqEqual
<1> QED
    BY <1>9 DEF s, t, u

\* What a way through all elements reads.
Picked(item, off, m) == [k \in 1..m |-> item[off[k - 1] + 1]]

LEMMA ScanOfPath ==
    ASSUME NEW T, NEW n, NEW m, NEW good, NEW after, NEW item, NEW off,
           Scannable(T, n, good, after, item), Leads(off, m, n, good, after)
    PROVE  Scan(n, good, after, item) = Read(Picked(item, off, m))
<1>0. /\ m \in Nat /\ off \in [0..m -> Nat] /\ off[0] = 0
      /\ Passes(off, m, n, good, after)
    BY DEF Leads
<1>a. n \in Nat /\ item \in [1..n -> T] /\ Forward(n, good, after)
    BY DEF Scannable
<1> USE <1>0, <1>a
<1>1. PICK f :
         /\ f \in [1..(n + 1) -> Readings(T)]
         /\ \A i \in 1..(n + 1) : ScansAt(f, i, n, good, after, item)
         /\ Scan(n, good, after, item) = f[1]
    <2>1. PICK f : Scanned(f, T, n, good, after, item)
        BY ScanReads
    <2> QED BY <2>1 DEF Scanned
<1> DEFINE a == [k \in 1..m |-> item[off[k - 1] + 1]]
           rest(k) == [j \in 1..(m - k) |-> a[k + j]]
           S == {k \in 0..m : f[off[k] + 1] = Read(rest(k))}
<1>2. a \in [1..m -> T]
    <2>1. \A k \in 1..m : off[k - 1] + 1 \in 1..n
        BY <1>0 DEF Passes
    <2> QED BY <2>1
<1>3. \A k \in 1..m : a[k] = item[off[k - 1] + 1]
    OBVIOUS
<1>4. m \in S
    <2>1. rest(m) = <<>>
        OBVIOUS
    <2>2. off[m] + 1 = n + 1 /\ n + 1 \in 1..(n + 1) /\ n + 1 > n
        BY <1>0 DEF Passes
    <2>3. f[n + 1] = Read(<<>>)
        BY <1>1, <2>2 DEF ScansAt, ReadingAt
    <2> HIDE DEF rest
    <2> QED BY <2>1, <2>2, <2>3
<1>5. ASSUME NEW k \in 1..m, k \in S PROVE k - 1 \in S
    <2> DEFINE i == off[k - 1] + 1
    <2>1. k - 1 \in 0..m /\ k \in 0..m
        OBVIOUS
    <2>2. i \in 1..n /\ good[i] /\ after[i] = off[k] + 1
        BY <1>0 DEF Passes
    <2>3. f[after[i]] = Read(rest(k))
        <3> HIDE DEF rest, i
        <3> QED BY <1>5, <2>2
    <2>4. f[i] = Read(<<item[i]>> \o rest(k))
        <3> HIDE DEF rest, i
        <3>1. i \in 1..(n + 1) /\ ~(i > n)
            BY <2>2
        <3>2. f[after[i]].ok = TRUE /\ f[after[i]].items = rest(k)
            BY <2>3, ReadFields
        <3> QED BY <2>2, <3>1, <3>2, <1>1 DEF ScansAt, ReadingAt
    <2>5. item[i] = a[k]
        BY <1>3
    <2>6. <<a[k]>> \o rest(k) = rest(k - 1)
        <3> HIDE DEF a
        <3> QED BY <1>2, ConsTabulated
    <2>7. f[i] = Read(rest(k - 1))
        <3> HIDE DEF rest, i, a
        <3> QED BY <2>4, <2>5, <2>6
    <2> HIDE DEF rest
    <2> QED BY <2>1, <2>7
<1>6. 0 \in S
    <2> HIDE DEF S
    <2>1. 0..m \subseteq S
        BY <1>4, <1>5, Downwards
    <2> QED BY <2>1
<1>7. rest(0) = a
    <2> HIDE DEF a
    <2> QED BY <1>2
<1>8. f[1] = Read(a)
    <2> HIDE DEF rest, a
    <2>1. f[off[0] + 1] = Read(rest(0))
        BY <1>6
    <2> QED BY <2>1, <1>0, <1>7
<1> QED
    <2> HIDE DEF a
    <2>1. Scan(n, good, after, item) = Read(a)
        BY <1>1, <1>8
    <2>2. a = Picked(item, off, m)
        BY DEF a, Picked
    <2> QED BY <2>1, <2>2

\* One element on the way that is not good, and nothing is read.
Halts(off, m, n, good, after) ==
    /\ m \in Nat /\ off \in [0..m -> Nat] /\ off[0] = 0
    /\ \A k \in 1..m : off[k - 1] + 1 \in 1..n /\ after[off[k - 1] + 1] = off[k] + 1
    /\ off[m] + 1 \in 1..n /\ ~good[off[m] + 1]

LEMMA ScanStops ==
    ASSUME NEW T, NEW n, NEW m, NEW good, NEW after, NEW item, NEW off,
           Scannable(T, n, good, after, item), Halts(off, m, n, good, after)
    PROVE  Scan(n, good, after, item).ok = FALSE
<1>0. /\ m \in Nat /\ off \in [0..m -> Nat] /\ off[0] = 0
      /\ \A k \in 1..m : off[k - 1] + 1 \in 1..n /\ after[off[k - 1] + 1] = off[k] + 1
      /\ off[m] + 1 \in 1..n /\ ~good[off[m] + 1]
    BY DEF Halts
<1>a. n \in Nat /\ item \in [1..n -> T] /\ Forward(n, good, after)
    BY DEF Scannable
<1> USE <1>0, <1>a
<1>1. PICK f :
         /\ f \in [1..(n + 1) -> Readings(T)]
         /\ \A i \in 1..(n + 1) : ScansAt(f, i, n, good, after, item)
         /\ Scan(n, good, after, item) = f[1]
    <2>1. PICK f : Scanned(f, T, n, good, after, item)
        BY ScanReads
    <2> QED BY <2>1 DEF Scanned
<1> DEFINE S == {k \in 0..m : f[off[k] + 1].ok = FALSE}
<1>2. ASSUME NEW i \in 1..n, ~good[i] \/ f[after[i]].ok = FALSE PROVE f[i].ok = FALSE
    <2>1. i \in 1..(n + 1) /\ ~(i > n)
        OBVIOUS
    <2>2. f[i] = Unreadable
        BY <1>1, <1>2, <2>1 DEF ScansAt, ReadingAt
    <2> QED BY <2>2, ReadFields
<1>3. m \in S
    <2> HIDE DEF S
    <2>1. PICK i \in 1..n : i = off[m] + 1
        OBVIOUS
    <2>0. ~good[i]
        BY <2>1
    <2>2. f[i].ok = FALSE
        BY <1>2, <2>0
    <2> QED BY <2>1, <2>2 DEF S
<1>4. ASSUME NEW k \in 1..m, k \in S PROVE k - 1 \in S
    <2>0. k - 1 \in 0..m /\ k \in 1..m
        OBVIOUS
    <2>1. k - 1 \in 0..m /\ off[k - 1] + 1 \in 1..n /\ after[off[k - 1] + 1] = off[k] + 1
        <3> HIDE DEF S
        <3> QED BY <2>0
    <2>2. f[after[off[k - 1] + 1]].ok = FALSE
        BY <1>4, <2>1
    <2>3. f[off[k - 1] + 1].ok = FALSE
        BY <2>1, <2>2, <1>2
    <2> QED BY <2>1, <2>3
<1>5. 0 \in S
    <2> HIDE DEF S
    <2>1. 0..m \subseteq S
        BY <1>3, <1>4, Downwards
    <2> QED BY <2>1
<1>6. f[0 + 1].ok = FALSE
    BY <1>5
<1> QED
    BY <1>1, <1>6

\* What is read is read on some way through all elements.
LEMMA PathOfScan ==
    ASSUME NEW T, NEW n, NEW good, NEW after, NEW item,
           Scannable(T, n, good, after, item), Scan(n, good, after, item).ok
    PROVE  \E off, m : Leads(off, m, n, good, after)
<1>a. n \in Nat /\ item \in [1..n -> T] /\ Forward(n, good, after)
    BY DEF Scannable
<1> USE <1>a
<1>1. PICK f :
         /\ f \in [1..(n + 1) -> Readings(T)]
         /\ \A i \in 1..(n + 1) : ScansAt(f, i, n, good, after, item)
         /\ Scan(n, good, after, item) = f[1]
    <2>1. PICK f : Scanned(f, T, n, good, after, item)
        BY ScanReads
    <2> QED BY <2>1 DEF Scanned
<1> DEFINE From(i) == \E m \in Nat : \E off \in [0..m -> Nat] :
                        off[0] = i - 1 /\ Passes(off, m, n, good, after)
           S == {k \in 0..n : \A i \in (k + 1)..(n + 1) : f[i].ok => From(i)}
<1>2. From(n + 1)
    <2> DEFINE off == [k \in 0..0 |-> n]
    <2>1. off \in [0..0 -> Nat] /\ off[0] = (n + 1) - 1
        OBVIOUS
    <2>2. Passes(off, 0, n, good, after)
        BY DEF Passes
    <2> HIDE DEF off
    <2> QED BY <2>1, <2>2
<1>3. n \in S
    <2>1. \A i \in (n + 1)..(n + 1) : i = n + 1
        OBVIOUS
    <2> HIDE DEF From
    <2> QED BY <2>1, <1>2
<1>4. ASSUME NEW i \in 1..n, f[i].ok,
             after[i] \in (i + 1)..(n + 1) /\ f[after[i]].ok => From(after[i])
      PROVE  From(i)
    <2>1. good[i] /\ after[i] \in (i + 1)..(n + 1) /\ f[after[i]].ok
        <3>1. i \in 1..(n + 1) /\ ~(i > n) /\ f[i] # Unreadable
            BY <1>4, ReadFields
        <3>2. good[i] /\ f[after[i]].ok
            BY <1>1, <3>1 DEF ScansAt, ReadingAt
        <3> QED BY <3>2 DEF Forward
    <2>0. PICK m \in Nat : \E o \in [0..m -> Nat] :
             o[0] = after[i] - 1 /\ Passes(o, m, n, good, after)
        BY <2>1, <1>4
    <2>2. PICK o \in [0..m -> Nat] : o[0] = after[i] - 1 /\ Passes(o, m, n, good, after)
        BY <2>0
    <2> DEFINE off == [k \in 0..(m + 1) |-> IF k = 0 THEN i - 1 ELSE o[k - 1]]
    <2>3. off \in [0..(m + 1) -> Nat] /\ off[0] = i - 1
        OBVIOUS
    <2>4. \A k \in 1..(m + 1) : off[k] = o[k - 1]
        OBVIOUS
    <2> HIDE DEF off
    <2>5. off[m + 1] = n
        BY <2>2, <2>4 DEF Passes
    <2>6. ASSUME NEW k \in 1..(m + 1)
          PROVE  /\ off[k - 1] + 1 \in 1..n /\ good[off[k - 1] + 1]
                 /\ after[off[k - 1] + 1] = off[k] + 1
        <3>1. CASE k = 1
            <4>1. off[k - 1] + 1 = i /\ off[k] + 1 = after[i]
                BY <3>1, <2>1, <2>2, <2>3, <2>4
            <4> QED BY <4>1, <2>1
        <3>2. CASE k # 1
            <4>1. PICK j \in 1..m : j = k - 1
                BY <3>2
            <4>2. off[k - 1] = o[j - 1] /\ off[k] = o[j]
                BY <4>1, <2>4
            <4> QED BY <4>2, <2>2 DEF Passes
        <3> QED BY <3>1, <3>2
    <2>7. Passes(off, m + 1, n, good, after) /\ m + 1 \in Nat
        BY <2>5, <2>6 DEF Passes
    <2> QED BY <2>3, <2>7
<1>5. ASSUME NEW k \in 1..n, k \in S PROVE k - 1 \in S
    <2> HIDE DEF From
    <2>1. f[k].ok => From(k)
        <3>1. \A i \in (k + 1)..(n + 1) : f[i].ok => From(i)
            BY <1>5
        <3> QED BY <3>1, <1>4
    <2>2. \A i \in ((k - 1) + 1)..(n + 1) : i = k \/ i \in (k + 1)..(n + 1)
        OBVIOUS
    <2>3. k - 1 \in 0..n
        OBVIOUS
    <2> QED BY <2>1, <2>2, <2>3, <1>5
<1>6. 0 \in S
    <2> HIDE DEF S
    <2>1. 0..n \subseteq S
        BY <1>3, <1>5, Downwards
    <2> QED BY <2>1
<1>7. From(1)
    <2> HIDE DEF From
    <2>1. 1 \in (0 + 1)..(n + 1) /\ f[1].ok
        BY <1>1
    <2> QED BY <2>1, <1>6
<1>8. 1 - 1 = 0
    OBVIOUS
<1> QED
    BY <1>7, <1>8 DEF Leads
=============================================================================

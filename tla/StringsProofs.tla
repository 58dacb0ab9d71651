--------------------------- MODULE StringsProofs ---------------------------
(***************************************************************************)
(* Proofs about strings, for all characters, numbers of escapes and        *)
(* lengths.                                                                *)
(***************************************************************************)
EXTENDS Strings, Induction

AnyUnit == [as: {"raw", "short", "hex"}, code: Int]

LEMMA UnitsAreUnits == Units \subseteq AnyUnit
<1>1. Character \subseteq Int /\ Code \subseteq Int
    BY CharacterAssumption, SMT
<1>2. Escaped \cup {47, 120} \subseteq Int
    BY DEF Escaped
<1>3. [as: {"raw"}, code: Character \ {34, 92}] \subseteq AnyUnit
    BY <1>1 DEF AnyUnit
<1>4. [as: {"short"}, code: Escaped \cup {47, 120}] \subseteq AnyUnit
    BY <1>2 DEF AnyUnit
<1>5. [as: {"hex"}, code: Code] \subseteq AnyUnit
    BY <1>1 DEF AnyUnit
<1> QED
    BY <1>3, <1>4, <1>5 DEF Units

LEMMA UnitFields ==
    ASSUME NEW as, NEW code
    PROVE  Unit(as, code).as = as /\ Unit(as, code).code = code
BY DEF Unit

-----------------------------------------------------------------------------
(* One unit, or a pair. *)

Goods(us) == [i \in 1..Len(us) |-> Good(us, i)]
Afters(us) == [i \in 1..Len(us) |-> After(us, i)]
Chars(us) == [i \in 1..Len(us) |-> Char(us, i)]

LEMMA ReadStringIsScan ==
    ASSUME NEW us
    PROVE  ReadString(us) = Scan(Len(us), Goods(us), Afters(us), Chars(us))
BY DEF ReadString, Goods, Afters, Chars

\* What is read after any unit is behind it and in the string.
LEMMA StringForward ==
    ASSUME NEW us \in Seq(AnyUnit)
    PROVE  Scannable(Int, Len(us), Goods(us), Afters(us), Chars(us))
<1>1. ASSUME NEW i \in 1..Len(us)
      PROVE  /\ Good(us, i) \in BOOLEAN /\ After(us, i) \in (i + 1)..(Len(us) + 1)
             /\ Char(us, i) \in Int
    <2>1. Pair(us, i) \in BOOLEAN /\ (Pair(us, i) => i + 1 \in 1..Len(us))
        BY DEF Pair
    <2>2. us[i] \in AnyUnit /\ (Pair(us, i) => us[i + 1] \in AnyUnit)
        BY <2>1
    <2>3. us[i].as \in {"raw", "short", "hex"} /\ us[i].code \in Int
        BY <2>2 DEF AnyUnit
    <2>4. Pair(us, i) => us[i + 1].code \in Int
        BY <2>2 DEF AnyUnit
    <2>5. Char(us, i) \in Int
        <3>1. ASSUME NEW h \in Int, NEW l \in Int PROVE Paired(h, l) \in Int
            BY SMT DEF Paired
        <3> QED BY <2>3, <2>4, <3>1 DEF Char
    <2>6. After(us, i) \in (i + 1)..(Len(us) + 1)
        BY <2>1 DEF After
    <2>7. Good(us, i) \in BOOLEAN
        <3>1. High(us[i]) \in BOOLEAN /\ Low(us[i]) \in BOOLEAN
            BY <2>3, SMT DEF High, Low, Surrogate
        <3> QED BY <2>1, <2>3, <3>1 DEF Good
    <2> QED BY <2>5, <2>6, <2>7
<1>2. Chars(us) \in [1..Len(us) -> Int]
    BY <1>1 DEF Chars
<1>3. Forward(Len(us), Goods(us), Afters(us))
    BY <1>1 DEF Forward, Goods, Afters
<1>4. Len(us) \in Nat
    OBVIOUS
<1> QED
    BY <1>2, <1>3, <1>4 DEF Scannable

\* The numbers of a pair, and the character that they stand for.
LEMMA PairNumbers ==
    ASSUME NEW c \in Character, Wide(c)
    PROVE  \E h, l \in Int : /\ Surrogates(c) = <<Unit("hex", h), Unit("hex", l)>>
                             /\ Surrogate(h, 0) /\ Surrogate(l, 1) /\ Paired(h, l) = c
<1>0. c \in Int /\ c >= 65536 /\ c <= 1114111
    BY CharacterAssumption, SMT DEF Wide
<1>1. PICK d \in Int : d = c - 65536
    BY <1>0, SMT
<1>2. d >= 0 /\ d <= 1048575
    BY <1>0, <1>1, SMT
<1>3. PICK q \in Int : q = d \div 1024
    OBVIOUS
<1>4. PICK r \in Int : r = d % 1024
    OBVIOUS
<1>5. d = 1024 * q + r /\ r >= 0 /\ r <= 1023
    BY <1>3, <1>4, SMT
<1>6. q >= 0 /\ q <= 1023
    BY <1>2, <1>5, SMT
<1>7. PICK h \in Int : h = 55296 + q
    OBVIOUS
<1>8. PICK l \in Int : l = 56320 + r
    OBVIOUS
<1>9. Paired(h, l) = c
    BY <1>0, <1>1, <1>5, <1>7, <1>8, SMT DEF Paired
<1>10. Surrogate(h, 0) /\ Surrogate(l, 1)
    BY <1>5, <1>6, <1>7, <1>8, SMT DEF Surrogate
<1>11. Surrogates(c) = <<Unit("hex", h), Unit("hex", l)>>
    BY <1>1, <1>3, <1>4, <1>7, <1>8, SMT DEF Surrogates
<1> QED
    BY <1>9, <1>10, <1>11

LEMMA NumbersOfPair ==
    ASSUME NEW h \in Int, NEW l \in Int, Surrogate(h, 0), Surrogate(l, 1)
    PROVE  /\ Paired(h, l) \in Int /\ Wide(Paired(h, l))
           /\ Surrogates(Paired(h, l)) = <<Unit("hex", h), Unit("hex", l)>>
<1>1. PICK q \in Int : q = h - 55296
    OBVIOUS
<1>2. PICK r \in Int : r = l - 56320
    OBVIOUS
<1>3. q >= 0 /\ q <= 1023 /\ r >= 0 /\ r <= 1023
    BY <1>1, <1>2, SMT DEF Surrogate
<1>4. PICK d \in Int : d = 1024 * q + r
    OBVIOUS
<1>5. Paired(h, l) = 65536 + d
    BY <1>1, <1>2, <1>4, SMT DEF Paired
<1>6. d \div 1024 = q /\ d % 1024 = r
    BY <1>3, <1>4, SMT
<1>7. d >= 0 /\ d <= 1048575
    BY <1>3, <1>4, SMT
<1>8. h = 55296 + q /\ l = 56320 + r
    BY <1>1, <1>2, SMT
<1>9. PICK c \in Int : c = 65536 + d
    OBVIOUS
<1>10. c - 65536 = d /\ Wide(c)
    BY <1>7, <1>9, SMT DEF Wide
<1>11. Surrogates(c) = <<Unit("hex", h), Unit("hex", l)>>
    BY <1>6, <1>8, <1>10, SMT DEF Surrogates
<1>12. Paired(h, l) = c
    BY <1>5, <1>9, SMT
<1> QED
    BY <1>10, <1>11, <1>12

-----------------------------------------------------------------------------
(* A character, and its forms. *)

\* The forms of a character are one unit that is read alone, or a pair.
ReadAlone(x, c) ==
    /\ Len(x) = 1 /\ x[1].code = c /\ ~High(x[1]) /\ ~Low(x[1])
    /\ \/ x[1].as = "raw" /\ c >= 32
       \/ x[1].as = "short" /\ c \in Escaped \cup {47}
       \/ x[1].as = "hex"
ReadAsPair(x, c) ==
    Len(x) = 2 /\ High(x[1]) /\ Low(x[2]) /\ Paired(x[1].code, x[2].code) = c

LEMMA FormShapes ==
    ASSUME NEW c \in Character, NEW x \in Forms(c)
    PROVE  x \in Seq(AnyUnit) /\ (ReadAlone(x, c) \/ ReadAsPair(x, c))
<1>1. c \in Int /\ ~Surrogate(c, 0) /\ ~Surrogate(c, 1)
    BY CharacterAssumption, SMT DEF Surrogate
<1>2. ASSUME NEW as \in {"raw", "short", "hex"}
      PROVE  <<Unit(as, c)>> \in Seq(AnyUnit)
    <2>1. Unit(as, c) \in AnyUnit
        BY <1>1 DEF Unit, AnyUnit
    <2> QED BY <2>1, Singleton
<1>3. CASE x = <<Unit("raw", c)>> /\ c >= 32
    BY <1>2, <1>3, UnitFields DEF High, Low, ReadAlone
<1>4. CASE x = <<Unit("short", c)>> /\ c \in Escaped \cup {47}
    BY <1>2, <1>4, UnitFields DEF High, Low, ReadAlone
<1>5. CASE x = <<Unit("hex", c)>>
    BY <1>1, <1>2, <1>5, UnitFields DEF High, Low, ReadAlone
<1>6. ASSUME Wide(c), x = Surrogates(c)
      PROVE  x \in Seq(AnyUnit) /\ ReadAsPair(x, c)
    <2>1. PICK h, l \in Int : /\ x = <<Unit("hex", h), Unit("hex", l)>>
                              /\ Surrogate(h, 0) /\ Surrogate(l, 1) /\ Paired(h, l) = c
        BY <1>6, PairNumbers
    <2>2. Unit("hex", h) \in AnyUnit /\ Unit("hex", l) \in AnyUnit
        BY DEF Unit, AnyUnit
    <2>3. x \in Seq(AnyUnit) /\ Len(x) = 2 /\ x[1] = Unit("hex", h) /\ x[2] = Unit("hex", l)
        BY <2>1, <2>2, Couple
    <2> QED BY <2>1, <2>3, UnitFields DEF High, Low, ReadAsPair
<1> QED
    BY <1>3, <1>4, <1>5, <1>6 DEF Forms

\* Where a form of a character stands, the character is read, and no more.
LEMMA FormReads ==
    ASSUME NEW c \in Character, NEW x \in Forms(c), NEW us, NEW i \in Nat,
           Len(us) \in Nat, i + Len(x) <= Len(us) + 1,
           us[i] = x[1], Len(x) = 2 => us[i + 1] = x[2]
    PROVE  Good(us, i) /\ After(us, i) = i + Len(x) /\ Char(us, i) = c
<1>1. CASE ReadAlone(x, c)
    <2>1. us[i].code = c /\ ~High(us[i]) /\ ~Low(us[i])
        BY <1>1 DEF ReadAlone
    <2>2. ~Pair(us, i)
        BY <2>1 DEF Pair
    <2>3. \/ us[i].as = "raw" /\ us[i].code >= 32
          \/ us[i].as = "short" /\ us[i].code \in Escaped \cup {47}
          \/ us[i].as = "hex"
        BY <1>1 DEF ReadAlone
    <2>4. Good(us, i)
        <3>1. CASE us[i].as = "raw" /\ us[i].code >= 32
            BY <3>1 DEF Good
        <3>2. CASE us[i].as = "short" /\ us[i].code \in Escaped \cup {47}
            BY <3>2 DEF Good
        <3>3. CASE us[i].as = "hex"
            BY <3>3, <2>1 DEF Good
        <3> QED BY <2>3, <3>1, <3>2, <3>3
    <2> QED BY <1>1, <2>1, <2>2, <2>4 DEF After, Char, ReadAlone
<1>2. CASE ReadAsPair(x, c)
    <2>1. High(x[1]) /\ Low(x[2]) /\ Paired(x[1].code, x[2].code) = c
        BY <1>2 DEF ReadAsPair
    <2>2. i < Len(us) /\ Len(x) = 2 /\ us[i + 1] = x[2]
        BY <1>2 DEF ReadAsPair
    <2>3. Pair(us, i) /\ us[i].as = "hex"
        BY <2>1, <2>2 DEF Pair, High
    <2>4. Good(us, i)
        BY <2>3 DEF Good
    <2> QED BY <2>1, <2>2, <2>3, <2>4 DEF After, Char
<1> QED
    BY <1>1, <1>2, FormShapes

\* The form in which a character is written.
LEMMA WrittenForm ==
    ASSUME NEW c \in Character
    PROVE  <<WriteChar(c)>> \in Forms(c) /\ WriteChar(c) \in AnyUnit
<1>1. c \in Int
    BY CharacterAssumption, SMT
<1>2. CASE c \in Escaped
    BY <1>1, <1>2 DEF WriteChar, Forms, Unit, AnyUnit
<1>3. CASE c \notin Escaped /\ Controls(c)
    <2>1. ~Wide(c)
        BY <1>1, <1>3, SMT DEF Controls, Wide
    <2>2. WriteChar(c) = Unit("hex", c)
        BY <1>3 DEF WriteChar
    <2>3. Unit("hex", c) \in AnyUnit
        BY <1>1 DEF Unit, AnyUnit
    <2> QED BY <2>1, <2>2, <2>3 DEF Forms
<1>4. CASE c \notin Escaped /\ ~Controls(c)
    <2>1. c >= 32 /\ c \notin {34, 92}
        BY <1>1, <1>4 DEF Controls, Escaped
    <2>2. WriteChar(c) = Unit("raw", c)
        BY <1>4 DEF WriteChar
    <2>3. Unit("raw", c) \in AnyUnit
        BY <1>1 DEF Unit, AnyUnit
    <2> QED BY <2>1, <2>2, <2>3 DEF Forms
<1> QED
    BY <1>2, <1>3, <1>4

\* The slice of a string that reads as a character is a form of it.
LEMMA GoodForm ==
    ASSUME NEW us \in Seq(Units), NEW i \in 1..Len(us), Good(us, i)
    PROVE  SubSeq(us, i, After(us, i) - 1) \in Forms(Char(us, i))
<1>1. us[i] \in Units /\ us[i] \in AnyUnit
    BY UnitsAreUnits
<1>2. us[i].as \in {"raw", "short", "hex"} /\ us[i].code \in Int
      /\ us[i] = Unit(us[i].as, us[i].code)
    BY <1>1 DEF AnyUnit, Unit
<1>3. CASE Pair(us, i)
    <2>1. i + 1 \in 1..Len(us)
        BY <1>3 DEF Pair
    <2>2. us[i + 1] \in AnyUnit
        BY <2>1, UnitsAreUnits
    <2>3. PICK h \in Int : h = us[i].code
        BY <1>2
    <2>4. PICK l \in Int : l = us[i + 1].code
        BY <2>2 DEF AnyUnit
    <2>5. us[i] = Unit("hex", h) /\ us[i + 1] = Unit("hex", l)
        BY <1>2, <1>3, <2>2, <2>3, <2>4 DEF Pair, High, Low, AnyUnit, Unit
    <2>6. Surrogate(h, 0) /\ Surrogate(l, 1)
        BY <1>3, <2>3, <2>4 DEF Pair, High, Low
    <2>7. PICK c : c = Paired(h, l)
        OBVIOUS
    <2>8. Wide(c) /\ Surrogates(c) = <<Unit("hex", h), Unit("hex", l)>>
        BY <2>6, <2>7, NumbersOfPair
    <2>9. <<Unit("hex", h), Unit("hex", l)>> \in Forms(c)
        BY <2>8 DEF Forms
    <2>10. SubSeq(us, i, i + 1) = <<us[i], us[i + 1]>>
        BY <2>1, TwoElements
    <2>11. After(us, i) - 1 = i + 1 /\ Char(us, i) = c
        BY <1>3, <2>3, <2>4, <2>7 DEF After, Char
    <2> QED BY <2>5, <2>9, <2>10, <2>11
<1>4. CASE ~Pair(us, i)
    <2>1. PICK c \in Int : c = us[i].code
        BY <1>2
    <2>2. After(us, i) - 1 = i /\ Char(us, i) = c
        BY <1>4, <2>1 DEF After, Char
    <2>3. SubSeq(us, i, i) = <<us[i]>>
        BY OneElement
    <2>4. CASE us[i].as = "raw"
        <3>1. c >= 32
            BY <2>1, <2>4 DEF Good
        <3>2. c \notin {34, 92}
            BY <1>1, <2>1, <2>4 DEF Units
        <3>3. us[i] = Unit("raw", c)
            BY <1>2, <2>1, <2>4
        <3>4. <<Unit("raw", c)>> \in Forms(c)
            BY <3>1, <3>2 DEF Forms
        <3> QED BY <2>2, <2>3, <3>3, <3>4
    <2>5. CASE us[i].as = "short"
        <3>1. c \in Escaped \cup {47}
            BY <2>1, <2>5 DEF Good
        <3>2. us[i] = Unit("short", c)
            BY <1>2, <2>1, <2>5
        <3>3. <<Unit("short", c)>> \in Forms(c)
            BY <3>1 DEF Forms
        <3> QED BY <2>2, <2>3, <3>2, <3>3
    <2>6. CASE us[i].as = "hex"
        <3>1. c \in Code
            BY <1>1, <2>1, <2>6 DEF Units
        <3>2. ~Wide(c)
            BY <3>1, CharacterAssumption, SMT DEF Wide
        <3>3. us[i] = Unit("hex", c)
            BY <1>2, <2>1, <2>6
        <3>4. <<Unit("hex", c)>> \in Forms(c)
            BY <3>2 DEF Forms
        <3> QED BY <2>2, <2>3, <3>3, <3>4
    <2> QED BY <1>2, <2>4, <2>5, <2>6
<1> QED
    BY <1>3, <1>4

-----------------------------------------------------------------------------
(* Texts, and their spellings. *)

LEMMA IsSpelling ==
    ASSUME NEW text, Len(text) \in Nat, NEW fs, DOMAIN fs = 1..Len(text),
           fs = [i \in 1..Len(text) |-> fs[i]], \A i \in 1..Len(text) : fs[i] \in Forms(text[i])
    PROVE  FlattenSeq(fs) \in Spellings(text)
<1> DEFINE all == UNION {Forms(text[i]) : i \in 1..Len(text)}
<1>1. \A i \in 1..Len(text) : fs[i] \in all
    OBVIOUS
<1> HIDE DEF all
<1>2. fs \in [1..Len(text) -> all]
    BY <1>1
<1> QED
    BY <1>2 DEF Spellings, all

LEMMA FormsOfSpelling ==
    ASSUME NEW text, NEW us \in Spellings(text)
    PROVE  \E fs : /\ fs = [i \in 1..Len(text) |-> fs[i]] /\ us = FlattenSeq(fs)
                   /\ \A i \in 1..Len(text) : fs[i] \in Forms(text[i])
<1> DEFINE all == UNION {Forms(text[i]) : i \in 1..Len(text)}
<1>1. PICK fs \in [1..Len(text) -> all] :
         us = FlattenSeq(fs) /\ \A i \in 1..Len(text) : fs[i] \in Forms(text[i])
    BY DEF Spellings
<1> HIDE DEF all
<1>2. fs = [i \in 1..Len(text) |-> fs[i]]
    OBVIOUS
<1> QED
    BY <1>1, <1>2

\* What is written is one of the spellings.
LEMMA WrittenIsSpelling ==
    ASSUME NEW text \in Seq(Character)
    PROVE  [i \in 1..Len(text) |-> WriteChar(text[i])] \in Spellings(text)
<1>1. PICK n \in Nat : n = Len(text)
    OBVIOUS
<1> DEFINE us == [i \in 1..n |-> WriteChar(text[i])]
           fs == [i \in 1..Len(us) |-> <<us[i]>>]
<1>2. \A i \in 1..n : text[i] \in Character
    BY <1>1
<1>3. us \in Seq(AnyUnit) /\ Len(us) = n
    <2>1. us \in [1..n -> AnyUnit]
        BY <1>2, WrittenForm
    <2> HIDE DEF us
    <2> QED BY <2>1, Tabulated
<1>4. FlattenSeq(fs) = us
    <2> HIDE DEF us
    <2> QED BY <1>3, FlattenSingletons
<1>5. \A i \in 1..n : us[i] = WriteChar(text[i])
    OBVIOUS
<1> HIDE DEF us
<1>6. DOMAIN fs = 1..n /\ fs = [i \in 1..n |-> fs[i]]
    BY <1>3
<1>7. ASSUME NEW i \in 1..n PROVE fs[i] \in Forms(text[i])
    <2>1. fs[i] = <<WriteChar(text[i])>>
        BY <1>3, <1>5
    <2> QED BY <2>1, <1>2, WrittenForm
<1> HIDE DEF fs
<1>8. FlattenSeq(fs) \in Spellings(text)
    BY <1>1, <1>6, <1>7, IsSpelling
<1> QED
    BY <1>1, <1>4, <1>8 DEF fs, us

\* A spelling is read as the text: each form at its place is read as its character.
LEMMA SpellingReads ==
    ASSUME NEW text \in Seq(Character), NEW us \in Spellings(text)
    PROVE  ReadString(us) = Read(text)
<1>1. PICK n \in Nat : n = Len(text)
    OBVIOUS
<1>2. PICK fs : /\ fs = [i \in 1..n |-> fs[i]] /\ us = FlattenSeq(fs)
                /\ \A i \in 1..n : fs[i] \in Forms(text[i])
    BY <1>1, FormsOfSpelling
<1>3. \A i \in 1..n : text[i] \in Character
    BY <1>1
<1>4. \A i \in 1..n : fs[i] \in Seq(AnyUnit) /\ (Len(fs[i]) = 1 \/ Len(fs[i]) = 2)
    BY <1>2, <1>3, FormShapes DEF ReadAlone, ReadAsPair
<1>5. fs \in [1..n -> Seq(AnyUnit)]
    BY <1>2, <1>4
<1>6. us \in Seq(AnyUnit)
    BY <1>2, <1>5, FlattenOffsets
<1>0. PICK off : Offsets(off, n, fs, us)
    BY <1>2, <1>5, FlattenOffsets
<1>7. /\ off \in [0..n -> Nat] /\ off[0] = 0 /\ off[n] = Len(us)
      /\ \A k \in 1..n :
            /\ off[k] = off[k - 1] + Len(fs[k]) /\ off[k] <= off[n]
            /\ \A j \in 1..Len(fs[k]) : us[off[k - 1] + j] = fs[k][j]
    BY <1>0 DEF Offsets
<1>8. ASSUME NEW k \in 1..n
      PROVE  LET i == off[k - 1] + 1
             IN  i \in 1..Len(us) /\ Good(us, i) /\ After(us, i) = off[k] + 1 /\ Char(us, i) = text[k]
    <2>0. k - 1 \in 0..n
        OBVIOUS
    <2>1. PICK a \in Nat : a = off[k - 1]
        BY <1>7, <2>0
    <2>2. PICK b \in Nat : b = off[k]
        BY <1>7
    <2>3. PICK m \in Nat : m = Len(us)
        BY <1>6
    <2>4. PICK w \in {1, 2} : w = Len(fs[k])
        BY <1>4
    <2>5. b = a + w /\ b <= m
        BY <1>7, <2>1, <2>2, <2>3, <2>4
    <2>a. \A j \in 1..w : us[a + j] = fs[k][j]
        BY <1>7, <2>1, <2>4
    <2>6. us[a + 1] = fs[k][1]
        <3>1. 1 \in 1..w
            OBVIOUS
        <3> QED BY <2>a, <3>1
    <2>7. w = 2 => us[(a + 1) + 1] = fs[k][2]
        <3> SUFFICES ASSUME w = 2 PROVE us[(a + 1) + 1] = fs[k][2]
            OBVIOUS
        <3>1. 2 \in 1..w /\ (a + 1) + 1 = a + 2
            OBVIOUS
        <3>2. us[a + 2] = fs[k][2]
            BY <3>1, <2>a
        <3> QED BY <3>1, <3>2
    <2>8. a + 1 \in Nat /\ a + 1 \in 1..m /\ (a + 1) + w <= m + 1 /\ (a + 1) + w = b + 1
        BY <2>5
    <2>9. Good(us, a + 1) /\ After(us, a + 1) = (a + 1) + w /\ Char(us, a + 1) = text[k]
        <3>1. PICK c \in Character : c = text[k]
            BY <1>3
        <3>2. PICK x \in Forms(c) : x = fs[k]
            BY <1>2, <3>1
        <3>3. PICK i \in Nat : i = a + 1
            OBVIOUS
        <3>4. Len(us) \in Nat /\ i + Len(x) <= Len(us) + 1
            BY <2>3, <2>4, <2>8, <3>2, <3>3
        <3>5. us[i] = x[1] /\ (Len(x) = 2 => us[i + 1] = x[2])
            BY <2>4, <2>6, <2>7, <3>2, <3>3
        <3>6. Good(us, i) /\ After(us, i) = i + Len(x) /\ Char(us, i) = c
            BY <3>4, <3>5, FormReads
        <3> QED BY <2>4, <3>1, <3>2, <3>3, <3>6
    <2> QED BY <2>1, <2>2, <2>3, <2>8, <2>9
<1>9. Leads(off, n, Len(us), Goods(us), Afters(us))
    <2>1. ASSUME NEW k \in 1..n
          PROVE  /\ off[k - 1] + 1 \in 1..Len(us) /\ Goods(us)[off[k - 1] + 1]
                 /\ Afters(us)[off[k - 1] + 1] = off[k] + 1
        BY <1>8 DEF Goods, Afters
    <2> QED BY <1>7, <2>1 DEF Leads, Passes
<1>10. ReadString(us) = Read(Picked(Chars(us), off, n))
    <2>1. Scannable(Int, Len(us), Goods(us), Afters(us), Chars(us))
        BY <1>6, StringForward
    <2>2. Scan(Len(us), Goods(us), Afters(us), Chars(us)) = Read(Picked(Chars(us), off, n))
        BY <1>9, <2>1, ScanOfPath
    <2> QED BY <2>2, ReadStringIsScan, Zenon
<1>11. \A k \in 1..n : Chars(us)[off[k - 1] + 1] = text[k]
    BY <1>8 DEF Chars
<1>12. Picked(Chars(us), off, n) = [k \in 1..n |-> text[k]]
    BY <1>11 DEF Picked
<1>13. [k \in 1..n |-> text[k]] = text
    BY <1>1
<1> QED
    BY <1>10, <1>12, <1>13

\* What is read is spelled so: the slices that were read are forms of the characters.
LEMMA ReadIsSpelled ==
    ASSUME NEW us \in Seq(Units), ReadString(us).ok
    PROVE  us \in Spellings(ReadString(us).items)
<1>1. us \in Seq(AnyUnit)
    BY UnitsAreUnits
<1>2. PICK n \in Nat : n = Len(us)
    OBVIOUS
<1>3. Scannable(Int, n, Goods(us), Afters(us), Chars(us))
    BY <1>1, <1>2, StringForward, Zenon
<1>4. ReadString(us) = Scan(n, Goods(us), Afters(us), Chars(us))
    BY <1>2, ReadStringIsScan, Zenon
<1>5. PICK off, m : Leads(off, m, n, Goods(us), Afters(us))
    BY <1>3, <1>4, PathOfScan, Zenon
<1>6. /\ m \in Nat /\ off \in [0..m -> Nat] /\ off[0] = 0
      /\ Passes(off, m, n, Goods(us), Afters(us))
    BY <1>5 DEF Leads
<1> USE <1>6
<1> DEFINE text == Picked(Chars(us), off, m)
           fs == [k \in 1..m |-> SubSeq(us, off[k - 1] + 1, off[k])]
<1>7. ReadString(us) = Read(text)
    BY <1>3, <1>4, <1>5, ScanOfPath
<1>8. ASSUME NEW k \in 1..m
      PROVE  /\ off[k - 1] + 1 \in 1..n /\ Good(us, off[k - 1] + 1)
             /\ After(us, off[k - 1] + 1) = off[k] + 1
             /\ off[k - 1] \in Nat /\ off[k] \in Nat /\ off[k - 1] < off[k] /\ off[k] <= n
             /\ text[k] = Char(us, off[k - 1] + 1)
    <2>1. PICK i \in 1..n : i = off[k - 1] + 1
        BY <1>6 DEF Passes
    <2>2. Goods(us)[i] /\ Afters(us)[i] = off[k] + 1
        BY <1>6, <2>1 DEF Passes
    <2>3. Good(us, i) /\ After(us, i) = off[k] + 1
        BY <1>2, <2>2 DEF Goods, Afters
    <2>4. Afters(us)[i] \in (i + 1)..(n + 1)
        BY <1>3, <2>2 DEF Scannable, Forward
    <2>5. off[k - 1] \in Nat /\ off[k] \in Nat
        <3>1. k - 1 \in 0..m /\ k \in 0..m
            OBVIOUS
        <3>2. off \in [0..m -> Nat]
            BY <1>6
        <3> QED BY <3>1, <3>2
    <2>6. off[k - 1] < off[k] /\ off[k] <= n
        <3>1. PICK a \in Nat : a = off[k - 1]
            BY <2>5
        <3>2. PICK b \in Nat : b = off[k]
            BY <2>5
        <3>3. b + 1 \in (i + 1)..(n + 1) /\ i = a + 1
            BY <2>1, <2>2, <2>4, <3>1, <3>2
        <3>4. a < b /\ b <= n
            BY <3>3
        <3> QED BY <3>1, <3>2, <3>4
    <2>7. text[k] = Char(us, i)
        BY <1>2, <2>1 DEF Chars, Picked
    <2> HIDE DEF text
    <2> QED BY <2>1, <2>3, <2>5, <2>6, <2>7
<1>9. Len(text) = m
    BY DEF Picked
<1>10. \A k \in 1..m : fs[k] = SubSeq(us, off[k - 1] + 1, off[k])
    OBVIOUS
<1>11. DOMAIN fs = 1..m /\ fs = [k \in 1..m |-> fs[k]]
    OBVIOUS
<1> HIDE DEF text, fs
<1>12. ASSUME NEW k \in 1..m
       PROVE  fs[k] \in Forms(text[k]) /\ fs[k] \in Seq(Units)
    <2>1. PICK i \in 1..n : i = off[k - 1] + 1
        BY <1>8
    <2>a. After(us, i) = off[k] + 1 /\ Good(us, i) /\ text[k] = Char(us, i) /\ off[k] \in Nat
        BY <1>8, <2>1
    <2>2. After(us, i) - 1 = off[k] /\ Good(us, i) /\ text[k] = Char(us, i)
        BY <2>a
    <2>3. SubSeq(us, i, off[k]) \in Forms(text[k])
        BY <1>2, <2>2, GoodForm
    <2>4. SubSeq(us, i, off[k]) \in Seq(Units)
        <3>1. i \in Int /\ off[k] \in Int /\ off[k] <= n
            BY <1>8
        <3>2. \A j \in i..off[k] : us[j] \in Units
            <4>1. \A j \in i..off[k] : j \in 1..n
                BY <3>1
            <4>2. \A j \in 1..n : us[j] \in Units
                BY <1>2
            <4> QED BY <4>1, <4>2
        <3> QED BY <3>1, <3>2, SubSeqProperties
    <2> QED BY <1>10, <2>1, <2>3, <2>4
<1>13. FlattenSeq(fs) \in Spellings(text)
    BY <1>9, <1>11, <1>12, IsSpelling
<1>14. FlattenSeq(fs) = us
    <2>1. fs \in [1..m -> Seq(Units)]
        BY <1>11, <1>12
    <2>2. off[m] = Len(us)
        BY <1>2, <1>6 DEF Passes
    <2>3. ASSUME NEW k \in 1..m PROVE off[k - 1] <= off[k] /\ off[k] <= Len(us)
        <3>1. off[k - 1] < off[k] /\ off[k] <= n /\ off[k - 1] \in Nat /\ off[k] \in Nat
            BY <1>8
        <3> QED BY <3>1, <1>2
    <2>4. Slices(fs, m, off, us)
        BY <1>6, <1>10, <2>2, <2>3 DEF Slices
    <2> QED BY <2>1, <2>4, FlattenSlices
<1>15. ReadString(us).items = text
    BY <1>7, ReadFields
<1> QED
    BY <1>13, <1>14, <1>15

\* For all characters and for texts of any length, every spelling of a text is
\* read as that text, among them the one that is written, and what is read of
\* any string is a text that the string spells.
THEOREM StringsAreReadHolds == SpecStrings => []StringsAreRead
<1>1. InitStrings => StringsAreRead
    <2> SUFFICES ASSUME InitStrings PROVE StringsAreRead
        OBVIOUS
    <2>1. PICK n \in 0..MaxUnits :
             \/ given \in [as: {"text"}, of: [1..n -> Character]]
             \/ given \in [as: {"string"}, of: [1..n -> Units]]
        BY DEF InitStrings
    <2>2. n \in Nat
        BY CharacterAssumption
    <2>3. CASE given \in [as: {"text"}, of: [1..n -> Character]]
        <3>1. given.as = "text" /\ given.of \in Seq(Character)
            BY <2>2, <2>3
        <3> QED BY <3>1, WrittenIsSpelling, SpellingReads DEF StringsAreRead
    <2>4. CASE given \in [as: {"string"}, of: [1..n -> Units]]
        <3>1. given.as = "string" /\ given.of \in Seq(Units)
            BY <2>2, <2>4
        <3> QED BY <3>1, ReadIsSpelled DEF StringsAreRead
    <2> QED BY <2>1, <2>3, <2>4
<1>2. StringsAreRead /\ [UNCHANGED given]_given => StringsAreRead'
    BY DEF StringsAreRead
<1> QED
    BY <1>1, <1>2, PTL DEF SpecStrings
=============================================================================

------------------------------ MODULE Strings ------------------------------
(***************************************************************************)
(* How the strings of JSON are read and written.  What stands between the  *)
(* quotes is a sequence of units: a character as it is, the letter of a    *)
(* short escape, or the number of a \u escape.  A unit that is not a       *)
(* number counts as the character that it stands for.                      *)
(***************************************************************************)
EXTENDS Integers, Sequences, SequencesExt, Scan

CONSTANTS
    Character,  \* characters of texts and strings
    Code,       \* numbers of \u escapes
    MaxUnits    \* bound: length of the texts and strings that are tried

\* A character is a Unicode scalar value, and an escape has four hex digits.
ASSUME CharacterAssumption ==
    /\ \A c \in Character : c \in Nat /\ (c <= 55295 \/ (c >= 57344 /\ c <= 1114111))
    /\ \A code \in Code : code \in Nat /\ code <= 65535
    /\ MaxUnits \in Nat

VARIABLE
    given       \* a text to spell, or a string to read

-----------------------------------------------------------------------------
(* Strings: Parser::string and unicode_escape, and string of the writer.     *)

Unit(as, code) == [as |-> as, code |-> code]   \* a raw character, a short or a hex escape
Surrogate(code, n) == 55296 + 1024 * n <= code /\ code <= 56319 + 1024 * n
High(u) == u.as = "hex" /\ Surrogate(u.code, 0)
Low(u) == u.as = "hex" /\ Surrogate(u.code, 1)
Escaped == {34, 92, 8, 12, 10, 13, 9}   \* those that are written as short escapes

PairedOff(h, l) == (h - 55296) * 1024 + (l - 56320)   \* mutant: counts from zero
Paired(h, l) == 65536 + (h - 55296) * 1024 + (l - 56320)

\* A high surrogate needs a low one after it, and both are one character.
Pair(us, i) == High(us[i]) /\ i < Len(us) /\ Low(us[i + 1])
Good(us, i) ==
    \/ us[i].as = "raw" /\ us[i].code >= 32
    \/ us[i].as = "short" /\ us[i].code \in Escaped \cup {47}
    \/ us[i].as = "hex" /\ (Pair(us, i) \/ (~High(us[i]) /\ ~Low(us[i])))
Char(us, i) == IF Pair(us, i) THEN Paired(us[i].code, us[i + 1].code) ELSE us[i].code
After(us, i) == IF Pair(us, i) THEN i + 2 ELSE i + 1

ReadString(us) ==
    LET all == 1..Len(us)
    IN  Scan(Len(us), [i \in all |-> Good(us, i)], [i \in all |-> After(us, i)],
             [i \in all |-> Char(us, i)])

Controls(c) == c < 32 \/ (127 <= c /\ c <= 159)
WriteChar(c) ==
    Unit(IF c \in Escaped THEN "short" ELSE IF Controls(c) THEN "hex" ELSE "raw", c)

-----------------------------------------------------------------------------
(* What is tried, and the reference definition: how a text may be spelled. *)

Units ==
    [as: {"raw"}, code: Character \ {34, 92}]
    \cup [as: {"short"}, code: Escaped \cup {47, 120}]
    \cup [as: {"hex"}, code: Code]

Wide(c) == c >= 65536
Surrogates(c) ==
    <<Unit("hex", 55296 + (c - 65536) \div 1024), Unit("hex", 56320 + ((c - 65536) % 1024))>>
Forms(c) ==
    {u \in {<<Unit("raw", c)>>} : c >= 32 /\ c \notin {34, 92}}
    \cup {u \in {<<Unit("short", c)>>} : c \in Escaped \cup {47}}
    \cup {u \in {<<Unit("hex", c)>>} : ~Wide(c)}
    \cup {u \in {Surrogates(c)} : Wide(c)}
Spellings(text) ==
    LET all == UNION {Forms(text[i]) : i \in 1..Len(text)}
    IN  {FlattenSeq(fs) :
            fs \in {g \in [1..Len(text) -> all] : \A i \in 1..Len(text) : g[i] \in Forms(text[i])}}

InitStrings ==
    \E n \in 0..MaxUnits :
        \/ given \in [as: {"text"}, of: [1..n -> Character]]
        \/ given \in [as: {"string"}, of: [1..n -> Units]]
SpecStrings == InitStrings /\ [][UNCHANGED given]_given

-----------------------------------------------------------------------------
(* Properties. *)

\* Every spelling of a text is read as that text, the one that is written among
\* them, and what is read is spelled so: no lone surrogate, no unknown escape.
StringsAreRead ==
    /\ given.as = "text" =>
          LET text == given.of
          IN  /\ [i \in 1..Len(text) |-> WriteChar(text[i])] \in Spellings(text)
              /\ \A us \in Spellings(text) : ReadString(us) = Read(text)
    /\ given.as = "string" =>
          LET r == ReadString(given.of)
          IN  r.ok => given.of \in Spellings(r.items)
=============================================================================

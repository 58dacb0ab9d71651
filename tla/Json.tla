-------------------------------- MODULE Json --------------------------------
(***************************************************************************)
(* The JSON that requests and answers are written in: the reader and the   *)
(* writer, and what the journal takes for the identity of an operation,    *)
(* the bytes of its parameters that it hashes.  Strings are read and       *)
(* written in module Strings.                                              *)
(*                                                                         *)
(* A text is a sequence of tokens, white space left out.  A number is one  *)
(* token; what is not an integer of 64 bits (1.5) is one that nothing      *)
(* reads.                                                                  *)
(***************************************************************************)
EXTENDS Integers, Sequences, FiniteSets, SequencesExt

CONSTANTS
    MaxDepth,   \* MAX_JSON_DEPTH: how deep values may be nested (128)
    MaxTokens   \* bound: length of the texts that are tried

VARIABLE
    tried       \* what is written or read, and which of these things it is

-----------------------------------------------------------------------------
(* Values.  The content of a string or of a number is a sequence of letters. *)

Value(kind, text, keys, items) == [kind |-> kind, text |-> text, keys |-> keys, items |-> items]
Scalar(kind, text) == Value(kind, text, <<>>, <<>>)
Array(items) == Value("array", <<>>, <<>>, items)
Object(keys, items) == Value("object", <<>>, keys, items)

\* object_field: the first of fields with the same name.
ObjectField(v, key) ==
    IF \E i \in 1..Len(v.keys) : v.keys[i] = key
    THEN <<v.items[SelectInSeq(v.keys, LAMBDA k : k = key)]>> ELSE <<>>

-----------------------------------------------------------------------------
(* The writer: Value::to_json. *)

Mark(m) == Scalar(m, <<>>)   \* one of [ ] { } , :

RECURSIVE ToJson(_)
ToJson(v) ==
    LET element(i) == (IF v.kind = "object" THEN <<Scalar("string", v.keys[i]), Mark(":")>>
                       ELSE <<>>)
                      \o ToJson(v.items[i])
        comma(i) == IF i = 1 THEN <<>> ELSE <<Mark(",")>>
        all == FlattenSeq([i \in 1..Len(v.items) |-> comma(i) \o element(i)])
    IN  CASE v.kind = "array"  -> <<Mark("[")>> \o all \o <<Mark("]")>>
          [] v.kind = "object" -> <<Mark("{")>> \o all \o <<Mark("}")>>
          [] OTHER             -> <<v>>

-----------------------------------------------------------------------------
(* The reader: a recursive descent, which keeps where it is. *)

At(ts, i) == IF i <= Len(ts) THEN ts[i] ELSE Mark("end")
Failed == [ok |-> FALSE]
ReadUpTo(v, next) == [ok |-> TRUE, value |-> v, next |-> next]

TooDeepLate(depth) == depth > MaxDepth   \* mutant: one level more
TooDeep(depth) == depth >= MaxDepth

Closing == "[" :> "]" @@ "{" :> "}"
Empty == "[" :> Array(<<>>) @@ "{" :> Object(<<>>, <<>>)

\* Elements up to the closing mark, from the first or from one after a comma;
\* those of an object have a name.
RECURSIVE ReadValue(_, _, _), Elements(_, _, _, _, _)
ReadValue(ts, i, depth) ==
    LET t == At(ts, i)
    IN  IF TooDeep(depth) THEN Failed
        ELSE CASE t.kind \in {"null", "bool", "number", "string"} -> ReadUpTo(t, i + 1)
               [] t.kind \in DOMAIN Closing ->
                    IF At(ts, i + 1).kind = Closing[t.kind] THEN ReadUpTo(Empty[t.kind], i + 2)
                    ELSE Elements(ts, i + 1, depth, Closing[t.kind], Empty[t.kind])
               [] OTHER -> Failed
Elements(ts, i, depth, close, v) ==
    LET named == v.kind = "object"
        fit == named => At(ts, i).kind = "string" /\ At(ts, i + 1).kind = ":"
        r == ReadValue(ts, IF named THEN i + 2 ELSE i, depth + 1)
        more == [v EXCEPT !.items = Append(@, r.value),
                          !.keys = IF named THEN Append(@, ts[i].text) ELSE @]
    IN  IF ~fit \/ ~r.ok THEN Failed
        ELSE CASE At(ts, r.next).kind = close -> ReadUpTo(more, r.next + 1)
               [] At(ts, r.next).kind = ","   -> Elements(ts, r.next + 1, depth, close, more)
               [] OTHER                       -> Failed

Parse(ts) ==
    LET r == ReadValue(ts, 1, 0)
    IN  IF r.ok /\ r.next = Len(ts) + 1 THEN r ELSE Failed

-----------------------------------------------------------------------------
(* request_operation: the bytes of the parameters that are hashed, fields in *)
(* the order of their names and of the text if they have the same name.  A   *)
(* length takes eight bytes that no name contains.                           *)

Alphabet == <<"1", "a", "b", "n", "s">>
Rank(letter) == SelectInSeq(Alphabet, LAMBDA l : l = letter)
Before(k, l) ==
    \E n \in 0..(Len(l) - 1) :
        /\ n <= Len(k) /\ SubSeq(k, 1, n) = SubSeq(l, 1, n)
        /\ n = Len(k) \/ Rank(k[n + 1]) < Rank(l[n + 1])

AsWritten(keys) == [i \in 1..Len(keys) |-> i]   \* mutant: fields are not sorted
Sorted(keys) ==
    SetToSortSeq(1..Len(keys),
        LAMBDA i, j : Before(keys[i], keys[j]) \/ (keys[i] = keys[j] /\ i < j))

Size(seq) == <<"length", ToString(Len(seq))>>
Counted(text) == text \o Size(text)

RECURSIVE Encode(_)
Encode(v) ==
    CASE v.kind = "null"   -> <<"n">>
      [] v.kind = "bool"   -> <<"b">> \o v.text
      [] v.kind = "number" -> <<"i">> \o Counted(v.text)
      [] v.kind = "string" -> <<"s">> \o Counted(v.text)
      [] v.kind = "array"  ->
            <<"a">> \o Size(v.items)
            \o FlattenSeq([i \in 1..Len(v.items) |-> Encode(v.items[i])])
      [] v.kind = "object" ->
            <<"o">> \o Size(v.items)
            \o FlattenSeq([i \in 1..Len(v.items) |->
                   LET f == Sorted(v.keys)[i]
                   IN  <<"o">> \o Counted(v.keys[f]) \o Encode(v.items[f])])

-----------------------------------------------------------------------------
(* What is tried, and the reference definitions. *)

FieldName == {<<"a">>, <<"b">>}
Atom == {Scalar("null", <<>>), Scalar("bool", <<"t">>), Scalar("number", <<"1">>),
         Scalar("string", <<"1">>), Scalar("string", <<>>)}
Containers(vs, n) ==
    {Array(xs) : xs \in BoundedSeq(vs, n)}
    \cup UNION {{Object(ks, xs) : ks \in [1..m -> FieldName], xs \in [1..m -> vs]} : m \in 0..n}
Simple == {Scalar("null", <<>>), Scalar("string", <<"1">>)}
Values == Atom \cup Containers(Atom, 2) \cup Containers(Atom \cup Containers(Simple, 2), 1)
Params ==
    {v \in Containers(Atom \cup Containers({Scalar("string", <<"1">>)}, 1), 2) :
        v.kind = "object"}

Token == {Mark(m) : m \in {"[", "]", "{", "}", ",", ":", "1.5"}}
         \cup {Scalar("null", <<>>), Scalar("string", <<"a">>)}

RECURSIVE Height(_)
Height(v) == 1 + (IF v.items = <<>> THEN 0
                  ELSE CHOOSE h \in 1..5 :
                         /\ \E i \in 1..Len(v.items) : Height(v.items[i]) = h
                         /\ \A i \in 1..Len(v.items) : Height(v.items[i]) <= h)

\* Equal but for the order of fields with different names.
RECURSIVE Same(_, _)
Same(v, w) ==
    LET named(u, key) == SelectSeq([i \in 1..Len(u.keys) |-> i], LAMBDA i : u.keys[i] = key)
        same(xs, ys, is, js) ==
            /\ Len(is) = Len(js)
            /\ \A n \in 1..Len(is) : Same(xs[is[n]], ys[js[n]])
    IN  /\ v.kind = w.kind /\ v.text = w.text
        /\ Len(v.items) = Len(w.items)
        /\ IF v.kind = "object"
           THEN \A key \in FieldName : same(v.items, w.items, named(v, key), named(w, key))
           ELSE \A n \in 1..Len(v.items) : Same(v.items[n], w.items[n])

Tries ==
    \/ tried \in [as: {"value"}, of: Values]
    \/ tried \in [as: {"params"}, of: Params]
    \/ \E n \in 0..MaxTokens : tried \in [as: {"tokens"}, of: [1..n -> Token]]

Encoded == [v \in Params |-> Encode(v)]

-----------------------------------------------------------------------------
(* Properties. *)

\* What the writer writes is read as it was, unless it is nested deeper than
\* the limit, and nothing else is read at all: no text with a comma too many, a
\* name without a value, a fraction, or anything after the value.
ReadsWhatItWrites ==
    /\ tried.as = "value" =>
          LET r == Parse(ToJson(tried.of))
          IN  IF Height(tried.of) <= MaxDepth THEN r.ok /\ r.value = tried.of ELSE ~r.ok
    /\ tried.as = "tokens" =>
          LET r == Parse(tried.of)
          IN  r.ok => ToJson(r.value) = tried.of

\* Two requests are taken for the same operation, if the hash tells bytes apart,
\* exactly if their parameters are equal but for the order of fields; then they
\* also ask for the same, as of fields with one name the first counts.
SameOperation ==
    tried.as = "params" =>
        LET v == tried.of
            same == {w \in Params : Encoded[w] = Encoded[v]}
        IN  /\ same = {w \in Params : Same(v, w)}
            /\ \A w \in same, key \in FieldName :
                  LET x == ObjectField(v, key)  y == ObjectField(w, key)
                  IN  Len(x) = Len(y) /\ \A i \in 1..Len(x) : Same(x[i], y[i])
=============================================================================

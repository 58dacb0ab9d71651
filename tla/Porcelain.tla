----------------------------- MODULE Porcelain -----------------------------
(***************************************************************************)
(* The two parsers of what Git prints: `git worktree list --porcelain -z'  *)
(* and `git status --porcelain=v1 -z'.  Their input is a sequence of       *)
(* fields that NULs separate.  A field of a listing is a key and a value;  *)
(* a field of a status is an entry, two letters and a name, or else        *)
(* the source of a rename, a bare name that may look like an entry.        *)
(*                                                                         *)
(* What Git prints, and what it means by it, is the reference definition.  *)
(***************************************************************************)
EXTENDS Naturals, Sequences, FiniteSets, SequencesExt, Scan

CONSTANTS
    Text,       \* names of files and of worktrees, and reasons
    Garbled,    \* a text that is not UTF-8
    Nothing,    \* no value
    MaxRecords  \* bound: worktrees in a listing, changes in a status

ASSUME TextAssumption ==
    /\ MaxRecords \in Nat
    /\ Garbled # Nothing /\ Nothing \notin Text
    /\ {Garbled, Nothing} \cap
       {"id", "refs/heads/main", "refs/heads/topic/fix", "refs/bisect/main"} = {}

VARIABLE
    reported    \* what Git was asked for, and what it has to report

-----------------------------------------------------------------------------
(* parse_status_porcelain.  A bare name has no third byte that is a space.   *)

Entry(x, y, name) == [x |-> x, y |-> y, name |-> name]
Bare(name) == Entry("", "", name)
IsEntry(f) == f.x # ""
Decodable(f) == f.name # Garbled

RenamedInIndex(f) == f.x \in {"R", "C"}   \* mutant: not those of the working tree
\* An entry whose source is the field that follows it.
Renamed(f) == f.x \in {"R", "C"} \/ f.y \in {"R", "C"}

\* The entries in order, each with its source.
ParseStatus(fields) ==
    LET n == Len(fields)
        good(i) ==
            /\ IsEntry(fields[i]) /\ Decodable(fields[i])
            /\ Renamed(fields[i]) => i < n /\ Decodable(fields[i + 1])
        source(i) == IF Renamed(fields[i]) THEN fields[i + 1] ELSE Nothing
    IN  Scan(n, [i \in 1..n |-> good(i)],
             [i \in 1..n |-> IF Renamed(fields[i]) THEN i + 2 ELSE i + 1],
             [i \in 1..n |-> [entry |-> fields[i], source |-> source(i)]])

Conflicted(f) ==
    \/ f.x = "U" \/ f.y = "U"
    \/ f.x = "A" /\ f.y = "A"
    \/ f.x = "D" /\ f.y = "D"
Ignored(f) == f.x = "!" /\ f.y = "!"
Untracked(f) == f.x = "?" /\ f.y = "?"

KindOf(letter) ==
    CASE letter = "M" -> "modified" [] letter = "A" -> "added" [] letter = "D" -> "deleted"
      [] letter = "R" -> "renamed" [] letter = "C" -> "copied" [] letter = "T" -> "type-changed"
      [] letter = "?" -> "untracked" [] OTHER -> "other"
Kind(f) ==
    IF Conflicted(f) THEN "unmerged"
    ELSE KindOf(IF f.x \notin {" ", "?", "!"} THEN f.x ELSE f.y)

Counts(letter) == letter \notin {" ", "?", "!"}

\* The values of f, whose arguments are numbers, in the order of these.
InOrder(f) ==
    LET order == SetToSortSeq(DOMAIN f, <)
    IN  [k \in 1..Len(order) |-> f[order[k]]]

\* The summary of a status that parses.  Ignored entries are only counted.
Summary(parsed) ==
    LET all == 1..Len(parsed.items)
        f(i) == parsed.items[i].entry
        kept == {i \in all : ~Ignored(f(i))}
    IN  [staged     |-> Cardinality({i \in kept : Counts(f(i).x)}),
         unstaged   |-> Cardinality({i \in kept : Counts(f(i).y)}),
         untracked  |-> Cardinality({i \in kept : Untracked(f(i))}),
         conflicted |-> Cardinality({i \in kept : Conflicted(f(i))}),
         ignored    |-> Cardinality(all \ kept),
         entries    |-> InOrder([i \in kept |->
                           [path |-> f(i).name, source |-> parsed.items[i].source,
                            kind |-> Kind(f(i))]])]

IsDirtyTracked(s) == s.staged > 0 \/ s.unstaged > 0   \* mutant: untracked files do not count
IsDirty(s) == s.staged > 0 \/ s.unstaged > 0 \/ s.untracked > 0 \/ s.conflicted > 0

-----------------------------------------------------------------------------
(* parse_worktree_list_porcelain. *)

Field(key, value) == [key |-> key, value |-> value]
End == Field("", Nothing)

\* An empty field ends a record; further ones, and none at the end, are allowed.
NoFields == [done |-> <<>>, current |-> <<>>]
Took(acc, f) ==
    IF f # End THEN [acc EXCEPT !.current = Append(@, f)]
    ELSE IF acc.current = <<>> THEN acc
    ELSE [done |-> Append(acc.done, acc.current), current |-> <<>>]
Records(fields) ==
    LET all == FoldLeft(Took, NoFields, fields)
    IN  IF all.current = <<>> THEN all.done ELSE Append(all.done, all.current)

Blank == [ok |-> TRUE, path |-> Nothing, head |-> Nothing, branch |-> Nothing,
          detached |-> FALSE, bare |-> FALSE, locked |-> FALSE, reason |-> Nothing,
          prunable |-> FALSE, why |-> Nothing]

\* strip_prefix of refs/heads/, which other refs lack.
ShortLast(ref) ==   \* mutant: what follows the last slash
    CASE ref = "refs/heads/main"  -> "main" [] ref = "refs/heads/topic/fix" -> "fix"
      [] ref = "refs/bisect/main" -> "main"
Short(ref) ==
    CASE ref = "refs/heads/main"  -> "main" [] ref = "refs/heads/topic/fix" -> "topic/fix"
      [] OTHER -> ref

\* Reasons are decoded leniently.
Lossy(value) == IF value = Garbled THEN "replaced" ELSE value

\* One field of a record: a later one of the same key overrides an earlier.
With(w, f) ==
    LET text == f.value \notin {Garbled, Nothing}
    IN  CASE f.key = "worktree" -> [w EXCEPT !.path = f.value, !.ok = @ /\ text]
          [] f.key = "HEAD"     -> [w EXCEPT !.head = f.value, !.ok = @ /\ text]
          [] f.key = "branch"   -> [w EXCEPT !.branch = Short(f.value), !.ok = @ /\ text]
          [] f.key = "detached" -> [w EXCEPT !.detached = TRUE]
          [] f.key = "bare"     -> [w EXCEPT !.bare = TRUE]
          [] f.key = "locked"   -> [w EXCEPT !.locked = TRUE, !.reason = Lossy(f.value)]
          [] f.key = "prunable" -> [w EXCEPT !.prunable = TRUE, !.why = Lossy(f.value)]
          [] OTHER              -> [w EXCEPT !.ok = FALSE]

\* A record without a path, or with a key nobody knows, fails the listing.
ParseRecord(record) ==
    LET w == FoldLeft(With, Blank, record)
    IN  [w EXCEPT !.ok = @ /\ w.path # Nothing]

ParseList(fields) ==
    LET ws == [i \in 1..Len(Records(fields)) |-> ParseRecord(Records(fields)[i])]
    IN  [ok |-> \A i \in DOMAIN ws : ws[i].ok, worktrees |-> ws]

-----------------------------------------------------------------------------
(* What Git means and how it prints it. *)

\* Changes of a tracked file against HEAD and the index, sides of a conflict,
\* and files Git does not track.  A source may be a name that reads like an entry.
Letter == [same |-> " ", modified |-> "M", added |-> "A", deleted |-> "D", renamed |-> "R",
           copied |-> "C", typechanged |-> "T"]
Sides == {<<"D", "D">>, <<"A", "U">>, <<"U", "D">>, <<"U", "A">>, <<"D", "U">>, <<"A", "A">>,
          <<"U", "U">>}
Source == {Bare(name) : name \in Text} \cup {Entry("R", " ", name) : name \in Text}

Moves(c) == c.what = "tracked" /\ {c.index, c.tree} \cap {"renamed", "copied"} # {}

Tracked ==
    {c \in [what: {"tracked"}, index: DOMAIN Letter, tree: DOMAIN Letter \ {"copied"},
            name: Text, source: Source \cup {Nothing}] :
        /\ c.index # "same" \/ c.tree # "same"
        /\ {c.index, c.tree} # {"added"} /\ {c.index, c.tree} # {"deleted"}
        /\ c.source = Nothing <=> ~Moves(c)}
Edit ==
    Tracked
    \cup [what: {"unmerged"}, sides: Sides, name: Text]
    \cup [what: {"untracked", "ignored"}, name: Text]

PrintEdit(c) ==
    CASE c.what = "untracked" -> <<Entry("?", "?", c.name)>>
      [] c.what = "ignored"   -> <<Entry("!", "!", c.name)>>
      [] c.what = "unmerged"  -> <<Entry(c.sides[1], c.sides[2], c.name)>>
      [] c.what = "tracked"   -> <<Entry(Letter[c.index], Letter[c.tree], c.name)>>
                                 \o IF Moves(c) THEN <<c.source>> ELSE <<>>
PrintStatus(cs) == FlattenSeq([i \in 1..Len(cs) |-> PrintEdit(cs[i])])

\* A conflict counts as staged and as unstaged.
Touches(c, side) == CASE c.what = "tracked" -> c[side] # "same" [] OTHER -> c.what = "unmerged"

KindMeant(c) ==
    CASE c.what = "tracked" ->
            LET k == IF c.index # "same" THEN c.index ELSE c.tree
            IN  IF k = "typechanged" THEN "type-changed" ELSE k
      [] OTHER -> c.what

Meant(cs) ==
    LET all == 1..Len(cs)
        kept == {i \in all : cs[i].what # "ignored"}
    IN  [staged     |-> Cardinality({i \in all : Touches(cs[i], "index")}),
         unstaged   |-> Cardinality({i \in all : Touches(cs[i], "tree")}),
         untracked  |-> Cardinality({i \in all : cs[i].what = "untracked"}),
         conflicted |-> Cardinality({i \in all : cs[i].what = "unmerged"}),
         ignored    |-> Cardinality({i \in all : cs[i].what = "ignored"}),
         entries    |-> InOrder([i \in kept |->
                           [path |-> cs[i].name,
                            source |-> IF Moves(cs[i]) THEN cs[i].source ELSE Nothing,
                            kind |-> KindMeant(cs[i])]])]

Legible(c) == c.name # Garbled /\ (Moves(c) => Decodable(c.source))

\* A worktree that Git lists; it has a HEAD and a branch or a detached HEAD,
\* unless it is bare.  A lock may have a reason.  A branch is known by a name that
\* is not the name of another ref.
On == {[ref |-> "refs/heads/main", branch |-> "main"],
       [ref |-> "refs/heads/topic/fix", branch |-> "topic/fix"],
       [ref |-> "refs/bisect/main", branch |-> "refs/bisect/main"]}
Listed ==
    {w \in [path: Text, bare: BOOLEAN, on: On \cup {Nothing},
            locked: BOOLEAN, reason: Text \cup {Nothing}, why: Text \cup {Nothing}] :
        /\ w.bare => w.on = Nothing
        /\ ~w.locked => w.reason = Nothing}

WorktreeFields(w) ==
    <<Field("worktree", w.path)>>
    \o (IF w.bare THEN <<Field("bare", Nothing)>>
        ELSE <<Field("HEAD", "id"), IF w.on = Nothing THEN Field("detached", Nothing)
                                    ELSE Field("branch", w.on.ref)>>)
    \o (IF w.locked THEN <<Field("locked", w.reason)>> ELSE <<>>)
    \o (IF w.why # Nothing THEN <<Field("prunable", w.why)>> ELSE <<>>)
PrintWorktree(w) == Append(WorktreeFields(w), End)
PrintList(ws) == FlattenSeq([i \in 1..Len(ws) |-> PrintWorktree(ws[i])])

Understood(w) ==
    [ok |-> TRUE, path |-> w.path, head |-> IF w.bare THEN Nothing ELSE "id",
     branch |-> IF w.on = Nothing THEN Nothing ELSE w.on.branch,
     detached |-> ~w.bare /\ w.on = Nothing, bare |-> w.bare, locked |-> w.locked,
     reason |-> IF w.reason = Garbled THEN "replaced" ELSE w.reason,
     prunable |-> w.why # Nothing, why |-> IF w.why = Garbled THEN "replaced" ELSE w.why]

Reports ==
    \E n \in 0..MaxRecords :
        \/ reported \in [asked: {"status"}, of: [1..n -> Edit]]
        \/ reported \in [asked: {"list"}, of: [1..n -> Listed]]

-----------------------------------------------------------------------------
(* Properties. *)

\* A status is read as what Git means by it, entry by entry and with the source
\* of each rename, or not at all, which happens only if a name is not UTF-8; a
\* source that reads like an entry is not taken for one.
StatusIsUnderstood ==
    reported.asked = "status" =>
        LET cs == reported.of
            parsed == ParseStatus(PrintStatus(cs))
        IN  IF \A i \in 1..Len(cs) : Legible(cs[i])
            THEN parsed.ok /\ Summary(parsed) = Meant(cs)
            ELSE ~parsed.ok

\* A listing is read as what Git lists, worktree by worktree, or not at all.
ListIsUnderstood ==
    reported.asked = "list" =>
        LET ws == reported.of
            parsed == ParseList(PrintList(ws))
        IN  IF \A i \in 1..Len(ws) : ws[i].path # Garbled
            THEN parsed.ok /\ parsed.worktrees = [i \in 1..Len(ws) |-> Understood(ws[i])]
            ELSE ~parsed.ok
=============================================================================

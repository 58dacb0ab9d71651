---------------------------- MODULE JournalProofs ----------------------------
(***************************************************************************)
(* Theorems about the request journal, for any finite set of clients, any  *)
(* daemons, ids, operations and database files, and any bounds.            *)
(*                                                                         *)
(* Inv is the inductive invariant.  At most one thread holds the flock of  *)
(* a file (FileExclusive), so that nobody else completes or takes over the *)
(* row of a request while it is executed (Underway), and what is recorded  *)
(* is what was executed and stays (Recorded, ToldStands).  PlacesKnown and *)
(* AttemptsLeft say where a thread is; RunsBounded, that the count of the  *)
(* executions of a request stays within what an answer can be.             *)
(***************************************************************************)
EXTENDS Journal, FiniteSetTheorems, TLAPS

\* A thread has a daemon from its start to its end, and knows its file from the
\* end of its first stint on; a daemon that holds a file knows which.
KnowsFile == HoldsFile \cup {"h_wait", "h_mutex", "h_name", "reply"}
PlacesKnown ==
    /\ \A a \in Attempt :
          /\ thread[a].at = None <=> thread[a].pc \in {"none", "end"}
          /\ thread[a].pc \in KnowsFile => thread[a].db \in Inode
    /\ \A d \in Daemon : daemon[d].pc = "s_file" => daemon[d].db \in Inode

\* A client has an attempt left while it calls, and none of those left has begun.
AttemptsLeft ==
    /\ \A c \in Client : client[c].state = "calling" => tries[c] < Attempts
    /\ \A a \in Attempt : tries[a[1]] < a[2] => thread[a].pc = "none"

\* One holder of the flock of a file, thread or starting daemon.
FileExclusive ==
    /\ \A a, b \in Attempt :
          /\ thread[a].pc \in HoldsFile /\ thread[b].pc \in HoldsFile
          /\ thread[a].db = thread[b].db
          => a = b
    /\ \A a \in Attempt, d \in Daemon :
          thread[a].pc \in HoldsFile /\ daemon[d].pc = "s_file" => thread[a].db # daemon[d].db
    /\ \A d, e \in Daemon :
          daemon[d].pc = "s_file" /\ daemon[e].pc = "s_file" /\ daemon[d].db = daemon[e].db
          => d = e

\* While a thread executes a request its row says so; a success that a thread
\* or a client has is the one in the row.
RowOf(a) == requests[thread[a].db][IdAt(a)]
Underway ==
    \A a \in Attempt :
        thread[a].pc \in {"run", "done", "failed"} =>
            RowOf(a).state = "started" /\ RowOf(a).op = OpOf[a[1]]
Recorded ==
    \A a \in Attempt :
        thread[a].pc = "reply" /\ thread[a].answer # Error =>
            /\ RowOf(a).state = "succeeded" /\ RowOf(a).op = OpOf[a[1]]
            /\ RowOf(a).answer = thread[a].answer
ToldStands ==
    \A c \in Client :
        client[c].state = "told" =>
            /\ client[c].db \in Inode
            /\ requests[client[c].db][IdOf[c]].state = "succeeded"
            /\ requests[client[c].db][IdOf[c]].op = OpOf[c]
            /\ requests[client[c].db][IdOf[c]].answer = client[c].answer

\* An execution takes an attempt that does not execute again.
Past == {a \in Attempt : thread[a].pc \in {"done", "failed", "reply", "end"}}
RunsBounded == \A f \in Inode, r \in Id : runs[f][r] <= Cardinality(Past)

Inv ==
    /\ TypeOK /\ PlacesKnown /\ AttemptsLeft /\ FileExclusive
    /\ Underway /\ Recorded /\ ToldStands /\ NothingSince
    /\ RunsBounded /\ ConnectionsCounted

-----------------------------------------------------------------------------
(* Attempts are finitely many, so that executions and connections can be     *)
(* counted.                                                                  *)

LEMMA AttemptsFinite ==
    /\ IsFiniteSet(Attempt) /\ Cardinality(Attempt) \in Nat /\ Error \in Answer
<1>1. IsFiniteSet(1..Attempts)
  BY FS_Interval, TypeAssumption
<1>2. IsFiniteSet(Attempt) /\ Cardinality(Attempt) \in Nat
  BY <1>1, FS_Product, FS_CardinalityType, ClientAssumption DEF Attempt
<1> QED
  BY <1>2 DEF Answer, Error

LEMMA SomeAttempts ==
    ASSUME NEW S \in SUBSET Attempt
    PROVE  /\ IsFiniteSet(S) /\ Cardinality(S) \in Nat
           /\ Cardinality(S) <= Cardinality(Attempt)
BY AttemptsFinite, FS_Subset, FS_CardinalityType

\* What an attempt asks for.
LEMMA AttemptAsks ==
    ASSUME NEW a \in Attempt
    PROVE  /\ a[1] \in Client /\ a[2] \in 1..Attempts /\ a = <<a[1], a[2]>>
           /\ IdAt(a) \in Id /\ IdAt(a) = IdOf[a[1]]
           /\ OpOf[a[1]] \in {OpOf[c] : c \in Client}
BY TypeAssumption DEF Attempt, IdAt

-----------------------------------------------------------------------------
(* A step that changes one thread. *)

Thread == [pc: Label, at: Daemon \cup {None}, db: Inode \cup {None}, answer: Answer]

Becomes(a, t) ==
    /\ thread' \in [Attempt -> Thread]
    /\ thread'[a] = t
    /\ \A b \in Attempt : b # a => thread'[b] = thread[b]

LEMMA SetThread ==
    ASSUME TypeOK, NEW a \in Attempt, NEW t \in Thread, thread' = [thread EXCEPT ![a] = t]
    PROVE  Becomes(a, t)
BY DEF TypeOK, Thread, Becomes

\* Only its label changes.
LEMMA MoveThread ==
    ASSUME TypeOK, NEW a \in Attempt, NEW pc \in Label, thread' = [thread EXCEPT ![a].pc = pc]
    PROVE  /\ Becomes(a, thread'[a])
           /\ thread'[a].pc = pc /\ thread'[a].at = thread[a].at
           /\ thread'[a].db = thread[a].db /\ thread'[a].answer = thread[a].answer
BY DEF TypeOK, Thread, Becomes

\* What is counted stays counted, if no thread changes its daemon.
LEMMA CountsStay ==
    ASSUME Inv, active' = active,
           \A a \in Attempt : thread'[a].at = thread[a].at
    PROVE  ConnectionsCounted' /\ active' \in [Daemon -> 0..MaxConnections]
<1>1. \A d \in Daemon : {a \in Attempt : thread'[a].at = d} = {a \in Attempt : thread[a].at = d}
  OBVIOUS
<1> QED
  BY <1>1 DEF Inv, ConnectionsCounted, TypeOK

LEMMA RunsStay ==
    ASSUME Inv, runs' = runs, Past \in SUBSET Past'
    PROVE  RunsBounded' /\ runs' \in [Inode -> [Id -> Answer]]
<1>1. Past' \in SUBSET Attempt
  BY DEF Past
<1>2. /\ Cardinality(Past) \in Nat /\ Cardinality(Past') \in Nat
      /\ Cardinality(Past) <= Cardinality(Past')
  BY <1>1, SomeAttempts, FS_Subset, FS_CardinalityType DEF Past
<1>3. \A f \in Inode, r \in Id : runs[f][r] \in Nat
  BY DEF Inv, TypeOK, Answer
<1>4. \A f \in Inode, r \in Id : runs[f][r] <= Cardinality(Past)
  BY DEF Inv, RunsBounded
<1>5. \A f \in Inode, r \in Id : runs[f][r] <= Cardinality(Past')
  <2> HIDE DEF Past
  <2> QED BY <1>2, <1>3, <1>4
<1> QED
  BY <1>5 DEF Inv, RunsBounded, TypeOK

\* A thread that ends is taken off the counter of its daemon.
LEMMA EndsCounts ==
    ASSUME Inv, NEW a \in Attempt, Ends(a), thread[a].pc \notin {"none", "end"}
    PROVE  /\ Becomes(a, Ended)
           /\ ConnectionsCounted' /\ active' \in [Daemon -> 0..MaxConnections]
<1> DEFINE D == thread[a].at
           On(d) == {b \in Attempt : thread[b].at = d}
<1>1. D \in Daemon
  BY NoneAssumption DEF Inv, TypeOK, PlacesKnown
<1>2. Ended \in Thread
  BY AttemptsFinite DEF Ended, Thread, Label, Error
<1>3. Becomes(a, Ended)
  BY <1>2, SetThread DEF Inv, Ends
<1>4. \A d \in Daemon : {b \in Attempt : thread'[b].at = d} = IF d = D THEN On(d) \ {a} ELSE On(d)
  BY <1>1, <1>3, NoneAssumption DEF Becomes, Ended
<1>5. Cardinality(On(D) \ {a}) = Cardinality(On(D)) - 1 /\ Cardinality(On(D)) \in Nat \ {0}
  <2>1. a \in On(D) /\ On(D) \in SUBSET Attempt
    OBVIOUS
  <2>2. IsFiniteSet(On(D)) /\ On(D) # {}
    BY <2>1, SomeAttempts
  <2>3. Cardinality(On(D)) \in Nat \ {0}
    BY <2>2, FS_EmptySet, FS_CardinalityType
  <2> QED
    BY <2>1, <2>2, <2>3, FS_RemoveElement
<1>6. \A d \in Daemon : active[d] = Cardinality(On(d)) /\ active[d] <= MaxConnections
                        /\ active[d] \in 0..MaxConnections
  BY DEF Inv, ConnectionsCounted, TypeOK
<1>7. active' = [active EXCEPT ![D] = @ - 1] /\ active \in [Daemon -> 0..MaxConnections]
  BY DEF Ends, GivesBack, Inv, TypeOK
<1>8. \A d \in Daemon : active'[d] = IF d = D THEN active[d] - 1 ELSE active[d]
  BY <1>1, <1>7
<1> DEFINE Now(d) == {b \in Attempt : thread'[b].at = d}
<1>9. \A d \in Daemon : active'[d] = Cardinality(Now(d)) /\ active'[d] \in 0..MaxConnections
  <2>1. ASSUME NEW d \in Daemon, d = D
        PROVE  active'[d] = Cardinality(Now(d)) /\ active'[d] \in 0..MaxConnections
    <3>1. Now(d) = On(D) \ {a}
      BY <2>1, <1>4
    <3> HIDE DEF On, Now, D
    <3> QED
      BY <2>1, <3>1, <1>5, <1>6, <1>8, TypeAssumption
  <2>2. ASSUME NEW d \in Daemon, d # D
        PROVE  active'[d] = Cardinality(Now(d)) /\ active'[d] \in 0..MaxConnections
    <3>1. Now(d) = On(d)
      BY <2>2, <1>4
    <3> HIDE DEF On, Now, D
    <3> QED
      BY <2>2, <3>1, <1>6, <1>8
  <2> QED
    BY <2>1, <2>2
<1>10. active' \in [Daemon -> 0..MaxConnections]
  BY <1>7, <1>9
<1>11. ConnectionsCounted'
  BY <1>9, TypeAssumption DEF ConnectionsCounted
<1> QED
  BY <1>3, <1>10, <1>11

\* What holds of places, attempts, the flock and the counter after a step of a
\* thread that goes on: it may hold a file only if it held it before, or the
\* file was free.
LEMMA GoesOn ==
    ASSUME Inv, NEW a \in Attempt, NEW t, Becomes(a, t),
           t.at = thread[a].at, thread[a].pc \notin {"none", "end"}, t.pc \notin {"none", "end"},
           t.pc \in KnowsFile => t.db \in Inode,
           t.pc \in HoldsFile =>
              FileFree(t.db) \/ (thread[a].pc \in HoldsFile /\ t.db = thread[a].db),
           UNCHANGED <<daemon, client, tries, active>>
    PROVE  /\ PlacesKnown' /\ AttemptsLeft' /\ FileExclusive'
           /\ ConnectionsCounted' /\ active' \in [Daemon -> 0..MaxConnections]
<1>1. PlacesKnown'
  BY DEF Inv, PlacesKnown, Becomes
<1>2. AttemptsLeft'
  BY DEF Inv, AttemptsLeft, Becomes
<1>3. FileExclusive'
  BY DEF Inv, FileExclusive, FileFree, Becomes
<1>4. \A b \in Attempt : thread'[b].at = thread[b].at
  BY DEF Becomes
<1> QED
  BY <1>1, <1>2, <1>3, <1>4, CountsStay

\* Where only the thread changes, and it is neither about to execute nor to reply.
LEMMA Advances ==
    ASSUME Inv, NEW a \in Attempt, NEW t, Becomes(a, t),
           t.at = thread[a].at,
           thread[a].pc \notin {"none", "end"} \cup {"done", "failed", "reply"},
           t.pc \notin {"none", "end"} \cup {"run", "done", "failed", "reply"},
           t.pc \in KnowsFile => t.db \in Inode,
           t.pc \in HoldsFile =>
              FileFree(t.db) \/ (thread[a].pc \in HoldsFile /\ t.db = thread[a].db),
           UNCHANGED <<file, requests, runs, daemon, client, tries, active, faults>>
    PROVE  Inv'
<1>1. /\ PlacesKnown' /\ AttemptsLeft' /\ FileExclusive'
      /\ ConnectionsCounted' /\ active' \in [Daemon -> 0..MaxConnections]
  BY GoesOn
<1>2. Past \in SUBSET Past'
  BY DEF Past, Becomes
<1>3. RunsBounded' /\ runs' \in [Inode -> [Id -> Answer]]
  BY <1>2, RunsStay
<1>4. TypeOK'
  BY <1>1, <1>3 DEF Inv, TypeOK, Becomes, Thread
<1>5. Underway' /\ Recorded'
  BY DEF Inv, Underway, Recorded, RowOf, Becomes
<1>6. ToldStands' /\ NothingSince'
  BY DEF Inv, ToldStands, NothingSince
<1> QED
  BY <1>1, <1>3, <1>4, <1>5, <1>6 DEF Inv

\* Goto: the same of a step to another label.
LEMMA GotoInv ==
    ASSUME Inv, NEW a \in Attempt, NEW pc \in Label, Goto(a, pc),
           thread[a].pc \notin {"none", "end"} \cup {"done", "failed", "reply"},
           pc \notin {"none", "end"} \cup {"run", "done", "failed", "reply"},
           pc \in KnowsFile => thread[a].pc \in KnowsFile,
           pc \in HoldsFile => FileFree(thread[a].db) \/ thread[a].pc \in HoldsFile
    PROVE  Inv'
<1>1. /\ Becomes(a, thread'[a])
      /\ thread'[a].pc = pc /\ thread'[a].at = thread[a].at
      /\ thread'[a].db = thread[a].db
  BY MoveThread DEF Goto, Inv
<1>2. thread[a].pc \in KnowsFile => thread[a].db \in Inode
  BY DEF Inv, PlacesKnown
<1> QED
  BY <1>1, <1>2, Advances DEF Goto

-----------------------------------------------------------------------------
(* The threads, step by step. *)

LEMMA LocksInv ==
    ASSUME Inv, NEW a \in Attempt, TakeMutex(a) \/ TakeName(a) \/ Opened(a)
    PROVE  Inv'
<1>1. PICK s \in {<<"o_wait", "o_mutex">>, <<"h_wait", "h_mutex">>, <<"o_mutex", "o_name">>,
                  <<"h_mutex", "h_name">>, <<"o_file", "h_wait">>} :
         thread[a].pc = s[1] /\ Goto(a, s[2])
  BY DEF TakeMutex, TakeName, Opened
<1> QED
  BY <1>1, GotoInv DEF Label, HoldsFile, KnowsFile

\* The flock of a file is taken only if nobody holds it.
LEMMA TakeFileInv == ASSUME Inv, NEW a \in Attempt, TakeFile(a) PROVE Inv'
<1> DEFINE f == file[NameOf[thread[a].at]]
<1>1. CASE thread[a].pc = "h_name" /\ FileFree(thread[a].db)
           /\ thread' = [thread EXCEPT ![a].pc = "h_file"]
  <2>1. Goto(a, "h_file")
    BY <1>1 DEF TakeFile, Goto
  <2> QED
    BY <1>1, <2>1, GotoInv DEF Label, HoldsFile, KnowsFile
<1>2. CASE thread[a].pc = "o_name" /\ FileFree(f)
           /\ thread' = [thread EXCEPT ![a].pc = "o_file", ![a].db = f]
  <2>1. f \in Inode
    BY <1>2, TypeAssumption, NoneAssumption DEF Inv, TypeOK, PlacesKnown
  <2> DEFINE t == [thread[a] EXCEPT !.pc = "o_file", !.db = f]
  <2>2. t \in Thread /\ t.pc = "o_file" /\ t.at = thread[a].at /\ t.db = f
    <3>1. thread[a] \in Thread
      <4>1. TypeOK
        BY DEF Inv
      <4> QED
        BY <4>1 DEF TypeOK, Thread
    <3> QED
      BY <2>1, <3>1 DEF Thread, Label
  <2>3. thread' = [thread EXCEPT ![a] = t]
    BY <1>2 DEF Inv, TypeOK
  <2> HIDE DEF t, f
  <2>4. Becomes(a, t)
    BY <2>2, <2>3, SetThread DEF Inv
  <2> QED
    BY <1>2, <2>1, <2>2, <2>4, Advances DEF TakeFile
<1> QED
  BY <1>1, <1>2 DEF TakeFile

\* begin_request: the row is the caller's from here on, or stays as it is.
LEMMA BeginInv == ASSUME Inv, NEW a \in Attempt, Begin(a) PROVE Inv'
<1> DEFINE f == thread[a].db
           row == requests[f][IdAt(a)]
           new == [state |-> "started", op |-> OpOf[a[1]], answer |-> 0]
<1>1. /\ thread[a].pc = "h_file" /\ f \in Inode /\ IdAt(a) \in Id /\ row \in Row
      /\ OpOf[a[1]] \in {OpOf[c] : c \in Client}
  BY AttemptAsks DEF Begin, Inv, PlacesKnown, KnowsFile, HoldsFile, TypeOK
<1>2. UNCHANGED <<file, runs, daemon, client, tries, active, faults>>
  BY DEF Begin
\* An answer without an execution.
<1>3. ASSUME NEW answer \in Answer, Answered(a, answer), UNCHANGED requests,
             answer # Error => row.state = "succeeded" /\ row.op = OpOf[a[1]] /\ row.answer = answer
      PROVE  Inv'
  <2> DEFINE t == [thread[a] EXCEPT !.pc = "reply", !.answer = answer]
  <2>1. /\ t \in Thread /\ t.pc = "reply" /\ t.at = thread[a].at
        /\ t.db = f /\ t.answer = answer
    BY <1>1, <1>3 DEF Inv, TypeOK, Thread, Label
  <2>2. thread' = [thread EXCEPT ![a] = t]
    BY <1>3 DEF Answered, Inv, TypeOK
  <2> HIDE DEF t
  <2>3. Becomes(a, t)
    BY <2>1, <2>2, SetThread DEF Inv
  <2>4. /\ PlacesKnown' /\ AttemptsLeft' /\ FileExclusive'
        /\ ConnectionsCounted' /\ active' \in [Daemon -> 0..MaxConnections]
    BY <1>1, <1>2, <2>1, <2>3, GoesOn DEF HoldsFile
  <2>5. Past \in SUBSET Past'
    BY <2>1, <2>3, <1>1 DEF Past, Becomes
  <2>6. RunsBounded' /\ runs' \in [Inode -> [Id -> Answer]]
    BY <1>2, <2>5, RunsStay
  <2>7. TypeOK'
    BY <1>2, <1>3, <2>3, <2>4, <2>6 DEF Inv, TypeOK, Becomes, Thread
  <2>8. Underway'
    BY <1>3, <2>1, <2>3 DEF Inv, Underway, RowOf, Becomes
  <2>9. Recorded'
    BY <1>3, <2>1, <2>3 DEF Inv, Recorded, RowOf, Becomes
  <2>10. ToldStands' /\ NothingSince'
    BY <1>2, <1>3 DEF Inv, ToldStands, NothingSince
  <2> QED
    BY <2>4, <2>6, <2>7, <2>8, <2>9, <2>10 DEF Inv
\* The request is begun, for the first time or again.
<1>4. ASSUME Matches(row, OpOf[a[1]]), ~Decided(row),
             requests' = [requests EXCEPT ![f][IdAt(a)] = new],
             thread' = [thread EXCEPT ![a].pc = "run"]
      PROVE  Inv'
  <2>1. /\ Becomes(a, thread'[a])
        /\ thread'[a].pc = "run" /\ thread'[a].at = thread[a].at
        /\ thread'[a].db = f /\ thread'[a].answer = thread[a].answer
    BY <1>4, MoveThread DEF Inv, Label
  <2>2. /\ PlacesKnown' /\ AttemptsLeft' /\ FileExclusive'
        /\ ConnectionsCounted' /\ active' \in [Daemon -> 0..MaxConnections]
    BY <1>1, <1>2, <2>1, GoesOn DEF HoldsFile
  <2>3. Past \in SUBSET Past'
    BY <2>1, <1>1 DEF Past, Becomes
  <2>4. RunsBounded' /\ runs' \in [Inode -> [Id -> Answer]]
    BY <1>2, <2>3, RunsStay
  <2>5. new \in Row /\ new.state = "started" /\ new.op = OpOf[a[1]]
    BY <1>1, AttemptsFinite DEF Row, Error
  <2> HIDE DEF new
  <2>6. /\ requests' \in [Inode -> [Id -> Row]]
        /\ \A g \in Inode, r \in Id :
              requests'[g][r] = IF g = f /\ r = IdAt(a) THEN new ELSE requests[g][r]
    BY <1>1, <1>4, <2>5 DEF Inv, TypeOK
  <2>7. TypeOK'
    BY <1>2, <2>1, <2>2, <2>4, <2>6 DEF Inv, TypeOK, Becomes, Thread
  <2>8. row.state # "succeeded"
    BY <1>4 DEF Decided
  <2>9. Underway'
    <3> SUFFICES ASSUME NEW b \in Attempt, thread'[b].pc \in {"run", "done", "failed"}
                 PROVE  RowOf(b)'.state = "started" /\ RowOf(b)'.op = OpOf[b[1]]
      BY DEF Underway
    <3>1. CASE b = a
      BY <1>1, <2>1, <2>5, <2>6, <3>1, AttemptAsks DEF RowOf, IdAt
    <3>2. CASE b # a
      <4>1. thread'[b] = thread[b]
        BY <2>1, <3>2 DEF Becomes
      <4>2. thread[b].db # f /\ thread[b].db \in Inode
        BY <2>1, <2>2, <3>2, <4>1 DEF FileExclusive, PlacesKnown, HoldsFile, KnowsFile
      <4>3. RowOf(b)' = RowOf(b)
        BY <2>6, <4>1, <4>2, AttemptAsks DEF RowOf, IdAt
      <4> QED
        BY <4>1, <4>3 DEF Inv, Underway
    <3> QED
      BY <3>1, <3>2
  <2>10. Recorded'
    BY <1>1, <2>1, <2>6, <2>8, AttemptAsks
    DEF Inv, Recorded, RowOf, Becomes, PlacesKnown, KnowsFile
  <2>11. ToldStands'
    BY <1>1, <1>2, <2>6, <2>8, TypeAssumption DEF Inv, ToldStands
  <2>12. NothingSince'
    BY <1>1, <1>2, <2>5, <2>6 DEF Inv, NothingSince
  <2> QED
    BY <2>2, <2>4, <2>7, <2>9, <2>10, <2>11, <2>12 DEF Inv
<1>5. Error \in Answer /\ row.answer \in Answer
  BY <1>1, AttemptsFinite DEF Row
<1>6. CASE Decided(row) /\ Matches(row, OpOf[a[1]]) /\ Answered(a, row.answer) /\ UNCHANGED requests
  BY <1>3, <1>5, <1>6 DEF Decided, Matches
<1> QED
  BY <1>3, <1>4, <1>5, <1>6 DEF Begin

\* The number of executions grows with the attempts that executed.
LEMMA ExecuteInv == ASSUME Inv, NEW a \in Attempt, Execute(a) PROVE Inv'
<1> DEFINE f == thread[a].db
           i == IdAt(a)
<1>1. thread[a].pc = "run" /\ f \in Inode /\ i \in Id
  BY AttemptAsks DEF Execute, Inv, PlacesKnown, KnowsFile, HoldsFile
<1>2. PICK pc \in {"done", "failed"} :
         /\ thread' = [thread EXCEPT ![a].pc = pc]
         /\ \/ pc = "done" /\ runs' = [runs EXCEPT ![f][i] = @ + 1]
            \/ pc = "failed" /\ UNCHANGED runs
  BY DEF Execute
<1>3. UNCHANGED <<file, requests, daemon, client, tries, active, faults>>
  BY DEF Execute
<1>4. /\ Becomes(a, thread'[a])
      /\ thread'[a].pc = pc /\ thread'[a].at = thread[a].at
      /\ thread'[a].db = f /\ thread'[a].answer = thread[a].answer
  BY <1>2, MoveThread DEF Inv, Label
<1>5. /\ PlacesKnown' /\ AttemptsLeft' /\ FileExclusive'
      /\ ConnectionsCounted' /\ active' \in [Daemon -> 0..MaxConnections]
  BY <1>1, <1>3, <1>4, GoesOn DEF HoldsFile
<1>6. /\ Past' = Past \cup {a} /\ a \notin Past /\ IsFiniteSet(Past)
      /\ Cardinality(Past) \in Nat
  BY <1>1, <1>4, SomeAttempts DEF Past, Becomes
<1>7. Cardinality(Past') = Cardinality(Past) + 1 /\ Cardinality(Past') <= Cardinality(Attempt)
  <2>1. Past' \in SUBSET Attempt
    BY DEF Past
  <2> QED
    BY <1>6, <2>1, SomeAttempts, FS_AddElement
<1>8. /\ \A g \in Inode, r \in Id : runs[g][r] \in Nat /\ runs[g][r] <= Cardinality(Past)
      /\ runs \in [Inode -> [Id -> Answer]]
  BY DEF Inv, TypeOK, Answer, RunsBounded
<1>9. /\ runs' \in [Inode -> [Id -> Nat]]
      /\ \A g \in Inode, r \in Id :
            /\ runs'[g][r] <= Cardinality(Past')
            /\ g # f \/ r # i => runs'[g][r] = runs[g][r]
  <2> HIDE DEF Past, f, i
  <2>1. runs \in [Inode -> [Id -> Nat]]
    BY <1>8 DEF Answer
  <2> QED
    <3>1. CASE UNCHANGED runs
      BY <1>6, <1>7, <1>8, <2>1, <3>1
    <3>2. CASE runs' = [runs EXCEPT ![f][i] = @ + 1]
      <4>1. runs' \in [Inode -> [Id -> Nat]]
        BY <1>1, <2>1, <3>2
      <4>2. \A g \in Inode, r \in Id :
               runs'[g][r] = IF g = f /\ r = i THEN runs[f][i] + 1 ELSE runs[g][r]
        BY <1>1, <2>1, <3>2
      <4> QED
        BY <1>1, <1>6, <1>7, <1>8, <4>1, <4>2
    <3> QED
      BY <1>2, <3>1, <3>2
<1>10. RunsBounded' /\ runs' \in [Inode -> [Id -> Answer]]
  <2> DEFINE P == Cardinality(Past')
  <2>1. \A g \in Inode, r \in Id : runs'[g][r] \in Nat /\ runs'[g][r] <= P
    BY <1>9
  <2>2. P \in Nat /\ P <= Cardinality(Attempt)
    BY <1>6, <1>7
  <2> HIDE DEF P
  <2>3. \A g \in Inode, r \in Id : runs'[g][r] \in Answer
    BY <2>1, <2>2, AttemptsFinite DEF Answer
  <2> QED
    BY <1>9, <2>3 DEF RunsBounded
<1>11. TypeOK'
  BY <1>3, <1>4, <1>5, <1>10 DEF Inv, TypeOK, Becomes, Thread
<1>12. Underway' /\ Recorded'
  BY <1>1, <1>3, <1>4 DEF Inv, Underway, Recorded, RowOf, Becomes
<1>13. NothingSince'
  <2>1. requests[f][i].state = "started"
    BY <1>1 DEF Inv, Underway, RowOf
  <2> QED
    BY <1>3, <1>9, <2>1 DEF Inv, NothingSince
<1>14. ToldStands'
  BY <1>3 DEF Inv, ToldStands
<1> QED
  BY <1>5, <1>10, <1>11, <1>12, <1>13, <1>14 DEF Inv

\* complete_request and fail_request end what this thread began.
LEMMA FinishInv == ASSUME Inv, NEW a \in Attempt, Finish(a) PROVE Inv'
<1> DEFINE f == thread[a].db
           i == IdAt(a)
           row == requests[f][i]
<1>1. /\ thread[a].pc \in {"done", "failed"} /\ f \in Inode /\ i \in Id /\ row \in Row
      /\ row.state = "started" /\ row.op = OpOf[a[1]]
      /\ runs[f][i] \in Answer
  BY AttemptAsks DEF Finish, Inv, PlacesKnown, KnowsFile, HoldsFile, Underway, RowOf, TypeOK
<1>2. UNCHANGED <<file, runs, daemon, client, tries, active, faults>>
  BY DEF Finish
<1>3. PICK answer \in {runs[f][i], Error}, state \in {"succeeded", "failed"} :
         /\ requests' = [requests EXCEPT ![f][i] = [row EXCEPT !.state = state, !.answer = answer]]
         /\ Answered(a, answer)
         /\ state = "failed" => answer = Error
  BY DEF Finish, Error
<1> DEFINE new == [row EXCEPT !.state = state, !.answer = answer]
           t == [thread[a] EXCEPT !.pc = "reply", !.answer = answer]
<1>4. answer \in Answer
  BY <1>1, AttemptsFinite
<1>5. new \in Row /\ new.state = state /\ new.op = OpOf[a[1]] /\ new.answer = answer
  BY <1>1, <1>4 DEF Row
<1>6. t \in Thread /\ t.pc = "reply" /\ t.at = thread[a].at /\ t.db = f /\ t.answer = answer
  <2>1. TypeOK
    BY DEF Inv
  <2>2. thread[a] \in Thread /\ thread[a].db = f
    BY <1>1, <2>1 DEF TypeOK, Thread
  <2> QED
    BY <1>4, <2>2 DEF Thread, Label
<1>7. thread' = [thread EXCEPT ![a] = t]
  BY <1>3 DEF Answered, Inv, TypeOK
<1> HIDE DEF t, new
<1>8. Becomes(a, t)
  BY <1>6, <1>7, SetThread DEF Inv
<1>9. /\ requests' \in [Inode -> [Id -> Row]]
      /\ \A g \in Inode, r \in Id :
            requests'[g][r] = IF g = f /\ r = i THEN new ELSE requests[g][r]
  <2>1. requests' = [requests EXCEPT ![f][i] = new]
    BY <1>3 DEF new
  <2> QED
    BY <1>1, <1>5, <2>1 DEF Inv, TypeOK
<1>10. /\ PlacesKnown' /\ AttemptsLeft' /\ FileExclusive'
       /\ ConnectionsCounted' /\ active' \in [Daemon -> 0..MaxConnections]
  BY <1>1, <1>2, <1>6, <1>8, GoesOn DEF HoldsFile
<1>11. Past \in SUBSET Past'
  BY <1>6, <1>8 DEF Past, Becomes
<1>12. RunsBounded' /\ runs' \in [Inode -> [Id -> Answer]]
  BY <1>2, <1>11, RunsStay
<1>13. TypeOK'
  BY <1>2, <1>8, <1>9, <1>10, <1>12 DEF Inv, TypeOK, Becomes, Thread
\* No other thread works on this file.
<1>14. Underway'
  BY <1>1, <1>6, <1>8, <1>9, AttemptAsks
  DEF Inv, Underway, RowOf, Becomes, FileExclusive, PlacesKnown, HoldsFile, KnowsFile
<1>15. Recorded'
  <2> SUFFICES ASSUME NEW b \in Attempt, thread'[b].pc = "reply", thread'[b].answer # Error
               PROVE  /\ RowOf(b)'.state = "succeeded" /\ RowOf(b)'.op = OpOf[b[1]]
                      /\ RowOf(b)'.answer = thread'[b].answer
    BY DEF Recorded
  <2>1. CASE b = a
    <3>1. thread'[b] = t /\ RowOf(b)' = new
      BY <1>1, <1>6, <1>8, <1>9, <2>1 DEF RowOf, IdAt, Becomes
    <3> QED
      BY <1>3, <1>5, <1>6, <2>1, <3>1
  <2>2. CASE b # a
    <3>1. thread'[b] = thread[b]
      BY <1>8, <2>2 DEF Becomes
    <3>2. /\ RowOf(b).state = "succeeded" /\ RowOf(b).op = OpOf[b[1]]
          /\ RowOf(b).answer = thread[b].answer /\ thread[b].db \in Inode
      BY <3>1 DEF Inv, Recorded, PlacesKnown, KnowsFile
    <3>3. /\ thread[b].db \in Inode /\ IdAt(b) \in Id
          /\ RowOf(b)' = requests'[thread[b].db][IdAt(b)]
      BY <3>1, <3>2, AttemptAsks DEF RowOf, IdAt
    <3>4. ~(thread[b].db = f /\ IdAt(b) = i)
      BY <1>1, <3>2 DEF RowOf
    <3>5. RowOf(b)' = RowOf(b)
      BY <1>9, <3>3, <3>4 DEF RowOf
    <3> QED
      BY <3>1, <3>2, <3>5
  <2> QED
    BY <2>1, <2>2
<1>16. ToldStands'
  BY <1>1, <1>2, <1>9, TypeAssumption DEF Inv, ToldStands
<1>17. NothingSince'
  <2> SUFFICES ASSUME NEW g \in Inode, NEW r \in Id, requests'[g][r].state = "succeeded",
                      requests'[g][r].answer # Error
               PROVE  runs'[g][r] = requests'[g][r].answer
    BY DEF NothingSince
  <2>1. CASE g = f /\ r = i
    BY <1>2, <1>3, <1>5, <1>9, <2>1
  <2>2. CASE ~(g = f /\ r = i)
    BY <1>2, <1>9, <2>2 DEF Inv, NothingSince
  <2> QED
    BY <2>1, <2>2
<1> QED
  BY <1>10, <1>12, <1>13, <1>14, <1>15, <1>16, <1>17 DEF Inv

\* However a thread ends: it lets go what it held and is counted off.
LEMMA EndsInv ==
    ASSUME Inv, NEW a \in Attempt, Ends(a), thread[a].pc \notin {"none", "end"},
           UNCHANGED <<file, requests, runs, daemon, tries, faults>>,
           client' = client \/
              /\ client[a[1]].state = "waiting" /\ thread[a].pc = "reply"
              /\ client' = [client EXCEPT ![a[1]] =
                   [state |-> IF thread[a].answer = Error THEN "refused" ELSE "told",
                    answer |-> thread[a].answer, db |-> thread[a].db]]
    PROVE  Inv'
<1> DEFINE c == a[1]
           said == [state |-> IF thread[a].answer = Error THEN "refused" ELSE "told",
                    answer |-> thread[a].answer, db |-> thread[a].db]
<1>1. Becomes(a, Ended) /\ ConnectionsCounted' /\ active' \in [Daemon -> 0..MaxConnections]
  BY EndsCounts
<1>2. Ended.pc = "end" /\ Ended.at = None
  BY DEF Ended
<1>3. /\ client' \in [Client -> [state: {"calling", "waiting", "told", "refused", "gave_up"},
                                 answer: Answer, db: Inode \cup {None}]]
      /\ \A b \in Client : client'[b].state = "calling" => client[b].state = "calling"
      /\ \A b \in Client : \/ client'[b] = client[b]
                           \/ b = c /\ client'[b] = said /\ thread[a].pc = "reply"
  <2>1. CASE client' = client
    BY <2>1 DEF Inv, TypeOK
  <2>2. CASE thread[a].pc = "reply" /\ client' = [client EXCEPT ![c] = said]
    <3>1. /\ said \in [state: {"calling", "waiting", "told", "refused", "gave_up"},
                       answer: Answer, db: Inode \cup {None}]
          /\ said.state # "calling"
      BY DEF Inv, TypeOK, Thread
    <3> HIDE DEF said
    <3> QED
      BY <2>2, <3>1, AttemptAsks DEF Inv, TypeOK
  <2> QED
    BY <2>1, <2>2
<1>4. Past \in SUBSET Past'
  BY <1>1, <1>2 DEF Past, Becomes
<1>5. RunsBounded' /\ runs' \in [Inode -> [Id -> Answer]]
  BY <1>4, RunsStay
<1>6. TypeOK'
  BY <1>1, <1>3, <1>5 DEF Inv, TypeOK, Becomes, Thread
<1>7. PlacesKnown' /\ FileExclusive'
  BY <1>1, <1>2 DEF Inv, PlacesKnown, FileExclusive, Becomes, HoldsFile, KnowsFile
<1>8. AttemptsLeft'
  BY <1>1, <1>2, <1>3 DEF Inv, AttemptsLeft, Becomes
<1>9. Underway' /\ Recorded'
  BY <1>1, <1>2 DEF Inv, Underway, Recorded, RowOf, Becomes
<1>10. ToldStands'
  <2>1. thread[a].pc = "reply" => thread[a].db \in Inode
    BY DEF Inv, PlacesKnown, KnowsFile
  <2>2. ASSUME NEW b \in Client, client'[b].state = "told"
        PROVE  /\ client'[b].db \in Inode
               /\ requests[client'[b].db][IdOf[b]].state = "succeeded"
               /\ requests[client'[b].db][IdOf[b]].op = OpOf[b]
               /\ requests[client'[b].db][IdOf[b]].answer = client'[b].answer
    <3>1. CASE client'[b] = client[b]
      BY <2>2, <3>1 DEF Inv, ToldStands
    <3>2. CASE b = c /\ client'[b] = said /\ thread[a].pc = "reply"
      BY <2>1, <2>2, <3>2, AttemptAsks DEF Inv, Recorded, RowOf
    <3> QED
      BY <1>3, <3>1, <3>2
  <2> QED
    BY <2>2 DEF ToldStands
<1>11. NothingSince'
  BY DEF Inv, NothingSince
<1> QED
  BY <1>1, <1>5, <1>6, <1>7, <1>8, <1>9, <1>10, <1>11 DEF Inv

LEMMA EndingsInv ==
    ASSUME Inv, NEW a \in Attempt, NotOpened(a) \/ Replaced(a) \/ Reply(a)
    PROVE  Inv'
<1>1. CASE NotOpened(a) \/ Replaced(a)
  BY <1>1, EndsInv DEF NotOpened, Replaced
<1>2. CASE Reply(a)
  BY <1>2, EndsInv DEF Reply
<1> QED
  BY <1>1, <1>2

-----------------------------------------------------------------------------
(* Clients. *)

\* The client's record, by its states.
ClientState == {"calling", "waiting", "told", "refused", "gave_up"}
ClientRecord == [state: ClientState, answer: Answer, db: Inode \cup {None}]

LEMMA ClientsTyped == ASSUME TypeOK PROVE client \in [Client -> ClientRecord]
BY DEF TypeOK, ClientRecord, ClientState

\* What a client's change of state leaves of its record, and of the others'.
LEMMA ClientGoes ==
    ASSUME TypeOK, NEW c \in Client, NEW s \in ClientState,
           client' = [client EXCEPT ![c].state = s]
    PROVE  /\ client' \in [Client -> ClientRecord]
           /\ \A e \in Client : \/ client'[e] = client[e] /\ e # c
                                \/ e = c /\ client'[e].state = s
<1> DEFINE new == [client[c] EXCEPT !.state = s]
<1>1. client \in [Client -> ClientRecord]
  BY ClientsTyped
<1>2. client[c] \in ClientRecord
  BY <1>1
<1>3. new \in ClientRecord /\ new.state = s
  BY <1>2 DEF ClientRecord
<1>4. client' = [client EXCEPT ![c] = new]
  OBVIOUS
<1> HIDE DEF new
<1>5. client' \in [Client -> ClientRecord]
  BY <1>1, <1>3, <1>4
<1>6. \A e \in Client : client'[e] = IF e = c THEN new ELSE client[e]
  BY <1>1, <1>4
<1>7. \A e \in Client : \/ client'[e] = client[e] /\ e # c
                        \/ e = c /\ client'[e].state = s
  <2> SUFFICES ASSUME NEW e \in Client
               PROVE  \/ client'[e] = client[e] /\ e # c
                      \/ e = c /\ client'[e].state = s
    OBVIOUS
  <2>1. CASE e = c
    BY <1>3, <1>6, <2>1
  <2>2. CASE e # c
    BY <1>6, <2>2
  <2> QED
    BY <2>1, <2>2
<1> QED
  BY <1>5, <1>7

\* A connection that is accepted is counted; one too many ends at once.
LEMMA SendInv == ASSUME Inv, NEW c \in Client, Send(c) PROVE Inv'
<1> DEFINE a == <<c, tries[c] + 1>>
           fresh(d) == [pc |-> "o_wait", at |-> d, db |-> None, answer |-> 0]
<1>1. /\ a \in Attempt /\ a[1] = c /\ a[2] = tries[c] + 1 /\ tries[c] \in 0..Attempts
      /\ tries[c] + 1 \in 0..Attempts /\ tries[c] \in Nat
  BY TypeAssumption DEF Send, Inv, TypeOK, AttemptsLeft, Attempt
<1>2. thread[a].pc = "none" /\ thread[a].at = None
  BY <1>1 DEF Inv, AttemptsLeft, PlacesKnown
<1>3. PICK d \in Daemon :
         IF Full(d)
         THEN thread' = [thread EXCEPT ![a] = Ended] /\ UNCHANGED active
         ELSE thread' = [thread EXCEPT ![a] = fresh(d)] /\ active' = [active EXCEPT ![d] = @ + 1]
  BY DEF Send
<1>4. PICK t \in {Ended, fresh(d)} : thread' = [thread EXCEPT ![a] = t]
  BY <1>3
<1>5. t \in Thread /\ t.pc \in {"o_wait", "end"} /\ (t.at = None <=> t.pc = "end")
  BY AttemptsFinite, NoneAssumption DEF Ended, Thread, Label, Error
<1> HIDE DEF a, fresh
<1>6. Becomes(a, t)
  BY <1>1, <1>4, <1>5, SetThread DEF Inv
<1>7. /\ client' = [client EXCEPT ![c].state = "waiting"]
      /\ tries' = [tries EXCEPT ![c] = @ + 1]
      /\ UNCHANGED <<file, requests, runs, daemon, faults>>
  BY DEF Send
<1>8. ConnectionsCounted' /\ active' \in [Daemon -> 0..MaxConnections]
  <2>1. CASE thread' = [thread EXCEPT ![a] = Ended] /\ UNCHANGED active
    <3>1. Becomes(a, Ended)
      BY <2>1, <1>1, SetThread, AttemptsFinite DEF Ended, Thread, Label, Error, Inv
    <3>2. \A b \in Attempt : thread'[b].at = thread[b].at
      BY <1>2, <3>1 DEF Becomes, Ended
    <3> QED
      BY <2>1, <3>2, CountsStay
  <2>2. CASE /\ ~Full(d) /\ thread' = [thread EXCEPT ![a] = fresh(d)]
             /\ active' = [active EXCEPT ![d] = @ + 1]
    <3> DEFINE On(e) == {b \in Attempt : thread[b].at = e}
               Now(e) == {b \in Attempt : thread'[b].at = e}
    <3>1. fresh(d) \in Thread /\ fresh(d).at = d
      BY AttemptsFinite DEF fresh, Thread, Label, Error
    <3>2. Becomes(a, fresh(d))
      BY <2>2, <3>1, <1>1, SetThread DEF Inv
    <3>3. \A e \in Daemon : e # d => Now(e) = On(e)
      BY <1>1, <1>2, <3>1, <3>2, NoneAssumption DEF Becomes
    <3>4. Now(d) = On(d) \cup {a} /\ a \notin On(d)
      BY <1>1, <1>2, <3>1, <3>2, NoneAssumption DEF Becomes
    <3>5. IsFiniteSet(On(d)) /\ Cardinality(On(d)) \in Nat
      BY SomeAttempts
    <3>6. \A e \in Daemon : /\ active[e] = Cardinality(On(e)) /\ active[e] <= MaxConnections
                            /\ active[e] \in 0..MaxConnections
      BY DEF Inv, ConnectionsCounted, TypeOK
    <3>7. active[d] # MaxConnections /\ active \in [Daemon -> 0..MaxConnections]
      BY <2>2 DEF Full, Inv, TypeOK
    <3> HIDE DEF On, Now
    <3>8. Cardinality(Now(d)) = Cardinality(On(d)) + 1
      BY <3>4, <3>5, FS_AddElement
    <3>9. /\ active' \in [Daemon -> 0..MaxConnections]
          /\ \A e \in Daemon : active'[e] = Cardinality(Now(e))
      BY <2>2, <3>3, <3>6, <3>7, <3>8, TypeAssumption
    <3> QED
      BY <3>9, TypeAssumption DEF ConnectionsCounted, Now
  <2> QED
    BY <1>3, <2>1, <2>2
<1>9. Past \in SUBSET Past'
  BY <1>2, <1>6 DEF Past, Becomes
<1>10. RunsBounded' /\ runs' \in [Inode -> [Id -> Answer]]
  BY <1>7, <1>9, RunsStay
<1>11. tries' \in [Client -> 0..Attempts] /\ tries'[c] = tries[c] + 1
       /\ \A e \in Client : e # c => tries'[e] = tries[e]
  BY <1>1, <1>7 DEF Inv, TypeOK
<1>12. TypeOK'
  <2>1. client' \in [Client -> ClientRecord]
    <3>1. TypeOK /\ "waiting" \in ClientState
      BY DEF Inv, ClientState
    <3> QED
      BY <1>7, <3>1, ClientGoes
  <2> QED
    BY <1>6, <1>7, <1>8, <1>10, <1>11, <2>1
    DEF Inv, TypeOK, Becomes, Thread, ClientRecord, ClientState
<1>13. PlacesKnown' /\ FileExclusive'
  BY <1>5, <1>6, <1>7 DEF Inv, PlacesKnown, FileExclusive, Becomes, HoldsFile, KnowsFile
<1>14. AttemptsLeft'
  <2>1. \A e \in Client : client'[e].state = "calling" => e # c /\ client[e].state = "calling"
    BY <1>7 DEF Inv, TypeOK
  <2>2. \A e \in Client : client'[e].state = "calling" => tries'[e] < Attempts
    BY <1>11, <2>1 DEF Inv, AttemptsLeft
  <2>3. ASSUME NEW b \in Attempt, tries'[b[1]] < b[2] PROVE thread'[b].pc = "none"
    <3>1. b # a
      BY <1>1, <1>11, <2>3
    <3>2. tries[b[1]] < b[2]
      <4>1. b[1] \in Client /\ tries[b[1]] \in Nat /\ b[2] \in Nat
        BY AttemptAsks, TypeAssumption DEF Inv, TypeOK
      <4> QED
        BY <1>1, <1>11, <2>3, <4>1
    <3> QED
      BY <1>6, <3>1, <3>2 DEF Inv, AttemptsLeft, Becomes
  <2> QED
    BY <2>2, <2>3 DEF AttemptsLeft
<1>15. Underway' /\ Recorded'
  BY <1>5, <1>6, <1>7 DEF Inv, Underway, Recorded, RowOf, Becomes
<1>16. ToldStands' /\ NothingSince'
  BY <1>7 DEF Inv, TypeOK, ToldStands, NothingSince
<1> QED
  BY <1>8, <1>10, <1>12, <1>13, <1>14, <1>15, <1>16 DEF Inv

\* A client that calls again has an attempt left.
LEMMA FailsInv == ASSUME Inv, NEW c \in Client, Fails(c) PROVE Inv'
<1>1. UNCHANGED <<file, requests, runs, daemon, thread, active, faults>>
  BY DEF Fails
<1>2. PICK s \in {"gave_up", "calling"} :
         client' = [client EXCEPT ![c].state = s] /\ (s = "calling" => tries'[c] # Attempts)
  BY DEF Fails, GivesUpAfter
<1>3. /\ client' \in [Client -> ClientRecord]
      /\ \A e \in Client : \/ client'[e] = client[e] /\ e # c
                           \/ e = c /\ client'[e].state = s
  <2>1. TypeOK /\ s \in ClientState
    BY DEF Inv, ClientState
  <2>2. client' = [client EXCEPT ![c].state = s]
    BY <1>2
  <2> QED
    BY <2>1, <2>2, ClientGoes
<1>4. /\ tries' \in [Client -> 0..Attempts]
      /\ \A e \in Client : tries[e] <= tries'[e] /\ (e # c => tries'[e] = tries[e])
  <2>1. tries[c] \in 0..Attempts /\ Attempts \in Nat /\ tries \in [Client -> 0..Attempts]
    BY TypeAssumption DEF Inv, TypeOK
  <2>2. \/ tries' = tries
        \/ tries[c] + 1 \in 0..Attempts /\ tries' = [tries EXCEPT ![c] = @ + 1]
    BY <2>1 DEF Inv, Fails, AttemptsLeft
  <2> QED
    BY <2>1, <2>2
<1>5. ConnectionsCounted'
  BY <1>1, CountsStay
<1>6. Past \in SUBSET Past'
  BY <1>1 DEF Past
<1>7. RunsBounded'
  BY <1>1, <1>6, RunsStay
<1>8. TypeOK'
  BY <1>1, <1>3, <1>4 DEF Inv, TypeOK, ClientRecord, ClientState
<1>9. AttemptsLeft'
  <2>1. \A e \in Client : client'[e].state = "calling" => tries'[e] < Attempts
    BY <1>2, <1>3, <1>4, TypeAssumption DEF Inv, AttemptsLeft
  <2>2. ASSUME NEW b \in Attempt, tries'[b[1]] < b[2] PROVE thread'[b].pc = "none"
    <3>1. tries[b[1]] < b[2]
      BY <1>4, <2>2, AttemptAsks, TypeAssumption DEF Inv, TypeOK
    <3> QED
      BY <1>1, <3>1 DEF Inv, AttemptsLeft
  <2> QED
    BY <2>1, <2>2 DEF AttemptsLeft
<1>10. ToldStands'
  BY <1>1, <1>2, <1>3 DEF Inv, ToldStands
<1>11. PlacesKnown' /\ FileExclusive' /\ Underway' /\ Recorded' /\ NothingSince'
  BY <1>1 DEF Inv, PlacesKnown, FileExclusive, Underway, Recorded, RowOf, NothingSince
<1> QED
  BY <1>5, <1>7, <1>8, <1>9, <1>10, <1>11 DEF Inv

-----------------------------------------------------------------------------
(* Daemons and faults. *)

\* A starting daemon takes the flock of a file only if nobody holds it.
LEMMA StartInv == ASSUME Inv, NEW d \in Daemon, Start(d) PROVE Inv'
<1> DEFINE f == file[NameOf[d]]
<1>1. f \in Inode
  BY TypeAssumption DEF Inv, TypeOK
<1>2. PICK to \in [pc: {"down", "s_wait", "s_name", "s_file", "up"}, db: Inode \cup {None}] :
         /\ daemon' = [daemon EXCEPT ![d] = to]
         /\ to.pc = "s_file" => to.db = f /\ FileFree(f)
  <2> DEFINE to(pc, db) == [pc |-> pc, db |-> db]
  <2>1. PICK pc \in {"down", "s_wait", "s_name", "s_file", "up"}, db \in {None, f} :
           /\ daemon' = [daemon EXCEPT ![d] = to(pc, db)]
           /\ pc = "s_file" => db = f /\ FileFree(f)
    BY DEF Start, Startup
  <2>2. to(pc, db) \in [pc: {"down", "s_wait", "s_name", "s_file", "up"}, db: Inode \cup {None}]
        /\ to(pc, db).pc = pc /\ to(pc, db).db = db
    BY <1>1
  <2> HIDE DEF to
  <2> QED
    BY <2>1, <2>2
<1>3. UNCHANGED <<file, requests, runs, client, tries, thread, active, faults>>
  BY DEF Start, Startup
<1>4. /\ daemon' \in [Daemon -> [pc: {"down", "s_wait", "s_name", "s_file", "up"},
                                 db: Inode \cup {None}]]
      /\ \A e \in Daemon : daemon'[e] = IF e = d THEN to ELSE daemon[e]
  BY <1>2 DEF Inv, TypeOK
<1> HIDE DEF f
<1>5. TypeOK'
  BY <1>3, <1>4 DEF Inv, TypeOK
<1>6. PlacesKnown'
  BY <1>1, <1>2, <1>3, <1>4 DEF Inv, PlacesKnown
<1>7. FileExclusive'
  BY <1>1, <1>2, <1>3, <1>4 DEF Inv, FileExclusive, FileFree
<1>8. ConnectionsCounted'
  BY <1>3, CountsStay
<1>9. Past \in SUBSET Past'
  BY <1>3 DEF Past
<1>10. RunsBounded'
  BY <1>3, <1>9, RunsStay
<1>11. AttemptsLeft' /\ Underway' /\ Recorded' /\ ToldStands' /\ NothingSince'
  BY <1>3 DEF Inv, AttemptsLeft, Underway, Recorded, RowOf, ToldStands, NothingSince
<1> QED
  BY <1>5, <1>6, <1>7, <1>8, <1>10, <1>11 DEF Inv

\* A crash ends the threads of a daemon, and with it its connections.
LEMMA CrashInv == ASSUME Inv, NEW d \in Daemon, Crash(d) PROVE Inv'
<1> DEFINE down == [pc |-> "down", db |-> None]
<1>1. UNCHANGED <<file, requests, runs, client, tries>>
  BY DEF Crash
<1>2. /\ daemon' \in [Daemon -> [pc: {"down", "s_wait", "s_name", "s_file", "up"},
                                 db: Inode \cup {None}]]
      /\ \A e \in Daemon : daemon'[e] = IF e = d THEN down ELSE daemon[e]
  BY DEF Crash, Inv, TypeOK
<1>3. /\ thread' \in [Attempt -> Thread]
      /\ \A a \in Attempt : thread'[a] = IF thread[a].at = d THEN Ended ELSE thread[a]
  <2>1. Ended \in Thread
    BY AttemptsFinite DEF Ended, Thread, Label, Error
  <2> QED
    BY <2>1 DEF Crash, Inv, TypeOK, Thread
<1>4. faults' \in 0..Faults
  BY TypeAssumption DEF Crash, Fault, Inv, TypeOK
<1>5. ConnectionsCounted' /\ active' \in [Daemon -> 0..MaxConnections]
  <2> DEFINE Now(e) == {a \in Attempt : thread'[a].at = e}
             On(e) == {a \in Attempt : thread[a].at = e}
  <2>1. Now(d) = {} /\ \A e \in Daemon : e # d => Now(e) = On(e)
    BY <1>3, NoneAssumption DEF Ended
  <2>2. \A e \in Daemon : /\ active[e] = Cardinality(On(e)) /\ active[e] <= MaxConnections
                          /\ active[e] \in 0..MaxConnections
    BY DEF Inv, ConnectionsCounted, TypeOK
  <2>3. active' = [active EXCEPT ![d] = 0] /\ active \in [Daemon -> 0..MaxConnections]
    BY DEF Crash, Inv, TypeOK
  <2> HIDE DEF Now, On
  <2>4. /\ active' \in [Daemon -> 0..MaxConnections]
        /\ \A e \in Daemon : active'[e] = Cardinality(Now(e))
    BY <2>1, <2>2, <2>3, FS_EmptySet, TypeAssumption
  <2> QED
    BY <2>4, TypeAssumption DEF ConnectionsCounted, Now
<1>6. Past \in SUBSET Past'
  BY <1>3 DEF Past, Ended
<1>7. RunsBounded' /\ runs' \in [Inode -> [Id -> Answer]]
  BY <1>1, <1>6, RunsStay
<1>8. TypeOK'
  BY <1>1, <1>2, <1>3, <1>4, <1>5, <1>7 DEF Inv, TypeOK, Thread
<1>9. PlacesKnown'
  BY <1>2, <1>3 DEF Inv, PlacesKnown, Ended, KnowsFile, HoldsFile
<1>10. FileExclusive'
  BY <1>2, <1>3 DEF Inv, FileExclusive, Ended, HoldsFile
<1>11. AttemptsLeft'
  BY <1>1, <1>3, NoneAssumption DEF Inv, AttemptsLeft, PlacesKnown
<1>12. Underway' /\ Recorded'
  BY <1>1, <1>3 DEF Inv, Underway, Recorded, RowOf, Ended
<1>13. ToldStands' /\ NothingSince'
  BY <1>1 DEF Inv, ToldStands, NothingSince
<1> QED
  BY <1>5, <1>7, <1>8, <1>9, <1>10, <1>11, <1>12, <1>13 DEF Inv

\* Nothing that is recorded depends on the names of files.
LEMMA ReplaceInv == ASSUME Inv, NEW n \in Name, Replace(n) PROVE Inv'
<1>1. /\ file' \in [Name -> Inode] /\ faults' \in 0..Faults
      /\ UNCHANGED <<requests, runs, daemon, client, tries, thread, active>>
  BY TypeAssumption DEF Replace, Fault, Inv, TypeOK
<1>2. Past' = Past
  BY <1>1 DEF Past
<1>3. TypeOK'
  BY <1>1 DEF Inv, TypeOK
<1>4. ConnectionsCounted'
  BY <1>1, CountsStay
<1>5. RunsBounded'
  BY <1>1, <1>2, RunsStay
<1>6. PlacesKnown' /\ AttemptsLeft' /\ FileExclusive'
  BY <1>1 DEF Inv, PlacesKnown, AttemptsLeft, FileExclusive
<1>7. Underway' /\ Recorded' /\ ToldStands' /\ NothingSince'
  BY <1>1 DEF Inv, Underway, Recorded, RowOf, ToldStands, NothingSince
<1> QED
  BY <1>3, <1>4, <1>5, <1>6, <1>7 DEF Inv

-----------------------------------------------------------------------------
(* The invariant, and what it says. *)

LEMMA InitInv == Init => Inv
<1> SUFFICES ASSUME Init PROVE Inv
  OBVIOUS
<1>1. TypeOK
  BY TypeAssumption, AttemptsFinite DEF Init, TypeOK, Row, Label, Answer, Error
<1>2. \A d \in Daemon : {a \in Attempt : thread[a].at = d} = {}
  BY NoneAssumption DEF Init
<1>3. ConnectionsCounted
  <2>1. \A d \in Daemon : active[d] = 0 /\ Cardinality({a \in Attempt : thread[a].at = d}) = 0
    BY <1>2, FS_EmptySet DEF Init
  <2> QED
    BY <2>1, TypeAssumption DEF ConnectionsCounted
<1>4. RunsBounded
  BY SomeAttempts DEF Init, RunsBounded, Past
<1>5. PlacesKnown /\ AttemptsLeft /\ FileExclusive
  BY TypeAssumption DEF Init, PlacesKnown, AttemptsLeft, FileExclusive, HoldsFile, KnowsFile
<1>6. Underway /\ Recorded /\ ToldStands /\ NothingSince
  BY DEF Init, Underway, Recorded, ToldStands, NothingSince
<1> QED
  BY <1>1, <1>3, <1>4, <1>5, <1>6 DEF Inv

LEMMA StutterInv == Inv /\ UNCHANGED vars => Inv'
<1> SUFFICES ASSUME Inv, UNCHANGED vars PROVE Inv'
  OBVIOUS
<1>1. UNCHANGED <<file, requests, runs, daemon, client, tries, thread, active, faults>>
  BY DEF vars
<1>2. Past' = Past
  BY <1>1 DEF Past
<1>3. RunsBounded' /\ ConnectionsCounted'
  BY <1>1, <1>2, RunsStay, CountsStay
<1>4. TypeOK'
  BY <1>1 DEF Inv, TypeOK
<1>5. PlacesKnown' /\ AttemptsLeft' /\ FileExclusive'
  BY <1>1 DEF Inv, PlacesKnown, AttemptsLeft, FileExclusive
<1>6. Underway' /\ Recorded' /\ ToldStands' /\ NothingSince'
  BY <1>1 DEF Inv, Underway, Recorded, RowOf, ToldStands, NothingSince
<1> QED
  BY <1>3, <1>4, <1>5, <1>6 DEF Inv

\* Every step of the journal preserves the invariant.
LEMMA NextInv == Inv /\ [Next]_vars => Inv'
<1> SUFFICES ASSUME Inv, [Next]_vars PROVE Inv'
  OBVIOUS
<1>1. ASSUME NEW d \in Daemon, Start(d) \/ Crash(d) PROVE Inv'
  BY <1>1, StartInv, CrashInv
<1>2. ASSUME NEW c \in Client, Send(c) \/ Fails(c) PROVE Inv'
  BY <1>2, SendInv, FailsInv
<1>3. ASSUME NEW a \in Attempt, Serve(a) PROVE Inv'
  BY <1>3, LocksInv, TakeFileInv, EndingsInv, BeginInv, ExecuteInv, FinishInv DEF Serve
<1>4. ASSUME NEW n \in Name, Replace(n) PROVE Inv'
  BY <1>4, ReplaceInv
<1> QED
  BY <1>1, <1>2, <1>3, <1>4, StutterInv DEF Next

LEMMA InvHolds == Spec => []Inv
  BY InitInv, NextInv, PTL DEF Spec

\* Every variable stays in its type, for any number of clients, daemons and files.
THEOREM TypeOKHolds == Spec => []TypeOK
  BY InvHolds, PTL DEF Inv

\* Requests on one database are executed one at a time.
THEOREM OneAtATimeHolds == Spec => []OneAtATime
<1>1. Inv => OneAtATime
  BY DEF Inv, FileExclusive, OneAtATime, HoldsFile
<1> QED
  BY <1>1, InvHolds, PTL

\* A request whose success is recorded is not executed again.
THEOREM NothingSinceHolds == Spec => []NothingSince
  BY InvHolds, PTL DEF Inv

\* Nobody is told the result of another operation.
THEOREM AnswerIsOwnHolds == Spec => []AnswerIsOwn
<1>1. Inv => AnswerIsOwn
  BY DEF Inv, ToldStands, AnswerIsOwn
<1> QED
  BY <1>1, InvHolds, PTL

\* A daemon counts as many connections as it has threads, and not too many.
THEOREM ConnectionsCountedHolds == Spec => []ConnectionsCounted
  BY InvHolds, PTL DEF Inv

-----------------------------------------------------------------------------
(* The journal implements OnceOnly. *)

\* A decision is taken by complete_request, a client is told by the answer that
\* arrives, and every other step changes neither.
LEMMA NextOnce == Inv /\ Inv' /\ [Next]_vars => [Once!Next]_Once!vars
<1> SUFFICES ASSUME Inv, Inv', [Next]_vars PROVE [Once!Next]_Once!vars
  OBVIOUS
<1> DEFINE D == [q \in Inode \X Id |->
                   LET row == requests[q[1]][q[2]]
                   IN  IF row.state = "succeeded" THEN row.answer ELSE None]
           T == [c \in Client |-> IF client[c].state = "told" THEN client[c].answer ELSE None]
           Decides == \E r \in Inode \X Id, n \in Answer :
                         D[r] = None /\ D' = [D EXCEPT ![r] = n] /\ T' = T
           Tells == \E c \in Client : \E r \in Inode \X {IdOf[c]} :
                       T[c] = None /\ D[r] # None /\ T' = [T EXCEPT ![c] = D[r]] /\ D' = D
<1>1. SUFFICES Decides \/ Tells \/ (D' = D /\ T' = T)
  <2>1. Decides => Once!Next
    BY DEF Once!Next, Once!Decide
  <2>2. Tells => Once!Next
    BY DEF Once!Next, Once!Tell
  <2>3. D' = D /\ T' = T => UNCHANGED Once!vars
    BY DEF Once!vars
  <2> HIDE DEF Decides, Tells
  <2> QED
    BY <2>1, <2>2, <2>3
<1>2. requests' = requests => D' = D
  OBVIOUS
<1>3. client' = client => T' = T
  OBVIOUS
<1>4. CASE requests' = requests /\ client' = client
  BY <1>2, <1>3, <1>4
<1>5. ASSUME NEW c \in Client, Send(c) \/ Fails(c) PROVE D' = D /\ T' = T
  <2>1. /\ requests' = requests /\ client[c].state \in {"calling", "waiting"}
        /\ \E s \in {"calling", "waiting", "gave_up"} : client' = [client EXCEPT ![c].state = s]
    BY <1>5 DEF Send, Fails
  <2>2. \A b \in Client : /\ client'[b].state = "told" <=> client[b].state = "told"
                          /\ client'[b].answer = client[b].answer
    BY <2>1 DEF Inv, TypeOK
  <2> QED
    BY <1>2, <2>1, <2>2
\* begin_request touches no decided row.
<1>6. ASSUME NEW a \in Attempt, Begin(a) PROVE D' = D /\ T' = T
  <2> DEFINE f == thread[a].db
             i == IdAt(a)
  <2>1. client' = client /\ f \in Inode /\ i \in Id
    BY <1>6, AttemptAsks DEF Begin, Inv, PlacesKnown, KnowsFile, HoldsFile
  <2>2. CASE requests' = requests
    BY <1>2, <1>3, <2>1, <2>2
  <2>3. CASE /\ ~Decided(requests[f][i])
             /\ requests' = [requests EXCEPT ![f][i] =
                               [state |-> "started", op |-> OpOf[a[1]], answer |-> 0]]
    <3>1. \A g \in Inode, r \in Id :
             \/ requests'[g][r] = requests[g][r]
             \/ requests'[g][r].state = "started" /\ requests[g][r].state # "succeeded"
      BY <2>1, <2>3 DEF Decided, Inv, TypeOK
    <3> QED
      BY <1>3, <2>1, <3>1
  <2> QED
    BY <1>6, <2>2, <2>3 DEF Begin
\* complete_request decides, fail_request does not.
<1>7. ASSUME NEW a \in Attempt, Finish(a) PROVE Decides \/ (D' = D /\ T' = T)
  <2> DEFINE f == thread[a].db
             i == IdAt(a)
             row == requests[f][i]
  <2>1. /\ thread[a].pc \in {"done", "failed"} /\ f \in Inode /\ i \in Id /\ row \in Row
        /\ row.state = "started" /\ runs[f][i] \in Answer /\ client' = client
    BY <1>7, AttemptAsks
    DEF Finish, Inv, PlacesKnown, KnowsFile, HoldsFile, Underway, RowOf, TypeOK
  <2>2. PICK answer \in {runs[f][i], Error}, state \in {"succeeded", "failed"} :
           requests' = [requests EXCEPT ![f][i] = [row EXCEPT !.state = state, !.answer = answer]]
    BY <1>7 DEF Finish, Error
  <2>3. answer \in Answer
    BY <2>1, AttemptsFinite
  <2>4. \A g \in Inode, r \in Id :
           IF g = f /\ r = i THEN requests'[g][r].state = state /\ requests'[g][r].answer = answer
           ELSE requests'[g][r] = requests[g][r]
    BY <2>1, <2>2 DEF Inv, TypeOK, Row
  <2> HIDE DEF f, i
  <2>5. D[<<f, i>>] = None /\ <<f, i>> \in Inode \X Id
    BY <2>1 DEF f, i
  <2>6. CASE state = "succeeded"
    <3>1. D' = [D EXCEPT ![<<f, i>>] = answer]
      <4>1. \A q \in Inode \X Id : q = <<q[1], q[2]>> /\ q[1] \in Inode /\ q[2] \in Id
        OBVIOUS
      <4>2. \A q \in Inode \X Id : D'[q] = IF q = <<f, i>> THEN answer ELSE D[q]
        BY <2>4, <2>6, <4>1
      <4>3. D \in [Inode \X Id -> Answer \cup {None}] /\ D' = [q \in Inode \X Id |-> D'[q]]
        BY DEF Inv, TypeOK, Row
      <4> HIDE DEF D
      <4> QED
        BY <4>2, <4>3
    <3> QED
      BY <1>3, <2>1, <2>3, <2>5, <3>1
  <2>7. CASE state = "failed"
    <3>1. \A q \in Inode \X Id : D'[q] = D[q]
      <4>1. \A q \in Inode \X Id : q = <<q[1], q[2]>> /\ q[1] \in Inode /\ q[2] \in Id
        OBVIOUS
      <4>2. requests[f][i].state = "started"
        BY <2>1 DEF f, i
      <4> QED
        BY <2>4, <2>7, <4>1, <4>2
    <3>2. D' = [q \in Inode \X Id |-> D'[q]] /\ D = [q \in Inode \X Id |-> D[q]]
      OBVIOUS
    <3> HIDE DEF D
    <3>3. D' = D
      BY <3>1, <3>2
    <3> QED
      BY <1>3, <2>1, <3>3
  <2> QED
    BY <2>6, <2>7
\* An answer that arrives and is a success is the decision that is recorded.
<1>8. ASSUME NEW a \in Attempt, Reply(a) PROVE Tells \/ (D' = D /\ T' = T)
  <2> DEFINE c == a[1]
             n == thread[a].answer
  <2>1. /\ c \in Client /\ IdAt(a) = IdOf[c] /\ IdOf[c] \in Id
        /\ requests' = requests /\ thread[a].pc = "reply" /\ thread[a].db \in Inode
    BY <1>8, AttemptAsks DEF Reply, Inv, PlacesKnown, KnowsFile
  <2>2. CASE client' = client
    BY <1>2, <1>3, <2>1, <2>2
  <2>3. CASE /\ client[c].state = "waiting"
             /\ client' = [client EXCEPT ![c] =
                  [state |-> IF n = Error THEN "refused" ELSE "told",
                   answer |-> n, db |-> thread[a].db]]
    <3> DEFINE q == <<thread[a].db, IdOf[c]>>
    <3>1. T[c] = None
      BY <2>1, <2>3
    <3>2. CASE n = Error
      <4>1. \A b \in Client : client'[b].state = "told" <=> client[b].state = "told"
        BY <2>1, <2>3, <3>2 DEF Inv, TypeOK
      <4>2. \A b \in Client : b # c => client'[b] = client[b]
        BY <2>3 DEF Inv, TypeOK
      <4>3. client[c].state # "told"
        BY <2>3
      <4> QED
        <5>1. \A b \in Client : T'[b] = T[b]
          BY <4>1, <4>2, <4>3
        <5>2. T' = [b \in Client |-> T'[b]] /\ T = [b \in Client |-> T[b]]
          OBVIOUS
        <5> HIDE DEF T
        <5>3. T' = T
          BY <5>1, <5>2
        <5> QED
          BY <1>2, <2>1, <5>3
    <3>3. CASE n # Error
      <4>1. q \in Inode \X {IdOf[c]} /\ q \in Inode \X Id /\ D[q] = n
        BY <2>1, <3>3 DEF Inv, Recorded, RowOf
      <4>2. T' = [T EXCEPT ![c] = n]
        BY <2>1, <2>3, <3>3 DEF Inv, TypeOK
      <4>3. n = None => T' = T
        BY <3>1, <4>2
      <4> QED
        <5>1. D' = D
          BY <1>2, <2>1
        <5> HIDE DEF D, T
        <5> QED
          BY <2>1, <3>1, <4>1, <4>2, <4>3, <5>1
    <3> QED
      BY <3>2, <3>3
  <2> QED
    BY <1>8, <2>2, <2>3 DEF Reply
<1>9. ASSUME NEW a \in Attempt, Serve(a) PROVE Decides \/ Tells \/ (D' = D /\ T' = T)
  <2>1. \/ Begin(a) \/ Finish(a) \/ Reply(a)
        \/ requests' = requests /\ client' = client
    BY <1>9 DEF Serve, TakeMutex, TakeName, TakeFile, NotOpened, Opened, Replaced, Execute, Goto
  <2> QED
    BY <1>2, <1>3, <1>6, <1>7, <1>8, <2>1
<1>10. \/ requests' = requests /\ client' = client
       \/ \E c \in Client : Send(c) \/ Fails(c)
       \/ \E a \in Attempt : Serve(a)
  BY DEF Next, vars, Start, Startup, Crash, Replace
<1> QED
  BY <1>4, <1>5, <1>9, <1>10

THEOREM JournalImplementsOnce == Spec => ImplementsOnce
<1>1. Init => Once!Init
  BY DEF Init, Once!Init
<1> QED
  BY <1>1, NextOnce, InvHolds, PTL DEF Spec, ImplementsOnce, Once!Spec
=============================================================================

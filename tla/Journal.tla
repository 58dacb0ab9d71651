------------------------------ MODULE Journal ------------------------------
(***************************************************************************)
(* The daemon's request journal: clients that time out and repeat their    *)
(* requests, daemons that crash and start again, and the threads that      *)
(* serve one attempt each under three locks, all of them held by whoever   *)
(* is at a label of a set (Holds): the request mutex of the daemon, the    *)
(* flock of the name under which the daemon opened the database, and the   *)
(* flock of the database file itself.                                      *)
(*                                                                         *)
(* A database may have several names (links) and a name may come to stand  *)
(* for another file.  A request is executed as a whole (module Lifecycle   *)
(* has the steps); what its answer says is the number of the execution.    *)
(***************************************************************************)
EXTENDS Naturals, FiniteSets

CONSTANTS
    Daemon,     \* daemon processes
    Name,       \* names of database files
    Inode,      \* identities of database files (device and inode)
    NameOf,     \* the name under which each daemon opens its database
    File0,      \* the file behind each name at first
    Client,     \* invocations of a client
    Id, IdOf,   \* request ids, and the one each client uses
    OpOf,       \* the operation (a hash of method and parameters) it asks for
    Attempts,   \* how often a client sends its request: its retries and one
    MaxConnections, \* connections a daemon serves at a time (64)
    Faults,     \* bound: crashes of daemons and replacements of database files
    None

ASSUME TypeAssumption ==
    /\ NameOf \in [Daemon -> Name] /\ File0 \in [Name -> Inode]
    /\ IdOf \in [Client -> Id]
    /\ Attempts \in Nat \ {0} /\ MaxConnections \in Nat \ {0} /\ Faults \in Nat
ASSUME NoneAssumption == None \notin Daemon \cup Inode
ASSUME ClientAssumption == IsFiniteSet(Client)

VARIABLES
    file,       \* the file behind each name
    requests,   \* the requests table of each file
    runs,       \* how often each request took effect, by file
    daemon,     \* startup of each daemon, and the file it opened for it
    client,     \* what each client waits for or was told
    tries,      \* attempts each client has made
    thread,     \* the thread that serves each attempt
    active,     \* active_connections of each daemon
    faults      \* how many faults there have been

vars == <<file, requests, runs, daemon, client, tries, thread, active, faults>>

Attempt == Client \X (1..Attempts)
IdAt(a) == IdOf[a[1]]

\* The labels at which a thread holds the mutex, the name and the file: from
\* the first of its two stints (opening a service of its own: o) and from the
\* second (handle_idempotent: h) to their ends.
Label == {"none", "o_wait", "o_mutex", "o_name", "o_file", "h_wait", "h_mutex",
          "h_name", "h_file", "run", "done", "failed", "reply", "end"}
HoldsBriefly == {"o_file", "h_file"}   \* mutant: the locks are let go before execution
HoldsFile == {"o_file", "h_file", "run", "done", "failed"}
HoldsName == HoldsFile \cup {"o_name", "h_name"}
HoldsMutexOn == HoldsName \cup {"o_mutex", "h_wait", "h_mutex"}   \* mutant: kept after opening
HoldsMutex == HoldsName \cup {"o_mutex", "h_mutex"}

\* An answer: the number of the execution, or an error (which is retried by
\* no client: no error the daemon answers with has a code that is).
Answer == 0..Cardinality(Attempt)
Error == 0
Row == [state: {"none", "started", "succeeded", "failed"}, op: {OpOf[c] : c \in Client} \cup {None},
        answer: Answer]

TypeOK ==
    /\ file \in [Name -> Inode]
    /\ requests \in [Inode -> [Id -> Row]]
    /\ runs \in [Inode -> [Id -> Answer]]
    /\ daemon \in [Daemon -> [pc: {"down", "s_wait", "s_name", "s_file", "up"},
                              db: Inode \cup {None}]]
    /\ client \in [Client -> [state: {"calling", "waiting", "told", "refused", "gave_up"},
                              answer: Answer, db: Inode \cup {None}]]
    /\ tries \in [Client -> 0..Attempts]
    /\ thread \in [Attempt -> [pc: Label, at: Daemon \cup {None}, db: Inode \cup {None},
                               answer: Answer]]
    /\ active \in [Daemon -> 0..MaxConnections]
    /\ faults \in 0..Faults

Init ==
    /\ file = File0
    /\ requests = [f \in Inode |-> [r \in Id |-> [state |-> "none", op |-> None, answer |-> 0]]]
    /\ runs = [f \in Inode |-> [r \in Id |-> 0]]
    /\ daemon = [d \in Daemon |-> [pc |-> "down", db |-> None]]
    /\ client = [c \in Client |-> [state |-> "calling", answer |-> 0, db |-> None]]
    /\ tries = [c \in Client |-> 0]
    /\ thread = [a \in Attempt |-> [pc |-> "none", at |-> None, db |-> None, answer |-> 0]]
    /\ active = [d \in Daemon |-> 0]
    /\ faults = 0

-----------------------------------------------------------------------------
(* Locks. *)

MutexFree(d) ==
    \A a \in Attempt : thread[a].pc \in HoldsMutex => thread[a].at # d

NameFree(n) ==
    /\ \A a \in Attempt : thread[a].pc \in HoldsName => NameOf[thread[a].at] # n
    /\ \A d \in Daemon : daemon[d].pc \in {"s_name", "s_file"} => NameOf[d] # n

FileFreeAlways(f) == TRUE   \* mutant: only the name is locked
FileFree(f) ==
    /\ \A a \in Attempt : thread[a].pc \in HoldsFile => thread[a].db # f
    /\ \A d \in Daemon : daemon[d].pc = "s_file" => daemon[d].db # f

-----------------------------------------------------------------------------
(* Starting a daemon: both flocks are taken, in the order of the handlers,   *)
(* for a reconciliation, which fails if the file was replaced meanwhile.     *)
(* Other failures to start are faults (Crash).                               *)

Startup(d, from, to) ==
    /\ daemon[d].pc = from /\ daemon' = [daemon EXCEPT ![d] = to]
    /\ UNCHANGED <<file, requests, runs, client, tries, thread, active, faults>>

Start(d) ==
    LET f == file[NameOf[d]]
        at(pc, db) == [pc |-> pc, db |-> db]
    IN  \/ Startup(d, "down", at("s_wait", None))
        \/ NameFree(NameOf[d]) /\ Startup(d, "s_wait", at("s_name", None))
        \/ FileFree(f) /\ Startup(d, "s_name", at("s_file", f))
        \/ f = daemon[d].db /\ Startup(d, "s_file", at("up", None))
        \/ f # daemon[d].db /\ Startup(d, "s_file", at("down", None))

-----------------------------------------------------------------------------
(* Clients. *)

\* What is left to know of a thread that has ended.
Ended == [pc |-> "end", at |-> None, db |-> None, answer |-> 0]

Full(d) == active[d] = MaxConnections

\* One more attempt, to whatever daemon answers.  A daemon that serves as many as
\* it may closes the connection instead of starting a thread.
Send(c) ==
    /\ client[c].state = "calling"
    /\ tries' = [tries EXCEPT ![c] = @ + 1]
    /\ \E d \in Daemon :
          LET a == <<c, tries[c] + 1>>
          IN  /\ daemon[d].pc = "up"
              /\ IF Full(d)
                 THEN thread' = [thread EXCEPT ![a] = Ended] /\ UNCHANGED active
                 ELSE /\ thread' = [thread EXCEPT ![a] =
                                      [pc |-> "o_wait", at |-> d, db |-> None, answer |-> 0]]
                      /\ active' = [active EXCEPT ![d] = @ + 1]
    /\ client' = [client EXCEPT ![c].state = "waiting"]
    /\ UNCHANGED <<file, requests, runs, daemon, faults>>

GivesUpLate(n) == n > Attempts   \* mutant: one retry too many
GivesUpAfter(n) == n = Attempts

\* The attempt failed: no daemon, no answer in time, or the connection closed.
Fails(c) ==
    /\ \/ client[c].state = "waiting" /\ UNCHANGED tries
       \/ /\ client[c].state = "calling"
          /\ \E d \in Daemon : daemon[d].pc # "up"
          /\ tries' = [tries EXCEPT ![c] = @ + 1]
    /\ client' = [client EXCEPT ![c].state =
                    IF GivesUpAfter(tries'[c]) THEN "gave_up" ELSE "calling"]
    /\ UNCHANGED <<file, requests, runs, daemon, thread, active, faults>>

GivesBackIfAnswered(a) ==   \* mutant: only a thread that answers is counted off
    active' = [active EXCEPT ![thread[a].at] = IF thread[a].pc = "reply" THEN @ - 1 ELSE @]
GivesBack(a) == active' = [active EXCEPT ![thread[a].at] = @ - 1]

\* ConnectionGuard: a thread is counted off however it ends.
Ends(a) == thread' = [thread EXCEPT ![a] = Ended] /\ GivesBack(a)

\* The answer arrives, if the client still waits for this attempt.
Reply(a) ==
    LET c == a[1]
    IN  /\ thread[a].pc = "reply"
        /\ Ends(a)
        /\ IF client[c].state = "waiting" /\ tries[c] = a[2]
           THEN client' = [client EXCEPT ![c] =
                    [state |-> IF thread[a].answer = Error THEN "refused" ELSE "told",
                     answer |-> thread[a].answer, db |-> thread[a].db]]
           ELSE UNCHANGED client
        /\ UNCHANGED <<file, requests, runs, daemon, tries, faults>>

-----------------------------------------------------------------------------
(* Threads. *)

Goto(a, label) ==
    /\ thread' = [thread EXCEPT ![a].pc = label]
    /\ UNCHANGED <<file, requests, runs, daemon, client, tries, active, faults>>

TakeMutex(a) ==
    \E s \in {<<"o_wait", "o_mutex">>, <<"h_wait", "h_mutex">>} :
        thread[a].pc = s[1] /\ MutexFree(thread[a].at) /\ Goto(a, s[2])

TakeName(a) ==
    \E s \in {<<"o_mutex", "o_name">>, <<"h_mutex", "h_name">>} :
        thread[a].pc = s[1] /\ NameFree(NameOf[thread[a].at]) /\ Goto(a, s[2])

\* The thread opens the database it finds behind its name before it takes the
\* flock of that file; in its second stint it knows the file.
TakeFile(a) ==
    LET f == file[NameOf[thread[a].at]]
    IN  /\ \/ /\ thread[a].pc = "o_name" /\ FileFree(f)
              /\ thread' = [thread EXCEPT ![a].pc = "o_file", ![a].db = f]
           \/ /\ thread[a].pc = "h_name" /\ FileFree(thread[a].db)
              /\ thread' = [thread EXCEPT ![a].pc = "h_file"]
        /\ UNCHANGED <<file, requests, runs, daemon, client, tries, active, faults>>

\* The first byte of the request is late, or the database cannot be opened, or
\* not reconciled (which is tried if it is another file than at startup): the
\* connection is closed without an answer.
NotOpened(a) ==
    /\ thread[a].pc \in {"o_wait", "o_name", "o_file"}
    /\ Ends(a)
    /\ UNCHANGED <<file, requests, runs, daemon, client, tries, faults>>

Opened(a) == thread[a].pc = "o_file" /\ Goto(a, "h_wait")

\* ensure_path_identity: the name still stands for the file that was opened.
SameFile(a) == file[NameOf[thread[a].at]] = thread[a].db

\* Any check that finds it replaced closes the connection without an answer,
\* and what was written stays written.
Replaced(a) ==
    /\ thread[a].pc \in {"h_wait", "h_file", "done", "failed"} /\ ~SameFile(a)
    /\ Ends(a)
    /\ UNCHANGED <<file, requests, runs, daemon, client, tries, faults>>

Answered(a, answer) ==
    thread' = [thread EXCEPT ![a].pc = "reply", ![a].answer = answer]

MatchesAny(row, op) == TRUE   \* mutant: the operation is not compared
Matches(row, op) == row.state # "none" => row.op = op
NeverDecided(row) == FALSE   \* mutant: every repetition starts over
Decided(row) == row.state = "succeeded"

\* begin_request, in one transaction.
Begin(a) ==
    LET row == requests[thread[a].db][IdAt(a)]
        op == OpOf[a[1]]
    IN  /\ thread[a].pc = "h_file" /\ SameFile(a)
        /\ \/ ~Matches(row, op) /\ Answered(a, Error) /\ UNCHANGED requests
           \/ Matches(row, op) /\ Decided(row) /\ Answered(a, row.answer) /\ UNCHANGED requests
           \/ /\ Matches(row, op) /\ ~Decided(row)
              /\ requests' = [requests EXCEPT ![thread[a].db][IdAt(a)] =
                                [state |-> "started", op |-> op, answer |-> 0]]
              /\ thread' = [thread EXCEPT ![a].pc = "run"]
        /\ UNCHANGED <<file, runs, daemon, client, tries, active, faults>>

Execute(a) ==
    /\ thread[a].pc = "run"
    /\ \/ /\ thread' = [thread EXCEPT ![a].pc = "done"]
          /\ runs' = [runs EXCEPT ![thread[a].db][IdAt(a)] = @ + 1]
       \/ thread' = [thread EXCEPT ![a].pc = "failed"] /\ UNCHANGED runs
    /\ UNCHANGED <<file, requests, daemon, client, tries, active, faults>>

\* complete_request stores the answer, or an error in its place if the answer
\* is too long for a line of the protocol; fail_request stores no answer.  Then
\* the locks are let go.
Finish(a) ==
    LET f == thread[a].db
        written(row, answer) ==
            /\ requests' = [requests EXCEPT ![f][IdAt(a)] = row]
            /\ Answered(a, answer)
        row == requests[f][IdAt(a)]
    IN  /\ thread[a].pc \in {"done", "failed"} /\ SameFile(a)
        /\ \/ /\ thread[a].pc = "done"
              /\ \E answer \in {runs[f][IdAt(a)], Error} :
                    written([row EXCEPT !.state = "succeeded", !.answer = answer], answer)
           \/ /\ thread[a].pc = "failed"
              /\ written([row EXCEPT !.state = "failed", !.answer = 0], Error)
        /\ UNCHANGED <<file, runs, daemon, client, tries, active, faults>>

-----------------------------------------------------------------------------
(* Faults. *)

Fault == faults < Faults /\ faults' = faults + 1

Crash(d) ==
    /\ daemon[d].pc # "down" /\ Fault
    /\ daemon' = [daemon EXCEPT ![d] = [pc |-> "down", db |-> None]]
    /\ thread' = [a \in Attempt |->
                    IF thread[a].at = d THEN Ended ELSE thread[a]]
    /\ active' = [active EXCEPT ![d] = 0]
    /\ UNCHANGED <<file, requests, runs, client, tries>>

Replace(n) ==
    /\ Fault
    /\ \E f \in Inode : f # file[n] /\ file' = [file EXCEPT ![n] = f]
    /\ UNCHANGED <<requests, runs, daemon, client, tries, thread, active>>

Serve(a) ==
    \/ TakeMutex(a) \/ TakeName(a) \/ TakeFile(a) \/ NotOpened(a) \/ Opened(a)
    \/ Replaced(a) \/ Begin(a) \/ Execute(a) \/ Finish(a) \/ Reply(a)

Next ==
    \/ \E d \in Daemon : Start(d) \/ Crash(d)
    \/ \E c \in Client : Send(c) \/ Fails(c)
    \/ \E a \in Attempt : Serve(a)
    \/ \E n \in Name : Replace(n)

Spec == Init /\ [][Next]_vars

\* Threads and starting daemons are scheduled; flock and the mutex are handed
\* to a waiter, though to none in particular.
FairSpec ==
    /\ Spec
    /\ \A a \in Attempt : WF_vars(Serve(a))
    /\ \A d \in Daemon : WF_vars(daemon[d].pc # "down" /\ Start(d))

-----------------------------------------------------------------------------
(* Properties. *)

\* Requests on one database are executed one at a time, from begin_request to
\* the update that ends them, although daemons may know the database by
\* different names, have threads of clients that gave up long ago, and crash.
OneAtATime ==
    \A a, b \in Attempt :
        /\ thread[a].pc \in {"run", "done", "failed"}
        /\ thread[b].pc \in {"run", "done", "failed"}
        /\ thread[a].db = thread[b].db
        => a = b

\* Once a success is recorded, the request is not executed again: the answer
\* stays the number of its last execution, whatever retry of whatever client
\* was still under way.
NothingSince ==
    \A f \in Inode, r \in Id :
        /\ requests[f][r].state = "succeeded"
        /\ requests[f][r].answer # Error
        => runs[f][r] = requests[f][r].answer

\* A client is never told the result of another operation that was sent under
\* its request id.
AnswerIsOwn ==
    \A c \in Client :
        client[c].state = "told" =>
            requests[client[c].db][IdOf[c]].op = OpOf[c]

\* A request that a daemon has begun to serve is answered or given up by its
\* thread, unless the daemon dies: threads and starting daemons that wait for
\* the three locks do not wait for each other in a circle.
EveryAttemptEnds ==
    \A a \in Attempt : thread[a].pc # "none" ~> thread[a].pc = "end"

\* The counter of a daemon is the number of its threads, however each of them
\* ended, so that connections are turned away only while as many are served.
ConnectionsCounted ==
    \A d \in Daemon :
        /\ active[d] = Cardinality({a \in Attempt : thread[a].at = d})
        /\ active[d] <= MaxConnections

\* Every success a client is told of is the one decision of its request in the
\* database that was asked.
Once == INSTANCE OnceOnly WITH
    Request <- Inode \X Id, RequestsOf <- LAMBDA c : Inode \X {IdOf[c]},
    decision <- [q \in Inode \X Id |->
                   LET row == requests[q[1]][q[2]]
                   IN  IF row.state = "succeeded" THEN row.answer ELSE None],
    told <- [c \in Client |-> IF client[c].state = "told" THEN client[c].answer ELSE None]
ImplementsOnce == Once!Spec
=============================================================================

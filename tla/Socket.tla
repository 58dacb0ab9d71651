------------------------------- MODULE Socket -------------------------------
(***************************************************************************)
(* The daemon's Unix socket: daemons that start and end, commands that     *)
(* look for a daemon and start one if they find none, and whoever cleans a *)
(* stale socket.  They share one path in the file system and no lock: a    *)
(* starting daemon lets its flocks go before it looks at the path.  One    *)
(* action is one system call, or one round of a loop of the command line.  *)
(*                                                                         *)
(* A socket is known by the process that bound it.  Paths that are no      *)
(* socket, and errors other than those a race can cause, are left out.     *)
(***************************************************************************)
EXTENDS Naturals, FiniteSets

CONSTANTS
    Command,    \* invocations of the command line that need a daemon
    Manual,     \* daemons started by hand (wtm daemon)
    Cleaner,    \* invocations of wtm daemon clean
    DbOf,       \* the database that each command and each manual daemon is for
    Old,        \* a socket whose daemon died long ago
    Invocations, \* bound: how many of them there are in a behaviour
    Faults,     \* bound: what goes wrong, see Fault
    None

\* A command starts a daemon at most once for each of its two attempts.
Round == 1..2
Daemon == Manual \cup (Command \X Round)
Process == Daemon \cup Command \cup Cleaner

ASSUME BoundsAssumption == Invocations \in Nat /\ Faults \in Nat
ASSUME NamesAssumption ==
    /\ {None, Old} \cap Process = {} /\ None # Old
    /\ Command \cap (Daemon \cup Cleaner) = {} /\ Cleaner \cap Daemon = {}
    /\ Manual \cap (Command \X Round) = {}

VARIABLES
    path,       \* the socket at the path, if any
    pc,         \* where each process is
    round,      \* the attempt each command is at
    conn,       \* the daemon that accepted each command's request
    since,      \* history: whether a command was disturbed since it began
    faults      \* how many faults there have been

vars == <<path, pc, round, conn, since, faults>>

\* From bind to chmod a daemon makes system calls that wait for nobody.
Label == {"idle", "open", "look", "probe", "unlink", "bind", "listen", "chmod", "serve",
          "ping", "spawn", "wait", "grace", "request", "reply", "answered", "unserved",
          "lost", "gone"}
Starting(d) == pc[d] \in {"look", "probe", "unlink", "bind", "listen", "chmod"}
Running(c) == pc[c] \notin {"idle", "answered", "unserved", "lost"}

TypeOK ==
    /\ path \in Daemon \cup {None, Old}
    /\ pc \in [Process -> Label]
    /\ round \in [Command -> Round]
    /\ conn \in [Command -> Daemon \cup {None}]
    /\ since \in [Command -> {"calm", "theft", "excused"}]
    /\ faults \in 0..Faults

Init ==
    /\ path \in {None, Old}
    /\ pc = [x \in Process |-> "idle"]
    /\ round = [c \in Command |-> 1]
    /\ conn = [c \in Command |-> None]
    /\ since = [c \in Command |-> "calm"]
    /\ faults = 0

Db(d) == IF d \in Manual THEN DbOf[d] ELSE DbOf[d[1]]
Child(c) == <<c, round[c]>>

\* Connecting succeeds from listen(2) on, accepted or not.
Listening(s) == s \in Daemon /\ pc[s] \in {"chmod", "serve"}

Goto(x, label) == pc' = [pc EXCEPT ![x] = label]

\* Somebody runs the tool.
Invoke(x, label) ==
    /\ pc[x] = "idle"
    /\ Cardinality({y \in Command \cup Manual \cup Cleaner : pc[y] # "idle"}) < Invocations
    /\ Goto(x, label)
    /\ UNCHANGED <<path, round, conn, since, faults>>

-----------------------------------------------------------------------------
(* What disturbs a command, for the properties only.  It is excused from     *)
(* succeeding by what no command can cope with.                              *)

Excuses(cs) ==
    since' = [c \in Command |-> IF c \in cs /\ Running(c) THEN "excused" ELSE since[c]]
Fault(cs) == faults < Faults /\ faults' = faults + 1 /\ Excuses(cs)
NoFault == UNCHANGED <<since, faults>>

\* A starting daemon unlinks the socket of a live one.  A command has to cope
\* with one such theft.
Stolen ==
    since' = [c \in Command |-> IF ~Running(c) THEN since[c]
                                ELSE IF since[c] = "calm" THEN "theft" ELSE "excused"]

-----------------------------------------------------------------------------
(* prepare_socket_path, of a daemon, and clean_stale_socket, of a cleaner or *)
(* of a command whose daemon failed: look at the path, connect, unlink.      *)

\* Where a process goes when it finds nothing or has removed what was there,
\* and where it goes when the socket is in use or vanishes under its hands.
After(x) == CASE x \in Daemon  -> "bind"
              [] x \in Command -> "unserved"
              [] x \in Cleaner -> "gone"
Ends(x) == IF x \in Command THEN "unserved" ELSE "gone"

Look(x) ==
    /\ pc[x] = "look"
    /\ Goto(x, IF path = None THEN After(x) ELSE "probe")
    /\ UNCHANGED <<path, round, conn>> /\ NoFault

\* Connecting finds no socket there, one that nobody listens to, or a daemon.
Probe(x) ==
    /\ pc[x] = "probe"
    /\ Goto(x, IF Listening(path) THEN Ends(x) ELSE "unlink")
    /\ UNCHANGED <<path, round, conn>> /\ NoFault

\* remove_file takes away whatever is at the path by now, and fails if there is
\* nothing.
Unlink(x) ==
    /\ pc[x] = "unlink"
    /\ Goto(x, IF path = None THEN Ends(x) ELSE After(x))
    /\ path' = None
    /\ CASE path = None                        -> UNCHANGED since
         [] path # None /\ x \notin Daemon     -> Excuses(Command)
         [] Listening(path) /\ x \in Daemon    -> Stolen
         [] OTHER                              -> UNCHANGED since
    /\ UNCHANGED <<round, conn, faults>>

Clean(x) == x \in Cleaner /\ Invoke(x, "look")

-----------------------------------------------------------------------------
(* Daemons. *)

StartManual(d) == d \in Manual /\ Invoke(d, "open")

\* DaemonServer::open, which takes and drops its locks (module Journal).
Open(d) ==
    /\ pc[d] = "open"
    /\ \/ Goto(d, "look") /\ NoFault
       \/ Goto(d, "gone") /\ Fault(Command)
    /\ UNCHANGED <<path, round, conn>>

Bind(d) ==
    /\ pc[d] = "bind"
    /\ IF path = None THEN path' = d /\ Goto(d, "listen")
                      ELSE UNCHANGED path /\ Goto(d, "gone")
    /\ UNCHANGED <<round, conn>> /\ NoFault

Listen(d) ==
    /\ pc[d] = "listen"
    /\ Goto(d, "chmod")
    /\ UNCHANGED <<path, round, conn>> /\ NoFault

\* set_socket_permissions goes by the path, whose ever the socket is by then.
Chmod(d) ==
    /\ pc[d] = "chmod"
    /\ Goto(d, IF path = None THEN "gone" ELSE "serve")
    /\ UNCHANGED <<path, round, conn>> /\ NoFault

\* An error of accept ends the daemon, which removes the path; any other death
\* leaves its socket there.
AcceptFails(d) ==
    /\ pc[d] = "serve"
    /\ path' = None /\ Goto(d, "gone")
    /\ Fault(Command)
    /\ UNCHANGED <<round, conn>>

Crash(d) ==
    /\ pc[d] \notin {"idle", "gone"}
    /\ Goto(d, "gone")
    /\ Fault(Command)
    /\ UNCHANGED <<path, round, conn>>

-----------------------------------------------------------------------------
(* Commands: daemon_request_result and daemon_client. *)

Begin(c) == Invoke(c, "ping")

AnswersAny(c) == path \in Daemon /\ pc[path] = "serve"   \* mutant: whoever it is
\* daemon_is_ready: who answers serves this repository and this database.
Answers(c) ==
    /\ path \in Daemon /\ pc[path] = "serve"
    /\ Db(path) = DbOf[c]
Foreign(c) == Listening(path) /\ Db(path) # DbOf[c]

\* The answer comes in time, does not come, or comes too late.
Ready(c) ==
    /\ Answers(c) /\ Goto(c, "request")
    /\ UNCHANGED <<path, round, conn>> /\ NoFault
NotReady(c) ==
    \/ Answers(c) /\ Fault({c})
    \/ Foreign(c) /\ Excuses({c}) /\ UNCHANGED faults
    \/ ~Answers(c) /\ ~Foreign(c) /\ NoFault

\* The first handshake decides whether a daemon is started.
Ping(c) ==
    /\ pc[c] = "ping"
    /\ \/ Ready(c)
       \/ NotReady(c) /\ Goto(c, "spawn") /\ UNCHANGED <<path, round, conn>>

Spawn(c) ==
    /\ pc[c] = "spawn"
    /\ pc' = [pc EXCEPT ![c] = "wait", ![Child(c)] = "open"]
    /\ UNCHANGED <<path, round, conn>> /\ NoFault

\* The loop ends with an answer, with the exit of the child or with the
\* deadline.  The deadline is far longer than any start takes that does not
\* wait for locks.
Wait(c) ==
    /\ pc[c] = "wait"
    /\ \/ Ready(c)
       \/ /\ pc[Child(c)] = "gone" /\ NotReady(c)
          /\ Goto(c, "grace") /\ UNCHANGED <<path, round, conn>>

Patient == \A d \in Daemon : ~Starting(d)   \* half a second is as long in this respect

NoDeadline(c) == FALSE   \* mutant: waits as long as its child lives
Abandon(c) ==   \* mutant: the child is killed and its socket left
    /\ pc[c] = "wait" /\ pc[Child(c)] # "gone" /\ Patient
    /\ pc' = [pc EXCEPT ![c] = "unserved", ![Child(c)] = "gone"]
    /\ (IF Answers(c) \/ pc[Child(c)] = "open" THEN Fault(Command)
        ELSE Excuses(Command) /\ UNCHANGED faults)
    /\ UNCHANGED <<path, round, conn>>
Deadline(c) ==
    /\ pc[c] = "wait" /\ pc[Child(c)] # "gone" /\ Patient
    /\ pc' = [pc EXCEPT ![c] = "look", ![Child(c)] = "gone"]
    /\ IF Answers(c) \/ pc[Child(c)] = "open" THEN Fault(Command)
       ELSE /\ Excuses({d \in Command : d # c \/ Foreign(c)})
            /\ UNCHANGED faults
    /\ UNCHANGED <<path, round, conn>>

GraceSkipped(c) ==   \* mutant: the exit of the child is the end
    /\ pc[c] = "grace" /\ NotReady(c) /\ Goto(c, "look") /\ UNCHANGED <<path, round, conn>>
\* For half a second after the exit of the child another daemon may answer.
Grace(c) ==
    /\ pc[c] = "grace"
    /\ \/ Ready(c)
       \/ Patient /\ NotReady(c) /\ Goto(c, "look") /\ UNCHANGED <<path, round, conn>>

\* The request has a connection of its own, to whoever is at the path.
Request(c) ==
    /\ pc[c] = "request" /\ Listening(path)
    /\ conn' = [conn EXCEPT ![c] = path]
    /\ Goto(c, "reply")
    /\ UNCHANGED <<path, round>> /\ NoFault

Reply(c) ==
    /\ pc[c] = "reply" /\ pc[conn[c]] = "serve"
    /\ Goto(c, "answered")
    /\ UNCHANGED <<path, round, conn>> /\ NoFault

AgainTwice(r) == r <= 2   \* mutant: one more attempt
Again(r) == r < 2

\* Nobody listens, the daemon is gone, or its answer is late: everything once
\* more, the search for a daemon included.
Fails(c) ==
    /\ \/ pc[c] = "request" /\ ~Listening(path) /\ NoFault
       \/ pc[c] = "reply" /\ pc[conn[c]] = "gone" /\ NoFault
       \/ pc[c] = "reply" /\ pc[conn[c]] # "gone" /\ Fault({c})
    /\ IF Again(round[c]) THEN Goto(c, "ping") /\ round' = [round EXCEPT ![c] = @ + 1]
                         ELSE Goto(c, "lost") /\ UNCHANGED round
    /\ conn' = [conn EXCEPT ![c] = None]
    /\ UNCHANGED path

Serve(d) == Open(d) \/ Bind(d) \/ Listen(d) \/ Chmod(d)
Remove(x) == Look(x) \/ Probe(x) \/ Unlink(x)
Search(c) == Ping(c) \/ Spawn(c) \/ Wait(c) \/ Deadline(c) \/ Grace(c)
Ask(c) == Request(c) \/ Reply(c) \/ Fails(c)

Next ==
    \/ \E d \in Daemon : StartManual(d) \/ Serve(d) \/ AcceptFails(d) \/ Crash(d)
    \/ \E x \in Process : Remove(x)
    \/ \E x \in Cleaner : Clean(x)
    \/ \E c \in Command : Begin(c) \/ Search(c) \/ Ask(c)

Spec == Init /\ [][Next]_vars

\* Every process that has begun is scheduled.
FairSpec ==
    /\ Spec
    /\ \A d \in Daemon : WF_vars(Serve(d))
    /\ \A x \in Process : WF_vars(Remove(x))
    /\ \A c \in Command : WF_vars(Search(c) \/ Ask(c))

-----------------------------------------------------------------------------
(* Properties. *)

\* A command that finds no daemon fails only for a reason: one of its own
\* handshakes or requests was answered too late, a daemon died, could not open
\* its database or was killed, somebody else removed a socket, two sockets were
\* stolen, or a daemon of another database is at the path.  In particular
\* commands that start their daemons at the same time over a stale socket are
\* all served although the daemons unlink each other's sockets.
FailsForAReason ==
    \A c \in Command :
        pc[c] \in {"unserved", "lost"} =>
            since[c] = "excused"

\* The request is answered from the database of the command, although it goes
\* to a connection of its own after the handshake, unless something disturbed the
\* command since it began, be it before the handshake or after.
AnswerFromOwnDatabase ==
    \A c \in Command :
        pc[c] = "answered" /\ Db(conn[c]) # DbOf[c] =>
            since[c] # "calm"

\* When a command reports that it could not start a daemon, the daemon it did
\* start has left no socket.
NoSocketOfAFailedChild ==
    \A c \in Command :
        pc[c] = "unserved" => path # Child(c)

\* Every command ends.
CommandEnds == \A c \in Command : pc[c] = "ping" ~> ~Running(c)

=============================================================================

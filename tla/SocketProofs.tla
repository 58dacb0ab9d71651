---------------------------- MODULE SocketProofs ----------------------------
(***************************************************************************)
(* Theorems about the daemon's socket, for any commands, daemons and       *)
(* cleaners, any databases and any bounds.                                 *)
(*                                                                         *)
(* The hard one is that a command fails only for a reason.  Daemons that   *)
(* start at the same time unlink each other's sockets, so no daemon is     *)
(* sure to keep the path; what a waiting command can count on is that      *)
(* whoever leaves the path empty or dead is followed by somebody who is    *)
(* about to bind (Attended).  When nobody starts any more, the path        *)
(* therefore has a live daemon (SomebodyServes).  A command that reached   *)
(* one can lose it again, but only to a theft, and it has an attempt left  *)
(* for the first (Found, Reason).                                          *)
(***************************************************************************)
EXTENDS Socket, TLAPS

\* A socket is at the path only once its daemon has bound it.
Bound == path \in Daemon => pc[path] \in {"listen", "chmod", "serve", "gone"}

\* While a command waits whose daemon has come as far as the path, somebody is
\* about to put a socket there, or to take a dead one away.
Watches(c) ==
    pc[c] \in {"wait", "grace"} /\ since[c] # "excused" /\ pc[Child(c)] # "open"
Dead == path = Old \/ (path \in Daemon /\ pc[path] = "gone")
Attended ==
    (\E c \in Command : Watches(c)) =>
        /\ path = None => \E d \in Daemon : pc[d] \in {"look", "bind"}
        /\ Dead => \E d \in Daemon : pc[d] \in {"look", "probe", "unlink"}

-----------------------------------------------------------------------------
(* What is known of a command.                                               *)

\* It starts one daemon in a round, when it begins to wait, and is left with a
\* dead one.
Parent(c) ==
    /\ round[c] = 1 => pc[<<c, 2>>] = "idle"
    /\ pc[c] \in {"idle", "ping", "spawn"} => pc[Child(c)] = "idle"
    /\ pc[c] = "wait" => pc[Child(c)] # "idle"
    /\ pc[c] \in {"grace", "look", "probe", "unlink", "unserved"} => pc[Child(c)] = "gone"

\* It has a reason to have given up, and a theft to be in its second round for.
Reason(c) ==
    /\ pc[c] \in {"look", "probe", "unlink", "unserved", "lost"} => since[c] = "excused"
    /\ round[c] = 2 => since[c] # "calm"

\* Unless there was a theft that it has not coped with yet, the daemon that it
\* found is the one at the path.
Steady(c) == since[c] = "calm" \/ (since[c] = "theft" /\ round[c] = 2)
Found(c) ==
    /\ pc[c] = "request" /\ Steady(c) => Answers(c)
    /\ pc[c] = "reply" /\ Steady(c) =>
          path = conn[c] /\ Listening(path) /\ Db(path) = DbOf[c]

\* What it is left with.
Outcome(c) ==
    /\ pc[c] = "answered" /\ since[c] = "calm" => Db(conn[c]) = DbOf[c]
    /\ pc[c] = "unserved" => path # Child(c)

Sound(c) == Parent(c) /\ Reason(c) /\ Found(c) /\ Outcome(c)

Inv == TypeOK /\ Bound /\ Attended /\ \A c \in Command : Sound(c)

-----------------------------------------------------------------------------
(* Names and labels.                                                         *)

LEMMA Names ==
    /\ Daemon \subseteq Process /\ Command \subseteq Process /\ Cleaner \subseteq Process
    /\ None \notin Process /\ Old \notin Process /\ None # Old
    /\ \A c \in Command : c \notin Daemon /\ c \notin Cleaner
    /\ \A x \in Cleaner : x \notin Daemon
BY NamesAssumption DEF Process

LEMMA Childs ==
    ASSUME TypeOK, NEW c \in Command
    PROVE  /\ round[c] \in {1, 2} /\ Child(c) \in Daemon /\ <<c, 2>> \in Daemon
           /\ <<c, 1>> \in Daemon
           /\ Child(c) \notin Manual /\ <<c, 2>> \notin Manual
           /\ Db(Child(c)) = DbOf[c]
           /\ \A b \in Command : b # c => Child(b) # Child(c) /\ <<b, 2>> # Child(c)
<1>1. round[c] \in {1, 2} /\ Round = {1, 2}
  BY DEF TypeOK, Round
<1>2. {Child(c), <<c, 1>>, <<c, 2>>} \subseteq Command \X Round
  BY <1>1 DEF Child
<1>3. Child(c) \notin Manual /\ <<c, 2>> \notin Manual
  BY <1>2, NamesAssumption
<1>4. Child(c)[1] = c
  BY DEF Child
<1> QED
  BY <1>1, <1>2, <1>3, <1>4 DEF Daemon, Db, Child

LEMMA OneMoves ==
    ASSUME TypeOK, NEW x \in Process, NEW l \in Label, Goto(x, l)
    PROVE  /\ pc' \in [Process -> Label]
           /\ \A y \in Process : pc'[y] = IF y = x THEN l ELSE pc[y]
BY DEF TypeOK, Goto

\* What Excuses and Stolen do to a command.
LEMMA Excused ==
    ASSUME TypeOK, NEW cs, Excuses(cs)
    PROVE  /\ since' \in [Command -> {"calm", "theft", "excused"}]
           /\ \A c \in Command : /\ since'[c] \in {since[c], "excused"}
                                 /\ c \in cs /\ Running(c) => since'[c] = "excused"
                                 /\ c \notin cs \/ ~Running(c) => since'[c] = since[c]
BY DEF TypeOK, Excuses

LEMMA Robbed ==
    ASSUME TypeOK, Stolen
    PROVE  /\ since' \in [Command -> {"calm", "theft", "excused"}]
           /\ \A c \in Command :
                 /\ ~Running(c) => since'[c] = since[c]
                 /\ Running(c) /\ since[c] = "calm" => since'[c] = "theft"
                 /\ Running(c) /\ since[c] # "calm" => since'[c] = "excused"
BY DEF TypeOK, Stolen

LEMMA InvType == Inv => TypeOK
BY DEF Inv

\* A command that a step leaves alone.
LEMMA SameCommand ==
    ASSUME Inv, NEW b \in Command,
           pc'[b] = pc[b], since'[b] = since[b], round'[b] = round[b], conn'[b] = conn[b],
           path' = path, \A d \in Daemon : d \in {Child(b), <<b, 2>>, path} => pc'[d] = pc[d]
    PROVE  Sound(b)'
<1>1. Child(b) \in Daemon /\ <<b, 2>> \in Daemon /\ Sound(b)
  BY Childs DEF Inv
<1>2. Child(b)' = Child(b) /\ pc'[Child(b)] = pc[Child(b)] /\ pc'[<<b, 2>>] = pc[<<b, 2>>]
  BY <1>1 DEF Child
<1>3. Parent(b)' /\ Reason(b)'
  BY <1>1, <1>2 DEF Sound, Parent, Reason
<1>4. path \in Daemon => pc'[path] = pc[path]
  OBVIOUS
<1>5. Found(b)' /\ Outcome(b)'
  BY <1>1, <1>2, <1>4 DEF Sound, Found, Steady, Outcome, Answers, Listening, Db
<1> QED
  BY <1>3, <1>5 DEF Sound

\* Commands that are not told of a step of a daemon.
LEMMA DaemonMoves ==
    ASSUME Inv, NEW d \in Daemon, NEW l \in Label, Goto(d, l),
           pc[d] \notin {"idle", "gone", "serve"}, l # "idle",
           \/ path' = path
           \/ path = None /\ path' = d,
           path = d /\ pc[d] = "chmod" => l = "serve",
           UNCHANGED <<round, conn, since>>
    PROVE  /\ \A c \in Command : Sound(c)'
           /\ pc' \in [Process -> Label]
           /\ \A y \in Process : pc'[y] = IF y = d THEN l ELSE pc[y]
<1>1. /\ pc' \in [Process -> Label]
      /\ \A y \in Process : pc'[y] = IF y = d THEN l ELSE pc[y]
  BY InvType, OneMoves, Names
<1>2. ASSUME NEW c \in Command PROVE Sound(c)'
  <2>1. /\ Sound(c) /\ Child(c) \in Daemon /\ <<c, 2>> \in Daemon /\ c \notin Daemon
        /\ c \in Process /\ Child(c) \in Process /\ <<c, 2>> \in Process
    BY InvType, Childs, Names DEF Inv
  <2>2. Child(c)' = Child(c) /\ pc'[c] = pc[c]
    BY <1>1, <2>1 DEF Child
  <2>3. /\ pc[Child(c)] = "idle" => pc'[Child(c)] = "idle"
        /\ pc[<<c, 2>>] = "idle" => pc'[<<c, 2>>] = "idle"
        /\ pc[Child(c)] = "gone" => pc'[Child(c)] = "gone" /\ Child(c) # d
        /\ pc[Child(c)] # "idle" => pc'[Child(c)] # "idle"
    BY <1>1, <2>1
  <2>4. Parent(c)' /\ Reason(c)'
    BY <2>1, <2>2, <2>3 DEF Sound, Parent, Reason
  <2>5. Outcome(c)'
    BY <2>1, <2>2, <2>3, Names DEF Sound, Outcome, Parent, Db
  <2>6. /\ path \in Daemon /\ pc[path] = "serve" => path' = path /\ pc'[path] = "serve"
        /\ Listening(path) => path' = path /\ Listening(path)'
    BY <1>1, Names DEF Listening
  <2>7. Found(c)'
    BY <2>1, <2>2, <2>6 DEF Sound, Found, Steady, Answers, Listening, Db
  <2> QED
    BY <2>4, <2>5, <2>7 DEF Sound
<1> QED
  BY <1>1, <1>2

\* A daemon ends in a way that every running command is excused by.
LEMMA Upset ==
    ASSUME Inv, NEW d \in Daemon, pc[d] \notin {"idle", "gone"}, Goto(d, "gone"),
           path' \in {path, None}, UNCHANGED <<round, conn>>, Fault(Command)
    PROVE  Inv'
<1>1. /\ pc' \in [Process -> Label]
      /\ \A y \in Process : pc'[y] = IF y = d THEN "gone" ELSE pc[y]
  BY InvType, OneMoves, Names DEF Label
<1>2. /\ since' \in [Command -> {"calm", "theft", "excused"}]
      /\ \A c \in Command : since'[c] \in {since[c], "excused"}
      /\ \A c \in Command : Running(c) => since'[c] = "excused"
      /\ \A c \in Command : ~Running(c) => since'[c] = since[c]
      /\ faults' \in 0..Faults
  BY InvType, Excused, BoundsAssumption DEF Fault, TypeOK
<1>3. TypeOK' /\ Bound'
  BY <1>1, <1>2, Names DEF Inv, TypeOK, Bound
<1>4. \A c \in Command : pc'[c] = pc[c]
  BY <1>1, Names
<1>5. Attended'
  BY <1>2, <1>4 DEF Attended, Watches, Running
<1>6. ASSUME NEW c \in Command PROVE Sound(c)'
  <2>1. /\ Sound(c) /\ Child(c) \in Daemon /\ <<c, 2>> \in Daemon
        /\ Child(c) \in Process /\ <<c, 2>> \in Process
    BY InvType, Childs, Names DEF Inv
  <2>2. Child(c)' = Child(c)
    BY DEF Child
  <2>3. Parent(c)' /\ Reason(c)'
    BY <1>1, <1>2, <1>4, <2>1, <2>2 DEF Sound, Parent, Reason
  <2>4. Found(c)'
    BY <1>2, <1>4 DEF Found, Steady, Running
  <2>5. Outcome(c)'
    BY <1>2, <1>4, <2>1, <2>2, Names DEF Sound, Outcome, Db, Running
  <2> QED
    BY <2>3, <2>4, <2>5 DEF Sound
<1> QED
  BY <1>3, <1>5, <1>6 DEF Inv

-----------------------------------------------------------------------------
(* What a daemon does.                                                       *)

\* A step that leaves those alone who attend to the path.
LEMMA AttendedStill ==
    ASSUME Inv, path' = path,
           \A c \in Command : Watches(c)' => Watches(c),
           Dead' => Dead,
           \A d \in Daemon : pc[d] \in {"look", "probe", "unlink", "bind"} => pc'[d] = pc[d]
    PROVE  Attended'
<1> SUFFICES ASSUME NEW c \in Command, Watches(c)'
             PROVE  /\ path = None => \E d \in Daemon : pc'[d] \in {"look", "bind"}
                    /\ Dead' => \E d \in Daemon : pc'[d] \in {"look", "probe", "unlink"}
  BY DEF Attended
<1>1. Watches(c)
  OBVIOUS
<1>2. /\ path = None => \E d \in Daemon : pc[d] \in {"look", "bind"}
      /\ Dead => \E d \in Daemon : pc[d] \in {"look", "probe", "unlink"}
  BY <1>1 DEF Inv, Attended
<1> QED
  BY <1>2

\* The commands that wait are the same unless a child leaves "open".
LEMMA WatchesStill ==
    ASSUME Inv, NEW d \in Daemon, pc[d] # "open",
           \A y \in Process : y # d => pc'[y] = pc[y],
           \A c \in Command : since[c] = "excused" => since'[c] = "excused",
           UNCHANGED round
    PROVE  \A c \in Command : Watches(c)' => Watches(c)
<1> SUFFICES ASSUME NEW c \in Command, Watches(c)'
             PROVE  Watches(c)
  OBVIOUS
<1>1. c \in Process /\ c # d /\ Child(c) \in Process /\ Child(c)' = Child(c)
  BY InvType, Childs, Names DEF Child
<1> QED
  BY <1>1 DEF Watches

LEMMA OpenStep ==
    ASSUME Inv, NEW d \in Daemon, Open(d)
    PROVE  Inv'
<1>1. CASE Goto(d, "look") /\ NoFault
  <2>1. /\ \A c \in Command : Sound(c)'
        /\ pc' \in [Process -> Label]
        /\ \A y \in Process : pc'[y] = IF y = d THEN "look" ELSE pc[y]
    BY <1>1, DaemonMoves DEF Open, NoFault, Label
  <2>2. TypeOK' /\ Bound'
    BY <1>1, <2>1, Names DEF Inv, TypeOK, Bound, Open, NoFault
  <2>3. Attended'
    BY <1>1, <2>1, Names DEF Attended, Open, Dead
  <2> QED
    BY <2>1, <2>2, <2>3 DEF Inv
<1>2. CASE Goto(d, "gone") /\ Fault(Command)
  BY <1>2, Upset DEF Open
<1> QED
  BY <1>1, <1>2 DEF Open

LEMMA DaemonLooks ==
    ASSUME Inv, NEW d \in Daemon, Look(d)
    PROVE  Inv'
<1> DEFINE l == IF path = None THEN "bind" ELSE "probe"
<1>1. Goto(d, l) /\ l \in Label /\ l # "idle"
  BY Names DEF Look, After, Label
<1> HIDE DEF l
<1>2. /\ \A c \in Command : Sound(c)'
      /\ pc' \in [Process -> Label]
      /\ \A y \in Process : pc'[y] = IF y = d THEN l ELSE pc[y]
  BY <1>1, DaemonMoves DEF Look, NoFault
<1>3. TypeOK' /\ Bound'
  BY <1>2, Names DEF Inv, TypeOK, Bound, Look, NoFault
<1>4. Attended'
  BY <1>2, Names DEF Attended, Look, Dead, l
<1> QED
  BY <1>2, <1>3, <1>4 DEF Inv

LEMMA DaemonProbes ==
    ASSUME Inv, NEW d \in Daemon, Probe(d)
    PROVE  Inv'
<1> DEFINE l == IF Listening(path) THEN "gone" ELSE "unlink"
<1>1. Goto(d, l) /\ l \in Label /\ l # "idle"
  BY Names DEF Probe, Ends, Label
<1> HIDE DEF l
<1>2. /\ \A c \in Command : Sound(c)'
      /\ pc' \in [Process -> Label]
      /\ \A y \in Process : pc'[y] = IF y = d THEN l ELSE pc[y]
  BY <1>1, DaemonMoves DEF Probe, NoFault
<1>3. TypeOK' /\ Bound'
  BY <1>2, Names DEF Inv, TypeOK, Bound, Probe, NoFault
<1>4. ASSUME Listening(path) PROVE Attended'
  <2>1. path' = path /\ path \in Daemon /\ path # d /\ pc'[path] \in {"chmod", "serve"}
    BY <1>2, <1>4, Names DEF Listening, Probe
  <2>2. path \in Process
    BY <2>1, Names
  <2> QED
    BY <2>1, <2>2, Names DEF Attended, Dead
<1>5. ASSUME ~Listening(path) PROVE Attended'
  <2>1. \A c \in Command : Watches(c)' => Watches(c)
    BY <1>2, WatchesStill DEF Probe, NoFault
  <2>2. pc'[d] = "unlink" /\ path' = path
    BY <1>2, <1>5, Names DEF l, Probe
  <2>3. path = None =>
           \A e \in Daemon : pc[e] \in {"look", "bind"} => pc'[e] \in {"look", "bind"}
    BY <1>2, Names DEF Probe
  <2> QED
    BY <2>1, <2>2, <2>3 DEF Attended, Inv
<1>6. Attended'
  BY <1>4, <1>5
<1> QED
  BY <1>2, <1>3, <1>6 DEF Inv

LEMMA BindStep ==
    ASSUME Inv, NEW d \in Daemon, Bind(d)
    PROVE  Inv'
<1> DEFINE l == IF path = None THEN "listen" ELSE "gone"
<1>1. Goto(d, l) /\ l \in Label /\ l # "idle"
  BY DEF Bind, Label
<1> HIDE DEF l
<1>2. /\ \A c \in Command : Sound(c)'
      /\ pc' \in [Process -> Label]
      /\ \A y \in Process : pc'[y] = IF y = d THEN l ELSE pc[y]
  BY <1>1, DaemonMoves DEF Bind, NoFault
<1>3. TypeOK' /\ Bound'
  BY <1>2, Names DEF Inv, TypeOK, Bound, Bind, NoFault, l
<1>4. ASSUME path = None PROVE Attended'
  BY <1>2, <1>4, Names DEF Attended, Dead, Bind, l
<1>5. ASSUME path # None PROVE Attended'
  <2>1. \A c \in Command : Watches(c)' => Watches(c)
    BY <1>2, WatchesStill DEF Bind, NoFault
  <2>2. path' = path /\ (Dead' => Dead)
    BY <1>2, <1>5, Names DEF Bind, Dead, Inv, Bound
  <2>3. \A e \in Daemon : pc[e] \in {"look", "probe", "unlink"} => pc'[e] = pc[e]
    BY <1>2, Names DEF Bind
  <2> QED
    BY <1>5, <2>1, <2>2, <2>3 DEF Attended, Inv
<1>6. Attended'
  BY <1>4, <1>5
<1> QED
  BY <1>2, <1>3, <1>6 DEF Inv

LEMMA ListenStep ==
    ASSUME Inv, NEW d \in Daemon, Listen(d)
    PROVE  Inv'
<1>1. /\ \A c \in Command : Sound(c)'
      /\ pc' \in [Process -> Label]
      /\ \A y \in Process : pc'[y] = IF y = d THEN "chmod" ELSE pc[y]
  BY DaemonMoves DEF Listen, NoFault, Label
<1>2. TypeOK' /\ Bound'
  BY <1>1, Names DEF Inv, TypeOK, Bound, Listen, NoFault
<1>3. \A c \in Command : Watches(c)' => Watches(c)
  BY <1>1, WatchesStill DEF Listen, NoFault
<1>4. Dead' => Dead
  BY <1>1, Names DEF Dead, Listen
<1>5. Attended'
  BY <1>1, <1>3, <1>4, Names, AttendedStill DEF Listen
<1> QED
  BY <1>1, <1>2, <1>5 DEF Inv

LEMMA ChmodStep ==
    ASSUME Inv, NEW d \in Daemon, Chmod(d)
    PROVE  Inv'
<1> DEFINE l == IF path = None THEN "gone" ELSE "serve"
<1>1. Goto(d, l) /\ l \in Label /\ l # "idle" /\ (path = d => l = "serve")
  BY Names DEF Chmod, Label
<1>2. path # None => l = "serve"
  OBVIOUS
<1> HIDE DEF l
<1>3. /\ \A c \in Command : Sound(c)'
      /\ pc' \in [Process -> Label]
      /\ \A y \in Process : pc'[y] = IF y = d THEN l ELSE pc[y]
  BY <1>1, DaemonMoves DEF Chmod, NoFault
<1>4. TypeOK' /\ Bound'
  BY <1>1, <1>3, Names DEF Inv, TypeOK, Bound, Chmod, NoFault
<1>5. \A c \in Command : Watches(c)' => Watches(c)
  BY <1>3, WatchesStill DEF Chmod, NoFault
<1>6. Dead' => Dead
  BY <1>1, <1>3, Names DEF Dead, Chmod
<1>7. Attended'
  BY <1>3, <1>5, <1>6, Names, AttendedStill DEF Chmod
<1> QED
  BY <1>3, <1>4, <1>7 DEF Inv

LEMMA DaemonUnlinks ==
    ASSUME Inv, NEW d \in Daemon, Unlink(d)
    PROVE  Inv'
<1>1. CASE path = None
  <2>1. Goto(d, "gone") /\ path' = path /\ UNCHANGED <<round, conn, since, faults>>
    <3>1. d \notin Command /\ ~Listening(None)
      BY Names DEF Listening
    <3>2. Goto(d, "gone") /\ path' = path
      BY <1>1, <3>1 DEF Unlink, Ends
    <3>3. UNCHANGED since
      BY <1>1, <3>1 DEF Unlink
    <3> QED
      BY <3>2, <3>3 DEF Unlink
  <2>2. /\ \A c \in Command : Sound(c)'
        /\ pc' \in [Process -> Label]
        /\ \A y \in Process : pc'[y] = IF y = d THEN "gone" ELSE pc[y]
    BY <1>1, <2>1, DaemonMoves, Names DEF Unlink, Label
  <2>3. TypeOK' /\ Bound'
    BY <1>1, <2>1, <2>2, Names DEF Inv, TypeOK, Bound, Unlink
  <2>4. \A c \in Command : Watches(c)' => Watches(c)
    BY <2>1, <2>2, WatchesStill DEF Unlink
  <2>5. ~Dead'
    BY <1>1, <2>1, Names DEF Dead
  <2>6. \A e \in Daemon : pc[e] \in {"look", "bind"} => pc'[e] = pc[e]
    BY <2>2, Names DEF Unlink
  <2>7. Attended'
    BY <2>1, <2>4, <2>5, <2>6 DEF Attended, Inv
  <2> QED
    BY <2>2, <2>3, <2>7 DEF Inv
<1>2. CASE path # None
  <2>1. Goto(d, "bind") /\ path' = None
    BY <1>2, Names DEF Unlink, After
  <2>2. /\ pc' \in [Process -> Label]
        /\ \A y \in Process : pc'[y] = IF y = d THEN "bind" ELSE pc[y]
    BY <2>1, InvType, OneMoves, Names DEF Label
  <2>3. IF Listening(path) THEN Stolen ELSE UNCHANGED since
    BY <1>2 DEF Unlink
  <2>4. /\ since' \in [Command -> {"calm", "theft", "excused"}]
        /\ \A c \in Command :
              /\ ~Running(c) => since'[c] = since[c]
              /\ since[c] = "excused" => since'[c] = "excused"
              /\ since[c] # "calm" => since'[c] # "calm"
              /\ Running(c) /\ Listening(path) =>
                    IF since[c] = "calm" THEN since'[c] = "theft" ELSE since'[c] = "excused"
              /\ ~Listening(path) => since'[c] = since[c]
    <3>1. CASE Listening(path)
      BY <2>3, <3>1, InvType, Robbed
    <3>2. CASE ~Listening(path)
      BY <2>3, <3>2 DEF Inv, TypeOK
    <3> QED
      BY <3>1, <3>2
  <2>5. TypeOK' /\ Bound'
    BY <2>1, <2>2, <2>4, Names DEF Inv, TypeOK, Bound, Unlink
  <2>6. Attended'
    BY <2>1, <2>2, Names DEF Attended, Dead
  <2>7. ASSUME NEW c \in Command PROVE Sound(c)'
    <3>1. /\ Sound(c) /\ Child(c) \in Daemon /\ <<c, 2>> \in Daemon /\ c \notin Daemon
          /\ c \in Process /\ Child(c) \in Process /\ <<c, 2>> \in Process
      BY InvType, Childs, Names DEF Inv
    <3>2. Child(c)' = Child(c) /\ pc'[c] = pc[c] /\ round'[c] = round[c] /\ conn'[c] = conn[c]
      BY <2>2, <3>1 DEF Child, Unlink
    <3>3. pc[d] = "unlink"
      BY DEF Unlink
    <3>4. Parent(c)'
      BY <2>2, <3>1, <3>2, <3>3 DEF Sound, Parent
    <3>5. Reason(c)'
      BY <2>4, <3>1, <3>2 DEF Sound, Reason
    <3>6. Steady(c)' /\ pc[c] \in {"request", "reply"} => Steady(c) /\ ~Listening(path)
      BY <2>4, <3>1, <3>2 DEF Sound, Reason, Steady, Running
    <3>7. Found(c)'
      BY <3>1, <3>2, <3>6 DEF Sound, Found, Answers, Listening
    <3>8. Outcome(c)'
      BY <2>1, <2>4, <3>1, <3>2, Names DEF Sound, Outcome, Db, Running
    <3> QED
      BY <3>4, <3>5, <3>7, <3>8 DEF Sound
  <2> QED
    BY <2>5, <2>6, <2>7 DEF Inv
<1> QED
  BY <1>1, <1>2

LEMMA StartManualStep ==
    ASSUME Inv, NEW d \in Daemon, StartManual(d)
    PROVE  Inv'
<1>1. /\ d \in Manual /\ pc[d] = "idle" /\ Goto(d, "open")
      /\ UNCHANGED <<path, round, conn, since, faults>>
  BY DEF StartManual, Invoke
<1>2. /\ pc' \in [Process -> Label]
      /\ \A y \in Process : pc'[y] = IF y = d THEN "open" ELSE pc[y]
  BY <1>1, InvType, OneMoves, Names DEF Label
<1>3. path # d
  BY <1>1 DEF Inv, Bound
<1>4. TypeOK' /\ Bound'
  BY <1>1, <1>2, <1>3, Names DEF Inv, TypeOK, Bound
<1>5. Attended'
  <2>1. \A c \in Command : Watches(c)' => Watches(c)
    BY <1>1, <1>2, WatchesStill
  <2>2. Dead' => Dead
    BY <1>1, <1>2, <1>3, Names DEF Dead
  <2> QED
    BY <1>1, <1>2, <2>1, <2>2, Names, AttendedStill
<1>6. ASSUME NEW c \in Command PROVE Sound(c)'
  <2>1. Child(c) # d /\ <<c, 2>> # d /\ c # d /\ c \in Process
    BY <1>1, InvType, Childs, Names
  <2> QED
    BY <1>1, <1>2, <1>3, <2>1, SameCommand, Names
<1> QED
  BY <1>4, <1>5, <1>6 DEF Inv

LEMMA AcceptFailsStep ==
    ASSUME Inv, NEW d \in Daemon, AcceptFails(d)
    PROVE  Inv'
BY Upset DEF AcceptFails

LEMMA CrashStep ==
    ASSUME Inv, NEW d \in Daemon, Crash(d)
    PROVE  Inv'
BY Upset DEF Crash

-----------------------------------------------------------------------------
(* What a cleaner and a command do.                                          *)

LEMMA CleanerMoves ==
    ASSUME Inv, NEW x \in Cleaner, NEW l \in Label, Goto(x, l),
           UNCHANGED <<path, round, conn, since, faults>>
    PROVE  Inv'
<1>1. /\ pc' \in [Process -> Label]
      /\ \A y \in Process : y # x => pc'[y] = pc[y]
  BY InvType, OneMoves, Names
<1>2. /\ \A d \in Daemon : pc'[d] = pc[d]
      /\ \A c \in Command : pc'[c] = pc[c]
  BY <1>1, Names
<1>3. TypeOK' /\ Bound'
  BY <1>1, <1>2 DEF Inv, TypeOK, Bound
<1>4. ASSUME NEW c \in Command PROVE Sound(c)' /\ (Watches(c)' => Watches(c))
  <2>1. Child(c) \in Daemon /\ Child(c)' = Child(c)
    BY InvType, Childs DEF Child
  <2> QED
    BY <1>2, <2>1, SameCommand DEF Watches
<1>5. Dead' => Dead
  BY <1>2 DEF Dead
<1>6. Attended'
  BY <1>2, <1>4, <1>5, AttendedStill
<1> QED
  BY <1>3, <1>4, <1>6 DEF Inv

\* A step of a command that leaves the daemons alone.
LEMMA CommandMoves ==
    ASSUME Inv, NEW c \in Command, NEW l \in Label, Goto(c, l), path' = path,
           round' \in [Command -> Round], conn' \in [Command -> Daemon \cup {None}],
           since' \in [Command -> {"calm", "theft", "excused"}], faults' \in 0..Faults,
           \A b \in Command :
              b # c => since'[b] = since[b] /\ round'[b] = round[b] /\ conn'[b] = conn[b],
           since'[c] \in {since[c], "excused"},
           l # "wait", l = "grace" => pc[c] = "wait" /\ round'[c] = round[c],
           Sound(c)'
    PROVE  Inv'
<1>1. /\ pc' \in [Process -> Label]
      /\ \A y \in Process : pc'[y] = IF y = c THEN l ELSE pc[y]
  BY InvType, OneMoves, Names
<1>2. /\ \A d \in Daemon : pc'[d] = pc[d]
      /\ \A b \in Command : b # c => pc'[b] = pc[b]
      /\ pc'[c] = l
  BY <1>1, Names
<1>3. TypeOK' /\ Bound'
  BY <1>1, <1>2 DEF Inv, TypeOK, Bound
<1>4. ASSUME NEW b \in Command PROVE Sound(b)' /\ (Watches(b)' => Watches(b))
  <2>1. Child(b) \in Daemon
    BY InvType, Childs
  <2>2. CASE b = c
    BY <1>2, <2>1, <2>2 DEF Watches, Child
  <2>3. CASE b # c
    <3>1. Child(b)' = Child(b)
      BY <2>3 DEF Child
    <3> QED
      BY <1>2, <2>1, <2>3, <3>1, SameCommand DEF Watches
  <2> QED
    BY <2>2, <2>3
<1>5. Dead' => Dead
  BY <1>2 DEF Dead
<1>6. Attended'
  BY <1>2, <1>4, <1>5, AttendedStill
<1> QED
  BY <1>3, <1>4, <1>6 DEF Inv

\* The same when the command stays in its round and with its connection.
LEMMA CommandGoes ==
    ASSUME Inv, NEW c \in Command,
           NEW l \in {"ping", "spawn", "grace", "request",
                      "look", "probe", "unlink", "unserved"},
           Goto(c, l), UNCHANGED <<path, round, conn>>,
           since' \in [Command -> {"calm", "theft", "excused"}], faults' \in 0..Faults,
           \A b \in Command : b # c => since'[b] = since[b],
           since'[c] \in {since[c], "excused"},
           l = "ping" => pc[c] = "idle", l = "spawn" => pc[c] = "ping",
           l = "grace" => pc[c] = "wait" /\ pc[Child(c)] = "gone",
           l = "request" => Answers(c),
           l \in {"look", "probe", "unlink", "unserved"} =>
              pc[Child(c)] = "gone" /\ since'[c] = "excused",
           l = "unserved" => path # Child(c)
    PROVE  Inv'
<1>1. /\ Child(c) \in Daemon /\ <<c, 2>> \in Daemon /\ Child(c)' = Child(c) /\ Sound(c)
      /\ c \in Process
  BY InvType, Childs, Names DEF Child, Inv
<1>2. /\ pc'[c] = l /\ l \in Label
      /\ \A d \in Daemon : pc'[d] = pc[d]
  BY InvType, OneMoves, Names DEF Label
<1>3. TypeOK
  BY InvType
<1>4. Parent(c)' /\ Reason(c)'
  BY <1>1, <1>2 DEF Sound, Parent, Reason
<1>5. Found(c)'
  BY <1>2 DEF Found, Answers, Db
<1>6. Outcome(c)'
  BY <1>1, <1>2 DEF Outcome, Inv, Bound
<1>7. Sound(c)'
  BY <1>4, <1>5, <1>6 DEF Sound
<1> QED
  BY <1>2, <1>3, <1>7, CommandMoves DEF TypeOK

\* What not getting an answer does to a command.
LEMMA NotAnswered ==
    ASSUME Inv, NEW c \in Command, Running(c), NotReady(c)
    PROVE  /\ since' \in [Command -> {"calm", "theft", "excused"}] /\ faults' \in 0..Faults
           /\ \A b \in Command : b # c => since'[b] = since[b]
           /\ since'[c] \in {since[c], "excused"}
           /\ Answers(c) \/ Foreign(c) => since'[c] = "excused"
<1>1. TypeOK
  BY InvType
<1>2. CASE Excuses({c})
  <2>1. faults' \in 0..Faults
    BY <1>1, BoundsAssumption DEF NotReady, Fault, NoFault, TypeOK
  <2> QED
    BY <1>1, <1>2, <2>1, Excused
<1>3. CASE ~Answers(c) /\ ~Foreign(c) /\ NoFault
  BY <1>1, <1>3 DEF NoFault, TypeOK
<1> QED
  BY <1>2, <1>3 DEF NotReady, Fault

\* With nobody starting, a command that still waits finds a daemon: its own was
\* replaced by another, and the last one has nobody to replace it.
LEMMA SomebodyServes ==
    ASSUME Inv, Patient, NEW c \in Command, Watches(c)
    PROVE  Answers(c) \/ Foreign(c)
<1>1. \A d \in Daemon : pc[d] \notin {"look", "probe", "unlink", "bind", "listen", "chmod"}
  BY DEF Patient, Starting
<1>2. path # None /\ ~Dead
  BY <1>1 DEF Inv, Attended
<1>3. path \in Daemon /\ pc[path] = "serve"
  BY <1>1, <1>2 DEF Inv, TypeOK, Bound, Dead
<1> QED
  BY <1>3 DEF Answers, Foreign, Listening

LEMMA BeginStep ==
    ASSUME Inv, NEW c \in Command, Begin(c)
    PROVE  Inv'
<1>1. TypeOK /\ pc[c] = "idle" /\ Goto(c, "ping") /\ UNCHANGED <<path, round, conn, since, faults>>
  BY InvType DEF Begin, Invoke
<1> QED
  BY <1>1, CommandGoes DEF TypeOK

LEMMA ReadyStep ==
    ASSUME Inv, NEW c \in Command, Ready(c)
    PROVE  Inv'
<1>1. /\ TypeOK /\ Answers(c) /\ Goto(c, "request")
      /\ UNCHANGED <<path, round, conn, since, faults>>
  BY InvType DEF Ready, NoFault
<1> QED
  BY <1>1, CommandGoes DEF TypeOK

LEMMA PingStep ==
    ASSUME Inv, NEW c \in Command, Ping(c)
    PROVE  Inv'
<1>1. ASSUME NotReady(c), Goto(c, "spawn"), UNCHANGED <<path, round, conn>> PROVE Inv'
  BY <1>1, NotAnswered, CommandGoes DEF Ping, Running
<1> QED
  BY <1>1, ReadyStep DEF Ping

LEMMA WaitStep ==
    ASSUME Inv, NEW c \in Command, Wait(c)
    PROVE  Inv'
<1>1. ASSUME pc[Child(c)] = "gone", NotReady(c), Goto(c, "grace"),
             UNCHANGED <<path, round, conn>>
      PROVE  Inv'
  BY <1>1, NotAnswered, CommandGoes DEF Wait, Running
<1> QED
  BY <1>1, ReadyStep DEF Wait

LEMMA GraceStep ==
    ASSUME Inv, NEW c \in Command, Grace(c)
    PROVE  Inv'
<1>1. ASSUME Patient, NotReady(c), Goto(c, "look"), UNCHANGED <<path, round, conn>>
      PROVE  Inv'
  <2>1. pc[c] = "grace" /\ pc[Child(c)] = "gone" /\ Running(c)
    BY DEF Grace, Running, Inv, Sound, Parent
  <2>2. /\ since' \in [Command -> {"calm", "theft", "excused"}] /\ faults' \in 0..Faults
        /\ \A b \in Command : b # c => since'[b] = since[b]
        /\ since'[c] \in {since[c], "excused"}
        /\ Answers(c) \/ Foreign(c) => since'[c] = "excused"
    BY <1>1, <2>1, NotAnswered
  <2>3. since'[c] = "excused"
    BY <1>1, <2>1, <2>2, SomebodyServes DEF Watches
  <2> QED
    BY <1>1, <2>1, <2>2, <2>3, CommandGoes
<1> QED
  BY <1>1, ReadyStep DEF Grace

LEMMA CommandLooks ==
    ASSUME Inv, NEW c \in Command, Look(c)
    PROVE  Inv'
<1>1. TypeOK /\ Sound(c) /\ Child(c) \in Daemon /\ c \notin Daemon
  BY InvType, Childs, Names DEF Inv
<1>2. /\ pc[c] = "look" /\ Goto(c, IF path = None THEN "unserved" ELSE "probe")
      /\ UNCHANGED <<path, round, conn, since, faults>>
  BY <1>1, Names DEF Look, After, NoFault
<1>3. pc[Child(c)] = "gone" /\ since[c] = "excused"
  BY <1>1, <1>2 DEF Sound, Parent, Reason
<1>4. CASE path = None
  BY <1>1, <1>2, <1>3, <1>4, Names, CommandGoes DEF TypeOK
<1>5. CASE path # None
  BY <1>1, <1>2, <1>3, <1>5, CommandGoes DEF TypeOK
<1> QED
  BY <1>4, <1>5

LEMMA CommandProbes ==
    ASSUME Inv, NEW c \in Command, Probe(c)
    PROVE  Inv'
<1>1. TypeOK /\ Sound(c) /\ Child(c) \in Daemon
  BY InvType, Childs DEF Inv
<1>2. /\ pc[c] = "probe" /\ Goto(c, IF Listening(path) THEN "unserved" ELSE "unlink")
      /\ UNCHANGED <<path, round, conn, since, faults>>
  BY DEF Probe, Ends, NoFault
<1>3. pc[Child(c)] = "gone" /\ since[c] = "excused"
  BY <1>1, <1>2 DEF Sound, Parent, Reason
<1>4. CASE Listening(path)
  BY <1>1, <1>2, <1>3, <1>4, CommandGoes DEF TypeOK, Listening
<1>5. CASE ~Listening(path)
  BY <1>1, <1>2, <1>3, <1>5, CommandGoes DEF TypeOK
<1> QED
  BY <1>4, <1>5

\* Every command that runs is excused by the removal.
LEMMA OthersUnlink ==
    ASSUME Inv, NEW x \in Command \cup Cleaner, Unlink(x)
    PROVE  Inv'
<1>1. x \notin Daemon /\ x \in Process /\ (x \in Command => x \notin Cleaner) /\ TypeOK
      /\ pc[x] = "unlink" /\ UNCHANGED <<round, conn, faults>> /\ path' = None
  BY InvType, Names DEF Unlink
<1>2. Goto(x, IF x \in Command THEN "unserved" ELSE "gone")
  BY <1>1 DEF Unlink, After, Ends
<1>3. /\ pc' \in [Process -> Label]
      /\ \A y \in Process : y # x => pc'[y] = pc[y]
      /\ x \in Command => pc'[x] = "unserved"
  BY <1>1, <1>2, OneMoves DEF Label
<1>4. CASE path = None
  <2>1. path' = path /\ UNCHANGED since
    BY <1>1, <1>4, Names DEF Unlink, Listening
  <2>2. CASE x \in Cleaner
    BY <1>1, <1>2, <2>1, <2>2, Names, CleanerMoves DEF Label
  <2>3. CASE x \in Command
    <3>1. Sound(x) /\ Child(x) \in Daemon
      BY <1>1, <2>3, Childs DEF Inv
    <3>2. pc[Child(x)] = "gone" /\ since[x] = "excused" /\ path # Child(x)
      BY <1>1, <1>4, <2>3, <3>1, Names DEF Sound, Parent, Reason
    <3> QED
      BY <1>1, <1>2, <2>1, <2>3, <3>2, CommandGoes DEF TypeOK
  <2> QED
    BY <2>2, <2>3
<1>5. CASE path # None
  <2>1. Excuses(Command)
    BY <1>1, <1>5 DEF Unlink
  <2>2. /\ since' \in [Command -> {"calm", "theft", "excused"}]
        /\ \A c \in Command : since'[c] \in {since[c], "excused"}
        /\ \A c \in Command : Running(c) => since'[c] = "excused"
    BY <1>1, <2>1, Excused
  <2>3. TypeOK' /\ Bound'
    BY <1>1, <1>3, <2>2, Names DEF TypeOK, Bound
  <2>4. ASSUME NEW c \in Command
        PROVE  pc'[c] = pc[c] \/ (c = x /\ pc'[c] = "unserved" /\ since'[c] = "excused")
    BY <1>1, <1>3, <2>2, Names DEF Running
  <2>5. Attended'
    BY <2>2, <2>4 DEF Attended, Watches, Running
  <2>6. ASSUME NEW c \in Command PROVE Sound(c)'
    <3>1. Sound(c) /\ Child(c) \in Daemon /\ <<c, 2>> \in Daemon
      BY <1>1, Childs DEF Inv
    <3>2. /\ Sound(c) /\ Child(c)' = Child(c)
          /\ pc'[Child(c)] = pc[Child(c)] /\ pc'[<<c, 2>>] = pc[<<c, 2>>]
      BY <1>1, <1>3, <3>1, Names DEF Child
    <3>3. Parent(c)'
      BY <1>1, <2>4, <3>2 DEF Sound, Parent
    <3>4. Reason(c)'
      BY <1>1, <2>2, <2>4, <3>2 DEF Sound, Reason
    <3>5. Found(c)'
      BY <2>2, <2>4 DEF Found, Steady, Running
    <3>6. Outcome(c)'
      BY <1>1, <2>2, <2>4, <3>1, <3>2, Names DEF Sound, Outcome, Db
    <3> QED
      BY <3>3, <3>4, <3>5, <3>6 DEF Sound
  <2> QED
    BY <2>3, <2>5, <2>6 DEF Inv
<1> QED
  BY <1>4, <1>5

LEMMA RemoveStep ==
    ASSUME Inv, NEW x \in Process, Remove(x)
    PROVE  Inv'
<1>1. CASE x \in Daemon
  BY <1>1, DaemonLooks, DaemonProbes, DaemonUnlinks DEF Remove
<1>2. CASE x \in Command
  BY <1>2, CommandLooks, CommandProbes, OthersUnlink DEF Remove
<1>3. CASE x \in Cleaner
  <2>1. ASSUME Look(x) PROVE Inv'
    <3> DEFINE l == IF path = None THEN After(x) ELSE "probe"
    <3>1. Goto(x, l) /\ l \in Label /\ UNCHANGED <<path, round, conn, since, faults>>
      BY <1>3, <2>1, Names DEF Look, After, NoFault, Label
    <3> QED
      BY <1>3, <3>1, CleanerMoves
  <2>2. ASSUME Probe(x) PROVE Inv'
    <3> DEFINE l == IF Listening(path) THEN Ends(x) ELSE "unlink"
    <3>1. Goto(x, l) /\ l \in Label /\ UNCHANGED <<path, round, conn, since, faults>>
      BY <1>3, <2>2, Names DEF Probe, Ends, NoFault, Label
    <3> QED
      BY <1>3, <3>1, CleanerMoves
  <2> QED
    BY <1>3, <2>1, <2>2, OthersUnlink DEF Remove
<1> QED
  BY <1>1, <1>2, <1>3 DEF Process

LEMMA CleanStep ==
    ASSUME Inv, NEW x \in Cleaner, Clean(x)
    PROVE  Inv'
BY CleanerMoves DEF Clean, Invoke, Label

LEMMA SpawnStep ==
    ASSUME Inv, NEW c \in Command, Spawn(c)
    PROVE  Inv'
<1>1. /\ TypeOK /\ Sound(c) /\ Child(c) \in Daemon /\ Child(c) \in Process /\ c \in Process
      /\ c \notin Daemon /\ pc[c] = "spawn" /\ UNCHANGED <<path, round, conn, since, faults>>
      /\ round[c] \in {1, 2} /\ <<c, 2>> \in Daemon
  BY InvType, Childs, Names DEF Inv, Spawn, NoFault
<1>2. pc[Child(c)] = "idle"
  BY <1>1 DEF Sound, Parent
<1>3. /\ pc' \in [Process -> Label] /\ pc'[c] = "wait" /\ pc'[Child(c)] = "open"
      /\ \A y \in Process : y \notin {c, Child(c)} => pc'[y] = pc[y]
  BY <1>1 DEF Spawn, TypeOK, Label
<1>4. path # Child(c)
  BY <1>1, <1>2 DEF Inv, Bound
<1>5. \A d \in Daemon : d # Child(c) => pc'[d] = pc[d]
  BY <1>1, <1>3, Names
<1>6. TypeOK' /\ Bound'
  BY <1>1, <1>3, <1>4, <1>5 DEF Inv, TypeOK, Bound
<1>7. ASSUME NEW b \in Command, b # c PROVE Sound(b)' /\ (Watches(b)' => Watches(b))
  <2>1. /\ pc'[b] = pc[b] /\ Child(b)' = Child(b)
        /\ pc'[Child(b)] = pc[Child(b)] /\ pc'[<<b, 2>>] = pc[<<b, 2>>]
    BY <1>1, <1>3, <1>5, <1>7, Childs, Names DEF Child
  <2>2. \A d \in Daemon : d \in {Child(b), <<b, 2>>, path} => pc'[d] = pc[d]
    BY <1>4, <1>5, <2>1
  <2> QED
    BY <1>1, <2>1, <2>2, SameCommand DEF Watches
<1>8. Sound(c)' /\ ~Watches(c)'
  <2>1. Child(c)' = Child(c) /\ (round[c] = 1 => <<c, 2>> # Child(c))
    BY <1>1 DEF Child
  <2>2. Parent(c)' /\ Reason(c)' /\ Found(c)' /\ Outcome(c)'
    BY <1>1, <1>3, <1>5, <2>1 DEF Sound, Parent, Reason, Found, Outcome
  <2> QED
    BY <1>3, <2>1, <2>2 DEF Sound, Watches
<1>9. Dead' => Dead
  BY <1>1, <1>4, <1>5 DEF Dead
<1>10. Attended'
  BY <1>1, <1>2, <1>5, <1>7, <1>8, <1>9, AttendedStill
<1> QED
  BY <1>6, <1>7, <1>8, <1>10 DEF Inv

\* Every command that runs is excused by the death of the child, the one that
\* kills it because it found no daemon although it could still expect one.
LEMMA DeadlineStep ==
    ASSUME Inv, NEW c \in Command, Deadline(c)
    PROVE  Inv'
<1>1. /\ TypeOK /\ Sound(c) /\ Child(c) \in Daemon /\ Child(c) \in Process /\ c \in Process
      /\ c \notin Daemon /\ pc[c] = "wait" /\ pc[Child(c)] # "gone" /\ Patient
      /\ UNCHANGED <<path, round, conn>> /\ <<c, 2>> \in Daemon
  BY InvType, Childs, Names DEF Inv, Deadline
<1>2. /\ pc' \in [Process -> Label] /\ pc'[c] = "look" /\ pc'[Child(c)] = "gone"
      /\ \A y \in Process : y \notin {c, Child(c)} => pc'[y] = pc[y]
  BY <1>1 DEF Deadline, TypeOK, Label
<1>3. /\ since' \in [Command -> {"calm", "theft", "excused"}] /\ faults' \in 0..Faults
      /\ \A b \in Command : since'[b] \in {since[b], "excused"}
      /\ \A b \in Command : Running(b) => since'[b] = "excused"
  <2>1. CASE Fault(Command)
    BY <1>1, <2>1, Excused, BoundsAssumption DEF Fault, TypeOK
  <2>2. CASE /\ ~Answers(c) /\ pc[Child(c)] # "open" /\ UNCHANGED faults
             /\ Excuses({d \in Command : d # c \/ Foreign(c)})
    <3>1. /\ since' \in [Command -> {"calm", "theft", "excused"}]
          /\ \A b \in Command :
                /\ since'[b] \in {since[b], "excused"}
                /\ (b # c \/ Foreign(c)) /\ Running(b) => since'[b] = "excused"
      BY <1>1, <2>2, Excused
    <3>2. since[c] # "excused" => Foreign(c)
      BY <1>1, <2>2, SomebodyServes DEF Watches
    <3>3. Running(c) => since'[c] = "excused"
      BY <3>1, <3>2
    <3> QED
      BY <1>1, <2>2, <3>1, <3>3 DEF TypeOK
  <2> QED
    BY <2>1, <2>2 DEF Deadline
<1>4. \A d \in Daemon : d # Child(c) => pc'[d] = pc[d]
  BY <1>1, <1>2, Names
<1>5. TypeOK' /\ Bound'
  BY <1>1, <1>2, <1>3, <1>4 DEF Inv, TypeOK, Bound
<1>6. ASSUME NEW b \in Command
      PROVE  pc'[b] = pc[b] \/ (b = c /\ pc'[b] = "look" /\ since'[b] = "excused")
  BY <1>1, <1>2, <1>3, Names DEF Running
<1>7. Attended'
  BY <1>3, <1>6 DEF Attended, Watches, Running
<1>8. ASSUME NEW b \in Command PROVE Sound(b)'
  <2>1. /\ Sound(b) /\ Child(b) \in Daemon /\ <<b, 2>> \in Daemon /\ Child(b)' = Child(b)
    BY <1>1, Childs DEF Inv, Child
  <2>2. b # c => Child(b) # Child(c) /\ <<b, 2>> # Child(c)
    BY <1>1, Childs
  <2>3. Parent(b)'
    <3>1. CASE b # c
      BY <1>1, <1>4, <1>6, <2>1, <2>2, <3>1 DEF Sound, Parent
    <3>2. CASE b = c
      <4>1. round[c] = 1 => <<c, 2>> # Child(c)
        BY DEF Child
      <4> QED
        BY <1>1, <1>2, <1>4, <2>1, <3>2, <4>1 DEF Sound, Parent
    <3> QED
      BY <3>1, <3>2
  <2>4. Reason(b)'
    BY <1>1, <1>3, <1>6, <2>1 DEF Sound, Reason
  <2>5. Found(b)'
    BY <1>3, <1>6 DEF Found, Steady, Running
  <2>6. Outcome(b)'
    BY <1>1, <1>3, <1>6, <2>1 DEF Sound, Outcome, Db, Running
  <2> QED
    BY <2>3, <2>4, <2>5, <2>6 DEF Sound
<1> QED
  BY <1>5, <1>7, <1>8 DEF Inv

\* The request goes to the daemon that was found.
LEMMA RequestStep ==
    ASSUME Inv, NEW c \in Command, Request(c)
    PROVE  Inv'
<1>1. /\ TypeOK /\ Sound(c) /\ pc[c] = "request" /\ Listening(path) /\ path \in Daemon
      /\ Goto(c, "reply") /\ UNCHANGED <<path, round, since, faults>>
      /\ Child(c) \in Daemon /\ <<c, 2>> \in Daemon /\ Child(c)' = Child(c)
  BY InvType, Childs DEF Inv, Request, NoFault, Listening, Child
<1>2. /\ conn' \in [Command -> Daemon \cup {None}] /\ conn'[c] = path
      /\ \A b \in Command : b # c => conn'[b] = conn[b]
  BY <1>1 DEF Request, TypeOK
<1>3. /\ pc'[c] = "reply"
      /\ \A d \in Daemon : pc'[d] = pc[d]
  BY <1>1, OneMoves, Names DEF Label
<1>4. Parent(c)' /\ Reason(c)' /\ Outcome(c)'
  BY <1>1, <1>3 DEF Sound, Parent, Reason, Outcome
<1>5. Found(c)'
  BY <1>1, <1>2, <1>3 DEF Sound, Found, Steady, Answers, Listening, Db
<1>6. Sound(c)'
  BY <1>4, <1>5 DEF Sound
<1> QED
  BY <1>1, <1>2, <1>6, CommandMoves DEF TypeOK, Label

LEMMA ReplyStep ==
    ASSUME Inv, NEW c \in Command, Reply(c)
    PROVE  Inv'
<1>1. /\ TypeOK /\ Sound(c) /\ pc[c] = "reply"
      /\ Goto(c, "answered") /\ UNCHANGED <<path, round, conn, since, faults>>
      /\ Child(c) \in Daemon /\ <<c, 2>> \in Daemon /\ Child(c)' = Child(c)
  BY InvType, Childs DEF Inv, Reply, NoFault, Child
<1>2. /\ pc'[c] = "answered"
      /\ \A d \in Daemon : pc'[d] = pc[d]
  BY <1>1, OneMoves, Names DEF Label
<1>3. Parent(c)' /\ Reason(c)' /\ Found(c)'
  BY <1>1, <1>2 DEF Sound, Parent, Reason, Found
<1>4. Outcome(c)'
  BY <1>1, <1>2 DEF Sound, Found, Steady, Outcome, Db
<1>5. Sound(c)'
  BY <1>3, <1>4 DEF Sound
<1> QED
  BY <1>1, <1>5, CommandMoves DEF TypeOK, Label

\* A request that fails although its daemon was at the path was robbed of it,
\* and the second time that excuses the command.
LEMMA FailsStep ==
    ASSUME Inv, NEW c \in Command, Fails(c)
    PROVE  Inv'
<1>1. /\ TypeOK /\ Sound(c) /\ pc[c] \in {"request", "reply"} /\ Running(c)
      /\ path' = path /\ conn' = [conn EXCEPT ![c] = None]
      /\ Child(c) \in Daemon /\ <<c, 2>> \in Daemon /\ round[c] \in {1, 2}
  BY InvType, Childs DEF Inv, Fails, Running
<1>2. /\ since' \in [Command -> {"calm", "theft", "excused"}] /\ faults' \in 0..Faults
      /\ \A b \in Command : b # c => since'[b] = since[b]
      /\ since'[c] \in {since[c], "excused"}
      /\ since'[c] = "excused" \/ (since[c] = "theft" /\ round[c] = 1)
  <2>1. CASE Fault({c})
    BY <1>1, <2>1, Excused, BoundsAssumption DEF Fault, TypeOK
  <2>2. CASE pc[c] = "request" /\ ~Listening(path) /\ NoFault
    <3>1. ~Steady(c)
      BY <1>1, <2>2 DEF Sound, Found, Answers, Listening
    <3> QED
      BY <1>1, <2>2, <3>1 DEF NoFault, TypeOK, Steady
  <2>3. CASE pc[c] = "reply" /\ pc[conn[c]] = "gone" /\ NoFault
    <3>1. ~Steady(c)
      BY <1>1, <2>3 DEF Sound, Found, Listening
    <3> QED
      BY <1>1, <2>3, <3>1 DEF NoFault, TypeOK, Steady
  <2> QED
    BY <2>1, <2>2, <2>3 DEF Fails
<1>3. /\ conn' \in [Command -> Daemon \cup {None}]
      /\ \A b \in Command : b # c => conn'[b] = conn[b]
  BY <1>1 DEF TypeOK
<1>4. CASE round[c] = 1
  <2>1. /\ Goto(c, "ping") /\ round' = [round EXCEPT ![c] = 2]
    BY <1>1, <1>4 DEF Fails, Again
  <2>2. /\ round' \in [Command -> Round] /\ round'[c] = 2
        /\ \A b \in Command : b # c => round'[b] = round[b]
    BY <1>1, <2>1 DEF TypeOK, Round
  <2>3. /\ pc'[c] = "ping" /\ Child(c)' = <<c, 2>>
        /\ \A d \in Daemon : pc'[d] = pc[d]
    BY <1>1, <2>1, <2>2, OneMoves, Names DEF Label, Child
  <2>4. Sound(c)'
    BY <1>1, <1>2, <1>4, <2>2, <2>3 DEF Sound, Parent, Reason, Found, Outcome
  <2> QED
    BY <1>1, <1>2, <1>3, <2>1, <2>2, <2>4, CommandMoves DEF Label
<1>5. CASE round[c] = 2
  <2>1. Goto(c, "lost") /\ UNCHANGED round
    BY <1>1, <1>5 DEF Fails, Again
  <2>2. /\ pc'[c] = "lost" /\ Child(c)' = Child(c)
        /\ \A d \in Daemon : pc'[d] = pc[d]
    BY <1>1, <2>1, OneMoves, Names DEF Label, Child
  <2>3. Sound(c)'
    BY <1>1, <1>2, <1>5, <2>1, <2>2 DEF Sound, Parent, Reason, Found, Outcome
  <2> QED
    BY <1>1, <1>2, <1>3, <2>1, <2>3, CommandMoves DEF Label, TypeOK
<1> QED
  BY <1>1, <1>4, <1>5

-----------------------------------------------------------------------------
(* The invariant and what follows from it.                                   *)

LEMMA InvInit == Init => Inv
<1> SUFFICES ASSUME Init PROVE Inv
  OBVIOUS
<1>1. TypeOK
  BY BoundsAssumption DEF Init, TypeOK, Label, Round
<1>2. Bound /\ Attended
  <2>1. \A c \in Command : pc[c] = "idle"
    BY Names DEF Init
  <2> QED
    BY <2>1, Names DEF Init, Bound, Attended, Watches
<1>3. ASSUME NEW c \in Command PROVE Sound(c)
  <2>1. c \in Process /\ Child(c) \in Process /\ <<c, 2>> \in Process
    BY <1>1, Childs, Names
  <2> QED
    BY <2>1 DEF Init, Sound, Parent, Reason, Found, Outcome
<1> QED
  BY <1>1, <1>2, <1>3 DEF Inv

LEMMA InvNext == Inv /\ [Next]_vars => Inv'
<1> SUFFICES ASSUME Inv, [Next]_vars PROVE Inv'
  OBVIOUS
<1>1. ASSUME NEW d \in Daemon, StartManual(d) \/ Serve(d) \/ AcceptFails(d) \/ Crash(d)
      PROVE  Inv'
  BY <1>1, StartManualStep, OpenStep, BindStep, ListenStep, ChmodStep, AcceptFailsStep,
     CrashStep DEF Serve
<1>2. ASSUME NEW x \in Process, Remove(x) PROVE Inv'
  BY <1>2, RemoveStep
<1>3. ASSUME NEW x \in Cleaner, Clean(x) PROVE Inv'
  BY <1>3, CleanStep
<1>4. ASSUME NEW c \in Command, Begin(c) \/ Search(c) \/ Ask(c) PROVE Inv'
  BY <1>4, BeginStep, PingStep, SpawnStep, WaitStep, DeadlineStep, GraceStep, RequestStep,
     ReplyStep, FailsStep DEF Search, Ask
<1>5. CASE UNCHANGED vars
  <2>1. UNCHANGED <<path, pc, round, conn, since, faults>>
    BY <1>5 DEF vars
  <2>2. TypeOK' /\ Bound'
    BY <2>1 DEF Inv, TypeOK, Bound
  <2>3. Attended'
    BY <2>1, AttendedStill DEF Watches, Child, Dead
  <2>4. \A c \in Command : Sound(c)'
    BY <2>1, SameCommand
  <2> QED
    BY <2>2, <2>3, <2>4 DEF Inv
<1> QED
  BY <1>1, <1>2, <1>3, <1>4, <1>5 DEF Next

\* Attended, Bound and what is known of every command hold throughout.
THEOREM InvHolds == Spec => []Inv
BY InvInit, InvNext, PTL DEF Spec

\* The socket, the processes and the history have their types.
THEOREM TypeOKHolds == Spec => []TypeOK
<1>1. Inv => TypeOK
  BY DEF Inv
<1> QED
  BY <1>1, InvHolds, PTL

\* A command fails only if something happened to it that no command copes with:
\* daemon_request_result and daemon_client, for any number of processes.
THEOREM FailsForAReasonHolds == Spec => []FailsForAReason
<1>1. Inv => FailsForAReason
  BY DEF Inv, Sound, Reason, FailsForAReason
<1> QED
  BY <1>1, InvHolds, PTL

\* The daemon that answers the request serves the database of the command, unless
\* it was disturbed between the handshake of daemon_is_ready and the request.
THEOREM AnswerFromOwnDatabaseHolds == Spec => []AnswerFromOwnDatabase
<1>1. Inv => AnswerFromOwnDatabase
  BY DEF Inv, Sound, Outcome, AnswerFromOwnDatabase
<1> QED
  BY <1>1, InvHolds, PTL

\* A command that gave up a daemon it started has cleaned up behind it.
THEOREM NoSocketOfAFailedChildHolds == Spec => []NoSocketOfAFailedChild
<1>1. Inv => NoSocketOfAFailedChild
  BY DEF Inv, Sound, Outcome, NoSocketOfAFailedChild
<1> QED
  BY <1>1, InvHolds, PTL
=============================================================================

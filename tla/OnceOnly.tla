------------------------------ MODULE OnceOnly ------------------------------
(***************************************************************************)
(* What the request journal promises: a request is decided once, and       *)
(* every success that a client is told of is that decision.                *)
(***************************************************************************)
CONSTANTS Request, Client, Answer, None, RequestsOf(_)

VARIABLES
    decision,   \* the answer of each request, None until it is decided
    told        \* the success each client was told of, None before

vars == <<decision, told>>

Init ==
    /\ decision = [r \in Request |-> None]
    /\ told = [c \in Client |-> None]

Decide(r, a) ==
    /\ decision[r] = None
    /\ decision' = [decision EXCEPT ![r] = a]
    /\ UNCHANGED told

\* RequestsOf(c): what the call of c may turn out to be a repetition of.
Tell(c, r) ==
    /\ told[c] = None /\ decision[r] # None
    /\ told' = [told EXCEPT ![c] = decision[r]]
    /\ UNCHANGED decision

Next ==
    \/ \E r \in Request, a \in Answer : Decide(r, a)
    \/ \E c \in Client : \E r \in RequestsOf(c) : Tell(c, r)

Spec == Init /\ [][Next]_vars
=============================================================================

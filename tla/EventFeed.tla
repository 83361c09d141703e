----------------------------- MODULE EventFeed -----------------------------
(***************************************************************************)
(* What the event stream promises a consumer that has received an event    *)
(* (README, "Auth Event Stream"): from then on it gets every later event,  *)
(* each once and in order, unless it is told of a gap, and no restart of   *)
(* the issuer goes untold.                                                 *)
(***************************************************************************)
EXTENDS Integers

CONSTANT Consumers

VARIABLES
    head,       \* events and restarts so far
    restarts,   \* which of them were restarts
    position,   \* up to where each consumer is informed; -1 if not bound yet
    gaps        \* how many gaps each consumer has been told of

vars == <<head, restarts, position, gaps>>

Init ==
    /\ head = 0
    /\ restarts = {}
    /\ position = [c \in Consumers |-> -1]
    /\ gaps = [c \in Consumers |-> 0]

Event ==
    /\ head' = head + 1
    /\ UNCHANGED <<restarts, position, gaps>>

Restart ==
    /\ head' = head + 1
    /\ restarts' = restarts \cup {head + 1}
    /\ UNCHANGED <<position, gaps>>

Bind(c) ==
    /\ position[c] = -1
    /\ \E n \in 1 .. head : position' = [position EXCEPT ![c] = n]
    /\ UNCHANGED <<head, restarts, gaps>>

Deliver(c) ==
    /\ position[c] \in 0 .. head - 1
    /\ position[c] + 1 \notin restarts
    /\ position' = [position EXCEPT ![c] = @ + 1]
    /\ UNCHANGED <<head, restarts, gaps>>

(* Whatever is skipped is skipped together with a gap signal. *)
Gap(c) ==
    /\ position[c] >= 0
    /\ \E n \in position[c] .. head : position' = [position EXCEPT ![c] = n]
    /\ gaps' = [gaps EXCEPT ![c] = @ + 1]
    /\ UNCHANGED <<head, restarts>>

Next ==
    \/ Event
    \/ Restart
    \/ \E c \in Consumers : Bind(c) \/ Deliver(c) \/ Gap(c)

Spec == Init /\ [][Next]_vars
=============================================================================

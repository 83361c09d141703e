---------------------------- MODULE RateLimiter ----------------------------
(***************************************************************************)
(* The fixed-window limiters of core/client.py.  A request passes the      *)
(* counters of its route one by one: INCR, and an EXPIRE of its own when   *)
(* the INCR created the counter, or both in one pipeline.  A successful    *)
(* login deletes the counter of its e-mail address.                        *)
(*                                                                         *)
(* Counts are cut off one above the limit.  The end of a window is the end *)
(* of the counter's TTL, or of the clock period its key names.             *)
(*                                                                         *)
(* Not part of the state: a missing Redis client, where nothing is counted *)
(* and the request is refused or let through by the failure mode.          *)
(***************************************************************************)
EXTENDS Integers, Sequences, FiniteSets, SequencesExt

CONSTANTS
    Requests,  \* requests in flight
    Counters,  \* Redis keys of the limiters: one per class and identifier
    Limit,     \* requests a counter lets through in one window
    Login, Exchange, KeyUse,  \* the routes, as the counters they pass
    Traffic,   \* bound: the sets of routes that requests come in on together
    CrashBound \* bound on the requests cut off by a crash or a Redis error

Routes == {Login, Exchange, KeyUse}

ASSUME RoutesAssumption ==
    /\ Cardinality(Routes) = 3
    /\ \A w \in Routes : w \in Seq(Counters) /\ w # << >> /\ IsInjective(w)
    /\ \A v, w \in Routes : v # w => Range(v) \cap Range(w) = {}
ASSUME TrafficAssumption == Traffic \subseteq SUBSET Routes
ASSUME LimitAssumption == Limit \in [Counters -> Nat \ {0}]
ASSUME CrashAssumption == CrashBound \in Nat

VARIABLES
    routes,    \* the routes requests come in on, one of Traffic
    counter,   \* the counters; count 0: no key
    call,      \* the requests
    orphaned,  \* history: counters whose creator was cut off before its EXPIRE
    crashes

limiterVars == <<routes, counter, call, orphaned, crashes>>

NoCounter == [count |-> 0, ttl |-> FALSE]
NoCall == [route |-> << >>, pc |-> "idle", at |-> 1, ok |-> TRUE]

(* The login and exchange limiters send INCR and EXPIRE apart; the ones of *)
(* the API keys and of introspection pipeline them and stop at the first   *)
(* counter that is over its limit.                                         *)
Pipelined(w) == w = KeyUse

(* The counter whose EXPIRE request r still has to send. *)
Current(r) == call[r].route[call[r].at]
OwesExpiry(r, k) == call[r].pc = "expire" /\ Current(r) = k

LimiterTypeOK ==
    /\ routes \in Traffic
    /\ counter \in [Counters -> [count : Nat, ttl : BOOLEAN]]
    /\ \A k \in Counters :
        /\ counter[k].count \in 0 .. Limit[k] + 1
        /\ counter[k].ttl => counter[k].count > 0
    /\ \A r \in Requests :
        /\ call[r].route \in Routes \cup {<< >>}
        /\ call[r].pc \in {"idle", "incr", "expire", "served"}
        /\ call[r].at \in 1 .. Len(call[r].route) + 1
        /\ call[r].ok \in BOOLEAN
    /\ \A k \in orphaned : counter[k].count > 0 /\ ~ counter[k].ttl
    /\ crashes \in 0 .. CrashBound

LimiterInit ==
    /\ routes \in Traffic
    /\ counter = [k \in Counters |-> NoCounter]
    /\ call = [r \in Requests |-> NoCall]
    /\ orphaned = {}
    /\ crashes = 0

-----------------------------------------------------------------------------
(* The request is let in by the limiter's caller and starts to be counted. *)
Arrive(r, w) ==
    /\ call[r].pc = "idle" /\ w \in routes
    /\ call' = [call EXCEPT ![r] = [NoCall EXCEPT !.route = w, !.pc = "incr"]]
    /\ UNCHANGED <<routes, counter, orphaned, crashes>>

(* Where a request is after its counter at position at: at the next one,   *)
(* served, or refused.                                                     *)
After(c) ==
    IF c.at < Len(c.route) /\ (c.ok \/ ~ Pipelined(c.route))
      THEN [c EXCEPT !.pc = "incr", !.at = c.at + 1]
    ELSE IF c.ok THEN [c EXCEPT !.pc = "served"] ELSE NoCall

(* A limiter that would start the window when the limit is passed. *)
OpensAtLimit(count, k) == count = Limit[k] + 1 /\ counter[k].count = Limit[k]

(* The INCR whose result sets the expiry. *)
Opens(count, k) == count = 1

(* INCR, with EXPIRE when the two are pipelined. *)
Count(r) ==
    LET k == Current(r)
        count == IF counter[k].count > Limit[k] THEN counter[k].count
                 ELSE counter[k].count + 1
        c == [call[r] EXCEPT !.ok = @ /\ count <= Limit[k]]
        piped == Pipelined(c.route)
    IN  /\ call[r].pc = "incr"
        /\ counter' = [counter EXCEPT ![k] =
                        [count |-> count, ttl |-> @.ttl \/ piped]]
        /\ call' = [call EXCEPT ![r] =
                    IF Opens(count, k) /\ ~ piped
                      THEN [c EXCEPT !.pc = "expire"] ELSE After(c)]
        /\ UNCHANGED <<routes, orphaned, crashes>>

(* The EXPIRE of the request that created the counter: nothing for a key   *)
(* that is gone.                                                           *)
SetExpiry(r) ==
    /\ call[r].pc = "expire"
    /\ LET k == Current(r) IN
        /\ counter' = [counter EXCEPT ![k].ttl = @ \/ counter[k].count > 0]
        /\ orphaned' = orphaned \ {k}
    /\ call' = [call EXCEPT ![r] = After(@)]
    /\ UNCHANGED <<routes, crashes>>

(* The answer of a handler that has nothing more to do with a counter. *)
Answer(r) ==
    /\ call[r].pc = "served"
    /\ call' = [call EXCEPT ![r] = NoCall]
    /\ UNCHANGED <<routes, counter, orphaned, crashes>>

(* A successful login: the e-mail's counter, the first, is deleted. *)
Reset(r) ==
    /\ call[r].pc = "served" /\ call[r].route = Login
    /\ counter' = [counter EXCEPT ![Head(Login)] = NoCounter]
    /\ orphaned' = orphaned \ {Head(Login)}
    /\ call' = [call EXCEPT ![r] = NoCall]
    /\ UNCHANGED <<routes, crashes>>

(* The process dies, or the next Redis command fails. *)
CutOff(r) ==
    /\ call[r].pc # "idle" /\ crashes < CrashBound
    /\ crashes' = crashes + 1
    /\ orphaned' = orphaned \cup
        {k \in Counters :
            /\ OwesExpiry(r, k)
            /\ counter[k].count > 0 /\ ~ counter[k].ttl
            /\ \A q \in Requests \ {r} : ~ OwesExpiry(q, k)}
    /\ call' = [call EXCEPT ![r] = NoCall]
    /\ UNCHANGED <<routes, counter>>

(* The end of a window: Redis drops the key, or no request names it again. *)
WindowEnds(k) ==
    /\ counter[k].ttl
    /\ counter' = [counter EXCEPT ![k] = NoCounter]
    /\ UNCHANGED <<routes, call, orphaned, crashes>>

-----------------------------------------------------------------------------
(* "Sets the expiry on the first attempt so the window is self-cleaning":  *)
(* every counter has a TTL or a request that is about to give it one, with *)
(* the counters deleted and recreated in between by successful logins and  *)
(* by ends of windows; only a request cut off between INCR and EXPIRE      *)
(* leaves one without.                                                     *)
SelfCleaning ==
    \A k \in Counters :
        counter[k].count > 0 =>
            \/ counter[k].ttl
            \/ \E r \in Requests : OwesExpiry(r, k)
            \/ k \in orphaned
=============================================================================

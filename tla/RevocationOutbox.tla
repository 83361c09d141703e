-------------------------- MODULE RevocationOutbox --------------------------
(***************************************************************************)
(* The revocation outbox of services/outbox.py: rows enqueued by role      *)
(* changes, and the drain loops (main.py, one per replica of the issuer)   *)
(* that claim a batch under a lease, apply each effect and record the      *)
(* outcome.                                                                *)
(*                                                                         *)
(* claim_batch commits, so a row is read again when process_row first      *)
(* touches it (a commit expires loaded objects).  process_row checks       *)
(* neither the status nor the lease of what it read; its outcome is a      *)
(* flush of the columns it changed.  A delivery that fails half way is     *)
(* repeated as a whole.  Wall-clock time appears only as the instants it   *)
(* separates: a lease runs out, a retry falls due, a token expires, a      *)
(* completed row outlives its retention.                                   *)
(*                                                                         *)
(* An operator that is defined and not used (Unclaimed, ...) is a faulty   *)
(* variant of the definition after it; PROJECT.json says which property it *)
(* breaks.                                                                 *)
(***************************************************************************)
EXTENDS Integers, FiniteSets, FiniteSetsExt

CONSTANTS
    Effects,        \* ids of outbox rows, in the order of created_at
    Publishes,      \* those with a publish effect; the others blacklist
    Workers,        \* drain loops
    BatchSize,      \* OUTBOX_BATCH_SIZE
    MaxAttempts,    \* OUTBOX_MAX_ATTEMPTS
    CrashBound,     \* bound: how often a drain is cut short by a crash
    OverrunBound    \* bound: how often a live drain outlasts a lease

ASSUME EffectsAssumption == Effects \subseteq Nat /\ IsFiniteSet(Effects)
ASSUME PublishesAssumption ==          \* a change's publish row is its last
    /\ Publishes \subseteq Effects
    /\ \A e \in Effects : \E p \in Publishes : e <= p
ASSUME WorkersAssumption == IsFiniteSet(Workers)
ASSUME BatchAssumption == BatchSize \in Nat \ {0}
ASSUME AttemptsAssumption == MaxAttempts \in Nat \ {0}
ASSUME BoundsAssumption == CrashBound \in Nat /\ OverrunBound \in Nat

VARIABLES
    table,      \* the outbox row of each effect
    expired,    \* effects whose token has expired by now
    redisUp,
    applied,    \* history: effects that were applied at least once
    failures,   \* history: failed deliveries of each effect
    worker,     \* the drain loops
    crashes,    \* how many crashes so far
    overruns    \* how many leases ran out under a live drain so far

history == <<applied, failures>>
faults == <<crashes, overruns>>
vars == <<table, expired, redisUp, history, worker, faults>>

Statuses == {"pending", "leased", "completed", "dead"}

\* "none" before the row is enqueued, "reaped" after it is deleted
OutboxRow ==
    [status : Statuses \cup {"none", "reaped"}, attempts : Nat,
     lease : {"none", "running", "over"},   \* lease_until against the clock
     due : BOOLEAN]                         \* next_attempt_at has come

Drain ==
    [pc : {"idle", "next", "apply", "record"},
     batch : SUBSET Effects,                \* claimed and not yet processed
     redis : BOOLEAN,                       \* the drain got a Redis client
     past : SUBSET Effects,                 \* tokens expired at `now`
     current : Effects \cup {-1},
     status : Statuses, attempts : Nat,    \* as read
     leased : BOOLEAN,                      \* lease_until as read was not NULL
     ok : BOOLEAN]

Idle ==
    [pc |-> "idle", batch |-> {}, redis |-> FALSE, past |-> {}, current |-> -1,
     status |-> "pending", attempts |-> 0, leased |-> FALSE, ok |-> FALSE]

InTable(e) == table[e].status \in Statuses

(* The due rows that claim_batch may take: pending, or leased with a lease  *)
(* that has run out.                                                        *)
EligibleUnderLease(row) == row.status \in {"pending", "leased"} /\ row.due
Unclaimed(row) == row.status = "pending" /\ row.due
Eligible(row) ==
    /\ row.status = "pending" \/ (row.status = "leased" /\ row.lease = "over")
    /\ row.due

(* The BatchSize oldest of S. *)
Oldest(S) == {e \in S : Cardinality({f \in S : f < e}) < BatchSize}

-----------------------------------------------------------------------------
Init ==
    /\ table = [e \in Effects |->
                   [status |-> "none", attempts |-> 0, lease |-> "none", due |-> TRUE]]
    /\ expired = {}
    /\ redisUp = TRUE
    /\ applied = {}
    /\ failures = [e \in Effects |-> 0]
    /\ worker = [w \in Workers |-> Idle]
    /\ crashes = 0
    /\ overruns = 0

(* enqueue_role_change_effects, as its transaction commits: the blacklist   *)
(* rows of the captured sessions and, last, the publish row p.              *)
Enqueue(p) ==
    /\ table[p].status = "none"
    /\ \A f \in Publishes : f < p => table[f].status # "none"
    /\ table' = [e \in Effects |->
          IF e <= p /\ table[e].status = "none"
            THEN [table[e] EXCEPT !.status = "pending"] ELSE table[e]]
    /\ UNCHANGED <<expired, redisUp, history, worker, faults>>

(* drain_once: claim_batch, with the clock and the Redis client of the      *)
(* whole drain.                                                             *)
ClaimBatch(w) ==
    LET claimed == Oldest({e \in Effects : Eligible(table[e])}) IN
    /\ worker[w].pc = "idle"
    /\ table' = [e \in Effects |->
          IF e \in claimed THEN [table[e] EXCEPT !.status = "leased", !.lease = "running"]
                           ELSE table[e]]
    /\ worker' = [worker EXCEPT ![w] =
          [Idle EXCEPT !.pc = "next", !.batch = claimed, !.redis = redisUp,
                       !.past = expired]]
    /\ UNCHANGED <<expired, redisUp, history, faults>>

(* process_row reads its row again. *)
ReadRow(w) ==
    LET d == worker[w]
        e == Min(d.batch)
    IN  /\ d.pc = "next"
        /\ d.batch # {}
        /\ InTable(e)
        /\ worker' = [worker EXCEPT ![w] =
              [d EXCEPT !.pc = "apply", !.batch = @ \ {e}, !.current = e,
                        !.status = table[e].status, !.attempts = table[e].attempts,
                        !.leased = table[e].lease # "none"]]
        /\ UNCHANGED <<table, expired, redisUp, history, faults>>

(* The row to be read was reaped: the read raises, which ends the drain.    *)
MissRow(w) ==
    LET d == worker[w] IN
    /\ d.pc = "next"
    /\ d.batch # {}
    /\ ~ InTable(Min(d.batch))
    /\ worker' = [worker EXCEPT ![w] = Idle]
    /\ UNCHANGED <<table, expired, redisUp, history, faults>>

(* _apply_effect: emit never raises; a blacklist effect needs Redis unless  *)
(* its token had expired.                                                   *)
Deliverable(d) ==
    \/ d.current \in Publishes
    \/ d.current \in d.past
    \/ d.redis /\ redisUp

ApplyEffect(w) ==
    LET d == worker[w]
        e == d.current
    IN  /\ d.pc = "apply"
        /\ worker' = [worker EXCEPT ![w] =
              [d EXCEPT !.pc = "record", !.ok = Deliverable(d)]]
        /\ IF Deliverable(d)
           THEN applied' = applied \cup {e} /\ UNCHANGED failures
           ELSE failures' = [failures EXCEPT ![e] = @ + 1] /\ UNCHANGED applied
        /\ UNCHANGED <<table, expired, redisUp, faults>>

(* What process_row sets on the object it read. *)
ExhaustedEarly(attempts) == attempts + 1 >= MaxAttempts
Exhausted(attempts) == attempts >= MaxAttempts

OutcomeCountingDown(d) ==
    IF d.ok THEN [status |-> "completed", attempts |-> d.attempts]
    ELSE [status |-> "pending", attempts |-> d.attempts - 1]

Outcome(d) ==
    IF d.ok THEN [status |-> "completed", attempts |-> d.attempts]
    ELSE [status |-> IF Exhausted(d.attempts + 1) THEN "dead" ELSE "pending",
          attempts |-> d.attempts + 1]

(* The flush writes the status and the attempts where they differ from what *)
(* was read; a retry moves next_attempt_at.                                 *)
Recorded(row, d) ==
    [row EXCEPT
        !.status = IF Outcome(d).status # d.status THEN Outcome(d).status ELSE @,
        !.attempts = IF Outcome(d).attempts # d.attempts THEN Outcome(d).attempts ELSE @,
        !.lease = IF d.leased THEN "none" ELSE @,
        !.due = @ /\ Outcome(d).status # "pending"]

RecordOutcome(w) ==
    LET d == worker[w] IN
    /\ d.pc = "record"
    /\ InTable(d.current)
    /\ table' = [table EXCEPT ![d.current] = Recorded(@, d)]
    /\ worker' = [worker EXCEPT ![w] =
          [Idle EXCEPT !.pc = "next", !.batch = d.batch, !.redis = d.redis,
                       !.past = d.past]]
    /\ UNCHANGED <<expired, redisUp, history, faults>>

(* The row was reaped meanwhile: the flush matches no row and raises, and   *)
(* so ends the drain.                                                       *)
LoseOutcome(w) ==
    /\ worker[w].pc = "record"
    /\ ~ InTable(worker[w].current)
    /\ worker' = [worker EXCEPT ![w] = Idle]
    /\ UNCHANGED <<table, expired, redisUp, history, faults>>

Reapable(row) == row.status = "completed"

(* reap_completed, after the batch: the rows completed before the horizon.  *)
ReapCompleted(w) ==
    /\ worker[w].pc = "next"
    /\ worker[w].batch = {}
    /\ \E old \in SUBSET {e \in Effects : Reapable(table[e])} :
          table' = [e \in Effects |->
              IF e \in old THEN [table[e] EXCEPT !.status = "reaped"] ELSE table[e]]
    /\ worker' = [worker EXCEPT ![w] = Idle]
    /\ UNCHANGED <<expired, redisUp, history, faults>>

(* The process dies, or a statement fails: the rest of the batch stays      *)
(* leased.                                                                  *)
Crash(w) ==
    /\ worker[w].pc # "idle"
    /\ crashes < CrashBound
    /\ crashes' = crashes + 1
    /\ worker' = [worker EXCEPT ![w] = Idle]
    /\ UNCHANGED <<table, expired, redisUp, history, overruns>>

-----------------------------------------------------------------------------
(* Time, and Redis *)

(* The rows a drain has claimed and not yet recorded. *)
Held(w) == worker[w].batch \cup ({worker[w].current} \ {-1})

(* A lease ends under a drain that is still busy with its row, or after the *)
(* drain that took it is gone.                                              *)
LeaseOverrun(e) ==
    /\ table[e].lease = "running"
    /\ \E w \in Workers : e \in Held(w)
    /\ overruns < OverrunBound
    /\ overruns' = overruns + 1
    /\ table' = [table EXCEPT ![e].lease = "over"]
    /\ UNCHANGED <<expired, redisUp, history, worker, crashes>>

LeaseRunsOut(e) ==
    /\ table[e].lease = "running"
    /\ \A w \in Workers : e \notin Held(w)
    /\ table' = [table EXCEPT ![e].lease = "over"]
    /\ UNCHANGED <<expired, redisUp, history, worker, faults>>

FallDue(e) ==
    /\ ~ table[e].due
    /\ table' = [table EXCEPT ![e].due = TRUE]
    /\ UNCHANGED <<expired, redisUp, history, worker, faults>>

TokenExpires(e) ==
    /\ e \notin expired /\ e \notin Publishes
    /\ expired' = expired \cup {e}
    /\ UNCHANGED <<table, redisUp, history, worker, faults>>

RedisToggles ==
    /\ redisUp' = ~ redisUp
    /\ UNCHANGED <<table, expired, history, worker, faults>>

WorkerStep(w) ==
    \/ ClaimBatch(w)
    \/ ReadRow(w)
    \/ MissRow(w)
    \/ ApplyEffect(w)
    \/ RecordOutcome(w)
    \/ LoseOutcome(w)
    \/ ReapCompleted(w)

Next ==
    \/ \E p \in Publishes : Enqueue(p)
    \/ \E w \in Workers : WorkerStep(w) \/ Crash(w)
    \/ \E e \in Effects :
          LeaseOverrun(e) \/ LeaseRunsOut(e) \/ FallDue(e) \/ TokenExpires(e)
    \/ RedisToggles

Spec == Init /\ [][Next]_vars

(* The drain loop of main.py runs forever, at an interval, and catches      *)
(* every error; leases run out and retries fall due with the clock.         *)
Fairness ==
    /\ \A w \in Workers : WF_vars(WorkerStep(w))
    /\ \A e \in Effects : WF_vars(LeaseRunsOut(e)) /\ WF_vars(FallDue(e))

FairSpec == Spec /\ Fairness

-----------------------------------------------------------------------------
(* Properties *)

(* Every variable has its type. *)
TypeOK ==
    /\ table \in [Effects -> OutboxRow]
    /\ expired \subseteq Effects \ Publishes
    /\ redisUp \in BOOLEAN
    /\ applied \subseteq Effects
    /\ failures \in [Effects -> Nat]
    /\ worker \in [Workers -> Drain]
    /\ crashes \in 0 .. CrashBound /\ overruns \in 0 .. OverrunBound

(* As long as no drain outlasts a lease, crashes included, no row is in the *)
(* hands of two drains (claim_batch).                                       *)
LeaseExcludes ==
    overruns = 0 =>
        \A v, w \in Workers : v # w => Held(v) \cap Held(w) = {}

(* A row's status never says more than happened, although drains that       *)
(* overlap claim, retry and complete it together: a row is given up only    *)
(* after OUTBOX_MAX_ATTEMPTS deliveries really failed, what is reaped was   *)
(* delivered, and attempts passes the limit only by deliveries of a drain   *)
(* that outlasted its lease (process_row counts on whatever row it reads;   *)
(* reap_completed).                                                         *)
StatusAccounted ==
    \A e \in Effects :
        /\ table[e].status = "dead" => failures[e] >= MaxAttempts
        /\ table[e].status = "reaped" => e \in applied
        /\ table[e].attempts <= MaxAttempts + overruns

(* Every enqueued effect is eventually delivered or given up, so that no    *)
(* crash leaves a row leased for ever (abandoned-lease recovery); and the   *)
(* user-wide event of a change is published, whatever Redis does.           *)
EventuallySettled ==
    /\ \A e \in Effects :
        InTable(e) ~> table[e].status \in {"completed", "dead", "reaped"}
    /\ \A p \in Publishes : InTable(p) ~> p \in applied
=============================================================================

----------------------- MODULE RevocationOutbox_proofs -----------------------
(***************************************************************************)
(* Theorems about RevocationOutbox, for any rows, drain loops, batch size  *)
(* and limits.                                                             *)
(***************************************************************************)
EXTENDS RevocationOutbox, FiniteSetTheorems, TLAPS

USE EffectsAssumption, AttemptsAssumption, BoundsAssumption
    DEF EffectsAssumption, AttemptsAssumption, BoundsAssumption

-----------------------------------------------------------------------------
(* The inductive invariant, in three layers *)

(* What the place of a drain says about what it holds. *)
DrainShape(d) ==
    /\ d.pc = "idle" => d = Idle
    /\ d.pc = "next" <=> (d.pc # "idle" /\ d.current = -1)
    /\ d.current \notin d.batch

Typed == TypeOK /\ \A w \in Workers : DrainShape(worker[w])

(* What a drain has read or done, and what a row says, against what really  *)
(* happened.                                                                *)
DrainAccounted(d) ==
    /\ d.pc = "apply" => d.attempts <= failures[d.current]
    /\ d.pc = "record" =>
          IF d.ok THEN d.current \in applied
                  ELSE d.attempts + 1 <= failures[d.current]

RowAccounted(e) ==
    /\ table[e].attempts <= failures[e]
    /\ table[e].status = "dead" => failures[e] >= MaxAttempts
    /\ table[e].status \in {"completed", "reaped"} => e \in applied

Accounted ==
    /\ \A w \in Workers : DrainAccounted(worker[w])
    /\ \A e \in Effects : RowAccounted(e)

(* The drains with the row e in their hands; those among them that will     *)
(* write its status, because they read or will read that it is leased.      *)
Holders(e) == {w \in Workers : e \in Held(w)}

Writes(w, e) ==
    \/ e \in worker[w].batch
    \/ worker[w].current = e /\ worker[w].status = "leased"

(* The row e can be claimed, now or once its lease runs out, although no    *)
(* further lease is outlasted.                                              *)
Open(e) ==
    \/ table[e].status = "pending"
    \/ /\ table[e].status = "leased"
       /\ table[e].lease = "over" \/ \A w \in Workers : ~ Writes(w, e)

(* The claims on a row: at most one, and one more for each lease that was   *)
(* outlasted.  Each claim adds one attempt at the most.                     *)
Claims(e) == Cardinality(Holders(e)) + (IF Open(e) THEN 1 ELSE 0)

Quota(e) ==
    /\ Claims(e) <= 1 + overruns
    /\ table[e].attempts + Claims(e) <= MaxAttempts + overruns
    /\ \A w \in Workers :
          worker[w].current = e =>
              worker[w].attempts + Claims(e) <= MaxAttempts + overruns
    /\ table[e].status = "none" => Holders(e) = {} /\ table[e].attempts = 0

WithinQuota == \A e \in Effects : Quota(e)

-----------------------------------------------------------------------------
(* Types and places *)

(* The next row of a batch is a row of the batch (process_row takes them    *)
(* oldest first).                                                           *)
LEMMA NextOfBatch ==
  ASSUME NEW S \in SUBSET Effects, S # {}
  PROVE  Min(S) \in S
<1> DEFINE Below(n) == 0 .. n
           T == {Below(n) : n \in S}
           R == StrictSubsetOrdering(Nat)
<1>1. T \subseteq FiniteSubsetsOf(Nat) /\ T # {}
  <2>1. \A n \in S : Below(n) \in SUBSET Nat /\ IsFiniteSet(Below(n))
    BY FS_Interval
  <2> HIDE DEF Below
  <2> QED BY <2>1 DEF FiniteSubsetsOf
<1>2. PICK x \in T : \A y \in T : ~ (<<y, x>> \in R)
  <2> HIDE DEF T, R
  <2>1. IsWellFoundedOn(R, FiniteSubsetsOf(Nat))
    BY FS_StrictSubsetOrderingWellFounded, Zenon DEF R
  <2> QED BY <1>1, <2>1, WFMin
<1>3. PICK m \in S : x = Below(m)
  OBVIOUS
<1>4. ASSUME NEW n \in S PROVE m <= n
  <2>1. SUFFICES ASSUME n < m PROVE FALSE
    OBVIOUS
  <2>2. Below(n) \in T /\ Below(m) \in T
    OBVIOUS
  <2>3. m \in Below(m) /\ m \notin Below(n) /\ Below(n) \subseteq Below(m)
    BY <2>1
  <2>4. <<Below(n), Below(m)>> \in R
    BY <1>1, <2>2, <2>3 DEF StrictSubsetOrdering
  <2> QED BY <1>2, <1>3, <2>2, <2>4
<1> QED BY <1>4 DEF Min

LEMMA InitTyped == Init => Typed
<1> SUFFICES ASSUME Init PROVE Typed
  OBVIOUS
<1>1. Idle \in Drain /\ DrainShape(Idle)
  BY DEF Idle, Drain, DrainShape, Statuses
<1>2. TypeOK
  BY <1>1 DEF Init, TypeOK, OutboxRow
<1> QED BY <1>1, <1>2 DEF Init, Typed

(* A drain's own step writes its record as a whole.                         *)
LEMMA DrainTyped ==
  ASSUME Typed, NEW w \in Workers, WorkerStep(w) \/ Crash(w)
  PROVE  /\ worker'[w] \in Drain /\ DrainShape(worker'[w])
         /\ worker' = [worker EXCEPT ![w] = worker'[w]]
<1>1. /\ worker \in [Workers -> Drain] /\ worker[w] \in Drain
      /\ DrainShape(worker[w]) /\ table \in [Effects -> OutboxRow]
      /\ redisUp \in BOOLEAN /\ expired \subseteq Effects
  BY DEF Typed, TypeOK
<1>2. Idle \in Drain /\ DrainShape(Idle)
  BY DEF Idle, Drain, DrainShape, Statuses
<1>3. CASE ClaimBatch(w)
  <2> DEFINE S == Oldest({e \in Effects : Eligible(table[e])})
  <2>1. S \subseteq Effects
    BY DEF Oldest
  <2>2. worker'[w] =
          [pc |-> "next", batch |-> S, redis |-> redisUp, past |-> expired,
           current |-> -1, status |-> "pending", attempts |-> 0,
           leased |-> FALSE, ok |-> FALSE]
    BY <1>1, <1>3 DEF ClaimBatch, Idle
  <2> HIDE DEF S
  <2>3. worker'[w] \in Drain /\ DrainShape(worker'[w])
    BY <1>1, <2>1, <2>2 DEF Drain, DrainShape, Statuses
  <2> QED BY <1>1, <1>3, <2>3 DEF ClaimBatch
<1>4. CASE ReadRow(w)
  <2> DEFINE d == worker[w]
             m == Min(d.batch)
  <2>1. m \in d.batch /\ m \in Effects /\ table[m] \in OutboxRow
        /\ table[m].status \in Statuses
    BY <1>1, <1>4, NextOfBatch DEF ReadRow, Drain, InTable
  <2>2. worker'[w] =
          [pc |-> "apply", batch |-> d.batch \ {m}, redis |-> d.redis,
           past |-> d.past, current |-> m, status |-> table[m].status,
           attempts |-> table[m].attempts, leased |-> table[m].lease # "none",
           ok |-> d.ok]
    BY <1>1, <1>4 DEF ReadRow, Drain
  <2> HIDE DEF m
  <2>3. worker'[w] \in Drain /\ DrainShape(worker'[w])
    BY <1>1, <2>1, <2>2 DEF Drain, DrainShape, OutboxRow
  <2> QED BY <1>1, <1>4, <2>3 DEF ReadRow
<1>5. CASE MissRow(w) \/ LoseOutcome(w) \/ ReapCompleted(w) \/ Crash(w)
  BY <1>1, <1>2, <1>5 DEF MissRow, LoseOutcome, ReapCompleted, Crash
<1>6. CASE ApplyEffect(w)
  <2>1. worker'[w] = [worker[w] EXCEPT !.pc = "record", !.ok = Deliverable(worker[w])]
        /\ worker[w].pc = "apply"
    BY <1>1, <1>6 DEF ApplyEffect
  <2>2. Deliverable(worker[w]) \in BOOLEAN
    BY <1>1 DEF Deliverable, Drain
  <2>3. worker'[w] \in Drain /\ DrainShape(worker'[w])
    BY <1>1, <2>1, <2>2 DEF Drain, DrainShape
  <2> QED BY <1>1, <1>6, <2>3 DEF ApplyEffect
<1>7. CASE RecordOutcome(w)
  <2>1. worker'[w] =
          [pc |-> "next", batch |-> worker[w].batch, redis |-> worker[w].redis,
           past |-> worker[w].past, current |-> -1, status |-> "pending",
           attempts |-> 0, leased |-> FALSE, ok |-> FALSE]
    BY <1>1, <1>7 DEF RecordOutcome, Idle
  <2>2. worker'[w] \in Drain /\ DrainShape(worker'[w])
    BY <1>1, <2>1 DEF Drain, DrainShape, Statuses
  <2> QED BY <1>1, <1>7, <2>2 DEF RecordOutcome
<1> QED BY <1>3, <1>4, <1>5, <1>6, <1>7 DEF WorkerStep

(* Every write of a row leaves a row.                                       *)
LEMMA TableTyped ==
  ASSUME Typed, Next
  PROVE  table' \in [Effects -> OutboxRow]
<1>1. /\ worker \in [Workers -> Drain] /\ table \in [Effects -> OutboxRow]
  BY DEF Typed, TypeOK
<1>2. CASE UNCHANGED table
  BY <1>1, <1>2
<1>3. CASE \E p \in Publishes : Enqueue(p)
  BY <1>1, <1>3 DEF Enqueue, OutboxRow, Statuses
<1>4. ASSUME NEW w \in Workers, ClaimBatch(w)
      PROVE  table' \in [Effects -> OutboxRow]
  BY <1>1, <1>4 DEF ClaimBatch, OutboxRow, Statuses
<1>5. ASSUME NEW w \in Workers, RecordOutcome(w)
      PROVE  table' \in [Effects -> OutboxRow]
  <2> DEFINE d == worker[w]
  <2>1. d \in Drain
    BY <1>1
  <2>2. d.attempts \in Nat /\ d.status \in Statuses /\ d.leased \in BOOLEAN
    BY <2>1 DEF Drain
  <2>3. Outcome(d).status \in Statuses /\ Outcome(d).attempts \in Nat
    BY <2>2 DEF Outcome, Statuses
  <2>4. ASSUME NEW row \in OutboxRow PROVE Recorded(row, d) \in OutboxRow
    <3> HIDE DEF d
    <3> QED BY <2>2, <2>3 DEF Recorded, OutboxRow, Statuses
  <2>5. table' = [table EXCEPT ![d.current] = Recorded(table[d.current], d)]
    BY <1>5 DEF RecordOutcome
  <2> QED BY <1>1, <2>4, <2>5
<1>6. ASSUME NEW w \in Workers, ReapCompleted(w)
      PROVE  table' \in [Effects -> OutboxRow]
  BY <1>1, <1>6 DEF ReapCompleted, OutboxRow
<1>7. ASSUME NEW e \in Effects, LeaseOverrun(e) \/ LeaseRunsOut(e) \/ FallDue(e)
      PROVE  table' \in [Effects -> OutboxRow]
  <2> DEFINE row == table[e]
  <2>1. /\ row \in OutboxRow
        /\ [row EXCEPT !.lease = "over"] \in OutboxRow
        /\ [row EXCEPT !.due = TRUE] \in OutboxRow
    <3>1. row \in OutboxRow
      BY <1>1
    <3> HIDE DEF row
    <3> QED BY <3>1 DEF OutboxRow
  <2>2. \/ table' = [table EXCEPT ![e] = [row EXCEPT !.lease = "over"]]
        \/ table' = [table EXCEPT ![e] = [row EXCEPT !.due = TRUE]]
    BY <1>7 DEF LeaseOverrun, LeaseRunsOut, FallDue
  <2> QED BY <1>1, <2>1, <2>2
<1>8. ASSUME NEW w \in Workers,
             ReadRow(w) \/ MissRow(w) \/ ApplyEffect(w) \/ LoseOutcome(w) \/ Crash(w)
      PROVE  table' \in [Effects -> OutboxRow]
  BY <1>1, <1>8 DEF ReadRow, MissRow, ApplyEffect, LoseOutcome, Crash
<1>9. ASSUME NEW e \in Effects, TokenExpires(e) \/ RedisToggles
      PROVE  table' \in [Effects -> OutboxRow]
  BY <1>1, <1>9 DEF TokenExpires, RedisToggles
<1> QED BY <1>1, <1>3, <1>4, <1>5, <1>6, <1>7, <1>8, <1>9 DEF Next, WorkerStep, RedisToggles

LEMMA TypedStep ==
  ASSUME Typed, [Next]_vars
  PROVE  Typed'
<1>1. CASE UNCHANGED vars
  BY <1>1 DEF vars, history, faults, Typed, TypeOK, DrainShape, Idle
<1>2. CASE Next
  <2>1. table' \in [Effects -> OutboxRow]
    BY <1>2, TableTyped
  <2>2. /\ worker' \in [Workers -> Drain]
        /\ \A w \in Workers : DrainShape(worker[w])'
    <3>1. CASE UNCHANGED worker
      BY <3>1 DEF Typed, TypeOK, DrainShape, Idle
    <3>2. ASSUME NEW w \in Workers, WorkerStep(w) \/ Crash(w)
          PROVE  /\ worker' \in [Workers -> Drain]
                 /\ \A v \in Workers : DrainShape(worker[v])'
      <4>1. /\ worker'[w] \in Drain /\ DrainShape(worker'[w])
            /\ worker' = [worker EXCEPT ![w] = worker'[w]]
        BY <3>2, DrainTyped
      <4>2. worker' \in [Workers -> Drain]
        BY <4>1 DEF Typed, TypeOK
      <4>3. \A v \in Workers : v # w => worker'[v] = worker[v]
        BY <4>1 DEF Typed, TypeOK
      <4> QED BY <4>1, <4>2, <4>3 DEF Typed, DrainShape, Idle
    <3>3. (\E w \in Workers : WorkerStep(w) \/ Crash(w)) \/ UNCHANGED worker
      BY <1>2 DEF Next, Enqueue, LeaseOverrun, LeaseRunsOut, FallDue, TokenExpires,
                  RedisToggles
    <3> QED BY <3>1, <3>2, <3>3
  <2>3. ASSUME NEW w \in Workers, WorkerStep(w) \/ Crash(w)
        PROVE  /\ expired' \subseteq Effects \ Publishes /\ redisUp' \in BOOLEAN
               /\ applied' \subseteq Effects /\ failures' \in [Effects -> Nat]
               /\ crashes' \in 0 .. CrashBound /\ overruns' \in 0 .. OverrunBound
    <3>1. UNCHANGED <<expired, redisUp, overruns>>
      BY <2>3 DEF WorkerStep, ClaimBatch, ReadRow, MissRow, ApplyEffect, RecordOutcome,
                  LoseOutcome, ReapCompleted, Crash, faults
    <3>2. CASE ApplyEffect(w)
      <4>1. worker[w].current \in Effects
        BY <3>2 DEF ApplyEffect, Typed, TypeOK, DrainShape, Drain
      <4> QED BY <3>1, <3>2, <4>1 DEF ApplyEffect, Typed, TypeOK, faults
    <3>3. CASE Crash(w)
      BY <3>1, <3>3 DEF Crash, Typed, TypeOK, history
    <3>4. CASE ~ ApplyEffect(w) /\ ~ Crash(w)
      <4>1. UNCHANGED <<applied, failures, crashes>>
        BY <2>3, <3>4 DEF WorkerStep, ClaimBatch, ReadRow, MissRow, RecordOutcome,
                          LoseOutcome, ReapCompleted, history, faults
      <4> QED BY <3>1, <4>1 DEF Typed, TypeOK
    <3> QED BY <3>2, <3>3, <3>4
  <2>4. ASSUME \/ \E p \in Publishes : Enqueue(p)
               \/ \E e \in Effects :
                    LeaseOverrun(e) \/ LeaseRunsOut(e) \/ FallDue(e) \/ TokenExpires(e)
               \/ RedisToggles
        PROVE  /\ expired' \subseteq Effects \ Publishes /\ redisUp' \in BOOLEAN
               /\ applied' \subseteq Effects /\ failures' \in [Effects -> Nat]
               /\ crashes' \in 0 .. CrashBound /\ overruns' \in 0 .. OverrunBound
    <3>1. CASE \E p \in Publishes : Enqueue(p)
      BY <3>1 DEF Typed, TypeOK, Enqueue, history, faults
    <3>2. CASE RedisToggles
      BY <3>2 DEF Typed, TypeOK, RedisToggles, history, faults
    <3>3. ASSUME NEW e \in Effects,
                 LeaseOverrun(e) \/ LeaseRunsOut(e) \/ FallDue(e) \/ TokenExpires(e)
          PROVE  /\ expired' \subseteq Effects \ Publishes /\ UNCHANGED redisUp
                 /\ UNCHANGED <<applied, failures, crashes>>
                 /\ overruns' \in 0 .. OverrunBound
      BY <3>3 DEF Typed, TypeOK, LeaseOverrun, LeaseRunsOut, FallDue, TokenExpires,
                  history, faults
    <3>4. CASE \E e \in Effects :
                 LeaseOverrun(e) \/ LeaseRunsOut(e) \/ FallDue(e) \/ TokenExpires(e)
      BY <3>3, <3>4 DEF Typed, TypeOK
    <3> QED BY <2>4, <3>1, <3>2, <3>4
  <2> QED BY <1>2, <2>1, <2>2, <2>3, <2>4 DEF Next, Typed, TypeOK
<1> QED BY <1>1, <1>2

(* The outbox keeps its types.                                              *)
THEOREM TypedHolds == Spec => []Typed
BY InitTyped, TypedStep, PTL DEF Spec

(* Every variable has its type, always (the columns of the outbox row, the  *)
(* drain's local state).                                                    *)
THEOREM TypeCorrect == Spec => []TypeOK
<1>1. Typed => TypeOK
  BY DEF Typed
<1> QED BY <1>1, TypedHolds, PTL

-----------------------------------------------------------------------------
(* Statuses against what happened *)

LEMMA InitAccounted == Init => Accounted
BY DEF Init, Accounted, DrainAccounted, RowAccounted, Idle

(* A step that delivers nothing and leaves attempts alone, and that gives   *)
(* no row up and completes none.                                            *)
LEMMA RowsStayAccounted ==
  ASSUME Typed, Accounted, UNCHANGED history,
         \A e \in Effects :
            /\ table'[e].attempts = table[e].attempts
            /\ \/ table'[e].status = table[e].status
               \/ table'[e].status \in {"pending", "leased"}
               \/ table'[e].status = "reaped" /\ table[e].status = "completed"
  PROVE  \A e \in Effects : RowAccounted(e)'
BY DEF Accounted, RowAccounted, history

(* Drains that read nothing and deliver nothing.                            *)
LEMMA DrainsStayAccounted ==
  ASSUME Accounted, UNCHANGED history,
         \A w \in Workers : worker'[w] = worker[w] \/ worker'[w].pc \in {"idle", "next"}
  PROVE  \A w \in Workers : DrainAccounted(worker[w])'
BY DEF Accounted, DrainAccounted, history

(* process_row reads: what a row says of its attempts is true.              *)
LEMMA ReadAccounted ==
  ASSUME Typed, Accounted, NEW w \in Workers, ReadRow(w)
  PROVE  Accounted'
<1> DEFINE d == worker[w]
           m == Min(d.batch)
<1>1. m \in Effects
  BY NextOfBatch DEF ReadRow, Typed, TypeOK, Drain
<1>2. /\ worker'[w].pc = "apply" /\ worker'[w].current = m
      /\ worker'[w].attempts = table[m].attempts
      /\ \A v \in Workers : v # w => worker'[v] = worker[v]
      /\ UNCHANGED <<table, history>>
  <2> HIDE DEF m
  <2>1. worker \in [Workers -> Drain]
    BY DEF Typed, TypeOK
  <2> QED BY <2>1 DEF ReadRow, Drain, m
<1>3. DrainAccounted(worker[w])'
  BY <1>1, <1>2 DEF DrainAccounted, Accounted, RowAccounted, history
<1>4. \A v \in Workers : DrainAccounted(worker[v])'
  BY <1>2, <1>3 DEF DrainAccounted, Accounted, history
<1>5. \A e \in Effects : RowAccounted(e)'
  BY <1>2 DEF RowAccounted, Accounted, history
<1> QED BY <1>4, <1>5 DEF Accounted

(* _apply_effect: a delivery is noted either as applied or as failed.       *)
LEMMA ApplyAccounted ==
  ASSUME Typed, Accounted, NEW w \in Workers, ApplyEffect(w)
  PROVE  Accounted'
<1> DEFINE d == worker[w]
           e == d.current
<1>1. /\ d \in Drain /\ d.pc = "apply" /\ e \in Effects /\ d.attempts \in Nat
      /\ failures \in [Effects -> Nat]
  BY DEF ApplyEffect, Typed, TypeOK, DrainShape, Drain
<1>2. /\ worker'[w] = [d EXCEPT !.pc = "record", !.ok = Deliverable(d)]
      /\ \A v \in Workers : v # w => worker'[v] = worker[v]
      /\ UNCHANGED table
  BY DEF ApplyEffect, Typed, TypeOK
<1>3. /\ worker'[w].pc = "record" /\ worker'[w].ok = Deliverable(d)
      /\ worker'[w].current = e /\ worker'[w].attempts = d.attempts
  BY <1>1, <1>2 DEF Drain
<1>4. /\ applied \subseteq applied'
      /\ \A f \in Effects : failures'[f] \in Nat /\ failures[f] <= failures'[f]
      /\ failures' \in [Effects -> Nat]
  BY <1>1 DEF ApplyEffect
<1>5. IF worker'[w].ok THEN e \in applied' ELSE failures'[e] = failures[e] + 1
  <2>1. CASE Deliverable(d)
    BY <1>1, <1>3, <2>1 DEF ApplyEffect
  <2>2. CASE ~ Deliverable(d)
    BY <1>1, <1>3, <2>2 DEF ApplyEffect
  <2> QED BY <2>1, <2>2
<1>6. d.attempts <= failures[e]
  BY <1>1 DEF Accounted, DrainAccounted
<1>7. DrainAccounted(worker[w])'
  <2> DEFINE x == worker'[w]
  <2>1. x.pc = "record" /\ x.current = e /\ x.attempts = d.attempts
    BY <1>3
  <2>2. CASE x.ok
    BY <1>5, <2>1, <2>2 DEF DrainAccounted
  <2>3. CASE ~ x.ok
    <3>1. failures'[e] = failures[e] + 1
      BY <1>5, <2>3
    <3>2. d.attempts \in Nat /\ failures[e] \in Nat /\ d.attempts <= failures[e]
      BY <1>1, <1>6
    <3>3. x.attempts + 1 <= failures[e] + 1
      BY <2>1, <3>2
    <3>4. x.attempts + 1 <= failures'[x.current]
      BY <2>1, <3>1, <3>3
    <3> QED BY <2>1, <2>3, <3>4 DEF DrainAccounted
  <2> QED BY <2>2, <2>3
<1>8. ASSUME NEW v \in Workers, v # w PROVE DrainAccounted(worker[v])'
  <2>1. DrainAccounted(worker[v]) /\ worker'[v] = worker[v] /\ worker[v] \in Drain
        /\ DrainShape(worker[v])
    BY <1>2, <1>8 DEF Accounted, Typed, TypeOK
  <2>2. worker[v].attempts \in Nat
        /\ (worker[v].pc \in {"apply", "record"} => worker[v].current \in Effects)
    BY <2>1 DEF Drain, DrainShape
  <2> DEFINE x == worker[v]
  <2>3. CASE x.pc = "apply"
    <3>1. x.current \in Effects /\ x.attempts <= failures[x.current]
      BY <2>1, <2>2, <2>3 DEF DrainAccounted
    <3>2. /\ failures[x.current] \in Nat /\ failures'[x.current] \in Nat
          /\ failures[x.current] <= failures'[x.current] /\ x.attempts \in Nat
      BY <1>1, <1>4, <2>2, <3>1
    <3>3. x.attempts <= failures'[x.current]
      BY <3>1, <3>2
    <3> QED BY <2>1, <2>3, <3>3 DEF DrainAccounted
  <2>4. CASE x.pc = "record" /\ x.ok
    BY <1>4, <2>1, <2>4 DEF DrainAccounted
  <2>5. CASE x.pc = "record" /\ ~ x.ok
    <3>1. x.current \in Effects /\ x.attempts + 1 <= failures[x.current]
      BY <2>1, <2>2, <2>5 DEF DrainAccounted
    <3>2. /\ failures[x.current] \in Nat /\ failures'[x.current] \in Nat
          /\ failures[x.current] <= failures'[x.current] /\ x.attempts \in Nat
      BY <1>1, <1>4, <2>2, <3>1
    <3>3. x.attempts + 1 <= failures'[x.current]
      BY <3>1, <3>2
    <3> QED BY <2>1, <2>5, <3>3 DEF DrainAccounted
  <2>6. CASE x.pc \notin {"apply", "record"}
    BY <2>1, <2>6 DEF DrainAccounted
  <2> QED BY <2>3, <2>4, <2>5, <2>6
<1>9. ASSUME NEW f \in Effects PROVE RowAccounted(f)'
  <2>1. table[f].attempts \in Nat /\ RowAccounted(f)
    BY DEF Typed, TypeOK, OutboxRow, Accounted
  <2> QED BY <1>1, <1>2, <1>4, <2>1 DEF RowAccounted
<1> QED BY <1>7, <1>8, <1>9 DEF Accounted

(* The outcome of process_row: a row is completed only after it was         *)
(* applied, and given up only after MaxAttempts failures.                   *)
LEMMA RecordAccounted ==
  ASSUME Typed, Accounted, NEW w \in Workers, RecordOutcome(w)
  PROVE  Accounted'
<1> DEFINE d == worker[w]
<1>0. PICK e \in Effects : e = d.current
  BY DEF RecordOutcome, Typed, TypeOK, DrainShape, Drain
<1>1. /\ d \in Drain /\ d.pc = "record" /\ d.current = e
      /\ d.attempts \in Nat /\ table[e] \in OutboxRow /\ failures[e] \in Nat
  BY <1>0 DEF RecordOutcome, Typed, TypeOK, DrainShape, Drain
<1>2. /\ table'[e] = Recorded(table[e], d)
      /\ \A f \in Effects : f # e => table'[f] = table[f]
      /\ UNCHANGED history
  BY <1>1 DEF RecordOutcome, Typed, TypeOK
<1>3. RowAccounted(e)'
  <2>1. RowAccounted(e) /\ DrainAccounted(d)
    BY <1>1 DEF Accounted
  <2>2. /\ table'[e].status \in {table[e].status, Outcome(d).status}
        /\ table'[e].attempts \in {table[e].attempts, Outcome(d).attempts}
    BY <1>1, <1>2 DEF Recorded, OutboxRow
  <2> HIDE DEF d
  <2>3. CASE d.ok
    <3>1. Outcome(d).status = "completed" /\ Outcome(d).attempts = d.attempts
      BY <2>3 DEF Outcome
    <3>2. table'[e].attempts = table[e].attempts
      BY <1>1, <1>2, <3>1 DEF Recorded, OutboxRow
    <3>3. e \in applied
      BY <1>1, <2>1, <2>3 DEF DrainAccounted
    <3> QED BY <1>2, <2>1, <2>2, <3>1, <3>2, <3>3 DEF RowAccounted, history
  <2>4. CASE ~ d.ok
    <3>1. d.attempts + 1 <= failures[e]
      BY <1>1, <2>1, <2>4 DEF DrainAccounted
    <3>2. /\ Outcome(d).attempts = d.attempts + 1
          /\ \/ Outcome(d).status = "pending"
             \/ Outcome(d).status = "dead" /\ d.attempts + 1 >= MaxAttempts
      BY <2>4 DEF Outcome, Exhausted
    <3> QED BY <1>1, <1>2, <2>1, <2>2, <3>1, <3>2 DEF RowAccounted, history
  <2> QED BY <2>3, <2>4
<1>4. \A f \in Effects : RowAccounted(f)'
  BY <1>2, <1>3 DEF Accounted, RowAccounted, history
<1>5. worker'[w].pc = "next" /\ \A v \in Workers : v # w => worker'[v] = worker[v]
  BY DEF RecordOutcome, Typed, TypeOK, Idle
<1>6. \A v \in Workers : DrainAccounted(worker[v])'
  BY <1>2, <1>5, DrainsStayAccounted
<1> QED BY <1>4, <1>6 DEF Accounted

LEMMA AccountedStep ==
  ASSUME Typed, Accounted, [Next]_vars
  PROVE  Accounted'
<1>1. /\ worker \in [Workers -> Drain] /\ table \in [Effects -> OutboxRow]
  BY DEF Typed, TypeOK
<1>2. CASE UNCHANGED vars
  BY <1>2 DEF vars, history, Accounted, DrainAccounted, RowAccounted
<1>3. CASE \E p \in Publishes : Enqueue(p)
  <2>1. UNCHANGED <<worker, history>>
    BY <1>3 DEF Enqueue
  <2>2. \A e \in Effects :
            /\ table'[e].attempts = table[e].attempts
            /\ table'[e].status = table[e].status \/ table'[e].status = "pending"
    BY <1>1, <1>3 DEF Enqueue, OutboxRow
  <2> QED BY <2>1, <2>2, RowsStayAccounted, DrainsStayAccounted DEF Accounted
<1>4. ASSUME NEW w \in Workers, ClaimBatch(w) PROVE Accounted'
  <2>1. UNCHANGED history
        /\ \A v \in Workers : worker'[v] = worker[v] \/ worker'[v].pc = "next"
    BY <1>1, <1>4 DEF ClaimBatch, Idle
  <2>2. \A e \in Effects :
            /\ table'[e].attempts = table[e].attempts
            /\ table'[e].status = table[e].status \/ table'[e].status = "leased"
    BY <1>1, <1>4 DEF ClaimBatch, OutboxRow
  <2> QED BY <2>1, <2>2, RowsStayAccounted, DrainsStayAccounted DEF Accounted
<1>5. ASSUME NEW w \in Workers, ReapCompleted(w) PROVE Accounted'
  <2>1. UNCHANGED history
        /\ \A v \in Workers : worker'[v] = worker[v] \/ worker'[v].pc = "idle"
    BY <1>1, <1>5 DEF ReapCompleted, Idle
  <2>2. \A e \in Effects :
            /\ table'[e].attempts = table[e].attempts
            /\ \/ table'[e].status = table[e].status
               \/ table'[e].status = "reaped" /\ table[e].status = "completed"
    BY <1>1, <1>5 DEF ReapCompleted, Reapable, OutboxRow
  <2> QED BY <2>1, <2>2, RowsStayAccounted, DrainsStayAccounted DEF Accounted
<1>6. ASSUME NEW w \in Workers, MissRow(w) \/ LoseOutcome(w) \/ Crash(w) PROVE Accounted'
  <2>1. UNCHANGED <<table, history>>
        /\ \A v \in Workers : worker'[v] = worker[v] \/ worker'[v].pc = "idle"
    BY <1>1, <1>6 DEF MissRow, LoseOutcome, Crash, Idle
  <2> QED BY <2>1, RowsStayAccounted, DrainsStayAccounted DEF Accounted
<1>7. ASSUME NEW e \in Effects,
             LeaseOverrun(e) \/ LeaseRunsOut(e) \/ FallDue(e) \/ TokenExpires(e)
      PROVE  Accounted'
  <2>1. UNCHANGED <<worker, history>>
    BY <1>7 DEF LeaseOverrun, LeaseRunsOut, FallDue, TokenExpires
  <2>2. \A f \in Effects : table'[f].attempts = table[f].attempts
                           /\ table'[f].status = table[f].status
    BY <1>1, <1>7 DEF LeaseOverrun, LeaseRunsOut, FallDue, TokenExpires, OutboxRow
  <2> QED BY <2>1, <2>2, RowsStayAccounted, DrainsStayAccounted DEF Accounted
<1>8. CASE RedisToggles
  BY <1>8 DEF RedisToggles, history, Accounted, DrainAccounted, RowAccounted
<1> QED BY <1>2, <1>3, <1>4, <1>5, <1>6, <1>7, <1>8, ReadAccounted, ApplyAccounted,
           RecordAccounted DEF Next, WorkerStep

-----------------------------------------------------------------------------
(* Claims *)

LEMMA ClaimsType ==
  ASSUME NEW e \in Effects
  PROVE  /\ IsFiniteSet(Holders(e)) /\ Cardinality(Holders(e)) \in Nat
         /\ Claims(e) \in Nat
<1>1. IsFiniteSet(Holders(e))
  BY WorkersAssumption, FS_Subset DEF WorkersAssumption, Holders
<1>2. Cardinality(Holders(e)) \in Nat
  BY <1>1, FS_CardinalityType
<1> QED BY <1>1, <1>2 DEF Claims

(* The same after a step: Workers does not change.                          *)
LEMMA ClaimsTypeNext ==
  ASSUME NEW e \in Effects
  PROVE  /\ IsFiniteSet(Holders(e)') /\ Cardinality(Holders(e)') \in Nat
         /\ Claims(e)' \in Nat
         /\ Claims(e)' = Cardinality(Holders(e)') + (IF Open(e)' THEN 1 ELSE 0)
<1>1. IsFiniteSet(Holders(e)')
  BY WorkersAssumption, FS_Subset DEF WorkersAssumption, Holders
<1>2. Cardinality(Holders(e)') \in Nat
  BY <1>1, FS_CardinalityType
<1>3. Claims(e)' = Cardinality(Holders(e)') + (IF Open(e)' THEN 1 ELSE 0)
  BY DEF Claims
<1> QED BY <1>1, <1>2, <1>3

(* A drain that takes nothing new either lets go of the row, or leaves it   *)
(* no more open than it was: the claims on it do not grow.                  *)
LEMMA ClaimsFall ==
  ASSUME NEW w \in Workers, NEW e \in Effects,
         \A v \in Workers : v # w => worker'[v] = worker[v],
         e \in Held(w)' => e \in Held(w),
         \/ e \in Held(w) /\ e \notin Held(w)'
         \/ Open(e)' => Open(e)
  PROVE  Claims(e)' <= Claims(e)
<1>1. Holders(e)' \subseteq Holders(e)
  BY DEF Holders, Held
<1>2. Cardinality(Holders(e)') <= Cardinality(Holders(e))
  BY <1>1, ClaimsType, FS_Subset
<1>3. CASE Open(e)' => Open(e)
  BY <1>2, <1>3, ClaimsType, ClaimsTypeNext DEF Claims
<1>4. CASE e \in Held(w) /\ e \notin Held(w)'
  <2>1. Holders(e)' = Holders(e) \ {w} /\ w \in Holders(e)
    BY <1>1, <1>4 DEF Holders, Held
  <2>2. Cardinality(Holders(e)') = Cardinality(Holders(e)) - 1
    BY <2>1, ClaimsType, FS_RemoveElement
  <2> QED BY <2>2, ClaimsType, ClaimsTypeNext DEF Claims
<1> QED BY <1>3, <1>4

(* A step that adds no claim and no attempt keeps a row within its quota.   *)
LEMMA QuotaKept ==
  ASSUME Typed, Typed', NEW e \in Effects, Quota(e),
         Claims(e)' <= Claims(e), UNCHANGED overruns,
         table'[e].attempts = table[e].attempts,
         \A v \in Workers : worker'[v].current = e =>
            \/ worker[v].current = e /\ worker'[v].attempts = worker[v].attempts
            \/ worker'[v].attempts = table[e].attempts,
         table'[e].status = "none" =>
            table[e].status = "none" /\ Holders(e)' \subseteq Holders(e)
  PROVE  Quota(e)'
<1>1. /\ Claims(e) \in Nat /\ Claims(e)' \in Nat /\ overruns \in Nat
      /\ table[e].attempts \in Nat
      /\ \A v \in Workers : worker[v].attempts \in Nat
  BY ClaimsType, ClaimsTypeNext DEF Typed, TypeOK, OutboxRow, Drain
<1>2. Claims(e)' <= 1 + overruns'
  BY <1>1 DEF Quota
<1>3. table'[e].attempts + Claims(e)' <= MaxAttempts + overruns'
  BY <1>1 DEF Quota
<1>4. ASSUME NEW v \in Workers, worker'[v].current = e
      PROVE  worker'[v].attempts + Claims(e)' <= MaxAttempts + overruns'
  <2>1. /\ worker'[v].attempts \in Nat
        /\ worker'[v].attempts + Claims(e) <= MaxAttempts + overruns
    BY <1>1, <1>4 DEF Quota
  <2> QED BY <1>1, <2>1
<1>5. table'[e].status = "none" => Holders(e)' = {} /\ table'[e].attempts = 0
  BY DEF Quota
<1> QED BY <1>2, <1>3, <1>4, <1>5 DEF Quota

LEMMA InitQuota == Init => WithinQuota
<1> SUFFICES ASSUME Init, NEW e \in Effects PROVE Quota(e)
  BY DEF WithinQuota
<1>1. \A w \in Workers : Held(w) = {} /\ worker[w].current = -1
  BY DEF Init, Held, Idle
<1>2. Holders(e) = {} /\ ~ Open(e)
  BY <1>1 DEF Holders, Open, Init
<1>3. Claims(e) = 0
  BY <1>2, FS_EmptySet DEF Claims
<1> QED BY <1>1, <1>2, <1>3 DEF Quota, Init

(* enqueue_role_change_effects opens a row nobody holds.                    *)
LEMMA EnqueueQuota ==
  ASSUME Typed, Typed', WithinQuota, NEW p \in Publishes, Enqueue(p),
         NEW e \in Effects
  PROVE  Quota(e)'
<1>1. UNCHANGED <<worker, overruns>> /\ table \in [Effects -> OutboxRow] /\ Quota(e)
  BY DEF Enqueue, faults, Typed, TypeOK, WithinQuota
<1>2. Holders(e)' = Holders(e)
  BY <1>1 DEF Holders, Held
<1>3. CASE e <= p /\ table[e].status = "none"
  <2>1. Holders(e) = {} /\ table'[e].attempts = 0 /\ table'[e].status = "pending"
    BY <1>1, <1>3 DEF Quota, Enqueue, OutboxRow
  <2>2. Open(e)'
    BY <2>1 DEF Open
  <2>3. Claims(e)' = 1
    BY <1>2, <2>1, <2>2, FS_EmptySet DEF Claims
  <2>4. \A w \in Workers : worker'[w].current # e
    BY <1>1, <2>1 DEF Holders, Held
  <2>5. overruns \in Nat
    BY DEF Typed, TypeOK
  <2> QED BY <1>1, <2>1, <2>3, <2>4, <2>5 DEF Quota
<1>4. CASE ~ (e <= p /\ table[e].status = "none")
  <2>1. table'[e] = table[e]
    BY <1>1, <1>4 DEF Enqueue
  <2>2. Claims(e)' = Claims(e)
    BY <1>1, <1>2, <2>1 DEF Claims, Open, Writes
  <2> QED BY <1>1, <1>2, <2>1, <2>2, QuotaKept, ClaimsType
<1> QED BY <1>3, <1>4

(* claim_batch turns the open row into a held one.                          *)
LEMMA ClaimQuota ==
  ASSUME Typed, Typed', WithinQuota, NEW w \in Workers, ClaimBatch(w),
         NEW e \in Effects
  PROVE  Quota(e)'
<1> DEFINE S == Oldest({f \in Effects : Eligible(table[f])})
<1>1. /\ worker \in [Workers -> Drain] /\ table \in [Effects -> OutboxRow]
      /\ worker[w] = Idle /\ Quota(e) /\ UNCHANGED overruns
  BY DEF ClaimBatch, Typed, TypeOK, DrainShape, WithinQuota, faults
<1>2. /\ worker'[w].batch = S /\ worker'[w].current = -1
      /\ \A v \in Workers : v # w => worker'[v] = worker[v]
  BY <1>1 DEF ClaimBatch, Idle
<1>3. table'[e] = IF e \in S THEN [table[e] EXCEPT !.status = "leased", !.lease = "running"]
                             ELSE table[e]
  BY DEF ClaimBatch
<1>4. e \in S => Eligible(table[e])
  BY DEF Oldest
<1>5. Held(w) = {} /\ Held(w)' = S
  <2>1. -1 \notin S
    BY DEF Oldest
  <2> HIDE DEF S
  <2> QED BY <1>1, <1>2, <2>1 DEF Held, Idle
<1> HIDE DEF S
<1>6. CASE e \in S
  <2>1. w \notin Holders(e) /\ Holders(e)' = Holders(e) \cup {w}
    BY <1>2, <1>5, <1>6 DEF Holders, Held
  <2>2. Cardinality(Holders(e)') = Cardinality(Holders(e)) + 1
    BY <2>1, ClaimsType, FS_AddElement
  <2>3. Open(e)
    BY <1>4, <1>6 DEF Eligible, Open
  <2>4. ~ Open(e)'
    <3>1. table'[e].status = "leased" /\ table'[e].lease = "running"
      BY <1>1, <1>3, <1>6 DEF OutboxRow
    <3>2. Writes(w, e)'
      BY <1>2, <1>6 DEF Writes
    <3> QED BY <3>1, <3>2 DEF Open
  <2>5. Claims(e)' <= Claims(e)
    BY <2>2, <2>3, <2>4, ClaimsType, ClaimsTypeNext DEF Claims
  <2>6. table'[e].attempts = table[e].attempts /\ table'[e].status # "none"
    BY <1>1, <1>3, <1>6 DEF OutboxRow
  <2>7. \A v \in Workers : worker'[v].current = e =>
          worker[v].current = e /\ worker'[v].attempts = worker[v].attempts
    BY <1>2
  <2> QED BY <1>1, <2>5, <2>6, <2>7, QuotaKept
<1>7. CASE e \notin S
  <2>1. Open(e)' => Open(e)
    BY <1>1, <1>2, <1>3, <1>7 DEF Open, Writes, Idle
  <2>2. Claims(e)' <= Claims(e)
    BY <1>2, <1>5, <1>7, <2>1, ClaimsFall
  <2>3. Holders(e)' \subseteq Holders(e)
    BY <1>2, <1>5, <1>7 DEF Holders, Held
  <2>4. \A v \in Workers : worker'[v].current = e =>
          worker[v].current = e /\ worker'[v].attempts = worker[v].attempts
    BY <1>2
  <2> QED BY <1>1, <1>3, <1>7, <2>2, <2>3, <2>4, QuotaKept
<1> QED BY <1>6, <1>7

(* process_row reads: it keeps its claim, and will write the status of a    *)
(* row it saw leased.                                                       *)
LEMMA ReadQuota ==
  ASSUME Typed, Typed', WithinQuota, NEW w \in Workers, ReadRow(w),
         NEW e \in Effects
  PROVE  Quota(e)'
<1>1. PICK m \in Effects : m = Min(worker[w].batch) /\ m \in worker[w].batch
  BY NextOfBatch DEF ReadRow, Typed, TypeOK, Drain
<1>2. /\ worker \in [Workers -> Drain] /\ worker[w].current = -1 /\ Quota(e)
      /\ UNCHANGED <<table, overruns>>
  BY DEF ReadRow, Typed, TypeOK, DrainShape, WithinQuota, faults
<1>3. /\ worker'[w].batch = worker[w].batch \ {m} /\ worker'[w].current = m
      /\ worker'[w].status = table[m].status /\ worker'[w].attempts = table[m].attempts
      /\ \A v \in Workers : v # w => worker'[v] = worker[v]
  BY <1>1, <1>2 DEF ReadRow, Drain
<1>4. Held(w)' = Held(w)
  BY <1>1, <1>2, <1>3 DEF Held
<1>5. Holders(e)' = Holders(e)
  BY <1>3, <1>4 DEF Holders, Held
<1>6. Open(e)' => Open(e)
  <2>1. SUFFICES ASSUME table[e].status = "leased", Writes(w, e) PROVE Writes(w, e)'
    BY <1>2, <1>3 DEF Open, Writes
  <2>2. e \in worker[w].batch
    BY <1>2, <2>1 DEF Writes
  <2> QED BY <1>3, <2>1, <2>2 DEF Writes
<1>7. Claims(e)' <= Claims(e)
  BY <1>3, <1>4, <1>6, ClaimsFall
<1>8. \A v \in Workers : worker'[v].current = e =>
            \/ worker[v].current = e /\ worker'[v].attempts = worker[v].attempts
            \/ worker'[v].attempts = table[e].attempts
  BY <1>3
<1> QED BY <1>2, <1>5, <1>7, <1>8, QuotaKept

(* A drain that ends, in whatever way, lets go of all it held.              *)
LEMMA EndQuota ==
  ASSUME Typed, Typed', WithinQuota, NEW w \in Workers,
         MissRow(w) \/ LoseOutcome(w) \/ Crash(w) \/ ReapCompleted(w),
         NEW e \in Effects
  PROVE  Quota(e)'
<1>1. /\ worker \in [Workers -> Drain] /\ table \in [Effects -> OutboxRow]
      /\ Quota(e)
  BY DEF Typed, TypeOK, WithinQuota
<1>2. /\ worker'[w] = Idle
      /\ \A v \in Workers : v # w => worker'[v] = worker[v]
      /\ UNCHANGED overruns
  BY <1>1 DEF MissRow, LoseOutcome, Crash, ReapCompleted, faults
<1>3. Held(w)' = {}
  BY <1>2 DEF Held, Idle
<1>4. /\ table'[e].attempts = table[e].attempts
      /\ \/ table'[e] = table[e]
         \/ table'[e].status = "reaped"
  BY <1>1 DEF MissRow, LoseOutcome, Crash, ReapCompleted, OutboxRow
<1>5. Claims(e)' <= Claims(e)
  <2>1. CASE e \in Held(w)
    BY <1>2, <1>3, <2>1, ClaimsFall
  <2>2. CASE e \notin Held(w)
    <3>1. ~ Writes(w, e)
      BY <2>2 DEF Writes, Held
    <3>2. Open(e)' => Open(e)
      BY <1>2, <1>4, <3>1 DEF Open, Writes
    <3> QED BY <1>2, <1>3, <3>2, ClaimsFall
  <2> QED BY <2>1, <2>2
<1>6. Holders(e)' \subseteq Holders(e)
  BY <1>2, <1>3 DEF Holders, Held
<1>7. \A v \in Workers : worker'[v].current = e =>
            worker[v].current = e /\ worker'[v].attempts = worker[v].attempts
  BY <1>2 DEF Idle
<1> QED BY <1>1, <1>2, <1>4, <1>5, <1>6, <1>7, QuotaKept

(* The delivery itself touches neither row nor claim.                       *)
LEMMA ApplyQuota ==
  ASSUME Typed, Typed', WithinQuota, NEW w \in Workers, ApplyEffect(w),
         NEW e \in Effects
  PROVE  Quota(e)'
<1>1. /\ worker \in [Workers -> Drain] /\ Quota(e) /\ UNCHANGED <<table, overruns>>
  BY DEF ApplyEffect, Typed, TypeOK, WithinQuota, faults
<1>2. /\ worker'[w].batch = worker[w].batch /\ worker'[w].current = worker[w].current
      /\ worker'[w].status = worker[w].status /\ worker'[w].attempts = worker[w].attempts
      /\ \A v \in Workers : v # w => worker'[v] = worker[v]
  BY <1>1 DEF ApplyEffect, Drain
<1>3. Holders(e)' = Holders(e) /\ Held(w)' = Held(w)
  BY <1>2 DEF Holders, Held
<1>4. Open(e)' => Open(e)
  BY <1>1, <1>2 DEF Open, Writes
<1>5. Claims(e)' <= Claims(e)
  BY <1>2, <1>3, <1>4, ClaimsFall
<1> QED BY <1>1, <1>2, <1>3, <1>5, QuotaKept

(* What process_row writes: as a reader's count allows, and back to pending *)
(* only below the limit.                                                    *)
LEMMA OutcomeOf ==
  ASSUME NEW d \in Drain
  PROVE  \/ Outcome(d).status = "completed" /\ Outcome(d).attempts = d.attempts
         \/ /\ Outcome(d).attempts = d.attempts + 1
            /\ \/ Outcome(d).status = "dead"
               \/ Outcome(d).status = "pending" /\ d.attempts + 1 < MaxAttempts
<1>1. d.attempts \in Nat
  BY DEF Drain
<1> QED BY <1>1 DEF Outcome, Exhausted

LEMMA RecordQuota ==
  ASSUME Typed, Typed', WithinQuota, NEW w \in Workers, RecordOutcome(w)
  PROVE  \A f \in Effects : Quota(f)'
<1> DEFINE d == worker[w]
<1>1. PICK e \in Effects : e = d.current
  BY DEF RecordOutcome, Typed, TypeOK, DrainShape, Drain
<1>2. /\ d \in Drain /\ d.attempts \in Nat /\ table[e] \in OutboxRow
      /\ e \notin d.batch /\ UNCHANGED overruns /\ overruns \in Nat
      /\ worker \in [Workers -> Drain] /\ table \in [Effects -> OutboxRow]
      /\ table[e].status # "none" /\ table[e].attempts \in Nat
  BY <1>1 DEF RecordOutcome, Typed, TypeOK, DrainShape, Drain, faults, InTable, Statuses,
              OutboxRow
<1>3. /\ worker'[w].batch = d.batch /\ worker'[w].current = -1
      /\ \A v \in Workers : v # w => worker'[v] = worker[v]
  BY <1>2 DEF RecordOutcome, Idle
<1>4. /\ table'[e] = Recorded(table[e], d)
      /\ \A f \in Effects : f # e => table'[f] = table[f]
  BY <1>1, <1>2 DEF RecordOutcome
<1>5. ASSUME NEW f \in Effects, f # e PROVE Quota(f)'
  <2>1. f \in Held(w)' <=> f \in Held(w)
    BY <1>1, <1>3, <1>5 DEF Held
  <2>2. Writes(w, f)' <=> Writes(w, f)
    BY <1>1, <1>3, <1>5 DEF Writes
  <2>3. Open(f)' => Open(f)
    BY <1>3, <1>4, <1>5, <2>2 DEF Open, Writes
  <2>4. Claims(f)' <= Claims(f)
    BY <1>3, <2>1, <2>3, ClaimsFall
  <2>5. Holders(f)' \subseteq Holders(f)
    BY <1>3, <2>1 DEF Holders, Held
  <2>6. \A v \in Workers : worker'[v].current = f =>
            worker[v].current = f /\ worker'[v].attempts = worker[v].attempts
    BY <1>3
  <2> QED BY <1>2, <1>4, <1>5, <2>4, <2>5, <2>6, QuotaKept DEF WithinQuota
<1>6. Quota(e)'
  <2>1. Quota(e) /\ Claims(e) \in Nat /\ Claims(e)' \in Nat
    BY ClaimsType, ClaimsTypeNext DEF WithinQuota
  <2>2. w \in Holders(e) /\ Holders(e)' = Holders(e) \ {w}
    BY <1>1, <1>2, <1>3 DEF Holders, Held
  <2>3. Claims(e)' <= Claims(e)
    <3>1. e \in Held(w) /\ e \notin Held(w)'
      BY <2>2 DEF Holders
    <3> QED BY <1>3, <3>1, ClaimsFall
  <2>4. /\ table'[e].status = IF Outcome(d).status # d.status
                                THEN Outcome(d).status ELSE table[e].status
        /\ table'[e].attempts = IF Outcome(d).attempts # d.attempts
                                  THEN Outcome(d).attempts ELSE table[e].attempts
    BY <1>2, <1>4 DEF Recorded, OutboxRow
  <2>5. table'[e].status # "none"
    BY <1>2, <2>4, OutcomeOf
  <2>6. Cardinality(Holders(e)') = Cardinality(Holders(e)) - 1
    BY <2>2, ClaimsType, FS_RemoveElement
  <2>7. d.attempts + Claims(e) <= MaxAttempts + overruns
    BY <1>1, <2>1 DEF Quota
  <2>8. ASSUME ~ Open(e)' \/ (Open(e)' => Open(e))
        PROVE  Claims(e)' + 1 <= Claims(e)
    BY <2>6, <2>8, ClaimsType, ClaimsTypeNext DEF Claims
  <2>9. table'[e].attempts + Claims(e)' <= MaxAttempts + overruns
    <3>1. CASE table'[e].attempts = table[e].attempts
      BY <1>2, <2>1, <2>3, <3>1 DEF Quota
    <3>2. CASE table'[e].attempts # table[e].attempts
      <4>1. Outcome(d).attempts = d.attempts + 1 /\ table'[e].attempts = d.attempts + 1
        BY <1>2, <2>4, <3>2, OutcomeOf
      <4>2. CASE Outcome(d).status = "pending" /\ d.status # "pending"
        <5>1. d.attempts + 1 < MaxAttempts
          BY <1>2, <4>2, OutcomeOf
        <5>2. Claims(e)' <= 1 + overruns
          BY <1>2, <2>1, <2>3 DEF Quota
        <5> QED BY <1>2, <2>1, <4>1, <5>1, <5>2
      <4>3. CASE Outcome(d).status = "dead" /\ d.status # "dead"
        <5>1. ~ Open(e)'
          BY <2>4, <4>3 DEF Open
        <5> QED BY <1>2, <2>1, <2>7, <2>8, <4>1, <5>1
      <4>4. CASE Outcome(d).status = d.status
        <5>1. d.status \in {"pending", "dead"}
          BY <1>2, <4>1, <4>4, OutcomeOf
        <5>2. ~ Writes(w, e)
          BY <1>1, <1>2, <5>1 DEF Writes
        <5>3. table'[e].status = table[e].status
          BY <2>4, <4>4
        <5>4. table'[e].lease = "over" => table[e].lease = "over"
          BY <1>2, <1>4 DEF Recorded, OutboxRow
        <5>5. Open(e)' => Open(e)
          BY <1>3, <5>2, <5>3, <5>4 DEF Open, Writes
        <5> QED BY <1>2, <2>1, <2>7, <2>8, <4>1, <5>5
      <4>5. Outcome(d).status \in {"pending", "dead"}
        BY <1>2, <4>1, OutcomeOf
      <4> QED BY <4>2, <4>3, <4>4, <4>5
    <3> QED BY <3>1, <3>2
  <2>10. ASSUME NEW v \in Workers, worker'[v].current = e
         PROVE  worker'[v].attempts + Claims(e)' <= MaxAttempts + overruns
    <3>1. worker'[v] = worker[v] /\ worker[v].attempts \in Nat
      BY <1>2, <1>3, <2>10 DEF Drain
    <3>2. worker[v].attempts + Claims(e) <= MaxAttempts + overruns
      BY <2>1, <2>10, <3>1 DEF Quota
    <3> QED BY <1>2, <2>1, <2>3, <3>1, <3>2
  <2>11. Claims(e)' <= 1 + overruns
    BY <1>2, <2>1, <2>3 DEF Quota
  <2> QED BY <1>2, <2>5, <2>9, <2>10, <2>11 DEF Quota
<1> QED BY <1>5, <1>6

(* Time: a lease that runs out under a drain makes room for one more claim; *)
(* one that runs out with nobody holding the row was open already.          *)
LEMMA TimeQuota ==
  ASSUME Typed, Typed', WithinQuota, NEW f \in Effects,
         LeaseOverrun(f) \/ LeaseRunsOut(f) \/ FallDue(f) \/ TokenExpires(f),
         NEW e \in Effects
  PROVE  Quota(e)'
<1>1. /\ table \in [Effects -> OutboxRow] /\ UNCHANGED worker /\ Quota(e)
      /\ overruns \in Nat /\ overruns' \in Nat /\ table[e].attempts \in Nat
      /\ \A w \in Workers : worker[w].attempts \in Nat
  BY DEF LeaseOverrun, LeaseRunsOut, FallDue, TokenExpires, Typed, TypeOK, WithinQuota,
         OutboxRow, Drain
<1>2. Holders(e)' = Holders(e) /\ Claims(e) \in Nat /\ Claims(e)' \in Nat
  BY <1>1, ClaimsType, ClaimsTypeNext DEF Holders, Held
<1>3. table'[e].status = table[e].status /\ table'[e].attempts = table[e].attempts
  BY <1>1 DEF LeaseOverrun, LeaseRunsOut, FallDue, TokenExpires, OutboxRow
<1>4. CASE LeaseOverrun(f)
  <2>1. overruns' = overruns + 1
    BY <1>4 DEF LeaseOverrun
  <2>2. Claims(e)' <= Claims(e) + 1
    BY <1>2, ClaimsType, ClaimsTypeNext DEF Claims
  <2>3. ASSUME NEW v \in Workers, worker'[v].current = e
        PROVE  worker'[v].attempts + Claims(e)' <= MaxAttempts + overruns'
    BY <1>1, <1>2, <2>1, <2>2, <2>3 DEF Quota
  <2> QED BY <1>1, <1>2, <1>3, <2>1, <2>2, <2>3 DEF Quota
<1>5. CASE ~ LeaseOverrun(f)
  <2>1. UNCHANGED overruns
    BY <1>5 DEF LeaseRunsOut, FallDue, TokenExpires, faults
  <2>2. Open(e)' => Open(e)
    <3>1. CASE LeaseRunsOut(f) /\ f = e
      BY <1>1, <1>3, <3>1 DEF LeaseRunsOut, Open, Writes, Held
    <3>2. CASE table'[e].lease = table[e].lease
      BY <1>1, <1>3, <3>2 DEF Open, Writes
    <3> QED BY <1>1, <1>5, <3>1, <3>2 DEF LeaseRunsOut, FallDue, TokenExpires, OutboxRow
  <2>3. Claims(e)' <= Claims(e)
    BY <1>2, <2>2, ClaimsType, ClaimsTypeNext DEF Claims
  <2> QED BY <1>1, <1>2, <1>3, <2>1, <2>3, QuotaKept
<1> QED BY <1>4, <1>5

LEMMA QuotaStep ==
  ASSUME Typed, Typed', WithinQuota, [Next]_vars
  PROVE  WithinQuota'
<1> SUFFICES ASSUME NEW e \in Effects PROVE Quota(e)'
  BY DEF WithinQuota
<1>1. CASE UNCHANGED <<table, worker, overruns>>
  <2>1. Claims(e)' = Claims(e) /\ Holders(e)' = Holders(e)
    BY <1>1 DEF Claims, Holders, Held, Open, Writes
  <2> QED BY <1>1, <2>1 DEF Quota, WithinQuota
<1>2. CASE RedisToggles \/ UNCHANGED vars
  BY <1>1, <1>2 DEF RedisToggles, vars, faults
<1>3. ASSUME NEW w \in Workers, WorkerStep(w) \/ Crash(w) PROVE Quota(e)'
  BY <1>3, ClaimQuota, ReadQuota, EndQuota, ApplyQuota, RecordQuota DEF WorkerStep
<1> QED BY <1>2, <1>3, EnqueueQuota, TimeQuota DEF Next

-----------------------------------------------------------------------------
(* The theorems *)

IInv == Typed /\ Accounted /\ WithinQuota

(* The three layers hold together.                                          *)
THEOREM InvariantHolds == Spec => []IInv
<1>1. Init => IInv
  BY InitTyped, InitAccounted, InitQuota DEF IInv
<1>2. IInv /\ [Next]_vars => IInv'
  BY TypedStep, AccountedStep, QuotaStep DEF IInv
<1> QED BY <1>1, <1>2, PTL DEF Spec

(* A row has one claim at the most while no lease was outlasted, so no two   *)
(* drains hold it.                                                           *)
LEMMA HandsApart == IInv => LeaseExcludes
<1> SUFFICES ASSUME IInv, overruns = 0, NEW v \in Workers, NEW w \in Workers,
                    v # w, NEW e \in Held(v) \cap Held(w)
             PROVE  FALSE
  BY DEF LeaseExcludes
<1>1. e \in Effects
  BY DEF Held, IInv, Typed, TypeOK, Drain
<1>2. Claims(e) <= 1
  <2>1. Claims(e) <= 1 + overruns
    BY <1>1 DEF IInv, WithinQuota, Quota
  <2> QED BY <1>1, <2>1, ClaimsType
<1>3. Cardinality(Holders(e)) <= 1
  BY <1>1, <1>2, ClaimsType DEF Claims
<1>4. {v, w} \subseteq Holders(e)
  BY DEF Holders
<1>5. Cardinality({v, w}) = 2
  <2>1. IsFiniteSet({v}) /\ Cardinality({v}) = 1
    BY FS_Singleton
  <2>2. Cardinality({v} \cup {w}) = Cardinality({v}) + 1
    BY <2>1, FS_AddElement
  <2>3. {v, w} = {v} \cup {w}
    OBVIOUS
  <2> QED BY <2>1, <2>2, <2>3
<1>6. Cardinality({v, w}) <= Cardinality(Holders(e))
  BY <1>1, <1>4, ClaimsType, FS_Subset
<1> QED BY <1>1, <1>3, <1>5, <1>6, ClaimsType

(* As long as no drain outlasts a lease, whatever crashes, no row is in the *)
(* hands of two drains (claim_batch's lease), because a row then has one    *)
(* claim at the most.                                                       *)
THEOREM LeaseExclusion == Spec => []LeaseExcludes
  BY HandsApart, InvariantHolds, PTL

(* No status claims more than happened, and attempts exceeds the limit only *)
(* by one for every lease that was outlasted (process_row, which checks     *)
(* neither status nor lease).                                               *)
THEOREM StatusesAccounted == Spec => []StatusAccounted
<1>1. IInv => StatusAccounted
  <2> SUFFICES ASSUME IInv, NEW e \in Effects
               PROVE  /\ table[e].status = "dead" => failures[e] >= MaxAttempts
                      /\ table[e].status = "reaped" => e \in applied
                      /\ table[e].attempts <= MaxAttempts + overruns
    BY DEF StatusAccounted
  <2>1. RowAccounted(e) /\ Quota(e)
    BY DEF IInv, Accounted, WithinQuota
  <2>2. table[e].attempts \in Nat /\ overruns \in Nat /\ Claims(e) \in Nat
    BY ClaimsType DEF IInv, Typed, TypeOK, OutboxRow
  <2>3. table[e].attempts <= MaxAttempts + overruns
    BY <2>1, <2>2 DEF Quota
  <2> QED BY <2>1, <2>3 DEF RowAccounted
<1> QED BY <1>1, InvariantHolds, PTL

(* Once drains overlap: each outlasted lease lets one more drain hold a row *)
(* (claim_batch takes it again) and count one more attempt of it            *)
(* (process_row), and nothing else does.  The attempts recorded and those   *)
(* still in a drain's hands never pass the limit by more.                   *)
THEOREM HandsBounded ==
  Spec => [](\A e \in Effects :
                /\ Cardinality(Holders(e)) <= 1 + overruns
                /\ table[e].attempts + Cardinality(Holders(e)) <= MaxAttempts + overruns)
<1>1. IInv => \A e \in Effects :
                /\ Cardinality(Holders(e)) <= 1 + overruns
                /\ table[e].attempts + Cardinality(Holders(e)) <= MaxAttempts + overruns
  <2> SUFFICES ASSUME IInv, NEW e \in Effects
               PROVE  /\ Cardinality(Holders(e)) <= 1 + overruns
                      /\ table[e].attempts + Cardinality(Holders(e)) <= MaxAttempts + overruns
    OBVIOUS
  <2>1. /\ Claims(e) <= 1 + overruns /\ overruns \in Nat /\ table[e].attempts \in Nat
        /\ table[e].attempts + Claims(e) <= MaxAttempts + overruns
    BY DEF IInv, WithinQuota, Quota, Typed, TypeOK, OutboxRow
  <2> QED BY <2>1, ClaimsType, AttemptsAssumption DEF IInv, Claims
<1> QED BY <1>1, InvariantHolds, PTL

-----------------------------------------------------------------------------
(* While no lease is outlasted *)

(* What a drain holds is leased, the lease runs, and what the drain read of  *)
(* the row is what the row still says.                                       *)
Undisturbed(w) ==
    /\ \A e \in Held(w) : table[e].status = "leased" /\ table[e].lease = "running"
    /\ worker[w].pc \in {"apply", "record"} =>
          /\ worker[w].status = "leased" /\ worker[w].leased
          /\ worker[w].attempts = table[worker[w].current].attempts

(* A row is dead exactly when its recorded attempts reach the limit.         *)
RowInOrder(e) ==
    /\ table[e].status = "dead" => table[e].attempts = MaxAttempts
    /\ table[e].status # "dead" => table[e].attempts < MaxAttempts

InOrder ==
    overruns = 0 =>
        /\ \A w \in Workers : Undisturbed(w)
        /\ \A e \in Effects : RowInOrder(e)

Settled(e) == table[e].status \in {"completed", "dead", "reaped"}

(* A settled row is never delivered again, keeps its count of attempts and   *)
(* its status, except that a completed one is reaped.                        *)
StaysSettled(e) ==
    Settled(e) =>
        /\ \/ table'[e].status = table[e].status
           \/ table[e].status = "completed" /\ table'[e].status = "reaped"
        /\ table'[e].attempts = table[e].attempts
        /\ failures'[e] = failures[e]
        /\ ~ \E w \in Workers : ApplyEffect(w) /\ worker[w].current = e

(* A drain whose own record does not change is as undisturbed as before when *)
(* the rows in its hands say the same.                                       *)
LEMMA UndisturbedKept ==
  ASSUME Typed, NEW w \in Workers, Undisturbed(w), worker'[w] = worker[w],
         \A e \in Held(w) : /\ table'[e].status = table[e].status
                            /\ table'[e].lease = table[e].lease
                            /\ table'[e].attempts = table[e].attempts
  PROVE  Undisturbed(w)'
<1>1. Held(w)' = Held(w)
  BY DEF Held
<1>2. worker[w].pc \in {"apply", "record"} => worker[w].current \in Held(w)
  BY DEF Typed, DrainShape, Idle, Held
<1> QED BY <1>1, <1>2 DEF Undisturbed

LEMMA IdleUndisturbed ==
  ASSUME NEW w \in Workers, worker'[w] = Idle
  PROVE  Undisturbed(w)'
  BY DEF Undisturbed, Held, Idle

LEMMA InitInOrder == Init => InOrder
<1> SUFFICES ASSUME Init PROVE InOrder
  OBVIOUS
<1>1. \A w \in Workers : Undisturbed(w)
  BY DEF Init, Undisturbed, Held, Idle
<1>2. \A e \in Effects : RowInOrder(e)
  BY DEF Init, RowInOrder
<1> QED BY <1>1, <1>2 DEF InOrder

(* Overruns only grow.                                                       *)
LEMMA OverrunsGrow ==
  ASSUME Typed, [Next]_vars, overruns' = 0
  PROVE  overruns = 0 /\ \A e \in Effects : ~ LeaseOverrun(e)
<1>1. overruns \in Nat
  BY DEF Typed, TypeOK
<1>2. ASSUME NEW e \in Effects, LeaseOverrun(e) PROVE FALSE
  BY <1>1, <1>2 DEF LeaseOverrun
<1>3. UNCHANGED overruns \/ \E e \in Effects : LeaseOverrun(e)
  BY DEF Next, vars, faults, WorkerStep, Enqueue, ClaimBatch, ReadRow, MissRow,
         ApplyEffect, RecordOutcome, LoseOutcome, ReapCompleted, Crash, LeaseRunsOut,
         FallDue, TokenExpires, RedisToggles
<1> QED BY <1>1, <1>2, <1>3

(* enqueue_role_change_effects, and the clock: nobody's rows change, but for *)
(* when they fall due.                                                       *)
LEMMA OutsideInOrder ==
  ASSUME Typed, InOrder, overruns = 0,
         \/ \E p \in Publishes : Enqueue(p)
         \/ \E e \in Effects : LeaseRunsOut(e) \/ FallDue(e) \/ TokenExpires(e)
         \/ RedisToggles
         \/ UNCHANGED vars
  PROVE  InOrder'
<1>1. table \in [Effects -> OutboxRow] /\ UNCHANGED worker
  BY DEF Typed, TypeOK, Enqueue, LeaseRunsOut, FallDue, TokenExpires, RedisToggles, vars
<1>2. ASSUME NEW e \in Effects
      PROVE  /\ table'[e].attempts = table[e].attempts
             /\ \/ table'[e].status = table[e].status
                \/ table[e].status = "none" /\ table'[e].status = "pending"
             /\ (\E w \in Workers : e \in Held(w)) /\ table[e].status # "none" =>
                   table'[e].status = table[e].status /\ table'[e].lease = table[e].lease
  BY <1>1 DEF Enqueue, LeaseRunsOut, FallDue, TokenExpires, RedisToggles, vars, OutboxRow
<1>3. ASSUME NEW w \in Workers PROVE Undisturbed(w)'
  <2>1. Undisturbed(w) /\ Held(w) \subseteq Effects
    BY DEF InOrder, Held, Typed, TypeOK, Drain
  <2>2. \A e \in Held(w) : table[e].status # "none"
    BY <2>1 DEF Undisturbed
  <2>3. \A e \in Held(w) : /\ table'[e].status = table[e].status
                           /\ table'[e].lease = table[e].lease
                           /\ table'[e].attempts = table[e].attempts
    BY <1>2, <2>1, <2>2
  <2> QED BY <1>1, <2>1, <2>3, UndisturbedKept
<1>4. ASSUME NEW e \in Effects PROVE RowInOrder(e)'
  BY <1>2 DEF RowInOrder, InOrder
<1> QED BY <1>3, <1>4 DEF InOrder

(* claim_batch takes no row out of another drain's hands: those are leased   *)
(* and their leases run.                                                     *)
LEMMA ClaimInOrder ==
  ASSUME Typed, InOrder, overruns = 0, NEW w \in Workers, ClaimBatch(w)
  PROVE  InOrder'
<1> DEFINE S == Oldest({f \in Effects : Eligible(table[f])})
<1>1. /\ worker \in [Workers -> Drain] /\ table \in [Effects -> OutboxRow]
      /\ worker'[w].batch = S /\ worker'[w].current = -1 /\ worker'[w].pc = "next"
      /\ \A v \in Workers : v # w => worker'[v] = worker[v]
  BY DEF ClaimBatch, Typed, TypeOK, Idle
<1>2. ASSUME NEW e \in Effects
      PROVE  /\ e \notin S => table'[e] = table[e]
             /\ e \in S => /\ table'[e].status = "leased" /\ table'[e].lease = "running"
                           /\ table'[e].attempts = table[e].attempts
  <2>1. table'[e] = IF e \in S
                      THEN [table[e] EXCEPT !.status = "leased", !.lease = "running"]
                      ELSE table[e]
    BY Zenon DEF ClaimBatch
  <2>2. table[e] \in OutboxRow
    BY <1>1
  <2> HIDE DEF S
  <2> QED BY <2>1, <2>2 DEF OutboxRow
<1>3. \A e \in S : e \in Effects /\ Eligible(table[e])
  BY DEF Oldest
<1> HIDE DEF S
<1>4. Undisturbed(w)'
  <2>1. Held(w)' \subseteq S
    BY <1>1 DEF Held
  <2> QED BY <1>1, <1>2, <1>3, <2>1 DEF Undisturbed
<1>5. ASSUME NEW v \in Workers, v # w PROVE Undisturbed(v)'
  <2>1. Undisturbed(v) /\ Held(v) \subseteq Effects
    BY DEF InOrder, Held, Typed, TypeOK, Drain
  <2>2. \A e \in Held(v) : e \notin S
    BY <1>3, <2>1 DEF Undisturbed, Eligible
  <2>3. \A e \in Held(v) : table'[e] = table[e]
    BY <1>2, <2>1, <2>2
  <2> QED BY <1>1, <1>5, <2>1, <2>3, UndisturbedKept
<1>6. ASSUME NEW e \in Effects PROVE RowInOrder(e)'
  <2>1. RowInOrder(e)
    BY DEF InOrder
  <2> QED BY <1>2, <1>3, <2>1 DEF RowInOrder, Eligible
<1> QED BY <1>4, <1>5, <1>6 DEF InOrder

(* process_row reads a row that is leased to it, and delivers.               *)
LEMMA ReadInOrder ==
  ASSUME Typed, InOrder, overruns = 0, NEW w \in Workers, ReadRow(w) \/ ApplyEffect(w)
  PROVE  InOrder'
<1>1. /\ worker \in [Workers -> Drain] /\ UNCHANGED table
      /\ \A v \in Workers : v # w => worker'[v] = worker[v]
  BY DEF ReadRow, ApplyEffect, Typed, TypeOK
<1>2. Undisturbed(w) /\ worker[w].pc # "idle" /\ DrainShape(worker[w])
  BY DEF InOrder, ReadRow, ApplyEffect, Typed
<1>3. ASSUME ReadRow(w) PROVE Undisturbed(w)'
  <2>1. PICK m \in Effects : m = Min(worker[w].batch) /\ m \in worker[w].batch
    BY <1>1, <1>3, NextOfBatch DEF ReadRow, Drain
  <2>2. /\ worker'[w].batch = worker[w].batch \ {m} /\ worker'[w].current = m
        /\ worker'[w].status = table[m].status /\ worker'[w].attempts = table[m].attempts
        /\ worker'[w].leased = (table[m].lease # "none")
    BY <1>1, <1>3, <2>1 DEF ReadRow, Drain
  <2>3. Held(w)' \subseteq Held(w) /\ m \in Held(w)
    BY <2>1, <2>2 DEF Held
  <2> QED BY <1>1, <1>2, <2>2, <2>3 DEF Undisturbed
<1>4. ASSUME ApplyEffect(w) PROVE Undisturbed(w)'
  <2>1. /\ worker'[w].batch = worker[w].batch /\ worker'[w].current = worker[w].current
        /\ worker'[w].status = worker[w].status /\ worker'[w].leased = worker[w].leased
        /\ worker'[w].attempts = worker[w].attempts /\ worker[w].pc = "apply"
    BY <1>1, <1>4 DEF ApplyEffect, Drain
  <2>2. Held(w)' = Held(w)
    BY <2>1 DEF Held
  <2> QED BY <1>1, <1>2, <2>1, <2>2 DEF Undisturbed
<1>5. ASSUME NEW v \in Workers PROVE Undisturbed(v)'
  <2>1. CASE v = w
    BY <1>3, <1>4, <2>1
  <2>2. CASE v # w
    <3>1. Undisturbed(v)
      BY DEF InOrder
    <3> QED BY <1>1, <2>2, <3>1, UndisturbedKept
  <2> QED BY <2>1, <2>2
<1>6. \A e \in Effects : RowInOrder(e)'
  BY <1>1 DEF InOrder, RowInOrder
<1> QED BY <1>5, <1>6 DEF InOrder

(* The flush of process_row writes all it means to: the row was leased and   *)
(* counted as it was read, and no other drain has it.                        *)
LEMMA RecordInOrder ==
  ASSUME Typed, LeaseExcludes, InOrder, overruns = 0, NEW w \in Workers, RecordOutcome(w)
  PROVE  InOrder'
<1> DEFINE d == worker[w]
<1>1. PICK e \in Effects : e = d.current
  BY DEF RecordOutcome, Typed, TypeOK, DrainShape, Drain
<1>2. /\ d \in Drain /\ d.attempts \in Nat /\ table[e] \in OutboxRow
      /\ e \notin d.batch /\ d.pc = "record"
      /\ worker \in [Workers -> Drain] /\ table \in [Effects -> OutboxRow]
  BY <1>1 DEF RecordOutcome, Typed, TypeOK, DrainShape, Drain
<1>3. /\ worker'[w].batch = d.batch /\ worker'[w].current = -1 /\ worker'[w].pc = "next"
      /\ \A v \in Workers : v # w => worker'[v] = worker[v]
  BY <1>2 DEF RecordOutcome, Idle
<1>4. /\ table'[e] = Recorded(table[e], d)
      /\ \A f \in Effects : f # e => table'[f] = table[f]
  BY <1>1, <1>2 DEF RecordOutcome
<1>5. Undisturbed(w) /\ e \in Held(w) /\ RowInOrder(e)
  BY <1>1 DEF InOrder, Held
<1>6. d.status = "leased" /\ d.attempts = table[e].attempts /\ table[e].status = "leased"
  BY <1>1, <1>2, <1>5 DEF Undisturbed
<1>7. /\ table'[e].status = IF Outcome(d).status # d.status
                              THEN Outcome(d).status ELSE table[e].status
      /\ table'[e].attempts = IF Outcome(d).attempts # d.attempts
                                THEN Outcome(d).attempts ELSE table[e].attempts
  BY <1>2, <1>4 DEF Recorded, OutboxRow
<1>8. Undisturbed(w)'
  <2>1. Held(w)' \subseteq Held(w) /\ e \notin Held(w)' /\ Held(w)' \subseteq Effects
    BY <1>1, <1>2, <1>3 DEF Held, Drain
  <2>2. \A f \in Held(w)' : table'[f] = table[f]
    BY <1>4, <2>1
  <2> QED BY <1>3, <1>5, <2>1, <2>2 DEF Undisturbed
<1>9. ASSUME NEW v \in Workers, v # w PROVE Undisturbed(v)'
  <2>1. Undisturbed(v) /\ Held(v) \subseteq Effects /\ e \notin Held(v)
    BY <1>5, <1>9 DEF InOrder, LeaseExcludes, Held, Typed, TypeOK, Drain
  <2>2. \A f \in Held(v) : table'[f] = table[f]
    BY <1>4, <2>1
  <2> QED BY <1>3, <1>9, <2>1, <2>2, UndisturbedKept
<1>10. RowInOrder(e)'
  <2>1. d.attempts < MaxAttempts
    BY <1>5, <1>6 DEF RowInOrder
  <2>2. CASE d.ok
    BY <1>6, <1>7, <2>1, <2>2 DEF RowInOrder, Outcome
  <2>3. CASE ~ d.ok
    <3>1. /\ table'[e].attempts = d.attempts + 1
          /\ table'[e].status = IF d.attempts + 1 >= MaxAttempts THEN "dead" ELSE "pending"
      BY <1>2, <1>6, <1>7, <2>3 DEF Outcome, Exhausted
    <3> QED BY <1>2, <2>1, <3>1 DEF RowInOrder
  <2> QED BY <2>2, <2>3
<1>11. \A f \in Effects : f # e => RowInOrder(f)'
  BY <1>4 DEF InOrder, RowInOrder
<1> QED BY <1>8, <1>9, <1>10, <1>11 DEF InOrder

(* A drain ends; reap_completed deletes rows that nobody holds.              *)
LEMMA EndInOrder ==
  ASSUME Typed, InOrder, overruns = 0, NEW w \in Workers,
         MissRow(w) \/ LoseOutcome(w) \/ Crash(w) \/ ReapCompleted(w)
  PROVE  InOrder'
<1>1. /\ worker \in [Workers -> Drain] /\ table \in [Effects -> OutboxRow]
      /\ worker'[w] = Idle
      /\ \A v \in Workers : v # w => worker'[v] = worker[v]
  BY DEF Typed, TypeOK, MissRow, LoseOutcome, Crash, ReapCompleted
<1>2. ASSUME NEW e \in Effects
      PROVE  /\ table'[e].attempts = table[e].attempts
             /\ \/ table'[e] = table[e]
                \/ table[e].status = "completed" /\ table'[e].status = "reaped"
  BY <1>1 DEF MissRow, LoseOutcome, Crash, ReapCompleted, Reapable, OutboxRow
<1>3. ASSUME NEW v \in Workers, v # w PROVE Undisturbed(v)'
  <2>1. Undisturbed(v) /\ Held(v) \subseteq Effects
    BY DEF InOrder, Held, Typed, TypeOK, Drain
  <2>2. \A e \in Held(v) : table'[e] = table[e]
    BY <1>2, <2>1 DEF Undisturbed
  <2> QED BY <1>1, <1>3, <2>1, <2>2, UndisturbedKept
<1>4. ASSUME NEW e \in Effects PROVE RowInOrder(e)'
  BY <1>2 DEF RowInOrder, InOrder
<1> QED BY <1>1, <1>3, <1>4, IdleUndisturbed DEF InOrder

LEMMA InOrderStep ==
  ASSUME IInv, InOrder, [Next]_vars
  PROVE  InOrder'
<1> SUFFICES ASSUME overruns' = 0 PROVE InOrder'
  BY DEF InOrder
<1>1. Typed /\ LeaseExcludes
  BY HandsApart DEF IInv
<1>2. overruns = 0 /\ \A e \in Effects : ~ LeaseOverrun(e)
  BY <1>1, OverrunsGrow
<1>3. ASSUME NEW w \in Workers, WorkerStep(w) \/ Crash(w) PROVE InOrder'
  BY <1>1, <1>2, <1>3, ClaimInOrder, ReadInOrder, RecordInOrder, EndInOrder DEF WorkerStep
<1> QED BY <1>1, <1>2, <1>3, OutsideInOrder DEF Next

LEMMA InOrderHolds == Spec => []InOrder
<1>1. IInv /\ InOrder /\ [Next]_vars => InOrder'
  BY InOrderStep
<1> QED BY <1>1, InitInOrder, InvariantHolds, PTL DEF Spec

(* What a drain applies or records is a row in its hands, which is leased.   *)
LEMMA HandsLeased ==
  ASSUME Typed, InOrder, overruns = 0, NEW w \in Workers
  PROVE  /\ worker[w].pc \in {"apply", "record"} =>
               /\ worker[w].current \in Effects
               /\ table[worker[w].current].status = "leased"
         /\ \A e \in worker[w].batch : e \in Effects /\ table[e].status = "leased"
<1>1. worker[w] \in Drain /\ DrainShape(worker[w]) /\ Undisturbed(w)
  BY DEF Typed, TypeOK, InOrder
<1> QED BY <1>1 DEF Drain, DrainShape, Idle, Undisturbed, Held

(* One drain's step leaves what is settled settled.                          *)
LEMMA DrainLeavesSettled ==
  ASSUME Typed, InOrder, overruns = 0, NEW w \in Workers, WorkerStep(w) \/ Crash(w),
         NEW e \in Effects, Settled(e)
  PROVE  /\ \/ table'[e].status = table[e].status
            \/ table[e].status = "completed" /\ table'[e].status = "reaped"
         /\ table'[e].attempts = table[e].attempts
         /\ failures'[e] = failures[e]
<1>1. table \in [Effects -> OutboxRow] /\ failures \in [Effects -> Nat]
  BY DEF Typed, TypeOK
<1>2. CASE ClaimBatch(w)
  <2>1. e \notin Oldest({f \in Effects : Eligible(table[f])})
    BY DEF Settled, Oldest, Eligible
  <2>2. table'[e] = table[e] /\ failures' = failures
    BY <1>2, <2>1 DEF ClaimBatch, history
  <2> QED BY <2>2
<1>3. CASE ReadRow(w) \/ MissRow(w) \/ LoseOutcome(w) \/ Crash(w)
  BY <1>3 DEF ReadRow, MissRow, LoseOutcome, Crash, history
<1>4. CASE ApplyEffect(w)
  <2>1. worker[w].current # e
    BY <1>4, HandsLeased DEF ApplyEffect, Settled
  <2>2. UNCHANGED table /\ failures'[e] = failures[e]
    BY <1>1, <1>4, <2>1 DEF ApplyEffect
  <2> QED BY <2>2
<1>5. CASE RecordOutcome(w)
  <2>1. worker[w].current # e
    BY <1>5, HandsLeased DEF RecordOutcome, Settled
  <2>2. failures' = failures /\ table'[e] = table[e]
    BY <1>1, <1>5, <2>1 DEF RecordOutcome, history
  <2> QED BY <2>2
<1>6. CASE ReapCompleted(w)
  <2>1. /\ failures' = failures /\ table'[e].attempts = table[e].attempts
        /\ \/ table'[e] = table[e]
           \/ table[e].status = "completed" /\ table'[e].status = "reaped"
    BY <1>1, <1>6 DEF ReapCompleted, Reapable, history, OutboxRow
  <2> QED BY <2>1
<1> QED BY <1>2, <1>3, <1>4, <1>5, <1>6 DEF WorkerStep

LEMMA SettledStep ==
  ASSUME IInv, InOrder, [Next]_vars, overruns' = 0, NEW e \in Effects
  PROVE  StaysSettled(e)
<1> SUFFICES ASSUME Settled(e)
             PROVE  /\ \/ table'[e].status = table[e].status
                       \/ table[e].status = "completed" /\ table'[e].status = "reaped"
                    /\ table'[e].attempts = table[e].attempts
                    /\ failures'[e] = failures[e]
                    /\ ~ \E w \in Workers : ApplyEffect(w) /\ worker[w].current = e
  BY DEF StaysSettled
<1>1. Typed
  BY DEF IInv
<1>2. overruns = 0 /\ \A f \in Effects : ~ LeaseOverrun(f)
  BY <1>1, OverrunsGrow
<1>3. ~ \E w \in Workers : ApplyEffect(w) /\ worker[w].current = e
  BY <1>1, <1>2, HandsLeased DEF ApplyEffect, Settled
<1>4. CASE \E w \in Workers : WorkerStep(w) \/ Crash(w)
  BY <1>1, <1>2, <1>3, <1>4, DrainLeavesSettled
<1>5. CASE \/ \E p \in Publishes : Enqueue(p)
           \/ \E f \in Effects : LeaseRunsOut(f) \/ FallDue(f) \/ TokenExpires(f)
           \/ RedisToggles
           \/ UNCHANGED vars
  <2>1. table \in [Effects -> OutboxRow]
    BY <1>1 DEF Typed, TypeOK
  <2>2. failures' = failures
    BY <1>5 DEF Enqueue, LeaseRunsOut, FallDue, TokenExpires, RedisToggles, vars, history
  <2>3. table'[e].status = table[e].status /\ table'[e].attempts = table[e].attempts
    BY <1>5, <2>1 DEF Enqueue, LeaseRunsOut, FallDue, TokenExpires, RedisToggles, vars,
                      OutboxRow, Settled
  <2> QED BY <1>3, <2>2, <2>3
<1> QED BY <1>2, <1>4, <1>5 DEF Next

(* As long as no drain outlasts a lease, and with any number of drains and   *)
(* crashes, a row that is completed, dead or reaped is final: no drain       *)
(* delivers it again, counts a failure on it or puts it back (process_row,   *)
(* which checks neither the status nor the lease of the row it reads).       *)
THEOREM SettledForGood ==
  Spec => [][overruns' = 0 => \A e \in Effects : StaysSettled(e)]_vars
<1>1. IInv /\ InOrder /\ [Next]_vars =>
         [overruns' = 0 => \A e \in Effects : StaysSettled(e)]_vars
  BY SettledStep
<1> QED BY <1>1, InvariantHolds, InOrderHolds, PTL DEF Spec

(* As long as no drain outlasts a lease, a row is given up exactly at the    *)
(* limit of recorded attempts, and no drain finds its row reaped, neither    *)
(* when it reads it nor when it records the outcome (process_row).           *)
THEOREM NoOutcomeLost ==
  Spec => [](overruns = 0 =>
               /\ \A e \in Effects :
                     table[e].status = "dead" <=> table[e].attempts = MaxAttempts
               /\ \A w \in Workers :
                     /\ \A e \in worker[w].batch : InTable(e)
                     /\ worker[w].pc = "record" => InTable(worker[w].current))
<1>1. ASSUME IInv, InOrder, overruns = 0
      PROVE  /\ \A e \in Effects :
                   table[e].status = "dead" <=> table[e].attempts = MaxAttempts
             /\ \A w \in Workers :
                   /\ \A e \in worker[w].batch : InTable(e)
                   /\ worker[w].pc = "record" => InTable(worker[w].current)
  <2>1. ASSUME NEW e \in Effects
        PROVE  table[e].status = "dead" <=> table[e].attempts = MaxAttempts
    BY <1>1 DEF InOrder, RowInOrder
  <2>2. ASSUME NEW w \in Workers
        PROVE  /\ \A e \in worker[w].batch : InTable(e)
               /\ worker[w].pc = "record" => InTable(worker[w].current)
    BY <1>1, HandsLeased DEF IInv, InTable, Statuses
  <2> QED BY <2>1, <2>2
<1> QED BY <1>1, InvariantHolds, InOrderHolds, PTL
=============================================================================

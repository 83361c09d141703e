--------------------------- MODULE ApiKeys_proofs ---------------------------
(***************************************************************************)
(* Theorems about ApiKeys, for any keys, requests, consumers, cap and      *)
(* bounds.                                                                 *)
(***************************************************************************)
EXTENDS ApiKeys, FiniteSetTheorems, TLAPS

USE KeysAssumption, BoundsAssumption, SnapshotAssumption
    DEF KeysAssumption, BoundsAssumption, SnapshotAssumption

-----------------------------------------------------------------------------
(* The inductive invariants *)

(* What the step a request has reached says of it. *)
RequestShape(q) ==
    /\ q.op = "none" <=> q.pc = "idle"
    /\ q.op = "create" <=> q.pc = "insert"
    /\ q.op \in {"revoke", "bind"} <=> q.pc = "write"
    /\ q.op = "deactivate" <=> q.pc \in {"lock", "commit"}
    /\ q.op = "use" <=> q.pc \in {"owner", "stamp", "note"}
    /\ q.op \in {"revoke", "bind", "use"} => \E k \in Keys : q.targets = {k}
    /\ q.op = "deactivate" => q.changes < ChangeMax

FlushShape(q) ==
    /\ q.pc = "idle" => q = NoFlush
    /\ q.pc = "load" => q.writes = {}

Variables ==
    /\ owner \in [exists : BOOLEAN, active : BOOLEAN, changes : 0 .. ChangeMax]
    /\ keys \in [Keys -> Key]
    /\ hash \in [Keys -> Time] /\ noted \in [Keys -> Time] /\ now \in Time
    /\ lost \in [Keys -> Time] /\ disarmed \subseteq Keys
    /\ crashes \in 0 .. CrashBound
    /\ req \in [Requests -> Request]
    /\ flush \in [Flushers -> Flush]

Typed ==
    /\ Variables
    /\ \A r \in Requests : RequestShape(req[r])
    /\ \A f \in Flushers : FlushShape(flush[f])
    /\ \A r, s \in Requests : req[r].pc = "commit" /\ req[s].pc = "commit" => r = s

(* A deactivation has selected every live key: with snapshots from its load *)
(* of the owner on, without them from its lock on; and a key that was       *)
(* disarmed is not issued again.                                            *)
Selecting(q) == q.op = "deactivate" /\ (Snapshot \/ q.pc = "commit")

Disarmed ==
    /\ DisarmedStaysDisarmed
    /\ \A k \in disarmed : keys[k].state # "none"
    /\ \A r \in Requests : Selecting(req[r]) => Live \subseteq req[r].targets

(* With snapshots, no key is issued while a deactivation is under way.      *)
IssueSparesDeactivation ==
    Snapshot => \A r \in Requests, k \in Keys :
                   InsertKey(r, k) => \A q \in Requests : req[q].op # "deactivate"

IssueWaitsForDeactivation == [][IssueSparesDeactivation]_vars

(* A key is loaded for binding only when no other binding has it loaded.    *)
BindsAlone ==
    \A r \in Requests, k \in Keys, audiences \in SUBSET Consumers :
        LoadForBind(r, k, audiences) =>
            \A q \in Requests : req[q].op = "bind" => k \notin req[q].targets

BindingsTakeTurns == [][BindsAlone]_vars

(* A key that is being bound has no audiences yet, and one request binds it.*)
Bound ==
    \A r \in Requests : req[r].op = "bind" =>
        /\ \A k \in req[r].targets : keys[k].state # "none" /\ keys[k].audiences = {}
        /\ \A q \in Requests \ {r} :
              req[q].op = "bind" => req[q].targets \cap req[r].targets = {}

(* The audiences of an issued key that has some stay as they are. *)
AudiencesKept ==
    \A k \in Keys :
        Issued(k) /\ keys[k].audiences # {} => keys'[k].audiences = keys[k].audiences

(* Where the latest use of a key is: in the hash, in the row, in a flush or *)
(* lost.  A flush about to commit writes every row whose time is older; a   *)
(* key not yet issued was never used.                                       *)
Somewhere(k) ==
    \/ noted[k] <= lost[k]
    \/ noted[k] <= hash[k]
    \/ noted[k] <= keys[k].used
    \/ \E f \in Flushers : noted[k] <= flush[f].data[k]

Flushed ==
    /\ \A k \in Keys : Issued(k) => Somewhere(k)
    /\ \A f \in Flushers : flush[f].pc = "commit" =>
          \A k \in Keys :
              IF k \in flush[f].writes THEN keys[k].used <= flush[f].data[k]
              ELSE Issued(k) => flush[f].data[k] <= keys[k].used
    /\ \A k \in Keys : keys[k].state = "none" =>
          /\ noted[k] = 0 /\ hash[k] = 0
          /\ \A f \in Flushers : flush[f].data[k] = 0
    /\ \A r \in Requests : req[r].op = "use" =>
          \A k \in req[r].targets : keys[k].state # "none"

-----------------------------------------------------------------------------
(* Types and steps *)

(* The steps of a request, of the clock and the owner, and of a flush loop. *)
RequestStep(r) ==
    \/ \E audiences \in SUBSET Consumers : CountKeys(r, audiences)
    \/ \E k \in Keys :
          \/ InsertKey(r, k)
          \/ LoadKey(r, k)
          \/ \E audiences \in SUBSET Consumers : LoadForBind(r, k, audiences)
          \/ \E consumer \in {{}} \cup {{c} : c \in Consumers} : ReadKey(r, k, consumer)
    \/ RevokeKey(r)
    \/ LoadOwner(r)
    \/ LockOwner(r)
    \/ Deactivate(r)
    \/ BindAudiences(r)
    \/ ReadOwner(r)
    \/ Stamp(r)
    \/ Note(r)
    \/ Abandon(r)

TableStep ==
    \/ Reactivate
    \/ DeleteOwner
    \/ \E k \in Keys : Expire(k)
    \/ \E batch \in SUBSET Keys : PurgeKeys(batch)

FlushStep(f) ==
    TakeHash(f) \/ LoadRows(f) \/ CommitRows(f) \/ FailRows(f) \/ CrashFlush(f)

LEMMA NextSteps ==
  Next <=> \/ \E r \in Requests : RequestStep(r)
           \/ TableStep
           \/ \E f \in Flushers : FlushStep(f)
BY DEF Next, RequestStep, TableStep, FlushStep

LEMMA TimeFacts == 0 \in Time /\ \A t \in Time : t \in Nat
BY DEF Time

(* The later of two times is one of them, and at least each.                *)
LEMMA LaterFacts ==
  ASSUME NEW t \in Time, NEW u \in Time
  PROVE  Later(t, u) \in Time /\ Later(t, u) >= t /\ Later(t, u) >= u
BY DEF Later, Time

LEMMA InitTyped == Init => Typed
<1> SUFFICES ASSUME Init PROVE Typed
  OBVIOUS
<1>1. Idle \in Request /\ RequestShape(Idle)
  BY TimeFacts DEF Idle, Request, RequestShape
<1>2. NoFlush \in Flush /\ FlushShape(NoFlush)
  BY TimeFacts DEF NoFlush, Flush, FlushShape
<1>3. Unissued \in Key
  BY TimeFacts DEF Unissued, Key
<1>4. Variables
  BY <1>1, <1>2, <1>3, TimeFacts DEF Init, Variables
<1>5. \A r \in Requests : req[r].pc # "commit"
  BY DEF Init, Idle
<1> QED BY <1>1, <1>2, <1>4, <1>5 DEF Init, Typed

(* The one key a request for a single key has loaded. *)
LEMMA SingleTarget ==
  ASSUME NEW q \in Request, RequestShape(q), q.pc \in {"write", "owner", "stamp", "note"}
  PROVE  /\ (CHOOSE x \in q.targets : TRUE) \in Keys
         /\ q.targets = {CHOOSE x \in q.targets : TRUE}
BY DEF RequestShape, Request

LEMMA RequestTyped ==
  ASSUME Typed, NEW r \in Requests, RequestStep(r)
  PROVE  /\ req'[r] \in Request /\ RequestShape(req'[r])
         /\ req' = [req EXCEPT ![r] = req'[r]]
         /\ req'[r].pc = "commit" => LockOwner(r)
         /\ req'[r].pc = "insert" =>
               \E audiences \in SUBSET Consumers : CountKeys(r, audiences)
<1>1. /\ req \in [Requests -> Request] /\ req[r] \in Request
      /\ RequestShape(req[r])
      /\ owner \in [exists : BOOLEAN, active : BOOLEAN, changes : 0 .. ChangeMax]
  BY DEF Typed, Variables
<1>2. Idle \in Request /\ RequestShape(Idle)
  BY TimeFacts DEF Idle, Request, RequestShape
<1>3. ASSUME NEW audiences \in SUBSET Consumers, CountKeys(r, audiences)
      PROVE  /\ req'[r] \in Request /\ RequestShape(req'[r])
             /\ req' = [req EXCEPT ![r] = req'[r]] /\ req'[r].pc # "commit"
  <2>1. req'[r] = [op |-> "create", pc |-> "insert", targets |-> {},
                   audiences |-> audiences, changes |-> 0, at |-> 0]
    BY <1>1, <1>3 DEF CountKeys, Become, Idle
  <2>2. req'[r] \in Request /\ RequestShape(req'[r]) /\ req'[r].pc # "commit"
    BY <2>1, TimeFacts DEF Request, RequestShape
  <2> QED BY <1>1, <1>3, <2>2 DEF CountKeys, Become
<1>4. ASSUME NEW k \in Keys, LoadKey(r, k)
      PROVE  /\ req'[r] \in Request /\ RequestShape(req'[r])
             /\ req' = [req EXCEPT ![r] = req'[r]] /\ req'[r].pc \notin {"commit", "insert"}
  <2>1. req'[r] = [op |-> "revoke", pc |-> "write", targets |-> {k},
                   audiences |-> {}, changes |-> 0, at |-> 0]
    BY <1>1, <1>4 DEF LoadKey, Become, Idle
  <2>2. req'[r] \in Request /\ RequestShape(req'[r]) /\ req'[r].pc \notin {"commit", "insert"}
    BY <2>1, TimeFacts DEF Request, RequestShape
  <2> QED BY <1>1, <1>4, <2>2 DEF LoadKey, Become
<1>5. ASSUME NEW k \in Keys, NEW audiences \in SUBSET Consumers,
             LoadForBind(r, k, audiences)
      PROVE  /\ req'[r] \in Request /\ RequestShape(req'[r])
             /\ req' = [req EXCEPT ![r] = req'[r]] /\ req'[r].pc \notin {"commit", "insert"}
  <2>1. req'[r] = [op |-> "bind", pc |-> "write", targets |-> {k},
                   audiences |-> audiences, changes |-> 0, at |-> 0]
    BY <1>1, <1>5 DEF LoadForBind, Become, Idle
  <2>2. req'[r] \in Request /\ RequestShape(req'[r]) /\ req'[r].pc \notin {"commit", "insert"}
    BY <2>1, TimeFacts DEF Request, RequestShape
  <2> QED BY <1>1, <1>5, <2>2 DEF LoadForBind, Become
<1>6. ASSUME NEW k \in Keys, NEW c \in {{}} \cup {{d} : d \in Consumers},
             ReadKey(r, k, c)
      PROVE  /\ req'[r] \in Request /\ RequestShape(req'[r])
             /\ req' = [req EXCEPT ![r] = req'[r]] /\ req'[r].pc \notin {"commit", "insert"}
  <2>1. \E pc \in {"owner", "stamp"} :
            req'[r] = [op |-> "use", pc |-> pc, targets |-> {k},
                       audiences |-> c, changes |-> 0, at |-> 0]
    BY <1>1, <1>6 DEF ReadKey, Become, Idle
  <2>2. c \in SUBSET Consumers
    OBVIOUS
  <2>3. req'[r] \in Request /\ RequestShape(req'[r]) /\ req'[r].pc \notin {"commit", "insert"}
    BY <2>1, <2>2, TimeFacts DEF Request, RequestShape
  <2> QED BY <1>1, <1>6, <2>3 DEF ReadKey, Become
<1>7. CASE LoadOwner(r)
  <2>1. req'[r] = [op |-> "deactivate", pc |-> "lock", targets |-> Live,
                   audiences |-> {}, changes |-> owner.changes, at |-> 0]
    BY <1>1, <1>7 DEF LoadOwner, Become, Idle
  <2>2. Live \in SUBSET Keys /\ owner.changes \in 0 .. ChangeMax /\ owner.changes < ChangeMax
    BY <1>1, <1>7 DEF Live, LoadOwner
  <2>3. req'[r] \in Request /\ RequestShape(req'[r]) /\ req'[r].pc \notin {"commit", "insert"}
    BY <2>1, <2>2, TimeFacts DEF Request, RequestShape
  <2> QED BY <1>1, <1>7, <2>3 DEF LoadOwner, Become
<1>8. CASE LockOwner(r)
  <2>1. req'[r] = [req[r] EXCEPT !.pc = "commit", !.targets = KeysSelected(r)]
        /\ req[r].pc = "lock"
    BY <1>1, <1>8 DEF LockOwner, Become
  <2>2. KeysSelected(r) \in SUBSET Keys
    BY <1>1 DEF KeysSelected, Live, Request
  <2>3. req'[r] \in Request /\ RequestShape(req'[r]) /\ req'[r].pc # "insert"
    BY <1>1, <2>1, <2>2 DEF Request, RequestShape
  <2> QED BY <1>1, <1>8, <2>3 DEF LockOwner, Become
<1>9. CASE ReadOwner(r)
  <2>1. req'[r] = [req[r] EXCEPT !.pc = "stamp"] /\ req[r].pc = "owner"
    BY <1>1, <1>9 DEF ReadOwner, Become
  <2>2. req'[r] \in Request /\ RequestShape(req'[r]) /\ req'[r].pc \notin {"commit", "insert"}
    BY <1>1, <2>1 DEF Request, RequestShape
  <2> QED BY <1>1, <1>9, <2>2 DEF ReadOwner, Become
<1>10. ASSUME req' = [req EXCEPT ![r] = Idle]
       PROVE  /\ req'[r] \in Request /\ RequestShape(req'[r])
              /\ req' = [req EXCEPT ![r] = req'[r]] /\ req'[r].pc \notin {"commit", "insert"}
  BY <1>1, <1>2, <1>10 DEF Idle
<1>11. (\E k \in Keys : InsertKey(r, k)) \/ RevokeKey(r) \/ Deactivate(r)
         \/ BindAudiences(r) \/ Note(r) \/ Abandon(r)
       => req' = [req EXCEPT ![r] = Idle]
  BY DEF InsertKey, RevokeKey, Deactivate, BindAudiences, Note, Abandon, Finish, Become
<1>12. CASE Stamp(r)
  <2>1. req'[r] = [req[r] EXCEPT !.pc = "note", !.at = now + 1] /\ req[r].pc = "stamp"
    BY <1>1, <1>12 DEF Stamp, Become
  <2>2. now + 1 \in Time
    BY <1>12 DEF Stamp, Typed, Variables, Time
  <2>3. req'[r] \in Request /\ RequestShape(req'[r]) /\ req'[r].pc \notin {"commit", "insert"}
    BY <1>1, <2>1, <2>2 DEF Request, RequestShape
  <2> QED BY <1>1, <1>12, <2>3 DEF Stamp, Become
<1> QED BY <1>3, <1>4, <1>5, <1>6, <1>7, <1>8, <1>9, <1>10, <1>11, <1>12 DEF RequestStep

LEMMA KeysTyped ==
  ASSUME Typed, Next
  PROVE  keys' \in [Keys -> Key]
<1>1. keys \in [Keys -> Key]
  BY DEF Typed, Variables
<1>2. \A k \in Keys : /\ Revoked(k) \in Key
                      /\ [keys[k] EXCEPT !.state = "purged"] \in Key
  BY <1>1 DEF Revoked, Key
<1>3. ASSUME NEW r \in Requests, RequestStep(r)
      PROVE  keys' \in [Keys -> Key]
  <2>1. req[r] \in Request /\ RequestShape(req[r])
    BY DEF Typed, Variables
  <2>2. ASSUME NEW k \in Keys, InsertKey(r, k) PROVE keys' \in [Keys -> Key]
    <3>1. [Unissued EXCEPT !.state = "live",
                           !.audiences = BoundAtIssue(req[r].audiences)] \in Key
      BY <2>1, TimeFacts DEF Unissued, Key, BoundAtIssue, Request
    <3> QED BY <1>1, <2>2, <3>1 DEF InsertKey
  <2>3. CASE RevokeKey(r)
    BY <1>1, <1>2, <2>1, <2>3, SingleTarget DEF RevokeKey
  <2>4. CASE Deactivate(r)
    BY <1>1, <1>2, <2>4 DEF Deactivate
  <2>5. CASE BindAudiences(r)
    <3> DEFINE k == CHOOSE x \in req[r].targets : TRUE
    <3>1. k \in Keys /\ req[r].audiences \subseteq Consumers
      BY <2>1, <2>5, SingleTarget DEF BindAudiences, Request
    <3>2. keys' = [keys EXCEPT ![k] = [keys[k] EXCEPT !.audiences = @ \cup req[r].audiences]]
      BY <2>5 DEF BindAudiences
    <3> HIDE DEF k
    <3>3. [keys[k] EXCEPT !.audiences = @ \cup req[r].audiences] \in Key
      BY <1>1, <3>1 DEF Key
    <3> QED BY <1>1, <3>2, <3>3
  <2>6. CASE UNCHANGED keys
    BY <1>1, <2>6
  <2> QED BY <1>3, <2>2, <2>3, <2>4, <2>5, <2>6
          DEF RequestStep, CountKeys, LoadKey, LoadForBind, ReadKey, LoadOwner, LockOwner,
              ReadOwner, Stamp, Note, Abandon
<1>4. CASE TableStep
  <2>1. CASE Reactivate
    BY <1>1, <2>1 DEF Reactivate
  <2>2. CASE DeleteOwner
    BY <1>1, <1>2, <2>2 DEF DeleteOwner
  <2>3. ASSUME NEW k \in Keys, Expire(k) PROVE keys' \in [Keys -> Key]
    BY <1>1, <2>3 DEF Expire, Key
  <2>4. ASSUME NEW batch \in SUBSET Keys, PurgeKeys(batch) PROVE keys' \in [Keys -> Key]
    BY <1>1, <1>2, <2>4 DEF PurgeKeys
  <2> QED BY <1>4, <2>1, <2>2, <2>3, <2>4 DEF TableStep
<1>5. ASSUME NEW f \in Flushers, FlushStep(f)
      PROVE  keys' \in [Keys -> Key]
  <2>1. flush[f] \in Flush
    BY DEF Typed, Variables
  <2>2. CASE CommitRows(f)
    <3>1. \A k \in Keys : flush[f].data[k] \in Time
      BY <2>1 DEF Flush
    <3>2. \A k \in Keys : Touched(k, flush[f].data[k]) \in Key
      BY <1>1, <3>1 DEF Touched, Key
    <3> QED BY <1>1, <2>2, <3>2 DEF CommitRows
  <2>3. CASE UNCHANGED keys
    BY <1>1, <2>3
  <2> QED BY <1>5, <2>2, <2>3 DEF FlushStep, TakeHash, LoadRows, FailRows, CrashFlush
<1> QED BY <1>3, <1>4, <1>5, NextSteps

LEMMA FlushTyped ==
  ASSUME Typed, NEW f \in Flushers, FlushStep(f)
  PROVE  /\ flush'[f] \in Flush /\ FlushShape(flush'[f])
         /\ flush' = [flush EXCEPT ![f] = flush'[f]]
         /\ hash' \in [Keys -> Time] /\ lost' \in [Keys -> Time] /\ crashes' \in 0 .. CrashBound
         /\ UNCHANGED <<owner, disarmed, noted, now, req>>
<1>1. /\ flush \in [Flushers -> Flush] /\ flush[f] \in Flush /\ FlushShape(flush[f])
      /\ hash \in [Keys -> Time] /\ lost \in [Keys -> Time] /\ crashes \in 0 .. CrashBound
  BY DEF Typed, Variables
<1>2. NoFlush \in Flush /\ FlushShape(NoFlush)
  BY TimeFacts DEF NoFlush, Flush, FlushShape
<1>3. UNCHANGED <<owner, disarmed, noted, now, req>>
  BY DEF FlushStep, TakeHash, LoadRows, CommitRows, FailRows, CrashFlush
<1>4. CASE TakeHash(f)
  <2>1. flush'[f] = [pc |-> "load", data |-> hash, writes |-> {}]
    BY <1>1, <1>4 DEF TakeHash
  <2>2. flush'[f] \in Flush /\ FlushShape(flush'[f])
    BY <1>1, <2>1 DEF Flush, FlushShape, NoFlush
  <2> QED BY <1>1, <1>3, <1>4, <2>2, TimeFacts DEF TakeHash
<1>5. CASE LoadRows(f)
  <2> DEFINE W == NewerThanRow(flush[f].data)
  <2>1. flush' = [flush EXCEPT ![f] = [flush[f] EXCEPT !.pc = "commit", !.writes = W]]
    BY <1>1, <1>5 DEF LoadRows
  <2>2. W \in SUBSET Keys
    BY DEF NewerThanRow
  <2> HIDE DEF W
  <2>3. flush'[f] = [flush[f] EXCEPT !.pc = "commit", !.writes = W]
    BY <1>1, <2>1
  <2>4. flush'[f] \in Flush /\ FlushShape(flush'[f])
    BY <1>1, <2>2, <2>3 DEF Flush, FlushShape, NoFlush
  <2> QED BY <1>1, <1>3, <1>5, <2>1, <2>3, <2>4 DEF LoadRows
<1>6. CASE CommitRows(f) \/ FailRows(f) \/ CrashFlush(f)
  <2>1. flush' = [flush EXCEPT ![f] = NoFlush] /\ hash' = hash
    BY <1>6 DEF CommitRows, FailRows, CrashFlush
  <2>2. lost' \in [Keys -> Time]
    <3>1. \A k \in Keys : Later(lost[k], flush[f].data[k]) \in Time
      BY LaterFacts DEF Typed, Variables, Flush
    <3> QED BY <1>6, <3>1 DEF CommitRows, FailRows, CrashFlush, LostWith, Typed, Variables
  <2>3. crashes' \in 0 .. CrashBound
    BY <1>1, <1>6 DEF CommitRows, FailRows, CrashFlush
  <2> QED BY <1>1, <1>2, <1>3, <2>1, <2>2, <2>3
<1> QED BY <1>4, <1>5, <1>6 DEF FlushStep

LEMMA TypedStep ==
  ASSUME Typed, [Next]_vars
  PROVE  Typed'
<1>1. CASE UNCHANGED vars
  BY <1>1 DEF vars, Typed, Variables, RequestShape, FlushShape, NoFlush
<1>2. ASSUME NEW r \in Requests, RequestStep(r) PROVE Typed'
  <2>1. /\ req'[r] \in Request /\ RequestShape(req'[r])
        /\ req' = [req EXCEPT ![r] = req'[r]]
        /\ req'[r].pc = "commit" => LockOwner(r)
    BY <1>2, RequestTyped
  <2>2. req' \in [Requests -> Request] /\ \A s \in Requests : s # r => req'[s] = req[s]
    BY <2>1 DEF Typed, Variables
  <2>3. \A s \in Requests : RequestShape(req[s])'
    BY <2>1, <2>2 DEF Typed, RequestShape
  <2>4. req'[r].pc = "commit" => \A s \in Requests : req[s].pc # "commit"
    BY <2>1 DEF LockOwner, OwnerRowFree, OwnerLocked, Typed, RequestShape
  <2>5. \A s, t \in Requests : req'[s].pc = "commit" /\ req'[t].pc = "commit" => s = t
    BY <2>2, <2>4 DEF Typed
  <2>6. keys' \in [Keys -> Key]
    BY <1>2, KeysTyped, NextSteps
  <2>7. UNCHANGED <<flush, crashes>>
    BY <1>2 DEF RequestStep, CountKeys, InsertKey, LoadKey, LoadForBind, ReadKey, RevokeKey,
                LoadOwner, LockOwner, Deactivate, BindAudiences, ReadOwner, Stamp, Note, Abandon,
                redis
  <2>8. /\ owner' \in [exists : BOOLEAN, active : BOOLEAN, changes : 0 .. ChangeMax]
        /\ disarmed' \subseteq Keys
    <3>1. req[r] \in Request /\ RequestShape(req[r])
      BY DEF Typed, Variables
    <3>2. CASE Deactivate(r)
      <4>1. req[r].op = "deactivate" /\ owner.changes < ChangeMax
        BY <3>1, <3>2 DEF Deactivate, RequestShape
      <4>2. /\ owner.exists \in BOOLEAN /\ owner.changes \in 0 .. ChangeMax
            /\ owner.changes + 1 \in 0 .. ChangeMax
        BY <4>1 DEF Typed, Variables
      <4>3. owner' = [exists |-> owner.exists, active |-> FALSE,
                      changes |-> owner.changes + 1]
        BY <3>2 DEF Deactivate, Typed, Variables
      <4>4. disarmed' \subseteq Keys
        BY <3>2 DEF Deactivate, Live, Typed, Variables
      <4> QED BY <4>2, <4>3, <4>4
    <3>3. CASE RevokeKey(r)
      BY <3>1, <3>3, SingleTarget DEF RevokeKey, Typed, Variables
    <3>4. CASE UNCHANGED <<owner, disarmed>>
      BY <3>4 DEF Typed, Variables
    <3> QED BY <1>2, <3>2, <3>3, <3>4
            DEF RequestStep, CountKeys, InsertKey, LoadKey, LoadForBind, ReadKey, LoadOwner,
                LockOwner, BindAudiences, ReadOwner, Stamp, Note, Abandon
  <2>9. /\ hash' \in [Keys -> Time] /\ noted' \in [Keys -> Time]
        /\ lost' \in [Keys -> Time] /\ now' \in Time
    <3>1. CASE Stamp(r)
      <4>1. now + 1 \in Time /\ now' = now + 1
        BY <3>1 DEF Stamp, Typed, Variables, Time
      <4> QED BY <3>1, <4>1 DEF Stamp, Typed, Variables
    <3>2. CASE Note(r)
      <4>1. PICK k \in Keys : k = CHOOSE x \in req[r].targets : TRUE
        BY <3>2, SingleTarget DEF Note, Typed, Variables
      <4>2. req[r].at \in Time /\ hash[k] \in Time /\ noted[k] \in Time /\ lost[k] \in Time
        BY DEF Typed, Variables, Request
      <4>3. Later(noted[k], req[r].at) \in Time /\ Later(lost[k], hash[k]) \in Time
        BY <4>2, LaterFacts
      <4> QED BY <3>2, <4>1, <4>2, <4>3 DEF Note, Typed, Variables
    <3>3. CASE UNCHANGED <<hash, noted, lost, now>>
      BY <3>3 DEF Typed, Variables
    <3> QED BY <1>2, <3>1, <3>2, <3>3
            DEF RequestStep, CountKeys, InsertKey, LoadKey, LoadForBind, ReadKey, RevokeKey,
                LoadOwner, LockOwner, Deactivate, BindAudiences, ReadOwner, Abandon, redis
  <2> QED BY <2>2, <2>3, <2>5, <2>6, <2>7, <2>8, <2>9
          DEF Typed, Variables, FlushShape, NoFlush
<1>3. CASE TableStep
  <2>1. keys' \in [Keys -> Key]
    BY <1>3, KeysTyped, NextSteps
  <2>2. UNCHANGED <<hash, noted, lost, now, crashes, flush, disarmed, req>>
    BY <1>3 DEF TableStep, Reactivate, DeleteOwner, Expire, PurgeKeys, redis
  <2>3. owner' \in [exists : BOOLEAN, active : BOOLEAN, changes : 0 .. ChangeMax]
    <3>1. CASE Reactivate
      <4>1. /\ owner.exists \in BOOLEAN /\ owner.changes + 1 \in 0 .. ChangeMax
        BY <3>1 DEF Reactivate, Typed, Variables
      <4>2. owner' = [exists |-> owner.exists, active |-> TRUE,
                      changes |-> owner.changes + 1]
        BY <3>1 DEF Reactivate, Typed, Variables
      <4> QED BY <4>1, <4>2
    <3>2. CASE DeleteOwner
      BY <3>2 DEF DeleteOwner, Typed, Variables
    <3>3. CASE UNCHANGED owner
      BY <3>3 DEF Typed, Variables
    <3> QED BY <1>3, <3>1, <3>2, <3>3 DEF TableStep, Expire, PurgeKeys
  <2> QED BY <2>1, <2>2, <2>3 DEF Typed, Variables, RequestShape, FlushShape, NoFlush
<1>4. ASSUME NEW f \in Flushers, FlushStep(f) PROVE Typed'
  <2>1. /\ flush'[f] \in Flush /\ FlushShape(flush'[f])
        /\ flush' = [flush EXCEPT ![f] = flush'[f]]
        /\ hash' \in [Keys -> Time] /\ lost' \in [Keys -> Time] /\ crashes' \in 0 .. CrashBound
        /\ UNCHANGED <<owner, disarmed, noted, now, req>>
    BY <1>4, FlushTyped
  <2>2. keys' \in [Keys -> Key]
    BY <1>4, KeysTyped, NextSteps
  <2>3. flush' \in [Flushers -> Flush] /\ \A g \in Flushers : g # f => flush'[g] = flush[g]
    BY <2>1 DEF Typed, Variables
  <2> QED BY <2>1, <2>2, <2>3 DEF Typed, Variables, RequestShape, FlushShape, NoFlush
<1> QED BY <1>1, <1>2, <1>3, <1>4, NextSteps

(* Requests and flush loops keep their types and places.                    *)
THEOREM TypedHolds == Spec => []Typed
BY InitTyped, TypedStep, PTL DEF Spec

(* Every variable has its type, and one deactivation at a time holds the    *)
(* owner's row (SELECT ... FOR UPDATE in revoke_all_user_keys_in_tx).       *)
THEOREM TypeCorrect == Spec => []TypeOK
<1>1. Typed => TypeOK
  <2> DEFINE Committing == {r \in Requests : req[r].pc = "commit"}
  <2> SUFFICES ASSUME Typed PROVE Cardinality(Committing) <= 1
    BY DEF Typed, Variables, TypeOK
  <2>1. CASE Committing = {}
    BY <2>1, FS_EmptySet
  <2>2. CASE Committing # {}
    <3>1. PICK r \in Committing : TRUE
      BY <2>2
    <3>2. Committing = {r}
      BY <3>1 DEF Typed
    <3> HIDE DEF Committing
    <3> QED BY <3>2, FS_Singleton
  <2> QED BY <2>1, <2>2
<1> QED BY <1>1, TypedHolds, PTL

-----------------------------------------------------------------------------
(* What a step may do to a key *)

(* Every step but its own issue leaves a key dead if it was, expired if it  *)
(* was, and issued or not as it was; only a binding changes its audiences,  *)
(* only a flush its last use.                                               *)
Kept(k) ==
    /\ keys'[k].state = "live" => keys[k].state = "live"
    /\ keys'[k].state \in {"live", "revoked"} => Issued(k)
    /\ keys'[k].state = "none" <=> keys[k].state = "none"
    /\ keys[k].expired => keys'[k].expired
    /\ \/ keys'[k].audiences = keys[k].audiences
       \/ \E r \in Requests : BindAudiences(r) /\ k \in req[r].targets
    /\ keys'[k].used = keys[k].used \/ \E f \in Flushers : CommitRows(f)

LEMMA KeySteps ==
  ASSUME Typed, [Next]_vars, NEW k \in Keys
  PROVE  Kept(k) \/ \E r \in Requests : InsertKey(r, k)
<1>1. keys \in [Keys -> Key] /\ keys[k] \in Key
  BY DEF Typed, Variables
<1>2. ASSUME keys'[k] = keys[k] PROVE Kept(k)
  BY <1>2 DEF Kept, Issued
<1>3. CASE UNCHANGED vars
  BY <1>2, <1>3 DEF vars
<1>4. ASSUME NEW r \in Requests, RequestStep(r), ~ InsertKey(r, k)
      PROVE  Kept(k)
  <2>1. req[r] \in Request /\ RequestShape(req[r])
    BY DEF Typed, Variables
  <2>2. CASE \E j \in Keys : InsertKey(r, j)
    <3>1. PICK j \in Keys : InsertKey(r, j)
      BY <2>2
    <3> QED BY <1>1, <1>2, <1>4, <3>1 DEF InsertKey
  <2>3. CASE RevokeKey(r)
    <3> DEFINE j == CHOOSE x \in req[r].targets : TRUE
    <3>1. j \in Keys /\ Issued(j)
      BY <2>1, <2>3, SingleTarget DEF RevokeKey
    <3>2. keys' = [keys EXCEPT ![j] = [keys[j] EXCEPT !.state = "revoked"]]
      BY <2>3 DEF RevokeKey, Revoked
    <3> HIDE DEF j
    <3>3. keys'[k] = IF k = j THEN [keys[k] EXCEPT !.state = "revoked"] ELSE keys[k]
      BY <1>1, <3>1, <3>2
    <3> QED BY <1>1, <1>2, <3>1, <3>3 DEF Kept, Issued, Key
  <2>4. CASE Deactivate(r)
    BY <1>1, <1>2, <2>4 DEF Deactivate, Revoked, Kept, Issued, Key
  <2>5. CASE BindAudiences(r)
    <3> DEFINE j == CHOOSE x \in req[r].targets : TRUE
               A == keys[j].audiences \cup req[r].audiences
    <3>1. j \in Keys /\ req[r].targets = {j}
      BY <2>1, <2>5, SingleTarget DEF BindAudiences
    <3>2. keys' = [keys EXCEPT ![j].audiences = A]
      BY <2>5 DEF BindAudiences
    <3> HIDE DEF j, A
    <3>3. keys'[k] = IF k = j THEN [keys[k] EXCEPT !.audiences = A] ELSE keys[k]
      BY <1>1, <3>1, <3>2
    <3>4. CASE k = j
      <4>1. keys'[k].state = keys[k].state /\ keys'[k].expired = keys[k].expired
            /\ keys'[k].used = keys[k].used
        BY <1>1, <3>3, <3>4 DEF Key
      <4> QED BY <2>5, <3>1, <3>4, <4>1 DEF Kept, Issued
    <3> QED BY <1>2, <3>3, <3>4
  <2> QED BY <1>2, <1>4, <2>2, <2>3, <2>4, <2>5
          DEF RequestStep, CountKeys, LoadKey, LoadForBind, ReadKey, LoadOwner, LockOwner,
              ReadOwner, Stamp, Note, Abandon
<1>5. CASE TableStep
  <2>1. CASE Reactivate
    BY <1>2, <2>1 DEF Reactivate
  <2>2. CASE DeleteOwner
    BY <1>1, <1>2, <2>2 DEF DeleteOwner, Kept, Issued, Key
  <2>3. ASSUME NEW j \in Keys, Expire(j) PROVE Kept(k)
    BY <1>1, <1>2, <2>3 DEF Expire, Kept, Issued, Key
  <2>4. ASSUME NEW batch \in SUBSET Keys, PurgeKeys(batch) PROVE Kept(k)
    BY <1>1, <1>2, <2>4 DEF PurgeKeys, Purgeable, Kept, Issued, Key
  <2> QED BY <1>5, <2>1, <2>2, <2>3, <2>4 DEF TableStep
<1>6. ASSUME NEW f \in Flushers, FlushStep(f) PROVE Kept(k)
  <2>1. CASE CommitRows(f)
    <3>1. CASE k \in flush[f].writes
      <4>1. keys'[k] = [keys[k] EXCEPT !.used = flush[f].data[k]]
        BY <2>1, <3>1 DEF CommitRows, Touched
      <4>2. keys'[k].state = keys[k].state /\ keys'[k].expired = keys[k].expired
            /\ keys'[k].audiences = keys[k].audiences
        BY <1>1, <4>1 DEF Key
      <4> QED BY <2>1, <4>2 DEF Kept, Issued
    <3>2. CASE k \notin flush[f].writes
      BY <1>2, <2>1, <3>2 DEF CommitRows
    <3> QED BY <3>1, <3>2
  <2>2. CASE UNCHANGED keys
    BY <1>2, <2>2
  <2> QED BY <1>6, <2>1, <2>2 DEF FlushStep, TakeHash, LoadRows, FailRows, CrashFlush
<1> QED BY <1>3, <1>4, <1>5, <1>6, NextSteps

(* The key that create_api_key inserts. *)
LEMMA InsertedKey ==
  ASSUME Typed, NEW r \in Requests, NEW k \in Keys, InsertKey(r, k)
  PROVE  /\ keys'[k].state = "live" /\ ~ keys'[k].expired
         /\ keys'[k].audiences = req[r].audiences
         /\ keys'[k].used = 0
         /\ \A j \in Keys : j # k => keys'[j] = keys[j]
         /\ req' = [req EXCEPT ![r] = Idle]
         /\ UNCHANGED <<disarmed, redis>>
BY DEF InsertKey, Typed, Variables, Unissued, BoundAtIssue, Finish, Become

-----------------------------------------------------------------------------
(* The cap *)

LEMMA Finite ==
  /\ IsFiniteSet(Requests) /\ Cardinality(Requests) \in Nat
  /\ IsFiniteSet(Creating) /\ Cardinality(Creating) \in Nat
  /\ Cardinality(Creating) <= Cardinality(Requests)
  /\ IsFiniteSet({k \in Keys : Usable(k)})
  /\ Cardinality({k \in Keys : Usable(k)}) \in Nat
<1>1. IsFiniteSet(Keys) /\ IsFiniteSet(Requests)
  BY FiniteAssumption DEF FiniteAssumption
<1>2. {k \in Keys : Usable(k)} \in SUBSET Keys /\ Creating \in SUBSET Requests
  BY DEF Creating
<1> QED BY <1>1, <1>2, FS_Subset, FS_CardinalityType

(* The count and the insert of create_api_key are apart: each creation      *)
(* between them may push the keys one beyond the cap, nothing else can.     *)
LEMMA CapStep ==
  ASSUME Typed, CapExceededOnlyByOverlap, [Next]_vars
  PROVE  CapExceededOnlyByOverlap'
<1> DEFINE U == {k \in Keys : Usable(k)}
           C == Creating
           V == {k \in Keys : Usable(k)'}
<1>1. /\ IsFiniteSet(U) /\ IsFiniteSet(V) /\ IsFiniteSet(C) /\ IsFiniteSet(C')
      /\ Cardinality(U) \in Nat /\ Cardinality(V) \in Nat
      /\ Cardinality(C) \in Nat /\ Cardinality(C') \in Nat /\ Cardinality(Requests) \in Nat
      /\ Cardinality(C') <= Cardinality(Requests)
  <2>1. IsFiniteSet(Keys) /\ IsFiniteSet(Requests)
    BY FiniteAssumption DEF FiniteAssumption
  <2>2. V \in SUBSET Keys /\ C' \in SUBSET Requests
    BY DEF Creating
  <2>3. IsFiniteSet(V) /\ IsFiniteSet(C') /\ Cardinality(C') <= Cardinality(Requests)
    BY <2>1, <2>2, FS_Subset
  <2> HIDE DEF U, C, V
  <2> QED BY <2>1, <2>3, Finite, FS_CardinalityType DEF U, C
<1>2. SUFFICES Cardinality(V) + Cardinality(C') <= Cap - 1 + Cardinality(Requests)
  BY DEF CapExceededOnlyByOverlap
<1>3. Cardinality(U) + Cardinality(C) <= Cap - 1 + Cardinality(Requests)
  BY DEF CapExceededOnlyByOverlap
<1>4. CASE \E r \in Requests, k \in Keys : InsertKey(r, k)
  <2>1. PICK r \in Requests, k \in Keys : InsertKey(r, k)
    BY <1>4
  <2>2. V \subseteq U \cup {k}
    BY <2>1, InsertedKey DEF Usable
  <2>3. r \in C /\ C' \subseteq C \ {r}
    <3>1. req[r].pc = "insert" /\ req' = [req EXCEPT ![r] = Idle] /\ Idle.pc # "insert"
      BY <2>1, InsertedKey DEF InsertKey, Idle
    <3>2. \A s \in Requests : req'[s] = IF s = r THEN Idle ELSE req[s]
      BY <3>1 DEF Typed, Variables
    <3> QED BY <3>1, <3>2 DEF Creating
  <2> HIDE DEF U, C, V
  <2>4. /\ IsFiniteSet(U \cup {k})
        /\ Cardinality(U \cup {k}) = IF k \in U THEN Cardinality(U) ELSE Cardinality(U) + 1
    BY <1>1, FS_AddElement
  <2>5. IsFiniteSet(C \ {r}) /\ Cardinality(C \ {r}) = Cardinality(C) - 1
    BY <1>1, <2>3, FS_RemoveElement
  <2>6. Cardinality(V) <= Cardinality(U \cup {k}) /\ Cardinality(C') <= Cardinality(C \ {r})
    BY <2>2, <2>3, <2>4, <2>5, FS_Subset
  <2> QED BY <1>1, <1>3, <2>4, <2>5, <2>6
<1>5. CASE ~ \E r \in Requests, k \in Keys : InsertKey(r, k)
  <2>1. V \subseteq U
    <3>1. \A k \in Keys : Kept(k)
      BY <1>5, KeySteps
    <3> QED BY <3>1 DEF Kept, Usable
  <2>2. Cardinality(V) <= Cardinality(U)
    <3> HIDE DEF U, V
    <3> QED BY <1>1, <2>1, FS_Subset
  <2>3. CASE \E r \in Requests, audiences \in SUBSET Consumers : CountKeys(r, audiences)
    <3>1. Cardinality(U) < Cap
      BY <2>3 DEF CountKeys, CapPassed
    <3> HIDE DEF U, V, C
    <3> QED BY <1>1, <2>2, <3>1
  <2>4. CASE ~ \E r \in Requests, audiences \in SUBSET Consumers : CountKeys(r, audiences)
    <3>1. C' \subseteq C
      <4>1. CASE UNCHANGED req
        BY <4>1 DEF Creating
      <4>2. ASSUME NEW r \in Requests, RequestStep(r) PROVE C' \subseteq C
        <5>1. /\ req' = [req EXCEPT ![r] = req'[r]] /\ req'[r].pc # "insert"
          BY <2>4, <4>2, RequestTyped
        <5>2. \A s \in Requests : s # r => req'[s] = req[s]
          BY <5>1 DEF Typed, Variables
        <5> QED BY <5>1, <5>2 DEF Creating
      <4> QED BY <4>1, <4>2, NextSteps
              DEF vars, TableStep, Reactivate, DeleteOwner, Expire, PurgeKeys, FlushStep,
                  TakeHash, LoadRows, CommitRows, FailRows, CrashFlush
    <3> HIDE DEF U, V, C
    <3>2. Cardinality(C') <= Cardinality(C)
      BY <1>1, <3>1, FS_Subset
    <3> QED BY <1>1, <1>3, <2>2, <3>2
  <2> QED BY <2>3, <2>4
<1> QED BY <1>4, <1>5

(* However creations interleave, the cap is exceeded by at most the         *)
(* creations that can overlap (create_api_key counts and then inserts).     *)
THEOREM CapHolds == Spec => []CapExceededOnlyByOverlap
<1>1. Init => CapExceededOnlyByOverlap
  <2> SUFFICES ASSUME Init PROVE CapExceededOnlyByOverlap
    OBVIOUS
  <2>1. {k \in Keys : Usable(k)} = {} /\ Creating = {}
    BY DEF Init, Usable, Unissued, Creating, Idle
  <2> QED BY <2>1, FS_EmptySet, Finite DEF CapExceededOnlyByOverlap
<1> QED BY <1>1, CapStep, TypedHolds, PTL DEF Spec

-----------------------------------------------------------------------------
(* Disarmed keys *)

(* A deactivation stays as it was, or has just loaded or locked the owner.  *)
LEMMA DeactivatingStep ==
  ASSUME Typed, [Next]_vars, NEW q \in Requests, req'[q].op = "deactivate"
  PROVE  \/ req'[q] = req[q]
         \/ LoadOwner(q) /\ req'[q].targets = Live
         \/ LockOwner(q) /\ req[q].op = "deactivate" /\ req'[q].targets = KeysSelected(q)
<1>1. CASE UNCHANGED req
  BY <1>1
<1>2. ASSUME NEW r \in Requests, RequestStep(r), r # q
      PROVE  req'[q] = req[q]
  <2>1. req' = [req EXCEPT ![r] = req'[r]]
    BY <1>2, RequestTyped
  <2> QED BY <1>2, <2>1 DEF Typed, Variables
<1>3. CASE RequestStep(q)
  <2>1. /\ req \in [Requests -> Request] /\ req[q] \in Request /\ RequestShape(req[q])
    BY DEF Typed, Variables
  <2>2. ASSUME NEW audiences \in SUBSET Consumers, CountKeys(q, audiences) PROVE FALSE
    BY <2>1, <2>2 DEF CountKeys, Become, Idle
  <2>3. ASSUME NEW k \in Keys, LoadKey(q, k) PROVE FALSE
    BY <2>1, <2>3 DEF LoadKey, Become, Idle
  <2>4. ASSUME NEW k \in Keys, NEW audiences \in SUBSET Consumers,
               LoadForBind(q, k, audiences)
        PROVE  FALSE
    BY <2>1, <2>4 DEF LoadForBind, Become, Idle
  <2>5. ASSUME NEW k \in Keys, NEW c \in {{}} \cup {{d} : d \in Consumers},
               ReadKey(q, k, c)
        PROVE  FALSE
    BY <2>1, <2>5 DEF ReadKey, Become, Idle
  <2>6. ASSUME LoadOwner(q) PROVE req'[q].targets = Live
    BY <2>1, <2>6 DEF LoadOwner, Become, Idle
  <2>7. ASSUME LockOwner(q)
        PROVE  req[q].op = "deactivate" /\ req'[q].targets = KeysSelected(q)
    BY <2>1, <2>7 DEF LockOwner, Become, RequestShape, Request
  <2>8. ASSUME ReadOwner(q) \/ Stamp(q) PROVE FALSE
    <3>1. req[q].op = "use"
      BY <2>1, <2>8 DEF ReadOwner, Stamp, RequestShape
    <3>2. req'[q].op = req[q].op
      <4> DEFINE q1 == [req[q] EXCEPT !.pc = "stamp"]
                 q2 == [req[q] EXCEPT !.pc = "note", !.at = now + 1]
      <4>1. q1.op = req[q].op /\ q2.op = req[q].op
        BY <2>1 DEF Request
      <4>2. \E p \in {q1, q2} : req' = [req EXCEPT ![q] = p]
        BY <2>8 DEF ReadOwner, Stamp, Become
      <4> HIDE DEF q1, q2
      <4> QED BY <2>1, <4>1, <4>2
    <3> QED BY <3>1, <3>2
  <2>9. (\E k \in Keys : InsertKey(q, k)) \/ RevokeKey(q) \/ Deactivate(q)
          \/ BindAudiences(q) \/ Note(q) \/ Abandon(q)
        => req' = [req EXCEPT ![q] = Idle]
    BY DEF InsertKey, RevokeKey, Deactivate, BindAudiences, Note, Abandon, Finish, Become
  <2>10. req' # [req EXCEPT ![q] = Idle]
    BY <2>1 DEF Idle
  <2> QED BY <1>3, <2>2, <2>3, <2>4, <2>5, <2>6, <2>7, <2>8, <2>9, <2>10 DEF RequestStep
<1> QED BY <1>1, <1>2, <1>3, NextSteps
        DEF vars, TableStep, Reactivate, DeleteOwner, Expire, PurgeKeys, FlushStep,
            TakeHash, LoadRows, CommitRows, FailRows, CrashFlush

LEMMA DisarmedStep ==
  ASSUME Typed, Disarmed, [Next]_vars, [IssueSparesDeactivation]_vars
  PROVE  Disarmed'
<1>1. CASE \E r \in Requests, k \in Keys : InsertKey(r, k)
  <2>1. PICK r \in Requests, k \in Keys : InsertKey(r, k)
    BY <1>1
  <2>2. /\ \A j \in Keys : j # k => keys'[j] = keys[j]
        /\ keys'[k].state = "live" /\ keys[k].state = "none" /\ UNCHANGED disarmed
    BY <2>1, InsertedKey DEF InsertKey
  <2>3. k \notin disarmed
    BY <2>2 DEF Disarmed
  <2>4. \A q \in Requests : ~ Selecting(req'[q])
    <3>1. keys' # keys
      BY <2>2
    <3>2. \A q \in Requests : ~ Selecting(req[q])
      <4>1. Snapshot => \A q \in Requests : req[q].op # "deactivate"
        BY <2>1, <3>1 DEF IssueSparesDeactivation, vars
      <4>2. \A q \in Requests : ~ (req[q].op = "deactivate" /\ req[q].pc = "commit")
        BY <2>1 DEF InsertKey, OwnerRowFree, OwnerLocked
      <4> QED BY <4>1, <4>2 DEF Selecting
    <3> QED BY <2>1, <3>2, InsertedKey DEF Typed, Variables, Idle, Selecting
  <2>5. disarmed \subseteq Keys
    BY DEF Typed, Variables
  <2> QED BY <2>2, <2>3, <2>4, <2>5 DEF Disarmed, DisarmedStaysDisarmed, Live
<1>2. CASE ~ \E r \in Requests, k \in Keys : InsertKey(r, k)
  <2>1. \A k \in Keys : Kept(k)
    BY <1>2, KeySteps
  <2>2. Live' \subseteq Live
    BY <2>1 DEF Kept, Live
  <2>3. disarmed \subseteq Keys /\ \A k \in disarmed : keys'[k].state # "none"
    BY <2>1 DEF Kept, Disarmed, Typed, Variables
  <2>4. ASSUME NEW q \in Requests, Selecting(req'[q])
        PROVE  Live' \subseteq req'[q].targets
    <3>1. CASE req'[q] = req[q]
      BY <2>2, <2>4, <3>1 DEF Disarmed
    <3>2. CASE LoadOwner(q) /\ req'[q].targets = Live
      BY <2>2, <3>2
    <3>3. CASE LockOwner(q) /\ req[q].op = "deactivate" /\ req'[q].targets = KeysSelected(q)
      <4>1. Live \subseteq KeysSelected(q)
        BY <3>3 DEF KeysSelected, Disarmed, Selecting
      <4> QED BY <2>2, <3>3, <4>1
    <3>4. req'[q].op = "deactivate"
      BY <2>4 DEF Selecting
    <3> QED BY <3>1, <3>2, <3>3, <3>4, DeactivatingStep
  <2>5. /\ disarmed' \cap Live' = {}
        /\ \A k \in disarmed' : keys'[k].state # "none"
    <3>1. CASE UNCHANGED disarmed
      BY <2>2, <2>3, <3>1 DEF Disarmed, DisarmedStaysDisarmed
    <3>2. ASSUME NEW r \in Requests, Deactivate(r)
          PROVE  /\ disarmed' \cap Live' = {}
                 /\ \A k \in disarmed' : keys'[k].state # "none"
      <4>1. Live \subseteq req[r].targets /\ disarmed' = disarmed \cup Live
        BY <3>2 DEF Deactivate, Disarmed, Selecting, Typed, RequestShape
      <4>2. Live' = {}
        <5>1. SUFFICES ASSUME NEW k \in Live' PROVE FALSE
          OBVIOUS
        <5>2. k \in Keys /\ k \in req[r].targets /\ keys'[k].state = "live"
          BY <2>2, <4>1 DEF Live
        <5> QED BY <3>2, <5>2 DEF Deactivate, Revoked, Typed, Variables, Key
      <4>3. \A k \in Live : keys'[k].state # "none"
        BY <2>1 DEF Kept, Live
      <4> QED BY <2>3, <4>1, <4>2, <4>3
    <3>3. ASSUME NEW r \in Requests, RevokeKey(r)
          PROVE  /\ disarmed' \cap Live' = {}
                 /\ \A k \in disarmed' : keys'[k].state # "none"
      <4>1. PICK k \in Keys : k = CHOOSE x \in req[r].targets : TRUE
        BY <3>3, SingleTarget DEF RevokeKey, Typed, Variables
      <4>2. keys' = [keys EXCEPT ![k] = Revoked(k)] /\ disarmed' = disarmed \cup {k}
        BY <3>3, <4>1 DEF RevokeKey
      <4>3. keys'[k].state = "revoked"
        BY <4>2 DEF Revoked, Typed, Variables, Key
      <4> QED BY <2>2, <2>3, <4>2, <4>3 DEF Disarmed, DisarmedStaysDisarmed, Live
    <3> QED BY <1>2, <3>1, <3>2, <3>3, NextSteps
            DEF vars, TableStep, Reactivate, DeleteOwner, Expire, PurgeKeys, FlushStep,
                TakeHash, LoadRows, CommitRows, FailRows, CrashFlush, RequestStep, CountKeys,
                LoadKey, LoadForBind, ReadKey, LoadOwner, LockOwner, BindAudiences, ReadOwner,
                Stamp, Note, Abandon
  <2> QED BY <2>4, <2>5 DEF Disarmed, DisarmedStaysDisarmed
<1> QED BY <1>1, <1>2

(* On every engine a key that its owner's deactivation or a revocation      *)
(* disarmed is never live again, if create_api_key issues no key while a    *)
(* deactivation is between its first read of the owner and its commit;      *)
(* without snapshots nothing is assumed.  The code lets a key in between    *)
(* the read and the lock, and with snapshots revoke_all_user_keys_in_tx     *)
(* then misses it (ApiKeys_rearm.cfg).                                      *)
THEOREM DisarmedBehindDeactivation ==
  Spec /\ IssueWaitsForDeactivation => []DisarmedStaysDisarmed
<1>1. Init => Disarmed
  BY DEF Init, Disarmed, DisarmedStaysDisarmed, Selecting, Idle
<1>2. Typed /\ Disarmed /\ [Next]_vars /\ [IssueSparesDeactivation]_vars => Disarmed'
  BY DisarmedStep
<1>3. Disarmed => DisarmedStaysDisarmed
  BY DEF Disarmed
<1> QED BY <1>1, <1>2, <1>3, TypedHolds, PTL DEF Spec, IssueWaitsForDeactivation

(* Where plain reads are not snapshots (PostgreSQL), a key that its owner's *)
(* deactivation or a revocation disarmed is never live again: the lock on   *)
(* the owner's row keeps new keys out between the selection and the commit  *)
(* of revoke_all_user_keys_in_tx.  With snapshots it is false               *)
(* (ApiKeys_rearm.cfg).                                                     *)
THEOREM DisarmedForGood == ~ Snapshot /\ Spec => []DisarmedStaysDisarmed
<1> SUFFICES ASSUME ~ Snapshot PROVE Spec => []DisarmedStaysDisarmed
  OBVIOUS
<1>1. IssueSparesDeactivation
  BY DEF IssueSparesDeactivation
<1> QED BY <1>1, DisarmedBehindDeactivation, PTL DEF IssueWaitsForDeactivation

-----------------------------------------------------------------------------
(* Audiences *)

(* A binding request stays one, or has just loaded a key that has no        *)
(* audiences.                                                               *)
LEMMA BindingStep ==
  ASSUME Typed, [Next]_vars, NEW q \in Requests, req'[q].op = "bind"
  PROVE  \/ req'[q] = req[q]
         \/ \E k \in Keys, audiences \in SUBSET Consumers :
               LoadForBind(q, k, audiences) /\ req'[q].targets = {k}
<1>1. CASE UNCHANGED req
  BY <1>1
<1>2. ASSUME NEW r \in Requests, RequestStep(r), r # q
      PROVE  req'[q] = req[q]
  <2>1. req' = [req EXCEPT ![r] = req'[r]]
    BY <1>2, RequestTyped
  <2> QED BY <1>2, <2>1 DEF Typed, Variables
<1>3. CASE RequestStep(q)
  <2>1. /\ req \in [Requests -> Request] /\ req[q] \in Request /\ RequestShape(req[q])
    BY DEF Typed, Variables
  <2>2. ASSUME NEW k \in Keys, NEW audiences \in SUBSET Consumers,
               LoadForBind(q, k, audiences)
        PROVE  req'[q].targets = {k}
    BY <2>1, <2>2 DEF LoadForBind, Become, Idle
  <2>3. ASSUME NEW audiences \in SUBSET Consumers, CountKeys(q, audiences) PROVE FALSE
    BY <2>1, <2>3 DEF CountKeys, Become, Idle
  <2>4. ASSUME NEW k \in Keys, LoadKey(q, k) PROVE FALSE
    BY <2>1, <2>4 DEF LoadKey, Become, Idle
  <2>5. ASSUME NEW k \in Keys, NEW c \in {{}} \cup {{d} : d \in Consumers},
               ReadKey(q, k, c)
        PROVE  FALSE
    BY <2>1, <2>5 DEF ReadKey, Become, Idle
  <2>6. CASE LoadOwner(q)
    BY <2>1, <2>6 DEF LoadOwner, Become, Idle
  <2>7. CASE LockOwner(q) \/ ReadOwner(q) \/ Stamp(q)
    <3>1. req[q].op \in {"deactivate", "use"}
      BY <2>1, <2>7 DEF LockOwner, ReadOwner, Stamp, RequestShape
    <3>2. req'[q].op = req[q].op
      <4> DEFINE q1 == [req[q] EXCEPT !.pc = "commit", !.targets = KeysSelected(q)]
                 q2 == [req[q] EXCEPT !.pc = "stamp"]
                 q3 == [req[q] EXCEPT !.pc = "note", !.at = now + 1]
      <4>1. q1.op = req[q].op /\ q2.op = req[q].op /\ q3.op = req[q].op
        BY <2>1 DEF Request
      <4>2. \E p \in {q1, q2, q3} : req' = [req EXCEPT ![q] = p]
        BY <2>7 DEF LockOwner, ReadOwner, Stamp, Become
      <4> HIDE DEF q1, q2, q3
      <4> QED BY <2>1, <4>1, <4>2
    <3> QED BY <3>1, <3>2
  <2>8. (\E k \in Keys : InsertKey(q, k)) \/ RevokeKey(q) \/ Deactivate(q)
          \/ BindAudiences(q) \/ Note(q) \/ Abandon(q)
        => req' = [req EXCEPT ![q] = Idle]
    BY DEF InsertKey, RevokeKey, Deactivate, BindAudiences, Note, Abandon, Finish, Become
  <2>9. req' # [req EXCEPT ![q] = Idle]
    BY <2>1 DEF Idle
  <2> QED BY <1>3, <2>2, <2>3, <2>4, <2>5, <2>6, <2>7, <2>8, <2>9 DEF RequestStep
<1> QED BY <1>1, <1>2, <1>3, NextSteps
        DEF vars, TableStep, Reactivate, DeleteOwner, Expire, PurgeKeys, FlushStep,
            TakeHash, LoadRows, CommitRows, FailRows, CrashFlush

LEMMA BoundStep ==
  ASSUME Typed, Bound, [Next]_vars, [BindsAlone]_vars
  PROVE  Bound'
<1> DEFINE New(q, k) ==
              /\ req'[q].targets = {k} /\ Issued(k)
              /\ keys[k].audiences = {} /\ keys' = keys
              /\ \A r \in Requests : req[r].op = "bind" => k \notin req[r].targets
              /\ \A p \in Requests : p # q => req'[p] = req[p]
<1>1. ASSUME NEW q \in Requests, req'[q].op = "bind"
      PROVE  \/ req'[q] = req[q]
             \/ \E k \in Keys : New(q, k)
  <2>1. ASSUME NEW k \in Keys, NEW audiences \in SUBSET Consumers,
               LoadForBind(q, k, audiences), req'[q].targets = {k}
        PROVE  New(q, k)
    <3>1. req' # req
      <4>1. req \in [Requests -> Request] /\ req[q].pc = "idle" /\ req'[q].pc = "write"
        BY <2>1 DEF LoadForBind, Become, Idle, Typed, Variables
      <4> QED BY <4>1
    <3>2. \A r \in Requests : req[r].op = "bind" => k \notin req[r].targets
      BY <2>1, <3>1 DEF BindsAlone, vars
    <3> QED BY <2>1, <3>2 DEF LoadForBind, Become, Typed, Variables
  <2> HIDE DEF New
  <2> QED BY <1>1, <2>1, BindingStep
<1>2. ASSUME NEW q \in Requests, req'[q].op = "bind", NEW k \in req'[q].targets, k \in Keys
      PROVE  keys'[k].state # "none" /\ keys'[k].audiences = {}
  <2>1. keys[k].state # "none" /\ keys[k].audiences = {}
    BY <1>1, <1>2 DEF Bound, Issued
  <2>2. ~ \E r \in Requests : InsertKey(r, k)
    BY <2>1 DEF InsertKey
  <2>3. ASSUME NEW r \in Requests, BindAudiences(r), k \in req[r].targets PROVE FALSE
    <3>1. req[r].op = "bind" /\ req' = [req EXCEPT ![r] = Idle] /\ req'[r].op = "none"
      BY <2>3 DEF BindAudiences, Finish, Become, Idle, Typed, Variables
    <3>2. req'[q] = req[q]
      BY <1>2, <3>1 DEF Typed, Variables
    <3> QED BY <1>2, <2>3, <3>1, <3>2 DEF Bound
  <2>4. Kept(k) /\ ~ \E r \in Requests : BindAudiences(r) /\ k \in req[r].targets
    BY <1>2, <2>2, <2>3, KeySteps
  <2> QED BY <2>1, <2>4 DEF Kept
<1>3. ASSUME NEW q \in Requests, NEW r \in Requests, q # r,
             req'[q].op = "bind", req'[r].op = "bind"
      PROVE  req'[q].targets \cap req'[r].targets = {}
  <2>1. CASE req'[q] = req[q] /\ req'[r] = req[r]
    BY <1>3, <2>1 DEF Bound
  <2>2. ASSUME NEW p \in Requests, NEW s \in Requests, p # s,
               req'[p].op = "bind", req'[p] # req[p], req'[s].op = "bind"
        PROVE  req'[p].targets \cap req'[s].targets = {}
    <3>1. PICK k \in Keys : New(p, k)
      <4> HIDE DEF New
      <4> QED BY <1>1, <2>2
    <3> QED BY <2>2, <3>1
  <2> QED BY <1>3, <2>1, <2>2
<1>4. \A q \in Requests : req'[q].targets \subseteq Keys
  BY TypedStep DEF Typed, Variables, Request
<1> QED BY <1>2, <1>3, <1>4 DEF Bound

(* "The audience set is immutable after issuance": as long as no two        *)
(* bindings of a key overlap, a key that has audiences keeps exactly those. *)
(* bind_existing_key_audiences checks before it writes and locks nothing,   *)
(* so two operators at once may each add a set of their own.                *)
THEOREM AudiencesSettled == Spec /\ BindingsTakeTurns => [][AudiencesKept]_vars
<1>1. Init => Bound
  BY DEF Init, Bound, Idle
<1>2. Typed /\ Bound /\ [Next]_vars => [AudiencesKept]_vars
  <2> SUFFICES ASSUME Typed, Bound, [Next]_vars, NEW k \in Keys,
                      Issued(k), keys[k].audiences # {}
               PROVE  keys'[k].audiences = keys[k].audiences
    BY DEF AudiencesKept
  <2>1. ~ \E r \in Requests : InsertKey(r, k)
    BY DEF InsertKey, Issued
  <2>2. ~ \E r \in Requests : BindAudiences(r) /\ k \in req[r].targets
    BY DEF BindAudiences, Bound
  <2> QED BY <2>1, <2>2, KeySteps DEF Kept
<1>3. Typed /\ Bound /\ [Next]_vars /\ [BindsAlone]_vars => Bound'
  BY BoundStep
<1> QED BY <1>1, <1>2, <1>3, TypedHolds, PTL DEF Spec, BindingsTakeTurns

-----------------------------------------------------------------------------
(* The write-behind of last_used_at *)

(* The greatest of a set of times is at least each of them.                 *)
LEMMA GreatestTime ==
  ASSUME NEW S \in SUBSET Time, NEW t \in S
  PROVE  t <= Max(S) /\ Max(S) \in Time
<1> DEFINE Above(n) == n .. ClockMax
           T == {Above(n) : n \in S}
           R == StrictSubsetOrdering(Int)
<1>1. \A n \in S : Above(n) \in SUBSET Int /\ IsFiniteSet(Above(n))
  BY FS_Interval DEF Time
<1>2. T \subseteq FiniteSubsetsOf(Int) /\ T # {}
  <2> HIDE DEF Above
  <2> QED BY <1>1 DEF FiniteSubsetsOf
<1>3. PICK x \in T : \A y \in T : ~ (<<y, x>> \in R)
  <2> HIDE DEF T, R
  <2>1. IsWellFoundedOn(R, FiniteSubsetsOf(Int))
    BY FS_StrictSubsetOrderingWellFounded, Zenon DEF R
  <2> QED BY <1>2, <2>1, WFMin
<1>4. PICK m \in S : x = Above(m)
  OBVIOUS
<1>5. ASSUME NEW n \in S PROVE m >= n
  <2>1. SUFFICES ASSUME m < n PROVE FALSE
    BY DEF Time
  <2>2. Above(n) \in T /\ Above(m) \in T
    OBVIOUS
  <2>3. m \in Above(m) /\ m \notin Above(n) /\ Above(n) \subseteq Above(m)
    BY <2>1 DEF Time
  <2>4. <<Above(n), Above(m)>> \in R
    BY <1>1, <2>2, <2>3 DEF StrictSubsetOrdering
  <2> QED BY <1>3, <1>4, <2>2, <2>4
<1>6. \E y \in S : \A n \in S : y >= n
  BY <1>5
<1>7. Max(S) \in S /\ \A n \in S : Max(S) >= n
  BY <1>6 DEF Max
<1> QED BY <1>7 DEF Time

(* Somewhere is what NotedUseSurvives says of a key. *)
LEMMA SomewhereIsNoted ==
  ASSUME Typed, NEW k \in Keys, Somewhere(k)
  PROVE  noted[k] <= Max({lost[k], hash[k], keys[k].used}
                              \cup {flush[f].data[k] : f \in Flushers})
<1> DEFINE S == {lost[k], hash[k], keys[k].used} \cup {flush[f].data[k] : f \in Flushers}
<1>1. S \in SUBSET Time /\ noted[k] \in Time
  BY DEF Typed, Variables, Key, Flush
<1>2. PICK t \in S : noted[k] <= t
  BY DEF Somewhere
<1> HIDE DEF S
<1>3. t <= Max(S) /\ Max(S) \in Time
  BY <1>1, GreatestTime
<1> QED BY <1>1, <1>2, <1>3, TimeFacts DEF S

(* A request that uses a key stays one, or has just read a usable key.      *)
LEMMA UsingStep ==
  ASSUME Typed, [Next]_vars, NEW q \in Requests, req'[q].op = "use"
  PROVE  \/ req'[q].targets = req[q].targets /\ req[q].op = "use"
         \/ \E k \in Keys : Usable(k) /\ req'[q].targets = {k}
<1>1. CASE UNCHANGED req
  BY <1>1
<1>2. ASSUME NEW r \in Requests, RequestStep(r), r # q
      PROVE  req'[q] = req[q]
  <2>1. req' = [req EXCEPT ![r] = req'[r]]
    BY <1>2, RequestTyped
  <2> QED BY <1>2, <2>1 DEF Typed, Variables
<1>3. CASE RequestStep(q)
  <2>1. /\ req \in [Requests -> Request] /\ req[q] \in Request /\ RequestShape(req[q])
    BY DEF Typed, Variables
  <2>2. ASSUME NEW k \in Keys, NEW c \in {{}} \cup {{d} : d \in Consumers},
               ReadKey(q, k, c)
        PROVE  Usable(k) /\ req'[q].targets = {k}
    BY <2>1, <2>2 DEF ReadKey, Become, Idle
  <2>3. ASSUME NEW audiences \in SUBSET Consumers, CountKeys(q, audiences) PROVE FALSE
    BY <2>1, <2>3 DEF CountKeys, Become, Idle
  <2>4. ASSUME NEW k \in Keys, LoadKey(q, k) PROVE FALSE
    BY <2>1, <2>4 DEF LoadKey, Become, Idle
  <2>5. ASSUME NEW k \in Keys, NEW audiences \in SUBSET Consumers,
               LoadForBind(q, k, audiences)
        PROVE  FALSE
    BY <2>1, <2>5 DEF LoadForBind, Become, Idle
  <2>6. CASE LoadOwner(q)
    BY <2>1, <2>6 DEF LoadOwner, Become, Idle
  <2>7. CASE LockOwner(q)
    BY <2>1, <2>7 DEF LockOwner, Become, RequestShape, Request
  <2>8. CASE ReadOwner(q) \/ Stamp(q)
    <3>1. req[q].op = "use"
      BY <2>1, <2>8 DEF ReadOwner, Stamp, RequestShape
    <3>2. req'[q].targets = req[q].targets
      <4> DEFINE q1 == [req[q] EXCEPT !.pc = "stamp"]
                 q2 == [req[q] EXCEPT !.pc = "note", !.at = now + 1]
      <4>1. q1.targets = req[q].targets /\ q2.targets = req[q].targets
        BY <2>1 DEF Request
      <4>2. \E p \in {q1, q2} : req' = [req EXCEPT ![q] = p]
        BY <2>8 DEF ReadOwner, Stamp, Become
      <4> HIDE DEF q1, q2
      <4> QED BY <2>1, <4>1, <4>2
    <3> QED BY <3>1, <3>2
  <2>9. (\E k \in Keys : InsertKey(q, k)) \/ RevokeKey(q) \/ Deactivate(q)
          \/ BindAudiences(q) \/ Note(q) \/ Abandon(q)
        => req' = [req EXCEPT ![q] = Idle]
    BY DEF InsertKey, RevokeKey, Deactivate, BindAudiences, Note, Abandon, Finish, Become
  <2>10. req' # [req EXCEPT ![q] = Idle]
    BY <2>1 DEF Idle
  <2> QED BY <1>3, <2>2, <2>3, <2>4, <2>5, <2>6, <2>7, <2>8, <2>9, <2>10 DEF RequestStep
<1> QED BY <1>1, <1>2, <1>3, NextSteps
        DEF vars, TableStep, Reactivate, DeleteOwner, Expire, PurgeKeys, FlushStep,
            TakeHash, LoadRows, CommitRows, FailRows, CrashFlush

(* The hash holds t, the latest use is as late as t or as it was, and what  *)
(* t was written over is lost.                                              *)
NotedAt(k, t) ==
    /\ hash'[k] = t
    /\ noted'[k] = t \/ (noted'[k] = noted[k] /\ t <= noted[k])
    /\ lost'[k] >= lost[k]
    /\ t < hash[k] => lost'[k] >= hash[k]

(* The steps of the write-behind, as one key sees them: its issue, a note   *)
(* of a use, a flush step, or nothing.                                      *)
LEMMA UseSteps ==
  ASSUME Typed, Typed', [Next]_vars, NEW k \in Keys
  PROVE  \/ \E r \in Requests : InsertKey(r, k) /\ UNCHANGED <<hash, noted, lost, flush>>
         \/ \E r \in Requests :
               /\ Note(r) /\ req[r].op = "use" /\ req[r].targets \subseteq Keys
               /\ UNCHANGED <<keys, flush>>
               /\ k \in req[r].targets => NotedAt(k, req[r].at)
               /\ k \notin req[r].targets => UNCHANGED <<noted[k], hash[k], lost[k]>>
         \/ \E f \in Flushers : FlushStep(f) /\ Kept(k) /\ noted' = noted
         \/ /\ Kept(k) /\ keys'[k].used = keys[k].used
            /\ UNCHANGED <<hash, noted, lost, flush>>
<1>1. CASE \E r \in Requests : InsertKey(r, k)
  BY <1>1 DEF InsertKey, redis
<1>2. ASSUME NEW r \in Requests, Note(r)
      PROVE  /\ req[r].op = "use" /\ req[r].targets \subseteq Keys
             /\ UNCHANGED <<keys, flush>>
             /\ k \in req[r].targets => NotedAt(k, req[r].at)
             /\ k \notin req[r].targets => UNCHANGED <<noted[k], hash[k], lost[k]>>
  <2>1. req[r] \in Request /\ RequestShape(req[r]) /\ req[r].pc = "note"
    BY <1>2 DEF Note, Typed, Variables
  <2>2. PICK j \in Keys : req[r].targets = {j} /\ j = CHOOSE x \in req[r].targets : TRUE
    BY <2>1, SingleTarget
  <2> DEFINE t == req[r].at
             m == Later(noted[j], t)
             l == IF t < hash[j] THEN Later(lost[j], hash[j]) ELSE lost[j]
  <2>3. /\ hash' = [hash EXCEPT ![j] = t] /\ noted' = [noted EXCEPT ![j] = m]
        /\ lost' = [lost EXCEPT ![j] = l]
    BY <1>2, <2>2 DEF Note
  <2>4. req[r].op = "use" /\ UNCHANGED <<keys, flush>>
    BY <1>2, <2>1 DEF RequestShape, Note
  <2>5. k = j => NotedAt(k, t)
    <3>1. t \in Time /\ hash[j] \in Time /\ noted[j] \in Time /\ lost[j] \in Time
      BY <2>1 DEF Typed, Variables, Request
    <3>2. m \in Time /\ l >= lost[j] /\ (t < hash[j] => l >= hash[j])
      BY <3>1, LaterFacts, TimeFacts
    <3>3. hash'[j] = t /\ noted'[j] = m /\ lost'[j] = l
      BY <2>3 DEF Typed, Variables
    <3>4. m = t \/ (m = noted[j] /\ t <= noted[j])
      BY <3>1, TimeFacts DEF Later
    <3> HIDE DEF t, m, l
    <3> QED BY <3>1, <3>2, <3>3, <3>4 DEF NotedAt
  <2>6. k # j => UNCHANGED <<noted[k], hash[k], lost[k]>>
    BY <2>3 DEF Typed, Variables
  <2> QED BY <2>2, <2>4, <2>5, <2>6
<1>3. ASSUME Kept(k), ~ \E f \in Flushers : FlushStep(f), ~ \E r \in Requests : Note(r)
      PROVE  keys'[k].used = keys[k].used /\ UNCHANGED <<hash, noted, lost, flush>>
  <2>1. keys'[k].used = keys[k].used
    BY <1>3 DEF Kept, FlushStep
  <2>2. UNCHANGED <<hash, noted, lost, flush>>
    BY <1>3, NextSteps
       DEF vars, TableStep, Reactivate, DeleteOwner, Expire, PurgeKeys, RequestStep, CountKeys,
           InsertKey, LoadKey, LoadForBind, ReadKey, RevokeKey, LoadOwner, LockOwner,
           Deactivate, BindAudiences, ReadOwner, Stamp, Abandon, redis
  <2> QED BY <2>1, <2>2
<1>4. ASSUME NEW f \in Flushers, FlushStep(f) PROVE noted' = noted
  BY <1>4, FlushTyped
<1> QED BY <1>1, <1>2, <1>3, <1>4, KeySteps

(* A flush step of the only loop, as one key sees it.                       *)
LEMMA FlushKeepsUse ==
  ASSUME Typed, Typed', Flushed, NEW f \in Flushers, FlushStep(f), \A g \in Flushers : g = f,
         NEW k \in Keys, Kept(k)
  PROVE  /\ Issued(k)' => Somewhere(k)'
         /\ flush'[f].pc = "commit" =>
               IF k \in flush'[f].writes THEN keys'[k].used <= flush'[f].data[k]
               ELSE Issued(k)' => flush'[f].data[k] <= keys'[k].used
         /\ keys'[k].state = "none" => noted'[k] = 0 /\ hash'[k] = 0 /\ flush'[f].data[k] = 0
<1>1. /\ flush[f] \in Flush /\ FlushShape(flush[f]) /\ flush[f].data[k] \in Time
      /\ keys[k].used \in Time /\ noted[k] \in Time /\ hash[k] \in Time
      /\ keys'[k].used \in Time /\ flush \in [Flushers -> Flush]
      /\ lost[k] \in Time /\ lost'[k] \in Time
      /\ UNCHANGED noted
  BY FlushTyped DEF Typed, Variables, Flush, Key
<1>2. \A t \in Time : t \in Nat
  BY TimeFacts
<1>3. Issued(k) =>
        noted[k] <= lost[k] \/ noted[k] <= hash[k] \/ noted[k] <= keys[k].used \/ noted[k] <= flush[f].data[k]
  BY DEF Flushed, Somewhere
<1>4. Somewhere(k)' <=> \/ noted'[k] <= lost'[k]
                        \/ noted'[k] <= hash'[k]
                        \/ noted'[k] <= keys'[k].used
                        \/ noted'[k] <= flush'[f].data[k]
  BY DEF Somewhere
<1>5. /\ keys[k].state = "none" => noted[k] = 0 /\ hash[k] = 0 /\ flush[f].data[k] = 0
      /\ keys'[k].state = "none" <=> keys[k].state = "none"
      /\ Issued(k)' => Issued(k)
  BY DEF Flushed, Kept, Issued
<1>6. CASE TakeHash(f)
  <2>1. /\ flush[f].data[k] = 0 /\ flush'[f].data[k] = hash[k] /\ flush'[f].pc = "load"
        /\ hash'[k] = 0 /\ UNCHANGED <<keys, lost>>
    BY <1>1, <1>6 DEF TakeHash, FlushShape, NoFlush
  <2> QED BY <1>1, <1>2, <1>3, <1>4, <1>5, <2>1
<1>7. CASE LoadRows(f)
  <2>1. /\ flush'[f].data = flush[f].data /\ flush'[f].writes = NewerThanRow(flush[f].data)
        /\ UNCHANGED <<keys, lost, hash>>
    BY <1>1, <1>7 DEF LoadRows, Flush
  <2>2. k \in flush'[f].writes <=> Issued(k) /\ keys[k].used < flush[f].data[k]
    BY <2>1 DEF NewerThanRow
  <2> QED BY <1>1, <1>2, <1>3, <1>4, <1>5, <2>1, <2>2 DEF Issued
<1>8. CASE CommitRows(f)
  <2>1. /\ flush'[f].data[k] = 0 /\ flush'[f].pc = "idle" /\ UNCHANGED <<hash, lost>>
        /\ flush[f].pc = "commit"
    BY <1>1, <1>8 DEF CommitRows, NoFlush
  <2>2. IF k \in flush[f].writes THEN keys'[k].used = flush[f].data[k]
                                 ELSE keys'[k] = keys[k]
    BY <1>8 DEF CommitRows, Touched, Typed, Variables, Key
  <2>3. IF k \in flush[f].writes THEN keys[k].used <= flush[f].data[k]
        ELSE Issued(k) => flush[f].data[k] <= keys[k].used
    BY <2>1 DEF Flushed
  <2>4. Issued(k) => keys[k].used <= keys'[k].used /\ flush[f].data[k] <= keys'[k].used
    BY <1>1, <1>2, <2>2, <2>3
  <2>5. Issued(k)' => Somewhere(k)'
    BY <1>1, <1>2, <1>3, <1>4, <1>5, <2>1, <2>4
  <2> QED BY <1>1, <1>5, <2>1, <2>5
<1>9. CASE FailRows(f) \/ CrashFlush(f)
  <2>1. /\ flush'[f].data[k] = 0 /\ flush'[f].pc = "idle" /\ UNCHANGED <<hash, keys>>
        /\ lost' = LostWith(f)
    BY <1>1, <1>9 DEF FailRows, CrashFlush, NoFlush
  <2>2. lost'[k] >= lost[k] /\ lost'[k] >= flush[f].data[k]
    BY <1>1, <2>1, LaterFacts DEF LostWith
  <2> QED BY <1>1, <1>2, <1>3, <1>4, <1>5, <2>1, <2>2
<1> QED BY <1>6, <1>7, <1>8, <1>9 DEF FlushStep

LEMMA FlushedStep ==
  ASSUME Typed, Flushed, [Next]_vars, \A f, g \in Flushers : f = g
  PROVE  Flushed'
<1>1. Typed'
  BY TypedStep
<1>2. ASSUME NEW k \in Keys
      PROVE  /\ Issued(k)' => Somewhere(k)'
             /\ \A f \in Flushers : flush'[f].pc = "commit" =>
                   IF k \in flush'[f].writes THEN keys'[k].used <= flush'[f].data[k]
                   ELSE Issued(k)' => flush'[f].data[k] <= keys'[k].used
             /\ keys'[k].state = "none" =>
                   /\ noted'[k] = 0 /\ hash'[k] = 0
                   /\ \A f \in Flushers : flush'[f].data[k] = 0
  <2>1. ASSUME NEW r \in Requests, InsertKey(r, k), UNCHANGED <<hash, noted, lost, flush>>
        PROVE  /\ Issued(k)' => Somewhere(k)'
               /\ \A f \in Flushers : flush'[f].pc = "commit" =>
                     IF k \in flush'[f].writes THEN keys'[k].used <= flush'[f].data[k]
                     ELSE Issued(k)' => flush'[f].data[k] <= keys'[k].used
               /\ keys'[k].state # "none"
    <3>1. keys[k].state = "none" /\ keys'[k].used = 0 /\ keys'[k].state = "live"
      BY <2>1, InsertedKey DEF InsertKey
    <3>2. noted[k] = 0 /\ \A f \in Flushers : flush[f].data[k] = 0
      BY <3>1 DEF Flushed
    <3> QED BY <2>1, <3>1, <3>2 DEF Somewhere
  <2>2. ASSUME NEW r \in Requests,
               req[r].op = "use", req[r].targets \subseteq Keys,
               UNCHANGED <<keys, flush>>,
               k \in req[r].targets => NotedAt(k, req[r].at),
               k \notin req[r].targets => UNCHANGED <<noted[k], hash[k], lost[k]>>
        PROVE  /\ Issued(k)' => Somewhere(k)'
               /\ \A f \in Flushers : flush'[f].pc = "commit" =>
                     IF k \in flush'[f].writes THEN keys'[k].used <= flush'[f].data[k]
                     ELSE Issued(k)' => flush'[f].data[k] <= keys'[k].used
               /\ keys'[k].state = "none" =>
                     /\ noted'[k] = 0 /\ hash'[k] = 0
                     /\ \A f \in Flushers : flush'[f].data[k] = 0
    <3>1. \A f \in Flushers : flush'[f].pc = "commit" =>
              IF k \in flush'[f].writes THEN keys'[k].used <= flush'[f].data[k]
              ELSE Issued(k)' => flush'[f].data[k] <= keys'[k].used
      BY <2>2 DEF Flushed, Issued
    <3>2. CASE k \in req[r].targets
      <4>1. keys[k].state # "none"
        BY <2>2, <3>2 DEF Flushed
      <4>2. /\ {hash[k], noted[k], lost[k], hash'[k], noted'[k], lost'[k]} \subseteq Nat
            /\ keys[k].used \in Nat /\ \A f \in Flushers : flush[f].data[k] \in Nat
        BY <1>1, TimeFacts DEF Typed, Variables, Key, Flush
      <4>3. Issued(k) => Somewhere(k)
        BY DEF Flushed
      <4>4. Issued(k) => Somewhere(k)'
        BY <2>2, <3>2, <4>2, <4>3 DEF Somewhere, NotedAt
      <4>5. Issued(k)' <=> Issued(k)
        BY <2>2 DEF Issued
      <4> QED BY <2>2, <3>1, <4>1, <4>4, <4>5
    <3>3. CASE k \notin req[r].targets
      <4>1. noted'[k] = noted[k] /\ hash'[k] = hash[k] /\ lost'[k] = lost[k]
        BY <2>2, <3>3
      <4> QED BY <2>2, <3>1, <4>1 DEF Flushed, Somewhere, Issued
    <3> QED BY <3>2, <3>3
  <2>3. ASSUME NEW f \in Flushers, FlushStep(f), Kept(k)
        PROVE  /\ Issued(k)' => Somewhere(k)'
               /\ \A g \in Flushers : flush'[g].pc = "commit" =>
                     IF k \in flush'[g].writes THEN keys'[k].used <= flush'[g].data[k]
                     ELSE Issued(k)' => flush'[g].data[k] <= keys'[k].used
               /\ keys'[k].state = "none" =>
                     /\ noted'[k] = 0 /\ hash'[k] = 0
                     /\ \A g \in Flushers : flush'[g].data[k] = 0
    <3>1. \A g \in Flushers : g = f
      OBVIOUS
    <3>2. /\ Issued(k)' => Somewhere(k)'
          /\ flush'[f].pc = "commit" =>
                IF k \in flush'[f].writes THEN keys'[k].used <= flush'[f].data[k]
                ELSE Issued(k)' => flush'[f].data[k] <= keys'[k].used
          /\ keys'[k].state = "none" =>
                noted'[k] = 0 /\ hash'[k] = 0 /\ flush'[f].data[k] = 0
      BY <1>1, <2>3, <3>1, FlushKeepsUse
    <3> QED BY <3>1, <3>2
  <2>4. ASSUME Kept(k), keys'[k].used = keys[k].used, UNCHANGED <<hash, noted, lost, flush>>
        PROVE  /\ Issued(k)' => Somewhere(k)'
               /\ \A f \in Flushers : flush'[f].pc = "commit" =>
                     IF k \in flush'[f].writes THEN keys'[k].used <= flush'[f].data[k]
                     ELSE Issued(k)' => flush'[f].data[k] <= keys'[k].used
               /\ keys'[k].state = "none" =>
                     /\ noted'[k] = 0 /\ hash'[k] = 0
                     /\ \A f \in Flushers : flush'[f].data[k] = 0
    <3>1. (Issued(k)' => Issued(k)) /\ (keys'[k].state = "none" => keys[k].state = "none")
      BY <2>4 DEF Kept, Issued
    <3> QED BY <2>4, <3>1 DEF Flushed, Somewhere
  <2> QED BY <1>1, <2>1, <2>2, <2>3, <2>4, UseSteps
<1>3. ASSUME NEW q \in Requests, req'[q].op = "use", NEW k \in req'[q].targets
      PROVE  keys'[k].state # "none"
  <2>1. k \in Keys /\ keys[k].state # "none"
    BY <1>1, <1>3, UsingStep DEF Typed, Variables, Request, Flushed, Usable
  <2>2. ~ \E r \in Requests : InsertKey(r, k)
    BY <2>1 DEF InsertKey
  <2> QED BY <2>1, <2>2, KeySteps DEF Kept
<1> QED BY <1>2, <1>3 DEF Flushed

(* With one flush loop at a time, the latest use of a key that was ever in  *)
(* the hash is in the hash, in the flush or in the row, unless a crash, a   *)
(* failed commit or an older note written over it lost it                   *)
(* (_apply_rate_limit, _flush_last_used_at).                                *)
THEOREM NotedUseKept ==
  (\A f, g \in Flushers : f = g) /\ Spec => []NotedUseSurvives
<1> SUFFICES ASSUME \A f, g \in Flushers : f = g PROVE Spec => []NotedUseSurvives
  OBVIOUS
<1>1. Init => Flushed
  BY DEF Init, Flushed, Unissued, Issued, NoFlush, Idle
<1>2. Typed /\ Flushed /\ [Next]_vars => Flushed'
  BY FlushedStep
<1>3. Typed /\ Flushed => NotedUseSurvives
  BY SomewhereIsNoted DEF Flushed, NotedUseSurvives
<1> QED BY <1>1, <1>2, <1>3, TypedHolds, PTL DEF Spec
=============================================================================

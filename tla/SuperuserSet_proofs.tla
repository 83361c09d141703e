------------------------- MODULE SuperuserSet_proofs -------------------------
(***************************************************************************)
(* Theorems about SuperuserSet, for any number of accounts, requests,      *)
(* roles and generations.  They assume that completed outbox rows outlive  *)
(* the requests in flight.                                                 *)
(***************************************************************************)
EXTENDS SuperuserSet, TLAPS

USE TopRoleAssumption, GenMaxAssumption, OpsAssumption, RetentionAssumption

(* Facts about roles used everywhere. *)
LEMMA RoleFacts == TopRole \in Role /\ 0 \in Role /\ 0 # TopRole
  BY DEF Role

(* A new row (NewRow) is well typed and canonical. *)
LEMMA NewRowType ==
  ASSUME NEW role \in Role, NEW active \in BOOLEAN
  PROVE  NewRow(role, active) \in Row /\ Consistent(NewRow(role, active))
  BY DEF NewRow, Row, Consistent, DeriveIsSuperuser

(* What the flush of change_user_authorization writes: either the request's *)
(* copy was current and the edited copy is written as a whole, or nothing   *)
(* changes.  The unique publish key rules out everything in between.        *)
LEMMA UpdateWrites ==
  ASSUME TypeOK, NEW q \in Request, LoadedFits(q), Consistent(q.loaded),
         Fenced(q)
  PROVE  \/ /\ AuthorizationChanged(q)
            /\ q.loaded = row[q.target]
            /\ Written(q) = Flushed(q)
         \/ /\ ~ AuthorizationChanged(q)
            /\ Written(q) = row[q.target]
<1> DEFINE t == q.target
<1>1. /\ t \in Users /\ q.loaded \in Row /\ row[t] \in Row
      /\ q.role \in Role /\ q.active \in BOOLEAN
  BY DEF TypeOK, Request
<1>2. CASE AuthorizationChanged(q)
  <2>1. q.loaded.gen \in 1 .. GenMax /\ row[t].gen \in 1 .. GenMax
    BY <1>1 DEF Row
  <2>2. q.loaded.gen < GenMax /\ <<t, q.loaded.gen + 1>> \notin outbox
    BY <1>2 DEF Fenced, GenerationLeft, UniquePublishKey
  <2>3. q.loaded.gen = row[t].gen
    <3>1. SUFFICES ASSUME q.loaded.gen < row[t].gen PROVE FALSE
      BY <2>1 DEF LoadedFits
    <3>2. q.loaded.gen + 1 \in 1 .. GenMax
      BY <2>1, <2>2
    <3>3. q.loaded.gen + 1 <= row[t].gen /\ q.loaded.gen < q.loaded.gen + 1
      BY <3>1, <2>1
    <3> QED BY <3>2, <3>3, <2>2 DEF LoadedFits
  <2>4. q.loaded = row[t]
    BY <2>3 DEF LoadedFits
  <2>5. Written(q) = Flushed(q)
    BY <2>4 DEF Written, Merge, Column, Flushed
  <2> QED BY <1>2, <2>4, <2>5
<1>3. CASE ~ AuthorizationChanged(q)
  <2>1. Flushed(q).role = q.loaded.role /\ Flushed(q).active = q.loaded.active
        /\ Flushed(q).gen = q.loaded.gen
    BY <1>3 DEF AuthorizationChanged, Flushed
  <2>2. Flushed(q).flag = q.loaded.flag
    <3>1. "role" \in q.fields => q.role = q.loaded.role
      BY <1>3 DEF AuthorizationChanged, IntendedRole
    <3> QED BY <3>1 DEF Flushed, Consistent
  <2>3. Written(q) = [role |-> row[t].role, flag |-> row[t].flag,
                      active |-> row[t].active, gen |-> row[t].gen]
    BY <2>1, <2>2 DEF Written, Merge, Column
  <2> QED BY <1>1, <1>3, <2>3 DEF Row
<1> QED BY <1>2, <1>3

(* Flushed(q) is a row, and canonical, when q is a canonical request. *)
LEMMA FlushedType ==
  ASSUME NEW q \in Request, Consistent(q.loaded),
         AuthorizationChanged(q) => q.loaded.gen < GenMax
  PROVE  Flushed(q) \in Row /\ Consistent(Flushed(q))
<1>1. q.loaded \in Row /\ q.role \in Role /\ q.active \in BOOLEAN
  BY DEF Request
<1>2. /\ q.loaded.role \in Role /\ q.loaded.flag \in BOOLEAN
      /\ q.loaded.active \in BOOLEAN /\ q.loaded.gen \in 1 .. GenMax
  BY <1>1 DEF Row
<1>3. IntendedRole(q) \in Role /\ IntendedActive(q) \in BOOLEAN
  BY <1>1, <1>2 DEF IntendedRole, IntendedActive
<1>4. Flushed(q).gen \in 1 .. GenMax
  BY <1>2 DEF Flushed
<1>5. Flushed(q).flag \in BOOLEAN
  BY <1>2 DEF Flushed, DeriveIsSuperuser
<1>6. Flushed(q) \in Row
  BY <1>3, <1>4, <1>5 DEF Flushed, Row
<1>7. Consistent(Flushed(q))
  BY DEF Consistent, Flushed, IntendedRole
<1> QED BY <1>6, <1>7

-----------------------------------------------------------------------------
(* The inductive invariant *)

LEMMA InitInvariant == Init => IInv
<1> SUFFICES ASSUME Init PROVE IInv
  OBVIOUS
<1> USE DEF Init
<1>1. \A u \in Users : row[u] \in Row /\ Consistent(row[u])
  BY RoleFacts, NewRowType
<1>2. \A r \in Requests : ~ Running(r) /\ req[r].pc = "idle"
  BY DEF Running, Idle
<1>3. TypeOK
  <2>1. row \in [Users -> Row]
    BY <1>1
  <2>2. tombstone \in [Users -> 0 .. GenMax] /\ outbox \subseteq Users \X (1 .. GenMax)
    OBVIOUS
  <2>3. minted \in [Users -> SUBSET Role]
    BY RoleFacts
  <2> QED BY <2>1, <2>2, <2>3 DEF TypeOK
<1> QED BY <1>1, <1>2, <1>3 DEF IInv, RoleFlagConsistent

(* Starting a request: its copy is the current row. *)
LEMMA LoadStep ==
  ASSUME IInv, NEW r \in Requests, NEW actor \in Users, NEW u \in Users,
         NEW fields \in SUBSET {"role", "active"}, NEW role \in Role,
         NEW active \in BOOLEAN,
         \/ LoadUpdate(r, actor, u, fields, role, active)
         \/ LoadDelete(r, actor, u)
  PROVE  IInv'
<1> USE DEF LoadUpdate, LoadDelete
<1>1. /\ UNCHANGED <<present, born, row, tombstone, outbox, revision, minted>>
      /\ u \in present
  OBVIOUS
<1>2. req'[r] \in Request /\ req'[r].pc = "loaded" /\ req'[r].target = u
      /\ req'[r].loaded = row[u]
  <2>1. row[u] \in Row /\ req \in [Requests -> Request \cup {Idle}]
    BY DEF IInv, TypeOK
  <2>2. CASE LoadUpdate(r, actor, u, fields, role, active)
    <3>1. req'[r] = [pc |-> "loaded", op |-> "update", target |-> u,
                     loaded |-> row[u], self |-> actor = u, fields |-> fields,
                     role |-> role, active |-> active, locks |-> {}]
      BY <2>1, <2>2
    <3> QED BY <2>1, <3>1 DEF Request
  <2>3. CASE LoadDelete(r, actor, u)
    <3>1. req'[r] = [pc |-> "loaded", op |-> "delete", target |-> u,
                     loaded |-> row[u], self |-> actor = u, fields |-> {},
                     role |-> 0, active |-> TRUE, locks |-> {}]
      BY <2>1, <2>3
    <3> QED BY <2>1, <3>1, RoleFacts DEF Request
  <2> QED BY <2>2, <2>3
<1>3. \A s \in Requests : s # r => req'[s] = req[s]
  BY DEF IInv, TypeOK
<1>4. TypeOK'
  BY <1>1, <1>2, <1>3 DEF IInv, TypeOK
<1>5. RoleFlagConsistent'
  BY <1>1, <1>2, <1>3 DEF IInv, RoleFlagConsistent, Consistent, Running
<1>6. LoadedFits(req[r])' /\ LocksHold(req[r])'
  BY <1>1, <1>2 DEF LoadedFits, LocksHold, IInv, TypeOK, Row
<1>7. \A s \in Requests : Running(s)' => LoadedFits(req[s])' /\ LocksHold(req[s])'
  BY <1>1, <1>3, <1>6
     DEF IInv, Running, LoadedFits, LocksHold, OtherSuperusers, ActiveSuperusers
<1> QED BY <1>2, <1>3, <1>4, <1>5, <1>7 DEF IInv

(* Taking the locks: the others that were counted are locked. *)
LEMMA AcquireStep ==
  ASSUME IInv, NEW r \in Requests, Acquire(r)
  PROVE  IInv'
<1>1. UNCHANGED <<present, born, row, tombstone, outbox, revision, minted>>
  BY DEF Acquire
<1> DEFINE q == req[r]
           p == req'[r]
<1>2. q \in Request
  BY DEF IInv, TypeOK, Idle, Acquire
<1> DEFINE L == IF LeavesSet(q) THEN OtherSuperusers(q.target) ELSE {}
<1>3. p = [q EXCEPT !.pc = "locked", !.locks = L]
  BY DEF IInv, TypeOK, Acquire
<1>4. L \in SUBSET Users
  BY DEF OtherSuperusers, ActiveSuperusers, IInv, TypeOK
<1>5. /\ p \in Request
      /\ p.pc = "locked" /\ p.op = q.op /\ p.target = q.target
      /\ p.loaded = q.loaded /\ p.fields = q.fields /\ p.role = q.role
      /\ p.active = q.active /\ p.locks = L
  <2> HIDE DEF L
  <2> QED BY <1>2, <1>3, <1>4 DEF Request
<1>6. OtherSuperusers(q.target)' = OtherSuperusers(q.target)
  <2>1. ActiveSuperusers' = ActiveSuperusers
    BY <1>1 DEF ActiveSuperusers
  <2> QED BY <1>5, <2>1 DEF OtherSuperusers
<1>7. \A s \in Requests : s # r => req'[s] = req[s]
  BY DEF IInv, TypeOK, Acquire
<1>8. TypeOK'
  <2>1. req' \in [Requests -> Request \cup {Idle}]
    BY <1>5, <1>7 DEF IInv, TypeOK, Acquire
  <2> QED BY <1>1, <2>1 DEF IInv, TypeOK
<1>9. RoleFlagConsistent'
  BY <1>1, <1>5, <1>7 DEF IInv, RoleFlagConsistent, Consistent, Running, Acquire
<1>10. LoadedFits(req[r])'
  BY <1>1, <1>5 DEF LoadedFits, IInv, Running, Acquire
<1>11. LeavesSet(req[r])' <=> LeavesSet(q)
  BY <1>5 DEF LeavesSet, IntendedRole, IntendedActive
<1>12. LocksHold(req[r])'
  BY <1>5, <1>6, <1>11 DEF LocksHold, Acquire
<1>13. \A s \in Requests : Running(s)' => LoadedFits(req[s])' /\ LocksHold(req[s])'
  BY <1>1, <1>7, <1>10, <1>12
     DEF IInv, Running, LoadedFits, LocksHold, OtherSuperusers, ActiveSuperusers
<1>14. \A s \in Requests : req[s].pc # "locked"
  BY DEF PolicyLockFree, Acquire
<1> QED BY <1>7, <1>8, <1>9, <1>13, <1>14 DEF IInv

(* Refuse and Abort only end the request. *)
LEMMA FinishStep ==
  ASSUME IInv, NEW r \in Requests, Refuse(r) \/ Abort(r)
  PROVE  IInv'
<1>1. /\ UNCHANGED <<present, born, row, tombstone, outbox, revision, minted>>
      /\ req' = [req EXCEPT ![r] = Idle]
  BY DEF Refuse, Abort, Finish
<1>2. TypeOK'
  BY <1>1 DEF IInv, TypeOK
<1>3. /\ req'[r].pc = "idle"
      /\ \A s \in Requests : s # r => req'[s] = req[s]
  BY <1>1 DEF IInv, TypeOK, Idle
<1>4. RoleFlagConsistent'
  BY <1>1, <1>3 DEF IInv, RoleFlagConsistent, Consistent, Running
<1>5. \A s \in Requests : Running(s)' => LoadedFits(req[s])' /\ LocksHold(req[s])'
  BY <1>1, <1>3
     DEF IInv, Running, LoadedFits, LocksHold, OtherSuperusers, ActiveSuperusers
<1> QED BY <1>2, <1>3, <1>4, <1>5 DEF IInv

(* While r holds the policy lock no other request is locked. *)
LEMMA CommitUpdateStep ==
  ASSUME IInv, NEW r \in Requests, CommitUpdate(r)
  PROVE  IInv'
<1> DEFINE q == req[r]
           t == q.target
<1>1. /\ q \in Request /\ q.pc = "locked" /\ t \in Users /\ q.loaded \in Row
      /\ row[t] \in Row /\ CanFlush(q)
  BY DEF CommitUpdate, IInv, TypeOK, Request, Idle
<1>2. /\ req' = [req EXCEPT ![r] = Idle]
      /\ row' = [row EXCEPT ![t] = Written(q)]
      /\ UNCHANGED <<present, born, tombstone>>
      /\ minted' = Mint(t, row'[t])
  BY DEF CommitUpdate, Finish
<1>3. LoadedFits(q) /\ Consistent(q.loaded)
  BY <1>1 DEF IInv, RoleFlagConsistent, Running
<1>4. /\ req'[r] = Idle /\ req'[r].pc = "idle"
      /\ \A s \in Requests : s # r => req'[s] = req[s] /\ req[s].pc # "locked"
  BY <1>1, <1>2 DEF IInv, TypeOK, Idle
<1>5. req' \in [Requests -> Request \cup {Idle}]
  BY <1>2 DEF IInv, TypeOK
<1>6. CASE AuthorizationChanged(q)
  <2>1. q.loaded = row[t] /\ Written(q) = Flushed(q)
    BY <1>1, <1>3, <1>6, UpdateWrites DEF IInv, CanFlush
  <2>2. Flushed(q) \in Row /\ Consistent(Flushed(q))
    BY <1>1, <1>3, FlushedType DEF CanFlush, Fenced, GenerationLeft
  <2>3. Flushed(q).gen = row[t].gen + 1 /\ row[t].gen + 1 \in 1 .. GenMax
    BY <1>1, <1>6, <2>1 DEF Flushed, CanFlush, Fenced, GenerationLeft, Row
  <2>4. outbox' = outbox \cup {<<t, row[t].gen + 1>>} /\ revision' = revision + 1
    BY <1>6, <2>1 DEF CommitUpdate
  <2>5. row' \in [Users -> Row] /\ row'[t] = Flushed(q)
        /\ \A u \in Users : u # t => row'[u] = row[u]
    BY <1>1, <1>2, <2>1, <2>2 DEF IInv, TypeOK
  <2>6. minted' \in [Users -> SUBSET Role]
    BY <1>2, <2>5, <1>1 DEF Mint, IInv, TypeOK, Row
  <2>7. TypeOK'
    BY <1>1, <1>2, <1>5, <2>3, <2>4, <2>5, <2>6 DEF IInv, TypeOK
  <2>8. RoleFlagConsistent'
    BY <1>4, <2>2, <2>5 DEF IInv, RoleFlagConsistent, Consistent, Running
  <2>9. ASSUME NEW s \in Requests, Running(s)'
        PROVE  LoadedFits(req[s])' /\ LocksHold(req[s])'
    <3>1. s # r /\ req'[s] = req[s] /\ req[s] \in Request /\ LoadedFits(req[s])
      BY <1>4, <2>9 DEF Running, IInv, TypeOK
    <3>2. LocksHold(req[s])'
      BY <1>4, <3>1 DEF LocksHold
    <3>3. CASE req[s].target # t
      <4>1. row'[req[s].target] = row[req[s].target]
        BY <2>5, <3>1, <3>3 DEF Request
      <4>2. born' = born /\ outbox \subseteq outbox'
        BY <1>2, <2>4
      <4>3. LoadedFits(req[s])'
        BY <3>1, <4>1, <4>2 DEF LoadedFits
      <4> QED BY <3>2, <4>3
    <3>4. CASE req[s].target = t
      <4>1. req[s].loaded.gen \in 1 .. GenMax /\ row[t].gen \in 1 .. GenMax
        BY <1>1, <3>1 DEF Request, Row
      <4>2. req[s].loaded.gen < row'[t].gen
        BY <2>3, <2>5, <3>1, <3>4, <4>1 DEF LoadedFits
      <4>3. \A g \in 1 .. GenMax :
               req[s].loaded.gen < g /\ g <= row'[t].gen => <<t, g>> \in outbox'
        BY <2>3, <2>4, <2>5, <3>1, <3>4, <4>1 DEF LoadedFits
      <4> QED BY <1>2, <3>1, <3>2, <3>4, <4>1, <4>2, <4>3, <2>3, <2>5 DEF LoadedFits
    <3> QED BY <3>2, <3>3, <3>4
  <2> QED BY <1>4, <2>7, <2>8, <2>9 DEF IInv
<1>7. CASE ~ AuthorizationChanged(q)
  <2>1. Written(q) = row[t]
    BY <1>1, <1>3, <1>7, UpdateWrites DEF IInv, CanFlush
  <2>2. UNCHANGED <<row, outbox, revision>>
    BY <1>2, <1>7, <2>1 DEF CommitUpdate, IInv, TypeOK
  <2>3. minted' \in [Users -> SUBSET Role]
    BY <1>1, <1>2, <2>2 DEF Mint, IInv, TypeOK, Row
  <2>4. TypeOK'
    BY <1>2, <1>5, <2>2, <2>3 DEF IInv, TypeOK
  <2>5. RoleFlagConsistent'
    BY <1>4, <2>2 DEF IInv, RoleFlagConsistent, Consistent, Running
  <2>6. \A s \in Requests : Running(s)' => LoadedFits(req[s])' /\ LocksHold(req[s])'
    BY <1>2, <1>4, <2>2
       DEF IInv, Running, LoadedFits, LocksHold, OtherSuperusers, ActiveSuperusers
  <2> QED BY <1>4, <2>4, <2>5, <2>6 DEF IInv
<1> QED BY <1>6, <1>7

(* A deletion leaves the row variable and the outbox alone. *)
LEMMA CommitDeleteStep ==
  ASSUME IInv, NEW r \in Requests, CommitDelete(r)
  PROVE  IInv'
<1> DEFINE q == req[r]
<1>1. /\ q \in Request /\ q.pc = "locked" /\ q.target \in Users
      /\ q.loaded \in Row /\ q.loaded.gen < GenMax
  BY DEF CommitDelete, GenerationLeft, IInv, TypeOK, Request, Idle
<1>2. /\ req' = [req EXCEPT ![r] = Idle]
      /\ UNCHANGED <<born, row, outbox, minted>>
      /\ present' \subseteq present
      /\ revision' = revision + 1
      /\ tombstone' = [tombstone EXCEPT ![q.target] = Terminal(q)]
  BY DEF CommitDelete, Finish
<1>3. Terminal(q) \in 0 .. GenMax
  BY <1>1 DEF Terminal, IInv, TypeOK, Row
<1>4. TypeOK'
  BY <1>1, <1>2, <1>3 DEF IInv, TypeOK
<1>5. /\ req'[r].pc = "idle"
      /\ \A s \in Requests : s # r => req'[s] = req[s] /\ req[s].pc # "locked"
  BY <1>1, <1>2 DEF IInv, TypeOK, Idle
<1>6. RoleFlagConsistent'
  BY <1>2, <1>5 DEF IInv, RoleFlagConsistent, Consistent, Running
<1>7. \A s \in Requests : Running(s)' => LoadedFits(req[s])' /\ LocksHold(req[s])'
  BY <1>2, <1>5 DEF IInv, Running, LoadedFits, LocksHold
<1> QED BY <1>4, <1>5, <1>6, <1>7 DEF IInv

(* A self-service deletion waits for row locks, so locked members stay. *)
LEMMA DeleteMeStep ==
  ASSUME IInv, NEW u \in Users, DeleteMe(u)
  PROVE  IInv'
<1>1. /\ UNCHANGED <<born, row, tombstone, outbox, revision, minted, req>>
      /\ present' = present \ {u} /\ ~ RowLocked(u)
  BY DEF DeleteMe
<1>2. TypeOK'
  BY <1>1 DEF IInv, TypeOK
<1>3. RoleFlagConsistent'
  BY <1>1 DEF IInv, RoleFlagConsistent, Consistent, Running
<1>4. ASSUME NEW s \in Requests, Running(s)'
      PROVE  LoadedFits(req[s])' /\ LocksHold(req[s])'
  <2>1. Running(s) /\ LoadedFits(req[s]) /\ LocksHold(req[s])
    BY <1>1, <1>4 DEF IInv, Running
  <2>2. LoadedFits(req[s])'
    BY <1>1, <2>1 DEF LoadedFits
  <2>3. LocksHold(req[s])'
    BY <1>1, <2>1
       DEF LocksHold, LeavesSet, IntendedRole, IntendedActive, RowLocked,
           OtherSuperusers, ActiveSuperusers
  <2> QED BY <2>2, <2>3
<1> QED BY <1>1, <1>2, <1>3, <1>4 DEF IInv

(* A new account has an id that no request and no lock names. *)
LEMMA NewUserStep ==
  ASSUME IInv, NEW u \in Users, NEW role \in Role, NEW active \in BOOLEAN,
         CreateUser(u, role, active) \/ Seed(u)
  PROVE  IInv'
<1>1. /\ u \notin born
      /\ born' = born \cup {u} /\ present' = present \cup {u}
      /\ UNCHANGED <<tombstone, outbox, revision, req>>
      /\ minted' = Mint(u, row'[u])
  BY DEF CreateUser, Seed
<1>2. PICK new \in Row : row' = [row EXCEPT ![u] = new] /\ Consistent(new)
  BY NewRowType, RoleFacts DEF CreateUser, Seed
<1>3. row' \in [Users -> Row] /\ row'[u] = new
      /\ \A v \in Users : v # u => row'[v] = row[v]
  BY <1>2 DEF IInv, TypeOK
<1>4. minted' \in [Users -> SUBSET Role]
  BY <1>1, <1>3 DEF Mint, IInv, TypeOK, Row
<1>5. TypeOK'
  BY <1>1, <1>3, <1>4 DEF IInv, TypeOK
<1>6. RoleFlagConsistent'
  BY <1>1, <1>2, <1>3 DEF IInv, RoleFlagConsistent, Consistent, Running
<1>7. ASSUME NEW s \in Requests, Running(s)'
      PROVE  LoadedFits(req[s])' /\ LocksHold(req[s])'
  <2>1. Running(s) /\ LoadedFits(req[s]) /\ LocksHold(req[s])
    BY <1>1, <1>7 DEF IInv, Running
  <2>2. req[s].target \in Users /\ req[s].target # u
    BY <1>1, <2>1 DEF LoadedFits, IInv, TypeOK
  <2>3. LoadedFits(req[s])'
    BY <1>1, <1>3, <2>1, <2>2 DEF LoadedFits
  <2>4. OtherSuperusers(req[s].target) \subseteq OtherSuperusers(req[s].target)'
    BY <1>1, <1>3 DEF OtherSuperusers, ActiveSuperusers, IInv, TypeOK
  <2>5. LeavesSet(req[s])' <=> LeavesSet(req[s])
    BY <1>1 DEF LeavesSet, IntendedRole, IntendedActive
  <2>6. LocksHold(req[s])'
    BY <1>1, <2>1, <2>4, <2>5 DEF LocksHold
  <2> QED BY <2>3, <2>6
<1> QED BY <1>1, <1>5, <1>6, <1>7 DEF IInv

(* Reaping takes only keys that no request in flight can collide with. *)
LEMMA ReapStep ==
  ASSUME IInv, RetentionCoversRequests, NEW key \in outbox, Reap(key)
  PROVE  IInv'
<1>1. /\ UNCHANGED <<present, born, row, tombstone, revision, minted, req>>
      /\ outbox' = outbox \ {key}
      /\ \A r \in Requests :
            Running(r) /\ req[r].target = key[1] => req[r].loaded.gen >= key[2]
  BY DEF Reap
<1>2. TypeOK'
  BY <1>1 DEF IInv, TypeOK
<1>3. RoleFlagConsistent'
  BY <1>1 DEF IInv, RoleFlagConsistent, Consistent, Running
<1>4. ASSUME NEW s \in Requests, Running(s)'
      PROVE  LoadedFits(req[s])' /\ LocksHold(req[s])'
  <2>a. Running(s) /\ LoadedFits(req[s]) /\ LocksHold(req[s])
    BY <1>1, <1>4 DEF IInv, Running
  <2>b. req[s] \in Request
    BY <2>a DEF IInv, TypeOK, Running, Idle
  <2>1. /\ Running(s) /\ LoadedFits(req[s]) /\ LocksHold(req[s])
        /\ req[s] \in Request
    BY <2>a, <2>b
  <2>2. LocksHold(req[s])'
    BY <1>1, <2>1
       DEF LocksHold, LeavesSet, IntendedRole, IntendedActive,
           OtherSuperusers, ActiveSuperusers
  <2>3. req[s].loaded.gen \in Int
    BY <2>1 DEF Request, Row
  <2>4. \A g \in 1 .. GenMax :
           req[s].loaded.gen < g /\ g <= row[req[s].target].gen
             => <<req[s].target, g>> \in outbox'
    BY <1>1, <2>1, <2>3 DEF LoadedFits
  <2> QED BY <1>1, <2>1, <2>2, <2>4 DEF LoadedFits
<1> QED BY <1>1, <1>2, <1>3, <1>4 DEF IInv

LEMMA StutterStep == ASSUME IInv, UNCHANGED vars PROVE IInv'
  BY DEF IInv, vars, TypeOK, RoleFlagConsistent, Consistent, Running, LoadedFits,
         LocksHold, LeavesSet, IntendedRole, IntendedActive, OtherSuperusers,
         ActiveSuperusers

LEMMA NextInvariant ==
  ASSUME IInv, RetentionCoversRequests, [Next]_vars
  PROVE  IInv'
<1>1. CASE \E r \in Requests, actor, u \in Users :
             \/ \E fields \in SUBSET {"role", "active"}, role \in Role,
                   active \in BOOLEAN :
                    LoadUpdate(r, actor, u, fields, role, active)
             \/ LoadDelete(r, actor, u)
  BY <1>1, LoadStep, RoleFacts
<1>2. CASE \E r \in Requests : Acquire(r)
  BY <1>2, AcquireStep
<1>3. CASE \E r \in Requests : Refuse(r) \/ Abort(r)
  BY <1>3, FinishStep
<1>4. CASE \E r \in Requests : CommitUpdate(r)
  BY <1>4, CommitUpdateStep
<1>5. CASE \E r \in Requests : CommitDelete(r)
  BY <1>5, CommitDeleteStep
<1>6. CASE \E u \in Users : DeleteMe(u)
  BY <1>6, DeleteMeStep
<1>7. CASE \E u \in Users :
             \/ \E role \in Role, active \in BOOLEAN : CreateUser(u, role, active)
             \/ Seed(u)
  BY <1>7, NewUserStep, RoleFacts
<1>8. CASE \E key \in outbox : Reap(key)
  BY <1>8, ReapStep
<1>9. CASE UNCHANGED vars
  BY <1>9, StutterStep
<1> QED BY <1>1, <1>2, <1>3, <1>4, <1>5, <1>6, <1>7, <1>8, <1>9 DEF Next

(* The invariant of the stale copies and of the locks (role_admin.py).      *)
THEOREM InvariantHolds == RetentionCoversRequests /\ Spec => []IInv
<1> SUFFICES ASSUME RetentionCoversRequests PROVE Spec => []IInv
  OBVIOUS
<1>1. Init => IInv
  BY InitInvariant
<1>2. IInv /\ [Next]_vars => IInv'
  BY NextInvariant
<1> QED BY <1>1, <1>2, PTL DEF Spec

(* Every variable of the model has its type in every reachable state.       *)
THEOREM TypeCorrect == RetentionCoversRequests /\ Spec => []TypeOK
<1>1. IInv => TypeOK
  BY DEF IInv
<1> QED BY <1>1, InvariantHolds, PTL

(* ck_user_role_superuser_consistent never refuses an update that passes    *)
(* the generation ceiling and the unique publish key: apply_user_update     *)
(* and the column-wise flush leave a canonical pair, stale copy or not.     *)
THEOREM CanonicalWrites == RetentionCoversRequests /\ Spec => []ConstraintNeverBites
<1>1. ASSUME IInv, NEW r \in Requests, req[r].pc = "locked",
             req[r].op = "update", Fenced(req[r])
      PROVE  Consistent(Written(req[r]))
  <2>1. /\ req[r] \in Request /\ LoadedFits(req[r]) /\ Consistent(req[r].loaded)
        /\ req[r].target \in Users
    BY <1>1 DEF IInv, TypeOK, RoleFlagConsistent, Running, Idle, Request
  <2>2. CASE AuthorizationChanged(req[r])
    <3>1. Written(req[r]) = Flushed(req[r])
      BY <1>1, <2>1, <2>2, UpdateWrites DEF IInv
    <3> QED BY <1>1, <2>1, <3>1, FlushedType DEF Fenced, GenerationLeft
  <2>3. CASE ~ AuthorizationChanged(req[r])
    <3>1. Written(req[r]) = row[req[r].target]
      BY <1>1, <2>1, <2>3, UpdateWrites DEF IInv
    <3> QED BY <1>1, <2>1, <3>1 DEF IInv, RoleFlagConsistent
  <2> QED BY <2>2, <2>3
<1>2. IInv => ConstraintNeverBites
  BY <1>1 DEF ConstraintNeverBites
<1> QED BY <1>2, InvariantHolds, PTL

-----------------------------------------------------------------------------
(* What a step does to the set of active superusers *)

(* The commit of change_user_authorization adds its target, removes it      *)
(* while others remain, or leaves the set as it is.                         *)
LEMMA CommitUpdateSet ==
  ASSUME IInv, NEW r \in Requests, CommitUpdate(r)
  PROVE  LET t == req[r].target IN
         \/ ActiveSuperusers' = ActiveSuperusers
         \/ ActiveSuperusers' = ActiveSuperusers \cup {t}
         \/ /\ ActiveSuperusers \ {t} # {}
            /\ ActiveSuperusers' = ActiveSuperusers \ {t}
<1> DEFINE q == req[r]
           t == q.target
<1>1. /\ q \in Request /\ q.pc = "locked" /\ t \in Users /\ q.op = "update"
      /\ CanFlush(q) /\ LoadedFits(q) /\ LocksHold(q) /\ Consistent(q.loaded)
  BY DEF CommitUpdate, IInv, TypeOK, Request, Idle, RoleFlagConsistent, Running
<1>2. /\ present' = present /\ row' = [row EXCEPT ![t] = Written(q)]
      /\ row \in [Users -> Row] /\ present \subseteq Users
  BY DEF CommitUpdate, IInv, TypeOK
<1>3. /\ row'[t] = Written(q)
      /\ \A u \in Users : u # t => row'[u] = row[u]
  BY <1>1, <1>2
<1>4. ActiveSuperusers' \ {t} = ActiveSuperusers \ {t}
  BY <1>2, <1>3 DEF ActiveSuperusers, IsActiveSuperuser
<1>5. CASE t \notin ActiveSuperusers \/ t \in ActiveSuperusers'
  BY <1>4, <1>5
<1>6. CASE t \in ActiveSuperusers /\ t \notin ActiveSuperusers'
  <2>1. IsActiveSuperuser(row[t]) /\ ~ IsActiveSuperuser(Written(q))
    BY <1>2, <1>3, <1>6 DEF ActiveSuperusers, IsActiveSuperuser
  <2>2. AuthorizationChanged(q) /\ q.loaded = row[t] /\ Written(q) = Flushed(q)
    BY <1>1, <2>1, UpdateWrites DEF IInv, CanFlush
  <2>3. Consistent(Flushed(q)) /\ Flushed(q) \in Row
    BY <1>1, FlushedType DEF CanFlush, Fenced, GenerationLeft
  <2>4. LeavesSet(q)
    BY <2>1, <2>2, <2>3
       DEF LeavesSet, WouldBeActiveSuperuser, IsActiveSuperuser, Consistent, Flushed
  <2>5. ActiveSuperusers \ {t} # {}
    BY <1>1, <2>4 DEF LocksHold, OtherSuperusers
  <2> QED BY <1>4, <1>6, <2>5
<1> QED BY <1>5, <1>6

(* A deletion decided on a current copy keeps the others it locked.         *)
LEMMA FreshDeleteSet ==
  ASSUME IInv, NEW r \in Requests, CommitDelete(r),
         req[r].loaded = row[req[r].target], ActiveSuperusers # {}
  PROVE  ActiveSuperusers' # {}
<1> DEFINE q == req[r]
           t == q.target
<1>1. /\ q \in Request /\ q.pc = "locked" /\ t \in Users /\ q.op = "delete"
      /\ LocksHold(q)
  BY DEF CommitDelete, IInv, TypeOK, Request, Idle, Running
<1>2. present' = present \ {t} /\ row' = row
  BY DEF CommitDelete
<1>3. ActiveSuperusers' = ActiveSuperusers \ {t}
  BY <1>2 DEF ActiveSuperusers, IsActiveSuperuser
<1>4. CASE t \in ActiveSuperusers
  BY <1>1, <1>3, <1>4
     DEF LeavesSet, LocksHold, OtherSuperusers, ActiveSuperusers, IsActiveSuperuser
<1>5. CASE t \notin ActiveSuperusers
  BY <1>3, <1>5
<1> QED BY <1>4, <1>5

(* A new account can only join. *)
LEMMA NewUserSet ==
  ASSUME IInv, NEW u \in Users, NEW role \in Role, NEW active \in BOOLEAN,
         CreateUser(u, role, active) \/ Seed(u)
  PROVE  \/ ActiveSuperusers' = ActiveSuperusers
         \/ ActiveSuperusers' = ActiveSuperusers \cup {u}
<1>1. /\ u \notin present /\ present \subseteq Users
      /\ present' = present \cup {u}
      /\ \A v \in Users : v # u => row'[v] = row[v]
  BY DEF CreateUser, Seed, IInv, TypeOK
<1>2. ActiveSuperusers' \ {u} = ActiveSuperusers
  BY <1>1 DEF ActiveSuperusers, IsActiveSuperuser
<1> QED BY <1>2

(* The promise of _enforce_last_superuser_invariant for updates: whatever   *)
(* copy it was decided on, a committed role or activation change never      *)
(* empties the set.                                                         *)
THEOREM UpdatesKeepTheSet == RetentionCoversRequests /\ Spec => UpdateKeepsSet
<1>1. ASSUME IInv, NEW r \in Requests, CommitUpdate(r), ActiveSuperusers # {}
      PROVE  ActiveSuperusers' # {}
  BY <1>1, CommitUpdateSet
<1>2. IInv /\ [Next]_vars =>
        [(\E r \in Requests : CommitUpdate(r)) /\ ActiveSuperusers # {}
            => ActiveSuperusers' # {}]_vars
  BY <1>1
<1> QED BY <1>2, InvariantHolds, PTL DEF Spec, UpdateKeepsSet

(* The same promise for delete_user_account, when the unlocked copy it      *)
(* decided on is still current at the commit.                               *)
THEOREM FreshDeletesKeepTheSet ==
  RetentionCoversRequests /\ Spec => FreshDeleteKeepsSet
<1>1. IInv /\ [Next]_vars =>
        [(\E r \in Requests : CommitDelete(r)
                 /\ req[r].loaded = row[req[r].target])
            /\ ActiveSuperusers # {} => ActiveSuperusers' # {}]_vars
  BY FreshDeleteSet
<1> QED BY <1>1, InvariantHolds, PTL DEF Spec, FreshDeleteKeepsSet

-----------------------------------------------------------------------------
(* Requests stay as they were vetted when they were loaded. *)

LEMMA InitVetted == Init => AllVetted
  BY DEF Init, AllVetted, Running, Idle

LEMMA NextVetted ==
  ASSUME IInv, AllVetted, [Next]_vars
  PROVE  AllVetted'
<1> USE DEF AllVetted
<1>1. CASE UNCHANGED req
  BY <1>1 DEF Running, Vetted, IntendedRole
<1>2. ASSUME NEW r \in Requests, req' = [req EXCEPT ![r] = Idle]
      PROVE  AllVetted'
  <2>1. /\ req'[r].pc = "idle"
        /\ \A s \in Requests : s # r => req'[s] = req[s]
    BY <1>2 DEF IInv, TypeOK, Idle
  <2> QED BY <2>1 DEF Running, Vetted, IntendedRole
<1>3. ASSUME NEW r \in Requests, NEW actor \in Users, NEW u \in Users,
             NEW fields \in SUBSET {"role", "active"}, NEW role \in Role,
             NEW active \in BOOLEAN,
             LoadUpdate(r, actor, u, fields, role, active)
      PROVE  AllVetted'
  <2>1. /\ req'[r] = [pc |-> "loaded", op |-> "update", target |-> u,
                      loaded |-> row[u], self |-> actor = u, fields |-> fields,
                      role |-> role, active |-> active, locks |-> {}]
        /\ \A s \in Requests : s # r => req'[s] = req[s]
        /\ "update" \in Ops
        /\ ~ ("role" \in fields /\ actor = u /\ role > row[u].role)
    BY <1>3 DEF LoadUpdate, IInv, TypeOK
  <2>2. row[u].role \in Int /\ role \in Int
    BY DEF IInv, TypeOK, Row, Role
  <2>3. /\ req'[r].op = "update" /\ req'[r].fields = fields
        /\ req'[r].role = role /\ req'[r].loaded = row[u]
        /\ req'[r].self = (actor = u)
    BY <2>1
  <2>4. actor = u => IntendedRole(req'[r]) <= row[u].role
    BY <2>1, <2>2, <2>3 DEF IntendedRole
  <2>5. Vetted(req[r])'
    BY <2>1, <2>3, <2>4 DEF Vetted, IntendedRole
  <2> QED BY <2>1, <2>5 DEF Running, Vetted, IntendedRole
<1>4. ASSUME NEW r \in Requests, NEW actor \in Users, NEW u \in Users,
             LoadDelete(r, actor, u)
      PROVE  AllVetted'
  <2>1. /\ req'[r] = [pc |-> "loaded", op |-> "delete", target |-> u,
                      loaded |-> row[u], self |-> actor = u, fields |-> {},
                      role |-> 0, active |-> TRUE, locks |-> {}]
        /\ \A s \in Requests : s # r => req'[s] = req[s]
        /\ "delete" \in Ops
    BY <1>4 DEF LoadDelete, IInv, TypeOK
  <2>2. row[u].role \in Int
    BY DEF IInv, TypeOK, Row, Role
  <2>3. Vetted(req[r])'
    BY <2>1, <2>2 DEF Vetted, IntendedRole
  <2> QED BY <2>1, <2>3 DEF Running, Vetted, IntendedRole
<1>5. ASSUME NEW r \in Requests, Acquire(r)
      PROVE  AllVetted'
  <2> DEFINE L == IF LeavesSet(req[r]) THEN OtherSuperusers(req[r].target) ELSE {}
  <2>1. /\ req'[r] = [req[r] EXCEPT !.pc = "locked", !.locks = L]
        /\ \A s \in Requests : s # r => req'[s] = req[s]
        /\ req[r] \in Request /\ Running(r)
    BY <1>5 DEF Acquire, IInv, TypeOK, Idle, Running
  <2>2. /\ req'[r].op = req[r].op /\ req'[r].self = req[r].self
        /\ req'[r].fields = req[r].fields /\ req'[r].role = req[r].role
        /\ req'[r].loaded = req[r].loaded
    <3> HIDE DEF L
    <3> QED BY <2>1 DEF Request
  <2>3. Vetted(req[r])'
    BY <2>1, <2>2 DEF Vetted, IntendedRole
  <2> QED BY <2>1, <2>3 DEF Running, Vetted, IntendedRole
<1>6. CASE \E r \in Requests : Refuse(r) \/ Abort(r) \/ CommitUpdate(r) \/ CommitDelete(r)
  BY <1>2, <1>6 DEF Refuse, Abort, CommitUpdate, CommitDelete, Finish
<1>7. CASE \/ \E u \in Users :
               \/ DeleteMe(u)
               \/ \E role \in Role, active \in BOOLEAN : CreateUser(u, role, active)
               \/ Seed(u)
           \/ \E key \in outbox : Reap(key)
           \/ UNCHANGED vars
  BY <1>1, <1>7 DEF DeleteMe, CreateUser, Seed, Reap, vars
<1> QED BY <1>3, <1>4, <1>5, <1>6, <1>7 DEF Next

LEMMA VettedHolds == RetentionCoversRequests /\ Spec => []AllVetted
<1> SUFFICES ASSUME RetentionCoversRequests PROVE Spec => []AllVetted
  OBVIOUS
<1>1. Init => AllVetted
  BY InitVetted
<1>2. IInv /\ AllVetted /\ [Next]_vars => AllVetted'
  BY NextVetted
<1>3. Spec => []IInv
  BY InvariantHolds
<1> QED BY <1>1, <1>2, <1>3, PTL DEF Spec

(* The steps that leave the user table alone. *)
QuietStep ==
    \/ \E r \in Requests, actor, v \in Users :
          \/ \E fields \in SUBSET {"role", "active"}, role \in Role,
                active \in BOOLEAN :
                 LoadUpdate(r, actor, v, fields, role, active)
          \/ LoadDelete(r, actor, v)
    \/ \E r \in Requests : Acquire(r) \/ Refuse(r) \/ Abort(r)
    \/ \E key \in outbox : Reap(key)
    \/ UNCHANGED vars

LEMMA QuietSteps == QuietStep => UNCHANGED <<present, born, row>>
<1>1. ASSUME NEW r, NEW actor, NEW v, NEW fields, NEW role, NEW active,
             LoadUpdate(r, actor, v, fields, role, active)
      PROVE  UNCHANGED <<present, born, row>>
  BY <1>1, Zenon DEF LoadUpdate
<1>2. ASSUME NEW r, NEW actor, NEW v, LoadDelete(r, actor, v)
      PROVE  UNCHANGED <<present, born, row>>
  BY <1>2, Zenon DEF LoadDelete
<1>3. ASSUME NEW r, Acquire(r) \/ Refuse(r) \/ Abort(r)
      PROVE  UNCHANGED <<present, born, row>>
  BY <1>3, Zenon DEF Acquire, Refuse, Abort
<1>4. ASSUME NEW key, Reap(key)
      PROVE  UNCHANGED <<present, born, row>>
  BY <1>4, Zenon DEF Reap
<1>5. UNCHANGED vars => UNCHANGED <<present, born, row>>
  BY DEF vars
<1> QED BY <1>1, <1>2, <1>3, <1>4, <1>5, Zenon DEF QuietStep

(* What a commit of change_user_authorization does to the rows.  *)
LEMMA CommitUpdateRow ==
  ASSUME IInv, NEW r \in Requests, CommitUpdate(r)
  PROVE  LET q == req[r] IN
         /\ \A u \in Users : u # q.target => row'[u] = row[u]
         /\ \/ row'[q.target] = row[q.target]
            \/ /\ AuthorizationChanged(q) /\ q.loaded = row[q.target]
               /\ row'[q.target] = Flushed(q)
<1> DEFINE q == req[r]
<1>1. /\ q \in Request /\ q.target \in Users /\ CanFlush(q)
      /\ LoadedFits(q) /\ Consistent(q.loaded)
  BY DEF CommitUpdate, IInv, TypeOK, Request, Idle, RoleFlagConsistent, Running
<1>2. row \in [Users -> Row] /\ row' = [row EXCEPT ![q.target] = Written(q)]
  BY DEF CommitUpdate, IInv, TypeOK
<1> QED BY <1>1, <1>2, UpdateWrites DEF IInv, CanFlush

(* bump_user_generation (next_generation): each change of role or           *)
(* activation is one commit and one step of the generation, so no two       *)
(* changes share a generation.                                              *)
THEOREM GenerationsFence == RetentionCoversRequests /\ Spec => GenerationFencesChanges
<1> DEFINE Fence(u) ==
       IF row'[u].role = row[u].role /\ row'[u].active = row[u].active
         THEN row'[u].gen = row[u].gen
         ELSE row'[u].gen = row[u].gen + 1
<1>1. ASSUME IInv, NEW r \in Requests, CommitUpdate(r), NEW u \in Users
      PROVE  Fence(u)
  <2>1. CASE row'[u] = row[u]
    BY <2>1
  <2>2. CASE row'[u] # row[u]
    <3>1. /\ u = req[r].target /\ AuthorizationChanged(req[r])
          /\ req[r].loaded = row[u] /\ row'[u] = Flushed(req[r])
      BY <1>1, <2>2, CommitUpdateRow
    <3> QED BY <3>1 DEF Flushed, AuthorizationChanged
  <2> QED BY <2>1, <2>2
<1>2. ASSUME IInv, [Next]_vars, ~ \E r \in Requests : CommitUpdate(r),
             NEW u \in born
      PROVE  row'[u] = row[u]
  <2>1. CASE \E v \in Users :
               \/ \E role \in Role, active \in BOOLEAN : CreateUser(v, role, active)
               \/ Seed(v)
    BY <1>2, <2>1 DEF CreateUser, Seed, IInv, TypeOK
  <2>2. CASE UNCHANGED row
    BY <2>2
  <2>3. CASE \/ QuietStep
             \/ \E r \in Requests : CommitDelete(r)
             \/ \E v \in Users : DeleteMe(v)
    BY <2>2, <2>3, QuietSteps DEF CommitDelete, DeleteMe
  <2> QED BY <1>2, <2>1, <2>3 DEF Next, QuietStep
<1>3. IInv /\ [Next]_vars => [\A u \in born : Fence(u)]_vars
  BY <1>1, <1>2 DEF IInv, TypeOK
<1> QED BY <1>3, InvariantHolds, PTL DEF Spec, GenerationFencesChanges

-----------------------------------------------------------------------------
(* The tombstone of a deleted account *)

(* Every deletion by an administrator commits on a current copy.             *)
DeletesFresh ==
    [][\A r \in Requests : CommitDelete(r) => req[r].loaded = row[req[r].target]]_vars

(* An id with a tombstone had a row and has none, and its tombstone outranks *)
(* every generation that row ever had.                                       *)
Outranked(u) == tombstone[u] # 0 => u \in born \ present /\ tombstone[u] > row[u].gen

(* A flush that changes the authorization needs a row to update.             *)
LEMMA CommitUpdateOutranked ==
  ASSUME IInv, NEW r \in Requests, CommitUpdate(r), NEW u \in Users, Outranked(u)
  PROVE  Outranked(u)'
<1> DEFINE q == req[r]
<1>1. UNCHANGED <<present, born, tombstone>> /\ CanFlush(q) /\ q \in Request
  BY DEF CommitUpdate, IInv, TypeOK, Request, Idle
<1>2. SUFFICES ASSUME tombstone[u] # 0 PROVE row'[u] = row[u]
  BY <1>1 DEF Outranked
<1>3. u \notin present
  BY <1>2 DEF Outranked
<1>4. ASSUME u = q.target, AuthorizationChanged(q) PROVE FALSE
  <2>1. q.loaded.gen \in Nat
    BY <1>1 DEF Request, Row
  <2>2. Flushed(q).gen # q.loaded.gen
    BY <1>4, <2>1 DEF Flushed
  <2> QED BY <1>1, <1>3, <1>4, <2>2 DEF CanFlush
<1> QED BY <1>4, CommitUpdateRow

(* write_deletion_tombstone, from a current copy.                            *)
LEMMA CommitDeleteOutranked ==
  ASSUME IInv, NEW r \in Requests, CommitDelete(r),
         req[r].loaded = row[req[r].target],
         NEW u \in Users, Outranked(u)
  PROVE  Outranked(u)'
<1> DEFINE q == req[r]
<1>1. /\ q \in Request /\ q.target \in born /\ q.target \in Users
      /\ q.loaded.gen \in Nat /\ GenMax \in Nat
  BY DEF CommitDelete, IInv, TypeOK, Request, Row, Idle, Running, LoadedFits
<1>2. /\ UNCHANGED <<born, row>> /\ present' = present \ {q.target}
      /\ tombstone' = [tombstone EXCEPT ![q.target] = Terminal(q)]
      /\ tombstone \in [Users -> 0 .. GenMax]
  BY DEF CommitDelete, IInv, TypeOK
<1>3. CASE u # q.target
  BY <1>1, <1>2, <1>3 DEF Outranked
<1>4. CASE u = q.target
  <2>1. tombstone'[u] = Terminal(q) /\ Terminal(q) > q.loaded.gen
    BY <1>1, <1>2, <1>4 DEF Terminal
  <2> QED BY <1>1, <1>2, <1>4, <2>1 DEF Outranked
<1> QED BY <1>3, <1>4

LEMMA OutrankedStep ==
  ASSUME IInv, [Next]_vars, NEW u \in Users, Outranked(u),
         [\A r \in Requests : CommitDelete(r) => req[r].loaded = row[req[r].target]]_vars
  PROVE  Outranked(u)'
<1>1. ASSUME NEW r \in Requests, CommitDelete(r) PROVE Outranked(u)'
  <2>1. CASE req[r].loaded = row[req[r].target]
    BY <1>1, <2>1, CommitDeleteOutranked
  <2>2. CASE UNCHANGED vars
    BY <2>2 DEF vars, Outranked
  <2> QED BY <1>1, <2>1, <2>2
<1>2. ASSUME NEW v \in Users, DeleteMe(v) PROVE Outranked(u)'
  BY <1>2 DEF DeleteMe, Outranked
<1>3. ASSUME NEW v \in Users,
             (\E role \in Role, active \in BOOLEAN : CreateUser(v, role, active)) \/ Seed(v)
      PROVE  Outranked(u)'
  <2>1. /\ UNCHANGED tombstone /\ v \notin born
        /\ born' = born \cup {v} /\ present' = present \cup {v}
        /\ u # v => row'[u] = row[u]
    BY <1>3 DEF CreateUser, Seed, IInv, TypeOK
  <2> QED BY <2>1 DEF Outranked
<1>4. CASE QuietStep
  <2>1. UNCHANGED tombstone
    <3>1. ASSUME NEW r, NEW actor, NEW v, NEW fields, NEW role, NEW active,
                 LoadUpdate(r, actor, v, fields, role, active)
          PROVE  UNCHANGED tombstone
      BY <3>1, Zenon DEF LoadUpdate
    <3>2. ASSUME NEW r, NEW actor, NEW v, LoadDelete(r, actor, v)
          PROVE  UNCHANGED tombstone
      BY <3>2, Zenon DEF LoadDelete
    <3>3. ASSUME NEW r, Acquire(r) \/ Refuse(r) \/ Abort(r) PROVE UNCHANGED tombstone
      BY <3>3, Zenon DEF Acquire, Refuse, Abort
    <3>4. ASSUME NEW key, Reap(key) PROVE UNCHANGED tombstone
      BY <3>4, Zenon DEF Reap
    <3>5. UNCHANGED vars => UNCHANGED tombstone
      BY DEF vars
    <3> QED BY <1>4, <3>1, <3>2, <3>3, <3>4, <3>5, Zenon DEF QuietStep
  <2> QED BY <1>4, <2>1, QuietSteps DEF Outranked
<1> QED BY <1>1, <1>2, <1>3, <1>4, CommitUpdateOutranked DEF Next, QuietStep

(* When deletions commit on current copies, an account with a tombstone is   *)
(* gone for good and its terminal generation lies above every generation its *)
(* row ever had, whatever updates, self-deletions and repeated deletions of  *)
(* the same account overlap (write_deletion_tombstone).                      *)
THEOREM TombstoneOutranks ==
  RetentionCoversRequests /\ Spec /\ DeletesFresh => [](\A u \in Users : Outranked(u))
<1>1. Init => \A u \in Users : Outranked(u)
  BY DEF Init, Outranked
<1>2. IInv /\ (\A u \in Users : Outranked(u)) /\ [Next]_vars
        /\ [\A r \in Requests : CommitDelete(r) => req[r].loaded = row[req[r].target]]_vars
      => (\A u \in Users : Outranked(u))'
  BY OutrankedStep
<1> QED BY <1>1, <1>2, InvariantHolds, PTL DEF Spec, DeletesFresh

-----------------------------------------------------------------------------
(* Self-promotion *)

(* _reject_self_promotion runs before any lock and on a copy that may be    *)
(* stale; the role written is nevertheless not above the stored one.        *)
THEOREM NoOnePromotesThemselves == RetentionCoversRequests /\ Spec => NoSelfPromotion
<1>1. ASSUME IInv, AllVetted, NEW r \in Requests, CommitUpdate(r), req[r].self
      PROVE  row'[req[r].target].role <= row[req[r].target].role
  <2>1. req[r].target \in Users /\ Running(r)
    BY <1>1 DEF CommitUpdate, IInv, TypeOK, Request, Idle, Running
  <2>2. row[req[r].target].role \in Int
    <3>1. row[req[r].target] \in Row
      BY <1>1, <2>1 DEF IInv, TypeOK
    <3> QED BY <3>1 DEF Row, Role
  <2>3. IntendedRole(req[r]) <= req[r].loaded.role
    BY <1>1, <2>1 DEF AllVetted, Vetted
  <2>4. \/ row'[req[r].target] = row[req[r].target]
        \/ /\ req[r].loaded = row[req[r].target]
           /\ row'[req[r].target] = Flushed(req[r])
    BY <1>1, CommitUpdateRow
  <2>5. Flushed(req[r]).role = IntendedRole(req[r])
    BY DEF Flushed
  <2> QED BY <2>2, <2>3, <2>4, <2>5
<1>2. IInv /\ AllVetted /\ [Next]_vars =>
        [\A r \in Requests : CommitUpdate(r) /\ req[r].self
            => row'[req[r].target].role <= row[req[r].target].role]_vars
  BY <1>1
<1> QED BY <1>2, InvariantHolds, VettedHolds, PTL DEF Spec, NoSelfPromotion

-----------------------------------------------------------------------------
(* Refinement of the roster *)

(* When only updates and account creations arrive, a step changes the set   *)
(* as the abstract roster does.                                             *)
LEMMA RosterStep ==
  ASSUME IInv, AllVetted, [Next]_vars, Ops \subseteq {"update", "create"}
  PROVE  Roster!Next \/ UNCHANGED ActiveSuperusers
<1>1. CASE UNCHANGED <<present, row>>
  BY <1>1 DEF ActiveSuperusers, IsActiveSuperuser
<1>2. CASE \E r \in Requests : CommitUpdate(r)
  <2>1. PICK r \in Requests : CommitUpdate(r)
    BY <1>2
  <2>2. req[r].target \in Users
    BY <2>1 DEF CommitUpdate, IInv, TypeOK, Request, Idle
  <2> QED BY <2>1, <2>2, CommitUpdateSet DEF Roster!Next, Roster!Join, Roster!Leave
<1>3. CASE \E u \in Users :
             \/ \E role \in Role, active \in BOOLEAN : CreateUser(u, role, active)
             \/ Seed(u)
  BY <1>3, NewUserSet, RoleFacts DEF Roster!Next, Roster!Join
<1>4. CASE \E r \in Requests : CommitDelete(r)
  BY <1>4 DEF CommitDelete, AllVetted, Vetted, Running
<1>5. CASE \E u \in Users : DeleteMe(u)
  BY <1>5 DEF DeleteMe
<1>6. CASE UNCHANGED vars
  BY <1>1, <1>6 DEF vars
<1>7. CASE QuietStep
  BY <1>1, <1>7, QuietSteps
<1> QED BY <1>2, <1>3, <1>4, <1>5, <1>6, <1>7 DEF Next, QuietStep

LEMMA RosterInit == Init => Roster!Init
  BY DEF Init, Roster!Init, ActiveSuperusers

(* The first account is the seeded one, and it is a member. *)
LEMMA FirstAccount ==
  ASSUME IInv, [Next]_vars, born = {}, born' # {}
  PROVE  ActiveSuperusers' # {}
<1>1. PICK u \in Users : Seed(u)
  <2>1. ~ \E v \in Users, role \in Role, active \in BOOLEAN : CreateUser(v, role, active)
    BY DEF CreateUser
  <2>2. QuietStep => born' = born
    BY QuietSteps
  <2>3. CASE \E r \in Requests : CommitUpdate(r) \/ CommitDelete(r)
    BY <2>3 DEF CommitUpdate, CommitDelete
  <2>4. CASE \E v \in Users : DeleteMe(v)
    BY <2>4 DEF DeleteMe
  <2> QED BY <2>1, <2>2, <2>3, <2>4 DEF Next, QuietStep
<1>2. u \in present' /\ row'[u] = NewRow(TopRole, TRUE)
  BY <1>1 DEF Seed, IInv, TypeOK
<1>3. row'[u].role = TopRole /\ row'[u].flag /\ row'[u].active
  <2>1. NewRow(TopRole, TRUE) =
          [role |-> TopRole, flag |-> TRUE, active |-> TRUE, gen |-> 1]
    BY Zenon DEF NewRow, DeriveIsSuperuser
  <2>2. row'[u] = [role |-> TopRole, flag |-> TRUE, active |-> TRUE, gen |-> 1]
    BY <1>2, <2>1, Zenon
  <2> QED BY <2>2
<1>4. u \in ActiveSuperusers'
  BY <1>2, <1>3 DEF ActiveSuperusers, IsActiveSuperuser
<1> QED BY <1>4

(* Role and activation changes, over any stale copies, together with        *)
(* account creation implement the roster of SuperuserRoster.                *)
THEOREM UpdatesImplementRoster ==
  RetentionCoversRequests /\ Ops \subseteq {"update", "create"} /\ Spec => RosterSpec
<1> SUFFICES ASSUME RetentionCoversRequests, Ops \subseteq {"update", "create"}
             PROVE  Spec => RosterSpec
  OBVIOUS
<1>1. Init => Roster!Init
  BY RosterInit
<1>2. IInv /\ AllVetted /\ [Next]_vars => [Roster!Next]_ActiveSuperusers
  BY RosterStep
<1>3. Spec => []IInv /\ []AllVetted
  BY InvariantHolds, VettedHolds
<1> QED BY <1>1, <1>2, <1>3, PTL DEF Spec, RosterSpec, Roster!Spec

(* The set is never empty while only updates and creations arrive: the      *)
(* invariant that role_admin.py states.                                     *)
THEOREM UpdatesNeverEmptyTheSet ==
  RetentionCoversRequests /\ Ops \subseteq {"update", "create"} /\ Spec
    => []SetNeverEmpty
<1> SUFFICES ASSUME RetentionCoversRequests, Ops \subseteq {"update", "create"}
             PROVE  Spec => []SetNeverEmpty
  OBVIOUS
<1>1. Init => SetNeverEmpty
  BY DEF Init, SetNeverEmpty
<1>2. IInv /\ AllVetted /\ SetNeverEmpty /\ [Next]_vars => SetNeverEmpty'
  <2> SUFFICES ASSUME IInv, AllVetted, SetNeverEmpty, [Next]_vars, born' # {}
               PROVE  ActiveSuperusers' # {}
    BY DEF SetNeverEmpty
  <2>1. CASE born = {}
    BY <2>1, FirstAccount
  <2>2. CASE ActiveSuperusers # {}
    BY <2>2, RosterStep DEF Roster!Next, Roster!Join, Roster!Leave
  <2> QED BY <2>1, <2>2 DEF SetNeverEmpty
<1>3. Spec => []IInv /\ []AllVetted
  BY InvariantHolds, VettedHolds
<1> QED BY <1>1, <1>2, <1>3, PTL DEF Spec
=============================================================================

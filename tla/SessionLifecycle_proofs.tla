----------------------- MODULE SessionLifecycle_proofs -----------------------
(***************************************************************************)
(* Proofs about SessionLifecycle, for any set of deployments, requests and *)
(* JTIs and any bound on the generation.                                   *)
(*                                                                         *)
(* The safety properties rest on one inductive invariant.  Its parts say   *)
(* what a request in flight may rely on between its statements:            *)
(*   Signing   a pair that is signed and not yet flushed is known to nobody*)
(*             else: no row, snapshot or client has its JTI;               *)
(*   Locking   one request at a time holds the user row, and while a       *)
(*             refresh holds it the account is what the refresh loaded;    *)
(*   Stamping  no stamp is ahead of the account's generation, so an        *)
(*             introspection whose row still matches saw a live session;   *)
(*   Repeating where plain reads repeat, a row that is both in a snapshot  *)
(*             and in the table belongs to the current generation;         *)
(*   Spending  an exchanged token has left the allowlist and, as long as   *)
(*             there is one row, the session table;                        *)
(*   Parting   a logout that has met no failure knows the JTI whose row it *)
(*             is about to delete, and has dropped it from the allowlist.  *)
(***************************************************************************)
EXTENDS SessionLifecycle, TLAPS

-----------------------------------------------------------------------------
(* The inductive invariant *)

Signed(q) == q.pc \in {"rotate", "select", "flush", "register"}
Unflushed(q) == q.pc \in {"rotate", "select", "flush"}

(* The request holds the user row. *)
RefreshHolds(q) ==
    /\ q.op = "refresh"
    /\ q.pc \in {"lineage", "rotate", "select", "flush", "capture", "erase"}
Holds(q) == RefreshHolds(q) \/ (q.op = "change" /\ q.pc = "erase")

(* No row and no request but the signer refers to the JTI. *)
Unwritten(j) ==
    /\ \A s \in rows : s.id # j /\ s.jti # j
    /\ \A p \in Requests :
          /\ req[p].row.id # j
          /\ \A v \in req[p].view : v.id # j

(* The program counters at which a request can be, and what it carries.     *)
Shape(q) ==
    /\ q.pc \in {"lock", "lineage", "rotate"} => q.op = "refresh"
    /\ q.pc \in {"select", "flush"} => q.op \in {"login", "refresh"}
    /\ q.pc = "register" => q.op = "login"
    /\ q.pc = "capture" => q.op \in {"change", "refresh"}
    /\ q.pc \in {"blacklist", "forget", "forget_row", "session", "owner"} => q.old \in issued
    /\ q.op = "refresh" /\ q.pc \notin {"accelerate", "drop"} => q.old \in issued
    /\ Signed(q) => q.new \in Jti /\ q.gen \in Gen
    /\ q.pc = "owner" => q.row \in SessionRow

Typed == TypeOK /\ \A r \in Requests : Shape(req[r])

Signing ==
    /\ spent \subseteq issued /\ loggedOut \subseteq issued
    /\ \A j \in Fresh : j \notin issued /\ Unwritten(j)
    /\ \A r \in Requests : Signed(req[r]) =>
          /\ claims[req[r].new] = req[r].gen
          /\ req[r].new \notin issued
          /\ \A p \in Requests :
                Signed(req[p]) /\ req[p].new = req[r].new => p = r
    /\ \A r \in Requests : Unflushed(req[r]) => Unwritten(req[r].new)

Locking ==
    /\ \A r, p \in Requests : Holds(req[r]) /\ Holds(req[p]) => r = p
    /\ \A r \in Requests : RefreshHolds(req[r]) =>
          account.exists /\ account.active /\ account.gen = req[r].gen
    /\ \A r \in Requests :
          req[r].op = "change" /\ req[r].pc = "erase" => GenerationLeft(account.gen)

Stamping ==
    /\ account.exists => ~ account.tombstone
    /\ \A s \in rows : s.stamp <= account.gen
    /\ \A r \in Requests :
          /\ req[r].gen <= account.gen
          /\ req[r].pc = "owner" =>
                /\ req[r].row.stamp <= account.gen
                /\ OwnerVouches(req[r].row.stamp) => req[r].valid

Repeating ==
    /\ \A s, t \in rows : s.id = t.id => s = t
    /\ site.snapshot =>
          /\ \A s \in rows : s.stamp = claims[s.jti]
          /\ \A r \in Requests : Unflushed(req[r]) =>
                /\ req[r].pc = "flush" =>
                      req[r].row \in req[r].view \/ (req[r].row = NoRow /\ req[r].view = {})
                /\ req[r].op = "refresh" => \E v \in req[r].view : v.id = req[r].lineage
                /\ ~ split => \A u, v \in req[r].view : u = v
                /\ \A v \in req[r].view, s \in rows : v.id = s.id =>
                      /\ account.gen = req[r].gen
                      /\ v.stamp = account.gen => s.stamp = account.gen

Exchanging(q) == q.op = "refresh" /\ q.pc \in {"select", "flush"}

Spending ==
    /\ ~ site.failOpen =>
          /\ allow \cap spent = {}
          /\ \A r \in Requests :
                /\ req[r].op = "refresh" => req[r].redis
                /\ Exchanging(req[r]) =>
                      req[r].old \notin allow /\ req[r].old \notin spent
    /\ ~ split =>
          /\ \A s, t \in rows : s = t
          /\ \A s \in rows : s.jti \notin spent
          /\ \A r \in Requests :
                req[r].op = "refresh" /\ Unflushed(req[r]) => req[r].old \notin spent

Parting ==
    ~ site.writeOpen =>
        \A r \in Requests :
            req[r].pc = "forget_row" /\ ~ req[r].failed =>
                req[r].new = req[r].old /\ req[r].old \notin allow

IInv == Typed /\ Signing /\ Locking /\ Stamping /\ Repeating /\ Spending /\ Parting /\ LogoutIsFinal

-----------------------------------------------------------------------------
(* The records of the requests *)

PCs == {"idle", "lock", "lineage", "rotate", "select", "flush", "register",
        "capture", "erase", "accelerate", "drop", "blacklist", "forget", "forget_row",
        "session", "owner"}

LEMMA IdleFacts ==
    /\ Idle \in Request
    /\ Idle.op = "none" /\ Idle.pc = "idle" /\ Idle.redis = FALSE /\ Idle.gen = 0
    /\ Idle.old = NoJti /\ Idle.new = NoJti /\ Idle.row = NoRow
    /\ Idle.view = {} /\ Idle.targets = {} /\ Idle.lineage = NoJti
<1>1. Idle = [op |-> "none", pc |-> "idle", redis |-> FALSE, gen |-> 0, old |-> NoJti,
              new |-> NoJti, row |-> NoRow, view |-> {}, targets |-> {}, failed |-> FALSE,
              lineage |-> NoJti, valid |-> FALSE]
  BY DEF Idle
<1>2. 0 \in 0 .. GenMax
  BY GenMaxAssumption DEF GenMaxAssumption
<1>3. QED
  BY <1>1, <1>2 DEF Request

LEMMA ArriveFacts ==
    ASSUME NEW op \in OpKinds, NEW pc \in PCs, NEW client \in BOOLEAN
    PROVE  LET a == Arrive(op, pc, client) IN
              /\ a \in Request
              /\ a.op = op /\ a.pc = pc /\ a.redis = client /\ a.gen = 0
              /\ a.old = NoJti /\ a.new = NoJti /\ a.row = NoRow
              /\ a.view = {} /\ a.targets = {}
<1> DEFINE a == Arrive(op, pc, client)
<1>1. pc \in {"idle", "lock", "lineage", "rotate", "select", "flush", "register",
             "capture", "erase", "accelerate", "drop", "blacklist", "forget",
             "forget_row", "session", "owner"}
  BY DEF PCs
<1>2. op \in OpKinds \cup {"none"}
  OBVIOUS
<1>3. a = [Idle EXCEPT !.op = op, !.pc = pc, !.redis = client]
  BY DEF Arrive
<1>4. Idle \in Request
  BY IdleFacts
<1> HIDE DEF a
<1>5. a \in Request
  BY <1>1, <1>2, <1>3, <1>4, ZenonT(40) DEF Request
<1>6. a.redis = client
  BY <1>3, <1>4, ZenonT(20) DEF Request
<1>7. /\ a.op = op /\ a.pc = pc /\ a.gen = Idle.gen
      /\ a.old = Idle.old /\ a.new = Idle.new /\ a.row = Idle.row
      /\ a.view = Idle.view /\ a.targets = Idle.targets
  BY <1>3, IdleFacts, SMT DEF Request
<1>8. QED
  BY <1>5, <1>6, <1>7, IdleFacts, Zenon DEF a

(* What a request of the right type becomes, field by field.                *)
LEMMA BecomeFacts ==
    ASSUME TypeOK, NEW r \in Requests, NEW n \in Request, Become(r, n)
    PROVE  /\ req' \in [Requests -> Request]
           /\ req'[r] = n
           /\ \A p \in Requests : p # r => req'[p] = req[p]
<1> QED
  BY DEF TypeOK, Become

LEMMA GotoFacts ==
    ASSUME TypeOK, NEW r \in Requests, NEW pc \in PCs, Goto(r, pc)
    PROVE  /\ req' \in [Requests -> Request]
           /\ \A p \in Requests : p # r => req'[p] = req[p]
           /\ req'[r].pc = pc
           /\ req'[r].op = req[r].op /\ req'[r].redis = req[r].redis
           /\ req'[r].gen = req[r].gen /\ req'[r].old = req[r].old
           /\ req'[r].new = req[r].new /\ req'[r].row = req[r].row
           /\ req'[r].view = req[r].view /\ req'[r].targets = req[r].targets
           /\ req'[r].valid = req[r].valid /\ req'[r].failed = req[r].failed
           /\ req'[r].lineage = req[r].lineage
<1> DEFINE n == [req[r] EXCEPT !.pc = pc]
<1>1. req[r] \in Request
  BY DEF TypeOK
<1>2. /\ n \in Request
      /\ n.pc = pc
      /\ n.op = req[r].op /\ n.redis = req[r].redis
      /\ n.gen = req[r].gen /\ n.old = req[r].old
      /\ n.new = req[r].new /\ n.row = req[r].row
      /\ n.view = req[r].view /\ n.targets = req[r].targets
      /\ n.valid = req[r].valid /\ n.failed = req[r].failed
      /\ n.lineage = req[r].lineage
  BY <1>1 DEF Request, PCs
<1>3. Become(r, n)
  BY DEF Goto
<1> HIDE DEF n
<1>4. QED
  BY <1>2, <1>3, BecomeFacts

(* A part of a logout that is done.                                         *)
LEMMA PartFacts ==
    ASSUME TypeOK, NEW r \in Requests, NEW pc \in PCs, NEW jti \in Jti \cup {NoJti},
           NEW failed \in BOOLEAN, Become(r, Part(req[r], pc, jti, failed))
    PROVE  /\ req' \in [Requests -> Request]
           /\ \A p \in Requests : p # r => req'[p] = req[p]
           /\ req'[r].pc = pc /\ req'[r].new = jti
           /\ req'[r].failed = (req[r].failed \/ failed)
           /\ req'[r].op = req[r].op /\ req'[r].redis = req[r].redis
           /\ req'[r].gen = req[r].gen /\ req'[r].old = req[r].old
           /\ req'[r].row = req[r].row /\ req'[r].view = req[r].view
<1> DEFINE n == Part(req[r], pc, jti, failed)
<1>1. req[r] \in Request
  BY DEF TypeOK
<1>2. PICK b \in BOOLEAN : b = (req[r].failed \/ failed)
  OBVIOUS
<1>3. n = [req[r] EXCEPT !.pc = pc, !.new = jti, !.failed = b]
  BY <1>2, Zenon DEF Part
<1>4. Become(r, n)
  OBVIOUS
<1> HIDE DEF n
<1>5. pc \in {"idle", "lock", "lineage", "rotate", "select", "flush", "register",
             "capture", "erase", "accelerate", "drop", "blacklist", "forget",
             "forget_row", "session", "owner"}
  BY DEF PCs
<1>6. n \in Request /\ n.failed = b
  BY <1>1, <1>3, <1>5, ZenonT(20) DEF Request
<1>7. /\ n.pc = pc /\ n.new = jti
      /\ n.op = req[r].op /\ n.redis = req[r].redis /\ n.gen = req[r].gen
      /\ n.old = req[r].old /\ n.row = req[r].row /\ n.view = req[r].view
  BY <1>1, <1>3, SMT DEF Request
<1>8. /\ req' \in [Requests -> Request] /\ req'[r] = n
      /\ \A p \in Requests : p # r => req'[p] = req[p]
  BY <1>4, <1>6, BecomeFacts
<1>9. QED
  BY <1>2, <1>6, <1>7, <1>8, Zenon

LEMMA FinishFacts ==
    ASSUME TypeOK, NEW r \in Requests, Finish(r)
    PROVE  /\ req' \in [Requests -> Request]
           /\ req'[r] = Idle
           /\ \A p \in Requests : p # r => req'[p] = req[p]
<1> QED
  BY BecomeFacts, IdleFacts DEF Finish

(* What each action makes of its request, field by field.                   *)
LEMMA ClientsBoolean ==
    ASSUME TypeOK
    PROVE  Clients \subseteq BOOLEAN
<1> QED
  BY DEF TypeOK, Clients

LEMMA AuthenticateDoes ==
    ASSUME TypeOK, NEW r \in Requests, NEW j \in Jti, NEW client \in BOOLEAN, Authenticate(r, j, client)
    PROVE  /\ req' \in [Requests -> Request]
           /\ \A p \in Requests : p # r => req'[p] = req[p]
           /\ req'[r].op = "login" /\ req'[r].pc = "select"
           /\ req'[r].redis = client /\ req'[r].gen = account.gen
           /\ req'[r].old = NoJti /\ req'[r].new = j
           /\ req'[r].row = NoRow /\ req'[r].view = SnapshotNow
           /\ req'[r].targets = {}
<1> DEFINE a == Arrive("login", "select", client)
           n == [a EXCEPT !.gen = account.gen, !.new = j, !.view = SnapshotNow]
<1>5. account.gen \in 0 .. GenMax
  BY GenMaxAssumption DEF TypeOK, Gen, GenMaxAssumption
<1>6. SnapshotNow \in SUBSET SessionRow
  BY DEF TypeOK, SnapshotNow
<1>1. /\ a \in Request
      /\ a.op = "login" /\ a.pc = "select" /\ a.redis = client
      /\ a.gen = 0 /\ a.old = NoJti /\ a.new = NoJti /\ a.row = NoRow
      /\ a.view = {} /\ a.targets = {}
  BY ArriveFacts DEF OpKinds, PCs
<1>2. Become(r, n)
  BY DEF Authenticate
<1> HIDE DEF a
<1>3. /\ n \in Request
      /\ n.op = "login" /\ n.pc = "select" /\ n.redis = client
      /\ n.gen = account.gen /\ n.old = NoJti /\ n.new = j
      /\ n.row = NoRow /\ n.view = SnapshotNow /\ n.targets = {}
  BY <1>1, <1>5, <1>6 DEF Request
<1> HIDE DEF n
<1>4. QED
  BY <1>2, <1>3, BecomeFacts

LEMMA PresentRefreshDoes ==
    ASSUME TypeOK, NEW r \in Requests, NEW j \in Jti, NEW client \in BOOLEAN, PresentRefresh(r, j, client)
    PROVE  /\ req' \in [Requests -> Request]
           /\ \A p \in Requests : p # r => req'[p] = req[p]
           /\ req'[r].op = "refresh" /\ req'[r].pc = "lock"
           /\ req'[r].redis = client /\ req'[r].gen = 0 /\ req'[r].old = j
           /\ req'[r].new = NoJti /\ req'[r].row = NoRow
           /\ req'[r].view = {} /\ req'[r].targets = {}
<1> DEFINE a == Arrive("refresh", "lock", client)
           n == [a EXCEPT !.old = j]
<1>1. /\ a \in Request
      /\ a.op = "refresh" /\ a.pc = "lock" /\ a.redis = client
      /\ a.gen = 0 /\ a.old = NoJti /\ a.new = NoJti /\ a.row = NoRow
      /\ a.view = {} /\ a.targets = {}
  BY ArriveFacts DEF OpKinds, PCs
<1>2. Become(r, n)
  BY DEF PresentRefresh
<1> HIDE DEF a
<1>3. /\ n \in Request
      /\ n.op = "refresh" /\ n.pc = "lock" /\ n.redis = client
      /\ n.gen = 0 /\ n.old = j /\ n.new = NoJti /\ n.row = NoRow
      /\ n.view = {} /\ n.targets = {}
  BY <1>1 DEF Request
<1> HIDE DEF n
<1>4. QED
  BY <1>2, <1>3, BecomeFacts

LEMMA LogoutDoes ==
    ASSUME TypeOK, NEW r \in Requests, NEW j \in Jti, NEW client \in BOOLEAN, Logout(r, j, client)
    PROVE  /\ req' \in [Requests -> Request]
           /\ \A p \in Requests : p # r => req'[p] = req[p]
           /\ req'[r].op = "logout" /\ req'[r].pc \in {"blacklist", "forget"}
           /\ req'[r].redis = client /\ req'[r].gen = 0 /\ req'[r].old = j
           /\ req'[r].new = NoJti /\ req'[r].row = NoRow /\ req'[r].view = {}
<1>0. site.stateful \in BOOLEAN
  BY DeploymentsAssumption DEF TypeOK, DeploymentsAssumption
<1>1. CASE Become(r, [Arrive("logout", "blacklist", client) EXCEPT !.old = j])
  <2> DEFINE a == Arrive("logout", "blacklist", client)
             n == [a EXCEPT !.old = j]
  <2>1. /\ a \in Request
        /\ a.op = "logout" /\ a.pc = "blacklist" /\ a.redis = client
        /\ a.gen = 0 /\ a.new = NoJti /\ a.row = NoRow /\ a.view = {}
    BY ArriveFacts DEF OpKinds, PCs
  <2>2. Become(r, n)
    BY <1>1
  <2> HIDE DEF a
  <2>3. /\ n \in Request
        /\ n.op = "logout" /\ n.pc = "blacklist" /\ n.redis = client
        /\ n.gen = 0 /\ n.old = j /\ n.new = NoJti /\ n.row = NoRow /\ n.view = {}
    BY <2>1 DEF Request
  <2> HIDE DEF n
  <2>4. QED
    BY <2>2, <2>3, BecomeFacts
<1>2. CASE Become(r, [Arrive("logout", "forget", client) EXCEPT
                         !.old = j, !.failed = site.stateful])
  <2> DEFINE a == Arrive("logout", "forget", client)
             n == [a EXCEPT !.old = j, !.failed = site.stateful]
  <2>1. /\ a \in Request
        /\ a.op = "logout" /\ a.pc = "forget" /\ a.redis = client
        /\ a.gen = 0 /\ a.new = NoJti /\ a.row = NoRow /\ a.view = {}
    BY ArriveFacts DEF OpKinds, PCs
  <2>2. Become(r, n)
    BY <1>2
  <2> HIDE DEF a
  <2>3. /\ n \in Request
        /\ n.op = "logout" /\ n.pc = "forget" /\ n.redis = client
        /\ n.gen = 0 /\ n.old = j /\ n.new = NoJti /\ n.row = NoRow /\ n.view = {}
    BY <1>0, <2>1 DEF Request
  <2> HIDE DEF n
  <2>4. QED
    BY <2>2, <2>3, BecomeFacts
<1>3. QED
  BY <1>1, <1>2 DEF Logout

LEMMA AskTombstoneDoes ==
    ASSUME TypeOK, NEW r \in Requests, NEW j \in Jti, NEW client \in BOOLEAN, AskTombstone(r, j, client)
    PROVE  /\ req' \in [Requests -> Request]
           /\ \A p \in Requests : p # r => req'[p] = req[p]
           /\ req'[r].op = "introspect" /\ req'[r].pc = "session"
           /\ req'[r].redis = client /\ req'[r].gen = 0 /\ req'[r].old = j
           /\ req'[r].new = NoJti /\ req'[r].row = NoRow
           /\ req'[r].view = {} /\ req'[r].targets = {}
<1> DEFINE a == Arrive("introspect", "session", client)
           n == [a EXCEPT !.old = j]
<1>1. /\ a \in Request
      /\ a.op = "introspect" /\ a.pc = "session" /\ a.redis = client
      /\ a.gen = 0 /\ a.old = NoJti /\ a.new = NoJti /\ a.row = NoRow
      /\ a.view = {} /\ a.targets = {}
  BY ArriveFacts DEF OpKinds, PCs
<1>2. Become(r, n)
  BY DEF AskTombstone
<1> HIDE DEF a
<1>3. /\ n \in Request
      /\ n.op = "introspect" /\ n.pc = "session" /\ n.redis = client
      /\ n.gen = 0 /\ n.old = j /\ n.new = NoJti /\ n.row = NoRow
      /\ n.view = {} /\ n.targets = {}
  BY <1>1 DEF Request
<1> HIDE DEF n
<1>4. QED
  BY <1>2, <1>3, BecomeFacts

LEMMA JtisTyped ==
    ASSUME NEW R, R \subseteq SessionRow
    PROVE  JtisOf(R) \in SUBSET Jti
<1> QED
  BY DEF JtisOf, SessionRow

LEMMA RevokeAllDoes ==
    ASSUME TypeOK, NEW r \in Requests, NEW client \in BOOLEAN, RevokeAll(r, client)
    PROVE  /\ req' \in [Requests -> Request]
           /\ \A p \in Requests : p # r => req'[p] = req[p]
           /\ req'[r].op = "revoke_all" /\ req'[r].pc = "erase"
           /\ req'[r].redis = client /\ req'[r].gen = 0
           /\ req'[r].old = NoJti /\ req'[r].new = NoJti
           /\ req'[r].row = NoRow /\ req'[r].view = {}
<1> DEFINE a == Arrive("revoke_all", "erase", client)
           n == [a EXCEPT !.targets = JtisOf(rows)]
<1>5. JtisOf(rows) \in SUBSET Jti
  BY JtisTyped DEF TypeOK
<1>1. /\ a \in Request
      /\ a.op = "revoke_all" /\ a.pc = "erase" /\ a.redis = client
      /\ a.gen = 0 /\ a.old = NoJti /\ a.new = NoJti /\ a.row = NoRow /\ a.view = {}
  BY ArriveFacts DEF OpKinds, PCs
<1>2. Become(r, n)
  BY DEF RevokeAll
<1> HIDE DEF a
<1>3. /\ n \in Request
      /\ n.op = "revoke_all" /\ n.pc = "erase" /\ n.redis = client
      /\ n.gen = 0 /\ n.old = NoJti /\ n.new = NoJti /\ n.row = NoRow /\ n.view = {}
  BY <1>1, <1>5 DEF Request
<1> HIDE DEF n
<1>4. QED
  BY <1>2, <1>3, BecomeFacts

LEMMA RevokeOneDoes ==
    ASSUME TypeOK, NEW r \in Requests, NEW s \in rows, NEW client \in BOOLEAN, RevokeOne(r, s, client)
    PROVE  /\ req' \in [Requests -> Request]
           /\ \A p \in Requests : p # r => req'[p] = req[p]
           /\ req'[r].op = "revoke_one" /\ req'[r].pc = "erase"
           /\ req'[r].redis = client /\ req'[r].gen = 0
           /\ req'[r].old = NoJti /\ req'[r].new = NoJti
           /\ req'[r].row = s /\ req'[r].view = {}
           /\ req'[r].targets = {s.jti}
<1> DEFINE a == Arrive("revoke_one", "erase", client)
           n == [a EXCEPT !.row = s, !.targets = {s.jti}]
<1>5. s \in SessionRow
  BY DEF TypeOK
<1>6. {s.jti} \in SUBSET Jti
  BY DEF TypeOK, SessionRow
<1>1. /\ a \in Request
      /\ a.op = "revoke_one" /\ a.pc = "erase" /\ a.redis = client
      /\ a.gen = 0 /\ a.old = NoJti /\ a.new = NoJti /\ a.row = NoRow
      /\ a.view = {} /\ a.targets = {}
  BY ArriveFacts DEF OpKinds, PCs
<1>2. Become(r, n)
  BY DEF RevokeOne
<1> HIDE DEF a
<1>3. /\ n \in Request
      /\ n.op = "revoke_one" /\ n.pc = "erase" /\ n.redis = client
      /\ n.gen = 0 /\ n.old = NoJti /\ n.new = NoJti /\ n.row = s
      /\ n.view = {} /\ n.targets = {s.jti}
  BY <1>1, <1>5, <1>6 DEF Request
<1> HIDE DEF n
<1>4. QED
  BY <1>2, <1>3, BecomeFacts

LEMMA BeginChangeDoes ==
    ASSUME TypeOK, NEW r \in Requests, BeginChange(r)
    PROVE  /\ req' \in [Requests -> Request]
           /\ \A p \in Requests : p # r => req'[p] = req[p]
           /\ req'[r].op = "change" /\ req'[r].pc = "capture"
           /\ req'[r].gen = 0 /\ req'[r].row = NoRow /\ req'[r].view = SnapshotNow
<1> DEFINE a == Arrive("change", "capture", FALSE)
           n == [a EXCEPT !.view = SnapshotNow]
<1>5. SnapshotNow \in SUBSET SessionRow
  BY DEF TypeOK, SnapshotNow
<1>6. ASSUME NEW client \in BOOLEAN
      PROVE  LET b == Arrive("change", "capture", client) IN
                /\ b \in Request /\ b.op = "change" /\ b.pc = "capture"
                /\ b.gen = 0 /\ b.row = NoRow
  BY ArriveFacts DEF OpKinds, PCs
<1>1. a \in Request /\ a.op = "change" /\ a.pc = "capture" /\ a.gen = 0 /\ a.row = NoRow
  BY <1>6, Zenon
<1>2. Become(r, n)
  BY DEF BeginChange
<1> HIDE DEF a
<1>3. /\ n \in Request /\ n.op = "change" /\ n.pc = "capture"
      /\ n.gen = 0 /\ n.row = NoRow /\ n.view = SnapshotNow
  BY <1>1, <1>5 DEF Request
<1> HIDE DEF n
<1>4. QED
  BY <1>2, <1>3, BecomeFacts

(* A capture of the sessions, by a refresh that met a reuse or by a change. *)
LEMMA CaptureDoes ==
    ASSUME TypeOK, NEW r \in Requests, CaptureSessions(r) \/ LockAndCapture(r)
    PROVE  /\ req' \in [Requests -> Request]
           /\ \A p \in Requests : p # r => req'[p] = req[p]
           /\ req'[r].op = req[r].op /\ req'[r].pc = "erase"
           /\ req'[r].redis = req[r].redis /\ req'[r].gen = req[r].gen
           /\ req'[r].old = req[r].old /\ req'[r].new = req[r].new
           /\ req'[r].row = req[r].row /\ req'[r].view = req[r].view
<1> DEFINE n == [req[r] EXCEPT !.pc = "erase", !.targets = JtisOf(Visible(r))]
<1>1. req[r] \in Request
  BY DEF TypeOK
<1>5. JtisOf(Visible(r)) \in SUBSET Jti
  BY <1>1, JtisTyped DEF TypeOK, Visible, Request
<1>2. Become(r, n)
  BY DEF CaptureSessions, LockAndCapture
<1>3. /\ n \in Request
      /\ n.op = req[r].op /\ n.pc = "erase" /\ n.redis = req[r].redis
      /\ n.gen = req[r].gen /\ n.old = req[r].old
      /\ n.new = req[r].new /\ n.row = req[r].row /\ n.view = req[r].view
  BY <1>1, <1>5 DEF Request
<1> HIDE DEF n
<1>4. QED
  BY <1>2, <1>3, BecomeFacts

LEMMA BlacklistTargetDoes ==
    ASSUME TypeOK, NEW r \in Requests, NEW j \in Jti, BlacklistTarget(r, j)
    PROVE  /\ req' \in [Requests -> Request]
           /\ \A p \in Requests : p # r => req'[p] = req[p]
           /\ req'[r].op = req[r].op /\ req'[r].pc = "drop"
           /\ req'[r].redis = req[r].redis /\ req'[r].gen = req[r].gen
           /\ req'[r].row = req[r].row /\ req'[r].view = req[r].view
<1> DEFINE n == [req[r] EXCEPT !.pc = "drop", !.old = j, !.targets = req[r].targets \ {j}]
<1>1. req[r] \in Request
  BY DEF TypeOK
<1>2. Become(r, n)
  BY DEF BlacklistTarget
<1>3. /\ n \in Request
      /\ n.op = req[r].op /\ n.pc = "drop" /\ n.redis = req[r].redis
      /\ n.gen = req[r].gen /\ n.row = req[r].row /\ n.view = req[r].view
  BY <1>1 DEF Request
<1> HIDE DEF n
<1>4. QED
  BY <1>2, <1>3, BecomeFacts

(* The two Redis parts of a logout: a part returns the JTI, or nothing, or  *)
(* what was returned before it.                                             *)
LEMMA BlacklistDoes ==
    ASSUME TypeOK, NEW r \in Requests, Blacklist(r)
    PROVE  /\ req' \in [Requests -> Request]
           /\ \A p \in Requests : p # r => req'[p] = req[p]
           /\ req'[r].pc = "forget"
           /\ req'[r].op = req[r].op /\ req'[r].redis = req[r].redis
           /\ req'[r].gen = req[r].gen /\ req'[r].old = req[r].old
           /\ req'[r].row = req[r].row /\ req'[r].view = req[r].view
<1>1. req[r].old \in Jti \cup {NoJti}
  BY DEF TypeOK, Request
<1>2. CASE Become(r, Part(req[r], "forget", NoJti, TRUE))
  BY <1>2, PartFacts DEF PCs
<1>3. CASE Become(r, Part(req[r], "forget", req[r].old, FALSE))
  BY <1>1, <1>3, PartFacts DEF PCs
<1>4. QED
  BY <1>2, <1>3 DEF Blacklist

LEMMA ForgetRefreshDoes ==
    ASSUME TypeOK, NEW r \in Requests, ForgetRefresh(r)
    PROVE  /\ req' \in [Requests -> Request]
           /\ \A p \in Requests : p # r => req'[p] = req[p]
           /\ req'[r].pc = "forget_row"
           /\ req'[r].op = req[r].op /\ req'[r].redis = req[r].redis
           /\ req'[r].gen = req[r].gen /\ req'[r].old = req[r].old
           /\ req'[r].row = req[r].row /\ req'[r].view = req[r].view
           /\ allow' \subseteq allow
           /\ ~ site.writeOpen /\ ~ req'[r].failed =>
                 req'[r].new = req[r].old /\ req[r].old \notin allow'
<1>0. "forget_row" \in PCs
  BY DEF PCs
<1>1. /\ req[r].old \in Jti \cup {NoJti} /\ req[r].new \in Jti \cup {NoJti}
      /\ req[r].redis \in BOOLEAN
  BY DEF TypeOK, Request
<1>2. CASE req[r].redis /\ redisUp
  <2>1. Become(r, Part(req[r], "forget_row", req[r].old, FALSE)) /\ allow' = allow \ {req[r].old}
    BY <1>2 DEF ForgetRefresh
  <2>2. /\ req' \in [Requests -> Request]
        /\ \A p \in Requests : p # r => req'[p] = req[p]
        /\ req'[r].pc = "forget_row" /\ req'[r].new = req[r].old
        /\ req'[r].op = req[r].op /\ req'[r].redis = req[r].redis
        /\ req'[r].gen = req[r].gen /\ req'[r].old = req[r].old
        /\ req'[r].row = req[r].row /\ req'[r].view = req[r].view
    BY <1>0, <1>1, <2>1, PartFacts
  <2>3. QED
    BY <2>1, <2>2
<1>3. CASE ~ (req[r].redis /\ redisUp)
  <2> DEFINE failed == req[r].redis \/ ~ site.writeOpen
  <2>1. Become(r, Part(req[r], "forget_row", req[r].new, failed)) /\ allow' = allow
    BY <1>3 DEF ForgetRefresh
  <2>2. failed \in BOOLEAN /\ (~ site.writeOpen => failed)
    OBVIOUS
  <2> HIDE DEF failed
  <2>3. /\ req' \in [Requests -> Request]
        /\ \A p \in Requests : p # r => req'[p] = req[p]
        /\ req'[r].pc = "forget_row"
        /\ req'[r].failed = (req[r].failed \/ failed)
        /\ req'[r].op = req[r].op /\ req'[r].redis = req[r].redis
        /\ req'[r].gen = req[r].gen /\ req'[r].old = req[r].old
        /\ req'[r].row = req[r].row /\ req'[r].view = req[r].view
    BY <1>0, <1>1, <2>1, <2>2, PartFacts
  <2>4. ~ site.writeOpen => req'[r].failed
    BY <2>2, <2>3
  <2>5. QED
    BY <2>1, <2>3, <2>4
<1>4. QED
  BY <1>2, <1>3

LEMMA ReloadUserDoes ==
    ASSUME TypeOK, NEW r \in Requests, ReloadUser(r)
    PROVE  /\ req' \in [Requests -> Request]
           /\ \A p \in Requests : p # r => req'[p] = req[p]
           /\ req'[r].op = req[r].op /\ req'[r].pc = "lineage"
           /\ req'[r].redis = req[r].redis /\ req'[r].gen = account.gen
           /\ req'[r].old = req[r].old /\ req'[r].new = req[r].new
           /\ req'[r].row = req[r].row /\ req'[r].view = req[r].view
           /\ req'[r].targets = req[r].targets
           /\ req'[r].valid = req[r].valid
<1> DEFINE n == [req[r] EXCEPT !.pc = "lineage", !.gen = account.gen]
<1>5. account.gen \in 0 .. GenMax
  BY GenMaxAssumption DEF TypeOK, Gen, GenMaxAssumption
<1>1. req[r] \in Request
  BY DEF TypeOK
<1>2. Become(r, n)
  BY DEF ReloadUser
<1>3. /\ n \in Request
      /\ n.op = req[r].op /\ n.pc = "lineage"
      /\ n.redis = req[r].redis /\ n.gen = account.gen
      /\ n.old = req[r].old /\ n.new = req[r].new
      /\ n.row = req[r].row /\ n.view = req[r].view
      /\ n.targets = req[r].targets /\ n.valid = req[r].valid
  BY <1>1, <1>5 DEF Request
<1> HIDE DEF n
<1>4. QED
  BY <1>2, <1>3, BecomeFacts

LEMMA CheckLineageDoes ==
    ASSUME TypeOK, NEW r \in Requests, NEW s \in rows, NEW j \in Jti, CheckLineage(r, s, j)
    PROVE  /\ req' \in [Requests -> Request]
           /\ \A p \in Requests : p # r => req'[p] = req[p]
           /\ req'[r].op = req[r].op /\ req'[r].pc = "rotate"
           /\ req'[r].redis = req[r].redis /\ req'[r].gen = req[r].gen
           /\ req'[r].old = req[r].old /\ req'[r].new = j
           /\ req'[r].row = req[r].row /\ req'[r].view = SnapshotNow
           /\ req'[r].targets = req[r].targets
           /\ req'[r].valid = req[r].valid /\ req'[r].lineage = s.id
<1> DEFINE n == [req[r] EXCEPT !.pc = "rotate", !.new = j, !.lineage = s.id,
                               !.view = SnapshotNow]
<1>5. SnapshotNow \in SUBSET SessionRow
  BY DEF TypeOK, SnapshotNow
<1>6. s.id \in Jti
  BY DEF TypeOK, SessionRow
<1>1. req[r] \in Request
  BY DEF TypeOK
<1>2. Become(r, n)
  BY DEF CheckLineage
<1>3. /\ n \in Request
      /\ n.op = req[r].op /\ n.pc = "rotate"
      /\ n.redis = req[r].redis /\ n.gen = req[r].gen
      /\ n.old = req[r].old /\ n.new = j /\ n.row = req[r].row
      /\ n.view = SnapshotNow /\ n.targets = req[r].targets
      /\ n.valid = req[r].valid /\ n.lineage = s.id
  BY <1>1, <1>6, <1>5 DEF Request
<1> HIDE DEF n
<1>4. QED
  BY <1>2, <1>3, BecomeFacts

LEMMA AskSessionDoes ==
    ASSUME TypeOK, NEW r \in Requests, NEW s \in rows, AskSession(r, s)
    PROVE  /\ req' \in [Requests -> Request]
           /\ \A p \in Requests : p # r => req'[p] = req[p]
           /\ req'[r].op = req[r].op /\ req'[r].pc = "owner"
           /\ req'[r].redis = req[r].redis /\ req'[r].gen = req[r].gen
           /\ req'[r].old = req[r].old /\ req'[r].new = req[r].new
           /\ req'[r].row = s /\ req'[r].view = req[r].view
           /\ req'[r].targets = req[r].targets
           /\ req'[r].valid = Current(req[r].old)
<1> DEFINE n == [req[r] EXCEPT !.pc = "owner", !.row = s, !.valid = Current(req[r].old)]
<1>5. s \in SessionRow
  BY DEF TypeOK
<1>6. Current(req[r].old) \in BOOLEAN
  BY DEF Current
<1>1. req[r] \in Request
  BY DEF TypeOK
<1>2. Become(r, n)
  BY DEF AskSession
<1>3. /\ n \in Request
      /\ n.op = req[r].op /\ n.pc = "owner" /\ n.redis = req[r].redis
      /\ n.gen = req[r].gen /\ n.old = req[r].old
      /\ n.new = req[r].new /\ n.row = s /\ n.view = req[r].view
      /\ n.targets = req[r].targets /\ n.valid = Current(req[r].old)
  BY <1>1, <1>5, <1>6 DEF Request
<1> HIDE DEF n
<1>4. QED
  BY <1>2, <1>3, BecomeFacts

LEMMA NoRowFacts ==
    /\ NoRow.id = NoJti /\ NoRow.stamp = 0 /\ NoRow \notin SessionRow
    /\ \A s \in SessionRow : s.id \in Jti /\ s.jti \in Jti /\ s.stamp \in Gen /\ s.id # NoJti
<1> QED
  BY NoJtiAssumption DEF NoRow, SessionRow, NoJtiAssumption

(* The selected object is a visible row, and there is none when nothing is  *)
(* visible.                                                                 *)
LEMMA SelectSessionDoes ==
    ASSUME TypeOK, NEW r \in Requests, SelectSession(r)
    PROVE  /\ req' \in [Requests -> Request]
           /\ \A p \in Requests : p # r => req'[p] = req[p]
           /\ req'[r].op = req[r].op /\ req'[r].pc = "flush"
           /\ req'[r].redis = req[r].redis /\ req'[r].gen = req[r].gen
           /\ req'[r].old = req[r].old /\ req'[r].new = req[r].new
           /\ req'[r].view = req[r].view /\ req'[r].targets = req[r].targets
           /\ req'[r].lineage = req[r].lineage
           /\ \/ Visible(r) = {} /\ req'[r].row = NoRow
              \/ req'[r].row \in Visible(r) /\ req'[r].row \in SessionRow
<1>1. req[r] \in Request /\ Visible(r) \subseteq SessionRow
  BY DEF TypeOK, Visible, Request
<1>2. PICK s \in IF Visible(r) = {} THEN {NoRow} ELSE Visible(r) :
              Become(r, [req[r] EXCEPT !.pc = "flush", !.row = s])
  BY DEF SelectSession
<1>3. s \in SessionRow \cup {NoRow}
  BY <1>1, <1>2
<1> DEFINE n == [req[r] EXCEPT !.pc = "flush", !.row = s]
<1>4. /\ n \in Request
      /\ n.op = req[r].op /\ n.pc = "flush" /\ n.redis = req[r].redis
      /\ n.gen = req[r].gen /\ n.old = req[r].old /\ n.new = req[r].new
      /\ n.view = req[r].view /\ n.targets = req[r].targets /\ n.row = s
      /\ n.lineage = req[r].lineage
  BY <1>1, <1>3 DEF Request
<1>5. Become(r, n)
  BY <1>2
<1> HIDE DEF n
<1>6. /\ req' \in [Requests -> Request] /\ req'[r] = n
      /\ \A p \in Requests : p # r => req'[p] = req[p]
  BY <1>4, <1>5, BecomeFacts
<1>7. QED
  BY <1>1, <1>2, <1>4, <1>6

-----------------------------------------------------------------------------
(* What a flush writes *)

LEMMA RestampedFacts ==
    ASSUME NEW s \in SessionRow, NEW q \in Request, q.new \in Jti, q.gen \in Gen
    PROVE  /\ Restamped(s, q) \in SessionRow
           /\ Restamped(s, q).id = s.id /\ Restamped(s, q).jti = q.new
           /\ q.gen # q.row.stamp => Restamped(s, q).stamp = q.gen
           /\ q.gen = q.row.stamp => Restamped(s, q).stamp = s.stamp
<1>1. CASE q.gen # q.row.stamp
  <2>1. Restamped(s, q) = [s EXCEPT !.jti = q.new, !.stamp = q.gen]
    BY <1>1 DEF Restamped, SessionRow
  <2>2. QED
    BY <2>1, <1>1 DEF SessionRow
<1>2. CASE q.gen = q.row.stamp
  <2>1. Restamped(s, q) = [s EXCEPT !.jti = q.new, !.stamp = s.stamp]
    BY <1>2 DEF Restamped, SessionRow
  <2>2. QED
    BY <2>1, <1>2 DEF SessionRow
<1>3. QED
  BY <1>1, <1>2

LEMMA UpsertFacts ==
    ASSUME rows \subseteq SessionRow, NEW q \in Request, q.new \in Jti, q.gen \in Gen
    PROVE  /\ Upsert(q) \subseteq SessionRow
           /\ q.row = NoRow =>
                 /\ rows \subseteq Upsert(q)
                 /\ \E t \in Upsert(q) :
                       /\ t.id = q.new /\ t.jti = q.new /\ t.stamp = q.gen
                       /\ \A u \in Upsert(q) : u \in rows \/ u = t
           /\ q.row # NoRow =>
                 /\ \A s \in rows : s.id = q.row.id =>
                       \E t \in Upsert(q) : t.id = s.id /\ t.jti = q.new
                 /\ \A t \in Upsert(q) : \E s \in rows :
                       \/ t = s /\ s.id # q.row.id
                       \/ s.id = q.row.id /\ t = Restamped(s, q)
<1>1. CASE q.row = NoRow
  <2> DEFINE t == [id |-> q.new, jti |-> q.new, stamp |-> q.gen]
  <2>1. t \in SessionRow /\ t.id = q.new /\ t.jti = q.new /\ t.stamp = q.gen
    BY DEF SessionRow
  <2>2. Upsert(q) = rows \cup {t}
    BY <1>1 DEF Upsert
  <2> HIDE DEF t
  <2>3. QED
    BY <2>1, <2>2, <1>1
<1>2. CASE q.row # NoRow
  <2>1. Upsert(q) = {IF s.id = q.row.id THEN Restamped(s, q) ELSE s : s \in rows}
    BY <1>2 DEF Upsert
  <2>2. \A s \in rows : /\ Restamped(s, q) \in SessionRow
                        /\ Restamped(s, q).id = s.id /\ Restamped(s, q).jti = q.new
    BY RestampedFacts
  <2>3. QED
    BY <2>1, <2>2, <1>2
<1>3. QED
  BY <1>1, <1>2

-----------------------------------------------------------------------------
(* Types and shapes *)

LEMMA ShapesKept ==
    ASSUME Typed, issued \subseteq issued',
           NEW r \in Requests, \A p \in Requests : p # r => req'[p] = req[p],
           Shape(req[r])'
    PROVE  \A p \in Requests : Shape(req[p])'
<1> QED
  BY DEF Typed, Shape, Signed

LEMMA IdleShape ==
    ASSUME NEW r, req'[r] = Idle
    PROVE  Shape(req[r])'
<1> QED
  BY IdleFacts DEF Shape, Signed

LEMMA TypedStep ==
    ASSUME Typed, Locking, [Next]_vars
    PROVE  Typed'
<1>0. /\ TypeOK /\ Clients \subseteq BOOLEAN
      /\ \A r \in Requests : Shape(req[r]) /\ req[r] \in Request
  BY ClientsBoolean DEF Typed, TypeOK
<1>1. ASSUME NEW r \in Requests, NEW client \in Clients, NEW j \in Jti, PresentRefresh(r, j, client)
      PROVE  Typed'
  <2>1. /\ req' \in [Requests -> Request]
        /\ \A p \in Requests : p # r => req'[p] = req[p]
        /\ req'[r].op = "refresh" /\ req'[r].pc = "lock"
        /\ req'[r].old = j
    BY <1>0, <1>1, PresentRefreshDoes
  <2>2. Shape(req[r])'
    BY <1>0, <1>1, <2>1 DEF Shape, Signed, PresentRefresh, tokens
  <2>3. TypeOK' /\ issued \subseteq issued'
    BY <1>0, <1>1, <2>1 DEF TypeOK, PresentRefresh, store, redis, tokens
  <2>4. QED
    BY <2>1, <2>2, <2>3, ShapesKept DEF Typed
<1>2. ASSUME NEW r \in Requests, NEW client \in Clients, NEW j \in Jti, AskTombstone(r, j, client)
      PROVE  Typed'
  <2>1. /\ req' \in [Requests -> Request]
        /\ \A p \in Requests : p # r => req'[p] = req[p]
        /\ req'[r].op = "introspect" /\ req'[r].pc = "session"
        /\ req'[r].old = j
    BY <1>0, <1>2, AskTombstoneDoes
  <2>2. Shape(req[r])'
    BY <1>0, <1>2, <2>1 DEF Shape, Signed, AskTombstone, tokens
  <2>3. TypeOK' /\ issued \subseteq issued'
    BY <1>0, <1>2, <2>1 DEF TypeOK, AskTombstone, store, redis, tokens
  <2>4. QED
    BY <2>1, <2>2, <2>3, ShapesKept DEF Typed
<1>3. ASSUME NEW r \in Requests, NEW client \in Clients, NEW j \in Jti, Logout(r, j, client)
      PROVE  Typed'
  <2>1. /\ req' \in [Requests -> Request]
        /\ \A p \in Requests : p # r => req'[p] = req[p]
        /\ req'[r].op = "logout"
        /\ req'[r].pc \in {"blacklist", "forget"} /\ req'[r].old = j
    BY <1>0, <1>3, LogoutDoes
  <2>2. Shape(req[r])'
    BY <1>0, <1>3, <2>1 DEF Shape, Signed, Logout, tokens
  <2>3. TypeOK' /\ issued \subseteq issued'
    BY <1>0, <1>3, <2>1 DEF TypeOK, Logout, RowsWithout, store, redis, tokens
  <2>4. QED
    BY <2>1, <2>2, <2>3, ShapesKept DEF Typed
<1>4. ASSUME NEW r \in Requests, NEW client \in Clients, RevokeAll(r, client)
      PROVE  Typed'
  <2>1. /\ req' \in [Requests -> Request]
        /\ \A p \in Requests : p # r => req'[p] = req[p]
        /\ req'[r].op = "revoke_all" /\ req'[r].pc = "erase"
    BY <1>0, <1>4, RevokeAllDoes
  <2>2. Shape(req[r])'
    BY <1>0, <1>4, <2>1 DEF Shape, Signed, RevokeAll, tokens
  <2>3. TypeOK' /\ issued \subseteq issued'
    BY <1>0, <1>4, <2>1 DEF TypeOK, RevokeAll, store, redis, tokens
  <2>4. QED
    BY <2>1, <2>2, <2>3, ShapesKept DEF Typed
<1>5. ASSUME NEW r \in Requests, NEW client \in Clients, NEW s \in rows, RevokeOne(r, s, client)
      PROVE  Typed'
  <2>1. /\ req' \in [Requests -> Request]
        /\ \A p \in Requests : p # r => req'[p] = req[p]
        /\ req'[r].op = "revoke_one" /\ req'[r].pc = "erase"
    BY <1>0, <1>5, RevokeOneDoes
  <2>2. Shape(req[r])'
    BY <1>0, <1>5, <2>1 DEF Shape, Signed, RevokeOne, tokens
  <2>3. TypeOK' /\ issued \subseteq issued'
    BY <1>0, <1>5, <2>1 DEF TypeOK, RevokeOne, store, redis, tokens
  <2>4. QED
    BY <2>1, <2>2, <2>3, ShapesKept DEF Typed
<1>6. ASSUME NEW r \in Requests, BeginChange(r)
      PROVE  Typed'
  <2>1. /\ req' \in [Requests -> Request]
        /\ \A p \in Requests : p # r => req'[p] = req[p]
        /\ req'[r].op = "change" /\ req'[r].pc = "capture"
    BY <1>0, <1>6, BeginChangeDoes
  <2>2. Shape(req[r])'
    BY <1>0, <1>6, <2>1 DEF Shape, Signed, BeginChange, tokens
  <2>3. TypeOK' /\ issued \subseteq issued'
    BY <1>0, <1>6, <2>1 DEF TypeOK, BeginChange, store, redis, tokens
  <2>4. QED
    BY <2>1, <2>2, <2>3, ShapesKept DEF Typed
<1>7. ASSUME NEW r \in Requests, NEW client \in Clients, NEW j \in Jti, Authenticate(r, j, client)
      PROVE  Typed'
  <2>1. /\ req' \in [Requests -> Request]
        /\ \A p \in Requests : p # r => req'[p] = req[p]
        /\ req'[r].op = "login" /\ req'[r].pc = "select"
        /\ req'[r].gen = account.gen /\ req'[r].new = j
    BY <1>0, <1>7, AuthenticateDoes
  <2>5. account.gen \in Gen /\ account.gen \in 0 .. GenMax
    BY <1>0, GenMaxAssumption DEF TypeOK, Gen, GenMaxAssumption
  <2>2. Shape(req[r])'
    BY <1>0, <1>7, <2>1, <2>5 DEF Shape, Signed, Authenticate, tokens
  <2>3. TypeOK' /\ issued \subseteq issued'
    BY <1>0, <1>7, <2>1, <2>5 DEF TypeOK, Authenticate, store, redis, tokens
  <2>4. QED
    BY <2>1, <2>2, <2>3, ShapesKept DEF Typed
<1>8. ASSUME NEW r \in Requests, NEW s \in rows, NEW j \in Jti, CheckLineage(r, s, j)
      PROVE  Typed'
  <2>1. /\ req' \in [Requests -> Request]
        /\ \A p \in Requests : p # r => req'[p] = req[p]
        /\ req'[r].pc = "rotate" /\ req'[r].new = j
        /\ req'[r].op = req[r].op /\ req'[r].gen = req[r].gen
        /\ req'[r].old = req[r].old
    BY <1>0, <1>8, CheckLineageDoes
  <2>5. req[r].gen \in 0 .. GenMax
    BY <1>0 DEF Request
  <2>6. s.stamp \in Gen /\ s.stamp = req[r].gen
    BY <1>0, <1>8 DEF TypeOK, SessionRow, CheckLineage, Stale
  <2>2. Shape(req[r])'
    BY <1>0, <1>8, <2>1, <2>5, <2>6 DEF Shape, Signed, CheckLineage, tokens
  <2>3. TypeOK' /\ issued \subseteq issued'
    BY <1>0, <1>8, <2>1, <2>5 DEF TypeOK, CheckLineage, store, redis, tokens
  <2>4. QED
    BY <2>1, <2>2, <2>3, ShapesKept DEF Typed
<1>9. ASSUME NEW r \in Requests, NEW s \in rows, AskSession(r, s)
      PROVE  Typed'
  <2>1. /\ req' \in [Requests -> Request]
        /\ \A p \in Requests : p # r => req'[p] = req[p]
        /\ req'[r].pc = "owner" /\ req'[r].row = s
        /\ req'[r].op = req[r].op /\ req'[r].old = req[r].old
    BY <1>0, <1>9, AskSessionDoes
  <2>2. Shape(req[r])'
    BY <1>0, <1>9, <2>1 DEF Shape, Signed, AskSession, tokens, TypeOK
  <2>3. TypeOK' /\ issued \subseteq issued'
    BY <1>0, <1>9, <2>1 DEF TypeOK, AskSession, store, redis, tokens
  <2>4. QED
    BY <2>1, <2>2, <2>3, ShapesKept DEF Typed
<1>10. ASSUME NEW r \in Requests, SelectSession(r)
      PROVE  Typed'
  <2>1. /\ req' \in [Requests -> Request]
        /\ \A p \in Requests : p # r => req'[p] = req[p]
        /\ req'[r].pc = "flush" /\ req'[r].op = req[r].op
        /\ req'[r].gen = req[r].gen /\ req'[r].old = req[r].old
        /\ req'[r].new = req[r].new
    BY <1>0, <1>10, SelectSessionDoes
  <2>2. Shape(req[r])'
    BY <1>0, <1>10, <2>1 DEF Shape, Signed, SelectSession, tokens
  <2>3. TypeOK' /\ issued \subseteq issued'
    BY <1>0, <1>10, <2>1 DEF TypeOK, SelectSession, store, redis, tokens
  <2>4. QED
    BY <2>1, <2>2, <2>3, ShapesKept DEF Typed
<1>11. ASSUME NEW r \in Requests, ReloadUser(r)
      PROVE  Typed'
  <2>1. /\ req' \in [Requests -> Request]
        /\ \A p \in Requests : p # r => req'[p] = req[p]
        /\ req'[r].pc = "lineage" /\ req'[r].op = req[r].op
        /\ req'[r].old = req[r].old
    BY <1>0, <1>11, ReloadUserDoes
  <2>2. Shape(req[r])'
    BY <1>0, <1>11, <2>1 DEF Shape, Signed, ReloadUser, tokens
  <2>3. TypeOK' /\ issued \subseteq issued'
    BY <1>0, <1>11, <2>1 DEF TypeOK, ReloadUser, store, redis, tokens
  <2>4. QED
    BY <2>1, <2>2, <2>3, ShapesKept DEF Typed
<1>12. ASSUME NEW r \in Requests, CaptureSessions(r) \/ LockAndCapture(r)
      PROVE  Typed'
  <2>1. /\ req' \in [Requests -> Request]
        /\ \A p \in Requests : p # r => req'[p] = req[p]
        /\ req'[r].pc = "erase" /\ req'[r].op = req[r].op
        /\ req'[r].old = req[r].old
    BY <1>0, <1>12, CaptureDoes
  <2>2. Shape(req[r])'
    BY <1>0, <1>12, <2>1 DEF Shape, Signed, CaptureSessions, LockAndCapture, tokens
  <2>3. TypeOK' /\ issued \subseteq issued'
    BY <1>0, <1>12, <2>1 DEF TypeOK, CaptureSessions, LockAndCapture, store, redis, tokens
  <2>4. QED
    BY <2>1, <2>2, <2>3, ShapesKept DEF Typed
<1>13. ASSUME NEW r \in Requests, Rotate(r)
      PROVE  Typed'
  <2>1. /\ req' \in [Requests -> Request]
        /\ \A p \in Requests : p # r => req'[p] = req[p]
        /\ req'[r].pc \in {"capture", "select"} /\ req'[r].op = req[r].op
        /\ req'[r].gen = req[r].gen /\ req'[r].old = req[r].old
        /\ req'[r].new = req[r].new
    BY <1>0, <1>13, GotoFacts DEF Rotate, PCs
  <2>5. req[r].new \in Jti
    BY <1>0, <1>13 DEF Rotate, Shape, Signed
  <2>2. Shape(req[r])'
    BY <1>0, <1>13, <2>1 DEF Shape, Signed, Rotate, tokens
  <2>3. TypeOK' /\ issued \subseteq issued'
    BY <1>0, <1>13, <2>1, <2>5 DEF TypeOK, Rotate, store, redis, tokens
  <2>4. QED
    BY <2>1, <2>2, <2>3, ShapesKept DEF Typed
<1>14. ASSUME NEW r \in Requests, FlushLogin(r)
      PROVE  Typed'
  <2>1. /\ req' \in [Requests -> Request]
        /\ \A p \in Requests : p # r => req'[p] = req[p]
        /\ req'[r].pc = "register" /\ req'[r].op = req[r].op
        /\ req'[r].gen = req[r].gen /\ req'[r].old = req[r].old
        /\ req'[r].new = req[r].new
    BY <1>0, <1>14, GotoFacts DEF FlushLogin, PCs
  <2>5. Upsert(req[r]) \subseteq SessionRow
    BY <1>0, <1>14, UpsertFacts DEF TypeOK, FlushLogin, Shape, Signed
  <2>2. Shape(req[r])'
    BY <1>0, <1>14, <2>1 DEF Shape, Signed, FlushLogin, tokens
  <2>3. TypeOK' /\ issued \subseteq issued'
    BY <1>0, <1>14, <2>1, <2>5 DEF TypeOK, FlushLogin, store, redis, tokens
  <2>4. QED
    BY <2>1, <2>2, <2>3, ShapesKept DEF Typed
<1>15. ASSUME NEW r \in Requests, Blacklist(r)
      PROVE  Typed'
  <2>1. /\ req' \in [Requests -> Request]
        /\ \A p \in Requests : p # r => req'[p] = req[p]
        /\ req'[r].pc = "forget" /\ req'[r].op = req[r].op
        /\ req'[r].gen = req[r].gen /\ req'[r].old = req[r].old
    BY <1>0, <1>15, BlacklistDoes
  <2>5. req[r].old \in Jti
    BY <1>0, <1>15 DEF TypeOK, Blacklist, Shape
  <2>2. Shape(req[r])'
    BY <1>0, <1>15, <2>1 DEF Shape, Signed, Blacklist, tokens
  <2>3. TypeOK' /\ issued \subseteq issued'
    BY <1>0, <1>15, <2>1, <2>5 DEF TypeOK, Blacklist, store, redis, tokens
  <2>4. QED
    BY <2>1, <2>2, <2>3, ShapesKept DEF Typed
<1>16. ASSUME NEW r \in Requests, EraseSessions(r)
      PROVE  Typed'
  <2>1. /\ req' \in [Requests -> Request]
        /\ \A p \in Requests : p # r => req'[p] = req[p]
        /\ req'[r].pc = "accelerate" /\ req'[r].op = req[r].op
        /\ req'[r].gen = req[r].gen /\ req'[r].old = req[r].old
        /\ req'[r].new = req[r].new
    BY <1>0, <1>16, GotoFacts DEF EraseSessions, PCs
  <2>2. Shape(req[r])'
    BY <1>0, <1>16, <2>1 DEF Shape, Signed, EraseSessions, tokens
  <2>3. TypeOK' /\ issued \subseteq issued'
    BY <1>0, <1>16, <2>1 DEF TypeOK, EraseSessions, store, redis, tokens
  <2>4. QED
    BY <2>1, <2>2, <2>3, ShapesKept DEF Typed
<1>17. ASSUME NEW r \in Requests, EraseSession(r)
      PROVE  Typed'
  <2>1. /\ req' \in [Requests -> Request]
        /\ \A p \in Requests : p # r => req'[p] = req[p]
        /\ req'[r].pc = "accelerate" /\ req'[r].op = req[r].op
        /\ req'[r].gen = req[r].gen /\ req'[r].old = req[r].old
        /\ req'[r].new = req[r].new
    BY <1>0, <1>17, GotoFacts DEF EraseSession, PCs
  <2>2. Shape(req[r])'
    BY <1>0, <1>17, <2>1 DEF Shape, Signed, EraseSession, tokens
  <2>3. TypeOK' /\ issued \subseteq issued'
    BY <1>0, <1>17, <2>1 DEF TypeOK, EraseSession, store, redis, tokens
  <2>4. QED
    BY <2>1, <2>2, <2>3, ShapesKept DEF Typed
<1>18. ASSUME NEW r \in Requests, Register(r)
      PROVE  Typed'
  <2>1. /\ req' \in [Requests -> Request]
        /\ \A p \in Requests : p # r => req'[p] = req[p]
        /\ req'[r] = Idle
    BY <1>0, <1>18, FinishFacts DEF Register
  <2>5. req[r].new \in Jti
    BY <1>0, <1>18 DEF Register, Shape, Signed
  <2>2. Shape(req[r])'
    BY <1>0, <1>18, <2>1, IdleShape DEF Shape, Signed, Register, tokens
  <2>3. TypeOK' /\ issued \subseteq issued'
    BY <1>0, <1>18, <2>1, <2>5 DEF TypeOK, Register, store, redis, tokens
  <2>4. QED
    BY <2>1, <2>2, <2>3, ShapesKept DEF Typed
<1>19. ASSUME NEW r \in Requests, FlushRefresh(r)
      PROVE  Typed'
  <2>1. /\ req' \in [Requests -> Request]
        /\ \A p \in Requests : p # r => req'[p] = req[p]
        /\ req'[r] = Idle
    BY <1>0, <1>19, FinishFacts DEF FlushRefresh
  <2>5. Upsert(req[r]) \subseteq SessionRow /\ req[r].new \in Jti /\ req[r].old \in Jti
    BY <1>0, <1>19, UpsertFacts DEF TypeOK, FlushRefresh, Shape, Signed
  <2>2. Shape(req[r])'
    BY <1>0, <1>19, <2>1, IdleShape DEF Shape, Signed, FlushRefresh, tokens
  <2>3. TypeOK' /\ issued \subseteq issued'
    BY <1>0, <1>19, <2>1, <2>5 DEF TypeOK, FlushRefresh, store, redis, tokens
  <2>4. QED
    BY <2>1, <2>2, <2>3, ShapesKept DEF Typed
<1>20. ASSUME NEW r \in Requests, ForgetRefresh(r)
      PROVE  Typed'
  <2>1. /\ req' \in [Requests -> Request]
        /\ \A p \in Requests : p # r => req'[p] = req[p]
        /\ req'[r].pc = "forget_row" /\ req'[r].op = req[r].op
        /\ req'[r].old = req[r].old /\ allow' \subseteq allow
    BY <1>0, <1>20, ForgetRefreshDoes
  <2>5. req[r].old \in issued /\ req[r].pc = "forget"
    BY <1>0, <1>20 DEF ForgetRefresh, Shape
  <2>2. Shape(req[r])'
    BY <1>0, <1>20, <2>1, <2>5 DEF Shape, Signed, ForgetRefresh, tokens
  <2>3. TypeOK' /\ issued \subseteq issued'
    BY <1>0, <1>20, <2>1 DEF TypeOK, ForgetRefresh, store, redis, tokens
  <2>4. QED
    BY <2>1, <2>2, <2>3, ShapesKept DEF Typed
<1>21. ASSUME NEW r \in Requests, ForgetRow(r)
      PROVE  Typed'
  <2>1. /\ req' \in [Requests -> Request]
        /\ \A p \in Requests : p # r => req'[p] = req[p]
        /\ req'[r] = Idle
    BY <1>0, <1>21, FinishFacts DEF ForgetRow
  <2>5. req[r].old \in Jti
    BY <1>0, <1>21 DEF TypeOK, ForgetRow, Shape
  <2>6. rows' \subseteq rows /\ loggedOut' \subseteq loggedOut \cup {req[r].old}
    BY <1>21 DEF ForgetRow, RowsWithout
  <2>2. Shape(req[r])'
    BY <1>0, <1>21, <2>1, IdleShape DEF ForgetRow
  <2>3. TypeOK' /\ issued \subseteq issued'
    BY <1>0, <1>21, <2>1, <2>5, <2>6 DEF TypeOK, ForgetRow, redis
  <2>4. QED
    BY <2>1, <2>2, <2>3, ShapesKept DEF Typed
<1>22. ASSUME NEW r \in Requests, AnswerActive(r)
      PROVE  Typed'
  <2>1. /\ req' \in [Requests -> Request]
        /\ \A p \in Requests : p # r => req'[p] = req[p]
        /\ req'[r] = Idle
    BY <1>0, <1>22, FinishFacts DEF AnswerActive
  <2>2. Shape(req[r])'
    BY <1>0, <1>22, <2>1, IdleShape DEF Shape, Signed, AnswerActive, tokens
  <2>3. TypeOK' /\ issued \subseteq issued'
    BY <1>0, <1>22, <2>1 DEF TypeOK, AnswerActive, store, redis, tokens
  <2>4. QED
    BY <2>1, <2>2, <2>3, ShapesKept DEF Typed
<1>23. ASSUME NEW r \in Requests, Abandon(r)
      PROVE  Typed'
  <2>1. /\ req' \in [Requests -> Request]
        /\ \A p \in Requests : p # r => req'[p] = req[p]
        /\ req'[r] = Idle
    BY <1>0, <1>23, FinishFacts DEF Abandon
  <2>2. Shape(req[r])'
    BY <1>0, <1>23, <2>1, IdleShape DEF Shape, Signed, Abandon, tokens
  <2>3. TypeOK' /\ issued \subseteq issued'
    BY <1>0, <1>23, <2>1 DEF TypeOK, Abandon, store, redis, tokens
  <2>4. QED
    BY <2>1, <2>2, <2>3, ShapesKept DEF Typed
<1>24. ASSUME NEW r \in Requests, NEW active \in BOOLEAN, CommitChange(r, active)
      PROVE  Typed'
  <2>1. /\ req' \in [Requests -> Request]
        /\ \A p \in Requests : p # r => req'[p] = req[p]
        /\ req'[r] = Idle
    BY <1>0, <1>24, FinishFacts DEF CommitChange
  <2>5. effects' \subseteq Jti \X {"blacklist", "allowlist"}
    BY <1>0, <1>24 DEF Request, TypeOK, CommitChange
  <2>6. account.gen \in Gen /\ account.gen < GenMax
    BY <1>0, <1>24 DEF TypeOK, CommitChange, Locking, GenerationLeft
  <2>7. account.gen + 1 \in Gen
    BY <2>6, GenMaxAssumption DEF Gen, GenMaxAssumption
  <2>2. Shape(req[r])'
    BY <1>0, <1>24, <2>1, IdleShape DEF Shape, Signed, CommitChange, tokens
  <2>3. TypeOK' /\ issued \subseteq issued'
    BY <1>0, <1>24, <2>1, <2>5, <2>7 DEF TypeOK, CommitChange, NextGeneration, store, redis, tokens
  <2>4. QED
    BY <2>1, <2>2, <2>3, ShapesKept DEF Typed
<1>25. CASE \/ DeleteAccount \/ DeleteMe \/ RedisDown \/ RedisBack
         \/ \E j \in Jti : DeliverBlacklist(j) \/ DeliverAllowlist(j)
  <2>3. ASSUME DeleteAccount \/ DeleteMe \/ RedisDown \/ RedisBack
        PROVE  TypeOK' /\ issued' = issued /\ req' = req
    BY <1>0, <2>3 DEF TypeOK, DeleteAccount, DeleteMe, RedisDown, RedisBack, store, redis, tokens
  <2>4. ASSUME NEW j \in Jti, DeliverBlacklist(j) \/ DeliverAllowlist(j)
        PROVE  TypeOK' /\ issued' = issued /\ req' = req
    BY <1>0, <2>4 DEF TypeOK, DeliverBlacklist, DeliverAllowlist, store, redis, tokens
  <2>1. TypeOK' /\ issued' = issued /\ req' = req
    BY <1>25, <2>3, <2>4
  <2>2. QED
    BY <1>0, <2>1 DEF Shape, Signed, Typed
<1>26. CASE UNCHANGED vars
  BY <1>0, <1>26 DEF TypeOK, vars, store, redis, tokens, Shape, Signed, Typed
<1>27. ASSUME NEW r \in Requests, NEW j \in Jti, BlacklistTarget(r, j)
      PROVE  Typed'
  <2>1. /\ req' \in [Requests -> Request]
        /\ \A p \in Requests : p # r => req'[p] = req[p]
        /\ req'[r].pc = "drop" /\ req'[r].op = req[r].op
    BY <1>0, <1>27, BlacklistTargetDoes
  <2>2. Shape(req[r])'
    BY <2>1 DEF Shape, Signed
  <2>3. TypeOK' /\ issued \subseteq issued'
    BY <1>0, <1>27, <2>1 DEF TypeOK, BlacklistTarget, store, redis, tokens
  <2>4. QED
    BY <2>1, <2>2, <2>3, ShapesKept DEF Typed
<1>28. ASSUME NEW r \in Requests, DropTarget(r)
      PROVE  Typed'
  <2>1. /\ req' \in [Requests -> Request]
        /\ \A p \in Requests : p # r => req'[p] = req[p]
        /\ req'[r].pc = "accelerate" /\ req'[r].op = req[r].op
    BY <1>0, <1>28, GotoFacts DEF DropTarget, PCs
  <2>2. Shape(req[r])'
    BY <2>1 DEF Shape, Signed
  <2>3. TypeOK' /\ issued \subseteq issued'
    BY <1>0, <1>28, <2>1 DEF TypeOK, DropTarget, store, redis, tokens
  <2>4. QED
    BY <2>1, <2>2, <2>3, ShapesKept DEF Typed
<1>29. QED
  BY <1>0, <1>1, <1>2, <1>3, <1>4, <1>5, <1>6, <1>7, <1>8, <1>9, <1>10, <1>11, <1>12, <1>13, <1>14,
     <1>15, <1>16, <1>17, <1>18, <1>19, <1>20, <1>21, <1>22, <1>23, <1>24, <1>25, <1>26, <1>27, <1>28
  DEF Next

-----------------------------------------------------------------------------
(* Steps that only let go *)

(* The request signs nothing, takes no lock and reads no row to judge by.   *)
QuietMove(p) ==
    /\ ~ Signed(req'[p]) /\ req'[p].pc # "owner"
    /\ Holds(req'[p]) =>
          RefreshHolds(req'[p]) /\ RefreshHolds(req[p]) /\ req'[p].gen = req[p].gen
    /\ req'[p].gen \in {0, req[p].gen}
    /\ req'[p].op = "refresh" =>
          \/ site.failOpen \/ req'[p].redis
          \/ req[p].op = "refresh" /\ req'[p].redis = req[p].redis
    /\ req'[p].row \in rows \cup {req[p].row, NoRow}
    /\ req'[p].view \subseteq req[p].view
    /\ req'[p].pc = "forget_row" => ForgetRefresh(p)

Quiet ==
    /\ UNCHANGED <<site, account, claims, issued, spent, split>>
    /\ rows' \subseteq rows /\ allow' \subseteq allow
    /\ \A p \in Requests : req'[p] = req[p] \/ QuietMove(p)

(* All other steps. *)
Active ==
    \/ \E r \in Requests :
          \/ \E client \in Clients, j \in Jti : Authenticate(r, j, client)
          \/ \E s \in rows, j \in Jti : CheckLineage(r, s, j)
          \/ \E s \in rows : AskSession(r, s)
          \/ SelectSession(r)
          \/ FlushLogin(r)
          \/ Register(r)
          \/ ReloadUser(r)
          \/ Rotate(r)
          \/ FlushRefresh(r)
          \/ BeginChange(r)
          \/ LockAndCapture(r)
          \/ \E active \in BOOLEAN : CommitChange(r, active)
    \/ DeleteAccount
    \/ DeleteMe

LEMMA IdleMoveIsQuiet ==
    ASSUME NEW p, req'[p] = Idle
    PROVE  QuietMove(p)
<1> QED
  BY IdleFacts DEF QuietMove, Signed, Holds, RefreshHolds

LEMMA QuietOrActive ==
    ASSUME Typed, [Next]_vars
    PROVE  Quiet \/ Active
<1>0. TypeOK /\ Clients \subseteq BOOLEAN
  BY ClientsBoolean DEF Typed
<1>1. ASSUME NEW r \in Requests, NEW client \in Clients, NEW j \in Jti, PresentRefresh(r, j, client)
      PROVE  Quiet
  <2>1. /\ \A p \in Requests : p # r => req'[p] = req[p]
        /\ req'[r].op = "refresh" /\ req'[r].pc = "lock"
        /\ req'[r].redis = client /\ req'[r].gen = 0
        /\ req'[r].row = NoRow /\ req'[r].view = {}
    BY <1>0, <1>1, PresentRefreshDoes
  <2>2. QuietMove(r)
    BY <1>0, <1>1, <2>1 DEF QuietMove, Signed, Holds, RefreshHolds, PresentRefresh
  <2>3. QED
    BY <1>1, <2>1, <2>2 DEF Quiet, PresentRefresh, store, redis, tokens
<1>2. ASSUME NEW r \in Requests, NEW client \in Clients, NEW j \in Jti, AskTombstone(r, j, client)
      PROVE  Quiet
  <2>1. /\ \A p \in Requests : p # r => req'[p] = req[p]
        /\ req'[r].op = "introspect" /\ req'[r].pc = "session"
        /\ req'[r].redis = client /\ req'[r].gen = 0
        /\ req'[r].row = NoRow /\ req'[r].view = {}
    BY <1>0, <1>2, AskTombstoneDoes
  <2>2. QuietMove(r)
    BY <1>0, <1>2, <2>1 DEF QuietMove, Signed, Holds, RefreshHolds
  <2>3. QED
    BY <1>2, <2>1, <2>2 DEF Quiet, AskTombstone, store, redis, tokens
<1>3. ASSUME NEW r \in Requests, NEW client \in Clients, NEW j \in Jti, Logout(r, j, client)
      PROVE  Quiet
  <2>1. /\ \A p \in Requests : p # r => req'[p] = req[p]
        /\ req'[r].op = "logout"
        /\ req'[r].pc \in {"blacklist", "forget"} /\ req'[r].gen = 0
        /\ req'[r].row = NoRow /\ req'[r].view = {}
    BY <1>0, <1>3, LogoutDoes
  <2>2. QuietMove(r)
    BY <1>0, <1>3, <2>1 DEF QuietMove, Signed, Holds, RefreshHolds
  <2>3. QED
    BY <1>3, <2>1, <2>2 DEF Quiet, Logout, RowsWithout, store, redis, tokens
<1>4. ASSUME NEW r \in Requests, NEW client \in Clients, RevokeAll(r, client)
      PROVE  Quiet
  <2>1. /\ \A p \in Requests : p # r => req'[p] = req[p]
        /\ req'[r].op = "revoke_all" /\ req'[r].pc = "erase"
        /\ req'[r].redis = client /\ req'[r].gen = 0
        /\ req'[r].row = NoRow /\ req'[r].view = {}
    BY <1>0, <1>4, RevokeAllDoes
  <2>2. QuietMove(r)
    BY <1>0, <1>4, <2>1 DEF QuietMove, Signed, Holds, RefreshHolds
  <2>3. QED
    BY <1>4, <2>1, <2>2 DEF Quiet, RevokeAll, store, redis, tokens
<1>5. ASSUME NEW r \in Requests, NEW client \in Clients, NEW s \in rows, RevokeOne(r, s, client)
      PROVE  Quiet
  <2>1. /\ \A p \in Requests : p # r => req'[p] = req[p]
        /\ req'[r].op = "revoke_one" /\ req'[r].pc = "erase"
        /\ req'[r].redis = client /\ req'[r].gen = 0 /\ req'[r].row = s
        /\ req'[r].view = {}
    BY <1>0, <1>5, RevokeOneDoes
  <2>2. QuietMove(r)
    BY <1>0, <1>5, <2>1 DEF QuietMove, Signed, Holds, RefreshHolds
  <2>3. QED
    BY <1>5, <2>1, <2>2 DEF Quiet, RevokeOne, store, redis, tokens
<1>6. ASSUME NEW r \in Requests, CaptureSessions(r)
      PROVE  Quiet
  <2>1. /\ \A p \in Requests : p # r => req'[p] = req[p]
        /\ req'[r].pc = "erase" /\ req[r].pc = "capture" /\ req[r].op = "refresh"
        /\ req'[r].op = req[r].op /\ req'[r].redis = req[r].redis
        /\ req'[r].gen = req[r].gen /\ req'[r].row = req[r].row
        /\ req'[r].view = req[r].view
    BY <1>0, <1>6, CaptureDoes DEF CaptureSessions
  <2>2. QuietMove(r)
    BY <2>1 DEF QuietMove, Signed, Holds, RefreshHolds
  <2>3. QED
    BY <1>6, <2>1, <2>2 DEF Quiet, CaptureSessions, store, redis, tokens
<1>7. ASSUME NEW r \in Requests, Blacklist(r)
      PROVE  Quiet
  <2>1. /\ \A p \in Requests : p # r => req'[p] = req[p]
        /\ req'[r].pc = "forget" /\ req'[r].op = req[r].op
        /\ req'[r].redis = req[r].redis /\ req'[r].gen = req[r].gen
        /\ req'[r].row = req[r].row /\ req'[r].view = req[r].view
    BY <1>0, <1>7, BlacklistDoes
  <2>2. QuietMove(r)
    BY <1>0, <1>7, <2>1 DEF QuietMove, Signed, Holds, RefreshHolds
  <2>3. QED
    BY <1>7, <2>1, <2>2 DEF Quiet, Blacklist, store, redis, tokens
<1>8. ASSUME NEW r \in Requests, EraseSessions(r)
      PROVE  Quiet
  <2>1. /\ \A p \in Requests : p # r => req'[p] = req[p]
        /\ req'[r].pc = "accelerate" /\ req'[r].op = req[r].op
        /\ req'[r].redis = req[r].redis /\ req'[r].gen = req[r].gen
        /\ req'[r].row = req[r].row /\ req'[r].view = req[r].view
    BY <1>0, <1>8, GotoFacts DEF EraseSessions, PCs
  <2>2. QuietMove(r)
    BY <1>0, <1>8, <2>1 DEF QuietMove, Signed, Holds, RefreshHolds
  <2>3. QED
    BY <1>8, <2>1, <2>2 DEF Quiet, EraseSessions, store, redis, tokens
<1>9. ASSUME NEW r \in Requests, EraseSession(r)
      PROVE  Quiet
  <2>1. /\ \A p \in Requests : p # r => req'[p] = req[p]
        /\ req'[r].pc = "accelerate" /\ req'[r].op = req[r].op
        /\ req'[r].redis = req[r].redis /\ req'[r].gen = req[r].gen
        /\ req'[r].row = req[r].row /\ req'[r].view = req[r].view
    BY <1>0, <1>9, GotoFacts DEF EraseSession, PCs
  <2>2. QuietMove(r)
    BY <1>0, <1>9, <2>1 DEF QuietMove, Signed, Holds, RefreshHolds
  <2>3. QED
    BY <1>9, <2>1, <2>2 DEF Quiet, EraseSession, store, redis, tokens
<1>10. ASSUME NEW r \in Requests, ForgetRefresh(r)
      PROVE  Quiet
  <2>1. /\ \A p \in Requests : p # r => req'[p] = req[p]
        /\ req'[r].pc = "forget_row" /\ req'[r].op = req[r].op
        /\ req'[r].redis = req[r].redis /\ req'[r].gen = req[r].gen
        /\ req'[r].row = req[r].row /\ req'[r].view = req[r].view
        /\ allow' \subseteq allow
    BY <1>0, <1>10, ForgetRefreshDoes
  <2>2. QuietMove(r)
    BY <1>10, <2>1 DEF QuietMove, Signed, Holds, RefreshHolds
  <2>3. QED
    BY <1>10, <2>1, <2>2 DEF Quiet, ForgetRefresh, store, tokens
<1>11. ASSUME NEW r \in Requests, ForgetRow(r)
      PROVE  Quiet
  <2>1. /\ \A p \in Requests : p # r => req'[p] = req[p]
        /\ req'[r] = Idle
    BY <1>0, <1>11, FinishFacts DEF ForgetRow
  <2>2. QuietMove(r)
    BY <2>1, IdleMoveIsQuiet
  <2>3. QED
    BY <1>11, <2>1, <2>2 DEF Quiet, ForgetRow, RowsWithout, redis
<1>12. ASSUME NEW r \in Requests, AnswerActive(r)
      PROVE  Quiet
  <2>1. /\ \A p \in Requests : p # r => req'[p] = req[p]
        /\ req'[r] = Idle
    BY <1>0, <1>12, FinishFacts DEF AnswerActive
  <2>2. QuietMove(r)
    BY <2>1, IdleMoveIsQuiet
  <2>3. QED
    BY <1>12, <2>1, <2>2 DEF Quiet, AnswerActive, store, redis, tokens
<1>13. ASSUME NEW r \in Requests, Abandon(r)
      PROVE  Quiet
  <2>1. /\ \A p \in Requests : p # r => req'[p] = req[p]
        /\ req'[r] = Idle
    BY <1>0, <1>13, FinishFacts DEF Abandon
  <2>2. QuietMove(r)
    BY <2>1, IdleMoveIsQuiet
  <2>3. QED
    BY <1>13, <2>1, <2>2 DEF Quiet, Abandon, store, redis, tokens
<1>14. ASSUME NEW r \in Requests, NEW j \in Jti, BlacklistTarget(r, j)
      PROVE  Quiet
  <2>1. /\ \A p \in Requests : p # r => req'[p] = req[p]
        /\ req'[r].pc = "drop" /\ req'[r].op = req[r].op
        /\ req'[r].redis = req[r].redis /\ req'[r].gen = req[r].gen
        /\ req'[r].row = req[r].row /\ req'[r].view = req[r].view
    BY <1>0, <1>14, BlacklistTargetDoes
  <2>2. QuietMove(r)
    BY <2>1 DEF QuietMove, Signed, Holds, RefreshHolds
  <2>3. QED
    BY <1>14, <2>1, <2>2 DEF Quiet, BlacklistTarget, store, tokens
<1>15. ASSUME NEW r \in Requests, DropTarget(r)
      PROVE  Quiet
  <2>1. /\ \A p \in Requests : p # r => req'[p] = req[p]
        /\ req'[r].pc = "accelerate" /\ req'[r].op = req[r].op
        /\ req'[r].redis = req[r].redis /\ req'[r].gen = req[r].gen
        /\ req'[r].row = req[r].row /\ req'[r].view = req[r].view
    BY <1>0, <1>15, GotoFacts DEF DropTarget, PCs
  <2>2. QuietMove(r)
    BY <2>1 DEF QuietMove, Signed, Holds, RefreshHolds
  <2>3. QED
    BY <1>15, <2>1, <2>2 DEF Quiet, DropTarget, store, tokens
<1>16. CASE \/ RedisDown \/ RedisBack \/ UNCHANGED vars
         \/ \E j \in Jti : DeliverBlacklist(j) \/ DeliverAllowlist(j)
  BY <1>0, <1>16 DEF Quiet, RedisDown, RedisBack, DeliverBlacklist, DeliverAllowlist, vars,
     store, redis, tokens
<1>17. QED
  BY <1>1, <1>2, <1>3, <1>4, <1>5, <1>6, <1>7, <1>8, <1>9, <1>10, <1>11, <1>12, <1>13, <1>14,
     <1>15, <1>16 DEF Next, Active

-----------------------------------------------------------------------------
(* Signing: a pair that is not flushed is known to nobody but its request *)

(* A request reads session rows from the table, from its snapshot or not at *)
(* all.                                                                     *)
LEMMA RowsRead ==
    ASSUME Typed, [Next]_vars, NEW p \in Requests
    PROVE  /\ req'[p].row \in rows \cup req[p].view \cup {req[p].row, NoRow}
           /\ req'[p].view \subseteq rows \cup req[p].view
<1>0. TypeOK /\ Clients \subseteq BOOLEAN
  BY ClientsBoolean DEF Typed
<1>1. CASE Quiet
  BY <1>1 DEF Quiet, QuietMove
<1>2. ASSUME NEW r \in Requests, NEW client \in Clients, NEW j \in Jti,
             Authenticate(r, j, client)
      PROVE  /\ \A q \in Requests : q # r => req'[q] = req[q]
             /\ req'[r].row = NoRow /\ req'[r].view \subseteq rows
  BY <1>0, <1>2, AuthenticateDoes DEF SnapshotNow
<1>3. ASSUME NEW r \in Requests, NEW s \in rows, NEW j \in Jti, CheckLineage(r, s, j)
      PROVE  /\ \A q \in Requests : q # r => req'[q] = req[q]
             /\ req'[r].row = req[r].row /\ req'[r].view \subseteq rows
  BY <1>0, <1>3, CheckLineageDoes DEF SnapshotNow
<1>4. ASSUME NEW r \in Requests, NEW s \in rows, AskSession(r, s)
      PROVE  /\ \A q \in Requests : q # r => req'[q] = req[q]
             /\ req'[r].row = s /\ req'[r].view = req[r].view
  BY <1>0, <1>4, AskSessionDoes
<1>5. ASSUME NEW r \in Requests, SelectSession(r)
      PROVE  /\ \A q \in Requests : q # r => req'[q] = req[q]
             /\ req'[r].row \in rows \cup req[r].view \cup {req[r].row, NoRow}
             /\ req'[r].view = req[r].view
  BY <1>0, <1>5, SelectSessionDoes DEF Visible
<1>6. ASSUME NEW r \in Requests,
             FlushLogin(r) \/ Rotate(r) \/ ReloadUser(r) \/ LockAndCapture(r)
      PROVE  /\ \A q \in Requests : q # r => req'[q] = req[q]
             /\ req'[r].row = req[r].row /\ req'[r].view = req[r].view
  <2>1. CASE ReloadUser(r)
    BY <1>0, <2>1, ReloadUserDoes
  <2>2. CASE FlushLogin(r)
    BY <1>0, <2>2, GotoFacts DEF FlushLogin, PCs
  <2>3. CASE Rotate(r)
    BY <1>0, <2>3, GotoFacts DEF Rotate, PCs
  <2>4. CASE LockAndCapture(r)
    BY <1>0, <2>4, CaptureDoes
  <2>5. QED
    BY <1>6, <2>1, <2>2, <2>3, <2>4
<1>7. ASSUME NEW r \in Requests,
             \/ Register(r)
             \/ FlushRefresh(r)
             \/ \E active \in BOOLEAN : CommitChange(r, active)
      PROVE  /\ \A q \in Requests : q # r => req'[q] = req[q]
             /\ req'[r].row = NoRow /\ req'[r].view = {}
  BY <1>0, <1>7, FinishFacts, IdleFacts DEF Register, FlushRefresh, CommitChange
<1>8. ASSUME NEW r \in Requests, BeginChange(r)
      PROVE  /\ \A q \in Requests : q # r => req'[q] = req[q]
             /\ req'[r].row = NoRow /\ req'[r].view \subseteq rows
  BY <1>0, <1>8, BeginChangeDoes DEF SnapshotNow
<1>9. CASE DeleteAccount \/ DeleteMe
  BY <1>9 DEF DeleteAccount, DeleteMe
<1>10. CASE Active
  <2>1. CASE DeleteAccount \/ DeleteMe
    BY <1>9, <2>1
  <2>2. CASE \E r \in Requests :
                /\ \A q \in Requests : q # r => req'[q] = req[q]
                /\ req'[r].row \in rows \cup req[r].view \cup {req[r].row, NoRow}
                /\ req'[r].view \subseteq rows \cup req[r].view
    BY <2>2
  <2>3. QED
    BY <1>2, <1>3, <1>4, <1>5, <1>6, <1>7, <1>8, <1>10, <2>1, <2>2 DEF Active
<1>11. QED
  BY <1>1, <1>10, QuietOrActive

LEMMA RowsWritten ==
    ASSUME Typed, [Next]_vars
    PROVE  \/ rows' \subseteq rows
           \/ \E r \in Requests : FlushLogin(r) \/ FlushRefresh(r)
<1>1. CASE Quiet
  BY <1>1 DEF Quiet
<1>2. CASE Active
  BY <1>2 DEF Active, Authenticate, CheckLineage, AskSession, SelectSession, Register,
     ReloadUser, Rotate, BeginChange, LockAndCapture, CommitChange, DeleteAccount, DeleteMe, store
<1>3. QED
  BY <1>1, <1>2, QuietOrActive

(* A flush writes its own JTI and nothing else that is new.                 *)
LEMMA FlushWrites ==
    ASSUME Typed, NEW r \in Requests, FlushLogin(r) \/ FlushRefresh(r)
    PROVE  /\ req[r] \in Request /\ req[r].new \in Jti /\ req[r].gen \in Gen
           /\ rows' = Upsert(req[r])
           /\ \A t \in rows' :
                 \/ t.id = req[r].new /\ t.jti = req[r].new
                 \/ \E s \in rows : t.id = s.id /\ t.jti \in {s.jti, req[r].new}
<1>1. /\ req[r] \in Request /\ req[r].new \in Jti /\ req[r].gen \in Gen
      /\ rows' = Upsert(req[r]) /\ rows \subseteq SessionRow
  BY DEF Typed, TypeOK, Shape, Signed, FlushLogin, FlushRefresh
<1> DEFINE q == req[r]
<1>2. \A s \in rows : Restamped(s, q).id = s.id /\ Restamped(s, q).jti = q.new
  BY <1>1, RestampedFacts
<1>3. ASSUME NEW t \in rows'
      PROVE  \/ t.id = q.new /\ t.jti = q.new
             \/ \E s \in rows : t.id = s.id /\ t.jti \in {s.jti, q.new}
  <2>1. CASE q.row = NoRow
    BY <1>1, <1>3, <2>1, UpsertFacts
  <2>2. CASE q.row # NoRow
    BY <1>1, <1>2, <1>3, <2>2, UpsertFacts
  <2>3. QED
    BY <2>1, <2>2
<1>4. QED
  BY <1>1, <1>3

LEMMA UnwrittenKept ==
    ASSUME Typed, [Next]_vars, NEW j \in Jti, Unwritten(j),
           \A r \in Requests : FlushLogin(r) \/ FlushRefresh(r) => req[r].new # j
    PROVE  Unwritten(j)'
<1>1. \A s \in rows' : s.id # j /\ s.jti # j
  <2>1. CASE rows' \subseteq rows
    BY <2>1 DEF Unwritten
  <2>2. CASE \E r \in Requests : FlushLogin(r) \/ FlushRefresh(r)
    <3>1. PICK r \in Requests : FlushLogin(r) \/ FlushRefresh(r)
      BY <2>2
    <3>2. QED
      BY <3>1, FlushWrites DEF Unwritten
  <2>3. QED
    BY <2>1, <2>2, RowsWritten
<1>2. ASSUME NEW p \in Requests
      PROVE  /\ req'[p].row.id # j
             /\ \A v \in req'[p].view : v.id # j
  <2>1. /\ req'[p].row \in rows \cup req[p].view \cup {req[p].row, NoRow}
        /\ req'[p].view \subseteq rows \cup req[p].view
    BY RowsRead
  <2>2. NoRow.id # j
    BY NoRowFacts, NoJtiAssumption DEF NoJtiAssumption
  <2>3. QED
    BY <2>1, <2>2 DEF Unwritten
<1>3. QED
  BY <1>1, <1>2 DEF Unwritten

(* A signed pair stays what it was signed as, until its request ends.       *)
Carried(p) ==
    /\ Signed(req[p]) /\ req'[p].new = req[p].new /\ req'[p].gen = req[p].gen
    /\ Unflushed(req'[p]) => Unflushed(req[p])

Signs(p, j) ==
    /\ j \in Fresh
    /\ claims' = [claims EXCEPT ![j] = req'[p].gen]
    /\ req'[p].new = j
    /\ issued' = issued
    /\ \A q \in Requests : q # p => req'[q] = req[q]

LEMMA WhoSigns ==
    ASSUME Typed, [Next]_vars
    PROVE  \/ /\ claims' = claims
              /\ \A p \in Requests : Signed(req'[p]) => Carried(p)
           \/ \E p \in Requests, j \in Jti : Signs(p, j)
<1> DEFINE Rest == /\ claims' = claims
                  /\ \A p \in Requests : Signed(req'[p]) => Carried(p)
<1>0. TypeOK /\ Clients \subseteq BOOLEAN
  BY ClientsBoolean DEF Typed
<1>1. CASE Quiet
  BY <1>1 DEF Quiet, QuietMove, Carried
<1>2. ASSUME NEW r \in Requests, NEW client \in Clients, NEW j \in Jti,
             Authenticate(r, j, client)
      PROVE  Signs(r, j)
  <2>1. /\ \A p \in Requests : p # r => req'[p] = req[p]
        /\ req'[r].new = j /\ req'[r].gen = account.gen
    BY <1>0, <1>2, AuthenticateDoes
  <2>2. QED
    BY <2>1, <1>2 DEF Signs, Authenticate
<1>3. ASSUME NEW r \in Requests, NEW s \in rows, NEW j \in Jti, CheckLineage(r, s, j)
      PROVE  Signs(r, j)
  <2>1. /\ \A p \in Requests : p # r => req'[p] = req[p]
        /\ req'[r].new = j /\ req'[r].gen = req[r].gen
    BY <1>0, <1>3, CheckLineageDoes
  <2>2. QED
    BY <2>1, <1>3 DEF Signs, CheckLineage
<1>4. ASSUME NEW r \in Requests, NEW s \in rows, AskSession(r, s)
      PROVE  Rest
  <2>1. /\ \A p \in Requests : p # r => req'[p] = req[p]
        /\ req'[r].pc = "owner"
    BY <1>0, <1>4, AskSessionDoes
  <2>2. QED
    BY <2>1, <1>4 DEF AskSession, tokens, Signed, Carried
<1>5. ASSUME NEW r \in Requests, SelectSession(r)
      PROVE  Rest
  <2>1. /\ \A p \in Requests : p # r => req'[p] = req[p]
        /\ req'[r].new = req[r].new /\ req'[r].gen = req[r].gen
    BY <1>0, <1>5, SelectSessionDoes
  <2>2. QED
    BY <2>1, <1>5 DEF SelectSession, tokens, Signed, Unflushed, Carried
<1>6. ASSUME NEW r \in Requests, FlushLogin(r)
      PROVE  Rest
  <2>1. /\ \A p \in Requests : p # r => req'[p] = req[p]
        /\ req'[r].pc = "register"
        /\ req'[r].new = req[r].new /\ req'[r].gen = req[r].gen
    BY <1>0, <1>6, GotoFacts DEF FlushLogin, PCs
  <2>2. QED
    BY <2>1, <1>6 DEF FlushLogin, Signed, Unflushed, Carried
<1>7. ASSUME NEW r \in Requests, Rotate(r)
      PROVE  Rest
  <2>1. /\ \A p \in Requests : p # r => req'[p] = req[p]
        /\ req'[r].new = req[r].new /\ req'[r].gen = req[r].gen
    BY <1>0, <1>7, GotoFacts DEF Rotate, PCs
  <2>2. QED
    BY <2>1, <1>7 DEF Rotate, tokens, Signed, Unflushed, Carried
<1>8. ASSUME NEW r \in Requests, BeginChange(r) \/ LockAndCapture(r) \/ ReloadUser(r)
      PROVE  Rest
  <2>1. /\ \A p \in Requests : p # r => req'[p] = req[p]
        /\ req'[r].pc \in {"capture", "erase", "lineage"}
    BY <1>0, <1>8, BeginChangeDoes, CaptureDoes, ReloadUserDoes
  <2>2. QED
    BY <2>1, <1>8 DEF BeginChange, LockAndCapture, ReloadUser, tokens, Signed, Carried
<1>9. ASSUME NEW r \in Requests,
             \/ Register(r)
             \/ FlushRefresh(r)
             \/ \E active \in BOOLEAN : CommitChange(r, active)
      PROVE  Rest
  <2>1. /\ \A p \in Requests : p # r => req'[p] = req[p]
        /\ req'[r].pc = "idle"
    BY <1>0, <1>9, FinishFacts, IdleFacts DEF Register, FlushRefresh, CommitChange
  <2>2. QED
    BY <2>1, <1>9 DEF Register, FlushRefresh, CommitChange, tokens, Signed, Carried
<1>10. CASE DeleteAccount \/ DeleteMe
  BY <1>10 DEF DeleteAccount, DeleteMe, tokens, Carried
<1>11. QED
  BY <1>1, <1>2, <1>3, <1>4, <1>5, <1>6, <1>7, <1>8, <1>9, <1>10, QuietOrActive DEF Active

(* The pair is handed out as the last thing its request does.               *)
LEMMA WhoIssues ==
    ASSUME Typed, [Next]_vars
    PROVE  \/ issued' = issued
           \/ \E r \in Requests :
                 /\ Signed(req[r]) /\ ~ Signed(req'[r])
                 /\ issued' = issued \cup {req[r].new}
                 /\ \A p \in Requests : p # r => req'[p] = req[p]
<1>0. TypeOK
  BY DEF Typed
<1>1. ASSUME NEW r \in Requests, Register(r) \/ FlushRefresh(r)
      PROVE  /\ Signed(req[r]) /\ ~ Signed(req'[r])
             /\ issued' = issued \cup {req[r].new}
             /\ \A p \in Requests : p # r => req'[p] = req[p]
  BY <1>0, <1>1, FinishFacts, IdleFacts DEF Register, FlushRefresh, Signed
<1>2. CASE Quiet
  BY <1>2 DEF Quiet
<1>3. CASE Active
  BY <1>1, <1>3 DEF Active, Authenticate, CheckLineage, AskSession, SelectSession, FlushLogin,
     ReloadUser, Rotate, BeginChange, LockAndCapture, CommitChange, DeleteAccount, DeleteMe, tokens
<1>4. QED
  BY <1>2, <1>3, QuietOrActive

(* Only the answer of a logout adds to the pairs logged out.                *)
LEMMA WhoLogsOut ==
    ASSUME [Next]_vars
    PROVE  \/ loggedOut' = loggedOut
           \/ \E r \in Requests : ForgetRow(r) /\ loggedOut' = loggedOut \cup {req[r].old}
<1>1. ASSUME NEW r \in Requests, NEW client \in Clients, NEW j \in Jti,
             \/ Authenticate(r, j, client) \/ PresentRefresh(r, j, client)
             \/ Logout(r, j, client) \/ AskTombstone(r, j, client)
      PROVE  loggedOut' = loggedOut
  BY <1>1 DEF Authenticate, PresentRefresh, Logout, AskTombstone, tokens
<1>2. ASSUME NEW r \in Requests, NEW client \in Clients, NEW s \in rows, RevokeOne(r, s, client)
      PROVE  loggedOut' = loggedOut
  BY <1>2 DEF RevokeOne, tokens
<1>3. ASSUME NEW r \in Requests, NEW client \in Clients, RevokeAll(r, client)
      PROVE  loggedOut' = loggedOut
  BY <1>3 DEF RevokeAll, tokens
<1>4. ASSUME NEW r \in Requests, NEW s \in rows,
             (\E j \in Jti : CheckLineage(r, s, j)) \/ AskSession(r, s)
      PROVE  loggedOut' = loggedOut
  BY <1>4 DEF CheckLineage, AskSession, tokens
<1>5. ASSUME NEW r \in Requests,
             \/ SelectSession(r) \/ FlushLogin(r) \/ Register(r) \/ ReloadUser(r)
             \/ Rotate(r) \/ FlushRefresh(r)
      PROVE  loggedOut' = loggedOut
  BY <1>5 DEF SelectSession, FlushLogin, Register, ReloadUser, Rotate, FlushRefresh, tokens
<1>6. ASSUME NEW r \in Requests,
             \/ Blacklist(r) \/ ForgetRefresh(r) \/ CaptureSessions(r) \/ EraseSessions(r)
             \/ EraseSession(r) \/ (\E j \in Jti : BlacklistTarget(r, j)) \/ DropTarget(r)
             \/ BeginChange(r) \/ LockAndCapture(r) \/ AnswerActive(r) \/ Abandon(r)
             \/ \E active \in BOOLEAN : CommitChange(r, active)
      PROVE  loggedOut' = loggedOut
  BY <1>6 DEF Blacklist, ForgetRefresh, CaptureSessions, EraseSessions, EraseSession,
     BlacklistTarget, DropTarget, BeginChange, LockAndCapture, AnswerActive, Abandon,
     CommitChange, tokens
<1>7. ASSUME NEW r \in Requests, ForgetRow(r)
      PROVE  loggedOut' = loggedOut \/ loggedOut' = loggedOut \cup {req[r].old}
  <2>1. loggedOut' = loggedOut \cup (IF Confirms(req[r]) THEN {req[r].old} ELSE {})
           \/ loggedOut' = loggedOut \cup {req[r].old}
    BY <1>7 DEF ForgetRow
  <2>2. QED
    BY <2>1
<1>8. ASSUME \/ DeleteAccount \/ DeleteMe \/ RedisDown \/ RedisBack
             \/ \E j \in Jti : DeliverBlacklist(j) \/ DeliverAllowlist(j)
      PROVE  loggedOut' = loggedOut
  BY <1>8 DEF DeleteAccount, DeleteMe, DeliverBlacklist, DeliverAllowlist, RedisDown,
     RedisBack, tokens
<1>9. CASE UNCHANGED vars
  BY <1>9 DEF vars, tokens
<1>10. QED
  BY <1>1, <1>2, <1>3, <1>4, <1>5, <1>6, <1>7, <1>8, <1>9 DEF Next

(* What is exchanged or logged out was handed out before.                   *)
LEMMA HistoriesIssued ==
    ASSUME Typed, [Next]_vars, spent \subseteq issued, loggedOut \subseteq issued
    PROVE  spent' \subseteq issued' /\ loggedOut' \subseteq issued'
<1>1. issued \subseteq issued'
  BY WhoIssues
<1>2. \/ spent' = spent
      \/ \E r \in Requests : FlushRefresh(r) /\ spent' = spent \cup {req[r].old}
  <2>1. CASE Quiet
    BY <2>1 DEF Quiet
  <2>2. CASE Active
    BY <2>2, ZenonT(40) DEF Active, Authenticate, CheckLineage, AskSession, SelectSession,
       FlushLogin, Register, ReloadUser, Rotate, FlushRefresh, BeginChange, LockAndCapture,
       CommitChange, DeleteAccount, DeleteMe, tokens
  <2>3. QED
    BY <2>1, <2>2, QuietOrActive
<1>3. \/ loggedOut' = loggedOut
      \/ \E r \in Requests : ForgetRow(r) /\ loggedOut' = loggedOut \cup {req[r].old}
  BY WhoLogsOut
<1>4. ASSUME NEW r \in Requests, ForgetRow(r) \/ FlushRefresh(r)
      PROVE  req[r].old \in issued
  BY <1>4 DEF Typed, Shape, ForgetRow, FlushRefresh
<1>5. QED
  BY <1>1, <1>2, <1>3, <1>4

LEMMA SigningStep ==
    ASSUME Typed, Typed', Signing, [Next]_vars
    PROVE  Signing'
<1>0. /\ claims \in [Jti -> 0 .. GenMax]
      /\ \A r \in Requests : Signed(req[r]) => req[r].new \in Jti /\ req[r].gen \in Gen
      /\ \A r \in Requests : Signed(req'[r]) => req'[r].new \in Jti /\ req'[r].gen \in Gen
  BY DEF Typed, TypeOK, Shape
<1>1. spent' \subseteq issued' /\ loggedOut' \subseteq issued'
  BY HistoriesIssued DEF Signing
<1>2. ASSUME NEW r \in Requests, FlushLogin(r) \/ FlushRefresh(r)
      PROVE  Unflushed(req[r]) /\ Signed(req[r]) /\ ~ Unflushed(req'[r])
  <2>1. CASE FlushLogin(r)
    BY <2>1, GotoFacts DEF FlushLogin, PCs, Unflushed, Signed, Typed
  <2>2. CASE FlushRefresh(r)
    BY <2>2, FinishFacts, IdleFacts DEF FlushRefresh, Unflushed, Signed, Typed
  <2>3. QED
    BY <1>2, <2>1, <2>2
<1>3. ASSUME NEW j \in Fresh, NEW r \in Requests, Signed(req[r])
      PROVE  req[r].new # j
  <2>1. claims[req[r].new] # 0
    BY <1>0, <1>3 DEF Signing, Gen
  <2>2. QED
    BY <2>1 DEF Fresh
<1>4. \A j \in Fresh : Unwritten(j)'
  BY <1>2, <1>3, UnwrittenKept DEF Signing, Fresh
<1>5. \A j \in Fresh : j \notin issued'
  BY <1>3, WhoIssues DEF Signing
<1>6. Fresh' \subseteq Fresh
  <2>1. CASE claims' = claims
    BY <2>1 DEF Fresh
  <2>2. ASSUME NEW p \in Requests, NEW j \in Jti, Signs(p, j)
        PROVE  Fresh' \subseteq Fresh
    BY <1>0, <2>2 DEF Fresh, Signs
  <2>3. QED
    BY <2>1, <2>2, WhoSigns
<1>7. ASSUME NEW r \in Requests, Unflushed(req'[r]), Carried(r)
      PROVE  Unwritten(req[r].new)'
  <2>1. Unflushed(req[r]) /\ Signed(req[r]) /\ req'[r].new = req[r].new /\ req[r].new \in Jti
    BY <1>0, <1>7 DEF Carried
  <2>2. Unwritten(req[r].new)
    BY <2>1 DEF Signing
  <2> DEFINE j == req[r].new
  <2>3. \A p \in Requests : FlushLogin(p) \/ FlushRefresh(p) => req[p].new # j
    BY <1>2, <1>7, <2>1 DEF Signing
  <2>4. PICK k \in Jti : k = j
    BY <2>1
  <2>5. Unwritten(k)'
    BY <2>2, <2>3, <2>4, UnwrittenKept
  <2>6. QED
    BY <2>1, <2>4, <2>5 DEF Unwritten
<1>8. CASE /\ claims' = claims
           /\ \A p \in Requests : Signed(req'[p]) => Carried(p)
  <2>1. ASSUME NEW r \in Requests, Signed(req'[r])
        PROVE  /\ claims'[req'[r].new] = req'[r].gen
               /\ req'[r].new \notin issued'
               /\ \A p \in Requests :
                     Signed(req'[p]) /\ req'[p].new = req'[r].new => p = r
    <3>1. Carried(r)
      BY <1>8, <2>1
    <3>2. /\ claims'[req'[r].new] = req'[r].gen
          /\ \A p \in Requests : Signed(req'[p]) /\ req'[p].new = req'[r].new => p = r
      BY <1>8, <3>1 DEF Signing, Carried
    <3>3. req'[r].new \notin issued'
      BY <2>1, <3>1, WhoIssues DEF Signing, Carried
    <3>4. QED
      BY <3>2, <3>3
  <2>2. \A r \in Requests : Unflushed(req'[r]) => Signed(req'[r])
    BY DEF Unflushed, Signed
  <2>3. QED
    BY <1>1, <1>4, <1>5, <1>6, <1>7, <1>8, <2>1, <2>2 DEF Signing
<1>9. ASSUME NEW p \in Requests, NEW j \in Jti, Signs(p, j)
      PROVE  Signing'
  <2>1. /\ j \in Fresh /\ claims' = [claims EXCEPT ![j] = req'[p].gen]
        /\ req'[p].new = j /\ issued' = issued
        /\ \A q \in Requests : q # p => req'[q] = req[q]
    BY <1>9 DEF Signs
  <2>2. /\ claims'[j] = req'[p].gen
        /\ \A k \in Jti : k # j => claims'[k] = claims[k]
    BY <1>0, <2>1
  <2>3. ASSUME NEW r \in Requests, Signed(req'[r])
        PROVE  /\ claims'[req'[r].new] = req'[r].gen
               /\ req'[r].new \notin issued'
               /\ \A q \in Requests :
                     Signed(req'[q]) /\ req'[q].new = req'[r].new => q = r
    <3>1. CASE r = p
      <4>1. \A q \in Requests : q # p /\ Signed(req'[q]) => req'[q].new # j
        BY <1>3, <2>1
      <4>2. QED
        BY <1>5, <2>1, <2>2, <3>1, <4>1
    <3>2. CASE r # p
      <4>1. req'[r] = req[r] /\ req[r].new # j /\ req[r].new \in Jti
        BY <1>0, <1>3, <2>1, <2>3, <3>2
      <4>2. QED
        BY <2>1, <2>2, <2>3, <4>1 DEF Signing
    <3>3. QED
      BY <3>1, <3>2
  <2>4. ASSUME NEW r \in Requests, Unflushed(req'[r])
        PROVE  Unwritten(req[r].new)'
    <3>1. CASE r = p
      BY <1>4, <2>1, <3>1 DEF Unwritten
    <3>2. CASE r # p
      BY <1>7, <2>1, <2>4, <3>2 DEF Carried, Unflushed, Signed
    <3>3. QED
      BY <3>1, <3>2
  <2>5. \A k \in Fresh' : k \notin issued' /\ Unwritten(k)'
    BY <1>4, <1>5, <1>6
  <2>6. QED
    BY <1>1, <2>3, <2>4, <2>5 DEF Signing
<1>10. QED
  BY <1>8, <1>9, WhoSigns

-----------------------------------------------------------------------------
(* Locking: the row of the user is held by one request, over an account     *)
(* that nobody else changes                                                 *)

StillHolds(p) ==
    \/ req'[p] = req[p]
    \/ RefreshHolds(req'[p]) /\ RefreshHolds(req[p]) /\ req'[p].gen = req[p].gen

TakesLock(p) ==
    /\ \A q \in Requests : ~ Holds(req[q])
    /\ account' = account
    /\ \A q \in Requests : q # p => req'[q] = req[q]
    /\ RefreshHolds(req'[p]) =>
          account.exists /\ account.active /\ account.gen = req'[p].gen
    /\ req'[p].op = "change" => GenerationLeft(account.gen)

LEMMA LockIsHeld ==
    UserLockFree <=> \A r \in Requests : ~ Holds(req[r])
<1> QED
  BY DEF UserLockFree, UserLocked, Holds, RefreshHolds

LEMMA WhoLocks ==
    ASSUME Typed, Locking, [Next]_vars
    PROVE  \/ account' = account /\ \A p \in Requests : Holds(req'[p]) => StillHolds(p)
           \/ \E p \in Requests : TakesLock(p)
           \/ \A p \in Requests : ~ Holds(req'[p])
<1> DEFINE Rest ==
       account' = account /\ \A p \in Requests : Holds(req'[p]) => StillHolds(p)
<1>0. TypeOK /\ Clients \subseteq BOOLEAN
  BY ClientsBoolean DEF Typed
<1>1. CASE Quiet
  BY <1>1 DEF Quiet, QuietMove, StillHolds
<1>2. ASSUME NEW r \in Requests, NEW client \in Clients, NEW j \in Jti,
             Authenticate(r, j, client)
      PROVE  Rest
  <2>1. /\ \A p \in Requests : p # r => req'[p] = req[p]
        /\ req'[r].op = "login"
    BY <1>0, <1>2, AuthenticateDoes
  <2>2. account' = account
    BY <1>2 DEF Authenticate, store
  <2>3. QED
    BY <2>1, <2>2 DEF Holds, RefreshHolds, StillHolds
<1>3. ASSUME NEW r \in Requests, NEW s \in rows, NEW j \in Jti, CheckLineage(r, s, j)
      PROVE  Rest
  <2>1. /\ \A p \in Requests : p # r => req'[p] = req[p]
        /\ req'[r].op = req[r].op /\ req'[r].gen = req[r].gen /\ req'[r].pc = "rotate"
    BY <1>0, <1>3, CheckLineageDoes
  <2>2. account' = account /\ req[r].pc = "lineage"
    BY <1>3 DEF CheckLineage, store
  <2>3. QED
    BY <2>1, <2>2 DEF Holds, RefreshHolds, StillHolds
<1>4. ASSUME NEW r \in Requests, NEW s \in rows, AskSession(r, s)
      PROVE  Rest
  <2>1. /\ \A p \in Requests : p # r => req'[p] = req[p]
        /\ req'[r].pc = "owner"
    BY <1>0, <1>4, AskSessionDoes
  <2>2. account' = account
    BY <1>4 DEF AskSession, store
  <2>3. QED
    BY <2>1, <2>2 DEF Holds, RefreshHolds, StillHolds
<1>5. ASSUME NEW r \in Requests, SelectSession(r)
      PROVE  Rest
  <2>1. /\ \A p \in Requests : p # r => req'[p] = req[p]
        /\ req'[r].op = req[r].op /\ req'[r].gen = req[r].gen /\ req'[r].pc = "flush"
    BY <1>0, <1>5, SelectSessionDoes
  <2>2. account' = account /\ req[r].pc = "select"
    BY <1>5 DEF SelectSession, store
  <2>3. QED
    BY <2>1, <2>2 DEF Holds, RefreshHolds, StillHolds
<1>6. ASSUME NEW r \in Requests, FlushLogin(r)
      PROVE  Rest
  <2>1. /\ \A p \in Requests : p # r => req'[p] = req[p]
        /\ req'[r].pc = "register"
    BY <1>0, <1>6, GotoFacts DEF FlushLogin, PCs
  <2>2. account' = account
    BY <1>6 DEF FlushLogin
  <2>3. QED
    BY <2>1, <2>2 DEF Holds, RefreshHolds, StillHolds
<1>7. ASSUME NEW r \in Requests, Rotate(r)
      PROVE  Rest
  <2>1. /\ \A p \in Requests : p # r => req'[p] = req[p]
        /\ req'[r].op = req[r].op /\ req'[r].gen = req[r].gen
        /\ req'[r].pc \in {"capture", "select"}
    BY <1>0, <1>7, GotoFacts DEF Rotate, PCs
  <2>2. account' = account /\ req[r].pc = "rotate"
    BY <1>7 DEF Rotate, store
  <2>3. QED
    BY <2>1, <2>2 DEF Holds, RefreshHolds, StillHolds
<1>8. ASSUME NEW r \in Requests, LockAndCapture(r) \/ ReloadUser(r)
      PROVE  TakesLock(r)
  <2>1. CASE LockAndCapture(r)
    <3>1. /\ \A p \in Requests : p # r => req'[p] = req[p]
          /\ req'[r].op = req[r].op /\ req[r].op = "change"
      BY <1>0, <2>1, CaptureDoes DEF LockAndCapture
    <3>2. QED
      BY <2>1, <3>1, LockIsHeld DEF LockAndCapture, store, TakesLock, RefreshHolds
  <2>2. CASE ReloadUser(r)
    <3>1. /\ \A p \in Requests : p # r => req'[p] = req[p]
          /\ req'[r].op = req[r].op /\ req'[r].gen = account.gen
      BY <1>0, <2>2, ReloadUserDoes
    <3>2. req[r].op = "refresh"
      BY <2>2 DEF Typed, Shape, ReloadUser
    <3>3. QED
      BY <2>2, <3>1, <3>2, LockIsHeld DEF ReloadUser, store, TakesLock
  <2>3. QED
    BY <1>8, <2>1, <2>2
<1>9. ASSUME NEW r \in Requests, Register(r) \/ FlushRefresh(r)
      PROVE  Rest
  <2>1. /\ \A p \in Requests : p # r => req'[p] = req[p]
        /\ req'[r].pc = "idle"
    BY <1>0, <1>9, FinishFacts, IdleFacts DEF Register, FlushRefresh
  <2>2. QED
    BY <2>1, <1>9 DEF Register, FlushRefresh, store, Holds, RefreshHolds, StillHolds
<1>10. ASSUME NEW r \in Requests, NEW active \in BOOLEAN, CommitChange(r, active)
       PROVE  \A p \in Requests : ~ Holds(req'[p])
  <2>1. /\ \A p \in Requests : p # r => req'[p] = req[p]
        /\ req'[r].pc = "idle"
    BY <1>0, <1>10, FinishFacts, IdleFacts DEF CommitChange
  <2>2. Holds(req[r])
    BY <1>10 DEF CommitChange, Holds
  <2>3. ~ Holds(req'[r])
    BY <2>1 DEF Holds, RefreshHolds
  <2>4. QED
    BY <2>1, <2>2, <2>3 DEF Locking
<1>11. CASE DeleteAccount \/ DeleteMe
  BY <1>11, LockIsHeld DEF DeleteAccount, DeleteMe
<1>12. ASSUME NEW r \in Requests, BeginChange(r)
       PROVE  Rest
  <2>1. /\ \A p \in Requests : p # r => req'[p] = req[p]
        /\ req'[r].op = "change" /\ req'[r].pc = "capture"
    BY <1>0, <1>12, BeginChangeDoes
  <2>2. account' = account
    BY <1>12 DEF BeginChange, store
  <2>3. QED
    BY <2>1, <2>2 DEF Holds, RefreshHolds, StillHolds
<1>13. QED
  BY <1>1, <1>2, <1>3, <1>4, <1>5, <1>6, <1>7, <1>8, <1>9, <1>10, <1>11, <1>12, QuietOrActive
  DEF Active

LEMMA LockingStep ==
    ASSUME Typed, Locking, [Next]_vars
    PROVE  Locking'
<1>1. CASE account' = account /\ \A p \in Requests : Holds(req'[p]) => StillHolds(p)
  BY <1>1 DEF Locking, StillHolds, Holds, RefreshHolds
<1>2. ASSUME NEW r \in Requests, TakesLock(r)
      PROVE  Locking'
  BY <1>2 DEF Locking, TakesLock, Holds
<1>3. CASE \A p \in Requests : ~ Holds(req'[p])
  BY <1>3 DEF Locking, Holds
<1>4. QED
  BY <1>1, <1>2, <1>3, WhoLocks

-----------------------------------------------------------------------------
(* Stamping: the generation only grows, and a change of the account empties *)
(* the session table                                                        *)

LEMMA AccountSteps ==
    ASSUME Typed, [Next]_vars
    PROVE  \/ account' = account
           \/ /\ rows' = {}
              /\ account'.exists = account.exists /\ account'.tombstone = account.tombstone
              /\ account'.gen = account.gen + 1
           \/ /\ rows' = {} /\ req' = req
              /\ account'.exists = FALSE /\ account'.gen = account.gen
<1>0. account \in [exists : BOOLEAN, active : BOOLEAN, gen : Gen, tombstone : BOOLEAN]
  BY DEF Typed, TypeOK
<1>1. ASSUME NEW r \in Requests, NEW active \in BOOLEAN, CommitChange(r, active)
      PROVE  /\ rows' = {}
             /\ account'.exists = account.exists /\ account'.tombstone = account.tombstone
             /\ account'.gen = account.gen + 1
  BY <1>0, <1>1 DEF CommitChange, NextGeneration
<1>2. CASE DeleteAccount \/ DeleteMe
  BY <1>0, <1>2 DEF DeleteAccount, DeleteMe
<1>3. CASE Quiet
  BY <1>3 DEF Quiet
<1>4. CASE Active
  BY <1>1, <1>2, <1>4 DEF Active, Authenticate, CheckLineage, AskSession, SelectSession,
     FlushLogin, Register, ReloadUser, Rotate, FlushRefresh, BeginChange, LockAndCapture, store
<1>5. QED
  BY <1>3, <1>4, QuietOrActive

(* Whoever vouches for an old stamp later vouched for it before.            *)
LEMMA VouchingIsOld ==
    ASSUME Typed, [Next]_vars, NEW stamp \in 0 .. GenMax, stamp <= account.gen,
           OwnerVouches(stamp)'
    PROVE  OwnerVouches(stamp) /\ account' = account
<1>0. account.gen \in Nat
  BY DEF Typed, TypeOK, Gen
<1>1. CASE account' = account
  BY <1>1 DEF OwnerVouches, Stale
<1>2. CASE account'.gen = account.gen + 1
  BY <1>0, <1>2 DEF OwnerVouches, Stale
<1>3. CASE account'.exists = FALSE
  BY <1>3 DEF OwnerVouches
<1>4. QED
  BY <1>1, <1>2, <1>3, AccountSteps

(* The generation a request works with is one the account has had.          *)
LEMMA GenerationsLoaded ==
    ASSUME Typed, [Next]_vars, NEW p \in Requests
    PROVE  req'[p].gen \in {0, req[p].gen, account.gen}
<1>0. TypeOK /\ Clients \subseteq BOOLEAN
  BY ClientsBoolean DEF Typed
<1>1. CASE Quiet
  BY <1>1 DEF Quiet, QuietMove
<1>2. ASSUME NEW r \in Requests, NEW client \in Clients, NEW j \in Jti,
             Authenticate(r, j, client)
      PROVE  req'[p].gen \in {0, req[p].gen, account.gen}
  BY <1>0, <1>2, AuthenticateDoes
<1>3. ASSUME NEW r \in Requests, NEW s \in rows, NEW j \in Jti, CheckLineage(r, s, j)
      PROVE  req'[p].gen \in {0, req[p].gen, account.gen}
  BY <1>0, <1>3, CheckLineageDoes
<1>4. ASSUME NEW r \in Requests, NEW s \in rows, AskSession(r, s)
      PROVE  req'[p].gen \in {0, req[p].gen, account.gen}
  BY <1>0, <1>4, AskSessionDoes
<1>5. ASSUME NEW r \in Requests, SelectSession(r)
      PROVE  req'[p].gen \in {0, req[p].gen, account.gen}
  BY <1>0, <1>5, SelectSessionDoes
<1>6. ASSUME NEW r \in Requests, FlushLogin(r) \/ Rotate(r)
      PROVE  req'[p].gen \in {0, req[p].gen, account.gen}
  BY <1>0, <1>6, GotoFacts DEF FlushLogin, Rotate, PCs
<1>7. ASSUME NEW r \in Requests, ReloadUser(r)
      PROVE  req'[p].gen \in {0, req[p].gen, account.gen}
  BY <1>0, <1>7, ReloadUserDoes
<1>8. ASSUME NEW r \in Requests, BeginChange(r) \/ LockAndCapture(r)
      PROVE  req'[p].gen \in {0, req[p].gen, account.gen}
  BY <1>0, <1>8, BeginChangeDoes, CaptureDoes
<1>9. ASSUME NEW r \in Requests,
             \/ Register(r)
             \/ FlushRefresh(r)
             \/ \E active \in BOOLEAN : CommitChange(r, active)
      PROVE  req'[p].gen \in {0, req[p].gen, account.gen}
  BY <1>0, <1>9, FinishFacts, IdleFacts DEF Register, FlushRefresh, CommitChange
<1>10. CASE DeleteAccount \/ DeleteMe
  BY <1>10 DEF DeleteAccount, DeleteMe
<1>11. QED
  BY <1>1, <1>2, <1>3, <1>4, <1>5, <1>6, <1>7, <1>8, <1>9, <1>10, QuietOrActive DEF Active

(* An introspection that is to judge the owner has just read its row.       *)
LEMMA OwnersAsked ==
    ASSUME Typed, [Next]_vars, NEW p \in Requests, req'[p].pc = "owner"
    PROVE  req'[p] = req[p] \/ \E s \in rows : AskSession(p, s)
<1>0. TypeOK /\ Clients \subseteq BOOLEAN
  BY ClientsBoolean DEF Typed
<1>1. CASE Quiet
  BY <1>1 DEF Quiet, QuietMove
<1>2. ASSUME NEW r \in Requests, NEW client \in Clients, NEW j \in Jti,
             Authenticate(r, j, client)
      PROVE  req'[p] = req[p]
  BY <1>0, <1>2, AuthenticateDoes
<1>3. ASSUME NEW r \in Requests, NEW s \in rows, NEW j \in Jti, CheckLineage(r, s, j)
      PROVE  req'[p] = req[p]
  BY <1>0, <1>3, CheckLineageDoes
<1>4. ASSUME NEW r \in Requests, NEW s \in rows, AskSession(r, s)
      PROVE  req'[p] = req[p] \/ AskSession(p, s)
  BY <1>0, <1>4, AskSessionDoes
<1>5. ASSUME NEW r \in Requests, SelectSession(r)
      PROVE  req'[p] = req[p]
  BY <1>0, <1>5, SelectSessionDoes
<1>6. ASSUME NEW r \in Requests, FlushLogin(r) \/ Rotate(r)
      PROVE  req'[p] = req[p]
  BY <1>0, <1>6, GotoFacts DEF FlushLogin, Rotate, PCs
<1>7. ASSUME NEW r \in Requests, ReloadUser(r)
      PROVE  req'[p] = req[p]
  BY <1>0, <1>7, ReloadUserDoes
<1>8. ASSUME NEW r \in Requests, BeginChange(r) \/ LockAndCapture(r)
      PROVE  req'[p] = req[p]
  BY <1>0, <1>8, BeginChangeDoes, CaptureDoes
<1>9. ASSUME NEW r \in Requests,
             \/ Register(r)
             \/ FlushRefresh(r)
             \/ \E active \in BOOLEAN : CommitChange(r, active)
      PROVE  req'[p] = req[p]
  BY <1>0, <1>9, FinishFacts, IdleFacts DEF Register, FlushRefresh, CommitChange
<1>10. CASE DeleteAccount \/ DeleteMe
  BY <1>10 DEF DeleteAccount, DeleteMe
<1>11. QED
  BY <1>1, <1>2, <1>3, <1>4, <1>5, <1>6, <1>7, <1>8, <1>9, <1>10, QuietOrActive DEF Active

LEMMA StampingStep ==
    ASSUME Typed, Typed', Stamping, [Next]_vars
    PROVE  Stamping'
<1>0. /\ account.gen \in Nat /\ account'.gen \in Nat /\ account.gen <= account'.gen
      /\ \A r \in Requests : req[r] \in Request /\ req[r].gen \in Nat
  <2>1. account.gen \in Nat /\ account'.gen \in Nat
    BY DEF Typed, TypeOK, Gen
  <2>2. account.gen <= account'.gen
    <3>1. account'.gen = account.gen \/ account'.gen = account.gen + 1
      BY AccountSteps, Zenon
    <3>2. QED
      BY <2>1, <3>1
  <2>3. \A r \in Requests : req[r] \in Request /\ req[r].gen \in Nat
    BY DEF Typed, TypeOK, Request
  <2>4. QED
    BY <2>1, <2>2, <2>3
<1>1. account'.exists => ~ account'.tombstone
  BY AccountSteps DEF Stamping
<1>2. \A r \in Requests : req'[r].gen <= account'.gen
  BY <1>0, GenerationsLoaded DEF Stamping
<1>3. \A s \in rows' : s.stamp <= account'.gen
  <2>0. rows \subseteq SessionRow /\ \A s \in rows : s.stamp \in Nat
    BY DEF Typed, TypeOK, SessionRow, Gen
  <2>1. CASE rows' \subseteq rows
    BY <1>0, <2>0, <2>1 DEF Stamping
  <2>2. ASSUME NEW r \in Requests, FlushLogin(r) \/ FlushRefresh(r)
        PROVE  \A t \in rows' : t.stamp <= account'.gen
    <3>1. /\ req[r] \in Request /\ req[r].new \in Jti /\ req[r].gen \in Gen
          /\ rows' = Upsert(req[r]) /\ account' = account
      BY <2>2, FlushWrites DEF FlushLogin, FlushRefresh
    <3>2. ASSUME NEW s \in rows
          PROVE  Restamped(s, req[r]).stamp \in {s.stamp, req[r].gen}
      BY <2>0, <3>1, RestampedFacts
    <3>3. ASSUME NEW t \in rows'
          PROVE  \/ t.stamp = req[r].gen
                 \/ \E s \in rows : t.stamp = s.stamp
      <4>1. CASE req[r].row = NoRow
        BY <2>0, <3>1, <3>3, <4>1, UpsertFacts
      <4>2. CASE req[r].row # NoRow
        BY <2>0, <3>1, <3>2, <3>3, <4>2, UpsertFacts
      <4>3. QED
        BY <4>1, <4>2
    <3>4. QED
      BY <1>0, <2>0, <3>1, <3>3 DEF Stamping
  <2>3. QED
    BY <2>1, <2>2, RowsWritten
<1>4. ASSUME NEW r \in Requests, req'[r].pc = "owner"
      PROVE  /\ req'[r].row.stamp <= account'.gen
             /\ OwnerVouches(req[r].row.stamp)' => req'[r].valid
  <2>1. CASE req'[r] = req[r]
    <3>1. /\ req[r].row.stamp \in 0 .. GenMax /\ req[r].row.stamp \in Nat
          /\ req[r].row.stamp <= account.gen
          /\ OwnerVouches(req[r].row.stamp) => req[r].valid
      BY <1>4, <2>1 DEF Stamping, Typed, Shape, SessionRow, Gen
    <3>2. PICK stamp \in 0 .. GenMax : stamp = req[r].row.stamp
      BY <3>1
    <3>3. OwnerVouches(req[r].row.stamp)' => OwnerVouches(stamp)'
      BY <2>1, <3>2 DEF OwnerVouches
    <3>4. OwnerVouches(stamp)' => OwnerVouches(stamp)
      BY <3>1, <3>2, VouchingIsOld
    <3>5. QED
      BY <1>0, <2>1, <3>1, <3>2, <3>3, <3>4
  <2>2. ASSUME NEW s \in rows, AskSession(r, s)
        PROVE  /\ req'[r].row.stamp <= account'.gen
               /\ OwnerVouches(req[r].row.stamp)' => req'[r].valid
    <3>1. /\ req'[r].row = s /\ req'[r].valid = Current(req[r].old)
      BY <2>2, AskSessionDoes DEF Typed
    <3>2. account' = account /\ s.jti = req[r].old
      BY <2>2 DEF AskSession, store
    <3>3. OwnerVouches(req[r].row.stamp)' => Current(req[r].old)
      BY <3>1, <3>2 DEF OwnerVouches, Stale, Current, Stamping
    <3>4. QED
      BY <3>1, <3>2, <3>3 DEF Stamping
  <2>3. QED
    BY <1>4, <2>1, <2>2, OwnersAsked
<1>5. QED
  BY <1>1, <1>2, <1>3, <1>4 DEF Stamping

-----------------------------------------------------------------------------
(* Repeating: what a snapshot and the table both hold is current *)

(* A request that has signed a pair, before and after a step.               *)
Continues(p) ==
    /\ Unflushed(req[p])
    /\ req'[p].op = req[p].op /\ req'[p].gen = req[p].gen /\ req'[p].view = req[p].view
    /\ req'[p].lineage = req[p].lineage
    /\ site.snapshot /\ req'[p].pc = "flush" =>
          \/ req[p].pc = "flush" /\ req'[p].row = req[p].row
          \/ req[p].view = {} /\ req'[p].row = NoRow
          \/ req'[p].row \in req[p].view

Begins(p) ==
    /\ rows' = rows /\ account' = account /\ split' = split
    /\ req'[p].view = SnapshotNow /\ req'[p].gen = account.gen
    /\ req'[p].pc # "flush"
    /\ req'[p].op = "refresh" => \E s \in rows : s.id = req'[p].lineage

LEMMA SiteFixed ==
    ASSUME [Next]_vars
    PROVE  site' = site
<1> QED
  BY ZenonT(80) DEF Next, Authenticate, PresentRefresh, Logout, AskTombstone, RevokeAll, RevokeOne,
     CheckLineage, AskSession, SelectSession, FlushLogin, Register, ReloadUser, Rotate,
     FlushRefresh, Blacklist, ForgetRefresh, ForgetRow, CaptureSessions, EraseSessions,
     EraseSession, BlacklistTarget, DropTarget, BeginChange, LockAndCapture, CommitChange,
     AnswerActive, Abandon, DeleteAccount, DeleteMe, DeliverBlacklist, DeliverAllowlist,
     RedisDown, RedisBack, vars

LEMMA PendingSteps ==
    ASSUME Typed, Locking, [Next]_vars, NEW p \in Requests, Unflushed(req'[p])
    PROVE  Continues(p) \/ Begins(p)
<1>0. TypeOK /\ Clients \subseteq BOOLEAN
  BY ClientsBoolean DEF Typed
<1>1. CASE req'[p] = req[p]
  BY <1>1 DEF Continues
<1>2. CASE Quiet
  BY <1>1, <1>2 DEF Quiet, QuietMove, Signed, Unflushed
<1>3. ASSUME NEW r \in Requests, NEW client \in Clients, NEW j \in Jti,
             Authenticate(r, j, client)
      PROVE  req'[p] = req[p] \/ Begins(p)
  <2>1. /\ \A q \in Requests : q # r => req'[q] = req[q]
        /\ req'[r].op = "login" /\ req'[r].pc = "select"
        /\ req'[r].gen = account.gen /\ req'[r].view = SnapshotNow
    BY <1>0, <1>3, AuthenticateDoes
  <2>2. QED
    BY <1>3, <2>1 DEF Begins, Authenticate, store
<1>4. ASSUME NEW r \in Requests, NEW s \in rows, NEW j \in Jti, CheckLineage(r, s, j)
      PROVE  req'[p] = req[p] \/ Begins(p)
  <2>1. /\ \A q \in Requests : q # r => req'[q] = req[q]
        /\ req'[r].pc = "rotate" /\ req'[r].gen = req[r].gen
        /\ req'[r].lineage = s.id /\ req'[r].view = SnapshotNow
    BY <1>0, <1>4, CheckLineageDoes
  <2>2. req[r].gen = account.gen
    BY <1>4 DEF CheckLineage, Typed, Shape, Locking, RefreshHolds
  <2>3. QED
    BY <1>4, <2>1, <2>2 DEF Begins, CheckLineage, store
<1>5. ASSUME NEW r \in Requests, NEW s \in rows, AskSession(r, s)
      PROVE  req'[p] = req[p]
  BY <1>0, <1>5, AskSessionDoes DEF Unflushed
<1>6. ASSUME NEW r \in Requests, SelectSession(r)
      PROVE  req'[p] = req[p] \/ Continues(p)
  <2>1. /\ \A q \in Requests : q # r => req'[q] = req[q]
        /\ req'[r].op = req[r].op /\ req'[r].gen = req[r].gen
        /\ req'[r].view = req[r].view /\ req'[r].lineage = req[r].lineage
        /\ \/ Visible(r) = {} /\ req'[r].row = NoRow
           \/ req'[r].row \in Visible(r)
    BY <1>0, <1>6, SelectSessionDoes
  <2>2. (site.snapshot => Visible(r) = req[r].view) /\ req[r].pc = "select"
    BY <1>6 DEF Visible, SelectSession
  <2>3. QED
    BY <2>1, <2>2 DEF Continues, Unflushed
<1>7. ASSUME NEW r \in Requests, FlushLogin(r)
      PROVE  req'[p] = req[p]
  BY <1>0, <1>7, GotoFacts DEF FlushLogin, PCs, Unflushed
<1>8. ASSUME NEW r \in Requests, Rotate(r)
      PROVE  req'[p] = req[p] \/ Continues(p)
  <2>1. /\ \A q \in Requests : q # r => req'[q] = req[q]
        /\ req'[r].op = req[r].op /\ req'[r].gen = req[r].gen
        /\ req'[r].view = req[r].view /\ req'[r].lineage = req[r].lineage
        /\ req'[r].pc # "flush"
    BY <1>0, <1>8, GotoFacts DEF Rotate, PCs
  <2>2. QED
    BY <1>8, <2>1 DEF Rotate, Continues, Unflushed
<1>9. ASSUME NEW r \in Requests, BeginChange(r) \/ LockAndCapture(r) \/ ReloadUser(r)
      PROVE  req'[p] = req[p]
  BY <1>0, <1>9, BeginChangeDoes, CaptureDoes, ReloadUserDoes DEF Unflushed
<1>10. ASSUME NEW r \in Requests,
             \/ Register(r)
             \/ FlushRefresh(r)
             \/ \E active \in BOOLEAN : CommitChange(r, active)
      PROVE  req'[p] = req[p]
  BY <1>0, <1>10, FinishFacts, IdleFacts DEF Register, FlushRefresh, CommitChange, Unflushed
<1>11. CASE DeleteAccount \/ DeleteMe
  BY <1>1, <1>11 DEF DeleteAccount, DeleteMe
<1>12. QED
  BY <1>1, <1>2, <1>3, <1>4, <1>5, <1>6, <1>7, <1>8, <1>9, <1>10, <1>11, QuietOrActive DEF Active

(* An UPDATE that finds its row leaves the current generation on it, where  *)
(* plain reads repeat.                                                      *)
LEMMA UpdatesAreCurrent ==
    ASSUME Typed, Repeating, site.snapshot, NEW r \in Requests, NEW s \in rows,
           FlushLogin(r) \/ FlushRefresh(r), req[r].row # NoRow, s.id = req[r].row.id
    PROVE  Restamped(s, req[r]).stamp = account.gen /\ req[r].gen = account.gen
<1>1. /\ req[r] \in Request /\ req[r].new \in Jti /\ req[r].gen \in Gen /\ s \in SessionRow
  BY FlushWrites DEF Typed, TypeOK
<1>2. Unflushed(req[r]) /\ req[r].pc = "flush"
  BY DEF FlushLogin, FlushRefresh, Unflushed
<1>3. req[r].row \in req[r].view
  BY <1>2 DEF Repeating
<1>4. account.gen = req[r].gen /\ (req[r].row.stamp = account.gen => s.stamp = account.gen)
  BY <1>2, <1>3 DEF Repeating
<1>5. QED
  BY <1>1, <1>4, RestampedFacts

(* The rows after a flush, by their origin.                                 *)
LEMMA FlushedRows ==
    ASSUME Typed, Signing, NEW r \in Requests, FlushLogin(r) \/ FlushRefresh(r),
           NEW t \in rows'
    PROVE  \/ t \in rows /\ (req[r].row # NoRow => t.id # req[r].row.id)
           \/ /\ req[r].row = NoRow /\ t.id = req[r].new
              /\ t.jti = req[r].new /\ t.stamp = req[r].gen
              /\ \A u \in rows' : u.id = t.id => u = t
           \/ \E s \in rows : /\ req[r].row # NoRow /\ s.id = req[r].row.id
                             /\ t = Restamped(s, req[r])
                             /\ t.id = s.id /\ t.jti = req[r].new
<1>1. /\ req[r] \in Request /\ req[r].new \in Jti /\ req[r].gen \in Gen
      /\ rows' = Upsert(req[r]) /\ rows \subseteq SessionRow
  BY FlushWrites DEF Typed, TypeOK
<1>2. \A s \in rows : s.id # req[r].new
  BY DEF Signing, Unwritten, Unflushed, FlushLogin, FlushRefresh
<1>3. \A s \in rows : Restamped(s, req[r]).id = s.id /\ Restamped(s, req[r]).jti = req[r].new
  BY <1>1, RestampedFacts
<1>4. CASE req[r].row = NoRow
  BY <1>1, <1>2, <1>4, UpsertFacts
<1>5. CASE req[r].row # NoRow
  BY <1>1, <1>3, <1>5, UpsertFacts
<1>6. QED
  BY <1>4, <1>5

LEMMA WhoSplits ==
    ASSUME Typed, [Next]_vars, ~ split'
    PROVE  ~ split /\ (rows' \subseteq rows \/ ~ TwoRows(rows'))
<1>1. ASSUME NEW r \in Requests, FlushLogin(r) \/ FlushRefresh(r)
      PROVE  ~ split /\ ~ TwoRows(rows')
  BY <1>1 DEF FlushLogin, FlushRefresh
<1>2. CASE Quiet
  <2>1. split' = split /\ rows' \subseteq rows
    BY <1>2 DEF Quiet
  <2>2. QED
    BY <2>1
<1>3. CASE Active
  <2>1. \/ split' = split
        \/ \E r \in Requests : FlushLogin(r) \/ FlushRefresh(r)
    BY <1>3 DEF Active, Authenticate, CheckLineage, AskSession, SelectSession,
       Register, ReloadUser, Rotate, BeginChange, LockAndCapture, CommitChange, DeleteAccount,
       DeleteMe,
       tokens
  <2>2. CASE \E r \in Requests : FlushLogin(r) \/ FlushRefresh(r)
    BY <1>1, <2>2
  <2>3. CASE ~ \E r \in Requests : FlushLogin(r) \/ FlushRefresh(r)
    <3>1. split' = split /\ rows' \subseteq rows
      BY <2>1, <2>3, RowsWritten, Zenon
    <3>2. QED
      BY <3>1
  <2>4. QED
    BY <2>2, <2>3
<1>4. QED
  BY <1>2, <1>3, QuietOrActive

LEMMA RepeatingStep ==
    ASSUME Typed, Typed', Signing, Locking, Repeating, Spending, [Next]_vars
    PROVE  Repeating'
<1>0. site' = site /\ rows \subseteq SessionRow /\ claims \in [Jti -> 0 .. GenMax]
  BY SiteFixed DEF Typed, TypeOK
<1>1. \A s, t \in rows' : s.id = t.id => s = t
  <2>1. CASE rows' \subseteq rows
    BY <2>1 DEF Repeating
  <2>2. ASSUME NEW r \in Requests, FlushLogin(r) \/ FlushRefresh(r)
        PROVE  \A s, t \in rows' : s.id = t.id => s = t
    BY <2>2, FlushedRows DEF Repeating
  <2>3. QED
    BY <2>1, <2>2, RowsWritten
<1>2. ASSUME site.snapshot, NEW t \in rows'
      PROVE  t.stamp = claims'[t.jti]
  <2>1. CASE t \in rows
    <3>1. t.stamp = claims[t.jti] /\ t.jti \in Jti /\ t.jti \notin Fresh
      BY <1>0, <1>2, <2>1 DEF Repeating, Signing, Unwritten, SessionRow
    <3>2. CASE claims' = claims
      BY <3>1, <3>2
    <3>3. ASSUME NEW p \in Requests, NEW j \in Jti, Signs(p, j)
          PROVE  claims'[t.jti] = claims[t.jti]
      BY <1>0, <3>1, <3>3 DEF Signs
    <3>4. QED
      BY <3>1, <3>2, <3>3, WhoSigns
  <2>2. ASSUME NEW r \in Requests, FlushLogin(r) \/ FlushRefresh(r), t \notin rows
        PROVE  t.stamp = claims'[t.jti]
    <3>1. claims' = claims /\ claims[req[r].new] = req[r].gen
      BY <2>2 DEF FlushLogin, FlushRefresh, Signing, Signed
    <3>2. t.jti = req[r].new /\ t.stamp = req[r].gen
      BY <1>2, <2>2, FlushedRows, UpdatesAreCurrent
    <3>3. QED
      BY <3>1, <3>2
  <2>3. QED
    BY <2>1, <2>2, RowsWritten
<1>3. ASSUME site.snapshot, NEW p \in Requests, Unflushed(req'[p])
      PROVE  /\ req'[p].pc = "flush" =>
                   req'[p].row \in req'[p].view \/ (req'[p].row = NoRow /\ req'[p].view = {})
             /\ req'[p].op = "refresh" => \E v \in req'[p].view : v.id = req'[p].lineage
             /\ ~ split' => \A u, v \in req'[p].view : u = v
             /\ \A v \in req'[p].view, t \in rows' : v.id = t.id =>
                   /\ account'.gen = req'[p].gen
                   /\ v.stamp = account'.gen => t.stamp = account'.gen
  <2>1. CASE Continues(p)
    <3>1. /\ Unflushed(req[p])
          /\ req[p].pc = "flush" =>
                req[p].row \in req[p].view \/ (req[p].row = NoRow /\ req[p].view = {})
          /\ req[p].op = "refresh" => \E v \in req[p].view : v.id = req[p].lineage
          /\ ~ split => \A u, v \in req[p].view : u = v
          /\ \A v \in req[p].view, s \in rows : v.id = s.id =>
                /\ account.gen = req[p].gen
                /\ v.stamp = account.gen => s.stamp = account.gen
      BY <1>3, <2>1 DEF Continues, Repeating
    <3>2. /\ req'[p].pc = "flush" =>
                req'[p].row \in req'[p].view \/ (req'[p].row = NoRow /\ req'[p].view = {})
          /\ req'[p].op = "refresh" => \E v \in req'[p].view : v.id = req'[p].lineage
      BY <1>3, <2>1, <3>1 DEF Continues
    <3>5. ~ split' => \A u, v \in req'[p].view : u = v
      BY <2>1, <3>1, WhoSplits DEF Continues
    <3>3. ASSUME NEW v \in req'[p].view, NEW t \in rows', v.id = t.id
          PROVE  /\ account'.gen = req'[p].gen
                 /\ v.stamp = account'.gen => t.stamp = account'.gen
      <4>1. account' = account
        BY <3>3, AccountSteps
      <4>2. v \in req[p].view /\ req'[p].gen = req[p].gen
        BY <2>1, <3>3 DEF Continues
      <4>3. CASE t \in rows
        BY <3>1, <3>3, <4>1, <4>2, <4>3
      <4>4. ASSUME NEW r \in Requests, FlushLogin(r) \/ FlushRefresh(r), t \notin rows
            PROVE  /\ account.gen = req[p].gen
                   /\ t.stamp = account.gen
        <5>1. v.id # req[r].new
          BY <4>2, <4>4 DEF Signing, Unwritten, Unflushed, FlushLogin, FlushRefresh
        <5>2. PICK s \in rows : /\ req[r].row # NoRow /\ s.id = req[r].row.id
                              /\ t = Restamped(s, req[r])
                              /\ t.id = s.id
          BY <3>3, <4>4, <5>1, FlushedRows
        <5>3. t.stamp = account.gen
          BY <1>3, <4>4, <5>2, UpdatesAreCurrent
        <5>4. account.gen = req[p].gen
          BY <3>1, <3>3, <4>2, <5>2
        <5>5. QED
          BY <5>3, <5>4
      <4>5. QED
        BY <4>1, <4>2, <4>3, <4>4, RowsWritten
    <3>4. QED
      BY <3>2, <3>3, <3>5
  <2>2. CASE Begins(p)
    BY <1>3, <2>2 DEF Begins, Repeating, Spending, SnapshotNow
  <2>3. QED
    BY <1>3, <2>1, <2>2, PendingSteps
<1>4. QED
  BY <1>0, <1>1, <1>2, <1>3 DEF Repeating

-----------------------------------------------------------------------------
(* Spending: what is exchanged leaves the allowlist and the session table *)

LEMMA WhoAllows ==
    ASSUME Typed, [Next]_vars
    PROVE  \/ allow' \subseteq allow
           \/ \E r \in Requests : Signed(req[r]) /\ allow' \subseteq allow \cup {req[r].new}
<1>1. ASSUME NEW r \in Requests, Register(r) \/ Rotate(r)
      PROVE  Signed(req[r]) /\ allow' \subseteq allow \cup {req[r].new}
  BY <1>1 DEF Register, Rotate, Signed
<1>2. CASE Quiet
  BY <1>2 DEF Quiet
<1>3. CASE Active
  BY <1>1, <1>3, ZenonT(40) DEF Active, Authenticate, CheckLineage, AskSession, SelectSession,
     FlushLogin, ReloadUser, FlushRefresh, BeginChange, LockAndCapture, CommitChange, DeleteAccount,
     DeleteMe, redis
<1>4. QED
  BY <1>2, <1>3, QuietOrActive

LEMMA WhoSpends ==
    ASSUME Typed, [Next]_vars
    PROVE  \/ spent' = spent
           \/ \E r \in Requests : /\ FlushRefresh(r)
                                 /\ spent' = spent \cup {req[r].old}
                                 /\ allow' = allow /\ req'[r] = Idle
<1>1. ASSUME NEW r \in Requests, FlushRefresh(r)
      PROVE  /\ spent' = spent \cup {req[r].old}
             /\ allow' = allow /\ req'[r] = Idle
  BY <1>1, FinishFacts DEF FlushRefresh, redis, Typed
<1>2. CASE Quiet
  BY <1>2 DEF Quiet
<1>3. CASE Active
  BY <1>1, <1>3 DEF Active, Authenticate, CheckLineage, AskSession, SelectSession, FlushLogin,
     Register, ReloadUser, Rotate, BeginChange, LockAndCapture, CommitChange, DeleteAccount,
     DeleteMe, tokens
<1>4. QED
  BY <1>2, <1>3, QuietOrActive

(* How a refresh comes to hold a signed pair.                               *)
Proceeds(p) ==
    /\ Unflushed(req[p]) /\ req[p].op = "refresh" /\ req'[p].old = req[p].old
    /\ Exchanging(req'[p]) => Exchanging(req[p]) \/ Rotate(p)

LEMMA RefreshPending ==
    ASSUME Typed, [Next]_vars, NEW p \in Requests,
           req'[p].op = "refresh", Unflushed(req'[p])
    PROVE  \/ Proceeds(p)
           \/ \E s \in rows, j \in Jti : CheckLineage(p, s, j) /\ req'[p].old = req[p].old
                                                            /\ req'[p].pc = "rotate"
<1>0. TypeOK /\ Clients \subseteq BOOLEAN
  BY ClientsBoolean DEF Typed
<1>1. CASE req'[p] = req[p]
  BY <1>1 DEF Proceeds
<1>2. CASE Quiet
  BY <1>1, <1>2 DEF Quiet, QuietMove, Signed, Unflushed
<1>3. ASSUME NEW r \in Requests, NEW client \in Clients, NEW j \in Jti,
             Authenticate(r, j, client)
      PROVE  req'[p] = req[p]
  BY <1>0, <1>3, AuthenticateDoes
<1>4. ASSUME NEW r \in Requests, NEW s \in rows, NEW j \in Jti, CheckLineage(r, s, j)
      PROVE  \/ req'[p] = req[p]
             \/ /\ CheckLineage(p, s, j)
                /\ req'[p].old = req[p].old /\ req'[p].pc = "rotate"
  BY <1>0, <1>4, CheckLineageDoes
<1>5. ASSUME NEW r \in Requests, NEW s \in rows, AskSession(r, s)
      PROVE  req'[p] = req[p]
  BY <1>0, <1>5, AskSessionDoes DEF Unflushed
<1>6. ASSUME NEW r \in Requests, SelectSession(r)
      PROVE  req'[p] = req[p] \/ Proceeds(p)
  <2>1. /\ \A q \in Requests : q # r => req'[q] = req[q]
        /\ req'[r].op = req[r].op /\ req'[r].old = req[r].old
    BY <1>0, <1>6, SelectSessionDoes
  <2>2. req[r].pc = "select"
    BY <1>6 DEF SelectSession
  <2>3. QED
    BY <2>1, <2>2 DEF Proceeds, Unflushed, Exchanging
<1>7. ASSUME NEW r \in Requests, FlushLogin(r)
      PROVE  req'[p] = req[p]
  BY <1>0, <1>7, GotoFacts DEF FlushLogin, PCs, Unflushed
<1>8. ASSUME NEW r \in Requests, Rotate(r)
      PROVE  req'[p] = req[p] \/ Proceeds(p)
  <2>1. /\ \A q \in Requests : q # r => req'[q] = req[q]
        /\ req'[r].op = req[r].op /\ req'[r].old = req[r].old
    BY <1>0, <1>8, GotoFacts DEF Rotate, PCs
  <2>2. req[r].pc = "rotate"
    BY <1>8 DEF Rotate
  <2>3. QED
    BY <1>8, <2>1, <2>2 DEF Proceeds, Unflushed
<1>9. ASSUME NEW r \in Requests, BeginChange(r) \/ LockAndCapture(r) \/ ReloadUser(r)
      PROVE  req'[p] = req[p]
  BY <1>0, <1>9, BeginChangeDoes, CaptureDoes, ReloadUserDoes DEF Unflushed
<1>10. ASSUME NEW r \in Requests,
             \/ Register(r)
             \/ FlushRefresh(r)
             \/ \E active \in BOOLEAN : CommitChange(r, active)
      PROVE  req'[p] = req[p]
  BY <1>0, <1>10, FinishFacts, IdleFacts DEF Register, FlushRefresh, CommitChange, Unflushed
<1>11. CASE DeleteAccount \/ DeleteMe
  BY <1>1, <1>11 DEF DeleteAccount, DeleteMe
<1>12. QED
  BY <1>1, <1>2, <1>3, <1>4, <1>5, <1>6, <1>7, <1>8, <1>9, <1>10, <1>11, QuietOrActive DEF Active

(* A refresh keeps the Redis client it came with.                           *)
LEMMA RefreshAsksRedis ==
    ASSUME Typed, [Next]_vars, NEW p \in Requests,
           req'[p].op = "refresh", ~ site.failOpen
    PROVE  \/ req'[p].redis
           \/ req[p].op = "refresh" /\ req'[p].redis = req[p].redis
<1> DEFINE Good ==
       \/ req'[p].redis
       \/ req[p].op = "refresh" /\ req'[p].redis = req[p].redis
<1>0. TypeOK /\ Clients \subseteq BOOLEAN
  BY ClientsBoolean DEF Typed
<1>1. CASE req'[p] = req[p]
  BY <1>1
<1>2. CASE Quiet
  BY <1>1, <1>2 DEF Quiet, QuietMove
<1>3. ASSUME NEW r \in Requests, NEW client \in Clients, NEW j \in Jti,
             Authenticate(r, j, client)
      PROVE  req'[p] = req[p]
  BY <1>0, <1>3, AuthenticateDoes
<1>4. ASSUME NEW r \in Requests, NEW s \in rows, NEW j \in Jti, CheckLineage(r, s, j)
      PROVE  Good
  BY <1>0, <1>4, CheckLineageDoes
<1>5. ASSUME NEW r \in Requests, NEW s \in rows, AskSession(r, s)
      PROVE  Good
  BY <1>0, <1>5, AskSessionDoes
<1>6. ASSUME NEW r \in Requests, SelectSession(r)
      PROVE  Good
  BY <1>0, <1>6, SelectSessionDoes
<1>7. ASSUME NEW r \in Requests, FlushLogin(r) \/ Rotate(r)
      PROVE  Good
  BY <1>0, <1>7, GotoFacts DEF FlushLogin, Rotate, PCs
<1>8. ASSUME NEW r \in Requests, BeginChange(r) \/ LockAndCapture(r) \/ ReloadUser(r)
      PROVE  Good
  BY <1>0, <1>8, BeginChangeDoes, CaptureDoes, ReloadUserDoes
<1>9. ASSUME NEW r \in Requests,
             \/ Register(r)
             \/ FlushRefresh(r)
             \/ \E active \in BOOLEAN : CommitChange(r, active)
      PROVE  Good
  BY <1>0, <1>9, FinishFacts, IdleFacts DEF Register, FlushRefresh, CommitChange
<1>10. CASE DeleteAccount \/ DeleteMe
  BY <1>1, <1>10 DEF DeleteAccount, DeleteMe
<1>11. QED
  BY <1>1, <1>2, <1>3, <1>4, <1>5, <1>6, <1>7, <1>8, <1>9, <1>10, QuietOrActive DEF Active

(* While one refresh holds a signed pair no other exchanges a token.        *)
LEMMA OneExchange ==
    ASSUME Typed, Locking, [Next]_vars, NEW p \in Requests,
           req[p].op = "refresh", Unflushed(req[p]), Unflushed(req'[p])
    PROVE  spent' = spent
<1>1. ASSUME NEW r \in Requests, FlushRefresh(r), req'[r] = Idle
      PROVE  FALSE
  <2>1. Holds(req[r]) /\ Holds(req[p])
    BY <1>1 DEF FlushRefresh, Holds, RefreshHolds, Unflushed
  <2>2. r = p
    BY <2>1 DEF Locking
  <2>3. QED
    BY <1>1, <2>2, IdleFacts DEF Unflushed
<1>2. QED
  BY <1>1, WhoSpends

(* A pair is not signed under a JTI that was handed out.                    *)
LEMMA SignedIsNew ==
    ASSUME Typed, Signing, NEW r \in Requests, Signed(req[r])
    PROVE  req[r].new \notin issued /\ req[r].new \notin spent /\ req[r].new \notin loggedOut
<1> QED
  BY DEF Signing

LEMMA SpendingStep ==
    ASSUME Typed, Signing, Locking, Spending, [Next]_vars
    PROVE  Spending'
<1>0. site' = site
  BY SiteFixed
<1>1. ASSUME ~ site.failOpen
      PROVE  allow' \cap spent' = {}
  <2>1. CASE spent' = spent
    <3>1. \A r \in Requests : Signed(req[r]) => req[r].new \notin spent
      BY SignedIsNew
    <3>2. QED
      BY <1>1, <2>1, <3>1, WhoAllows DEF Spending
  <2>2. ASSUME NEW r \in Requests, FlushRefresh(r),
               spent' = spent \cup {req[r].old}, allow' = allow
        PROVE  allow' \cap spent' = {}
    <3>1. req[r].old \notin allow
      BY <1>1, <2>2 DEF Spending, Exchanging, FlushRefresh
    <3>2. QED
      BY <1>1, <2>2, <3>1 DEF Spending
  <2>3. QED
    BY <2>1, <2>2, WhoSpends
<1>2. ASSUME ~ site.failOpen, NEW p \in Requests
      PROVE  req'[p].op = "refresh" => req'[p].redis
  BY <1>2, RefreshAsksRedis DEF Spending
<1>3. ASSUME ~ site.failOpen, NEW p \in Requests, Exchanging(req'[p])
      PROVE  req'[p].old \notin allow' /\ req'[p].old \notin spent'
  <2>1. req'[p].op = "refresh" /\ Unflushed(req'[p]) /\ req'[p].pc # "rotate"
    BY <1>3 DEF Exchanging, Unflushed
  <2>2. Proceeds(p)
    BY <2>1, RefreshPending
  <2>3. req[p].old \in issued /\ req'[p].old = req[p].old
    BY <2>2 DEF Proceeds, Typed, Shape, Unflushed
  <2>4. spent' = spent
    BY <2>1, <2>2, OneExchange DEF Proceeds
  <2>5. CASE Exchanging(req[p])
    <3>1. req[p].old \notin allow /\ req[p].old \notin spent
      BY <1>3, <2>5 DEF Spending
    <3>2. \A r \in Requests : Signed(req[r]) => req[r].new # req[p].old
      BY <2>3, SignedIsNew
    <3>3. QED
      BY <2>3, <2>4, <3>1, <3>2, WhoAllows
  <2>6. CASE Rotate(p)
    <3>1. req[p].redis /\ req[p].pc = "rotate"
      BY <1>3, <2>2, <2>6 DEF Spending, Proceeds, Rotate
    <3>2. req[p].old \in allow
      <4>1. ASSUME req[p].old \notin allow
            PROVE  FALSE
        <5>1. Goto(p, "capture")
          BY <2>6, <3>1, <4>1 DEF Rotate
        <5>2. req'[p].pc = "capture"
          BY <5>1, GotoFacts DEF PCs, Typed
        <5>3. QED
          BY <5>2, <2>1 DEF Unflushed
      <4>2. QED
        BY <4>1
    <3>3. allow' = (allow \ {req[p].old}) \cup {req[p].new}
      BY <2>6, <3>1, <3>2 DEF Rotate
    <3>4. req[p].new # req[p].old
      BY <2>3, <3>1, SignedIsNew DEF Signed
    <3>5. QED
      BY <1>3, <2>3, <2>4, <3>2, <3>3, <3>4 DEF Spending
  <2>7. QED
    BY <1>3, <2>2, <2>5, <2>6 DEF Proceeds
<1>4. ASSUME ~ split'
      PROVE  /\ ~ split
             /\ \A s, t \in rows' : s = t
  BY <1>4, WhoSplits DEF Spending, TwoRows
<1>5. ASSUME ~ split', NEW t \in rows'
      PROVE  t.jti \notin spent'
  <2>1. ~ split /\ \A s \in rows : s.jti \notin spent
    BY <1>4, <1>5 DEF Spending
  <2>2. ASSUME NEW r \in Requests, FlushRefresh(r)
        PROVE  t.jti \notin spent'
    <3>1. spent' = spent \cup {req[r].old} /\ req[r].old \in issued
      BY <2>2 DEF FlushRefresh, Typed, Shape
    <3>2. req[r].new \notin issued /\ req[r].new \notin spent
      BY <2>2, SignedIsNew DEF FlushRefresh, Signed
    <3>3. \E u \in rows' : u.jti = req[r].new
      <4>1. /\ req[r] \in Request /\ req[r].new \in Jti /\ req[r].gen \in Gen
            /\ rows' = Upsert(req[r]) /\ rows \subseteq SessionRow
        BY <2>2, FlushWrites DEF Typed, TypeOK
      <4>2. CASE req[r].row = NoRow
        BY <4>1, <4>2, UpsertFacts
      <4>3. CASE req[r].row # NoRow
        <5>1. \E s \in rows : s.id = req[r].row.id
          BY <2>2, <4>3 DEF FlushRefresh, CanFlush
        <5>2. QED
          BY <4>1, <4>3, <5>1, UpsertFacts
      <4>4. QED
        BY <4>2, <4>3
    <3>4. t.jti = req[r].new
      BY <1>4, <1>5, <3>3
    <3>5. QED
      BY <3>1, <3>2, <3>4
  <2>3. CASE rows' \subseteq rows /\ spent' = spent
    BY <1>5, <2>1, <2>3
  <2>4. ASSUME NEW r \in Requests, FlushLogin(r)
        PROVE  t.jti \notin spent'
    <3>1. spent' = spent
      BY <2>4 DEF FlushLogin
    <3>2. req[r].new \notin spent
      BY <2>4, SignedIsNew DEF FlushLogin, Signed
    <3>3. t.jti = req[r].new \/ \E s \in rows : t.jti \in {s.jti, req[r].new}
      BY <1>5, <2>4, FlushWrites
    <3>4. QED
      BY <2>1, <3>1, <3>2, <3>3
  <2>5. QED
    BY <2>2, <2>3, <2>4, RowsWritten, WhoSpends
<1>6. ASSUME ~ split', NEW p \in Requests, req'[p].op = "refresh", Unflushed(req'[p])
      PROVE  req'[p].old \notin spent'
  <2>1. CASE Proceeds(p)
    BY <1>4, <1>6, <2>1, OneExchange DEF Proceeds, Spending
  <2>2. ASSUME NEW s \in rows, NEW j \in Jti, CheckLineage(p, s, j),
               req'[p].old = req[p].old
        PROVE  req'[p].old \notin spent'
    <3>1. s.jti = req[p].old /\ spent' = spent
      BY <2>2 DEF CheckLineage
    <3>2. QED
      BY <1>4, <1>6, <2>2, <3>1 DEF Spending
  <2>3. QED
    BY <1>6, <2>1, <2>2, RefreshPending
<1>7. QED
  BY <1>0, <1>1, <1>2, <1>3, <1>4, <1>5, <1>6 DEF Spending

-----------------------------------------------------------------------------
(* Parting: a logout that met no failure has undone its half of the         *)
(* allowlist, and knows the JTI whose row is left to delete                 *)

LEMMA WhoForgets ==
    ASSUME Typed, [Next]_vars, NEW p \in Requests, req'[p].pc = "forget_row"
    PROVE  req'[p] = req[p] \/ ForgetRefresh(p)
<1>0. TypeOK /\ Clients \subseteq BOOLEAN
  BY ClientsBoolean DEF Typed
<1>1. CASE Quiet
  BY <1>1 DEF Quiet, QuietMove
<1>2. ASSUME NEW r \in Requests, NEW client \in Clients, NEW j \in Jti,
             Authenticate(r, j, client)
      PROVE  req'[p] = req[p]
  BY <1>0, <1>2, AuthenticateDoes
<1>3. ASSUME NEW r \in Requests, NEW s \in rows, NEW j \in Jti, CheckLineage(r, s, j)
      PROVE  req'[p] = req[p]
  BY <1>0, <1>3, CheckLineageDoes
<1>4. ASSUME NEW r \in Requests, NEW s \in rows, AskSession(r, s)
      PROVE  req'[p] = req[p]
  BY <1>0, <1>4, AskSessionDoes
<1>5. ASSUME NEW r \in Requests, SelectSession(r)
      PROVE  req'[p] = req[p]
  BY <1>0, <1>5, SelectSessionDoes
<1>6. ASSUME NEW r \in Requests, FlushLogin(r) \/ Rotate(r)
      PROVE  req'[p] = req[p]
  BY <1>0, <1>6, GotoFacts DEF FlushLogin, Rotate, PCs
<1>7. ASSUME NEW r \in Requests, BeginChange(r) \/ LockAndCapture(r) \/ ReloadUser(r)
      PROVE  req'[p] = req[p]
  BY <1>0, <1>7, BeginChangeDoes, CaptureDoes, ReloadUserDoes
<1>8. ASSUME NEW r \in Requests,
             \/ Register(r)
             \/ FlushRefresh(r)
             \/ \E active \in BOOLEAN : CommitChange(r, active)
      PROVE  req'[p] = req[p]
  BY <1>0, <1>8, FinishFacts, IdleFacts DEF Register, FlushRefresh, CommitChange
<1>9. CASE DeleteAccount \/ DeleteMe
  BY <1>9 DEF DeleteAccount, DeleteMe
<1>10. QED
  BY <1>1, <1>2, <1>3, <1>4, <1>5, <1>6, <1>7, <1>8, <1>9, QuietOrActive DEF Active

LEMMA PartingStep ==
    ASSUME Typed, Signing, Parting, [Next]_vars
    PROVE  Parting'
<1>0. site' = site
  BY SiteFixed
<1>1. ASSUME ~ site.writeOpen, NEW p \in Requests,
             req'[p].pc = "forget_row", ~ req'[p].failed
      PROVE  req'[p].new = req'[p].old /\ req'[p].old \notin allow'
  <2>1. CASE req'[p] = req[p]
    <3>1. req[p].new = req[p].old /\ req[p].old \notin allow /\ req[p].old \in issued
      BY <1>1, <2>1 DEF Parting, Typed, Shape
    <3>2. \A r \in Requests : Signed(req[r]) => req[r].new # req[p].old
      BY <3>1, SignedIsNew
    <3>3. QED
      BY <2>1, <3>1, <3>2, WhoAllows
  <2>2. CASE ForgetRefresh(p)
    BY <1>1, <2>2, ForgetRefreshDoes DEF Typed
  <2>3. QED
    BY <1>1, <2>1, <2>2, WhoForgets
<1>2. QED
  BY <1>0, <1>1 DEF Parting

LEMMA LogoutStep ==
    ASSUME Typed, Signing, Parting, LogoutIsFinal, [Next]_vars
    PROVE  LogoutIsFinal'
<1>0. site' = site
  BY SiteFixed
<1>1. \A r \in Requests : Signed(req[r]) => req[r].new \notin loggedOut
  BY SignedIsNew
<1>2. ASSUME ~ site.writeOpen, loggedOut' = loggedOut
      PROVE  (\A t \in rows' : t.jti \notin loggedOut) /\ allow' \cap loggedOut = {}
  <2>1. \A t \in rows' : t.jti \notin loggedOut
    <3>1. CASE rows' \subseteq rows
      BY <1>2, <3>1 DEF LogoutIsFinal
    <3>2. ASSUME NEW r \in Requests, FlushLogin(r) \/ FlushRefresh(r), NEW t \in rows'
          PROVE  t.jti \notin loggedOut
      <4>1. Signed(req[r])
        BY <3>2 DEF FlushLogin, FlushRefresh, Signed
      <4>2. t.jti = req[r].new \/ \E s \in rows : t.jti \in {s.jti, req[r].new}
        BY <3>2, FlushWrites
      <4>3. QED
        BY <1>1, <1>2, <4>1, <4>2 DEF LogoutIsFinal
    <3>3. QED
      BY <3>1, <3>2, RowsWritten
  <2>2. allow' \cap loggedOut = {}
    BY <1>1, <1>2, WhoAllows DEF LogoutIsFinal
  <2>3. QED
    BY <2>1, <2>2
<1>3. ASSUME ~ site.writeOpen, NEW r \in Requests, ForgetRow(r), loggedOut' # loggedOut
      PROVE  (\A t \in rows' : t.jti \notin loggedOut') /\ allow' \cap loggedOut' = {}
  <2>1. req[r].pc = "forget_row" /\ ~ req[r].failed /\ req[r].old \in Jti
    BY <1>3 DEF ForgetRow, Confirms, Typed, TypeOK, Shape
  <2>2. req[r].new = req[r].old /\ req[r].old \notin allow
    BY <1>3, <2>1 DEF Parting
  <2>3. rows' = RowsWithout(req[r].old) /\ loggedOut' = loggedOut \cup {req[r].old}
    BY <1>3, <2>1, <2>2, NoJtiAssumption DEF ForgetRow, Confirms, NoJtiAssumption
  <2>4. allow' = allow
    BY <1>3 DEF ForgetRow, redis
  <2>5. QED
    BY <1>3, <2>2, <2>3, <2>4 DEF RowsWithout, LogoutIsFinal
<1>4. loggedOut' = loggedOut \/ \E r \in Requests : ForgetRow(r)
  BY WhoLogsOut
<1>5. QED
  BY <1>0, <1>2, <1>3, <1>4 DEF LogoutIsFinal

-----------------------------------------------------------------------------
(* The theorems *)

LEMMA InitIsGood ==
    ASSUME Init
    PROVE  IInv
<1>1. \A r \in Requests :
         /\ req[r] = Idle /\ Idle \in Request
         /\ req[r].op = "none" /\ req[r].pc = "idle" /\ req[r].gen = 0
         /\ req[r].row = NoRow /\ req[r].view = {}
  BY IdleFacts DEF Init
<1>2. 0 \in 0 .. GenMax /\ 1 \in Gen
  BY GenMaxAssumption DEF Gen, GenMaxAssumption
<1>3. Typed
  <2>1. req \in [Requests -> Request]
    BY <1>1 DEF Init
  <2>2. TypeOK
    BY <1>2, <2>1 DEF Init, TypeOK
  <2>3. \A r \in Requests : Shape(req[r])
    BY <1>1 DEF Shape, Signed
  <2>4. QED
    BY <2>2, <2>3 DEF Typed
<1>4. Signing
  <2>1. \A j \in Jti : Unwritten(j)
    BY <1>1, NoRowFacts, NoJtiAssumption DEF Init, Unwritten, NoJtiAssumption
  <2>2. QED
    BY <1>1, <2>1 DEF Signing, Init, Signed, Unflushed, Fresh
<1>5. Locking
  BY <1>1 DEF Locking, Holds, RefreshHolds
<1>6. Stamping
  BY <1>1 DEF Stamping, Init
<1>7. Repeating
  BY <1>1 DEF Repeating, Init, Unflushed
<1>8. Spending
  BY <1>1 DEF Spending, Init, Exchanging, Unflushed
<1>9. Parting /\ LogoutIsFinal
  BY <1>1 DEF Parting, LogoutIsFinal, Init
<1>10. QED
  BY <1>3, <1>4, <1>5, <1>6, <1>7, <1>8, <1>9 DEF IInv

(* Between any two of its statements a request may rely on what the          *)
(* inductive invariant says of it: signed pairs are unknown to others, the   *)
(* locked user is the loaded one, spent tokens are gone.                     *)
THEOREM InvariantHolds == Spec => []IInv
<1>1. ASSUME IInv, [Next]_vars
      PROVE  IInv'
  <2>1. Typed'
    BY <1>1, TypedStep DEF IInv
  <2>2. Signing'
    BY <1>1, <2>1, SigningStep DEF IInv
  <2>3. Locking'
    BY <1>1, LockingStep DEF IInv
  <2>4. Stamping'
    BY <1>1, <2>1, StampingStep DEF IInv
  <2>5. Repeating'
    BY <1>1, <2>1, RepeatingStep DEF IInv
  <2>6. Spending'
    BY <1>1, SpendingStep DEF IInv
  <2>7. Parting'
    BY <1>1, PartingStep DEF IInv
  <2>8. LogoutIsFinal'
    BY <1>1, LogoutStep DEF IInv
  <2>9. QED
    BY <2>1, <2>2, <2>3, <2>4, <2>5, <2>6, <2>7, <2>8 DEF IInv
<1>2. QED
  BY <1>1, InitIsGood, PTL DEF Spec

(* Every variable keeps its type; the generation of the account stays below  *)
(* its ceiling because a change checks it under the user lock                *)
(* (next_generation).                                                        *)
THEOREM TypeCorrect == Spec => []TypeOK
<1>1. IInv => TypeOK
  BY DEF IInv, Typed
<1>2. QED
  BY <1>1, InvariantHolds, PTL

(* Where session writes fail closed, a confirmed logout is final: whatever   *)
(* failed of it was answered 503, and no login, refresh or late write in     *)
(* flight puts the pair back into the session table or the allowlist         *)
(* (_revoke_refresh_jti, _delete_db_session).                                *)
THEOREM LogoutHolds == Spec => []LogoutIsFinal
<1>1. IInv => LogoutIsFinal
  BY DEF IInv
<1>2. QED
  BY <1>1, InvariantHolds, PTL

(* Where plain reads repeat, the database vouches only for tokens that carry *)
(* the account's present claims, whatever logins, refreshes and changes      *)
(* overlap (create_client_session, next_generation).                         *)
THEOREM SnapshotsRaceProof == Spec => []SnapshotRaceProof
<1>1. IInv => SnapshotRaceProof
  BY DEF IInv, Repeating, SnapshotRaceProof, GenerationRaceProof, Current, OwnerVouches, Stale
<1>2. QED
  BY <1>1, InvariantHolds, PTL

(* A token in a client's hands that the database denies is never good again: *)
(* a step that makes rows writes them for a pair nobody was given yet        *)
(* (create_client_session), and a change of the account empties the table.   *)
THEOREM DenialIsFinal == Spec => NeverReactivated
<1>1. ASSUME IInv, [Next]_vars, NEW j \in issued, Current(j)'
      PROVE  Current(j)
  <2>1. ~ account'.tombstone /\ \E t \in rows' : t.jti = j /\ OwnerVouches(t.stamp)'
    BY <1>1 DEF Current, OwnerVouches, Stale
  <2>2. PICK t \in rows' : t.jti = j /\ OwnerVouches(t.stamp)'
    BY <2>1
  <2>3. account' = account
    BY <1>1, <2>2, AccountSteps DEF IInv
  <2>4. t \in rows
    <3>1. CASE rows' \subseteq rows
      BY <2>2, <3>1
    <3>2. ASSUME NEW r \in Requests, FlushLogin(r) \/ FlushRefresh(r), t \notin rows
          PROVE  FALSE
      <4>1. t.jti = req[r].new
        BY <1>1, <2>2, <3>2, FlushedRows DEF IInv
      <4>2. req[r].new \notin issued
        BY <1>1, <3>2, SignedIsNew DEF IInv, FlushLogin, FlushRefresh, Signed
      <4>3. QED
        BY <1>1, <2>2, <4>1, <4>2
    <3>3. QED
      BY <1>1, <3>1, <3>2, RowsWritten DEF IInv
  <2>5. QED
    BY <2>1, <2>2, <2>3, <2>4 DEF Current, OwnerVouches, Stale
<1>2. IInv /\ [Next]_vars => [\A j \in issued : ~ Current(j) => ~ Current(j)']_vars
  BY <1>1
<1>3. QED
  BY <1>2, InvariantHolds, PTL DEF Spec, NeverReactivated

(* A refresh that is answered is for an account that is there and active,    *)
(* with its present claims: the row reloaded for signing stays locked until  *)
(* the commit (reload_persisted_user_for_signing).                           *)
THEOREM RefreshIsCurrent == Spec => RefreshSignsCurrentClaims
<1>1. ASSUME IInv, NEW r \in Requests, FlushRefresh(r)
      PROVE  /\ account.exists /\ account.active
             /\ claims[req[r].new] = account.gen
  <2>1. RefreshHolds(req[r]) /\ Signed(req[r])
    BY <1>1 DEF FlushRefresh, RefreshHolds, Signed
  <2>2. QED
    BY <1>1, <2>1 DEF IInv, Locking, Signing
<1>2. IInv /\ [Next]_vars =>
         [\A r \in Requests : FlushRefresh(r) =>
             /\ account.exists /\ account.active
             /\ claims[req[r].new] = account.gen]_vars
  BY <1>1
<1>3. QED
  BY <1>2, InvariantHolds, PTL DEF Spec, RefreshSignsCurrentClaims

(* A refresh token is exchanged a second time only where the allowlist may   *)
(* be skipped and the account once had two session rows; everywhere else     *)
(* the rotation in Redis, or the user lock with the lineage check, prevents  *)
(* it (_check_refresh_allowlist, rotate, refresh_lineage_is_current).        *)
THEOREM ExchangedOnce == Spec => SingleUse
<1>1. ASSUME IInv, NEW r \in Requests, FlushRefresh(r), req[r].old \in spent
      PROVE  site.failOpen /\ split
  <2>1. Exchanging(req[r]) /\ req[r].op = "refresh" /\ Unflushed(req[r])
    BY <1>1 DEF FlushRefresh, Exchanging, Unflushed
  <2>2. site.failOpen
    BY <1>1, <2>1 DEF IInv, Spending
  <2>3. split
    BY <1>1, <2>1 DEF IInv, Spending
  <2>4. QED
    BY <2>2, <2>3
<1>2. IInv /\ [Next]_vars =>
         [\A r \in Requests :
             FlushRefresh(r) /\ req[r].old \in spent => site.failOpen /\ split]_vars
  BY <1>1
<1>3. QED
  BY <1>2, InvariantHolds, PTL DEF Spec, SingleUse

(* A token that introspection calls active was current when its session row  *)
(* was read: between that and the owner's row no change can have passed that *)
(* the stamp does not show (check_jti_status, is_session_generation_stale).  *)
THEOREM AnswersAreTrue == Spec => ActiveAnswerWasTrue
<1>1. ASSUME IInv, NEW r \in Requests, AnswerActive(r)
      PROVE  req[r].valid
  BY <1>1 DEF IInv, Stamping, AnswerActive
<1>2. IInv /\ [Next]_vars => [\A r \in Requests : AnswerActive(r) => req[r].valid]_vars
  BY <1>1
<1>3. QED
  BY <1>2, InvariantHolds, PTL DEF Spec, ActiveAnswerWasTrue

(* Where plain reads repeat and the account has never had two session rows,  *)
(* a refresh writes the row of its lineage check, and only while that row is *)
(* in the table: the snapshot it selects from holds that row and no other,   *)
(* and an UPDATE that matches no row fails (create_client_session,           *)
(* refresh_lineage_is_current).                                              *)
THEOREM LineageKept == Spec => SnapshotKeepsLineage
<1>1. ASSUME IInv, site.snapshot, ~ split, NEW r \in Requests, FlushRefresh(r)
      PROVE  /\ \E s \in rows : s.id = req[r].lineage
             /\ req[r].row.id = req[r].lineage
  <2>1. /\ Unflushed(req[r]) /\ req[r].op = "refresh" /\ req[r].pc = "flush"
        /\ CanFlush(req[r])
    BY <1>1 DEF FlushRefresh, Unflushed
  <2>2. PICK v \in req[r].view : v.id = req[r].lineage
    BY <1>1, <2>1 DEF IInv, Repeating
  <2>3. req[r].row \in req[r].view /\ req[r].view \subseteq SessionRow
    BY <1>1, <2>1, <2>2 DEF IInv, Repeating, Typed, TypeOK, Request
  <2>4. req[r].row = v
    BY <1>1, <2>1, <2>2, <2>3 DEF IInv, Repeating
  <2>5. req[r].row # NoRow
    BY <2>3, NoRowFacts
  <2>6. QED
    BY <2>1, <2>2, <2>4, <2>5 DEF CanFlush
<1>2. IInv /\ [Next]_vars =>
         [site.snapshot /\ ~ split =>
             \A r \in Requests :
                /\ ExtendsLiveLineage(r)
                /\ FlushRefresh(r) => req[r].row.id = req[r].lineage]_vars
  BY <1>1 DEF ExtendsLiveLineage
<1>3. QED
  BY <1>2, InvariantHolds, PTL DEF Spec, SnapshotKeepsLineage

-----------------------------------------------------------------------------
(* What the two counterexamples on READ COMMITTED need: a login whose user  *)
(* was read before a change, and a revocation that does not wait for the    *)
(* user row.  Without the one, or the other, the code's promise holds on    *)
(* every engine.                                                            *)

(* A login that writes its session was authenticated against the account's  *)
(* present authorization, as reload_persisted_user_for_signing ensures for  *)
(* a refresh.                                                               *)
LoginSignsCurrentClaims ==
    [][\A r \in Requests : FlushLogin(r) => claims[req[r].new] = account.gen]_vars

(* No session row is deleted while a refresh holds the row of its user.     *)
RevocationsWait ==
    [][\A r \in Requests, s \in rows :
          RefreshHolds(req[r]) /\ RefreshHolds(req[r])' => \E t \in rows' : t.id = s.id]_vars

(* Every row is stamped with the claims of its pair, and a row in anybody's *)
(* hands is no newer than the table's.                                      *)
Agreeing ==
    /\ \A s \in rows : s.stamp = claims[s.jti]
    /\ \A p \in Requests : \A v \in req[p].view \cup {req[p].row}, s \in rows :
          v.id = s.id => v.stamp <= s.stamp

LEMMA CurrentFlush ==
    ASSUME Typed, Signing, Locking, NEW r \in Requests, FlushLogin(r) \/ FlushRefresh(r),
           FlushLogin(r) => claims[req[r].new] = account.gen
    PROVE  claims[req[r].new] = account.gen /\ req[r].gen = account.gen
<1>1. Signed(req[r])
  BY DEF FlushLogin, FlushRefresh, Signed
<1>2. claims[req[r].new] = req[r].gen
  BY <1>1 DEF Signing
<1>3. FlushRefresh(r) => RefreshHolds(req[r])
  BY DEF FlushRefresh, RefreshHolds
<1>4. QED
  BY <1>2, <1>3 DEF Locking

(* A flush that is current leaves the present generation on its row.        *)
LEMMA CurrentRows ==
    ASSUME Typed, Signing, Locking, Stamping, Agreeing,
           NEW r \in Requests, FlushLogin(r) \/ FlushRefresh(r),
           FlushLogin(r) => claims[req[r].new] = account.gen,
           NEW t \in rows', t \notin rows
    PROVE  /\ t.stamp = account.gen /\ t.jti = req[r].new
           /\ \/ t.id = req[r].new
              \/ \E s \in rows : s.id = t.id
<1>1. /\ req[r] \in Request /\ req[r].new \in Jti /\ req[r].gen \in Gen
      /\ rows \subseteq SessionRow /\ account.gen \in Gen
  BY FlushWrites DEF Typed, TypeOK
<1>2. req[r].gen = account.gen
  BY CurrentFlush
<1>3. ASSUME NEW s \in rows, req[r].row # NoRow, s.id = req[r].row.id,
             t = Restamped(s, req[r])
      PROVE  t.stamp = account.gen
  <2>1. CASE req[r].gen # req[r].row.stamp
    BY <1>1, <1>2, <1>3, <2>1, RestampedFacts
  <2>2. CASE req[r].gen = req[r].row.stamp
    <3>1. t.stamp = s.stamp /\ s.stamp \in Gen
      BY <1>1, <1>3, <2>2, RestampedFacts, NoRowFacts
    <3>2. req[r].row.stamp <= s.stamp /\ s.stamp <= account.gen
      BY <1>3 DEF Agreeing, Stamping
    <3>3. QED
      BY <1>1, <1>2, <2>2, <3>1, <3>2 DEF Gen
  <2>3. QED
    BY <2>1, <2>2
<1>4. QED
  BY <1>2, <1>3, FlushedRows

LEMMA AgreeingStep ==
    ASSUME Typed, Typed', Signing, Locking, Stamping, Repeating, Agreeing, [Next]_vars,
           \A r \in Requests : FlushLogin(r) => claims[req[r].new] = account.gen
    PROVE  Agreeing'
<1>0. /\ rows \subseteq SessionRow /\ rows' \subseteq SessionRow
      /\ claims \in [Jti -> 0 .. GenMax] /\ account.gen \in Gen
      /\ req \in [Requests -> Request]
  BY DEF Typed, TypeOK
<1>1. ASSUME NEW t \in rows'
      PROVE  t.stamp = claims'[t.jti]
  <2>1. CASE t \in rows
    <3>1. t.stamp = claims[t.jti] /\ t.jti \in Jti /\ t.jti \notin Fresh
      BY <1>0, <2>1 DEF Agreeing, Signing, Unwritten, SessionRow
    <3>2. CASE claims' = claims
      BY <3>1, <3>2
    <3>3. ASSUME NEW p \in Requests, NEW j \in Jti, Signs(p, j)
          PROVE  claims'[t.jti] = claims[t.jti]
      BY <1>0, <3>1, <3>3 DEF Signs
    <3>4. QED
      BY <3>1, <3>2, <3>3, WhoSigns
  <2>2. ASSUME NEW r \in Requests, FlushLogin(r) \/ FlushRefresh(r), t \notin rows
        PROVE  t.stamp = claims'[t.jti]
    <3>1. claims' = claims /\ claims[req[r].new] = account.gen
      BY <2>2, CurrentFlush DEF FlushLogin, FlushRefresh
    <3>2. t.jti = req[r].new /\ t.stamp = account.gen
      BY <1>1, <2>2, CurrentRows
    <3>3. QED
      BY <3>1, <3>2
  <2>3. QED
    BY <2>1, <2>2, RowsWritten
<1>2. ASSUME NEW s \in rows, NEW t \in rows', s.id = t.id
      PROVE  s.stamp <= t.stamp
  <2>1. CASE t \in rows
    BY <1>0, <1>2, <2>1 DEF Repeating, SessionRow, Gen
  <2>2. ASSUME NEW r \in Requests, FlushLogin(r) \/ FlushRefresh(r), t \notin rows
        PROVE  s.stamp <= t.stamp
    <3>1. t.stamp = account.gen
      BY <1>2, <2>2, CurrentRows
    <3>2. QED
      BY <3>1 DEF Stamping
  <2>3. QED
    BY <2>1, <2>2, RowsWritten
<1>3. ASSUME NEW p \in Requests, NEW v \in req'[p].view \cup {req'[p].row},
             NEW t \in rows', v.id = t.id
      PROVE  v.stamp <= t.stamp
  <2>1. v \in rows \cup req[p].view \cup {req[p].row, NoRow}
    BY <1>3, RowsRead
  <2>2. v # NoRow
    BY <1>0, <1>3, NoRowFacts
  <2>3. CASE v \in rows
    BY <1>2, <1>3, <2>3
  <2>4. CASE v \in req[p].view \cup {req[p].row}
    <3>1. CASE t \in rows
      BY <1>3, <2>4, <3>1 DEF Agreeing
    <3>2. ASSUME NEW r \in Requests, FlushLogin(r) \/ FlushRefresh(r), t \notin rows
          PROVE  v.stamp <= t.stamp
      <4>1. v.id # req[r].new
        BY <2>4, <3>2 DEF Signing, Unwritten, Unflushed, FlushLogin, FlushRefresh
      <4>2. PICK s \in rows : s.id = t.id
        BY <1>3, <3>2, <4>1, CurrentRows
      <4>3. v.stamp <= s.stamp /\ s.stamp <= t.stamp
        BY <1>2, <1>3, <2>4, <4>2 DEF Agreeing
      <4>4. s.stamp \in Gen /\ t.stamp \in Gen /\ v.stamp \in 0 .. GenMax
        <5>1. v \in SessionRow \cup {NoRow}
          BY <1>0, <2>4 DEF Request
        <5>2. QED
          BY <1>0, <5>1, <2>2, NoRowFacts DEF Gen
      <4>5. QED
        BY <4>3, <4>4 DEF Gen
    <3>3. QED
      BY <3>1, <3>2, RowsWritten
  <2>5. QED
    BY <2>1, <2>2, <2>3, <2>4
<1>4. QED
  BY <1>1, <1>3 DEF Agreeing

(* The generation is race-proof on every engine, and with any number of     *)
(* overlapping logins, refreshes and changes, if a login that writes its    *)
(* session has the present claims: the stale login of the counterexample,   *)
(* authenticated before a change and flushed after it, is what              *)
(* create_client_session cannot cope with, and all it cannot cope with.     *)
THEOREM CurrentLoginsRaceProof ==
    Spec /\ LoginSignsCurrentClaims => []GenerationRaceProof
<1>1. ASSUME Init
      PROVE  Agreeing
  <2>1. \A r \in Requests : req[r].row = NoRow /\ req[r].view = {}
    BY <1>1, IdleFacts DEF Init
  <2>2. QED
    BY <1>1, <2>1 DEF Init, Agreeing
<1>2. ASSUME IInv, IInv', Agreeing, [Next]_vars,
             [\A r \in Requests : FlushLogin(r) => claims[req[r].new] = account.gen]_vars
      PROVE  Agreeing'
  <2>1. CASE UNCHANGED vars
    BY <1>2, <2>1 DEF vars, store, redis, tokens, Agreeing
  <2>2. CASE \A r \in Requests : FlushLogin(r) => claims[req[r].new] = account.gen
    BY <1>2, <2>2, AgreeingStep DEF IInv
  <2>3. QED
    BY <1>2, <2>1, <2>2
<1>3. Agreeing => GenerationRaceProof
  BY DEF Agreeing, GenerationRaceProof, Current, OwnerVouches, Stale
<1>4. QED
  BY <1>1, <1>2, <1>3, InvariantHolds, PTL DEF Spec, LoginSignsCurrentClaims

(* The session row a refresh checked is there until it is written.          *)
Extending ==
    \A p \in Requests :
        req[p].op = "refresh" /\ Unflushed(req[p]) => \E s \in rows : s.id = req[p].lineage

LEMMA ExtendingStep ==
    ASSUME Typed, Locking, Extending, [Next]_vars,
           \A r \in Requests, s \in rows :
              RefreshHolds(req[r]) /\ RefreshHolds(req[r])' => \E t \in rows' : t.id = s.id
    PROVE  Extending'
<1>1. ASSUME NEW p \in Requests, req'[p].op = "refresh", Unflushed(req'[p])
      PROVE  \E t \in rows' : t.id = req'[p].lineage
  <2>1. CASE Continues(p)
    <3>1. RefreshHolds(req[p]) /\ RefreshHolds(req[p])'
      BY <1>1, <2>1 DEF RefreshHolds, Unflushed, Continues
    <3>2. PICK s \in rows : s.id = req[p].lineage
      BY <1>1, <2>1 DEF Extending, Continues
    <3>3. QED
      BY <2>1, <3>1, <3>2 DEF Continues
  <2>2. CASE Begins(p)
    BY <1>1, <2>2 DEF Begins
  <2>3. QED
    BY <1>1, <2>1, <2>2, PendingSteps
<1>2. QED
  BY <1>1 DEF Extending, Unflushed

(* A refresh extends a session row that is there, on every engine, if the   *)
(* deletions of rows wait for the user row that it holds: the lock of       *)
(* reload_persisted_user_for_signing would do, were it taken by             *)
(* revoke_all_user_sessions and the other deletions too.                    *)
THEOREM WaitingRevocationsKeepLineage ==
    Spec /\ RevocationsWait => RefreshExtendsLiveLineage
<1> DEFINE Waits ==
       \A r \in Requests, s \in rows :
          RefreshHolds(req[r]) /\ RefreshHolds(req[r])' => \E t \in rows' : t.id = s.id
<1>1. ASSUME Init
      PROVE  Extending
  BY <1>1, IdleFacts DEF Init, Extending, Unflushed
<1>2. ASSUME IInv, Extending, [Next]_vars, [Waits]_vars
      PROVE  Extending'
  <2>1. CASE UNCHANGED vars
    BY <1>2, <2>1 DEF vars, store, redis, tokens, Extending
  <2>2. CASE Waits
    BY <1>2, <2>2, ExtendingStep DEF IInv
  <2>3. QED
    BY <1>2, <2>1, <2>2
<1>3. ASSUME Extending, NEW r \in Requests
      PROVE  ExtendsLiveLineage(r)
  BY <1>3 DEF ExtendsLiveLineage, FlushRefresh, Extending, Unflushed
<1>4. Extending /\ [Next]_vars => [\A r \in Requests : ExtendsLiveLineage(r)]_vars
  BY <1>3
<1>5. QED
  BY <1>1, <1>2, <1>4, InvariantHolds, PTL
  DEF Spec, RevocationsWait, RefreshExtendsLiveLineage
=============================================================================

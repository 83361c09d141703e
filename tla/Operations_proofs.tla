-------------------------- MODULE Operations_proofs --------------------------
(***************************************************************************)
(* Theorems about the operator's procedures (AuditTrail, Cutover,          *)
(* Credentials, composed by Operations): the audit trail for any items,    *)
(* actors, writers, purges, windows and batch size, the cutover for any    *)
(* users and sessions, the credentials for any consumers, clients, scopes  *)
(* and lifetimes.                                                          *)
(***************************************************************************)
EXTENDS Operations, FiniteSetTheorems, TLAPS

-----------------------------------------------------------------------------
(* The audit trail: a row is claimed only once its age exceeds the         *)
(* retention floor, and a change request remembers what it loaded.         *)

TrailRow == [n : Nat, at : Nat,
             entry : [action : {"add", "edit", "delete", "purge"}, actor : Actors \cup {"none"},
                      item : Items \cup {"none"}, owner : Actors \cup {"none"}]]
Write == [action : {"none", "add", "edit", "delete"}, actor : Actors \cup {"none"},
          item : Items \cup {"none"}, owner : Actors \cup {"none"}]
PurgeState == [pc : {"idle", "claim", "delete", "record"}, horizon : Int,
               claimed : SUBSET TrailRow, removed : Nat]

(* A request that has loaded its item carries an action on it. *)
WriteShape(w) ==
    writer[w] # NoWrite => /\ writer[w].action \in {"add", "edit", "delete"}
                           /\ writer[w].actor \in Actors /\ writer[w].item \in Items
                           /\ writer[w].owner \in Actors

(* The rows of a batch are older than a horizon at least Floor ago. *)
PurgeShape(p) ==
    /\ purge[p].pc # "idle" => purge[p].horizon + Floor <= clock
    /\ purge[p].claimed # {} => purge[p].pc # "idle"
    /\ \A t \in purge[p].claimed : t.at < purge[p].horizon

TrailTables ==
    /\ item \in [Items -> [owner : Actors \cup {"none"}, live : BOOLEAN]]
    /\ trail \subseteq TrailRow /\ IsFiniteSet(trail)
    /\ writer \in [Writers -> Write]
    /\ purge \in [Purges -> PurgeState]
    /\ \A c \in changes : c.at \in Nat /\ c.at <= clock
    /\ cut \in [purges : 0 .. CutMax, rows : Nat]

TrailInv ==
    /\ TrailTypeOK
    /\ TrailTables
    /\ \A w \in Writers : WriteShape(w)
    /\ \A p \in Purges : PurgeShape(p)
    /\ TrailAgrees

-----------------------------------------------------------------------------
(* The cutover: what the schema enforces holds of every row. *)

User == [super : BOOLEAN, flag : BOOLEAN, active : BOOLEAN, gen : 1 .. GenMax]
Session == [owner : Users \cup {"none"}, gen : 0 .. GenMax, by : {"none", "old", "new"}]

(* A session of the old issuer has no generation, one of the new issuer the *)
(* generation its owner has: whatever moves the generation deletes it.      *)
SessionShape(s) ==
    Held(s) => /\ session[s].owner \in Users
               /\ \/ session[s].by = "old" /\ session[s].gen = 0
                  \/ /\ session[s].by = "new" /\ session[s].gen > 0
                     /\ session[s].gen = user[session[s].owner].gen

CutoverInv ==
    /\ user \in [Users -> User] /\ session \in [Sessions -> Session]
    /\ schema \in [revision : {"initial", "expand", "enforce"},
                   notNull : BOOLEAN, check : BOOLEAN, transactional : BOOLEAN]
    /\ old \in [running : BOOLEAN, starts : 0 .. Starts] /\ new \in BOOLEAN
    /\ \A s \in Sessions : SessionShape(s)
    /\ schema.notNull => Legacy = {}
    /\ schema.check => \A u \in Users : ~ Mismatched(u)
    /\ schema.revision = "enforce" => schema.notNull /\ schema.check
    /\ new => schema.revision = "enforce"

-----------------------------------------------------------------------------
(* The credentials *)

Token == [kid : Keys, key : Keys, at : Nat]
Pass == [client : Clients, scopes : SUBSET Scopes, at : Nat]
Stream == [client : Clients, at : Nat]

CredentialTables ==
    /\ CredentialsTypeOK
    /\ issuer \in [config : Config, up : BOOLEAN]
    /\ token \subseteq Token /\ pass \subseteq Pass /\ stream \subseteq Stream
    /\ cache \in [Consumers -> [keys : SUBSET [kid : Keys, key : Keys], at : Nat]]

(* Every live token's key, and the key the issuer signs with, stay in the  *)
(* configuration on disk and with the issuer, unless they leaked: the      *)
(* window closes only when every token of the old key is dead.             *)
KeysKept ==
    /\ issuer.config.key \in leaked \cup {config.key, config.old}
    /\ \A t \in token :
        /\ t.key \in leaked \cup {config.key, config.old}
        /\ t.key \in leaked \cup {issuer.config.key, issuer.config.old}
        /\ t.key = issuer.config.key \/ t.at <= since

(* The labels of the access keys name the key itself. *)
LabelsBound ==
    replacing = "access" =>
        /\ issuer.config.label \in {issuer.config.key, Derived}
        /\ \A t \in token : t.kid = t.key
        /\ \A c \in Consumers : \A r \in cache[c].keys : r.kid = r.key

(* What was withdrawn was withdrawn after it was cached or issued. *)
Withdrawn ==
    /\ \A c \in Consumers : \A r \in cache[c].keys :
        r.key \in AcceptedKeys \/ cache[c].at <= dropped[r.key]
    /\ \A p \in pass : \A s \in p.scopes :
        s \in issuer.config.scopes[p.client] \/ p.at <= taken[p.client][s]

(* An open stream's client has the scope, or lost it before the stream was  *)
(* opened, and not long before.                                             *)
StreamsRecent ==
    \A e \in stream :
        EventStream \in issuer.config.scopes[e.client]
          \/ e.at - taken[e.client][EventStream] \in 0 .. ServiceLife

CredentialsInv ==
    /\ CredentialTables
    /\ KeysKept
    /\ LabelsBound
    /\ Withdrawn
    /\ StreamsRecent
    /\ replacing = "consumers" => token = {}

IInv ==
    /\ procedure \in {"audit", "cutover", "credentials"}
    /\ TrailInv /\ CutoverInv /\ CredentialsInv

-----------------------------------------------------------------------------
(* The cutover *)

LEMMA InitCutover == CutoverInit => CutoverInv
<1> SUFFICES ASSUME CutoverInit PROVE CutoverInv
  OBVIOUS
<1>1. GenMax \in Nat \ {0} /\ Starts \in Nat
  BY CutoverAssumption DEF CutoverAssumption
<1>2. user \in [Users -> User]
  <2> DEFINE First == [super : BOOLEAN, flag : BOOLEAN, active : {TRUE}, gen : {1}]
  <2>1. First \subseteq User
    <3>1. {1} \subseteq 1 .. GenMax /\ {TRUE} \subseteq BOOLEAN
      BY <1>1
    <3> QED BY <3>1, Zenon DEF User
  <2>2. user \in [Users -> First]
    BY DEF CutoverInit
  <2> HIDE DEF First
  <2> QED BY <2>1, <2>2
<1>3. session \in [Sessions -> Session] /\ \A s \in Sessions : ~ Held(s)
  BY <1>1 DEF CutoverInit, Session, NoSession, Held
<1>4. /\ schema \in [revision : {"initial", "expand", "enforce"},
                     notNull : BOOLEAN, check : BOOLEAN, transactional : BOOLEAN]
      /\ schema.revision = "initial" /\ ~ schema.notNull /\ ~ schema.check
  BY DEF CutoverInit
<1>5. old \in [running : BOOLEAN, starts : 0 .. Starts] /\ new = FALSE
  BY <1>1 DEF CutoverInit
<1> QED BY <1>2, <1>3, <1>4, <1>5 DEF CutoverInv, SessionShape

(* The sessions of a user whose generation moves are deleted.               *)
LEMMA WithoutOwner ==
  ASSUME CutoverInv, NEW u \in Users, session' = Without(u)
  PROVE  /\ session' \in [Sessions -> Session]
         /\ \A s \in Sessions : Held(s)' =>
              /\ session'[s] = session[s] /\ Held(s) /\ session[s].owner # u
<1>1. session \in [Sessions -> Session] /\ NoSession \in Session
  BY CutoverAssumption DEF CutoverInv, Session, NoSession, CutoverAssumption
<1>2. \A s \in Sessions :
        session'[s] = IF session[s].owner = u THEN NoSession ELSE session[s]
  BY DEF Without
<1> QED BY <1>1, <1>2 DEF Held, Without

(* A row whose role and flag are written together, with its next            *)
(* generation: the repair, and the role change of the new issuer.           *)
LEMMA RoleWritten ==
  ASSUME CutoverInv, NEW u \in Users, NEW super \in BOOLEAN, user[u].gen < GenMax,
         user' = [user EXCEPT ![u].super = super, ![u].flag = super, ![u].gen = @ + 1],
         session' = Without(u), UNCHANGED <<schema, old, new>>
  PROVE  CutoverInv'
<1>1. user \in [Users -> User] /\ user[u] \in User /\ user[u].gen + 1 \in 1 .. GenMax
  BY CutoverAssumption DEF CutoverInv, User, CutoverAssumption
<1>2. /\ user' \in [Users -> User]
      /\ user'[u].super = super /\ user'[u].flag = super
      /\ \A v \in Users : v # u => user'[v] = user[v]
  BY <1>1 DEF User
<1>3. /\ session' \in [Sessions -> Session]
      /\ \A s \in Sessions : Held(s)' =>
           /\ session'[s] = session[s] /\ Held(s) /\ session[s].owner # u
  BY WithoutOwner
<1>4. \A s \in Sessions : SessionShape(s)'
  BY <1>2, <1>3 DEF CutoverInv, SessionShape
<1>5. schema'.notNull => Legacy' = {}
  BY <1>3 DEF CutoverInv, Legacy
<1>6. schema'.check => \A v \in Users : ~ Mismatched(v)'
  BY <1>2 DEF CutoverInv, Mismatched
<1> QED BY <1>2, <1>3, <1>4, <1>5, <1>6 DEF CutoverInv

(* A login opens a session with no generation, or with that of its owner.   *)
LEMMA SessionOpened ==
  ASSUME CutoverInv, NEW u \in Users, NEW s \in Sessions, NEW x \in Session,
         session' = [session EXCEPT ![s] = x], UNCHANGED <<user, schema, old, new>>,
         x.owner = u,
         \/ x.by = "old" /\ x.gen = 0 /\ ~ schema.notNull
         \/ x.by = "new" /\ x.gen > 0 /\ x.gen = user[u].gen
  PROVE  CutoverInv'
<1>1. /\ session' \in [Sessions -> Session] /\ session'[s] = x
      /\ \A r \in Sessions : r # s => session'[r] = session[r]
  BY DEF CutoverInv
<1>2. \A r \in Sessions : SessionShape(r)'
  <2>1. SessionShape(s)'
    BY <1>1 DEF SessionShape
  <2>2. ASSUME NEW r \in Sessions, r # s PROVE SessionShape(r)'
    BY <1>1, <2>2 DEF CutoverInv, SessionShape, Held
  <2> QED BY <2>1, <2>2
<1>3. schema'.notNull => Legacy' = {}
  BY <1>1 DEF CutoverInv, Legacy, Held, Session
<1>4. schema'.check => \A v \in Users : ~ Mismatched(v)'
  BY DEF CutoverInv, Mismatched
<1> QED BY <1>1, <1>2, <1>3, <1>4 DEF CutoverInv

(* A migration that finds the rows fit changes the schema alone.            *)
LEMMA Migrated ==
  ASSUME CutoverInv, UNCHANGED <<user, session, old, new>>,
         schema' \in [revision : {"initial", "expand", "enforce"},
                      notNull : BOOLEAN, check : BOOLEAN, transactional : BOOLEAN],
         schema'.notNull => Legacy = {},
         schema'.check => \A u \in Users : ~ Mismatched(u),
         schema'.revision = "enforce" => schema'.notNull /\ schema'.check,
         schema.revision = "enforce" => schema'.revision = "enforce"
  PROVE  CutoverInv'
BY DEF CutoverInv, SessionShape, Held, Legacy, Mismatched

LEMMA CutoverStepInv ==
  ASSUME CutoverInv, [CutoverNext]_cutoverVars
  PROVE  CutoverInv'
<1>1. ASSUME NEW u \in Users, NEW s \in Sessions, OldLogin(u, s) PROVE CutoverInv'
  <2> DEFINE x == [owner |-> u, gen |-> 0, by |-> "old"]
  <2>1. x \in Session
    BY CutoverAssumption DEF Session, CutoverAssumption
  <2>2. /\ session' = [session EXCEPT ![s] = x] /\ UNCHANGED <<user, schema, old, new>>
        /\ ~ schema.notNull
    BY <1>1 DEF OldLogin
  <2>3. x.owner = u /\ x.by = "old" /\ x.gen = 0
    OBVIOUS
  <2> HIDE DEF x
  <2> QED BY <2>1, <2>2, <2>3, SessionOpened
<1>2. ASSUME NEW u \in Users, NEW s \in Sessions, NewLogin(u, s) PROVE CutoverInv'
  <2> DEFINE x == [owner |-> u, gen |-> user[u].gen, by |-> "new"]
  <2>1. user[u].gen \in 1 .. GenMax
    BY DEF CutoverInv, User
  <2>2. x \in Session
    BY <2>1, CutoverAssumption DEF Session, CutoverAssumption
  <2>3. session' = [session EXCEPT ![s] = x] /\ UNCHANGED <<user, schema, old, new>>
    BY <1>2 DEF NewLogin
  <2>4. x.owner = u /\ x.by = "new" /\ x.gen = user[u].gen /\ x.gen > 0
    BY <2>1, CutoverAssumption DEF CutoverAssumption
  <2> HIDE DEF x
  <2> QED BY <2>2, <2>3, <2>4, SessionOpened
<1>3. ASSUME NEW u \in Users, NEW super \in BOOLEAN, NEW flag \in BOOLEAN,
             NEW active \in BOOLEAN, OldWrite(u, super, flag, active)
      PROVE  CutoverInv'
  <2>1. /\ schema.check => super = flag
        /\ user' = [user EXCEPT ![u].super = super, ![u].flag = flag, ![u].active = active]
        /\ UNCHANGED <<session, schema, old, new>>
    BY <1>3 DEF OldWrite
  <2>2. user \in [Users -> User]
    BY DEF CutoverInv
  <2>3. /\ user' \in [Users -> User]
        /\ user'[u].super = super /\ user'[u].flag = flag
        /\ \A v \in Users : v # u => user'[v] = user[v]
        /\ \A v \in Users : user'[v].gen = user[v].gen
    <3> DEFINE x == [user[u] EXCEPT !.super = super, !.flag = flag, !.active = active]
    <3>1. user' = [user EXCEPT ![u] = x]
      BY <2>1, <2>2 DEF User
    <3>2. x \in User /\ x.super = super /\ x.flag = flag /\ x.gen = user[u].gen
      BY <2>2 DEF User
    <3> HIDE DEF x
    <3> QED BY <2>2, <3>1, <3>2
  <2>4. \A s \in Sessions : SessionShape(s)'
    BY <2>1, <2>3 DEF CutoverInv, SessionShape, Held
  <2>5. schema'.check => \A v \in Users : ~ Mismatched(v)'
    BY <2>1, <2>3 DEF CutoverInv, Mismatched
  <2> QED BY <2>1, <2>3, <2>4, <2>5 DEF CutoverInv, Legacy, Held
<1>4. ASSUME NEW u \in Users, NEW super \in BOOLEAN, Repair(u, super) \/ NewRole(u, super)
      PROVE  CutoverInv'
  BY <1>4, RoleWritten DEF Repair, NewRole
<1>5. CASE StopOld \/ StartOld
  <2>1. /\ old' \in [running : BOOLEAN, starts : 0 .. Starts]
        /\ UNCHANGED <<user, session, schema, new>>
    <3>1. old \in [running : BOOLEAN, starts : 0 .. Starts]
      BY DEF CutoverInv
    <3>2. CASE StopOld
      BY <3>1, <3>2 DEF StopOld
    <3>3. CASE StartOld
      <4>1. /\ old' = [running |-> TRUE, starts |-> old.starts + 1]
            /\ UNCHANGED <<user, session, schema, new>> /\ old.starts < Starts
        BY <3>3 DEF StartOld
      <4>2. old.starts + 1 \in 0 .. Starts
        BY <3>1, <4>1, CutoverAssumption DEF CutoverAssumption
      <4> QED BY <4>1, <4>2
    <3> QED BY <1>5, <3>2, <3>3
  <2> QED BY <2>1 DEF CutoverInv, SessionShape, Held, Legacy, Mismatched
<1>6. CASE Expand
  <2>1. /\ schema' = [schema EXCEPT !.revision = "expand"] /\ schema.revision = "initial"
        /\ UNCHANGED <<user, session, old, new>>
    BY <1>6 DEF Expand
  <2>2. /\ schema' \in [revision : {"initial", "expand", "enforce"},
                        notNull : BOOLEAN, check : BOOLEAN, transactional : BOOLEAN]
        /\ schema'.revision = "expand"
        /\ (schema'.notNull <=> schema.notNull) /\ (schema'.check <=> schema.check)
    BY <2>1 DEF CutoverInv
  <2> QED BY <2>1, <2>2, Migrated DEF CutoverInv
<1>7. CASE RevokeLegacySessions
  <2>1. session' = AfterRevocation /\ UNCHANGED <<user, schema, old, new>>
    BY <1>7 DEF RevokeLegacySessions
  <2>2. session \in [Sessions -> Session] /\ NoSession \in Session
    BY CutoverAssumption DEF CutoverInv, Session, NoSession, CutoverAssumption
  <2>3. /\ session' \in [Sessions -> Session]
        /\ \A s \in Sessions : Held(s)' => session'[s] = session[s] /\ Held(s)
    BY <2>1, <2>2 DEF AfterRevocation, Revoked, Held
  <2>4. \A s \in Sessions : SessionShape(s)'
    BY <2>1, <2>3 DEF CutoverInv, SessionShape
  <2>5. schema'.notNull => Legacy' = {}
    BY <2>1, <2>3 DEF CutoverInv, Legacy
  <2> QED BY <2>1, <2>3, <2>4, <2>5 DEF CutoverInv, Mismatched
<1>8. CASE Enforce
  <2>1. /\ schema' = [schema EXCEPT !.revision = "enforce", !.notNull = TRUE, !.check = TRUE]
        /\ UNCHANGED <<user, session, old, new>>
        /\ Legacy = {} /\ \A u \in Users : ~ Mismatched(u)
    BY <1>8 DEF Enforce
  <2>2. /\ schema' \in [revision : {"initial", "expand", "enforce"},
                        notNull : BOOLEAN, check : BOOLEAN, transactional : BOOLEAN]
        /\ schema'.revision = "enforce" /\ schema'.notNull /\ schema'.check
    BY <2>1 DEF CutoverInv
  <2> QED BY <2>1, <2>2, Migrated
<1>9. CASE EnforceNotNull
  <2>1. /\ schema' = [schema EXCEPT !.notNull = TRUE] /\ schema.revision = "expand"
        /\ UNCHANGED <<user, session, old, new>> /\ Legacy = {}
    BY <1>9 DEF EnforceNotNull
  <2>2. /\ schema' \in [revision : {"initial", "expand", "enforce"},
                        notNull : BOOLEAN, check : BOOLEAN, transactional : BOOLEAN]
        /\ schema'.revision = "expand" /\ (schema'.check <=> schema.check)
    BY <2>1 DEF CutoverInv
  <2> QED BY <2>1, <2>2, Migrated DEF CutoverInv
<1>10. CASE EnforceCheck
  <2>1. /\ schema' = [schema EXCEPT !.revision = "enforce", !.check = TRUE]
        /\ schema.notNull /\ UNCHANGED <<user, session, old, new>>
        /\ \A u \in Users : ~ Mismatched(u)
    BY <1>10 DEF EnforceCheck
  <2>2. /\ schema' \in [revision : {"initial", "expand", "enforce"},
                        notNull : BOOLEAN, check : BOOLEAN, transactional : BOOLEAN]
        /\ schema'.revision = "enforce" /\ schema'.notNull /\ schema'.check
    BY <2>1 DEF CutoverInv
  <2> QED BY <2>1, <2>2, Migrated DEF CutoverInv
<1>11. CASE StartNew
  BY <1>11 DEF StartNew, CutoverInv, SessionShape, Held, Legacy, Mismatched
<1>12. CASE UNCHANGED cutoverVars
  BY <1>12 DEF cutoverVars, CutoverInv, SessionShape, Held, Legacy, Mismatched
<1> QED BY <1>1, <1>2, <1>3, <1>4, <1>5, <1>6, <1>7, <1>8, <1>9, <1>10, <1>11, <1>12
        DEF CutoverNext

(* While no issuer runs, only the repair writes a user, and it does not     *)
(* touch a consistent row.                                                  *)
LEMMA CanonicalKept ==
  ASSUME CutoverInv, [CutoverNext]_cutoverVars, ~ old.running, ~ new
  PROVE  Canonical \subseteq Canonical'
<1>1. user \in [Users -> User]
  BY DEF CutoverInv
<1>2. CASE user' = user
  BY <1>2 DEF Canonical
<1>3. ASSUME NEW u \in Users, NEW super \in BOOLEAN, Repair(u, super)
      PROVE  Canonical \subseteq Canonical'
  <2>1. u \notin Canonical
    <3>1. user[u].super # user[u].flag
      BY <1>3 DEF Repair, Repairable, Mismatched
    <3>2. user[u].super \in BOOLEAN /\ user[u].flag \in BOOLEAN
      BY <1>1 DEF User
    <3>3. ~ (user[u].super /\ user[u].flag)
      BY <3>1, <3>2, Zenon
    <3> QED BY <3>3 DEF Canonical
  <2>2. \A v \in Users : v # u => user'[v] = user[v]
    BY <1>1, <1>3 DEF Repair
  <2> QED BY <2>1, <2>2 DEF Canonical
<1> QED BY <1>2, <1>3 DEF CutoverNext, cutoverVars, OldLogin, NewLogin, OldWrite, NewRole,
           StopOld, StartOld, Expand, RevokeLegacySessions, Enforce, EnforceNotNull,
           EnforceCheck, StartNew

-----------------------------------------------------------------------------
(* The audit trail *)

LEMMA TrailConstants ==
  /\ Floor \in Nat /\ AuditBatch \in Nat \ {0} /\ Windows \subseteq Nat
  /\ ClockMax \in Nat /\ RowMax \in Nat /\ CutMax \in Nat
BY WindowsAssumption, TrailBoundsAssumption DEF WindowsAssumption, TrailBoundsAssumption

LEMMA NothingTyped ==
  /\ NoItem \in [owner : Actors \cup {"none"}, live : BOOLEAN]
  /\ NoWrite \in Write
  /\ NoPurge \in PurgeState /\ NoPurge.pc = "idle" /\ NoPurge.claimed = {}
BY DEF NoItem, NoWrite, Write, NoPurge, PurgeState

LEMMA InitTrail == TrailInit => TrailInv
<1> SUFFICES ASSUME TrailInit PROVE TrailInv
  OBVIOUS
<1>1. /\ item \in [Items -> [owner : Actors \cup {"none"}, live : BOOLEAN]]
      /\ writer \in [Writers -> Write] /\ purge \in [Purges -> PurgeState]
  BY NothingTyped DEF TrailInit
<1>2. trail = {} /\ IsFiniteSet(trail) /\ changes = {} /\ clock = 0
  BY FS_EmptySet DEF TrailInit
<1>3. cut \in [purges : 0 .. CutMax, rows : Nat]
  BY TrailConstants DEF TrailInit
<1>4. TrailTables
  BY <1>1, <1>2, <1>3 DEF TrailTables
<1>5. /\ \A w \in Writers : writer[w] = NoWrite
      /\ \A p \in Purges : purge[p] = NoPurge
  BY DEF TrailInit
<1>6. /\ \A w \in Writers : WriteShape(w)
      /\ \A p \in Purges : PurgeShape(p)
  BY <1>5, NothingTyped DEF WriteShape, PurgeShape
<1>7. appended \in Nat /\ erased \in Nat /\ reported \in Nat
  BY DEF TrailInit
<1>8. TrailTypeOK
  BY <1>1, <1>2, <1>3, <1>5, <1>7, NothingTyped, TrailConstants
     DEF TrailTypeOK, Write, PurgeState
<1> QED BY <1>2, <1>4, <1>6, <1>8 DEF TrailInv, TrailAgrees

(* A step that leaves the rows, the changes and the clock alone keeps what  *)
(* the trail says.                                                          *)
LEMMA AgreesKept ==
  ASSUME TrailInv, UNCHANGED <<trail, changes, clock>>
  PROVE  TrailAgrees'
BY DEF TrailInv, TrailAgrees

LEMMA LoadStep ==
  ASSUME TrailInv, NEW w \in Writers, NEW action \in {"add", "edit", "delete"},
         NEW actor \in Actors, NEW i \in Items, NEW owner \in Actors,
         LoadItem(w, action, actor, i, owner)
  PROVE  TrailInv'
<1> DEFINE x == [action |-> action, actor |-> actor, item |-> i, owner |-> owner]
<1>1. /\ writer' = [writer EXCEPT ![w] = x]
      /\ UNCHANGED <<item, trail, purge, clock, changes, appended, erased, reported, cut>>
  BY DEF LoadItem
<1>2. x \in Write /\ x.action = action /\ x.actor = actor /\ x.item = i /\ x.owner = owner
  BY DEF Write
<1> HIDE DEF x
<1>3. /\ writer' \in [Writers -> Write] /\ writer'[w] = x
      /\ \A v \in Writers : v # w => writer'[v] = writer[v]
  BY <1>1, <1>2 DEF TrailInv, TrailTables
<1>4. \A v \in Writers : WriteShape(v)'
  BY <1>2, <1>3 DEF TrailInv, WriteShape
<1>5. \A v \in Writers : writer'[v].action \in {"none", "add", "edit", "delete"}
  BY <1>3 DEF Write
<1>6. TrailTypeOK'
  BY <1>1, <1>5 DEF TrailInv, TrailTypeOK
<1>7. TrailTables'
  BY <1>1, <1>3 DEF TrailInv, TrailTables
<1>8. \A p \in Purges : PurgeShape(p)'
  BY <1>1 DEF TrailInv, PurgeShape
<1> QED BY <1>1, <1>4, <1>6, <1>7, <1>8, AgreesKept DEF TrailInv

(* A row appended at the clock's time joins the trail.                      *)
LEMMA RowTyped ==
  ASSUME TrailInv,
         NEW e \in [action : {"add", "edit", "delete", "purge"}, actor : Actors \cup {"none"},
                    item : Items \cup {"none"}, owner : Actors \cup {"none"}]
  PROVE  /\ Row(e) \in TrailRow /\ Row(e).entry = e /\ Row(e).at = clock
         /\ Row(e).n = appended + 1
         /\ IsFiniteSet(trail \cup {Row(e)})
<1>1. appended \in Nat /\ clock \in Nat /\ IsFiniteSet(trail)
  BY DEF TrailInv, TrailTypeOK, TrailTables
<1>2. Row(e) \in TrailRow /\ Row(e).entry = e /\ Row(e).at = clock /\ Row(e).n = appended + 1
  BY <1>1 DEF Row, TrailRow
<1> QED BY <1>1, <1>2, FS_AddElement

(* The change and its row: a cross-owner change is recorded with it, and    *)
(* the row of an add or an edit has its change.                             *)
LEMMA CommitStep ==
  ASSUME TrailInv, NEW w \in Writers, CommitChange(w)
  PROVE  TrailInv'
<1> DEFINE q == writer[w]
           e == Entry(q, q.owner)
<1>1. /\ q # NoWrite /\ writer' = [writer EXCEPT ![w] = NoWrite]
      /\ UNCHANGED <<purge, clock, erased, reported, cut>>
  BY DEF CommitChange
<1>2. /\ q.action \in {"add", "edit", "delete"} /\ q.actor \in Actors
      /\ q.item \in Items /\ q.owner \in Actors
  BY <1>1 DEF TrailInv, WriteShape
<1>3. /\ e \in [action : {"add", "edit", "delete", "purge"}, actor : Actors \cup {"none"},
                item : Items \cup {"none"}, owner : Actors \cup {"none"}]
      /\ e.action = q.action
  BY <1>2 DEF Entry
<1> HIDE DEF e
<1>4. /\ writer' \in [Writers -> Write] /\ writer'[w] = NoWrite
      /\ \A v \in Writers : v # w => writer'[v] = writer[v]
  BY <1>1, NothingTyped DEF TrailInv, TrailTables
<1>5. \A v \in Writers : WriteShape(v)'
  BY <1>4 DEF TrailInv, WriteShape
<1>6. \A v \in Writers : writer'[v].action \in {"none", "add", "edit", "delete"}
  BY <1>4 DEF Write
<1>7. \A p \in Purges : PurgeShape(p)'
  BY <1>1 DEF TrailInv, PurgeShape
<1>8. CASE ~ Applies(w)
  <2>1. UNCHANGED <<item, trail, changes, appended>>
    BY <1>8 DEF CommitChange
  <2>2. TrailTypeOK'
    BY <1>1, <1>6, <2>1 DEF TrailInv, TrailTypeOK
  <2>3. TrailTables'
    BY <1>1, <1>4, <2>1 DEF TrailInv, TrailTables
  <2> QED BY <1>1, <1>5, <1>7, <2>1, <2>2, <2>3, AgreesKept DEF TrailInv
<1>9. CASE Applies(w)
  <2> DEFINE x == [owner |-> q.owner, live |-> q.action # "delete"]
  <2>1. /\ item' = [item EXCEPT ![q.item] = x]
        /\ trail' = IF Recorded(w) THEN trail \cup {Row(e)} ELSE trail
        /\ appended' = IF Recorded(w) THEN appended + 1 ELSE appended
        /\ changes' = IF CrossOwner(w) THEN changes \cup {[at |-> clock, entry |-> e]}
                                       ELSE changes
    BY <1>9 DEF CommitChange, e
  <2>2. x \in [owner : Actors \cup {"none"}, live : BOOLEAN]
    BY <1>2
  <2> HIDE DEF x
  <2>3. /\ item' \in [Items -> [owner : Actors \cup {"none"}, live : BOOLEAN]]
    BY <1>2, <2>1, <2>2 DEF TrailInv, TrailTables
  <2>4. /\ Row(e) \in TrailRow /\ Row(e).entry = e /\ Row(e).at = clock
        /\ Row(e).n = appended + 1 /\ IsFiniteSet(trail \cup {Row(e)})
    BY <1>3, RowTyped
  <2>5. /\ trail' \subseteq TrailRow /\ IsFiniteSet(trail') /\ trail \subseteq trail'
    BY <2>1, <2>4 DEF TrailInv, TrailTables
  <2>6. appended \in Nat /\ clock \in 0 .. ClockMax /\ ClockMax \in Nat
    BY TrailConstants DEF TrailInv, TrailTypeOK
  <2>7. /\ appended' \in Nat
        /\ \A t \in trail' : t.n \in 1 .. appended' /\ t.at \in 0 .. clock
    BY <2>1, <2>4, <2>6 DEF TrailInv, TrailTypeOK
  <2>8. \A c \in changes' : c.at \in Nat /\ c.at <= clock
    BY <2>1, <2>6 DEF TrailInv, TrailTables
  <2>9. TrailTypeOK'
    <3>1. \A i \in Items : item'[i].owner \in Actors \cup {"none"} /\ item'[i].live \in BOOLEAN
      BY <2>3
    <3> QED BY <1>1, <1>6, <2>5, <2>7, <3>1 DEF TrailInv, TrailTypeOK
  <2>10. TrailTables'
    BY <1>1, <1>4, <2>3, <2>5, <2>8 DEF TrailInv, TrailTables
  <2>11. TrailAgrees'
    <3>1. CrossOwner(w) => Recorded(w)
      BY DEF CrossOwner, Recorded
    <3>2. Recorded(w) /\ q.action \in {"add", "edit"} => CrossOwner(w)
      BY DEF CrossOwner, Recorded
    <3>3. ASSUME NEW c \in changes'
          PROVE  \/ \E t \in trail' : t.at = c.at /\ t.entry = c.entry
                 \/ clock' - c.at > Floor
      <4>1. CASE c \in changes
        BY <1>1, <2>5, <4>1 DEF TrailInv, TrailAgrees
      <4>2. CASE c \notin changes
        <5>1. CrossOwner(w) /\ c = [at |-> clock, entry |-> e]
          BY <2>1, <3>3, <4>2
        <5> QED BY <2>1, <2>4, <3>1, <5>1
      <4> QED BY <4>1, <4>2
    <3>4. ASSUME NEW t \in trail', t.entry.action \in {"add", "edit"}
          PROVE  \E c \in changes' : c.at = t.at /\ c.entry = t.entry
      <4>1. CASE t \in trail
        BY <2>1, <3>4, <4>1 DEF TrailInv, TrailAgrees
      <4>2. CASE t \notin trail
        <5>1. Recorded(w) /\ t = Row(e)
          BY <2>1, <3>4, <4>2
        <5>2. [at |-> clock, entry |-> e] \in changes'
          BY <1>3, <2>1, <2>4, <3>2, <3>4, <5>1
        <5>3. [at |-> clock, entry |-> e].at = t.at /\ [at |-> clock, entry |-> e].entry = t.entry
          BY <2>4, <5>1
        <5> QED BY <5>2, <5>3, Zenon
      <4> QED BY <4>1, <4>2
    <3> QED BY <3>3, <3>4 DEF TrailAgrees
  <2> QED BY <1>5, <1>7, <2>9, <2>10, <2>11 DEF TrailInv
<1> QED BY <1>8, <1>9

LEMMA TickStep ==
  ASSUME TrailInv, Tick
  PROVE  TrailInv'
<1>1. /\ clock' = clock + 1 /\ clock \in 0 .. ClockMax /\ clock < ClockMax /\ ClockMax \in Nat
      /\ UNCHANGED <<item, trail, writer, purge, changes, appended, erased, reported, cut>>
      /\ Floor \in Nat
  BY TrailConstants DEF Tick, TrailInv, TrailTypeOK
<1>2. TrailTypeOK'
  BY <1>1 DEF TrailInv, TrailTypeOK
<1>3. TrailTables'
  BY <1>1 DEF TrailInv, TrailTables
<1>4. \A p \in Purges : PurgeShape(p)'
  <2>1. \A p \in Purges : purge[p].horizon \in Int
    BY DEF TrailInv, TrailTables, PurgeState
  <2> QED BY <1>1, <2>1 DEF TrailInv, PurgeShape
<1>5. TrailAgrees'
  <2>1. \A c \in changes : c.at \in Nat
    BY DEF TrailInv, TrailTables
  <2>2. \A c \in changes : clock - c.at > Floor => clock' - c.at > Floor
    BY <1>1, <2>1
  <2> QED BY <1>1, <2>2 DEF TrailInv, TrailAgrees
<1> QED BY <1>1, <1>2, <1>3, <1>4, <1>5 DEF TrailInv, WriteShape

(* What a step of purge p has to keep.                                      *)
PurgeKeeps(p) ==
    /\ purge' \in [Purges -> PurgeState]
    /\ \A q \in Purges : q # p => purge'[q] = purge[q]
    /\ UNCHANGED <<item, writer, clock, changes>>
    /\ trail' \subseteq TrailRow /\ IsFiniteSet(trail')
    /\ \A t \in trail' : t.n \in 1 .. appended' /\ t.at \in 0 .. clock
    /\ appended' \in Nat /\ erased' \in Nat /\ reported' \in Nat
    /\ cut' \in [purges : 0 .. CutMax, rows : Nat]
    /\ purge'[p].pc # "idle" => purge'[p].horizon + Floor <= clock
    /\ purge'[p].claimed # {} => purge'[p].pc # "idle"
    /\ \A t \in purge'[p].claimed : t.at < purge'[p].horizon
    /\ purge'[p].claimed \subseteq trail'
    /\ \A q \in Purges \ {p} : /\ purge[q].claimed \subseteq trail'
                               /\ purge'[p].claimed \cap purge[q].claimed = {}
    /\ TrailAgrees'

LEMMA PurgeChanged ==
  ASSUME TrailInv, NEW p \in Purges, PurgeKeeps(p)
  PROVE  TrailInv'
<1>1. \A q \in Purges : PurgeShape(q)'
  <2>1. PurgeShape(p)'
    BY DEF PurgeShape, PurgeKeeps
  <2>2. \A q \in Purges : q # p => PurgeShape(q)'
    BY DEF TrailInv, PurgeShape, PurgeKeeps
  <2> QED BY <2>1, <2>2
<1>2. \A q \in Purges :
        /\ purge'[q].pc \in {"idle", "claim", "delete", "record"}
        /\ purge'[q].claimed \subseteq trail'
  BY DEF PurgeState, PurgeKeeps
<1>3. \A q, o \in Purges : o # q => purge'[q].claimed \cap purge'[o].claimed = {}
  <2>1. \A q, o \in Purges : o # q => purge[q].claimed \cap purge[o].claimed = {}
    BY DEF TrailInv, TrailTypeOK
  <2> QED BY <2>1 DEF PurgeKeeps
<1>4. TrailTypeOK'
  <2>1. cut'.purges \in 0 .. CutMax /\ cut'.rows \in Nat
    BY DEF PurgeKeeps
  <2>2. \A q \in Purges : \A o \in Purges \ {q} : purge'[q].claimed \cap purge'[o].claimed = {}
    BY <1>3
  <2> QED BY <1>2, <2>1, <2>2 DEF TrailInv, TrailTypeOK, PurgeKeeps
<1>5. TrailTables'
  BY DEF TrailInv, TrailTables, PurgeKeeps
<1> QED BY <1>1, <1>4, <1>5 DEF TrailInv, WriteShape, PurgeKeeps

(* A purge that ends or starts holds no rows.                               *)
LEMMA PurgeFacts ==
  ASSUME TrailInv, NEW p \in Purges
  PROVE  /\ purge[p] \in PurgeState /\ purge[p].claimed \subseteq trail
         /\ \A q \in Purges \ {p} : /\ purge[q].claimed \subseteq trail
                                    /\ purge[p].claimed \cap purge[q].claimed = {}
         /\ PurgeShape(p)
         /\ trail \subseteq TrailRow /\ IsFiniteSet(trail)
         /\ \A t \in trail : t.n \in 1 .. appended /\ t.at \in 0 .. clock
         /\ appended \in Nat /\ erased \in Nat /\ reported \in Nat /\ clock \in Nat
         /\ cut \in [purges : 0 .. CutMax, rows : Nat]
BY DEF TrailInv, TrailTypeOK, TrailTables

LEMMA StartPurgeStep ==
  ASSUME TrailInv, NEW p \in Purges, NEW window \in Windows, StartPurge(p, window)
  PROVE  TrailInv'
<1>1. /\ purge' = [purge EXCEPT ![p] = [NoPurge EXCEPT !.pc = "claim", !.horizon = clock - window]]
      /\ UNCHANGED <<item, trail, writer, clock, changes, appended, erased, reported, cut>>
      /\ window >= Floor /\ purge \in [Purges -> PurgeState]
  BY DEF StartPurge, FloorAllows, TrailInv, TrailTables
<1>2. /\ window \in Nat /\ Floor \in Nat /\ clock \in Nat
  BY TrailConstants, PurgeFacts
<1>3. /\ purge' \in [Purges -> PurgeState]
      /\ \A q \in Purges : q # p => purge'[q] = purge[q]
      /\ purge'[p].horizon = clock - window /\ purge'[p].claimed = {}
  <2> DEFINE h == clock - window
             y == [NoPurge EXCEPT !.pc = "claim", !.horizon = h]
  <2>1. h \in Int
    BY <1>2
  <2> HIDE DEF h
  <2>2. y \in PurgeState /\ y.horizon = h /\ y.claimed = {}
    BY <2>1, NothingTyped DEF PurgeState
  <2>3. purge' = [purge EXCEPT ![p] = y]
    BY <1>1 DEF h
  <2> HIDE DEF y
  <2>4. /\ purge' \in [Purges -> PurgeState] /\ purge'[p] = y
        /\ \A q \in Purges : q # p => purge'[q] = purge[q]
    BY <1>1, <2>2, <2>3
  <2> QED BY <2>2, <2>4 DEF h
<1>4. TrailAgrees'
  BY <1>1, AgreesKept
<1>5. PurgeKeeps(p)
  BY <1>1, <1>2, <1>3, <1>4, PurgeFacts DEF PurgeKeeps
<1> QED BY <1>5, PurgeChanged

LEMMA ClaimStep ==
  ASSUME TrailInv, NEW p \in Purges, ClaimBatch(p)
  PROVE  TrailInv'
<1>1. /\ purge[p].pc = "claim" /\ purge \in [Purges -> PurgeState]
      /\ UNCHANGED <<item, trail, writer, clock, changes, appended, erased, reported, cut>>
  BY DEF ClaimBatch, TrailInv, TrailTables
<1>2. PICK b \in BatchesOf(Claimable(p)) :
        purge' = [purge EXCEPT ![p].claimed = b,
                               ![p].pc = IF b = {} THEN "record" ELSE "delete"]
  BY DEF ClaimBatch
<1>3. b \subseteq Claimable(p)
  BY DEF BatchesOf, kSubset
<1>4. /\ b \subseteq trail /\ \A t \in b : t.at < purge[p].horizon
      /\ \A q \in Purges : b \cap purge[q].claimed = {}
  BY <1>3 DEF Claimable, Older
<1>5. purge[p] \in PurgeState /\ purge[p].horizon + Floor <= clock /\ b \subseteq TrailRow
  BY <1>1, <1>4, PurgeFacts DEF PurgeShape
<1>6. /\ purge' \in [Purges -> PurgeState]
      /\ \A q \in Purges : q # p => purge'[q] = purge[q]
      /\ purge'[p].horizon = purge[p].horizon /\ purge'[p].claimed = b
      /\ purge'[p].pc \in {"record", "delete"}
  BY <1>1, <1>2, <1>5 DEF PurgeState
<1>7. TrailAgrees'
  BY <1>1, AgreesKept
<1>8. PurgeKeeps(p)
  BY <1>1, <1>4, <1>5, <1>6, <1>7, PurgeFacts DEF PurgeKeeps
<1> QED BY <1>8, PurgeChanged

(* Only rows older than the retention floor are deleted.                    *)
LEMMA DeleteStep ==
  ASSUME TrailInv, NEW p \in Purges, DeleteBatch(p)
  PROVE  TrailInv'
<1> DEFINE b == purge[p].claimed
           pc == IF Cardinality(b) < AuditBatch THEN "record" ELSE "claim"
           removed == purge[p].removed + Cardinality(b)
<1>1. /\ purge[p].pc = "delete" /\ trail' = trail \ b /\ purge \in [Purges -> PurgeState]
      /\ erased' = erased + Cardinality(b \cap trail)
      /\ purge' = [purge EXCEPT ![p].claimed = {}, ![p].removed = removed, ![p].pc = pc]
      /\ UNCHANGED <<item, writer, clock, changes, appended, reported, cut>>
  BY DEF DeleteBatch, TrailInv, TrailTables
<1>2. /\ purge[p] \in PurgeState /\ b \subseteq trail
      /\ purge[p].horizon + Floor <= clock /\ \A t \in b : t.at < purge[p].horizon
      /\ \A q \in Purges \ {p} : purge[q].claimed \subseteq trail /\ b \cap purge[q].claimed = {}
  BY <1>1, PurgeFacts DEF PurgeShape
<1>3. /\ IsFiniteSet(trail \ b) /\ Cardinality(b) \in Nat /\ Cardinality(b \cap trail) \in Nat
  <2>1. IsFiniteSet(trail)
    BY PurgeFacts
  <2>2. IsFiniteSet(trail \ b) /\ IsFiniteSet(b) /\ IsFiniteSet(b \cap trail)
    BY <1>2, <2>1, FS_Subset
  <2> QED BY <2>2, FS_CardinalityType
<1>4. purge[p].removed \in Nat /\ purge[p].horizon \in Int
  BY <1>2 DEF PurgeState
<1> HIDE DEF b
<1>5. removed \in Nat /\ pc \in {"record", "claim"}
  BY <1>3, <1>4
<1> HIDE DEF removed, pc
<1>6. /\ purge' \in [Purges -> PurgeState]
      /\ \A q \in Purges : q # p => purge'[q] = purge[q]
      /\ purge'[p].horizon = purge[p].horizon /\ purge'[p].claimed = {}
  BY <1>1, <1>2, <1>5 DEF PurgeState
<1>7. /\ trail' \subseteq TrailRow /\ IsFiniteSet(trail')
      /\ \A t \in trail' : t.n \in 1 .. appended' /\ t.at \in 0 .. clock
      /\ appended' \in Nat /\ erased' \in Nat /\ reported' \in Nat
      /\ cut' \in [purges : 0 .. CutMax, rows : Nat]
  BY <1>1, <1>3, PurgeFacts
<1>8. TrailAgrees'
  <2>1. ASSUME NEW c \in changes
        PROVE  \/ \E t \in trail' : t.at = c.at /\ t.entry = c.entry
               \/ clock - c.at > Floor
    <3>1. CASE \E t \in trail : t.at = c.at /\ t.entry = c.entry /\ t \in b
      <4>1. PICK t \in b : t.at = c.at
        BY <3>1
      <4>2. c.at < purge[p].horizon /\ c.at \in Nat /\ clock \in Nat /\ Floor \in Nat
        BY <1>2, <2>1, <4>1, TrailConstants, PurgeFacts DEF TrailInv, TrailTables
      <4> QED BY <1>2, <1>4, <4>2
    <3> QED BY <1>1, <2>1, <3>1 DEF TrailInv, TrailAgrees
  <2> QED BY <1>1, <2>1 DEF TrailInv, TrailAgrees
<1>9. \A q \in Purges \ {p} : purge[q].claimed \subseteq trail'
  BY <1>1, <1>2
<1>10. PurgeKeeps(p)
  BY <1>1, <1>2, <1>6, <1>7, <1>8, <1>9 DEF PurgeKeeps
<1> QED BY <1>10, PurgeChanged

LEMMA RecordStep ==
  ASSUME TrailInv, NEW p \in Purges, RecordPurge(p)
  PROVE  TrailInv'
<1>1. /\ trail' = trail \cup {Row(PurgeEntry)} /\ appended' = appended + 1
      /\ reported' = reported + purge[p].removed
      /\ purge' = [purge EXCEPT ![p] = NoPurge] /\ purge \in [Purges -> PurgeState]
      /\ UNCHANGED <<item, writer, clock, changes, erased, cut>>
  BY DEF RecordPurge, TrailInv, TrailTables
<1>2. /\ PurgeEntry \in [action : {"add", "edit", "delete", "purge"}, actor : Actors \cup {"none"},
                         item : Items \cup {"none"}, owner : Actors \cup {"none"}]
      /\ PurgeEntry.action = "purge"
  BY DEF PurgeEntry
<1>3. /\ Row(PurgeEntry) \in TrailRow /\ Row(PurgeEntry).entry = PurgeEntry
      /\ Row(PurgeEntry).at = clock /\ Row(PurgeEntry).n = appended + 1
      /\ IsFiniteSet(trail \cup {Row(PurgeEntry)})
  BY <1>2, RowTyped
<1>4. purge[p].removed \in Nat
  BY PurgeFacts DEF PurgeState
<1>5. /\ trail' \subseteq TrailRow /\ IsFiniteSet(trail') /\ trail \subseteq trail'
      /\ \A t \in trail' : t.n \in 1 .. appended' /\ t.at \in 0 .. clock
      /\ appended' \in Nat /\ erased' \in Nat /\ reported' \in Nat
      /\ cut' \in [purges : 0 .. CutMax, rows : Nat]
  BY <1>1, <1>3, <1>4, PurgeFacts
<1>6. TrailAgrees'
  BY <1>1, <1>2, <1>3 DEF TrailInv, TrailAgrees
<1>7. \A q \in Purges \ {p} : purge[q].claimed \subseteq trail'
  BY <1>5, PurgeFacts
<1>8. /\ purge' \in [Purges -> PurgeState] /\ purge'[p] = NoPurge
      /\ \A q \in Purges : q # p => purge'[q] = purge[q]
  BY <1>1, NothingTyped
<1>9. PurgeKeeps(p)
  BY <1>1, <1>5, <1>6, <1>7, <1>8, NothingTyped DEF PurgeKeeps
<1> QED BY <1>9, PurgeChanged

LEMMA CutOffPurgeStep ==
  ASSUME TrailInv, NEW p \in Purges, CutOffPurge(p)
  PROVE  TrailInv'
<1>1. /\ cut.purges < CutMax
      /\ cut' = [purges |-> cut.purges + 1, rows |-> cut.rows + purge[p].removed]
      /\ purge' = [purge EXCEPT ![p] = NoPurge] /\ purge \in [Purges -> PurgeState]
      /\ UNCHANGED <<item, trail, writer, clock, changes, appended, erased, reported>>
  BY DEF CutOffPurge, TrailInv, TrailTables
<1>2. purge[p].removed \in Nat /\ cut.rows \in Nat /\ cut.purges \in 0 .. CutMax /\ CutMax \in Nat
  BY PurgeFacts, TrailConstants DEF PurgeState
<1>3. cut' \in [purges : 0 .. CutMax, rows : Nat]
  BY <1>1, <1>2
<1>4. TrailAgrees'
  BY <1>1, AgreesKept
<1>5. /\ purge' \in [Purges -> PurgeState] /\ purge'[p] = NoPurge
      /\ \A q \in Purges : q # p => purge'[q] = purge[q]
  BY <1>1, NothingTyped
<1>6. PurgeKeeps(p)
  BY <1>1, <1>3, <1>4, <1>5, NothingTyped, PurgeFacts DEF PurgeKeeps
<1> QED BY <1>6, PurgeChanged

LEMMA TrailStep ==
  ASSUME TrailInv, [TrailNext]_trailVars
  PROVE  TrailInv'
<1>1. CASE UNCHANGED trailVars
  BY <1>1 DEF trailVars, TrailInv, TrailTypeOK, TrailTables, WriteShape, PurgeShape, TrailAgrees
<1>2. CASE TrailNext
  BY <1>2, LoadStep, CommitStep, TickStep, StartPurgeStep, ClaimStep, DeleteStep, RecordStep,
     CutOffPurgeStep DEF TrailNext
<1> QED BY <1>1, <1>2

(* The accounts of the purges: the rows a purge removed, paired with it,    *)
(* are as many as its counter says, whatever the others removed.            *)
Numbered(f) == UNION {{p} \X (1 .. f[p]) : p \in Purges}

LEMMA NumberedFinite ==
  ASSUME NEW f \in [Purges -> Nat]
  PROVE  IsFiniteSet(Numbered(f))
<1> DEFINE parts == {{p} \X (1 .. f[p]) : p \in Purges}
           g == [p \in Purges |-> {p} \X (1 .. f[p])]
<1>1. g \in Surjection(Purges, parts)
  BY Zenon DEF Surjection
<1>2. IsFiniteSet(parts)
  BY <1>1, FS_Surjection, PurgesAssumption, Zenon DEF PurgesAssumption
<1>3. \A part \in parts : IsFiniteSet(part)
  <2>1. ASSUME NEW p \in Purges PROVE IsFiniteSet({p} \X (1 .. f[p]))
    <3>1. f[p] \in Int /\ 1 \in Int
      OBVIOUS
    <3>2. IsFiniteSet(1 .. f[p])
      BY <3>1, FS_Interval, Zenon
    <3>3. IsFiniteSet({p})
      BY FS_Singleton, Zenon
    <3> QED BY <3>2, <3>3, FS_Product, Zenon
  <2> QED BY <2>1, Zenon
<1> HIDE DEF parts, g
<1>4. IsFiniteSet(UNION parts)
  BY <1>2, <1>3, FS_UNION
<1> QED BY <1>4 DEF Numbered, parts

(* Counting differently for one purge changes the sum by the difference.    *)
LEMMA Recounted ==
  ASSUME NEW f \in [Purges -> Nat], NEW p \in Purges, NEW n \in Nat
  PROVE  LET g == [f EXCEPT ![p] = n]
         IN  /\ Cardinality(Numbered(f)) \in Nat /\ Cardinality(Numbered(g)) \in Nat
             /\ Cardinality(Numbered(g)) + f[p] = Cardinality(Numbered(f)) + n
<1> DEFINE others == {x \in Numbered(f) : x[1] # p}
           g == [f EXCEPT ![p] = n]
<1>1. IsFiniteSet(others)
  <2>1. IsFiniteSet(Numbered(f)) /\ others \in SUBSET Numbered(f)
    BY NumberedFinite
  <2> HIDE DEF others
  <2> QED BY <2>1, FS_Subset
<1>2. ASSUME NEW h \in [Purges -> Nat], \A q \in Purges : q # p => h[q] = f[q]
      PROVE  /\ Cardinality(Numbered(h)) = Cardinality(others) + h[p]
             /\ Cardinality(others) \in Nat
  <2> DEFINE own == {p} \X (1 .. h[p])
  <2>1. Numbered(h) = others \cup own
    <3>1. ASSUME NEW x \in Numbered(h) PROVE x \in others \cup own
      <4>1. PICK q \in Purges : x \in {q} \X (1 .. h[q])
        BY DEF Numbered
      <4>2. CASE q = p
        BY <4>1, <4>2
      <4>3. CASE q # p
        BY <1>2, <4>1, <4>3 DEF Numbered
      <4> QED BY <4>2, <4>3
    <3>2. ASSUME NEW x \in own PROVE x \in Numbered(h)
      BY DEF Numbered
    <3>3. ASSUME NEW x \in others PROVE x \in Numbered(h)
      <4>1. PICK q \in Purges : x \in {q} \X (1 .. f[q])
        BY DEF Numbered
      <4>2. q # p
        BY <4>1
      <4> QED BY <1>2, <4>1, <4>2 DEF Numbered
    <3> QED BY <3>1, <3>2, <3>3
  <2>2. others \cap own = {}
    OBVIOUS
  <2>3. IsFiniteSet(own) /\ Cardinality(own) = h[p]
    <3>1. h[p] \in Nat /\ h[p] \in Int /\ 1 \in Int
      OBVIOUS
    <3>2. /\ IsFiniteSet(1 .. h[p])
          /\ Cardinality(1 .. h[p]) = IF 1 > h[p] THEN 0 ELSE h[p] - 1 + 1
      BY <3>1, FS_Interval, Zenon
    <3>3. Cardinality(1 .. h[p]) = h[p]
      BY <3>1, <3>2
    <3>4. IsFiniteSet({p}) /\ Cardinality({p}) = 1
      BY FS_Singleton, Zenon
    <3>5. IsFiniteSet(own) /\ Cardinality(own) = Cardinality({p}) * Cardinality(1 .. h[p])
      BY <3>2, <3>4, FS_Product, Zenon
    <3> QED BY <3>1, <3>3, <3>4, <3>5
  <2> HIDE DEF others, own
  <2>4. Cardinality(Numbered(h)) = Cardinality(others) + Cardinality(own) - Cardinality({})
    BY <1>1, <2>1, <2>2, <2>3, FS_Union
  <2>5. Cardinality(others) \in Nat /\ Cardinality({}) = 0
    BY <1>1, FS_CardinalityType, FS_EmptySet
  <2> QED BY <2>3, <2>4, <2>5
<1>3. g \in [Purges -> Nat] /\ g[p] = n /\ \A q \in Purges : q # p => g[q] = f[q]
  OBVIOUS
<1>4. Cardinality(Numbered(g)) = Cardinality(others) + n
  BY <1>2, <1>3
<1>5. Cardinality(Numbered(f)) = Cardinality(others) + f[p] /\ Cardinality(others) \in Nat
  BY <1>2
<1> QED BY <1>4, <1>5

(* A purge that is not running has removed nothing.                         *)
Accounts ==
    /\ PurgeAccounted
    /\ \A p \in Purges : purge[p].pc = "idle" => purge[p].removed = 0

Removed == [p \in Purges |-> purge[p].removed]

LEMMA UnreportedNumbered == Unreported = Numbered(Removed)
BY Zenon DEF Unreported, Numbered, Removed

(* What a purge step has to show: its counter and the three sums move       *)
(* together.                                                                *)
LEMMA AccountsMoved ==
  ASSUME TrailInv, Accounts, NEW p \in Purges, NEW n \in Nat, NEW d \in Nat, NEW k \in Nat,
         \A q \in Purges \ {p} : purge'[q] = purge[q],
         purge'[p].removed = n, purge'[p].pc = "idle" => n = 0,
         erased' = erased + d, reported' + cut'.rows = reported + cut.rows + k,
         reported' \in Nat, cut'.rows \in Nat,
         n + k = purge[p].removed + d
  PROVE  Accounts'
<1>1. Removed \in [Purges -> Nat] /\ Removed[p] = purge[p].removed
  BY DEF TrailInv, TrailTables, PurgeState, Removed
<1>2. Removed' = [Removed EXCEPT ![p] = n]
  BY DEF Removed
<1>3. /\ Cardinality(Numbered(Removed)) \in Nat /\ Cardinality(Numbered(Removed')) \in Nat
      /\ Cardinality(Numbered(Removed')) + Removed[p] = Cardinality(Numbered(Removed)) + n
  BY <1>1, <1>2, Recounted
<1>4. Unreported' = Numbered(Removed')
  BY Zenon DEF Unreported, Numbered, Removed
<1>5. erased \in Nat /\ reported \in Nat /\ cut.rows \in Nat /\ purge[p].removed \in Nat
  BY PurgeFacts DEF PurgeState
<1>6. erased = reported + cut.rows + Cardinality(Numbered(Removed))
  BY UnreportedNumbered DEF Accounts, PurgeAccounted
<1>7. erased' = reported' + cut'.rows + Cardinality(Unreported')
  <2>1. \A e, l, c, u, v, x \in Nat :
          e = l + u /\ v + x = u + n /\ c = l + k /\ n + k = x + d => e + d = c + v
    OBVIOUS
  <2>2. erased + d = reported' + cut'.rows + Cardinality(Numbered(Removed'))
    <3> DEFINE l == reported + cut.rows
               c == reported' + cut'.rows
               u == Cardinality(Numbered(Removed))
               v == Cardinality(Numbered(Removed'))
    <3>1. l \in Nat /\ c \in Nat /\ u \in Nat /\ v \in Nat
      BY <1>3, <1>5
    <3>2. erased = l + u /\ v + purge[p].removed = u + n /\ c = l + k
      BY <1>1, <1>3, <1>6
    <3> HIDE DEF l, c, u, v
    <3>3. erased + d = c + v
      BY <1>5, <2>1, <3>1, <3>2
    <3> QED BY <3>3 DEF c, v
  <2> QED BY <1>4, <2>2
<1>8. \A q \in Purges : purge'[q].pc = "idle" => purge'[q].removed = 0
  BY DEF Accounts
<1> QED BY <1>7, <1>8 DEF Accounts, PurgeAccounted

LEMMA InitAccounts == TrailInit => Accounts
<1> SUFFICES ASSUME TrailInit PROVE Accounts
  OBVIOUS
<1>1. \A p \in Purges : purge[p] = NoPurge
  BY DEF TrailInit
<1>2. \A p \in Purges : purge[p].removed = 0
  BY <1>1 DEF NoPurge
<1>3. Unreported = {}
  <2>1. \A p \in Purges : 1 .. purge[p].removed = {}
    BY <1>2
  <2> QED BY <2>1 DEF Unreported
<1>4. erased = 0 /\ reported = 0 /\ cut.rows = 0
  BY DEF TrailInit
<1> QED BY <1>2, <1>3, <1>4, FS_EmptySet DEF Accounts, PurgeAccounted

LEMMA AccountsStep ==
  ASSUME TrailInv, Accounts, [TrailNext]_trailVars
  PROVE  Accounts'
<1>1. CASE UNCHANGED <<purge, erased, reported, cut>>
  BY <1>1 DEF Accounts, PurgeAccounted, Unreported
<1>2. ASSUME NEW p \in Purges, NEW window \in Windows, StartPurge(p, window)
      PROVE  Accounts'
  <2>1. /\ purge[p].pc = "idle" /\ UNCHANGED <<erased, reported, cut>>
        /\ purge' = [purge EXCEPT ![p] =
                        [NoPurge EXCEPT !.pc = "claim", !.horizon = clock - window]]
    BY <1>2 DEF StartPurge
  <2>2. purge \in [Purges -> PurgeState] /\ reported \in Nat /\ cut.rows \in Nat
    BY PurgeFacts DEF TrailInv, TrailTables
  <2>3. /\ purge'[p].removed = 0 /\ purge[p].removed = 0
        /\ \A q \in Purges \ {p} : purge'[q] = purge[q]
    BY <2>1, <2>2 DEF NoPurge, Accounts
  <2>4. erased \in Nat
    BY PurgeFacts
  <2>5. /\ erased' = erased + 0 /\ reported' + cut'.rows = reported + cut.rows + 0
        /\ reported' \in Nat /\ cut'.rows \in Nat
    BY <2>1, <2>2, <2>4
  <2> QED BY <2>3, <2>5, AccountsMoved
<1>3. ASSUME NEW p \in Purges, ClaimBatch(p) PROVE Accounts'
  <2>1. PICK b \in BatchesOf(Claimable(p)) :
          purge' = [purge EXCEPT ![p].claimed = b,
                                 ![p].pc = IF b = {} THEN "record" ELSE "delete"]
    BY <1>3 DEF ClaimBatch
  <2>2. /\ purge \in [Purges -> PurgeState] /\ purge[p] \in PurgeState
        /\ UNCHANGED <<erased, reported, cut>>
    BY <1>3 DEF ClaimBatch, TrailInv, TrailTables
  <2>3. /\ purge'[p].removed = purge[p].removed /\ purge'[p].pc # "idle"
        /\ \A q \in Purges \ {p} : purge'[q] = purge[q]
    BY <2>1, <2>2 DEF PurgeState
  <2>4. erased \in Nat /\ reported \in Nat /\ cut.rows \in Nat /\ purge[p].removed \in Nat
    BY PurgeFacts DEF PurgeState
  <2>5. /\ erased' = erased + 0 /\ reported' + cut'.rows = reported + cut.rows + 0
        /\ reported' \in Nat /\ cut'.rows \in Nat
    BY <2>2, <2>4
  <2> QED BY <2>3, <2>4, <2>5, AccountsMoved
<1>4. ASSUME NEW p \in Purges, DeleteBatch(p) PROVE Accounts'
  <2> DEFINE b == purge[p].claimed
             d == Cardinality(b)
             pc == IF Cardinality(b) < AuditBatch THEN "record" ELSE "claim"
  <2>1. b \subseteq trail /\ IsFiniteSet(trail) /\ purge[p] \in PurgeState
    BY PurgeFacts
  <2>2. b \cap trail = b /\ d \in Nat
    BY <2>1, FS_Subset, FS_CardinalityType
  <2>3. /\ erased' = erased + d /\ UNCHANGED <<reported, cut>>
        /\ purge' = [purge EXCEPT ![p].claimed = {}, ![p].removed = @ + d, ![p].pc = pc]
    BY <1>4, <2>2 DEF DeleteBatch
  <2>4. purge \in [Purges -> PurgeState] /\ pc \in {"record", "claim"}
    BY DEF TrailInv, TrailTables
  <2>5. erased \in Nat /\ reported \in Nat /\ cut.rows \in Nat /\ purge[p].removed \in Nat
    BY PurgeFacts DEF PurgeState
  <2> HIDE DEF b, d, pc
  <2>6. /\ purge'[p].removed = purge[p].removed + d /\ purge'[p].pc # "idle"
        /\ \A q \in Purges \ {p} : purge'[q] = purge[q]
    BY <2>1, <2>3, <2>4 DEF PurgeState
  <2>7. /\ reported' + cut'.rows = reported + cut.rows + 0
        /\ reported' \in Nat /\ cut'.rows \in Nat
    BY <2>3, <2>5
  <2>8. purge[p].removed + d \in Nat /\ (purge[p].removed + d) + 0 = purge[p].removed + d
    BY <2>2, <2>5
  <2> QED BY <2>2, <2>3, <2>6, <2>7, <2>8, AccountsMoved
<1>5. ASSUME NEW p \in Purges, RecordPurge(p) \/ CutOffPurge(p) PROVE Accounts'
  <2>1. /\ purge' = [purge EXCEPT ![p] = NoPurge] /\ erased' = erased
        /\ \/ reported' = reported + purge[p].removed /\ cut'.rows = cut.rows
           \/ reported' = reported /\ cut'.rows = cut.rows + purge[p].removed
    BY <1>5 DEF RecordPurge, CutOffPurge
  <2>2. /\ purge'[p].removed = 0
        /\ \A q \in Purges \ {p} : purge'[q] = purge[q]
    BY <2>1 DEF NoPurge, TrailInv, TrailTables
  <2>3. erased \in Nat /\ reported \in Nat /\ cut.rows \in Nat /\ purge[p].removed \in Nat
    BY PurgeFacts DEF PurgeState
  <2>4. /\ erased' = erased + 0
        /\ reported' + cut'.rows = reported + cut.rows + purge[p].removed
        /\ reported' \in Nat /\ cut'.rows \in Nat
        /\ 0 + purge[p].removed = purge[p].removed + 0
    BY <2>1, <2>3
  <2> QED BY <2>2, <2>3, <2>4, AccountsMoved
<1> QED BY <1>1, <1>2, <1>3, <1>4, <1>5 DEF TrailNext, trailVars, LoadItem, CommitChange, Tick

-----------------------------------------------------------------------------
(* The credentials *)

LEMMA CredentialConstants ==
  /\ TokenLife \in Nat \ {0} /\ CacheLife \in Nat \ {0} /\ ServiceLife \in Nat \ {0}
  /\ KeyMax \in Nat \ {0} /\ NowMax \in Nat \ {0}
BY CredentialsAssumption DEF CredentialsAssumption

(* A configuration, by its parts.                                           *)
LEMMA ConfigFacts ==
  ASSUME NEW c \in Config
  PROVE  /\ c.key \in Keys /\ c.old \in Keys \cup {NoKey} /\ c.label \in Keys \cup {Derived}
         /\ c.clients \subseteq Clients /\ c.scopes \in [Clients -> SUBSET Scopes]
         /\ Kid(c) \in Keys /\ c.key # NoKey
         /\ c.label \in {c.key, Derived} => Kid(c) = c.key
BY DEF Config, Keys, NoKey, Derived, Kid

(* The keys the issuer accepts: the current one, and the old one while the  *)
(* window is open.                                                          *)
LEMMA AcceptedFacts ==
  ASSUME issuer.config \in Config
  PROVE  /\ AcceptedKeys = {issuer.config.key} \cup ({issuer.config.old} \ {NoKey})
         /\ Published \subseteq [kid : Keys, key : Keys]
         /\ \A r \in Published : r.key \in AcceptedKeys
         /\ issuer.config.label \in {issuer.config.key, Derived} =>
              /\ \A r \in Published : r.kid = r.key
              /\ \A k \in AcceptedKeys : \E r \in Published : r.kid = k /\ r.key = k
<1> DEFINE c == issuer.config
           one == [kid |-> Kid(c), key |-> c.key]
           two == [kid |-> c.old, key |-> c.old]
<1>1. /\ c.key \in Keys /\ c.old \in Keys \cup {NoKey} /\ Kid(c) \in Keys
      /\ c.label \in {c.key, Derived} => Kid(c) = c.key
  BY ConfigFacts
<1>2. /\ Published = {one} \cup (IF c.old = NoKey THEN {} ELSE {two})
  BY DEF Published, CurrentOnly
<1>3. one.kid = Kid(c) /\ one.key = c.key /\ two.kid = c.old /\ two.key = c.old
  OBVIOUS
<1>4. one \in [kid : Keys, key : Keys] /\ (c.old # NoKey => two \in [kid : Keys, key : Keys])
  BY <1>1
<1> HIDE DEF one, two
<1>5. AcceptedKeys = {c.key} \cup ({c.old} \ {NoKey})
  BY <1>2, <1>3 DEF AcceptedKeys
<1> QED BY <1>1, <1>2, <1>3, <1>4, <1>5

LEMMA InitCredentials == CredentialsInit => CredentialsInv
<1> SUFFICES ASSUME CredentialsInit PROVE CredentialsInv
  OBVIOUS
<1>1. 1 \in Keys /\ 0 \in 0 .. NowMax /\ 0 \in 0 .. 0
  BY CredentialConstants DEF Keys
<1>2. config \in Config
  <2> DEFINE L == IF replacing = "access" THEN {1, Derived} ELSE {Derived}
  <2>1. {1} \subseteq Keys /\ {NoKey} \subseteq Keys \cup {NoKey}
        /\ L \subseteq Keys \cup {Derived} /\ {Clients} \subseteq SUBSET Clients
        /\ [Clients -> {Scopes}] \subseteq [Clients -> SUBSET Scopes]
    BY <1>1
  <2>2. config \in [key : {1}, old : {NoKey}, label : L, clients : {Clients},
                    scopes : [Clients -> {Scopes}]]
    BY DEF CredentialsInit
  <2> HIDE DEF L
  <2> QED BY <2>1, <2>2, Zenon DEF Config
<1>3. /\ issuer = [config |-> config, up |-> TRUE] /\ token = {} /\ pass = {} /\ stream = {}
      /\ cache = [c \in Consumers |-> [keys |-> {}, at |-> 0]]
      /\ now = 0 /\ since = 0 /\ leaked = {}
      /\ dropped = [k \in Keys |-> 0]
      /\ taken = [c \in Clients |-> [s \in Scopes |-> 0]]
      /\ replacing \in {"access", "refresh", "consumers"}
  BY DEF CredentialsInit
<1>4. issuer \in [config : Config, up : BOOLEAN] /\ issuer.config = config
  BY <1>2, <1>3
<1>5. cache \in [Consumers -> [keys : SUBSET [kid : Keys, key : Keys], at : Nat]]
      /\ \A c \in Consumers : cache[c].keys = {} /\ cache[c].at = 0
  BY <1>3
<1>6. CredentialTables
  BY <1>1, <1>2, <1>3, <1>4, <1>5 DEF CredentialTables, CredentialsTypeOK
<1>7. KeysKept /\ Withdrawn /\ StreamsRecent
  BY <1>3, <1>4, <1>5 DEF KeysKept, Withdrawn, StreamsRecent
<1>8. config.key = 1 /\ config.label \in {1, Derived}
  BY DEF CredentialsInit
<1>9. LabelsBound
  BY <1>3, <1>4, <1>5, <1>8 DEF LabelsBound
<1> QED BY <1>3, <1>6, <1>7, <1>9 DEF CredentialsInv

LEMMA CredentialFacts ==
  ASSUME CredentialsInv
  PROVE  /\ config \in Config /\ issuer \in [config : Config, up : BOOLEAN]
         /\ token \subseteq Token /\ pass \subseteq Pass /\ stream \subseteq Stream
         /\ cache \in [Consumers -> [keys : SUBSET [kid : Keys, key : Keys], at : Nat]]
         /\ replacing \in {"access", "refresh", "consumers"}
         /\ now \in 0 .. NowMax /\ NowMax \in Nat /\ since \in 0 .. now
         /\ leaked \subseteq Keys
         /\ dropped \in [Keys -> 0 .. now] /\ taken \in [Clients -> [Scopes -> 0 .. now]]
         /\ \A t \in token : t.kid \in Keys /\ t.key \in Keys /\ now - t.at \in 0 .. TokenLife
         /\ \A p \in pass : p.client \in Clients /\ p.scopes \subseteq Scopes /\ p.at \in 0 .. now
         /\ \A e \in stream : e.client \in Clients /\ e.at \in 0 .. now
         /\ \A c \in Consumers : cache[c].at \in 0 .. now
BY CredentialConstants DEF CredentialsInv, CredentialTables, CredentialsTypeOK

(* The operator writes a configuration that keeps every key in use, unless  *)
(* it leaked.                                                               *)
LEMMA WrittenStep ==
  ASSUME CredentialsInv, NEW next \in Config, Written(next),
         leaked' \subseteq Keys, leaked \subseteq leaked',
         issuer.config.key \in leaked' \cup {next.key, next.old},
         \A t \in token : t.key \in leaked' \cup {next.key, next.old}
  PROVE  CredentialsInv'
<1>1. /\ config' = next
      /\ UNCHANGED <<replacing, issuer, token, pass, stream, cache, now, since, dropped, taken>>
  BY DEF Written
<1>2. CredentialTables'
  BY <1>1 DEF CredentialsInv, CredentialTables, CredentialsTypeOK
<1>3. KeysKept'
  BY <1>1 DEF CredentialsInv, KeysKept
<1>4. LabelsBound'
  BY <1>1 DEF CredentialsInv, LabelsBound
<1>5. Withdrawn'
  BY <1>1 DEF CredentialsInv, Withdrawn, AcceptedKeys, Published, CurrentOnly
<1>6. StreamsRecent'
  BY <1>1 DEF CredentialsInv, StreamsRecent
<1> QED BY <1>1, <1>2, <1>3, <1>4, <1>5, <1>6 DEF CredentialsInv

(* A new key takes the place of the current one, which is kept as the old   *)
(* one or has leaked.                                                       *)
LEMMA NewKeyStep ==
  ASSUME CredentialsInv, Rotate \/ RotateByHand \/ CutOver
  PROVE  CredentialsInv'
<1>1. /\ config \in Config /\ config.key \in Keys /\ Fresh \in Keys /\ config.old = NoKey
  <2>1. OneKey /\ config \in Config
    BY CredentialFacts DEF Rotate, RotateByHand, CutOver
  <2>2. config.key \in 1 .. KeyMax /\ config.key < KeyMax /\ config.old = NoKey
    BY <2>1 DEF OneKey, Config, Keys
  <2>3. KeyMax \in Nat
    BY CredentialConstants
  <2> QED BY <2>1, <2>2, <2>3 DEF Fresh, Keys
<1>2. leaked \subseteq Keys
  BY CredentialFacts
<1>3. /\ issuer.config.key \in leaked \cup {config.key, NoKey}
      /\ \A t \in token : t.key \in leaked \cup {config.key, NoKey}
  BY <1>1 DEF CredentialsInv, KeysKept
<1>4. issuer.config.key # NoKey /\ \A t \in token : t.key # NoKey
  BY CredentialFacts, ConfigFacts DEF Keys, NoKey
<1>5. ASSUME NEW f \in Keys PROVE f \in Keys \cup {NoKey} /\ f \in Keys \cup {Derived}
  OBVIOUS
<1> DEFINE a == [config EXCEPT !.key = Fresh, !.old = config.key, !.label = Fresh]
           b == [config EXCEPT !.key = Fresh, !.old = config.key]
           d == [config EXCEPT !.key = Fresh, !.label = Fresh]
<1>6. /\ a \in Config /\ a.old = config.key
      /\ b \in Config /\ b.old = config.key
      /\ d \in Config
  <2>1. ASSUME NEW f \in Keys
        PROVE  /\ [config EXCEPT !.key = f, !.old = config.key, !.label = f] \in Config
               /\ [config EXCEPT !.key = f, !.old = config.key, !.label = f].old = config.key
               /\ [config EXCEPT !.key = f, !.old = config.key] \in Config
               /\ [config EXCEPT !.key = f, !.old = config.key].old = config.key
               /\ [config EXCEPT !.key = f, !.label = f] \in Config
    BY <1>1, <1>5 DEF Config
  <2> QED BY <1>1, <2>1
<1>7. CASE Rotate
  <2>1. Written(a) /\ leaked' = leaked
    BY <1>7 DEF Rotate
  <2> HIDE DEF a
  <2> QED BY <1>2, <1>3, <1>4, <1>6, <2>1, WrittenStep
<1>8. CASE RotateByHand
  <2>1. Written(b) /\ leaked' = leaked
    BY <1>8 DEF RotateByHand
  <2> HIDE DEF b
  <2> QED BY <1>2, <1>3, <1>4, <1>6, <2>1, WrittenStep
<1>9. CASE CutOver
  <2>1. Written(d) /\ leaked' = leaked \cup {config.key}
    BY <1>9 DEF CutOver
  <2> HIDE DEF d
  <2>2. leaked' \subseteq Keys /\ leaked \subseteq leaked'
    BY <1>1, <1>2, <2>1
  <2>3. /\ issuer.config.key \in leaked' \cup {d.key, d.old}
        /\ \A t \in token : t.key \in leaked' \cup {d.key, d.old}
    BY <1>3, <1>4, <2>1
  <2> QED BY <1>6, <2>1, <2>2, <2>3, WrittenStep
<1> QED BY <1>7, <1>8, <1>9

(* The other edits of the file: a label, the keys swapped back, the end of  *)
(* the overlap window, a consumer's scopes.                                 *)
LEMMA EditStep ==
  ASSUME CredentialsInv,
         \/ Relabel \/ RollBack \/ CloseWindow
         \/ \E c \in Clients, scopes \in SUBSET Scopes : EditConsumer(c, scopes)
         \/ \E c \in Clients : RemoveConsumer(c)
  PROVE  CredentialsInv'
<1>1. /\ config \in Config /\ config.key \in Keys /\ leaked \subseteq Keys
  BY CredentialFacts, ConfigFacts
<1>2. /\ issuer.config.key \in leaked \cup {config.key, config.old}
      /\ \A t \in token : t.key \in leaked \cup {config.key, config.old}
  BY DEF CredentialsInv, KeysKept
<1>3. CASE Relabel
  <2> DEFINE a == [config EXCEPT !.label = config.key]
  <2>1. Written(a) /\ leaked' = leaked
    BY <1>3 DEF Relabel
  <2>2. a \in Config /\ a.key = config.key /\ a.old = config.old
    BY <1>1 DEF Config
  <2> HIDE DEF a
  <2> QED BY <1>1, <1>2, <2>1, <2>2, WrittenStep
<1>4. CASE RollBack
  <2> DEFINE a == [config EXCEPT !.key = config.old, !.old = config.key, !.label = config.old]
  <2>1. Written(a) /\ leaked' = leaked /\ config.old # NoKey
    BY <1>4 DEF RollBack
  <2>2. config.old \in Keys
    BY <1>1, <2>1 DEF Config
  <2>3. a \in Config /\ a.key = config.old /\ a.old = config.key
    BY <1>1, <2>2 DEF Config
  <2> HIDE DEF a
  <2> QED BY <1>1, <1>2, <2>1, <2>3, WrittenStep
<1>5. CASE CloseWindow
  <2> DEFINE a == [config EXCEPT !.old = NoKey]
  <2>1. /\ Written(a) /\ leaked' = leaked /\ issuer.config = config
        /\ now - since > TokenLife + (IF replacing = "access" THEN CacheLife ELSE 0)
    BY <1>5 DEF CloseWindow, WaitedOut
  <2>2. a \in Config /\ a.key = config.key
    BY <1>1 DEF Config
  <2>3. now - since > TokenLife
    BY <2>1, CredentialConstants, CredentialFacts
  <2>4. ASSUME NEW t \in token PROVE t.key = config.key
    <3>1. now - t.at \in 0 .. TokenLife /\ t.at \in Nat
      BY CredentialFacts DEF Token
    <3>2. t.key = issuer.config.key \/ t.at <= since
      BY DEF CredentialsInv, KeysKept
    <3>3. ~ (t.at <= since)
      BY <2>3, <3>1, CredentialConstants, CredentialFacts
    <3> QED BY <2>1, <3>2, <3>3
  <2> HIDE DEF a
  <2> QED BY <1>1, <2>1, <2>2, <2>4, WrittenStep
<1>6. CASE \E c \in Clients, scopes \in SUBSET Scopes : EditConsumer(c, scopes)
  <2>1. PICK c \in Clients, scopes \in SUBSET Scopes : EditConsumer(c, scopes)
    BY <1>6
  <2> DEFINE a == [config EXCEPT !.clients = @ \cup {c}, !.scopes[c] = scopes]
  <2>2. Written(a) /\ leaked' = leaked
    BY <2>1 DEF EditConsumer
  <2>3. a \in Config /\ a.key = config.key /\ a.old = config.old
    BY <1>1 DEF Config
  <2> HIDE DEF a
  <2> QED BY <1>1, <1>2, <2>2, <2>3, WrittenStep
<1>7. CASE \E c \in Clients : RemoveConsumer(c)
  <2>1. PICK c \in Clients : RemoveConsumer(c)
    BY <1>7
  <2> DEFINE a == [config EXCEPT !.clients = @ \ {c}, !.scopes[c] = {}]
  <2>2. Written(a) /\ leaked' = leaked
    BY <2>1 DEF RemoveConsumer
  <2>3. a \in Config /\ a.key = config.key /\ a.old = config.old
    BY <1>1 DEF Config
  <2> HIDE DEF a
  <2> QED BY <1>1, <1>2, <2>2, <2>3, WrittenStep
<1> QED BY <1>3, <1>4, <1>5, <1>6, <1>7

(* The issuer restarts with the configuration on disk, or stays down with   *)
(* nothing lost: what it stops accepting, it stops accepting now, and its   *)
(* streams end.                                                             *)
LEMMA RedeployStep ==
  ASSUME CredentialsInv, Redeploy
  PROVE  CredentialsInv'
<1>1. /\ UNCHANGED <<replacing, config, token, pass, cache, now, leaked>>
      /\ dropped' = [k \in Keys |->
                       IF k \in AcceptedKeys \ AcceptedKeys' THEN now ELSE dropped[k]]
      /\ taken' = [c \in Clients |-> [s \in Scopes |->
                       IF s \in issuer.config.scopes[c] \ issuer'.config.scopes[c]
                         THEN now ELSE taken[c][s]]]
      /\ stream' = {}
  BY DEF Redeploy
<1>2. /\ config \in Config /\ issuer \in [config : Config, up : BOOLEAN]
      /\ now \in 0 .. NowMax /\ NowMax \in Nat /\ since \in 0 .. now
      /\ dropped \in [Keys -> 0 .. now] /\ taken \in [Clients -> [Scopes -> 0 .. now]]
      /\ \A t \in token : t.at \in Nat /\ t.at <= now
      /\ cache \in [Consumers -> [keys : SUBSET [kid : Keys, key : Keys], at : Nat]]
      /\ \A c \in Consumers : cache[c].at \in 0 .. now
      /\ \A p \in pass : p.client \in Clients /\ p.scopes \subseteq Scopes /\ p.at \in 0 .. now
  BY CredentialFacts DEF Token
<1>3. /\ issuer' \in [config : Config, up : BOOLEAN]
      /\ \/ issuer'.config = issuer.config
         \/ issuer'.config = config /\ Boots(config)
      /\ issuer'.config.key # issuer.config.key => since' = now
      /\ since' \in {since, now}
  <2>1. CASE Boots(config)
    <3>1. /\ issuer' = [config |-> config, up |-> TRUE]
          /\ since' = IF config.key # issuer.config.key THEN now ELSE since
      BY <2>1 DEF Redeploy
    <3> QED BY <1>2, <2>1, <3>1
  <2>2. CASE ~ Boots(config)
    <3>1. issuer' = [issuer EXCEPT !.up = FALSE] /\ since' = since
      BY <2>2 DEF Redeploy
    <3> QED BY <1>2, <3>1
  <2> QED BY <2>1, <2>2
<1>4. dropped' \in [Keys -> 0 .. now]
  BY <1>1, <1>2
<1>5. taken' \in [Clients -> [Scopes -> 0 .. now]]
  BY <1>1, <1>2
<1>6. since' \in 0 .. now
  BY <1>2, <1>3
<1>7. issuer'.config \in Config /\ issuer'.up \in BOOLEAN
  BY <1>3
<1>8. CredentialTables'
  BY <1>1, <1>3, <1>4, <1>5, <1>6, <1>7 DEF CredentialsInv, CredentialTables, CredentialsTypeOK
<1>9. KeysKept'
  <2>1. issuer'.config.key \in leaked \cup {config.key, config.old}
    BY <1>3 DEF CredentialsInv, KeysKept
  <2>2. ASSUME NEW t \in token
        PROVE  /\ t.key \in leaked \cup {config.key, config.old}
               /\ t.key \in leaked \cup {issuer'.config.key, issuer'.config.old}
               /\ t.key = issuer'.config.key \/ t.at <= since'
    <3>1. /\ t.key \in leaked \cup {config.key, config.old}
          /\ t.key \in leaked \cup {issuer.config.key, issuer.config.old}
          /\ t.key = issuer.config.key \/ t.at <= since
      BY DEF CredentialsInv, KeysKept
    <3>2. t.at <= since => t.at <= since'
      BY <1>2, <1>3
    <3>3. t.key = issuer'.config.key \/ t.at <= since'
      BY <1>2, <1>3, <3>1, <3>2
    <3> QED BY <1>3, <3>1, <3>3
  <2> QED BY <1>1, <2>1, <2>2 DEF KeysKept
<1>10. LabelsBound'
  <2>1. replacing = "access" => issuer'.config.label \in {issuer'.config.key, Derived}
    BY <1>3 DEF CredentialsInv, LabelsBound, Boots
  <2> QED BY <1>1, <2>1 DEF CredentialsInv, LabelsBound
<1>11. Withdrawn'
  <2>1. ASSUME NEW c \in Consumers, NEW r \in cache[c].keys
        PROVE  r.key \in AcceptedKeys' \/ cache[c].at <= dropped'[r.key]
    <3>1. /\ r.key \in AcceptedKeys \/ cache[c].at <= dropped[r.key]
          /\ r.key \in Keys
      BY <1>2 DEF CredentialsInv, Withdrawn
    <3>2. dropped'[r.key] =
            IF r.key \in AcceptedKeys \ AcceptedKeys' THEN now ELSE dropped[r.key]
      BY <1>1, <3>1
    <3> HIDE DEF AcceptedKeys
    <3> QED BY <1>2, <3>1, <3>2
  <2>2. ASSUME NEW p \in pass, NEW s \in p.scopes
        PROVE  s \in issuer'.config.scopes[p.client] \/ p.at <= taken'[p.client][s]
    <3>1. /\ s \in issuer.config.scopes[p.client] \/ p.at <= taken[p.client][s]
          /\ p.client \in Clients /\ s \in Scopes
      BY <1>2 DEF CredentialsInv, Withdrawn
    <3>2. taken'[p.client][s] =
            IF s \in issuer.config.scopes[p.client] \ issuer'.config.scopes[p.client]
              THEN now ELSE taken[p.client][s]
      BY <1>1, <3>1
    <3> QED BY <1>2, <3>1, <3>2
  <2> QED BY <1>1, <2>1, <2>2 DEF Withdrawn
<1>12. StreamsRecent'
  BY <1>1 DEF StreamsRecent
<1> QED BY <1>1, <1>8, <1>9, <1>10, <1>11, <1>12 DEF CredentialsInv

(* A token carries the key the issuer signs with.                           *)
LEMMA SignStep ==
  ASSUME CredentialsInv, Sign
  PROVE  CredentialsInv'
<1> DEFINE t == [kid |-> Kid(issuer.config), key |-> issuer.config.key, at |-> now]
<1>1. /\ replacing # "consumers" /\ token' = token \cup {t}
      /\ UNCHANGED <<replacing, config, issuer, pass, stream, cache, now, since, leaked,
                     dropped, taken>>
  BY DEF Sign
<1>2. /\ issuer.config \in Config /\ now \in Nat /\ TokenLife \in Nat
  BY CredentialFacts, CredentialConstants
<1>3. Kid(issuer.config) \in Keys /\ issuer.config.key \in Keys
  BY <1>2, ConfigFacts
<1>4. /\ t \in Token /\ t.kid = Kid(issuer.config) /\ t.key = issuer.config.key /\ t.at = now
      /\ now - t.at \in 0 .. TokenLife
  BY <1>2, <1>3 DEF Token
<1> HIDE DEF t
<1>5. CredentialTables'
  BY <1>1, <1>3, <1>4 DEF CredentialsInv, CredentialTables, CredentialsTypeOK
<1>6. KeysKept'
  BY <1>1, <1>4 DEF CredentialsInv, KeysKept
<1>7. LabelsBound'
  <2>1. replacing = "access" => t.kid = t.key
    BY <1>2, <1>4, ConfigFacts DEF CredentialsInv, LabelsBound
  <2> QED BY <1>1, <2>1 DEF CredentialsInv, LabelsBound
<1>8. Withdrawn'
  BY <1>1 DEF CredentialsInv, Withdrawn, AcceptedKeys, Published, CurrentOnly
<1>9. StreamsRecent'
  BY <1>1 DEF CredentialsInv, StreamsRecent
<1> QED BY <1>1, <1>5, <1>6, <1>7, <1>8, <1>9 DEF CredentialsInv

LEMMA FetchStep ==
  ASSUME CredentialsInv, NEW c \in Consumers, FetchKeys(c)
  PROVE  CredentialsInv'
<1> DEFINE x == [keys |-> Published, at |-> now]
<1>1. /\ replacing = "access" /\ cache' = [cache EXCEPT ![c] = x]
      /\ UNCHANGED <<replacing, config, issuer, token, pass, stream, now, since, leaked,
                     dropped, taken>>
  BY DEF FetchKeys
<1>2. /\ issuer.config \in Config /\ now \in 0 .. NowMax /\ now \in Nat
      /\ cache \in [Consumers -> [keys : SUBSET [kid : Keys, key : Keys], at : Nat]]
  BY CredentialFacts
<1>3. x.keys = Published /\ x.at = now /\ x \in [keys : SUBSET [kid : Keys, key : Keys], at : Nat]
  BY <1>2, AcceptedFacts
<1> HIDE DEF x
<1>4. /\ cache' \in [Consumers -> [keys : SUBSET [kid : Keys, key : Keys], at : Nat]]
      /\ cache'[c] = x /\ \A d \in Consumers : d # c => cache'[d] = cache[d]
  BY <1>1, <1>2, <1>3
<1>5. CredentialTables'
  <2>1. \A d \in Consumers : /\ cache'[d].at \in 0 .. now
                             /\ \A r \in cache'[d].keys : r.key \in Keys
    BY <1>2, <1>3, <1>4 DEF CredentialsInv, CredentialTables, CredentialsTypeOK
  <2> QED BY <1>1, <1>4, <2>1 DEF CredentialsInv, CredentialTables, CredentialsTypeOK
<1>6. KeysKept'
  BY <1>1 DEF CredentialsInv, KeysKept
<1>7. LabelsBound'
  <2>1. \A r \in Published : r.kid = r.key
    BY <1>1, <1>2, AcceptedFacts DEF CredentialsInv, LabelsBound
  <2> QED BY <1>1, <1>3, <1>4, <2>1 DEF CredentialsInv, LabelsBound
<1>8. Withdrawn'
  <2>1. AcceptedKeys' = AcceptedKeys
    BY <1>1 DEF AcceptedKeys, Published, CurrentOnly
  <2>2. \A r \in Published : r.key \in AcceptedKeys
    BY <1>2, AcceptedFacts
  <2> QED BY <1>1, <1>3, <1>4, <2>1, <2>2 DEF CredentialsInv, Withdrawn
<1>9. StreamsRecent'
  BY <1>1 DEF CredentialsInv, StreamsRecent
<1> QED BY <1>1, <1>5, <1>6, <1>7, <1>8, <1>9 DEF CredentialsInv

(* A service token carries only scopes of its client.                       *)
LEMMA ExchangeStep ==
  ASSUME CredentialsInv, NEW c \in Clients, NEW scopes \in SUBSET Scopes, Exchange(c, scopes)
  PROVE  CredentialsInv'
<1> DEFINE x == ServiceToken(c, scopes)
<1>1. /\ pass' = pass \cup {x} /\ scopes \subseteq issuer.config.scopes[c]
      /\ UNCHANGED <<replacing, config, issuer, token, stream, cache, now, since, leaked,
                     dropped, taken>>
  BY DEF Exchange, Granted
<1>2. now \in Nat
  BY CredentialFacts
<1>3. x \in Pass /\ x.client = c /\ x.scopes = scopes /\ x.at = now
  BY <1>2 DEF Pass, ServiceToken
<1> HIDE DEF x
<1>4. CredentialTables'
  BY <1>1, <1>2, <1>3 DEF CredentialsInv, CredentialTables, CredentialsTypeOK
<1>5. KeysKept' /\ LabelsBound'
  BY <1>1 DEF CredentialsInv, KeysKept, LabelsBound
<1>6. Withdrawn'
  <2>1. AcceptedKeys' = AcceptedKeys
    BY <1>1 DEF AcceptedKeys, Published, CurrentOnly
  <2> QED BY <1>1, <1>3, <2>1 DEF CredentialsInv, Withdrawn
<1>7. StreamsRecent'
  BY <1>1 DEF CredentialsInv, StreamsRecent
<1> QED BY <1>1, <1>4, <1>5, <1>6, <1>7 DEF CredentialsInv

(* A client is let in for a scope it has, or that it lost no longer ago     *)
(* than a service token lives: the tokens it holds are older than the loss. *)
LEMMA AuthorizedSoon ==
  ASSUME CredentialsInv, NEW c \in Clients, NEW s \in Scopes \ issuer.config.scopes[c],
         Authorized(c, s)
  PROVE  now - taken[c][s] \in 0 .. ServiceLife
<1>1. PICK p \in pass : p.client = c /\ s \in p.scopes /\ Honoured(p)
  BY DEF Authorized, Granted
<1>2. p.at <= taken[c][s]
  BY <1>1 DEF CredentialsInv, Withdrawn
<1>3. now - p.at <= ServiceLife
  BY <1>1 DEF Honoured, Unexpired
<1>4. p.at \in 0 .. now /\ taken[c][s] \in 0 .. now
  BY CredentialFacts
<1>5. now \in Nat /\ ServiceLife \in Nat
  BY CredentialFacts, CredentialConstants
<1> QED BY <1>2, <1>3, <1>4, <1>5

(* A stream is opened by a client that is let in, and ends.                 *)
LEMMA StreamStep ==
  ASSUME CredentialsInv,
         (\E c \in Clients : OpenStream(c)) \/ (\E e \in stream : EndStream(e))
  PROVE  CredentialsInv'
<1>1. UNCHANGED <<replacing, config, issuer, token, pass, cache, now, since, leaked,
                  dropped, taken>>
  BY DEF OpenStream, EndStream
<1>2. ASSUME NEW x \in stream', x \notin stream
      PROVE  /\ x \in Stream /\ x.client \in Clients /\ x.at \in 0 .. now
             /\ EventStream \in issuer.config.scopes[x.client]
                  \/ x.at - taken[x.client][EventStream] \in 0 .. ServiceLife
  <2>1. PICK c \in Clients : OpenStream(c)
    BY <1>2 DEF EndStream
  <2>2. x = [client |-> c, at |-> now] /\ Authorized(c, EventStream)
    BY <1>2, <2>1 DEF OpenStream
  <2>3. x.client = c /\ x.at = now
    BY <2>2
  <2>4. now \in Nat /\ now \in 0 .. now
    BY CredentialFacts
  <2>5. x \in Stream
    BY <2>2, <2>4 DEF Stream
  <2>6. CASE EventStream \in issuer.config.scopes[c]
    BY <2>3, <2>4, <2>5, <2>6
  <2>7. CASE EventStream \notin issuer.config.scopes[c]
    BY <2>2, <2>3, <2>4, <2>5, <2>7, AuthorizedSoon, ScopesAssumption DEF ScopesAssumption
  <2> QED BY <2>6, <2>7
<1>3. CredentialTables'
  BY <1>1, <1>2 DEF CredentialsInv, CredentialTables, CredentialsTypeOK
<1>4. KeysKept' /\ LabelsBound'
  BY <1>1 DEF CredentialsInv, KeysKept, LabelsBound
<1>5. Withdrawn'
  BY <1>1 DEF CredentialsInv, Withdrawn, AcceptedKeys, Published, CurrentOnly
<1>6. StreamsRecent'
  BY <1>1, <1>2 DEF CredentialsInv, StreamsRecent
<1> QED BY <1>1, <1>3, <1>4, <1>5, <1>6 DEF CredentialsInv

LEMMA NextTickStep ==
  ASSUME CredentialsInv, NextTick
  PROVE  CredentialsInv'
<1>1. /\ now < NowMax /\ now' = now + 1
      /\ token' = {t \in token : now + 1 - t.at <= TokenLife}
      /\ pass' \subseteq pass
      /\ UNCHANGED <<replacing, config, issuer, stream, cache, since, leaked, dropped, taken>>
  BY CredentialFacts, CredentialsAssumption DEF NextTick, CredentialsAssumption
<1>2. now \in 0 .. NowMax /\ NowMax \in Nat /\ TokenLife \in Nat /\ since \in 0 .. now
  BY CredentialFacts, CredentialConstants
<1>3. /\ now' \in 0 .. NowMax /\ 0 .. now \subseteq 0 .. now'
  BY <1>1, <1>2
<1>4. \A t \in token' : now' - t.at \in 0 .. TokenLife
  <2>1. \A t \in token : t.at \in Nat /\ now - t.at \in 0 .. TokenLife
    BY CredentialFacts DEF Token
  <2> QED BY <1>1, <1>2, <2>1
<1>5. dropped' \in [Keys -> 0 .. now'] /\ taken' \in [Clients -> [Scopes -> 0 .. now']]
  <2>1. dropped \in [Keys -> 0 .. now] /\ taken \in [Clients -> [Scopes -> 0 .. now]]
    BY CredentialFacts
  <2> QED BY <1>1, <1>3, <2>1
<1>6. CredentialTables'
  BY <1>1, <1>3, <1>4, <1>5 DEF CredentialsInv, CredentialTables, CredentialsTypeOK
<1>7. KeysKept' /\ LabelsBound'
  BY <1>1 DEF CredentialsInv, KeysKept, LabelsBound
<1>8. Withdrawn'
  <2>1. AcceptedKeys' = AcceptedKeys
    BY <1>1 DEF AcceptedKeys, Published, CurrentOnly
  <2> QED BY <1>1, <2>1 DEF CredentialsInv, Withdrawn
<1>9. StreamsRecent'
  BY <1>1 DEF CredentialsInv, StreamsRecent
<1> QED BY <1>1, <1>6, <1>7, <1>8, <1>9 DEF CredentialsInv

LEMMA CredentialsStepInv ==
  ASSUME CredentialsInv, [CredentialsNext]_credentialsVars
  PROVE  CredentialsInv'
<1>1. CASE UNCHANGED credentialsVars
  BY <1>1 DEF credentialsVars, CredentialsInv, CredentialTables, CredentialsTypeOK, KeysKept,
     LabelsBound, Withdrawn, StreamsRecent, AcceptedKeys, Published, CurrentOnly
<1>2. CASE CredentialsNext
  BY <1>2, NewKeyStep, EditStep, RedeployStep, SignStep, FetchStep, ExchangeStep, StreamStep,
     NextTickStep
     DEF CredentialsNext
<1> QED BY <1>1, <1>2

-----------------------------------------------------------------------------
(* The theorems *)

(* Each of the three procedures keeps its inductive invariant.              *)
THEOREM InvariantHolds == Spec => []IInv
<1>1. Init => IInv
  BY InitTrail, InitCutover, InitCredentials DEF Init, IInv
<1>2. ASSUME IInv, [Next]_vars PROVE IInv'
  <2>1. /\ [TrailNext]_trailVars /\ [CutoverNext]_cutoverVars
        /\ [CredentialsNext]_credentialsVars
    BY <1>2 DEF Next, vars, AuditStep, CutoverStep, CredentialsStep
  <2>2. procedure' = procedure
    BY <1>2 DEF Next, vars, AuditStep, CutoverStep, CredentialsStep
  <2> QED BY <1>2, <2>1, <2>2, TrailStep, CutoverStepInv, CredentialsStepInv DEF IInv
<1> QED BY <1>1, <1>2, PTL DEF Spec

(* The tables, the settings and the requests of every procedure keep their  *)
(* types, and no row of the trail is claimed by two purges (FOR UPDATE SKIP *)
(* LOCKED).                                                                 *)
THEOREM TypeCorrect == Spec => []TypeOK
<1>1. CutoverInv => CutoverTypeOK
  BY DEF CutoverInv, CutoverTypeOK, User, Session
<1>2. IInv => TypeOK
  BY <1>1 DEF IInv, TrailInv, CredentialsInv, CredentialTables, TypeOK
<1> QED BY <1>2, InvariantHolds, PTL

(* "The category and its record commit or roll back together": every        *)
(* cross-owner change younger than the retention floor has its row, and     *)
(* every row of an add or an edit its change.                               *)
THEOREM TrailAlwaysAgrees == Spec => []TrailAgrees
<1>1. IInv => TrailAgrees
  BY DEF IInv, TrailInv
<1> QED BY <1>1, InvariantHolds, PTL

(* "The trail accounts for its own losses": every purged row was counted    *)
(* once, by a purge that recorded it, is running or was cut off, however    *)
(* many purges run at once (_claim_purge_batch, FOR UPDATE SKIP LOCKED).    *)
THEOREM LossesAccounted == Spec => []PurgeAccounted
<1>1. Init => Accounts
  BY InitAccounts DEF Init
<1>2. IInv /\ Accounts /\ [Next]_vars => Accounts'
  <2> SUFFICES ASSUME IInv, Accounts, [Next]_vars PROVE Accounts'
    OBVIOUS
  <2>1. [TrailNext]_trailVars
    BY DEF Next, vars, AuditStep, CutoverStep, CredentialsStep
  <2> QED BY <2>1, AccountsStep DEF IInv
<1>3. Accounts => PurgeAccounted
  BY DEF Accounts
<1> QED BY <1>1, <1>2, <1>3, InvariantHolds, PTL DEF Spec

(* Once the new issuer runs, no session of the old one is left and no role  *)
(* disagrees with its flag: pre_start.sh gives up below Enforce, and the    *)
(* constraints of Enforce refuse what the old issuer still writes.          *)
THEOREM LegacyGone == Spec => []NothingLegacySurvives
<1>1. ASSUME CutoverInv PROVE NothingLegacySurvives
  <2>1. SUFFICES ASSUME new
                 PROVE  /\ \A u \in Users : ~ Mismatched(u)
                        /\ \A s \in Sessions : Held(s) =>
                             /\ session[s].by = "new"
                             /\ session[s].gen = user[session[s].owner].gen
    BY DEF NothingLegacySurvives
  <2>2. Legacy = {} /\ \A u \in Users : ~ Mismatched(u)
    BY <1>1, <2>1 DEF CutoverInv
  <2>3. \A s \in Sessions : Held(s) => session[s].gen # 0
    BY <2>2 DEF Legacy
  <2> QED BY <1>1, <2>2, <2>3 DEF CutoverInv, SessionShape
<1>2. IInv => NothingLegacySurvives
  BY <1>1 DEF IInv
<1> QED BY <1>2, InvariantHolds, PTL

(* "Repair can only ever add a row to that set, never remove one": no step  *)
(* of the cutover takes an active canonical superuser away while no issuer  *)
(* runs, although repair_user takes no policy lock.                         *)
THEOREM SuperusersKept == Spec => CutoverKeepsSuperusers
<1>1. ASSUME IInv, [Next]_vars
      PROVE  [~ old.running /\ ~ new => Canonical \subseteq Canonical']_cutoverVars
  <2>1. [CutoverNext]_cutoverVars
    BY <1>1 DEF Next, vars, AuditStep, CutoverStep, CredentialsStep
  <2> QED BY <1>1, <2>1, CanonicalKept DEF IInv
<1> QED BY <1>1, InvariantHolds, PTL DEF Spec, CutoverKeepsSuperusers

(* "A keypair rotation completes with no consumer restart and no            *)
(* verification gap": no live token signed with a key that has not leaked   *)
(* is refused, whatever the consumers cached and the redeploys between.     *)
THEOREM NoGap == Spec => []NoVerificationGap
<1>1. ASSUME CredentialsInv, NEW t \in token, t.key \notin leaked PROVE Verified(t)
  <2>1. /\ issuer.config \in Config /\ t.key \in Keys /\ 0 \notin Keys
        /\ replacing \in {"access", "refresh", "consumers"} /\ replacing # "consumers"
    BY <1>1, CredentialFacts DEF CredentialsInv, Keys
  <2>2. t.key \in AcceptedKeys
    <3>1. t.key \in {issuer.config.key, issuer.config.old} /\ t.key # NoKey
      BY <1>1, <2>1 DEF CredentialsInv, KeysKept, NoKey
    <3> QED BY <2>1, <3>1, AcceptedFacts
  <2>3. ASSUME replacing = "access", NEW c \in Consumers
        PROVE  \E r \in KeysFor(c, t.kid) : r.key = t.key
    <3>1. /\ issuer.config.label \in {issuer.config.key, Derived} /\ t.kid = t.key
          /\ \A r \in cache[c].keys : r.kid = r.key
      BY <1>1, <2>3 DEF CredentialsInv, LabelsBound
    <3>2. CASE Cached(c, t.kid) # {}
      <4>1. PICK r \in Cached(c, t.kid) : TRUE
        BY <3>2
      <4>2. r.key = t.key
        BY <3>1 DEF Cached
      <4> QED BY <3>2, <4>2 DEF KeysFor
    <3>3. CASE Cached(c, t.kid) = {}
      <4>1. PICK r \in Published : r.kid = t.kid /\ r.key = t.key
        BY <2>1, <2>2, <3>1, AcceptedFacts
      <4> QED BY <3>3, <4>1 DEF KeysFor
    <3> QED BY <3>2, <3>3
  <2> QED BY <2>1, <2>2, <2>3 DEF Verified
<1>2. IInv => NoVerificationGap
  BY <1>1 DEF IInv, NoVerificationGap
<1> QED BY <1>2, InvariantHolds, PTL

(* "Rotation comes from the short TTL": after the cutover a leaked key is   *)
(* trusted no longer than a cached key set lives; a client is let into no   *)
(* private route, and opens no event stream, later than a service token's   *)
(* lifetime after the redeploy that took the scope away; and that redeploy  *)
(* leaves no stream open.                                                   *)
THEOREM SoonPowerless == Spec => []WithdrawnSoonPowerless
<1>1. ASSUME CredentialsInv PROVE WithdrawnSoonPowerless
  <2>1. /\ now \in Nat /\ CacheLife \in Nat /\ dropped \in [Keys -> 0 .. now]
        /\ leaked \subseteq Keys
    BY <1>1, CredentialFacts, CredentialConstants
  <2>2. ASSUME NEW c \in Consumers, NEW k \in leaked \ AcceptedKeys,
               NEW r \in Cached(c, k), r.key = k
        PROVE  now - dropped[k] <= CacheLife
    <3>1. r \in cache[c].keys /\ now - cache[c].at <= CacheLife
      BY DEF Cached
    <3>2. cache[c].at <= dropped[k]
      BY <1>1, <2>2, <3>1 DEF CredentialsInv, Withdrawn
    <3>3. cache[c].at \in Nat /\ dropped[k] \in 0 .. now
      BY <1>1, <2>1, CredentialFacts
    <3> QED BY <2>1, <3>1, <3>2, <3>3
  <2>3. ASSUME NEW c \in Clients, NEW s \in Scopes \ issuer.config.scopes[c], Authorized(c, s)
        PROVE  now - taken[c][s] <= ServiceLife
    BY <1>1, <2>3, AuthorizedSoon, CredentialConstants
  <2>4. StreamsRecent
    BY <1>1 DEF CredentialsInv
  <2> QED BY <2>2, <2>3, <2>4 DEF WithdrawnSoonPowerless, StreamsRecent
<1>2. IInv => WithdrawnSoonPowerless
  BY <1>1 DEF IInv
<1> QED BY <1>2, InvariantHolds, PTL
=============================================================================

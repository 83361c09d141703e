---------------------------- MODULE SuperuserSet ----------------------------
(***************************************************************************)
(* The transactions of services/role_admin.py as the request handlers of   *)
(* routes/users.py and routes/profile.py run them, against one database.   *)
(*                                                                         *)
(* A handler loads its target with session.get BEFORE any lock is taken.   *)
(* The later SELECT ... FOR UPDATE of the same row locks it but does not   *)
(* refresh the loaded object (no populate_existing), so every decision     *)
(* about the target is made on the copy in `loaded`, while the count of    *)
(* the other superusers is a locking read of the current rows.  A flush    *)
(* writes only the columns that differ from the loaded copy.               *)
(*                                                                         *)
(* A transaction takes effect at its commit.  Profile fields, the audit    *)
(* row and the sessions and API keys of the target are not part of this    *)
(* model's state; of the outbox only the unique key of the user-wide       *)
(* publish row is kept.                                                    *)
(*                                                                         *)
(* An operator that is defined and not used (OthersAndSelf, WholeRow, ...) *)
(* is a faulty variant of the definition after it; PROJECT.json says which *)
(* property it breaks.                                                     *)
(***************************************************************************)
EXTENDS Integers, FiniteSets

CONSTANTS
    Users,      \* account ids; an id is used once and never again
    Requests,   \* request handlers that can be in flight together
    TopRole,    \* roles are 0..TopRole by rank; TopRole is SUPERADMIN
    GenMax,     \* the code's own ceiling GENERATION_MAX, made small
    Ops,        \* which kinds of requests arrive
    RetentionCoversRequests
                \* completed outbox rows outlive every request in flight

Role == 0 .. TopRole
OpKinds == {"update", "delete", "delete_me", "create"}

ASSUME TopRoleAssumption == TopRole \in Nat \ {0}
ASSUME GenMaxAssumption == GenMax \in Nat \ {0}
ASSUME OpsAssumption == Ops \subseteq OpKinds
ASSUME RetentionAssumption == RetentionCoversRequests \in BOOLEAN

VARIABLES
    present,    \* ids with a row in the user table
    born,       \* ids ever used
    row,        \* the user rows (the last row, for an id that was deleted)
    tombstone,  \* terminal_generation per id; 0 when there is none
    outbox,     \* unique keys <<user, generation>> of publish rows
    revision,   \* security_policy.revision
    minted,     \* role claims of access tokens that may be unexpired
    req         \* the request handlers

vars == <<present, born, row, tombstone, outbox, revision, minted, req>>

Row == [role : Role, flag : BOOLEAN, active : BOOLEAN, gen : 1 .. GenMax]

(* _derive_is_superuser: the flag is evidence derived from the role. *)
DeriveIsSuperuser(role) == role = TopRole

NewRow(role, active) ==
    [role |-> role, flag |-> DeriveIsSuperuser(role),
     active |-> active, gen |-> 1]

(* The check constraint on the user table. *)
Consistent(r) == r.flag = DeriveIsSuperuser(r.role)

(* is_active_canonical_superuser, on a row or on a loaded copy. *)
IsActiveSuperuser(r) == r.role = TopRole /\ r.flag /\ r.active

ActiveSuperusers == {u \in present : IsActiveSuperuser(row[u])}

OthersAndSelf(u) == ActiveSuperusers
AnyOthers(u) == present \ {u}

(* The locking count of count_active_canonical_superusers, as a set. *)
OtherSuperusers(u) == ActiveSuperusers \ {u}

-----------------------------------------------------------------------------
(* Request handlers: req[r] is Idle, or the transaction r is running. *)

Request ==
    [pc : {"loaded", "locked"},     \* before and after the locks
     op : {"update", "delete"},
     target : Users,
     loaded : Row,                  \* the unlocked copy of the target's row
     self : BOOLEAN,                \* actor_id = db_user.id
     fields : SUBSET {"role", "active"}, role : Role, active : BOOLEAN,
     locks : SUBSET Users]          \* rows locked besides the target's

Idle == [pc |-> "idle"]

Running(r) == req[r].pc # "idle"

(* _resolve_update_intent: an omitted field keeps the loaded value. *)
IntendedRole(q) == IF "role" \in q.fields THEN q.role ELSE q.loaded.role
IntendedActive(q) == IF "active" \in q.fields THEN q.active ELSE q.loaded.active

(* outcome.role_changed or intent.activation_changed *)
AuthorizationChanged(q) ==
    \/ IntendedRole(q) # q.loaded.role
    \/ IntendedActive(q) # q.loaded.active

(* The object when it is flushed: apply_user_update, the activation        *)
(* assignment and bump_user_generation have all been applied in memory.    *)
Flushed(q) ==
    [role |-> IntendedRole(q),
     flag |-> IF "role" \in q.fields THEN DeriveIsSuperuser(q.role)
                                     ELSE q.loaded.flag,
     active |-> IntendedActive(q),
     gen |-> IF AuthorizationChanged(q) THEN q.loaded.gen + 1
                                        ELSE q.loaded.gen]

WholeRow(current, loaded, new) == new

(* A unit-of-work flush writes the columns that differ from the loaded copy. *)
Column(current, loaded, new) == IF new # loaded THEN new ELSE current

Merge(current, loaded, new) ==
    [role |-> Column(current.role, loaded.role, new.role),
     flag |-> Column(current.flag, loaded.flag, new.flag),
     active |-> Column(current.active, loaded.active, new.active),
     gen |-> Column(current.gen, loaded.gen, new.gen)]

Written(q) == Merge(row[q.target], q.loaded, Flushed(q))

StillSuperuserByRole(role, active) == role = TopRole

(* _would_be_active_canonical_superuser *)
WouldBeActiveSuperuser(role, active) ==
    role = TopRole /\ DeriveIsSuperuser(role) /\ active

LeavesSetByUpdate(q) ==
    /\ IsActiveSuperuser(q.loaded)
    /\ ~ WouldBeActiveSuperuser(IntendedRole(q), IntendedActive(q))

(* Would this request take its (loaded) target out of the set? *)
LeavesSet(q) ==
    /\ IsActiveSuperuser(q.loaded)
    /\ \/ q.op = "delete"
       \/ ~ WouldBeActiveSuperuser(IntendedRole(q), IntendedActive(q))

(* get_current_active_superuser decides from the claims of the token. *)
ActsAsSuperuser(actor) == TopRole \in minted[actor]

(* next_generation raises at GENERATION_MAX. *)
GenerationLeft(g) == g < GenMax

(* An active account may log in; its token carries its current role. *)
Mint(u, r) == [minted EXCEPT ![u] = IF r.active THEN @ \cup {r.role} ELSE @]

Finish(r) == req' = [req EXCEPT ![r] = Idle]

-----------------------------------------------------------------------------
(* Actions *)

(* A migrated and empty database. *)
Init ==
    /\ present = {}
    /\ born = {}
    /\ row = [u \in Users |-> NewRow(0, TRUE)]
    /\ tombstone = [u \in Users |-> 0]
    /\ outbox = {}
    /\ revision = 0
    /\ minted = [u \in Users |-> {}]
    /\ req = [r \in Requests |-> Idle]

(* PATCH /users/update: load the target, classify the intent, and reject a  *)
(* self-promotion, all before any lock.  A request that names neither role  *)
(* nor is_active changes nothing modelled here.                             *)
LoadUpdate(r, actor, u, fields, role, active) ==
    /\ "update" \in Ops
    /\ ~ Running(r)
    /\ ActsAsSuperuser(actor)
    /\ u \in present
    /\ fields # {}
    /\ "role" \notin fields => role = 0          \* an omitted field has no value
    /\ "active" \notin fields => active
    /\ ~ ("role" \in fields /\ actor = u /\ role > row[u].role)
    /\ req' = [req EXCEPT ![r] =
           [pc |-> "loaded", op |-> "update", target |-> u, loaded |-> row[u],
            self |-> actor = u, fields |-> fields, role |-> role,
            active |-> active, locks |-> {}]]
    /\ UNCHANGED <<present, born, row, tombstone, outbox, revision, minted>>

(* DELETE /users/delete: load the target. *)
LoadDelete(r, actor, u) ==
    /\ "delete" \in Ops
    /\ ~ Running(r)
    /\ ActsAsSuperuser(actor)
    /\ u \in present
    /\ req' = [req EXCEPT ![r] =
           [pc |-> "loaded", op |-> "delete", target |-> u, loaded |-> row[u],
            self |-> actor = u, fields |-> {}, role |-> 0,
            active |-> TRUE, locks |-> {}]]
    /\ UNCHANGED <<present, born, row, tombstone, outbox, revision, minted>>

PolicyLockFree == \A r \in Requests : req[r].pc # "locked"

(* Lock the policy row, then the target's row; count the others (and lock   *)
(* them) only if the loaded target would leave the set.                     *)
Acquire(r) ==
    /\ req[r].pc = "loaded"
    /\ PolicyLockFree
    /\ LeavesSet(req[r]) => OtherSuperusers(req[r].target) # {}
    /\ req' = [req EXCEPT ![r] =
           [@ EXCEPT !.pc = "locked",
                     !.locks = IF LeavesSet(req[r])
                                 THEN OtherSuperusers(req[r].target) ELSE {}]]
    /\ UNCHANGED <<present, born, row, tombstone, outbox, revision, minted>>

(* LastSuperuserError: 409, and the transaction is rolled back. *)
Refuse(r) ==
    /\ req[r].pc = "loaded"
    /\ PolicyLockFree
    /\ LeavesSet(req[r])
    /\ OtherSuperusers(req[r].target) = {}
    /\ Finish(r)
    /\ UNCHANGED <<present, born, row, tombstone, outbox, revision, minted>>

(* What the flush of an update must pass: the generation ceiling, the       *)
(* unique key of the publish row, a row to update, the check constraint.    *)
AnyPublishKey(q) == TRUE

UniquePublishKey(q) == <<q.target, q.loaded.gen + 1>> \notin outbox

Fenced(q) ==
    AuthorizationChanged(q) => GenerationLeft(q.loaded.gen) /\ UniquePublishKey(q)

CanFlush(q) ==
    /\ Fenced(q)
    /\ Flushed(q) # q.loaded => q.target \in present
    /\ Consistent(Written(q))

CommitUpdate(r) ==
    LET q == req[r] IN
    /\ q.pc = "locked"
    /\ q.op = "update"
    /\ CanFlush(q)
    /\ row' = [row EXCEPT ![q.target] = Written(q)]
    /\ IF AuthorizationChanged(q)
       THEN /\ outbox' = outbox \cup {<<q.target, q.loaded.gen + 1>>}
            /\ revision' = revision + 1
       ELSE UNCHANGED <<outbox, revision>>
    /\ minted' = Mint(q.target, row'[q.target])
    /\ Finish(r)
    /\ UNCHANGED <<present, born, tombstone>>

(* write_deletion_tombstone: a max upsert of the next generation. *)
Terminal(q) ==
    IF tombstone[q.target] > q.loaded.gen THEN tombstone[q.target]
                                          ELSE q.loaded.gen + 1

(* Deleting a row that is already gone matches no row and still commits. *)
CommitDelete(r) ==
    LET q == req[r] IN
    /\ q.pc = "locked"
    /\ q.op = "delete"
    /\ GenerationLeft(q.loaded.gen)
    /\ tombstone' = [tombstone EXCEPT ![q.target] = Terminal(q)]
    /\ present' = present \ {q.target}
    /\ revision' = revision + 1
    /\ Finish(r)
    /\ UNCHANGED <<born, row, outbox, minted>>

(* A rollback: a flush that cannot pass, a deadlock or serialization error  *)
(* of the engine, a lost connection, a crash of the issuer.                 *)
Abort(r) ==
    /\ Running(r)
    /\ Finish(r)
    /\ UNCHANGED <<present, born, row, tombstone, outbox, revision, minted>>

RowLocked(u) ==
    \E r \in Requests :
        req[r].pc = "locked" /\ u \in req[r].locks \cup {req[r].target}

(* DELETE /profile/delete/me: no policy lock, no tombstone; the superuser   *)
(* test reads the token's claims.                                           *)
DeleteMe(u) ==
    /\ "delete_me" \in Ops
    /\ \E claim \in minted[u] : claim # TopRole
    /\ u \in present
    /\ ~ RowLocked(u)
    /\ present' = present \ {u}
    /\ UNCHANGED <<born, row, tombstone, outbox, revision, minted, req>>

(* build_user, called by a superuser or, for the lowest role, by the OAuth  *)
(* sign-in; the service serves no one before its first start has seeded.    *)
CreateUser(u, role, active) ==
    /\ "create" \in Ops
    /\ \/ \E actor \in Users : ActsAsSuperuser(actor)
       \/ role = 0 /\ active
    /\ born # {}
    /\ u \notin born
    /\ born' = born \cup {u}
    /\ present' = present \cup {u}
    /\ row' = [row EXCEPT ![u] = NewRow(role, active)]
    /\ minted' = Mint(u, row'[u])
    /\ UNCHANGED <<tombstone, outbox, revision, req>>

(* initial_user_db at a start of the service, the first one included: it    *)
(* acts only when no row has the flag.                                                                *)
Seed(u) ==
    /\ \A v \in present : ~ row[v].flag
    /\ u \notin born
    /\ born' = born \cup {u}
    /\ present' = present \cup {u}
    /\ row' = [row EXCEPT ![u] = NewRow(TopRole, TRUE)]
    /\ minted' = Mint(u, row'[u])
    /\ UNCHANGED <<tombstone, outbox, revision, req>>

(* reap_completed drops a delivered publish row once it is older than the   *)
(* retention horizon.  A request that loaded the target before that row was *)
(* committed is younger than the horizon when retention covers requests.    *)
Reap(key) ==
    /\ key \in outbox
    /\ RetentionCoversRequests =>
           \A r \in Requests :
               Running(r) /\ req[r].target = key[1] => req[r].loaded.gen >= key[2]
    /\ outbox' = outbox \ {key}
    /\ UNCHANGED <<present, born, row, tombstone, revision, minted, req>>

Next ==
    \/ \E r \in Requests, actor, u \in Users :
          \/ \E fields \in SUBSET {"role", "active"}, role \in Role,
                active \in BOOLEAN :
                 LoadUpdate(r, actor, u, fields, role, active)
          \/ LoadDelete(r, actor, u)
    \/ \E r \in Requests :
          \/ Acquire(r)
          \/ Refuse(r)
          \/ CommitUpdate(r)
          \/ CommitDelete(r)
          \/ Abort(r)
    \/ \E u \in Users :
          \/ DeleteMe(u)
          \/ \E role \in Role, active \in BOOLEAN : CreateUser(u, role, active)
          \/ Seed(u)
    \/ \E key \in outbox : Reap(key)

Spec == Init /\ [][Next]_vars

-----------------------------------------------------------------------------
(* Properties *)

(* Every variable has its type. *)
TypeOK ==
    /\ present \subseteq born /\ born \subseteq Users
    /\ row \in [Users -> Row]
    /\ tombstone \in [Users -> 0 .. GenMax]
    /\ outbox \subseteq Users \X (1 .. GenMax)
    /\ revision \in Nat
    /\ minted \in [Users -> SUBSET Role]
    /\ req \in [Requests -> Request \cup {Idle}]

(* The check constraint ck_user_role_superuser_consistent is never what      *)
(* refuses an update: whatever copy a flush was computed from, the columns  *)
(* it writes leave a canonical pair in the row they are written to.         *)
ConstraintNeverBites ==
    \A r \in Requests :
        req[r].pc = "locked" /\ req[r].op = "update" /\ Fenced(req[r])
            => Consistent(Written(req[r]))

(* The pair role/is_superuser is canonical in every row and loaded copy. *)
RoleFlagConsistent ==
    /\ \A u \in Users : Consistent(row[u])
    /\ \A r \in Requests : Running(r) => Consistent(req[r].loaded)

(* The invariant of role_admin.py: once seeded, the set is never empty. *)
SetNeverEmpty == born # {} => ActiveSuperusers # {}

(* Whatever copy it decided on, a role/activation update that commits does  *)
(* not empty a nonempty set (_enforce_last_superuser_invariant).            *)
UpdateKeepsSet ==
    [][(\E r \in Requests : CommitUpdate(r)) /\ ActiveSuperusers # {}
          => ActiveSuperusers' # {}]_vars

(* An admin deletion does not empty the set (delete_user_account). *)
DeleteKeepsSet ==
    [][(\E r \in Requests : CommitDelete(r)) /\ ActiveSuperusers # {}
          => ActiveSuperusers' # {}]_vars

(* ... and it keeps that promise when the copy it decided on is current. *)
FreshDeleteKeepsSet ==
    [][(\E r \in Requests : CommitDelete(r)
                 /\ req[r].loaded = row[req[r].target])
          /\ ActiveSuperusers # {} => ActiveSuperusers' # {}]_vars

(* A row whose role or activation changes gets a strictly larger            *)
(* generation in the same commit; otherwise the generation stands still.    *)
(* So two changes never share a generation, although each computes its own  *)
(* from an unlocked copy.                                                   *)
GenerationFencesChanges ==
    [][\A u \in born :
          IF row'[u].role = row[u].role /\ row'[u].active = row[u].active
          THEN row'[u].gen = row[u].gen
          ELSE row'[u].gen = row[u].gen + 1]_vars

(* No one's own request raises the role that is in the database when it     *)
(* commits, although the comparison was made on an unlocked copy.           *)
NoSelfPromotion ==
    [][\A r \in Requests : CommitUpdate(r) /\ req[r].self
          => row'[req[r].target].role <= row[req[r].target].role]_vars

(* Why stale copies do no harm to an update: a loaded copy is either the    *)
(* current row, or every generation the row went through since is still a   *)
(* publish key in the outbox, and the next one this request would use is    *)
(* among them.                                                              *)
LoadedFits(q) ==
    /\ q.target \in born
    /\ q.loaded.gen <= row[q.target].gen
    /\ q.loaded.gen = row[q.target].gen => q.loaded = row[q.target]
    /\ \A g \in 1 .. GenMax :
          q.loaded.gen < g /\ g <= row[q.target].gen => <<q.target, g>> \in outbox

(* A locked request that takes its target out of the set holds locks on     *)
(* other members, which therefore stay.                                     *)
LocksHold(q) ==
    q.pc = "locked" /\ LeavesSet(q) =>
        /\ q.locks # {}
        /\ q.locks \subseteq OtherSuperusers(q.target)

(* Only requests of the kinds in Ops arrive, and the self-promotion test    *)
(* was passed on the loaded copy.                                           *)
Vetted(q) ==
    /\ q.op \in Ops
    /\ q.self => IntendedRole(q) <= q.loaded.role

AllVetted == \A r \in Requests : Running(r) => Vetted(req[r])

(* The inductive invariant of SuperuserSet_proofs (with AllVetted). *)
IInv ==
    /\ TypeOK
    /\ RoleFlagConsistent
    /\ \A r \in Requests : Running(r) => LoadedFits(req[r]) /\ LocksHold(req[r])
    /\ \A r, s \in Requests :
          req[r].pc = "locked" /\ req[s].pc = "locked" => r = s

(* The set changes one account at a time and, once seeded, is never         *)
(* emptied: the transactions implement SuperuserRoster.                     *)
Roster == INSTANCE SuperuserRoster WITH members <- ActiveSuperusers
RosterSpec == Roster!Spec
=============================================================================

------------------------------ MODULE Cutover ------------------------------
(***************************************************************************)
(* The maintenance sequence that takes a 1.x database to 2.0: the Expand   *)
(* migration, the preflight and the audited repair of rows whose role and  *)
(* flag disagree (services/security_preflight.py), the revocation of every *)
(* session without a generation (services/legacy_session_revocation.py),   *)
(* the Enforce migration, and the start of the new issuer.                 *)
(*                                                                         *)
(* The operator is free to skip, repeat and reorder the steps, and to      *)
(* leave the old issuer running; what is checked is that the database      *)
(* then refuses.  On MySQL and MariaDB the two statements of Enforce take  *)
(* effect one by one.                                                      *)
(*                                                                         *)
(* Not part of the state: the outbox effects of a repair (RevocationOutbox *)
(* delivers them), the tables Expand adds, downgrades.                     *)
(***************************************************************************)
EXTENDS Integers, FiniteSets

CONSTANTS
    Users, Sessions,
    GenMax,      \* bound on a user's generation
    Starts       \* bound on the starts of the old issuer

ASSUME CutoverAssumption == GenMax \in Nat \ {0} /\ Starts \in Nat

VARIABLES
    user,    \* the user table; gen is 1 until Expand adds the column
    session, \* the session table; gen 0: no generation
    schema,  \* what the migrations have done
    old,     \* the 1.x issuer: running, and how often it was started
    new      \* the 2.0 issuer is running

cutoverVars == <<user, session, schema, old, new>>

NoSession == [owner |-> "none", gen |-> 0, by |-> "none"]

CutoverTypeOK ==
    /\ user \in [Users -> [super : BOOLEAN,    \* role = SUPERADMIN
                           flag : BOOLEAN,     \* is_superuser
                           active : BOOLEAN,
                           gen : 1 .. GenMax]]
    /\ \A s \in Sessions :
        /\ session[s].owner \in Users \cup {"none"}
        /\ session[s].gen \in 0 .. GenMax
        /\ session[s].by \in {"none", "old", "new"}
    /\ schema \in [revision : {"initial", "expand", "enforce"},
                   notNull : BOOLEAN, check : BOOLEAN,
                   transactional : BOOLEAN] \* PostgreSQL
    /\ old.running \in BOOLEAN /\ old.starts \in 0 .. Starts
    /\ new \in BOOLEAN

Mismatched(u) == user[u].super # user[u].flag
Canonical == {u \in Users : user[u].super /\ user[u].flag /\ user[u].active}
Held(s) == session[s] # NoSession
Legacy == {s \in Sessions : Held(s) /\ session[s].gen = 0}
Without(u) == [s \in Sessions |-> IF session[s].owner = u THEN NoSession ELSE session[s]]

(* A 1.x database: any rows, the old issuer running. *)
CutoverInit ==
    /\ user \in [Users -> [super : BOOLEAN, flag : BOOLEAN, active : {TRUE}, gen : {1}]]
    /\ session = [s \in Sessions |-> NoSession]
    /\ \E t \in BOOLEAN : schema =
        [revision |-> "initial", notNull |-> FALSE, check |-> FALSE, transactional |-> t]
    /\ old = [running |-> TRUE, starts |-> 0]
    /\ new = FALSE

-----------------------------------------------------------------------------
(* External: the 1.x issuer opens sessions without a generation, and       *)
(* writes roles, flags and activations that need not agree.                *)
OldLogin(u, s) ==
    /\ old.running /\ user[u].active /\ ~ Held(s)
    /\ ~ schema.notNull
    /\ session' = [session EXCEPT ![s] = [owner |-> u, gen |-> 0, by |-> "old"]]
    /\ UNCHANGED <<user, schema, old, new>>

OldWrite(u, super, flag, active) ==
    /\ old.running
    /\ schema.check => super = flag
    /\ user' = [user EXCEPT ![u].super = super, ![u].flag = flag, ![u].active = active]
    /\ UNCHANGED <<session, schema, old, new>>

StopOld ==
    /\ old.running
    /\ old' = [old EXCEPT !.running = FALSE]
    /\ UNCHANGED <<user, session, schema, new>>

(* External: a start of the old image fails on a revision it does not      *)
(* know once Enforce is recorded.                                          *)
StartOld ==
    /\ ~ old.running /\ old.starts < Starts /\ schema.revision # "enforce"
    /\ old' = [running |-> TRUE, starts |-> old.starts + 1]
    /\ UNCHANGED <<user, session, schema, new>>

-----------------------------------------------------------------------------
(* The generation column of a session is nullable and stays empty. *)
Expand ==
    /\ schema.revision = "initial"
    /\ schema' = [schema EXCEPT !.revision = "expand"]
    /\ UNCHANGED <<user, session, old, new>>

(* A repair that serves for any change of role. *)
RepairableAnyway(u) == TRUE

(* NotMismatchedError: a consistent row is left to the role change. *)
Repairable(u) == Mismatched(u)

(* repair_user, under the lock of the row: the role is the operator's, the *)
(* flag follows, the generation moves and the sessions are deleted.        *)
Repair(u, super) ==
    /\ schema.revision # "initial" /\ Repairable(u) /\ user[u].gen < GenMax
    /\ user' = [user EXCEPT ![u].super = super, ![u].flag = super, ![u].gen = @ + 1]
    /\ session' = Without(u)
    /\ UNCHANGED <<schema, old, new>>

(* Blessing legacy sessions with the generation of their owner. *)
Backfilled(s) ==
    IF s \in Legacy THEN [session[s] EXCEPT !.gen = user[session[s].owner].gen] ELSE session[s]

(* A session without a generation is deleted, never given one. *)
Revoked(s) == IF s \in Legacy THEN NoSession ELSE session[s]

Backfill == [s \in Sessions |-> Backfilled(s)]

(* What revoke_legacy_sessions leaves of the sessions. *)
AfterRevocation == [s \in Sessions |-> Revoked(s)]

RevokeLegacySessions ==
    /\ schema.revision # "initial" /\ Legacy # {}
    /\ session' = AfterRevocation
    /\ UNCHANGED <<user, schema, old, new>>

(* Enforce on PostgreSQL: NOT NULL and the CHECK in one transaction, which *)
(* the rows either pass or fail as a whole.                                *)
Enforce ==
    /\ schema.revision = "expand" /\ schema.transactional
    /\ Legacy = {} /\ \A u \in Users : ~ Mismatched(u)
    /\ schema' = [schema EXCEPT !.revision = "enforce", !.notNull = TRUE, !.check = TRUE]
    /\ UNCHANGED <<user, session, old, new>>

(* On MySQL and MariaDB: NOT NULL, which stays when the CHECK then fails,  *)
(* and the CHECK of this or of a later attempt.                            *)
EnforceNotNull ==
    /\ schema.revision = "expand" /\ ~ schema.transactional
    /\ ~ schema.notNull /\ Legacy = {}
    /\ schema' = [schema EXCEPT !.notNull = TRUE]
    /\ UNCHANGED <<user, session, old, new>>

EnforceCheck ==
    /\ schema.revision = "expand" /\ ~ schema.transactional
    /\ schema.notNull /\ \A u \in Users : ~ Mismatched(u)
    /\ schema' = [schema EXCEPT !.revision = "enforce", !.check = TRUE]
    /\ UNCHANGED <<user, session, old, new>>

-----------------------------------------------------------------------------
(* pre_start.sh migrates to the head first and gives up when that fails. *)
StartNew ==
    /\ ~ new /\ schema.revision = "enforce"
    /\ new' = TRUE
    /\ UNCHANGED <<user, session, schema, old>>

NewLogin(u, s) ==
    /\ new /\ user[u].active /\ ~ Held(s)
    /\ session' = [session EXCEPT ![s] = [owner |-> u, gen |-> user[u].gen, by |-> "new"]]
    /\ UNCHANGED <<user, schema, old, new>>

(* A role change of the new issuer (SuperuserSet). *)
NewRole(u, super) ==
    /\ new /\ user[u].super # super /\ user[u].gen < GenMax
    /\ Canonical # {u}
    /\ user' = [user EXCEPT ![u].super = super, ![u].flag = super, ![u].gen = @ + 1]
    /\ session' = Without(u)
    /\ UNCHANGED <<schema, old, new>>

-----------------------------------------------------------------------------
CutoverNext ==
    \/ \E u \in Users, s \in Sessions : OldLogin(u, s) \/ NewLogin(u, s)
    \/ \E u \in Users, super, flag, active \in BOOLEAN : OldWrite(u, super, flag, active)
    \/ \E u \in Users, super \in BOOLEAN : Repair(u, super) \/ NewRole(u, super)
    \/ StopOld
    \/ StartOld
    \/ Expand
    \/ RevokeLegacySessions
    \/ Enforce
    \/ EnforceNotNull
    \/ EnforceCheck
    \/ StartNew

-----------------------------------------------------------------------------
(* "Backfilling a generation onto a legacy session could bless an old      *)
(* token carrying a stale role": in whatever order the steps were taken,   *)
(* and whatever the old issuer wrote in between, left running or not, the  *)
(* new issuer serves only sessions of its own, each with the generation    *)
(* its owner has, for users whose role and flag agree.                     *)
NothingLegacySurvives ==
    new => /\ \A u \in Users : ~ Mismatched(u)
           /\ \A s \in Sessions : Held(s) =>
                session[s].by = "new" /\ session[s].gen = user[session[s].owner].gen

(* "Repair can only ever add a row to that set, never remove one": while   *)
(* no issuer runs, no step of the sequence takes an active canonical       *)
(* superuser away, although the repair takes no policy lock.               *)
CutoverKeepsSuperusers ==
    [][~ old.running /\ ~ new => Canonical \subseteq Canonical']_cutoverVars
=============================================================================

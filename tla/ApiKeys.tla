------------------------------ MODULE ApiKeys ------------------------------
(***************************************************************************)
(* The API keys of one account (services/api_keys.py, routes/api_keys.py,  *)
(* core/deps.py, routes/private.py): issue under the cap, revocation by    *)
(* owner or administrator, revocation at deactivation, use and remote      *)
(* introspection, audience binding by an operator, purge of dead keys, and *)
(* the write-behind of last_used_at (main.py) through a Redis hash.        *)
(*                                                                         *)
(* A request is two or three database statements; other requests run       *)
(* between them.  A flush and its commit are one step.                     *)
(*                                                                         *)
(* Not part of the state: names, hashes, quotas (RateLimiter), the owner's *)
(* role and the key's access mode, which only cap an accepted use.         *)
(***************************************************************************)
EXTENDS Integers, FiniteSets, FiniteSetsExt

CONSTANTS
    Keys,        \* ids of the keys ever issued
    Requests,    \* requests in flight
    Flushers,    \* flush loops: one per replica, and the final flush
    Consumers,   \* registry ids a key may be bound to
    Cap,         \* API_KEY_MAX_PER_USER
    PurgeBatch,  \* API_KEY_PURGE_BATCH_SIZE
    ClockMax,    \* bound on the uses noted
    ChangeMax,   \* bound on the activation changes
    CrashBound,  \* bound on the crashes of flush loops
    Snapshot     \* plain reads are REPEATABLE READ (MySQL, MariaDB)

ASSUME KeysAssumption == Cap \in Nat \ {0} /\ PurgeBatch \in Nat \ {0}
ASSUME FiniteAssumption == IsFiniteSet(Keys) /\ IsFiniteSet(Requests)
ASSUME BoundsAssumption == {ClockMax, ChangeMax, CrashBound} \subseteq Nat
ASSUME SnapshotAssumption == Snapshot \in BOOLEAN

VARIABLES
    owner,     \* the user row; changes stands for its generation
    keys,      \* the key table, with the audience table
    hash,      \* the Redis hash: time of the last use of a key; 0: none
    noted,     \* history: the latest use of a key ever put into the hash
    lost,      \* history: the latest one a crash, an error or an older note lost
    disarmed,  \* history: keys that were revoked, by hand or with the owner
    now,       \* the time of the last use, of any key
    crashes,
    req,       \* the requests
    flush      \* the flush loops

vars == <<owner, keys, hash, noted, lost, disarmed, now, crashes, req, flush>>

Time == 0 .. ClockMax
Key ==
    [state : {"none", "live", "revoked", "purged"},
     expired : BOOLEAN,            \* expires_at has passed
     audiences : SUBSET Consumers,
     used : Time]                  \* last_used_at; 0: null
Unissued ==
    [state |-> "none", expired |-> FALSE, audiences |-> {}, used |-> 0]

Request ==
    [op : {"none", "create", "revoke", "deactivate", "use", "bind"},
     pc : {"idle", "insert", "write", "lock", "commit", "owner", "stamp", "note"},
     targets : SUBSET Keys,        \* the keys the request has loaded
     audiences : SUBSET Consumers, \* the audiences asked for
     changes : 0 .. ChangeMax,     \* owner.changes when the owner was loaded
     at : Time]                    \* the time of the use
Idle ==
    [op |-> "none", pc |-> "idle", targets |-> {}, audiences |-> {}, changes |-> 0, at |-> 0]

Flush ==
    [pc : {"idle", "load", "commit"},
     data : [Keys -> Time],        \* the hash as read
     writes : SUBSET Keys]         \* rows to be written
NoFlush == [pc |-> "idle", data |-> [k \in Keys |-> 0], writes |-> {}]

Issued(k) == keys[k].state \in {"live", "revoked"}
Live == {k \in Keys : keys[k].state = "live"}

(* What create_api_key counts and get_active_key accepts. *)
Usable(k) == keys[k].state = "live" /\ ~ keys[k].expired

Become(r, q) == req' = [req EXCEPT ![r] = q]
Finish(r) == Become(r, Idle)

(* A deactivation holds the user row FOR UPDATE from its lock to its commit;*)
(* the foreign key check of an INSERT waits for it.                         *)
OwnerLocked == \E r \in Requests : req[r].op = "deactivate" /\ req[r].pc = "commit"

NoRowLock == TRUE
OwnerRowFree == ~ OwnerLocked

-----------------------------------------------------------------------------
Init ==
    /\ owner = [exists |-> TRUE, active |-> TRUE, changes |-> 0]
    /\ keys = [k \in Keys |-> Unissued]
    /\ hash = [k \in Keys |-> 0]
    /\ noted = [k \in Keys |-> 0]
    /\ lost = [k \in Keys |-> 0]
    /\ disarmed = {}
    /\ now = 0
    /\ crashes = 0
    /\ req = [r \in Requests |-> Idle]
    /\ flush = [f \in Flushers |-> NoFlush]

redis == <<hash, noted, lost, now, crashes, flush>>

-----------------------------------------------------------------------------
(* Issue *)

CapPassedAtLimit == Cardinality({k \in Keys : Usable(k)}) <= Cap

CapPassed == Cardinality({k \in Keys : Usable(k)}) < Cap

(* create_api_key counts.  The caller is authenticated by its token's       *)
(* claims, so the owner may be inactive.                                    *)
CountKeys(r, audiences) ==
    /\ req[r].pc = "idle"
    /\ CapPassed
    /\ Become(r, [Idle EXCEPT !.op = "create", !.pc = "insert", !.audiences = audiences])
    /\ UNCHANGED <<owner, keys, disarmed, redis>>

(* set_key_audiences_in_tx: the bindings are committed with the key. *)
BoundAtIssue(audiences) == audiences

InsertKey(r, k) ==
    /\ req[r].pc = "insert"
    /\ keys[k].state = "none"
    /\ owner.exists
    /\ OwnerRowFree
    /\ keys' = [keys EXCEPT ![k] =
          [Unissued EXCEPT !.state = "live",
                           !.audiences = BoundAtIssue(req[r].audiences)]]
    /\ Finish(r)
    /\ UNCHANGED <<owner, disarmed, redis>>

-----------------------------------------------------------------------------
(* Revocation *)

(* revoke_api_key and admin_revoke_api_key load the key and refuse a        *)
(* revoked one.                                                             *)
LoadKey(r, k) ==
    /\ req[r].pc = "idle"
    /\ k \in Live
    /\ Become(r, [Idle EXCEPT !.op = "revoke", !.pc = "write", !.targets = {k}])
    /\ UNCHANGED <<owner, keys, disarmed, redis>>

Revoked(k) == [keys[k] EXCEPT !.state = "revoked"]

(* The UPDATE fails when the row is gone. *)
RevokeKey(r) ==
    LET k == CHOOSE x \in req[r].targets : TRUE IN
    /\ req[r].pc = "write"
    /\ req[r].op = "revoke"
    /\ Issued(k)
    /\ keys' = [keys EXCEPT ![k] = Revoked(k)]
    /\ disarmed' = disarmed \cup {k}
    /\ Finish(r)
    /\ UNCHANGED <<owner, redis>>

(* update_current_user loads the owner; on an engine with snapshots this    *)
(* fixes what its later plain reads see.                                    *)
LoadOwner(r) ==
    /\ req[r].pc = "idle"
    /\ owner.exists /\ owner.active
    /\ owner.changes < ChangeMax
    /\ Become(r, [Idle EXCEPT !.op = "deactivate", !.pc = "lock",
                              !.changes = owner.changes, !.targets = Live])
    /\ UNCHANGED <<owner, keys, disarmed, redis>>

KeysBeforeLock(r) == req[r].targets

(* The keys revoke_all_user_keys_in_tx selects, after the lock. *)
KeysSelected(r) == IF Snapshot THEN req[r].targets ELSE Live

LockOwner(r) ==
    /\ req[r].pc = "lock"
    /\ owner.exists /\ OwnerRowFree
    /\ Become(r, [req[r] EXCEPT !.pc = "commit", !.targets = KeysSelected(r)])
    /\ UNCHANGED <<owner, keys, disarmed, redis>>

(* The commit of change_user_authorization.  It fails when a key it writes  *)
(* is gone, or when the owner was loaded before another change              *)
(* (GenerationFencesChanges of SuperuserSet).                               *)
Deactivate(r) ==
    LET targets == req[r].targets IN
    /\ req[r].pc = "commit"
    /\ owner.exists /\ req[r].changes = owner.changes
    /\ \A k \in targets : Issued(k)
    /\ owner' = [owner EXCEPT !.active = FALSE, !.changes = @ + 1]
    /\ keys' = [k \in Keys |-> IF k \in targets THEN Revoked(k) ELSE keys[k]]
    /\ disarmed' = disarmed \cup Live
    /\ Finish(r)
    /\ UNCHANGED redis

(* Reactivation clears no revoked key. *)
Reactivate ==
    /\ owner.exists /\ ~ owner.active
    /\ OwnerRowFree
    /\ owner.changes < ChangeMax
    /\ owner' = [owner EXCEPT !.active = TRUE, !.changes = @ + 1]
    /\ UNCHANGED <<keys, disarmed, redis, req>>

(* The owner is deleted; the keys go with it (ON DELETE CASCADE). *)
DeleteOwner ==
    /\ owner.exists
    /\ OwnerRowFree
    /\ owner' = [owner EXCEPT !.exists = FALSE]
    /\ keys' = [k \in Keys |-> IF Issued(k) THEN [keys[k] EXCEPT !.state = "purged"] ELSE keys[k]]
    /\ UNCHANGED <<disarmed, redis, req>>

-----------------------------------------------------------------------------
(* Audience binding: scripts/bind_api_key_audiences.py *)

(* bind_existing_key_audiences refuses a key that has audiences. *)
LoadForBind(r, k, audiences) ==
    /\ req[r].pc = "idle"
    /\ Issued(k)
    /\ keys[k].audiences = {}
    /\ audiences # {}
    /\ Become(r, [Idle EXCEPT !.op = "bind", !.pc = "write", !.targets = {k},
                              !.audiences = audiences])
    /\ UNCHANGED <<owner, keys, disarmed, redis>>

(* One row per audience; a duplicate violates the primary key. *)
BindAudiences(r) ==
    LET k == CHOOSE x \in req[r].targets : TRUE IN
    /\ req[r].pc = "write"
    /\ req[r].op = "bind"
    /\ Issued(k)
    /\ req[r].audiences \cap keys[k].audiences = {}
    /\ keys' = [keys EXCEPT ![k].audiences = @ \cup req[r].audiences]
    /\ Finish(r)
    /\ UNCHANGED <<owner, disarmed, redis>>

-----------------------------------------------------------------------------
(* Use: get_current_api_key locally, introspect_api_key for a consumer *)

(* get_active_key.  A local use is noted whoever the owner is: the routes   *)
(* that ask for the owner do so after the note, which changes nothing here. *)
ReadKey(r, k, consumer) ==
    /\ req[r].pc = "idle"
    /\ Usable(k)
    /\ Become(r, [Idle EXCEPT !.op = "use", !.targets = {k}, !.audiences = consumer,
                              !.pc = IF consumer = {} THEN "stamp" ELSE "owner"])
    /\ UNCHANGED <<owner, keys, disarmed, redis>>

(* A remote use: resolve_api_key_owner_principal, then the audience. *)
ReadOwner(r) ==
    /\ req[r].pc = "owner"
    /\ owner.exists /\ owner.active
    /\ \A k \in req[r].targets : req[r].audiences \subseteq keys[k].audiences
    /\ Become(r, [req[r] EXCEPT !.pc = "stamp"])
    /\ UNCHANGED <<owner, keys, disarmed, redis>>

(* The end of _apply_rate_limit takes the time, and then writes it into the *)
(* hash, over whatever is there.                                            *)
Stamp(r) ==
    /\ req[r].pc = "stamp"
    /\ now < ClockMax
    /\ now' = now + 1
    /\ Become(r, [req[r] EXCEPT !.pc = "note", !.at = now + 1])
    /\ UNCHANGED <<owner, keys, disarmed, hash, noted, lost, crashes, flush>>

Later(t, u) == IF t < u THEN u ELSE t

Note(r) ==
    LET k == CHOOSE x \in req[r].targets : TRUE
        t == req[r].at
    IN  /\ req[r].pc = "note"
        /\ hash' = [hash EXCEPT ![k] = t]
        /\ noted' = [noted EXCEPT ![k] = Later(@, t)]
        /\ lost' = [lost EXCEPT ![k] = IF t < hash[k] THEN Later(@, hash[k]) ELSE @]
        /\ Finish(r)
        /\ UNCHANGED <<owner, keys, disarmed, now, crashes, flush>>

(* A refusal, an error or a crash of a request. *)
Abandon(r) ==
    /\ req[r].pc # "idle"
    /\ Finish(r)
    /\ UNCHANGED <<owner, keys, disarmed, redis>>

-----------------------------------------------------------------------------
(* Time, and purge_dead_api_keys *)

Expire(k) ==
    /\ Issued(k)
    /\ ~ keys[k].expired
    /\ keys' = [keys EXCEPT ![k].expired = TRUE]
    /\ UNCHANGED <<owner, disarmed, redis, req>>

(* A dead key is purged months after its death (the retention floor), so no *)
(* request has it loaded and its last use has been flushed or lost.         *)
Purgeable(k) ==
    /\ keys[k].state = "revoked" \/ (Issued(k) /\ keys[k].expired)
    /\ hash[k] = 0
    /\ \A f \in Flushers : flush[f].data[k] = 0
    /\ \A r \in Requests : k \notin req[r].targets

(* One batch of _sweep_dead_keys: claimed, deleted with its children,       *)
(* committed.                                                               *)
PurgeKeys(batch) ==
    /\ batch # {}
    /\ Cardinality(batch) <= PurgeBatch
    /\ \A k \in batch : Purgeable(k)
    /\ keys' = [k \in Keys |-> IF k \in batch
                               THEN [keys[k] EXCEPT !.state = "purged"] ELSE keys[k]]
    /\ UNCHANGED <<owner, disarmed, redis, req>>

-----------------------------------------------------------------------------
(* The flush loop: _flush_last_used_at *)

(* HGETALL and DELETE in one MULTI. *)
TakeHash(f) ==
    /\ flush[f].pc = "idle"
    /\ \E k \in Keys : hash[k] # 0
    /\ flush' = [flush EXCEPT ![f] = [pc |-> "load", data |-> hash, writes |-> {}]]
    /\ hash' = [k \in Keys |-> 0]
    /\ UNCHANGED <<owner, keys, disarmed, noted, lost, now, crashes, req>>

AnyInHash(data) == {k \in Keys : Issued(k) /\ data[k] # 0}

NewerThanRow(data) == {k \in Keys : Issued(k) /\ keys[k].used < data[k]}

(* session.get of each row: one that is gone is skipped, one that has a     *)
(* newer time is left.                                                      *)
LoadRows(f) ==
    /\ flush[f].pc = "load"
    /\ flush' = [flush EXCEPT ![f].pc = "commit",
                              ![f].writes = NewerThanRow(flush[f].data)]
    /\ UNCHANGED <<owner, keys, disarmed, hash, noted, lost, now, crashes, req>>

(* Only last_used_at is written (and updated_at, which dates a revocation). *)
Touched(k, time) == [keys[k] EXCEPT !.used = time]

CommitRows(f) ==
    LET q == flush[f] IN
    /\ q.pc = "commit"
    /\ \A k \in q.writes : Issued(k)
    /\ keys' = [k \in Keys |-> IF k \in q.writes THEN Touched(k, q.data[k]) ELSE keys[k]]
    /\ flush' = [flush EXCEPT ![f] = NoFlush]
    /\ UNCHANGED <<owner, disarmed, hash, noted, lost, now, crashes, req>>

(* The latest use lost of each key, when the flush is lost. *)
LostWith(f) == [k \in Keys |-> Later(lost[k], flush[f].data[k])]

(* A row to be written went with its owner since it was loaded: the UPDATE  *)
(* matches nothing and the whole commit fails.  The loop logs it.           *)
FailRows(f) ==
    /\ flush[f].pc = "commit"
    /\ \E k \in flush[f].writes : ~ Issued(k)
    /\ lost' = LostWith(f)
    /\ flush' = [flush EXCEPT ![f] = NoFlush]
    /\ UNCHANGED <<owner, keys, disarmed, hash, noted, now, crashes, req>>

(* A crash, or a database that fails the commit. *)
CrashFlush(f) ==
    /\ flush[f].pc # "idle"
    /\ crashes < CrashBound
    /\ crashes' = crashes + 1
    /\ lost' = LostWith(f)
    /\ flush' = [flush EXCEPT ![f] = NoFlush]
    /\ UNCHANGED <<owner, keys, disarmed, hash, noted, now, req>>

-----------------------------------------------------------------------------
Next ==
    \/ \E r \in Requests :
          \/ \E audiences \in SUBSET Consumers : CountKeys(r, audiences)
          \/ \E k \in Keys :
                \/ InsertKey(r, k)
                \/ LoadKey(r, k)
                \/ \E audiences \in SUBSET Consumers : LoadForBind(r, k, audiences)
                \/ \E consumer \in {{}} \cup {{c} : c \in Consumers} : ReadKey(r, k, consumer)
          \/ RevokeKey(r)
          \/ LoadOwner(r)
          \/ LockOwner(r)
          \/ Deactivate(r)
          \/ BindAudiences(r)
          \/ ReadOwner(r)
          \/ Stamp(r)
          \/ Note(r)
          \/ Abandon(r)
    \/ Reactivate
    \/ DeleteOwner
    \/ \E k \in Keys : Expire(k)
    \/ \E batch \in SUBSET Keys : PurgeKeys(batch)
    \/ \E f \in Flushers :
          \/ TakeHash(f)
          \/ LoadRows(f)
          \/ CommitRows(f)
          \/ FailRows(f)
          \/ CrashFlush(f)

Spec == Init /\ [][Next]_vars

-----------------------------------------------------------------------------
(* Properties *)

(* Every variable has its type, and one deactivation at a time holds the    *)
(* owner's row.                                                             *)
TypeOK ==
    /\ owner \in [exists : BOOLEAN, active : BOOLEAN, changes : 0 .. ChangeMax]
    /\ keys \in [Keys -> Key]
    /\ hash \in [Keys -> Time] /\ noted \in [Keys -> Time] /\ now \in Time
    /\ lost \in [Keys -> Time] /\ disarmed \subseteq Keys
    /\ crashes \in 0 .. CrashBound
    /\ req \in [Requests -> Request]
    /\ flush \in [Flushers -> Flush]
    /\ Cardinality({r \in Requests : req[r].pc = "commit"}) <= 1

Creating == {r \in Requests : req[r].pc = "insert"}

(* The cap is a count followed by an insert (routes/api_keys.py:103): each  *)
(* request in flight may take the usable keys one further, so with one at a *)
(* time the cap holds, and with n of them it is passed by n - 1 at most.    *)
CapExceededOnlyByOverlap ==
    Cardinality({k \in Keys : Usable(k)}) + Cardinality(Creating)
        <= Cap - 1 + Cardinality(Requests)

(* "an incident-response deactivation must not silently re-arm possibly     *)
(* compromised credentials" (revoke_all_user_keys_in_tx): a key that was    *)
(* there when its owner was deactivated, or that was revoked by hand, is    *)
(* never live again.                                                        *)
DisarmedStaysDisarmed == disarmed \cap Live = {}

(* The latest use of a key that was ever in the hash reaches the row, or is *)
(* on the way to it, unless a crash or a failed commit lost it, or a request*)
(* that had taken an earlier time wrote it over (deps.py:405) before the    *)
(* flush.  An earlier time that comes after the flush does not move the row *)
(* back (_flush_last_used_at).                                              *)
NotedUseSurvives ==
    \A k \in Keys :
        Issued(k) =>
            noted[k] <= Max({lost[k], hash[k], keys[k].used}
                               \cup {flush[f].data[k] : f \in Flushers})
=============================================================================

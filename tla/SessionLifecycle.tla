-------------------------- MODULE SessionLifecycle --------------------------
(***************************************************************************)
(* The login sessions of one account: issue, refresh, logout, revocation   *)
(* and introspection of token pairs (routes/login.py, routes/sessions.py,  *)
(* services/auth.py, services/client_sessions.py, services/generation.py), *)
(* over the ClientSession table, the Redis refresh allowlist and the Redis *)
(* access blacklist.                                                       *)
(*                                                                         *)
(* A request is a sequence of database statements and Redis calls; between *)
(* two of them other requests run.  A flush and its commit are one step.   *)
(* The access and the refresh token of a pair share one JTI, so a pair is  *)
(* its JTI.  The authorization generation stands for the claims (role,     *)
(* activation) a token was signed with: by GenerationFencesChanges of      *)
(* SuperuserSet a change of either moves the generation by one.            *)
(*                                                                         *)
(* An operator that is defined and not used (NoUserLock, VisibleNow,       *)
(* ...) is a faulty variant of the definition after it; PROJECT.json says  *)
(* which property it breaks.                                               *)
(*                                                                         *)
(* Not part of the state: token expiry, rate limits, the external (Google) *)
(* tokens, the events of the SSE stream (EventHub).                        *)
(***************************************************************************)
EXTENDS Integers, FiniteSets

CONSTANTS
    Requests,   \* requests in flight
    Jti,        \* JTIs; the bound on the token pairs ever signed
    NoJti,
    GenMax,     \* bound on the generation (a ceiling far below the code's)
    Deployments \* the deployments to be examined

(* ops        : which kinds of requests arrive                              *)
(* overlap    : bound on the requests in flight at a time                   *)
(* stateful   : TOKEN_MODE is stateful (else hybrid)                        *)
(* failOpen   : REFRESH_VALIDATION_FAILURE_MODE is fail_open                *)
(* writeOpen  : SESSION_WRITE_FAILURE_MODE is fail_open (logout asks it)    *)
(* snapshot   : plain reads are REPEATABLE READ (MySQL, MariaDB), not       *)
(*              READ COMMITTED (PostgreSQL)                                 *)
(* redisFails : Redis may become unreachable                                *)

OpKinds == {"login", "refresh", "logout", "revoke_all", "revoke_one",
            "change", "delete", "delete_me", "introspect"}

ASSUME NoJtiAssumption == NoJti \notin Jti
ASSUME GenMaxAssumption == GenMax \in Nat \ {0}
ASSUME DeploymentsAssumption ==
    \A d \in Deployments :
        /\ d.ops \subseteq OpKinds
        /\ d.overlap \in Nat
        /\ {d.stateful, d.failOpen, d.writeOpen, d.snapshot, d.redisFails} \subseteq BOOLEAN

VARIABLES
    site,       \* the deployment; fixed for a behaviour
    account,    \* the user row and the deletion tombstone
    rows,       \* the ClientSession table
    allow,      \* Redis refresh allowlist
    black,      \* Redis access blacklist
    redisUp,    \* Redis answers
    effects,    \* Redis calls the outbox owes for its undelivered rows
    claims,     \* generation each JTI was signed with; 0 before
    issued,     \* JTIs whose pair was returned to the client
    spent,      \* history: JTIs exchanged by a successful refresh
    loggedOut,  \* history: JTIs of successful logouts
    split,      \* history: the account had two session rows at a time
    req         \* the requests

store == <<account, rows>>
redis == <<allow, black, redisUp>>
tokens == <<claims, issued, spent, loggedOut, split>>
vars == <<site, store, redis, effects, tokens, req>>

Gen == 1 .. GenMax
SessionRow == [id : Jti, jti : Jti, stamp : Gen]
NoRow == [id |-> NoJti, jti |-> NoJti, stamp |-> 0]

Request ==
    [op : OpKinds \cup {"none"},
     pc : {"idle", "lock", "lineage", "rotate", "select", "flush", "register",
           "capture", "erase", "accelerate", "drop", "blacklist", "forget",
           "forget_row", "session", "owner"},
     redis : BOOLEAN,               \* the request got a Redis client
     gen : 0 .. GenMax,             \* generation of the loaded user
     old : Jti \cup {NoJti},        \* the JTI presented, or being revoked
     new : Jti \cup {NoJti},        \* the JTI signed; in a logout, the one
                                    \* a successful revocation returned
     row : SessionRow \cup {NoRow}, \* the loaded session object
     view : SUBSET SessionRow,      \* the snapshot of plain reads
     targets : SUBSET Jti,          \* captured for the accelerators
     failed : BOOLEAN,              \* a part of the logout failed
     lineage : Jti \cup {NoJti},    \* history: id of the row that was checked
     valid : BOOLEAN]               \* history: Current(old) when row was read

Idle ==
    [op |-> "none", pc |-> "idle", redis |-> FALSE, gen |-> 0, old |-> NoJti,
     new |-> NoJti, row |-> NoRow, view |-> {}, targets |-> {},
     failed |-> FALSE, lineage |-> NoJti, valid |-> FALSE]

Running(r) == req[r].pc # "idle"

(* A request of kind op may arrive and be carried out as r. *)
Arrives(op, r) ==
    /\ op \in site.ops
    /\ ~ Running(r)
    /\ Cardinality({q \in Requests : Running(q)}) < site.overlap

(* The row of the user is locked FOR UPDATE until the commit. *)
UserLocked ==
    \E r \in Requests :
        \/ req[r].op = "refresh"
              /\ req[r].pc \in {"lineage", "rotate", "select", "flush", "capture", "erase"}
        \/ req[r].op = "change" /\ req[r].pc = "erase"

NoUserLock == TRUE
UserLockFree == ~ UserLocked

(* is_session_generation_stale (a row always has a stamp here). *)
Stale(stamp, gen) == stamp # gen

OwnerVouches(stamp) ==
    account.exists /\ account.active /\ ~ Stale(stamp, account.gen)

(* decide_jti_status, evaluated at one instant. *)
Current(j) ==
    /\ ~ account.tombstone
    /\ \E s \in rows : s.jti = j /\ OwnerVouches(s.stamp)

Fresh == {j \in Jti : claims[j] = 0}

Become(r, q) == req' = [req EXCEPT ![r] = q]
Goto(r, pc) == Become(r, [req[r] EXCEPT !.pc = pc])
Finish(r) == Become(r, Idle)

VisibleNow(r) == rows

(* What a plain SELECT of the session table returns to request r. *)
Visible(r) == IF site.snapshot THEN req[r].view ELSE rows
SnapshotNow == IF site.snapshot THEN rows ELSE {}

-----------------------------------------------------------------------------
Init ==
    /\ site \in Deployments
    /\ account = [exists |-> TRUE, active |-> TRUE, gen |-> 1, tombstone |-> FALSE]
    /\ rows = {}
    /\ allow = {}
    /\ black = {}
    /\ redisUp = TRUE
    /\ effects = {}
    /\ claims = [j \in Jti |-> 0]
    /\ issued = {}
    /\ spent = {}
    /\ loggedOut = {}
    /\ split = FALSE
    /\ req = [r \in Requests |-> Idle]

(* get_redis_client: a client, or none while Redis is down and, with the    *)
(* circuit breaker still open, for a while after.                           *)
Clients == {redisUp} \cup (IF site.redisFails THEN {FALSE} ELSE {})

Arrive(op, pc, client) == [Idle EXCEPT !.op = op, !.pc = pc, !.redis = client]

-----------------------------------------------------------------------------
(* Login: password or OAuth callback *)

(* authenticate reads the user without a lock; the tokens are signed from   *)
(* that copy.                                                               *)
Authenticate(r, j, client) ==
    /\ Arrives("login", r)
    /\ account.exists /\ account.active
    /\ j \in Fresh
    /\ claims' = [claims EXCEPT ![j] = account.gen]
    /\ Become(r, [Arrive("login", "select", client) EXCEPT
                     !.gen = account.gen, !.new = j, !.view = SnapshotNow])
    /\ UNCHANGED <<site, store, redis, effects, issued, spent, loggedOut, split>>

(* create_client_session: any session row of the user.  No object of the    *)
(* row is left from an earlier read of the request, so this one is loaded.  *)
SelectSession(r) ==
    /\ req[r].pc = "select"
    /\ \E s \in IF Visible(r) = {} THEN {NoRow} ELSE Visible(r) :
          Become(r, [req[r] EXCEPT !.pc = "flush", !.row = s])
    /\ UNCHANGED <<site, store, redis, effects, tokens>>

RestampedOnly(s, q) == [s EXCEPT !.stamp = q.gen]

(* The UPDATE of a loaded row writes the JTI, and the stamp only when it    *)
(* differs from the loaded one.                                             *)
Restamped(s, q) ==
    [s EXCEPT !.jti = q.new,
              !.stamp = IF q.gen # q.row.stamp THEN q.gen ELSE @]

UpsertRereading(q) ==
    IF q.row = NoRow
    THEN rows \cup {[id |-> q.new, jti |-> q.new, stamp |-> account.gen]}
    ELSE {IF s.id = q.row.id THEN Restamped(s, q) ELSE s : s \in rows}

Upsert(q) ==
    IF q.row = NoRow
    THEN rows \cup {[id |-> q.new, jti |-> q.new, stamp |-> q.gen]}
    ELSE {IF s.id = q.row.id THEN Restamped(s, q) ELSE s : s \in rows}

(* An UPDATE that matches no row, or an INSERT without its user, fails.     *)
CanFlush(q) ==
    IF q.row = NoRow THEN account.exists ELSE \E s \in rows : s.id = q.row.id

TwoRows(R) == \E s, t \in R : s # t

(* An INSERT checks its foreign key, for which the user row must not be     *)
(* locked by another request.                                               *)
FlushLogin(r) ==
    /\ req[r].pc = "flush"
    /\ req[r].op = "login"
    /\ CanFlush(req[r])
    /\ req[r].row = NoRow => UserLockFree
    /\ rows' = Upsert(req[r])
    /\ split' = (split \/ TwoRows(rows'))
    /\ Goto(r, "register")
    /\ UNCHANGED <<site, account, redis, effects, claims, issued, spent, loggedOut>>

(* The refresh token is allowed in Redis, when there is one; the response   *)
(* is sent.                                                                 *)
Register(r) ==
    /\ req[r].pc = "register"
    /\ req[r].redis => redisUp
    /\ allow' = IF req[r].redis THEN allow \cup {req[r].new} ELSE allow
    /\ issued' = issued \cup {req[r].new}
    /\ Finish(r)
    /\ UNCHANGED <<site, store, black, redisUp, effects, claims, spent, loggedOut, split>>

-----------------------------------------------------------------------------
(* Refresh *)

(* _check_refresh_allowlist *)
PresentRefresh(r, j, client) ==
    /\ Arrives("refresh", r)
    /\ j \in issued
    /\ IF client THEN j \in allow ELSE site.failOpen
    /\ Become(r, [Arrive("refresh", "lock", client) EXCEPT !.old = j])
    /\ UNCHANGED <<site, store, redis, effects, tokens>>

(* reload_persisted_user_for_signing *)
ReloadUser(r) ==
    /\ req[r].pc = "lock"
    /\ UserLockFree
    /\ account.exists /\ account.active
    /\ Become(r, [req[r] EXCEPT !.pc = "lineage", !.gen = account.gen])
    /\ UNCHANGED <<site, store, redis, effects, tokens>>

(* refresh_lineage_is_current, then create_auth_tokens. *)
CheckLineage(r, s, j) ==
    /\ req[r].pc = "lineage"
    /\ s \in rows /\ s.jti = req[r].old
    /\ ~ Stale(s.stamp, req[r].gen)
    /\ j \in Fresh
    /\ claims' = [claims EXCEPT ![j] = req[r].gen]
    /\ Become(r, [req[r] EXCEPT !.pc = "rotate", !.new = j, !.lineage = s.id,
                                !.view = SnapshotNow])
    /\ UNCHANGED <<site, store, redis, effects, issued, spent, loggedOut, split>>

(* RedisRefreshStore.rotate: the Lua script swaps both keys at once.  A     *)
(* missing key is taken for reuse: revoke_all_user_sessions.                *)
Rotate(r) ==
    LET q == req[r] IN
    /\ q.pc = "rotate"
    /\ q.redis => redisUp
    /\ IF q.redis /\ q.old \notin allow
       THEN Goto(r, "capture") /\ UNCHANGED allow
       ELSE /\ Goto(r, "select")
            /\ allow' = IF q.redis THEN (allow \ {q.old}) \cup {q.new} ELSE allow
    /\ UNCHANGED <<site, store, black, redisUp, effects, tokens>>

FlushRefresh(r) ==
    /\ req[r].pc = "flush"
    /\ req[r].op = "refresh"
    /\ CanFlush(req[r])
    /\ rows' = Upsert(req[r])
    /\ split' = (split \/ TwoRows(rows'))
    /\ issued' = issued \cup {req[r].new}
    /\ spent' = spent \cup {req[r].old}
    /\ Finish(r)
    /\ UNCHANGED <<site, account, redis, effects, claims, loggedOut>>

-----------------------------------------------------------------------------
(* Logout with the pair j *)

(* _delete_session_rows_by_jti *)
RowsWithout(j) == {s \in rows : s.jti # j}

(* Stateful: _revoke_access_jti deletes the row first, then blacklists; an  *)
(* exception in either is a failed part.  Hybrid: the access token is not   *)
(* revoked.                                                                 *)
Logout(r, j, client) ==
    /\ Arrives("logout", r)
    /\ j \in issued
    /\ \/ /\ site.stateful
          /\ rows' = RowsWithout(j)
          /\ Become(r, [Arrive("logout", "blacklist", client) EXCEPT !.old = j])
       \/ /\ Become(r, [Arrive("logout", "forget", client) EXCEPT
                            !.old = j, !.failed = site.stateful])
          /\ UNCHANGED rows
    /\ UNCHANGED <<site, account, redis, effects, tokens>>

(* The JTI the part of the logout returns, and whether any part failed.     *)
Part(q, pc, jti, failed) ==
    [q EXCEPT !.pc = pc, !.new = jti, !.failed = @ \/ failed]

Blacklist(r) ==
    LET q == req[r] IN
    /\ q.pc = "blacklist"
    /\ IF q.redis /\ ~ redisUp
       THEN Become(r, Part(q, "forget", NoJti, TRUE)) /\ UNCHANGED black
       ELSE /\ Become(r, Part(q, "forget", q.old, FALSE))
            /\ black' = IF q.redis THEN black \cup {q.old} ELSE black
    /\ UNCHANGED <<site, store, allow, redisUp, effects, tokens>>

(* _revoke_refresh_jti: a call that raises has failed; without a client the *)
(* mode of session writes says so.                                          *)
ForgetRefresh(r) ==
    LET q == req[r] IN
    /\ q.pc = "forget"
    /\ IF q.redis /\ redisUp
       THEN /\ allow' = allow \ {q.old}
            /\ Become(r, Part(q, "forget_row", q.old, FALSE))
       ELSE /\ Become(r, Part(q, "forget_row", q.new, q.redis \/ ~ site.writeOpen))
            /\ UNCHANGED allow
    /\ UNCHANGED <<site, store, black, redisUp, effects, tokens>>

ConfirmsAnyhow(q) == TRUE

(* A failed part is answered 503, unless session writes fail open.          *)
Confirms(q) == ~ q.failed \/ site.writeOpen

(* _delete_db_session, by the JTI the parts before it returned, and the     *)
(* answer.  A delete that raises is a failed part too.                      *)
ForgetRow(r) ==
    LET q == req[r] IN
    /\ q.pc = "forget_row"
    /\ \/ /\ rows' = IF q.new = NoJti THEN rows ELSE RowsWithout(q.new)
          /\ loggedOut' = loggedOut \cup IF Confirms(q) THEN {q.old} ELSE {}
       \/ /\ q.new # NoJti /\ site.writeOpen
          /\ loggedOut' = loggedOut \cup {q.old}
          /\ UNCHANGED rows
    /\ Finish(r)
    /\ UNCHANGED <<site, account, redis, effects, claims, issued, spent, split>>

-----------------------------------------------------------------------------
(* Administrative revocation and the reuse response *)

JtisOf(R) == {s.jti : s \in R}

(* delete_sessions_by_user: a first step that captures the sessions.        *)
RevokeAll(r, client) ==
    /\ Arrives("revoke_all", r)
    /\ Become(r, [Arrive("revoke_all", "erase", client) EXCEPT !.targets = JtisOf(rows)])
    /\ UNCHANGED <<site, store, redis, effects, tokens>>

(* A refresh whose rotation found no key: revoke_all_user_sessions.         *)
CaptureSessions(r) ==
    /\ req[r].pc = "capture"
    /\ req[r].op = "refresh"
    /\ Become(r, [req[r] EXCEPT !.pc = "erase", !.targets = JtisOf(Visible(r))])
    /\ UNCHANGED <<site, store, redis, effects, tokens>>

EraseSessions(r) ==
    /\ req[r].pc = "erase"
    /\ req[r].op \in {"revoke_all", "refresh"}
    /\ rows' = {}
    /\ Goto(r, "accelerate")
    /\ UNCHANGED <<site, account, redis, effects, tokens>>

(* delete_session: the row is loaded, then deleted by its id. *)
RevokeOne(r, s, client) ==
    /\ Arrives("revoke_one", r)
    /\ s \in rows
    /\ Become(r, [Arrive("revoke_one", "erase", client) EXCEPT
                     !.row = s, !.targets = {s.jti}])
    /\ UNCHANGED <<site, store, redis, effects, tokens>>

EraseSession(r) ==
    /\ req[r].pc = "erase"
    /\ req[r].op = "revoke_one"
    /\ rows' = {s \in rows : s.id # req[r].row.id}
    /\ Goto(r, "accelerate")
    /\ UNCHANGED <<site, account, redis, effects, tokens>>

(* apply_post_commit_revocation: for each captured JTI a call that          *)
(* blacklists it, and one that drops it from the allowlist.                 *)
BlacklistTarget(r, j) ==
    /\ req[r].pc = "accelerate"
    /\ req[r].redis /\ redisUp
    /\ j \in req[r].targets
    /\ black' = black \cup {j}
    /\ Become(r, [req[r] EXCEPT !.pc = "drop", !.old = j, !.targets = @ \ {j}])
    /\ UNCHANGED <<site, store, allow, redisUp, effects, tokens>>

DropTarget(r) ==
    /\ req[r].pc = "drop"
    /\ redisUp
    /\ allow' = allow \ {req[r].old}
    /\ Goto(r, "accelerate")
    /\ UNCHANGED <<site, store, black, redisUp, effects, tokens>>

-----------------------------------------------------------------------------
(* Role or activation change, and deletion, of the account *)

SameGeneration(g) == g
GenerationLeftAtCeiling(g) == g <= GenMax

(* next_generation: the successor, and nothing at the ceiling. *)
NextGeneration(g) == g + 1
GenerationLeft(g) == g < GenMax

BeginChange(r) ==
    /\ Arrives("change", r)
    /\ Become(r, [Arrive("change", "capture", FALSE) EXCEPT !.view = SnapshotNow])
    /\ UNCHANGED <<site, store, redis, effects, tokens>>

(* Locks the user row and captures the sessions. *)
LockAndCapture(r) ==
    /\ req[r].pc = "capture"
    /\ req[r].op = "change"
    /\ UserLockFree
    /\ account.exists
    /\ GenerationLeft(account.gen)
    /\ Become(r, [req[r] EXCEPT !.pc = "erase", !.targets = JtisOf(Visible(r))])
    /\ UNCHANGED <<site, store, redis, effects, tokens>>

(* _revoke_and_enqueue_authorization_change, committed. *)
CommitChange(r, active) ==
    /\ req[r].pc = "erase"
    /\ req[r].op = "change"
    /\ account' = [account EXCEPT !.gen = NextGeneration(@), !.active = active]
    /\ rows' = {}
    /\ effects' = effects \cup (req[r].targets \X {"blacklist"})
    /\ Finish(r)
    /\ UNCHANGED <<site, redis, tokens>>

(* delete_user_account *)
DeleteAccount ==
    /\ "delete" \in site.ops
    /\ UserLockFree
    /\ account.exists
    /\ account' = [account EXCEPT !.exists = FALSE, !.tombstone = TRUE]
    /\ rows' = {}
    /\ UNCHANGED <<site, redis, effects, tokens, req>>

(* delete_user_me: the session rows go with the user row. *)
DeleteMe ==
    /\ "delete_me" \in site.ops
    /\ UserLockFree
    /\ account.exists
    /\ account' = [account EXCEPT !.exists = FALSE]
    /\ rows' = {}
    /\ UNCHANGED <<site, redis, effects, tokens, req>>

(* A drain of the revocation outbox (_apply_effect): a row is delivered     *)
(* when both calls have returned, and may be tried again before that.       *)
DeliverBlacklist(j) ==
    /\ <<j, "blacklist">> \in effects
    /\ redisUp
    /\ black' = black \cup {j}
    /\ effects' = effects \cup {<<j, "allowlist">>}
    /\ UNCHANGED <<site, store, allow, redisUp, tokens, req>>

DeliverAllowlist(j) ==
    /\ <<j, "allowlist">> \in effects
    /\ redisUp
    /\ allow' = allow \ {j}
    /\ effects' = effects \ ({j} \X {"blacklist", "allowlist"})
    /\ UNCHANGED <<site, store, black, redisUp, tokens, req>>

-----------------------------------------------------------------------------
(* Introspection: check_jti_status makes three reads, in this order *)

AskTombstone(r, j, client) ==
    /\ Arrives("introspect", r)
    /\ j \in issued
    /\ ~ account.tombstone
    /\ Become(r, [Arrive("introspect", "session", client) EXCEPT !.old = j])
    /\ UNCHANGED <<site, store, redis, effects, tokens>>

AskSession(r, s) ==
    /\ req[r].pc = "session"
    /\ s \in rows /\ s.jti = req[r].old
    /\ Become(r, [req[r] EXCEPT !.pc = "owner", !.row = s,
                                !.valid = Current(req[r].old)])
    /\ UNCHANGED <<site, store, redis, effects, tokens>>

(* The answer is "active". *)
AnswerActive(r) ==
    /\ req[r].pc = "owner"
    /\ OwnerVouches(req[r].row.stamp)
    /\ ~ (req[r].redis /\ redisUp /\ req[r].old \in black)
    /\ Finish(r)
    /\ UNCHANGED <<site, store, redis, effects, tokens>>

-----------------------------------------------------------------------------
(* Any other end of a request: an answer that changes nothing more, a       *)
(* refusal, an error, a crash.  What it committed stays.                    *)
Abandon(r) ==
    /\ Running(r)
    /\ Finish(r)
    /\ UNCHANGED <<site, store, redis, effects, tokens>>

RedisDown ==
    /\ site.redisFails
    /\ redisUp
    /\ redisUp' = FALSE
    /\ UNCHANGED <<site, store, allow, black, effects, tokens, req>>

(* Redis comes back with its keys, or empty. *)
RedisBack ==
    /\ ~ redisUp
    /\ redisUp' = TRUE
    /\ \/ UNCHANGED <<allow, black>>
       \/ allow' = {} /\ black' = {}
    /\ UNCHANGED <<site, store, effects, tokens, req>>

Next ==
    \/ \E r \in Requests, client \in Clients :
          \/ \E j \in Jti :
                \/ Authenticate(r, j, client)
                \/ PresentRefresh(r, j, client)
                \/ Logout(r, j, client)
                \/ AskTombstone(r, j, client)
          \/ RevokeAll(r, client)
          \/ \E s \in rows : RevokeOne(r, s, client)
    \/ \E r \in Requests :
          \/ \E s \in rows, j \in Jti : CheckLineage(r, s, j)
          \/ \E s \in rows : AskSession(r, s)
          \/ SelectSession(r)
          \/ FlushLogin(r)
          \/ Register(r)
          \/ ReloadUser(r)
          \/ Rotate(r)
          \/ FlushRefresh(r)
          \/ Blacklist(r)
          \/ ForgetRefresh(r)
          \/ ForgetRow(r)
          \/ CaptureSessions(r)
          \/ EraseSessions(r)
          \/ EraseSession(r)
          \/ \E j \in Jti : BlacklistTarget(r, j)
          \/ DropTarget(r)
          \/ BeginChange(r)
          \/ LockAndCapture(r)
          \/ \E active \in BOOLEAN : CommitChange(r, active)
          \/ AnswerActive(r)
          \/ Abandon(r)
    \/ DeleteAccount
    \/ DeleteMe
    \/ \E j \in Jti : DeliverBlacklist(j) \/ DeliverAllowlist(j)
    \/ RedisDown
    \/ RedisBack

Spec == Init /\ [][Next]_vars

-----------------------------------------------------------------------------
(* Properties *)

(* Every variable has its type. *)
TypeOK ==
    /\ site \in Deployments
    /\ account \in [exists : BOOLEAN, active : BOOLEAN, gen : Gen, tombstone : BOOLEAN]
    /\ rows \subseteq SessionRow
    /\ allow \subseteq Jti /\ black \subseteq Jti
    /\ effects \subseteq Jti \X {"blacklist", "allowlist"}
    /\ redisUp \in BOOLEAN
    /\ claims \in [Jti -> 0 .. GenMax]
    /\ issued \subseteq Jti /\ spent \subseteq Jti /\ loggedOut \subseteq Jti
    /\ split \in BOOLEAN
    /\ req \in [Requests -> Request]

(* "A Redis failure can never re-activate a database-inactive session"      *)
(* (README:549): once the database denies a token in a client's hands, no   *)
(* later step makes it good again.                                          *)
NeverReactivated ==
    [][\A j \in issued : ~ Current(j) => ~ Current(j)']_vars

(* A refresh that is answered carries the claims the account has at its     *)
(* commit (reload_persisted_user_for_signing).                              *)
RefreshSignsCurrentClaims ==
    [][\A r \in Requests : FlushRefresh(r) =>
          /\ account.exists /\ account.active
          /\ claims[req[r].new] = account.gen]_vars

(* A refresh token is exchanged at most once: where the allowlist must be   *)
(* asked (fail_closed) whatever becomes of Redis, and where it may be       *)
(* skipped (fail_open) as long as the account has one session row, by the   *)
(* user lock and the lineage check.  First logins that overlap insert one   *)
(* row each; a refresh without Redis may then move the other row than the   *)
(* one it checked (create_client_session takes any), and leave its own.     *)
SingleUse ==
    [][\A r \in Requests :
          FlushRefresh(r) /\ req[r].old \in spent => site.failOpen /\ split]_vars

(* Where session writes fail closed, a logout that was confirmed has undone *)
(* both halves of the pair, whichever of its database and Redis calls       *)
(* failed, and neither comes back (logout).                                 *)
LogoutIsFinal ==
    ~ site.writeOpen =>
        /\ \A s \in rows : s.jti \notin loggedOut
        /\ allow \cap loggedOut = {}

(* The three reads of an introspection are as good as one: a token answered *)
(* active was current when its session row was read.                        *)
ActiveAnswerWasTrue ==
    [][\A r \in Requests : AnswerActive(r) => req[r].valid]_vars

(* The generation makes "every session issued before time T is invalid"     *)
(* race-proof (generation.py): whatever the interleaving, a token that the  *)
(* database vouches for carries the current claims.                         *)
GenerationRaceProof ==
    \A j \in Jti : Current(j) => claims[j] = account.gen

(* What is left of it: it holds where plain reads repeat (MySQL, MariaDB).  *)
SnapshotRaceProof == site.snapshot => GenerationRaceProof

(* The row whose JTI and stamp were checked is still in the table. *)
ExtendsLiveLineage(r) ==
    FlushRefresh(r) => \E s \in rows : s.id = req[r].lineage

(* "a refresh racing a revocation must not preserve the superseded session  *)
(* lineage" (routes/login.py): when it commits, the session row it checked  *)
(* is still there.                                                          *)
RefreshExtendsLiveLineage ==
    [][\A r \in Requests : ExtendsLiveLineage(r)]_vars

(* What is left of it: it holds where plain reads repeat and the account    *)
(* has one session row.  The refresh then finds, a Redis call later, the    *)
(* row it checked and no other, and its UPDATE fails when a revocation has  *)
(* removed that row (create_client_session).  With two rows it may select   *)
(* the other one.                                                           *)
SnapshotKeepsLineage ==
    [][site.snapshot /\ ~ split =>
          \A r \in Requests :
             /\ ExtendsLiveLineage(r)
             /\ FlushRefresh(r) => req[r].row.id = req[r].lineage]_vars
=============================================================================

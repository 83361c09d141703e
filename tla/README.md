# A TLA+ model of fa-auth-m8

fa-auth-m8 is an authentication issuer: a FastAPI service over a SQL database
(PostgreSQL, MySQL or MariaDB) and Redis. It signs access and refresh tokens,
keeps the sessions behind them, answers other services whether a token is still
good, and pushes revocations to them. Handlers are plain functions that run in
worker threads, several at a time and in several replicas; what keeps them apart
is row locks, unique keys and the order of commits and Redis calls. That order is
what these modules are about.

Paths below are relative to `src/auth_user_service/` unless they begin with
`src/`.

## 1. The system

### Parts, state, operations

| Part | State it keeps | Operations that change it | What makes it correct |
| --- | --- | --- | --- |
| Role administration (`services/role_admin.py`, `routes/users.py`, `services/users.py`) | user rows (role, `is_superuser`, `is_active`, `auth_generation`), the singleton policy row | update, delete, create, seed at start, self-delete (`routes/profile.py`) | once seeded, the set of active superusers is never emptied; role and flag agree; no self-promotion |
| Authorization generation and tombstones (`services/generation.py`) | a counter per user, a tombstone per deleted user | bump with every role/activation change, max upsert at deletion | two changes never share a generation; a tombstone lies above every session |
| Sessions and tokens (`routes/login.py`, `routes/sessions.py`, `services/auth.py`, `services/client_sessions.py`) | one `ClientSession` row per user (JTI, generation stamp), Redis refresh allowlist, Redis access blacklist | login, refresh (rotation), logout, revoke one, revoke all, reuse response, expiry purge | revoked stays revoked, a refresh token is good once, a refresh signs current claims |
| Introspection (`routes/private.py`, `GenerationController.decide_jti_status`) | none | `jti-status` v1 and v2, API-key introspection | "active" is only said of a token that was good |
| Revocation outbox (`services/outbox.py`, drain loop in `main.py`) | outbox rows: status, attempts, lease, retry time | enqueue in the change's transaction, claim, deliver, record, reap | every effect is delivered or dead-lettered, over crashes and overlapping drains |
| Event stream (`events/hub.py`) | ring buffer, subscribers with bounded queues, epoch and sequence number | publish, fan-out, connect and resume, back-pressure cut-off, close | a consumer gets each event once and in order, or a gap signal |
| OAuth bridge (`routes/oauth_login.py`, `routes/google_auth.py`) | Redis: OAuth states and one-time codes | login URL, callback, exchange | the exchange of a code gives tokens once, to the client that asked for the URL; a failed callback may be repeated |
| API keys (`services/api_keys.py`, `routes/api_keys.py`) | key rows, audiences | create, revoke, revoke all on deactivation, bind audiences, use, introspect, purge | cap on live keys, disarmed stays disarmed, audiences settled |
| Rate limiters (`core/client.py`) | counters with a TTL | count, reset | a window ends: no counter stays without a TTL |
| `last_used_at` write-behind (`main.py`, `core/deps.py`) | a Redis hash | note a use, flush | the latest note in the hash reaches the row |
| Audit and purge (`services/audit.py`; `src/examples/fastapi_full/app/` has the same trail) | audit rows | record in the caller's transaction, batched purge | an action and its record commit together; purges account for what they removed |
| Cutover from 1.x (`services/security_preflight.py`, `services/legacy_session_revocation.py`, the generation migrations, `scripts/pre_start.sh`) | user rows, session rows, schema revision | Expand, repair one row, revoke legacy sessions, Enforce | the new issuer never serves what the old one left; no repair removes a superuser |
| Credentials (`core/config.py`, `core/key_ids.py`, `routes/jwks.py`, `core/consumer_registry.py`, `services/service_token.py`) | settings on disk and as loaded; consumers' cached key sets; service tokens; open event streams | rotate, leak cut-over, roll back, close the window, edit the registry, redeploy, exchange, open a stream | no gap for live tokens; what was withdrawn loses its power in time |
| Health, dashboard, metrics, error mapping, Alembic wiring, lint guard | none that another part reads | | |

### How they interact

* Role administration writes user rows, session rows, tombstones and outbox rows
  in one transaction. The outbox later calls the Redis blacklist, the refresh
  allowlist and the event hub.
* Session routes commit to the database first and then call Redis and the hub,
  without a transaction around both.
* A refresh locks the user's row, which is also what a role change locks; login
  and revocation do not lock it.
* The hub is called from worker threads and hops to the event loop.
* Consumers ask `jti-status` (database first, blacklist after) and may listen to
  the hub.
* Deactivation revokes the account's API keys in the transaction of role
  administration. A use of a key reads the key, asks for its owner (a remote use:
  before it is noted; a local one: after, or never), passes the limiters, and
  leaves a note in the Redis hash that `main.py` flushes.
* The OAuth exchange and the password login pass the login limiters; the callback
  opens a session as a login does.
* The audit trail, the cutover and the replacement of credentials are procedures
  of an operator. They share no state with one another.

### What is hard

Copies loaded before a lock and used after it (`role_admin.py:198`,
`routes/users.py:258`); flushes that write only changed columns; select-then-write
of the session row; several commits and Redis writes in one request; Redis that
fails, comes back empty, or fails between two calls; drains that die or outlast
their lease; queues at their limit and buffers that have evicted; restarts;
counters whose expiry is a second command; a count followed by an insert; caches
and tokens that outlive what they were derived from; maintenance steps taken in
another order than the documented one.
`PROJECT.json` lists each of these at its line under `hazards`, with the
properties that watch it.

## 2. Modules

| Module | Models |
| --- | --- |
| `SuperuserRoster` | abstract: the superuser set changes by one account at a time and is never emptied |
| `SuperuserSet` | role administration against one database |
| `SuperuserSet_proofs` | theorems about `SuperuserSet` |
| `SessionLifecycle` | sessions, tokens and introspection of one account |
| `RevocationOutbox` | the outbox and its drains |
| `EventFeed` | abstract: what the stream promises a consumer |
| `EventHub` | the hub and its streams |
| `ApiKeys` | the API keys of one account and the write-behind of their last use |
| `RateLimiter` | the fixed-window limiters |
| `SignIn` | abstract: what the bridge promises a person who signs in |
| `OAuthBridge` | sign-in through Google; extends `RateLimiter`, which its exchange passes |
| `AuditTrail` | audit rows, the changes they describe, the retention purge |
| `Cutover` | the maintenance sequence from 1.x to 2.0 |
| `Credentials` | replacement of signing keys, refresh secret and consumers' scopes |
| `Operations` | composes the last three: a behaviour follows one of the procedures |
| `SessionLifecycle_proofs`, `RevocationOutbox_proofs`, `EventHub_proofs`, `ApiKeys_proofs`, `OAuthBridge_proofs`, `Operations_proofs` | theorems about these components (`OAuthBridge_proofs`: also `RateLimiter`; `Operations_proofs`: `AuditTrail`, `Cutover` and `Credentials`) |
| `MC...` | instances for TLC: symmetry sets, deployments, limits (outbox and hub need none) |

An operator that is defined right before another and used nowhere is a faulty
variant of it (a dropped guard, an off-by-one, a stale read). `PROJECT.json`
(`mutants`) pairs each property with the variant that breaks it.

### SuperuserSet

A handler is two steps: load the target (`LoadUpdate`, `LoadDelete`), then under
the locks decide (`Acquire` or `Refuse`) and commit (`CommitUpdate`,
`CommitDelete`), with an `Abort` from anywhere. The loaded copy stays in
`req[r].loaded` because `SELECT ... FOR UPDATE` does not refresh a loaded object;
`Merge` is the unit-of-work flush of the columns that differ from that copy.
The database starts empty and `Seed` (`initial_user_db`) comes before any
request, as in `scripts/pre_start.sh`.
`minted` keeps the role claims of tokens that may still be used, since the
superuser dependency reads claims; nothing expires them, so an actor may be
arbitrarily late. `outbox` keeps only the unique key of the user-wide publish
row: it is what stops two changes that computed the same generation. `Reap` drops
a key. With `RetentionCoversRequests` no request in flight is older than the
retention (the default retention is an hour). The setting may be 0
(`core/config.py:169`); the guarantees are stated under the assumption.

### SessionLifecycle

A request is a program counter over its statements: for a refresh `lock`,
`lineage`, `rotate`, `select`, `flush`. A step is one statement, or a flush with
its commit, or one Redis call: the blacklist and the allowlist are written by
steps of their own in a logout (`Blacklist`, `ForgetRefresh`), after a revocation
(`BlacklistTarget`, `DropTarget`) and by the outbox (`DeliverBlacklist`,
`DeliverAllowlist`), and the Lua script of a rotation is one call. `Abandon` ends
a request between any two. The
variable `site` is the deployment a behaviour takes place in, one of the constant
`Deployments`: which requests arrive and how many overlap, stateful or hybrid
mode, refresh validation failing open or closed, session writes failing open or
closed, plain reads that repeat (`snapshot`: MySQL, MariaDB) or not (PostgreSQL),
Redis failing or not. `SESSION_WRITE_FAILURE_MODE` (README:598: what a logout
does when its revocation fails, `fail_closed` by default) is asked by logout alone
(`routes/login.py:371-382` and `519-535`): a
part that failed is remembered (`failed`), and a failed logout is confirmed only
where the mode is open. A login or a refresh whose session write fails is answered
with an error in either mode, which is `Abandon`. `create_client_session` selects
whatever row of the user its view has, not the one a refresh checked: with two rows
it may be the other, so `lineage` remembers the checked one. The
claims of a token are represented by the generation it was signed at; that a
change of role or activation moves the generation is `GenerationFencesChanges` of
`SuperuserSet`. Logout presents the two tokens of one pair. `claims`, `issued`,
`spent`, `loggedOut` and `split` are history; `split` remembers that the account
had two session rows at a time, which two overlapping first logins produce.

### RevocationOutbox

A drain claims a batch, then for each row reads it again, applies, records; at the
end it reaps. Time appears as events: `LeaseRunsOut`, `FallDue`, `TokenExpires`;
`LeaseOverrun` is a lease that ends under a drain still working. `Recorded`
writes only what differs from the row as read.

### EventHub

An event is its sequence number. `sub[c]` is one run of `stream()`: frames to
send first (gap or replay), the queue, the overflow flag, and whether it is at
the head of its loop or inside `queue.get()`. The connection and the consumer are
external: frames arrive in order, a break loses unread ones, the consumer keeps
the id of the last event it read.

`EventHub` implements `EventFeed` with `head <- base + seq`, and for a consumer
the position up to which it is informed and the number of gaps it was told of,
so that a skipped event without a gap signal is no step of the abstract feed.
`SuperuserSet`, restricted to updates and creations, implements
`SuperuserRoster` with the active superusers as `members`.

### ApiKeys

One account, its keys and the requests on them, statement by statement: a creation
counts (`CountKeys`) and inserts (`InsertKey`); a deactivation loads the owner,
locks the row, revokes what it selects. A remote use reads the key, then the owner
and the audience, and is noted after that; a local one is noted as soon as its key
was found good. Noting is two steps: the time is taken (`Stamp`), then written over
whatever is there (`Note`). With `Snapshot` the selection of a deactivation sees
the keys that were there when the owner was loaded; the lock does not renew that
view. A flush loop empties the hash (`TakeHash`), loads the rows and commits;
`FailRows` and `CrashFlush` lose the batch, as in the code, and `lost` remembers
the latest use of a key lost by them or by an older note written over it. A row
written after its owner's deletion fails the whole commit.

### RateLimiter and OAuthBridge

A request passes the counters of its route in order, INCR and EXPIRE apart or
pipelined. Counts are cut off one above the limit, since nothing tells larger
counts apart. `CutOff` is a crash or a Redis error at any point.

In `OAuthBridge` a state, a code of Google's, a one-time code and a verifier are
model values; who holds which verifier is the client's identity, and everybody
may try every state and code. A callback is a program counter over its Redis and
database steps. Google is external: it ties its code to the state it was given
with, and takes it back once. The response of the callback also sets the two
tokens as cookies of whoever called it (`google_auth.py:75-91`): that is a second
way out of the same tokens, to the browser that came back from Google, and is not
part of the state.

`OAuthBridge` implements `SignIn` with `asked` read off the login URLs, `signedIn`
off the grants Google has confirmed and `issued` off the stored codes. A crash, an
eviction, a spent state, a repeated or a lost callback are all stutters there: a
sign-in yields one code at the most, and a code its tokens once.

### AuditTrail, Cutover, Credentials, Operations

`AuditTrail`: a change loads an item and later commits the item and its row
together; a purge claims a batch and later deletes and commits it. The clock makes
rows older. `changes`, `erased`, `reported` and `cut` are history.

`Cutover`: every step is available at any time, and only what the database and
`pre_start.sh` refuse is refused. The old issuer (external: its source is not in
the repository) writes any role, flag and activation and opens sessions without a
generation, while the schema lets it. On PostgreSQL Enforce is one step, on
MySQL and MariaDB its two statements are two.

`Credentials`: `config` is what is on disk, `issuer.config` what was loaded;
`Redeploy` loads or refuses, and ends the event streams of the process. A client is
registered or not, with any scopes, none included: only an empty registry refuses
a service token, which is otherwise good for the scopes it was issued with
(`core/deps.py:315-338`). An event stream is authorized when it opens and not again
(`OpenStream`). A key is a number and its fingerprint is that
number. A consumer holds a cached key set with its age and loads it again when it
is too old or meets an unknown kid (external: the SDK). One consumer is enough:
the properties speak of consumers one at a time and consumers do not interact.
In the run, the forgetting of dead tokens keeps `token` and `pass` small.

`Operations` has a variable `procedure` that is fixed at the start. The
procedures are not interleaved, because they touch disjoint state in the code.

## 3. Runs

Bounds are in the `.cfg` files; every one is a constant of the module.

| Run | Question | Bounds |
| --- | --- | --- |
| `updates` | do concurrent updates keep the set, fence generations and implement the roster? | 2 accounts, 2 requests, 2 ranks, generation up to the ceiling |
| `all` | does the inductive invariant hold with every operation; who can empty the set, raise itself, or break the check constraint? | 2 accounts, 2 requests, 3 ranks, deletions |
| `delete` | counterexample, section 6 | 2 ranks |
| `sites` | one exchange per refresh token, current claims, a denial that lasts, a final logout, introspection as good as one read; on repeatable-read engines also the race-proof generation and the live lineage | 13 deployments, each with the kinds of requests that race for one of the questions; 2 or 3 requests, 3 pairs, 2 generations |
| `race`, `lineage` | the last two on READ COMMITTED: counterexamples | 3 and 2 requests |
| `drain` | is every effect settled and every status true, do leases exclude? | 2 drains, 2 rows (one user-wide), batch of 2, 2 attempts, a crash, an overrun |
| `feed` | does the hub implement the feed, and is a consumer that keeps reading eventually informed? | 2 consumers, buffer 2, queue 1, 4 events, a restart, a broken connection |
| `keys` | cap, disarming and last use of the keys of one account, READ COMMITTED | 2 keys, cap 1, 2 requests, a flush loop with a crash, 2 uses noted, 2 changes of activation |
| `rearm` | the same disarming on repeatable-read engines: counterexample | the same |
| `gateway` | do tokens go once and to their initiator, can a failed callback be repeated, do counters expire? | 2 clients, 2 states, 2 grants, a one-time code, 2 callbacks, 2 exchanges, 5 counters with limits 1 and 2, a crash |
| `operations` | does the trail agree with the changes and with the purges; is the cutover safe in any order; is there a gap in a rotation, and do withdrawn credentials lose their power? | trail: 1 item, 2 writers, 2 purges, batches of 1, 3 rows, clock to 2, one purge cut off; cutover: 2 users, 2 sessions, generation 3, a restart of the old issuer; credentials: a consumer, 2 clients, the scope of the event stream, 3 keys, lifetimes of 1, time to 6 (to 3 while the registry is edited) |

Why these bounds are enough for the questions: a conflict over the superuser set or
one row needs two requests and one more account; the generation ceiling is reached
with two changes; a self-promotion over a stale copy needs three ranks; the session
races need a stale login, a fresh one and the one that leaves a row for both, hence
three requests; the other races are between logins, refreshes and one or two other
kinds of requests, so a deployment of the `sites` run has only those (together they
have every operation); one crash and one overrun already make two drains hold one
row; four events overflow a queue of one and evict from a buffer of two the event
after the one a consumer has read. The cap is passed by two creations over a cap of
one; a key is re-armed by one creation and one deactivation. Two clients are the
initiator and somebody else; with two states and grants each can be taken for
another's, and one one-time code is enough for two clients and two exchanges to
contend for it (two callbacks that both reach the store take it one after the
other, or fail). A purge of two batches beside another purge is the smallest that
can count a row twice; a legacy session, a second user and a restart of the old
issuer between any two steps exercise every refusal of the cutover. With lifetimes
of one, six units of time hold a rotation, its whole window and a roll-back; the
third key allows a second rotation after it. Two clients keep the registry from
being empty when one of them is removed; three units of time hold an exchange, the
redeploy that takes the scope, and the end of the token. None of this is a proof
for larger instances; section 5 is.

The trail's rows are cut at `RowMax` in the guards of the actions that append:
what would come after is not explored, and nothing is appended unrecorded.

Deadlock checking is off where requests may simply stop arriving or a bound ends
the behaviour. The outbox run keeps it on: a drain loop always has a step.

Symmetry: accounts, requests, JTIs, keys, purges, clients,
states and codes are interchangeable. It is used in runs of invariants
and action properties, never in the two runs with liveness (`drain`, `feed`);
`RosterSpec` treats the interchangeable values alike.

## 4. Fairness

* `RevocationOutbox`: weak fairness of each drain (`_outbox_drain_loop` runs for
  ever and catches every exception) and of the clock (`LeaseRunsOut`, `FallDue`).
  None for Redis: an effect that cannot be delivered is dead-lettered. Crashes and
  overruns are bounded; without a bound on overruns two slow drains could set
  `attempts` back for ever.
* `EventHub`: weak fairness of the event loop, of the consumer's reads and
  reconnections, and of the restart that follows a shutdown. None for
  publishers, broken connections or crashes.

## 5. Proofs

Every safety property and every action property of a passing run is a theorem,
for every value of the constants, and so are
the three refinements (`RosterSpec`, `FeedSpec`, `SignInSpec`). Each component
has an inductive invariant `IInv` (`Typed` with one more part per property in
`ApiKeys`), which TLC checked on small instances before it was proved. The bounds
of the models (clocks, crashes, generations, rows) are constants like the others:
the theorems hold whatever they are. Liveness is not proved (see the end of this
section).

For each of the four counterexamples of section 6 a theorem names a condition
under which the promise holds on every engine, so that the run shows what breaks
it and the theorem what would repair it. The condition is an action property of
the same specification, met by every behaviour in which the race does not happen:
`FreshDeletesKeepTheSet` for `delete`, `CurrentLoginsRaceProof` for `race`,
`WaitingRevocationsKeepLineage` for `lineage`, `DisarmedBehindDeactivation` for
`rearm`.

What is assumed of the constants is in the `ASSUME`s of the modules, which TLC
evaluates in every run. Beyond types and signs: the sets of workers, effects,
requests, keys and purges that are counted are finite; no two routes share a
limiter's counter (the Redis key prefixes of `core/client.py` differ); nobody is not a
client. A hypothesis on the deployment is stated with its theorem.

### SuperuserSet

For any sets of accounts and requests, any number of
ranks and any ceiling, all under `RetentionCoversRequests`
(`SuperuserSet_proofs`):

| Theorem | States |
| --- | --- |
| `InvariantHolds` | `Spec => []IInv` |
| `TypeCorrect` | `Spec => []TypeOK` |
| `CanonicalWrites` | `Spec => []ConstraintNeverBites` |
| `UpdatesKeepTheSet` | `Spec => UpdateKeepsSet`, with deletions around |
| `FreshDeletesKeepTheSet` | `Spec => FreshDeleteKeepsSet` |
| `TombstoneOutranks` | with `DeletesFresh`: who has a tombstone is gone for good, and it lies above every generation of the row |
| `GenerationsFence` | `Spec => GenerationFencesChanges` |
| `NoOnePromotesThemselves` | `Spec => NoSelfPromotion` |
| `UpdatesImplementRoster` | `Spec => RosterSpec`, updates and creations only |
| `UpdatesNeverEmptyTheSet` | `Spec => []SetNeverEmpty`, the same |

The decisions are made on copies that may be stale, so "the set is
not empty" is not inductive. `IInv` adds two facts. `LoadedFits`: a loaded copy is
the current row, or every generation the row went through since is still a
publish key. So a stale copy that would change an authorization needs a key that
is taken and cannot be flushed: every update that commits a change was
decided on the current row. `LocksHold`: a locked request that takes its target
out holds locks on other members, and only one request holds the policy lock, so
those members stay. Together: at the commit the target's copy is current and
another member is there. `CanonicalWrites` follows because a flush that passes is
computed from the current row, or writes nothing but an unchanged authorization.
Deletions have no publish key, which is exactly why `DeleteKeepsSet` fails
while `FreshDeleteKeepsSet` holds. `DeletesFresh` says that every deletion by an
administrator commits on a current copy; without it TLC finds a tombstone that
equals the generation of the row it stands for (section 6).

`TypeCorrect` is a conjunct of `InvariantHolds` and has no run of its own.

### SessionLifecycle

For any set of deployments, any number of overlapping requests and any JTIs, on
both isolation levels, the first eight without a hypothesis:

| Theorem | States |
| --- | --- |
| `TypeCorrect` | `Spec => []TypeOK` |
| `LogoutHolds` | `Spec => []LogoutIsFinal`, where session writes fail closed |
| `SnapshotsRaceProof` | `Spec => []SnapshotRaceProof` |
| `DenialIsFinal` | `Spec => NeverReactivated` |
| `RefreshIsCurrent` | `Spec => RefreshSignsCurrentClaims` |
| `ExchangedOnce` | `Spec => SingleUse` |
| `AnswersAreTrue` | `Spec => ActiveAnswerWasTrue` |
| `LineageKept` | `Spec => SnapshotKeepsLineage`: with repeatable reads and one session row, a refresh writes the row it checked |
| `CurrentLoginsRaceProof` | `Spec /\ LoginSignsCurrentClaims => []GenerationRaceProof` |
| `WaitingRevocationsKeepLineage` | `Spec /\ RevocationsWait => RefreshExtendsLiveLineage` |

`IInv` says what a request in flight may rely on between its statements. `Signing`:
the pair it has signed and not yet written is in no row, no view and no client's
hands, so a write never brings back a denied or logged-out token. `Locking`: at
most one request holds the user row, and the account of a refresh that holds it is
the one it loaded. `Stamping`: no row is stamped ahead of the account, hence the
last read of an introspection confirms the first two. `Repeating`: where plain
reads repeat, a row both in a view and in the table belongs to the generation the
view was taken at; the UPDATE that leaves out an unchanged stamp (the reason of
`race` on PostgreSQL) is then harmless. `Spending`: an exchanged token has left the
allowlist if it must be consulted, and has left the session table as long as there
is one row. `Parting`: where session writes fail closed, a logout that has come to
its last delete without a failed part has taken its token off the allowlist, and
deletes the row of its JTI. The proof of `Spending` showed that `SingleUse` needs
the exception it now states, which the bound of three JTIs had hidden (section 6).

The last two are about READ COMMITTED as well. `LoginSignsCurrentClaims`: a login
that writes its session signed the claims the account has at that commit, which is
what `reload_persisted_user_for_signing` gives a refresh and nothing gives a login.
Then (`Agreeing`) every row is stamped with the claims of its pair and no copy in a
request's hands is newer than the table, so the stamp a flush leaves out is one
that need not be written. `RevocationsWait`: no session row is deleted while a
refresh holds the row of its user (the revocation routes take no such lock). Then
(`Extending`) a refresh that passed its lineage check finds a row to write.

### RevocationOutbox

| Theorem | States |
| --- | --- |
| `TypeCorrect` | `Spec => []TypeOK` |
| `LeaseExclusion` | `Spec => []LeaseExcludes` |
| `StatusesAccounted` | `Spec => []StatusAccounted` |
| `HandsBounded` | a row is in at most `1 + overruns` drains' hands, and its attempts with those in hands are at most `MaxAttempts + overruns` |
| `SettledForGood` | while no lease was outlasted, a completed, dead or reaped row is never delivered, failed or put back again |
| `NoOutcomeLost` | while no lease was outlasted, a row is dead exactly at `MaxAttempts` attempts, and no drain finds its row reaped |

`Accounted` relates what a drain has read and what a row says to what really
happened. `WithinQuota` counts claims: the drains that hold a row, and one more
if it can be claimed. Claims never exceed the outlasted leases by more than one,
and attempts and claims together never exceed `MaxAttempts + overruns`; each step
moves one claim or turns it into an attempt. That a drain which outlasted its
lease may write over a finished row is inside these bounds.

`InOrder` is what leases give as long as none is outlasted, crashes included:
every row in a drain's hands is leased, its lease runs, and what the drain read of
it is what it still says. So the flush of `process_row`, which checks none of
this, writes to the row it meant; `MissRow` and `LoseOutcome` never happen; and a
settled row is out of everybody's reach. After one overrun TLC finds a settled row
delivered again, and drains that find their row reaped.

### EventHub

| Theorem | States |
| --- | --- |
| `TypeCorrect` | `Spec => []TypeOK` |
| `NoHoles` | `Spec => []NoHoleInFlight` |
| `HubImplementsFeed` | `Spec => FeedSpec`, the refinement of `EventFeed` |

`BufferInv`: the ring buffer holds the last events of the epoch, numbered without
a gap. `ConsumerInv`: the frames on the wire, the first frames and the queue of a
consumer form one chain, numbered from the event it is informed of; only an
overflown or ended stream lacks a suffix; a gap frame is the first of all, and is
there only if the consumer's last event could not be resumed from. A read
therefore delivers the next event, which is a step of the feed, or a gap.

### ApiKeys

| Theorem | States |
| --- | --- |
| `TypeCorrect` | `Spec => []TypeOK` |
| `CapHolds` | `Spec => []CapExceededOnlyByOverlap` |
| `DisarmedBehindDeactivation` | `Spec /\ IssueWaitsForDeactivation => []DisarmedStaysDisarmed` |
| `DisarmedForGood` | `~ Snapshot /\ Spec => []DisarmedStaysDisarmed` |
| `AudiencesSettled` | `Spec /\ BindingsTakeTurns`: a key that has audiences keeps exactly those |
| `NotedUseKept` | one flush loop: `Spec => []NotedUseSurvives` |

With snapshots `DisarmedStaysDisarmed` is false, as `rearm` shows.
`IssueWaitsForDeactivation` asks, of engines with snapshots only, that no key is
issued while a deactivation of its account is in flight; `DisarmedForGood` is the
case where it asks nothing. A deactivation about to commit has selected every live
key (`Disarmed`): without snapshots because its lock keeps insertions out, with
snapshots because none was issued since its view was taken. `BindingsTakeTurns`: a
binding of a key is begun only when no other is in flight for it; operators at
once may each add a set, since the check of `bind_existing_key_audiences` takes no
lock. `NotedUseKept` needs one flush loop: with two the
older use may be written last (section 6). The latest use of a key ever in the
hash is in the hash, in the flush or in the row, unless it was lost, which an older
note written over it also does; that is inductive because a loop
decides what to write from rows nobody else writes.

### OAuthBridge and RateLimiter

| Theorem | States |
| --- | --- |
| `TypeCorrect` | `Spec => []TypeOK` |
| `TokensOnce` | `Spec => []TokensOnceToInitiator` |
| `StateOutlives` | `Spec => []StateOutlivesFailure` |
| `SelfCleaningHolds` | `Spec => []SelfCleaning` |
| `BridgeImplementsSignIn` | `Spec => SignInSpec`, the refinement of `SignIn` |

What a login URL's challenge is tied to is carried along: a state names its
client, a used grant the state it was given with, a code the client of its state
and somebody who signed in there, and an exchange that holds a challenge is the
only one that popped its code. A counter without a TTL has a request at its EXPIRE or
is orphaned, and an orphan is never a counter of a pipelined route.

The refinement needs a count (`AllPaid`): for each state and person, the callbacks
under way and the codes stored together are no more than the sign-ins Google
confirmed. `gateway` has one one-time code, too few for this question, and no
property for it; a check with two codes and no limiters agreed before the proof.

### AuditTrail, Cutover, Credentials

| Theorem | States |
| --- | --- |
| `TypeCorrect` | `Spec => []TypeOK` |
| `TrailAlwaysAgrees` | `Spec => []TrailAgrees` |
| `LossesAccounted` | `Spec => []PurgeAccounted` |
| `LegacyGone` | `Spec => []NothingLegacySurvives` |
| `SuperusersKept` | `Spec => CutoverKeepsSuperusers` |
| `NoGap` | `Spec => []NoVerificationGap` |
| `SoonPowerless` | `Spec => []WithdrawnSoonPowerless` |

Trail: a claimed row is older than the floor, and no two purges claim one row
(which is what SKIP LOCKED gives), so a batch removes as many rows as it counts.
Cutover: what the schema enforces holds of every row, a session is stamped with
its owner's generation or has none, and the new issuer runs only over the
enforced schema. Credentials: the key of every live token is on disk and loaded
unless it leaked (`KeysKept`), labels name their key (`LabelsBound`), and what a
cache or a service token holds beyond the settings was obtained before the
withdrawal (`Withdrawn`). `WithdrawnSoonPowerless` speaks of three things: keys in
caches, calls let in, and streams. A stream open now was opened since the last
redeploy (`StreamsRecent`) by somebody let in at that time, so one that belongs to
a client without the scope was opened with a leftover service token, no later
than its lifetime after the redeploy. How long such a stream then lasts nothing
in the code bounds.

### Only model-checked

* `EventuallySettled` and `EventuallyInformed`: liveness under fairness is beyond
  the prover.
* The four counterexamples of section 6, which refute a statement; what is proved
  is the same statement under a condition.

## 6. Disagreements between the code and its documents

Each is a run whose property states the document's sentence; `findings` in
`PROJECT.json` quotes it.

* `delete`: the administrator's deletion decides "is it a superuser?" on a copy
  loaded before the locks. Promote the target and demote the other superuser in
  between, and the last superuser is deleted. It cannot happen when the copy is still
  current at the commit (`FreshDeletesKeepTheSet`).
* `race` (PostgreSQL): a login that authenticated before a role change, a fresh
  login and a third one around the change leave a session row that vouches for a
  token with the old claims. The reason is that an unchanged column is not
  written. It cannot happen when a login's claims are current at its commit
  (`CurrentLoginsRaceProof`).
* `lineage` (PostgreSQL): a refresh that has passed its lineage check creates a
  new session after an administrator deleted all of them. It cannot happen when
  deletions wait for the refresh (`WaitingRevocationsKeepLineage`).
* `rearm` (MySQL, MariaDB): the keys a deactivation revokes are selected with a
  plain read in a transaction whose view is older than its row lock
  (`routes/users.py:200`). A key committed in between stays live, and is good
  again when the account is reactivated. It cannot happen when key creations wait for
  the deactivation (`DisarmedBehindDeactivation`).

Seen while modelling, and not made into a run:

* Self-deletion (`routes/profile.py:119`) takes no policy lock, tests the role in
  the token, and writes no tombstone, while `role_admin.py:4-7` and README:579
  speak of every deletion. The model has it as it is: `DeleteMe` can empty the
  set, so `SetNeverEmpty` is claimed for updates only.
* The tombstone's generation (`role_admin.py:423`) comes from the copy loaded
  before the locks. Introspection only asks whether a tombstone exists, so this
  has no effect today. From a current copy it outranks every generation
  (`TombstoneOutranks`).
* A drain that outlasted its lease applies a completed row again and may set it
  back to pending, while `outbox.py:358` calls a duplicate drain a no-op. Without an
  outlasted lease it is one (`SettledForGood`).
* README:549 says Redis entries "never decide", while the issuer's own routes
  (`core/deps.py:198`) decide from claims and the blacklist only.
* README:557 names the durable outbox as the accelerator of a deletion, while
  `delete_user_account` enqueues nothing and pushes an event after the commit.
* With `REFRESH_VALIDATION` failing open, Redis unreachable, and two overlapping
  first logins that each inserted a session row, a refresh may move the row other
  than the one its lineage check saw, and the same refresh token passes once more.
  README:597 documents failing open as skipping the check, so `SingleUse` excepts
  it.
* Two flush loops (replicas, or the final flush beside a running one) read and
  then write `last_used_at`, so the older of two uses may be written last, while
  `main.py:80-81` promises "updated only when the new timestamp is strictly
  greater". The runs have one loop.
* A use takes its time and then writes it (`core/deps.py:405-408`): of two uses the
  older may be written last and stays, until the next use. `main.py:80-81` speaks of
  a "last-writer-wins invariant" for the rows; the hash has no such test.
  `NotedUseSurvives` counts the newer use as lost.
* Two runs of `scripts/bind_api_key_audiences.py` on one unbound key union their
  audiences if these are disjoint: both pass the "already bound" test, while line
  11 of the script calls the set immutable after issuance. It is final as long as
  bindings of a key do not overlap (`AudiencesSettled`).
* An event stream is authorized when it opens (`routes/private.py:488-529`). One
  that was opened with a service token outlives the token; the one opened with a
  token left over from a withdrawn scope outlives the scope too, until the
  connection or the process ends.
* README:1031-1044 says that a stolen service token can be invalidated at once by
  rotating the consumer's secret or by its JTI, while `decode_service_token`
  (`services/service_token.py:85-115`) looks at neither: it is good until it expires.
* Right after a rotation is loaded, the issuer's own routes refuse the access tokens
  signed with the previous key (`core/deps.py:127` has the current key only), while
  the consumers still take them. `NoVerificationGap` speaks of the consumers, and of
  the issuer for refresh tokens.
* The tokens of a sign-in leave the issuer twice: as the one-time code and as cookies
  of the callback's response (`google_auth.py:75-91`). `TokensOnceToInitiator` is
  about the exchange.
* On MySQL and MariaDB the flag that lets a purge delete is a session variable of
  the pooled connection; a batch whose commit fails leaves it set, while
  `services/audit.py:241-243` says that an ad-hoc DELETE on that connection is
  still rejected.
* The record of a purge is dated now and is removed by a later purge once it is
  old enough, while `services/audit.py:321-323` says it "survives this and every
  subsequent purge".
* Two deletions of one item of the example service both commit an audit row: the
  second DELETE finds nothing and is no error. `TrailAgrees` therefore asks a
  committed change only of the rows of adds and edits.
* A process that dies between INCR and EXPIRE leaves a counter without a TTL,
  while `core/client.py:245` calls the window self-cleaning. `SelfCleaning` names
  these counters (`orphaned`) and excludes every other cause.
* On MySQL and MariaDB an Enforce that fails at its second statement leaves the
  NOT NULL of the first, which the old issuer's inserts violate, while
  README:1462 says that aborting before Enforce has applied is safe.
* `init-keys.sh --rotate` does not ask whether an overlap window is still open and
  does not keep the previous private key; the roll-back of
  `src/examples/docker_compose/SECURITY.md:386` needs a copy of it. The model's
  operator keeps one and opens one window at a time.

## 7. Not modelled, and the plan

Not modelled:

* Time as such: tokens, sessions and Redis keys expire in actions of their own;
  only `Credentials` and `AuditTrail` have a clock. How long a demoted
  superuser's claims still act is therefore not stated (`core/deps.py:198`).
* Several accounts in one session model, stateless mode, Google's tokens as
  sessions, `purge_expired_sessions`.
* The consumer's side beyond its key cache and its reading of the event stream:
  it is in the SDK, not in this repository.
* In `Credentials`: replicas that restart one by one (two issuers with different
  keys at once), `ACCESS_KEY_ID_ALLOW_UNBOUND`, rotation of
  `PRIVATE_API_SECRET`, more than one key family, and the issuer's own validation of
  access tokens (`core/deps.py:127`). How long an event stream stays open.
* Cookies, those of the OAuth callback included.
* The hazards listed without a property, each with its reason in `PROJECT.json`;
  among them a retention of 0 for completed publish rows (excluded by
  `RetentionCoversRequests`), a consumer that `close()` fails to wake (`Restart`
  ends every stream), and a row repair beside role changes of a running issuer
  (`Cutover` repairs as documented, before any issuer that changes roles runs).
* Password hashing, signing, validation of claims, redirect targets; settings
  validators that leave no state; metrics, health, dashboards and other
  read-only routes; Alembic wiring; downgrades; the static lint guard.
* The error mapping: every handler's exception ends its request with a rollback,
  which is `Abort`, `Abandon` or a cut-off.

Done: all modules of section 2, and proofs of all their safety properties, action
properties and refinements. What is left:

1. Theorems beyond the runs' properties: how far overruns may set attempts back,
   which sessions survive a revocation that was cut off between its commit and its
   Redis calls.
2. Several accounts in the session model, and the purge of expired sessions.
3. An abstract specification of the outbox, of which `SettledForGood` and
   `StatusesAccounted` are the safety half and `EventuallySettled` the liveness
   half.

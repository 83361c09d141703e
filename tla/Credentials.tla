---------------------------- MODULE Credentials ----------------------------
(***************************************************************************)
(* Planned and emergency replacement of the issuer's credentials: the      *)
(* signing keypair of the access tokens, which consumers verify against a  *)
(* cached copy of the published key set (core/config.py, routes/jwks.py);  *)
(* the secret of the refresh tokens, which only the issuer verifies        *)
(* (routes/login.py); and the entries of PRIVATE_API_CONSUMERS, whose      *)
(* holders exchange them for short-lived service tokens                    *)
(* (services/service_token.py), call private routes and hold event streams *)
(* open (routes/private.py).                                               *)
(*                                                                         *)
(* The configuration on disk takes effect at the next redeploy, when the   *)
(* validators may refuse it and the issuer stays down.  One of the three   *)
(* is replaced in a behaviour.  A key is a number; its fingerprint, the    *)
(* canonical kid, is that number.                                          *)
(*                                                                         *)
(* Not part of the state: replicas of the issuer that restart one by one,  *)
(* ACCESS_KEY_ID_ALLOW_UNBOUND, key families, the ETag of the key set, and *)
(* the issuer's own routes, which verify an access token against the       *)
(* current key only (core/deps.py:127), without an overlap.                *)
(***************************************************************************)
EXTENDS Integers, FiniteSets

CONSTANTS
    Consumers,   \* services that verify access tokens
    Clients,     \* ids in PRIVATE_API_CONSUMERS
    Scopes,      \* their scopes
    EventStream, \* the scope of the event stream
    TokenLife,   \* lifetime of the tokens signed with the key
    CacheLife,   \* JWKS_CACHE_TTL_SECONDS
    ServiceLife, \* SERVICE_TOKEN_TTL_SECONDS
    KeyMax,      \* bound on the keys generated
    NowMax,      \* bound on the clock
    EditsMax     \* the same while PRIVATE_API_CONSUMERS is edited

ASSUME CredentialsAssumption ==
    /\ {TokenLife, CacheLife, ServiceLife, KeyMax, NowMax} \subseteq Nat \ {0}
    /\ EditsMax \in 0 .. NowMax
ASSUME ScopesAssumption == EventStream \in Scopes

VARIABLES
    replacing, \* what is being replaced
    config,    \* the configuration on disk
    issuer,    \* what the running issuer has loaded
    token,     \* the live tokens signed with the key
    pass,      \* the service tokens
    stream,    \* the open event streams, and when each was authorized
    cache,     \* the key set each consumer holds, and since when
    now,
    since,     \* when the running issuer began to sign with its key
    leaked,    \* history: the keys replaced without an overlap
    dropped,   \* history: when the issuer last stopped accepting a key
    taken      \* history: when a client last lost a scope

credentialsVars == <<replacing, config, issuer, token, pass, stream, cache, now,
                     since, leaked, dropped, taken>>

Keys == 1 .. KeyMax
NoKey == 0
Derived == 0   \* ACCESS_KEY_ID left unset

(* The registered clients may have no scopes; the others have none.        *)
Config == [key : Keys, old : Keys \cup {NoKey}, label : Keys \cup {Derived},
           clients : SUBSET Clients, scopes : [Clients -> SUBSET Scopes]]

(* The JWT header and the published key carry the configured label, or the *)
(* fingerprint of the key when there is none (_resolve_kid).               *)
Kid(c) == IF c.label = Derived THEN c.key ELSE c.label

(* build_key_set without its second entry. *)
CurrentOnly == {[kid |-> Kid(issuer.config), key |-> issuer.config.key]}

(* build_key_set: the current key, and the old one while the overlap       *)
(* window is open.                                                         *)
Published ==
    CurrentOnly \cup {[kid |-> k, key |-> k] : k \in {issuer.config.old} \ {NoKey}}

AcceptedKeys == {r.key : r \in Published}

CredentialsTypeOK ==
    /\ replacing \in {"access", "refresh", "consumers"}
    /\ config \in Config
    /\ issuer.config \in Config /\ issuer.up \in BOOLEAN
    /\ \A t \in token : t.kid \in Keys /\ t.key \in Keys /\ now - t.at \in 0 .. TokenLife
    /\ \A p \in pass : p.client \in Clients /\ p.scopes \subseteq Scopes /\ p.at \in 0 .. now
    /\ \A e \in stream : e.client \in Clients /\ e.at \in 0 .. now
    /\ \A c \in Consumers : cache[c].at \in 0 .. now /\ \A r \in cache[c].keys : r.key \in Keys
    /\ now \in 0 .. NowMax /\ since \in 0 .. now
    /\ leaked \subseteq Keys
    /\ dropped \in [Keys -> 0 .. now]
    /\ taken \in [Clients -> [Scopes -> 0 .. now]]

CredentialsInit ==
    /\ replacing \in {"access", "refresh", "consumers"}
    /\ config \in [key : {1}, old : {NoKey},
                   label : IF replacing = "access" THEN {1, Derived} ELSE {Derived},
                   clients : {Clients}, scopes : [Clients -> {Scopes}]]
    /\ issuer = [config |-> config, up |-> TRUE]
    /\ token = {} /\ pass = {} /\ stream = {}
    /\ cache = [c \in Consumers |-> [keys |-> {}, at |-> 0]]
    /\ now = 0 /\ since = 0 /\ leaked = {}
    /\ dropped = [k \in Keys |-> 0]
    /\ taken = [c \in Clients |-> [s \in Scopes |-> 0]]

-----------------------------------------------------------------------------
(* The operator.                                                           *)

Written(next) ==
    /\ config' = next
    /\ UNCHANGED <<replacing, issuer, token, pass, stream, cache, now, since, dropped, taken>>

OneKey == replacing # "consumers" /\ config.old = NoKey /\ config.key < KeyMax
Fresh == config.key + 1

(* init-keys.sh --rotate: new key, previous key and label go together.     *)
Rotate ==
    /\ OneKey
    /\ Written([config EXCEPT !.key = Fresh, !.old = config.key, !.label = Fresh])
    /\ UNCHANGED leaked

(* The same by hand, with the label forgotten. *)
RotateByHand ==
    /\ OneKey
    /\ Written([config EXCEPT !.key = Fresh, !.old = config.key])
    /\ UNCHANGED leaked

Relabel ==
    /\ config.label \notin {config.key, Derived}
    /\ Written([config EXCEPT !.label = config.key])
    /\ UNCHANGED leaked

(* The key has leaked: no overlap. *)
CutOver ==
    /\ OneKey
    /\ Written([config EXCEPT !.key = Fresh, !.label = Fresh])
    /\ leaked' = leaked \cup {config.key}

(* The two files are swapped back, with their labels. *)
RollBack ==
    /\ config.old \notin {NoKey} \cup leaked
    /\ issuer.up /\ issuer.config = config
    /\ Written([config EXCEPT !.key = config.old, !.old = config.key,
                              !.label = config.old])
    /\ UNCHANGED leaked

(* Step 3: counted from the redeploy, not from the rotation. *)
WaitedOut ==
    /\ issuer.up /\ issuer.config = config
    /\ now - since > TokenLife + (IF replacing = "access" THEN CacheLife ELSE 0)

CloseWindow ==
    /\ config.old # NoKey /\ WaitedOut
    /\ Written([config EXCEPT !.old = NoKey])
    /\ UNCHANGED leaked

EditConsumer(c, scopes) ==
    /\ replacing = "consumers"
    /\ c \notin config.clients \/ config.scopes[c] # scopes
    /\ Written([config EXCEPT !.clients = @ \cup {c}, !.scopes[c] = scopes])
    /\ UNCHANGED leaked

RemoveConsumer(c) ==
    /\ replacing = "consumers" /\ c \in config.clients
    /\ Written([config EXCEPT !.clients = @ \ {c}, !.scopes[c] = {}])
    /\ UNCHANGED leaked

-----------------------------------------------------------------------------
(* The settings before they bound the label to the key. *)
BootsUnbound(c) == c.key # c.old

(* _validate_access_key_id_binding, for the keys of the access tokens. *)
Boots(c) == c.key # c.old /\ (replacing = "access" => c.label \in {c.key, Derived})

(* A restart with the configuration on disk, which the settings may refuse; *)
(* the streams of the process end with it.                                  *)
Redeploy ==
    /\ issuer # [config |-> config, up |-> TRUE]
    /\ Boots(config) \/ issuer.up
    /\ issuer' = IF Boots(config) THEN [config |-> config, up |-> TRUE]
                                  ELSE [issuer EXCEPT !.up = FALSE]
    /\ since' = IF Boots(config) /\ config.key # issuer.config.key THEN now ELSE since
    /\ dropped' = [k \in Keys |->
                     IF k \in AcceptedKeys \ AcceptedKeys' THEN now ELSE dropped[k]]
    /\ taken' = [c \in Clients |-> [s \in Scopes |->
                     IF s \in issuer.config.scopes[c] \ issuer'.config.scopes[c]
                       THEN now ELSE taken[c][s]]]
    /\ stream' = {}
    /\ UNCHANGED <<replacing, config, token, pass, cache, now, leaked>>

(* create_access_token, create_refresh_token: always the current key. *)
Sign ==
    /\ replacing # "consumers" /\ issuer.up
    /\ token' = token \cup {[kid |-> Kid(issuer.config), key |-> issuer.config.key, at |-> now]}
    /\ UNCHANGED <<replacing, config, issuer, pass, stream, cache, now, since, leaked,
                   dropped, taken>>

(* External: a consumer loads the key set when its copy is too old, or     *)
(* when it meets a kid it does not know.                                   *)
FetchKeys(c) ==
    /\ replacing = "access" /\ issuer.up
    /\ cache' = [cache EXCEPT ![c] = [keys |-> Published, at |-> now]]
    /\ UNCHANGED <<replacing, config, issuer, token, pass, stream, now, since, leaked,
                   dropped, taken>>

(* An exchange that also takes a service token for the credential. *)
GrantedByPass(c) ==
    issuer.config.scopes[c] \cup UNION {p.scopes : p \in {q \in pass : q.client = c}}

(* registry.authorize on the bootstrap credential.                         *)
Granted(c) == issuer.config.scopes[c]

ServiceToken(c, scopes) == [client |-> c, scopes |-> scopes, at |-> now]

(* The expiry that decode_service_token checks.                            *)
Unexpired(p) == now - p.at <= ServiceLife

(* issue_service_token_route: narrowed, never widened. *)
Exchange(c, scopes) ==
    /\ replacing = "consumers" /\ issuer.up
    /\ scopes # {} /\ scopes \subseteq Granted(c)
    /\ pass' = pass \cup {ServiceToken(c, scopes)}
    /\ UNCHANGED <<replacing, config, issuer, token, stream, cache, now, since, leaked,
                   dropped, taken>>

(* authenticate_private_consumer on a service token: the registry must not *)
(* be empty, and is not asked again; the scopes are the token's own.        *)
Honoured(p) ==
    /\ issuer.up /\ issuer.config.clients # {}
    /\ Unexpired(p)

(* A private route lets a client in by either path.                         *)
Authorized(c, scope) ==
    \/ issuer.up /\ scope \in Granted(c)
    \/ \E p \in pass : p.client = c /\ scope \in p.scopes /\ Honoured(p)

(* event_stream: authorized once, when it opens; nothing of the credential  *)
(* is looked at while it is open.  Bound: one open stream of a client.      *)
OpenStream(c) ==
    /\ replacing = "consumers"
    /\ \A e \in stream : e.client # c
    /\ Authorized(c, EventStream)
    /\ stream' = stream \cup {[client |-> c, at |-> now]}
    /\ UNCHANGED <<replacing, config, issuer, token, pass, cache, now, since, leaked,
                   dropped, taken>>

EndStream(e) ==
    /\ stream' = stream \ {e}
    /\ UNCHANGED <<replacing, config, issuer, token, pass, cache, now, since, leaked,
                   dropped, taken>>

(* Tokens that no verifier takes again are forgotten. *)
NextTick ==
    /\ now < IF replacing = "consumers" THEN EditsMax ELSE NowMax
    /\ now' = now + 1
    /\ token' = {t \in token : now + 1 - t.at <= TokenLife}
    /\ pass' = {p \in pass : Unexpired(p)'}
    /\ UNCHANGED <<replacing, config, issuer, stream, cache, since, leaked, dropped, taken>>

-----------------------------------------------------------------------------
CredentialsNext ==
    \/ Rotate \/ RotateByHand \/ Relabel \/ CutOver \/ RollBack \/ CloseWindow
    \/ \E c \in Clients, scopes \in SUBSET Scopes : EditConsumer(c, scopes) \/ Exchange(c, scopes)
    \/ \E c \in Clients : RemoveConsumer(c) \/ OpenStream(c)
    \/ \E e \in stream : EndStream(e)
    \/ Redeploy \/ Sign \/ NextTick
    \/ \E c \in Consumers : FetchKeys(c)

-----------------------------------------------------------------------------
(* The keys a consumer takes a kid for, and whether it gets an answer. *)
Cached(c, kid) ==
    {r \in cache[c].keys : r.kid = kid /\ now - cache[c].at <= CacheLife}
KeysFor(c, kid) ==
    IF Cached(c, kid) # {} THEN Cached(c, kid) ELSE {r \in Published : r.kid = kid}

Verified(t) ==
    IF replacing = "refresh" THEN t.key \in AcceptedKeys
    ELSE \A c \in Consumers :
            Cached(c, t.kid) # {} \/ issuer.up => \E r \in KeysFor(c, t.kid) : r.key = t.key

(* "A keypair rotation completes with no consumer restart and no           *)
(* verification gap": whatever a consumer has cached, whichever of the     *)
(* rotation, the redeploys, a roll-back and the end of the window come     *)
(* between, no live token that was signed with a key that has not leaked   *)
(* is refused.                                                             *)
NoVerificationGap == \A t \in token : t.key \notin leaked => Verified(t)

(* "Rotation comes from the short TTL": a leaked key is trusted by no      *)
(* consumer longer than the lifetime of its cache after the cutover; a     *)
(* client is let into a private route, and an event stream is opened, no   *)
(* later than the lifetime of a service token after the redeploy that took *)
(* the scope away; and that redeploy ends the streams opened before.  A    *)
(* stream opened with such a token stays open, for as long as both sides   *)
(* keep it.                                                                *)
WithdrawnSoonPowerless ==
    /\ \A c \in Consumers, k \in leaked \ AcceptedKeys :
        (\E r \in Cached(c, k) : r.key = k) => now - dropped[k] <= CacheLife
    /\ \A c \in Clients : \A s \in Scopes \ issuer.config.scopes[c] :
        Authorized(c, s) => now - taken[c][s] <= ServiceLife
    /\ \A e \in stream :
        EventStream \in issuer.config.scopes[e.client]
          \/ e.at - taken[e.client][EventStream] \in 0 .. ServiceLife
=============================================================================

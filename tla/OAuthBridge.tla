---------------------------- MODULE OAuthBridge ----------------------------
(***************************************************************************)
(* Sign-in through Google for a native client (routes/oauth_login.py,      *)
(* routes/google_auth.py, services/oauth.py).  The client asks for a login *)
(* URL, giving a PKCE challenge; the browser brings Google's code back to  *)
(* the callback; the callback opens a session and stores a one-time code;  *)
(* the client exchanges that code, with its PKCE verifier, for the tokens. *)
(*                                                                         *)
(* Google and the browser are external: anybody may call the callback with *)
(* any code and any state, and the exchange with any code.  A challenge    *)
(* and its verifier are the client they belong to.  The callback and the   *)
(* exchange of different replicas interleave at every store command.       *)
(*                                                                         *)
(* Not part of the state: the redirect target and its checks, the contents *)
(* of the tokens, the session's later life (SessionLifecycle), and the     *)
(* cookies of the callback's answer: the browser that completes a callback *)
(* gets the same tokens at once (google_auth.py:75), whoever asked for the *)
(* login URL.  What is said here of a hand-out is said of the exchange.    *)
(***************************************************************************)
EXTENDS RateLimiter

CONSTANTS
    Clients,     \* native clients, each with a verifier of its own
    Identities,  \* Google accounts, by e-mail address
    States,      \* OAuth states, each drawn once by create_state
    Grants,      \* Google's authorization codes
    AuthCodes,   \* one-time codes, each drawn once by the callback
    Callbacks,   \* callback requests in flight
    Nobody

ASSUME NobodyAssumption ==
    Nobody \notin Clients \cup Identities \cup States \cup Grants \cup AuthCodes

VARIABLES
    login,     \* the OAuth session store: the payload of a state
    grant,     \* Google: the codes it has issued
    users,     \* e-mail addresses with a user row
    stored,    \* the auth code store: the payload of a code
    callback,  \* the callback requests
    exchange,  \* what a request of the exchange route carries
    opened,    \* history: grants for which a login session was committed
    delivered  \* history: the clients a code's tokens were handed to

bridgeVars == <<login, grant, users, stored, callback, exchange, opened, delivered>>
vars == <<limiterVars, bridgeVars>>

LoginEntry == [client : Clients \cup {Nobody}, status : {"none", "live", "expired", "deleted"}]
Grant == [state : States \cup {Nobody}, identity : Identities \cup {Nobody},
          status : {"none", "issued", "used"}]
AuthCode == [state : States \cup {Nobody}, client : Clients \cup {Nobody},
             identity : Identities \cup {Nobody},
             status : {"none", "live", "expired", "popped"}]
Callback ==
    [pc : {"idle", "google", "select", "insert", "session", "store", "delete"},
     state : States \cup {Nobody}, grant : Grants \cup {Nobody},
     client : Clients \cup {Nobody}]
NoCallback == [pc |-> "idle", state |-> Nobody, grant |-> Nobody, client |-> Nobody]
NoExchange == [code |-> Nobody, client |-> Nobody, challenge |-> Nobody]

(* The stores, and what they say of one another: the tokens of a code were *)
(* handed out only after its row was popped, and every stored code comes   *)
(* from a grant that Google has taken back and that opened a session.      *)
TypeOK ==
    /\ LimiterTypeOK
    /\ login \in [States -> LoginEntry]
    /\ grant \in [Grants -> Grant]
    /\ users \subseteq Identities
    /\ stored \in [AuthCodes -> AuthCode]
    /\ callback \in [Callbacks -> Callback]
    /\ \A r \in Requests : exchange[r] # NoExchange => call[r].route = Exchange
    /\ opened \subseteq {g \in Grants : grant[g].status = "used"}
    /\ \A c \in AuthCodes : delivered[c] # << >> => stored[c].status = "popped"
    /\ \A c \in AuthCodes : stored[c].status # "none" =>
        /\ stored[c].identity \in users
        /\ \E g \in opened : grant[g].state = stored[c].state

Init ==
    /\ LimiterInit
    /\ login = [s \in States |-> [client |-> Nobody, status |-> "none"]]
    /\ grant = [g \in Grants |-> [state |-> Nobody, identity |-> Nobody, status |-> "none"]]
    /\ users = {}
    /\ stored = [c \in AuthCodes |-> [state |-> Nobody, client |-> Nobody,
                                      identity |-> Nobody, status |-> "none"]]
    /\ callback = [b \in Callbacks |-> NoCallback]
    /\ exchange = [r \in Requests |-> NoExchange]
    /\ opened = {}
    /\ delivered = [c \in AuthCodes |-> << >>]

-----------------------------------------------------------------------------
(* get_google_login_url: a fresh state with the client's challenge. *)
LoginUrl(s, cl) ==
    /\ login[s].status = "none" /\ Exchange \in routes
    /\ login' = [login EXCEPT ![s] = [client |-> cl, status |-> "live"]]
    /\ UNCHANGED <<limiterVars, grant, users, stored, callback, exchange, opened, delivered>>

(* External: Google lets a person sign in at the URL of a state. *)
Consent(g, s, e) ==
    /\ grant[g].status = "none" /\ login[s].status # "none"
    /\ grant' = [grant EXCEPT ![g] = [state |-> s, identity |-> e, status |-> "issued"]]
    /\ UNCHANGED <<limiterVars, login, users, stored, callback, exchange, opened, delivered>>

(* The ten minutes of a state are over. *)
StateExpires(s) ==
    /\ login[s].status = "live"
    /\ login' = [login EXCEPT ![s].status = "expired"]
    /\ UNCHANGED <<limiterVars, grant, users, stored, callback, exchange, opened, delivered>>

(* The sixty seconds of an auth code are over. *)
CodeExpires(c) ==
    /\ stored[c].status = "live"
    /\ stored' = [stored EXCEPT ![c].status = "expired"]
    /\ UNCHANGED <<limiterVars, login, grant, users, callback, exchange, opened, delivered>>

-----------------------------------------------------------------------------
Moves(b, pc) == callback' = [callback EXCEPT ![b].pc = pc]
Ends(b) == callback' = [callback EXCEPT ![b] = NoCallback]

(* Reading the state with GETDEL. *)
AfterReadDeleting(entry) == [entry EXCEPT !.status = "deleted"]

(* What the first read of the callback leaves of the state's entry: get,   *)
(* so that a failed exchange with Google does not destroy it.              *)
AfterRead(entry) == entry

(* google_auth_callback: the state's payload is read. *)
ReadState(b, s, g) ==
    /\ callback[b].pc = "idle"
    /\ grant[g].status # "none" /\ login[s].status = "live"
    /\ login' = [login EXCEPT ![s] = AfterRead(@)]
    /\ callback' = [callback EXCEPT ![b] =
                    [pc |-> "google", state |-> s, grant |-> g, client |-> login[s].client]]
    /\ UNCHANGED <<limiterVars, grant, users, stored, exchange, opened, delivered>>

(* External: what Google takes a code for, once and with the PKCE verifier *)
(* of the state the code was issued for.                                   *)
Redeems(g, s) == grant[g].status = "issued" /\ grant[g].state = s

(* get_google_access_token, answered with the identity. *)
GoogleAnswers(b) ==
    /\ callback[b].pc = "google" /\ Redeems(callback[b].grant, callback[b].state)
    /\ grant' = [grant EXCEPT ![callback[b].grant].status = "used"]
    /\ Moves(b, "select")
    /\ UNCHANGED <<limiterVars, login, users, stored, exchange, opened, delivered>>

(* Google refuses the code, or the call fails. *)
GoogleFails(b) ==
    /\ callback[b].pc = "google"
    /\ Ends(b)
    /\ UNCHANGED <<limiterVars, login, grant, users, stored, exchange, opened, delivered>>

Identity(b) == grant[callback[b].grant].identity

(* _get_or_create_user: the SELECT by e-mail. *)
FindUser(b) ==
    /\ callback[b].pc = "select"
    /\ Moves(b, IF Identity(b) \in users THEN "session" ELSE "insert")
    /\ UNCHANGED <<limiterVars, login, grant, users, stored, exchange, opened, delivered>>

(* The INSERT of the user: refused by the unique index, and the request    *)
(* with it, when another callback has inserted the e-mail meanwhile.       *)
InsertUser(b) ==
    /\ callback[b].pc = "insert"
    /\ users' = users \cup {Identity(b)}
    /\ IF Identity(b) \in users THEN Ends(b) ELSE Moves(b, "session")
    /\ UNCHANGED <<limiterVars, login, grant, stored, exchange, opened, delivered>>

(* create_auth_session, its commit, and the registration of the refresh    *)
(* token.                                                                  *)
OpenSession(b) ==
    /\ callback[b].pc = "session"
    /\ opened' = opened \cup {callback[b].grant}
    /\ Moves(b, "store")
    /\ UNCHANGED <<limiterVars, login, grant, users, stored, exchange, delivered>>

(* AuthCodeStore.store: the code carries the challenge of the state. *)
StoreCode(b, c) ==
    /\ callback[b].pc = "store" /\ stored[c].status = "none"
    /\ stored' = [stored EXCEPT ![c] =
                    [state |-> callback[b].state, client |-> callback[b].client,
                     identity |-> Identity(b), status |-> "live"]]
    /\ Moves(b, "delete")
    /\ UNCHANGED <<limiterVars, login, grant, users, exchange, opened, delivered>>

(* OAuthSessionStore.delete, and the redirect with the code (and with the   *)
(* token cookies, which nothing else here looks at).                        *)
DeleteState(b) ==
    /\ callback[b].pc = "delete"
    /\ login' = [login EXCEPT ![callback[b].state].status =
                    IF @ = "live" THEN "deleted" ELSE @]
    /\ Ends(b)
    /\ UNCHANGED <<limiterVars, grant, users, stored, exchange, opened, delivered>>

(* A callback is cut off by a crash or a store that fails. *)
CutOffCallback(b) ==
    /\ callback[b].pc \notin {"idle", "google"} /\ crashes < CrashBound
    /\ crashes' = crashes + 1
    /\ Ends(b)
    /\ UNCHANGED <<routes, counter, call, orphaned, login, grant, users, stored, exchange,
                   opened, delivered>>

-----------------------------------------------------------------------------
(* exchange_auth_code: anybody, with any code ever redirected. *)
ArriveExchange(r, cl, c) ==
    /\ stored[c].status # "none"
    /\ Arrive(r, Exchange)
    /\ exchange' = [exchange EXCEPT ![r] = [NoExchange EXCEPT !.code = c, !.client = cl]]
    /\ UNCHANGED <<login, grant, users, stored, callback, opened, delivered>>

(* Popping with GET, and deleting after the check. *)
AfterPopKept(entry) == entry

(* What the pop leaves of a code's row: GETDEL. *)
AfterPop(entry) == [entry EXCEPT !.status = "popped"]

(* _pop_auth_code_payload: a code that is not there ends the request. *)
Pop(r) ==
    /\ call[r].pc = "served" /\ call[r].route = Exchange
    /\ exchange[r].challenge = Nobody
    /\ LET c == exchange[r].code IN
        IF stored[c].status = "live"
          THEN /\ stored' = [stored EXCEPT ![c] = AfterPop(@)]
               /\ exchange' = [exchange EXCEPT ![r].challenge = stored[c].client]
               /\ UNCHANGED limiterVars
          ELSE /\ exchange' = [exchange EXCEPT ![r] = NoExchange]
               /\ Answer(r)
               /\ UNCHANGED stored
    /\ UNCHANGED <<login, grant, users, callback, opened, delivered>>

(* Handing the tokens to whoever has the code. *)
NotVerified(r) == TRUE

(* _verify_pkce: the verifier belongs to the challenge popped. *)
Verified(r) == exchange[r].client = exchange[r].challenge

(* The tokens, or a refusal that leaves the code burned. *)
AnswerExchange(r) ==
    /\ exchange[r].challenge # Nobody
    /\ delivered' =
        [delivered EXCEPT ![exchange[r].code] =
            IF Verified(r) THEN Append(@, exchange[r].client) ELSE @]
    /\ exchange' = [exchange EXCEPT ![r] = NoExchange]
    /\ Answer(r)
    /\ UNCHANGED <<login, grant, users, stored, callback, opened>>

(* The limiters, for the exchange and for the routes that have nothing to  *)
(* do with the bridge.                                                     *)
CountRequest(r) ==
    /\ Count(r)
    /\ exchange' = [exchange EXCEPT ![r] = IF call'[r] = NoCall THEN NoExchange ELSE @]
    /\ UNCHANGED <<login, grant, users, stored, callback, opened, delivered>>

ExpireCounter(r) ==
    /\ SetExpiry(r)
    /\ exchange' = [exchange EXCEPT ![r] = IF call'[r] = NoCall THEN NoExchange ELSE @]
    /\ UNCHANGED <<login, grant, users, stored, callback, opened, delivered>>

CutOffRequest(r) ==
    /\ CutOff(r)
    /\ exchange' = [exchange EXCEPT ![r] = NoExchange]
    /\ UNCHANGED <<login, grant, users, stored, callback, opened, delivered>>

OtherRoute(r) ==
    /\ \/ \E w \in {Login, KeyUse} : Arrive(r, w)
       \/ call[r].route \in {Login, KeyUse} /\ Answer(r)
       \/ Reset(r)
    /\ UNCHANGED bridgeVars

EndOfWindow(k) == WindowEnds(k) /\ UNCHANGED bridgeVars

-----------------------------------------------------------------------------
Next ==
    \/ \E s \in States, cl \in Clients : LoginUrl(s, cl)
    \/ \E g \in Grants, s \in States, e \in Identities : Consent(g, s, e)
    \/ \E s \in States : StateExpires(s)
    \/ \E c \in AuthCodes : CodeExpires(c)
    \/ \E b \in Callbacks :
        \/ \E s \in States, g \in Grants : ReadState(b, s, g)
        \/ GoogleAnswers(b)
        \/ GoogleFails(b)
        \/ FindUser(b)
        \/ InsertUser(b)
        \/ OpenSession(b)
        \/ \E c \in AuthCodes : StoreCode(b, c)
        \/ DeleteState(b)
        \/ CutOffCallback(b)
    \/ \E r \in Requests :
        \/ \E cl \in Clients, c \in AuthCodes : ArriveExchange(r, cl, c)
        \/ Pop(r)
        \/ AnswerExchange(r)
        \/ CountRequest(r)
        \/ ExpireCounter(r)
        \/ CutOffRequest(r)
        \/ OtherRoute(r)
    \/ \E k \in Counters : EndOfWindow(k)

Spec == Init /\ [][Next]_vars

-----------------------------------------------------------------------------
(* Whatever codes, states and verifiers people mix, and however exchanges  *)
(* and callbacks run together, the exchange hands out the tokens of a code *)
(* once ("atomically retrieve and delete - prevents replay under           *)
(* concurrent requests"), and only to the client that asked for the login  *)
(* URL at which the tokens' owner signed in: the challenge travels from    *)
(* the login URL through the state, the callback and the stored code to    *)
(* the exchange, and Google's own PKCE ties the code to the state.         *)
TokensOnceToInitiator ==
    \A c \in AuthCodes : delivered[c] # << >> =>
        \E g \in opened :
            /\ grant[g].identity = stored[c].identity
            /\ grant[g].state = stored[c].state
            /\ delivered[c] = <<login[grant[g].state].client>>

(* "Transient failures don't destroy the session": a state leaves the      *)
(* store by its expiry, or after a callback stored a code for it; any      *)
(* other end of a callback leaves it there for another try.                *)
StateOutlivesFailure ==
    \A s \in States : login[s].status = "deleted" =>
        \E c \in AuthCodes : stored[c].state = s

(* The login URLs by the client that asked for them, the sign-ins Google    *)
(* has confirmed and the codes that were stored, by state and person.       *)
AskedBy ==
    [s \in States |-> IF login[s].status = "none" THEN Nobody ELSE login[s].client]
Nowhere == [url |-> Nobody, person |-> Nobody]
SignedInAt ==
    [g \in Grants |-> IF grant[g].status = "used"
                      THEN [url |-> grant[g].state, person |-> grant[g].identity]
                      ELSE Nowhere]
IssuedAt ==
    [c \in AuthCodes |-> IF stored[c].status = "none" THEN Nowhere
                         ELSE [url |-> stored[c].state, person |-> stored[c].identity]]

(* The bridge implements SignIn: no failure, retry or overlap of callbacks  *)
(* makes two codes out of one sign-in at Google, or gives tokens to another *)
(* client than the one that asked for the login URL.                        *)
Promise == INSTANCE SignIn WITH
    People <- Identities, Urls <- States, SignIns <- Grants, Codes <- AuthCodes,
    asked <- AskedBy, signedIn <- SignedInAt, issued <- IssuedAt, handed <- delivered
SignInSpec == Promise!Spec
=============================================================================

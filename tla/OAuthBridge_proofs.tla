------------------------- MODULE OAuthBridge_proofs -------------------------
(***************************************************************************)
(* Theorems about OAuthBridge and the limiters it composes (RateLimiter),  *)
(* for any clients, states, codes, callbacks, requests, counters and       *)
(* limits.                                                                 *)
(***************************************************************************)
EXTENDS OAuthBridge, FiniteSetTheorems, TLAPS

-----------------------------------------------------------------------------
(* The invariant of the limiters *)

Call ==
    [route : Routes \cup {<< >>}, pc : {"idle", "incr", "expire", "served"},
     at : Nat, ok : BOOLEAN]

(* Where a request is: at a counter of its route, or done with counting. *)
CallShape(c) ==
    /\ c.pc = "idle" => c = NoCall
    /\ c.pc # "idle" => c.route \in Routes
    /\ c.pc \in {"incr", "expire"} => c.at \in 1 .. Len(c.route)
    /\ c.pc = "expire" => ~ Pipelined(c.route)
    /\ c.at \in 1 .. Len(c.route) + 1

(* An orphaned counter has no TTL, so that only a route that sends INCR and *)
(* EXPIRE apart can pass it.                                                *)
LimiterInv ==
    /\ LimiterTypeOK
    /\ counter \in [Counters -> [count : Nat, ttl : BOOLEAN]]
    /\ call \in [Requests -> Call]
    /\ \A r \in Requests : CallShape(call[r])
    /\ orphaned \subseteq Counters
    /\ \A k \in orphaned : \A i \in 1 .. Len(KeyUse) : KeyUse[i] # k

-----------------------------------------------------------------------------
(* The inductive invariant of the bridge *)

(* Everything a callback carries belongs together, and once Google has      *)
(* answered, its code was issued for the state the callback came with.      *)
CallbackShape(b) ==
    LET d == callback[b] IN
    /\ d.pc = "idle" => d = NoCallback
    /\ d.pc # "idle" =>
        /\ d.state \in States /\ d.grant \in Grants /\ d.client \in Clients
        /\ login[d.state].status # "none" /\ d.client = login[d.state].client
        /\ grant[d.grant].status # "none"
    /\ d.pc \notin {"idle", "google"} =>
        /\ grant[d.grant].status = "used"
        /\ grant[d.grant].state = d.state
    /\ d.pc \in {"session", "store", "delete"} => Identity(b) \in users
    /\ d.pc \in {"store", "delete"} => d.grant \in opened
    /\ d.pc = "delete" =>
        \E c \in AuthCodes : stored[c].status # "none" /\ stored[c].state = d.state

LoginShape(s) ==
    /\ login[s].status # "none" => login[s].client \in Clients
    /\ login[s].status = "deleted" =>
        \E c \in AuthCodes : stored[c].status # "none" /\ stored[c].state = s

GrantShape(g) ==
    grant[g].status # "none" =>
        /\ grant[g].state \in States /\ grant[g].identity \in Identities
        /\ login[grant[g].state].status # "none"

(* A stored code names the client of its state and a person who signed in   *)
(* at that client's URL.                                                    *)
CodeShape(c) ==
    /\ stored[c].status # "none" =>
        /\ stored[c].state \in States /\ stored[c].identity \in users
        /\ stored[c].client = login[stored[c].state].client
        /\ login[stored[c].state].status # "none"
        /\ \E g \in opened : /\ grant[g].identity = stored[c].identity
                             /\ grant[g].state = stored[c].state
    /\ delivered[c] # << >> =>
        /\ stored[c].status = "popped"
        /\ delivered[c] = <<stored[c].client>>

(* A request of the exchange route that has a challenge is the one that     *)
(* popped the code, which has delivered nothing yet.                        *)
ExchangeShape(r) ==
    LET x == exchange[r] IN
    /\ x # NoExchange => /\ call[r].route = Exchange /\ call[r].pc # "idle"
                         /\ x.code \in AuthCodes /\ x.client \in Clients
                         /\ stored[x.code].status # "none"
    /\ x = NoExchange => call[r].route # Exchange
    /\ x.challenge # Nobody =>
        /\ call[r].pc = "served"
        /\ stored[x.code].status = "popped"
        /\ x.challenge = stored[x.code].client
        /\ delivered[x.code] = << >>
        /\ \A q \in Requests :
            exchange[q].challenge # Nobody /\ exchange[q].code = x.code => q = r

Stores ==
    /\ login \in [States -> LoginEntry]
    /\ grant \in [Grants -> Grant]
    /\ users \subseteq Identities
    /\ stored \in [AuthCodes -> AuthCode]
    /\ callback \in [Callbacks -> Callback]
    /\ exchange \in [Requests -> [code : AuthCodes \cup {Nobody},
                                  client : Clients \cup {Nobody},
                                  challenge : Clients \cup {Nobody}]]
    /\ opened \subseteq {g \in Grants : grant[g].status = "used"}
    /\ delivered \in [AuthCodes -> Seq(Clients)]

BridgeInv ==
    /\ Stores
    /\ \A s \in States : LoginShape(s)
    /\ \A g \in Grants : GrantShape(g)
    /\ \A c \in AuthCodes : CodeShape(c)
    /\ \A b \in Callbacks : CallbackShape(b)
    /\ \A r \in Requests : ExchangeShape(r)

IInv == LimiterInv /\ SelfCleaning /\ BridgeInv

-----------------------------------------------------------------------------
(* Routes and counters *)

LEMMA ThreeRoutes == Login # Exchange /\ Login # KeyUse /\ Exchange # KeyUse
<1>1. Cardinality({Login, Exchange, KeyUse}) = 3
  BY RoutesAssumption DEF RoutesAssumption, Routes
<1>2. ASSUME NEW a, NEW b PROVE {a, b} # {Login, Exchange, KeyUse}
  <2>1. IsFiniteSet({a}) /\ Cardinality({a}) = 1
    BY FS_Singleton
  <2>2. /\ IsFiniteSet({a} \cup {b})
        /\ Cardinality({a} \cup {b}) = IF b \in {a} THEN 1 ELSE 1 + 1
    BY <2>1, FS_AddElement
  <2>3. {a, b} = {a} \cup {b}
    OBVIOUS
  <2>4. Cardinality({a, b}) # 3
    BY <2>2, <2>3
  <2> QED BY <1>1, <2>4, Zenon
<1>3. Login = Exchange => {Login, Exchange, KeyUse} = {Login, KeyUse}
  OBVIOUS
<1>4. Login = KeyUse => {Login, Exchange, KeyUse} = {Login, Exchange}
  OBVIOUS
<1>5. Exchange = KeyUse => {Login, Exchange, KeyUse} = {Login, Exchange}
  OBVIOUS
<1>6. {Login, KeyUse} # {Login, Exchange, KeyUse}
  BY <1>2, Zenon
<1>7. {Login, Exchange} # {Login, Exchange, KeyUse}
  BY <1>2, Zenon
<1> QED BY <1>3, <1>4, <1>5, <1>6, <1>7

LEMMA RouteFacts ==
  /\ \A w \in Routes : /\ w \in Seq(Counters) /\ w # << >> /\ Len(w) \in Nat \ {0}
                       /\ \A i \in 1 .. Len(w) : w[i] \in Counters
  /\ << >> \notin Routes
  /\ Login \in Routes /\ Exchange \in Routes /\ KeyUse \in Routes
  /\ ~ Pipelined(Login) /\ ~ Pipelined(Exchange) /\ Pipelined(KeyUse)
<1>1. \A w \in Routes : w \in Seq(Counters) /\ w # << >>
  BY RoutesAssumption DEF RoutesAssumption
<1>2. \A w \in Routes : /\ Len(w) \in Nat \ {0}
                        /\ \A i \in 1 .. Len(w) : w[i] \in Counters
  BY <1>1
<1> QED BY <1>1, <1>2, ThreeRoutes DEF Routes, Pipelined

(* No counter of the API keys belongs to a route that sends INCR and EXPIRE *)
(* apart (the keys of different limiters differ by their prefix).           *)
LEMMA RoutesShareNothing ==
  ASSUME NEW w \in Routes, ~ Pipelined(w), NEW i \in 1 .. Len(w),
         NEW j \in 1 .. Len(KeyUse)
  PROVE  KeyUse[j] # w[i]
<1>1. /\ w \in Seq(Counters) /\ KeyUse \in Seq(Counters) /\ KeyUse \in Routes /\ w # KeyUse
  BY RouteFacts DEF Pipelined
<1>2. Range(w) \cap Range(KeyUse) = {}
  BY <1>1, RoutesAssumption DEF RoutesAssumption
<1>3. w[i] \in Range(w) /\ KeyUse[j] \in Range(KeyUse)
  BY <1>1 DEF Range
<1> QED BY <1>2, <1>3

LEMMA CallFacts ==
  ASSUME LimiterInv, NEW r \in Requests
  PROVE  /\ call[r] \in Call /\ CallShape(call[r])
         /\ call[r].pc \in {"incr", "expire"} =>
              /\ call[r].route \in Routes /\ call[r].at \in 1 .. Len(call[r].route)
              /\ Current(r) \in Counters
<1>1. call[r] \in Call /\ CallShape(call[r])
  BY DEF LimiterInv
<1>2. ASSUME call[r].pc \in {"incr", "expire"}
      PROVE  /\ call[r].route \in Routes /\ call[r].at \in 1 .. Len(call[r].route)
             /\ Current(r) \in Counters
  <2>1. call[r].route \in Routes /\ call[r].at \in 1 .. Len(call[r].route)
    BY <1>1, <1>2 DEF CallShape, Call
  <2> QED BY <2>1, RouteFacts DEF Current
<1> QED BY <1>1, <1>2

LEMMA NoCallShape == NoCall \in Call /\ CallShape(NoCall)
<1>1. Len(NoCall.route) = 0
  BY DEF NoCall
<1> QED BY <1>1, RouteFacts DEF NoCall, Call, CallShape

(* The next place of a request that has been counted at one of its          *)
(* counters.                                                                *)
LEMMA AfterShape ==
  ASSUME NEW c \in Call, c.route \in Routes, c.at \in 1 .. Len(c.route)
  PROVE  /\ After(c) \in Call /\ CallShape(After(c)) /\ After(c).pc # "expire"
         /\ \/ After(c) = NoCall
            \/ After(c).pc \in {"incr", "served"} /\ After(c).route = c.route
<1>1. Len(c.route) \in Nat
  BY RouteFacts
<1>2. CASE c.at < Len(c.route) /\ (c.ok \/ ~ Pipelined(c.route))
  <2>1. After(c) = [c EXCEPT !.pc = "incr", !.at = c.at + 1]
    BY <1>2 DEF After
  <2>2. c.at + 1 \in 1 .. Len(c.route) /\ c.at + 1 \in Nat
    BY <1>1, <1>2
  <2>3. /\ After(c).pc = "incr" /\ After(c).at = c.at + 1 /\ After(c).route = c.route
        /\ After(c) \in Call
    BY <2>1, <2>2 DEF Call
  <2> QED BY <1>1, <2>2, <2>3 DEF CallShape
<1>3. CASE ~ (c.at < Len(c.route) /\ (c.ok \/ ~ Pipelined(c.route))) /\ c.ok
  <2>1. After(c) = [c EXCEPT !.pc = "served"]
    BY <1>3 DEF After
  <2>2. /\ After(c).pc = "served" /\ After(c).at = c.at /\ After(c).route = c.route
        /\ After(c) \in Call
    BY <2>1 DEF Call
  <2> QED BY <1>1, <2>2 DEF CallShape
<1>4. CASE ~ (c.at < Len(c.route) /\ (c.ok \/ ~ Pipelined(c.route))) /\ ~ c.ok
  <2>1. After(c) = NoCall
    BY <1>4 DEF After
  <2> QED BY <2>1, NoCallShape DEF NoCall
<1> QED BY <1>2, <1>3, <1>4

-----------------------------------------------------------------------------
(* The limiters *)

LEMMA InitLimiter == LimiterInit => LimiterInv /\ SelfCleaning
<1> SUFFICES ASSUME LimiterInit PROVE LimiterInv /\ SelfCleaning
  OBVIOUS
<1>1. \A r \in Requests : call[r] = NoCall
  BY DEF LimiterInit
<1>2. \A k \in Counters : Limit[k] \in Nat \ {0}
  BY LimitAssumption DEF LimitAssumption
<1>3. LimiterTypeOK
  <2>1. \A r \in Requests : call[r] \in Call /\ CallShape(call[r])
    BY <1>1, NoCallShape
  <2>2. \A r \in Requests :
          /\ call[r].route \in Routes \cup {<< >>}
          /\ call[r].pc \in {"idle", "incr", "expire", "served"}
          /\ call[r].at \in 1 .. Len(call[r].route) + 1
          /\ call[r].ok \in BOOLEAN
    BY <2>1 DEF Call, CallShape
  <2> QED BY <1>2, <2>2, CrashAssumption
          DEF LimiterInit, LimiterTypeOK, NoCounter, CrashAssumption
<1>4. SelfCleaning
  BY DEF LimiterInit, SelfCleaning, NoCounter
<1> QED BY <1>3, <1>4, NoCallShape DEF LimiterInit, LimiterInv, NoCounter

(* From the clauses about the counters and those about the requests.        *)
LEMMA LimiterTypes ==
  ASSUME LimiterInv, NEW c \in [Counters -> [count : Nat, ttl : BOOLEAN]],
         \A k \in Counters : /\ c[k].count \in 0 .. Limit[k] + 1
                             /\ c[k].ttl => c[k].count > 0,
         counter' = c,
         call' \in [Requests -> Call], \A r \in Requests : CallShape(call'[r]),
         orphaned' \subseteq Counters,
         \A k \in orphaned' :
            /\ c[k].count > 0 /\ ~ c[k].ttl
            /\ \A i \in 1 .. Len(KeyUse) : KeyUse[i] # k,
         crashes' \in 0 .. CrashBound, UNCHANGED routes
  PROVE  LimiterInv'
BY DEF LimiterInv, LimiterTypeOK, Call, CallShape

LEMMA ArriveStep ==
  ASSUME LimiterInv, SelfCleaning, NEW r \in Requests, NEW w \in Routes, Arrive(r, w)
  PROVE  LimiterInv' /\ SelfCleaning'
<1>1. /\ call[r] \in Call /\ call \in [Requests -> Call] /\ call[r].pc = "idle"
      /\ UNCHANGED <<routes, counter, orphaned, crashes>>
  BY DEF LimiterInv, Arrive
<1>2. call'[r] = [route |-> w, pc |-> "incr", at |-> 1, ok |-> TRUE]
      /\ \A q \in Requests : q # r => call'[q] = call[q]
  BY <1>1 DEF Arrive, NoCall
<1>3. call'[r] \in Call /\ CallShape(call'[r])
  BY <1>2, RouteFacts DEF Call, CallShape
<1>4. call' \in [Requests -> Call] /\ \A q \in Requests : CallShape(call'[q])
  BY <1>1, <1>2, <1>3 DEF Arrive, LimiterInv
<1>5. LimiterInv'
  <2>1. counter \in [Counters -> [count : Nat, ttl : BOOLEAN]]
    BY DEF LimiterInv
  <2> QED BY <1>1, <1>4, <2>1, LimiterTypes DEF LimiterInv, LimiterTypeOK
<1>6. \A q \in Requests, k \in Counters : OwesExpiry(q, k) => OwesExpiry(q, k)'
  BY <1>1, <1>2 DEF OwesExpiry, Current
<1> QED BY <1>1, <1>5, <1>6 DEF SelfCleaning

(* A request that ends owes nothing.                                        *)
LEMMA AnswerStep ==
  ASSUME LimiterInv, SelfCleaning, NEW r \in Requests, Answer(r) \/ Reset(r)
  PROVE  LimiterInv' /\ SelfCleaning'
<1>1. /\ call[r] \in Call /\ call \in [Requests -> Call] /\ call[r].pc = "served"
      /\ UNCHANGED <<routes, crashes>> /\ call' = [call EXCEPT ![r] = NoCall]
      /\ counter \in [Counters -> [count : Nat, ttl : BOOLEAN]]
  BY DEF LimiterInv, Answer, Reset
<1>2. call' \in [Requests -> Call] /\ \A q \in Requests : CallShape(call'[q])
  BY <1>1, NoCallShape DEF LimiterInv
<1>3. \A q \in Requests, k \in Counters : OwesExpiry(q, k) => OwesExpiry(q, k)'
  BY <1>1 DEF OwesExpiry, Current
<1>4. CASE Answer(r)
  <2>1. UNCHANGED <<counter, orphaned>>
    BY <1>4 DEF Answer
  <2>2. LimiterInv'
    BY <1>1, <1>2, <2>1, LimiterTypes DEF LimiterInv, LimiterTypeOK
  <2> QED BY <1>3, <2>1, <2>2 DEF SelfCleaning
<1>5. CASE Reset(r)
  <2> DEFINE h == Head(Login)
  <2>1. /\ counter' = [counter EXCEPT ![h] = NoCounter] /\ orphaned' = orphaned \ {h}
    BY <1>5 DEF Reset
  <2>2. h \in Counters
    BY RouteFacts
  <2> HIDE DEF h
  <2>3. /\ counter' \in [Counters -> [count : Nat, ttl : BOOLEAN]]
        /\ \A k \in Counters : counter'[k] = IF k = h THEN NoCounter ELSE counter[k]
    BY <1>1, <2>1, <2>2 DEF NoCounter
  <2>4. \A k \in Counters : Limit[k] \in Nat \ {0}
    BY LimitAssumption DEF LimitAssumption
  <2>5. \A k \in Counters : /\ counter'[k].count \in 0 .. Limit[k] + 1
                            /\ counter'[k].ttl => counter'[k].count > 0
    BY <2>3, <2>4 DEF NoCounter, LimiterInv, LimiterTypeOK
  <2>6. /\ orphaned' \subseteq Counters
        /\ \A k \in orphaned' :
              /\ counter'[k].count > 0 /\ ~ counter'[k].ttl
              /\ \A i \in 1 .. Len(KeyUse) : KeyUse[i] # k
    BY <2>1, <2>3 DEF LimiterInv, LimiterTypeOK
  <2>7. LimiterInv'
    BY <1>1, <1>2, <2>3, <2>5, <2>6, LimiterTypes DEF LimiterInv, LimiterTypeOK
  <2>8. \A k \in Counters : counter'[k].count > 0 => k # h /\ counter'[k] = counter[k]
    BY <2>3 DEF NoCounter
  <2> QED BY <1>3, <2>1, <2>7, <2>8 DEF SelfCleaning
<1> QED BY <1>4, <1>5

(* INCR: the request that creates a counter owes it the EXPIRE, unless the  *)
(* two are piped.                                                           *)
LEMMA CountStep ==
  ASSUME LimiterInv, SelfCleaning, NEW r \in Requests, Count(r)
  PROVE  LimiterInv' /\ SelfCleaning'
<1> DEFINE k == Current(r)
           count == IF counter[k].count > Limit[k] THEN counter[k].count
                    ELSE counter[k].count + 1
           ok == call[r].ok /\ count <= Limit[k]
           c == [call[r] EXCEPT !.ok = ok]
           w == call[r].route
<1>1. /\ call[r] \in Call /\ call \in [Requests -> Call] /\ call[r].pc = "incr"
      /\ k \in Counters /\ w \in Routes /\ call[r].at \in 1 .. Len(w)
      /\ counter \in [Counters -> [count : Nat, ttl : BOOLEAN]]
      /\ Limit[k] \in Nat \ {0} /\ counter[k].count \in 0 .. Limit[k] + 1
      /\ UNCHANGED <<routes, orphaned, crashes>>
  BY CallFacts, LimitAssumption DEF LimiterInv, LimiterTypeOK, Count, LimitAssumption
<1>2. /\ count \in 1 .. Limit[k] + 1
      /\ count = 1 => counter[k].count = 0
  BY <1>1
<1>3. ok \in BOOLEAN
  BY <1>1 DEF Call
<1>4. /\ c \in Call /\ c.route = w /\ c.at = call[r].at /\ c.pc = "incr"
  <2> HIDE DEF ok
  <2> QED BY <1>1, <1>3 DEF Call
<1>5. /\ counter' = [counter EXCEPT ![k] =
                       [count |-> count, ttl |-> counter[k].ttl \/ Pipelined(w)]]
      /\ call' = [call EXCEPT ![r] = IF count = 1 /\ ~ Pipelined(w)
                                       THEN [c EXCEPT !.pc = "expire"] ELSE After(c)]
  <2>1. call[r].route = c.route
    BY <1>4
  <2> QED BY <2>1 DEF Count, Opens
<1> HIDE DEF c, count, ok
<1>6. call'[r] \in Call /\ CallShape(call'[r])
  <2>1. CASE count = 1 /\ ~ Pipelined(w)
    <3>1. call'[r] = [c EXCEPT !.pc = "expire"]
      BY <1>1, <1>5, <2>1
    <3>2. call'[r].pc = "expire" /\ call'[r].route = w /\ call'[r].at = call[r].at
          /\ call'[r] \in Call
      BY <1>4, <3>1 DEF Call
    <3>3. Len(w) \in Nat
      BY <1>1, RouteFacts
    <3> QED BY <1>1, <2>1, <3>2, <3>3 DEF CallShape
  <2>2. CASE ~ (count = 1 /\ ~ Pipelined(w))
    BY <1>1, <1>4, <1>5, <2>2, AfterShape
  <2> QED BY <2>1, <2>2
<1>7. call' \in [Requests -> Call] /\ \A q \in Requests : CallShape(call'[q])
  BY <1>1, <1>5, <1>6 DEF LimiterInv
<1>8. /\ counter'[k].count = count
      /\ counter'[k].ttl <=> counter[k].ttl \/ Pipelined(w)
      /\ \A j \in Counters : j # k => counter'[j] = counter[j]
      /\ counter' \in [Counters -> [count : Nat, ttl : BOOLEAN]]
  <2> DEFINE ttl == counter[k].ttl \/ Pipelined(w)
  <2>1. ttl \in BOOLEAN
    OBVIOUS
  <2>2. counter' = [counter EXCEPT ![k] = [count |-> count, ttl |-> ttl]]
    BY <1>5
  <2> HIDE DEF ttl
  <2>3. counter'[k].count = count /\ counter'[k].ttl = ttl
    BY <1>1, <2>2
  <2>4. counter' \in [Counters -> [count : Nat, ttl : BOOLEAN]]
    BY <1>1, <1>2, <2>1, <2>2
  <2>5. \A j \in Counters : j # k => counter'[j] = counter[j]
    BY <1>1, <2>2
  <2> QED BY <2>3, <2>4, <2>5 DEF ttl
<1> HIDE DEF k, w
<1>11. \A j \in Counters : /\ counter'[j].count \in 0 .. Limit[j] + 1
                           /\ counter'[j].ttl => counter'[j].count > 0
  BY <1>1, <1>2, <1>8 DEF LimiterInv, LimiterTypeOK
<1>12. k \in orphaned => ~ Pipelined(w) /\ count # 1
  <2>1. ASSUME k \in orphaned, Pipelined(w) PROVE FALSE
    <3>1. w = KeyUse /\ k = w[call[r].at]
      BY <2>1 DEF Pipelined, k, w, Current
    <3> QED BY <1>1, <2>1, <3>1 DEF LimiterInv
  <2>2. k \in orphaned => counter[k].count > 0
    BY DEF LimiterInv, LimiterTypeOK
  <2> QED BY <1>1, <1>2, <2>1, <2>2
<1>13. \A j \in orphaned :
          /\ counter'[j].count > 0 /\ ~ counter'[j].ttl
          /\ \A i \in 1 .. Len(KeyUse) : KeyUse[i] # j
  <2>1. orphaned \subseteq Counters
    BY DEF LimiterInv
  <2>2. \A j \in orphaned : counter[j].count > 0 /\ ~ counter[j].ttl
    BY DEF LimiterInv, LimiterTypeOK
  <2>3. \A j \in orphaned : counter'[j].count > 0 /\ ~ counter'[j].ttl
    BY <1>2, <1>8, <1>12, <2>1, <2>2
  <2> QED BY <2>3 DEF LimiterInv
<1>14. LimiterInv'
  BY <1>1, <1>7, <1>8, <1>11, <1>13, LimiterTypes DEF LimiterInv, LimiterTypeOK
<1>15. ASSUME NEW j \in Counters, counter'[j].count > 0
       PROVE  counter'[j].ttl \/ (\E q \in Requests : OwesExpiry(q, j)') \/ j \in orphaned'
  <2>1. CASE j = k /\ Pipelined(w)
    BY <1>8, <2>1
  <2>2. CASE j = k /\ ~ Pipelined(w) /\ count = 1
    <3>1. call'[r] = [c EXCEPT !.pc = "expire"]
      BY <1>1, <1>5, <2>2
    <3>2. call'[r].pc = "expire" /\ call'[r].route = w /\ call'[r].at = call[r].at
      BY <1>4, <3>1 DEF Call
    <3>3. OwesExpiry(r, j)'
      BY <2>2, <3>2 DEF OwesExpiry, Current, k, w
    <3> QED BY <3>3
  <2>3. CASE j # k \/ (~ Pipelined(w) /\ count # 1)
    <3>1. counter[j].count > 0 /\ (counter[j].ttl => counter'[j].ttl)
      <4>1. CASE j # k
        BY <1>8, <1>15, <4>1
      <4>2. CASE j = k /\ count # 1
        <5>1. counter[k].count > 0
          BY <1>1, <1>2, <4>2 DEF count
        <5> QED BY <1>8, <4>2, <5>1
      <4> QED BY <2>3, <4>1, <4>2
    <3>2. \A q \in Requests : OwesExpiry(q, j) => OwesExpiry(q, j)'
      BY <1>1, <1>5 DEF OwesExpiry, Current
    <3> QED BY <1>1, <3>1, <3>2 DEF SelfCleaning
  <2> QED BY <2>1, <2>2, <2>3
<1> QED BY <1>14, <1>15 DEF SelfCleaning

(* EXPIRE: whoever created the counter, it has a TTL from now on, or is     *)
(* gone.                                                                    *)
LEMMA SetExpiryStep ==
  ASSUME LimiterInv, SelfCleaning, NEW r \in Requests, SetExpiry(r)
  PROVE  LimiterInv' /\ SelfCleaning'
<1> DEFINE k == Current(r)
           ttl == counter[k].ttl \/ counter[k].count > 0
<1>1. /\ call[r] \in Call /\ call \in [Requests -> Call] /\ call[r].pc = "expire"
      /\ k \in Counters /\ call[r].route \in Routes
      /\ call[r].at \in 1 .. Len(call[r].route)
      /\ counter \in [Counters -> [count : Nat, ttl : BOOLEAN]]
      /\ UNCHANGED <<routes, crashes>>
      /\ call' = [call EXCEPT ![r] = After(call[r])]
      /\ counter' = [counter EXCEPT ![k].ttl = ttl] /\ orphaned' = orphaned \ {k}
  BY CallFacts DEF LimiterInv, LimiterTypeOK, SetExpiry
<1>2. call' \in [Requests -> Call] /\ \A q \in Requests : CallShape(call'[q])
  <2>1. After(call[r]) \in Call /\ CallShape(After(call[r]))
    BY <1>1, AfterShape
  <2> QED BY <1>1, <2>1 DEF LimiterInv
<1>3. ttl \in BOOLEAN
  OBVIOUS
<1>4. /\ counter'[k].count = counter[k].count /\ counter'[k].ttl = ttl
      /\ \A j \in Counters : j # k => counter'[j] = counter[j]
      /\ counter' \in [Counters -> [count : Nat, ttl : BOOLEAN]]
  <2> HIDE DEF ttl
  <2> QED BY <1>1, <1>3
<1>5. \A q \in Requests, j \in Counters : OwesExpiry(q, j) /\ j # k => OwesExpiry(q, j)'
  BY <1>1 DEF OwesExpiry, Current
<1>6. counter[k].count > 0 => counter'[k].ttl
  BY <1>4
<1>7. counter'[k].ttl => counter'[k].count > 0
  <2>1. counter[k].ttl => counter[k].count > 0
    BY <1>1 DEF LimiterInv, LimiterTypeOK
  <2> QED BY <1>4, <2>1
<1> HIDE DEF k, ttl
<1>8. \A j \in Counters : /\ counter'[j].count \in 0 .. Limit[j] + 1
                          /\ counter'[j].ttl => counter'[j].count > 0
  BY <1>1, <1>4, <1>7 DEF LimiterInv, LimiterTypeOK
<1>9. /\ orphaned' \subseteq Counters
      /\ \A j \in orphaned' :
            /\ counter'[j].count > 0 /\ ~ counter'[j].ttl
            /\ \A i \in 1 .. Len(KeyUse) : KeyUse[i] # j
  BY <1>1, <1>4 DEF LimiterInv, LimiterTypeOK
<1>10. LimiterInv'
  BY <1>1, <1>2, <1>4, <1>8, <1>9, LimiterTypes DEF LimiterInv, LimiterTypeOK
<1>11. \A j \in Counters : j # k /\ counter'[j].count > 0 =>
          counter'[j].ttl \/ (\E q \in Requests : OwesExpiry(q, j)') \/ j \in orphaned'
  BY <1>1, <1>4, <1>5 DEF SelfCleaning
<1> QED BY <1>4, <1>6, <1>10, <1>11 DEF SelfCleaning

(* A request cut off between INCR and EXPIRE orphans its counter, unless    *)
(* another request owes the counter an EXPIRE too.                          *)
LEMMA CutOffStep ==
  ASSUME LimiterInv, SelfCleaning, NEW r \in Requests, CutOff(r)
  PROVE  LimiterInv' /\ SelfCleaning'
<1> DEFINE left == {k \in Counters :
                      /\ OwesExpiry(r, k)
                      /\ counter[k].count > 0 /\ ~ counter[k].ttl
                      /\ \A q \in Requests \ {r} : ~ OwesExpiry(q, k)}
<1>1. /\ call \in [Requests -> Call] /\ crashes < CrashBound /\ crashes' = crashes + 1
      /\ UNCHANGED <<routes, counter>> /\ call' = [call EXCEPT ![r] = NoCall]
      /\ orphaned' = orphaned \cup left
      /\ counter \in [Counters -> [count : Nat, ttl : BOOLEAN]]
  BY DEF LimiterInv, CutOff
<1>2. call' \in [Requests -> Call] /\ \A q \in Requests : CallShape(call'[q])
  BY <1>1, NoCallShape DEF LimiterInv
<1>3. crashes' \in 0 .. CrashBound
  BY <1>1, CrashAssumption DEF LimiterInv, LimiterTypeOK, CrashAssumption
<1>4. ASSUME NEW k \in left
      PROVE  /\ k \in Counters /\ counter[k].count > 0 /\ ~ counter[k].ttl
             /\ \A i \in 1 .. Len(KeyUse) : KeyUse[i] # k
  <2>1. call[r].pc = "expire" /\ Current(r) = k
    BY DEF OwesExpiry
  <2>2. /\ call[r].route \in Routes /\ call[r].at \in 1 .. Len(call[r].route)
        /\ ~ Pipelined(call[r].route)
    BY <2>1, CallFacts DEF CallShape
  <2>3. k = call[r].route[call[r].at]
    BY <2>1 DEF Current
  <2> QED BY <2>2, <2>3, RoutesShareNothing
<1>5. /\ orphaned' \subseteq Counters
      /\ \A k \in orphaned' :
            /\ counter[k].count > 0 /\ ~ counter[k].ttl
            /\ \A i \in 1 .. Len(KeyUse) : KeyUse[i] # k
  <2> HIDE DEF left
  <2> QED BY <1>1, <1>4 DEF LimiterInv, LimiterTypeOK
<1>6. LimiterInv'
  <2> HIDE DEF left
  <2>1. counter' = counter
    BY <1>1
  <2> QED BY <1>1, <1>2, <1>3, <1>5, <2>1, LimiterTypes DEF LimiterInv, LimiterTypeOK
<1>7. ASSUME NEW k \in Counters, counter[k].count > 0, ~ counter[k].ttl,
             \A q \in Requests \ {r} : ~ OwesExpiry(q, k)
      PROVE  k \in orphaned'
  BY <1>1, <1>7 DEF SelfCleaning
<1>8. \A q \in Requests \ {r}, k \in Counters : OwesExpiry(q, k) => OwesExpiry(q, k)'
  BY <1>1 DEF OwesExpiry, Current
<1> QED BY <1>1, <1>6, <1>7, <1>8 DEF SelfCleaning

LEMMA WindowEndsStep ==
  ASSUME LimiterInv, SelfCleaning, NEW k \in Counters, WindowEnds(k)
  PROVE  LimiterInv' /\ SelfCleaning'
<1>1. /\ UNCHANGED <<routes, call, orphaned, crashes>> /\ counter[k].ttl
      /\ counter \in [Counters -> [count : Nat, ttl : BOOLEAN]]
      /\ counter' = [counter EXCEPT ![k] = NoCounter]
  BY DEF WindowEnds, LimiterInv
<1>2. /\ counter' \in [Counters -> [count : Nat, ttl : BOOLEAN]]
      /\ \A j \in Counters : counter'[j] = IF j = k THEN NoCounter ELSE counter[j]
  BY <1>1 DEF NoCounter
<1>3. \A j \in Counters : Limit[j] \in Nat \ {0}
  BY LimitAssumption DEF LimitAssumption
<1>4. \A j \in Counters : /\ counter'[j].count \in 0 .. Limit[j] + 1
                          /\ counter'[j].ttl => counter'[j].count > 0
  BY <1>2, <1>3 DEF NoCounter, LimiterInv, LimiterTypeOK
<1>5. /\ orphaned' \subseteq Counters
      /\ \A j \in orphaned' :
            /\ counter'[j].count > 0 /\ ~ counter'[j].ttl
            /\ \A i \in 1 .. Len(KeyUse) : KeyUse[i] # j
  BY <1>1, <1>2 DEF LimiterInv, LimiterTypeOK
<1>6. LimiterInv'
  BY <1>1, <1>2, <1>4, <1>5, LimiterTypes DEF LimiterInv, LimiterTypeOK
<1>7. \A j \in Counters : counter'[j].count > 0 => counter'[j] = counter[j]
  BY <1>2 DEF NoCounter
<1>8. \A q \in Requests, j \in Counters : OwesExpiry(q, j) => OwesExpiry(q, j)'
  BY <1>1 DEF OwesExpiry, Current
<1> QED BY <1>1, <1>6, <1>7, <1>8 DEF SelfCleaning

(* Steps that leave the limiters alone, but for the count of crashes.       *)
LEMMA QuietStep ==
  ASSUME LimiterInv, SelfCleaning, UNCHANGED <<routes, counter, call, orphaned>>,
         crashes' \in 0 .. CrashBound
  PROVE  LimiterInv' /\ SelfCleaning'
BY DEF LimiterInv, LimiterTypeOK, SelfCleaning, OwesExpiry, Current

(* Every step of the bridge is a step of one limiter, or none of theirs.    *)
LEMMA LimiterStep ==
  ASSUME LimiterInv, SelfCleaning, [Next]_vars
  PROVE  LimiterInv' /\ SelfCleaning'
<1>1. CASE UNCHANGED limiterVars
  BY <1>1, QuietStep DEF limiterVars, LimiterInv, LimiterTypeOK
<1>2. ASSUME NEW b \in Callbacks, CutOffCallback(b) PROVE LimiterInv' /\ SelfCleaning'
  <2>1. crashes' \in 0 .. CrashBound
    BY <1>2, CrashAssumption DEF CutOffCallback, LimiterInv, LimiterTypeOK, CrashAssumption
  <2> QED BY <1>2, <2>1, QuietStep DEF CutOffCallback
<1>3. ASSUME NEW r \in Requests, NEW w \in {Login, Exchange, KeyUse}, Arrive(r, w)
      PROVE  LimiterInv' /\ SelfCleaning'
  BY <1>3, ArriveStep, RouteFacts
<1>4. ASSUME NEW r \in Requests, Answer(r) \/ Reset(r) \/ Count(r) \/ SetExpiry(r) \/ CutOff(r)
      PROVE  LimiterInv' /\ SelfCleaning'
  BY <1>4, AnswerStep, CountStep, SetExpiryStep, CutOffStep
<1>5. ASSUME NEW k \in Counters, WindowEnds(k) PROVE LimiterInv' /\ SelfCleaning'
  BY <1>5, WindowEndsStep
<1>6. \/ UNCHANGED limiterVars
      \/ \E b \in Callbacks : CutOffCallback(b)
      \/ \E r \in Requests, w \in {Login, Exchange, KeyUse} : Arrive(r, w)
      \/ \E r \in Requests : Answer(r) \/ Reset(r) \/ Count(r) \/ SetExpiry(r) \/ CutOff(r)
      \/ \E k \in Counters : WindowEnds(k)
  BY DEF Next, vars, LoginUrl, Consent, StateExpires, CodeExpires, ReadState,
         GoogleAnswers, GoogleFails, FindUser, InsertUser, OpenSession, StoreCode,
         DeleteState, ArriveExchange, Pop, AnswerExchange, CountRequest, ExpireCounter,
         CutOffRequest, OtherRoute, EndOfWindow
<1> QED BY <1>1, <1>2, <1>3, <1>4, <1>5, <1>6

(* "Sets the expiry on the first attempt so the window is self-cleaning":   *)
(* a counter has a TTL, or a request about to give it one, or was left by   *)
(* a request cut off between INCR and EXPIRE.                               *)
THEOREM SelfCleaningHolds == Spec => []SelfCleaning
<1>1. Init => LimiterInv /\ SelfCleaning
  BY InitLimiter DEF Init
<1>2. LimiterInv /\ SelfCleaning /\ [Next]_vars => (LimiterInv /\ SelfCleaning)'
  BY LimiterStep
<1> QED BY <1>1, <1>2, PTL DEF Spec

-----------------------------------------------------------------------------
(* Who changes what in the bridge *)

(* What was written once keeps its meaning: the client of a state, the      *)
(* state and the person of a grant, what a code was stored for.             *)
Grows ==
    /\ \A s \in States : login[s].status # "none" =>
        login'[s].status # "none" /\ login'[s].client = login[s].client
    /\ \A g \in Grants : grant[g].status # "none" =>
        /\ grant'[g].status # "none"
        /\ grant'[g].state = grant[g].state /\ grant'[g].identity = grant[g].identity
        /\ grant[g].status = "used" => grant'[g].status = "used"
    /\ users \subseteq users'
    /\ opened \subseteq opened'
    /\ \A c \in AuthCodes : stored[c].status # "none" =>
        /\ stored'[c].status # "none"
        /\ stored'[c].state = stored[c].state /\ stored'[c].client = stored[c].client
        /\ stored'[c].identity = stored[c].identity
        /\ stored[c].status = "popped" => stored'[c].status = "popped"

(* The actions that write each of the stores.                               *)
LEMMA WhoWrites ==
  ASSUME Stores, [Next]_vars
  PROVE  /\ \/ login' = login
            \/ \E s \in States, cl \in Clients : LoginUrl(s, cl)
            \/ \E s \in States : StateExpires(s)
            \/ \E b \in Callbacks : DeleteState(b)
         /\ \/ grant' = grant
            \/ \E g \in Grants, s \in States, e \in Identities : Consent(g, s, e)
            \/ \E b \in Callbacks : GoogleAnswers(b)
         /\ users' = users \/ \E b \in Callbacks : InsertUser(b)
         /\ opened' = opened \/ \E b \in Callbacks : OpenSession(b)
         /\ \/ stored' = stored
            \/ \E c \in AuthCodes : CodeExpires(c)
            \/ \E b \in Callbacks, c \in AuthCodes : StoreCode(b, c)
            \/ \E r \in Requests : Pop(r)
         /\ delivered' = delivered \/ \E r \in Requests : AnswerExchange(r)
<1>1. login \in [States -> LoginEntry]
  BY DEF Stores
<1>2. ASSUME NEW s \in States, login' = [login EXCEPT ![s] = AfterRead(@)]
      PROVE  login' = login
  BY <1>1, <1>2 DEF AfterRead
<1>3. \/ login' = login
      \/ \E s \in States, cl \in Clients : LoginUrl(s, cl)
      \/ \E s \in States : StateExpires(s)
      \/ \E b \in Callbacks : DeleteState(b)
  BY <1>2 DEF Next, vars, bridgeVars, Consent, CodeExpires, ReadState,
         GoogleAnswers, GoogleFails, FindUser, InsertUser, OpenSession, StoreCode,
         CutOffCallback, ArriveExchange, Pop, AnswerExchange, CountRequest,
         ExpireCounter, CutOffRequest, OtherRoute, EndOfWindow
<1>4. \/ grant' = grant
      \/ \E g \in Grants, s \in States, e \in Identities : Consent(g, s, e)
      \/ \E b \in Callbacks : GoogleAnswers(b)
  BY DEF Next, vars, bridgeVars, LoginUrl, StateExpires, CodeExpires, ReadState,
         GoogleFails, FindUser, InsertUser, OpenSession, StoreCode,
         DeleteState, CutOffCallback, ArriveExchange, Pop, AnswerExchange, CountRequest,
         ExpireCounter, CutOffRequest, OtherRoute, EndOfWindow
<1>5. users' = users \/ \E b \in Callbacks : InsertUser(b)
  BY DEF Next, vars, bridgeVars, LoginUrl, Consent, StateExpires, CodeExpires, ReadState,
         GoogleAnswers, GoogleFails, FindUser, OpenSession, StoreCode,
         DeleteState, CutOffCallback, ArriveExchange, Pop, AnswerExchange, CountRequest,
         ExpireCounter, CutOffRequest, OtherRoute, EndOfWindow
<1>6. opened' = opened \/ \E b \in Callbacks : OpenSession(b)
  BY DEF Next, vars, bridgeVars, LoginUrl, Consent, StateExpires, CodeExpires, ReadState,
         GoogleAnswers, GoogleFails, FindUser, InsertUser, StoreCode,
         DeleteState, CutOffCallback, ArriveExchange, Pop, AnswerExchange, CountRequest,
         ExpireCounter, CutOffRequest, OtherRoute, EndOfWindow
<1>7. \/ stored' = stored
      \/ \E c \in AuthCodes : CodeExpires(c)
      \/ \E b \in Callbacks, c \in AuthCodes : StoreCode(b, c)
      \/ \E r \in Requests : Pop(r)
  BY DEF Next, vars, bridgeVars, LoginUrl, Consent, StateExpires, ReadState,
         GoogleAnswers, GoogleFails, FindUser, InsertUser, OpenSession,
         DeleteState, CutOffCallback, ArriveExchange, AnswerExchange, CountRequest,
         ExpireCounter, CutOffRequest, OtherRoute, EndOfWindow
<1>8. delivered' = delivered \/ \E r \in Requests : AnswerExchange(r)
  BY DEF Next, vars, bridgeVars, LoginUrl, Consent, StateExpires, CodeExpires, ReadState,
         GoogleAnswers, GoogleFails, FindUser, InsertUser, OpenSession, StoreCode,
         DeleteState, CutOffCallback, ArriveExchange, Pop, CountRequest,
         ExpireCounter, CutOffRequest, OtherRoute, EndOfWindow
<1> QED BY <1>3, <1>4, <1>5, <1>6, <1>7, <1>8

(* The callback requests and the requests of the exchange route.            *)
LEMMA WhoMoves ==
  ASSUME [Next]_vars
  PROVE  /\ \/ callback' = callback
            \/ \E b \in Callbacks :
                \/ \E s \in States, g \in Grants : ReadState(b, s, g)
                \/ GoogleAnswers(b)
                \/ FindUser(b)
                \/ InsertUser(b)
                \/ OpenSession(b)
                \/ \E c \in AuthCodes : StoreCode(b, c)
                \/ Ends(b)
         /\ \/ UNCHANGED <<exchange, call>>
            \/ \E r \in Requests :
                \/ \E cl \in Clients, c \in AuthCodes : ArriveExchange(r, cl, c)
                \/ Pop(r)
                \/ AnswerExchange(r)
                \/ CountRequest(r)
                \/ ExpireCounter(r)
                \/ CutOffRequest(r)
                \/ OtherRoute(r)
<1>1. \/ callback' = callback
      \/ \E b \in Callbacks :
          \/ \E s \in States, g \in Grants : ReadState(b, s, g)
          \/ GoogleAnswers(b)
          \/ FindUser(b)
          \/ InsertUser(b)
          \/ OpenSession(b)
          \/ \E c \in AuthCodes : StoreCode(b, c)
          \/ Ends(b)
  BY DEF Next, vars, bridgeVars, LoginUrl, Consent, StateExpires, CodeExpires,
         GoogleFails, DeleteState, CutOffCallback, ArriveExchange, Pop, AnswerExchange,
         CountRequest, ExpireCounter, CutOffRequest, OtherRoute, EndOfWindow
<1>2. \/ UNCHANGED <<exchange, call>>
      \/ \E r \in Requests :
          \/ \E cl \in Clients, c \in AuthCodes : ArriveExchange(r, cl, c)
          \/ Pop(r)
          \/ AnswerExchange(r)
          \/ CountRequest(r)
          \/ ExpireCounter(r)
          \/ CutOffRequest(r)
          \/ OtherRoute(r)
  BY DEF Next, vars, bridgeVars, limiterVars, LoginUrl, Consent, StateExpires, CodeExpires,
         ReadState, GoogleAnswers, GoogleFails, FindUser, InsertUser, OpenSession,
         StoreCode, DeleteState, CutOffCallback, EndOfWindow, WindowEnds
<1> QED BY <1>1, <1>2

-----------------------------------------------------------------------------
(* The stores keep their types, and what was written its meaning *)

(* The states: what login becomes keeps the clients.                        *)
LEMMA LoginGrows ==
  ASSUME Stores, BridgeInv, [Next]_vars
  PROVE  /\ login' \in [States -> LoginEntry]
         /\ \A s \in States :
              /\ login[s].status # "none" =>
                   login'[s].status # "none" /\ login'[s].client = login[s].client
              /\ \/ login'[s] = login[s]
                 \/ login'[s].client \in Clients /\ login'[s].status \in {"live", "expired"}
                 \/ \E b \in Callbacks :
                      callback[b].pc = "delete" /\ callback[b].state = s
<1>1. login \in [States -> LoginEntry]
  BY DEF Stores
<1>2. ASSUME NEW s \in States, NEW cl \in Clients, LoginUrl(s, cl)
      PROVE  /\ login' \in [States -> LoginEntry]
             /\ \A t \in States : t # s => login'[t] = login[t]
             /\ login[s].status = "none"
             /\ login'[s].client \in Clients /\ login'[s].status = "live"
  <2>1. login' = [login EXCEPT ![s] = [client |-> cl, status |-> "live"]]
        /\ login[s].status = "none"
    BY <1>2 DEF LoginUrl
  <2>2. [client |-> cl, status |-> "live"] \in LoginEntry
    BY DEF LoginEntry
  <2> QED BY <1>1, <2>1, <2>2
<1>3. ASSUME NEW s \in States, StateExpires(s)
      PROVE  /\ login' \in [States -> LoginEntry]
             /\ \A t \in States : t # s => login'[t] = login[t]
             /\ login'[s].client = login[s].client /\ login'[s].status = "expired"
             /\ login[s].client \in Clients
  <2>1. login' = [login EXCEPT ![s].status = "expired"] /\ login[s].status = "live"
    BY <1>3 DEF StateExpires
  <2>2. login[s].client \in Clients
    BY <2>1 DEF BridgeInv, LoginShape
  <2> QED BY <1>1, <2>1, <2>2 DEF LoginEntry
<1>4. ASSUME NEW b \in Callbacks, DeleteState(b)
      PROVE  \E s \in States :
               /\ callback[b].pc = "delete" /\ callback[b].state = s
               /\ login' \in [States -> LoginEntry]
               /\ \A t \in States : t # s => login'[t] = login[t]
               /\ login'[s].client = login[s].client
               /\ login[s].status # "none" => login'[s].status # "none"
  <2> DEFINE s == callback[b].state
             status == IF login[s].status = "live" THEN "deleted" ELSE login[s].status
  <2>1. callback[b].pc = "delete" /\ s \in States
    BY <1>4 DEF DeleteState, BridgeInv, CallbackShape
  <2>2. login' = [login EXCEPT ![s].status = status]
    BY <1>4 DEF DeleteState
  <2>3. status \in {"none", "live", "expired", "deleted"}
        /\ (login[s].status # "none" => status # "none")
    BY <1>1, <2>1 DEF LoginEntry
  <2> HIDE DEF s, status
  <2>4. /\ login' \in [States -> LoginEntry]
        /\ \A t \in States : t # s => login'[t] = login[t]
        /\ login'[s].client = login[s].client /\ login'[s].status = status
    BY <1>1, <2>1, <2>2, <2>3 DEF LoginEntry
  <2> QED BY <2>1, <2>3, <2>4 DEF s
<1> QED BY <1>1, <1>2, <1>3, <1>4, WhoWrites

(* The grants: one is issued once, and keeps its state and its person.      *)
LEMMA GrantGrows ==
  ASSUME Stores, BridgeInv, [Next]_vars
  PROVE  /\ grant' \in [Grants -> Grant]
         /\ \A g \in Grants :
              /\ grant[g].status # "none" =>
                   /\ grant'[g].status # "none"
                   /\ grant'[g].state = grant[g].state
                   /\ grant'[g].identity = grant[g].identity
                   /\ grant[g].status = "used" => grant'[g].status = "used"
              /\ \/ grant[g].status # "none"
                 \/ grant'[g] = grant[g]
                 \/ /\ grant'[g].state \in States /\ grant'[g].identity \in Identities
                    /\ login[grant'[g].state].status # "none"
<1>1. grant \in [Grants -> Grant]
  BY DEF Stores
<1>2. ASSUME NEW g \in Grants, NEW s \in States, NEW e \in Identities, Consent(g, s, e)
      PROVE  /\ grant' \in [Grants -> Grant]
             /\ \A h \in Grants : h # g => grant'[h] = grant[h]
             /\ grant[g].status = "none" /\ login[s].status # "none"
             /\ grant'[g].state = s /\ grant'[g].identity = e
  <2>1. /\ grant' = [grant EXCEPT ![g] = [state |-> s, identity |-> e, status |-> "issued"]]
        /\ grant[g].status = "none" /\ login[s].status # "none"
    BY <1>2 DEF Consent
  <2>2. [state |-> s, identity |-> e, status |-> "issued"] \in Grant
    BY DEF Grant
  <2> QED BY <1>1, <2>1, <2>2
<1>3. ASSUME NEW b \in Callbacks, GoogleAnswers(b)
      PROVE  \E g \in Grants :
               /\ grant' \in [Grants -> Grant]
               /\ \A h \in Grants : h # g => grant'[h] = grant[h]
               /\ grant[g].status # "none" /\ grant'[g].status = "used"
               /\ grant'[g].state = grant[g].state
               /\ grant'[g].identity = grant[g].identity
  <2>1. callback[b].grant \in Grants /\ grant[callback[b].grant].status # "none"
    BY <1>3 DEF GoogleAnswers, BridgeInv, CallbackShape
  <2> DEFINE g == callback[b].grant
  <2>2. grant' = [grant EXCEPT ![g].status = "used"]
    BY <1>3 DEF GoogleAnswers
  <2> HIDE DEF g
  <2>3. /\ grant' \in [Grants -> Grant]
        /\ \A h \in Grants : h # g => grant'[h] = grant[h]
        /\ grant'[g].status = "used"
        /\ grant'[g].state = grant[g].state /\ grant'[g].identity = grant[g].identity
    BY <1>1, <2>1, <2>2 DEF Grant, g
  <2> QED BY <2>1, <2>3 DEF g
<1>4. CASE grant' = grant
  BY <1>1, <1>4
<1>5. CASE \E g \in Grants, s \in States, e \in Identities : Consent(g, s, e)
  <2>1. PICK g \in Grants, s \in States, e \in Identities : Consent(g, s, e)
    BY <1>5
  <2>2. /\ grant' \in [Grants -> Grant]
        /\ \A h \in Grants : h # g => grant'[h] = grant[h]
        /\ grant[g].status = "none" /\ login[s].status # "none"
        /\ grant'[g].state = s /\ grant'[g].identity = e
    BY <1>2, <2>1
  <2> QED BY <2>2
<1>6. CASE \E b \in Callbacks : GoogleAnswers(b)
  BY <1>3, <1>6
<1> QED BY <1>4, <1>5, <1>6, WhoWrites

(* The person a callback signs in, once Google has answered.                *)
LEMMA IdentityKnown ==
  ASSUME Stores, BridgeInv, NEW b \in Callbacks, callback[b].pc # "idle"
  PROVE  Identity(b) \in Identities
<1>1. callback[b].grant \in Grants /\ grant[callback[b].grant].status # "none"
  BY DEF BridgeInv, CallbackShape
<1> QED BY <1>1 DEF BridgeInv, GrantShape, Identity

(* The codes: a code is stored once, and popped for good.                   *)
LEMMA StoredGrows ==
  ASSUME Stores, BridgeInv, [Next]_vars
  PROVE  /\ stored' \in [AuthCodes -> AuthCode]
         /\ \A c \in AuthCodes : stored[c].status # "none" =>
              /\ stored'[c].status # "none"
              /\ stored'[c].state = stored[c].state /\ stored'[c].client = stored[c].client
              /\ stored'[c].identity = stored[c].identity
              /\ stored[c].status = "popped" => stored'[c].status = "popped"
         /\ \A c \in AuthCodes : stored[c].status = "none" =>
              \/ stored'[c] = stored[c]
              \/ \E b \in Callbacks :
                   /\ callback[b].pc = "store"
                   /\ stored'[c] = [state |-> callback[b].state, client |-> callback[b].client,
                                    identity |-> Identity(b), status |-> "live"]
<1>1. stored \in [AuthCodes -> AuthCode]
  BY DEF Stores
<1>2. ASSUME NEW c \in AuthCodes, NEW status \in {"expired", "popped"},
             stored[c].status = "live", stored' = [stored EXCEPT ![c].status = status]
      PROVE  /\ stored' \in [AuthCodes -> AuthCode]
             /\ \A d \in AuthCodes : d # c => stored'[d] = stored[d]
             /\ stored'[c].state = stored[c].state /\ stored'[c].client = stored[c].client
             /\ stored'[c].identity = stored[c].identity /\ stored'[c].status = status
  BY <1>1, <1>2 DEF AuthCode
<1>3. CASE \E c \in AuthCodes : CodeExpires(c)
  BY <1>2, <1>3 DEF CodeExpires
<1>4. CASE \E b \in Callbacks, c \in AuthCodes : StoreCode(b, c)
  <2>1. PICK b \in Callbacks, c \in AuthCodes : StoreCode(b, c)
    BY <1>4
  <2> DEFINE new == [state |-> callback[b].state, client |-> callback[b].client,
                     identity |-> Identity(b), status |-> "live"]
  <2>2. /\ callback[b].pc = "store" /\ stored[c].status = "none"
        /\ stored' = [stored EXCEPT ![c] = new]
    BY <2>1 DEF StoreCode
  <2>3. callback[b].state \in States /\ callback[b].client \in Clients
    BY <2>2 DEF BridgeInv, CallbackShape
  <2>4. new \in AuthCode
    BY <2>2, <2>3, IdentityKnown DEF AuthCode
  <2>5. /\ stored' \in [AuthCodes -> AuthCode] /\ stored'[c] = new
        /\ \A d \in AuthCodes : d # c => stored'[d] = stored[d]
    <3> HIDE DEF new
    <3> QED BY <1>1, <2>2, <2>4
  <2> QED BY <2>2, <2>5
<1>5. CASE \E r \in Requests : Pop(r)
  <2>1. PICK r \in Requests : Pop(r)
    BY <1>5
  <2> DEFINE c == exchange[r].code
  <2>2. CASE stored[c].status = "live"
    <3>1. c \in AuthCodes
      <4>1. call[r].route = Exchange
        BY <2>1 DEF Pop
      <4> QED BY <4>1 DEF BridgeInv, ExchangeShape
    <3>2. stored' = [stored EXCEPT ![c].status = "popped"]
      <4>1. stored' = [stored EXCEPT ![c] = AfterPop(stored[c])]
        BY <2>1, <2>2 DEF Pop
      <4> QED BY <1>1, <3>1, <4>1 DEF AfterPop
    <3> HIDE DEF c
    <3> QED BY <1>2, <2>2, <3>1, <3>2
  <2>3. CASE stored[c].status # "live"
    <3>1. stored' = stored
      BY <2>1, <2>3 DEF Pop
    <3> QED BY <1>1, <3>1
  <2> QED BY <2>2, <2>3
<1>6. CASE stored' = stored
  BY <1>1, <1>6
<1> QED BY <1>3, <1>4, <1>5, <1>6, WhoWrites

LEMMA UsersOpened ==
  ASSUME Stores, BridgeInv, [Next]_vars
  PROVE  /\ users \subseteq users' /\ users' \subseteq Identities
         /\ opened \subseteq opened'
         /\ opened' \subseteq {g \in Grants : grant[g].status = "used"}
<1>1. CASE \E b \in Callbacks : InsertUser(b)
  <2>1. PICK b \in Callbacks : InsertUser(b)
    BY <1>1
  <2>2. Identity(b) \in Identities /\ users' = users \cup {Identity(b)}
    BY <2>1, IdentityKnown DEF InsertUser
  <2>3. opened' = opened
    BY <2>1 DEF InsertUser
  <2> QED BY <2>2, <2>3 DEF Stores
<1>2. CASE \E b \in Callbacks : OpenSession(b)
  <2>1. PICK b \in Callbacks : OpenSession(b)
    BY <1>2
  <2>2. /\ callback[b].pc = "session" /\ opened' = opened \cup {callback[b].grant}
        /\ users' = users
    BY <2>1 DEF OpenSession
  <2>3. callback[b].grant \in Grants /\ grant[callback[b].grant].status = "used"
    BY <2>2 DEF BridgeInv, CallbackShape
  <2> QED BY <2>2, <2>3 DEF Stores
<1>3. CASE users' = users /\ opened' = opened
  BY <1>3 DEF Stores
<1> QED BY <1>1, <1>2, <1>3, WhoWrites

LEMMA StoresGrow ==
  ASSUME Stores, BridgeInv, [Next]_vars
  PROVE  Grows
BY LoginGrows, GrantGrows, StoredGrows, UsersOpened DEF Grows

-----------------------------------------------------------------------------
(* The states, the grants and the codes *)

(* A state deleted by a callback has a code stored for it.                  *)
LEMMA LoginStep ==
  ASSUME Stores, BridgeInv, [Next]_vars, NEW s \in States
  PROVE  LoginShape(s)'
<1>1. Grows
  BY StoresGrow
<1>2. LoginShape(s)
  BY DEF BridgeInv
<1>3. (\E c \in AuthCodes : stored[c].status # "none" /\ stored[c].state = s)
        => (\E c \in AuthCodes : stored[c].status # "none" /\ stored[c].state = s)'
  BY <1>1 DEF Grows
<1>4. CASE login'[s] = login[s]
  BY <1>2, <1>3, <1>4 DEF LoginShape
<1>5. CASE login'[s].client \in Clients /\ login'[s].status \in {"live", "expired"}
  BY <1>5 DEF LoginShape
<1>6. CASE \E b \in Callbacks : callback[b].pc = "delete" /\ callback[b].state = s
  <2>1. PICK b \in Callbacks : callback[b].pc = "delete" /\ callback[b].state = s
    BY <1>6
  <2>2. /\ \E c \in AuthCodes : stored[c].status # "none" /\ stored[c].state = s
        /\ login[s].status # "none"
    BY <2>1 DEF BridgeInv, CallbackShape
  <2>3. login'[s].client \in Clients
    BY <1>1, <1>2, <2>2 DEF Grows, LoginShape
  <2> QED BY <1>3, <2>2, <2>3 DEF LoginShape
<1> QED BY <1>4, <1>5, <1>6, LoginGrows

LEMMA GrantStep ==
  ASSUME Stores, BridgeInv, [Next]_vars, NEW g \in Grants
  PROVE  GrantShape(g)'
<1>1. Grows /\ GrantShape(g)
  BY StoresGrow DEF BridgeInv
<1>2. CASE grant[g].status # "none"
  BY <1>1, <1>2, GrantGrows DEF GrantShape, Grows
<1>3. CASE grant[g].status = "none" /\ grant'[g] = grant[g]
  BY <1>3 DEF GrantShape
<1>4. CASE /\ grant'[g].state \in States /\ grant'[g].identity \in Identities
           /\ login[grant'[g].state].status # "none"
  BY <1>1, <1>4 DEF GrantShape, Grows
<1> QED BY <1>2, <1>3, <1>4, GrantGrows

(* What a code says stays true: the client of its state, the person of its  *)
(* grant.                                                                   *)
LEMMA CodeKept ==
  ASSUME Stores, Grows, NEW c \in AuthCodes, CodeShape(c), stored[c].status # "none",
         \/ delivered'[c] = delivered[c]
         \/ stored'[c].status = "popped" /\ delivered'[c] = <<stored[c].client>>
  PROVE  CodeShape(c)'
<1>1. PICK g \in opened : /\ grant[g].identity = stored[c].identity
                          /\ grant[g].state = stored[c].state
  BY DEF CodeShape
<1>2. /\ g \in Grants /\ g \in opened' /\ grant'[g].identity = stored'[c].identity
      /\ grant'[g].state = stored'[c].state
  BY <1>1 DEF Grows, Stores
<1>3. /\ stored'[c].state \in States /\ stored'[c].identity \in users'
      /\ stored'[c].client = login'[stored'[c].state].client
      /\ login'[stored'[c].state].status # "none"
  BY DEF Grows, CodeShape
<1>4. delivered'[c] # << >> =>
        stored'[c].status = "popped" /\ delivered'[c] = <<stored'[c].client>>
  BY DEF Grows, CodeShape
<1> QED BY <1>2, <1>3, <1>4 DEF CodeShape

(* A code is stored by the callback whose grant opened the session.         *)
LEMMA CodeStored ==
  ASSUME Stores, BridgeInv, Grows, NEW c \in AuthCodes, NEW b \in Callbacks,
         stored[c].status = "none", callback[b].pc = "store",
         stored'[c] = [state |-> callback[b].state, client |-> callback[b].client,
                       identity |-> Identity(b), status |-> "live"],
         delivered'[c] = delivered[c]
  PROVE  CodeShape(c)'
<1> DEFINE d == callback[b]
<1>1. /\ d.state \in States /\ d.grant \in Grants /\ d.client = login[d.state].client
      /\ login[d.state].status # "none" /\ grant[d.grant].status = "used"
      /\ grant[d.grant].state = d.state /\ d.grant \in opened /\ Identity(b) \in users
  BY DEF BridgeInv, CallbackShape
<1>2. /\ stored'[c].state = d.state /\ stored'[c].client = d.client
      /\ stored'[c].identity = Identity(b) /\ stored'[c].status = "live"
  OBVIOUS
<1>3. /\ d.grant \in opened' /\ grant'[d.grant].identity = Identity(b)
      /\ grant'[d.grant].state = d.state
  BY <1>1 DEF Grows, Identity
<1>4. delivered'[c] = << >>
  BY DEF BridgeInv, CodeShape
<1> HIDE DEF d
<1>5. Identity(b) \in users' /\ d.client = login'[d.state].client
      /\ login'[d.state].status # "none"
  BY <1>1 DEF Grows
<1> QED BY <1>1, <1>2, <1>3, <1>4, <1>5 DEF CodeShape

LEMMA DeliveredStep ==
  ASSUME Stores, BridgeInv, [Next]_vars
  PROVE  /\ delivered' \in [AuthCodes -> Seq(Clients)]
         /\ \A c \in AuthCodes :
              \/ delivered'[c] = delivered[c]
              \/ /\ stored[c].status = "popped" /\ delivered'[c] = <<stored[c].client>>
                 /\ \E r \in Requests :
                      /\ exchange[r].code = c /\ exchange[r].challenge # Nobody
                      /\ exchange'[r] = NoExchange
<1>1. delivered \in [AuthCodes -> Seq(Clients)]
  BY DEF Stores
<1>2. CASE delivered' = delivered
  BY <1>1, <1>2
<1>3. CASE \E r \in Requests : AnswerExchange(r)
  <2>1. PICK r \in Requests : AnswerExchange(r)
    BY <1>3
  <2> DEFINE c == exchange[r].code
             cl == exchange[r].client
  <2>2. exchange[r].challenge # Nobody /\ exchange[r] # NoExchange
    BY <2>1 DEF AnswerExchange, NoExchange
  <2>3. /\ c \in AuthCodes /\ cl \in Clients /\ stored[c].status = "popped"
        /\ exchange[r].challenge = stored[c].client /\ delivered[c] = << >>
    BY <2>2 DEF BridgeInv, ExchangeShape
  <2>4. /\ delivered' = [delivered EXCEPT ![c] =
                           IF Verified(r) THEN Append(delivered[c], cl) ELSE delivered[c]]
        /\ exchange' = [exchange EXCEPT ![r] = NoExchange]
    BY <2>1 DEF AnswerExchange
  <2>5. Verified(r) => cl = stored[c].client
    BY <2>3 DEF Verified
  <2>6. exchange'[r] = NoExchange
    BY <2>4 DEF Stores
  <2>7. exchange[r].code = c
    OBVIOUS
  <2> HIDE DEF c, cl
  <2>8. CASE Verified(r)
    <3>1. Append(delivered[c], cl) = <<cl>> /\ <<cl>> \in Seq(Clients)
      BY <2>3
    <3>2. delivered' = [delivered EXCEPT ![c] = <<cl>>]
      BY <2>4, <2>8, <3>1
    <3>3. /\ delivered' \in [AuthCodes -> Seq(Clients)] /\ delivered'[c] = <<cl>>
          /\ \A e \in AuthCodes : e # c => delivered'[e] = delivered[e]
      BY <1>1, <2>3, <3>1, <3>2
    <3> QED BY <2>2, <2>3, <2>5, <2>6, <2>7, <2>8, <3>3
  <2>9. CASE ~ Verified(r)
    BY <1>1, <2>3, <2>4, <2>9
  <2> QED BY <2>8, <2>9
<1> QED BY <1>2, <1>3, WhoWrites

LEMMA CodeStep ==
  ASSUME Stores, BridgeInv, [Next]_vars, NEW c \in AuthCodes
  PROVE  CodeShape(c)'
<1>1. Grows /\ CodeShape(c)
  BY StoresGrow DEF BridgeInv
<1>2. CASE stored[c].status # "none"
  <2>1. \/ delivered'[c] = delivered[c]
        \/ stored'[c].status = "popped" /\ delivered'[c] = <<stored[c].client>>
    BY <1>1, DeliveredStep DEF Grows
  <2> QED BY <1>1, <1>2, <2>1, CodeKept
<1>3. CASE stored[c].status = "none"
  <2>1. delivered'[c] = delivered[c]
    BY <1>3, DeliveredStep
  <2>2. CASE stored'[c] = stored[c]
    BY <1>1, <1>3, <2>1, <2>2 DEF CodeShape
  <2>3. CASE stored'[c] # stored[c]
    BY <1>1, <1>3, <2>1, <2>3, StoredGrows, CodeStored
  <2> QED BY <2>2, <2>3
<1> QED BY <1>2, <1>3

-----------------------------------------------------------------------------
(* The callbacks *)

(* A callback under way, at its new place: what its place says holds there. *)
LEMMA CallbackMoved ==
  ASSUME Stores, Grows, NEW b \in Callbacks, CallbackShape(b), callback[b].pc # "idle",
         NEW pc, pc # "idle", callback'[b] = [callback[b] EXCEPT !.pc = pc],
         callback[b] \in Callback,
         pc # "google" => /\ grant'[callback[b].grant].status = "used"
                          /\ grant'[callback[b].grant].state = callback[b].state,
         pc \in {"session", "store", "delete"} => Identity(b) \in users',
         pc \in {"store", "delete"} => callback[b].grant \in opened',
         pc = "delete" => \E c \in AuthCodes : /\ stored'[c].status # "none"
                                               /\ stored'[c].state = callback[b].state
  PROVE  CallbackShape(b)'
<1>1. /\ callback'[b].pc = pc /\ callback'[b].state = callback[b].state
      /\ callback'[b].grant = callback[b].grant /\ callback'[b].client = callback[b].client
  BY DEF Callback
<1>2. /\ callback[b].state \in States /\ callback[b].grant \in Grants
      /\ callback[b].client \in Clients
      /\ login'[callback[b].state].status # "none"
      /\ callback[b].client = login'[callback[b].state].client
      /\ grant'[callback[b].grant].status # "none"
  BY DEF CallbackShape, Grows
<1>3. Identity(b)' = Identity(b)
  BY <1>1, <1>2 DEF Identity, Grows, CallbackShape
<1> QED BY <1>1, <1>2, <1>3 DEF CallbackShape

LEMMA CallbackKept ==
  ASSUME Stores, Grows, NEW b \in Callbacks, CallbackShape(b), callback'[b] = callback[b]
  PROVE  CallbackShape(b)'
<1>1. CASE callback[b].pc = "idle"
  BY <1>1 DEF CallbackShape, NoCallback
<1>2. CASE callback[b].pc # "idle"
  <2>1. callback[b] \in Callback /\ callback'[b] = [callback[b] EXCEPT !.pc = callback[b].pc]
    BY DEF Stores, Callback
  <2>2. callback[b].pc # "google" =>
          /\ grant'[callback[b].grant].status = "used"
          /\ grant'[callback[b].grant].state = callback[b].state
    BY <1>2 DEF CallbackShape, Grows
  <2>3. callback[b].pc \in {"session", "store", "delete"} => Identity(b) \in users'
    BY DEF CallbackShape, Grows
  <2>4. callback[b].pc \in {"store", "delete"} => callback[b].grant \in opened'
    BY DEF CallbackShape, Grows
  <2>5. callback[b].pc = "delete" =>
          \E c \in AuthCodes : stored'[c].status # "none" /\ stored'[c].state = callback[b].state
    BY DEF CallbackShape, Grows
  <2> QED BY <1>2, <2>1, <2>2, <2>3, <2>4, <2>5, CallbackMoved
<1> QED BY <1>1, <1>2

(* The new place of a callback that one of its steps moves.                 *)
LEMMA CallbackStep ==
  ASSUME Stores, BridgeInv, [Next]_vars
  PROVE  /\ callback' \in [Callbacks -> Callback]
         /\ \A b \in Callbacks : CallbackShape(b)'
<1>1. Grows /\ callback \in [Callbacks -> Callback]
  BY StoresGrow DEF Stores
<1>2. CASE callback' = callback
  BY <1>1, <1>2, CallbackKept DEF BridgeInv
<1>3. ASSUME NEW b \in Callbacks, NEW pc \in {"select", "insert", "session", "store", "delete"},
             Moves(b, pc), callback[b].pc # "idle",
             grant'[callback[b].grant].status = "used",
             grant'[callback[b].grant].state = callback[b].state,
             pc \in {"session", "store", "delete"} => Identity(b) \in users',
             pc \in {"store", "delete"} => callback[b].grant \in opened',
             pc = "delete" => \E c \in AuthCodes : /\ stored'[c].status # "none"
                                                   /\ stored'[c].state = callback[b].state
      PROVE  /\ callback' \in [Callbacks -> Callback]
             /\ \A d \in Callbacks : CallbackShape(d)'
  <2>1. callback' = [callback EXCEPT ![b].pc = pc]
    BY <1>3 DEF Moves
  <2>2. /\ callback'[b] = [callback[b] EXCEPT !.pc = pc] /\ callback[b] \in Callback
        /\ callback' \in [Callbacks -> Callback]
        /\ \A d \in Callbacks : d # b => callback'[d] = callback[d]
    BY <1>1, <2>1 DEF Callback
  <2>3. CallbackShape(b)'
    <3>1. CallbackShape(b)
      BY DEF BridgeInv
    <3> QED BY <1>1, <1>3, <2>2, <3>1, CallbackMoved
  <2> QED BY <1>1, <2>2, <2>3, CallbackKept DEF BridgeInv
<1>4. ASSUME NEW b \in Callbacks, Ends(b)
      PROVE  /\ callback' \in [Callbacks -> Callback]
             /\ \A d \in Callbacks : CallbackShape(d)'
  <2>1. callback' = [callback EXCEPT ![b] = NoCallback] /\ NoCallback \in Callback
    BY <1>4 DEF Ends, NoCallback, Callback
  <2>2. /\ callback' \in [Callbacks -> Callback] /\ callback'[b] = NoCallback
        /\ \A d \in Callbacks : d # b => callback'[d] = callback[d]
    BY <1>1, <2>1
  <2>3. CallbackShape(b)'
    BY <2>2 DEF CallbackShape, NoCallback
  <2> QED BY <1>1, <2>2, <2>3, CallbackKept DEF BridgeInv
<1>5. ASSUME NEW b \in Callbacks, NEW s \in States, NEW g \in Grants, ReadState(b, s, g)
      PROVE  /\ callback' \in [Callbacks -> Callback]
             /\ \A d \in Callbacks : CallbackShape(d)'
  <2> DEFINE d == [pc |-> "google", state |-> s, grant |-> g, client |-> login[s].client]
  <2>1. /\ callback' = [callback EXCEPT ![b] = d] /\ login[s].status # "none"
        /\ grant[g].status # "none"
    BY <1>5 DEF ReadState
  <2>2. login[s].client \in Clients
    BY <2>1 DEF BridgeInv, LoginShape
  <2>3. d \in Callback
    BY <2>2 DEF Callback
  <2>4. /\ callback' \in [Callbacks -> Callback] /\ callback'[b] = d
        /\ \A e \in Callbacks : e # b => callback'[e] = callback[e]
    <3> HIDE DEF d
    <3> QED BY <1>1, <2>1, <2>3
  <2>5. /\ login'[s].status # "none" /\ login'[s].client = login[s].client
        /\ grant'[g].status # "none"
    BY <1>1, <2>1 DEF Grows
  <2>6. CallbackShape(b)'
    BY <2>2, <2>4, <2>5 DEF CallbackShape
  <2> QED BY <1>1, <2>4, <2>6, CallbackKept DEF BridgeInv
<1>6. ASSUME NEW b \in Callbacks, GoogleAnswers(b)
      PROVE  /\ callback' \in [Callbacks -> Callback]
             /\ \A d \in Callbacks : CallbackShape(d)'
  <2>1. /\ callback[b].pc = "google" /\ Moves(b, "select")
        /\ grant' = [grant EXCEPT ![callback[b].grant].status = "used"]
        /\ grant[callback[b].grant].state = callback[b].state
    BY <1>6 DEF GoogleAnswers, Redeems
  <2>2. callback[b].grant \in Grants
    BY <2>1 DEF BridgeInv, CallbackShape
  <2>3. grant'[callback[b].grant].status = "used"
        /\ grant'[callback[b].grant].state = callback[b].state
    BY <2>1, <2>2 DEF Stores, Grant
  <2> QED BY <1>3, <2>1, <2>3
<1>7. ASSUME NEW b \in Callbacks, callback[b].pc \notin {"idle", "google"}
      PROVE  /\ grant'[callback[b].grant].status = "used"
             /\ grant'[callback[b].grant].state = callback[b].state
             /\ callback[b].grant \in Grants
  BY <1>1, <1>7 DEF BridgeInv, CallbackShape, Grows
<1>8. ASSUME NEW b \in Callbacks, FindUser(b)
      PROVE  /\ callback' \in [Callbacks -> Callback]
             /\ \A d \in Callbacks : CallbackShape(d)'
  <2>1. CASE Identity(b) \in users
    BY <1>1, <1>3, <1>7, <1>8, <2>1 DEF FindUser, Grows
  <2>2. CASE Identity(b) \notin users
    BY <1>3, <1>7, <1>8, <2>2 DEF FindUser
  <2> QED BY <2>1, <2>2
<1>9. ASSUME NEW b \in Callbacks, InsertUser(b)
      PROVE  /\ callback' \in [Callbacks -> Callback]
             /\ \A d \in Callbacks : CallbackShape(d)'
  BY <1>3, <1>4, <1>7, <1>9 DEF InsertUser
<1>10. ASSUME NEW b \in Callbacks, OpenSession(b)
       PROVE  /\ callback' \in [Callbacks -> Callback]
              /\ \A d \in Callbacks : CallbackShape(d)'
  <2>1. callback[b].pc = "session" /\ Moves(b, "store") /\ callback[b].grant \in opened'
    BY <1>10 DEF OpenSession
  <2>2. Identity(b) \in users'
    BY <1>1, <2>1 DEF BridgeInv, CallbackShape, Grows
  <2> QED BY <1>3, <1>7, <2>1, <2>2
<1>11. ASSUME NEW b \in Callbacks, NEW c \in AuthCodes, StoreCode(b, c)
       PROVE  /\ callback' \in [Callbacks -> Callback]
              /\ \A d \in Callbacks : CallbackShape(d)'
  <2>1. /\ callback[b].pc = "store" /\ Moves(b, "delete")
        /\ stored' = [stored EXCEPT ![c] =
                        [state |-> callback[b].state, client |-> callback[b].client,
                         identity |-> Identity(b), status |-> "live"]]
    BY <1>11 DEF StoreCode
  <2>2. stored'[c].status # "none" /\ stored'[c].state = callback[b].state
    BY <2>1 DEF Stores
  <2>3. Identity(b) \in users' /\ callback[b].grant \in opened'
    BY <1>1, <2>1 DEF BridgeInv, CallbackShape, Grows
  <2> QED BY <1>3, <1>7, <2>1, <2>2, <2>3
<1> QED BY <1>2, <1>4, <1>5, <1>6, <1>8, <1>9, <1>10, <1>11, WhoMoves

-----------------------------------------------------------------------------
(* The exchanges *)

(* Where the limiters leave a request they count: at the end, or further    *)
(* along its route.                                                         *)
LEMMA CountedOn ==
  ASSUME LimiterInv, NEW r \in Requests, Count(r) \/ SetExpiry(r)
  PROVE  /\ call[r].pc \in {"incr", "expire"}
         /\ call' = [call EXCEPT ![r] = call'[r]]
         /\ \/ call'[r] = NoCall
            \/ call'[r].route = call[r].route /\ call'[r].pc # "idle"
<1>1. /\ call \in [Requests -> Call] /\ call[r] \in Call /\ call[r].pc \in {"incr", "expire"}
      /\ call[r].route \in Routes /\ call[r].at \in 1 .. Len(call[r].route)
  <2>1. call[r].pc \in {"incr", "expire"}
    BY DEF Count, SetExpiry
  <2> QED BY <2>1, CallFacts DEF LimiterInv
<1>2. CASE SetExpiry(r)
  <2>1. call' = [call EXCEPT ![r] = After(call[r])]
    BY <1>2 DEF SetExpiry
  <2>2. call'[r] = After(call[r])
    BY <1>1, <2>1
  <2>3. \/ After(call[r]) = NoCall
        \/ After(call[r]).route = call[r].route /\ After(call[r]).pc # "idle"
    BY <1>1, AfterShape
  <2> HIDE DEF Call
  <2>4. call' = [call EXCEPT ![r] = call'[r]]
    BY <2>1, <2>2
  <2> QED BY <1>1, <2>2, <2>3, <2>4
<1>3. CASE Count(r)
  <2> DEFINE ok == /\ call[r].ok
                   /\ (IF counter[Current(r)].count > Limit[Current(r)]
                         THEN counter[Current(r)].count
                         ELSE counter[Current(r)].count + 1) <= Limit[Current(r)]
             c == [call[r] EXCEPT !.ok = ok]
  <2>1. \/ call' = [call EXCEPT ![r] = [c EXCEPT !.pc = "expire"]]
        \/ call' = [call EXCEPT ![r] = After(c)]
    BY <1>3 DEF Count
  <2>2. ok \in BOOLEAN
    OBVIOUS
  <2> HIDE DEF ok
  <2>3. c \in Call /\ c.route = call[r].route /\ c.at = call[r].at
    BY <1>1, <2>2 DEF Call
  <2>4. /\ [c EXCEPT !.pc = "expire"].pc = "expire"
        /\ [c EXCEPT !.pc = "expire"].route = call[r].route
    BY <2>3 DEF Call
  <2> HIDE DEF c
  <2>5. call'[r] = [c EXCEPT !.pc = "expire"] \/ call'[r] = After(c)
    BY <1>1, <2>1
  <2>6. call' = [call EXCEPT ![r] = call'[r]]
    BY <1>1, <2>1
  <2>7. \/ After(c) = NoCall
        \/ After(c).route = call[r].route /\ After(c).pc # "idle"
    <3>1. c.route \in Routes /\ c.at \in 1 .. Len(c.route)
      BY <1>1, <2>3
    <3> QED BY <2>3, <3>1, AfterShape
  <2> QED BY <1>1, <2>4, <2>5, <2>6, <2>7
<1> QED BY <1>2, <1>3

(* A request with a challenge holds its code alone, so that what another    *)
(* request does leaves it as it was.                                        *)
LEMMA OthersKept ==
  ASSUME Stores, BridgeInv, Grows, NEW r \in Requests,
         \A q \in Requests : q # r => exchange'[q] = exchange[q] /\ call'[q] = call[q],
         \A c \in AuthCodes : \/ delivered'[c] = delivered[c]
                              \/ exchange[r].challenge # Nobody /\ exchange[r].code = c,
         exchange'[r].challenge # Nobody => stored[exchange'[r].code].status = "live",
         ExchangeShape(r)'
  PROVE  \A q \in Requests : ExchangeShape(q)'
<1>1. SUFFICES ASSUME NEW q \in Requests, q # r PROVE ExchangeShape(q)'
  OBVIOUS
<1> DEFINE x == exchange[q]
<1>2. ExchangeShape(q) /\ exchange'[q] = x /\ call'[q] = call[q]
  BY <1>1 DEF BridgeInv
<1>3. CASE x = NoExchange
  BY <1>2, <1>3 DEF ExchangeShape, NoExchange
<1>4. CASE x # NoExchange
  <2>1. /\ call[q].route = Exchange /\ call[q].pc # "idle" /\ x.code \in AuthCodes
        /\ x.client \in Clients /\ stored'[x.code].status # "none"
    BY <1>2, <1>4 DEF ExchangeShape, Grows
  <2>2. ASSUME x.challenge # Nobody
        PROVE  /\ call[q].pc = "served" /\ stored'[x.code].status = "popped"
               /\ x.challenge = stored'[x.code].client
               /\ delivered'[x.code] = << >>
               /\ \A p \in Requests :
                    exchange'[p].challenge # Nobody /\ exchange'[p].code = x.code => p = q
    <3>1. /\ call[q].pc = "served" /\ stored[x.code].status = "popped"
          /\ x.challenge = stored[x.code].client /\ delivered[x.code] = << >>
          /\ \A p \in Requests :
               exchange[p].challenge # Nobody /\ exchange[p].code = x.code => p = q
      BY <1>2, <2>2 DEF ExchangeShape
    <3>2. stored'[x.code].status = "popped" /\ x.challenge = stored'[x.code].client
      BY <2>1, <3>1 DEF Grows
    <3>3. delivered'[x.code] = << >>
      BY <1>1, <2>1, <3>1
    <3>4. ASSUME NEW p \in Requests, exchange'[p].challenge # Nobody,
                 exchange'[p].code = x.code
          PROVE  p = q
      <4>1. p # r
        BY <3>1, <3>4
      <4> QED BY <3>1, <3>4, <4>1
    <3> QED BY <3>1, <3>2, <3>3, <3>4
  <2> HIDE DEF x
  <2> QED BY <1>2, <1>4, <2>1, <2>2 DEF ExchangeShape
<1> QED BY <1>3, <1>4

(* A request that ends takes nothing with it.                               *)
LEMMA ExchangeEnds ==
  ASSUME Stores, BridgeInv, Grows, NEW r \in Requests,
         exchange' = [exchange EXCEPT ![r] = NoExchange],
         call' = [call EXCEPT ![r] = NoCall], call \in [Requests -> Call],
         \A c \in AuthCodes : \/ delivered'[c] = delivered[c]
                              \/ exchange[r].challenge # Nobody /\ exchange[r].code = c
  PROVE  \A q \in Requests : ExchangeShape(q)'
<1>1. /\ exchange'[r] = NoExchange /\ call'[r] = NoCall
      /\ \A q \in Requests : q # r => exchange'[q] = exchange[q] /\ call'[q] = call[q]
  BY DEF Stores
<1>2. ExchangeShape(r)'
  BY <1>1, RouteFacts DEF ExchangeShape, NoExchange, NoCall
<1>3. exchange'[r].challenge = Nobody
  BY <1>1 DEF NoExchange
<1> QED BY <1>1, <1>2, <1>3, OthersKept

LEMMA ExchangeStep ==
  ASSUME LimiterInv, Stores, BridgeInv, [Next]_vars
  PROVE  \A q \in Requests : ExchangeShape(q)'
<1>1. Grows /\ call \in [Requests -> Call]
  BY StoresGrow DEF LimiterInv
<1>2. exchange \in [Requests -> [code : AuthCodes \cup {Nobody},
                                 client : Clients \cup {Nobody},
                                 challenge : Clients \cup {Nobody}]]
  BY DEF Stores
<1>3. CASE UNCHANGED <<exchange, call>>
  <2>1. SUFFICES ASSUME NEW q \in Requests PROVE ExchangeShape(q)'
    OBVIOUS
  <2>2. \A c \in AuthCodes : delivered'[c] = delivered[c]
    <3>1. ASSUME NEW r \in Requests, AnswerExchange(r) PROVE FALSE
      <4>1. exchange[r].challenge # Nobody /\ exchange' = [exchange EXCEPT ![r] = NoExchange]
        BY <3>1 DEF AnswerExchange
      <4>2. exchange'[r].challenge = Nobody
        BY <1>2, <4>1 DEF NoExchange
      <4> QED BY <1>3, <4>1, <4>2
    <3> QED BY <3>1, WhoWrites
  <2>3. ExchangeShape(q)
    BY DEF BridgeInv
  <2> QED BY <1>1, <1>3, <2>2, <2>3 DEF ExchangeShape, Grows, NoExchange
<1>4. ASSUME NEW r \in Requests, NEW cl \in Clients, NEW c \in AuthCodes,
             ArriveExchange(r, cl, c)
      PROVE  \A q \in Requests : ExchangeShape(q)'
  <2>1. stored[c].status # "none" /\ delivered' = delivered
    BY <1>4 DEF ArriveExchange
  <2>2. /\ exchange'[r] = [code |-> c, client |-> cl, challenge |-> Nobody]
        /\ call'[r] = [route |-> Exchange, pc |-> "incr", at |-> 1, ok |-> TRUE]
        /\ \A q \in Requests : q # r => exchange'[q] = exchange[q] /\ call'[q] = call[q]
    BY <1>1, <1>2, <1>4 DEF ArriveExchange, Arrive, NoExchange, NoCall
  <2>3. c # Nobody
    BY NobodyAssumption DEF NobodyAssumption
  <2>4. stored'[c].status # "none"
    BY <1>1, <2>1 DEF Grows
  <2>5. ExchangeShape(r)'
    BY <2>2, <2>3, <2>4 DEF ExchangeShape, NoExchange
  <2>6. exchange'[r].challenge = Nobody
    BY <2>2
  <2> QED BY <1>1, <2>1, <2>2, <2>5, <2>6, OthersKept
<1>5. ASSUME NEW r \in Requests, Pop(r) PROVE \A q \in Requests : ExchangeShape(q)'
  <2> DEFINE c == exchange[r].code
  <2>1. call[r].pc = "served" /\ call[r].route = Exchange /\ delivered' = delivered
    BY <1>5 DEF Pop
  <2>2. CASE stored[c].status = "live"
    <3>1. /\ exchange' = [exchange EXCEPT ![r].challenge = stored[c].client]
          /\ call' = call /\ stored' = [stored EXCEPT ![c].status = "popped"]
      BY <1>5, <2>2 DEF Pop, limiterVars, AfterPop
    <3>2. c \in AuthCodes /\ exchange[r].client \in Clients
      BY <2>1 DEF BridgeInv, ExchangeShape
    <3>3. /\ stored[c].client \in Clients /\ delivered[c] = << >>
      <4>1. /\ stored[c].state \in States /\ stored[c].client = login[stored[c].state].client
            /\ login[stored[c].state].status # "none" /\ delivered[c] = << >>
        BY <2>2, <3>2 DEF BridgeInv, CodeShape
      <4> QED BY <4>1 DEF BridgeInv, LoginShape
    <3>4. stored[c].client # Nobody
      BY <3>3, NobodyAssumption DEF NobodyAssumption
    <3>5. /\ exchange'[r].code = c /\ exchange'[r].client = exchange[r].client
          /\ exchange'[r].challenge = stored[c].client
          /\ \A q \in Requests : q # r => exchange'[q] = exchange[q]
      <4> HIDE DEF c
      <4>1. /\ exchange'[r].code = exchange[r].code
            /\ exchange'[r].client = exchange[r].client
            /\ exchange'[r].challenge = stored[c].client
            /\ \A q \in Requests : q # r => exchange'[q] = exchange[q]
        BY <1>2, <3>1
      <4> QED BY <4>1 DEF c
    <3>6. stored'[c].status = "popped" /\ stored'[c].client = stored[c].client
      <4> HIDE DEF c
      <4> QED BY <3>1, <3>2 DEF Stores, AuthCode
    <3>7. ASSUME NEW q \in Requests, exchange[q].challenge # Nobody, exchange[q].code = c
          PROVE  FALSE
      BY <2>2, <3>7 DEF BridgeInv, ExchangeShape
    <3> HIDE DEF c
    <3>8. \A q \in Requests :
             exchange'[q].challenge # Nobody /\ exchange'[q].code = c => q = r
      BY <3>5, <3>7
    <3>9. exchange'[r] # NoExchange /\ stored'[c].status # "none"
      BY <3>4, <3>5, <3>6 DEF NoExchange
    <3>10. ExchangeShape(r)'
      BY <2>1, <3>1, <3>2, <3>3, <3>5, <3>6, <3>8, <3>9 DEF ExchangeShape
    <3> QED BY <1>1, <2>1, <2>2, <3>1, <3>5, <3>10, OthersKept
  <2>3. CASE stored[c].status # "live"
    <3>1. /\ exchange' = [exchange EXCEPT ![r] = NoExchange]
          /\ call' = [call EXCEPT ![r] = NoCall]
      BY <1>5, <2>3 DEF Pop, Answer
    <3> QED BY <1>1, <2>1, <3>1, ExchangeEnds
  <2> QED BY <2>2, <2>3
<1>6. ASSUME NEW r \in Requests, AnswerExchange(r) PROVE \A q \in Requests : ExchangeShape(q)'
  <2>1. /\ exchange' = [exchange EXCEPT ![r] = NoExchange]
        /\ call' = [call EXCEPT ![r] = NoCall]
        /\ exchange[r].challenge # Nobody
        /\ delivered' = [delivered EXCEPT ![exchange[r].code] =
                           IF Verified(r) THEN Append(@, exchange[r].client) ELSE @]
    BY <1>6 DEF AnswerExchange, Answer
  <2>2. \A c \in AuthCodes : \/ delivered'[c] = delivered[c]
                             \/ exchange[r].challenge # Nobody /\ exchange[r].code = c
    BY <2>1 DEF Stores
  <2> QED BY <1>1, <2>1, <2>2, ExchangeEnds
<1>7. ASSUME NEW r \in Requests, Count(r) \/ SetExpiry(r), delivered' = delivered,
             exchange' = [exchange EXCEPT ![r] =
                            IF call'[r] = NoCall THEN NoExchange ELSE exchange[r]]
      PROVE  \A q \in Requests : ExchangeShape(q)'
  <2>1. /\ call[r].pc \in {"incr", "expire"} /\ call' = [call EXCEPT ![r] = call'[r]]
        /\ \/ call'[r] = NoCall
           \/ call'[r].route = call[r].route /\ call'[r].pc # "idle"
    BY <1>7, CountedOn
  <2>2. CASE call'[r] = NoCall
    <3>1. /\ exchange' = [exchange EXCEPT ![r] = NoExchange]
          /\ call' = [call EXCEPT ![r] = NoCall]
      BY <1>7, <2>1, <2>2
    <3> QED BY <1>1, <1>7, <3>1, ExchangeEnds
  <2>3. CASE call'[r] # NoCall
    <3>1. exchange' = exchange
      BY <1>2, <1>7, <2>3
    <3>2. \A q \in Requests : q # r => exchange'[q] = exchange[q] /\ call'[q] = call[q]
      BY <1>1, <2>1, <3>1
    <3>3. ExchangeShape(r) /\ exchange[r].challenge = Nobody
      <4>1. ExchangeShape(r)
        BY DEF BridgeInv
      <4> QED BY <2>1, <4>1 DEF ExchangeShape
    <3>4. ExchangeShape(r)'
      BY <1>1, <2>1, <2>3, <3>1, <3>3 DEF ExchangeShape, Grows
    <3> QED BY <1>1, <1>7, <3>1, <3>2, <3>3, <3>4, OthersKept
  <2> QED BY <2>2, <2>3
<1>8. ASSUME NEW r \in Requests, CutOffRequest(r) PROVE \A q \in Requests : ExchangeShape(q)'
  <2>1. /\ exchange' = [exchange EXCEPT ![r] = NoExchange]
        /\ call' = [call EXCEPT ![r] = NoCall] /\ delivered' = delivered
    BY <1>8 DEF CutOffRequest, CutOff
  <2> QED BY <1>1, <2>1, ExchangeEnds
<1>9. ASSUME NEW r \in Requests, OtherRoute(r) PROVE \A q \in Requests : ExchangeShape(q)'
  <2>1. exchange' = exchange /\ delivered' = delivered
    BY <1>9 DEF OtherRoute, bridgeVars
  <2>2. /\ call[r].route # Exchange /\ call'[r].route # Exchange
        /\ \A q \in Requests : q # r => call'[q] = call[q]
    <3>1. ASSUME NEW w \in {Login, KeyUse}, Arrive(r, w)
          PROVE  /\ call[r].route # Exchange /\ call'[r].route # Exchange
                 /\ \A q \in Requests : q # r => call'[q] = call[q]
      <4>1. /\ call[r].pc = "idle"
            /\ call'[r] = [route |-> w, pc |-> "incr", at |-> 1, ok |-> TRUE]
            /\ \A q \in Requests : q # r => call'[q] = call[q]
        BY <1>1, <3>1 DEF Arrive, NoCall
      <4>2. call[r] = NoCall
        BY <4>1, CallFacts DEF CallShape
      <4>3. call[r].route = << >> /\ << >> # Exchange
        BY <4>2, RouteFacts DEF NoCall
      <4> QED BY <1>1, <4>1, <4>3, ThreeRoutes
    <3>2. ASSUME call[r].route \in {Login, KeyUse}, call' = [call EXCEPT ![r] = NoCall]
          PROVE  /\ call[r].route # Exchange /\ call'[r].route # Exchange
                 /\ \A q \in Requests : q # r => call'[q] = call[q]
      BY <1>1, <3>2, ThreeRoutes, RouteFacts DEF NoCall
    <3> QED BY <1>9, <3>1, <3>2 DEF OtherRoute, Answer, Reset
  <2>3. exchange[r] = NoExchange
    BY <2>2 DEF BridgeInv, ExchangeShape
  <2>4. ExchangeShape(r)'
    BY <2>1, <2>2, <2>3 DEF ExchangeShape, NoExchange
  <2>5. exchange'[r].challenge = Nobody
    BY <2>1, <2>3 DEF NoExchange
  <2> QED BY <1>1, <2>1, <2>2, <2>4, <2>5, OthersKept
<1>10. ASSUME NEW r \in Requests, CountRequest(r) \/ ExpireCounter(r)
       PROVE  \A q \in Requests : ExchangeShape(q)'
  BY <1>7, <1>10 DEF CountRequest, ExpireCounter
<1> QED BY <1>3, <1>4, <1>5, <1>6, <1>8, <1>9, <1>10, WhoMoves

-----------------------------------------------------------------------------
(* The theorems *)

LEMMA InitBridge == Init => BridgeInv
<1> SUFFICES ASSUME Init PROVE BridgeInv
  OBVIOUS
<1>1. \A r \in Requests : call[r].route # Exchange
  BY RouteFacts DEF Init, LimiterInit, NoCall
<1>2. Stores
  BY DEF Init, Stores, LoginEntry, Grant, AuthCode, Callback, NoCallback, NoExchange
<1>3. \A s \in States : LoginShape(s)
  BY DEF Init, LoginShape
<1>4. \A g \in Grants : GrantShape(g)
  BY DEF Init, GrantShape
<1>5. \A c \in AuthCodes : CodeShape(c)
  BY DEF Init, CodeShape
<1>6. \A b \in Callbacks : CallbackShape(b)
  BY DEF Init, CallbackShape, NoCallback
<1>7. \A r \in Requests : ExchangeShape(r)
  BY <1>1 DEF Init, ExchangeShape, NoExchange
<1> QED BY <1>2, <1>3, <1>4, <1>5, <1>6, <1>7 DEF BridgeInv

LEMMA ExchangeTyped ==
  ASSUME Stores, BridgeInv, [Next]_vars
  PROVE  exchange' \in [Requests -> [code : AuthCodes \cup {Nobody},
                                     client : Clients \cup {Nobody},
                                     challenge : Clients \cup {Nobody}]]
<1> DEFINE X == [code : AuthCodes \cup {Nobody}, client : Clients \cup {Nobody},
                 challenge : Clients \cup {Nobody}]
<1>1. exchange \in [Requests -> X] /\ NoExchange \in X
  BY DEF Stores, NoExchange
<1>2. ASSUME NEW r \in Requests, NEW x \in X, exchange' = [exchange EXCEPT ![r] = x]
      PROVE  exchange' \in [Requests -> X]
  BY <1>1, <1>2
<1>3. CASE exchange' = exchange
  BY <1>1, <1>3
<1>4. ASSUME NEW r \in Requests, NEW cl \in Clients, NEW c \in AuthCodes,
             ArriveExchange(r, cl, c)
      PROVE  exchange' \in [Requests -> X]
  <2>1. [NoExchange EXCEPT !.code = c, !.client = cl] \in X
    BY DEF NoExchange
  <2> HIDE DEF X
  <2> QED BY <1>2, <1>4, <2>1 DEF ArriveExchange
<1>5. ASSUME NEW r \in Requests, Pop(r) PROVE exchange' \in [Requests -> X]
  <2> DEFINE c == exchange[r].code
  <2>1. c \in AuthCodes
    BY <1>5 DEF Pop, BridgeInv, ExchangeShape
  <2>2. stored[c].client \in Clients \cup {Nobody}
    BY <2>1 DEF Stores, AuthCode
  <2>3. \/ exchange' = [exchange EXCEPT ![r].challenge = stored[c].client]
        \/ exchange' = [exchange EXCEPT ![r] = NoExchange]
    BY <1>5 DEF Pop
  <2> HIDE DEF c
  <2> QED BY <1>1, <2>2, <2>3
<1>6. ASSUME NEW r \in Requests,
             AnswerExchange(r) \/ CountRequest(r) \/ ExpireCounter(r) \/ CutOffRequest(r)
      PROVE  exchange' \in [Requests -> X]
  <2>1. \/ exchange' = [exchange EXCEPT ![r] = NoExchange]
        \/ exchange' = [exchange EXCEPT ![r] = exchange[r]]
    BY <1>6 DEF AnswerExchange, CountRequest, ExpireCounter, CutOffRequest
  <2> QED BY <1>1, <2>1
<1>7. ASSUME NEW r \in Requests, OtherRoute(r) PROVE exchange' = exchange
  BY <1>7 DEF OtherRoute, bridgeVars
<1> QED BY <1>3, <1>4, <1>5, <1>6, <1>7, WhoMoves

LEMMA BridgeStep ==
  ASSUME LimiterInv, BridgeInv, [Next]_vars
  PROVE  BridgeInv'
<1>1. Stores
  BY DEF BridgeInv
<1>2. Stores'
  <2>1. opened' \subseteq {g \in Grants : grant'[g].status = "used"}
    BY <1>1, UsersOpened, GrantGrows
  <2> QED BY <1>1, <2>1, LoginGrows, GrantGrows, StoredGrows, UsersOpened, DeliveredStep,
             CallbackStep, ExchangeTyped DEF Stores
<1>3. /\ \A s \in States : LoginShape(s)'
      /\ \A g \in Grants : GrantShape(g)'
      /\ \A c \in AuthCodes : CodeShape(c)'
  BY <1>1, LoginStep, GrantStep, CodeStep
<1>4. \A b \in Callbacks : CallbackShape(b)'
  BY <1>1, CallbackStep
<1>5. \A r \in Requests : ExchangeShape(r)'
  BY <1>1, ExchangeStep
<1> QED BY <1>2, <1>3, <1>4, <1>5 DEF BridgeInv

(* The bridge keeps its inductive invariant: the challenge of a login URL   *)
(* stays with its state, its callback, its code and its exchange.           *)
THEOREM InvariantHolds == Spec => []IInv
<1>1. Init => IInv
  BY InitLimiter, InitBridge DEF Init, IInv
<1>2. IInv /\ [Next]_vars => IInv'
  BY LimiterStep, BridgeStep DEF IInv
<1> QED BY <1>1, <1>2, PTL DEF Spec

(* Every store holds what its code writes there, tokens were handed out     *)
(* for popped codes only, and every code comes from a grant Google took     *)
(* back and that opened a session.                                          *)
THEOREM TypeCorrect == Spec => []TypeOK
<1>1. IInv => TypeOK
  BY DEF IInv, BridgeInv, Stores, LimiterInv, TypeOK, ExchangeShape, CodeShape
<1> QED BY <1>1, InvariantHolds, PTL

(* A code hands out tokens once, and only to the client that asked for the  *)
(* login URL at which the tokens' owner signed in, however callbacks and    *)
(* exchanges interleave at GETDEL, the callback's commit and the store.     *)
THEOREM TokensOnce == Spec => []TokensOnceToInitiator
<1>1. ASSUME IInv PROVE TokensOnceToInitiator
  <2>1. SUFFICES ASSUME NEW c \in AuthCodes, delivered[c] # << >>
                 PROVE  \E g \in opened :
                          /\ grant[g].identity = stored[c].identity
                          /\ grant[g].state = stored[c].state
                          /\ delivered[c] = <<login[grant[g].state].client>>
    BY DEF TokensOnceToInitiator
  <2>2. /\ stored[c].status = "popped" /\ delivered[c] = <<stored[c].client>>
        /\ stored[c].client = login[stored[c].state].client
        /\ \E g \in opened : /\ grant[g].identity = stored[c].identity
                             /\ grant[g].state = stored[c].state
    BY <1>1, <2>1 DEF IInv, BridgeInv, CodeShape
  <2> QED BY <2>2
<1> QED BY <1>1, InvariantHolds, PTL

(* "Transient failures don't destroy the session": a callback that fails    *)
(* leaves its state in the store; it is deleted after a code was stored.    *)
THEOREM StateOutlives == Spec => []StateOutlivesFailure
<1>1. IInv => StateOutlivesFailure
  BY DEF IInv, BridgeInv, LoginShape, StateOutlivesFailure
<1> QED BY <1>1, InvariantHolds, PTL

-----------------------------------------------------------------------------
(* The refinement of SignIn *)

Underway == {"select", "insert", "session", "store"}

(* The sign-ins at a URL that Google confirmed, those of them that a        *)
(* callback has yet to turn into a code, and the codes.                     *)
Confirmed(s, e) ==
    {g \in Grants : grant[g].status = "used" /\ grant[g].state = s /\ grant[g].identity = e}
Coming(s, e) ==
    {b \in Callbacks : callback[b].pc \in Underway /\ callback[b].state = s /\ Identity(b) = e}
Coded(s, e) ==
    {c \in AuthCodes :
        stored[c].status # "none" /\ stored[c].state = s /\ stored[c].identity = e}

(* Of three sets, the last two together no larger than the first: the       *)
(* second loses elements; the first two gain one; one moves from the second *)
(* to the third.                                                            *)
Within(A, B, C) ==
    /\ IsFiniteSet(A) /\ IsFiniteSet(B) /\ IsFiniteSet(C)
    /\ Cardinality(C) + Cardinality(B) <= Cardinality(A)

LEMMA StaysWithin ==
  ASSUME NEW A, NEW B, NEW C, Within(A, B, C)
  PROVE  /\ \A B2 : B2 \subseteq B => Within(A, B2, C)
         /\ \A x, y : x \notin A => Within(A \cup {x}, B \cup {y}, C)
         /\ \A x, y : x \in B => Within(A, B \ {x}, C \cup {y})
<1>1. Cardinality(A) \in Nat /\ Cardinality(B) \in Nat /\ Cardinality(C) \in Nat
  BY FS_CardinalityType DEF Within
<1>2. ASSUME NEW B2, B2 \subseteq B PROVE Within(A, B2, C)
  <2>1. IsFiniteSet(B2) /\ Cardinality(B2) <= Cardinality(B)
    BY <1>2, FS_Subset DEF Within
  <2>2. Cardinality(B2) \in Nat
    BY <2>1, FS_CardinalityType
  <2> QED BY <1>1, <2>1, <2>2 DEF Within
<1>3. ASSUME NEW x, NEW y, x \notin A PROVE Within(A \cup {x}, B \cup {y}, C)
  <2>1. IsFiniteSet(A \cup {x}) /\ Cardinality(A \cup {x}) = Cardinality(A) + 1
    BY <1>3, FS_AddElement DEF Within
  <2>2. /\ IsFiniteSet(B \cup {y})
        /\ \/ Cardinality(B \cup {y}) = Cardinality(B)
           \/ Cardinality(B \cup {y}) = Cardinality(B) + 1
    BY FS_AddElement DEF Within
  <2> QED BY <1>1, <2>1, <2>2 DEF Within
<1>4. ASSUME NEW x, NEW y, x \in B PROVE Within(A, B \ {x}, C \cup {y})
  <2>1. IsFiniteSet(B \ {x}) /\ Cardinality(B \ {x}) = Cardinality(B) - 1
    BY <1>4, FS_RemoveElement DEF Within
  <2>2. /\ IsFiniteSet(C \cup {y})
        /\ \/ Cardinality(C \cup {y}) = Cardinality(C)
           \/ Cardinality(C \cup {y}) = Cardinality(C) + 1
    BY FS_AddElement DEF Within
  <2> QED BY <1>1, <2>1, <2>2 DEF Within
<1> QED BY <1>2, <1>3, <1>4

(* Every code, and every callback that may still store one, has a sign-in   *)
(* of its own.                                                              *)
Paid(s, e) == Within(Confirmed(s, e), Coming(s, e), Coded(s, e))

AllPaid == \A s \in States, e \in Identities : Paid(s, e)

LEMMA InitPaid == Init => AllPaid
<1> SUFFICES ASSUME Init, NEW s \in States, NEW e \in Identities PROVE Paid(s, e)
  BY DEF AllPaid
<1>1. Confirmed(s, e) = {} /\ Coming(s, e) = {} /\ Coded(s, e) = {}
  BY DEF Init, Confirmed, Coming, Coded, NoCallback, Underway
<1> QED BY <1>1, FS_EmptySet DEF Paid, Within

(* What the actions other than the four that the refinement maps to steps   *)
(* leave alone.                                                             *)
LEMMA AskedKept ==
  ASSUME BridgeInv, [Next]_vars, ~ \E s \in States, cl \in Clients : LoginUrl(s, cl)
  PROVE  AskedBy' = AskedBy
<1>1. Stores /\ login \in [States -> LoginEntry]
  BY DEF BridgeInv, Stores
<1>2. \A s \in States : login[s].status # "none" =>
        login'[s].status # "none" /\ login'[s].client = login[s].client
  BY <1>1, LoginGrows
<1>3. ASSUME NEW s \in States, login[s].status = "none" PROVE login'[s] = login[s]
  <2>1. CASE login' = login
    BY <2>1
  <2>2. ASSUME NEW q \in States, StateExpires(q) PROVE login'[s] = login[s]
    BY <1>1, <1>3, <2>2 DEF StateExpires
  <2>3. ASSUME NEW b \in Callbacks, DeleteState(b) PROVE login'[s] = login[s]
    <3>1. callback[b].state \in States /\ login[callback[b].state].status # "none"
      BY <2>3 DEF DeleteState, BridgeInv, CallbackShape
    <3> QED BY <1>1, <1>3, <2>3, <3>1 DEF DeleteState
  <2> QED BY <1>1, <2>1, <2>2, <2>3, WhoWrites
<1> QED BY <1>2, <1>3 DEF AskedBy

LEMMA ConfirmedKept ==
  ASSUME BridgeInv, [Next]_vars, ~ \E b \in Callbacks : GoogleAnswers(b)
  PROVE  /\ SignedInAt' = SignedInAt
         /\ \A s \in States, e \in Identities : Confirmed(s, e)' = Confirmed(s, e)
<1>1. Stores /\ grant \in [Grants -> Grant]
  BY DEF BridgeInv, Stores
<1>2. ASSUME NEW g \in Grants
      PROVE  \/ grant'[g] = grant[g]
             \/ grant[g].status # "used" /\ grant'[g].status # "used"
  <2>1. ASSUME NEW h \in Grants, NEW s \in States, NEW e \in Identities, Consent(h, s, e)
        PROVE  \/ grant'[g] = grant[g]
               \/ grant[g].status # "used" /\ grant'[g].status # "used"
    BY <1>1, <2>1 DEF Consent
  <2> QED BY <1>1, <2>1, WhoWrites
<1> QED BY <1>2 DEF SignedInAt, Confirmed

LEMMA CodedKept ==
  ASSUME BridgeInv, [Next]_vars, ~ \E b \in Callbacks, c \in AuthCodes : StoreCode(b, c)
  PROVE  /\ IssuedAt' = IssuedAt
         /\ \A s \in States, e \in Identities : Coded(s, e)' = Coded(s, e)
<1>1. Stores /\ stored \in [AuthCodes -> AuthCode]
  BY DEF BridgeInv, Stores
<1>2. \A c \in AuthCodes : stored[c].status # "none" =>
        /\ stored'[c].status # "none"
        /\ stored'[c].state = stored[c].state /\ stored'[c].identity = stored[c].identity
  BY <1>1, StoredGrows
<1>3. ASSUME NEW c \in AuthCodes, stored[c].status = "none" PROVE stored'[c] = stored[c]
  <2>1. ASSUME NEW d \in AuthCodes, CodeExpires(d) PROVE stored'[c] = stored[c]
    BY <1>1, <1>3, <2>1 DEF CodeExpires
  <2>2. ASSUME NEW r \in Requests, Pop(r) PROVE stored'[c] = stored[c]
    <3> DEFINE d == exchange[r].code
    <3>1. \/ stored' = stored
          \/ stored[d].status = "live" /\ stored' = [stored EXCEPT ![d] = AfterPop(@)]
      BY <2>2 DEF Pop
    <3> HIDE DEF d
    <3> QED BY <1>1, <1>3, <3>1
  <2> QED BY <1>1, <2>1, <2>2, WhoWrites
<1> QED BY <1>2, <1>3 DEF IssuedAt, Coded

(* The person of a callback stays the same.                                 *)
LEMMA SamePerson ==
  ASSUME BridgeInv, [Next]_vars, NEW b \in Callbacks, callback[b].pc # "idle",
         callback'[b].grant = callback[b].grant
  PROVE  Identity(b)' = Identity(b)
<1>1. Stores /\ callback[b].grant \in Grants /\ grant[callback[b].grant].status # "none"
  BY DEF BridgeInv, CallbackShape
<1> QED BY <1>1, GrantGrows DEF Identity

LEMMA ComingShrinks ==
  ASSUME BridgeInv, [Next]_vars, ~ \E b \in Callbacks : GoogleAnswers(b),
         NEW s \in States, NEW e \in Identities
  PROVE  Coming(s, e)' \subseteq Coming(s, e)
<1>1. Stores /\ callback \in [Callbacks -> Callback]
  BY DEF BridgeInv, Stores
<1>2. ASSUME NEW b \in Callbacks, callback'[b].pc \in Underway
      PROVE  /\ callback[b].pc \in Underway
             /\ callback'[b].state = callback[b].state
             /\ callback'[b].grant = callback[b].grant
  <2>1. CASE callback' = callback
    BY <1>2, <2>1
  <2>2. ASSUME NEW d \in Callbacks, NEW t \in States, NEW g \in Grants, ReadState(d, t, g)
        PROVE  b # d /\ callback'[b] = callback[b]
    BY <1>1, <1>2, <2>2 DEF ReadState, Underway
  <2>3. ASSUME NEW d \in Callbacks, NEW pc, Moves(d, pc), callback[d].pc \in Underway
        PROVE  /\ callback[b].pc \in Underway
               /\ callback'[b].state = callback[b].state
               /\ callback'[b].grant = callback[b].grant
    BY <1>1, <1>2, <2>3 DEF Moves, Callback
  <2>4. ASSUME NEW d \in Callbacks, Ends(d)
        PROVE  b # d /\ callback'[b] = callback[b]
    BY <1>1, <1>2, <2>4 DEF Ends, NoCallback, Underway
  <2>5. ASSUME NEW d \in Callbacks,
               FindUser(d) \/ OpenSession(d) \/ \E c \in AuthCodes : StoreCode(d, c)
        PROVE  callback[d].pc \in Underway /\ \E pc : Moves(d, pc)
    <3>1. CASE FindUser(d)
      <4>1. Moves(d, "session") \/ Moves(d, "insert")
        BY <3>1 DEF FindUser
      <4> QED BY <3>1, <4>1 DEF FindUser, Underway
    <3>2. CASE OpenSession(d)
      BY <3>2 DEF OpenSession, Underway
    <3>3. CASE \E c \in AuthCodes : StoreCode(d, c)
      BY <3>3 DEF StoreCode, Underway
    <3> QED BY <2>5, <3>1, <3>2, <3>3
  <2>6. ASSUME NEW d \in Callbacks, InsertUser(d)
        PROVE  Ends(d) \/ (callback[d].pc \in Underway /\ \E pc : Moves(d, pc))
    <3>1. Ends(d) \/ Moves(d, "session")
      BY <2>6 DEF InsertUser
    <3> QED BY <2>6, <3>1 DEF InsertUser, Underway
  <2> QED BY <1>2, <2>1, <2>2, <2>3, <2>4, <2>5, <2>6, WhoMoves
<1>3. ASSUME NEW b \in Callbacks, b \in Coming(s, e)' PROVE b \in Coming(s, e)
  <2>1. callback'[b].pc \in Underway /\ callback'[b].state = s /\ Identity(b)' = e
    BY <1>3 DEF Coming
  <2>2. /\ callback[b].pc \in Underway /\ callback[b].state = s
        /\ callback'[b].grant = callback[b].grant
    BY <1>2, <2>1
  <2>3. Identity(b) = e
    BY <2>1, <2>2, SamePerson DEF Underway
  <2> QED BY <2>2, <2>3 DEF Coming
<1> QED BY <1>3 DEF Coming

(* What a callback carries when Google answers, and when it stores a code.  *)
LEMMA Carried ==
  ASSUME BridgeInv, NEW b \in Callbacks, callback[b].pc # "idle"
  PROVE  /\ callback[b].grant \in Grants /\ callback[b].state \in States
         /\ Identity(b) \in Identities
         /\ login[callback[b].state].status # "none"
         /\ login[callback[b].state].client \in Clients
<1>1. Stores
  BY DEF BridgeInv
<1> QED BY <1>1, IdentityKnown DEF BridgeInv, CallbackShape

(* Google takes a grant back: one more sign-in, and a callback that may     *)
(* make a code of it.                                                       *)
LEMMA ConfirmedBy ==
  ASSUME BridgeInv, [Next]_vars, NEW b \in Callbacks, GoogleAnswers(b),
         NEW g \in Grants, NEW s \in States, NEW e \in Identities,
         g = callback[b].grant, s = callback[b].state, e = Identity(b)
  PROVE  /\ SignedInAt[g] = Nowhere
         /\ AskedBy[s] # Nobody
         /\ SignedInAt' = [SignedInAt EXCEPT ![g] = [url |-> s, person |-> e]]
         /\ g \notin Confirmed(s, e)
         /\ Confirmed(s, e)' = Confirmed(s, e) \cup {g}
         /\ Coming(s, e)' = Coming(s, e) \cup {b}
         /\ \A t \in States, f \in Identities : ~ (t = s /\ f = e) =>
                Confirmed(t, f)' = Confirmed(t, f) /\ Coming(t, f)' = Coming(t, f)
<1>1. /\ grant \in [Grants -> Grant] /\ callback \in [Callbacks -> Callback]
      /\ callback[b].pc = "google" /\ e = grant[g].identity
      /\ login[s].status # "none" /\ login[s].client \in Clients
  BY Carried DEF BridgeInv, Stores, GoogleAnswers, Identity
<1>2. /\ grant[g].status = "issued" /\ grant[g].state = s
      /\ grant' = [grant EXCEPT ![g].status = "used"]
      /\ callback' = [callback EXCEPT ![b].pc = "select"]
  BY DEF GoogleAnswers, Redeems, Moves
<1>3. /\ grant'[g].status = "used" /\ grant'[g].state = s /\ grant'[g].identity = e
      /\ \A h \in Grants : h # g => grant'[h] = grant[h]
      /\ \A h \in Grants : grant'[h].identity = grant[h].identity
  BY <1>1, <1>2 DEF Grant
<1>4. /\ callback'[b].pc = "select" /\ callback'[b].state = s /\ callback'[b].grant = g
      /\ \A d \in Callbacks : d # b => callback'[d] = callback[d]
  BY <1>1, <1>2 DEF Callback
<1>5. AskedBy[s] # Nobody
  BY <1>1, NobodyAssumption DEF AskedBy, NobodyAssumption
<1>6. /\ SignedInAt[g] = Nowhere
      /\ SignedInAt' = [SignedInAt EXCEPT ![g] = [url |-> s, person |-> e]]
  BY <1>1, <1>2, <1>3 DEF SignedInAt
<1>7. ASSUME NEW t \in States, NEW f \in Identities
      PROVE  /\ g \notin Confirmed(t, f)
             /\ g \in Confirmed(t, f)' <=> t = s /\ f = e
             /\ \A h \in Grants : h # g => (h \in Confirmed(t, f)' <=> h \in Confirmed(t, f))
  BY <1>2, <1>3 DEF Confirmed
<1>8. ASSUME NEW t \in States, NEW f \in Identities
      PROVE  /\ b \notin Coming(t, f)
             /\ b \in Coming(t, f)' <=> t = s /\ f = e
             /\ \A d \in Callbacks : d # b => (d \in Coming(t, f)' <=> d \in Coming(t, f))
  <2>1. b \notin Coming(t, f) /\ Identity(b)' = e
    BY <1>1, <1>3, <1>4 DEF Coming, Underway, Identity
  <2>2. b \in Coming(t, f)' <=> t = s /\ f = e
    BY <1>4, <2>1 DEF Coming, Underway
  <2>3. ASSUME NEW d \in Callbacks, d # b PROVE d \in Coming(t, f)' <=> d \in Coming(t, f)
    <3>1. callback'[d] = callback[d]
      BY <1>4, <2>3
    <3>2. callback[d].pc # "idle" => Identity(d)' = Identity(d)
      BY <3>1, SamePerson
    <3> QED BY <3>1, <3>2 DEF Coming, Underway
  <2> QED BY <2>1, <2>2, <2>3
<1>9. \A t \in States, f \in Identities :
        /\ Confirmed(t, f) \subseteq Grants /\ Confirmed(t, f)' \subseteq Grants
        /\ Coming(t, f) \subseteq Callbacks /\ Coming(t, f)' \subseteq Callbacks
  BY DEF Confirmed, Coming
<1>10. ASSUME NEW t \in States, NEW f \in Identities, ~ (t = s /\ f = e)
       PROVE  Confirmed(t, f)' = Confirmed(t, f) /\ Coming(t, f)' = Coming(t, f)
  <2>1. \A h \in Grants : h \in Confirmed(t, f)' <=> h \in Confirmed(t, f)
    BY <1>7, <1>10
  <2>2. \A d \in Callbacks : d \in Coming(t, f)' <=> d \in Coming(t, f)
    BY <1>8, <1>10
  <2> QED BY <1>9, <2>1, <2>2
<1>11. g \notin Confirmed(s, e) /\ Confirmed(s, e)' = Confirmed(s, e) \cup {g}
  BY <1>7, <1>9
<1>12. Coming(s, e)' = Coming(s, e) \cup {b}
  BY <1>8, <1>9
<1> QED BY <1>5, <1>6, <1>10, <1>11, <1>12

(* A callback stores a code: it was under way, and is no longer.            *)
LEMMA CodedBy ==
  ASSUME BridgeInv, [Next]_vars, NEW b \in Callbacks, NEW c \in AuthCodes, StoreCode(b, c),
         NEW s \in States, NEW e \in Identities, s = callback[b].state, e = Identity(b)
  PROVE  /\ IssuedAt[c] = Nowhere
         /\ IssuedAt' = [IssuedAt EXCEPT ![c] = [url |-> s, person |-> e]]
         /\ b \in Coming(s, e)
         /\ Coming(s, e)' = Coming(s, e) \ {b}
         /\ Coded(s, e)' = Coded(s, e) \cup {c}
         /\ \A t \in States, f \in Identities : ~ (t = s /\ f = e) =>
                Coded(t, f)' = Coded(t, f)
<1>1. /\ stored \in [AuthCodes -> AuthCode] /\ callback \in [Callbacks -> Callback]
      /\ callback[b].pc = "store"
  BY DEF BridgeInv, Stores, StoreCode
<1>2. /\ stored[c].status = "none"
      /\ callback' = [callback EXCEPT ![b].pc = "delete"] /\ grant' = grant
      /\ stored' = [stored EXCEPT ![c] = [state |-> s, client |-> callback[b].client,
                                          identity |-> e, status |-> "live"]]
  BY DEF StoreCode, Moves
<1>3. b \in Coming(s, e)
  BY <1>1 DEF Coming, Underway
<1>4. /\ stored'[c].status = "live" /\ stored'[c].state = s /\ stored'[c].identity = e
      /\ \A d \in AuthCodes : d # c => stored'[d] = stored[d]
  BY <1>1, <1>2
<1>5. /\ IssuedAt[c] = Nowhere
      /\ IssuedAt' = [IssuedAt EXCEPT ![c] = [url |-> s, person |-> e]]
  BY <1>2, <1>4 DEF IssuedAt
<1>6. ASSUME NEW t \in States, NEW f \in Identities
      PROVE  /\ c \notin Coded(t, f)
             /\ c \in Coded(t, f)' <=> t = s /\ f = e
             /\ \A d \in AuthCodes : d # c => (d \in Coded(t, f)' <=> d \in Coded(t, f))
             /\ Coded(t, f) \subseteq AuthCodes /\ Coded(t, f)' \subseteq AuthCodes
  BY <1>2, <1>4 DEF Coded
<1>7. callback'[b].pc = "delete" /\ \A d \in Callbacks : d # b => callback'[d] = callback[d]
  BY <1>1, <1>2 DEF Callback
<1>8. Coming(s, e)' = Coming(s, e) \ {b}
  <2>1. b \notin Coming(s, e)'
    BY <1>7 DEF Coming, Underway
  <2>2. ASSUME NEW d \in Callbacks, d # b PROVE d \in Coming(s, e)' <=> d \in Coming(s, e)
    <3>1. callback'[d] = callback[d] /\ Identity(d)' = Identity(d)
      BY <1>2, <1>7, <2>2 DEF Identity
    <3> QED BY <3>1 DEF Coming
  <2>3. Coming(s, e)' \subseteq Callbacks /\ Coming(s, e) \subseteq Callbacks
    BY DEF Coming
  <2> QED BY <2>1, <2>2, <2>3
<1>9. Coded(s, e)' = Coded(s, e) \cup {c}
  BY <1>6
<1>10. ASSUME NEW t \in States, NEW f \in Identities, ~ (t = s /\ f = e)
       PROVE  Coded(t, f)' = Coded(t, f)
  <2>1. \A d \in AuthCodes : d \in Coded(t, f)' <=> d \in Coded(t, f)
    BY <1>6, <1>10
  <2> QED BY <1>6, <2>1
<1> QED BY <1>3, <1>5, <1>8, <1>9, <1>10

LEMMA PaidStep ==
  ASSUME BridgeInv, AllPaid, [Next]_vars
  PROVE  AllPaid'
<1> SUFFICES ASSUME NEW s \in States, NEW e \in Identities PROVE Paid(s, e)'
  BY DEF AllPaid
<1>1. Paid(s, e)
  BY DEF AllPaid
<1> DEFINE A == Confirmed(s, e)
           B == Coming(s, e)
           C == Coded(s, e)
<1>2. \/ A' = A /\ B' \subseteq B /\ C' = C
      \/ \E x, y : x \notin A /\ A' = A \cup {x} /\ B' = B \cup {y} /\ C' = C
      \/ \E x, y : A' = A /\ x \in B /\ B' = B \ {x} /\ C' = C \cup {y}
  <2>1. CASE \E b \in Callbacks : GoogleAnswers(b)
    <3>1. PICK b \in Callbacks : GoogleAnswers(b)
      BY <2>1
    <3>2. C' = C
      BY <3>1 DEF GoogleAnswers, Coded
    <3> PICK g \in Grants, t \in States, f \in Identities :
            g = callback[b].grant /\ t = callback[b].state /\ f = Identity(b)
      BY <3>1, Carried DEF GoogleAnswers
    <3>3. CASE t = s /\ f = e
      <4>1. g \notin A /\ A' = A \cup {g} /\ B' = B \cup {b}
        <5>1. /\ g \notin Confirmed(t, f) /\ Confirmed(t, f)' = Confirmed(t, f) \cup {g}
              /\ Coming(t, f)' = Coming(t, f) \cup {b}
          BY <3>1, ConfirmedBy
        <5> QED BY <3>3, <5>1
      <4> QED BY <3>2, <4>1
    <3>4. CASE ~ (t = s /\ f = e)
      <4>1. A' = A /\ B' = B
        BY <3>1, <3>4, ConfirmedBy
      <4> QED BY <3>2, <4>1
    <3> QED BY <3>3, <3>4
  <2>2. CASE ~ \E b \in Callbacks : GoogleAnswers(b)
    <3>1. A' = A /\ B' \subseteq B
      BY <2>2, ConfirmedKept, ComingShrinks
    <3>2. CASE \E b \in Callbacks, c \in AuthCodes : StoreCode(b, c)
      <4>1. PICK b \in Callbacks, c \in AuthCodes : StoreCode(b, c)
        BY <3>2
      <4> PICK t \in States, f \in Identities : t = callback[b].state /\ f = Identity(b)
        BY <4>1, Carried DEF StoreCode
      <4>2. CASE t = s /\ f = e
        <5>1. b \in B /\ B' = B \ {b} /\ C' = C \cup {c}
          <6>1. /\ b \in Coming(t, f) /\ Coming(t, f)' = Coming(t, f) \ {b}
                /\ Coded(t, f)' = Coded(t, f) \cup {c}
            BY <4>1, CodedBy
          <6> QED BY <4>2, <6>1
        <5> QED BY <3>1, <5>1
      <4>3. CASE ~ (t = s /\ f = e)
        <5>1. C' = C
          BY <4>1, <4>3, CodedBy
        <5> QED BY <3>1, <5>1
      <4> QED BY <4>2, <4>3
    <3>3. CASE ~ \E b \in Callbacks, c \in AuthCodes : StoreCode(b, c)
      <4>1. C' = C
        BY <3>3, CodedKept
      <4> QED BY <3>1, <4>1
    <3> QED BY <3>2, <3>3
  <2> QED BY <2>1, <2>2
<1>3. Within(A, B, C)
  BY <1>1 DEF Paid
<1>4. /\ \A B2 : B2 \subseteq B => Within(A, B2, C)
      /\ \A x, y : x \notin A => Within(A \cup {x}, B \cup {y}, C)
      /\ \A x, y : x \in B => Within(A, B \ {x}, C \cup {y})
  <2> HIDE DEF A, B, C
  <2> QED BY <1>3, StaysWithin
<1> HIDE DEF A, B, C
<1>5. ASSUME A' = A /\ B' \subseteq B /\ C' = C
      PROVE  Within(A', B', C')
  <2>1. Within(A, B', C)
    BY <1>4, <1>5
  <2> QED BY <1>5, <2>1
<1>6. ASSUME \E x, y : x \notin A /\ A' = A \cup {x} /\ B' = B \cup {y} /\ C' = C
      PROVE  Within(A', B', C')
  <2>1. PICK x, y : x \notin A /\ A' = A \cup {x} /\ B' = B \cup {y} /\ C' = C
    BY <1>6
  <2>2. Within(A \cup {x}, B \cup {y}, C)
    BY <1>4, <2>1
  <2> QED BY <2>1, <2>2
<1>7. ASSUME \E x, y : A' = A /\ x \in B /\ B' = B \ {x} /\ C' = C \cup {y}
      PROVE  Within(A', B', C')
  <2>1. PICK x, y : A' = A /\ x \in B /\ B' = B \ {x} /\ C' = C \cup {y}
    BY <1>7
  <2>2. Within(A, B \ {x}, C \cup {y})
    BY <1>4, <2>1
  <2> QED BY <2>1, <2>2
<1>8. Within(A', B', C')
  BY <1>2, <1>5, <1>6, <1>7
<1> QED BY <1>8 DEF Paid, Within, A, B, C

LEMMA SameCardinality == \A S : Promise!Cardinality(S) = Cardinality(S)
BY DEF Promise!Cardinality, Cardinality

(* A step of the bridge is a step of SignIn, or changes nothing of what     *)
(* SignIn speaks of.                                                        *)
LEMMA PromiseStep ==
  ASSUME BridgeInv, AllPaid, [Next]_vars
  PROVE  [Promise!Next]_(Promise!vars)
<1>1. Stores
  BY DEF BridgeInv
<1>2. Nobody \notin Clients /\ Nobody \notin States
  BY NobodyAssumption DEF NobodyAssumption
<1>3. CASE \E s \in States, cl \in Clients : LoginUrl(s, cl)
  <2>1. PICK s \in States, cl \in Clients : LoginUrl(s, cl)
    BY <1>3
  <2>2. /\ login \in [States -> LoginEntry] /\ login[s].status = "none"
        /\ login' = [login EXCEPT ![s] = [client |-> cl, status |-> "live"]]
        /\ UNCHANGED <<grant, stored, delivered>>
    BY <1>1, <2>1 DEF LoginUrl, Stores
  <2>3. AskedBy[s] = Nobody /\ AskedBy' = [AskedBy EXCEPT ![s] = cl]
    BY <2>2 DEF AskedBy
  <2>4. UNCHANGED <<SignedInAt, IssuedAt, delivered>>
    BY <2>2 DEF SignedInAt, IssuedAt
  <2>5. Promise!Ask(s, cl)
    BY <2>3, <2>4 DEF Promise!Ask
  <2> QED BY <2>5 DEF Promise!Next
<1>4. CASE \E b \in Callbacks : GoogleAnswers(b)
  <2>1. PICK b \in Callbacks : GoogleAnswers(b)
    BY <1>4
  <2> PICK g \in Grants, s \in States, e \in Identities :
          g = callback[b].grant /\ s = callback[b].state /\ e = Identity(b)
    BY <2>1, Carried DEF GoogleAnswers
  <2>2. /\ SignedInAt[g] = Nowhere /\ AskedBy[s] # Nobody
        /\ SignedInAt' = [SignedInAt EXCEPT ![g] = [url |-> s, person |-> e]]
    BY <2>1, ConfirmedBy
  <2>3. UNCHANGED <<AskedBy, IssuedAt, delivered>>
    BY <2>1 DEF GoogleAnswers, AskedBy, IssuedAt
  <2>4. Promise!Confirm(g, s, e)
    BY <2>2, <2>3 DEF Promise!Confirm, Promise!Nowhere, Nowhere
  <2> QED BY <2>4 DEF Promise!Next
<1>5. CASE \E b \in Callbacks, c \in AuthCodes : StoreCode(b, c)
  <2>1. PICK b \in Callbacks, c \in AuthCodes : StoreCode(b, c)
    BY <1>5
  <2> PICK s \in States, e \in Identities : s = callback[b].state /\ e = Identity(b)
    BY <2>1, Carried DEF StoreCode
  <2>2. /\ IssuedAt[c] = Nowhere /\ b \in Coming(s, e)
        /\ IssuedAt' = [IssuedAt EXCEPT ![c] = [url |-> s, person |-> e]]
    BY <2>1, CodedBy
  <2>3. UNCHANGED <<AskedBy, SignedInAt, delivered>>
    BY <2>1 DEF StoreCode, AskedBy, SignedInAt
  <2>4. Promise!At(s, e, IssuedAt) = Coded(s, e)
    BY <1>2 DEF Promise!At, IssuedAt, Coded, Nowhere
  <2>5. Promise!At(s, e, SignedInAt) = Confirmed(s, e)
    BY <1>2 DEF Promise!At, SignedInAt, Confirmed, Nowhere
  <2>6. Cardinality(Coded(s, e)) < Cardinality(Confirmed(s, e))
    <3>1. Within(Confirmed(s, e), Coming(s, e), Coded(s, e))
      BY DEF AllPaid, Paid
    <3>2. Cardinality(Coming(s, e)) # 0
      BY <2>2, <3>1, FS_EmptySet DEF Within
    <3> QED BY <3>1, <3>2, FS_CardinalityType DEF Within
  <2>7. Promise!Issue(c, s, e)
    BY <2>2, <2>3, <2>4, <2>5, <2>6, SameCardinality DEF Promise!Issue, Promise!Nowhere, Nowhere
  <2> QED BY <2>7 DEF Promise!Next
<1>6. CASE \E r \in Requests : AnswerExchange(r)
  <2>1. PICK r \in Requests : AnswerExchange(r)
    BY <1>6
  <2> DEFINE c == exchange[r].code
  <2>2. exchange[r].challenge # Nobody /\ exchange[r] # NoExchange
    BY <2>1 DEF AnswerExchange, NoExchange
  <2>3. /\ c \in AuthCodes /\ stored[c].status = "popped"
        /\ exchange[r].challenge = stored[c].client /\ delivered[c] = << >>
        /\ exchange[r].client \in Clients
    BY <2>2 DEF BridgeInv, ExchangeShape
  <2>4. /\ stored[c].state \in States /\ login[stored[c].state].status # "none"
        /\ stored[c].client = login[stored[c].state].client
    BY <2>3 DEF BridgeInv, CodeShape
  <2>5. UNCHANGED <<AskedBy, SignedInAt, IssuedAt>>
    BY <2>1 DEF AnswerExchange, AskedBy, SignedInAt, IssuedAt
  <2>6. CASE Verified(r)
    <3>1. /\ delivered' = [delivered EXCEPT ![c] = Append(delivered[c], exchange[r].client)]
          /\ exchange[r].client = stored[c].client
      BY <2>1, <2>3, <2>6 DEF AnswerExchange, Verified
    <3> HIDE DEF c
    <3>2. IssuedAt[c].url = stored[c].state /\ IssuedAt[c] # Nowhere
      BY <1>2, <2>3, <2>4 DEF IssuedAt, Nowhere
    <3>3. AskedBy[IssuedAt[c].url] = stored[c].client
      BY <2>4, <3>2 DEF AskedBy
    <3>4. Append(delivered[c], exchange[r].client) = <<stored[c].client>>
      BY <2>3, <3>1
    <3>5. Promise!HandOver(c)
      BY <2>3, <2>5, <3>1, <3>2, <3>3, <3>4 DEF Promise!HandOver, Promise!Nowhere, Nowhere
    <3> QED BY <2>3, <3>5 DEF Promise!Next
  <2>7. CASE ~ Verified(r)
    <3>1. delivered' = delivered
      BY <1>1, <2>1, <2>3, <2>7 DEF AnswerExchange, Stores
    <3> QED BY <2>5, <3>1 DEF Promise!vars
  <2> QED BY <2>6, <2>7
<1>7. CASE ~ \/ \E s \in States, cl \in Clients : LoginUrl(s, cl)
             \/ \E b \in Callbacks : GoogleAnswers(b)
             \/ \E b \in Callbacks, c \in AuthCodes : StoreCode(b, c)
             \/ \E r \in Requests : AnswerExchange(r)
  <2>1. AskedBy' = AskedBy
    BY <1>7, AskedKept
  <2>2. SignedInAt' = SignedInAt
    BY <1>7, ConfirmedKept
  <2>3. IssuedAt' = IssuedAt
    BY <1>7, CodedKept
  <2>4. delivered' = delivered
    BY <1>1, <1>7, WhoWrites
  <2> QED BY <2>1, <2>2, <2>3, <2>4 DEF Promise!vars
<1> QED BY <1>3, <1>4, <1>5, <1>6, <1>7

(* The bridge implements SignIn: over callbacks and exchanges that fail,    *)
(* are repeated or overlap, a sign-in at Google yields at most one one-time *)
(* code, and a code gives tokens once, to the client that asked for the     *)
(* login URL (google_auth_callback, AuthCodeStore, exchange_auth_code).     *)
THEOREM BridgeImplementsSignIn == Spec => SignInSpec
<1>1. Init => Promise!Init
  BY DEF Init, Promise!Init, AskedBy, SignedInAt, IssuedAt, Nowhere, Promise!Nowhere
<1>2. IInv /\ AllPaid /\ [Next]_vars => AllPaid'
  BY PaidStep DEF IInv
<1>3. IInv /\ AllPaid /\ [Next]_vars => [Promise!Next]_(Promise!vars)
  BY PromiseStep DEF IInv
<1> QED BY <1>1, <1>2, <1>3, InitPaid, InvariantHolds, PTL
        DEF Spec, SignInSpec, Promise!Spec
=============================================================================

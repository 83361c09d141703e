--------------------------- MODULE MCOAuthBridge ---------------------------
(***************************************************************************)
(* A small instance of OAuthBridge: two native clients, one of them trying *)
(* what is not its own, two requests and two callbacks, limits of one or   *)
(* two, and one crash.                                                     *)
(***************************************************************************)
EXTENDS OAuthBridge, TLC

CONSTANTS email, address, prober, minute, hour

LoginCounters == <<email, address>>
ExchangeCounters == <<prober>>
KeyCounters == <<minute, hour>>

(* A request of one route does not touch the counters of another. *)
RoutesApart == {{r} : r \in Routes}
Symmetry == UNION {Permutations(S) : S \in
    {Requests, Callbacks, Clients, Identities, States, Grants, AuthCodes}}
Limits == [k \in Counters |-> IF k = address THEN 2 ELSE 1]
=============================================================================

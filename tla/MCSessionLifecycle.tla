------------------------- MODULE MCSessionLifecycle -------------------------
(* Instances of SessionLifecycle for TLC: JTIs and requests are            *)
(* interchangeable; deployments that between them have every setting.      *)
EXTENDS SessionLifecycle, TLC

Symmetry == Permutations(Jti) \cup Permutations(Requests)

(* Redis fails and loses its keys, refresh validation fails open: logout,   *)
(* a change of the account, and a bulk revocation.                          *)
HybridSite ==
    [ops |-> {"login", "refresh", "logout"}, overlap |-> 2, stateful |-> FALSE,
     failOpen |-> TRUE, writeOpen |-> FALSE, snapshot |-> FALSE, redisFails |-> TRUE]
HybridChangeSite == [HybridSite EXCEPT !.ops = {"login", "change"}]
HybridFailingRevokeSite ==
    [HybridSite EXCEPT !.ops = {"login", "revoke_all"}, !.overlap = 1]
HybridRevokeSite ==
    [HybridSite EXCEPT !.ops = {"login", "refresh", "revoke_all"}, !.redisFails = FALSE]

(* Redis fails and loses its keys, and refresh must ask it. *)
ClosedSite ==
    [HybridSite EXCEPT !.ops = {"login", "refresh"}, !.failOpen = FALSE]

(* Redis fails in any part of a logout, which fails closed or open. *)
StatefulFailingSite ==
    [HybridSite EXCEPT !.ops = {"login", "logout"}, !.stateful = TRUE, !.overlap = 1]
WriteOpenSite ==
    [HybridSite EXCEPT !.ops = {"login", "logout"}, !.writeOpen = TRUE]

(* Logout against what writes session rows. *)
StatefulSite ==
    [ops |-> {"login", "refresh", "logout"}, overlap |-> 2, stateful |-> TRUE,
     failOpen |-> FALSE, writeOpen |-> FALSE, snapshot |-> FALSE, redisFails |-> FALSE]

(* Introspection against everything that changes its answer. *)
IntrospectSite ==
    [StatefulSite EXCEPT !.ops = {"login", "refresh", "introspect", "change", "delete"}]
IntrospectRevokeSite ==
    [StatefulSite EXCEPT !.ops = {"login", "refresh", "introspect", "revoke_one",
                                  "delete", "delete_me"}]

(* An engine whose plain reads repeat: three logins around a change, and    *)
(* every order of refresh, login and change or revocation, two at a time.   *)
SnapshotSite ==
    [StatefulSite EXCEPT !.ops = {"login", "change"}, !.overlap = 3, !.snapshot = TRUE]
SnapshotRefreshSite ==
    [SnapshotSite EXCEPT !.ops = {"login", "refresh", "change"}, !.overlap = 2]
SnapshotRevokeSite ==
    [SnapshotRefreshSite EXCEPT !.ops = {"login", "refresh", "revoke_all", "revoke_one"}]

Sites == {HybridSite, HybridChangeSite, HybridFailingRevokeSite,
          HybridRevokeSite, ClosedSite, StatefulFailingSite, WriteOpenSite,
          StatefulSite, IntrospectSite, IntrospectRevokeSite,
          SnapshotSite, SnapshotRefreshSite, SnapshotRevokeSite}

(* The smallest deployments of the two counterexamples. *)
RaceSites ==
    {[StatefulSite EXCEPT !.ops = {"login", "change"}, !.overlap = 3]}
LineageSites ==
    {[StatefulSite EXCEPT !.ops = {"login", "refresh", "revoke_all"}]}
=============================================================================

--------------------------- MODULE SuperuserRoster ---------------------------
(***************************************************************************)
(* What role administration promises: the set of active canonical          *)
(* superusers changes by one account at a time and, once the first account *)
(* has joined, is never emptied.                                           *)
(***************************************************************************)
CONSTANT Users

VARIABLE members

Init == members = {}

Join(u) == members' = members \cup {u}

Leave(u) ==
    /\ members \ {u} # {}
    /\ members' = members \ {u}

Next == \E u \in Users : Join(u) \/ Leave(u)

Spec == Init /\ [][Next]_members
=============================================================================

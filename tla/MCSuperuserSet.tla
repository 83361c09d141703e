--------------------------- MODULE MCSuperuserSet ---------------------------
(* Instances of SuperuserSet for TLC: accounts and requests are            *)
(* interchangeable.                                                        *)
EXTENDS SuperuserSet, TLC

Symmetry == Permutations(Users) \cup Permutations(Requests)
=============================================================================

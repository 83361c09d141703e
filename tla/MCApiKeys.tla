----------------------------- MODULE MCApiKeys -----------------------------
(* Instances of ApiKeys for TLC: keys and requests are interchangeable.    *)
EXTENDS ApiKeys, TLC

Symmetry == Permutations(Keys) \cup Permutations(Requests)
=============================================================================

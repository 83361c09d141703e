---------------------------- MODULE MCOperations ----------------------------
EXTENDS Operations, TLC

(* Requests, purges and the rows of the 1.x tables are                     *)
(* interchangeable.                                                        *)
Symmetry ==
    Permutations(Writers) \cup Permutations(Purges) \cup Permutations(Users)
        \cup Permutations(Sessions)
=============================================================================

--------------------------- MODULE MCOrigination ----------------------------
(* Origination on small instances. *)
EXTENDS Origination, TLC

(* Nothing orders accounts, applications or the slots of a kind. *)
Symmetry ==
    Permutations(Accounts) \cup Permutations(Apps) \cup Permutations(Requests)
        \cup Permutations(Links) \cup Permutations(Checkers)

(* What is not explored: two accounts completed at once after an error. *)
Explored == errors = 0 \/ Cardinality({k \in Checkers : check[k] # "none"}) <= 1
=============================================================================

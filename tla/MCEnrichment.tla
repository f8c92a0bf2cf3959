---------------------------- MODULE MCEnrichment ----------------------------
(* Enrichment on small instances. *)
EXTENDS Enrichment, TLC

(* Neither accounts, links nor workers are ordered by anything: any         *)
(* permutation of each leaves every safety property unchanged.              *)
Symmetry ==
    Permutations(Accounts) \cup Permutations(Links) \cup Permutations(Cleaners)
=============================================================================

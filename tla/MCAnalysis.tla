---------------------------- MODULE MCAnalysis ------------------------------
(* Analysis on small instances. *)
EXTENDS Analysis, TLC
=============================================================================

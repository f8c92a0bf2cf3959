---------------------------- MODULE MCDashboard -----------------------------
(* The dashboard on a small instance. *)
EXTENDS Dashboard, FiniteSets, TLC

(* Nothing orders queries, mutations, passwords, applicants or emails.  No   *)
(* area has queries with mutations or passwords with applicants: each pair   *)
(* takes the same values, and one swap serves both.                          *)
Symmetry == Permutations(Queries \cup Clicks) \cup Permutations(Passwords \cup People)
                \cup Permutations(Emails)

(* What is not explored.  In the portal: a fault with a second submission,   *)
(* and queries with a third one.                                             *)
ThirdIsPlain ==
    /\ faults = 1 => submits <= 1
    /\ submits = 3 => Queries \cap InFlight = {}

(* In the areas, what follows an answer that did not find its page: no      *)
(* property but the types says anything of it.                              *)
AnswersArrive == ~blind /\ ~astray /\ ~strayed /\ ~detached

(* Two applicants' mutations in flight whose components have both gone, and  *)
(* fetches of both review lists at once.                                     *)
OneIsLeft == Cardinality({m \in Edits : Editing(m) /\ ~edits[m].mounted}) <= 1
OneListLoads == \E l \in ListKeys : lists[l].fetch = "none"

Explored == ThirdIsPlain /\ AnswersArrive /\ OneIsLeft /\ OneListLoads
=============================================================================

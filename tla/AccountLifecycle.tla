-------------------------- MODULE AccountLifecycle --------------------------
(***************************************************************************)
(* What the enrichment pipeline promises about one bank account, without   *)
(* its webhooks, queue and scans: the values BankAccount.enrichmentStatus  *)
(* may take one after the other, and the debt of one                       *)
(* account.enrichment_ready event for every entry into READY.              *)
(***************************************************************************)
EXTENDS Integers

CONSTANT Accounts

VARIABLES
    status,   \* enrichmentStatus of each account, "NONE" while it has no row
    owed      \* entries into READY not yet announced to the fintech

lifecycle == <<status, owed>>

Statuses == {"NONE", "PENDING", "READY", "FAILED", "SCRUBBED"}

Init ==
    /\ status = [a \in Accounts |-> "NONE"]
    /\ owed = [a \in Accounts |-> 0]

(* A link or a re-link puts the account back at the start. *)
Open(a) ==
    /\ status' = [status EXCEPT ![a] = "PENDING"]
    /\ UNCHANGED owed

(* READY is entered from outside READY only, and creates one debt. *)
Complete(a) ==
    /\ status[a] \notin {"NONE", "READY"}
    /\ status' = [status EXCEPT ![a] = "READY"]
    /\ owed' = [owed EXCEPT ![a] = @ + 1]

(* The fintech is told of one entry into READY. *)
Announce(a) ==
    /\ owed[a] > 0
    /\ owed' = [owed EXCEPT ![a] = @ - 1]
    /\ UNCHANGED status

(* The code gives up on an account whatever its status is. *)
Fail(a) ==
    /\ status[a] # "NONE"
    /\ status' = [status EXCEPT ![a] = "FAILED"]
    /\ UNCHANGED owed

(* Only accounts that are READY lose their data. *)
Scrub(S) ==
    /\ S \subseteq {a \in Accounts : status[a] = "READY"}
    /\ status' = [a \in Accounts |-> IF a \in S THEN "SCRUBBED" ELSE status[a]]
    /\ UNCHANGED owed

Next ==
    \/ \E a \in Accounts : Open(a) \/ Complete(a) \/ Announce(a) \/ Fail(a)
    \/ \E S \in SUBSET Accounts : Scrub(S)

Spec == Init /\ [][Next]_lifecycle
=============================================================================

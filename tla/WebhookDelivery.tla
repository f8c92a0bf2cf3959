-------------------------- MODULE WebhookDelivery ---------------------------
(***************************************************************************)
(* Outbound webhooks: OutboundWebhookService.dispatch writes a row and     *)
(* queues a job, WebhookDeliveryProcessor posts the event and records what *)
(* came of it, BullMQ retries.  The endpoint may refuse an event, or have  *)
(* it and not be heard; calls to the database fail and the gateway         *)
(* restarts.                                                               *)
(***************************************************************************)
EXTENDS Integers

CONSTANTS
    Events,       \* events the gateway dispatches
    MaxAttempts,  \* attempts of a job of the queue "webhooks"
    MaxFaults,    \* bound: how often a call to the database fails
    MaxCrashes    \* bound: restarts

ASSUME BoundAssumption ==
    /\ MaxAttempts \in Nat \ {0}
    /\ MaxFaults \in Nat
    /\ MaxCrashes \in Nat

VARIABLES
    status, attempts,   \* the row of WebhookDelivery, "NONE" without one
    job, tries,         \* step of the job and its attemptsMade
    stalls,             \* restarts that found the job running
    received, posts,    \* history: the endpoint has had the event, requests made
    faults, crashes

row     == <<status, attempts>>
queue   == <<job, tries, stalls>>
history == <<received, posts>>
budget  == <<faults, crashes>>
vars    == <<row, queue, history, budget>>

MaxStalledCount == 1  \* BullMQ's default

(* Every run of a job records at most two outcomes. *)
MaxRuns == MaxAttempts + MaxStalledCount

TypeOK ==
    /\ status \in [Events -> {"NONE", "PENDING", "DELIVERED", "FAILED"}]
    /\ attempts \in [Events -> 0..2 * MaxRuns]
    /\ job \in [Events -> {"none", "adding", "queued", "send", "ok", "refused",
                           "error", "done", "ended", "dead", "dropped"}]
    /\ tries \in [Events -> 0..MaxAttempts - 1]
    /\ stalls \in [Events -> 0..MaxStalledCount + 1]
    /\ received \in [Events -> BOOLEAN]
    /\ posts \in [Events -> 0..MaxRuns]
    /\ faults \in 0..MaxFaults
    /\ crashes \in 0..MaxCrashes

Init ==
    /\ status = [e \in Events |-> "NONE"]
    /\ attempts = [e \in Events |-> 0]
    /\ job = [e \in Events |-> "none"]
    /\ tries = [e \in Events |-> 0]
    /\ stalls = [e \in Events |-> 0]
    /\ received = [e \in Events |-> FALSE]
    /\ posts = [e \in Events |-> 0]
    /\ faults = 0 /\ crashes = 0

Goto(e, step) == job' = [job EXCEPT ![e] = step] /\ UNCHANGED <<tries, stalls>>

Record(e, s) ==
    /\ status' = [status EXCEPT ![e] = s]
    /\ attempts' = [attempts EXCEPT ![e] = @ + 1]

-----------------------------------------------------------------------------
(* dispatch: the row first, the job next. *)

CreateDelivery(e) ==
    /\ job[e] = "none"
    /\ status[e] = "NONE"
    /\ status' = [status EXCEPT ![e] = "PENDING"]
    /\ Goto(e, "adding")
    /\ UNCHANGED <<attempts, history, budget>>

AddJob(e) ==
    /\ job[e] = "adding"
    /\ Goto(e, "queued")
    /\ UNCHANGED <<row, history, budget>>

-----------------------------------------------------------------------------
(* The processor reads the row, posts, and records the answer. *)

Start(e) ==
    /\ job[e] = "queued"
    /\ Goto(e, "send")
    /\ UNCHANGED <<row, history, budget>>

(* The event gets there and is accepted, is refused, or the answer is lost.  *)
PostArrives(e) ==
    /\ job[e] = "send"
    /\ posts' = [posts EXCEPT ![e] = @ + 1]
    /\ received' = [received EXCEPT ![e] = TRUE]
    /\ \E answer \in {"ok", "refused", "error"} : Goto(e, answer)
    /\ UNCHANGED <<row, budget>>

PostLost(e) ==
    /\ job[e] = "send"
    /\ posts' = [posts EXCEPT ![e] = @ + 1]
    /\ Goto(e, "error")
    /\ UNCHANGED <<row, received, budget>>

(* Mutant: any answer is taken for a delivery, before it has come. *)
RecordOnSend(e) ==
    \/ /\ job[e] = "send"
       /\ Record(e, "DELIVERED")
       /\ Goto(e, "done")
       /\ UNCHANGED <<history, budget>>
    \/ /\ job[e] = "refused"
       /\ Record(e, "FAILED")
       /\ Goto(e, "error")
       /\ UNCHANGED <<history, budget>>

(* A refusal is recorded, and then thrown into the catch below. *)
RecordAnswer(e) ==
    /\ \/ job[e] = "ok" /\ Record(e, "DELIVERED") /\ Goto(e, "done")
       \/ job[e] = "refused" /\ Record(e, "FAILED") /\ Goto(e, "error")
    /\ UNCHANGED <<history, budget>>

(* Mutant: attemptsMade is compared as if it counted this attempt. *)
RetryOffByOne(e) ==
    IF tries[e] < MaxAttempts
        THEN /\ job' = [job EXCEPT ![e] = "queued"]
             /\ tries' = [tries EXCEPT ![e] = @ + 1]
             /\ UNCHANGED stalls
        ELSE Goto(e, "dead")

(* Mutant: the last attempt does not end the job. *)
RetryOnly(e) ==
    /\ tries[e] < MaxAttempts - 1
    /\ job' = [job EXCEPT ![e] = "queued"]
    /\ tries' = [tries EXCEPT ![e] = @ + 1]
    /\ UNCHANGED stalls

Retry(e) ==
    IF tries[e] < MaxAttempts - 1
        THEN /\ job' = [job EXCEPT ![e] = "queued"]
             /\ tries' = [tries EXCEPT ![e] = @ + 1]
             /\ UNCHANGED stalls
        ELSE Goto(e, "dead")

(* Mutant: errors are left to the queue and not recorded. *)
RethrowOnly(e) ==
    /\ job[e] = "error"
    /\ Retry(e)
    /\ UNCHANGED <<row, history, budget>>

RecordError(e) ==
    /\ job[e] = "error"
    /\ Record(e, "FAILED")
    /\ Retry(e)
    /\ UNCHANGED <<history, budget>>

Complete(e) ==
    /\ job[e] = "done"
    /\ Goto(e, "ended")
    /\ UNCHANGED <<row, history, budget>>

-----------------------------------------------------------------------------
(* Environment *)

(* A call to the database or the queue fails: a dispatch ends without a job, *)
(* before the post the job is retried, after it the answer is lost to the    *)
(* catch, and in the catch nothing is recorded.                              *)
Fault(e) ==
    /\ faults < MaxFaults
    /\ faults' = faults + 1
    /\ \/ job[e] = "adding" /\ Goto(e, "none")
       \/ job[e] \in {"ok", "refused"} /\ Goto(e, "error")
       \/ job[e] \in {"queued", "error"} /\ Retry(e)
    /\ UNCHANGED <<row, history, crashes>>

(* A job that ran has stalled and is run again, but the second time BullMQ   *)
(* fails it and the row stays as it is; a dispatch that had not queued its   *)
(* job is gone.                                                              *)
Crash ==
    LET running == {e \in Events :
                      job[e] \in {"send", "ok", "refused", "error", "done"}}
    IN
    /\ crashes < MaxCrashes
    /\ crashes' = crashes + 1
    /\ job' = [e \in Events |->
                 CASE job[e] = "adding" -> "none"
                   [] e \in running /\ stalls[e] < MaxStalledCount -> "queued"
                   [] e \in running /\ stalls[e] >= MaxStalledCount -> "dropped"
                   [] OTHER -> job[e]]
    /\ stalls' = [e \in Events |-> IF e \in running THEN stalls[e] + 1 ELSE stalls[e]]
    /\ UNCHANGED <<row, tries, history, faults>>

-----------------------------------------------------------------------------
Step(e) ==
    \/ AddJob(e) \/ Start(e) \/ PostArrives(e) \/ PostLost(e)
    \/ RecordAnswer(e) \/ RecordError(e) \/ Complete(e)

Next ==
    \/ \E e \in Events : CreateDelivery(e) \/ Step(e) \/ Fault(e)
    \/ Crash

Spec == Init /\ [][Next]_vars

(* The gateway goes on with what it has begun, and a request ends: fetch has *)
(* no timeout of its own, but the HTTP client gives up after five minutes.   *)
FairSpec == Spec /\ \A e \in Events : WF_vars(Step(e))

-----------------------------------------------------------------------------
(* Properties *)

(* The row and the job together keep the promise: DELIVERED is written for   *)
(* events that arrived only, whatever calls fail or restarts come between,   *)
(* and nothing is sent once the job is over.  An event whose job is dropped  *)
(* is never settled.                                                         *)
Fate ==
    [e \in Events |->
        CASE status[e] = "NONE" -> "none"
          [] job[e] = "ended" -> "delivered"
          [] job[e] = "dead" -> "given_up"
          [] OTHER -> "pending"]

Promise == INSTANCE EventPromise WITH fate <- Fate

PromiseSpec == Promise!Spec

(* docs/webhooks: "if all retries are exhausted, the event is marked failed" *)
(* and, the other way, an event that is marked failed for good was refused   *)
(* or unheard.  It takes a failed call in every attempt, or a second restart *)
(* while the job runs, to leave it PENDING.                                  *)
SettledIsMarked ==
    \A e \in Events :
        /\ job[e] = "dead" => status[e] # "PENDING"
        /\ job[e] = "ended" => status[e] = "DELIVERED" /\ received[e]
        /\ status[e] = "DELIVERED" => received[e]

(* Once it is queued a job is under way until it has ended, is dead or is    *)
(* dropped; there is no way back to the dispatch.                            *)
Underway(e) == job[e] \in {"queued", "send", "ok", "refused", "error", "done"}

(* Liveness.  A queued event is delivered or given up, however the endpoint  *)
(* answers, or its job is dropped.                                           *)
QueuedIsSettled == \A e \in Events : []<>~Underway(e)

(* docs/webhooks: "Webhooks are delivered at-least-once".  Violated by a     *)
(* restart between the row and the job: nothing looks for PENDING rows.      *)
EveryEventIsPosted ==
    \A e \in Events : status[e] = "PENDING" ~> posts[e] > 0
=============================================================================

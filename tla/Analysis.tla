------------------------------ MODULE Analysis ------------------------------
(***************************************************************************)
(* The analysis of one application: POST /analyze, the queue               *)
(* "applications" with its retries, processApplication and its failure     *)
(* handler, the two manual operations of a reviewer, and the accounts      *)
(* changing underneath.  Jobs run at the same time and a handler takes a   *)
(* step per await.                                                         *)
(***************************************************************************)
EXTENDS Integers

CONSTANTS
    Accounts,     \* the applicant's bank accounts
    Jobs,         \* slots for jobs of the queue
    Reviewers,    \* slots for manual requests from the dashboard
    MaxAttempts,  \* attempts of a job
    MaxTrouble,   \* bound: how often the brain is unavailable, or a call to
                  \* the database or to a queue fails
    MaxCrashes    \* bound: restarts

ASSUME BoundAssumption ==
    /\ MaxAttempts \in Nat \ {0}
    /\ MaxTrouble \in Nat
    /\ MaxCrashes \in Nat

VARIABLES
    appStatus, ids,  \* the row of Application
    complete, ready,    \* accounts with both results stored, and those READY
    job, tries, last,   \* step of a job, attemptsMade, and whether the
                        \* worker itself calls the failure handler
    picked,             \* accounts the job has read as READY
    stalls,             \* restarts that found the job running
    review,             \* step of a manual request
    untold, heard,      \* history: the job that wrote the last outcome and has
                        \* not dispatched it; whether a job has dispatched one
    trouble, crashes

row     == <<appStatus, ids>>
data    == <<complete, ready>>
queue   == <<job, tries, last, picked, stalls>>
history == <<untold, heard>>
budget  == <<trouble, crashes>>
vars    == <<row, data, queue, review, history, budget>>

MaxStalledCount == 1  \* BullMQ's default

TypeOK ==
    /\ appStatus \in {"PENDING", "LINKED", "COMPLETED", "MANUAL_REVIEW", "FAILED"}
    /\ ids \in SUBSET Accounts
    /\ complete \in SUBSET Accounts
    /\ ready \in SUBSET complete
    /\ job \in [Jobs -> {"none", "queued", "gather", "brain", "rejected", "write",
                         "tell", "fail", "failTell"}]
    /\ tries \in [Jobs -> 0..MaxAttempts - 1]
    /\ last \in [Jobs -> BOOLEAN]
    /\ picked \in [Jobs -> SUBSET Accounts]
    /\ stalls \in [Jobs -> Nat]
    /\ review \in [Reviewers -> {"none", "decide"}]
    /\ untold \in SUBSET Jobs
    /\ heard \in [Jobs -> BOOLEAN]
    /\ trouble \in 0..MaxTrouble
    /\ crashes \in 0..MaxCrashes

(* A standalone application names no account, a linked one those linked to it. *)
Init ==
    /\ \/ appStatus = "PENDING" /\ ids = {}
       \/ appStatus = "LINKED" /\ ids \in SUBSET Accounts \ {{}}
    /\ complete = {} /\ ready = {}
    /\ job = [j \in Jobs |-> "none"]
    /\ tries = [j \in Jobs |-> 0]
    /\ last = [j \in Jobs |-> FALSE]
    /\ picked = [j \in Jobs |-> {}]
    /\ stalls = [j \in Jobs |-> 0]
    /\ review = [v \in Reviewers |-> "none"]
    /\ untold = {}
    /\ heard = [j \in Jobs |-> FALSE]
    /\ trouble = 0 /\ crashes = 0

-----------------------------------------------------------------------------
(* The job as BullMQ and its processor see it. *)

Goto(j, step) ==
    /\ job' = [job EXCEPT ![j] = step]
    /\ UNCHANGED <<tries, last, picked, stalls>>

Finish(j) ==
    /\ job' = [job EXCEPT ![j] = "none"]
    /\ tries' = [tries EXCEPT ![j] = 0]
    /\ last' = [last EXCEPT ![j] = FALSE]
    /\ picked' = [picked EXCEPT ![j] = {}]
    /\ stalls' = [stalls EXCEPT ![j] = 0]

(* Mutant: attemptsMade is compared as if it counted this attempt. *)
IsLastAttemptOffByOne(j) == tries[j] >= MaxAttempts

IsLastAttempt(j) == tries[j] >= MaxAttempts - 1

(* Mutant: the worker does not call the failure handler on the last attempt. *)
RethrowDropping(j) ==
    \/ /\ ~IsLastAttempt(j)
       /\ job' = [job EXCEPT ![j] = "queued"]
       /\ tries' = [tries EXCEPT ![j] = @ + 1]
       /\ UNCHANGED <<last, picked, stalls>>
    \/ /\ IsLastAttempt(j)
       /\ Finish(j)

(* An exception out of processApplication: the queue retries, the worker     *)
(* calls the failure handler on the last attempt, and one out of that is     *)
(* the end of the job.                                                       *)
Rethrow(j) ==
    \/ /\ ~last[j] /\ ~IsLastAttempt(j)
       /\ job' = [job EXCEPT ![j] = "queued"]
       /\ tries' = [tries EXCEPT ![j] = @ + 1]
       /\ UNCHANGED <<last, picked, stalls>>
    \/ /\ ~last[j] /\ IsLastAttempt(j)
       /\ job' = [job EXCEPT ![j] = "fail"]
       /\ last' = [last EXCEPT ![j] = TRUE]
       /\ UNCHANGED <<tries, picked, stalls>>
    \/ /\ last[j]
       /\ Finish(j)

-----------------------------------------------------------------------------
(* POST /applications/:id/analyze looks at nothing but the accounts' number. *)
Analyze(j) ==
    /\ job[j] = "none"
    /\ Accounts # {}
    /\ job' = [job EXCEPT ![j] = "queued"]
    /\ stalls' = [stalls EXCEPT ![j] = 0]
    /\ heard' = [heard EXCEPT ![j] = FALSE]
    /\ UNCHANGED <<row, data, tries, last, picked, review, untold, budget>>

Target == IF ids = {} THEN Accounts ELSE ids

(* The worker reads the application with its accounts. *)
Begin(j) ==
    /\ job[j] = "queued"
    /\ job' = [job EXCEPT ![j] = IF Target \cap ready = {} THEN "fail" ELSE "gather"]
    /\ picked' = [picked EXCEPT ![j] = Target \cap ready]
    /\ UNCHANGED <<row, data, tries, last, stalls, review, history, budget>>

(* The stored results are read again, by id and whatever the status is now:  *)
(* the brain rejects an account that lacks one.                              *)
Gather(j) ==
    /\ job[j] = "gather"
    /\ Goto(j, IF picked[j] \subseteq complete THEN "brain" ELSE "rejected")
    /\ UNCHANGED <<row, data, review, history, budget>>

BrainUnavailable(j) ==
    /\ job[j] \in {"brain", "rejected"}
    /\ trouble < MaxTrouble
    /\ trouble' = trouble + 1
    /\ Rethrow(j)
    /\ UNCHANGED <<row, data, review, history, crashes>>

BrainAnswers(j) ==
    /\ job[j] \in {"brain", "rejected"}
    /\ Goto(j, IF job[j] = "brain" THEN "write" ELSE "fail")
    /\ UNCHANGED <<row, data, review, history, budget>>

WriteDecision(j) ==
    /\ job[j] = "write"
    /\ appStatus' \in {"COMPLETED", "MANUAL_REVIEW"}
    /\ ids' = Accounts
    /\ untold' = {j}
    /\ Goto(j, "tell")
    /\ UNCHANGED <<data, review, heard, budget>>

TellDecision(j) ==
    /\ job[j] = "tell"
    /\ untold' = untold \ {j}
    /\ heard' = [heard EXCEPT ![j] = TRUE]
    /\ Finish(j)
    /\ UNCHANGED <<row, data, review, budget>>

(* handleProcessingFailure, called by processApplication or by the worker. *)
FailWrite(j) ==
    /\ job[j] = "fail"
    /\ appStatus' = "FAILED"
    /\ untold' = {j}
    /\ Goto(j, "failTell")
    /\ UNCHANGED <<ids, data, review, heard, budget>>

FailTell(j) ==
    /\ job[j] = "failTell"
    /\ untold' = untold \ {j}
    /\ heard' = [heard EXCEPT ![j] = TRUE]
    /\ Finish(j)
    /\ UNCHANGED <<row, data, review, budget>>

(* Mutant: an error is taken for the end of the job. *)
FaultEndsJob(j) ==
    /\ job[j] \in {"gather", "write", "tell", "fail", "failTell"}
    /\ trouble < MaxTrouble
    /\ trouble' = trouble + 1
    /\ Finish(j)
    /\ UNCHANGED <<row, data, review, history, crashes>>

(* A call to the database or to a queue fails before it has done anything. *)
Fault(j) ==
    /\ trouble < MaxTrouble
    /\ trouble' = trouble + 1
    /\ \/ job[j] \in {"gather", "write", "tell"} /\ Goto(j, "fail")
       \/ job[j] \in {"fail", "failTell"} /\ Rethrow(j)
    /\ UNCHANGED <<row, data, review, history, crashes>>

-----------------------------------------------------------------------------
(* manualDecision reads the row, which must be in review, and later writes   *)
(* the status, whatever it has become.                                       *)

ReviewRead(v) ==
    /\ review[v] = "none"
    /\ appStatus = "MANUAL_REVIEW"
    /\ review' = [review EXCEPT ![v] = "decide"]
    /\ UNCHANGED <<row, data, queue, history, budget>>

ManualDecision(v) ==
    /\ review[v] = "decide"
    /\ appStatus' = "COMPLETED"
    /\ review' = [review EXCEPT ![v] = "none"]
    /\ UNCHANGED <<ids, data, queue, history, budget>>

(* flagForManualReview takes any status: nothing of what it read matters.    *)
FlagForManualReview ==
    /\ Reviewers # {}
    /\ appStatus' = "MANUAL_REVIEW"
    /\ UNCHANGED <<ids, data, queue, review, history, budget>>

-----------------------------------------------------------------------------
(* Environment *)

(* Enriched; re-linked or scrubbed; failed by a late poll or the stuck scan. *)
AccountChanges(a) ==
    /\ \/ complete' = complete \cup {a} /\ ready' = ready \cup {a}
       \/ complete' = complete \ {a} /\ ready' = ready \ {a}
       \/ ready' = ready \ {a} /\ UNCHANGED complete
    /\ UNCHANGED <<row, queue, review, history, budget>>

(* The gateway restarts.  A job that waits is kept; one that ran has stalled *)
(* and is handed to a worker again, but the second time it is failed, and no *)
(* code of the gateway hears of it.                                          *)
Crash ==
    LET running == {j \in Jobs : job[j] \notin {"none", "queued"}}
        dropped == {j \in running : stalls[j] >= MaxStalledCount}
    IN
    /\ crashes < MaxCrashes
    /\ crashes' = crashes + 1
    /\ job' = [j \in Jobs |-> IF j \in dropped THEN "none"
                              ELSE IF j \in running THEN "queued" ELSE job[j]]
    /\ stalls' = [j \in Jobs |-> IF j \in running THEN stalls[j] + 1 ELSE stalls[j]]
    /\ tries' = [j \in Jobs |-> IF j \in dropped THEN 0 ELSE tries[j]]
    /\ last' = [j \in Jobs |-> FALSE]
    /\ picked' = [j \in Jobs |-> {}]
    /\ review' = [v \in Reviewers |-> "none"]
    /\ UNCHANGED <<row, data, history, trouble>>

-----------------------------------------------------------------------------
JobStep(j) ==
    \/ Begin(j) \/ Gather(j) \/ BrainAnswers(j)
    \/ WriteDecision(j) \/ TellDecision(j)
    \/ FailWrite(j) \/ FailTell(j)

Next ==
    \/ \E j \in Jobs : JobStep(j) \/ Analyze(j) \/ BrainUnavailable(j) \/ Fault(j)
    \/ \E v \in Reviewers : ReviewRead(v) \/ ManualDecision(v)
    \/ FlagForManualReview
    \/ \E a \in Accounts : AccountChanges(a)
    \/ Crash

Spec == Init /\ [][Next]_vars

(* The workers run the jobs they have; nobody else has to act. *)
FairSpec == Spec /\ \A j \in Jobs : WF_vars(JobStep(j))

-----------------------------------------------------------------------------
(* Properties *)

(* The job that wrote the application's last outcome, be it COMPLETED,       *)
(* MANUAL_REVIEW or FAILED, has dispatched it, or it is still there to       *)
(* dispatch it or to write another: through retries, failed calls, other     *)
(* jobs and a restart between the write and the dispatch.  Only a second     *)
(* restart that finds the same job running loses the event.                  *)
OutcomeIsTold == \A j \in untold : job[j] # "none" \/ stalls[j] > MaxStalledCount

(* Liveness.  An accepted analysis ends with application.decision or         *)
(* application.failed, although the brain is unavailable, calls fail and the *)
(* gateway restarts, unless the job stalls twice.  The bound is tight: as    *)
(* many troubles as attempts are survived, one more, in the last failure     *)
(* handler, loses the answer.                                                *)
AnalysisIsAnswered ==
    \A j \in Jobs : job[j] = "queued" ~> heard[j] \/ stalls[j] > MaxStalledCount

(* docs/api-reference: COMPLETED is a terminal state.  Violated when the     *)
(* dispatch fails after the decision was written, or by a second job.        *)
CompletedIsTerminal == [][appStatus = "COMPLETED" => appStatus' # "FAILED"]_vars
=============================================================================

----------------------------- MODULE Enrichment -----------------------------
(***************************************************************************)
(* Enrichment of bank accounts: the Mono webhooks that link an account and *)
(* deliver its income, the fire-and-forget trigger, the poll jobs, and the *)
(* cleanup scan.  Every await in the code is a step boundary, so a handler *)
(* is a sequence of actions and any other handler may run in between.      *)
(*                                                                         *)
(* A link webhook w \in Links names everything it causes: the insights job *)
(* it starts, the poll chain of that job and the income webhook that Mono  *)
(* sends back.  Income and insights data are represented by the link whose *)
(* analysis produced them.                                                 *)
(***************************************************************************)
EXTENDS Integers, FiniteSets

CONSTANTS
    Accounts,     \* Mono account ids
    Links,        \* deliveries of account_connected / account_updated
    Cleaners,     \* slots of the cleanup worker (concurrency 2)
    MaxPolls,     \* MAX_POLL_ATTEMPTS, 30 in the code
    MaxReauths,   \* bound: account_reauthorized webhooks in a behaviour
    MaxCrashes,   \* bound: restarts of the gateway in a behaviour
    MaxErrors,    \* bound: queries and calls that fail in the result handlers and scans
    Nil           \* SQL NULL

ASSUME NilAssumption == Nil \notin Links /\ Nil \notin Accounts
ASSUME BoundAssumption ==
    MaxPolls \in Nat /\ MaxReauths \in Nat /\ MaxCrashes \in Nat /\ MaxErrors \in Nat

VARIABLES
    \* columns of BankAccount
    status,       \* enrichmentStatus, "NONE" while the row does not exist
    sync,         \* some of the four pre-fetched columns is set
    income,       \* incomeData
    insights,     \* statementInsightsData
    insightsJob,  \* insightsJobId
    age,          \* time since updatedAt: < 120 s, < 20 min, more
    \* handlers in flight
    pc,           \* handleAccountLinked and the _triggerEnrichments it starts
    target,       \* the account a link webhook is about
    stage,        \* the income webhook and the poll job of each link
    attempt,      \* pollAttempt of the poll job of each link
    \* the cleanup scan
    scan,         \* where each worker slot is
    todo,         \* accounts it read and has not treated yet
    current,      \* account it is about to notify the fintech of
    \* history and bounds
    owed,         \* entries into READY minus account.enrichment_ready events
    reauths, crashes, errors

row   == <<status, sync, income, insights, insightsJob, age>>
link  == <<pc, target>>
data  == <<stage, attempt>>
scans == <<scan, todo, current>>
count == <<reauths, crashes, errors>>
vars  == <<row, link, data, scans, owed, count>>

Statuses == {"NONE", "PENDING", "READY", "FAILED", "SCRUBBED"}
Handlers == {"income", "poll"} \X Links

ASSUME SlotAssumption == Cleaners \cap Handlers = {}

RowTypeOK ==
    /\ status \in [Accounts -> Statuses]
    /\ sync \in [Accounts -> BOOLEAN]
    /\ income \in [Accounts -> Links \cup {Nil}]
    /\ insights \in [Accounts -> Links \cup {Nil}]
    /\ insightsJob \in [Accounts -> Links \cup {Nil}]
    /\ age \in [Accounts -> {"fresh", "settled", "stale"}]

LinkTypeOK ==
    /\ pc \in [Links -> {"idle", "reset", "create", "attach", "prefetch",
                         "insights", "enqueue", "end"}]
    /\ target \in [Links -> Accounts \cup {Nil}]

DataTypeOK ==
    /\ stage \in [Handlers -> {"waiting", "queued", "check", "notify", "done"}]
    /\ attempt \in [Links -> 0..MaxPolls]

ScanTypeOK ==
    /\ scan \in [Cleaners -> {"idle", "stuck", "alert", "recover", "tell",
                              "abandon"}]
    /\ todo \in [Cleaners -> SUBSET Accounts]
    /\ current \in [Cleaners -> Accounts \cup {Nil}]

HistoryTypeOK ==
    /\ owed \in [Accounts -> Int]
    /\ reauths \in 0..MaxReauths
    /\ crashes \in 0..MaxCrashes
    /\ errors \in 0..MaxErrors

TypeOK == RowTypeOK /\ LinkTypeOK /\ DataTypeOK /\ ScanTypeOK /\ HistoryTypeOK

Init ==
    /\ status = [a \in Accounts |-> "NONE"]
    /\ sync = [a \in Accounts |-> FALSE]
    /\ income = [a \in Accounts |-> Nil]
    /\ insights = [a \in Accounts |-> Nil]
    /\ insightsJob = [a \in Accounts |-> Nil]
    /\ age = [a \in Accounts |-> "fresh"]
    /\ pc = [w \in Links |-> "idle"]
    /\ target = [w \in Links |-> Nil]
    /\ stage = [h \in Handlers |-> "waiting"]
    /\ attempt = [w \in Links |-> 0]
    /\ scan = [c \in Cleaners |-> "idle"]
    /\ todo = [c \in Cleaners |-> {}]
    /\ current = [c \in Cleaners |-> Nil]
    /\ owed = [a \in Accounts |-> 0]
    /\ reauths = 0
    /\ crashes = 0
    /\ errors = 0

-----------------------------------------------------------------------------
(* Operations on one row. *)

(* Both asynchronous enrichments are stored. *)
HasBoth(a) == income[a] # Nil /\ insights[a] # Nil

(* Prisma sets updatedAt in every update of the row. *)
Touch(a) == age' = [age EXCEPT ![a] = "fresh"]

(* Mutant: the re-link resets the status and forgets the stored results. *)
StartRowKeepingData(a) ==
    /\ status' = [status EXCEPT ![a] = "PENDING"]
    /\ Touch(a)
    /\ UNCHANGED <<sync, income, insights, insightsJob>>

(* A row in which the enrichments start anew, by insert or by reset. *)
StartRow(a) ==
    /\ status' = [status EXCEPT ![a] = "PENDING"]
    /\ sync' = [sync EXCEPT ![a] = FALSE]
    /\ income' = [income EXCEPT ![a] = Nil]
    /\ insights' = [insights EXCEPT ![a] = Nil]
    /\ insightsJob' = [insightsJob EXCEPT ![a] = Nil]
    /\ Touch(a)

(* An unconditional write of FAILED. *)
SetFailed(a) ==
    /\ status' = [status EXCEPT ![a] = "FAILED"]
    /\ Touch(a)
    /\ UNCHANGED <<sync, income, insights, insightsJob>>

(* Mutants: one result is enough; a row that is READY already counts again. *)
ReadyOnEither(a) ==
    status[a] \notin {"NONE", "READY"} /\ (income[a] # Nil \/ insights[a] # Nil)

ReadyAgain(a) == status[a] # "NONE" /\ HasBoth(a)

(* The conditional updateMany of _checkAndFireEnrichmentReady: it counts one *)
(* row when both results are stored and the row is not READY yet.          *)
ReadyMatches(a) == status[a] \notin {"NONE", "READY"} /\ HasBoth(a)

(* Mutant: the recovery scan takes every row with complete data. *)
RecoverAny(a) == status[a] # "NONE" /\ HasBoth(a)

(* The updateMany of the recovery scan leaves out FAILED and SCRUBBED too. *)
RecoveryMatches(a) ==
    status[a] \notin {"NONE", "READY", "FAILED", "SCRUBBED"} /\ HasBoth(a)

(* History: an entry into READY owes the fintech one event. *)
SetReady(a) ==
    /\ status' = [status EXCEPT ![a] = "READY"]
    /\ owed' = [owed EXCEPT ![a] = IF status[a] = "READY" THEN @ ELSE @ + 1]
    /\ Touch(a)
    /\ UNCHANGED <<sync, income, insights, insightsJob>>

(* Mutant: only accounts whose insights job was started can be stuck. *)
StuckInPolling(a) ==
    status[a] = "PENDING" /\ age[a] = "stale" /\ insightsJob[a] # Nil

IsStuck(a) == status[a] = "PENDING" /\ age[a] = "stale"

-----------------------------------------------------------------------------
(* handleAccountLinked: read the row, write it, attach the application,    *)
(* start the enrichments without waiting for them.                         *)

LinkGoto(w, step) == pc' = [pc EXCEPT ![w] = step]

(* A payload without account or applicant is acknowledged and dropped. *)
IgnoreLink(w) ==
    /\ pc[w] = "idle"
    /\ LinkGoto(w, "end")
    /\ UNCHANGED <<row, target, data, scans, owed, count>>

IsDuplicate(a) == status[a] = "PENDING" /\ age[a] = "fresh"

ReceiveLink(w, a) ==
    /\ pc[w] = "idle"
    /\ target' = [target EXCEPT ![w] = a]
    /\ \/ status[a] = "NONE" /\ LinkGoto(w, "create")
       \/ IsDuplicate(a) /\ LinkGoto(w, "end")
       \/ status[a] # "NONE" /\ ~IsDuplicate(a) /\ LinkGoto(w, "reset")
    /\ UNCHANGED <<row, data, scans, owed, count>>

ResetAccount(w) ==
    /\ pc[w] = "reset"
    /\ StartRow(target[w])
    /\ LinkGoto(w, "attach")
    /\ UNCHANGED <<target, data, scans, owed, count>>

(* monoAccountId is unique: of two concurrent first links one insert wins. *)
CreateAccount(w) ==
    /\ pc[w] = "create"
    /\ \/ /\ status[target[w]] = "NONE"
          /\ StartRow(target[w])
          /\ LinkGoto(w, "attach")
       \/ /\ status[target[w]] # "NONE"
          /\ LinkGoto(w, "end")
          /\ UNCHANGED row
    /\ UNCHANGED <<target, data, scans, owed, count>>

(* The application row and account.linked belong to module Origination; a  *)
(* fintech without a Mono key gets no enrichment at all.                   *)
AttachApplication(w) ==
    /\ pc[w] = "attach"
    /\ \E hasMonoKey \in BOOLEAN :
          LinkGoto(w, IF hasMonoKey THEN "prefetch" ELSE "end")
    /\ UNCHANGED <<row, target, data, scans, owed, count>>

(* An error in the handler is caught and ends it where it stands; so does  *)
(* one in the detached trigger, which nobody waits for.                    *)
LinkError(w) ==
    /\ pc[w] \in {"reset", "create", "attach", "prefetch", "insights", "enqueue"}
    /\ LinkGoto(w, "end")
    /\ UNCHANGED <<row, target, data, scans, owed, count>>

(* _triggerEnrichments: four pre-fetches, any of which may fail, one write, *)
(* and the income request, whose answer comes as a webhook.                *)
Prefetch(w) ==
    /\ pc[w] = "prefetch"
    /\ \E fetched \in BOOLEAN : sync' = [sync EXCEPT ![target[w]] = fetched]
    /\ Touch(target[w])
    /\ LinkGoto(w, "insights")
    /\ UNCHANGED <<status, income, insights, insightsJob, target, data, scans,
                   owed, count>>

StartInsightsJob(w) ==
    /\ pc[w] = "insights"
    /\ insightsJob' = [insightsJob EXCEPT ![target[w]] = w]
    /\ Touch(target[w])
    /\ LinkGoto(w, "enqueue")
    /\ UNCHANGED <<status, sync, income, insights, target, data, scans,
                   owed, count>>

EnqueuePoll(w) ==
    /\ pc[w] = "enqueue"
    /\ stage' = [stage EXCEPT ![<<"poll", w>>] = "queued"]
    /\ LinkGoto(w, "end")
    /\ UNCHANGED <<row, target, attempt, scans, owed, count>>

-----------------------------------------------------------------------------
(* The two results, and the check that follows each of them.               *)

HandlerGoto(h, step) == stage' = [stage EXCEPT ![h] = step]

(* Mono may have been asked for the income of link w. *)
IncomeRequested(w) ==
    target[w] # Nil /\ pc[w] \in {"insights", "enqueue", "end"}

ReceiveIncome(w) ==
    LET a == target[w] IN
    /\ IncomeRequested(w)
    /\ stage[<<"income", w>>] = "waiting"
    /\ \/ /\ status[a] # "NONE"
          /\ income' = [income EXCEPT ![a] = w]
          /\ Touch(a)
          /\ HandlerGoto(<<"income", w>>, "check")
       \/ /\ status[a] = "NONE"
          /\ HandlerGoto(<<"income", w>>, "done")
          /\ UNCHANGED <<income, age>>
    /\ UNCHANGED <<status, sync, insights, insightsJob, link, attempt, scans,
                   owed, count>>

IsQueued(w) == stage[<<"poll", w>>] = "queued"

(* Mutants: one poll too many; the rescheduled job repeats its attempt. *)
PollsLeftOffByOne(w) == attempt[w] <= MaxPolls

PollsLeft(w) == attempt[w] < MaxPolls

PollAgainSameAttempt(w) == IsQueued(w) /\ PollsLeft(w) /\ UNCHANGED vars

(* A poll error or a pending result puts the job back with one more attempt. *)
PollAgain(w) ==
    /\ IsQueued(w)
    /\ PollsLeft(w)
    /\ attempt' = [attempt EXCEPT ![w] = @ + 1]
    /\ UNCHANGED <<row, link, stage, scans, owed, count>>

(* The job writes to the account it was started for, whatever job the       *)
(* account's insightsJobId names by now.                                    *)
PollSucceeds(w) ==
    /\ IsQueued(w)
    /\ PollsLeft(w)
    /\ insights' = [insights EXCEPT ![target[w]] = w]
    /\ Touch(target[w])
    /\ HandlerGoto(<<"poll", w>>, "check")
    /\ UNCHANGED <<status, sync, income, insightsJob, link, attempt, scans,
                   owed, count>>

(* _markFailed: it writes FAILED whatever the row holds and tells nobody. *)
MarkFailed(w) ==
    /\ SetFailed(target[w])
    /\ HandlerGoto(<<"poll", w>>, "done")
    /\ UNCHANGED <<link, attempt, scans, owed, count>>

PollReportsFailure(w) == IsQueued(w) /\ PollsLeft(w) /\ MarkFailed(w)

PollExhausted(w) == IsQueued(w) /\ ~PollsLeft(w) /\ MarkFailed(w)

(* _checkAndFireEnrichmentReady up to the count of updated rows. *)
CheckReady(h) ==
    LET a == target[h[2]] IN
    /\ stage[h] = "check"
    /\ \/ /\ ReadyMatches(a)
          /\ SetReady(a)
          /\ HandlerGoto(h, "notify")
       \/ /\ ~ReadyMatches(a)
          /\ HandlerGoto(h, "done")
          /\ UNCHANGED <<row, owed>>
    /\ UNCHANGED <<link, attempt, scans, count>>

(* account.enrichment_ready; module Origination adds the check of the       *)
(* applications that follows it.                                            *)
NotifyReady(h) ==
    LET a == target[h[2]] IN
    /\ stage[h] = "notify"
    /\ owed' = [owed EXCEPT ![a] = @ - 1]
    /\ HandlerGoto(h, "done")
    /\ UNCHANGED <<row, link, attempt, scans, count>>

(* A query, a write or the dispatch fails.  The income webhook's catch       *)
(* swallows the error and a poll job has no second attempt, so the handler   *)
(* ends: the check or the event it had still to make is not made.           *)
HandlerError(h) ==
    /\ stage[h] \in {"queued", "check", "notify"}
    /\ errors < MaxErrors
    /\ errors' = errors + 1
    /\ HandlerGoto(h, "done")
    /\ UNCHANGED <<row, link, attempt, scans, owed, reauths, crashes>>

(* The other Mono webhook about an account only moves updatedAt. *)
Reauthorise(a) ==
    /\ status[a] # "NONE"
    /\ reauths < MaxReauths
    /\ reauths' = reauths + 1
    /\ Touch(a)
    /\ UNCHANGED <<status, sync, income, insights, insightsJob, link, data,
                   scans, owed, crashes, errors>>

-----------------------------------------------------------------------------
(* The cleanup scan: each pass reads its list first and treats it later.    *)

ScanGoto(c, step) == scan' = [scan EXCEPT ![c] = step]

StartScan(c) ==
    /\ scan[c] = "idle"
    /\ todo' = [todo EXCEPT ![c] = {a \in Accounts : IsStuck(a)}]
    /\ ScanGoto(c, "stuck")
    /\ UNCHANGED <<row, link, data, current, owed, count>>

MarkStuck(c, a) ==
    /\ scan[c] = "stuck"
    /\ a \in todo[c]
    /\ SetFailed(a)
    /\ todo' = [todo EXCEPT ![c] = @ \ {a}]
    /\ current' = [current EXCEPT ![c] = a]
    /\ ScanGoto(c, "alert")
    /\ UNCHANGED <<link, data, owed, count>>

(* The dispatch of account.enrichment_failed, or its caught failure. *)
AlertFailed(c) ==
    /\ scan[c] = "alert"
    /\ current' = [current EXCEPT ![c] = Nil]
    /\ ScanGoto(c, "stuck")
    /\ UNCHANGED <<row, link, data, todo, owed, count>>

StartRecovery(c) ==
    /\ scan[c] = "stuck"
    /\ todo[c] = {}
    /\ todo' = [todo EXCEPT ![c] = {a \in Accounts : RecoveryMatches(a)}]
    /\ ScanGoto(c, "recover")
    /\ UNCHANGED <<row, link, data, current, owed, count>>

Recover(c, a) ==
    /\ scan[c] = "recover"
    /\ a \in todo[c]
    /\ todo' = [todo EXCEPT ![c] = @ \ {a}]
    /\ \/ /\ RecoveryMatches(a)
          /\ SetReady(a)
          /\ current' = [current EXCEPT ![c] = a]
          /\ ScanGoto(c, "tell")
       \/ /\ ~RecoveryMatches(a)
          /\ UNCHANGED <<row, owed, current, scan>>
    /\ UNCHANGED <<link, data, count>>

TellReady(c) ==
    /\ scan[c] = "tell"
    /\ owed' = [owed EXCEPT ![current[c]] = @ - 1]
    /\ current' = [current EXCEPT ![c] = Nil]
    /\ ScanGoto(c, "recover")
    /\ UNCHANGED <<row, link, data, todo, count>>

FinishRecovery(c) ==
    /\ scan[c] = "recover"
    /\ todo[c] = {}
    /\ ScanGoto(c, "abandon")
    /\ UNCHANGED <<row, link, data, todo, current, owed, count>>

(* abandonLinked scrubs the accounts of an abandoned applicant that are READY *)
(* at the write; which applicants are stale is state of module Origination.   *)
ScrubAccounts(c, S) ==
    /\ scan[c] = "abandon"
    /\ S \subseteq {a \in Accounts : status[a] = "READY"}
    /\ status' = [a \in Accounts |-> IF a \in S THEN "SCRUBBED" ELSE status[a]]
    /\ sync' = [a \in Accounts |-> sync[a] /\ a \notin S]
    /\ income' = [a \in Accounts |-> IF a \in S THEN Nil ELSE income[a]]
    /\ insights' = [a \in Accounts |-> IF a \in S THEN Nil ELSE insights[a]]
    /\ age' = [a \in Accounts |-> IF a \in S THEN "fresh" ELSE age[a]]
    /\ ScanGoto(c, "idle")
    /\ UNCHANGED <<insightsJob, link, data, todo, current, owed, count>>

(* A failing query ends the scan, which has no second attempt; an error at   *)
(* one account is caught, and the loop goes on with the next account.        *)
ScanError(c) ==
    /\ errors < MaxErrors
    /\ errors' = errors + 1
    /\ \/ /\ scan[c] = "stuck" /\ todo[c] = {}
          /\ ScanGoto(c, "idle")
          /\ UNCHANGED <<todo, current>>
       \/ /\ scan[c] \in {"stuck", "recover"}
          /\ \E a \in todo[c] : todo' = [todo EXCEPT ![c] = @ \ {a}]
          /\ UNCHANGED <<scan, current>>
       \/ /\ scan[c] = "tell"
          /\ current' = [current EXCEPT ![c] = Nil]
          /\ ScanGoto(c, "recover")
          /\ UNCHANGED todo
    /\ UNCHANGED <<row, link, data, owed, reauths, crashes>>

-----------------------------------------------------------------------------
(* Environment: time and restarts of the gateway. *)

TimePasses(a) ==
    /\ status[a] # "NONE"
    /\ age[a] # "stale"
    /\ age' = [age EXCEPT ![a] = IF @ = "fresh" THEN "settled" ELSE "stale"]
    /\ UNCHANGED <<status, sync, income, insights, insightsJob, link, data,
                   scans, owed, count>>

(* Handlers in memory are lost.  Redis keeps the poll jobs: one that was     *)
(* active is found stalled and run again, or dropped when it stalled before. *)
Crash ==
    /\ crashes < MaxCrashes
    /\ crashes' = crashes + 1
    /\ pc' = [w \in Links |-> IF pc[w] = "idle" THEN "idle" ELSE "end"]
    /\ \E rerun \in SUBSET Links :
          stage' = [h \in Handlers |->
                      IF stage[h] \in {"check", "notify"}
                      THEN IF h[1] = "poll" /\ h[2] \in rerun THEN "queued" ELSE "done"
                      ELSE stage[h]]
    /\ scan' = [c \in Cleaners |-> "idle"]
    /\ todo' = [c \in Cleaners |-> {}]
    /\ current' = [c \in Cleaners |-> Nil]
    /\ UNCHANGED <<row, target, attempt, owed, reauths, errors>>

-----------------------------------------------------------------------------
LinkStep(w) ==
    \/ ResetAccount(w) \/ CreateAccount(w) \/ AttachApplication(w)
    \/ Prefetch(w) \/ StartInsightsJob(w) \/ EnqueuePoll(w) \/ LinkError(w)

PollStep(w) ==
    PollAgain(w) \/ PollSucceeds(w) \/ PollReportsFailure(w) \/ PollExhausted(w)

HandlerStep(h) == CheckReady(h) \/ NotifyReady(h)

ScanStep(c) ==
    \/ StartScan(c) \/ AlertFailed(c) \/ StartRecovery(c) \/ TellReady(c)
    \/ FinishRecovery(c)
    \/ \E a \in Accounts : MarkStuck(c, a) \/ Recover(c, a)
    \/ \E S \in SUBSET Accounts : ScrubAccounts(c, S)

Next ==
    \/ \E w \in Links : IgnoreLink(w) \/ LinkStep(w) \/ ReceiveIncome(w) \/ PollStep(w)
    \/ \E w \in Links, a \in Accounts : ReceiveLink(w, a)
    \/ \E h \in Handlers : HandlerStep(h) \/ HandlerError(h)
    \/ \E c \in Cleaners : ScanStep(c) \/ ScanError(c)
    \/ \E a \in Accounts : Reauthorise(a) \/ TimePasses(a)
    \/ Crash

Spec == Init /\ [][Next]_vars

(* The gateway takes its steps, the repeatable job runs again and time       *)
(* passes.  Mono owes nothing: there is no fairness on a webhook, and a poll *)
(* may always find the job pending.                                          *)
Fairness ==
    /\ \A w \in Links : 
            WF_vars(LinkStep(w)) /\ WF_vars(PollAgain(w)) /\ WF_vars(PollExhausted(w))
    /\ \A h \in Handlers : WF_vars(HandlerStep(h))
    /\ \A c \in Cleaners : WF_vars(ScanStep(c))
    /\ \A a \in Accounts : WF_vars(TimePasses(a))

FairSpec == Spec /\ Fairness
-----------------------------------------------------------------------------
(***************************************************************************)
(* Properties                                                              *)
(***************************************************************************)

(* The processes that have made a READY and not announced it yet. *)
Announcers(a) ==
    {h \in Handlers : stage[h] = "notify" /\ target[h[2]] = a}
        \cup {c \in Cleaners : scan[c] = "tell" /\ current[c] = a}

(* An account is READY only while both the income and the insights are in    *)
(* its row, whatever re-link, late result, failure or scrub comes in between *)
(* the write of a result and the check that follows it: the analysis trusts  *)
(* READY and never looks whether the columns are set.                        *)
ReadyIsComplete == \A a \in Accounts : status[a] = "READY" => HasBoth(a)

(* Two handlers and the recovery scan may all find the data complete, but    *)
(* an entry into READY is announced by at most one of them.  Where the       *)
(* gateway is not restarted, an event is missing only for a call that failed *)
(* between the update and the dispatch, one at most for each.                *)
OneEventPerEntry ==
    \A a \in Accounts :
        /\ Cardinality(Announcers(a)) <= owed[a]
        /\ crashes = 0 => owed[a] <= Cardinality(Announcers(a)) + errors

(* PENDING accounts with both results that no handler is going to check. *)
Stranded ==
    {a \in Accounts :
        /\ status[a] = "PENDING" /\ HasBoth(a)
        /\ \A h \in Handlers : ~(stage[h] = "check" /\ target[h[2]] = a)}

(* The later of the income webhook and the poll always sees both results:    *)
(* without a restart, complete accounts are left PENDING with nobody to      *)
(* check them only by failed calls, one account at most by each; they wait   *)
(* for the recovery scan.                                                    *)
CompleteIsChecked == crashes = 0 => Cardinality(Stranded) <= errors

(* The pipeline moves enrichmentStatus only along the abstract lifecycle.    *)
Lifecycle == INSTANCE AccountLifecycle
LifecycleSpec == Lifecycle!Spec

(* No account stays PENDING for ever, whatever webhook is lost, whichever    *)
(* trigger fails and wherever the gateway restarts: the scan ends it.  To be *)
(* out of PENDING again and again is to leave it whenever it is entered.     *)
PendingIsResolved == \A a \in Accounts : []<>(status[a] # "PENDING")

(* A poll job comes to an end although every poll reschedules itself: each   *)
(* time there is one it is gone at a later time.                             *)
PollingEnds == \A w \in Links : []<>~IsQueued(w)

(* A re-link restarts the enrichment of the account, so nothing older than   *)
(* the running insights job decides that the enrichment failed.              *)
RelinkRestarts ==
    [][\A w \in Links :
          PollReportsFailure(w) \/ PollExhausted(w) => insightsJob[target[w]] = w]_vars
=============================================================================

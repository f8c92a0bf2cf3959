---------------------------- MODULE Origination -----------------------------
(***************************************************************************)
(* The loan applications of one applicant from initiation to the event     *)
(* application.ready_for_analysis, together with the scans that abandon    *)
(* them.  The accounts follow AccountLifecycle, which Enrichment           *)
(* implements; this module adds what every handler does to applications.   *)
(* A handler that awaits the database several times takes several steps.   *)
(***************************************************************************)
EXTENDS Integers, FiniteSets

CONSTANTS
    Accounts,     \* bank accounts the applicant can link
    Apps,         \* idempotency keys of the applicant's applications
    Requests,     \* slots for concurrent API requests of the fintech
    Links,        \* slots for concurrent account_connected webhooks
    Checkers,     \* slots for handlers that made an account READY
    Cleaners,     \* slots of the cleanup worker
    Aging,        \* applications that live for a day or a week
    Resends,      \* bound on counting repeated ready_for_analysis events
    MaxErrors,    \* bound: requests, handlers and scans ended by a failing call
    Nil

ASSUME NilAssumption == Nil \notin Accounts \cup Apps
ASSUME AgingAssumption == Aging \subseteq Apps
ASSUME ResendsAssumption == Resends \in Nat \ {0}
ASSUME ErrorsAssumption == MaxErrors \in Nat

VARIABLES
    status, owed,   \* the accounts, see AccountLifecycle
    \* columns of Application
    appStatus,      \* status, "NONE" while the row does not exist
    finalized,      \* linkingFinalized
    accountIds,     \* bankAccountIds
    old,            \* createdAt is more than 24 hours ago
    idle,           \* updatedAt is more than 7 days ago
    \* handlers in flight, with what they read
    req, reqApp, reqIds,
    link, linkApp,
    check, checkAcct, checkApps, checkIds,
    scan, stale, lone, known,
    \* history
    sent,           \* ready_for_analysis events since the last initiate or link
    missed,         \* who was to send ready_for_analysis was ended by an error,
                    \* or a link came behind the finalization and too late for
                    \* anybody to see it
    errors

accts == <<status, owed>>
app   == <<appStatus, finalized, accountIds, old, idle, sent>>
reqs  == <<req, reqApp, reqIds>>
links == <<link, linkApp>>
chks  == <<check, checkAcct, checkApps, checkIds>>
scans == <<scan, stale, lone, known>>
faults == <<missed, errors>>
vars  == <<accts, app, reqs, links, chks, scans, faults>>

Life == INSTANCE AccountLifecycle

AppStatuses == {"NONE", "PENDING", "PENDING_LINKING", "LINKED", "COMPLETED",
                "FAILED", "MANUAL_REVIEW", "ABANDONED"}

AppTypeOK ==
    /\ appStatus \in [Apps -> AppStatuses]
    /\ finalized \in [Apps -> BOOLEAN]
    /\ accountIds \in [Apps -> SUBSET Accounts]
    /\ old \in [Apps -> BOOLEAN]
    /\ idle \in [Apps -> BOOLEAN]
    /\ sent \in [Apps -> 0..Resends]

ReqTypeOK ==
    /\ req \in [Requests -> {"none", "create", "resume", "finalize", "confirm"}]
    /\ reqApp \in [Requests -> Apps \cup {Nil}]
    /\ reqIds \in [Requests -> SUBSET Accounts]

LinkTypeOK ==
    /\ link \in [Links -> Accounts \cup {Nil}]
    /\ linkApp \in [Links -> Apps \cup {Nil}]

CheckTypeOK ==
    /\ check \in [Checkers -> {"none", "tell", "find", "loop"}]
    /\ checkAcct \in [Checkers -> Accounts \cup {Nil}]
    /\ checkApps \in [Checkers -> SUBSET Apps]
    /\ checkIds \in [Checkers -> [Apps -> SUBSET Accounts]]

ScanTypeOK ==
    /\ scan \in [Cleaners -> {"none", "no_link", "no_analyze", "scrub"}]
    /\ stale \in [Cleaners -> SUBSET Apps]
    /\ lone \in [Cleaners -> SUBSET Apps]
    /\ known \in [Cleaners -> SUBSET Accounts]

FaultTypeOK ==
    /\ missed \in [Apps -> BOOLEAN]
    /\ errors \in 0..MaxErrors

AccountTypeOK ==
    /\ status \in [Accounts -> Life!Statuses]
    /\ owed \in [Accounts -> Int]

TypeOK ==
    /\ AccountTypeOK
    /\ AppTypeOK
    /\ ReqTypeOK
    /\ LinkTypeOK
    /\ CheckTypeOK
    /\ ScanTypeOK
    /\ FaultTypeOK

Init ==
    /\ Life!Init
    /\ appStatus = [p \in Apps |-> "NONE"]
    /\ finalized = [p \in Apps |-> FALSE]
    /\ accountIds = [p \in Apps |-> {}]
    /\ old = [p \in Apps |-> FALSE]
    /\ idle = [p \in Apps |-> FALSE]
    /\ sent = [p \in Apps |-> 0]
    /\ req = [r \in Requests |-> "none"]
    /\ reqApp = [r \in Requests |-> Nil]
    /\ reqIds = [r \in Requests |-> {}]
    /\ link = [l \in Links |-> Nil]
    /\ linkApp = [l \in Links |-> Nil]
    /\ check = [k \in Checkers |-> "none"]
    /\ checkAcct = [k \in Checkers |-> Nil]
    /\ checkApps = [k \in Checkers |-> {}]
    /\ checkIds = [k \in Checkers |-> [p \in Apps |-> {}]]
    /\ scan = [c \in Cleaners |-> "none"]
    /\ stale = [c \in Cleaners |-> {}]
    /\ lone = [c \in Cleaners |-> {}]
    /\ known = [c \in Cleaners |-> {}]
    /\ missed = [p \in Apps |-> FALSE]
    /\ errors = 0

-----------------------------------------------------------------------------
(* Operations on one application row. *)

CallFails == errors < MaxErrors /\ errors' = errors + 1

Rows == {a \in Accounts : status[a] # "NONE"}

AllReady(ids) == \A a \in ids : status[a] = "READY"

SetStatus(p, s) == appStatus' = [appStatus EXCEPT ![p] = s]

Touch(p) == idle' = [idle EXCEPT ![p] = FALSE]

(* History: whoever was to look at the applications in P is gone. *)
Misses(P) ==
    missed' = [p \in Apps |-> missed[p] \/ (p \in P /\ AllReady(accountIds[p]))]

SendReady(p) ==
    sent' = [sent EXCEPT ![p] = IF @ < Resends THEN @ + 1 ELSE @]

-----------------------------------------------------------------------------
(* POST /applications/initiate: look the key up, then create or resume.     *)

Reply(r) ==
    /\ req' = [req EXCEPT ![r] = "none"]
    /\ reqApp' = [reqApp EXCEPT ![r] = Nil]
    /\ reqIds' = [reqIds EXCEPT ![r] = {}]

ContinueWith(r, step, p, ids) ==
    /\ req' = [req EXCEPT ![r] = step]
    /\ reqApp' = [reqApp EXCEPT ![r] = p]
    /\ reqIds' = [reqIds EXCEPT ![r] = ids]

(* A LINKED, COMPLETED or FAILED application is a conflict and changes       *)
(* nothing; any other status the code does not name goes on to the insert.   *)
Initiate(r, p) ==
    /\ req[r] = "none"
    /\ \/ /\ appStatus[p] \in {"ABANDONED", "PENDING_LINKING"}
          /\ ContinueWith(r, "resume", p, {})
       \/ /\ appStatus[p] \in {"NONE", "PENDING", "MANUAL_REVIEW"}
          /\ ContinueWith(r, "create", p, {})
    /\ UNCHANGED <<accts, app, links, chks, scans, faults>>

(* The insert fails on the unique key when the row is there already. *)
InitiateCreate(r) ==
    LET p == reqApp[r] IN
    /\ req[r] = "create"
    /\ \/ appStatus[p] = "NONE" /\ SetStatus(p, "PENDING_LINKING")
       \/ appStatus[p] # "NONE" /\ UNCHANGED appStatus
    /\ Reply(r)
    /\ UNCHANGED <<accts, finalized, accountIds, old, idle, sent,
                   links, chks, scans, faults>>

(* createdAt and bankAccountIds stay as they are. *)
InitiateResume(r) ==
    LET p == reqApp[r] IN
    /\ req[r] = "resume"
    /\ SetStatus(p, "PENDING_LINKING")
    /\ finalized' = [finalized EXCEPT ![p] = FALSE]
    /\ sent' = [sent EXCEPT ![p] = 0]
    /\ missed' = [missed EXCEPT ![p] = FALSE]
    /\ Touch(p)
    /\ Reply(r)
    /\ UNCHANGED <<accts, accountIds, old, links, chks, scans, errors>>

(* POST /applications: an application for accounts linked before. *)
CreateApplication(p) ==
    /\ appStatus[p] = "NONE"
    /\ Rows # {}
    /\ SetStatus(p, "PENDING")
    /\ UNCHANGED <<accts, finalized, accountIds, old, idle, sent,
                   reqs, links, chks, scans, faults>>

-----------------------------------------------------------------------------
(* POST /applications/:id/finalize-linking: write the flag, then read the    *)
(* accounts that were on the row when the request came.                      *)

Finalizing(p) ==
    \E r \in Requests : reqApp[r] = p /\ req[r] \in {"finalize", "confirm"}

FinalizeRead(r, p) ==
    /\ req[r] = "none"
    /\ appStatus[p] = "LINKED"
    /\ accountIds[p] # {}
    /\ ContinueWith(r, "finalize", p, accountIds[p])
    /\ UNCHANGED <<accts, app, links, chks, scans, faults>>

FinalizeWrite(r) ==
    LET p == reqApp[r] IN
    /\ req[r] = "finalize"
    /\ finalized' = [finalized EXCEPT ![p] = TRUE]
    /\ Touch(p)
    /\ ContinueWith(r, "confirm", p, reqIds[r])
    /\ UNCHANGED <<accts, appStatus, accountIds, old, sent,
                   links, chks, scans, faults>>

(* Mutant: only the enrichment handlers send ready_for_analysis. *)
FinalizeQuietly(r) ==
    /\ req[r] = "confirm"
    /\ Reply(r)
    /\ UNCHANGED <<accts, app, links, chks, scans, faults>>

FinalizeConfirm(r) ==
    /\ req[r] = "confirm"
    /\ IF AllReady(reqIds[r]) THEN SendReady(reqApp[r]) ELSE UNCHANGED sent
    /\ Reply(r)
    /\ UNCHANGED <<accts, appStatus, finalized, accountIds, old, idle,
                   links, chks, scans, faults>>

(* A failing query or dispatch is answered with a 500: what the request has  *)
(* written stays, and a flag that is written is not followed by the event.   *)
RequestFails(r) ==
    /\ req[r] # "none"
    /\ CallFails
    /\ Misses(IF req[r] = "confirm" THEN {reqApp[r]} ELSE {})
    /\ Reply(r)
    /\ UNCHANGED <<accts, app, links, chks, scans>>

-----------------------------------------------------------------------------
(* account_connected: the account row first, the application row next.       *)
(* Nobody looks at linkingFinalized here.                                    *)

ReceiveLink(l, a, p) ==
    /\ link[l] = Nil
    /\ appStatus[p] # "NONE"
    /\ Life!Open(a)
    /\ link' = [link EXCEPT ![l] = a]
    /\ linkApp' = [linkApp EXCEPT ![l] = p]
    /\ UNCHANGED <<app, reqs, chks, scans, faults>>

(* The dashboard may have an account linked for the applicant alone. *)
LinkForApplicant(a) ==
    /\ Life!Open(a)
    /\ UNCHANGED <<app, reqs, links, chks, scans, faults>>

(* Mutant: the status is written and the account id is not pushed. *)
AttachWithoutId(l) ==
    LET p == linkApp[l] IN
    /\ link[l] # Nil
    /\ SetStatus(p, "LINKED")
    /\ sent' = [sent EXCEPT ![p] = 0]
    /\ Touch(p)
    /\ link' = [link EXCEPT ![l] = Nil]
    /\ linkApp' = [linkApp EXCEPT ![l] = Nil]
    /\ UNCHANGED <<accts, finalized, accountIds, old,
                   reqs, chks, scans, faults>>

(* History: the account was READY, and its handlers had looked, before it    *)
(* came to a finalized application, or the application had left LINKED.      *)
TooLate(a, p) ==
    (finalized[p] \/ Finalizing(p)) /\ (status[a] = "READY" \/ appStatus[p] # "LINKED")

(* Whatever the application's status is, it is LINKED now. *)
AttachApplication(l) ==
    LET p == linkApp[l] IN
    /\ link[l] # Nil
    /\ missed' = [missed EXCEPT ![p] = @ \/ TooLate(link[l], p)]
    /\ SetStatus(p, "LINKED")
    /\ accountIds' = [accountIds EXCEPT ![p] = @ \cup {link[l]}]
    /\ sent' = [sent EXCEPT ![p] = 0]
    /\ Touch(p)
    /\ link' = [link EXCEPT ![l] = Nil]
    /\ linkApp' = [linkApp EXCEPT ![l] = Nil]
    /\ UNCHANGED <<accts, finalized, old, reqs, chks, scans, errors>>

(* The handler ends between the two writes, by an error or a restart. *)
LinkFails(l) ==
    /\ link[l] # Nil
    /\ link' = [link EXCEPT ![l] = Nil]
    /\ linkApp' = [linkApp EXCEPT ![l] = Nil]
    /\ UNCHANGED <<accts, app, reqs, chks, scans, faults>>

-----------------------------------------------------------------------------
(* A handler that has made an account READY tells the fintech and looks for  *)
(* finalized applications that were waiting for it.                          *)

CompleteAccount(k, a) ==
    /\ check[k] = "none"
    /\ Life!Complete(a)
    /\ check' = [check EXCEPT ![k] = "tell"]
    /\ checkAcct' = [checkAcct EXCEPT ![k] = a]
    /\ UNCHANGED <<app, reqs, links, checkApps, checkIds, scans, faults>>

(* Mutant: one copy of the handler forgets the applications. *)
TellReadyOnly(k) ==
    /\ check[k] = "tell"
    /\ Life!Announce(checkAcct[k])
    /\ check' = [check EXCEPT ![k] = "none"]
    /\ checkAcct' = [checkAcct EXCEPT ![k] = Nil]
    /\ UNCHANGED <<app, reqs, links, checkApps, checkIds, scans, faults>>

TellReady(k) ==
    /\ check[k] = "tell"
    /\ Life!Announce(checkAcct[k])
    /\ check' = [check EXCEPT ![k] = "find"]
    /\ UNCHANGED <<app, reqs, links, checkAcct, checkApps, checkIds, scans, faults>>

Awaiting(a) ==
    {p \in Apps : a \in accountIds[p] /\ finalized[p] /\ appStatus[p] = "LINKED"}

FindApplications(k) ==
    /\ check[k] = "find"
    /\ checkApps' = [checkApps EXCEPT ![k] = Awaiting(checkAcct[k])]
    /\ checkIds' = [checkIds EXCEPT ![k] = accountIds]
    /\ check' = [check EXCEPT ![k] = "loop"]
    /\ UNCHANGED <<accts, app, reqs, links, checkAcct, scans, faults>>

ConfirmApplication(k, p) ==
    /\ check[k] = "loop"
    /\ p \in checkApps[k]
    /\ IF AllReady(checkIds[k][p]) THEN SendReady(p) ELSE UNCHANGED sent
    /\ checkApps' = [checkApps EXCEPT ![k] = @ \ {p}]
    /\ UNCHANGED <<accts, appStatus, finalized, accountIds, old, idle,
                   reqs, links, check, checkAcct, checkIds, scans, faults>>

EndCheck(k) ==
    /\ check[k] = "loop"
    /\ checkApps[k] = {}
    /\ check' = [check EXCEPT ![k] = "none"]
    /\ checkAcct' = [checkAcct EXCEPT ![k] = Nil]
    /\ checkIds' = [checkIds EXCEPT ![k] = [p \in Apps |-> {}]]
    /\ UNCHANGED <<accts, app, reqs, links, checkApps, scans, faults>>

(* A failing query or dispatch ends the handler, whichever of the three it   *)
(* is, with the applications it had still to find or to look at.             *)
CheckFails(k) ==
    /\ check[k] # "none"
    /\ CallFails
    /\ Misses(IF check[k] = "loop" THEN checkApps[k] ELSE Awaiting(checkAcct[k]))
    /\ check' = [check EXCEPT ![k] = "none"]
    /\ checkAcct' = [checkAcct EXCEPT ![k] = Nil]
    /\ checkApps' = [checkApps EXCEPT ![k] = {}]
    /\ checkIds' = [checkIds EXCEPT ![k] = [p \in Apps |-> {}]]
    /\ UNCHANGED <<accts, app, reqs, links, scans>>

(* The poller and the stuck scan fail an account whatever its status. *)
FailAccount(a) ==
    /\ Life!Fail(a)
    /\ UNCHANGED <<app, reqs, links, chks, scans, faults>>

-----------------------------------------------------------------------------
(* The cleanup scan, which reads each list once and then writes without      *)
(* looking again.                                                            *)

ActiveStatuses == {"PENDING_LINKING", "LINKED", "PROCESSING"}

(* Mutant: inactivity is measured from updatedAt, which a resume renews. *)
StartNoLinkByUpdate(c) ==
    /\ scan[c] = "none"
    /\ stale' = [stale EXCEPT ![c] =
                   {p \in Apps : appStatus[p] = "PENDING_LINKING" /\ idle[p]}]
    /\ scan' = [scan EXCEPT ![c] = "no_link"]
    /\ UNCHANGED <<accts, app, reqs, links, chks, lone, known, faults>>

StartNoLink(c) ==
    /\ scan[c] = "none"
    /\ stale' = [stale EXCEPT ![c] =
                   {p \in Apps : appStatus[p] = "PENDING_LINKING" /\ old[p]}]
    /\ scan' = [scan EXCEPT ![c] = "no_link"]
    /\ UNCHANGED <<accts, app, reqs, links, chks, lone, known, faults>>

AbandonNoLink(c, p) ==
    /\ scan[c] = "no_link"
    /\ p \in stale[c]
    /\ SetStatus(p, "ABANDONED")
    /\ Touch(p)
    /\ stale' = [stale EXCEPT ![c] = @ \ {p}]
    /\ UNCHANGED <<accts, finalized, accountIds, old, sent,
                   reqs, links, chks, scan, lone, known, faults>>

(* One query fetches the stale applications, the accounts and the other      *)
(* active applications of each applicant.                                    *)
StartNoAnalyze(c) ==
    LET found == {p \in Apps : appStatus[p] = "LINKED" /\ idle[p]}
        active == {p \in Apps : appStatus[p] \in ActiveStatuses}
    IN
    /\ scan[c] = "no_link"
    /\ stale[c] = {}
    /\ stale' = [stale EXCEPT ![c] = found]
    /\ lone' = [lone EXCEPT ![c] = {p \in found : active \ {p} = {}}]
    /\ known' = [known EXCEPT ![c] = Rows]
    /\ scan' = [scan EXCEPT ![c] = "no_analyze"]
    /\ UNCHANGED <<accts, app, reqs, links, chks, faults>>

AbandonNoAnalyze(c, p) ==
    /\ scan[c] = "no_analyze"
    /\ p \in stale[c]
    /\ SetStatus(p, "ABANDONED")
    /\ Touch(p)
    /\ stale' = [stale EXCEPT ![c] = @ \ {p}]
    /\ scan' = [scan EXCEPT ![c] = IF p \in lone[c] THEN "scrub" ELSE @]
    /\ UNCHANGED <<accts, finalized, accountIds, old, sent,
                   reqs, links, chks, lone, known, faults>>

ScrubAccounts(c) ==
    /\ scan[c] = "scrub"
    /\ Life!Scrub({a \in known[c] : status[a] = "READY"})
    /\ scan' = [scan EXCEPT ![c] = "no_analyze"]
    /\ UNCHANGED <<app, reqs, links, chks, stale, lone, known, faults>>

EndScan(c) ==
    /\ scan[c] = "no_analyze"
    /\ stale[c] = {}
    /\ lone' = [lone EXCEPT ![c] = {}]
    /\ known' = [known EXCEPT ![c] = {}]
    /\ scan' = [scan EXCEPT ![c] = "none"]
    /\ UNCHANGED <<accts, app, reqs, links, chks, stale, faults>>

(* A failing query ends the scan; an error at one application is caught, and *)
(* the loop goes on with the next.                                           *)
ScanFails(c) ==
    /\ CallFails
    /\ \/ /\ scan[c] \in {"no_link", "no_analyze"}
          /\ \E p \in stale[c] : stale' = [stale EXCEPT ![c] = @ \ {p}]
          /\ UNCHANGED <<scan, lone, known>>
       \/ /\ scan[c] = "no_link" /\ stale[c] = {}
          /\ scan' = [scan EXCEPT ![c] = "none"]
          /\ UNCHANGED <<stale, lone, known>>
       \/ /\ scan[c] = "scrub"
          /\ scan' = [scan EXCEPT ![c] = "no_analyze"]
          /\ UNCHANGED <<stale, lone, known>>
    /\ UNCHANGED <<accts, app, reqs, links, chks, missed>>

-----------------------------------------------------------------------------
(* The analysis and the review, neither of which looks at the status when it *)
(* writes, and time.                                                         *)

(* Mutant: the row takes the status the API answers with. *)
AnalysisWritesReply(p) ==
    /\ appStatus[p] # "NONE"
    /\ Rows # {}
    /\ SetStatus(p, "PROCESSING")
    /\ Touch(p)
    /\ UNCHANGED <<accts, finalized, accountIds, old, sent,
                   reqs, links, chks, scans, faults>>

(* The ids are those of the accounts the applicant had when the job began.   *)
AnalysisWrites(p) ==
    /\ appStatus[p] # "NONE"
    /\ \/ \E ids \in SUBSET Rows, s \in {"COMPLETED", "MANUAL_REVIEW"} :
             /\ ids # {}
             /\ SetStatus(p, s)
             /\ accountIds' = [accountIds EXCEPT ![p] = ids]
       \/ /\ Rows # {}
          /\ SetStatus(p, "FAILED")
          /\ UNCHANGED accountIds
    /\ Touch(p)
    /\ UNCHANGED <<accts, finalized, old, sent,
                   reqs, links, chks, scans, faults>>

(* Any application can be flagged for review, and one in review be decided.  *)
ReviewWrites(p) ==
    /\ appStatus[p] # "NONE"
    /\ \/ SetStatus(p, "MANUAL_REVIEW")
       \/ appStatus[p] = "MANUAL_REVIEW" /\ SetStatus(p, "COMPLETED")
    /\ Touch(p)
    /\ UNCHANGED <<accts, finalized, accountIds, old, sent,
                   reqs, links, chks, scans, faults>>

DayPasses(p) ==
    /\ p \in Aging
    /\ appStatus[p] # "NONE"
    /\ ~old[p]
    /\ old' = [old EXCEPT ![p] = TRUE]
    /\ UNCHANGED <<accts, appStatus, finalized, accountIds, idle, sent,
                   reqs, links, chks, scans, faults>>

WeekPasses(p) ==
    /\ appStatus[p] # "NONE"
    /\ p \in Aging
    /\ old[p] /\ ~idle[p]
    /\ idle' = [idle EXCEPT ![p] = TRUE]
    /\ UNCHANGED <<accts, appStatus, finalized, accountIds, old, sent,
                   reqs, links, chks, scans, faults>>

-----------------------------------------------------------------------------
RequestStep(r) ==
    \/ InitiateCreate(r) \/ InitiateResume(r)
    \/ FinalizeWrite(r) \/ FinalizeConfirm(r)

CheckStep(k) ==
    \/ TellReady(k) \/ FindApplications(k) \/ EndCheck(k)
    \/ \E p \in Apps : ConfirmApplication(k, p)

ScanStep(c) ==
    \/ StartNoLink(c) \/ StartNoAnalyze(c) \/ ScrubAccounts(c) \/ EndScan(c)
    \/ \E p \in Apps : AbandonNoLink(c, p) \/ AbandonNoAnalyze(c, p)

Next ==
    \/ \E r \in Requests : RequestStep(r) \/ RequestFails(r)
    \/ \E r \in Requests, p \in Apps : Initiate(r, p) \/ FinalizeRead(r, p)
    \/ \E l \in Links : AttachApplication(l) \/ LinkFails(l)
    \/ \E l \in Links, a \in Accounts, p \in Apps : ReceiveLink(l, a, p)
    \/ \E k \in Checkers : CheckStep(k) \/ CheckFails(k)
    \/ \E k \in Checkers, a \in Accounts : CompleteAccount(k, a)
    \/ \E a \in Accounts : LinkForApplicant(a) \/ FailAccount(a)
    \/ \E c \in Cleaners : ScanStep(c) \/ ScanFails(c)
    \/ \E p \in Apps : \/ CreateApplication(p)
                       \/ AnalysisWrites(p) \/ ReviewWrites(p)
                       \/ DayPasses(p) \/ WeekPasses(p)

Spec == Init /\ [][Next]_vars

(* The gateway finishes what it has begun, the scan runs again and time      *)
(* passes; neither the fintech nor Mono has to do anything.                  *)
Fairness ==
    /\ \A r \in Requests : WF_vars(RequestStep(r))
    /\ \A l \in Links : WF_vars(AttachApplication(l) \/ LinkFails(l))
    /\ \A k \in Checkers : WF_vars(CheckStep(k))
    /\ \A c \in Cleaners : WF_vars(ScanStep(c))
    /\ \A p \in Apps : WF_vars(DayPasses(p)) /\ WF_vars(WeekPasses(p))

FairSpec == Spec /\ Fairness

-----------------------------------------------------------------------------
(* Properties *)

(* finalizeAccountLinking needs a LINKED application with accounts: there is *)
(* no other kind, for LINKED is only ever written together with an account,  *)
(* and a finalized application keeps its accounts through abandonment,       *)
(* analysis and resumption.                                                  *)
LinkedHasAccounts ==
    \A p \in Apps : appStatus[p] = "LINKED" \/ finalized[p] => accountIds[p] # {}

(* Somebody is still going to look at application p. *)
WillConfirm(p) ==
    \/ \E r \in Requests : req[r] = "confirm" /\ reqApp[r] = p
    \/ \E k \in Checkers :
          \/ check[k] \in {"tell", "find"} /\ checkAcct[k] \in accountIds[p]
          \/ check[k] = "loop" /\ p \in checkApps[k]

(* An application whose accounts are all enriched and whose finalization the *)
(* gateway has recorded: the fintech waits for ready_for_analysis.           *)
IsReady(p) ==
    appStatus[p] = "LINKED" /\ finalized[p] /\ AllReady(accountIds[p]) /\ ~missed[p]

(* The request that finalizes and the handlers that complete the accounts    *)
(* each write first and read the other's write afterwards, so whatever the   *)
(* order, one of them sends ready_for_analysis, and an account that is       *)
(* linked behind the finalization is waited for like the others.  The event  *)
(* is lost only where a call of its sender fails, or a link comes behind the *)
(* finalization with an account that was READY before it was attached, or to *)
(* an application that was decided or abandoned meanwhile (missed).          *)
NoLostReady == \A p \in Apps : IsReady(p) => sent[p] > 0 \/ WillConfirm(p)

(* Liveness.  An application that is finalized and has nothing but enriched  *)
(* accounts is announced, or it is moved on: abandoned, decided or re-opened; *)
(* with the exceptions of NoLostReady.                                       *)
ReadyIsAnnounced == \A p \in Apps : []<>(IsReady(p) => sent[p] > 0)

(* Liveness.  However often it is resumed, no application waits for a link   *)
(* for ever: the scan abandons it, for createdAt never changes.              *)
PendingEnds == \A p \in Apps : []<>(appStatus[p] # "PENDING_LINKING")
=============================================================================

# Mono Parser in TLA+

Mono Parser decides loan applications from bank data. A fintech creates an
application over the API of the *gateway* (NestJS, PostgreSQL, BullMQ on Redis),
its applicant links bank accounts in the widget of Mono, the gateway enriches the
accounts through Mono, the *brain* (FastAPI) scores the application, and the
decision goes back to the fintech as a signed webhook. The fintech's people use a
*dashboard* (Next.js in the browser) over the same gateway. This directory models the
part of the program in which things happen at the same time: handlers that await
the database between two writes, jobs that are retried, polls that reschedule
themselves, scans that act on what they read earlier, restarts, and a browser tab
whose requests, refreshes and cached answers overlap.

Paths below are relative to `src/`; `gateway/src` is abbreviated to `g/`
and `frontend` to `f/`.

## 1. Inventory

| Component | State | Operations | Talks to |
|---|---|---|---|
| Enrichment pipeline (`g/webhooks`, `g/queues/queue.enrichment-*`) | `BankAccount`: `enrichmentStatus`, four pre-fetched columns, `incomeData`, `statementInsightsData`, `insightsJobId`, `updatedAt`; the queue `enrichments` with delayed poll jobs and a repeatable cleanup job | webhooks `account_connected`/`account_updated`, `account_income`, `account_reauthorized`; trigger; poll; cleanup of stuck accounts; recovery of missed ones | Mono (calls and webhooks), origination (same handlers), delivery |
| Origination (`g/applications/applications.service.ts`, the application half of `g/webhooks/webhook.service.ts` and of the scans) | `Application`: `status`, `linkingFinalized`, `bankAccountIds`, `createdAt`, `updatedAt` | initiate, resume, link-account, create, finalize-linking, ready check, two abandonment scans | enrichment, delivery |
| Analysis (`g/applications/applications-processor.service.ts`, `g/queues/queue.application-processor.service.ts`) | `Application`: `status`, `decision`, `bankAccountIds`; the queue `applications` | analyze, process job, last-attempt failure handler, manual decision, flag for review | brain, delivery, enrichment's rows |
| Webhook delivery (`g/queues/outbound-webhook.service.ts`, `queue.webhook-processor.service.ts`) | `WebhookDelivery`: `status`, `attempts`; the queue `webhooks` | dispatch, deliver, retry | the fintech's endpoint |
| Dashboard authentication (`g/auth`, `g/users`) | `User`: `password`, `otp`, `otpExpiry`, `isVerified`, the key; `RefreshToken`: `revoked`, `expiresAt`; the queue `emails` | sign up, resend, verify, log in, refresh, log out, request and make a password reset | email queue, dashboard client |
| Dashboard API client (`frontend/lib/api/client.ts`, `lib/store/auth`) | the persisted store: `isAuthenticated`, access token; the refresh cookie; `isRefreshing`, `failedQueue` | request, 401, refresh, replay, forced logout, reload | authentication |
| Dashboard pages (`frontend/app`, `lib/hooks/queries`) | page and form state; the query cache; mutations in flight; `mp_credentials` | sign-in pages; review queue and workspace; applicants; API key, webhook URL, Mono key; risk policy | the gateway's controllers, through the client |
| Applicants, users and keys (`g/applicants`, `g/users`) | `Applicant` with a unique email; columns of `User` | create, update, delete; rotate key, set URL, set Mono key, read profile | dashboard pages |
| Brain (`brain/app`) | none; one request in, one decision out | features, knockout rules, scoring, decision | called by analysis |
| Risk policy (`g/risk-policy`) | `RiskPolicy`: score floors, limits of the knock-out rules, caps | upsert, read | settings page; brain, through analysis |
| Mono client, AI report, email, assembly, documentation | none | — | — |

### What is hard here

* **Interleaving.** The poll result and the income webhook of one account arrive in
  two handlers, each of which stores its half and then checks whether both are there
  (`g/queues/queue.enrichment-poller.service.ts:120`,
  `g/webhooks/webhook.service.ts:282`). The same check-after-write pattern decides
  between finalize-linking and the last account of an application
  (`g/applications/applications.service.ts:205`).
* **Stale reads.** The cleanup scans read a list and write row by row later, by id and
  without looking at the status again; a poll job does not know that its account was
  re-linked; the analysis filters accounts by one read and uses their data from another.
* **Crash and restart.** Status first, event later: a restart in between loses the
  event. BullMQ runs a stalled job a second time, once, and then fails it unheard.
* **Swallowed errors.** A call that fails between the status and the event ends a handler
  whose catch logs it (`g/webhooks/webhook.service.ts:193`), a poll job that has one
  attempt, or one round of a scan's loop: no restart is needed to lose an event.
* **Retries.** A job's attempts, the last of which writes FAILED; a delivery's five
  attempts, with an answer that may be lost after the event has arrived.
* **Boundaries.** A score is a sum of five components full of thresholds, a decision
  compares it with floors that are not ordered, and a payment is rounded to the kobo
  on one side of a comparison and not on the other.
* **A cache in front of it all.** The pages show what a fetch brought at some earlier
  moment, offer buttons by it, and invalidate it when a mutation is answered; fetches and
  answers arrive in any order, and after their page has gone.
* **One refresh for many.** Access tokens expire under several requests at once, the refresh
  token rotates, and a token presented twice ends every session.
* **Liveness.** Mono may never answer, a poll may always find the job pending, a
  fintech may resume an application again and again.

`PROJECT.json` lists each of these, and the smaller ones, under "hazards" at its line.

### What makes each component correct

* Enrichment: READY means both results are stored; each entry into READY is announced
  at most once, and exactly once where nothing fails; complete data is left unchecked only
  by a failed call or a restart; PENDING ends; polling ends.
* Origination: LINKED and finalized applications have accounts; whichever of the
  finalize request and the last account comes last sends `ready_for_analysis`, also if
  that account was linked behind the finalization; nothing waits for a link for ever.
* Analysis: the last outcome that was written, a review included, has been dispatched or
  will be; an accepted analysis is answered.
* Delivery: DELIVERED means the endpoint had the event; a job that is over leaves the
  row with the status that is true of it; a queued event is settled.
* Authentication and client: a tab is signed out for a reason; every request that waits
  for a refresh is released by it; a password reset ends the sessions of older passwords.
* Pages: one verdict per review; what a page shows as current is what is stored, once its
  own writes are answered and did not overtake the fetch that brought it; the API key on display is the one that works.
* Brain: every request gets an answer; an offer is affordable and agrees with the
  tenors listed beside it; an approval is the terms asked for; more money, a cleaner
  account or a further account moves the answer only the way it should.

## 2. Modules

| Module | Models | Role |
|---|---|---|
| `AccountLifecycle` | the values `enrichmentStatus` may take, and the debt of one event per entry into READY | abstract specification |
| `Enrichment` | the enrichment pipeline, one action per step between two awaits | implements `AccountLifecycle` |
| `MCEnrichment` | Enrichment on small instances; the symmetry of its sets | model checking |
| `EnrichmentProofs` | type correctness, `ReadyIsComplete`, `OneEventPerEntry`, `CompleteIsChecked`, and that the pipeline implements the lifecycle | proofs |
| `Origination` | applications; its accounts are an instance of `AccountLifecycle` | composes with enrichment through that instance |
| `MCOrigination` | Origination on small instances | model checking |
| `OriginationProofs` | type correctness, `LinkedHasAccounts` and `NoLostReady` | proofs |
| `Analysis` | the process-application job and the reviewer | component |
| `MCAnalysis` | Analysis on small instances | model checking |
| `AnalysisProofs` | type correctness and `OutcomeIsTold` | proofs |
| `EventPromise` | what a fintech may rely on for one event | abstract specification |
| `WebhookDelivery` | dispatch, delivery row, delivery job | implements `EventPromise` |
| `MCWebhookDelivery` | WebhookDelivery on small instances | model checking |
| `WebhookDeliveryProofs` | every step of the delivery keeps the promise; type correctness and `SettledIsMarked` | proofs |
| `LoanRequest` | a request of `POST /analyze` and the policy in it | operators |
| `Knockout` | the rules of stage 1 | operators |
| `Features` | the extractor of stage 2 | operators |
| `Scoring` | the scorer of stage 3 and its amortisation | operators |
| `Decision` | gate, affordability check, review triggers, eligible tenors | operators |
| `Engine` | `AnalysisEngine.analyze`: the stages over one request | composes the five |
| `MCEngine` | Engine on a family of requests | model checking |
| `BrainLemmas` | what the brain's operators return: sums, tables of points, features, scores | lemmas |
| `EngineProofs` | type correctness and the five properties of the engine, for all requests | proofs |
| `Auth` | the gateway's auth controller and services, one action per step between two awaits | component |
| `Portal` | the sign-in pages, the API client, store and cookie of one tab, over `Auth` | composes with `Auth` |
| `QueryCache` | TanStack Query as the hooks use it: one record per key | operators, external |
| `ReviewDesk` | the review page and the two handlers behind it | component |
| `ApplicantsPage` | the applicants page and its controller | component |
| `AccountSettings` | keys and URL on the settings page, and the users controller | component |
| `PolicySettings` | the risk policy on the settings page, and its controller | component |
| `Dashboard` | a tab in one of the five areas | composes the five |
| `MCDashboard` | Dashboard on a small instance, its symmetry and what it leaves unexplored | model checking |
| `PagesProofs` | what the cache's operations keep; what the pages show is what is stored; one verdict per review | proofs |
| `PortalProofs` | type correctness of the dashboard; `RefreshIsAwaited`, `ResetEndsSessions`, `ForcedOutForCause` | proofs, over `PagesProofs` |

`Origination` does not repeat the pipeline. Its accounts take the steps of
`AccountLifecycle` (`Life!Open`, `Life!Complete`, ...), and the run `enrichment_live`
checks that the pipeline takes no others: what holds of Origination with abstract
accounts holds with the pipeline in their place. `Analysis` abstracts its accounts the
same way, to "complete" and "ready" sets that may change at any moment.

### Enrichment

`status`, `sync`, `income`, `insights`, `insightsJob` and `age` are the columns of
`BankAccount`; `age` is the time since `updatedAt` cut at the two thresholds the code
compares it with, 120 seconds (a repeated link is a duplicate) and 20 minutes (a
PENDING account is stuck). A link webhook `w` names all it causes: `pc[w]` is the
program counter of `handleAccountLinked` and of the trigger it starts without
awaiting it; `stage[<<"poll", w>>]` and `stage[<<"income", w>>]` are the poll job and
the income webhook of that link; `attempt[w]` is `pollAttempt` of the job. Stored
results are represented by the link that produced them, so a result of an earlier
link is seen as such. `scan`, `todo` and `current` are the cleanup job in each slot of
its worker: what it has read and not treated yet. `errors` counts the calls that failed
in the handlers and the scan. `owed` is history, entries into READY minus events sent.

| Code | Actions |
|---|---|
| `handleAccountLinked` | `IgnoreLink`, `ReceiveLink`, `ResetAccount` / `CreateAccount`, `AttachApplication`, `LinkError` |
| `_triggerEnrichments` | `Prefetch`, `StartInsightsJob`, `EnqueuePoll` |
| `handleAccountIncome` | `ReceiveIncome` |
| `EnrichmentPollerProcessor.process` | `PollAgain`, `PollSucceeds`, `PollReportsFailure`, `PollExhausted` |
| `_checkAndFireEnrichmentReady` (two copies) | `CheckReady`, `NotifyReady` |
| `cleanStuckEnrichments` | `StartScan`, `MarkStuck`, `AlertFailed` |
| `recoverMissedEnrichments` | `StartRecovery`, `Recover`, `TellReady`, `FinishRecovery` |
| the scrub of `abandonLinked` | `ScrubAccounts` |
| a query, a write or a dispatch fails: swallowed, or the end of a job with one attempt; one round of a loop, or the end of a scan | `HandlerError`; `ScanError` |
| clock, restart | `TimePasses`, `Crash` |

### Origination

The columns of `Application` are `appStatus`, `finalized`, `accountIds`, and the two
ages the scans compare: `old` (24 hours since `createdAt`) and `idle` (7 days since
`updatedAt`). `req`, `link`, `check` and `scan` are slots of handlers in flight with
what each has read (`reqIds`, `checkIds`, `stale`, ...): a scan writes to the
applications it read whatever became of them. `sent` counts `ready_for_analysis`
events since the application was last opened or linked. Every handler may fail at any of
its calls (`RequestFails`, `CheckFails`, `ScanFails`, `LinkFails`; `errors` bounds the
first three), and links arrive whether or not the application is finalized. `missed` is
history: whoever was to look at the application was ended by such a failure, or a link
came behind the finalization too late for anybody to look, because its account was READY
already or the application had left LINKED. `LinkForApplicant` is the branch of the link webhook without an application id, which the gateway's
`POST /mono/initiate/:applicantId` leads to: it changes an account and no application.
The analysis and the review
are one write each here (`AnalysisWrites`, `ReviewWrites`); `Analysis` has their steps.

### Analysis

`job[j]` is the step of a job of the queue `applications`, `tries[j]` its
`attemptsMade`, `last[j]` that the worker itself called the failure handler, so an
exception out of it ends the job. `picked[j]` is the set of accounts the job found
READY; `Gather` reads their data later. `untold` is the job that wrote the last outcome
and has not dispatched it, `heard[j]` that a job dispatched one. `stalls[j]` counts the
restarts that found the job running: BullMQ hands it to a worker again after the first
(`MaxStalledCount`) and fails it after the second, without the gateway's failure handler.
`ReviewRead` is the check of `manualDecision`, which writes the status a step later; the
decision object it copies is not modelled. `flagForManualReview` is one step: it takes any
status, so nothing it read earlier matters to what it writes.

### The brain

`Engine` keeps `request`, `stage` and what each stage left for the next (`features`,
`score`, `response`). Its actions are the stages; the operators they call are in the
module named after the Python file, under the names of the Python functions in
TLA+ spelling (`_score_cash_flow_health` is `ScoreCashFlowHealth`). What is abstract:

* The data of a request has the shapes of `RequestType` and the types it is made of, one
  per model of `brain/app/models.py`. The transactions of all accounts are a function of
  the account and the place in it: nothing the stages make of them depends on an order.
* Money is in thousands of naira, ratios are percentages, a date is its distance from
  today in days or, for transactions, in months. A name is the set of its tokens.
* The narration of a transaction is the set of keyword classes it matches (`salary`,
  `risky`, `bounced`, ...): which strings match is not modelled.
* Arithmetic is on integers. `Growth` raises the monthly factor in fixed point with
  `Precision` digits; a payment is rounded up and an amount down, so that a comparison
  of the two never holds by rounding alone. Component scores are whole points.
* Standard deviations compare squares where the code takes a square root.
* Risk factors, strengths, conditions and explanations are wording and are left out;
  the reasons of a review are names.

`AFFORDABILITY_CAP` is a constant: 35 is the percentage of `brain/README.md` and of
`brain/app/models.py:105`; `Nil` says that nothing binds the name, which is how
`brain/app/decision.py` stands.

### WebhookDelivery

`status`, `attempts` are the row, `job` and `tries` its job. The endpoint's answer is
`ok`, `refused` (any status that is not 2xx) or `error`; `PostArrives` allows an
`error` after the event was received, `PostLost` one before. A refusal is recorded
and thrown into the catch that records it again, as in the code. A restart puts a running
job back in the queue once; the second time the job is "dropped" and its row stays as it
is. `Fate` maps a row
and its job to the abstract promise: settled when the job is over, not when the row
says so, because a FAILED row may still be delivered by a later attempt.

### Authentication and the client

`user` and `tokens` are the two tables, `codes`, `mails` and `inbox` the codes generated,
queued and received. `calls` holds at most one request of each kind (seven forms, logout,
refresh, and the dashboard's `Queries`) with the step `at` which its handler stands; "done"
is an answer under way, "queued" a request in `failedQueue`. A request carries the
cookie and the access token it was sent with, and its answer the cookie it sets (`set`)
and the token it grants. An access token is the number of the refresh token it came with;
those below `fresh` have expired. `Portal` is the browser: `store` and `cookie` outlive a
page, `refreshing` and the queue do not (`Unloaded`), the requests' handlers at the
gateway go on (`orphan`).

| Code | Actions |
|---|---|
| `AuthService.signup`, `resendOTP`, `requestPasswordReset` | `Signup`, `Resend`, `RequestPasswordReset`, then `StoreCode`, `QueueMail` |
| `EmailProcessor` | `ProcessMail` |
| `login`, `verifyOTP`, `TokenService.generateRefreshToken` | `Login`, `VerifyOTP`, `IssueTokens` |
| `resetPassword` | `ResetPassword` (four steps) |
| `refresh`, `validateRefreshToken` | `ValidateRefreshToken`, `ReuseAlarm`, `RevokeRefreshToken`, `IssueTokens` |
| `AuthController.logout` | `Logout`, `RevokeRefreshToken` |
| the response interceptor | `StartRefresh`, `AwaitRefresh`, `RefreshDone` |
| `onSubmit`, `onSignup`, `onVerifyOtp`, ... | `SubmitLogin` ..., `SignInAnswered`, `CodeAnswered`, `ResetAnswered`, `LogoutAnswered` |
| time, F5, failures | `AccessExpires`, `SessionExpires`, `ExpireCode`, `Reload`, `ServerError`, `LoseAnswer` |

Two variables are history: `cause` says that something happened that may rightly end a
session, `late` that a session was opened by a sign-in or refresh under way while a reset
revoked the others. A request refused by the rate limiter is taken for one that failed.

### The pages

`QueryCache` is external: what a key's record may become is taken from how TanStack Query
treats `useQuery`, `staleTime` and `invalidateQueries`. A fetch is two steps, the gateway's
read (`Answered`) and its arrival (`Arrival`). An invalidation marks the data stale; for a
key on screen it also starts a fetch, which cancels the one in flight if there is data, and
joins it if there is none: a first load is never cancelled, its answer is stored and counts
as fresh. `overtaken` is history, and no step reads it: what the query holds, or is about to
hold, was read before an invalidation that let its fetch go on, either because it was the
first load or because the key was off screen. The properties of the pages go by `IsCurrent`,
fresh and not overtaken. Garbage collection of unobserved keys is
left out: it only turns data into no data.

Each page module has the page's own state, the mutations in flight as slots
(`clicks`, `edits`, `saves`, `puts`) that go from "sent" through the handler's steps at the
gateway to "ok" or "refused" and back, and the rows they write. A button that waits for
`isPending` waits only for the mutations of the component that is on screen: one that has
been unmounted and built again has forgotten them. `astray` and `detached` record that the
answer to a write was lost, so that nothing was invalidated; `blind` and `strayed` also
that an answer found its workspace, or its page, gone. From there on the code does show what
is old, and the properties are about the time before.

The areas share no query key and no row two of them write, so `Dashboard` lets a tab be in
one of them; which one is chosen at the start.

## 3. Runs

| Run | Instance | Shows |
|---|---|---|
| `enrichment_race` | 2 accounts, 2 links, 1 scan, 1 poll reschedule, 1 failed call | `TypeOK`; `ReadyIsComplete`; `OneEventPerEntry`: each entry into READY is announced by at most one process, and by exactly one but for the failed call; `CompleteIsChecked`: no PENDING account sits on complete data with nobody left to check it but for the failed call |
| `enrichment_live` | 1 account, 1 link, 2 overlapping scans, 2 reschedules, 1 reauthorisation, 1 restart, 1 failed call; fair | `LifecycleSpec`: the pipeline implements `AccountLifecycle`; `PendingIsResolved`; `PollingEnds` |
| `enrichment_stale_job` | 1 account, 2 links | `RelinkRestarts` is violated: finding 1 |
| `origination_ready` | 2 accounts, 1 application, a request, a link, 2 checkers, 1 failed call | `TypeOK`; `LinkedHasAccounts`; `NoLostReady` |
| `origination_live` | 1 account, 1 ageing application, a request, a link, a checker, a scan, 1 failed call; fair | `ReadyIsAnnounced`; `PendingEnds` |
| `analysis` | 2 jobs, 1 reviewer, 1 changing account, 2 attempts, 2 troubles, 2 restarts; fair | `TypeOK`; `OutcomeIsTold`; `AnalysisIsAnswered` |
| `analysis_overwrite` | 1 job, 1 trouble | `CompletedIsTerminal` is violated: finding 2 |
| `delivery` | 2 events, 3 attempts, 2 faults, 2 restarts; fair | `TypeOK`; `SettledIsMarked`; `PromiseSpec`: the rows and jobs implement `EventPromise`; `QueuedIsSettled` |
| `delivery_lost` | 1 event, 5 attempts, 1 restart; fair | `EveryEventIsPosted` is violated: finding 3 |
| `engine` | 14976 requests, the cap at 35% | `TypeOK`; `OfferIsAffordable`; `ApprovedIsUncontested`; `AskingMoreNeverRescues`; `CleanerAccountScoresNoLess`; `LinkingMoreNeverClears` |
| `engine_unbound` | the same, the cap unbound | `EveryRequestIsDecided` is violated: finding 4 |
| `dashboard` | one tab: 2 queries, 2 passwords, 3 submissions, 1 expiry, 1 fault in the portal; 1 application and 2 clicks; 2 applicants, 2 emails and 2 edits; 1 URL, 2 saves and 3 keys; 2 policies and 2 puts | `TypeOK`; `ForcedOutForCause`; `RefreshIsAwaited`; `ResetEndsSessions`; `OneVerdictPerReview`; `DecidedLeavesQueue`; `FreshListIsStored`; `KeyShownIsTheKey`; `FreshProfileIsStored`; `FreshPolicyIsStored` |

Each property of a passing run has a mutant in `PROJECT.json`: a definition of the
module changed the way a plausible bug would change it (`ReadyOnEither`,
`PollsLeftOffByOne`, `RethrowDropping`, ...), under which the run reports the property
violated.

### Bounds, and why they are enough

* `MaxPolls` is 30 in the code. The number decides nothing but how long a chain is:
  one reschedule separates the first, the middle and the last poll, two let a
  restart fall between them.
* `MaxAttempts` is 2 for analyses (3 in the code), a first and a last attempt, which is all
  `IsLastAttempt` tells apart; 3 for deliveries in `delivery` (5 in the code, and in
  `delivery_lost`): the first, a middle and the last.
* `MaxCrashes` = 2 for analyses and deliveries: BullMQ reruns a job that stalled once
  (`maxStalledCount` is left at its default) and fails it the second time, so the second
  restart is the one that loses a job; a third only repeats the two. It is 1 for enrichment,
  where a restart leaves it open whether a poll job is rerun or dropped.
* `MaxErrors` = 1 for enrichment and origination: one failed call ends one handler where
  it stands, and what the others make of that is all there is to see. The liveness
  properties have to hold in spite of it.
* `MaxTrouble` = `MaxAttempts` is tight for `AnalysisIsAnswered`: one more trouble, in
  the failure handler of the last attempt, leaves the job without an answer.
  `MaxFaults` < `MaxAttempts` is tight for `SettledIsMarked`: if the database fails in
  every attempt the row stays PENDING while the job is over.
* Two links, two jobs, two checkers, two scan slots: the races of this code are
  between two processes, and every race is between handlers for the same row.
* `Resends` caps the count of repeated `ready_for_analysis` events, `Aging` names the
  applications that live for a day, `MaxReauths` caps a webhook that has no bound.
* `Explored` of `MCOrigination` stops, once a call has failed, where two checkers are
  under way: what a failure takes away from one handler shows beside a finalize request
  and a link. It is a constraint of `origination_ready` alone.
* `MCRequests`: eight kinds of account (clean, overdrawn, bouncing, spending beyond
  its means, indebted, unused, young, another person's) and five that one rule alone
  refuses, by themselves or in pairs; eight bureau files, the absent one included; three
  policies, one of them with floors out of order; three amounts, two tenors, two rates.
  The 14976 requests reach all four decisions, all twelve knock-out reasons, both sides
  of the thin-file caps and scores on both sides of each floor. The properties that
  compare two requests evaluate the second one in full, so it need not be in the family.
  Deadlock is off because the brain stops after its answer.
* `dashboard` has about 760,000 states and takes a little over two minutes. Two queries are enough for a
  401 that starts a refresh and one that waits for it; three submissions for a sign-in, a
  reset and a logout, or for a form beside a sign-in. One fault with one submission: the faults that
  matter (a lost answer to a refresh, a reload in the middle of one, a reset that fails
  half-way) need no more. `ThirdIsPlain` leaves out a third submission while queries are
  in flight. In the areas two mutations in flight show every order of two writes and the
  fetches between; a third would be of a kind whose button waits, or touch another row.
  `AnswersArrive` does not explore beyond an answer that was lost or missed its page, where
  the properties of the areas say nothing, `OneIsLeft` not beyond two
  applicants' mutations in flight whose components have both gone, and `OneListLoads` not
  beyond fetches of both review lists at once. Emails, applicants, passwords and mutations are
  symmetric; applicants and passwords, which no area has both of, share their values, so
  that one permutation serves both, and so do queries and mutations.
* One request of each kind in flight, and one refresh: a form's button waits for its own
  answer; a second submission from a page that was left and opened again is not modelled.

### Fairness

Weak fairness on the steps of handlers and jobs that have begun (the event loop runs
them, BullMQ hands waiting and delayed jobs to a worker), on the repeatable cleanup
job, and on the clock. No fairness on webhooks of Mono, on requests of the fintech or
the reviewer, on a poll's result, on the endpoint's answer being good, or on a fault:
`PendingIsResolved` holds though Mono never sends anything. `WebhookDelivery` assumes
that a request ends, for `fetch` has no timeout here but its HTTP client does.
`Dashboard` states no fairness: its properties are of safety, that a request which waits
for a refresh is never without one in flight (`RefreshIsAwaited`) included.

## 4. Proofs

Checked by TLAPS for every value of the constants. The assumptions on constants are named
where the constants are declared, and TLC evaluates them on every run: `NilAssumption` and
`NullAssumption` (NULL is none of the ids, policies or numbers), `BoundAssumption`,
`BoundsAssumption`, `ResendsAssumption`, `ErrorsAssumption` (the bounds are naturals),
`AgingAssumption`, `PrecisionAssumption` (types), `DefaultAssumption` (the defaults are a
policy), `SlotAssumption` (a scan is none of the handlers), `QueriesAssumption` (a query is
none of the other calls), and of Engine: `RequestsAssumption` (a request has the type that
the gateway's DTOs and the brain's models demand; a rate, if there is one, is large enough
to show in the fixed-point growth), `CapAssumption` (the cap is a number or unbound) and
`TermsAssumption` (NULL is no offer).

Two theorems have a hypothesis, stated with ASSUME: `MaxFaults < MaxAttempts` and
`MaxTrouble <= MaxAttempts`. The runs have the same ones; what each
excludes is said below.

**Enrichment** (`EnrichmentProofs`)

* `TypeCorrect`, `Spec => []TypeOK`; `ReadyCorrect`, `Spec => []ReadyIsComplete`. Given
  the types, `ReadyIsComplete` is inductive: READY is only written by updates whose
  condition demands both results, and every write that clears a result writes another
  status in the same statement. The lemmas `Frames`, `RowWrites` and `StepWrites` say once
  what each kind of write does to each part of the type invariant.
* `EventCorrect`, `Spec => []OneEventPerEntry`. The property counts announcers, and needs
  to know that they are finite in number although links and workers may not be, and that
  whoever is about to announce or fail an account has one (`Placed`: a handler that has
  begun knows its account for good, the rows a scan is going to write exist). `EventInv`
  is the three together. The case analysis is by effect, not by action: each step leaves
  an account's announcers and debt alone, adds one of both, takes one of both, is a failed
  call that takes an announcer and leaves its debt, or is a restart that forgets announcers
  and never debt (`Changes`). Hence the two bounds: never more announcers than debt, and
  without a restart no more debt than announcers and failed calls.
* `CheckedCorrect`, `Spec => []CompleteIsChecked`: both results are in the row only after
  the step that wrote the second, which goes on to the check, and a checker leaves its place
  only by making the row something else than PENDING, by finding a result missing, or by a
  failed call. `CheckedInv` adds that the stranded accounts are finite in number: a step
  strands nobody new, or is a failed call and strands one.
* `Implements`, `Spec => LifecycleSpec`: every step is a step of `AccountLifecycle` or a
  stutter. It needs `EventInv` too: a sender may only pay a debt there is
  (`AnnouncerIsOwed`).

**Origination** (`OriginationProofs`)

* `TypeCorrect`, and `LinkedCorrect`, `Spec => []LinkedHasAccounts`. Not inductive as it
  stands: finalize-linking reads the application, checks that it is LINKED, and writes the
  flag a step later, when a scan may have abandoned it. The strengthening `IInv` adds
  `ReadHasAccounts`, that the application of a request on its way to that write has
  accounts. It rests on `AccountsStay` (no step empties a list of accounts),
  `LinkedByAttach` and `FlaggedByFinalize` (the only writers of LINKED and of the flag).
* `ReadyCorrect`, `Spec => []NoLostReady`: the request that finalizes and the handlers
  that complete accounts cannot miss each other, however many there are and whatever is
  linked meanwhile. That nobody who was under way is lost is not inductive; `ReadyInv` says
  who is under way (`WillSend`: a request about to confirm, a handler about to look for
  applications, or one that loops over what it found), and that the list of accounts it
  goes by is within that of the application (`ReadIsCurrent`): a handler that holds an
  older and longer list sends nothing. The property exempts two things the code does lose
  (`missed`, section 5): an application whose sender was ended by a failed call, and one to
  which an account came behind the finalization when nobody was going to look any more. An
  account that is linked behind the finalization and enriched later is not exempt: its
  handler finds the application, and sends.

**Analysis** (`AnalysisProofs`)

* `TypeCorrect`, and `OutcomeCorrect`, `MaxTrouble <= MaxAttempts` implies `Spec =>
  []OutcomeIsTold`: whoever wrote the last outcome, COMPLETED, MANUAL_REVIEW or FAILED, has
  told the fintech or is still there. A job gives up before it tells only in the failure
  handler of its last attempt, and `OutcomeInv` adds that each attempt it lost, and its entry
  into that handler, was paid for with a trouble (`Paid`), so none is left for the handler
  itself. The hypothesis is the tight one: a trouble in each attempt and one more in the
  last failure handler lose the event in the code. Restarts cost a job one rerun and then
  the job; the property exempts a job that BullMQ dropped.

**Webhook delivery** (`WebhookDeliveryProofs`)

* `DeliveryKeepsPromise`, `Spec => PromiseSpec`. The invariant `IInv` is the shape of the
  variables and `Honest`: where the row says DELIVERED, or the job has an answer `ok` in
  hand, the endpoint has had the event. All actions but `Crash` move one event
  (`EveryMove`), and each such move is a step of the promise or a stutter (`PromiseMove`);
  `Crash` changes no fate (`PromiseCrash`).
* `TypeCorrect`, whose bounds on posts and recorded attempts are the interesting part, and
  `SettledCorrect`, `MaxFaults < MaxAttempts` implies `Spec => []SettledIsMarked`.
  `CountInv` bounds the posts by tries and the one stall that is survived and the recorded
  attempts by twice as many, and says what leaves a row PENDING though its job has used up
  its attempts: a failed call in every one of them (`Spent`). A job dropped at its second
  stall is not "dead", and its row may be PENDING. With a failed database call for each attempt the row does stay PENDING for
  good, which is why the hypothesis cannot be weaker.

**Dashboard areas** (`PagesProofs`)

* The six properties of the areas, as theorems of `Dashboard`'s `Spec`, over what the
  cache's operations keep (`QueryOperations`, `QueryMoves`). Each rests on an invariant of
  its page, of the same shape (`PolicyInv`, `AccountInv`, `PeopleInv`, `DeskInv`): a fetch
  in flight leaves its data stale (`Fetching`); and while no answer has been lost, and unless
  a write has just been made, the query holds and is about to hold the row as it is, but for
  what a write has overtaken (`Current`). An invalidation establishes the latter whatever the
  query was: it cancels the fetch in flight or finds that it was overtaken
  (`QueryOperations`). "Fresh data is the stored row" alone is not inductive: it
  says nothing of the answer under way. For the API key the invariant adds that rotations
  exclude one another and that a key generated is the row's until it is shown. `DeskInv`
  says that the clicks the workspace knows of are at most one of a kind, hence a decision
  that has found its row in review is the first of that review.

**Portal** (`PortalProofs`)

* `TypesCorrect`, `Spec => []TypeOK` of the whole `Dashboard`: the types of the areas come
  from the invariants above, those of the portal from `SessionsOK`, which adds that the
  tokens are numbered without a gap and that calls and cookie name tokens there are.
* `AwaitedCorrect`, `Spec => []RefreshIsAwaited`: inductive once it is known that the
  refresh itself never waits, since its own 401 is not intercepted (`AwaitInv`).
* `ResetCorrect`, `Spec => []ResetEndsSessions`. Not inductive: a call that is opening a
  session brings the password it went by into the table. `ResetInv` says that such a call
  has the current password or is known to be late (`AllCurrent`), that a sign-up that
  creates a user finds none (`CreatesOnce`), and that without a user there are no sessions
  nor calls that open one (`NoneYet`). Most steps are plain: they open nothing and change
  no password (`PlainKeeps`).
* `ForcedCorrect`, `Spec => ForcedOutForCause`, the longest argument. `CauseInv` says of a
  tab with no cause to be signed out that the cookie is a live token, or a refresh has it
  in hand and is about to replace it (`CookieIsGood`); that the refresh in flight is the
  only one and is not refused (`RefreshIsGood`); that no other call carries that token
  back (`CalmCalls`); and that only a signed-in tab has queries in flight
  (`SignedInWork`).

**Engine** (`BrainLemmas`, `EngineProofs`)

* All six properties, for all requests and policies and any precision. `EngineInv` says
  that each stage hands on what it made of the one request; it is inductive as soon as it
  is written, and all the work is in what the operators compute. `AnswerCorrect` says that
  the pipeline as a whole computes `Answer`, so that a property which compares two answers
  compares what the brain would have said to two requests.
* `AffordableCorrect`, `ApprovedCorrect`: `GrowthStep` and `GrowthGrows` (a debt grows with
  every month), `FactorIs` and `FloorIs` (division), and `LargestIsLargest`, that the amount
  the solver finds is the largest whose payment fits; hence the payment of a counter offer
  is within the limit.
* `TypeCorrect`: the features that are calculated with are numbers for any request of the
  right type (`FeaturesAre`), and the clamp does the rest (`ScoreIs`). That the dictionaries
  of the extractor have no field in common, so that none overwrites another, is part of
  it (`ExtractIs`).
* `AskingMoreCorrect`: a payment grows with the amount (`AmortizeGrows`), so the one
  component of the score that sees the loan falls (`DebtServiceFalls`), and a score whose
  components all fall does not rise (`ScoreGrows`). What remains is a rejection for an
  offer too small (`RejectedAgain`): after the cap of a thin file the amount is no smaller
  and its tenor the same, so its payment is over the limit again; the largest affordable
  amount is what it was, and the smallest viable offer has doubled.
* `LinkingCorrect`: the transactions of one account are among those of all of them, by an
  injection of places, so the marks of one are no more than the marks of all
  (`FewerAlone`); every other rule looks at one account at a time (`EachAccount`).
* `CleanerCorrect`: a request with one transaction's marks removed has the same incomes and
  statements (`Kin`) and the same transactions but for balances and marks (`Alike`).
  Whatever is picked, summed and averaged is therefore the same, and of all the features
  three counts fall (`CleanedFeatures`). The tables of points fall with them
  (`PointsFall`, `FewerMarksScoreMore`).
* Induction is done without an induction theorem, whose operator parameter the provers
  cannot instantiate: `Minimum` gives the least number of a nonempty set of naturals, taken
  from the set of the counterexamples. That is how the recursive function of `Growth` is
  shown to exist and to grow (`GrowthExists`), and how `SumFunction`, the fold of the
  community modules, is shown to be a recursive function on the subsets of its domain
  (`SumIs`), from which its type and its monotonicity follow (`SumGrows`).

Only model-checked: all liveness (`PendingIsResolved`, `PollingEnds`, `ReadyIsAnnounced`,
`PendingEnds`, `AnalysisIsAnswered`, `QueuedIsSettled`), which is out of the prover's
reach. Every safety property of a passing run is a theorem.

## 5. Findings

1. **A stale poll job fails a re-linked account** (`enrichment_stale_job`). The job of
   an earlier link does not compare its job id with `insightsJobId`; it marks the
   restarted account FAILED (`g/queues/queue.enrichment-poller.service.ts:74`). The webhook
   guide promises that re-linking restarts the enrichment.
2. **COMPLETED becomes FAILED** (`analysis_overwrite`). The dispatch of the decision is in
   the same `try` as its write (`g/applications/applications-processor.service.ts:138`).
   The API reference calls COMPLETED terminal.
3. **An event is lost between its row and its job** (`delivery_lost`). Nothing looks for
   PENDING rows without a job (`g/queues/outbound-webhook.service.ts:38`). The guide
   promises at-least-once delivery.
4. **No request is decided** (`engine_unbound`). `AFFORDABILITY_CAP` is read and never
   bound (`brain/app/decision.py:50`), so each request that passes the knock-out rules
   ends in a `NameError` and a 500. The policy's own `affordability_cap` appears in a log
   line only. The brain's README says the payment is capped by it.

### Divergences seen while modelling, without a run of their own

The models have the behaviour of the code in each of these; no property is stated.

* A poll job that fails marks the account FAILED and dispatches nothing, and the stuck
  scan only looks at PENDING accounts
  (`g/queues/queue.enrichment-poller.service.ts:109`), while
  `frontend/app/docs/integration-flow/page.tsx:103-104` asks to handle the failure event
  "or applicants will reach a silent dead end with no way forward".
* A failed call after the income was stored is logged and dropped
  (`g/webhooks/webhook.service.ts:193`), and the poll job, which ends in the same check, has
  one attempt (`g/queues/queue.module.ts:85`). Between the READY update and the dispatch this
  loses `account.enrichment_ready` and, with it, the look at the waiting applications; a
  finalize request that fails after its flag is written loses `ready_for_analysis` likewise,
  which `frontend/app/docs/api-reference/page.tsx:141-143` promises "when all enrichment is
  confirmed complete". Before the update it leaves a complete account PENDING until the next
  recovery scan.
* A link webhook writes LINKED whatever the status is (`g/webhooks/webhook.service.ts:133`);
  `frontend/app/docs/api-reference/page.tsx:125-126`: "You cannot re-link accounts after a
  final decision has been issued."
* It attaches to a finalized application (`g/webhooks/webhook.service.ts:130`);
  `frontend/app/docs/api-reference/page.tsx:140-141`: finalize-linking "locks the
  application from further account linking". An account that is READY before it is attached
  there is announced by nobody; and one that comes between the read and the write of the
  finalize request is not among those the request looks at, so `ready_for_analysis` may be
  sent while it is PENDING (`g/applications/applications.service.ts:210`).
* A job that two restarts find running is failed by BullMQ, and no code listens for that: an
  analysis leaves its application without an answer, a delivery its row PENDING
  (`g/queues/queue.application-processor.service.ts:29`, `g/queues/queue.webhook-processor.service.ts:95`).
* A write does not cancel the first load of the list, queue, profile or policy that it
  invalidates, whose older answer then counts as fresh for the stale time
  (`frontend/lib/hooks/queries/use-applicant.ts:22`, `use-application-action.ts:10`,
  `use-risk-policy.ts:15`); the hooks invalidate so that it would not.
* The no_link scan compares `createdAt`, which a resume leaves alone
  (`g/queues/queue.enrichment-cleanup.service.ts:103`), so a resumed application is
  abandoned again by the next scan, although the event invites the fintech to resume.
* `POST /analyze` looks at neither the status nor `linkingFinalized`
  (`g/applications/applications.controller.ts:55-57`);
  `frontend/app/docs/webhooks/page.tsx:228`: "A failed application cannot be
  re-analyzed", `frontend/app/docs/notes-for-fintechs/page.tsx:12`: "Calling /analyze
  before finalize-linking will return a 400 error."
* A refused delivery counts twice (`g/queues/queue.webhook-processor.service.ts:68` and
  the catch), so five refusals are recorded as ten attempts;
  `frontend/app/docs/webhooks/page.tsx:26-27` speaks of five.
* Two handlers that complete the last two accounts both find all of them READY and both
  send `ready_for_analysis` (`g/webhooks/webhook.service.ts:351`);
  `frontend/app/docs/webhooks/page.tsx:143-144`: "this fires once per application".
* A scan updates by id what its query found earlier, so an application that was linked
  in between is abandoned as `no_link`
  (`g/queues/queue.enrichment-cleanup.service.ts:121`);
  `frontend/app/docs/webhooks/page.tsx:252-253`: "The applicant did not link any bank
  account within 24 hours".
* A manual-review score whose payment exceeds the cap becomes COUNTER_OFFER
  (`brain/app/decision.py:207`); `frontend/app/docs/score-bands/page.tsx:29`: "Sent to a
  human underwriter before a decision is issued."
* The review triggers change an APPROVED only (`brain/app/decision.py:243-285`), while
  `frontend/app/docs/score-bands/page.tsx:119` says that "when any of these fire" the
  decision is MANUAL_REVIEW.
* A COUNTER_OFFER within the cap carries `approval_details` and no `counter_offer`;
  `frontend/app/docs/decision-object/page.tsx:21-22` ties each field to its decision.
* `eligible_tenors` is filled for a rejection of the gate too, and ignores the amount cap
  of a thin file (`brain/app/decision.py:351`);
  `frontend/app/docs/decision-object/page.tsx:23`: "Empty when decision is REJECTED."
* The rate is annual in `brain/app/scoring.py:415`, monthly in
  `frontend/app/docs/decision-object/page.tsx:58`.
* The averages of the statement insights, which the comment at
  `brain/app/scoring.py:248-250` says inform the surplus ratio, reach no feature; the debit
  ratio is that of the first account that has one (`brain/app/features.py:254`), so it
  depends on the order of the accounts.
* The form of the risk policy is filled with the row that GET returns, `id`, `fintechId` and
  dates included (`frontend/app/dashboard/settings/page.tsx:440`), and the gateway refuses a body
  with a field its DTO does not list (`g/main.ts:28-32`): a policy that was saved once is refused with
  a 400 whenever it is changed on a later visit. The page says "your custom thresholds will
  be applied" (`frontend/app/dashboard/settings/page.tsx:488`). Turning the toggle off tells the gateway
  nothing, while the page then says "Using defaults".
* Two reviewers, or one whose workspace has been unmounted while a decision was in flight,
  can both decide an application: the check and the update of `manualDecision` are two
  statements (`g/applications/applications.service.ts:326`).
* A logout with an expired access token is refused by the guard and not retried, so the
  refresh token lives on (`g/auth/auth.controller.ts:126`); the tab is signed out all the same.
* A password reset that fails between its first and its last write leaves the old sessions
  alive, and the code usable again if its second write failed (`g/auth/auth.service.ts:220`).
* A verification that is interrupted after `verifyEmail` leaves a verified account without an
  API key and without a code to verify again (`g/auth/auth.service.ts:91`).
* Two tabs share the cookie and not `isRefreshing`: both refresh, and the second one's token
  has been revoked, which the gateway takes for theft.

## 6. What is not modelled

* A second browser tab or a second user of the same fintech: what two tabs do to each other
  is described above; each area has one.
* The home and applications pages and the AI report only read; the home page's queries are
  among those of `Portal`. `useWebSocket` is used by no page. The review's route of its own,
  `frontend/app/dashboard/review/[applicationId]/page.tsx`, mounts `ReviewWorkspace` with its decide
  and flag buttons and no list: its clicks are the mutations of `ReviewDesk`, and it is not
  modelled as a page beside it.
* The guards of the API keys: a row is read and the request let through or not. Deletion of
  an applicant under running jobs is left out: the models of the pipeline keep every row.
* A second poll chain: if the gateway stops after a poll rescheduled itself and before
  BullMQ recorded its completion, the rerun reschedules once more.
* `bankAccountIds` is a list in the database and a set here: the code only asks for
  membership and emptiness of it.
* The refresh of stale balances and transactions before an analysis: no status depends
  on it.
* Restarts in `Origination`: its handlers may fail at any call, which ends them where they
  stand as a restart would, one at a time; restarts are in the three other modules.
* Mono, Redis, PostgreSQL, the email provider and the language model are the
  environment. Each Prisma statement is atomic; the code uses no transaction.
* Rate limits, validation of request bodies, signatures and wording.

## 7. Plan

Modules in order, most important first; the first seven are done, the last two are not.

1. `AccountLifecycle`, `Enrichment`, then `Origination` over it: the path of every
   application.
2. `Analysis`: the decision and its event.
3. `EventPromise`, `WebhookDelivery`: how every event leaves.
4. First proofs: types, `ReadyIsComplete`, `LinkedHasAccounts`, `PromiseSpec`.
5. `LoanRequest`, `Knockout`, `Features`, `Scoring`, `Decision`, `Engine`: the pure part,
   as operators over bounded inputs.
6. `Auth`, `Portal`: tokens, their rotation and the resets under the client's refresh; then
   the four areas over `QueryCache`, and `Dashboard`.
7. Proofs (done): every safety property of the runs, and both refinements.
8. A composition of Origination with the stored data of accounts, for the scrub of an
   applicant's accounts while another application becomes active
   (`g/queues/queue.enrichment-cleanup.service.ts:304`).
9. A second tab: two clients with one cookie, and two reviewers of one queue.

A run asks one question of one system. The dashboard's areas are one run because none of
them acts on another's state, and the safety and the liveness of `Analysis` are one because
they fit into one instance.

-------------------------- MODULE EnrichmentProofs --------------------------
(* Of Enrichment, for any number of accounts, links and workers and for all  *)
(* bounds: type correctness; READY accounts are complete; an entry into      *)
(* READY is announced at most once, and not at all only for a failed call or *)
(* a restart; complete accounts are checked but for the failed calls; and    *)
(* the pipeline implements AccountLifecycle.                                 *)
EXTENDS Enrichment, FiniteSetTheorems, TLAPS

(* Every variable starts in its type. *)
LEMMA InitTypeOK == Init => TypeOK
  BY NilAssumption, BoundAssumption
     DEF Init, TypeOK, RowTypeOK, LinkTypeOK, DataTypeOK, ScanTypeOK,
         HistoryTypeOK, Statuses, Handlers

(* Counting one down keeps a function of integers one. *)
LEMMA CountDown ==
  ASSUME NEW S, NEW f \in [S -> Int], NEW x
  PROVE  [f EXCEPT ![x] = f[x] - 1] \in [S -> Int]
<1> DEFINE g == [f EXCEPT ![x] = f[x] - 1]
<1>1. g = [y \in S |-> IF y = x THEN f[x] - 1 ELSE f[y]]
  OBVIOUS
<1>2. \A y \in S : g[y] \in Int
  BY <1>1
<1> QED
  BY <1>1, <1>2

(* A step that leaves a group of variables alone leaves its type alone. *)
LEMMA Frames ==
  /\ RowTypeOK /\ UNCHANGED row => RowTypeOK'
  /\ LinkTypeOK /\ UNCHANGED link => LinkTypeOK'
  /\ DataTypeOK /\ UNCHANGED data => DataTypeOK'
  /\ ScanTypeOK /\ UNCHANGED scans => ScanTypeOK'
  /\ HistoryTypeOK /\ UNCHANGED <<owed, count>> => HistoryTypeOK'
BY DEF RowTypeOK, LinkTypeOK, DataTypeOK, ScanTypeOK, HistoryTypeOK,
       row, link, data, scans, count

(* The three writes of enrichmentStatus keep the row well typed. *)
LEMMA RowWrites ==
  ASSUME RowTypeOK, NEW a
  PROVE  /\ StartRow(a) => RowTypeOK'
         /\ SetFailed(a) => RowTypeOK'
         /\ SetReady(a) => RowTypeOK'
<1> USE NilAssumption DEF RowTypeOK, Statuses, Touch
<1>1. StartRow(a) => RowTypeOK'
  BY DEF StartRow
<1>2. SetFailed(a) => RowTypeOK'
  BY DEF SetFailed
<1>3. SetReady(a) => RowTypeOK'
  BY DEF SetReady
<1> QED
  BY <1>1, <1>2, <1>3

(* Moving a handler, a link or a scan to its next step keeps its type. *)
LEMMA StepWrites ==
  /\ \A w, p : LinkTypeOK /\ LinkGoto(w, p) /\ UNCHANGED target
       /\ p \in {"attach", "prefetch", "insights", "enqueue", "end"} => LinkTypeOK'
  /\ \A h, p : DataTypeOK /\ HandlerGoto(h, p) /\ UNCHANGED attempt
       /\ p \in {"queued", "check", "notify", "done"} => DataTypeOK'
BY DEF LinkTypeOK, DataTypeOK, LinkGoto, HandlerGoto

(* No step of a handler, a worker or the environment leaves the types. *)
LEMMA LinkTypeStep ==
  ASSUME TypeOK, NEW w \in Links, IgnoreLink(w) \/ LinkStep(w)
  PROVE  TypeOK'
<1> USE Frames, StepWrites DEF TypeOK
<1>1. CASE IgnoreLink(w)
  BY <1>1 DEF IgnoreLink
<1>2. CASE \E a : StartRow(a) /\ UNCHANGED <<target, data, scans, owed, count>>
                  /\ LinkGoto(w, "attach")
  <2>1. HistoryTypeOK'
    BY <1>2 DEF HistoryTypeOK, StartRow, count
  <2> QED
    BY <1>2, <2>1, RowWrites
<1>3. CASE CreateAccount(w) /\ UNCHANGED row
  BY <1>3 DEF CreateAccount, count, StartRow, LinkTypeOK, LinkGoto
<1>4. CASE AttachApplication(w)
  BY <1>4 DEF AttachApplication
<1>5. CASE Prefetch(w)
  <2>1. RowTypeOK'
    BY <1>5 DEF Prefetch, RowTypeOK, Touch
  <2> QED
    BY <1>5, <2>1 DEF Prefetch
<1>6. CASE StartInsightsJob(w)
  <2>1. RowTypeOK'
    BY <1>6 DEF StartInsightsJob, RowTypeOK, Touch
  <2> QED
    BY <1>6, <2>1 DEF StartInsightsJob
<1>7. CASE EnqueuePoll(w)
  <2>1. DataTypeOK'
    BY <1>7 DEF EnqueuePoll, DataTypeOK
  <2> QED
    BY <1>7, <2>1 DEF EnqueuePoll
<1>8. CASE LinkError(w)
  BY <1>8 DEF LinkError
<1> QED
  BY <1>1, <1>2, <1>3, <1>4, <1>5, <1>6, <1>7, <1>8
     DEF LinkStep, ResetAccount, CreateAccount

LEMMA ReceiveTypeStep ==
  ASSUME TypeOK, NEW w \in Links,
         ReceiveIncome(w) \/ \E a \in Accounts : ReceiveLink(w, a)
  PROVE  TypeOK'
<1> USE Frames, StepWrites DEF TypeOK
<1>1. CASE ReceiveIncome(w)
  <2>1. RowTypeOK'
    BY <1>1 DEF ReceiveIncome, RowTypeOK, Touch
  <2>2. DataTypeOK'
    BY <1>1 DEF ReceiveIncome
  <2> QED
    BY <1>1, <2>1, <2>2 DEF ReceiveIncome
<1>2. ASSUME NEW a \in Accounts, ReceiveLink(w, a) PROVE TypeOK'
  <2>1. LinkTypeOK'
    BY <1>2 DEF ReceiveLink, LinkTypeOK, LinkGoto
  <2> QED
    BY <1>2, <2>1 DEF ReceiveLink
<1> QED
  BY <1>1, <1>2

LEMMA PollTypeStep ==
  ASSUME TypeOK, NEW w \in Links, PollStep(w)
  PROVE  TypeOK'
<1> USE Frames, StepWrites DEF TypeOK
<1>1. CASE PollAgain(w)
  <2>1. DataTypeOK'
    BY <1>1, BoundAssumption DEF PollAgain, PollsLeft, DataTypeOK
  <2> QED
    BY <1>1, <2>1 DEF PollAgain
<1>2. CASE PollSucceeds(w)
  <2>1. RowTypeOK'
    BY <1>2 DEF PollSucceeds, RowTypeOK, Touch
  <2> QED
    BY <1>2, <2>1 DEF PollSucceeds
<1>3. CASE MarkFailed(w)
  BY <1>3, RowWrites DEF MarkFailed
<1> QED
  BY <1>1, <1>2, <1>3 DEF PollStep, PollReportsFailure, PollExhausted

LEMMA HandlerTypeStep ==
  ASSUME TypeOK, NEW h \in Handlers, HandlerStep(h)
  PROVE  TypeOK'
<1> USE Frames, StepWrites DEF TypeOK
<1>1. CASE CheckReady(h)
  <2>1. RowTypeOK'
    BY <1>1, RowWrites DEF CheckReady
  <2>2. HistoryTypeOK'
    BY <1>1 DEF CheckReady, HistoryTypeOK, SetReady, count
  <2> QED
    BY <1>1, <2>1, <2>2 DEF CheckReady
<1>2. CASE NotifyReady(h)
  <2>1. HistoryTypeOK'
    BY <1>2, CountDown DEF NotifyReady, HistoryTypeOK, count
  <2> QED
    BY <1>2, <2>1 DEF NotifyReady
<1> QED
  BY <1>1, <1>2 DEF HandlerStep

LEMMA ScanTypeStep ==
  ASSUME TypeOK, NEW c \in Cleaners, ScanStep(c)
  PROVE  TypeOK'
<1> USE Frames DEF TypeOK
<1>1. ScanTypeOK'
  BY DEF ScanStep, StartScan, MarkStuck, AlertFailed, StartRecovery, Recover,
         TellReady, FinishRecovery, ScrubAccounts, ScanGoto, ScanTypeOK
<1>2. CASE StartScan(c) \/ StartRecovery(c) \/ FinishRecovery(c)
  BY <1>1, <1>2 DEF StartScan, StartRecovery, FinishRecovery
<1>3. CASE AlertFailed(c)
  <2>1. HistoryTypeOK'
    BY <1>3 DEF AlertFailed, HistoryTypeOK, count
  <2> QED
    BY <1>1, <1>3, <2>1 DEF AlertFailed
<1>4. CASE TellReady(c)
  <2>1. HistoryTypeOK'
    BY <1>4, CountDown DEF TellReady, HistoryTypeOK, count
  <2> QED
    BY <1>1, <1>4, <2>1 DEF TellReady
<1>5. ASSUME NEW a \in Accounts, MarkStuck(c, a) PROVE TypeOK'
  BY <1>1, <1>5, RowWrites DEF MarkStuck
<1>6. ASSUME NEW a \in Accounts, Recover(c, a) PROVE TypeOK'
  <2>1. RowTypeOK'
    BY <1>6, RowWrites DEF Recover
  <2>2. HistoryTypeOK'
    BY <1>6 DEF Recover, HistoryTypeOK, SetReady, count
  <2> QED
    BY <1>1, <1>6, <2>1, <2>2 DEF Recover
<1>7. ASSUME NEW S \in SUBSET Accounts, ScrubAccounts(c, S) PROVE TypeOK'
  <2>1. RowTypeOK'
    BY <1>7 DEF ScrubAccounts, RowTypeOK, Statuses
  <2> QED
    BY <1>1, <1>7, <2>1 DEF ScrubAccounts
<1> QED
  BY <1>2, <1>3, <1>4, <1>5, <1>6, <1>7 DEF ScanStep

LEMMA NextTypeOK == TypeOK /\ [Next]_vars => TypeOK'
<1> SUFFICES ASSUME TypeOK, [Next]_vars PROVE TypeOK'
  OBVIOUS
<1>1. ASSUME NEW a \in Accounts, Reauthorise(a) \/ TimePasses(a) PROVE TypeOK'
  <2>1. RowTypeOK'
    BY <1>1 DEF Reauthorise, TimePasses, TypeOK, RowTypeOK, Touch
  <2>2. HistoryTypeOK'
    BY <1>1, BoundAssumption
       DEF Reauthorise, TimePasses, TypeOK, HistoryTypeOK, count
  <2> QED
    BY <1>1, <2>1, <2>2, Frames DEF Reauthorise, TimePasses, TypeOK
<1>2. CASE Crash
  <2>1. LinkTypeOK'
    BY <1>2 DEF Crash, TypeOK, LinkTypeOK
  <2>2. DataTypeOK'
    BY <1>2 DEF Crash, TypeOK, DataTypeOK
  <2>3. ScanTypeOK'
    BY <1>2 DEF Crash, TypeOK, ScanTypeOK
  <2>4. HistoryTypeOK'
    BY <1>2, BoundAssumption DEF Crash, TypeOK, HistoryTypeOK
  <2> QED
    BY <1>2, <2>1, <2>2, <2>3, <2>4, Frames DEF Crash, TypeOK
<1>3. CASE UNCHANGED vars
  BY <1>3, Frames DEF vars, TypeOK
<1>4. ASSUME NEW h \in Handlers, HandlerError(h) PROVE TypeOK'
  <2>1. DataTypeOK'
    BY <1>4, StepWrites DEF HandlerError, TypeOK
  <2>2. HistoryTypeOK'
    BY <1>4, BoundAssumption DEF HandlerError, TypeOK, HistoryTypeOK
  <2> QED
    BY <1>4, <2>1, <2>2, Frames DEF HandlerError, TypeOK
<1>5. ASSUME NEW c \in Cleaners, ScanError(c) PROVE TypeOK'
  <2>1. ScanTypeOK'
    BY <1>5 DEF ScanError, ScanGoto, TypeOK, ScanTypeOK
  <2>2. HistoryTypeOK'
    BY <1>5, BoundAssumption DEF ScanError, TypeOK, HistoryTypeOK
  <2> QED
    BY <1>5, <2>1, <2>2, Frames DEF ScanError, TypeOK
<1> QED
  BY <1>1, <1>2, <1>3, <1>4, <1>5, LinkTypeStep, ReceiveTypeStep, PollTypeStep,
     HandlerTypeStep, ScanTypeStep DEF Next

(* Every reachable state is well typed. *)
THEOREM TypeCorrect == Spec => []TypeOK
  BY InitTypeOK, NextTypeOK, PTL DEF Spec

-----------------------------------------------------------------------------
(* READY is written only by the conditional update, which demands both       *)
(* results; they are cleared only together with a change of the status, and  *)
(* no late write of a result clears anything.                                *)
LEMMA NextReadyIsComplete ==
  TypeOK /\ ReadyIsComplete /\ [Next]_vars => ReadyIsComplete'
<1> SUFFICES ASSUME TypeOK, ReadyIsComplete, [Next]_vars,
                    NEW b \in Accounts, status'[b] = "READY"
             PROVE  income'[b] # Nil /\ insights'[b] # Nil
  BY DEF ReadyIsComplete, HasBoth
<1> USE NilAssumption DEF TypeOK, RowTypeOK, ReadyIsComplete, HasBoth
<1>1. CASE UNCHANGED row
  BY <1>1 DEF row
<1>2. CASE UNCHANGED <<status, income, insights>>
  BY <1>2
<1>3. ASSUME NEW x, StartRow(x) PROVE income'[b] # Nil /\ insights'[b] # Nil
  <2>1. b # x
    BY <1>3 DEF StartRow
  <2> QED
    BY <1>3, <2>1 DEF StartRow
<1>4. ASSUME NEW x, SetFailed(x) PROVE income'[b] # Nil /\ insights'[b] # Nil
  <2>1. b # x
    BY <1>4 DEF SetFailed
  <2> QED
    BY <1>4, <2>1 DEF SetFailed
<1>5. ASSUME NEW x, HasBoth(x), SetReady(x)
      PROVE  income'[b] # Nil /\ insights'[b] # Nil
  BY <1>5 DEF SetReady
<1>6. ASSUME NEW w \in Links, ReceiveIncome(w)
      PROVE  income'[b] # Nil /\ insights'[b] # Nil
  BY <1>6 DEF ReceiveIncome
<1>7. ASSUME NEW w \in Links, PollSucceeds(w)
      PROVE  income'[b] # Nil /\ insights'[b] # Nil
  BY <1>7 DEF PollSucceeds
<1>8. ASSUME NEW c \in Cleaners, NEW S \in SUBSET Accounts, ScrubAccounts(c, S)
      PROVE  income'[b] # Nil /\ insights'[b] # Nil
  <2>1. b \notin S
    BY <1>8 DEF ScrubAccounts
  <2> QED
    BY <1>8, <2>1 DEF ScrubAccounts
<1>9. ASSUME NEW w \in Links, IgnoreLink(w) \/ LinkStep(w)
      PROVE  income'[b] # Nil /\ insights'[b] # Nil
  <2>1. (\E x : StartRow(x)) \/ UNCHANGED <<status, income, insights>>
    BY <1>9 DEF IgnoreLink, LinkStep, ResetAccount, CreateAccount, AttachApplication,
                Prefetch, StartInsightsJob, EnqueuePoll, LinkError, row
  <2> QED
    BY <1>2, <1>3, <2>1
<1>10. ASSUME NEW w \in Links, PollStep(w)
       PROVE  income'[b] # Nil /\ insights'[b] # Nil
  <2>1. PollSucceeds(w) \/ (\E x : SetFailed(x)) \/ UNCHANGED row
    BY <1>10 DEF PollStep, PollAgain, PollReportsFailure, PollExhausted, MarkFailed
  <2> QED
    BY <1>1, <1>4, <1>7, <1>10, <2>1
<1>11. ASSUME NEW h \in Handlers, HandlerStep(h)
       PROVE  income'[b] # Nil /\ insights'[b] # Nil
  <2>1. (\E x : HasBoth(x) /\ SetReady(x)) \/ UNCHANGED row
    BY <1>11 DEF HandlerStep, CheckReady, NotifyReady, ReadyMatches
  <2> QED
    BY <1>1, <1>5, <2>1
<1>12. ASSUME NEW c \in Cleaners, ScanStep(c)
       PROVE  income'[b] # Nil /\ insights'[b] # Nil
  <2>1. \/ UNCHANGED row
        \/ \E x : SetFailed(x)
        \/ \E x : HasBoth(x) /\ SetReady(x)
        \/ \E S \in SUBSET Accounts : ScrubAccounts(c, S)
    BY <1>12 DEF ScanStep, StartScan, AlertFailed, StartRecovery, TellReady,
                 FinishRecovery, MarkStuck, Recover, RecoveryMatches
  <2> QED
    BY <1>1, <1>4, <1>5, <1>8, <2>1
<1>13. ASSUME NEW a \in Accounts,
              Reauthorise(a) \/ TimePasses(a) \/ \E w \in Links : ReceiveLink(w, a)
       PROVE  income'[b] # Nil /\ insights'[b] # Nil
  BY <1>2, <1>13 DEF Reauthorise, TimePasses, ReceiveLink, row
<1>14. CASE Crash
  BY <1>1, <1>14 DEF Crash
<1>15. CASE UNCHANGED vars
  BY <1>1, <1>15 DEF vars
<1>16. ASSUME (\E h \in Handlers : HandlerError(h)) \/ (\E c \in Cleaners : ScanError(c))
       PROVE  income'[b] # Nil /\ insights'[b] # Nil
  BY <1>1, <1>16 DEF HandlerError, ScanError
<1> QED
  BY <1>16, <1>6, <1>9, <1>10, <1>11, <1>12, <1>13, <1>14, <1>15 DEF Next

(* The analysis may rely on READY: in every reachable state a READY account  *)
(* has its income and its insights.                                          *)
THEOREM ReadyCorrect == Spec => []ReadyIsComplete
<1>1. Init => ReadyIsComplete
  BY DEF Init, ReadyIsComplete
<1> QED
  BY <1>1, TypeCorrect, NextReadyIsComplete, PTL DEF Spec

-----------------------------------------------------------------------------
(* What a step finds of the row it is going to write: a handler that has     *)
(* begun knows its account and never another one, and the rows that are to   *)
(* be failed or announced exist.                                             *)
LinkPlaced(w) ==
    /\ pc[w] \notin {"idle", "end"} => target[w] \in Accounts
    /\ pc[w] \notin {"idle", "create", "end"} => status[target[w]] # "NONE"

HandlerPlaced(h) ==
    /\ stage[h] # "waiting" => pc[h[2]] # "idle" /\ target[h[2]] \in Accounts
    /\ h[1] = "poll" /\ stage[h] # "waiting" => pc[h[2]] = "end"
    /\ stage[h] \in {"queued", "check", "notify"} => status[target[h[2]]] # "NONE"

ScanPlaced(c) ==
    /\ scan[c] = "tell" => current[c] \in Accounts
    /\ \A a \in todo[c] : status[a] # "NONE"

Placed ==
    /\ \A w \in Links : LinkPlaced(w)
    /\ \A h \in Handlers : HandlerPlaced(h)
    /\ \A c \in Cleaners : ScanPlaced(c)

(* What a step may do to the status of an account and to its debt of events. *)
StatusMove ==
    \/ UNCHANGED <<status, owed>>
    \/ \E w \in Links : /\ pc[w] \in {"reset", "create"}
                         /\ StartRow(target[w]) /\ UNCHANGED owed
    \/ \E w \in Links : IsQueued(w) /\ SetFailed(target[w]) /\ UNCHANGED owed
    \/ \E c \in Cleaners : \E a \in todo[c] : SetFailed(a) /\ UNCHANGED owed
    \/ \E h \in Handlers : /\ stage[h] = "check" /\ ReadyMatches(target[h[2]])
                            /\ SetReady(target[h[2]])
    \/ \E a \in Accounts : RecoveryMatches(a) /\ SetReady(a)
    \/ \E h \in Handlers : NotifyReady(h)
    \/ \E c \in Cleaners : TellReady(c)
    \/ \E c \in Cleaners, S \in SUBSET Accounts : ScrubAccounts(c, S)

LEMMA StatusMoves == [Next]_vars => StatusMove
<1> SUFFICES ASSUME [Next]_vars PROVE StatusMove
  OBVIOUS
<1>1. ASSUME NEW w \in Links, IgnoreLink(w) \/ LinkStep(w) \/ ReceiveIncome(w) \/ PollStep(w)
      PROVE  StatusMove
  <2>1. \/ UNCHANGED <<status, owed>>
        \/ pc[w] \in {"reset", "create"} /\ StartRow(target[w]) /\ UNCHANGED owed
        \/ IsQueued(w) /\ SetFailed(target[w]) /\ UNCHANGED owed
    BY <1>1 DEF IgnoreLink, LinkStep, ResetAccount, CreateAccount, AttachApplication,
                Prefetch, StartInsightsJob, EnqueuePoll, LinkError, ReceiveIncome,
                PollStep, PollAgain, PollSucceeds, PollReportsFailure, PollExhausted,
                MarkFailed, row
  <2> QED
    BY <2>1 DEF StatusMove
<1>2. ASSUME NEW h \in Handlers, HandlerStep(h) PROVE StatusMove
  <2>1. \/ UNCHANGED <<status, owed>>
        \/ /\ stage[h] = "check" /\ ReadyMatches(target[h[2]])
           /\ SetReady(target[h[2]])
        \/ NotifyReady(h)
    BY <1>2 DEF HandlerStep, CheckReady, row
  <2> QED
    BY <2>1 DEF StatusMove
<1>3. ASSUME NEW c \in Cleaners, ScanStep(c) PROVE StatusMove
  <2>1. \/ UNCHANGED <<status, owed>>
        \/ \E a \in todo[c] : SetFailed(a) /\ UNCHANGED owed
        \/ \E a \in Accounts : RecoveryMatches(a) /\ SetReady(a)
        \/ TellReady(c)
        \/ \E S \in SUBSET Accounts : ScrubAccounts(c, S)
    BY <1>3 DEF ScanStep, StartScan, AlertFailed, StartRecovery, FinishRecovery,
                MarkStuck, Recover, row
  <2> QED
    BY <2>1 DEF StatusMove
<1>4. CASE UNCHANGED <<status, owed>>
  BY <1>4 DEF StatusMove
<1>5. ASSUME NEW a \in Accounts,
             Reauthorise(a) \/ TimePasses(a) \/ \E w \in Links : ReceiveLink(w, a)
      PROVE  StatusMove
  BY <1>4, <1>5 DEF Reauthorise, TimePasses, ReceiveLink, row
<1>6. CASE Crash \/ UNCHANGED vars
  BY <1>4, <1>6 DEF Crash, vars, row
<1>7. ASSUME NEW h \in Handlers, HandlerError(h) PROVE StatusMove
  BY <1>4, <1>7 DEF HandlerError, row
<1>8. ASSUME NEW c \in Cleaners, ScanError(c) PROVE StatusMove
  BY <1>4, <1>8 DEF ScanError, row
<1> QED
  BY <1>1, <1>2, <1>3, <1>5, <1>6, <1>7, <1>8 DEF Next

(* A row is never deleted. *)
LEMMA RowsStay ==
  ASSUME TypeOK, [Next]_vars, NEW a \in Accounts, status[a] # "NONE"
  PROVE  status'[a] # "NONE"
BY StatusMoves
   DEF StatusMove, StartRow, SetFailed, SetReady, NotifyReady, TellReady, ScrubAccounts,
       row, TypeOK, RowTypeOK

(* The link webhooks move one at a time, but for a restart. *)
LEMMA LinkMoves ==
  [Next]_vars =>
    \/ UNCHANGED link
    \/ \E w \in Links : IgnoreLink(w) \/ LinkStep(w)
    \/ \E w \in Links, a \in Accounts : ReceiveLink(w, a)
    \/ Crash
BY DEF Next, vars, ReceiveIncome, PollStep, PollAgain, PollSucceeds,
       PollReportsFailure, PollExhausted, MarkFailed, HandlerStep, CheckReady,
       NotifyReady, ScanStep, StartScan, AlertFailed, StartRecovery, TellReady,
       FinishRecovery, MarkStuck, Recover, ScrubAccounts, Reauthorise, TimePasses,
       HandlerError, ScanError

(* A link webhook that has begun neither begins again nor changes its mind. *)
StillLinking(w) ==
    pc'[w] # "idle" /\ target'[w] = target[w] /\ (pc[w] = "end" => pc'[w] = "end")

LEMMA LinksStay ==
  ASSUME TypeOK, [Next]_vars, NEW w \in Links, pc[w] # "idle"
  PROVE  StillLinking(w)
<1> USE DEF StillLinking, TypeOK, LinkTypeOK, LinkGoto
<1>1. CASE UNCHANGED link
  BY <1>1 DEF link
<1>2. ASSUME NEW v \in Links, IgnoreLink(v) \/ LinkStep(v)
      PROVE  StillLinking(w)
  BY <1>2 DEF IgnoreLink, LinkStep, ResetAccount, CreateAccount, AttachApplication,
              Prefetch, StartInsightsJob, EnqueuePoll, LinkError
<1>3. ASSUME NEW v \in Links, NEW a \in Accounts, ReceiveLink(v, a)
      PROVE  StillLinking(w)
  BY <1>3 DEF ReceiveLink
<1>4. CASE Crash
  BY <1>4 DEF Crash
<1> QED
  BY <1>1, <1>2, <1>3, <1>4, LinkMoves

LEMMA LinkPlacedStep ==
  ASSUME TypeOK, Placed, [Next]_vars, NEW w \in Links
  PROVE  LinkPlaced(w)'
<1> USE DEF TypeOK, LinkTypeOK, LinkPlaced, LinkGoto
<1>0. LinkPlaced(w)
  BY DEF Placed
<1>1. CASE pc'[w] = pc[w] /\ target'[w] = target[w]
  BY <1>0, <1>1, RowsStay
<1>2. CASE IgnoreLink(w) \/ LinkStep(w)
  <2>1. pc[w] = "create" /\ pc'[w] # "end" => StartRow(target[w])
    BY <1>2 DEF IgnoreLink, LinkStep, ResetAccount, CreateAccount, AttachApplication,
                Prefetch, StartInsightsJob, EnqueuePoll, LinkError
  <2>2. StartRow(target[w]) /\ target[w] \in Accounts => status'[target[w]] # "NONE"
    BY DEF StartRow, RowTypeOK
  <2>3. /\ UNCHANGED target
        /\ pc'[w] # "idle" /\ pc'[w] # "create"
        /\ pc[w] = "idle" => pc'[w] = "end"
        /\ pc[w] # "end"
    BY <1>2 DEF IgnoreLink, LinkStep, ResetAccount, CreateAccount, AttachApplication,
                Prefetch, StartInsightsJob, EnqueuePoll, LinkError
  <2> QED
    BY <1>0, <2>1, <2>2, <2>3, RowsStay
<1>3. ASSUME NEW a \in Accounts, ReceiveLink(w, a) PROVE LinkPlaced(w)'
  BY <1>3 DEF ReceiveLink, row
<1>4. CASE Crash
  BY <1>4 DEF Crash
<1>5. \/ pc'[w] = pc[w] /\ target'[w] = target[w]
      \/ IgnoreLink(w) \/ LinkStep(w)
      \/ \E a \in Accounts : ReceiveLink(w, a)
      \/ Crash
  <2>1. ASSUME NEW v \in Links, v # w, IgnoreLink(v) \/ LinkStep(v)
        PROVE  pc'[w] = pc[w] /\ target'[w] = target[w]
    BY <2>1 DEF IgnoreLink, LinkStep, ResetAccount, CreateAccount, AttachApplication,
                Prefetch, StartInsightsJob, EnqueuePoll, LinkError
  <2>2. ASSUME NEW v \in Links, v # w, NEW a \in Accounts, ReceiveLink(v, a)
        PROVE  pc'[w] = pc[w] /\ target'[w] = target[w]
    BY <2>2 DEF ReceiveLink
  <2> QED
    BY <2>1, <2>2, LinkMoves DEF link
<1> QED
  BY <1>1, <1>2, <1>3, <1>4, <1>5

(* Where a handler of a result may go, and by which action. *)
HandlerMove(h) ==
    \/ stage'[h] = stage[h]
    \/ h[1] = "poll" /\ EnqueuePoll(h[2])
    \/ h[1] = "income" /\ ReceiveIncome(h[2])
    \/ h[1] = "poll" /\ stage[h] = "queued" /\ stage'[h] \in {"check", "done"}
    \/ CheckReady(h)
    \/ NotifyReady(h)
    \/ HandlerError(h)
    \/ Crash

LEMMA HandlerMoves ==
  ASSUME TypeOK, [Next]_vars, NEW h \in Handlers
  PROVE  HandlerMove(h)
<1> USE DEF HandlerMove, TypeOK, DataTypeOK, HandlerGoto, Handlers, IsQueued
<1>1. ASSUME NEW w \in Links, IgnoreLink(w) \/ LinkStep(w) PROVE HandlerMove(h)
  <2>1. UNCHANGED data \/ EnqueuePoll(w)
    BY <1>1 DEF IgnoreLink, LinkStep, ResetAccount, CreateAccount, AttachApplication,
                Prefetch, StartInsightsJob, LinkError
  <2> QED
    BY <2>1 DEF EnqueuePoll, data
<1>2. ASSUME NEW w \in Links, ReceiveIncome(w) PROVE HandlerMove(h)
  BY <1>2 DEF ReceiveIncome
<1>3. ASSUME NEW w \in Links, PollStep(w) PROVE HandlerMove(h)
  BY <1>3 DEF PollStep, PollAgain, PollSucceeds, PollReportsFailure, PollExhausted,
              MarkFailed
<1>4. ASSUME NEW g \in Handlers, HandlerStep(g) PROVE HandlerMove(h)
  BY <1>4 DEF HandlerStep, CheckReady, NotifyReady
<1>5. CASE UNCHANGED stage
  BY <1>5
<1>6. ASSUME NEW c \in Cleaners, ScanStep(c) PROVE HandlerMove(h)
  BY <1>5, <1>6 DEF ScanStep, StartScan, AlertFailed, StartRecovery, TellReady,
                    FinishRecovery, MarkStuck, Recover, ScrubAccounts, data
<1>7. ASSUME NEW a \in Accounts,
             Reauthorise(a) \/ TimePasses(a) \/ \E w \in Links : ReceiveLink(w, a)
      PROVE  HandlerMove(h)
  BY <1>5, <1>7 DEF Reauthorise, TimePasses, ReceiveLink, data
<1>8. ASSUME NEW g \in Handlers, HandlerError(g) PROVE HandlerMove(h)
  BY <1>8 DEF HandlerError
<1>9. ASSUME NEW c \in Cleaners, ScanError(c) PROVE HandlerMove(h)
  BY <1>5, <1>9 DEF ScanError, data
<1> QED
  BY <1>1, <1>2, <1>3, <1>4, <1>5, <1>6, <1>7, <1>8, <1>9 DEF Next, vars, data

LEMMA HandlerPlacedStep ==
  ASSUME TypeOK, Placed, [Next]_vars, NEW h \in Handlers
  PROVE  HandlerPlaced(h)'
<1>0. h = <<h[1], h[2]>> /\ h[2] \in Links /\ LinkPlaced(h[2]) /\ HandlerPlaced(h)
  BY DEF Handlers, Placed
<1>1. CASE stage[h] # "waiting"
  <2>1. StillLinking(h[2]) /\ pc[h[2]] # "idle"
    BY <1>0, <1>1, LinksStay DEF HandlerPlaced
  <2>2. stage'[h] \in {"queued", "check", "notify"} => stage[h] \in {"queued", "check", "notify"}
    <3>1. ~(h[1] = "income" /\ ReceiveIncome(h[2]))
      BY <1>0, <1>1 DEF ReceiveIncome
    <3>2. ~(h[1] = "poll" /\ EnqueuePoll(h[2]))
      BY <1>0, <1>1 DEF EnqueuePoll, HandlerPlaced
    <3>3. Crash => stage[h] \in {"check", "notify"} \/ stage'[h] = stage[h]
      BY DEF Crash
    <3> QED
      BY <1>1, <3>1, <3>2, <3>3, HandlerMoves
         DEF HandlerMove, CheckReady, NotifyReady, HandlerError
  <2>3. stage[h] \in {"queued", "check", "notify"} => status'[target[h[2]]] # "NONE"
    BY <1>0, RowsStay DEF HandlerPlaced
  <2> QED
    BY <1>0, <1>1, <2>1, <2>2, <2>3 DEF HandlerPlaced, StillLinking
<1>2. CASE stage[h] = "waiting"
  <2>1. \/ stage'[h] = "waiting"
        \/ h[1] = "poll" /\ EnqueuePoll(h[2])
        \/ h[1] = "income" /\ ReceiveIncome(h[2])
    BY <1>2, HandlerMoves DEF HandlerMove, CheckReady, NotifyReady, HandlerError, Crash
  <2>2. CASE stage'[h] = "waiting"
    BY <2>2 DEF HandlerPlaced
  <2>3. CASE h[1] = "poll" /\ EnqueuePoll(h[2])
    <3>1. pc'[h[2]] = "end" /\ target' = target
      BY <1>0, <2>3 DEF EnqueuePoll, LinkGoto, TypeOK, LinkTypeOK
    <3>2. target[h[2]] \in Accounts /\ status'[target[h[2]]] # "NONE"
      BY <1>0, <2>3, RowsStay DEF EnqueuePoll, LinkPlaced
    <3> QED
      BY <3>1, <3>2 DEF HandlerPlaced
  <2>4. CASE h[1] = "income" /\ ReceiveIncome(h[2])
    <3>1. pc[h[2]] # "idle" /\ target[h[2]] \in Accounts /\ UNCHANGED <<status, link>>
      BY <1>0, <2>4 DEF ReceiveIncome, IncomeRequested, TypeOK, LinkTypeOK
    <3>2. stage'[h] = "check" => status[target[h[2]]] # "NONE"
      BY <1>0, <2>4 DEF ReceiveIncome, HandlerGoto, TypeOK, DataTypeOK
    <3>3. stage'[h] \in {"check", "done"}
      BY <1>0, <2>4 DEF ReceiveIncome, HandlerGoto, TypeOK, DataTypeOK
    <3> QED
      BY <2>4, <3>1, <3>2, <3>3 DEF HandlerPlaced, link
  <2> QED
    BY <2>1, <2>2, <2>3, <2>4
<1> QED
  BY <1>1, <1>2

LEMMA ScanPlacedStep ==
  ASSUME TypeOK, Placed, [Next]_vars, NEW c \in Cleaners
  PROVE  ScanPlaced(c)'
<1> USE DEF TypeOK, ScanTypeOK, ScanPlaced, ScanGoto
<1>0. ScanPlaced(c)
  BY DEF Placed
<1>1. CASE scan'[c] = scan[c] /\ todo'[c] = todo[c] /\ current'[c] = current[c]
  BY <1>0, <1>1, RowsStay
<1>2. CASE ScanStep(c) \/ ScanError(c)
  <2>1. scan'[c] = "tell" => current'[c] \in Accounts
    BY <1>2 DEF ScanStep, StartScan, AlertFailed, StartRecovery, TellReady,
                FinishRecovery, MarkStuck, Recover, ScrubAccounts, ScanError
  <2>2. \A a \in todo'[c] : a \in Accounts /\ status[a] # "NONE"
    BY <1>0, <1>2 DEF ScanStep, StartScan, AlertFailed, StartRecovery, TellReady,
                      FinishRecovery, MarkStuck, Recover, ScrubAccounts, IsStuck,
                      RecoveryMatches, ScanError
  <2> QED
    BY <2>1, <2>2, RowsStay
<1>3. CASE Crash
  BY <1>3 DEF Crash
<1>4. ASSUME NEW d \in Cleaners, d # c, ScanStep(d) \/ ScanError(d)
      PROVE  scan'[c] = scan[c] /\ todo'[c] = todo[c] /\ current'[c] = current[c]
  BY <1>4 DEF ScanStep, StartScan, AlertFailed, StartRecovery, TellReady,
              FinishRecovery, MarkStuck, Recover, ScrubAccounts, ScanError
<1>5. \/ UNCHANGED scans
      \/ \E d \in Cleaners : ScanStep(d) \/ ScanError(d)
      \/ Crash
  BY DEF Next, vars, IgnoreLink, LinkStep, ResetAccount, CreateAccount,
         AttachApplication, Prefetch, StartInsightsJob, EnqueuePoll, LinkError,
         ReceiveLink, ReceiveIncome, PollStep, PollAgain, PollSucceeds,
         PollReportsFailure, PollExhausted, MarkFailed, HandlerStep, CheckReady,
         NotifyReady, HandlerError, Reauthorise, TimePasses
<1> QED
  BY <1>1, <1>2, <1>3, <1>4, <1>5 DEF scans

LEMMA PlacedStep == TypeOK /\ Placed /\ [Next]_vars => Placed'
  BY LinkPlacedStep, HandlerPlacedStep, ScanPlacedStep DEF Placed

-----------------------------------------------------------------------------
(* What a step may do to the announcers of an account and to its debt.       *)
Same(a) ==
    /\ Announcers(a)' = Announcers(a) /\ owed'[a] = owed[a] /\ crashes' = crashes
    /\ errors' \in {errors, errors + 1}

Joins(a, x) ==
    /\ x \notin Announcers(a) /\ Announcers(a)' = Announcers(a) \cup {x}
    /\ owed'[a] = owed[a] + 1 /\ crashes' = crashes /\ errors' = errors

Leaves(a, x) ==
    /\ x \in Announcers(a) /\ Announcers(a)' = Announcers(a) \ {x}
    /\ owed'[a] = owed[a] - 1 /\ crashes' = crashes /\ errors' = errors

Fails(a, x) ==
    /\ x \in Announcers(a) /\ Announcers(a)' = Announcers(a) \ {x}
    /\ owed'[a] = owed[a] /\ crashes' = crashes /\ errors' = errors + 1

Forgotten(a) ==
    Announcers(a)' = {} /\ owed'[a] = owed[a] /\ crashes' = crashes + 1

Change(a) ==
    \/ Same(a) \/ Forgotten(a)
    \/ \E x \in Handlers \cup Cleaners : Joins(a, x) \/ Leaves(a, x) \/ Fails(a, x)

(* A handler that has made an account READY announces it once. *)
LEMMA HandlerAnnounces ==
  ASSUME TypeOK, NEW h \in Handlers, HandlerStep(h), NEW a \in Accounts
  PROVE  Change(a)
<1> USE DEF TypeOK, DataTypeOK, HistoryTypeOK, HandlerGoto
<1>0. h \notin Cleaners
  BY SlotAssumption
<1>1. CASE CheckReady(h) /\ ReadyMatches(target[h[2]])
  <2>1. /\ stage[h] = "check" /\ stage' = [stage EXCEPT ![h] = "notify"]
        /\ UNCHANGED <<target, scan, current, crashes, errors>>
    BY <1>1 DEF CheckReady, link, scans, count
  <2>2. owed' = [owed EXCEPT ![target[h[2]]] = @ + 1]
    BY <1>1 DEF CheckReady, SetReady, ReadyMatches
  <2>3. CASE a = target[h[2]]
    <3>1. h \notin Announcers(a) /\ Announcers(a)' = Announcers(a) \cup {h}
      BY <1>0, <2>1, <2>3 DEF Announcers
    <3> QED
      BY <2>1, <2>2, <2>3, <3>1 DEF Change, Joins
  <2>4. CASE a # target[h[2]]
    <3>1. Announcers(a)' = Announcers(a)
      BY <2>1, <2>4 DEF Announcers
    <3> QED
      BY <2>1, <2>2, <2>4, <3>1 DEF Change, Same
  <2> QED
    BY <2>3, <2>4
<1>2. CASE CheckReady(h) /\ ~ReadyMatches(target[h[2]])
  <2>1. /\ stage[h] = "check" /\ stage' = [stage EXCEPT ![h] = "done"]
        /\ UNCHANGED <<target, scan, current, owed, crashes, errors>>
    BY <1>2 DEF CheckReady, link, scans, count
  <2>2. Announcers(a)' = Announcers(a)
    BY <2>1 DEF Announcers
  <2> QED
    BY <2>1, <2>2 DEF Change, Same
<1>3. CASE NotifyReady(h)
  <2>1. /\ stage[h] = "notify" /\ stage' = [stage EXCEPT ![h] = "done"]
        /\ owed' = [owed EXCEPT ![target[h[2]]] = @ - 1]
        /\ UNCHANGED <<target, scan, current, crashes, errors>>
    BY <1>3 DEF NotifyReady, link, scans, count
  <2>2. CASE a = target[h[2]]
    <3>1. h \in Announcers(a) /\ Announcers(a)' = Announcers(a) \ {h}
      BY <1>0, <2>1, <2>2 DEF Announcers
    <3> QED
      BY <2>1, <2>2, <3>1 DEF Change, Leaves
  <2>3. CASE a # target[h[2]]
    <3>1. Announcers(a)' = Announcers(a)
      BY <2>1, <2>3 DEF Announcers
    <3> QED
      BY <2>1, <2>3, <3>1 DEF Change, Same
  <2> QED
    BY <2>2, <2>3
<1> QED
  BY <1>1, <1>2, <1>3 DEF HandlerStep

(* So does the recovery scan. *)
LEMMA ScanAnnounces ==
  ASSUME TypeOK, NEW c \in Cleaners, ScanStep(c), NEW a \in Accounts
  PROVE  Change(a)
<1> USE DEF TypeOK, ScanTypeOK, HistoryTypeOK, ScanGoto
<1>0. c \notin Handlers
  BY SlotAssumption
<1>1. ASSUME NEW b \in Accounts, Recover(c, b), RecoveryMatches(b) PROVE Change(a)
  <2>1. /\ scan[c] = "recover" /\ scan' = [scan EXCEPT ![c] = "tell"]
        /\ current' = [current EXCEPT ![c] = b]
        /\ owed' = [owed EXCEPT ![b] = @ + 1]
        /\ UNCHANGED <<target, stage, crashes, errors>>
    BY <1>1 DEF Recover, RecoveryMatches, SetReady, link, data, count
  <2>2. CASE a = b
    <3>1. c \notin Announcers(a) /\ Announcers(a)' = Announcers(a) \cup {c}
      BY <1>0, <2>1, <2>2 DEF Announcers
    <3> QED
      BY <2>1, <2>2, <3>1 DEF Change, Joins
  <2>3. CASE a # b
    <3>1. Announcers(a)' = Announcers(a)
      BY <2>1, <2>3 DEF Announcers
    <3> QED
      BY <2>1, <2>3, <3>1 DEF Change, Same
  <2> QED
    BY <2>2, <2>3
<1>2. CASE TellReady(c)
  <2>1. /\ scan[c] = "tell" /\ scan' = [scan EXCEPT ![c] = "recover"]
        /\ current' = [current EXCEPT ![c] = Nil]
        /\ owed' = [owed EXCEPT ![current[c]] = @ - 1]
        /\ UNCHANGED <<target, stage, crashes, errors>>
    BY <1>2 DEF TellReady, link, data, count
  <2>2. CASE a = current[c]
    <3>1. c \in Announcers(a) /\ Announcers(a)' = Announcers(a) \ {c}
      BY <1>0, <2>1, <2>2 DEF Announcers
    <3> QED
      BY <2>1, <2>2, <3>1 DEF Change, Leaves
  <2>3. CASE a # current[c]
    <3>1. Announcers(a)' = Announcers(a)
      BY <2>1, <2>3 DEF Announcers
    <3> QED
      BY <2>1, <2>3, <3>1 DEF Change, Same
  <2> QED
    BY <2>2, <2>3
<1>3. ASSUME ~TellReady(c),
             \A b \in Accounts : ~(Recover(c, b) /\ RecoveryMatches(b))
      PROVE  Change(a)
  <2>1. /\ scan[c] # "tell" /\ scan'[c] # "tell"
        /\ \A d \in Cleaners : d # c => scan'[d] = scan[d] /\ current'[d] = current[d]
        /\ UNCHANGED <<target, stage, owed, crashes, errors>>
    BY <1>3 DEF ScanStep, StartScan, AlertFailed, StartRecovery, FinishRecovery,
                MarkStuck, Recover, ScrubAccounts, row, link, data, count
  <2>2. Announcers(a)' = Announcers(a)
    BY <2>1 DEF Announcers
  <2> QED
    BY <2>1, <2>2 DEF Change, Same
<1> QED
  BY <1>1, <1>2, <1>3

(* A failed call ends the handler or the notification of the scan. *)
LEMMA HandlerFails ==
  ASSUME TypeOK, NEW h \in Handlers, HandlerError(h), NEW a \in Accounts
  PROVE  Change(a)
<1>0. h \notin Cleaners
  BY SlotAssumption
<1>1. /\ stage' = [stage EXCEPT ![h] = "done"] /\ errors' = errors + 1
      /\ UNCHANGED <<target, scan, current, owed, crashes>>
  BY DEF HandlerError, HandlerGoto, link, scans
<1>2. CASE h \in Announcers(a)
  <2>1. Announcers(a)' = Announcers(a) \ {h}
    BY <1>0, <1>1, <1>2 DEF Announcers, TypeOK, DataTypeOK
  <2> QED
    BY <1>1, <1>2, <2>1 DEF Change, Fails
<1>3. CASE h \notin Announcers(a)
  <2>1. Announcers(a)' = Announcers(a)
    BY <1>1, <1>3 DEF Announcers, TypeOK, DataTypeOK
  <2> QED
    BY <1>1, <2>1 DEF Change, Same
<1> QED
  BY <1>2, <1>3

LEMMA ScanFails ==
  ASSUME TypeOK, NEW c \in Cleaners, ScanError(c), NEW a \in Accounts
  PROVE  Change(a)
<1> USE DEF TypeOK, ScanTypeOK, ScanGoto
<1>0. c \notin Handlers
  BY SlotAssumption
<1>1. /\ \A d \in Cleaners : d # c => scan'[d] = scan[d] /\ current'[d] = current[d]
      /\ scan'[c] # "tell" /\ errors' = errors + 1
      /\ UNCHANGED <<target, stage, owed, crashes>>
  BY DEF ScanError, link, data
<1>2. CASE c \in Announcers(a)
  <2>1. Announcers(a)' = Announcers(a) \ {c}
    BY <1>0, <1>1, <1>2 DEF Announcers
  <2> QED
    BY <1>1, <1>2, <2>1 DEF Change, Fails
<1>3. CASE c \notin Announcers(a)
  <2>1. Announcers(a)' = Announcers(a)
    BY <1>1, <1>3 DEF Announcers
  <2> QED
    BY <1>1, <2>1 DEF Change, Same
<1> QED
  BY <1>2, <1>3

(* Nobody else announces anything, and a restart forgets who was to. *)
LEMMA Changes ==
  ASSUME TypeOK, Placed, [Next]_vars, NEW a \in Accounts
  PROVE  Change(a)
<1>1. ASSUME UNCHANGED <<scan, current, owed, crashes>>, errors' \in {errors, errors + 1},
             \A h \in Handlers : stage'[h] = "notify" <=> stage[h] = "notify"
      PROVE  Change(a)
  <2>1. \A h \in Handlers : stage[h] = "notify" => target'[h[2]] = target[h[2]]
    BY LinksStay DEF Placed, HandlerPlaced, Handlers, StillLinking
  <2>2. Announcers(a)' = Announcers(a)
    BY <1>1, <2>1 DEF Announcers
  <2> QED
    BY <1>1, <2>2 DEF Change, Same
<1>2. CASE Crash
  <2>1. Announcers(a)' = {}
    BY <1>2 DEF Crash, Announcers
  <2> QED
    BY <1>2, <2>1 DEF Crash, Change, Forgotten
<1>3. ASSUME NEW w \in Links, IgnoreLink(w) \/ LinkStep(w) \/ ReceiveIncome(w) \/ PollStep(w)
      PROVE  Change(a)
  <2>1. UNCHANGED <<scan, current, owed, crashes, errors>>
    BY <1>3 DEF IgnoreLink, LinkStep, ResetAccount, CreateAccount, AttachApplication,
                Prefetch, StartInsightsJob, EnqueuePoll, LinkError, ReceiveIncome,
                PollStep, PollAgain, PollSucceeds, PollReportsFailure, PollExhausted,
                MarkFailed, scans, count
  <2>2. ASSUME NEW h \in Handlers PROVE stage'[h] = "notify" <=> stage[h] = "notify"
    <3>1. h = <<h[1], h[2]>> /\ HandlerPlaced(h)
      BY DEF Placed, Handlers
    <3>2. CASE EnqueuePoll(w)
      BY <3>1, <3>2 DEF EnqueuePoll, HandlerPlaced, TypeOK, DataTypeOK
    <3>3. CASE ReceiveIncome(w)
      BY <3>3 DEF ReceiveIncome, HandlerGoto, TypeOK, DataTypeOK
    <3>4. CASE PollStep(w)
      BY <3>4 DEF PollStep, PollAgain, PollSucceeds, PollReportsFailure, PollExhausted,
                  MarkFailed, IsQueued, HandlerGoto, TypeOK, DataTypeOK
    <3>5. UNCHANGED stage \/ EnqueuePoll(w) \/ ReceiveIncome(w) \/ PollStep(w)
      BY <1>3 DEF IgnoreLink, LinkStep, ResetAccount, CreateAccount, AttachApplication,
                  Prefetch, StartInsightsJob, LinkError, data
    <3> QED
      BY <3>2, <3>3, <3>4, <3>5
  <2> QED
    BY <1>1, <2>1, <2>2
<1>4. ASSUME NEW b \in Accounts,
             Reauthorise(b) \/ TimePasses(b) \/ \E w \in Links : ReceiveLink(w, b)
      PROVE  Change(a)
  BY <1>1, <1>4 DEF Reauthorise, TimePasses, ReceiveLink, data, scans, count
<1>5. CASE UNCHANGED vars
  BY <1>1, <1>5 DEF vars, data, scans, count
<1> QED
  BY <1>2, <1>3, <1>4, <1>5, HandlerAnnounces, ScanAnnounces, HandlerFails, ScanFails
     DEF Next

OneEvent(a) ==
    /\ IsFiniteSet(Announcers(a))
    /\ Cardinality(Announcers(a)) <= owed[a]
    /\ crashes = 0 => owed[a] <= Cardinality(Announcers(a)) + errors

(* OneEventPerEntry, with what Cardinality needs: the announcers are finite  *)
(* in number although links and workers may not be.                          *)
EventInv == TypeOK /\ Placed /\ \A a \in Accounts : OneEvent(a)

LEMMA EventStep == EventInv /\ [Next]_vars => EventInv'
<1> SUFFICES ASSUME EventInv, [Next]_vars, NEW a \in Accounts
             PROVE  OneEvent(a)'
  BY NextTypeOK, PlacedStep DEF EventInv
<1> USE DEF OneEvent
<1>0. OneEvent(a) /\ owed[a] \in Int /\ crashes \in Nat /\ errors \in Nat /\ Change(a)
  BY Changes DEF EventInv, TypeOK, HistoryTypeOK
<1>1. Cardinality(Announcers(a)) \in Nat
  BY <1>0, FS_CardinalityType
<1>2. CASE Same(a)
  <2>1. Cardinality(Announcers(a)') = Cardinality(Announcers(a))
    BY <1>2 DEF Same
  <2> QED
    BY <1>0, <1>1, <1>2, <2>1 DEF Same
<1>3. CASE Forgotten(a)
  BY <1>0, <1>1, <1>3, FS_EmptySet DEF Forgotten
<1>4. ASSUME NEW x, Joins(a, x) PROVE OneEvent(a)'
  <2>1. /\ IsFiniteSet(Announcers(a) \cup {x})
        /\ Cardinality(Announcers(a) \cup {x}) = Cardinality(Announcers(a)) + 1
    BY <1>0, <1>4, FS_AddElement DEF Joins
  <2> QED
    BY <1>0, <1>1, <1>4, <2>1 DEF Joins
<1>5. ASSUME NEW x, Leaves(a, x) PROVE OneEvent(a)'
  <2>1. /\ IsFiniteSet(Announcers(a) \ {x})
        /\ Cardinality(Announcers(a) \ {x}) = Cardinality(Announcers(a)) - 1
    BY <1>0, <1>5, FS_RemoveElement DEF Leaves
  <2> QED
    BY <1>0, <1>1, <1>5, <2>1 DEF Leaves
<1>6. ASSUME NEW x, Fails(a, x) PROVE OneEvent(a)'
  <2>1. /\ IsFiniteSet(Announcers(a) \ {x})
        /\ Cardinality(Announcers(a) \ {x}) = Cardinality(Announcers(a)) - 1
    BY <1>0, <1>6, FS_RemoveElement DEF Fails
  <2> QED
    BY <1>0, <1>1, <1>6, <2>1 DEF Fails
<1> QED
  BY <1>0, <1>2, <1>3, <1>4, <1>5, <1>6 DEF Change

LEMMA AlwaysEventInv == Spec => []EventInv
<1>1. ASSUME Init, NEW a \in Accounts PROVE OneEvent(a)
  <2>1. Announcers(a) = {} /\ owed[a] = 0 /\ errors = 0
    BY <1>1 DEF Init, Announcers
  <2> QED
    BY <2>1, FS_EmptySet DEF OneEvent
<1>2. Init => Placed
  BY DEF Init, Placed, LinkPlaced, HandlerPlaced, ScanPlaced
<1>3. Init => EventInv
  BY <1>1, <1>2, InitTypeOK DEF EventInv
<1> QED
  BY <1>3, EventStep, PTL DEF Spec

(* account.enrichment_ready is sent at most once for an entry into READY, of *)
(* all the handlers and scans that find the data complete; without a restart *)
(* no more events are missing for an account than calls have failed.         *)
THEOREM EventCorrect == Spec => []OneEventPerEntry
<1>1. EventInv => OneEventPerEntry
  BY DEF EventInv, OneEvent, OneEventPerEntry
<1> QED
  BY <1>1, AlwaysEventInv, PTL

-----------------------------------------------------------------------------
(* A row becomes PENDING only empty. *)
LEMMA PendingMoves ==
  ASSUME TypeOK, [Next]_vars, NEW a \in Accounts, status'[a] = "PENDING"
  PROVE  status[a] = "PENDING" \/ income'[a] = Nil
<1> USE DEF TypeOK, RowTypeOK
<1>1. ASSUME NEW x, StartRow(x) PROVE status[a] = "PENDING" \/ income'[a] = Nil
  BY <1>1 DEF StartRow
<1> QED
  BY <1>1, StatusMoves
     DEF StatusMove, SetFailed, SetReady, NotifyReady, TellReady, ScrubAccounts, row

(* A result is stored by the handler that goes on to check the row. *)
LEMMA DataMoves ==
  ASSUME TypeOK, [Next]_vars, NEW a \in Accounts
  PROVE  \/ income'[a] = income[a] /\ insights'[a] = insights[a]
         \/ income'[a] = Nil
         \/ \E h \in Handlers : stage'[h] = "check" /\ target'[h[2]] = a
<1> DEFINE Kept == income'[a] = income[a] /\ insights'[a] = insights[a]
           Checked == \E h \in Handlers : stage'[h] = "check" /\ target'[h[2]] = a
           Goal == Kept \/ income'[a] = Nil \/ Checked
<1> USE DEF TypeOK, RowTypeOK
<1>1. ASSUME NEW x, StartRow(x) PROVE Kept \/ income'[a] = Nil
  BY <1>1 DEF StartRow
<1>2. ASSUME NEW w \in Links, IgnoreLink(w) \/ LinkStep(w) PROVE Goal
  <2>1. UNCHANGED <<income, insights>> \/ \E x : StartRow(x)
    BY <1>2 DEF IgnoreLink, LinkStep, ResetAccount, CreateAccount, AttachApplication,
                Prefetch, StartInsightsJob, EnqueuePoll, LinkError, row
  <2> QED
    BY <1>1, <2>1
<1>3. ASSUME NEW w \in Links, ReceiveIncome(w) PROVE Goal
  <2>1. CASE target[w] = a /\ income' # income
    <3>1. stage'[<<"income", w>>] = "check" /\ target'[w] = a
      BY <1>3, <2>1 DEF ReceiveIncome, HandlerGoto, DataTypeOK, Handlers, link
    <3> QED
      BY <3>1 DEF Handlers
  <2>2. CASE target[w] # a \/ income' = income
    BY <1>3, <2>2 DEF ReceiveIncome
  <2> QED
    BY <2>1, <2>2
<1>4. ASSUME NEW w \in Links, PollSucceeds(w) PROVE Goal
  <2>1. CASE target[w] = a
    <3>1. stage'[<<"poll", w>>] = "check" /\ target'[w] = a
      BY <1>4, <2>1 DEF PollSucceeds, HandlerGoto, DataTypeOK, Handlers, link
    <3> QED
      BY <3>1 DEF Handlers
  <2>2. CASE target[w] # a
    BY <1>4, <2>2 DEF PollSucceeds
  <2> QED
    BY <2>1, <2>2
<1>5. ASSUME NEW w \in Links, PollStep(w), ~PollSucceeds(w) PROVE Kept
  BY <1>5 DEF PollStep, PollAgain, PollReportsFailure, PollExhausted, MarkFailed,
              SetFailed, row
<1>6. ASSUME NEW h \in Handlers, HandlerStep(h) PROVE Kept
  BY <1>6 DEF HandlerStep, CheckReady, NotifyReady, SetReady, row
<1>7. ASSUME NEW c \in Cleaners, ScanStep(c) PROVE Kept \/ income'[a] = Nil
  BY <1>7 DEF ScanStep, StartScan, AlertFailed, StartRecovery, TellReady,
              FinishRecovery, MarkStuck, Recover, ScrubAccounts, SetFailed, SetReady, row
<1>8. ASSUME NEW b \in Accounts,
             Reauthorise(b) \/ TimePasses(b) \/ \E w \in Links : ReceiveLink(w, b)
      PROVE  Kept
  BY <1>8 DEF Reauthorise, TimePasses, ReceiveLink, row
<1>9. CASE Crash \/ UNCHANGED vars
  BY <1>9 DEF Crash, vars, row
<1>10. ASSUME NEW h \in Handlers, HandlerError(h) PROVE Kept
  BY <1>10 DEF HandlerError, row
<1>11. ASSUME NEW c \in Cleaners, ScanError(c) PROVE Kept
  BY <1>11 DEF ScanError, row
<1> QED
  BY <1>2, <1>3, <1>4, <1>5, <1>6, <1>7, <1>8, <1>9, <1>10, <1>11 DEF Next

(* A check of a complete PENDING row makes it READY, so a row that is still  *)
(* PENDING after the step has kept its checker.                              *)
LEMMA CheckerStays ==
  ASSUME TypeOK, Placed, [Next]_vars, crashes' = crashes,
         NEW a \in Accounts, status[a] = "PENDING", HasBoth(a), status'[a] = "PENDING",
         NEW h \in Handlers, stage[h] = "check", target[h[2]] = a, ~HandlerError(h)
  PROVE  stage'[h] = "check" /\ target'[h[2]] = a
<1>1. ~Crash
  BY DEF Crash, TypeOK, HistoryTypeOK
<1>2. ~CheckReady(h)
  <2>1. ReadyMatches(a)
    BY DEF ReadyMatches
  <2> QED
    BY <2>1 DEF CheckReady, SetReady, TypeOK, RowTypeOK
<1>3. h = <<h[1], h[2]>> /\ h[2] \in Links /\ HandlerPlaced(h)
  BY DEF Handlers, Placed
<1>4. stage'[h] = "check"
  BY <1>1, <1>2, <1>3, HandlerMoves
     DEF HandlerMove, EnqueuePoll, ReceiveIncome, NotifyReady, HandlerPlaced
<1> QED
  BY <1>3, <1>4, LinksStay DEF HandlerPlaced, StillLinking

(* The counters of restarts and failed calls only grow. *)
LEMMA Counters ==
  [Next]_vars => crashes' \in {crashes, crashes + 1} /\ errors' \in {errors, errors + 1}
BY DEF Next, vars, count, IgnoreLink, LinkStep, ResetAccount, CreateAccount,
       AttachApplication, Prefetch, StartInsightsJob, EnqueuePoll, LinkError,
       ReceiveLink, ReceiveIncome, PollStep, PollAgain, PollSucceeds,
       PollReportsFailure, PollExhausted, MarkFailed, HandlerStep, CheckReady,
       NotifyReady, HandlerError, Reauthorise, TimePasses, ScanStep, StartScan,
       AlertFailed, StartRecovery, TellReady, FinishRecovery, MarkStuck, Recover,
       ScrubAccounts, ScanError, Crash

(* Without a restart an account is stranded only by the failed call of its   *)
(* own checker.                                                              *)
LEMMA StrandedMoves ==
  ASSUME TypeOK, Placed, [Next]_vars, crashes' = crashes
  PROVE  \/ Stranded' \subseteq Stranded
         \/ errors' = errors + 1 /\ \E x : Stranded' \subseteq Stranded \cup {x}
<1>1. CASE \E h \in Handlers : HandlerError(h)
  <2>1. PICK h \in Handlers : HandlerError(h)
    BY <1>1
  <2>2. /\ stage' = [stage EXCEPT ![h] = "done"] /\ errors' = errors + 1
        /\ UNCHANGED <<status, income, insights, target>>
    BY <2>1 DEF HandlerError, HandlerGoto, row, link
  <2>3. Stranded' \subseteq Stranded \cup {target[h[2]]}
    BY <2>2 DEF Stranded, HasBoth, TypeOK, DataTypeOK
  <2> QED
    BY <2>2, <2>3
<1>2. CASE ~\E h \in Handlers : HandlerError(h)
  <2>1. ASSUME NEW a \in Accounts, a \in Stranded' PROVE a \in Stranded
    <3>1. /\ status'[a] = "PENDING" /\ income'[a] # Nil /\ insights'[a] # Nil
          /\ \A h \in Handlers : ~(stage'[h] = "check" /\ target'[h[2]] = a)
      BY <2>1 DEF Stranded, HasBoth
    <3>2. status[a] = "PENDING"
      BY <3>1, PendingMoves
    <3>3. HasBoth(a)
      BY <3>1, DataMoves DEF HasBoth
    <3>4. ASSUME NEW h \in Handlers, stage[h] = "check", target[h[2]] = a PROVE FALSE
      BY <1>2, <3>1, <3>2, <3>3, <3>4, CheckerStays
    <3> QED
      BY <3>2, <3>3, <3>4 DEF Stranded
  <2> QED
    BY <2>1 DEF Stranded
<1> QED
  BY <1>1, <1>2

(* CompleteIsChecked, with what Cardinality needs. *)
CheckedInv == crashes = 0 => IsFiniteSet(Stranded) /\ Cardinality(Stranded) <= errors

LEMMA CheckedStep ==
  ASSUME TypeOK, Placed, CheckedInv, [Next]_vars
  PROVE  CheckedInv'
<1> SUFFICES ASSUME crashes' = 0
             PROVE  IsFiniteSet(Stranded') /\ Cardinality(Stranded') <= errors'
  BY DEF CheckedInv
<1>1. crashes = 0 /\ crashes' = crashes
  BY Counters DEF TypeOK, HistoryTypeOK
<1>2. /\ IsFiniteSet(Stranded) /\ Cardinality(Stranded) \in Nat
      /\ Cardinality(Stranded) <= errors
      /\ errors \in Nat /\ errors' \in {errors, errors + 1}
  BY <1>1, FS_CardinalityType, Counters DEF CheckedInv, TypeOK, HistoryTypeOK
<1>3. CASE Stranded' \subseteq Stranded
  <2>1. /\ IsFiniteSet(Stranded') /\ Cardinality(Stranded') \in Nat
        /\ Cardinality(Stranded') <= Cardinality(Stranded)
    BY <1>2, <1>3, FS_Subset, FS_CardinalityType
  <2> QED
    BY <1>2, <2>1
<1>4. ASSUME NEW x, Stranded' \subseteq Stranded \cup {x}, errors' = errors + 1
      PROVE  IsFiniteSet(Stranded') /\ Cardinality(Stranded') <= errors'
  <2>1. /\ IsFiniteSet(Stranded \cup {x})
        /\ Cardinality(Stranded \cup {x}) \in Nat
        /\ Cardinality(Stranded \cup {x}) <= Cardinality(Stranded) + 1
    BY <1>2, FS_AddElement, FS_CardinalityType
  <2>2. /\ IsFiniteSet(Stranded') /\ Cardinality(Stranded') \in Nat
        /\ Cardinality(Stranded') <= Cardinality(Stranded \cup {x})
    BY <1>4, <2>1, FS_Subset, FS_CardinalityType
  <2> QED
    BY <1>2, <1>4, <2>1, <2>2
<1> QED
  BY <1>1, <1>3, <1>4, StrandedMoves

(* The later of the two results always finds the other: without a restart no *)
(* more complete accounts wait for a check that nobody is going to make than *)
(* calls have failed.                                                        *)
THEOREM CheckedCorrect == Spec => []CompleteIsChecked
<1>1. Init => CheckedInv
  <2>1. Init => Stranded = {} /\ errors = 0
    BY DEF Init, Stranded
  <2> QED
    BY <2>1, FS_EmptySet DEF CheckedInv
<1>2. EventInv => TypeOK /\ Placed
  BY DEF EventInv
<1>3. EventInv /\ CheckedInv /\ [Next]_vars => CheckedInv'
  BY <1>2, CheckedStep
<1>4. CheckedInv => CompleteIsChecked
  BY DEF CheckedInv, CompleteIsChecked
<1> QED
  BY <1>1, <1>3, <1>4, AlwaysEventInv, PTL DEF Spec

-----------------------------------------------------------------------------
(* Whoever announces an account finds it in debt. *)
LEMMA AnnouncerIsOwed ==
  ASSUME EventInv, NEW a \in Accounts, NEW x \in Announcers(a)
  PROVE  owed[a] \in Int /\ owed[a] > 0
<1>1. OneEvent(a) /\ owed[a] \in Int
  BY DEF EventInv, TypeOK, HistoryTypeOK
<1>2. /\ Cardinality(Announcers(a)) \in Nat
      /\ Cardinality(Announcers(a) \ {x}) \in Nat
      /\ Cardinality(Announcers(a) \ {x}) = Cardinality(Announcers(a)) - 1
  BY <1>1, FS_RemoveElement, FS_CardinalityType DEF OneEvent
<1> QED
  BY <1>1, <1>2 DEF OneEvent

(* Every step of the pipeline is one of the abstract lifecycle or a stutter. *)
LEMMA LifecycleStep ==
  ASSUME EventInv, [Next]_vars
  PROVE  [Lifecycle!Next]_(Lifecycle!lifecycle)
<1> USE DEF Lifecycle!Next
<1>0. TypeOK /\ Placed
  BY DEF EventInv
<1>1. CASE UNCHANGED <<status, owed>>
  BY <1>1 DEF Lifecycle!lifecycle
<1>2. ASSUME NEW w \in Links, pc[w] \in {"reset", "create"}, StartRow(target[w]),
             UNCHANGED owed
      PROVE  Lifecycle!Next
  <2>1. target[w] \in Accounts
    BY <1>0, <1>2 DEF Placed, LinkPlaced
  <2> QED
    BY <1>2, <2>1 DEF StartRow, Lifecycle!Open
<1>3. ASSUME NEW a \in Accounts, status[a] # "NONE", SetFailed(a), UNCHANGED owed
      PROVE  Lifecycle!Next
  BY <1>3 DEF SetFailed, Lifecycle!Fail
<1>4. ASSUME NEW a \in Accounts, status[a] \notin {"NONE", "READY"}, SetReady(a)
      PROVE  Lifecycle!Next
  <2>1. owed' = [owed EXCEPT ![a] = @ + 1]
    BY <1>4 DEF SetReady
  <2> QED
    BY <1>4, <2>1 DEF SetReady, Lifecycle!Complete
<1>5. ASSUME NEW w \in Links, IsQueued(w) PROVE target[w] \in Accounts /\ status[target[w]] # "NONE"
  <2>1. <<"poll", w>> \in Handlers
    BY DEF Handlers
  <2> QED
    BY <1>0, <1>5, <2>1 DEF IsQueued, Placed, HandlerPlaced
<1>6. ASSUME NEW c \in Cleaners, NEW a \in todo[c]
      PROVE  a \in Accounts /\ status[a] # "NONE"
  BY <1>0, <1>6 DEF Placed, ScanPlaced, TypeOK, ScanTypeOK
<1>7. ASSUME NEW h \in Handlers, stage[h] = "check" PROVE target[h[2]] \in Accounts
  BY <1>0, <1>7 DEF Placed, HandlerPlaced
<1>8. ASSUME NEW h \in Handlers, NotifyReady(h) PROVE Lifecycle!Next
  <2>1. target[h[2]] \in Accounts /\ h \in Announcers(target[h[2]])
    BY <1>0, <1>8 DEF NotifyReady, Placed, HandlerPlaced, Announcers
  <2> QED
    BY <1>8, <2>1, AnnouncerIsOwed DEF NotifyReady, Lifecycle!Announce, row
<1>9. ASSUME NEW c \in Cleaners, TellReady(c) PROVE Lifecycle!Next
  <2>1. current[c] \in Accounts /\ c \in Announcers(current[c])
    BY <1>0, <1>9 DEF TellReady, Placed, ScanPlaced, Announcers
  <2> QED
    BY <1>9, <2>1, AnnouncerIsOwed DEF TellReady, Lifecycle!Announce, row
<1>10. ASSUME NEW c \in Cleaners, NEW S \in SUBSET Accounts, ScrubAccounts(c, S)
       PROVE  Lifecycle!Next
  BY <1>10 DEF ScrubAccounts, Lifecycle!Scrub
<1> QED
  BY <1>1, <1>2, <1>3, <1>4, <1>5, <1>6, <1>7, <1>8, <1>9, <1>10, StatusMoves
     DEF StatusMove, ReadyMatches, RecoveryMatches

(* The pipeline implements the abstract lifecycle of an account.             *)
THEOREM Implements == Spec => LifecycleSpec
<1>1. Init => Lifecycle!Init
  BY DEF Init, Lifecycle!Init
<1> QED
  BY <1>1, LifecycleStep, AlwaysEventInv, PTL DEF Spec, LifecycleSpec, Lifecycle!Spec

=============================================================================

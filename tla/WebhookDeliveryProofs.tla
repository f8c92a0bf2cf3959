----------------------- MODULE WebhookDeliveryProofs ------------------------
(* WebhookDelivery implements EventPromise for any number of events,         *)
(* attempts, failed calls and restarts, its counters stay in their types,    *)
(* and an event that is settled is marked as what it is.                     *)
EXTENDS WebhookDelivery, TLAPS

(* The counters play no part in the promise; the rest has these types.       *)
Shape ==
    /\ status \in [Events -> {"NONE", "PENDING", "DELIVERED", "FAILED"}]
    /\ job \in [Events -> {"none", "adding", "queued", "send", "ok", "refused",
                           "error", "done", "ended", "dead", "dropped"}]
    /\ received \in [Events -> BOOLEAN]

(* Why DELIVERED may be believed: it is written after an answer only.        *)
Honest(e) ==
    /\ job[e] # "none" => status[e] # "NONE"
    /\ job[e] = "ok" => received[e]
    /\ job[e] \in {"done", "ended"} => status[e] = "DELIVERED"
    /\ status[e] = "DELIVERED" => received[e]

IInv == Shape /\ \A e \in Events : Honest(e)

LEMMA InitIInv == Init => IInv
  BY DEF Init, IInv, Shape, Honest

(* Every action but Crash moves one event and leaves the others alone. *)
Move(e, s, step, had) ==
    /\ status' = [status EXCEPT ![e] = s]
    /\ job' = [job EXCEPT ![e] = step]
    /\ received' = [received EXCEPT ![e] = had]

(* The moves of one event, as the promise and the invariant see them. *)
Moved(e) ==
    \/ /\ job[e] = "none" /\ status[e] = "NONE"
       /\ Move(e, "PENDING", "adding", received[e])
    \/ /\ job[e] = "adding"
       /\ \E step \in {"queued", "none"} : Move(e, status[e], step, received[e])
    \/ /\ job[e] = "queued"
       /\ \E step \in {"send", "queued", "dead"} :
             Move(e, status[e], step, received[e])
    \/ /\ job[e] = "send"
       /\ \/ \E step \in {"ok", "refused", "error"} : Move(e, status[e], step, TRUE)
          \/ Move(e, status[e], "error", received[e])
    \/ /\ job[e] = "ok"
       /\ Move(e, "DELIVERED", "done", received[e])
    \/ /\ job[e] = "refused"
       /\ Move(e, "FAILED", "error", received[e])
    \/ /\ job[e] \in {"ok", "refused"}
       /\ Move(e, status[e], "error", received[e])
    \/ /\ job[e] = "error"
       /\ \E step \in {"queued", "dead"}, s \in {"FAILED", status[e]} :
             Move(e, s, step, received[e])
    \/ /\ job[e] = "done"
       /\ Move(e, status[e], "ended", received[e])

LEMMA EveryMove ==
  ASSUME IInv, NEW e \in Events, CreateDelivery(e) \/ Step(e) \/ Fault(e)
  PROVE  Moved(e)
<1> USE DEF IInv, Shape, Moved, Move, Goto
<1>1. CASE CreateDelivery(e)
  BY <1>1 DEF CreateDelivery, history
<1>2. CASE AddJob(e)
  BY <1>2 DEF AddJob, row, history
<1>3. CASE Start(e)
  BY <1>3 DEF Start, row, history
<1>4. CASE PostArrives(e)
  BY <1>4 DEF PostArrives, row
<1>5. CASE PostLost(e)
  BY <1>5 DEF PostLost, row
<1>6. CASE RecordAnswer(e)
  BY <1>6 DEF RecordAnswer, Record, history
<1>7. CASE RecordError(e)
  BY <1>7 DEF RecordError, Record, Retry, history
<1>8. CASE Complete(e)
  BY <1>8 DEF Complete, row, history
<1>9. CASE Fault(e)
  BY <1>9 DEF Fault, Retry, row, history
<1> QED
  BY <1>1, <1>2, <1>3, <1>4, <1>5, <1>6, <1>7, <1>8, <1>9 DEF Step

LEMMA IInvStep == IInv /\ [Next]_vars => IInv'
<1> SUFFICES ASSUME IInv, [Next]_vars PROVE IInv'
  OBVIOUS
<1> USE DEF IInv, Shape, Honest
<1>1. CASE UNCHANGED vars
  BY <1>1 DEF vars, row, queue, history
<1>2. CASE Crash
  <2>1. Shape'
    BY <1>2 DEF Crash, row, history
  <2>2. ASSUME NEW e \in Events PROVE Honest(e)'
    BY <1>2, <2>2 DEF Crash, row, history
  <2> QED
    BY <2>1, <2>2
<1>3. ASSUME NEW e \in Events, Moved(e) PROVE IInv'
  <2>1. Shape'
    <3>1. status' \in [Events -> {"NONE", "PENDING", "DELIVERED", "FAILED"}]
      BY <1>3 DEF Moved, Move
    <3>2. job' \in [Events -> {"none", "adding", "queued", "send", "ok", "refused",
                              "error", "done", "ended", "dead", "dropped"}]
      BY <1>3 DEF Moved, Move
    <3>3. received' \in [Events -> BOOLEAN]
      <4>1. received'[e] \in BOOLEAN /\ received' = [received EXCEPT ![e] = received'[e]]
        BY <1>3 DEF Moved, Move
      <4> QED
        BY <4>1
    <3> QED
      BY <3>1, <3>2, <3>3
  <2>2. Honest(e)'
    BY <1>3 DEF Moved, Move
  <2>3. ASSUME NEW d \in Events, d # e PROVE Honest(d)'
    BY <1>3, <2>3 DEF Moved, Move
  <2> QED
    BY <2>1, <2>2, <2>3
<1> QED
  BY <1>1, <1>2, <1>3, EveryMove DEF Next

(* DELIVERED events have arrived, in every reachable state. *)
LEMMA AlwaysIInv == Spec => []IInv
  BY InitIInv, IInvStep, PTL DEF Spec

-----------------------------------------------------------------------------
(* A function that differs from another in one place at most. *)
LEMMA OnePlace ==
  ASSUME NEW S, NEW f, NEW g, NEW e \in S,
         f = [x \in S |-> f[x]], g = [x \in S |-> g[x]],
         \A x \in S : x # e => g[x] = f[x]
  PROVE  g = [f EXCEPT ![e] = g[e]]
<1> DEFINE h == [f EXCEPT ![e] = g[e]]
<1>1. h = [x \in S |-> IF x = e THEN g[e] ELSE f[x]]
  OBVIOUS
<1>2. \A x \in S : h[x] = g[x]
  BY <1>1
<1> QED
  BY <1>1, <1>2

(* The promise's actions in terms of the fate of one event. *)
LEMMA OneFate ==
  ASSUME IInv, NEW e \in Events, Moved(e)
  PROVE  \A d \in Events : d # e => Fate'[d] = Fate[d]
  BY DEF IInv, Shape, Moved, Move, Fate

LEMMA PromiseMove ==
  ASSUME IInv, NEW e \in Events, Moved(e)
  PROVE  [Promise!Next]_(Promise!promise)
<1> USE DEF IInv, Shape
<1>0. Fate = [d \in Events |-> Fate[d]] /\ Fate' = [d \in Events |-> Fate'[d]]
  BY DEF Fate
<1>1. Fate' = [Fate EXCEPT ![e] = Fate'[e]]
  BY <1>0, OneFate, OnePlace
<1>2. received' = [received EXCEPT ![e] = received'[e]]
  BY DEF Moved, Move
<1>3. \/ Fate'[e] = Fate[e] /\ received'[e] = received[e]
      \/ Fate[e] = "none" /\ Fate'[e] = "pending" /\ received'[e] = received[e]
      \/ Fate[e] = "pending" /\ Fate'[e] = "pending" /\ received'[e] = TRUE
      \/ /\ Fate[e] = "pending" /\ received[e]
         /\ Fate'[e] = "delivered" /\ received'[e] = received[e]
      \/ Fate[e] = "pending" /\ Fate'[e] = "given_up" /\ received'[e] = received[e]
  BY DEF Moved, Move, Fate, Honest
<1>4. Fate = [Fate EXCEPT ![e] = Fate[e]] /\ received = [received EXCEPT ![e] = received[e]]
  BY <1>0, OnePlace
<1> QED
  BY <1>1, <1>2, <1>3, <1>4
     DEF Promise!Next, Promise!promise, Promise!Accept, Promise!Receive,
         Promise!Confirm, Promise!GiveUp

(* A restart puts running jobs back or drops them, and forgets dispatches: no *)
(* fate changes.                                                             *)
LEMMA PromiseCrash ==
  ASSUME IInv, Crash
  PROVE  UNCHANGED Promise!promise
  BY DEF IInv, Shape, Honest, Crash, Fate, Promise!promise, row, history

(* The row and the job of an event keep the promise: DELIVERED is written    *)
(* for events that arrived, and nothing is sent after a job is over.         *)
THEOREM DeliveryKeepsPromise == Spec => PromiseSpec
<1>1. Init => Promise!Init
  BY DEF Init, Promise!Init, Fate
<1>2. IInv /\ [Next]_vars => [Promise!Next]_(Promise!promise)
  <2> SUFFICES ASSUME IInv, [Next]_vars
               PROVE  [Promise!Next]_(Promise!promise)
    OBVIOUS
  <2>1. CASE UNCHANGED vars
    BY <2>1 DEF vars, row, queue, history, Fate, Promise!promise
  <2>2. CASE Crash
    BY <2>2, PromiseCrash
  <2>3. ASSUME NEW e \in Events, CreateDelivery(e) \/ Step(e) \/ Fault(e)
        PROVE  [Promise!Next]_(Promise!promise)
    BY <2>3, EveryMove, PromiseMove
  <2> QED
    BY <2>1, <2>2, <2>3 DEF Next
<1> QED
  BY <1>1, <1>2, AlwaysIInv, PTL DEF Spec, PromiseSpec, Promise!Spec

-----------------------------------------------------------------------------
(* The counters.  A run of a job, of which there is one for each attempt and *)
(* stall so far and perhaps one more, posts once and records two outcomes at *)
(* most; a row that is still PENDING had a failed call in every attempt.     *)
Counts ==
    /\ attempts \in [Events -> Nat]
    /\ tries \in [Events -> 0..MaxAttempts - 1]
    /\ stalls \in [Events -> 0..MaxStalledCount + 1]
    /\ posts \in [Events -> Nat]
    /\ faults \in 0..MaxFaults
    /\ crashes \in 0..MaxCrashes

(* What the run at hand has posted and recorded, at most. *)
Posted(step) ==
    IF step \in {"none", "adding", "queued", "send", "dropped"} THEN 0 ELSE 1

Recorded(step) ==
    IF step = "dead" THEN 2 ELSE IF step \in {"error", "done", "ended"} THEN 1 ELSE 0

Counted(e) ==
    /\ posts[e] <= tries[e] + stalls[e] + Posted(job[e])
    /\ attempts[e] <= 2 * (tries[e] + stalls[e]) + Recorded(job[e])
    /\ stalls[e] <= MaxStalledCount \/ job[e] = "dropped"

Spent(e) ==
    status[e] \in {"NONE", "PENDING"} =>
        IF job[e] = "dead" THEN MaxAttempts <= faults ELSE tries[e] <= faults

CountInv == IInv /\ Counts /\ \A e \in Events : Counted(e) /\ Spent(e)

LEMMA InitCountInv == Init => CountInv
<1> SUFFICES ASSUME Init PROVE Counts /\ \A e \in Events : Counted(e) /\ Spent(e)
  BY InitIInv DEF CountInv
<1>1. Counts
  BY BoundAssumption DEF Init, Counts, MaxStalledCount
<1>2. ASSUME NEW e \in Events PROVE Counted(e) /\ Spent(e)
  <2>1. /\ posts[e] = 0 /\ attempts[e] = 0 /\ tries[e] = 0 /\ job[e] = "none"
        /\ stalls[e] = 0 /\ faults = 0
    BY DEF Init
  <2> QED
    BY <2>1 DEF Counted, Spent, Posted, Recorded, MaxStalledCount
<1> QED
  BY <1>1, <1>2

(* A step of one event counts for that event alone. *)
Counting(e, s, n, step, t, p) ==
    /\ status' = [status EXCEPT ![e] = s]
    /\ attempts' = [attempts EXCEPT ![e] = n]
    /\ job' = [job EXCEPT ![e] = step]
    /\ tries' = [tries EXCEPT ![e] = t]
    /\ posts' = [posts EXCEPT ![e] = p]
    /\ UNCHANGED <<stalls, crashes>>
    /\ faults' \in {faults, faults + 1} /\ faults' \in 0..MaxFaults

(* What the counters of the new step must satisfy for the invariant to hold. *)
Sound(e, s, n, step, t, p) ==
    /\ n \in Nat /\ t \in 0..MaxAttempts - 1 /\ p \in Nat
    /\ p <= t + stalls[e] + Posted(step)
    /\ n <= 2 * (t + stalls[e]) + Recorded(step)
    /\ stalls[e] <= MaxStalledCount
    /\ s \in {"NONE", "PENDING"} =>
          IF step = "dead" THEN MaxAttempts <= faults' ELSE t <= faults'

(* Every action of one event is such a step. *)
LEMMA EveryCount ==
  ASSUME CountInv, NEW e \in Events, CreateDelivery(e) \/ Step(e) \/ Fault(e)
  PROVE  \E s, n, step, t, p : Counting(e, s, n, step, t, p) /\ Sound(e, s, n, step, t, p)
<1> DEFINE Counts1(s, n, step, t, p) ==
              Counting(e, s, n, step, t, p) /\ Sound(e, s, n, step, t, p)
<1>0. /\ attempts[e] \in Nat /\ tries[e] \in 0..MaxAttempts - 1 /\ posts[e] \in Nat
      /\ faults \in 0..MaxFaults /\ stalls[e] \in Nat
      /\ MaxAttempts \in Nat \ {0} /\ MaxFaults \in Nat
      /\ Counted(e) /\ Spent(e)
  BY BoundAssumption DEF CountInv, Counts, MaxStalledCount
<1>d. job[e] # "dropped"
  BY DEF CreateDelivery, Step, AddJob, Start, PostArrives, PostLost, RecordAnswer,
         RecordError, Complete, Fault
<1>s. /\ status = [status EXCEPT ![e] = status[e]]
      /\ attempts = [attempts EXCEPT ![e] = attempts[e]]
      /\ tries = [tries EXCEPT ![e] = tries[e]]
      /\ posts = [posts EXCEPT ![e] = posts[e]]
  BY DEF CountInv, Counts, IInv, Shape
<1> USE DEF Counting, Sound, Counted, Spent, Posted, Recorded, Goto
<1>1. CASE CreateDelivery(e)
  <2>1. Counts1("PENDING", attempts[e], "adding", tries[e], posts[e])
    BY <1>0, <1>d, <1>s, <1>1 DEF CreateDelivery, history, budget
  <2> QED
    BY <2>1
<1>2. CASE AddJob(e)
  <2>1. Counts1(status[e], attempts[e], "queued", tries[e], posts[e])
    BY <1>0, <1>d, <1>s, <1>2 DEF AddJob, row, history, budget
  <2> QED
    BY <2>1
<1>3. CASE Start(e)
  <2>1. Counts1(status[e], attempts[e], "send", tries[e], posts[e])
    BY <1>0, <1>d, <1>s, <1>3 DEF Start, row, history, budget
  <2> QED
    BY <2>1
<1>4. CASE PostArrives(e)
  <2>1. PICK answer \in {"ok", "refused", "error"} : Goto(e, answer)
    BY <1>4 DEF PostArrives
  <2>2. Counting(e, status[e], attempts[e], answer, tries[e], posts[e] + 1)
    BY <1>0, <1>d, <1>s, <1>4, <2>1 DEF PostArrives, row, budget
  <2>3. /\ Posted(answer) = 1 /\ Recorded(answer) \in {0, 1} /\ answer # "dead"
        /\ Posted(job[e]) = 0 /\ Recorded(job[e]) = 0 /\ job[e] # "dead"
        /\ faults' = faults
    BY <1>4 DEF PostArrives, budget
  <2>4. Sound(e, status[e], attempts[e], answer, tries[e], posts[e] + 1)
    BY <1>0, <1>d, <2>3
  <2> QED
    BY <2>2, <2>4
<1>5. CASE PostLost(e)
  <2>1. Counts1(status[e], attempts[e], "error", tries[e], posts[e] + 1)
    BY <1>0, <1>d, <1>s, <1>5 DEF PostLost, row, budget
  <2> QED
    BY <2>1
<1>6. CASE RecordAnswer(e)
  <2>1. CASE job[e] = "ok"
    <3>1. Counts1("DELIVERED", attempts[e] + 1, "done", tries[e], posts[e])
      BY <1>0, <1>d, <1>s, <1>6, <2>1 DEF RecordAnswer, Record, history, budget
    <3> QED
      BY <3>1
  <2>2. CASE job[e] = "refused"
    <3>1. Counts1("FAILED", attempts[e] + 1, "error", tries[e], posts[e])
      BY <1>0, <1>d, <1>s, <1>6, <2>2 DEF RecordAnswer, Record, history, budget
    <3> QED
      BY <3>1
  <2> QED
    BY <1>6, <2>1, <2>2 DEF RecordAnswer
<1>7. CASE RecordError(e)
  <2>1. CASE tries[e] < MaxAttempts - 1
    <3>1. Counts1("FAILED", attempts[e] + 1, "queued", tries[e] + 1, posts[e])
      BY <1>0, <1>d, <1>s, <1>7, <2>1 DEF RecordError, Record, Retry, history, budget
    <3> QED
      BY <3>1
  <2>2. CASE ~(tries[e] < MaxAttempts - 1)
    <3>1. Counts1("FAILED", attempts[e] + 1, "dead", tries[e], posts[e])
      BY <1>0, <1>d, <1>s, <1>7, <2>2 DEF RecordError, Record, Retry, history, budget
    <3> QED
      BY <3>1
  <2> QED
    BY <2>1, <2>2
<1>8. CASE Complete(e)
  <2>1. Counts1(status[e], attempts[e], "ended", tries[e], posts[e])
    BY <1>0, <1>d, <1>s, <1>8 DEF Complete, row, history, budget
  <2> QED
    BY <2>1
<1>9. CASE Fault(e)
  <2> USE DEF Fault, row, history
  <2>1. CASE job[e] = "adding"
    <3>1. Counts1(status[e], attempts[e], "none", tries[e], posts[e])
      BY <1>0, <1>d, <1>s, <1>9, <2>1
    <3> QED
      BY <3>1
  <2>2. CASE job[e] \in {"ok", "refused"}
    <3>1. Counts1(status[e], attempts[e], "error", tries[e], posts[e])
      BY <1>0, <1>d, <1>s, <1>9, <2>2
    <3> QED
      BY <3>1
  <2>3. CASE job[e] \in {"queued", "error"} /\ tries[e] < MaxAttempts - 1
    <3>1. Counts1(status[e], attempts[e], "queued", tries[e] + 1, posts[e])
      BY <1>0, <1>d, <1>s, <1>9, <2>3 DEF Retry
    <3> QED
      BY <3>1
  <2>4. CASE job[e] \in {"queued", "error"} /\ ~(tries[e] < MaxAttempts - 1)
    <3>1. Counts1(status[e], attempts[e], "dead", tries[e], posts[e])
      BY <1>0, <1>d, <1>s, <1>9, <2>4 DEF Retry
    <3> QED
      BY <3>1
  <2> QED
    BY <1>9, <2>1, <2>2, <2>3, <2>4
<1> QED
  BY <1>1, <1>2, <1>3, <1>4, <1>5, <1>6, <1>7, <1>8, <1>9 DEF Step

LEMMA CountInvStep == CountInv /\ [Next]_vars => CountInv'
<1> SUFFICES ASSUME CountInv, [Next]_vars
             PROVE  Counts' /\ \A e \in Events : Counted(e)' /\ Spent(e)'
  BY IInvStep DEF CountInv
<1>0. MaxAttempts \in Nat \ {0} /\ MaxFaults \in Nat /\ MaxCrashes \in Nat
  BY BoundAssumption
<1>1. CASE UNCHANGED vars
  BY <1>1 DEF vars, row, queue, history, budget, CountInv, Counts, Counted, Spent
<1>2. CASE Crash
  <2>1. Counts'
    <3>1. stalls' \in [Events -> 0..MaxStalledCount + 1]
      <4>1. ASSUME NEW e \in Events,
                   job[e] \in {"send", "ok", "refused", "error", "done"}
            PROVE  stalls[e] + 1 \in 0..MaxStalledCount + 1
        BY <4>1 DEF CountInv, Counts, Counted, MaxStalledCount
      <4> QED
        BY <1>2, <4>1 DEF Crash, CountInv, Counts
    <3>2. crashes' \in 0..MaxCrashes
      BY <1>0, <1>2 DEF Crash, CountInv, Counts
    <3> QED
      BY <1>2, <3>1, <3>2 DEF Crash, row, history, CountInv, Counts
  <2>2. ASSUME NEW e \in Events PROVE Counted(e)' /\ Spent(e)'
    <3>1. /\ posts[e] \in Nat /\ attempts[e] \in Nat /\ tries[e] \in Nat
          /\ stalls[e] \in Nat /\ faults \in Nat /\ Counted(e) /\ Spent(e)
      BY <1>0 DEF CountInv, Counts, MaxStalledCount
    <3>2. /\ posts'[e] = posts[e] /\ attempts'[e] = attempts[e] /\ tries'[e] = tries[e]
          /\ status'[e] = status[e] /\ faults' = faults
      BY <1>2 DEF Crash, row, history
    <3>3. \/ /\ job'[e] = job[e] \/ (job[e] = "adding" /\ job'[e] = "none")
             /\ stalls'[e] = stalls[e]
          \/ /\ job[e] \in {"send", "ok", "refused", "error", "done"}
             /\ job'[e] = "dropped" \/ (job'[e] = "queued" /\ stalls[e] < MaxStalledCount)
             /\ stalls'[e] = stalls[e] + 1
      BY <1>2, <3>1 DEF Crash, MaxStalledCount
    <3> QED
      BY <3>1, <3>2, <3>3 DEF Counted, Spent, Posted, Recorded, MaxStalledCount
  <2> QED
    BY <2>1, <2>2
<1>3. ASSUME NEW e \in Events, NEW s, NEW n, NEW step, NEW t, NEW p,
             Counting(e, s, n, step, t, p), Sound(e, s, n, step, t, p)
      PROVE  Counts' /\ \A d \in Events : Counted(d)' /\ Spent(d)'
  <2>1. Counts'
    BY <1>3 DEF Counting, Sound, CountInv, Counts
  <2>2. Counted(e)' /\ Spent(e)'
    <3>1. /\ status'[e] = s /\ attempts'[e] = n /\ job'[e] = step
          /\ tries'[e] = t /\ posts'[e] = p /\ stalls'[e] = stalls[e]
      BY <1>3 DEF Counting, CountInv, Counts, IInv, Shape
    <3> QED
      BY <1>3, <3>1 DEF Sound, Counted, Spent
  <2>3. ASSUME NEW d \in Events, d # e PROVE Counted(d)' /\ Spent(d)'
    <3>1. /\ status'[d] = status[d] /\ attempts'[d] = attempts[d] /\ job'[d] = job[d]
          /\ tries'[d] = tries[d] /\ posts'[d] = posts[d] /\ stalls'[d] = stalls[d]
      BY <1>3, <2>3 DEF Counting, CountInv, Counts, IInv, Shape
    <3>2. /\ Counted(d) /\ Spent(d) /\ tries[d] \in Nat /\ faults \in Nat
          /\ faults' \in {faults, faults + 1}
      BY <1>0, <1>3 DEF Counting, CountInv, Counts
    <3> QED
      BY <1>0, <3>1, <3>2 DEF Counted, Spent
  <2> QED
    BY <2>1, <2>2, <2>3
<1> QED
  BY <1>1, <1>2, <1>3, EveryCount DEF Next

LEMMA AlwaysCountInv == Spec => []CountInv
  BY InitCountInv, CountInvStep, PTL DEF Spec

(* Every variable stays in its type: however often the gateway restarts, an  *)
(* event is posted once, and its row written twice, per attempt and for one  *)
(* stall at most.                                                            *)
THEOREM TypeCorrect == Spec => []TypeOK
<1>1. CountInv => TypeOK
  <2> SUFFICES ASSUME CountInv PROVE TypeOK
    OBVIOUS
  <2>0. MaxAttempts \in Nat \ {0} /\ MaxStalledCount = 1
    BY BoundAssumption DEF MaxStalledCount
  <2>1. ASSUME NEW e \in Events
        PROVE  posts[e] \in 0..MaxRuns /\ attempts[e] \in 0..2 * MaxRuns
    <3>1. /\ posts[e] \in Nat /\ attempts[e] \in Nat
          /\ tries[e] \in 0..MaxAttempts - 1 /\ stalls[e] \in 0..2 /\ Counted(e)
      BY <2>0 DEF CountInv, Counts
    <3>2. /\ stalls[e] + Posted(job[e]) <= 2
          /\ 2 * stalls[e] + Recorded(job[e]) <= 4
      BY <2>0, <3>1 DEF Counted, Posted, Recorded
    <3> QED
      BY <2>0, <3>1, <3>2 DEF Counted, Posted, Recorded, MaxRuns
  <2> QED
    BY <2>1 DEF CountInv, Counts, IInv, Shape, TypeOK
<1> QED
  BY <1>1, AlwaysCountInv, PTL

(* An event whose job has ended or used up its attempts is marked DELIVERED  *)
(* or FAILED, and rightly so, as long as fewer calls to the database fail    *)
(* than a job has attempts: each attempt that leaves the row PENDING takes a *)
(* failed call.  A job that BullMQ drops at its second stall leaves the row  *)
(* as it is, PENDING perhaps: nothing is claimed of it but that DELIVERED is *)
(* true.                                                                     *)
THEOREM SettledCorrect ==
  ASSUME MaxFaults < MaxAttempts
  PROVE  Spec => []SettledIsMarked
<1>1. CountInv => SettledIsMarked
  <2> SUFFICES ASSUME CountInv, NEW e \in Events
               PROVE  /\ job[e] = "dead" => status[e] # "PENDING"
                      /\ job[e] = "ended" => status[e] = "DELIVERED" /\ received[e]
                      /\ status[e] = "DELIVERED" => received[e]
    BY DEF SettledIsMarked
  <2>1. job[e] = "dead" => status[e] # "PENDING"
    BY BoundAssumption DEF CountInv, Counts, Spent
  <2> QED
    BY <2>1 DEF CountInv, IInv, Honest
<1> QED
  BY <1>1, AlwaysCountInv, PTL
=============================================================================

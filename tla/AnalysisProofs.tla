--------------------------- MODULE AnalysisProofs ---------------------------
(* Of Analysis, for any number of accounts, jobs, reviewers and restarts:    *)
(* type correctness, and that an outcome which was written is told.          *)
EXTENDS Analysis, TLAPS

LEMMA InitTypeOK == Init => TypeOK
  BY BoundAssumption DEF Init, TypeOK, MaxStalledCount

QueueTypeOK ==
    /\ job \in [Jobs -> {"none", "queued", "gather", "brain", "rejected", "write",
                         "tell", "fail", "failTell"}]
    /\ tries \in [Jobs -> 0..MaxAttempts - 1]
    /\ last \in [Jobs -> BOOLEAN]
    /\ picked \in [Jobs -> SUBSET Accounts]
    /\ stalls \in [Jobs -> Nat]

(* What the three ways out of a step do to the job. *)
LEMMA QueueWrites ==
  ASSUME QueueTypeOK, NEW j \in Jobs
  PROVE  /\ \A step \in {"queued", "brain", "rejected", "write", "tell", "fail", "failTell"} :
               Goto(j, step) => QueueTypeOK'
         /\ Finish(j) => QueueTypeOK'
         /\ Rethrow(j) => QueueTypeOK'
<1> USE BoundAssumption DEF QueueTypeOK, MaxStalledCount
<1>1. ASSUME NEW step \in {"queued", "brain", "rejected", "write", "tell", "fail", "failTell"},
             Goto(j, step)
      PROVE  QueueTypeOK'
  BY <1>1 DEF Goto
<1>2. Finish(j) => QueueTypeOK'
  BY DEF Finish
<1>3. Rethrow(j) => QueueTypeOK'
  <2>1. ~IsLastAttempt(j) => tries[j] + 1 \in 0..MaxAttempts - 1
    BY DEF IsLastAttempt
  <2> QED
    BY <1>2, <2>1 DEF Rethrow
<1> QED
  BY <1>1, <1>2, <1>3

LEMMA JobTypeStep ==
  ASSUME TypeOK, NEW j \in Jobs,
         JobStep(j) \/ Analyze(j) \/ BrainUnavailable(j) \/ Fault(j)
  PROVE  TypeOK'
<1> USE BoundAssumption
<1>1. QueueTypeOK
  BY DEF TypeOK, QueueTypeOK
<1>2. QueueTypeOK'
  <2>1. CASE Begin(j)
    BY <1>1, <2>1 DEF Begin, QueueTypeOK, Target, TypeOK
  <2>2. CASE Analyze(j)
    BY <1>1, <2>2 DEF Analyze, QueueTypeOK, MaxStalledCount
  <2> QED
    BY <1>1, <2>1, <2>2, QueueWrites
       DEF JobStep, Gather, BrainAnswers, WriteDecision, TellDecision, FailWrite,
           FailTell, BrainUnavailable, Fault
<1>3. /\ appStatus' \in {"PENDING", "LINKED", "COMPLETED", "MANUAL_REVIEW", "FAILED"}
      /\ ids' \in SUBSET Accounts
      /\ untold' \in SUBSET Jobs
  BY DEF TypeOK, JobStep, Begin, Gather, BrainAnswers, WriteDecision,
         TellDecision, FailWrite, FailTell, Analyze, BrainUnavailable, Fault, row, history
<1>4. heard' \in [Jobs -> BOOLEAN]
  BY DEF TypeOK, JobStep, Begin, Gather, BrainAnswers, WriteDecision, TellDecision,
         FailWrite, FailTell, Analyze, BrainUnavailable, Fault, history
<1>5. trouble' \in 0..MaxTrouble /\ UNCHANGED <<data, review, crashes>>
  BY DEF TypeOK, JobStep, Begin, Gather, BrainAnswers, WriteDecision, TellDecision,
         FailWrite, FailTell, Analyze, BrainUnavailable, Fault, budget
<1> QED
  BY <1>2, <1>3, <1>4, <1>5 DEF TypeOK, QueueTypeOK, data

LEMMA NextTypeOK == TypeOK /\ [Next]_vars => TypeOK'
<1> SUFFICES ASSUME TypeOK, [Next]_vars PROVE TypeOK'
  OBVIOUS
<1> USE DEF TypeOK, row, data, queue, history, budget
<1>1. ASSUME NEW v \in Reviewers, ReviewRead(v) \/ ManualDecision(v) PROVE TypeOK'
  BY <1>1 DEF ReviewRead, ManualDecision
<1>2. ASSUME NEW a \in Accounts, AccountChanges(a) PROVE TypeOK'
  BY <1>2 DEF AccountChanges
<1>3. CASE Crash
  <2>1. tries' \in [Jobs -> 0..MaxAttempts - 1] /\ stalls' \in [Jobs -> Nat]
    BY <1>3, BoundAssumption DEF Crash, MaxStalledCount
  <2>2. job' \in [Jobs -> {"none", "queued", "gather", "brain", "rejected", "write",
                           "tell", "fail", "failTell"}]
    BY <1>3 DEF Crash
  <2> QED
    BY <1>3, <2>1, <2>2, BoundAssumption DEF Crash
<1>4. CASE FlagForManualReview
  BY <1>4 DEF FlagForManualReview
<1>5. CASE UNCHANGED vars
  BY <1>5 DEF vars
<1> QED
  BY <1>1, <1>2, <1>3, <1>4, <1>5, JobTypeStep DEF Next

(* Every reachable state is well typed. *)
THEOREM TypeCorrect == Spec => []TypeOK
  BY InitTypeOK, NextTypeOK, PTL DEF Spec

-----------------------------------------------------------------------------
(* OutcomeIsTold is not inductive: that the job does not give up before it   *)
(* tells rests on the troubles it has left.                                  *)

(* Every attempt a job has lost, and the entry into its last failure         *)
(* handler, was paid for with a trouble, so there is none left to lose the   *)
(* answer of that handler.                                                   *)
Paid(j) ==
    /\ last[j] => tries[j] = MaxAttempts - 1
    /\ tries[j] + (IF last[j] THEN 1 ELSE 0) <= trouble

OutcomeInv ==
    /\ TypeOK /\ OutcomeIsTold
    /\ \A j \in Jobs : Paid(j)

(* How a job may move. *)
JobMove(j) ==
    \/ /\ job'[j] = job[j] /\ tries'[j] = tries[j] /\ last'[j] = last[j]
       /\ stalls'[j] = stalls[j] /\ trouble' >= trouble
    \/ JobStep(j) \/ Analyze(j) \/ BrainUnavailable(j) \/ Fault(j)
    \/ Crash

LEMMA JobMoves ==
  ASSUME TypeOK, [Next]_vars, NEW j \in Jobs
  PROVE  JobMove(j)
<1> USE DEF JobMove
<1>0. trouble \in Nat
  BY BoundAssumption DEF TypeOK
<1>1. ASSUME NEW i \in Jobs, i # j,
             JobStep(i) \/ Analyze(i) \/ BrainUnavailable(i) \/ Fault(i)
      PROVE  /\ job'[j] = job[j] /\ tries'[j] = tries[j] /\ last'[j] = last[j]
             /\ stalls'[j] = stalls[j] /\ trouble' >= trouble
  BY <1>0, <1>1
     DEF TypeOK, JobStep, Begin, Gather, BrainAnswers, WriteDecision, TellDecision,
         FailWrite, FailTell, Analyze, BrainUnavailable, Fault, Goto, Finish, Rethrow,
         budget
<1>2. CASE UNCHANGED <<queue, budget>>
  BY <1>0, <1>2 DEF queue, budget
<1> QED
  BY <1>1, <1>2 DEF Next, vars, ReviewRead, ManualDecision, FlagForManualReview,
                    AccountChanges

LEMMA PaidStep ==
  ASSUME TypeOK, [Next]_vars, NEW j \in Jobs, Paid(j)
  PROVE  Paid(j)'
<1> USE BoundAssumption DEF Paid
<1>0. /\ trouble \in Nat /\ last[j] \in BOOLEAN
      /\ tries[j] \in Nat /\ tries[j] <= MaxAttempts - 1
  BY DEF TypeOK
<1>1. CASE tries'[j] = tries[j] /\ last'[j] = last[j] /\ trouble' \in Nat /\ trouble' >= trouble
  BY <1>0, <1>1
<1>2. CASE Finish(j) /\ trouble' \in Nat
  <2>1. tries'[j] = 0 /\ last'[j] = FALSE
    BY <1>2 DEF Finish, TypeOK
  <2> QED
    BY <1>2, <2>1
<1>3. CASE Rethrow(j) /\ trouble' = trouble + 1
  <2>1. CASE ~last[j] /\ ~IsLastAttempt(j)
    <3>1. tries'[j] = tries[j] + 1 /\ last'[j] = last[j]
      BY <1>3, <2>1 DEF Rethrow, TypeOK
    <3> QED
      BY <1>0, <1>3, <2>1, <3>1
  <2>2. CASE ~last[j] /\ IsLastAttempt(j)
    <3>1. tries'[j] = tries[j] /\ last'[j] = TRUE
      BY <1>3, <2>2 DEF Rethrow, TypeOK
    <3> QED
      BY <1>0, <1>3, <2>2, <3>1 DEF IsLastAttempt
  <2> QED
    BY <1>0, <1>2, <1>3, <2>1, <2>2 DEF Rethrow
<1>4. CASE Crash
  <2>1. tries'[j] \in {0, tries[j]} /\ last'[j] = FALSE /\ trouble' = trouble
    BY <1>4 DEF Crash
  <2> QED
    BY <1>0, <2>1
<1>5. CASE JobStep(j) \/ Analyze(j)
  <2>1. trouble' = trouble /\ (Finish(j) \/ UNCHANGED <<tries, last>>)
    BY <1>5 DEF JobStep, Begin, Gather, BrainAnswers, WriteDecision, TellDecision,
                FailWrite, FailTell, Analyze, Goto, budget
  <2> QED
    BY <1>0, <1>1, <1>2, <2>1
<1>6. CASE BrainUnavailable(j) \/ Fault(j)
  <2>1. trouble' = trouble + 1 /\ (Rethrow(j) \/ UNCHANGED <<tries, last>>)
    BY <1>6 DEF BrainUnavailable, Fault, Goto
  <2> QED
    BY <1>0, <1>1, <1>3, <2>1
<1>7. trouble' \in Nat
  BY NextTypeOK DEF TypeOK
<1> QED
  BY <1>1, <1>4, <1>5, <1>6, <1>7, JobMoves DEF JobMove

(* With no more troubles than attempts a job leaves the queue only by        *)
(* telling its outcome, or by stalling once too often.                       *)
Ends(j) ==
    \/ job'[j] # "none"
    \/ job'[j] = job[j] /\ stalls'[j] = stalls[j]
    \/ TellDecision(j) \/ FailTell(j)
    \/ stalls'[j] > MaxStalledCount

LEMMA JobsEnd ==
  ASSUME MaxTrouble <= MaxAttempts,
         TypeOK, [Next]_vars, NEW j \in Jobs, Paid(j)
  PROVE  Ends(j)
<1> USE DEF Ends
<1>0. job \in [Jobs -> {"none", "queued", "gather", "brain", "rejected", "write",
                        "tell", "fail", "failTell"}]
  BY DEF TypeOK
<1>1. ASSUME NEW s, s # "none", Goto(j, s) PROVE Ends(j)
  BY <1>0, <1>1 DEF Goto
<1>2. CASE Rethrow(j) /\ trouble < MaxTrouble
  <2>1. ~last[j]
    BY <1>2, BoundAssumption DEF Paid, TypeOK
  <2>2. job'[j] \in {"queued", "fail"}
    BY <1>0, <1>2, <2>1 DEF Rethrow
  <2> QED
    BY <2>2
<1>3. CASE BrainUnavailable(j) \/ Fault(j)
  BY <1>1, <1>2, <1>3 DEF BrainUnavailable, Fault
<1>4. CASE Begin(j)
  BY <1>0, <1>4 DEF Begin
<1>5. CASE Analyze(j)
  BY <1>0, <1>5 DEF Analyze
<1>6. CASE Gather(j) \/ BrainAnswers(j) \/ WriteDecision(j) \/ FailWrite(j)
  BY <1>1, <1>6 DEF Gather, BrainAnswers, WriteDecision, FailWrite
<1>7. CASE Crash
  <2>1. CASE job[j] = "none"
    BY <1>7, <2>1 DEF Crash
  <2>2. CASE job[j] # "none" /\ job'[j] = "none"
    <3>1. stalls[j] >= MaxStalledCount /\ stalls'[j] = stalls[j] + 1
      BY <1>7, <2>2 DEF Crash
    <3>2. stalls[j] \in Nat
      BY DEF TypeOK
    <3> QED
      BY <3>1, <3>2 DEF MaxStalledCount
  <2> QED
    BY <2>1, <2>2
<1> QED
  BY <1>3, <1>4, <1>5, <1>6, <1>7, JobMoves DEF JobMove, JobStep

(* Only the job that writes an outcome comes to owe its event. *)
LEMMA OutcomeMoves ==
  ASSUME TypeOK, [Next]_vars, NEW j \in untold'
  PROVE  \/ j \in untold /\ ~TellDecision(j) /\ ~FailTell(j)
         \/ WriteDecision(j) \/ FailWrite(j)
<1>1. CASE UNCHANGED untold
  BY <1>1 DEF TypeOK, TellDecision, FailTell
<1>2. ASSUME NEW i \in Jobs,
             WriteDecision(i) \/ TellDecision(i) \/ FailWrite(i) \/ FailTell(i)
      PROVE  \/ j \in untold /\ ~TellDecision(j) /\ ~FailTell(j)
             \/ WriteDecision(j) \/ FailWrite(j)
  BY <1>2 DEF TypeOK, WriteDecision, TellDecision, FailWrite, FailTell
<1>3. \/ UNCHANGED untold
      \/ \E i \in Jobs : \/ WriteDecision(i) \/ TellDecision(i)
                         \/ FailWrite(i) \/ FailTell(i)
  BY DEF Next, vars, history, JobStep, Begin, Gather, BrainAnswers, Analyze,
         BrainUnavailable, Fault, ReviewRead, ManualDecision, FlagForManualReview,
         AccountChanges, Crash
<1> QED
  BY <1>1, <1>2, <1>3

LEMMA OutcomeStep ==
  ASSUME MaxTrouble <= MaxAttempts, OutcomeInv, [Next]_vars
  PROVE  OutcomeIsTold'
<1> SUFFICES ASSUME NEW j \in untold'
             PROVE  job'[j] # "none" \/ stalls'[j] > MaxStalledCount
  BY DEF OutcomeIsTold
<1>0. TypeOK /\ TypeOK'
  BY NextTypeOK DEF OutcomeInv
<1>1. j \in Jobs /\ Paid(j)
  BY <1>0 DEF TypeOK, OutcomeInv
<1>2. CASE WriteDecision(j) \/ FailWrite(j)
  BY <1>0, <1>1, <1>2 DEF WriteDecision, FailWrite, Goto, TypeOK
<1>3. CASE j \in untold /\ ~TellDecision(j) /\ ~FailTell(j)
  <2>1. job[j] # "none" \/ stalls[j] > MaxStalledCount
    BY <1>3 DEF OutcomeInv, OutcomeIsTold
  <2>2. Ends(j)
    BY <1>0, <1>1, JobsEnd
  <2> QED
    BY <1>3, <2>1, <2>2 DEF Ends
<1> QED
  BY <1>0, <1>2, <1>3, OutcomeMoves

(* The last outcome an analysis wrote is told by the job that wrote it,      *)
(* whatever jobs, reviewers, retries and restarts come in between; only a    *)
(* job that stalls twice keeps it.  The hypothesis is the tight one: a       *)
(* trouble for each attempt and one more, in the last failure handler, loses *)
(* the event in the code.                                                    *)
THEOREM OutcomeCorrect ==
  ASSUME MaxTrouble <= MaxAttempts
  PROVE  Spec => []OutcomeIsTold
<1>1. Init => OutcomeInv
  <2>1. ASSUME Init, NEW j \in Jobs PROVE Paid(j)
    BY <2>1 DEF Init, Paid
  <2> QED
    BY <2>1, InitTypeOK DEF Init, OutcomeInv, OutcomeIsTold
<1>2. OutcomeInv /\ [Next]_vars => OutcomeInv'
  <2> SUFFICES ASSUME OutcomeInv, [Next]_vars PROVE OutcomeInv'
    OBVIOUS
  <2>1. TypeOK' /\ \A j \in Jobs : Paid(j)'
    BY NextTypeOK, PaidStep DEF OutcomeInv
  <2> QED
    BY <2>1, OutcomeStep DEF OutcomeInv
<1>3. OutcomeInv => OutcomeIsTold
  BY DEF OutcomeInv
<1> QED
  BY <1>1, <1>2, <1>3, PTL DEF Spec
=============================================================================

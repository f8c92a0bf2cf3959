-------------------------- MODULE OriginationProofs -------------------------
(* Of Origination, for any number of applications, requests, handlers, scans *)
(* and failing calls: type correctness, that an application that is LINKED   *)
(* or finalized has accounts, and that ready_for_analysis is not lost to an  *)
(* interleaving.                                                             *)
EXTENDS Origination, TLAPS

(* Every variable starts in its type. *)
LEMMA InitTypeOK == Init => TypeOK
  BY NilAssumption, ResendsAssumption, ErrorsAssumption
     DEF Init, TypeOK, AccountTypeOK, AppTypeOK, ReqTypeOK, LinkTypeOK,
         CheckTypeOK, ScanTypeOK, FaultTypeOK, AppStatuses, Life!Init, Life!Statuses

(* A step that leaves a group of variables alone leaves its type alone. *)
LEMMA Frames ==
  /\ AccountTypeOK /\ UNCHANGED accts => AccountTypeOK'
  /\ AppTypeOK /\ UNCHANGED app => AppTypeOK'
  /\ ReqTypeOK /\ UNCHANGED reqs => ReqTypeOK'
  /\ LinkTypeOK /\ UNCHANGED links => LinkTypeOK'
  /\ CheckTypeOK /\ UNCHANGED chks => CheckTypeOK'
  /\ ScanTypeOK /\ UNCHANGED scans => ScanTypeOK'
  /\ FaultTypeOK /\ UNCHANGED faults => FaultTypeOK'
  /\ FaultTypeOK /\ UNCHANGED errors /\ missed' \in [Apps -> BOOLEAN] => FaultTypeOK'
  /\ FaultTypeOK /\ CallFails /\ missed' \in [Apps -> BOOLEAN] => FaultTypeOK'
BY ErrorsAssumption
   DEF AccountTypeOK, AppTypeOK, ReqTypeOK, LinkTypeOK, CheckTypeOK,
       ScanTypeOK, FaultTypeOK, CallFails, faults, accts, app, reqs, links, chks, scans

(* Replying to a request or moving it on keeps the requests well typed. *)
LEMMA RequestWrites ==
  ASSUME ReqTypeOK, NEW r
  PROVE  /\ Reply(r) => ReqTypeOK'
         /\ \A step, p, ids :
               /\ ContinueWith(r, step, p, ids)
               /\ step \in {"create", "resume", "finalize", "confirm"}
               /\ p \in Apps \cup {Nil}
               /\ ids \in SUBSET Accounts
               => ReqTypeOK'
BY DEF ReqTypeOK, Reply, ContinueWith

(* One update of a function by a value of its range. *)
LEMMA Update ==
  ASSUME NEW S, NEW T, NEW f \in [S -> T], NEW x, NEW v \in T
  PROVE  [f EXCEPT ![x] = v] \in [S -> T]
OBVIOUS

(* The counter of an application stays within its bound. *)
LEMMA SendWrites ==
  ASSUME AppTypeOK, NEW p \in Apps
  PROVE  /\ SendReady(p) => sent' \in [Apps -> 0..Resends]
         /\ sent' = [sent EXCEPT ![p] = 0] => sent' \in [Apps -> 0..Resends]
<1>1. 0 \in 0..Resends
  BY ResendsAssumption
<1>2. \A n \in 0..Resends : (IF n < Resends THEN n + 1 ELSE n) \in 0..Resends
  BY ResendsAssumption
<1>3. sent \in [Apps -> 0..Resends] /\ sent[p] \in 0..Resends
  BY DEF AppTypeOK
<1>4. (IF sent[p] < Resends THEN sent[p] + 1 ELSE sent[p]) \in 0..Resends
  BY <1>2, <1>3
<1> QED
  BY <1>1, <1>3, <1>4, Update DEF SendReady

(* What the actions of the accounts' life cycle do to the accounts. *)
LEMMA LifeWrites ==
  ASSUME AccountTypeOK, NEW a, NEW S
  PROVE  /\ Life!Open(a) => AccountTypeOK'
         /\ Life!Complete(a) => AccountTypeOK'
         /\ Life!Announce(a) => AccountTypeOK'
         /\ Life!Fail(a) => AccountTypeOK'
         /\ Life!Scrub(S) => AccountTypeOK'
<1>0. ASSUME NEW d \in {-1, 1}, owed' = [owed EXCEPT ![a] = owed[a] + d]
      PROVE  owed' \in [Accounts -> Int]
  <2>1. owed \in [Accounts -> Int]
    BY DEF AccountTypeOK
  <2>2. CASE a \in Accounts
    <3>1. owed[a] + d \in Int
      BY <2>1, <2>2
    <3> QED
      BY <1>0, <2>1, <3>1, Update
  <2>3. CASE a \notin Accounts
    BY <1>0, <2>1, <2>3
  <2> QED
    BY <2>2, <2>3
<1> USE DEF AccountTypeOK, Life!Statuses
<1>1. Life!Open(a) => AccountTypeOK'
  BY DEF Life!Open
<1>2. Life!Complete(a) => AccountTypeOK'
  BY <1>0 DEF Life!Complete
<1>3. Life!Announce(a) => AccountTypeOK'
  <2>1. Life!Announce(a) => owed' = [owed EXCEPT ![a] = owed[a] + (-1)]
    BY DEF Life!Announce
  <2> QED
    BY <1>0, <2>1 DEF Life!Announce
<1>4. Life!Fail(a) => AccountTypeOK'
  BY DEF Life!Fail
<1>5. Life!Scrub(S) => AccountTypeOK'
  BY DEF Life!Scrub
<1> QED
  BY <1>1, <1>2, <1>3, <1>4, <1>5

(* The API requests, and what happens to one application. *)
LEMMA RequestTypeStep ==
  ASSUME TypeOK, NEW r \in Requests,
         \/ RequestStep(r) \/ RequestFails(r)
         \/ \E p \in Apps : Initiate(r, p) \/ FinalizeRead(r, p)
  PROVE  TypeOK'
<1> USE Frames, RequestWrites DEF TypeOK
<1>1. ASSUME NEW p \in Apps, Initiate(r, p) PROVE TypeOK'
  BY <1>1 DEF Initiate
<1>2. ASSUME NEW p \in Apps, FinalizeRead(r, p) PROVE TypeOK'
  <2>1. accountIds[p] \in SUBSET Accounts
    BY DEF AppTypeOK
  <2> QED
    BY <1>2, <2>1 DEF FinalizeRead
<1>3. CASE InitiateCreate(r)
  <2>1. AppTypeOK'
    BY <1>3 DEF InitiateCreate, AppTypeOK, AppStatuses, SetStatus
  <2> QED
    BY <1>3, <2>1 DEF InitiateCreate
<1>4. CASE InitiateResume(r)
  <2>1. AppTypeOK'
    <3>1. CASE reqApp[r] \in Apps
      BY <1>4, <3>1, SendWrites
         DEF InitiateResume, AppTypeOK, AppStatuses, SetStatus, Touch
    <3>2. CASE reqApp[r] \notin Apps
      BY <1>4, <3>2
         DEF InitiateResume, AppTypeOK, AppStatuses, SetStatus, Touch
    <3> QED
      BY <3>1, <3>2
  <2>2. missed' \in [Apps -> BOOLEAN]
    BY <1>4 DEF InitiateResume, FaultTypeOK
  <2> QED
    BY <1>4, <2>1, <2>2 DEF InitiateResume
<1>5. CASE FinalizeWrite(r)
  <2>1. AppTypeOK'
    BY <1>5 DEF FinalizeWrite, AppTypeOK, Touch
  <2>2. reqApp[r] \in Apps \cup {Nil} /\ reqIds[r] \in SUBSET Accounts
    BY DEF ReqTypeOK
  <2> QED
    BY <1>5, <2>1, <2>2 DEF FinalizeWrite
<1>6. CASE FinalizeConfirm(r)
  <2>1. AppTypeOK'
    <3>1. CASE reqApp[r] \in Apps
      BY <1>6, <3>1, SendWrites DEF FinalizeConfirm, AppTypeOK
    <3>2. CASE reqApp[r] \notin Apps
      BY <1>6, <3>2 DEF FinalizeConfirm, AppTypeOK, SendReady
    <3> QED
      BY <3>1, <3>2
  <2> QED
    BY <1>6, <2>1 DEF FinalizeConfirm
<1>7. CASE RequestFails(r)
  <2>1. missed' \in [Apps -> BOOLEAN]
    BY <1>7 DEF RequestFails, Misses, FaultTypeOK
  <2> QED
    BY <1>7, <2>1 DEF RequestFails
<1> QED
  BY <1>1, <1>2, <1>3, <1>4, <1>5, <1>6, <1>7 DEF RequestStep

LEMMA LinkTypeStep ==
  ASSUME TypeOK, NEW l \in Links,
         \/ AttachApplication(l) \/ LinkFails(l)
         \/ \E a \in Accounts, p \in Apps : ReceiveLink(l, a, p)
  PROVE  TypeOK'
<1> USE Frames, LifeWrites DEF TypeOK
<1>1. ASSUME NEW a \in Accounts, NEW p \in Apps, ReceiveLink(l, a, p)
      PROVE  TypeOK'
  <2>1. LinkTypeOK'
    BY <1>1 DEF ReceiveLink, LinkTypeOK
  <2> QED
    BY <1>1, <2>1 DEF ReceiveLink
<1>2. CASE AttachApplication(l)
  <2>1. LinkTypeOK'
    BY <1>2 DEF AttachApplication, LinkTypeOK
  <2>2. AppTypeOK'
    <3>1. link[l] \in Accounts
      BY <1>2 DEF AttachApplication, LinkTypeOK
    <3>2. CASE linkApp[l] \in Apps
      <4>1. accountIds[linkApp[l]] \cup {link[l]} \in SUBSET Accounts
        BY <3>1, <3>2 DEF AppTypeOK
      <4> QED
        BY <1>2, <3>2, <4>1, SendWrites, Update
           DEF AttachApplication, AppTypeOK, AppStatuses, SetStatus, Touch
    <3>3. CASE linkApp[l] \notin Apps
      BY <1>2, <3>3
         DEF AttachApplication, AppTypeOK, AppStatuses, SetStatus, Touch
    <3> QED
      BY <3>2, <3>3
  <2>3. missed' \in [Apps -> BOOLEAN]
    <3>1. (missed[linkApp[l]] \/ TooLate(link[l], linkApp[l])) \in BOOLEAN
      BY DEF TooLate
    <3> QED
      BY <1>2, <3>1, Update DEF AttachApplication, FaultTypeOK
  <2> QED
    BY <1>2, <2>1, <2>2, <2>3 DEF AttachApplication
<1>3. CASE LinkFails(l)
  <2>1. LinkTypeOK'
    BY <1>3 DEF LinkFails, LinkTypeOK
  <2> QED
    BY <1>3, <2>1 DEF LinkFails
<1> QED
  BY <1>1, <1>2, <1>3

LEMMA CheckTypeStep ==
  ASSUME TypeOK, NEW k \in Checkers,
         \/ CheckStep(k) \/ CheckFails(k)
         \/ \E a \in Accounts : CompleteAccount(k, a)
  PROVE  TypeOK'
<1> USE Frames, LifeWrites DEF TypeOK
<1>1. ASSUME NEW a \in Accounts, CompleteAccount(k, a) PROVE TypeOK'
  <2>1. CheckTypeOK'
    BY <1>1 DEF CompleteAccount, CheckTypeOK
  <2> QED
    BY <1>1, <2>1 DEF CompleteAccount
<1>2. CASE TellReady(k)
  <2>1. CheckTypeOK'
    BY <1>2 DEF TellReady, CheckTypeOK
  <2> QED
    BY <1>2, <2>1 DEF TellReady
<1>3. CASE FindApplications(k)
  <2>1. CheckTypeOK'
    BY <1>3 DEF FindApplications, Awaiting, CheckTypeOK, AppTypeOK
  <2> QED
    BY <1>3, <2>1 DEF FindApplications
<1>4. ASSUME NEW p \in Apps, ConfirmApplication(k, p) PROVE TypeOK'
  <2>1. CheckTypeOK'
    BY <1>4 DEF ConfirmApplication, CheckTypeOK
  <2>2. AppTypeOK'
    BY <1>4, SendWrites DEF ConfirmApplication, AppTypeOK
  <2> QED
    BY <1>4, <2>1, <2>2 DEF ConfirmApplication
<1>5. CASE EndCheck(k)
  <2>1. CheckTypeOK'
    BY <1>5 DEF EndCheck, CheckTypeOK
  <2> QED
    BY <1>5, <2>1 DEF EndCheck
<1>6. CASE CheckFails(k)
  <2>1. CheckTypeOK'
    BY <1>6 DEF CheckFails, CheckTypeOK
  <2>2. missed' \in [Apps -> BOOLEAN]
    BY <1>6 DEF CheckFails, Misses, FaultTypeOK
  <2> QED
    BY <1>6, <2>1, <2>2 DEF CheckFails
<1> QED
  BY <1>1, <1>2, <1>3, <1>4, <1>5, <1>6 DEF CheckStep

LEMMA ScanTypeStep ==
  ASSUME TypeOK, NEW c \in Cleaners, ScanStep(c) \/ ScanFails(c)
  PROVE  TypeOK'
<1> USE Frames, LifeWrites DEF TypeOK
<1>1. CASE StartNoLink(c)
  <2>1. ScanTypeOK'
    BY <1>1 DEF StartNoLink, ScanTypeOK
  <2> QED
    BY <1>1, <2>1 DEF StartNoLink
<1>2. CASE StartNoAnalyze(c)
  <2>1. ScanTypeOK'
    BY <1>2 DEF StartNoAnalyze, ScanTypeOK, Rows
  <2> QED
    BY <1>2, <2>1 DEF StartNoAnalyze
<1>3. CASE ScrubAccounts(c)
  <2>1. ScanTypeOK'
    BY <1>3 DEF ScrubAccounts, ScanTypeOK
  <2> QED
    BY <1>3, <2>1 DEF ScrubAccounts
<1>4. CASE EndScan(c)
  <2>1. ScanTypeOK'
    BY <1>4 DEF EndScan, ScanTypeOK
  <2> QED
    BY <1>4, <2>1 DEF EndScan
<1>5. ASSUME NEW p \in Apps, AbandonNoLink(c, p) \/ AbandonNoAnalyze(c, p)
      PROVE  TypeOK'
  <2>1. ScanTypeOK'
    BY <1>5 DEF AbandonNoLink, AbandonNoAnalyze, ScanTypeOK
  <2>2. AppTypeOK'
    BY <1>5 DEF AbandonNoLink, AbandonNoAnalyze, AppTypeOK, AppStatuses,
                SetStatus, Touch
  <2> QED
    BY <1>5, <2>1, <2>2 DEF AbandonNoLink, AbandonNoAnalyze
<1>6. CASE ScanFails(c)
  <2>1. ScanTypeOK'
    BY <1>6 DEF ScanFails, ScanTypeOK
  <2>2. missed' \in [Apps -> BOOLEAN]
    BY <1>6 DEF ScanFails, FaultTypeOK
  <2> QED
    BY <1>6, <2>1, <2>2 DEF ScanFails
<1> QED
  BY <1>1, <1>2, <1>3, <1>4, <1>5, <1>6 DEF ScanStep

LEMMA AppTypeStep ==
  ASSUME TypeOK, NEW p \in Apps,
         \/ CreateApplication(p) \/ AnalysisWrites(p) \/ ReviewWrites(p)
         \/ DayPasses(p) \/ WeekPasses(p)
  PROVE  TypeOK'
<1> USE Frames DEF TypeOK
<1>1. CASE CreateApplication(p)
  <2>1. AppTypeOK'
    BY <1>1 DEF CreateApplication, AppTypeOK, AppStatuses, SetStatus
  <2> QED
    BY <1>1, <2>1 DEF CreateApplication
<1>2. CASE AnalysisWrites(p)
  <2>1. AppTypeOK'
    BY <1>2 DEF AnalysisWrites, AppTypeOK, AppStatuses, SetStatus, Touch, Rows
  <2> QED
    BY <1>2, <2>1 DEF AnalysisWrites
<1>3. CASE ReviewWrites(p)
  <2>1. AppTypeOK'
    BY <1>3 DEF ReviewWrites, AppTypeOK, AppStatuses, SetStatus, Touch
  <2> QED
    BY <1>3, <2>1 DEF ReviewWrites
<1>4. CASE DayPasses(p) \/ WeekPasses(p)
  <2>1. AppTypeOK'
    BY <1>4 DEF DayPasses, WeekPasses, AppTypeOK
  <2> QED
    BY <1>4, <2>1 DEF DayPasses, WeekPasses
<1> QED
  BY <1>1, <1>2, <1>3, <1>4

LEMMA TypeStep == TypeOK /\ [Next]_vars => TypeOK'
<1> SUFFICES ASSUME TypeOK, [Next]_vars PROVE TypeOK'
  OBVIOUS
<1>1. ASSUME NEW a \in Accounts, LinkForApplicant(a) \/ FailAccount(a)
      PROVE  TypeOK'
  BY <1>1, Frames, LifeWrites DEF LinkForApplicant, FailAccount, TypeOK
<1>2. CASE UNCHANGED vars
  BY <1>2, Frames DEF vars, TypeOK
<1> QED
  BY <1>1, <1>2, RequestTypeStep, LinkTypeStep, CheckTypeStep, ScanTypeStep,
     AppTypeStep DEF Next

(* All variables stay in their types, whatever the interleaving. *)
THEOREM TypeCorrect == Spec => []TypeOK
  BY InitTypeOK, TypeStep, PTL DEF Spec

-----------------------------------------------------------------------------
(* LinkedHasAccounts is not inductive: a request that has read a LINKED      *)
(* application sets the flag later, and only the accounts it saw then tell   *)
(* that there are some now.                                                  *)
ReadHasAccounts ==
    \A r \in Requests :
        req[r] = "finalize" => reqApp[r] \in Apps /\ accountIds[reqApp[r]] # {}

IInv == TypeOK /\ LinkedHasAccounts /\ ReadHasAccounts

(* No step takes the last account from an application that has one. *)
LEMMA AccountsStay ==
  ASSUME TypeOK, Next
  PROVE  \A p : p \in Apps /\ accountIds[p] # {} => accountIds'[p] # {}
<1>1. ASSUME NEW l \in Links, AttachApplication(l)
      PROVE  \A p \in Apps : accountIds[p] \subseteq accountIds'[p]
  BY <1>1 DEF AttachApplication, TypeOK, AppTypeOK
<1>2. ASSUME NEW q \in Apps, AnalysisWrites(q)
      PROVE  \A p \in Apps : accountIds[p] # {} => accountIds'[p] # {}
  BY <1>2 DEF AnalysisWrites, TypeOK, AppTypeOK
<1>3. CASE UNCHANGED accountIds
  BY <1>3
<1>4. \/ UNCHANGED accountIds
      \/ \E l \in Links : AttachApplication(l)
      \/ \E q \in Apps : AnalysisWrites(q)
  BY DEF Next, RequestFails, CheckFails, ScanFails,
         RequestStep, CheckStep, ScanStep, Initiate, InitiateCreate,
         InitiateResume, CreateApplication, FinalizeRead, FinalizeWrite,
         FinalizeConfirm, ReceiveLink, LinkFails, CompleteAccount, TellReady,
         FindApplications, ConfirmApplication, EndCheck, FailAccount,
         LinkForApplicant,
         StartNoLink, AbandonNoLink, StartNoAnalyze, AbandonNoAnalyze,
         ScrubAccounts, EndScan, ReviewWrites, DayPasses, WeekPasses,
         app, reqs, links, chks, scans
<1> QED
  BY <1>1, <1>2, <1>3, <1>4

(* A step that makes an application LINKED attaches an account to it. *)
LEMMA LinkedByAttach ==
  ASSUME TypeOK, Next, NEW p \in Apps,
         appStatus[p] # "LINKED", appStatus'[p] = "LINKED"
  PROVE  accountIds'[p] # {}
<1>1. \/ UNCHANGED appStatus
      \/ \E l \in Links : AttachApplication(l)
      \/ \E q, s : s # "LINKED" /\ SetStatus(q, s)
  BY DEF Next, RequestFails, CheckFails, ScanFails,
         RequestStep, CheckStep, ScanStep, Initiate, InitiateCreate,
         InitiateResume, CreateApplication, FinalizeRead, FinalizeWrite,
         FinalizeConfirm, ReceiveLink, LinkFails, CompleteAccount, TellReady,
         FindApplications, ConfirmApplication, EndCheck, FailAccount,
         LinkForApplicant,
         StartNoLink, AbandonNoLink, StartNoAnalyze, AbandonNoAnalyze,
         ScrubAccounts, EndScan, AnalysisWrites, ReviewWrites, DayPasses,
         WeekPasses, app
<1>2. ASSUME NEW l \in Links, AttachApplication(l) PROVE accountIds'[p] # {}
  <2>1. p = linkApp[l]
    BY <1>2 DEF AttachApplication, SetStatus, TypeOK, AppTypeOK
  <2> QED
    BY <1>2, <2>1 DEF AttachApplication, TypeOK, AppTypeOK
<1>3. ASSUME NEW q, NEW s, s # "LINKED", SetStatus(q, s) PROVE FALSE
  BY <1>3 DEF SetStatus, TypeOK, AppTypeOK
<1> QED
  BY <1>1, <1>2, <1>3

(* A step that sets the flag is the second step of a finalizing request. *)
LEMMA FlaggedByFinalize ==
  ASSUME TypeOK, Next, NEW p \in Apps, ~finalized[p], finalized'[p]
  PROVE  \E r \in Requests : FinalizeWrite(r) /\ reqApp[r] = p
<1>1. \/ UNCHANGED finalized
      \/ \E r \in Requests : InitiateResume(r)
      \/ \E r \in Requests : FinalizeWrite(r)
  BY DEF Next, RequestFails, CheckFails, ScanFails,
         RequestStep, CheckStep, ScanStep, Initiate, InitiateCreate,
         CreateApplication, FinalizeRead, FinalizeConfirm, ReceiveLink,
         AttachApplication, LinkFails, CompleteAccount, TellReady,
         FindApplications, ConfirmApplication, EndCheck, FailAccount,
         LinkForApplicant,
         StartNoLink, AbandonNoLink, StartNoAnalyze, AbandonNoAnalyze,
         ScrubAccounts, EndScan, AnalysisWrites, ReviewWrites, DayPasses,
         WeekPasses, app
<1>2. ASSUME NEW r \in Requests, InitiateResume(r) PROVE FALSE
  BY <1>2 DEF InitiateResume, TypeOK, AppTypeOK
<1>3. ASSUME NEW r \in Requests, FinalizeWrite(r) PROVE reqApp[r] = p
  BY <1>3 DEF FinalizeWrite, TypeOK, AppTypeOK
<1> QED
  BY <1>1, <1>2, <1>3

(* A request enters its finalizing step with an application that has accounts. *)
LEMMA ReadStep ==
  ASSUME TypeOK, Next, ReadHasAccounts
  PROVE  ReadHasAccounts'
<1> SUFFICES ASSUME NEW r \in Requests, req'[r] = "finalize"
             PROVE  reqApp'[r] \in Apps /\ accountIds'[reqApp'[r]] # {}
  BY DEF ReadHasAccounts
<1>1. ASSUME NEW q \in Requests, NEW p \in Apps, FinalizeRead(q, p)
      PROVE  reqApp'[r] \in Apps /\ accountIds[reqApp'[r]] # {}
  BY <1>1 DEF FinalizeRead, ContinueWith, ReadHasAccounts, TypeOK, ReqTypeOK
<1>2. ASSUME NEW q \in Requests, NEW step, NEW p, NEW ids, step # "finalize",
             Reply(q) \/ ContinueWith(q, step, p, ids)
      PROVE  reqApp'[r] \in Apps /\ accountIds[reqApp'[r]] # {}
  <2>1. q # r
    BY <1>2 DEF Reply, ContinueWith, TypeOK, ReqTypeOK
  <2>2. req[r] = "finalize" /\ reqApp'[r] = reqApp[r]
    BY <1>2, <2>1 DEF Reply, ContinueWith, TypeOK, ReqTypeOK
  <2> QED
    BY <2>2 DEF ReadHasAccounts
<1>3. ASSUME UNCHANGED reqs
      PROVE  reqApp'[r] \in Apps /\ accountIds[reqApp'[r]] # {}
  BY <1>3 DEF reqs, ReadHasAccounts
<1>4. \/ UNCHANGED reqs
      \/ \E q \in Requests, p \in Apps : FinalizeRead(q, p)
      \/ \E q \in Requests : \E step, p, ids :
            step # "finalize" /\ (Reply(q) \/ ContinueWith(q, step, p, ids))
  <2>1. ASSUME NEW q \in Requests, RequestStep(q) \/ RequestFails(q)
        PROVE  Reply(q) \/ ContinueWith(q, "confirm", reqApp[q], reqIds[q])
    BY <2>1 DEF RequestStep, RequestFails, InitiateCreate, InitiateResume,
                FinalizeWrite, FinalizeConfirm
  <2>2. ASSUME NEW q \in Requests, NEW p \in Apps, Initiate(q, p)
        PROVE  \E step : step # "finalize" /\ ContinueWith(q, step, p, {})
    BY <2>2 DEF Initiate
  <2>3. \/ UNCHANGED reqs
        \/ \E q \in Requests : RequestStep(q) \/ RequestFails(q)
        \/ \E q \in Requests, p \in Apps : Initiate(q, p) \/ FinalizeRead(q, p)
    BY DEF Next, RequestFails, CheckFails, ScanFails,
           CheckStep, ScanStep, CreateApplication, ReceiveLink,
           AttachApplication, LinkFails, CompleteAccount, TellReady,
           FindApplications, ConfirmApplication, EndCheck, FailAccount,
           LinkForApplicant,
           StartNoLink, AbandonNoLink, StartNoAnalyze, AbandonNoAnalyze,
           ScrubAccounts, EndScan, AnalysisWrites, ReviewWrites, DayPasses,
           WeekPasses
  <2> QED
    BY <2>1, <2>2, <2>3
<1>5. reqApp'[r] \in Apps /\ accountIds[reqApp'[r]] # {}
  BY <1>1, <1>2, <1>3, <1>4
<1> QED
  BY <1>5, AccountsStay

LEMMA IInvStep == IInv /\ [Next]_vars => IInv'
<1> SUFFICES ASSUME IInv, [Next]_vars PROVE IInv'
  OBVIOUS
<1> USE DEF IInv
<1>1. TypeOK'
  BY TypeStep
<1>2. CASE UNCHANGED vars
  BY <1>1, <1>2 DEF vars, app, reqs, LinkedHasAccounts, ReadHasAccounts
<1>3. CASE Next
  <2>1. ReadHasAccounts'
    BY <1>3, ReadStep
  <2>2. ASSUME NEW p \in Apps, appStatus'[p] = "LINKED" \/ finalized'[p]
        PROVE  accountIds'[p] # {}
    <3>1. CASE appStatus[p] = "LINKED" \/ finalized[p]
      BY <1>3, <3>1, AccountsStay DEF LinkedHasAccounts
    <3>2. CASE appStatus[p] # "LINKED" /\ appStatus'[p] = "LINKED"
      BY <1>3, <3>2, LinkedByAttach
    <3>3. CASE ~finalized[p] /\ finalized'[p]
      <4>1. PICK r \in Requests : FinalizeWrite(r) /\ reqApp[r] = p
        BY <1>3, <3>3, FlaggedByFinalize
      <4>2. accountIds[p] # {}
        BY <4>1 DEF FinalizeWrite, ReadHasAccounts
      <4> QED
        BY <1>3, <4>2, AccountsStay
    <3> QED
      BY <2>2, <3>1, <3>2, <3>3
  <2>3. LinkedHasAccounts'
    BY <2>2 DEF LinkedHasAccounts
  <2> QED
    BY <1>1, <2>1, <2>3
<1> QED
  BY <1>2, <1>3

(* A LINKED or finalized application has accounts: finalizeAccountLinking,   *)
(* the webhooks, the scans, the analysis and resumption keep it so together. *)
THEOREM LinkedCorrect == Spec => []LinkedHasAccounts
<1>1. Init => IInv
  BY InitTypeOK DEF Init, IInv, LinkedHasAccounts, ReadHasAccounts
<1> QED
  BY <1>1, IInvStep, PTL DEF Spec, IInv

-----------------------------------------------------------------------------
(* NoLostReady is not inductive.  A request may confirm with the accounts it *)
(* read before they changed, and a handler with those it found for an        *)
(* earlier finalization: only one whose list is within the accounts of the   *)
(* application is sure to send the event once they are READY.                *)
ReadIsCurrent(p) ==
    \A r \in Requests :
        (req[r] = "finalize" /\ reqApp[r] = p /\ appStatus[p] = "LINKED" /\ ~missed[p])
            => reqIds[r] \subseteq accountIds[p]

WillSend(p) ==
    \/ \E r \in Requests :
          req[r] = "confirm" /\ reqApp[r] = p /\ reqIds[r] \subseteq accountIds[p]
    \/ \E k \in Checkers :
          check[k] \in {"tell", "find"} /\ checkAcct[k] \in accountIds[p]
    \/ \E k \in Checkers :
          /\ check[k] = "loop" /\ p \in checkApps[k]
          /\ checkIds[k][p] \subseteq accountIds[p]

Promised(p) == IsReady(p) => sent[p] > 0 \/ WillSend(p)

ReadyInv ==
    /\ TypeOK
    /\ \A p \in Apps : ReadIsCurrent(p) /\ Promised(p)

(* What a step may do to an application as long as it is LINKED. *)
RowMove(p) ==
    \/ /\ appStatus'[p] = appStatus[p] /\ accountIds'[p] = accountIds[p]
       /\ finalized'[p] = finalized[p] /\ sent'[p] >= sent[p]
       /\ missed[p] => missed'[p]
    \/ appStatus'[p] # "LINKED"
    \/ \E l \in Links : AttachApplication(l) /\ linkApp[l] = p
    \/ \E r \in Requests : FinalizeWrite(r) /\ reqApp[r] = p

LEMMA RowMoves ==
  ASSUME TypeOK, [Next]_vars, NEW p \in Apps
  PROVE  RowMove(p)
<1> USE DEF RowMove, TypeOK, AppTypeOK, FaultTypeOK, SetStatus, faults
<1>0. sent[p] \in 0..Resends /\ Resends \in Nat
  BY ResendsAssumption
<1>1. ASSUME NEW q, SendReady(q) PROVE sent'[p] >= sent[p]
  BY <1>0, <1>1 DEF SendReady
<1>2. CASE /\ UNCHANGED <<appStatus, accountIds, finalized>>
           /\ UNCHANGED sent \/ \E q : SendReady(q)
           /\ UNCHANGED missed \/ \E P : Misses(P)
  <2>1. sent'[p] >= sent[p]
    BY <1>0, <1>1, <1>2
  <2>2. missed[p] => missed'[p]
    BY <1>2 DEF Misses
  <2> QED
    BY <1>2, <2>1, <2>2
<1>3. ASSUME NEW r \in Requests,
             \/ RequestStep(r) \/ RequestFails(r)
             \/ \E q \in Apps : Initiate(r, q) \/ FinalizeRead(r, q)
      PROVE  RowMove(p)
  <2>1. CASE InitiateCreate(r)
    BY <1>0, <2>1 DEF InitiateCreate
  <2>2. CASE InitiateResume(r)
    BY <1>0, <2>2 DEF InitiateResume
  <2>3. CASE FinalizeWrite(r)
    <3>1. UNCHANGED <<appStatus, accountIds, sent, missed>>
      BY <2>3 DEF FinalizeWrite
    <3>2. reqApp[r] # p => finalized'[p] = finalized[p]
      BY <2>3 DEF FinalizeWrite
    <3> QED
      BY <1>0, <2>3, <3>1, <3>2
  <2>4. CASE FinalizeConfirm(r) \/ \E q \in Apps : Initiate(r, q) \/ FinalizeRead(r, q)
    BY <1>2, <2>4 DEF FinalizeConfirm, Initiate, FinalizeRead, app
  <2>5. CASE RequestFails(r)
    BY <1>2, <2>5 DEF RequestFails, app
  <2> QED
    BY <1>3, <2>1, <2>2, <2>3, <2>4, <2>5 DEF RequestStep
<1>4. ASSUME NEW l \in Links,
             \/ AttachApplication(l) \/ LinkFails(l)
             \/ \E a \in Accounts, q \in Apps : ReceiveLink(l, a, q)
      PROVE  RowMove(p)
  <2>1. CASE AttachApplication(l)
    <3>1. CASE linkApp[l] # p
      BY <1>0, <2>1, <3>1 DEF AttachApplication
    <3> QED
      BY <2>1, <3>1
  <2>2. CASE UNCHANGED <<app, faults>>
    BY <1>2, <2>2 DEF app
  <2> QED
    BY <1>4, <2>1, <2>2 DEF LinkFails, ReceiveLink
<1>5. ASSUME NEW k \in Checkers,
             \/ CheckStep(k) \/ CheckFails(k)
             \/ \E a \in Accounts : CompleteAccount(k, a)
      PROVE  RowMove(p)
  BY <1>2, <1>5 DEF CheckStep, CheckFails, CompleteAccount, TellReady, FindApplications,
                    EndCheck, ConfirmApplication, app
<1>6. ASSUME NEW c \in Cleaners, ScanStep(c) \/ ScanFails(c) PROVE RowMove(p)
  <2>1. CASE UNCHANGED <<app, missed>>
    BY <1>2, <2>1 DEF app
  <2>2. ASSUME NEW q \in Apps, AbandonNoLink(c, q) \/ AbandonNoAnalyze(c, q)
        PROVE  RowMove(p)
    BY <1>0, <2>2 DEF AbandonNoLink, AbandonNoAnalyze
  <2> QED
    BY <1>6, <2>1, <2>2 DEF ScanStep, ScanFails, StartNoLink, StartNoAnalyze,
                              ScrubAccounts, EndScan
<1>7. ASSUME NEW q \in Apps,
             \/ CreateApplication(q) \/ AnalysisWrites(q) \/ ReviewWrites(q)
             \/ DayPasses(q) \/ WeekPasses(q)
      PROVE  RowMove(p)
  BY <1>0, <1>7 DEF CreateApplication, AnalysisWrites, ReviewWrites, DayPasses, WeekPasses
<1>8. ASSUME NEW a \in Accounts, LinkForApplicant(a) \/ FailAccount(a) PROVE RowMove(p)
  BY <1>2, <1>8 DEF LinkForApplicant, FailAccount, app
<1>9. CASE UNCHANGED vars
  BY <1>2, <1>9 DEF vars, app
<1> QED
  BY <1>3, <1>4, <1>5, <1>6, <1>7, <1>8, <1>9 DEF Next

(* How a request comes to finalize, and how it stops. *)
RequestMove(r) ==
    \/ req'[r] = req[r] /\ reqApp'[r] = reqApp[r] /\ reqIds'[r] = reqIds[r]
    \/ req'[r] \notin {"finalize", "confirm"} /\ req[r] # "confirm"
    \/ \E p \in Apps : FinalizeRead(r, p)
    \/ FinalizeWrite(r)
    \/ FinalizeConfirm(r)
    \/ RequestFails(r)

LEMMA RequestMoves ==
  ASSUME TypeOK, [Next]_vars, NEW r \in Requests
  PROVE  RequestMove(r)
<1> USE DEF RequestMove, TypeOK, ReqTypeOK
<1>1. CASE UNCHANGED reqs
  BY <1>1 DEF reqs
<1>2. ASSUME NEW q \in Requests, q # r,
             \/ RequestStep(q) \/ RequestFails(q)
             \/ \E p \in Apps : Initiate(q, p) \/ FinalizeRead(q, p)
      PROVE  RequestMove(r)
  BY <1>2 DEF RequestStep, RequestFails, Initiate, InitiateCreate, InitiateResume, FinalizeRead,
              FinalizeWrite, FinalizeConfirm, Reply, ContinueWith
<1>3. CASE \/ RequestStep(r) \/ RequestFails(r)
           \/ \E p \in Apps : Initiate(r, p) \/ FinalizeRead(r, p)
  BY <1>3 DEF RequestStep, Initiate, InitiateCreate, InitiateResume, Reply, ContinueWith
<1>4. UNCHANGED reqs \/ \E q \in Requests :
        \/ RequestStep(q) \/ RequestFails(q)
        \/ \E p \in Apps : Initiate(q, p) \/ FinalizeRead(q, p)
  BY DEF Next, RequestFails, CheckFails, ScanFails,
         vars, CheckStep, ScanStep, CreateApplication, ReceiveLink,
         AttachApplication, LinkFails, CompleteAccount, TellReady, FindApplications,
         ConfirmApplication, EndCheck, FailAccount, LinkForApplicant, StartNoLink,
         AbandonNoLink, StartNoAnalyze, AbandonNoAnalyze, ScrubAccounts, EndScan,
         AnalysisWrites, ReviewWrites, DayPasses, WeekPasses
<1> QED
  BY <1>1, <1>2, <1>3, <1>4

(* The accounts a finalizing request has read are still those of the row. *)
LEMMA CurrentStep ==
  ASSUME TypeOK, [Next]_vars, NEW p \in Apps, ReadIsCurrent(p)
  PROVE  ReadIsCurrent(p)'
<1> SUFFICES ASSUME NEW r \in Requests, req'[r] = "finalize", reqApp'[r] = p,
                    appStatus'[p] = "LINKED", ~missed'[p]
             PROVE  reqIds'[r] \subseteq accountIds'[p]
  BY DEF ReadIsCurrent
<1> USE DEF TypeOK, ReqTypeOK
<1>1. ASSUME NEW q \in Apps, FinalizeRead(r, q) PROVE reqIds'[r] \subseteq accountIds'[p]
  BY <1>1 DEF FinalizeRead, ContinueWith, app
<1>2. CASE req[r] = "finalize" /\ reqApp[r] = p /\ reqIds'[r] = reqIds[r]
  <2>1. Finalizing(p)
    BY <1>2 DEF Finalizing
  <2>2. CASE appStatus[p] = "LINKED" /\ ~missed[p] /\ accountIds[p] \subseteq accountIds'[p]
    BY <1>2, <2>2 DEF ReadIsCurrent
  <2>3. ASSUME NEW l \in Links, AttachApplication(l), linkApp[l] = p
        PROVE  appStatus[p] = "LINKED" /\ ~missed[p] /\ accountIds[p] \subseteq accountIds'[p]
    <3>1. missed'[p] = (missed[p] \/ TooLate(link[l], p))
      BY <2>3 DEF AttachApplication, FaultTypeOK
    <3>2. ~missed[p] /\ ~TooLate(link[l], p)
      BY <3>1
    <3>3. accountIds[p] \subseteq accountIds'[p]
      BY <2>3 DEF AttachApplication, AppTypeOK
    <3> QED
      BY <2>1, <3>2, <3>3 DEF TooLate
  <2>4. ASSUME NEW q \in Requests, FinalizeWrite(q)
        PROVE  UNCHANGED <<appStatus, accountIds, missed>>
    BY <2>4 DEF FinalizeWrite, faults
  <2> QED
    BY <2>2, <2>3, <2>4, RowMoves DEF RowMove
<1>3. ~FinalizeWrite(r) /\ ~FinalizeConfirm(r) /\ ~RequestFails(r)
  BY DEF FinalizeWrite, FinalizeConfirm, RequestFails, Reply, ContinueWith
<1>4. RequestMove(r)
  BY RequestMoves
<1>5. \/ req[r] = "finalize" /\ reqApp[r] = p /\ reqIds'[r] = reqIds[r]
      \/ \E q \in Apps : FinalizeRead(r, q)
  BY <1>3, <1>4 DEF RequestMove
<1> QED
  BY <1>1, <1>2, <1>5

(* Whoever is to send the event still is, has sent it, or was ended. *)
LEMMA SenderStays ==
  ASSUME TypeOK, [Next]_vars, NEW p \in Apps,
         appStatus[p] = "LINKED", finalized[p], accountIds'[p] = accountIds[p],
         AllReady(accountIds[p]), AllReady(accountIds[p])', ~missed'[p], WillSend(p)
  PROVE  sent'[p] > 0 \/ WillSend(p)'
<1> USE DEF TypeOK
<1>m. ASSUME NEW P, p \in P, Misses(P) PROVE FALSE
  BY <1>m DEF Misses
<1>0. SendReady(p) => sent'[p] > 0
  BY ResendsAssumption DEF SendReady, AppTypeOK
<1>1. ASSUME NEW r \in Requests, req[r] = "confirm", reqApp[r] = p,
             reqIds[r] \subseteq accountIds[p]
      PROVE  sent'[p] > 0 \/ WillSend(p)'
  <2>1. CASE FinalizeConfirm(r)
    <3>1. AllReady(reqIds[r])
      BY <1>1 DEF AllReady
    <3> QED
      BY <1>0, <1>1, <2>1, <3>1 DEF FinalizeConfirm
  <2>2. CASE RequestFails(r)
    BY <1>1, <1>m, <2>2 DEF RequestFails
  <2>3. CASE ~FinalizeConfirm(r) /\ ~RequestFails(r)
    <3>1. req'[r] = req[r] /\ reqApp'[r] = reqApp[r] /\ reqIds'[r] = reqIds[r]
      BY <1>1, <2>3, RequestMoves DEF RequestMove, FinalizeRead, FinalizeWrite
    <3> QED
      BY <1>1, <3>1 DEF WillSend
  <2> QED
    BY <2>1, <2>2, <2>3
<1>2. ASSUME NEW k \in Checkers
      PROVE  \/ check'[k] = check[k] /\ checkAcct'[k] = checkAcct[k]
                /\ checkApps'[k] = checkApps[k] /\ checkIds'[k] = checkIds[k]
             \/ check[k] = "none"
             \/ CheckStep(k)
             \/ CheckFails(k)
  <2>1. CASE UNCHANGED chks
    BY <2>1 DEF chks
  <2>2. ASSUME NEW j \in Checkers, j # k,
               \/ CheckStep(j) \/ CheckFails(j)
               \/ \E a \in Accounts : CompleteAccount(j, a)
        PROVE  /\ check'[k] = check[k] /\ checkAcct'[k] = checkAcct[k]
               /\ checkApps'[k] = checkApps[k] /\ checkIds'[k] = checkIds[k]
    BY <2>2 DEF CheckStep, CheckFails, CompleteAccount, TellReady, FindApplications,
                EndCheck, ConfirmApplication, CheckTypeOK
  <2>3. CASE CheckStep(k) \/ CheckFails(k) \/ \E a \in Accounts : CompleteAccount(k, a)
    BY <2>3 DEF CompleteAccount
  <2>4. UNCHANGED chks \/ \E j \in Checkers :
          CheckStep(j) \/ CheckFails(j) \/ \E a \in Accounts : CompleteAccount(j, a)
    BY DEF Next, RequestFails, CheckFails, ScanFails,
           vars, RequestStep, ScanStep, Initiate, InitiateCreate, InitiateResume,
           FinalizeRead, FinalizeWrite, FinalizeConfirm, CreateApplication, ReceiveLink,
           AttachApplication, LinkFails, FailAccount, LinkForApplicant, StartNoLink,
           AbandonNoLink, StartNoAnalyze, AbandonNoAnalyze, ScrubAccounts, EndScan,
           AnalysisWrites, ReviewWrites, DayPasses, WeekPasses
  <2> QED
    BY <2>1, <2>2, <2>3, <2>4
<1> USE DEF CheckTypeOK
<1>3. ASSUME NEW k \in Checkers, check[k] \in {"tell", "find"}, checkAcct[k] \in accountIds[p]
      PROVE  WillSend(p)'
  <2>f. ~CheckFails(k)
    <3>1. p \in Awaiting(checkAcct[k])
      BY <1>3 DEF Awaiting
    <3> QED
      BY <1>3, <1>m, <3>1 DEF CheckFails
  <2>1. CASE TellReady(k)
    <3>1. check'[k] = "find" /\ checkAcct'[k] = checkAcct[k]
      BY <2>1 DEF TellReady
    <3> QED
      BY <1>3, <3>1 DEF WillSend
  <2>2. CASE FindApplications(k)
    <3>1. p \in Awaiting(checkAcct[k])
      BY <1>3 DEF Awaiting
    <3>2. check'[k] = "loop" /\ p \in checkApps'[k] /\ checkIds'[k][p] = accountIds[p]
      BY <2>2, <3>1 DEF FindApplications
    <3> QED
      BY <3>2 DEF WillSend
  <2>3. CASE check'[k] = check[k] /\ checkAcct'[k] = checkAcct[k]
    BY <1>3, <2>3 DEF WillSend
  <2> QED
    BY <1>2, <1>3, <2>f, <2>1, <2>2, <2>3 DEF CheckStep, EndCheck, ConfirmApplication
<1>4. ASSUME NEW k \in Checkers, check[k] = "loop", p \in checkApps[k],
             checkIds[k][p] \subseteq accountIds[p]
      PROVE  sent'[p] > 0 \/ WillSend(p)'
  <2>f. ~CheckFails(k)
    BY <1>4, <1>m DEF CheckFails
  <2>1. CASE ConfirmApplication(k, p)
    <3>1. AllReady(checkIds[k][p])
      BY <1>4 DEF AllReady
    <3> QED
      BY <1>0, <2>1, <3>1 DEF ConfirmApplication
  <2>2. ASSUME NEW q \in Apps, q # p, ConfirmApplication(k, q)
        PROVE  check'[k] = check[k] /\ p \in checkApps'[k] /\ checkIds'[k] = checkIds[k]
    BY <1>4, <2>2 DEF ConfirmApplication
  <2>3. CASE check'[k] = check[k] /\ p \in checkApps'[k] /\ checkIds'[k] = checkIds[k]
    BY <1>4, <2>3 DEF WillSend
  <2> QED
    BY <1>2, <1>4, <2>f, <2>1, <2>2, <2>3 DEF CheckStep, EndCheck, TellReady, FindApplications
<1> QED
  BY <1>1, <1>3, <1>4 DEF WillSend

LEMMA PromisedStep ==
  ASSUME TypeOK, [Next]_vars, NEW p \in Apps, ReadIsCurrent(p), Promised(p)
  PROVE  Promised(p)'
<1> SUFFICES ASSUME appStatus'[p] = "LINKED", finalized'[p], AllReady(accountIds[p])',
                    ~missed'[p]
             PROVE  sent'[p] > 0 \/ WillSend(p)'
  BY DEF Promised, IsReady
<1> USE DEF TypeOK
<1>1. ASSUME NEW r \in Requests, FinalizeWrite(r), reqApp[r] = p PROVE WillSend(p)'
  <2>1. /\ req'[r] = "confirm" /\ reqApp'[r] = p /\ reqIds'[r] = reqIds[r]
        /\ UNCHANGED <<appStatus, accountIds, missed>>
    BY <1>1 DEF FinalizeWrite, ContinueWith, ReqTypeOK, faults
  <2>2. reqIds[r] \subseteq accountIds[p]
    BY <1>1, <2>1 DEF FinalizeWrite, ReadIsCurrent
  <2> QED
    BY <2>1, <2>2 DEF WillSend
<1>2. ASSUME NEW l \in Links, AttachApplication(l), linkApp[l] = p PROVE FALSE
  <2>1. missed'[p] = (missed[p] \/ TooLate(link[l], p))
    BY <1>2 DEF AttachApplication, FaultTypeOK
  <2>2. finalized[p] /\ status'[link[l]] = status[link[l]]
    BY <1>2 DEF AttachApplication, accts
  <2>3. link[l] \in accountIds'[p]
    BY <1>2 DEF AttachApplication, AppTypeOK
  <2> QED
    BY <2>1, <2>2, <2>3 DEF TooLate, AllReady
<1>3. CASE /\ appStatus'[p] = appStatus[p] /\ accountIds'[p] = accountIds[p]
           /\ finalized'[p] = finalized[p] /\ sent'[p] >= sent[p]
           /\ missed[p] => missed'[p]
  <2>1. CASE AllReady(accountIds[p])
    <3>1. sent[p] \in Nat /\ sent'[p] \in Nat
      BY TypeStep DEF AppTypeOK
    <3>2. CASE sent[p] > 0
      BY <1>3, <3>1, <3>2
    <3>3. CASE WillSend(p)
      BY <1>3, <2>1, <3>3, SenderStays
    <3> QED
      BY <1>3, <2>1, <3>2, <3>3 DEF Promised, IsReady
  <2>2. CASE ~AllReady(accountIds[p])
    <3>1. PICK a \in accountIds[p] : status[a] # "READY" /\ status'[a] = "READY"
      BY <1>3, <2>2 DEF AllReady
    <3>2. a \in Accounts
      BY <3>1 DEF AppTypeOK
    <3>3. \E k \in Checkers, b \in Accounts : CompleteAccount(k, b) /\ Life!Complete(b)
      <4>1. ASSUME NEW b, Life!Open(b) \/ Life!Fail(b) \/ Life!Announce(b) PROVE FALSE
        BY <3>1, <3>2, <4>1 DEF Life!Open, Life!Fail, Life!Announce, AccountTypeOK
      <4>2. ASSUME NEW S, Life!Scrub(S) PROVE FALSE
        BY <3>1, <3>2, <4>2 DEF Life!Scrub, AccountTypeOK
      <4>3. ~UNCHANGED status
        BY <3>1
      <4> QED
        BY <4>1, <4>2, <4>3
           DEF Next, RequestFails, CheckFails, ScanFails,
               vars, accts, RequestStep, CheckStep, ScanStep, Initiate,
               InitiateCreate, InitiateResume, FinalizeRead, FinalizeWrite,
               FinalizeConfirm, CreateApplication, ReceiveLink, AttachApplication,
               LinkFails, CompleteAccount, TellReady, FindApplications,
               ConfirmApplication, EndCheck, FailAccount, LinkForApplicant,
               StartNoLink, AbandonNoLink, StartNoAnalyze, AbandonNoAnalyze,
               ScrubAccounts, EndScan, AnalysisWrites, ReviewWrites, DayPasses,
               WeekPasses
    <3>4. PICK k \in Checkers, b \in Accounts : CompleteAccount(k, b) /\ Life!Complete(b)
      BY <3>3
    <3>5. b = a
      BY <3>1, <3>2, <3>4 DEF Life!Complete, AccountTypeOK
    <3>6. check'[k] = "tell" /\ checkAcct'[k] = a
      BY <3>4, <3>5 DEF CompleteAccount, CheckTypeOK
    <3> QED
      BY <1>3, <3>1, <3>6 DEF WillSend
  <2> QED
    BY <2>1, <2>2
<1> QED
  BY <1>1, <1>2, <1>3, RowMoves DEF RowMove

LEMMA ReadyStep == ReadyInv /\ [Next]_vars => ReadyInv'
<1> SUFFICES ASSUME ReadyInv, [Next]_vars PROVE ReadyInv'
  OBVIOUS
<1> QED
  BY TypeStep, CurrentStep, PromisedStep DEF ReadyInv

(* The request that finalizes, the links that come behind it and the         *)
(* handlers that complete accounts cannot miss each other, however many of   *)
(* each there are: one of them finds the application ready, unless a call of *)
(* its own fails or the link was too late.                                   *)
THEOREM ReadyCorrect == Spec => []NoLostReady
<1>1. Init => ReadyInv
  <2>1. ASSUME Init, NEW p \in Apps PROVE ReadIsCurrent(p)
    <3>1. \A r \in Requests : req[r] = "none"
      BY <2>1 DEF Init
    <3> QED
      BY <3>1 DEF ReadIsCurrent
  <2>2. ASSUME Init, NEW p \in Apps PROVE Promised(p)
    <3>1. appStatus[p] = "NONE"
      BY <2>2 DEF Init
    <3> QED
      BY <3>1 DEF Promised, IsReady
  <2> QED
    BY <2>1, <2>2, InitTypeOK DEF ReadyInv
<1>2. ReadyInv => NoLostReady
  BY DEF ReadyInv, Promised, WillSend, NoLostReady, WillConfirm
<1>3. ReadyInv /\ [Next]_vars => ReadyInv'
  BY ReadyStep
<1> QED
  BY <1>1, <1>2, <1>3, PTL DEF Spec
=============================================================================

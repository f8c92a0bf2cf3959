---------------------------- MODULE PagesProofs -----------------------------
(***************************************************************************)
(* What the signed-in pages of the dashboard show as current is what the   *)
(* gateway stores: the risk policy, the profile, the API key, the list of  *)
(* applicants and the review queue; and a review gets one verdict.  For    *)
(* every kind of data and any number of mutations or clicks in flight.     *)
(***************************************************************************)
EXTENDS Dashboard, TLAPS

-----------------------------------------------------------------------------
(* The query cache.                                                        *)

(* The query's operations keep its type, and stale what is being fetched. *)
Fetching(q) == q.fetch # "none" => q.stale

(* What a query holds or is about to hold is `stored', unless it is known    *)
(* stale or a write has overtaken its fetch.                                 *)
Current(q, stored) ==
    /\ IsCurrent(q) => q.data = stored
    /\ q.fetch = "answered" /\ ~q.overtaken => q.answer = stored

LEMMA QueryOperations ==
  ASSUME NEW D, NEW q \in QueryType(D), Fetching(q)
  PROVE  /\ Refetch(q) \in QueryType(D) /\ (q.stale => Fetching(Refetch(q)))
         /\ Observed(q) \in QueryType(D) /\ Fetching(Observed(q))
         /\ \A b \in BOOLEAN : Invalidated(q, b) \in QueryType(D) /\ Fetching(Invalidated(q, b))
         /\ \A stored : \A b \in BOOLEAN : Current(Invalidated(q, b), stored)
         /\ \A stored : Current(q, stored) => Current(Observed(q), stored)
<1>1. Refetch(q) \in QueryType(D) /\ (q.stale => Fetching(Refetch(q)))
  BY DEF QueryType, Refetch, FetchStates, Fetching
<1>2. Observed(q) \in QueryType(D) /\ Fetching(Observed(q))
  BY <1>1 DEF Observed
<1>3. ASSUME NEW b \in BOOLEAN
      PROVE  Invalidated(q, b) \in QueryType(D) /\ Fetching(Invalidated(q, b))
  <2>1. Marked(q, b) \in QueryType(D) /\ Fetching(Marked(q, b))
    BY DEF Marked, QueryType, Fetching
  <2> QED
    BY <2>1 DEF Invalidated, QueryType, Marked, Refetch, FetchStates, Fetching
<1>4. ASSUME NEW stored, NEW b \in BOOLEAN PROVE Current(Invalidated(q, b), stored)
  BY DEF Invalidated, Marked, QueryType, FetchStates, Refetch, Current, IsCurrent, IsFresh
<1>5. ASSUME NEW stored, Current(q, stored) PROVE Current(Observed(q), stored)
  BY <1>5 DEF Observed, QueryType, Refetch, Current, IsCurrent, IsFresh
<1> QED
  BY <1>1, <1>2, <1>3, <1>4, <1>5

LEMMA QueryMoves ==
  ASSUME NEW D, NEW q \in QueryType(D), Fetching(q), NEW stored \in D, NEW q1 \in Moves(q, stored)
  PROVE  q1 \in QueryType(D) /\ Fetching(q1) /\ (Current(q, stored) => Current(q1, stored))
<1> USE DEF QueryType, FetchStates, Fetching, Current, IsCurrent, IsFresh
<1>1. CASE q.fetch = "sent" /\ q1 = Answered(q, stored)
  BY <1>1 DEF Answered
<1>2. CASE q.fetch = "answered" /\ q1 = Arrival(q)
  BY <1>2 DEF Arrival
<1>3. CASE q.fetch # "none" /\ q1 = Failed(q)
  BY <1>3 DEF Failed
<1>4. CASE ~q.stale /\ q1 = Aged(q)
  BY <1>4 DEF Aged
<1> QED
  BY <1>1, <1>2, <1>3, <1>4 DEF Moves

-----------------------------------------------------------------------------
(* The risk policy.                                                        *)

(* Inductive: a fetch in flight leaves the data stale; a body is there to be *)
(* stored; while nothing was lost, and unless one has just been stored, the  *)
(* query holds nothing older.                                                *)
PolicyInv ==
    /\ PolicyTypeOK
    /\ Fetching(policyQ)
    /\ \A m \in Puts : Putting(m) => puts[m].body \in Policies
    /\ section.enabled => section.open
    /\ ~detached /\ (\A m \in Puts : puts[m].at # "ok") => Current(policyQ, FindByFintechId)

(* The policy's variables change by the section's own steps. *)
LEMMA PolicySteps == [Next]_vars => [NextPolicy]_policyVars
BY DEF Next, vars

LEMMA PolicyInit == InitPolicy => PolicyInv
<1> SUFFICES ASSUME InitPolicy PROVE PolicyInv
  OBVIOUS
<1>1. section \in SectionType /\ ~section.enabled
  BY DEF InitPolicy, SectionType, ClosedSection
<1>2. puts \in [Puts -> PutType] /\ \A m \in Puts : puts[m].at = "idle"
  BY DEF InitPolicy, PutType, NoPut
<1>3. policyQ \in QueryType(Policies) /\ policyQ.stale /\ policyQ.fetch = "none"
  BY DEF InitPolicy, QueryType, FetchStates, NoQuery
<1> QED
  BY <1>1, <1>2, <1>3 DEF InitPolicy, PolicyInv, PolicyTypeOK, Putting, Current, IsCurrent, IsFresh, Fetching

(* The gateway's answer is a policy. *)
LEMMA AnswerIsPolicy == PolicyTypeOK => FindByFintechId \in Policies
BY DefaultAssumption DEF PolicyTypeOK, FindByFintechId, Policies

LEMMA SyncedType ==
  ASSUME NEW s \in SectionType, s.enabled => s.form # Nil, NEW answer \in Policies \cup {Nil}
  PROVE  /\ Synced(s, answer) \in SectionType
         /\ Synced(s, answer).enabled => Synced(s, answer).form # Nil
         /\ Synced(s, answer).open = s.open
BY DEF Synced, SectionType

LEMMA PolicyTypes == PolicyInv /\ [NextPolicy]_policyVars => PolicyTypeOK' /\ Fetching(policyQ)'
<1> SUFFICES ASSUME PolicyInv, [NextPolicy]_policyVars
             PROVE  PolicyTypeOK' /\ Fetching(policyQ)'
  OBVIOUS
<1> USE DEF PolicyInv, PolicyTypeOK
<1>0. policyQ.data \in Policies \cup {Nil} /\ \A m \in Puts : puts[m] \in PutType
  BY DEF QueryType
<1>1. CASE OpenPolicy
  <2>1. ClosedSection.enabled = FALSE /\ [ClosedSection EXCEPT !.open = TRUE] \in SectionType
        /\ [ClosedSection EXCEPT !.open = TRUE].enabled = FALSE
    BY DEF ClosedSection, SectionType
  <2> QED
    BY <1>0, <1>1, <2>1, QueryOperations, SyncedType DEF OpenPolicy
<1>2. CASE LeavePolicy
  <2>1. section' \in SectionType /\ ~section'.enabled
    BY <1>2 DEF LeavePolicy, ClosedSection, SectionType
  <2>2. puts' \in [Puts -> PutType]
    BY <1>0, <1>2 DEF LeavePolicy, PutType
  <2> QED
    BY <1>2, <2>1, <2>2 DEF LeavePolicy, Fetching
<1>3. CASE HandleToggle
  <2>1. BrainDefaults \in Policies
    BY DefaultAssumption DEF BrainDefaults, Policies
  <2>2. PICK f \in Policies \cup {Nil} :
           /\ section' = [section EXCEPT !.enabled = ~section.enabled, !.form = f]
           /\ ~section.enabled => f # Nil
    BY <1>3, <2>1, NilAssumption DEF HandleToggle, SectionType
  <2>3. section' \in SectionType /\ (section'.enabled => section'.form # Nil)
    BY <2>2 DEF SectionType
  <2> QED
    BY <1>3, <2>3 DEF HandleToggle, Fetching
<1>4. CASE HandleChange
  <2>1. PICK v \in Thresholds : section' = [section EXCEPT !.form = [section.form EXCEPT !.values = v]]
    BY <1>4 DEF HandleChange
  <2>2. section.form \in Policies
    BY <1>4 DEF HandleChange, SectionType
  <2>3. [section.form EXCEPT !.values = v] \in Policies
    BY <2>2 DEF Policies
  <2>4. section' \in SectionType /\ (section'.enabled => section'.form # Nil)
    BY <2>1, <2>3, NilAssumption DEF SectionType
  <2> QED
    BY <1>4, <2>4 DEF HandleChange, Fetching
<1>5. CASE PolicyMoves
  <2>1. PICK q \in Moves(policyQ, FindByFintechId) :
           policyQ' = q /\ section' = IF section.open THEN Synced(section, q.data) ELSE section
    BY <1>5 DEF PolicyMoves
  <2>2. q \in QueryType(Policies) /\ Fetching(q)
    BY QueryMoves, AnswerIsPolicy
  <2>3. q.data \in Policies \cup {Nil}
    BY <2>2 DEF QueryType
  <2> QED
    BY <1>5, <2>1, <2>2, <2>3, SyncedType DEF PolicyMoves
<1>6. ASSUME NEW m \in Puts, HandleSave(m) \/ HandleReset(m)
      PROVE  PolicyTypeOK' /\ Fetching(policyQ)'
  <2>1. section.form \in Policies \cup {Nil} /\ BrainDefaults \in Policies
    BY DefaultAssumption DEF SectionType, BrainDefaults, Policies
  <2>2. PICK put \in PutType : puts' = [puts EXCEPT ![m] = put]
    BY <1>6, <2>1 DEF HandleSave, HandleReset, PutPolicy, PutType
  <2>3. puts' \in [Puts -> PutType]
    BY <2>2
  <2>4. section' = section \/ section' = [section EXCEPT !.form = BrainDefaults]
    BY <1>6 DEF HandleSave, HandleReset
  <2>5. section' \in SectionType /\ (section'.enabled => section'.form # Nil)
    BY <2>1, <2>4, NilAssumption DEF SectionType
  <2> QED
    BY <1>6, <2>3, <2>5 DEF HandleSave, HandleReset, PutPolicy, Fetching
<1>7. ASSUME NEW m \in Puts, UpsertPolicy(m) PROVE PolicyTypeOK' /\ Fetching(policyQ)'
  <2>1. puts[m].body \in Policies
    BY <1>7 DEF UpsertPolicy, Putting
  <2>2. policy' \in Thresholds \cup {Nil}
    BY <1>7, <2>1 DEF UpsertPolicy, Policies
  <2>3. puts' \in [Puts -> PutType]
    BY <1>0, <1>7 DEF UpsertPolicy, PutType
  <2> QED
    BY <1>7, <2>2, <2>3 DEF UpsertPolicy, Fetching
<1>8. ASSUME NEW m \in Puts, PutAnswered(m) PROVE PolicyTypeOK' /\ Fetching(policyQ)'
  <2>1. puts' \in [Puts -> PutType]
    BY <1>0, <1>8 DEF PutAnswered, PutType, NoPut
  <2>2. section.open \in BOOLEAN
    BY DEF SectionType
  <2>3. policyQ' = policyQ \/ policyQ' = Invalidated(policyQ, section.open)
    BY <1>8 DEF PutAnswered, InvalidatePolicy
  <2>4. \A b \in BOOLEAN : /\ Invalidated(policyQ, b) \in QueryType(Policies)
                           /\ Fetching(Invalidated(policyQ, b))
    BY QueryOperations
  <2>5. policyQ' \in QueryType(Policies) /\ Fetching(policyQ)'
    BY <2>2, <2>3, <2>4 DEF Fetching
  <2> QED
    BY <1>8, <2>1, <2>5 DEF PutAnswered
<1>9. ASSUME NEW m \in Puts, LosePut(m) PROVE PolicyTypeOK' /\ Fetching(policyQ)'
  <2>1. puts' \in [Puts -> PutType]
    BY <1>0, <1>9 DEF LosePut, PutType, NoPut
  <2> QED
    BY <1>9, <2>1 DEF LosePut, Fetching
<1>10. CASE UNCHANGED policyVars
  BY <1>10 DEF policyVars, Fetching
<1> QED
  BY <1>1, <1>2, <1>3, <1>4, <1>5, <1>6, <1>7, <1>8, <1>9, <1>10 DEF NextPolicy

LEMMA PolicyStep == PolicyInv /\ [NextPolicy]_policyVars => PolicyInv'
<1> SUFFICES ASSUME PolicyInv, [NextPolicy]_policyVars PROVE PolicyInv'
  OBVIOUS
<1> DEFINE
      Bodies == \A m \in Puts : Putting(m) => puts[m].body \in Policies
      Opened == section.enabled => section.open
      Shows == ~detached /\ (\A m \in Puts : puts[m].at # "ok") => Current(policyQ, FindByFintechId)
<1> SUFFICES Bodies' /\ Opened' /\ Shows'
  BY PolicyTypes DEF PolicyInv
<1>0. /\ Bodies /\ Opened /\ Shows /\ Fetching(policyQ)
      /\ policyQ \in QueryType(Policies) /\ section \in SectionType
      /\ puts \in [Puts -> PutType] /\ detached \in BOOLEAN
      /\ FindByFintechId \in Policies /\ policyQ.data \in Policies \cup {Nil}
      /\ section.enabled => section.form # Nil
  BY AnswerIsPolicy DEF PolicyInv, PolicyTypeOK, QueryType
<1>1. CASE OpenPolicy
  <2> DEFINE s == [ClosedSection EXCEPT !.open = TRUE]
  <2>1. s \in SectionType /\ ~s.enabled /\ s.open
    BY DEF ClosedSection, SectionType
  <2>2. section' = Synced(s, policyQ.data) /\ policyQ' = Observed(policyQ)
        /\ UNCHANGED <<policy, puts, detached>>
    BY <1>1 DEF OpenPolicy
  <2>3. section'.open
    BY <1>0, <2>1, <2>2, SyncedType
  <2> QED
    BY <1>0, <2>2, <2>3, QueryOperations DEF Putting, FindByFintechId
<1>2. CASE LeavePolicy
  <2>1. \A m \in Puts : puts'[m].at = puts[m].at /\ puts'[m].body = puts[m].body
    BY <1>0, <1>2 DEF LeavePolicy, PutType
  <2>2. UNCHANGED <<policy, policyQ, detached>> /\ ~section'.enabled
    BY <1>2 DEF LeavePolicy, ClosedSection
  <2> QED
    BY <1>0, <2>1, <2>2 DEF Putting, FindByFintechId
<1>3. CASE HandleToggle \/ HandleChange
  <2>1. section'.open = section.open /\ section.open
    BY <1>0, <1>3 DEF HandleToggle, HandleChange, SectionType
  <2>2. UNCHANGED <<policy, policyQ, puts, detached>>
    BY <1>3 DEF HandleToggle, HandleChange
  <2> QED
    BY <1>0, <2>1, <2>2 DEF Putting, FindByFintechId
<1>4. CASE PolicyMoves
  <2>1. UNCHANGED <<policy, puts, detached>> /\ policyQ' \in Moves(policyQ, FindByFintechId)
    BY <1>4 DEF PolicyMoves
  <2>2. section'.open = section.open /\ (section'.enabled => section'.open)
    <3>1. policyQ'.data \in Policies \cup {Nil}
      BY <1>0, <2>1, QueryMoves DEF QueryType
    <3> QED
      BY <1>0, <1>4, <3>1, SyncedType DEF PolicyMoves
  <2> QED
    BY <1>0, <2>1, <2>2, QueryMoves DEF Putting, FindByFintechId
<1>5. ASSUME NEW m \in Puts, HandleSave(m) \/ HandleReset(m) PROVE Bodies' /\ Opened' /\ Shows'
  <2>1. /\ puts'[m].at = "sent" /\ puts'[m].body \in {section.form, BrainDefaults}
        /\ \A n \in Puts : n # m => puts'[n] = puts[n]
    BY <1>0, <1>5 DEF HandleSave, HandleReset, PutPolicy
  <2>2. ~Putting(m) /\ section.enabled /\ UNCHANGED <<policy, policyQ, detached>>
    BY <1>5 DEF HandleSave, HandleReset, PutPolicy
  <2>3. puts'[m].body \in Policies
    <3>1. BrainDefaults \in Policies
      BY DefaultAssumption DEF BrainDefaults, Policies
    <3> QED
      BY <1>0, <2>1, <2>2, <3>1 DEF SectionType
  <2>4. section'.open
    BY <1>0, <1>5, <2>2 DEF HandleSave, HandleReset, SectionType
  <2> QED
    BY <1>0, <2>1, <2>2, <2>3, <2>4 DEF Putting, FindByFintechId
<1>6. ASSUME NEW m \in Puts, UpsertPolicy(m) PROVE Bodies' /\ Opened' /\ Shows'
  <2>1. Putting(m) /\ puts[m].at = "sent" /\ UNCHANGED <<policyQ, section, detached>>
    BY <1>6 DEF UpsertPolicy, Putting
  <2>2. /\ \A n \in Puts : puts'[n].body = puts[n].body /\ (n # m => puts'[n].at = puts[n].at)
        /\ (puts'[m].at = "ok") \/ (puts'[m].at = "refused" /\ policy' = policy)
    BY <1>0, <1>6 DEF UpsertPolicy, PutType
  <2> QED
    BY <1>0, <2>1, <2>2 DEF Putting, FindByFintechId
<1>7. ASSUME NEW m \in Puts, PutAnswered(m) PROVE Bodies' /\ Opened' /\ Shows'
  <2>1. Putting(m) /\ UNCHANGED <<policy, section, detached>>
    BY <1>7 DEF PutAnswered, Putting
  <2>2. puts'[m].at = "idle" /\ \A n \in Puts : n # m => puts'[n] = puts[n]
    BY <1>0, <1>7 DEF PutAnswered, NoPut
  <2>3. CASE puts[m].at = "ok"
    <3>1. policyQ' = Invalidated(policyQ, section.open) /\ section.open \in BOOLEAN
      BY <1>0, <1>7, <2>3 DEF PutAnswered, InvalidatePolicy, SectionType
    <3>2. Current(policyQ', FindByFintechId)
      BY <1>0, <3>1, QueryOperations
    <3> QED
      BY <1>0, <2>1, <2>2, <3>2 DEF Putting, FindByFintechId
  <2>4. CASE puts[m].at # "ok"
    <3>1. policyQ' = policyQ
      BY <1>7, <2>4 DEF PutAnswered
    <3> QED
      BY <1>0, <2>1, <2>2, <2>4, <3>1 DEF Putting, FindByFintechId
  <2> QED
    BY <2>3, <2>4
<1>8. ASSUME NEW m \in Puts, LosePut(m) PROVE Bodies' /\ Opened' /\ Shows'
  <2>1. puts'[m].at = "idle" /\ \A n \in Puts : n # m => puts'[n] = puts[n]
    BY <1>0, <1>8 DEF LosePut, NoPut
  <2>2. /\ UNCHANGED <<policy, policyQ, section>>
        /\ detached' = (detached \/ puts[m].at = "ok")
    BY <1>8 DEF LosePut
  <2> QED
    BY <1>0, <2>1, <2>2 DEF Putting, FindByFintechId
<1>9. CASE UNCHANGED policyVars
  BY <1>0, <1>9 DEF policyVars, Putting, FindByFintechId
<1> QED
  BY <1>1, <1>2, <1>3, <1>4, <1>5, <1>6, <1>7, <1>8, <1>9 DEF NextPolicy

(* Whatever is typed, saved, reset, refused or fetched, in whatever order,   *)
(* the policy the section takes for current is the one applications are      *)
(* scored with, unless a save overtook a fetch that no invalidation cancels: *)
(* the first load, or one that outlives the section.                         *)
THEOREM PolicyIsCurrent == Spec => []FreshPolicyIsStored
<1>1. Init => PolicyInv
  BY PolicyInit DEF Init
<1>2. PolicyInv /\ [Next]_vars => PolicyInv'
  BY PolicyStep, PolicySteps
<1>3. PolicyInv => FreshPolicyIsStored
  BY DEF PolicyInv, FreshPolicyIsStored, Current, Putting
<1> QED
  BY <1>1, <1>2, <1>3, PTL DEF Spec

-----------------------------------------------------------------------------
(* The profile and the API key.                                            *)

Rotating(m) == Saving(m) /\ saves[m].kind = "rotate"

(* Inductive: as above for the profile; and a key that has been generated is *)
(* the row's, whose rotation is the only one, and will be what is shown.     *)
AccountInv ==
    /\ AccountTypeOK
    /\ Fetching(profile)
    /\ \A m \in Saves :
          /\ saves[m].at = "sent" /\ saves[m].kind = "url" => saves[m].value \in Urls
          /\ saves[m].at = "ok" /\ saves[m].kind = "rotate" => saves[m].value \in Nat
    /\ account.open => account.creds = storage
    /\ ~strayed =>
          /\ \A m \in Saves : Saving(m) => account.open /\ saves[m].mounted
          /\ \A m, n \in Saves : Rotating(m) /\ Rotating(n) => m = n
          /\ \A m \in Saves : Rotating(m) /\ saves[m].at = "ok" => saves[m].value = row.key
          /\ (\A m \in Saves : ~(Rotating(m) /\ saves[m].at = "ok")) => storage \in {0, row.key}
          /\ (\A m \in Saves : saves[m].at # "ok") => Current(profile, FindById)

LEMMA AccountSteps == [Next]_vars => [NextAccount]_accountVars
BY DEF Next, vars

LEMMA AccountInit == InitAccount => AccountInv
<1> SUFFICES ASSUME InitAccount PROVE AccountInv
  OBVIOUS
<1>1. row.key = 1 /\ row \in [key : Nat \ {0}, url : Urls \cup {Nil}, mono : BOOLEAN]
  BY DEF InitAccount
<1>2. saves \in [Saves -> SaveType] /\ \A m \in Saves : saves[m].at = "idle"
  BY DEF InitAccount, SaveType, NoSave
<1>3. /\ profile \in QueryType(Profiles) /\ Fetching(profile)
      /\ ~IsFresh(profile) /\ profile.fetch = "none"
  BY DEF InitAccount, QueryType, FetchStates, NoQuery, Fetching, IsFresh
<1>4. account \in [open : BOOLEAN, creds : Nat] /\ ~account.open /\ storage = 0
  BY DEF InitAccount, ClosedAccount
<1>5. strayed \in BOOLEAN
  BY DEF InitAccount
<1>7. storage \in Nat
  BY <1>4
<1>6. Current(profile, FindById)
  BY <1>3 DEF Current, IsCurrent
<1> QED
  BY <1>1, <1>2, <1>3, <1>4, <1>5, <1>6, <1>7 DEF AccountInv, AccountTypeOK, Saving, Rotating

LEMMA ProfileType == AccountTypeOK => FindById \in Profiles
BY DEF AccountTypeOK, FindById, Profiles

LEMMA AccountTypes ==
  AccountInv /\ [NextAccount]_accountVars =>
      /\ AccountTypeOK' /\ Fetching(profile)'
      /\ (account.open => account.creds = storage)'
<1> SUFFICES ASSUME AccountInv, [NextAccount]_accountVars
             PROVE  /\ AccountTypeOK' /\ Fetching(profile)'
                    /\ (account.open => account.creds = storage)'
  OBVIOUS
<1> USE DEF AccountInv, AccountTypeOK
<1>0. \A m \in Saves : saves[m] \in SaveType
  OBVIOUS
<1>1. CASE OpenAccount
  BY <1>1, QueryOperations DEF OpenAccount
<1>2. CASE LeaveAccount
  <2>1. saves' \in [Saves -> SaveType]
    BY <1>0, <1>2 DEF LeaveAccount, SaveType
  <2> QED
    BY <1>2, <2>1 DEF LeaveAccount, ClosedAccount, Fetching
<1>3. CASE ProfileMoves
  <2>1. profile' \in Moves(profile, FindById) /\ UNCHANGED <<row, account, storage, saves, strayed>>
    BY <1>3 DEF ProfileMoves
  <2>2. profile' \in QueryType(Profiles) /\ Fetching(profile')
    BY <2>1, QueryMoves, ProfileType
  <2> QED
    BY <2>1, <2>2 DEF Fetching
<1>4. ASSUME NEW m \in Saves, HandleRotate(m) \/ HandleSaveUrl(m) \/ HandleSaveMono(m)
      PROVE  /\ AccountTypeOK' /\ Fetching(profile)'
             /\ (account.open => account.creds = storage)'
  <2>1. PICK kind \in {"rotate", "url", "mono"}, value \in Urls \cup {Nil} : Put(m, kind, value)
    BY <1>4 DEF HandleRotate, HandleSaveUrl, HandleSaveMono
  <2>2. saves' \in [Saves -> SaveType]
    BY <1>0, <2>1 DEF Put, SaveType
  <2> QED
    BY <2>1, <2>2 DEF Put, Fetching
<1>5. ASSUME NEW m \in Saves, RotateApiKey(m) \/ UpdateWebhookUrl(m) \/ UpdateMonoApiKey(m)
      PROVE  /\ AccountTypeOK' /\ Fetching(profile)'
             /\ (account.open => account.creds = storage)'
  <2>1. row.key + 1 \in Nat \ {0}
    OBVIOUS
  <2>2. CASE RotateApiKey(m)
    <3>1. row' = [row EXCEPT !.key = row.key + 1]
      BY <2>2 DEF RotateApiKey
    <3>2. row' \in [key : Nat \ {0}, url : Urls \cup {Nil}, mono : BOOLEAN] /\ row'.key \in Nat
      BY <2>1, <3>1
    <3>3. saves' = [saves EXCEPT ![m] = [saves[m] EXCEPT !.at = "ok", !.value = row'.key]]
      BY <2>2 DEF RotateApiKey
    <3>4. [saves[m] EXCEPT !.at = "ok", !.value = row'.key] \in SaveType
      BY <1>0, <3>2 DEF SaveType
    <3>5. /\ saves' \in [Saves -> SaveType]
          /\ UNCHANGED <<profile, account, storage, strayed>>
      BY <2>2, <3>3, <3>4 DEF RotateApiKey
    <3> QED
      BY <3>2, <3>5 DEF Fetching
  <2>3. CASE UpdateWebhookUrl(m)
    <3>1. saves[m].value \in Urls
      BY <2>3 DEF UpdateWebhookUrl
    <3>2. saves' \in [Saves -> SaveType]
      BY <1>0, <2>3 DEF UpdateWebhookUrl, SaveType
    <3> QED
      BY <2>3, <3>1, <3>2 DEF UpdateWebhookUrl, Fetching
  <2>4. CASE UpdateMonoApiKey(m)
    <3>1. saves' \in [Saves -> SaveType]
      BY <1>0, <2>4 DEF UpdateMonoApiKey, SaveType
    <3> QED
      BY <2>4, <3>1 DEF UpdateMonoApiKey, Fetching
  <2> QED
    BY <1>5, <2>2, <2>3, <2>4
<1>6. ASSUME NEW m \in Saves, SaveAnswered(m)
      PROVE  /\ AccountTypeOK' /\ Fetching(profile)'
             /\ (account.open => account.creds = storage)'
  <2>1. saves' \in [Saves -> SaveType] /\ UNCHANGED <<row, strayed>>
    BY <1>0, <1>6 DEF SaveAnswered, NoSave, SaveType
  <2>2. profile' = Invalidated(profile, account.open)
    BY <1>6 DEF SaveAnswered, InvalidateProfile
  <2>3. profile' \in QueryType(Profiles) /\ Fetching(profile')
    BY <2>2, QueryOperations
  <2>4. /\ account' \in [open : BOOLEAN, creds : Nat] /\ storage' \in Nat
        /\ account'.open => account'.creds = storage'
    BY <1>6 DEF SaveAnswered, ShowKey
  <2> QED
    BY <2>1, <2>3, <2>4 DEF Fetching
<1>7. ASSUME NEW m \in Saves, LoseSave(m)
      PROVE  /\ AccountTypeOK' /\ Fetching(profile)'
             /\ (account.open => account.creds = storage)'
  <2>1. saves' \in [Saves -> SaveType]
    BY <1>0, <1>7 DEF LoseSave, NoSave, SaveType
  <2> QED
    BY <1>7, <2>1 DEF LoseSave, Fetching
<1>8. CASE UNCHANGED accountVars
  BY <1>8 DEF accountVars, Fetching
<1> QED
  BY <1>1, <1>2, <1>3, <1>4, <1>5, <1>6, <1>7, <1>8 DEF NextAccount

LEMMA AccountStep == AccountInv /\ [NextAccount]_accountVars => AccountInv'
<1> SUFFICES ASSUME AccountInv, [NextAccount]_accountVars PROVE AccountInv'
  OBVIOUS
<1> DEFINE
      Values == \A m \in Saves :
          /\ saves[m].at = "sent" /\ saves[m].kind = "url" => saves[m].value \in Urls
          /\ saves[m].at = "ok" /\ saves[m].kind = "rotate" => saves[m].value \in Nat
      Present == ~strayed => \A m \in Saves : Saving(m) => account.open /\ saves[m].mounted
      OneRotation == ~strayed => \A m, n \in Saves : Rotating(m) /\ Rotating(n) => m = n
      NewKey == ~strayed => \A m \in Saves : Rotating(m) /\ saves[m].at = "ok" => saves[m].value = row.key
      KeptKey == ~strayed /\ (\A m \in Saves : ~(Rotating(m) /\ saves[m].at = "ok"))
                    => storage \in {0, row.key}
      Shows == ~strayed /\ (\A m \in Saves : saves[m].at # "ok") => Current(profile, FindById)
      All == Values /\ Present /\ OneRotation /\ NewKey /\ KeptKey /\ Shows
<1> SUFFICES All'
  BY AccountTypes DEF AccountInv
<1>0. /\ All /\ Fetching(profile) /\ (account.open => account.creds = storage)
      /\ row \in [key : Nat \ {0}, url : Urls \cup {Nil}, mono : BOOLEAN]
      /\ profile \in QueryType(Profiles) /\ FindById \in Profiles
      /\ account \in [open : BOOLEAN, creds : Nat] /\ storage \in Nat
      /\ saves \in [Saves -> SaveType] /\ strayed \in BOOLEAN
  BY ProfileType DEF AccountInv, AccountTypeOK
<1> USE DEF Saving, Rotating
<1>1. CASE OpenAccount
  <2>1. ~account.open /\ account'.open /\ profile' = Observed(profile)
        /\ UNCHANGED <<row, storage, saves, strayed>>
    BY <1>1 DEF OpenAccount
  <2> QED
    BY <1>0, <2>1, QueryOperations DEF FindById
<1>2. CASE LeaveAccount
  <2>1. \A m \in Saves : /\ saves'[m].at = saves[m].at /\ saves'[m].kind = saves[m].kind
                         /\ saves'[m].value = saves[m].value
    BY <1>0, <1>2 DEF LeaveAccount, SaveType
  <2>2. /\ UNCHANGED <<row, profile, storage>>
        /\ strayed' = (strayed \/ \E m \in Saves : Saving(m))
    BY <1>2 DEF LeaveAccount
  <2> QED
    BY <1>0, <2>1, <2>2 DEF FindById
<1>3. CASE ProfileMoves
  <2>1. profile' \in Moves(profile, FindById) /\ UNCHANGED <<row, account, storage, saves, strayed>>
    BY <1>3 DEF ProfileMoves
  <2>2. Shows'
    BY <1>0, <2>1, QueryMoves DEF FindById
  <2> QED
    BY <1>0, <2>1, <2>2
<1>4. ASSUME NEW m \in Saves, HandleRotate(m) \/ HandleSaveUrl(m) \/ HandleSaveMono(m) PROVE All'
  <2>1. PICK kind \in {"rotate", "url", "mono"}, value \in Urls \cup {Nil} :
           Put(m, kind, value) /\ (kind = "url" => value \in Urls)
    BY <1>4 DEF HandleRotate, HandleSaveUrl, HandleSaveMono
  <2>2. /\ saves'[m] = [at |-> "sent", kind |-> kind, value |-> value, mounted |-> TRUE]
        /\ \A n \in Saves : n # m => saves'[n] = saves[n]
    BY <1>0, <2>1 DEF Put
  <2>3. /\ UNCHANGED <<row, profile, account, storage, strayed>> /\ account.open /\ ~Saving(m)
        /\ \A n \in Saves : Saving(n) /\ saves[n].mounted => saves[n].kind # kind
    BY <2>1 DEF Put
  <2> QED
    BY <1>0, <2>1, <2>2, <2>3 DEF FindById
<1>5. ASSUME NEW m \in Saves, RotateApiKey(m) \/ UpdateWebhookUrl(m) \/ UpdateMonoApiKey(m) PROVE All'
  <2>1. /\ saves[m].at = "sent" /\ saves'[m].at = "ok" /\ saves'[m].kind = saves[m].kind
        /\ saves'[m].mounted = saves[m].mounted
        /\ saves[m].kind = "rotate" => saves'[m].value = row'.key /\ row'.key \in Nat
        /\ saves[m].kind # "rotate" => row'.key = row.key
        /\ \A n \in Saves : n # m => saves'[n] = saves[n]
    BY <1>0, <1>5 DEF RotateApiKey, UpdateWebhookUrl, UpdateMonoApiKey, SaveType
  <2>2. UNCHANGED <<profile, account, storage, strayed>>
    BY <1>5 DEF RotateApiKey, UpdateWebhookUrl, UpdateMonoApiKey
  <2> QED
    BY <1>0, <2>1, <2>2
<1>6. ASSUME NEW m \in Saves, SaveAnswered(m) PROVE All'
  <2>1. /\ saves[m].at = "ok" /\ saves'[m].at = "idle" /\ UNCHANGED <<row, strayed>>
        /\ \A n \in Saves : n # m => saves'[n] = saves[n]
    BY <1>0, <1>6 DEF SaveAnswered, NoSave
  <2>2. account'.open = account.open /\ profile' = Invalidated(profile, account.open)
    BY <1>0, <1>6 DEF SaveAnswered, InvalidateProfile, ShowKey
  <2>3. storage' = IF saves[m].kind = "rotate" /\ saves[m].mounted THEN saves[m].value ELSE storage
    BY <1>6 DEF SaveAnswered, ShowKey
  <2>4. Values' /\ Present' /\ OneRotation' /\ NewKey'
    BY <1>0, <2>1, <2>2
  <2>5. KeptKey'
    BY <1>0, <2>1, <2>3
  <2>6. Shows'
    <3>1. Current(profile', FindById)
      BY <1>0, <2>2, QueryOperations
    <3> QED
      BY <2>1, <3>1 DEF FindById
  <2> QED
    BY <2>4, <2>5, <2>6
<1>7. ASSUME NEW m \in Saves, LoseSave(m) PROVE All'
  <2>1. /\ saves'[m].at = "idle" /\ \A n \in Saves : n # m => saves'[n] = saves[n]
        /\ strayed' = (strayed \/ saves[m].at = "ok")
        /\ UNCHANGED <<row, profile, account, storage>>
    BY <1>0, <1>7 DEF LoseSave, NoSave
  <2> QED
    BY <1>0, <2>1 DEF FindById
<1>8. CASE UNCHANGED accountVars
  BY <1>0, <1>8 DEF accountVars, FindById
<1> QED
  BY <1>1, <1>2, <1>3, <1>4, <1>5, <1>6, <1>7, <1>8 DEF NextAccount

(* However rotations, saves, visits and fetches overlap, the key the page    *)
(* shows is the one the gateway accepts, unless an answer missed the page.   *)
THEOREM KeyIsCurrent == Spec => []KeyShownIsTheKey
<1>1. Init => AccountInv
  BY AccountInit DEF Init
<1>2. AccountInv /\ [Next]_vars => AccountInv'
  BY AccountStep, AccountSteps
<1>3. AccountInv => KeyShownIsTheKey
  BY DEF AccountInv, KeyShownIsTheKey, Saving, Rotating
<1> QED
  BY <1>1, <1>2, <1>3, PTL DEF Spec

(* And the profile the page takes for current is the stored one, unless a    *)
(* save overtook its first load.                                             *)
THEOREM ProfileIsCurrent == Spec => []FreshProfileIsStored
<1>1. Init => AccountInv
  BY AccountInit DEF Init
<1>2. AccountInv /\ [Next]_vars => AccountInv'
  BY AccountStep, AccountSteps
<1>3. AccountInv => FreshProfileIsStored
  BY DEF AccountInv, FreshProfileIsStored, Current, Saving
<1> QED
  BY <1>1, <1>2, <1>3, PTL DEF Spec

-----------------------------------------------------------------------------
(* The list of applicants.                                                 *)

(* Inductive: a fetch in flight leaves the list stale; a write in flight     *)
(* names a row; what hangs on the page goes with it.  While no answer was    *)
(* lost, and unless a write has just been made, the query holds nothing      *)
(* older than the table.                                                     *)
PeopleInv ==
    /\ PeopleTypeOK
    /\ Fetching(people)
    /\ \A m \in Edits : Editing(m) =>
          edits[m].id \in People /\ (edits[m].kind # "remove" => edits[m].email \in Emails)
    /\ panel.mode # "view" => panel.selected # Nil
    /\ panel.create \/ panel.selected # Nil => panel.open
    /\ ~astray /\ (\A m \in Edits : edits[m].at # "ok") => Current(people, rows)

(* The page's variables change by the page's own steps. *)
LEMMA PeopleSteps == [Next]_vars => [NextPeople]_peopleVars
BY DEF Next, vars

LEMMA PeopleInit == InitPeople => PeopleInv
<1> SUFFICES ASSUME InitPeople PROVE PeopleInv
  OBVIOUS
<1>1. panel \in PanelType /\ panel.mode = "view" /\ panel.selected = Nil /\ ~panel.create
  BY DEF InitPeople, PanelType, Closed
<1>2. edits \in [Edits -> EditType] /\ \A m \in Edits : edits[m].at = "idle"
  BY DEF InitPeople, EditType, NoEdit
<1>3. people \in QueryType(Rows) /\ people.stale /\ people.fetch = "none"
  BY DEF InitPeople, QueryType, FetchStates, NoQuery
<1>4. rows \in Rows
  BY DEF InitPeople, Rows
<1> QED
  BY <1>1, <1>2, <1>3, <1>4
  DEF InitPeople, PeopleInv, PeopleTypeOK, Editing, Current, IsCurrent, IsFresh, Fetching

-----------------------------------------------------------------------------
(* Types. *)

(* Unmounting changes one field. *)
LEMMA UnmountedKeeps ==
  ASSUME edits \in [Edits -> EditType], NEW kinds
  PROVE  /\ Unmounted(kinds) \in [Edits -> EditType]
         /\ \A m \in Edits : /\ Unmounted(kinds)[m].at = edits[m].at
                             /\ Unmounted(kinds)[m].kind = edits[m].kind
                             /\ Unmounted(kinds)[m].id = edits[m].id
                             /\ Unmounted(kinds)[m].email = edits[m].email
BY DEF Unmounted, EditType

(* The gateway's answer changes one field. *)
LEMMA ReplyKeeps ==
  ASSUME edits \in [Edits -> EditType], NEW m \in Edits, NEW at \in {"found", "ok", "refused"},
         Reply(m, at)
  PROVE  /\ edits' \in [Edits -> EditType]
         /\ edits'[m].at = at /\ edits'[m].kind = edits[m].kind
         /\ edits'[m].id = edits[m].id /\ edits'[m].email = edits[m].email
         /\ \A n \in Edits : n # m => edits'[n] = edits[n]
<1>1. edits[m] \in EditType
  OBVIOUS
<1>2. [edits[m] EXCEPT !.at = at] \in EditType
  BY <1>1 DEF EditType
<1>3. edits' = [edits EXCEPT ![m] = [edits[m] EXCEPT !.at = at]]
  BY DEF Reply
<1> QED
  BY <1>1, <1>2, <1>3 DEF EditType

(* A write to the table, by the row it names. *)
Written(m) ==
    \/ rows' = rows
    \/ /\ edits[m].id \in People
       /\ \E email \in Emails \cup {Nil} : rows' = [rows EXCEPT ![edits[m].id] = email]

(* What the gateway does to one request, whichever it is. *)
Handled(m) == CreateApplicant(m) \/ FindApplicant(m) \/ UpdateApplicant(m) \/ DeleteApplicant(m)

(* A handler answers; it has written to the table only if it answers ok. *)
LEMMA HandledWrites ==
  ASSUME PeopleInv, NEW m \in Edits, Handled(m)
  PROVE  /\ \E at \in {"found", "ok", "refused"} : Reply(m, at) /\ (at # "ok" => rows' = rows)
         /\ Editing(m) /\ rows' \in Rows
         /\ UNCHANGED <<people, panel, astray>>
<1> USE DEF Handled, PeopleInv, PeopleTypeOK
<1>1. Editing(m) /\ edits[m].id \in People /\ (edits[m].kind # "remove" => edits[m].email \in Emails)
  BY DEF CreateApplicant, FindApplicant, UpdateApplicant, DeleteApplicant, Editing
<1>2. \E at \in {"found", "ok", "refused"} : Reply(m, at) /\ (at # "ok" => rows' = rows)
  BY DEF CreateApplicant, FindApplicant, UpdateApplicant, DeleteApplicant, Refuse
<1>3. \/ rows' = rows
      \/ rows' = [rows EXCEPT ![edits[m].id] = Nil]
      \/ edits[m].kind # "remove" /\ rows' = [rows EXCEPT ![edits[m].id] = edits[m].email]
  BY DEF CreateApplicant, FindApplicant, UpdateApplicant, DeleteApplicant, Refuse
<1>4. rows' \in Rows
  BY <1>1, <1>3 DEF Rows
<1>5. UNCHANGED <<people, panel, astray>>
  BY DEF CreateApplicant, FindApplicant, UpdateApplicant, DeleteApplicant
<1> QED
  BY <1>1, <1>2, <1>4, <1>5

-----------------------------------------------------------------------------
LEMMA PeopleStep == PeopleInv /\ [NextPeople]_peopleVars => PeopleInv'
<1> SUFFICES ASSUME PeopleInv, [NextPeople]_peopleVars PROVE PeopleInv'
  OBVIOUS
<1> DEFINE
      Named == \A m \in Edits : Editing(m) =>
          edits[m].id \in People /\ (edits[m].kind # "remove" => edits[m].email \in Emails)
      PageOpen == /\ panel.mode # "view" => panel.selected # Nil
                  /\ panel.create \/ panel.selected # Nil => panel.open
      Shows == ~astray /\ (\A m \in Edits : edits[m].at # "ok") => Current(people, rows)
<1>0. /\ rows \in Rows /\ people \in QueryType(Rows) /\ panel \in PanelType
      /\ edits \in [Edits -> EditType] /\ astray \in BOOLEAN /\ Fetching(people)
      /\ Named /\ PageOpen /\ Shows
  BY DEF PeopleInv, PeopleTypeOK
<1> SUFFICES /\ rows' \in Rows /\ people' \in QueryType(Rows) /\ panel' \in PanelType
             /\ edits' \in [Edits -> EditType] /\ astray' \in BOOLEAN /\ Fetching(people')
             /\ Named' /\ PageOpen' /\ Shows'
  BY DEF PeopleInv, PeopleTypeOK, Fetching
<1> USE DEF Editing
<1>1. CASE OpenPeople
  <2>1. /\ people' = Observed(people) /\ ~panel.open
        /\ panel' = [Closed EXCEPT !.open = TRUE] /\ UNCHANGED <<rows, astray, edits>>
    BY <1>1 DEF OpenPeople, Page
  <2>2. /\ people' \in QueryType(Rows) /\ Fetching(people')
        /\ Current(people, rows) => Current(people', rows)
    BY <1>0, <2>1, QueryOperations
  <2>3. panel' \in PanelType /\ PageOpen' /\ panel'.open
    BY <2>1 DEF Closed, PanelType
  <2> QED
    BY <1>0, <2>1, <2>2, <2>3
<1>2. CASE LeavePeople
  <2>1. /\ edits' = Unmounted({"create", "update", "remove"}) /\ panel' = Closed
        /\ UNCHANGED <<rows, people, astray>>
    BY <1>2 DEF LeavePeople
  <2>2. panel' \in PanelType /\ PageOpen'
    BY <2>1 DEF Closed, PanelType
  <2>3. /\ edits' \in [Edits -> EditType]
        /\ \A m \in Edits : /\ edits'[m].at = edits[m].at /\ edits'[m].kind = edits[m].kind
                            /\ edits'[m].id = edits[m].id /\ edits'[m].email = edits[m].email
    BY <1>0, <2>1, UnmountedKeeps
  <2> QED
    BY <1>0, <2>1, <2>2, <2>3
<1>3. CASE NewApplicant \/ CloseCreate \/ ClosePanel
           \/ (\E p \in People : SelectPerson(p))
           \/ (\E mode \in {"view", "edit", "delete"} : SetMode(mode))
  <2>1. panel' \in PanelType /\ PageOpen' /\ panel'.open = panel.open
    BY <1>0, <1>3 DEF PanelType, NewApplicant, CloseCreate, ClosePanel, SelectPerson, SetMode, Page
  <2>2. UNCHANGED <<rows, people, astray>>
    BY <1>3 DEF NewApplicant, CloseCreate, ClosePanel, SelectPerson, SetMode, Page
  <2>3. edits' = edits \/ edits' = Unmounted({"create"}) \/ edits' = Unmounted({"update", "remove"})
    BY <1>3 DEF NewApplicant, CloseCreate, ClosePanel, SelectPerson, SetMode, Page
  <2>4. /\ edits' \in [Edits -> EditType]
        /\ \A m \in Edits : /\ edits'[m].at = edits[m].at /\ edits'[m].kind = edits[m].kind
                            /\ edits'[m].id = edits[m].id /\ edits'[m].email = edits[m].email
    BY <1>0, <2>3, UnmountedKeeps
  <2> QED
    BY <1>0, <2>1, <2>2, <2>4
<1>4. ASSUME NEW m \in Edits, HandleSubmit(m) \/ HandleUpdate(m) \/ HandleDelete(m)
      PROVE  /\ rows' \in Rows /\ people' \in QueryType(Rows) /\ panel' \in PanelType
             /\ edits' \in [Edits -> EditType] /\ astray' \in BOOLEAN /\ Fetching(people')
             /\ Named' /\ PageOpen' /\ Shows'
  <2>1. panel.open /\ (panel.mode # "view" => panel.selected \in People)
    BY <1>0, <1>4 DEF HandleSubmit, HandleUpdate, HandleDelete, PanelType
  <2>2. PICK kind \in {"create", "update", "remove"}, id \in People, email \in Emails \cup {Nil} :
           SendEdit(m, kind, id, email) /\ (kind # "remove" => email \in Emails)
    BY <1>4, <2>1 DEF HandleSubmit, HandleUpdate, HandleDelete
  <2>3. [at |-> "sent", kind |-> kind, id |-> id, email |-> email, mounted |-> TRUE] \in EditType
    BY DEF EditType
  <2>4. /\ edits' = [edits EXCEPT ![m] =
               [at |-> "sent", kind |-> kind, id |-> id, email |-> email, mounted |-> TRUE]]
        /\ UNCHANGED <<rows, people, panel, astray>> /\ edits[m].at = "idle"
    BY <2>2 DEF SendEdit
  <2>5. /\ edits' \in [Edits -> EditType]
        /\ edits'[m].at = "sent" /\ edits'[m].kind = kind /\ edits'[m].id = id
        /\ edits'[m].email = email
        /\ \A n \in Edits : n # m => edits'[n] = edits[n]
    BY <1>0, <2>3, <2>4
  <2> QED
    BY <1>0, <2>1, <2>2, <2>4, <2>5
<1>5. ASSUME NEW m \in Edits, Handled(m)
      PROVE  /\ rows' \in Rows /\ people' \in QueryType(Rows) /\ panel' \in PanelType
             /\ edits' \in [Edits -> EditType] /\ astray' \in BOOLEAN /\ Fetching(people')
             /\ Named' /\ PageOpen' /\ Shows'
  <2>1. /\ Editing(m) /\ rows' \in Rows /\ UNCHANGED <<people, panel, astray>>
        /\ \E at \in {"found", "ok", "refused"} : Reply(m, at) /\ (at # "ok" => rows' = rows)
    BY <1>5, HandledWrites
  <2>2. PICK at \in {"found", "ok", "refused"} : Reply(m, at) /\ (at # "ok" => rows' = rows)
    BY <2>1
  <2>3. /\ edits' \in [Edits -> EditType]
        /\ edits'[m].at = at /\ edits'[m].kind = edits[m].kind
        /\ edits'[m].id = edits[m].id /\ edits'[m].email = edits[m].email
        /\ \A n \in Edits : n # m => edits'[n] = edits[n]
    BY <1>0, <2>2, ReplyKeeps
  <2>4. Named'
    BY <1>0, <2>1, <2>3
  <2>5. Shows'
    <3>1. CASE at = "ok"
      BY <2>3, <3>1
    <3>2. CASE at # "ok" /\ edits[m].at # "ok"
      BY <1>0, <2>1, <2>2, <2>3, <3>2
    <3>3. edits[m].at # "ok"
      BY <1>5 DEF Handled, CreateApplicant, FindApplicant, UpdateApplicant, DeleteApplicant
    <3> QED
      BY <3>1, <3>2, <3>3
  <2> QED
    BY <1>0, <2>1, <2>3, <2>4, <2>5
<1>6. ASSUME NEW m \in Edits, EditAnswered(m) \/ LoseEdit(m)
      PROVE  /\ rows' \in Rows /\ people' \in QueryType(Rows) /\ panel' \in PanelType
             /\ edits' \in [Edits -> EditType] /\ astray' \in BOOLEAN /\ Fetching(people')
             /\ Named' /\ PageOpen' /\ Shows'
  <2>1. edits' = [edits EXCEPT ![m] = NoEdit] /\ rows' = rows /\ edits[m].at # "idle"
    BY <1>6 DEF EditAnswered, LoseEdit
  <2>2. NoEdit \in EditType /\ NoEdit.at = "idle"
    BY DEF NoEdit, EditType
  <2>3. /\ edits' \in [Edits -> EditType] /\ edits'[m].at = "idle"
        /\ \A n \in Edits : n # m => edits'[n] = edits[n]
    BY <1>0, <2>1, <2>2
  <2>4. /\ panel' \in PanelType /\ PageOpen' /\ panel'.open = panel.open
    BY <1>0, <1>6 DEF EditAnswered, LoseEdit, PanelType
  <2>5. /\ astray' \in BOOLEAN /\ (astray => astray')
        /\ people' = people \/ people' = Invalidated(people, panel.open)
    BY <1>0, <1>6 DEF EditAnswered, LoseEdit, InvalidatePeople
  <2>6. panel.open \in BOOLEAN
    BY <1>0 DEF PanelType
  <2>7. \A b \in BOOLEAN : /\ Invalidated(people, b) \in QueryType(Rows)
                            /\ Fetching(Invalidated(people, b))
    BY <1>0, QueryOperations
  <2>8. people' \in QueryType(Rows) /\ Fetching(people')
    BY <1>0, <2>5, <2>6, <2>7
  <2>9. Named'
    BY <1>0, <2>3, <2>4, <2>5
  <2>10. Shows'
    <3>1. CASE EditAnswered(m) /\ edits[m].at = "ok"
      <4>1. people' = Invalidated(people, panel.open) /\ astray' = astray
        BY <3>1 DEF EditAnswered, InvalidatePeople
      <4>2. Current(Invalidated(people, panel.open), rows)
        BY <1>0, <2>6, QueryOperations
      <4> QED
        BY <2>1, <4>1, <4>2
    <3>2. CASE EditAnswered(m) /\ edits[m].at # "ok"
      BY <1>0, <2>1, <2>3, <3>2 DEF EditAnswered
    <3>3. CASE LoseEdit(m)
      <4>1. astray' = (astray \/ edits[m].at = "ok") /\ people' = people
        BY <3>3 DEF LoseEdit
      <4>2. ~astray' => \A n \in Edits : edits'[n].at # "ok" => edits[n].at # "ok"
        BY <2>3, <4>1
      <4> QED
        BY <1>0, <2>1, <2>3, <4>1, <4>2
    <3> QED
      BY <1>6, <3>1, <3>2, <3>3
  <2> QED
    BY <1>0, <2>1, <2>3, <2>4, <2>5, <2>8, <2>9, <2>10
<1>7. CASE PeopleMove
  <2>1. people' \in Moves(people, rows) /\ UNCHANGED <<rows, panel, edits, astray>>
    BY <1>7 DEF PeopleMove
  <2>2. /\ people' \in QueryType(Rows) /\ Fetching(people')
        /\ Current(people, rows) => Current(people', rows)
    BY <1>0, <2>1, QueryMoves
  <2> QED
    BY <1>0, <2>1, <2>2
<1>8. CASE UNCHANGED peopleVars
  BY <1>0, <1>8 DEF peopleVars
<1> QED
  BY <1>1, <1>2, <1>3, <1>4, <1>5, <1>6, <1>7, <1>8 DEF NextPeople, Handled

(* Once this tab's writes are answered, the list it takes for current is the *)
(* gateway's table: an answer read before a write never counts as current    *)
(* after it, however creations, edits, deletions and fetches interleave,     *)
(* unless the write overtook a fetch that goes on: the list's first, or one  *)
(* whose page was left.                                                      *)
THEOREM ListIsCurrent == Spec => []FreshListIsStored
<1>1. Init => PeopleInv
  BY PeopleInit DEF Init
<1>2. PeopleInv /\ [Next]_vars => PeopleInv'
  BY PeopleStep, PeopleSteps
<1>3. PeopleInv => FreshListIsStored
  BY DEF PeopleInv, FreshListIsStored, Current, Editing
<1> QED
  BY <1>1, <1>2, <1>3, PTL DEF Spec

-----------------------------------------------------------------------------
(* The review page.                                                        *)

(* No decided application is in what a list holds for current, nor in the   *)
(* answer that is about to become so.                                       *)
WithoutDecided(q) ==
    \A a \in Apps : verdicts[a] > 0 =>
        /\ IsCurrent(q) /\ q.data # Nil => q.data[a] # "MANUAL_REVIEW"
        /\ q.fetch = "answered" /\ ~q.overtaken => q.answer[a] # "MANUAL_REVIEW"

(* Inductive: a decided application is COMPLETED, and what was found in      *)
(* review is a decision.  While the workspace knows of every click in flight *)
(* they wait for one another, so that a decision that has found its row in   *)
(* review is the only one under way and the first of that review.            *)
DeskInv ==
    /\ DeskTypeOK
    /\ \A l \in ListKeys : Fetching(lists[l])
    /\ \A m \in Clicks : Clicked(m) => clicks[m].app \in Apps
    /\ \A m \in Clicks : clicks[m].at = "found" => clicks[m].kind = "decide"
    /\ \A a \in Apps : verdicts[a] > 0 => status[a] = "COMPLETED"
    /\ ~blind =>
          /\ \A m \in Clicks : Clicked(m) => clicks[m].waits
          /\ \A m, n \in Clicks :
                Clicked(m) /\ Clicked(n) /\ clicks[m].kind = clicks[n].kind => m = n
          /\ \A m \in Clicks : clicks[m].at = "found" => verdicts[clicks[m].app] = 0
          /\ \A a \in Apps : verdicts[a] < 2
          /\ (\A m \in Clicks : clicks[m].at # "ok") => WithoutDecided(lists["queue"])

(* The page's variables change by the page's own steps. *)
LEMMA DeskSteps == [Next]_vars => [NextDesk]_deskVars
BY DEF Next, vars

LEMMA DeskInit == InitDesk => DeskInv
<1> SUFFICES ASSUME InitDesk PROVE DeskInv
  OBVIOUS
<1>1. /\ status \in [Apps -> Statuses] /\ verdicts \in [Apps -> 0 .. 2]
      /\ \A a \in Apps : verdicts[a] = 0
  BY DEF InitDesk, Statuses
<1>2. /\ lists \in [ListKeys -> QueryType([Apps -> Statuses])]
      /\ \A l \in ListKeys : lists[l].fetch = "none" /\ lists[l].stale
  BY DEF InitDesk, QueryType, FetchStates, NoQuery
<1>3. details \in [Apps -> DetailType] /\ desk \in DeskType /\ blind = FALSE
  BY DEF InitDesk, DetailType, DeskType, NoDetail
<1>4. clicks \in [Clicks -> ClickType] /\ \A m \in Clicks : clicks[m].at = "idle"
  BY DEF InitDesk, ClickType, NoClick
<1>5. \A a \in Apps : ~(verdicts[a] > 0) /\ verdicts[a] < 2
  BY <1>1
<1>6. WithoutDecided(lists["queue"])
  BY <1>5 DEF WithoutDecided
<1>7. DeskTypeOK
  BY <1>1, <1>2, <1>3, <1>4 DEF DeskTypeOK
<1> QED
  BY <1>2, <1>4, <1>5, <1>6, <1>7 DEF DeskInv, Fetching, Clicked

-----------------------------------------------------------------------------
(* What the helpers keep. *)

(* A workspace that goes takes with it what it knows of its clicks, no more. *)
LEMMA KeptKeeps ==
  ASSUME NEW cs \in [Clicks -> ClickType]
  PROVE  /\ Kept(cs) \in [Clicks -> ClickType]
         /\ \A m \in Clicks : /\ Kept(cs)[m].at = cs[m].at /\ Kept(cs)[m].kind = cs[m].kind
                              /\ Kept(cs)[m].app = cs[m].app
         /\ Effective' # {} => Kept(cs) = cs
<1>1. CASE Effective' # {}
  BY <1>1 DEF Kept
<1>2. CASE Effective' = {}
  <2> DEFINE gone == [m \in Clicks |-> [cs[m] EXCEPT !.waits = FALSE, !.mounted = @ /\ desk'.open]]
  <2>1. Kept(cs) = gone
    BY <1>2 DEF Kept
  <2>2. gone \in [Clicks -> ClickType]
    BY DEF ClickType
  <2>3. \A m \in Clicks : /\ gone[m].at = cs[m].at /\ gone[m].kind = cs[m].kind
                          /\ gone[m].app = cs[m].app
    BY DEF ClickType
  <2> HIDE DEF gone
  <2> QED
    BY <1>2, <2>1, <2>2, <2>3
<1> QED
  BY <1>1, <1>2

LEMMA WatchKeeps ==
  ASSUME clicks \in [Clicks -> ClickType], blind \in BOOLEAN, Watch
  PROVE  /\ clicks' \in [Clicks -> ClickType] /\ blind' \in BOOLEAN
         /\ \A m \in Clicks : /\ clicks'[m].at = clicks[m].at /\ clicks'[m].kind = clicks[m].kind
                              /\ clicks'[m].app = clicks[m].app
         /\ ~blind' => ~blind /\ \A m \in Clicks : Clicked(m) => clicks'[m] = clicks[m]
BY KeptKeeps DEF Watch, Blinded

(* A click that moves on changes where it is. *)
LEMMA ClickMoves ==
  ASSUME clicks \in [Clicks -> ClickType], NEW m \in Clicks,
         NEW at \in {"found", "ok", "refused"}, clicks' = [clicks EXCEPT ![m].at = at]
  PROVE  /\ clicks' \in [Clicks -> ClickType]
         /\ clicks'[m].at = at /\ clicks'[m].kind = clicks[m].kind
         /\ clicks'[m].app = clicks[m].app /\ clicks'[m].waits = clicks[m].waits
         /\ \A n \in Clicks : n # m => clicks'[n] = clicks[n]
<1>1. clicks[m] \in ClickType
  OBVIOUS
<1>2. [clicks[m] EXCEPT !.at = at] \in ClickType
  BY <1>1 DEF ClickType
<1>3. clicks' = [clicks EXCEPT ![m] = [clicks[m] EXCEPT !.at = at]]
  OBVIOUS
<1> QED
  BY <1>1, <1>2, <1>3 DEF ClickType

LEMMA ClickEnds ==
  ASSUME clicks \in [Clicks -> ClickType], NEW m \in Clicks
  PROVE  /\ [clicks EXCEPT ![m] = NoClick] \in [Clicks -> ClickType]
         /\ [clicks EXCEPT ![m] = NoClick][m].at = "idle"
         /\ \A n \in Clicks : n # m => [clicks EXCEPT ![m] = NoClick][n] = clicks[n]
<1>1. NoClick \in ClickType /\ NoClick.at = "idle"
  BY DEF NoClick, ClickType
<1> QED
  BY <1>1

(* Neither a fetch nor time brings a decided application back. *)
LEMMA MovesWithoutDecided ==
  ASSUME DeskInv, NEW q \in Moves(lists["queue"], status), WithoutDecided(lists["queue"])
  PROVE  WithoutDecided(q)
<1> DEFINE p == lists["queue"]
<1>0. /\ p \in QueryType([Apps -> Statuses]) /\ Fetching(p)
      /\ \A a \in Apps : verdicts[a] > 0 => status[a] = "COMPLETED"
  BY DEF DeskInv, DeskTypeOK, ListKeys
<1>1. WithoutDecided(p)
  OBVIOUS
<1>2. q \in Moves(p, status)
  OBVIOUS
<1> HIDE DEF p
<1> USE DEF QueryType, FetchStates, Fetching, WithoutDecided, IsCurrent, IsFresh
<1>3. CASE p.fetch = "sent" /\ q = Answered(p, status)
  BY <1>0, <1>1, <1>3 DEF Answered
<1>4. CASE p.fetch = "answered" /\ q = Arrival(p)
  BY <1>0, <1>1, <1>4 DEF Arrival
<1>5. CASE p.fetch # "none" /\ q = Failed(p)
  BY <1>0, <1>5 DEF Failed
<1>6. CASE ~p.stale /\ q = Aged(p)
  BY <1>0, <1>1, <1>6 DEF Aged
<1> QED
  BY <1>2, <1>3, <1>4, <1>5, <1>6 DEF Moves

(* Nor does a page that appears; and what is invalidated holds none, unless  *)
(* its fetch goes on, overtaken.                                             *)
LEMMA OperationsWithoutDecided ==
  ASSUME NEW q \in QueryType([Apps -> Statuses]), Fetching(q)
  PROVE  /\ WithoutDecided(q) => WithoutDecided(Observed(q))
         /\ \A b \in BOOLEAN : WithoutDecided(Invalidated(q, b))
<1>1. WithoutDecided(q) => WithoutDecided(Observed(q))
  BY DEF QueryType, Fetching, WithoutDecided, IsCurrent, IsFresh, Observed, Refetch
<1>2. ASSUME NEW b \in BOOLEAN PROVE WithoutDecided(Invalidated(q, b))
  <2>1. LET q1 == Invalidated(q, b) IN q1.stale /\ (q1.fetch = "answered" => q1.overtaken)
    BY DEF QueryType, FetchStates, Refetch, Marked, Invalidated
  <2> QED
    BY <2>1 DEF WithoutDecided, IsCurrent, IsFresh
<1> QED
  BY <1>1, <1>2

-----------------------------------------------------------------------------
LEMMA DeskStep == DeskInv /\ [NextDesk]_deskVars => DeskInv'
<1> SUFFICES ASSUME DeskInv, [NextDesk]_deskVars PROVE DeskInv'
  OBVIOUS
<1> DEFINE
      Rows1 == status \in [Apps -> Statuses] /\ verdicts \in [Apps -> 0 .. 2]
      Cache == /\ lists \in [ListKeys -> QueryType([Apps -> Statuses])]
               /\ \A l \in ListKeys : Fetching(lists[l])
      Page1 == details \in [Apps -> DetailType] /\ desk \in DeskType
      Sent == /\ clicks \in [Clicks -> ClickType]
              /\ \A m \in Clicks : Clicked(m) => clicks[m].app \in Apps
              /\ \A m \in Clicks : clicks[m].at = "found" => clicks[m].kind = "decide"
      Decided == \A a \in Apps : verdicts[a] > 0 => status[a] = "COMPLETED"
      Waiting == ~blind => \A m \in Clicks : Clicked(m) => clicks[m].waits
      OneOfEach == ~blind => \A m, n \in Clicks :
          Clicked(m) /\ Clicked(n) /\ clicks[m].kind = clicks[n].kind => m = n
      First == ~blind => \A m \in Clicks : clicks[m].at = "found" => verdicts[clicks[m].app] = 0
      Once == ~blind => \A a \in Apps : verdicts[a] < 2
      Leaves == ~blind /\ (\A m \in Clicks : clicks[m].at # "ok") => WithoutDecided(lists["queue"])
      All == /\ Rows1 /\ Cache /\ Page1 /\ Sent /\ blind \in BOOLEAN
             /\ Decided /\ Waiting /\ OneOfEach /\ First /\ Once /\ Leaves
<1>0. All
  BY DEF DeskInv, DeskTypeOK
<1> SUFFICES All'
  BY DEF DeskInv, DeskTypeOK
<1> USE DEF Clicked
(* The clicks are as they were, the workspace perhaps gone. *)
<1>a. ASSUME UNCHANGED <<status, verdicts>>, Cache', Page1', Watch,
             WithoutDecided(lists["queue"]) => WithoutDecided(lists["queue"])'
      PROVE  All'
  <2>1. /\ clicks' \in [Clicks -> ClickType] /\ blind' \in BOOLEAN
        /\ \A m \in Clicks : /\ clicks'[m].at = clicks[m].at /\ clicks'[m].kind = clicks[m].kind
                             /\ clicks'[m].app = clicks[m].app
        /\ ~blind' => ~blind /\ \A m \in Clicks : Clicked(m) => clicks'[m] = clicks[m]
    BY <1>0, <1>a, WatchKeeps
  <2>2. Sent' /\ Decided' /\ Waiting' /\ OneOfEach' /\ First' /\ Once'
    BY <1>0, <1>a, <2>1
  <2>3. Leaves'
    BY <1>0, <1>a, <2>1
  <2> QED
    BY <1>0, <1>a, <2>1, <2>2, <2>3
(* Only the page changes, or an application that nobody has decided. *)
<1>b. ASSUME UNCHANGED <<verdicts, clicks, blind>>, Rows1', Decided', Cache', Page1',
             WithoutDecided(lists["queue"]) => WithoutDecided(lists["queue"])'
      PROVE  All'
  <2>1. Leaves'
    BY <1>0, <1>b
  <2> QED
    BY <1>0, <1>b, <2>1
(* What appears is fetched if it is stale. *)
<1>o. \A l \in ListKeys : /\ Observed(lists[l]) \in QueryType([Apps -> Statuses])
                          /\ Fetching(Observed(lists[l]))
                          /\ WithoutDecided(lists[l]) => WithoutDecided(Observed(lists[l]))
  BY <1>0, QueryOperations, OperationsWithoutDecided
<1>1. CASE OpenDesk
  <2>1. /\ lists' = [lists EXCEPT !["queue"] = Observed(lists["queue"])]
        /\ desk' = [desk EXCEPT !.open = TRUE]
        /\ UNCHANGED <<status, verdicts, details, clicks, blind>>
    BY <1>1 DEF OpenDesk
  <2>2. Cache' /\ (WithoutDecided(lists["queue"]) => WithoutDecided(lists'["queue"]))
    BY <1>0, <2>1, <1>o DEF Fetching, ListKeys
  <2>3. Page1'
    BY <1>0, <2>1 DEF DeskType
  <2> QED
    BY <1>0, <1>b, <2>1, <2>2, <2>3 DEF WithoutDecided
<1>2. CASE LeaveDesk
  BY <1>0, <1>2, <1>a DEF LeaveDesk, DeskType, WithoutDecided
<1>3. CASE Search
  <2>1. /\ lists' = [l \in ListKeys |-> IF l # ListShown THEN Observed(lists[l]) ELSE lists[l]]
        /\ desk' = [desk EXCEPT !.search = ~@]
        /\ UNCHANGED <<status, verdicts, details>> /\ Watch
    BY <1>3 DEF Search
  <2>2. Cache' /\ (WithoutDecided(lists["queue"]) => WithoutDecided(lists'["queue"]))
    BY <1>0, <2>1, <1>o DEF Fetching, ListKeys
  <2>3. Page1'
    BY <1>0, <2>1 DEF DeskType
  <2> QED
    BY <1>0, <1>a, <2>1, <2>2, <2>3 DEF WithoutDecided
<1>4. ASSUME NEW a \in Apps, Select(a) \/ LoadDetail(a) \/ AgeDetail(a) PROVE All'
  <2>1. UNCHANGED <<status, verdicts, lists, clicks, blind>>
    BY <1>4 DEF Select, LoadDetail, AgeDetail
  <2>2. CASE Select(a)
    <3>1. desk' \in DeskType /\ details' = details
      BY <1>0, <2>2 DEF Select, DeskType
    <3> QED
      BY <1>0, <1>b, <2>1, <3>1 DEF WithoutDecided, Fetching
  <2>3. CASE LoadDetail(a)
    <3>1. [data |-> status[a], stale |-> FALSE] \in DetailType
      BY <1>0 DEF DetailType
    <3>2. details' \in [Apps -> DetailType] /\ desk' = desk
      BY <1>0, <2>3, <3>1 DEF LoadDetail
    <3> QED
      BY <1>0, <1>b, <2>1, <3>2 DEF WithoutDecided, Fetching
  <2>4. CASE AgeDetail(a)
    <3>1. details' \in [Apps -> DetailType] /\ desk' = desk
      BY <1>0, <2>4 DEF AgeDetail, DetailType
    <3> QED
      BY <1>0, <1>b, <2>1, <3>1 DEF WithoutDecided, Fetching
  <2> QED
    BY <1>4, <2>2, <2>3, <2>4
<1>5. ASSUME NEW a \in Apps, AnalysisEnds(a) PROVE All'
  BY <1>0, <1>5, <1>b DEF AnalysisEnds, Statuses, WithoutDecided
<1>6. ASSUME NEW m \in Clicks, NEW kind \in {"decide", "flag"}, NEW a \in Apps, Click(m, kind, a)
      PROVE  All'
  <2> DEFINE click == [at |-> "sent", kind |-> kind, app |-> a, waits |-> TRUE, mounted |-> TRUE]
  <2>1. /\ clicks' = [clicks EXCEPT ![m] = click] /\ ~Clicked(m) /\ ~Pending(kind)
        /\ UNCHANGED <<status, verdicts, lists, details, desk, blind>>
    BY <1>6 DEF Click
  <2>2. click \in ClickType
    BY DEF ClickType
  <2>3. /\ clicks' \in [Clicks -> ClickType]
        /\ clicks'[m].at = "sent" /\ clicks'[m].kind = kind /\ clicks'[m].app = a /\ clicks'[m].waits
        /\ \A n \in Clicks : n # m => clicks'[n] = clicks[n]
    BY <1>0, <2>1, <2>2
  <2>4. Sent' /\ Waiting' /\ First'
    BY <1>0, <2>1, <2>3
  <2>5. OneOfEach'
    BY <1>0, <2>1, <2>3 DEF Pending
  <2>6. Leaves'
    BY <1>0, <2>1, <2>3 DEF WithoutDecided
  <2> QED
    BY <1>0, <2>1, <2>4, <2>5, <2>6
<1>7. ASSUME NEW m \in Clicks, FindInReview(m) PROVE All'
  <2>1. PICK at \in {"found", "refused"} :
           /\ clicks' = [clicks EXCEPT ![m].at = at]
           /\ at = "found" => status[clicks[m].app] = "MANUAL_REVIEW"
    BY <1>7 DEF FindInReview
  <2>2. /\ clicks[m].at = "sent" /\ clicks[m].kind = "decide"
        /\ UNCHANGED <<status, verdicts, lists, details, desk, blind>>
    BY <1>7 DEF FindInReview
  <2>3. /\ clicks' \in [Clicks -> ClickType]
        /\ clicks'[m].at = at /\ clicks'[m].kind = clicks[m].kind
        /\ clicks'[m].app = clicks[m].app /\ clicks'[m].waits = clicks[m].waits
        /\ \A n \in Clicks : n # m => clicks'[n] = clicks[n]
    BY <1>0, <2>1, ClickMoves
  <2>4. Sent' /\ Waiting' /\ OneOfEach'
    BY <1>0, <2>2, <2>3
  <2>5. at = "found" => verdicts[clicks[m].app] = 0
    BY <1>0, <2>1, <2>2
  <2>6. First'
    BY <1>0, <2>2, <2>3, <2>5
  <2>7. Leaves'
    BY <1>0, <2>2, <2>3 DEF WithoutDecided
  <2> QED
    BY <1>0, <2>2, <2>4, <2>6, <2>7
<1>8. ASSUME NEW m \in Clicks, ManualDecision(m) PROVE All'
  <2> DEFINE app == clicks[m].app
  <2>1. /\ clicks[m].at = "found" /\ clicks[m].kind = "decide" /\ app \in Apps
        /\ status' = [status EXCEPT ![app] = "COMPLETED"]
        /\ verdicts' = [verdicts EXCEPT ![app] = IF @ < 2 THEN @ + 1 ELSE @]
        /\ clicks' = [clicks EXCEPT ![m].at = "ok"]
        /\ UNCHANGED <<lists, details, desk, blind>>
    BY <1>0, <1>8 DEF ManualDecision
  <2>2. /\ clicks' \in [Clicks -> ClickType]
        /\ clicks'[m].at = "ok" /\ clicks'[m].kind = clicks[m].kind
        /\ clicks'[m].app = clicks[m].app /\ clicks'[m].waits = clicks[m].waits
        /\ \A n \in Clicks : n # m => clicks'[n] = clicks[n]
    BY <1>0, <2>1, ClickMoves
  <2>3. Sent' /\ Waiting' /\ OneOfEach'
    BY <1>0, <2>1, <2>2
  <2>4. Rows1' /\ Decided'
    BY <1>0, <2>1 DEF Statuses
  <2>5. Once'
    BY <1>0, <2>1
  <2>6. ~blind => \A n \in Clicks : clicks'[n].at # "found"
    BY <1>0, <2>1, <2>2
  <2>7. First' /\ Leaves'
    BY <2>1, <2>2, <2>6
  <2> QED
    BY <1>0, <2>1, <2>3, <2>4, <2>5, <2>7
<1>9. ASSUME NEW m \in Clicks, FlagForManualReview(m) PROVE All'
  <2> DEFINE app == clicks[m].app
  <2>1. /\ clicks[m].at = "sent" /\ app \in Apps
        /\ status' = [status EXCEPT ![app] = "MANUAL_REVIEW"]
        /\ verdicts' = [verdicts EXCEPT ![app] = 0]
        /\ clicks' = [clicks EXCEPT ![m].at = "ok"]
        /\ UNCHANGED <<lists, details, desk, blind>>
    BY <1>0, <1>9 DEF FlagForManualReview
  <2>2. /\ clicks' \in [Clicks -> ClickType]
        /\ clicks'[m].at = "ok" /\ clicks'[m].kind = clicks[m].kind
        /\ clicks'[m].app = clicks[m].app /\ clicks'[m].waits = clicks[m].waits
        /\ \A n \in Clicks : n # m => clicks'[n] = clicks[n]
    BY <1>0, <2>1, ClickMoves
  <2>3. Sent' /\ Waiting' /\ OneOfEach'
    BY <1>0, <2>1, <2>2
  <2>4. Rows1' /\ Decided' /\ Once'
    BY <1>0, <2>1 DEF Statuses
  <2>5. First' /\ Leaves'
    BY <1>0, <2>1, <2>2
  <2> QED
    BY <1>0, <2>1, <2>3, <2>4, <2>5
<1>10. ASSUME NEW m \in Clicks, ClickAnswered(m) PROVE All'
  <2> DEFINE cs == [clicks EXCEPT ![m] = NoClick]
             ok == clicks[m].at = "ok"
             others == \E n \in Clicks \ {m} : Clicked(n)
  <2>1. /\ lists' = IF ok THEN [l \in ListKeys |-> Invalidated(lists[l], OnScreen(l))] ELSE lists
        /\ desk' = desk \/ desk' = [desk EXCEPT !.selected = Nil]
        /\ clicks' = Kept(cs)
        /\ blind' = (blind \/ (Effective' = {} /\ others))
        /\ UNCHANGED <<status, verdicts, details>> /\ clicks[m].at # "idle"
    BY <1>10 DEF ClickAnswered
  <2>2. /\ cs \in [Clicks -> ClickType] /\ cs[m].at = "idle"
        /\ \A n \in Clicks : n # m => cs[n] = clicks[n]
    BY <1>0, ClickEnds
  <2>3. /\ Kept(cs) \in [Clicks -> ClickType]
        /\ \A n \in Clicks : /\ Kept(cs)[n].at = cs[n].at /\ Kept(cs)[n].kind = cs[n].kind
                             /\ Kept(cs)[n].app = cs[n].app
        /\ Effective' # {} => Kept(cs) = cs
    BY <2>2, KeptKeeps
  <2> HIDE DEF cs
  <2>4. /\ clicks' \in [Clicks -> ClickType] /\ clicks'[m].at = "idle"
        /\ \A n \in Clicks : n # m => /\ clicks'[n].at = clicks[n].at
                                      /\ clicks'[n].kind = clicks[n].kind
                                      /\ clicks'[n].app = clicks[n].app
    BY <2>1, <2>2, <2>3
  <2>5. ~blind' => ~blind /\ \A n \in Clicks : clicks'[n].at # "idle" => clicks'[n] = clicks[n]
    BY <2>1, <2>2, <2>3, <2>4
  <2>6. Sent' /\ blind' \in BOOLEAN /\ Waiting' /\ OneOfEach' /\ First' /\ Once'
    BY <1>0, <2>1, <2>4, <2>5
  <2>7. \A l \in ListKeys : OnScreen(l) \in BOOLEAN
    BY <1>0 DEF OnScreen, DeskType
  <2>8. \A l \in ListKeys, b \in BOOLEAN :
           /\ Invalidated(lists[l], b) \in QueryType([Apps -> Statuses])
           /\ Fetching(Invalidated(lists[l], b))
           /\ WithoutDecided(Invalidated(lists[l], b))
    BY <1>0, QueryOperations, OperationsWithoutDecided
  <2>9. Cache'
    BY <1>0, <2>1, <2>7, <2>8 DEF Fetching
  <2>10. Page1'
    BY <1>0, <2>1 DEF DeskType
  <2>11. Leaves'
    <3>1. CASE ~ok
      BY <1>0, <2>1, <2>4, <2>5, <3>1 DEF WithoutDecided
    <3>2. CASE ok /\ ~blind'
      <4>1. "queue" \in ListKeys /\ lists'["queue"] = Invalidated(lists["queue"], OnScreen("queue"))
        BY <2>1, <3>2 DEF ListKeys
      <4>2. WithoutDecided(Invalidated(lists["queue"], OnScreen("queue")))
        BY <2>1, <2>7, <2>8, <3>2, <4>1
      <4> QED
        BY <2>1, <4>1, <4>2 DEF WithoutDecided
    <3> QED
      BY <3>1, <3>2
  <2> QED
    BY <1>0, <2>1, <2>6, <2>9, <2>10, <2>11
<1>11. ASSUME NEW m \in Clicks, LoseClick(m) PROVE All'
  <2>1. /\ clicks' = [clicks EXCEPT ![m] = NoClick] /\ blind' = (blind \/ clicks[m].at = "ok")
        /\ UNCHANGED <<status, verdicts, lists, details, desk>>
    BY <1>11 DEF LoseClick
  <2>2. /\ clicks' \in [Clicks -> ClickType] /\ clicks'[m].at = "idle"
        /\ \A n \in Clicks : n # m => clicks'[n] = clicks[n]
    BY <1>0, <2>1, ClickEnds
  <2>3. Sent' /\ Waiting' /\ OneOfEach' /\ First' /\ Once'
    BY <1>0, <2>1, <2>2
  <2>4. Leaves'
    BY <1>0, <2>1, <2>2 DEF WithoutDecided
  <2> QED
    BY <1>0, <2>1, <2>3, <2>4
<1>12. ASSUME NEW l \in ListKeys, ListMoves(l) PROVE All'
  <2>1. PICK q \in Moves(lists[l], status) : lists' = [lists EXCEPT ![l] = q]
    BY <1>12 DEF ListMoves
  <2>2. q \in QueryType([Apps -> Statuses]) /\ Fetching(q)
    BY <1>0, QueryMoves
  <2>3. Cache'
    BY <1>0, <2>1, <2>2 DEF Fetching
  <2>4. WithoutDecided(lists["queue"]) => WithoutDecided(lists'["queue"])
    BY <1>0, <2>1, MovesWithoutDecided DEF ListKeys
  <2>5. UNCHANGED <<status, verdicts, details, desk>> /\ Watch
    BY <1>12 DEF ListMoves
  <2> QED
    BY <1>0, <1>a, <2>3, <2>4, <2>5 DEF WithoutDecided
<1>13. CASE UNCHANGED deskVars
  BY <1>0, <1>13 DEF deskVars, WithoutDecided
<1> QED
  BY <1>1, <1>2, <1>3, <1>4, <1>5, <1>6, <1>7, <1>8, <1>9, <1>10, <1>11, <1>12, <1>13
  DEF NextDesk, HandleDecide, HandleFlag

(* An application is decided once per review, however the tab's two kinds of *)
(* click, searches, stale details and the pipeline interleave: the buttons   *)
(* wait and the gateway refuses what has left MANUAL_REVIEW.                 *)
THEOREM OneVerdict == Spec => []OneVerdictPerReview
<1>1. Init => DeskInv
  BY DeskInit DEF Init
<1>2. DeskInv /\ [Next]_vars => DeskInv'
  BY DeskStep, DeskSteps
<1>3. DeskInv => OneVerdictPerReview
  BY DEF DeskInv, OneVerdictPerReview
<1> QED
  BY <1>1, <1>2, <1>3, PTL DEF Spec

(* Once its decisions are answered, a tab does not show as current a queue   *)
(* with an application it has decided: an answer read before is dropped,     *)
(* unless it is the queue's first or the queue is off screen.                *)
THEOREM DecidedIsGone == Spec => []DecidedLeavesQueue
<1>1. Init => DeskInv
  BY DeskInit DEF Init
<1>2. DeskInv /\ [Next]_vars => DeskInv'
  BY DeskStep, DeskSteps
<1>3. DeskInv => DecidedLeavesQueue
  BY DEF DeskInv, DecidedLeavesQueue, WithoutDecided, Listed, Clicked
<1> QED
  BY <1>1, <1>2, <1>3, PTL DEF Spec
=============================================================================

--------------------------- MODULE PolicySettings ----------------------------
(***************************************************************************)
(* One tab on the settings page's risk policy: the query, the form that is *)
(* filled from it, and the two handlers of the risk-policy controller.     *)
(***************************************************************************)
EXTENDS QueryCache

CONSTANTS Thresholds,  \* values a policy can have
          Default,     \* BRAIN_DEFAULTS, here and in the gateway
          Puts         \* mutations that may be in flight together

ASSUME DefaultAssumption == Default \in Thresholds

VARIABLES
    policy,     \* the fintech's risk policy row, Nil when there is none
    policyQ,    \* the query ['risk-policy']
    section,    \* the section: open, the form, its toggle, whether it was synced
    puts,       \* mutations in flight
    detached    \* the answer to a mutation that wrote was lost

policyVars == <<policy, policyQ, section, puts, detached>>

(* What GET risk-policy answers: `stored' stands for an id and its dates. *)
Policies == [values : Thresholds, stored : BOOLEAN]
FindByFintechId == [values |-> IF policy = Nil THEN Default ELSE policy, stored |-> policy # Nil]
ASSUME NilAssumption == Nil \notin Policies

BrainDefaults == [values |-> Default, stored |-> FALSE]

ClosedSection == [open |-> FALSE, form |-> Nil, enabled |-> FALSE, synced |-> FALSE]
NoPut == [at |-> "idle", kind |-> "save", body |-> Nil, mounted |-> FALSE]

InitPolicy ==
    /\ policy = Nil /\ policyQ = NoQuery /\ section = ClosedSection
    /\ puts = [m \in Puts |-> NoPut] /\ detached = FALSE

Putting(m) == puts[m].at # "idle"

-----------------------------------------------------------------------------
(* The form is filled from the row the first time the section sees one, all *)
(* of it, the id and the dates included, over what had been typed.          *)
Synced(s, answer) ==
    IF answer # Nil /\ answer.stored /\ ~s.synced
    THEN [s EXCEPT !.synced = TRUE, !.enabled = TRUE, !.form = answer]
    ELSE s

OpenPolicy ==
    /\ ~section.open
    /\ section' = Synced([ClosedSection EXCEPT !.open = TRUE], policyQ.data)
    /\ policyQ' = Observed(policyQ)
    /\ UNCHANGED <<policy, puts, detached>>

LeavePolicy ==
    /\ section.open /\ section' = ClosedSection
    /\ puts' = [m \in Puts |-> [puts[m] EXCEPT !.mounted = FALSE]]
    /\ UNCHANGED <<policy, policyQ, detached>>

(* Mutant: a policy that is turned on starts with an empty form. *)
ToggleOnly ==
    /\ section.open
    /\ section' = [section EXCEPT !.enabled = ~@]
    /\ UNCHANGED <<policy, policyQ, puts, detached>>

(* Turning the toggle off hides the form and tells the gateway nothing. *)
HandleToggle ==
    /\ section.open
    /\ section' = [section EXCEPT !.enabled = ~@,
                       !.form = IF ~section.enabled /\ @ = Nil THEN BrainDefaults ELSE @]
    /\ UNCHANGED <<policy, policyQ, puts, detached>>

HandleChange ==
    /\ section.enabled
    /\ \E v \in Thresholds \ {section.form.values} : section' = [section EXCEPT !.form.values = v]
    /\ UNCHANGED <<policy, policyQ, puts, detached>>

(* Saving and resetting are one mutation: both buttons wait for either. *)
PutPolicy(m, kind, body) ==
    /\ section.enabled /\ ~Putting(m)
    /\ \A n \in Puts : ~(Putting(n) /\ puts[n].mounted)
    /\ puts' = [puts EXCEPT ![m] = [at |-> "sent", kind |-> kind, body |-> body, mounted |-> TRUE]]
    /\ UNCHANGED <<policy, policyQ, detached>>

(* The form is sent as it is; a reset sends the defaults and nothing else. *)
HandleSave(m) == PutPolicy(m, "save", section.form) /\ UNCHANGED section
HandleReset(m) ==
    /\ PutPolicy(m, "reset", BrainDefaults)
    /\ section' = [section EXCEPT !.form = BrainDefaults]

-----------------------------------------------------------------------------
(* The validation refuses a body with a field that the DTO does not list. *)
Whitelisted(body) == ~body.stored

UpsertPolicy(m) ==
    /\ puts[m].at = "sent"
    /\ IF Whitelisted(puts[m].body)
       THEN policy' = puts[m].body.values /\ puts' = [puts EXCEPT ![m].at = "ok"]
       ELSE puts' = [puts EXCEPT ![m].at = "refused"] /\ UNCHANGED policy
    /\ UNCHANGED <<policyQ, section, detached>>

(* Mutant: another key is invalidated. *)
InvalidateOther == UNCHANGED policyQ

InvalidatePolicy == policyQ' = Invalidated(policyQ, section.open)

PutAnswered(m) ==
    /\ puts[m].at \in {"ok", "refused"}
    /\ puts' = [puts EXCEPT ![m] = NoPut]
    /\ IF puts[m].at = "ok" THEN InvalidatePolicy ELSE UNCHANGED policyQ
    /\ UNCHANGED <<policy, section, detached>>

(* The request or its answer is lost, or the gateway fails. *)
LosePut(m) ==
    /\ puts[m].at \in {"sent", "ok"}
    /\ detached' = (detached \/ puts[m].at = "ok")
    /\ puts' = [puts EXCEPT ![m] = NoPut]
    /\ UNCHANGED <<policy, policyQ, section>>

(* An arrival is rendered at once. *)
PolicyMoves ==
    /\ \E q \in Moves(policyQ, FindByFintechId) :
          /\ policyQ' = q
          /\ section' = IF section.open THEN Synced(section, q.data) ELSE section
    /\ UNCHANGED <<policy, puts, detached>>

NextPolicy ==
    \/ OpenPolicy \/ LeavePolicy \/ HandleToggle \/ HandleChange \/ PolicyMoves
    \/ \E m \in Puts : HandleSave(m) \/ HandleReset(m)
          \/ UpsertPolicy(m) \/ PutAnswered(m) \/ LosePut(m)

-----------------------------------------------------------------------------
SectionType ==
    [open : BOOLEAN, form : Policies \cup {Nil}, enabled : BOOLEAN, synced : BOOLEAN]
PutType == [at : {"idle", "sent", "ok", "refused"}, kind : {"save", "reset"},
            body : Policies \cup {Nil}, mounted : BOOLEAN]

PolicyTypeOK ==
    /\ policy \in Thresholds \cup {Nil} /\ policyQ \in QueryType(Policies)
    /\ section \in SectionType /\ (section.enabled => section.form # Nil)
    /\ puts \in [Puts -> PutType] /\ detached \in BOOLEAN

(* A policy shown as current is the stored one, once this tab's writes are   *)
(* answered, whether they were accepted or refused, in whatever order saves, *)
(* resets and fetches end and whether or not the section is left meanwhile.  *)
(* (Unless the fetch goes on when the write is answered: the section is not  *)
(* on screen, or the policy has never been shown.)                           *)
FreshPolicyIsStored ==
    ~detached /\ (\A m \in Puts : ~Putting(m)) /\ IsCurrent(policyQ) => policyQ.data = FindByFintechId
=============================================================================

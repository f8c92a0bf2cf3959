--------------------------- MODULE ApplicantsPage ---------------------------
(***************************************************************************)
(* One tab on the applicants page: the list, the new-applicant form, the   *)
(* panel of one applicant with its edit and delete modes, and the handlers *)
(* of the applicants controller behind them.                               *)
(***************************************************************************)
EXTENDS QueryCache

CONSTANTS People,  \* ids
          Emails,
          Edits    \* creations, updates and deletions that may be in flight together

VARIABLES
    rows,     \* the fintech's applicants; of each the unique column, the email
    people,   \* the query ['applicants']
    panel,    \* page open, showCreate, selected, and the panel's mode
    edits,    \* mutations in flight
    astray    \* the answer to a mutation that wrote was lost

peopleVars == <<rows, people, panel, edits, astray>>

Rows == [People -> Emails \cup {Nil}]
Closed == [open |-> FALSE, create |-> FALSE, selected |-> Nil, mode |-> "view"]
NoEdit == [at |-> "idle", kind |-> "create", id |-> Nil, email |-> Nil, mounted |-> FALSE]

Taken(email, id) == \E p \in People \ {id} : rows[p] = email

InitPeople ==
    /\ rows = [p \in People |-> Nil]
    /\ people = NoQuery /\ panel = Closed
    /\ edits = [m \in Edits |-> NoEdit] /\ astray = FALSE

Editing(m) == edits[m].at # "idle"
Page(p) == panel' = p /\ UNCHANGED <<rows, astray>>

OpenPeople ==
    /\ ~panel.open /\ Page([Closed EXCEPT !.open = TRUE])
    /\ people' = Observed(people) /\ UNCHANGED edits

Unmounted(kinds) ==
    [m \in Edits |-> IF edits[m].kind \in kinds THEN [edits[m] EXCEPT !.mounted = FALSE] ELSE edits[m]]

LeavePeople ==
    /\ panel.open /\ panel' = Closed
    /\ edits' = Unmounted({"create", "update", "remove"})
    /\ UNCHANGED <<rows, people, astray>>

NewApplicant == panel.open /\ ~panel.create /\ Page([panel EXCEPT !.create = TRUE])
                  /\ UNCHANGED <<people, edits>>
CloseCreate == panel.create /\ Page([panel EXCEPT !.create = FALSE])
                  /\ edits' = Unmounted({"create"}) /\ UNCHANGED people

(* A row of the list as it was last fetched; panel and form cover the list, *)
(* so that a row can be clicked only once they are closed.                  *)
SelectPerson(p) ==
    /\ panel.open /\ ~panel.create /\ panel.selected = Nil /\ people.data # Nil /\ people.data[p] # Nil
    /\ Page([panel EXCEPT !.selected = p, !.mode = "view"]) /\ UNCHANGED <<people, edits>>
ClosePanel ==
    /\ panel.selected # Nil
    /\ Page([panel EXCEPT !.selected = Nil, !.mode = "view"])
    /\ edits' = Unmounted({"update", "remove"}) /\ UNCHANGED people
SetMode(mode) ==
    /\ panel.selected # Nil
    /\ panel.mode # mode /\ (panel.mode = "view" \/ mode = "view")
    /\ Page([panel EXCEPT !.mode = mode]) /\ UNCHANGED <<people, edits>>

(* Each mutation disables its own button while its component is there. *)
SendEdit(m, kind, id, email) ==
    /\ ~Editing(m)
    /\ \A n \in Edits : ~(Editing(n) /\ edits[n].mounted /\ edits[n].kind = kind)
    /\ edits' = [edits EXCEPT ![m] =
           [at |-> "sent", kind |-> kind, id |-> id, email |-> email, mounted |-> TRUE]]
    /\ UNCHANGED <<rows, people, panel, astray>>

(* The new row gets an id nothing else has. *)
HandleSubmit(m) ==
    /\ panel.create
    /\ \E p \in People, email \in Emails :
          /\ rows[p] = Nil /\ (\A n \in Edits : edits[n].id # p)
          /\ SendEdit(m, "create", p, email)
HandleUpdate(m) ==
    /\ panel.mode = "edit"
    /\ \E email \in Emails : SendEdit(m, "update", panel.selected, email)
HandleDelete(m) == panel.mode = "delete" /\ SendEdit(m, "remove", panel.selected, Nil)

-----------------------------------------------------------------------------
(* The gateway. *)
Reply(m, at) == edits' = [edits EXCEPT ![m].at = at]
Refuse(m) == Reply(m, "refused") /\ UNCHANGED rows

CreateApplicant(m) ==
    /\ edits[m].at = "sent" /\ edits[m].kind = "create"
    /\ IF Taken(edits[m].email, edits[m].id) THEN Refuse(m)
       ELSE rows' = [rows EXCEPT ![edits[m].id] = edits[m].email] /\ Reply(m, "ok")
    /\ UNCHANGED <<people, panel, astray>>

(* Both look the row up first, and then write it by its id. *)
FindApplicant(m) ==
    /\ edits[m].at = "sent" /\ edits[m].kind \in {"update", "remove"}
    /\ IF rows[edits[m].id] = Nil THEN Refuse(m) ELSE Reply(m, "found") /\ UNCHANGED rows
    /\ UNCHANGED <<people, panel, astray>>

UpdateApplicant(m) ==
    LET id == edits[m].id IN
    /\ edits[m].at = "found" /\ edits[m].kind = "update"
    /\ IF rows[id] = Nil \/ Taken(edits[m].email, id) THEN Refuse(m)
       ELSE rows' = [rows EXCEPT ![id] = edits[m].email] /\ Reply(m, "ok")
    /\ UNCHANGED <<people, panel, astray>>

(* The row goes, its accounts and applications with it by cascade. *)
DeleteApplicant(m) ==
    /\ edits[m].at = "found" /\ edits[m].kind = "remove"
    /\ IF rows[edits[m].id] = Nil THEN Refuse(m)
       ELSE rows' = [rows EXCEPT ![edits[m].id] = Nil] /\ Reply(m, "ok")
    /\ UNCHANGED <<people, panel, astray>>

(* Mutant: the hooks invalidate the one applicant, ['applicant', id], only. *)
InvalidateOnePerson == UNCHANGED people

(* onSuccess of the three hooks invalidates the list; the component, if it is *)
(* still there, closes.  An error leaves it open.                             *)
InvalidatePeople == people' = Invalidated(people, panel.open)

EditAnswered(m) ==
    /\ edits[m].at \in {"ok", "refused"}
    /\ edits' = [edits EXCEPT ![m] = NoEdit]
    /\ IF edits[m].at = "ok"
       THEN /\ InvalidatePeople
            /\ panel' = IF ~edits[m].mounted THEN panel
                        ELSE IF edits[m].kind = "create" THEN [panel EXCEPT !.create = FALSE]
                        ELSE [panel EXCEPT !.selected = Nil, !.mode = "view"]
       ELSE UNCHANGED <<people, panel>>
    /\ UNCHANGED <<rows, astray>>

(* The request or its answer is lost, or the gateway fails. *)
LoseEdit(m) ==
    /\ edits[m].at \in {"sent", "found", "ok"}
    /\ astray' = (astray \/ edits[m].at = "ok")
    /\ edits' = [edits EXCEPT ![m] = NoEdit]
    /\ UNCHANGED <<rows, people, panel>>

PeopleMove ==
    /\ \E q \in Moves(people, rows) : people' = q
    /\ UNCHANGED <<rows, panel, edits, astray>>

NextPeople ==
    \/ OpenPeople \/ LeavePeople \/ NewApplicant \/ CloseCreate \/ ClosePanel \/ PeopleMove
    \/ \E p \in People : SelectPerson(p)
    \/ \E mode \in {"view", "edit", "delete"} : SetMode(mode)
    \/ \E m \in Edits :
          \/ HandleSubmit(m) \/ HandleUpdate(m) \/ HandleDelete(m)
          \/ CreateApplicant(m) \/ FindApplicant(m) \/ UpdateApplicant(m)
          \/ DeleteApplicant(m) \/ EditAnswered(m) \/ LoseEdit(m)

-----------------------------------------------------------------------------
PanelType == [open : BOOLEAN, create : BOOLEAN, selected : People \cup {Nil},
              mode : {"view", "edit", "delete"}]
EditType == [at : {"idle", "sent", "found", "ok", "refused"}, kind : {"create", "update", "remove"},
             id : People \cup {Nil}, email : Emails \cup {Nil}, mounted : BOOLEAN]

PeopleTypeOK ==
    /\ rows \in Rows /\ people \in QueryType(Rows)
    /\ panel \in PanelType /\ edits \in [Edits -> EditType] /\ astray \in BOOLEAN

(* Once this tab's writes are answered, the list it shows as current is the  *)
(* table: no answer that was read before a write is taken for the state      *)
(* after it, in whatever order creations, edits, deletions and fetches end,  *)
(* and whether or not the page is left meanwhile.  (Unless the fetch goes on *)
(* when the write is answered: the page is not on screen, or the list has    *)
(* never been shown.)                                                        *)
FreshListIsStored ==
    ~astray /\ IsCurrent(people) /\ (\A m \in Edits : ~Editing(m)) => people.data = rows
=============================================================================

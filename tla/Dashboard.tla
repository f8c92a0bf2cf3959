------------------------------ MODULE Dashboard ------------------------------
(***************************************************************************)
(* A tab of the dashboard: signing in and out, or at work in one of four   *)
(* areas.  The areas share neither a query key nor a row that more than    *)
(* one of them writes, so a person who goes from one to another does       *)
(* nothing that the person who stays does not: they are checked side by    *)
(* side, the areas with a session that lasts, the portal with queries that *)
(* stand for all of theirs.                                                *)
(***************************************************************************)
EXTENDS Portal, ReviewDesk, ApplicantsPage, AccountSettings, PolicySettings

VARIABLE area

vars == <<area, portalVars, deskVars, peopleVars, accountVars, policyVars>>

Areas == {"portal", "review", "applicants", "account", "policy"}

(* The portal starts in several states; the other areas look at one of them. *)
Init ==
    /\ area \in Areas
    /\ InitPortal /\ (area # "portal" => user = NoUser)
    /\ InitDesk /\ InitPeople /\ InitAccount /\ InitPolicy

Next ==
    /\ UNCHANGED area
    /\ \/ /\ area = "portal" /\ NextPortal
          /\ UNCHANGED <<deskVars, peopleVars, accountVars, policyVars>>
       \/ /\ area = "review" /\ NextDesk
          /\ UNCHANGED <<portalVars, peopleVars, accountVars, policyVars>>
       \/ /\ area = "applicants" /\ NextPeople
          /\ UNCHANGED <<portalVars, deskVars, accountVars, policyVars>>
       \/ /\ area = "account" /\ NextAccount
          /\ UNCHANGED <<portalVars, deskVars, peopleVars, policyVars>>
       \/ /\ area = "policy" /\ NextPolicy
          /\ UNCHANGED <<portalVars, deskVars, peopleVars, accountVars>>

Spec == Init /\ [][Next]_vars

(* Types. *)
TypeOK == PortalTypeOK /\ DeskTypeOK /\ PeopleTypeOK /\ AccountTypeOK /\ PolicyTypeOK
=============================================================================

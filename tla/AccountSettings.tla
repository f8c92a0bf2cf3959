--------------------------- MODULE AccountSettings ---------------------------
(***************************************************************************)
(* One tab on the settings page: the API credentials, the webhook URL and  *)
(* the Mono key, with the handlers of the users controller behind them.    *)
(***************************************************************************)
EXTENDS Naturals, QueryCache

CONSTANTS Urls,
          Saves,        \* mutations that may be in flight together
          MaxKeys       \* API keys generated, the one of the verification included

VARIABLES
    row,        \* the user's row: the API key (a number), the webhook URL, a Mono key
    profile,    \* the query ['profile']
    account,    \* the page: open, creds
    storage,    \* mp_credentials in localStorage
    saves,      \* mutations in flight
    strayed     \* the answer to a mutation did not find the page that sent it

accountVars == <<row, profile, account, storage, saves, strayed>>

(* findById: what GET auth/me tells of the row. *)
Profiles == [hasApiKey : BOOLEAN, url : Urls \cup {Nil}, hasMonoApiKey : BOOLEAN]
FindById == [hasApiKey |-> row.key > 0, url |-> row.url, hasMonoApiKey |-> row.mono]

ClosedAccount == [open |-> FALSE, creds |-> 0]
NoSave == [at |-> "idle", kind |-> "rotate", value |-> Nil, mounted |-> FALSE]

InitAccount ==
    /\ row = [key |-> 1, url |-> Nil, mono |-> FALSE]
    /\ storage = 0 /\ profile = NoQuery /\ account = ClosedAccount
    /\ saves = [m \in Saves |-> NoSave] /\ strayed = FALSE

Saving(m) == saves[m].at # "idle"

-----------------------------------------------------------------------------
OpenAccount ==
    /\ ~account.open
    /\ account' = [open |-> TRUE, creds |-> storage]
    /\ profile' = Observed(profile)
    /\ UNCHANGED <<row, storage, saves, strayed>>

LeaveAccount ==
    /\ account.open /\ account' = ClosedAccount
    /\ saves' = [m \in Saves |-> [saves[m] EXCEPT !.mounted = FALSE]]
    /\ strayed' = (strayed \/ \E m \in Saves : Saving(m))
    /\ UNCHANGED <<row, profile, storage>>

(* One mutation of each section is pending at a time. *)
Put(m, kind, value) ==
    /\ account.open /\ ~Saving(m)
    /\ \A n \in Saves : ~(Saving(n) /\ saves[n].mounted /\ saves[n].kind = kind)
    /\ saves' = [saves EXCEPT ![m] = [at |-> "sent", kind |-> kind, value |-> value, mounted |-> TRUE]]
    /\ UNCHANGED <<row, profile, account, storage, strayed>>

HandleRotate(m) == row.key < MaxKeys /\ Put(m, "rotate", Nil)
HandleSaveUrl(m) == \E u \in Urls : Put(m, "url", u)
HandleSaveMono(m) == Put(m, "mono", Nil)

-----------------------------------------------------------------------------
(* The gateway: one update of the row each. *)
RotateApiKey(m) ==
    /\ saves[m].at = "sent" /\ saves[m].kind = "rotate"
    /\ row' = [row EXCEPT !.key = @ + 1]
    /\ saves' = [saves EXCEPT ![m].at = "ok", ![m].value = row'.key]
    /\ UNCHANGED <<profile, account, storage, strayed>>

UpdateWebhookUrl(m) ==
    /\ saves[m].at = "sent" /\ saves[m].kind = "url"
    /\ row' = [row EXCEPT !.url = saves[m].value]
    /\ saves' = [saves EXCEPT ![m].at = "ok"]
    /\ UNCHANGED <<profile, account, storage, strayed>>

UpdateMonoApiKey(m) ==
    /\ saves[m].at = "sent" /\ saves[m].kind = "mono"
    /\ row' = [row EXCEPT !.mono = TRUE]
    /\ saves' = [saves EXCEPT ![m].at = "ok"]
    /\ UNCHANGED <<profile, account, storage, strayed>>

(* Mutant: the new key is stored and the page is not told. *)
StoreKey(m) ==
    /\ storage' = IF saves[m].kind = "rotate" /\ saves[m].mounted THEN saves[m].value ELSE storage
    /\ UNCHANGED account

(* handleRotate's onSuccess belongs to the component: a new key that arrives *)
(* after it is gone is not kept.                                             *)
ShowKey(m) ==
    IF saves[m].kind = "rotate" /\ saves[m].mounted
    THEN account' = [account EXCEPT !.creds = saves[m].value] /\ storage' = saves[m].value
    ELSE UNCHANGED <<account, storage>>

(* Mutant: a fetch in flight is good enough (cancelRefetch: false). *)
JoinFetch ==
    profile' = IF profile.fetch = "none" THEN Invalidated(profile, account.open)
               ELSE Marked(profile, account.open)

InvalidateProfile == profile' = Invalidated(profile, account.open)

SaveAnswered(m) ==
    /\ saves[m].at = "ok"
    /\ saves' = [saves EXCEPT ![m] = NoSave]
    /\ InvalidateProfile /\ ShowKey(m)
    /\ UNCHANGED <<row, strayed>>

(* The request or its answer is lost, or the gateway fails: the page is told *)
(* of an error, whatever was written.                                        *)
LoseSave(m) ==
    /\ saves[m].at \in {"sent", "ok"}
    /\ strayed' = (strayed \/ saves[m].at = "ok")
    /\ saves' = [saves EXCEPT ![m] = NoSave]
    /\ UNCHANGED <<row, profile, account, storage>>

ProfileMoves ==
    /\ \E q \in Moves(profile, FindById) : profile' = q
    /\ UNCHANGED <<row, account, storage, saves, strayed>>

NextAccount ==
    \/ OpenAccount \/ LeaveAccount \/ ProfileMoves
    \/ \E m \in Saves :
          \/ HandleRotate(m) \/ HandleSaveUrl(m) \/ HandleSaveMono(m)
          \/ RotateApiKey(m) \/ UpdateWebhookUrl(m) \/ UpdateMonoApiKey(m)
          \/ SaveAnswered(m) \/ LoseSave(m)

-----------------------------------------------------------------------------
SaveType == [at : {"idle", "sent", "ok"}, kind : {"rotate", "url", "mono"},
             value : Urls \cup Nat \cup {Nil}, mounted : BOOLEAN]

AccountTypeOK ==
    /\ row \in [key : Nat \ {0}, url : Urls \cup {Nil}, mono : BOOLEAN]
    /\ profile \in QueryType(Profiles) /\ storage \in Nat
    /\ account \in [open : BOOLEAN, creds : Nat]
    /\ saves \in [Saves -> SaveType] /\ strayed \in BOOLEAN

(* The key the page shows, after a rotation or on a later visit, is the one  *)
(* the gateway accepts.  (Unless the page was left while it rotated, or the  *)
(* answer was lost: then the key it goes on showing is dead.)                *)
KeyShownIsTheKey ==
    ~strayed /\ account.open /\ account.creds # 0
      /\ (\A m \in Saves : Saving(m) => saves[m].kind # "rotate") => account.creds = row.key

(* A profile shown as current is the stored one, once this tab's writes are  *)
(* answered: a profile read between two of them does not pass for fresh.     *)
(* (Unless a write was answered while the profile was first being loaded.)   *)
FreshProfileIsStored ==
    ~strayed /\ (\A m \in Saves : ~Saving(m)) /\ IsCurrent(profile) => profile.data = FindById
=============================================================================

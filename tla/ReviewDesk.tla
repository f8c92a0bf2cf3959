----------------------------- MODULE ReviewDesk -----------------------------
(***************************************************************************)
(* One tab on the manual review page: the queue, the search, the workspace *)
(* of the chosen application, the reviewer's decisions and flags, and the  *)
(* gateway's two handlers behind them.                                     *)
(***************************************************************************)
EXTENDS Naturals, QueryCache

CONSTANTS Apps,
          Clicks   \* decisions and flags that may be in flight together

VARIABLES
    status,    \* the applications' rows
    verdicts,  \* manual decisions since the row last entered MANUAL_REVIEW (up to 2)
    lists,     \* ['applications', 'MANUAL_REVIEW', ''] and ['applications', 'all', search]
    details,   \* ['application', id]: the status it shows, and whether it is stale
    desk,      \* the page: open, debouncedSearch, selectedId
    clicks,    \* mutations in flight
    blind      \* a workspace was gone before its click was answered, or an answer was lost

deskVars == <<status, verdicts, lists, details, desk, clicks, blind>>

Statuses == {"PROCESSING", "MANUAL_REVIEW", "COMPLETED"}
ListKeys == {"queue", "found"}
NoClick == [at |-> "idle", kind |-> "decide", app |-> Nil, waits |-> FALSE, mounted |-> FALSE]
NoDetail == [data |-> Nil, stale |-> TRUE]

InitDesk ==
    /\ status = [a \in Apps |-> "PROCESSING"]
    /\ verdicts = [a \in Apps |-> 0]
    /\ lists = [l \in ListKeys |-> NoQuery]
    /\ details = [a \in Apps |-> NoDetail]
    /\ desk = [open |-> FALSE, search |-> FALSE, selected |-> Nil]
    /\ clicks = [m \in Clicks |-> NoClick]
    /\ blind = FALSE

-----------------------------------------------------------------------------
(* The page. *)
ListShown == IF desk.search THEN "found" ELSE "queue"
OnScreen(l) == desk.open /\ l = ListShown

Listed(l) ==
    IF lists[l].data = Nil THEN {}
    ELSE IF l = "queue" THEN {a \in Apps : lists[l].data[a] = "MANUAL_REVIEW"} ELSE Apps

(* effectiveId: the selected application, else the first of the list, which *)
(* may be any of them.                                                      *)
Effective ==
    IF ~desk.open THEN {}
    ELSE IF desk.selected # Nil THEN {desk.selected} ELSE Listed(ListShown)

Clicked(m) == clicks[m].at # "idle"

(* The workspace goes when there is no application to show, and with it what *)
(* it knows of its clicks in flight; they go on.                             *)
Kept(cs) ==
    IF Effective' # {} THEN cs
    ELSE [m \in Clicks |-> [cs[m] EXCEPT !.waits = FALSE, !.mounted = @ /\ desk'.open]]
Blinded == Effective' = {} /\ \E m \in Clicks : Clicked(m)
Watch == clicks' = Kept(clicks) /\ blind' = (blind \/ Blinded)

OpenDesk ==
    /\ ~desk.open
    /\ desk' = [desk EXCEPT !.open = TRUE]
    /\ lists' = [lists EXCEPT !["queue"] = Observed(@)]
    /\ UNCHANGED <<status, verdicts, details, clicks, blind>>

LeaveDesk ==
    /\ desk.open
    /\ desk' = [open |-> FALSE, search |-> FALSE, selected |-> Nil]
    /\ UNCHANGED <<status, verdicts, lists, details>> /\ Watch

(* The search box, after its 300 ms. *)
Search ==
    /\ desk.open
    /\ desk' = [desk EXCEPT !.search = ~@]
    /\ lists' = [l \in ListKeys |-> IF l # ListShown THEN Observed(lists[l]) ELSE lists[l]]
    /\ UNCHANGED <<status, verdicts, details>> /\ Watch

(* A row of the list is clicked. *)
Select(a) ==
    /\ desk.open /\ a \in Listed(ListShown) /\ desk.selected # a
    /\ desk' = [desk EXCEPT !.selected = a]
    /\ UNCHANGED <<status, verdicts, lists, details, clicks, blind>>

(* useApplication of the workspace: nothing invalidates its key. *)
LoadDetail(a) ==
    /\ desk.open /\ a \in Effective /\ details[a].stale
    /\ details' = [details EXCEPT ![a] = [data |-> status[a], stale |-> FALSE]]
    /\ UNCHANGED <<status, verdicts, lists, desk, clicks, blind>>

AgeDetail(a) ==
    /\ ~details[a].stale
    /\ details' = [details EXCEPT ![a].stale = TRUE]
    /\ UNCHANGED <<status, verdicts, lists, desk, clicks, blind>>

-----------------------------------------------------------------------------
(* isDeciding or isFlagging of the workspace that is on screen: one of each, *)
(* whichever application it shows.                                           *)
Pending(kind) == \E m \in Clicks : clicks[m].waits /\ clicks[m].kind = kind

Click(m, kind, a) ==
    /\ desk.open /\ a \in Effective
    /\ ~Clicked(m) /\ ~Pending(kind)
    /\ clicks' = [clicks EXCEPT ![m] =
           [at |-> "sent", kind |-> kind, app |-> a, waits |-> TRUE, mounted |-> TRUE]]
    /\ UNCHANGED <<status, verdicts, lists, details, desk, blind>>

(* The buttons go by the cached detail, however old it is. *)
HandleDecide(m, a) == details[a].data = "MANUAL_REVIEW" /\ Click(m, "decide", a)
HandleFlag(m, a) == details[a].data \notin {Nil, "MANUAL_REVIEW"} /\ Click(m, "flag", a)

(* Mutant: the row is found whatever its status. *)
FindAnyRow(m) ==
    /\ clicks[m].at = "sent" /\ clicks[m].kind = "decide"
    /\ clicks' = [clicks EXCEPT ![m].at = "found"]
    /\ UNCHANGED <<status, verdicts, lists, details, desk, blind>>

(* manualDecision: a row in MANUAL_REVIEW is found, then updated by its id. *)
FindInReview(m) ==
    /\ clicks[m].at = "sent" /\ clicks[m].kind = "decide"
    /\ clicks' = [clicks EXCEPT ![m].at =
                    IF status[clicks[m].app] = "MANUAL_REVIEW" THEN "found" ELSE "refused"]
    /\ UNCHANGED <<status, verdicts, lists, details, desk, blind>>

ManualDecision(m) ==
    /\ clicks[m].at = "found" /\ clicks[m].kind = "decide"
    /\ status' = [status EXCEPT ![clicks[m].app] = "COMPLETED"]
    /\ verdicts' = [verdicts EXCEPT ![clicks[m].app] = IF @ < 2 THEN @ + 1 ELSE @]
    /\ clicks' = [clicks EXCEPT ![m].at = "ok"]
    /\ UNCHANGED <<lists, details, desk, blind>>

(* flagForManualReview: any row of the fintech, whatever its status. *)
FlagForManualReview(m) ==
    /\ clicks[m].at = "sent" /\ clicks[m].kind = "flag"
    /\ status' = [status EXCEPT ![clicks[m].app] = "MANUAL_REVIEW"]
    /\ verdicts' = [verdicts EXCEPT ![clicks[m].app] = 0]
    /\ clicks' = [clicks EXCEPT ![m].at = "ok"]
    /\ UNCHANGED <<lists, details, desk, blind>>

(* Mutant: no list is invalidated. *)
ClickOnlyDeselects(m) ==
    /\ clicks[m].at \in {"ok", "refused"}
    /\ desk' = IF clicks[m].at = "ok" /\ clicks[m].mounted
               THEN [desk EXCEPT !.selected = Nil] ELSE desk
    /\ clicks' = [clicks EXCEPT ![m] = NoClick]
    /\ UNCHANGED <<status, verdicts, lists, details, blind>>

(* useManualDecision and useFlagForReview, onSuccess: every list is         *)
(* invalidated, no detail is; onDecision clears the selection.              *)
ClickAnswered(m) ==
    LET ok == clicks[m].at = "ok"
        others == \E n \in Clicks \ {m} : Clicked(n)
    IN  /\ clicks[m].at \in {"ok", "refused"}
        /\ lists' = IF ok THEN [l \in ListKeys |-> Invalidated(lists[l], OnScreen(l))] ELSE lists
        /\ desk' = IF ok /\ clicks[m].mounted THEN [desk EXCEPT !.selected = Nil] ELSE desk
        /\ clicks' = Kept([clicks EXCEPT ![m] = NoClick])
        /\ blind' = (blind \/ (Effective' = {} /\ others))
        /\ UNCHANGED <<status, verdicts, details>>

(* The request or its answer is lost, or the gateway fails. *)
LoseClick(m) ==
    /\ clicks[m].at \in {"sent", "found", "ok"}
    /\ blind' = (blind \/ clicks[m].at = "ok")
    /\ clicks' = [clicks EXCEPT ![m] = NoClick]
    /\ UNCHANGED <<status, verdicts, lists, details, desk>>

-----------------------------------------------------------------------------
(* findAll for a list, the arrival of its answer, and time. *)
ListMoves(l) ==
    /\ \E q \in Moves(lists[l], status) : lists' = [lists EXCEPT ![l] = q]
    /\ UNCHANGED <<status, verdicts, details, desk>> /\ Watch

(* The pipeline decides an application elsewhere. *)
AnalysisEnds(a) ==
    /\ status[a] = "PROCESSING"
    /\ \E s \in {"MANUAL_REVIEW", "COMPLETED"} : status' = [status EXCEPT ![a] = s]
    /\ UNCHANGED <<verdicts, lists, details, desk, clicks, blind>>

NextDesk ==
    \/ OpenDesk \/ LeaveDesk \/ Search
    \/ \E a \in Apps : Select(a) \/ LoadDetail(a) \/ AgeDetail(a) \/ AnalysisEnds(a)
    \/ \E m \in Clicks :
          \/ \E a \in Apps : HandleDecide(m, a) \/ HandleFlag(m, a)
          \/ FindInReview(m) \/ ManualDecision(m) \/ FlagForManualReview(m)
          \/ ClickAnswered(m) \/ LoseClick(m)
    \/ \E l \in ListKeys : ListMoves(l)

-----------------------------------------------------------------------------
DetailType == [data : Statuses \cup {Nil}, stale : BOOLEAN]
DeskType == [open : BOOLEAN, search : BOOLEAN, selected : Apps \cup {Nil}]
ClickType == [at : {"idle", "sent", "found", "ok", "refused"}, kind : {"decide", "flag"},
              app : Apps \cup {Nil}, waits : BOOLEAN, mounted : BOOLEAN]

DeskTypeOK ==
    /\ status \in [Apps -> Statuses] /\ verdicts \in [Apps -> 0 .. 2]
    /\ lists \in [ListKeys -> QueryType([Apps -> Statuses])]
    /\ details \in [Apps -> DetailType] /\ desk \in DeskType
    /\ clicks \in [Clicks -> ClickType] /\ blind \in BOOLEAN

(* An application is decided once per review, although the workspace keeps   *)
(* offering the buttons from a detail that no decision invalidates: the      *)
(* buttons wait for the decision in flight and the gateway refuses a row that *)
(* has left MANUAL_REVIEW.  (A workspace that was gone for a moment, for the  *)
(* page was left or a search had no list yet, offers its buttons again while *)
(* a decision is in flight, and the gateway's check and update are two steps.) *)
OneVerdictPerReview == ~blind => \A a \in Apps : verdicts[a] < 2

(* Once its decisions are answered, a tab does not show as current a queue   *)
(* with an application it has decided: a list fetched before the decision    *)
(* may arrive after it, and is dropped.  (Unless the fetch goes on: for a    *)
(* list that is off screen, or that has never been shown.)                   *)
DecidedLeavesQueue ==
    ~blind /\ IsCurrent(lists["queue"]) /\ (\A m \in Clicks : ~Clicked(m))
        => \A a \in Apps : verdicts[a] > 0 => a \notin Listed("queue")
=============================================================================

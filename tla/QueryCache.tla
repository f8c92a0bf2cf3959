----------------------------- MODULE QueryCache -----------------------------
(***************************************************************************)
(* The dashboard's query cache (TanStack Query, as the hooks of            *)
(* lib/hooks/queries use it): one record per query key.  A fetch is in     *)
(* flight in two halves, the gateway's read and the arrival of the answer. *)
(***************************************************************************)
CONSTANT Nil

FetchStates == {"none", "sent", "answered"}

QueryType(D) == [data : D \cup {Nil}, stale : BOOLEAN, fetch : FetchStates, answer : D \cup {Nil},
                 overtaken : BOOLEAN]

(* `overtaken' remembers that what the query holds, or is about to hold, was *)
(* read before an invalidation that let its fetch go on: no step reads it.   *)
NoQuery == [data |-> Nil, stale |-> TRUE, fetch |-> "none", answer |-> Nil, overtaken |-> FALSE]

(* A fetch replaces the one in flight, whose answer is dropped; except that *)
(* the key's first load, while there is no data, is never cancelled.        *)
Refetch(q) ==
    IF q.data = Nil /\ q.fetch # "none" THEN q
    ELSE [q EXCEPT !.fetch = "sent", !.answer = Nil, !.overtaken = FALSE]

(* A component that uses the key appears: missing or stale data is fetched. *)
Observed(q) == IF q.fetch = "none" /\ q.stale THEN Refetch(q) ELSE q

(* invalidateQueries: data goes stale, and a key on screen is fetched anew. *)
(* A first load goes on, and so does a fetch for a key that is off screen.  *)
Marked(q, onScreen) ==
    [q EXCEPT !.stale = TRUE,
              !.overtaken = q.fetch = "answered" /\ (q.data = Nil \/ ~onScreen)]
Invalidated(q, onScreen) ==
    IF onScreen THEN Refetch(Marked(q, TRUE)) ELSE Marked(q, FALSE)

(* What may become of it next: the gateway reads `row'; the answer arrives   *)
(* and counts as fresh; the fetch and its retry fail and the old data stays; *)
(* staleTime goes by.                                                        *)
Answered(q, row) == [q EXCEPT !.fetch = "answered", !.answer = row]
Arrival(q) == [q EXCEPT !.data = q.answer, !.stale = FALSE, !.fetch = "none", !.answer = Nil]
Failed(q) == [q EXCEPT !.fetch = "none", !.answer = Nil, !.overtaken = FALSE]
Aged(q) == [q EXCEPT !.stale = TRUE, !.overtaken = FALSE]
Moves(q, row) ==
    {q1 \in {Answered(q, row)} : q.fetch = "sent"}
        \cup {q1 \in {Arrival(q)} : q.fetch = "answered"}
        \cup {q1 \in {Failed(q)} : q.fetch # "none"}
        \cup {q1 \in {Aged(q)} : ~q.stale}

(* What the page shows as the current state of the gateway. *)
IsFresh(q) == ~q.stale /\ q.fetch = "none"

(* And no write has overtaken the fetch that brought it. *)
IsCurrent(q) == IsFresh(q) /\ ~q.overtaken
=============================================================================

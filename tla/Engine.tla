------------------------------- MODULE Engine -------------------------------
(***************************************************************************)
(* The brain's pipeline over one request of POST /analyze: knock-out,      *)
(* features, score, decision.  The brain keeps nothing between requests.   *)
(***************************************************************************)
EXTENDS Knockout, Features, Decision

CONSTANT Requests  \* what the gateway may send

(* Numbers, dates and optional parts are what the models of the request say, *)
(* and the gateway validates the loan and the policy.  A rate is nothing or  *)
(* enough to show in the fixed-point growth of a debt.                       *)
ASSUME RequestsAssumption ==
    /\ Requests \subseteq RequestType
    /\ \A r \in Requests : r.interest_rate = 0 \/ Precision * r.interest_rate >= 1200

ASSUME CapAssumption == AFFORDABILITY_CAP \in Nat \cup {Nil}
ASSUME TermsAssumption == Nil \notin [amount : Int, tenor : Int, payment : Int]

VARIABLES
    request,   \* what was sent
    stage,     \* the stage that runs next, "done", or "raised" for a 500
    features,  \* what the extractor produced
    score,     \* what the scorer gave
    response   \* what is answered

vars == <<request, stage, features, score, response>>

Outcomes == {"APPROVED", "COUNTER_OFFER", "MANUAL_REVIEW", "REJECTED"}

TypeOK ==
    /\ request \in Requests
    /\ stage \in {"knockout", "extract", "score", "decide", "done", "raised"}
    /\ stage \in {"score", "decide"} => features.monthly_avg_credits \in Int
    /\ score \in {0} \cup 350..850
    /\ stage = "done" =>
          /\ response.decision \in Outcomes
          /\ response.score \in 350..850
          /\ response.band = ScoreBand(response.score)
          /\ DOMAIN response.eligible \subseteq STANDARD_TENORS

Init ==
    /\ request \in Requests
    /\ stage = "knockout"
    /\ features = Nil
    /\ score = 0
    /\ response = Nil

-----------------------------------------------------------------------------
KnockoutResponse ==
    [decision |-> "REJECTED", approval |-> Nil, counter |-> Nil, score |-> BASELINE_SCORE,
     band |-> "VERY_HIGH_RISK", reasons |-> {}, eligible |-> <<>>]

RunKnockout ==
    /\ stage = "knockout"
    /\ IF KnockoutReason(request) = "none"
       THEN stage' = "extract" /\ UNCHANGED response
       ELSE stage' = "done" /\ response' = KnockoutResponse
    /\ UNCHANGED <<request, features, score>>

RunExtract ==
    /\ stage = "extract"
    /\ features' = Extract(request)
    /\ stage' = "score"
    /\ UNCHANGED <<request, score, response>>

ScoreOf(r, f) == Calculate(f, r.loan_amount, r.tenor_months, r.interest_rate)

RunScore ==
    /\ stage = "score"
    /\ score' = ScoreOf(request, features)
    /\ stage' = "decide"
    /\ UNCHANGED <<request, features, response>>

(* A name that nothing binds raises, and the handler answers 500. *)
RunDecide ==
    /\ stage = "decide"
    /\ IF AFFORDABILITY_CAP = Nil
       THEN stage' = "raised" /\ UNCHANGED response
       ELSE stage' = "done" /\ response' = Decide(request, features, score)
    /\ UNCHANGED <<request, features, score>>

Next == RunKnockout \/ RunExtract \/ RunScore \/ RunDecide

Spec == Init /\ [][Next]_vars

-----------------------------------------------------------------------------
(* Properties *)

(* The whole pipeline as a function, to compare the answers to two requests. *)
Answer(r) ==
    IF KnockoutReason(r) # "none" THEN KnockoutResponse
    ELSE Decide(r, Extract(r), ScoreOf(r, Extract(r)))

Decided == stage = "done" /\ features # Nil

(* Whatever is offered costs no more a month than the cap on the income,     *)
(* asks nothing the applicant did not, and does not exceed what the same     *)
(* answer says the applicant is eligible for at that tenor.                  *)
OfferIsAffordable ==
    Decided => \A offer \in {response.approval, response.counter} \ {Nil} :
        /\ offer.payment <= MaxMonthlyPayment(features)
        /\ offer.amount <= request.loan_amount
        /\ offer.tenor <= request.tenor_months
        /\ offer.tenor \in DOMAIN response.eligible =>
              offer.amount <= response.eligible[offer.tenor]

(* APPROVED without a human means the terms asked for, a score clear of      *)
(* every floor of the policy (which are not ordered: each is validated on    *)
(* its own) and nothing that calls for a review.                             *)
ApprovedIsUncontested ==
    Decided /\ response.decision = "APPROVED" =>
        /\ response.approval # Nil /\ response.reasons = {}
        /\ response.approval.amount = request.loan_amount
        /\ response.approval.tenor = request.tenor_months
        /\ \A floor \in Floors(Policy(request)) :
              score > floor + Policy(request).manual_review_buffer

(* A rejected applicant who asks for twice as much is rejected again: the    *)
(* score, the thin-file cap and the smallest viable offer all follow the     *)
(* amount the same way.                                                      *)
AskingMoreNeverRescues ==
    Decided /\ response.decision = "REJECTED" =>
        Answer([request EXCEPT !.loan_amount = 2 * @]).decision = "REJECTED"

(* The request with the marks of one transaction removed. *)
Unmarked(txn) ==
    [txn EXCEPT !.balance = Most(@, 1), !.words = @ \ {"bounced", "failed debit"}]

Cleaned(r, i, k) == [r EXCEPT !.accounts[i].transactions[k] = Unmarked(@)]

(* An overdraft or a bounced payment the less never lowers the score.        *)
CleanerAccountScoresNoLess ==
    Decided => \A i \in DOMAIN request.accounts :
        \A k \in DOMAIN request.accounts[i].transactions :
            LET r == Cleaned(request, i, k)
            IN  r # request => ScoreOf(r, Extract(r)) >= score

(* Linking another account clears no knock-out: an application that one of   *)
(* its accounts alone would knock out is knocked out.                        *)
LinkingMoreNeverClears ==
    (\E i \in DOMAIN request.accounts :
        KnockoutReason([request EXCEPT !.accounts = <<request.accounts[i]>>]) # "none")
    => KnockoutReason(request) # "none"

(* brain/README: the brain receives an application and returns a decision.   *)
(* Violated: decide() reads a name its module never defines.                 *)
EveryRequestIsDecided == stage # "raised"
=============================================================================

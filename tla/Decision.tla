------------------------------ MODULE Decision ------------------------------
(***************************************************************************)
(* Stages 4 and 5 of the brain: the score gate, the caps of a thin file,   *)
(* the affordability check and the triggers of a manual review.  Risk      *)
(* factors, conditions and explanations are wording and are left out.      *)
(***************************************************************************)
EXTENDS Scoring

CONSTANT AFFORDABILITY_CAP  \* what the name stands for: a percentage, or Nil

STANDARD_TENORS == {3, 6, 9, 12, 15, 18, 21, 24}

MaxMonthlyPayment(f) == (SafeIncome(f) * AFFORDABILITY_CAP) \div 100

InManualBand(score, policy) ==
    score >= policy.score_reject_floor /\ score < policy.score_manual_floor

Gate(f, score, policy) ==
    IF score < policy.score_reject_floor \/ SafeIncome(f) <= 0 THEN "REJECTED"
    ELSE IF InManualBand(score, policy) THEN "MANUAL_REVIEW"
    ELSE IF score < policy.score_approve_floor THEN "COUNTER_OFFER" ELSE "APPROVED"

(* The amount and tenor that are assessed: a thin file caps both. *)
EffectiveTerms(request, f, policy) ==
    [amount |-> IF f.is_thin_file
                THEN Least(request.loan_amount,
                           SafeIncome(f) * policy.thin_file_income_multiple)
                ELSE request.loan_amount,
     tenor  |-> IF f.is_thin_file
                THEN Least(request.tenor_months, policy.thin_file_max_tenor)
                ELSE request.tenor_months]

(* What the affordability check makes of the gate's decision: a decision and *)
(* the terms of an approval or of a counter-offer, if any.                   *)
Afford(request, f, gate, policy) ==
    LET terms   == EffectiveTerms(request, f, policy)
        capped  == terms.amount < request.loan_amount \/ terms.tenor < request.tenor_months
        rate    == request.interest_rate
        limit   == MaxMonthlyPayment(f)
        payment == Amortize(terms.amount, terms.tenor, rate)
        largest == MaxAffordableAmount(limit, terms.tenor, rate)
        Outcome(decision, approval, counter) ==
            [decision |-> decision, approval |-> approval, counter |-> counter]
        Terms(amount) == [amount |-> amount, tenor |-> terms.tenor,
                          payment |-> Amortize(amount, terms.tenor, rate)]
    IN  IF gate = "REJECTED" THEN Outcome("REJECTED", Nil, Nil)
        ELSE IF payment > limit THEN
            IF 100 * largest < request.loan_amount * policy.min_viable_offer_ratio
            THEN Outcome("REJECTED", Nil, Nil)
            ELSE Outcome("COUNTER_OFFER", Nil, Terms(largest))
        ELSE IF gate = "MANUAL_REVIEW" THEN Outcome(gate, Nil, Nil)
        ELSE Outcome(IF capped THEN "COUNTER_OFFER" ELSE gate, Terms(terms.amount), Nil)

Floors(policy) ==
    {policy.score_reject_floor, policy.score_manual_floor, policy.score_approve_floor}

(* Mutant: only a score that just misses a floor is borderline. *)
BorderlineBelow(score, policy) ==
    \E floor \in Floors(policy) : floor - score \in 0..policy.manual_review_buffer

Borderline(score, policy) ==
    \E floor \in Floors(policy) :
        score - floor \in -policy.manual_review_buffer..policy.manual_review_buffer

(* Stage 5: a rejection keeps the reason the gate gave and gets no other. *)
ManualReviewReasons(request, decision, score, policy) ==
    LET Fires(condition, reason) == IF condition THEN {reason} ELSE {}
    IN  Fires(InManualBand(score, policy), "band") \cup
        IF decision = "REJECTED" THEN {}
        ELSE Fires(Borderline(score, policy), "borderline")
             \cup Fires(request.loan_amount > policy.high_value_threshold, "high_value")
             \cup Fires(Cardinality(AllPlaces(request.accounts)) < 20, "few_transactions")

EligibleTenors(f, rate, policy) ==
    LET longest == IF f.is_thin_file THEN policy.thin_file_max_tenor ELSE 24
        Largest(tenor) == MaxAffordableAmount(MaxMonthlyPayment(f), tenor, rate)
    IN  [tenor \in {t \in STANDARD_TENORS : t <= longest /\ Largest(t) > 0} |->
            Largest(tenor)]

-----------------------------------------------------------------------------
Decide(request, f, score) ==
    LET policy   == Policy(request)
        afforded == Afford(request, f, Gate(f, score, policy), policy)
        reasons  == ManualReviewReasons(request, afforded.decision, score, policy)
    IN  [decision |-> IF afforded.decision = "APPROVED" /\ reasons # {}
                      THEN "MANUAL_REVIEW" ELSE afforded.decision,
         approval |-> afforded.approval,
         counter  |-> afforded.counter,
         score    |-> score,
         band     |-> ScoreBand(score),
         reasons  |-> reasons,
         eligible |-> EligibleTenors(f, request.interest_rate, policy)]
=============================================================================

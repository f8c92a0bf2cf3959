------------------------------- MODULE Scoring -------------------------------
(***************************************************************************)
(* Stage 3 of the brain: a score of 350 to 850 from five weighted          *)
(* components, and the arithmetic of an amortised loan.  The raw score of  *)
(* a component is in hundredths of a point, 0 to 10000.                    *)
(***************************************************************************)
EXTENDS LoanRequest

CONSTANT Precision  \* bound: fixed-point units of 1.0 in the growth of a debt

ASSUME PrecisionAssumption == Precision \in Nat \ {0}

BASELINE_SCORE == 350

NORMAL_WEIGHTS ==
    [credit_history |-> 30, income_stability |-> 25, cash_flow_health |-> 20,
     debt_service_capacity |-> 15, account_behavior |-> 10]

THIN_FILE_WEIGHTS ==
    [credit_history |-> 0, income_stability |-> 35, cash_flow_health |-> 30,
     debt_service_capacity |-> 20, account_behavior |-> 15]

SCORE_BANDS ==
    <<[low |-> 800, high |-> 850, band |-> "VERY_LOW_RISK"],
      [low |-> 700, high |-> 799, band |-> "LOW_RISK"],
      [low |-> 600, high |-> 699, band |-> "MEDIUM_RISK"],
      [low |-> 500, high |-> 599, band |-> "HIGH_RISK"],
      [low |-> 350, high |-> 499, band |-> "VERY_HIGH_RISK"]>>

ScoreBand(score) ==
    LET match == {i \in DOMAIN SCORE_BANDS :
                     SCORE_BANDS[i].low <= score /\ score <= SCORE_BANDS[i].high}
    IN  IF match = {} THEN "VERY_HIGH_RISK" ELSE SCORE_BANDS[Min(match)].band

-----------------------------------------------------------------------------
(* The points of the first row the value reaches, or stays under, else none. *)
Points(rows, Meets(_), none) ==
    LET met == {i \in DOMAIN rows : Meets(rows[i][1])}
    IN  100 * (IF met = {} THEN none ELSE rows[Min(met)][2])

AtLeast(x, rows, none) == Points(rows, LAMBDA bound : x >= bound, none)
AtMost(x, rows, none)  == Points(rows, LAMBDA bound : x <= bound, none)
Below(x, rows, none)   == Points(rows, LAMBDA bound : x < bound, none)

ScoreCreditHistory(f) ==
    LET repayment == IF f.payment_success_rate = Nil THEN 3500
                     ELSE AtLeast(f.payment_success_rate,
                                  <<<<95, 70>>, <<90, 55>>, <<80, 35>>, <<70, 15>>>>, 0)
        age       == AtLeast(f.credit_age_months, <<<<36, 20>>, <<24, 15>>, <<12, 10>>>>, 5)
        closure   == IF f.total_loan_count = 0 THEN 0
                     ELSE AtLeast(Percent(f.closed_loan_count, f.total_loan_count),
                                  <<<<70, 10>>, <<50, 6>>>>, 2)
    IN  IF f.has_credit_history THEN Least(repayment + age + closure, 10000) ELSE 0

ScoreIncomeStability(f) ==
    LET quality   == AtLeast(f.stable_income_ratio,
                             <<<<80, 35>>, <<60, 26>>, <<40, 18>>, <<20, 10>>>>, 5)
        recency   == AtMost(f.income_recency_days,
                            <<<<31, 25>>, <<45, 18>>, <<60, 10>>, <<90, 5>>>>, 0)
        growth    == IF f.income_is_growing THEN 1500 ELSE 8 * f.income_regular_ratio
        diversity == Least(200 * f.income_stream_count, 500)
    IN  IF f.total_monthly_income <= 0 THEN 0
        ELSE Least(quality + recency + 20 * f.avg_income_stability + growth + diversity,
                   10000)

ScoreCashFlowHealth(f) ==
    Least(AtLeast(f.surplus_ratio, <<<<30, 30>>, <<20, 24>>, <<10, 15>>, <<0, 8>>>>, 0)
            + 30 * f.positive_cash_flow_ratio
            + AtMost(f.debit_to_credit_ratio,
                     <<<<70, 20>>, <<90, 16>>, <<100, 10>>, <<120, 5>>>>, 0)
            + AtMost(f.spending_volatility,
                     <<<<2, 20>>, <<4, 14>>, <<6, 8>>, <<8, 3>>>>, 0),
          10000)

-----------------------------------------------------------------------------
(* An amortised loan.  Factor is the present value of a payment of 1 a month *)
(* as a fraction, and both directions round against the borrower.            *)

(* (1 + r)^months, r being the monthly rate. *)
Growth(months, rate) ==
    LET power[n \in 0..months] ==
            IF n = 0 THEN Precision ELSE (power[n - 1] * (1200 + rate)) \div 1200
    IN  power[months]

Factor(months, rate) ==
    IF rate = 0 THEN [worth |-> months, unit |-> 1]
    ELSE [worth |-> 1200 * (Growth(months, rate) - Precision),
          unit  |-> rate * Growth(months, rate)]

Amortize(principal, months, rate) ==
    LET a == Factor(months, rate)
    IN  IF months <= 0 THEN principal ELSE -((-principal * a.unit) \div a.worth)

(* Mutant: one instalment too many is counted on. *)
MaxAffordableAmountOffByOne(max_payment, months, rate) ==
    LET a == Factor(months + 1, rate)
    IN  IF months <= 0 \/ max_payment <= 0 THEN 0
        ELSE (max_payment * a.worth) \div a.unit

MaxAffordableAmount(max_payment, months, rate) ==
    LET a == Factor(months, rate)
    IN  IF months <= 0 \/ max_payment <= 0 THEN 0
        ELSE (max_payment * a.worth) \div a.unit

(* The lower of the stated income and the average monthly credits. *)
SafeIncome(f) ==
    IF f.total_monthly_income > 0
    THEN Least(f.total_monthly_income, f.monthly_avg_credits)
    ELSE f.monthly_avg_credits

(* Mutant: the rows of the ratio with the loan are read as minima. *)
ScoreDebtServiceCapacityReversed(f, amount, tenor, rate) ==
    LET income   == SafeIncome(f)
        existing == f.recurring_debt_monthly
        total    == Amortize(amount, tenor, rate) + existing
    IN  IF income <= 0 THEN 0
        ELSE AtLeast(Percent(total, income), <<<<50, 60>>, <<40, 45>>, <<30, 25>>>>, 0)
             + Below(Percent(existing, income), <<<<20, 40>>, <<30, 28>>, <<40, 15>>>>, 0)

ScoreDebtServiceCapacity(f, amount, tenor, rate) ==
    LET income   == SafeIncome(f)
        existing == f.recurring_debt_monthly
        total    == Amortize(amount, tenor, rate) + existing
    IN  IF income <= 0 THEN 0
        ELSE Below(Percent(total, income), <<<<30, 60>>, <<40, 45>>, <<50, 25>>>>, 0)
             + Below(Percent(existing, income), <<<<20, 40>>, <<30, 28>>, <<40, 15>>>>, 0)

(* Mutant: the penalty has the wrong sign for bounced payments. *)
DisciplineOffset(f) == Most(0, 30 - (3 * f.overdraft_count - 5 * f.bounced_payment_count))

Discipline(f) == Most(0, 30 - (3 * f.overdraft_count + 5 * f.bounced_payment_count))

ScoreAccountBehavior(f) ==
    AtLeast(f.account_age_months, <<<<24, 40>>, <<18, 32>>, <<12, 22>>, <<6, 12>>>>, 5)
        + 100 * Discipline(f)
        + AtMost(f.days_below_1000_ngn, <<<<0, 20>>, <<3, 14>>, <<7, 8>>, <<14, 3>>>>, 0)
        + AtMost(f.high_risk_transaction_count, <<<<0, 10>>, <<3, 5>>>>, 0)

-----------------------------------------------------------------------------
RawScores(f, amount, tenor, rate) ==
    [credit_history        |-> ScoreCreditHistory(f),
     income_stability      |-> ScoreIncomeStability(f),
     cash_flow_health      |-> ScoreCashFlowHealth(f),
     debt_service_capacity |-> ScoreDebtServiceCapacity(f, amount, tenor, rate),
     account_behavior      |-> ScoreAccountBehavior(f)]

(* Mutant: the baseline is not added and the sum is not clamped. *)
CalculateWithoutBaseline(f, amount, tenor, rate) ==
    LET weights == IF f.is_thin_file THEN THIN_FILE_WEIGHTS ELSE NORMAL_WEIGHTS
        raw     == RawScores(f, amount, tenor, rate)
    IN  SumFunction([c \in DOMAIN weights |-> weights[c] * raw[c]]) \div 2000

(* A weight of w percent is worth 5w points. *)
Calculate(f, amount, tenor, rate) ==
    LET weights == IF f.is_thin_file THEN THIN_FILE_WEIGHTS ELSE NORMAL_WEIGHTS
        raw     == RawScores(f, amount, tenor, rate)
        earned  == SumFunction([c \in DOMAIN weights |-> weights[c] * raw[c]]) \div 2000
    IN  Most(BASELINE_SCORE, Least(850, BASELINE_SCORE + earned))
=============================================================================

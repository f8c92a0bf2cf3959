------------------------------ MODULE Features ------------------------------
(***************************************************************************)
(* Stage 2 of the brain: the signals the later stages read, from the data  *)
(* of all accounts.  The features no stage reads (total_existing_debt,     *)
(* open_loan_count, min_balance_maintained and the four of _insights) are  *)
(* left out.  Transactions are picked by their places among all of them.   *)
(***************************************************************************)
EXTENDS LoanRequest

Credits(txns) == {p \in DOMAIN txns : txns[p].type = "credit" /\ txns[p].month # 0}
Debits(txns)  == {p \in DOMAIN txns : txns[p].type = "debit" /\ txns[p].month # 0}

MonthsOf(txns, places) == {txns[p].month : p \in places}
Sum(txns, places)      == SumFunction([p \in places |-> txns[p].amount])
In(txns, places, m)    == Sum(txns, {p \in places : txns[p].month = m})

(* The mean over the months that have one. *)
MonthlyMean(txns, places) ==
    IF places = {} THEN 0 ELSE Sum(txns, places) \div Cardinality(MonthsOf(txns, places))

-----------------------------------------------------------------------------
(* Income *)

(* The account's income with the highest monthly figure, the first of equals. *)
BestIncome(accounts) ==
    LET earning == {i \in DOMAIN accounts :
                       accounts[i].income # Nil /\ accounts[i].income.monthly > 0}
        best    == {i \in earning : \A j \in earning :
                       accounts[i].income.monthly >= accounts[j].income.monthly}
    IN  IF best = {} THEN Nil ELSE accounts[Min(best)].income

IncomeFromWebhook(income) ==
    LET streams == income.streams
        salary  == SumFunction([i \in {j \in DOMAIN streams : streams[j].type = "SALARY"}
                                   |-> streams[i].average])
        stable  == SumFunction([i \in DOMAIN streams |-> streams[i].stability])
        primary == streams[Min({i \in DOMAIN streams : \A j \in DOMAIN streams :
                                   streams[i].average >= streams[j].average})]
    IN  [total_monthly_income |-> income.monthly,
         stable_income_ratio  |-> Percent(salary, income.monthly),
         income_stream_count  |-> Len(streams),
         avg_income_stability |-> stable \div Len(streams),
         income_recency_days  |-> Latest(DaysOf(streams), 999),
         income_is_growing    |-> primary.average > 0 /\ primary.last > primary.average,
         income_regular_ratio |-> Least(Percent(income.regular, income.monthly), 100)]

(* The fallback: a salary is a credit whose narration says so. *)
IncomeFromTransactions(txns) ==
    LET credits  == Credits(txns)
        salaries == {p \in credits : "salary" \in txns[p].words}
        monthly  == MonthlyMean(txns, credits)
        salary   == IF salaries = {} THEN 0 ELSE Sum(txns, salaries) \div Cardinality(salaries)
        ratio    == IF monthly > 0 THEN Percent(salary, monthly) ELSE 0
    IN  [total_monthly_income |-> monthly,
         stable_income_ratio  |-> ratio,
         income_stream_count  |-> IF salaries = {} THEN 0 ELSE 1,
         avg_income_stability |-> IF salaries = {} THEN 0 ELSE 50,
         income_recency_days  |-> IF salaries = {} THEN 999
                                  ELSE 30 * Min(MonthsOf(txns, salaries)),
         income_is_growing    |-> FALSE,
         income_regular_ratio |-> ratio]

IncomeFeatures(accounts, best) ==
    IF best # Nil /\ best.streams # <<>>
    THEN IncomeFromWebhook(best) ELSE IncomeFromTransactions(AllTransactions(accounts))

-----------------------------------------------------------------------------
(* Cash flow *)

(* The standard deviation of the monthly debits over their mean, in tenths   *)
(* rounded up; from 1 on it makes no difference.                             *)
Volatility(txns) ==
    LET debits == Debits(txns)
        months == MonthsOf(txns, debits)
        n      == Cardinality(months)
        total  == Sum(txns, debits)
        spread == n * SumFunction([m \in months |-> In(txns, debits, m) * In(txns, debits, m)])
                    - total * total
    IN  IF n <= 1 \/ total <= 0 THEN 0
        ELSE Min({10} \cup {v \in 0..10 :
                     v * v * (n - 1) * total * total >= 100 * n * spread})

(* The ratio of the first account whose statement insights carry one. *)
StatementRatio(accounts) ==
    LET stating == {i \in DOMAIN accounts :
                       accounts[i].insights # Nil /\ accounts[i].insights.ratio # Nil}
    IN  IF stating = {} THEN Nil ELSE accounts[Min(stating)].insights.ratio

CashFlow(txns, accounts) ==
    LET credits  == Credits(txns)
        debits   == Debits(txns)
        months   == MonthsOf(txns, credits \cup debits)
        inflow   == MonthlyMean(txns, credits)
        outflow  == MonthlyMean(txns, debits)
        positive == {m \in months : In(txns, credits, m) > In(txns, debits, m)}
        stated   == StatementRatio(accounts)
    IN  IF months = {}
        THEN [monthly_avg_credits |-> 0, surplus_ratio |-> 0,
              positive_cash_flow_ratio |-> 0, debit_to_credit_ratio |-> 99900,
              spending_volatility |-> 10]
        ELSE [monthly_avg_credits |-> inflow,
              surplus_ratio |-> IF inflow > 0 THEN Percent(inflow - outflow, inflow) ELSE 0,
              positive_cash_flow_ratio |-> Percent(Cardinality(positive), Cardinality(months)),
              debit_to_credit_ratio |-> IF stated # Nil THEN stated
                                        ELSE IF inflow > 0 THEN PercentUp(outflow, inflow)
                                        ELSE 99900,
              spending_volatility |-> Volatility(txns)]

-----------------------------------------------------------------------------
(* Bureau, debt and behaviour *)

LoansOf(credit_history) == IF credit_history = Nil THEN <<>> ELSE credit_history

CreditHistory(credit_history) ==
    LET loans  == LoansOf(credit_history)
        due    == SumFunction([i \in DOMAIN loans |-> Len(loans[i].schedule)])
        paid   == SumFunction([i \in DOMAIN loans |->
                                  Count(LAMBDA p : p = "paid", loans[i].schedule)])
        opened == {loans[i].opened : i \in DOMAIN loans} \ {Nil}
    IN  [payment_success_rate |-> IF due > 0 THEN Percent(paid, due) ELSE Nil,
         closed_loan_count    |-> Count(LAMBDA l : l.status # "open", loans),
         total_loan_count     |-> Len(loans),
         credit_age_months    |-> IF opened = {} THEN 0 ELSE Max(opened) \div 30,
         has_credit_history   |-> loans # <<>>]

(* What an account's recurring debits that read like a repayment add up to.  *)
RepaidMonthly(account) ==
    LET recurring == account.insights.recurring
    IN  IF account.insights = Nil THEN 0
        ELSE SumFunction([k \in {j \in DOMAIN recurring :
                                    recurring[j].type = "debit" /\ recurring[j].debt}
                             |-> recurring[k].sum])

RecurringDebt(accounts) == SumFunction([i \in DOMAIN accounts |-> RepaidMonthly(accounts[i])])

(* The oldest statement, or the oldest transaction when no statement says. *)
AccountAge(txns, accounts) ==
    LET stating == {i \in DOMAIN accounts :
                       /\ accounts[i].insights # Nil /\ accounts[i].insights.age # Nil
                       /\ accounts[i].insights.age > 0}
        months  == MonthsOf(txns, DOMAIN txns)
    IN  IF stating # {} THEN Max({accounts[i].insights.age : i \in stating}) \div 30
        ELSE IF months = {} \/ 0 \in months THEN 0 ELSE Max(months)

AccountBehaviour(txns, accounts) ==
    [overdraft_count             |-> Count(LAMBDA t : t.balance < 0, txns),
     bounced_payment_count       |->
         Count(LAMBDA t : t.words \cap {"bounced", "failed debit"} # {}, txns),
     high_risk_transaction_count |-> Count(LAMBDA t : "risky" \in t.words, txns),
     days_below_1000_ngn         |-> Count(LAMBDA t : t.balance < 1, txns),
     account_age_months          |-> AccountAge(txns, accounts)]

IsThinFile(credit_history) == Len(LoansOf(credit_history)) < 2

-----------------------------------------------------------------------------
(* One dictionary updated with another. *)
Update(f, g) == [k \in DOMAIN f \cup DOMAIN g |-> IF k \in DOMAIN g THEN g[k] ELSE f[k]]

Extract(request) ==
    LET accounts == request.accounts
        txns     == AllTransactions(accounts)
    IN  Update(Update(Update(Update(IncomeFeatures(accounts, BestIncome(accounts)),
                                    CashFlow(txns, accounts)),
                             CreditHistory(request.credit_history)),
                      AccountBehaviour(txns, accounts)),
               [recurring_debt_monthly |-> RecurringDebt(accounts),
                is_thin_file           |-> IsThinFile(request.credit_history)])
=============================================================================

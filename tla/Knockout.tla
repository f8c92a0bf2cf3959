------------------------------ MODULE Knockout ------------------------------
(***************************************************************************)
(* Stage 1 of the brain: the rules that end an application before any      *)
(* score.  A rule gives the reason it fires with, or "none".               *)
(***************************************************************************)
EXTENDS LoanRequest

When(condition, reason) == IF condition THEN reason ELSE "none"

(* The reason of the first rule that fires. *)
First(reasons) ==
    LET fired == {i \in DOMAIN reasons : reasons[i] # "none"}
    IN  IF fired = {} THEN "none" ELSE reasons[Min(fired)]

-----------------------------------------------------------------------------
IdentityRule(account, name, bvn) ==
    LET id == account.identity
    IN  First(<<When(/\ id # Nil /\ id.name # {} /\ name # {}
                     /\ Cardinality(id.name \cap name) < 2, "IDENTITY_NAME_MISMATCH"),
                When(id # Nil /\ id.bvn # "" /\ bvn # "" /\ id.bvn # bvn,
                     "IDENTITY_BVN_MISMATCH")>>)

CheckIdentity(accounts, name, bvn) ==
    First([i \in DOMAIN accounts |-> IdentityRule(accounts[i], name, bvn)])

FraudRule(account) ==
    When(account.insights # Nil /\ account.insights.patterns # {}, "FRAUD_SIGNAL_DETECTED")

CheckFraudSignals(accounts) == First([i \in DOMAIN accounts |-> FraudRule(accounts[i])])

(* The longest run of missed instalments. *)
LongestRun(schedule) ==
    LET Missed(k) == schedule[k] \in {"failed", "missed"}
        runs == {p \in (DOMAIN schedule) \X (DOMAIN schedule) :
                    p[1] <= p[2] /\ \A k \in p[1]..p[2] : Missed(k)}
    IN  Max({0} \cup {p[2] - p[1] + 1 : p \in runs})

DefaultRule(loan, policy) ==
    First(<<When(loan.performance = "non-performing", "ACTIVE_DEFAULT"),
            When(loan.status = "written-off", "WRITTEN_OFF_LOAN"),
            When(LongestRun(loan.schedule) >= policy.max_consecutive_failures,
                 "CONSECUTIVE_PAYMENT_FAILURES")>>)

CheckActiveDefaults(loans, policy) ==
    IF loans = Nil THEN "none"
    ELSE First([i \in DOMAIN loans |-> DefaultRule(loans[i], policy)])

Overdrawn(txn) == txn.balance < 0
Bounced(txn)   == "bounced" \in txn.words

AgeRule(account, policy) ==
    When(/\ account.insights # Nil /\ account.insights.age # Nil
         /\ account.insights.age < 30 * policy.min_account_age_months, "ACCOUNT_TOO_NEW")

(* Every account is old enough, then the marks of all of them are counted.   *)
CheckAccountHealth(accounts, policy) ==
    LET txns == AllTransactions(accounts)
    IN  First(<<First([i \in DOMAIN accounts |-> AgeRule(accounts[i], policy)]),
                When(Count(Overdrawn, txns) > policy.max_overdrafts,
                     "EXCESSIVE_OVERDRAFTS"),
                When(Count(Bounced, txns) > policy.max_bounced_payments,
                     "EXCESSIVE_BOUNCED_PAYMENTS")>>)

(* Every linked account that says anything must show an income of its own.   *)
IncomeRule(account, policy) ==
    LET income == account.income
    IN  First(<<When(income # Nil /\ income.streams = <<>>, "NO_INCOME_DETECTED"),
                When(/\ income # Nil
                     /\ Latest(DaysOf(income.streams), 0) > policy.income_staleness_days,
                     "INCOME_STALE"),
                When(income # Nil /\ income.monthly < policy.minimum_monthly_income,
                     "INCOME_BELOW_MINIMUM")>>)

CheckIncomeDisqualifiers(accounts, policy) ==
    First([i \in DOMAIN accounts |-> IncomeRule(accounts[i], policy)])

-----------------------------------------------------------------------------
KnockoutReason(request) ==
    LET accounts == request.accounts
        policy   == Policy(request)
    IN  First(<<CheckIdentity(accounts, request.name, request.bvn),
                CheckFraudSignals(accounts),
                CheckActiveDefaults(request.credit_history, policy),
                CheckAccountHealth(accounts, policy),
                CheckIncomeDisqualifiers(accounts, policy)>>)
=============================================================================

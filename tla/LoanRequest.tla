----------------------------- MODULE LoanRequest -----------------------------
(***************************************************************************)
(* What the gateway sends the brain, and the arithmetic its stages share.  *)
(*                                                                         *)
(* Money is whole thousands of naira, a ratio is a whole percentage, a     *)
(* date is its distance from today.  An absent object is Nil, and so is a  *)
(* date or a number that does not parse.  A name is the set of its words;  *)
(* the words of a narration are the classes of keywords it contains.       *)
(***************************************************************************)
EXTENDS Integers, Sequences, FiniteSets, FiniteSetsExt, Functions

CONSTANT Nil  \* what is absent

Maybe(S) == S \cup {Nil}

(* An income: where it comes from, a month of it and the regular part.       *)
StreamType ==
    [type : STRING, average : Int, last : Int, days : Maybe(Int), stability : Int]

IncomeType == [streams : Seq(StreamType), monthly : Int, regular : Int]

(* What the statement says: its age in days, the fraud patterns detected,    *)
(* debits over credits, and what recurs (debt: it reads like a repayment).   *)
InsightsType ==
    [age : Maybe(Int), patterns : SUBSET STRING, ratio : Maybe(Int),
     recurring : Seq([type : STRING, debt : BOOLEAN, sum : Int])]

(* The month counts back from today, and is 0 when the date does not parse.  *)
TransactionType ==
    [type : STRING, amount : Int, month : Nat, balance : Int, words : SUBSET STRING]

AccountType ==
    [identity : Maybe([name : SUBSET STRING, bvn : STRING]), income : Maybe(IncomeType),
     insights : Maybe(InsightsType), transactions : Seq(TransactionType)]

(* A loan of the bureau: how its instalments went is its schedule.           *)
LoanType ==
    [performance : STRING, status : STRING, opened : Maybe(Int), schedule : Seq(STRING)]

(* The policy the brain uses when the request carries none. *)
DefaultPolicy ==
    [score_reject_floor |-> 500, score_manual_floor |-> 600,
     score_approve_floor |-> 700, manual_review_buffer |-> 20,
     high_value_threshold |-> 500, min_viable_offer_ratio |-> 30,
     thin_file_income_multiple |-> 2, thin_file_max_tenor |-> 6,
     minimum_monthly_income |-> 30, income_staleness_days |-> 90,
     min_account_age_months |-> 3, max_overdrafts |-> 10,
     max_bounced_payments |-> 3, max_consecutive_failures |-> 3]

PolicyType == [DOMAIN DefaultPolicy -> Nat]

RequestType ==
    [name : SUBSET STRING, bvn : STRING, loan_amount : Nat, tenor_months : Nat,
     interest_rate : Nat, accounts : Seq(AccountType),
     credit_history : Maybe(Seq(LoanType)), policy : Maybe(PolicyType)]

Policy(request) == IF request.policy = Nil THEN DefaultPolicy ELSE request.policy

-----------------------------------------------------------------------------
Least(a, b) == IF a <= b THEN a ELSE b
Most(a, b)  == IF a >= b THEN a ELSE b

Count(P(_), f) == Cardinality({i \in DOMAIN f : P(f[i])})

(* A ratio in percent, rounded down where the code asks for "at least" and   *)
(* up where it asks for "at most".                                           *)
Percent(part, whole)   == (100 * part) \div whole
PercentUp(part, whole) == -((-100 * part) \div whole)

(* The most recent of the dates that parse, as days before today.            *)
DaysOf(streams) == {streams[i].days : i \in DOMAIN streams}

Latest(days, none) == IF days \ {Nil} = {} THEN none ELSE Min(days \ {Nil})

(* The transactions of all accounts, by account and place in it: what the    *)
(* stages make of them does not depend on their order.                       *)
AllPlaces(accounts) == UNION {{i} \X DOMAIN accounts[i].transactions : i \in DOMAIN accounts}

(* Mutant: the list starts again with every account. *)
LastTransactions(accounts) ==
    [p \in {q \in AllPlaces(accounts) : q[1] = Len(accounts)} |->
        accounts[p[1]].transactions[p[2]]]

AllTransactions(accounts) ==
    [p \in AllPlaces(accounts) |-> accounts[p[1]].transactions[p[2]]]
=============================================================================

------------------------------ MODULE MCEngine ------------------------------
(***************************************************************************)
(* Engine on a family of requests: one account or two of thirteen kinds,   *)
(* eight bureau files, three policies and a few loans.                     *)
(***************************************************************************)
EXTENDS Engine, TLC

(* Three months of credits of 200 and of debits; the k-th debit has the      *)
(* balance and the words of a mark for k up to its count.                    *)
Statement(length, debits, marks, mark) ==
    [k \in 1..length |->
        IF k <= 3
        THEN [type |-> "credit", amount |-> 200, month |-> k,
              balance |-> 250, words |-> {"salary"}]
        ELSE [type |-> "debit", amount |-> debits[1 + (k % 3)], month |-> 1 + (k % 3),
              balance |-> IF k - 3 <= marks THEN mark.balance ELSE 40,
              words   |-> IF k - 3 <= marks THEN mark.words ELSE {}]]

NoMark    == [balance |-> 40, words |-> {}]
Overdraft == [balance |-> -5, words |-> {}]
Bounce    == [balance |-> 0, words |-> {"bounced"}]
Betting   == [balance |-> 40, words |-> {"risky", "failed debit"}]

Salary == [type |-> "SALARY", average |-> 180, last |-> 190, days |-> 20, stability |-> 90]
Gifts  == [type |-> "OTHER", average |-> 20, last |-> 20, days |-> Nil, stability |-> 30]
Income == [streams |-> <<Salary, Gifts>>, monthly |-> 200, regular |-> 180]

Insights ==
    [age |-> 900, patterns |-> {}, ratio |-> Nil,
     recurring |-> <<[type |-> "debit", debt |-> FALSE, sum |-> 30]>>]

Clean ==
    [identity |-> [name |-> {"ada", "obi"}, bvn |-> "b1"],
     income |-> Income, insights |-> Insights,
     transactions |-> Statement(24, <<12, 12, 12>>, 0, NoMark)]

Overdrawn6 == [Clean EXCEPT !.transactions = Statement(24, <<18, 18, 18>>, 6, Overdraft),
                            !.income = [Income EXCEPT !.streams = <<Gifts>>]]
Bouncing   == [Clean EXCEPT !.transactions = Statement(18, <<12, 12, 12>>, 2, Bounce)]
Spender    == [Clean EXCEPT !.transactions = Statement(24, <<40, 10, 20>>, 4, Betting),
                            !.income = Nil, !.identity = Nil]
Debtor     == [Clean EXCEPT !.insights.recurring =
                                <<[type |-> "debit", debt |-> TRUE, sum |-> 70]>>,
                            !.insights.ratio = 95, !.insights.age = 200]
Unused     == [Clean EXCEPT !.transactions = <<>>, !.income = Nil, !.insights = Nil]
Young      == [Clean EXCEPT !.insights.age = 60]
Strange    == [Clean EXCEPT !.identity.name = {"ada", "eze"}]

(* Accounts that one rule alone knocks out. *)
Fraud     == [Clean EXCEPT !.insights.patterns = {"circular"}]
Borrowed  == [Clean EXCEPT !.identity.bvn = "b2"]
Stale     == [Clean EXCEPT !.income.streams = <<[Salary EXCEPT !.days = 200]>>]
Jobless   == [Clean EXCEPT !.income.streams = <<>>]
Poor      == [Clean EXCEPT !.income.monthly = 10]

Refused == {Fraud, Borrowed, Stale, Jobless, Poor}

Kinds == {Clean, Overdrawn6, Bouncing, Spender, Debtor, Unused, Young, Strange}

Loan(performance, status, schedule) ==
    [performance |-> performance, status |-> status, opened |-> 800, schedule |-> schedule]

Paid == <<"paid", "paid", "paid">>

Files ==
    {Nil,
     <<Loan("performing", "closed", Paid)>>,
     <<Loan("performing", "closed", Paid), Loan("performing", "open", Paid)>>,
     <<Loan("performing", "closed", <<>>), Loan("performing", "open", <<>>)>>,
     <<Loan("performing", "closed", <<"paid", "missed", "paid">>),
       Loan("performing", "open", <<"paid", "failed", "missed">>)>>,
     <<Loan("performing", "open", Paid),
       Loan("performing", "open", <<"missed", "missed", "failed">>)>>,
     <<Loan("non-performing", "open", Paid)>>,
     <<Loan("performing", "written-off", Paid)>>}

(* Floors out of order, which the gateway accepts, and a lenient policy.     *)
Policies ==
    {Nil,
     [DefaultPolicy EXCEPT !.score_manual_floor = 750, !.score_approve_floor = 560,
                           !.thin_file_max_tenor = 12],
     [DefaultPolicy EXCEPT !.manual_review_buffer = 0, !.high_value_threshold = 5000,
                           !.thin_file_income_multiple = 5, !.max_bounced_payments = 1,
                           !.score_reject_floor = 720, !.score_manual_floor = 720]}

Pairs == {<<a, b>> : a \in {Clean, Overdrawn6, Bouncing}, b \in Kinds \cup Refused}

MCRequests ==
    [name : {{"ada", "obi", "uche"}}, bvn : {"b1"},
     loan_amount : {150, 400, 700}, tenor_months : {6, 10}, interest_rate : {0, 24},
     accounts : {<<a>> : a \in Kinds \cup Refused} \cup Pairs,
     credit_history : Files, policy : Policies]
=============================================================================

---------------------------- MODULE EngineProofs ----------------------------
(***************************************************************************)
(* The engine, for any requests and any precision: what it offers can be   *)
(* paid, what it approves by itself is beyond dispute, and asking for more *)
(* money, cleaning up an account or linking another one moves its answer   *)
(* only the way it should.                                                 *)
(***************************************************************************)
EXTENDS BrainLemmas

Grows(g, m, rate) ==
    g = [n \in 0..m |-> IF n = 0 THEN Precision ELSE (g[n - 1] * (1200 + rate)) \div 1200]

LEMMA GrowthExists ==
  ASSUME NEW rate
  PROVE  \A m \in Nat : \E g : Grows(g, m, rate)
<1> DEFINE T == {m \in Nat : ~ \E g : Grows(g, m, rate)}
<1>1. SUFFICES ASSUME T # {} PROVE FALSE
  OBVIOUS
<1>2. PICK m \in T : \A k \in T : m <= k
  BY <1>1, Minimum
<1>3. m # 0
  <2>1. Grows([n \in 0..0 |-> Precision], 0, rate)
    BY DEF Grows
  <2> QED
    BY <1>2, <2>1
<1>4. m \in Nat /\ m - 1 \in Nat /\ m - 1 \notin T
  BY <1>2, <1>3
<1>5. PICK h : Grows(h, m - 1, rate)
  BY <1>4
<1> DEFINE Grown(x) == (x * (1200 + rate)) \div 1200
           g == [n \in 0..m |-> IF n = m THEN Grown(h[m - 1]) ELSE h[n]]
<1>6. ASSUME NEW n \in 0..m PROVE g[n] = IF n = 0 THEN Precision ELSE Grown(g[n - 1])
  <2>1. \A k \in 0 .. m - 1 : h[k] = IF k = 0 THEN Precision ELSE Grown(h[k - 1])
    BY <1>5 DEF Grows
  <2> HIDE DEF Grown
  <2>2. CASE n = m
    BY <1>3, <1>4, <2>2
  <2>3. CASE n # m
    BY <1>3, <1>4, <2>1, <2>3
  <2> QED
    BY <2>2, <2>3
<1>7. Grows(g, m, rate)
  BY <1>6 DEF Grows
<1> QED
  BY <1>2, <1>7

LEMMA GrowthIs ==
  ASSUME NEW rate, NEW m \in Nat
  PROVE  \E g : Grows(g, m, rate) /\ Growth(m, rate) = g[m]
<1> DEFINE power[n \in 0..m] ==
            IF n = 0 THEN Precision ELSE (power[n - 1] * (1200 + rate)) \div 1200
<1>0. \E g : Grows(g, m, rate)
  BY GrowthExists
<1>1. \E g : g = [n \in 0..m |-> IF n = 0 THEN Precision ELSE (g[n - 1] * (1200 + rate)) \div 1200]
  BY <1>0, Zenon DEF Grows
<1>2. power = [n \in 0..m |-> IF n = 0 THEN Precision ELSE (power[n - 1] * (1200 + rate)) \div 1200]
  BY <1>1, Zenon
<1>3. Growth(m, rate) = power[m]
  BY DEF Growth
<1> QED
  BY <1>2, <1>3, Zenon DEF Grows

LEMMA GrowthStep ==
  ASSUME NEW x \in Nat, x >= Precision, NEW rate \in Nat, Precision * rate >= 1200
  PROVE  /\ (x * (1200 + rate)) \div 1200 \in Nat
         /\ (x * (1200 + rate)) \div 1200 >= x + 1
<1>1. x * rate >= Precision * rate
  BY PrecisionAssumption
<1>2. x * rate \in Nat /\ x * (1200 + rate) = 1200 * x + x * rate
  OBVIOUS
<1>3. x * rate >= 1200
  BY <1>1, <1>2, PrecisionAssumption
<1> DEFINE y == x * rate
<1> HIDE DEF y
<1>4. y \in Nat /\ y >= 1200 /\ x * (1200 + rate) = 1200 * x + y
  BY <1>2, <1>3 DEF y
<1>5. (1200 * x + y) \div 1200 \in Nat /\ (1200 * x + y) \div 1200 >= x + 1
  BY <1>4
<1> QED
  BY <1>4, <1>5

LEMMA GrowthGrows ==
  ASSUME NEW rate \in Nat, Precision * rate >= 1200, NEW m \in Nat \ {0}
  PROVE  Growth(m, rate) \in Nat /\ Growth(m, rate) > Precision
<1>1. PICK g : Grows(g, m, rate) /\ Growth(m, rate) = g[m]
  BY GrowthIs
<1> DEFINE Good(n) == g[n] \in Nat /\ g[n] >= Precision /\ (n # 0 => g[n] > Precision)
           T == {n \in 0 .. m : ~Good(n)}
<1>2. SUFFICES ASSUME T # {} PROVE FALSE
  BY <1>1
<1>3. PICK n \in T : \A k \in T : n <= k
  <2>1. T \subseteq Nat
    OBVIOUS
  <2> HIDE DEF T
  <2> QED
    BY <1>2, <2>1, Minimum
<1>4. g[n] = IF n = 0 THEN Precision ELSE (g[n - 1] * (1200 + rate)) \div 1200
  BY <1>1, <1>3 DEF Grows
<1>5. n # 0
  BY <1>3, <1>4, PrecisionAssumption
<1>6. n - 1 \in 0 .. m /\ n - 1 \notin T
  BY <1>3, <1>5
<1>7. g[n - 1] \in Nat /\ g[n - 1] >= Precision
  BY <1>6
<1>8. g[n] \in Nat /\ g[n] >= g[n - 1] + 1
  BY <1>4, <1>5, <1>7, GrowthStep
<1>9. g[n] > Precision /\ g[n] >= Precision
  BY <1>7, <1>8, PrecisionAssumption
<1> QED
  BY <1>3, <1>8, <1>9

-----------------------------------------------------------------------------
(* The two directions of an amortised loan.  Each rounds against the         *)
(* borrower, so a principal is within the largest one exactly when its       *)
(* payment is within the limit.                                              *)
LEMMA Multiply ==
  ASSUME NEW i \in Int, NEW j \in Int, i <= j, NEW b \in Nat
  PROVE  i * b <= j * b
OBVIOUS

LEMMA FloorIs ==
  ASSUME NEW a \in Int, NEW b \in Nat \ {0}, NEW k \in Int
  PROVE  a \div b \in Int /\ (k <= a \div b <=> k * b <= a)
<1> DEFINE q == a \div b
<1>1. q \in Int /\ q * b <= a /\ a < (q + 1) * b
  OBVIOUS
<1> HIDE DEF q
<1>2. CASE k <= q
  <2>1. k * b <= q * b /\ k * b \in Int /\ q * b \in Int
    BY <1>1, <1>2, Multiply
  <2> QED
    BY <1>1, <1>2, <2>1 DEF q
<1>3. CASE ~(k <= q)
  <2>1. (q + 1) * b <= k * b /\ k * b \in Int /\ (q + 1) * b \in Int
    BY <1>1, <1>3, Multiply
  <2> QED
    BY <1>1, <1>3, <2>1 DEF q
<1> QED
  BY <1>2, <1>3

LEMMA FactorIs ==
  ASSUME NEW months \in Nat \ {0}, NEW rate \in Nat, rate = 0 \/ Precision * rate >= 1200
  PROVE  Factor(months, rate).worth \in Nat \ {0} /\ Factor(months, rate).unit \in Nat \ {0}
<1>1. CASE rate = 0
  BY <1>1 DEF Factor
<1>2. CASE rate # 0
  <2>1. Growth(months, rate) \in Nat /\ Growth(months, rate) > Precision
    BY <1>2, GrowthGrows
  <2>2. /\ Factor(months, rate).worth = 1200 * (Growth(months, rate) - Precision)
        /\ Factor(months, rate).unit = rate * Growth(months, rate)
    BY <1>2 DEF Factor
  <2> DEFINE x == Growth(months, rate)
  <2> HIDE DEF x
  <2>3. x \in Nat \ {0} /\ x - Precision \in Nat \ {0}
    BY <2>1, PrecisionAssumption DEF x
  <2>4. 1200 * (x - Precision) \in Nat \ {0} /\ rate * x \in Nat \ {0}
    BY <1>2, <2>3
  <2> QED
    BY <2>2, <2>4 DEF x
<1> QED
  BY <1>1, <1>2

(* A loan of the largest affordable amount, or of any less, has an          *)
(* instalment within the limit, and a loan of any more does not: the         *)
(* decision engine's offer is the most its own affordability check allows.   *)
THEOREM LargestIsLargest ==
  ASSUME NEW principal \in Nat, NEW limit \in Nat, NEW months \in Nat, NEW rate \in Nat,
         rate = 0 \/ Precision * rate >= 1200
  PROVE  /\ Amortize(principal, months, rate) \in Int
         /\ MaxAffordableAmount(limit, months, rate) \in Nat
         /\ limit > 0 /\ months > 0 =>
               (principal <= MaxAffordableAmount(limit, months, rate)
                   <=> Amortize(principal, months, rate) <= limit)
         /\ Amortize(0, months, rate) = 0
         /\ limit = 0 \/ months = 0 => MaxAffordableAmount(limit, months, rate) = 0
<1>1. CASE months = 0
  BY <1>1 DEF Amortize, MaxAffordableAmount
<1>2. CASE months # 0
  <2> DEFINE w == Factor(months, rate).worth
             u == Factor(months, rate).unit
  <2>1. w \in Nat \ {0} /\ u \in Nat \ {0}
    BY <1>2, FactorIs
  <2>2. \A p : Amortize(p, months, rate) = -((-p * u) \div w)
    BY <1>2 DEF Amortize
  <2>3. MaxAffordableAmount(limit, months, rate) = IF limit = 0 THEN 0 ELSE (limit * w) \div u
    BY <1>2 DEF MaxAffordableAmount
  <2> HIDE DEF w, u
  <2> DEFINE a == -principal * u
             b == limit * w
  <2>4. a \in Int /\ b \in Nat /\ a = -(principal * u) /\ principal * u \in Nat
    BY <2>1
  <2>5. (-limit) * w = -b
    BY <2>1
  <2> HIDE DEF a, b
  <2>6. a \div w \in Int /\ (-limit <= a \div w <=> -b <= a)
    BY <2>1, <2>4, <2>5, FloorIs
  <2>7. b \div u \in Int /\ (principal <= b \div u <=> principal * u <= b) /\ 0 <= b \div u
    <3>1. 0 * u = 0
      BY <2>1
    <3> QED
      BY <2>1, <2>4, <3>1, FloorIs
  <2>8. Amortize(principal, months, rate) = -(a \div w)
    BY <2>2 DEF a
  <2>9. MaxAffordableAmount(limit, months, rate) = IF limit = 0 THEN 0 ELSE b \div u
    BY <2>3 DEF b
  <2>10. Amortize(0, months, rate) = 0
    <3>1. -0 * u = 0 /\ 0 \div w = 0
      BY <2>1
    <3> QED
      BY <2>2, <3>1
  <2> QED
    BY <1>2, <2>4, <2>6, <2>7, <2>8, <2>9, <2>10
<1> QED
  BY <1>1, <1>2

-----------------------------------------------------------------------------
(* Offers.  What is offered is what the affordability check lets through,    *)
(* or the largest amount that it would.                                      *)
Terms(r, amount, tenor) ==
    [amount |-> amount, tenor |-> tenor, payment |-> Amortize(amount, tenor, r.interest_rate)]

CanBePaid(r, f, offer) ==
    \E amount \in Nat, tenor \in Nat :
        /\ offer = Terms(r, amount, tenor) /\ offer.payment \in Int
        /\ offer.payment <= MaxMonthlyPayment(f)
        /\ amount <= r.loan_amount /\ tenor <= r.tenor_months

LEMMA RequestIs ==
  ASSUME NEW r \in Requests
  PROVE  /\ r.loan_amount \in Nat /\ r.tenor_months \in Nat /\ r.interest_rate \in Nat
         /\ r.interest_rate = 0 \/ Precision * r.interest_rate >= 1200
         /\ Floors(Policy(r)) \subseteq Int
         /\ Policy(r).manual_review_buffer \in Nat
         /\ Policy(r).thin_file_income_multiple \in Nat /\ Policy(r).thin_file_max_tenor \in Nat
         /\ SafeIncome(Extract(r)) \in Int /\ ScoreOf(r, Extract(r)) \in 350 .. 850
<1>1. r \in RequestType /\ (r.interest_rate = 0 \/ Precision * r.interest_rate >= 1200)
  BY RequestsAssumption
<1>2. r.loan_amount \in Nat /\ r.tenor_months \in Nat /\ r.interest_rate \in Nat
  BY <1>1 DEF RequestType
<1>3. Policy(r) \in PolicyType
  BY <1>1, PolicyIs
<1>4. Numeric(Extract(r))
  BY <1>1, FeaturesAre
<1>5. SafeIncome(Extract(r)) \in Int /\ ScoreOf(r, Extract(r)) \in 350 .. 850
  BY <1>4, IncomeAtHand, ScoreIs DEF ScoreOf
<1> QED
  BY <1>1, <1>2, <1>3, <1>5, PolicyFields

LEMMA TermsAre ==
  ASSUME NEW r \in Requests, NEW f, f = Extract(r), SafeIncome(f) > 0, AFFORDABILITY_CAP \in Nat
  PROVE  /\ MaxMonthlyPayment(f) \in Nat
         /\ EffectiveTerms(r, f, Policy(r)).amount \in Nat
         /\ EffectiveTerms(r, f, Policy(r)).tenor \in Nat
         /\ EffectiveTerms(r, f, Policy(r)).amount <= r.loan_amount
         /\ EffectiveTerms(r, f, Policy(r)).tenor <= r.tenor_months
<1> DEFINE s == SafeIncome(f)
           m == Policy(r).thin_file_income_multiple
           t == Policy(r).thin_file_max_tenor
<1>1. s \in Nat /\ m \in Nat /\ t \in Nat /\ r.loan_amount \in Nat /\ r.tenor_months \in Nat
  BY RequestIs
<1>2. MaxMonthlyPayment(f) = (s * AFFORDABILITY_CAP) \div 100
  BY DEF MaxMonthlyPayment
<1>3. /\ EffectiveTerms(r, f, Policy(r)).amount \in {r.loan_amount, Least(r.loan_amount, s * m)}
      /\ EffectiveTerms(r, f, Policy(r)).tenor \in {r.tenor_months, Least(r.tenor_months, t)}
  BY DEF EffectiveTerms
<1> HIDE DEF s, m, t
<1>4. s * m \in Nat /\ s * AFFORDABILITY_CAP \in Nat
  BY <1>1
<1>5. (s * AFFORDABILITY_CAP) \div 100 \in Nat
  BY <1>4
<1> QED
  BY <1>1, <1>2, <1>3, <1>4, <1>5 DEF Least

LEMMA AffordIs ==
  ASSUME NEW r \in Requests, NEW f, f = Extract(r), SafeIncome(f) > 0, AFFORDABILITY_CAP \in Nat,
         NEW gate, gate # "REJECTED"
  PROVE  \A offer \in {Afford(r, f, gate, Policy(r)).approval,
                       Afford(r, f, gate, Policy(r)).counter} \ {Nil} : CanBePaid(r, f, offer)
<1> DEFINE terms == EffectiveTerms(r, f, Policy(r))
           limit == MaxMonthlyPayment(f)
           rate == r.interest_rate
           largest == MaxAffordableAmount(limit, terms.tenor, rate)
           payment == Amortize(terms.amount, terms.tenor, rate)
           a == Afford(r, f, gate, Policy(r))
<1>1. /\ limit \in Nat /\ terms.amount \in Nat /\ terms.tenor \in Nat
      /\ terms.amount <= r.loan_amount /\ terms.tenor <= r.tenor_months
  BY TermsAre
<1>2. rate \in Nat /\ r.loan_amount \in Nat /\ (rate = 0 \/ Precision * rate >= 1200)
  BY RequestIs
<1>3. \/ a.approval = Nil /\ a.counter = Nil
      \/ payment > limit /\ a.approval = Nil /\ a.counter = Terms(r, largest, terms.tenor)
      \/ ~(payment > limit) /\ a.counter = Nil /\ a.approval = Terms(r, terms.amount, terms.tenor)
  BY DEF Afford, Terms
<1> HIDE DEF terms, limit, rate, a
<1>4. payment \in Int /\ largest \in Nat
  BY <1>1, <1>2, LargestIsLargest
<1>5. ASSUME NEW p \in Nat
      PROVE  /\ Amortize(p, terms.tenor, rate) \in Int
             /\ limit > 0 /\ terms.tenor > 0
                   => (p <= largest <=> Amortize(p, terms.tenor, rate) <= limit)
             /\ Amortize(0, terms.tenor, rate) = 0
             /\ limit = 0 \/ terms.tenor = 0 => largest = 0
  BY <1>1, <1>2, LargestIsLargest
<1>6. ASSUME payment > limit PROVE CanBePaid(r, f, Terms(r, largest, terms.tenor))
  <2> HIDE DEF largest
  <2>1. Amortize(largest, terms.tenor, rate) \in Int /\ Amortize(largest, terms.tenor, rate) <= limit
          /\ largest <= terms.amount
    <3>1. CASE limit > 0 /\ terms.tenor > 0
      BY <1>1, <1>4, <1>5, <1>6, <3>1
    <3>2. CASE limit = 0 \/ terms.tenor = 0
      BY <1>1, <1>4, <1>5, <3>2
    <3> QED
      BY <1>1, <3>1, <3>2
  <2>2. Terms(r, largest, terms.tenor).payment = Amortize(largest, terms.tenor, rate)
    BY DEF Terms, rate
  <2>3. largest <= r.loan_amount
    BY <1>1, <1>2, <1>4, <2>1
  <2> QED
    BY <1>1, <1>4, <2>1, <2>2, <2>3 DEF CanBePaid, limit
<1>7. ASSUME ~(payment > limit) PROVE CanBePaid(r, f, Terms(r, terms.amount, terms.tenor))
  <2>1. Terms(r, terms.amount, terms.tenor).payment = payment
    BY DEF Terms, rate
  <2>2. payment <= limit
    BY <1>1, <1>4, <1>7
  <2> HIDE DEF payment
  <2> QED
    BY <1>1, <1>4, <2>1, <2>2 DEF CanBePaid, limit
<1> QED
  BY <1>3, <1>6, <1>7 DEF a

(* The gate rejects an applicant without an income. *)
LEMMA DecideIs ==
  ASSUME NEW r \in Requests, NEW f, f = Extract(r), NEW points, AFFORDABILITY_CAP \in Nat
  PROVE  /\ \A offer \in {Decide(r, f, points).approval, Decide(r, f, points).counter} \ {Nil} :
               /\ CanBePaid(r, f, offer)
               /\ offer.tenor \in DOMAIN Decide(r, f, points).eligible =>
                     offer.amount <= Decide(r, f, points).eligible[offer.tenor]
<1> DEFINE gate == Gate(f, points, Policy(r))
           a == Afford(r, f, gate, Policy(r))
           eligible == EligibleTenors(f, r.interest_rate, Policy(r))
           limit == MaxMonthlyPayment(f)
<1>1. /\ Decide(r, f, points).approval = a.approval /\ Decide(r, f, points).counter = a.counter
      /\ Decide(r, f, points).eligible = eligible
  BY DEF Decide
<1>2. CASE gate = "REJECTED"
  BY <1>1, <1>2 DEF Afford
<1>3. CASE gate # "REJECTED"
  <2>1. SafeIncome(f) > 0
    BY <1>3, RequestIs DEF Gate
  <2>2. ASSUME NEW offer \in {a.approval, a.counter} \ {Nil}
        PROVE  CanBePaid(r, f, offer)
    BY <1>3, <2>1, <2>2, AffordIs
  <2>3. ASSUME NEW offer, CanBePaid(r, f, offer), offer.tenor \in DOMAIN eligible
        PROVE  offer.amount <= eligible[offer.tenor]
    <3>1. PICK amount \in Nat, tenor \in Nat :
             offer = Terms(r, amount, tenor) /\ offer.payment <= limit
      BY <2>3 DEF CanBePaid
    <3>2. offer.amount = amount /\ offer.tenor = tenor
            /\ offer.payment = Amortize(amount, tenor, r.interest_rate)
      BY <3>1 DEF Terms
    <3>3. /\ eligible[tenor] = MaxAffordableAmount(limit, tenor, r.interest_rate)
          /\ MaxAffordableAmount(limit, tenor, r.interest_rate) > 0
      BY <2>3, <3>2 DEF EligibleTenors
    <3>4. limit \in Nat /\ r.interest_rate \in Nat
            /\ (r.interest_rate = 0 \/ Precision * r.interest_rate >= 1200)
      BY <2>1, TermsAre, RequestIs
    <3> DEFINE rate == r.interest_rate
               largest == MaxAffordableAmount(limit, tenor, rate)
    <3> HIDE DEF eligible, limit, rate
    <3>5. /\ limit = 0 \/ tenor = 0 => largest = 0
          /\ limit > 0 /\ tenor > 0 => (amount <= largest <=> Amortize(amount, tenor, rate) <= limit)
      BY <3>4, LargestIsLargest DEF rate
    <3> QED
      BY <3>1, <3>2, <3>3, <3>4, <3>5 DEF rate
  <2> QED
    BY <1>1, <2>2, <2>3
<1> QED
  BY <1>2, <1>3

(* Nothing is approved by itself but what was asked for, clear of all floors. *)
LEMMA ApprovedIs ==
  ASSUME NEW r \in Requests, NEW f, f = Extract(r), NEW points \in Int, AFFORDABILITY_CAP \in Nat,
         Decide(r, f, points).decision = "APPROVED"
  PROVE  /\ Decide(r, f, points).reasons = {}
         /\ Decide(r, f, points).approval # Nil
         /\ Decide(r, f, points).approval.amount = r.loan_amount
         /\ Decide(r, f, points).approval.tenor = r.tenor_months
         /\ \A floor \in Floors(Policy(r)) : points > floor + Policy(r).manual_review_buffer
<1> DEFINE policy == Policy(r)
           gate == Gate(f, points, policy)
           a == Afford(r, f, gate, policy)
           reasons == ManualReviewReasons(r, a.decision, points, policy)
           terms == EffectiveTerms(r, f, policy)
<1>1. /\ Decide(r, f, points).reasons = reasons /\ Decide(r, f, points).approval = a.approval
      /\ Decide(r, f, points).decision = IF a.decision = "APPROVED" /\ reasons # {}
                                         THEN "MANUAL_REVIEW" ELSE a.decision
  BY DEF Decide
<1>2. a.decision = "APPROVED" /\ reasons = {}
  <2> HIDE DEF a, reasons
  <2> QED
    BY <1>1
<1>3. /\ gate = "APPROVED" /\ a.approval = Terms(r, terms.amount, terms.tenor)
      /\ ~(terms.amount < r.loan_amount) /\ ~(terms.tenor < r.tenor_months)
  <2> HIDE DEF gate, terms
  <2> QED
    BY <1>2 DEF Afford, Terms, terms
<1>4. SafeIncome(f) > 0 /\ points >= policy.score_reject_floor
        /\ points >= policy.score_manual_floor /\ points >= policy.score_approve_floor
  <2>1. /\ ~(points < policy.score_reject_floor) /\ ~(SafeIncome(f) <= 0)
        /\ ~InManualBand(points, policy) /\ ~(points < policy.score_approve_floor)
    BY <1>3 DEF Gate
  <2> QED
    BY <2>1, RequestIs DEF InManualBand, Floors
<1>5. /\ terms.amount = r.loan_amount /\ terms.tenor = r.tenor_months
      /\ terms.amount \in Nat /\ terms.tenor \in Nat
  BY <1>3, <1>4, TermsAre, RequestIs
<1>6. Terms(r, terms.amount, terms.tenor) \in [amount : Int, tenor : Int, payment : Int]
  BY <1>5, RequestIs, LargestIsLargest DEF Terms
<1>7. a.approval # Nil /\ a.approval.amount = r.loan_amount /\ a.approval.tenor = r.tenor_months
  BY <1>3, <1>5, <1>6, TermsAssumption DEF Terms
<1>8. ~Borderline(points, policy)
  BY <1>2 DEF ManualReviewReasons
<1>9. ASSUME NEW floor \in Floors(policy) PROVE points > floor + policy.manual_review_buffer
  <2>1. points >= floor /\ floor \in Int /\ policy.manual_review_buffer \in Nat
    BY <1>4, RequestIs DEF Floors
  <2>2. points - floor \notin -policy.manual_review_buffer .. policy.manual_review_buffer
    BY <1>8 DEF Borderline
  <2> HIDE DEF policy
  <2> QED
    BY <2>1, <2>2
<1> QED
  BY <1>1, <1>2, <1>7, <1>9

-----------------------------------------------------------------------------
(* The pipeline hands on what its stages made of the one request it got.     *)
Stages == {"knockout", "extract", "score", "decide", "done", "raised"}

EngineInv ==
    /\ request \in Requests /\ stage \in Stages
    /\ stage \in {"knockout", "extract"} => features = Nil
    /\ stage \in {"score", "decide"} => features = Extract(request)
    /\ stage = "decide" => score = ScoreOf(request, features)
    /\ score \in {0, ScoreOf(request, Extract(request))}
    /\ stage = "done" =>
          response \in {KnockoutResponse,
                        Decide(request, Extract(request), ScoreOf(request, Extract(request)))}
    /\ Decided => /\ AFFORDABILITY_CAP \in Nat
                  /\ features = Extract(request) /\ score = ScoreOf(request, features)
                  /\ response = Decide(request, features, score)

LEMMA EngineStep == Spec => []EngineInv
<1>1. Init => EngineInv
  BY DEF Init, EngineInv, Decided, Stages
<1>2. EngineInv /\ [Next]_vars => EngineInv'
  <2> SUFFICES ASSUME EngineInv, [Next]_vars PROVE EngineInv'
    OBVIOUS
  <2>1. CASE RunKnockout
    BY <2>1 DEF RunKnockout, EngineInv, Decided, Stages
  <2>2. CASE RunExtract
    BY <2>2 DEF RunExtract, EngineInv, Decided, Stages
  <2>3. CASE RunScore
    BY <2>3 DEF RunScore, EngineInv, Decided, Stages
  <2>4. CASE RunDecide
    BY <2>4, CapAssumption DEF RunDecide, EngineInv, Decided, Stages
  <2>5. CASE UNCHANGED vars
    BY <2>5 DEF vars, EngineInv, Decided
  <2> QED
    BY <2>1, <2>2, <2>3, <2>4, <2>5 DEF Next
<1> QED
  BY <1>1, <1>2, PTL DEF Spec

LEMMA DecisionIs ==
  ASSUME NEW r, NEW f, NEW points
  PROVE  /\ Decide(r, f, points).decision \in Outcomes
         /\ Decide(r, f, points).score = points
         /\ Decide(r, f, points).band = ScoreBand(points)
         /\ DOMAIN Decide(r, f, points).eligible \subseteq STANDARD_TENORS
<1> DEFINE policy == Policy(r)
           gate == Gate(f, points, policy)
           a == Afford(r, f, gate, policy)
<1>1. gate \in Outcomes
  BY DEF Gate, Outcomes
<1>2. a.decision \in {"REJECTED", "COUNTER_OFFER", gate}
  BY DEF Afford
<1>3. Decide(r, f, points).decision \in {"MANUAL_REVIEW", a.decision}
  BY DEF Decide
<1>4. /\ Decide(r, f, points).score = points /\ Decide(r, f, points).band = ScoreBand(points)
      /\ Decide(r, f, points).eligible = EligibleTenors(f, r.interest_rate, policy)
  BY DEF Decide
<1>5. DOMAIN EligibleTenors(f, r.interest_rate, policy) \subseteq STANDARD_TENORS
  BY DEF EligibleTenors
<1> HIDE DEF a, gate
<1>6. Decide(r, f, points).decision \in Outcomes
  BY <1>1, <1>2, <1>3 DEF Outcomes
<1> QED
  BY <1>4, <1>5, <1>6

LEMMA KnockoutIs ==
  /\ KnockoutResponse.decision \in Outcomes
  /\ KnockoutResponse.score = 350
  /\ KnockoutResponse.band = ScoreBand(350)
  /\ DOMAIN KnockoutResponse.eligible \subseteq STANDARD_TENORS
<1>1. ScoreBand(350) = "VERY_HIGH_RISK"
  <2> DEFINE match == {i \in DOMAIN SCORE_BANDS :
                          SCORE_BANDS[i].low <= 350 /\ 350 <= SCORE_BANDS[i].high}
  <2>1. match \subseteq {5}
    BY DEF SCORE_BANDS
  <2>2. match # {} => Min(match) = 5
    <3> HIDE DEF match
    <3>1. match \subseteq Nat
      BY <2>1
    <3>2. match # {} => Min(match) \in match
      BY <3>1, MinIs
    <3> QED
      BY <2>1, <3>2
  <2>3. ScoreBand(350) = IF match = {} THEN "VERY_HIGH_RISK" ELSE SCORE_BANDS[Min(match)].band
    BY DEF ScoreBand
  <2>4. SCORE_BANDS[5].band = "VERY_HIGH_RISK"
    BY DEF SCORE_BANDS
  <2> QED
    BY <2>2, <2>3, <2>4
<1> QED
  BY <1>1 DEF KnockoutResponse, Outcomes, BASELINE_SCORE

(* Every stage hands on what the next one can calculate with: the average of *)
(* the credits is a number, a score is within its range, and an answer has   *)
(* one of the four decisions, the band of its score and standard tenors.     *)
THEOREM TypeCorrect == Spec => []TypeOK
<1>1. EngineInv => TypeOK
  <2> SUFFICES ASSUME EngineInv PROVE TypeOK
    OBVIOUS
  <2>1. request \in Requests /\ stage \in Stages
    BY DEF EngineInv
  <2>2. ScoreOf(request, Extract(request)) \in 350 .. 850
    BY <2>1, RequestIs
  <2>3. stage \in {"score", "decide"} => features.monthly_avg_credits \in Int
    <3>1. request \in RequestType
      BY <2>1, RequestsAssumption
    <3>2. Extract(request).monthly_avg_credits \in Int
      BY <3>1, FeaturesAre DEF Numeric
    <3> QED
      BY <3>2 DEF EngineInv
  <2>4. score \in {0} \cup 350 .. 850
    BY <2>2 DEF EngineInv
  <2>5. ASSUME stage = "done"
        PROVE  /\ response.decision \in Outcomes
               /\ response.score \in 350..850
               /\ response.band = ScoreBand(response.score)
               /\ DOMAIN response.eligible \subseteq STANDARD_TENORS
    <3>1. CASE response = KnockoutResponse
      BY <3>1, KnockoutIs
    <3>2. CASE response = Decide(request, Extract(request), ScoreOf(request, Extract(request)))
      BY <2>2, <3>2, DecisionIs
    <3> QED
      BY <2>5, <3>1, <3>2 DEF EngineInv
  <2> QED
    BY <2>1, <2>3, <2>4, <2>5 DEF TypeOK, Stages
<1> QED
  BY <1>1, EngineStep, PTL

(* Whatever the brain offers can be paid out of the income it goes by, asks  *)
(* nothing the applicant did not, and agrees with the eligible tenors.       *)
THEOREM AffordableCorrect == Spec => []OfferIsAffordable
<1>1. EngineInv => OfferIsAffordable
  <2> SUFFICES ASSUME EngineInv, Decided, NEW offer \in {response.approval, response.counter} \ {Nil}
               PROVE  /\ offer.payment <= MaxMonthlyPayment(features)
                      /\ offer.amount <= request.loan_amount
                      /\ offer.tenor <= request.tenor_months
                      /\ offer.tenor \in DOMAIN response.eligible =>
                            offer.amount <= response.eligible[offer.tenor]
    BY DEF OfferIsAffordable
  <2>1. /\ request \in Requests /\ AFFORDABILITY_CAP \in Nat /\ features = Extract(request)
        /\ response = Decide(request, features, score)
    BY DEF EngineInv
  <2>2. /\ CanBePaid(request, features, offer)
        /\ offer.tenor \in DOMAIN response.eligible => offer.amount <= response.eligible[offer.tenor]
    BY <2>1, DecideIs
  <2> QED
    BY <2>2 DEF CanBePaid, Terms
<1> QED
  BY <1>1, EngineStep, PTL

(* Nothing is approved without a human but the terms asked for, with a score *)
(* clear of every floor and no reason for a review.                          *)
THEOREM ApprovedCorrect == Spec => []ApprovedIsUncontested
<1>1. EngineInv => ApprovedIsUncontested
  <2> SUFFICES ASSUME EngineInv, Decided, response.decision = "APPROVED"
               PROVE  /\ response.approval # Nil /\ response.reasons = {}
                      /\ response.approval.amount = request.loan_amount
                      /\ response.approval.tenor = request.tenor_months
                      /\ \A floor \in Floors(Policy(request)) :
                            score > floor + Policy(request).manual_review_buffer
    BY DEF ApprovedIsUncontested
  <2>1. /\ request \in Requests /\ AFFORDABILITY_CAP \in Nat /\ features = Extract(request)
        /\ response = Decide(request, features, score) /\ score = ScoreOf(request, features)
    BY DEF EngineInv
  <2>2. score \in Int
    BY <2>1, RequestIs
  <2> QED
    BY <2>1, <2>2, ApprovedIs
<1> QED
  BY <1>1, EngineStep, PTL

-----------------------------------------------------------------------------
(* Asking for more.  The features do not depend on the amount; the payment   *)
(* and with it the debt ratio grow, so the score falls, the thin-file cap    *)
(* stays, and the smallest viable offer grows.                               *)
LEMMA FloorGrows ==
  ASSUME NEW a \in Int, NEW b \in Int, a <= b, NEW d \in Nat \ {0}
  PROVE  a \div d \in Int /\ b \div d \in Int /\ a \div d <= b \div d
<1> DEFINE k == a \div d
<1>1. k \in Int /\ k * d <= a
  OBVIOUS
<1> HIDE DEF k
<1>2. k * d <= b
  BY <1>1
<1>3. k <= b \div d /\ b \div d \in Int
  BY <1>1, <1>2, FloorIs
<1> QED
  BY <1>1, <1>3 DEF k

LEMMA AmortizeGrows ==
  ASSUME NEW p \in Nat, NEW q \in Nat, p <= q, NEW months \in Nat, NEW rate \in Nat,
         rate = 0 \/ Precision * rate >= 1200
  PROVE  /\ Amortize(p, months, rate) \in Int /\ Amortize(q, months, rate) \in Int
         /\ Amortize(p, months, rate) <= Amortize(q, months, rate)
<1>1. CASE months = 0
  BY <1>1 DEF Amortize
<1>2. CASE months # 0
  <2> DEFINE w == Factor(months, rate).worth
             u == Factor(months, rate).unit
             x == -q * u
             y == -p * u
  <2>1. w \in Nat \ {0} /\ u \in Nat \ {0}
    BY <1>2, FactorIs
  <2>2. /\ Amortize(q, months, rate) = -(x \div w)
        /\ Amortize(p, months, rate) = -(y \div w)
    BY <1>2 DEF Amortize
  <2> HIDE DEF w, u
  <2>3. x \in Int /\ y \in Int /\ x <= y
    <3>1. p * u <= q * u /\ p * u \in Int /\ q * u \in Int
      BY <2>1, Multiply
    <3>2. -q * u = -(q * u) /\ -p * u = -(p * u)
      BY <2>1
    <3> QED
      BY <3>1, <3>2
  <2> HIDE DEF x, y
  <2>4. x \div w \in Int /\ y \div w \in Int /\ x \div w <= y \div w
    BY <2>1, <2>3, FloorGrows
  <2> QED
    BY <2>2, <2>4
<1> QED
  BY <1>1, <1>2

LEMMA DebtServiceFalls ==
  ASSUME NEW f, Numeric(f), NEW amount \in Nat, NEW more \in Nat, amount <= more,
         NEW tenor \in Nat, NEW rate \in Nat, rate = 0 \/ Precision * rate >= 1200
  PROVE  ScoreDebtServiceCapacity(f, more, tenor, rate)
           <= ScoreDebtServiceCapacity(f, amount, tenor, rate)
<1> DEFINE income == SafeIncome(f)
           existing == f.recurring_debt_monthly
           x == Amortize(amount, tenor, rate) + existing
           y == Amortize(more, tenor, rate) + existing
           burden == Below(Percent(existing, income), ExistingRows, 0)
<1>1. /\ ScoreDebtServiceCapacity(f, amount, tenor, rate)
           = IF income <= 0 THEN 0 ELSE Below(Percent(x, income), TotalRows, 0) + burden
      /\ ScoreDebtServiceCapacity(f, more, tenor, rate)
           = IF income <= 0 THEN 0 ELSE Below(Percent(y, income), TotalRows, 0) + burden
  BY DEF ScoreDebtServiceCapacity, TotalRows, ExistingRows
<1>2. income \in Int /\ existing \in Int
  BY IncomeAtHand DEF Numeric
<1>3. x \in Int /\ y \in Int /\ x <= y
  <2>1. /\ Amortize(amount, tenor, rate) \in Int /\ Amortize(more, tenor, rate) \in Int
        /\ Amortize(amount, tenor, rate) <= Amortize(more, tenor, rate)
    BY AmortizeGrows
  <2> QED
    BY <1>2, <2>1
<1>4. burden \in Int
  BY DebtRows, PointsInt
<1> HIDE DEF income, existing, x, y, burden
<1>5. CASE income <= 0
  BY <1>1, <1>5
<1>6. CASE ~(income <= 0)
  <2>1. income \in Nat \ {0} /\ 100 * x \in Int /\ 100 * y \in Int /\ 100 * x <= 100 * y
    BY <1>2, <1>3, <1>6
  <2>2. Percent(x, income) \in Int /\ Percent(y, income) \in Int
          /\ Percent(x, income) <= Percent(y, income)
    BY <2>1, FloorGrows DEF Percent
  <2>3. Below(Percent(y, income), TotalRows, 0) <= Below(Percent(x, income), TotalRows, 0)
    BY <2>2, DebtRows, PointsFall
  <2>4. Below(Percent(y, income), TotalRows, 0) \in Int
          /\ Below(Percent(x, income), TotalRows, 0) \in Int
    BY DebtRows, PointsInt
  <2> QED
    BY <1>1, <1>4, <1>6, <2>3, <2>4
<1> QED
  BY <1>5, <1>6

LEMMA MoreScoresLess ==
  ASSUME NEW f, Numeric(f), NEW amount \in Nat, NEW more \in Nat, amount <= more,
         NEW tenor \in Nat, NEW rate \in Nat, rate = 0 \/ Precision * rate >= 1200
  PROVE  Calculate(f, more, tenor, rate) <= Calculate(f, amount, tenor, rate)
<1>1. ASSUME NEW c \in Components
      PROVE  RawScores(f, more, tenor, rate)[c] <= RawScores(f, amount, tenor, rate)[c]
  <2>1. CASE c = "debt_service_capacity"
    BY <2>1, DebtServiceFalls DEF RawScores
  <2>2. CASE c # "debt_service_capacity"
    <3>1. RawScores(f, more, tenor, rate)[c] = RawScores(f, amount, tenor, rate)[c]
      BY <2>2 DEF RawScores, Components
    <3> QED
      BY <3>1, RawIs
  <2> QED
    BY <2>1, <2>2
<1> QED
  BY <1>1, ScoreGrows

(* When the affordability check ends in a rejection. *)
LEMMA AffordRejects ==
  ASSUME NEW r, NEW f, NEW gate, NEW policy, NEW terms, terms = EffectiveTerms(r, f, policy),
         NEW rate, rate = r.interest_rate
  PROVE  Afford(r, f, gate, policy).decision = "REJECTED"
           <=> \/ gate = "REJECTED"
               \/ /\ Amortize(terms.amount, terms.tenor, rate) > MaxMonthlyPayment(f)
                  /\ 100 * MaxAffordableAmount(MaxMonthlyPayment(f), terms.tenor, rate)
                       < r.loan_amount * policy.min_viable_offer_ratio
<1> DEFINE payment == Amortize(terms.amount, terms.tenor, rate)
           over == payment > MaxMonthlyPayment(f)
           small == 100 * MaxAffordableAmount(MaxMonthlyPayment(f), terms.tenor, rate)
                      < r.loan_amount * policy.min_viable_offer_ratio
           capped == terms.amount < r.loan_amount \/ terms.tenor < r.tenor_months
<1>1. Afford(r, f, gate, policy).decision =
         IF gate = "REJECTED" THEN "REJECTED"
         ELSE IF over THEN IF small THEN "REJECTED" ELSE "COUNTER_OFFER"
         ELSE IF gate = "MANUAL_REVIEW" THEN gate
         ELSE IF capped THEN "COUNTER_OFFER" ELSE gate
  BY DEF Afford
<1> HIDE DEF over, small, capped
<1> QED
  BY <1>1 DEF over, small

LEMMA GateRejects ==
  ASSUME NEW f, NEW points, NEW policy
  PROVE  /\ Gate(f, points, policy) = "REJECTED"
              <=> points < policy.score_reject_floor \/ SafeIncome(f) <= 0
BY DEF Gate

(* The request for twice as much, for any request of the right type. *)
More(r) == [r EXCEPT !.loan_amount = 2 * @]

LEMMA MoreIs ==
  ASSUME NEW r \in RequestType
  PROVE  /\ More(r).loan_amount = 2 * r.loan_amount
         /\ More(r).tenor_months = r.tenor_months /\ More(r).interest_rate = r.interest_rate
         /\ Policy(More(r)) = Policy(r) /\ Extract(More(r)) = Extract(r)
<1>1. /\ More(r).loan_amount = 2 * r.loan_amount
      /\ More(r).tenor_months = r.tenor_months /\ More(r).interest_rate = r.interest_rate
      /\ More(r).policy = r.policy /\ More(r).accounts = r.accounts
      /\ More(r).credit_history = r.credit_history
  BY DEF More, RequestType
<1>2. Policy(More(r)) = Policy(r)
  BY <1>1 DEF Policy
<1>3. Extract(More(r)) = Extract(r)
  BY <1>1 DEF Extract
<1> QED
  BY <1>1, <1>2, <1>3

LEMMA RejectedAgain ==
  ASSUME NEW r \in Requests, NEW f, f = Extract(r), AFFORDABILITY_CAP \in Nat,
         Decide(r, f, ScoreOf(r, f)).decision = "REJECTED"
  PROVE  Answer(More(r)).decision = "REJECTED"
<1> DEFINE q == More(r)
           policy == Policy(r)
           points == ScoreOf(r, f)
           worse == ScoreOf(q, f)
           rate == r.interest_rate
           floor == policy.score_reject_floor
           ratio == policy.min_viable_offer_ratio
           amount == r.loan_amount
           terms == EffectiveTerms(r, f, policy)
           terms2 == EffectiveTerms(q, f, policy)
           limit == MaxMonthlyPayment(f)
           largest == MaxAffordableAmount(limit, terms.tenor, rate)
<1>1. r \in RequestType /\ policy \in PolicyType /\ Numeric(f)
  BY RequestsAssumption, PolicyIs, FeaturesAre
<1>2. /\ amount \in Nat /\ r.tenor_months \in Nat /\ rate \in Nat
      /\ (rate = 0 \/ Precision * rate >= 1200)
      /\ floor \in Nat /\ ratio \in Nat /\ SafeIncome(f) \in Int
  BY <1>1, RequestIs, PolicyFields, IncomeAtHand
<1>3. /\ q.loan_amount = 2 * amount /\ q.tenor_months = r.tenor_months
      /\ q.interest_rate = rate /\ Policy(q) = policy /\ Extract(q) = f
  BY <1>1, MoreIs
<1>4. points \in 350 .. 850 /\ worse \in 350 .. 850 /\ worse <= points
  <2>1. 2 * amount \in Nat /\ amount <= 2 * amount
    BY <1>2
  <2>2. Calculate(f, 2 * amount, r.tenor_months, rate)
          <= Calculate(f, amount, r.tenor_months, rate)
    BY <1>1, <1>2, <2>1, MoreScoresLess
  <2> QED
    BY <1>1, <1>3, <2>2, ScoreIs DEF ScoreOf
<1>5. Afford(r, f, Gate(f, points, policy), policy).decision = "REJECTED"
  <2> DEFINE a == Afford(r, f, Gate(f, points, policy), policy)
  <2>1. Decide(r, f, points).decision \in {"MANUAL_REVIEW", a.decision}
    BY DEF Decide
  <2> HIDE DEF a
  <2> QED
    BY <2>1 DEF a
<1>6. Afford(q, f, Gate(f, worse, policy), policy).decision = "REJECTED"
  <2>1. CASE Gate(f, points, policy) = "REJECTED"
    <3>1. points < floor \/ SafeIncome(f) <= 0
      BY <2>1, GateRejects
    <3>2. worse < floor \/ SafeIncome(f) <= 0
      <4> HIDE DEF points, worse, floor
      <4> QED
        BY <1>2, <1>4, <3>1
    <3>3. Gate(f, worse, policy) = "REJECTED"
      BY <3>2, GateRejects
    <3> QED
      BY <3>3, AffordRejects
  <2>2. CASE Gate(f, points, policy) # "REJECTED"
    <3>1. Amortize(terms.amount, terms.tenor, rate) > limit /\ 100 * largest < amount * ratio
      BY <1>5, <2>2, AffordRejects
    <3>2. SafeIncome(f) > 0
      BY <1>2, <2>2, GateRejects
    <3>3. limit \in Nat /\ terms.amount \in Nat /\ terms.tenor \in Nat
      BY <3>2, TermsAre
    <3>4. terms2.tenor = terms.tenor /\ terms2.amount \in Nat /\ terms.amount <= terms2.amount
      <4> DEFINE m == SafeIncome(f) * policy.thin_file_income_multiple
      <4>1. m \in Nat
        BY <1>1, <1>2, <3>2, PolicyFields
      <4>2. /\ terms.amount = IF f.is_thin_file THEN Least(amount, m) ELSE amount
            /\ terms2.amount = IF f.is_thin_file THEN Least(2 * amount, m) ELSE 2 * amount
            /\ terms2.tenor = terms.tenor
        BY <1>3 DEF EffectiveTerms
      <4> HIDE DEF m, terms, terms2
      <4> QED
        BY <1>2, <4>1, <4>2 DEF Least
    <3>5. /\ Amortize(terms.amount, terms.tenor, rate) \in Int
          /\ Amortize(terms2.amount, terms.tenor, rate) \in Int
          /\ Amortize(terms.amount, terms.tenor, rate)
               <= Amortize(terms2.amount, terms.tenor, rate)
      BY <1>2, <3>3, <3>4, AmortizeGrows
    <3>6. Amortize(terms2.amount, terms2.tenor, rate) > limit
      BY <3>1, <3>3, <3>4, <3>5
    <3>7. 100 * MaxAffordableAmount(limit, terms2.tenor, rate) < q.loan_amount * ratio
      <4>1. largest \in Nat
        BY <1>2, <3>3, LargestIsLargest
      <4>2. amount * ratio \in Nat /\ (2 * amount) * ratio = 2 * (amount * ratio)
        BY <1>2
      <4> DEFINE x == amount * ratio
      <4> HIDE DEF x, largest
      <4>3. 100 * largest < 2 * x
        BY <3>1, <4>1, <4>2 DEF x
      <4> QED
        BY <1>3, <3>4, <4>2, <4>3 DEF x, largest
    <3> QED
      BY <1>3, <3>6, <3>7, AffordRejects
  <2> QED
    BY <2>1, <2>2
<1>7. Decide(q, f, worse).decision = "REJECTED"
  <2> DEFINE a == Afford(q, f, Gate(f, worse, policy), policy)
  <2>1. \/ Decide(q, f, worse).decision = a.decision
        \/ a.decision = "APPROVED"
    BY <1>3 DEF Decide
  <2> HIDE DEF a
  <2> QED
    BY <1>6, <2>1 DEF a
<1>8. KnockoutResponse.decision = "REJECTED"
  BY DEF KnockoutResponse
<1> QED
  BY <1>3, <1>7, <1>8 DEF Answer

(* A rejected applicant who asks for twice as much is rejected again,        *)
(* whatever the amount, the policy and the accounts.                         *)
THEOREM AskingMoreCorrect == Spec => []AskingMoreNeverRescues
<1>1. EngineInv => AskingMoreNeverRescues
  <2> SUFFICES ASSUME EngineInv, Decided, response.decision = "REJECTED"
               PROVE  Answer(More(request)).decision = "REJECTED"
    BY DEF AskingMoreNeverRescues, More
  <2>1. /\ request \in Requests /\ AFFORDABILITY_CAP \in Nat /\ features = Extract(request)
        /\ score = ScoreOf(request, features) /\ response = Decide(request, features, score)
    BY DEF EngineInv
  <2> QED
    BY <2>1, RejectedAgain
<1> QED
  BY <1>1, EngineStep, PTL

-----------------------------------------------------------------------------
(* Linking.  A rule looks at one account, or counts marks that another       *)
(* account can only add to.                                                  *)
LEMMA KnockoutNone ==
  ASSUME NEW r, NEW accounts, accounts = r.accounts, NEW policy, policy = Policy(r)
  PROVE  KnockoutReason(r) = "none"
           <=> /\ CheckIdentity(accounts, r.name, r.bvn) = "none"
               /\ CheckFraudSignals(accounts) = "none"
               /\ CheckActiveDefaults(r.credit_history, policy) = "none"
               /\ CheckAccountHealth(accounts, policy) = "none"
               /\ CheckIncomeDisqualifiers(accounts, policy) = "none"
<1> DEFINE a == CheckIdentity(accounts, r.name, r.bvn)
           b == CheckFraudSignals(accounts)
           c == CheckActiveDefaults(r.credit_history, policy)
           d == CheckAccountHealth(accounts, policy)
           e == CheckIncomeDisqualifiers(accounts, policy)
           reasons == <<a, b, c, d, e>>
<1>1. KnockoutReason(r) = First(reasons)
  BY DEF KnockoutReason
<1> HIDE DEF a, b, c, d, e
<1>2. DOMAIN reasons = 1 .. 5 /\ reasons[1] = a /\ reasons[2] = b /\ reasons[3] = c
        /\ reasons[4] = d /\ reasons[5] = e
  OBVIOUS
<1> HIDE DEF reasons
<1>3. First(reasons) = "none" <=> \A i \in DOMAIN reasons : reasons[i] = "none"
  BY <1>2, FirstIs
<1>4. (\A i \in 1 .. 5 : reasons[i] = "none")
        <=> a = "none" /\ b = "none" /\ c = "none" /\ d = "none" /\ e = "none"
  <2>1. 1 .. 5 = {1, 2, 3, 4, 5}
    OBVIOUS
  <2> QED
    BY <1>2, <2>1
<1> QED
  BY <1>1, <1>2, <1>3, <1>4 DEF a, b, c, d, e

LEMMA EachAccount ==
  ASSUME NEW accounts \in Seq(AccountType), NEW name, NEW bvn, NEW policy
  PROVE  /\ CheckIdentity(accounts, name, bvn) = "none"
              <=> \A i \in DOMAIN accounts : IdentityRule(accounts[i], name, bvn) = "none"
         /\ CheckFraudSignals(accounts) = "none"
              <=> \A i \in DOMAIN accounts : FraudRule(accounts[i]) = "none"
         /\ CheckIncomeDisqualifiers(accounts, policy) = "none"
              <=> \A i \in DOMAIN accounts : IncomeRule(accounts[i], policy) = "none"
<1>0. DOMAIN accounts \subseteq Nat
  BY ElementsAre
<1>1. CheckIdentity(accounts, name, bvn) = "none"
        <=> \A i \in DOMAIN accounts : IdentityRule(accounts[i], name, bvn) = "none"
  BY <1>0, FirstIs DEF CheckIdentity
<1>2. CheckFraudSignals(accounts) = "none"
        <=> \A i \in DOMAIN accounts : FraudRule(accounts[i]) = "none"
  BY <1>0, FirstIs DEF CheckFraudSignals
<1>3. CheckIncomeDisqualifiers(accounts, policy) = "none"
        <=> \A i \in DOMAIN accounts : IncomeRule(accounts[i], policy) = "none"
  BY <1>0, FirstIs DEF CheckIncomeDisqualifiers
<1> QED
  BY <1>1, <1>2, <1>3

LEMMA HealthNone ==
  ASSUME NEW accounts \in Seq(AccountType), NEW policy,
         NEW txns, txns = AllTransactions(accounts)
  PROVE  CheckAccountHealth(accounts, policy) = "none"
           <=> /\ \A i \in DOMAIN accounts : AgeRule(accounts[i], policy) = "none"
               /\ ~(Count(Overdrawn, txns) > policy.max_overdrafts)
               /\ ~(Count(Bounced, txns) > policy.max_bounced_payments)
<1> DEFINE a == First([i \in DOMAIN accounts |-> AgeRule(accounts[i], policy)])
           b == When(Count(Overdrawn, txns) > policy.max_overdrafts, "EXCESSIVE_OVERDRAFTS")
           c == When(Count(Bounced, txns) > policy.max_bounced_payments,
                     "EXCESSIVE_BOUNCED_PAYMENTS")
           reasons == <<a, b, c>>
<1>1. CheckAccountHealth(accounts, policy) = First(reasons)
  BY DEF CheckAccountHealth
<1>2. a = "none" <=> \A i \in DOMAIN accounts : AgeRule(accounts[i], policy) = "none"
  <2>1. DOMAIN accounts \subseteq Nat
    BY ElementsAre
  <2> QED
    BY <2>1, FirstIs
<1>3. b = "none" <=> ~(Count(Overdrawn, txns) > policy.max_overdrafts)
  BY DEF When
<1>4. c = "none" <=> ~(Count(Bounced, txns) > policy.max_bounced_payments)
  BY DEF When
<1> HIDE DEF a, b, c
<1>5. DOMAIN reasons = 1 .. 3 /\ reasons[1] = a /\ reasons[2] = b /\ reasons[3] = c
  OBVIOUS
<1> HIDE DEF reasons
<1>6. First(reasons) = "none" <=> \A i \in DOMAIN reasons : reasons[i] = "none"
  BY <1>5, FirstIs
<1>7. (\A i \in 1 .. 3 : reasons[i] = "none") <=> a = "none" /\ b = "none" /\ c = "none"
  <2>1. 1 .. 3 = {1, 2, 3}
    OBVIOUS
  <2> QED
    BY <1>5, <2>1
<1> QED
  BY <1>1, <1>2, <1>3, <1>4, <1>5, <1>6, <1>7

(* An account's transactions of a kind, among those of all accounts.         *)
LEMMA FewerAlone ==
  ASSUME NEW accounts \in Seq(AccountType), NEW i \in DOMAIN accounts, NEW K
  PROVE  LET all   == AllTransactions(accounts)
             alone == AllTransactions(<<accounts[i]>>)
         IN  Cardinality({p \in DOMAIN alone : alone[p] \in K})
               <= Cardinality({p \in DOMAIN all : all[p] \in K})
<1> DEFINE one == <<accounts[i]>>
           all == AllTransactions(accounts)
           alone == AllTransactions(one)
           S == {p \in DOMAIN alone : alone[p] \in K}
           T == {p \in DOMAIN all : all[p] \in K}
           g == [p \in S |-> <<i, p[2]>>]
<1>1. one \in Seq(AccountType) /\ DOMAIN one = {1} /\ one[1] = accounts[i]
  <2>1. accounts[i] \in AccountType
    BY ElementsAre
  <2> QED
    BY <2>1
<1> HIDE DEF one
<1>2. /\ DOMAIN all = AllPlaces(accounts) /\ IsFiniteSet(DOMAIN all)
      /\ DOMAIN alone = AllPlaces(one)
  BY <1>1, TransactionsAre
<1>3. \A p \in AllPlaces(one) : /\ p[1] = 1 /\ p = <<p[1], p[2]>>
                                /\ p[2] \in DOMAIN accounts[i].transactions
  BY <1>1, PlacesAre
<1>4. \A p \in AllPlaces(one) : <<i, p[2]>> \in AllPlaces(accounts)
  BY <1>3, PlacesAre
<1>5. ASSUME NEW p \in AllPlaces(one) PROVE all[<<i, p[2]>>] = alone[p]
  <2>1. alone[p] = one[1].transactions[p[2]]
    BY <1>3 DEF AllTransactions
  <2>2. all[<<i, p[2]>>] = accounts[i].transactions[p[2]]
    BY <1>4 DEF AllTransactions
  <2> QED
    BY <1>1, <2>1, <2>2
<1> HIDE DEF all, alone
<1>6. g \in Injection(S, T)
  <2>1. \A p \in S : g[p] \in T
    BY <1>2, <1>4, <1>5
  <2>2. \A p, q \in S : g[p] = g[q] => p = q
    BY <1>2, <1>3
  <2> QED
    BY <2>1, <2>2 DEF Injection, IsInjective
<1>7. IsFiniteSet(T)
  BY <1>2, FS_Subset
<1>8. Cardinality(S) <= Cardinality(T)
  BY <1>6, <1>7, FS_Injection
<1> QED
  BY <1>8 DEF all, alone, one

LEMMA MarksAlone ==
  ASSUME NEW accounts \in Seq(AccountType), NEW i \in DOMAIN accounts
  PROVE  /\ Count(Overdrawn, AllTransactions(<<accounts[i]>>)) \in Nat
         /\ Count(Overdrawn, AllTransactions(accounts)) \in Nat
         /\ Count(Overdrawn, AllTransactions(<<accounts[i]>>))
              <= Count(Overdrawn, AllTransactions(accounts))
         /\ Count(Bounced, AllTransactions(<<accounts[i]>>)) \in Nat
         /\ Count(Bounced, AllTransactions(accounts)) \in Nat
         /\ Count(Bounced, AllTransactions(<<accounts[i]>>))
              <= Count(Bounced, AllTransactions(accounts))
<1> DEFINE all == AllTransactions(accounts)
           alone == AllTransactions(<<accounts[i]>>)
<1>1. <<accounts[i]>> \in Seq(AccountType)
  <2>1. accounts[i] \in AccountType
    BY ElementsAre
  <2> QED
    BY <2>1
<1>2. Listed(all) /\ Listed(alone)
  BY <1>1, TransactionsAre DEF Listed
<1>3. ASSUME NEW K
      PROVE  Cardinality({p \in DOMAIN alone : alone[p] \in K})
               <= Cardinality({p \in DOMAIN all : all[p] \in K})
  BY FewerAlone
<1> HIDE DEF all, alone
<1> DEFINE O == {t \in TransactionType : Overdrawn(t)}
           B == {t \in TransactionType : Bounced(t)}
<1>4. ASSUME NEW txns, Listed(txns)
      PROVE  /\ Count(Overdrawn, txns) = Cardinality({p \in DOMAIN txns : txns[p] \in O})
             /\ Count(Bounced, txns) = Cardinality({p \in DOMAIN txns : txns[p] \in B})
             /\ Count(Overdrawn, txns) \in Nat /\ Count(Bounced, txns) \in Nat
  <2>1. {p \in DOMAIN txns : Overdrawn(txns[p])} = {p \in DOMAIN txns : txns[p] \in O}
    BY <1>4 DEF Listed
  <2>2. {p \in DOMAIN txns : Bounced(txns[p])} = {p \in DOMAIN txns : txns[p] \in B}
    BY <1>4 DEF Listed
  <2>3. \A S \in SUBSET DOMAIN txns : Cardinality(S) \in Nat
    BY <1>4, SumsAre
  <2> HIDE DEF O, B
  <2> QED
    BY <2>1, <2>2, <2>3 DEF Count
<1> HIDE DEF O, B
<1> QED
  BY <1>2, <1>3, <1>4 DEF all, alone

Alone(r, i) == [r EXCEPT !.accounts = <<r.accounts[i]>>]

LEMMA ClearedAlone ==
  ASSUME NEW r \in RequestType, NEW i \in DOMAIN r.accounts, KnockoutReason(r) = "none"
  PROVE  KnockoutReason(Alone(r, i)) = "none"
<1> DEFINE q == Alone(r, i)
           accounts == r.accounts
           one == <<accounts[i]>>
           policy == Policy(r)
<1>1. accounts \in Seq(AccountType) /\ policy \in PolicyType
  BY PolicyIs DEF RequestType
<1>2. /\ q.accounts = one /\ q.name = r.name /\ q.bvn = r.bvn
      /\ q.credit_history = r.credit_history /\ q.policy = r.policy
  BY DEF Alone, RequestType
<1>3. Policy(q) = policy
  BY <1>2 DEF Policy
<1>4. one \in Seq(AccountType) /\ DOMAIN one = {1} /\ one[1] = accounts[i]
  <2>1. accounts[i] \in AccountType
    BY <1>1, ElementsAre
  <2> QED
    BY <2>1
<1>5. /\ CheckIdentity(accounts, r.name, r.bvn) = "none"
      /\ CheckFraudSignals(accounts) = "none"
      /\ CheckActiveDefaults(r.credit_history, policy) = "none"
      /\ CheckAccountHealth(accounts, policy) = "none"
      /\ CheckIncomeDisqualifiers(accounts, policy) = "none"
  BY KnockoutNone
<1>6. /\ CheckIdentity(one, r.name, r.bvn) = "none"
      /\ CheckFraudSignals(one) = "none"
      /\ CheckIncomeDisqualifiers(one, policy) = "none"
  <2>1. /\ IdentityRule(accounts[i], r.name, r.bvn) = "none"
        /\ FraudRule(accounts[i]) = "none" /\ IncomeRule(accounts[i], policy) = "none"
    BY <1>1, <1>5, EachAccount
  <2> HIDE DEF one, policy
  <2> QED
    BY <1>4, <2>1, EachAccount
<1>7. CheckAccountHealth(one, policy) = "none"
  <2> DEFINE all == AllTransactions(accounts)
             alone == AllTransactions(one)
  <2>1. /\ AgeRule(accounts[i], policy) = "none"
        /\ ~(Count(Overdrawn, all) > policy.max_overdrafts)
        /\ ~(Count(Bounced, all) > policy.max_bounced_payments)
    BY <1>1, <1>5, HealthNone
  <2>2. policy.max_overdrafts \in Nat /\ policy.max_bounced_payments \in Nat
    BY <1>1, PolicyFields
  <2>3. /\ Count(Overdrawn, alone) \in Nat /\ Count(Overdrawn, all) \in Nat
        /\ Count(Overdrawn, alone) <= Count(Overdrawn, all)
        /\ Count(Bounced, alone) \in Nat /\ Count(Bounced, all) \in Nat
        /\ Count(Bounced, alone) <= Count(Bounced, all)
    BY <1>1, MarksAlone
  <2> HIDE DEF one, policy, all
  <2>4. ~(Count(Overdrawn, alone) > policy.max_overdrafts)
          /\ ~(Count(Bounced, alone) > policy.max_bounced_payments)
    BY <2>1, <2>2, <2>3
  <2> QED
    BY <1>4, <2>1, <2>4, HealthNone
<1> QED
  BY <1>2, <1>3, <1>5, <1>6, <1>7, KnockoutNone

(* An application that one of its accounts alone would knock out is knocked  *)
(* out, whatever else is linked.                                             *)
THEOREM LinkingCorrect == Spec => []LinkingMoreNeverClears
<1>1. EngineInv => LinkingMoreNeverClears
  <2> SUFFICES ASSUME EngineInv, KnockoutReason(request) = "none",
                      NEW i \in DOMAIN request.accounts
               PROVE  KnockoutReason(Alone(request, i)) = "none"
    BY DEF LinkingMoreNeverClears, Alone
  <2>1. request \in RequestType
    BY RequestsAssumption DEF EngineInv
  <2> QED
    BY <2>1, ClearedAlone
<1> QED
  BY <1>1, EngineStep, PTL

-----------------------------------------------------------------------------
(* Cleaning up one transaction.  Its balance and its words are all that      *)
(* changes, so the incomes, the cash flow and the age are what they were     *)
(* and the marks that cost points are no more.                               *)
LEMMA CleanedIs ==
  ASSUME NEW r \in RequestType, NEW i \in DOMAIN r.accounts,
         NEW k \in DOMAIN r.accounts[i].transactions
  PROVE  LET accounts == r.accounts
             cleaned  == Cleaned(r, i, k).accounts
         IN  /\ DOMAIN cleaned = DOMAIN accounts
             /\ \A j \in DOMAIN accounts :
                   /\ cleaned[j].income = accounts[j].income
                   /\ cleaned[j].insights = accounts[j].insights
                   /\ DOMAIN cleaned[j].transactions = DOMAIN accounts[j].transactions
                   /\ \A n \in DOMAIN accounts[j].transactions :
                         cleaned[j].transactions[n] =
                            IF j = i /\ n = k THEN Unmarked(accounts[j].transactions[n])
                            ELSE accounts[j].transactions[n]
             /\ Cleaned(r, i, k).credit_history = r.credit_history
             /\ Cleaned(r, i, k).loan_amount = r.loan_amount
             /\ Cleaned(r, i, k).tenor_months = r.tenor_months
             /\ Cleaned(r, i, k).interest_rate = r.interest_rate
             /\ Cleaned(r, i, k) \in RequestType
<1> DEFINE A == r.accounts
           T == A[i].transactions
           U == [T EXCEPT ![k] = Unmarked(@)]
           a == [A[i] EXCEPT !.transactions = U]
           B == [A EXCEPT ![i] = a]
           q == Cleaned(r, i, k)
<1>1. A \in Seq(AccountType) /\ A[i] \in AccountType /\ T \in Seq(TransactionType)
  <2>1. A \in Seq(AccountType)
    BY DEF RequestType
  <2>2. A[i] \in AccountType
    BY <2>1, ElementsAre
  <2> QED
    BY <2>1, <2>2, AccountIs
<1>2. q = [r EXCEPT !.accounts = B]
  BY DEF Cleaned
<1>3. /\ q.accounts = B /\ q.credit_history = r.credit_history
      /\ q.loan_amount = r.loan_amount
      /\ q.tenor_months = r.tenor_months
      /\ q.interest_rate = r.interest_rate
  BY <1>2 DEF RequestType
<1>4. ASSUME NEW t \in TransactionType PROVE Unmarked(t) \in TransactionType
  <2>1. t.balance \in Int /\ t.words \in SUBSET STRING
    BY DEF TransactionType
  <2> DEFINE b == Most(t.balance, 1)
             w == t.words \ {"bounced", "failed debit"}
  <2>2. b \in Int
    BY <2>1 DEF Most
  <2>a. w \in SUBSET STRING
    BY <2>1, Zenon
  <2>3. Unmarked(t) = [t EXCEPT !.balance = b, !.words = w]
    BY DEF Unmarked
  <2> HIDE DEF b, w
  <2> QED
    BY <2>2, <2>a, <2>3 DEF TransactionType
<1>5. U \in Seq(TransactionType) /\ DOMAIN U = DOMAIN T
        /\ \A n \in DOMAIN T : U[n] = IF n = k THEN Unmarked(T[n]) ELSE T[n]
  <2>1. k \in DOMAIN T /\ T[k] \in TransactionType
    BY <1>1, ElementsAre
  <2>2. Unmarked(T[k]) \in TransactionType
    BY <1>4, <2>1
  <2>3. U = [T EXCEPT ![k] = Unmarked(T[k])]
    OBVIOUS
  <2> HIDE DEF T, U
  <2> QED
    BY <1>1, <2>1, <2>2, <2>3
<1>6. /\ a \in AccountType /\ a.income = A[i].income /\ a.insights = A[i].insights
      /\ a.transactions = U
  <2> HIDE DEF A, U
  <2> QED
    BY <1>1, <1>5 DEF AccountType
<1>7. B \in Seq(AccountType) /\ DOMAIN B = DOMAIN A
        /\ \A j \in DOMAIN A : B[j] = IF j = i THEN a ELSE A[j]
  <2> HIDE DEF a
  <2> QED
    BY <1>1, <1>6
<1>8. q \in RequestType
  <2> HIDE DEF B, q
  <2> QED
    BY <1>2, <1>7 DEF RequestType
<1> HIDE DEF q, B, a, U
<1>9. ASSUME NEW j \in DOMAIN A
      PROVE /\ B[j].income = A[j].income
            /\ B[j].insights = A[j].insights
            /\ DOMAIN B[j].transactions = DOMAIN A[j].transactions
            /\ \A n \in DOMAIN A[j].transactions :
                  B[j].transactions[n] = IF j = i /\ n = k THEN Unmarked(A[j].transactions[n])
                                         ELSE A[j].transactions[n]
  <2>1. CASE j = i
    BY <1>5, <1>6, <1>7, <2>1
  <2>2. CASE j # i
    BY <1>7, <2>2
  <2> QED
    BY <2>1, <2>2
<1> QED
  BY <1>3, <1>7, <1>8, <1>9 DEF q

(* The same transactions but for balances that are higher and marks that     *)
(* are fewer.                                                                *)
Alike(f, g) ==
    /\ DOMAIN g = DOMAIN f
    /\ \A p \in DOMAIN f :
          /\ g[p].type = f[p].type /\ g[p].amount = f[p].amount /\ g[p].month = f[p].month
          /\ "salary" \in g[p].words <=> "salary" \in f[p].words
          /\ "risky" \in g[p].words <=> "risky" \in f[p].words
          /\ f[p].balance \in Int /\ g[p].balance \in Int /\ f[p].balance <= g[p].balance
          /\ g[p].words \subseteq f[p].words

LEMMA CleanedAlike ==
  ASSUME NEW r \in RequestType, NEW i \in DOMAIN r.accounts,
         NEW k \in DOMAIN r.accounts[i].transactions
  PROVE  Alike(AllTransactions(r.accounts), AllTransactions(Cleaned(r, i, k).accounts))
<1> DEFINE A == r.accounts
           B == Cleaned(r, i, k).accounts
           f == AllTransactions(A)
           g == AllTransactions(B)
<1>1. /\ DOMAIN B = DOMAIN A
      /\ \A j \in DOMAIN A :
            /\ DOMAIN B[j].transactions = DOMAIN A[j].transactions
            /\ \A n \in DOMAIN A[j].transactions :
                  B[j].transactions[n] = IF j = i /\ n = k THEN Unmarked(A[j].transactions[n])
                                         ELSE A[j].transactions[n]
  BY CleanedIs
<1>2. A \in Seq(AccountType)
  BY DEF RequestType
<1> HIDE DEF A, B
<1>3. AllPlaces(B) = AllPlaces(A)
  BY <1>1 DEF AllPlaces
<1>4. /\ DOMAIN f = AllPlaces(A) /\ DOMAIN g = AllPlaces(A)
      /\ \A p \in AllPlaces(A) : f[p] \in TransactionType
  BY <1>2, <1>3, TransactionsAre DEF AllTransactions
<1>5. ASSUME NEW p \in AllPlaces(A) PROVE g[p] = f[p] \/ g[p] = Unmarked(f[p])
  <2>1. p[1] \in DOMAIN A /\ p[2] \in DOMAIN A[p[1]].transactions
    BY <1>2, PlacesAre
  <2>2. f[p] = A[p[1]].transactions[p[2]] /\ g[p] = B[p[1]].transactions[p[2]]
    BY <1>3 DEF AllTransactions
  <2> QED
    BY <1>1, <2>1, <2>2
<1> HIDE DEF f, g
<1>6. ASSUME NEW t \in TransactionType, NEW u, u = t \/ u = Unmarked(t)
      PROVE  /\ u.type = t.type /\ u.amount = t.amount /\ u.month = t.month
             /\ "salary" \in u.words <=> "salary" \in t.words
             /\ "risky" \in u.words <=> "risky" \in t.words
             /\ t.balance \in Int /\ u.balance \in Int /\ t.balance <= u.balance
             /\ u.words \subseteq t.words
  <2>1. /\ Unmarked(t).type = t.type /\ Unmarked(t).amount = t.amount
        /\ Unmarked(t).month = t.month
        /\ Unmarked(t).balance = Most(t.balance, 1)
        /\ Unmarked(t).words = t.words \ {"bounced", "failed debit"}
    BY DEF Unmarked, TransactionType
  <2>2. t.balance \in Int
    BY DEF TransactionType
  <2>3. Most(t.balance, 1) \in Int /\ t.balance <= Most(t.balance, 1)
    BY <2>2 DEF Most
  <2>4. CASE u = t
    BY <2>2, <2>4
  <2>5. CASE u = Unmarked(t)
    <3> DEFINE marks == {"bounced", "failed debit"}
    <3>1. "salary" \notin marks /\ "risky" \notin marks
      OBVIOUS
    <3>2. u.words = t.words \ marks
      BY <2>1, <2>5
    <3> HIDE DEF marks
    <3>3. /\ "salary" \in u.words <=> "salary" \in t.words
          /\ "risky" \in u.words <=> "risky" \in t.words
          /\ u.words \subseteq t.words
      BY <3>1, <3>2, Zenon
    <3> QED
      BY <2>1, <2>2, <2>3, <2>5, <3>3
  <2> QED
    BY <1>6, <2>4, <2>5
<1> QED
  BY <1>4, <1>5, <1>6 DEF Alike, f, g, A, B

(* What is picked and summed is the same in both. *)
LEMMA AlikePicks ==
  ASSUME NEW f, NEW g, Alike(f, g)
  PROVE  /\ Credits(g) = Credits(f) /\ Debits(g) = Debits(f)
         /\ Credits(f) \in SUBSET DOMAIN f /\ Debits(f) \in SUBSET DOMAIN f
         /\ {p \in Credits(g) : "salary" \in g[p].words}
              = {p \in Credits(f) : "salary" \in f[p].words}
BY DEF Alike, Credits, Debits

LEMMA AlikeSums ==
  ASSUME NEW f, NEW g, Alike(f, g), NEW S \in SUBSET DOMAIN f
  PROVE  /\ MonthsOf(g, S) = MonthsOf(f, S)
         /\ Sum(g, S) = Sum(f, S)
         /\ \A m : In(g, S, m) = In(f, S, m)
         /\ MonthlyMean(g, S) = MonthlyMean(f, S)
<1>1. \A p \in S : g[p].amount = f[p].amount /\ g[p].month = f[p].month
  BY DEF Alike
<1>2. MonthsOf(g, S) = MonthsOf(f, S)
  BY <1>1 DEF MonthsOf
<1>3. ASSUME NEW U \in SUBSET S PROVE Sum(g, U) = Sum(f, U)
  <2>1. [p \in U |-> g[p].amount] = [p \in U |-> f[p].amount]
    BY <1>1
  <2> QED
    BY <2>1 DEF Sum
<1>4. ASSUME NEW m PROVE In(g, S, m) = In(f, S, m)
  <2>1. {p \in S : g[p].month = m} = {p \in S : f[p].month = m}
    BY <1>1
  <2> QED
    BY <1>3, <2>1 DEF In
<1> QED
  BY <1>2, <1>3, <1>4 DEF MonthlyMean

(* The fallback income as it follows from what is picked and summed.         *)
Fallback(monthly, salaries, total, months) ==
    LET salary == IF salaries = {} THEN 0 ELSE total \div Cardinality(salaries)
        ratio  == IF monthly > 0 THEN Percent(salary, monthly) ELSE 0
    IN  [total_monthly_income |-> monthly,
         stable_income_ratio  |-> ratio,
         income_stream_count  |-> IF salaries = {} THEN 0 ELSE 1,
         avg_income_stability |-> IF salaries = {} THEN 0 ELSE 50,
         income_recency_days  |-> IF salaries = {} THEN 999 ELSE 30 * Min(months),
         income_is_growing    |-> FALSE,
         income_regular_ratio |-> ratio]

LEMMA AlikeIncome ==
  ASSUME NEW f, NEW g, Alike(f, g)
  PROVE  IncomeFromTransactions(g) = IncomeFromTransactions(f)
<1> DEFINE salaries(t) == {p \in Credits(t) : "salary" \in t[p].words}
           body(t) == Fallback(MonthlyMean(t, Credits(t)), salaries(t),
                               Sum(t, salaries(t)), MonthsOf(t, salaries(t)))
<1>1. IncomeFromTransactions(f) = body(f) /\ IncomeFromTransactions(g) = body(g)
  BY DEF IncomeFromTransactions, Fallback
<1>2. Credits(g) = Credits(f) /\ salaries(g) = salaries(f)
  BY AlikePicks
<1>3. Credits(f) \in SUBSET DOMAIN f /\ salaries(f) \in SUBSET DOMAIN f
  BY AlikePicks
<1>4. /\ MonthlyMean(g, Credits(f)) = MonthlyMean(f, Credits(f))
      /\ Sum(g, salaries(f)) = Sum(f, salaries(f))
      /\ MonthsOf(g, salaries(f)) = MonthsOf(f, salaries(f))
  BY <1>3, AlikeSums
<1> HIDE DEF salaries
<1> QED
  BY <1>1, <1>2, <1>4

Spread(n, total, squares) ==
    IF n <= 1 \/ total <= 0 THEN 0
    ELSE Min({10} \cup {v \in 0..10 :
                 v * v * (n - 1) * total * total >= 100 * n * (n * squares - total * total)})

LEMMA AlikeVolatility ==
  ASSUME NEW f, NEW g, Alike(f, g)
  PROVE  Volatility(g) = Volatility(f)
<1> DEFINE months(t) == MonthsOf(t, Debits(t))
           squares(t) == [m \in months(t) |-> In(t, Debits(t), m) * In(t, Debits(t), m)]
           body(t) == Spread(Cardinality(months(t)), Sum(t, Debits(t)), SumFunction(squares(t)))
<1>1. Volatility(f) = body(f) /\ Volatility(g) = body(g)
  BY DEF Volatility, Spread
<1>2. Debits(g) = Debits(f) /\ Debits(f) \in SUBSET DOMAIN f
  BY AlikePicks
<1>3. /\ months(g) = months(f) /\ Sum(g, Debits(g)) = Sum(f, Debits(f))
      /\ \A m : In(g, Debits(g), m) = In(f, Debits(f), m)
  BY <1>2, AlikeSums
<1>4. squares(g) = squares(f)
  BY <1>3
<1> HIDE DEF months, squares
<1> QED
  BY <1>1, <1>3, <1>4

Flow(months, inflow, outflow, positive, stated, volatility) ==
    IF months = {}
    THEN [monthly_avg_credits |-> 0, surplus_ratio |-> 0,
          positive_cash_flow_ratio |-> 0, debit_to_credit_ratio |-> 99900,
          spending_volatility |-> 10]
    ELSE [monthly_avg_credits |-> inflow,
          surplus_ratio |-> IF inflow > 0 THEN Percent(inflow - outflow, inflow) ELSE 0,
          positive_cash_flow_ratio |-> Percent(Cardinality(positive), Cardinality(months)),
          debit_to_credit_ratio |-> IF stated # Nil THEN stated
                                    ELSE IF inflow > 0 THEN PercentUp(outflow, inflow)
                                    ELSE 99900,
          spending_volatility |-> volatility]

LEMMA AlikeCashFlow ==
  ASSUME NEW f, NEW g, Alike(f, g), NEW accounts, NEW others,
         StatementRatio(others) = StatementRatio(accounts)
  PROVE  CashFlow(g, others) = CashFlow(f, accounts)
<1> DEFINE months(t) == MonthsOf(t, Credits(t) \cup Debits(t))
           positive(t) == {m \in months(t) : In(t, Credits(t), m) > In(t, Debits(t), m)}
           body(t, a) == Flow(months(t), MonthlyMean(t, Credits(t)), MonthlyMean(t, Debits(t)),
                              positive(t), StatementRatio(a), Volatility(t))
<1>1. CashFlow(f, accounts) = body(f, accounts) /\ CashFlow(g, others) = body(g, others)
  BY DEF CashFlow, Flow
<1>2. /\ Credits(g) = Credits(f) /\ Debits(g) = Debits(f)
      /\ Credits(f) \in SUBSET DOMAIN f /\ Debits(f) \in SUBSET DOMAIN f
      /\ Credits(f) \cup Debits(f) \in SUBSET DOMAIN f
  BY AlikePicks
<1>3. /\ months(g) = months(f)
      /\ MonthlyMean(g, Credits(g)) = MonthlyMean(f, Credits(f))
      /\ MonthlyMean(g, Debits(g)) = MonthlyMean(f, Debits(f))
      /\ \A m : In(g, Credits(g), m) = In(f, Credits(f), m)
      /\ \A m : In(g, Debits(g), m) = In(f, Debits(f), m)
  <2>1. MonthsOf(g, Credits(f) \cup Debits(f)) = MonthsOf(f, Credits(f) \cup Debits(f))
    BY <1>2, AlikeSums
  <2>2. /\ MonthlyMean(g, Credits(f)) = MonthlyMean(f, Credits(f))
        /\ \A m : In(g, Credits(f), m) = In(f, Credits(f), m)
    BY <1>2, AlikeSums
  <2>3. /\ MonthlyMean(g, Debits(f)) = MonthlyMean(f, Debits(f))
        /\ \A m : In(g, Debits(f), m) = In(f, Debits(f), m)
    BY <1>2, AlikeSums
  <2> QED
    BY <1>2, <2>1, <2>2, <2>3
<1>4. positive(g) = positive(f)
  BY <1>3
<1>5. Volatility(g) = Volatility(f)
  BY AlikeVolatility
<1> HIDE DEF months, positive
<1> QED
  BY <1>1, <1>3, <1>4, <1>5

(* The marks that are counted are no more. *)
LEMMA AlikeMarks ==
  ASSUME NEW f, NEW g, Alike(f, g), IsFiniteSet(DOMAIN f),
         NEW accounts, NEW others, AccountAge(g, others) = AccountAge(f, accounts),
         NEW a, a = AccountBehaviour(f, accounts), NEW b, b = AccountBehaviour(g, others)
  PROVE  /\ b.account_age_months = a.account_age_months
         /\ b.high_risk_transaction_count = a.high_risk_transaction_count
         /\ b.overdraft_count <= a.overdraft_count
         /\ b.bounced_payment_count <= a.bounced_payment_count
         /\ b.days_below_1000_ngn <= a.days_below_1000_ngn
<1> DEFINE D == DOMAIN f
           marks == {"bounced", "failed debit"}
<1>1. DOMAIN g = D
  BY DEF Alike
<1>2. ASSUME NEW S \in SUBSET D, NEW U \in SUBSET S PROVE Cardinality(U) <= Cardinality(S)
  <2>1. IsFiniteSet(S)
    BY FS_Subset
  <2> QED
    BY <2>1, FS_Subset
<1>3. /\ a.account_age_months = AccountAge(f, accounts)
      /\ a.overdraft_count = Cardinality({p \in D : f[p].balance < 0})
      /\ a.bounced_payment_count = Cardinality({p \in D : f[p].words \cap marks # {}})
      /\ a.high_risk_transaction_count = Cardinality({p \in D : "risky" \in f[p].words})
      /\ a.days_below_1000_ngn = Cardinality({p \in D : f[p].balance < 1})
  BY DEF AccountBehaviour, Count
<1>4. /\ b.account_age_months = AccountAge(g, others)
      /\ b.overdraft_count = Cardinality({p \in D : g[p].balance < 0})
      /\ b.bounced_payment_count = Cardinality({p \in D : g[p].words \cap marks # {}})
      /\ b.high_risk_transaction_count = Cardinality({p \in D : "risky" \in g[p].words})
      /\ b.days_below_1000_ngn = Cardinality({p \in D : g[p].balance < 1})
  BY <1>1 DEF AccountBehaviour, Count
<1> HIDE DEF marks
<1>5. {p \in D : "risky" \in g[p].words} = {p \in D : "risky" \in f[p].words}
  BY DEF Alike
<1>6. /\ {p \in D : g[p].balance < 0} \in SUBSET {p \in D : f[p].balance < 0}
      /\ {p \in D : g[p].balance < 1} \in SUBSET {p \in D : f[p].balance < 1}
  BY DEF Alike
<1>7. {p \in D : g[p].words \cap marks # {}} \in SUBSET {p \in D : f[p].words \cap marks # {}}
  BY Zenon DEF Alike
<1> DEFINE over(t) == {p \in D : t[p].balance < 0}
           low(t) == {p \in D : t[p].balance < 1}
           bounced(t) == {p \in D : t[p].words \cap marks # {}}
<1>8. /\ Cardinality(over(g)) <= Cardinality(over(f))
      /\ Cardinality(low(g)) <= Cardinality(low(f))
      /\ Cardinality(bounced(g)) <= Cardinality(bounced(f))
  <2>1. over(f) \in SUBSET D /\ low(f) \in SUBSET D /\ bounced(f) \in SUBSET D
    OBVIOUS
  <2>2. over(g) \in SUBSET over(f) /\ low(g) \in SUBSET low(f)
          /\ bounced(g) \in SUBSET bounced(f)
    BY <1>6, <1>7
  <2> HIDE DEF over, low, bounced
  <2> QED
    BY <1>2, <2>1, <2>2
<1> QED
  BY <1>3, <1>4, <1>5, <1>8

-----------------------------------------------------------------------------
(* Accounts with the same incomes and the same statements. *)
Kin(A, B) ==
    /\ DOMAIN B = DOMAIN A /\ DOMAIN A \subseteq Nat
    /\ \A j \in DOMAIN A : B[j].income = A[j].income /\ B[j].insights = A[j].insights

LEMMA KinAre ==
  ASSUME NEW A, NEW B, Kin(A, B)
  PROVE  /\ BestIncome(B) = BestIncome(A)
         /\ StatementRatio(B) = StatementRatio(A)
         /\ RecurringDebt(B) = RecurringDebt(A)
<1> DEFINE earning(a) == {i \in DOMAIN a : a[i].income # Nil /\ a[i].income.monthly > 0}
           best(a) == {i \in earning(a) : \A j \in earning(a) :
                          a[i].income.monthly >= a[j].income.monthly}
           stating(a) == {i \in DOMAIN a : a[i].insights # Nil /\ a[i].insights.ratio # Nil}
<1>1. BestIncome(B) = BestIncome(A)
  <2>1. earning(B) = earning(A)
    BY DEF Kin
  <2>2. best(B) = best(A)
    BY <2>1 DEF Kin
  <2>3. BestIncome(A) = (IF best(A) = {} THEN Nil ELSE A[Min(best(A))].income)
          /\ BestIncome(B) = (IF best(B) = {} THEN Nil ELSE B[Min(best(B))].income)
    BY DEF BestIncome
  <2>4. best(A) # {} => Min(best(A)) \in DOMAIN A
    <3>1. best(A) \subseteq Nat /\ best(A) \subseteq DOMAIN A
      BY DEF Kin
    <3> HIDE DEF best
    <3> QED
      BY <3>1, MinIs
  <2> HIDE DEF best
  <2> QED
    BY <2>2, <2>3, <2>4 DEF Kin
<1>2. StatementRatio(B) = StatementRatio(A)
  <2>1. stating(B) = stating(A)
    BY DEF Kin
  <2>2. StatementRatio(A)
            = (IF stating(A) = {} THEN Nil ELSE A[Min(stating(A))].insights.ratio)
          /\ StatementRatio(B)
            = (IF stating(B) = {} THEN Nil ELSE B[Min(stating(B))].insights.ratio)
    BY DEF StatementRatio
  <2>3. stating(A) # {} => Min(stating(A)) \in DOMAIN A
    <3>1. stating(A) \subseteq Nat /\ stating(A) \subseteq DOMAIN A
      BY DEF Kin
    <3> HIDE DEF stating
    <3> QED
      BY <3>1, MinIs
  <2> HIDE DEF stating
  <2> QED
    BY <2>1, <2>2, <2>3 DEF Kin
<1>3. RecurringDebt(B) = RecurringDebt(A)
  <2>1. \A i \in DOMAIN A : RepaidMonthly(B[i]) = RepaidMonthly(A[i])
    BY DEF Kin, RepaidMonthly
  <2> QED
    BY <2>1 DEF RecurringDebt, Kin
<1> QED
  BY <1>1, <1>2, <1>3

LEMMA AgeAlike ==
  ASSUME NEW A, NEW B, Kin(A, B), NEW f, NEW g, Alike(f, g)
  PROVE  AccountAge(g, B) = AccountAge(f, A)
<1> DEFINE stating(a) == {i \in DOMAIN a : /\ a[i].insights # Nil /\ a[i].insights.age # Nil
                                          /\ a[i].insights.age > 0}
           ages(a) == {a[i].insights.age : i \in stating(a)}
<1>1. stating(B) = stating(A)
  BY DEF Kin
<1>2. ages(B) = ages(A)
  BY <1>1 DEF Kin
<1>3. MonthsOf(g, DOMAIN g) = MonthsOf(f, DOMAIN f)
  BY DEF Alike, MonthsOf
<1> DEFINE body(a, t) == IF stating(a) # {} THEN Max(ages(a)) \div 30
                         ELSE IF MonthsOf(t, DOMAIN t) = {} \/ 0 \in MonthsOf(t, DOMAIN t) THEN 0
                         ELSE Max(MonthsOf(t, DOMAIN t))
<1>4. AccountAge(g, B) = body(B, g) /\ AccountAge(f, A) = body(A, f)
  BY DEF AccountAge
<1> HIDE DEF stating, ages
<1> QED
  BY <1>1, <1>2, <1>3, <1>4

-----------------------------------------------------------------------------
(* Cleaning a transaction changes nothing but the counts of its marks.       *)
LEMMA CleanedFeatures ==
  ASSUME NEW r \in RequestType, NEW i \in DOMAIN r.accounts,
         NEW k \in DOMAIN r.accounts[i].transactions
  PROVE  LET f == Extract(r)
             g == Extract(Cleaned(r, i, k))
         IN  /\ \A n \in IncomeFields \cup CashFields \cup BureauFields : g[n] = f[n]
             /\ g.recurring_debt_monthly = f.recurring_debt_monthly
             /\ g.is_thin_file = f.is_thin_file
             /\ g.account_age_months = f.account_age_months
             /\ g.high_risk_transaction_count = f.high_risk_transaction_count
             /\ g.overdraft_count <= f.overdraft_count
             /\ g.bounced_payment_count <= f.bounced_payment_count
             /\ g.days_below_1000_ngn <= f.days_below_1000_ngn
<1> DEFINE q == Cleaned(r, i, k)
           A == r.accounts
           B == q.accounts
           s == AllTransactions(A)
           t == AllTransactions(B)
           a == AccountBehaviour(s, A)
           b == AccountBehaviour(t, B)
           f == Extract(r)
           g == Extract(q)
<1>1. A \in Seq(AccountType) /\ q.credit_history = r.credit_history
  BY CleanedIs DEF RequestType
<1>2. Kin(A, B)
  <2>1. DOMAIN A \subseteq Nat
    BY <1>1, ElementsAre
  <2> QED
    BY <2>1, CleanedIs DEF Kin
<1>3. Alike(s, t)
  BY CleanedAlike
<1>4. IsFiniteSet(DOMAIN s)
  BY <1>1, TransactionsAre
<1> DEFINE earned == IncomeFeatures(A, BestIncome(A))
           earns == IncomeFeatures(B, BestIncome(B))
<1>5. /\ \A n \in IncomeFields : f[n] = earned[n]
      /\ \A n \in CashFields : f[n] = CashFlow(s, A)[n]
      /\ \A n \in BureauFields : f[n] = CreditHistory(r.credit_history)[n]
      /\ \A n \in AccountFields : f[n] = a[n]
      /\ f.recurring_debt_monthly = RecurringDebt(A)
      /\ f.is_thin_file = IsThinFile(r.credit_history)
  BY ExtractIs
<1>6. /\ \A n \in IncomeFields : g[n] = earns[n]
      /\ \A n \in CashFields : g[n] = CashFlow(t, B)[n]
      /\ \A n \in BureauFields : g[n] = CreditHistory(q.credit_history)[n]
      /\ \A n \in AccountFields : g[n] = b[n]
      /\ g.recurring_debt_monthly = RecurringDebt(B)
      /\ g.is_thin_file = IsThinFile(q.credit_history)
  BY ExtractIs
<1>7. /\ BestIncome(B) = BestIncome(A) /\ StatementRatio(B) = StatementRatio(A)
      /\ RecurringDebt(B) = RecurringDebt(A)
  BY <1>2, KinAre
<1> HIDE DEF A, B, q
<1>8. IncomeFromTransactions(t) = IncomeFromTransactions(s)
  BY <1>3, AlikeIncome
<1>9. earns = earned
  BY <1>7, <1>8 DEF IncomeFeatures
<1> HIDE DEF s, t, earned, earns
<1>10. CashFlow(t, B) = CashFlow(s, A)
  BY <1>3, <1>7, AlikeCashFlow
<1>11. AccountAge(t, B) = AccountAge(s, A)
  BY <1>2, <1>3, AgeAlike
<1>12. /\ b.account_age_months = a.account_age_months
       /\ b.high_risk_transaction_count = a.high_risk_transaction_count
       /\ b.overdraft_count <= a.overdraft_count
       /\ b.bounced_payment_count <= a.bounced_payment_count
       /\ b.days_below_1000_ngn <= a.days_below_1000_ngn
  BY <1>3, <1>4, <1>11, AlikeMarks
<1> HIDE DEF a, b
<1>13. \A n \in AccountFields : f[n] = a[n] /\ g[n] = b[n]
  BY <1>5, <1>6
<1>14. /\ g.account_age_months = f.account_age_months
       /\ g.high_risk_transaction_count = f.high_risk_transaction_count
       /\ g.overdraft_count <= f.overdraft_count
       /\ g.bounced_payment_count <= f.bounced_payment_count
       /\ g.days_below_1000_ngn <= f.days_below_1000_ngn
  BY <1>12, <1>13 DEF AccountFields
<1>15. \A n \in IncomeFields \cup CashFields \cup BureauFields : g[n] = f[n]
  BY <1>1, <1>5, <1>6, <1>9, <1>10
<1>16. /\ g.recurring_debt_monthly = f.recurring_debt_monthly
       /\ g.is_thin_file = f.is_thin_file
  BY <1>1, <1>5, <1>6, <1>7
<1> HIDE DEF f, g
<1> QED
  BY <1>14, <1>15, <1>16 DEF f, g, q

LEMMA FewerMarksScoreMore ==
  ASSUME NEW f, Numeric(f), NEW g, Numeric(g),
         g.account_age_months = f.account_age_months,
         g.high_risk_transaction_count = f.high_risk_transaction_count,
         g.overdraft_count <= f.overdraft_count,
         g.bounced_payment_count <= f.bounced_payment_count,
         g.days_below_1000_ngn <= f.days_below_1000_ngn
  PROVE  ScoreAccountBehavior(f) <= ScoreAccountBehavior(g)
<1>1. Discipline(f) \in Int /\ Discipline(g) \in Int /\ Discipline(f) <= Discipline(g)
  BY DEF Discipline, Most, Numeric
<1>2. /\ AtMost(f.days_below_1000_ngn, LowRows, 0) \in Int
      /\ AtMost(g.days_below_1000_ngn, LowRows, 0) \in Int
      /\ AtMost(f.days_below_1000_ngn, LowRows, 0) <= AtMost(g.days_below_1000_ngn, LowRows, 0)
  <2>1. f.days_below_1000_ngn \in Int /\ g.days_below_1000_ngn \in Int
    BY DEF Numeric
  <2> QED
    BY <2>1, BehaviourRows, PointsFall, PointsInt
<1>3. /\ AtLeast(f.account_age_months, AgeRows, 5) \in Int
      /\ AtMost(f.high_risk_transaction_count, RiskyRows, 0) \in Int
  BY BehaviourScore
<1>4. /\ ScoreAccountBehavior(f) =
            AtLeast(f.account_age_months, AgeRows, 5) + 100 * Discipline(f)
              + AtMost(f.days_below_1000_ngn, LowRows, 0)
              + AtMost(f.high_risk_transaction_count, RiskyRows, 0)
      /\ ScoreAccountBehavior(g) =
            AtLeast(f.account_age_months, AgeRows, 5) + 100 * Discipline(g)
              + AtMost(g.days_below_1000_ngn, LowRows, 0)
              + AtMost(f.high_risk_transaction_count, RiskyRows, 0)
  BY BehaviourIs
<1> QED
  BY <1>1, <1>2, <1>3, <1>4

LEMMA CleanedScores ==
  ASSUME NEW r \in RequestType, NEW i \in DOMAIN r.accounts,
         NEW k \in DOMAIN r.accounts[i].transactions
  PROVE  ScoreOf(Cleaned(r, i, k), Extract(Cleaned(r, i, k))) >= ScoreOf(r, Extract(r))
<1> DEFINE q == Cleaned(r, i, k)
           f == Extract(r)
           g == Extract(q)
           amount == r.loan_amount
           tenor == r.tenor_months
           rate == r.interest_rate
<1>1. q \in RequestType /\ q.loan_amount = amount /\ q.tenor_months = tenor
        /\ q.interest_rate = rate
  BY CleanedIs
<1>2. Numeric(f) /\ Numeric(g)
  BY <1>1, FeaturesAre
<1>3. /\ \A n \in IncomeFields \cup CashFields \cup BureauFields : g[n] = f[n]
      /\ g.recurring_debt_monthly = f.recurring_debt_monthly
      /\ g.is_thin_file = f.is_thin_file
      /\ g.account_age_months = f.account_age_months
      /\ g.high_risk_transaction_count = f.high_risk_transaction_count
      /\ g.overdraft_count <= f.overdraft_count
      /\ g.bounced_payment_count <= f.bounced_payment_count
      /\ g.days_below_1000_ngn <= f.days_below_1000_ngn
  BY CleanedFeatures
<1> HIDE DEF f, g, q, amount, tenor, rate
<1>4. ScoreAccountBehavior(f) <= ScoreAccountBehavior(g)
  BY <1>2, <1>3, FewerMarksScoreMore
<1>5. ScoreCreditHistory(g) = ScoreCreditHistory(f)
  BY <1>3 DEF ScoreCreditHistory, BureauFields
<1>6. ScoreIncomeStability(g) = ScoreIncomeStability(f)
  BY <1>3 DEF ScoreIncomeStability, IncomeFields
<1>7. ScoreCashFlowHealth(g) = ScoreCashFlowHealth(f)
  BY <1>3 DEF ScoreCashFlowHealth, CashFields
<1>8. SafeIncome(g) = SafeIncome(f)
  BY <1>3 DEF SafeIncome, IncomeFields, CashFields
<1>9. ScoreDebtServiceCapacity(g, amount, tenor, rate)
        = ScoreDebtServiceCapacity(f, amount, tenor, rate)
  BY <1>3, <1>8 DEF ScoreDebtServiceCapacity
<1>10. ASSUME NEW c \in Components
       PROVE  RawScores(f, amount, tenor, rate)[c] <= RawScores(g, amount, tenor, rate)[c]
  <2>1. CASE c = "account_behavior"
    BY <1>4, <2>1 DEF RawScores
  <2>2. CASE c # "account_behavior"
    <3>1. RawScores(g, amount, tenor, rate)[c] = RawScores(f, amount, tenor, rate)[c]
      BY <1>5, <1>6, <1>7, <1>9, <2>2 DEF RawScores, Components
    <3> QED
      BY <1>2, <3>1, RawIs
  <2> QED
    BY <2>1, <2>2
<1>11. /\ Calculate(f, amount, tenor, rate) \in 350 .. 850
       /\ Calculate(g, amount, tenor, rate) \in 350 .. 850
       /\ Calculate(f, amount, tenor, rate) <= Calculate(g, amount, tenor, rate)
  BY <1>2, <1>3, <1>10, ScoreGrows
<1> QED
  BY <1>1, <1>11 DEF ScoreOf, f, g, q, amount, tenor, rate

(* An applicant whose account shows one overdraft or one bounced payment the *)
(* less, all else equal, never scores less for it.                           *)
THEOREM CleanerCorrect == Spec => []CleanerAccountScoresNoLess
<1>1. EngineInv => CleanerAccountScoresNoLess
  <2> SUFFICES ASSUME EngineInv, Decided, NEW i \in DOMAIN request.accounts,
                      NEW k \in DOMAIN request.accounts[i].transactions
               PROVE  ScoreOf(Cleaned(request, i, k), Extract(Cleaned(request, i, k))) >= score
    BY DEF CleanerAccountScoresNoLess
  <2>1. request \in RequestType
    BY RequestsAssumption DEF EngineInv
  <2>2. score = ScoreOf(request, Extract(request))
    BY DEF EngineInv, Decided
  <2> QED
    BY <2>1, <2>2, CleanedScores
<1> QED
  BY <1>1, EngineStep, PTL

-----------------------------------------------------------------------------
(* The pipeline computes Answer, the function by which the properties above  *)
(* compare the answers to two requests.                                      *)
IsAnswered ==
    /\ stage \in {"extract", "score", "decide"} => KnockoutReason(request) = "none"
    /\ stage = "done" => response = Answer(request)

(* A request that is answered at all is answered as Answer says, whatever    *)
(* stage it ends in.                                                         *)
THEOREM AnswerCorrect == Spec => [](stage = "done" => response = Answer(request))
<1>1. Init => IsAnswered
  BY DEF Init, IsAnswered
<1>2. EngineInv /\ IsAnswered /\ [Next]_vars => IsAnswered'
  <2> SUFFICES ASSUME EngineInv, IsAnswered, [Next]_vars PROVE IsAnswered'
    OBVIOUS
  <2> USE DEF IsAnswered, Answer
  <2>1. CASE RunKnockout
    BY <2>1 DEF RunKnockout
  <2>2. CASE RunExtract
    BY <2>2 DEF RunExtract
  <2>3. CASE RunScore
    BY <2>3 DEF RunScore
  <2>4. CASE RunDecide
    BY <2>4 DEF RunDecide, EngineInv
  <2>5. CASE UNCHANGED vars
    BY <2>5 DEF vars
  <2> QED
    BY <2>1, <2>2, <2>3, <2>4, <2>5 DEF Next
<1>3. IsAnswered => (stage = "done" => response = Answer(request))
  BY DEF IsAnswered
<1> QED
  BY <1>1, <1>2, <1>3, EngineStep, PTL DEF Spec
=============================================================================

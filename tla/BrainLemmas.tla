----------------------------- MODULE BrainLemmas -----------------------------
(***************************************************************************)
(* What the brain's operators return, for any request of the right type:   *)
(* sums over finite functions, tables of points, the first rule that       *)
(* fires, and the features.  A recursive function is reasoned about with   *)
(* the least number that has a property, taken from a set.                 *)
(***************************************************************************)
EXTENDS Engine, FiniteSetTheorems, WellFoundedInduction, TLAPS

LEMMA Minimum ==
  ASSUME NEW T, T \subseteq Nat, T # {}
  PROVE  \E x \in T : \A y \in T : x <= y
<1> DEFINE R == OpToRel(<, Nat)
<1>1. IsWellFoundedOn(R, Nat)
  BY NatLessThanWellFounded, Zenon
<1>2. \A x, y \in Nat : <<x, y>> \in R <=> x < y
  BY DEF OpToRel
<1> HIDE DEF R
<1>3. \E x \in T : \A y \in T : ~(<<y, x>> \in R)
  BY <1>1, WFMin, Zenon
<1>4. PICK x \in T : \A y \in T : ~(<<y, x>> \in R)
  BY <1>3
<1>5. ASSUME NEW y \in T PROVE x <= y
  <2>1. x \in Nat /\ y \in Nat
    OBVIOUS
  <2>2. ~(y < x)
    BY <1>2, <1>4, <2>1
  <2> QED
    BY <2>1, <2>2
<1> QED
  BY <1>5

LEMMA MinIs ==
  ASSUME NEW T, T \subseteq Nat, T # {}
  PROVE  Min(T) \in T /\ \A y \in T : Min(T) <= y
BY Minimum DEF Min

-----------------------------------------------------------------------------
(* Sums.  SumFunction adds up one element after another; SumsUp says so for  *)
(* all the subsets of a family that is closed under taking one away.         *)
Pick(s) == CHOOSE x \in s : TRUE

SumsUp(g, f, S) ==
    g = [s \in S |-> IF s = {} THEN 0 ELSE f[Pick(s)] + g[s \ {Pick(s)}]]

Small(D, m) == {s \in SUBSET D : Cardinality(s) <= m}

LEMMA Smaller ==
  ASSUME NEW D, IsFiniteSet(D), NEW s \in SUBSET D
  PROVE  /\ Cardinality(s) \in Nat /\ Cardinality(s) <= Cardinality(D)
         /\ s = {} <=> Cardinality(s) = 0
         /\ s # {} => /\ Pick(s) \in s /\ s \ {Pick(s)} \in SUBSET D
                      /\ Cardinality(s \ {Pick(s)}) = Cardinality(s) - 1
<1>1. IsFiniteSet(s) /\ Cardinality(s) <= Cardinality(D)
  BY FS_Subset
<1>2. Cardinality(s) \in Nat /\ (s = {} <=> Cardinality(s) = 0)
  BY <1>1, FS_CardinalityType, FS_EmptySet
<1>3. s # {} => Pick(s) \in s
  BY DEF Pick
<1>4. Pick(s) \in s => Cardinality(s \ {Pick(s)}) = Cardinality(s) - 1
  BY <1>1, FS_RemoveElement
<1> QED
  BY <1>1, <1>2, <1>3, <1>4

LEMMA SumExists ==
  ASSUME NEW f, NEW D, IsFiniteSet(D)
  PROVE  \A m \in Nat : \E g : SumsUp(g, f, Small(D, m))
<1> DEFINE T == {m \in Nat : ~ \E g : SumsUp(g, f, Small(D, m))}
<1>1. SUFFICES ASSUME T # {} PROVE FALSE
  OBVIOUS
<1>2. PICK m \in T : \A k \in T : m <= k
  BY <1>1, Minimum
<1>3. m # 0
  <2> DEFINE g == [s \in Small(D, 0) |-> 0]
  <2>1. ASSUME NEW s \in SUBSET D, Cardinality(s) <= 0 PROVE s = {}
    <3>1. Cardinality(s) \in Nat /\ (s = {} <=> Cardinality(s) = 0)
      BY Smaller
    <3> QED
      BY <2>1, <3>1
  <2>2. SumsUp(g, f, Small(D, 0))
    BY <2>1 DEF SumsUp, Small
  <2> QED
    BY <1>2, <2>2
<1>4. m \in Nat /\ m - 1 \in Nat /\ m - 1 \notin T
  BY <1>2, <1>3
<1>5. PICK h : SumsUp(h, f, Small(D, m - 1))
  BY <1>4
<1> DEFINE g == [s \in Small(D, m) |-> IF s = {} THEN 0 ELSE f[Pick(s)] + h[s \ {Pick(s)}]]
<1>6. ASSUME NEW s \in Small(D, m), s # {} PROVE g[s \ {Pick(s)}] = h[s \ {Pick(s)}]
  <2> DEFINE t == s \ {Pick(s)}
  <2>1. t \in Small(D, m - 1) /\ t \in Small(D, m)
    BY <1>4, <1>6, Smaller DEF Small
  <2> HIDE DEF t
  <2>2. h[t] = IF t = {} THEN 0 ELSE f[Pick(t)] + h[t \ {Pick(t)}]
    BY <1>5, <2>1 DEF SumsUp
  <2> QED
    BY <2>1, <2>2 DEF t
<1>7. g = [s \in Small(D, m) |-> IF s = {} THEN 0 ELSE f[Pick(s)] + g[s \ {Pick(s)}]]
  <2>1. \A s \in Small(D, m) :
           (IF s = {} THEN 0 ELSE f[Pick(s)] + h[s \ {Pick(s)}])
             = IF s = {} THEN 0 ELSE f[Pick(s)] + g[s \ {Pick(s)}]
    BY <1>6
  <2> QED
    BY <2>1
<1>8. SumsUp(g, f, Small(D, m))
  BY <1>7 DEF SumsUp
<1> QED
  BY <1>2, <1>8

LEMMA SumIs ==
  ASSUME NEW f, IsFiniteSet(DOMAIN f)
  PROVE  \E g : SumsUp(g, f, SUBSET DOMAIN f) /\ SumFunction(f) = g[DOMAIN f]
<1> DEFINE D == DOMAIN f
           iter[s \in SUBSET D] ==
               IF s = {} THEN 0
               ELSE f[CHOOSE x \in s : TRUE] + iter[s \ {CHOOSE x \in s : TRUE}]
<1>1. \E g : SumsUp(g, f, SUBSET D)
  <2>1. Cardinality(D) \in Nat
    BY FS_CardinalityType
  <2>2. ASSUME NEW s \in SUBSET D PROVE Cardinality(s) <= Cardinality(D)
    BY Smaller
  <2>3. Small(D, Cardinality(D)) = SUBSET D
    BY <2>2 DEF Small
  <2>4. \E g : SumsUp(g, f, Small(D, Cardinality(D)))
    BY <2>1, SumExists
  <2> QED
    BY <2>3, <2>4
<1>2. \E g : g = [s \in SUBSET D |->
                    IF s = {} THEN 0
                    ELSE f[CHOOSE x \in s : TRUE] + g[s \ {CHOOSE x \in s : TRUE}]]
  BY <1>1, Zenon DEF SumsUp, Pick
<1>3. iter = [s \in SUBSET D |->
                    IF s = {} THEN 0
                    ELSE f[CHOOSE x \in s : TRUE] + iter[s \ {CHOOSE x \in s : TRUE}]]
  BY <1>2, Zenon
<1>4. SumFunction(f) = iter[D]
  BY Zenon DEF SumFunction, SumFunctionOnSet, FoldFunctionOnSet, MapThenFoldSet
<1> QED
  BY <1>3, <1>4, Zenon DEF SumsUp, Pick

LEMMA SumGrows ==
  ASSUME NEW f, NEW h, DOMAIN f = DOMAIN h, IsFiniteSet(DOMAIN f),
         \A x \in DOMAIN f : f[x] \in Int /\ h[x] \in Int /\ f[x] <= h[x]
  PROVE  SumFunction(f) \in Int /\ SumFunction(h) \in Int /\ SumFunction(f) <= SumFunction(h)
<1> DEFINE D == DOMAIN f
<1>1. PICK a : SumsUp(a, f, SUBSET D) /\ SumFunction(f) = a[D]
  BY SumIs
<1>2. PICK b : SumsUp(b, h, SUBSET D) /\ SumFunction(h) = b[D]
  BY SumIs
<1> DEFINE Good(s) == a[s] \in Int /\ b[s] \in Int /\ a[s] <= b[s]
           T == {n \in Nat : \E s \in SUBSET D : Cardinality(s) = n /\ ~Good(s)}
<1>3. SUFFICES ASSUME T # {} PROVE FALSE
  <2>1. Cardinality(D) \in Nat
    BY FS_CardinalityType
  <2>2. T = {} => Good(D)
    BY <2>1
  <2> QED
    BY <1>1, <1>2, <2>2
<1>4. PICK n \in T : \A k \in T : n <= k
  <2>1. T \subseteq Nat
    OBVIOUS
  <2> HIDE DEF T
  <2> QED
    BY <1>3, <2>1, Minimum
<1>5. PICK s \in SUBSET D : Cardinality(s) = n /\ ~Good(s)
  BY <1>4
<1>6. /\ a[s] = IF s = {} THEN 0 ELSE f[Pick(s)] + a[s \ {Pick(s)}]
      /\ b[s] = IF s = {} THEN 0 ELSE h[Pick(s)] + b[s \ {Pick(s)}]
  BY <1>1, <1>2 DEF SumsUp
<1>7. s # {}
  BY <1>5, <1>6
<1>8. Pick(s) \in D /\ s \ {Pick(s)} \in SUBSET D /\ Cardinality(s \ {Pick(s)}) = n - 1
        /\ n \in Nat /\ n - 1 \in Nat
  BY <1>5, <1>7, Smaller
<1>9. Good(s \ {Pick(s)})
  BY <1>4, <1>8
<1>10. f[Pick(s)] \in Int /\ h[Pick(s)] \in Int /\ f[Pick(s)] <= h[Pick(s)]
  BY <1>8
<1> DEFINE x == f[Pick(s)]
           y == h[Pick(s)]
           u == a[s \ {Pick(s)}]
           v == b[s \ {Pick(s)}]
<1>11. Good(s)
  <2>1. x \in Int /\ y \in Int /\ x <= y /\ u \in Int /\ v \in Int /\ u <= v
    BY <1>9, <1>10
  <2>2. a[s] = x + u /\ b[s] = y + v
    BY <1>6, <1>7
  <2> HIDE DEF x, y, u, v
  <2> QED
    BY <2>1, <2>2
<1> QED
  BY <1>5, <1>11

LEMMA SumInt ==
  ASSUME NEW f, IsFiniteSet(DOMAIN f), \A x \in DOMAIN f : f[x] \in Int
  PROVE  SumFunction(f) \in Int
BY SumGrows

-----------------------------------------------------------------------------
(* Tables of points, and the first rule that fires. *)
Table == Seq(Int \X Int)

Falling(rows, none) ==
    \A i \in DOMAIN rows : /\ rows[i][2] >= none
                           /\ \A j \in DOMAIN rows : i <= j => rows[i][2] >= rows[j][2]

LEMMA RowIs ==
  ASSUME NEW rows \in Table, NEW none \in Int, NEW met \in SUBSET DOMAIN rows
  PROVE  /\ met # {} => Min(met) \in met /\ \A i \in met : Min(met) <= i
         /\ met # {} => rows[Min(met)][2] \in Int
         /\ 100 * (IF met = {} THEN none ELSE rows[Min(met)][2]) \in Int
<1>1. met \subseteq Nat /\ \A i \in met : rows[i] \in Int \X Int
  BY DEF Table
<1>2. met # {} => Min(met) \in met /\ \A i \in met : Min(met) <= i
  BY <1>1, MinIs
<1>3. met # {} => rows[Min(met)][2] \in Int
  BY <1>1, <1>2
<1> QED
  BY <1>2, <1>3

LEMMA PointsInt ==
  ASSUME NEW rows \in Table, NEW none \in Int, NEW x
  PROVE  AtLeast(x, rows, none) \in Int /\ AtMost(x, rows, none) \in Int
           /\ Below(x, rows, none) \in Int
<1>1. AtLeast(x, rows, none) \in Int
  <2> DEFINE met == {i \in DOMAIN rows : x >= rows[i][1]}
  <2>1. 100 * (IF met = {} THEN none ELSE rows[Min(met)][2]) \in Int
    BY RowIs
  <2> QED
    BY <2>1 DEF AtLeast, Points
<1>2. AtMost(x, rows, none) \in Int
  <2> DEFINE met == {i \in DOMAIN rows : x <= rows[i][1]}
  <2>1. 100 * (IF met = {} THEN none ELSE rows[Min(met)][2]) \in Int
    BY RowIs
  <2> QED
    BY <2>1 DEF AtMost, Points
<1>3. Below(x, rows, none) \in Int
  <2> DEFINE met == {i \in DOMAIN rows : x < rows[i][1]}
  <2>1. 100 * (IF met = {} THEN none ELSE rows[Min(met)][2]) \in Int
    BY RowIs
  <2> QED
    BY <2>1 DEF Below, Points
<1> QED
  BY <1>1, <1>2, <1>3

(* The fewer rows are met, the later is the first of them. *)
LEMMA RowsFall ==
  ASSUME NEW rows \in Table, NEW none \in Int, Falling(rows, none),
         NEW more \in SUBSET DOMAIN rows, NEW fewer \in SUBSET more
  PROVE  100 * (IF fewer = {} THEN none ELSE rows[Min(fewer)][2])
           <= 100 * (IF more = {} THEN none ELSE rows[Min(more)][2])
<1> DEFINE i == Min(more)
           j == Min(fewer)
<1>1. more # {} => i \in more /\ rows[i][2] \in Int /\ \A k \in more : i <= k
  BY RowIs
<1>2. fewer # {} => j \in fewer /\ rows[j][2] \in Int
  BY RowIs
<1> HIDE DEF i, j
<1>3. CASE fewer = {} /\ more = {}
  BY <1>3
<1>4. CASE fewer = {} /\ more # {}
  <2>1. rows[i][2] >= none
    BY <1>1, <1>4 DEF Falling
  <2> QED
    BY <1>1, <1>4, <2>1 DEF i
<1>5. CASE fewer # {} /\ more # {}
  <2>1. i <= j
    BY <1>1, <1>2, <1>5
  <2>2. rows[i][2] >= rows[j][2]
    BY <1>1, <1>2, <1>5, <2>1 DEF Falling
  <2> QED
    BY <1>1, <1>2, <1>5, <2>2 DEF i, j
<1> QED
  BY <1>3, <1>4, <1>5

LEMMA PointsFall ==
  ASSUME NEW rows \in Table, NEW none \in Int, Falling(rows, none),
         NEW x \in Int, NEW y \in Int, x <= y
  PROVE  AtMost(y, rows, none) <= AtMost(x, rows, none)
           /\ Below(y, rows, none) <= Below(x, rows, none)
<1>0. \A i \in DOMAIN rows : rows[i][1] \in Int
  BY DEF Table
<1>1. AtMost(y, rows, none) <= AtMost(x, rows, none)
  <2> DEFINE more  == {i \in DOMAIN rows : x <= rows[i][1]}
             fewer == {i \in DOMAIN rows : y <= rows[i][1]}
  <2>1. fewer \in SUBSET more /\ more \in SUBSET DOMAIN rows
    BY <1>0
  <2>2. /\ AtMost(x, rows, none) = 100 * (IF more = {} THEN none ELSE rows[Min(more)][2])
        /\ AtMost(y, rows, none) = 100 * (IF fewer = {} THEN none ELSE rows[Min(fewer)][2])
    BY DEF AtMost, Points
  <2> HIDE DEF more, fewer
  <2> QED
    BY <2>1, <2>2, RowsFall
<1>2. Below(y, rows, none) <= Below(x, rows, none)
  <2> DEFINE more  == {i \in DOMAIN rows : x < rows[i][1]}
             fewer == {i \in DOMAIN rows : y < rows[i][1]}
  <2>1. fewer \in SUBSET more /\ more \in SUBSET DOMAIN rows
    BY <1>0
  <2>2. /\ Below(x, rows, none) = 100 * (IF more = {} THEN none ELSE rows[Min(more)][2])
        /\ Below(y, rows, none) = 100 * (IF fewer = {} THEN none ELSE rows[Min(fewer)][2])
    BY DEF Below, Points
  <2> HIDE DEF more, fewer
  <2> QED
    BY <2>1, <2>2, RowsFall
<1> QED
  BY <1>1, <1>2

LEMMA FirstIs ==
  ASSUME NEW reasons, DOMAIN reasons \subseteq Nat
  PROVE  First(reasons) = "none" <=> \A i \in DOMAIN reasons : reasons[i] = "none"
<1> DEFINE fired == {i \in DOMAIN reasons : reasons[i] # "none"}
<1>1. fired # {} => Min(fired) \in fired
  BY MinIs
<1>2. First(reasons) = IF fired = {} THEN "none" ELSE reasons[Min(fired)]
  BY DEF First
<1> QED
  BY <1>1, <1>2

-----------------------------------------------------------------------------
(* Requests and what they are made of. *)
LEMMA PolicyIs ==
  ASSUME NEW r \in RequestType
  PROVE  Policy(r) \in PolicyType
<1>1. DefaultPolicy \in PolicyType
  BY DEF PolicyType, DefaultPolicy
<1> QED
  BY <1>1 DEF RequestType, Maybe, Policy

LEMMA PolicyFields ==
  ASSUME NEW policy \in PolicyType
  PROVE  /\ Floors(policy) \subseteq Nat
         /\ policy.score_reject_floor \in Nat /\ policy.score_manual_floor \in Nat
         /\ policy.score_approve_floor \in Nat /\ policy.manual_review_buffer \in Nat
         /\ policy.min_viable_offer_ratio \in Nat
         /\ policy.thin_file_income_multiple \in Nat /\ policy.thin_file_max_tenor \in Nat
         /\ policy.max_overdrafts \in Nat /\ policy.max_bounced_payments \in Nat
BY DEF PolicyType, DefaultPolicy, Floors

LEMMA ElementsAre ==
  ASSUME NEW S, NEW seq \in Seq(S)
  PROVE  /\ DOMAIN seq = 1 .. Len(seq) /\ Len(seq) \in Nat /\ IsFiniteSet(DOMAIN seq)
         /\ \A i \in DOMAIN seq : seq[i] \in S
<1>1. DOMAIN seq = 1 .. Len(seq) /\ Len(seq) \in Nat
  OBVIOUS
<1> QED
  BY <1>1, FS_Interval

LEMMA AccountIs ==
  ASSUME NEW account \in AccountType
  PROVE  /\ account.transactions \in Seq(TransactionType)
         /\ account.income # Nil => /\ account.income.streams \in Seq(StreamType)
                                   /\ account.income.monthly \in Int
                                   /\ account.income.regular \in Int
         /\ account.insights # Nil =>
               account.insights.recurring \in Seq([type : STRING, debt : BOOLEAN, sum : Int])
<1>1. /\ account.transactions \in Seq(TransactionType)
      /\ account.income \in IncomeType \cup {Nil}
      /\ account.insights \in InsightsType \cup {Nil}
  BY DEF AccountType, Maybe
<1>2. account.income # Nil => account.income \in IncomeType
  BY <1>1
<1>3. account.insights # Nil => account.insights \in InsightsType
  BY <1>1
<1>4. account.income # Nil => /\ account.income.streams \in Seq(StreamType)
                             /\ account.income.monthly \in Int
                             /\ account.income.regular \in Int
  BY <1>2 DEF IncomeType
<1>5. account.insights # Nil =>
         account.insights.recurring \in Seq([type : STRING, debt : BOOLEAN, sum : Int])
  BY <1>3 DEF InsightsType
<1> QED
  BY <1>1, <1>4, <1>5

(* The places of all transactions are finitely many. *)
LEMMA PlacesAre ==
  ASSUME NEW accounts \in Seq(AccountType)
  PROVE  /\ IsFiniteSet(AllPlaces(accounts))
         /\ \A p \in AllPlaces(accounts) :
               /\ p[1] \in DOMAIN accounts /\ p[2] \in DOMAIN accounts[p[1]].transactions
               /\ p = <<p[1], p[2]>>
         /\ \A i \in DOMAIN accounts : \A k \in DOMAIN accounts[i].transactions :
               <<i, k>> \in AllPlaces(accounts)
<1> DEFINE D == DOMAIN accounts
           rows == [i \in D |-> {i} \X DOMAIN accounts[i].transactions]
           R == {{i} \X DOMAIN accounts[i].transactions : i \in D}
<1>1. IsFiniteSet(D)
  BY ElementsAre
<1>2. IsFiniteSet(R)
  <2>1. rows \in Surjection(D, R)
    BY DEF Surjection
  <2> QED
    BY <1>1, <2>1, FS_Surjection
<1>3. ASSUME NEW i \in D PROVE IsFiniteSet({i} \X DOMAIN accounts[i].transactions)
  <2>1. accounts[i].transactions \in Seq(TransactionType)
    BY ElementsAre, AccountIs
  <2>2. IsFiniteSet(DOMAIN accounts[i].transactions)
    BY <2>1, ElementsAre
  <2> QED
    BY <2>2, FS_Singleton, FS_Product
<1>4. IsFiniteSet(UNION R)
  BY <1>2, <1>3, FS_UNION
<1>5. AllPlaces(accounts) = UNION R
  BY DEF AllPlaces
<1> QED
  BY <1>4, <1>5

LEMMA TransactionsAre ==
  ASSUME NEW accounts \in Seq(AccountType)
  PROVE  /\ DOMAIN AllTransactions(accounts) = AllPlaces(accounts)
         /\ IsFiniteSet(AllPlaces(accounts))
         /\ \A p \in AllPlaces(accounts) : AllTransactions(accounts)[p] \in TransactionType
<1>1. ASSUME NEW p \in AllPlaces(accounts)
      PROVE  AllTransactions(accounts)[p] \in TransactionType
  <2>1. p[1] \in DOMAIN accounts /\ p[2] \in DOMAIN accounts[p[1]].transactions
    BY PlacesAre
  <2>2. accounts[p[1]].transactions \in Seq(TransactionType)
    BY <2>1, ElementsAre, AccountIs
  <2>3. accounts[p[1]].transactions[p[2]] \in TransactionType
    BY <2>1, <2>2, ElementsAre
  <2> QED
    BY <2>3 DEF AllTransactions
<1> QED
  BY <1>1, PlacesAre DEF AllTransactions

-----------------------------------------------------------------------------
(* The features that the stages calculate with are numbers.                  *)
Listed(txns) ==
    IsFiniteSet(DOMAIN txns) /\ \A p \in DOMAIN txns : txns[p] \in TransactionType

LEMMA SumsAre ==
  ASSUME NEW txns, Listed(txns), NEW S \in SUBSET DOMAIN txns
  PROVE  /\ IsFiniteSet(S) /\ Cardinality(S) \in Nat /\ (S = {} <=> Cardinality(S) = 0)
         /\ IsFiniteSet(MonthsOf(txns, S)) /\ Cardinality(MonthsOf(txns, S)) \in Nat
         /\ MonthsOf(txns, S) = {} <=> S = {}
         /\ MonthsOf(txns, S) = {} <=> Cardinality(MonthsOf(txns, S)) = 0
         /\ Sum(txns, S) \in Int
<1>1. IsFiniteSet(S)
  BY FS_Subset DEF Listed
<1>2. IsFiniteSet(MonthsOf(txns, S))
  <2> DEFINE g == [p \in S |-> txns[p].month]
  <2>1. g \in Surjection(S, MonthsOf(txns, S))
    BY DEF Surjection, MonthsOf
  <2> QED
    BY <1>1, <2>1, FS_Surjection
<1>3. MonthsOf(txns, S) = {} <=> S = {}
  BY DEF MonthsOf
<1>4. Sum(txns, S) \in Int
  <2> DEFINE h == [p \in S |-> txns[p].amount]
  <2>1. \A p \in DOMAIN h : h[p] \in Int
    BY DEF Listed, TransactionType
  <2>2. SumFunction(h) \in Int
    BY <1>1, <2>1, SumInt
  <2> QED
    BY <2>2 DEF Sum
<1> QED
  BY <1>1, <1>2, <1>3, <1>4, FS_CardinalityType, FS_EmptySet

LEMMA Divides ==
  ASSUME NEW a \in Int, NEW b \in Nat \ {0}
  PROVE  a \div b \in Int
OBVIOUS

LEMMA MeanIs ==
  ASSUME NEW txns, Listed(txns), NEW S \in SUBSET DOMAIN txns
  PROVE  MonthlyMean(txns, S) \in Int
<1>1. S # {} => Cardinality(MonthsOf(txns, S)) \in Nat \ {0}
  BY SumsAre
<1>2. Sum(txns, S) \in Int
  BY SumsAre
<1>3. S # {} => Sum(txns, S) \div Cardinality(MonthsOf(txns, S)) \in Int
  BY <1>1, <1>2, Divides
<1> QED
  BY <1>3 DEF MonthlyMean

LEMMA PercentIs ==
  ASSUME NEW part \in Int, NEW whole \in Int, whole > 0
  PROVE  Percent(part, whole) \in Int
<1>1. 100 * part \in Int /\ whole \in Nat \ {0}
  OBVIOUS
<1> QED
  BY <1>1, Divides DEF Percent

NumericIncome(f) ==
    /\ f.total_monthly_income \in Int /\ f.income_stream_count \in Int
    /\ f.avg_income_stability \in Int /\ f.income_regular_ratio \in Int

LEMMA FromWebhook ==
  ASSUME NEW income, income.streams \in Seq(StreamType), income.streams # <<>>,
         income.monthly \in Int, income.monthly > 0, income.regular \in Int
  PROVE  NumericIncome(IncomeFromWebhook(income))
<1> DEFINE streams == income.streams
           h == [i \in DOMAIN streams |-> streams[i].stability]
<1>1. Len(streams) \in Nat \ {0} /\ IsFiniteSet(DOMAIN streams)
  BY ElementsAre
<1>2. \A i \in DOMAIN h : h[i] \in Int
  <2>1. \A i \in DOMAIN streams : streams[i] \in StreamType
    BY ElementsAre
  <2> QED
    BY <2>1 DEF StreamType
<1>3. SumFunction(h) \in Int
  BY <1>1, <1>2, SumInt
<1>4. SumFunction(h) \div Len(streams) \in Int
  BY <1>1, <1>3, Divides
<1>5. Percent(income.regular, income.monthly) \in Int
  BY PercentIs
<1>6. Least(Percent(income.regular, income.monthly), 100) \in Int
  BY <1>5 DEF Least
<1>7. /\ IncomeFromWebhook(income).total_monthly_income = income.monthly
      /\ IncomeFromWebhook(income).income_stream_count = Len(streams)
      /\ IncomeFromWebhook(income).avg_income_stability = SumFunction(h) \div Len(streams)
      /\ IncomeFromWebhook(income).income_regular_ratio
           = Least(Percent(income.regular, income.monthly), 100)
  BY DEF IncomeFromWebhook
<1> QED
  BY <1>1, <1>4, <1>6, <1>7 DEF NumericIncome

LEMMA FromTransactions ==
  ASSUME NEW txns, Listed(txns)
  PROVE  NumericIncome(IncomeFromTransactions(txns))
<1> DEFINE credits == Credits(txns)
           salaries == {p \in credits : "salary" \in txns[p].words}
           monthly == MonthlyMean(txns, credits)
           salary == IF salaries = {} THEN 0 ELSE Sum(txns, salaries) \div Cardinality(salaries)
           ratio == IF monthly > 0 THEN Percent(salary, monthly) ELSE 0
           f == IncomeFromTransactions(txns)
<1>1. credits \in SUBSET DOMAIN txns /\ salaries \in SUBSET DOMAIN txns
  BY DEF Credits
<1>2. /\ f.total_monthly_income = monthly
      /\ f.income_stream_count = IF salaries = {} THEN 0 ELSE 1
      /\ f.avg_income_stability = IF salaries = {} THEN 0 ELSE 50
      /\ f.income_regular_ratio = ratio
  BY DEF IncomeFromTransactions
<1> HIDE DEF credits, salaries, f
<1>3. monthly \in Int
  BY <1>1, MeanIs
<1>4. salary \in Int
  <2>1. salaries # {} => Cardinality(salaries) \in Nat \ {0}
    BY <1>1, SumsAre
  <2>2. Sum(txns, salaries) \in Int
    BY <1>1, SumsAre
  <2> QED
    BY <2>1, <2>2, Divides
<1> HIDE DEF monthly, salary
<1>5. ratio \in Int
  BY <1>3, <1>4, PercentIs
<1> QED
  BY <1>2, <1>3, <1>5 DEF NumericIncome, f

LEMMA IncomeIs ==
  ASSUME NEW accounts \in Seq(AccountType)
  PROVE  NumericIncome(IncomeFeatures(accounts, BestIncome(accounts)))
<1> DEFINE earning == {i \in DOMAIN accounts :
                          accounts[i].income # Nil /\ accounts[i].income.monthly > 0}
           best == {i \in earning : \A j \in earning :
                       accounts[i].income.monthly >= accounts[j].income.monthly}
           income == BestIncome(accounts)
<1>1. income = IF best = {} THEN Nil ELSE accounts[Min(best)].income
  BY DEF BestIncome
<1>2. best # {} => Min(best) \in best
  <2>1. best \subseteq Nat
    BY ElementsAre
  <2> HIDE DEF best
  <2> QED
    BY <2>1, MinIs
<1>3. ASSUME income # Nil
      PROVE  /\ income.streams \in Seq(StreamType) /\ income.monthly \in Int
             /\ income.monthly > 0 /\ income.regular \in Int
  <2>1. Min(best) \in earning /\ income = accounts[Min(best)].income
    BY <1>1, <1>2, <1>3
  <2>2. accounts[Min(best)] \in AccountType
    BY <2>1, ElementsAre
  <2> QED
    BY <2>1, <2>2, AccountIs
<1> HIDE DEF income
<1>4. CASE income # Nil /\ income.streams # <<>>
  BY <1>3, <1>4, FromWebhook DEF IncomeFeatures, income
<1>5. CASE ~(income # Nil /\ income.streams # <<>>)
  <2>1. Listed(AllTransactions(accounts))
    BY TransactionsAre DEF Listed
  <2> QED
    BY <1>5, <2>1, FromTransactions DEF IncomeFeatures, income
<1> QED
  BY <1>4, <1>5

LEMMA CashFlowIs ==
  ASSUME NEW txns, Listed(txns), NEW accounts
  PROVE  /\ CashFlow(txns, accounts).monthly_avg_credits \in Int
         /\ CashFlow(txns, accounts).positive_cash_flow_ratio \in Int
<1> DEFINE credits == Credits(txns)
           debits == Debits(txns)
           months == MonthsOf(txns, credits \cup debits)
           inflow == MonthlyMean(txns, credits)
           positive == {m \in months : In(txns, credits, m) > In(txns, debits, m)}
           f == CashFlow(txns, accounts)
<1>1. credits \in SUBSET DOMAIN txns /\ credits \cup debits \in SUBSET DOMAIN txns
  BY DEF Credits, Debits
<1>2. /\ f.monthly_avg_credits = IF months = {} THEN 0 ELSE inflow
      /\ f.positive_cash_flow_ratio =
            IF months = {} THEN 0 ELSE Percent(Cardinality(positive), Cardinality(months))
  BY DEF CashFlow
<1>3. inflow \in Int
  BY <1>1, MeanIs
<1>4. months # {} => Cardinality(months) \in Nat \ {0}
  BY <1>1, SumsAre
<1>5. Cardinality(positive) \in Nat
  <2>1. IsFiniteSet(months)
    BY <1>1, SumsAre
  <2>2. positive \in SUBSET months
    OBVIOUS
  <2> HIDE DEF positive, months
  <2> QED
    BY <2>1, <2>2, FS_Subset, FS_CardinalityType
<1> HIDE DEF months, positive, inflow, f
<1>6. months # {} => Percent(Cardinality(positive), Cardinality(months)) \in Int
  BY <1>4, <1>5, PercentIs
<1> QED
  BY <1>2, <1>3, <1>6 DEF f

LEMMA DebtIs ==
  ASSUME NEW accounts \in Seq(AccountType)
  PROVE  RecurringDebt(accounts) \in Int
<1>1. ASSUME NEW account \in AccountType PROVE RepaidMonthly(account) \in Int
  <2> DEFINE recurring == account.insights.recurring
             debts == {j \in DOMAIN recurring : recurring[j].type = "debit" /\ recurring[j].debt}
             h == [k \in debts |-> recurring[k].sum]
  <2>1. CASE account.insights = Nil
    BY <2>1 DEF RepaidMonthly
  <2>2. CASE account.insights # Nil
    <3>1. recurring \in Seq([type : STRING, debt : BOOLEAN, sum : Int])
      BY <2>2, AccountIs
    <3>2. IsFiniteSet(DOMAIN recurring)
      BY <3>1, ElementsAre
    <3>3. IsFiniteSet(debts)
      BY <3>2, FS_Subset
    <3>4. \A k \in DOMAIN h : h[k] \in Int
      <4>1. \A k \in DOMAIN recurring :
               recurring[k] \in [type : STRING, debt : BOOLEAN, sum : Int]
        BY <3>1, ElementsAre
      <4> QED
        BY <4>1
    <3>5. SumFunction(h) \in Int
      BY <3>3, <3>4, SumInt
    <3> QED
      BY <2>2, <3>5 DEF RepaidMonthly
  <2> QED
    BY <2>1, <2>2
<1> DEFINE g == [i \in DOMAIN accounts |-> RepaidMonthly(accounts[i])]
<1>2. IsFiniteSet(DOMAIN g) /\ \A i \in DOMAIN g : g[i] \in Int
  BY <1>1, ElementsAre
<1>3. SumFunction(g) \in Int
  BY <1>2, SumInt
<1> QED
  BY <1>3 DEF RecurringDebt

-----------------------------------------------------------------------------
(* The dictionaries have no field in common, so none overwrites another.     *)
IncomeFields ==
    {"total_monthly_income", "stable_income_ratio", "income_stream_count",
     "avg_income_stability", "income_recency_days", "income_is_growing",
     "income_regular_ratio"}

CashFields ==
    {"monthly_avg_credits", "surplus_ratio", "positive_cash_flow_ratio",
     "debit_to_credit_ratio", "spending_volatility"}

BureauFields ==
    {"payment_success_rate", "closed_loan_count", "total_loan_count",
     "credit_age_months", "has_credit_history"}

AccountFields ==
    {"overdraft_count", "bounced_payment_count", "high_risk_transaction_count",
     "days_below_1000_ngn", "account_age_months"}

OtherFields == {"recurring_debt_monthly", "is_thin_file"}

LEMMA FieldsAre ==
  ASSUME NEW accounts, NEW best, NEW txns, NEW loans
  PROVE  /\ DOMAIN IncomeFeatures(accounts, best) = IncomeFields
         /\ DOMAIN CashFlow(txns, accounts) = CashFields
         /\ DOMAIN CreditHistory(loans) = BureauFields
         /\ DOMAIN AccountBehaviour(txns, accounts) = AccountFields
<1>1. DOMAIN IncomeFeatures(accounts, best) = IncomeFields
  <2>1. \A income : DOMAIN IncomeFromWebhook(income) = IncomeFields
    BY DEF IncomeFromWebhook, IncomeFields
  <2>2. \A t : DOMAIN IncomeFromTransactions(t) = IncomeFields
    BY DEF IncomeFromTransactions, IncomeFields
  <2> QED
    BY <2>1, <2>2 DEF IncomeFeatures
<1>2. DOMAIN CashFlow(txns, accounts) = CashFields
  BY DEF CashFlow, CashFields
<1>3. DOMAIN CreditHistory(loans) = BureauFields
  BY DEF CreditHistory, BureauFields
<1>4. DOMAIN AccountBehaviour(txns, accounts) = AccountFields
  BY DEF AccountBehaviour, AccountFields
<1> QED
  BY <1>1, <1>2, <1>3, <1>4

LEMMA ExtractIs ==
  ASSUME NEW r, NEW f, f = Extract(r), NEW txns, txns = AllTransactions(r.accounts),
         NEW income, income = IncomeFeatures(r.accounts, BestIncome(r.accounts))
  PROVE  /\ \A k \in IncomeFields : f[k] = income[k]
         /\ \A k \in CashFields : f[k] = CashFlow(txns, r.accounts)[k]
         /\ \A k \in BureauFields : f[k] = CreditHistory(r.credit_history)[k]
         /\ \A k \in AccountFields : f[k] = AccountBehaviour(txns, r.accounts)[k]
         /\ f.recurring_debt_monthly = RecurringDebt(r.accounts)
         /\ f.is_thin_file = IsThinFile(r.credit_history)
<1> DEFINE other == [recurring_debt_monthly |-> RecurringDebt(r.accounts),
                     is_thin_file |-> IsThinFile(r.credit_history)]
           a == CashFlow(txns, r.accounts)
           b == CreditHistory(r.credit_history)
           c == AccountBehaviour(txns, r.accounts)
<1>1. /\ DOMAIN income = IncomeFields /\ DOMAIN a = CashFields /\ DOMAIN b = BureauFields
      /\ DOMAIN c = AccountFields
  BY FieldsAre
<1>2. /\ DOMAIN other = OtherFields
      /\ other["recurring_debt_monthly"] = RecurringDebt(r.accounts)
      /\ other["is_thin_file"] = IsThinFile(r.credit_history)
  BY DEF OtherFields
<1>3. f = Update(Update(Update(Update(income, a), b), c), other)
  BY DEF Extract
<1> HIDE DEF a, b, c, other
<1> DEFINE u == Update(income, a)
           v == Update(u, b)
           w == Update(v, c)
           U == IncomeFields \cup CashFields
           V == U \cup BureauFields
           W == V \cup AccountFields
<1>4. /\ IncomeFields \cap CashFields = {} /\ U \cap BureauFields = {}
      /\ V \cap AccountFields = {} /\ W \cap OtherFields = {}
  BY DEF IncomeFields, CashFields, BureauFields, AccountFields, OtherFields
<1> HIDE DEF U, V, W
<1>5. /\ DOMAIN u = IncomeFields \cup CashFields
      /\ \A k \in IncomeFields : u[k] = income[k]
      /\ \A k \in CashFields : u[k] = a[k]
  BY <1>1, <1>4 DEF Update
<1> HIDE DEF u
<1>6. /\ DOMAIN v = U \cup BureauFields
      /\ \A k \in U : v[k] = u[k]
      /\ \A k \in BureauFields : v[k] = b[k]
  BY <1>1, <1>4, <1>5 DEF Update, U
<1> HIDE DEF v
<1>7. /\ DOMAIN w = V \cup AccountFields
      /\ \A k \in V : w[k] = v[k]
      /\ \A k \in AccountFields : w[k] = c[k]
  BY <1>1, <1>4, <1>6 DEF Update, V
<1>8. /\ \A k \in W : f[k] = w[k]
      /\ \A k \in OtherFields : f[k] = other[k]
  <2>1. f = Update(w, other)
    BY <1>3 DEF u, v
  <2> HIDE DEF w
  <2> QED
    BY <1>2, <1>4, <1>7, <2>1 DEF Update, W
<1> HIDE DEF w
<1>9. f["recurring_debt_monthly"] = RecurringDebt(r.accounts)
        /\ f["is_thin_file"] = IsThinFile(r.credit_history)
  BY <1>2, <1>8 DEF OtherFields
<1> QED
  BY <1>5, <1>6, <1>7, <1>8, <1>9 DEF a, b, c, U, V, W

(* What the scores and the decision calculate with. *)
Numeric(f) ==
    /\ NumericIncome(f)
    /\ f.monthly_avg_credits \in Int /\ f.positive_cash_flow_ratio \in Int
    /\ f.recurring_debt_monthly \in Int
    /\ f.overdraft_count \in Nat /\ f.bounced_payment_count \in Nat
    /\ f.days_below_1000_ngn \in Nat

LEMMA FeaturesAre ==
  ASSUME NEW r \in RequestType
  PROVE  Numeric(Extract(r))
<1> DEFINE f == Extract(r)
           txns == AllTransactions(r.accounts)
           income == IncomeFeatures(r.accounts, BestIncome(r.accounts))
           behaviour == AccountBehaviour(txns, r.accounts)
<1>1. r.accounts \in Seq(AccountType)
  BY DEF RequestType
<1>2. Listed(txns)
  BY <1>1, TransactionsAre DEF Listed
<1>3. NumericIncome(income)
  BY <1>1, IncomeIs
<1>4. /\ CashFlow(txns, r.accounts).monthly_avg_credits \in Int
      /\ CashFlow(txns, r.accounts).positive_cash_flow_ratio \in Int
  BY <1>2, CashFlowIs
<1>5. RecurringDebt(r.accounts) \in Int
  BY <1>1, DebtIs
<1>6. /\ behaviour.overdraft_count \in Nat /\ behaviour.bounced_payment_count \in Nat
      /\ behaviour.days_below_1000_ngn \in Nat
  <2>1. \A S \in SUBSET DOMAIN txns : Cardinality(S) \in Nat
    BY <1>2, SumsAre
  <2> HIDE DEF txns
  <2> QED
    BY <2>1 DEF AccountBehaviour, Count
<1>7. /\ \A k \in IncomeFields : f[k] = income[k]
      /\ \A k \in CashFields : f[k] = CashFlow(txns, r.accounts)[k]
      /\ \A k \in AccountFields : f[k] = behaviour[k]
      /\ f.recurring_debt_monthly = RecurringDebt(r.accounts)
  BY ExtractIs
<1> HIDE DEF f, txns, income, behaviour
<1>8. NumericIncome(f)
  BY <1>3, <1>7 DEF NumericIncome, IncomeFields
<1>9. f.monthly_avg_credits \in Int /\ f.positive_cash_flow_ratio \in Int
  BY <1>4, <1>7 DEF CashFields
<1>10. f.overdraft_count \in Nat /\ f.bounced_payment_count \in Nat
         /\ f.days_below_1000_ngn \in Nat
  BY <1>6, <1>7 DEF AccountFields
<1> QED
  BY <1>5, <1>7, <1>8, <1>9, <1>10 DEF Numeric, f

LEMMA IncomeAtHand ==
  ASSUME NEW f, Numeric(f)
  PROVE  SafeIncome(f) \in Int
BY DEF Numeric, NumericIncome, SafeIncome, Least

-----------------------------------------------------------------------------
(* The score.  Each component is a whole number, so the clamp decides.       *)
LEMMA CreditHistoryScore ==
  ASSUME NEW f
  PROVE  ScoreCreditHistory(f) \in Int
<1> DEFINE repaid == AtLeast(f.payment_success_rate,
                             <<<<95, 70>>, <<90, 55>>, <<80, 35>>, <<70, 15>>>>, 0)
           age == AtLeast(f.credit_age_months, <<<<36, 20>>, <<24, 15>>, <<12, 10>>>>, 5)
           closed == AtLeast(Percent(f.closed_loan_count, f.total_loan_count),
                             <<<<70, 10>>, <<50, 6>>>>, 2)
<1>1. /\ <<<<95, 70>>, <<90, 55>>, <<80, 35>>, <<70, 15>>>> \in Table
      /\ <<<<36, 20>>, <<24, 15>>, <<12, 10>>>> \in Table
      /\ <<<<70, 10>>, <<50, 6>>>> \in Table
  BY DEF Table
<1>2. repaid \in Int /\ age \in Int /\ closed \in Int
  BY <1>1, PointsInt
<1>3. \E x \in {3500, repaid}, y \in {0, closed} :
         ScoreCreditHistory(f) \in {0, Least(x + age + y, 10000)}
  BY DEF ScoreCreditHistory
<1> HIDE DEF repaid, age, closed
<1> QED
  BY <1>2, <1>3 DEF Least

LEMMA IncomeStabilityScore ==
  ASSUME NEW f, Numeric(f)
  PROVE  ScoreIncomeStability(f) \in Int
<1> DEFINE quality == AtLeast(f.stable_income_ratio,
                              <<<<80, 35>>, <<60, 26>>, <<40, 18>>, <<20, 10>>>>, 5)
           recency == AtMost(f.income_recency_days,
                             <<<<31, 25>>, <<45, 18>>, <<60, 10>>, <<90, 5>>>>, 0)
           growth == IF f.income_is_growing THEN 1500 ELSE 8 * f.income_regular_ratio
           diversity == Least(200 * f.income_stream_count, 500)
<1>1. /\ <<<<80, 35>>, <<60, 26>>, <<40, 18>>, <<20, 10>>>> \in Table
      /\ <<<<31, 25>>, <<45, 18>>, <<60, 10>>, <<90, 5>>>> \in Table
  BY DEF Table
<1>2. quality \in Int /\ recency \in Int
  BY <1>1, PointsInt
<1>3. growth \in Int /\ diversity \in Int /\ f.avg_income_stability \in Int
  BY DEF Numeric, NumericIncome, Least
<1>4. ScoreIncomeStability(f)
        \in {0, Least(quality + recency + 20 * f.avg_income_stability + growth + diversity, 10000)}
  BY DEF ScoreIncomeStability
<1> HIDE DEF quality, recency, growth, diversity
<1> QED
  BY <1>2, <1>3, <1>4 DEF Least

LEMMA CashFlowScore ==
  ASSUME NEW f, Numeric(f)
  PROVE  ScoreCashFlowHealth(f) \in Int
<1> DEFINE surplus == AtLeast(f.surplus_ratio,
                              <<<<30, 30>>, <<20, 24>>, <<10, 15>>, <<0, 8>>>>, 0)
           debits == AtMost(f.debit_to_credit_ratio,
                            <<<<70, 20>>, <<90, 16>>, <<100, 10>>, <<120, 5>>>>, 0)
           volatility == AtMost(f.spending_volatility,
                                <<<<2, 20>>, <<4, 14>>, <<6, 8>>, <<8, 3>>>>, 0)
<1>1. /\ <<<<30, 30>>, <<20, 24>>, <<10, 15>>, <<0, 8>>>> \in Table
      /\ <<<<70, 20>>, <<90, 16>>, <<100, 10>>, <<120, 5>>>> \in Table
      /\ <<<<2, 20>>, <<4, 14>>, <<6, 8>>, <<8, 3>>>> \in Table
  BY DEF Table
<1>2. surplus \in Int /\ debits \in Int /\ volatility \in Int
  BY <1>1, PointsInt
<1>3. ScoreCashFlowHealth(f)
        = Least(surplus + 30 * f.positive_cash_flow_ratio + debits + volatility, 10000)
  BY DEF ScoreCashFlowHealth
<1> HIDE DEF surplus, debits, volatility
<1> QED
  BY <1>2, <1>3 DEF Least, Numeric

TotalRows    == <<<<30, 60>>, <<40, 45>>, <<50, 25>>>>
ExistingRows == <<<<20, 40>>, <<30, 28>>, <<40, 15>>>>

LEMMA DebtRows ==
  TotalRows \in Table /\ ExistingRows \in Table /\ Falling(TotalRows, 0)
BY DEF Table, TotalRows, ExistingRows, Falling

LEMMA DebtServiceScore ==
  ASSUME NEW f, NEW amount, NEW tenor, NEW rate
  PROVE  ScoreDebtServiceCapacity(f, amount, tenor, rate) \in Int
<1> DEFINE total == Below(Percent(Amortize(amount, tenor, rate) + f.recurring_debt_monthly,
                                  SafeIncome(f)), TotalRows, 0)
           existing == Below(Percent(f.recurring_debt_monthly, SafeIncome(f)), ExistingRows, 0)
<1>1. total \in Int /\ existing \in Int
  BY DebtRows, PointsInt
<1>2. ScoreDebtServiceCapacity(f, amount, tenor, rate) \in {0, total + existing}
  BY DEF ScoreDebtServiceCapacity, TotalRows, ExistingRows
<1> HIDE DEF total, existing
<1> QED
  BY <1>1, <1>2

AgeRows   == <<<<24, 40>>, <<18, 32>>, <<12, 22>>, <<6, 12>>>>
LowRows   == <<<<0, 20>>, <<3, 14>>, <<7, 8>>, <<14, 3>>>>
RiskyRows == <<<<0, 10>>, <<3, 5>>>>

LEMMA BehaviourRows ==
  /\ AgeRows \in Table /\ LowRows \in Table /\ RiskyRows \in Table
  /\ Falling(LowRows, 0)
BY DEF Table, AgeRows, LowRows, RiskyRows, Falling

LEMMA BehaviourIs ==
  ASSUME NEW f
  PROVE  ScoreAccountBehavior(f) =
            AtLeast(f.account_age_months, AgeRows, 5) + 100 * Discipline(f)
              + AtMost(f.days_below_1000_ngn, LowRows, 0)
              + AtMost(f.high_risk_transaction_count, RiskyRows, 0)
BY DEF ScoreAccountBehavior, AgeRows, LowRows, RiskyRows

LEMMA BehaviourScore ==
  ASSUME NEW f, Numeric(f)
  PROVE  /\ ScoreAccountBehavior(f) \in Int /\ Discipline(f) \in Int
         /\ AtLeast(f.account_age_months, AgeRows, 5) \in Int
         /\ AtMost(f.days_below_1000_ngn, LowRows, 0) \in Int
         /\ AtMost(f.high_risk_transaction_count, RiskyRows, 0) \in Int
<1>1. /\ AtLeast(f.account_age_months, AgeRows, 5) \in Int
      /\ AtMost(f.days_below_1000_ngn, LowRows, 0) \in Int
      /\ AtMost(f.high_risk_transaction_count, RiskyRows, 0) \in Int
  BY BehaviourRows, PointsInt
<1>2. Discipline(f) \in Int
  BY DEF Discipline, Most, Numeric
<1> QED
  BY <1>1, <1>2, BehaviourIs

Components ==
    {"credit_history", "income_stability", "cash_flow_health", "debt_service_capacity",
     "account_behavior"}

LEMMA WeightsAre ==
  /\ DOMAIN NORMAL_WEIGHTS = Components /\ DOMAIN THIN_FILE_WEIGHTS = Components
  /\ \A c \in Components : NORMAL_WEIGHTS[c] \in Nat /\ THIN_FILE_WEIGHTS[c] \in Nat
  /\ IsFiniteSet(Components)
<1>1. IsFiniteSet(Components)
  <2>1. Components = {"credit_history"} \cup {"income_stability"} \cup {"cash_flow_health"}
                       \cup {"debt_service_capacity"} \cup {"account_behavior"}
    BY DEF Components
  <2> QED
    BY <2>1, FS_Singleton, FS_Union
<1> QED
  BY <1>1 DEF NORMAL_WEIGHTS, THIN_FILE_WEIGHTS, Components

LEMMA RawIs ==
  ASSUME NEW f, Numeric(f), NEW amount, NEW tenor, NEW rate
  PROVE  \A c \in Components : RawScores(f, amount, tenor, rate)[c] \in Int
BY CreditHistoryScore, IncomeStabilityScore, CashFlowScore, DebtServiceScore, BehaviourScore
   DEF RawScores, Components

(* A file that is at least as good in every component scores no less.        *)
LEMMA ScoreGrows ==
  ASSUME NEW f, Numeric(f), NEW g, Numeric(g), f.is_thin_file = g.is_thin_file,
         NEW amount, NEW more, NEW tenor, NEW rate,
         \A c \in Components :
            RawScores(f, more, tenor, rate)[c] <= RawScores(g, amount, tenor, rate)[c]
  PROVE  /\ Calculate(f, more, tenor, rate) \in 350 .. 850
         /\ Calculate(g, amount, tenor, rate) \in 350 .. 850
         /\ Calculate(f, more, tenor, rate) <= Calculate(g, amount, tenor, rate)
<1> DEFINE weights == IF f.is_thin_file THEN THIN_FILE_WEIGHTS ELSE NORMAL_WEIGHTS
           low == [c \in DOMAIN weights |-> weights[c] * RawScores(f, more, tenor, rate)[c]]
           high == [c \in DOMAIN weights |-> weights[c] * RawScores(g, amount, tenor, rate)[c]]
<1>1. /\ DOMAIN weights = Components /\ IsFiniteSet(Components)
      /\ \A c \in Components : weights[c] \in Nat
  BY WeightsAre
<1>2. /\ Calculate(f, more, tenor, rate)
           = Most(BASELINE_SCORE, Least(850, BASELINE_SCORE + SumFunction(low) \div 2000))
      /\ Calculate(g, amount, tenor, rate)
           = Most(BASELINE_SCORE, Least(850, BASELINE_SCORE + SumFunction(high) \div 2000))
  BY DEF Calculate
<1> HIDE DEF weights
<1>3. ASSUME NEW c \in Components
      PROVE  low[c] \in Int /\ high[c] \in Int /\ low[c] <= high[c]
  <2> DEFINE x == RawScores(f, more, tenor, rate)[c]
             y == RawScores(g, amount, tenor, rate)[c]
             w == weights[c]
  <2>1. x \in Int /\ y \in Int /\ x <= y /\ w \in Nat
    BY <1>1, RawIs
  <2>2. low[c] = w * x /\ high[c] = w * y
    BY <1>1
  <2> HIDE DEF x, y, w
  <2>3. w * x \in Int /\ w * y \in Int /\ w * x <= w * y
    BY <2>1
  <2> QED
    BY <2>2, <2>3
<1>4. SumFunction(low) \in Int /\ SumFunction(high) \in Int /\ SumFunction(low) <= SumFunction(high)
  <2>1. DOMAIN low = Components /\ DOMAIN high = Components
    BY <1>1
  <2> HIDE DEF low, high
  <2> QED
    BY <1>1, <1>3, <2>1, SumGrows
<1> HIDE DEF low, high
<1> DEFINE a == SumFunction(low)
           b == SumFunction(high)
<1>5. a \in Int /\ b \in Int /\ a <= b
  BY <1>4
<1> HIDE DEF a, b
<1>6. a \div 2000 \in Int /\ b \div 2000 \in Int /\ a \div 2000 <= b \div 2000
  BY <1>5
<1> QED
  BY <1>2, <1>6 DEF Most, Least, BASELINE_SCORE, a, b

LEMMA ScoreIs ==
  ASSUME NEW f, Numeric(f), NEW amount, NEW tenor, NEW rate
  PROVE  Calculate(f, amount, tenor, rate) \in 350 .. 850
<1>1. \A c \in Components :
         RawScores(f, amount, tenor, rate)[c] <= RawScores(f, amount, tenor, rate)[c]
  BY RawIs
<1> QED
  BY <1>1, ScoreGrows
=============================================================================

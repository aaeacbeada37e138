---------------------------- MODULE LiveDataProofs ----------------------------
(***************************************************************************)
(* Proofs about what else is done with live data: how a private event      *)
(* finds its instrument, for any products, how much of a first leg is      *)
(* hedged, for any trading rules, what is known of an order's fills, and   *)
(* what the account store has of the account, for any fills and changes    *)
(* and whatever the messages about them go through.                        *)
(***************************************************************************)
EXTENDS BookSyncProofs, Instruments, Opportunity, FillTracker, AccountStore

-----------------------------------------------------------------------------
(* The registry of instruments *)

Tradable == {p \in Products : ~p.delivery}

\* What is loaded and held are products; an event was resolved to its own.
RegistryInv ==
    /\ listed \subseteq Products
    /\ registry \subseteq Tradable
    /\ loading # NotLoading => loading.read \subseteq Tradable
    /\ ResolvedToItsOwn

\* Only the product of an event has its exchange, market and symbol.
LEMMA OrderResolution ==
    ASSUME registry \subseteq Tradable, NEW p \in Tradable
    PROVE  /\ OrderInstrument(p) \subseteq {p}
           /\ p \in registry /\ p.exchange = "binance" => p \in OrderInstrument(p)
  <1>1. \A i \in OrderInstrument(p) : i \in registry /\ i.symbol = p.symbol
                                      /\ i.exchange = p.exchange /\ i.market = p.market
    BY DEF OrderInstrument, ForExchange, Key
  <1>2. OrderInstrument(p) \subseteq {p}
    BY <1>1, ProductAssumption DEF Tradable
  <1>3. p \in registry /\ p.exchange = "binance" => p \in OrderInstrument(p)
    BY DEF OrderInstrument
  <1> QED
    BY <1>2, <1>3

\* The perpetual of a symbol hides its spot instrument, never the other way round.
LEMMA PositionResolution ==
    ASSUME registry \subseteq Tradable, NEW p \in Tradable, p.market = "perpetual"
    PROVE  /\ PositionInstrument(p) \subseteq {p}
           /\ p \in registry => p \in PositionInstrument(p)
  <1>1. \A i \in PositionInstrument(p) : i \in registry /\ i.symbol = p.symbol
                                         /\ i.exchange = p.exchange /\ i.market = p.market
    BY DEF PositionInstrument, ForExchange
  <1>2. PositionInstrument(p) \subseteq {p}
    BY <1>1, ProductAssumption DEF Tradable
  <1>3. p \in registry => p \in PositionInstrument(p)
    BY DEF PositionInstrument, ForExchange
  <1> QED
    BY <1>2, <1>3

\* Loading keeps what is read and held tradable products.
LEMMA RegistryStep ==
    ASSUME RegistryInv, [InstrumentNext]_instrumentVars
    PROVE  RegistryInv'
  <1>1. CASE ProductChanges
    BY <1>1 DEF ProductChanges, RegistryInv, ResolvedToItsOwn
  <1>2. CASE StartLoading
    BY <1>2 DEF StartLoading, RegistryInv, ResolvedToItsOwn
  <1>3. CASE LoadList
    <2> DEFINE products == {p \in listed : Key(p) = Clients[loading.step]}
    <2>1. Parsed(products) \subseteq Tradable
      BY DEF Parsed, RegistryInv, Tradable
    <2>2. /\ loading # NotLoading /\ UNCHANGED <<listed, registry, event>>
          /\ loading' = NotLoading \/ loading'.read = loading.read \cup Parsed(products)
      BY <1>3 DEF LoadList
    <2> QED
      BY <2>1, <2>2 DEF RegistryInv, ResolvedToItsOwn
  <1>4. CASE LoadFailsToRead
    BY <1>4 DEF LoadFailsToRead, RegistryInv, ResolvedToItsOwn
  <1>5. CASE Replace
    BY <1>5 DEF Replace, RegistryInv, ResolvedToItsOwn
  <1>6. CASE OrderEvent
    <2> PICK p \in Products : ~p.delivery /\ Resolve("order", p, OrderInstrument(p))
      BY <1>6 DEF OrderEvent
    <2>1. /\ OrderInstrument(p) \subseteq {p}
          /\ p \in registry /\ p.exchange = "binance" => p \in OrderInstrument(p)
      BY OrderResolution DEF RegistryInv, Tradable
    <2> QED
      BY <2>1 DEF Resolve, RegistryInv, ResolvedToItsOwn
  <1>7. CASE PositionEvent
    <2> PICK p \in Products : /\ p.market = "perpetual" /\ ~p.delivery
                              /\ Resolve("position", p, PositionInstrument(p))
      BY <1>7 DEF PositionEvent
    <2>1. /\ PositionInstrument(p) \subseteq {p}
          /\ p \in registry => p \in PositionInstrument(p)
      BY PositionResolution DEF RegistryInv, Tradable
    <2> QED
      BY <2>1 DEF Resolve, RegistryInv, ResolvedToItsOwn
  <1>8. CASE UNCHANGED instrumentVars
    BY <1>8 DEF instrumentVars, RegistryInv, ResolvedToItsOwn
  <1> QED
    BY <1>1, <1>2, <1>3, <1>4, <1>5, <1>6, <1>7, <1>8 DEF InstrumentNext

\* A private event is resolved to the product it is about or to nothing, and
\* always if it is a position, or an order at Binance, of a product in the
\* registry, whatever the exchanges list (InstrumentRegistry, the _instrument
\* helpers of the mappers).
THEOREM EventsFindTheirInstrument == InstrumentSpec => []ResolvedToItsOwn
  <1>1. InstrumentInit => RegistryInv
    BY DEF InstrumentInit, RegistryInv, ResolvedToItsOwn
  <1>2. RegistryInv /\ [InstrumentNext]_instrumentVars => RegistryInv'
    BY RegistryStep
  <1>3. RegistryInv => ResolvedToItsOwn
    BY DEF RegistryInv
  <1> QED
    BY <1>1, <1>2, <1>3, PTL DEF InstrumentSpec

-----------------------------------------------------------------------------
(* Multiples of the steps of two instruments *)

\* A number is its quotient, and what remains.
LEMMA Division ==
    ASSUME NEW a \in Nat \ {0}, NEW x \in Nat
    PROVE  /\ x \div a \in Nat /\ x % a \in Nat /\ x % a < a
           /\ x = (x \div a) * a + (x % a)
           /\ (x \div a) * a \in Nat /\ (x \div a) * a <= x
  <1>1. x \div a \in Nat /\ x % a \in Nat /\ x % a < a
    OBVIOUS
  <1>2. x = a * (x \div a) + (x % a)
    OBVIOUS
  <1>3. a * (x \div a) = (x \div a) * a
    BY <1>1
  <1>4. (x \div a) * a \in Nat
    BY <1>1
  <1> QED
    BY <1>1, <1>2, <1>3, <1>4

\* What remains of a multiple of a number is nothing.
LEMMA MultipleIsExact ==
    ASSUME NEW a \in Nat \ {0}, NEW k \in Nat
    PROVE  (k * a) % a = 0 /\ (k * a) \div a = k
  OBVIOUS

\* What remains of a multiple of two numbers, divided by a third that is a
\* multiple of both, is a multiple of both.
LEMMA RemainderOfMultiple ==
    ASSUME NEW a \in Nat \ {0}, NEW n \in Nat \ {0}, NEW x \in Nat,
           x % a = 0, n % a = 0
    PROVE  (x % n) % a = 0
  <1> DEFINE k == x \div a
             m == n \div a
             q == x \div n
  <1>1. k \in Nat /\ m \in Nat /\ q \in Nat /\ x % n \in Nat
    BY Division
  <1>2. x = k * a /\ n = m * a
    BY Division
  <1>3. x = q * n + (x % n)
    BY Division
  <1> HIDE DEF k, m, q
  <1>4. q * n = (q * m) * a
    BY <1>1, <1>2
  <1>5. x % n = (k - q * m) * a
    BY <1>1, <1>2, <1>3, <1>4
  <1>6. k - q * m \in Int /\ (k - q * m) * a >= 0
    BY <1>1, <1>5
  <1>7. k - q * m >= 0
    BY <1>6
  <1>8. k - q * m \in Nat
    BY <1>6, <1>7
  <1> QED
    BY <1>5, <1>8, MultipleIsExact

-----------------------------------------------------------------------------
(* The second leg of an opening *)

\* A quantity both exchanges can execute
Common(q) == \A leg \in Legs : q % rules[leg].step = 0

\* The steps of both instruments are positive whole numbers.
LEMMA StepsArePositive ==
    ASSUME rules \in [Legs -> RuleSets], NEW leg \in Legs
    PROVE  rules[leg].step \in Nat \ {0}
  <1>1. rules[leg] \in RuleSets
    OBVIOUS
  <1> QED
    BY <1>1, OpportunityAssumption

\* _decimal_lcm is a common multiple of the two steps, and the least.
LEMMA CommonStepIsLeast ==
    ASSUME rules \in [Legs -> RuleSets]
    PROVE  /\ CommonStep \in Nat \ {0} /\ Common(CommonStep)
           /\ \A s \in Nat \ {0} : Common(s) => CommonStep <= s
  <1> DEFINE a == rules["buy"].step
             b == rules["sell"].step
             S == {s \in 1..(a * b) : \A leg \in Legs : s % rules[leg].step = 0}
  <1>1. a \in Nat \ {0} /\ b \in Nat \ {0}
    BY StepsArePositive DEF Legs
  <1>2. CommonStep = Min(S)
    BY DEF CommonStep
  <1>3. a * b \in S
    <2>1. a * b \in Nat \ {0}
      BY <1>1
    <2>2. (a * b) % b = 0
      BY <1>1, MultipleIsExact
    <2>3. a * b = b * a
      BY <1>1
    <2>4. (a * b) % a = 0
      BY <1>1, <2>3, MultipleIsExact
    <2>5. a * b \in 1..(a * b)
      BY <2>1
    <2> QED
      BY <2>2, <2>4, <2>5 DEF Legs
  <1>4. S \in SUBSET Nat /\ S # {}
    BY <1>1, <1>3
  <1>5. PICK m \in S : \A s \in S : m <= s
    BY <1>4, LeastExists
  <1>6. Min(S) \in S /\ \A s \in S : Min(S) <= s
    BY <1>5 DEF Min
  <1>7. Min(S) \in 1..(a * b) /\ Common(Min(S))
    BY <1>6 DEF Common
  <1>8. a * b \in Nat
    BY <1>1
  <1>9. \A s \in Nat \ {0} : Common(s) => Min(S) <= s
    <2> SUFFICES ASSUME NEW s \in Nat \ {0}, Common(s) PROVE Min(S) <= s
      OBVIOUS
    <2>1. CASE s <= a * b
      <3>1. s \in S
        BY <1>8, <2>1 DEF Common
      <3> QED
        BY <1>6, <3>1
    <2>2. CASE ~(s <= a * b)
      BY <1>7, <1>8, <2>2
    <2> QED
      BY <2>1, <2>2
  <1> HIDE DEF S
  <1> QED
    BY <1>2, <1>7, <1>8, <1>9

\* What both exchanges can execute are the multiples of the common step.
LEMMA CommonAreMultiples ==
    ASSUME rules \in [Legs -> RuleSets], NEW q \in Nat
    PROVE  Common(q) <=> q % CommonStep = 0
  <1> DEFINE L == CommonStep
  <1>1. /\ L \in Nat \ {0} /\ Common(L)
        /\ \A s \in Nat \ {0} : Common(s) => L <= s
    BY CommonStepIsLeast
  <1> HIDE DEF L
  <1>2. ASSUME Common(q) PROVE q % L = 0
    <2>1. q % L \in Nat /\ q % L < L
      BY <1>1, Division
    <2>2. Common(q % L)
      BY <1>1, <1>2, StepsArePositive, RemainderOfMultiple DEF Common
    <2> QED
      BY <1>1, <2>1, <2>2
  <1>3. ASSUME q % L = 0, NEW leg \in Legs PROVE q % rules[leg].step = 0
    <2> DEFINE a == rules[leg].step
               k == q \div L
               m == L \div a
    <2>1. a \in Nat \ {0} /\ L % a = 0
      BY <1>1, StepsArePositive DEF Common
    <2>2. k \in Nat /\ q = k * L + (q % L)
      BY <1>1, Division
    <2>3. m \in Nat /\ L = m * a + (L % a)
      BY <1>1, <2>1, Division
    <2> HIDE DEF a, k, m
    <2>4. q = k * L /\ L = m * a
      BY <1>1, <1>3, <2>1, <2>2, <2>3
    <2>5. q = (k * m) * a /\ k * m \in Nat
      BY <2>1, <2>2, <2>3, <2>4
    <2>6. q % a = 0
      BY <2>1, <2>5, MultipleIsExact
    <2> QED
      BY <2>6 DEF a
  <1> QED
    BY <1>2, <1>3 DEF Common, L

\* Rounding down to the common step gives the largest part both exchanges can
\* execute.
LEMMA RoundedIsLargest ==
    ASSUME rules \in [Legs -> RuleSets], NEW x \in Nat
    PROVE  /\ RoundToStep(x, CommonStep) \in 0..x
           /\ Common(RoundToStep(x, CommonStep))
           /\ \A q \in 0..x : Common(q) => q <= RoundToStep(x, CommonStep)
  <1> DEFINE L == CommonStep
             k == x \div L
  <1>1. L \in Nat \ {0}
    BY CommonStepIsLeast
  <1>2. k \in Nat /\ k * L \in Nat /\ k * L <= x /\ x = k * L + (x % L)
        /\ x % L \in Nat /\ x % L < L
    BY <1>1, Division
  <1>3. RoundToStep(x, L) = k * L
    BY DEF RoundToStep
  <1> HIDE DEF L, k
  <1>4. (k * L) % L = 0
    BY <1>1, <1>2, MultipleIsExact
  <1>5. Common(k * L)
    BY <1>2, <1>4, CommonAreMultiples DEF L
  <1>6. ASSUME NEW q \in 0..x, Common(q) PROVE q <= k * L
    <2> DEFINE j == q \div L
    <2>1. q \in Nat /\ q % L = 0
      BY <1>6, CommonAreMultiples DEF L
    <2>2. j \in Nat /\ q = j * L
      BY <1>1, <2>1, Division
    <2> HIDE DEF j
    <2>3. CASE j <= k
      BY <1>1, <1>2, <2>2, <2>3
    <2>4. CASE j >= k + 1
      <3>1. j * L >= (k + 1) * L
        BY <1>1, <1>2, <2>2, <2>4
      <3>2. (k + 1) * L = k * L + L
        BY <1>1, <1>2
      <3> QED
        BY <1>1, <1>2, <2>1, <2>2, <3>1, <3>2
    <2> QED
      BY <1>2, <2>2, <2>3, <2>4
  <1> QED
    BY <1>2, <1>3, <1>5, <1>6 DEF L

\* A common quantity is not changed by rounding it to the step of one leg.
LEMMA CommonIsRounded ==
    ASSUME rules \in [Legs -> RuleSets], NEW q \in Nat, Common(q), NEW leg \in Legs
    PROVE  RoundToStep(q, rules[leg].step) = q
  <1>1. rules[leg].step \in Nat \ {0} /\ q % rules[leg].step = 0
    BY StepsArePositive DEF Common
  <1> QED
    BY <1>1, Division, SMTT(20) DEF RoundToStep

\* What the first leg filled is a quantity, and the second leg is the largest
\* part of it that can be executed.
HedgeInv ==
    /\ rules \in [Legs -> RuleSets]
    /\ stage \in {"hedging", "done"} => filled \in Nat
    /\ HedgeIsClose

\* The second leg is the largest common part of what was filled.
LEMMA FollowUpIsClose ==
    ASSUME HedgeInv, FollowUp, stage' = "done"
    PROVE  second' = Max({q \in 0..filled : Common(q)})
  <1> DEFINE quantity == RoundToStep(filled, CommonStep)
             Q == {q \in 0..filled : Common(q)}
  <1>1. PICK leg \in Legs : second' = RoundToStep(quantity, rules[leg].step)
    BY DEF FollowUp
  <1>2. filled \in Nat /\ rules \in [Legs -> RuleSets]
    BY DEF FollowUp, HedgeInv
  <1>3. /\ quantity \in 0..filled /\ Common(quantity)
        /\ \A q \in 0..filled : Common(q) => q <= quantity
    BY <1>2, RoundedIsLargest
  <1> HIDE DEF quantity
  <1>4. second' = quantity
    BY <1>1, <1>2, <1>3, CommonIsRounded
  <1>5. quantity \in Q /\ \A q \in Q : quantity >= q
    BY <1>2, <1>3
  <1>6. \A q \in Q : (\A r \in Q : q >= r) => q = quantity
    BY <1>2, <1>3
  <1>7. Max(Q) = quantity
    BY <1>5, <1>6 DEF Max
  <1> QED
    BY <1>4, <1>7

\* Every step of an opening keeps it.
LEMMA HedgeStep ==
    ASSUME HedgeInv, [OpportunityNext]_opportunityVars
    PROVE  HedgeInv'
  <1>1. CASE Publish
    BY <1>1 DEF Publish, HedgeInv, HedgeIsClose
  <1>2. CASE Prepare
    BY <1>2 DEF Prepare, HedgeInv, HedgeIsClose
  <1>3. CASE FirstFills
    <2>1. filled' \in Nat
      BY <1>3 DEF FirstFills
    <2> QED
      BY <1>3, <2>1 DEF FirstFills, HedgeInv, HedgeIsClose
  <1>4. CASE FollowUp
    <2>1. /\ UNCHANGED <<rules, filled>> /\ filled \in Nat
          /\ stage' \in {"done", "unhedged"}
      BY <1>4 DEF FollowUp, HedgeInv
    <2>2. stage' = "done" => second' = Max({q \in 0..filled : Common(q)})
      BY <1>4, FollowUpIsClose
    <2> QED
      BY <2>1, <2>2 DEF HedgeInv, HedgeIsClose, Common
  <1>5. CASE UNCHANGED opportunityVars
    BY <1>5 DEF opportunityVars, HedgeInv, HedgeIsClose
  <1> QED
    BY <1>1, <1>2, <1>3, <1>4, <1>5 DEF OpportunityNext

\* The second leg is the largest part of what the first filled that both
\* exchanges can execute, for any trading rules and any first fill
\* (prepare_follow_up_request, _decimal_lcm).
THEOREM HedgeIsLargest == OpportunitySpec => []HedgeIsClose
  <1>1. OpportunityInit => HedgeInv
    BY DEF OpportunityInit, HedgeInv, HedgeIsClose
  <1>2. HedgeInv /\ [OpportunityNext]_opportunityVars => HedgeInv'
    BY HedgeStep
  <1>3. HedgeInv => HedgeIsClose
    BY DEF HedgeInv
  <1> QED
    BY <1>1, <1>2, <1>3, PTL DEF OpportunitySpec

-----------------------------------------------------------------------------
(* Sums over the fills of a set *)

\* sum holds the totals of the first fills, up to n of them.
Part(amounts, fills, i) == IF i \in fills THEN amounts[i] ELSE 0
Sums(sum, amounts, fills, n) ==
    sum = [i \in 0..n |-> IF i = 0 THEN 0 ELSE sum[i - 1] + Part(amounts, fills, i)]

\* There are sums, for any number of fills.
LEMMA SumsExist ==
    ASSUME NEW amounts, NEW fills, NEW N \in Nat
    PROVE  \E sum : Sums(sum, amounts, fills, N)
  <1> DEFINE Missing == {n \in Nat : ~ \E sum : Sums(sum, amounts, fills, n)}
  <1>2. ASSUME Missing # {} PROVE FALSE
    <2>1. PICK n \in Missing : \A i \in Missing : n <= i
      BY <1>2, LeastExists
    <2>2. n \in Nat /\ ~ \E sum : Sums(sum, amounts, fills, n)
      BY <2>1
    <2>3. CASE n = 0
      <3>1. Sums([i \in 0..0 |-> 0], amounts, fills, 0)
        BY DEF Sums
      <3> QED
        BY <2>2, <2>3, <3>1
    <2>4. CASE n > 0
      <3>1. n - 1 \in Nat /\ n - 1 \notin Missing
        BY <2>1, <2>2, <2>4
      <3>2. PICK sum : Sums(sum, amounts, fills, n - 1)
        BY <3>1
      <3> DEFINE longer == [i \in 0..n |-> IF i = n THEN sum[n - 1] + Part(amounts, fills, n)
                                           ELSE sum[i]]
      <3>3. ASSUME NEW i \in 0..n
            PROVE  longer[i] = IF i = 0 THEN 0 ELSE longer[i - 1] + Part(amounts, fills, i)
        <4>1. CASE i = n
          BY <2>2, <2>4, <4>1
        <4>2. CASE i # n
          <5>1. i \in 0..n - 1 /\ longer[i] = sum[i] /\ (i # 0 => longer[i - 1] = sum[i - 1])
            BY <2>2, <4>2
          <5>2. sum[i] = IF i = 0 THEN 0 ELSE sum[i - 1] + Part(amounts, fills, i)
            BY <3>2, <5>1 DEF Sums
          <5> QED
            BY <5>1, <5>2
        <4> QED
          BY <4>1, <4>2
      <3>4. longer = [i \in 0..n |-> longer[i]]
        OBVIOUS
      <3> HIDE DEF longer
      <3>5. Sums(longer, amounts, fills, n)
        BY <3>3, <3>4 DEF Sums
      <3> QED
        BY <2>2, <3>5
    <2> QED
      BY <2>2, <2>3, <2>4
  <1> QED
    BY <1>2

\* Total is what such sums end with.
LEMMA TotalIs ==
    ASSUME NEW amounts, NEW fills, NEW n \in Nat
    PROVE  \E sum : Sums(sum, amounts, fills, n) /\ Total(amounts, fills, n) = sum[n]
  <1> DEFINE sum == CHOOSE s : Sums(s, amounts, fills, n)
  <1>1. Sums(sum, amounts, fills, n)
    BY SumsExist
  <1>2. Total(amounts, fills, n) = sum[n]
    BY DEF Total, Sums, Part
  <1> QED
    BY <1>1, <1>2

\* F holds the sums of f, and each part of f is those of g and h together.
Steps(F, f, n) == F[0] = 0 /\ \A i \in 1..n : F[i] = F[i - 1] + f[i]
Splits(f, g, h, n) == \A i \in 1..n : f[i] \in Nat /\ g[i] \in Nat /\ h[i] \in Nat
                                      /\ f[i] = g[i] + h[i]
Parts(amounts, fills, n) == [i \in 1..n |-> Part(amounts, fills, i)]

\* Each sum is the one before and its own part.
LEMMA SumStep ==
    ASSUME NEW amounts, NEW fills, NEW N \in Nat, NEW sum, Sums(sum, amounts, fills, N)
    PROVE  Steps(sum, Parts(amounts, fills, N), N)
  <1>1. \A i \in 0..N : sum[i] = IF i = 0 THEN 0 ELSE sum[i - 1] + Part(amounts, fills, i)
    BY DEF Sums
  <1> QED
    BY <1>1 DEF Steps, Parts

\* What holds at nothing and passes from each number to the next holds at N: when the
\* parts are those of two other sums together, so is the sum.
LEMMA SumsAdd ==
    ASSUME NEW N \in Nat, NEW F, NEW G, NEW H, NEW f, NEW g, NEW h,
           Steps(F, f, N), Steps(G, g, N), Steps(H, h, N), Splits(f, g, h, N)
    PROVE  F[N] \in Nat /\ G[N] \in Nat /\ H[N] \in Nat /\ F[N] = G[N] + H[N]
  <1> DEFINE Good(n) == F[n] \in Nat /\ G[n] \in Nat /\ H[n] \in Nat /\ F[n] = G[n] + H[n]
             Wrong == {n \in 0..N : ~Good(n)}
  <1>1. ASSUME Wrong # {} PROVE FALSE
    <2>0. Wrong \in SUBSET Nat
      OBVIOUS
    <2>1. PICK n \in Wrong : \A i \in Wrong : n <= i
      BY <1>1, <2>0, LeastExists
    <2>2. n \in 0..N /\ ~Good(n)
      BY <2>1
    <2>3. n # 0
      BY <2>2 DEF Steps
    <2>4. n \in 1..N /\ n - 1 \in 0..N /\ n - 1 \notin Wrong
      BY <2>1, <2>2, <2>3
    <2>5. Good(n - 1)
      BY <2>4
    <2>6. /\ f[n] \in Nat /\ g[n] \in Nat /\ h[n] \in Nat /\ f[n] = g[n] + h[n]
          /\ F[n] = F[n - 1] + f[n] /\ G[n] = G[n - 1] + g[n] /\ H[n] = H[n - 1] + h[n]
      BY <2>4 DEF Steps, Splits
    <2> QED
      BY <2>2, <2>5, <2>6
  <1>2. Good(N)
    BY <1>1
  <1> QED
    BY <1>2

\* So with totals.
LEMMA TotalSplit ==
    ASSUME NEW N \in Nat, NEW a, NEW A, NEW B, NEW C,
           Splits(Parts(a, A, N), Parts(a, B, N), Parts(a, C, N), N)
    PROVE  /\ Total(a, A, N) \in Nat /\ Total(a, B, N) \in Nat /\ Total(a, C, N) \in Nat
           /\ Total(a, A, N) = Total(a, B, N) + Total(a, C, N)
  <1>1. PICK F : Sums(F, a, A, N) /\ Total(a, A, N) = F[N]
    BY TotalIs
  <1>2. PICK G : Sums(G, a, B, N) /\ Total(a, B, N) = G[N]
    BY TotalIs
  <1>3. PICK H : Sums(H, a, C, N) /\ Total(a, C, N) = H[N]
    BY TotalIs
  <1>4. /\ Steps(F, Parts(a, A, N), N) /\ Steps(G, Parts(a, B, N), N)
        /\ Steps(H, Parts(a, C, N), N)
    BY <1>1, <1>2, <1>3, SumStep
  <1> QED
    BY <1>1, <1>2, <1>3, <1>4, SumsAdd

\* The total of one fill is its amount.
LEMMA TotalOfOne ==
    ASSUME NEW N \in Nat, NEW a \in [1..N -> Nat], NEW k \in 1..N
    PROVE  Total(a, {k}, N) = a[k]
  <1>1. PICK F : Sums(F, a, {k}, N) /\ Total(a, {k}, N) = F[N]
    BY TotalIs
  <1> DEFINE f == Parts(a, {k}, N)
             zero == [i \in 0..N |-> 0]
             H == [i \in 0..N |-> IF i < k THEN 0 ELSE a[k]]
  <1>2. Steps(F, f, N)
    BY <1>1, SumStep
  <1>3. Splits(f, zero, f, N)
    BY DEF Splits, Parts, Part
  <1>4. Steps(zero, zero, N)
    BY DEF Steps
  <1>5. Steps(H, f, N)
    BY DEF Steps, Parts, Part
  <1>6. H[N] = a[k] /\ zero[N] = 0 /\ a[k] \in Nat
    OBVIOUS
  <1> HIDE DEF f, zero, H
  <1>8. F[N] = zero[N] + H[N]
    BY <1>2, <1>3, <1>4, <1>5, SumsAdd
  <1> QED
    BY <1>1, <1>6, <1>8

\* What the fills of a set add up to.
LEMMA TotalFacts ==
    ASSUME NEW N \in Nat, NEW a \in [1..N -> Nat]
    PROVE  /\ \A A : Total(a, A, N) \in Nat
           /\ \A A, B : A \cap B = {} => Total(a, A \cup B, N) = Total(a, A, N) + Total(a, B, N)
           /\ \A A, B : (1..N) \cap A \subseteq B => Total(a, A, N) <= Total(a, B, N)
           /\ \A A : \A k \in 1..N : k \notin A => Total(a, A \cup {k}, N) = Total(a, A, N) + a[k]
           /\ \A A : (1..N) \cap A = {} => Total(a, A, N) = 0
  <1>0. ASSUME NEW A, NEW B, NEW C, C = A \cup B, A \cap B = {}
        PROVE  /\ Total(a, A, N) \in Nat /\ Total(a, B, N) \in Nat
               /\ Total(a, C, N) = Total(a, A, N) + Total(a, B, N)
    <2>1. Splits(Parts(a, C, N), Parts(a, A, N), Parts(a, B, N), N)
      BY <1>0 DEF Splits, Parts, Part
    <2> QED
      BY <2>1, TotalSplit
  <1>1. ASSUME NEW A, NEW B, A \cap B = {}
        PROVE  /\ Total(a, A, N) \in Nat /\ Total(a, B, N) \in Nat
               /\ Total(a, A \cup B, N) = Total(a, A, N) + Total(a, B, N)
    BY <1>0, <1>1
  <1>2. ASSUME NEW A PROVE Total(a, A, N) \in Nat
    <2>1. A \cap {} = {}
      OBVIOUS
    <2> QED
      BY <2>1, <1>1
  <1>3. ASSUME NEW A, NEW B, (1..N) \cap A \subseteq B
        PROVE  Total(a, A, N) <= Total(a, B, N)
    <2>1. PICK C : C = B \ A
      OBVIOUS
    <2>2. Splits(Parts(a, B, N), Parts(a, A, N), Parts(a, C, N), N)
      BY <1>3, <2>1 DEF Splits, Parts, Part
    <2>3. /\ Total(a, A, N) \in Nat /\ Total(a, C, N) \in Nat
          /\ Total(a, B, N) = Total(a, A, N) + Total(a, C, N)
      BY <2>2, TotalSplit, SMTT(30)
    <2> QED
      BY <2>3
  <1>4. ASSUME NEW A, NEW k \in 1..N, k \notin A
        PROVE  Total(a, A \cup {k}, N) = Total(a, A, N) + a[k]
    <2>1. A \cap {k} = {}
      BY <1>4
    <2>2. Total(a, A \cup {k}, N) = Total(a, A, N) + Total(a, {k}, N)
      BY <1>1, <2>1
    <2>3. Total(a, {k}, N) = a[k]
      BY TotalOfOne
    <2> QED
      BY <2>2, <2>3
  <1>5. ASSUME NEW A, (1..N) \cap A = {}
        PROVE  Total(a, A, N) = 0
    <2>1. Splits(Parts(a, A, N), Parts(a, A, N), Parts(a, A, N), N)
      BY <1>5 DEF Splits, Parts, Part
    <2>2. Total(a, A, N) \in Nat /\ Total(a, A, N) = Total(a, A, N) + Total(a, A, N)
      BY <2>1, TotalSplit
    <2> QED
      BY <2>2
  <1> QED
    BY <1>1, <1>2, <1>3, <1>4, <1>5

\* One more fill adds its part and changes nothing else.
LEMMA TotalAppended ==
    ASSUME NEW N \in Nat, NEW a \in [1..N -> Nat], NEW b \in [1..N + 1 -> Nat],
           \A i \in 1..N : b[i] = a[i], NEW A
    PROVE  Total(b, A, N + 1) = Total(a, A, N) + Part(b, A, N + 1)
  <1>0. N + 1 \in Nat
    OBVIOUS
  <1>1. PICK F : Sums(F, b, A, N + 1) /\ Total(b, A, N + 1) = F[N + 1]
    BY <1>0, TotalIs
  <1>2. PICK G : Sums(G, a, A, N) /\ Total(a, A, N) = G[N]
    BY TotalIs
  <1> DEFINE f == Parts(a, A, N)
             zero == [i \in 0..N |-> 0]
  <1>3. Steps(F, Parts(b, A, N + 1), N + 1)
    BY <1>0, <1>1, SumStep
  <1>4. F[N + 1] = F[N] + Part(b, A, N + 1)
    BY <1>3 DEF Steps, Parts
  <1>5. Steps(F, f, N)
    BY <1>3 DEF Steps, Parts, Part
  <1>6. Steps(G, f, N)
    BY <1>2, SumStep
  <1>7. Steps(zero, zero, N)
    BY DEF Steps
  <1>8. Splits(f, f, zero, N) /\ zero[N] = 0
    BY DEF Splits, Parts, Part
  <1> HIDE DEF f, zero
  <1>9. F[N] = G[N] + zero[N] /\ G[N] \in Nat
    BY <1>5, <1>6, <1>7, <1>8, SumsAdd
  <1> QED
    BY <1>1, <1>2, <1>4, <1>8, <1>9

-----------------------------------------------------------------------------
(* The fills of an order *)

Fills == Seq([quantity : Nat \ {0}, fee : Nat, time : Nat])
Tracked == [status : {"new", "submitted", "partially_filled", "filled", "canceled"},
            cumulative : Nat, fee : Nat, fills : SUBSET All, time : Nat]
Boundaries == [time : Nat, cumulative : Nat, hasFee : BOOLEAN]

FillTypes ==
    /\ orderVenue \in {"binance", "bitget"} /\ orderKind \in {"limit", "market"}
    /\ trades \in Fills
    /\ outcome \in {"open", "filled", "canceled"} /\ endTime \in Nat
    /\ told \in BOOLEAN

\* The exchange fills in the order of time, a limit order by its quantity at most.
LastTime == IF outcome = "canceled" THEN endTime ELSE TimeOf(Len(trades))
ExchangeInv ==
    /\ \A i, j \in All : i <= j => TimeOf(i) <= TimeOf(j)
    /\ orderKind = "limit" => /\ QuantityOf(All) <= Quantity
                              /\ outcome = "filled" <=> QuantityOf(All) = Quantity
    /\ outcome = "filled" => trades # << >>
    /\ TimeOf(Len(trades)) <= LastTime

\* What a snapshot covers, and the fills that came on top of it.
Covered(b) == {f \in All : TimeOf(f) <= b.time}
Later(o, b) == {f \in o.fills : TimeOf(f) > b.time}

\* The quantity is that of the last snapshot and of the fills that came later, and
\* the snapshot told no more than was filled by its time.
QuantityHolds(o, b) ==
    /\ o.cumulative = b.cumulative + QuantityOf(Later(o, b))
    /\ QuantityOf(o.fills \ Later(o, b)) <= b.cumulative
    /\ b.cumulative <= QuantityOf(Covered(b))

\* On Binance the fee is that of the fills that are known, all of them in the
\* snapshot; on Bitget that of the snapshot and the later fills, or of the fills.
FeeHolds(o, b) ==
    /\ orderVenue = "binance" =>
          /\ o.fee = FeeOf(o.fills)
          /\ \E k \in 0..Len(trades) : o.cumulative = QuantityOf(1..k) /\ o.fills \subseteq 1..k
    /\ orderVenue = "bitget" /\ b.hasFee =>
          /\ o.fee <= FeeOf(Covered(b) \cup o.fills)
          /\ \E k \in 0..Len(trades) : b.cumulative = QuantityOf(1..k) /\ FeeOf(1..k) > 0
    /\ orderVenue = "bitget" /\ ~b.hasFee => o.fee <= FeeOf(o.fills)

\* An order is over only if it is at the exchange, with all its fills.
StatusHolds(o) ==
    /\ o.status \in Terminal => o.status = outcome /\ o.cumulative = QuantityOf(All)
    /\ o.status = "partially_filled" =>
          o.cumulative > 0 /\ (orderKind = "limit" => o.cumulative < Quantity)

\* Only an acknowledgement, which knows of no fill, can be later than the exchange.
TimeHolds(o, b) ==
    /\ b.time <= o.time /\ \A f \in o.fills : TimeOf(f) <= o.time
    /\ IF o.status = "submitted" THEN o.cumulative = 0 /\ b.time = o.time
                                 ELSE o.time <= LastTime

Sound(o, b) ==
    /\ o \in Tracked /\ b \in Boundaries
    /\ QuantityHolds(o, b) /\ FeeHolds(o, b) /\ StatusHolds(o) /\ TimeHolds(o, b)

\* The inductive invariant of the reconciler.
FillInv ==
    /\ FillTypes /\ ExchangeInv /\ ~refused
    /\ tracked = NoOrder \/ Sound(tracked, boundary)
    /\ told => outcome # "open" /\ tracked # NoOrder
    /\ LastWordCounts

\* A message that tells of the order what it was after its first n fills.
TellsOf(m, n) ==
    /\ m.cumulative = QuantityOf(1..n) /\ m.fills \subseteq 1..n
    /\ TimeOf(n) <= m.time
    /\ m.status # "submitted" => m.time <= LastTime
    /\ m.status = "submitted" => n = 0
    /\ m.status \in Terminal => m.status = outcome /\ n = Len(trades) /\ m.time = LastTime
    /\ m.status = "partially_filled" => n > 0 /\ ~(outcome = "filled" /\ n = Len(trades))
    /\ orderVenue = "binance" => m.fee = FeeOf(m.fills)
    /\ orderVenue = "bitget" => m.fee = FeeOf(1..n) /\ m.fills = {}
Truthful(m) == m \in Tracked /\ \E n \in 0..Len(trades) : TellsOf(m, n)

\* What the exchange has done of the order, as its fills add up.
LEMMA TradeFacts ==
    ASSUME FillTypes
    PROVE  /\ Len(trades) \in Nat /\ All = 1..Len(trades)
           /\ \A n \in All : /\ trades[n].quantity \in Nat \ {0}
                             /\ trades[n].fee \in Nat /\ trades[n].time \in Nat
           /\ TimeOf(0) = 0 /\ \A n \in 0..Len(trades) : TimeOf(n) \in Nat
  <1> DEFINE R == [quantity : Nat \ {0}, fee : Nat, time : Nat]
  <1>1. trades \in Seq(R)
    BY DEF FillTypes, Fills
  <1> HIDE DEF R
  <1>2. /\ Len(trades) \in Nat /\ DOMAIN trades = 1..Len(trades)
        /\ \A n \in 1..Len(trades) : trades[n] \in R
    BY <1>1
  <1> QED
    BY <1>2 DEF TimeOf, All, R

LEMMA QuantityFacts ==
    ASSUME FillTypes
    PROVE  /\ \A A : QuantityOf(A) \in Nat
           /\ \A A, B : A \cap B = {} => QuantityOf(A \cup B) = QuantityOf(A) + QuantityOf(B)
           /\ \A A, B : All \cap A \subseteq B => QuantityOf(A) <= QuantityOf(B)
           /\ \A A : \A k \in All : k \notin A =>
                 QuantityOf(A \cup {k}) = QuantityOf(A) + trades[k].quantity
           /\ \A A : All \cap A = {} => QuantityOf(A) = 0
           /\ \A A, B : \A k \in All : A \subseteq B /\ k \in B \ A =>
                 QuantityOf(A) + trades[k].quantity <= QuantityOf(B)
  <1> DEFINE a == [n \in All |-> trades[n].quantity]
  <1>1. /\ Len(trades) \in Nat /\ All = 1..Len(trades)
        /\ a \in [1..Len(trades) -> Nat] /\ \A k \in All : a[k] = trades[k].quantity
    BY TradeFacts
  <1>2. \A A : QuantityOf(A) = Total(a, A, Len(trades))
    BY DEF QuantityOf
  <1> HIDE DEF a
  <1>3. /\ \A A : QuantityOf(A) \in Nat
        /\ \A A, B : A \cap B = {} => QuantityOf(A \cup B) = QuantityOf(A) + QuantityOf(B)
        /\ \A A, B : All \cap A \subseteq B => QuantityOf(A) <= QuantityOf(B)
        /\ \A A : \A k \in All : k \notin A =>
              QuantityOf(A \cup {k}) = QuantityOf(A) + trades[k].quantity
        /\ \A A : All \cap A = {} => QuantityOf(A) = 0
    BY <1>1, <1>2, TotalFacts
  <1>4. ASSUME NEW A, NEW B, NEW k \in All, A \subseteq B, k \in B \ A
        PROVE  QuantityOf(A) + trades[k].quantity <= QuantityOf(B)
    <2>1. QuantityOf(A \cup {k}) = QuantityOf(A) + trades[k].quantity
      BY <1>3, <1>4
    <2>2. All \cap (A \cup {k}) \subseteq B
      BY <1>4
    <2> QED
      BY <1>3, <2>1, <2>2
  <1> QED
    BY <1>3, <1>4

LEMMA FeeFacts ==
    ASSUME FillTypes
    PROVE  /\ \A A : FeeOf(A) \in Nat
           /\ \A A, B : All \cap A \subseteq B => FeeOf(A) <= FeeOf(B)
           /\ \A A : \A k \in All : k \notin A => FeeOf(A \cup {k}) = FeeOf(A) + trades[k].fee
           /\ \A A : All \cap A = {} => FeeOf(A) = 0
  <1> DEFINE a == [n \in All |-> trades[n].fee]
  <1>1. /\ Len(trades) \in Nat /\ All = 1..Len(trades)
        /\ a \in [1..Len(trades) -> Nat] /\ \A k \in All : a[k] = trades[k].fee
    BY TradeFacts
  <1>2. \A A : FeeOf(A) = Total(a, A, Len(trades))
    BY DEF FeeOf
  <1> HIDE DEF a
  <1> QED
    BY <1>1, <1>2, TotalFacts

\* More of the first fills have more quantity, and later times.
LEMMA EarlyFills ==
    ASSUME FillTypes, ExchangeInv, NEW n \in 0..Len(trades)
    PROVE  /\ QuantityOf(1..n) <= QuantityOf(All)
           /\ n = 0 => QuantityOf(1..n) = 0
           /\ n > 0 => QuantityOf(1..n) > 0
           /\ n = Len(trades) => 1..n = All
           /\ n < Len(trades) => QuantityOf(1..n) < QuantityOf(All)
           /\ \A k \in 0..Len(trades) : QuantityOf(1..k) <= QuantityOf(1..n) => k <= n
           /\ \A k \in 0..n : TimeOf(k) <= TimeOf(n)
           /\ 1..n \subseteq All
  <1>1. /\ Len(trades) \in Nat /\ All = 1..Len(trades)
        /\ \A k \in All : trades[k].quantity \in Nat \ {0}
        /\ TimeOf(0) = 0 /\ \A k \in 0..Len(trades) : TimeOf(k) \in Nat
    BY TradeFacts
  <1>2. QuantityOf(1..n) <= QuantityOf(All) /\ 1..n \subseteq All
    <2>1. All \cap (1..n) \subseteq All /\ 1..n \subseteq All
      BY <1>1
    <2> QED
      BY <2>1, QuantityFacts
  <1>3. ASSUME NEW k \in 0..Len(trades), NEW l \in 0..Len(trades), k < l
        PROVE  QuantityOf(1..k) < QuantityOf(1..l)
    <2>1. 1..k \subseteq 1..l /\ l \in (1..l) \ (1..k) /\ l \in All
      BY <1>1, <1>3
    <2>2. QuantityOf(1..k) + trades[l].quantity <= QuantityOf(1..l)
      BY <2>1, QuantityFacts
    <2>3. QuantityOf(1..k) \in Nat /\ QuantityOf(1..l) \in Nat /\ trades[l].quantity \in Nat \ {0}
      BY <1>1, <2>1, QuantityFacts
    <2> QED
      BY <2>2, <2>3
  <1>4. n = 0 => QuantityOf(1..n) = 0
    <2>1. n = 0 => All \cap (1..n) = {}
      OBVIOUS
    <2> QED
      BY <2>1, QuantityFacts
  <1>5. QuantityOf(1..0) = 0
    <2>1. All \cap (1..0) = {}
      OBVIOUS
    <2> QED
      BY <2>1, QuantityFacts
  <1>6. n > 0 => QuantityOf(1..n) > 0
    BY <1>1, <1>3, <1>5
  <1>7. n < Len(trades) => QuantityOf(1..n) < QuantityOf(All)
    BY <1>1, <1>3
  <1>8. ASSUME NEW k \in 0..Len(trades), QuantityOf(1..k) <= QuantityOf(1..n)
        PROVE  k <= n
    <2>1. n < k => QuantityOf(1..n) < QuantityOf(1..k)
      BY <1>3
    <2>2. QuantityOf(1..n) \in Nat /\ QuantityOf(1..k) \in Nat /\ n \in Nat /\ k \in Nat
      BY <1>1, QuantityFacts
    <2> QED
      BY <1>8, <2>1, <2>2
  <1>9. \A k \in 0..n : TimeOf(k) <= TimeOf(n)
    BY <1>1 DEF ExchangeInv
  <1> QED
    BY <1>1, <1>2, <1>4, <1>6, <1>7, <1>8, <1>9

-----------------------------------------------------------------------------
(* What the reconciler holds *)

\* The quantities bound what is held by what the exchange has filled.
LEMMA QuantityBound ==
    ASSUME FillTypes, NEW o \in Tracked, NEW b \in Boundaries, QuantityHolds(o, b)
    PROVE  o.cumulative <= QuantityOf(All)
  <1>1. /\ o.cumulative = b.cumulative + QuantityOf(Later(o, b))
        /\ b.cumulative <= QuantityOf(Covered(b))
        /\ o.cumulative \in Nat /\ b.cumulative \in Nat
    BY DEF QuantityHolds, Tracked, Boundaries
  <1>2. Covered(b) \cap Later(o, b) = {} /\ All \cap (Covered(b) \cup Later(o, b)) \subseteq All
    BY TradeFacts DEF Covered, Later, Boundaries, Tracked
  <1>3. /\ QuantityOf(Covered(b) \cup Later(o, b))
           = QuantityOf(Covered(b)) + QuantityOf(Later(o, b))
        /\ QuantityOf(Covered(b) \cup Later(o, b)) <= QuantityOf(All)
    BY <1>2, QuantityFacts
  <1>4. /\ QuantityOf(Later(o, b)) \in Nat /\ QuantityOf(Covered(b)) \in Nat
        /\ QuantityOf(All) \in Nat
    BY QuantityFacts
  <1> QED
    BY <1>1, <1>3, <1>4

\* What it holds is no more than the exchange has done, and a valid order.
LEMMA SoundBounds ==
    ASSUME FillTypes, ExchangeInv, NEW o, NEW b, Sound(o, b)
    PROVE  /\ o.cumulative <= QuantityOf(All) /\ o.fee <= FeeOf(All)
           /\ QuantityOf(o.fills) <= o.cumulative
           /\ ValidOrder(o)
  <1>1. /\ o \in Tracked /\ b \in Boundaries /\ o.fills \subseteq All
        /\ o.cumulative \in Nat /\ o.fee \in Nat /\ b.cumulative \in Nat
        /\ QuantityHolds(o, b) /\ FeeHolds(o, b) /\ StatusHolds(o)
    BY DEF Sound, Tracked, Boundaries
  <1>2. /\ o.cumulative = b.cumulative + QuantityOf(Later(o, b))
        /\ QuantityOf(o.fills \ Later(o, b)) <= b.cumulative
        /\ b.cumulative <= QuantityOf(Covered(b))
    BY <1>1 DEF QuantityHolds
  <1>3. /\ QuantityOf(Later(o, b)) \in Nat /\ QuantityOf(Covered(b)) \in Nat
        /\ QuantityOf(o.fills \ Later(o, b)) \in Nat /\ QuantityOf(All) \in Nat
        /\ QuantityOf(o.fills) \in Nat
    BY QuantityFacts
  <1>4. o.cumulative <= QuantityOf(All)
    BY <1>1, QuantityBound
  <1>5. QuantityOf(o.fills) <= o.cumulative
    <2>1. /\ (o.fills \ Later(o, b)) \cap Later(o, b) = {}
          /\ (o.fills \ Later(o, b)) \cup Later(o, b) = o.fills
      BY DEF Later
    <2>2. QuantityOf(o.fills) = QuantityOf(o.fills \ Later(o, b)) + QuantityOf(Later(o, b))
      BY <2>1, QuantityFacts
    <2> QED
      BY <1>1, <1>2, <1>3, <2>2
  <1>6. o.fee <= FeeOf(All)
    <2>1. All \cap o.fills \subseteq All /\ All \cap (Covered(b) \cup o.fills) \subseteq All
      OBVIOUS
    <2>2. FeeOf(o.fills) <= FeeOf(All) /\ FeeOf(Covered(b) \cup o.fills) <= FeeOf(All)
          /\ FeeOf(o.fills) \in Nat /\ FeeOf(Covered(b) \cup o.fills) \in Nat /\ FeeOf(All) \in Nat
      BY <2>1, FeeFacts
    <2>3. b.hasFee \in BOOLEAN /\ orderVenue \in {"binance", "bitget"}
      BY <1>1 DEF Boundaries, FillTypes
    <2>4. \/ o.fee = FeeOf(o.fills)
          \/ o.fee <= FeeOf(Covered(b) \cup o.fills)
          \/ o.fee <= FeeOf(o.fills)
      BY <1>1, <2>3 DEF FeeHolds
    <2> QED
      BY <1>1, <2>2, <2>4
  <1>7. orderKind = "limit" => QuantityOf(All) <= Quantity
    BY DEF ExchangeInv
  <1>8. outcome = "filled" => QuantityOf(All) > 0
    <2>1. outcome = "filled" => Len(trades) > 0
      <3> DEFINE R == [quantity : Nat \ {0}, fee : Nat, time : Nat]
      <3>1. trades \in Seq(R) /\ (outcome = "filled" => trades # << >>)
        BY DEF FillTypes, Fills, ExchangeInv
      <3> HIDE DEF R
      <3> QED
        BY <3>1
    <2>2. Len(trades) \in 0..Len(trades)
      BY TradeFacts
    <2> QED
      BY <2>1, <2>2, EarlyFills
  <1>9. Quantity \in Nat
    BY FillAssumption
  <1>10. o.status = "filled" =>
            IF orderKind = "limit" THEN o.cumulative = Quantity ELSE o.cumulative > 0
    BY <1>1, <1>8 DEF StatusHolds, Terminal, ExchangeInv
  <1> QED
    BY <1>1, <1>3, <1>4, <1>5, <1>6, <1>7, <1>9, <1>10 DEF ValidOrder, StatusHolds

\* Every message about an order tells what it was after some of its fills.
LEMMA ViewsAreTruthful ==
    ASSUME FillTypes, ExchangeInv
    PROVE  /\ \A m \in OrderViews : Truthful(m) /\ m.status # "submitted"
           /\ outcome = "canceled" => Truthful(CanceledView) /\ CanceledView.status = "canceled"
           /\ orderVenue = "bitget" =>
                 \A at \in 0..(TimeOf(Len(trades)) + 1) :
                    Truthful(Acknowledgement(at)) /\ Acknowledgement(at).status = "submitted"
  <1>1. /\ Len(trades) \in Nat /\ All = 1..Len(trades)
        /\ \A n \in 0..Len(trades) : TimeOf(n) \in Nat
        /\ TimeOf(Len(trades)) \in Nat
    BY TradeFacts
  <1>2. /\ \A A : FeeOf(A) \in Nat /\ QuantityOf(A) \in Nat
        /\ FeeOf({}) = 0 /\ FeeOf(1..0) = 0 /\ QuantityOf(1..0) = 0
    <2>1. All \cap {} = {} /\ All \cap (1..0) = {}
      OBVIOUS
    <2> QED
      BY <2>1, FeeFacts, QuantityFacts
  <1>3. ASSUME NEW n \in 0..Len(trades), NEW fee, NEW fills, fills \subseteq 1..n,
               \/ orderVenue = "binance" /\ fee = FeeOf(fills)
               \/ orderVenue = "bitget" /\ fee = FeeOf(1..n) /\ fills = {}
        PROVE  /\ Truthful(OrderAfter(n, fee, fills))
               /\ OrderAfter(n, fee, fills).status # "submitted"
    <2> DEFINE m == OrderAfter(n, fee, fills)
    <2>1. /\ m.status \in {"filled", "new", "partially_filled"}
          /\ m.cumulative = QuantityOf(1..n) /\ m.fee = fee /\ m.fills = fills
          /\ m.time = TimeOf(n)
          /\ m.status = "filled" => outcome = "filled" /\ n = Len(trades)
          /\ m.status = "partially_filled" => n # 0 /\ ~(outcome = "filled" /\ n = Len(trades))
      BY DEF OrderAfter
    <2>2. m \in Tracked
      <3>1. fills \in SUBSET All /\ fee \in Nat
        BY <1>1, <1>2, <1>3
      <3> QED
        BY <1>1, <1>2, <3>1 DEF Tracked, OrderAfter
    <2>3. TimeOf(n) <= LastTime /\ (outcome = "filled" /\ n = Len(trades) => TimeOf(n) = LastTime)
      <3>1. TimeOf(n) <= TimeOf(Len(trades)) /\ TimeOf(n) \in Nat
        <4>1. Len(trades) \in 0..Len(trades) /\ n \in 0..Len(trades)
          BY <1>1
        <4> QED
          BY <1>1, <4>1, EarlyFills
      <3>2. TimeOf(Len(trades)) <= LastTime /\ LastTime \in Nat
        BY <1>1 DEF ExchangeInv, LastTime, FillTypes
      <3> QED
        BY <1>1, <3>1, <3>2 DEF LastTime
    <2> HIDE DEF m
    <2>4. TellsOf(m, n)
      BY <1>1, <1>3, <2>1, <2>3 DEF TellsOf, Terminal
    <2>5. Truthful(m)
      BY <2>2, <2>4 DEF Truthful
    <2> QED
      BY <2>1, <2>5 DEF m
  <1>4. ASSUME NEW m \in OrderViews PROVE Truthful(m) /\ m.status # "submitted"
    <2>1. CASE orderVenue = "bitget"
      <3>1. PICK n \in 0..Len(trades) : m = OrderAfter(n, FeeOf(1..n), {})
        BY <2>1 DEF OrderViews
      <3>2. {} \subseteq 1..n
        OBVIOUS
      <3> QED
        BY <1>3, <2>1, <3>1, <3>2
    <2>2. CASE orderVenue = "binance"
      <3>1. \/ \E n \in 0..Len(trades) : m = OrderAfter(n, 0, {})
            \/ \E n \in All : m = OrderAfter(n, FeeOf({n}), {n})
            \/ \E n \in All : m = OrderAfter(n, FeeOf(1..n), 1..n)
        BY <2>2 DEF OrderViews
      <3>2. CASE \E n \in 0..Len(trades) : m = OrderAfter(n, 0, {})
        <4>1. PICK n \in 0..Len(trades) : m = OrderAfter(n, 0, {})
          BY <3>2
        <4>2. {} \subseteq 1..n /\ 0 = FeeOf({})
          BY <1>2
        <4> QED
          BY <1>3, <2>2, <4>1, <4>2
      <3>3. CASE \E n \in All : m = OrderAfter(n, FeeOf({n}), {n})
        <4>1. PICK n \in All : m = OrderAfter(n, FeeOf({n}), {n})
          BY <3>3
        <4>2. {n} \subseteq 1..n /\ n \in 0..Len(trades)
          BY <1>1
        <4> QED
          BY <1>3, <2>2, <4>1, <4>2
      <3>4. CASE \E n \in All : m = OrderAfter(n, FeeOf(1..n), 1..n)
        <4>1. PICK n \in All : m = OrderAfter(n, FeeOf(1..n), 1..n)
          BY <3>4
        <4>2. 1..n \subseteq 1..n /\ n \in 0..Len(trades)
          BY <1>1
        <4> QED
          BY <1>3, <2>2, <4>1, <4>2
      <3> QED
        BY <3>1, <3>2, <3>3, <3>4
    <2> QED
      BY <2>1, <2>2 DEF FillTypes
  <1>5. ASSUME outcome = "canceled"
        PROVE  Truthful(CanceledView) /\ CanceledView.status = "canceled"
    <2> DEFINE m == CanceledView
               N == Len(trades)
               fee == IF orderVenue = "bitget" THEN FeeOf(All) ELSE 0
    <2>0. OrderAfter(N, fee, {}) \in Tracked
          /\ OrderAfter(N, fee, {}).cumulative = QuantityOf(1..N)
          /\ OrderAfter(N, fee, {}).fee = fee /\ OrderAfter(N, fee, {}).fills = {}
      BY <1>1, <1>2 DEF OrderAfter, Tracked
    <2>1. /\ m = [OrderAfter(N, fee, {}) EXCEPT !.status = "canceled", !.time = endTime]
          /\ endTime \in Nat
      BY DEF CanceledView, FillTypes
    <2>2. /\ m \in Tracked
          /\ m.status = "canceled" /\ m.cumulative = QuantityOf(1..N) /\ m.fee = fee
          /\ m.fills = {} /\ m.time = endTime
      <3> DEFINE r == OrderAfter(N, fee, {})
      <3> HIDE DEF r, m
      <3> QED
        BY <2>0, <2>1 DEF Tracked, r
    <2>3. endTime = LastTime /\ TimeOf(N) <= endTime /\ endTime \in Nat
      BY <1>5 DEF ExchangeInv, LastTime, FillTypes
    <2>4. FeeOf(All) = FeeOf(1..N) /\ N \in 0..N
      BY <1>1
    <2> HIDE DEF m
    <2>5. TellsOf(m, N)
      BY <1>1, <1>2, <1>5, <2>2, <2>3, <2>4 DEF TellsOf, Terminal
    <2>6. Truthful(m)
      BY <2>2, <2>4, <2>5 DEF Truthful
    <2> QED
      BY <2>2, <2>6 DEF m
  <1>6. ASSUME orderVenue = "bitget", NEW at \in 0..(TimeOf(Len(trades)) + 1)
        PROVE  Truthful(Acknowledgement(at)) /\ Acknowledgement(at).status = "submitted"
    <2> DEFINE m == Acknowledgement(at)
    <2>1. m = [status |-> "submitted", cumulative |-> 0, fee |-> 0, fills |-> {}, time |-> at]
      BY DEF Acknowledgement
    <2>2. m \in Tracked
      BY <1>1, <2>1 DEF Tracked
    <2>3. TimeOf(0) <= at /\ 0 \in 0..Len(trades)
      BY <1>1, TradeFacts
    <2> HIDE DEF m
    <2>4. TellsOf(m, 0)
      BY <1>2, <1>6, <2>1, <2>3 DEF TellsOf, Terminal
    <2>5. Truthful(m)
      BY <2>2, <2>3, <2>4 DEF Truthful
    <2> QED
      BY <2>1, <2>5 DEF m
  <1> QED
    BY <1>4, <1>5, <1>6

\* A view makes what is held sound, whatever fills are known besides it.
LEMMA SoundView ==
    ASSUME FillTypes, ExchangeInv, NEW m \in Tracked, NEW n \in 0..Len(trades), TellsOf(m, n),
           NEW o \in Tracked, NEW hasFee \in BOOLEAN,
           o.status = m.status, o.cumulative = m.cumulative, o.time = m.time,
           \A f \in o.fills : TimeOf(f) <= o.time,
           QuantityOf(o.fills) <= o.cumulative,
           FeeHolds(o, Boundary(o, hasFee))
    PROVE  Sound(o, Boundary(o, hasFee))
  <1> DEFINE b == Boundary(o, hasFee)
  <1>1. /\ b \in Boundaries /\ b.time = o.time /\ b.cumulative = o.cumulative
        /\ o.cumulative \in Nat /\ o.time \in Nat /\ o.fills \subseteq All
    BY DEF Boundary, Boundaries, Tracked
  <1> HIDE DEF b
  <1>2. \A k \in All : TimeOf(k) \in Nat
    BY TradeFacts
  <1>3. QuantityHolds(o, b)
    <2>1. All \cap Later(o, b) = {} /\ o.fills \ Later(o, b) = o.fills
      BY <1>1, <1>2 DEF Later
    <2>2. QuantityOf(Later(o, b)) = 0
      BY <2>1, QuantityFacts
    <2>3. All \cap (1..n) \subseteq Covered(b)
      <3>1. \A k \in 1..n : k \in All /\ TimeOf(k) <= TimeOf(n)
        BY TradeFacts, EarlyFills
      <3>2. TimeOf(n) <= o.time /\ TimeOf(n) \in Nat
        BY TradeFacts DEF TellsOf
      <3> QED
        BY <1>1, <1>2, <3>1, <3>2 DEF Covered
    <2>4. QuantityOf(1..n) <= QuantityOf(Covered(b)) /\ o.cumulative = QuantityOf(1..n)
      BY <2>3, QuantityFacts DEF TellsOf
    <2>5. QuantityOf(o.fills \ Later(o, b)) = QuantityOf(o.fills)
      BY <2>1
    <2> QED
      BY <1>1, <2>2, <2>4, <2>5 DEF QuantityHolds
  <1>4. StatusHolds(o)
    <2>1. o.status \in Terminal => o.status = outcome /\ o.cumulative = QuantityOf(All)
      BY EarlyFills DEF TellsOf
    <2>2. ASSUME o.status = "partially_filled"
          PROVE  o.cumulative > 0 /\ (orderKind = "limit" => o.cumulative < Quantity)
      <3>1. n > 0 /\ ~(outcome = "filled" /\ n = Len(trades)) /\ o.cumulative = QuantityOf(1..n)
        BY <2>2 DEF TellsOf
      <3>2. o.cumulative > 0
        BY <3>1, EarlyFills
      <3>3. orderKind = "limit" => QuantityOf(All) <= Quantity
                                   /\ (outcome # "filled" => QuantityOf(All) # Quantity)
        BY DEF ExchangeInv
      <3>4. n = Len(trades) \/ n < Len(trades)
        BY TradeFacts
      <3>5. QuantityOf(All) \in Nat /\ Quantity \in Nat
        BY QuantityFacts, FillAssumption
      <3>6. /\ n = Len(trades) => o.cumulative = QuantityOf(All) /\ outcome # "filled"
            /\ n < Len(trades) => o.cumulative < QuantityOf(All)
        BY <3>1, EarlyFills
      <3> QED
        BY <1>1, <3>2, <3>3, <3>4, <3>5, <3>6
    <2> QED
      BY <2>1, <2>2 DEF StatusHolds
  <1>5. TimeHolds(o, b)
    <2>1. o.status # "submitted" => o.time <= LastTime
      BY DEF TellsOf
    <2>2. o.status = "submitted" => o.cumulative = 0
      BY EarlyFills DEF TellsOf
    <2> QED
      BY <1>1, <2>1, <2>2 DEF TimeHolds
  <1> QED
    BY <1>1, <1>3, <1>4, <1>5 DEF Sound, b

\* The first message that is taken over as it is.
LEMMA SoundFirst ==
    ASSUME FillTypes, ExchangeInv, NEW m, Truthful(m)
    PROVE  Sound(m, Boundary(m, m.fee # 0 /\ m.fills = {}))
  <1> DEFINE hasFee == m.fee # 0 /\ m.fills = {}
             b == Boundary(m, hasFee)
  <1>1. m \in Tracked /\ hasFee \in BOOLEAN
    BY DEF Truthful
  <1>2. PICK n \in 0..Len(trades) : TellsOf(m, n)
    BY DEF Truthful
  <1>3. /\ m.cumulative = QuantityOf(1..n) /\ m.fills \subseteq 1..n /\ TimeOf(n) <= m.time
        /\ orderVenue = "binance" => m.fee = FeeOf(m.fills)
        /\ orderVenue = "bitget" => m.fee = FeeOf(1..n) /\ m.fills = {}
        /\ m.fills \subseteq All /\ m.time \in Nat /\ m.fee \in Nat
    BY <1>1, <1>2 DEF TellsOf, Tracked
  <1>4. \A f \in m.fills : TimeOf(f) <= m.time
    <2>1. \A k \in 1..n : TimeOf(k) <= TimeOf(n) /\ TimeOf(k) \in Nat /\ TimeOf(n) \in Nat
      BY TradeFacts, EarlyFills
    <2> QED
      BY <1>3, <2>1
  <1>5. QuantityOf(m.fills) <= m.cumulative
    <2>1. All \cap m.fills \subseteq 1..n
      BY <1>3
    <2> QED
      BY <1>3, <2>1, QuantityFacts
  <1>6. FeeHolds(m, b)
    <2>1. /\ b.hasFee => m.fee # 0
          /\ ~b.hasFee => m.fee = 0 \/ m.fills # {}
          /\ b.cumulative = m.cumulative /\ b.time = m.time
      BY DEF Boundary
    <2>2. \A A : FeeOf(A) \in Nat
      BY FeeFacts
    <2>3. All \cap (1..n) \subseteq Covered(b) \cup m.fills
      <3>1. \A k \in 1..n : k \in All /\ TimeOf(k) <= TimeOf(n) /\ TimeOf(k) \in Nat /\ TimeOf(n) \in Nat
        BY TradeFacts, EarlyFills
      <3> QED
        BY <1>3, <2>1, <3>1 DEF Covered
    <2>4. FeeOf(1..n) <= FeeOf(Covered(b) \cup m.fills)
      BY <2>3, FeeFacts
    <2> HIDE DEF b
    <2>5. orderVenue = "bitget" /\ b.hasFee =>
             /\ m.fee <= FeeOf(Covered(b) \cup m.fills)
             /\ b.cumulative = QuantityOf(1..n) /\ FeeOf(1..n) > 0
      BY <1>3, <2>1, <2>2, <2>4
    <2>6. orderVenue = "bitget" /\ ~b.hasFee => m.fee <= FeeOf(m.fills)
      BY <1>3, <2>1, <2>2
    <2> QED
      BY <1>3, <2>5, <2>6 DEF FeeHolds
  <1> QED
    BY <1>1, <1>2, <1>4, <1>5, <1>6, SoundView

\* A view merged into what is held, as ApplyOrder does it.
Merged(m) == [m EXCEPT !.fills = tracked.fills \cup m.fills,
                       !.fee = MergedFee(m, tracked.fills \cup m.fills)]
Carried(m) == /\ m.fee = 0 /\ tracked.fee # 0
              /\ m.cumulative = boundary.cumulative /\ boundary.hasFee
HasFee(m) == (m.fee # 0 /\ m.fills = {}) \/ Carried(m)

LEMMA MergedIs ==
    ASSUME FillTypes, NEW m \in Tracked, tracked \in Tracked
    PROVE  /\ Merged(m) \in Tracked /\ HasFee(m) \in BOOLEAN
           /\ Merged(m).status = m.status /\ Merged(m).cumulative = m.cumulative
           /\ Merged(m).time = m.time /\ Merged(m).fills = tracked.fills \cup m.fills
           /\ Merged(m).fee = MergedFee(m, tracked.fills \cup m.fills)
           /\ m.fee \in Nat /\ tracked.fee \in Nat
  <1> DEFINE fills == tracked.fills \cup m.fills
             fee == MergedFee(m, fills)
  <1>1. m.fee \in Nat /\ tracked.fee \in Nat /\ FeeOf(fills) \in Nat /\ fills \in SUBSET All
    BY FeeFacts DEF Tracked
  <1>2. fee \in Nat
    BY <1>1 DEF MergedFee
  <1> HIDE DEF fills, fee
  <1>3. Merged(m) = [m EXCEPT !.fills = fills, !.fee = fee]
    BY DEF Merged, fills, fee
  <1>4. /\ Merged(m) \in Tracked
        /\ Merged(m).status = m.status /\ Merged(m).cumulative = m.cumulative
        /\ Merged(m).time = m.time /\ Merged(m).fills = fills /\ Merged(m).fee = fee
    BY <1>1, <1>2, <1>3 DEF Tracked
  <1>5. HasFee(m) \in BOOLEAN
    BY DEF HasFee
  <1> QED
    BY <1>1, <1>4, <1>5 DEF fills, fee

LEMMA SoundMerged ==
    ASSUME FillTypes, ExchangeInv, Sound(tracked, boundary),
           NEW m, Truthful(m), ~Stale(m)
    PROVE  Sound(Merged(m), Boundary(Merged(m), HasFee(m)))
  <1> DEFINE o == Merged(m)
             b == Boundary(o, HasFee(m))
             fills == tracked.fills \cup m.fills
  <1>1. /\ m \in Tracked /\ tracked \in Tracked /\ boundary \in Boundaries
        /\ QuantityHolds(tracked, boundary) /\ FeeHolds(tracked, boundary)
        /\ TimeHolds(tracked, boundary)
    BY DEF Truthful, Sound
  <1>2. PICK n \in 0..Len(trades) : TellsOf(m, n)
    BY DEF Truthful
  <1>3. /\ m.cumulative = QuantityOf(1..n) /\ m.fills \subseteq 1..n /\ TimeOf(n) <= m.time
        /\ orderVenue = "binance" => m.fee = FeeOf(m.fills)
        /\ orderVenue = "bitget" => m.fee = FeeOf(1..n) /\ m.fills = {}
    BY <1>2 DEF TellsOf
  <1>4. /\ o \in Tracked /\ HasFee(m) \in BOOLEAN
        /\ o.status = m.status /\ o.cumulative = m.cumulative /\ o.time = m.time
        /\ o.fills = fills /\ o.fee = MergedFee(m, fills)
        /\ m.fee \in Nat /\ tracked.fee \in Nat
    BY <1>1, MergedIs
  <1>5. /\ tracked.time <= m.time /\ tracked.cumulative <= m.cumulative
        /\ tracked.time \in Nat /\ m.time \in Nat
        /\ tracked.cumulative \in Nat /\ m.cumulative \in Nat
        /\ tracked.fills \subseteq All /\ m.fills \subseteq All
    BY <1>1 DEF Stale, Tracked
  <1>6. \A f \in fills : TimeOf(f) <= m.time
    <2>1. \A f \in tracked.fills : TimeOf(f) <= tracked.time
      BY <1>1 DEF TimeHolds
    <2>2. \A k \in 1..n : TimeOf(k) <= TimeOf(n) /\ TimeOf(k) \in Nat /\ TimeOf(n) \in Nat
      BY TradeFacts, EarlyFills
    <2>3. \A k \in All : TimeOf(k) \in Nat
      BY TradeFacts
    <2> QED
      BY <1>3, <1>5, <2>1, <2>2, <2>3
  <1>7. orderVenue = "binance" => fills \subseteq 1..n
    <2>1. ASSUME orderVenue = "binance" PROVE tracked.fills \subseteq 1..n
      <3>1. PICK k \in 0..Len(trades) : tracked.cumulative = QuantityOf(1..k)
                                        /\ tracked.fills \subseteq 1..k
        BY <1>1, <2>1 DEF FeeHolds
      <3>2. k <= n
        BY <1>3, <1>5, <3>1, EarlyFills
      <3> QED
        BY <3>1, <3>2
    <2> QED
      BY <1>3, <2>1
  <1>8. QuantityOf(fills) <= m.cumulative
    <2>1. CASE orderVenue = "binance"
      <3>1. All \cap fills \subseteq 1..n
        BY <1>7, <2>1
      <3> QED
        BY <1>3, <3>1, QuantityFacts
    <2>2. CASE orderVenue = "bitget"
      <3>1. fills = tracked.fills
        BY <1>3, <2>2
      <3>2. QuantityOf(tracked.fills) <= tracked.cumulative /\ QuantityOf(tracked.fills) \in Nat
        BY SoundBounds, QuantityFacts
      <3> HIDE DEF fills
      <3> QED
        BY <1>5, <3>1, <3>2
    <2> QED
      BY <2>1, <2>2 DEF FillTypes
  <1>9. /\ b.time = m.time /\ b.cumulative = m.cumulative /\ (b.hasFee <=> HasFee(m))
    BY <1>4 DEF Boundary
  <1>10. \A A : FeeOf(A) \in Nat
    BY FeeFacts
  <1> HIDE DEF b, o, fills
  <1>11. ASSUME orderVenue = "binance"
         PROVE  o.fee = FeeOf(o.fills)
    <2>1. FeeOf(tracked.fills) <= FeeOf(fills) /\ FeeOf(m.fills) <= FeeOf(fills)
      <3>1. All \cap tracked.fills \subseteq fills /\ All \cap m.fills \subseteq fills
        BY DEF fills
      <3> QED
        BY <3>1, FeeFacts
    <2>2. tracked.fee = FeeOf(tracked.fills) /\ m.fee = FeeOf(m.fills)
      BY <1>1, <1>3, <1>11 DEF FeeHolds
    <2> QED
      BY <1>4, <1>10, <2>1, <2>2 DEF MergedFee
  <1>12. ASSUME orderVenue = "bitget", m.fee # 0
         PROVE  /\ o.fee <= FeeOf(Covered(b) \cup o.fills) /\ FeeOf(1..n) > 0 /\ HasFee(m)
    <2>1. All \cap (1..n) \subseteq Covered(b) \cup fills
      <3>1. \A k \in 1..n : k \in All /\ TimeOf(k) <= TimeOf(n) /\ TimeOf(k) \in Nat /\ TimeOf(n) \in Nat
        BY TradeFacts, EarlyFills
      <3> QED
        BY <1>3, <1>5, <1>9, <3>1 DEF Covered
    <2>2. FeeOf(1..n) <= FeeOf(Covered(b) \cup fills) /\ FeeOf(fills) <= FeeOf(Covered(b) \cup fills)
      <3>1. All \cap fills \subseteq Covered(b) \cup fills
        OBVIOUS
      <3> QED
        BY <2>1, <3>1, FeeFacts
    <2>3. o.fee = IF FeeOf(fills) > m.fee THEN FeeOf(fills) ELSE m.fee
      BY <1>4, <1>12 DEF MergedFee
    <2> QED
      BY <1>3, <1>4, <1>10, <1>12, <2>2, <2>3 DEF HasFee
  <1>13. ASSUME orderVenue = "bitget", m.fee = 0
         PROVE  o.fee <= FeeOf(o.fills) /\ ~HasFee(m)
    <2>1. ~boundary.hasFee
      <3> SUFFICES ASSUME boundary.hasFee PROVE FALSE
        OBVIOUS
      <3>1. PICK k \in 0..Len(trades) : boundary.cumulative = QuantityOf(1..k) /\ FeeOf(1..k) > 0
        BY <1>1, <1>13 DEF FeeHolds
      <3>2. boundary.cumulative <= tracked.cumulative
        <4>1. QuantityOf(Later(tracked, boundary)) \in Nat /\ boundary.cumulative \in Nat
              /\ tracked.cumulative = boundary.cumulative + QuantityOf(Later(tracked, boundary))
          BY <1>1, QuantityFacts DEF QuantityHolds, Boundaries
        <4> QED
          BY <4>1
      <3>3. boundary.cumulative \in Nat
        BY <1>1 DEF Boundaries
      <3>4. QuantityOf(1..k) <= QuantityOf(1..n)
        BY <1>3, <1>5, <3>1, <3>2, <3>3
      <3>5. k <= n
        BY <3>4, EarlyFills
      <3>6. All \cap (1..k) \subseteq 1..n
        BY <3>5
      <3>7. FeeOf(1..k) <= FeeOf(1..n)
        BY <3>6, FeeFacts
      <3> QED
        BY <1>3, <1>10, <1>13, <3>1, <3>7
    <2>2. tracked.fee <= FeeOf(tracked.fills)
      BY <1>1, <1>13, <2>1 DEF FeeHolds
    <2>3. FeeOf(tracked.fills) <= FeeOf(fills)
      <3>1. All \cap tracked.fills \subseteq fills
        BY DEF fills
      <3> QED
        BY <3>1, FeeFacts
    <2>4. o.fee = IF FeeOf(fills) > tracked.fee THEN FeeOf(fills) ELSE tracked.fee
      BY <1>4, <1>13 DEF MergedFee
    <2> QED
      BY <1>4, <1>10, <1>13, <2>1, <2>2, <2>3, <2>4 DEF HasFee, Carried
  <1>14. FeeHolds(o, b)
    <2>1. orderVenue = "binance" =>
             o.cumulative = QuantityOf(1..n) /\ o.fills \subseteq 1..n
      BY <1>3, <1>4, <1>7
    <2>2. orderVenue = "bitget" => b.cumulative = QuantityOf(1..n)
      BY <1>3, <1>9
    <2> QED
      BY <1>9, <1>11, <1>12, <1>13, <2>1, <2>2 DEF FeeHolds
  <1>15. /\ \A f \in o.fills : TimeOf(f) <= o.time
         /\ QuantityOf(o.fills) <= o.cumulative
    BY <1>4, <1>6, <1>8
  <1>16. FeeHolds(o, Boundary(o, HasFee(m)))
    BY <1>14 DEF b
  <1>17. Sound(o, Boundary(o, HasFee(m)))
    BY <1>1, <1>2, <1>4, <1>15, <1>16, SoundView
  <1> QED
    BY <1>17 DEF o

LEMMA MaxOfTwo ==
    ASSUME NEW x \in Nat, NEW y \in Nat
    PROVE  Max({x, y}) = IF x >= y THEN x ELSE y
  <1> DEFINE z == IF x >= y THEN x ELSE y
  <1>1. z \in {x, y} /\ \A w \in {x, y} : z >= w
    OBVIOUS
  <1>2. \A v \in {x, y} : (\A w \in {x, y} : v >= w) => v = z
    OBVIOUS
  <1> QED
    BY <1>1, <1>2 DEF Max

\* A fill that is taken over, as ApplyFill does it.
IsNew(n) == TimeOf(n) > boundary.time
SumWith(n) == tracked.cumulative + (IF IsNew(n) THEN trades[n].quantity ELSE 0)
StatusWith(n) == IF tracked.status \in Terminal THEN tracked.status
                 ELSE IF orderKind = "limit" /\ SumWith(n) = Quantity THEN "filled"
                 ELSE IF SumWith(n) > 0 THEN "partially_filled" ELSE tracked.status
FeeWith(n) == IF ~IsNew(n) /\ boundary.hasFee THEN tracked.fee
              ELSE tracked.fee + trades[n].fee
WithFill(n) == [status |-> StatusWith(n), cumulative |-> SumWith(n),
                fills |-> tracked.fills \cup {n}, fee |-> FeeWith(n),
                time |-> Max({tracked.time, TimeOf(n)})]
CoveredWith(n) == QuantityOf({f \in tracked.fills \cup {n} : TimeOf(f) <= boundary.time})
Takes(n) == n \notin tracked.fills /\ (IsNew(n) \/ CoveredWith(n) <= boundary.cumulative)

LEMMA SoundFilled ==
    ASSUME FillTypes, ExchangeInv, orderVenue = "bitget", Sound(tracked, boundary),
           NEW n \in All, Takes(n)
    PROVE  Sound(WithFill(n), boundary)
  <1> DEFINE o == WithFill(n)
             b == boundary
             q == trades[n].quantity
  <1>1. /\ tracked \in Tracked /\ b \in Boundaries
        /\ QuantityHolds(tracked, b) /\ FeeHolds(tracked, b)
        /\ StatusHolds(tracked) /\ TimeHolds(tracked, b)
    BY DEF Sound
  <1>2. /\ tracked.cumulative \in Nat /\ tracked.fee \in Nat /\ tracked.time \in Nat
        /\ tracked.fills \subseteq All
        /\ tracked.status \in {"new", "submitted", "partially_filled", "filled", "canceled"}
        /\ b.cumulative \in Nat /\ b.time \in Nat /\ b.hasFee \in BOOLEAN
    BY <1>1 DEF Tracked, Boundaries
  <1>3. /\ q \in Nat \ {0} /\ trades[n].fee \in Nat /\ TimeOf(n) \in Nat /\ n \in 0..Len(trades)
        /\ \A k \in All : TimeOf(k) \in Nat
    BY TradeFacts
  <1>4. /\ n \notin tracked.fills
        /\ IsNew(n) <=> TimeOf(n) > b.time
        /\ ~IsNew(n) => CoveredWith(n) <= b.cumulative
    BY DEF Takes, IsNew
  <1>5. o.fills = tracked.fills \cup {n} /\ o.cumulative = SumWith(n) /\ o.fee = FeeWith(n)
        /\ o.status = StatusWith(n)
        /\ o.time = IF tracked.time >= TimeOf(n) THEN tracked.time ELSE TimeOf(n)
    BY <1>2, <1>3, MaxOfTwo DEF WithFill
  <1>6. /\ IsNew(n) => SumWith(n) = tracked.cumulative + q
        /\ ~IsNew(n) => SumWith(n) = tracked.cumulative
        /\ SumWith(n) \in Nat
    BY <1>2, <1>3 DEF SumWith
  <1>7. /\ QuantityOf(Later(tracked, b)) \in Nat /\ QuantityOf(All) \in Nat
        /\ tracked.cumulative = b.cumulative + QuantityOf(Later(tracked, b))
        /\ QuantityOf(tracked.fills \ Later(tracked, b)) <= b.cumulative
        /\ b.cumulative <= QuantityOf(Covered(b))
    BY <1>1, QuantityFacts DEF QuantityHolds
  <1>8. SumWith(n) > 0
    <2>1. CASE IsNew(n)
      BY <1>2, <1>3, <1>6, <2>1
    <2>2. CASE ~IsNew(n)
      <3> DEFINE S == {f \in tracked.fills \cup {n} : TimeOf(f) <= b.time}
      <3>1. {} \subseteq S /\ n \in S \ {} /\ CoveredWith(n) = QuantityOf(S)
        BY <1>2, <1>3, <1>4, <2>2 DEF CoveredWith
      <3> HIDE DEF S
      <3>2. QuantityOf({}) + q <= QuantityOf(S) /\ QuantityOf({}) \in Nat /\ QuantityOf(S) \in Nat
        BY <3>1, QuantityFacts
      <3> QED
        BY <1>2, <1>3, <1>4, <1>6, <1>7, <2>2, <3>1, <3>2
    <2> QED
      BY <2>1, <2>2
  <1>9. o \in Tracked
    <2>1. StatusWith(n) \in {"new", "submitted", "partially_filled", "filled", "canceled"}
      BY <1>2 DEF StatusWith
    <2>2. FeeWith(n) \in Nat
      BY <1>2, <1>3 DEF FeeWith
    <2>3. Max({tracked.time, TimeOf(n)}) \in Nat
      BY <1>2, <1>3, MaxOfTwo
    <2> QED
      BY <1>2, <1>6, <2>1, <2>2, <2>3 DEF WithFill, Tracked
  <1> HIDE DEF o, q
  <1>10. QuantityHolds(o, b)
    <2>1. CASE IsNew(n)
      <3>1. /\ Later(o, b) = Later(tracked, b) \cup {n} /\ n \notin Later(tracked, b)
            /\ o.fills \ Later(o, b) = tracked.fills \ Later(tracked, b)
        BY <1>4, <1>5, <2>1 DEF Later
      <3>2. QuantityOf(Later(o, b)) = QuantityOf(Later(tracked, b)) + q
        BY <3>1, QuantityFacts DEF q
      <3>3. QuantityOf(o.fills \ Later(o, b)) = QuantityOf(tracked.fills \ Later(tracked, b))
        BY <3>1
      <3> QED
        BY <1>2, <1>3, <1>5, <1>6, <1>7, <2>1, <3>2, <3>3 DEF QuantityHolds
    <2>2. CASE ~IsNew(n)
      <3>0. /\ \A f \in o.fills : TimeOf(f) > b.time <=> ~(TimeOf(f) <= b.time)
            /\ ~(TimeOf(n) > b.time) /\ o.fills = tracked.fills \cup {n}
        <4>1. o.fills = tracked.fills \cup {n} /\ o.fills \subseteq All
          BY <1>2, <1>5
        <4>2. \A f \in All : TimeOf(f) > b.time <=> ~(TimeOf(f) <= b.time)
          BY <1>2, <1>3
        <4> QED
          BY <1>4, <2>2, <4>1, <4>2
      <3>1. /\ Later(o, b) = Later(tracked, b)
            /\ o.fills \ Later(o, b) = {f \in tracked.fills \cup {n} : TimeOf(f) <= b.time}
        BY <3>0 DEF Later
      <3>2. QuantityOf(Later(o, b)) = QuantityOf(Later(tracked, b))
        BY <3>1
      <3>3. QuantityOf(o.fills \ Later(o, b)) = CoveredWith(n)
        BY <3>1 DEF CoveredWith
      <3> QED
        BY <1>2, <1>4, <1>5, <1>6, <1>7, <2>2, <3>2, <3>3 DEF QuantityHolds
    <2> QED
      BY <2>1, <2>2
  <1>11. o.cumulative <= QuantityOf(All)
    BY <1>1, <1>9, <1>10, QuantityBound
  <1>12. FeeHolds(o, b)
    <2>1. /\ FeeOf(tracked.fills \cup {n}) = FeeOf(tracked.fills) + trades[n].fee
          /\ \A A : FeeOf(A) \in Nat
      BY <1>4, FeeFacts
    <2>2. ASSUME b.hasFee
          PROVE  o.fee <= FeeOf(Covered(b) \cup o.fills)
      <3>1. tracked.fee <= FeeOf(Covered(b) \cup tracked.fills)
        BY <1>1, <2>2 DEF FeeHolds
      <3>2. CASE IsNew(n)
        <4>1. n \notin Covered(b) \cup tracked.fills
              /\ Covered(b) \cup o.fills = (Covered(b) \cup tracked.fills) \cup {n}
          BY <1>2, <1>3, <1>4, <1>5, <3>2 DEF Covered
        <4>2. FeeOf((Covered(b) \cup tracked.fills) \cup {n})
              = FeeOf(Covered(b) \cup tracked.fills) + trades[n].fee
          BY <4>1, FeeFacts
        <4>3. FeeOf(Covered(b) \cup o.fills) = FeeOf(Covered(b) \cup tracked.fills) + trades[n].fee
          BY <4>1, <4>2
        <4>4. o.fee = tracked.fee + trades[n].fee
          BY <1>5, <3>2 DEF FeeWith
        <4> QED
          BY <1>2, <1>3, <2>1, <3>1, <4>3, <4>4
      <3>3. CASE ~IsNew(n)
        <4>1. All \cap (Covered(b) \cup tracked.fills) \subseteq Covered(b) \cup o.fills
          BY <1>5
        <4>2. FeeOf(Covered(b) \cup tracked.fills) <= FeeOf(Covered(b) \cup o.fills)
          BY <4>1, FeeFacts
        <4>3. o.fee = tracked.fee
          BY <1>5, <2>2, <3>3 DEF FeeWith
        <4> QED
          BY <1>2, <2>1, <3>1, <4>2, <4>3
      <3> QED
        BY <3>2, <3>3
    <2>3. ASSUME ~b.hasFee
          PROVE  o.fee <= FeeOf(o.fills)
      <3>1. tracked.fee <= FeeOf(tracked.fills)
        BY <1>1, <2>3 DEF FeeHolds
      <3>2. o.fee = tracked.fee + trades[n].fee
        BY <1>5, <2>3 DEF FeeWith
      <3> QED
        BY <1>2, <1>3, <1>5, <2>1, <3>1, <3>2
    <2>4. b.hasFee => \E k \in 0..Len(trades) : b.cumulative = QuantityOf(1..k) /\ FeeOf(1..k) > 0
      BY <1>1 DEF FeeHolds
    <2> QED
      BY <2>2, <2>3, <2>4 DEF FeeHolds
  <1>13. tracked.status \in Terminal => ~IsNew(n)
    <2>1. tracked.status \in Terminal => tracked.cumulative = QuantityOf(All)
      BY <1>1 DEF StatusHolds
    <2> QED
      BY <1>2, <1>3, <1>5, <1>6, <1>7, <1>11, <2>1
  <1>14. StatusHolds(o)
    <2>1. CASE tracked.status \in Terminal
      <3>1. o.status = tracked.status /\ o.cumulative = tracked.cumulative
        BY <1>5, <1>6, <1>13, <2>1 DEF StatusWith
      <3> QED
        BY <1>1, <2>1, <3>1 DEF StatusHolds
    <2>2. CASE tracked.status \notin Terminal /\ orderKind = "limit" /\ SumWith(n) = Quantity
      <3>1. o.status = "filled"
        BY <1>5, <2>2 DEF StatusWith
      <3>2. QuantityOf(All) <= Quantity /\ Quantity \in Nat
        BY <2>2, FillAssumption DEF ExchangeInv
      <3>3. QuantityOf(All) = Quantity /\ o.cumulative = Quantity
        BY <1>5, <1>7, <1>11, <2>2, <3>2
      <3>4. outcome = "filled"
        BY <2>2, <3>3 DEF ExchangeInv
      <3> QED
        BY <3>1, <3>3, <3>4 DEF StatusHolds
    <2>3. CASE tracked.status \notin Terminal /\ ~(orderKind = "limit" /\ SumWith(n) = Quantity)
      <3>1. o.status = "partially_filled"
        BY <1>5, <1>8, <2>3 DEF StatusWith
      <3>2. orderKind = "limit" => QuantityOf(All) <= Quantity /\ Quantity \in Nat
        BY <2>3, FillAssumption DEF ExchangeInv
      <3>3. o.cumulative > 0 /\ (orderKind = "limit" => o.cumulative < Quantity)
        BY <1>5, <1>6, <1>7, <1>8, <1>11, <2>3, <3>2
      <3> QED
        BY <3>1, <3>3 DEF StatusHolds, Terminal
    <2> QED
      BY <2>1, <2>2, <2>3
  <1>15. TimeHolds(o, b)
    <2>1. o.status # "submitted"
      BY <1>5, <1>8 DEF StatusWith, Terminal
    <2>2. TimeOf(n) <= LastTime /\ LastTime \in Nat
      <3>1. Len(trades) \in 0..Len(trades) /\ n \in 0..Len(trades)
        BY <1>3, TradeFacts
      <3>2. TimeOf(n) <= TimeOf(Len(trades)) /\ TimeOf(Len(trades)) \in Nat
        BY <3>1, EarlyFills, TradeFacts
      <3> QED
        BY <1>3, <3>2 DEF ExchangeInv, LastTime, FillTypes
    <2>3. o.time <= LastTime
      <3>1. CASE tracked.status = "submitted"
        <4>1. tracked.cumulative = 0 /\ b.time = tracked.time
          BY <1>1, <3>1 DEF TimeHolds
        <4>2. IsNew(n)
          BY <1>6, <1>8, <4>1
        <4> QED
          BY <1>2, <1>3, <1>4, <1>5, <2>2, <4>1, <4>2
      <3>2. CASE tracked.status # "submitted"
        <4>1. tracked.time <= LastTime
          BY <1>1, <3>2 DEF TimeHolds
        <4> QED
          BY <1>5, <2>2, <4>1
      <3> QED
        BY <3>1, <3>2
    <2>4. b.time <= o.time /\ \A f \in o.fills : TimeOf(f) <= o.time
      <3>1. b.time <= tracked.time /\ \A f \in tracked.fills : TimeOf(f) <= tracked.time
        BY <1>1 DEF TimeHolds
      <3>2. \A f \in o.fills : f \in tracked.fills \/ f = n
        BY <1>5
      <3>3. tracked.time <= o.time /\ TimeOf(n) <= o.time /\ o.time \in Nat
        BY <1>2, <1>3, <1>5
      <3>4. \A f \in tracked.fills : TimeOf(f) \in Nat
        BY <1>2, <1>3
      <3> QED
        BY <1>2, <3>1, <3>2, <3>3, <3>4
    <2> QED
      BY <2>1, <2>3, <2>4 DEF TimeHolds
  <1> QED
    BY <1>1, <1>9, <1>10, <1>12, <1>14, <1>15 DEF Sound, o

-----------------------------------------------------------------------------
(* The last word about an order *)

\* What the exchange has settled is held as it was settled.
SettledAs(o) == /\ o.cumulative = QuantityOf(All) /\ o.status = outcome
                /\ o.fee = FeeOf(IF orderVenue = "bitget" THEN All ELSE o.fills)

\* A final view settles what takes it over, and is not taken over only by what is
\* settled, or acknowledged late.
LEMMA FinalViewSettles ==
    ASSUME FillTypes, ExchangeInv, NEW m, Truthful(m), m.status \in Terminal
    PROVE  /\ SettledAs(m)
           /\ Sound(tracked, boundary) /\ ~Stale(m) => SettledAs(Merged(m))
           /\ Sound(tracked, boundary) /\ Stale(m) => AcknowledgedLate
  <1>1. PICK n \in 0..Len(trades) : TellsOf(m, n)
    BY DEF Truthful
  <1>2. /\ m \in Tracked /\ m.status = outcome /\ n = Len(trades) /\ m.time = LastTime
        /\ m.cumulative = QuantityOf(All) /\ 1..n = All
        /\ orderVenue = "binance" => m.fee = FeeOf(m.fills)
        /\ orderVenue = "bitget" => m.fee = FeeOf(All) /\ m.fills = {}
    BY <1>1, EarlyFills DEF TellsOf, Truthful
  <1>3. orderVenue \in {"binance", "bitget"}
    BY DEF FillTypes
  <1>4. SettledAs(m)
    BY <1>2, <1>3 DEF SettledAs
  <1>5. ASSUME Sound(tracked, boundary), ~Stale(m)
        PROVE  SettledAs(Merged(m))
    <2> DEFINE o == Merged(m)
    <2>1. Sound(o, Boundary(o, HasFee(m)))
      BY <1>5, SoundMerged
    <2>2. /\ o.status = m.status /\ o.cumulative = m.cumulative
          /\ o.fee = MergedFee(m, tracked.fills \cup m.fills)
          /\ m.fee \in Nat /\ tracked.fee \in Nat /\ o \in Tracked /\ o.fee \in Nat
      BY <1>2, <1>5, MergedIs DEF Sound, Tracked
    <2> HIDE DEF o
    <2>3. orderVenue = "binance" => o.fee = FeeOf(o.fills)
      BY <2>1 DEF Sound, FeeHolds
    <2>4. orderVenue = "bitget" => o.fee = FeeOf(All)
      <3>1. tracked.fee <= FeeOf(All) /\ o.fee <= FeeOf(All)
        BY <1>5, <2>1, SoundBounds
      <3>2. FeeOf(All) \in Nat /\ FeeOf(tracked.fills \cup m.fills) \in Nat
        BY FeeFacts
      <3> QED
        BY <1>2, <2>2, <3>1, <3>2 DEF MergedFee
    <2> QED
      BY <1>2, <1>3, <2>2, <2>3, <2>4 DEF SettledAs, o
  <1>6. ASSUME Sound(tracked, boundary), Stale(m)
        PROVE  AcknowledgedLate
    <2>1. tracked \in Tracked /\ StatusHolds(tracked) /\ TimeHolds(tracked, boundary)
      BY <1>6 DEF Sound
    <2>2. tracked.cumulative <= QuantityOf(All)
      BY <1>6, SoundBounds
    <2>3. /\ tracked.time \in Nat /\ m.time \in Nat /\ tracked.cumulative \in Nat
          /\ QuantityOf(All) \in Nat
      BY <1>2, <2>1, QuantityFacts DEF Tracked
    <2>4. m.time < tracked.time
      BY <1>2, <1>6, <2>1, <2>2, <2>3 DEF Stale, StatusHolds
    <2>5. tracked.status = "submitted"
      BY <1>2, <2>1, <2>3, <2>4 DEF TimeHolds
    <2> QED
      BY <1>2, <2>3, <2>4, <2>5 DEF AcknowledgedLate, LastTime
  <1> QED
    BY <1>4, <1>5, <1>6

\* What is settled stays so, whatever view comes, and so does what was acknowledged
\* late.
LEMMA LastWordStays ==
    ASSUME FillTypes, ExchangeInv, NEW m, Truthful(m), outcome # "open",
           Sound(tracked, boundary), ~Stale(m)
    PROVE  /\ SettledAs(tracked) => SettledAs(Merged(m))
           /\ AcknowledgedLate => Merged(m).status = "submitted" /\ Merged(m).time > LastTime
  <1>1. PICK n \in 0..Len(trades) : TellsOf(m, n)
    BY DEF Truthful
  <1>2. m \in Tracked /\ tracked \in Tracked
    BY DEF Truthful, Sound
  <1>3. SettledAs(tracked) => m.status \in Terminal
    BY DEF SettledAs, Stale, Terminal, FillTypes
  <1>4. ASSUME AcknowledgedLate
        PROVE  m.status = "submitted" /\ m.time > LastTime
    <2>1. tracked.time > LastTime
      BY <1>4 DEF AcknowledgedLate, LastTime
    <2>2. tracked.time \in Nat /\ m.time \in Nat /\ LastTime \in Nat
      BY <1>2, TradeFacts DEF Tracked, LastTime, FillTypes
    <2>3. tracked.time <= m.time
      BY <2>2 DEF Stale
    <2> QED
      BY <1>1, <2>1, <2>2, <2>3 DEF TellsOf
  <1>5. Merged(m).status = m.status /\ Merged(m).time = m.time
    BY <1>2, MergedIs
  <1> QED
    BY <1>3, <1>4, <1>5, FinalViewSettles

\* A fill that comes late adds nothing to what is settled.
LEMMA FillAddsNothing ==
    ASSUME FillTypes, ExchangeInv, orderVenue = "bitget", outcome # "open",
           Sound(tracked, boundary), NEW n \in All, Takes(n)
    PROVE  /\ SettledAs(tracked) => SettledAs(WithFill(n))
           /\ ~AcknowledgedLate
  <1> DEFINE o == WithFill(n)
  <1>1. Sound(o, boundary)
    BY SoundFilled
  <1>2. o.cumulative <= QuantityOf(All) /\ o.fee <= FeeOf(All)
    BY <1>1, SoundBounds
  <1>3. /\ tracked \in Tracked /\ tracked.cumulative \in Nat /\ tracked.fee \in Nat
        /\ QuantityOf(All) \in Nat /\ FeeOf(All) \in Nat
        /\ trades[n].quantity \in Nat \ {0} /\ trades[n].fee \in Nat
    BY TradeFacts, QuantityFacts, FeeFacts DEF Sound, Tracked
  <1>4. /\ o.cumulative = SumWith(n) /\ o.status = StatusWith(n) /\ o.fee = FeeWith(n)
    BY DEF WithFill
  <1>5. ASSUME SettledAs(tracked)
        PROVE  SettledAs(o)
    <2>1. /\ tracked.cumulative = QuantityOf(All) /\ tracked.status = outcome
          /\ tracked.fee = FeeOf(All) /\ outcome \in Terminal
      BY <1>5 DEF SettledAs, FillTypes, Terminal
    <2>2. ~IsNew(n) /\ o.cumulative = QuantityOf(All)
      BY <1>2, <1>3, <1>4, <2>1 DEF SumWith
    <2>3. o.status = outcome
      BY <1>4, <2>1 DEF StatusWith
    <2>4. o.fee = FeeOf(All)
      BY <1>2, <1>3, <1>4, <2>1 DEF FeeWith
    <2> QED
      BY <2>2, <2>3, <2>4 DEF SettledAs
  <1>6. ~AcknowledgedLate
    <2> SUFFICES ASSUME AcknowledgedLate PROVE FALSE
      OBVIOUS
    <2>1. tracked.status = "submitted" /\ tracked.time > LastTime
      BY DEF AcknowledgedLate, LastTime
    <2>2. tracked.cumulative = 0 /\ boundary.time = tracked.time /\ tracked.time \in Nat
      BY <1>3, <2>1 DEF Sound, TimeHolds, Tracked
    <2>3. TimeOf(n) <= LastTime /\ LastTime \in Nat /\ TimeOf(n) \in Nat
      <3>1. Len(trades) \in 0..Len(trades) /\ n \in 0..Len(trades)
        BY TradeFacts
      <3>2. TimeOf(n) <= TimeOf(Len(trades)) /\ TimeOf(Len(trades)) \in Nat /\ TimeOf(n) \in Nat
        BY <3>1, EarlyFills, TradeFacts
      <3> QED
        BY <3>2 DEF ExchangeInv, LastTime, FillTypes
    <2>4. ~IsNew(n)
      BY <2>1, <2>2, <2>3 DEF IsNew
    <2>5. o.cumulative = 0
      BY <1>3, <1>4, <2>2, <2>4 DEF SumWith
    <2>6. o.status # "submitted" => FALSE
      <3>1. o.status # "submitted" => o.time <= LastTime
        BY <1>1 DEF Sound, TimeHolds
      <3>2. o.time >= tracked.time
        BY <2>2, <2>3, MaxOfTwo DEF WithFill
      <3>3. o.time \in Nat
        BY <1>1 DEF Sound, Tracked
      <3> QED
        BY <2>1, <2>2, <2>3, <3>1, <3>2, <3>3
    <2>7. CoveredWith(n) > 0
      <3> DEFINE S == {f \in tracked.fills \cup {n} : TimeOf(f) <= boundary.time}
      <3>1. {} \subseteq S /\ n \in S \ {} /\ CoveredWith(n) = QuantityOf(S)
        BY <2>1, <2>2, <2>3 DEF CoveredWith
      <3> HIDE DEF S
      <3>2. QuantityOf({}) + trades[n].quantity <= QuantityOf(S)
            /\ QuantityOf({}) \in Nat /\ QuantityOf(S) \in Nat
        BY <3>1, QuantityFacts
      <3> QED
        BY <1>3, <3>1, <3>2
    <2>8. boundary.cumulative <= tracked.cumulative /\ boundary.cumulative \in Nat
      BY <1>3, QuantityFacts DEF Sound, QuantityHolds, Boundaries
    <2>9. CoveredWith(n) \in Nat
      BY QuantityFacts DEF CoveredWith
    <2> QED
      BY <2>2, <2>4, <2>7, <2>8, <2>9 DEF Takes
  <1> QED
    BY <1>5, <1>6

-----------------------------------------------------------------------------
(* The steps of the reconciler *)

\* The exchange stands still while a message is taken over.
LEMMA ExchangeStands ==
    ASSUME Unchanged, FillTypes, ExchangeInv, told' \in BOOLEAN, NEW o, NEW b
    PROVE  /\ FillTypes' /\ ExchangeInv' /\ LastTime' = LastTime
           /\ tracked' = o /\ boundary' = b /\ Sound(o, b) => Sound(tracked, boundary)'
           /\ tracked' = o /\ SettledAs(o) => SettledAs(tracked)'
           /\ tracked' = o /\ o.status = "submitted" /\ o.time > LastTime => AcknowledgedLate'
  <1>1. FillTypes'
    BY DEF Unchanged, FillTypes, Fills
  <1>2. /\ \A A : QuantityOf(A)' = QuantityOf(A) /\ FeeOf(A)' = FeeOf(A)
        /\ All' = All /\ LastTime' = LastTime /\ Len(trades)' = Len(trades)
        /\ \A n : TimeOf(n)' = TimeOf(n)
    BY DEF Unchanged, QuantityOf, FeeOf, All, TimeOf, LastTime
  <1>3. ExchangeInv'
    BY <1>2 DEF Unchanged, ExchangeInv, QuantityOf, FeeOf, All, TimeOf, LastTime
  <1>4. ASSUME tracked' = o, boundary' = b, Sound(o, b)
        PROVE  Sound(tracked, boundary)'
    BY <1>4 DEF Unchanged, Sound, Tracked, Boundaries, QuantityHolds, FeeHolds, StatusHolds,
       TimeHolds, Later, Covered, QuantityOf, FeeOf, All, TimeOf, LastTime
  <1>5. ASSUME tracked' = o, SettledAs(o)
        PROVE  SettledAs(tracked)'
    BY <1>5 DEF Unchanged, SettledAs, QuantityOf, FeeOf, All
  <1>6. ASSUME tracked' = o, o.status = "submitted", o.time > LastTime
        PROVE  AcknowledgedLate'
    BY <1>6 DEF Unchanged, AcknowledgedLate, LastTime, TimeOf
  <1> QED
    BY <1>1, <1>2, <1>3, <1>4, <1>5, <1>6

\* No order is not an order.
LEMMA NoOrderIsNone ==
    ASSUME NEW o \in Tracked
    PROVE  o # NoOrder
  BY DEF Tracked, NoOrder

\* What is stored is an order that may be built.
LEMMA StoredIs ==
    ASSUME FillTypes, ExchangeInv, NEW o, NEW b, Sound(o, b), Store(o, b)
    PROVE  tracked' = o /\ boundary' = b /\ refused' = refused
  BY SoundBounds DEF Store

\* A message about the order keeps all of this, and a final one settles it.
LEMMA OrderIsApplied ==
    ASSUME FillInv, Unchanged, NEW m, Truthful(m), ApplyOrder(m),
           told' \in BOOLEAN, told' => told \/ m.status \in Terminal,
           m.status \in Terminal => outcome # "open"
    PROVE  FillInv'
  <1>1. /\ FillTypes /\ ExchangeInv /\ ~refused /\ m \in Tracked
        /\ tracked = NoOrder \/ Sound(tracked, boundary)
        /\ told => outcome # "open" /\ tracked # NoOrder
        /\ told /\ ~AcknowledgedLate => SettledAs(tracked)
    BY DEF FillInv, Truthful, LastWordCounts, SettledAs
  <1>2. /\ FillTypes' /\ ExchangeInv' /\ LastTime' = LastTime
        /\ outcome' = outcome
    BY <1>1, ExchangeStands DEF Unchanged
  <1>3. told' => outcome' # "open"
    BY <1>1, <1>2
  <1>4. SUFFICES /\ ~refused'
                 /\ tracked' = NoOrder \/ Sound(tracked, boundary)'
                 /\ told' => tracked' # NoOrder
                 /\ told' => AcknowledgedLate' \/ SettledAs(tracked)'
    BY <1>2, <1>3 DEF FillInv, LastWordCounts, SettledAs
  <1>5. CASE tracked = NoOrder
    <2>1. PICK b : b = Boundary(m, m.fee # 0 /\ m.fills = {})
      OBVIOUS
    <2>2. Sound(m, b)
      BY <1>1, <2>1, SoundFirst
    <2>3. Store(m, b)
      BY <1>5, <2>1 DEF ApplyOrder
    <2>4. tracked' = m /\ boundary' = b /\ refused' = refused
      BY <1>1, <2>2, <2>3, StoredIs
    <2>5. Sound(tracked, boundary)'
      BY <1>1, <2>2, <2>4, ExchangeStands
    <2>6. ASSUME told' PROVE SettledAs(tracked)'
      <3>1. m.status \in Terminal
        BY <1>1, <1>5, <2>6
      <3>2. SettledAs(m)
        BY <1>1, <3>1, FinalViewSettles
      <3> QED
        BY <1>1, <2>4, <3>2, ExchangeStands
    <2>7. tracked' # NoOrder
      BY <1>1, <2>4, NoOrderIsNone
    <2> QED
      BY <1>1, <2>4, <2>5, <2>6, <2>7
  <1>6. CASE tracked # NoOrder /\ (m = tracked \/ Stale(m))
    <2>1. PICK o, b : o = tracked /\ b = boundary
      OBVIOUS
    <2>2. tracked' = o /\ boundary' = b /\ refused' = refused
      BY <1>6, <2>1 DEF ApplyOrder, Ignore
    <2>3. Sound(o, b) /\ Sound(tracked, boundary)
      BY <1>1, <1>6, <2>1
    <2>4. Sound(tracked, boundary)'
      BY <1>1, <2>2, <2>3, ExchangeStands
    <2>5. ASSUME told' PROVE AcknowledgedLate' \/ SettledAs(tracked)'
      <3>1. AcknowledgedLate \/ SettledAs(tracked)
        <4>1. CASE told
          BY <1>1, <4>1
        <4>2. CASE m.status \in Terminal
          BY <1>1, <1>6, <2>3, <4>2, FinalViewSettles
        <4> QED
          BY <2>5, <4>1, <4>2
      <3>2. AcknowledgedLate => o.status = "submitted" /\ o.time > LastTime
        BY <2>1 DEF AcknowledgedLate, LastTime
      <3>3. SettledAs(tracked) => SettledAs(o)
        BY <2>1
      <3> QED
        BY <1>1, <2>2, <3>1, <3>2, <3>3, ExchangeStands
    <2> QED
      BY <1>1, <1>6, <2>1, <2>2, <2>4, <2>5
  <1>7. CASE tracked # NoOrder /\ ~Stale(m) /\ m # tracked
    <2>1. PICK o, b : o = Merged(m) /\ b = Boundary(Merged(m), HasFee(m))
      OBVIOUS
    <2>2. Sound(o, b) /\ Sound(tracked, boundary)
      BY <1>1, <1>7, <2>1, SoundMerged
    <2>3. Store(o, b)
      BY <1>7, <2>1 DEF ApplyOrder, Merged, HasFee, Carried
    <2>4. tracked' = o /\ boundary' = b /\ refused' = refused
      BY <1>1, <2>2, <2>3, StoredIs
    <2>5. Sound(tracked, boundary)'
      BY <1>1, <2>2, <2>4, ExchangeStands
    <2>6. ASSUME told' PROVE AcknowledgedLate' \/ SettledAs(tracked)'
      <3>1. SettledAs(o) \/ (o.status = "submitted" /\ o.time > LastTime)
        <4>1. CASE m.status \in Terminal
          BY <1>1, <1>7, <2>1, <2>2, <4>1, FinalViewSettles
        <4>2. CASE told
          BY <1>1, <1>7, <2>1, <2>2, <4>2, LastWordStays
        <4> QED
          BY <2>6, <4>1, <4>2
      <3> QED
        BY <1>1, <2>4, <3>1, ExchangeStands
    <2>7. tracked' # NoOrder
      <3>1. o \in Tracked
        BY <2>2 DEF Sound
      <3> QED
        BY <2>4, <3>1, NoOrderIsNone
    <2> QED
      BY <1>1, <2>4, <2>5, <2>6, <2>7
  <1> QED
    BY <1>5, <1>6, <1>7

\* So does a fill.
LEMMA FillIsApplied ==
    ASSUME FillInv, Unchanged, UNCHANGED told, orderVenue = "bitget", NEW n \in All, ApplyFill(n)
    PROVE  FillInv'
  <1>1. /\ FillTypes /\ ExchangeInv /\ ~refused /\ told \in BOOLEAN
        /\ tracked = NoOrder \/ Sound(tracked, boundary)
        /\ told => outcome # "open" /\ tracked # NoOrder
        /\ told /\ ~AcknowledgedLate => SettledAs(tracked)
    BY DEF FillInv, FillTypes, LastWordCounts, SettledAs
  <1>2. /\ FillTypes' /\ ExchangeInv' /\ LastTime' = LastTime
        /\ outcome' = outcome /\ told' = told /\ told' \in BOOLEAN
    BY <1>1, ExchangeStands DEF Unchanged
  <1>3. SUFFICES /\ ~refused'
                 /\ tracked' = NoOrder \/ Sound(tracked, boundary)'
                 /\ told => tracked' # NoOrder
                 /\ told => AcknowledgedLate' \/ SettledAs(tracked)'
    BY <1>1, <1>2 DEF FillInv, LastWordCounts, SettledAs
  <1>4. CASE tracked # NoOrder /\ Takes(n)
    <2>1. PICK o, b : o = WithFill(n) /\ b = boundary
      OBVIOUS
    <2>2. Sound(tracked, boundary) /\ Sound(o, b)
      BY <1>1, <1>4, <2>1, SoundFilled
    <2>3. Store(o, b)
      <3>1. CoveredWith(n) \in Nat /\ boundary.cumulative \in Nat
        BY <1>1, <2>2, QuantityFacts DEF CoveredWith, Sound, Boundaries
      <3>2. n \notin tracked.fills /\ ~(~IsNew(n) /\ CoveredWith(n) > boundary.cumulative)
        BY <1>4, <3>1 DEF Takes
      <3>3. Store(WithFill(n), boundary)
        BY <1>4, <3>2 DEF ApplyFill, IsNew, CoveredWith, WithFill, StatusWith, SumWith, FeeWith
      <3> QED
        BY <2>1, <3>3
    <2>4. tracked' = o /\ boundary' = b /\ refused' = refused
      BY <1>1, <2>2, <2>3, StoredIs
    <2>5. Sound(tracked, boundary)'
      BY <1>1, <1>2, <2>2, <2>4, ExchangeStands
    <2>6. told => SettledAs(tracked)'
      <3>1. told => SettledAs(o)
        BY <1>1, <1>4, <2>1, <2>2, FillAddsNothing
      <3> QED
        BY <1>1, <1>2, <2>4, <3>1, ExchangeStands
    <2>7. tracked' # NoOrder
      <3>1. o \in Tracked
        BY <2>2 DEF Sound
      <3> QED
        BY <2>4, <3>1, NoOrderIsNone
    <2> QED
      BY <1>1, <2>4, <2>5, <2>6, <2>7
  <1>5. CASE tracked = NoOrder \/ ~Takes(n)
    <2>1. PICK o, b : o = tracked /\ b = boundary
      OBVIOUS
    <2>2. tracked' = o /\ boundary' = b /\ refused' = refused
      <3>1. \/ tracked = NoOrder
            \/ n \in tracked.fills
            \/ ~IsNew(n) /\ ~(CoveredWith(n) <= boundary.cumulative)
        BY <1>5 DEF Takes
      <3>2. tracked # NoOrder => CoveredWith(n) \in Nat /\ boundary.cumulative \in Nat
        BY <1>1, QuantityFacts DEF CoveredWith, Sound, Boundaries
      <3>3. \/ tracked = NoOrder
            \/ n \in tracked.fills
            \/ ~IsNew(n) /\ CoveredWith(n) > boundary.cumulative
        BY <3>1, <3>2
      <3> QED
        BY <2>1, <3>3 DEF ApplyFill, Ignore, IsNew, CoveredWith
    <2>3. tracked = NoOrder \/ Sound(o, b)
      BY <1>1, <2>1
    <2>4. tracked' = NoOrder \/ Sound(tracked, boundary)'
      BY <1>1, <1>2, <2>1, <2>2, <2>3, ExchangeStands
    <2>5. told => AcknowledgedLate' \/ SettledAs(tracked)'
      <3>1. AcknowledgedLate => o.status = "submitted" /\ o.time > LastTime
        BY <2>1 DEF AcknowledgedLate, LastTime
      <3>2. SettledAs(tracked) => SettledAs(o)
        BY <2>1
      <3> QED
        BY <1>1, <1>2, <2>2, <3>1, <3>2, ExchangeStands
    <2> QED
      BY <1>1, <2>1, <2>2, <2>4, <2>5
  <1> QED
    BY <1>4, <1>5

-----------------------------------------------------------------------------
(* The steps of the exchange *)

\* The exchange goes on with the order: its fills stay, and time does not go back.
GoesOn ==
    /\ UNCHANGED <<orderVenue, orderKind, tracked, boundary, told, refused>>
    /\ Len(trades) <= Len(trades)' /\ Len(trades)' \in Nat
    /\ All \subseteq All' /\ \A n \in 0..Len(trades) : TimeOf(n)' = TimeOf(n)
    /\ LastTime <= LastTime' /\ LastTime' \in Nat
    /\ \A A \in SUBSET All : QuantityOf(A)' = QuantityOf(A) /\ FeeOf(A)' = FeeOf(A)
    /\ \A A, B : A \subseteq B => QuantityOf(A)' <= QuantityOf(B)' /\ FeeOf(A)' <= FeeOf(B)'
    /\ \A A : QuantityOf(A)' \in Nat /\ FeeOf(A)' \in Nat

\* What is held of an open order is still sound then.
LEMMA SoundGoesOn ==
    ASSUME FillTypes, ExchangeInv, outcome = "open", GoesOn, Sound(tracked, boundary)
    PROVE  Sound(tracked, boundary)'
  <1>1. PICK o, b : o = tracked /\ b = boundary
    OBVIOUS
  <1>2. /\ o \in Tracked /\ b \in Boundaries /\ o.fills \subseteq All /\ o.fee \in Nat
        /\ o.cumulative \in Nat /\ o.time \in Nat /\ b.cumulative \in Nat /\ b.time \in Nat
        /\ QuantityHolds(o, b) /\ FeeHolds(o, b) /\ StatusHolds(o) /\ TimeHolds(o, b)
    BY <1>1 DEF Sound, Tracked, Boundaries
  <1>3. /\ \A n \in 0..Len(trades) : TimeOf(n)' = TimeOf(n) /\ n \in 0..Len(trades)'
        /\ All = 1..Len(trades) /\ All \subseteq All'
        /\ \A n \in 0..Len(trades) : 1..n \in SUBSET All
        /\ tracked' = tracked /\ boundary' = boundary /\ orderVenue' = orderVenue
        /\ orderKind' = orderKind
        /\ LastTime <= LastTime' /\ LastTime \in Nat /\ LastTime' \in Nat
    BY TradeFacts DEF GoesOn, LastTime, FillTypes
  <1>4. PICK L, LL : L = Later(o, b) /\ LL = Later(o, b)'
    OBVIOUS
  <1>5. L = LL /\ L \in SUBSET All /\ o.fills \ L \in SUBSET All
    BY <1>2, <1>3, <1>4 DEF Later
  <1>6. PICK C, CC : C = Covered(b) /\ CC = Covered(b)'
    OBVIOUS
  <1>7. C \subseteq CC /\ C \in SUBSET All /\ C \cup o.fills \in SUBSET All
    BY <1>2, <1>3, <1>6 DEF Covered
  <1>8. QuantityHolds(o, b)'
    <2>1. /\ QuantityOf(L)' = QuantityOf(L) /\ QuantityOf(o.fills \ L)' = QuantityOf(o.fills \ L)
          /\ QuantityOf(C)' = QuantityOf(C) /\ QuantityOf(C)' <= QuantityOf(CC)'
          /\ QuantityOf(C)' \in Nat /\ QuantityOf(CC)' \in Nat
      BY <1>5, <1>7 DEF GoesOn
    <2>2. b.cumulative <= QuantityOf(CC)'
      BY <1>2, <1>6, <2>1 DEF QuantityHolds
    <2>3. /\ o.cumulative = b.cumulative + QuantityOf(L)'
          /\ QuantityOf(o.fills \ L)' <= b.cumulative
      BY <1>2, <1>4, <2>1 DEF QuantityHolds
    <2>4. QuantityOf(Later(o, b))' = QuantityOf(L)'
          /\ QuantityOf(o.fills \ Later(o, b))' = QuantityOf(o.fills \ L)'
          /\ QuantityOf(Covered(b))' = QuantityOf(CC)'
      BY <1>4, <1>5, <1>6
    <2> QED
      BY <2>2, <2>3, <2>4 DEF QuantityHolds
  <1>9. FeeHolds(o, b)'
    <2>1. FeeOf(o.fills)' = FeeOf(o.fills)
      BY <1>2 DEF GoesOn
    <2>2. FeeOf(C \cup o.fills)' = FeeOf(C \cup o.fills)
          /\ FeeOf(C \cup o.fills)' <= FeeOf(CC \cup o.fills)'
          /\ FeeOf(C \cup o.fills)' \in Nat /\ FeeOf(CC \cup o.fills)' \in Nat
      <3>1. C \cup o.fills \subseteq CC \cup o.fills
        BY <1>7
      <3> QED
        BY <1>7, <3>1 DEF GoesOn
    <2>3. \A k \in 0..Len(trades) : /\ QuantityOf(1..k)' = QuantityOf(1..k)
                                    /\ FeeOf(1..k)' = FeeOf(1..k) /\ k \in 0..Len(trades)'
      BY <1>3 DEF GoesOn
    <2>4. CASE orderVenue = "binance"
      <3>1. o.fee = FeeOf(o.fills)'
        BY <1>2, <2>1, <2>4 DEF FeeHolds
      <3>2. PICK k \in 0..Len(trades) : o.cumulative = QuantityOf(1..k) /\ o.fills \subseteq 1..k
        BY <1>2, <2>4 DEF FeeHolds
      <3>3. k \in 0..Len(trades)' /\ o.cumulative = QuantityOf(1..k)'
        BY <2>3, <3>2
      <3> QED
        BY <1>3, <2>4, <3>1, <3>2, <3>3 DEF FeeHolds
    <2>5. CASE orderVenue = "bitget" /\ b.hasFee
      <3>1. o.fee <= FeeOf(C \cup o.fills)
        BY <1>2, <1>6, <2>5 DEF FeeHolds
      <3>2. o.fee <= FeeOf(CC \cup o.fills)'
        BY <1>2, <2>2, <3>1
      <3>3. FeeOf(Covered(b) \cup o.fills)' = FeeOf(CC \cup o.fills)'
        BY <1>6
      <3>4. PICK k \in 0..Len(trades) : b.cumulative = QuantityOf(1..k) /\ FeeOf(1..k) > 0
        BY <1>2, <2>5 DEF FeeHolds
      <3>5. k \in 0..Len(trades)' /\ b.cumulative = QuantityOf(1..k)' /\ FeeOf(1..k)' > 0
        BY <2>3, <3>4
      <3> QED
        BY <1>3, <2>5, <3>2, <3>3, <3>5 DEF FeeHolds
    <2>6. CASE orderVenue = "bitget" /\ ~b.hasFee
      <3>1. o.fee <= FeeOf(o.fills)'
        BY <1>2, <2>1, <2>6 DEF FeeHolds
      <3> QED
        BY <1>3, <2>6, <3>1 DEF FeeHolds
    <2> QED
      BY <2>4, <2>5, <2>6 DEF FillTypes
  <1>10. StatusHolds(o)'
    <2>1. o.status \notin Terminal
      BY <1>2 DEF StatusHolds, Terminal
    <2> QED
      BY <1>2, <1>3, <2>1 DEF StatusHolds
  <1>11. TimeHolds(o, b)'
    <2>1. \A f \in o.fills : TimeOf(f)' <= o.time
      BY <1>2, <1>3 DEF TimeHolds
    <2> QED
      BY <1>2, <1>3, <2>1 DEF TimeHolds
  <1>12. (o \in Tracked)' /\ (b \in Boundaries)'
    BY <1>2, <1>3 DEF Tracked, Boundaries
  <1>13. Sound(o, b)'
    BY <1>8, <1>9, <1>10, <1>11, <1>12 DEF Sound
  <1> QED
    BY <1>1, <1>3, <1>13

\* One more fill leaves those before it as they were.
LEMMA TradeGoesOn ==
    ASSUME FillTypes, outcome = "open", outcome' \in {"open", "filled"},
           UNCHANGED <<orderVenue, orderKind, tracked, boundary, told, refused>>,
           NEW trade \in [quantity : Nat \ {0}, fee : Nat, time : Nat],
           trades' = Append(trades, trade), TimeOf(Len(trades)) <= trade.time
    PROVE  /\ GoesOn /\ trades' \in Fills /\ Len(trades)' = Len(trades) + 1
           /\ QuantityOf(All)' = QuantityOf(All) + trade.quantity
           /\ TimeOf(Len(trades))' = trade.time /\ LastTime' = trade.time
  <1> DEFINE R == [quantity : Nat \ {0}, fee : Nat, time : Nat]
  <1>1. trades \in Seq(R) /\ trade \in R
    BY DEF FillTypes, Fills
  <1> HIDE DEF R
  <1>2. PICK N : N = Len(trades)
    OBVIOUS
  <1>3. /\ N \in Nat /\ trades' \in Seq(R) /\ Len(trades)' = N + 1
        /\ All = 1..N /\ All' = 1..N + 1
        /\ \A n \in 1..N : trades'[n] = trades[n]
        /\ trades'[N + 1] = trade
    BY <1>1, <1>2 DEF All
  <1>4. /\ \A n \in 1..N + 1 : trades'[n] \in R
        /\ \A n \in 1..N : trades[n] \in R
    BY <1>1, <1>2, <1>3
  <1>5. /\ \A n \in 0..N : TimeOf(n)' = TimeOf(n)
        /\ TimeOf(N + 1)' = trade.time /\ trade.time \in Nat
        /\ TimeOf(N) \in Nat
    <2>1. \A n \in 0..N : TimeOf(n)' = TimeOf(n)
      BY <1>3 DEF TimeOf
    <2>2. TimeOf(N + 1)' = trade.time
      BY <1>3 DEF TimeOf
    <2>3. TimeOf(N) \in Nat
      BY <1>2, TradeFacts
    <2> QED
      BY <2>1, <2>2, <2>3, <1>1 DEF R
  <1>6. LastTime = TimeOf(N) /\ LastTime' = trade.time
    <2>1. LastTime = TimeOf(N)
      BY <1>2 DEF LastTime
    <2>2. LastTime' = TimeOf(N + 1)'
      BY <1>3 DEF LastTime, TimeOf
    <2> QED
      BY <1>5, <2>1, <2>2
  <1>7. PICK a, b : /\ a = [n \in All |-> trades[n].quantity]
                    /\ b = [n \in All' |-> trades'[n].quantity]
    OBVIOUS
  <1>8. PICK c, d : /\ c = [n \in All |-> trades[n].fee]
                    /\ d = [n \in All' |-> trades'[n].fee]
    OBVIOUS
  <1>9. /\ a \in [1..N -> Nat] /\ b \in [1..N + 1 -> Nat] /\ \A n \in 1..N : b[n] = a[n]
        /\ b[N + 1] = trade.quantity
    <2>1. /\ \A n \in 1..N : trades[n].quantity \in Nat
          /\ \A n \in 1..N + 1 : trades'[n].quantity \in Nat
      BY <1>4 DEF R
    <2>2. a \in [1..N -> Nat]
      BY <1>3, <1>7, <2>1
    <2>3. b \in [1..N + 1 -> Nat]
      BY <1>3, <1>7, <2>1
    <2>4. N + 1 \in 1..N + 1
      BY <1>3
    <2> QED
      BY <1>3, <1>7, <2>2, <2>3, <2>4
  <1>10. /\ c \in [1..N -> Nat] /\ d \in [1..N + 1 -> Nat] /\ \A n \in 1..N : d[n] = c[n]
    <2>1. (\A n \in 1..N : trades[n].fee \in Nat) /\ \A n \in 1..N + 1 : trades'[n].fee \in Nat
      BY <1>4 DEF R
    <2>2. c \in [1..N -> Nat]
      BY <1>3, <1>8, <2>1
    <2>3. d \in [1..N + 1 -> Nat]
      BY <1>3, <1>8, <2>1
    <2> QED
      BY <1>3, <1>8, <2>2, <2>3
  <1>11. /\ \A A : QuantityOf(A) = Total(a, A, N) /\ FeeOf(A) = Total(c, A, N)
         /\ \A A : QuantityOf(A)' = Total(b, A, N + 1) /\ FeeOf(A)' = Total(d, A, N + 1)
    BY <1>2, <1>3, <1>7, <1>8 DEF QuantityOf, FeeOf
  <1>12. \A A : /\ Total(b, A, N + 1) = Total(a, A, N) + Part(b, A, N + 1)
                /\ Total(d, A, N + 1) = Total(c, A, N) + Part(d, A, N + 1)
    BY <1>3, <1>9, <1>10, TotalAppended
  <1>13. \A A : Total(a, A, N) \in Nat /\ Total(c, A, N) \in Nat
    BY <1>3, <1>9, <1>10, TotalFacts
  <1>14. N + 1 \in Nat
    BY <1>3
  <1>15. /\ \A A : QuantityOf(A)' \in Nat /\ FeeOf(A)' \in Nat
         /\ \A A, B : A \subseteq B => QuantityOf(A)' <= QuantityOf(B)' /\ FeeOf(A)' <= FeeOf(B)'
    <2>1. \A A, B : A \subseteq B => (1..N + 1) \cap A \subseteq B
      OBVIOUS
    <2> QED
      BY <1>9, <1>10, <1>11, <1>14, <2>1, TotalFacts
  <1>16. ASSUME NEW A \in SUBSET All
         PROVE  QuantityOf(A)' = QuantityOf(A) /\ FeeOf(A)' = FeeOf(A)
    <2>1. Part(b, A, N + 1) = 0 /\ Part(d, A, N + 1) = 0
      BY <1>3 DEF Part
    <2> QED
      BY <1>11, <1>12, <1>13, <2>1
  <1>17. QuantityOf(All)' = QuantityOf(All) + trade.quantity
    <2>1. QuantityOf(All)' = Total(b, 1..N + 1, N + 1) /\ QuantityOf(All) = Total(a, 1..N, N)
      BY <1>2, <1>3, <1>7 DEF QuantityOf
    <2>2. Part(b, 1..N + 1, N + 1) = trade.quantity
      BY <1>3, <1>9 DEF Part
    <2>3. Total(a, 1..N + 1, N) = Total(a, 1..N, N)
      <3>1. /\ Total(a, 1..N + 1, N) <= Total(a, 1..N, N)
            /\ Total(a, 1..N, N) <= Total(a, 1..N + 1, N)
        <4>1. (1..N) \cap (1..N + 1) \subseteq 1..N /\ (1..N) \cap (1..N) \subseteq 1..N + 1
          BY <1>3
        <4> QED
          BY <1>3, <1>9, <4>1, TotalFacts
      <3> QED
        BY <1>13, <3>1
    <2> QED
      BY <1>12, <2>1, <2>2, <2>3
  <1>18. GoesOn
    <2>1. /\ Len(trades) <= Len(trades)' /\ Len(trades)' \in Nat /\ All \subseteq All'
          /\ LastTime <= LastTime' /\ LastTime' \in Nat
      BY <1>2, <1>3, <1>5, <1>6
    <2> QED
      BY <1>2, <1>5, <1>15, <1>16, <2>1 DEF GoesOn
  <1>19. trades' \in Fills
    BY <1>3 DEF Fills, R
  <1>20. TimeOf(Len(trades))' = trade.time
    BY <1>3, <1>5 DEF TimeOf
  <1> QED
    BY <1>2, <1>3, <1>6, <1>17, <1>18, <1>19, <1>20

\* Each step of the exchange keeps the invariant.
LEMMA TradeKeeps ==
    ASSUME FillInv, Trade
    PROVE  FillInv'
  <1>1. PICK quantity \in 1..MaxQuantity, fee \in FillFees, later \in 0..1, last \in BOOLEAN :
           /\ outcome = "open" /\ Len(trades) < MaxFills
           /\ QuantityOf(All) + quantity <= (IF orderKind = "limit" THEN Quantity ELSE MaxQuantity)
           /\ orderKind = "limit" => last = (QuantityOf(All) + quantity = Quantity)
           /\ trades' = Append(trades, [quantity |-> quantity, fee |-> fee,
                                        time |-> TimeOf(Len(trades)) + later])
           /\ outcome' = IF last THEN "filled" ELSE "open"
           /\ UNCHANGED <<orderVenue, orderKind, endTime, tracked, boundary, told, refused>>
    BY DEF Trade
  <1>2. /\ FillTypes /\ ExchangeInv /\ ~refused /\ ~told
        /\ tracked = NoOrder \/ Sound(tracked, boundary)
    BY <1>1 DEF FillInv
  <1>3. PICK trade : trade = [quantity |-> quantity, fee |-> fee,
                              time |-> TimeOf(Len(trades)) + later]
    OBVIOUS
  <1>4. PICK N : N = Len(trades)
    OBVIOUS
  <1>5. /\ N \in Nat /\ All = 1..N /\ \A n \in 0..N : TimeOf(n) \in Nat
        /\ TimeOf(N) \in Nat /\ QuantityOf(All) \in Nat
    BY <1>2, <1>4, TradeFacts, QuantityFacts
  <1>6. /\ trade \in [quantity : Nat \ {0}, fee : Nat, time : Nat]
        /\ trade.quantity = quantity /\ TimeOf(N) <= trade.time /\ trade.time \in Nat
    <2>1. quantity \in Nat \ {0} /\ fee \in Nat
      BY FillAssumption
    <2> QED
      BY <1>3, <1>4, <1>5, <2>1
  <1>7. trades' = Append(trades, trade) /\ outcome' \in {"open", "filled"}
    BY <1>1, <1>3
  <1>8. /\ GoesOn /\ trades' \in Fills /\ Len(trades)' = N + 1
        /\ QuantityOf(All)' = QuantityOf(All) + quantity
        /\ TimeOf(Len(trades))' = trade.time /\ LastTime' = trade.time
        /\ TimeOf(N + 1)' = trade.time
    <2>1. /\ GoesOn /\ trades' \in Fills /\ Len(trades)' = N + 1
          /\ QuantityOf(All)' = QuantityOf(All) + quantity
          /\ TimeOf(Len(trades))' = trade.time /\ LastTime' = trade.time
      BY <1>1, <1>2, <1>4, <1>6, <1>7, TradeGoesOn
    <2>2. TimeOf(N + 1)' = TimeOf(Len(trades))'
      BY <2>1 DEF TimeOf
    <2> QED
      BY <2>1, <2>2
  <1>9. FillTypes'
    BY <1>1, <1>2, <1>7, <1>8 DEF FillTypes
  <1>10. All' = 1..N + 1 /\ trades' # << >>
    <2> DEFINE R == [quantity : Nat \ {0}, fee : Nat, time : Nat]
    <2>1. trades' \in Seq(R) /\ Len(trades') = N + 1
      BY <1>8 DEF Fills
    <2> HIDE DEF R
    <2> QED
      BY <1>5, <2>1 DEF All
  <1>11. ExchangeInv'
    <2>1. ASSUME NEW i \in 1..N + 1, NEW j \in 1..N + 1, i <= j
          PROVE  TimeOf(i)' <= TimeOf(j)'
      <3>1. \A n \in 0..N : TimeOf(n)' = TimeOf(n)
        BY <1>4, <1>8 DEF GoesOn
      <3>2. CASE j = N + 1
        <4>1. CASE i = N + 1
          BY <1>6, <1>8, <3>2, <4>1
        <4>2. CASE i \in 1..N
          <5>1. N \in 1..N /\ i <= N
            BY <1>5, <4>2
          <5>2. TimeOf(i) <= TimeOf(N)
            BY <1>2, <1>5, <4>2, <5>1 DEF ExchangeInv
          <5>3. TimeOf(i)' = TimeOf(i) /\ TimeOf(i) \in Nat
            BY <1>5, <3>1, <4>2
          <5> QED
            BY <1>5, <1>6, <1>8, <3>2, <5>2, <5>3
        <4> QED
          BY <1>5, <4>1, <4>2
      <3>3. CASE j \in 1..N
        <4>1. i \in 1..N /\ i \in 0..N /\ j \in 0..N
          BY <1>5, <2>1, <3>3
        <4>2. TimeOf(i) <= TimeOf(j)
          BY <1>2, <1>5, <2>1, <3>3, <4>1 DEF ExchangeInv
        <4> QED
          BY <3>1, <4>1, <4>2
      <3> QED
        BY <1>5, <3>2, <3>3
    <2>2. orderKind' = "limit" => /\ QuantityOf(All)' <= Quantity
                                  /\ outcome' = "filled" <=> QuantityOf(All)' = Quantity
      BY <1>1, <1>8
    <2>3. TimeOf(Len(trades))' <= LastTime'
      BY <1>6, <1>8
    <2> QED
      BY <1>10, <2>1, <2>2, <2>3 DEF ExchangeInv
  <1>12. tracked' = NoOrder \/ Sound(tracked, boundary)'
    BY <1>1, <1>2, <1>8, SoundGoesOn
  <1> QED
    BY <1>1, <1>2, <1>9, <1>11, <1>12 DEF FillInv, LastWordCounts

LEMMA CancelKeeps ==
    ASSUME FillInv, CancelOrder
    PROVE  FillInv'
  <1>1. PICK later \in 0..1 :
           /\ outcome = "open" /\ outcome' = "canceled" /\ endTime' = TimeOf(Len(trades)) + later
           /\ UNCHANGED <<orderVenue, orderKind, trades, tracked, boundary, told, refused>>
    BY DEF CancelOrder
  <1>2. /\ FillTypes /\ ExchangeInv /\ ~refused /\ ~told
        /\ tracked = NoOrder \/ Sound(tracked, boundary)
    BY <1>1 DEF FillInv
  <1>3. /\ Len(trades) \in Nat /\ TimeOf(Len(trades)) \in Nat
        /\ endTime' \in Nat /\ TimeOf(Len(trades)) <= endTime'
    <2>1. Len(trades) \in Nat /\ TimeOf(Len(trades)) \in Nat
      BY <1>2, TradeFacts
    <2> QED
      BY <1>1, <2>1
  <1>4. FillTypes'
    BY <1>1, <1>2, <1>3 DEF FillTypes, Fills
  <1>5. /\ \A A : QuantityOf(A)' = QuantityOf(A) /\ FeeOf(A)' = FeeOf(A)
        /\ All' = All /\ Len(trades)' = Len(trades)
        /\ \A n : TimeOf(n)' = TimeOf(n)
        /\ TimeOf(Len(trades))' = TimeOf(Len(trades))
        /\ QuantityOf(All)' = QuantityOf(All)
    BY <1>1 DEF QuantityOf, FeeOf, All, TimeOf
  <1>6. LastTime = TimeOf(Len(trades)) /\ LastTime' = endTime'
    BY <1>1 DEF LastTime
  <1>7. ExchangeInv'
    <2>1. orderKind = "limit" => QuantityOf(All) # Quantity
      BY <1>1, <1>2 DEF ExchangeInv
    <2> QED
      BY <1>1, <1>2, <1>3, <1>5, <1>6, <2>1 DEF ExchangeInv
  <1>8. GoesOn
    <2>1. /\ \A A : QuantityOf(A) \in Nat /\ FeeOf(A) \in Nat
          /\ \A A, B : A \subseteq B => QuantityOf(A) <= QuantityOf(B) /\ FeeOf(A) <= FeeOf(B)
      <3>1. \A A, B : A \subseteq B => All \cap A \subseteq B
        OBVIOUS
      <3> QED
        BY <1>2, <3>1, QuantityFacts, FeeFacts
    <2> QED
      BY <1>1, <1>3, <1>5, <1>6, <2>1 DEF GoesOn
  <1>9. tracked' = NoOrder \/ Sound(tracked, boundary)'
    BY <1>1, <1>2, <1>8, SoundGoesOn
  <1> QED
    BY <1>1, <1>2, <1>4, <1>7, <1>9 DEF FillInv, LastWordCounts

\* An order that nobody has heard of has no fills.
LEMMA FillInitially ==
    ASSUME FillInit
    PROVE  FillInv
  <1>1. FillTypes
    <2>1. orderVenue \in {"binance", "bitget"} /\ orderKind \in {"limit", "market"}
      BY FillAssumption DEF FillInit
    <2>2. trades \in Fills
      BY DEF FillInit, Fills
    <2> QED
      BY <2>1, <2>2 DEF FillInit, FillTypes
  <1>2. All = {} /\ Len(trades) = 0 /\ TimeOf(Len(trades)) = 0 /\ LastTime = 0
    BY DEF FillInit, All, TimeOf, LastTime
  <1>3. QuantityOf(All) = 0
    BY <1>1, QuantityFacts, <1>2
  <1>4. ExchangeInv
    BY <1>2, <1>3, FillAssumption DEF FillInit, ExchangeInv
  <1> QED
    BY <1>1, <1>4 DEF FillInit, FillInv, LastWordCounts

-----------------------------------------------------------------------------
(* What holds of every order *)

\* However the messages about an order are delayed, lost, repeated or reordered,
\* what the reconciler holds is accounted for: its quantity by the last snapshot and
\* the later fills, its fee by the fills behind it, its end by that at the exchange
\* (OrderReconciler._apply_order, _apply_fill).
THEOREM FillInvariance == FillSpec => []FillInv
  <1>1. FillInit => FillInv
    BY FillInitially
  <1>2. FillInv /\ [FillNext]_fillVars => FillInv'
    <2> SUFFICES ASSUME FillInv, [FillNext]_fillVars PROVE FillInv'
      OBVIOUS
    <2>0. FillTypes /\ ExchangeInv
      BY DEF FillInv
    <2>1. CASE Trade
      BY <2>1, TradeKeeps
    <2>2. CASE CancelOrder
      BY <2>2, CancelKeeps
    <2>3. CASE OrderArrives
      <3>1. PICK m \in OrderViews : ApplyOrder(m) /\ told' = (told \/ m.status = "filled")
        BY <2>3 DEF OrderArrives
      <3>2. Truthful(m) /\ Unchanged /\ told \in BOOLEAN
        BY <2>0, <2>3, ViewsAreTruthful DEF OrderArrives, FillTypes
      <3>3. m.status \in Terminal => outcome # "open"
        <4>1. m.status \in Terminal => m.status = outcome
          BY <3>2 DEF Truthful, TellsOf
        <4> QED
          BY <4>1 DEF Terminal
      <3>4. told' \in BOOLEAN /\ (told' => told \/ m.status \in Terminal)
        BY <3>1, <3>2 DEF Terminal
      <3> QED
        BY <3>1, <3>2, <3>3, <3>4, OrderIsApplied
    <2>4. CASE CanceledArrives
      <3>1. PICK m : m = CanceledView
        OBVIOUS
      <3>2. /\ ApplyOrder(m) /\ told' = TRUE /\ Unchanged /\ outcome = "canceled"
            /\ Truthful(m) /\ m.status = "canceled"
        BY <2>0, <2>4, <3>1, ViewsAreTruthful DEF CanceledArrives
      <3> QED
        BY <3>2, OrderIsApplied DEF Terminal
    <2>5. CASE AcknowledgementArrives
      <3>1. PICK at \in 0..(TimeOf(Len(trades)) + 1) : ApplyOrder(Acknowledgement(at))
        BY <2>5 DEF AcknowledgementArrives
      <3>2. PICK m : m = Acknowledgement(at)
        OBVIOUS
      <3>3. /\ ApplyOrder(m) /\ told' = told /\ told \in BOOLEAN /\ Unchanged
            /\ Truthful(m) /\ m.status = "submitted"
        BY <2>0, <2>5, <3>1, <3>2, ViewsAreTruthful DEF AcknowledgementArrives, FillTypes
      <3> QED
        BY <3>3, OrderIsApplied DEF Terminal
    <2>6. CASE FillArrives
      BY <2>6, FillIsApplied DEF FillArrives
    <2>7. CASE UNCHANGED fillVars
      BY <2>7 DEF fillVars, FillInv, FillTypes, Fills, ExchangeInv, Sound, Tracked, Boundaries,
         QuantityHolds, FeeHolds, StatusHolds, TimeHolds, Later, Covered, QuantityOf, FeeOf,
         All, TimeOf, LastTime, LastWordCounts, AcknowledgedLate
    <2> QED
      BY <2>1, <2>2, <2>3, <2>4, <2>5, <2>6, <2>7 DEF FillNext
  <1> QED
    BY <1>1, <1>2, PTL DEF FillSpec

\* So what is tracked never exceeds what the exchange did: no fill or fee counts
\* twice, an order is final only if it is final there, and no true message makes an
\* order that is refused (OrderReconciler.apply).
THEOREM NothingIsInvented == FillSpec => []NothingInvented
  <1>1. FillInv => NothingInvented
    BY SoundBounds DEF FillInv, NothingInvented, Sound, StatusHolds
  <1> QED
    BY <1>1, FillInvariance, PTL

\* And one message about the ended order settles it, for good, whatever came before
\* and comes after, except an acknowledgement stamped later than the order's end.
THEOREM TheLastWordCounts == FillSpec => []LastWordCounts
  <1>1. FillInv => LastWordCounts
    BY DEF FillInv
  <1> QED
    BY <1>1, FillInvariance, PTL

-----------------------------------------------------------------------------
(* The account store *)

\* The millisecond of a change, 0 of what nothing has changed
TickOf(n) == IF n = 0 THEN 0 ELSE ticks[n]
ComponentOf(i) == IF i \in Assets THEN "balances" ELSE "positions"

\* What messages are made of.
AccountMessages ==
    [snapshot : BOOLEAN, components : SUBSET Components, sequence : Nat,
     rows : UNION {[S -> Entries] : S \in SUBSET (Assets \cup Sides)}]

\* The changes of an item that are still to be met with: at the exchange, in the
\* store, or in a message.
Sent == Range(inbox) \cup Range(refresh.messages)
Naming(i) == {m \in Sent : i \in DOMAIN m.rows}
Met(i) == {account[i].at, entries[i].at} \cup {m.rows[i].at : m \in Naming(i)}

\* What a message may leave out: see NothingElseIsLost.
Excused(n) == n \in torn \/ (n > 0 /\ SameTick(n))

\* The exchange's clock does not go back.
ClockInv ==
    /\ scope \in {"spot", "futures", "bitget"}
    /\ ticks \in Seq(Nat \ {0}) /\ Len(ticks) <= MaxChanges
    /\ \A n, k \in DOMAIN ticks : n <= k => ticks[n] <= ticks[k]
    /\ account \in [Items -> Entries] /\ \A i \in Items : account[i].at <= Len(ticks)

\* A message as it was made: what it says of an item is of a change that the exchange
\* has had, no later than its sequence.
Made(m) ==
    /\ m \in AccountMessages /\ m.sequence <= Now
    /\ m.snapshot => \A c \in m.components : ItemsOf(c) \subseteq DOMAIN m.rows
    /\ scope = "bitget" => \A c, d \in m.components : c = d
    /\ DOMAIN m.rows \subseteq Items
    /\ \A i \in DOMAIN m.rows :
          /\ m.rows[i].at <= account[i].at /\ TickOf(m.rows[i].at) <= m.sequence
          /\ m.rows[i].at = account[i].at => m.rows[i] = account[i]
          /\ ComponentOf(i) \in m.components

\* A later change of what it names is later than the message.
Fresh(m) == \A i \in DOMAIN m.rows : \A n \in Met(i) :
    n > m.rows[i].at => m.sequence < TickOf(n) \/ Excused(n)

\* The stream's messages come in the order of the changes, to a store that has had a
\* snapshot; one that is out of order for a component is so for all it has.
InboxInv ==
    /\ inbox \in Seq(AccountMessages) /\ connected \in BOOLEAN
    /\ inbox # << >> => connected
    /\ connected => \A c \in Components : cursors[c] # NoCursor
    /\ \A n \in DOMAIN inbox : Made(inbox[n]) /\ Fresh(inbox[n])
    /\ \A n, k \in DOMAIN inbox : n <= k => inbox[n].sequence <= inbox[k].sequence
    /\ \A n \in DOMAIN inbox : \A c, d \in inbox[n].components :
          inbox[n].sequence < cursors[c] => inbox[n].sequence < cursors[d]

\* A refresh has snapshots; what changed since the balances of Binance futures were
\* read, and before its positions are, is torn.
RefreshInv ==
    /\ refresh \in [phase : {"idle", "balances", "read"}, messages : Seq(AccountMessages)]
    /\ \A n \in DOMAIN refresh.messages : /\ Made(refresh.messages[n])
                                          /\ Fresh(refresh.messages[n])
                                          /\ refresh.messages[n].snapshot
    /\ refresh.phase = "idle" => refresh.messages = << >>
    /\ refresh.phase = "balances" => /\ Len(refresh.messages) = 1 /\ scope # "spot"
                                     /\ refresh.messages[1].components = {"balances"}
                                     /\ DOMAIN refresh.messages[1].rows = Assets
    /\ refresh.phase = "read" =>
          IF scope = "bitget"
          THEN /\ Len(refresh.messages) = 2
               /\ refresh.messages[1].components = {"balances"}
               /\ refresh.messages[2].components = {"positions"}
          ELSE Len(refresh.messages) = 1 /\ refresh.messages[1].components = Components
    /\ refresh.phase = "balances" /\ scope = "futures" =>
          \A i \in Assets : \A n \in Met(i) :
             n > refresh.messages[1].rows[i].at => n \in torn

\* The store has values that its cursors have passed.
StoreInv ==
    /\ entries \in [Items -> Entries] /\ cursors \in [Components -> NoCursor..Now]
    /\ cursors["balances"] = NoCursor <=> cursors["positions"] = NoCursor
    /\ \A i \in Items : /\ entries[i].at <= account[i].at
                        /\ entries[i].at > 0 => TickOf(entries[i].at) <= cursors[ComponentOf(i)]

\* The change of an item is announced by a message, before any other of its time.
Announced(i) == \E n \in DOMAIN inbox :
    /\ i \in DOMAIN inbox[n].rows /\ inbox[n].rows[i].at = account[i].at
    /\ \A k \in 1..n - 1 : ComponentOf(i) \in inbox[k].components =>
          inbox[k].sequence < TickOf(account[i].at)

Dropped(i) == <<i, account[i].at>> \in lost \/ Excused(account[i].at)

\* What the cursor of a component has passed is in the store; what it has not is
\* announced.
Passed(i) == TickOf(account[i].at) <= cursors[ComponentOf(i)]
ItemHolds(i) ==
    /\ Passed(i) => entries[i] = account[i] \/ Dropped(i)
    /\ account[i].at > 0 /\ ~Passed(i) => Announced(i) \/ Dropped(i)
CursorInv == \A i \in Items : ItemHolds(i)

\* The inductive invariant of the account store.
AccountInv == mode \in {"one_way", "hedge"} /\ ClockInv /\ InboxInv /\ RefreshInv /\ StoreInv /\ CursorInv

\* The greatest of a set of numbers that ends somewhere.
LEMMA MaxIsGreatest ==
    ASSUME NEW n \in Nat, NEW S \in SUBSET (0..n), S # {}
    PROVE  Max(S) \in S /\ \A k \in S : k <= Max(S)
  <1> DEFINE D == {d \in Nat : n - d \in S}
  <1>1. PICK s \in S : TRUE
    OBVIOUS
  <1>2. n - s \in D
    BY <1>1
  <1>3. PICK d \in D : \A e \in D : d <= e
    BY <1>2, LeastExists
  <1>4. ASSUME NEW k \in S PROVE n - d >= k
    <2>1. n - k \in D
      OBVIOUS
    <2>2. d <= n - k
      BY <1>3, <2>1
    <2> QED
      BY <2>2
  <1>5. Max(S) \in S /\ \A k \in S : Max(S) >= k
    BY <1>4 DEF Max
  <1>6. Max(S) \in Nat /\ \A k \in S : k \in Nat
    <2>1. \A k \in S : k \in Nat
      OBVIOUS
    <2> QED
      BY <1>5, <2>1
  <1> QED
    BY <1>5, <1>6

\* What the clock says of the changes there were.
LEMMA ClockFacts ==
    ASSUME ClockInv
    PROVE  /\ Len(ticks) \in Nat /\ DOMAIN ticks = 1..Len(ticks) /\ Now \in Nat
           /\ \A n \in 0..Len(ticks) : TickOf(n) \in Nat /\ TickOf(n) <= Now
           /\ TickOf(0) = 0
           /\ \A i \in Items : account[i].at \in 0..Len(ticks)
  <1>1. /\ Len(ticks) \in Nat /\ DOMAIN ticks = 1..Len(ticks)
        /\ \A n \in 1..Len(ticks) : ticks[n] \in Nat \ {0}
        /\ ticks = << >> <=> Len(ticks) = 0
    BY DEF ClockInv
  <1>2. Now \in Nat
    BY <1>1 DEF Now
  <1>3. \A n \in 0..Len(ticks) : TickOf(n) \in Nat
    BY <1>1 DEF TickOf
  <1>4. ASSUME NEW n \in 0..Len(ticks) PROVE TickOf(n) <= Now
    BY <1>1, <1>2 DEF TickOf, Now, ClockInv
  <1>5. \A i \in Items : account[i].at \in 0..Len(ticks)
    BY <1>1 DEF ClockInv, Entries
  <1> QED
    BY <1>1, <1>2, <1>3, <1>4, <1>5 DEF TickOf

\* Items have their components, and parts of nothing else.
LEMMA ComponentFacts ==
    /\ Items \subseteq Assets \cup Sides
    /\ \A i \in Items : ComponentOf(i) \in Components /\ i \in ItemsOf(ComponentOf(i))
    /\ \A c \in Components : \A i \in ItemsOf(c) : i \in Items /\ c = ComponentOf(i)
  BY AccountAssumption DEF Items, ItemsOf, ComponentOf, Components, Sides

\* What a message is.
LEMMA MessageFacts ==
    ASSUME NEW m \in AccountMessages
    PROVE  /\ m.snapshot \in BOOLEAN /\ m.components \subseteq Components /\ m.sequence \in Nat
           /\ DOMAIN m.rows \subseteq Assets \cup Sides
           /\ \A i \in DOMAIN m.rows : m.rows[i] \in Entries /\ m.rows[i].at \in Nat
  <1>1. /\ m.snapshot \in BOOLEAN /\ m.components \subseteq Components /\ m.sequence \in Nat
        /\ m.rows \in UNION {[S -> Entries] : S \in SUBSET (Assets \cup Sides)}
    BY DEF AccountMessages
  <1>2. PICK S \in SUBSET (Assets \cup Sides) : m.rows \in [S -> Entries]
    BY <1>1
  <1>3. \A e \in Entries : e.at \in Nat
    BY DEF Entries
  <1> QED
    BY <1>1, <1>2, <1>3

\* A message of rows on some items is one.
LEMMA MessageIs ==
    ASSUME NEW snapshot \in BOOLEAN, NEW components \in SUBSET Components, NEW sequence \in Nat,
           NEW S \in SUBSET (Assets \cup Sides), NEW rows \in [S -> Entries]
    PROVE  /\ Message(snapshot, components, sequence, rows) \in AccountMessages
           /\ Message(snapshot, components, sequence, rows).snapshot = snapshot
           /\ Message(snapshot, components, sequence, rows).components = components
           /\ Message(snapshot, components, sequence, rows).sequence = sequence
           /\ Message(snapshot, components, sequence, rows).rows = rows
  <1>1. rows \in UNION {[T -> Entries] : T \in SUBSET (Assets \cup Sides)}
    OBVIOUS
  <1> QED
    BY <1>1 DEF Message, AccountMessages

\* What can be met with is of changes there were.
LEMMA MetFacts ==
    ASSUME AccountInv, NEW i \in Items
    PROVE  /\ \A n \in Met(i) : n \in 0..Len(ticks) /\ n <= account[i].at
           /\ account[i].at \in Met(i) /\ entries[i].at \in Met(i)
           /\ \A m \in Naming(i) : m.rows[i].at \in Met(i)
  <1>1. account[i].at \in 0..Len(ticks) /\ Len(ticks) \in Nat
    BY ClockFacts DEF AccountInv
  <1>2. entries[i].at \in 0..Len(ticks) /\ entries[i].at <= account[i].at
    <2>1. entries[i] \in Entries /\ entries[i].at <= account[i].at
      BY DEF AccountInv, StoreInv
    <2>2. entries[i].at \in Nat
      BY <2>1 DEF Entries
    <2> QED
      BY <1>1, <2>1, <2>2
  <1>3. ASSUME NEW m \in Naming(i)
        PROVE  m.rows[i].at \in 0..Len(ticks) /\ m.rows[i].at <= account[i].at
    <2>1. Made(m) /\ i \in DOMAIN m.rows
      BY DEF Naming, Sent, Range, AccountInv, InboxInv, RefreshInv
    <2>2. m.rows[i].at \in Nat /\ m.rows[i].at <= account[i].at
      BY <2>1, MessageFacts DEF Made
    <2> QED
      BY <1>1, <2>2
  <1> QED
    BY <1>1, <1>2, <1>3 DEF Met

\* The exchange goes on with the account: what has been stays, and what is new is later,
\* or of the same millisecond.
LaterChange(n) == /\ n \in Nat /\ n > Len(ticks) /\ TickOf(n)' \in Nat
                  /\ TickOf(n)' > Now \/ SameTick(n)'
MovesOn ==
    /\ ClockInv' /\ scope' = scope /\ torn \subseteq torn'
    /\ \A n \in 0..Len(ticks) : TickOf(n)' = TickOf(n) /\ (SameTick(n) => SameTick(n)')
    /\ Now <= Now' /\ Now' \in Nat
    /\ \A i \in Items : account'[i] = account[i] \/ account'[i].at > Len(ticks)
    /\ \A i \in Items : \A n \in Met(i)' : n \in Met(i) \/ LaterChange(n)

\* A message stays what it was then.
LEMMA MessageStays ==
    ASSUME AccountInv, MovesOn, NEW m, Made(m), Fresh(m)
    PROVE  Made(m)' /\ Fresh(m)'
  <1>0. ClockInv /\ m \in AccountMessages /\ m.sequence \in Nat
    BY MessageFacts DEF AccountInv, Made
  <1>1. /\ Len(ticks) \in Nat /\ Now \in Nat /\ Now' \in Nat /\ Items' = Items
        /\ m.sequence <= Now
    BY <1>0, ClockFacts DEF Made, MovesOn, Items
  <1>2. m.sequence <= Now'
    BY <1>0, <1>1 DEF MovesOn
  <1>3. ASSUME NEW i \in DOMAIN m.rows
        PROVE  /\ m.rows[i].at <= account'[i].at /\ TickOf(m.rows[i].at)' <= m.sequence
               /\ m.rows[i].at = account'[i].at => m.rows[i] = account'[i]
               /\ ComponentOf(i) \in m.components
    <2>1. /\ i \in Items /\ m.rows[i].at \in Nat /\ m.rows[i].at <= account[i].at
          /\ TickOf(m.rows[i].at) <= m.sequence
          /\ m.rows[i].at = account[i].at => m.rows[i] = account[i]
          /\ ComponentOf(i) \in m.components
      BY <1>0, MessageFacts DEF Made
    <2>2. account[i].at \in 0..Len(ticks)
      BY <1>0, <2>1, ClockFacts
    <2>3. m.rows[i].at \in 0..Len(ticks)
      BY <1>1, <2>1, <2>2
    <2>4. account'[i].at \in Nat
      BY <1>1, <2>1 DEF MovesOn, ClockInv, Entries
    <2>5. account'[i] = account[i] \/ account'[i].at > Len(ticks)
      BY <2>1 DEF MovesOn
    <2> QED
      BY <1>1, <2>1, <2>2, <2>3, <2>4, <2>5 DEF MovesOn
  <1>4. Made(m)'
    <2>1. \A c \in Components : ItemsOf(c)' = ItemsOf(c)
      BY <1>1 DEF ItemsOf
    <2>2. m.components \subseteq Components
      BY <1>0, MessageFacts
    <2> QED
      BY <1>1, <1>2, <1>3, <2>1, <2>2 DEF Made, MovesOn, AccountMessages, ComponentOf
  <1>5. ASSUME NEW i \in DOMAIN m.rows, NEW n \in Met(i)', n > m.rows[i].at
        PROVE  m.sequence < TickOf(n)' \/ Excused(n)'
    <2>1. i \in Items
      BY DEF Made
    <2>2. n \in Met(i) \/ LaterChange(n)
      BY <2>1 DEF MovesOn
    <2>3. CASE n \in Met(i)
      <3>1. n \in 0..Len(ticks)
        BY <2>1, <2>3, MetFacts
      <3>2. m.sequence < TickOf(n) \/ Excused(n)
        BY <1>5, <2>3 DEF Fresh
      <3> QED
        BY <3>1, <3>2 DEF MovesOn, Excused
    <2>4. CASE LaterChange(n)
      <3>1. m.sequence < TickOf(n)' \/ SameTick(n)'
        BY <1>0, <1>1, <2>4 DEF LaterChange
      <3>2. n > 0
        BY <1>1, <2>4 DEF LaterChange
      <3> QED
        BY <3>1, <3>2 DEF Excused
    <2> QED
      BY <2>2, <2>3, <2>4
  <1> QED
    BY <1>4, <1>5 DEF Fresh

\* So it does while it rests.
LEMMA RestMovesOn ==
    ASSUME AccountInv, UNCHANGED <<scope, account, ticks, torn>>,
           \A i \in Items : Met(i)' \subseteq Met(i)
    PROVE  /\ MovesOn
           /\ \A m : Made(m) /\ Fresh(m) => Made(m)' /\ Fresh(m)'
           /\ \A m : Made(m) => Made(m)'
  <1>1. ClockInv /\ Now \in Nat
    BY ClockFacts DEF AccountInv
  <1>2. /\ Now' = Now /\ Items' = Items /\ Len(ticks)' = Len(ticks)
        /\ \A n : TickOf(n)' = TickOf(n) /\ SameTick(n)' = SameTick(n)
        /\ \A c : ItemsOf(c)' = ItemsOf(c)
    BY DEF Now, Items, TickOf, SameTick, ItemsOf
  <1>3. ClockInv'
    BY <1>1, <1>2 DEF ClockInv
  <1>4. MovesOn
    BY <1>1, <1>2, <1>3 DEF MovesOn
  <1>5. \A m : Made(m) => Made(m)'
    BY <1>2 DEF Made
  <1> QED
    BY <1>4, <1>5, MessageStays

\* A refresh reads or fails, and does nothing to the store or the stream.
LEMMA RefreshStep ==
    ASSUME AccountInv, RefreshInv',
           UNCHANGED <<scope, mode, account, ticks, inbox, connected, entries, cursors, lost, torn>>,
           \A i \in Items : Met(i)' \subseteq Met(i)
    PROVE  AccountInv'
  <1>1. MovesOn /\ \A m : Made(m) /\ Fresh(m) => Made(m)' /\ Fresh(m)'
    BY RestMovesOn
  <1>2. InboxInv'
    <2>1. InboxInv
      BY DEF AccountInv
    <2>2. \A n \in DOMAIN inbox : Made(inbox[n])' /\ Fresh(inbox[n])'
      <3>1. ASSUME NEW n \in DOMAIN inbox PROVE Made(inbox[n])' /\ Fresh(inbox[n])'
        <4>1. PICK m : m = inbox[n]
          OBVIOUS
        <4>2. Made(m)' /\ Fresh(m)'
          BY <1>1, <2>1, <4>1 DEF InboxInv
        <4>3. inbox'[n] = m
          BY <4>1
        <4> QED
          BY <4>2, <4>3
      <3> QED
        BY <3>1
    <2> QED
      BY <2>1, <2>2 DEF InboxInv
  <1>3. StoreInv'
    BY DEF AccountInv, StoreInv, Items, Now, TickOf
  <1>4. CursorInv'
    BY DEF AccountInv, CursorInv, ItemHolds, Passed, Dropped, Announced, Excused, SameTick, TickOf,
       Items
  <1> QED
    BY <1>1, <1>2, <1>3, <1>4 DEF MovesOn, AccountInv

\* What a refresh reads is of changes that are known.
LEMMA RefreshMet ==
    ASSUME UNCHANGED <<account, entries, inbox, scope>>,
           \A n \in DOMAIN refresh'.messages : \A i \in DOMAIN refresh'.messages[n].rows :
              refresh'.messages[n].rows[i].at \in Met(i)
    PROVE  \A i \in Items : Met(i)' \subseteq Met(i)
  BY DEF Met, Naming, Sent, Range

\* The sequence of a snapshot of Binance is no earlier than what it has.
LEMMA LatestIs ==
    ASSUME ClockInv, NEW S, NEW rows \in [S -> Entries], \A i \in S : rows[i].at \in 0..Len(ticks)
    PROVE  /\ LatestOf(rows) \in Nat /\ LatestOf(rows) <= Now
           /\ \A i \in S : TickOf(rows[i].at) <= LatestOf(rows)
  <1> DEFINE T == {0} \cup {ticks[n] : n \in {rows[i].at : i \in DOMAIN rows} \ {0}}
  <1>1. /\ Now \in Nat /\ Len(ticks) \in Nat
        /\ \A n \in 0..Len(ticks) : TickOf(n) \in Nat /\ TickOf(n) <= Now
    BY ClockFacts
  <1>2. \A i \in S : TickOf(rows[i].at) \in T
    BY DEF TickOf
  <1>3. T \in SUBSET (0..Now) /\ T # {}
    <2>1. ASSUME NEW t \in T PROVE t \in 0..Now
      <3>1. CASE t = 0
        BY <1>1, <3>1
      <3>2. CASE t # 0
        <4>1. PICK i \in S : rows[i].at # 0 /\ t = ticks[rows[i].at]
          BY <3>2
        <4>2. t = TickOf(rows[i].at)
          BY <4>1 DEF TickOf
        <4> QED
          BY <1>1, <4>2
      <3> QED
        BY <3>1, <3>2
    <2> QED
      BY <2>1
  <1>4. LatestOf(rows) = Max(T)
    BY DEF LatestOf
  <1> HIDE DEF T
  <1>5. Max(T) \in T /\ \A t \in T : t <= Max(T)
    BY <1>1, <1>3, MaxIsGreatest
  <1>6. LatestOf(rows) \in 0..Now /\ \A t \in T : t <= LatestOf(rows)
    BY <1>3, <1>4, <1>5
  <1> QED
    BY <1>1, <1>2, <1>6

\* A snapshot of the account as it is, but for what changed between two requests.
Readable(S, components, sequence, rows) ==
    /\ S \subseteq Items /\ components \subseteq Components
    /\ sequence \in Nat /\ sequence <= Now /\ rows \in [S -> Entries]
    /\ \A c \in components : ItemsOf(c) \subseteq S
    /\ scope = "bitget" => \A c, d \in components : c = d
    /\ \A i \in S : /\ ComponentOf(i) \in components /\ TickOf(rows[i].at) <= sequence
                    /\ rows[i].at <= account[i].at
                    /\ rows[i].at = account[i].at => rows[i] = account[i]
                    /\ \A n \in Met(i) : n > rows[i].at => n \in torn
AccountSnapshot(components, sequence, rows) == Message(TRUE, components, sequence, rows)

\* It is a message that was made so, and is fresh.
LEMMA ReadIs ==
    ASSUME AccountInv, NEW S, NEW components, NEW sequence, NEW rows,
           Readable(S, components, sequence, rows),
           NEW m, m = AccountSnapshot(components, sequence, rows)
    PROVE  /\ m \in AccountMessages /\ Made(m) /\ Fresh(m)
           /\ m.snapshot /\ m.components = components /\ m.rows = rows /\ m.sequence = sequence
  <1>1. S \in SUBSET (Assets \cup Sides)
    BY ComponentFacts DEF Readable
  <1>2. /\ m \in AccountMessages
        /\ m.snapshot /\ m.components = components /\ m.rows = rows /\ m.sequence = sequence
        /\ DOMAIN m.rows = S
    <2>1. components \in SUBSET Components /\ sequence \in Nat /\ rows \in [S -> Entries]
      BY DEF Readable
    <2>2. /\ m.snapshot /\ m.components = components
          /\ m.sequence = sequence /\ m.rows = rows
      BY DEF Message, AccountSnapshot
    <2>3. PICK Rows : Rows = UNION {[T -> Entries] : T \in SUBSET (Assets \cup Sides)}
      OBVIOUS
    <2>4. rows \in Rows
      BY <1>1, <2>1, <2>3
    <2>5. m \in [snapshot : BOOLEAN, components : SUBSET Components, sequence : Nat, rows : Rows]
      BY <2>1, <2>4 DEF Message, AccountSnapshot
    <2>6. m \in AccountMessages
      BY <2>3, <2>5, Zenon DEF AccountMessages
    <2>7. DOMAIN m.rows = S
      BY <2>1, <2>2
    <2> QED
      BY <2>2, <2>6, <2>7
  <1>3. Made(m)
    BY <1>2 DEF Made, Readable
  <1>4. Fresh(m)
    BY <1>2 DEF Fresh, Excused, Readable
  <1> QED
    BY <1>2, <1>3, <1>4

\* What is read of the account now.
LEMMA ReadNow ==
    ASSUME AccountInv, NEW i \in Items
    PROVE  /\ account[i] \in Entries /\ account[i].at \in 0..Len(ticks)
           /\ TickOf(account[i].at) <= Now /\ account[i].at \in Met(i)
           /\ \A n \in Met(i) : n > account[i].at => FALSE
  <1>1. ClockInv /\ account \in [Items -> Entries]
    BY DEF AccountInv, ClockInv
  <1>2. \A n \in Met(i) : n \in Nat /\ n <= account[i].at
    BY MetFacts
  <1>3. account[i].at \in 0..Len(ticks)
    BY <1>1, ClockFacts
  <1> QED
    BY <1>1, <1>2, <1>3, ClockFacts, MetFacts

\* One request of Binance spot reads the account as it is.
LEMMA LoadSpotKeeps ==
    ASSUME AccountInv, LoadSpot
    PROVE  AccountInv'
  <1>1. PICK m : m = AccountSnapshot(Components, LatestOf(account), account)
    OBVIOUS
  <1>2. /\ scope = "spot" /\ refresh' = [phase |-> "read", messages |-> <<m>>]
        /\ UNCHANGED <<scope, mode, account, ticks, inbox, connected, entries, cursors, lost, torn>>
    BY <1>1 DEF LoadSpot, AccountSnapshot
  <1>3. ClockInv /\ account \in [Items -> Entries]
    BY DEF AccountInv, ClockInv
  <1>4. /\ LatestOf(account) \in Nat /\ LatestOf(account) <= Now
        /\ \A i \in Items : TickOf(account[i].at) <= LatestOf(account)
    <2>1. \A i \in Items : account[i].at \in 0..Len(ticks)
      BY ReadNow
    <2> QED
      BY <1>3, <2>1, LatestIs
  <1>5. /\ m \in AccountMessages /\ Made(m) /\ Fresh(m) /\ m.snapshot
        /\ m.components = Components /\ m.rows = account /\ m.sequence = LatestOf(account)
    <2>1. \A c \in Components : ItemsOf(c) \subseteq Items
      BY DEF ItemsOf
    <2>2. \A i \in Items : /\ ComponentOf(i) \in Components /\ account[i].at <= account[i].at
                           /\ \A n \in Met(i) : n > account[i].at => n \in torn
      BY ReadNow, ComponentFacts
    <2>3. Readable(Items, Components, LatestOf(account), account)
      BY <1>2, <1>3, <1>4, <2>1, <2>2 DEF Readable
    <2> QED
      BY <1>1, <2>3, ReadIs
  <1>6. \A i \in Items : Met(i)' \subseteq Met(i)
    <2>1. \A n \in DOMAIN refresh'.messages : refresh'.messages[n] = m
      BY <1>2
    <2>2. \A i \in DOMAIN m.rows : m.rows[i].at \in Met(i)
      BY <1>3, <1>5, ReadNow
    <2> QED
      BY <1>2, <2>1, <2>2, RefreshMet
  <1>7. Made(m)' /\ Fresh(m)'
    BY <1>2, <1>5, <1>6, RestMovesOn
  <1>8. RefreshInv'
    BY <1>2, <1>5, <1>7 DEF RefreshInv
  <1> QED
    BY <1>2, <1>6, <1>8, RefreshStep

\* The first of two requests reads the balances as they are.
LEMMA LoadBalancesKeeps ==
    ASSUME AccountInv, LoadBalances
    PROVE  AccountInv'
  <1> DEFINE rows == Restrict(account, Assets)
  <1>1. PICK m : m = AccountSnapshot({"balances"}, Now, rows)
    OBVIOUS
  <1>2. /\ scope # "spot" /\ refresh' = [phase |-> "balances", messages |-> <<m>>]
        /\ UNCHANGED <<scope, mode, account, ticks, inbox, connected, entries, cursors, lost, torn>>
    BY <1>1 DEF LoadBalances, AccountSnapshot
  <1>3. /\ ClockInv /\ account \in [Items -> Entries] /\ Now \in Nat
        /\ Assets \subseteq Items /\ \A i \in Assets : ComponentOf(i) = "balances"
    BY <1>2, ClockFacts DEF AccountInv, ClockInv, Items, ComponentOf
  <1>4. rows \in [Assets -> Entries] /\ \A i \in Assets : rows[i] = account[i]
    BY <1>3 DEF Restrict
  <1> HIDE DEF rows
  <1>5. /\ m \in AccountMessages /\ Made(m) /\ Fresh(m) /\ m.snapshot
        /\ m.components = {"balances"} /\ m.rows = rows /\ m.sequence = Now
    <2>1. ItemsOf("balances") \subseteq Assets /\ {"balances"} \subseteq Components
      BY DEF ItemsOf, Components
    <2>2. ASSUME NEW i \in Assets
          PROVE  /\ ComponentOf(i) \in {"balances"} /\ TickOf(rows[i].at) <= Now
                 /\ rows[i].at <= account[i].at /\ rows[i] = account[i]
                 /\ \A n \in Met(i) : n > rows[i].at => n \in torn
      BY <1>3, <1>4, ReadNow
    <2>3. Readable(Assets, {"balances"}, Now, rows)
      BY <1>3, <1>4, <2>1, <2>2 DEF Readable
    <2> QED
      BY <1>1, <2>3, ReadIs
  <1>6. \A i \in Items : Met(i)' \subseteq Met(i)
    <2>1. \A n \in DOMAIN refresh'.messages : refresh'.messages[n] = m
      BY <1>2
    <2>2. \A i \in DOMAIN m.rows : m.rows[i].at \in Met(i)
      BY <1>3, <1>4, <1>5, ReadNow
    <2> QED
      BY <1>2, <2>1, <2>2, RefreshMet
  <1>7. Made(m)' /\ Fresh(m)'
    BY <1>2, <1>5, <1>6, RestMovesOn
  <1>8. \A i \in Assets : \A n \in Met(i)' : n > m.rows[i].at => n \in torn'
    BY <1>3, <1>4, <1>5, <1>6, ReadNow
  <1>9. RefreshInv'
    <2>1. /\ refresh' \in [phase : {"idle", "balances", "read"}, messages : Seq(AccountMessages)]
          /\ refresh'.phase = "balances" /\ Len(refresh'.messages) = 1 /\ scope' # "spot"
          /\ refresh'.messages[1] = m /\ DOMAIN refresh'.messages = {1}
          /\ DOMAIN m.rows = Assets
      BY <1>2, <1>4, <1>5
    <2> QED
      BY <1>5, <1>7, <1>8, <2>1 DEF RefreshInv
  <1> QED
    BY <1>2, <1>6, <1>9, RefreshStep

\* A refresh that fails has said nothing.
LEMMA LoadFailsKeeps ==
    ASSUME AccountInv, LoadFails
    PROVE  AccountInv'
  <1>1. /\ refresh' = [phase |-> "idle", messages |-> << >>]
        /\ UNCHANGED <<scope, mode, account, ticks, inbox, connected, entries, cursors, lost, torn>>
    BY DEF LoadFails, Idle
  <1>2. \A i \in Items : Met(i)' \subseteq Met(i)
    BY <1>1, RefreshMet
  <1>3. RefreshInv'
    BY <1>1 DEF RefreshInv
  <1> QED
    BY <1>1, <1>2, <1>3, RefreshStep

\* The account as two requests have read it: of Binance futures it is one message.
LEMMA LoadPositionsKeeps ==
    ASSUME AccountInv, LoadPositions
    PROVE  AccountInv'
  <1>1. PICK first : first = refresh.messages[1]
    OBVIOUS
  <1> DEFINE both == [i \in Items |-> IF i \in Assets THEN first.rows[i] ELSE account[i]]
             rows == IF scope = "bitget" THEN Restrict(account, Sides) ELSE both
             components == IF scope = "bitget" THEN {"positions"} ELSE Components
             sequence == IF scope = "bitget" THEN Now ELSE LatestOf(both)
             S == IF scope = "bitget" THEN Sides ELSE Items
  <1>2. PICK m : m = AccountSnapshot(components, sequence, rows)
    OBVIOUS
  <1>3. /\ refresh.phase = "balances"
        /\ refresh' = [phase |-> "read", messages |-> IF scope = "bitget"
                          THEN Append(refresh.messages, m) ELSE <<m>>]
        /\ UNCHANGED <<scope, mode, account, ticks, inbox, connected, entries, cursors, lost, torn>>
    BY <1>1, <1>2 DEF LoadPositions, AccountSnapshot
  <1>4. /\ RefreshInv /\ Len(refresh.messages) = 1 /\ DOMAIN refresh.messages = {1}
        /\ refresh.messages = <<first>>
        /\ first.components = {"balances"} /\ DOMAIN first.rows = Assets /\ first.snapshot
        /\ first \in AccountMessages /\ Made(first) /\ Fresh(first) /\ scope # "spot"
    BY <1>1, <1>3 DEF AccountInv, RefreshInv
  <1>5. /\ ClockInv /\ account \in [Items -> Entries] /\ Now \in Nat /\ Len(ticks) \in Nat
        /\ Items = Assets \cup Sides
        /\ scope \in {"futures", "bitget"}
        /\ \A i \in Assets : i \notin Sides /\ ComponentOf(i) = "balances"
        /\ \A i \in Sides : ComponentOf(i) = "positions"
    BY <1>4, ClockFacts, AccountAssumption DEF AccountInv, ClockInv, Items, ComponentOf, Sides
  <1>6. ASSUME NEW i \in Assets
        PROVE  /\ first.rows[i] \in Entries /\ first.rows[i].at <= account[i].at
               /\ first.rows[i].at \in Met(i) /\ first.rows[i].at \in 0..Len(ticks)
               /\ first.rows[i].at = account[i].at => first.rows[i] = account[i]
               /\ scope = "futures" => \A n \in Met(i) : n > first.rows[i].at => n \in torn
    <2>1. first \in Naming(i)
      BY <1>4 DEF Naming, Sent, Range
    <2>2. first.rows[i].at \in Met(i) /\ first.rows[i].at \in 0..Len(ticks)
      BY <1>5, <2>1, MetFacts
    <2>3. scope = "futures" => \A n \in Met(i) : n > first.rows[i].at => n \in torn
      BY <1>1, <1>3, <1>4 DEF RefreshInv
    <2> QED
      BY <1>4, <2>2, <2>3, MessageFacts DEF Made
  <1>7. ASSUME NEW i \in Items, i \notin Assets
        PROVE  /\ account[i] \in Entries /\ account[i].at \in 0..Len(ticks)
               /\ TickOf(account[i].at) <= Now /\ account[i].at \in Met(i)
               /\ \A n \in Met(i) : n > account[i].at => FALSE
    BY ReadNow
  <1>8. both \in [Items -> Entries] /\ \A i \in Items : both[i].at \in 0..Len(ticks)
    BY <1>5, <1>6, <1>7
  <1>9. /\ LatestOf(both) \in Nat /\ LatestOf(both) <= Now
        /\ \A i \in Items : TickOf(both[i].at) <= LatestOf(both)
    BY <1>5, <1>8, LatestIs
  <1>10. /\ m \in AccountMessages /\ Made(m) /\ Fresh(m) /\ m.snapshot
         /\ m.components = components /\ m.rows = rows
         /\ \A i \in DOMAIN m.rows : m.rows[i].at \in Met(i)
    <2>1. CASE scope = "bitget"
      <3>1. rows \in [Sides -> Entries] /\ \A i \in Sides : rows[i] = account[i] /\ i \notin Assets
        BY <1>5, <2>1 DEF Restrict
      <3>2. ItemsOf("positions") \subseteq Sides /\ {"positions"} \subseteq Components
        BY DEF ItemsOf, Components
      <3>3. \A i \in Sides : /\ ComponentOf(i) \in {"positions"} /\ TickOf(rows[i].at) <= Now
                             /\ rows[i].at <= account[i].at /\ rows[i] = account[i]
                             /\ rows[i].at \in Met(i)
                             /\ \A n \in Met(i) : n > rows[i].at => n \in torn
        BY <1>5, <1>7, <3>1
      <3>4. Readable(Sides, {"positions"}, Now, rows)
        BY <1>5, <3>1, <3>2, <3>3 DEF Readable
      <3>5. m = AccountSnapshot({"positions"}, Now, rows)
        BY <1>2, <2>1
      <3> HIDE DEF rows
      <3>6. /\ m \in AccountMessages /\ Made(m) /\ Fresh(m) /\ m.snapshot
            /\ m.components = {"positions"} /\ m.rows = rows
        BY <3>4, <3>5, ReadIs
      <3> QED
        BY <2>1, <3>1, <3>3, <3>6
    <2>2. CASE scope # "bitget"
      <3>1. \A c \in Components : ItemsOf(c) \subseteq Items
        BY DEF ItemsOf
      <3>2. \A i \in Items : /\ ComponentOf(i) \in Components /\ TickOf(both[i].at) <= LatestOf(both)
                             /\ both[i].at <= account[i].at
                             /\ both[i].at = account[i].at => both[i] = account[i]
                             /\ both[i].at \in Met(i)
                             /\ \A n \in Met(i) : n > both[i].at => n \in torn
        <4>1. ASSUME NEW i \in Items, i \in Assets
              PROVE  /\ both[i] = first.rows[i] /\ both[i].at <= account[i].at
                     /\ both[i].at = account[i].at => both[i] = account[i]
                     /\ both[i].at \in Met(i)
                     /\ \A n \in Met(i) : n > both[i].at => n \in torn
          BY <1>5, <1>6, <2>2, <4>1
        <4>2. ASSUME NEW i \in Items, i \notin Assets
              PROVE  /\ both[i] = account[i] /\ both[i].at <= account[i].at
                     /\ both[i].at \in Met(i)
                     /\ \A n \in Met(i) : n > both[i].at => n \in torn
          <5>1. both[i] = account[i]
            BY <4>2
          <5>2. account[i].at \in Nat
            BY <1>5, <1>7, <4>2
          <5> QED
            BY <1>7, <4>2, <5>1, <5>2
        <4> HIDE DEF both
        <4> QED
          BY <1>9, <4>1, <4>2, ComponentFacts
      <3>3. m = AccountSnapshot(Components, LatestOf(both), both) /\ rows = both /\ components = Components
        BY <1>2, <2>2
      <3> HIDE DEF both, rows, components
      <3>4. Readable(Items, Components, LatestOf(both), both)
        BY <1>5, <1>8, <1>9, <2>2, <3>1, <3>2 DEF Readable
      <3>5. /\ m \in AccountMessages /\ Made(m) /\ Fresh(m) /\ m.snapshot
            /\ m.components = Components /\ m.rows = both
        BY <3>3, <3>4, ReadIs
      <3> QED
        BY <1>8, <3>2, <3>3, <3>5
    <2> QED
      BY <2>1, <2>2
  <1> HIDE DEF both, rows, components, sequence, S
  <1>11. /\ refresh' \in [phase : {"idle", "balances", "read"}, messages : Seq(AccountMessages)]
         /\ refresh'.phase = "read"
         /\ IF scope = "bitget" THEN refresh'.messages = <<first, m>> ELSE refresh'.messages = <<m>>
         /\ \A n \in DOMAIN refresh'.messages : refresh'.messages[n] \in {first, m}
    <2>1. Append(refresh.messages, m) = <<first, m>>
      <3>1. refresh.messages = <<first>>
        BY <1>4
      <3>2. Append(<<first>>, m) = <<first, m>>
        <4>1. <<first>> \in Seq(AccountMessages) /\ <<first, m>> \in Seq(AccountMessages)
          BY <1>4, <1>10
        <4>2. /\ Append(<<first>>, m) \in Seq(AccountMessages) /\ Len(Append(<<first>>, m)) = 2
              /\ Append(<<first>>, m)[1] = first /\ Append(<<first>>, m)[2] = m
          BY <1>10, <4>1
        <4>3. \A n \in 1..Len(Append(<<first>>, m)) : Append(<<first>>, m)[n] = <<first, m>>[n]
          BY <4>2
        <4> QED
          BY <4>1, <4>2, <4>3, SeqEqual
      <3> QED
        BY <3>1, <3>2, Zenon
    <2>2. <<first, m>> \in Seq(AccountMessages) /\ <<m>> \in Seq(AccountMessages)
      BY <1>4, <1>10
    <2>3. refresh' = [phase |-> "read", messages |-> IF scope = "bitget" THEN <<first, m>> ELSE <<m>>]
      BY <1>3, <2>1
    <2>4. CASE scope = "bitget"
      <3>1. refresh' = [phase |-> "read", messages |-> <<first, m>>]
        BY <2>3, <2>4
      <3> QED
        BY <2>2, <2>4, <3>1
    <2>5. CASE scope # "bitget"
      <3>1. refresh' = [phase |-> "read", messages |-> <<m>>]
        BY <2>3, <2>5
      <3> QED
        BY <2>2, <2>5, <3>1
    <2> QED
      BY <2>4, <2>5
  <1>12. \A i \in Items : Met(i)' \subseteq Met(i)
    <2>1. \A M \in {first, m} : \A i \in DOMAIN M.rows : M.rows[i].at \in Met(i)
      BY <1>4, <1>6, <1>10
    <2> QED
      BY <1>3, <1>11, <2>1, RefreshMet
  <1>13. \A M \in {first, m} : Made(M)' /\ Fresh(M)' /\ M.snapshot
    BY <1>3, <1>4, <1>10, <1>12, RestMovesOn
  <1>14. RefreshInv'
    <2>1. IF scope = "bitget" THEN components = {"positions"} ELSE components = Components
      BY DEF components
    <2> QED
      BY <1>3, <1>4, <1>10, <1>11, <1>13, <2>1 DEF RefreshInv
  <1> QED
    BY <1>3, <1>12, <1>14, RefreshStep

\* What _decision says of a message.
LEMMA DecisionIs ==
    ASSUME StoreInv, Now \in Nat, NEW m \in AccountMessages
    PROVE  /\ Decision(m) = "applied" => \A c \in m.components : cursors[c] <= m.sequence
           /\ Decision(m) # "applied" /\ (\A c \in m.components : cursors[c] # NoCursor) =>
                 \/ \A c \in m.components : cursors[c] = m.sequence
                 \/ \E c \in m.components : m.sequence < cursors[c]
           /\ m.snapshot /\ (\A c \in m.components : cursors[c] = NoCursor) => Decision(m) = "applied"
  <1>1. /\ m.snapshot \in BOOLEAN /\ m.components \subseteq Components /\ m.sequence \in Nat
        /\ \A c \in Components : cursors[c] \in NoCursor..Now
    BY MessageFacts DEF StoreInv
  <1> DEFINE known == {cursors[c] : c \in m.components} \ {NoCursor}
             Unknown == ~m.snapshot /\ \E c \in m.components : cursors[c] = NoCursor
             Twice == known # {} /\ \A n \in known : m.sequence = n
             Late == \E n \in known : m.sequence < n
  <1>2. Decision(m) = IF Unknown THEN "snapshot_required" ELSE IF Twice THEN "duplicate"
                      ELSE IF Late THEN "out_of_order" ELSE "applied"
    BY DEF Decision
  <1>3. Decision(m) = "applied" <=> ~Unknown /\ ~Twice /\ ~Late
    BY <1>2
  <1>4. Late <=> \E c \in m.components : cursors[c] # NoCursor /\ m.sequence < cursors[c]
    BY <1>1
  <1>5. \A c \in m.components : cursors[c] \in Int /\ (cursors[c] = NoCursor => cursors[c] <= m.sequence)
    BY <1>1 DEF NoCursor
  <1>6. Decision(m) = "applied" => \A c \in m.components : cursors[c] <= m.sequence
    BY <1>1, <1>3, <1>4, <1>5
  <1>7. (\A c \in m.components : cursors[c] # NoCursor) /\ Twice =>
           \A c \in m.components : cursors[c] = m.sequence
    OBVIOUS
  <1>8. (\A c \in m.components : cursors[c] = NoCursor) => ~Twice /\ ~Late
    BY <1>4
  <1> QED
    BY <1>3, <1>4, <1>6, <1>7, <1>8

\* A component is left alone, or has what one message says.
LeftAlone(c) == /\ cursors'[c] = cursors[c]
                /\ \A i \in Items : ComponentOf(i) = c => entries'[i] = entries[i]
AppliedTo(c, m) ==
    /\ c \in m.components /\ Decision(m) = "applied" /\ cursors'[c] = m.sequence
    /\ \A i \in Items : ComponentOf(i) = c =>
          entries'[i] = IF i \in DOMAIN m.rows THEN m.rows[i] ELSE entries[i]

\* Messages that share no component are applied as if each were alone.
LEMMA ApplyIs ==
    ASSUME NEW messages, ApplyMessages(messages),
           \A n \in DOMAIN messages : Made(messages[n]),
           \A n, k \in DOMAIN messages :
              n # k => messages[n].components \cap messages[k].components = {},
           NEW c \in Components
    PROVE  /\ entries' = [i \in Items |-> entries'[i]] /\ cursors' = [d \in Components |-> cursors'[d]]
           /\ \/ /\ LeftAlone(c)
                 /\ \A n \in DOMAIN messages :
                       c \in messages[n].components => Decision(messages[n]) # "applied"
              \/ \E n \in DOMAIN messages : AppliedTo(c, messages[n])
  <1> DEFINE good == {m \in Range(messages) : Decision(m) = "applied"}
             Named(i) == {m \in good : i \in DOMAIN m.rows}
             Of(d) == {m \in good : d \in m.components}
  <1>1. /\ entries' = [i \in Items |-> IF Named(i) = {} THEN entries[i]
                                       ELSE (CHOOSE m \in Named(i) : TRUE).rows[i]]
        /\ cursors' = [d \in Components |-> IF Of(d) = {} THEN cursors[d]
                                            ELSE (CHOOSE m \in Of(d) : TRUE).sequence]
    BY DEF ApplyMessages, Replaced, Advanced
  <1>2. \A m \in good : \E n \in DOMAIN messages : m = messages[n] /\ Made(m) /\ Decision(m) = "applied"
    BY DEF Range
  <1>3. \A n \in DOMAIN messages : Decision(messages[n]) = "applied" => messages[n] \in good
    BY DEF Range
  <1> HIDE DEF good
  <1>4. \A i \in Items : Named(i) \subseteq Of(ComponentOf(i))
    BY <1>2 DEF Made
  <1>5. CASE Of(c) = {}
    <2>1. cursors'[c] = cursors[c]
      BY <1>1, <1>5
    <2>2. \A i \in Items : ComponentOf(i) = c => entries'[i] = entries[i]
      BY <1>1, <1>4, <1>5
    <2> QED
      BY <1>1, <1>3, <1>5, <2>1, <2>2 DEF LeftAlone
  <1>6. CASE Of(c) # {}
    <2>1. PICK m \in Of(c) : m = CHOOSE x \in Of(c) : TRUE
      BY <1>6
    <2>2. PICK n \in DOMAIN messages : m = messages[n] /\ Made(m) /\ Decision(m) = "applied"
      BY <1>2
    <2>3. \A x \in Of(c) : x = m
      <3>1. ASSUME NEW x \in Of(c) PROVE x = m
        <4>1. PICK k \in DOMAIN messages : x = messages[k]
          BY <1>2
        <4>2. c \in messages[k].components \cap messages[n].components
          BY <2>1, <2>2, <4>1
        <4> QED
          BY <2>2, <4>1, <4>2
      <3> QED
        BY <3>1
    <2>4. cursors'[c] = m.sequence
      BY <1>1, <1>6, <2>1
    <2>5. ASSUME NEW i \in Items, ComponentOf(i) = c
          PROVE  entries'[i] = IF i \in DOMAIN m.rows THEN m.rows[i] ELSE entries[i]
      <3>1. CASE i \in DOMAIN m.rows
        <4>1. m \in Named(i)
          BY <2>1, <3>1
        <4>2. (CHOOSE x \in Named(i) : TRUE) \in Named(i)
          BY <4>1
        <4>3. (CHOOSE x \in Named(i) : TRUE) = m
          BY <1>4, <2>3, <2>5, <4>2
        <4> QED
          BY <1>1, <3>1, <4>1, <4>3
      <3>2. CASE i \notin DOMAIN m.rows
        <4>1. Named(i) = {}
          BY <1>4, <2>3, <2>5, <3>2
        <4> QED
          BY <1>1, <3>2, <4>1
      <3> QED
        BY <3>1, <3>2
    <2>6. AppliedTo(c, m)
      BY <2>1, <2>2, <2>4, <2>5 DEF AppliedTo
    <2> QED
      BY <1>1, <2>2, <2>6
  <1> QED
    BY <1>5, <1>6

\* What messages on their way do to the store, and to themselves.
Applies(messages) ==
    /\ messages \in Seq(AccountMessages) /\ Range(messages) \subseteq Sent
    /\ \A n, k \in DOMAIN messages :
          n # k => messages[n].components \cap messages[k].components = {}
    /\ \/ \A c \in Components : cursors[c] # NoCursor
       \/ /\ \A n \in DOMAIN messages : messages[n].snapshot
          /\ \A c \in Components : \E n \in DOMAIN messages : c \in messages[n].components
    /\ ApplyMessages(messages)
    /\ Sent' \subseteq Sent
    /\ UNCHANGED <<scope, mode, account, ticks, connected, lost, torn>>

\* What is on its way was made so, and is fresh.
LEMMA SentFacts ==
    ASSUME AccountInv, NEW m \in Sent
    PROVE  m \in AccountMessages /\ Made(m) /\ Fresh(m)
  BY DEF Sent, Range, AccountInv, InboxInv, RefreshInv, Made

\* What is applied is what the store keeps, and no cursor goes back.
LEMMA ApplyKeeps ==
    ASSUME AccountInv, NEW messages, Applies(messages)
    PROVE  /\ StoreInv' /\ ClockInv' /\ \A m \in Sent' : Made(m)' /\ Fresh(m)'
           /\ \A c \in Components : cursors[c] # NoCursor => cursors'[c] # NoCursor
           /\ MovesOn /\ \A i \in Items : Met(i)' \subseteq Met(i)
  <1>1. \A n \in DOMAIN messages : /\ messages[n] \in Sent /\ messages[n] \in AccountMessages
                                   /\ Made(messages[n])
    BY SentFacts DEF Applies, Range
  <1>2. ASSUME NEW c \in Components
        PROVE  /\ entries' = [i \in Items |-> entries'[i]]
               /\ cursors' = [d \in Components |-> cursors'[d]]
               /\ \/ /\ LeftAlone(c)
                     /\ \A n \in DOMAIN messages :
                           c \in messages[n].components => Decision(messages[n]) # "applied"
                  \/ \E n \in DOMAIN messages : AppliedTo(c, messages[n])
    BY <1>1, ApplyIs DEF Applies
  <1>3. /\ ClockInv /\ StoreInv /\ Now \in Nat /\ Len(ticks) \in Nat
        /\ Now' = Now /\ Items' = Items /\ \A n : TickOf(n)' = TickOf(n)
        /\ account' = account /\ \A i : ComponentOf(i)' = ComponentOf(i)
    BY ClockFacts DEF AccountInv, Applies, Now, Items, TickOf, ComponentOf
  <1>4. ASSUME NEW c \in Components
        PROVE  /\ cursors[c] \in NoCursor..Now /\ cursors'[c] \in NoCursor..Now
               /\ cursors[c] <= cursors'[c] /\ (cursors[c] # NoCursor => cursors'[c] # NoCursor)
    <2>1. cursors[c] \in NoCursor..Now
      BY <1>3 DEF StoreInv
    <2>2. CASE LeftAlone(c)
      BY <1>3, <2>1, <2>2 DEF LeftAlone, NoCursor
    <2>3. CASE \E n \in DOMAIN messages : AppliedTo(c, messages[n])
      <3>1. PICK n \in DOMAIN messages : AppliedTo(c, messages[n])
        BY <2>3
      <3>2. messages[n] \in AccountMessages /\ messages[n].sequence <= Now /\ messages[n].sequence \in Nat
        BY <1>1, MessageFacts DEF Made
      <3>3. cursors[c] <= messages[n].sequence /\ cursors'[c] = messages[n].sequence
        BY <1>3, <3>1, <3>2, DecisionIs DEF AppliedTo
      <3> QED
        BY <1>3, <2>1, <3>2, <3>3 DEF NoCursor
    <2> QED
      BY <1>2, <2>2, <2>3
  <1>5. ASSUME NEW i \in Items
        PROVE  /\ entries'[i] \in Entries /\ entries'[i].at <= account[i].at
               /\ entries'[i].at > 0 => TickOf(entries'[i].at) <= cursors'[ComponentOf(i)]
               /\ entries'[i].at \in Met(i)
    <2>1. /\ entries[i] \in Entries /\ entries[i].at <= account[i].at
          /\ entries[i].at > 0 => TickOf(entries[i].at) <= cursors[ComponentOf(i)]
          /\ entries[i].at \in Met(i) /\ entries[i].at \in 0..Len(ticks)
          /\ TickOf(entries[i].at) \in Nat
          /\ ComponentOf(i) \in Components
      BY <1>3, MetFacts, ClockFacts, ComponentFacts DEF StoreInv
    <2>2. cursors[ComponentOf(i)] <= cursors'[ComponentOf(i)]
          /\ cursors[ComponentOf(i)] \in Int /\ cursors'[ComponentOf(i)] \in Int
      BY <1>3, <1>4, <2>1 DEF NoCursor
    <2>3. CASE entries'[i] = entries[i]
      BY <2>1, <2>2, <2>3
    <2>4. CASE \E n \in DOMAIN messages : /\ i \in DOMAIN messages[n].rows
                                          /\ entries'[i] = messages[n].rows[i]
                                          /\ cursors'[ComponentOf(i)] = messages[n].sequence
      <3>1. PICK n \in DOMAIN messages : /\ i \in DOMAIN messages[n].rows
                                         /\ entries'[i] = messages[n].rows[i]
                                         /\ cursors'[ComponentOf(i)] = messages[n].sequence
        BY <2>4
      <3>2. messages[n].rows[i] \in Entries
        BY <1>1, <3>1, MessageFacts
      <3>3. messages[n] \in Naming(i)
        BY <1>1, <3>1 DEF Naming
      <3> QED
        BY <1>1, <3>1, <3>2, <3>3, MetFacts DEF Made
    <2> QED
      BY <1>2, <2>1, <2>3, <2>4 DEF LeftAlone, AppliedTo
  <1>6. cursors'["balances"] = NoCursor <=> cursors'["positions"] = NoCursor
    <2>1. CASE \A c \in Components : cursors[c] # NoCursor
      BY <1>4, <2>1 DEF Components
    <2>2. CASE \E c \in Components : cursors[c] = NoCursor
      <3>1. \A c \in Components : cursors[c] = NoCursor
        BY <1>3, <2>2 DEF StoreInv, Components
      <3>2. \A n \in DOMAIN messages : Decision(messages[n]) = "applied"
        BY <1>1, <1>3, <2>2, <3>1, DecisionIs, MessageFacts DEF Applies
      <3>3. ASSUME NEW c \in Components PROVE cursors'[c] # NoCursor
        <4>1. PICK n \in DOMAIN messages : AppliedTo(c, messages[n])
          BY <1>2, <2>2, <3>2 DEF Applies
        <4>2. messages[n].sequence \in Nat
          BY <1>1, MessageFacts
        <4> QED
          BY <4>1, <4>2 DEF AppliedTo, NoCursor
      <3> QED
        BY <3>3 DEF Components
    <2> QED
      BY <2>1, <2>2
  <1>7. StoreInv'
    <2>1. entries' \in [Items -> Entries] /\ cursors' \in [Components -> NoCursor..Now]
      BY <1>2, <1>4, <1>5 DEF Components
    <2> QED
      BY <1>3, <1>5, <1>6, <2>1 DEF StoreInv
  <1>8. \A i \in Items : Met(i)' \subseteq Met(i)
    <2>1. ASSUME NEW i \in Items PROVE Met(i)' \subseteq Met(i)
      <3>1. Naming(i)' \subseteq Naming(i)
        BY DEF Naming, Applies
      <3>2. entries'[i].at \in Met(i) /\ account'[i].at \in Met(i)
        BY <1>3, <1>5, MetFacts
      <3> QED
        BY <3>1, <3>2 DEF Met
    <2> QED
      BY <2>1
  <1>9. MovesOn /\ \A m : Made(m) /\ Fresh(m) => Made(m)' /\ Fresh(m)'
    BY <1>8, RestMovesOn DEF Applies
  <1>10. \A m \in Sent' : Made(m) /\ Fresh(m)
    BY SentFacts DEF Applies
  <1> QED
    BY <1>4, <1>7, <1>8, <1>9, <1>10 DEF MovesOn

\* A refresh that is applied, with cursors that do not part the components of a message.
LEMMA LoadApplyKeeps ==
    ASSUME AccountInv, LoadApply
    PROVE  AccountInv' /\ Applies(refresh.messages)
  <1> DEFINE messages == refresh.messages
  <1>1. /\ refresh.phase = "read" /\ ApplyMessages(messages)
        /\ refresh' = [phase |-> "idle", messages |-> << >>]
        /\ UNCHANGED <<scope, mode, account, ticks, inbox, connected, lost, torn>>
    BY DEF LoadApply, Idle
  <1>2. /\ RefreshInv /\ messages \in Seq(AccountMessages)
        /\ \A n \in DOMAIN messages : /\ messages[n].snapshot /\ messages[n] \in Sent
                                      /\ messages[n] \in AccountMessages
                                      /\ Made(messages[n]) /\ Fresh(messages[n])
    BY SentFacts DEF AccountInv, RefreshInv, Sent, Range
  <1>3. /\ \A c \in Components : \E n \in DOMAIN messages : c \in messages[n].components
        /\ \A n, k \in DOMAIN messages :
              n # k => messages[n].components \cap messages[k].components = {}
        /\ scope # "bitget" => \A n \in DOMAIN messages : messages[n].components = Components
    <2>1. CASE scope = "bitget"
      <3>1. /\ DOMAIN messages = {1, 2} /\ messages[1].components = {"balances"}
            /\ messages[2].components = {"positions"}
        BY <1>1, <1>2, <2>1 DEF RefreshInv
      <3> QED
        BY <2>1, <3>1 DEF Components
    <2>2. CASE scope # "bitget"
      <3>1. DOMAIN messages = {1} /\ messages[1].components = Components
        BY <1>1, <1>2, <2>2 DEF RefreshInv
      <3> QED
        BY <2>2, <3>1
    <2> QED
      BY <2>1, <2>2
  <1>4. Applies(messages)
    <2>1. Sent' \subseteq Sent /\ Range(messages) \subseteq Sent
      BY <1>1 DEF Sent, Range
    <2> QED
      BY <1>1, <1>2, <1>3, <2>1 DEF Applies
  <1>5. /\ StoreInv' /\ ClockInv' /\ \A m \in Sent' : Made(m)' /\ Fresh(m)'
        /\ \A c \in Components : cursors[c] # NoCursor => cursors'[c] # NoCursor
    BY <1>4, ApplyKeeps
  <1>6. ASSUME NEW c \in Components
        PROVE  \/ /\ LeftAlone(c)
                  /\ \A n \in DOMAIN messages :
                        c \in messages[n].components => Decision(messages[n]) # "applied"
               \/ \E n \in DOMAIN messages : AppliedTo(c, messages[n])
    BY <1>1, <1>2, <1>3, ApplyIs
  <1>7. /\ ClockInv /\ StoreInv /\ InboxInv /\ CursorInv /\ Now \in Nat /\ Len(ticks) \in Nat
        /\ Now' = Now /\ Items' = Items /\ \A n : TickOf(n)' = TickOf(n)
        /\ \A i : ComponentOf(i)' = ComponentOf(i)
        /\ \A i : (Dropped(i)' <=> Dropped(i)) /\ (Announced(i)' <=> Announced(i))
    BY <1>1, ClockFacts DEF AccountInv, Now, Items, TickOf, ComponentOf, Dropped, Announced, Excused,
       SameTick
  <1>8. RefreshInv'
    BY <1>1 DEF RefreshInv
  <1>9. InboxInv'
    <2>1. ASSUME NEW n \in DOMAIN inbox PROVE Made(inbox[n])' /\ Fresh(inbox[n])'
      <3>1. PICK m : m = inbox'[n]
        OBVIOUS
      <3>2. m \in Sent'
        BY <1>1, <3>1 DEF Sent, Range
      <3>3. Made(m)' /\ Fresh(m)'
        BY <1>5, <3>2
      <3> QED
        BY <3>1, <3>3
    <2>2. ASSUME NEW n \in DOMAIN inbox, NEW c \in inbox[n].components,
                 NEW d \in inbox[n].components, inbox[n].sequence < cursors'[c]
          PROVE  inbox[n].sequence < cursors'[d]
      <3>1. /\ c \in Components /\ d \in Components
            /\ inbox[n].sequence < cursors[c] => inbox[n].sequence < cursors[d]
            /\ scope = "bitget" => c = d
        BY <1>7, MessageFacts DEF InboxInv, Made
      <3>2. CASE scope = "bitget"
        BY <2>2, <3>1, <3>2
      <3>3. CASE scope # "bitget"
        <4>1. CASE \E k \in DOMAIN messages : Decision(messages[k]) = "applied"
          <5>1. /\ \A e \in Components : \E k \in DOMAIN messages : AppliedTo(e, messages[k])
                /\ \A j, k \in DOMAIN messages : j = k
            BY <1>1, <1>2, <1>3, <1>6, <3>3, <4>1 DEF RefreshInv
          <5>2. cursors'[c] = cursors'[d]
            BY <3>1, <5>1 DEF AppliedTo
          <5> QED
            BY <2>2, <5>2
        <4>2. CASE \A k \in DOMAIN messages : Decision(messages[k]) # "applied"
          <5>1. cursors'[c] = cursors[c] /\ cursors'[d] = cursors[d]
            BY <1>6, <3>1, <4>2 DEF AppliedTo, LeftAlone
          <5> QED
            BY <2>2, <3>1, <5>1
        <4> QED
          BY <4>1, <4>2
      <3> QED
        BY <3>2, <3>3
    <2> QED
      BY <1>1, <1>5, <1>7, <2>1, <2>2 DEF InboxInv
  <1>10. ASSUME NEW i \in Items PROVE ItemHolds(i)'
    <2> DEFINE c == ComponentOf(i)
    <2>1. c \in Components /\ i \in ItemsOf(c) /\ ItemHolds(i)
      BY <1>7, ComponentFacts DEF CursorInv
    <2>2. CASE LeftAlone(c)
      <3>1. entries'[i] = entries[i] /\ cursors'[c] = cursors[c]
        BY <2>2 DEF LeftAlone
      <3>2. Passed(i)' <=> Passed(i)
        BY <1>1, <1>7, <3>1 DEF Passed
      <3> QED
        BY <1>1, <1>7, <2>1, <3>1, <3>2 DEF ItemHolds
    <2>3. CASE \E n \in DOMAIN messages : AppliedTo(c, messages[n])
      <3>1. PICK m \in Range(messages) : /\ AppliedTo(c, m) /\ m.snapshot /\ m \in AccountMessages
                                         /\ Made(m) /\ Fresh(m)
        BY <1>2, <2>3 DEF Range
      <3>2. /\ i \in DOMAIN m.rows /\ cursors'[c] = m.sequence /\ m.sequence \in Nat
            /\ m.rows[i].at \in Nat
        BY <2>1, <3>1, MessageFacts DEF AppliedTo, Made
      <3>3. entries'[i] = m.rows[i]
        BY <3>1, <3>2 DEF AppliedTo
      <3>4. /\ account[i].at \in Met(i) /\ account[i].at \in Nat /\ TickOf(account[i].at) \in Nat
            /\ m.rows[i].at <= account[i].at
        BY <1>7, <3>1, <3>2, MetFacts, ClockFacts DEF Made
      <3>5. CASE m.rows[i].at = account[i].at
        <4>1. Passed(i)' /\ entries'[i] = account[i]
          BY <1>1, <1>7, <3>1, <3>2, <3>3, <3>5 DEF Passed, Made
        <4> QED
          BY <1>1, <4>1 DEF ItemHolds
      <3>6. CASE m.rows[i].at # account[i].at
        <4>1. m.sequence < TickOf(account[i].at) \/ Dropped(i)
          BY <3>1, <3>2, <3>4, <3>6 DEF Fresh, Dropped
        <4>2. CASE Dropped(i)
          BY <1>7, <4>2 DEF ItemHolds
        <4>3. CASE m.sequence < TickOf(account[i].at)
          <5>1. cursors[c] <= m.sequence /\ cursors[c] \in Int
            BY <1>7, <2>1, <3>1, DecisionIs DEF AppliedTo, StoreInv, NoCursor
          <5>2. ~Passed(i) /\ ~Passed(i)' /\ account[i].at > 0
            BY <1>1, <1>7, <3>2, <3>4, <4>3, <5>1, ClockFacts DEF Passed
          <5> QED
            BY <1>7, <2>1, <5>2 DEF ItemHolds
        <4> QED
          BY <4>1, <4>2, <4>3
      <3> QED
        BY <3>5, <3>6
    <2> QED
      BY <1>6, <2>1, <2>2, <2>3
  <1>11. CursorInv'
    BY <1>7, <1>10 DEF CursorInv
  <1> QED
    BY <1>1, <1>4, <1>5, <1>8, <1>9, <1>11 DEF AccountInv

\* A refresh that waits keeps what it has read.
LEMMA RefreshRests ==
    ASSUME AccountInv, MovesOn, refresh' = refresh,
           refresh.phase = "balances" /\ scope = "futures" =>
              \A i \in Assets : \A n \in Met(i)' : n \in Met(i) \/ n \in torn'
    PROVE  RefreshInv'
  <1>1. RefreshInv /\ scope' = scope /\ torn \subseteq torn'
    BY DEF AccountInv, MovesOn
  <1>2. ASSUME NEW n \in DOMAIN refresh.messages
        PROVE  Made(refresh.messages[n])' /\ Fresh(refresh.messages[n])'
    <2>1. PICK m : m = refresh.messages[n]
      OBVIOUS
    <2>2. Made(m)' /\ Fresh(m)'
      BY <1>1, <2>1, MessageStays DEF RefreshInv
    <2>3. m = refresh'.messages[n]
      BY <2>1
    <2> QED
      BY <2>2, <2>3
  <1> QED
    BY <1>1, <1>2 DEF RefreshInv

\* A message that is handled was the first: what it does not say is announced still.
LEMMA HandlePrivateKeeps ==
    ASSUME AccountInv, HandlePrivate
    PROVE  AccountInv' /\ Applies(<<Head(inbox)>>)
  <1>1. PICK m : m = Head(inbox)
    OBVIOUS
  <1>2. /\ inbox # << >> /\ ApplyMessages(<<m>>) /\ inbox' = Tail(inbox)
        /\ UNCHANGED <<scope, mode, account, ticks, connected, refresh, lost, torn>>
    BY <1>1 DEF HandlePrivate
  <1>3. /\ ClockInv /\ StoreInv /\ InboxInv /\ CursorInv /\ Now \in Nat /\ Len(ticks) \in Nat
        /\ Now' = Now /\ Items' = Items /\ \A n : TickOf(n)' = TickOf(n)
        /\ \A i : ComponentOf(i)' = ComponentOf(i)
        /\ \A i : Dropped(i)' <=> Dropped(i)
    BY <1>2, ClockFacts DEF AccountInv, Now, Items, TickOf, ComponentOf, Dropped, Excused, SameTick
  <1>4. /\ inbox \in Seq(AccountMessages) /\ Len(inbox) \in Nat \ {0} /\ DOMAIN inbox = 1..Len(inbox)
        /\ m = inbox[1] /\ m \in Sent
        /\ inbox' \in Seq(AccountMessages) /\ Len(inbox') = Len(inbox) - 1
        /\ DOMAIN inbox' = 1..Len(inbox) - 1
        /\ \A n \in 1..Len(inbox) - 1 : inbox'[n] = inbox[n + 1]
    <2>1. inbox \in Seq(AccountMessages)
      BY <1>3 DEF InboxInv
    <2>2. m = inbox[1] /\ Len(inbox) \in Nat \ {0} /\ DOMAIN inbox = 1..Len(inbox)
      BY <1>1, <1>2, <2>1
    <2>3. /\ inbox' \in Seq(AccountMessages) /\ Len(inbox') = Len(inbox) - 1
          /\ \A n \in 1..Len(inbox) - 1 : inbox'[n] = inbox[n + 1]
      BY <1>2, <2>1, <2>2
    <2> QED
      BY <2>1, <2>2, <2>3 DEF Sent, Range
  <1>5. m \in AccountMessages /\ Made(m) /\ Fresh(m) /\ m.sequence \in Nat
    BY <1>4, SentFacts, MessageFacts
  <1>6. \A c \in Components : cursors[c] # NoCursor
    BY <1>2, <1>3 DEF InboxInv
  <1>7. Applies(<<m>>)
    <2>1. Sent' \subseteq Sent
      BY <1>2, <1>4 DEF Sent, Range
    <2>2. Range(<<m>>) \subseteq Sent
      BY <1>4 DEF Range
    <2>3. DOMAIN <<m>> = {1} /\ <<m>> \in Seq(AccountMessages)
      BY <1>5
    <2> QED
      BY <1>2, <1>6, <2>1, <2>2, <2>3 DEF Applies
  <1>8. /\ StoreInv' /\ ClockInv' /\ \A x \in Sent' : Made(x)' /\ Fresh(x)'
        /\ \A c \in Components : cursors'[c] # NoCursor
        /\ MovesOn /\ \A i \in Items : Met(i)' \subseteq Met(i)
    BY <1>6, <1>7, ApplyKeeps
  <1>9. RefreshInv'
    <2>1. scope = "futures" => \A i \in Assets : i \in Items
      BY DEF Items
    <2> QED
      BY <1>2, <1>8, <2>1, RefreshRests
  <1>10. ASSUME NEW c \in Components
         PROVE  \/ LeftAlone(c) /\ (c \in m.components => Decision(m) # "applied")
                \/ AppliedTo(c, m)
    <2>1. DOMAIN <<m>> = {1} /\ <<m>>[1] = m
      OBVIOUS
    <2>2. \/ /\ LeftAlone(c)
             /\ \A n \in DOMAIN <<m>> : c \in <<m>>[n].components => Decision(<<m>>[n]) # "applied"
          \/ \E n \in DOMAIN <<m>> : AppliedTo(c, <<m>>[n])
      BY <1>2, <1>5, <2>1, ApplyIs
    <2> QED
      BY <2>1, <2>2
  <1>11. ASSUME NEW c \in Components
         PROVE  /\ cursors[c] \in Nat /\ cursors'[c] \in Nat /\ cursors[c] <= cursors'[c]
                /\ LeftAlone(c) \/ cursors'[c] = m.sequence
                /\ c \in m.components /\ Decision(m) # "applied" => m.sequence <= cursors[c]
    <2>1. cursors[c] \in Nat
      BY <1>3, <1>6 DEF StoreInv, NoCursor
    <2>2. AppliedTo(c, m) => cursors'[c] = m.sequence /\ cursors[c] <= m.sequence
      BY <1>3, <1>5, DecisionIs DEF AppliedTo
    <2>3. ASSUME c \in m.components, Decision(m) # "applied" PROVE m.sequence <= cursors[c]
      <3>1. \/ \A d \in m.components : cursors[d] = m.sequence
            \/ \E d \in m.components : m.sequence < cursors[d]
        BY <1>3, <1>5, <1>6, <2>3, DecisionIs, MessageFacts
      <3>2. \A d \in m.components : m.sequence < cursors[d] => m.sequence < cursors[c]
        BY <1>3, <1>4, <2>3 DEF InboxInv
      <3> QED
        BY <1>5, <2>1, <2>3, <3>1, <3>2
    <2> QED
      BY <1>5, <1>10, <2>1, <2>2, <2>3 DEF LeftAlone
  <1>12. InboxInv'
    <2>1. ASSUME NEW n \in DOMAIN inbox' PROVE Made(inbox[n])' /\ Fresh(inbox[n])'
      <3>1. PICK x : x = inbox'[n]
        OBVIOUS
      <3>2. x \in Sent'
        BY <3>1 DEF Sent, Range
      <3>3. Made(x)' /\ Fresh(x)'
        BY <1>8, <3>2
      <3> QED
        BY <3>1, <3>3
    <2>2. ASSUME NEW n \in DOMAIN inbox', NEW c \in inbox'[n].components,
                 NEW d \in inbox'[n].components, inbox'[n].sequence < cursors'[c]
          PROVE  inbox'[n].sequence < cursors'[d]
      <3>1. PICK x : x = inbox[n + 1]
        OBVIOUS
      <3>2. /\ n \in 1..Len(inbox) - 1 /\ inbox'[n] = x /\ n + 1 \in DOMAIN inbox /\ x \in Sent
            /\ x.sequence \in Nat /\ x.components \subseteq Components /\ m.sequence <= x.sequence
        <4>1. n \in 1..Len(inbox) - 1 /\ inbox'[n] = x /\ n + 1 \in DOMAIN inbox /\ 1 \in DOMAIN inbox
          BY <1>4, <3>1
        <4>2. x \in Sent
          BY <3>1, <4>1 DEF Sent, Range
        <4>3. m.sequence <= x.sequence
          BY <1>3, <1>4, <3>1, <4>1 DEF InboxInv
        <4> QED
          BY <4>1, <4>2, <4>3, SentFacts, MessageFacts
      <3>3. c \in Components /\ d \in Components /\ x.sequence < cursors'[c]
        BY <2>2, <3>2
      <3>4. cursors'[c] = cursors[c]
        BY <1>5, <1>11, <3>2, <3>3 DEF LeftAlone
      <3>5. x.sequence < cursors[d]
        BY <1>3, <2>2, <3>1, <3>2, <3>3, <3>4 DEF InboxInv
      <3>6. cursors[d] <= cursors'[d] /\ cursors[d] \in Nat /\ cursors'[d] \in Nat
        BY <1>11, <3>3
      <3> QED
        BY <3>2, <3>5, <3>6
    <2>3. \A n, k \in DOMAIN inbox' : n <= k => inbox'[n].sequence <= inbox'[k].sequence
      <3>1. ASSUME NEW n \in DOMAIN inbox', NEW k \in DOMAIN inbox', n <= k
            PROVE  inbox'[n].sequence <= inbox'[k].sequence
        <4>1. /\ n + 1 \in DOMAIN inbox /\ k + 1 \in DOMAIN inbox /\ n + 1 <= k + 1
              /\ inbox'[n] = inbox[n + 1] /\ inbox'[k] = inbox[k + 1]
          BY <1>4, <3>1
        <4>2. inbox[n + 1].sequence <= inbox[k + 1].sequence
          BY <1>3, <4>1 DEF InboxInv
        <4> QED
          BY <4>1, <4>2
      <3> QED
        BY <3>1
    <2> QED
      BY <1>2, <1>3, <1>4, <1>8, <2>1, <2>2, <2>3 DEF InboxInv
  <1>13. ASSUME NEW i \in Items PROVE ItemHolds(i)'
    <2>1. PICK c \in Components : c = ComponentOf(i)
      BY ComponentFacts
    <2>2. /\ ItemHolds(i) /\ account[i].at \in Met(i) /\ account[i].at \in Nat
          /\ TickOf(account[i].at) \in Nat /\ (account[i].at = 0 => TickOf(account[i].at) = 0)
      BY <1>3, MetFacts, ClockFacts DEF CursorInv
    <2>3. /\ Passed(i) <=> TickOf(account[i].at) <= cursors[c]
          /\ Passed(i)' <=> TickOf(account[i].at) <= cursors'[c]
          /\ cursors[c] \in Nat /\ cursors'[c] \in Nat /\ cursors[c] <= cursors'[c]
      BY <1>2, <1>3, <1>11, <2>1 DEF Passed
    <2>4. ASSUME NEW q \in DOMAIN inbox, q # 1,
                 i \in DOMAIN inbox[q].rows, inbox[q].rows[i].at = account[i].at,
                 \A k \in 1..q - 1 : c \in inbox[k].components =>
                    inbox[k].sequence < TickOf(account[i].at)
          PROVE  Announced(i)'
      <3>1. PICK p : p = q - 1
        OBVIOUS
      <3>2. p \in DOMAIN inbox' /\ inbox'[p] = inbox[q]
        BY <1>4, <2>4, <3>1
      <3>3. ASSUME NEW k \in 1..p - 1, c \in inbox'[k].components
            PROVE  inbox'[k].sequence < TickOf(account[i].at)
        <4>1. k + 1 \in 1..q - 1 /\ inbox'[k] = inbox[k + 1]
          BY <1>4, <2>4, <3>1
        <4> QED
          BY <2>4, <3>3, <4>1
      <3> QED
        BY <1>2, <1>3, <2>1, <2>4, <3>2, <3>3 DEF Announced
    <2>5. CASE LeftAlone(c) /\ (c \in m.components => Decision(m) # "applied")
      <3>1. entries'[i] = entries[i] /\ cursors'[c] = cursors[c]
        BY <2>1, <2>5 DEF LeftAlone
      <3>2. CASE Passed(i)
        BY <1>2, <1>3, <2>2, <2>3, <3>1, <3>2 DEF ItemHolds
      <3>3. CASE ~Passed(i)
        <4>1. Announced(i) \/ Dropped(i)
          BY <2>2, <2>3, <3>3 DEF ItemHolds
        <4>2. CASE Dropped(i)
          BY <1>3, <4>2 DEF ItemHolds
        <4>3. CASE Announced(i)
          <5>1. PICK q \in DOMAIN inbox :
                   /\ i \in DOMAIN inbox[q].rows /\ inbox[q].rows[i].at = account[i].at
                   /\ \A k \in 1..q - 1 : c \in inbox[k].components =>
                         inbox[k].sequence < TickOf(account[i].at)
            BY <2>1, <4>3 DEF Announced
          <5>2. q # 1
            <6>1. SUFFICES ASSUME q = 1 PROVE FALSE
              OBVIOUS
            <6>2. c \in m.components /\ TickOf(account[i].at) <= m.sequence
              BY <1>4, <1>5, <2>1, <5>1, <6>1 DEF Made
            <6>3. m.sequence <= cursors[c]
              BY <1>11, <2>5, <6>2
            <6> QED
              BY <1>5, <2>2, <2>3, <3>3, <6>2, <6>3
          <5>3. Announced(i)'
            BY <2>4, <5>1, <5>2
          <5> QED
            BY <2>3, <3>1, <3>3, <5>3 DEF ItemHolds
        <4> QED
          BY <4>1, <4>2, <4>3
      <3> QED
        BY <3>2, <3>3
    <2>6. CASE AppliedTo(c, m)
      <3>1. /\ c \in m.components /\ cursors'[c] = m.sequence
            /\ entries'[i] = IF i \in DOMAIN m.rows THEN m.rows[i] ELSE entries[i]
        BY <2>1, <2>6 DEF AppliedTo
      <3>2. ASSUME i \in DOMAIN m.rows, m.rows[i].at = account[i].at
            PROVE  Passed(i)' /\ entries'[i] = account[i]
        BY <1>5, <2>3, <3>1, <3>2 DEF Made
      <3>3. ASSUME i \in DOMAIN m.rows, m.rows[i].at # account[i].at
            PROVE  ~Passed(i)' \/ Dropped(i)
        <4>1. m.rows[i].at \in Nat /\ m.rows[i].at <= account[i].at
          BY <1>5, <3>3, MessageFacts DEF Made
        <4>2. m.sequence < TickOf(account[i].at) \/ Excused(account[i].at)
          BY <1>5, <2>2, <3>3, <4>1 DEF Fresh
        <4> QED
          BY <1>5, <2>2, <2>3, <3>1, <4>2 DEF Dropped
      <3>4. ASSUME ~(i \in DOMAIN m.rows /\ m.rows[i].at = account[i].at), Announced(i)
            PROVE  Announced(i)' /\ (i \notin DOMAIN m.rows => ~Passed(i)')
        <4>1. PICK q \in DOMAIN inbox :
                 /\ i \in DOMAIN inbox[q].rows /\ inbox[q].rows[i].at = account[i].at
                 /\ \A k \in 1..q - 1 : c \in inbox[k].components =>
                       inbox[k].sequence < TickOf(account[i].at)
          BY <2>1, <3>4 DEF Announced
        <4>2. q # 1
          BY <1>4, <3>4, <4>1
        <4>3. Announced(i)'
          BY <2>4, <4>1, <4>2
        <4>4. m.sequence < TickOf(account[i].at)
          BY <1>4, <3>1, <4>1, <4>2
        <4> QED
          BY <1>5, <2>2, <2>3, <3>1, <4>3, <4>4
      <3>5. CASE i \in DOMAIN m.rows /\ m.rows[i].at = account[i].at
        BY <1>2, <3>2, <3>5 DEF ItemHolds
      <3>6. CASE Dropped(i)
        BY <1>3, <3>6 DEF ItemHolds
      <3>7. CASE ~(i \in DOMAIN m.rows /\ m.rows[i].at = account[i].at) /\ ~Dropped(i)
        <4>1. CASE Passed(i)
          <5>1. i \notin DOMAIN m.rows
            BY <2>2, <2>3, <3>3, <3>7, <4>1
          <5>2. entries'[i] = entries[i] /\ entries[i] = account[i] /\ Passed(i)'
            BY <2>2, <2>3, <3>1, <3>7, <4>1, <5>1 DEF ItemHolds
          <5> QED
            BY <1>2, <5>2 DEF ItemHolds
        <4>2. CASE ~Passed(i)
          <5>1. Announced(i)
            BY <2>2, <2>3, <3>7, <4>2 DEF ItemHolds
          <5>2. Announced(i)' /\ ~Passed(i)'
            BY <3>3, <3>4, <3>7, <5>1
          <5> QED
            BY <5>2 DEF ItemHolds
        <4> QED
          BY <4>1, <4>2
      <3> QED
        BY <3>5, <3>6, <3>7
    <2> QED
      BY <1>10, <2>5, <2>6
  <1>14. CursorInv'
    BY <1>3, <1>13 DEF CursorInv
  <1> QED
    BY <1>1, <1>2, <1>7, <1>8, <1>9, <1>12, <1>14 DEF AccountInv

\* What a stream on its way leaves of the store, and of the refresh.
LEMMA StreamStep ==
    ASSUME AccountInv, InboxInv', CursorInv', \A i \in Items : Met(i)' \subseteq Met(i),
           UNCHANGED <<scope, mode, account, ticks, refresh, entries, cursors, torn>>
    PROVE  AccountInv'
  <1>1. MovesOn
    BY RestMovesOn
  <1>2. RefreshInv'
    <2>1. \A i \in Assets : scope = "futures" => i \in Items
      BY DEF Items
    <2> QED
      BY <1>1, <2>1, RefreshRests
  <1>3. StoreInv'
    BY DEF AccountInv, StoreInv, Items, Now, TickOf
  <1> QED
    BY <1>1, <1>2, <1>3 DEF MovesOn, AccountInv

\* What was on its way is lost with the connection.
LEMMA DisconnectPrivateKeeps ==
    ASSUME AccountInv, DisconnectPrivate
    PROVE  AccountInv'
  <1>0. /\ lost' = lost \cup UNION {{<<i, inbox[n].rows[i].at>> :
                      i \in DOMAIN inbox[n].rows} : n \in DOMAIN inbox}
        /\ UNCHANGED account
    BY DEF DisconnectPrivate
  <1>1. /\ connected' = FALSE /\ inbox' = << >>
        /\ UNCHANGED <<scope, mode, account, ticks, refresh, entries, cursors, torn>>
    BY DEF DisconnectPrivate
  <1>2. InboxInv'
    <2>1. inbox' \in Seq(AccountMessages)
      BY <1>1
    <2>2. DOMAIN inbox' = {}
      BY <1>1
    <2>3. ~connected' /\ connected' \in BOOLEAN
      BY <1>1
    <2> QED
      BY <1>1, <2>1, <2>2, <2>3 DEF InboxInv
  <1>3. \A i \in Items : Met(i)' \subseteq Met(i)
    BY <1>1 DEF Met, Naming, Sent, Range
  <1>4. Items' = Items /\ CursorInv
    BY <1>1 DEF Items, AccountInv
  <1>5. ASSUME NEW i \in Items PROVE ItemHolds(i)'
    <2>1. Announced(i) => <<i, account[i].at>> \in lost'
      BY <1>0 DEF Announced
    <2>2. lost \subseteq lost'
      BY <1>0
    <2>3. /\ Dropped(i) => Dropped(i)'
          /\ Announced(i) => Dropped(i)'
          /\ Passed(i)' <=> Passed(i)
      BY <1>1, <2>1, <2>2 DEF Dropped, Passed, Excused, SameTick, TickOf
    <2>4. /\ Passed(i) => entries[i] = account[i] \/ Dropped(i)
          /\ account[i].at > 0 /\ ~Passed(i) => Announced(i) \/ Dropped(i)
      BY <1>4 DEF CursorInv, ItemHolds
    <2> QED
      BY <1>1, <2>3, <2>4 DEF ItemHolds
  <1>6. CursorInv'
    BY <1>4, <1>5 DEF CursorInv
  <1> QED
    BY <1>1, <1>2, <1>3, <1>6, StreamStep

\* A stream starts with what is true, or with nothing.
LEMMA ConnectPrivateKeeps ==
    ASSUME AccountInv, ConnectPrivate
    PROVE  AccountInv'
  <1> DEFINE balances == Restrict(account, Assets)
             positions == Restrict(account, Sides)
  <1>1. PICK b, p : b = AccountSnapshot({"balances"}, Now, balances) /\ p = AccountSnapshot({"positions"}, Now, positions)
    OBVIOUS
  <1>2. /\ ~connected /\ cursors["balances"] # NoCursor /\ connected' = TRUE
        /\ inbox' = IF scope = "bitget" THEN <<b, p>> ELSE << >>
        /\ UNCHANGED <<scope, mode, account, ticks, refresh, entries, cursors, lost, torn>>
    BY <1>1 DEF ConnectPrivate, AccountSnapshot
  <1>3. /\ ClockInv /\ StoreInv /\ InboxInv /\ CursorInv /\ Now \in Nat /\ Items' = Items
        /\ account \in [Items -> Entries]
    BY <1>2, ClockFacts DEF AccountInv, ClockInv, Items
  <1>4. inbox = << >> /\ \A c \in Components : cursors[c] # NoCursor
    BY <1>2, <1>3 DEF InboxInv, StoreInv, Components
  <1>5. ASSUME scope = "bitget"
        PROVE  /\ \A m \in {b, p} : /\ m \in AccountMessages /\ Made(m) /\ Fresh(m) /\ m.sequence = Now
                                    /\ \A c, d \in m.components : c = d
                                    /\ \A i \in DOMAIN m.rows : m.rows[i].at \in Met(i)
    <2>1. Items = Assets \cup Sides
      BY <1>5 DEF Items
    <2>2. ASSUME NEW c \in {"balances", "positions"}, NEW S, NEW rows, NEW m,
                 S = (IF c = "balances" THEN Assets ELSE Sides),
                 rows = Restrict(account, S), m = AccountSnapshot({c}, Now, rows)
          PROVE  /\ m \in AccountMessages /\ Made(m) /\ Fresh(m) /\ m.sequence = Now
                 /\ m.components = {c} /\ \A i \in DOMAIN m.rows : m.rows[i].at \in Met(i)
      <3>1. rows \in [S -> Entries] /\ (\A i \in S : rows[i] = account[i] /\ i \in Items) /\ S \subseteq Items
        BY <1>3, <2>1, <2>2 DEF Restrict
      <3>2. ItemsOf(c) \subseteq S /\ {c} \subseteq Components
        BY <2>2 DEF ItemsOf, Components
      <3>3. \A i \in S : ComponentOf(i) = c
        BY <2>2, AccountAssumption DEF ComponentOf, Sides
      <3>4. \A i \in S : /\ TickOf(rows[i].at) <= Now
                         /\ rows[i].at \in Met(i) /\ rows[i].at <= account[i].at
                         /\ \A n \in Met(i) : n > rows[i].at => n \in torn
        <4>1. ASSUME NEW i \in S
              PROVE  /\ TickOf(rows[i].at) <= Now
                     /\ rows[i].at \in Met(i) /\ rows[i].at <= account[i].at
                     /\ \A n \in Met(i) : n > rows[i].at => n \in torn
          <5>1. i \in Items /\ rows[i] = account[i]
            BY <3>1
          <5>2. /\ account[i].at \in 0..Len(ticks) /\ TickOf(account[i].at) <= Now
                /\ account[i].at \in Met(i) /\ \A n \in Met(i) : n > account[i].at => FALSE
            BY <5>1, ReadNow
          <5> QED
            BY <5>1, <5>2
        <4> QED
          BY <4>1
      <3>5. Readable(S, {c}, Now, rows)
        BY <1>3, <3>1, <3>2, <3>3, <3>4 DEF Readable
      <3>6. m \in AccountMessages /\ Made(m) /\ Fresh(m) /\ m.sequence = Now /\ m.components = {c} /\ m.rows = rows
        BY <2>2, <3>5, ReadIs
      <3> QED
        BY <3>1, <3>4, <3>6
    <2>3. /\ b \in AccountMessages /\ Made(b) /\ Fresh(b) /\ b.sequence = Now
          /\ b.components = {"balances"} /\ \A i \in DOMAIN b.rows : b.rows[i].at \in Met(i)
      BY <1>1, <2>2
    <2>4. /\ p \in AccountMessages /\ Made(p) /\ Fresh(p) /\ p.sequence = Now
          /\ p.components = {"positions"} /\ \A i \in DOMAIN p.rows : p.rows[i].at \in Met(i)
      BY <1>1, <2>2
    <2> QED
      BY <2>3, <2>4
  <1>6. Sent' \subseteq Sent \cup {b, p} /\ (scope # "bitget" => Sent' \subseteq Sent)
    BY <1>2 DEF Sent, Range
  <1>7. \A i \in Items : Met(i)' \subseteq Met(i)
    BY <1>2, <1>5, <1>6 DEF Met, Naming
  <1>8. MovesOn /\ \A m : Made(m) /\ Fresh(m) => Made(m)' /\ Fresh(m)'
    BY <1>2, <1>7, RestMovesOn
  <1>9. InboxInv'
    <2>1. CASE scope = "bitget"
      <3>1. /\ inbox' = <<b, p>> /\ DOMAIN inbox' = {1, 2} /\ inbox' \in Seq(AccountMessages)
            /\ \A n \in DOMAIN inbox' : inbox'[n] \in {b, p}
        BY <1>2, <1>5, <2>1
      <3>2. ASSUME NEW n \in DOMAIN inbox' PROVE Made(inbox[n])' /\ Fresh(inbox[n])'
        <4>1. PICK x \in {b, p} : x = inbox'[n]
          BY <3>1
        <4>2. Made(x)' /\ Fresh(x)'
          BY <1>5, <1>8, <2>1
        <4> QED
          BY <4>1, <4>2
      <3>3. /\ \A n, k \in DOMAIN inbox' : inbox'[n].sequence <= inbox'[k].sequence
            /\ \A n \in DOMAIN inbox' : \A c, d \in inbox'[n].components : c = d
        BY <1>3, <1>5, <2>1, <3>1
      <3> QED
        BY <1>2, <1>4, <3>1, <3>2, <3>3 DEF InboxInv
    <2>2. CASE scope # "bitget"
      BY <1>2, <1>4, <2>2 DEF InboxInv
    <2> QED
      BY <2>1, <2>2
  <1>10. ASSUME NEW i \in Items PROVE ItemHolds(i)'
    <2>1. ~Announced(i)
      BY <1>4 DEF Announced
    <2>2. (Dropped(i)' <=> Dropped(i)) /\ (Passed(i)' <=> Passed(i))
      BY <1>2 DEF Dropped, Passed, Excused, SameTick, TickOf
    <2> QED
      BY <1>2, <1>3, <2>1, <2>2 DEF CursorInv, ItemHolds
  <1>11. CursorInv'
    BY <1>3, <1>10 DEF CursorInv
  <1> QED
    BY <1>2, <1>7, <1>9, <1>11, StreamStep

\* What the exchange does to the account, and what is said of it.
ChangesTo(assets, sides, now, tick) ==
    /\ Len(ticks) + 1 <= MaxChanges /\ assets \subseteq Assets /\ sides \subseteq Sides \cap Items
    /\ now \in [Items -> Entries] /\ account' = now
    /\ \A i \in Items : IF i \in assets \cup sides THEN now[i].at = Len(ticks) + 1
                        ELSE now[i] = account[i]
    /\ mode = "one_way" /\ sides # {} => \A s \in Sides \ sides : ~now[s].held
    /\ tick \in {Now, Now + 1} \ {0} /\ ticks' = Append(ticks, tick)
    /\ IF connected
       THEN /\ inbox' = inbox \o StreamMessages(assets, sides, now)
            /\ \A i \in Unnamed(sides, now) : <<i, Len(ticks) + 1>> \in lost'
       ELSE /\ inbox' = inbox
            /\ \A i \in assets \cup sides : <<i, Len(ticks) + 1>> \in lost'
    /\ lost \subseteq lost' /\ torn \subseteq torn'
    /\ scope = "futures" /\ refresh.phase = "balances" => Len(ticks) + 1 \in torn'
    /\ UNCHANGED <<scope, mode, connected, refresh, entries, cursors>>

\* The handler is such a change.
LEMMA ChangeIs ==
    ASSUME AccountInv, AccountChanges
    PROVE  \E assets, sides, now, tick : ChangesTo(assets, sides, now, tick)
  <1> DEFINE number == Len(ticks) + 1
  <1>1. PICK assets \in {{}} \cup {{a} : a \in Assets}, side \in Sides, held, moves \in BOOLEAN :
           LET sides == IF moves THEN Turns(side, held) ELSE {}
               now == [i \in Items |-> IF i \in assets THEN [held |-> TRUE, at |-> number]
                                       ELSE IF i \in sides
                                       THEN [held |-> held /\ i = side, at |-> number]
                                       ELSE account[i]]
           IN /\ number <= MaxChanges
              /\ assets \cup sides # {}
              /\ moves = (sides # {})
              /\ account' = now
              /\ \E tick \in {Now, Now + 1} \ {0} : ticks' = Append(ticks, tick)
              /\ IF connected
                 THEN /\ inbox' = inbox \o StreamMessages(assets, sides, now)
                      /\ lost' = lost \cup {<<i, number>> : i \in Unnamed(sides, now)}
                 ELSE /\ lost' = lost \cup {<<i, number>> : i \in assets \cup sides}
                      /\ UNCHANGED inbox
              /\ torn' = IF scope = "futures" /\ refresh.phase = "balances"
                         THEN torn \cup {number} ELSE torn
              /\ UNCHANGED <<scope, mode, connected, losses, refreshes, refresh, entries, cursors>>
    BY Zenon DEF AccountChanges
  <1>2. PICK sides : sides = IF moves THEN Turns(side, held) ELSE {}
    OBVIOUS
  <1>3. PICK now : now = [i \in Items |-> IF i \in assets THEN [held |-> TRUE, at |-> number]
                                          ELSE IF i \in sides
                                          THEN [held |-> held /\ i = side, at |-> number]
                                          ELSE account[i]]
    OBVIOUS
  <1>4. /\ number <= MaxChanges /\ account' = now
        /\ \E tick \in {Now, Now + 1} \ {0} : ticks' = Append(ticks, tick)
        /\ IF connected
           THEN /\ inbox' = inbox \o StreamMessages(assets, sides, now)
                /\ lost' = lost \cup {<<i, number>> : i \in Unnamed(sides, now)}
           ELSE /\ lost' = lost \cup {<<i, number>> : i \in assets \cup sides}
                /\ UNCHANGED inbox
        /\ torn' = IF scope = "futures" /\ refresh.phase = "balances"
                   THEN torn \cup {number} ELSE torn
        /\ UNCHANGED <<scope, mode, connected, losses, refreshes, refresh, entries, cursors>>
    BY <1>1, <1>2, <1>3, Zenon
  <1>5. ClockInv /\ account \in [Items -> Entries] /\ Len(ticks) \in Nat /\ MaxChanges \in Nat
    BY ClockFacts, AccountAssumption DEF AccountInv, ClockInv
  <1>6. assets \subseteq Assets /\ sides \subseteq Sides \cap Items
    <2>1. assets \subseteq Assets
      <3>1. assets \in {{}} \cup {{a} : a \in Assets}
        BY <1>1, Zenon
      <3> QED
        BY <3>1
    <2>2. Turns(side, held) \subseteq Sides \cap Items
      <3>1. side \in Sides
        BY <1>1, Zenon
      <3> QED
        BY <3>1 DEF Turns, Sides, Items
    <2> QED
      BY <1>2, <2>1, <2>2
  <1>7. \A i \in Items : now[i] = IF i \in assets THEN [held |-> TRUE, at |-> number]
                                  ELSE IF i \in sides
                                  THEN [held |-> held /\ i = side, at |-> number]
                                  ELSE account[i]
    BY <1>3
  <1>8. now \in [Items -> Entries]
    <2>1. ASSUME NEW i \in Items PROVE now[i] \in Entries
      <3>1. number \in 0..MaxChanges
        BY <1>4, <1>5
      <3>2. CASE i \in assets
        <4>1. now[i] = [held |-> TRUE, at |-> number]
          BY <1>7, <3>2, Zenon
        <4> QED
          BY <3>1, <4>1 DEF Entries
      <3>3. CASE i \notin assets /\ i \in sides
        <4>1. (held /\ i = side) \in BOOLEAN
          OBVIOUS
        <4>2. now[i] = [held |-> held /\ i = side, at |-> number]
          BY <1>7, <3>3
        <4> QED
          BY <3>1, <4>1, <4>2 DEF Entries
      <3>4. CASE i \notin assets /\ i \notin sides
        BY <1>5, <1>7, <3>4
      <3> QED
        BY <3>2, <3>3, <3>4
    <2> QED
      BY <1>3, <2>1
  <1>9. \A i \in Items : IF i \in assets \cup sides THEN now[i].at = number ELSE now[i] = account[i]
    <2>1. ASSUME NEW i \in Items, i \in assets PROVE now[i].at = number
      <3>1. now[i] = [held |-> TRUE, at |-> number]
        BY <1>7, <2>1, Zenon
      <3> QED
        BY <3>1
    <2>2. ASSUME NEW i \in Items, i \notin assets, i \in sides PROVE now[i].at = number
      <3>1. now[i] = [held |-> held /\ i = side, at |-> number]
        BY <1>7, <2>2, Zenon
      <3> QED
        BY <3>1
    <2>3. ASSUME NEW i \in Items, i \notin assets, i \notin sides PROVE now[i] = account[i]
      BY <1>7, <2>3, Zenon
    <2> QED
      BY <2>1, <2>2, <2>3
  <1>10. mode = "one_way" /\ sides # {} => \A s \in Sides \ sides : ~now[s].held
    <2>1. SUFFICES ASSUME mode = "one_way", sides # {}, NEW s \in Sides, s \notin sides
                   PROVE  ~now[s].held
      OBVIOUS
    <2>2. /\ scope # "spot" /\ side \in sides
          /\ \A t \in Sides : t # side /\ account[t].held => t \in sides
      BY <1>2, <2>1 DEF Turns, Sides
    <2>3. s \in Items /\ s \notin assets
      BY <1>6, <2>1, <2>2, AccountAssumption DEF Items, Sides
    <2> QED
      BY <1>9, <2>1, <2>2, <2>3
  <1>11. PICK tick \in {Now, Now + 1} \ {0} : ticks' = Append(ticks, tick)
    BY <1>4
  <1>12. /\ IF connected
            THEN /\ inbox' = inbox \o StreamMessages(assets, sides, now)
                 /\ \A i \in Unnamed(sides, now) : <<i, number>> \in lost'
            ELSE /\ inbox' = inbox
                 /\ \A i \in assets \cup sides : <<i, number>> \in lost'
         /\ lost \subseteq lost'
    BY <1>4
  <1>13. torn \subseteq torn' /\ (scope = "futures" /\ refresh.phase = "balances" => number \in torn')
    BY <1>4
  <1>14. ChangesTo(assets, sides, now, tick)
    BY <1>4, <1>6, <1>8, <1>9, <1>10, <1>11, <1>12, <1>13 DEF ChangesTo
  <1> QED
    BY <1>14

\* An update of some items.
AccountUpdate(items, now, sequence) ==
    Message(FALSE, {c \in Components : items \cap ItemsOf(c) # {}}, sequence, Restrict(now, items))
IsUpdate(m, items, now, sequence) ==
    /\ m \in AccountMessages /\ ~m.snapshot /\ m.sequence = sequence
    /\ DOMAIN m.rows = items /\ \A i \in items : m.rows[i] = now[i]
    /\ m.components = {ComponentOf(i) : i \in items}

\* The update of some items is one message about them.
LEMMA UpdateIs ==
    ASSUME NEW items \in SUBSET Items, NEW now \in [Items -> Entries], NEW sequence \in Nat,
           NEW m, m = AccountUpdate(items, now, sequence)
    PROVE  IsUpdate(m, items, now, sequence)
  <1> DEFINE components == {c \in Components : items \cap ItemsOf(c) # {}}
             rows == Restrict(now, items)
  <1>1. PICK Rows : Rows = UNION {[T -> Entries] : T \in SUBSET (Assets \cup Sides)}
    OBVIOUS
  <1>2. rows \in [items -> Entries] /\ \A i \in items : rows[i] = now[i]
    BY DEF Restrict
  <1>3. components = {ComponentOf(i) : i \in items} /\ components \in SUBSET Components
    BY ComponentFacts
  <1>4. rows \in Rows
    BY <1>1, <1>2, ComponentFacts
  <1>5. m = Message(FALSE, components, sequence, rows)
    BY DEF AccountUpdate
  <1> HIDE DEF components, rows
  <1>6. m \in [snapshot : BOOLEAN, components : SUBSET Components, sequence : Nat, rows : Rows]
    BY <1>3, <1>4, <1>5 DEF Message
  <1>7. ~m.snapshot /\ m.components = components /\ m.sequence = sequence /\ m.rows = rows
    BY <1>5 DEF Message
  <1>8. m \in AccountMessages
    BY <1>1, <1>6, Zenon DEF AccountMessages
  <1> QED
    BY <1>2, <1>3, <1>7, <1>8 DEF IsUpdate

\* The messages of a change name what changed, and no component twice.
Says(messages, items, now, sequence) ==
    /\ messages \in Seq(AccountMessages)
    /\ \A n \in DOMAIN messages : \E named \in SUBSET Items :
          /\ IsUpdate(messages[n], named, now, sequence)
          /\ scope = "bitget" => \A i, k \in named : ComponentOf(i) = ComponentOf(k)
    /\ \A i \in items : \E n \in DOMAIN messages :
          /\ i \in DOMAIN messages[n].rows
          /\ \A k \in 1..n - 1 : ComponentOf(i) \notin messages[k].components

\* The stream's messages are of that shape: one of all, or one for each topic.
LEMMA StreamIs ==
    ASSUME NEW assets \in SUBSET Assets, NEW sides \in SUBSET (Sides \cap Items),
           NEW now \in [Items -> Entries], Now' \in Nat
    PROVE  Says(StreamMessages(assets, sides, now), assets \cup PositionRows(sides, now), now, Now')
  <1> DEFINE rows == PositionRows(sides, now)
             sequence == Now'
  <1>1. PICK a, r, both : /\ a = AccountUpdate(assets, now, sequence) /\ r = AccountUpdate(rows, now, sequence)
                          /\ both = AccountUpdate(assets \cup rows, now, sequence)
    OBVIOUS
  <1>2. StreamMessages(assets, sides, now) =
           IF scope = "bitget"
           THEN (IF assets = {} THEN << >> ELSE <<a>>) \o (IF rows = {} THEN << >> ELSE <<r>>)
           ELSE IF assets \cup rows = {} THEN << >> ELSE <<both>>
    BY <1>1 DEF StreamMessages, AccountUpdate
  <1>3. rows \in SUBSET (Sides \cap Items) /\ assets \in SUBSET Items
    <2>1. sides # {} => Sides \subseteq Items
      BY AccountAssumption DEF Items, Sides
    <2>2. sides = {} => rows = {}
      BY DEF PositionRows
    <2>3. rows \subseteq Sides
      BY DEF PositionRows
    <2>4. Assets \subseteq Items
      BY DEF Items
    <2> QED
      BY <2>1, <2>2, <2>3, <2>4
  <1> HIDE DEF rows
  <1>4. /\ IsUpdate(a, assets, now, sequence) /\ IsUpdate(r, rows, now, sequence)
        /\ IsUpdate(both, assets \cup rows, now, sequence)
    <2>1. assets \in SUBSET Items /\ rows \in SUBSET Items /\ (assets \cup rows) \in SUBSET Items
      BY <1>3
    <2> HIDE DEF sequence
    <2>2. sequence \in Nat
      BY DEF sequence
    <2> QED
      BY <1>1, <2>1, <2>2, UpdateIs
  <1>5. /\ \A i \in assets : ComponentOf(i) = "balances"
        /\ \A i \in rows : ComponentOf(i) = "positions"
    BY <1>3, AccountAssumption DEF ComponentOf, Sides
  <1>6. /\ a \in AccountMessages /\ r \in AccountMessages /\ both \in AccountMessages
        /\ DOMAIN a.rows = assets /\ DOMAIN r.rows = rows /\ DOMAIN both.rows = assets \cup rows
        /\ \A i \in rows : ComponentOf(i) \notin a.components
    BY <1>4, <1>5 DEF IsUpdate
  <1> HIDE DEF sequence
  <1>7. CASE scope # "bitget"
    <2>1. CASE assets \cup rows = {}
      <3>1. StreamMessages(assets, sides, now) = << >>
        BY <1>2, <1>7, <2>1
      <3> QED
        BY <2>1, <3>1 DEF Says, rows
    <2>2. CASE assets \cup rows # {}
      <3>1. PICK messages : messages = <<both>>
        OBVIOUS
      <3>2. DOMAIN messages = {1} /\ messages[1] = both /\ messages \in Seq(AccountMessages)
        BY <1>6, <3>1
      <3>3. Says(messages, assets \cup rows, now, sequence)
        BY <1>3, <1>4, <1>6, <1>7, <3>2 DEF Says
      <3>4. StreamMessages(assets, sides, now) = messages
        BY <1>2, <1>7, <2>2, <3>1
      <3> QED
        BY <3>3, <3>4 DEF rows, sequence
    <2> QED
      BY <2>1, <2>2
  <1>8. CASE scope = "bitget"
    <2>1. CASE assets = {} /\ rows = {}
      <3>1. StreamMessages(assets, sides, now) = << >>
        BY <1>2, <1>8, <2>1
      <3>2. Says(<< >>, {}, now, sequence)
        BY DEF Says
      <3>3. assets \cup rows = {}
        BY <2>1
      <3> QED
        BY <3>1, <3>2, <3>3 DEF rows, sequence
    <2>2. CASE assets # {} /\ rows = {}
      <3>1. PICK messages : messages = <<a>>
        OBVIOUS
      <3>2. DOMAIN messages = {1} /\ messages[1] = a /\ messages \in Seq(AccountMessages)
        BY <1>6, <3>1
      <3>3. Says(messages, assets \cup rows, now, sequence)
        BY <1>3, <1>4, <1>5, <1>6, <2>2, <3>2 DEF Says
      <3>4. StreamMessages(assets, sides, now) = messages
        BY <1>2, <1>8, <2>2, <3>1, <3>2
      <3> QED
        BY <3>3, <3>4 DEF rows, sequence
    <2>3. CASE assets = {} /\ rows # {}
      <3>1. PICK messages : messages = <<r>>
        OBVIOUS
      <3>2. DOMAIN messages = {1} /\ messages[1] = r /\ messages \in Seq(AccountMessages)
        BY <1>6, <3>1
      <3>3. Says(messages, assets \cup rows, now, sequence)
        BY <1>3, <1>4, <1>5, <1>6, <2>3, <3>2 DEF Says
      <3>4. StreamMessages(assets, sides, now) = messages
        BY <1>2, <1>8, <2>3, <3>1, <3>2
      <3> QED
        BY <3>3, <3>4 DEF rows, sequence
    <2>4. CASE assets # {} /\ rows # {}
      <3>1. PICK messages : messages = <<a>> \o <<r>>
        OBVIOUS
      <3>2. /\ DOMAIN messages = {1, 2} /\ messages[1] = a /\ messages[2] = r
            /\ messages \in Seq(AccountMessages)
        <4>1. <<a>> \in Seq(AccountMessages) /\ <<r>> \in Seq(AccountMessages)
          BY <1>6
        <4>2. /\ messages \in Seq(AccountMessages) /\ Len(messages) = 2
              /\ messages[1] = a /\ messages[2] = r
          BY <3>1, <4>1
        <4> QED
          BY <4>2
      <3>3. ASSUME NEW n \in DOMAIN messages
            PROVE  \E named \in SUBSET Items :
                      /\ IsUpdate(messages[n], named, now, sequence)
                      /\ scope = "bitget" => \A i, k \in named : ComponentOf(i) = ComponentOf(k)
        BY <1>3, <1>4, <1>5, <3>2
      <3>4. ASSUME NEW i \in assets \cup rows
            PROVE  \E n \in DOMAIN messages :
                      /\ i \in DOMAIN messages[n].rows
                      /\ \A k \in 1..n - 1 : ComponentOf(i) \notin messages[k].components
        <4>1. CASE i \in assets
          BY <1>6, <3>2, <4>1
        <4>2. CASE i \in rows
          BY <1>6, <3>2, <4>2
        <4> QED
          BY <4>1, <4>2
      <3>5. Says(messages, assets \cup rows, now, sequence)
        BY <3>2, <3>3, <3>4 DEF Says
      <3>6. StreamMessages(assets, sides, now) = messages
        BY <1>2, <1>8, <2>4, <3>1
      <3> QED
        BY <3>5, <3>6 DEF rows, sequence
    <2> QED
      BY <2>1, <2>2, <2>3, <2>4
  <1> QED
    BY <1>7, <1>8

\* A change has the number that follows, and its time, or that of the one before it.
LEMMA ClockMoves ==
    ASSUME AccountInv, NEW assets, NEW sides, NEW now, NEW tick, NEW number,
           ChangesTo(assets, sides, now, tick), number = Len(ticks) + 1
    PROVE  /\ ClockInv' /\ Len(ticks) \in Nat /\ Len(ticks)' = Len(ticks) + 1
           /\ Now \in Nat /\ Now' = tick /\ tick \in Nat /\ Now <= tick /\ tick <= Now + 1
           /\ \A n \in 0..Len(ticks) : /\ TickOf(n)' = TickOf(n) /\ (SameTick(n) => SameTick(n)')
                                       /\ TickOf(n) <= Now /\ TickOf(n) \in Nat
           /\ TickOf(number)' = tick
           /\ tick = Now => SameTick(number)'
           /\ Items' = Items
  <1>1. /\ ClockInv /\ Len(ticks) \in Nat /\ DOMAIN ticks = 1..Len(ticks) /\ Now \in Nat
        /\ \A n \in 0..Len(ticks) : TickOf(n) \in Nat /\ TickOf(n) <= Now
    BY ClockFacts DEF AccountInv
  <1>2. /\ number <= MaxChanges /\ tick \in {Now, Now + 1} \ {0} /\ ticks' = Append(ticks, tick)
        /\ scope' = scope /\ account' = now /\ now \in [Items -> Entries]
        /\ \A i \in Items : IF i \in assets \cup sides THEN now[i].at = number
                            ELSE now[i] = account[i]
    BY DEF ChangesTo
  <1>3. ticks \in Seq(Nat \ {0}) /\ tick \in Nat \ {0}
    BY <1>1, <1>2 DEF ClockInv
  <1>4. /\ ticks' \in Seq(Nat \ {0}) /\ Len(ticks') = number /\ DOMAIN ticks' = 1..number
        /\ ticks'[number] = tick /\ \A n \in 1..Len(ticks) : ticks'[n] = ticks[n]
    <2>1. /\ ticks' \in Seq(Nat \ {0}) /\ Len(ticks') = number
          /\ ticks'[number] = tick /\ \A n \in 1..Len(ticks) : ticks'[n] = ticks[n]
      BY <1>1, <1>2, <1>3
    <2> QED
      BY <1>1, <2>1
  <1>5. Now' = tick /\ Items' = Items
    <2>1. ticks' # << >>
      BY <1>1, <1>4
    <2> QED
      BY <1>2, <1>4, <2>1 DEF Now, Items
  <1>6. ASSUME NEW n \in 0..Len(ticks) PROVE TickOf(n)' = TickOf(n) /\ (SameTick(n) => SameTick(n)')
    <2>1. n # 0 => n \in 1..Len(ticks) /\ ticks'[n] = ticks[n]
      BY <1>1, <1>4
    <2>2. n > 1 => n - 1 \in 1..Len(ticks) /\ ticks'[n - 1] = ticks[n - 1]
      BY <1>1, <1>4
    <2> QED
      BY <1>1, <2>1, <2>2 DEF TickOf, SameTick
  <1>7. TickOf(number)' = tick
    BY <1>1, <1>4 DEF TickOf
  <1>8. ASSUME tick = Now PROVE SameTick(number)'
    <2>1. Len(ticks) # 0 /\ Now = ticks[Len(ticks)]
      BY <1>1, <1>3, <1>8 DEF Now
    <2>2. number - 1 = Len(ticks) /\ number > 1 /\ Len(ticks) \in 1..Len(ticks)
      BY <1>1, <2>1
    <2> QED
      BY <1>4, <1>8, <2>1, <2>2 DEF SameTick
  <1>9. ClockInv'
    <2>1. \A n, k \in DOMAIN ticks' : n <= k => ticks'[n] <= ticks'[k]
      <3>1. ASSUME NEW n \in DOMAIN ticks', NEW k \in DOMAIN ticks', n <= k
            PROVE  ticks'[n] <= ticks'[k]
        <4>1. CASE k = number
          <5>1. CASE n = number
            BY <1>3, <1>4, <4>1, <5>1
          <5>2. CASE n # number
            <6>1. n \in 1..Len(ticks)
              BY <1>1, <1>4, <5>2
            <6>2. ticks'[n] <= Now
              BY <1>1, <1>4, <6>1 DEF TickOf
            <6> QED
              BY <1>1, <1>2, <1>3, <1>4, <4>1, <6>1, <6>2
          <5> QED
            BY <5>1, <5>2
        <4>2. CASE k # number
          <5>1. n \in 1..Len(ticks) /\ k \in 1..Len(ticks)
            BY <1>1, <1>4, <3>1, <4>2
          <5> QED
            BY <1>1, <1>4, <3>1, <5>1 DEF ClockInv
        <4> QED
          BY <4>1, <4>2
      <3> QED
        BY <3>1
    <2>2. \A i \in Items : account'[i].at <= number
      <3>1. ASSUME NEW i \in Items PROVE account'[i].at <= number
        <4>1. account[i].at \in 0..Len(ticks)
          BY <1>1, ClockFacts
        <4> QED
          BY <1>1, <1>2, <4>1
      <3> QED
        BY <3>1
    <2> QED
      BY <1>1, <1>2, <1>4, <1>5, <2>1, <2>2 DEF ClockInv
  <1>10. Now <= tick /\ tick <= Now + 1
    BY <1>1, <1>2
  <1> QED
    BY <1>1, <1>3, <1>4, <1>5, <1>6, <1>7, <1>8, <1>9, <1>10

\* What a change says is of now.
LEMMA ChangeMoves ==
    ASSUME AccountInv, NEW assets, NEW sides, NEW now, NEW tick, NEW number,
           ChangesTo(assets, sides, now, tick), number = Len(ticks) + 1
    PROVE  /\ MovesOn /\ \A i \in Items : Met(i)' \subseteq Met(i) \cup {now[i].at}
           /\ connected => /\ Says(StreamMessages(assets, sides, now),
                                   assets \cup PositionRows(sides, now), now, tick)
                           /\ \A m \in Range(StreamMessages(assets, sides, now)) : Made(m)' /\ Fresh(m)'
  <1> DEFINE feed == StreamMessages(assets, sides, now)
  <1>1. /\ ClockInv' /\ Len(ticks) \in Nat /\ Len(ticks)' = number
        /\ Now \in Nat /\ Now' = tick /\ tick \in Nat /\ Now <= tick /\ tick <= Now + 1
        /\ \A n \in 0..Len(ticks) : TickOf(n)' = TickOf(n) /\ (SameTick(n) => SameTick(n)')
        /\ TickOf(number)' = tick
        /\ tick = Now => SameTick(number)'
        /\ Items' = Items
    BY ClockMoves
  <1>2. /\ scope' = scope /\ account' = now /\ now \in [Items -> Entries]
        /\ assets \in SUBSET Assets /\ sides \in SUBSET (Sides \cap Items)
        /\ \A i \in Items : IF i \in assets \cup sides THEN now[i].at = number
                            ELSE now[i] = account[i]
        /\ entries' = entries /\ refresh' = refresh /\ torn \subseteq torn'
        /\ inbox' = IF connected THEN inbox \o feed ELSE inbox
    BY DEF ChangesTo
  <1>3. /\ Says(feed, assets \cup PositionRows(sides, now), now, tick)
        /\ feed \in Seq(AccountMessages)
        /\ \A m \in Range(feed) : \E named \in SUBSET Items :
              /\ IsUpdate(m, named, now, tick)
              /\ scope = "bitget" => \A i, k \in named : ComponentOf(i) = ComponentOf(k)
    <2>1. Says(feed, assets \cup PositionRows(sides, now), now, tick)
      BY <1>1, <1>2, StreamIs
    <2> QED
      BY <2>1 DEF Says, Range
  <1> HIDE DEF feed
  <1>4. Sent' \subseteq Sent \cup (IF connected THEN Range(feed) ELSE {})
    <2>1. inbox \in Seq(AccountMessages)
      BY DEF AccountInv, InboxInv
    <2>2. connected => Range(inbox') \subseteq Range(inbox) \cup Range(feed)
      <3>1. SUFFICES ASSUME connected, NEW n \in DOMAIN inbox'
                     PROVE  inbox'[n] \in Range(inbox) \cup Range(feed)
        BY DEF Range
      <3>2. /\ inbox' = inbox \o feed /\ Len(inbox) \in Nat /\ Len(feed) \in Nat
            /\ DOMAIN inbox = 1..Len(inbox) /\ DOMAIN feed = 1..Len(feed)
        BY <1>2, <1>3, <2>1, <3>1
      <3>3. /\ n \in 1..Len(inbox) + Len(feed)
            /\ inbox'[n] = IF n <= Len(inbox) THEN inbox[n] ELSE feed[n - Len(inbox)]
        BY <1>3, <2>1, <3>2, ConcatProperties
      <3>4. CASE n <= Len(inbox)
        BY <3>2, <3>3, <3>4 DEF Range
      <3>5. CASE n > Len(inbox)
        <4>1. n - Len(inbox) \in DOMAIN feed
          BY <3>2, <3>3, <3>5
        <4> QED
          BY <3>2, <3>3, <3>5, <4>1 DEF Range
      <3> QED
        BY <3>2, <3>3, <3>4, <3>5
    <2> QED
      BY <1>2, <2>2 DEF Sent
  <1>5. ASSUME NEW i \in Items PROVE Met(i)' \subseteq Met(i) \cup {now[i].at}
    <2>1. \A m \in Range(feed) : i \in DOMAIN m.rows => m.rows[i].at = now[i].at
      BY <1>3 DEF IsUpdate
    <2>2. \A m \in Naming(i)' : m \in Naming(i) \/ m.rows[i].at = now[i].at
      BY <1>4, <2>1 DEF Naming
    <2> QED
      BY <1>2, <2>2 DEF Met
  <1>6. ASSUME NEW i \in Items
        PROVE  /\ now[i] = account[i] \/ now[i].at = number
               /\ account[i].at \in 0..Len(ticks) /\ account[i].at \in Met(i)
               /\ now[i].at \in 0..number /\ account[i].at <= now[i].at
               /\ TickOf(now[i].at)' <= tick
               /\ \A n \in Met(i)' : n \in Met(i) \/ n = number
               /\ \A n \in Met(i)' : n <= now[i].at
    <2>1. account[i].at \in 0..Len(ticks) /\ account[i].at \in Met(i)
      BY ReadNow
    <2>2. now[i] = account[i] \/ now[i].at = number
      BY <1>2
    <2>3. \A n \in Met(i) : n \in 0..Len(ticks) /\ n <= account[i].at
      BY MetFacts
    <2>4. now[i].at \in 0..number /\ account[i].at <= now[i].at
      BY <1>1, <2>1, <2>2
    <2>5. TickOf(now[i].at)' <= tick
      BY <1>1, <1>2, ClockMoves, <2>1, <2>2
    <2>6. \A n \in Met(i)' : n \in Met(i) \/ n = number
      BY <1>5, <2>1, <2>2
    <2>7. \A n \in Met(i)' : n <= now[i].at
      BY <1>1, <1>5, <2>1, <2>3, <2>4
    <2> QED
      BY <2>1, <2>2, <2>4, <2>5, <2>6, <2>7
  <1>7. MovesOn
    <2>1. LaterChange(number)
      BY <1>1 DEF LaterChange
    <2>2. \A i \in Items : \A n \in Met(i)' : n \in Met(i) \/ LaterChange(n)
      BY <1>6, <2>1
    <2>3. \A i \in Items : account'[i] = account[i] \/ account'[i].at > Len(ticks)
      BY <1>1, <1>2, <1>6
    <2> QED
      BY <1>1, <1>2, <2>2, <2>3 DEF MovesOn
  <1>8. ASSUME NEW m \in Range(feed) PROVE Made(m)' /\ Fresh(m)'
    <2>1. PICK named \in SUBSET Items :
             /\ IsUpdate(m, named, now, tick)
             /\ scope = "bitget" => \A i, k \in named : ComponentOf(i) = ComponentOf(k)
      BY <1>3
    <2>2. /\ m \in AccountMessages /\ ~m.snapshot /\ m.sequence = tick /\ DOMAIN m.rows = named
          /\ \A i \in named : m.rows[i] = now[i]
          /\ m.components = {ComponentOf(i) : i \in named}
      BY <2>1 DEF IsUpdate
    <2>3. ASSUME NEW i \in DOMAIN m.rows
          PROVE  /\ i \in Items /\ m.rows[i].at <= account'[i].at /\ TickOf(m.rows[i].at)' <= m.sequence
                 /\ m.rows[i] = account'[i] /\ ComponentOf(i) \in m.components
                 /\ \A n \in Met(i)' : ~(n > m.rows[i].at)
      <3>1. i \in Items /\ m.rows[i] = now[i] /\ ComponentOf(i) \in m.components
        BY <2>2
      <3>2. /\ now[i].at \in Nat /\ TickOf(now[i].at)' <= tick
            /\ \A n \in Met(i)' : n <= now[i].at /\ n \in Nat
        <4>1. account[i].at \in Nat /\ now[i].at \in Nat /\ number \in Nat
          BY <1>1, <1>6, <3>1
        <4>2. \A n \in Met(i)' : n \in Nat
          BY <1>6, <3>1, <4>1, MetFacts
        <4> QED
          BY <1>6, <3>1, <4>1, <4>2
      <3> QED
        BY <1>2, <2>2, <3>1, <3>2
    <2>4. \A i : ComponentOf(i)' = ComponentOf(i)
      BY DEF ComponentOf
    <2>5. Fresh(m)'
      BY <2>3 DEF Fresh
    <2>6. scope' = "bitget" => \A c, d \in m.components : c = d
      BY <1>2, <2>1, <2>2
    <2>7. m \in AccountMessages' /\ m.sequence <= Now'
      BY <1>1, <2>2 DEF AccountMessages
    <2> QED
      BY <1>1, <2>2, <2>3, <2>4, <2>5, <2>6, <2>7 DEF Made
  <1> QED
    BY <1>3, <1>5, <1>7, <1>8 DEF feed

\* A change is said, or its time is that of the one before it, or no message says it.
LEMMA AccountChangesKeeps ==
    ASSUME AccountInv, AccountChanges
    PROVE  AccountInv'
  <1>1. PICK assets, sides, now, tick : ChangesTo(assets, sides, now, tick)
    BY ChangeIs
  <1>2. PICK number : number = Len(ticks) + 1
    OBVIOUS
  <1>3. PICK feed : feed = StreamMessages(assets, sides, now)
    OBVIOUS
  <1>4. /\ ClockInv' /\ Len(ticks) \in Nat /\ Now \in Nat /\ Now' = tick /\ tick \in Nat
        /\ Now <= tick /\ tick <= Now + 1
        /\ \A n \in 0..Len(ticks) : /\ TickOf(n)' = TickOf(n) /\ (SameTick(n) => SameTick(n)')
                                    /\ TickOf(n) <= Now /\ TickOf(n) \in Nat
        /\ TickOf(number)' = tick /\ (tick = Now => SameTick(number)') /\ Items' = Items
    BY <1>1, <1>2, ClockMoves
  <1>5. /\ MovesOn /\ \A i \in Items : Met(i)' \subseteq Met(i) \cup {now[i].at}
        /\ connected => /\ Says(feed, assets \cup PositionRows(sides, now), now, tick)
                        /\ \A m \in Range(feed) : Made(m)' /\ Fresh(m)'
    BY <1>1, <1>2, <1>3, ChangeMoves
  <1>6. /\ scope' = scope /\ mode' = mode /\ account' = now /\ now \in [Items -> Entries]
        /\ assets \in SUBSET Assets /\ sides \in SUBSET (Sides \cap Items)
        /\ \A i \in Items : IF i \in assets \cup sides THEN now[i].at = number
                            ELSE now[i] = account[i]
        /\ mode = "one_way" /\ sides # {} => \A s \in Sides \ sides : ~now[s].held
        /\ entries' = entries /\ cursors' = cursors /\ refresh' = refresh /\ torn \subseteq torn'
        /\ connected' = connected /\ lost \subseteq lost'
        /\ inbox' = IF connected THEN inbox \o feed ELSE inbox
        /\ scope = "futures" /\ refresh.phase = "balances" => number \in torn'
    BY <1>1, <1>2, <1>3 DEF ChangesTo
  <1>7. IF connected THEN \A i \in Unnamed(sides, now) : <<i, number>> \in lost'
        ELSE \A i \in assets \cup sides : <<i, number>> \in lost'
    BY <1>1, <1>2 DEF ChangesTo
  <1>8. /\ mode \in {"one_way", "hedge"} /\ StoreInv /\ InboxInv /\ CursorInv
        /\ inbox \in Seq(AccountMessages) /\ Len(inbox) \in Nat /\ DOMAIN inbox = 1..Len(inbox)
        /\ \A n \in DOMAIN inbox : inbox[n].sequence \in Nat /\ inbox[n].sequence <= Now
    BY MessageFacts DEF AccountInv, InboxInv, Made
  <1>9. ASSUME NEW i \in Items
        PROVE  /\ account[i].at \in 0..Len(ticks) /\ entries[i].at \in 0..Len(ticks)
               /\ entries[i].at <= account[i].at
               /\ now[i] = account[i] \/ now[i].at = number
    BY <1>6, MetFacts, ReadNow
  <1>10. ASSUME connected
         PROVE  /\ feed \in Seq(AccountMessages) /\ Len(feed) \in Nat
                /\ DOMAIN feed = 1..Len(feed)
                /\ inbox' \in Seq(AccountMessages) /\ DOMAIN inbox' = 1..Len(inbox) + Len(feed)
                /\ \A n \in 1..Len(inbox) : inbox'[n] = inbox[n]
                /\ \A n \in 1..Len(feed) : inbox'[Len(inbox) + n] = feed[n]
                /\ \A n \in 1..Len(feed) : feed[n].sequence = tick
    <2>1. feed \in Seq(AccountMessages) /\ \A n \in DOMAIN feed : feed[n].sequence = tick
      BY <1>5, <1>10 DEF Says, IsUpdate
    <2>2. inbox' = inbox \o feed
      BY <1>6, <1>10
    <2> QED
      BY <1>8, <2>1, <2>2
  <1>11. /\ inbox' \in Seq(AccountMessages) /\ DOMAIN inbox \subseteq DOMAIN inbox'
         /\ \A n \in DOMAIN inbox : inbox'[n] = inbox[n]
         /\ \A n \in DOMAIN inbox' \ DOMAIN inbox :
               inbox'[n] \in Range(feed) /\ inbox'[n].sequence = tick /\ connected
    <2>1. CASE connected
      <3>1. ASSUME NEW n \in DOMAIN inbox' \ DOMAIN inbox
            PROVE  inbox'[n] \in Range(feed) /\ inbox'[n].sequence = tick
        <4>1. n - Len(inbox) \in 1..Len(feed) /\ n = Len(inbox) + (n - Len(inbox))
          BY <1>8, <1>10, <2>1
        <4>2. inbox'[n] = feed[n - Len(inbox)]
          BY <1>10, <2>1, <4>1
        <4> QED
          BY <1>10, <2>1, <4>1, <4>2 DEF Range
      <3> QED
        BY <1>8, <1>10, <2>1, <3>1
    <2>2. CASE ~connected
      BY <1>6, <1>8, <2>2
    <2> QED
      BY <2>1, <2>2
  <1>12. InboxInv'
    <2>1. ASSUME NEW n \in DOMAIN inbox' PROVE Made(inbox[n])' /\ Fresh(inbox[n])'
      <3>1. PICK m : m = inbox'[n]
        OBVIOUS
      <3>2. Made(m)' /\ Fresh(m)'
        <4>1. CASE n \in DOMAIN inbox
          <5>1. m = inbox[n]
            BY <1>11, <3>1, <4>1
          <5>2. Made(m) /\ Fresh(m)
            BY <1>8, <4>1, <5>1 DEF InboxInv
          <5> QED
            BY <1>5, <5>2, MessageStays
        <4>2. CASE n \notin DOMAIN inbox
          BY <1>5, <1>11, <3>1, <4>2
        <4> QED
          BY <4>1, <4>2
      <3> QED
        BY <3>1, <3>2
    <2>2. \A n, k \in DOMAIN inbox' : n <= k => inbox'[n].sequence <= inbox'[k].sequence
      <3>1. ASSUME NEW n \in DOMAIN inbox', NEW k \in DOMAIN inbox', n <= k
            PROVE  inbox'[n].sequence <= inbox'[k].sequence
        <4>1. CASE k \in DOMAIN inbox
          <5>1. n \in DOMAIN inbox
            <6>1. n \in Nat /\ n >= 1
              BY <1>11
            <6> QED
              BY <1>8, <3>1, <4>1, <6>1
          <5> QED
            BY <1>8, <1>11, <3>1, <4>1, <5>1 DEF InboxInv
        <4>2. CASE k \notin DOMAIN inbox
          <5>1. inbox'[n].sequence <= tick
            BY <1>4, <1>8, <1>11
          <5> QED
            BY <1>11, <4>2, <5>1
        <4> QED
          BY <4>1, <4>2
      <3> QED
        BY <3>1
    <2>3. ASSUME NEW n \in DOMAIN inbox', NEW c \in inbox'[n].components,
                 NEW d \in inbox'[n].components, inbox'[n].sequence < cursors'[c]
          PROVE  inbox'[n].sequence < cursors'[d]
      <3>1. CASE n \in DOMAIN inbox
        BY <1>6, <1>8, <1>11, <2>3, <3>1 DEF InboxInv
      <3>2. CASE n \notin DOMAIN inbox
        <4>1. inbox'[n] \in AccountMessages /\ inbox'[n].sequence = tick
          BY <1>11, <3>2
        <4>2. c \in Components
          BY <4>1, MessageFacts
        <4>3. cursors[c] \in Int /\ cursors[c] <= Now
          BY <1>4, <1>8, <4>2 DEF StoreInv, NoCursor
        <4> QED
          BY <1>4, <1>6, <2>3, <4>1, <4>3
      <3> QED
        BY <3>1, <3>2
    <2>4. /\ connected' \in BOOLEAN /\ (inbox' # << >> => connected')
          /\ connected' => \A c \in Components : cursors'[c] # NoCursor
      <3>1. inbox' # << >> => connected
        BY <1>6, <1>8 DEF InboxInv
      <3> QED
        BY <1>6, <1>8, <3>1 DEF InboxInv
    <2> QED
      BY <1>11, <2>1, <2>2, <2>3, <2>4 DEF InboxInv
  <1>13. RefreshInv'
    <2>1. ASSUME refresh.phase = "balances", scope = "futures", NEW i \in Assets, NEW n \in Met(i)'
          PROVE  n \in Met(i) \/ n \in torn'
      <3>1. i \in Items
        BY <2>1 DEF Items
      <3>2. n \in Met(i) \/ n = now[i].at
        BY <1>5, <2>1, <3>1
      <3>3. account[i].at \in Met(i)
        BY <3>1, MetFacts
      <3> QED
        BY <1>6, <1>9, <2>1, <3>1, <3>2, <3>3
    <2> QED
      BY <1>5, <1>6, <2>1, RefreshRests
  <1>14. StoreInv'
    <2>1. \A i \in Items : /\ entries'[i].at <= account'[i].at
                           /\ entries'[i].at > 0 => TickOf(entries[i].at)' <= cursors[ComponentOf(i)]
      <3>1. ASSUME NEW i \in Items
            PROVE  /\ entries'[i].at <= account'[i].at
                   /\ entries'[i].at > 0 => TickOf(entries[i].at)' <= cursors[ComponentOf(i)]
        <4>1. PICK n \in 0..Len(ticks) : n = entries[i].at
          BY <1>9
        <4>2. TickOf(n)' = TickOf(n) /\ TickOf(entries[i].at)' = TickOf(n)'
          BY <1>4, <1>6, <4>1
        <4>3. entries[i].at > 0 => TickOf(n) <= cursors[ComponentOf(i)]
          BY <1>8, <4>1 DEF StoreInv
        <4>4. entries[i].at <= now[i].at
          BY <1>2, <1>4, <1>9, <4>1
        <4> QED
          BY <1>6, <4>2, <4>3, <4>4
      <3> QED
        BY <3>1
    <2>2. \A c \in Components : cursors[c] \in NoCursor..tick
      BY <1>4, <1>8 DEF StoreInv, NoCursor
    <2>3. \A i : ComponentOf(i)' = ComponentOf(i)
      BY DEF ComponentOf
    <2>4. cursors' \in [Components -> NoCursor..Now']
      BY <1>4, <1>6, <1>8, <2>2 DEF StoreInv
    <2> QED
      BY <1>4, <1>6, <1>8, <2>1, <2>3, <2>4 DEF StoreInv
  <1>15. ASSUME NEW i \in Items, i \notin assets \cup sides PROVE ItemHolds(i)'
    <2>1. PICK n \in 0..Len(ticks) : n = account[i].at
      BY <1>9
    <2>2. account'[i] = account[i] /\ ItemHolds(i)
      BY <1>6, <1>8, <1>15 DEF CursorInv
    <2>3. TickOf(account[i].at)' = TickOf(account[i].at)
      <3>1. TickOf(n)' = TickOf(n) /\ n = account'[i].at
        BY <1>4, <2>1, <2>2
      <3> QED
        BY <2>1, <3>1
    <2>4. Passed(i)' <=> Passed(i)
      BY <1>6, <2>3 DEF Passed, ComponentOf
    <2>5. Dropped(i) => Dropped(i)'
      <3>1. Excused(n) => Excused(n)'
        BY <1>4, <1>6 DEF Excused
      <3>2. Excused(account[i].at)' <=> Excused(n)'
        BY <2>1, <2>2
      <3>3. Excused(account[i].at) <=> Excused(n)
        BY <2>1
      <3> QED
        BY <1>6, <2>2, <3>1, <3>2, <3>3 DEF Dropped
    <2>6. Announced(i) => Announced(i)'
      <3>1. ASSUME Announced(i) PROVE Announced(i)'
        <4>1. PICK q \in DOMAIN inbox :
                 /\ i \in DOMAIN inbox[q].rows /\ inbox[q].rows[i].at = account[i].at
                 /\ \A k \in 1..q - 1 : ComponentOf(i) \in inbox[k].components =>
                       inbox[k].sequence < TickOf(account[i].at)
          BY <3>1 DEF Announced
        <4>2. \A k \in 1..q - 1 : k \in DOMAIN inbox
          BY <1>8, <4>1
        <4>3. \A k \in 1..q - 1 : ComponentOf(i) \in inbox'[k].components =>
                 inbox'[k].sequence < TickOf(account[i].at)'
          BY <1>11, <2>3, <4>1, <4>2
        <4>4. q \in DOMAIN inbox' /\ inbox'[q] = inbox[q]
          BY <1>11, <4>1
        <4>5. ComponentOf(i)' = ComponentOf(i)
          BY DEF ComponentOf
        <4> QED
          BY <2>2, <4>1, <4>3, <4>4, <4>5 DEF Announced
      <3> QED
        BY <3>1
    <2>7. /\ Passed(i) => entries[i] = account[i] \/ Dropped(i)
          /\ account[i].at > 0 /\ ~Passed(i) => Announced(i) \/ Dropped(i)
      BY <2>2 DEF ItemHolds
    <2> QED
      BY <1>6, <2>2, <2>4, <2>5, <2>6, <2>7 DEF ItemHolds
  <1>16. ASSUME NEW i \in Items, i \in assets \cup sides PROVE ItemHolds(i)'
    <2>1. account'[i].at = number /\ number > 0
      BY <1>2, <1>4, <1>6, <1>16
    <2>2. TickOf(account[i].at)' = tick
      BY <1>4, <2>1
    <2>3. ASSUME tick = Now PROVE Dropped(i)'
      <3>1. Excused(number)'
        BY <1>4, <2>1, <2>3 DEF Excused
      <3> QED
        BY <2>1, <3>1 DEF Dropped
    <2>4. ASSUME tick # Now PROVE ~Passed(i)'
      <3>1. PICK c \in Components : c = ComponentOf(i)
        BY ComponentFacts
      <3>2. cursors[c] \in Int /\ cursors[c] <= Now
        BY <1>4, <1>8 DEF StoreInv, NoCursor
      <3> QED
        BY <1>4, <1>6, <2>2, <2>4, <3>1, <3>2 DEF Passed, ComponentOf
    <2>5. ASSUME <<i, number>> \in lost' PROVE Dropped(i)'
      BY <2>1, <2>5 DEF Dropped
    <2>6. ASSUME tick # Now, connected, i \notin Unnamed(sides, now) PROVE Announced(i)'
      <3>1. i \in assets \cup PositionRows(sides, now)
        <4>1. CASE i \in assets
          BY <4>1
        <4>2. CASE i \in sides
          <5>1. CASE mode = "hedge"
            BY <4>2, <5>1 DEF PositionRows
          <5>2. CASE mode = "one_way"
            <6>1. \A s \in sides : now[s].held => now[i].held
              BY <2>6, <4>2, <5>2 DEF Unnamed
            <6>2. i \in Sides /\ sides # {}
              BY <1>6, <4>2
            <6>3. now[i].held \/ Flat(now)
              BY <1>6, <5>2, <6>1, <6>2 DEF Flat
            <6> QED
              BY <5>2, <6>2, <6>3 DEF PositionRows
          <5> QED
            BY <1>8, <5>1, <5>2
        <4> QED
          BY <1>16, <4>1, <4>2
      <3>2. PICK p \in DOMAIN feed :
               /\ i \in DOMAIN feed[p].rows
               /\ \A k \in 1..p - 1 : ComponentOf(i) \notin feed[k].components
        BY <1>5, <2>6, <3>1 DEF Says
      <3>3. feed[p].rows[i] = now[i]
        BY <1>5, <2>6, <3>2 DEF Says, IsUpdate
      <3>4. PICK q : q = Len(inbox) + p
        OBVIOUS
      <3>5. q \in DOMAIN inbox' /\ inbox'[q] = feed[p]
        BY <1>8, <1>10, <2>6, <3>2, <3>4
      <3>6. ASSUME NEW k \in 1..q - 1, ComponentOf(i) \in inbox'[k].components
            PROVE  inbox'[k].sequence < tick
        <4>1. CASE k \in DOMAIN inbox
          BY <1>4, <1>8, <1>11, <2>6, <4>1
        <4>2. CASE k \notin DOMAIN inbox
          <5>1. k - Len(inbox) \in 1..p - 1 /\ k = Len(inbox) + (k - Len(inbox))
            BY <1>8, <1>10, <2>6, <3>2, <3>4, <4>2
          <5>2. k - Len(inbox) \in 1..Len(feed)
            BY <1>8, <1>10, <2>6, <3>2, <5>1
          <5>3. inbox'[k] = feed[k - Len(inbox)]
            BY <1>10, <2>6, <5>1, <5>2
          <5> QED
            BY <3>2, <3>6, <5>1, <5>3
        <4> QED
          BY <4>1, <4>2
      <3>7. ComponentOf(i)' = ComponentOf(i)
        BY DEF ComponentOf
      <3> QED
        BY <1>6, <2>2, <3>2, <3>3, <3>5, <3>6, <3>7 DEF Announced
    <2>7. Dropped(i)' \/ (~Passed(i)' /\ Announced(i)')
      <3>1. CASE tick = Now
        BY <2>3, <3>1
      <3>2. CASE tick # Now /\ ~connected
        BY <1>7, <1>16, <2>5, <3>2
      <3>3. CASE tick # Now /\ connected
        BY <1>7, <2>4, <2>5, <2>6, <3>3
      <3> QED
        BY <3>1, <3>2, <3>3
    <2> QED
      BY <2>7 DEF ItemHolds
  <1>17. CursorInv'
    BY <1>4, <1>15, <1>16 DEF CursorInv
  <1> QED
    BY <1>4, <1>6, <1>8, <1>12, <1>13, <1>14, <1>17 DEF AccountInv

\* It holds at first.
LEMMA AccountStarts == AccountInit => AccountInv
  <1> SUFFICES ASSUME AccountInit PROVE AccountInv
    OBVIOUS
  <1>1. /\ scope \in {"spot", "futures", "bitget"} /\ mode \in {"one_way", "hedge"}
        /\ ticks = << >> /\ inbox = << >> /\ connected = FALSE /\ lost = {}
        /\ refresh = [phase |-> "idle", messages |-> << >>]
    BY AccountAssumption DEF AccountInit, Idle
  <1>2. /\ account = [i \in Items |-> [held |-> i \in Assets, at |-> 0]]
        /\ entries = [i \in Items |-> [held |-> FALSE, at |-> 0]]
        /\ cursors = [c \in Components |-> NoCursor]
    BY DEF AccountInit
  <1>3. /\ account \in [Items -> Entries] /\ \A i \in Items : account[i].at = 0
        /\ entries \in [Items -> Entries] /\ \A i \in Items : entries[i].at = 0
    <2>1. 0 \in 0..MaxChanges
      BY AccountAssumption
    <2>2. ASSUME NEW i \in Items
          PROVE  /\ account[i] \in Entries /\ account[i].at = 0
                 /\ entries[i] \in Entries /\ entries[i].at = 0
      <3>1. PICK b \in BOOLEAN : account[i] = [held |-> b, at |-> 0]
        <4>1. account[i] = [held |-> i \in Assets, at |-> 0]
          BY <1>2
        <4>2. (i \in Assets) \in BOOLEAN
          OBVIOUS
        <4> QED
          BY <4>1, <4>2, Zenon
      <3>2. PICK c \in BOOLEAN : entries[i] = [held |-> c, at |-> 0]
        BY <1>2, Zenon
      <3> QED
        BY <2>1, <3>1, <3>2 DEF Entries
    <2> QED
      BY <1>2, <2>2
  <1>4. Len(ticks) = 0 /\ DOMAIN ticks = {} /\ ticks \in Seq(Nat \ {0}) /\ Now = 0 /\ TickOf(0) = 0
    BY <1>1 DEF Now, TickOf
  <1>5. ClockInv
    BY <1>1, <1>3, <1>4, AccountAssumption DEF ClockInv
  <1>6. InboxInv
    <2>1. inbox \in Seq(AccountMessages)
      BY <1>1
    <2>2. DOMAIN inbox = {}
      BY <1>1
    <2>3. ~connected /\ connected \in BOOLEAN
      BY <1>1
    <2> QED
      BY <1>1, <2>1, <2>2, <2>3 DEF InboxInv
  <1>7. RefreshInv
    BY <1>1 DEF RefreshInv
  <1>8. StoreInv
    <2>1. NoCursor \in NoCursor..Now
      BY <1>4 DEF NoCursor
    <2>2. cursors["balances"] = NoCursor /\ cursors["positions"] = NoCursor
      BY <1>2 DEF Components
    <2> QED
      BY <1>2, <1>3, <2>1, <2>2 DEF StoreInv
  <1>9. CursorInv
    <2>1. ASSUME NEW i \in Items PROVE ItemHolds(i)
      <3>1. account[i].at = 0 /\ ~Passed(i)
        BY <1>2, <1>3, <1>4, ComponentFacts DEF Passed, NoCursor
      <3> QED
        BY <3>1 DEF ItemHolds
    <2> QED
      BY <2>1 DEF CursorInv
  <1> QED
    BY <1>1, <1>5, <1>6, <1>7, <1>8, <1>9 DEF AccountInv

\* It does not change while nothing does.
LEMMA AccountStutters == AccountInv /\ UNCHANGED accountVars => AccountInv'
  <1> SUFFICES ASSUME AccountInv, UNCHANGED accountVars PROVE AccountInv'
    OBVIOUS
  <1>1. UNCHANGED <<scope, mode, account, ticks, inbox, connected, refresh, entries, cursors, lost, torn>>
    BY DEF accountVars
  <1>2. \A i \in Items : Met(i)' \subseteq Met(i)
    BY <1>1 DEF Met, Naming, Sent, Range
  <1>3. RefreshInv'
    <2>1. MovesOn /\ \A i \in Assets : scope = "futures" => i \in Items
      BY <1>1, <1>2, RestMovesOn DEF Items
    <2> QED
      BY <1>1, <1>2, <2>1, RefreshRests
  <1> QED
    BY <1>1, <1>2, <1>3, RefreshStep

\* It holds after every step.
LEMMA AccountKeeps == AccountInv /\ [AccountNext]_accountVars => AccountInv'
  <1> SUFFICES ASSUME AccountInv, [AccountNext]_accountVars PROVE AccountInv'
    OBVIOUS
  <1>1. CASE AccountChanges
    BY <1>1, AccountChangesKeeps
  <1>2. CASE ConnectPrivate
    BY <1>2, ConnectPrivateKeeps
  <1>3. CASE DisconnectPrivate
    BY <1>3, DisconnectPrivateKeeps
  <1>4. CASE HandlePrivate
    BY <1>4, HandlePrivateKeeps
  <1>5. CASE LoadSpot
    BY <1>5, LoadSpotKeeps
  <1>6. CASE LoadBalances
    BY <1>6, LoadBalancesKeeps
  <1>7. CASE LoadPositions
    BY <1>7, LoadPositionsKeeps
  <1>8. CASE LoadApply
    BY <1>8, LoadApplyKeeps
  <1>9. CASE LoadFails
    BY <1>9, LoadFailsKeeps
  <1>10. CASE UNCHANGED accountVars
    BY <1>10, AccountStutters
  <1> QED
    BY <1>1, <1>2, <1>3, <1>4, <1>5, <1>6, <1>7, <1>8, <1>9, <1>10 DEF AccountNext

\* The inductive invariant of the account store, for any assets and any number of
\* changes, refreshes and lost connections: messages say what was true no earlier than
\* anything they do not say, and what a cursor has passed is in the store
\* (AccountStateStore, LiveDataWorker._load_accounts and handle_private_message).
THEOREM AccountInvariance == AccountSpec => []AccountInv
  BY AccountStarts, AccountKeeps, PTL DEF AccountSpec

\* A change of the account is in the store, or on its way to it, or was lost in one of
\* the four ways that NothingElseIsLost names (AccountStateStore.apply and _decision).
THEOREM NothingElseLost == AccountSpec => []NothingElseIsLost
  <1>1. AccountInv => NothingElseIsLost
    <2> SUFFICES ASSUME AccountInv, cursors["balances"] # NoCursor, NEW i \in Items
                 PROVE  \/ entries[i] = account[i]
                        \/ OnItsWay(i)
                        \/ <<i, account[i].at>> \in lost
                        \/ account[i].at \in torn
                        \/ account[i].at > 0 /\ SameTick(account[i].at)
      BY DEF NothingElseIsLost
    <2>1. PICK c \in Components : c = ComponentOf(i)
      BY ComponentFacts
    <2>2. cursors[c] \in Nat
      BY DEF AccountInv, StoreInv, Components, NoCursor
    <2>3. ItemHolds(i) /\ account[i].at \in Nat /\ (account[i].at = 0 => TickOf(account[i].at) = 0)
      BY ClockFacts DEF AccountInv, CursorInv
    <2>4. account[i].at > 0 \/ Passed(i)
      BY <2>1, <2>2, <2>3 DEF Passed
    <2>5. entries[i] = account[i] \/ Announced(i) \/ Dropped(i)
      BY <2>3, <2>4 DEF ItemHolds
    <2>6. Announced(i) => OnItsWay(i)
      BY DEF Announced, OnItsWay
    <2> QED
      BY <2>5, <2>6 DEF Dropped, Excused
  <1> QED
    BY <1>1, AccountInvariance, PTL

\* Whatever order snapshots and updates come in, no value of the store gives way to an
\* older one, but for the two exceptions that NothingGoesBack names: a message is applied
\* only where it is no older than the cursor, and the cursor is no older than what is
\* stored (AccountStateStore._decision).
THEOREM NothingGoesBackward == AccountSpec => NothingGoesBack
  <1> DEFINE Forward(i) == \/ entries'[i].at >= entries[i].at
                           \/ entries[i].at \in torn
                           \/ entries[i].at > 0 /\ SameTick(entries[i].at)
  <1>1. ASSUME AccountInv, [AccountNext]_accountVars, NEW i \in Items
        PROVE  Forward(i)
    <2>1. /\ StoreInv /\ Now \in Nat /\ Len(ticks) \in Nat
          /\ entries[i].at \in 0..Len(ticks) /\ entries[i].at \in Met(i)
          /\ TickOf(entries[i].at) \in Nat
      BY <1>1, ClockFacts, MetFacts DEF AccountInv
    <2>2. CASE entries' = entries
      BY <2>1, <2>2
    <2>3. ASSUME NEW messages, Applies(messages) PROVE Forward(i)
      <3>1. PICK c \in Components : c = ComponentOf(i)
        BY ComponentFacts
      <3>2. \A n \in DOMAIN messages : messages[n] \in Sent /\ Made(messages[n])
        BY <1>1, <2>3, SentFacts DEF Applies, Range
      <3>3. LeftAlone(c) \/ \E n \in DOMAIN messages : AppliedTo(c, messages[n])
        BY <2>3, <3>2, ApplyIs DEF Applies
      <3>4. CASE LeftAlone(c)
        BY <2>1, <3>1, <3>4 DEF LeftAlone
      <3>5. CASE \E n \in DOMAIN messages : AppliedTo(c, messages[n])
        <4>1. PICK m \in Sent : AppliedTo(c, m)
          BY <3>2, <3>5
        <4>2. m \in AccountMessages /\ Made(m) /\ Fresh(m) /\ m.sequence \in Nat
          BY <1>1, SentFacts, MessageFacts
        <4>3. cursors[c] <= m.sequence /\ cursors[c] \in Int
          BY <2>1, <3>1, <4>1, <4>2, DecisionIs DEF AppliedTo, StoreInv, NoCursor
        <4>4. entries'[i] = IF i \in DOMAIN m.rows THEN m.rows[i] ELSE entries[i]
          BY <3>1, <4>1 DEF AppliedTo
        <4>5. CASE i \notin DOMAIN m.rows
          BY <2>1, <4>4, <4>5
        <4>6. CASE i \in DOMAIN m.rows
          <5>1. m.rows[i].at \in Nat
            BY <4>2, <4>6, MessageFacts
          <5>2. CASE m.rows[i].at >= entries[i].at
            BY <4>4, <4>6, <5>2
          <5>3. CASE entries[i].at > m.rows[i].at
            <6>1. m.sequence < TickOf(entries[i].at) \/ Excused(entries[i].at)
              BY <2>1, <4>2, <4>6, <5>3 DEF Fresh
            <6>2. TickOf(entries[i].at) <= cursors[c]
              BY <2>1, <3>1, <5>1, <5>3 DEF StoreInv
            <6> QED
              BY <2>1, <4>2, <4>3, <6>1, <6>2 DEF Excused
          <5> QED
            BY <2>1, <5>1, <5>2, <5>3
        <4> QED
          BY <4>5, <4>6
      <3> QED
        BY <3>3, <3>4, <3>5
    <2>4. CASE HandlePrivate
      BY <1>1, <2>3, <2>4, HandlePrivateKeeps
    <2>5. CASE LoadApply
      BY <1>1, <2>3, <2>5, LoadApplyKeeps
    <2>6. CASE AccountChanges
      <3>1. entries' = entries
        <4>1. \E assets, sides, now, tick : ChangesTo(assets, sides, now, tick)
          BY <1>1, <2>6, ChangeIs
        <4> QED
          BY <4>1 DEF ChangesTo
      <3> QED
        BY <2>2, <3>1
    <2>7. CASE ConnectPrivate \/ DisconnectPrivate \/ LoadSpot \/ LoadBalances \/ LoadFails
      <3>1. entries' = entries
        BY <2>7 DEF ConnectPrivate, DisconnectPrivate, LoadSpot, LoadBalances, LoadFails
      <3> QED
        BY <2>2, <3>1
    <2>8. CASE LoadPositions
      <3>1. entries' = entries
        BY <2>8 DEF LoadPositions
      <3> QED
        BY <2>2, <3>1
    <2>9. CASE UNCHANGED accountVars
      <3>1. entries' = entries
        BY <2>9 DEF accountVars
      <3> QED
        BY <2>2, <3>1
    <2> QED
      BY <1>1, <2>4, <2>5, <2>6, <2>7, <2>8, <2>9 DEF AccountNext
  <1>2. AccountInv /\ [AccountNext]_accountVars =>
           [\A i \in Items : \/ entries'[i].at >= entries[i].at
                             \/ entries[i].at \in torn
                             \/ entries[i].at > 0 /\ SameTick(entries[i].at)]_accountVars
    BY <1>1
  <1> QED
    BY <1>2, AccountInvariance, PTL DEF AccountSpec, NothingGoesBack

\* What the store and its messages hold is what they are for, and a cursor stays behind the
\* exchange's clock (AccountStateStore, PrivateAccountUpdate).
THEOREM AccountTypes == AccountSpec => []AccountTypeOK
  <1>1. AccountInv => AccountTypeOK
    <2> SUFFICES ASSUME AccountInv PROVE AccountTypeOK
      OBVIOUS
    <2>1. /\ account \in [Items -> Entries] /\ entries \in [Items -> Entries]
          /\ cursors \in [Components -> NoCursor..Now] /\ connected \in BOOLEAN
      BY DEF AccountInv, ClockInv, StoreInv, InboxInv
    <2>2. refresh.phase \in {"idle", "balances", "read"}
      BY DEF AccountInv, RefreshInv
    <2>3. \A n \in DOMAIN inbox : DOMAIN inbox[n].rows \subseteq Items
      BY DEF AccountInv, InboxInv, Made
    <2> QED
      BY <2>1, <2>2, <2>3 DEF AccountTypeOK
  <1> QED
    BY <1>1, AccountInvariance, PTL

=============================================================================

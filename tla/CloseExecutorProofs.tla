------------------------- MODULE CloseExecutorProofs -------------------------
(***************************************************************************)
(* Proofs about CloseExecutor, for any quantities, trading rules, fills,   *)
(* attempts, restarts and failed journal writes: over all attempts the     *)
(* orders close no more than the position holds, a final result says what  *)
(* the exchanges have left open, and a closed position is flat.            *)
(***************************************************************************)
EXTENDS CloseExecutor, ExecutionWorkerProofs, WellFoundedInduction

\* The stages of a task, and those in which it works on the plan.
Placing == {"advance", "deferring", "sent", "record", "recorded"}
Ending == {"complete", "completing"}
PlanStages == Placing \cup Ending \cup {"registering", "refresh", "refreshing", "noting"}
ServiceStages == {"deferring", "sent", "recorded", "registering", "completing",
                  "noting", "noted", "refreshing", "querying"}
Stages == PlanStages \cup {"free", "noted", "querying"}

\* The task and the service agree on who is at work, and on which leg.
TaskInv ==
    /\ task = Task(task.stage, task.leg, task.confirm, task.defer, task.restoring)
    /\ task.stage \in Stages
    /\ task.stage \in PlanStages \ {"noting"} => task.leg \in Legs
    /\ task.stage \in PlanStages => plan.known
    /\ task.stage \in ServiceStages <=> call[Pool].phase # "idle"
    /\ call[Pool].phase \in {"create", "sent"} =>
          task.stage = "sent" /\ call[Pool].key = Key(task.leg)
    /\ call[Pool].phase \in {"query", "asked"} =>
          \/ task.stage = "querying"
          \/ /\ task.stage \in {"sent", "refreshing"}
             /\ call[Pool].key = Key(task.leg) /\ call[Pool].batch = {}
    /\ recovery \in {"none", "query", "restore", "leave", "stuck"}

\* What the plan holds has its type.
PlanInv ==
    /\ plan = [known |-> plan.known, attempt |-> plan.attempt, order |-> plan.order,
               seen |-> plan.seen]
    /\ plan.order \in [Legs -> Orders \cup {NoOrder}]
    /\ plan.seen \in [Legs -> Orders \cup {NoOrder}]
    /\ plan.known => plan.attempt \in 1..attempt

\* Every attempt began with a part of the position that passes the preflight, and
\* those to come have touched nothing yet.
BaseInv ==
    /\ opened \in Opened /\ attempt \in 0..MaxAttempts
    /\ base \in [Attempts -> [Legs -> Nat]]
    /\ \A n \in 1..attempt :
          /\ \A l \in Legs : base[n][l] <= opened
          /\ \E l \in Legs : base[n][l] > 0
          /\ Passes(base[n])
    /\ \A n \in Attempts, l \in Legs : n > attempt =>
          /\ base[n][l] = 0
          /\ creates[KeyOf[l][n]] = << >> /\ orders[KeyOf[l][n]] = NoOrder
          /\ KeyOf[l][n] \notin attempted

\* An id is asked for one quantity, in whatever names it, and the exchange fills
\* no more.
AskedInv == \A n \in Attempts, l \in Legs :
    LET k == KeyOf[l][n]
        q == Prepared(base[n][l])
    IN
    /\ {requests[k], submitted[k], journal.orders[k]} \subseteq {NoRequest, q}
    /\ submitted[k] # NoRequest => requests[k] # NoRequest
    /\ k \in attempted => requests[k] # NoRequest

FillInv == \A n \in Attempts, l \in Legs :
    LET k == KeyOf[l][n] IN
    /\ market[k].filled <= Prepared(base[n][l])
    /\ market[k].status \notin {"none", "filled"} =>
          market[k].filled < Prepared(base[n][l])

\* Every order the program holds is one the exchange has had, and the service
\* has seen what the plan holds.
OrdersPast ==
    /\ \A k \in Keys : orders[k] \in Past(k) \cup {NoOrder}
    /\ plan.known => \A l \in Legs :
          /\ {plan.order[l], plan.seen[l]} \subseteq Past(Key(l)) \cup {NoOrder}
          /\ plan.order[l] # NoOrder => orders[Key(l)] # NoOrder

\* So is every order the service is about to answer with.
AnswerPast ==
    /\ AskedPast
    /\ /\ task.stage \in {"sent", "refreshing"}
       /\ call[Pool].phase = "done" /\ call[Pool].result = "order"
       => call[Pool].order \in Past(Key(task.leg)) /\ orders[Key(task.leg)] # NoOrder

\* A leg is recorded when it has an order.
RecordPast == task.stage \in {"record", "recorded"} => plan.order[task.leg] # NoOrder

\* A final result, in which no order is awaited.
Final(r) == r # NoResult /\ r.status \notin PendingResults

\* The context of an attempt: a request for each leg with something left.
Context(n) == [kind |-> "close",
               requests |-> {RequestFor(l, n, base[n]) : l \in {m \in Legs : base[n][m] > 0}},
               confirm |-> FALSE]
Contexted(context) == context = NoContext \/ \E n \in 1..attempt : context = Context(n)

\* The context, in the memory and in the file, is that of an attempt.
NamedInv ==
    /\ Contexted(contexts[Plan]) /\ Contexted(journal.contexts[Plan])
    /\ plan.known => contexts[Plan] \in {NoContext, Context(plan.attempt)}
    /\ recovery = "restore" =>
          plan.known \/ contexts[Plan] # NoContext \/ Final(result)
    /\ task.stage \in Ending => Final(result)
    /\ task.stage # "deferring"

\* A leg is placed when something is left of it, and the second one on the word of a
\* filled first one.
PlacedInv == \A n \in Attempts, l \in Legs :
    creates[KeyOf[l][n]] # << >> =>
        /\ base[n][l] > 0
        /\ l = "second" /\ base[n]["first"] > 0 =>
              market[KeyOf["first"][n]].status = "filled"

\* A task works on a leg that is needed, and on the second one after the first.
FirstDone == Needed("first") => plan.order["first"].status = "filled"
FollowInv ==
    /\ task.stage \in Placing /\ task.leg = "second" => FirstDone
    /\ task.stage \in Placing /\ (task.leg = "first" \/ task.stage # "advance")
       => Needed(task.leg)
    /\ task.stage = "registering" => task.leg = FirstLeg(base[plan.attempt])

\* A submission that fails was made, and has left nothing behind.
FailInv == task.stage = "sent" /\ call[Pool].phase = "done" /\ Answer \in Failures
           => Settled(Key(task.leg)) /\ Key(task.leg) \in attempted

\* What an attempt began with is what all the others have left of the position, and
\* only its own orders may still trade.
Others(leg, n) == \A m \in Attempts \ {n} : ~MaybeLive(KeyOf[leg][m])
Whole(n) == \A l \in Legs :
    /\ base[n][l] + Filled(l) - market[KeyOf[l][n]].filled = opened
    /\ Others(l, n)

\* That holds of every attempt the program may still go on with: the one of the plan,
\* and those the memory or the file would restore.
WholeInv == \A n \in 1..attempt :
    \/ plan.known /\ plan.attempt = n
    \/ contexts[Plan] = Context(n)
    \/ journal.contexts[Plan] = Context(n)
    => Whole(n)

\* A plan that is over is at rest, and whatever task still runs for it finds each leg
\* it comes to with an order, or attempted.
AtRest == \A k \in Keys : ~MaybeLive(k)
Ended == plan.known /\ (contexts[Plan] = NoContext \/ Final(result))
Reached(leg) ==
    /\ Needed(leg)
    /\ leg = "second" /\ Needed("first") => market[Key("first")].status = "filled"
Tried(leg) == plan.order[leg] # NoOrder \/ Key(leg) \in attempted
OverInv ==
    /\ Ended => AtRest /\ \A l \in Legs : Reached(l) => Tried(l)
    /\ call[Pool].phase \in {"create", "sent"} => ~Ended
    /\ call[Pool].phase = "create" => journal.contexts[Plan] = contexts[Plan]

\* What a result means.
ResultInv ==
    /\ result = Result(result.status, result.remaining, result.position)
    /\ result.remaining \in [Legs -> Int]
    /\ result.status \in RetryableResults => \E l \in Legs : result.remaining[l] # 0
    /\ result.position = "closed" =>
          result.status = "completed" /\ \A l \in Legs : result.remaining[l] = 0
    /\ result.position \in {"open", "close_failed"} =>
          result.status \in RetryableResults \cup {"preflight_failed"}
    /\ result.status = "none" => result = NoResult
    /\ result.status = "preflight_failed" => ~plan.known

\* The position as the presenter shows it before anything happened.
Untouched == Result("none", [l \in Legs |-> opened], "open")

\* The presenter shows a position that may be closed only before the first attempt,
\* or after one that may be retried.
ShownInv == \A r \in {posted, shown} :
    r.position \in {"open", "close_failed"} /\ r.status \notin RetryableResults =>
        \/ result.status = "preflight_failed"
        \/ /\ r = shown /\ r = Untouched
           /\ result # NoResult \/ contexts[Plan] # NoContext \/ attempt = 0

CloseInv == /\ IInv
            /\ TaskInv /\ PlanInv /\ BaseInv /\ AskedInv /\ FillInv
            /\ OrdersPast /\ AnswerPast /\ RecordPast
            /\ NamedInv /\ PlacedInv /\ FollowInv /\ SettledInv /\ FailInv
            /\ WholeInv /\ OverInv /\ ResultInv /\ ShownInv
            /\ NeverOverclosed /\ RemainingIsTrue /\ ClosedIsFlat

-----------------------------------------------------------------------------
(* Sums over the attempts *)

\* sum holds the sums of amount up to each attempt.
Sums(sum, amount, n) ==
    sum = [i \in 0..n |-> IF i = 0 THEN 0 ELSE sum[i - 1] + amount[i]]

\* A set of naturals has a least element.
LEMMA LeastExists ==
    ASSUME NEW S \in SUBSET Nat, S # {}
    PROVE  \E m \in S : \A k \in S : m <= k
  <1> DEFINE R == OpToRel(<, Nat)
  <1>1. IsWellFoundedOn(R, Nat)
    BY NatLessThanWellFounded
  <1> HIDE DEF R
  <1>2. PICK x \in S : \A y \in S : ~ (<<y, x>> \in R)
    BY <1>1, WFMin
  <1>3. \A m, k \in Nat : k < m => <<k, m>> \in R
    BY DEF R, OpToRel
  <1>4. ASSUME NEW k \in S PROVE x <= k
    <2>1. k \in Nat /\ x \in Nat /\ ~(k < x)
      BY <1>2, <1>3
    <2> QED
      BY <2>1
  <1> QED
    BY <1>4

\* There are sums, up to any attempt.
LEMMA SumsExist ==
    ASSUME NEW amount
    PROVE  \E sum : Sums(sum, amount, MaxAttempts)
  <1> DEFINE Missing == {n \in 0..MaxAttempts : ~ \E sum : Sums(sum, amount, n)}
  <1>1. MaxAttempts \in Nat
    BY CloseAssumption
  <1>2. ASSUME Missing # {} PROVE FALSE
    <2>0. Missing \in SUBSET Nat
      BY <1>1
    <2>1. PICK n \in Missing : \A i \in Missing : n <= i
      BY <1>2, <2>0, LeastExists
    <2>2. n \in 0..MaxAttempts /\ ~ \E sum : Sums(sum, amount, n)
      BY <2>1
    <2>3. CASE n = 0
      <3>1. Sums([i \in 0..0 |-> 0], amount, 0)
        BY DEF Sums
      <3> QED
        BY <2>2, <2>3, <3>1
    <2>4. CASE n > 0
      <3>1. n - 1 \in 0..MaxAttempts /\ n - 1 \notin Missing
        BY <1>1, <2>1, <2>2, <2>4
      <3>2. PICK sum : Sums(sum, amount, n - 1)
        BY <3>1
      <3> DEFINE longer == [i \in 0..n |-> IF i = n THEN sum[n - 1] + amount[n] ELSE sum[i]]
      <3>3. ASSUME NEW i \in 0..n
            PROVE  longer[i] = IF i = 0 THEN 0 ELSE longer[i - 1] + amount[i]
        <4>1. CASE i = n
          BY <2>2, <2>4, <4>1
        <4>2. CASE i # n
          <5>1. i \in 0..n - 1 /\ longer[i] = sum[i] /\ (i # 0 => longer[i - 1] = sum[i - 1])
            BY <2>2, <4>2
          <5>2. sum[i] = IF i = 0 THEN 0 ELSE sum[i - 1] + amount[i]
            BY <3>2, <5>1 DEF Sums
          <5> QED
            BY <5>1, <5>2
        <4> QED
          BY <4>1, <4>2
      <3>4. longer = [i \in 0..n |-> longer[i]]
        OBVIOUS
      <3> HIDE DEF longer
      <3>5. Sums(longer, amount, n)
        BY <3>3, <3>4 DEF Sums
      <3> QED
        BY <2>2, <3>5
    <2> QED
      BY <2>2, <2>3, <2>4
  <1> QED
    BY <1>1, <1>2

\* Total is what such sums end with.
LEMMA TotalIs ==
    ASSUME NEW amount
    PROVE  \E sum : Sums(sum, amount, MaxAttempts) /\ Total(amount) = sum[MaxAttempts]
  <1> DEFINE sum == CHOOSE s : Sums(s, amount, MaxAttempts)
  <1>1. Sums(sum, amount, MaxAttempts)
    BY SumsExist
  <1>2. Total(amount) = sum[MaxAttempts]
    BY DEF Total, Sums
  <1> QED
    BY <1>1, <1>2

\* A relation that holds between the sums up to one attempt and up to the next
\* holds at the end: a sum that is never above the other, but for a shift from one
\* attempt on.
LEMMA TotalShift ==
    ASSUME NEW f \in [Attempts -> Int], NEW g \in [Attempts -> Int], NEW c \in Attempts,
           \A n \in Attempts \ {c} : g[n] <= f[n]
    PROVE  /\ Total(f) \in Int /\ Total(g) \in Int
           /\ Total(g) <= Total(f) + g[c] - f[c]
  <1>1. MaxAttempts \in Nat \ {0} /\ c \in 1..MaxAttempts
    BY CloseAssumption DEF Attempts
  <1>2. PICK F : Sums(F, f, MaxAttempts) /\ Total(f) = F[MaxAttempts]
    BY TotalIs
  <1>3. PICK G : Sums(G, g, MaxAttempts) /\ Total(g) = G[MaxAttempts]
    BY TotalIs
  <1> DEFINE Below(n) == /\ F[n] \in Int /\ G[n] \in Int
                         /\ n < c => G[n] <= F[n]
                         /\ n >= c => G[n] <= F[n] + g[c] - f[c]
             Wrong == {n \in 0..MaxAttempts : ~Below(n)}
  <1>4. ASSUME Wrong # {} PROVE FALSE
    <2>0. Wrong \in SUBSET Nat
      BY <1>1
    <2>1. PICK n \in Wrong : \A i \in Wrong : n <= i
      BY <1>4, <2>0, LeastExists
    <2>2. n \in 0..MaxAttempts /\ ~Below(n)
      BY <2>1
    <2>3. CASE n = 0
      <3>1. F[0] = 0 /\ G[0] = 0
        BY <1>1, <1>2, <1>3 DEF Sums
      <3> QED
        BY <1>1, <2>2, <2>3, <3>1
    <2>4. CASE n > 0
      <3>1. n - 1 \in 0..MaxAttempts /\ n - 1 \notin Wrong /\ n \in Attempts
        BY <1>1, <2>0, <2>1, <2>2, <2>4 DEF Attempts
      <3>2. Below(n - 1)
        BY <3>1
      <3>3. /\ F[n] = F[n - 1] + f[n]
            /\ G[n] = G[n - 1] + g[n]
        <4>1. F[n] = IF n = 0 THEN 0 ELSE F[n - 1] + f[n]
          BY <1>2, <2>2 DEF Sums
        <4>2. G[n] = IF n = 0 THEN 0 ELSE G[n - 1] + g[n]
          BY <1>3, <2>2 DEF Sums
        <4> QED
          BY <2>2, <2>4, <4>1, <4>2
      <3>4. f[n] \in Int /\ g[n] \in Int /\ f[c] \in Int /\ g[c] \in Int
        BY <3>1
      <3>5. n # c => g[n] <= f[n]
        BY <3>1
      <3> QED
        BY <1>1, <2>2, <2>4, <3>2, <3>3, <3>4, <3>5
    <2> QED
      BY <2>2, <2>3, <2>4
  <1>5. Below(MaxAttempts)
    BY <1>1, <1>4
  <1> QED
    BY <1>1, <1>2, <1>3, <1>5

\* What differs in one attempt only changes the total by that difference.
LEMMA TotalChange ==
    ASSUME NEW f \in [Attempts -> Int], NEW g \in [Attempts -> Int], NEW c \in Attempts,
           \A n \in Attempts \ {c} : g[n] = f[n]
    PROVE  Total(f) \in Int /\ Total(g) \in Int /\ Total(g) - g[c] = Total(f) - f[c]
  <1>1. \A n \in Attempts \ {c} : g[n] \in Int /\ f[n] \in Int /\ g[n] <= f[n] /\ f[n] <= g[n]
    OBVIOUS
  <1>2. /\ Total(f) \in Int /\ Total(g) \in Int
        /\ Total(g) <= Total(f) + g[c] - f[c]
        /\ Total(f) <= Total(g) + f[c] - g[c]
    BY <1>1, TotalShift
  <1>3. f[c] \in Int /\ g[c] \in Int
    OBVIOUS
  <1> QED
    BY <1>2, <1>3

\* What is nowhere larger is not larger in total.
LEMMA TotalBelow ==
    ASSUME NEW f \in [Attempts -> Int], NEW g \in [Attempts -> Int],
           \A n \in Attempts : g[n] <= f[n]
    PROVE  Total(f) \in Int /\ Total(g) \in Int /\ Total(g) <= Total(f)
  <1>1. 1 \in Attempts
    BY CloseAssumption DEF Attempts
  <1>2. /\ Total(f) \in Int /\ Total(g) \in Int
        /\ Total(g) <= Total(f) + g[1] - f[1]
    BY <1>1, TotalShift
  <1>3. f[1] \in Int /\ g[1] \in Int /\ g[1] <= f[1]
    BY <1>1
  <1> QED
    BY <1>2, <1>3

\* Nothing adds up to nothing.
LEMMA TotalOfNothing == Total([n \in Attempts |-> 0]) = 0
  <1> DEFINE zero == [n \in Attempts |-> 0]
  <1>1. MaxAttempts \in Nat
    BY CloseAssumption
  <1>2. PICK sum : Sums(sum, zero, MaxAttempts) /\ Total(zero) = sum[MaxAttempts]
    BY TotalIs
  <1> DEFINE Wrong == {n \in 0..MaxAttempts : sum[n] # 0}
  <1>3. ASSUME Wrong # {} PROVE FALSE
    <2>0. Wrong \in SUBSET Nat
      BY <1>1
    <2>1. PICK n \in Wrong : \A i \in Wrong : n <= i
      BY <1>3, <2>0, LeastExists
    <2>2. n \in 0..MaxAttempts /\ sum[n] # 0
      BY <2>1
    <2>3. sum[n] = IF n = 0 THEN 0 ELSE sum[n - 1] + zero[n]
      BY <1>2, <2>2 DEF Sums
    <2>4. n > 0 /\ n \in Attempts /\ n - 1 \in 0..MaxAttempts /\ n - 1 \notin Wrong
      BY <1>1, <2>0, <2>1, <2>2, <2>3 DEF Attempts
    <2>5. sum[n - 1] = 0 /\ zero[n] = 0
      BY <2>4
    <2> QED
      BY <2>2, <2>3, <2>4, <2>5
  <1> QED
    BY <1>1, <1>2, <1>3

-----------------------------------------------------------------------------
(* Ids, attempts and their contexts *)

\* Each leg has an id of its own in each attempt, and there are no others.
LEMMA KeyFacts ==
    /\ \A l \in Legs, n \in Attempts : KeyOf[l][n] \in Keys
    /\ \A k \in Keys : \E l \in Legs, n \in Attempts : KeyOf[l][n] = k
    /\ \A l, m \in Legs, n, p \in Attempts : KeyOf[l][n] = KeyOf[m][p] => l = m /\ n = p
  BY CloseAssumption

\* What was asked for with an id is what its attempt began with, rounded down.
LEMMA AskedIs ==
    ASSUME NEW l \in Legs, NEW n \in Attempts
    PROVE  /\ Asked(KeyOf[l][n]) = Prepared(base[n][l])
           /\ Asked(KeyOf[l][n])' = Prepared(base'[n][l])
  <1> DEFINE k == KeyOf[l][n]
             p == CHOOSE i \in Attempts : \E m \in Legs : KeyOf[m][i] = k
             m == CHOOSE i \in Legs : KeyOf[i][p] = k
  <1>1. p = n
    BY KeyFacts
  <1>2. m = l
    BY <1>1, KeyFacts
  <1> QED
    BY <1>1, <1>2 DEF Asked

\* Rounding down gives no more.
LEMMA PreparedBelow ==
    ASSUME NEW q \in Nat
    PROVE  /\ Prepared(q) \in Nat /\ Prepared(q) <= q /\ Prepared(0) = NoRequest
           /\ Preparable(q) => Prepared(q) # NoRequest /\ q > 0
  <1>1. QuantityStep \in Nat \ {0} /\ MinimumQuantity \in Nat \ {0}
    BY ServiceAssumption
  <1>2. q % QuantityStep \in Nat /\ 0 % QuantityStep = 0 /\ Prepared(q) \in Nat
    BY <1>1, PreparedTwice
  <1> QED
    BY <1>1, <1>2 DEF Prepared, Preparable, NoRequest

\* The attempt of a known plan, and the ids of its legs.
LEMMA PlanKey ==
    ASSUME PlanInv, BaseInv, plan.known, NEW l \in Legs
    PROVE  /\ plan.attempt \in 1..attempt /\ plan.attempt \in Attempts
           /\ Key(l) = KeyOf[l][plan.attempt] /\ Key(l) \in Keys
           /\ Remains(l) = base[plan.attempt][l] /\ Remains(l) \in Nat
  <1>1. plan.attempt \in 1..attempt /\ attempt \in 0..MaxAttempts /\ MaxAttempts \in Nat
    BY CloseAssumption DEF PlanInv, BaseInv
  <1>2. plan.attempt \in Attempts
    BY <1>1 DEF Attempts
  <1> QED
    BY <1>1, <1>2, KeyFacts DEF Key, Remains, BaseInv

\* The attempts so far are some of those there may be.
LEMMA AttemptType ==
    ASSUME BaseInv, NEW n \in 1..attempt
    PROVE  /\ n \in Attempts /\ n \in Nat /\ attempt \in Nat
           /\ \A l \in Legs : base[n][l] \in Nat
  BY CloseAssumption DEF BaseInv, Attempts

\* What a leg may ask for of a part of the position is a request.
LEMMA RequestType ==
    ASSUME NEW n \in Attempts, NEW remaining \in [Legs -> Nat], opened \in Opened,
           Passes(remaining), NEW l \in Legs, remaining[l] \in 1..opened
    PROVE  /\ RequestFor(l, n, remaining) \in Requests
           /\ RequestFor(l, n, remaining).key = KeyOf[l][n]
           /\ RequestFor(l, n, remaining).quantity = Prepared(remaining[l])
           /\ Preparable(remaining[l])
  <1>1. remaining[l] > 0 /\ Preparable(remaining[l])
    <2>1. opened \in Nat
      BY CloseAssumption
    <2> QED
      BY <2>1 DEF Passes
  <1>2. Prepared(remaining[l]) \in Quantities
    BY <1>1, PartAssumption
  <1> QED
    BY <1>1, <1>2, KeyFacts DEF RequestFor, Requests

\* The same of a leg that a known plan needs.
LEMMA PlanRequest ==
    ASSUME PlanInv, BaseInv, plan.known, NEW l \in Legs, Needed(l)
    PROVE  /\ RequestOf(l) \in Requests /\ RequestOf(l).key = Key(l)
           /\ RequestOf(l).quantity = Prepared(base[plan.attempt][l])
           /\ Preparable(base[plan.attempt][l])
  <1> DEFINE n == plan.attempt
  <1>1. n \in 1..attempt /\ n \in Attempts /\ Key(l) = KeyOf[l][n] /\ base[n][l] \in Nat
        /\ base[n] \in [Legs -> Nat]
    BY PlanKey DEF BaseInv
  <1>2. opened \in Opened /\ Passes(base[n]) /\ base[n][l] <= opened /\ opened \in Nat
    BY <1>1, CloseAssumption DEF BaseInv
  <1>3. base[n][l] \in 1..opened
    BY <1>1, <1>2 DEF Needed, Remains
  <1> HIDE DEF n
  <1>4. /\ RequestFor(l, n, base[n]) \in Requests
        /\ RequestFor(l, n, base[n]).key = KeyOf[l][n]
        /\ RequestFor(l, n, base[n]).quantity = Prepared(base[n][l])
        /\ Preparable(base[n][l])
    BY <1>1, <1>2, <1>3, RequestType
  <1> QED
    BY <1>1, <1>4 DEF RequestOf, n

\* The context of an attempt names the ids of the legs it needs.
LEMMA ContextNames ==
    ASSUME NEW n
    PROVE  /\ Context(n) # NoContext /\ Context(n).kind = "close" /\ Context(n).confirm = FALSE
           /\ KeysOf(Context(n)) = {KeyOf[l][n] : l \in {m \in Legs : base[n][m] > 0}}
  <1> DEFINE needed == {m \in Legs : base[n][m] > 0}
  <1>1. /\ Context(n).kind = "close" /\ Context(n).confirm = FALSE
        /\ Context(n).requests = {RequestFor(l, n, base[n]) : l \in needed}
    BY DEF Context
  <1>2. NoContext.kind = "none"
    BY DEF NoContext
  <1>3. \A l : RequestFor(l, n, base[n]).key = KeyOf[l][n]
    BY DEF RequestFor
  <1> HIDE DEF needed
  <1>4. KeysOf(Context(n)) = {KeyOf[l][n] : l \in needed}
    BY <1>1, <1>3 DEF KeysOf
  <1> QED
    BY <1>1, <1>2, <1>4 DEF needed

\* So it is the context of that attempt only.
LEMMA ContextOfOne ==
    ASSUME BaseInv, NEW n \in 1..attempt
    PROVE  /\ \A m \in 1..attempt : Context(m) = Context(n) => m = n
           /\ contexts[Plan] = Context(n) => ContextAttempt = n
  <1>1. PICK l \in Legs : base[n][l] > 0
    BY DEF BaseInv
  <1>2. \A m \in 1..attempt : m \in Attempts
    BY AttemptType
  <1>3. KeyOf[l][n] \in KeysOf(Context(n))
    BY <1>1, ContextNames
  <1>4. ASSUME NEW m \in Attempts, NEW j \in Legs, KeyOf[j][m] \in KeysOf(Context(n))
        PROVE  m = n
    <2> DEFINE needed == {i \in Legs : base[n][i] > 0}
    <2>0. KeyOf[j][m] \in {KeyOf[i][n] : i \in needed}
      BY <1>4, ContextNames
    <2>1. PICK i \in Legs : KeyOf[j][m] = KeyOf[i][n]
      BY <2>0
    <2> QED
      BY <1>2, <2>1, KeyFacts
  <1>5. ASSUME NEW m \in 1..attempt, Context(m) = Context(n) PROVE m = n
    <2>1. PICK j \in Legs : base[m][j] > 0
      BY DEF BaseInv
    <2>2. KeyOf[j][m] \in KeysOf(Context(m))
      BY <2>1, ContextNames
    <2> QED
      BY <1>2, <1>4, <1>5, <2>2
  <1>6. ASSUME contexts[Plan] = Context(n) PROVE ContextAttempt = n
    <2> DEFINE Names(m) == \E j \in Legs : KeyOf[j][m] \in KeysOf(contexts[Plan])
    <2>1. Names(n) /\ n \in Attempts
      BY <1>2, <1>3, <1>6
    <2>2. \A m \in Attempts : Names(m) => m = n
      BY <1>4, <1>6
    <2>3. ContextAttempt = CHOOSE m \in Attempts : Names(m)
      BY DEF ContextAttempt
    <2> HIDE DEF Names
    <2> QED
      BY <2>1, <2>2, <2>3
  <1> QED
    BY <1>5, <1>6

-----------------------------------------------------------------------------
(* What the exchange has had, and what it may still do *)

\* An order of the exchange is filled with a natural number.
LEMMA FilledType ==
    ASSUME TypeOK, NEW k \in Keys
    PROVE  /\ market[k].filled \in Nat
           /\ market[k] = NoOrder \/ market[k] \in Orders
           /\ market[k] # NoOrder <=> market[k].status # "none"
           /\ market[k] = NoOrder => market[k].filled = 0
  <1>1. market[k] = NoOrder \/ market[k] \in Orders
    BY DEF TypeOK
  <1>2. CASE market[k] \in Orders
    <2>1. market[k].status \in {"new", "filled", "canceled"} /\ market[k].filled \in Fills
      BY <1>2 DEF Orders
    <2>2. Fills \subseteq Nat
      BY ServiceAssumption
    <2> QED
      BY <1>2, <2>1, <2>2, OrderTypes
  <1>3. CASE market[k] = NoOrder
    BY <1>3 DEF NoOrder
  <1> QED
    BY <1>1, <1>2, <1>3

\* An id that is settled has no order, and one never sent is settled.
LEMMA SettledFacts ==
    ASSUME IInv, NEW k \in Keys
    PROVE  /\ Settled(k) => market[k] = NoOrder /\ ~MaybeLive(k)
           /\ creates[k] = << >> => Settled(k)
           /\ market[k] # NoOrder => creates[k] # << >>
           /\ Past(k) # {} => market[k] # NoOrder
           /\ IsTerminal(market[k]) => ~MaybeLive(k) /\ market[k] # NoOrder
  BY NoOrderNotTerminal DEF IInv, MarketInv, Settled, MaybeLive, Past

\* The exchange changes no order that is at rest.
LEMMA RestStays ==
    ASSUME IInv, ExchangeStep, NEW k \in Keys, ~MaybeLive(k)
    PROVE  market'[k] = market[k]
  <1>1. /\ creates \in [Keys -> Seq(Outcomes)]
        /\ market \in [Keys -> Orders \cup {NoOrder}]
    BY DEF IInv, TypeOK
  <1>2. IsTerminal(market[k]) => market'[k] = market[k]
    BY PastGrows
  <1>3. PICK i \in Keys : Accept(i) \/ Refuse(i) \/ Lose(i) \/ Trade(i) \/ Cancel(i)
    BY DEF ExchangeStep, ExchangeNext
  <1>4. CASE Settled(k)
    <2>1. market[k].status # "new"
      BY <1>4, SettledFacts DEF NoOrder
    <2>2. k = i => ~Accept(i)
      BY <1>4 DEF Settled, Accept
    <2> QED
      BY <1>1, <1>3, <2>1, <2>2 DEF Accept, Refuse, Lose, Trade, Cancel
  <1> QED
    BY <1>2, <1>4 DEF MaybeLive

-----------------------------------------------------------------------------
(* What the exchanges have closed, and may still close *)

\* What an order has closed, and may close.
Closed(l, n) == market[KeyOf[l][n]].filled
Exposed(l, n) == IF MaybeLive(KeyOf[l][n]) THEN Prepared(base[n][l]) ELSE Closed(l, n)

\* An order closes no more than it was placed for.
LEMMA OrderSizes ==
    ASSUME TypeOK, BaseInv, FillInv, NEW l \in Legs, NEW n \in Attempts
    PROVE  /\ Closed(l, n) \in Nat /\ Exposed(l, n) \in Nat
           /\ Closed(l, n) <= Exposed(l, n) /\ Closed(l, n) <= Prepared(base[n][l])
           /\ Exposed(l, n) <= Prepared(base[n][l]) /\ Prepared(base[n][l]) <= base[n][l]
  <1>1. /\ KeyOf[l][n] \in Keys /\ base[n][l] \in Nat
        /\ market[KeyOf[l][n]].filled <= Prepared(base[n][l])
    BY KeyFacts DEF BaseInv, FillInv
  <1>2. Prepared(base[n][l]) \in Nat /\ Prepared(base[n][l]) <= base[n][l]
    BY <1>1, PreparedBelow
  <1>3. market[KeyOf[l][n]].filled \in Nat
    BY <1>1, FilledType
  <1> QED
    BY <1>1, <1>2, <1>3 DEF Closed, Exposed

\* The sums of the properties are sums of these, before a step and after it.
LEMMA SumsOfOrders ==
    ASSUME NEW l \in Legs
    PROVE  /\ Filled(l) = Total([n \in Attempts |-> Closed(l, n)])
           /\ Filled(l)' = Total([n \in Attempts |-> Closed(l, n)'])
           /\ Exposure(l) = Total([n \in Attempts |-> Exposed(l, n)])
           /\ Exposure(l)' = Total([n \in Attempts |-> Exposed(l, n)'])
  <1>1. \A n \in Attempts : /\ Asked(KeyOf[l][n]) = Prepared(base[n][l])
                            /\ Asked(KeyOf[l][n])' = Prepared(base'[n][l])
    BY AskedIs
  <1>2. /\ Filled(l) = Total([n \in Attempts |-> Closed(l, n)])
        /\ Filled(l)' = Total([n \in Attempts |-> Closed(l, n)'])
    BY DEF Filled, Closed
  <1>3. /\ [n \in Attempts |-> LET k == KeyOf[l][n]
                               IN  IF MaybeLive(k) THEN Asked(k) ELSE market[k].filled]
             = [n \in Attempts |-> Exposed(l, n)]
        /\ [n \in Attempts |-> LET k == KeyOf[l][n]
                               IN  IF MaybeLive(k)' THEN Asked(k)' ELSE market'[k].filled]
             = [n \in Attempts |-> Exposed(l, n)']
    BY <1>1 DEF Exposed, Closed
  <1> QED
    BY <1>2, <1>3 DEF Exposure

\* The orders of a leg have closed some of the position, and no more than they may.
LEMMA Sizes ==
    ASSUME TypeOK, BaseInv, FillInv, NEW l \in Legs
    PROVE  /\ Filled(l) \in Nat /\ Exposure(l) \in Nat /\ Filled(l) <= Exposure(l)
           /\ (\A n \in Attempts : Closed(l, n) = 0) => Filled(l) = 0
  <1> DEFINE f == [n \in Attempts |-> Closed(l, n)]
             g == [n \in Attempts |-> Exposed(l, n)]
             zero == [n \in Attempts |-> 0]
  <1>1. /\ f \in [Attempts -> Int] /\ g \in [Attempts -> Int] /\ zero \in [Attempts -> Int]
        /\ \A n \in Attempts : zero[n] <= f[n] /\ f[n] <= g[n]
    BY OrderSizes
  <1>2. Total(zero) = 0 /\ Filled(l) = Total(f) /\ Exposure(l) = Total(g)
    BY TotalOfNothing, SumsOfOrders
  <1>3. (\A n \in Attempts : Closed(l, n) = 0) => f = zero
    OBVIOUS
  <1> HIDE DEF f, g, zero
  <1>4. Total(f) \in Int /\ Total(g) \in Int /\ 0 <= Total(f) /\ Total(f) <= Total(g)
    BY <1>1, <1>2, TotalBelow
  <1> QED
    BY <1>2, <1>3, <1>4

-----------------------------------------------------------------------------
(* The steps *)

\* What the proofs assume of the outside: an answer can be read, and no private
\* stream is down when a leg is due.
Calm == Garbled = FALSE /\ StreamsFail = FALSE

\* Nothing of a close ever waits for the user's confirmation then.
LEMMA NeverConfirms ==
    ASSUME NamedInv
    PROVE  contexts[Plan].confirm = FALSE /\ ~MustConfirm
  <1>1. contexts[Plan] = NoContext \/ \E n : contexts[Plan] = Context(n)
    BY DEF NamedInv, Contexted
  <1>2. contexts[Plan].confirm = FALSE
    <2>1. CASE contexts[Plan] = NoContext
      BY <2>1 DEF NoContext
    <2>2. CASE \E n : contexts[Plan] = Context(n)
      BY <2>2, ContextNames
    <2> QED
      BY <1>1, <2>1, <2>2
  <1> QED
    BY <1>2 DEF MustConfirm

\* An attempt begins, or is refused, with what the presenter shows: before the first
\* one, or after one whose result may be retried.
Begins ==
    /\ Free /\ Begin(shown.remaining)
    /\ shown.position \in {"open", "close_failed"}
    /\ \/ RecoveryComplete /\ ~Retryable /\ result = NoResult
       \/ /\ Retryable /\ result.status \in RetryableResults
          /\ shown.remaining = result.remaining

\* A leg is refreshed when it has an order that may still change.
Refreshes == plan.order[task.leg] # NoOrder /\ ~IsTerminal(plan.order[task.leg])

\* The user asks for a close that has a result.
Repeats == /\ result # NoResult /\ Free
           /\ posted' = result /\ UNCHANGED <<vars, worker, opened, attempt, base,
                                              plan, result, shown>>

\* The steps of the executor, the presenter and the monitor in which they take an
\* answer of the service, or need none.
OwnStep ==
    \/ AdvanceKnown \/ AdvanceSingle \/ Sent \/ Recorded \/ Registered \/ Completed
    \/ Noting \/ ResumeClose \/ Refreshed \/ Restore \/ Deliver \/ Repeats
    \/ (~Refreshes /\ RefreshLeg)
    \/ (~Passes(shown.remaining) /\ Begins)
    \/ /\ ((\A k \in Keys : submitted[k] = NoRequest) /\ RecoverStart)
          \/ RecoverEnd \/ MonitorLeaves
       /\ UNCHANGED closing

\* The steps in which a task begins a call of the service.
CallStep ==
    \/ (Submit(Pool, RequestOf(task.leg)) /\ AdvanceSubmit)
    \/ RecordLeg \/ Complete
    \/ (Refreshes /\ RefreshLeg)
    \/ (Passes(shown.remaining) /\ Begins)
    \/ \E leg \in Legs, n \in Attempts :
          \E order \in Past(KeyOf[leg][n]) : PrivateEvent(leg, n, order)
    \/ RecoverPending(Pool) /\ RecoverStart /\ UNCHANGED closing

\* Every step is one of these, of a call inside the service, of the exchange, or
\* the end of the process.
LEMMA StepCases ==
    ASSUME NamedInv, Calm, CloseNext
    PROVE  \/ OwnStep
           \/ CallStep
           \/ InService /\ UNCHANGED closing
           \/ ExchangeTrades
           \/ ProcessRestart
  <1>1. CASE UserCloses
    <2>1. CASE SubmitClose
      <3>1. CASE result = NoResult
        BY <2>1, <3>1 DEF SubmitClose, Begins, OwnStep, CallStep
      <3>2. CASE result # NoResult
        BY <2>1, <3>2 DEF SubmitClose, Repeats, OwnStep
      <3> QED
        BY <3>1, <3>2
    <2>2. CASE RetryClose
      BY <2>2 DEF RetryClose, Begins, OwnStep, CallStep
    <2>3. CASE ResumeClose
      BY <2>3 DEF OwnStep
    <2> QED
      BY <1>1, <2>1, <2>2, <2>3 DEF UserCloses
  <1>2. CASE Advance
    <2>1. ~AdvanceDeferred /\ ~AdvanceNotReady /\ ~Deferring
      BY NeverConfirms DEF AdvanceDeferred, AdvanceNotReady, Deferring, After, Calm, NamedInv
    <2>2. AdvanceSubmit => Submit(Pool, RequestOf(task.leg))
      BY NeverConfirms DEF AdvanceSubmit
    <2> QED
      BY <1>2, <2>1, <2>2 DEF Advance, OwnStep, CallStep
  <1>3. CASE Recover /\ UNCHANGED closing
    BY <1>3 DEF Recover, RecoverStart, OwnStep, CallStep
  <1>4. CASE \/ \E leg \in Legs, n \in Attempts :
                   \E order \in Past(KeyOf[leg][n]) : PrivateEvent(leg, n, order)
             \/ Noting \/ RefreshLeg \/ Refreshed \/ Restore \/ Deliver
    BY <1>4 DEF OwnStep, CallStep
  <1> QED
    BY <1>1, <1>2, <1>3, <1>4 DEF CloseNext

\* An own step takes the answer of the service, or changes nothing of it.
LEMMA OwnEffect ==
    ASSUME TypeOK, OwnStep
    PROVE  /\ UNCHANGED <<exchangeVars, memory, journal, restarts, faults>>
           /\ UNCHANGED <<opened, attempt, base>>
           /\ call'[Pool].phase = "idle" \/ UNCHANGED <<call, task>>
           /\ UNCHANGED vars \/ Return(Pool)
  <1>1. CASE Sent \/ Recorded \/ Registered \/ Completed \/ Noting
             \/ Refreshed \/ (RecoverEnd /\ UNCHANGED closing)
    <2>1. Return(Pool) /\ UNCHANGED <<opened, attempt, base>>
      BY <1>1 DEF Sent, Recorded, Registered, Completed, Noting, Refreshed,
                  RecoverEnd, After, closing
    <2>2. call'[Pool].phase = "idle"
      BY <2>1, ReturnEffect DEF Idle, Stage
    <2> QED
      BY <2>1, <2>2, ReturnEffect
  <1>2. CASE AdvanceKnown \/ AdvanceSingle \/ ResumeClose \/ Restore
             \/ (~Refreshes /\ RefreshLeg)
    <2>1. vars' = vars /\ UNCHANGED <<opened, attempt, base>> /\ call[Pool].phase = "idle"
      BY <1>2 DEF AdvanceKnown, AdvanceSingle, ResumeClose, Restore, RefreshLeg, Refreshes,
                  At, Free, closing
    <2> QED
      BY <2>1 DEF vars
  <1>3. CASE Deliver \/ Repeats \/ (~Passes(shown.remaining) /\ Begins)
    <2>1. vars' = vars /\ UNCHANGED <<opened, attempt, base>> /\ task' = task
      BY <1>3 DEF Deliver, Repeats, Begins, Begin, worker
    <2> QED
      BY <2>1 DEF vars
  <1>4. CASE MonitorLeaves /\ UNCHANGED closing
    <2>1. vars' = vars /\ UNCHANGED <<opened, attempt, base>> /\ task' = task
      BY <1>4 DEF MonitorLeaves, closing
    <2> QED
      BY <2>1 DEF vars
  <1>5. CASE (\A k \in Keys : submitted[k] = NoRequest) /\ RecoverStart
             /\ UNCHANGED closing
    <2>1. vars' = vars /\ UNCHANGED <<opened, attempt, base>> /\ call[Pool].phase = "idle"
      BY <1>5 DEF RecoverStart, Free, closing
    <2> QED
      BY <2>1 DEF vars
  <1> QED
    BY <1>1, <1>2, <1>3, <1>4, <1>5 DEF OwnStep

-----------------------------------------------------------------------------
(* The executor calls the service as its callers may *)

\* What an attempt begins with is part of the position, and not nothing.
LEMMA BeginsWith ==
    ASSUME CloseInv, Begins
    PROVE  /\ shown.remaining \in [Legs -> Nat]
           /\ \A l \in Legs : shown.remaining[l] = opened - Filled(l)
           /\ \A l \in Legs : shown.remaining[l] <= opened
           /\ \E l \in Legs : shown.remaining[l] > 0
           /\ AtRest
  <1>1. /\ IInv /\ TypeOK /\ BaseInv /\ FillInv /\ ResultInv /\ ShownInv
        /\ NeverOverclosed /\ RemainingIsTrue /\ opened \in Nat \ {0}
    BY CloseAssumption DEF CloseInv, IInv, BaseInv
  <1>2. \A l \in Legs : Filled(l) \in Nat /\ Filled(l) <= opened
    <2> SUFFICES ASSUME NEW l \in Legs PROVE Filled(l) \in Nat /\ Filled(l) <= opened
      OBVIOUS
    <2>1. Filled(l) \in Nat /\ Exposure(l) \in Nat /\ Filled(l) <= Exposure(l)
      BY <1>1, Sizes
    <2> QED
      BY <1>1, <2>1 DEF NeverOverclosed
  <1>3. CASE RecoveryComplete /\ ~Retryable /\ result = NoResult
    <2>1. contexts[Plan] = NoContext
      BY <1>3, OnePlan DEF RecoveryComplete
    <2>2. result.status # "preflight_failed"
      BY <1>3 DEF NoResult, Result
    <2>3. shown = Untouched /\ attempt = 0
      BY <1>1, <1>3, <2>1, <2>2 DEF ShownInv, Begins, Retryable
    <2>4. \A n \in Attempts, l \in Legs : creates[KeyOf[l][n]] = << >>
      BY <1>1, <2>3, CloseAssumption DEF BaseInv, Attempts
    <2>5. \A n \in Attempts, l \in Legs :
             ~MaybeLive(KeyOf[l][n]) /\ market[KeyOf[l][n]].filled = 0
      BY <1>1, <2>4, KeyFacts, SettledFacts, FilledType
    <2>6. AtRest /\ \A l \in Legs : Filled(l) = 0
      BY <1>1, <2>5, KeyFacts, Sizes DEF AtRest, Closed
    <2>7. shown.remaining = [l \in Legs |-> opened]
      BY <2>3 DEF Untouched, Result
    <2> QED
      BY <1>1, <2>6, <2>7 DEF Legs
  <1>4. CASE /\ Retryable /\ result.status \in RetryableResults
             /\ shown.remaining = result.remaining
    <2>1. Final(result)
      BY <1>4 DEF Final, NoResult, Result, RetryableResults, PendingResults
    <2>2. AtRest /\ \A l \in Legs : shown.remaining[l] = opened - Filled(l)
      BY <1>1, <1>4, <2>1, KeyFacts DEF RemainingIsTrue, Final, AtRest
    <2>3. \E l \in Legs : shown.remaining[l] # 0
      BY <1>1, <1>4 DEF ResultInv
    <2>4. \A l \in Legs : shown.remaining[l] \in 0..opened
      BY <1>1, <1>2, <2>2
    <2>5. shown.remaining \in [Legs -> Nat]
      <3>1. shown.remaining \in [Legs -> Int]
        BY <1>1, <1>4 DEF ResultInv
      <3> QED
        BY <1>1, <2>4, <3>1
    <2> QED
      BY <1>1, <2>2, <2>3, <2>4, <2>5
  <1> QED
    BY <1>3, <1>4 DEF Begins

\* A leg that is due, and whose context is gone, was attempted before.
LEMMA DueIsNamed ==
    ASSUME CloseInv, task.stage = "advance", Needed(task.leg), plan.order[task.leg] = NoOrder
    PROVE  /\ MayName(Key(task.leg))
           /\ Ended => Key(task.leg) \in attempted
  <1>1. /\ plan.known /\ task.leg \in Legs
        /\ IInv /\ TypeOK /\ PlanInv /\ BaseInv /\ NamedInv /\ OverInv /\ AskedInv
        /\ OrdersPast /\ FollowInv
    BY DEF CloseInv, IInv, TaskInv, PlanStages, Placing, Ending
  <1>2. /\ Key("first") = KeyOf["first"][plan.attempt]
        /\ Key(task.leg) = KeyOf[task.leg][plan.attempt]
        /\ plan.attempt \in 1..attempt /\ plan.attempt \in Attempts
        /\ Key(task.leg) \in Keys /\ Key("first") \in Keys
        /\ Remains(task.leg) = base[plan.attempt][task.leg]
    BY <1>1, PlanKey DEF Legs
  <1>3. ASSUME Ended PROVE Key(task.leg) \in attempted
    <2>1. task.leg = "second" /\ Needed("first") => market[Key("first")].status = "filled"
      <3> SUFFICES ASSUME task.leg = "second", Needed("first")
                   PROVE  market[Key("first")].status = "filled"
        OBVIOUS
      <3>1. plan.order["first"].status = "filled"
        BY <1>1 DEF FollowInv, FirstDone, Placing
      <3>2. plan.order["first"] \in Past(Key("first"))
        BY <1>1, <3>1 DEF OrdersPast, Legs, NoOrder
      <3> QED
        BY <1>1, <1>2, <3>1, <3>2, PastFacts DEF IsTerminal
    <2>2. Tried(task.leg)
      BY <1>1, <1>3, <2>1 DEF OverInv, Reached
    <2> QED
      BY <2>2 DEF Tried
  <1>4. CASE contexts[Plan] = NoContext
    <2>1. requests[Key(task.leg)] # NoRequest
      BY <1>1, <1>2, <1>3, <1>4 DEF Ended, AskedInv
    <2> QED
      BY <1>3, <2>1 DEF MayName
  <1>5. CASE contexts[Plan] = Context(plan.attempt)
    <2>1. Key(task.leg) \in KeysOf(contexts[Plan])
      BY <1>1, <1>2, <1>5, ContextNames DEF Needed
    <2> QED
      BY <1>3, <2>1, OnePlan DEF MayName, NamedIn
  <1> QED
    BY <1>1, <1>4, <1>5 DEF NamedInv

\* An attempt that begins registers its context with requests for ids never used.
LEMMA BeginsCall ==
    ASSUME CloseInv, Passes(shown.remaining), Begins
    PROVE  \E n \in Attempts : \E batch \in SUBSET Requests :
           /\ n = attempt + 1 /\ attempt' = n
           /\ batch = {RequestFor(l, n, shown.remaining) :
                         l \in {m \in Legs : shown.remaining[m] > 0}}
           /\ batch # {} /\ MayRegister(Plan, batch)
           /\ RegisterContext(Pool, Plan, "close", batch)
           /\ base' = [base EXCEPT ![n] = shown.remaining]
           /\ plan' = [NoPlan EXCEPT !.known = TRUE, !.attempt = n]
           /\ task' = Task("registering", FirstLeg(shown.remaining), FALSE, FALSE, FALSE)
           /\ result' = NoResult
           /\ UNCHANGED <<opened, posted, shown, recovery>>
  <1> DEFINE n == attempt + 1
             needed == {m \in Legs : shown.remaining[m] > 0}
             batch == {RequestFor(l, n, shown.remaining) : l \in needed}
  <1>1. /\ BaseInv /\ opened \in Opened /\ opened \in Nat /\ Ops = {Plan}
    BY CloseAssumption, WorkerAssumption DEF CloseInv, BaseInv
  <1>2. /\ n \in Attempts /\ attempt' = n /\ base' = [base EXCEPT ![n] = shown.remaining]
        /\ plan' = [NoPlan EXCEPT !.known = TRUE, !.attempt = n]
        /\ RegisterContext(Pool, Plan, "close", batch)
        /\ task' = Task("registering", FirstLeg(shown.remaining), FALSE, FALSE, FALSE)
        /\ result' = NoResult
        /\ UNCHANGED <<opened, posted, shown, recovery>>
    BY DEF Begins, Begin
  <1>3. /\ shown.remaining \in [Legs -> Nat]
        /\ \A l \in Legs : shown.remaining[l] <= opened
        /\ needed # {} /\ needed \subseteq Legs
    BY BeginsWith
  <1>4. \A l \in needed : shown.remaining[l] \in 1..opened
    BY <1>1, <1>3
  <1>5. n > attempt /\ attempt \in Nat
    BY <1>1, CloseAssumption DEF BaseInv
  <1> HIDE DEF n, needed
  <1>6. \A l \in needed : /\ RequestFor(l, n, shown.remaining) \in Requests
                          /\ RequestFor(l, n, shown.remaining).key = KeyOf[l][n]
                          /\ creates[KeyOf[l][n]] = << >>
    BY <1>1, <1>2, <1>3, <1>4, <1>5, RequestType DEF BaseInv
  <1>7. batch \in SUBSET Requests /\ batch # {}
    BY <1>3, <1>6
  <1>8. \A r \in batch : creates[r.key] = << >>
    BY <1>6
  <1>9. MayRegister(Plan, batch)
    BY <1>1, <1>8 DEF MayRegister
  <1>10. batch = {RequestFor(l, n, shown.remaining) :
                    l \in {m \in Legs : shown.remaining[m] > 0}} /\ n = attempt + 1
    BY DEF n, needed
  <1> HIDE DEF batch
  <1> QED
    BY <1>2, <1>7, <1>9, <1>10

\* The private stream brings the order of an id, as the exchange had it.
LEMMA EventCall ==
    ASSUME TypeOK, PlanInv, BaseInv, OrdersPast, NEW l \in Legs, NEW n \in Attempts,
           NEW order \in Past(KeyOf[l][n]), PrivateEvent(l, n, order)
    PROVE  LET k == KeyOf[l][n] IN
           \E held \in Past(k) :
           /\ k \in Keys /\ Free /\ Record(Pool, k, held)
           /\ \/ /\ plan.known /\ plan.attempt = n
                 /\ plan' = [plan EXCEPT !.seen[l] = held, !.order[l] = held]
                 /\ task' = Task("noting", l, FALSE, Recovering, FALSE)
              \/ /\ UNCHANGED plan
                 /\ task' = Task("noted", l, FALSE, FALSE, FALSE)
           /\ UNCHANGED <<opened, attempt, base, result, posted, shown, recovery>>
  <1> DEFINE k == KeyOf[l][n]
  <1>1. k \in Keys
    BY KeyFacts
  <1>2. CASE plan.known /\ plan.attempt = n
    <2>1. plan.seen[l] \in Past(k) \cup {NoOrder}
      BY <1>2 DEF OrdersPast, Key
    <2>2. PICK held \in Reconciled(plan.seen[l], order) :
            /\ plan' = [plan EXCEPT !.seen[l] = held, !.order[l] = held]
            /\ Record(Pool, k, held)
            /\ task' = Task("noting", l, FALSE, Recovering, FALSE)
      BY <1>2 DEF PrivateEvent
    <2>3. held \in Past(k)
      BY <1>1, <2>1, <2>2, ReconciledPast
    <2> QED
      BY <1>1, <1>2, <2>2, <2>3 DEF PrivateEvent
  <1>3. CASE ~(plan.known /\ plan.attempt = n)
    BY <1>1, <1>3 DEF PrivateEvent
  <1> QED
    BY <1>2, <1>3

\* A leg that is refreshed is one its attempt needs.
LEMMA RefreshIsNeeded ==
    ASSUME IInv, PlanInv, BaseInv, OrdersPast, PlacedInv, plan.known, NEW l \in Legs,
           plan.order[l] # NoOrder
    PROVE  Needed(l) /\ orders[Key(l)] # NoOrder /\ plan.order[l] \in Past(Key(l))
  <1>1. /\ Key(l) = KeyOf[l][plan.attempt] /\ Key(l) \in Keys /\ plan.attempt \in Attempts
        /\ Remains(l) = base[plan.attempt][l]
    BY PlanKey
  <1>2. plan.order[l] \in Past(Key(l)) /\ orders[Key(l)] # NoOrder
    BY DEF OrdersPast
  <1>3. creates[Key(l)] # << >>
    BY <1>1, <1>2, SettledFacts
  <1> QED
    BY <1>1, <1>2, <1>3 DEF PlacedInv, Needed

\* Every call of the executor is one its service may expect.
LEMMA CallAllowed ==
    ASSUME CloseInv, CallStep
    PROVE  ServiceStep(Pool)
  <1>1. /\ IInv /\ TypeOK /\ Plan \in Ops /\ TaskInv /\ PlanInv /\ BaseInv
        /\ OrdersPast /\ RecordPast /\ PlacedInv
    BY WorkerAssumption DEF CloseInv, IInv
  <1>2. CASE Submit(Pool, RequestOf(task.leg)) /\ AdvanceSubmit
    <2>1. /\ task.stage = "advance" /\ Needed(task.leg) /\ plan.order[task.leg] = NoOrder
          /\ plan.known /\ task.leg \in Legs
      BY <1>1, <1>2 DEF AdvanceSubmit, Due, At, TaskInv, PlanStages, Placing, Ending
    <2>2. RequestOf(task.leg) \in Requests /\ RequestOf(task.leg).key = Key(task.leg)
      BY <1>1, <2>1, PlanRequest
    <2> QED
      BY <1>2, <2>1, <2>2, DueIsNamed DEF ServiceStep
  <1>3. CASE RecordLeg
    <2>1. task.leg \in Legs /\ plan.known /\ plan.order[task.leg] # NoOrder
      BY <1>1, <1>3 DEF RecordLeg, At, TaskInv, PlanStages, Placing, Ending, RecordPast
    <2>2. plan.order[task.leg] \in Past(Key(task.leg)) /\ Key(task.leg) \in Keys
      BY <1>1, <2>1, PlanKey DEF OrdersPast
    <2> QED
      BY <1>3, <2>1, <2>2 DEF RecordLeg, ServiceStep
  <1>4. CASE Complete
    BY <1>1, <1>4 DEF Complete, ServiceStep
  <1>5. CASE Refreshes /\ RefreshLeg
    <2>1. /\ task.leg \in Legs /\ plan.known /\ plan.order[task.leg] # NoOrder
          /\ Refresh(Pool, RequestOf(task.leg))
      BY <1>1, <1>5 DEF RefreshLeg, Refreshes, At, TaskInv, PlanStages, Placing, Ending
    <2>2. Needed(task.leg) /\ orders[Key(task.leg)] # NoOrder
      BY <1>1, <2>1, RefreshIsNeeded
    <2>3. RequestOf(task.leg) \in Requests /\ RequestOf(task.leg).key = Key(task.leg)
      BY <1>1, <2>1, <2>2, PlanRequest
    <2> QED
      BY <2>1, <2>2, <2>3 DEF ServiceStep
  <1>6. CASE Passes(shown.remaining) /\ Begins
    <2>1. PICK batch \in SUBSET Requests : batch # {} /\ MayRegister(Plan, batch)
                                           /\ RegisterContext(Pool, Plan, "close", batch)
      BY <1>6, BeginsCall
    <2> QED
      BY <1>1, <2>1 DEF ServiceStep, Kinds
  <1>7. ASSUME NEW l \in Legs, NEW n \in Attempts, NEW order \in Past(KeyOf[l][n]),
               PrivateEvent(l, n, order)
        PROVE  ServiceStep(Pool)
    <2>1. KeyOf[l][n] \in Keys /\ \E held \in Past(KeyOf[l][n]) : Record(Pool, KeyOf[l][n], held)
      BY <1>1, <1>7, EventCall
    <2> QED
      BY <2>1 DEF ServiceStep
  <1>8. CASE RecoverPending(Pool)
    BY <1>8 DEF ServiceStep
  <1> QED
    BY <1>2, <1>3, <1>4, <1>5, <1>6, <1>7, <1>8 DEF CallStep

\* The executor, the service and the exchange together take only steps that
\* OrderService describes.
LEMMA CloseStepIsAllowed ==
    ASSUME CloseInv, Calm, [CloseNext]_closeVars
    PROVE  [Next]_vars
  <1>1. CASE OwnStep
    BY <1>1, OnePlan, OwnEffect DEF CloseInv, IInv, Next, ServiceStep
  <1>2. CASE CallStep
    BY <1>2, OnePlan, CallAllowed DEF Next
  <1>3. CASE InService
    BY <1>3, OnePlan DEF InService, Next, ServiceStep
  <1>4. CASE ExchangeTrades \/ ProcessRestart
    BY <1>4 DEF ExchangeTrades, ProcessRestart, WorkerRestart, Next
  <1>5. CASE UNCHANGED closeVars
    BY <1>5 DEF closeVars
  <1>6. NamedInv
    BY DEF CloseInv
  <1> QED
    BY <1>1, <1>2, <1>3, <1>4, <1>5, <1>6, StepCases

-----------------------------------------------------------------------------
(* What the own steps do to the task, the plan and the results *)

\* Where a task goes on, how it ends, and how a result is stored.
LEMMA TaskGoes ==
    ASSUME TaskInv
    PROVE  /\ \A stage, leg : GoTo(stage, leg) =>
                 /\ task' = Task(stage, leg, task.confirm, task.defer, task.restoring)
                 /\ recovery' = recovery
           /\ Finish \/ Raise => task' = NoTask /\ recovery' \in {recovery, "leave", "stuck"}
           /\ \A status, remaining, position : Store(status, remaining, position) =>
                 /\ result' = Result(status, remaining, position)
                 /\ IF status \in PendingResults
                    THEN Finish /\ posted' = result'
                    ELSE GoTo("complete", task.leg) /\ posted' = posted
  BY DEF TaskInv, Task, GoTo, Finish, Raise, Store, Post

\* The task is at a stage of its own, with the thread idle.
OnTo(stage, leg) ==
    /\ \E confirm, defer, restoring : task' = Task(stage, leg, confirm, defer, restoring)
    /\ call'[Pool].phase = "idle"

\* The stage and the leg of such a task.
LEMMA OnToMeans ==
    ASSUME NEW stage, NEW leg, OnTo(stage, leg)
    PROVE  /\ task'.stage = stage /\ task'.leg = leg /\ call'[Pool].phase = "idle"
           /\ task' = Task(task'.stage, task'.leg, task'.confirm, task'.defer, task'.restoring)
  BY DEF OnTo, Task

\* The results that a leg may end with, and the plan's when no leg is left.
StoresFailed(leg) == /\ task.stage = "sent" /\ call[Pool].phase = "done"
                     /\ Answer \in Failures /\ StoreFailed(leg)
Stores(leg) ==
    \/ task.stage = "advance" /\ ~Needed(leg) /\ Left(Before("second"))["first"] = 0
       /\ Store("completed", Left(Before("second")), "closed")
    \/ task.stage = "sent" /\ StoreUnknown(leg)
    \/ StoresFailed(leg)
    \/ task.stage = "recorded" /\ StoreOutcome(leg)
       /\ ~(leg = "first" /\ plan.order["first"].status = "filled")

\* The status of a result that a leg stores is pending, or the result is final.
LEMMA StoresMeans ==
    ASSUME TaskInv, NEW leg, Stores(leg)
    PROVE  \E status, remaining, position : Store(status, remaining, position) /\ status # "none"
  <1>1. CASE StoreUnknown(leg)
    BY <1>1 DEF StoreUnknown
  <1>2. CASE StoreFailed(leg)
    BY <1>2 DEF StoreFailed, Failed
  <1>3. CASE StoreOutcome(leg)
    <2>1. Failed(leg) # "none" /\ Waiting(leg) # "none"
      BY DEF Failed, Waiting
    <2> QED
      BY <1>3, <2>1 DEF StoreOutcome
  <1>4. CASE Store("completed", Left(Before("second")), "closed")
    BY <1>4
  <1> QED
    BY <1>1, <1>2, <1>3, <1>4 DEF Stores, StoresFailed

\* A restored plan holds what the service holds of its ids.
Restores ==
    /\ ~plan.known /\ ~Final(result) /\ recovery = "restore"
    /\ plan' = [known |-> TRUE, attempt |-> ContextAttempt,
                order |-> [l \in Legs |-> orders[KeyOf[l][ContextAttempt]]],
                seen |-> [l \in Legs |-> orders[KeyOf[l][ContextAttempt]]]]

\* The answer of the service becomes the order of the leg.
Takes == /\ task.stage \in {"sent", "refreshing"}
         /\ call[Pool].phase = "done" /\ call[Pool].result = "order"
         /\ plan' = [plan EXCEPT !.order[task.leg] = call[Pool].order]

\* The last result is posted again: when the task ends, when the user asks again, or
\* when a process that recovers has it.
Reposts == /\ posted' = result /\ (Final(result) \/ Repeats)
           /\ UNCHANGED <<result, shown, plan>>
           /\ task.stage \in {"completing", "free"}

\* An attempt that is refused.
Refused == /\ Begins /\ ~Passes(shown.remaining)
           /\ result' = Result("preflight_failed", shown.remaining, shown.position)
           /\ posted' = result' /\ plan' = NoPlan
           /\ UNCHANGED <<vars, worker, opened, attempt, base, shown>>

\* What an own step makes of the plan.
LEMMA OwnPlan ==
    ASSUME TaskInv, OwnStep
    PROVE  plan' = plan \/ Takes \/ Restores \/ Refused
  <1>1. CASE Sent \/ Refreshed
    BY <1>1 DEF Sent, Refreshed, After, Answer, Takes
  <1>2. CASE Restore
    BY <1>2 DEF Restore, Restores, Final
  <1>3. CASE ~Passes(shown.remaining) /\ Begins
    BY <1>3 DEF Begins, Begin, Refused
  <1>4. CASE AdvanceKnown \/ AdvanceSingle \/ Recorded \/ Registered \/ Completed
             \/ Noting \/ ResumeClose
    BY <1>4 DEF AdvanceKnown, AdvanceSingle, Recorded, Registered, Completed, Noting,
                ResumeClose, closing
  <1>5. CASE Deliver \/ Repeats \/ (~Refreshes /\ RefreshLeg) \/ UNCHANGED closing
    BY <1>5 DEF Deliver, Repeats, RefreshLeg, closing
  <1> QED
    BY <1>1, <1>2, <1>3, <1>4, <1>5 DEF OwnStep

\* What an own step makes of the results.
LEMMA OwnResult ==
    ASSUME TaskInv, NamedInv, OwnStep
    PROVE  \/ UNCHANGED <<result, posted, shown>>
           \/ Reposts
           \/ UNCHANGED <<shown, plan>> /\ Stores(task.leg)
           \/ Refused
           \/ shown # posted /\ shown' = posted /\ UNCHANGED <<result, posted, plan>>
  <1>1. CASE AdvanceSingle
    BY <1>1 DEF AdvanceSingle, At, Stores
  <1>2. CASE Sent
    BY <1>2 DEF Sent, After, Failures, Stores, StoresFailed
  <1>3. CASE Recorded
    BY <1>3 DEF Recorded, After, Stores
  <1>4. CASE Completed
    BY <1>4 DEF Completed, After, Post, NamedInv, Ending, Reposts
  <1>5. CASE Restore
    BY <1>5 DEF Restore, Free, Reposts, Final
  <1>6. CASE Repeats
    BY <1>6 DEF Repeats, Free, Reposts
  <1>7. CASE ~Passes(shown.remaining) /\ Begins
    BY <1>7 DEF Begins, Begin, Refused
  <1>8. CASE Deliver
    BY <1>8 DEF Deliver
  <1>9. CASE AdvanceKnown \/ Registered \/ Noting \/ ResumeClose \/ Refreshed
             \/ (~Refreshes /\ RefreshLeg) \/ UNCHANGED closing
    BY <1>9 DEF AdvanceKnown, Registered, Noting, ResumeClose, Refreshed, RefreshLeg,
                closing
  <1> QED
    BY <1>1, <1>2, <1>3, <1>4, <1>5, <1>6, <1>7, <1>8, <1>9 DEF OwnStep

\* Where an own step leaves the task: done, waiting to record an order or to complete
\* a context, about to query an order, or at a leg that is next.
LEMMA OwnMoves ==
    ASSUME CloseInv, OwnStep
    PROVE  /\ recovery' \in {"none", "query", "restore", "leave", "stuck"}
           /\ \/ UNCHANGED <<call, task>> /\ (plan' = plan \/ task.stage = "free")
              \/ task' = NoTask /\ call'[Pool].phase = "idle"
              \/ /\ plan.known /\ plan'.known
                 /\ \/ /\ OnTo("record", task.leg) /\ task.leg \in Legs
                       /\ task.stage \in {"advance", "sent"}
                       /\ Needed(task.leg) /\ plan'.order[task.leg] # NoOrder
                    \/ /\ OnTo("advance", "second") /\ plan' = plan
                       /\ plan.order["first"].status = "filled"
                    \/ OnTo("refresh", "first") \/ OnTo("refresh", "second")
                    \/ OnTo("complete", task.leg) /\ task.leg \in Legs /\ Final(result')
              \/ plan'.known /\ OnTo("advance", FirstLeg(base[plan'.attempt]))
  <1>1. /\ TypeOK /\ TaskInv /\ PlanInv /\ FollowInv /\ NamedInv
        /\ recovery \in {"none", "query", "restore", "leave", "stuck"}
    BY DEF CloseInv, IInv, TaskInv
  <1>2. ASSUME Finish \/ Raise, call'[Pool].phase = "idle"
        PROVE  /\ recovery' \in {"none", "query", "restore", "leave", "stuck"}
               /\ task' = NoTask /\ call'[Pool].phase = "idle"
    BY <1>1, <1>2, TaskGoes
  <1>3. ASSUME NEW stage, NEW leg, GoTo(stage, leg), call'[Pool].phase = "idle"
        PROVE  /\ recovery' \in {"none", "query", "restore", "leave", "stuck"}
               /\ OnTo(stage, leg)
    BY <1>1, <1>3, TaskGoes DEF OnTo
  <1>4. ASSUME NEW status, NEW remaining, NEW position, Store(status, remaining, position),
               status # "none", call'[Pool].phase = "idle"
        PROVE  /\ recovery' \in {"none", "query", "restore", "leave", "stuck"}
               /\ \/ task' = NoTask /\ call'[Pool].phase = "idle"
                  \/ OnTo("complete", task.leg) /\ Final(result')
    <2>1. CASE status \in PendingResults
      BY <1>1, <1>2, <1>4, <2>1, TaskGoes
    <2>2. CASE status \notin PendingResults
      <3>1. result' = Result(status, remaining, position) /\ GoTo("complete", task.leg)
        BY <1>1, <1>4, <2>2, TaskGoes
      <3>2. Final(result')
        BY <1>4, <2>2, <3>1 DEF Final, Result, NoResult
      <3> QED
        BY <1>3, <1>4, <3>1, <3>2
    <2> QED
      BY <2>1, <2>2
  <1>5. ASSUME Stores(task.leg), call'[Pool].phase = "idle"
        PROVE  /\ recovery' \in {"none", "query", "restore", "leave", "stuck"}
               /\ \/ task' = NoTask /\ call'[Pool].phase = "idle"
                  \/ OnTo("complete", task.leg) /\ Final(result')
    BY <1>1, <1>4, <1>5, StoresMeans
  <1>6. ASSUME task.stage \in {"sent", "recorded", "registering", "refreshing", "advance",
                               "refresh", "completing"}
        PROVE  task.leg \in Legs /\ plan.known
    BY <1>1, <1>6 DEF TaskInv, PlanStages, Placing, Ending
  <1>7. CASE AdvanceKnown \/ AdvanceSingle
    <2>1. task.stage = "advance" /\ task.leg \in Legs /\ plan.known
      BY <1>6, <1>7 DEF AdvanceKnown, AdvanceSingle, At
    <2>2. call'[Pool].phase = "idle" /\ plan' = plan
      BY <1>7 DEF AdvanceKnown, AdvanceSingle, At, vars, closing
    <2>3. CASE AdvanceKnown
      BY <1>3, <2>1, <2>2, <2>3 DEF AdvanceKnown
    <2>4. CASE AdvanceSingle
      <3>1. CASE Raise
        BY <1>2, <2>2, <3>1
      <3>2. CASE Stores(task.leg)
        BY <1>5, <2>1, <2>2, <3>2
      <3> QED
        BY <2>1, <2>4, <3>1, <3>2 DEF AdvanceSingle, Stores
    <2> QED
      BY <1>7, <2>3, <2>4
  <1>8. CASE Sent \/ Recorded \/ Registered \/ Completed \/ Refreshed
    <2>1. /\ task.stage \in {"sent", "recorded", "registering", "completing", "refreshing"}
          /\ task.leg \in Legs /\ plan.known /\ Return(Pool)
      BY <1>6, <1>8 DEF Sent, Recorded, Registered, Completed, Refreshed, After
    <2>2. call'[Pool].phase = "idle"
      BY <1>1, <2>1, ReturnEffect DEF Idle, Stage
    <2>3. CASE Sent
      <3>1. task.stage = "sent" /\ Needed(task.leg)
        BY <1>1, <2>1, <2>3 DEF Sent, After, FollowInv, Placing
      <3>2. CASE Answer = "order"
        <4>1. GoTo("record", task.leg) /\ plan' = [plan EXCEPT !.order[task.leg] = call[Pool].order]
          BY <2>3, <3>2 DEF Sent
        <4>2. call[Pool].order \in Past(Key(task.leg))
          BY <2>3, <3>1, <3>2 DEF CloseInv, AnswerPast, Sent, After, Answer
        <4>3. call[Pool].order # NoOrder
          BY <1>1, <2>1, <4>2, PlanKey, PastFacts DEF CloseInv
        <4>4. plan'.order[task.leg] # NoOrder /\ plan'.known
          BY <1>1, <2>1, <4>1, <4>3 DEF PlanInv
        <4> QED
          BY <1>3, <2>1, <2>2, <3>1, <4>1, <4>4
      <3>3. CASE Stores(task.leg) /\ plan' = plan
        BY <1>5, <2>1, <2>2, <3>3
      <3>4. CASE Raise
        BY <1>2, <2>2, <3>4
      <3> QED
        BY <2>3, <3>1, <3>2, <3>3, <3>4 DEF Sent, After, Stores, StoresFailed, Failures
    <2>4. CASE Recorded
      <3>1. task.stage = "recorded" /\ plan' = plan
        BY <2>4 DEF Recorded, After
      <3>2. CASE GoTo("advance", "second") /\ plan.order["first"].status = "filled"
        BY <1>3, <2>1, <2>2, <3>1, <3>2
      <3>3. CASE Stores(task.leg)
        BY <1>5, <2>1, <2>2, <3>1, <3>3
      <3>4. CASE Raise
        BY <1>2, <2>2, <3>4
      <3> QED
        BY <2>4, <3>1, <3>2, <3>3, <3>4 DEF Recorded, Stores
    <2>5. CASE Registered
      <3>1. task.leg = FirstLeg(base[plan.attempt]) /\ plan' = plan
        BY <1>1, <2>5 DEF Registered, After, FollowInv, closing
      <3> QED
        BY <1>2, <1>3, <2>1, <2>2, <2>5, <3>1 DEF Registered
    <2>6. CASE Completed
      <3>1. Finish \/ Raise
        BY <2>6 DEF Completed, Post
      <3> QED
        BY <1>2, <2>2, <3>1
    <2>7. CASE Refreshed
      <3>1. Raise \/ AfterRefresh(task.leg)
        BY <2>7 DEF Refreshed
      <3>2. plan'.known /\ plan'.attempt = plan.attempt
        BY <1>1, <2>1, <2>7 DEF Refreshed, PlanInv
      <3> QED
        BY <1>2, <1>3, <2>1, <2>2, <3>1, <3>2 DEF AfterRefresh
    <2> QED
      BY <1>8, <2>3, <2>4, <2>5, <2>6, <2>7
  <1>9. CASE Noting
    <2>1. call'[Pool].phase = "idle" /\ plan' = plan
      BY <1>1, <1>9, ReturnEffect DEF Noting, After, Idle, Stage, closing
    <2>2. task.stage = "noting" => plan.known
      BY <1>1 DEF TaskInv, PlanStages
    <2> QED
      BY <1>2, <1>3, <1>9, <2>1, <2>2 DEF Noting, After
  <1>10. CASE ResumeClose
    <2>1. /\ task' = Task("refresh", "first", contexts[Plan].confirm, FALSE, FALSE)
          /\ call'[Pool].phase = "idle" /\ recovery' = recovery /\ plan.known /\ plan' = plan
      BY <1>10 DEF ResumeClose, Free, vars, closing
    <2>2. OnTo("refresh", "first")
      BY <2>1 DEF OnTo
    <2> QED
      BY <1>1, <2>1, <2>2
  <1>11. CASE ~Refreshes /\ RefreshLeg
    <2>1. AfterRefresh(task.leg) /\ plan' = plan /\ plan.known /\ call'[Pool].phase = "idle"
      BY <1>6, <1>11 DEF Refreshes, RefreshLeg, At, vars, closing
    <2> QED
      BY <1>3, <2>1 DEF AfterRefresh
  <1>12. CASE Restore
    <2>1. call'[Pool].phase = "idle" /\ recovery' \in {recovery, "leave"}
      BY <1>12 DEF Restore, Free, vars
    <2>2. CASE UNCHANGED <<plan, task>>
      BY <1>1, <1>12, <2>1, <2>2 DEF Restore, vars
    <2>3. CASE ~(UNCHANGED <<plan, task>>)
      <3> DEFINE n == IF plan.known THEN plan.attempt ELSE ContextAttempt
      <3>1. task' = Task("advance", FirstLeg(base[n]), FALSE, TRUE, TRUE)
        BY <1>12, <2>3 DEF Restore
      <3>2. plan'.known /\ plan'.attempt = n
        <4>1. CASE plan.known
          BY <1>12, <2>3, <4>1 DEF Restore
        <4>2. CASE ~plan.known
          <5>1. plan' = [known |-> TRUE, attempt |-> n,
                         order |-> [l \in Legs |-> orders[KeyOf[l][n]]],
                         seen |-> [l \in Legs |-> orders[KeyOf[l][n]]]]
            BY <1>12, <2>3, <4>2 DEF Restore
          <5> QED
            BY <5>1
        <4> QED
          BY <4>1, <4>2
      <3>3. OnTo("advance", FirstLeg(base[plan'.attempt]))
        BY <2>1, <3>1, <3>2 DEF OnTo
      <3> QED
        BY <1>1, <2>1, <3>2, <3>3
    <2> QED
      BY <2>2, <2>3
  <1>13. CASE Deliver \/ Repeats \/ (~Passes(shown.remaining) /\ Begins)
    BY <1>1, <1>13 DEF Deliver, Repeats, Begins, Begin, Free, vars, worker
  <1>14. CASE RecoverEnd /\ UNCHANGED closing
    BY <1>1, <1>14, ReturnEffect DEF RecoverEnd, After, Monitored, Idle, Stage
  <1>15. CASE (\A k \in Keys : submitted[k] = NoRequest) /\ RecoverStart /\ UNCHANGED closing
    BY <1>1, <1>15 DEF RecoverStart, Monitored, vars, closing
  <1>16. CASE MonitorLeaves /\ UNCHANGED closing
    BY <1>1, <1>16 DEF MonitorLeaves, vars, closing
  <1> QED
    BY <1>7, <1>8, <1>9, <1>10, <1>11, <1>12, <1>13, <1>14, <1>15, <1>16 DEF OwnStep

-----------------------------------------------------------------------------
(* Every step keeps the task and the thread together *)

\* A step that needs no call leaves the thread idle.
LEMMA OwnTask ==
    ASSUME CloseInv, OwnStep
    PROVE  TaskInv'
  <1> USE DEF Stages, PlanStages, Placing, Ending, ServiceStages
  <1>1. /\ TaskInv /\ recovery' \in {"none", "query", "restore", "leave", "stuck"}
        /\ \A remaining : FirstLeg(remaining) \in Legs
        /\ "first" \in Legs /\ "second" \in Legs
    BY OwnMoves DEF CloseInv, FirstLeg, Legs
  <1>2. ASSUME NEW stage \in {"record", "advance", "refresh", "complete"}, NEW leg \in Legs,
               OnTo(stage, leg), plan'.known
        PROVE  TaskInv'
    BY <1>1, <1>2, OnToMeans DEF TaskInv
  <1>3. CASE task' = NoTask /\ call'[Pool].phase = "idle"
    BY <1>1, <1>3 DEF TaskInv, NoTask, Task
  <1>4. CASE UNCHANGED <<call, task>> /\ plan' = plan
    BY <1>1, <1>4 DEF TaskInv, Key
  <1>5. CASE UNCHANGED <<call, task>> /\ task.stage = "free"
    BY <1>1, <1>5 DEF TaskInv
  <1> QED
    BY <1>1, <1>2, <1>3, <1>4, <1>5, OwnMoves

\* A call is for the leg of its task.
LEMMA CallTask ==
    ASSUME CloseInv, CallStep
    PROVE  TaskInv'
  <1> USE DEF Stages, PlanStages, Placing, Ending, ServiceStages
  <1>1. /\ TypeOK /\ TaskInv /\ PlanInv /\ BaseInv /\ OrdersPast /\ IInv /\ PlacedInv
        /\ recovery \in {"none", "query", "restore", "leave", "stuck"}
        /\ \A remaining : FirstLeg(remaining) \in Legs
    BY DEF CloseInv, IInv, TaskInv, FirstLeg, Legs
  <1>2. ASSUME NEW stage \in ServiceStages \ {"querying"}, NEW leg \in Legs,
               \E confirm, defer, restoring : task' = Task(stage, leg, confirm, defer, restoring),
               recovery' = recovery, plan'.known,
               NEW reply, NEW order, Over(reply, order)
        PROVE  TaskInv'
    BY <1>1, <1>2 DEF TaskInv, Task, Over, Stage
  <1>3. ASSUME NEW stage, NEW leg, GoTo(stage, leg)
        PROVE  /\ \E confirm, defer, restoring : task' = Task(stage, leg, confirm, defer, restoring)
               /\ recovery' = recovery
    BY <1>1, <1>3, TaskGoes
  <1>4. ASSUME task.stage \in {"advance", "record", "complete", "refresh"},
               UNCHANGED plan \/ \E held : plan' = [plan EXCEPT !.seen[task.leg] = held]
        PROVE  task.leg \in Legs /\ plan.known /\ plan'.known
    BY <1>1, <1>4 DEF TaskInv, PlanInv
  <1>5. CASE Submit(Pool, RequestOf(task.leg)) /\ AdvanceSubmit
    <2>1. /\ task.stage = "advance" /\ GoTo("sent", task.leg) /\ plan' = plan
          /\ Needed(task.leg) /\ task.leg \in Legs /\ plan.known
      BY <1>4, <1>5 DEF AdvanceSubmit, Due, At, closing
    <2>2. RequestOf(task.leg) \in Requests /\ RequestOf(task.leg).key = Key(task.leg)
      BY <1>1, <2>1, PlanRequest
    <2>3. \/ call'[Pool] = Stage("create", Key(task.leg), 0, NoOrder, {}, "none")
          \/ call'[Pool] = Stage("query", Key(task.leg), 0, NoOrder, {}, "none")
          \/ \E reply, order : Over(reply, order)
      BY <1>1, <1>5, <2>2, SubmitEffect
    <2>4. CASE \E reply, order : Over(reply, order)
      BY <1>2, <1>3, <2>1, <2>4
    <2>5. CASE \/ call'[Pool] = Stage("create", Key(task.leg), 0, NoOrder, {}, "none")
               \/ call'[Pool] = Stage("query", Key(task.leg), 0, NoOrder, {}, "none")
      BY <1>1, <1>3, <2>1, <2>5 DEF TaskInv, Task, Stage, Key
    <2> QED
      BY <2>3, <2>4, <2>5
  <1>6. CASE RecordLeg
    <2>1. /\ task.stage = "record" /\ GoTo("recorded", task.leg)
          /\ Record(Pool, Key(task.leg), plan.order[task.leg])
          /\ \E held : plan' = [plan EXCEPT !.seen[task.leg] = held]
      BY <1>6 DEF RecordLeg, At
    <2>2. task.leg \in Legs /\ plan.known /\ plan'.known
      BY <1>4, <2>1
    <2>3. \E reply, order : Over(reply, order)
      BY <1>1, <2>1, <2>2, PlanKey, RecordEffect
    <2> QED
      BY <1>2, <1>3, <2>1, <2>2, <2>3
  <1>7. CASE Complete
    <2>1. /\ task.stage = "complete" /\ GoTo("completing", task.leg) /\ plan' = plan
          /\ CompleteContext(Pool, Plan)
      BY <1>7 DEF Complete, At, closing
    <2>2. \E reply, order : Over(reply, order)
      BY <1>1, <2>1, ContextCall DEF Kinds
    <2> QED
      BY <1>2, <1>3, <1>4, <2>1, <2>2
  <1>8. CASE Refreshes /\ RefreshLeg
    <2>1. /\ task.stage = "refresh" /\ GoTo("refreshing", task.leg) /\ plan' = plan
          /\ Refresh(Pool, RequestOf(task.leg)) /\ plan.order[task.leg] # NoOrder
          /\ task.leg \in Legs /\ plan.known
      BY <1>4, <1>8 DEF Refreshes, RefreshLeg, At, closing
    <2>2. RequestOf(task.leg) \in Requests /\ RequestOf(task.leg).key = Key(task.leg)
      BY <1>1, <2>1, RefreshIsNeeded, PlanRequest
    <2>3. \/ call'[Pool] = Stage("query", Key(task.leg), 0, NoOrder, {}, "none")
          \/ \E reply, order : Over(reply, order)
      BY <1>1, <2>1, <2>2, RefreshEffect
    <2>4. CASE \E reply, order : Over(reply, order)
      BY <1>2, <1>3, <2>1, <2>4
    <2>5. CASE call'[Pool] = Stage("query", Key(task.leg), 0, NoOrder, {}, "none")
      BY <1>1, <1>3, <2>1, <2>5 DEF TaskInv, Task, Stage, Key
    <2> QED
      BY <2>3, <2>4, <2>5
  <1>9. CASE Passes(shown.remaining) /\ Begins
    <2>1. PICK n \in Attempts, batch \in SUBSET Requests :
            /\ RegisterContext(Pool, Plan, "close", batch)
            /\ plan' = [NoPlan EXCEPT !.known = TRUE, !.attempt = n]
            /\ task' = Task("registering", FirstLeg(shown.remaining), FALSE, FALSE, FALSE)
            /\ recovery' = recovery
      BY <1>9, BeginsCall
    <2>2. \E reply, order : Over(reply, order)
      BY <1>1, <2>1, ContextCall DEF Kinds
    <2>3. plan'.known
      BY <2>1 DEF NoPlan
    <2> QED
      BY <1>1, <1>2, <2>1, <2>2, <2>3
  <1>10. ASSUME NEW l \in Legs, NEW n \in Attempts, NEW order \in Past(KeyOf[l][n]),
                PrivateEvent(l, n, order)
         PROVE  TaskInv'
    <2>1. PICK held :
            /\ KeyOf[l][n] \in Keys /\ Record(Pool, KeyOf[l][n], held)
            /\ \/ /\ plan.known
                  /\ plan' = [plan EXCEPT !.seen[l] = held, !.order[l] = held]
                  /\ task' = Task("noting", l, FALSE, Recovering, FALSE)
               \/ task' = Task("noted", l, FALSE, FALSE, FALSE)
            /\ recovery' = recovery
      BY <1>1, <1>10, EventCall
    <2>2. PICK reply, o : Over(reply, o)
      BY <1>1, <2>1, RecordEffect
    <2>3. CASE task' = Task("noted", l, FALSE, FALSE, FALSE)
      BY <1>1, <2>1, <2>2, <2>3 DEF TaskInv, Task, Over, Stage
    <2>4. CASE /\ plan.known
               /\ plan' = [plan EXCEPT !.seen[l] = held, !.order[l] = held]
               /\ task' = Task("noting", l, FALSE, Recovering, FALSE)
      <3>1. plan'.known
        BY <1>1, <2>4 DEF PlanInv
      <3> QED
        BY <1>2, <2>1, <2>2, <2>4, <3>1
    <2> QED
      BY <2>1, <2>3, <2>4
  <1>11. CASE RecoverPending(Pool) /\ RecoverStart /\ UNCHANGED closing
    <2>1. /\ \E k \in Keys, batch \in SUBSET Keys :
                call'[Pool] = Stage("query", k, 0, NoOrder, batch, "none")
          /\ task' = Task("querying", "none", FALSE, FALSE, FALSE) /\ recovery' = recovery
      <3>1. \E k \in Keys : submitted[k] # NoRequest
        BY <1>11 DEF RecoverPending
      <3> QED
        BY <1>1, <1>11, <3>1, PendingEffect DEF RecoverStart
    <2> QED
      BY <1>1, <2>1 DEF TaskInv, Task, Stage
  <1> QED
    BY <1>5, <1>6, <1>7, <1>8, <1>9, <1>10, <1>11 DEF CallStep

\* What a service call that has begun leaves of the task: its key and its batch.
InTask(c) ==
    /\ c.phase # "idle"
    /\ c.phase \in {"create", "sent"} => task.stage = "sent" /\ c.key = Key(task.leg)
    /\ c.phase \in {"query", "asked"} =>
          \/ task.stage = "querying"
          \/ /\ task.stage \in {"sent", "refreshing"}
             /\ c.key = Key(task.leg) /\ c.batch = {}

\* A call inside the service stays with its task.
LEMMA ServiceTask ==
    ASSUME CloseInv, InService, UNCHANGED closing
    PROVE  TaskInv' /\ task.stage \in {"sent", "refreshing", "querying"}
  <1>1. IInv /\ AskedPast /\ TaskInv /\ UNCHANGED worker /\ UNCHANGED plan
    BY DEF CloseInv, AnswerPast, InService, closing
  <1>2. InTask(call[Pool]) /\ (InTask(call'[Pool]) => TaskInv')
        /\ task.stage \in {"sent", "refreshing", "querying"}
    <2>1. call[Pool].phase \in {"create", "sent", "query", "asked"}
      BY <1>1, ServiceEffect
    <2> QED
      BY <1>1, <2>1 DEF worker, TaskInv, InTask, Key
  <1>3. ASSUME NEW reply, NEW order, Over(reply, order) PROVE InTask(call'[Pool])
    BY <1>3 DEF Over, Stage, InTask
  <1>4. ASSUME NEW phase \in {"sent", "query"}, NEW n,
               call[Pool].phase \in {"create", "sent"},
               call'[Pool] = Stage(phase, call[Pool].key, n, NoOrder, {}, "none")
        PROVE  InTask(call'[Pool])
    BY <1>2, <1>4 DEF Stage, InTask
  <1>5. ASSUME NEW phase \in {"asked", "query"}, NEW j, NEW order, NEW batch,
               call[Pool].phase \in {"query", "asked"},
               \/ j = call[Pool].key /\ batch = call[Pool].batch
               \/ call[Pool].batch # {},
               call'[Pool] = Stage(phase, j, 0, order, batch, "none")
        PROVE  InTask(call'[Pool])
    BY <1>2, <1>5 DEF Stage, InTask
  <1>6. CASE \E reply, order : Over(reply, order)
    BY <1>2, <1>3, <1>6
  <1>7. CASE /\ call[Pool].phase = "create"
             /\ \E n \in Nat :
                  call'[Pool] = Stage("sent", call[Pool].key, n, NoOrder, {}, "none")
    BY <1>2, <1>4, <1>7
  <1>8. CASE /\ call[Pool].phase = "sent"
             /\ call'[Pool] = Stage("query", call[Pool].key, 0, NoOrder, {}, "none")
    BY <1>2, <1>4, <1>8
  <1>9. CASE /\ call[Pool].phase = "query"
             /\ call'[Pool] = Stage("asked", call[Pool].key, 0, market[call[Pool].key],
                                    call[Pool].batch, "none")
    BY <1>2, <1>5, <1>9
  <1>10. CASE /\ call[Pool].phase = "asked" /\ call[Pool].batch # {}
              /\ \E j \in call[Pool].batch :
                   call'[Pool] = Stage("query", j, 0, NoOrder, call[Pool].batch \ {j}, "none")
    BY <1>2, <1>5, <1>10
  <1> QED
    BY <1>1, <1>6, <1>7, <1>8, <1>9, <1>10, ServiceEffect

\* Every step does.
LEMMA TaskStep ==
    ASSUME CloseInv, Calm, [CloseNext]_closeVars
    PROVE  TaskInv'
  <1>1. TypeOK /\ TaskInv /\ NamedInv
    BY DEF CloseInv, IInv
  <1>2. CASE ExchangeTrades
    BY <1>1, <1>2 DEF ExchangeTrades, ExchangeStep, worker, closing, TaskInv, Key
  <1>3. CASE ProcessRestart
    <2>1. /\ task' = NoTask /\ recovery' \in {"query", "none"}
          /\ call'[Pool] = Idle
      BY <1>3, OnePlan DEF ProcessRestart, WorkerRestart, Restart
    <2> QED
      BY <2>1 DEF TaskInv, NoTask, Task, Idle, Stage, Stages, ServiceStages, PlanStages,
                  Placing, Ending
  <1>4. CASE UNCHANGED closeVars
    BY <1>1, <1>4 DEF closeVars, vars, worker, closing, TaskInv, Key
  <1> QED
    BY <1>1, <1>2, <1>3, <1>4, StepCases, OwnTask, CallTask, ServiceTask

-----------------------------------------------------------------------------
(* What the calls do *)

\* A call is over at once, without an order.
Answers == call'[Pool].phase = "done" /\ call'[Pool].result # "order"
           /\ call'[Pool].result \notin Failures

\* A leg that is due is submitted under its id.
Submitting ==
    /\ task.stage = "advance" /\ task.leg \in Legs /\ plan.known
    /\ Needed(task.leg) /\ plan.order[task.leg] = NoOrder /\ MayName(Key(task.leg))
    /\ Submit(Pool, RequestOf(task.leg))
    /\ RequestOf(task.leg) \in Requests /\ RequestOf(task.leg).key = Key(task.leg)
    /\ RequestOf(task.leg).quantity = Prepared(base[plan.attempt][task.leg])
    /\ Preparable(base[plan.attempt][task.leg])
    /\ task'.stage = "sent" /\ task'.leg = task.leg
    /\ Writes /\ UNCHANGED <<exchangeVars, orders, uncertain, contexts, restarts,
                             recovery, closing>>

\* The order of an id is recorded: of a leg of the plan that has just been placed or
\* known, of one that the private stream has brought, or of an earlier attempt.
RecordsLeg(k, order) ==
    /\ task.stage = "record" /\ task'.stage = "recorded" /\ task'.leg = task.leg
    /\ task.leg \in Legs /\ plan.known /\ Key(task.leg) = k /\ plan.order[task.leg] = order
    /\ \E held \in Past(k) : plan' = [plan EXCEPT !.seen[task.leg] = held]
RecordsEvent(l, k, order) ==
    /\ task.stage = "free" /\ task'.stage = "noting" /\ plan.known /\ Key(l) = k
    /\ plan' = [plan EXCEPT !.seen[l] = order, !.order[l] = order]
Recording(k, order) ==
    /\ Record(Pool, k, order) /\ orders' = [orders EXCEPT ![k] = order]
    /\ \/ RecordsLeg(k, order)
       \/ \E l \in Legs : RecordsEvent(l, k, order)
       \/ task.stage = "free" /\ task'.stage = "noted" /\ plan' = plan
    /\ Answers /\ Writes
    /\ UNCHANGED <<exchangeVars, contexts, restarts, recovery, opened, attempt, base,
                   result, posted, shown>>

\* The context of a close that is over goes.
Completing ==
    /\ task.stage = "complete" /\ task'.stage = "completing" /\ task'.leg = task.leg
    /\ CompleteContext(Pool, Plan) /\ contexts'[Plan] = NoContext
    /\ Answers /\ Writes
    /\ UNCHANGED <<exchangeVars, orders, restarts, recovery, closing>>

\* The order of a leg is queried again.
Refreshing ==
    /\ task.stage = "refresh" /\ task'.stage = "refreshing" /\ task'.leg = task.leg
    /\ task.leg \in Legs /\ plan.known /\ Refresh(Pool, RequestOf(task.leg))
    /\ RequestOf(task.leg) \in Requests /\ RequestOf(task.leg).key = Key(task.leg)
    /\ RequestOf(task.leg).quantity = Prepared(base[plan.attempt][task.leg])
    /\ \/ call'[Pool].phase = "query"
       \/ call'[Pool].phase = "done" /\ call'[Pool].result # "order"
    /\ UNCHANGED <<exchangeVars, orders, contexts, journal, restarts, recovery, closing>>

\* An attempt begins, with its context.
Beginning(n) ==
    /\ Begins /\ Passes(shown.remaining)
    /\ \E batch \in SUBSET Requests : RegisterContext(Pool, Plan, "close", batch)
    /\ n = attempt + 1 /\ attempt' = n
    /\ base' = [base EXCEPT ![n] = shown.remaining]
    /\ plan' = [NoPlan EXCEPT !.known = TRUE, !.attempt = n]
    /\ task' = Task("registering", FirstLeg(shown.remaining), FALSE, FALSE, FALSE)
    /\ result' = NoResult /\ contexts'[Plan] = Context(n)'
    /\ Answers /\ Writes
    /\ UNCHANGED <<exchangeVars, requests, submitted, orders, uncertain, attempted,
                   restarts, opened, posted, shown, recovery>>

\* A new process asks for every order that the journal names.
AskingAll ==
    /\ task.stage = "free" /\ task'.stage = "querying" /\ call'[Pool].phase = "query"
    /\ RecoverPending(Pool)
    /\ UNCHANGED <<exchangeVars, memory, journal, restarts, faults, recovery, closing>>

\* There are no other calls.
LEMMA CloseCalls ==
    ASSUME CloseInv, CallStep
    PROVE  \/ Submitting
           \/ \E k \in Keys : \E order \in Past(k) : Recording(k, order)
           \/ Completing
           \/ Refreshing
           \/ \E n \in Attempts : Beginning(n)
           \/ AskingAll
  <1>1. /\ IInv /\ TypeOK /\ TaskInv /\ PlanInv /\ BaseInv /\ OrdersPast /\ NamedInv
        /\ RecordPast /\ PlacedInv
    BY DEF CloseInv, IInv
  <1>2. ASSUME NEW reply \in {"none", "oserror"}, Over(reply, NoOrder) PROVE Answers
    BY <1>2 DEF Over, Stage, Answers, Failures
  <1>3. ASSUME NEW stage, NEW leg, GoTo(stage, leg)
        PROVE  task'.stage = stage /\ task'.leg = leg /\ recovery' = recovery
    BY <1>1, <1>3, TaskGoes DEF Task
  <1>4. ASSUME task.stage \in {"advance", "record", "complete", "refresh"}
        PROVE  task.leg \in Legs /\ plan.known
    BY <1>1, <1>4 DEF TaskInv, PlanStages, Placing, Ending
  <1>5. CASE Submit(Pool, RequestOf(task.leg)) /\ AdvanceSubmit
    <2>1. /\ task.stage = "advance" /\ GoTo("sent", task.leg) /\ UNCHANGED closing
          /\ Needed(task.leg) /\ plan.order[task.leg] = NoOrder
      BY <1>5 DEF AdvanceSubmit, Due, At
    <2>2. task.leg \in Legs /\ plan.known /\ MayName(Key(task.leg))
      BY <1>4, <2>1, DueIsNamed
    <2>3. /\ RequestOf(task.leg) \in Requests /\ RequestOf(task.leg).key = Key(task.leg)
          /\ RequestOf(task.leg).quantity = Prepared(base[plan.attempt][task.leg])
          /\ Preparable(base[plan.attempt][task.leg])
      BY <1>1, <2>1, <2>2, PlanRequest
    <2>4. /\ UNCHANGED <<exchangeVars, orders, uncertain, restarts>> /\ Writes
      BY <1>1, <1>5, <2>3, SubmitEffect
    <2>5. contexts' = contexts
      BY <1>5 DEF Submit, SubmitConflict, SubmitKnown, SubmitDuplicate, SubmitUnprepared,
                  SubmitClaim, SubmitQuery, memory
    <2> QED
      BY <1>3, <1>5, <2>1, <2>2, <2>3, <2>4, <2>5 DEF Submitting
  <1>6. ASSUME NEW k \in Keys, NEW order \in Past(k), Record(Pool, k, order)
        PROVE  /\ orders' = [orders EXCEPT ![k] = order] /\ Answers /\ Writes
               /\ UNCHANGED <<exchangeVars, contexts, restarts>>
    BY <1>1, <1>2, <1>6, RecordEffect
  <1>7. CASE RecordLeg
    <2>1. /\ task.stage = "record" /\ GoTo("recorded", task.leg)
          /\ Record(Pool, Key(task.leg), plan.order[task.leg])
          /\ \E held \in Reconciled(plan.seen[task.leg], plan.order[task.leg]) :
                plan' = [plan EXCEPT !.seen[task.leg] = held]
          /\ UNCHANGED <<opened, attempt, base, result, posted, shown>>
      BY <1>7 DEF RecordLeg, At
    <2>2. task.leg \in Legs /\ plan.known /\ plan.order[task.leg] # NoOrder
      BY <1>1, <1>4, <2>1 DEF RecordPast
    <2>3. /\ Key(task.leg) \in Keys /\ plan.order[task.leg] \in Past(Key(task.leg))
          /\ plan.seen[task.leg] \in Past(Key(task.leg)) \cup {NoOrder}
      BY <1>1, <2>2, PlanKey DEF OrdersPast
    <2>4. \E held \in Past(Key(task.leg)) : plan' = [plan EXCEPT !.seen[task.leg] = held]
      BY <2>1, <2>3, ReconciledPast
    <2>5. RecordsLeg(Key(task.leg), plan.order[task.leg])
      BY <1>3, <2>1, <2>2, <2>4 DEF RecordsLeg
    <2>6. Recording(Key(task.leg), plan.order[task.leg])
      BY <1>3, <1>6, <2>1, <2>3, <2>5 DEF Recording
    <2> QED
      BY <2>3, <2>6
  <1>8. CASE Complete
    <2>1. /\ task.stage = "complete" /\ GoTo("completing", task.leg) /\ UNCHANGED closing
          /\ CompleteContext(Pool, Plan)
      BY <1>8 DEF Complete, At
    <2>2. /\ UNCHANGED <<exchangeVars, orders, restarts>> /\ Writes
          /\ contexts'[Plan] = NoContext
      BY <1>1, <2>1, ContextCall DEF Kinds
    <2>3. \E reply \in {"none", "oserror"} : Over(reply, NoOrder)
      BY <1>1, <2>1, DoneOver, FailsOver DEF CompleteContext
    <2> QED
      BY <1>2, <1>3, <2>1, <2>2, <2>3 DEF Completing
  <1>9. CASE Refreshes /\ RefreshLeg
    <2>1. /\ task.stage = "refresh" /\ GoTo("refreshing", task.leg) /\ UNCHANGED closing
          /\ Refresh(Pool, RequestOf(task.leg)) /\ plan.order[task.leg] # NoOrder
      BY <1>9 DEF Refreshes, RefreshLeg, At
    <2>2. task.leg \in Legs /\ plan.known /\ Needed(task.leg)
      BY <1>1, <1>4, <2>1, RefreshIsNeeded
    <2>3. /\ RequestOf(task.leg) \in Requests /\ RequestOf(task.leg).key = Key(task.leg)
          /\ RequestOf(task.leg).quantity = Prepared(base[plan.attempt][task.leg])
      BY <1>1, <2>2, PlanRequest
    <2>4. /\ UNCHANGED <<exchangeVars, orders, contexts, journal, restarts>>
          /\ \/ call'[Pool] = Stage("query", Key(task.leg), 0, NoOrder, {}, "none")
             \/ Over("unprepared", NoOrder)
      BY <1>1, <2>1, <2>3, RefreshEffect
    <2>5. \/ call'[Pool].phase = "query"
          \/ call'[Pool].phase = "done" /\ call'[Pool].result # "order"
      BY <2>4 DEF Over, Stage
    <2> QED
      BY <1>3, <2>1, <2>2, <2>3, <2>4, <2>5 DEF Refreshing
  <1>10. CASE Passes(shown.remaining) /\ Begins
    <2>1. PICK n \in Attempts, batch \in SUBSET Requests :
            /\ n = attempt + 1 /\ attempt' = n
            /\ batch = {RequestFor(l, n, shown.remaining) :
                          l \in {m \in Legs : shown.remaining[m] > 0}}
            /\ RegisterContext(Pool, Plan, "close", batch)
            /\ base' = [base EXCEPT ![n] = shown.remaining]
            /\ plan' = [NoPlan EXCEPT !.known = TRUE, !.attempt = n]
            /\ task' = Task("registering", FirstLeg(shown.remaining), FALSE, FALSE, FALSE)
            /\ result' = NoResult
            /\ UNCHANGED <<opened, posted, shown, recovery>>
      BY <1>10, BeginsCall
    <2>2. contexts[Plan].kind \in {"none", "close"} /\ contexts[Plan].confirm = FALSE
      <3>1. contexts[Plan] = NoContext \/ \E m : contexts[Plan] = Context(m)
        BY <1>1 DEF NamedInv, Contexted
      <3>2. NoContext.kind = "none"
        BY DEF NoContext
      <3> QED
        BY <1>1, <3>1, <3>2, ContextNames, NeverConfirms
    <2>3. /\ UNCHANGED <<exchangeVars, requests, submitted, orders, uncertain, attempted,
                         restarts>>
          /\ contexts' = [contexts EXCEPT ![Plan] =
                [kind |-> "close", requests |-> batch, confirm |-> @.confirm]]
          /\ (Persisted /\ Done(Pool, "none", NoOrder)) \/ WriteFails(Pool)
      BY <2>1, <2>2 DEF RegisterContext
    <2>4. contexts'[Plan] = [kind |-> "close", requests |-> batch, confirm |-> FALSE]
      BY <1>1, <2>2, <2>3, OnePlan DEF TypeOK
    <2>5. base'[n] = shown.remaining
      BY <1>1, <2>1 DEF BaseInv
    <2>6. contexts'[Plan] = Context(n)'
      BY <2>1, <2>4, <2>5 DEF Context
    <2>7. Answers /\ Writes
      BY <1>1, <1>2, <2>3, DoneOver, FailsOver, JournalWrites
    <2> QED
      BY <1>10, <2>1, <2>3, <2>6, <2>7 DEF Beginning
  <1>11. ASSUME NEW l \in Legs, NEW n \in Attempts, NEW order \in Past(KeyOf[l][n]),
                PrivateEvent(l, n, order)
         PROVE  \E k \in Keys : \E held \in Past(k) : Recording(k, held)
    <2> DEFINE k == KeyOf[l][n]
    <2>1. PICK held \in Past(k) :
            /\ k \in Keys /\ Free /\ Record(Pool, k, held)
            /\ \/ /\ plan.known /\ plan.attempt = n
                  /\ plan' = [plan EXCEPT !.seen[l] = held, !.order[l] = held]
                  /\ task' = Task("noting", l, FALSE, Recovering, FALSE)
               \/ /\ UNCHANGED plan
                  /\ task' = Task("noted", l, FALSE, FALSE, FALSE)
            /\ UNCHANGED <<opened, attempt, base, result, posted, shown, recovery>>
      BY <1>1, <1>11, EventCall
    <2>2. task.stage = "free"
      BY <2>1 DEF Free
    <2>3. RecordsEvent(l, k, held) \/ (task'.stage = "noted" /\ plan' = plan)
      BY <2>1, <2>2 DEF RecordsEvent, Task, Key
    <2>4. Recording(k, held)
      BY <1>6, <2>1, <2>2, <2>3 DEF Recording
    <2> QED
      BY <2>1, <2>4
  <1>12. CASE RecoverPending(Pool) /\ RecoverStart /\ UNCHANGED closing
    <2>1. \E k \in Keys : submitted[k] # NoRequest
      BY <1>12 DEF RecoverPending
    <2>2. task.stage = "free" /\ task'.stage = "querying" /\ recovery' = recovery
      BY <1>12, <2>1 DEF RecoverStart, Free, Task
    <2>3. /\ UNCHANGED <<exchangeVars, memory, journal, restarts, faults>>
          /\ \E k \in Keys, batch \in SUBSET Keys :
                call'[Pool] = Stage("query", k, 0, NoOrder, batch, "none")
      BY <1>1, <1>12, PendingEffect
    <2>4. call'[Pool].phase = "query"
      BY <2>3 DEF Stage
    <2> QED
      BY <1>12, <2>2, <2>3, <2>4 DEF AskingAll
  <1>13. CASE \E l \in Legs, n \in Attempts :
                 \E order \in Past(KeyOf[l][n]) : PrivateEvent(l, n, order)
    BY <1>11, <1>13
  <1>14. \/ Submit(Pool, RequestOf(task.leg)) /\ AdvanceSubmit
         \/ RecordLeg \/ Complete
         \/ Refreshes /\ RefreshLeg
         \/ Passes(shown.remaining) /\ Begins
         \/ \E l \in Legs, n \in Attempts :
               \E order \in Past(KeyOf[l][n]) : PrivateEvent(l, n, order)
         \/ RecoverPending(Pool) /\ RecoverStart /\ UNCHANGED closing
    BY DEF CallStep
  <1> QED
    BY <1>5, <1>7, <1>8, <1>9, <1>10, <1>12, <1>13, <1>14

-----------------------------------------------------------------------------
(* Every step keeps the plan, and its orders, of the past *)

\* A plan that is restored is that of the attempt whose context is in the memory.
LEMMA RestoredPlan ==
    ASSUME NamedInv, BaseInv, Restores
    PROVE  /\ ContextAttempt \in 1..attempt /\ contexts[Plan] = Context(ContextAttempt)
           /\ plan'.known /\ plan'.attempt = ContextAttempt
           /\ \A l \in Legs : /\ plan'.order[l] = orders[KeyOf[l][ContextAttempt]]
                              /\ plan'.seen[l] = orders[KeyOf[l][ContextAttempt]]
           /\ plan' = [known |-> plan'.known, attempt |-> plan'.attempt,
                       order |-> plan'.order, seen |-> plan'.seen]
  <1>1. contexts[Plan] # NoContext /\ Contexted(contexts[Plan])
    BY DEF Restores, NamedInv
  <1>2. PICK n \in 1..attempt : contexts[Plan] = Context(n)
    BY <1>1 DEF Contexted
  <1>3. ContextAttempt = n
    BY <1>2, ContextOfOne
  <1>4. plan' = [known |-> TRUE, attempt |-> ContextAttempt,
                 order |-> [l \in Legs |-> orders[KeyOf[l][ContextAttempt]]],
                 seen |-> [l \in Legs |-> orders[KeyOf[l][ContextAttempt]]]]
    BY DEF Restores
  <1>5. /\ plan'.known /\ plan'.attempt = ContextAttempt
        /\ plan'.order = [l \in Legs |-> orders[KeyOf[l][ContextAttempt]]]
        /\ plan'.seen = [l \in Legs |-> orders[KeyOf[l][ContextAttempt]]]
    BY <1>4
  <1> QED
    BY <1>2, <1>3, <1>4, <1>5

\* An answer that is taken becomes the order of its leg, and nothing else changes.
LEMMA TakenPlan ==
    ASSUME CloseInv, Takes
    PROVE  /\ task.leg \in Legs /\ plan.known
           /\ call[Pool].order \in Past(Key(task.leg)) /\ orders[Key(task.leg)] # NoOrder
           /\ call[Pool].order \in Orders
           /\ plan' = [plan EXCEPT !.order[task.leg] = call[Pool].order]
           /\ plan'.known /\ plan'.attempt = plan.attempt /\ plan'.seen = plan.seen
           /\ plan'.order = [plan.order EXCEPT ![task.leg] = call[Pool].order]
  <1>1. /\ TypeOK /\ TaskInv /\ PlanInv /\ BaseInv /\ AnswerPast
    BY DEF CloseInv, IInv
  <1>2. task.leg \in Legs /\ plan.known
    BY <1>1 DEF Takes, TaskInv, PlanStages, Placing
  <1>3. call[Pool].order \in Past(Key(task.leg)) /\ orders[Key(task.leg)] # NoOrder
    BY <1>1 DEF Takes, AnswerPast
  <1>4. call[Pool].order \in Orders
    BY <1>1, <1>2, <1>3, PlanKey, PastFacts
  <1>5. plan' = [plan EXCEPT !.order[task.leg] = call[Pool].order]
    BY DEF Takes
  <1> QED
    BY <1>1, <1>2, <1>3, <1>4, <1>5 DEF PlanInv

\* The plan of a step of its own, and the orders it then holds.
LEMMA OwnPast ==
    ASSUME CloseInv, OwnStep
    PROVE  PlanInv' /\ OrdersPast' /\ AnswerPast'
  <1>1. /\ TypeOK /\ TaskInv /\ PlanInv /\ BaseInv /\ NamedInv /\ OrdersPast /\ AnswerPast
        /\ orders' = orders /\ market' = market /\ attempt' = attempt
        /\ \A k : Past(k)' = Past(k)
        /\ call'[Pool].phase = "idle" \/ UNCHANGED <<call, task>>
    BY OwnEffect DEF CloseInv, IInv, exchangeVars, memory, Past
  <1>2. CASE plan' = plan
    BY <1>1, <1>2 DEF PlanInv, OrdersPast, AnswerPast, AskedPast, Key
  <1>3. CASE Takes
    <2>1. PlanInv'
      BY <1>1, <1>3, TakenPlan DEF PlanInv
    <2>2. \A l \in Legs : Key(l)' = Key(l)
      BY <1>3, TakenPlan DEF Key
    <2>3. OrdersPast'
      BY <1>1, <1>3, <2>2, TakenPlan DEF OrdersPast, PlanInv
    <2>4. AnswerPast'
      BY <1>1, <1>3, <2>2, TakenPlan DEF AnswerPast, AskedPast
    <2> QED
      BY <2>1, <2>3, <2>4
  <1>4. CASE Restores
    <2>1. ContextAttempt \in Attempts /\ \A l \in Legs : KeyOf[l][ContextAttempt] \in Keys
      BY <1>1, <1>4, RestoredPlan, AttemptType, KeyFacts
    <2>2. /\ plan'.order = [l \in Legs |-> orders[KeyOf[l][ContextAttempt]]]
          /\ plan'.seen = [l \in Legs |-> orders[KeyOf[l][ContextAttempt]]]
      BY <1>4 DEF Restores
    <2>3. PlanInv'
      BY <1>1, <1>4, <2>1, <2>2, RestoredPlan DEF PlanInv, TypeOK
    <2>4. \A l \in Legs : Key(l)' = KeyOf[l][ContextAttempt]
      BY <1>1, <1>4, RestoredPlan DEF Key
    <2>5. OrdersPast'
      BY <1>1, <1>4, <2>1, <2>2, <2>4, RestoredPlan DEF OrdersPast
    <2>6. AnswerPast'
      <3>1. task.stage \notin {"sent", "refreshing"} \/ call'[Pool].phase = "idle"
        BY <1>1, <1>4 DEF Restores, TaskInv, PlanStages, Placing
      <3> QED
        BY <1>1, <3>1 DEF AnswerPast, AskedPast
    <2> QED
      BY <2>3, <2>5, <2>6
  <1>5. CASE Refused
    <2>1. plan' = NoPlan /\ UNCHANGED <<call, task>> /\ task.stage = "free"
      BY <1>5 DEF Refused, vars, worker, Begins, Free
    <2>2. PlanInv' /\ ~plan'.known
      BY <2>1 DEF PlanInv, NoPlan
    <2> QED
      BY <1>1, <2>1, <2>2 DEF OrdersPast, AnswerPast, AskedPast
  <1> QED
    BY <1>1, <1>2, <1>3, <1>4, <1>5, OwnPlan

\* It records a leg that has an order, and comes to a leg as it may.
LEMMA OwnFollows ==
    ASSUME CloseInv, OwnStep
    PROVE  RecordPast' /\ FollowInv'
  <1>1. /\ TypeOK /\ TaskInv /\ PlanInv /\ BaseInv /\ NamedInv /\ FollowInv /\ RecordPast
        /\ base' = base /\ "free" \notin Placing \cup {"registering"}
    BY OwnEffect DEF CloseInv, IInv, Placing
  <1>2. CASE UNCHANGED <<call, task>> /\ (plan' = plan \/ task.stage = "free")
    BY <1>1, <1>2 DEF RecordPast, FollowInv, FirstDone, Needed, Remains
  <1>3. CASE task'.stage \notin Placing \cup {"registering"}
    BY <1>3 DEF RecordPast, FollowInv, Placing
  <1>4. CASE /\ plan.known /\ plan'.known
             /\ OnTo("record", task.leg) /\ task.leg \in Legs
             /\ task.stage \in {"advance", "sent"}
             /\ Needed(task.leg) /\ plan'.order[task.leg] # NoOrder
    <2>1. task'.stage = "record" /\ task'.leg = task.leg
      BY <1>4, OnToMeans
    <2>2. plan' = plan \/ Takes
      BY <1>1, <1>4, OwnPlan DEF Restores, Refused, NoPlan
    <2>3. /\ plan'.attempt = plan.attempt
          /\ \A l \in Legs \ {task.leg} : plan'.order[l] = plan.order[l]
      BY <1>1, <2>2, TakenPlan DEF PlanInv
    <2>4. \A l \in Legs : Needed(l)' <=> Needed(l)
      BY <1>1, <2>3 DEF Needed, Remains
    <2>5. task.leg = "second" => FirstDone'
      BY <1>1, <1>4, <2>3, <2>4 DEF FollowInv, FirstDone, Placing, Legs
    <2> QED
      BY <1>4, <2>1, <2>4, <2>5 DEF RecordPast, FollowInv
  <1>5. CASE /\ plan.known /\ OnTo("advance", "second") /\ plan' = plan
             /\ plan.order["first"].status = "filled"
    BY <1>5, OnToMeans DEF RecordPast, FollowInv, FirstDone
  <1>6. CASE plan'.known /\ OnTo("advance", FirstLeg(base[plan'.attempt]))
    <2>1. task'.stage = "advance" /\ task'.leg = FirstLeg(base[plan'.attempt])
      BY <1>6, OnToMeans
    <2>2. \/ task'.leg = "first" /\ Needed("first")'
          \/ task'.leg = "second" /\ ~Needed("first")'
      BY <1>1, <2>1 DEF FirstLeg, Needed, Remains
    <2> QED
      BY <2>1, <2>2 DEF RecordPast, FollowInv, FirstDone
  <1>7. ASSUME NEW stage \in {"refresh", "complete"}, NEW leg, OnTo(stage, leg)
        PROVE  task'.stage \notin Placing \cup {"registering"}
    BY <1>7, OnToMeans DEF Placing
  <1>8. task' = NoTask => task'.stage \notin Placing \cup {"registering"}
    BY DEF NoTask, Task, Placing
  <1> QED
    BY <1>2, <1>3, <1>4, <1>5, <1>6, <1>7, <1>8, OwnMoves

\* So it is of a call that begins.
LEMMA CallPast ==
    ASSUME CloseInv, CallStep
    PROVE  PlanInv' /\ OrdersPast' /\ AnswerPast' /\ RecordPast' /\ FollowInv'
  <1> DEFINE Goal == PlanInv' /\ OrdersPast' /\ AnswerPast' /\ RecordPast' /\ FollowInv'
  <1>1. /\ TypeOK /\ TaskInv /\ PlanInv /\ BaseInv /\ OrdersPast /\ FollowInv /\ RecordPast
        /\ orders \in [Keys -> Orders \cup {NoOrder}]
    BY DEF CloseInv, IInv, TypeOK
  <1>2. ASSUME market' = market PROVE \A k : Past(k)' = Past(k)
    BY <1>2 DEF Past
  <1>3. ASSUME Answers PROVE AnswerPast'
    BY <1>3 DEF Answers, AnswerPast, AskedPast
  <1>4. ASSUME plan' = plan PROVE \A l : Key(l)' = Key(l)
    BY <1>4 DEF Key
  <1>5. ASSUME plan' = plan, UNCHANGED <<orders, market, attempt>> PROVE PlanInv' /\ OrdersPast'
    BY <1>1, <1>2, <1>4, <1>5 DEF PlanInv, OrdersPast
  <1>6. ASSUME task'.stage \notin Placing \cup {"registering"} PROVE RecordPast' /\ FollowInv'
    BY <1>6 DEF RecordPast, FollowInv, Placing
  <1>7. CASE Submitting
    <2>1. /\ task'.stage = "sent" /\ task'.leg = task.leg /\ task.stage = "advance"
          /\ task.leg \in Legs /\ plan.known /\ Needed(task.leg)
          /\ UNCHANGED <<orders, market, plan, attempt, base>>
      BY <1>7 DEF Submitting, exchangeVars, closing
    <2>2. \/ call'[Pool].phase \in {"create", "query"}
          \/ call'[Pool].phase = "done" /\ call'[Pool].result # "order"
          \/ call'[Pool].phase = "done" /\ call'[Pool].order = orders[Key(task.leg)]
             /\ orders[Key(task.leg)] # NoOrder
      <3>1. RequestOf(task.leg) \in Requests /\ RequestOf(task.leg).key = Key(task.leg)
            /\ Submit(Pool, RequestOf(task.leg))
        BY <1>7 DEF Submitting
      <3>2. \/ call'[Pool] = Stage("create", Key(task.leg), 0, NoOrder, {}, "none")
            \/ call'[Pool] = Stage("query", Key(task.leg), 0, NoOrder, {}, "none")
            \/ Over("order", orders[Key(task.leg)]) /\ orders[Key(task.leg)] # NoOrder
            \/ \E reply \in Results \ {"order"} : Over(reply, NoOrder)
        BY <1>1, <3>1, SubmitEffect
      <3>3. CASE Over("order", orders[Key(task.leg)]) /\ orders[Key(task.leg)] # NoOrder
        BY <3>3 DEF Over, Stage
      <3>4. CASE \E reply \in Results \ {"order"} : Over(reply, NoOrder)
        BY <3>4 DEF Over, Stage
      <3> QED
        BY <3>2, <3>3, <3>4 DEF Stage
    <2>3. orders[Key(task.leg)] \in Past(Key(task.leg)) \cup {NoOrder}
      BY <1>1, <2>1, PlanKey DEF OrdersPast
    <2>4. AnswerPast'
      BY <1>2, <1>4, <2>1, <2>2, <2>3 DEF AnswerPast, AskedPast
    <2>5. RecordPast' /\ FollowInv'
      BY <1>1, <2>1 DEF RecordPast, FollowInv, FirstDone, Needed, Remains, Placing
    <2> QED
      BY <1>5, <2>1, <2>4, <2>5
  <1>8. ASSUME NEW k \in Keys, NEW order \in Past(k), Recording(k, order)
        PROVE  Goal
    <2>1. /\ orders' = [orders EXCEPT ![k] = order] /\ Answers /\ market' = market
          /\ order # NoOrder /\ order \in Orders /\ UNCHANGED <<attempt, base>>
          /\ \A i : Past(i)' = Past(i)
      BY <1>1, <1>2, <1>8, PastFacts DEF Recording, exchangeVars
    <2>2. \A i \in Keys : /\ orders'[i] \in Past(i) \cup {NoOrder}
                          /\ orders[i] # NoOrder => orders'[i] # NoOrder
                          /\ orders'[k] # NoOrder
      BY <1>1, <2>1 DEF OrdersPast
    <2>3. CASE RecordsLeg(k, order)
      <3>1. PICK held \in Past(k) : plan' = [plan EXCEPT !.seen[task.leg] = held]
        BY <2>3 DEF RecordsLeg
      <3>2. /\ task.leg \in Legs /\ plan.known /\ Key(task.leg) = k /\ task.stage = "record"
            /\ task'.stage = "recorded" /\ task'.leg = task.leg /\ plan.order[task.leg] = order
        BY <2>3 DEF RecordsLeg
      <3>3. /\ held \in Orders /\ plan'.known /\ plan'.attempt = plan.attempt
            /\ plan'.order = plan.order /\ plan'.seen = [plan.seen EXCEPT ![task.leg] = held]
        BY <1>1, <3>1, <3>2, PastFacts DEF PlanInv
      <3>4. \A l \in Legs : Key(l)' = Key(l) /\ Key(l) \in Keys
        BY <1>1, <3>2, <3>3, PlanKey DEF Key
      <3>5. PlanInv'
        BY <1>1, <2>1, <3>1, <3>2, <3>3 DEF PlanInv
      <3>6. OrdersPast'
        BY <1>1, <2>1, <2>2, <3>2, <3>3, <3>4 DEF OrdersPast, PlanInv
      <3>7. RecordPast' /\ FollowInv'
        BY <1>1, <2>1, <3>2, <3>3 DEF RecordPast, FollowInv, FirstDone, Needed, Remains, Placing
      <3> QED
        BY <1>3, <2>1, <3>5, <3>6, <3>7
    <2>4. CASE \E l \in Legs : RecordsEvent(l, k, order)
      <3>1. PICK l \in Legs : /\ task'.stage = "noting" /\ plan.known /\ Key(l) = k
                              /\ plan' = [plan EXCEPT !.seen[l] = order, !.order[l] = order]
        BY <2>4 DEF RecordsEvent
      <3>2. /\ plan'.known /\ plan'.attempt = plan.attempt
            /\ plan'.order = [plan.order EXCEPT ![l] = order]
            /\ plan'.seen = [plan.seen EXCEPT ![l] = order]
        BY <1>1, <3>1 DEF PlanInv
      <3>3. \A m \in Legs : Key(m)' = Key(m) /\ Key(m) \in Keys
        BY <1>1, <3>1, <3>2, PlanKey DEF Key
      <3>4. PlanInv'
        BY <1>1, <2>1, <3>1, <3>2 DEF PlanInv
      <3>5. OrdersPast'
        BY <1>1, <2>1, <2>2, <3>1, <3>2, <3>3 DEF OrdersPast, PlanInv
      <3>6. RecordPast' /\ FollowInv'
        BY <1>6, <3>1 DEF Placing
      <3> QED
        BY <1>3, <2>1, <3>4, <3>5, <3>6
    <2>5. CASE task'.stage = "noted" /\ plan' = plan
      <3>1. PlanInv'
        BY <1>1, <2>1, <2>5 DEF PlanInv
      <3>2. plan.known => \A l \in Legs : Key(l)' = Key(l) /\ Key(l) \in Keys
        BY <1>1, <1>4, <2>5, PlanKey
      <3>3. OrdersPast'
        BY <1>1, <2>1, <2>2, <2>5, <3>2 DEF OrdersPast
      <3>4. RecordPast' /\ FollowInv'
        BY <1>6, <2>5 DEF Placing
      <3> QED
        BY <1>3, <2>1, <3>1, <3>3, <3>4
    <2> QED
      BY <1>8, <2>3, <2>4, <2>5 DEF Recording
  <1>9. CASE Completing
    BY <1>3, <1>5, <1>6, <1>9 DEF Completing, exchangeVars, closing, Placing
  <1>10. CASE Refreshing
    <2>1. AnswerPast'
      BY <1>10 DEF Refreshing, AnswerPast, AskedPast
    <2> QED
      BY <1>5, <1>6, <1>10, <2>1 DEF Refreshing, exchangeVars, closing, Placing
  <1>11. ASSUME NEW n \in Attempts, Beginning(n)
         PROVE  Goal
    <2>1. /\ plan' = [NoPlan EXCEPT !.known = TRUE, !.attempt = n]
          /\ n = attempt + 1 /\ attempt' = n /\ UNCHANGED <<orders, market>> /\ Answers
          /\ base' = [base EXCEPT ![n] = shown.remaining]
          /\ task' = Task("registering", FirstLeg(shown.remaining), FALSE, FALSE, FALSE)
      BY <1>11 DEF Beginning, exchangeVars
    <2>2. plan' = [known |-> TRUE, attempt |-> n, order |-> [l \in Legs |-> NoOrder],
                   seen |-> [l \in Legs |-> NoOrder]]
      BY <2>1 DEF NoPlan
    <2>3. n \in 1..attempt'
      BY <1>1, <2>1, CloseAssumption DEF BaseInv
    <2>4. PlanInv'
      BY <2>2, <2>3 DEF PlanInv
    <2>5. OrdersPast'
      <3>1. \A k : Past(k)' = Past(k)
        BY <1>2, <2>1
      <3>2. \A l \in Legs : plan'.order[l] = NoOrder /\ plan'.seen[l] = NoOrder
        BY <2>2
      <3> QED
        BY <1>1, <2>1, <3>1, <3>2 DEF OrdersPast
    <2>6. base'[n] = shown.remaining /\ plan'.attempt = n
      BY <1>1, <2>1, <2>2 DEF BaseInv
    <2>7. task'.stage = "registering" /\ task'.leg = FirstLeg(base[plan.attempt])'
      BY <2>1, <2>6 DEF Task, FirstLeg
    <2>8. RecordPast' /\ FollowInv'
      BY <2>7 DEF RecordPast, FollowInv, Placing
    <2> QED
      BY <1>3, <2>1, <2>4, <2>5, <2>8
  <1>12. CASE AskingAll
    <2>1. AnswerPast'
      BY <1>12 DEF AskingAll, AnswerPast, AskedPast
    <2> QED
      BY <1>5, <1>6, <1>12, <2>1 DEF AskingAll, exchangeVars, memory, closing, Placing
  <1>13. CASE \E k \in Keys : \E order \in Past(k) : Recording(k, order)
    BY <1>8, <1>13
  <1>14. CASE \E n \in Attempts : Beginning(n)
    BY <1>11, <1>14
  <1> QED
    BY <1>7, <1>9, <1>10, <1>12, <1>13, <1>14, CloseCalls

\* Whatever step is taken, the plan holds orders of the past, and is followed.
LEMMA PlanStep ==
    ASSUME CloseInv, Calm, [CloseNext]_closeVars
    PROVE  PlanInv' /\ OrdersPast' /\ AnswerPast' /\ RecordPast' /\ FollowInv'
  <1>1. /\ IInv /\ TypeOK /\ TaskInv /\ PlanInv /\ BaseInv /\ NamedInv
        /\ OrdersPast /\ AnswerPast /\ RecordPast /\ FollowInv
        /\ orders \in [Keys -> Orders \cup {NoOrder}]
        /\ market \in [Keys -> Orders \cup {NoOrder}]
    BY DEF CloseInv, IInv, TypeOK
  <1>2. ASSUME UNCHANGED <<plan, task, base, attempt>>
        PROVE  PlanInv' /\ RecordPast' /\ FollowInv' /\ \A l : Key(l)' = Key(l)
    BY <1>1, <1>2 DEF PlanInv, RecordPast, FollowInv, FirstDone, Needed, Remains, Key
  <1>3. CASE OwnStep
    BY <1>3, OwnPast, OwnFollows
  <1>4. CASE CallStep
    BY <1>4, CallPast
  <1>5. CASE InService /\ UNCHANGED closing
    <2> DEFINE k == call[Pool].key
    <2>1. /\ k \in Keys /\ UNCHANGED <<market, worker, plan, base, attempt>>
          /\ \/ orders' = orders
             \/ \E order \in Past(k) : orders' = [orders EXCEPT ![k] = order]
      BY <1>1, <1>5, ServiceEffect DEF closing, AnswerPast
    <2>2. /\ \A i : Past(i)' = Past(i)
          /\ \A i : Key(i)' = Key(i)
          /\ task' = task
      BY <2>1 DEF Past, worker, Key
    <2>3. \A i \in Keys : /\ orders'[i] \in Past(i) \cup {NoOrder}
                          /\ orders[i] # NoOrder => orders'[i] # NoOrder
      BY <1>1, <2>1, PastFacts DEF OrdersPast
    <2>4. OrdersPast'
      BY <1>1, <2>1, <2>2, <2>3, PlanKey DEF OrdersPast
    <2>5. ASSUME call'[Pool].phase = "asked"
          PROVE  call'[Pool].order \in Past(call'[Pool].key) \cup {NoOrder}
      <3>1. call'[Pool] = Stage("asked", k, 0, market[k], call[Pool].batch, "none")
        BY <1>1, <1>5, <2>5, ServiceAnswer DEF AnswerPast
      <3> QED
        BY <1>1, <2>1, <3>1 DEF Past, Stage
    <2>6. ASSUME task.stage \in {"sent", "refreshing"},
                 call'[Pool].phase = "done", call'[Pool].result = "order"
          PROVE  call'[Pool].order \in Past(Key(task.leg)) /\ orders'[Key(task.leg)] # NoOrder
      <3>1. \E order \in Past(k) :
               Over("order", order) /\ orders' = [orders EXCEPT ![k] = order]
        BY <1>1, <1>5, <2>6, ServiceAnswer DEF AnswerPast
      <3>2. k = Key(task.leg)
        BY <1>1, <1>5, <2>6, ServiceEffect DEF TaskInv, AnswerPast
      <3> QED
        BY <1>1, <2>1, <3>1, <3>2, PastFacts DEF Over, Stage
    <2>7. AnswerPast'
      BY <2>2, <2>5, <2>6 DEF AnswerPast, AskedPast
    <2> QED
      BY <1>2, <2>1, <2>2, <2>4, <2>7
  <1>6. CASE ExchangeTrades
    <2>1. ExchangeStep /\ UNCHANGED <<orders, call, task, plan, base, attempt>>
      BY <1>6 DEF ExchangeTrades, ExchangeStep, memory, worker, closing
    <2>2. \A k \in Keys : Past(k) \subseteq Past(k)'
      BY <1>1, <2>1, PastGrows
    <2>3. plan.known => \A l \in Legs : Key(l)' = Key(l) /\ Key(l) \in Keys
      BY <1>1, <1>2, <2>1, PlanKey
    <2>4. OrdersPast'
      BY <1>1, <2>1, <2>2, <2>3 DEF OrdersPast
    <2>5. AnswerPast'
      <3>1. call[Pool].phase = "asked" => call[Pool].key \in Keys
        BY <1>1, OnePlan DEF IInv, CallInv, ThreadInv
      <3>2. task.stage \in {"sent", "refreshing"} => task.leg \in Legs /\ plan.known
        BY <1>1 DEF TaskInv, PlanStages, Placing
      <3> QED
        BY <1>1, <2>1, <2>2, <2>3, <3>1, <3>2 DEF AnswerPast, AskedPast
    <2> QED
      BY <1>2, <2>1, <2>4, <2>5
  <1>7. CASE ProcessRestart
    <2>1. /\ plan' = NoPlan /\ task' = NoTask /\ orders' = [k \in Keys |-> NoOrder]
          /\ call'[Pool] = Idle
      BY <1>7, OnePlan DEF ProcessRestart, WorkerRestart, Restart
    <2> QED
      BY <2>1 DEF NoPlan, NoTask, Task, Idle, Stage, PlanInv, OrdersPast, AnswerPast, AskedPast,
                  RecordPast, FollowInv, Placing
  <1>8. CASE UNCHANGED closeVars
    <2>1. UNCHANGED <<orders, market, call, task, plan, base, attempt>>
      BY <1>8 DEF closeVars, vars, exchangeVars, memory, worker, closing
    <2>2. \A k : Past(k)' = Past(k)
      BY <2>1 DEF Past
    <2> QED
      BY <1>1, <1>2, <2>1, <2>2 DEF OrdersPast, AnswerPast, AskedPast
  <1> QED
    BY <1>1, <1>3, <1>4, <1>5, <1>6, <1>7, <1>8, StepCases

-----------------------------------------------------------------------------
(* What each step changes of the attempts and of the exchange *)

\* An attempt that begins changes what is known of that attempt only.
LEMMA BeginningFacts ==
    ASSUME CloseInv, NEW n \in Attempts, Beginning(n)
    PROVE  /\ n = attempt + 1 /\ attempt' = n /\ n > attempt /\ n \in 1..attempt'
           /\ \A m \in 1..attempt : m # n /\ m \in 1..attempt' /\ m \in Attempts
           /\ \A m \in 1..attempt' : m = n \/ m \in 1..attempt
           /\ base' \in [Attempts -> [Legs -> Nat]]
           /\ base'[n] = shown.remaining
           /\ \A m \in Attempts \ {n} : base'[m] = base[m]
           /\ \A m \in 1..attempt : Context(m)' = Context(m)
           /\ \A l \in Legs : /\ base[n][l] = 0
                              /\ creates[KeyOf[l][n]] = << >>
                              /\ market[KeyOf[l][n]] = NoOrder
           /\ plan'.known /\ plan'.attempt = n
           /\ \A l \in Legs : plan'.order[l] = NoOrder
           /\ result' = NoResult /\ contexts'[Plan] = Context(n)'
           /\ UNCHANGED <<creates, market, opened>>
  <1>1. /\ BaseInv /\ IInv /\ attempt \in Nat /\ n \in Nat /\ MaxAttempts \in Nat
        /\ shown.remaining \in [Legs -> Nat]
    <2>1. BaseInv /\ IInv /\ Begins
      BY DEF CloseInv, Beginning
    <2>2. attempt \in 0..MaxAttempts /\ n \in 1..MaxAttempts /\ MaxAttempts \in Nat
      BY <2>1, CloseAssumption DEF BaseInv, Attempts
    <2>3. shown.remaining \in [Legs -> Nat]
      BY <2>1, BeginsWith
    <2> QED
      BY <2>1, <2>2, <2>3
  <1>2. /\ n = attempt + 1 /\ attempt' = n /\ base' = [base EXCEPT ![n] = shown.remaining]
        /\ plan' = [NoPlan EXCEPT !.known = TRUE, !.attempt = n]
        /\ result' = NoResult /\ contexts'[Plan] = Context(n)'
        /\ UNCHANGED <<creates, market, opened>>
    <2>1. UNCHANGED exchangeVars /\ Begin(shown.remaining) /\ Passes(shown.remaining)
      BY DEF Beginning, Begins
    <2>2. opened' = opened
      BY <2>1 DEF Begin
    <2> QED
      BY <2>1, <2>2 DEF Beginning, exchangeVars
  <1>3. n > attempt /\ n \in 1..attempt'
    BY <1>1, <1>2
  <1>4. \A m \in 1..attempt : m # n /\ m \in 1..attempt' /\ m \in Attempts
    BY <1>1, <1>2 DEF BaseInv, Attempts
  <1>5. \A m \in 1..attempt' : m = n \/ m \in 1..attempt
    BY <1>1, <1>2
  <1>6. base' \in [Attempts -> [Legs -> Nat]] /\ base'[n] = shown.remaining
        /\ \A m \in Attempts \ {n} : base'[m] = base[m]
    BY <1>1, <1>2 DEF BaseInv
  <1>7. \A m \in 1..attempt : Context(m)' = Context(m)
    BY <1>4, <1>6 DEF Context, RequestFor
  <1>8. \A l \in Legs : base[n][l] = 0 /\ creates[KeyOf[l][n]] = << >>
    BY <1>1, <1>3 DEF BaseInv
  <1>9. \A l \in Legs : market[KeyOf[l][n]] = NoOrder
    BY <1>1, <1>8, KeyFacts, SettledFacts
  <1>10. plan'.known /\ plan'.attempt = n /\ \A l \in Legs : plan'.order[l] = NoOrder
    BY <1>2 DEF NoPlan
  <1> QED
    BY <1>2, <1>3, <1>4, <1>5, <1>6, <1>7, <1>8, <1>9, <1>10

\* The create request of a leg is sent.
Sends == /\ CreateSend(Pool) /\ UNCHANGED <<worker, closing>>
         /\ task.stage = "sent" /\ plan.known /\ task.leg \in Legs
         /\ call[Pool].key = Key(task.leg)

\* Only an attempt that begins changes the attempts, only a trade the orders of the
\* exchange, and only the service sends.
LEMMA StepFrame ==
    ASSUME CloseInv, Calm, [CloseNext]_closeVars
    PROVE  /\ opened' = opened
           /\ UNCHANGED <<attempt, base>> \/ \E n \in Attempts : Beginning(n)
           /\ market' = market \/ ExchangeTrades
           /\ creates' = creates \/ ExchangeTrades \/ Sends
  <1>1. IInv /\ TypeOK /\ TaskInv /\ AskedPast /\ NamedInv
    BY DEF CloseInv, IInv, AnswerPast
  <1>2. CASE OwnStep
    BY <1>1, <1>2, OwnEffect DEF exchangeVars
  <1>3. CASE CallStep
    <2>1. CASE Submitting
      BY <2>1 DEF Submitting, exchangeVars, closing
    <2>2. CASE \E k \in Keys : \E order \in Past(k) : Recording(k, order)
      BY <2>2 DEF Recording, exchangeVars
    <2>3. CASE Completing
      BY <2>3 DEF Completing, exchangeVars, closing
    <2>4. CASE Refreshing
      BY <2>4 DEF Refreshing, exchangeVars, closing
    <2>5. CASE \E n \in Attempts : Beginning(n)
      BY <2>5, BeginningFacts
    <2>6. CASE AskingAll
      BY <2>6 DEF AskingAll, exchangeVars, closing
    <2> QED
      BY <1>3, <2>1, <2>2, <2>3, <2>4, <2>5, <2>6, CloseCalls
  <1>4. CASE InService /\ UNCHANGED closing
    <2>1. market' = market /\ UNCHANGED <<opened, attempt, base, worker>>
      BY <1>1, <1>4, ServiceEffect DEF closing
    <2>2. creates' = creates \/ CreateSend(Pool)
      BY <1>4 DEF InService, CreateReturned, CreateMismatched, CreateUnreadable,
             CreateRefused, CreateUnclear, QuerySend, QueryReturned, QueryMismatched,
             QueryFailed, exchangeVars
    <2>3. ASSUME CreateSend(Pool) PROVE Sends
      <3>1. task.stage = "sent" /\ call[Pool].key = Key(task.leg)
        BY <1>1, <2>3 DEF CreateSend, TaskInv
      <3>2. plan.known /\ task.leg \in Legs
        BY <1>1, <3>1 DEF TaskInv, PlanStages, Placing
      <3> QED
        BY <1>4, <2>1, <2>3, <3>1, <3>2 DEF Sends
    <2> QED
      BY <2>1, <2>2, <2>3
  <1>5. CASE ExchangeTrades
    BY <1>5 DEF ExchangeTrades, closing
  <1>6. CASE ProcessRestart
    BY <1>6 DEF ProcessRestart, WorkerRestart, Restart, exchangeVars
  <1>7. CASE UNCHANGED closeVars
    BY <1>7 DEF closeVars, vars, exchangeVars, closing
  <1> QED
    BY <1>1, <1>2, <1>3, <1>4, <1>5, <1>6, <1>7, StepCases

\* A create request is sent for a leg that is needed, and the second one on the word
\* of a filled first one.
LEMMA SendsPlaced ==
    ASSUME CloseInv, Sends
    PROVE  /\ plan.attempt \in Attempts /\ plan.attempt \in 1..attempt
           /\ Key(task.leg) = KeyOf[task.leg][plan.attempt] /\ Key(task.leg) \in Keys
           /\ base[plan.attempt][task.leg] > 0
           /\ task.leg = "second" /\ base[plan.attempt]["first"] > 0 =>
                 market[KeyOf["first"][plan.attempt]].status = "filled"
           /\ UNCHANGED <<market, memory, journal, worker, closing>>
           /\ \A k \in Keys \ {Key(task.leg)} : creates'[k] = creates[k]
           /\ Settled(Key(task.leg))
  <1>1. /\ IInv /\ TypeOK /\ TaskInv /\ PlanInv /\ BaseInv /\ FollowInv /\ OrdersPast
        /\ creates \in [Keys -> Seq(Outcomes)] /\ "first" \in Legs
    BY DEF CloseInv, IInv, TypeOK, Legs
  <1>2. /\ task.stage = "sent" /\ task.leg \in Legs /\ plan.known
        /\ call[Pool].key = Key(task.leg) /\ call[Pool].phase = "create"
        /\ UNCHANGED <<market, memory, journal, worker, closing>>
        /\ creates' = [creates EXCEPT ![Key(task.leg)] = Append(@, "flying")]
    BY DEF Sends, CreateSend, SendCreate
  <1>3. /\ plan.attempt \in Attempts /\ plan.attempt \in 1..attempt
        /\ \A l \in Legs : /\ Key(l) = KeyOf[l][plan.attempt] /\ Key(l) \in Keys
                           /\ Remains(l) = base[plan.attempt][l]
    BY <1>1, <1>2, PlanKey
  <1>4. Needed(task.leg) /\ (task.leg = "second" => FirstDone)
    BY <1>1, <1>2 DEF FollowInv, Placing
  <1>5. ASSUME task.leg = "second", base[plan.attempt]["first"] > 0
        PROVE  market[KeyOf["first"][plan.attempt]].status = "filled"
    <2>1. plan.order["first"].status = "filled"
      BY <1>1, <1>3, <1>4, <1>5 DEF FirstDone, Needed
    <2>2. plan.order["first"] \in Past(Key("first"))
      BY <1>1, <1>2, <2>1 DEF OrdersPast, NoOrder
    <2> QED
      BY <1>1, <1>3, <2>1, <2>2, PastFacts DEF IsTerminal
  <1>6. Settled(Key(task.leg))
    BY <1>1, <1>2, OnePlan DEF IInv, CallInv, ThreadInv
  <1> QED
    BY <1>1, <1>2, <1>3, <1>4, <1>5, <1>6 DEF Needed

-----------------------------------------------------------------------------
(* Every step keeps the attempts, and what is asked and filled for them *)

\* A submission attempts no id but its own, and binds it first.
LEMMA SubmitAttempts ==
    ASSUME TypeOK, NEW r \in Requests, Submit(Pool, r)
    PROVE  /\ attempted' \subseteq attempted \cup {r.key}
           /\ attempted' # attempted => requests'[r.key] = r.quantity
  <1>1. r.key \in Keys /\ requests \in [Keys -> Nat]
    BY DEF Requests, TypeOK, Pending
  <1>2. CASE SubmitClaim(Pool, r)
    BY <1>1, <1>2 DEF SubmitClaim, Claim
  <1>3. CASE attempted' = attempted
    BY <1>3
  <1> QED
    BY <1>2, <1>3 DEF Submit, SubmitConflict, SubmitKnown, SubmitDuplicate,
                      SubmitUnprepared, SubmitQuery, memory

\* An id that no attempt has touched.
Untried(k) == creates[k] = << >> /\ orders[k] = NoOrder /\ k \notin attempted

\* What the journal still names of the orders, a new process takes for attempted.
LEMMA RestartAttempts ==
    ASSUME ProcessRestart
    PROVE  /\ attempted' = {k \in Keys : journal.orders[k] # NoRequest}
           /\ requests' = journal.orders /\ submitted' = journal.orders
           /\ orders' = [k \in Keys |-> NoOrder] /\ uncertain' = attempted'
           /\ contexts' = journal.contexts /\ call'[Pool] = Idle
           /\ UNCHANGED <<creates, market, journal, opened, attempt, base>>
           /\ task' = NoTask /\ plan' = NoPlan
           /\ result' = NoResult /\ posted' = NoResult /\ shown' = NoResult
           /\ recovery' \in {"query", "none"}
  BY OnePlan DEF ProcessRestart, WorkerRestart, Restart, exchangeVars

\* No step touches the ids of an attempt to come.
LEMMA UntriedStays ==
    ASSUME CloseInv, Calm, [CloseNext]_closeVars, NEW n \in Attempts, NEW l \in Legs,
           n > attempt
    PROVE  Untried(KeyOf[l][n])'
  <1> DEFINE k == KeyOf[l][n]
  <1>1. /\ IInv /\ TypeOK /\ TaskInv /\ PlanInv /\ BaseInv /\ NamedInv /\ AskedPast /\ AskedInv
        /\ k \in Keys /\ base[n][l] = 0
        /\ creates[k] = << >> /\ orders[k] = NoOrder /\ k \notin attempted
        /\ attempt \in Nat /\ n \in Nat
    <2>1. /\ IInv /\ TypeOK /\ TaskInv /\ PlanInv /\ BaseInv /\ NamedInv /\ AskedPast /\ AskedInv
      BY DEF CloseInv, IInv, AnswerPast
    <2>2. attempt \in 0..MaxAttempts /\ n \in 1..MaxAttempts /\ MaxAttempts \in Nat
      BY <2>1, CloseAssumption DEF BaseInv, Attempts
    <2>3. /\ base[n][l] = 0
          /\ creates[k] = << >> /\ orders[k] = NoOrder /\ k \notin attempted
      BY <2>1 DEF BaseInv
    <2> QED
      BY <2>1, <2>2, <2>3, KeyFacts
  <1>2. Past(k) = {}
    BY <1>1, SettledFacts
  <1>3. ASSUME plan.known, NEW m \in Legs PROVE Key(m) # k
    <2>1. plan.attempt \in Attempts /\ Key(m) = KeyOf[m][plan.attempt]
          /\ plan.attempt \in 1..attempt
      BY <1>1, <1>3, PlanKey
    <2> QED
      BY <1>1, <2>1, KeyFacts
  <1> HIDE DEF k
  <1>4. creates'[k] = << >>
    <2>1. CASE ExchangeTrades
      BY <1>1, <2>1, PastGrows DEF ExchangeTrades
    <2>2. CASE Sends
      <3>1. Key(task.leg) # k
        BY <1>3, <2>2 DEF Sends
      <3> QED
        BY <1>1, <2>2, <3>1, SendsPlaced
    <2> QED
      BY <1>1, <2>1, <2>2, StepFrame
  <1>5. CASE OwnStep
    BY <1>1, <1>4, <1>5, OwnEffect DEF memory, Untried, k
  <1>6. CASE CallStep
    <2>1. CASE Submitting
      <3>1. attempted' \subseteq attempted \cup {Key(task.leg)} /\ Key(task.leg) # k
        BY <1>1, <1>3, <2>1, SubmitAttempts DEF Submitting
      <3> QED
        BY <1>1, <1>4, <2>1, <3>1 DEF Submitting, Untried, k
    <2>2. ASSUME NEW i \in Keys, NEW order \in Past(i), Recording(i, order)
          PROVE  Untried(k)'
      <3>1. i # k /\ orders' = [orders EXCEPT ![i] = order] /\ attempted' = attempted
        BY <1>1, <1>2, <2>2, CallShrinks DEF Recording
      <3> QED
        BY <1>1, <1>4, <3>1 DEF TypeOK, Untried
    <2>3. CASE Completing
      BY <1>1, <1>4, <2>3, CallShrinks DEF Completing, Untried, k
    <2>4. CASE Refreshing
      BY <1>1, <1>4, <2>4 DEF Refreshing, Refresh, Untried, k
    <2>5. CASE \E m \in Attempts : Beginning(m)
      BY <1>1, <1>4, <2>5 DEF Beginning, Untried, k
    <2>6. CASE AskingAll
      BY <1>1, <1>4, <2>6 DEF AskingAll, memory, Untried, k
    <2> QED
      BY <1>6, <2>1, <2>2, <2>3, <2>4, <2>5, <2>6, CloseCalls DEF k
  <1>7. CASE InService /\ UNCHANGED closing
    <2>1. attempted' = attempted
      BY <1>1, <1>7, InServiceShrinks
    <2>2. \/ orders' = orders
          \/ \E order \in Past(call[Pool].key) : orders' = [orders EXCEPT ![call[Pool].key] = order]
      BY <1>1, <1>7, ServiceEffect
    <2>3. orders'[k] = NoOrder
      BY <1>1, <1>2, <2>2 DEF TypeOK
    <2> QED
      BY <1>1, <1>4, <2>1, <2>3 DEF Untried, k
  <1>8. CASE ExchangeTrades
    BY <1>1, <1>4, <1>8 DEF ExchangeTrades, ExchangeStep, memory, Untried, k
  <1>9. CASE ProcessRestart
    <2>1. journal.orders[k] = NoRequest
      <3>1. Prepared(0) = NoRequest
        BY PreparedBelow
      <3> QED
        BY <1>1, <3>1 DEF AskedInv, k
    <2> QED
      BY <1>1, <1>4, <1>9, <2>1, RestartAttempts DEF Untried, k
  <1>10. CASE UNCHANGED closeVars
    BY <1>1, <1>4, <1>10 DEF closeVars, vars, memory, Untried, k
  <1> QED
    BY <1>1, <1>5, <1>6, <1>7, <1>8, <1>9, <1>10, StepCases

\* The attempts stay as they are, until another begins.
LEMMA BaseStep ==
    ASSUME CloseInv, Calm, [CloseNext]_closeVars
    PROVE  BaseInv'
  <1>1. BaseInv /\ opened' = opened /\ attempt \in Nat /\ MaxAttempts \in Nat
    BY StepFrame, CloseAssumption DEF CloseInv, BaseInv
  <1>2. CASE UNCHANGED <<attempt, base>>
    <2>1. \A n \in Attempts, l \in Legs : n > attempt => Untried(KeyOf[l][n])'
      BY UntriedStays
    <2> QED
      BY <1>1, <1>2, <2>1 DEF BaseInv, Untried, Passes
  <1>3. ASSUME NEW n \in Attempts, Beginning(n) PROVE BaseInv'
    <2>1. /\ n = attempt + 1 /\ attempt' = n /\ n \in 1..attempt'
          /\ \A m \in 1..attempt' : m = n \/ m \in 1..attempt
          /\ \A m \in 1..attempt : m # n /\ m \in Attempts
          /\ base' \in [Attempts -> [Legs -> Nat]]
          /\ base'[n] = shown.remaining
          /\ \A m \in Attempts \ {n} : base'[m] = base[m]
      BY <1>3, BeginningFacts
    <2>2. /\ \A l \in Legs : shown.remaining[l] <= opened
          /\ \E l \in Legs : shown.remaining[l] > 0
          /\ Passes(shown.remaining)
      BY <1>3, BeginsWith DEF Beginning
    <2>3. attempt' \in 0..MaxAttempts
      BY <1>1, <2>1 DEF Attempts
    <2>4. ASSUME NEW m \in 1..attempt'
          PROVE  /\ \A l \in Legs : base'[m][l] <= opened'
                 /\ \E l \in Legs : base'[m][l] > 0
                 /\ Passes(base'[m])
      <3>1. CASE m = n
        BY <1>1, <2>1, <2>2, <3>1
      <3>2. CASE m # n
        <4>1. m \in 1..attempt /\ base'[m] = base[m]
          BY <2>1, <2>4, <3>2
        <4> QED
          BY <1>1, <4>1 DEF BaseInv
      <3> QED
        BY <3>1, <3>2
    <2>5. ASSUME NEW m \in Attempts, NEW l \in Legs, m > attempt'
          PROVE  base'[m][l] = 0 /\ Untried(KeyOf[l][m])'
      <3>1. m > attempt /\ m # n
        BY <1>1, <2>1, <2>5 DEF Attempts
      <3> QED
        BY <1>1, <2>1, <3>1, UntriedStays DEF BaseInv
    <2> QED
      BY <1>1, <2>1, <2>3, <2>4, <2>5 DEF BaseInv, Untried, Passes
  <1> QED
    BY <1>2, <1>3, StepFrame

\* An order fills no more than was asked for.
LEMMA FillStep ==
    ASSUME CloseInv, Calm, [CloseNext]_closeVars
    PROVE  FillInv'
  <1>1. IInv /\ TypeOK /\ BaseInv /\ FillInv
    BY DEF CloseInv, IInv
  <1> SUFFICES ASSUME NEW n \in Attempts, NEW l \in Legs, NEW k, k = KeyOf[l][n]
               PROVE  /\ market'[k].filled <= Prepared(base'[n][l])
                      /\ market'[k].status \notin {"none", "filled"} =>
                            market'[k].filled < Prepared(base'[n][l])
    BY DEF FillInv
  <1>2. k \in Keys /\ market[k].filled \in Nat /\ base[n][l] \in Nat
    BY <1>1, KeyFacts, FilledType DEF BaseInv
  <1>3. CASE market'[k] = market[k] /\ base' = base
    BY <1>1, <1>3 DEF FillInv
  <1>4. CASE ExchangeTrades
    <2>1. base' = base /\ Asked(k) = Prepared(base[n][l]) /\ Prepared(base[n][l]) \in Nat
      BY <1>2, <1>4, AskedIs, PreparedBelow DEF ExchangeTrades, closing
    <2>2. CASE market'[k] # market[k]
      <3>1. IF market'[k].status = "filled"
            THEN market'[k].filled = Asked(k) \/ market'[k].filled < Asked(k)
            ELSE market'[k].filled < Asked(k)
        BY <1>2, <1>4, <2>2 DEF ExchangeTrades
      <3>2. market'[k].filled \in Nat
        <4>1. IInv'
          BY <1>1, <1>4, ExchangeInv DEF ExchangeTrades
        <4>2. market'[k] \in Orders \cup {NoOrder}
          BY <1>2, <4>1 DEF IInv, TypeOK
        <4>3. Fills \subseteq Nat /\ 0 \in Nat
          BY ServiceAssumption
        <4>4. \A o \in Orders : o.filled \in Fills
          BY DEF Orders
        <4>5. (\A o \in Orders : o.filled \in Nat) /\ NoOrder.filled \in Nat
          BY <4>3, <4>4 DEF NoOrder
        <4> QED
          BY <4>2, <4>5
      <3> QED
        BY <2>1, <3>1, <3>2
    <2> QED
      BY <1>3, <2>1, <2>2
  <1>5. ASSUME NEW m \in Attempts, Beginning(m)
        PROVE  /\ market'[k].filled <= Prepared(base'[n][l])
               /\ market'[k].status \notin {"none", "filled"} =>
                     market'[k].filled < Prepared(base'[n][l])
    <2>1. CASE n = m
      <3>1. market'[k] = NoOrder /\ base'[n][l] \in Nat
        BY <1>5, <2>1, BeginningFacts
      <3> QED
        BY <3>1, PreparedBelow DEF NoOrder
    <2>2. CASE n # m
      <3>1. market'[k] = market[k] /\ base'[n] = base[n]
        BY <1>5, <2>2, BeginningFacts
      <3> QED
        BY <1>1, <3>1 DEF FillInv
    <2> QED
      BY <2>1, <2>2
  <1> QED
    BY <1>3, <1>4, <1>5, StepFrame

\* The legs are placed as they should be.
LEMMA PlacedStep ==
    ASSUME CloseInv, Calm, [CloseNext]_closeVars
    PROVE  PlacedInv'
  <1>1. IInv /\ TypeOK /\ BaseInv /\ PlacedInv /\ "first" \in Legs
    BY DEF CloseInv, IInv, Legs
  <1> SUFFICES ASSUME NEW n \in Attempts, NEW l \in Legs, creates'[KeyOf[l][n]] # << >>
               PROVE  /\ base'[n][l] > 0
                      /\ l = "second" /\ base'[n]["first"] > 0 =>
                            market'[KeyOf["first"][n]].status = "filled"
    BY DEF PlacedInv
  <1>2. KeyOf[l][n] \in Keys /\ KeyOf["first"][n] \in Keys
    BY <1>1, KeyFacts
  <1>3. CASE base'[n] = base[n] /\ creates[KeyOf[l][n]] # << >>
    <2>1. market[KeyOf["first"][n]].status = "filled" =>
             market'[KeyOf["first"][n]].status = "filled"
      BY <1>1, <1>2, PastGrows, StepFrame DEF ExchangeTrades, IsTerminal
    <2> QED
      BY <1>1, <1>3, <2>1 DEF PlacedInv
  <1>4. CASE Sends
    <2>1. creates[KeyOf[l][n]] = << >> => KeyOf[l][n] = Key(task.leg)
      BY <1>2, <1>4, SendsPlaced
    <2>2. KeyOf[l][n] = Key(task.leg) => l = task.leg /\ n = plan.attempt
      BY <1>4, SendsPlaced, KeyFacts DEF Sends
    <2>3. base' = base /\ market' = market
      BY <1>4, SendsPlaced DEF closing
    <2> QED
      BY <1>3, <1>4, <2>1, <2>2, <2>3, SendsPlaced
  <1>5. CASE ExchangeTrades
    <2>1. base' = base /\ creates[KeyOf[l][n]] # << >>
      BY <1>1, <1>2, <1>5, PastGrows DEF ExchangeTrades, closing
    <2> QED
      BY <1>3, <2>1
  <1>6. ASSUME NEW m \in Attempts, Beginning(m)
        PROVE  base'[n] = base[n] /\ creates[KeyOf[l][n]] # << >>
    BY <1>6, BeginningFacts
  <1> QED
    BY <1>3, <1>4, <1>5, <1>6, StepFrame

\* What AskedInv says of one id.
AskedOf(n, l) ==
    LET k == KeyOf[l][n]
        q == Prepared(base[n][l])
    IN
    /\ {requests[k], submitted[k], journal.orders[k]} \subseteq {NoRequest, q}
    /\ submitted[k] # NoRequest => requests[k] # NoRequest
    /\ k \in attempted => requests[k] # NoRequest

\* An id is asked for what its attempt began with, and bound before it is attempted.
LEMMA AskedStep ==
    ASSUME CloseInv, Calm, [CloseNext]_closeVars
    PROVE  AskedInv'
  <1>1. /\ IInv /\ TypeOK /\ TaskInv /\ PlanInv /\ BaseInv /\ NamedInv /\ AskedInv
    BY DEF CloseInv, IInv
  <1> SUFFICES ASSUME NEW n \in Attempts, NEW l \in Legs PROVE AskedOf(n, l)'
    BY DEF AskedInv, AskedOf
  <1> DEFINE k == KeyOf[l][n]
  <1>2. AskedOf(n, l) /\ k \in Keys
    BY <1>1, KeyFacts DEF AskedInv, AskedOf
  <1>3. ASSUME Shrinks, attempted' = attempted, base'[n][l] = base[n][l] \/ base[n][l] = 0
        PROVE  AskedOf(n, l)'
    <2>1. Prepared(0) = NoRequest
      BY PreparedBelow
    <2>2. /\ requests'[k] = requests[k] /\ submitted'[k] \in {submitted[k], NoRequest}
          /\ journal'.orders[k] \in {journal.orders[k], submitted[k], NoRequest}
      BY <1>2, <1>3 DEF Shrinks
    <2>3. CASE base'[n][l] = base[n][l]
      BY <1>2, <1>3, <2>2, <2>3 DEF AskedOf
    <2>4. CASE base[n][l] = 0
      BY <1>2, <1>3, <2>1, <2>2, <2>4 DEF AskedOf
    <2> QED
      BY <1>3, <2>3, <2>4
  <1>4. ASSUME UNCHANGED <<memory, journal>> PROVE Shrinks /\ attempted' = attempted
    BY <1>1, <1>4 DEF memory, Shrinks
  <1>5. CASE OwnStep
    BY <1>1, <1>3, <1>4, <1>5, OwnEffect
  <1>6. CASE CallStep
    <2>1. CASE Submitting
      <3> DEFINE r == RequestOf(task.leg)
                 j == Key(task.leg)
                 b == base[plan.attempt][task.leg]
      <3>1. /\ r \in Requests /\ r.key = j /\ r.quantity = Prepared(b) /\ Preparable(b)
            /\ Submit(Pool, r) /\ plan.known /\ task.leg \in Legs /\ base' = base
        BY <2>1 DEF Submitting, closing
      <3>2. /\ j = KeyOf[task.leg][plan.attempt] /\ j \in Keys /\ plan.attempt \in Attempts
            /\ b \in Nat
        BY <1>1, <3>1, PlanKey
      <3>3. Prepared(Prepared(b)) = Prepared(b) /\ Prepared(b) # NoRequest
        BY <3>1, <3>2, PreparedBelow, PreparedTwice
      <3>4. /\ Asks(j, Prepared(b)) /\ attempted' \subseteq attempted \cup {j}
            /\ attempted' # attempted => requests'[j] = Prepared(b)
        BY <1>1, <3>1, SubmitAsks, SubmitAttempts
      <3> HIDE DEF r, j, b
      <3>5. CASE k = j
        <4>1. l = task.leg /\ n = plan.attempt
          BY <3>1, <3>2, <3>5, KeyFacts
        <4>2. base[n][l] = b
          BY <4>1 DEF b
        <4> QED
          BY <1>2, <3>1, <3>3, <3>4, <3>5, <4>2 DEF AskedOf, Asks
      <3>6. CASE k # j
        BY <1>2, <3>1, <3>4, <3>6 DEF AskedOf, Asks
      <3> QED
        BY <3>5, <3>6
    <2>2. CASE Refreshing
      <3> DEFINE r == RequestOf(task.leg)
                 j == Key(task.leg)
                 b == base[plan.attempt][task.leg]
      <3>1. /\ r \in Requests /\ r.key = j /\ r.quantity = Prepared(b)
            /\ Refresh(Pool, r) /\ plan.known /\ task.leg \in Legs /\ base' = base
        BY <2>2 DEF Refreshing, closing
      <3>2. /\ j = KeyOf[task.leg][plan.attempt] /\ j \in Keys /\ plan.attempt \in Attempts
            /\ b \in Nat
        BY <1>1, <3>1, PlanKey
      <3>3. Prepared(Prepared(b)) = Prepared(b) /\ r.quantity # NoRequest
        <4>1. Quantities \subseteq Nat \ {0} /\ r.quantity \in Quantities
          BY <3>1, ServiceAssumption DEF Requests
        <4> QED
          BY <3>2, <4>1, PreparedTwice DEF NoRequest
      <3>4. /\ requests \in [Keys -> Nat] /\ submitted \in [Keys -> Nat]
        BY <1>1 DEF TypeOK, Pending
      <3>5. /\ requests' = [requests EXCEPT ![j] = IF @ = NoRequest THEN Prepared(b) ELSE @]
            /\ UNCHANGED <<attempted, journal>>
            /\ \/ submitted' = submitted
               \/ submitted' = [submitted EXCEPT ![j] = Prepared(b)]
        BY <3>1, <3>3 DEF Refresh
      <3> HIDE DEF r, j, b
      <3>6. CASE k = j
        <4>1. l = task.leg /\ n = plan.attempt
          BY <3>1, <3>2, <3>6, KeyFacts
        <4>2. base[n][l] = b
          BY <4>1 DEF b
        <4>3. requests'[k] = IF requests[k] = NoRequest THEN Prepared(b) ELSE requests[k]
          BY <3>4, <3>5, <3>6, <3>2
        <4>4. submitted'[k] = submitted[k] \/ submitted'[k] = Prepared(b)
          BY <3>4, <3>5, <3>6, <3>2
        <4> QED
          BY <1>2, <3>1, <3>3, <3>5, <4>2, <4>3, <4>4 DEF AskedOf
      <3>7. CASE k # j
        <4>1. requests'[k] = requests[k] /\ submitted'[k] = submitted[k]
          BY <1>2, <3>4, <3>5, <3>7
        <4> QED
          BY <1>2, <3>1, <3>5, <4>1 DEF AskedOf
      <3> QED
        BY <3>6, <3>7
    <2>3. CASE \E i \in Keys : \E order \in Past(i) : Recording(i, order)
      <3>1. Shrinks /\ attempted' = attempted /\ base' = base
        BY <1>1, <2>3, CallShrinks DEF Recording
      <3> QED
        BY <1>3, <3>1
    <2>4. CASE Completing
      <3>1. Shrinks /\ attempted' = attempted /\ base' = base
        BY <1>1, <2>4, CallShrinks DEF Completing, closing
      <3> QED
        BY <1>3, <3>1
    <2>5. ASSUME NEW m \in Attempts, Beginning(m) PROVE AskedOf(n, l)'
      <3>1. Shrinks /\ attempted' = attempted
        BY <1>1, <2>5, CallShrinks DEF Beginning
      <3>2. base'[n][l] = base[n][l] \/ base[n][l] = 0
        BY <2>5, BeginningFacts
      <3> QED
        BY <1>3, <3>1, <3>2
    <2>6. CASE AskingAll
      BY <1>3, <1>4, <2>6 DEF AskingAll, closing
    <2> QED
      BY <1>6, <2>1, <2>2, <2>3, <2>4, <2>5, <2>6, CloseCalls
  <1>7. CASE InService /\ UNCHANGED closing
    BY <1>1, <1>3, <1>7, InServiceShrinks DEF closing
  <1>8. CASE ExchangeTrades
    BY <1>3, <1>4, <1>8 DEF ExchangeTrades, ExchangeStep, closing
  <1>9. CASE ProcessRestart
    BY <1>2, <1>9, RestartAttempts DEF AskedOf
  <1>10. CASE UNCHANGED closeVars
    BY <1>3, <1>4, <1>10 DEF closeVars, vars, closing
  <1> QED
    BY <1>1, <1>5, <1>6, <1>7, <1>8, <1>9, <1>10, StepCases

-----------------------------------------------------------------------------
(* Every step keeps track of what was attempted and has failed *)

\* A submission fails only when its id was attempted before, and every create
\* request of it was refused.
LEMMA SubmitSettles ==
    ASSUME CloseInv, Submitting, NEW k, k = Key(task.leg)
    PROVE  /\ call'[Pool].phase = "done" /\ call'[Pool].result \in Failures =>
                 Settled(k)' /\ k \in attempted'
           /\ SettledInv'
  <1> DEFINE r == RequestOf(task.leg)
             b == base[plan.attempt][task.leg]
  <1>1. /\ IInv /\ TypeOK /\ TaskInv /\ PlanInv /\ BaseInv /\ AskedInv /\ SettledInv
        /\ Pool \in Threads /\ call \in [Threads -> Calls] /\ call[Pool].phase = "idle"
        /\ AttemptInv
    <2>1. Pool \in Threads
      BY OnePlan
    <2> QED
      BY <2>1 DEF CloseInv, IInv, TypeOK, Submitting, Submit
  <1>2. /\ r \in Requests /\ r.key = k /\ r.quantity = Prepared(b) /\ Preparable(b)
        /\ Submit(Pool, r) /\ plan.known /\ task.leg \in Legs /\ MayName(k)
        /\ UNCHANGED <<exchangeVars, orders, uncertain>>
    BY DEF Submitting
  <1>3. /\ k = KeyOf[task.leg][plan.attempt] /\ k \in Keys /\ plan.attempt \in Attempts
        /\ b \in Nat
    BY <1>1, <1>2, PlanKey
  <1>4. ~IsConflict(r) /\ Preparable(r.quantity)
    <2>1. requests[k] \in {NoRequest, Prepared(b)}
      BY <1>1, <1>2, <1>3 DEF AskedInv
    <2>2. Prepared(Prepared(b)) = Prepared(b)
      BY <1>3, PreparedTwice
    <2> QED
      BY <1>2, <2>1, <2>2 DEF IsConflict, Preparable
  <1>5. IsFresh(k) => Settled(k)
    <2>1. CASE creates[k] = << >>
      BY <1>1, <1>3, <2>1, SettledFacts
    <2>2. CASE creates[k] # << >>
      BY <1>1, <1>2, <1>3, <2>2 DEF MayName, NamedIn, InSomeContext, AttemptInv, IsFresh
    <2> QED
      BY <2>1, <2>2
  <1> HIDE DEF r, b
  <1>6. attempted' = attempted \/ attempted' = attempted \cup {k}
    BY <1>2 DEF Submit, SubmitConflict, SubmitKnown, SubmitDuplicate, SubmitUnprepared,
                SubmitClaim, Claim, SubmitQuery, memory
  <1>7. ASSUME NEW i \in Keys \ {k}, i \in attempted', orders'[i] = NoOrder,
               i \notin uncertain'
        PROVE  Settled(i)'
    <2>1. Settled(i)
      BY <1>1, <1>2, <1>6, <1>7 DEF SettledInv
    <2> QED
      BY <1>2, <2>1, SettledStays
  <1>8. CASE SubmitKnown(Pool, r) \/ SubmitQuery(Pool, r)
    <2>1. /\ \/ orders[k] # NoOrder
             \/ k \in uncertain
          /\ \/ Over("order", orders[k])
             \/ Over("keyerror", NoOrder)
             \/ call'[Pool] = Stage("query", k, 0, NoOrder, {}, "none")
      BY <1>1, <1>2, <1>8, DoneOver DEF SubmitKnown, SubmitQuery, Querying
    <2>2. call'[Pool].phase = "done" => call'[Pool].result \notin Failures
      BY <2>1 DEF Over, Stage, Failures
    <2> QED
      BY <1>2, <1>7, <2>1, <2>2 DEF SettledInv
  <1>9. CASE SubmitDuplicate(Pool, r)
    <2>1. Settled(k) /\ k \in attempted /\ attempted' = attempted
      BY <1>1, <1>2, <1>3, <1>9 DEF SubmitDuplicate, SettledInv, memory
    <2> QED
      BY <1>2, <1>7, <2>1, SettledStays DEF SettledInv
  <1>10. CASE SubmitClaim(Pool, r)
    <2>1. Settled(k)
      BY <1>2, <1>5, <1>10 DEF SubmitClaim
    <2>2. k \in attempted'
      BY <1>2, <1>10 DEF SubmitClaim, Claim
    <2> QED
      BY <1>2, <1>7, <2>1, <2>2, SettledStays DEF SettledInv
  <1> QED
    BY <1>2, <1>4, <1>8, <1>9, <1>10 DEF Submit, SubmitConflict, SubmitUnprepared

\* A call that is no submission adds nothing to what was attempted, and closes an
\* open outcome only by an order.
LEMMA QuietCall ==
    ASSUME CloseInv, CallStep, ~Submitting
    PROVE  /\ call[Pool].phase = "idle" /\ UNCHANGED <<exchangeVars, attempted>>
           /\ \A k \in Keys : orders'[k] = NoOrder =>
                 orders[k] = NoOrder /\ (k \in uncertain => k \in uncertain')
           /\ task'.stage # "sent"
  <1>1. IInv /\ TypeOK /\ orders \in [Keys -> Orders \cup {NoOrder}]
    BY DEF CloseInv, IInv, TypeOK
  <1>2. ASSUME NEW k \in Keys, NEW order \in Past(k), Recording(k, order)
        PROVE  /\ call[Pool].phase = "idle" /\ UNCHANGED <<exchangeVars, attempted>>
               /\ \A i \in Keys : orders'[i] = NoOrder =>
                     orders[i] = NoOrder /\ (i \in uncertain => i \in uncertain')
               /\ task'.stage # "sent"
    <2>1. order # NoOrder
      BY <1>1, PastFacts
    <2>2. /\ Record(Pool, k, order) /\ UNCHANGED exchangeVars
          /\ orders' = [orders EXCEPT ![k] = order]
      BY <1>2 DEF Recording
    <2>3. task'.stage # "sent"
      BY <1>2 DEF Recording, RecordsLeg, RecordsEvent
    <2>4. call[Pool].phase = "idle" /\ uncertain' = uncertain \ {k} /\ attempted' = attempted
      BY <2>2 DEF Record
    <2>5. \A i \in Keys : orders'[i] = NoOrder =>
                     orders[i] = NoOrder /\ (i \in uncertain => i \in uncertain')
      BY <1>1, <2>1, <2>2, <2>4
    <2> QED
      BY <2>2, <2>3, <2>4, <2>5
  <1>3. CASE Completing
    <2>1. CompleteContext(Pool, Plan) /\ UNCHANGED exchangeVars /\ task'.stage # "sent"
      BY <1>3 DEF Completing
    <2> QED
      BY <2>1, NoOrderNotTerminal DEF CompleteContext
  <1>4. CASE Refreshing
    BY <1>4 DEF Refreshing, Refresh
  <1>5. ASSUME NEW n \in Attempts, Beginning(n)
        PROVE  /\ call[Pool].phase = "idle" /\ UNCHANGED <<exchangeVars, attempted>>
               /\ UNCHANGED <<orders, uncertain>> /\ task'.stage # "sent"
    BY <1>5 DEF Beginning, Begins, Free, Task
  <1>6. CASE AskingAll
    BY <1>6 DEF AskingAll, RecoverPending, memory
  <1> QED
    BY <1>2, <1>3, <1>4, <1>5, <1>6, CloseCalls

\* An attempt that is over is settled, or its outcome is known or open.
LEMMA SettledStep ==
    ASSUME CloseInv, Calm, [CloseNext]_closeVars
    PROVE  SettledInv' /\ FailInv'
  <1>1. /\ IInv /\ TypeOK /\ TaskInv /\ PlanInv /\ BaseInv /\ NamedInv
        /\ SettledInv /\ FailInv /\ AskedPast
    BY DEF CloseInv, IInv, AnswerPast
  <1>2. ASSUME UNCHANGED <<exchangeVars, attempted>>,
               call[Pool].phase \notin {"create", "sent"} \/ call' = call,
               \A k \in Keys : orders'[k] = NoOrder =>
                  orders[k] = NoOrder /\ (k \in uncertain => k \in uncertain')
        PROVE  SettledInv'
    <2> SUFFICES ASSUME NEW k \in Keys, k \in attempted', orders'[k] = NoOrder,
                        k \notin uncertain',
                        ~(call'[Pool].phase \in {"create", "sent"} /\ call'[Pool].key = k)
                 PROVE  Settled(k)'
      BY DEF SettledInv
    <2>1. Settled(k)
      BY <1>1, <1>2 DEF SettledInv
    <2> QED
      BY <1>2, <2>1, SettledStays
  <1>3. ASSUME NEW k, Key(task.leg)' = k, Settled(k)', k \in attempted'
        PROVE  FailInv'
    BY <1>3 DEF FailInv, Settled
  <1>4. ASSUME UNCHANGED <<call, task, plan, attempted>>,
               task.stage = "sent" => \A k \in Keys : Settled(k) => Settled(k)'
        PROVE  FailInv'
    <2>1. Key(task.leg)' = Key(task.leg)
      BY <1>4 DEF Key
    <2>2. CASE task.stage = "sent" /\ Settled(Key(task.leg)) /\ Key(task.leg) \in attempted
      <3>1. Key(task.leg) \in Keys
        BY <1>1, <2>2, PlanKey DEF TaskInv, PlanStages, Placing
      <3> QED
        BY <1>3, <1>4, <2>1, <2>2, <3>1
    <2>3. CASE ~(task.stage = "sent" /\ Settled(Key(task.leg)) /\ Key(task.leg) \in attempted)
      BY <1>1, <1>4, <2>3 DEF FailInv, Answer
    <2> QED
      BY <2>2, <2>3
  <1>5. CASE OwnStep
    <2>1. /\ UNCHANGED <<exchangeVars, memory>>
          /\ call'[Pool].phase = "idle" \/ UNCHANGED <<call, task>>
          /\ UNCHANGED vars \/ Return(Pool)
      BY <1>1, <1>5, OwnEffect
    <2>2. SettledInv'
      BY <1>2, <2>1 DEF memory, vars, Return
    <2>3. FailInv'
      <3>1. CASE call'[Pool].phase # "idle"
        <4>1. UNCHANGED <<call, task>> /\ (plan' = plan \/ task.stage = "free")
          BY <1>5, <3>1, OwnMoves DEF OnTo
        <4>2. CASE plan' = plan
          BY <1>4, <2>1, <4>1, <4>2, SettledStays DEF memory
        <4>3. CASE task.stage = "free"
          BY <4>1, <4>3 DEF FailInv
        <4> QED
          BY <4>1, <4>2, <4>3
      <3>2. CASE call'[Pool].phase = "idle"
        BY <3>2 DEF FailInv
      <3> QED
        BY <2>1, <3>1, <3>2
    <2> QED
      BY <2>2, <2>3
  <1>6. CASE Submitting
    <2> DEFINE k == Key(task.leg)
    <2>1. /\ call'[Pool].phase = "done" /\ call'[Pool].result \in Failures =>
                 \E i : i = k /\ Settled(i)' /\ i \in attempted'
          /\ SettledInv'
      BY <1>6, SubmitSettles
    <2>2. Key(task.leg)' = k
      BY <1>6 DEF Submitting, closing, Key
    <2>3. CASE call'[Pool].phase = "done" /\ call'[Pool].result \in Failures
      BY <1>3, <2>1, <2>2, <2>3
    <2>4. CASE ~(call'[Pool].phase = "done" /\ call'[Pool].result \in Failures)
      BY <2>1, <2>4 DEF FailInv, Answer
    <2> QED
      BY <2>1, <2>3, <2>4
  <1>7. CASE CallStep /\ ~Submitting
    BY <1>2, <1>7, QuietCall DEF FailInv
  <1>8. CASE InService /\ UNCHANGED closing
    <2> DEFINE k == call[Pool].key
    <2>1. /\ call'[Pool].phase = "done" /\ call'[Pool].result \in Failures =>
               \E i : i = k /\ Settled(i)' /\ i \in attempted'
          /\ SettledInv'
      BY <1>1, <1>8, ServiceSettles DEF Calm
    <2>2. /\ task' = task /\ plan' = plan
          /\ call[Pool].phase \in {"create", "sent", "query", "asked"}
      BY <1>1, <1>8, ServiceEffect DEF worker, closing
    <2>3. task.stage = "sent" => k = Key(task.leg) /\ Key(task.leg)' = Key(task.leg)
      BY <1>1, <2>2 DEF TaskInv, Key
    <2>4. CASE call'[Pool].phase = "done" /\ call'[Pool].result \in Failures
               /\ task.stage = "sent"
      BY <1>3, <2>1, <2>3, <2>4
    <2>5. CASE ~(call'[Pool].phase = "done" /\ call'[Pool].result \in Failures
                 /\ task.stage = "sent")
      <3>1. ~(task'.stage = "sent" /\ call'[Pool].phase = "done"
              /\ call'[Pool].result \in Failures)
        BY <2>2, <2>5
      <3> QED
        BY <2>1, <3>1 DEF FailInv, Answer
    <2> QED
      BY <2>1, <2>4, <2>5
  <1>9. CASE ExchangeTrades
    <2>1. UNCHANGED <<memory, call, task, plan>>
      BY <1>9 DEF ExchangeTrades, ExchangeStep, worker, closing
    <2>2. \A k \in Keys : Settled(k) => Settled(k)'
      BY <1>1, <1>9, ExchangeRests DEF ExchangeTrades
    <2>3. SettledInv'
      BY <1>1, <2>1, <2>2 DEF SettledInv, memory
    <2>4. FailInv'
      BY <1>4, <2>1, <2>2 DEF memory
    <2> QED
      BY <2>3, <2>4
  <1>10. CASE ProcessRestart
    BY <1>10, RestartAttempts DEF SettledInv, FailInv, NoTask, Task
  <1>11. CASE UNCHANGED closeVars
    <2>1. UNCHANGED <<exchangeVars, attempted, orders, uncertain, call, task, plan>>
      BY <1>11 DEF closeVars, vars, memory, worker, closing
    <2>2. SettledInv'
      BY <1>2, <2>1
    <2>3. FailInv'
      BY <1>4, <2>1, SettledStays
    <2> QED
      BY <2>2, <2>3
  <1> QED
    BY <1>1, <1>5, <1>6, <1>7, <1>8, <1>9, <1>10, <1>11, StepCases

-----------------------------------------------------------------------------
(* Every step keeps the contexts those of attempts *)

\* The context of an attempt stays as it is.
LEMMA ContextStays ==
    ASSUME CloseInv, Calm, [CloseNext]_closeVars
    PROVE  /\ \A n \in 1..attempt : Context(n)' = Context(n) /\ n \in 1..attempt'
           /\ \A c : Contexted(c) => Contexted(c)'
  <1>1. \A n \in 1..attempt : Context(n)' = Context(n) /\ n \in 1..attempt'
    <2>1. CASE UNCHANGED <<attempt, base>>
      BY <2>1 DEF Context, RequestFor
    <2>2. CASE \E n \in Attempts : Beginning(n)
      BY <2>2, BeginningFacts
    <2> QED
      BY <2>1, <2>2, StepFrame
  <1> QED
    BY <1>1 DEF Contexted

\* The monitor begins to restore a plan only when there is a context for it.
LEMMA OwnRecovery ==
    ASSUME TaskInv, OwnStep
    PROVE  \/ recovery' \in {recovery, "none", "leave", "stuck"}
           \/ recovery' = Monitored /\ UNCHANGED closing
  <1>1. CASE (RecoverEnd \/ RecoverStart \/ MonitorLeaves) /\ UNCHANGED closing
    BY <1>1 DEF RecoverEnd, RecoverStart, MonitorLeaves
  <1>2. ASSUME Finish \/ Raise \/ \E stage, leg : GoTo(stage, leg)
        PROVE  recovery' \in {recovery, "none", "leave", "stuck"}
    BY <1>2 DEF Finish, Raise, GoTo
  <1>3. ASSUME NEW status, NEW remaining, NEW position, Store(status, remaining, position)
        PROVE  recovery' \in {recovery, "none", "leave", "stuck"}
    BY <1>2, <1>3, TaskGoes
  <1>4. CASE AdvanceKnown \/ AdvanceSingle \/ Registered \/ Completed \/ Noting
    BY <1>2, <1>3, <1>4 DEF AdvanceKnown, AdvanceSingle, Registered, Completed, Noting, Post
  <1>5. CASE Sent \/ Recorded
    <2>1. \/ Raise \/ \E stage, leg : GoTo(stage, leg)
          \/ StoreUnknown(task.leg) \/ StoreFailed(task.leg) \/ StoreOutcome(task.leg)
      BY <1>5 DEF Sent, Recorded
    <2> QED
      BY <1>2, <1>3, <2>1 DEF StoreUnknown, StoreFailed, StoreOutcome
  <1>6. CASE Refreshed \/ (~Refreshes /\ RefreshLeg)
    BY <1>2, <1>6 DEF Refreshed, RefreshLeg, Refreshes, AfterRefresh
  <1>7. CASE ResumeClose \/ Restore \/ Deliver \/ Repeats
             \/ (~Passes(shown.remaining) /\ Begins)
    BY <1>7 DEF ResumeClose, Restore, Deliver, Repeats, Begins, Begin, worker
  <1> QED
    BY <1>1, <1>4, <1>5, <1>6, <1>7 DEF OwnStep

\* A step of its own leaves the contexts to the plan they belong to.
LEMMA OwnNamed ==
    ASSUME CloseInv, Calm, OwnStep, [CloseNext]_closeVars
    PROVE  NamedInv'
  <1>1. /\ TypeOK /\ TaskInv /\ PlanInv /\ BaseInv /\ NamedInv
        /\ UNCHANGED <<contexts, journal, attempt, base>>
    BY OwnEffect DEF CloseInv, IInv, memory
  <1>2. Contexted(contexts[Plan])' /\ Contexted(journal.contexts[Plan])'
    BY <1>1, ContextStays DEF NamedInv
  <1>3. \A n : Context(n)' = Context(n)
    BY <1>1 DEF Context, RequestFor
  <1>4. plan'.known => contexts'[Plan] \in {NoContext, Context(plan'.attempt)}
    <2>1. CASE plan' = plan
      BY <1>1, <2>1 DEF NamedInv
    <2>2. CASE Takes
      BY <1>1, <2>2, TakenPlan DEF NamedInv
    <2>3. CASE Restores
      BY <1>1, <2>3, RestoredPlan
    <2>4. CASE Refused
      BY <2>4 DEF Refused, NoPlan
    <2> QED
      BY <1>1, <2>1, <2>2, <2>3, <2>4, OwnPlan
  <1>5. (Context(plan.attempt))' = Context(plan'.attempt)
    BY <1>1 DEF Context, RequestFor
  <1>6. \/ plan'.known
        \/ plan' = plan /\ result' = result
        \/ Final(result)'
    <2>1. CASE Takes \/ Restores
      BY <1>1, <2>1, TakenPlan, RestoredPlan
    <2>2. CASE Refused
      BY <2>2 DEF Refused, Final, Result, NoResult, PendingResults
    <2>3. CASE plan' = plan /\ Stores(task.leg)
      <3>1. plan.known
        BY <1>1, <2>3 DEF TaskInv, Stores, StoresFailed, PlanStages, Placing
      <3> QED
        BY <2>3, <3>1
    <2>4. CASE plan' = plan /\ UNCHANGED result
      BY <2>4
    <2>5. CASE Reposts
      BY <2>5 DEF Reposts
    <2> QED
      BY <1>1, <2>1, <2>2, <2>3, <2>4, <2>5, OwnPlan, OwnResult
  <1>7. ASSUME recovery' = "restore"
        PROVE  plan'.known \/ contexts'[Plan] # NoContext \/ Final(result)'
    <2>1. CASE recovery' = recovery
      BY <1>1, <1>6, <1>7, <2>1 DEF NamedInv, Final
    <2>2. CASE recovery' = Monitored
      BY <1>1, <1>7, <2>2 DEF Monitored
    <2> QED
      BY <1>1, <1>7, <2>1, <2>2, OwnRecovery
  <1>8. (task'.stage \in Ending => Final(result)') /\ task'.stage # "deferring"
    <2>1. CASE UNCHANGED task
      <3>1. task.stage \in Ending => result' = result
        BY <1>1, OwnResult DEF Ending, Reposts, Stores, StoresFailed, Refused, Begins, Free
      <3> QED
        BY <1>1, <2>1, <3>1 DEF NamedInv, Final
    <2>2. CASE task' = NoTask
      BY <2>2 DEF NoTask, Task, Ending
    <2>3. ASSUME NEW stage \in {"record", "advance", "refresh"}, NEW leg, OnTo(stage, leg)
          PROVE  task'.stage \notin Ending /\ task'.stage # "deferring"
      BY <2>3, OnToMeans DEF Ending
    <2>4. CASE OnTo("complete", task.leg) /\ Final(result')
      BY <2>4, OnToMeans DEF Final
    <2> QED
      BY <2>1, <2>2, <2>3, <2>4, OwnMoves
  <1> QED
    BY <1>2, <1>4, <1>5, <1>7, <1>8 DEF NamedInv

\* So does every step.
LEMMA NamedStep ==
    ASSUME CloseInv, Calm, [CloseNext]_closeVars
    PROVE  NamedInv'
  <1>1. /\ IInv /\ TypeOK /\ TaskInv /\ PlanInv /\ BaseInv /\ NamedInv /\ AskedPast
    BY DEF CloseInv, IInv, AnswerPast
  <1>2. ASSUME UNCHANGED <<contexts, attempt, base, result, recovery>>, Writes,
               plan'.known <=> plan.known, plan'.attempt = plan.attempt,
               task' = task \/ task'.stage \notin Ending \cup {"deferring"}
        PROVE  NamedInv'
    <2>1. Contexted(contexts[Plan])' /\ Contexted(journal.contexts[Plan])'
      BY <1>1, <1>2, ContextStays DEF NamedInv, Writes
    <2>2. (Context(plan.attempt))' = Context(plan.attempt)
      BY <1>2 DEF Context, RequestFor
    <2> QED
      BY <1>1, <1>2, <2>1, <2>2 DEF NamedInv, Final
  <1>3. CASE OwnStep
    BY <1>3, OwnNamed
  <1>4. CASE CallStep
    <2>1. CASE Submitting
      BY <1>2, <2>1 DEF Submitting, closing, Ending
    <2>2. ASSUME NEW k \in Keys, NEW order \in Past(k), Recording(k, order)
          PROVE  NamedInv'
      <3>1. /\ UNCHANGED <<contexts, attempt, base, result, recovery>> /\ Writes
            /\ task'.stage \notin Ending \cup {"deferring"}
        BY <2>2 DEF Recording, RecordsLeg, RecordsEvent, Ending
      <3>2. plan'.known = plan.known /\ plan'.attempt = plan.attempt
        BY <1>1, <2>2 DEF Recording, RecordsLeg, RecordsEvent, PlanInv
      <3> QED
        BY <1>2, <3>1, <3>2
    <2>3. CASE Completing
      <3>1. /\ contexts'[Plan] = NoContext /\ Writes /\ UNCHANGED closing
            /\ task.stage = "complete" /\ task'.stage = "completing"
        BY <2>3 DEF Completing
      <3>2. plan.known /\ Final(result)
        BY <1>1, <3>1 DEF TaskInv, PlanStages, Ending, NamedInv
      <3>3. Contexted(contexts[Plan])' /\ Contexted(journal.contexts[Plan])'
        BY <1>1, <3>1, ContextStays DEF NamedInv, Writes, Contexted
      <3> QED
        BY <3>1, <3>2, <3>3 DEF NamedInv, Final, closing
    <2>4. CASE Refreshing
      BY <1>2, <2>4 DEF Refreshing, closing, Writes, Ending
    <2>5. ASSUME NEW n \in Attempts, Beginning(n) PROVE NamedInv'
      <3>1. /\ contexts'[Plan] = Context(n)' /\ n \in 1..attempt' /\ Writes
            /\ plan'.known /\ plan'.attempt = n /\ task'.stage = "registering"
        BY <2>5, BeginningFacts DEF Beginning, Task
      <3>2. Contexted(contexts[Plan])'
        BY <3>1 DEF Contexted
      <3>3. Contexted(journal.contexts[Plan])'
        BY <1>1, <3>1, <3>2, ContextStays DEF NamedInv, Writes
      <3>4. (Context(plan.attempt))' = Context(n)'
        BY <3>1 DEF Context, RequestFor
      <3> QED
        BY <3>1, <3>2, <3>3, <3>4 DEF NamedInv, Ending
    <2>6. CASE AskingAll
      BY <1>2, <2>6 DEF AskingAll, memory, closing, Writes, Ending
    <2> QED
      BY <1>4, <2>1, <2>2, <2>3, <2>4, <2>5, <2>6, CloseCalls
  <1>5. CASE InService /\ UNCHANGED closing
    <2>1. UNCHANGED contexts /\ UNCHANGED worker /\ Writes
      BY <1>1, <1>5, ServiceEffect
    <2> QED
      BY <1>2, <1>5, <2>1 DEF worker, closing
  <1>6. CASE ExchangeTrades
    BY <1>2, <1>6 DEF ExchangeTrades, ExchangeStep, memory, worker, closing, Writes
  <1>7. CASE ProcessRestart
    <2>1. /\ contexts' = journal.contexts /\ journal' = journal
          /\ task' = NoTask /\ plan' = NoPlan /\ recovery' \in {"query", "none"}
      BY <1>7, RestartAttempts
    <2>2. Contexted(contexts[Plan])' /\ Contexted(journal.contexts[Plan])'
      BY <1>1, <2>1, ContextStays DEF NamedInv
    <2> QED
      BY <2>1, <2>2 DEF NamedInv, NoPlan, NoTask, Task, Ending
  <1>8. CASE UNCHANGED closeVars
    BY <1>2, <1>8 DEF closeVars, vars, memory, worker, closing, Writes
  <1> QED
    BY <1>1, <1>3, <1>4, <1>5, <1>6, <1>7, <1>8, StepCases

-----------------------------------------------------------------------------
(* Every step keeps what the live attempt began with all that is left *)

\* Where the plan and the contexts of a step come from.
LEMMA NamesFrame ==
    ASSUME CloseInv, Calm, [CloseNext]_closeVars
    PROVE  /\ \/ contexts'[Plan] \in {contexts[Plan], NoContext, journal.contexts[Plan]}
              \/ \E m \in Attempts : Beginning(m)
           /\ Writes
           /\ plan'.known => \/ plan.known /\ plan'.attempt = plan.attempt
                             \/ Restores
                             \/ \E m \in Attempts : Beginning(m)
  <1>1. /\ IInv /\ TypeOK /\ TaskInv /\ PlanInv /\ BaseInv /\ NamedInv /\ AskedPast
    BY DEF CloseInv, IInv, AnswerPast
  <1>2. CASE OwnStep
    <2>1. UNCHANGED <<contexts, journal>>
      BY <1>1, <1>2, OwnEffect DEF memory
    <2>2. CASE Takes
      BY <1>1, <2>1, <2>2, TakenPlan DEF Writes
    <2>3. CASE Refused
      BY <2>1, <2>3 DEF Writes, Refused, NoPlan
    <2> QED
      BY <1>1, <1>2, <2>1, <2>2, <2>3, OwnPlan DEF Writes
  <1>3. CASE CallStep
    <2>1. CASE Submitting
      BY <2>1 DEF Submitting, closing
    <2>2. CASE \E k \in Keys : \E order \in Past(k) : Recording(k, order)
      BY <1>1, <2>2 DEF Recording, RecordsLeg, RecordsEvent, PlanInv
    <2>3. CASE Completing
      BY <2>3 DEF Completing, closing
    <2>4. CASE Refreshing
      BY <2>4 DEF Refreshing, closing, Writes
    <2>5. CASE \E m \in Attempts : Beginning(m)
      BY <2>5 DEF Beginning
    <2>6. CASE AskingAll
      BY <2>6 DEF AskingAll, memory, closing, Writes
    <2> QED
      BY <1>3, <2>1, <2>2, <2>3, <2>4, <2>5, <2>6, CloseCalls
  <1>4. CASE InService /\ UNCHANGED closing
    BY <1>1, <1>4, ServiceEffect DEF closing
  <1>5. CASE ExchangeTrades
    BY <1>5 DEF ExchangeTrades, ExchangeStep, memory, closing, Writes
  <1>6. CASE ProcessRestart
    BY <1>6, RestartAttempts DEF Writes, NoPlan
  <1>7. CASE UNCHANGED closeVars
    BY <1>7 DEF closeVars, vars, memory, closing, Writes
  <1> QED
    BY <1>1, <1>2, <1>3, <1>4, <1>5, <1>6, <1>7, StepCases

\* An attempt the program may still go on with.
Alive(n) == \/ plan.known /\ plan.attempt = n
            \/ contexts[Plan] = Context(n)
            \/ journal.contexts[Plan] = Context(n)

\* It was one before, or begins.
LEMMA AliveStays ==
    ASSUME CloseInv, Calm, [CloseNext]_closeVars, NEW n \in 1..attempt', Alive(n)'
    PROVE  \/ n \in 1..attempt /\ Alive(n)
           \/ n \in Attempts /\ Beginning(n)
  <1>1. BaseInv /\ NamedInv /\ PlanInv
    BY DEF CloseInv
  <1>2. CASE UNCHANGED <<attempt, base>>
    <2>1. Context(n)' = Context(n) /\ n \in 1..attempt
      BY <1>2 DEF Context, RequestFor
    <2>2. Context(n) # NoContext
      BY ContextNames
    <2>3. ASSUME NEW m \in Attempts, Beginning(m) PROVE FALSE
      <3>1. attempt' = attempt + 1 /\ attempt \in Nat
        BY <1>1, <2>3, CloseAssumption DEF Beginning, BaseInv
      <3> QED
        BY <1>2, <3>1
    <2>4. CASE plan'.known /\ plan'.attempt = n
      <3>1. CASE Restores
        BY <1>1, <2>1, <2>4, <3>1, RestoredPlan DEF Alive
      <3> QED
        BY <2>1, <2>3, <2>4, <3>1, NamesFrame DEF Alive
    <2>5. CASE contexts'[Plan] = Context(n)'
      BY <2>1, <2>2, <2>3, <2>5, NamesFrame DEF Alive
    <2>6. CASE journal'.contexts[Plan] = Context(n)'
      BY <2>1, <2>2, <2>3, <2>5, <2>6, NamesFrame DEF Alive, Writes
    <2> QED
      BY <2>4, <2>5, <2>6 DEF Alive
  <1>3. ASSUME NEW m \in Attempts, Beginning(m)
        PROVE  \/ n \in 1..attempt /\ Alive(n)
               \/ n = m
    <2>1. /\ contexts'[Plan] = Context(m)' /\ plan'.attempt = m /\ plan'.known
          /\ m \in 1..attempt' /\ Writes
          /\ n = m \/ (n \in 1..attempt /\ Context(n)' = Context(n))
      BY <1>3, BeginningFacts DEF Beginning
    <2>2. CASE Context(n)' = Context(m)'
      <3>1. \E l \in Legs : base'[m][l] > 0
        BY <1>3, BeginsWith, BeginningFacts DEF Beginning
      <3>2. PICK l \in Legs : base'[m][l] > 0
        BY <3>1
      <3>3. RequestFor(l, m, base'[m]) \in Context(m)'.requests
        BY <3>2 DEF Context, RequestFor
      <3>4. RequestFor(l, m, base'[m]) \in Context(n)'.requests
        BY <2>2, <3>3
      <3>5. \E j \in Legs : RequestFor(j, n, base'[n]) = RequestFor(l, m, base'[m])
        BY <3>4 DEF Context, RequestFor
      <3>6. \E j \in Legs : KeyOf[j][n] = KeyOf[l][m]
        BY <3>5 DEF RequestFor
      <3>7. n \in Attempts
        BY <1>1, <1>3, <2>1, AttemptType
      <3> QED
        BY <3>6, <3>7, KeyFacts
    <2> QED
      BY <2>1, <2>2 DEF Alive, Writes
  <1>4. CASE \E m \in Attempts : Beginning(m)
    BY <1>3, <1>4
  <1> QED
    BY <1>2, <1>4, StepFrame

\* What an order has filled is a number.
LEMMA OrdersFilled == \A o \in Orders \cup {NoOrder} : o.filled \in Int
  <1>1. Fills \subseteq Nat
    BY ServiceAssumption
  <1>2. \A o \in Orders : o.filled \in Fills
    BY DEF Orders
  <1>3. NoOrder.filled = 0
    BY DEF NoOrder
  <1>4. ASSUME NEW o \in Orders PROVE o.filled \in Int
    <2>1. o.filled \in Fills
      BY <1>2
    <2>2. o.filled \in Nat
      BY <1>1, <2>1
    <2> QED
      BY <2>2
  <1> QED
    BY <1>3, <1>4

\* What the orders of other attempts closed stays closed, when none of them trades.
LEMMA OthersStay ==
    ASSUME TypeOK, TypeOK', BaseInv, FillInv, BaseInv', FillInv', NEW l \in Legs,
           NEW n \in Attempts,
           \A m \in Attempts \ {n} : market'[KeyOf[l][m]] = market[KeyOf[l][m]]
    PROVE  /\ Filled(l) \in Int /\ Filled(l)' \in Int
           /\ Filled(l)' - market'[KeyOf[l][n]].filled = Filled(l) - market[KeyOf[l][n]].filled
  <1> DEFINE f == [m \in Attempts |-> Closed(l, m)]
             g == [m \in Attempts |-> Closed(l, m)']
  <1>1. \A m \in Attempts : KeyOf[l][m] \in Keys
    BY KeyFacts
  <1>2. ASSUME NEW m \in Attempts PROVE f[m] \in Int /\ g[m] \in Int
    <2>1. /\ market[KeyOf[l][m]] \in Orders \cup {NoOrder}
          /\ market'[KeyOf[l][m]] \in Orders \cup {NoOrder}
      BY <1>1 DEF TypeOK
    <2>2. \A o \in Orders \cup {NoOrder} : o.filled \in Int
      BY OrdersFilled
    <2> QED
      BY <2>1, <2>2 DEF Closed
  <1>3. f \in [Attempts -> Int] /\ g \in [Attempts -> Int]
    BY <1>2
  <1>4. \A m \in Attempts \ {n} : g[m] = f[m]
    BY DEF Closed
  <1>5. /\ f[n] = market[KeyOf[l][n]].filled /\ g[n] = market'[KeyOf[l][n]].filled
        /\ Filled(l) = Total(f) /\ Filled(l)' = Total(g)
    BY SumsOfOrders DEF Closed
  <1> HIDE DEF f, g
  <1>6. Total(f) \in Int /\ Total(g) \in Int /\ Total(g) - g[n] = Total(f) - f[n]
    BY <1>3, <1>4, TotalChange
  <1> QED
    BY <1>5, <1>6

\* The service keeps its own invariant, whatever the executor does.
LEMMA ServiceStays ==
    ASSUME CloseInv, Calm, [CloseNext]_closeVars
    PROVE  IInv' /\ TypeOK'
  <1>1. IInv'
    BY CloseStepIsAllowed, StepInv DEF CloseInv
  <1> QED
    BY <1>1 DEF IInv

\* An attempt that had all that was left of the position goes on with it, while only
\* its own orders are placed.
LEMMA WholeStays ==
    ASSUME CloseInv, Calm, [CloseNext]_closeVars, NEW n \in 1..attempt, Whole(n),
           Sends => plan.attempt = n
    PROVE  Whole(n)'
  <1>1. /\ IInv /\ TypeOK /\ BaseInv /\ FillInv /\ TypeOK' /\ BaseInv' /\ FillInv'
        /\ n \in Attempts /\ opened' = opened
    <2>1. IInv /\ TypeOK /\ BaseInv /\ FillInv
      BY DEF CloseInv, IInv
    <2> QED
      BY <2>1, AttemptType, ServiceStays, BaseStep, FillStep, StepFrame
  <1>2. base'[n] = base[n]
    <2>1. CASE UNCHANGED <<attempt, base>>
      BY <2>1
    <2>2. CASE \E m \in Attempts : Beginning(m)
      BY <1>1, <2>2, BeginningFacts
    <2> QED
      BY <2>1, <2>2, StepFrame
  <1>3. ASSUME NEW l \in Legs, NEW m \in Attempts \ {n}
        PROVE  ~MaybeLive(KeyOf[l][m])' /\ market'[KeyOf[l][m]] = market[KeyOf[l][m]]
    <2>1. ~MaybeLive(KeyOf[l][m]) /\ KeyOf[l][m] \in Keys
      BY KeyFacts DEF Whole, Others
    <2>2. CASE ExchangeTrades
      BY <1>1, <2>1, <2>2, RestStays, ExchangeRests DEF ExchangeTrades
    <2>3. CASE Sends
      <3>1. /\ market' = market /\ KeyOf[l][m] # Key(task.leg)
            /\ \A k \in Keys \ {Key(task.leg)} : creates'[k] = creates[k]
        <4>1. plan.attempt = n /\ Key(task.leg) = KeyOf[task.leg][plan.attempt]
              /\ task.leg \in Legs
          BY <2>3, SendsPlaced DEF Sends
        <4> QED
          BY <1>1, <2>3, <4>1, SendsPlaced, KeyFacts
      <3>2. creates'[KeyOf[l][m]] = creates[KeyOf[l][m]]
        BY <2>1, <3>1
      <3> QED
        BY <2>1, <3>1, <3>2 DEF MaybeLive, Settled
    <2>4. CASE UNCHANGED exchangeVars
      BY <2>1, <2>4, SettledStays DEF exchangeVars
    <2> QED
      BY <2>2, <2>3, <2>4, StepFrame DEF exchangeVars
  <1>4. ASSUME NEW l \in Legs
        PROVE  /\ base'[n][l] + Filled(l)' - market'[KeyOf[l][n]].filled = opened'
               /\ Others(l, n)'
    <2>1. /\ Filled(l) \in Int /\ Filled(l)' \in Int
          /\ Filled(l)' - market'[KeyOf[l][n]].filled = Filled(l) - market[KeyOf[l][n]].filled
      BY <1>1, <1>3, OthersStay
    <2>2. base[n][l] + Filled(l) - market[KeyOf[l][n]].filled = opened
      BY DEF Whole
    <2>3. /\ market[KeyOf[l][n]].filled \in Int /\ base[n][l] \in Int
          /\ market'[KeyOf[l][n]].filled \in Int
      <3>1. /\ Closed(l, n) \in Nat /\ Closed(l, n) <= Prepared(base[n][l])
            /\ base[n][l] \in Nat
        BY <1>1, OrderSizes DEF BaseInv
      <3>2. \A o \in Orders \cup {NoOrder} : o.filled \in Int
        BY OrdersFilled
      <3>3. market'[KeyOf[l][n]] \in Orders \cup {NoOrder}
        BY <1>1, KeyFacts DEF TypeOK
      <3> QED
        BY <3>1, <3>2, <3>3 DEF Closed
    <2>4. Others(l, n)'
      BY <1>3 DEF Others
    <2> QED
      BY <1>1, <1>2, <2>1, <2>2, <2>3, <2>4
  <1> QED
    BY <1>4 DEF Whole

\* Every attempt that is alive began with all that was left, and alone may trade.
LEMMA WholeStep ==
    ASSUME CloseInv, Calm, [CloseNext]_closeVars
    PROVE  WholeInv'
  <1>1. /\ IInv /\ TypeOK /\ PlanInv /\ BaseInv /\ NamedInv /\ WholeInv /\ OverInv
        /\ TypeOK' /\ BaseInv' /\ FillInv' /\ FillInv
    BY ServiceStays, BaseStep, FillStep DEF CloseInv, IInv
  <1> SUFFICES ASSUME NEW n \in 1..attempt', Alive(n)' PROVE Whole(n)'
    BY DEF WholeInv, Alive
  <1>2. CASE n \in 1..attempt /\ Alive(n)
    <2>1. Whole(n)
      BY <1>1, <1>2 DEF WholeInv, Alive
    <2>2. ASSUME Sends PROVE plan.attempt = n
      <3>1. /\ call[Pool].phase = "create" /\ plan.known /\ plan.attempt \in 1..attempt
        BY <2>2, SendsPlaced DEF Sends, CreateSend
      <3>2. contexts[Plan] = Context(plan.attempt) /\ journal.contexts[Plan] = contexts[Plan]
        <4>1. ~Ended /\ journal.contexts[Plan] = contexts[Plan]
          BY <1>1, <3>1 DEF OverInv
        <4> QED
          BY <1>1, <3>1, <4>1 DEF NamedInv, Ended
      <3> QED
        BY <1>1, <1>2, <3>1, <3>2, ContextOfOne DEF Alive
    <2> QED
      BY <1>2, <2>1, <2>2, WholeStays
  <1>3. CASE n \in Attempts /\ Beginning(n)
    <2>1. /\ base'[n] = shown.remaining /\ UNCHANGED <<creates, market, opened>>
          /\ \A l \in Legs : market[KeyOf[l][n]] = NoOrder
      BY <1>3, BeginningFacts
    <2>2. /\ \A l \in Legs : shown.remaining[l] = opened - Filled(l)
          /\ shown.remaining \in [Legs -> Nat]
          /\ AtRest
      BY <1>3, BeginsWith DEF Beginning
    <2>3. ASSUME NEW l \in Legs
          PROVE  /\ base'[n][l] + Filled(l)' - market'[KeyOf[l][n]].filled = opened'
                 /\ Others(l, n)'
      <3>1. Filled(l)' = Filled(l) /\ Filled(l) \in Nat
        BY <1>1, <2>1, Sizes DEF Filled
      <3>2. market'[KeyOf[l][n]].filled = 0
        BY <2>1 DEF NoOrder
      <3>3. \A k \in Keys : ~MaybeLive(k)'
        BY <2>1, <2>2 DEF AtRest, MaybeLive, Settled
      <3>4. opened \in Int
        BY <1>1, CloseAssumption DEF BaseInv
      <3> QED
        BY <2>1, <2>2, <3>1, <3>2, <3>3, <3>4, KeyFacts DEF Others
    <2> QED
      BY <2>3 DEF Whole
  <1> QED
    BY <1>2, <1>3, AliveStays

-----------------------------------------------------------------------------
(* A final result finds the plan at rest *)

\* A leg of the plan is at rest, and the plan holds what it has closed.
Rests(leg) == ~MaybeLive(Key(leg)) /\ market[Key(leg)].filled = plan.order[leg].filled

\* So is a leg that is not needed, one with a terminal order, one that is settled,
\* and the second one unless the first has filled.
LEMMA RestingLegs ==
    ASSUME CloseInv, plan.known, NEW l \in Legs
    PROVE  /\ ~Needed(l) => Rests(l) /\ plan.order[l] = NoOrder
           /\ IsTerminal(plan.order[l]) => Rests(l) /\ market[Key(l)] = plan.order[l]
           /\ Settled(Key(l)) => Rests(l) /\ plan.order[l] = NoOrder /\ market[Key(l)] = NoOrder
           /\ l = "second" /\ Needed("first") /\ market[Key("first")].status # "filled" =>
                 Rests(l) /\ plan.order[l] = NoOrder
  <1>1. IInv /\ TypeOK /\ PlanInv /\ BaseInv /\ PlacedInv /\ OrdersPast
    BY DEF CloseInv, IInv
  <1>2. /\ Key(l) = KeyOf[l][plan.attempt] /\ Key("first") = KeyOf["first"][plan.attempt]
        /\ Key(l) \in Keys /\ plan.attempt \in Attempts
        /\ Needed(l) <=> base[plan.attempt][l] > 0
        /\ Needed("first") <=> base[plan.attempt]["first"] > 0
    BY <1>1, PlanKey DEF Legs, Needed
  <1>3. plan.order[l] \in Past(Key(l)) \cup {NoOrder}
    BY <1>1 DEF OrdersPast
  <1>4. ASSUME Settled(Key(l))
        PROVE  Rests(l) /\ plan.order[l] = NoOrder /\ market[Key(l)] = NoOrder
    <2>1. market[Key(l)] = NoOrder /\ ~MaybeLive(Key(l))
      BY <1>1, <1>2, <1>4, SettledFacts
    <2>2. plan.order[l] = NoOrder
      BY <1>1, <1>2, <1>3, <2>1, SettledFacts
    <2> QED
      BY <2>1, <2>2 DEF Rests
  <1>5. ASSUME creates[Key(l)] = << >> PROVE Settled(Key(l))
    BY <1>1, <1>2, <1>5, SettledFacts
  <1>6. ~Needed(l) => creates[Key(l)] = << >>
    BY <1>1, <1>2 DEF PlacedInv
  <1>7. l = "second" /\ Needed("first") /\ market[Key("first")].status # "filled" =>
            creates[Key(l)] = << >>
    BY <1>1, <1>2 DEF PlacedInv
  <1>8. ASSUME IsTerminal(plan.order[l])
        PROVE  Rests(l) /\ market[Key(l)] = plan.order[l]
    <2>1. plan.order[l] \in Past(Key(l))
      BY <1>3, <1>8 DEF IsTerminal, NoOrder
    <2>2. market[Key(l)] = plan.order[l]
      BY <1>1, <1>2, <1>8, <2>1, PastFacts
    <2>3. ~MaybeLive(Key(l))
      BY <1>8, <2>2 DEF MaybeLive
    <2> QED
      BY <2>2, <2>3 DEF Rests
  <1> QED
    BY <1>4, <1>5, <1>6, <1>7, <1>8

\* When both legs rest nothing of the position may change any more, and what the plan
\* computes is what the exchanges have left.
LEMMA LegsRest ==
    ASSUME CloseInv, plan.known, \A l \in Legs : Rests(l)
    PROVE  /\ AtRest
           /\ \A l \in Legs : Remains(l) - plan.order[l].filled = opened - Filled(l)
  <1>1. IInv /\ TypeOK /\ PlanInv /\ BaseInv /\ FillInv /\ WholeInv
    BY DEF CloseInv, IInv
  <1>2. /\ plan.attempt \in 1..attempt /\ plan.attempt \in Attempts
        /\ \A l \in Legs : /\ Key(l) = KeyOf[l][plan.attempt] /\ Key(l) \in Keys
                           /\ Remains(l) = base[plan.attempt][l] /\ Remains(l) \in Nat
    BY <1>1, PlanKey DEF Legs
  <1>3. Whole(plan.attempt)
    BY <1>1, <1>2 DEF WholeInv
  <1>4. AtRest
    <2> SUFFICES ASSUME NEW k \in Keys PROVE ~MaybeLive(k)
      BY DEF AtRest
    <2>1. PICK l \in Legs, n \in Attempts : KeyOf[l][n] = k
      BY KeyFacts
    <2>2. CASE n = plan.attempt
      BY <1>2, <2>1, <2>2 DEF Rests
    <2>3. CASE n # plan.attempt
      BY <1>3, <2>1, <2>3 DEF Whole, Others
    <2> QED
      BY <2>2, <2>3
  <1>5. ASSUME NEW l \in Legs
        PROVE  Remains(l) - plan.order[l].filled = opened - Filled(l)
    <2>1. base[plan.attempt][l] + Filled(l) - market[KeyOf[l][plan.attempt]].filled = opened
      BY <1>3 DEF Whole
    <2>2. market[Key(l)].filled \in Nat /\ Filled(l) \in Nat
      BY <1>1, <1>2, FilledType, Sizes
    <2>3. market[Key(l)].filled = plan.order[l].filled
      BY DEF Rests
    <2> QED
      BY <1>2, <2>1, <2>2, <2>3
  <1> QED
    BY <1>4, <1>5

\* What remains according to the orders taken into account.
LEMMA LeftIs ==
    ASSUME PlanInv, BaseInv, plan.known, NEW leg \in Legs, NEW l \in Legs
    PROVE  /\ Remains(l) \in Nat /\ plan.order[l].filled \in Int
           /\ Left(Before(leg))[l] =
                IF leg = "second" /\ l = "first" THEN Remains(l) - plan.order[l].filled
                                                 ELSE Remains(l)
           /\ Left(UpTo(leg))[l] =
                IF leg = "second" \/ l = "first" THEN Remains(l) - plan.order[l].filled
                                                 ELSE Remains(l)
           /\ Left(Before(leg)) \in [Legs -> Int] /\ Left(UpTo(leg)) \in [Legs -> Int]
  <1>1. \A m \in Legs : Remains(m) \in Nat
    BY PlanKey
  <1>2. \A m \in Legs : plan.order[m].filled \in Int
    BY OrdersFilled DEF PlanInv
  <1>3. NoOrder.filled = 0
    BY DEF NoOrder
  <1>4. ASSUME NEW m \in Legs
        PROVE  /\ Before(leg)[m] = IF leg = "second" /\ m = "first" THEN plan.order[m] ELSE NoOrder
               /\ UpTo(leg)[m] = IF leg = "second" \/ m = "first" THEN plan.order[m] ELSE NoOrder
    BY DEF Before, UpTo, Legs
  <1>5. ASSUME NEW m \in Legs
        PROVE  /\ Left(Before(leg))[m] = Remains(m) - Before(leg)[m].filled
               /\ Left(UpTo(leg))[m] = Remains(m) - UpTo(leg)[m].filled
    BY DEF Left
  <1>6. ASSUME NEW m \in Legs
        PROVE  /\ Remains(m) - Before(leg)[m].filled \in Int
               /\ Remains(m) - UpTo(leg)[m].filled \in Int
    BY <1>1, <1>2, <1>3, <1>4
  <1>7. Left(Before(leg)) \in [Legs -> Int]
    BY <1>6 DEF Left
  <1>8. Left(UpTo(leg)) \in [Legs -> Int]
    BY <1>6 DEF Left
  <1> QED
    BY <1>1, <1>2, <1>3, <1>4, <1>5, <1>7, <1>8

\* The result that a leg stores, before its status and its remainder are looked at.
LEMMA StoredLeg ==
    ASSUME CloseInv, Stores(task.leg)
    PROVE  /\ task.leg \in Legs /\ plan.known
           /\ task.leg = "first" => Needed("first")
           /\ task.leg = "second" => Rests("first")
           /\ task.leg = "second" /\ Needed("first") => plan.order["first"].status = "filled"
           /\ task.stage # "advance" => Needed(task.leg)
           /\ task.stage = "recorded" => plan.order[task.leg] # NoOrder
           /\ task.stage = "recorded" /\ plan.order[task.leg].status # "new" =>
                 IsTerminal(plan.order[task.leg])
  <1>1. TaskInv /\ PlanInv /\ FollowInv /\ RecordPast
    BY DEF CloseInv
  <1>2. task.stage \in {"advance", "sent", "recorded"}
    BY DEF Stores, StoresFailed
  <1>3. task.leg \in Legs /\ plan.known
    BY <1>1, <1>2 DEF TaskInv, PlanStages, Placing
  <1>4. /\ task.leg = "first" => Needed("first")
        /\ task.stage # "advance" => Needed(task.leg)
    BY <1>1, <1>2 DEF FollowInv, Placing
  <1>5. task.leg = "second" /\ Needed("first") => plan.order["first"].status = "filled"
    BY <1>1, <1>2 DEF FollowInv, Placing, FirstDone
  <1>6. task.leg = "second" => Rests("first")
    <2>1. CASE Needed("first") /\ task.leg = "second"
      BY <1>3, <1>5, <2>1, RestingLegs DEF IsTerminal, Legs
    <2>2. CASE ~Needed("first")
      BY <1>3, <2>2, RestingLegs DEF Legs
    <2> QED
      BY <2>1, <2>2
  <1>7. task.stage = "recorded" => plan.order[task.leg] # NoOrder
    BY <1>1 DEF RecordPast
  <1>8. plan.order[task.leg] # NoOrder /\ plan.order[task.leg].status # "new" =>
            IsTerminal(plan.order[task.leg])
    <2>1. plan.order[task.leg] \in Orders \cup {NoOrder}
      BY <1>1, <1>3 DEF PlanInv
    <2>2. \A o \in Orders : o.status \in {"new", "filled", "canceled"}
      BY DEF Orders
    <2> QED
      BY <2>1, <2>2 DEF IsTerminal
  <1> QED
    BY <1>3, <1>4, <1>5, <1>6, <1>7, <1>8

\* A final result that a leg stores says what its orders have left, all of them at
\* rest, and each leg that was due was placed or at least attempted.
LEMMA StoredRests ==
    ASSUME CloseInv, Stores(task.leg), result'.status \notin PendingResults
    PROVE  /\ plan.known
           /\ \A l \in Legs : /\ Rests(l) /\ (Reached(l) => Tried(l))
                              /\ result'.remaining[l] = Remains(l) - plan.order[l].filled
  <1>1. TaskInv /\ PlanInv /\ BaseInv /\ FailInv
    BY DEF CloseInv
  <1>2. task.leg \in Legs /\ plan.known
    BY StoredLeg
  <1>3. \A status, remaining, position : Store(status, remaining, position) =>
            result'.status = status /\ result'.remaining = remaining
    BY <1>1, TaskGoes DEF Result
  <1>4. NoOrder.filled = 0
    BY DEF NoOrder
  <1>5. \A l \in Legs : Remains(l) \in Nat
    BY <1>1, <1>2, LeftIs
  <1>6. ASSUME task.leg = "second"
        PROVE  Rests("first") /\ (Reached("first") => Tried("first"))
    <2>1. Rests("first") /\ (Needed("first") => plan.order["first"].status = "filled")
      BY <1>6, StoredLeg
    <2> QED
      BY <2>1 DEF Reached, Tried, NoOrder
  <1>7. CASE /\ task.stage = "advance" /\ ~Needed(task.leg)
             /\ Store("completed", Left(Before("second")), "closed")
    <2>1. task.leg = "second"
      BY <1>2, <1>7, StoredLeg DEF Legs
    <2>2. Rests("second") /\ plan.order["second"] = NoOrder /\ ~Reached("second")
      BY <1>2, <1>7, <2>1, RestingLegs DEF Reached, Legs
    <2>3. result'.remaining = Left(Before("second"))
      BY <1>3, <1>7
    <2>4. \A l \in Legs : result'.remaining[l] = Remains(l) - plan.order[l].filled
      BY <1>1, <1>2, <1>4, <1>5, <2>2, <2>3, LeftIs DEF Legs
    <2> QED
      BY <1>2, <1>6, <2>1, <2>2, <2>4 DEF Legs
  <1>8. CASE task.stage = "sent" /\ StoreUnknown(task.leg)
    BY <1>3, <1>8 DEF StoreUnknown, PendingResults
  <1>9. CASE StoresFailed(task.leg)
    <2>1. Settled(Key(task.leg)) /\ Key(task.leg) \in attempted
      BY <1>1, <1>9 DEF StoresFailed, FailInv
    <2>2. /\ Rests(task.leg) /\ plan.order[task.leg] = NoOrder
          /\ market[Key(task.leg)] = NoOrder /\ Tried(task.leg)
      BY <1>2, <2>1, RestingLegs DEF Tried
    <2>3. result'.remaining = Left(Before(task.leg))
      BY <1>3, <1>9 DEF StoresFailed, StoreFailed
    <2>4. CASE task.leg = "first"
      <3>1. Needed("first") /\ market[Key("first")].status # "filled"
        BY <2>2, <2>4, StoredLeg DEF NoOrder
      <3>2. Rests("second") /\ plan.order["second"] = NoOrder /\ ~Reached("second")
        BY <1>2, <3>1, RestingLegs DEF Reached, Legs
      <3>3. \A l \in Legs : result'.remaining[l] = Remains(l) - plan.order[l].filled
        BY <1>1, <1>2, <1>4, <1>5, <2>2, <2>3, <2>4, <3>2, LeftIs DEF Legs
      <3> QED
        BY <1>2, <2>2, <2>4, <3>2, <3>3 DEF Legs
    <2>5. CASE task.leg = "second"
      <3>1. \A l \in Legs : result'.remaining[l] = Remains(l) - plan.order[l].filled
        BY <1>1, <1>2, <1>4, <1>5, <2>2, <2>3, <2>5, LeftIs DEF Legs
      <3> QED
        BY <1>2, <1>6, <2>2, <2>5, <3>1 DEF Legs
    <2> QED
      BY <1>2, <2>4, <2>5 DEF Legs
  <1>10. CASE task.stage = "recorded" /\ StoreOutcome(task.leg)
              /\ ~(task.leg = "first" /\ plan.order["first"].status = "filled")
    <2>1. CASE plan.order[task.leg].status = "new"
      <3>1. Store(Waiting(task.leg), Left(UpTo(task.leg)), "partially_closed")
        BY <1>10, <2>1 DEF StoreOutcome
      <3> QED
        BY <1>3, <3>1 DEF Waiting, PendingResults
    <2>2. CASE plan.order[task.leg].status # "new"
      <3>1. IsTerminal(plan.order[task.leg])
        BY <1>10, <2>2, StoredLeg
      <3>2. /\ Rests(task.leg) /\ market[Key(task.leg)] = plan.order[task.leg]
            /\ Tried(task.leg)
        BY <1>2, <3>1, RestingLegs DEF Tried, IsTerminal, NoOrder
      <3>3. result'.remaining = Left(UpTo(task.leg))
        BY <1>3, <1>10 DEF StoreOutcome
      <3>4. CASE task.leg = "first"
        <4>1. Needed("first") /\ market[Key("first")].status # "filled"
          BY <1>10, <3>2, <3>4, StoredLeg
        <4>2. Rests("second") /\ plan.order["second"] = NoOrder /\ ~Reached("second")
          BY <1>2, <4>1, RestingLegs DEF Reached, Legs
        <4>3. \A l \in Legs : result'.remaining[l] = Remains(l) - plan.order[l].filled
          BY <1>1, <1>2, <1>4, <1>5, <3>3, <3>4, <4>2, LeftIs DEF Legs
        <4> QED
          BY <1>2, <3>2, <3>4, <4>2, <4>3 DEF Legs
      <3>5. CASE task.leg = "second"
        <4>1. \A l \in Legs : result'.remaining[l] = Remains(l) - plan.order[l].filled
          BY <1>1, <1>2, <3>3, <3>5, LeftIs DEF Legs
        <4> QED
          BY <1>2, <1>6, <3>2, <3>5, <4>1 DEF Legs
      <3> QED
        BY <1>2, <3>4, <3>5 DEF Legs
    <2> QED
      BY <2>1, <2>2
  <1> QED
    BY <1>7, <1>8, <1>9, <1>10 DEF Stores

\* A result that may be retried leaves something to close, and one that says closed
\* leaves nothing.
LEMMA StoredResult ==
    ASSUME CloseInv, Stores(task.leg)
    PROVE  /\ result' = Result(result'.status, result'.remaining, result'.position)
           /\ result'.remaining \in [Legs -> Int]
           /\ result'.status \in RetryableResults => \E l \in Legs : result'.remaining[l] # 0
           /\ result'.position = "closed" =>
                 result'.status = "completed" /\ \A l \in Legs : result'.remaining[l] = 0
           /\ result'.position \in {"open", "close_failed"} => result'.status \in RetryableResults
           /\ result'.status \notin {"none", "preflight_failed"}
  <1>1. TaskInv /\ PlanInv /\ BaseInv /\ FillInv /\ TypeOK
    BY DEF CloseInv, IInv
  <1>2. task.leg \in Legs /\ plan.known
    BY StoredLeg
  <1>3. \A status, remaining, position : Store(status, remaining, position) =>
            /\ result' = Result(status, remaining, position)
            /\ result'.status = status /\ result'.remaining = remaining
            /\ result'.position = position
            /\ result' = Result(result'.status, result'.remaining, result'.position)
    BY <1>1, TaskGoes DEF Result
  <1>4. /\ Left(Before(task.leg)) \in [Legs -> Int] /\ Left(UpTo(task.leg)) \in [Legs -> Int]
        /\ Left(Before("second")) \in [Legs -> Int]
    BY <1>1, <1>2, LeftIs DEF Legs
  <1>5. \A l \in Legs : /\ Key(l) = KeyOf[l][plan.attempt] /\ Key(l) \in Keys
                        /\ Remains(l) = base[plan.attempt][l] /\ Remains(l) \in Nat
                        /\ plan.attempt \in Attempts /\ plan.attempt \in 1..attempt
    BY <1>1, <1>2, PlanKey
  <1>6. ASSUME result'.status \notin PendingResults, NEW l \in Legs,
               market[Key(l)].status \notin {"none", "filled"} \/ market[Key(l)] = NoOrder,
               Needed(l)
        PROVE  result'.remaining[l] # 0
    <2>1. result'.remaining[l] = Remains(l) - market[Key(l)].filled
      BY <1>6, StoredRests DEF Rests
    <2>2. market[Key(l)].filled \in Nat
      BY <1>1, <1>5, FilledType
    <2>3. Prepared(Remains(l)) <= Remains(l) /\ Prepared(Remains(l)) \in Nat
      BY <1>5, PreparedBelow
    <2>4. Remains(l) > 0
      BY <1>6 DEF Needed
    <2>5. market[Key(l)].status \notin {"none", "filled"} =>
              market[Key(l)].filled < Prepared(Remains(l))
      BY <1>1, <1>5 DEF FillInv
    <2>6. market[Key(l)] = NoOrder => market[Key(l)].filled = 0
      BY DEF NoOrder
    <2> QED
      BY <1>5, <1>6, <2>1, <2>2, <2>3, <2>4, <2>5, <2>6
  <1>7. CASE /\ task.stage = "advance" /\ ~Needed(task.leg)
             /\ Left(Before("second"))["first"] = 0
             /\ Store("completed", Left(Before("second")), "closed")
    <2>1. result'.status = "completed" /\ result'.position = "closed"
          /\ result'.remaining = Left(Before("second"))
      BY <1>3, <1>7
    <2>2. Remains("second") = 0
      <3>1. task.leg = "second"
        BY <1>2, <1>7, StoredLeg DEF Legs
      <3> QED
        BY <1>5, <1>7, <3>1 DEF Needed, Legs
    <2>3. Left(Before("second"))["second"] = 0
      BY <1>1, <1>2, <2>2, LeftIs DEF Legs
    <2> QED
      BY <1>3, <1>4, <1>7, <2>1, <2>3 DEF RetryableResults, Legs
  <1>8. CASE task.stage = "sent" /\ StoreUnknown(task.leg)
    <2>1. result'.status = "unknown" /\ result'.position = "close_unknown"
          /\ result'.remaining = Left(Before(task.leg))
      BY <1>3, <1>8 DEF StoreUnknown
    <2> QED
      BY <1>3, <1>4, <1>8, <2>1 DEF StoreUnknown, RetryableResults
  <1>9. CASE StoresFailed(task.leg)
    <2>1. result'.status = Failed(task.leg) /\ result'.position = "close_failed"
          /\ result'.remaining = Left(Before(task.leg))
      BY <1>3, <1>9 DEF StoresFailed, StoreFailed
    <2>2. result'.status \notin PendingResults /\ result'.status \in RetryableResults
      BY <2>1 DEF Failed, PendingResults, RetryableResults
    <2>3. market[Key(task.leg)] = NoOrder
      BY <1>1, <1>2, <1>9, RestingLegs DEF StoresFailed, CloseInv, FailInv
    <2>4. Needed(task.leg)
      BY <1>9, StoredLeg DEF StoresFailed
    <2>5. result'.remaining[task.leg] # 0
      BY <1>2, <1>6, <2>2, <2>3, <2>4
    <2> QED
      BY <1>2, <1>3, <1>4, <1>9, <2>1, <2>2, <2>5 DEF StoresFailed, StoreFailed, RetryableResults
  <1>10. CASE task.stage = "recorded" /\ StoreOutcome(task.leg)
              /\ ~(task.leg = "first" /\ plan.order["first"].status = "filled")
    <2> DEFINE left == Left(UpTo(task.leg))
               order == plan.order[task.leg]
    <2>0. left \in [Legs -> Int]
      BY <1>4
    <2>1. CASE order.status = "new" /\ Store(Waiting(task.leg), left, "partially_closed")
      <3>1. /\ result'.status \in {"first_pending", "second_pending"}
            /\ result'.position = "partially_closed" /\ result'.remaining = left
        BY <1>3, <2>1 DEF Waiting
      <3> QED
        BY <1>3, <2>0, <2>1, <3>1 DEF RetryableResults
    <2>2. CASE order.status = "canceled" /\ Store(Failed(task.leg), left, "close_failed")
      <3>1. /\ result'.status = Failed(task.leg) /\ result'.position = "close_failed"
            /\ result'.remaining = left
        BY <1>3, <2>2
      <3>2. result'.status \notin PendingResults /\ result'.status \in RetryableResults
        BY <3>1 DEF Failed, PendingResults, RetryableResults
      <3>3. market[Key(task.leg)].status = "canceled"
        BY <1>2, <2>2, RestingLegs DEF IsTerminal
      <3>4. result'.remaining[task.leg] # 0
        BY <1>2, <1>6, <1>10, <3>2, <3>3, StoredLeg
      <3> QED
        BY <1>2, <1>3, <2>0, <2>2, <3>1, <3>2, <3>4 DEF RetryableResults
    <2>3. CASE /\ order.status = "filled" /\ Needed("first")
               /\ order.filled # plan.order["first"].filled
               /\ Store("quantity_mismatch", left, "close_failed")
      <3>1. /\ result'.status = "quantity_mismatch" /\ result'.position = "close_failed"
            /\ result'.remaining = left
        BY <1>3, <2>3
      <3>2. result'.status \notin PendingResults /\ result'.status \in RetryableResults
        BY <3>1 DEF PendingResults, RetryableResults
      <3>3. task.leg = "second" /\ Needed("second") /\ Needed("first")
        BY <1>2, <1>10, <2>3, StoredLeg DEF Legs
      <3>4. \A l \in Legs : /\ result'.remaining[l] = Remains(l) - plan.order[l].filled
                            /\ market[Key(l)].filled = plan.order[l].filled
        BY <3>2, StoredRests DEF Rests
      <3>5. Prepared(Remains("first")) = Prepared(Remains("second"))
        <4>1. Passes(base[plan.attempt])
          BY <1>1, <1>5 DEF BaseInv, Legs
        <4> QED
          BY <1>5, <3>3, <4>1 DEF Passes, Needed, Legs
      <3>6. ASSUME NEW l \in Legs
            PROVE  /\ market[Key(l)].filled \in Nat /\ market[Key(l)].filled <= Prepared(Remains(l))
                   /\ Prepared(Remains(l)) \in Nat /\ Prepared(Remains(l)) <= Remains(l)
                   /\ Remains(l) \in Nat
        BY <1>1, <1>5, FilledType, PreparedBelow DEF FillInv
      <3>7. \E l \in Legs : result'.remaining[l] # 0
        <4> SUFFICES ASSUME \A l \in Legs : result'.remaining[l] = 0 PROVE FALSE
          OBVIOUS
        <4>1. \A l \in Legs : market[Key(l)].filled = Prepared(Remains(l))
          BY <3>4, <3>6
        <4>2. market[Key("first")].filled = market[Key("second")].filled
          BY <3>5, <4>1 DEF Legs
        <4> QED
          BY <2>3, <3>3, <3>4, <4>2 DEF Legs
      <3> QED
        BY <1>3, <2>0, <2>3, <3>1, <3>2, <3>7 DEF RetryableResults
    <2>4. CASE (\E l \in Legs : left[l] # 0) /\ Store("remaining_quantity", left, "partially_closed")
      <3>1. /\ result'.status = "remaining_quantity" /\ result'.position = "partially_closed"
            /\ result'.remaining = left
        BY <1>3, <2>4
      <3> QED
        BY <1>3, <2>0, <2>4, <3>1
    <2>5. CASE ~(\E l \in Legs : left[l] # 0) /\ Store("completed", left, "closed")
      <3>1. result'.status = "completed" /\ result'.position = "closed" /\ result'.remaining = left
        BY <1>3, <2>5
      <3> QED
        BY <1>3, <2>0, <2>5, <3>1 DEF RetryableResults
    <2>6. \/ order.status = "new" /\ Store(Waiting(task.leg), left, "partially_closed")
          \/ order.status = "canceled" /\ Store(Failed(task.leg), left, "close_failed")
          \/ /\ order.status = "filled" /\ Needed("first")
             /\ order.filled # plan.order["first"].filled
             /\ Store("quantity_mismatch", left, "close_failed")
          \/ (\E l \in Legs : left[l] # 0) /\ Store("remaining_quantity", left, "partially_closed")
          \/ ~(\E l \in Legs : left[l] # 0) /\ Store("completed", left, "closed")
      BY <1>10 DEF StoreOutcome
    <2> QED
      BY <2>1, <2>2, <2>3, <2>4, <2>5, <2>6
  <1> QED
    BY <1>7, <1>8, <1>9, <1>10 DEF Stores

-----------------------------------------------------------------------------
(* Every step keeps a final result true *)

\* The exchange leaves a position at rest as it is.
LEMMA AtRestStays ==
    ASSUME IInv, AtRest, UNCHANGED exchangeVars \/ ExchangeTrades
    PROVE  /\ AtRest' /\ \A k \in Keys : market'[k] = market[k]
           /\ \A l \in Legs : Filled(l)' = Filled(l)
  <1>1. \A k \in Keys : market'[k] = market[k] /\ ~MaybeLive(k)'
    <2>1. CASE UNCHANGED exchangeVars
      BY <2>1, SettledStays DEF AtRest, exchangeVars
    <2>2. CASE ExchangeTrades
      BY <2>2, ExchangeRests, RestStays DEF AtRest, ExchangeTrades
    <2> QED
      BY <2>1, <2>2
  <1>2. ASSUME NEW l \in Legs PROVE Filled(l)' = Filled(l)
    <2>1. \A n \in Attempts : Closed(l, n)' = Closed(l, n)
      BY <1>1, KeyFacts DEF Closed
    <2>2. [n \in Attempts |-> Closed(l, n)'] = [n \in Attempts |-> Closed(l, n)]
      BY <2>1
    <2> QED
      BY <2>2, SumsOfOrders
  <1> QED
    BY <1>1, <1>2 DEF AtRest

\* The exchange changes by its own steps, and by the requests that are sent.
LEMMA ExchangeFrame ==
    ASSUME CloseInv, Calm, [CloseNext]_closeVars
    PROVE  /\ UNCHANGED exchangeVars \/ ExchangeTrades \/ Sends
           /\ Sends => ~Ended /\ plan.known
  <1>1. UNCHANGED exchangeVars \/ ExchangeTrades \/ Sends
    BY StepFrame DEF exchangeVars
  <1>2. Sends => ~Ended /\ plan.known
    BY DEF Sends, CreateSend, CloseInv, OverInv
  <1> QED
    BY <1>1, <1>2

\* Where the results of a step come from.
LEMMA ResultFrame ==
    ASSUME CloseInv, Calm, [CloseNext]_closeVars
    PROVE  \/ UNCHANGED <<result, posted, shown>>
           \/ ProcessRestart
           \/ \E n \in Attempts : Beginning(n)
           \/ OwnStep /\ Reposts
           \/ OwnStep /\ UNCHANGED <<shown, plan>> /\ Stores(task.leg)
           \/ Refused
           \/ OwnStep /\ shown # posted /\ shown' = posted /\ UNCHANGED <<result, posted, plan>>
  <1>1. TaskInv /\ NamedInv
    BY DEF CloseInv
  <1>2. CASE OwnStep
    BY <1>1, <1>2, OwnResult
  <1>3. CASE CallStep
    <2>1. Submitting \/ Completing \/ Refreshing \/ AskingAll =>
              UNCHANGED <<result, posted, shown>>
      BY DEF Submitting, Completing, Refreshing, AskingAll, closing
    <2>2. \A k \in Keys : \A order \in Past(k) : Recording(k, order) =>
              UNCHANGED <<result, posted, shown>>
      BY DEF Recording
    <2> QED
      BY <1>3, <2>1, <2>2, CloseCalls
  <1>4. CASE (InService /\ UNCHANGED closing) \/ ExchangeTrades \/ UNCHANGED closeVars
    BY <1>4 DEF closing, closeVars, ExchangeTrades
  <1> QED
    BY <1>1, <1>2, <1>3, <1>4, StepCases

\* A final result stays true, and is true when it is stored.
LEMMA RemainingStep ==
    ASSUME CloseInv, Calm, [CloseNext]_closeVars
    PROVE  RemainingIsTrue'
  <1>1. IInv /\ TaskInv /\ PlanInv /\ NamedInv /\ ResultInv /\ RemainingIsTrue /\ TypeOK
    BY DEF CloseInv, IInv
  <1>2. opened' = opened
    BY StepFrame
  <1>3. ASSUME AtRest, UNCHANGED exchangeVars \/ ExchangeTrades,
               \A l \in Legs : result'.remaining[l] = opened - Filled(l)
        PROVE  RemainingIsTrue'
    <2>1. /\ \A k \in Keys : ~MaybeLive(k)'
          /\ \A l \in Legs : Filled(l)' = Filled(l)
      BY <1>1, <1>3, AtRestStays DEF AtRest
    <2> QED
      BY <1>2, <1>3, <2>1, KeyFacts DEF RemainingIsTrue
  <1>4. CASE result' = result
    <2>1. CASE Final(result)
      <3>1. ~Sends
        BY <2>1, ExchangeFrame DEF Ended
      <3>2. UNCHANGED exchangeVars \/ ExchangeTrades
        BY <3>1, ExchangeFrame
      <3>3. AtRest /\ \A l \in Legs : result.remaining[l] = opened - Filled(l)
        <4>1. \A l \in Legs : /\ result.remaining[l] = opened - Filled(l)
                              /\ \A n \in Attempts : ~MaybeLive(KeyOf[l][n])
          BY <1>1, <2>1 DEF RemainingIsTrue, Final
        <4> QED
          BY <4>1, KeyFacts DEF AtRest
      <3> QED
        BY <1>3, <1>4, <3>2, <3>3
    <2>2. CASE ~Final(result)
      BY <1>4, <2>2 DEF RemainingIsTrue, Final, NoResult, Result
    <2> QED
      BY <2>1, <2>2
  <1>5. CASE result' = NoResult
    BY <1>5 DEF RemainingIsTrue, NoResult, Result
  <1>6. CASE OwnStep /\ Stores(task.leg)
    <2>1. CASE result'.status \in PendingResults
      BY <2>1 DEF RemainingIsTrue
    <2>2. CASE result'.status \notin PendingResults
      <3>1. /\ plan.known
            /\ \A l \in Legs : /\ Rests(l)
                               /\ result'.remaining[l] = Remains(l) - plan.order[l].filled
        BY <1>6, <2>2, StoredRests
      <3>2. AtRest /\ \A l \in Legs : result'.remaining[l] = opened - Filled(l)
        BY <3>1, LegsRest
      <3>3. UNCHANGED exchangeVars
        BY <1>1, <1>6, OwnEffect
      <3> QED
        BY <1>3, <3>2, <3>3
    <2> QED
      BY <2>1, <2>2
  <1>7. CASE Refused
    <2>1. result'.remaining = shown.remaining /\ UNCHANGED exchangeVars
      BY <1>7 DEF Refused, Result, vars
    <2>2. AtRest /\ \A l \in Legs : shown.remaining[l] = opened - Filled(l)
      BY <1>7, BeginsWith DEF Refused
    <2> QED
      BY <1>3, <2>1, <2>2
  <1>8. CASE ProcessRestart \/ \E n \in Attempts : Beginning(n)
    BY <1>5, <1>8 DEF ProcessRestart, Beginning
  <1>9. CASE Reposts
    BY <1>4, <1>9 DEF Reposts
  <1> QED
    BY <1>4, <1>6, <1>7, <1>8, <1>9, ResultFrame

\* A result keeps its meaning.
LEMMA ResultStep ==
    ASSUME CloseInv, Calm, [CloseNext]_closeVars
    PROVE  ResultInv'
  <1>1. TaskInv /\ NamedInv /\ ResultInv /\ PlanInv
    BY DEF CloseInv
  <1>2. CASE result' = result
    <2>1. result.status = "preflight_failed" => Final(result)
      BY DEF Final, NoResult, Result, PendingResults
    <2>2. (\E n \in Attempts : Beginning(n)) => result' = NoResult
      BY DEF Beginning
    <2>3. result.status = "preflight_failed" => ~plan'.known
      BY <1>1, <1>2, <2>1, <2>2, NamesFrame DEF ResultInv, Restores, NoResult, Result
    <2> QED
      BY <1>1, <1>2, <2>3 DEF ResultInv
  <1>3. CASE result' = NoResult
    <2>1. /\ result'.status = "none" /\ result'.position = "none"
          /\ result'.remaining = [l \in Legs |-> 0]
          /\ result' = Result(result'.status, result'.remaining, result'.position)
      BY <1>3 DEF NoResult, Result
    <2>2. result'.remaining \in [Legs -> Int]
      BY <2>1
    <2> QED
      BY <1>3, <2>1, <2>2 DEF ResultInv, RetryableResults
  <1>4. CASE Stores(task.leg)
    <2>1. ResultInv' <=>
            /\ result' = Result(result'.status, result'.remaining, result'.position)
            /\ result'.remaining \in [Legs -> Int]
            /\ result'.status \in RetryableResults => \E l \in Legs : result'.remaining[l] # 0
            /\ result'.position = "closed" =>
                  result'.status = "completed" /\ \A l \in Legs : result'.remaining[l] = 0
            /\ result'.position \in {"open", "close_failed"} =>
                  result'.status \in RetryableResults \cup {"preflight_failed"}
            /\ result'.status = "none" => result' = NoResult
            /\ result'.status = "preflight_failed" => ~plan'.known
      BY DEF ResultInv, Result, NoResult
    <2> QED
      BY <1>4, <2>1, StoredResult
  <1>5. CASE Refused
    <2>1. /\ result'.status = "preflight_failed" /\ result'.position = shown.position
          /\ result'.remaining = shown.remaining
          /\ result' = Result(result'.status, result'.remaining, result'.position)
          /\ shown.position \in {"open", "close_failed"}
          /\ ~plan'.known
      BY <1>5 DEF Refused, Begins, Result, NoPlan
    <2>2. shown.remaining \in [Legs -> Int]
      BY <1>5, BeginsWith DEF Refused
    <2> QED
      BY <2>1, <2>2 DEF ResultInv, RetryableResults
  <1>6. CASE ProcessRestart \/ \E n \in Attempts : Beginning(n)
    BY <1>3, <1>6 DEF ProcessRestart, Beginning
  <1>7. CASE Reposts
    BY <1>2, <1>7 DEF Reposts
  <1> QED
    BY <1>2, <1>4, <1>5, <1>6, <1>7, ResultFrame

\* The context of the plan goes when the close is over, or with the process.
LEMMA ContextGoes ==
    ASSUME CloseInv, Calm, [CloseNext]_closeVars
    PROVE  \/ contexts'[Plan] = contexts[Plan]
           \/ Completing /\ Final(result) /\ plan.known
           \/ \E n \in Attempts : Beginning(n)
           \/ ProcessRestart
  <1>1. TaskInv /\ NamedInv /\ IInv /\ TypeOK /\ AskedPast
    BY DEF CloseInv, IInv, AnswerPast
  <1>2. CASE OwnStep
    BY <1>1, <1>2, OwnEffect DEF memory
  <1>3. CASE CallStep
    <2>1. Submitting \/ Refreshing \/ AskingAll => contexts' = contexts
      BY DEF Submitting, Refreshing, AskingAll, memory
    <2>2. \A k \in Keys : \A order \in Past(k) : Recording(k, order) => contexts' = contexts
      BY DEF Recording
    <2>3. Completing => Final(result) /\ plan.known
      BY <1>1 DEF Completing, NamedInv, TaskInv, Ending, PlanStages
    <2> QED
      BY <1>3, <2>1, <2>2, <2>3, CloseCalls
  <1>4. CASE InService /\ UNCHANGED closing
    BY <1>1, <1>4, ServiceEffect
  <1>5. CASE ExchangeTrades \/ UNCHANGED closeVars
    BY <1>5 DEF ExchangeTrades, ExchangeStep, memory, closeVars, vars
  <1> QED
    BY <1>1, <1>2, <1>3, <1>4, <1>5, StepCases

\* The presenter shows a position as it may be closed only when it may.
LEMMA ShownStep ==
    ASSUME CloseInv, Calm, [CloseNext]_closeVars
    PROVE  ShownInv'
  <1>1. TaskInv /\ NamedInv /\ ResultInv /\ ShownInv /\ ResultInv' /\ opened' = opened
    BY ResultStep, StepFrame DEF CloseInv
  <1> DEFINE Open(r) == r.position \in {"open", "close_failed"} /\ r.status \notin RetryableResults
             Fresh(r) == /\ r = shown /\ r = Untouched
                         /\ result # NoResult \/ contexts[Plan] # NoContext \/ attempt = 0
  <1>2. \A r \in {posted, shown} : Open(r) => result.status = "preflight_failed" \/ Fresh(r)
    BY <1>1 DEF ShownInv
  <1>3. (\A r \in {posted', shown'} : Open(r) =>
            \/ result'.status = "preflight_failed"
            \/ /\ r = shown' /\ r = Untouched
               /\ result' # NoResult \/ contexts'[Plan] # NoContext \/ attempt' = 0)
        => ShownInv'
    BY <1>1 DEF ShownInv, Untouched
  <1> HIDE DEF Open, Fresh
  <1>4. ASSUME NEW n \in Attempts, Beginning(n) PROVE ShownInv'
    <2>1. UNCHANGED <<posted, shown>> /\ contexts'[Plan] = Context(n)'
      BY <1>4 DEF Beginning
    <2>2. Context(n)' # NoContext
      BY DEF Context, NoContext
    <2>3. result = NoResult \/ result.status \in RetryableResults
      BY <1>4 DEF Beginning, Begins
    <2>4. result.status # "preflight_failed"
      BY <2>3 DEF NoResult, Result, RetryableResults
    <2> QED
      BY <1>2, <1>3, <2>1, <2>2, <2>4 DEF Fresh
  <1>5. CASE ProcessRestart
    <2>1. posted' = NoResult /\ shown' = NoResult
      BY <1>5 DEF ProcessRestart
    <2> QED
      BY <1>3, <2>1 DEF Open, NoResult, Result
  <1>6. ASSUME ~ProcessRestart, ~ \E n \in Attempts : Beginning(n)
        PROVE  /\ attempt' = attempt
               /\ contexts[Plan] # NoContext => contexts'[Plan] # NoContext \/ result # NoResult
    BY <1>6, ContextGoes, StepFrame DEF Final
  <1>7. ASSUME ~ProcessRestart, ~ \E n \in Attempts : Beginning(n),
               UNCHANGED <<result, posted, shown>>
        PROVE  ShownInv'
    BY <1>2, <1>3, <1>6, <1>7 DEF Fresh
  <1>8. CASE OwnStep /\ Reposts
    <2>1. /\ posted' = result /\ UNCHANGED <<result, shown>>
      BY <1>8 DEF Reposts
    <2>2. contexts' = contexts /\ attempt' = attempt
      BY <1>1, <1>8, OwnEffect DEF memory, CloseInv, IInv
    <2>3. Open(result) => result.status = "preflight_failed"
      BY <1>1 DEF ResultInv, Open
    <2> QED
      BY <1>2, <1>3, <2>1, <2>2, <2>3 DEF Fresh
  <1>9. CASE OwnStep /\ UNCHANGED <<shown, plan>> /\ Stores(task.leg)
    <2>1. result.status # "preflight_failed"
      BY <1>1, <1>9, StoredLeg DEF ResultInv
    <2>2. ~Open(result') /\ result' # NoResult
      BY <1>9, StoredResult DEF Open, NoResult, Result
    <2>3. posted' \in {posted, result'}
      BY <1>1, <1>9, TaskGoes, StoresMeans
    <2> QED
      BY <1>2, <1>3, <1>9, <2>1, <2>2, <2>3 DEF Fresh
  <1>10. CASE Refused
    <2>1. result'.status = "preflight_failed"
      BY <1>10 DEF Refused, Result
    <2> QED
      BY <1>3, <2>1
  <1>11. CASE /\ OwnStep /\ shown # posted /\ shown' = posted
              /\ UNCHANGED <<result, posted, plan>>
    <2>1. Open(posted) => result.status = "preflight_failed"
      BY <1>2, <1>11 DEF Fresh
    <2> QED
      BY <1>3, <1>11, <2>1
  <1> QED
    BY <1>4, <1>5, <1>7, <1>8, <1>9, <1>10, <1>11, ResultFrame

-----------------------------------------------------------------------------
(* Every step closes no more than the position holds *)

\* What the orders of a leg have closed, and may close, before and after a step.
LEMMA StepSizes ==
    ASSUME CloseInv, Calm, [CloseNext]_closeVars, NEW l \in Legs, NEW n \in Attempts
    PROVE  /\ Closed(l, n) \in Nat /\ Exposed(l, n) \in Nat
           /\ Closed(l, n)' \in Nat /\ Exposed(l, n)' \in Nat
           /\ Closed(l, n) <= Exposed(l, n) /\ Exposed(l, n)' <= Prepared(base'[n][l])
           /\ Closed(l, n)' <= Prepared(base'[n][l])
           /\ Prepared(base[n][l]) <= base[n][l]
           /\ Prepared(base'[n][l]) \in Nat /\ base'[n][l] \in Nat
  <1>1. /\ TypeOK /\ BaseInv /\ FillInv /\ TypeOK' /\ BaseInv' /\ FillInv'
    BY ServiceStays, BaseStep, FillStep DEF CloseInv, IInv
  <1>2. /\ Closed(l, n) \in Nat /\ Exposed(l, n) \in Nat
        /\ Closed(l, n) <= Exposed(l, n) /\ Prepared(base[n][l]) <= base[n][l]
    BY <1>1, OrderSizes
  <1>3. base'[n][l] \in Nat
    BY <1>1 DEF BaseInv
  <1>4. Prepared(base'[n][l]) \in Nat
    BY <1>3, PreparedBelow
  <1>5. market'[KeyOf[l][n]].filled \in Nat
    <2>1. market'[KeyOf[l][n]] \in Orders \cup {NoOrder}
      BY <1>1, KeyFacts DEF TypeOK
    <2>2. Fills \subseteq Nat
      BY ServiceAssumption
    <2>3. \A o \in Orders : o.filled \in Fills
      BY DEF Orders
    <2>4. NoOrder.filled = 0
      BY DEF NoOrder
    <2>5. CASE market'[KeyOf[l][n]] \in Orders
      <3>1. market'[KeyOf[l][n]].filled \in Fills
        BY <2>3, <2>5
      <3> QED
        BY <2>2, <3>1
    <2>6. CASE market'[KeyOf[l][n]] = NoOrder
      BY <2>4, <2>6
    <2> QED
      BY <2>1, <2>5, <2>6
  <1>6. market'[KeyOf[l][n]].filled <= Prepared(base'[n][l])
    BY <1>1 DEF FillInv
  <1> QED
    BY <1>2, <1>3, <1>4, <1>5, <1>6 DEF Closed, Exposed

\* A create request is sent for no more than what all other orders have left.
LEMMA SendsWithin ==
    ASSUME CloseInv, Calm, [CloseNext]_closeVars, Sends, NEW l \in Legs
    PROVE  Exposure(l)' <= opened
  <1>0. plan.attempt \in Attempts
    BY SendsPlaced
  <1> PICK n \in Attempts : n = plan.attempt
    BY <1>0
  <1> DEFINE f == [m \in Attempts |-> Closed(l, m)]
             g == [m \in Attempts |-> Exposed(l, m)']
  <1>1. /\ plan.known /\ n \in Attempts /\ n \in 1..attempt
        /\ plan.attempt = n
        /\ Key(task.leg) = KeyOf[task.leg][n] /\ task.leg \in Legs
        /\ UNCHANGED <<market, base>>
        /\ \A k \in Keys \ {Key(task.leg)} : creates'[k] = creates[k]
    BY SendsPlaced DEF Sends, closing
  <1>2. Whole(n) /\ BaseInv
    BY <1>1 DEF CloseInv, WholeInv
  <1>3. ASSUME NEW m \in Attempts \ {n} PROVE g[m] = f[m]
    <2>1. KeyOf[l][m] \in Keys \ {Key(task.leg)}
      BY <1>1, KeyFacts
    <2>2. ~MaybeLive(KeyOf[l][m])
      BY <1>2 DEF Whole, Others
    <2>3. ~MaybeLive(KeyOf[l][m])'
      BY <1>1, <2>1, <2>2 DEF MaybeLive, Settled
    <2> QED
      BY <1>1, <2>3 DEF Exposed, Closed
  <1>4. f \in [Attempts -> Int] /\ g \in [Attempts -> Int]
    BY StepSizes
  <1>5. Total(f) \in Int /\ Total(g) \in Int /\ Total(g) - g[n] = Total(f) - f[n]
    <2> HIDE DEF f, g
    <2> QED
      BY <1>1, <1>3, <1>4, TotalChange
  <1>6. Total(f) = Filled(l) /\ Total(g) = Exposure(l)'
    BY SumsOfOrders
  <1>7. /\ f[n] = market[KeyOf[l][n]].filled /\ f[n] \in Nat
        /\ g[n] <= base[n][l] /\ g[n] \in Nat /\ base[n][l] \in Nat
    <2>1. f[n] = Closed(l, n) /\ g[n] = Exposed(l, n)'
      OBVIOUS
    <2>2. /\ Closed(l, n) \in Nat /\ Exposed(l, n)' \in Nat
          /\ Exposed(l, n)' <= Prepared(base[n][l]) /\ Prepared(base[n][l]) <= base[n][l]
          /\ base[n][l] \in Nat /\ Prepared(base[n][l]) \in Nat
      BY <1>1, StepSizes
    <2> QED
      BY <2>1, <2>2 DEF Closed
  <1>8. base[n][l] + Filled(l) - market[KeyOf[l][n]].filled = opened
    BY <1>2 DEF Whole
  <1> QED
    BY <1>5, <1>6, <1>7, <1>8

\* The orders of the position close no more than it holds.
LEMMA OverclosedStep ==
    ASSUME CloseInv, Calm, [CloseNext]_closeVars
    PROVE  NeverOverclosed'
  <1>1. IInv /\ TypeOK /\ BaseInv /\ NeverOverclosed /\ opened' = opened /\ opened \in Int
    BY StepFrame, CloseAssumption DEF CloseInv, IInv, BaseInv
  <1> SUFFICES ASSUME NEW l \in Legs PROVE Exposure(l)' <= opened
    BY <1>1 DEF NeverOverclosed
  <1>2. CASE Sends
    BY <1>2, SendsWithin
  <1>3. CASE ~Sends
    <2> DEFINE f == [m \in Attempts |-> Exposed(l, m)]
               g == [m \in Attempts |-> Exposed(l, m)']
    <2>1. ASSUME NEW n \in Attempts PROVE Exposed(l, n)' <= Exposed(l, n)
      <3>1. KeyOf[l][n] \in Keys
        BY KeyFacts
      <3>2. CASE ExchangeTrades
        <4>1. base' = base
          BY <3>2 DEF ExchangeTrades, closing
        <4>2. CASE MaybeLive(KeyOf[l][n])
          BY <4>1, <4>2, StepSizes DEF Exposed
        <4>3. CASE ~MaybeLive(KeyOf[l][n])
          <5>1. ~MaybeLive(KeyOf[l][n])' /\ market'[KeyOf[l][n]] = market[KeyOf[l][n]]
            BY <1>1, <3>1, <3>2, <4>3, ExchangeRests, RestStays DEF ExchangeTrades
          <5>2. Exposed(l, n)' = Exposed(l, n)
            BY <4>3, <5>1 DEF Exposed, Closed
          <5> QED
            BY <5>2, StepSizes
        <4> QED
          BY <4>2, <4>3
      <3>3. CASE UNCHANGED exchangeVars
        <4>1. /\ MaybeLive(KeyOf[l][n])' <=> MaybeLive(KeyOf[l][n])
              /\ market'[KeyOf[l][n]] = market[KeyOf[l][n]]
          BY <3>3, SettledStays DEF exchangeVars
        <4>2. base'[n] = base[n] \/ ~MaybeLive(KeyOf[l][n])
          <5>1. ASSUME NEW m \in Attempts, Beginning(m)
                PROVE  base'[n] = base[n] \/ ~MaybeLive(KeyOf[l][n])
            <6>1. creates[KeyOf[l][m]] = << >> /\ \A i \in Attempts \ {m} : base'[i] = base[i]
              BY <5>1, BeginningFacts
            <6>2. n = m => ~MaybeLive(KeyOf[l][n])
              BY <1>1, <3>1, <6>1, SettledFacts
            <6> QED
              BY <6>1, <6>2
          <5> QED
            BY <5>1, StepFrame
        <4>3. Exposed(l, n)' = Exposed(l, n)
          <5>1. CASE MaybeLive(KeyOf[l][n])
            BY <4>1, <4>2, <5>1 DEF Exposed
          <5>2. CASE ~MaybeLive(KeyOf[l][n])
            BY <4>1, <5>2 DEF Exposed, Closed
          <5> QED
            BY <5>1, <5>2
        <4> QED
          BY <4>3, StepSizes
      <3> QED
        BY <1>3, <3>2, <3>3, ExchangeFrame
    <2>2. f \in [Attempts -> Int] /\ g \in [Attempts -> Int] /\ \A n \in Attempts : g[n] <= f[n]
      BY <2>1, StepSizes
    <2>3. Total(f) \in Int /\ Total(g) \in Int /\ Total(g) <= Total(f)
      <3> HIDE DEF f, g
      <3> QED
        BY <2>2, TotalBelow
    <2>4. Total(f) = Exposure(l) /\ Total(g) = Exposure(l)'
      BY SumsOfOrders
    <2>5. Exposure(l) <= opened
      BY <1>1 DEF NeverOverclosed
    <2> QED
      BY <1>1, <2>3, <2>4, <2>5
  <1> QED
    BY <1>2, <1>3

\* What is closed stays closed.
LEMMA FilledGrows ==
    ASSUME CloseInv, Calm, [CloseNext]_closeVars, NEW l \in Legs
    PROVE  Filled(l) \in Int /\ Filled(l)' \in Int /\ Filled(l) <= Filled(l)'
  <1> DEFINE f == [m \in Attempts |-> Closed(l, m)']
             g == [m \in Attempts |-> Closed(l, m)]
  <1>1. IInv /\ TypeOK /\ TypeOK'
    BY ServiceStays DEF CloseInv, IInv
  <1>2. ASSUME NEW n \in Attempts PROVE Closed(l, n) <= Closed(l, n)'
    <2>1. KeyOf[l][n] \in Keys /\ Closed(l, n) \in Nat /\ Closed(l, n)' \in Nat
      BY KeyFacts, StepSizes
    <2>2. CASE market' = market
      BY <2>1, <2>2 DEF Closed
    <2>3. CASE ExchangeTrades
      <3>1. CASE market[KeyOf[l][n]] = NoOrder
        BY <2>1, <3>1 DEF Closed, NoOrder
      <3>2. CASE market[KeyOf[l][n]] # NoOrder
        <4>1. market[KeyOf[l][n]] \in Past(KeyOf[l][n])
          BY <3>2 DEF Past
        <4>2. market[KeyOf[l][n]] \in Past(KeyOf[l][n])'
          BY <1>1, <2>1, <2>3, <4>1, PastGrows DEF ExchangeTrades
        <4>3. \/ market[KeyOf[l][n]] = market'[KeyOf[l][n]]
              \/ market[KeyOf[l][n]].filled <= market'[KeyOf[l][n]].filled
          BY <4>2 DEF Past
        <4> QED
          BY <2>1, <4>3 DEF Closed
      <3> QED
        BY <3>1, <3>2
    <2> QED
      BY <2>2, <2>3, StepFrame
  <1>3. f \in [Attempts -> Int] /\ g \in [Attempts -> Int] /\ \A n \in Attempts : g[n] <= f[n]
    BY <1>2, StepSizes
  <1>4. Total(f) \in Int /\ Total(g) \in Int /\ Total(g) <= Total(f)
    <2> HIDE DEF f, g
    <2> QED
      BY <1>3, TotalBelow
  <1>5. Total(f) = Filled(l)' /\ Total(g) = Filled(l)
    BY SumsOfOrders
  <1> QED
    BY <1>4, <1>5

\* A position that is posted as closed is flat, and stays flat.
LEMMA FlatStep ==
    ASSUME CloseInv, Calm, [CloseNext]_closeVars
    PROVE  ClosedIsFlat'
  <1>1. /\ IInv /\ TypeOK /\ TaskInv /\ ResultInv' /\ ResultInv /\ RemainingIsTrue
        /\ ClosedIsFlat /\ NeverOverclosed' /\ opened' = opened /\ opened \in Int
    BY ResultStep, OverclosedStep, StepFrame, CloseAssumption DEF CloseInv, IInv, BaseInv
  <1>2. CASE posted' = posted
    <2> SUFFICES ASSUME posted.position = "closed", NEW l \in Legs PROVE Filled(l)' = opened
      BY <1>1, <1>2 DEF ClosedIsFlat
    <2>1. Filled(l) = opened
      BY <1>1 DEF ClosedIsFlat
    <2>2. Filled(l)' <= opened
      <3>1. /\ Exposure(l)' <= opened
        BY <1>1 DEF NeverOverclosed
      <3>2. /\ TypeOK' /\ BaseInv' /\ FillInv'
        BY ServiceStays, BaseStep, FillStep
      <3>3. Filled(l)' <= Exposure(l)' /\ Exposure(l)' \in Int
        <4> DEFINE f == [m \in Attempts |-> Exposed(l, m)']
                   g == [m \in Attempts |-> Closed(l, m)']
        <4>1. ASSUME NEW m \in Attempts PROVE Closed(l, m)' <= Exposed(l, m)'
          BY StepSizes DEF Exposed
        <4>2. f \in [Attempts -> Int] /\ g \in [Attempts -> Int] /\ \A m \in Attempts : g[m] <= f[m]
          BY <4>1, StepSizes
        <4>3. Total(f) \in Int /\ Total(g) \in Int /\ Total(g) <= Total(f)
          <5> HIDE DEF f, g
          <5> QED
            BY <4>2, TotalBelow
        <4>4. Total(f) = Exposure(l)' /\ Total(g) = Filled(l)'
          BY SumsOfOrders
        <4> QED
          BY <4>3, <4>4
      <3>4. Filled(l)' \in Int
        BY FilledGrows
      <3> QED
        BY <1>1, <3>1, <3>3, <3>4
    <2>3. Filled(l) <= Filled(l)' /\ Filled(l)' \in Int
      BY FilledGrows
    <2> QED
      BY <1>1, <2>1, <2>2, <2>3
  <1>3. CASE OwnStep /\ Reposts
    <2> SUFFICES ASSUME result.position = "closed", NEW l \in Legs PROVE Filled(l)' = opened
      BY <1>1, <1>3 DEF ClosedIsFlat, Reposts
    <2>1. result.status = "completed" /\ result.remaining[l] = 0
      BY <1>1 DEF ResultInv
    <2>2. result # NoResult /\ result.status \notin PendingResults
      BY <2>1 DEF NoResult, Result, PendingResults
    <2>3. result.remaining[l] = opened - Filled(l)
      BY <1>1, <2>2 DEF RemainingIsTrue
    <2>4. Filled(l)' = Filled(l)
      <3>1. UNCHANGED exchangeVars
        BY <1>1, <1>3, OwnEffect
      <3>2. \A n \in Attempts : Closed(l, n)' = Closed(l, n)
        BY <3>1 DEF Closed, exchangeVars
      <3>3. [n \in Attempts |-> Closed(l, n)'] = [n \in Attempts |-> Closed(l, n)]
        BY <3>2
      <3> QED
        BY <3>3, SumsOfOrders
    <2>5. Filled(l) \in Int
      BY FilledGrows
    <2> QED
      BY <1>1, <2>1, <2>3, <2>4, <2>5
  <1>4. CASE posted' = result' /\ result'.position # "closed"
    BY <1>4 DEF ClosedIsFlat
  <1>5. CASE OwnStep /\ UNCHANGED <<shown, plan>> /\ Stores(task.leg)
    <2>1. posted' = posted \/ (posted' = result' /\ result'.status \in PendingResults)
      BY <1>1, <1>5, TaskGoes, StoresMeans DEF Result
    <2>2. result'.status \in PendingResults => result'.position # "closed"
      BY <1>1 DEF ResultInv, PendingResults
    <2> QED
      BY <1>2, <1>4, <2>1, <2>2
  <1>6. CASE Refused
    BY <1>4, <1>6 DEF Refused, Result, Begins
  <1>7. CASE ProcessRestart
    BY <1>7 DEF ProcessRestart, ClosedIsFlat, NoResult, Result
  <1>8. CASE \E n \in Attempts : Beginning(n)
    BY <1>2, <1>8 DEF Beginning
  <1> QED
    BY <1>2, <1>3, <1>5, <1>6, <1>7, <1>8, ResultFrame

-----------------------------------------------------------------------------
(* Every step keeps a plan that is over at rest *)

\* What is at rest and tried stays so, while the plan and its attempt go on.
LEMMA OverKept ==
    ASSUME CloseInv, plan.known, AtRest, \A l \in Legs : Reached(l) => Tried(l),
           UNCHANGED exchangeVars \/ ExchangeTrades,
           base' = base, plan'.attempt = plan.attempt, attempted \subseteq attempted',
           \A l \in Legs : plan.order[l] # NoOrder => plan'.order[l] # NoOrder
    PROVE  AtRest' /\ \A l \in Legs : Reached(l)' => Tried(l)'
  <1>1. IInv /\ PlanInv /\ BaseInv
    BY DEF CloseInv
  <1>2. AtRest' /\ \A k \in Keys : market'[k] = market[k]
    BY <1>1, AtRestStays
  <1>3. ASSUME NEW l \in Legs
        PROVE  /\ Key(l)' = Key(l) /\ Key(l) \in Keys
               /\ Needed(l)' <=> Needed(l)
    BY <1>1, PlanKey DEF Key, Needed, Remains
  <1>4. ASSUME NEW l \in Legs, Reached(l)' PROVE Tried(l)'
    <2>1. Key("first") \in Keys /\ Key("first")' = Key("first")
          /\ (Needed("first")' <=> Needed("first"))
      BY <1>3 DEF Legs
    <2>2. market'[Key("first")] = market[Key("first")]
      BY <1>2, <2>1
    <2>3. Reached(l)
      BY <1>3, <1>4, <2>1, <2>2 DEF Reached
    <2>4. Tried(l)
      BY <2>3
    <2> QED
      BY <1>3, <2>4 DEF Tried
  <1> QED
    BY <1>2, <1>4

\* A submission leaves the thread with a request to send only for an id that was not
\* attempted, after it has written the context to the file.
LEMMA SubmitCreates ==
    ASSUME TypeOK, NEW r \in Requests, Submit(Pool, r)
    PROVE  /\ attempted \subseteq attempted'
           /\ call'[Pool].phase = "create" =>
                 r.key \notin attempted /\ journal'.contexts = contexts'
           /\ call'[Pool].phase # "sent"
  <1>1. call \in [Threads -> Calls] /\ Pool \in Threads
    BY OnePlan DEF TypeOK
  <1>2. CASE SubmitClaim(Pool, r)
    <2>1. attempted \subseteq attempted' /\ r.key \notin attempted
      BY <1>2 DEF SubmitClaim, Claim, IsFresh
    <2>2. CASE Persisted /\ Creating(Pool, r.key)
      <3>1. journal'.contexts = contexts' /\ call'[Pool].phase = "create"
        BY <1>1, <2>2 DEF Persisted, Creating, Stage
      <3> QED
        BY <2>1, <3>1
    <2>3. CASE WriteFails(Pool)
      BY <1>1, <2>1, <2>3 DEF WriteFails, Done, Stage
    <2> QED
      BY <1>2, <2>2, <2>3 DEF SubmitClaim, Claim
  <1>3. CASE ~SubmitClaim(Pool, r)
    <2>1. attempted' = attempted
      BY <1>3 DEF Submit, SubmitConflict, SubmitKnown, SubmitDuplicate,
                  SubmitUnprepared, SubmitQuery, memory
    <2>2. \/ \E reply, order : Done(Pool, reply, order)
          \/ \E batch : Querying(Pool, r.key, batch)
      BY <1>3 DEF Submit, SubmitConflict, SubmitKnown, SubmitDuplicate,
                  SubmitUnprepared, SubmitQuery
    <2>3. call'[Pool].phase \in {"done", "query"}
      BY <1>1, <2>2 DEF Done, Querying, Stage
    <2> QED
      BY <2>1, <2>3
  <1> QED
    BY <1>2, <1>3

\* A plan that is over stays at rest, and sends nothing more.
LEMMA OverStep ==
    ASSUME CloseInv, Calm, [CloseNext]_closeVars
    PROVE  OverInv'
  <1>1. /\ IInv /\ TypeOK /\ TaskInv /\ PlanInv /\ BaseInv /\ NamedInv /\ OverInv
        /\ AskedPast
    BY DEF CloseInv, IInv, AnswerPast
  <1>2. ASSUME Ended' => Ended /\ plan'.attempt = plan.attempt /\ base' = base,
               Ended => UNCHANGED exchangeVars \/ ExchangeTrades,
               attempted \subseteq attempted',
               \A l \in Legs : plan.order[l] # NoOrder => plan'.order[l] # NoOrder
        PROVE  Ended' => AtRest' /\ \A l \in Legs : Reached(l)' => Tried(l)'
    <2> SUFFICES ASSUME Ended' PROVE AtRest' /\ \A l \in Legs : Reached(l)' => Tried(l)'
      OBVIOUS
    <2>1. AtRest /\ \A l \in Legs : Reached(l) => Tried(l)
      BY <1>1, <1>2 DEF OverInv
    <2> QED
      BY <1>2, <2>1, OverKept DEF Ended
  <1>3. ASSUME Ended' => AtRest' /\ \A l \in Legs : Reached(l)' => Tried(l)',
               call'[Pool].phase \notin {"create", "sent"}
        PROVE  OverInv'
    BY <1>3 DEF OverInv
  <1>4. ASSUME ~Ended', call'[Pool].phase \notin {"create", "sent"}
        PROVE  OverInv'
    BY <1>4 DEF OverInv
  <1>5. ASSUME UNCHANGED <<result, contexts>>, plan'.known => plan.known
        PROVE  Ended' => Ended
    BY <1>5 DEF Ended, Final
  <1>6. CASE OwnStep
    <2>1. /\ UNCHANGED <<exchangeVars, memory, journal>> /\ base' = base
          /\ call'[Pool].phase = "idle" \/ UNCHANGED <<call, task>>
      BY <1>1, <1>6, OwnEffect
    <2>2. CASE result' = result
      <3>1. Ended' => Ended /\ plan'.attempt = plan.attempt
        <4>1. CASE plan' = plan
          BY <1>5, <2>1, <2>2, <4>1 DEF memory
        <4>2. CASE Takes
          <5>1. plan.known /\ plan'.attempt = plan.attempt
            BY <4>2, TakenPlan
          <5> QED
            BY <1>5, <2>1, <2>2, <5>1 DEF memory
        <4>3. CASE Restores
          <5>1. contexts[Plan] # NoContext
            BY <1>1, <4>3, RestoredPlan, ContextNames
          <5> QED
            BY <2>1, <2>2, <4>3, <5>1 DEF Ended, Restores, memory, Final
        <4>4. CASE Refused
          BY <4>4 DEF Refused, NoPlan, Ended
        <4> QED
          BY <1>1, <1>6, <4>1, <4>2, <4>3, <4>4, OwnPlan
      <3>2. Ended' => \A l \in Legs : plan.order[l] # NoOrder => plan'.order[l] # NoOrder
        <4>1. CASE Takes
          <5>1. /\ plan'.order = [plan.order EXCEPT ![task.leg] = call[Pool].order]
                /\ call[Pool].order \in Orders
            BY <4>1, TakenPlan
          <5>2. NoOrder \notin Orders
            BY DEF NoOrder, Orders
          <5> QED
            BY <1>1, <5>1, <5>2 DEF PlanInv
        <4>2. CASE Restores
          <5>1. contexts[Plan] # NoContext
            BY <1>1, <4>2, RestoredPlan, ContextNames
          <5> QED
            BY <2>1, <2>2, <4>2, <5>1 DEF Ended, Restores, memory, Final
        <4>3. CASE Refused
          BY <4>3 DEF Refused, NoPlan, Ended
        <4> QED
          BY <1>1, <1>6, <4>1, <4>2, <4>3, OwnPlan
      <3>3. Ended' => AtRest' /\ \A l \in Legs : Reached(l)' => Tried(l)'
        <4> SUFFICES ASSUME Ended' PROVE AtRest' /\ \A l \in Legs : Reached(l)' => Tried(l)'
          OBVIOUS
        <4>1. AtRest /\ plan.known /\ \A l \in Legs : Reached(l) => Tried(l)
          BY <1>1, <3>1 DEF OverInv, Ended
        <4> QED
          BY <2>1, <3>1, <3>2, <4>1, OverKept DEF memory
      <3>4. CASE call'[Pool].phase = "idle"
        BY <1>3, <3>3, <3>4
      <3>5. CASE call'[Pool].phase # "idle"
        <4>1. UNCHANGED <<call, task>> /\ (plan' = plan \/ task.stage = "free")
          BY <1>6, <3>5, OwnMoves DEF OnTo
        <4>2. call[Pool].phase \in {"create", "sent"} => ~Ended /\ plan' = plan
          BY <1>1, <4>1 DEF OverInv, TaskInv
        <4>3. call'[Pool].phase \in {"create", "sent"} => ~Ended'
          BY <2>1, <2>2, <4>1, <4>2 DEF Ended, Final, memory
        <4>4. call'[Pool].phase = "create" => journal'.contexts[Plan] = contexts'[Plan]
          BY <1>1, <2>1, <4>1 DEF OverInv, memory
        <4> QED
          BY <3>3, <4>3, <4>4 DEF OverInv
      <3> QED
        BY <3>4, <3>5
    <2>3. CASE plan' = plan /\ Stores(task.leg)
      <3>1. call'[Pool].phase \notin {"create", "sent"}
        <4>1. task'.stage \in {"free", "complete"}
          BY <1>1, <2>3, TaskGoes, StoresMeans DEF NoTask, Task
        <4>2. call'[Pool].phase \in {"create", "sent"} => task'.stage = "sent"
          BY TaskStep DEF TaskInv
        <4> QED
          BY <4>1, <4>2
      <3>2. CASE result'.status \in PendingResults
        <4>1. ~Final(result')
          BY <3>2 DEF Final
        <4>2. Ended' => Ended
          BY <2>1, <2>3, <4>1 DEF Ended, Final, memory
        <4> QED
          BY <1>2, <1>3, <2>1, <2>3, <3>1, <4>2 DEF memory
      <3>3. CASE result'.status \notin PendingResults
        <4>1. /\ plan.known
              /\ \A l \in Legs : Rests(l) /\ (Reached(l) => Tried(l))
          BY <2>3, <3>3, StoredRests
        <4>2. AtRest
          BY <4>1, LegsRest
        <4>3. AtRest' /\ \A l \in Legs : Reached(l)' => Tried(l)'
          BY <2>1, <2>3, <4>1, <4>2, OverKept DEF memory
        <4> QED
          BY <1>3, <3>1, <4>3
      <3> QED
        BY <3>2, <3>3
    <2>4. CASE Refused
      <3>1. ~plan'.known
        BY <2>4 DEF Refused, NoPlan
      <3>2. call'[Pool].phase \notin {"create", "sent"}
        BY <2>4 DEF Refused, Begins, Free, vars
      <3> QED
        BY <1>4, <3>1, <3>2 DEF Ended
    <2> QED
      BY <1>1, <1>6, <2>2, <2>3, <2>4, OwnResult DEF Reposts
  <1>7. CASE Submitting
    <2>1. /\ UNCHANGED <<exchangeVars, contexts, closing>>
          /\ Submit(Pool, RequestOf(task.leg)) /\ RequestOf(task.leg) \in Requests
          /\ RequestOf(task.leg).key = Key(task.leg)
      BY <1>7 DEF Submitting
    <2>2. /\ attempted \subseteq attempted' /\ call'[Pool].phase # "sent"
          /\ call'[Pool].phase = "create" =>
                Key(task.leg) \notin attempted /\ journal'.contexts = contexts'
      BY <1>1, <2>1, SubmitCreates
    <2>3. Ended' <=> Ended
      BY <2>1 DEF Ended, Final, closing
    <2>4. Ended => Key(task.leg) \in attempted
      BY <1>7, DueIsNamed DEF Submitting
    <2>5. Ended' => AtRest' /\ \A l \in Legs : Reached(l)' => Tried(l)'
      BY <1>2, <2>1, <2>2, <2>3 DEF closing
    <2> QED
      BY <2>2, <2>3, <2>4, <2>5 DEF OverInv
  <1>8. ASSUME NEW k \in Keys, NEW order \in Past(k), Recording(k, order), CallStep
        PROVE  OverInv'
    <2>1. /\ UNCHANGED <<exchangeVars, contexts, base, result>>
          /\ call'[Pool].phase = "done"
      BY <1>8 DEF Recording, Answers
    <2>2. attempted' = attempted
      BY <1>8, QuietCall DEF Recording, Answers, RecordsLeg, RecordsEvent, Submitting
    <2>3. order # NoOrder
      BY <1>1, <1>8, PastFacts
    <2>4. /\ plan'.known = plan.known /\ plan'.attempt = plan.attempt
          /\ \A l \in Legs : plan.order[l] # NoOrder => plan'.order[l] # NoOrder
      <3>1. CASE RecordsLeg(k, order)
        BY <1>1, <3>1 DEF RecordsLeg, PlanInv
      <3>2. ASSUME NEW l \in Legs, RecordsEvent(l, k, order)
            PROVE  /\ plan'.known = plan.known /\ plan'.attempt = plan.attempt
                   /\ \A m \in Legs : plan.order[m] # NoOrder => plan'.order[m] # NoOrder
        <4>1. plan' = [plan EXCEPT !.seen[l] = order, !.order[l] = order]
          BY <3>2 DEF RecordsEvent
        <4>2. /\ plan'.order = [plan.order EXCEPT ![l] = order]
              /\ plan'.known = plan.known /\ plan'.attempt = plan.attempt
          BY <1>1, <4>1 DEF PlanInv
        <4> QED
          BY <1>1, <2>3, <4>2 DEF PlanInv
      <3>3. CASE plan' = plan
        BY <3>3
      <3> QED
        BY <1>8, <3>1, <3>2, <3>3 DEF Recording
    <2>5. Ended' => Ended
      BY <1>5, <2>1, <2>4
    <2> QED
      BY <1>2, <1>3, <2>1, <2>2, <2>4, <2>5
  <1>9. CASE Completing /\ CallStep
    <2>1. /\ UNCHANGED <<exchangeVars, closing>> /\ call'[Pool].phase = "done"
          /\ ~Submitting
      BY <1>9 DEF Completing, Answers, Submitting
    <2>2. attempted' = attempted
      BY <1>9, <2>1, QuietCall
    <2>3. Final(result)
      BY <1>1, <1>9 DEF Completing, NamedInv, Ending
    <2>4. Ended' => Ended
      BY <2>1, <2>3 DEF Ended, closing
    <2> QED
      BY <1>2, <1>3, <2>1, <2>2, <2>4 DEF closing
  <1>10. CASE (Refreshing \/ AskingAll) /\ CallStep
    <2>1. /\ UNCHANGED <<exchangeVars, contexts, closing>> /\ ~Submitting
          /\ call'[Pool].phase \in {"done", "query"}
      BY <1>10 DEF Refreshing, AskingAll, Submitting, memory
    <2>2. attempted' = attempted
      BY <1>10, <2>1, QuietCall
    <2>3. Ended' => Ended
      BY <1>5, <2>1 DEF closing
    <2> QED
      BY <1>2, <1>3, <2>1, <2>2, <2>3 DEF closing
  <1>11. ASSUME NEW n \in Attempts, Beginning(n)
         PROVE  OverInv'
    <2>1. result' = NoResult /\ contexts'[Plan] = Context(n)' /\ call'[Pool].phase = "done"
      BY <1>11 DEF Beginning, Answers
    <2>2. Context(n)' # NoContext
      BY DEF Context, NoContext
    <2>3. ~Ended'
      BY <2>1, <2>2 DEF Ended, Final
    <2> QED
      BY <1>4, <2>1, <2>3
  <1>12. CASE InService /\ UNCHANGED closing
    <2>1. UNCHANGED <<contexts, worker, closing>>
      BY <1>1, <1>12, ServiceEffect
    <2>2. Ended' <=> Ended
      BY <2>1 DEF Ended, Final, closing
    <2>3. attempted' = attempted
      BY <1>1, <1>12, InServiceShrinks
    <2>4. Ended => UNCHANGED exchangeVars \/ ExchangeTrades
      BY ExchangeFrame
    <2>5. Ended' => AtRest' /\ \A l \in Legs : Reached(l)' => Tried(l)'
      BY <1>2, <2>1, <2>2, <2>3, <2>4 DEF closing
    <2>6. /\ call'[Pool].phase # "create"
          /\ call'[Pool].phase = "sent" => call[Pool].phase = "create"
      <3>1. \A reply, order : Over(reply, order) => call'[Pool].phase = "done"
        BY DEF Over, Stage
      <3>2. \A p, k, n, o, b, r : call'[Pool] = Stage(p, k, n, o, b, r) =>
                call'[Pool].phase = p
        BY DEF Stage
      <3>3. \/ /\ call[Pool].phase = "create"
               /\ \E k, n : call'[Pool] = Stage("sent", k, n, NoOrder, {}, "none")
            \/ \E k, o, b : \/ call'[Pool] = Stage("query", k, 0, NoOrder, b, "none")
                            \/ call'[Pool] = Stage("asked", k, 0, o, b, "none")
            \/ \E reply, order : Over(reply, order)
        <4> DEFINE i == call[Pool].key
        <4>1. \/ /\ call[Pool].phase = "create"
                 /\ \E n \in Nat : call'[Pool] = Stage("sent", i, n, NoOrder, {}, "none")
              \/ call'[Pool] = Stage("query", i, 0, NoOrder, {}, "none")
              \/ call'[Pool] = Stage("asked", i, 0, market[i], call[Pool].batch, "none")
              \/ \E j \in call[Pool].batch :
                   call'[Pool] = Stage("query", j, 0, NoOrder, call[Pool].batch \ {j}, "none")
              \/ \E reply, order : Over(reply, order)
          BY <1>1, <1>12, ServiceEffect
        <4> HIDE DEF i
        <4> QED
          BY <4>1
      <3> QED
        BY <3>1, <3>2, <3>3
    <2>7. call'[Pool].phase = "sent" => ~Ended'
      BY <1>1, <2>2, <2>6 DEF OverInv
    <2> QED
      BY <2>5, <2>6, <2>7 DEF OverInv
  <1>13. CASE ExchangeTrades
    <2>1. UNCHANGED <<memory, journal, call, closing>>
      BY <1>13 DEF ExchangeTrades, ExchangeStep
    <2>2. Ended' <=> Ended
      BY <2>1 DEF Ended, Final, closing, memory
    <2>3. Ended' => AtRest' /\ \A l \in Legs : Reached(l)' => Tried(l)'
      BY <1>2, <1>13, <2>1, <2>2 DEF closing, memory
    <2> QED
      BY <1>1, <2>1, <2>2, <2>3 DEF OverInv, memory
  <1>14. CASE ProcessRestart
    <2>1. ~plan'.known /\ call'[Pool].phase = "idle"
      BY <1>14, RestartAttempts DEF NoPlan, Idle, Stage
    <2> QED
      BY <1>4, <2>1 DEF Ended
  <1>15. CASE UNCHANGED closeVars
    <2>1. UNCHANGED <<exchangeVars, memory, journal, call, closing>>
      BY <1>15 DEF closeVars, vars
    <2>2. Ended' <=> Ended
      BY <2>1 DEF Ended, Final, closing, memory
    <2>3. Ended' => AtRest' /\ \A l \in Legs : Reached(l)' => Tried(l)'
      BY <1>2, <2>1, <2>2 DEF closing, memory
    <2> QED
      BY <1>1, <2>1, <2>2, <2>3 DEF OverInv, memory
  <1>16. CASE CallStep
    BY <1>7, <1>8, <1>9, <1>10, <1>11, <1>16, CloseCalls
  <1> QED
    BY <1>1, <1>6, <1>12, <1>13, <1>14, <1>15, <1>16, StepCases

-----------------------------------------------------------------------------
(* The executor *)

\* A position is opened with all of it left.
LEMMA CloseStart == CloseInit => CloseInv
  <1> SUFFICES ASSUME CloseInit PROVE CloseInv
    OBVIOUS
  <1>1. /\ Init /\ task = NoTask /\ recovery = "none"
        /\ opened \in Opened /\ attempt = 0 /\ base = [n \in Attempts |-> [l \in Legs |-> 0]]
        /\ plan = NoPlan /\ result = NoResult /\ posted = NoResult
        /\ shown = Untouched
    BY DEF CloseInit, WorkerInit, Untouched
  <1>2. /\ creates = [k \in Keys |-> << >>] /\ market = [k \in Keys |-> NoOrder]
        /\ requests = [k \in Keys |-> NoRequest] /\ submitted = [k \in Keys |-> NoRequest]
        /\ orders = [k \in Keys |-> NoOrder] /\ attempted = {}
        /\ contexts[Plan] = NoContext /\ journal.contexts[Plan] = NoContext
        /\ journal.orders = submitted /\ call[Pool] = Idle
    BY <1>1, OnePlan DEF Init, ExchangeInit
  <1>3. IInv /\ TypeOK
    BY <1>1, InitInv DEF IInv
  <1>4. MaxAttempts \in Nat \ {0} /\ 1..attempt = {} /\ opened \in Nat \ {0}
    BY <1>1, CloseAssumption
  <1>5. TaskInv
    BY <1>1, <1>2 DEF TaskInv, NoTask, Task, Stages, PlanStages, ServiceStages, Placing,
                      Ending, Idle, Stage
  <1>6. PlanInv
    BY <1>1 DEF PlanInv, NoPlan
  <1>7. BaseInv
    <2>1. attempt \in 0..MaxAttempts
      BY <1>1, <1>4
    <2>2. base \in [Attempts -> [Legs -> Nat]]
      BY <1>1
    <2>3. \A n \in Attempts, l \in Legs :
            /\ base[n][l] = 0
            /\ creates[KeyOf[l][n]] = << >> /\ orders[KeyOf[l][n]] = NoOrder
            /\ KeyOf[l][n] \notin attempted
      BY <1>1, <1>2, KeyFacts
    <2> QED
      BY <1>1, <1>4, <2>1, <2>2, <2>3 DEF BaseInv
  <1>8. AskedInv /\ FillInv
    <2>1. \A n \in Attempts, l \in Legs :
            /\ requests[KeyOf[l][n]] = NoRequest /\ submitted[KeyOf[l][n]] = NoRequest
            /\ journal.orders[KeyOf[l][n]] = NoRequest /\ KeyOf[l][n] \notin attempted
            /\ market[KeyOf[l][n]] = NoOrder /\ base[n][l] = 0
      BY <1>1, <1>2, KeyFacts
    <2>2. Prepared(0) = 0
      BY PreparedBelow DEF NoRequest
    <2>3. AskedInv
      BY <2>1 DEF AskedInv
    <2>4. FillInv
      BY <2>1, <2>2 DEF FillInv, NoOrder
    <2> QED
      BY <2>3, <2>4
  <1>9. OrdersPast /\ AnswerPast /\ RecordPast /\ FollowInv /\ FailInv
    BY <1>1, <1>2 DEF OrdersPast, AnswerPast, AskedPast, RecordPast, FollowInv, FailInv, NoPlan,
                      NoTask, Task, Idle, Stage, Placing
  <1>10. NamedInv
    BY <1>1, <1>2 DEF NamedInv, Contexted, NoPlan, NoTask, Task, Ending
  <1>11. PlacedInv /\ SettledInv
    BY <1>2, KeyFacts DEF PlacedInv, SettledInv
  <1>12. WholeInv
    BY <1>4 DEF WholeInv
  <1>13. OverInv
    BY <1>1, <1>2 DEF OverInv, Ended, NoPlan, Idle, Stage
  <1>14. ResultInv
    BY <1>1 DEF ResultInv, NoResult, Result, RetryableResults
  <1>15. ShownInv
    BY <1>1 DEF ShownInv, NoResult, Result
  <1>16. ASSUME NEW l \in Legs PROVE Exposure(l) <= opened
    <2>1. ASSUME NEW n \in Attempts PROVE Exposed(l, n) = 0
      <3>1. KeyOf[l][n] \in Keys /\ creates[KeyOf[l][n]] = << >>
        BY <1>2, KeyFacts
      <3>2. ~MaybeLive(KeyOf[l][n])
        BY <1>3, <3>1, SettledFacts
      <3>3. market[KeyOf[l][n]].filled = 0
        BY <1>2, <3>1 DEF NoOrder
      <3> QED
        BY <3>2, <3>3 DEF Exposed, Closed
    <2>2. [n \in Attempts |-> Exposed(l, n)] = [n \in Attempts |-> 0]
      BY <2>1
    <2>3. Exposure(l) = 0
      BY <2>2, SumsOfOrders, TotalOfNothing
    <2> QED
      BY <1>4, <2>3
  <1>17. NeverOverclosed
    BY <1>16 DEF NeverOverclosed
  <1>18. RemainingIsTrue /\ ClosedIsFlat
    BY <1>1 DEF RemainingIsTrue, ClosedIsFlat, NoResult, Result
  <1> QED
    BY <1>3, <1>5, <1>6, <1>7, <1>8, <1>9, <1>10, <1>11, <1>12, <1>13, <1>14, <1>15, <1>17,
       <1>18 DEF CloseInv

\* Every step of the executor, the presenter, the service and the exchange preserves
\* CloseInv.
LEMMA CloseStep ==
    ASSUME CloseInv, Calm, [CloseNext]_closeVars
    PROVE  CloseInv'
  <1>1. IInv' /\ TaskInv' /\ PlanInv' /\ BaseInv' /\ AskedInv' /\ FillInv'
    BY ServiceStays, TaskStep, PlanStep, BaseStep, AskedStep, FillStep
  <1>2. OrdersPast' /\ AnswerPast' /\ RecordPast' /\ FollowInv' /\ NamedInv' /\ PlacedInv'
    BY PlanStep, NamedStep, PlacedStep
  <1>3. SettledInv' /\ FailInv' /\ WholeInv' /\ OverInv' /\ ResultInv' /\ ShownInv'
    BY SettledStep, WholeStep, OverStep, ResultStep, ShownStep
  <1>4. NeverOverclosed' /\ RemainingIsTrue' /\ ClosedIsFlat'
    BY OverclosedStep, RemainingStep, FlatStep
  <1> QED
    BY <1>1, <1>2, <1>3, <1>4 DEF CloseInv

\* The inductive invariant of the closing executor, with answers that can be read and
\* streams that are up.
THEOREM CloseInvariance ==
    ASSUME Calm
    PROVE  CloseSpec => []CloseInv
  <1>1. CloseInv /\ [CloseNext]_closeVars => CloseInv'
    BY CloseStep
  <1> QED
    BY <1>1, CloseStart, PTL DEF CloseSpec

\* The executor uses the service as the service's callers may: it names the id of a
\* leg of the attempt it works on, and registers a context for ids never used.  So
\* every theorem about the service holds of the program that runs on it.
THEOREM ExecutorIsACaller ==
    ASSUME Calm
    PROVE  CloseSpec => Spec
  <1>1. CloseInit => Init
    BY DEF CloseInit, WorkerInit
  <1>2. CloseInv /\ [CloseNext]_closeVars => [Next]_vars
    BY CloseStepIsAllowed
  <1> QED
    BY <1>1, <1>2, CloseInvariance, PTL DEF CloseSpec, Spec

\* A position's legs are never placed twice: no id has two live create requests,
\* whatever is retried, resumed, restarted, or fails to be written.
THEOREM ClosePlacesOnce ==
    ASSUME Calm
    PROVE  CloseSpec => []AtMostOneLiveCreate
  <1>1. CloseInv => AtMostOneLiveCreate
    BY DEF CloseInv, IInv
  <1> QED
    BY <1>1, CloseInvariance, PTL

\* Over all the attempts that the user makes with fresh ids, the orders of a leg cannot
\* close more than the position holds.
THEOREM NothingIsOverclosed ==
    ASSUME Calm
    PROVE  CloseSpec => []NeverOverclosed
  <1>1. CloseInv => NeverOverclosed
    BY DEF CloseInv
  <1> QED
    BY <1>1, CloseInvariance, PTL

\* A final result tells the truth: what it says remains is what the exchanges have left
\* open, and no order of the position can change that any more.
THEOREM FinalResultsAreTrue ==
    ASSUME Calm
    PROVE  CloseSpec => []RemainingIsTrue
  <1>1. CloseInv => RemainingIsTrue
    BY DEF CloseInv
  <1> QED
    BY <1>1, CloseInvariance, PTL

\* A position is reported closed only when the exchanges have closed all of it.
THEOREM ClosedMeansFlat ==
    ASSUME Calm
    PROVE  CloseSpec => []ClosedIsFlat
  <1>1. CloseInv => ClosedIsFlat
    BY DEF CloseInv
  <1> QED
    BY <1>1, CloseInvariance, PTL

-----------------------------------------------------------------------------
(* A close that waits for the user *)

\* Until a journal write fails, the file holds the contexts of the memory.
FileInv == /\ faults \in Nat /\ restarts \in Nat
           /\ faults = 0 => journal.contexts = contexts

\* A step writes the contexts it changes, or fails to write them.
Tidy == /\ restarts' = restarts
        /\ \/ faults < MaxFaults /\ faults' = faults + 1
           \/ faults' = faults /\ journal'.contexts = contexts'
           \/ UNCHANGED <<faults, journal, contexts>>

\* The service writes what it changes, and attempts ids in a submission only.
LEMMA ServiceTidy ==
    /\ InService => Tidy /\ attempted' = attempted
    /\ \A k, order : Record(Pool, k, order) => Tidy /\ attempted' = attempted
    /\ \A kind, batch : RegisterContext(Pool, Plan, kind, batch) => Tidy /\ attempted' = attempted
    /\ CompleteContext(Pool, Plan) => Tidy /\ attempted' = attempted
    /\ SetConfirmationRequired(Pool, Plan) => Tidy /\ attempted' = attempted
    /\ \A r : Refresh(Pool, r) => Tidy /\ attempted' = attempted
    /\ RecoverPending(Pool) => Tidy /\ attempted' = attempted
    /\ Return(Pool) => Tidy /\ attempted' = attempted
    /\ ExchangeStep => Tidy /\ attempted' = attempted
    /\ UNCHANGED vars => Tidy /\ attempted' = attempted
    /\ \A r : Submit(Pool, r) \/ ConfirmAndSubmit(Pool, r, Plan) => Tidy
  <1>1. Persisted => faults' = faults /\ journal'.contexts = contexts'
    BY DEF Persisted
  <1>2. WriteFails(Pool) => faults < MaxFaults /\ faults' = faults + 1
    BY DEF WriteFails
  <1>3. InService => Tidy /\ attempted' = attempted
    BY <1>1, <1>2 DEF InService, CreateSend, CreateReturned, CreateMismatched, CreateUnreadable,
       CreateRefused, CreateUnclear, QuerySend, QueryReturned, QueryMismatched, QueryFailed,
       memory, Tidy
  <1>4. \A k, order : Record(Pool, k, order) => Tidy /\ attempted' = attempted
    BY <1>1, <1>2 DEF Record, Tidy
  <1>5. \A kind, batch : RegisterContext(Pool, Plan, kind, batch) => Tidy /\ attempted' = attempted
    BY <1>1, <1>2 DEF RegisterContext, Tidy
  <1>6. /\ CompleteContext(Pool, Plan) => Tidy /\ attempted' = attempted
        /\ SetConfirmationRequired(Pool, Plan) => Tidy /\ attempted' = attempted
    BY <1>1, <1>2 DEF CompleteContext, SetConfirmationRequired, Tidy
  <1>7. /\ \A r : Refresh(Pool, r) => Tidy /\ attempted' = attempted
        /\ RecoverPending(Pool) => Tidy /\ attempted' = attempted
        /\ Return(Pool) => Tidy /\ attempted' = attempted
        /\ ExchangeStep => Tidy /\ attempted' = attempted
        /\ UNCHANGED vars => Tidy /\ attempted' = attempted
    BY DEF Refresh, RecoverPending, Return, ExchangeStep, vars, memory, Tidy
  <1>8. ASSUME NEW r, Submit(Pool, r) \/ ConfirmAndSubmit(Pool, r, Plan) PROVE Tidy
    <2>1. Claim(Pool, r) => Tidy
      BY <1>1, <1>2 DEF Claim, Tidy
    <2> QED
      BY <1>8, <2>1 DEF Submit, SubmitConflict, SubmitKnown, SubmitDuplicate, SubmitUnprepared,
         SubmitClaim, SubmitQuery, ConfirmAndSubmit, ConfirmRefused, ConfirmClaim, memory, Tidy
  <1> QED
    BY <1>3, <1>4, <1>5, <1>6, <1>7, <1>8

\* So does every step but a restart; and only AdvanceSubmit attempts an id.
LEMMA CloseTidy ==
    ASSUME CloseNext, ~ProcessRestart
    PROVE  Tidy /\ (attempted' = attempted \/ AdvanceSubmit)
  <1>1. ASSUME Begin(shown.remaining) PROVE Tidy /\ attempted' = attempted
    BY <1>1, ServiceTidy DEF Begin
  <1>2. CASE UserCloses
    BY <1>1, <1>2, ServiceTidy DEF UserCloses, SubmitClose, RetryClose, ResumeClose
  <1>3. ASSUME NEW l \in Legs, NEW n \in Attempts, NEW order \in Past(KeyOf[l][n]),
               PrivateEvent(l, n, order)
        PROVE  Tidy /\ attempted' = attempted
    BY <1>3, ServiceTidy DEF PrivateEvent
  <1>4. CASE Noting \/ RefreshLeg \/ Refreshed \/ Restore \/ Deliver
    BY <1>4, ServiceTidy DEF Noting, RefreshLeg, Refreshed, Restore, Deliver, After
  <1>5. CASE Advance
    <2>1. CASE AdvanceSubmit
      BY <2>1, ServiceTidy DEF AdvanceSubmit
    <2>2. CASE \/ AdvanceKnown \/ AdvanceSingle \/ AdvanceDeferred \/ AdvanceNotReady
               \/ Deferring \/ Sent \/ RecordLeg \/ Recorded \/ Registered \/ Complete
               \/ Completed
      BY <2>2, ServiceTidy DEF AdvanceKnown, AdvanceSingle, AdvanceDeferred, AdvanceNotReady,
         Deferring, Sent, RecordLeg, Recorded, Registered, Complete, Completed, After
    <2> QED
      BY <1>5, <2>1, <2>2 DEF Advance
  <1>6. CASE InService \/ Recover \/ ExchangeTrades
    BY <1>6, ServiceTidy DEF Recover, RecoverStart, RecoverEnd, MonitorLeaves, After,
       ExchangeTrades
  <1> QED
    BY <1>2, <1>3, <1>4, <1>5, <1>6 DEF CloseNext

\* The file holds the contexts of the memory, until a write fails.
LEMMA FileStep ==
    ASSUME FileInv, [CloseNext]_closeVars
    PROVE  FileInv'
  <1>1. CASE ProcessRestart
    BY <1>1 DEF FileInv, ProcessRestart, WorkerRestart, Restart
  <1>2. CASE CloseNext /\ ~ProcessRestart
    <2>1. Tidy
      BY <1>2, CloseTidy
    <2> QED
      BY <2>1 DEF FileInv, Tidy
  <1>3. CASE UNCHANGED closeVars
    BY <1>3 DEF FileInv, closeVars, vars, memory
  <1> QED
    BY <1>1, <1>2, <1>3

\* Once the journal says that a close waits for the user's confirmation, only the
\* user's explicit resume claims an order for it, until a journal write fails: after
\* that the file may still hold the flag that the memory has cleared.  This needs no
\* Calm: streams may fail and answers may be unreadable.
THEOREM ConfirmedWhileWritten ==
    CloseSpec => [][\/ restarts' # restarts
                    \/ attempted' = attempted
                    \/ ~journal.contexts[Plan].confirm
                    \/ task.confirm
                    \/ faults > 0]_closeVars
  <1> DEFINE Waits == \/ restarts' # restarts
                      \/ attempted' = attempted
                      \/ ~journal.contexts[Plan].confirm
                      \/ task.confirm
                      \/ faults > 0
  <1>1. CloseInit => FileInv
    BY DEF CloseInit, WorkerInit, Init, FileInv
  <1>2. FileInv /\ [CloseNext]_closeVars => FileInv'
    BY FileStep
  <1>3. FileInv /\ [CloseNext]_closeVars => [Waits]_closeVars
    <2> SUFFICES ASSUME FileInv, CloseNext PROVE Waits
      OBVIOUS
    <2>1. CASE ProcessRestart
      BY <2>1 DEF FileInv, ProcessRestart, WorkerRestart, Restart
    <2>2. CASE ~ProcessRestart /\ attempted' = attempted
      BY <2>2
    <2>3. CASE AdvanceSubmit
      <3>1. ~contexts[Plan].confirm \/ task.confirm
        BY <2>3 DEF AdvanceSubmit, MustConfirm
      <3>2. faults = 0 => journal.contexts[Plan].confirm = contexts[Plan].confirm
        BY DEF FileInv
      <3>3. faults \in Nat
        BY DEF FileInv
      <3>4. CASE faults = 0
        BY <3>1, <3>2, <3>4
      <3>5. CASE faults > 0
        BY <3>5
      <3> QED
        BY <3>3, <3>4, <3>5
    <2> QED
      BY <2>1, <2>2, <2>3, CloseTidy
  <1> HIDE DEF Waits
  <1>4. CloseSpec => [][Waits]_closeVars
    BY <1>1, <1>2, <1>3, PTL DEF CloseSpec
  <1> QED
    BY <1>4 DEF Waits

\* So a close that waits is claimed by the user's resume only, when journal writes do
\* not fail.
THEOREM CloseWaitsForUser ==
    ASSUME MaxFaults = 0
    PROVE  CloseSpec => ConfirmedByUser
  <1> DEFINE NoFault == faults = 0
             Wanted == \/ restarts' # restarts
                       \/ attempted' = attempted
                       \/ ~journal.contexts[Plan].confirm
                       \/ task.confirm
             Waits == \/ restarts' # restarts
                      \/ attempted' = attempted
                      \/ ~journal.contexts[Plan].confirm
                      \/ task.confirm
                      \/ faults > 0
  <1>1. CloseInit => NoFault
    BY DEF CloseInit, WorkerInit, Init
  <1>2. NoFault /\ [CloseNext]_closeVars => NoFault'
    <2> SUFFICES ASSUME NoFault, [CloseNext]_closeVars PROVE faults' = 0
      OBVIOUS
    <2>1. CASE ProcessRestart
      BY <2>1 DEF ProcessRestart, WorkerRestart, Restart
    <2>2. CASE CloseNext /\ ~ProcessRestart
      BY <2>2, CloseTidy DEF Tidy
    <2>3. CASE UNCHANGED closeVars
      BY <2>3 DEF closeVars, vars
    <2> QED
      BY <2>1, <2>2, <2>3
  <1>3. CloseSpec => [][Waits]_closeVars
    BY ConfirmedWhileWritten
  <1>4. NoFault /\ [Waits]_closeVars => [Wanted]_closeVars
    OBVIOUS
  <1> HIDE DEF NoFault, Waits, Wanted
  <1>5. CloseSpec => [][Wanted]_closeVars
    BY <1>1, <1>2, <1>3, <1>4, PTL DEF CloseSpec
  <1> QED
    BY <1>5 DEF ConfirmedByUser, Wanted
=============================================================================

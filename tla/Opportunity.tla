------------------------------ MODULE Opportunity ------------------------------
(***************************************************************************)
(* The arithmetic of an opening: calculate_opportunity over two books,     *)
(* TradingRules, prepare_dual_leg_requests before the first submission and *)
(* prepare_follow_up_request after the first fill.  Quantities, prices and *)
(* amounts are whole numbers of a smallest unit; an average price is the   *)
(* fraction notional / quantity.  Both mappers give every instrument the   *)
(* contract multiplier 1, so order and base quantities agree.              *)
(***************************************************************************)
EXTENDS Integers, Sequences, FiniteSets, FiniteSetsExt, SequencesExt

CONSTANTS
    PriceLevels, MaxSize,    \* the levels of a book: [Prices -> 0..MaxSize]
    RuleSets,           \* records [tick, step, minimum, maximum, notional]
    Amounts             \* quote amounts a user may enter

ASSUME OpportunityAssumption ==
    /\ PriceLevels \subseteq Nat \ {0} /\ MaxSize \in Nat /\ Amounts \subseteq Nat \ {0}
    /\ \A r \in RuleSets : {r.tick, r.step, r.minimum, r.notional} \subseteq Nat \ {0}

VARIABLES
    rules,      \* [Legs -> RuleSets]
    depth,      \* asks of the book to buy from, bids of the one to sell to
    usable,     \* the books that are valid and fresh
    amount,     \* the quote amount
    stage,      \* "watching", "published", "prepared", "refused", "hedging", "done", "unhedged"
    plan,       \* the opportunity, or NoPlan
    filled,     \* what the first leg filled
    second      \* the quantity of the second leg

opportunityVars == <<rules, depth, usable, amount, stage, plan, filled, second>>

Legs == {"buy", "sell"}
NoPlan == [quantity |-> 0]

RoundToStep(value, step) == (value \div step) * step

\* Mutant: the larger of the two steps.
LargerStep == Max({rules[leg].step : leg \in Legs})

CommonStep == Min({s \in 1..(rules["buy"].step * rules["sell"].step) :
                     \A leg \in Legs : s % rules[leg].step = 0})

\* Mutant: the bids are taken from the lowest up.
OrderedUp(leg) == SetToSortSeq({p \in PriceLevels : depth[leg][p] > 0}, LAMBDA p, q : p < q)

\* The levels in the order an order of that side takes them
Ordered(leg) == SetToSortSeq({p \in PriceLevels : depth[leg][p] > 0},
                             LAMBDA p, q : IF leg = "buy" THEN p < q ELSE p > q)

\* _fill: what is left of the quantity after the last level, and the notional
Fill(leg, quantity) ==
    FoldLeft(LAMBDA walk, p :
                 LET taken == Min({walk.remaining, depth[leg][p]})
                 IN [remaining |-> walk.remaining - taken,
                     notional |-> walk.notional + taken * p],
             [remaining |-> quantity, notional |-> 0], Ordered(leg))

\* _quantity_for_quote_amount: whole levels, and the part "rest / price" of one
Bought == FoldLeft(LAMBDA walk, p :
                       IF walk.spent THEN walk
                       ELSE IF walk.remaining >= depth["buy"][p] * p
                       THEN [walk EXCEPT !.whole = @ + depth["buy"][p],
                                         !.remaining = @ - depth["buy"][p] * p]
                       ELSE [whole |-> walk.whole, rest |-> walk.remaining,
                             price |-> p, remaining |-> 0, spent |-> TRUE],
                   [whole |-> 0, rest |-> 0, price |-> 1,
                    remaining |-> amount, spent |-> FALSE],
                   Ordered("buy"))

\* normalize_common_base_quantity of the fraction
CommonQuantity(walk) == RoundToStep((walk.whole * walk.price + walk.rest) \div walk.price,
                                    CommonStep)

\* _validate_values of a quantity at the price numerator / denominator
Within(leg, quantity, numerator, denominator) ==
    /\ rules[leg].minimum <= quantity /\ quantity <= rules[leg].maximum
    /\ numerator * quantity >= rules[leg].notional * denominator

\* prepare_order of a market order: quantity and reference price are rounded
\* down to their steps, and the rounded values must be within the rules.
Accepted(leg, quantity, notional, of) ==
    Within(leg, RoundToStep(quantity, rules[leg].step),
           RoundToStep(notional \div of, rules[leg].tick), 1)

\* validate_execution: a quantity on the step, at its exact average price
Executable(leg, quantity, notional) ==
    /\ RoundToStep(quantity, rules[leg].step) = quantity
    /\ Within(leg, quantity, notional, quantity)

\* _validate_books
BooksUsable == usable = Legs

\* calculate_opportunity
Calculated ==
    LET quantity == CommonQuantity(Bought)
        fill == [leg \in Legs |-> Fill(leg, quantity)]
    IN IF /\ BooksUsable
          /\ Bought.remaining = 0 /\ quantity > 0
          /\ \A leg \in Legs : /\ fill[leg].remaining = 0
                                /\ Executable(leg, quantity, fill[leg].notional)
       THEN [quantity |-> quantity, notional |-> [leg \in Legs |-> fill[leg].notional]]
       ELSE NoPlan

-----------------------------------------------------------------------------
\* _publish_opportunities, on every message of a book
Publish == /\ stage = "watching"
           /\ plan' = Calculated
           /\ stage' = IF plan' = NoPlan THEN "refused" ELSE "published"
           /\ UNCHANGED <<rules, depth, usable, amount, filled, second>>

\* prepare_dual_leg_requests: both legs, before either is submitted
Prepare == /\ stage = "published"
           /\ LET ready == \A leg \in Legs : Accepted(leg, plan.quantity,
                                                plan.notional[leg], plan.quantity)
              IN stage' = IF ready THEN "prepared" ELSE "refused"
           /\ UNCHANGED <<rules, depth, usable, amount, plan, filled, second>>

\* The first leg, a market order, is final; it may have filled less or more.
FirstFills == /\ stage = "prepared"
              /\ \E quantity \in 1..(plan.quantity + 1) : filled' = quantity
              /\ stage' = "hedging"
              /\ UNCHANGED <<rules, depth, usable, amount, plan, second>>

\* prepare_follow_up_request: the second leg from what the first has filled
FollowUp == \E leg \in Legs :     \* the leg that comes second
    LET quantity == RoundToStep(filled, CommonStep)
    IN /\ stage = "hedging"
       /\ IF quantity > 0 /\ Accepted(leg, quantity, plan.notional[leg], plan.quantity)
          THEN stage' = "done" /\ second' = RoundToStep(quantity, rules[leg].step)
          ELSE stage' = "unhedged" /\ UNCHANGED second
       /\ UNCHANGED <<rules, depth, usable, amount, plan, filled>>

OpportunityInit ==
    /\ rules \in [Legs -> RuleSets] /\ depth \in [Legs -> [PriceLevels -> 0..MaxSize]]
    /\ usable \in {Legs, {"buy"}, {"sell"}} /\ amount \in Amounts
    /\ stage = "watching" /\ plan = NoPlan /\ filled = 0 /\ second = 0

OpportunityNext == Publish \/ Prepare \/ FirstFills \/ FollowUp

OpportunitySpec == OpportunityInit /\ [][OpportunityNext]_opportunityVars

-----------------------------------------------------------------------------
(* Properties.                                                             *)

\* Every way to take a quantity from the levels of a book, and what it comes to
Takings(leg, quantity) ==
    {t \in [PriceLevels -> 0..MaxSize] : /\ \A p \in PriceLevels : t[p] <= depth[leg][p]
                                    /\ MapThenSumSet(LAMBDA p : t[p], PriceLevels) = quantity}
Notionals(leg, quantity) ==
    {MapThenSumSet(LAMBDA p : p * t[p], PriceLevels) : t \in Takings(leg, quantity)}

\* Quantities both exchanges can execute that the amount can pay for
Affordable == {q \in 1..(MaxSize * Cardinality(PriceLevels)) :
                 /\ \A leg \in Legs : q % rules[leg].step = 0
                 /\ \E n \in Notionals("buy", q) : n <= amount}

\* A published opportunity is the largest quantity that both exchanges can
\* execute and the amount can pay for, and its notionals are the best that the
\* two books give for it (calculate_opportunity against all takings).  It is
\* refused before submission only because its reference price is rounded down
\* to the tick, which makes a notional too small (prepare_dual_leg_requests).
OpportunityIsBest == plan # NoPlan =>
    /\ plan.quantity = Max(Affordable)
    /\ plan.notional["buy"] = Min(Notionals("buy", plan.quantity))
    /\ plan.notional["sell"] = Max(Notionals("sell", plan.quantity))
    /\ stage = "refused" => \E leg \in Legs :
          /\ plan.notional[leg] >= rules[leg].notional
          /\ plan.notional[leg] - rules[leg].notional < rules[leg].tick * plan.quantity

\* The second leg is the largest part of what the first filled, even if that was
\* more or less than planned, that both exchanges can execute
\* (prepare_follow_up_request).
HedgeIsClose == stage = "done" =>
    second = Max({q \in 0..filled : \A leg \in Legs : q % rules[leg].step = 0})

=============================================================================

------------------------------ MODULE MCLiveData ------------------------------
(***************************************************************************)
(* Instances for TLC of what LiveDataWorker does with the data it gets,    *)
(* side by side: the local book, the account store, the order reconciler,  *)
(* the registry of instruments, and the calculation of an opportunity.     *)
(* They share no state, so a behaviour is about one of them and the others *)
(* rest.                                                                   *)
(***************************************************************************)
EXTENDS BookSync, AccountStore, FillTracker, Instruments, Opportunity

CONSTANTS
    Parts,      \* of {"book", "accounts", "fills", "instruments", "opportunity"}
    p1, p2, a1, a2

VARIABLE part
liveVars == <<part, syncVars, accountVars, fillVars, instrumentVars, opportunityVars>>

Product(exchange, market, symbol, quote, delivery) ==
    [exchange |-> exchange, market |-> market, symbol |-> symbol, quote |-> quote,
     delivery |-> delivery]

\* Four changes of a book of two prices, of which the third removes a level
TouchedPrices == [i \in 1..MaxChange |-> IF i % 2 = 1 THEN p1 ELSE p2]

\* A symbol that is traded in four places, a foreign quote, a delivery contract
SomeProducts == {Product("binance", "spot", "s", "USDT", FALSE),
                 Product("binance", "perpetual", "s", "USDT", FALSE),
                 Product("bitget", "spot", "s", "USDT", FALSE),
                 Product("bitget", "perpetual", "s", "USDT", FALSE),
                 Product("bitget", "perpetual", "u", "USDC", FALSE),
                 Product("binance", "perpetual", "d", "USDT", TRUE)}

Rules(tick, step, minimum, maximum, notional) ==
    [tick |-> tick, step |-> step, minimum |-> minimum, maximum |-> maximum,
     notional |-> notional]

\* Steps and ticks of 1, 2 and 3, and bounds that some quantities miss
SomeRules == {Rules(1, 1, 1, 4, 1), Rules(2, 2, 2, 9, 4), Rules(1, 3, 3, 6, 1)}

One(set) == CHOOSE x \in set : TRUE

\* What the other parts are while they rest: one of their initial states
AccountRests == AccountInit /\ scope = One(Scopes) /\ mode = "one_way"
FillRests == FillInit /\ orderVenue = One(OrderVenues) /\ orderKind = One(OrderKinds)
OpportunityRests ==
    /\ rules = [leg \in Legs |-> One(RuleSets)]
    /\ depth = [leg \in Legs |-> [p \in PriceLevels |-> 0]]
    /\ usable = Legs /\ amount = One(Amounts)
    /\ stage = "watching" /\ plan = NoPlan /\ filled = 0 /\ second = 0

BookRests == SyncInit /\ venue = One(VenueSet)

LiveInit ==
    /\ part \in Parts
    /\ IF part = "book" THEN SyncInit ELSE BookRests
    /\ IF part = "accounts" THEN AccountInit ELSE AccountRests
    /\ IF part = "fills" THEN FillInit ELSE FillRests
    /\ InstrumentInit
    /\ IF part = "opportunity" THEN OpportunityInit ELSE OpportunityRests

Only(name) ==
    /\ part = name /\ UNCHANGED part
    /\ name # "book" => UNCHANGED syncVars
    /\ name # "accounts" => UNCHANGED accountVars
    /\ name # "fills" => UNCHANGED fillVars
    /\ name # "instruments" => UNCHANGED instrumentVars
    /\ name # "opportunity" => UNCHANGED opportunityVars

LiveNext == \/ Only("book") /\ SyncNext
            \/ Only("accounts") /\ AccountNext
            \/ Only("fills") /\ FillNext
            \/ Only("instruments") /\ InstrumentNext
            \/ Only("opportunity") /\ OpportunityNext

LiveSpec == LiveInit /\ [][LiveNext]_liveVars

\* The types of a book's buffer and flags and of an account; the buffer of updates
\* keeps its capacity, and a cursor stays behind the exchange's clock.
LiveTypeOK == SyncTypeOK /\ AccountTypeOK
=============================================================================

------------------------------ MODULE Instruments ------------------------------
(***************************************************************************)
(* The products of both exchanges: what the instrument mappers make of the *)
(* lists, the InstrumentRegistry of LiveDataWorker, and how a private      *)
(* message finds the instrument it is about (handle_private_message).      *)
(***************************************************************************)
EXTENDS Integers, FiniteSets

CONSTANT
    Products    \* records [exchange, market, symbol, quote, delivery]

\* An exchange names each product of a market once, as _items' keys require.
ASSUME ProductAssumption ==
    /\ \A p \in Products :
          /\ p.exchange \in {"binance", "bitget"} /\ p.market \in {"spot", "perpetual"}
          /\ p.market = "spot" => ~p.delivery
    /\ \A p, q \in {r \in Products : ~r.delivery} :
          <<p.exchange, p.market, p.symbol>> = <<q.exchange, q.market, q.symbol>> => p = q

VARIABLES
    listed,     \* the products that are trading at the exchanges now
    registry,   \* InstrumentRegistry._items
    loading,    \* product lists read so far by _load_products, or NotLoading
    event       \* the last private event and what it was resolved to

instrumentVars == <<listed, registry, loading, event>>

NotLoading == [step |-> 0]
NoEvent == [topic |-> "none"]

\* The market clients, in the order of bootstrap's dictionary
Clients == << <<"binance", "spot">>, <<"binance", "perpetual">>,
              <<"bitget", "spot">>, <<"bitget", "perpetual">> >>
Key(p) == <<p.exchange, p.market>>

-----------------------------------------------------------------------------
\* A product starts or stops trading.  One that is listed and does not trade is
\* parsed and then left out of the registry, as if it were not listed.
ProductChanges == /\ \E p \in Products : listed' = (listed \ {p}) \cup ({p} \ listed)
                  /\ UNCHANGED <<registry, loading, event>>

\* parse_usdt_perpetual_products leaves delivery contracts out; a perpetual that
\* is not quoted in USDT is left out for Binance and an error for Bitget.
Foreign(p) == p.market = "perpetual" /\ ~p.delivery /\ p.quote # "USDT"
Parsed(products) == {p \in products : ~p.delivery /\ ~Foreign(p)}
Unparsable(products) == \E p \in products : p.exchange = "bitget" /\ Foreign(p)

\* _load_products: one request for each client, and one replace at the end.
LoadList ==
    LET products == {p \in listed : Key(p) = Clients[loading.step]}
    IN /\ loading # NotLoading /\ loading.step <= 4
       /\ loading' = IF Unparsable(products) THEN NotLoading
                     ELSE [step |-> loading.step + 1,
                           read |-> loading.read \cup Parsed(products)]
       /\ UNCHANGED <<listed, registry, event>>

StartLoading == /\ loading = NotLoading
                /\ loading' = [step |-> 1, read |-> {}]
                /\ UNCHANGED <<listed, registry, event>>

LoadFailsToRead == /\ loading # NotLoading /\ loading.step <= 4
                   /\ loading' = NotLoading
                   /\ UNCHANGED <<listed, registry, event>>

Replace == /\ loading # NotLoading /\ loading.step = 5
           /\ registry' = loading.read
           /\ loading' = NotLoading
           /\ UNCHANGED <<listed, event>>

-----------------------------------------------------------------------------
\* Mutant: the first instrument of a symbol stays.
ForExchangeFirst(exchange, symbol) ==
    LET named == {p \in registry : p.exchange = exchange /\ p.symbol = symbol}
        first == {p \in named : p.market = "spot"}
    IN IF first # {} THEN first ELSE named

\* for_exchange: keyed by the symbol alone, so the last instrument of a symbol
\* replaces the others, and perpetuals are loaded last.
ForExchange(exchange, symbol) ==
    LET named == {p \in registry : p.exchange = exchange /\ p.symbol = symbol}
        last == {p \in named : p.market = "perpetual"}
    IN IF last # {} THEN last ELSE named

\* What an order event of a product finds: by market and symbol for Binance
\* (for_binance_orders), among the values of for_exchange for Bitget.
OrderInstrument(p) ==
    {i \in IF p.exchange = "binance" THEN registry
           ELSE ForExchange(p.exchange, p.symbol) :
       Key(i) = Key(p) /\ i.symbol = p.symbol}

\* What a position row finds: the instrument must be the perpetual.
PositionInstrument(p) ==
    {i \in ForExchange(p.exchange, p.symbol) : i.market = "perpetual"}

Resolve(topic, p, found) ==
    /\ event' = [topic |-> topic, product |-> p, known |-> p \in registry,
                 to |-> found]
    /\ UNCHANGED <<listed, registry, loading>>

\* An event of an order, or of a position, of a product the account may hold.
OrderEvent == \E p \in Products : ~p.delivery /\ Resolve("order", p, OrderInstrument(p))
PositionEvent == \E p \in Products : /\ p.market = "perpetual" /\ ~p.delivery
                                     /\ Resolve("position", p, PositionInstrument(p))

InstrumentInit == /\ listed = Products
                  /\ registry = {} /\ loading = NotLoading /\ event = NoEvent

InstrumentNext == \/ ProductChanges \/ StartLoading \/ LoadList \/ LoadFailsToRead
                  \/ Replace \/ OrderEvent \/ PositionEvent

InstrumentSpec == InstrumentInit /\ [][InstrumentNext]_instrumentVars

-----------------------------------------------------------------------------
(* Properties.                                                             *)

\* Whatever was loaded, halted or delisted, an event is resolved to the product
\* it is about or to nothing, although spot and perpetual share their symbols;
\* and a position, or an order at Binance, of a product in the registry is
\* always resolved (InstrumentRegistry, the _instrument helpers of the mappers).
ResolvedToItsOwn == event # NoEvent =>
    /\ event.to \in {{}, {event.product}}
    /\ event.known /\ (event.topic = "position" \/ event.product.exchange = "binance")
          => event.to # {}

\* Every order event of an instrument the registry holds reaches the
\* reconciler: docs/order-state-machine.md:33-34, "REST snapshots and private
\* WebSocket order/fill events share the existing `OrderReconciler`".  (On Bitget
\* the spot instrument is hidden by the perpetual of its symbol.)
OrderEventsAreResolved ==
    event # NoEvent /\ event.topic = "order" /\ event.known => event.to # {}
=============================================================================

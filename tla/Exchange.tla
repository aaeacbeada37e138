------------------------------ MODULE Exchange ------------------------------
(***************************************************************************)
(* The order side of an exchange, as the trading clients of the repository *)
(* observe it (TradingClient.create_order and query_order, and the private *)
(* streams).  The exchange itself is not part of the repository: what is   *)
(* modelled is what the callers must be prepared for.  A create request    *)
(* that has left the process may still be on its way, be accepted, be      *)
(* refused, or vanish; the caller may learn of it late or never.           *)
(***************************************************************************)
EXTENDS Integers, Sequences

CONSTANTS
    Keys,       \* client order ids, each with its exchange: _key(request)
    Fills       \* cumulative filled quantities an order can reach, with 0

VARIABLES
    creates,    \* [Keys -> Seq(Outcomes)]: every create request ever sent
    market      \* [Keys -> Orders]: the order the exchange holds for a key

exchangeVars == <<creates, market>>

\* What has become of one create request.
Outcomes == {"flying", "accepted", "refused", "lost"}

\* "new" stands for SUBMITTED, NEW and PARTIALLY_FILLED, "canceled" for the
\* three terminal states that are not FILLED.
NoOrder == [status |-> "none", filled |-> 0]
Orders == [status : {"new", "filled", "canceled"}, filled : Fills]
Ack == [status |-> "new", filled |-> 0]

IsTerminal(order) == order.status \in {"filled", "canceled"}

\* Every create request for k was refused: no order of k can exist.
Settled(k) == \A n \in 1..Len(creates[k]) : creates[k][n] = "refused"

\* An order of k trades, or may still turn up.
MaybeLive(k) == ~Settled(k) /\ ~IsTerminal(market[k])

\* What the private stream can deliver of k, late or twice: the order as it
\* is, or as it once was.
Past(k) == IF market[k] = NoOrder
           THEN {}
           ELSE {market[k]} \cup
                {o \in Orders : o.status = "new" /\ o.filled <= market[k].filled}

-----------------------------------------------------------------------------
ExchangeInit == /\ creates = [k \in Keys |-> << >>]
                /\ market = [k \in Keys |-> NoOrder]

SendCreate(k) == /\ creates' = [creates EXCEPT ![k] = Append(@, "flying")]
                 /\ UNCHANGED market

Accept(k) == \E n \in 1..Len(creates[k]) :
    /\ creates[k][n] = "flying"
    /\ creates' = [creates EXCEPT ![k][n] = "accepted"]
    /\ market' = [market EXCEPT ![k] = Ack]

Refuse(k) == \E n \in 1..Len(creates[k]) :
    /\ creates[k][n] = "flying"
    /\ creates' = [creates EXCEPT ![k][n] = "refused"]
    /\ UNCHANGED market

Lose(k) == \E n \in 1..Len(creates[k]) :
    /\ creates[k][n] = "flying"
    /\ creates' = [creates EXCEPT ![k][n] = "lost"]
    /\ UNCHANGED market

Trade(k) == \E order \in Orders :
    /\ market[k].status = "new"
    /\ order.status \in {"new", "filled"}
    /\ order.filled > market[k].filled
    /\ market' = [market EXCEPT ![k] = order]
    /\ UNCHANGED creates

Cancel(k) == /\ market[k].status = "new"
             /\ market' = [market EXCEPT ![k].status = "canceled"]
             /\ UNCHANGED creates

ExchangeNext == \E k \in Keys :
    Accept(k) \/ Refuse(k) \/ Lose(k) \/ Trade(k) \/ Cancel(k)
=============================================================================

------------------------------ MODULE FillTracker ------------------------------
(***************************************************************************)
(* OrderReconciler (fill_tracker.py) for one order: what is known of its   *)
(* fills and fees, from REST answers and private events that arrive late,  *)
(* twice, out of order or not at all.  The exchange decides the fills; a   *)
(* message is a view of the order after some of them (order_mapper.py of   *)
(* both exchanges), or one of the fills.                                   *)
(***************************************************************************)
EXTENDS Integers, Sequences, FiniteSets, FiniteSetsExt

CONSTANTS
    OrderVenues,    \* a subset of {"binance", "bitget"}
    OrderKinds,     \* a subset of {"limit", "market"}
    Quantity,       \* original_quantity of a limit order
    MaxQuantity,    \* bound: what a market order may fill
    FillFees,       \* what one fill may cost; fees of one sign, by their magnitude
    MaxFills        \* bound: fills of the order

ASSUME FillAssumption ==
    /\ OrderVenues \subseteq {"binance", "bitget"}
    /\ OrderKinds \subseteq {"limit", "market"}
    /\ Quantity \in Nat \ {0} /\ MaxQuantity \in Nat /\ MaxFills \in Nat
    /\ FillFees \subseteq Nat

VARIABLES
    orderVenue, orderKind,
    trades,         \* the fills of the order at the exchange, in order
    outcome,        \* "open", "filled" or "canceled" there
    endTime,        \* when it was canceled
    tracked,        \* _orders of the key: an Order, or NoOrder
    boundary,       \* _snapshot_time, _snapshot_cumulative, _snapshot_has_cumulative_fee
    told,           \* a view of the ended order has arrived
    refused         \* a truthful message made the reconciler raise

fillVars == <<orderVenue, orderKind, trades, outcome, endTime, tracked, boundary,
              told, refused>>

NoOrder == [status |-> "none"]
Terminal == {"filled", "canceled"}

-----------------------------------------------------------------------------
(* The exchange, and the messages its mapper makes of the order.           *)

All == DOMAIN trades

\* What amount holds for those of the first n fills that are in a set, in total
Total(amount, fills, n) ==
    LET upTo[i \in 0..n] ==
            IF i = 0 THEN 0 ELSE upTo[i - 1] + (IF i \in fills THEN amount[i] ELSE 0)
    IN  upTo[n]

QuantityOf(fills) == Total([n \in All |-> trades[n].quantity], fills, Len(trades))
FeeOf(fills) == Total([n \in All |-> trades[n].fee], fills, Len(trades))
TimeOf(n) == IF n = 0 THEN 0 ELSE trades[n].time

Trade == \E quantity \in 1..MaxQuantity, fee \in FillFees, later \in 0..1, last \in BOOLEAN :
    /\ outcome = "open" /\ Len(trades) < MaxFills
    /\ QuantityOf(All) + quantity <= (IF orderKind = "limit" THEN Quantity ELSE MaxQuantity)
    /\ orderKind = "limit" => last = (QuantityOf(All) + quantity = Quantity)
    /\ trades' = Append(trades, [quantity |-> quantity, fee |-> fee,
                                 time |-> TimeOf(Len(trades)) + later])
    /\ outcome' = IF last THEN "filled" ELSE "open"
    /\ UNCHANGED <<orderVenue, orderKind, endTime, tracked, boundary, told, refused>>

CancelOrder == /\ outcome = "open"
               /\ outcome' = "canceled"
               /\ \E later \in 0..1 : endTime' = TimeOf(Len(trades)) + later
               /\ UNCHANGED <<orderVenue, orderKind, trades, tracked, boundary, told, refused>>

\* The order after its first n fills, with the fee and fills a message lists.
OrderAfter(n, fee, fills) ==
    [status |-> IF outcome = "filled" /\ n = Len(trades) THEN "filled"
                ELSE IF n = 0 THEN "new" ELSE "partially_filled",
     cumulative |-> QuantityOf(1..n), fee |-> fee, fills |-> fills, time |-> TimeOf(n)]

\* Binance: an order event carries the fill that caused it and its fee, a query
\* neither, and the answer to a spot order all of them, of one time.
\* Bitget: an order carries the cumulative fee and no fills.
OrderViews ==
    IF orderVenue = "bitget"
    THEN {OrderAfter(n, FeeOf(1..n), {}) : n \in 0..Len(trades)}
    ELSE {OrderAfter(n, 0, {}) : n \in 0..Len(trades)}
         \cup {OrderAfter(n, FeeOf({n}), {n}) : n \in All}
         \cup {OrderAfter(n, FeeOf(1..n), 1..n) : n \in
                {k \in All : \A j \in 1..k : TimeOf(j) = TimeOf(k)}}

CanceledView ==
    [OrderAfter(Len(trades), IF orderVenue = "bitget" THEN FeeOf(All) ELSE 0, {})
        EXCEPT !.status = "canceled", !.time = endTime]

\* The answer of Bitget to a submission, stamped by its gateway.
Acknowledgement(at) ==
    [status |-> "submitted", cumulative |-> 0, fee |-> 0, fills |-> {}, time |-> at]

-----------------------------------------------------------------------------
(* OrderReconciler.                                                        *)

\* What Order.__post_init__ demands of quantities and fills
ValidOrder(o) ==
    /\ orderKind = "limit" => o.cumulative <= Quantity
    /\ o.status = "filled" => IF orderKind = "limit" THEN o.cumulative = Quantity
                                                     ELSE o.cumulative > 0
    /\ o.status = "partially_filled" =>
          o.cumulative > 0 /\ (orderKind = "limit" => o.cumulative < Quantity)
    /\ QuantityOf(o.fills) <= o.cumulative

\* Mutant: the time of the snapshot is not kept.
BoundaryTimeless(o, hasFee) == [time |-> 0, cumulative |-> o.cumulative, hasFee |-> hasFee]

Boundary(o, hasFee) == [time |-> o.time, cumulative |-> o.cumulative, hasFee |-> hasFee]

Store(o, b) == IF ValidOrder(o)
               THEN tracked' = o /\ boundary' = b /\ UNCHANGED refused
               ELSE refused' = TRUE /\ UNCHANGED <<tracked, boundary>>

Ignore == UNCHANGED <<tracked, boundary, refused>>

\* Mutant: what comes in the same millisecond is stale, and only time counts.
StaleInTheSameTime(m) == m.time <= tracked.time
Stale(m) == \/ m.time < tracked.time
            \/ m.cumulative < tracked.cumulative
            \/ tracked.status \in Terminal /\ m.status # tracked.status

\* The fee of a merge: the carried one where the view has none, or the sum of
\* the fills, whichever is larger.
MergedFee(m, fills) ==
    LET carried == IF m.fee = 0 THEN tracked.fee ELSE m.fee
    IN IF FeeOf(fills) > carried THEN FeeOf(fills) ELSE carried

ApplyOrder(m) ==
    IF tracked = NoOrder THEN Store(m, Boundary(m, m.fee # 0 /\ m.fills = {}))
    ELSE IF m = tracked \/ Stale(m) THEN Ignore
    ELSE LET fills == tracked.fills \cup m.fills
             carried == /\ m.fee = 0 /\ tracked.fee # 0
                        /\ m.cumulative = boundary.cumulative /\ boundary.hasFee
             merged == [m EXCEPT !.fills = fills, !.fee = MergedFee(m, fills)]
         IN Store(merged, Boundary(merged, (m.fee # 0 /\ m.fills = {}) \/ carried))

\* A fill of the snapshot's time or before is covered by the snapshot, as long
\* as all such fills together are; otherwise a new snapshot is asked for.
ApplyFill(n) ==
    LET fills == tracked.fills \cup {n}
        new == TimeOf(n) > boundary.time
        covered == QuantityOf({f \in fills : TimeOf(f) <= boundary.time})
        sum == tracked.cumulative + (IF new THEN trades[n].quantity ELSE 0)
        status == IF tracked.status \in Terminal THEN tracked.status
                  ELSE IF orderKind = "limit" /\ sum = Quantity THEN "filled"
                  ELSE IF sum > 0 THEN "partially_filled" ELSE tracked.status
    IN IF \/ tracked = NoOrder
          \/ n \in tracked.fills
          \/ ~new /\ covered > boundary.cumulative
       THEN Ignore
       ELSE Store([status |-> status, cumulative |-> sum, fills |-> fills,
                   fee |-> IF ~new /\ boundary.hasFee THEN tracked.fee
                           ELSE tracked.fee + trades[n].fee,
                   time |-> Max({tracked.time, TimeOf(n)})],
                  boundary)

-----------------------------------------------------------------------------
Unchanged == UNCHANGED <<orderVenue, orderKind, trades, outcome, endTime>>

\* A view may be of any moment up to now: it was delayed, or comes again.
OrderArrives == /\ \E m \in OrderViews :
                      /\ ApplyOrder(m)
                      /\ told' = (told \/ m.status = "filled")
                /\ Unchanged

CanceledArrives == /\ outcome = "canceled"
                   /\ ApplyOrder(CanceledView)
                   /\ told' = TRUE
                   /\ Unchanged

AcknowledgementArrives == /\ orderVenue = "bitget"
                          /\ \E at \in 0..(TimeOf(Len(trades)) + 1) :
                                ApplyOrder(Acknowledgement(at))
                          /\ UNCHANGED told /\ Unchanged

FillArrives == /\ orderVenue = "bitget"
               /\ \E n \in All : ApplyFill(n)
               /\ UNCHANGED told /\ Unchanged

FillInit == /\ orderVenue \in OrderVenues /\ orderKind \in OrderKinds
            /\ trades = << >> /\ outcome = "open" /\ endTime = 0
            /\ tracked = NoOrder
            /\ boundary = [time |-> 0, cumulative |-> 0, hasFee |-> FALSE]
            /\ told = FALSE /\ refused = FALSE

FillNext == \/ Trade \/ CancelOrder \/ OrderArrives \/ CanceledArrives
            \/ AcknowledgementArrives \/ FillArrives

FillSpec == FillInit /\ [][FillNext]_fillVars

-----------------------------------------------------------------------------
(* Properties.                                                             *)

\* Whatever is delayed, lost, repeated or reordered, what is tracked never
\* exceeds what the exchange did: no fill or fee counts twice, an order is final
\* only if it is final there, and no order of true messages makes a merged order
\* that Order.__post_init__ refuses (OrderReconciler.apply).
NothingInvented ==
    /\ ~refused
    /\ tracked # NoOrder =>
          /\ tracked.cumulative <= QuantityOf(All) /\ tracked.fee <= FeeOf(All)
          /\ tracked.status \in Terminal => tracked.status = outcome

\* An acknowledgement of Bitget that is stamped later than the order's end: every
\* later message is out of order or asks for a snapshot.
AcknowledgedLate == tracked.status = "submitted" /\
    tracked.time > (IF outcome = "canceled" THEN endTime ELSE TimeOf(Len(trades)))

\* One message about the ended order settles it, whatever came before: the
\* quantity is the exchange's, and so is the fee on Bitget; on Binance, whose
\* order queries have no fee, it is the fee of the fills that are known, and an
\* event that a query overtook stays unknown (_apply_order).
LastWordCounts == told /\ ~AcknowledgedLate =>
    /\ tracked.cumulative = QuantityOf(All)
    /\ tracked.status = outcome
    /\ tracked.fee = FeeOf(IF orderVenue = "bitget" THEN All ELSE tracked.fills)

=============================================================================

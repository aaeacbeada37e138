------------------------------ MODULE OrderBook ------------------------------
(***************************************************************************)
(* One side of OrderBook (app/domain/market/order_book.py) and the updates *)
(* the quote mappers make of an exchange's messages.                       *)
(*                                                                         *)
(* The exchange numbers the changes of its book.  A change sets the        *)
(* quantity of one price; a quantity stands for the change that set it,    *)
(* and 0 for no level.  An update reports the changes from + 1 .. to, with *)
(* the quantities they leave.                                              *)
(***************************************************************************)
EXTENDS Integers, Sequences, FiniteSetsExt

CONSTANTS
    Prices,     \* prices of the book
    MaxChange,  \* bound: changes the exchange makes
    Touched,    \* the price each change sets
    Removals    \* the changes that remove the level of their price

ASSUME BookAssumption ==
    /\ MaxChange \in Nat
    /\ Touched \in [1..MaxChange -> Prices]
    /\ Removals \subseteq 1..MaxChange

\* The exchange's own book after a number of changes.
Truth(n) == [p \in Prices |->
    LET set == {i \in 1..n : Touched[i] = p} IN
    IF set = {} \/ Max(set) \in Removals THEN 0 ELSE Max(set)]

\* The venues number their updates differently: Binance spot has no previous
\* sequence, and Bitget's first sequence is the previous one.
Venues == {"spot", "futures", "bitget"}
None == -1

Update(venue, from, to) ==
    [first |-> IF venue = "bitget" THEN from ELSE from + 1,
     from |-> from,
     sequence |-> to,
     previous |-> IF venue = "spot" THEN None ELSE from,
     snapshot |-> FALSE]

Snapshot(n) == [first |-> n, from |-> n, sequence |-> n, previous |-> None,
                snapshot |-> TRUE]

\* A book is valid or requires a snapshot; after: _after_snapshot.
EmptyBook == [valid |-> FALSE, sequence |-> None, after |-> FALSE,
              levels |-> [p \in Prices |-> 0]]

-----------------------------------------------------------------------------
(* OrderBook.apply *)

SnapshotBook(n) == [valid |-> TRUE, sequence |-> n, after |-> TRUE,
                    levels |-> Truth(n)]

\* A previous sequence of 0 is a reset, but right after a snapshot it spans.
IsReset(book, update) ==
    /\ update.previous = 0
    /\ ~(book.after /\ update.first <= book.sequence /\ book.sequence <= update.sequence)

\* Mutant of IsContinuous: any newer update continues the book.
IsContinuousAfterAny(book, update) == TRUE

\* _is_continuous: the first update after a snapshot spans it, a later one
\* names its predecessor or starts no later than the next change.
IsContinuous(book, update) ==
    LET next == IF update.previous = None THEN book.sequence + 1 ELSE book.sequence IN
    IF book.after \/ update.previous = None
    THEN update.first <= next /\ next <= update.sequence
    ELSE update.previous = book.sequence

\* UpdateResult of an incremental update.
ResultOf(book, update) ==
    CASE ~book.valid -> "resync_required"
      [] book.valid /\ IsReset(book, update) -> "gap_detected"
      [] book.valid /\ ~IsReset(book, update) ->
            CASE update.sequence = book.sequence -> "duplicate"
              [] update.sequence < book.sequence -> "out_of_order"
              [] update.sequence > book.sequence ->
                    IF IsContinuous(book, update) THEN "applied" ELSE "gap_detected"

NeedsSnapshot(outcome) == outcome \in {"gap_detected", "resync_required"}

Apply(book, update) ==
    CASE ResultOf(book, update) = "applied" ->
            [book EXCEPT !.sequence = update.sequence, !.after = FALSE,
                         !.levels = [p \in Prices |->
                            IF \E i \in update.from + 1..update.sequence : Touched[i] = p
                            THEN Truth(update.sequence)[p] ELSE @[p]]]
      [] ResultOf(book, update) = "gap_detected" -> [book EXCEPT !.valid = FALSE]
      [] OTHER -> book

-----------------------------------------------------------------------------
(* LiveDataWorker._apply_snapshot_and_replay *)

\* The buffered update that is due, unless one before it left a gap.
ReplayOne(before, due) ==
    IF before.valid /\ due # {} THEN Apply(before, CHOOSE u \in due : TRUE) ELSE before

\* The buffered updates that are newer than the snapshot, applied in the order
\* of their sequences, of which the buffer has each once.
Replay(n, buffer) ==
    LET after[k \in n..MaxChange] ==
            IF k = n THEN SnapshotBook(n)
            ELSE ReplayOne(after[k - 1], {u \in buffer : u.sequence = k})
    IN  after[MaxChange]

\* The updates a replay leaves in the buffer: those from the gap on.
Unreplayed(n, buffer) ==
    LET book == Replay(n, buffer) IN
    IF book.valid THEN {} ELSE {u \in buffer : u.sequence > book.sequence}
=============================================================================

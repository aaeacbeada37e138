----------------------------- MODULE SubmitOnce -----------------------------
(***************************************************************************)
(* What IdempotentOrderService promises its callers, without saying how:   *)
(* an id is placed again only after every earlier attempt was refused, it  *)
(* is placed only while a durable book tracks it, and the book stops       *)
(* tracking it only when its order can no longer trade.                    *)
(***************************************************************************)
CONSTANT Keys

VARIABLES
    ledger,     \* [Keys -> State]: the last attempt to place each id
    closed,     \* ids whose order has reached a terminal state
    tracked     \* ids in the durable book

vars == <<ledger, closed, tracked>>

State == {"unsent", "flying", "accepted", "refused", "lost"}

\* No order of k trades or can turn up.
AtRest(k) == ledger[k] \in {"unsent", "refused"} \/ k \in closed

TypeOK == /\ ledger \in [Keys -> State]
          /\ closed \subseteq Keys
          /\ tracked \subseteq Keys

Init == /\ ledger = [k \in Keys |-> "unsent"]
        /\ closed = {}
        /\ tracked = {}

Place(k) == /\ ledger[k] \in {"unsent", "refused"}
            /\ k \in tracked
            /\ ledger' = [ledger EXCEPT ![k] = "flying"]
            /\ UNCHANGED <<closed, tracked>>

Settle(k) == /\ ledger[k] = "flying"
             /\ \E s \in {"accepted", "refused", "lost"} :
                    ledger' = [ledger EXCEPT ![k] = s]
             /\ UNCHANGED <<closed, tracked>>

Close(k) == /\ ledger[k] = "accepted"
            /\ closed' = closed \cup {k}
            /\ UNCHANGED <<ledger, tracked>>

\* The book is rewritten as a whole.
Rewrite == /\ tracked' \in SUBSET Keys
           /\ \A k \in tracked \ tracked' : AtRest(k)
           /\ UNCHANGED <<ledger, closed>>

Next == Rewrite \/ \E k \in Keys : Place(k) \/ Settle(k) \/ Close(k)

Spec == Init /\ [][Next]_vars
=============================================================================

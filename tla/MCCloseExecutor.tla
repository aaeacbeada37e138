--------------------------- MODULE MCCloseExecutor ---------------------------
(***************************************************************************)
(* Instances of CloseExecutor for TLC: the client order ids of two         *)
(* attempts, and of one.                                                   *)
(***************************************************************************)
EXTENDS CloseExecutor

CONSTANTS first1, second1, first2, second2

OneKeys == {first1, second1}
OneKeyOf == [l \in {"first", "second"} |-> IF l = "first" THEN <<first1>> ELSE <<second1>>]

TwoKeys == {first1, second1, first2, second2}
TwoKeyOf == [l \in {"first", "second"} |->
                IF l = "first" THEN <<first1, first2>> ELSE <<second1, second2>>]
=============================================================================

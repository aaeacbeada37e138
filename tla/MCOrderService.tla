--------------------------- MODULE MCOrderService ---------------------------
(***************************************************************************)
(* Instances of OrderService for TLC: what the constants stand for is      *)
(* declared there.                                                         *)
(***************************************************************************)
EXTENDS OrderService
=============================================================================

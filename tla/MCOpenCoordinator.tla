-------------------------- MODULE MCOpenCoordinator --------------------------
(***************************************************************************)
(* Instances of OpenCoordinator for TLC.  The legs, the plan and the pool  *)
(* are single values, so the sets OrderService takes are made of them.     *)
(***************************************************************************)
EXTENDS OpenCoordinator
=============================================================================

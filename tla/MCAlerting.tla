----------------------------- MODULE MCAlerting -----------------------------
(***************************************************************************)
(* A small instance of Alerting for TLC.                                   *)
(***************************************************************************)
EXTENDS Alerting

CONSTANT x1

OneDestination == [d \in Deliveries |-> x1]
=============================================================================

------------------------------ MODULE MCReplay ------------------------------
(***************************************************************************)
(* Small instances of Replay for TLC.                                      *)
(***************************************************************************)
EXTENDS Replay

\* Everything, and the events with a dead-lettered delivery.
TwoFilters ==
    [among: {1..MaxEvents}, status: {"any", "dead_lettered"}]
=============================================================================

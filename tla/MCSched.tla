------------------------------- MODULE MCSched -------------------------------
(* Small instances of Sched for TLC. *)
EXTENDS Sched

CONSTANTS h1, h2
==============================================================================

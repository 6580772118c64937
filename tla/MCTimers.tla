------------------------------ MODULE MCTimers ------------------------------
(***************************************************************************)
(* Timers for TLC: a callback timer and two event timers of a process.     *)
(***************************************************************************)
EXTENDS Timers

CONSTANTS c1, e1, e2
=============================================================================

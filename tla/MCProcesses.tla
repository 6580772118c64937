---------------------------- MODULE MCProcesses ----------------------------
(***************************************************************************)
(* Processes for TLC: two processes run, the third is started later.       *)
(***************************************************************************)
EXTENDS Processes

CONSTANTS etimer, tsch, late

MCAutoStart == <<tsch, etimer>>
=============================================================================

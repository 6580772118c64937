----------------------------- MODULE MCTschNet ------------------------------
(***************************************************************************)
(* TschNet for TLC: two neighbours.                                        *)
(***************************************************************************)
EXTENDS TschNet

CONSTANTS n1, n2
=============================================================================

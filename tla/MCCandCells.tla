---------------------------- MODULE MCCandCells ----------------------------
(***************************************************************************)
(* CandCells for TLC: the cells interfered with, on the only channel.      *)
(***************************************************************************)
EXTENDS CandCells

MCInterfered == <<<<3, 0>>, <<1, 0>>, <<2, 0>>>>
=============================================================================

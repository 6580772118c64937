---------------------------- MODULE MCTschQueue ----------------------------
(***************************************************************************)
(* TschQueue for TLC.                                                      *)
(***************************************************************************)
EXTENDS TschQueue

CONSTANTS parent, other, bcast

(* The minimal cell, shared, and a dedicated cell to the parent. *)
MCLinks == {[queues |-> <<bcast>>, shared |-> TRUE], [queues |-> <<parent>>, shared |-> FALSE]}

(* Two attempts where there is no cell of its own, else one. *)
MCMaxTx == [n \in Nbr |-> IF n = other THEN 2 ELSE 1]
=============================================================================

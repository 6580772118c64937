------------------------------- MODULE MCSixp -------------------------------
(***************************************************************************)
(* Sixp for TLC.  Nodes that start transactions are interchangeable.       *)
(***************************************************************************)
EXTENDS Sixp, TLC

Symmetry == Permutations(Initiator)
=============================================================================

----------------------------- MODULE MCPdrStats -----------------------------
(***************************************************************************)
(* PdrStats for TLC.                                                       *)
(***************************************************************************)
EXTENDS PdrStats, TLC

(* Timeslots are only compared for equality. *)
MCSlotSymmetry == Permutations(Slot)
=============================================================================

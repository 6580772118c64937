--------------------------- MODULE MCTschSchedule ---------------------------
(***************************************************************************)
(* TschSchedule for TLC: slotframe lengths and link options.               *)
(***************************************************************************)
EXTENDS TschSchedule, TLC

(* Two slotframes that overlap. *)
MCSize == 0 :> 2 @@ 1 :> 1

MCOptions == {{"TX"}, {"RX"}}
=============================================================================

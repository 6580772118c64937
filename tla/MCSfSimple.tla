----------------------------- MODULE MCSfSimple -----------------------------
(***************************************************************************)
(* SfSimple for TLC: two candidate cells that share a timeslot, the auto   *)
(* cells in timeslots of their own, and the bodies that go with them.      *)
(***************************************************************************)
EXTENDS SfSimple

MCAutoTx == <<4, 3>>
MCAutoRx == <<5, 2>>
MCCell == {<<1, 0>>, <<1, 1>>}
MCBody == [rel : MCCell \cup {MCAutoTx, NoCell}, cells : SUBSET (MCCell \cup {MCAutoTx})]
MCEmptyBody == [rel |-> NoCell, cells |-> {}]
=============================================================================

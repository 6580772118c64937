------------------------------ MODULE LinkSet ------------------------------
(***************************************************************************)
(* What the TSCH schedule promises to its users (sf-simple, the minimal    *)
(* schedule, tsch.c): a set of links with at most one link per slotframe   *)
(* and timeslot, which changes one link at a time.                         *)
(***************************************************************************)
CONSTANT Link       \* links: records with fields sf and ts, among others

VARIABLE links

Init == links = {}

Insert(l) ==
  /\ \A k \in links : <<k.sf, k.ts>> # <<l.sf, l.ts>>
  /\ links' = links \cup {l}

Remove(l) ==
  /\ l \in links
  /\ links' = links \ {l}

Next == \E l \in Link : Insert(l) \/ Remove(l)

Spec == Init /\ [][Next]_links
=============================================================================

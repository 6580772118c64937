------------------------------ MODULE MacQueue ------------------------------
(***************************************************************************)
(* What the TSCH MAC promises to the layers above (and what module Sixp    *)
(* assumes of it): a packet that is accepted for a neighbour is finished   *)
(* in the order of acceptance, and its sent callback is called exactly     *)
(* once, after it is finished.                                             *)
(***************************************************************************)
EXTENDS Naturals, Sequences

CONSTANTS Nbr, Id

VARIABLES
  queue,      \* queue[n]: packets accepted for n, oldest first
  done,       \* packets finished (sent or dropped), callback not yet called
  reported    \* packets whose callback has been called

Init == queue = [n \in Nbr |-> <<>>] /\ done = {} /\ reported = {}

Fresh(id) ==
  /\ id \notin done \cup reported
  /\ \A n \in Nbr : \A i \in 1..Len(queue[n]) : queue[n][i] # id

Accept(n, id) ==
  /\ Fresh(id)
  /\ queue' = [queue EXCEPT ![n] = Append(@, id)]
  /\ UNCHANGED <<done, reported>>

(* A packet that cannot be queued: the callback is called at once. *)
Refuse(id) ==
  /\ Fresh(id)
  /\ reported' = reported \cup {id}
  /\ UNCHANGED <<queue, done>>

Finish(n) ==
  /\ queue[n] # <<>>
  /\ done' = done \cup {Head(queue[n])}
  /\ queue' = [queue EXCEPT ![n] = Tail(@)]
  /\ reported' = reported

Report(id) ==
  /\ id \in done
  /\ done' = done \ {id} /\ reported' = reported \cup {id}
  /\ queue' = queue

Next ==
  \/ \E n \in Nbr : Finish(n) \/ \E id \in Id : Accept(n, id)
  \/ \E id \in Id : Refuse(id) \/ Report(id)

Spec == Init /\ [][Next]_<<queue, done, reported>>
=============================================================================

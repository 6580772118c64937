------------------------------ MODULE TschNet -------------------------------
(***************************************************************************)
(* A node in a TSCH network, other than the coordinator: how it joins,     *)
(* stays in time with its time source by keepalives, changes to another    *)
(* time source, and leaves (tsch.c, tsch_queue_update_time_source(), the   *)
(* synchronisation in tsch-slot-operation.c and the parent switch of       *)
(* tsch-rpl.c).                                                            *)
(*                                                                         *)
(* Slots run in interrupts, between any two steps of the processes.  One   *)
(* tick of the clock is the keepalive timeout; what is due is done within  *)
(* a tick.                                                                 *)
(***************************************************************************)
EXTENDS Integers, Sequences, FiniteSets

CONSTANTS
  Nbr,        \* nodes that send beacons
  None,       \* linkaddr_null, and no time source
  Desync,     \* TSCH_DESYNC_THRESHOLD in ticks
  MaxIn,      \* TSCH_MAX_INCOMING_PACKETS
  MaxKa,      \* keepalives to a neighbour that its queue takes
  MaxSwitch   \* bound: parent switches, tried or done, between two synchronisations

ASSUME NetAssumption ==
  /\ None \notin Nbr /\ IsFiniteSet(Nbr) /\ Nbr # {}
  /\ Desync \in Nat /\ MaxSwitch \in Nat
  /\ MaxIn \in Nat \ {0} /\ MaxKa \in Nat \ {0}

VARIABLES
  net,      \* tsch_is_associated, where tsch_process waits, whether it is polled
  src,      \* the time source, last_eb_nbr_addr, whether sync_count is not 0
  ka,       \* keepalive_status, tsch_current_ka_timeout (0 or not), keepalive_timer
  pend,     \* tsch_pending_events_process: polled, where it is, the saved status
  input,    \* input_array: frames received
  queued,   \* queued[n]: keepalives in the queue to n
  done,     \* dequeued_array: keepalives finished, and whether with MAC_TX_NOACK
  age,      \* ticks since last_sync_asn; parent switches since, see MaxSwitch;
            \* history: setbacks since, up to the threshold
  dead      \* nodes that have stopped for good

vars == <<net, src, ka, pend, input, queued, done, age, dead>>

Off == -1
Status == {"ok", "noack", "error"}
Young == [ticks |-> 0, switches |-> 0, setbacks |-> 0]

Init ==
  /\ net = [assoc |-> FALSE, main |-> "scan", polled |-> FALSE]
  /\ src = [ts |-> None, last |-> None, synced |-> FALSE]
  /\ ka = [status |-> "unchanged", timeout |-> 0, timer |-> Off]
  /\ pend = [polled |-> FALSE, at |-> "idle", saved |-> "unchanged"]
  /\ input = <<>> /\ queued = [n \in Nbr |-> 0] /\ done = <<>>
  /\ age = Young /\ dead = {}

-----------------------------------------------------------------------------
(* tsch_schedule_keepalive(); process_poll() comes with it (Polled). *)
Scheduled(k, immediate) ==
  [k EXCEPT !.status = IF immediate \/ @ = "now" THEN "now" ELSE "schedule"]
Polled == [pend EXCEPT !.polled = TRUE]

(* tsch_set_ka_timeout() *)
WithTimeout(k, t) == Scheduled([k EXCEPT !.timeout = t], FALSE)

(* tsch_queue_update_time_source(): the keepalives of the new source. *)
KaForSource_None(k, old, new) == k
KaForSource(k, old, new) ==
  IF new = old THEN k ELSE WithTimeout(k, IF new = None THEN 0 ELSE 1)

(* tsch_disassociate() *)
Disassociated_NoPoll(w) == IF w.assoc THEN [w EXCEPT !.assoc = FALSE] ELSE w
Disassociated(w) == IF w.assoc THEN [w EXCEPT !.assoc = FALSE, !.polled = TRUE] ELSE w

(* What may cost a keepalive timeout: an unacknowledged or refused         *)
(* keepalive, another time source.                                         *)
SetBack(a) == [a EXCEPT !.setbacks = IF @ < Desync THEN @ + 1 ELSE @]

(* keepalive_send(), with the status k.  send_packet() may refuse the      *)
(* packet, and then calls keepalive_packet_sent() at once.                 *)
KeepaliveSend(k) ==
  LET stopped == [k EXCEPT !.timer = Off]
  IN  IF ~net.assoc \/ src.ts = None
      THEN ka' = stopped /\ UNCHANGED <<queued, age>>
      ELSE \/ /\ queued[src.ts] < MaxKa
              /\ queued' = [queued EXCEPT ![src.ts] = @ + 1]
              /\ ka' = stopped /\ age' = age
           \/ /\ ka' = Scheduled(stopped, FALSE)
              /\ queued' = queued /\ age' = SetBack(age)

-----------------------------------------------------------------------------
(***************************************************************************)
(* Slots.                                                                  *)
(***************************************************************************)
Synced == age' = Young

(* There must be room before the radio is turned on. *)
InputRoom == Len(input) < MaxIn

(* A frame from n: data, a beacon, or a beacon that shows another ASN or   *)
(* too high a join priority.                                               *)
SlotRx(n, f) ==
  /\ net.assoc /\ n \notin dead /\ InputRoom
  /\ input' = Append(input, [n |-> n, kind |-> f])
  /\ IF n = src.ts
     THEN Synced /\ src' = [src EXCEPT !.synced = TRUE] /\ ka' = Scheduled(ka, FALSE)
     ELSE UNCHANGED <<age, src, ka>>
  /\ pend' = Polled
  /\ UNCHANGED <<net, queued, done, dead>>

(* A keepalive to n, with all its transmissions: acknowledged, not         *)
(* acknowledged although n may be there, or not sent (the channel was busy *)
(* or the radio failed).                                                   *)
SlotTx(n, status) ==
  /\ net.assoc /\ queued[n] > 0
  /\ status = "ok" => n \notin dead
  /\ queued' = [queued EXCEPT ![n] = @ - 1]
  /\ done' = Append(done, [n |-> n, noack |-> status = "noack"])
  /\ IF n # src.ts THEN UNCHANGED <<age, ka>>
     ELSE IF status = "ok" THEN Synced /\ ka' = Scheduled(ka, FALSE)
     ELSE age' = SetBack(age) /\ ka' = ka
  /\ pend' = Polled
  /\ UNCHANGED <<net, src, input, dead>>

(* The end of a slot: too long without synchronisation. *)
LostSync_WhenSynced == age.ticks > Desync /\ ~src.synced
LostSync == age.ticks > Desync

SlotDesync ==
  /\ net.assoc /\ LostSync
  /\ net' = Disassociated(net)
  /\ UNCHANGED <<src, ka, pend, input, queued, done, age, dead>>

-----------------------------------------------------------------------------
(***************************************************************************)
(* tsch_pending_events_process                                             *)
(***************************************************************************)
PendStart ==
  /\ pend.polled /\ pend.at = "idle" /\ net.main # "reset"
  /\ pend' = [pend EXCEPT !.polled = FALSE, !.at = "input"]
  /\ UNCHANGED <<net, src, ka, input, queued, done, age, dead>>

(* A frame is handled, a beacon by eb_input(), then removed from the ring. *)
EbInput ==
  /\ pend.at = "input" /\ input # <<>>
  /\ LET eb == Head(input) IN
       /\ src' = IF eb.kind = "data" \/ eb.n = src.ts THEN src ELSE [src EXCEPT !.last = eb.n]
       /\ net' = IF eb.kind = "bad" /\ eb.n = src.ts THEN Disassociated(net) ELSE net
  /\ input' = Tail(input)
  /\ UNCHANGED <<ka, pend, queued, done, age, dead>>

EbInputEnd ==
  /\ pend.at = "input" /\ input = <<>>
  /\ pend' = [pend EXCEPT !.at = "sent"]
  /\ UNCHANGED <<net, src, ka, input, queued, done, age, dead>>

(* resynchronize() after no ACK came from n: whether the time source has   *)
(* been changed already, there is no other node, or there is one, for      *)
(* which there may be no room in the table of neighbours (a case bounded   *)
(* like parent switches).                                                  *)
Changed(n) == src.ts \notin {None, n}

Resynchronize_NotScheduled(n) ==
  IF Changed(n) \/ src.last = None
  THEN /\ ka' = ka
       /\ net' = IF ~Changed(n) /\ ~src.synced THEN Disassociated(net) ELSE net
       /\ UNCHANGED <<src, age>>
  ELSE /\ \E new \in {src.ts, src.last} :
            /\ new = src.last \/ age.switches < MaxSwitch
            /\ src' = [src EXCEPT !.ts = new, !.last = None]
            /\ ka' = Scheduled(KaForSource(ka, src.ts, new), TRUE)
            /\ age' = IF new = src.last THEN age ELSE [age EXCEPT !.switches = @ + 1]
       /\ net' = net

Resynchronize(n) ==
  IF Changed(n) \/ src.last = None
  THEN /\ ka' = Scheduled(ka, FALSE)
       /\ net' = IF ~Changed(n) /\ ~src.synced THEN Disassociated(net) ELSE net
       /\ UNCHANGED <<src, age>>
  ELSE /\ \E new \in {src.ts, src.last} :
            /\ new = src.last \/ age.switches < MaxSwitch
            /\ src' = [src EXCEPT !.ts = new, !.last = None]
            /\ ka' = Scheduled(KaForSource(ka, src.ts, new), TRUE)
            /\ age' = IF new = src.last THEN age ELSE [age EXCEPT !.switches = @ + 1]
       /\ net' = net

(* keepalive_packet_sent() *)
KeepalivePacketSent ==
  /\ pend.at = "sent" /\ done # <<>>
  /\ IF Head(done).noack THEN Resynchronize(Head(done).n)
     ELSE ka' = Scheduled(ka, FALSE) /\ UNCHANGED <<net, src, age>>
  /\ pend' = Polled
  /\ done' = Tail(done)
  /\ UNCHANGED <<input, queued, dead>>

(* tsch_keepalive_process_pending() first saves the status.  A slot may    *)
(* ask for a keepalive before the status is cleared.                       *)
SaveStatus ==
  /\ pend.at = "sent" /\ done = <<>>
  /\ pend' = [pend EXCEPT !.at = IF ka.status = "unchanged" THEN "idle" ELSE "saved",
                          !.saved = ka.status]
  /\ UNCHANGED <<net, src, ka, input, queued, done, age, dead>>

ProcessPending ==
  LET cleared == [ka EXCEPT !.status = "unchanged"]
  IN  /\ pend.at = "saved"
      /\ IF net.assoc /\ pend.saved = "now" THEN KeepaliveSend(cleared)
         ELSE /\ ka' = [cleared EXCEPT !.timer = IF net.assoc /\ ka.timeout > 0 THEN 1 ELSE Off]
              /\ UNCHANGED <<queued, age>>
      /\ pend' = [polled |-> pend.polled \/ ka'.status # "unchanged",
                  at |-> "idle", saved |-> "unchanged"]
      /\ UNCHANGED <<net, src, input, done, dead>>

(* The keepalive timer. *)
Fire ==
  /\ ka.timer = 0 /\ pend.at = "idle" /\ net.main # "reset"
  /\ KeepaliveSend(ka)
  /\ pend' = IF ka'.status # ka.status THEN Polled ELSE pend
  /\ UNCHANGED <<net, src, input, done, dead>>

-----------------------------------------------------------------------------
(***************************************************************************)
(* tsch_process                                                            *)
(***************************************************************************)
(* tsch_scan() hears a beacon of n, and tsch_associate() joins, unless     *)
(* there is no room for n; slots start.                                    *)
Associate(n) ==
  /\ net.main = "scan" /\ pend.at = "idle" /\ n \notin dead
  /\ net' = [assoc |-> TRUE, main |-> "run", polled |-> FALSE]
  /\ src' = [src EXCEPT !.ts = n, !.synced = FALSE]
  /\ ka' = Scheduled(KaForSource(ka, src.ts, n), FALSE) /\ pend' = Polled
  /\ age' = Young
  /\ UNCHANGED <<input, queued, done, dead>>

(* The process is polled; tsch_reset() lets the pending events be handled, *)
(* whether their process is polled or not,                                 *)
Wake ==
  /\ net.polled /\ net.main = "run" /\ pend.at = "idle"
  /\ net' = [net EXCEPT !.polled = FALSE, !.main = IF net.assoc THEN "run" ELSE "reset"]
  /\ pend' = [pend EXCEPT !.at = IF net.assoc THEN "idle" ELSE "input"]
  /\ UNCHANGED <<src, ka, input, queued, done, age, dead>>

(* flushes the queues (keepalive_packet_sent() is called with MAC_TX_ERR)  *)
(* and clears the rest.  The keepalive timer goes on.                      *)
Reset ==
  /\ net.main = "reset" /\ pend.at = "idle"
  /\ net' = [net EXCEPT !.main = "scan"]
  /\ src' = [src EXCEPT !.ts = None, !.last = None]
  /\ ka' = [KaForSource(ka, src.ts, None) EXCEPT !.status = "unchanged"]
  /\ pend' = IF src.ts # None \/ queued # [n \in Nbr |-> 0] THEN Polled ELSE pend
  /\ queued' = [n \in Nbr |-> 0]
  /\ UNCHANGED <<input, done, age, dead>>

-----------------------------------------------------------------------------
(***************************************************************************)
(* The routing layer, the clock and the other nodes.                       *)
(***************************************************************************)
(* tsch_rpl_callback_parent_switch(), from a process of its own or while   *)
(* frames and reports are handed to the routing layer.                     *)
ParentSwitch(n) ==
  /\ net.assoc /\ pend.at # "saved"
  /\ n # src.ts /\ age.switches < MaxSwitch
  /\ src' = [src EXCEPT !.ts = n]
  /\ ka' = KaForSource(ka, src.ts, n) /\ pend' = Polled
  /\ age' = LET a == [age EXCEPT !.switches = @ + 1]
            IN  IF n = None THEN [a EXCEPT !.setbacks = Desync] ELSE SetBack(a)
  /\ UNCHANGED <<net, input, queued, done, dead>>

(* What keepalives need is done: requests are seen to, the timer has been  *)
(* handled, and so have the keepalives sent.                               *)
Quiet ==
  /\ ~net.polled /\ net.main # "reset" /\ pend.at # "saved"
  /\ ka.status = "unchanged" /\ ka.timer # 0
  /\ done = <<>> /\ (net.assoc => queued = [n \in Nbr |-> 0] /\ ~LostSync)

Tick ==
  /\ Quiet
  /\ age' = [age EXCEPT !.ticks = IF net.assoc /\ @ <= Desync THEN @ + 1 ELSE @]
  /\ ka' = [ka EXCEPT !.timer = IF @ > 0 THEN @ - 1 ELSE @]
  /\ UNCHANGED <<net, src, pend, input, queued, done, dead>>

(* A node stops; one of them remains. *)
Die(n) ==
  /\ n \notin dead /\ dead \cup {n} # Nbr
  /\ dead' = dead \cup {n}
  /\ UNCHANGED <<net, src, ka, pend, input, queued, done, age>>

Step ==
  \/ PendStart \/ EbInput \/ EbInputEnd \/ KeepalivePacketSent
  \/ SaveStatus \/ ProcessPending \/ Fire \/ Wake \/ Reset

Slot ==
  \/ SlotDesync
  \/ \E n \in Nbr, status \in Status : SlotTx(n, status)

Next ==
  \/ Step \/ Slot \/ Tick
  \/ \E n \in Nbr :
       \/ \E f \in {"data", "eb", "bad"} : SlotRx(n, f)
       \/ Associate(n) \/ Die(n)
  \/ \E n \in Nbr \cup {None} : ParentSwitch(n)

Spec == Init /\ [][Next]_vars

(* Processes are scheduled, and the timer and the main process get their   *)
(* turn however often the pending events are polled (process_run()); slots *)
(* come; time passes, and the loop over the frames received ends, however  *)
(* many arrive; and a node that scans hears a beacon sometime.             *)
FairSpec ==
  /\ Spec /\ WF_vars(Step) /\ SF_vars(Fire \/ Wake) /\ SF_vars(EbInputEnd)
  /\ WF_vars(Slot) /\ SF_vars(Tick) /\ SF_vars(\E n \in Nbr : Associate(n))

-----------------------------------------------------------------------------
Age == [ticks : 0..Desync + 1, switches : 0..MaxSwitch, setbacks : 0..Desync]

TypeOK ==
  /\ net \in [assoc : BOOLEAN, main : {"scan", "run", "reset"}, polled : BOOLEAN]
  /\ src \in [ts : Nbr \cup {None}, last : Nbr \cup {None}, synced : BOOLEAN]
  /\ ka \in [status : {"unchanged", "schedule", "now"}, timeout : {0, 1}, timer : -1..1]
  /\ pend \in [polled : BOOLEAN, at : {"idle", "input", "sent", "saved"},
               saved : {"unchanged", "schedule", "now"}]
  /\ input \in Seq([n : Nbr, kind : {"data", "eb", "bad"}]) /\ Len(input) <= MaxIn
  /\ queued \in [Nbr -> 0..MaxKa] /\ done \in Seq([n : Nbr, noack : BOOLEAN])
  /\ age \in Age
  /\ dead \subseteq Nbr

(* A node that has a time source has a keepalive coming: one is asked for  *)
(* and will be seen to, the timer runs, or one is on its way and its       *)
(* callback will ask for the next.  Nothing else would keep it in time     *)
(* when the time source sends nothing by itself.                           *)
Requested == ka.status # "unchanged" /\ (pend.polled \/ pend.at \in {"input", "sent"})
KeepaliveComing ==
  net.assoc /\ src.ts # None =>
    \/ Requested \/ pend.at = "saved" \/ ka.timer # Off
    \/ done # <<>> \/ \E n \in Nbr : queued[n] > 0

(* A node does not lose synchronisation, although its time source may      *)
(* never send anything but acknowledgements, before it has had a setback   *)
(* in each keepalive timeout of the threshold: one lost keepalive, one     *)
(* that was refused and one change of the source cost one timeout each.    *)
StaysInSync == net.assoc /\ age.setbacks < Desync => ~LostSync

(* A node does not stay with time sources that have stopped: it changes to *)
(* one that is there or leaves.                                            *)
Recovers == (net.assoc /\ src.ts \in dead) ~> (~net.assoc \/ src.ts \notin dead)

(* A node that has left joins again, as long as some node sends beacons.   *)
Rejoins == ~net.assoc ~> net.assoc
=============================================================================

----------------------------- MODULE TschQueue -----------------------------
(***************************************************************************)
(* The transmission queues of TSCH (tsch-queue.c), the ring of finished    *)
(* packets and the transmission slots that work on them (tsch_tx_slot() of *)
(* tsch-slot-operation.c, tsch_tx_process_pending(), send_packet() and     *)
(* tsch_reset() of tsch.c).                                                *)
(*                                                                         *)
(* Processes are cooperative: "proc" is the stack of calls in progress.    *)
(* Slots run in interrupts, which come between any two steps of a call.    *)
(***************************************************************************)
EXTENDS Integers, Sequences, FiniteSets

CONSTANTS
  MaxPackets, \* QUEUEBUF_NUM, the length of packet_memb
  Nbr,        \* neighbours, the virtual ones included
  Virtual,    \* those for broadcast and for beacons
  Bcast,      \* n_broadcast
  Links,      \* transmission links: the queues looked at, and whether shared
  NoLink,     \* NULL
  Ring,       \* TSCH_QUEUE_NUM_PER_NEIGHBOR
  DqRing,     \* TSCH_DEQUEUED_ARRAY_SIZE
  MaxTx,      \* MaxTx[n]: max_transmissions of packets to n
  MinBE, MaxBE,
  MaxSend     \* bound: packets sent by the layers above

ASSUME QueueAssumption ==
  /\ MaxPackets \in Nat /\ NoLink \notin Links
  /\ Bcast \in Virtual /\ Virtual \subseteq Nbr
  /\ Ring \in Nat \ {0, 1} /\ DqRing \in Nat \ {0, 1}
  /\ MaxTx \in [Nbr -> 1..255]
  /\ MinBE \in Nat /\ MaxBE \in Nat /\ MinBE <= MaxBE /\ MaxSend \in Nat
  /\ \A l \in Links : l.queues \in Seq(Nbr) /\ l.queues # <<>> /\ l.shared \in BOOLEAN

VARIABLES
  pkt,      \* contents of the blocks: which packet, and its transmissions
  used,     \* the blocks allocated
  ring,     \* ring[n]: tx_array and tx_ringbuf of neighbour n
  dq,       \* dequeued_array and dequeued_ringbuf
  known,    \* the neighbours in the table
  backoff,  \* backoff_exponent and backoff_window
  locked,   \* tsch_locked
  slot,     \* the slot in progress
  net,      \* tsch_is_associated, and whether tsch_reset() is still to come
  proc,     \* calls in progress, innermost first
  sent,     \* packets handed to send_packet()
  count     \* count[i]: how often the callback of packet i was called

vars == <<pkt, used, ring, dq, known, backoff, locked, slot, net, proc, sent, count>>

(* The pool of packets, and NULL. *)
Block == 1..MaxPackets
NoBlock == 0

Id == 1..MaxSend
Empty(size) == [arr |-> [i \in 0..size - 1 |-> NoBlock], put |-> 0, get |-> 0]
NoBackoff == [exp |-> MinBE, win |-> 0]
NoPacket == [id |-> 0, tx |-> 0, to |-> Bcast]
Idle == [phase |-> "idle", b |-> NoBlock, n |-> Bcast, l |-> NoLink, i |-> 0]

Init ==
  /\ pkt = [b \in Block |-> NoPacket] /\ used = {}
  /\ ring = [n \in Nbr |-> Empty(Ring)] /\ dq = Empty(DqRing)
  /\ known = Virtual /\ backoff = [n \in Nbr |-> NoBackoff]
  /\ locked = FALSE /\ slot = Idle /\ net = "out" /\ proc = <<>>
  /\ sent = 0 /\ count = [i \in Id |-> 0]

(***************************************************************************)
(* ringbufindex.c: one place stays free.                                   *)
(***************************************************************************)
Elements(r, size) == (r.put - r.get) % size
Full(r, size) == Elements(r, size) = size - 1
IsEmpty(r, size) == Elements(r, size) = 0
Get(r, size) == [r EXCEPT !.get = (r.get + 1) % size]
First_Newest(r) == r.arr[(r.put - 1) % Cardinality(DOMAIN r.arr)]
First(r) == r.arr[r.get]
Contents(r, size) == [i \in 1..Elements(r, size) |-> r.arr[(r.get + i - 1) % size]]

-----------------------------------------------------------------------------
(***************************************************************************)
(* Slots (interrupt).                                                      *)
(***************************************************************************)
LinkAddr(l) == l.queues[Len(l.queues)]
HasTxLink(n) == \E l \in Links : LinkAddr(l) = n

(* tsch_queue_get_packet_for_nbr(): may the first packet to n go out on l? *)
Ready(n, l) ==
  /\ n \in known /\ ~IsEmpty(ring[n], Ring)
  /\ l.shared => backoff[n].win = 0

(* get_packet_and_neighbor_for_link(): the queues in which it may find a   *)
(* packet.  A broadcast link also serves the neighbours without a link, in *)
(* the order of the neighbour table.                                       *)
Candidates(l) ==
  LET own == {i \in 1..Len(l.queues) : Ready(l.queues[i], l)}
      any == {n \in Nbr \ Virtual : ~HasTxLink(n) /\ Ready(n, l)}
  IN  IF own # {} THEN {l.queues[CHOOSE i \in own : \A j \in own : i <= j]}
      ELSE IF LinkAddr(l) = Bcast THEN any ELSE {}

(* update_link_backoff() at the end of a slot. *)
Decremented_OwnOnly(bo, l) ==
  [n \in Nbr |-> IF /\ l # NoLink /\ l.shared /\ bo[n].win # 0 /\ n \in known
                    /\ HasTxLink(n) /\ LinkAddr(l) = n
                 THEN [bo[n] EXCEPT !.win = @ - 1] ELSE bo[n]]

Decremented(bo, l) ==
  [n \in Nbr |-> IF /\ l # NoLink /\ l.shared /\ bo[n].win # 0 /\ n \in known
                    /\ LinkAddr(l) = (IF HasTxLink(n) THEN n ELSE Bcast)
                 THEN [bo[n] EXCEPT !.win = @ - 1] ELSE bo[n]]

WantsLock == proc # <<>> /\ Head(proc).at = "lock"
Skips_NoRoom(l) == WantsLock \/ Candidates(l) = {}
Skips(l) == WantsLock \/ Candidates(l) = {} \/ Full(dq, DqRing)

(* A slot in which nothing is sent: the lock is requested, there is no     *)
(* packet, or no room for a finished packet.                               *)
SlotPass(l) ==
  /\ net = "joined" /\ slot.phase = "idle" /\ ~locked /\ Skips(l)
  /\ backoff' = Decremented(backoff, l)
  /\ UNCHANGED <<pkt, used, ring, dq, known, locked, slot, net, proc, sent, count>>

SlotBegin(l) ==
  /\ net = "joined" /\ slot.phase = "idle" /\ ~locked /\ ~Skips(l)
  /\ \E n \in Candidates(l) :
       slot' = [phase |-> "tx", b |-> First(ring[n]), n |-> n, l |-> l, i |-> dq.put]
  /\ UNCHANGED <<pkt, used, ring, dq, known, backoff, locked, net, proc, sent, count>>

(* tsch_queue_backoff_inc(): the window is drawn from 0..2^exp - 1, and    *)
(* one is added because the end of this slot decrements it.                *)
Increased(bo) ==
  LET e == IF bo.exp + 1 <= MaxBE THEN bo.exp + 1 ELSE MaxBE
  IN  {[exp |-> e, win |-> w + 1] : w \in 0..2^e - 1}

(* tsch_queue_packet_sent(): whether the packet leaves the queue, and the  *)
(* backoff, which is for unicast.                                          *)
Leaves(ok, p) == ok \/ p.tx >= MaxTx[p.to]

BackoffAfter(ok, n, shared, last) ==
  IF n \in Virtual THEN {backoff[n]}
  ELSE IF ok THEN {IF shared \/ last THEN NoBackoff ELSE backoff[n]}
  ELSE IF shared THEN Increased(backoff[n]) ELSE {backoff[n]}

(* The end of tsch_tx_slot(), for the outcome ok.  tsch_reset() may have   *)
(* set current_link to NULL: then nobody knows what its options say.       *)
SlotEnd(ok) ==
  LET p == [pkt[slot.b] EXCEPT !.tx = (@ + 1) % 256]
      leaves == Leaves(ok, p)
      r == IF leaves /\ ~IsEmpty(ring[slot.n], Ring) THEN Get(ring[slot.n], Ring) ELSE ring[slot.n]
  IN  /\ slot.phase = "tx"
      /\ pkt' = [pkt EXCEPT ![slot.b] = p]
      /\ ring' = [ring EXCEPT ![slot.n] = r]
      /\ dq' = IF leaves
               THEN [dq EXCEPT !.arr[slot.i] = slot.b,
                               !.put = IF Full(dq, DqRing) THEN @ ELSE (@ + 1) % DqRing]
               ELSE dq
      /\ \E shared \in IF slot.l = NoLink THEN BOOLEAN ELSE {slot.l.shared} :
           \E bo \in BackoffAfter(ok, slot.n, shared, IsEmpty(r, Ring)) :
             backoff' = Decremented([backoff EXCEPT ![slot.n] = bo], slot.l)
      /\ slot' = Idle
      /\ UNCHANGED <<used, known, locked, net, proc, sent, count>>

(* Slot operation finds that the node has lost synchronisation. *)
Desync ==
  /\ net = "joined" /\ slot.phase = "idle"
  /\ net' = "leaving"
  /\ UNCHANGED <<pkt, used, ring, dq, known, backoff, locked, slot, proc, sent, count>>

-----------------------------------------------------------------------------
(***************************************************************************)
(* Processes.  A frame of the stack: the call, its neighbour, its step and *)
(* its local variables (a packet, an index, the neighbours still to visit).*)
(***************************************************************************)
Frame(do, n, at) == [do |-> do, n |-> n, at |-> at, b |-> NoBlock, g |-> 0, rest |-> {}]
Flushing(n) == Frame("flush", n, "test")
Pending == Frame("pending", Bcast, "peek")
Unused == Frame("unused", Bcast, "next")

Top == Head(proc)
At(do, at) == proc # <<>> /\ Top.do = do /\ Top.at = at
Return == proc' = Tail(proc)
Goto(at) == proc' = <<[Top EXCEPT !.at = at]>> \o Tail(proc)

Report(b) == count' = [count EXCEPT ![pkt[b].id] = @ + 1]

(* tsch_queue_add_nbr() takes the lock for a new neighbour; there may be   *)
(* no room for it.                                                         *)
Sending(n) == Frame("send", n, IF n \in known THEN "check" ELSE "lock")

(* send_packet(), from a process or from a sent callback. *)
CanSend == sent < MaxSend
Call(frame) == proc' = <<frame>> \o proc

Send(n) ==
  /\ proc = <<>> /\ CanSend
  /\ sent' = sent + 1
  /\ IF net = "joined" THEN Call(Sending(n)) /\ count' = count
     ELSE proc' = proc /\ count' = [count EXCEPT ![sent'] = @ + 1]
  /\ UNCHANGED <<pkt, used, ring, dq, known, backoff, locked, slot, net>>

TakeLock ==
  /\ WantsLock /\ slot.phase = "idle"
  /\ locked' = TRUE
  /\ Goto("locked")
  /\ UNCHANGED <<pkt, used, ring, dq, known, backoff, slot, net, sent, count>>

AddNbr ==
  /\ At("send", "locked")
  /\ locked' = FALSE
  /\ \/ /\ known' = known \cup {Top.n}
        /\ Goto("check") /\ count' = count
     \/ /\ Return /\ count' = [count EXCEPT ![sent] = @ + 1]
        /\ known' = known
  /\ UNCHANGED <<pkt, used, ring, dq, backoff, slot, net, sent>>

(* memb_alloc() *)
FirstFree == CHOOSE b \in Block \ used : \A c \in Block \ used : b <= c

(* tsch_queue_add_packet() up to the store into the array; the callback is *)
(* called at once when there is no room.                                   *)
SendCheck ==
  /\ At("send", "check")
  /\ IF Full(ring[Top.n], Ring) \/ used = Block
     THEN /\ count' = [count EXCEPT ![sent] = @ + 1]
          /\ Return
          /\ UNCHANGED <<pkt, used, ring>>
     ELSE LET b == FirstFree IN
            /\ used' = used \cup {b}
            /\ pkt' = [pkt EXCEPT ![b] = [id |-> sent, tx |-> 0, to |-> Top.n]]
            /\ ring' = [ring EXCEPT ![Top.n].arr[ring[Top.n].put] = b]
            /\ proc' = <<[Top EXCEPT !.at = "put", !.b = b]>> \o Tail(proc)
            /\ count' = count
  /\ UNCHANGED <<dq, known, backoff, locked, slot, net, sent>>

SendPut ==
  /\ At("send", "put")
  /\ ring' = [ring EXCEPT ![Top.n].put = (@ + 1) % Ring]
  /\ Return
  /\ UNCHANGED <<pkt, used, dq, known, backoff, locked, slot, net, sent, count>>

(* tsch_queue_flush_nbr_queue() *)
FlushTest ==
  /\ At("flush", "test")
  /\ IF IsEmpty(ring[Top.n], Ring) THEN Return
     ELSE proc' = <<[Top EXCEPT !.at = "get", !.g = ring[Top.n].get]>> \o Tail(proc)
  /\ UNCHANGED <<pkt, used, ring, dq, known, backoff, locked, slot, net, sent, count>>

FlushGet ==
  /\ At("flush", "get")
  /\ ring' = [ring EXCEPT ![Top.n].get = (Top.g + 1) % Ring]
  /\ proc' = <<[Top EXCEPT !.at = "call", !.b = ring[Top.n].arr[Top.g]]>> \o Tail(proc)
  /\ UNCHANGED <<pkt, used, dq, known, backoff, locked, slot, net, sent, count>>

(* The sent callback, which may send the next packet. *)
Callback ==
  /\ At("flush", "call") \/ At("pending", "call")
  /\ Report(Top.b)
  /\ LET back == [Top EXCEPT !.at = "free"]
     IN  \/ proc' = <<back>> \o Tail(proc) /\ sent' = sent
         \/ /\ CanSend /\ net = "joined"
            /\ sent' = sent + 1
            /\ \E n \in Nbr \ Virtual : proc' = <<Sending(n), back>> \o Tail(proc)
  /\ UNCHANGED <<pkt, used, ring, dq, known, backoff, locked, slot, net>>

FreePacket_Never ==
  /\ At("flush", "free") \/ At("pending", "free")
  /\ used' = used
  /\ Goto(IF Top.do = "flush" THEN "test" ELSE "get")
  /\ UNCHANGED <<pkt, ring, dq, known, backoff, locked, slot, net, sent, count>>

(* memb_free(): what the block holds does not matter any more. *)
FreePacket ==
  /\ At("flush", "free") \/ At("pending", "free")
  /\ used' = used \ {Top.b}
  /\ pkt' = [pkt EXCEPT ![Top.b] = NoPacket]
  /\ Goto(IF Top.do = "flush" THEN "test" ELSE "get")
  /\ UNCHANGED <<ring, dq, known, backoff, locked, slot, net, sent, count>>

(* tsch_tx_process_pending(), polled at the end of every transmission.     *)
(* "g" is num_packets_freed, as far as it matters.                         *)
Poll ==
  /\ proc = <<>> /\ ~IsEmpty(dq, DqRing)
  /\ Call(Pending)
  /\ UNCHANGED <<pkt, used, ring, dq, known, backoff, locked, slot, net, sent, count>>

PendingPeek ==
  /\ At("pending", "peek")
  /\ proc' = IF ~IsEmpty(dq, DqRing)
             THEN <<[Top EXCEPT !.at = "call", !.b = First(dq)]>> \o Tail(proc)
             ELSE IF Top.g = 1 THEN <<[Unused EXCEPT !.rest = known]>> \o Tail(proc)
             ELSE Tail(proc)
  /\ UNCHANGED <<pkt, used, ring, dq, known, backoff, locked, slot, net, sent, count>>

PendingGet_Never ==
  /\ At("pending", "get")
  /\ dq' = dq
  /\ proc' = <<[Pending EXCEPT !.g = 1]>> \o Tail(proc)
  /\ UNCHANGED <<pkt, used, ring, known, backoff, locked, slot, net, sent, count>>

PendingGet ==
  /\ At("pending", "get")
  /\ dq' = Get(dq, DqRing)
  /\ proc' = <<[Pending EXCEPT !.g = 1]>> \o Tail(proc)
  /\ UNCHANGED <<pkt, used, ring, known, backoff, locked, slot, net, sent, count>>

(* tsch_queue_free_unused_neighbors(): the neighbours in turn. The code    *)
(* keeps the time source in addition; here any neighbour may be removed.   *)
IsUnused(n) == n \notin Virtual /\ ~HasTxLink(n) /\ IsEmpty(ring[n], Ring)

UnusedNext ==
  /\ At("unused", "next")
  /\ \/ Top.rest = {} /\ Return
     \/ \E n \in Top.rest :
          proc' = <<[Top EXCEPT !.n = n, !.rest = @ \ {n},
                                 !.at = IF IsUnused(n) THEN "lock" ELSE "next"]>> \o Tail(proc)
  /\ UNCHANGED <<pkt, used, ring, dq, known, backoff, locked, slot, net, sent, count>>

UnusedUnlock ==
  /\ At("unused", "locked")
  /\ locked' = FALSE
  /\ Goto("remove")
  /\ UNCHANGED <<pkt, used, ring, dq, known, backoff, slot, net, sent, count>>

(* tsch_queue_remove_nbr() flushes once more, and frees the neighbour:     *)
(* what is left in it no longer matters, one that is added is cleared.     *)
UnusedRemove ==
  /\ At("unused", "remove")
  /\ IF IsEmpty(ring[Top.n], Ring)
     THEN /\ known' = known \ {Top.n}
          /\ ring' = [ring EXCEPT ![Top.n] = Empty(Ring)]
          /\ backoff' = [backoff EXCEPT ![Top.n] = NoBackoff]
          /\ Goto("next")
     ELSE proc' = <<Flushing(Top.n)>> \o proc /\ UNCHANGED <<known, ring, backoff>>
  /\ UNCHANGED <<pkt, used, dq, locked, slot, net, sent, count>>

(* tsch_reset(): pending callbacks, then the queues of all neighbours,     *)
(* then the unused neighbours.                                             *)
Reset ==
  /\ proc = <<>> /\ net = "leaving"
  /\ net' = "resetting"
  /\ proc' = <<Pending, [Frame("reset", Bcast, "next") EXCEPT !.rest = known]>>
  /\ UNCHANGED <<pkt, used, ring, dq, known, backoff, locked, slot, sent, count>>

ResetNext ==
  /\ At("reset", "next")
  /\ \/ /\ \E n \in Top.rest \cap known :
             proc' = <<Flushing(n), [Top EXCEPT !.at = "backoff", !.n = n, !.rest = @ \ {n}]>>
        /\ UNCHANGED <<net, slot>>
     \/ /\ Top.rest \cap known = {}
        /\ proc' = <<[Unused EXCEPT !.rest = known]>>
        /\ net' = "out"
        /\ slot' = [slot EXCEPT !.l = NoLink]
  /\ UNCHANGED <<pkt, used, ring, dq, known, backoff, locked, sent, count>>

ResetBackoff ==
  /\ At("reset", "backoff")
  /\ backoff' = [backoff EXCEPT ![Top.n] = NoBackoff]
  /\ Goto("next")
  /\ UNCHANGED <<pkt, used, ring, dq, known, locked, slot, net, sent, count>>

(* tsch_associate() or tsch_start_coordinator(). *)
Associate ==
  /\ proc = <<>> /\ net = "out"
  /\ net' = "joined"
  /\ UNCHANGED <<pkt, used, ring, dq, known, backoff, locked, slot, proc, sent, count>>

(* tsch_queue_free_packets_to(), called by child.c and Orchestra. *)
FreePacketsTo(n) ==
  /\ proc = <<>> /\ n \in known \ Virtual
  /\ Call(Flushing(n))
  /\ UNCHANGED <<pkt, used, ring, dq, known, backoff, locked, slot, net, sent, count>>

(* tsch_disassociate() from a process: a beacon of the time source with    *)
(* another ASN or a high join priority, or a keepalive without an ACK.     *)
Disassociate ==
  /\ proc = <<>> /\ net = "joined"
  /\ net' = "leaving"
  /\ UNCHANGED <<pkt, used, ring, dq, known, backoff, locked, slot, proc, sent, count>>

Step ==
  \/ TakeLock \/ AddNbr \/ SendCheck \/ SendPut
  \/ FlushTest \/ FlushGet \/ Callback \/ FreePacket
  \/ Poll \/ PendingPeek \/ PendingGet
  \/ UnusedNext \/ UnusedUnlock \/ UnusedRemove
  \/ Reset \/ ResetNext \/ ResetBackoff

Slot(l) == SlotPass(l) \/ SlotBegin(l)
SlotEnds == \E ok \in BOOLEAN : SlotEnd(ok)

Next ==
  \/ \E l \in Links : SlotPass(l) \/ SlotBegin(l)
  \/ SlotEnds \/ Desync
  \/ Step \/ Associate \/ Disassociate
  \/ \E n \in Nbr : Send(n) \/ FreePacketsTo(n)

(* Left out of Spec, although the code allows it:                          *)
(* tsch_queue_free_packets_to() works on a queue, or a process leaves the  *)
(* network, while a slot sends. The packet that is sent is freed then, and *)
(* the end of the slot reports it a second time and removes another one:   *)
(* the properties below do not hold after that.                            *)
Disturbed ==
  /\ slot.phase = "tx"
  /\ \/ net # "joined"
     \/ proc # <<>> /\ proc[Len(proc)].do = "flush" /\ proc[Len(proc)].n = slot.n

Spec == Init /\ [][Next /\ ~Disturbed']_vars

(* Processes go on after an interrupt, and the polls of the kernel come    *)
(* before further events; slots come to their end, driven by the timer;    *)
(* and the slots of every link come again and again.                       *)
FairSpec ==
  /\ Spec /\ WF_vars(Step) /\ SF_vars(Poll) /\ SF_vars(Reset)
  /\ WF_vars(SlotEnds) /\ \A l \in Links : SF_vars(Slot(l))

-----------------------------------------------------------------------------
Rec == [id : 0..MaxSend, tx : 0..255, to : Nbr]
IsRing(r, size) ==
  /\ r.arr \in [0..size - 1 -> Block \cup {NoBlock}]
  /\ r.put \in 0..size - 1 /\ r.get \in 0..size - 1

TypeOK ==
  /\ pkt \in [Block -> Rec] /\ used \subseteq Block
  /\ \A n \in Nbr : IsRing(ring[n], Ring)
  /\ IsRing(dq, DqRing)
  /\ Virtual \subseteq known /\ known \subseteq Nbr
  /\ \A n \in Nbr :
       /\ backoff[n].exp \in MinBE..MaxBE
       /\ backoff[n].win = 0 \/ backoff[n].win \in 1..2^backoff[n].exp
  /\ locked \in BOOLEAN /\ slot.phase \in {"idle", "tx"}
  /\ net \in {"out", "joined", "leaving", "resetting"}
  /\ sent \in 0..MaxSend /\ count \in [Id -> Nat]

(* Where a block is held: in a queue, among the finished packets (until    *)
(* its callback has been called) or by the call in progress.               *)
InQueue(b) == {p \in Nbr \X (1..Ring) : /\ p[2] <= Elements(ring[p[1]], Ring)
                                         /\ Contents(ring[p[1]], Ring)[p[2]] = b}
InDone(b) == {i \in 1..Elements(dq, DqRing) : Contents(dq, DqRing)[i] = b}
InCall(b) == {i \in 1..Len(proc) : proc[i].do = "flush" /\ proc[i].at \in {"call", "free"}
                                   /\ proc[i].b = b}
InSend(b) == {i \in 1..Len(proc) : proc[i].do = "send" /\ proc[i].at = "put"
                                   /\ ring[proc[i].n].arr[ring[proc[i].n].put] = b}
Freed(b) == \E i \in 1..Len(proc) : proc[i].do = "pending" /\ proc[i].at = "get" /\ proc[i].b = b

(* Every block allocated has exactly one owner, and nobody holds a block   *)
(* that is free: no packet leaks and none is freed twice, in nested calls  *)
(* that slots interrupt (but for the disturbances that Spec leaves out).   *)
OneOwner ==
  /\ TypeOK
  /\ \A b \in Block :
       Cardinality(InQueue(b)) + Cardinality(InDone(b)) + Cardinality(InCall(b))
         + Cardinality(InSend(b)) = IF b \in used \/ Freed(b) THEN 1 ELSE 0

(* The callback of every packet is called once: a packet is either waiting *)
(* in one place or has been reported, once.                                *)
Waiting == {b \in used : ~\E i \in 1..Len(proc) :
              proc[i].do \in {"flush", "pending"} /\ proc[i].at = "free" /\ proc[i].b = b}
ReportedOnce ==
  \A i \in 1..sent :
    LET pending == {b \in Waiting : pkt[b].id = i}
        deciding == {k \in 1..Len(proc) : proc[k].do = "send" /\ proc[k].at # "put"
                                         /\ i = sent}
    IN  count[i] + Cardinality(pending) + Cardinality(deciding) = 1

(* The packet being transmitted is the first of its neighbour's queue: the *)
(* slot removes "the first packet" at its end, which must be this one.     *)
SendsFirst ==
  slot.phase = "tx" =>
    /\ slot.n \in known /\ ~IsEmpty(ring[slot.n], Ring) /\ First(ring[slot.n]) = slot.b
    /\ slot.i = dq.put /\ ~Full(dq, DqRing)

(* Every packet accepted is finally reported, however often transmissions  *)
(* fail, windows are drawn or the network is left.                         *)
AllReported == \A i \in Id : sent = i ~> count[i] = 1

(* The queues implement MacQueue. *)
Ids(r) == [i \in 1..Elements(r, Ring) |-> pkt[Contents(r, Ring)[i]].id]
InHand == {b \in Block : InDone(b) # {} \/ InCall(b) # {}}
Reported == {i \in Id : count[i] > 0}
MacQueues == [n \in Nbr |-> IF n \in known THEN Ids(ring[n]) ELSE <<>>]
MacDone == {pkt[b].id : b \in InHand \cap used} \ Reported
Mac == INSTANCE MacQueue WITH queue <- MacQueues, done <- MacDone, reported <- Reported
ImplementsMacQueue == Mac!Spec
=============================================================================

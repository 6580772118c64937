-------------------------------- MODULE Sixp --------------------------------
(***************************************************************************)
(* 6P between nodes: every node runs the 6P layer of SixpOps over a TSCH   *)
(* MAC that retransmits, loses acknowledgements and gives up, with ctimers *)
(* that may expire while a packet is still queued, and with power cycles.  *)
(* The scheduling function is arbitrary: it may start a request whenever   *)
(* it likes and may answer, or not answer, what 6P hands up to it.         *)
(***************************************************************************)
EXTENDS SixpOps

CONSTANTS
  Initiator,   \* nodes whose scheduling function starts transactions
  ReqCmd,      \* commands they use
  ReplyBody,   \* bodies of their responses and confirmations
  Callback,    \* sent-callbacks they pass ("NONE" is NULL)
  Flushing,    \* how the queue to the peer may be flushed before a request
  Faults,      \* outcomes of handing a frame to TSCH other than "queued"
  MaxRequest,  \* bound: requests started in a behaviour
  MaxRx,       \* TSCH_MAX_INCOMING_PACKETS, bound on unprocessed frames
  MaxReboot    \* bound: power cycles in a behaviour

ASSUME InitiatorAssumption == Initiator \subseteq Node /\ ReqCmd \subseteq Cmd
ASSUME ReplyAssumption ==
  /\ ReplyBody \subseteq Body
  /\ Callback \subseteq Cmd \cup {"NONE"}
  /\ Flushing \subseteq FlushMode
ASSUME FaultAssumption == Faults \subseteq Outcome
ASSUME BoundAssumption ==
  MaxRequest \in Nat /\ MaxRx \in Nat /\ MaxReboot \in Nat

VARIABLES
  node,     \* node[n]: the 6P state of n
  rx,       \* rx[n]: frames received by n's radio, not yet processed
  nreq,     \* requests started so far; also the next request's identity
  reboots   \* power cycles so far

vars == <<node, rx, nreq, reboots>>

(* What the MAC may make of a frame. *)
Result == {"queued"} \cup Faults

Frame == [src : Node, pkt : Packet]

TypeOK ==
  /\ node \in [Node -> NodeState]
  /\ rx \in [Node -> Seq(Frame)]
  /\ nreq \in Nat
  /\ reboots \in Nat

Init ==
  /\ node = [n \in Node |-> BootState]
  /\ rx = [n \in Node |-> <<>>]
  /\ nreq = 0
  /\ reboots = 0

-----------------------------------------------------------------------------
(* sixtop_add_sf(): from now on the node has a scheduling function. *)
AddSf(n) ==
  /\ ~node[n].sf
  /\ node' = [node EXCEPT ![n].sf = TRUE]
  /\ UNCHANGED <<rx, nreq, reboots>>

(* The scheduling function of n calls sixp_output() with a request,        *)
(* possibly after the application has emptied the queue to the peer.       *)
Request(n, p, cmd, body, cb, flush, res) ==
  /\ nreq < MaxRequest
  /\ CanOutput(Flush(node[n], p, flush), p, res)
  /\ node' = [node EXCEPT ![n] =
                OutputRequest(Flush(@, p, flush), p, cmd, body, cb, nreq + 1, res)]
  /\ nreq' = nreq + 1
  /\ UNCHANGED <<rx, reboots>>

(* tsch_rx_process_pending(), packet_input() and sixp_input() on the oldest *)
(* received frame.  A scheduling function that is called may answer a       *)
(* request with a response and a response with a confirmation.              *)
HandleFrame(ns, f, answer, body, cb, res) ==
  LET m == SixpInput(ns, f.src, f.pkt, res)
      type == IF f.pkt.type = "REQUEST" THEN "RESPONSE" ELSE "CONFIRMATION"
  IN  IF Upcall(ns, f.src, f.pkt) /\ answer /\ f.pkt.type # "CONFIRMATION"
        THEN OutputReply(m, f.src, type, "SUCCESS", body, cb, res)
        ELSE m

Input(n, answer, body, cb, res) ==
  /\ rx[n] # <<>>
  /\ CanOutput(node[n], Head(rx[n]).src, res)
  /\ node' = [node EXCEPT ![n] = HandleFrame(@, Head(rx[n]), answer, body, cb, res)]
  /\ rx' = [rx EXCEPT ![n] = Tail(@)]
  /\ UNCHANGED <<nreq, reboots>>

(* A transmission of n's oldest packet to p reaches p.  Only the first one *)
(* counts: packet_input() drops later copies by their MAC sequence number. *)
Transmit(n, p) ==
  /\ node[n].queue[p] # <<>>
  /\ ~Head(node[n].queue[p]).heard
  /\ Len(rx[p]) < MaxRx
  /\ rx' = [rx EXCEPT ![p] =
              Append(@, [src |-> n, pkt |-> Head(node[n].queue[p])])]
  /\ node' = [node EXCEPT ![n].queue[p][1].heard = TRUE]
  /\ UNCHANGED <<nreq, reboots>>

(* tsch_tx_process_pending(): the packet is out of the queue, acknowledged *)
(* (then p has it) or given up (p may have it all the same).               *)
DoneWith(ns, p, ok) ==
  LET q == Head(ns.queue[p])
      n1 == [ns EXCEPT !.queue[p] = Tail(@)]
  IN  IF q.ptr = NoSlot THEN n1 ELSE MacCallback(n1, q.ptr, ok)

MacDone(n, p, ok) ==
  /\ node[n].queue[p] # <<>>
  /\ ok => Head(node[n].queue[p]).heard
  /\ node' = [node EXCEPT ![n] = DoneWith(@, p, ok)]
  /\ UNCHANGED <<rx, nreq, reboots>>

(* The ctimer of block s expires. *)
Timer(n, s) ==
  /\ \/ /\ node[n].trans[s].timer = "timeout"
        /\ node' = [node EXCEPT ![n] = HandleTransTimeout(@, s)]
     \/ /\ node[n].trans[s].timer = "process"
        /\ node' = [node EXCEPT ![n] = ProcessTrans(@, s)]
  /\ UNCHANGED <<rx, nreq, reboots>>

(* Power cycle: nothing of 6P or of the MAC queues is persistent. *)
Reboot(n) ==
  /\ reboots < MaxReboot
  /\ node' = [node EXCEPT ![n] = BootState]
  /\ rx' = [rx EXCEPT ![n] = <<>>]
  /\ reboots' = reboots + 1
  /\ UNCHANGED nreq

Next ==
  \E n \in Node :
    \/ AddSf(n)
    \/ /\ n \in Initiator
       /\ \E p \in Node \ {n}, cmd \in ReqCmd, body \in Body, cb \in Callback,
             flush \in Flushing, res \in Result :
            Request(n, p, cmd, body, cb, flush, res)
    \/ \E answer \in BOOLEAN, body \in ReplyBody, cb \in Callback, res \in Result :
         Input(n, answer, body, cb, res)
    \/ \E p \in Node \ {n} : Transmit(n, p)
    \/ \E p \in Node \ {n}, ok \in BOOLEAN : MacDone(n, p, ok)
    \/ \E s \in Slot : Timer(n, s)
    \/ Reboot(n)

Spec == Init /\ [][Next]_vars

(* ctimers expire.  Nothing is assumed of the peer or of the radio. *)
Fairness == \A n \in Node, s \in Slot : WF_vars(Timer(n, s))

FairSpec == Spec /\ Fairness

-----------------------------------------------------------------------------
(***************************************************************************)
(* Properties.                                                             *)
(***************************************************************************)
(* "there is one transactions for a single peer at most" (comment of       *)
(* sixp_trans_find()): the transactions on a node's list have different    *)
(* peers, whichever side started them.                                     *)
OneTransPerPeerAt(ns) ==
  \A s, r \in Slot :
    Listed(ns.trans[s]) /\ Listed(ns.trans[r]) /\ s # r
      => ns.trans[s].peer # ns.trans[r].peer

OneTransPerPeer == \A n \in Node : OneTransPerPeerAt(node[n])

(* A transaction on the list has a ctimer running, and a block that is not *)
(* on the list has none: no transaction is stuck in the pool and no ctimer *)
(* fires on freed memory (start_trans_timer, process_trans, sixp_trans_free).*)
TimerArmedAt(ns) ==
  \A s \in Slot : Listed(ns.trans[s]) <=> ns.trans[s].timer # "none"

TimerArmed == \A n \in Node : TimerArmedAt(node[n])

(* assert(sixp_nbr_get_next_seqno(nbr) == 0) of sixp_trans_transit_state():*)
(* when the response to a CLEAR has been sent, next_seqno is still 0.      *)
ClearKeepsZeroAt(ns) ==
  \A s \in Slot :
    /\ ns.trans[s].cmd = "CLEAR"
    /\ ns.trans[s].state \in {"REQUEST_RECEIVED", "RESPONSE_SENDING"}
    => ns.nbr[ns.trans[s].peer] \in {NoNbr, 0}

ClearKeepsZero == \A n \in Node : ClearKeepsZeroAt(node[n])

(* The inductive invariant behind the three: the per-node predicates, and  *)
(* that a block in use names its peer.                                     *)
NodeInv(ns) ==
  /\ ns \in NodeState
  /\ \A s \in Slot : ns.trans[s].state # "UNAVAILABLE" => ns.trans[s].peer \in Node
  /\ OneTransPerPeerAt(ns)
  /\ TimerArmedAt(ns)
  /\ ClearKeepsZeroAt(ns)

Inv == TypeOK /\ \A n \in Node : NodeInv(node[n])

(* "next_seqno can be 0 only by initialization of nbr or by a CLEAR        *)
(* transaction" (sixp_nbr_increment_next_seqno()): a next_seqno that is    *)
(* not 0 returns to 0 only when a CLEAR is sent or received, whatever wraps.*)
ClearStep(n, p) ==
  \/ \E s \in Slot : /\ Listed(node'[n].trans[s])
                     /\ node'[n].trans[s].peer = p
                     /\ node'[n].trans[s].cmd = "CLEAR"
  \/ rx[n] # <<>> /\ Head(rx[n]).pkt.code = "CLEAR"

ZeroOnlyByClear ==
  [][\A n, p \in Node :
       /\ node[n].nbr[p] \notin {NoNbr, 0}
       /\ node'[n].nbr[p] = 0
       => ClearStep(n, p)]_vars

(* A delayed response is never taken for the answer to a later request     *)
(* (comment on next_seqno in sixp_output()): the response that moves a     *)
(* transaction to RESPONSE_RECEIVED answers that transaction's request.    *)
ResponseMatchesRequest ==
  [][\A n \in Node, s \in Slot :
       /\ node'[n].trans[s].state = "RESPONSE_RECEIVED"
       /\ node[n].trans[s].state \in {"REQUEST_SENDING", "REQUEST_SENT"}
       => Head(rx[n]).pkt.req = node[n].trans[s].req]_vars

(* A frame only concerns the transaction with its sender: processing it     *)
(* leaves every transaction with another peer, and that peer's next_seqno, *)
(* as they are, also when the pool has no block for the sender.            *)
InputIsolated ==
  [][\A n \in Node :
       (rx[n] # <<>> /\ rx'[n] = Tail(rx[n]) /\ reboots' = reboots)
       => /\ \A s \in Slot :
               (Listed(node[n].trans[s]) /\ node[n].trans[s].peer # Head(rx[n]).src)
               => node'[n].trans[s] = node[n].trans[s]
          /\ \A p \in Node \ {Head(rx[n]).src} : node'[n].nbr[p] = node[n].nbr[p]]_vars

(* Every transaction ends: its block leaves the list, so that with         *)
(* SIXTOP_MAX_TRANSACTIONS blocks 6P never stays busy for ever, even if    *)
(* nothing is delivered, reported by the MAC or answered any more.         *)
TransactionsEnd ==
  \A n \in Node, s \in Slot :
    Listed(node[n].trans[s]) ~> ~Listed(node[n].trans[s])
=============================================================================

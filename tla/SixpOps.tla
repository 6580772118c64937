------------------------------ MODULE SixpOps ------------------------------
(***************************************************************************)
(* The 6P layer of one node (os/net/mac/tsch/sixtop): the transaction pool *)
(* of sixp-trans.c, the neighbour table of sixp-nbr.c, the entry points of *)
(* sixp.c and the hand-over to the TSCH queue in sixtop.c.                 *)
(*                                                                         *)
(* Every C function is an operator from a node's 6P state to its next 6P   *)
(* state, so that the modules that use them can run a whole call chain     *)
(* (input, scheduling function, output) in one action, as the code does.   *)
(*                                                                         *)
(* A node's 6P state ns is a record                                        *)
(*   ns.trans[s]   the s-th block of trans_memb                            *)
(*   ns.nbr[p]     next_seqno kept for p, or NoNbr                         *)
(*   ns.queue[p]   the TSCH queue towards p, oldest packet first           *)
(*   ns.sf         whether a scheduling function is registered             *)
(***************************************************************************)
EXTENDS Integers, Sequences

CONSTANTS
  Node,       \* link-layer addresses
  NoNode,     \* the all-zero peer address of an unused transaction
  MaxTrans,   \* SIXTOP_MAX_TRANSACTIONS
  MaxSeqno,   \* largest value of the uint8_t next_seqno (255 in the code)
  MaxQueue,   \* packets a TSCH neighbour queue can hold
  Body,       \* 6P message bodies ("other fields")
  EmptyBody   \* the body without any cell

ASSUME NodeAssumption == NoNode \notin Node
ASSUME PoolAssumption == MaxTrans \in Nat \ {0}
ASSUME SeqnoAssumption == MaxSeqno \in Nat \ {0}
ASSUME QueueAssumption == MaxQueue \in Nat
ASSUME BodyAssumption == EmptyBody \in Body

(***************************************************************************)
(* Data.                                                                   *)
(***************************************************************************)
Slot == 1..MaxTrans

(* The callback argument of a packet sent without one (ptr = NULL). *)
NoSlot == 0

NoNbr == -1

TransState ==
  {"UNAVAILABLE", "INIT", "REQUEST_SENDING", "REQUEST_SENT",
   "REQUEST_RECEIVED", "RESPONSE_SENDING", "RESPONSE_SENT",
   "RESPONSE_RECEIVED", "CONFIRMATION_SENDING", "CONFIRMATION_SENT",
   "CONFIRMATION_RECEIVED", "TERMINATING", "WAIT_FREE"}

Sending == {"REQUEST_SENDING", "RESPONSE_SENDING", "CONFIRMATION_SENDING"}

Cmd == {"ADD", "DELETE", "RELOCATE", "CLEAR"}

ReturnCode == {"SUCCESS", "ERR_SFID", "ERR_SEQNUM", "ERR_BUSY"}

PktType == {"REQUEST", "RESPONSE", "CONFIRMATION"}

(* A frame handed to TSCH.  ptr is the transaction block given to          *)
(* mac_callback, heard says that the peer has received the frame.  req is  *)
(* a history field: the identity of the request the frame belongs to.      *)
Packet ==
  {k \in [type : PktType, code : Cmd \cup ReturnCode, seqno : 0..MaxSeqno,
          body : Body, ptr : Slot \cup {NoSlot}, req : Nat, heard : BOOLEAN] :
     k.code \in IF k.type = "REQUEST" THEN Cmd ELSE ReturnCode}

(* struct sixp_trans.  cb is the sent-callback (named after the command it *)
(* answers), timer what the ctimer will call, req the history field above. *)
Trans ==
  [state : TransState, peer : Node \cup {NoNode}, seqno : 0..MaxSeqno,
   cmd : Cmd \cup {"NONE"}, mode : {2, 3}, cb : Cmd \cup {"NONE"},
   timer : {"none", "timeout", "process"}, req : Nat]

NodeState ==
  [trans : [Slot -> Trans],
   nbr : [Node -> 0..MaxSeqno \cup {NoNbr}],
   queue : [Node -> Seq(Packet)],
   sf : BOOLEAN]

(* A block of trans_memb after memset(0). *)
FreeTrans ==
  [state |-> "UNAVAILABLE", peer |-> NoNode, seqno |-> 0, cmd |-> "NONE",
   mode |-> 2, cb |-> "NONE", timer |-> "none", req |-> 0]

(* sixp_init(): no transaction, no neighbour; no SF until sixtop_add_sf(). *)
BootState ==
  [trans |-> [s \in Slot |-> FreeTrans],
   nbr |-> [p \in Node |-> NoNbr],
   queue |-> [p \in Node |-> <<>>],
   sf |-> FALSE]

(***************************************************************************)
(* sixp-nbr.c                                                              *)
(***************************************************************************)
(* Mutant: the increment does not skip 0. *)
NextSeqno_ThroughZero(q) == (q + 1) % (MaxSeqno + 1)

(* sixp_nbr_increment_next_seqno(): a uint8_t increment that skips 0. *)
NextSeqno(q) ==
  LET r == (q + 1) % (MaxSeqno + 1)
  IN  IF r = 0 THEN 1 ELSE r

(***************************************************************************)
(* sixp-trans.c                                                            *)
(***************************************************************************)
(* Member of trans_list: allocated and not parked in WAIT_FREE. *)
Listed(t) == t.state \notin {"UNAVAILABLE", "WAIT_FREE"}

(* Mutant: the peer is not compared. *)
TransWith_AnyPeer(ns, p) == {s \in Slot : Listed(ns.trans[s])}

(* sixp_trans_find() *)
TransWith(ns, p) == {s \in Slot : Listed(ns.trans[s]) /\ ns.trans[s].peer = p}

(* Mutant: a transaction that is about to be freed is overlooked. *)
HasTrans_SkipsTerminating(ns, p) ==
  \E s \in TransWith(ns, p) : ns.trans[s].state # "TERMINATING"

HasTrans(ns, p) == TransWith(ns, p) # {}
Find(ns, p) == CHOOSE s \in Slot : s \in TransWith(ns, p)

FreeSlots(ns) == {s \in Slot : ns.trans[s].state = "UNAVAILABLE"}

(* The tests of sixp_trans_alloc(); memb_alloc() hands out a free block,   *)
(* and nothing depends on which.                                           *)
CanAlloc(ns, p) == ns.sf /\ ~HasTrans(ns, p) /\ FreeSlots(ns) # {}
AllocSlot(ns) == CHOOSE s \in Slot : s \in FreeSlots(ns)

(* 3-step iff an Add or Delete request has an empty cell list. *)
DetermineMode(code, body) ==
  IF code \in {"ADD", "DELETE"} /\ body = EmptyBody THEN 3 ELSE 2

Alloc(ns, p, pkt) ==
  [ns EXCEPT !.trans[AllocSlot(ns)] =
     [state |-> "INIT", peer |-> p, seqno |-> pkt.seqno, cmd |-> pkt.code,
      mode |-> DetermineMode(pkt.code, pkt.body), cb |-> "NONE",
      timer |-> "timeout", req |-> pkt.req]]

(* The state transition rules of sixp_trans_transit_state(). *)
Allowed(t, new) ==
  \/ new = "TERMINATING"
  \/ new \in {"REQUEST_SENDING", "REQUEST_RECEIVED"} /\ t.state = "INIT"
  \/ new = "REQUEST_SENT" /\ t.state = "REQUEST_SENDING"
  \/ new = "RESPONSE_SENDING" /\ t.state = "REQUEST_RECEIVED"
  \/ new = "RESPONSE_SENT" /\ t.state = "RESPONSE_SENDING"
  \/ new = "RESPONSE_RECEIVED" /\ t.state \in {"REQUEST_SENDING", "REQUEST_SENT"}
  \/ /\ t.mode = 3
     /\ \/ /\ new = "CONFIRMATION_RECEIVED"
           /\ t.state \in {"RESPONSE_SENT", "RESPONSE_SENDING"}
        \/ new = "CONFIRMATION_SENDING" /\ t.state = "RESPONSE_RECEIVED"
        \/ new = "CONFIRMATION_SENT" /\ t.state = "CONFIRMATION_SENDING"

(* What reaching RESPONSE_SENT does to the neighbour's next_seqno. *)
NbrAfter(ns, t, new) ==
  IF new = "RESPONSE_SENT" /\ ns.nbr[t.peer] # NoNbr /\ t.cmd # "CLEAR"
    THEN [ns.nbr EXCEPT ![t.peer] = NextSeqno(t.seqno)]
    ELSE ns.nbr

(* sixp_trans_transit_state(): refused transitions change nothing, the     *)
(* others make process_trans() due at once.                                *)
Transit(ns, s, new) ==
  IF Allowed(ns.trans[s], new)
    THEN [ns EXCEPT !.nbr = NbrAfter(ns, ns.trans[s], new),
                    !.trans[s] = [@ EXCEPT !.state = new, !.timer = "process"]]
    ELSE ns

(* sixp_trans_free(): a transaction being sent is only taken off the list. *)
Free(ns, s) ==
  [ns EXCEPT !.trans[s] =
     IF @.state \in Sending
       THEN [@ EXCEPT !.state = "WAIT_FREE", !.timer = "none"]
       ELSE FreeTrans]

(* States process_trans() moves to TERMINATING. *)
Complete(t) ==
  \/ t.state \in {"RESPONSE_SENT", "RESPONSE_RECEIVED"} /\ t.mode = 2
  \/ t.state \in {"CONFIRMATION_SENT", "CONFIRMATION_RECEIVED"}

(* Mutant: the timer stopped on entry is not started again. *)
ProcessTrans_NoRestart(ns, s) ==
  LET t == ns.trans[s]
  IN  IF t.state = "TERMINATING" THEN Free(ns, s)
      ELSE IF Complete(t) THEN Transit(ns, s, "TERMINATING")
      ELSE [ns EXCEPT !.trans[s] = [@ EXCEPT !.timer = "none"]]

ProcessTrans(ns, s) ==
  LET t == ns.trans[s]
  IN  IF t.state = "TERMINATING" THEN Free(ns, s)
      ELSE IF Complete(t) THEN Transit(ns, s, "TERMINATING")
      ELSE [ns EXCEPT !.trans[s] = [@ EXCEPT !.timer = "timeout"]]

(* handle_trans_timeout(); the SF's timeout handler only logs. *)
HandleTransTimeout(ns, s) == Transit(ns, s, "TERMINATING")

(***************************************************************************)
(* sixp.c: the report of the MAC.                                          *)
(***************************************************************************)
(* The state mac_callback() asks for. *)
StateAfterMac(t, ok) ==
  IF ok THEN CASE t.state = "REQUEST_SENDING" -> "REQUEST_SENT"
               [] t.state = "RESPONSE_SENDING" -> "RESPONSE_SENT"
               [] t.state = "CONFIRMATION_SENDING" -> "CONFIRMATION_SENT"
               [] OTHER -> t.state
  ELSE IF t.state = "REQUEST_SENDING" THEN "TERMINATING" ELSE t.state

ClearCallback(ns, s) ==
  [ns EXCEPT !.trans[s] = [@ EXCEPT !.cb = "NONE"]]

(* mac_callback(): on a block in WAIT_FREE it completes the free; otherwise *)
(* it advances whatever transaction the block holds, runs and clears its   *)
(* sent-callback.  An unused block (state 0) is left as it is.             *)
MacCallback(ns, s, ok) ==
  LET t == ns.trans[s]
      new == StateAfterMac(t, ok)
  IN  IF t.state = "WAIT_FREE"
        THEN [ns EXCEPT !.trans[s] = FreeTrans]
      ELSE IF new = t.state THEN ClearCallback(ns, s)
      ELSE IF Allowed(t, new) THEN ClearCallback(Transit(ns, s, new), s)
      ELSE Transit(ns, s, "TERMINATING")

(* The sent-callback that this mac_callback() runs, if any. *)
CallbackRun(ns, s, ok) ==
  LET t == ns.trans[s]
      new == StateAfterMac(t, ok)
  IN  IF t.state # "WAIT_FREE" /\ (new = t.state \/ Allowed(t, new))
        THEN t.cb ELSE "NONE"

(* tsch_queue_free_packets_to(): every packet queued for p is dropped and  *)
(* reported as an error to its mac_callback().  A block may be named by    *)
(* several packets: the second report finds nothing left to do.  A packet  *)
(* that has been acknowledged is no longer in the ring buffer, only its    *)
(* report is outstanding ("unacked" flushes what is behind it); one that   *)
(* was heard but not acknowledged still is ("all" flushes it too).         *)
FlushMode == {"none", "unacked", "all"}

FlushedTrans(t) ==
  CASE t.state = "WAIT_FREE" -> FreeTrans
    [] t.state = "REQUEST_SENDING" ->
         [t EXCEPT !.state = "TERMINATING", !.timer = "process", !.cb = "NONE"]
    [] OTHER -> [t EXCEPT !.cb = "NONE"]

KeptHead(q, mode) == mode = "unacked" /\ q # <<>> /\ Head(q).heard

Flush(ns, p, mode) ==
  LET q == ns.queue[p]
      keep == KeptHead(q, mode)
      ptrs == {q[i].ptr : i \in (IF keep THEN 2 ELSE 1)..Len(q)}
  IN  IF mode = "none" THEN ns
      ELSE [ns EXCEPT
              !.queue[p] = IF keep THEN <<Head(q)>> ELSE <<>>,
              !.trans = [s \in Slot |->
                           IF s \in ptrs THEN FlushedTrans(ns.trans[s])
                                         ELSE ns.trans[s]]]

(***************************************************************************)
(* sixtop_output() and send_packet(): res is what becomes of the frame.    *)
(*   queued   it is in the TSCH queue                                      *)
(*   refused  TSCH has no room or is not associated: mac_callback() runs   *)
(*            at once with an error, sixtop_output() still returns 0       *)
(*   failed   no room for an IE header: mac_callback() as above, -1        *)
(*   dropped  no room for the Sub-IE ID: no mac_callback(), -1             *)
(***************************************************************************)
Failure == {"failed", "dropped"}
Outcome == {"queued", "refused"} \cup Failure

CanOutput(ns, p, res) == res = "queued" => Len(ns.queue[p]) < MaxQueue

SixtopOutput(ns, p, pkt, res) ==
  IF res = "queued" THEN [ns EXCEPT !.queue[p] = Append(@, pkt)]
  ELSE IF pkt.ptr = NoSlot \/ res = "dropped" THEN ns
  ELSE MacCallback(ns, pkt.ptr, FALSE)

MkPacket(type, code, seqno, body, ptr, req) ==
  [type |-> type, code |-> code, seqno |-> seqno, body |-> body,
   ptr |-> ptr, req |-> req, heard |-> FALSE]

(***************************************************************************)
(* sixp.c: sixp_output() for a request.  It does nothing when a            *)
(* transaction with the peer is under way or none can be allocated; the    *)
(* neighbour created on the way stays.                                     *)
(***************************************************************************)
WithNbr(ns, p) ==
  IF ns.nbr[p] = NoNbr THEN [ns EXCEPT !.nbr[p] = 0] ELSE ns

(* Mutant: the update of next_seqno is left to the end of the transaction. *)
SeqnoAfterRequest_Deferred(cmd, q) == q

SeqnoAfterRequest(cmd, q) == IF cmd = "CLEAR" THEN 0 ELSE NextSeqno(q)

OutputRequest(ns, p, cmd, body, cb, req, res) ==
  LET n1 == WithNbr(ns, p)
      s == AllocSlot(n1)
      pkt == MkPacket("REQUEST", cmd, n1.nbr[p], body, s, req)
      n2 == [Alloc(n1, p, pkt) EXCEPT !.trans[s].cb = cb]
      n3 == SixtopOutput(n2, p, pkt, res)
  IN  IF HasTrans(ns, p) THEN ns
      ELSE IF ~CanAlloc(n1, p) THEN n1
      ELSE IF res \in Failure THEN [n3 EXCEPT !.trans[s] = FreeTrans]
      ELSE Transit([n3 EXCEPT !.nbr[p] = SeqnoAfterRequest(cmd, @)], s,
                   "REQUEST_SENDING")

(* sixp_output() for a response or a confirmation: only in the state that  *)
(* waits for it, with the transaction's own sequence number.               *)
OutputReply(ns, p, type, rc, body, cb, res) ==
  LET s == Find(ns, p)
      t == ns.trans[s]
      n1 == IF type = "RESPONSE" /\ t.cmd # "CLEAR" THEN WithNbr(ns, p) ELSE ns
      n2 == [n1 EXCEPT !.trans[s].cb = cb]
      pkt == MkPacket(type, rc, t.seqno, body, s, t.req)
      n3 == SixtopOutput(n2, p, pkt, res)
      from == IF type = "RESPONSE" THEN "REQUEST_RECEIVED" ELSE "RESPONSE_RECEIVED"
      to == IF type = "RESPONSE" THEN "RESPONSE_SENDING" ELSE "CONFIRMATION_SENDING"
  IN  IF ~HasTrans(ns, p) \/ t.state # from THEN ns
      ELSE IF res \in Failure THEN n3
      ELSE Transit(n3, s, to)

(* send_back_error() without a transaction: no callback, pkt's own seqno. *)
OutputError(ns, p, rc, pkt, res) ==
  SixtopOutput(ns, p,
    MkPacket("RESPONSE", rc, pkt.seqno, EmptyBody, NoSlot, pkt.req), res)

(* send_back_error() with RC_ERR_SEQNUM: through the transaction when it   *)
(* waits for a response, else directly.                                    *)
OutputSeqnumError(ns, p, pkt, res) ==
  IF HasTrans(ns, p) /\ ns.trans[Find(ns, p)].state # "REQUEST_RECEIVED"
    THEN OutputError(ns, p, "ERR_SEQNUM", pkt, res)
    ELSE OutputReply(ns, p, "RESPONSE", "ERR_SEQNUM", EmptyBody, "NONE", res)

(***************************************************************************)
(* sixp.c: sixp_input() up to the call of the scheduling function.         *)
(***************************************************************************)
(* One of the two sequence numbers is 0, the other is not. *)
ZeroMismatch(a, b) == (a = 0) # (b = 0)

(* The schedule-inconsistency test on a request without a transaction. *)
Inconsistent(ns, p, pkt) ==
  /\ pkt.code # "CLEAR"
  /\ \/ ns.nbr[p] = NoNbr /\ pkt.seqno # 0
     \/ ns.nbr[p] # NoNbr /\ ns.nbr[p] # 0 /\ pkt.seqno = 0

(* Mutant: a received CLEAR does not reset next_seqno. *)
AfterClear_KeepsSeqno(ns, p, pkt) == ns

(* sixp_nbr_reset_next_seqno() when a CLEAR is received. *)
AfterClear(ns, p, pkt) ==
  IF pkt.code = "CLEAR" /\ ns.nbr[p] # NoNbr
    THEN [ns EXCEPT !.nbr[p] = 0] ELSE ns

InputRequest(ns, p, pkt, res) ==
  LET n1 == AfterClear(ns, p, pkt)
      n2 == Transit(Alloc(n1, p, pkt), AllocSlot(n1), "REQUEST_RECEIVED")
  IN  IF HasTrans(ns, p)
        THEN IF /\ pkt.code # "CLEAR"
                /\ ZeroMismatch(pkt.seqno, ns.trans[Find(ns, p)].seqno)
               THEN OutputSeqnumError(ns, p, pkt, res)
               ELSE OutputError(ns, p, "ERR_BUSY", pkt, res)
      ELSE IF ~CanAlloc(n1, p) THEN OutputError(n1, p, "ERR_BUSY", pkt, res)
      ELSE IF Inconsistent(n1, p, pkt) THEN OutputSeqnumError(n2, p, pkt, res)
      ELSE n2

StateOnReply(type) ==
  IF type = "RESPONSE" THEN "RESPONSE_RECEIVED" ELSE "CONFIRMATION_RECEIVED"

(* The transaction takes this response or confirmation. *)
Accepts(ns, p, pkt) ==
  /\ HasTrans(ns, p)
  /\ ns.trans[Find(ns, p)].seqno = pkt.seqno
  /\ Allowed(ns.trans[Find(ns, p)], StateOnReply(pkt.type))

SixpInput(ns, p, pkt, res) ==
  IF ~ns.sf THEN OutputError(ns, p, "ERR_SFID", pkt, res)
  ELSE IF pkt.type = "REQUEST" THEN InputRequest(ns, p, pkt, res)
  ELSE IF Accepts(ns, p, pkt)
         THEN Transit(ns, Find(ns, p), StateOnReply(pkt.type))
         ELSE ns

(* sixp_input() goes on to call sf->input(). *)
Upcall(ns, p, pkt) ==
  /\ ns.sf
  /\ IF pkt.type = "REQUEST"
       THEN LET n1 == AfterClear(ns, p, pkt)
            IN  CanAlloc(n1, p) /\ ~Inconsistent(n1, p, pkt)
       ELSE Accepts(ns, p, pkt)
=============================================================================

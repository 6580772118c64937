----------------------------- MODULE SixpProofs -----------------------------
(***************************************************************************)
(* Proofs about 6P for any set of nodes, any pool, queue and sequence      *)
(* number size and any number of requests and power cycles.  Each operator *)
(* of SixpOps keeps NodeInv; the steps of Sixp are compositions of them.   *)
(***************************************************************************)
EXTENDS Sixp, TLAPS

(* What a block t may be, to be put at s in a node state ns. *)
Fits(ns, s, t) ==
  /\ t \in Trans
  /\ t.state # "UNAVAILABLE" => t.peer \in Node
  /\ Listed(t) <=> t.timer # "none"
  /\ Listed(t) => \A r \in Slot \ {s} :
       Listed(ns.trans[r]) => ns.trans[r].peer # t.peer
  /\ t.cmd = "CLEAR" /\ t.state \in {"REQUEST_RECEIVED", "RESPONSE_SENDING"}
       => ns.nbr[t.peer] \in {NoNbr, 0}

(* No response to a CLEAR of p is under preparation. *)
NoClearFrom(ns, p) ==
  \A s \in Slot : /\ ns.trans[s].cmd = "CLEAR"
                  /\ ns.trans[s].state \in {"REQUEST_RECEIVED", "RESPONSE_SENDING"}
                  => ns.trans[s].peer # p

(* Replacing a block by one that fits keeps the invariant of the node. *)
LEMMA SetTrans ==
  ASSUME NEW ns, NodeInv(ns), NEW s \in Slot, NEW t, Fits(ns, s, t)
  PROVE  NodeInv([ns EXCEPT !.trans[s] = t])
<1> DEFINE m == [ns EXCEPT !.trans[s] = t]
<1>1. /\ m \in NodeState /\ m.nbr = ns.nbr /\ m.trans[s] = t
      /\ \A r \in Slot \ {s} : m.trans[r] = ns.trans[r]
  BY DEF NodeInv, NodeState, Fits
<1>2. \A r \in Slot : m.trans[r].state # "UNAVAILABLE" => m.trans[r].peer \in Node
  BY <1>1 DEF NodeInv, Fits
<1>3. OneTransPerPeerAt(m)
  BY <1>1 DEF NodeInv, Fits, OneTransPerPeerAt
<1>4. TimerArmedAt(m)
  BY <1>1 DEF NodeInv, Fits, TimerArmedAt
<1>5. ClearKeepsZeroAt(m)
  BY <1>1 DEF NodeInv, Fits, ClearKeepsZeroAt
<1> QED
  BY <1>1, <1>2, <1>3, <1>4, <1>5 DEF NodeInv

(* Giving a neighbour another next_seqno keeps the invariant unless a      *)
(* CLEAR of that neighbour waits for its response.                         *)
LEMMA SetNbr ==
  ASSUME NEW ns, NodeInv(ns), NEW p \in Node,
         NEW q \in 0..MaxSeqno \cup {NoNbr},
         NoClearFrom(ns, p) \/ q \in {NoNbr, 0}
  PROVE  NodeInv([ns EXCEPT !.nbr[p] = q])
<1> DEFINE m == [ns EXCEPT !.nbr[p] = q]
<1>1. /\ m \in NodeState /\ m.trans = ns.trans /\ m.nbr[p] = q
      /\ \A r \in Node \ {p} : m.nbr[r] = ns.nbr[r]
  BY DEF NodeInv, NodeState
<1>2. /\ \A r \in Slot : m.trans[r].state # "UNAVAILABLE" => m.trans[r].peer \in Node
      /\ OneTransPerPeerAt(m) /\ TimerArmedAt(m)
  BY <1>1 DEF NodeInv, OneTransPerPeerAt, TimerArmedAt
<1>3. ClearKeepsZeroAt(m)
  BY <1>1, <1>2 DEF NodeInv, ClearKeepsZeroAt, NoClearFrom
<1> QED
  BY <1>1, <1>2, <1>3 DEF NodeInv

(* The two at once: block s and the next_seqno of peers that no other      *)
(* listed transaction has.                                                 *)
LEMMA Update ==
  ASSUME NEW ns, NodeInv(ns), NEW m \in NodeState, NEW s \in Slot,
         \A r \in Slot \ {s} : m.trans[r] = ns.trans[r],
         Fits(m, s, m.trans[s]),
         \A p \in Node : \/ m.nbr[p] = ns.nbr[p]
                         \/ \A r \in Slot \ {s} :
                              Listed(ns.trans[r]) => ns.trans[r].peer # p
  PROVE  NodeInv(m)
<1>1. \A r \in Slot : m.trans[r].state # "UNAVAILABLE" => m.trans[r].peer \in Node
  BY DEF NodeInv, Fits
<1>2. OneTransPerPeerAt(m) /\ TimerArmedAt(m)
  BY DEF NodeInv, Fits, OneTransPerPeerAt, TimerArmedAt
<1>3. ClearKeepsZeroAt(m)
  BY <1>1 DEF NodeInv, Fits, ClearKeepsZeroAt, Listed
<1> QED
  BY <1>1, <1>2, <1>3 DEF NodeInv

(* The invariant does not look into the queues. *)
LEMMA SetQueue ==
  ASSUME NEW ns, NodeInv(ns), NEW p \in Node, NEW q \in Seq(Packet)
  PROVE  NodeInv([ns EXCEPT !.queue[p] = q])
<1> DEFINE m == [ns EXCEPT !.queue[p] = q]
<1>1. m \in NodeState /\ m.trans = ns.trans /\ m.nbr = ns.nbr
  BY DEF NodeInv, NodeState
<1> QED
  BY <1>1 DEF NodeInv, OneTransPerPeerAt, TimerArmedAt, ClearKeepsZeroAt

LEMMA NextSeqnoType == \A q \in 0..MaxSeqno : NextSeqno(q) \in 1..MaxSeqno
BY SeqnoAssumption DEF NextSeqno

LEMMA FreeTransType == FreeTrans \in Trans
BY SeqnoAssumption DEF FreeTrans, Trans, TransState

(* An unused block fits anywhere. *)
LEMMA SetFree ==
  ASSUME NEW ns, NodeInv(ns), NEW s \in Slot
  PROVE  NodeInv([ns EXCEPT !.trans[s] = FreeTrans])
<1>1. Fits(ns, s, FreeTrans)
  BY FreeTransType DEF Fits, FreeTrans, Listed
<1> QED
  BY <1>1, SetTrans

(* A transition of a listed transaction to a listed state. *)
LEMMA TransitInv ==
  ASSUME NEW ns, NodeInv(ns), NEW s \in Slot, Listed(ns.trans[s]),
         NEW new \in TransState \ {"UNAVAILABLE", "WAIT_FREE"},
         \/ new # "REQUEST_RECEIVED"
         \/ ns.trans[s].cmd # "CLEAR"
         \/ ns.nbr[ns.trans[s].peer] \in {NoNbr, 0}
  PROVE  /\ NodeInv(Transit(ns, s, new))
         /\ Transit(ns, s, new).queue = ns.queue
<1> DEFINE t == ns.trans[s]
           u == [t EXCEPT !.state = new, !.timer = "process"]
           m == [ns EXCEPT !.nbr = NbrAfter(ns, t, new), !.trans[s] = u]
<1>1. CASE ~Allowed(t, new)
  BY <1>1 DEF Transit
<1>2. CASE Allowed(t, new)
  <2>1. Transit(ns, s, new) = m
    BY <1>2 DEF Transit
  <2>2. t \in Trans /\ t.peer \in Node /\ t.state \in TransState
    BY DEF NodeInv, NodeState, Listed, Trans
  <2>3. /\ u \in Trans /\ u.state = new /\ u.timer = "process"
        /\ u.peer = t.peer /\ u.cmd = t.cmd
    BY <2>2 DEF Trans
  <2>4. /\ NbrAfter(ns, t, new) \in [Node -> 0..MaxSeqno \cup {NoNbr}]
        /\ \A p \in Node \ {t.peer} : NbrAfter(ns, t, new)[p] = ns.nbr[p]
        /\ new # "RESPONSE_SENT" => NbrAfter(ns, t, new) = ns.nbr
    BY <2>2, NextSeqnoType DEF NodeInv, NodeState, NbrAfter, Trans
  <2>5. /\ m \in NodeState /\ m.trans[s] = u /\ m.nbr = NbrAfter(ns, t, new)
        /\ m.queue = ns.queue
        /\ \A r \in Slot \ {s} : m.trans[r] = ns.trans[r]
    BY <2>3, <2>4 DEF NodeInv, NodeState
  <2>6. \A r \in Slot \ {s} : Listed(ns.trans[r]) => ns.trans[r].peer # t.peer
    BY DEF NodeInv, OneTransPerPeerAt
  <2>7. u.cmd = "CLEAR" /\ u.state \in {"REQUEST_RECEIVED", "RESPONSE_SENDING"}
          => m.nbr[u.peer] \in {NoNbr, 0}
    BY <1>2, <2>2, <2>3, <2>4, <2>5 DEF NodeInv, ClearKeepsZeroAt, Allowed
  <2>8. Fits(m, s, m.trans[s])
    BY <2>2, <2>3, <2>5, <2>6, <2>7, ZenonT(60) DEF Fits, Listed
  <2>9. \A p \in Node : \/ m.nbr[p] = ns.nbr[p]
                        \/ \A r \in Slot \ {s} :
                             Listed(ns.trans[r]) => ns.trans[r].peer # p
    BY <2>4, <2>5, <2>6
  <2>10. NodeInv(m)
    BY <2>5, <2>8, <2>9, Update
  <2> QED
    BY <2>1, <2>5, <2>10
<1> QED
  BY <1>1, <1>2

(* Setting or clearing the sent-callback of a block. *)
LEMMA SetCallback ==
  ASSUME NEW ns, NodeInv(ns), NEW s \in Slot, NEW c \in Cmd \cup {"NONE"}
  PROVE  LET m == [ns EXCEPT !.trans[s].cb = c]
         IN  /\ NodeInv(m)
             /\ m.nbr = ns.nbr /\ m.queue = ns.queue /\ m.sf = ns.sf
             /\ \A r \in Slot \ {s} : m.trans[r] = ns.trans[r]
             /\ m.trans[s] = [ns.trans[s] EXCEPT !.cb = c]
<1> DEFINE t == [ns.trans[s] EXCEPT !.cb = c]
           m == [ns EXCEPT !.trans[s] = t]
<1>1. ns.trans[s] \in Trans /\ ns \in NodeState
  BY DEF NodeInv, NodeState
<1>2. /\ t \in Trans /\ t.state = ns.trans[s].state /\ t.peer = ns.trans[s].peer
      /\ t.timer = ns.trans[s].timer /\ t.cmd = ns.trans[s].cmd
  BY <1>1 DEF Trans
<1>3. Fits(ns, s, t)
  BY <1>2 DEF NodeInv, Fits, Listed, OneTransPerPeerAt, TimerArmedAt, ClearKeepsZeroAt
<1>4. NodeInv(m)
  BY <1>3, SetTrans
<1> QED
  BY <1>1, <1>4 DEF NodeState

LEMMA FreeInv ==
  ASSUME NEW ns, NodeInv(ns), NEW s \in Slot, ns.trans[s].state = "TERMINATING"
  PROVE  NodeInv(Free(ns, s))
<1>1. Free(ns, s) = [ns EXCEPT !.trans[s] = FreeTrans]
  BY DEF Free, Sending
<1> QED
  BY <1>1, SetFree

LEMMA ProcessTransInv ==
  ASSUME NEW ns, NodeInv(ns), NEW s \in Slot, Listed(ns.trans[s])
  PROVE  NodeInv(ProcessTrans(ns, s))
<1> DEFINE t == ns.trans[s]
           u == [t EXCEPT !.timer = "timeout"]
<1>1. CASE t.state = "TERMINATING"
  BY <1>1, FreeInv DEF ProcessTrans
<1>2. CASE t.state # "TERMINATING" /\ Complete(t)
  <2>1. NodeInv(Transit(ns, s, "TERMINATING"))
    BY TransitInv DEF TransState
  <2> QED
    BY <1>2, <2>1 DEF ProcessTrans
<1>3. CASE t.state # "TERMINATING" /\ ~Complete(t)
  <2>1. t \in Trans
    BY DEF NodeInv, NodeState
  <2>2. /\ u \in Trans /\ u.state = t.state /\ u.peer = t.peer
        /\ u.timer = "timeout" /\ u.cmd = t.cmd
    BY <2>1 DEF Trans
  <2>3. Fits(ns, s, u)
    BY <2>2 DEF NodeInv, Fits, Listed, OneTransPerPeerAt, ClearKeepsZeroAt
  <2> QED
    BY <1>3, <2>3, SetTrans DEF ProcessTrans
<1> QED
  BY <1>1, <1>2, <1>3

(* mac_callback() keeps the invariant on whatever block it is given, also  *)
(* one that was freed or given to another transaction in the meantime.     *)
LEMMA MacCallbackInv ==
  ASSUME NEW ns, NodeInv(ns), NEW s \in Slot, NEW ok \in BOOLEAN
  PROVE  NodeInv(MacCallback(ns, s, ok))
<1> DEFINE t == ns.trans[s]
           new == StateAfterMac(t, ok)
<1>0. t.state \in TransState
  BY DEF NodeInv, NodeState, Trans
<1>1. CASE t.state = "WAIT_FREE"
  BY <1>1, SetFree DEF MacCallback
<1>2. CASE t.state # "WAIT_FREE" /\ new = t.state
  BY <1>2, SetCallback DEF MacCallback, ClearCallback
<1>3. CASE t.state # "WAIT_FREE" /\ new # t.state
  <2>1. /\ Listed(t) /\ new # "REQUEST_RECEIVED"
        /\ new \in TransState \ {"UNAVAILABLE", "WAIT_FREE"}
    BY <1>0, <1>3 DEF StateAfterMac, Listed, TransState
  <2>2. NodeInv(Transit(ns, s, new)) /\ NodeInv(Transit(ns, s, "TERMINATING"))
    BY <2>1, TransitInv DEF TransState
  <2>3. NodeInv(ClearCallback(Transit(ns, s, new), s))
    BY <2>2, SetCallback DEF ClearCallback
  <2> QED
    BY <1>3, <2>2, <2>3 DEF MacCallback
<1> QED
  BY <1>1, <1>2, <1>3

(* ns and m differ in queues and sent-callbacks only. *)
SameTrans(ns, m) ==
  /\ m.nbr = ns.nbr /\ m.sf = ns.sf
  /\ \A r \in Slot : /\ m.trans[r].state = ns.trans[r].state
                     /\ m.trans[r].peer = ns.trans[r].peer
                     /\ m.trans[r].cmd = ns.trans[r].cmd

(* Handing a frame to TSCH before the transaction is in a sending state. *)
LEMMA SixtopOutputInv ==
  ASSUME NEW ns, NodeInv(ns), NEW p \in Node, NEW pkt \in Packet, NEW res,
         \/ pkt.ptr = NoSlot
         \/ ns.trans[pkt.ptr].state \in {"INIT", "REQUEST_RECEIVED", "RESPONSE_RECEIVED"}
  PROVE  LET m == SixtopOutput(ns, p, pkt, res)
         IN  NodeInv(m) /\ SameTrans(ns, m)
<1> DEFINE m == SixtopOutput(ns, p, pkt, res)
<1>0. /\ ns \in NodeState /\ ns.queue[p] \in Seq(Packet)
      /\ pkt.ptr \in Slot \cup {NoSlot}
  BY DEF NodeInv, NodeState, Packet
<1>1. CASE res = "queued"
  <2>1. Append(ns.queue[p], pkt) \in Seq(Packet)
    BY <1>0
  <2>2. m = [ns EXCEPT !.queue[p] = Append(ns.queue[p], pkt)]
    BY <1>1 DEF SixtopOutput
  <2>3. m.nbr = ns.nbr /\ m.sf = ns.sf /\ m.trans = ns.trans
    BY <1>0, <2>2 DEF NodeState
  <2>4. NodeInv([ns EXCEPT !.queue[p] = Append(ns.queue[p], pkt)])
    BY <2>1, SetQueue
  <2>5. SameTrans(ns, m)
    BY <2>3 DEF SameTrans
  <2> QED
    BY <2>2, <2>4, <2>5
<1>2. CASE res # "queued" /\ (pkt.ptr = NoSlot \/ res = "dropped")
  BY <1>2 DEF SixtopOutput, SameTrans
<1>3. CASE res # "queued" /\ ~(pkt.ptr = NoSlot \/ res = "dropped")
  <2> DEFINE s == pkt.ptr
  <2>1. s \in Slot
    BY <1>0, <1>3
  <2>2. m = [ns EXCEPT !.trans[s].cb = "NONE"]
    BY <1>3 DEF SixtopOutput, MacCallback, StateAfterMac, ClearCallback
  <2>3. ns.trans[s] \in Trans
    BY <1>0, <2>1 DEF NodeState
  <2>4. /\ [ns.trans[s] EXCEPT !.cb = "NONE"].state = ns.trans[s].state
        /\ [ns.trans[s] EXCEPT !.cb = "NONE"].peer = ns.trans[s].peer
        /\ [ns.trans[s] EXCEPT !.cb = "NONE"].cmd = ns.trans[s].cmd
    BY <2>3 DEF Trans
  <2>5. /\ NodeInv(m) /\ m.nbr = ns.nbr /\ m.sf = ns.sf
        /\ \A r \in Slot \ {s} : m.trans[r] = ns.trans[r]
        /\ m.trans[s] = [ns.trans[s] EXCEPT !.cb = "NONE"]
    BY <2>1, <2>2, SetCallback
  <2> QED
    BY <2>4, <2>5 DEF SameTrans
<1> QED
  BY <1>1, <1>2, <1>3

(* What sixp_trans_find() returns. *)
LEMMA FindTrans ==
  ASSUME NEW ns, NEW p, HasTrans(ns, p)
  PROVE  /\ Find(ns, p) \in Slot
         /\ Listed(ns.trans[Find(ns, p)])
         /\ ns.trans[Find(ns, p)].peer = p
BY DEF HasTrans, Find, TransWith

(* sixp_trans_alloc() when it succeeds. *)
LEMMA AllocInv ==
  ASSUME NEW ns, NodeInv(ns), NEW p \in Node, NEW pkt \in Packet,
         pkt.code \in Cmd, CanAlloc(ns, p)
  PROVE  LET s == AllocSlot(ns)
             m == Alloc(ns, p, pkt)
         IN  /\ s \in Slot /\ NodeInv(m)
             /\ m.nbr = ns.nbr /\ m.queue = ns.queue
             /\ m.trans[s].state = "INIT" /\ m.trans[s].peer = p
             /\ m.trans[s].cmd = pkt.code
             /\ \A r \in Slot \ {s} : m.trans[r] = ns.trans[r]
<1> DEFINE s == AllocSlot(ns)
           m == Alloc(ns, p, pkt)
           t == [state |-> "INIT", peer |-> p, seqno |-> pkt.seqno, cmd |-> pkt.code,
                 mode |-> DetermineMode(pkt.code, pkt.body), cb |-> "NONE",
                 timer |-> "timeout", req |-> pkt.req]
<1>1. s \in Slot
  BY DEF AllocSlot, CanAlloc, FreeSlots
<1>2. t \in Trans
  BY DEF Trans, Packet, TransState, DetermineMode
<1>3. \A r \in Slot : Listed(ns.trans[r]) => ns.trans[r].peer # p
  BY DEF CanAlloc, HasTrans, TransWith
<1>4. Fits(ns, s, t)
  BY <1>2, <1>3 DEF Fits, Listed
<1>5. m = [ns EXCEPT !.trans[s] = t]
  BY DEF Alloc
<1>6. NodeInv(m)
  BY <1>1, <1>4, <1>5, SetTrans
<1>7. /\ m.nbr = ns.nbr /\ m.queue = ns.queue /\ m.trans[s] = t
      /\ \A r \in Slot \ {s} : m.trans[r] = ns.trans[r]
  BY <1>1, <1>5 DEF NodeInv, NodeState
<1> QED
  BY <1>1, <1>6, <1>7

LEMMA WithNbrInv ==
  ASSUME NEW ns, NodeInv(ns), NEW p \in Node
  PROVE  LET m == WithNbr(ns, p)
         IN  /\ NodeInv(m) /\ m.nbr[p] \in 0..MaxSeqno
             /\ m.trans = ns.trans /\ m.queue = ns.queue /\ m.sf = ns.sf
<1> DEFINE m == WithNbr(ns, p)
<1>1. CASE ns.nbr[p] = NoNbr
  <2>1. NodeInv([ns EXCEPT !.nbr[p] = 0])
    BY SeqnoAssumption, SetNbr
  <2>2. m = [ns EXCEPT !.nbr[p] = 0]
    BY <1>1 DEF WithNbr
  <2>3. /\ m.nbr[p] = 0 /\ m.trans = ns.trans /\ m.queue = ns.queue
        /\ m.sf = ns.sf
    BY <2>2 DEF NodeInv, NodeState
  <2>4. m.nbr[p] \in 0..MaxSeqno
    BY <2>3, SeqnoAssumption
  <2> QED
    BY <2>1, <2>2, <2>3, <2>4
<1>2. CASE ns.nbr[p] # NoNbr
  BY <1>2 DEF WithNbr, NodeInv, NodeState
<1> QED
  BY <1>1, <1>2

LEMMA OutputErrorInv ==
  ASSUME NEW ns, NodeInv(ns), NEW p \in Node, NEW rc \in ReturnCode,
         NEW pkt \in Packet, NEW res
  PROVE  NodeInv(OutputError(ns, p, rc, pkt, res))
<1> DEFINE e == MkPacket("RESPONSE", rc, pkt.seqno, EmptyBody, NoSlot, pkt.req)
<1>1. e \in Packet /\ e.ptr = NoSlot
  BY BodyAssumption DEF MkPacket, Packet, PktType
<1> QED
  BY <1>1, SixtopOutputInv DEF OutputError

(* sixp_output() for a response or a confirmation. *)
LEMMA OutputReplyInv ==
  ASSUME NEW ns, NodeInv(ns), NEW p \in Node,
         NEW type \in {"RESPONSE", "CONFIRMATION"}, NEW rc \in ReturnCode,
         NEW body \in Body, NEW cb \in Cmd \cup {"NONE"}, NEW res
  PROVE  NodeInv(OutputReply(ns, p, type, rc, body, cb, res))
<1> DEFINE s == Find(ns, p)
           t == ns.trans[s]
           n1 == IF type = "RESPONSE" /\ t.cmd # "CLEAR" THEN WithNbr(ns, p) ELSE ns
           n2 == [n1 EXCEPT !.trans[s].cb = cb]
           pkt == MkPacket(type, rc, t.seqno, body, s, t.req)
           n3 == SixtopOutput(n2, p, pkt, res)
           from == IF type = "RESPONSE" THEN "REQUEST_RECEIVED" ELSE "RESPONSE_RECEIVED"
           to == IF type = "RESPONSE" THEN "RESPONSE_SENDING" ELSE "CONFIRMATION_SENDING"
<1>1. CASE ~HasTrans(ns, p) \/ t.state # from
  BY <1>1 DEF OutputReply
<1>2. CASE HasTrans(ns, p) /\ t.state = from
  <2>1. s \in Slot /\ t \in Trans
    BY <1>2, FindTrans DEF NodeInv, NodeState
  <2>2. NodeInv(n1) /\ n1.trans = ns.trans
    BY WithNbrInv
  <2>3. NodeInv(n2) /\ n2.trans[s] = [t EXCEPT !.cb = cb]
    BY <2>1, <2>2, SetCallback
  <2>4. n2.trans[s].state = from
    BY <1>2, <2>1, <2>3 DEF Trans
  <2>5. pkt \in Packet /\ pkt.ptr = s
    BY <2>1 DEF MkPacket, Packet, PktType, Trans
  <2>6. NodeInv(n3) /\ n3.trans[s].state = from
    <3> HIDE DEF n2, pkt, s
    <3>1. NodeInv(n3) /\ SameTrans(n2, n3)
      BY <2>3, <2>4, <2>5, SixtopOutputInv
    <3> QED
      BY <2>1, <2>4, <3>1 DEF SameTrans
  <2>7. Listed(n3.trans[s]) /\ to \in TransState \ {"UNAVAILABLE", "WAIT_FREE"}
    BY <2>6 DEF Listed, TransState
  <2>8. NodeInv(Transit(n3, s, to))
    BY <2>1, <2>6, <2>7, TransitInv
  <2> QED
    BY <1>2, <2>6, <2>8 DEF OutputReply
<1> QED
  BY <1>1, <1>2

LEMMA OutputSeqnumErrorInv ==
  ASSUME NEW ns, NodeInv(ns), NEW p \in Node, NEW pkt \in Packet, NEW res
  PROVE  NodeInv(OutputSeqnumError(ns, p, pkt, res))
BY OutputErrorInv, OutputReplyInv, BodyAssumption
   DEF OutputSeqnumError, ReturnCode

(* sixp_output() for a request. *)
LEMMA OutputRequestInv ==
  ASSUME NEW ns, NodeInv(ns), NEW p \in Node, NEW cmd \in Cmd, NEW body \in Body,
         NEW cb \in Cmd \cup {"NONE"}, NEW req \in Nat, NEW res
  PROVE  NodeInv(OutputRequest(ns, p, cmd, body, cb, req, res))
<1> DEFINE n1 == WithNbr(ns, p)
           s == AllocSlot(n1)
           pkt == MkPacket("REQUEST", cmd, n1.nbr[p], body, s, req)
           na == Alloc(n1, p, pkt)
           n2 == [na EXCEPT !.trans[s].cb = cb]
           n3 == SixtopOutput(n2, p, pkt, res)
           n4 == [n3 EXCEPT !.nbr[p] = SeqnoAfterRequest(cmd, @)]
<1>1. NodeInv(n1) /\ n1.nbr[p] \in 0..MaxSeqno
  BY WithNbrInv
<1>2. CASE HasTrans(ns, p)
  BY <1>2 DEF OutputRequest
<1>3. CASE ~HasTrans(ns, p) /\ ~CanAlloc(n1, p)
  BY <1>1, <1>3 DEF OutputRequest
<1>4. CASE ~HasTrans(ns, p) /\ CanAlloc(n1, p)
  <2>1. s \in Slot
    BY <1>4 DEF AllocSlot, CanAlloc, FreeSlots
  <2>2. pkt \in Packet /\ pkt.ptr = s /\ pkt.code = cmd
    BY <1>1, <2>1 DEF MkPacket, Packet, PktType
  <2>3. \A r \in Slot : Listed(n1.trans[r]) => n1.trans[r].peer # p
    BY <1>4 DEF CanAlloc, HasTrans, TransWith
  <2> HIDE DEF pkt, n1
  <2>4. /\ NodeInv(na)
        /\ na.trans[s].state = "INIT" /\ na.trans[s].peer = p
        /\ \A r \in Slot \ {s} : na.trans[r] = n1.trans[r]
    BY <1>1, <1>4, <2>2, AllocInv
  <2> HIDE DEF na, s
  <2>5. /\ NodeInv(n2) /\ n2.trans[s] = [na.trans[s] EXCEPT !.cb = cb]
        /\ \A r \in Slot \ {s} : n2.trans[r] = na.trans[r]
    BY <2>1, <2>4, SetCallback
  <2>6. na.trans[s] \in Trans
    BY <2>1, <2>4 DEF NodeInv, NodeState
  <2>7. n2.trans[s].state = "INIT"
    BY <2>4, <2>5, <2>6 DEF Trans
  <2> HIDE DEF n2
  <2>8. NodeInv(n3) /\ SameTrans(n2, n3)
    BY <2>2, <2>5, <2>7, SixtopOutputInv
  <2>9. n3.trans[s].state = "INIT"
    BY <2>1, <2>7, <2>8 DEF SameTrans
  <2>10. NoClearFrom(n3, p)
    <3>1. \A r \in Slot \ {s} : Listed(n3.trans[r]) => n3.trans[r].peer # p
      BY <2>3, <2>4, <2>5, <2>8 DEF SameTrans, Listed
    <3> QED
      BY <2>1, <2>9, <3>1 DEF NoClearFrom, Listed
  <2>11. CASE res \in Failure
    <3>1. NodeInv([n3 EXCEPT !.trans[s] = FreeTrans])
      BY <2>1, <2>8, SetFree
    <3> QED
      BY <1>4, <2>11, <3>1 DEF OutputRequest, n1, n2, na, s, pkt
  <2>12. CASE res \notin Failure
    <3>1. n3.nbr[p] \in 0..MaxSeqno
      <4>1. na.nbr = n1.nbr
        BY <1>1, <1>4, <2>2, AllocInv DEF na
      <4>2. n2.nbr = na.nbr
        BY <2>1, <2>4, SetCallback DEF n2
      <4> QED
        BY <1>1, <2>8, <4>1, <4>2 DEF SameTrans
    <3>2. SeqnoAfterRequest(cmd, n3.nbr[p]) \in 0..MaxSeqno
      BY <3>1, NextSeqnoType, SeqnoAssumption DEF SeqnoAfterRequest
    <3>3. NodeInv(n4)
      BY <2>8, <2>10, <3>2, SetNbr
    <3>4. n4.trans[s].state = "INIT"
      BY <2>8, <2>9 DEF NodeInv, NodeState
    <3>5. NodeInv(Transit(n4, s, "REQUEST_SENDING"))
      BY <2>1, <3>3, <3>4, TransitInv DEF Listed, TransState
    <3> QED
      BY <1>4, <2>12, <3>5 DEF OutputRequest, n1, n2, na, s, pkt
  <2> QED
    BY <2>11, <2>12
<1> QED
  BY <1>2, <1>3, <1>4

LEMMA AfterClearInv ==
  ASSUME NEW ns, NodeInv(ns), NEW p \in Node, NEW pkt \in Packet
  PROVE  LET m == AfterClear(ns, p, pkt)
         IN  /\ NodeInv(m)
             /\ pkt.code = "CLEAR" => m.nbr[p] \in {NoNbr, 0}
<1>1. CASE pkt.code = "CLEAR" /\ ns.nbr[p] # NoNbr
  <2>1. NodeInv([ns EXCEPT !.nbr[p] = 0])
    BY SeqnoAssumption, SetNbr
  <2>2. [ns EXCEPT !.nbr[p] = 0].nbr[p] = 0
    BY DEF NodeInv, NodeState
  <2> QED
    BY <1>1, <2>1, <2>2 DEF AfterClear
<1>2. CASE ~(pkt.code = "CLEAR" /\ ns.nbr[p] # NoNbr)
  BY <1>2 DEF AfterClear
<1> QED
  BY <1>1, <1>2

(* The request part of sixp_input(). *)
LEMMA InputRequestInv ==
  ASSUME NEW ns, NodeInv(ns), NEW p \in Node, NEW pkt \in Packet,
         pkt.code \in Cmd, NEW res
  PROVE  NodeInv(InputRequest(ns, p, pkt, res))
<1> DEFINE n1 == AfterClear(ns, p, pkt)
           s == AllocSlot(n1)
           na == Alloc(n1, p, pkt)
           n2 == Transit(na, s, "REQUEST_RECEIVED")
<1>1. NodeInv(n1) /\ (pkt.code = "CLEAR" => n1.nbr[p] \in {NoNbr, 0})
  BY AfterClearInv
<1>2. CASE HasTrans(ns, p)
  <2>1. /\ NodeInv(OutputSeqnumError(ns, p, pkt, res))
        /\ NodeInv(OutputError(ns, p, "ERR_BUSY", pkt, res))
    BY OutputSeqnumErrorInv, OutputErrorInv DEF ReturnCode
  <2> QED
    BY <1>2, <2>1 DEF InputRequest
<1>3. CASE ~HasTrans(ns, p) /\ ~CanAlloc(n1, p)
  <2>1. NodeInv(OutputError(n1, p, "ERR_BUSY", pkt, res))
    BY <1>1, OutputErrorInv DEF ReturnCode
  <2> QED
    BY <1>3, <2>1 DEF InputRequest
<1>4. CASE ~HasTrans(ns, p) /\ CanAlloc(n1, p)
  <2> HIDE DEF n1
  <2>1. /\ s \in Slot /\ NodeInv(na) /\ na.nbr = n1.nbr
        /\ na.trans[s].state = "INIT" /\ na.trans[s].peer = p
        /\ na.trans[s].cmd = pkt.code
    BY <1>1, <1>4, AllocInv
  <2>2. NodeInv(n2)
    <3> HIDE DEF s, na
    <3> QED
      BY <1>1, <2>1, TransitInv DEF Listed, TransState
  <2>3. NodeInv(OutputSeqnumError(n2, p, pkt, res))
    BY <2>2, OutputSeqnumErrorInv
  <2> QED
    BY <1>4, <2>2, <2>3 DEF InputRequest, n1
<1> QED
  BY <1>2, <1>3, <1>4

(* sixp_input() on a frame of any type. *)
LEMMA SixpInputInv ==
  ASSUME NEW ns, NodeInv(ns), NEW p \in Node, NEW pkt \in Packet, NEW res
  PROVE  NodeInv(SixpInput(ns, p, pkt, res))
<1>1. CASE ~ns.sf
  BY <1>1, OutputErrorInv DEF SixpInput, ReturnCode
<1>2. CASE ns.sf /\ pkt.type = "REQUEST"
  BY <1>2, InputRequestInv DEF SixpInput, Packet
<1>3. CASE ns.sf /\ pkt.type # "REQUEST" /\ ~Accepts(ns, p, pkt)
  BY <1>3 DEF SixpInput
<1>4. CASE ns.sf /\ pkt.type # "REQUEST" /\ Accepts(ns, p, pkt)
  <2>1. Find(ns, p) \in Slot /\ Listed(ns.trans[Find(ns, p)])
    BY <1>4, FindTrans DEF Accepts
  <2>2. NodeInv(Transit(ns, Find(ns, p), StateOnReply(pkt.type)))
    BY <2>1, TransitInv DEF StateOnReply, TransState
  <2> QED
    BY <1>4, <2>2 DEF SixpInput
<1> QED
  BY <1>1, <1>2, <1>3, <1>4

LEMMA BootInv == NodeInv(BootState)
<1>1. BootState \in NodeState
  BY FreeTransType DEF BootState, NodeState
<1>2. \A s \in Slot : BootState.trans[s] = FreeTrans
  BY DEF BootState
<1> QED
  BY <1>1, <1>2 DEF NodeInv, OneTransPerPeerAt, TimerArmedAt, ClearKeepsZeroAt,
                    Listed, FreeTrans

(* Marking the oldest packet of a queue as heard. *)
LEMMA HeardInv ==
  ASSUME NEW ns, NodeInv(ns), NEW p \in Node, ns.queue[p] # <<>>
  PROVE  NodeInv([ns EXCEPT !.queue[p][1].heard = TRUE])
<1> DEFINE q == ns.queue[p]
           h == [q[1] EXCEPT !.heard = TRUE]
           r == [q EXCEPT ![1] = h]
<1>1. q \in Seq(Packet) /\ q[1] \in Packet
  BY DEF NodeInv, NodeState
<1>2. h \in Packet
  BY <1>1 DEF Packet
<1>3. r \in Seq(Packet)
  BY <1>1, <1>2
<1>4. NodeInv([ns EXCEPT !.queue[p] = r])
  BY <1>3, SetQueue
<1>5. [ns EXCEPT !.queue[p][1].heard = TRUE] = [ns EXCEPT !.queue[p] = r]
  BY <1>1
<1> QED
  BY <1>4, <1>5

(* tsch_tx_process_pending() on the oldest packet to p. *)
LEMMA DoneWithInv ==
  ASSUME NEW ns, NodeInv(ns), NEW p \in Node, ns.queue[p] # <<>>,
         NEW ok \in BOOLEAN
  PROVE  NodeInv(DoneWith(ns, p, ok))
<1> DEFINE q == Head(ns.queue[p])
           n1 == [ns EXCEPT !.queue[p] = Tail(@)]
<1>1. ns.queue[p] \in Seq(Packet)
  BY DEF NodeInv, NodeState
<1>2. q \in Packet /\ Tail(ns.queue[p]) \in Seq(Packet)
  BY <1>1
<1>3. NodeInv(n1)
  BY <1>2, SetQueue
<1>4. q.ptr \in Slot \cup {NoSlot}
  BY <1>2 DEF Packet
<1>5. CASE q.ptr = NoSlot
  BY <1>3, <1>5 DEF DoneWith
<1>6. CASE q.ptr # NoSlot
  <2>1. NodeInv(MacCallback(n1, q.ptr, ok))
    <3> HIDE DEF n1, q
    <3> QED
      BY <1>3, <1>4, <1>6, MacCallbackInv
  <2> QED
    BY <1>6, <2>1 DEF DoneWith
<1> QED
  BY <1>5, <1>6

(* A step that changes one node, into a state that satisfies the node's    *)
(* invariant, keeps Inv.                                                   *)
LEMMA SetNode ==
  ASSUME Inv, NEW n \in Node, NEW m, NodeInv(m), node' = [node EXCEPT ![n] = m],
         rx' \in [Node -> Seq(Frame)], nreq' \in Nat, reboots' \in Nat
  PROVE  Inv'
<1>1. node' \in [Node -> NodeState] /\ \A k \in Node : NodeInv(node'[k])
  BY DEF Inv, TypeOK, NodeInv
<1>2. TypeOK'
  BY <1>1 DEF TypeOK
<1>3. (\A k \in Node : NodeInv(node[k]))'
  BY <1>1
<1> QED
  BY <1>2, <1>3 DEF Inv

(* Emptying a queue. *)
LEMMA FlushInv ==
  ASSUME NEW ns, NodeInv(ns), NEW p \in Node, NEW mode
  PROVE  NodeInv(Flush(ns, p, mode))
<1> DEFINE m == Flush(ns, p, mode)
<1>0. CASE mode = "none"
  BY <1>0 DEF Flush
<1> SUFFICES ASSUME mode # "none" PROVE NodeInv(m)
  BY <1>0
<1>1. \A t \in Trans :
        /\ FlushedTrans(t) \in Trans
        /\ Listed(FlushedTrans(t)) => Listed(t)
        /\ FlushedTrans(t).state # "UNAVAILABLE" =>
             t.state # "UNAVAILABLE" /\ FlushedTrans(t).peer = t.peer
        /\ (Listed(t) <=> t.timer # "none")
             => (Listed(FlushedTrans(t)) <=> FlushedTrans(t).timer # "none")
        /\ FlushedTrans(t).state \in {"REQUEST_RECEIVED", "RESPONSE_SENDING"} =>
             FlushedTrans(t).state = t.state /\ FlushedTrans(t).cmd = t.cmd
  <2> TAKE t \in Trans
  <2> DEFINE u == FlushedTrans(t)
  <2>1. CASE t.state = "WAIT_FREE"
    <3>1. u = FreeTrans
      BY <2>1 DEF FlushedTrans
    <3> QED
      BY <3>1, FreeTransType DEF Listed, FreeTrans
  <2>2. CASE t.state = "REQUEST_SENDING"
    <3>1. u = [t EXCEPT !.state = "TERMINATING", !.timer = "process", !.cb = "NONE"]
      BY <2>2 DEF FlushedTrans
    <3>2. /\ u \in Trans /\ u.state = "TERMINATING" /\ u.timer = "process"
          /\ u.peer = t.peer
      BY <3>1 DEF Trans, TransState
    <3> QED
      BY <2>2, <3>2 DEF Listed
  <2>3. CASE t.state \notin {"WAIT_FREE", "REQUEST_SENDING"}
    <3>1. u = [t EXCEPT !.cb = "NONE"]
      BY <2>3 DEF FlushedTrans
    <3>2. /\ u \in Trans /\ u.state = t.state /\ u.timer = t.timer
          /\ u.peer = t.peer /\ u.cmd = t.cmd
      BY <3>1 DEF Trans
    <3> QED
      BY <3>2 DEF Listed
  <2> QED
    BY <2>1, <2>2, <2>3
<1>3. \A s \in Slot : ns.trans[s] \in Trans
  BY DEF NodeInv, NodeState
<1> DEFINE q == ns.queue[p]
           keep == KeptHead(q, mode)
           ptrs == {q[i].ptr : i \in (IF keep THEN 2 ELSE 1)..Len(q)}
           tr == [s \in Slot |-> IF s \in ptrs THEN FlushedTrans(ns.trans[s])
                                               ELSE ns.trans[s]]
           rest == IF keep THEN <<Head(q)>> ELSE <<>>
           qu == [ns.queue EXCEPT ![p] = rest]
<1>a. tr \in [Slot -> Trans]
  <2> HIDE DEF ptrs
  <2> QED
    BY <1>1, <1>3
<1>b. qu \in [Node -> Seq(Packet)]
  <2>1. q \in Seq(Packet) /\ ns.queue \in [Node -> Seq(Packet)]
    BY DEF NodeInv, NodeState
  <2>2. keep => Head(q) \in Packet
    BY <2>1 DEF KeptHead
  <2>3. rest \in Seq(Packet)
    <3> HIDE DEF keep
    <3> QED
      BY <2>2
  <2> HIDE DEF rest
  <2> QED
    BY <2>1, <2>3
<1>c. m = [ns EXCEPT !.queue = qu, !.trans = tr]
  BY DEF Flush, NodeInv, NodeState
<1> HIDE DEF ptrs, keep, q, rest
<1>2. \A s \in Slot : \/ m.trans[s] = ns.trans[s]
                     \/ m.trans[s] = FlushedTrans(ns.trans[s])
  <2>1. m.trans = tr
    <3> HIDE DEF tr, qu, m
    <3> QED
      BY <1>c DEF NodeInv, NodeState
  <2> HIDE DEF m
  <2> QED
    BY <2>1
<1> HIDE DEF tr, qu, m
<1>4. m \in NodeState /\ m.nbr = ns.nbr
  BY <1>a, <1>b, <1>c DEF NodeInv, NodeState
<1>5. \A s \in Slot : m.trans[s].state # "UNAVAILABLE" => m.trans[s].peer \in Node
  BY <1>1, <1>2, <1>3 DEF NodeInv
<1>6. OneTransPerPeerAt(m)
  <2>1. \A s \in Slot : Listed(m.trans[s]) =>
          Listed(ns.trans[s]) /\ m.trans[s].peer = ns.trans[s].peer
    BY <1>1, <1>2, <1>3 DEF Listed
  <2> QED
    BY <2>1 DEF NodeInv, OneTransPerPeerAt
<1>7. TimerArmedAt(m)
  BY <1>1, <1>2, <1>3 DEF NodeInv, TimerArmedAt
<1>8. ClearKeepsZeroAt(m)
  BY <1>1, <1>2, <1>3, <1>4 DEF NodeInv, ClearKeepsZeroAt
<1> QED
  BY <1>4, <1>5, <1>6, <1>7, <1>8 DEF NodeInv, m

(* Processing a received frame, the scheduling function's answer included. *)
LEMMA HandleFrameInv ==
  ASSUME NEW ns, NodeInv(ns), NEW f \in Frame, NEW answer, NEW body \in Body,
         NEW cb \in Cmd \cup {"NONE"}, NEW res
  PROVE  NodeInv(HandleFrame(ns, f, answer, body, cb, res))
<1> DEFINE m == SixpInput(ns, f.src, f.pkt, res)
           type == IF f.pkt.type = "REQUEST" THEN "RESPONSE" ELSE "CONFIRMATION"
<1>1. f.src \in Node /\ f.pkt \in Packet
  BY DEF Frame
<1>2. NodeInv(m)
  BY <1>1, SixpInputInv
<1> HIDE DEF m
<1>3. NodeInv(OutputReply(m, f.src, type, "SUCCESS", body, cb, res))
  BY <1>1, <1>2, OutputReplyInv DEF ReturnCode
<1> QED
  BY <1>2, <1>3 DEF HandleFrame, m

LEMMA InputInv ==
  ASSUME Inv, NEW n \in Node, NEW answer, NEW body \in Body,
         NEW cb \in Cmd \cup {"NONE"}, NEW res, Input(n, answer, body, cb, res)
  PROVE  Inv'
<1> DEFINE m == HandleFrame(node[n], Head(rx[n]), answer, body, cb, res)
<1>1. rx[n] \in Seq(Frame) /\ rx[n] # <<>>
  BY DEF Inv, TypeOK, Input
<1>2. Head(rx[n]) \in Frame /\ Tail(rx[n]) \in Seq(Frame)
  BY <1>1
<1>3. NodeInv(m)
  BY <1>2, HandleFrameInv DEF Inv
<1>4. node' = [node EXCEPT ![n] = m]
  BY DEF Input
<1>5. rx' \in [Node -> Seq(Frame)] /\ nreq' \in Nat /\ reboots' \in Nat
  BY <1>2 DEF Input, Inv, TypeOK
<1> HIDE DEF m
<1> QED
  BY <1>3, <1>4, <1>5, SetNode

(* Inv is inductive. *)
LEMMA InvInit == Init => Inv
<1> SUFFICES ASSUME Init PROVE Inv
  OBVIOUS
<1>1. \A n \in Node : NodeInv(node[n])
  BY BootInv DEF Init
<1>2. TypeOK
  BY <1>1, BootInv DEF Init, TypeOK, NodeInv
<1> QED
  BY <1>1, <1>2 DEF Inv

LEMMA InvStep == Inv /\ [Next]_vars => Inv'
<1> SUFFICES ASSUME Inv, [Next]_vars PROVE Inv'
  OBVIOUS
<1>0. /\ rx \in [Node -> Seq(Frame)] /\ nreq \in Nat /\ reboots \in Nat
      /\ node \in [Node -> NodeState] /\ \A n \in Node : NodeInv(node[n])
  BY DEF Inv, TypeOK
<1>1. CASE UNCHANGED vars
  BY <1>1 DEF vars, Inv, TypeOK
<1>2. ASSUME NEW n \in Node, AddSf(n) PROVE Inv'
  <2> DEFINE m == [node[n] EXCEPT !.sf = TRUE]
  <2>1. m \in NodeState /\ m.trans = node[n].trans /\ m.nbr = node[n].nbr
    BY <1>0 DEF NodeState
  <2>2. NodeInv(m)
    BY <1>0, <2>1 DEF NodeInv, OneTransPerPeerAt, TimerArmedAt, ClearKeepsZeroAt
  <2>3. node' = [node EXCEPT ![n] = m]
    BY <1>2 DEF AddSf
  <2> HIDE DEF m
  <2> QED
    BY <1>0, <1>2, <2>2, <2>3, SetNode DEF AddSf
<1>3. ASSUME NEW n \in Node, NEW p \in Node, NEW cmd \in Cmd, NEW body \in Body,
             NEW cb \in Cmd \cup {"NONE"}, NEW flush, NEW res,
             Request(n, p, cmd, body, cb, flush, res)
      PROVE  Inv'
  <2> DEFINE r == Flush(node[n], p, flush)
             m == OutputRequest(r, p, cmd, body, cb, nreq + 1, res)
  <2>1. nreq + 1 \in Nat
    BY <1>0
  <2>2. NodeInv(m)
    <3>1. NodeInv(r)
      BY <1>0, FlushInv
    <3> HIDE DEF r
    <3> QED
      BY <2>1, <3>1, OutputRequestInv
  <2>3. node' = [node EXCEPT ![n] = m]
    BY <1>3 DEF Request
  <2> HIDE DEF m
  <2> QED
    BY <1>0, <1>3, <2>1, <2>2, <2>3, SetNode DEF Request
<1>4. ASSUME NEW n \in Node, NEW p \in Node, Transmit(n, p) PROVE Inv'
  <2> DEFINE m == [node[n] EXCEPT !.queue[p][1].heard = TRUE]
             f == [src |-> n, pkt |-> Head(node[n].queue[p])]
  <2>1. node[n].queue[p] \in Seq(Packet) /\ node[n].queue[p] # <<>>
    BY <1>0, <1>4 DEF Transmit, NodeState
  <2>2. NodeInv(m)
    BY <1>0, <2>1, HeardInv
  <2>3. f \in Frame
    BY <2>1 DEF Frame
  <2>4. rx' \in [Node -> Seq(Frame)]
    BY <1>0, <1>4, <2>3 DEF Transmit
  <2>5. node' = [node EXCEPT ![n] = m]
    BY <1>4 DEF Transmit
  <2> HIDE DEF m
  <2> QED
    BY <1>0, <1>4, <2>2, <2>4, <2>5, SetNode DEF Transmit
<1>5. ASSUME NEW n \in Node, NEW p \in Node, NEW ok \in BOOLEAN, MacDone(n, p, ok)
      PROVE  Inv'
  <2>1. NodeInv(DoneWith(node[n], p, ok))
    BY <1>0, <1>5, DoneWithInv DEF MacDone
  <2> QED
    BY <1>0, <1>5, <2>1, SetNode DEF MacDone
<1>6. ASSUME NEW n \in Node, NEW s \in Slot, Timer(n, s) PROVE Inv'
  <2>1. Listed(node[n].trans[s])
    BY <1>0, <1>6 DEF Timer, NodeInv, TimerArmedAt
  <2>2. NodeInv(ProcessTrans(node[n], s))
    BY <1>0, <2>1, ProcessTransInv
  <2>3. NodeInv(HandleTransTimeout(node[n], s))
    BY <1>0, <2>1, TransitInv DEF HandleTransTimeout, TransState
  <2> QED
    BY <1>0, <1>6, <2>2, <2>3, SetNode DEF Timer
<1>7. ASSUME NEW n \in Node, Reboot(n) PROVE Inv'
  <2>1. rx' \in [Node -> Seq(Frame)] /\ reboots' \in Nat /\ nreq' \in Nat
    BY <1>0, <1>7 DEF Reboot
  <2> QED
    BY <1>7, <2>1, BootInv, SetNode DEF Reboot
<1> QED
  BY <1>1, <1>2, <1>3, <1>4, <1>5, <1>6, <1>7, InputInv, InitiatorAssumption,
     ReplyAssumption
     DEF Next

(* The type invariant of the 6P model, for every pool, queue and sequence  *)
(* number size and any faults of the MAC.                                  *)
THEOREM TypeCorrect == Spec => []TypeOK
<1>1. Inv => TypeOK
  BY DEF Inv
<1> QED
  BY <1>1, InvInit, InvStep, PTL DEF Spec

(* sixp_trans_find(): at most one transaction per peer is on the list.     *)
THEOREM OneTransaction == Spec => []OneTransPerPeer
<1>1. Inv => OneTransPerPeer
  BY DEF Inv, NodeInv, OneTransPerPeer
<1> QED
  BY <1>1, InvInit, InvStep, PTL DEF Spec

(* A block has a ctimer exactly while it is on the list: no transaction is *)
(* left without a timer, no timer fires on a freed block.                  *)
THEOREM TimersArmed == Spec => []TimerArmed
<1>1. Inv => TimerArmed
  BY DEF Inv, NodeInv, TimerArmed
<1> QED
  BY <1>1, InvInit, InvStep, PTL DEF Spec

(* The assertion of sixp_trans_transit_state() on a CLEAR never fails.     *)
THEOREM ClearAssertion == Spec => []ClearKeepsZero
<1>1. Inv => ClearKeepsZero
  BY DEF Inv, NodeInv, ClearKeepsZero
<1> QED
  BY <1>1, InvInit, InvStep, PTL DEF Spec
-----------------------------------------------------------------------------
(***************************************************************************)
(* What a step may not touch.  Local(ns, m, p): on the way from ns to m    *)
(* the listed transactions with others than p and the other peers'         *)
(* next_seqno stay, and p's does not go back to 0.                         *)
(***************************************************************************)
OthersKept(ns, m, p) ==
  /\ \A r \in Slot : Listed(ns.trans[r]) /\ ns.trans[r].peer # p
                       => m.trans[r] = ns.trans[r]
  /\ \A q \in Node \ {p} : m.nbr[q] = ns.nbr[q]

NotToZero(ns, m, p) == m.nbr[p] \in {NoNbr, 0} => ns.nbr[p] \in {NoNbr, 0}

Local(ns, m, p) == OthersKept(ns, m, p) /\ NotToZero(ns, m, p)

(* Both relations compose. *)
LEMMA LocalTrans ==
  ASSUME NEW ns, NEW m, NEW k, NEW p
  PROVE  /\ OthersKept(ns, m, p) /\ OthersKept(m, k, p) => OthersKept(ns, k, p)
         /\ Local(ns, m, p) /\ Local(m, k, p) => Local(ns, k, p)
BY DEF Local, OthersKept, NotToZero

LEMMA TransitLocal ==
  ASSUME NEW ns, NodeInv(ns), NEW s \in Slot, Listed(ns.trans[s]), NEW new
  PROVE  Local(ns, Transit(ns, s, new), ns.trans[s].peer)
<1> DEFINE t == ns.trans[s]
           u == [t EXCEPT !.state = new, !.timer = "process"]
           m == [ns EXCEPT !.nbr = NbrAfter(ns, t, new), !.trans[s] = u]
<1>1. CASE ~Allowed(t, new)
  BY <1>1 DEF Transit, Local, OthersKept, NotToZero
<1>2. CASE Allowed(t, new)
  <2>1. Transit(ns, s, new) = m
    BY <1>2 DEF Transit
  <2>2. t.peer \in Node /\ t.seqno \in 0..MaxSeqno /\ ns.nbr \in [Node -> 0..MaxSeqno \cup {NoNbr}]
    BY DEF NodeInv, NodeState, Listed, Trans
  <2>3. /\ \A q \in Node \ {t.peer} : NbrAfter(ns, t, new)[q] = ns.nbr[q]
        /\ NbrAfter(ns, t, new)[t.peer] \in {NoNbr, 0} => ns.nbr[t.peer] \in {NoNbr, 0}
    BY <2>2, NextSeqnoType DEF NbrAfter, NoNbr
  <2>4. /\ m.nbr = NbrAfter(ns, t, new)
        /\ \A r \in Slot \ {s} : m.trans[r] = ns.trans[r]
    BY DEF NodeInv, NodeState
  <2> HIDE DEF m
  <2> QED
    BY <2>1, <2>3, <2>4 DEF Local, OthersKept, NotToZero
<1> QED
  BY <1>1, <1>2

(* Handing over a frame of no transaction, or of one with p. *)
LEMMA SixtopOutputLocal ==
  ASSUME NEW ns, NodeInv(ns), NEW q \in Node, NEW pkt \in Packet, NEW res, NEW p,
         \/ pkt.ptr = NoSlot
         \/ /\ ns.trans[pkt.ptr].state \in {"INIT", "REQUEST_RECEIVED", "RESPONSE_RECEIVED"}
            /\ ns.trans[pkt.ptr].peer = p
  PROVE  LET m == SixtopOutput(ns, q, pkt, res)
         IN  Local(ns, m, p) /\ m.nbr = ns.nbr
<1> DEFINE m == SixtopOutput(ns, q, pkt, res)
<1> SUFFICES Local(ns, m, p) /\ m.nbr = ns.nbr
  OBVIOUS
<1>0. m.nbr = ns.nbr
  BY SixtopOutputInv DEF SameTrans
<1>1. CASE res = "queued"
  <2>1. m.trans = ns.trans
    BY <1>1 DEF SixtopOutput, NodeInv, NodeState
  <2> QED
    BY <1>0, <2>1 DEF Local, OthersKept, NotToZero
<1>2. CASE res # "queued" /\ (pkt.ptr = NoSlot \/ res = "dropped")
  BY <1>2 DEF SixtopOutput, Local, OthersKept, NotToZero
<1>3. CASE res # "queued" /\ ~(pkt.ptr = NoSlot \/ res = "dropped")
  <2> DEFINE s == pkt.ptr
  <2>1. s \in Slot
    BY <1>3 DEF Packet
  <2>2. m = [ns EXCEPT !.trans[s].cb = "NONE"]
    BY <1>3 DEF SixtopOutput, MacCallback, StateAfterMac, ClearCallback
  <2>3. \A r \in Slot \ {s} : m.trans[r] = ns.trans[r]
    BY <2>1, <2>2, SetCallback
  <2> HIDE DEF m, s
  <2>4. ns.trans[s].peer = p
    BY <1>3 DEF s
  <2> QED
    BY <1>0, <2>3, <2>4 DEF Local, OthersKept, NotToZero
<1> QED
  BY <1>0, <1>1, <1>2, <1>3

LEMMA OutputErrorLocal ==
  ASSUME NEW ns, NodeInv(ns), NEW p \in Node, NEW rc \in ReturnCode,
         NEW pkt \in Packet, NEW res
  PROVE  Local(ns, OutputError(ns, p, rc, pkt, res), p)
<1> DEFINE e == MkPacket("RESPONSE", rc, pkt.seqno, EmptyBody, NoSlot, pkt.req)
<1>1. e \in Packet /\ e.ptr = NoSlot
  BY BodyAssumption DEF MkPacket, Packet, PktType
<1> HIDE DEF e
<1> QED
  BY <1>1, SixtopOutputLocal DEF OutputError, e

LEMMA OutputReplyLocal ==
  ASSUME NEW ns, NodeInv(ns), NEW p \in Node,
         NEW type \in {"RESPONSE", "CONFIRMATION"}, NEW rc \in ReturnCode,
         NEW body \in Body, NEW cb \in Cmd \cup {"NONE"}, NEW res
  PROVE  Local(ns, OutputReply(ns, p, type, rc, body, cb, res), p)
<1> DEFINE s == Find(ns, p)
           t == ns.trans[s]
           n1 == IF type = "RESPONSE" /\ t.cmd # "CLEAR" THEN WithNbr(ns, p) ELSE ns
           n2 == [n1 EXCEPT !.trans[s].cb = cb]
           pkt == MkPacket(type, rc, t.seqno, body, s, t.req)
           n3 == SixtopOutput(n2, p, pkt, res)
           from == IF type = "RESPONSE" THEN "REQUEST_RECEIVED" ELSE "RESPONSE_RECEIVED"
           to == IF type = "RESPONSE" THEN "RESPONSE_SENDING" ELSE "CONFIRMATION_SENDING"
<1>1. CASE ~HasTrans(ns, p) \/ t.state # from
  BY <1>1 DEF OutputReply, Local, OthersKept, NotToZero
<1>2. CASE HasTrans(ns, p) /\ t.state = from
  <2>1. s \in Slot /\ t \in Trans /\ t.peer = p
    BY <1>2, FindTrans DEF NodeInv, NodeState
  <2>2. NodeInv(n1) /\ n1.trans = ns.trans /\ Local(ns, n1, p)
    <3>1. CASE n1 = ns
      BY <3>1 DEF Local, OthersKept, NotToZero
    <3>2. CASE n1 # ns
      <4>1. n1 = [ns EXCEPT !.nbr[p] = 0] /\ ns.nbr[p] = NoNbr
        BY <3>2 DEF WithNbr
      <4>2. n1.nbr = [ns.nbr EXCEPT ![p] = 0] /\ ns.nbr \in [Node -> 0..MaxSeqno \cup {NoNbr}]
        BY <4>1 DEF NodeInv, NodeState
      <4>3. NodeInv(n1) /\ n1.trans = ns.trans
        BY WithNbrInv
      <4> QED
        BY <4>1, <4>2, <4>3 DEF Local, OthersKept, NotToZero, NoNbr
    <3> QED
      BY <3>1, <3>2
  <2> HIDE DEF n1
  <2>3. /\ NodeInv(n2) /\ n2.trans[s] = [t EXCEPT !.cb = cb] /\ n2.nbr = n1.nbr
        /\ \A r \in Slot \ {s} : n2.trans[r] = n1.trans[r]
    BY <2>1, <2>2, SetCallback
  <2>4. n2.trans[s].state = from /\ n2.trans[s].peer = p
    BY <1>2, <2>1, <2>3 DEF Trans
  <2>5. pkt \in Packet /\ pkt.ptr = s
    BY <2>1 DEF MkPacket, Packet, PktType, Trans
  <2> HIDE DEF n2, pkt, s
  <2>6. Local(ns, n2, p)
    BY <2>1, <2>2, <2>3 DEF Local, OthersKept, NotToZero
  <2>7. NodeInv(n3) /\ SameTrans(n2, n3) /\ Local(n2, n3, p)
    <3>1. NodeInv(n3) /\ SameTrans(n2, n3)
      BY <2>3, <2>4, <2>5, SixtopOutputInv
    <3>2. Local(n2, n3, p)
      BY <2>3, <2>4, <2>5, SixtopOutputLocal
    <3> QED
      BY <3>1, <3>2
  <2> HIDE DEF n3
  <2>8. n3.trans[s].state = from /\ n3.trans[s].peer = p
    BY <2>1, <2>4, <2>7 DEF SameTrans
  <2>9. Local(n3, Transit(n3, s, to), p)
    BY <2>1, <2>7, <2>8, TransitLocal DEF Listed
  <2>10. Local(ns, n3, p)
    BY <2>6, <2>7, LocalTrans
  <2>11. Local(ns, Transit(n3, s, to), p)
    BY <2>9, <2>10, LocalTrans
  <2> QED
    BY <1>2, <2>10, <2>11 DEF OutputReply, n1, n2, n3, pkt, s
<1> QED
  BY <1>1, <1>2

LEMMA OutputSeqnumErrorLocal ==
  ASSUME NEW ns, NodeInv(ns), NEW p \in Node, NEW pkt \in Packet, NEW res
  PROVE  Local(ns, OutputSeqnumError(ns, p, pkt, res), p)
BY OutputErrorLocal, OutputReplyLocal, BodyAssumption
   DEF OutputSeqnumError, ReturnCode

(* A received request: next_seqno of the sender goes back to 0 only for a  *)
(* CLEAR.                                                                  *)
LEMMA InputRequestLocal ==
  ASSUME NEW ns, NodeInv(ns), NEW p \in Node, NEW pkt \in Packet,
         pkt.code \in Cmd, NEW res
  PROVE  LET m == InputRequest(ns, p, pkt, res)
         IN  OthersKept(ns, m, p) /\ (NotToZero(ns, m, p) \/ pkt.code = "CLEAR")
<1> DEFINE n1 == AfterClear(ns, p, pkt)
           s == AllocSlot(n1)
           na == Alloc(n1, p, pkt)
           n2 == Transit(na, s, "REQUEST_RECEIVED")
           m == InputRequest(ns, p, pkt, res)
<1>1. /\ NodeInv(n1) /\ OthersKept(ns, n1, p)
      /\ n1 = ns \/ pkt.code = "CLEAR"
  <2>1. NodeInv(n1) /\ (n1 = ns \/ pkt.code = "CLEAR")
    BY AfterClearInv DEF AfterClear
  <2>2. CASE n1 = ns
    BY <2>1, <2>2 DEF OthersKept
  <2>3. CASE n1 # ns
    <3>1. n1 = [ns EXCEPT !.nbr[p] = 0]
      BY <2>3 DEF AfterClear
    <3>2. n1.nbr = [ns.nbr EXCEPT ![p] = 0] /\ n1.trans = ns.trans
          /\ ns.nbr \in [Node -> 0..MaxSeqno \cup {NoNbr}]
      BY <3>1 DEF NodeInv, NodeState
    <3> QED
      BY <2>1, <3>2 DEF OthersKept
  <2> QED
    BY <2>1, <2>2, <2>3
<1>2. ASSUME NEW k, Local(n1, k, p), m = k
      PROVE  OthersKept(ns, m, p) /\ (NotToZero(ns, m, p) \/ pkt.code = "CLEAR")
  BY <1>1, <1>2, LocalTrans DEF Local
<1>3. CASE HasTrans(ns, p)
  <2>1. /\ Local(ns, OutputSeqnumError(ns, p, pkt, res), p)
        /\ Local(ns, OutputError(ns, p, "ERR_BUSY", pkt, res), p)
    BY OutputSeqnumErrorLocal, OutputErrorLocal DEF ReturnCode
  <2> QED
    BY <1>3, <2>1 DEF InputRequest, Local
<1>4. CASE ~HasTrans(ns, p) /\ ~CanAlloc(n1, p)
  <2>1. Local(n1, OutputError(n1, p, "ERR_BUSY", pkt, res), p)
    BY <1>1, OutputErrorLocal DEF ReturnCode
  <2>2. m = OutputError(n1, p, "ERR_BUSY", pkt, res)
    BY <1>4 DEF InputRequest
  <2> QED
    BY <1>2, <2>1, <2>2
<1>5. CASE ~HasTrans(ns, p) /\ CanAlloc(n1, p)
  <2>0. s \in FreeSlots(n1)
    BY <1>5 DEF CanAlloc, AllocSlot, FreeSlots
  <2> HIDE DEF n1
  <2>1. /\ s \in Slot /\ NodeInv(na) /\ na.nbr = n1.nbr
        /\ na.trans[s].state = "INIT" /\ na.trans[s].peer = p
        /\ na.trans[s].cmd = pkt.code
        /\ \A r \in Slot \ {s} : na.trans[r] = n1.trans[r]
    BY <1>1, <1>5, AllocInv
  <2>2. Local(n1, na, p)
    <3> HIDE DEF na, s
    <3> QED
      BY <2>0, <2>1 DEF Local, OthersKept, NotToZero, FreeSlots, Listed
  <2>2a. pkt.code = "CLEAR" => na.nbr[p] \in {NoNbr, 0}
    BY <2>1, AfterClearInv DEF n1
  <2>3. NodeInv(n2) /\ Local(na, n2, p)
    <3> HIDE DEF s, na
    <3> QED
      BY <2>1, <2>2a, TransitInv, TransitLocal DEF Listed, TransState
  <2> HIDE DEF na, s, n2
  <2>5. Local(n1, n2, p)
    BY <2>2, <2>3, LocalTrans
  <2>6. Local(n2, OutputSeqnumError(n2, p, pkt, res), p)
    BY <2>3, OutputSeqnumErrorLocal
  <2>7. Local(n1, OutputSeqnumError(n2, p, pkt, res), p)
    BY <2>5, <2>6, LocalTrans
  <2>8. m \in {n2, OutputSeqnumError(n2, p, pkt, res)}
    BY <1>5 DEF InputRequest, n1, na, s, n2
  <2> QED
    BY <1>2, <2>5, <2>7, <2>8
<1> QED
  BY <1>3, <1>4, <1>5

LEMMA HandleFrameLocal ==
  ASSUME NEW ns, NodeInv(ns), NEW f \in Frame, NEW answer, NEW body \in Body,
         NEW cb \in Cmd \cup {"NONE"}, NEW res
  PROVE  LET m == HandleFrame(ns, f, answer, body, cb, res)
         IN  /\ OthersKept(ns, m, f.src)
             /\ NotToZero(ns, m, f.src) \/ f.pkt.code = "CLEAR"
<1> DEFINE p == f.src
           m == SixpInput(ns, p, f.pkt, res)
           type == IF f.pkt.type = "REQUEST" THEN "RESPONSE" ELSE "CONFIRMATION"
           k == OutputReply(m, p, type, "SUCCESS", body, cb, res)
<1>1. p \in Node /\ f.pkt \in Packet
  BY DEF Frame
<1>2. NodeInv(m)
  BY <1>1, SixpInputInv
<1>3. Local(m, k, p)
  <2> HIDE DEF m
  <2> QED
    BY <1>1, <1>2, OutputReplyLocal DEF ReturnCode
<1>4. OthersKept(ns, m, p) /\ (NotToZero(ns, m, p) \/ f.pkt.code = "CLEAR")
  <2>1. CASE ~ns.sf
    <3>1. m = OutputError(ns, p, "ERR_SFID", f.pkt, res)
      BY <2>1 DEF SixpInput
    <3>2. Local(ns, m, p)
      BY <1>1, <3>1, OutputErrorLocal DEF ReturnCode
    <3> QED
      BY <3>2 DEF Local
  <2>2. CASE ns.sf /\ f.pkt.type = "REQUEST"
    BY <1>1, <2>2, InputRequestLocal DEF SixpInput, Packet
  <2>3. CASE ns.sf /\ f.pkt.type # "REQUEST"
    <3>1. CASE m = ns
      BY <2>3, <3>1 DEF OthersKept, NotToZero
    <3>2. CASE m = Transit(ns, Find(ns, p), StateOnReply(f.pkt.type)) /\ HasTrans(ns, p)
      BY <2>3, <3>2, FindTrans, TransitLocal DEF Local
    <3> QED
      BY <2>3, <3>1, <3>2 DEF SixpInput, Accepts
  <2> QED
    BY <2>1, <2>2, <2>3
<1>5. HandleFrame(ns, f, answer, body, cb, res) \in {m, k}
  BY DEF HandleFrame
<1> HIDE DEF m, k
<1>6. OthersKept(ns, k, p) /\ (NotToZero(ns, k, p) \/ f.pkt.code = "CLEAR")
  BY <1>3, <1>4, LocalTrans DEF Local, NotToZero
<1> QED
  BY <1>4, <1>5, <1>6

(* No peer's next_seqno goes back to 0. *)
NoneToZero(ns, m) == \A q \in Node : NotToZero(ns, m, q)

LEMMA TransitZero ==
  ASSUME NEW ns, NodeInv(ns), NEW s \in Slot, Listed(ns.trans[s]), NEW new
  PROVE  NoneToZero(ns, Transit(ns, s, new))
BY TransitLocal DEF Local, OthersKept, NoneToZero, NotToZero

LEMMA MacCallbackZero ==
  ASSUME NEW ns, NodeInv(ns), NEW s \in Slot, NEW ok \in BOOLEAN
  PROVE  NoneToZero(ns, MacCallback(ns, s, ok))
<1> DEFINE t == ns.trans[s]
           new == StateAfterMac(t, ok)
<1>0. t.state \in TransState
  BY DEF NodeInv, NodeState, Trans
<1>1. CASE t.state = "WAIT_FREE"
  BY <1>1 DEF MacCallback, NoneToZero, NotToZero, NodeInv, NodeState
<1>2. CASE t.state # "WAIT_FREE" /\ new = t.state
  <2>1. MacCallback(ns, s, ok) = ClearCallback(ns, s)
    BY <1>2 DEF MacCallback
  <2>2. ClearCallback(ns, s).nbr = ns.nbr
    BY DEF ClearCallback, NodeInv, NodeState
  <2> QED
    BY <2>1, <2>2 DEF NoneToZero, NotToZero
<1>3. CASE t.state # "WAIT_FREE" /\ new # t.state
  <2>1. /\ Listed(t) /\ new # "REQUEST_RECEIVED"
        /\ new \in TransState \ {"UNAVAILABLE", "WAIT_FREE"}
    BY <1>0, <1>3 DEF StateAfterMac, Listed, TransState
  <2> HIDE DEF new
  <2>2. /\ NoneToZero(ns, Transit(ns, s, new))
        /\ NoneToZero(ns, Transit(ns, s, "TERMINATING"))
    BY <2>1, TransitZero
  <2>3. NodeInv(Transit(ns, s, new))
    BY <2>1, TransitInv
  <2>4. ClearCallback(Transit(ns, s, new), s).nbr = Transit(ns, s, new).nbr
    BY <2>3, SetCallback DEF ClearCallback
  <2>5. MacCallback(ns, s, ok) \in {ClearCallback(Transit(ns, s, new), s),
                                   Transit(ns, s, "TERMINATING")}
    BY <1>3 DEF MacCallback, new
  <2> QED
    BY <2>2, <2>4, <2>5 DEF NoneToZero, NotToZero
<1> QED
  BY <1>1, <1>2, <1>3

LEMMA DoneWithZero ==
  ASSUME NEW ns, NodeInv(ns), NEW p \in Node, ns.queue[p] # <<>>,
         NEW ok \in BOOLEAN
  PROVE  NoneToZero(ns, DoneWith(ns, p, ok))
<1> DEFINE q == Head(ns.queue[p])
           n1 == [ns EXCEPT !.queue[p] = Tail(@)]
<1>1. ns.queue[p] \in Seq(Packet)
  BY DEF NodeInv, NodeState
<1>2. q \in Packet /\ Tail(ns.queue[p]) \in Seq(Packet)
  BY <1>1
<1>3. NodeInv(n1) /\ n1.nbr = ns.nbr
  BY <1>2, SetQueue DEF NodeInv, NodeState
<1>4. q.ptr \in Slot \cup {NoSlot}
  BY <1>2 DEF Packet
<1>5. DoneWith(ns, p, ok) = IF q.ptr = NoSlot THEN n1 ELSE MacCallback(n1, q.ptr, ok)
  BY DEF DoneWith
<1> HIDE DEF n1, q
<1>6. q.ptr # NoSlot => NoneToZero(n1, MacCallback(n1, q.ptr, ok))
  BY <1>3, <1>4, MacCallbackZero
<1> QED
  BY <1>3, <1>5, <1>6 DEF NoneToZero, NotToZero

LEMMA ProcessTransZero ==
  ASSUME NEW ns, NodeInv(ns), NEW s \in Slot, Listed(ns.trans[s])
  PROVE  NoneToZero(ns, ProcessTrans(ns, s))
<1>1. /\ Free(ns, s).nbr = ns.nbr
      /\ [ns EXCEPT !.trans[s] = [@ EXCEPT !.timer = "timeout"]].nbr = ns.nbr
  BY DEF Free, NodeInv, NodeState
<1>2. NoneToZero(ns, Transit(ns, s, "TERMINATING"))
  BY TransitZero
<1>3. ProcessTrans(ns, s) \in {Free(ns, s), Transit(ns, s, "TERMINATING"),
                               [ns EXCEPT !.trans[s] = [@ EXCEPT !.timer = "timeout"]]}
  BY DEF ProcessTrans
<1> QED
  BY <1>1, <1>2, <1>3 DEF NoneToZero, NotToZero

(* A request: next_seqno is 0 afterwards only when the transaction that    *)
(* has been allocated is a CLEAR.                                          *)
LEMMA OutputRequestZero ==
  ASSUME NEW ns, NodeInv(ns), NEW p \in Node, NEW cmd \in Cmd, NEW body \in Body,
         NEW cb \in Cmd \cup {"NONE"}, NEW req \in Nat, NEW res
  PROVE  LET m == OutputRequest(ns, p, cmd, body, cb, req, res)
         IN  /\ \A q \in Node \ {p} : NotToZero(ns, m, q)
             /\ \/ NotToZero(ns, m, p)
                \/ \E s \in Slot : /\ Listed(m.trans[s]) /\ m.trans[s].peer = p
                                   /\ m.trans[s].cmd = "CLEAR"
<1> DEFINE n1 == WithNbr(ns, p)
           s == AllocSlot(n1)
           pkt == MkPacket("REQUEST", cmd, n1.nbr[p], body, s, req)
           na == Alloc(n1, p, pkt)
           n2 == [na EXCEPT !.trans[s].cb = cb]
           n3 == SixtopOutput(n2, p, pkt, res)
           n4 == [n3 EXCEPT !.nbr[p] = SeqnoAfterRequest(cmd, @)]
           n5 == Transit(n4, s, "REQUEST_SENDING")
           m == OutputRequest(ns, p, cmd, body, cb, req, res)
<1> SUFFICES /\ \A q \in Node \ {p} : NotToZero(ns, m, q)
             /\ \/ NotToZero(ns, m, p)
                \/ \E r \in Slot : /\ Listed(m.trans[r]) /\ m.trans[r].peer = p
                                   /\ m.trans[r].cmd = "CLEAR"
  OBVIOUS
<1>1. NodeInv(n1) /\ n1.nbr[p] \in 0..MaxSeqno
  BY WithNbrInv
<1>1a. NoneToZero(ns, n1) /\ \A q \in Node \ {p} : n1.nbr[q] = ns.nbr[q]
  BY DEF WithNbr, NoneToZero, NotToZero, NodeInv, NodeState
<1>2. CASE HasTrans(ns, p)
  BY <1>2 DEF OutputRequest, NotToZero
<1>3. CASE ~HasTrans(ns, p) /\ ~CanAlloc(n1, p)
  BY <1>1a, <1>3 DEF OutputRequest, NoneToZero
<1>4. CASE ~HasTrans(ns, p) /\ CanAlloc(n1, p)
  <2>1. s \in Slot
    BY <1>4 DEF AllocSlot, CanAlloc, FreeSlots
  <2>2. pkt \in Packet /\ pkt.ptr = s /\ pkt.code = cmd
    BY <1>1, <2>1 DEF MkPacket, Packet, PktType
  <2> HIDE DEF pkt, n1
  <2>4. /\ NodeInv(na) /\ na.nbr = n1.nbr
        /\ na.trans[s].state = "INIT" /\ na.trans[s].peer = p /\ na.trans[s].cmd = cmd
    BY <1>1, <1>4, <2>2, AllocInv
  <2> HIDE DEF na, s
  <2>5. NodeInv(n2) /\ n2.nbr = na.nbr /\ n2.trans[s] = [na.trans[s] EXCEPT !.cb = cb]
    BY <2>1, <2>4, SetCallback
  <2>6. na.trans[s] \in Trans
    BY <2>1, <2>4 DEF NodeInv, NodeState
  <2>7. n2.trans[s].state = "INIT" /\ n2.trans[s].peer = p /\ n2.trans[s].cmd = cmd
    BY <2>4, <2>5, <2>6 DEF Trans
  <2> HIDE DEF n2
  <2>8. NodeInv(n3) /\ SameTrans(n2, n3)
    BY <2>2, <2>5, <2>7, SixtopOutputInv
  <2>9. /\ n3.trans[s].state = "INIT" /\ n3.trans[s].peer = p /\ n3.trans[s].cmd = cmd
        /\ n3.nbr = n1.nbr /\ n3.trans[s] \in Trans
    BY <2>1, <2>4, <2>5, <2>7, <2>8 DEF SameTrans, NodeInv, NodeState
  <2>10. m = IF res \in Failure THEN [n3 EXCEPT !.trans[s] = FreeTrans] ELSE n5
    BY <1>4 DEF OutputRequest, n1, n2, na, s, pkt
  <2> HIDE DEF n3
  <2>11. CASE res \in Failure
    <3>1. [n3 EXCEPT !.trans[s] = FreeTrans].nbr = n3.nbr
      BY <2>8 DEF NodeInv, NodeState
    <3> QED
      BY <1>1a, <2>9, <2>10, <2>11, <3>1 DEF NoneToZero, NotToZero
  <2>12. CASE res \notin Failure
    <3>1. /\ n4.trans = n3.trans
          /\ n4.nbr = [n3.nbr EXCEPT ![p] = SeqnoAfterRequest(cmd, n3.nbr[p])]
      BY <2>8 DEF NodeInv, NodeState
    <3>2. Allowed(n4.trans[s], "REQUEST_SENDING")
      BY <2>9, <3>1 DEF Allowed
    <3>3. m = [n4 EXCEPT !.nbr = n4.nbr,
                         !.trans[s] = [n3.trans[s] EXCEPT !.state = "REQUEST_SENDING",
                                                          !.timer = "process"]]
      BY <2>10, <2>12, <3>1, <3>2 DEF Transit, NbrAfter
    <3> DEFINE u == [n3.trans[s] EXCEPT !.state = "REQUEST_SENDING", !.timer = "process"]
    <3>4. u.state = "REQUEST_SENDING" /\ u.peer = p /\ u.cmd = cmd
      BY <2>9 DEF Trans
    <3> HIDE DEF u
    <3>5. m.nbr = n4.nbr /\ m.trans[s] = u
      BY <2>1, <2>8, <3>3, ZenonT(60) DEF NodeInv, NodeState, u
    <3>6. n3.nbr \in [Node -> 0..MaxSeqno \cup {NoNbr}]
      BY <2>8 DEF NodeInv, NodeState
    <3> HIDE DEF m, n4
    <3>7. \A q \in Node \ {p} : NotToZero(ns, m, q)
      BY <1>1a, <2>9, <3>1, <3>5, <3>6 DEF NotToZero
    <3>8. CASE cmd = "CLEAR"
      BY <2>1, <3>4, <3>5, <3>7, <3>8 DEF Listed
    <3>9. CASE cmd # "CLEAR"
      <4>1. SeqnoAfterRequest(cmd, n3.nbr[p]) \in 1..MaxSeqno
        BY <1>1, <2>9, <3>9, NextSeqnoType DEF SeqnoAfterRequest
      <4> QED
        BY <3>1, <3>5, <3>6, <3>7, <4>1 DEF NotToZero, NoNbr
    <3> QED
      BY <3>8, <3>9
  <2> QED
    BY <2>11, <2>12
<1> QED
  BY <1>2, <1>3, <1>4

LEMMA FlushNbr ==
  ASSUME NEW ns, NodeInv(ns), NEW p \in Node, NEW mode
  PROVE  Flush(ns, p, mode).nbr = ns.nbr
BY DEF Flush, NodeInv, NodeState

(* A step of Sixp that lets a next_seqno go back to 0 sends or takes a     *)
(* CLEAR.                                                                  *)
LEMMA ZeroStep ==
  ASSUME Inv, [Next]_vars, NEW n \in Node, NEW p \in Node,
         node[n].nbr[p] \notin {NoNbr, 0}, node'[n].nbr[p] = 0
  PROVE  ClearStep(n, p)
<1>0. /\ rx \in [Node -> Seq(Frame)] /\ nreq \in Nat
      /\ node \in [Node -> NodeState] /\ \A k \in Node : NodeInv(node[k])
  BY DEF Inv, TypeOK
<1>1. ASSUME NEW k \in Node, NEW m, node' = [node EXCEPT ![k] = m], NoneToZero(node[k], m)
      PROVE  FALSE
  BY <1>0, <1>1 DEF NoneToZero, NotToZero
<1>2. CASE UNCHANGED vars
  BY <1>2 DEF vars
<1>3. ASSUME NEW k \in Node, AddSf(k) PROVE FALSE
  BY <1>0, <1>3 DEF AddSf, NodeState
<1>4. ASSUME NEW k \in Node, NEW q \in Node, NEW cmd \in Cmd, NEW body \in Body,
             NEW cb \in Cmd \cup {"NONE"}, NEW flush, NEW res,
             Request(k, q, cmd, body, cb, flush, res)
      PROVE  ClearStep(n, p)
  <2> DEFINE r == Flush(node[k], q, flush)
             m == OutputRequest(r, q, cmd, body, cb, nreq + 1, res)
  <2>1. nreq + 1 \in Nat
    BY <1>0
  <2>2. NodeInv(r) /\ r.nbr = node[k].nbr
    BY <1>0, FlushInv, FlushNbr
  <2>3. node' = [node EXCEPT ![k] = m]
    BY <1>4 DEF Request
  <2> HIDE DEF r
  <2>4. /\ \A j \in Node \ {q} : NotToZero(r, m, j)
        /\ \/ NotToZero(r, m, q)
           \/ \E s \in Slot : /\ Listed(m.trans[s]) /\ m.trans[s].peer = q
                              /\ m.trans[s].cmd = "CLEAR"
    BY <2>1, <2>2, OutputRequestZero
  <2> HIDE DEF m
  <2>5. k = n /\ node'[n] = m
    BY <1>0, <2>3
  <2>6. ~NotToZero(r, m, p)
    BY <2>2, <2>5 DEF NotToZero
  <2> QED
    BY <2>4, <2>5, <2>6 DEF ClearStep
<1>5. ASSUME NEW k \in Node, NEW answer, NEW body \in Body,
             NEW cb \in Cmd \cup {"NONE"}, NEW res, Input(k, answer, body, cb, res)
      PROVE  ClearStep(n, p)
  <2> DEFINE f == Head(rx[k])
             m == HandleFrame(node[k], f, answer, body, cb, res)
  <2>1. f \in Frame /\ rx[k] # <<>>
    BY <1>0, <1>5 DEF Input
  <2>2. node' = [node EXCEPT ![k] = m]
    BY <1>5 DEF Input
  <2> HIDE DEF f
  <2>3. OthersKept(node[k], m, f.src) /\ (NotToZero(node[k], m, f.src) \/ f.pkt.code = "CLEAR")
    BY <1>0, <2>1, HandleFrameLocal
  <2> HIDE DEF m
  <2>4. k = n /\ node'[n] = m
    BY <1>0, <2>2
  <2>5. f.pkt.code = "CLEAR"
    BY <2>3, <2>4 DEF OthersKept, NotToZero
  <2> QED
    BY <2>1, <2>4, <2>5 DEF ClearStep, f
<1>6. ASSUME NEW k \in Node, NEW q \in Node, Transmit(k, q) PROVE FALSE
  <2>1. node'[n].nbr = node[n].nbr
    BY <1>0, <1>6 DEF Transmit, NodeState
  <2> QED
    BY <2>1
<1>7. ASSUME NEW k \in Node, NEW q \in Node, NEW ok \in BOOLEAN, MacDone(k, q, ok)
      PROVE  FALSE
  BY <1>0, <1>1, <1>7, DoneWithZero DEF MacDone
<1>8. ASSUME NEW k \in Node, NEW s \in Slot, Timer(k, s) PROVE FALSE
  <2>1. Listed(node[k].trans[s])
    BY <1>0, <1>8 DEF Timer, NodeInv, TimerArmedAt
  <2>2. /\ NoneToZero(node[k], ProcessTrans(node[k], s))
        /\ NoneToZero(node[k], HandleTransTimeout(node[k], s))
    BY <1>0, <2>1, ProcessTransZero, TransitZero DEF HandleTransTimeout
  <2> QED
    BY <1>1, <1>8, <2>2 DEF Timer
<1>9. ASSUME NEW k \in Node, Reboot(k) PROVE FALSE
  <2>1. node'[n] \in {node[n], BootState}
    BY <1>0, <1>9 DEF Reboot
  <2> QED
    BY <2>1 DEF BootState, NoNbr
<1> QED
  BY <1>2, <1>3, <1>4, <1>5, <1>6, <1>7, <1>8, <1>9, InitiatorAssumption, ReplyAssumption
     DEF Next

(* A step that takes a frame off n's input is the processing of that frame.*)
LEMMA IsolatedStep ==
  ASSUME Inv, [Next]_vars, NEW n \in Node,
         rx[n] # <<>>, rx'[n] = Tail(rx[n]), reboots' = reboots
  PROVE  /\ \A s \in Slot :
              (Listed(node[n].trans[s]) /\ node[n].trans[s].peer # Head(rx[n]).src)
              => node'[n].trans[s] = node[n].trans[s]
         /\ \A p \in Node \ {Head(rx[n]).src} : node'[n].nbr[p] = node[n].nbr[p]
<1>0. /\ rx \in [Node -> Seq(Frame)] /\ reboots \in Nat
      /\ node \in [Node -> NodeState] /\ \A k \in Node : NodeInv(node[k])
  BY DEF Inv, TypeOK
<1>1. Len(Tail(rx[n])) < Len(rx[n]) /\ rx'[n] # rx[n] /\ Head(rx[n]) \in Frame
  <2>1. rx[n] \in Seq(Frame) /\ rx[n] # <<>>
    BY <1>0
  <2>2. Len(Tail(rx[n])) = Len(rx[n]) - 1 /\ Len(rx[n]) \in Nat /\ Head(rx[n]) \in Frame
    BY <2>1
  <2>3. Len(Tail(rx[n])) < Len(rx[n]) /\ Len(Tail(rx[n])) # Len(rx[n])
    BY <2>2
  <2>4. rx'[n] # rx[n]
    BY <2>3, Zenon
  <2> QED
    BY <2>2, <2>3, <2>4
<1>2. ASSUME UNCHANGED rx PROVE FALSE
  BY <1>1, <1>2
<1>3. ASSUME NEW k \in Node, NEW q \in Node, Transmit(k, q) PROVE FALSE
  <2> DEFINE f == [src |-> k, pkt |-> Head(node[k].queue[q])]
  <2>1. node[k].queue[q] \in Seq(Packet) /\ node[k].queue[q] # <<>>
    BY <1>0, <1>3 DEF Transmit, NodeState
  <2>2. f \in Frame
    BY <2>1 DEF Frame
  <2>3. rx' = [rx EXCEPT ![q] = Append(rx[q], f)]
    BY <1>3 DEF Transmit
  <2> HIDE DEF f
  <2>4. rx'[n] \in {rx[n], Append(rx[n], f)}
    BY <1>0, <2>3
  <2>5. Len(Append(rx[n], f)) = Len(rx[n]) + 1 /\ Len(rx[n]) \in Nat
    BY <1>0, <2>2
  <2> QED
    BY <1>1, <2>4, <2>5
<1>4. ASSUME NEW k \in Node, NEW answer, NEW body \in Body,
             NEW cb \in Cmd \cup {"NONE"}, NEW res, Input(k, answer, body, cb, res)
      PROVE  node'[n] = HandleFrame(node[n], Head(rx[n]), answer, body, cb, res)
  BY <1>0, <1>1, <1>4 DEF Input
<1>5. ASSUME NEW answer, NEW body \in Body, NEW cb \in Cmd \cup {"NONE"}, NEW res,
             node'[n] = HandleFrame(node[n], Head(rx[n]), answer, body, cb, res)
      PROVE  OthersKept(node[n], node'[n], Head(rx[n]).src)
  BY <1>0, <1>1, <1>5, HandleFrameLocal
<1>6. OthersKept(node[n], node'[n], Head(rx[n]).src)
  BY <1>0, <1>2, <1>3, <1>4, <1>5, ReplyAssumption
     DEF Next, vars, AddSf, Request, MacDone, Timer, Reboot
<1> QED
  BY <1>6 DEF OthersKept

(* "next_seqno can be 0 only by initialization of nbr or by a CLEAR        *)
(* transaction" (sixp_nbr_increment_next_seqno()).                         *)
THEOREM ZeroByClear == Spec => ZeroOnlyByClear
<1> DEFINE A == \A n, p \in Node :
                  /\ node[n].nbr[p] \notin {NoNbr, 0}
                  /\ node'[n].nbr[p] = 0
                  => ClearStep(n, p)
<1>1. Inv /\ [Next]_vars => [A]_vars
  BY ZeroStep
<1>2. Spec => [][A]_vars
  <2> HIDE DEF A
  <2> QED
    BY <1>1, InvInit, InvStep, PTL DEF Spec
<1> QED
  BY <1>2 DEF ZeroOnlyByClear

(* Processing a frame leaves the transactions with others than its sender  *)
(* as they are (sixp_input(), sixp_trans_find()).                          *)
THEOREM FramesIsolated == Spec => InputIsolated
<1> DEFINE A == \A n \in Node :
       (rx[n] # <<>> /\ rx'[n] = Tail(rx[n]) /\ reboots' = reboots)
       => /\ \A s \in Slot :
               (Listed(node[n].trans[s]) /\ node[n].trans[s].peer # Head(rx[n]).src)
               => node'[n].trans[s] = node[n].trans[s]
          /\ \A p \in Node \ {Head(rx[n]).src} : node'[n].nbr[p] = node[n].nbr[p]
<1>1. Inv /\ [Next]_vars => [A]_vars
  BY IsolatedStep
<1>2. Spec => [][A]_vars
  <2> HIDE DEF A
  <2> QED
    BY <1>1, InvInit, InvStep, PTL DEF Spec
<1> QED
  BY <1>2 DEF InputIsolated

(* sixtop_output() before the transaction is in a sending state, in full. *)
Outputs(ns, m, p, pkt) ==
  /\ m \in NodeState /\ m.nbr = ns.nbr /\ m.sf = ns.sf
  /\ \A s \in Slot :
       /\ s # pkt.ptr => m.trans[s] = ns.trans[s]
       /\ m.trans[s] = ns.trans[s] \/ m.trans[s] = [ns.trans[s] EXCEPT !.cb = "NONE"]
  /\ \/ m.queue = ns.queue
     \/ m.queue = [ns.queue EXCEPT ![p] = Append(@, pkt)] /\ m.trans = ns.trans

LEMMA SixtopOutputEffect ==
  ASSUME NEW ns \in NodeState, NEW p \in Node, NEW pkt \in Packet, NEW res,
         \/ pkt.ptr = NoSlot
         \/ ns.trans[pkt.ptr].state \in {"INIT", "REQUEST_RECEIVED", "RESPONSE_RECEIVED"}
  PROVE  Outputs(ns, SixtopOutput(ns, p, pkt, res), p, pkt)
<1> DEFINE m == SixtopOutput(ns, p, pkt, res)
<1>0. ns.queue[p] \in Seq(Packet) /\ pkt.ptr \in Slot \cup {NoSlot}
  BY DEF NodeState, Packet
<1>1. CASE res = "queued"
  <2> DEFINE q == Append(ns.queue[p], pkt)
  <2>1. q \in Seq(Packet)
    BY <1>0
  <2>2. m = [ns EXCEPT !.queue[p] = q]
    BY <1>1 DEF SixtopOutput
  <2> HIDE DEF m, q
  <2>3. m.nbr = ns.nbr /\ m.sf = ns.sf /\ m.trans = ns.trans /\ m \in NodeState
        /\ m.queue = [ns.queue EXCEPT ![p] = q]
    BY <2>1, <2>2 DEF NodeState
  <2> QED
    BY <2>3 DEF m, q, Outputs
<1>2. CASE res # "queued" /\ (pkt.ptr = NoSlot \/ res = "dropped")
  BY <1>2 DEF SixtopOutput, Outputs
<1>3. CASE res # "queued" /\ ~(pkt.ptr = NoSlot \/ res = "dropped")
  <2> DEFINE s == pkt.ptr
             u == [ns.trans[s] EXCEPT !.cb = "NONE"]
  <2>1. s \in Slot
    BY <1>0, <1>3
  <2>2. m = [ns EXCEPT !.trans[s] = u]
    BY Zenon, <1>3 DEF SixtopOutput, MacCallback, StateAfterMac, ClearCallback
  <2>3. u \in Trans
    <3>1. ns.trans[s] \in Trans
      BY <2>1 DEF NodeState
    <3> QED
      BY <3>1 DEF Trans
  <2> HIDE DEF m, u, s
  <2>4. /\ m.nbr = ns.nbr /\ m.sf = ns.sf /\ m.queue = ns.queue /\ m \in NodeState
        /\ m.trans = [ns.trans EXCEPT ![s] = u]
    BY <2>1, <2>2, <2>3 DEF NodeState
  <2>5. \A r \in Slot : IF r = s THEN m.trans[r] = u ELSE m.trans[r] = ns.trans[r]
    BY <2>1, <2>4 DEF NodeState
  <2>6. Outputs(ns, m, p, pkt)
    BY <2>4, <2>5 DEF u, s, Outputs
  <2> QED
    BY <2>6 DEF m
<1> QED
  BY <1>1, <1>2, <1>3


-----------------------------------------------------------------------------
(***************************************************************************)
(* Responses and requests.  With one node that starts transactions, and as *)
(* long as next_seqno has not wrapped, a sequence number belongs to one    *)
(* request: whatever a node holds or sends was there before with the same  *)
(* sequence number and the same request, except what a new request brings. *)
(***************************************************************************)
Pair(k) == <<k.seqno, k.req>>

Asker == {"REQUEST_SENDING", "REQUEST_SENT"}
Answerer == {"REQUEST_RECEIVED", "RESPONSE_SENDING"}

(* Block u comes from t, or holds a transaction with p that has a pair of  *)
(* L.  New roles and packets only come about where S names them.           *)
FromBlock(t, u, p, L) ==
  Listed(u) => \/ Listed(t) /\ u.peer = t.peer /\ Pair(u) = Pair(t)
               \/ u.peer = p /\ Pair(u) \in L

SameRole(t, u, S) ==
  /\ u.state \in Asker => t.state \in Asker \/ "REQUEST" \in S
  /\ u.state \in Answerer => t.state \in Answerer \/ "ANSWER" \in S
  /\ u.state = "RESPONSE_RECEIVED" => t.state = "RESPONSE_RECEIVED" \/ "TAKES" \in S

(* Packet k towards q comes from ns, or answers to p with a pair of L. *)
FromPacket(ns, q, k, p, S, L) ==
  \/ \E j \in 1..Len(ns.queue[q]) :
       k.type = ns.queue[q][j].type /\ Pair(k) = Pair(ns.queue[q][j])
  \/ /\ q = p /\ k.type \in S
     /\ \/ Pair(k) \in L
        \/ \E s \in Slot : /\ Listed(ns.trans[s]) /\ ns.trans[s].peer = p
                           /\ Pair(k) = Pair(ns.trans[s])

Derives(ns, m, p, S, L) ==
  /\ \A s \in Slot : /\ FromBlock(ns.trans[s], m.trans[s], p, L)
                     /\ SameRole(ns.trans[s], m.trans[s], S)
  /\ \A q \in Node : \A i \in 1..Len(m.queue[q]) :
       FromPacket(ns, q, m.queue[q][i], p, S, L)

LEMMA DerivesTrans ==
  ASSUME NEW ns, NEW m, NEW k, NEW p, NEW S, NEW L,
         Derives(ns, m, p, S, L), Derives(m, k, p, S, L)
  PROVE  Derives(ns, k, p, S, L)
<1>1. ASSUME NEW s \in Slot
      PROVE  /\ FromBlock(ns.trans[s], k.trans[s], p, L)
             /\ SameRole(ns.trans[s], k.trans[s], S)
  BY DEF Derives, FromBlock, SameRole
<1>2. ASSUME NEW q \in Node, NEW i \in 1..Len(k.queue[q])
      PROVE  FromPacket(ns, q, k.queue[q][i], p, S, L)
  <2> DEFINE e == k.queue[q][i]
  <2>1. FromPacket(m, q, e, p, S, L)
    BY DEF Derives
  <2> HIDE DEF e
  <2>2. CASE \E j \in 1..Len(m.queue[q]) :
               e.type = m.queue[q][j].type /\ Pair(e) = Pair(m.queue[q][j])
    <3>1. PICK j \in 1..Len(m.queue[q]) :
            e.type = m.queue[q][j].type /\ Pair(e) = Pair(m.queue[q][j])
      BY <2>2
    <3>2. FromPacket(ns, q, m.queue[q][j], p, S, L)
      BY DEF Derives
    <3> QED
      BY <3>1, <3>2 DEF FromPacket, e
  <2>3. CASE q = p /\ e.type \in S /\ Pair(e) \in L
    BY <2>3 DEF FromPacket, e
  <2>4. ASSUME q = p, e.type \in S, NEW s \in Slot, Listed(m.trans[s]), m.trans[s].peer = p,
               Pair(e) = Pair(m.trans[s])
        PROVE  FromPacket(ns, q, e, p, S, L)
    <3>1. FromBlock(ns.trans[s], m.trans[s], p, L)
      BY DEF Derives
    <3> QED
      BY <2>4, <3>1 DEF FromPacket, FromBlock
  <2> QED
    BY <2>1, <2>2, <2>3, <2>4 DEF FromPacket, e
<1> QED
  BY <1>1, <1>2 DEF Derives

LEMMA DerivesMore ==
  ASSUME NEW ns, NEW m, NEW p, NEW S, NEW L, NEW T, S \subseteq T, Derives(ns, m, p, S, L)
  PROVE  Derives(ns, m, p, T, L)
BY DEF Derives, FromPacket, SameRole

(* The blocks stay what they are, or one block changes. *)
LEMMA DerivesBlocks ==
  ASSUME NEW ns, NEW m, NEW p, NEW S, NEW L, m.queue = ns.queue,
         \A s \in Slot : /\ FromBlock(ns.trans[s], m.trans[s], p, L)
                         /\ SameRole(ns.trans[s], m.trans[s], S)
  PROVE  Derives(ns, m, p, S, L)
BY DEF Derives, FromPacket

LEMMA DerivesSame ==
  ASSUME NEW ns, NEW m, NEW p, NEW S, NEW L, m.queue = ns.queue, m.trans = ns.trans
  PROVE  Derives(ns, m, p, S, L)
BY DerivesBlocks DEF FromBlock, SameRole

LEMMA DerivesOne ==
  ASSUME NEW ns \in NodeState, NEW m, NEW p, NEW S, NEW L, m.queue = ns.queue,
         NEW s \in Slot, NEW u, m.trans = [ns.trans EXCEPT ![s] = u],
         FromBlock(ns.trans[s], u, p, L), SameRole(ns.trans[s], u, S)
  PROVE  Derives(ns, m, p, S, L)
<1>1. \A r \in Slot : m.trans[r] = IF r = s THEN u ELSE ns.trans[r]
  BY DEF NodeState
<1>2. \A r \in Slot : /\ FromBlock(ns.trans[r], m.trans[r], p, L)
                      /\ SameRole(ns.trans[r], m.trans[r], S)
  BY <1>1 DEF FromBlock, SameRole
<1> QED
  BY <1>2, DerivesBlocks

(* Sequences. *)
LEMMA TailElements ==
  ASSUME NEW S, NEW q \in Seq(S), q # <<>>
  PROVE  /\ Tail(q) \in Seq(S) /\ Len(Tail(q)) = Len(q) - 1 /\ Len(q) \in Nat \ {0}
         /\ \A i \in 1..Len(Tail(q)) : i + 1 \in 1..Len(q) /\ Tail(q)[i] = q[i + 1]
         /\ Head(q) = q[1] /\ q[1] \in S /\ 1 \in 1..Len(q)
OBVIOUS

LEMMA AppendElements ==
  ASSUME NEW S, NEW q \in Seq(S), NEW e \in S
  PROVE  /\ Append(q, e) \in Seq(S) /\ Len(Append(q, e)) = Len(q) + 1 /\ Len(q) \in Nat
         /\ \A i \in 1..Len(Append(q, e)) :
              IF i = Len(q) + 1 THEN Append(q, e)[i] = e
              ELSE i \in 1..Len(q) /\ Append(q, e)[i] = q[i]
OBVIOUS

(* A packet is queued. *)
LEMMA DerivesAppend ==
  ASSUME NEW ns \in NodeState, NEW m, NEW p \in Node, NEW S, NEW L, m.trans = ns.trans,
         NEW pkt \in Packet, m.queue = [ns.queue EXCEPT ![p] = Append(@, pkt)],
         pkt.type \in S,
         \/ Pair(pkt) \in L
         \/ \E s \in Slot : /\ Listed(ns.trans[s]) /\ ns.trans[s].peer = p
                            /\ Pair(pkt) = Pair(ns.trans[s])
  PROVE  Derives(ns, m, p, S, L)
<1>1. \A s \in Slot : /\ FromBlock(ns.trans[s], m.trans[s], p, L)
                      /\ SameRole(ns.trans[s], m.trans[s], S)
  BY DEF FromBlock, SameRole
<1>2. ASSUME NEW q \in Node, NEW i \in 1..Len(m.queue[q])
      PROVE  FromPacket(ns, q, m.queue[q][i], p, S, L)
  <2>1. CASE q # p
    <3>1. m.queue[q] = ns.queue[q]
      BY <2>1 DEF NodeState
    <3> QED
      BY <3>1 DEF FromPacket
  <2>2. CASE q = p
    <3>1. m.queue[q] = Append(ns.queue[p], pkt) /\ ns.queue[p] \in Seq(Packet)
      BY <2>2 DEF NodeState
    <3>2. PICK a : a = ns.queue[p]
      OBVIOUS
    <3>3. m.queue[q] = Append(a, pkt) /\ a \in Seq(Packet) /\ i \in 1..Len(Append(a, pkt))
      BY <3>1, <3>2
    <3>4. PICK b : b = Append(a, pkt)
      OBVIOUS
    <3>5. \A j \in 1..Len(b) : IF j = Len(a) + 1 THEN b[j] = pkt
                              ELSE j \in 1..Len(a) /\ b[j] = a[j]
      BY <3>3, <3>4, AppendElements
    <3>6. m.queue[q] = b /\ i \in 1..Len(b)
      BY <3>3, <3>4
    <3>7. m.queue[q][i] = pkt \/ (i \in 1..Len(a) /\ m.queue[q][i] = a[i])
      BY <3>5, <3>6
    <3> QED
      BY <2>2, <3>2, <3>7 DEF FromPacket
  <2> QED
    BY <2>1, <2>2
<1> QED
  BY <1>1, <1>2 DEF Derives

(* The operators of a node.  What NextTo says of a peer is only changed by *)
(* a request and by a response that has been sent.                         *)
NextTo(ns, p) == IF ns.nbr[p] = NoNbr THEN 0 ELSE ns.nbr[p]
SameNext(ns, m) == \A q \in Node : NextTo(m, q) = NextTo(ns, q)

LEMMA SameNbr ==
  ASSUME NEW ns, NEW m, m.nbr = ns.nbr
  PROVE  SameNext(ns, m)
BY DEF SameNext, NextTo

LEMMA TransitDerives ==
  ASSUME NEW ns \in NodeState, NEW s \in Slot, Listed(ns.trans[s]),
         NEW new \in TransState, NEW p, NEW S, NEW L,
         new = "REQUEST_SENDING" => "REQUEST" \in S,
         new = "REQUEST_RECEIVED" => "ANSWER" \in S,
         new = "RESPONSE_RECEIVED" => "TAKES" \in S,
         NEW m, m = Transit(ns, s, new)
  PROVE  /\ Derives(ns, m, p, S, L)
         /\ (new # "RESPONSE_SENT" \/ ns.trans[s].state # "RESPONSE_SENDING") => m.nbr = ns.nbr
<1> DEFINE t == ns.trans[s]
<1>1. PICK u : u = [t EXCEPT !.state = new, !.timer = "process"]
  OBVIOUS
<1>2. t \in Trans
  BY DEF NodeState
<1>3. u.state = new /\ u.peer = t.peer /\ u.seqno = t.seqno /\ u.req = t.req
  BY <1>1, <1>2 DEF Trans
<1>4. CASE ~Allowed(t, new)
  <2>1. m = ns
    BY <1>4 DEF Transit
  <2> QED
    BY <2>1, DerivesSame
<1>5. CASE Allowed(t, new)
  <2>1. /\ m = [ns EXCEPT !.nbr = NbrAfter(ns, t, new), !.trans[s] = u]
    BY <1>1, <1>5 DEF Transit
  <2>2. /\ m.trans = [ns.trans EXCEPT ![s] = u] /\ m.queue = ns.queue
        /\ m.nbr = NbrAfter(ns, t, new)
    BY <2>1 DEF NodeState
  <2>3. FromBlock(t, u, p, L)
    BY <1>3 DEF FromBlock, Pair
  <2>4. SameRole(t, u, S)
    BY <1>3, <1>5 DEF SameRole, Allowed, Asker, Answerer
  <2>5. Derives(ns, m, p, S, L)
    BY <2>2, <2>3, <2>4, DerivesOne
  <2>6. (new # "RESPONSE_SENT" \/ t.state # "RESPONSE_SENDING") => m.nbr = ns.nbr
    BY <1>5, <2>2 DEF NbrAfter, Allowed
  <2> QED
    BY <2>5, <2>6
<1> QED
  BY <1>4, <1>5

LEMMA ClearCallbackDerives ==
  ASSUME NEW ns \in NodeState, NEW s \in Slot, NEW p, NEW S, NEW L, NEW cb,
         NEW u, u = [ns.trans[s] EXCEPT !.cb = cb],
         NEW m, m.trans = [ns.trans EXCEPT ![s] = u], m.queue = ns.queue, m.nbr = ns.nbr
  PROVE  Derives(ns, m, p, S, L)
<1> DEFINE t == ns.trans[s]
<1>2. t \in Trans
  BY DEF NodeState
<1>3. u.state = t.state /\ u.peer = t.peer /\ u.seqno = t.seqno /\ u.req = t.req
  BY <1>2 DEF Trans
<1>4. FromBlock(t, u, p, L) /\ SameRole(t, u, S)
  BY <1>3 DEF FromBlock, SameRole, Pair, Listed
<1> QED
  BY <1>4, DerivesOne

LEMMA ClearedDerives ==
  ASSUME NEW ns \in NodeState, NEW s \in Slot, NEW p, NEW S, NEW L,
         NEW m, m = ClearCallback(ns, s)
  PROVE  Derives(ns, m, p, S, L) /\ m.nbr = ns.nbr
<1> DEFINE t == ns.trans[s]
<1>1. PICK u : u = [t EXCEPT !.cb = "NONE"]
  OBVIOUS
<1>2. m.trans = [ns.trans EXCEPT ![s] = u] /\ m.queue = ns.queue /\ m.nbr = ns.nbr
  BY <1>1 DEF NodeState, ClearCallback
<1>3. t \in Trans
  BY DEF NodeState
<1>4. u.state = t.state /\ u.peer = t.peer /\ u.seqno = t.seqno /\ u.req = t.req
  BY <1>1, <1>3 DEF Trans
<1>5. FromBlock(t, u, p, L) /\ SameRole(t, u, S)
  BY <1>4 DEF FromBlock, SameRole, Pair, Listed
<1> QED
  BY <1>2, <1>5, DerivesOne

LEMMA FreeTransDerives ==
  ASSUME NEW ns \in NodeState, NEW s \in Slot, NEW p, NEW S, NEW L,
         NEW m, m = [ns EXCEPT !.trans[s] = FreeTrans]
  PROVE  Derives(ns, m, p, S, L) /\ m.nbr = ns.nbr
<1>1. m.trans = [ns.trans EXCEPT ![s] = FreeTrans] /\ m.queue = ns.queue /\ m.nbr = ns.nbr
  BY DEF NodeState
<1>2. FromBlock(ns.trans[s], FreeTrans, p, L) /\ SameRole(ns.trans[s], FreeTrans, S)
  BY DEF FromBlock, SameRole, FreeTrans, Listed, Asker, Answerer
<1> QED
  BY <1>1, <1>2, DerivesOne

LEMMA MacCallbackDerives ==
  ASSUME NEW ns, NodeInv(ns), NEW s \in Slot, NEW ok \in BOOLEAN, NEW p, NEW S, NEW L,
         NEW m, m = MacCallback(ns, s, ok)
  PROVE  /\ Derives(ns, m, p, S, L)
         /\ (~ok \/ ns.trans[s].state # "RESPONSE_SENDING") => m.nbr = ns.nbr
<1> DEFINE t == ns.trans[s]
           new == StateAfterMac(t, ok)
<1>0. t.state \in TransState /\ ns \in NodeState
  BY DEF NodeInv, NodeState, Trans
<1>1. CASE t.state = "WAIT_FREE"
  <2>1. m = [ns EXCEPT !.trans[s] = FreeTrans]
    BY <1>1, Zenon DEF MacCallback
  <2> QED
    BY <1>0, <2>1, FreeTransDerives, Zenon
<1>2. CASE t.state # "WAIT_FREE" /\ new = t.state
  <2>1. m = ClearCallback(ns, s)
    BY <1>2, Zenon DEF MacCallback
  <2> QED
    BY <1>0, <2>1, ClearedDerives, Zenon
<1>3. CASE t.state # "WAIT_FREE" /\ new # t.state
  <2>1. /\ Listed(t) /\ new \notin {"REQUEST_RECEIVED", "REQUEST_SENDING", "RESPONSE_RECEIVED"}
        /\ new \in TransState \ {"UNAVAILABLE", "WAIT_FREE"}
        /\ new = "RESPONSE_SENT" => ok /\ t.state = "RESPONSE_SENDING"
    BY <1>0, <1>3 DEF StateAfterMac, Listed, TransState
  <2>2. PICK k : k = Transit(ns, s, new)
    OBVIOUS
  <2>3. PICK d : d = Transit(ns, s, "TERMINATING")
    OBVIOUS
  <2>4. m = ClearCallback(k, s) \/ m = d
    BY <1>3, <2>2, <2>3, Zenon DEF MacCallback
  <2> HIDE DEF new
  <2>5. /\ Derives(ns, k, p, S, L) /\ NodeInv(k)
        /\ (new # "RESPONSE_SENT" \/ t.state # "RESPONSE_SENDING") => k.nbr = ns.nbr
    <3>1. NodeInv(k)
      BY <2>1, <2>2, TransitInv, Zenon
    <3>2. /\ new \in TransState /\ new # "REQUEST_SENDING" /\ new # "REQUEST_RECEIVED"
          /\ new # "RESPONSE_RECEIVED"
      BY <2>1
    <3>3. PICK v : v = new
      OBVIOUS
    <3>4. /\ Derives(ns, k, p, S, L)
          /\ (v # "RESPONSE_SENT" \/ ns.trans[s].state # "RESPONSE_SENDING") => k.nbr = ns.nbr
      <4>1. Listed(ns.trans[s])
        BY <2>1
      <4>2. k = Transit(ns, s, v)
        BY <2>2, <3>3
      <4>3. /\ v = "REQUEST_SENDING" => "REQUEST" \in S
            /\ v = "REQUEST_RECEIVED" => "ANSWER" \in S
            /\ v = "RESPONSE_RECEIVED" => "TAKES" \in S
        BY <3>2, <3>3
      <4> QED
        BY <1>0, <3>2, <3>3, <4>1, <4>2, <4>3, TransitDerives
    <3> QED
      BY <3>1, <3>3, <3>4
  <2>6. Derives(ns, d, p, S, L) /\ d.nbr = ns.nbr
    <3>1. "TERMINATING" \in TransState
      BY DEF TransState
    <3> QED
      BY <1>0, <2>1, <2>3, <3>1, TransitDerives
  <2>7. CASE m = ClearCallback(k, s)
    <3>1. k \in NodeState
      BY <2>5, Zenon DEF NodeInv
    <3>2. Derives(k, m, p, S, L) /\ m.nbr = k.nbr
      BY <2>7, <3>1, ClearedDerives, Zenon
    <3> QED
      BY <2>1, <2>5, <3>2, DerivesTrans, Zenon
  <2> QED
    BY <2>4, <2>6, <2>7, Zenon
<1> QED
  BY <1>1, <1>2, <1>3, Zenon

(* What is handed to TSCH is queued, or its report comes back at once. *)
LEMMA SixtopOutputDerives ==
  ASSUME NEW ns, NodeInv(ns), NEW p \in Node, NEW pkt \in Packet, NEW res,
         NEW S, NEW L, pkt.type \in S,
         \/ Pair(pkt) \in L
         \/ \E s \in Slot : /\ Listed(ns.trans[s]) /\ ns.trans[s].peer = p
                            /\ Pair(pkt) = Pair(ns.trans[s]),
         NEW m, m = SixtopOutput(ns, p, pkt, res)
  PROVE  Derives(ns, m, p, S, L) /\ m.nbr = ns.nbr
<1>0. ns \in NodeState
  BY DEF NodeInv
<1>1. CASE res = "queued"
  <2>1. m = [ns EXCEPT !.queue[p] = Append(@, pkt)]
    BY <1>1 DEF SixtopOutput
  <2>2. m.trans = ns.trans /\ m.nbr = ns.nbr /\ m.queue = [ns.queue EXCEPT ![p] = Append(@, pkt)]
    BY <1>0, <2>1 DEF NodeState
  <2> QED
    BY <1>0, <2>2, DerivesAppend
<1>2. CASE res # "queued" /\ (pkt.ptr = NoSlot \/ res = "dropped")
  <2>1. m = ns
    BY <1>2 DEF SixtopOutput
  <2> QED
    BY <2>1, DerivesSame
<1>3. CASE res # "queued" /\ ~(pkt.ptr = NoSlot \/ res = "dropped")
  <2>1. m = MacCallback(ns, pkt.ptr, FALSE) /\ pkt.ptr \in Slot
    BY <1>3 DEF SixtopOutput, Packet
  <2> QED
    BY <2>1, MacCallbackDerives
<1> QED
  BY <1>1, <1>2, <1>3

LEMMA OutputErrorDerives ==
  ASSUME NEW ns, NodeInv(ns), NEW p \in Node, NEW rc \in ReturnCode,
         NEW pkt \in Packet, NEW res, NEW S, "RESPONSE" \in S, NEW L, Pair(pkt) \in L,
         NEW m, m = OutputError(ns, p, rc, pkt, res)
  PROVE  Derives(ns, m, p, S, L) /\ m.nbr = ns.nbr
<1>1. PICK e : e = MkPacket("RESPONSE", rc, pkt.seqno, EmptyBody, NoSlot, pkt.req)
  OBVIOUS
<1>2. e \in Packet /\ e.type = "RESPONSE" /\ Pair(e) = Pair(pkt)
  BY <1>1, BodyAssumption DEF MkPacket, Packet, PktType, Pair
<1>3. m = SixtopOutput(ns, p, e, res)
  BY <1>1 DEF OutputError
<1> QED
  BY <1>2, <1>3, SixtopOutputDerives

(* The answer of a transaction. *)
LEMMA OutputReplyDerives ==
  ASSUME NEW ns, NodeInv(ns), NEW p \in Node,
         NEW type \in {"RESPONSE", "CONFIRMATION"}, NEW rc \in ReturnCode,
         NEW body \in Body, NEW cb \in Cmd \cup {"NONE"}, NEW res,
         NEW S, NEW L, type \in S,
         NEW m, m = OutputReply(ns, p, type, rc, body, cb, res)
  PROVE  /\ Derives(ns, m, p, S, L)
         /\ type = "CONFIRMATION" => m.nbr = ns.nbr
<1> DEFINE s == Find(ns, p)
           t == ns.trans[s]
           n1 == IF type = "RESPONSE" /\ t.cmd # "CLEAR" THEN WithNbr(ns, p) ELSE ns
           n2 == [n1 EXCEPT !.trans[s].cb = cb]
           pkt == MkPacket(type, rc, t.seqno, body, s, t.req)
           n3 == SixtopOutput(n2, p, pkt, res)
           from == IF type = "RESPONSE" THEN "REQUEST_RECEIVED" ELSE "RESPONSE_RECEIVED"
           to == IF type = "RESPONSE" THEN "RESPONSE_SENDING" ELSE "CONFIRMATION_SENDING"
<1>1. CASE ~HasTrans(ns, p) \/ t.state # from
  <2>1. m = ns
    BY <1>1 DEF OutputReply
  <2> QED
    BY <2>1, DerivesSame
<1>2. CASE HasTrans(ns, p) /\ t.state = from
  <2>1. s \in Slot /\ t \in Trans /\ t.peer = p /\ Listed(t)
    BY <1>2, FindTrans DEF NodeInv, NodeState
  <2>2. /\ NodeInv(n1) /\ n1.trans = ns.trans /\ n1.queue = ns.queue
        /\ type = "CONFIRMATION" => n1.nbr = ns.nbr
    BY WithNbrInv
  <2>3. m = IF res \in Failure THEN n3 ELSE Transit(n3, s, to)
    BY <1>2 DEF OutputReply
  <2> HIDE DEF n1
  <2>4. /\ NodeInv(n2) /\ n2.trans[s] = [t EXCEPT !.cb = cb] /\ n2.nbr = n1.nbr
    BY <2>1, <2>2, SetCallback
  <2>5. /\ n2.trans[s].state = from /\ n2.trans[s].peer = p
        /\ n2.trans[s].seqno = t.seqno /\ n2.trans[s].req = t.req
    BY <1>2, <2>1, <2>4 DEF Trans
  <2>6. pkt \in Packet /\ pkt.ptr = s /\ pkt.type = type /\ Pair(pkt) = Pair(t)
    BY <2>1 DEF MkPacket, Packet, PktType, Trans, Pair
  <2>7. Derives(n1, n2, p, S, L)
    <3>1. n1 \in NodeState
      BY <2>2 DEF NodeInv
    <3>2. PICK u : u = [n1.trans[s] EXCEPT !.cb = cb]
      OBVIOUS
    <3>3. n2.trans = [n1.trans EXCEPT ![s] = u] /\ n2.queue = n1.queue /\ n2.nbr = n1.nbr
      BY <3>1, <3>2 DEF NodeState
    <3> QED
      BY <2>1, <3>1, <3>2, <3>3, ClearCallbackDerives, ZenonT(60)
  <2> HIDE DEF n2, pkt, s
  <2>8. Listed(n2.trans[s]) /\ Pair(pkt) = Pair(n2.trans[s])
    BY <2>5, <2>6 DEF Listed, Pair
  <2>9. Derives(n2, n3, p, S, L) /\ n3.nbr = n2.nbr
    <3>1. \E r \in Slot : /\ Listed(n2.trans[r]) /\ n2.trans[r].peer = p
                          /\ Pair(pkt) = Pair(n2.trans[r])
      BY <2>1, <2>5, <2>8
    <3>2. pkt.type \in S
      BY <2>6
    <3>3. n3 = SixtopOutput(n2, p, pkt, res)
      OBVIOUS
    <3> HIDE DEF n3
    <3> QED
      BY <2>4, <2>6, <3>1, <3>2, <3>3, SixtopOutputDerives
  <2>10. NodeInv(n3) /\ SameTrans(n2, n3)
    BY <2>4, <2>5, <2>6, SixtopOutputInv
  <2> HIDE DEF n3
  <2>11. n3.trans[s].state = from /\ n3 \in NodeState
    BY <2>1, <2>5, <2>10 DEF SameTrans, NodeInv
  <2>12. PICK k : k = Transit(n3, s, to)
    OBVIOUS
  <2>13. Derives(n3, k, p, S, L) /\ k.nbr = n3.nbr
    <3>1. PICK v : v = to
      OBVIOUS
    <3>2. /\ v \in TransState
          /\ v \notin {"REQUEST_SENDING", "REQUEST_RECEIVED", "RESPONSE_RECEIVED", "RESPONSE_SENT"}
      BY <3>1 DEF TransState
    <3>3. /\ v = "REQUEST_SENDING" => "REQUEST" \in S
          /\ v = "REQUEST_RECEIVED" => "ANSWER" \in S
          /\ v = "RESPONSE_RECEIVED" => "TAKES" \in S
      BY <3>2
    <3>4. k = Transit(n3, s, v)
      BY <2>12, <3>1
    <3>5. Listed(n3.trans[s])
      BY <2>11 DEF Listed
    <3> QED
      BY <2>1, <2>11, <3>2, <3>3, <3>4, <3>5, TransitDerives
  <2>14. Derives(ns, n1, p, S, L)
    BY <2>2, DerivesSame
  <2>15. Derives(ns, n3, p, S, L)
    BY <2>7, <2>9, <2>14, DerivesTrans
  <2>16. Derives(ns, k, p, S, L)
    BY <2>13, <2>15, DerivesTrans
  <2>17. m = n3 \/ m = k
    BY <2>3, <2>12
  <2> QED
    BY <2>2, <2>4, <2>9, <2>13, <2>15, <2>16, <2>17
<1> QED
  BY <1>1, <1>2

LEMMA OutputSeqnumErrorDerives ==
  ASSUME NEW ns, NodeInv(ns), NEW p \in Node, NEW pkt \in Packet, NEW res,
         NEW S, "RESPONSE" \in S, NEW L, Pair(pkt) \in L,
         NEW m, m = OutputSeqnumError(ns, p, pkt, res)
  PROVE  Derives(ns, m, p, S, L)
<1>1. CASE m = OutputError(ns, p, "ERR_SEQNUM", pkt, res)
  BY <1>1, OutputErrorDerives DEF ReturnCode
<1>2. CASE m = OutputReply(ns, p, "RESPONSE", "ERR_SEQNUM", EmptyBody, "NONE", res)
  BY <1>2, OutputReplyDerives, BodyAssumption DEF ReturnCode
<1> QED
  BY <1>1, <1>2 DEF OutputSeqnumError

LEMMA InputRequestDerives ==
  ASSUME NEW ns, NodeInv(ns), NEW p \in Node, NEW pkt \in Packet,
         pkt.code \in Cmd, NEW res,
         NEW S, "RESPONSE" \in S, "ANSWER" \in S, NEW L, Pair(pkt) \in L,
         NEW m, m = InputRequest(ns, p, pkt, res)
  PROVE  Derives(ns, m, p, S, L)
<1> DEFINE n1 == AfterClear(ns, p, pkt)
           s == AllocSlot(n1)
           na == Alloc(n1, p, pkt)
           n2 == Transit(na, s, "REQUEST_RECEIVED")
<1>1. NodeInv(n1) /\ n1.trans = ns.trans /\ n1.queue = ns.queue
  <2>1. NodeInv(n1)
    BY AfterClearInv
  <2>2. n1 = ns \/ n1 = [ns EXCEPT !.nbr[p] = 0]
    BY DEF AfterClear
  <2>3. n1.trans = ns.trans /\ n1.queue = ns.queue
    BY <2>2 DEF NodeInv, NodeState
  <2> QED
    BY <2>1, <2>3
<1>2. Derives(ns, n1, p, S, L)
  BY <1>1, DerivesSame
<1>3. CASE HasTrans(ns, p)
  <2>1. m = OutputSeqnumError(ns, p, pkt, res) \/ m = OutputError(ns, p, "ERR_BUSY", pkt, res)
    BY <1>3 DEF InputRequest
  <2> QED
    BY <2>1, OutputSeqnumErrorDerives, OutputErrorDerives DEF ReturnCode
<1>4. CASE ~HasTrans(ns, p) /\ ~CanAlloc(n1, p)
  <2>1. m = OutputError(n1, p, "ERR_BUSY", pkt, res)
    BY <1>4 DEF InputRequest
  <2> HIDE DEF n1
  <2>2. Derives(n1, m, p, S, L)
    BY <1>1, <2>1, OutputErrorDerives DEF ReturnCode
  <2> QED
    BY <1>2, <2>2, DerivesTrans
<1>5. CASE ~HasTrans(ns, p) /\ CanAlloc(n1, p)
  <2>0. s \in FreeSlots(n1)
    BY <1>5 DEF CanAlloc, AllocSlot, FreeSlots
  <2>8. m \in {n2, OutputSeqnumError(n2, p, pkt, res)}
    BY <1>5 DEF InputRequest
  <2> HIDE DEF n1
  <2>1. /\ s \in Slot /\ NodeInv(na) /\ na.nbr = n1.nbr
        /\ na.trans[s].state = "INIT" /\ na.trans[s].peer = p
        /\ na.trans[s].cmd = pkt.code
        /\ \A r \in Slot \ {s} : na.trans[r] = n1.trans[r]
    BY <1>1, <1>5, AllocInv
  <2>2. Derives(n1, na, p, S, L)
    <3>1. PICK u : u = [state |-> "INIT", peer |-> p, seqno |-> pkt.seqno, cmd |-> pkt.code,
                        mode |-> DetermineMode(pkt.code, pkt.body), cb |-> "NONE",
                        timer |-> "timeout", req |-> pkt.req]
      OBVIOUS
    <3>2. n1 \in NodeState
      BY <1>1 DEF NodeInv
    <3>3. na = [n1 EXCEPT !.trans[s] = u]
      BY <3>1 DEF Alloc
    <3>4. na.trans = [n1.trans EXCEPT ![s] = u] /\ na.queue = n1.queue
      BY <3>2, <3>3 DEF NodeState
    <3>5. FromBlock(n1.trans[s], u, p, L) /\ SameRole(n1.trans[s], u, S)
      BY <3>1 DEF FromBlock, SameRole, Pair, Asker, Answerer
    <3> HIDE DEF na, s
    <3> QED
      BY <2>1, <3>2, <3>4, <3>5, DerivesOne
  <2>2a. pkt.code = "CLEAR" => na.nbr[p] \in {NoNbr, 0}
    BY <2>1, AfterClearInv DEF n1
  <2>3. NodeInv(n2) /\ Derives(na, n2, p, S, L)
    <3> HIDE DEF s, na
    <3>1. NodeInv(n2)
      BY <2>1, <2>2a, TransitInv DEF Listed, TransState
    <3>2. na \in NodeState /\ Listed(na.trans[s]) /\ "REQUEST_RECEIVED" \in TransState
      BY <2>1 DEF Listed, TransState, NodeInv
    <3> QED
      BY <2>1, <3>1, <3>2, TransitDerives
  <2> HIDE DEF na, s, n2
  <2>5. Derives(ns, n2, p, S, L)
    BY <1>2, <2>2, <2>3, DerivesTrans
  <2>6. PICK k : k = OutputSeqnumError(n2, p, pkt, res)
    OBVIOUS
  <2>7. Derives(n2, k, p, S, L)
    BY <2>3, <2>6, OutputSeqnumErrorDerives
  <2>9. Derives(ns, k, p, S, L)
    BY <2>5, <2>7, DerivesTrans
  <2> QED
    BY <2>5, <2>6, <2>8, <2>9
<1> QED
  BY <1>3, <1>4, <1>5

(* A frame has been handled: what is new comes from the frame, or answers  *)
(* the transaction with its sender, and a response is only taken by that   *)
(* transaction, with its sequence number.                                  *)
Brings(pkt) == IF pkt.type = "REQUEST" THEN {"RESPONSE", "ANSWER"}
               ELSE {"RESPONSE", "CONFIRMATION", "TAKES"}

Takes(ns, m, p, pkt) ==
  \A s \in Slot : ns.trans[s].state \in Asker /\ m.trans[s].state = "RESPONSE_RECEIVED"
                    => ns.trans[s].peer = p /\ ns.trans[s].seqno = pkt.seqno

LEMMA SixpInputDerives ==
  ASSUME NEW ns, NodeInv(ns), NEW p \in Node, NEW pkt \in Packet, NEW res,
         NEW L, Pair(pkt) \in L, NEW m, m = SixpInput(ns, p, pkt, res)
  PROVE  /\ Derives(ns, m, p, Brings(pkt), L)
         /\ pkt.type # "REQUEST" => m.nbr = ns.nbr
         /\ Takes(ns, m, p, pkt)
<1>1. CASE ~ns.sf
  <2>1. m = OutputError(ns, p, "ERR_SFID", pkt, res) /\ "ERR_SFID" \in ReturnCode
    BY <1>1 DEF SixpInput, ReturnCode
  <2>2. Derives(ns, m, p, {"RESPONSE"}, L) /\ m.nbr = ns.nbr
    BY <2>1, OutputErrorDerives
  <2>3. Derives(ns, m, p, Brings(pkt), L)
    <3>1. {"RESPONSE"} \subseteq Brings(pkt)
      BY DEF Brings
    <3> QED
      BY <2>2, <3>1, DerivesMore
  <2>4. Takes(ns, m, p, pkt)
    BY <2>2 DEF Takes, Derives, SameRole, Asker
  <2> QED
    BY <2>2, <2>3, <2>4
<1>2. CASE ns.sf /\ pkt.type = "REQUEST"
  <2>1. m = InputRequest(ns, p, pkt, res) /\ pkt.code \in Cmd
    BY <1>2 DEF SixpInput, Packet
  <2>2. Derives(ns, m, p, {"RESPONSE", "ANSWER"}, L)
    BY <2>1, InputRequestDerives
  <2>3. Takes(ns, m, p, pkt)
    BY <2>2 DEF Takes, Derives, SameRole, Asker
  <2> QED
    BY <1>2, <2>2, <2>3 DEF Brings
<1>3. CASE ns.sf /\ pkt.type # "REQUEST" /\ ~Accepts(ns, p, pkt)
  <2>1. m = ns
    BY <1>3 DEF SixpInput
  <2>2. Derives(ns, m, p, Brings(pkt), L)
    BY <2>1, DerivesSame
  <2>3. Takes(ns, m, p, pkt)
    BY <2>1 DEF Takes, Asker
  <2> QED
    BY <2>1, <2>2, <2>3
<1>4. CASE ns.sf /\ pkt.type # "REQUEST" /\ Accepts(ns, p, pkt)
  <2> DEFINE s == Find(ns, p)
             t == ns.trans[s]
  <2>1. /\ m = Transit(ns, s, StateOnReply(pkt.type))
        /\ t.seqno = pkt.seqno /\ Allowed(t, StateOnReply(pkt.type)) /\ HasTrans(ns, p)
    BY <1>4 DEF SixpInput, Accepts
  <2>2. s \in Slot /\ t.peer = p /\ Listed(t) /\ ns \in NodeState
    BY <2>1, FindTrans DEF NodeInv
  <2>3. PICK v : v = StateOnReply(pkt.type)
    OBVIOUS
  <2>4. v \in {"RESPONSE_RECEIVED", "CONFIRMATION_RECEIVED"} /\ v \in TransState
    BY <2>3 DEF StateOnReply, TransState
  <2>5. /\ v = "REQUEST_SENDING" => "REQUEST" \in Brings(pkt)
        /\ v = "REQUEST_RECEIVED" => "ANSWER" \in Brings(pkt)
        /\ v = "RESPONSE_RECEIVED" => "TAKES" \in Brings(pkt)
    BY <1>4, <2>4 DEF Brings
  <2>6. m = Transit(ns, s, v)
    BY <2>1, <2>3
  <2> HIDE DEF s
  <2>7. Derives(ns, m, p, Brings(pkt), L) /\ m.nbr = ns.nbr
    BY <2>2, <2>4, <2>5, <2>6, TransitDerives
  <2>8. \A r \in Slot \ {s} : m.trans[r] = ns.trans[r]
    <3>1. PICK u : u = [t EXCEPT !.state = v, !.timer = "process"]
      OBVIOUS
    <3>2. m = [ns EXCEPT !.nbr = NbrAfter(ns, t, v), !.trans[s] = u]
      BY <2>1, <2>3, <2>6, <3>1 DEF Transit
    <3> QED
      BY <2>2, <3>2 DEF NodeState
  <2>9. Takes(ns, m, p, pkt)
    BY <2>1, <2>2, <2>8 DEF Takes, Asker
  <2> QED
    BY <2>7, <2>9
<1> QED
  BY <1>1, <1>2, <1>3, <1>4

FrameTaken(ns, m, f) ==
  /\ Derives(ns, m, f.src, Brings(f.pkt), {Pair(f.pkt)})
  /\ f.pkt.type # "REQUEST" => m.nbr = ns.nbr
  /\ Takes(ns, m, f.src, f.pkt)

LEMMA HandleFrameDerives ==
  ASSUME NEW ns, NodeInv(ns), NEW f \in Frame, NEW answer, NEW body \in Body,
         NEW cb \in Cmd \cup {"NONE"}, NEW res,
         NEW m, m = HandleFrame(ns, f, answer, body, cb, res)
  PROVE  FrameTaken(ns, m, f)
<1> DEFINE p == f.src
           L == {Pair(f.pkt)}
           n1 == SixpInput(ns, p, f.pkt, res)
           type == IF f.pkt.type = "REQUEST" THEN "RESPONSE" ELSE "CONFIRMATION"
           k == OutputReply(n1, p, type, "SUCCESS", body, cb, res)
<1>1. p \in Node /\ f.pkt \in Packet /\ Pair(f.pkt) \in L
  BY DEF Frame
<1> HIDE DEF L
<1>2. NodeInv(n1)
  BY <1>1, SixpInputInv
<1>3. /\ Derives(ns, n1, p, Brings(f.pkt), L)
      /\ f.pkt.type # "REQUEST" => n1.nbr = ns.nbr
      /\ Takes(ns, n1, p, f.pkt)
  BY <1>1, SixpInputDerives
<1>4. m = n1 \/ m = k
  BY DEF HandleFrame
<1> HIDE DEF n1
<1>5. /\ Derives(n1, k, p, {type}, L)
      /\ type = "CONFIRMATION" => k.nbr = n1.nbr
  <2>1. type \in {"RESPONSE", "CONFIRMATION"} /\ type \in {type}
    OBVIOUS
  <2>2. PICK rc : rc = "SUCCESS"
    OBVIOUS
  <2>3. rc \in ReturnCode
    BY <2>2 DEF ReturnCode
  <2>4. k = OutputReply(n1, p, type, rc, body, cb, res)
    BY <2>2
  <2> HIDE DEF type, k, p
  <2>5. Derives(n1, k, p, {type}, L) /\ (type = "CONFIRMATION" => k.nbr = n1.nbr)
    BY <1>1, <1>2, <2>1, <2>3, <2>4, OutputReplyDerives
  <2> QED
    BY <2>5
<1>6. /\ type \in Brings(f.pkt)
      /\ f.pkt.type # "REQUEST" => type = "CONFIRMATION"
      /\ type # "TAKES"
  BY DEF Brings
<1> HIDE DEF k, type
<1>7. Derives(n1, k, p, Brings(f.pkt), L)
  <2>1. {type} \subseteq Brings(f.pkt)
    BY <1>6
  <2> QED
    BY <1>5, <2>1, DerivesMore
<1>8. Derives(ns, k, p, Brings(f.pkt), L)
  BY <1>3, <1>7, DerivesTrans
<1>9. Takes(ns, k, p, f.pkt)
  <2>1. \A s \in Slot : k.trans[s].state = "RESPONSE_RECEIVED"
                          => n1.trans[s].state = "RESPONSE_RECEIVED"
    BY <1>5, <1>6 DEF Derives, SameRole
  <2> QED
    BY <1>3, <2>1 DEF Takes
<1> QED
  BY <1>3, <1>4, <1>5, <1>6, <1>8, <1>9 DEF FrameTaken, L

(* A report of the MAC. *)
LEMMA DoneWithDerives ==
  ASSUME NEW ns, NodeInv(ns), NEW p \in Node, ns.queue[p] # <<>>,
         NEW ok \in BOOLEAN, NEW q, NEW S, NEW L,
         NEW m, m = DoneWith(ns, p, ok)
  PROVE  /\ Derives(ns, m, q, S, L)
         /\ (\A s \in Slot : ns.trans[s].state # "RESPONSE_SENDING") => m.nbr = ns.nbr
<1> DEFINE h == Head(ns.queue[p])
           n1 == [ns EXCEPT !.queue[p] = Tail(@)]
<1>1. ns.queue[p] \in Seq(Packet) /\ ns \in NodeState
  BY DEF NodeInv, NodeState
<1>2. h \in Packet /\ Tail(ns.queue[p]) \in Seq(Packet)
  BY <1>1
<1>3. NodeInv(n1)
  BY <1>2, SetQueue
<1>4. h.ptr \in Slot \cup {NoSlot}
  BY <1>2 DEF Packet
<1>5. m = IF h.ptr = NoSlot THEN n1 ELSE MacCallback(n1, h.ptr, ok)
  BY DEF DoneWith
<1>6. n1.trans = ns.trans /\ n1.nbr = ns.nbr /\ n1.queue = [ns.queue EXCEPT ![p] = Tail(ns.queue[p])]
  BY <1>1 DEF NodeState
<1> HIDE DEF n1, h
<1>7. Derives(ns, n1, q, S, L)
  <2>1. ASSUME NEW r \in Node, NEW i \in 1..Len(n1.queue[r])
        PROVE  FromPacket(ns, r, n1.queue[r][i], q, S, L)
    <3>1. CASE r # p
      <4>1. n1.queue[r] = ns.queue[r]
        BY <1>1, <1>6, <3>1 DEF NodeState
      <4> QED
        BY <4>1 DEF FromPacket
    <3>2. CASE r = p
      <4>1. PICK a : a = ns.queue[p]
        OBVIOUS
      <4>2. PICK b : b = Tail(a)
        OBVIOUS
      <4>3. n1.queue[r] = b /\ a \in Seq(Packet) /\ a # <<>>
        BY <1>1, <1>6, <3>2, <4>1, <4>2 DEF NodeState
      <4>4. \A j \in 1..Len(b) : j + 1 \in 1..Len(a) /\ b[j] = a[j + 1]
        BY <4>2, <4>3, TailElements
      <4>5. i + 1 \in 1..Len(a) /\ n1.queue[r][i] = a[i + 1]
        BY <4>3, <4>4
      <4> QED
        BY <3>2, <4>1, <4>5 DEF FromPacket
    <3> QED
      BY <3>1, <3>2
  <2>2. \A s \in Slot : FromBlock(ns.trans[s], n1.trans[s], q, L)
                        /\ SameRole(ns.trans[s], n1.trans[s], S)
    BY <1>6 DEF FromBlock, SameRole
  <2> QED
    BY <2>1, <2>2 DEF Derives
<1>8. CASE h.ptr = NoSlot
  BY <1>5, <1>6, <1>7, <1>8
<1>9. CASE h.ptr # NoSlot
  <2>1. m = MacCallback(n1, h.ptr, ok) /\ h.ptr \in Slot
    BY <1>4, <1>5, <1>9
  <2>2. /\ Derives(n1, m, q, S, L)
        /\ (~ok \/ n1.trans[h.ptr].state # "RESPONSE_SENDING") => m.nbr = n1.nbr
    BY <1>3, <2>1, MacCallbackDerives
  <2>3. Derives(ns, m, q, S, L)
    BY <1>7, <2>2, DerivesTrans
  <2> QED
    BY <1>6, <2>1, <2>2, <2>3
<1> QED
  BY <1>8, <1>9

LEMMA ProcessTransDerives ==
  ASSUME NEW ns, NodeInv(ns), NEW s \in Slot, Listed(ns.trans[s]), NEW q, NEW S, NEW L,
         NEW m, m = ProcessTrans(ns, s)
  PROVE  Derives(ns, m, q, S, L) /\ m.nbr = ns.nbr
<1>0. ns \in NodeState /\ ns.trans[s] \in Trans /\ "TERMINATING" \in TransState
  BY DEF NodeInv, NodeState, TransState
<1>1. CASE m = Transit(ns, s, "TERMINATING")
  BY <1>0, <1>1, TransitDerives
<1>2. CASE m = [ns EXCEPT !.trans[s] = [@ EXCEPT !.timer = "timeout"]]
  <2>1. PICK u : u = [ns.trans[s] EXCEPT !.timer = "timeout"]
    OBVIOUS
  <2>2. /\ u.state = ns.trans[s].state /\ u.peer = ns.trans[s].peer
        /\ u.seqno = ns.trans[s].seqno /\ u.req = ns.trans[s].req
    BY <1>0, <2>1 DEF Trans
  <2>3. m.trans = [ns.trans EXCEPT ![s] = u] /\ m.queue = ns.queue /\ m.nbr = ns.nbr
    BY <1>0, <1>2, <2>1 DEF NodeState
  <2>4. FromBlock(ns.trans[s], u, q, L) /\ SameRole(ns.trans[s], u, S)
    BY <2>2 DEF FromBlock, SameRole, Listed, Pair
  <2> QED
    BY <1>0, <2>3, <2>4, DerivesOne
<1>3. CASE m = Free(ns, s) /\ ns.trans[s].state \in Sending
  <2>1. PICK u : u = [ns.trans[s] EXCEPT !.state = "WAIT_FREE", !.timer = "none"]
    OBVIOUS
  <2>2. u.state = "WAIT_FREE"
    BY <1>0, <2>1 DEF Trans
  <2>3. m = [ns EXCEPT !.trans[s] = u]
    BY <1>3, <2>1 DEF Free
  <2>4. m.trans = [ns.trans EXCEPT ![s] = u] /\ m.queue = ns.queue /\ m.nbr = ns.nbr
    BY <1>0, <2>3 DEF NodeState
  <2>5. FromBlock(ns.trans[s], u, q, L) /\ SameRole(ns.trans[s], u, S)
    BY <2>2 DEF FromBlock, SameRole, Listed, Asker, Answerer
  <2> QED
    BY <1>0, <2>4, <2>5, DerivesOne
<1>4. CASE m = Free(ns, s) /\ ns.trans[s].state \notin Sending
  <2>1. m = [ns EXCEPT !.trans[s] = FreeTrans]
    BY <1>4 DEF Free
  <2> QED
    BY <1>0, <2>1, FreeTransDerives
<1> QED
  BY <1>1, <1>2, <1>3, <1>4 DEF ProcessTrans

LEMMA FlushDerives ==
  ASSUME NEW ns, NodeInv(ns), NEW p \in Node, NEW mode, NEW q, NEW S, NEW L,
         NEW m, m = Flush(ns, p, mode)
  PROVE  Derives(ns, m, q, S, L) /\ m.nbr = ns.nbr
<1>0. ns \in NodeState /\ ns.queue[p] \in Seq(Packet) /\ \A s \in Slot : ns.trans[s] \in Trans
  BY DEF NodeInv, NodeState
<1>1. CASE mode = "none"
  <2>1. m = ns
    BY <1>1 DEF Flush
  <2> QED
    BY <2>1, DerivesSame
<1>2. CASE mode # "none"
  <2> DEFINE keep == KeptHead(ns.queue[p], mode)
             ptrs == {ns.queue[p][i].ptr : i \in (IF keep THEN 2 ELSE 1)..Len(ns.queue[p])}
             b == IF keep THEN <<Head(ns.queue[p])>> ELSE <<>>
             T == [s \in Slot |-> IF s \in ptrs THEN FlushedTrans(ns.trans[s]) ELSE ns.trans[s]]
  <2>1. m = [ns EXCEPT !.queue[p] = b, !.trans = T]
    BY <1>2 DEF Flush
  <2>2. keep => ns.queue[p] # <<>>
    BY DEF KeptHead
  <2>3. b = <<>> \/ (b = <<Head(ns.queue[p])>> /\ ns.queue[p] # <<>>)
    BY <2>2
  <2>4. \A s \in Slot : T[s] \in {ns.trans[s], FlushedTrans(ns.trans[s])}
    OBVIOUS
  <2> HIDE DEF T, b
  <2>5. m.trans = T /\ m.nbr = ns.nbr /\ m.queue = [ns.queue EXCEPT ![p] = b]
    BY <1>0, <2>1 DEF NodeState
  <2>6. ASSUME NEW s \in Slot
        PROVE  FromBlock(ns.trans[s], m.trans[s], q, L) /\ SameRole(ns.trans[s], m.trans[s], S)
    <3> DEFINE t == ns.trans[s]
               u == m.trans[s]
    <3>1. t \in Trans /\ (u = t \/ u = FlushedTrans(t))
      BY <1>0, <2>4, <2>5
    <3> HIDE DEF t, u
    <3>2. CASE u = t
      BY <3>2 DEF FromBlock, SameRole, t, u
    <3>3. CASE u = FlushedTrans(t) /\ t.state = "WAIT_FREE"
      <4>1. u = FreeTrans
        BY <3>3 DEF FlushedTrans
      <4> QED
        BY <4>1 DEF FromBlock, SameRole, FreeTrans, Listed, Asker, Answerer, t, u
    <3>4. CASE u = FlushedTrans(t) /\ t.state = "REQUEST_SENDING"
      <4>1. u = [t EXCEPT !.state = "TERMINATING", !.timer = "process", !.cb = "NONE"]
        BY <3>4 DEF FlushedTrans
      <4>2. u.state = "TERMINATING" /\ u.peer = t.peer /\ u.seqno = t.seqno /\ u.req = t.req
        BY <3>1, <4>1 DEF Trans
      <4> QED
        BY <3>4, <4>2 DEF FromBlock, SameRole, Listed, Asker, Answerer, Pair, t, u
    <3>5. CASE u = FlushedTrans(t) /\ t.state \notin {"WAIT_FREE", "REQUEST_SENDING"}
      <4>1. u = [t EXCEPT !.cb = "NONE"]
        BY <3>5 DEF FlushedTrans
      <4>2. u.state = t.state /\ u.peer = t.peer /\ u.seqno = t.seqno /\ u.req = t.req
        BY <3>1, <4>1 DEF Trans
      <4> QED
        BY <4>2 DEF FromBlock, SameRole, Listed, Pair, t, u
    <3> QED
      BY <3>1, <3>2, <3>3, <3>4, <3>5
  <2>7. ASSUME NEW r \in Node, NEW i \in 1..Len(m.queue[r])
        PROVE  FromPacket(ns, r, m.queue[r][i], q, S, L)
    <3>1. CASE r # p
      <4>1. m.queue[r] = ns.queue[r]
        BY <1>0, <2>5, <3>1 DEF NodeState
      <4> QED
        BY <4>1 DEF FromPacket
    <3>2. CASE r = p
      <4>1. m.queue[r] = b
        BY <1>0, <2>5, <3>2 DEF NodeState
      <4>2. PICK a : a = ns.queue[p]
        OBVIOUS
      <4>3. b = <<Head(a)>> /\ a # <<>> /\ a \in Seq(Packet)
        BY <1>0, <2>3, <4>1, <4>2
      <4>4. 1 \in 1..Len(a) /\ m.queue[r][i] = a[1]
        BY <4>1, <4>3
      <4> QED
        BY <3>2, <4>2, <4>4 DEF FromPacket
    <3> QED
      BY <3>1, <3>2
  <2> QED
    BY <2>5, <2>6, <2>7 DEF Derives
<1> QED
  BY <1>1, <1>2

(* A request takes the number that is next, or nothing has happened.       *)
Fresh(ns, m, p, req) ==
  /\ Derives(ns, m, p, {"REQUEST"}, {<<NextTo(ns, p), req>>})
  /\ NextTo(m, p) = NextSeqno(NextTo(ns, p))
  /\ \A q \in Node \ {p} : NextTo(m, q) = NextTo(ns, q)

LEMMA OutputRequestDerives ==
  ASSUME NEW ns, NodeInv(ns), NEW p \in Node, NEW cmd \in Cmd, cmd # "CLEAR", NEW body \in Body,
         NEW cb \in Cmd \cup {"NONE"}, NEW req \in Nat, NEW res,
         NEW m, m = OutputRequest(ns, p, cmd, body, cb, req, res)
  PROVE  \/ Derives(ns, m, p, {}, {}) /\ SameNext(ns, m)
         \/ Fresh(ns, m, p, req)
<1> DEFINE n1 == WithNbr(ns, p)
           s == AllocSlot(n1)
           pkt == MkPacket("REQUEST", cmd, n1.nbr[p], body, s, req)
           na == Alloc(n1, p, pkt)
           n2 == [na EXCEPT !.trans[s].cb = cb]
           n3 == SixtopOutput(n2, p, pkt, res)
           n4 == [n3 EXCEPT !.nbr[p] = SeqnoAfterRequest(cmd, @)]
           n5 == Transit(n4, s, "REQUEST_SENDING")
           n6 == [n3 EXCEPT !.trans[s] = FreeTrans]
           L == {<<NextTo(ns, p), req>>}
<1>1. /\ NodeInv(n1) /\ n1.nbr[p] \in 0..MaxSeqno /\ n1.trans = ns.trans /\ n1.queue = ns.queue
  BY WithNbrInv
<1>2. SameNext(ns, n1) /\ n1.nbr[p] = NextTo(ns, p)
  BY DEF WithNbr, NodeInv, NodeState, SameNext, NextTo, NoNbr
<1>3. CASE HasTrans(ns, p)
  <2>1. m = ns
    BY <1>3 DEF OutputRequest
  <2> QED
    BY <2>1, DerivesSame DEF SameNext
<1>4. CASE ~HasTrans(ns, p) /\ ~CanAlloc(n1, p)
  <2>1. m = n1
    BY <1>4 DEF OutputRequest
  <2> QED
    BY <1>1, <1>2, <2>1, DerivesSame
<1>5. CASE ~HasTrans(ns, p) /\ CanAlloc(n1, p)
  <2>1. s \in Slot
    BY <1>5 DEF AllocSlot, CanAlloc, FreeSlots
  <2>2. /\ pkt \in Packet /\ pkt.ptr = s /\ pkt.code = cmd /\ pkt.type = "REQUEST"
        /\ Pair(pkt) \in L /\ pkt.seqno = NextTo(ns, p) /\ pkt.req = req
    BY <1>1, <1>2, <2>1 DEF MkPacket, Packet, PktType, Pair
  <2>3. m = IF res \in Failure THEN n6 ELSE n5
    BY <1>5 DEF OutputRequest
  <2> HIDE DEF pkt, n1
  <2>4. /\ NodeInv(na) /\ na.nbr = n1.nbr
        /\ na.trans[s].state = "INIT" /\ na.trans[s].peer = p /\ na.trans[s].cmd = cmd
        /\ \A r \in Slot \ {s} : na.trans[r] = n1.trans[r]
    BY <1>1, <1>5, <2>2, AllocInv
  <2>5. na.trans[s].seqno = NextTo(ns, p) /\ na.trans[s].req = req /\ na.queue = n1.queue
    BY <1>1, <2>1, <2>2 DEF Alloc, NodeInv, NodeState
  <2> HIDE DEF na, s
  <2>6. /\ NodeInv(n2) /\ n2.nbr = na.nbr /\ n2.trans[s] = [na.trans[s] EXCEPT !.cb = cb]
        /\ \A r \in Slot \ {s} : n2.trans[r] = na.trans[r]
    BY <2>1, <2>4, SetCallback
  <2>7. na.trans[s] \in Trans
    BY <2>1, <2>4 DEF NodeInv, NodeState
  <2>8. /\ n2.trans[s].state = "INIT" /\ n2.trans[s].peer = p
        /\ Pair(n2.trans[s]) = <<NextTo(ns, p), req>>
    BY <2>4, <2>5, <2>6, <2>7 DEF Trans, Pair
  <2>9. n2.queue = ns.queue
    BY <1>1, <2>4, <2>5 DEF NodeInv, NodeState
  <2> HIDE DEF n2
  <2>10. n2 \in NodeState /\ \A r \in Slot \ {s} : n2.trans[r] = ns.trans[r]
    BY <1>1, <2>4, <2>6 DEF NodeInv
  <2>11. Outputs(n2, n3, p, pkt)
    BY <2>2, <2>8, <2>10, SixtopOutputEffect
  <2>12. NodeInv(n3)
    BY <2>2, <2>6, <2>8, SixtopOutputInv
  <2>13. Derives(n2, n3, p, {"REQUEST"}, L)
    BY <2>2, <2>6, SixtopOutputDerives
  <2>14. res # "queued" => n3.queue = n2.queue
    <3>1. ASSUME res # "queued" PROVE n3 = n2 \/ n3 = MacCallback(n2, s, FALSE)
      BY <2>2, <3>1 DEF SixtopOutput
    <3>2. MacCallback(n2, s, FALSE) = [n2 EXCEPT !.trans[s] = [@ EXCEPT !.cb = "NONE"]]
      BY <2>8, Zenon DEF MacCallback, StateAfterMac, ClearCallback
    <3>3. MacCallback(n2, s, FALSE).queue = n2.queue
      BY <2>10, <3>2 DEF NodeState
    <3> QED
      BY <3>1, <3>3
  <2> HIDE DEF n3
  <2>15. /\ n3.trans[s].state = "INIT" /\ n3.trans[s].peer = p
         /\ Pair(n3.trans[s]) = <<NextTo(ns, p), req>> /\ n3.trans[s] \in Trans
         /\ \A r \in Slot \ {s} : n3.trans[r] = ns.trans[r]
         /\ n3.nbr = n1.nbr /\ n3 \in NodeState
    <3>1. PICK t : t = n2.trans[s]
      OBVIOUS
    <3>2. t \in Trans /\ t.state = "INIT" /\ t.peer = p /\ Pair(t) = <<NextTo(ns, p), req>>
      BY <2>1, <2>8, <2>10, <3>1 DEF NodeState
    <3>3. PICK u : u = [t EXCEPT !.cb = "NONE"]
      OBVIOUS
    <3>4. u.state = "INIT" /\ u.peer = p /\ Pair(u) = <<NextTo(ns, p), req>>
      BY <3>2, <3>3 DEF Trans, Pair
    <3>5. n3.trans[s] = t \/ n3.trans[s] = u
      BY <2>1, <2>11, <3>1, <3>3 DEF Outputs
    <3>6. /\ n3.trans[s] \in Trans /\ n3 \in NodeState
      BY <2>1, <2>12 DEF NodeInv, NodeState
    <3>7. n3.nbr = n1.nbr /\ \A r \in Slot \ {s} : n3.trans[r] = ns.trans[r]
      BY <2>2, <2>4, <2>6, <2>10, <2>11, ZenonT(60) DEF Outputs
    <3> QED
      BY <3>2, <3>4, <3>5, <3>6, <3>7
  <2>16. CASE res \in Failure
    <3>1. /\ n6.trans = [n3.trans EXCEPT ![s] = FreeTrans] /\ n6.nbr = n3.nbr
          /\ n6.queue = n3.queue
      BY <2>15 DEF NodeState
    <3> HIDE DEF n6
    <3>2. n6.queue = ns.queue
      BY <2>9, <2>14, <2>16, <3>1 DEF Failure
    <3>3. n6.trans[s] = FreeTrans /\ \A r \in Slot \ {s} : n6.trans[r] = ns.trans[r]
      BY <2>1, <2>15, <3>1 DEF NodeState
    <3>4. \A r \in Slot : FromBlock(ns.trans[r], n6.trans[r], p, {})
                          /\ SameRole(ns.trans[r], n6.trans[r], {})
      <4>1. /\ FromBlock(ns.trans[s], FreeTrans, p, {})
            /\ SameRole(ns.trans[s], FreeTrans, {})
        BY DEF FreeTrans, Listed, FromBlock, SameRole, Asker, Answerer
      <4>2. ASSUME NEW r \in Slot \ {s}
            PROVE  /\ FromBlock(ns.trans[r], n6.trans[r], p, {})
                   /\ SameRole(ns.trans[r], n6.trans[r], {})
        BY <3>3 DEF FromBlock, SameRole
      <4> QED
        BY <3>3, <4>1, <4>2
    <3>5. Derives(ns, n6, p, {}, {})
      BY <3>2, <3>4, DerivesBlocks
    <3>6. SameNext(ns, n6)
      <4>1. n6.nbr = n1.nbr
        BY <2>15, <3>1
      <4> QED
        BY <1>2, <4>1 DEF SameNext, NextTo
    <3> QED
      BY <2>3, <2>16, <3>5, <3>6
  <2>17. CASE res \notin Failure
    <3> DEFINE seq == SeqnoAfterRequest(cmd, n3.nbr[p])
    <3>1. n4.trans = n3.trans /\ n4.queue = n3.queue /\ n4.nbr = [n3.nbr EXCEPT ![p] = seq]
      BY <2>15 DEF NodeState
    <3>2. seq = NextSeqno(NextTo(ns, p))
      BY <1>2, <2>15 DEF SeqnoAfterRequest
    <3>2a. seq \in 0..MaxSeqno /\ seq # NoNbr
      BY <1>1, <1>2, <3>2, NextSeqnoType, SeqnoAssumption DEF NoNbr
    <3>2b. n4 = [n3 EXCEPT !.nbr[p] = seq]
      OBVIOUS
    <3> HIDE DEF seq, n4
    <3>3. n4 \in NodeState
      BY <2>15, <3>2a, <3>2b DEF NodeState
    <3>4. /\ NextTo(n4, p) = NextSeqno(NextTo(ns, p))
          /\ \A q \in Node \ {p} : NextTo(n4, q) = NextTo(ns, q)
      <4>1. n3.nbr \in [Node -> 0..MaxSeqno \cup {NoNbr}]
        BY <2>15 DEF NodeState
      <4>2. n4.nbr[p] = seq /\ \A q \in Node \ {p} : n4.nbr[q] = n1.nbr[q]
        BY <2>15, <3>1, <4>1
      <4> QED
        BY <1>2, <3>2, <3>2a, <4>2 DEF NextTo, SameNext
    <3> HIDE DEF n4
    <3>5. "REQUEST_SENDING" \in TransState /\ Listed(n4.trans[s])
      BY <2>15, <3>1 DEF TransState, Listed
    <3>6. Derives(n4, n5, p, {"REQUEST"}, L) /\ n5.nbr = n4.nbr
      BY <2>1, <3>3, <3>5, TransitDerives
    <3>7. Derives(n3, n4, p, {"REQUEST"}, L)
      BY <3>1, DerivesSame
    <3> HIDE DEF n5
    <3>8. Derives(ns, n2, p, {"REQUEST"}, L)
      <4>1. ASSUME NEW r \in Slot
            PROVE  /\ FromBlock(ns.trans[r], n2.trans[r], p, L)
                   /\ SameRole(ns.trans[r], n2.trans[r], {"REQUEST"})
        <5>1. CASE r = s
          BY <2>8, <5>1 DEF FromBlock, SameRole, Asker, Answerer
        <5>2. CASE r # s
          BY <2>10, <5>2 DEF FromBlock, SameRole
        <5> QED
          BY <5>1, <5>2
      <4> QED
        BY <2>9, <4>1, DerivesBlocks
    <3>9. Derives(ns, n5, p, {"REQUEST"}, L)
      <4>1. Derives(ns, n3, p, {"REQUEST"}, L)
        BY <2>13, <3>8, DerivesTrans
      <4>2. Derives(ns, n4, p, {"REQUEST"}, L)
        BY <3>7, <4>1, DerivesTrans
      <4> QED
        BY <3>6, <4>2, DerivesTrans
    <3>10. Fresh(ns, n5, p, req)
      BY <3>4, <3>6, <3>9 DEF Fresh, NextTo
    <3> QED
      BY <2>3, <2>17, <3>10
  <2> QED
    BY <2>16, <2>17
<1> QED
  BY <1>3, <1>4, <1>5

(* The frame at the head of a queue has been heard. *)
LEMMA HeardDerives ==
  ASSUME NEW ns \in NodeState, NEW p \in Node, ns.queue[p] # <<>>, NEW q, NEW S, NEW L,
         NEW m, m = [ns EXCEPT !.queue[p][1].heard = TRUE]
  PROVE  Derives(ns, m, q, S, L) /\ m.nbr = ns.nbr
<1> DEFINE a == ns.queue[p]
           h == [a[1] EXCEPT !.heard = TRUE]
           b == [a EXCEPT ![1] = h]
<1>1. a \in Seq(Packet) /\ a # <<>>
  BY DEF NodeState
<1>2. 1 \in 1..Len(a) /\ a[1] \in Packet
  BY <1>1
<1>3. h.type = a[1].type /\ Pair(h) = Pair(a[1])
  BY <1>2 DEF Packet, Pair
<1>4. m.trans = ns.trans /\ m.nbr = ns.nbr /\ m.queue = [ns.queue EXCEPT ![p] = b]
  BY DEF NodeState
<1> HIDE DEF h
<1>5. DOMAIN b = 1..Len(a) /\ \A i \in 1..Len(a) : b[i] = IF i = 1 THEN h ELSE a[i]
  BY <1>1
<1>6. Len(b) = Len(a)
  BY <1>1, <1>5
<1> HIDE DEF a, b
<1>7. ASSUME NEW r \in Node, NEW i \in 1..Len(m.queue[r])
      PROVE  FromPacket(ns, r, m.queue[r][i], q, S, L)
  <2>1. CASE r # p
    <3>1. m.queue[r] = ns.queue[r]
      BY <1>4, <2>1 DEF NodeState
    <3> QED
      BY <3>1 DEF FromPacket
  <2>2. CASE r = p
    <3>1. m.queue[r] = b
      BY <1>4, <2>2 DEF NodeState
    <3>2. i \in 1..Len(a) /\ m.queue[r][i] = IF i = 1 THEN h ELSE a[i]
      BY <1>5, <1>6, <3>1
    <3>3. m.queue[r][i].type = a[i].type /\ Pair(m.queue[r][i]) = Pair(a[i])
      BY <1>3, <3>2
    <3> QED
      BY <2>2, <3>2, <3>3 DEF FromPacket, a
  <2> QED
    BY <2>1, <2>2
<1>8. \A s \in Slot : FromBlock(ns.trans[s], m.trans[s], q, L)
                      /\ SameRole(ns.trans[s], m.trans[s], S)
  BY <1>4 DEF FromBlock, SameRole
<1> QED
  BY <1>4, <1>7, <1>8 DEF Derives

-----------------------------------------------------------------------------
(* One node, i, starts the transactions.  Whatever it has ever numbered for *)
(* p and is still about in either node or on the air is in a set of pairs  *)
(* in which a number belongs to one request and is less than the next one. *)
Traced(ns, q, K) ==
  /\ \A s \in Slot : Listed(ns.trans[s]) /\ ns.trans[s].peer = q => Pair(ns.trans[s]) \in K
  /\ \A j \in 1..Len(ns.queue[q]) : Pair(ns.queue[q][j]) \in K

InAir(r, q, K) == \A j \in 1..Len(r) : r[j].src = q => Pair(r[j].pkt) \in K

OneRequest(K, next) ==
  /\ \A k \in K : k[1] < next
  /\ \A k, l \in K : k[1] = l[1] => k[2] = l[2]

Numbered(i, p, N, R) ==
  \E K \in SUBSET (Nat \X Nat) :
    /\ Traced(N[i], p, K) /\ Traced(N[p], i, K)
    /\ InAir(R[i], p, K) /\ InAir(R[p], i, K)
    /\ OneRequest(K, NextTo(N[i], p))

NeverAnswers(ns) == \A s \in Slot : ns.trans[s].state \notin Answerer

NoRequests(ns) ==
  /\ \A s \in Slot : ns.trans[s].state \notin Asker
  /\ \A q \in Node : \A j \in 1..Len(ns.queue[q]) : ns.queue[q][j].type # "REQUEST"

Roles(i, N, R) ==
  /\ NeverAnswers(N[i])
  /\ \A n \in Node \ {i} : NoRequests(N[n])
  /\ \A j \in 1..Len(R[i]) : R[i][j].pkt.type # "REQUEST"
  /\ \A n \in Node : \A j \in 1..Len(R[n]) : R[n][j].src # n

Numbering(i, N, R, c) ==
  /\ Roles(i, N, R)
  /\ \A p \in Node \ {i} : Numbered(i, p, N, R) /\ NextTo(N[i], p) <= c

LEMMA DerivesTraced ==
  ASSUME NEW ns, NEW m, NEW p, NEW S, NEW L, Derives(ns, m, p, S, L),
         NEW q \in Node, NEW K, Traced(ns, q, K), NEW J, K \subseteq J,
         q = p => L \subseteq J
  PROVE  Traced(m, q, J)
<1>1. ASSUME NEW s \in Slot, Listed(m.trans[s]), m.trans[s].peer = q
      PROVE  Pair(m.trans[s]) \in J
  <2>1. FromBlock(ns.trans[s], m.trans[s], p, L)
    BY DEF Derives
  <2> QED
    BY <1>1, <2>1 DEF FromBlock, Traced
<1>2. ASSUME NEW j \in 1..Len(m.queue[q]) PROVE Pair(m.queue[q][j]) \in J
  <2>1. FromPacket(ns, q, m.queue[q][j], p, S, L)
    BY DEF Derives
  <2> QED
    BY <2>1 DEF FromPacket, Traced
<1> QED
  BY <1>1, <1>2 DEF Traced

LEMMA DerivesRoles ==
  ASSUME NEW ns, NEW m, NEW p, NEW S, NEW L, Derives(ns, m, p, S, L)
  PROVE  /\ "ANSWER" \notin S /\ NeverAnswers(ns) => NeverAnswers(m)
         /\ "REQUEST" \notin S /\ NoRequests(ns) => NoRequests(m)
<1>1. ASSUME "ANSWER" \notin S, NeverAnswers(ns) PROVE NeverAnswers(m)
  BY <1>1 DEF Derives, NeverAnswers, SameRole
<1>2. ASSUME "REQUEST" \notin S, NoRequests(ns) PROVE NoRequests(m)
  <2>1. \A s \in Slot : m.trans[s].state \notin Asker
    BY <1>2 DEF Derives, NoRequests, SameRole
  <2>2. ASSUME NEW q \in Node, NEW j \in 1..Len(m.queue[q])
        PROVE  m.queue[q][j].type # "REQUEST"
    <3>1. FromPacket(ns, q, m.queue[q][j], p, S, L)
      BY DEF Derives
    <3> QED
      BY <1>2, <3>1 DEF FromPacket, NoRequests
  <2> QED
    BY <2>1, <2>2 DEF NoRequests
<1> QED
  BY <1>1, <1>2

(* Frames are taken off the input rings. *)
Fewer(R, Q) ==
  \A n \in Node : \A j \in 1..Len(Q[n]) : \E h \in 1..Len(R[n]) : Q[n][j] = R[n][h]

(* A node makes of what it holds, and of a frame from p that it has heard,  *)
(* what it likes: the numbers stay those of their requests.                *)
LEMMA NumbersStep ==
  ASSUME NEW i \in Node, NEW N \in [Node -> NodeState], NEW R, NEW c \in Nat, Numbering(i, N, R, c),
         NEW n \in Node, NEW m, NEW p, NEW S, NEW L, Derives(N[n], m, p, S, L),
         n # i => "REQUEST" \notin S,
         n = i => "ANSWER" \notin S /\ SameNext(N[i], m),
         \A l \in L : \E h \in 1..Len(R[n]) : R[n][h].src = p /\ l = Pair(R[n][h].pkt),
         NEW Q, Fewer(R, Q), NEW d \in Nat, c <= d,
         NEW M, M = [N EXCEPT ![n] = m]
  PROVE  Numbering(i, M, Q, d)
<1>1. M[n] = m /\ \A k \in Node \ {n} : M[k] = N[k]
  OBVIOUS
<1>2. Roles(i, M, Q)
  <2>1. NeverAnswers(M[i])
    BY <1>1, DerivesRoles DEF Numbering, Roles
  <2>2. ASSUME NEW k \in Node \ {i} PROVE NoRequests(M[k])
    BY <1>1, DerivesRoles DEF Numbering, Roles
  <2>3. /\ \A j \in 1..Len(Q[i]) : Q[i][j].pkt.type # "REQUEST"
        /\ \A k \in Node : \A j \in 1..Len(Q[k]) : Q[k][j].src # k
    <3>1. \A k \in Node : \A j \in 1..Len(R[k]) : R[k][j].src # k
      BY DEF Numbering, Roles
    <3>2. \A j \in 1..Len(R[i]) : R[i][j].pkt.type # "REQUEST"
      BY DEF Numbering, Roles
    <3>3. ASSUME NEW k \in Node, NEW j \in 1..Len(Q[k])
          PROVE  Q[k][j].src # k /\ (k = i => Q[k][j].pkt.type # "REQUEST")
      <4>1. PICK h \in 1..Len(R[k]) : Q[k][j] = R[k][h]
        BY DEF Fewer
      <4> QED
        BY <3>1, <3>2, <4>1
    <3> QED
      BY <3>3
  <2> QED
    BY <2>1, <2>2, <2>3 DEF Roles
<1>3. ASSUME NEW q \in Node \ {i}
      PROVE  Numbered(i, q, M, Q) /\ NextTo(M[i], q) <= d
  <2>1. PICK K \in SUBSET (Nat \X Nat) :
          /\ Traced(N[i], q, K) /\ Traced(N[q], i, K)
          /\ InAir(R[i], q, K) /\ InAir(R[q], i, K)
          /\ OneRequest(K, NextTo(N[i], q))
    BY DEF Numbering, Numbered
  <2>2. NextTo(M[i], q) = NextTo(N[i], q) /\ NextTo(N[i], q) <= c
    BY <1>1 DEF SameNext, Numbering
  <2>3. Traced(M[i], q, K)
    <3>1. CASE n # i
      BY <1>1, <2>1, <3>1
    <3>2. CASE n = i
      <4>1. q = p => L \subseteq K
        BY <2>1, <3>2 DEF InAir
      <4> QED
        BY <1>1, <2>1, <3>2, <4>1, DerivesTraced
    <3> QED
      BY <3>1, <3>2
  <2>4. Traced(M[q], i, K)
    <3>1. CASE n # q
      BY <1>1, <2>1, <3>1
    <3>2. CASE n = q
      <4>1. i = p => L \subseteq K
        BY <2>1, <3>2 DEF InAir
      <4> QED
        BY <1>1, <2>1, <3>2, <4>1, DerivesTraced
    <3> QED
      BY <3>1, <3>2
  <2>5. InAir(Q[i], q, K) /\ InAir(Q[q], i, K)
    <3>1. ASSUME NEW k \in Node, NEW r \in Node, InAir(R[k], r, K) PROVE InAir(Q[k], r, K)
      <4>1. ASSUME NEW j \in 1..Len(Q[k]), Q[k][j].src = r PROVE Pair(Q[k][j].pkt) \in K
        <5>1. PICK h \in 1..Len(R[k]) : Q[k][j] = R[k][h]
          BY DEF Fewer
        <5> QED
          BY <3>1, <4>1, <5>1 DEF InAir
      <4> QED
        BY <4>1 DEF InAir
    <3> QED
      BY <2>1, <3>1
  <2>6. NextTo(M[i], q) <= d
    BY <2>2 DEF NextTo, NodeState
  <2> QED
    BY <2>1, <2>2, <2>3, <2>4, <2>5, <2>6 DEF Numbered
<1> QED
  BY <1>2, <1>3 DEF Numbering

(* A frame gets on the air. *)
LEMMA NumbersSent ==
  ASSUME NEW i \in Node, NEW N, NEW R \in [Node -> Seq(Frame)], NEW c, Numbering(i, N, R, c),
         NEW n \in Node, NEW p \in Node, n # p, NEW j \in 1..Len(N[n].queue[p]),
         NEW f \in Frame, f.src = n, f.pkt = N[n].queue[p][j],
         NEW Q, Q = [R EXCEPT ![p] = Append(@, f)]
  PROVE  Numbering(i, N, Q, c)
<1>1. \A k \in Node \ {p} : Q[k] = R[k]
  OBVIOUS
<1>2. PICK b : b = R[p]
  OBVIOUS
<1>3. PICK e : e = Append(b, f)
  OBVIOUS
<1>4. b \in Seq(Frame) /\ Q[p] = e
  BY <1>2, <1>3
<1>5. \A h \in 1..Len(e) : IF h = Len(b) + 1 THEN e[h] = f ELSE h \in 1..Len(b) /\ e[h] = b[h]
  BY <1>3, <1>4, AppendElements
<1>6. \A k \in Node : \A h \in 1..Len(Q[k]) :
        \/ h \in 1..Len(R[k]) /\ Q[k][h] = R[k][h]
        \/ k = p /\ Q[k][h] = f
  BY <1>1, <1>2, <1>4, <1>5
<1>7. Roles(i, N, Q)
  <2>1. p = i => f.pkt.type # "REQUEST"
    BY DEF Numbering, Roles, NoRequests
  <2>2. \A h \in 1..Len(Q[i]) : Q[i][h].pkt.type # "REQUEST"
    BY <1>6, <2>1 DEF Numbering, Roles
  <2>3. \A k \in Node : \A h \in 1..Len(Q[k]) : Q[k][h].src # k
    BY <1>6 DEF Numbering, Roles
  <2> QED
    BY <2>2, <2>3 DEF Numbering, Roles
<1>8. ASSUME NEW q \in Node \ {i} PROVE Numbered(i, q, N, Q) /\ NextTo(N[i], q) <= c
  <2>1. PICK K \in SUBSET (Nat \X Nat) :
          /\ Traced(N[i], q, K) /\ Traced(N[q], i, K)
          /\ InAir(R[i], q, K) /\ InAir(R[q], i, K)
          /\ OneRequest(K, NextTo(N[i], q))
    BY DEF Numbering, Numbered
  <2>2. InAir(Q[i], q, K)
    <3>1. i = p /\ n = q => Pair(f.pkt) \in K
      BY <2>1 DEF Traced
    <3> QED
      BY <1>6, <2>1, <3>1 DEF InAir
  <2>3. InAir(Q[q], i, K)
    <3>1. q = p /\ n = i => Pair(f.pkt) \in K
      BY <2>1 DEF Traced
    <3> QED
      BY <1>6, <2>1, <3>1 DEF InAir
  <2> QED
    BY <2>1, <2>2, <2>3 DEF Numbered, Numbering
<1> QED
  BY <1>7, <1>8 DEF Numbering

(* A request takes the next number, which has not been used. *)
LEMMA NumbersFresh ==
  ASSUME NEW i \in Node, NEW N \in [Node -> NodeState], NEW R, NEW c \in Nat, Numbering(i, N, R, c),
         c < MaxSeqno, NEW p \in Node \ {i}, NEW m, NEW req \in Nat, Fresh(N[i], m, p, req),
         NEW M, M = [N EXCEPT ![i] = m]
  PROVE  Numbering(i, M, R, c + 1)
<1> DEFINE next == NextTo(N[i], p)
           L == {<<next, req>>}
<1>1. M[i] = m /\ \A k \in Node \ {i} : M[k] = N[k]
  OBVIOUS
<1>2. next \in Nat /\ next <= c /\ \A q \in Node : NextTo(N[i], q) \in Nat
  <2>1. N[i].nbr \in [Node -> 0..MaxSeqno \cup {NoNbr}]
    BY DEF NodeState
  <2>2. \A q \in Node : NextTo(N[i], q) \in Nat
    BY <2>1, SeqnoAssumption DEF NextTo, NoNbr
  <2> QED
    BY <2>2 DEF Numbering
<1>3. NextTo(m, p) = next + 1 /\ \A q \in Node \ {p} : NextTo(m, q) = NextTo(N[i], q)
  <2>1. NextSeqno(next) = next + 1
    BY <1>2, SeqnoAssumption DEF NextSeqno
  <2> QED
    BY <2>1 DEF Fresh
<1> HIDE DEF next
<1>4. Derives(N[i], m, p, {"REQUEST"}, L)
  BY DEF Fresh, next
<1>5. Roles(i, M, R)
  <2>1. NeverAnswers(m)
    BY <1>4, DerivesRoles DEF Numbering, Roles
  <2> QED
    BY <1>1, <2>1 DEF Numbering, Roles
<1>6. ASSUME NEW q \in Node \ {i}
      PROVE  Numbered(i, q, M, R) /\ NextTo(M[i], q) <= c + 1
  <2>1. PICK K \in SUBSET (Nat \X Nat) :
          /\ Traced(N[i], q, K) /\ Traced(N[q], i, K)
          /\ InAir(R[i], q, K) /\ InAir(R[q], i, K)
          /\ OneRequest(K, NextTo(N[i], q))
    BY DEF Numbering, Numbered
  <2>2. NextTo(N[i], q) <= c
    BY DEF Numbering
  <2>3. CASE q # p
    <3>1. Traced(M[i], q, K)
      BY <1>1, <1>4, <2>1, <2>3, DerivesTraced
    <3>2. Numbered(i, q, M, R)
      BY <1>1, <1>3, <2>1, <2>3, <3>1 DEF Numbered
    <3> QED
      BY <1>1, <1>2, <1>3, <2>2, <2>3, <3>2
  <2>4. CASE q = p
    <3>1. PICK J : J = K \cup L
      OBVIOUS
    <3>2. J \in SUBSET (Nat \X Nat) /\ K \subseteq J /\ L \subseteq J
      BY <1>2, <3>1
    <3>3. Traced(M[i], q, J)
      BY <1>1, <1>4, <2>1, <3>2, DerivesTraced
    <3>4. Traced(M[q], i, J) /\ InAir(R[i], q, J) /\ InAir(R[q], i, J)
      BY <1>1, <2>1, <3>2 DEF Traced, InAir
    <3>5. OneRequest(J, NextTo(M[i], q))
      <4>1. \A k \in J : k \in K \/ (k[1] = next /\ k[2] = req)
        BY <3>1
      <4>2. \A k \in K : k[1] < next /\ k[1] \in Nat
        BY <2>1, <2>4 DEF OneRequest, next
      <4>3. \A k \in J : k[1] < next + 1
        BY <1>2, <4>1, <4>2
      <4>4. \A k, l \in J : k[1] = l[1] => k[2] = l[2]
        BY <1>2, <2>1, <4>1, <4>2 DEF OneRequest
      <4> QED
        BY <1>1, <1>3, <2>4, <4>3, <4>4 DEF OneRequest
    <3>6. Numbered(i, q, M, R)
      BY <3>2, <3>3, <3>4, <3>5 DEF Numbered
    <3> QED
      BY <1>1, <1>2, <1>3, <2>4, <3>6
  <2> QED
    BY <2>3, <2>4
<1> QED
  BY <1>5, <1>6 DEF Numbering

(* One initiator that never sends CLEAR, no power cycle, and fewer requests *)
(* than there are numbers.                                                 *)
OneInitiator(i) ==
  /\ Initiator \subseteq {i} /\ "CLEAR" \notin ReqCmd
  /\ MaxReboot = 0 /\ MaxRequest <= MaxSeqno

NumberInv(i) == Numbering(i, node, rx, nreq)

LEMMA NumbersInit ==
  ASSUME NEW i \in Node, Init
  PROVE  NumberInv(i)
<1>1. \A n \in Node : node[n] = BootState /\ rx[n] = <<>>
  BY DEF Init
<1>2. /\ \A s \in Slot : BootState.trans[s] = FreeTrans
      /\ \A q \in Node : BootState.queue[q] = <<>> /\ BootState.nbr[q] = NoNbr
  BY DEF BootState
<1>3. FreeTrans.state = "UNAVAILABLE"
  BY DEF FreeTrans
<1>4. Roles(i, node, rx)
  BY <1>1, <1>2, <1>3 DEF Roles, NeverAnswers, NoRequests, Asker, Answerer
<1>5. ASSUME NEW p \in Node \ {i}
      PROVE  Numbered(i, p, node, rx) /\ NextTo(node[i], p) <= nreq
  <2>1. /\ Traced(BootState, p, {}) /\ Traced(BootState, i, {})
    BY <1>2, <1>3 DEF Traced, Listed
  <2>2. InAir(<<>>, p, {}) /\ InAir(<<>>, i, {}) /\ OneRequest({}, NextTo(node[i], p))
    BY DEF InAir, OneRequest
  <2>3. Numbered(i, p, node, rx)
    BY <1>1, <2>1, <2>2 DEF Numbered
  <2>4. NextTo(node[i], p) = 0 /\ nreq = 0
    BY <1>1, <1>2 DEF NextTo, Init
  <2> QED
    BY <2>3, <2>4
<1> QED
  BY <1>4, <1>5 DEF NumberInv, Numbering

(* No step but the processing of a frame takes a response. *)
NothingTaken(ns, m) ==
  \A s \in Slot : m.trans[s].state = "RESPONSE_RECEIVED"
                    => ns.trans[s].state = "RESPONSE_RECEIVED"

LEMMA DerivesNothing ==
  ASSUME NEW ns, NEW m, NEW p, NEW S, NEW L, Derives(ns, m, p, S, L), "TAKES" \notin S
  PROVE  NothingTaken(ns, m)
BY DEF Derives, SameRole, NothingTaken

(* What a step may do to the responses of i. *)
RightTaken(i) ==
  \A s \in Slot :
    /\ node'[i].trans[s].state = "RESPONSE_RECEIVED"
    /\ node[i].trans[s].state \in Asker
    => Head(rx[i]).pkt.req = node[i].trans[s].req

LEMMA NothingRight ==
  ASSUME NEW i \in Node, NothingTaken(node[i], node'[i])
  PROVE  RightTaken(i)
BY DEF NothingTaken, RightTaken, Asker

LEMMA FewerSame == ASSUME NEW R PROVE Fewer(R, R)
BY DEF Fewer

(* A step of one node that takes nothing from its input. *)
LEMMA NumbersQuiet ==
  ASSUME Inv, NEW i \in Node, NumberInv(i), NEW n \in Node, NEW m,
         Derives(node[n], m, n, {}, {}), n = i => SameNext(node[i], m),
         node' = [node EXCEPT ![n] = m], rx' = rx, nreq' \in Nat, nreq <= nreq'
  PROVE  NumberInv(i)' /\ RightTaken(i)
<1>1. node \in [Node -> NodeState] /\ nreq \in Nat
  BY DEF Inv, TypeOK
<1>2. Fewer(rx, rx')
  BY FewerSame
<1>3. Numbering(i, node', rx', nreq')
  <2> DEFINE S == {}
             L == {}
             Q == rx'
             d == nreq'
  <2>1. n # i => "REQUEST" \notin S
    OBVIOUS
  <2>2. n = i => "ANSWER" \notin S /\ SameNext(node[i], m)
    OBVIOUS
  <2>3. \A l \in L : \E h \in 1..Len(rx[n]) : rx[n][h].src = n /\ l = Pair(rx[n][h].pkt)
    OBVIOUS
  <2>4. Numbering(i, node, rx, nreq)
    BY DEF NumberInv
  <2>5. Derives(node[n], m, n, S, L)
    OBVIOUS
  <2> HIDE DEF S, L, Q, d
  <2>6. Fewer(rx, Q) /\ d \in Nat /\ nreq <= d
    BY <1>2 DEF Q, d
  <2>7. Numbering(i, node', Q, d)
    BY <1>1, <2>1, <2>2, <2>3, <2>4, <2>5, <2>6, NumbersStep, Zenon
  <2> QED
    BY <2>7 DEF Q, d
<1>4. NothingTaken(node[i], node'[i])
  <2>1. CASE n = i
    <3>1. NothingTaken(node[i], m)
      BY <2>1, DerivesNothing
    <3> QED
      BY <1>1, <2>1, <3>1
  <2>2. CASE n # i
    BY <1>1, <2>2 DEF NothingTaken
  <2> QED
    BY <2>1, <2>2
<1> QED
  BY <1>3, <1>4, NothingRight DEF NumberInv

LEMMA NumbersInput ==
  ASSUME Inv, NEW i \in Node, NumberInv(i), NEW n \in Node, rx[n] # <<>>, NEW f, f = Head(rx[n]),
         NEW answer, NEW body \in Body, NEW cb \in Cmd \cup {"NONE"}, NEW res,
         NEW m, m = HandleFrame(node[n], f, answer, body, cb, res),
         node' = [node EXCEPT ![n] = m], rx' = [rx EXCEPT ![n] = Tail(rx[n])], nreq' = nreq
  PROVE  NumberInv(i)' /\ RightTaken(i)
<1>0. /\ node \in [Node -> NodeState] /\ nreq \in Nat /\ rx \in [Node -> Seq(Frame)]
      /\ NodeInv(node[n]) /\ Numbering(i, node, rx, nreq)
  BY DEF Inv, TypeOK, NumberInv
<1>1. PICK a : a = rx[n]
  OBVIOUS
<1>2. PICK b : b = Tail(a)
  OBVIOUS
<1>3. a \in Seq(Frame) /\ a # <<>>
  BY <1>0, <1>1
<1>4. /\ \A j \in 1..Len(b) : j + 1 \in 1..Len(a) /\ b[j] = a[j + 1]
      /\ f = a[1] /\ f \in Frame /\ 1 \in 1..Len(a)
  BY <1>1, <1>2, <1>3, TailElements
<1>5. Fewer(rx, rx')
  <2>1. ASSUME NEW k \in Node, NEW j \in 1..Len(rx'[k])
        PROVE  \E h \in 1..Len(rx[k]) : rx'[k][j] = rx[k][h]
    <3>1. CASE k = n
      <4>1. rx'[k] = b
        BY <1>0, <1>1, <1>2, <3>1
      <4> QED
        BY <1>1, <1>4, <3>1, <4>1
    <3>2. CASE k # n
      <4>1. rx'[k] = rx[k]
        BY <1>0, <3>2
      <4> QED
        BY <4>1
    <3> QED
      BY <3>1, <3>2
  <2> QED
    BY <2>1 DEF Fewer
<1> DEFINE L == {Pair(f.pkt)}
<1>6. /\ Derives(node[n], m, f.src, Brings(f.pkt), L)
      /\ f.pkt.type # "REQUEST" => m.nbr = node[n].nbr
      /\ Takes(node[n], m, f.src, f.pkt)
  <2>1. FrameTaken(node[n], m, f)
    BY <1>0, <1>4, HandleFrameDerives, Zenon
  <2> QED
    BY <2>1, Zenon DEF FrameTaken
<1>7. n = i => f.pkt.type # "REQUEST"
  BY <1>0, <1>1, <1>4 DEF Numbering, Roles
<1>8. "REQUEST" \notin Brings(f.pkt) /\ (n = i => "ANSWER" \notin Brings(f.pkt))
  BY <1>7 DEF Brings
<1>9. n = i => SameNext(node[i], m)
  BY <1>6, <1>7 DEF SameNext, NextTo
<1>10. Numbering(i, node', rx', nreq')
  <2>1. \A l \in L : \E h \in 1..Len(rx[n]) : rx[n][h].src = f.src /\ l = Pair(rx[n][h].pkt)
    BY <1>1, <1>4
  <2>2. PICK S : S = Brings(f.pkt)
    OBVIOUS
  <2>3. /\ Derives(node[n], m, f.src, S, L) /\ (n # i => "REQUEST" \notin S)
        /\ n = i => "ANSWER" \notin S /\ SameNext(node[i], m)
    BY <1>6, <1>8, <1>9, <2>2
  <2>4. nreq' \in Nat /\ nreq <= nreq'
    BY <1>0
  <2> HIDE DEF L
  <2> QED
    BY <1>0, <1>5, <2>1, <2>3, <2>4, NumbersStep, ZenonT(60)
<1>11. RightTaken(i)
  <2>1. CASE n # i
    <3>1. NothingTaken(node[i], node'[i])
      BY <1>0, <2>1 DEF NothingTaken
    <3> QED
      BY <3>1, NothingRight
  <2>2. CASE n = i
    <3>1. SUFFICES ASSUME NEW s \in Slot, node'[i].trans[s].state = "RESPONSE_RECEIVED",
                          node[i].trans[s].state \in Asker
                   PROVE  f.pkt.req = node[i].trans[s].req
      BY <2>2 DEF RightTaken
    <3>2. node'[i] = m
      BY <1>0, <2>2
    <3>3. node[i].trans[s].peer = f.src /\ node[i].trans[s].seqno = f.pkt.seqno
      BY <1>6, <2>2, <3>1, <3>2 DEF Takes
    <3>4. f.src \in Node \ {i}
      BY <1>0, <1>1, <1>4, <2>2 DEF Numbering, Roles, Frame
    <3>5. PICK K \in SUBSET (Nat \X Nat) :
            /\ Traced(node[i], f.src, K) /\ InAir(rx[i], f.src, K)
            /\ OneRequest(K, NextTo(node[i], f.src))
      BY <1>0, <3>4 DEF Numbering, Numbered
    <3>6. Pair(node[i].trans[s]) \in K
      BY <3>1, <3>3, <3>5 DEF Traced, Listed, Asker
    <3>7. Pair(f.pkt) \in K
      BY <1>1, <1>4, <2>2, <3>5 DEF InAir
    <3> QED
      BY <3>3, <3>5, <3>6, <3>7 DEF OneRequest, Pair
  <2> QED
    BY <2>1, <2>2
<1> QED
  BY <1>10, <1>11 DEF NumberInv

LEMMA NumbersRequest ==
  ASSUME Inv, NEW i \in Node, OneInitiator(i), NumberInv(i), NEW p \in Node \ {i},
         NEW cmd \in ReqCmd, NEW body \in Body, NEW cb \in Callback,
         NEW flush \in Flushing, NEW res \in Result, Request(i, p, cmd, body, cb, flush, res)
  PROVE  NumberInv(i)' /\ RightTaken(i)
<1> DEFINE n1 == Flush(node[i], p, flush)
           m == OutputRequest(n1, p, cmd, body, cb, nreq + 1, res)
<1>0. /\ node \in [Node -> NodeState] /\ nreq \in Nat /\ NodeInv(node[i])
      /\ Numbering(i, node, rx, nreq)
  BY DEF Inv, TypeOK, NumberInv
<1>1. /\ node' = [node EXCEPT ![i] = m] /\ rx' = rx /\ nreq' = nreq + 1
      /\ nreq < MaxRequest
  BY <1>0 DEF Request
<1>2. cmd \in Cmd /\ cmd # "CLEAR" /\ cb \in Cmd \cup {"NONE"}
  BY InitiatorAssumption, ReplyAssumption DEF OneInitiator
<1>3. NodeInv(n1) /\ Derives(node[i], n1, i, {}, {}) /\ n1.nbr = node[i].nbr
  <2>1. NodeInv(n1)
    BY <1>0, FlushInv
  <2>2. Derives(node[i], n1, i, {}, {}) /\ n1.nbr = node[i].nbr
    BY <1>0, FlushDerives
  <2> QED
    BY <2>1, <2>2
<1>3b. Derives(node[i], n1, p, {}, {}) /\ Derives(node[i], n1, p, {"REQUEST"}, {<<NextTo(n1, p), nreq + 1>>})
  BY <1>0, FlushDerives
<1> HIDE DEF n1
<1>4. \/ Derives(n1, m, p, {}, {}) /\ SameNext(n1, m)
      \/ Fresh(n1, m, p, nreq + 1)
  BY <1>0, <1>2, <1>3, OutputRequestDerives
<1> HIDE DEF m
<1>5. \A q \in Node : NextTo(n1, q) = NextTo(node[i], q)
  BY <1>3 DEF NextTo
<1>6. CASE Derives(n1, m, p, {}, {}) /\ SameNext(n1, m)
  <2>1. Derives(node[i], m, p, {}, {})
    BY <1>3b, <1>6, DerivesTrans
  <2>2. Derives(node[i], m, i, {}, {})
    BY <2>1 DEF Derives, FromBlock, FromPacket
  <2>3. SameNext(node[i], m)
    BY <1>5, <1>6 DEF SameNext
  <2>4. nreq' \in Nat /\ nreq <= nreq'
    BY <1>0, <1>1
  <2> QED
    BY <1>0, <1>1, <2>2, <2>3, <2>4, NumbersQuiet, Zenon
<1>7. CASE Fresh(n1, m, p, nreq + 1)
  <2>1. Fresh(node[i], m, p, nreq + 1)
    <3>1. Derives(n1, m, p, {"REQUEST"}, {<<NextTo(n1, p), nreq + 1>>})
      BY <1>7 DEF Fresh
    <3>2. Derives(node[i], m, p, {"REQUEST"}, {<<NextTo(n1, p), nreq + 1>>})
      BY <1>3b, <3>1, DerivesTrans
    <3> QED
      BY <1>5, <1>7, <3>2 DEF Fresh
  <2>2. nreq < MaxSeqno
    BY <1>0, <1>1, BoundAssumption, SeqnoAssumption DEF OneInitiator
  <2>3. Numbering(i, node', rx, nreq + 1)
    <3>1. nreq + 1 \in Nat
      BY <1>0
    <3>2. node' = [node EXCEPT ![i] = m]
      BY <1>1
    <3> QED
      BY <1>0, <2>1, <2>2, <3>1, <3>2, NumbersFresh, Zenon
  <2>4. NothingTaken(node[i], m)
    BY <2>1, DerivesNothing DEF Fresh
  <2>5. RightTaken(i)
    BY <1>0, <1>1, <2>4, NothingRight
  <2> QED
    BY <1>1, <2>3, <2>5 DEF NumberInv
<1> QED
  BY <1>4, <1>6, <1>7

LEMMA NumbersNext ==
  ASSUME Inv, NEW i \in Node, OneInitiator(i), NumberInv(i), [Next]_vars
  PROVE  NumberInv(i)' /\ RightTaken(i)
<1>0. /\ node \in [Node -> NodeState] /\ nreq \in Nat /\ rx \in [Node -> Seq(Frame)]
      /\ reboots \in Nat /\ Numbering(i, node, rx, nreq) /\ \A n \in Node : NodeInv(node[n])
  BY DEF Inv, TypeOK, NumberInv
<1>1. CASE UNCHANGED vars
  <2>1. NumberInv(i)'
    BY <1>1 DEF NumberInv, vars
  <2>2. RightTaken(i)
    BY <1>1 DEF RightTaken, vars, Asker
  <2> QED
    BY <2>1, <2>2
<1>2. ASSUME NEW n \in Node, AddSf(n) PROVE NumberInv(i)' /\ RightTaken(i)
  <2>1. PICK m : m = [node[n] EXCEPT !.sf = TRUE]
    OBVIOUS
  <2>2. node' = [node EXCEPT ![n] = m] /\ rx' = rx /\ nreq' = nreq
    BY <1>2, <2>1 DEF AddSf
  <2>3. m.trans = node[n].trans /\ m.queue = node[n].queue /\ m.nbr = node[n].nbr
    BY <1>0, <2>1 DEF NodeState
  <2>4. Derives(node[n], m, n, {}, {}) /\ SameNext(node[n], m)
    BY <2>3, DerivesSame, SameNbr
  <2>5. nreq' \in Nat /\ nreq <= nreq' /\ (n = i => SameNext(node[i], m))
    BY <1>0, <2>2, <2>4
  <2> QED
    BY <1>0, <2>2, <2>4, <2>5, NumbersQuiet, Zenon
<1>3. ASSUME NEW n \in Initiator, NEW p \in Node \ {n}, NEW cmd \in ReqCmd, NEW body \in Body,
             NEW cb \in Callback, NEW flush \in Flushing, NEW res \in Result,
             Request(n, p, cmd, body, cb, flush, res)
      PROVE  NumberInv(i)' /\ RightTaken(i)
  <2>1. n = i
    BY DEF OneInitiator
  <2> QED
    BY <1>3, <2>1, NumbersRequest
<1>4. ASSUME NEW n \in Node, NEW answer \in BOOLEAN, NEW body \in ReplyBody,
             NEW cb \in Callback, NEW res \in Result, Input(n, answer, body, cb, res)
      PROVE  NumberInv(i)' /\ RightTaken(i)
  <2>1. PICK f : f = Head(rx[n])
    OBVIOUS
  <2>2. PICK m : m = HandleFrame(node[n], f, answer, body, cb, res)
    OBVIOUS
  <2>3. /\ rx[n] # <<>> /\ node' = [node EXCEPT ![n] = m]
        /\ rx' = [rx EXCEPT ![n] = Tail(rx[n])] /\ nreq' = nreq
    BY <1>4, <2>1, <2>2 DEF Input
  <2>4. body \in Body /\ cb \in Cmd \cup {"NONE"}
    BY ReplyAssumption
  <2> QED
    BY <2>1, <2>2, <2>3, <2>4, NumbersInput
<1>5. ASSUME NEW n \in Node, NEW p \in Node \ {n}, Transmit(n, p)
      PROVE  NumberInv(i)' /\ RightTaken(i)
  <2>1. PICK f : f = [src |-> n, pkt |-> Head(node[n].queue[p])]
    OBVIOUS
  <2>2. PICK m : m = [node[n] EXCEPT !.queue[p][1].heard = TRUE]
    OBVIOUS
  <2>3. /\ node[n].queue[p] # <<>> /\ node' = [node EXCEPT ![n] = m]
        /\ rx' = [rx EXCEPT ![p] = Append(@, f)] /\ nreq' = nreq
    BY <1>5, <2>1, <2>2 DEF Transmit
  <2>4. node[n].queue[p] \in Seq(Packet)
    BY <1>0 DEF NodeState
  <2>5. 1 \in 1..Len(node[n].queue[p]) /\ f \in Frame /\ f.src = n /\ f.pkt = node[n].queue[p][1]
    BY <2>1, <2>3, <2>4 DEF Frame
  <2>6. Numbering(i, node, rx', nreq)
    BY <1>0, <2>3, <2>5, NumbersSent
  <2>7. Derives(node[n], m, n, {}, {}) /\ m.nbr = node[n].nbr
    BY <1>0, <2>2, <2>3, HeardDerives
  <2>8. SameNext(node[n], m)
    BY <2>7, SameNbr
  <2>9. Numbering(i, node', rx', nreq')
    <3> DEFINE S == {}
               L == {}
               R == rx'
    <3>1. n # i => "REQUEST" \notin S
      OBVIOUS
    <3>2. n = i => "ANSWER" \notin S /\ SameNext(node[i], m)
      BY <2>8
    <3>3. \A l \in L : \E h \in 1..Len(R[n]) : R[n][h].src = n /\ l = Pair(R[n][h].pkt)
      OBVIOUS
    <3>4. Fewer(R, R) /\ nreq' \in Nat /\ nreq <= nreq'
      BY <1>0, <2>3, FewerSame
    <3>3a. Derives(node[n], m, n, S, L)
      BY <2>7
    <3> HIDE DEF R, S, L
    <3>5. Numbering(i, node, R, nreq)
      BY <2>6 DEF R
    <3>6. Numbering(i, node', R, nreq')
      BY <1>0, <2>3, <3>1, <3>2, <3>3, <3>3a, <3>4, <3>5, NumbersStep, Zenon
    <3> QED
      BY <3>6 DEF R
  <2>10. NothingTaken(node[i], node'[i])
    <3>1. CASE n = i
      <4>1. NothingTaken(node[i], m)
        BY <2>7, <3>1, DerivesNothing
      <4> QED
        BY <1>0, <2>3, <3>1, <4>1
    <3>2. CASE n # i
      BY <1>0, <2>3, <3>2 DEF NothingTaken
    <3> QED
      BY <3>1, <3>2
  <2> QED
    BY <2>9, <2>10, NothingRight DEF NumberInv
<1>6. ASSUME NEW n \in Node, NEW p \in Node \ {n}, NEW ok \in BOOLEAN, MacDone(n, p, ok)
      PROVE  NumberInv(i)' /\ RightTaken(i)
  <2>1. PICK m : m = DoneWith(node[n], p, ok)
    OBVIOUS
  <2>2. /\ node[n].queue[p] # <<>> /\ node' = [node EXCEPT ![n] = m]
        /\ rx' = rx /\ nreq' = nreq
    BY <1>6, <2>1 DEF MacDone
  <2>3. /\ Derives(node[n], m, n, {}, {})
        /\ (\A s \in Slot : node[n].trans[s].state # "RESPONSE_SENDING") => m.nbr = node[n].nbr
    BY <1>0, <2>1, <2>2, DoneWithDerives
  <2>4. n = i => SameNext(node[i], m)
    <3>1. n = i => m.nbr = node[n].nbr
      BY <1>0, <2>3 DEF Numbering, Roles, NeverAnswers, Answerer
    <3> QED
      BY <3>1, SameNbr
  <2>5. nreq' \in Nat /\ nreq <= nreq'
    BY <1>0, <2>2
  <2> QED
    BY <1>0, <2>2, <2>3, <2>4, <2>5, NumbersQuiet, Zenon
<1>7. ASSUME NEW n \in Node, NEW s \in Slot, Timer(n, s)
      PROVE  NumberInv(i)' /\ RightTaken(i)
  <2>1. Listed(node[n].trans[s])
    BY <1>0, <1>7 DEF Timer, NodeInv, TimerArmedAt
  <2>2. PICK k : k = HandleTransTimeout(node[n], s)
    OBVIOUS
  <2>3. PICK l : l = ProcessTrans(node[n], s)
    OBVIOUS
  <2>4. Derives(node[n], k, n, {}, {}) /\ k.nbr = node[n].nbr
    <3>1. node[n] \in NodeState /\ "TERMINATING" \in TransState
          /\ k = Transit(node[n], s, "TERMINATING")
      BY <1>0, <2>2 DEF TransState, HandleTransTimeout
    <3> QED
      BY <2>1, <3>1, TransitDerives
  <2>5. Derives(node[n], l, n, {}, {}) /\ l.nbr = node[n].nbr
    BY <1>0, <2>1, <2>3, ProcessTransDerives
  <2>6. PICK m : (m = k \/ m = l) /\ node' = [node EXCEPT ![n] = m]
    BY <1>7, <2>2, <2>3 DEF Timer
  <2>7. Derives(node[n], m, n, {}, {}) /\ m.nbr = node[n].nbr
    BY <2>4, <2>5, <2>6
  <2>8. SameNext(node[n], m) /\ rx' = rx /\ nreq' = nreq
    BY <1>7, <2>7, SameNbr DEF Timer
  <2> QED
    <3>1. nreq' \in Nat /\ nreq <= nreq' /\ (n = i => SameNext(node[i], m))
      BY <1>0, <2>8
    <3> QED
      BY <1>0, <2>6, <2>7, <2>8, <3>1, NumbersQuiet, Zenon
<1>8. ASSUME NEW n \in Node, Reboot(n) PROVE FALSE
  BY <1>0, <1>8 DEF Reboot, OneInitiator
<1> QED
  BY <1>1, <1>2, <1>3, <1>4, <1>5, <1>6, <1>7, <1>8 DEF Next

(* A delayed response is never taken for the answer to a later request, as *)
(* the comment on next_seqno in sixp_output() says: with one node that     *)
(* starts transactions, none of them CLEAR, no power cycle, and as long as *)
(* the numbers do not wrap.  Each of these is needed.                      *)
THEOREM ResponsesMatch ==
  ASSUME NEW i \in Node, OneInitiator(i)
  PROVE  Spec => ResponseMatchesRequest
<1> DEFINE A == \A n \in Node, s \in Slot :
                  /\ node'[n].trans[s].state = "RESPONSE_RECEIVED"
                  /\ node[n].trans[s].state \in {"REQUEST_SENDING", "REQUEST_SENT"}
                  => Head(rx[n]).pkt.req = node[n].trans[s].req
<1>1. Init => Inv /\ NumberInv(i)
  BY InvInit, NumbersInit
<1>2. Inv /\ NumberInv(i) /\ [Next]_vars => Inv' /\ NumberInv(i)'
  BY InvStep, NumbersNext
<1>3. Inv /\ NumberInv(i) /\ [Next]_vars => [A]_vars
  <2> SUFFICES ASSUME Inv, NumberInv(i), [Next]_vars, NEW n \in Node, NEW s \in Slot,
                      node'[n].trans[s].state = "RESPONSE_RECEIVED",
                      node[n].trans[s].state \in {"REQUEST_SENDING", "REQUEST_SENT"}
               PROVE  Head(rx[n]).pkt.req = node[n].trans[s].req
    OBVIOUS
  <2>1. RightTaken(i)
    BY NumbersNext
  <2>2. n = i
    BY DEF NumberInv, Numbering, Roles, NoRequests, Asker
  <2> QED
    BY <2>1, <2>2 DEF RightTaken, Asker
<1> HIDE DEF A
<1>4. Spec => [][A]_vars
  BY <1>1, <1>2, <1>3, PTL DEF Spec
<1> QED
  BY <1>4 DEF A, ResponseMatchesRequest
=============================================================================

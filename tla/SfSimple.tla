------------------------------ MODULE SfSimple ------------------------------
(***************************************************************************)
(* The scheduling function sf-simple and the two 6P processes of child.c,  *)
(* on top of 6P (module Sixp): a child asks its parent for transmission    *)
(* cells, relocates cells that perform badly, and both keep the result in  *)
(* their TSCH schedules.                                                   *)
(*                                                                         *)
(* A cell is <<timeslot_offset, channel_offset>>.  Requests are for one    *)
(* cell (num_links is 1 in every call), so res_storage is its first cell.  *)
(***************************************************************************)
EXTENDS Sixp, FiniteSets

CONSTANTS
  Child, Parent,  \* the two nodes; only the child starts transactions
  Cell,           \* cells the candidate list may hold
  AutoTx,         \* the cell of add_mock_auto_cell() from child to parent
  AutoRx,         \* and the one from parent to child
  MaxCand,        \* bound: candidate cells in a request (4 and 3 in the code)
  Target,         \* TARGET_CELLS_PER_SLOTFRAME
  MaxReloc,       \* bound: relocations asked for in a behaviour
  AppOps          \* which operations the application uses

MinimalCell == <<0, 0>>
NoCell == <<-1, -1>>

ASSUME PairAssumption == Node = {Child, Parent} /\ Child # Parent
ASSUME CellAssumption ==
  /\ IsFiniteSet(Cell)
  /\ AutoTx[1] # AutoRx[1]
  /\ \A c \in Cell \cup {AutoTx, AutoRx} : c \in (Nat \ {0}) \X Nat
ASSUME BodyShapeAssumption ==
  /\ EmptyBody = [rel |-> NoCell, cells |-> {}]
  /\ Body = [rel : Cell \cup {AutoTx, NoCell}, cells : SUBSET (Cell \cup {AutoTx})]
  /\ {"ADD", "DELETE", "RELOCATE"} \subseteq ReqCmd
  /\ Callback = {"NONE", "ADD", "DELETE", "RELOCATE"}
  /\ ReplyBody = Body /\ Initiator = {Child}
  /\ "none" \in Flushing
ASSUME AppAssumption ==
  /\ AppOps \subseteq {"ADD", "DELETE", "RELOCATE"}
  /\ Target \in Nat /\ MaxReloc \in Nat /\ MaxCand \in Nat

VARIABLES
  sf,    \* sf[n]: schedule, res_storage and current_cell_to_be_relocated
  app    \* the application of the child

sfvars == <<node, rx, nreq, reboots, sf, app>>

(* The cells a request may name. *)
UpCell == Cell \cup {AutoTx}

Link == [cell : UpCell \cup {MinimalCell, AutoRx},
         opt : {"TX", "RX", "SHARED"}, peer : Node \cup {NoNode}]

(* A node's schedule, the first cell of res_storage (the cell (0, 0) after *)
(* memset()) and current_cell_to_be_relocated.                             *)
SfState == [sched : SUBSET Link,
            res : UpCell \cup {MinimalCell}, reloc : UpCell \cup {MinimalCell}]

(* add is where sixp_add_cells_process is: waiting for the transaction to  *)
(* end, sensing the candidate cells, or done; rels are the cells that      *)
(* sixp_relocate_cells_process still has to relocate.  clean is a history: *)
(* no acknowledgement was lost and no timeout overtook a frame so far.     *)
AppState == [add : {"wait", "sense", "done"}, added : Nat,
             rels : SUBSET UpCell, nreloc : Nat, clean : BOOLEAN]

SfTypeOK ==
  /\ TypeOK
  /\ sf \in [Node -> SfState]
  /\ app \in AppState

-----------------------------------------------------------------------------
(* tsch-schedule.c, as sf-simple uses it.                                  *)
MkLink(c, opt, p) == [cell |-> c, opt |-> opt, peer |-> p]

(* tsch_schedule_get_link_by_timeslot() = NULL *)
FreeTimeslot(sched, c) == \A l \in sched : l.cell[1] # c[1]

(* tsch_schedule_add_link() with do_remove: what is at the timeslot goes. *)
AddLink(sched, l) == {k \in sched : k.cell[1] # l.cell[1]} \cup {l}

(* tsch_schedule_remove_link_by_offsets() *)
RemoveLink(sched, c) == {k \in sched : k.cell # c}

(* The cells of a schedule with the given option and peer. *)
CellsOf(sched, opt, p) == {l.cell : l \in {k \in sched : k.opt = opt /\ k.peer = p}}

(* add_links_to_schedule() adds the first cell of a list, and              *)
(* remove_links_to_schedule() removes all; here a list has at most one.    *)
AddLinks(sched, cells, opt, p) ==
  IF cells = {} THEN sched
  ELSE AddLink(sched, MkLink(CHOOSE c \in cells : TRUE, opt, p))
RemoveLinks(sched, cells) == {k \in sched : k.cell \notin cells}

-----------------------------------------------------------------------------
(* sf-simple.c: what the handler of a received packet may do.  An outcome  *)
(* says whether it sends a response, which, with which sent-callback, and  *)
(* the state it leaves.                                                    *)
MkBody(rel, cells) == [rel |-> rel, cells |-> cells]
Reply(cells, cb, s) ==
  [answer |-> TRUE, body |-> MkBody(NoCell, cells), cb |-> cb, state |-> s]
NoReply(s) == [answer |-> FALSE, body |-> EmptyBody, cb |-> "NONE", state |-> s]

Feasible(s, cells) == {c \in cells : FreeTimeslot(s.sched, c)}

(* Mutant: the response is sent even if no cell is feasible, with the      *)
(* cleared storage as its cell list.                                       *)
AddReqInput_Unchecked(s, body) ==
  IF Feasible(s, body.cells) = {}
    THEN {Reply({MinimalCell}, "ADD", [s EXCEPT !.res = MinimalCell])}
    ELSE {Reply({c}, "ADD", [s EXCEPT !.res = c]) : c \in Feasible(s, body.cells)}

(* add_req_input(): the first cell of the list whose timeslot is free; any *)
(* of them may be the first.                                               *)
AddReqInput(s, body) ==
  IF body.cells = {} THEN {NoReply(s)}
  ELSE IF Feasible(s, body.cells) = {} THEN {NoReply([s EXCEPT !.res = MinimalCell])}
  ELSE {Reply({c}, "ADD", [s EXCEPT !.res = c]) : c \in Feasible(s, body.cells)}

(* delete_req_input(): always a response; without a cell in it the         *)
(* sent-callback has nothing to remove.                                    *)
DeleteReqInput(s, body) ==
  LET found == {c \in body.cells : \E l \in s.sched : l.cell = c}
  IN  IF found = {}
        THEN {Reply({}, "NONE", [s EXCEPT !.res = MinimalCell])}
        ELSE {Reply({c}, "DELETE", [s EXCEPT !.res = c]) : c \in found}

(* relocate_req_input() *)
RelocateReqInput(s, body) ==
  IF body.cells = {} \/ body.rel = NoCell THEN {NoReply(s)}
  ELSE IF Feasible(s, body.cells) = {} THEN {NoReply([s EXCEPT !.res = MinimalCell])}
  ELSE {Reply({c}, "RELOCATE", [s EXCEPT !.res = c, !.reloc = body.rel]) :
          c \in Feasible(s, body.cells)}

(* request_input() *)
RequestInput(s, pkt) ==
  CASE pkt.code = "ADD" -> AddReqInput(s, pkt.body)
    [] pkt.code = "DELETE" -> DeleteReqInput(s, pkt.body)
    [] pkt.code = "RELOCATE" -> RelocateReqInput(s, pkt.body)
    [] OTHER -> {NoReply(s)}

(* response_input(), for a response to command cmd from p. *)
ResponseInput(s, cmd, pkt, p) ==
  LET cells == pkt.body.cells
      added == AddLinks(s.sched, cells, "TX", p)
  IN  IF pkt.code # "SUCCESS" THEN s
      ELSE CASE cmd = "ADD" -> [s EXCEPT !.sched = added]
             [] cmd = "DELETE" -> [s EXCEPT !.sched = RemoveLinks(@, cells)]
             [] cmd = "RELOCATE" -> [s EXCEPT !.sched = RemoveLink(added, s.reloc)]
             [] OTHER -> s

(* input(): confirmations are not supported. *)
SfInput(ns, s, f) ==
  CASE f.pkt.type = "REQUEST" -> RequestInput(s, f.pkt)
    [] f.pkt.type = "RESPONSE" ->
         {NoReply(ResponseInput(s, ns.trans[Find(ns, f.src)].cmd, f.pkt, f.src))}
    [] OTHER -> {NoReply(s)}

(* Mutant: the callbacks do not look at the status of the transmission. *)
SentCallback_AnyStatus(s, cb, p, ok) ==
  CASE cb = "ADD" -> [s EXCEPT !.sched = AddLink(@, MkLink(s.res, "RX", p))]
    [] cb = "DELETE" -> [s EXCEPT !.sched = RemoveLink(@, s.res)]
    [] cb = "RELOCATE" ->
         [s EXCEPT !.sched = RemoveLink(AddLink(@, MkLink(s.res, "RX", p)), s.reloc)]
    [] OTHER -> s

(* The response-sent callbacks: the schedule follows res_storage once the  *)
(* response has been acknowledged.                                         *)
SentCallback(s, cb, p, ok) ==
  CASE cb = "ADD" /\ ok -> [s EXCEPT !.sched = AddLink(@, MkLink(s.res, "RX", p))]
    [] cb = "DELETE" /\ ok -> [s EXCEPT !.sched = RemoveLink(@, s.res)]
    [] cb = "RELOCATE" /\ ok ->
         [s EXCEPT !.sched = RemoveLink(AddLink(@, MkLink(s.res, "RX", p)), s.reloc)]
    [] OTHER -> s

-----------------------------------------------------------------------------
(* The system: the steps of 6P, each with what the scheduling function and *)
(* the application do in it.                                               *)
SfInit ==
  /\ Init
  /\ sf = [n \in Node |->
       LET peer == IF n = Child THEN Parent ELSE Child
           opt(dir) == IF (n = Child) = (dir = "up") THEN "TX" ELSE "RX"
       IN  [sched |-> {MkLink(MinimalCell, "SHARED", NoNode),
                       MkLink(AutoTx, opt("up"), peer),
                       MkLink(AutoRx, opt("down"), peer)},
            res |-> MinimalCell, reloc |-> MinimalCell]]
  /\ app = [add |-> "wait", added |-> 1, rels |-> {}, nreloc |-> 0,
            clean |-> TRUE]

(* get_candidate_add(): cells of different timeslots.  A timeslot is free  *)
(* when it is drawn, but a cell may be in it when the list is sent: the    *)
(* first list is drawn before the auto cells are installed, and a relocate *)
(* response replaces the granted candidate before its link is added, so    *)
(* the timeslot may be drawn again, with any channel.  Here any timeslot   *)
(* may be taken, except AutoRx's, in which the parent transmits and which  *)
(* it never grants.                                                        *)
Candidates ==
  {C \in SUBSET UpCell :
     /\ Cardinality(C) \in 1..MaxCand
     /\ \A c, d \in C : c[1] = d[1] => c = d
     /\ \A c \in C : c[1] # AutoRx[1]}

(* sixp_add_cells_process: the last transaction has ended; on with sensing *)
(* the candidate cells, which yields at least once.                        *)
AddCheck ==
  /\ app.add = "wait"
  /\ node[Child].sf
  /\ ~HasTrans(node[Child], Parent)
  /\ app' = [app EXCEPT !.add = "sense"]
  /\ UNCHANGED <<node, rx, nreq, reboots, sf>>

(* sixp_add_cells_process, sf_simple_add_links(): the queue is emptied,    *)
(* the request is handed to 6P and counted, whatever becomes of it.  A     *)
(* flushed packet that was heard is one whose acknowledgement was lost.    *)
FlushesHeard(q, flush) == flush = "all" /\ q # <<>> /\ Head(q).heard

AddSend(cands, flush, res) ==
  /\ app.add = "sense"
  /\ Request(Child, Parent, "ADD", MkBody(NoCell, cands), "NONE", flush, res)
  /\ app' = [app EXCEPT !.clean = @ /\ ~FlushesHeard(node[Child].queue[Parent], flush),
                        !.added = @ + 1,
                        !.add = IF app.added + 1 < Target THEN "wait" ELSE "done"]
  /\ UNCHANGED sf

(* sixp_relocate_cells_process draws up the list of cells to relocate. *)
Evaluate(rels) ==
  /\ app.rels = {}
  /\ node[Child].sf
  /\ rels # {} /\ app.nreloc + Cardinality(rels) <= MaxReloc
  /\ app' = [app EXCEPT !.rels = rels, !.nreloc = @ + Cardinality(rels)]
  /\ UNCHANGED <<node, rx, nreq, reboots, sf>>

(* Mutant: the cell to be relocated is not noted down. *)
RelocSend_Unnoted(c, cands, res) ==
  /\ ~HasTrans(node[Child], Parent)
  /\ Request(Child, Parent, "RELOCATE", MkBody(c, cands), "NONE", "none", res)
  /\ app' = [app EXCEPT !.rels = @ \ {c}]
  /\ UNCHANGED sf

(* ... and sf_simple_relocate_links() on one of them once 6P is idle. *)
RelocSend(c, cands, res) ==
  /\ ~HasTrans(node[Child], Parent)
  /\ Request(Child, Parent, "RELOCATE", MkBody(c, cands), "NONE", "none", res)
  /\ sf' = [sf EXCEPT ![Child].reloc = c]
  /\ app' = [app EXCEPT !.rels = @ \ {c}]

(* sf_simple_remove_links(): the first TX cell with channel offset 0. *)
RemoveSend(c, res) ==
  /\ "DELETE" \in AppOps
  /\ node[Child].sf
  /\ LET tx == {k \in CellsOf(sf[Child].sched, "TX", Parent) : k[2] = 0}
     IN  c \in tx /\ \A k \in tx : c[1] <= k[1]
  /\ Request(Child, Parent, "DELETE", MkBody(NoCell, {c}), "NONE", "none", res)
  /\ UNCHANGED <<sf, app>>

(* sixp_input() and, when it gets that far, the scheduling function. *)
Receive(n, res) ==
  /\ rx[n] # <<>>
  /\ LET f == Head(rx[n])
     IN  \E o \in IF Upcall(node[n], f.src, f.pkt) THEN SfInput(node[n], sf[n], f)
                                                   ELSE {NoReply(sf[n])} :
           /\ Input(n, o.answer, o.body, o.cb, res)
           /\ sf' = [sf EXCEPT ![n] = o.state]
  /\ UNCHANGED app

(* mac_callback() with the sent-callback of the transaction. *)
Report(n, p, ok) ==
  /\ MacDone(n, p, ok)
  /\ LET s == Head(node[n].queue[p]).ptr
         t == node[n].trans[s]
     IN  sf' = IF s = NoSlot \/ t.peer = NoNode \/ node[n].nbr[t.peer] = NoNbr THEN sf
               ELSE [sf EXCEPT ![n] =
                       SentCallback(@, CallbackRun(node[n], s, ok), t.peer, ok)]
  /\ app' = [app EXCEPT !.clean = @ /\ ok = Head(node[n].queue[p]).heard]

(* A frame of the transaction in block s of n is on its way. *)
InFlight(n, s) ==
  LET r == node[n].trans[s].req
  IN  \/ \E m, p \in Node : \E i \in 1..Len(node[m].queue[p]) :
           node[m].queue[p][i].req = r
      \/ \E m \in Node : \E i \in 1..Len(rx[m]) : rx[m][i].pkt.req = r

Expire(n, s) ==
  /\ Timer(n, s)
  /\ app' = [app EXCEPT !.clean =
               @ /\ (node[n].trans[s].timer = "timeout" => ~InFlight(n, s))]
  /\ UNCHANGED sf

SfNext ==
  \/ "ADD" \in AppOps /\ AddCheck
  \/ \E cands \in Candidates, flush \in Flushing \ {"none"}, res \in Result :
       AddSend(cands, flush, res)
  \/ /\ "RELOCATE" \in AppOps
     /\ \E rels \in SUBSET CellsOf(sf[Child].sched, "TX", Parent) : Evaluate(rels)
  \/ \E c \in app.rels, cands \in Candidates, res \in Result :
       RelocSend(c, cands, res)
  \/ \E c \in CellsOf(sf[Child].sched, "TX", Parent), res \in Result :
       RemoveSend(c, res)
  \/ \E n \in Node :
       \/ AddSf(n) /\ UNCHANGED <<sf, app>>
       \/ \E res \in Result : Receive(n, res)
       \/ \E p \in Node \ {n} : Transmit(n, p) /\ UNCHANGED <<sf, app>>
       \/ \E p \in Node \ {n}, ok \in BOOLEAN : Report(n, p, ok)
       \/ \E s \in Slot : Expire(n, s)

SfSpec == SfInit /\ [][SfNext]_sfvars

(* The child's processes run when their etimer expires and its ctimers     *)
(* expire.  Nothing is assumed of the parent or of the radio.              *)
SfFairness ==
  /\ WF_sfvars(AddCheck)
  /\ WF_sfvars(\E cands \in Candidates, flush \in Flushing \ {"none"}, res \in Result :
                 AddSend(cands, flush, res))
  /\ WF_sfvars(AddSf(Child) /\ UNCHANGED <<sf, app>>)
  /\ \A s \in Slot : WF_sfvars(Expire(Child, s))

SfFairSpec == SfSpec /\ SfFairness

-----------------------------------------------------------------------------
(***************************************************************************)
(* Properties.                                                             *)
(***************************************************************************)
(* Nothing of 6P is under way. *)
Quiet ==
  \A n \in Node :
    /\ rx[n] = <<>>
    /\ \A p \in Node : node[n].queue[p] = <<>>
    /\ \A s \in Slot : ~Listed(node[n].trans[s])

(* The purpose of 6P: when no transaction is under way, the child sends in *)
(* exactly the cells in which the parent listens to it, and the other way  *)
(* round, whatever was refused, dropped, flushed or left unanswered before,*)
(* unless an acknowledgement was lost or a timeout overtook a frame.       *)
SchedulesAgree ==
  Quiet /\ app.clean =>
           /\ CellsOf(sf[Child].sched, "TX", Parent) = CellsOf(sf[Parent].sched, "RX", Child)
           /\ CellsOf(sf[Parent].sched, "TX", Child) = CellsOf(sf[Child].sched, "RX", Parent)

(* What the type invariant rests on: 6P's own invariant, and that the      *)
(* cells the child transmits in are cells a request may name.              *)
SfInv ==
  /\ Inv
  /\ SfTypeOK
  /\ CellsOf(sf[Child].sched, "TX", Parent) \subseteq UpCell

(* The minimal cell, which carries the beacons and all first contact, is   *)
(* never taken out of a schedule or replaced: a cleared res_storage, which *)
(* reads as the cell (0, 0), is never installed.                           *)
MinimalCellKept ==
  \A n \in Node : MkLink(MinimalCell, "SHARED", NoNode) \in sf[n].sched

(* Responses change the child's transmission cells by what was asked for:  *)
(* an Add gains one, a Relocate trades the cell to be relocated (if it is  *)
(* still there) for another, a Delete loses one; the listening cells stay. *)
(* No delayed or stray response and no stale current_cell_to_be_relocated  *)
(* can make cells pile up or vanish.  A grant never takes the place of     *)
(* another cell, although its timeslot may have been taken when the child  *)
(* offered it, unless an acknowledgement was lost or a timeout overtook a  *)
(* frame: then the cell in the granted timeslot goes, and a cell relocated *)
(* to itself is lost.                                                      *)
CellsTraded ==
  sf'[Child].sched # sf[Child].sched =>
    LET old == CellsOf(sf[Child].sched, "TX", Parent)
        new == CellsOf(sf'[Child].sched, "TX", Parent)
        cmd == node[Child].trans[Find(node[Child], Parent)].cmd
        granted == Head(rx[Child]).pkt.body.cells
        replaced == {c \in old : \E g \in granted : c[1] = g[1]}
        reloc == sf[Child].reloc
    IN  /\ CellsOf(sf'[Child].sched, "RX", Parent) = CellsOf(sf[Child].sched, "RX", Parent)
        /\ CASE cmd = "ADD" ->
                  /\ app.clean => replaced = {}
                  /\ Cardinality(new) = Cardinality(old \ replaced) + 1
             [] cmd = "RELOCATE" ->
                  /\ reloc \in UpCell
                  /\ app.clean => replaced = {} /\ granted # {reloc}
                  /\ Cardinality(new) = Cardinality((old \ replaced) \ {reloc})
                                        + IF granted = {reloc} THEN 0 ELSE 1
             [] cmd = "DELETE" -> Cardinality(new) = Cardinality(old) - 1
             [] OTHER -> FALSE

CellsAddUp == [][CellsTraded]_sfvars

(* The process that adds cells reaches its target (or the bound on         *)
(* requests): it cannot be held up for ever by a parent that is gone, a    *)
(* MAC that reports nothing, an unanswered request or the relocations.     *)
AddingFinishes == <>(app.add = "done" \/ nreq = MaxRequest)
=============================================================================

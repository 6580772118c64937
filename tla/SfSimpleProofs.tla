--------------------------- MODULE SfSimpleProofs ---------------------------
(***************************************************************************)
(* sf-simple and the application of the child are one of the scheduling    *)
(* functions that module Sixp allows: every step of SfSpec is a step of    *)
(* Spec.  What holds of 6P for any scheduling function then holds here.    *)
(***************************************************************************)
EXTENDS SfSimple, SixpProofs, FiniteSetTheorems

LEMMA CommandFacts ==
  /\ Child \in Node /\ Parent \in Node /\ Child # Parent
  /\ Node = {Child, Parent}
  /\ "ADD" \in Cmd /\ "DELETE" \in Cmd /\ "RELOCATE" \in Cmd
  /\ Callback \subseteq Cmd \cup {"NONE"}
BY PairAssumption, BodyShapeAssumption DEF Cmd

(* A body made of cells a request may name is a body. *)
LEMMA MkBodyType ==
  ASSUME NEW rel \in UpCell \cup {NoCell}, NEW cells \in SUBSET UpCell
  PROVE  MkBody(rel, cells) \in Body
BY BodyShapeAssumption DEF MkBody, UpCell

(* What an outcome of a handler must satisfy. *)
GoodOutcome(o) ==
  /\ o.answer \in BOOLEAN /\ o.body \in Body /\ o.cb \in Callback
  /\ o.state \in SfState

LEMMA NoReplyGood ==
  ASSUME NEW s \in SfState
  PROVE  GoodOutcome(NoReply(s))
BY BodyAssumption, BodyShapeAssumption DEF GoodOutcome, NoReply

LEMMA ReplyGood ==
  ASSUME NEW s \in SfState, NEW cells \in SUBSET UpCell, NEW cb \in Callback
  PROVE  GoodOutcome(Reply(cells, cb, s))
<1>1. MkBody(NoCell, cells) \in Body
  BY MkBodyType
<1> QED
  BY <1>1 DEF GoodOutcome, Reply

(* The request handlers only write res_storage and the cell to relocate. *)
LEMMA RequestInputGood ==
  ASSUME NEW s \in SfState, NEW pkt \in Packet
  PROVE  \A o \in RequestInput(s, pkt) : GoodOutcome(o) /\ o.state.sched = s.sched
<1> DEFINE b == pkt.body
<1>1. b.cells \in SUBSET UpCell /\ b.rel \in UpCell \cup {NoCell}
  BY BodyShapeAssumption DEF Packet, UpCell
<1>2. \A c \in UpCell \cup {MinimalCell} :
        /\ [s EXCEPT !.res = c] \in SfState
        /\ [s EXCEPT !.res = c].sched = s.sched
  BY DEF SfState
<1>3. \A c, r \in UpCell \cup {MinimalCell} :
        /\ [s EXCEPT !.res = c, !.reloc = r] \in SfState
        /\ [s EXCEPT !.res = c, !.reloc = r].sched = s.sched
  BY DEF SfState
<1>4. \A t : NoReply(t).state = t
  BY DEF NoReply
<1>5. \A t, cells, cb : Reply(cells, cb, t).state = t
  BY DEF Reply
<1>6. "ADD" \in Callback /\ "DELETE" \in Callback /\ "RELOCATE" \in Callback /\ "NONE" \in Callback
  BY BodyShapeAssumption
<1>7. Feasible(s, b.cells) \subseteq UpCell
  BY <1>1 DEF Feasible
<1> HIDE DEF b
<1>a. \A c \in UpCell \cup {MinimalCell} :
        LET o == NoReply([s EXCEPT !.res = c])
        IN  GoodOutcome(o) /\ o.state.sched = s.sched
  BY <1>2, <1>4, NoReplyGood
<1>b. \A cells \in SUBSET UpCell, cb \in Callback, c \in UpCell \cup {MinimalCell} :
        LET o == Reply(cells, cb, [s EXCEPT !.res = c])
        IN  GoodOutcome(o) /\ o.state.sched = s.sched
  <2> TAKE cells \in SUBSET UpCell, cb \in Callback, c \in UpCell \cup {MinimalCell}
  <2> DEFINE t == [s EXCEPT !.res = c]
  <2>1. t \in SfState /\ t.sched = s.sched
    BY <1>2
  <2> HIDE DEF t
  <2>2. GoodOutcome(Reply(cells, cb, t)) /\ Reply(cells, cb, t).state = t
    BY <1>5, <2>1, ReplyGood
  <2> QED
    BY <2>1, <2>2 DEF t
<1>d. GoodOutcome(NoReply(s)) /\ NoReply(s).state.sched = s.sched
  BY <1>4, NoReplyGood
<1>8. ASSUME NEW o \in AddReqInput(s, b) PROVE GoodOutcome(o) /\ o.state.sched = s.sched
  <2>1. CASE b.cells = {}
    BY <1>8, <1>d, <2>1 DEF AddReqInput
  <2>2. CASE b.cells # {} /\ Feasible(s, b.cells) = {}
    BY <1>8, <1>a, <2>2 DEF AddReqInput
  <2>3. CASE b.cells # {} /\ Feasible(s, b.cells) # {}
    <3>1. PICK c \in Feasible(s, b.cells) : o = Reply({c}, "ADD", [s EXCEPT !.res = c])
      BY <1>8, <2>3 DEF AddReqInput
    <3>2. c \in UpCell /\ {c} \in SUBSET UpCell
      BY <1>7
    <3> QED
      BY <1>6, <1>b, <3>1, <3>2
  <2> QED
    BY <2>1, <2>2, <2>3
<1>9. ASSUME NEW o \in DeleteReqInput(s, b) PROVE GoodOutcome(o) /\ o.state.sched = s.sched
  <2> DEFINE found == {c \in b.cells : \E l \in s.sched : l.cell = c}
  <2>1. CASE found = {}
    <3>1. o = Reply({}, "NONE", [s EXCEPT !.res = MinimalCell])
      BY <1>9, <2>1 DEF DeleteReqInput
    <3>2. {} \in SUBSET UpCell
      OBVIOUS
    <3> QED
      BY <1>6, <1>b, <3>1, <3>2
  <2>2. CASE found # {}
    <3>1. PICK c \in found : o = Reply({c}, "DELETE", [s EXCEPT !.res = c])
      BY <1>9, <2>2 DEF DeleteReqInput
    <3>2. c \in UpCell /\ {c} \in SUBSET UpCell
      BY <1>1
    <3> QED
      BY <1>6, <1>b, <3>1, <3>2
  <2> QED
    BY <2>1, <2>2
<1>10. ASSUME NEW o \in RelocateReqInput(s, b) PROVE GoodOutcome(o) /\ o.state.sched = s.sched
  <2>1. CASE b.cells = {} \/ b.rel = NoCell
    BY <1>10, <1>d, <2>1 DEF RelocateReqInput
  <2>2. CASE ~(b.cells = {} \/ b.rel = NoCell) /\ Feasible(s, b.cells) = {}
    BY <1>10, <1>a, <2>2 DEF RelocateReqInput
  <2>3. CASE ~(b.cells = {} \/ b.rel = NoCell) /\ Feasible(s, b.cells) # {}
    <3>1. PICK c \in Feasible(s, b.cells) :
            o = Reply({c}, "RELOCATE", [s EXCEPT !.res = c, !.reloc = b.rel])
      BY <1>10, <2>3 DEF RelocateReqInput
    <3>2. c \in UpCell /\ {c} \in SUBSET UpCell /\ b.rel \in UpCell
      BY <1>1, <1>7, <2>3
    <3> DEFINE t == [s EXCEPT !.res = c, !.reloc = b.rel]
    <3>3. t \in SfState /\ t.sched = s.sched
      BY <1>3, <3>2
    <3> HIDE DEF t
    <3>4. o = Reply({c}, "RELOCATE", t)
      BY <3>1 DEF t
    <3>5. GoodOutcome(Reply({c}, "RELOCATE", t)) /\ Reply({c}, "RELOCATE", t).state = t
      BY <1>5, <1>6, <3>2, <3>3, ReplyGood
    <3> QED
      BY <3>3, <3>4, <3>5
  <2> QED
    BY <2>1, <2>2, <2>3
<1> QED
  BY <1>d, <1>8, <1>9, <1>10 DEF RequestInput, b

(* Changing a schedule. *)
LEMMA SchedType ==
  ASSUME NEW s \in SfState, NEW sched \in SUBSET Link
  PROVE  /\ [s EXCEPT !.sched = sched] \in SfState
         /\ [s EXCEPT !.sched = sched].sched = sched
BY DEF SfState

LEMMA AddLinkType ==
  ASSUME NEW sched \in SUBSET Link, NEW c \in UpCell \cup {MinimalCell},
         NEW opt \in {"TX", "RX"}, NEW p \in Node
  PROVE  /\ AddLink(sched, MkLink(c, opt, p)) \in SUBSET Link
         /\ \A q : CellsOf(AddLink(sched, MkLink(c, opt, p)), "TX", q)
                     \subseteq CellsOf(sched, "TX", q) \cup (IF opt = "TX" THEN {c} ELSE {})
<1>1. MkLink(c, opt, p) \in Link
  BY DEF MkLink, Link
<1>2. MkLink(c, opt, p).opt = opt /\ MkLink(c, opt, p).cell = c
  BY DEF MkLink
<1> QED
  BY <1>1, <1>2 DEF AddLink, CellsOf

LEMMA RemoveLinkType ==
  ASSUME NEW sched \in SUBSET Link, NEW c, NEW cells
  PROVE  /\ RemoveLink(sched, c) \in SUBSET Link
         /\ RemoveLinks(sched, cells) \in SUBSET Link
         /\ \A q : /\ CellsOf(RemoveLink(sched, c), "TX", q) \subseteq CellsOf(sched, "TX", q)
                   /\ CellsOf(RemoveLinks(sched, cells), "TX", q) \subseteq CellsOf(sched, "TX", q)
BY DEF RemoveLink, RemoveLinks, CellsOf

(* response_input() keeps the cells the child transmits in nameable. *)
LEMMA ResponseInputType ==
  ASSUME NEW s \in SfState, NEW cmd, NEW pkt \in Packet, NEW p \in Node
  PROVE  LET m == ResponseInput(s, cmd, pkt, p)
         IN  /\ m \in SfState
             /\ CellsOf(m.sched, "TX", Parent) \subseteq CellsOf(s.sched, "TX", Parent) \cup UpCell
<1> DEFINE cells == pkt.body.cells
           added == AddLinks(s.sched, cells, "TX", p)
           m == ResponseInput(s, cmd, pkt, p)
<1> SUFFICES /\ m \in SfState
             /\ CellsOf(m.sched, "TX", Parent) \subseteq CellsOf(s.sched, "TX", Parent) \cup UpCell
  OBVIOUS
<1>1. cells \in SUBSET UpCell
  BY BodyShapeAssumption DEF Packet, UpCell
<1>2. s.sched \in SUBSET Link
  BY DEF SfState
<1> HIDE DEF cells
<1>3. /\ added \in SUBSET Link
      /\ CellsOf(added, "TX", Parent) \subseteq CellsOf(s.sched, "TX", Parent) \cup UpCell
  <2>1. CASE cells = {}
    BY <1>2, <2>1 DEF AddLinks
  <2>2. CASE cells # {}
    <3> DEFINE c == CHOOSE k \in cells : TRUE
    <3>1. c \in UpCell
      BY <1>1, <2>2
    <3>2. added = AddLink(s.sched, MkLink(c, "TX", p))
      BY <2>2 DEF AddLinks
    <3> HIDE DEF c
    <3> DEFINE l == MkLink(c, "TX", p)
    <3>3. AddLink(s.sched, l) \in SUBSET Link
      BY <1>2, <3>1, AddLinkType
    <3>4. CellsOf(AddLink(s.sched, l), "TX", Parent)
            \subseteq CellsOf(s.sched, "TX", Parent) \cup {c}
      BY <1>2, <3>1, AddLinkType
    <3> HIDE DEF added, l
    <3> QED
      BY <3>1, <3>2, <3>3, <3>4 DEF l
  <2> QED
    BY <2>1, <2>2
<1> HIDE DEF added
<1>4. \/ m = s
      \/ m = [s EXCEPT !.sched = added]
      \/ m = [s EXCEPT !.sched = RemoveLinks(s.sched, cells)]
      \/ m = [s EXCEPT !.sched = RemoveLink(added, s.reloc)]
  BY DEF ResponseInput, added, cells, SfState
<1> HIDE DEF m
<1>5. CASE m = s
  BY <1>5
<1>6. CASE m = [s EXCEPT !.sched = added]
  BY <1>3, <1>6, SchedType
<1>7. CASE m = [s EXCEPT !.sched = RemoveLinks(s.sched, cells)]
  BY <1>2, <1>7, SchedType, RemoveLinkType
<1>8. CASE m = [s EXCEPT !.sched = RemoveLink(added, s.reloc)]
  BY <1>3, <1>8, SchedType, RemoveLinkType
<1> QED
  BY <1>4, <1>5, <1>6, <1>7, <1>8

(* So do the sent-callbacks, which only install cells to listen in. *)
LEMMA SentCallbackType ==
  ASSUME NEW s \in SfState, NEW cb, NEW p \in Node, NEW ok
  PROVE  LET m == SentCallback(s, cb, p, ok)
         IN  m \in SfState /\ CellsOf(m.sched, "TX", Parent) \subseteq CellsOf(s.sched, "TX", Parent)
<1> DEFINE added == AddLink(s.sched, MkLink(s.res, "RX", p))
           m == SentCallback(s, cb, p, ok)
<1> SUFFICES /\ m \in SfState
             /\ CellsOf(m.sched, "TX", Parent) \subseteq CellsOf(s.sched, "TX", Parent)
  OBVIOUS
<1>1. s.sched \in SUBSET Link /\ s.res \in UpCell \cup {MinimalCell}
  BY DEF SfState
<1>2. /\ added \in SUBSET Link
      /\ CellsOf(added, "TX", Parent) \subseteq CellsOf(s.sched, "TX", Parent)
  BY <1>1, AddLinkType
<1> HIDE DEF added
<1>3. \/ m = s
      \/ m = [s EXCEPT !.sched = added]
      \/ m = [s EXCEPT !.sched = RemoveLink(s.sched, s.res)]
      \/ m = [s EXCEPT !.sched = RemoveLink(added, s.reloc)]
  BY DEF SentCallback, added, SfState
<1> HIDE DEF m
<1>4. CASE m = s
  BY <1>4
<1>5. CASE m = [s EXCEPT !.sched = added]
  BY <1>2, <1>5, SchedType
<1>6. CASE m = [s EXCEPT !.sched = RemoveLink(s.sched, s.res)]
  BY <1>1, <1>6, SchedType, RemoveLinkType
<1>7. CASE m = [s EXCEPT !.sched = RemoveLink(added, s.reloc)]
  <2>1. /\ RemoveLink(added, s.reloc) \in SUBSET Link
        /\ CellsOf(RemoveLink(added, s.reloc), "TX", Parent) \subseteq CellsOf(added, "TX", Parent)
    BY <1>2, RemoveLinkType
  <2> QED
    BY <1>2, <1>7, <2>1, SchedType
<1> QED
  BY <1>3, <1>4, <1>5, <1>6, <1>7

(* The steps of SfNext are steps of 6P that keep SfInv's own part. *)
LEMMA SfInvInit == SfInit => SfInv
<1> SUFFICES ASSUME SfInit PROVE SfInv
  OBVIOUS
<1>1. Inv
  BY InvInit DEF SfInit
<1> DEFINE peer(n) == IF n = Child THEN Parent ELSE Child
           up(n) == IF n = Child THEN "TX" ELSE "RX"
           down(n) == IF n = Child THEN "RX" ELSE "TX"
           sched(n) == {MkLink(MinimalCell, "SHARED", NoNode),
                        MkLink(AutoTx, up(n), peer(n)), MkLink(AutoRx, down(n), peer(n))}
<1>2. \A n \in Node : sf[n] = [sched |-> sched(n), res |-> MinimalCell, reloc |-> MinimalCell]
  BY DEF SfInit
<1>3. \A n \in Node : sched(n) \in SUBSET Link
  <2> TAKE n \in Node
  <2>1. /\ MkLink(MinimalCell, "SHARED", NoNode) \in Link
        /\ MkLink(AutoTx, up(n), peer(n)) \in Link
        /\ MkLink(AutoRx, down(n), peer(n)) \in Link
    BY CommandFacts DEF MkLink, Link, UpCell
  <2> QED
    BY <2>1
<1>4. CellsOf(sched(Child), "TX", Parent) \subseteq UpCell
  BY DEF CellsOf, MkLink, UpCell
<1> HIDE DEF sched
<1>5. \A n \in Node : sf[n] \in SfState /\ sf[n].sched = sched(n)
  <2> TAKE n \in Node
  <2> DEFINE g == sched(n)
  <2>1. sf[n] = [sched |-> g, res |-> MinimalCell, reloc |-> MinimalCell] /\ g \in SUBSET Link
    BY <1>2, <1>3
  <2> HIDE DEF g
  <2>2. sf[n] \in SfState /\ sf[n].sched = g
    BY <2>1 DEF SfState
  <2> QED
    BY <2>2 DEF g
<1>6. sf \in [Node -> SfState]
  <2>1. sf = [n \in Node |-> sf[n]]
    BY DEF SfInit
  <2> QED
    BY <1>5, <2>1
<1>7. app \in AppState
  BY DEF SfInit, AppState
<1>8. CellsOf(sf[Child].sched, "TX", Parent) \subseteq UpCell
  BY <1>4, <1>5, CommandFacts
<1> QED
  BY <1>1, <1>6, <1>7, <1>8 DEF SfInv, SfTypeOK, Inv

(* The own part of SfInv: the states of the scheduling functions. *)
SfPart == sf \in [Node -> SfState] /\ CellsOf(sf[Child].sched, "TX", Parent) \subseteq UpCell

LEMMA SfInvParts == SfInv <=> Inv /\ SfPart /\ app \in AppState
BY DEF SfInv, SfTypeOK, SfPart, Inv

LEMMA SetSf ==
  ASSUME SfPart, NEW n \in Node, NEW s \in SfState, sf' = [sf EXCEPT ![n] = s],
         n = Child => CellsOf(s.sched, "TX", Parent) \subseteq UpCell
  PROVE  SfPart'
<1>1. sf' \in [Node -> SfState]
  BY DEF SfPart
<1>2. sf'[Child] = IF n = Child THEN s ELSE sf[Child]
  BY CommandFacts DEF SfPart
<1> QED
  BY <1>1, <1>2 DEF SfPart

(* The three requests of the child are requests of 6P. *)
LEMMA RequestIsNext ==
  ASSUME NEW cmd \in {"ADD", "DELETE", "RELOCATE"}, NEW rel \in UpCell \cup {NoCell},
         NEW cells \in SUBSET UpCell, NEW flush \in Flushing, NEW res \in Result,
         Request(Child, Parent, cmd, MkBody(rel, cells), "NONE", flush, res)
  PROVE  Next
<1>1. MkBody(rel, cells) \in Body
  BY MkBodyType
<1>2. Child \in Initiator /\ cmd \in ReqCmd /\ "NONE" \in Callback
  BY BodyShapeAssumption
<1>3. Child \in Node /\ Parent \in Node \ {Child}
  BY CommandFacts
<1> QED
  BY <1>1, <1>2, <1>3 DEF Next

(* What a handler may leave behind. *)
LEMMA ReceiveStep ==
  ASSUME SfInv, NEW n \in Node, NEW res \in Result, Receive(n, res)
  PROVE  Next /\ SfPart'
<1> DEFINE f == Head(rx[n])
           outcomes == IF Upcall(node[n], f.src, f.pkt) THEN SfInput(node[n], sf[n], f)
                                                        ELSE {NoReply(sf[n])}
<1>0. SfPart /\ sf[n] \in SfState
  BY SfInvParts DEF SfPart
<1>1. f \in Frame /\ f.src \in Node /\ f.pkt \in Packet
  <2>1. rx[n] \in Seq(Frame) /\ rx[n] # <<>>
    BY DEF SfInv, Inv, TypeOK, Receive
  <2>2. f \in Frame
    BY <2>1
  <2> QED
    BY <2>2 DEF Frame
<1>2. PICK o \in outcomes : Input(n, o.answer, o.body, o.cb, res) /\ sf' = [sf EXCEPT ![n] = o.state]
  BY DEF Receive
<1> HIDE DEF f
<1>3. \A s \in SfState : GoodOutcome(NoReply(s)) /\ NoReply(s).state = s
  BY NoReplyGood DEF NoReply
<1>4. GoodOutcome(o) /\ (n = Child => CellsOf(o.state.sched, "TX", Parent) \subseteq UpCell)
  <2>0. n = Child => CellsOf(sf[n].sched, "TX", Parent) \subseteq UpCell
    BY <1>0 DEF SfPart
  <2>1. CASE o = NoReply(sf[n])
    BY <1>0, <1>3, <2>0, <2>1
  <2>2. CASE o \in RequestInput(sf[n], f.pkt)
    BY <1>0, <1>1, <2>0, <2>2, RequestInputGood
  <2>3. ASSUME NEW cmd, o = NoReply(ResponseInput(sf[n], cmd, f.pkt, f.src))
        PROVE  GoodOutcome(o) /\ (n = Child => CellsOf(o.state.sched, "TX", Parent) \subseteq UpCell)
    <3> DEFINE m == ResponseInput(sf[n], cmd, f.pkt, f.src)
    <3>1. m \in SfState /\ (n = Child => CellsOf(m.sched, "TX", Parent) \subseteq UpCell)
      BY <1>0, <1>1, <2>0, ResponseInputType
    <3> HIDE DEF m
    <3>2. o = NoReply(m)
      BY <2>3 DEF m
    <3> QED
      BY <1>3, <3>1, <3>2
  <2> QED
    BY <1>2, <2>1, <2>2, <2>3 DEF SfInput
<1>5. Next
  <2>1. o.answer \in BOOLEAN /\ o.body \in ReplyBody /\ o.cb \in Callback
    BY <1>4, BodyShapeAssumption DEF GoodOutcome
  <2> QED
    BY <1>2, <2>1 DEF Next
<1>6. SfPart'
  BY Zenon, <1>0, <1>2, <1>4, SetSf DEF GoodOutcome
<1> QED
  BY <1>5, <1>6

LEMMA ReportStep ==
  ASSUME SfInv, NEW n \in Node, NEW p \in Node \ {n}, NEW ok \in BOOLEAN, Report(n, p, ok)
  PROVE  Next /\ SfPart'
<1> DEFINE s == Head(node[n].queue[p]).ptr
           t == node[n].trans[s]
           cb == CallbackRun(node[n], s, ok)
<1>1. Next
  BY Zenon DEF Report, Next
<1>2. SfPart /\ sf[n] \in SfState /\ node[n] \in NodeState
  BY SfInvParts DEF SfPart, Inv, TypeOK
<1>3. CASE sf' = sf
  BY <1>1, <1>2, <1>3 DEF SfPart
<1>4. CASE sf' # sf
  <2> DEFINE m == SentCallback(sf[n], cb, t.peer, ok)
  <2>1. sf' = [sf EXCEPT ![n] = m] /\ s # NoSlot /\ t.peer # NoNode
    BY Zenon, <1>4 DEF Report
  <2>2. s \in Slot
    <3>1. node[n].queue[p] \in Seq(Packet) /\ node[n].queue[p] # <<>>
      BY Zenon, <1>2 DEF NodeState, Report, MacDone
    <3>2. Head(node[n].queue[p]) \in Packet
      BY <3>1
    <3> QED
      BY <2>1, <3>2 DEF Packet
  <2>3. t.peer \in Node
    BY <1>2, <2>1, <2>2 DEF NodeState, Trans
  <2> HIDE DEF cb, t
  <2>4. /\ m \in SfState
        /\ CellsOf(m.sched, "TX", Parent) \subseteq CellsOf(sf[n].sched, "TX", Parent)
    BY <1>2, <2>3, SentCallbackType
  <2>5. n = Child => CellsOf(m.sched, "TX", Parent) \subseteq UpCell
    BY <1>2, <2>4 DEF SfPart
  <2> HIDE DEF m
  <2> QED
    BY <1>1, <1>2, <2>1, <2>4, <2>5, SetSf
<1> QED
  BY <1>3, <1>4

LEMMA FiniteUpCell == \A C \in SUBSET UpCell : Cardinality(C) \in Nat
<1>1. IsFiniteSet(UpCell)
  BY CellAssumption, FS_AddElement DEF UpCell
<1> QED
  BY <1>1, FS_Subset, FS_CardinalityType

(* Every step of sf-simple and its application is a step of 6P, or leaves  *)
(* 6P alone, and keeps SfInv.                                              *)
LEMMA SfStep == SfInv /\ [SfNext]_sfvars => [Next]_vars /\ SfInv'
<1> SUFFICES ASSUME SfInv, [SfNext]_sfvars
             PROVE  [Next]_vars /\ SfPart' /\ app' \in AppState
  BY SfInvParts, InvStep DEF SfInv, SfTypeOK, SfPart, Inv
<1>0. SfPart /\ app \in AppState
  BY SfInvParts
<1>a. app.rels \in SUBSET UpCell /\ app.added \in Nat /\ app.nreloc \in Nat
  BY <1>0 DEF AppState
<1>1. CASE UNCHANGED sfvars
  BY <1>0, <1>1 DEF sfvars, vars, SfPart
<1>2. CASE AddCheck
  BY <1>0, <1>2 DEF AddCheck, vars, SfPart, AppState
<1>3. ASSUME NEW cands \in Candidates, NEW flush \in Flushing, NEW res \in Result,
             AddSend(cands, flush, res)
      PROVE  [Next]_vars /\ SfPart' /\ app' \in AppState
  <2>1. cands \in SUBSET UpCell
    BY DEF Candidates
  <2>2. Next
    BY <1>3, <2>1, RequestIsNext DEF AddSend
  <2>3. app' \in AppState
    <3> DEFINE more == IF app.added + 1 < Target THEN "wait" ELSE "done"
               next == app.added + 1
               still == app.clean /\ ~FlushesHeard(node[Child].queue[Parent], flush)
    <3>1. more \in {"wait", "done"} /\ next \in Nat
      BY <1>a
    <3>2. still \in BOOLEAN
      OBVIOUS
    <3>3. app' = [app EXCEPT !.clean = still, !.added = next, !.add = more]
      BY <1>3 DEF AddSend
    <3> HIDE DEF more, next, still
    <3> QED
      BY <1>0, <3>1, <3>2, <3>3 DEF AppState
  <2> QED
    BY <1>0, <1>3, <2>2, <2>3 DEF AddSend, SfPart
<1>4. ASSUME NEW rels \in SUBSET CellsOf(sf[Child].sched, "TX", Parent), Evaluate(rels)
      PROVE  [Next]_vars /\ SfPart' /\ app' \in AppState
  <2>1. rels \in SUBSET UpCell
    BY <1>0 DEF SfPart
  <2>2. Cardinality(rels) \in Nat
    BY <2>1, FiniteUpCell
  <2>3. app' \in AppState
    <3> DEFINE next == app.nreloc + Cardinality(rels)
    <3>1. next \in Nat
      BY <1>a, <2>2
    <3>2. app' = [app EXCEPT !.rels = rels, !.nreloc = next]
      BY <1>4 DEF Evaluate
    <3> HIDE DEF next
    <3> QED
      BY <1>0, <2>1, <3>1, <3>2 DEF AppState
  <2> QED
    BY <1>0, <1>4, <2>3 DEF Evaluate, vars, SfPart
<1>5. ASSUME NEW c \in app.rels, NEW cands \in Candidates, NEW res \in Result,
             RelocSend(c, cands, res)
      PROVE  [Next]_vars /\ SfPart' /\ app' \in AppState
  <2>1. c \in UpCell /\ cands \in SUBSET UpCell /\ "none" \in Flushing
    BY <1>a, BodyShapeAssumption DEF Candidates
  <2>2. Next
    BY <1>5, <2>1, RequestIsNext DEF RelocSend
  <2>3. app' \in AppState
    BY <1>0, <1>5 DEF RelocSend, AppState
  <2> DEFINE s == [sf[Child] EXCEPT !.reloc = c]
  <2>4. sf[Child] \in SfState /\ Child \in Node
    BY <1>0, CommandFacts DEF SfPart
  <2>5. s \in SfState /\ s.sched = sf[Child].sched
    BY <2>1, <2>4 DEF SfState
  <2>6. sf' = [sf EXCEPT ![Child] = s]
    BY <1>5 DEF RelocSend
  <2>7. CellsOf(s.sched, "TX", Parent) \subseteq UpCell
    BY <1>0, <2>5 DEF SfPart
  <2> HIDE DEF s
  <2> QED
    BY <1>0, <2>2, <2>3, <2>4, <2>5, <2>6, <2>7, SetSf
<1>6. ASSUME NEW c \in CellsOf(sf[Child].sched, "TX", Parent), NEW res \in Result,
             RemoveSend(c, res)
      PROVE  [Next]_vars /\ SfPart' /\ app' \in AppState
  <2>1. {c} \in SUBSET UpCell /\ "none" \in Flushing
    BY <1>0, BodyShapeAssumption DEF SfPart
  <2>2. Next
    BY <1>6, <2>1, RequestIsNext DEF RemoveSend
  <2> QED
    BY <1>0, <1>6, <2>2 DEF RemoveSend, SfPart
<1>7. ASSUME NEW n \in Node, UNCHANGED <<sf, app>>,
             \/ AddSf(n)
             \/ \E p \in Node \ {n} : Transmit(n, p)
      PROVE  [Next]_vars /\ SfPart' /\ app' \in AppState
  <2>1. Next
    BY <1>7 DEF Next
  <2> QED
    BY <1>0, <1>7, <2>1 DEF SfPart
<1>8. ASSUME NEW n \in Node, NEW res \in Result, Receive(n, res)
      PROVE  [Next]_vars /\ SfPart' /\ app' \in AppState
  BY Zenon, <1>0, <1>8, ReceiveStep DEF Receive
<1>9. ASSUME NEW n \in Node, NEW p \in Node \ {n}, NEW ok \in BOOLEAN, Report(n, p, ok)
      PROVE  [Next]_vars /\ SfPart' /\ app' \in AppState
  <2> DEFINE still == app.clean /\ ok = Head(node[n].queue[p]).heard
  <2>1. still \in BOOLEAN
    OBVIOUS
  <2>2. app' = [app EXCEPT !.clean = still]
    BY Zenon, <1>9 DEF Report
  <2> HIDE DEF still
  <2>3. app' \in AppState
    BY <1>0, <2>1, <2>2 DEF AppState
  <2> QED
    BY <1>0, <1>9, <2>3, ReportStep
<1>10. ASSUME NEW n \in Node, NEW s \in Slot, Expire(n, s)
       PROVE  [Next]_vars /\ SfPart' /\ app' \in AppState
  <2> DEFINE still == app.clean /\ (node[n].trans[s].timer = "timeout" => ~InFlight(n, s))
  <2>1. still \in BOOLEAN
    OBVIOUS
  <2>2. app' = [app EXCEPT !.clean = still]
    BY <1>10 DEF Expire
  <2> HIDE DEF still
  <2>3. app' \in AppState
    BY <1>0, <2>1, <2>2 DEF AppState
  <2>4. Next
    BY <1>10 DEF Next, Expire
  <2> QED
    BY <1>0, <1>10, <2>3, <2>4 DEF SfPart, Expire
<1> QED
  BY <1>1, <1>2, <1>3, <1>4, <1>5, <1>6, <1>7, <1>8, <1>9, <1>10 DEF SfNext

(* The type invariant of the whole: schedules hold cells of the slotframe, *)
(* res_storage a cell of a request or the cleared one, the application's   *)
(* list only cells the child transmits in.                                 *)
THEOREM SfTypeCorrect == SfSpec => []SfTypeOK
<1>1. SfInv => SfTypeOK
  BY DEF SfInv
<1> QED
  BY <1>1, SfInvInit, SfStep, PTL DEF SfSpec

(* sf-simple is a scheduling function in the sense of Sixp: with it and    *)
(* the processes of child.c, 6P behaves as Sixp says, so that every safety *)
(* property of Spec is one of the example.                                 *)
THEOREM SfRefinesSixp == SfSpec => Spec
<1>1. SfInit => Init
  BY DEF SfInit
<1> QED
  BY <1>1, SfInvInit, SfStep, PTL DEF SfSpec, Spec

(* In particular the child and the parent never hold two transactions with *)
(* each other, which is what the processes of child.c wait for.            *)
THEOREM SfOneTransaction == SfSpec => []OneTransPerPeer
BY SfRefinesSixp, OneTransaction, PTL

-----------------------------------------------------------------------------
(***************************************************************************)
(* The minimal cell.  A sent-callback or a response changes the schedule   *)
(* by res_storage and current_cell_to_be_relocated; what has to be shown   *)
(* is that neither is the cleared cell (0, 0) when that happens.           *)
(***************************************************************************)
Requesting(t) == t.state \in {"REQUEST_SENDING", "REQUEST_SENT"}

(* A sent-callback that may run finds a cell of a request in res_storage,  *)
(* and one that relocates finds one in current_cell_to_be_relocated, as    *)
(* does the response to a Relocate.                                        *)
Backed(t, x) ==
  /\ t.state = "UNAVAILABLE" => t.cb = "NONE"
  /\ t.state # "WAIT_FREE" /\ t.cb # "NONE" =>
       x.res \in UpCell /\ (t.cb = "RELOCATE" => x.reloc \in UpCell)
  /\ Requesting(t) /\ t.cmd = "RELOCATE" => x.reloc \in UpCell

MinInv ==
  /\ MinimalCellKept
  /\ \A n \in Node : \A i \in 1..Len(rx[n]) : rx[n][i].src # n
  /\ \A n \in Node, s \in Slot :
       /\ Listed(node[n].trans[s]) => node[n].trans[s].peer # n
       /\ Backed(node[n].trans[s], sf[n])

(* What 6P may make of a block t in one step, where p, cmd and cb are the  *)
(* peer and the command of a transaction it starts and the sent-callback   *)
(* it is handed.                                                           *)
Becomes(t, u, p, cmd, cb) ==
  /\ u.state = "UNAVAILABLE" /\ u.cb # "NONE" => t.state = "UNAVAILABLE" /\ t.cb # "NONE"
  /\ u.state # "WAIT_FREE" /\ u.cb # "NONE" =>
       (t.state # "WAIT_FREE" /\ t.cb = u.cb) \/ u.cb = cb
  /\ Listed(u) => (Listed(t) /\ t.peer = u.peer) \/ u.peer = p
  /\ Requesting(u) => (Requesting(t) /\ t.cmd = u.cmd) \/ u.cmd = cmd

AllBecome(ns, m, p, cmd, cb) ==
  \A s \in Slot : Becomes(ns.trans[s], m.trans[s], p, cmd, cb)

LEMMA BecomesTrans ==
  ASSUME NEW ns, NEW m, NEW k, NEW p, NEW cmd, NEW cb,
         AllBecome(ns, m, p, cmd, cb), AllBecome(m, k, p, cmd, cb)
  PROVE  AllBecome(ns, k, p, cmd, cb)
BY DEF AllBecome, Becomes

LEMMA BecomesSame ==
  ASSUME NEW ns, NEW m, NEW p, NEW cmd, NEW cb, m.trans = ns.trans
  PROVE  AllBecome(ns, m, p, cmd, cb)
BY DEF AllBecome, Becomes

(* One block changes. *)
LEMMA BecomesOne ==
  ASSUME NEW ns \in NodeState, NEW s \in Slot, NEW u, NEW p, NEW cmd, NEW cb,
         Becomes(ns.trans[s], u, p, cmd, cb),
         NEW m, m.trans = [ns.trans EXCEPT ![s] = u]
  PROVE  AllBecome(ns, m, p, cmd, cb)
BY DEF AllBecome, Becomes, NodeState

LEMMA FreeBecomes ==
  ASSUME NEW t, NEW p, NEW cmd, NEW cb
  PROVE  Becomes(t, FreeTrans, p, cmd, cb)
BY DEF Becomes, FreeTrans, Listed, Requesting

LEMMA TransitBecomes ==
  ASSUME NEW ns \in NodeState, NEW s \in Slot, Listed(ns.trans[s]),
         NEW new \in TransState \ {"UNAVAILABLE", "WAIT_FREE"}, NEW p, NEW cmd, NEW cb,
         new # "REQUEST_SENDING" \/ ns.trans[s].cmd = cmd
  PROVE  AllBecome(ns, Transit(ns, s, new), p, cmd, cb)
<1> DEFINE t == ns.trans[s]
           u == [t EXCEPT !.state = new, !.timer = "process"]
           m == Transit(ns, s, new)
<1>1. CASE ~Allowed(t, new)
  BY <1>1, BecomesSame DEF Transit
<1>2. CASE Allowed(t, new)
  <2>1. t \in Trans
    BY DEF NodeState
  <2>2. u.state = new /\ u.peer = t.peer /\ u.cmd = t.cmd /\ u.cb = t.cb
    BY <2>1 DEF Trans
  <2>3. Becomes(t, u, p, cmd, cb)
    BY <1>2, <2>2 DEF Becomes, Listed, Requesting, Allowed
  <2>4. m.trans = [ns.trans EXCEPT ![s] = u]
    BY <1>2 DEF Transit, NodeState
  <2> QED
    BY <2>3, <2>4, BecomesOne
<1> QED
  BY <1>1, <1>2

LEMMA ClearCallbackBecomes ==
  ASSUME NEW ns \in NodeState, NEW s \in Slot, NEW p, NEW cmd, NEW cb
  PROVE  AllBecome(ns, ClearCallback(ns, s), p, cmd, cb)
<1> DEFINE t == ns.trans[s]
           u == [t EXCEPT !.cb = "NONE"]
<1>1. t \in Trans
  BY DEF NodeState
<1>2. u.state = t.state /\ u.peer = t.peer /\ u.cmd = t.cmd /\ u.cb = "NONE"
  BY <1>1 DEF Trans
<1>3. Becomes(t, u, p, cmd, cb)
  BY <1>2 DEF Becomes, Listed, Requesting
<1>4. ClearCallback(ns, s).trans = [ns.trans EXCEPT ![s] = u]
  BY DEF ClearCallback, NodeState
<1> QED
  BY <1>3, <1>4, BecomesOne

LEMMA MacCallbackBecomes ==
  ASSUME NEW ns, NodeInv(ns), NEW s \in Slot, NEW ok \in BOOLEAN,
         NEW p, NEW cmd, NEW cb
  PROVE  AllBecome(ns, MacCallback(ns, s, ok), p, cmd, cb)
<1> DEFINE t == ns.trans[s]
           new == StateAfterMac(t, ok)
<1>0. t.state \in TransState /\ ns \in NodeState
  BY DEF NodeInv, NodeState, Trans
<1>1. CASE t.state = "WAIT_FREE"
  <2>1. MacCallback(ns, s, ok).trans = [ns.trans EXCEPT ![s] = FreeTrans]
    BY <1>0, <1>1 DEF MacCallback, NodeState
  <2> QED
    BY <1>0, <2>1, BecomesOne, FreeBecomes
<1>2. CASE t.state # "WAIT_FREE" /\ new = t.state
  BY <1>0, <1>2, ClearCallbackBecomes DEF MacCallback
<1>3. CASE t.state # "WAIT_FREE" /\ new # t.state
  <2>1. /\ Listed(t) /\ new \notin {"REQUEST_RECEIVED", "REQUEST_SENDING"}
        /\ new \in TransState \ {"UNAVAILABLE", "WAIT_FREE"}
    BY <1>0, <1>3 DEF StateAfterMac, Listed, TransState
  <2> DEFINE m == Transit(ns, s, new)
  <2> HIDE DEF new
  <2>2. /\ AllBecome(ns, m, p, cmd, cb)
        /\ AllBecome(ns, Transit(ns, s, "TERMINATING"), p, cmd, cb)
    BY <1>0, <2>1, TransitBecomes DEF TransState
  <2>3. m \in NodeState
    BY <2>1, TransitInv DEF NodeInv
  <2> HIDE DEF m
  <2>4. AllBecome(ns, ClearCallback(m, s), p, cmd, cb)
    BY <2>2, <2>3, ClearCallbackBecomes, BecomesTrans
  <2>5. MacCallback(ns, s, ok) \in {ClearCallback(m, s), Transit(ns, s, "TERMINATING")}
    BY <1>3 DEF MacCallback, new, m
  <2> QED
    BY <2>2, <2>4, <2>5
<1> QED
  BY <1>1, <1>2, <1>3

LEMMA SixtopOutputBecomes ==
  ASSUME NEW ns, NodeInv(ns), NEW q \in Node, NEW pkt \in Packet, NEW res,
         NEW p, NEW cmd, NEW cb
  PROVE  AllBecome(ns, SixtopOutput(ns, q, pkt, res), p, cmd, cb)
<1>1. CASE res = "queued" \/ pkt.ptr = NoSlot \/ res = "dropped"
  <2>1. SixtopOutput(ns, q, pkt, res).trans = ns.trans
    BY <1>1 DEF SixtopOutput, NodeInv, NodeState
  <2> QED
    BY <2>1, BecomesSame
<1>2. CASE ~(res = "queued" \/ pkt.ptr = NoSlot \/ res = "dropped")
  <2>1. SixtopOutput(ns, q, pkt, res) = MacCallback(ns, pkt.ptr, FALSE) /\ pkt.ptr \in Slot
    BY <1>2 DEF SixtopOutput, Packet
  <2> QED
    BY <2>1, MacCallbackBecomes
<1> QED
  BY <1>1, <1>2

LEMMA OutputErrorBecomes ==
  ASSUME NEW ns, NodeInv(ns), NEW q \in Node, NEW rc \in ReturnCode,
         NEW pkt \in Packet, NEW res, NEW p, NEW cmd, NEW cb
  PROVE  AllBecome(ns, OutputError(ns, q, rc, pkt, res), p, cmd, cb)
<1> DEFINE e == MkPacket("RESPONSE", rc, pkt.seqno, EmptyBody, NoSlot, pkt.req)
<1>1. e \in Packet
  BY BodyAssumption DEF MkPacket, Packet, PktType
<1> HIDE DEF e
<1> QED
  BY <1>1, SixtopOutputBecomes DEF OutputError, e

LEMMA OutputReplyBecomes ==
  ASSUME NEW ns, NodeInv(ns), NEW q \in Node,
         NEW type \in {"RESPONSE", "CONFIRMATION"}, NEW rc \in ReturnCode,
         NEW body \in Body, NEW cb \in Cmd \cup {"NONE"}, NEW res, NEW p, NEW cmd
  PROVE  AllBecome(ns, OutputReply(ns, q, type, rc, body, cb, res), p, cmd, cb)
<1> DEFINE s == Find(ns, q)
           t == ns.trans[s]
           n1 == IF type = "RESPONSE" /\ t.cmd # "CLEAR" THEN WithNbr(ns, q) ELSE ns
           n2 == [n1 EXCEPT !.trans[s].cb = cb]
           pkt == MkPacket(type, rc, t.seqno, body, s, t.req)
           n3 == SixtopOutput(n2, q, pkt, res)
           from == IF type = "RESPONSE" THEN "REQUEST_RECEIVED" ELSE "RESPONSE_RECEIVED"
           to == IF type = "RESPONSE" THEN "RESPONSE_SENDING" ELSE "CONFIRMATION_SENDING"
           u == [t EXCEPT !.cb = cb]
<1>1. CASE ~HasTrans(ns, q) \/ t.state # from
  BY <1>1, BecomesSame DEF OutputReply
<1>2. CASE HasTrans(ns, q) /\ t.state = from
  <2>1. s \in Slot /\ t \in Trans /\ Listed(t)
    BY <1>2, FindTrans DEF NodeInv, NodeState
  <2>2. NodeInv(n1) /\ n1.trans = ns.trans
    BY WithNbrInv
  <2> HIDE DEF n1
  <2>3. NodeInv(n2) /\ n2.trans[s] = u /\ n2.trans = [ns.trans EXCEPT ![s] = u]
    <3>1. NodeInv(n2) /\ n2.trans[s] = [n1.trans[s] EXCEPT !.cb = cb]
      BY <2>1, <2>2, SetCallback
    <3>2. n2.trans = [n1.trans EXCEPT ![s] = [n1.trans[s] EXCEPT !.cb = cb]]
      BY <2>2 DEF NodeInv, NodeState
    <3> QED
      BY <2>2, <3>1, <3>2
  <2>4. u.state = from /\ u.peer = t.peer /\ u.cmd = t.cmd /\ u.cb = cb
    BY <1>2, <2>1 DEF Trans
  <2>5. pkt \in Packet /\ pkt.ptr = s
    BY <2>1 DEF MkPacket, Packet, PktType, Trans
  <2>6. Becomes(t, u, p, cmd, cb)
    BY <2>1, <2>4 DEF Becomes, Listed, Requesting
  <2> HIDE DEF n2, pkt, s, u
  <2>7. AllBecome(ns, n2, p, cmd, cb)
    BY <2>1, <2>3, <2>6, BecomesOne DEF NodeInv
  <2>8. AllBecome(n2, n3, p, cmd, cb)
    BY <2>3, <2>5, SixtopOutputBecomes
  <2>9. NodeInv(n3) /\ SameTrans(n2, n3)
    BY <2>3, <2>4, <2>5, SixtopOutputInv
  <2> HIDE DEF n3
  <2>10. Listed(n3.trans[s]) /\ n3 \in NodeState
    BY <2>1, <2>3, <2>4, <2>9 DEF SameTrans, NodeInv, Listed
  <2>11. AllBecome(n3, Transit(n3, s, to), p, cmd, cb)
    BY <2>1, <2>10, TransitBecomes DEF TransState
  <2>12. AllBecome(ns, n3, p, cmd, cb)
    BY <2>7, <2>8, BecomesTrans
  <2>13. AllBecome(ns, Transit(n3, s, to), p, cmd, cb)
    BY <2>11, <2>12, BecomesTrans
  <2> QED
    BY <1>2, <2>12, <2>13 DEF OutputReply, n1, n2, n3, pkt, s
<1> QED
  BY <1>1, <1>2

LEMMA OutputSeqnumErrorBecomes ==
  ASSUME NEW ns, NodeInv(ns), NEW q \in Node, NEW pkt \in Packet, NEW res,
         NEW p, NEW cmd
  PROVE  AllBecome(ns, OutputSeqnumError(ns, q, pkt, res), p, cmd, "NONE")
BY OutputErrorBecomes, OutputReplyBecomes, BodyAssumption
   DEF OutputSeqnumError, ReturnCode

(* A new transaction has no sent-callback and is not requesting yet. *)
LEMMA AllocBecomes ==
  ASSUME NEW ns, NodeInv(ns), NEW p \in Node, NEW pkt \in Packet,
         pkt.code \in Cmd, CanAlloc(ns, p), NEW cmd, NEW cb
  PROVE  AllBecome(ns, Alloc(ns, p, pkt), p, cmd, cb)
<1> DEFINE s == AllocSlot(ns)
           u == [state |-> "INIT", peer |-> p, seqno |-> pkt.seqno, cmd |-> pkt.code,
                 mode |-> DetermineMode(pkt.code, pkt.body), cb |-> "NONE",
                 timer |-> "timeout", req |-> pkt.req]
           m == Alloc(ns, p, pkt)
<1>1. s \in Slot /\ ns \in NodeState
  BY DEF AllocSlot, CanAlloc, FreeSlots, NodeInv
<1>2. Becomes(ns.trans[s], u, p, cmd, cb)
  BY DEF Becomes, Listed, Requesting
<1>3. m.trans = [ns.trans EXCEPT ![s] = u]
  BY <1>1 DEF Alloc, NodeState
<1> HIDE DEF s, u, m
<1>4. AllBecome(ns, m, p, cmd, cb)
  BY <1>1, <1>2, <1>3, BecomesOne
<1> QED
  BY <1>4 DEF m

LEMMA InputRequestBecomes ==
  ASSUME NEW ns, NodeInv(ns), NEW p \in Node, NEW pkt \in Packet,
         pkt.code \in Cmd, NEW res, NEW cmd
  PROVE  AllBecome(ns, InputRequest(ns, p, pkt, res), p, cmd, "NONE")
<1> DEFINE n1 == AfterClear(ns, p, pkt)
           s == AllocSlot(n1)
           na == Alloc(n1, p, pkt)
           n2 == Transit(na, s, "REQUEST_RECEIVED")
           m == InputRequest(ns, p, pkt, res)
<1>1. NodeInv(n1) /\ n1.trans = ns.trans
  <2>1. NodeInv(n1)
    BY AfterClearInv
  <2>2. n1.trans = ns.trans
    BY DEF AfterClear, NodeInv, NodeState
  <2> QED
    BY <2>1, <2>2
<1>2. AllBecome(ns, n1, p, cmd, "NONE")
  BY <1>1, BecomesSame
<1>3. CASE HasTrans(ns, p)
  <2>1. /\ AllBecome(ns, OutputSeqnumError(ns, p, pkt, res), p, cmd, "NONE")
        /\ AllBecome(ns, OutputError(ns, p, "ERR_BUSY", pkt, res), p, cmd, "NONE")
    BY OutputSeqnumErrorBecomes, OutputErrorBecomes DEF ReturnCode
  <2> QED
    BY <1>3, <2>1 DEF InputRequest
<1>4. CASE ~HasTrans(ns, p) /\ ~CanAlloc(n1, p)
  <2>1. m = OutputError(n1, p, "ERR_BUSY", pkt, res)
    BY <1>4 DEF InputRequest
  <2> HIDE DEF n1
  <2>2. AllBecome(n1, OutputError(n1, p, "ERR_BUSY", pkt, res), p, cmd, "NONE")
    BY <1>1, OutputErrorBecomes DEF ReturnCode
  <2> QED
    BY <1>2, <2>1, <2>2, BecomesTrans
<1>5. CASE ~HasTrans(ns, p) /\ CanAlloc(n1, p)
  <2>0. m \in {n2, OutputSeqnumError(n2, p, pkt, res)}
    BY <1>5 DEF InputRequest
  <2> HIDE DEF n1, m
  <2>1. /\ s \in Slot /\ NodeInv(na) /\ na.nbr = n1.nbr
        /\ na.trans[s].state = "INIT" /\ na.trans[s].peer = p
        /\ na.trans[s].cmd = pkt.code
    BY <1>1, <1>5, AllocInv
  <2>2. AllBecome(n1, na, p, cmd, "NONE")
    BY <1>1, <1>5, AllocBecomes
  <2>3. pkt.code = "CLEAR" => na.nbr[p] \in {NoNbr, 0}
    BY <2>1, AfterClearInv DEF n1
  <2> HIDE DEF na, s
  <2>4. NodeInv(n2) /\ AllBecome(na, n2, p, cmd, "NONE")
    <3>1. NodeInv(n2)
      BY <2>1, <2>3, TransitInv DEF Listed, TransState
    <3>2. AllBecome(na, n2, p, cmd, "NONE")
      BY <2>1, TransitBecomes DEF Listed, TransState, NodeInv
    <3> QED
      BY <3>1, <3>2
  <2> HIDE DEF n2
  <2>5. AllBecome(n2, OutputSeqnumError(n2, p, pkt, res), p, cmd, "NONE")
    BY <2>4, OutputSeqnumErrorBecomes
  <2>6. AllBecome(ns, n2, p, cmd, "NONE")
    BY <1>2, <2>2, <2>4, BecomesTrans
  <2>7. AllBecome(ns, OutputSeqnumError(n2, p, pkt, res), p, cmd, "NONE")
    BY <2>5, <2>6, BecomesTrans
  <2> QED
    BY <2>0, <2>6, <2>7 DEF m
<1> QED
  BY <1>3, <1>4, <1>5

(* A received frame with what the scheduling function answers. *)
LEMMA HandleFrameBecomes ==
  ASSUME NEW ns, NodeInv(ns), NEW f \in Frame, NEW answer, NEW body \in Body,
         NEW cb \in Cmd \cup {"NONE"}, NEW res, NEW cmd
  PROVE  AllBecome(ns, HandleFrame(ns, f, answer, body, cb, res), f.src, cmd, cb)
<1> DEFINE p == f.src
           m == SixpInput(ns, p, f.pkt, res)
           type == IF f.pkt.type = "REQUEST" THEN "RESPONSE" ELSE "CONFIRMATION"
           k == OutputReply(m, p, type, "SUCCESS", body, cb, res)
<1>1. p \in Node /\ f.pkt \in Packet
  BY DEF Frame
<1>2. NodeInv(m)
  BY <1>1, SixpInputInv
<1>3. HandleFrame(ns, f, answer, body, cb, res) \in {m, k}
  BY DEF HandleFrame
<1>4. AllBecome(ns, m, p, cmd, "NONE")
  <2>1. CASE ~ns.sf
    BY <1>1, <2>1, OutputErrorBecomes DEF SixpInput, ReturnCode
  <2>2. CASE ns.sf /\ f.pkt.type = "REQUEST"
    BY <1>1, <2>2, InputRequestBecomes DEF SixpInput, Packet
  <2>3. CASE ns.sf /\ f.pkt.type # "REQUEST" /\ ~Accepts(ns, p, f.pkt)
    BY <2>3, BecomesSame DEF SixpInput
  <2>4. CASE ns.sf /\ f.pkt.type # "REQUEST" /\ Accepts(ns, p, f.pkt)
    <3>1. Find(ns, p) \in Slot /\ Listed(ns.trans[Find(ns, p)])
      BY <2>4, FindTrans DEF Accepts
    <3>2. AllBecome(ns, Transit(ns, Find(ns, p), StateOnReply(f.pkt.type)), p, cmd, "NONE")
      BY <3>1, TransitBecomes DEF StateOnReply, TransState, NodeInv
    <3> QED
      BY <2>4, <3>2 DEF SixpInput
  <2> QED
    BY <2>1, <2>2, <2>3, <2>4
<1> HIDE DEF m
<1>5. AllBecome(m, k, p, cmd, cb)
  BY <1>1, <1>2, OutputReplyBecomes DEF ReturnCode
<1>6. AllBecome(ns, m, p, cmd, cb)
  BY <1>4 DEF AllBecome, Becomes
<1> HIDE DEF k
<1>7. AllBecome(ns, k, p, cmd, cb)
  BY <1>5, <1>6, BecomesTrans
<1> QED
  BY <1>3, <1>6, <1>7

(* A request without a sent-callback. *)
LEMMA OutputRequestBecomes ==
  ASSUME NEW ns, NodeInv(ns), NEW p \in Node, NEW cmd \in Cmd, NEW body \in Body,
         NEW req \in Nat, NEW res
  PROVE  AllBecome(ns, OutputRequest(ns, p, cmd, body, "NONE", req, res), p, cmd, "NONE")
<1> DEFINE n1 == WithNbr(ns, p)
           s == AllocSlot(n1)
           pkt == MkPacket("REQUEST", cmd, n1.nbr[p], body, s, req)
           na == Alloc(n1, p, pkt)
           n2 == [na EXCEPT !.trans[s].cb = "NONE"]
           n3 == SixtopOutput(n2, p, pkt, res)
           n4 == [n3 EXCEPT !.nbr[p] = SeqnoAfterRequest(cmd, @)]
           n5 == Transit(n4, s, "REQUEST_SENDING")
           m == OutputRequest(ns, p, cmd, body, "NONE", req, res)
<1>1. NodeInv(n1) /\ n1.nbr[p] \in 0..MaxSeqno /\ n1.trans = ns.trans
  BY WithNbrInv
<1>2. AllBecome(ns, n1, p, cmd, "NONE")
  BY <1>1, BecomesSame
<1>3. CASE HasTrans(ns, p) \/ ~CanAlloc(n1, p)
  BY Zenon, <1>2, <1>3, BecomesSame DEF OutputRequest
<1>4. CASE ~HasTrans(ns, p) /\ CanAlloc(n1, p)
  <2>1. s \in Slot
    BY <1>4 DEF AllocSlot, CanAlloc, FreeSlots
  <2>2. pkt \in Packet /\ pkt.ptr = s /\ pkt.code = cmd
    BY <1>1, <2>1 DEF MkPacket, Packet, PktType
  <2>3. m = IF res \in Failure THEN [n3 EXCEPT !.trans[s] = FreeTrans] ELSE n5
    BY <1>4 DEF OutputRequest
  <2> HIDE DEF pkt, n1, m
  <2>4. /\ NodeInv(na) /\ na.nbr = n1.nbr /\ AllBecome(n1, na, p, cmd, "NONE")
        /\ na.trans[s].state = "INIT" /\ na.trans[s].peer = p /\ na.trans[s].cmd = cmd
    BY <1>1, <1>4, <2>2, AllocInv, AllocBecomes
  <2> HIDE DEF na, s
  <2>5. NodeInv(n2) /\ n2.trans[s] = [na.trans[s] EXCEPT !.cb = "NONE"] /\ n2.nbr = na.nbr
    BY <2>1, <2>4, SetCallback
  <2>6. AllBecome(na, n2, p, cmd, "NONE")
    BY <2>1, <2>4, ClearCallbackBecomes DEF ClearCallback, NodeInv
  <2>7. na.trans[s] \in Trans
    BY <2>1, <2>4 DEF NodeInv, NodeState
  <2>8. n2.trans[s].state = "INIT" /\ n2.trans[s].peer = p /\ n2.trans[s].cmd = cmd
    BY <2>4, <2>5, <2>7 DEF Trans
  <2> HIDE DEF n2
  <2>9. NodeInv(n3) /\ SameTrans(n2, n3) /\ AllBecome(n2, n3, p, cmd, "NONE")
    <3>1. NodeInv(n3) /\ SameTrans(n2, n3)
      BY <2>2, <2>5, <2>8, SixtopOutputInv
    <3> QED
      BY <2>2, <2>5, <3>1, SixtopOutputBecomes
  <2>10. /\ n3.trans[s].state = "INIT" /\ n3.trans[s].cmd = cmd
         /\ n3.nbr[p] \in 0..MaxSeqno
    BY <1>1, <2>1, <2>4, <2>5, <2>8, <2>9 DEF SameTrans
  <2> HIDE DEF n3
  <2>11. AllBecome(ns, n3, p, cmd, "NONE")
    BY <1>2, <2>4, <2>6, <2>9, BecomesTrans
  <2>12. CASE res \in Failure
    <3> DEFINE k == [n3 EXCEPT !.trans[s] = FreeTrans]
    <3>1. k.trans = [n3.trans EXCEPT ![s] = FreeTrans] /\ n3 \in NodeState
      BY <2>9 DEF NodeInv, NodeState
    <3> HIDE DEF k
    <3>2. AllBecome(n3, k, p, cmd, "NONE")
      BY <2>1, <3>1, BecomesOne, FreeBecomes
    <3>3. AllBecome(ns, k, p, cmd, "NONE")
      BY <2>11, <3>2, BecomesTrans
    <3> QED
      BY <2>3, <2>12, <3>3 DEF k, m
  <2>13. CASE res \notin Failure
    <3>1. SeqnoAfterRequest(cmd, n3.nbr[p]) \in 0..MaxSeqno
      BY <2>10, NextSeqnoType, SeqnoAssumption DEF SeqnoAfterRequest
    <3>2. n4.trans = n3.trans /\ n4 \in NodeState
      BY <2>9, <3>1 DEF NodeInv, NodeState
    <3> HIDE DEF n4
    <3>3. AllBecome(n4, n5, p, cmd, "NONE")
      BY <2>1, <2>10, <3>2, TransitBecomes DEF Listed, TransState
    <3>4. AllBecome(ns, n4, p, cmd, "NONE")
      BY <2>11, <3>2, BecomesSame, BecomesTrans
    <3> HIDE DEF n5
    <3>5. AllBecome(ns, n5, p, cmd, "NONE")
      BY <3>3, <3>4, BecomesTrans
    <3> QED
      BY <2>3, <2>13, <3>5 DEF m
  <2> QED
    BY <2>12, <2>13
<1> QED
  BY <1>3, <1>4

LEMMA FlushBecomes ==
  ASSUME NEW ns, NodeInv(ns), NEW q \in Node, NEW mode, NEW p, NEW cmd, NEW cb
  PROVE  AllBecome(ns, Flush(ns, q, mode), p, cmd, cb)
<1> DEFINE m == Flush(ns, q, mode)
<1>1. \A s \in Slot : m.trans[s] \in {ns.trans[s], FlushedTrans(ns.trans[s])}
  BY DEF Flush, NodeInv, NodeState
<1>2. \A t \in Trans : Becomes(t, FlushedTrans(t), p, cmd, cb) /\ Becomes(t, t, p, cmd, cb)
  <2> TAKE t \in Trans
  <2>1. CASE t.state = "WAIT_FREE"
    BY <2>1, FreeBecomes DEF FlushedTrans, Becomes
  <2>2. CASE t.state = "REQUEST_SENDING"
    <3> DEFINE u == [t EXCEPT !.state = "TERMINATING", !.timer = "process", !.cb = "NONE"]
    <3>1. FlushedTrans(t) = u
      BY <2>2 DEF FlushedTrans
    <3>2. u.state = "TERMINATING" /\ u.peer = t.peer /\ u.cb = "NONE"
      BY DEF Trans
    <3> HIDE DEF u
    <3> QED
      BY <2>2, <3>1, <3>2 DEF Becomes, Listed, Requesting
  <2>3. CASE t.state \notin {"WAIT_FREE", "REQUEST_SENDING"}
    <3> DEFINE u == [t EXCEPT !.cb = "NONE"]
    <3>1. FlushedTrans(t) = u
      BY <2>3 DEF FlushedTrans
    <3>2. u.state = t.state /\ u.peer = t.peer /\ u.cb = "NONE" /\ u.cmd = t.cmd
      BY DEF Trans
    <3> HIDE DEF u
    <3> QED
      BY <3>1, <3>2 DEF Becomes, Listed, Requesting
  <2> QED
    BY <2>1, <2>2, <2>3
<1>3. \A s \in Slot : ns.trans[s] \in Trans
  BY DEF NodeInv, NodeState
<1> HIDE DEF m
<1>4. AllBecome(ns, m, p, cmd, cb)
  <2> SUFFICES ASSUME NEW s \in Slot PROVE Becomes(ns.trans[s], m.trans[s], p, cmd, cb)
    BY DEF AllBecome
  <2>1. m.trans[s] = ns.trans[s] \/ m.trans[s] = FlushedTrans(ns.trans[s])
    BY <1>1
  <2> QED
    BY <1>2, <1>3, <2>1
<1> QED
  BY <1>4 DEF m

(* The cells of a request or a schedule are not the minimal cell, and are  *)
(* not in its timeslot.                                                    *)
LEMMA UpCellNotMinimal ==
  /\ \A c \in UpCell : c[1] # 0 /\ c # MinimalCell
  /\ AutoRx[1] # 0
BY CellAssumption DEF UpCell, MinimalCell

MinLink == MkLink(MinimalCell, "SHARED", NoNode)

LEMMA MinLinkKept ==
  ASSUME NEW sched, MinLink \in sched, NEW c \in UpCell, NEW opt, NEW p,
         NEW cells \in SUBSET UpCell
  PROVE  /\ MinLink \in AddLink(sched, MkLink(c, opt, p))
         /\ MinLink \in AddLinks(sched, cells, opt, p)
         /\ MinLink \in RemoveLink(sched, c)
         /\ MinLink \in RemoveLinks(sched, cells)
<1>1. MinLink.cell = MinimalCell /\ MinimalCell[1] = 0
  BY DEF MinLink, MkLink, MinimalCell
<1>2. \A k \in UpCell : MkLink(k, opt, p).cell = k
  BY DEF MkLink
<1>3. \A k \in UpCell : MinLink \in AddLink(sched, MkLink(k, opt, p))
  BY <1>1, <1>2, UpCellNotMinimal DEF AddLink
<1>4. cells # {} => (CHOOSE k \in cells : TRUE) \in UpCell
  OBVIOUS
<1>5. MinLink \in AddLinks(sched, cells, opt, p)
  BY <1>3, <1>4 DEF AddLinks
<1>6. MinLink \in RemoveLink(sched, c) /\ MinLink \in RemoveLinks(sched, cells)
  BY <1>1, UpCellNotMinimal DEF RemoveLink, RemoveLinks
<1> QED
  BY <1>3, <1>5, <1>6

(* A step of node n from its 6P state to m and its scheduling function's   *)
(* to x, other than the start of a transaction by a Relocate.              *)
LEMMA SetMin ==
  ASSUME SfInv, MinInv, NEW n \in Node, NEW m, NEW x \in SfState,
         node' = [node EXCEPT ![n] = m], sf' = [sf EXCEPT ![n] = x],
         MinLink \in x.sched,
         \A k \in Node : \A i \in 1..Len(rx'[k]) : rx'[k][i].src # k,
         \A s \in Slot : /\ Listed(m.trans[s]) => m.trans[s].peer # n
                         /\ Backed(m.trans[s], x)
  PROVE  MinInv'
<1>1. node \in [Node -> NodeState] /\ sf \in [Node -> SfState]
  BY DEF SfInv, SfTypeOK, TypeOK
<1>2. /\ node'[n] = m /\ sf'[n] = x
      /\ \A k \in Node \ {n} : node'[k] = node[k] /\ sf'[k] = sf[k]
  BY <1>1
<1>3. MinimalCellKept'
  BY <1>2 DEF MinInv, MinimalCellKept, MinLink
<1>4. ASSUME NEW k \in Node, NEW s \in Slot
      PROVE  /\ Listed(node'[k].trans[s]) => node'[k].trans[s].peer # k
             /\ Backed(node'[k].trans[s], sf'[k])
  BY <1>2, <1>4 DEF MinInv
<1> QED
  BY <1>3, <1>4 DEF MinInv

(* With the storage as it is, or with a cell of a request noted down for   *)
(* relocation, whatever 6P does keeps the blocks backed.                   *)
LEMMA BackedBecomes ==
  ASSUME NEW t, NEW u, NEW p, NEW cmd, NEW x, NEW y, Backed(t, x),
         Becomes(t, u, p, cmd, "NONE"), y.res = x.res,
         y.reloc = x.reloc \/ y.reloc \in UpCell,
         cmd = "RELOCATE" => y.reloc \in UpCell
  PROVE  Backed(u, y)
BY DEF Backed, Becomes

LEMMA SameMin ==
  ASSUME SfInv, MinInv, NEW n \in Node, NEW m, NEW x \in SfState, NEW p, NEW cmd,
         node' = [node EXCEPT ![n] = m], sf' = [sf EXCEPT ![n] = x],
         AllBecome(node[n], m, p, cmd, "NONE"), p # n,
         x.res = sf[n].res, x.reloc = sf[n].reloc \/ x.reloc \in UpCell,
         cmd = "RELOCATE" => x.reloc \in UpCell,
         MinLink \in x.sched,
         \A k \in Node : \A i \in 1..Len(rx'[k]) : rx'[k][i].src # k
  PROVE  MinInv'
<1>1. ASSUME NEW s \in Slot
      PROVE  /\ Listed(m.trans[s]) => m.trans[s].peer # n
             /\ Backed(m.trans[s], x)
  <2>1. Becomes(node[n].trans[s], m.trans[s], p, cmd, "NONE")
    BY DEF AllBecome
  <2>2. Backed(node[n].trans[s], sf[n]) /\ (Listed(node[n].trans[s]) => node[n].trans[s].peer # n)
    BY DEF MinInv
  <2>3. Backed(m.trans[s], x)
    BY <2>1, <2>2, BackedBecomes
  <2> QED
    BY <2>1, <2>2, <2>3 DEF Becomes
<1> QED
  BY <1>1, SetMin

(* Nothing but a received frame enters or leaves the input of a node. *)
LEMMA RequestMin ==
  ASSUME SfInv, MinInv, NEW cmd \in Cmd, NEW body \in Body, NEW flush \in Flushing,
         NEW res, Request(Child, Parent, cmd, body, "NONE", flush, res),
         NEW x \in SfState, sf' = [sf EXCEPT ![Child] = x],
         x.res = sf[Child].res, x.sched = sf[Child].sched,
         x.reloc = sf[Child].reloc \/ x.reloc \in UpCell,
         cmd = "RELOCATE" => x.reloc \in UpCell
  PROVE  MinInv'
<1> DEFINE r == Flush(node[Child], Parent, flush)
           m == OutputRequest(r, Parent, cmd, body, "NONE", nreq + 1, res)
<1>1. nreq + 1 \in Nat /\ NodeInv(node[Child]) /\ Child \in Node /\ Parent \in Node
      /\ Parent # Child
  BY CommandFacts DEF SfInv, Inv, TypeOK
<1>2. NodeInv(r) /\ AllBecome(node[Child], r, Parent, cmd, "NONE")
  BY <1>1, FlushInv, FlushBecomes
<1>3. node' = [node EXCEPT ![Child] = m] /\ rx' = rx
  BY DEF Request
<1> HIDE DEF r
<1>4. AllBecome(node[Child], m, Parent, cmd, "NONE")
  BY <1>1, <1>2, OutputRequestBecomes, BecomesTrans
<1> HIDE DEF m
<1>5. MinLink \in x.sched
  BY <1>1 DEF MinInv, MinimalCellKept, MinLink
<1>6. \A k \in Node : \A i \in 1..Len(rx'[k]) : rx'[k][i].src # k
  BY <1>3 DEF MinInv
<1> QED
  BY <1>1, <1>3, <1>4, <1>5, <1>6, SameMin

LEMMA ProcessTransBecomes ==
  ASSUME NEW ns, NodeInv(ns), NEW s \in Slot, Listed(ns.trans[s]),
         NEW p, NEW cmd, NEW cb
  PROVE  /\ AllBecome(ns, ProcessTrans(ns, s), p, cmd, cb)
         /\ AllBecome(ns, HandleTransTimeout(ns, s), p, cmd, cb)
<1> DEFINE t == ns.trans[s]
           u == [t EXCEPT !.timer = "timeout"]
           k == [ns EXCEPT !.trans[s] = u]
           w == [t EXCEPT !.state = "WAIT_FREE", !.timer = "none"]
<1>0. ns \in NodeState /\ t \in Trans
  BY DEF NodeInv, NodeState
<1>1. AllBecome(ns, Transit(ns, s, "TERMINATING"), p, cmd, cb)
  BY <1>0, TransitBecomes DEF TransState
<1>2. AllBecome(ns, k, p, cmd, cb)
  <2>1. u.state = t.state /\ u.peer = t.peer /\ u.cmd = t.cmd /\ u.cb = t.cb
    BY <1>0 DEF Trans
  <2>2. Becomes(t, u, p, cmd, cb)
    BY <2>1 DEF Becomes, Listed, Requesting
  <2>3. k.trans = [ns.trans EXCEPT ![s] = u]
    BY <1>0 DEF NodeState
  <2> HIDE DEF k, u
  <2> QED
    BY <1>0, <2>2, <2>3, BecomesOne
<1>3. t.state = "TERMINATING" => AllBecome(ns, Free(ns, s), p, cmd, cb)
  <2>1. t.state = "TERMINATING" => Free(ns, s).trans = [ns.trans EXCEPT ![s] = FreeTrans]
    BY <1>0 DEF Free, Sending, NodeState
  <2> QED
    BY <1>0, <2>1, BecomesOne, FreeBecomes
<1>4. ProcessTrans(ns, s) = IF t.state = "TERMINATING" THEN Free(ns, s)
                            ELSE IF Complete(t) THEN Transit(ns, s, "TERMINATING") ELSE k
  BY DEF ProcessTrans
<1> HIDE DEF k
<1> QED
  BY <1>1, <1>2, <1>3, <1>4 DEF HandleTransTimeout

LEMMA DoneWithBecomes ==
  ASSUME NEW ns, NodeInv(ns), NEW q \in Node, ns.queue[q] # <<>>,
         NEW ok \in BOOLEAN, NEW p, NEW cmd, NEW cb
  PROVE  AllBecome(ns, DoneWith(ns, q, ok), p, cmd, cb)
<1> DEFINE k == Head(ns.queue[q])
           n1 == [ns EXCEPT !.queue[q] = Tail(@)]
<1>1. ns.queue[q] \in Seq(Packet)
  BY DEF NodeInv, NodeState
<1>2. k \in Packet /\ Tail(ns.queue[q]) \in Seq(Packet)
  BY <1>1
<1>3. NodeInv(n1) /\ n1.trans = ns.trans
  BY <1>2, SetQueue DEF NodeInv, NodeState
<1>4. k.ptr \in Slot \cup {NoSlot}
  BY <1>2 DEF Packet
<1>5. DoneWith(ns, q, ok) = IF k.ptr = NoSlot THEN n1 ELSE MacCallback(n1, k.ptr, ok)
  BY DEF DoneWith
<1> HIDE DEF n1, k
<1>6. AllBecome(ns, n1, p, cmd, cb)
  BY <1>3, BecomesSame
<1>7. k.ptr # NoSlot => AllBecome(n1, MacCallback(n1, k.ptr, ok), p, cmd, cb)
  BY <1>3, <1>4, MacCallbackBecomes
<1> QED
  BY <1>5, <1>6, <1>7, BecomesTrans

(* A handler that passes a sent-callback leaves the cell it is about in    *)
(* the storage.                                                            *)
LEMMA RequestInputBacked ==
  ASSUME NEW s \in SfState, NEW pkt \in Packet, NEW o \in RequestInput(s, pkt),
         o.cb # "NONE"
  PROVE  /\ o.state.res \in UpCell
         /\ o.cb = "RELOCATE" => o.state.reloc \in UpCell
<1> DEFINE b == pkt.body
<1>1. b.cells \in SUBSET UpCell /\ b.rel \in UpCell \cup {NoCell}
  BY BodyShapeAssumption DEF Packet, UpCell
<1>2. \A x : NoReply(x).cb = "NONE"
  BY DEF NoReply
<1>3. \A cells, cb, x : Reply(cells, cb, x).cb = cb /\ Reply(cells, cb, x).state = x
  BY DEF Reply
<1>4. Feasible(s, b.cells) \subseteq UpCell
  BY <1>1 DEF Feasible
<1> HIDE DEF b
<1>5. CASE o \in AddReqInput(s, b)
  <2>1. PICK c \in Feasible(s, b.cells) : o = Reply({c}, "ADD", [s EXCEPT !.res = c])
    BY <1>2, <1>5 DEF AddReqInput
  <2> DEFINE x == [s EXCEPT !.res = c]
  <2>2. x.res = c
    BY DEF SfState
  <2>3. o = Reply({c}, "ADD", x)
    BY <2>1
  <2> HIDE DEF x
  <2>4. o.cb = "ADD" /\ o.state = x
    BY <1>3, <2>3
  <2> QED
    BY <1>4, <2>1, <2>2, <2>4
<1>6. CASE o \in DeleteReqInput(s, b)
  <2> DEFINE found == {c \in b.cells : \E l \in s.sched : l.cell = c}
  <2>1. found # {}
    <3>1. CASE found = {}
      <4>1. o = Reply({}, "NONE", [s EXCEPT !.res = MinimalCell])
        BY <1>6, <3>1 DEF DeleteReqInput
      <4> QED
        BY <1>3, <4>1
    <3> QED
      BY <3>1
  <2>2. PICK c \in found : o = Reply({c}, "DELETE", [s EXCEPT !.res = c])
    BY <1>6, <2>1 DEF DeleteReqInput
  <2> DEFINE x == [s EXCEPT !.res = c]
  <2>3. x.res = c
    BY DEF SfState
  <2>4. o = Reply({c}, "DELETE", x)
    BY <2>2
  <2> HIDE DEF x
  <2>5. o.cb = "DELETE" /\ o.state = x
    BY <1>3, <2>4
  <2>6. c \in UpCell
    BY <1>1, <2>2
  <2> QED
    BY <2>3, <2>5, <2>6
<1>7. CASE o \in RelocateReqInput(s, b)
  <2>1. b.rel # NoCell /\ \E c \in Feasible(s, b.cells) :
           o = Reply({c}, "RELOCATE", [s EXCEPT !.res = c, !.reloc = b.rel])
    BY <1>2, <1>7 DEF RelocateReqInput
  <2>2. PICK c \in Feasible(s, b.cells) :
           o = Reply({c}, "RELOCATE", [s EXCEPT !.res = c, !.reloc = b.rel])
    BY <2>1
  <2> DEFINE x == [s EXCEPT !.res = c, !.reloc = b.rel]
  <2>3. x.res = c /\ x.reloc = b.rel
    BY DEF SfState
  <2> HIDE DEF x
  <2>4. o = Reply({c}, "RELOCATE", x)
    BY <2>2 DEF x
  <2> QED
    BY <1>1, <1>3, <1>4, <2>1, <2>3, <2>4
<1>8. CASE o = NoReply(s)
  BY <1>2, <1>8
<1> QED
  BY <1>5, <1>6, <1>7, <1>8 DEF RequestInput, b

(* A response to a Relocate comes back to a node that has noted down which *)
(* cell is to go.                                                          *)
LEMMA ResponseInputMin ==
  ASSUME NEW s \in SfState, MinLink \in s.sched, NEW cmd, NEW pkt \in Packet,
         NEW p \in Node, cmd = "RELOCATE" => s.reloc \in UpCell
  PROVE  LET x == ResponseInput(s, cmd, pkt, p)
         IN  /\ MinLink \in x.sched
             /\ x.res = s.res /\ x.reloc = s.reloc
<1> DEFINE cells == pkt.body.cells
           added == AddLinks(s.sched, cells, "TX", p)
           x == ResponseInput(s, cmd, pkt, p)
<1>1. cells \in SUBSET UpCell
  BY BodyShapeAssumption DEF Packet, UpCell
<1>2. MinLink \in added /\ MinLink \in RemoveLinks(s.sched, cells)
  BY <1>1, MinLinkKept DEF AddLinks, RemoveLinks
<1>3. s.reloc \in UpCell => MinLink \in RemoveLink(added, s.reloc)
  BY <1>2, MinLinkKept
<1>4. \A sched : /\ [s EXCEPT !.sched = sched].sched = sched
                 /\ [s EXCEPT !.sched = sched].res = s.res
                 /\ [s EXCEPT !.sched = sched].reloc = s.reloc
  BY DEF SfState
<1>5. \/ x = s
      \/ x = [s EXCEPT !.sched = added]
      \/ x = [s EXCEPT !.sched = RemoveLinks(s.sched, cells)]
      \/ cmd = "RELOCATE" /\ x = [s EXCEPT !.sched = RemoveLink(added, s.reloc)]
  BY DEF ResponseInput
<1> HIDE DEF x, added, cells
<1>6. MinLink \in x.sched /\ x.res = s.res /\ x.reloc = s.reloc
  BY <1>2, <1>3, <1>4, <1>5
<1> QED
  BY <1>6 DEF x

LEMMA SentCallbackMin ==
  ASSUME NEW s \in SfState, MinLink \in s.sched, NEW cb, NEW p, NEW ok,
         cb # "NONE" => s.res \in UpCell /\ (cb = "RELOCATE" => s.reloc \in UpCell)
  PROVE  LET x == SentCallback(s, cb, p, ok)
         IN  /\ MinLink \in x.sched
             /\ x.res = s.res /\ x.reloc = s.reloc
<1> DEFINE added == AddLink(s.sched, MkLink(s.res, "RX", p))
           x == SentCallback(s, cb, p, ok)
<1>1. s.res \in UpCell => MinLink \in added /\ MinLink \in RemoveLink(s.sched, s.res)
  BY MinLinkKept
<1>2. s.res \in UpCell /\ s.reloc \in UpCell => MinLink \in RemoveLink(added, s.reloc)
  BY <1>1, MinLinkKept
<1>4. \A sched : /\ [s EXCEPT !.sched = sched].sched = sched
                 /\ [s EXCEPT !.sched = sched].res = s.res
                 /\ [s EXCEPT !.sched = sched].reloc = s.reloc
  BY DEF SfState
<1>5. \/ x = s
      \/ cb = "ADD" /\ x = [s EXCEPT !.sched = added]
      \/ cb = "DELETE" /\ x = [s EXCEPT !.sched = RemoveLink(s.sched, s.res)]
      \/ cb = "RELOCATE" /\ x = [s EXCEPT !.sched = RemoveLink(added, s.reloc)]
  BY DEF SentCallback
<1> HIDE DEF x, added
<1>6. MinLink \in x.sched /\ x.res = s.res /\ x.reloc = s.reloc
  BY ZenonT(60), <1>1, <1>2, <1>4, <1>5
<1> QED
  BY <1>6 DEF x

LEMMA ReportMin ==
  ASSUME SfInv, MinInv, NEW n \in Node, NEW p \in Node \ {n}, NEW ok \in BOOLEAN,
         Report(n, p, ok)
  PROVE  MinInv'
<1> DEFINE s == Head(node[n].queue[p]).ptr
           t == node[n].trans[s]
           cb == CallbackRun(node[n], s, ok)
           m == DoneWith(node[n], p, ok)
<1>1. /\ sf \in [Node -> SfState] /\ sf[n] \in SfState /\ NodeInv(node[n])
      /\ node[n].queue[p] # <<>> /\ MinLink \in sf[n].sched
  BY Zenon DEF SfInv, SfTypeOK, Inv, Report, MacDone, MinInv, MinimalCellKept, MinLink
<1>2. node' = [node EXCEPT ![n] = m] /\ rx' = rx
  BY Zenon DEF Report, MacDone
<1>3. AllBecome(node[n], m, p, "NONE", "NONE")
  BY <1>1, DoneWithBecomes
<1>4. \A k \in Node : \A i \in 1..Len(rx'[k]) : rx'[k][i].src # k
  BY <1>2 DEF MinInv
<1> HIDE DEF m
<1>5. ASSUME NEW x \in SfState, sf' = [sf EXCEPT ![n] = x], MinLink \in x.sched,
             x.res = sf[n].res, x.reloc = sf[n].reloc
      PROVE  MinInv'
  BY <1>2, <1>3, <1>4, <1>5, SameMin
<1>6. CASE sf' = sf
  <2>1. sf' = [sf EXCEPT ![n] = sf[n]]
    BY <1>1, <1>6
  <2> QED
    BY <1>1, <1>5, <2>1
<1>7. CASE sf' # sf
  <2> DEFINE x == SentCallback(sf[n], cb, t.peer, ok)
  <2>1. sf' = [sf EXCEPT ![n] = x] /\ s # NoSlot /\ t.peer # NoNode
    BY Zenon, <1>7 DEF Report
  <2>2. s \in Slot
    <3>1. node[n].queue[p] \in Seq(Packet) /\ node[n].queue[p] # <<>>
      BY <1>1 DEF NodeInv, NodeState
    <3>2. Head(node[n].queue[p]) \in Packet
      BY <3>1
    <3> QED
      BY <2>1, <3>2 DEF Packet
  <2>3. t.peer \in Node
    BY ZenonT(60), <1>1, <2>1, <2>2 DEF NodeInv, NodeState, Trans
  <2>4. cb # "NONE" => t.state # "WAIT_FREE" /\ cb = t.cb
    BY Zenon DEF CallbackRun
  <2>5. Backed(t, sf[n])
    BY <2>2 DEF MinInv
  <2>6. cb # "NONE" => sf[n].res \in UpCell /\ (cb = "RELOCATE" => sf[n].reloc \in UpCell)
    BY Zenon, <2>4, <2>5 DEF Backed
  <2> HIDE DEF cb, t
  <2>7. x \in SfState
    BY <1>1, <2>3, SentCallbackType
  <2>8. MinLink \in x.sched /\ x.res = sf[n].res /\ x.reloc = sf[n].reloc
    BY <1>1, <2>6, SentCallbackMin
  <2> HIDE DEF x
  <2> QED
    BY Zenon, <1>5, <2>1, <2>7, <2>8
<1> QED
  BY <1>6, <1>7

LEMMA ReceiveMin ==
  ASSUME SfInv, MinInv, NEW n \in Node, NEW res \in Result, Receive(n, res)
  PROVE  MinInv'
<1> DEFINE f == Head(rx[n])
           up == Upcall(node[n], f.src, f.pkt)
<1>1. /\ sf \in [Node -> SfState] /\ sf[n] \in SfState /\ NodeInv(node[n])
      /\ rx \in [Node -> Seq(Frame)] /\ rx[n] # <<>> /\ MinLink \in sf[n].sched
  BY DEF SfInv, SfTypeOK, Inv, TypeOK, Receive, MinInv, MinimalCellKept, MinLink
<1>2. f \in Frame /\ f.src \in Node /\ f.pkt \in Packet /\ f.src # n
  <2>1. f \in Frame /\ f = rx[n][1] /\ 1 \in 1..Len(rx[n])
    BY <1>1
  <2> QED
    BY <2>1 DEF Frame, MinInv
<1>3. PICK o \in IF up THEN SfInput(node[n], sf[n], f) ELSE {NoReply(sf[n])} :
        Input(n, o.answer, o.body, o.cb, res) /\ sf' = [sf EXCEPT ![n] = o.state]
  BY DEF Receive
<1> DEFINE m == HandleFrame(node[n], f, o.answer, o.body, o.cb, res)
<1>4. node' = [node EXCEPT ![n] = m] /\ rx' = [rx EXCEPT ![n] = Tail(rx[n])]
  BY <1>3 DEF Input
<1>5. \A k \in Node : \A i \in 1..Len(rx'[k]) : rx'[k][i].src # k
  <2> SUFFICES ASSUME NEW k \in Node, NEW i \in 1..Len(rx'[k]) PROVE rx'[k][i].src # k
    OBVIOUS
  <2>1. CASE k # n
    BY <1>1, <1>4, <2>1 DEF MinInv
  <2>2. CASE k = n
    <3>1. rx'[k] = Tail(rx[n])
      BY <1>1, <1>4, <2>2
    <3>2. rx'[k][i] = rx[n][i + 1] /\ i + 1 \in 1..Len(rx[n])
      BY <1>1, <3>1
    <3> QED
      BY <2>2, <3>2 DEF MinInv
  <2> QED
    BY <2>1, <2>2
<1> HIDE DEF f, m
<1>6. ASSUME NEW b \in Body, NEW cb \in Cmd \cup {"NONE"}, o.body = b, o.cb = cb
      PROVE  AllBecome(node[n], m, f.src, "NONE", cb)
  BY <1>1, <1>2, <1>6, HandleFrameBecomes DEF m
<1>7. ASSUME NEW x \in SfState, o = NoReply(x), MinLink \in x.sched,
             x.res = sf[n].res, x.reloc = sf[n].reloc
      PROVE  MinInv'
  <2>1. o.cb = "NONE" /\ o.body \in Body /\ o.state = x
    BY <1>7, BodyAssumption DEF NoReply
  <2>2. AllBecome(node[n], m, f.src, "NONE", "NONE")
    BY <1>6, <2>1
  <2>3. sf' = [sf EXCEPT ![n] = x]
    BY <1>3, <2>1
  <2> DEFINE q == f.src
  <2>4. q \in Node \ {n} /\ AllBecome(node[n], m, q, "NONE", "NONE")
    BY <1>2, <2>2
  <2>5. node' = [node EXCEPT ![n] = m]
    BY <1>4
  <2> HIDE DEF q
  <2> QED
    BY <1>5, <1>7, <2>3, <2>4, <2>5, SameMin
<1>8. CASE o = NoReply(sf[n])
  BY <1>1, <1>7, <1>8
<1>9. CASE up /\ f.pkt.type = "REQUEST" /\ o \in RequestInput(sf[n], f.pkt)
  <2>1. GoodOutcome(o) /\ o.state.sched = sf[n].sched
    BY <1>1, <1>2, <1>9, RequestInputGood
  <2>2. /\ o.state \in SfState /\ o.body \in Body /\ o.cb \in Cmd \cup {"NONE"}
        /\ MinLink \in o.state.sched
    BY <1>1, <2>1, BodyShapeAssumption DEF GoodOutcome, Cmd
  <2>3. AllBecome(node[n], m, f.src, "NONE", o.cb)
    BY <1>6, <2>2
  <2>4. o.cb # "NONE" => /\ o.state.res \in UpCell
                         /\ o.cb = "RELOCATE" => o.state.reloc \in UpCell
    BY <1>1, <1>2, <1>9, RequestInputBacked
  <2>5. \A s \in Slot : ~Listed(node[n].trans[s])
    <3>1. AfterClear(node[n], f.src, f.pkt).trans = node[n].trans
      BY <1>1 DEF AfterClear, NodeInv, NodeState
    <3>2. \A s \in Slot : Listed(node[n].trans[s]) => node[n].trans[s].peer # f.src
      BY <1>9, <3>1 DEF Upcall, CanAlloc, HasTrans, TransWith
    <3>3. \A s \in Slot : Listed(node[n].trans[s]) =>
            node[n].trans[s].peer \in Node /\ node[n].trans[s].peer # n
      BY <1>1 DEF NodeInv, Listed, MinInv
    <3> QED
      BY <1>2, <3>2, <3>3, CommandFacts
  <2>6. ASSUME NEW s \in Slot
        PROVE  /\ Listed(m.trans[s]) => m.trans[s].peer # n
               /\ Backed(m.trans[s], o.state)
    <3>1. /\ Becomes(node[n].trans[s], m.trans[s], f.src, "NONE", o.cb)
          /\ Backed(node[n].trans[s], sf[n]) /\ ~Listed(node[n].trans[s])
      BY <2>3, <2>5 DEF AllBecome, MinInv
    <3>2. Listed(m.trans[s]) => m.trans[s].peer # n
      BY <1>2, <3>1 DEF Becomes
    <3>3. m.trans[s].state # "WAIT_FREE" /\ m.trans[s].cb # "NONE" => m.trans[s].cb = o.cb
      BY <3>1 DEF Becomes, Backed, Listed
    <3>4. Requesting(m.trans[s]) => m.trans[s].cmd # "RELOCATE"
      BY <3>1 DEF Becomes, Requesting, Listed
    <3>5. m.trans[s].state = "UNAVAILABLE" => m.trans[s].cb = "NONE"
      BY <3>1 DEF Becomes, Backed
    <3> QED
      BY <2>4, <3>2, <3>3, <3>4, <3>5 DEF Backed
  <2> QED
    BY <1>3, <1>4, <1>5, <2>2, <2>6, SetMin
<1>10. CASE up /\ f.pkt.type = "RESPONSE"
            /\ o = NoReply(ResponseInput(sf[n], node[n].trans[Find(node[n], f.src)].cmd,
                                         f.pkt, f.src))
  <2> DEFINE t == node[n].trans[Find(node[n], f.src)]
             x == ResponseInput(sf[n], t.cmd, f.pkt, f.src)
  <2>1. Accepts(node[n], f.src, f.pkt)
    BY <1>10 DEF Upcall
  <2>2. Find(node[n], f.src) \in Slot /\ Requesting(t)
    BY <1>10, <2>1, FindTrans DEF Accepts, StateOnReply, Allowed, Requesting
  <2>3. t.cmd = "RELOCATE" => sf[n].reloc \in UpCell
    BY <2>2 DEF MinInv, Backed
  <2> HIDE DEF t
  <2>4. x \in SfState
    BY <1>1, <1>2, ResponseInputType
  <2>5. MinLink \in x.sched /\ x.res = sf[n].res /\ x.reloc = sf[n].reloc
    BY <1>1, <1>2, <2>3, ResponseInputMin
  <2> HIDE DEF x
  <2> QED
    BY <1>7, <1>10, <2>4, <2>5 DEF x, t
<1> QED
  BY <1>3, <1>8, <1>9, <1>10 DEF SfInput

LEMMA MinInit == SfInit => MinInv
<1> SUFFICES ASSUME SfInit PROVE MinInv
  OBVIOUS
<1>1. \A n \in Node, s \in Slot : node[n].trans[s] = FreeTrans
  BY DEF SfInit, Init, BootState
<1>2. \A n \in Node : rx[n] = <<>>
  BY DEF SfInit, Init
<1>3. MinimalCellKept
  BY DEF SfInit, MinimalCellKept
<1> QED
  BY <1>1, <1>2, <1>3 DEF MinInv, Backed, FreeTrans, Listed, Requesting

LEMMA MinStep == SfInv /\ MinInv /\ [SfNext]_sfvars => MinInv'
<1> SUFFICES ASSUME SfInv, MinInv, [SfNext]_sfvars PROVE MinInv'
  OBVIOUS
<1>0. /\ sf \in [Node -> SfState] /\ \A n \in Node : NodeInv(node[n])
      /\ node \in [Node -> NodeState] /\ rx \in [Node -> Seq(Frame)]
      /\ app.rels \in SUBSET UpCell /\ Child \in Node /\ Parent \in Node
      /\ CellsOf(sf[Child].sched, "TX", Parent) \subseteq UpCell
  BY CommandFacts DEF SfInv, SfTypeOK, Inv, TypeOK, AppState
<1>1. CASE UNCHANGED <<node, rx, sf>>
  BY <1>1 DEF MinInv, MinimalCellKept
<1>2. ASSUME NEW cmd \in {"ADD", "DELETE"}, NEW cells \in SUBSET UpCell,
             NEW flush \in Flushing, NEW res, UNCHANGED sf,
             Request(Child, Parent, cmd, MkBody(NoCell, cells), "NONE", flush, res)
      PROVE  MinInv'
  <2>1. sf' = [sf EXCEPT ![Child] = sf[Child]] /\ sf[Child] \in SfState
    BY <1>0, <1>2
  <2>2. MkBody(NoCell, cells) \in Body /\ cmd \in Cmd /\ cmd # "RELOCATE"
    BY MkBodyType, CommandFacts
  <2> QED
    BY <1>2, <2>1, <2>2, RequestMin
<1>3. ASSUME NEW c \in app.rels, NEW cands \in Candidates, NEW res \in Result,
             RelocSend(c, cands, res)
      PROVE  MinInv'
  <2> DEFINE x == [sf[Child] EXCEPT !.reloc = c]
  <2>1. c \in UpCell /\ cands \in SUBSET UpCell /\ "none" \in Flushing
    BY <1>0, BodyShapeAssumption DEF Candidates
  <2>2. MkBody(c, cands) \in Body /\ "RELOCATE" \in Cmd
    BY <2>1, MkBodyType, CommandFacts
  <2>3. /\ x \in SfState /\ x.res = sf[Child].res /\ x.sched = sf[Child].sched
        /\ x.reloc = c
    BY <1>0, <2>1 DEF SfState
  <2>4. sf' = [sf EXCEPT ![Child] = x]
    BY <1>3 DEF RelocSend
  <2> HIDE DEF x
  <2>5. Request(Child, Parent, "RELOCATE", MkBody(c, cands), "NONE", "none", res)
    BY <1>3 DEF RelocSend
  <2> QED
    BY <2>1, <2>2, <2>3, <2>4, <2>5, RequestMin
<1>4. ASSUME NEW n \in Node, NEW m, NEW q \in Node \ {n}, UNCHANGED sf,
             node' = [node EXCEPT ![n] = m], AllBecome(node[n], m, q, "NONE", "NONE"),
             \A k \in Node : \A i \in 1..Len(rx'[k]) : rx'[k][i].src # k
      PROVE  MinInv'
  <2>1. sf' = [sf EXCEPT ![n] = sf[n]] /\ sf[n] \in SfState /\ MinLink \in sf[n].sched
    BY <1>0, <1>4 DEF MinInv, MinimalCellKept, MinLink
  <2> QED
    BY <1>4, <2>1, SameMin
<1>5. \A n \in Node : \E q \in Node : q # n
  BY <1>0, CommandFacts
<1>6. ASSUME NEW n \in Node, AddSf(n), UNCHANGED sf PROVE MinInv'
  <2> DEFINE m == [node[n] EXCEPT !.sf = TRUE]
  <2>1. m.trans = node[n].trans
    BY <1>0 DEF NodeState
  <2>2. node' = [node EXCEPT ![n] = m] /\ rx' = rx
    BY <1>6 DEF AddSf
  <2> HIDE DEF m
  <2>3. \A k \in Node : \A i \in 1..Len(rx'[k]) : rx'[k][i].src # k
    BY <2>2 DEF MinInv
  <2>4. PICK q \in Node \ {n} : TRUE
    BY <1>5
  <2>5. AllBecome(node[n], m, q, "NONE", "NONE")
    BY <1>0, <2>1, BecomesSame
  <2> QED
    BY <1>4, <1>6, <2>2, <2>3, <2>4, <2>5
<1>7. ASSUME NEW n \in Node, NEW p \in Node \ {n}, Transmit(n, p), UNCHANGED sf
      PROVE  MinInv'
  <2> DEFINE m == [node[n] EXCEPT !.queue[p][1].heard = TRUE]
             f == [src |-> n, pkt |-> Head(node[n].queue[p])]
  <2>1. m.trans = node[n].trans /\ node' = [node EXCEPT ![n] = m]
    BY <1>0, <1>7 DEF Transmit, NodeState
  <2>2. f \in Frame
    <3>1. node[n].queue[p] \in Seq(Packet) /\ node[n].queue[p] # <<>>
      BY <1>0, <1>7 DEF Transmit, NodeState
    <3> QED
      BY <3>1 DEF Frame
  <2>3. rx' = [rx EXCEPT ![p] = Append(rx[p], f)] /\ f.src = n
    BY <1>7 DEF Transmit
  <2> HIDE DEF f, m
  <2>4. \A k \in Node : \A i \in 1..Len(rx'[k]) : rx'[k][i].src # k
    <3> SUFFICES ASSUME NEW k \in Node, NEW i \in 1..Len(rx'[k]) PROVE rx'[k][i].src # k
      OBVIOUS
    <3>1. CASE k # p
      BY <1>0, <2>3, <3>1 DEF MinInv
    <3>2. CASE k = p
      <4>1. rx'[k] = Append(rx[p], f) /\ rx[p] \in Seq(Frame)
        BY <1>0, <2>3, <3>2
      <4>2. \/ i \in 1..Len(rx[p]) /\ rx'[k][i] = rx[p][i]
            \/ rx'[k][i] = f
        BY <2>2, <4>1
      <4> QED
        BY <2>3, <3>2, <4>2 DEF MinInv
    <3> QED
      BY <3>1, <3>2
  <2> QED
    BY <1>4, <1>7, <2>1, <2>4, BecomesSame
<1>8. ASSUME NEW n \in Node, NEW s \in Slot, Expire(n, s) PROVE MinInv'
  <2>1. Listed(node[n].trans[s])
    BY <1>0, <1>8 DEF Expire, Timer, NodeInv, TimerArmedAt
  <2>2. rx' = rx /\ UNCHANGED sf
    BY <1>8 DEF Expire, Timer
  <2>3. \A k \in Node : \A i \in 1..Len(rx'[k]) : rx'[k][i].src # k
    BY <2>2 DEF MinInv
  <2>4. PICK q \in Node : q # n
    BY <1>5
  <2>5. /\ AllBecome(node[n], ProcessTrans(node[n], s), q, "NONE", "NONE")
        /\ AllBecome(node[n], HandleTransTimeout(node[n], s), q, "NONE", "NONE")
    BY <1>0, <2>1, ProcessTransBecomes
  <2>6. \/ node' = [node EXCEPT ![n] = ProcessTrans(node[n], s)]
        \/ node' = [node EXCEPT ![n] = HandleTransTimeout(node[n], s)]
    BY <1>8 DEF Expire, Timer
  <2> QED
    BY <1>4, <2>2, <2>3, <2>4, <2>5, <2>6
<1>9. ASSUME NEW cands \in Candidates, NEW flush \in Flushing, NEW res \in Result,
             AddSend(cands, flush, res)
      PROVE  MinInv'
  BY <1>2, <1>9 DEF AddSend, Candidates
<1>10. ASSUME NEW c \in CellsOf(sf[Child].sched, "TX", Parent), NEW res \in Result,
              RemoveSend(c, res)
       PROVE  MinInv'
  BY <1>0, <1>2, <1>10, BodyShapeAssumption DEF RemoveSend
<1> QED
  BY <1>1, <1>3, <1>6, <1>7, <1>8, <1>9, <1>10, ReceiveMin, ReportMin
     DEF SfNext, sfvars, AddCheck, Evaluate

(* The minimal cell is never taken out of a schedule or replaced: what     *)
(* sf-simple installs and removes is never the cleared res_storage or an   *)
(* unset current_cell_to_be_relocated.                                     *)
THEOREM SfMinimalCell == SfSpec => []MinimalCellKept
<1>1. MinInv => MinimalCellKept
  BY DEF MinInv
<1> QED
  BY <1>1, MinInit, MinStep, SfInvInit, SfStep, PTL DEF SfSpec


-----------------------------------------------------------------------------
(***************************************************************************)
(* The schedules agree.  As long as no acknowledgement is lost and no      *)
(* timeout overtakes a frame, at most one frame that belongs to the        *)
(* child's transaction is on its way: the request, or the response to it.  *)
(* The parent's schedule follows when its MAC reports the response, the    *)
(* child's when it handles it, in either order, and both make the same     *)
(* change.  What else may be on its way are error responses to requests    *)
(* the child has given up, and their sequence number gives them away.      *)
(*                                                                         *)
(* Below c and p are the 6P states of child and parent, x and y those of   *)
(* their scheduling functions, rc and rp the frames they have received,    *)
(* q and a the queues from child to parent and back.                       *)
(***************************************************************************)
SfCmd == {"ADD", "DELETE", "RELOCATE"}

(* What the child waits for an answer to; W stands for it below. *)
Ask(t) == [req |-> t.req, seqno |-> t.seqno, cmd |-> t.cmd]
Asking(c) == {Ask(c.trans[s]) : s \in {r \in Slot : Requesting(c.trans[r])}}

Belongs(W, k) == \E w \in W : w.req = k.req
SameRequest(w, k) == w.req = k.req /\ w.seqno = k.seqno

(* At most one frame of the transaction that the other node does not have. *)
AllHeard(q) == \A i \in 1..Len(q) : q[i].heard
NoAnswer(W, a) == \A i \in 1..Len(a) : ~a[i].heard => ~Belongs(W, a[i])
NoReturn(W, rc) == \A i \in 1..Len(rc) : ~Belongs(W, rc[i].pkt)

OneFrame(W, q, rp, a, rc) ==
  /\ \A i, j \in 1..Len(q) : ~q[i].heard /\ ~q[j].heard => i = j
  /\ \A i, j \in 1..Len(rp) : i = j
  /\ \A i, j \in 1..Len(a) :
       ~a[i].heard /\ Belongs(W, a[i]) /\ ~a[j].heard /\ Belongs(W, a[j]) => i = j
  /\ \A i, j \in 1..Len(rc) : Belongs(W, rc[i].pkt) /\ Belongs(W, rc[j].pkt) => i = j
  /\ AllHeard(q) \/ rp = <<>>
  /\ AllHeard(q) \/ NoAnswer(W, a)
  /\ AllHeard(q) \/ NoReturn(W, rc)
  /\ rp = <<>> \/ NoAnswer(W, a)
  /\ rp = <<>> \/ NoReturn(W, rc)
  /\ NoAnswer(W, a) \/ NoReturn(W, rc)

(* The request k on its way is the one the child waits for. *)
Asked(W, x, k) ==
  \E w \in W :
    /\ SameRequest(w, k) /\ w.cmd = k.code
    /\ k.type = "REQUEST" /\ k.code \in SfCmd
    /\ k.code = "RELOCATE" => k.body.rel = x.reloc

Requests(W, q, rp, x) ==
  /\ \A i \in 1..Len(q) : (~q[i].heard => Asked(W, x, q[i])) /\ (i > 1 => ~q[i].heard)
  /\ \A i \in 1..Len(rp) : Asked(W, x, rp[i].pkt)

(* Only the first request had the sequence number 0: an error response     *)
(* with it that the child does not wait for cannot be taken for another.   *)
Past(c) ==
  /\ c.nbr[Parent] \notin {NoNbr, 0}
  /\ \A s \in Slot : Listed(c.trans[s]) => c.trans[s].seqno # 0
Stale(c, k) == k.code # "SUCCESS" /\ k.seqno = 0 /\ Past(c)

(* A response that grants something names the cell that the parent has     *)
(* stored (u is its transaction), or no cell.                              *)
Promised(W, x, y, u, k) ==
  \E w \in W :
    /\ SameRequest(w, k)
    /\ \/ /\ w.cmd \in SfCmd /\ u.cb = w.cmd
          /\ k.body.cells = {y.res}
          /\ w.cmd = "RELOCATE" => y.reloc = x.reloc
       \/ w.cmd = "DELETE" /\ u.cb = "NONE" /\ k.body.cells = {}

(* The parent's transaction holds what its response promises until the     *)
(* response is reported.                                                   *)
Holds(p, k) ==
  LET u == p.trans[k.ptr]
  IN  /\ u.state = "RESPONSE_SENDING" /\ u.req = k.req
      /\ p.nbr[Child] # NoNbr
      /\ k.code # "SUCCESS" => u.cb = "NONE"

Answer(c, p, x, y, nr, k) ==
  /\ k.type = "RESPONSE" /\ k.req <= nr
  /\ ~k.heard /\ ~Belongs(Asking(c), k) => Stale(c, k)
  /\ ~k.heard /\ k.code = "SUCCESS" => Promised(Asking(c), x, y, p.trans[k.ptr], k)
  /\ k.code = "SUCCESS" => k.ptr # NoSlot
  /\ k.ptr # NoSlot => Holds(p, k)

Return(c, nr, k) ==
  /\ k.type = "RESPONSE" /\ k.req <= nr
  /\ ~Belongs(Asking(c), k) => Stale(c, k)
  /\ k.code = "SUCCESS" => \E w \in Asking(c) : SameRequest(w, k)

Responses(c, p, a, rc, x, y, nr) ==
  /\ \A i \in 1..Len(a) : Answer(c, p, x, y, nr, a[i]) /\ (i > 1 => ~a[i].heard)
  /\ \A i, j \in 1..Len(a) : a[i].ptr # NoSlot /\ a[j].ptr # NoSlot => i = j
  /\ \A i \in 1..Len(rc) : Return(c, nr, rc[i].pkt)

(* What the sequence numbers and the identities of requests rest on. *)
Numbers(c, p, nr) ==
  /\ \A s \in Slot : c.trans[s].cb = "NONE"
  /\ \A s \in Slot : Listed(c.trans[s]) => c.nbr[Parent] \notin {NoNbr, 0}
  /\ \A w \in Asking(c) : w.req <= nr
  /\ \A s \in Slot : Listed(p.trans[s]) =>
       /\ p.trans[s].req <= nr /\ p.trans[s].cmd # "CLEAR"
       /\ p.trans[s].seqno # 0 => Past(c)

(* Before the child has a scheduling function nothing happens. *)
Silent(c, q, rp, a, rc) ==
  c.sf \/ (q = <<>> /\ rp = <<>> /\ a = <<>> /\ rc = <<>>)

(* The cells the other way round. *)
Other(n) == IF n = Child THEN Parent ELSE IF n = Parent THEN Child ELSE n
OtherWay(opt) == IF opt = "TX" THEN "RX" ELSE IF opt = "RX" THEN "TX" ELSE opt
MirrorLink(l) == MkLink(l.cell, OtherWay(l.opt), Other(l.peer))
Mirror(sched) == {MirrorLink(l) : l \in sched}

(* The parent's schedule once the response that the child has got is       *)
(* reported, and the child's once it has handled it.                       *)
Installed(y, cb) == SentCallback(y, cb, Child, TRUE).sched

Granted(p, a, y) ==
  IF a # <<>> /\ a[1].heard /\ a[1].ptr # NoSlot
  THEN Installed(y, p.trans[a[1].ptr].cb)
  ELSE y.sched

SameCells(c, p, a, rc, x, y) ==
  /\ (\A i \in 1..Len(rc) : rc[i].pkt.code # "SUCCESS") => Mirror(x.sched) = Granted(p, a, y)
  /\ \A i \in 1..Len(rc), w \in Asking(c) :
       rc[i].pkt.code = "SUCCESS"
         => Mirror(ResponseInput(x, w.cmd, rc[i].pkt, Parent).sched) = Granted(p, a, y)

Agree(c, p, rc, rp, x, y, nr) ==
  /\ OneFrame(Asking(c), c.queue[Parent], rp, p.queue[Child], rc)
  /\ Requests(Asking(c), c.queue[Parent], rp, x)
  /\ Responses(c, p, p.queue[Child], rc, x, y, nr)
  /\ Numbers(c, p, nr)
  /\ Silent(c, c.queue[Parent], rp, p.queue[Child], rc)
  /\ SameCells(c, p, p.queue[Child], rc, x, y)

AgreeInv ==
  app.clean => Agree(node[Child], node[Parent], rx[Child], rx[Parent],
                     sf[Child], sf[Parent], nreq)

-----------------------------------------------------------------------------
(* The child's 6P state changes from c to m without a new request: no      *)
(* transaction waits for an answer that did not before.                    *)
Calm(t, u) ==
  /\ u.cb = "NONE"
  /\ Listed(u) => Listed(t) /\ u.seqno = t.seqno
  /\ Requesting(u) => Requesting(t) /\ Ask(u) = Ask(t)

Calms(c, m) ==
  /\ m.sf = c.sf
  /\ c.nbr[Parent] \notin {NoNbr, 0} => m.nbr[Parent] \notin {NoNbr, 0}
  /\ \A s \in Slot : Calm(c.trans[s], m.trans[s])

LEMMA CalmsTrans ==
  ASSUME NEW c, NEW m, NEW k, Calms(c, m), Calms(m, k)
  PROVE  Calms(c, k)
BY DEF Calms, Calm

LEMMA CalmsFacts ==
  ASSUME NEW c, NEW m, Calms(c, m)
  PROVE  /\ Asking(m) \subseteq Asking(c)
         /\ Past(c) => Past(m)
         /\ \A k : Stale(c, k) => Stale(m, k)
         /\ \A k : Belongs(Asking(m), k) => Belongs(Asking(c), k)
<1>1. Asking(m) \subseteq Asking(c)
  BY DEF Calms, Calm, Asking
<1>2. Past(c) => Past(m)
  BY DEF Calms, Calm, Past
<1> QED
  BY <1>1, <1>2 DEF Stale, Belongs

(* None of the frames on their way belongs to the child's transaction. *)
NoFrame(W, q, rp, a, rc) ==
  AllHeard(q) /\ rp = <<>> /\ NoAnswer(W, a) /\ NoReturn(W, rc)

(* The queue m has nothing to deliver that q has not. *)
Within(m, q) ==
  \/ AllHeard(m)
  \/ /\ AllHeard(q) => AllHeard(m)
     /\ \A i \in 1..Len(m) : ~m[i].heard => \E j \in 1..Len(q) : m[i] = q[j]
     /\ \A i, j \in 1..Len(m) : ~m[i].heard /\ ~m[j].heard => i = j
Behind(m) == \A i \in 1..Len(m) : i > 1 => ~m[i].heard

(* A step of the child that neither asks nor receives keeps the agreement, *)
(* if no frame of a transaction that it gives up is on its way.            *)
LEMMA ChildCalms ==
  ASSUME NEW c, NEW p, NEW rc, NEW rp, NEW x, NEW y, NEW nr,
         Agree(c, p, rc, rp, x, y, nr), NEW m, Calms(c, m),
         Within(m.queue[Parent], c.queue[Parent]), Behind(m.queue[Parent]),
         c.sf \/ m.queue[Parent] = <<>>,
         \/ Asking(m) = Asking(c)
         \/ NoFrame(Asking(c), m.queue[Parent], rp, p.queue[Child], rc)
  PROVE  Agree(m, p, rc, rp, x, y, nr)
<1> DEFINE W == Asking(c)
           V == Asking(m)
           q == c.queue[Parent]
           r == m.queue[Parent]
           a == p.queue[Child]
<1>1. /\ OneFrame(W, q, rp, a, rc) /\ Requests(W, q, rp, x)
      /\ Responses(c, p, a, rc, x, y, nr) /\ Numbers(c, p, nr)
      /\ Silent(c, q, rp, a, rc) /\ SameCells(c, p, a, rc, x, y)
  BY DEF Agree
<1>2. /\ V \subseteq W /\ (Past(c) => Past(m)) /\ (\A k : Stale(c, k) => Stale(m, k))
      /\ \A k : Belongs(V, k) => Belongs(W, k)
  BY CalmsFacts
<1>3. V = W \/ NoFrame(W, r, rp, a, rc)
  OBVIOUS
<1>4. Within(r, q) /\ Behind(r)
  OBVIOUS
<1>5. Numbers(m, p, nr)
  BY <1>1, <1>2 DEF Numbers, Calms, Calm
<1>6. Silent(m, r, rp, a, rc)
  BY <1>1 DEF Silent, Calms
<1> HIDE DEF q, r, a
<1>7. OneFrame(V, r, rp, a, rc)
  BY <1>1, <1>2, <1>4 DEF OneFrame, Within, NoAnswer, NoReturn, AllHeard
<1>8. Requests(V, r, rp, x)
  BY <1>1, <1>3, <1>4 DEF Requests, NoFrame, Within, AllHeard, Behind
<1>9. ASSUME NEW i \in 1..Len(a) PROVE Answer(m, p, x, y, nr, a[i])
  <2>1. Answer(c, p, x, y, nr, a[i])
    BY <1>1 DEF Responses
  <2>2. V = W \/ a[i].heard \/ ~Belongs(W, a[i])
    BY <1>3 DEF NoFrame, NoAnswer
  <2>3. Promised(W, x, y, p.trans[a[i].ptr], a[i]) => Belongs(W, a[i])
    BY DEF Promised, SameRequest, Belongs
  <2>4. ~a[i].heard /\ ~Belongs(V, a[i]) => Stale(m, a[i])
    BY <1>2, <2>1, <2>2 DEF Answer
  <2>5. ~a[i].heard /\ a[i].code = "SUCCESS" => Promised(V, x, y, p.trans[a[i].ptr], a[i])
    BY <2>1, <2>2, <2>3 DEF Answer
  <2> QED
    BY <2>1, <2>4, <2>5 DEF Answer
<1>10. ASSUME NEW i \in 1..Len(rc) PROVE Return(m, nr, rc[i].pkt)
  <2>1. Return(c, nr, rc[i].pkt)
    BY <1>1 DEF Responses
  <2>2. V = W \/ ~Belongs(W, rc[i].pkt)
    BY <1>3 DEF NoFrame, NoReturn
  <2>3. (\E w \in W : SameRequest(w, rc[i].pkt)) => Belongs(W, rc[i].pkt)
    BY DEF SameRequest, Belongs
  <2> QED
    BY <1>2, <2>1, <2>2, <2>3 DEF Return
<1>11. Responses(m, p, a, rc, x, y, nr)
  BY <1>1, <1>9, <1>10 DEF Responses
<1>12. SameCells(m, p, a, rc, x, y)
  BY <1>1, <1>2 DEF SameCells
<1> QED
  BY <1>5, <1>6, <1>7, <1>8, <1>11, <1>12 DEF Agree, q, r, a

(* An allowed transition. *)
Moves(ns, m, s, new) ==
  /\ m.sf = ns.sf /\ m.queue = ns.queue
  /\ new # "RESPONSE_SENT" => m.nbr = ns.nbr
  /\ \A r \in Slot \ {s} : m.trans[r] = ns.trans[r]
  /\ m.trans[s] = [ns.trans[s] EXCEPT !.state = new, !.timer = "process"]

LEMMA TransitEffect ==
  ASSUME NEW ns \in NodeState, NEW s \in Slot, NEW new \in TransState,
         Allowed(ns.trans[s], new)
  PROVE  Moves(ns, Transit(ns, s, new), s, new)
<1> DEFINE u == [ns.trans[s] EXCEPT !.state = new, !.timer = "process"]
           b == NbrAfter(ns, ns.trans[s], new)
           m == Transit(ns, s, new)
<1>1. m = [ns EXCEPT !.nbr = b, !.trans[s] = u]
  BY DEF Transit
<1>2. new # "RESPONSE_SENT" => b = ns.nbr
  BY DEF NbrAfter
<1> HIDE DEF m, u, b
<1>3. /\ m.sf = ns.sf /\ m.queue = ns.queue /\ m.nbr = b
      /\ m.trans = [ns.trans EXCEPT ![s] = u]
  BY <1>1 DEF NodeState
<1>4. m.trans[s] = u /\ \A r \in Slot \ {s} : m.trans[r] = ns.trans[r]
  BY <1>3 DEF NodeState
<1> QED
  BY <1>2, <1>3, <1>4 DEF m, u, Moves

(* What the child's sixp_output() for a request does. *)
Starts(c, m, cmd, body, req) ==
  /\ ~HasTrans(c, Parent) /\ c.sf /\ m.sf = c.sf
  /\ m.nbr[Parent] \notin {NoNbr, 0}
  /\ \E s \in Slot :
       /\ \A r \in Slot \ {s} : m.trans[r] = c.trans[r]
       /\ LET t == m.trans[s]
          IN  /\ Requesting(t) /\ t.req = req /\ t.cmd = cmd /\ t.cb = "NONE"
              /\ c.nbr[Parent] \notin {NoNbr, 0} => t.seqno # 0
              /\ \/ m.queue[Parent] = c.queue[Parent]
                 \/ \E k \in Packet :
                      /\ m.queue[Parent] = Append(c.queue[Parent], k)
                      /\ k.type = "REQUEST" /\ k.code = cmd /\ k.body = body
                      /\ k.req = req /\ k.seqno = t.seqno /\ ~k.heard

LEMMA RequestOutput ==
  ASSUME NEW c, NodeInv(c), NEW cmd \in SfCmd, NEW body \in Body, NEW req \in Nat,
         NEW res, \A s \in Slot : c.trans[s].cb = "NONE",
         NEW m, m = OutputRequest(c, Parent, cmd, body, "NONE", req, res)
  PROVE  (Calms(c, m) /\ m.queue = c.queue) \/ Starts(c, m, cmd, body, req)
<1> DEFINE n1 == WithNbr(c, Parent)
           s == AllocSlot(n1)
           pkt == MkPacket("REQUEST", cmd, n1.nbr[Parent], body, s, req)
           na == Alloc(n1, Parent, pkt)
           n2 == [na EXCEPT !.trans[s].cb = "NONE"]
           n3 == SixtopOutput(n2, Parent, pkt, res)
           seq == SeqnoAfterRequest(cmd, n3.nbr[Parent])
           n4 == [n3 EXCEPT !.nbr[Parent] = seq]
           n5 == Transit(n4, s, "REQUEST_SENDING")
           n6 == [n3 EXCEPT !.trans[s] = FreeTrans]
<1>0. Parent \in Node /\ cmd \in Cmd /\ c \in NodeState
  BY CommandFacts DEF SfCmd, NodeInv
<1>1. /\ NodeInv(n1) /\ n1.nbr[Parent] \in 0..MaxSeqno
      /\ n1.trans = c.trans /\ n1.queue = c.queue /\ n1.sf = c.sf
  BY <1>0, WithNbrInv
<1>2. IF c.nbr[Parent] = NoNbr THEN n1.nbr[Parent] = 0 ELSE n1.nbr[Parent] = c.nbr[Parent]
  BY <1>0 DEF WithNbr, NodeState
<1>3. CASE HasTrans(c, Parent)
  BY <1>3 DEF OutputRequest, Calms, Calm
<1>4. CASE ~HasTrans(c, Parent) /\ ~CanAlloc(n1, Parent)
  <2>1. m = n1
    BY <1>4 DEF OutputRequest
  <2> HIDE DEF n1
  <2> QED
    BY <1>1, <1>2, <2>1 DEF Calms, Calm
<1>5. CASE ~HasTrans(c, Parent) /\ CanAlloc(n1, Parent)
  <2>1. s \in Slot /\ c.sf
    BY <1>1, <1>5 DEF AllocSlot, CanAlloc, FreeSlots
  <2>2. /\ pkt \in Packet /\ pkt.ptr = s /\ pkt.code = cmd /\ pkt.body = body
        /\ pkt.req = req /\ pkt.seqno = n1.nbr[Parent] /\ ~pkt.heard /\ pkt.type = "REQUEST"
    BY <1>0, <1>1, <2>1 DEF MkPacket, Packet, PktType
  <2>3. m = IF res \in Failure THEN n6 ELSE n5
    BY <1>5 DEF OutputRequest
  <2> DEFINE t == [state |-> "INIT", peer |-> Parent, seqno |-> pkt.seqno, cmd |-> pkt.code,
                   mode |-> DetermineMode(pkt.code, pkt.body), cb |-> "NONE",
                   timer |-> "timeout", req |-> pkt.req]
  <2>4. na = [n1 EXCEPT !.trans[s] = t]
    BY DEF Alloc
  <2>5. t \in Trans
    BY <1>0, <2>2 DEF Trans, Packet, TransState, DetermineMode
  <2>6. /\ t.state = "INIT" /\ t.cb = "NONE" /\ t.cmd = cmd /\ t.req = req
        /\ t.seqno = n1.nbr[Parent] /\ t.peer = Parent
    BY <2>2
  <2> HIDE DEF t, pkt, s
  <2>7. n1 \in NodeState
    BY <1>1 DEF NodeInv
  <2> HIDE DEF n1
  <2>8. /\ na \in NodeState /\ na.trans = [n1.trans EXCEPT ![s] = t]
        /\ na.nbr = n1.nbr /\ na.queue = n1.queue /\ na.sf = n1.sf
    BY <2>1, <2>4, <2>5, <2>7 DEF NodeState
  <2>9. na.trans[s] = t /\ \A r \in Slot \ {s} : na.trans[r] = c.trans[r]
    BY <1>1, <2>1, <2>7, <2>8 DEF NodeState
  <2> HIDE DEF na
  <2>10. n2 = na
    <3>1. [t EXCEPT !.cb = "NONE"] = t
      BY <2>5, <2>6 DEF Trans
    <3>2. [na.trans EXCEPT ![s] = [@ EXCEPT !.cb = "NONE"]] = na.trans
      BY <2>1, <2>8, <2>9, <3>1 DEF NodeState
    <3> QED
      BY <2>1, <2>8, <2>9, <3>1, <3>2 DEF NodeState
  <2> HIDE DEF n2
  <2>11. Outputs(n2, n3, Parent, pkt)
    <3>1. n2 \in NodeState /\ n2.trans[pkt.ptr].state = "INIT"
      BY <2>2, <2>6, <2>8, <2>9, <2>10
    <3> QED
      BY <1>0, <2>2, <3>1, SixtopOutputEffect
  <2> HIDE DEF n3
  <2>12. /\ n3.trans[s] = t /\ \A r \in Slot \ {s} : n3.trans[r] = c.trans[r]
    <3>1. [t EXCEPT !.cb = "NONE"] = t
      BY <2>5, <2>6 DEF Trans
    <3> QED
      <4>1. n3.trans[s] = t
        BY <2>1, <2>9, <2>10, <2>11, <3>1 DEF Outputs
      <4>2. ASSUME NEW r \in Slot \ {s} PROVE n3.trans[r] = c.trans[r]
        BY <2>2, <2>9, <2>10, <2>11 DEF Outputs
      <4> QED
        BY <4>1, <4>2
  <2>13. n3.queue = c.queue \/ n3.queue[Parent] = Append(c.queue[Parent], pkt)
    BY <1>0, <1>1, <2>8, <2>10, <2>11 DEF NodeState, Outputs
  <2>14. CASE res \in Failure
    <3>1. /\ n6.trans = [n3.trans EXCEPT ![s] = FreeTrans] /\ n6.nbr = n3.nbr
          /\ n6.queue = n3.queue /\ n6.sf = n3.sf
      BY <2>11 DEF NodeState, Outputs
    <3>2. n6.trans[s] = FreeTrans /\ \A r \in Slot \ {s} : n6.trans[r] = c.trans[r]
      BY <2>1, <2>11, <2>12, <3>1 DEF NodeState, Outputs
    <3>3. n6.queue = c.queue
      BY <1>1, <2>8, <2>10, <2>14, <3>1, ZenonT(60) DEF n3, SixtopOutput, Failure, NodeState, MacCallback,
         ClearCallback, Transit, StateAfterMac
    <3> QED
      <4>1. m = n6
        BY <2>3, <2>14
      <4>2. n6.sf = c.sf /\ n6.nbr = n1.nbr
        BY <1>1, <2>8, <2>10, <2>11, <3>1 DEF Outputs
      <4>3. c.nbr[Parent] \notin {NoNbr, 0} => n6.nbr[Parent] \notin {NoNbr, 0}
        BY <1>2, <4>2
      <4>4. ASSUME NEW r \in Slot
            PROVE  \/ n6.trans[r] = c.trans[r]
                   \/ /\ ~Listed(n6.trans[r]) /\ ~Requesting(n6.trans[r])
                      /\ n6.trans[r].cb = "NONE"
        BY <3>2 DEF FreeTrans, Listed, Requesting
      <4>5. Calms(c, n6)
        BY <4>2, <4>3, <4>4 DEF Calms, Calm
      <4> QED
        BY <3>3, <4>1, <4>5
  <2>15. CASE res \notin Failure
    <3>1. seq \in 1..MaxSeqno
      BY <1>1, <2>8, <2>10, <2>11, NextSeqnoType DEF Outputs, SeqnoAfterRequest, SfCmd
    <3> HIDE DEF seq
    <3>2. /\ n4 \in NodeState /\ n4.nbr[Parent] = seq /\ n4.trans = n3.trans
          /\ n4.queue = n3.queue /\ n4.sf = n3.sf
      <4>1. seq \in 0..MaxSeqno
        BY <3>1, SeqnoAssumption
      <4> QED
        BY <1>0, <2>11, <4>1 DEF NodeState, Outputs
    <3> HIDE DEF n4
    <3>3. Allowed(n4.trans[s], "REQUEST_SENDING")
      BY <2>6, <2>12, <3>2 DEF Allowed
    <3>4. Moves(n4, n5, s, "REQUEST_SENDING")
      <4>1. "REQUEST_SENDING" \in TransState
        BY DEF TransState
      <4> QED
        BY <2>1, <3>2, <3>3, <4>1, TransitEffect
    <3> HIDE DEF n5
    <3>5. /\ n5.trans[s].state = "REQUEST_SENDING" /\ n5.trans[s].req = req
          /\ n5.trans[s].cmd = cmd /\ n5.trans[s].cb = "NONE"
          /\ n5.trans[s].seqno = n1.nbr[Parent]
      BY <2>5, <2>6, <2>12, <3>2, <3>4 DEF Trans, Moves
    <3>6. n5.nbr[Parent] \notin {NoNbr, 0}
      BY <3>1, <3>2, <3>4 DEF NoNbr, Moves
    <3>7. \A r \in Slot \ {s} : n5.trans[r] = c.trans[r]
      BY <2>12, <3>2, <3>4 DEF Moves
    <3>8. c.nbr[Parent] \notin {NoNbr, 0} => n5.trans[s].seqno # 0
      BY <1>2, <3>5
    <3>9. n5.sf = c.sf
      BY <1>1, <2>8, <2>10, <2>11, <3>2, <3>4 DEF Moves, Outputs
    <3>10. \/ n5.queue[Parent] = c.queue[Parent]
           \/ \E k \in Packet :
                /\ n5.queue[Parent] = Append(c.queue[Parent], k)
                /\ k.type = "REQUEST" /\ k.code = cmd /\ k.body = body
                /\ k.req = req /\ k.seqno = n5.trans[s].seqno /\ ~k.heard
      BY <2>2, <2>13, <3>2, <3>4, <3>5 DEF Moves
    <3>11. Starts(c, n5, cmd, body, req)
      BY <1>5, <2>1, <3>5, <3>6, <3>7, <3>8, <3>9, <3>10 DEF Starts, Requesting
    <3> QED
      <4>1. m = n5
        BY <2>3, <2>15
      <4> QED
        BY <3>11, <4>1
  <2> QED
    BY <2>14, <2>15
<1> QED
  BY <1>3, <1>4, <1>5

(* A new request: nothing belongs to it but the request itself. *)
LEMMA ChildAsks ==
  ASSUME NEW c \in NodeState, NEW p \in NodeState, NEW rc \in Seq(Frame), NEW rp \in Seq(Frame),
         NEW x, NEW y, NEW nr \in Nat, Agree(c, p, rc, rp, x, y, nr),
         \A s \in Slot : ~Listed(c.trans[s]),
         NEW m, NEW z, NEW cmd \in SfCmd, NEW body, Starts(c, m, cmd, body, nr + 1),
         z.sched = x.sched, cmd = "RELOCATE" => body.rel = z.reloc
  PROVE  Agree(m, p, rc, rp, z, y, nr + 1)
<1> DEFINE V == Asking(m)
           q == c.queue[Parent]
           r == m.queue[Parent]
           a == p.queue[Child]
<1>1. /\ OneFrame(Asking(c), q, rp, a, rc) /\ Requests(Asking(c), q, rp, x)
      /\ Responses(c, p, a, rc, x, y, nr) /\ Numbers(c, p, nr)
      /\ Silent(c, q, rp, a, rc) /\ SameCells(c, p, a, rc, x, y)
  BY DEF Agree
<1>2. Asking(c) = {}
  BY DEF Asking, Listed, Requesting
<1>3. a \in Seq(Packet) /\ q \in Seq(Packet)
  BY CommandFacts DEF NodeState
<1>4. PICK s \in Slot :
        /\ \A o \in Slot \ {s} : m.trans[o] = c.trans[o]
        /\ LET t == m.trans[s]
           IN  /\ Requesting(t) /\ t.req = nr + 1 /\ t.cmd = cmd /\ t.cb = "NONE"
               /\ c.nbr[Parent] \notin {NoNbr, 0} => t.seqno # 0
               /\ \/ r = q
                  \/ \E k \in Packet :
                       /\ r = Append(q, k)
                       /\ k.type = "REQUEST" /\ k.code = cmd /\ k.body = body
                       /\ k.req = nr + 1 /\ k.seqno = t.seqno /\ ~k.heard
  BY DEF Starts
<1> DEFINE t == m.trans[s]
           w == Ask(t)
<1>5. V = {w} /\ w.req = nr + 1 /\ w.seqno = t.seqno /\ w.cmd = cmd
  <2>1. \A o \in Slot : Requesting(m.trans[o]) <=> o = s
    BY <1>4 DEF Listed, Requesting
  <2> QED
    BY <1>4, <2>1 DEF Asking, Ask
<1> HIDE DEF w, V
<1>6. \A k : Belongs(V, k) <=> k.req = nr + 1
  BY <1>5 DEF Belongs
<1>7. Past(c) => Past(m)
  <2> SUFFICES ASSUME Past(c) PROVE Past(m)
    OBVIOUS
  <2>1. m.nbr[Parent] \notin {NoNbr, 0}
    BY DEF Starts
  <2>2. ASSUME NEW o \in Slot, Listed(m.trans[o]) PROVE m.trans[o].seqno # 0
    BY <1>4, <2>2 DEF Past
  <2> QED
    BY <2>1, <2>2 DEF Past
<1> HIDE DEF q, r, a, t
<1>8. AllHeard(q) /\ rp = <<>>
  <2>1. \A k : ~Asked(Asking(c), x, k)
    BY <1>2 DEF Asked
  <2>2. AllHeard(q)
    BY <1>1, <2>1 DEF Requests, AllHeard
  <2>3. rp = <<>>
    <3>1. \A i \in 1..Len(rp) : FALSE
      BY <1>1, <2>1 DEF Requests
    <3> QED
      BY <3>1
  <2> QED
    BY <2>2, <2>3
<1>9. ASSUME NEW i \in 1..Len(a)
      PROVE  /\ ~Belongs(V, a[i]) /\ Answer(m, p, z, y, nr + 1, a[i])
  <2>1. Answer(c, p, x, y, nr, a[i])
    BY <1>1 DEF Responses
  <2>2. a[i].req \in Nat
    BY <1>3 DEF Packet
  <2>3. ~Belongs(V, a[i]) /\ a[i].req <= nr + 1
    BY <1>6, <2>1, <2>2 DEF Answer
  <2>4. \A k : ~Promised(Asking(c), x, y, p.trans[k.ptr], k)
    BY <1>2 DEF Promised
  <2>5. \A k : ~Belongs(Asking(c), k)
    BY <1>2 DEF Belongs
  <2>6. ~a[i].heard => Stale(m, a[i]) /\ a[i].code # "SUCCESS"
    BY <1>7, <2>1, <2>4, <2>5 DEF Answer, Stale
  <2> QED
    BY <2>1, <2>3, <2>6 DEF Answer
<1>10. ASSUME NEW i \in 1..Len(rc)
       PROVE  /\ ~Belongs(V, rc[i].pkt) /\ Return(m, nr + 1, rc[i].pkt)
              /\ rc[i].pkt.code # "SUCCESS"
  <2>1. Return(c, nr, rc[i].pkt)
    BY <1>1 DEF Responses
  <2>2. rc[i] \in Frame
    OBVIOUS
  <2>3. rc[i].pkt.req \in Nat
    BY <2>2 DEF Frame, Packet
  <2>4. ~Belongs(V, rc[i].pkt) /\ rc[i].pkt.req <= nr + 1
    BY <1>6, <2>1, <2>3 DEF Return
  <2>5. rc[i].pkt.code # "SUCCESS" /\ ~Belongs(Asking(c), rc[i].pkt)
    BY <1>2, <2>1 DEF Return, Belongs
  <2>6. Stale(m, rc[i].pkt)
    BY <1>7, <2>1, <2>5 DEF Return, Stale
  <2> QED
    BY <2>1, <2>4, <2>5, <2>6 DEF Return
<1>11. \/ r = q
       \/ \E k \in Packet : /\ r = Append(q, k) /\ ~k.heard /\ Asked(V, z, k)
  <2> SUFFICES ASSUME r # q
               PROVE  \E k \in Packet : r = Append(q, k) /\ ~k.heard /\ Asked(V, z, k)
    OBVIOUS
  <2>1. PICK k \in Packet :
          /\ r = Append(q, k)
          /\ k.type = "REQUEST" /\ k.code = cmd /\ k.body = body
          /\ k.req = nr + 1 /\ k.seqno = t.seqno /\ ~k.heard
    BY <1>4 DEF q, r, t
  <2>2. w \in V
    BY <1>5
  <2>3. Asked(V, z, k)
    BY <1>5, <2>1, <2>2 DEF Asked, SameRequest
  <2> QED
    BY <2>1, <2>3
<1>12. /\ \A i \in 1..Len(r) : (~r[i].heard => Asked(V, z, r[i])) /\ (i > 1 => ~r[i].heard)
       /\ \A i, j \in 1..Len(r) : ~r[i].heard /\ ~r[j].heard => i = j
  <2>1. CASE r = q
    BY <1>1, <1>8, <2>1 DEF AllHeard, Requests
  <2>2. CASE r # q
    <3>1. PICK k \in Packet : r = Append(q, k) /\ ~k.heard /\ Asked(V, z, k)
      BY <1>11, <2>2
    <3>2. \A i \in 1..Len(r) : IF i = Len(q) + 1 THEN r[i] = k
                               ELSE i \in 1..Len(q) /\ r[i] = q[i]
      BY <1>3, <3>1, AppendElements
    <3> QED
      BY <1>1, <1>8, <3>1, <3>2 DEF AllHeard, Requests
  <2> QED
    BY <2>1, <2>2
<1>13. NoAnswer(V, a) /\ NoReturn(V, rc)
  BY <1>9, <1>10 DEF NoAnswer, NoReturn
<1>14. OneFrame(V, r, rp, a, rc)
  BY <1>8, <1>9, <1>10, <1>12, <1>13 DEF OneFrame
<1>15. Requests(V, r, rp, z)
  BY <1>8, <1>12 DEF Requests
<1>16. Responses(m, p, a, rc, z, y, nr + 1)
  BY <1>1, <1>9, <1>10 DEF Responses
<1>17. Numbers(m, p, nr + 1)
  <2>1. \A o \in Slot : m.trans[o].cb = "NONE"
    BY <1>1, <1>4 DEF Numbers
  <2>2. m.nbr[Parent] \notin {NoNbr, 0}
    BY DEF Starts
  <2>3. \A v \in V : v.req <= nr + 1
    BY <1>5
  <2>4. ASSUME NEW o \in Slot, Listed(p.trans[o])
        PROVE  /\ p.trans[o].req <= nr + 1 /\ p.trans[o].cmd # "CLEAR"
               /\ p.trans[o].seqno # 0 => Past(m)
    <3>1. p.trans[o].req \in Nat
      BY DEF NodeState, Trans
    <3> QED
      BY <1>1, <1>7, <2>4, <3>1 DEF Numbers
  <2> QED
    BY <2>1, <2>2, <2>3, <2>4 DEF Numbers, V
<1>18. Silent(m, r, rp, a, rc)
  BY DEF Silent, Starts
<1>19. SameCells(m, p, a, rc, z, y)
  BY <1>1, <1>10 DEF SameCells
<1> QED
  BY <1>14, <1>15, <1>16, <1>17, <1>18, <1>19 DEF Agree, V, r, a

LEMMA AskingSame ==
  ASSUME NEW c, NEW m,
         \A s \in Slot : /\ Requesting(m.trans[s]) <=> Requesting(c.trans[s])
                         /\ Requesting(m.trans[s]) => Ask(m.trans[s]) = Ask(c.trans[s])
  PROVE  Asking(m) = Asking(c)
BY DEF Asking

(* A block is overwritten with u. *)
LEMMA CalmsOne ==
  ASSUME NEW c \in NodeState, NEW m, NEW s \in Slot, NEW u, Calm(c.trans[s], u),
         \A r \in Slot : c.trans[r].cb = "NONE",
         m.trans = [c.trans EXCEPT ![s] = u], m.sf = c.sf,
         c.nbr[Parent] \notin {NoNbr, 0} => m.nbr[Parent] \notin {NoNbr, 0}
  PROVE  /\ Calms(c, m)
         /\ (Requesting(c.trans[s]) => Requesting(u)) => Asking(m) = Asking(c)
<1>1. \A r \in Slot : IF r = s THEN m.trans[r] = u ELSE m.trans[r] = c.trans[r]
  BY DEF NodeState
<1>2. \A r \in Slot : Calm(c.trans[r], c.trans[r])
  BY DEF Calm
<1>3. Calms(c, m)
  BY <1>1, <1>2 DEF Calms
<1>4. (Requesting(c.trans[s]) => Requesting(u)) => Asking(m) = Asking(c)
  BY <1>1, AskingSame DEF Calm
<1> QED
  BY <1>3, <1>4

(* What may become of a block of the child. *)
LEMMA CalmFree ==
  ASSUME NEW t \in Trans, t.cb = "NONE"
  PROVE  /\ Calm(t, FreeTrans) /\ Calm(t, t) /\ ~Requesting(FreeTrans)
         /\ [t EXCEPT !.cb = "NONE"] = t
<1>1. Calm(t, FreeTrans) /\ ~Requesting(FreeTrans)
  BY DEF Calm, FreeTrans, Listed, Requesting
<1>2. [t EXCEPT !.cb = "NONE"] = t /\ Calm(t, t)
  BY DEF Trans, Calm
<1> QED
  BY <1>1, <1>2

LEMMA CalmTimer ==
  ASSUME NEW t \in Trans, t.cb = "NONE", NEW timer,
         NEW v, v = [t EXCEPT !.timer = timer]
  PROVE  Calm(t, v) /\ (Requesting(v) <=> Requesting(t))
<1>1. v.state = t.state /\ v.cb = "NONE" /\ v.seqno = t.seqno /\ v.req = t.req /\ v.cmd = t.cmd
  BY DEF Trans
<1> QED
  BY <1>1 DEF Calm, Listed, Requesting, Ask

LEMMA CalmMove ==
  ASSUME NEW t, NEW u, u.cb = "NONE", u.seqno = t.seqno, u.req = t.req, u.cmd = t.cmd,
         Listed(u) => Listed(t), Requesting(u) => Requesting(t)
  PROVE  Calm(t, u)
BY DEF Calm, Ask

(* The child's transactions have no sent-callback. *)
NoCallbacks(c) == \A s \in Slot : c.trans[s].cb = "NONE"

(* An allowed transition of the child. *)
LEMMA ChildMoves ==
  ASSUME NEW c \in NodeState, NoCallbacks(c), NEW s \in Slot, Listed(c.trans[s]),
         NEW new \in TransState \ {"REQUEST_SENDING"},
         Allowed(c.trans[s], new), NEW m, m = Transit(c, s, new)
  PROVE  /\ Calms(c, m) /\ m.queue = c.queue /\ m.sf = c.sf /\ ClearCallback(m, s) = m
         /\ (Requesting(c.trans[s]) => new = "REQUEST_SENT") => Asking(m) = Asking(c)
<1> DEFINE t == c.trans[s]
           u == [t EXCEPT !.state = new, !.timer = "process"]
           b == NbrAfter(c, t, new)
<1>1. t \in Trans /\ t.cb = "NONE"
  BY DEF NodeState, NoCallbacks
<1>2. m = [c EXCEPT !.nbr = b, !.trans[s] = u]
  BY DEF Transit
<1>3. Requesting(u) => Requesting(t)
  BY <1>1 DEF Requesting, Allowed, Trans
<1>4. /\ u.state = new /\ Calm(t, u) /\ [u EXCEPT !.cb = "NONE"] = u
  <2>1. /\ u.state = new /\ u.cb = "NONE" /\ u.seqno = t.seqno /\ u.req = t.req
        /\ u.cmd = t.cmd
    BY <1>1 DEF Trans
  <2>2. [u EXCEPT !.cb = "NONE"] = u
    BY <1>1 DEF Trans
  <2> HIDE DEF u
  <2> QED
    BY <1>3, <2>1, <2>2, CalmMove
<1>5. c.nbr[Parent] \notin {NoNbr, 0} => b[Parent] \notin {NoNbr, 0}
  <2>1. CASE b = c.nbr
    BY <2>1
  <2>2. CASE b # c.nbr
    <3>1. b = [c.nbr EXCEPT ![t.peer] = NextSeqno(t.seqno)]
      BY <2>2 DEF NbrAfter
    <3>2. NextSeqno(t.seqno) \in 1..MaxSeqno
      BY <1>1, NextSeqnoType DEF Trans
    <3> QED
      BY <3>1, <3>2, CommandFacts DEF NodeState, NoNbr
  <2> QED
    BY <2>1, <2>2
<1> HIDE DEF u, b
<1>6. /\ m.trans = [c.trans EXCEPT ![s] = u] /\ m.nbr = b /\ m.queue = c.queue
      /\ m.sf = c.sf
  BY <1>2 DEF NodeState
<1>7. Calms(c, m) /\ ((Requesting(t) => Requesting(u)) => Asking(m) = Asking(c))
  BY <1>1, <1>4, <1>5, <1>6, CalmsOne DEF NoCallbacks
<1>8. ClearCallback(m, s) = m
  <2>1. m.trans[s] = u
    BY <1>6 DEF NodeState
  <2>2. [m.trans EXCEPT ![s] = u] = m.trans
    BY <1>6 DEF NodeState
  <2>3. m = [trans |-> m.trans, nbr |-> m.nbr, queue |-> m.queue, sf |-> m.sf]
    BY <1>2 DEF NodeState
  <2> QED
    BY <1>4, <2>1, <2>2, <2>3 DEF ClearCallback
<1>9. new = "REQUEST_SENT" => Requesting(u)
  BY <1>4 DEF Requesting
<1> QED
  BY <1>6, <1>7, <1>8, <1>9

LEMMA ChildCallback ==
  ASSUME NEW c \in NodeState, NoCallbacks(c), NEW s \in Slot, NEW ok \in BOOLEAN,
         NEW m, m = MacCallback(c, s, ok)
  PROVE  /\ Calms(c, m) /\ m.queue = c.queue
         /\ ok => Asking(m) = Asking(c)
<1> DEFINE t == c.trans[s]
           new == StateAfterMac(t, ok)
<1>1. t \in Trans /\ t.cb = "NONE"
  BY DEF NodeState, NoCallbacks
<1>2. new \in TransState \ {"REQUEST_SENDING"} \/ new = t.state
  BY DEF StateAfterMac, TransState
<1>3. CASE t.state = "WAIT_FREE"
  <2>1. m = [c EXCEPT !.trans[s] = FreeTrans]
    BY <1>3 DEF MacCallback
  <2>2. m.trans = [c.trans EXCEPT ![s] = FreeTrans] /\ m.nbr = c.nbr /\ m.queue = c.queue
        /\ m.sf = c.sf
    BY <2>1 DEF NodeState
  <2>3. Calm(t, FreeTrans) /\ ~Requesting(t)
    BY <1>1, <1>3, CalmFree DEF Requesting
  <2> QED
    BY <2>2, <2>3, CalmsOne DEF NoCallbacks
<1>4. CASE t.state # "WAIT_FREE" /\ new = t.state
  <2>1. m = [c EXCEPT !.trans[s] = [t EXCEPT !.cb = "NONE"]]
    BY <1>4 DEF MacCallback, ClearCallback
  <2>2. [t EXCEPT !.cb = "NONE"] = t /\ Calm(t, t)
    BY <1>1, CalmFree
  <2>3. m.trans = [c.trans EXCEPT ![s] = t] /\ m.nbr = c.nbr /\ m.queue = c.queue
        /\ m.sf = c.sf
    BY <2>1, <2>2 DEF NodeState
  <2> QED
    BY <2>2, <2>3, CalmsOne DEF NoCallbacks
<1>5. CASE t.state # "WAIT_FREE" /\ new # t.state /\ Allowed(t, new)
  <2> DEFINE k == Transit(c, s, new)
  <2>1. m = ClearCallback(k, s)
    BY <1>5 DEF MacCallback
  <2>2. Listed(t) /\ (Requesting(t) /\ ok => new = "REQUEST_SENT")
    BY <1>5 DEF StateAfterMac, Listed, Requesting
  <2> HIDE DEF new
  <2>3. /\ Calms(c, k) /\ k.queue = c.queue /\ ClearCallback(k, s) = k
        /\ (Requesting(t) => new = "REQUEST_SENT") => Asking(k) = Asking(c)
    BY <1>2, <1>5, <2>2, ChildMoves
  <2> QED
    BY <2>1, <2>2, <2>3
<1>6. CASE t.state # "WAIT_FREE" /\ new # t.state /\ ~Allowed(t, new)
  <2>1. m = Transit(c, s, "TERMINATING") /\ Allowed(t, "TERMINATING")
    BY <1>6 DEF MacCallback, Allowed
  <2>2. Listed(t) /\ (ok => ~Requesting(t))
    BY <1>6 DEF StateAfterMac, Listed, Requesting, Allowed
  <2>3. "TERMINATING" \in TransState \ {"REQUEST_SENDING"}
    BY DEF TransState
  <2> QED
    BY <2>1, <2>2, <2>3, ChildMoves
<1> QED
  BY <1>3, <1>4, <1>5, <1>6

(* A timer of the child. *)
LEMMA ChildTimer ==
  ASSUME NEW c \in NodeState, NoCallbacks(c), NEW s \in Slot, Listed(c.trans[s])
  PROVE  /\ \A m : m = ProcessTrans(c, s) =>
              Calms(c, m) /\ m.queue = c.queue /\ Asking(m) = Asking(c)
         /\ \A m : m = HandleTransTimeout(c, s) =>
              /\ Calms(c, m) /\ m.queue = c.queue
              /\ ~Requesting(c.trans[s]) => Asking(m) = Asking(c)
<1> DEFINE t == c.trans[s]
<1>1. t \in Trans /\ t.cb = "NONE"
  BY DEF NodeState, NoCallbacks
<1>2. ASSUME NEW m, m = Transit(c, s, "TERMINATING")
      PROVE  /\ Calms(c, m) /\ m.queue = c.queue
             /\ ~Requesting(t) => Asking(m) = Asking(c)
  BY <1>2, ChildMoves DEF TransState, Allowed
<1>3. ASSUME NEW u, Calm(t, u), Requesting(t) => Requesting(u),
             NEW m, m = [c EXCEPT !.trans[s] = u]
      PROVE  Calms(c, m) /\ m.queue = c.queue /\ Asking(m) = Asking(c)
  <2>1. m.trans = [c.trans EXCEPT ![s] = u] /\ m.nbr = c.nbr /\ m.queue = c.queue
        /\ m.sf = c.sf
    BY <1>3 DEF NodeState
  <2> QED
    BY <1>3, <2>1, CalmsOne DEF NoCallbacks
<1>4. ASSUME NEW m, m = ProcessTrans(c, s)
      PROVE  Calms(c, m) /\ m.queue = c.queue /\ Asking(m) = Asking(c)
  <2>1. CASE t.state = "TERMINATING"
    <3>1. m = [c EXCEPT !.trans[s] = FreeTrans]
      BY <1>4, <2>1 DEF ProcessTrans, Free, Sending
    <3>2. Calm(t, FreeTrans) /\ ~Requesting(t)
      BY <1>1, <2>1, CalmFree DEF Requesting
    <3> QED
      BY <1>3, <3>1, <3>2
  <2>2. CASE t.state # "TERMINATING" /\ Complete(t)
    <3>1. m = Transit(c, s, "TERMINATING") /\ ~Requesting(t)
      BY <1>4, <2>2 DEF ProcessTrans, Complete, Requesting
    <3> QED
      BY <1>2, <3>1
  <2>3. CASE t.state # "TERMINATING" /\ ~Complete(t)
    <3> DEFINE u == [t EXCEPT !.timer = "timeout"]
    <3>1. m = [c EXCEPT !.trans[s] = u]
      BY <1>4, <2>3 DEF ProcessTrans
    <3>2. Calm(t, u) /\ (Requesting(t) => Requesting(u))
      BY <1>1, CalmTimer
    <3> HIDE DEF u
    <3> QED
      BY <1>3, <3>1, <3>2
  <2> QED
    BY <2>1, <2>2, <2>3
<1> QED
  BY <1>2, <1>4 DEF HandleTransTimeout

(* The agreement does not depend on how many requests there may have been. *)
LEMMA LaterAgree ==
  ASSUME NEW c \in NodeState, NEW p \in NodeState, NEW rc \in Seq(Frame), NEW rp,
         NEW x, NEW y, NEW nr \in Nat, Agree(c, p, rc, rp, x, y, nr)
  PROVE  Agree(c, p, rc, rp, x, y, nr + 1)
<1> DEFINE a == p.queue[Child]
<1>0. a \in Seq(Packet)
  BY CommandFacts DEF NodeState
<1>1. /\ Responses(c, p, a, rc, x, y, nr) /\ Numbers(c, p, nr)
  BY DEF Agree
<1>2. ASSUME NEW i \in 1..Len(a) PROVE Answer(c, p, x, y, nr + 1, a[i])
  <2>1. a[i].req \in Nat /\ Answer(c, p, x, y, nr, a[i])
    BY <1>0, <1>1 DEF Packet, Responses
  <2> QED
    BY <2>1 DEF Answer
<1>3. ASSUME NEW i \in 1..Len(rc) PROVE Return(c, nr + 1, rc[i].pkt)
  <2>1. rc[i] \in Frame
    OBVIOUS
  <2>2. rc[i].pkt.req \in Nat /\ Return(c, nr, rc[i].pkt)
    BY <1>1, <2>1 DEF Frame, Packet, Responses
  <2> QED
    BY <2>2 DEF Return
<1>4. ASSUME NEW w \in Asking(c) PROVE w.req <= nr + 1
  <2>1. w.req \in Nat
    BY <1>4 DEF Asking, Ask, NodeState, Trans
  <2> QED
    BY <1>1, <2>1 DEF Numbers
<1>5. ASSUME NEW s \in Slot, Listed(p.trans[s]) PROVE p.trans[s].req <= nr + 1
  <2>1. p.trans[s].req \in Nat
    BY DEF NodeState, Trans
  <2> QED
    BY <1>1, <1>5, <2>1 DEF Numbers
<1>6. Responses(c, p, a, rc, x, y, nr + 1)
  BY <1>1, <1>2, <1>3 DEF Responses
<1>7. Numbers(c, p, nr + 1)
  BY <1>1, <1>4, <1>5 DEF Numbers
<1> QED
  BY <1>6, <1>7 DEF Agree

(* The MAC reports a packet of the child, and 6P is told. *)
LEMMA ChildReports ==
  ASSUME NEW c \in NodeState, NEW p, NEW rc, NEW rp, NEW x, NEW y, NEW nr,
         Agree(c, p, rc, rp, x, y, nr), c.queue[Parent] # <<>>,
         NEW ok \in BOOLEAN, ok = Head(c.queue[Parent]).heard
  PROVE  /\ Agree(DoneWith(c, Parent, ok), p, rc, rp, x, y, nr)
         /\ \A s \in Slot : CallbackRun(c, s, ok) = "NONE"
<1> DEFINE q == c.queue[Parent]
           k == Head(q)
           n1 == [c EXCEPT !.queue[Parent] = Tail(q)]
           a == p.queue[Child]
           W == Asking(c)
<1>1. /\ OneFrame(W, q, rp, a, rc) /\ Requests(W, q, rp, x) /\ NoCallbacks(c)
      /\ Silent(c, q, rp, a, rc)
  BY DEF Agree, Numbers, NoCallbacks
<1>2. q \in Seq(Packet) /\ Parent \in Node
  BY CommandFacts DEF NodeState
<1>3. /\ Tail(q) \in Seq(Packet) /\ Len(Tail(q)) = Len(q) - 1 /\ Len(q) \in Nat \ {0}
      /\ \A i \in 1..Len(Tail(q)) : i + 1 \in 1..Len(q) /\ Tail(q)[i] = q[i + 1]
      /\ k = q[1] /\ k \in Packet /\ 1 \in 1..Len(q)
  BY <1>2, TailElements
<1> DEFINE r == Tail(q)
<1> HIDE DEF r
<1>4. /\ n1.trans = c.trans /\ n1.nbr = c.nbr /\ n1.sf = c.sf /\ n1 \in NodeState
      /\ n1.queue[Parent] = r
  BY <1>2, <1>3 DEF NodeState, r
<1>5. k.ptr \in Slot \cup {NoSlot}
  BY <1>3 DEF Packet
<1>6. DoneWith(c, Parent, ok) = IF k.ptr = NoSlot THEN n1 ELSE MacCallback(n1, k.ptr, ok)
  BY DEF DoneWith
<1> HIDE DEF n1, q, a, k
<1>7. /\ \A i \in 1..Len(q) : i > 1 => ~q[i].heard
      /\ \A i, j \in 1..Len(q) : ~q[i].heard /\ ~q[j].heard => i = j
      /\ ~k.heard => rp = <<>> /\ NoAnswer(W, a) /\ NoReturn(W, rc)
  BY <1>1, <1>3 DEF Requests, OneFrame, AllHeard, r
<1>8. \A i \in 1..Len(r) : i + 1 \in 1..Len(q) /\ r[i] = q[i + 1] /\ ~r[i].heard /\ i + 1 > 1
  BY <1>3, <1>7 DEF r
<1>9. Behind(r) /\ Within(r, q)
  <2>1. ASSUME NEW i \in 1..Len(r), NEW j \in 1..Len(r) PROVE i = j
    <3>1. i + 1 = j + 1
      BY <1>7, <1>8
    <3> QED
      BY <3>1
  <2> QED
    BY <1>8, <2>1 DEF Behind, Within, AllHeard
<1>10. ~k.heard => AllHeard(r)
  <2> SUFFICES ASSUME ~k.heard, NEW i \in 1..Len(r) PROVE FALSE
    BY DEF AllHeard
  <2>1. i + 1 = 1
    BY <1>3, <1>7, <1>8
  <2> QED
    BY <2>1
<1>11. NoCallbacks(n1) /\ Asking(n1) = W /\ Calms(c, n1)
  BY <1>1, <1>4 DEF NoCallbacks, Asking, Calms, Calm
<1>12. c.sf
  BY <1>1, <1>3 DEF Silent
<1>13. Agree(n1, p, rc, rp, x, y, nr)
  BY <1>4, <1>9, <1>11, <1>12, ChildCalms DEF q
<1>14. ASSUME k.ptr # NoSlot PROVE Agree(MacCallback(n1, k.ptr, ok), p, rc, rp, x, y, nr)
  <2>1. PICK m : m = MacCallback(n1, k.ptr, ok)
    OBVIOUS
  <2>2. /\ Calms(n1, m) /\ m.queue = n1.queue
        /\ ok => Asking(m) = Asking(n1)
    BY <1>4, <1>5, <1>11, <1>14, <2>1, ChildCallback
  <2>3. ~ok => NoFrame(W, r, rp, a, rc)
    BY <1>7, <1>10 DEF NoFrame, k, q
  <2>4. Within(m.queue[Parent], n1.queue[Parent]) /\ Behind(m.queue[Parent])
        /\ m.queue[Parent] = r
    <3>1. Within(r, r)
      BY <1>9 DEF Within
    <3> QED
      BY <1>4, <1>9, <2>2, <3>1
  <2>5. \/ Asking(m) = Asking(n1)
        \/ NoFrame(Asking(n1), m.queue[Parent], rp, p.queue[Child], rc)
    BY <1>11, <2>2, <2>3, <2>4 DEF a
  <2> QED
    BY <1>4, <1>12, <1>13, <2>1, <2>2, <2>4, <2>5, ChildCalms
<1>15. \A s \in Slot : CallbackRun(c, s, ok) = "NONE"
  BY <1>1 DEF CallbackRun, NoCallbacks
<1> QED
  BY <1>6, <1>13, <1>14, <1>15

(* A timer of the child: a transaction given up has no frame on its way. *)
NoneOf(req, q, rp, a, rc) ==
  /\ \A i \in 1..Len(q) : q[i].req # req
  /\ \A i \in 1..Len(rp) : rp[i].pkt.req # req
  /\ \A i \in 1..Len(a) : a[i].req # req
  /\ \A i \in 1..Len(rc) : rc[i].pkt.req # req

LEMMA ChildExpires ==
  ASSUME NEW c \in NodeState, NEW p, NEW rc, NEW rp \in Seq(Frame), NEW x, NEW y, NEW nr,
         Agree(c, p, rc, rp, x, y, nr), NEW s \in Slot, Listed(c.trans[s]),
         \A r \in Slot : Listed(c.trans[r]) => r = s
  PROVE  /\ Agree(ProcessTrans(c, s), p, rc, rp, x, y, nr)
         /\ NoneOf(c.trans[s].req, c.queue[Parent], rp, p.queue[Child], rc)
              => Agree(HandleTransTimeout(c, s), p, rc, rp, x, y, nr)
<1> DEFINE q == c.queue[Parent]
           a == p.queue[Child]
           t == c.trans[s]
           W == Asking(c)
<1>1. /\ OneFrame(W, q, rp, a, rc) /\ Requests(W, q, rp, x) /\ NoCallbacks(c)
      /\ Silent(c, q, rp, a, rc)
  BY DEF Agree, Numbers, NoCallbacks
<1>2. Within(q, q) /\ Behind(q) /\ (c.sf \/ q = <<>>)
  BY <1>1 DEF OneFrame, Requests, Silent, Within, Behind
<1>3. ASSUME NEW m, m = ProcessTrans(c, s) PROVE Agree(m, p, rc, rp, x, y, nr)
  <2>1. Calms(c, m) /\ m.queue = c.queue /\ Asking(m) = Asking(c)
    BY <1>1, <1>3, ChildTimer
  <2> QED
    BY <1>2, <2>1, ChildCalms
<1>4. ASSUME NEW m, m = HandleTransTimeout(c, s), NoneOf(t.req, q, rp, a, rc)
      PROVE  Agree(m, p, rc, rp, x, y, nr)
  <2>1. /\ Calms(c, m) /\ m.queue = c.queue
        /\ ~Requesting(t) => Asking(m) = Asking(c)
    BY <1>1, <1>4, ChildTimer
  <2>2. \A w \in W : w.req = t.req
    BY DEF Asking, Ask, Requesting, Listed
  <2> HIDE DEF W, q, a
  <2>3. \A k : Belongs(W, k) \/ Asked(W, x, k) => k.req = t.req
    BY <2>2 DEF Belongs, Asked, SameRequest
  <2>4. AllHeard(q) /\ NoAnswer(W, a) /\ NoReturn(W, rc)
    BY <1>1, <1>4, <2>3 DEF Requests, AllHeard, NoAnswer, NoReturn, NoneOf
  <2>5. rp = <<>>
    <3>1. \A i \in 1..Len(rp) : FALSE
      BY <1>1, <1>4, <2>3 DEF Requests, NoneOf
    <3> QED
      BY <3>1
  <2>6. NoFrame(W, q, rp, a, rc)
    BY <2>4, <2>5 DEF NoFrame
  <2> QED
    BY <1>2, <2>1, <2>6, ChildCalms DEF W, q, a
<1> QED
  BY <1>3, <1>4

(* The child empties its queue: the packets that go have not been heard. *)
LEMMA ChildFlushes ==
  ASSUME NEW c, NodeInv(c), NEW p, NEW rc, NEW rp, NEW x, NEW y, NEW nr,
         Agree(c, p, rc, rp, x, y, nr), NEW mode \in FlushMode,
         ~FlushesHeard(c.queue[Parent], mode)
  PROVE  Agree(Flush(c, Parent, mode), p, rc, rp, x, y, nr)
<1> DEFINE q == c.queue[Parent]
           a == p.queue[Child]
           W == Asking(c)
           keep == KeptHead(q, mode)
           ptrs == {q[i].ptr : i \in (IF keep THEN 2 ELSE 1)..Len(q)}
           rest == IF keep THEN <<Head(q)>> ELSE <<>>
           tr == [s \in Slot |-> IF s \in ptrs THEN FlushedTrans(c.trans[s]) ELSE c.trans[s]]
           m == Flush(c, Parent, mode)
<1>1. /\ OneFrame(W, q, rp, a, rc) /\ Requests(W, q, rp, x) /\ NoCallbacks(c)
      /\ Silent(c, q, rp, a, rc)
  BY DEF Agree, Numbers, NoCallbacks
<1>2. /\ q \in Seq(Packet) /\ Parent \in Node /\ c \in NodeState
      /\ c.trans \in [Slot -> Trans]
  BY CommandFacts DEF NodeInv, NodeState
<1>3. CASE mode = "none"
  BY <1>3 DEF Flush
<1>4. CASE mode # "none"
  <2>1. m = [c EXCEPT !.queue[Parent] = rest, !.trans = tr]
    BY <1>4 DEF Flush
  <2>2. /\ \A i \in 1..Len(q) : i > 1 => ~q[i].heard
        /\ \A i, j \in 1..Len(q) : ~q[i].heard /\ ~q[j].heard => i = j
        /\ ~AllHeard(q) => rp = <<>> /\ NoAnswer(W, a) /\ NoReturn(W, rc)
    BY <1>1 DEF Requests, OneFrame
  <2>3. q # <<>> => Head(q) = q[1] /\ 1 \in 1..Len(q)
    BY <1>2
  <2>4. \A i \in 1..Len(rest) : i = 1 /\ rest[i].heard
    BY <1>2 DEF KeptHead
  <2>5. AllHeard(q) => ptrs = {}
    <3> SUFFICES ASSUME AllHeard(q), NEW i \in (IF keep THEN 2 ELSE 1)..Len(q) PROVE FALSE
      OBVIOUS
    <3>1. i \in 1..Len(q) /\ q # <<>>
      BY <1>2
    <3>2. i = 1 /\ q[1].heard
      BY <2>2, <3>1 DEF AllHeard
    <3>3. keep
      BY <1>4, <2>3, <3>1, <3>2 DEF KeptHead, FlushesHeard, FlushMode
    <3> QED
      BY <3>2, <3>3
  <2> HIDE DEF keep, ptrs, rest
  <2>6. \A s \in Slot : Calm(c.trans[s], FlushedTrans(c.trans[s])) /\ Calm(c.trans[s], c.trans[s])
    <3> SUFFICES ASSUME NEW s \in Slot
                 PROVE  /\ Calm(c.trans[s], FlushedTrans(c.trans[s]))
                        /\ Calm(c.trans[s], c.trans[s])
      OBVIOUS
    <3> DEFINE t == c.trans[s]
               u == [t EXCEPT !.state = "TERMINATING", !.timer = "process", !.cb = "NONE"]
    <3>1. t \in Trans /\ t.cb = "NONE"
      BY <1>1, <1>2 DEF NoCallbacks
    <3>2. Calm(t, FreeTrans) /\ Calm(t, t) /\ [t EXCEPT !.cb = "NONE"] = t
      BY <3>1, CalmFree
    <3>3. t.state = "REQUEST_SENDING" => Calm(t, u)
      <4>1. /\ u.state = "TERMINATING" /\ u.cb = "NONE" /\ u.seqno = t.seqno
            /\ u.req = t.req /\ u.cmd = t.cmd
        BY <3>1 DEF Trans
      <4> HIDE DEF u
      <4> QED
        BY <4>1, CalmMove DEF Listed, Requesting
    <3> QED
      BY <3>2, <3>3 DEF FlushedTrans
  <2>7. /\ m.trans = tr /\ m.nbr = c.nbr /\ m.sf = c.sf /\ m.queue[Parent] = rest
    BY <1>2, <2>1 DEF NodeState
  <2> HIDE DEF m
  <2>8. Calms(c, m)
    BY <2>6, <2>7 DEF Calms
  <2>9. AllHeard(q) => Asking(m) = W
    <3>1. AllHeard(q) => \A s \in Slot : m.trans[s] = c.trans[s]
      BY <2>5, <2>7
    <3> QED
      BY <3>1, AskingSame
  <2>10. Within(rest, q) /\ Behind(rest) /\ AllHeard(rest)
    BY <2>4 DEF Within, Behind, AllHeard
  <2>11. c.sf \/ rest = <<>>
    BY <1>1 DEF Silent, rest, keep, KeptHead
  <2>12. ~AllHeard(q) => NoFrame(W, rest, rp, a, rc)
    BY <2>2, <2>10 DEF NoFrame
  <2>13. Agree(m, p, rc, rp, x, y, nr)
    BY <2>7, <2>8, <2>9, <2>10, <2>11, <2>12, ChildCalms
  <2> QED
    BY <2>13 DEF m
<1> QED
  BY <1>3, <1>4

(* The cell to be relocated matters only while a request is under way. *)
LEMMA IdleAgree ==
  ASSUME NEW c, NEW p, NEW rc, NEW rp, NEW x, NEW y, NEW nr,
         Agree(c, p, rc, rp, x, y, nr), Asking(c) = {}, NEW z, z.sched = x.sched
  PROVE  Agree(c, p, rc, rp, z, y, nr)
<1> DEFINE q == c.queue[Parent]
           a == p.queue[Child]
<1>1. /\ Requests({}, q, rp, x) /\ Responses(c, p, a, rc, x, y, nr)
      /\ SameCells(c, p, a, rc, x, y)
  BY DEF Agree
<1>2. \A k : Asked({}, x, k) <=> Asked({}, z, k)
  BY DEF Asked
<1>3. \A u, k : Promised({}, x, y, u, k) <=> Promised({}, z, y, u, k)
  BY DEF Promised
<1> HIDE DEF q, a
<1>4. Requests({}, q, rp, z)
  BY <1>1, <1>2 DEF Requests
<1>5. \A k : Answer(c, p, x, y, nr, k) => Answer(c, p, z, y, nr, k)
  BY <1>3 DEF Answer
<1>6. Responses(c, p, a, rc, z, y, nr)
  BY <1>1, <1>5 DEF Responses
<1>7. SameCells(c, p, a, rc, z, y)
  BY <1>1 DEF SameCells
<1> QED
  BY <1>4, <1>6, <1>7 DEF Agree, q, a

(* The child empties its queue, if it does, and hands a request to 6P. *)
LEMMA ChildSends ==
  ASSUME NEW c, NodeInv(c), \A s \in Slot : Listed(c.trans[s]) => c.trans[s].peer = Parent,
         NEW p \in NodeState, NEW rc \in Seq(Frame), NEW rp \in Seq(Frame),
         NEW x, NEW y, NEW nr \in Nat, Agree(c, p, rc, rp, x, y, nr),
         NEW mode \in FlushMode, ~FlushesHeard(c.queue[Parent], mode),
         NEW z, z.sched = x.sched, z = x \/ ~HasTrans(c, Parent),
         NEW cmd \in SfCmd, NEW body \in Body, cmd = "RELOCATE" => body.rel = z.reloc,
         NEW res, NEW m,
         m = OutputRequest(Flush(c, Parent, mode), Parent, cmd, body, "NONE", nr + 1, res)
  PROVE  Agree(m, p, rc, rp, z, y, nr + 1)
<1>1. PICK d : d = Flush(c, Parent, mode)
  OBVIOUS
<1>2. Parent \in Node /\ nr + 1 \in Nat /\ c \in NodeState
  BY CommandFacts DEF NodeInv
<1>3. NodeInv(d) /\ d \in NodeState
  BY <1>1, <1>2, FlushInv DEF NodeInv
<1>4. Agree(c, p, rc, rp, z, y, nr)
  <2>1. ~HasTrans(c, Parent) => Asking(c) = {}
    BY DEF HasTrans, TransWith, Asking, Requesting, Listed
  <2> QED
    BY <2>1, IdleAgree
<1>5. Agree(d, p, rc, rp, z, y, nr)
  BY <1>1, <1>4, ChildFlushes
<1>6. \A s \in Slot : Listed(d.trans[s]) => d.trans[s].peer = Parent
  <2>1. AllBecome(c, d, Parent, "NONE", "NONE")
    BY <1>1, <1>2, FlushBecomes
  <2> QED
    BY <2>1 DEF AllBecome, Becomes
<1>7. \A s \in Slot : d.trans[s].cb = "NONE"
  BY <1>5 DEF Agree, Numbers
<1>8. (Calms(d, m) /\ m.queue = d.queue) \/ Starts(d, m, cmd, body, nr + 1)
  BY <1>1, <1>2, <1>3, <1>7, RequestOutput
<1>9. ASSUME Calms(d, m), m.queue = d.queue PROVE Agree(m, p, rc, rp, z, y, nr + 1)
  <2>1. /\ Within(m.queue[Parent], d.queue[Parent]) /\ Behind(m.queue[Parent])
        /\ d.sf \/ m.queue[Parent] = <<>>
    BY <1>5, <1>9 DEF Agree, OneFrame, Requests, Silent, Within, Behind
  <2>2. Asking(m) = Asking(d)
    <3>1. CASE HasTrans(d, Parent)
      <4>1. m = d
        BY <1>1, <3>1 DEF OutputRequest
      <4> QED
        BY <4>1
    <3>2. CASE ~HasTrans(d, Parent)
      <4>1. Asking(d) = {}
        BY <1>6, <3>2 DEF HasTrans, TransWith, Asking, Requesting, Listed
      <4> QED
        BY <1>9, <4>1, CalmsFacts
    <3> QED
      BY <3>1, <3>2
  <2>3. Agree(m, p, rc, rp, z, y, nr)
    BY <1>5, <1>9, <2>1, <2>2, ChildCalms
  <2>4. m \in NodeState
    BY <1>1, <1>2, <1>3, CommandFacts, OutputRequestInv DEF SfCmd, NodeInv
  <2> QED
    BY <2>3, <2>4, LaterAgree
<1>10. ASSUME Starts(d, m, cmd, body, nr + 1) PROVE Agree(m, p, rc, rp, z, y, nr + 1)
  <2>1. \A s \in Slot : ~Listed(d.trans[s])
    BY <1>6, <1>10 DEF Starts, HasTrans, TransWith
  <2> QED
    BY <1>3, <1>5, <1>10, <2>1, ChildAsks
<1> QED
  BY <1>8, <1>9, <1>10

(* The oldest frame the child has got goes, and z follows from it. *)
LEMMA ChildTakes ==
  ASSUME NEW c, NEW p, NEW rc \in Seq(Frame), NEW rp, NEW x, NEW y, NEW nr,
         Agree(c, p, rc, rp, x, y, nr), rc # <<>>, NEW z, z.reloc = x.reloc,
         \/ z = x /\ rc[1].pkt.code # "SUCCESS"
         \/ /\ Belongs(Asking(c), rc[1].pkt) /\ rc[1].pkt.code = "SUCCESS"
            /\ \E w \in Asking(c) : z = ResponseInput(x, w.cmd, rc[1].pkt, Parent)
  PROVE  /\ Agree(c, p, Tail(rc), rp, z, y, nr)
         /\ Belongs(Asking(c), rc[1].pkt)
              => NoFrame(Asking(c), c.queue[Parent], rp, p.queue[Child], Tail(rc))
<1> DEFINE q == c.queue[Parent]
           a == p.queue[Child]
           W == Asking(c)
           r == Tail(rc)
<1>1. /\ OneFrame(W, q, rp, a, rc) /\ Requests(W, q, rp, x)
      /\ Responses(c, p, a, rc, x, y, nr) /\ Silent(c, q, rp, a, rc)
      /\ SameCells(c, p, a, rc, x, y)
  BY DEF Agree
<1>2. /\ Len(rc) \in Nat \ {0} /\ 1 \in 1..Len(rc)
      /\ \A i \in 1..Len(r) : i \in Nat /\ i + 1 \in 1..Len(rc) /\ r[i] = rc[i + 1]
  BY TailElements
<1> HIDE DEF q, a, W, r
<1>3. OneFrame(W, q, rp, a, r)
  <2>1. NoReturn(W, rc) => NoReturn(W, r)
    BY <1>2 DEF NoReturn
  <2>2. ASSUME NEW i \in 1..Len(r), NEW j \in 1..Len(r),
               Belongs(W, r[i].pkt), Belongs(W, r[j].pkt)
        PROVE  i = j
    <3>1. i + 1 = j + 1
      BY <1>1, <1>2, <2>2 DEF OneFrame
    <3> QED
      BY <1>2, <3>1
  <2> QED
    BY <1>1, <2>1, <2>2 DEF OneFrame
<1>4. Requests(W, q, rp, z)
  BY <1>1 DEF Requests, Asked
<1>5. Belongs(W, rc[1].pkt) => NoFrame(W, q, rp, a, r)
  <2> SUFFICES ASSUME Belongs(W, rc[1].pkt) PROVE NoFrame(W, q, rp, a, r)
    OBVIOUS
  <2>1. ~NoReturn(W, rc)
    BY <1>2 DEF NoReturn
  <2>2. ASSUME NEW i \in 1..Len(r), Belongs(W, r[i].pkt) PROVE FALSE
    <3>1. i + 1 = 1
      BY <1>1, <1>2, <2>2 DEF OneFrame
    <3> QED
      BY <1>2, <3>1
  <2> QED
    BY <1>1, <2>1, <2>2 DEF OneFrame, NoFrame, NoReturn
<1>6. Responses(c, p, a, r, z, y, nr)
  <2>1. \A k : Answer(c, p, x, y, nr, k) => Answer(c, p, z, y, nr, k)
    BY DEF Answer, Promised
  <2> QED
    BY <1>1, <1>2, <2>1 DEF Responses
<1>7. Silent(c, q, rp, a, r)
  <2>1. rc # <<>>
    OBVIOUS
  <2> QED
    BY <1>1, <2>1 DEF Silent
<1>8. \A i \in 1..Len(r) : r[i].pkt.code = "SUCCESS" => Belongs(W, r[i].pkt)
  BY <1>6 DEF Responses, Return, SameRequest, Belongs, W
<1>9. SameCells(c, p, a, r, z, y)
  <2>1. CASE z = x /\ rc[1].pkt.code # "SUCCESS"
    <3>1. ASSUME \A i \in 1..Len(r) : r[i].pkt.code # "SUCCESS"
          PROVE  \A i \in 1..Len(rc) : rc[i].pkt.code # "SUCCESS"
      <4> TAKE i \in 1..Len(rc)
      <4>1. CASE i = 1
        BY <2>1, <4>1
      <4>2. CASE i # 1
        <5>1. i - 1 \in 1..Len(r) /\ rc[i] = r[i - 1]
          BY <4>2 DEF r
        <5> QED
          BY <3>1, <5>1
      <4> QED
        BY <4>1, <4>2
    <3> QED
      BY <1>1, <1>2, <2>1, <3>1 DEF SameCells
  <2>2. CASE Belongs(W, rc[1].pkt) /\ rc[1].pkt.code = "SUCCESS"
    <3>1. \A i \in 1..Len(r) : r[i].pkt.code # "SUCCESS"
      BY <1>5, <1>8, <2>2 DEF NoFrame, NoReturn
    <3>2. Mirror(z.sched) = Granted(p, a, y)
      BY <1>1, <1>2, <2>2 DEF SameCells, W
    <3> QED
      BY <3>1, <3>2 DEF SameCells
  <2> QED
    BY <2>1, <2>2 DEF W
<1>10. Numbers(c, p, nr)
  BY DEF Agree
<1> QED
  BY <1>3, <1>4, <1>5, <1>6, <1>7, <1>9, <1>10 DEF Agree, q, a, W, r

(* What the child's sixp_input() makes of a response, with response_input(). *)
LEMMA ChildReceives ==
  ASSUME NEW c, NodeInv(c), \A s \in Slot : Listed(c.trans[s]) => c.trans[s].peer = Parent,
         NEW p, NEW rc \in Seq(Frame), NEW rp, NEW x, NEW y, NEW nr,
         Agree(c, p, rc, rp, x, y, nr), rc # <<>>, NEW m, NEW z,
         IF Accepts(c, Parent, rc[1].pkt)
           THEN /\ m = Transit(c, Find(c, Parent), "RESPONSE_RECEIVED")
                /\ z = ResponseInput(x, c.trans[Find(c, Parent)].cmd, rc[1].pkt, Parent)
           ELSE m = c /\ z = x,
         x \in SfState
  PROVE  Agree(m, p, Tail(rc), rp, z, y, nr)
<1> DEFINE k == rc[1].pkt
           s == Find(c, Parent)
           t == c.trans[s]
           W == Asking(c)
           q == c.queue[Parent]
           a == p.queue[Child]
<1>1. /\ Requests(W, q, rp, x) /\ NoCallbacks(c) /\ Return(c, nr, k)
      /\ Silent(c, q, rp, a, rc) /\ OneFrame(W, q, rp, a, rc)
  BY DEF Agree, Numbers, NoCallbacks, Responses
<1>2. c \in NodeState /\ k.type = "RESPONSE"
  BY <1>1 DEF NodeInv, Return
<1>3. CASE ~Accepts(c, Parent, k)
  <2>1. ASSUME k.code = "SUCCESS" PROVE FALSE
    <3>1. PICK r \in Slot : Requesting(c.trans[r]) /\ c.trans[r].seqno = k.seqno
      BY <1>1, <2>1 DEF Return, SameRequest, Asking, Ask
    <3>2. Listed(c.trans[r]) /\ HasTrans(c, Parent)
      BY <3>1 DEF HasTrans, TransWith, Listed, Requesting
    <3>3. r = s
      BY <3>2, FindTrans DEF NodeInv, OneTransPerPeerAt
    <3> QED
      BY <1>2, <1>3, <3>1, <3>2, <3>3 DEF Accepts, Allowed, StateOnReply, Requesting
  <2> QED
    BY <1>3, <2>1, ChildTakes
<1>4. CASE Accepts(c, Parent, k)
  <2>1. /\ s \in Slot /\ Listed(t) /\ t.peer = Parent /\ t.seqno = k.seqno
        /\ Allowed(t, "RESPONSE_RECEIVED")
    BY <1>2, <1>4, FindTrans DEF Accepts, StateOnReply
  <2>2. Requesting(t) /\ \A r \in Slot : Listed(c.trans[r]) => r = s
    BY <2>1 DEF Allowed, Requesting, NodeInv, OneTransPerPeerAt
  <2>3. Ask(t) \in W /\ \A w \in W : w = Ask(t)
    BY <2>1, <2>2 DEF Asking, Listed, Requesting
  <2>4. Belongs(W, k)
    BY <1>1, <2>1 DEF Return, Stale, Past
  <2>5. z = ResponseInput(x, t.cmd, k, Parent) /\ m = Transit(c, s, "RESPONSE_RECEIVED")
    BY <1>4
  <2>6. z.reloc = x.reloc /\ (k.code # "SUCCESS" => z = x)
    BY <2>5 DEF ResponseInput, SfState
  <2>7. Ask(t).cmd = t.cmd
    BY DEF Ask
  <2> HIDE DEF k, t, W, s
  <2>8. /\ Agree(c, p, Tail(rc), rp, z, y, nr)
        /\ NoFrame(W, q, rp, a, Tail(rc))
    <3>1. \/ z = x /\ k.code # "SUCCESS"
          \/ /\ Belongs(W, k) /\ k.code = "SUCCESS"
             /\ \E w \in W : z = ResponseInput(x, w.cmd, k, Parent)
      BY <2>3, <2>4, <2>5, <2>6, <2>7
    <3> QED
      BY <2>4, <2>6, <3>1, ChildTakes DEF k, W
  <2>9. "RESPONSE_RECEIVED" \in TransState \ {"REQUEST_SENDING"}
    BY DEF TransState
  <2>10. Calms(c, m) /\ m.queue = c.queue
    BY <1>1, <1>2, <2>1, <2>5, <2>9, ChildMoves DEF t
  <2>11. /\ Within(m.queue[Parent], q) /\ Behind(m.queue[Parent])
         /\ c.sf \/ m.queue[Parent] = <<>>
    BY <1>1, <2>10 DEF OneFrame, Requests, Silent, Within, Behind
  <2> QED
    BY <2>8, <2>10, <2>11, ChildCalms DEF W
<1> QED
  BY <1>3, <1>4

(* What the parent makes of the request k that it has got.  Its responses  *)
(* on their way keep their transactions, and the transactions it has       *)
(* afterwards are those it had and one for k.                              *)
Owned(a) == \E i \in 1..Len(a) : a[i].ptr # NoSlot

KeepsOwn(p, m, a, y, z) ==
  \A i \in 1..Len(a) : a[i].ptr # NoSlot =>
    LET t == p.trans[a[i].ptr]
        u == m.trans[a[i].ptr]
    IN  /\ u.state = t.state /\ u.req = t.req /\ u.cb = t.cb
        /\ m.nbr[Child] # NoNbr
        /\ z = y

Follows(t, u, k) ==
  Listed(u) =>
    \/ Listed(t) /\ u.req = t.req /\ u.seqno = t.seqno /\ u.cmd = t.cmd
    \/ u.req = k.req /\ u.seqno = k.seqno /\ u.cmd # "CLEAR"

Answers(c, p, m, x, y, z, nr, k) ==
  LET a == p.queue[Child]
  IN  /\ z.sched = y.sched
      /\ KeepsOwn(p, m, a, y, z)
      /\ \A s \in Slot : Follows(p.trans[s], m.trans[s], k)
      /\ \/ m.queue[Child] = a
         \/ \E e \in Packet :
              /\ m.queue[Child] = Append(a, e)
              /\ ~e.heard /\ (e.ptr # NoSlot => ~Owned(a))
              /\ Answer(c, m, x, z, nr, e)

LEMMA AskedPast ==
  ASSUME NEW c, NodeInv(c), \A s \in Slot : Listed(c.trans[s]) => c.trans[s].peer = Parent,
         NEW p, NEW nr, Numbers(c, p, nr), NEW x, NEW k, Asked(Asking(c), x, k)
  PROVE  Past(c) <=> k.seqno # 0
<1>1. PICK s \in Slot : Requesting(c.trans[s]) /\ c.trans[s].seqno = k.seqno
  BY DEF Asked, Asking, Ask, SameRequest
<1>2. Listed(c.trans[s]) /\ \A r \in Slot : Listed(c.trans[r]) => r = s
  BY <1>1 DEF Requesting, Listed, NodeInv, OneTransPerPeerAt
<1> QED
  BY <1>1, <1>2 DEF Past, Numbers

LEMMA ParentTakes ==
  ASSUME NEW c, NodeInv(c), \A s \in Slot : Listed(c.trans[s]) => c.trans[s].peer = Parent,
         NEW p \in NodeState, NEW rc, NEW rp \in Seq(Frame), NEW x, NEW y, NEW nr,
         Agree(c, p, rc, rp, x, y, nr), rp # <<>>, NEW m, NEW z,
         Answers(c, p, m, x, y, z, nr, rp[1].pkt)
  PROVE  Agree(c, m, rc, Tail(rp), x, z, nr)
<1> DEFINE k == rp[1].pkt
           W == Asking(c)
           q == c.queue[Parent]
           a == p.queue[Child]
           b == m.queue[Child]
<1>1. /\ OneFrame(W, q, rp, a, rc) /\ Requests(W, q, rp, x)
      /\ Responses(c, p, a, rc, x, y, nr) /\ Numbers(c, p, nr)
      /\ Silent(c, q, rp, a, rc) /\ SameCells(c, p, a, rc, x, y)
  BY DEF Agree
<1>2. /\ z.sched = y.sched /\ KeepsOwn(p, m, a, y, z)
      /\ \A s \in Slot : Follows(p.trans[s], m.trans[s], k)
  BY DEF Answers
<1>3. a \in Seq(Packet)
  BY CommandFacts DEF NodeState
<1>4. Tail(rp) = <<>>
  <2>1. Len(Tail(rp)) = Len(rp) - 1 /\ Len(rp) \in Nat \ {0} /\ Tail(rp) \in Seq(Frame)
    BY TailElements
  <2>2. 1 \in 1..Len(rp) /\ Len(rp) \in 1..Len(rp)
    BY <2>1
  <2>3. Len(rp) = 1
    BY <1>1, <2>2 DEF OneFrame
  <2>4. \A t \in Seq(Frame) : Len(t) = 0 => t = <<>>
    OBVIOUS
  <2>5. Len(Tail(rp)) = 0
    BY <2>1, <2>3
  <2>6. PICK t : t = Tail(rp)
    OBVIOUS
  <2> QED
    BY <2>1, <2>4, <2>5, <2>6
<1>5. Asked(W, x, k)
  BY <1>1 DEF Requests
<1>6. /\ \A i \in 1..Len(b) :
           \/ /\ i \in 1..Len(a) /\ b[i] = a[i]
           \/ i = Len(a) + 1 /\ Answer(c, m, x, z, nr, b[i]) /\ ~b[i].heard
              /\ (b[i].ptr # NoSlot => ~Owned(a))
      /\ b = <<>> => a = <<>>
      /\ a # <<>> => b # <<>> /\ b[1] = a[1]
      /\ a = <<>> => b = <<>> \/ ~b[1].heard
  <2>1. CASE b = a
    BY <1>3, <2>1
  <2>2. CASE b # a
    <3>1. PICK e \in Packet :
            /\ b = Append(a, e)
            /\ ~e.heard /\ (e.ptr # NoSlot => ~Owned(a))
            /\ Answer(c, m, x, z, nr, e)
      BY <2>2 DEF Answers
    <3>2. /\ Len(b) = Len(a) + 1 /\ Len(a) \in Nat
          /\ \A i \in 1..Len(b) : IF i = Len(a) + 1 THEN b[i] = e
                                  ELSE i \in 1..Len(a) /\ b[i] = a[i]
      BY <1>3, <3>1, AppendElements
    <3>3. a # <<>> => Len(a) # 0
      BY <1>3
    <3>4. b # <<>> /\ 1 \in 1..Len(b)
      BY <1>3, <3>1, <3>2
    <3>5. a = <<>> => Len(a) = 0
      OBVIOUS
    <3> HIDE DEF a, b
    <3> QED
      BY <3>1, <3>2, <3>3, <3>4, <3>5
  <2> QED
    BY <2>1, <2>2
<1> HIDE DEF k, W, q, a, b
<1>7. AllHeard(q) /\ NoAnswer(W, a) /\ NoReturn(W, rc)
  BY <1>1 DEF OneFrame
<1>8. \A i \in 1..Len(b) :
        ~b[i].heard /\ Belongs(W, b[i]) => i = Len(a) + 1
  BY <1>6, <1>7 DEF NoAnswer
<1>9. OneFrame(W, q, Tail(rp), b, rc)
  <2>1. \A i, j \in 1..Len(b) :
          ~b[i].heard /\ Belongs(W, b[i]) /\ ~b[j].heard /\ Belongs(W, b[j]) => i = j
    BY <1>8
  <2>2. \A i, j \in 1..Len(Tail(rp)) : i = j
    BY <1>4
  <2> QED
    BY <1>1, <1>4, <1>7, <2>1, <2>2 DEF OneFrame
<1>10. Requests(W, q, Tail(rp), x)
  BY <1>1, <1>4 DEF Requests
<1>11. ASSUME NEW i \in 1..Len(b) PROVE Answer(c, m, x, z, nr, b[i]) /\ (i > 1 => ~b[i].heard)
  <2>1. CASE i = Len(a) + 1 /\ Answer(c, m, x, z, nr, b[i]) /\ ~b[i].heard
    BY <2>1
  <2>2. CASE i \in 1..Len(a) /\ b[i] = a[i]
    <3>1. Answer(c, p, x, y, nr, a[i]) /\ (i > 1 => ~a[i].heard)
      BY <1>1, <2>2 DEF Responses
    <3>2. ~a[i].heard => ~Belongs(W, a[i])
      BY <1>7, <2>2 DEF NoAnswer
    <3>3. Promised(W, x, y, p.trans[a[i].ptr], a[i]) => Belongs(W, a[i])
      BY DEF Promised, SameRequest, Belongs
    <3>4. ~a[i].heard => a[i].code # "SUCCESS"
      BY <3>1, <3>2, <3>3 DEF Answer, W
    <3>5. a[i].ptr # NoSlot => Holds(m, a[i])
      BY <1>2, <2>2, <3>1 DEF Answer, Holds, KeepsOwn
    <3> QED
      BY <2>2, <3>1, <3>4, <3>5 DEF Answer
  <2> QED
    BY <1>6, <2>1, <2>2
<1>12. \A i, j \in 1..Len(b) : b[i].ptr # NoSlot /\ b[j].ptr # NoSlot => i = j
  BY <1>1, <1>6 DEF Responses, Owned
<1>13. Responses(c, m, b, rc, x, z, nr)
  BY <1>1, <1>11, <1>12 DEF Responses
<1>14. Numbers(c, m, nr)
  <2>1. k.req <= nr /\ (k.seqno # 0 => Past(c))
    BY <1>1, <1>5, AskedPast DEF Asked, Numbers, SameRequest, W
  <2>2. ASSUME NEW s \in Slot, Listed(m.trans[s])
        PROVE  /\ m.trans[s].req <= nr /\ m.trans[s].cmd # "CLEAR"
               /\ m.trans[s].seqno # 0 => Past(c)
    BY <1>1, <1>2, <2>1, <2>2 DEF Follows, Numbers
  <2> QED
    BY <1>1, <2>2 DEF Numbers
<1>15. Silent(c, q, Tail(rp), b, rc)
  BY <1>1 DEF Silent
<1>16. Granted(m, b, z) = Granted(p, a, y)
  <2>1. CASE a = <<>>
    BY <1>2, <1>6, <2>1 DEF Granted
  <2>2. CASE a # <<>>
    <3>1. 1 \in 1..Len(a)
      BY <1>3, <2>2
    <3>2. b # <<>> /\ b[1] = a[1]
      BY <1>6, <2>2
    <3>3. a[1].ptr # NoSlot => m.trans[a[1].ptr].cb = p.trans[a[1].ptr].cb /\ z = y
      BY <1>2, <3>1 DEF KeepsOwn
    <3> QED
      BY <1>2, <2>2, <3>2, <3>3 DEF Granted
  <2> QED
    BY <2>1, <2>2
<1>17. SameCells(c, m, b, rc, x, z)
  BY <1>1, <1>16 DEF SameCells
<1> QED
  BY <1>9, <1>10, <1>13, <1>14, <1>15, <1>17 DEF Agree, W, q, b

(* What sixp_output() for a response does to the transaction s. *)
Replies(ns, m, p, s, e) ==
  /\ \A r \in Slot \ {s} : m.trans[r] = ns.trans[r]
  /\ m.trans[s].req = ns.trans[s].req /\ m.trans[s].seqno = ns.trans[s].seqno
  /\ m.trans[s].cmd = ns.trans[s].cmd
  /\ \/ m.queue[p] = ns.queue[p]
     \/ /\ m.queue[p] = Append(ns.queue[p], e)
        /\ m.trans[s].state = "RESPONSE_SENDING" /\ m.nbr[p] # NoNbr

LEMMA ReplyOutput ==
  ASSUME NEW ns \in NodeState, NEW p \in Node, HasTrans(ns, p),
         NEW s, s = Find(ns, p), ns.trans[s].state = "REQUEST_RECEIVED",
         ns.trans[s].cmd # "CLEAR", NEW rc \in ReturnCode, NEW body \in Body,
         NEW cb \in Cmd \cup {"NONE"}, NEW res,
         NEW m, m = OutputReply(ns, p, "RESPONSE", rc, body, cb, res)
  PROVE  \E e \in Packet :
           /\ e.type = "RESPONSE" /\ e.code = rc /\ e.body = body /\ e.ptr = s
           /\ e.seqno = ns.trans[s].seqno /\ e.req = ns.trans[s].req /\ ~e.heard
           /\ Replies(ns, m, p, s, e)
           /\ m.queue[p] # ns.queue[p] => m.trans[s].cb = cb
<1> DEFINE t == ns.trans[s]
           n1 == WithNbr(ns, p)
           u == [n1.trans[s] EXCEPT !.cb = cb]
           n2 == [n1 EXCEPT !.trans[s] = u]
           e == MkPacket("RESPONSE", rc, t.seqno, body, s, t.req)
           n3 == SixtopOutput(n2, p, e, res)
           n4 == Transit(n3, s, "RESPONSE_SENDING")
<1>1. s \in Slot
  BY FindTrans
<1>2. t \in Trans
  BY <1>1 DEF NodeState
<1>3. /\ e \in Packet /\ e.type = "RESPONSE" /\ e.code = rc /\ e.body = body /\ e.ptr = s
      /\ e.seqno = t.seqno /\ e.req = t.req /\ ~e.heard
  BY <1>1, <1>2 DEF MkPacket, Packet, PktType, Trans
<1>4. /\ n1 \in NodeState /\ n1.trans = ns.trans /\ n1.queue = ns.queue
      /\ n1.nbr[p] # NoNbr
  <2>1. CASE ns.nbr[p] = NoNbr
    <3>1. n1 = [ns EXCEPT !.nbr[p] = 0]
      BY <2>1 DEF WithNbr
    <3> HIDE DEF n1
    <3>2. 0 \in 0..MaxSeqno
      BY SeqnoAssumption
    <3>3. /\ n1.trans = ns.trans /\ n1.queue = ns.queue
          /\ n1.nbr = [ns.nbr EXCEPT ![p] = 0]
      BY <3>1 DEF NodeState
    <3>4. n1 \in NodeState
      BY <3>1, <3>2 DEF NodeState
    <3>5. n1.nbr[p] = 0
      BY <3>3 DEF NodeState
    <3> QED
      BY <3>3, <3>4, <3>5 DEF NoNbr
  <2>2. CASE ns.nbr[p] # NoNbr
    BY <2>2 DEF WithNbr
  <2> QED
    BY <2>1, <2>2
<1>5. m = IF res \in Failure THEN n3 ELSE n4
  BY DEF OutputReply
<1> HIDE DEF e, n1
<1>6. /\ u \in Trans /\ u.state = "REQUEST_RECEIVED" /\ u.req = t.req
      /\ u.seqno = t.seqno /\ u.cmd = t.cmd /\ u.cb = cb
  <2>1. n1.trans[s] = t
    BY <1>4
  <2> QED
    BY <1>2, <2>1 DEF Trans
<1> HIDE DEF u, t
<1>7. /\ n2 \in NodeState /\ n2.trans = [ns.trans EXCEPT ![s] = u] /\ n2.nbr = n1.nbr
      /\ n2.queue = ns.queue
  BY <1>1, <1>4, <1>6 DEF NodeState
<1> HIDE DEF n2
<1>8. n2.trans[s] = u /\ \A r \in Slot \ {s} : n2.trans[r] = ns.trans[r]
  BY <1>1, <1>7 DEF NodeState
<1>9. Outputs(n2, n3, p, e)
  <2>1. n2.trans[e.ptr].state \in {"INIT", "REQUEST_RECEIVED", "RESPONSE_RECEIVED"}
    BY <1>3, <1>6, <1>8
  <2> QED
    BY <1>3, <1>7, <2>1, SixtopOutputEffect
<1>10. res \in Failure => n3.queue = ns.queue
  <2> SUFFICES ASSUME res \in Failure PROVE n3.queue = ns.queue
    OBVIOUS
  <2>1. n3 = n2 \/ n3 = MacCallback(n2, s, FALSE)
    BY <1>3 DEF SixtopOutput, Failure
  <2>2. MacCallback(n2, s, FALSE) = ClearCallback(n2, s)
    BY <1>6, <1>8 DEF MacCallback, StateAfterMac
  <2>3. ClearCallback(n2, s).queue = n2.queue
    BY <1>7 DEF ClearCallback, NodeState
  <2> QED
    BY <1>7, <2>1, <2>2, <2>3
<1> HIDE DEF n3
<1>11. /\ n3 \in NodeState
       /\ n3.trans[s] = u \/ n3.trans[s] = [u EXCEPT !.cb = "NONE"]
       /\ n3.nbr[p] # NoNbr
       /\ \A r \in Slot \ {s} : n3.trans[r] = ns.trans[r]
       /\ \/ n3.queue = ns.queue
          \/ n3.queue[p] = Append(ns.queue[p], e) /\ n3.trans[s] = u
  <2>1. n3.nbr[p] # NoNbr /\ n3 \in NodeState
    BY <1>4, <1>7, <1>9 DEF Outputs
  <2>2. \A r \in Slot \ {s} : n3.trans[r] = ns.trans[r]
    BY <1>3, <1>8, <1>9 DEF Outputs
  <2>3. n3.trans[s] = u \/ n3.trans[s] = [u EXCEPT !.cb = "NONE"]
    BY <1>1, <1>8, <1>9 DEF Outputs
  <2>4. \/ n3.queue = ns.queue
        \/ n3.queue[p] = Append(ns.queue[p], e) /\ n3.trans[s] = u
    <3>1. ns.queue \in [Node -> Seq(Packet)]
      BY DEF NodeState
    <3> QED
      BY ZenonT(60), <1>1, <1>7, <1>8, <1>9, <3>1 DEF Outputs
  <2> QED
    BY <2>1, <2>2, <2>3, <2>4
<1>12. /\ n3.trans[s].state = "REQUEST_RECEIVED" /\ n3.trans[s].req = t.req
       /\ n3.trans[s].seqno = t.seqno /\ n3.trans[s].cmd = t.cmd
  BY <1>6, <1>11 DEF Trans
<1>13. CASE res \in Failure
  <2>1. Replies(ns, n3, p, s, e)
    BY <1>10, <1>11, <1>12, <1>13 DEF Replies, t
  <2> QED
    BY <1>3, <1>5, <1>10, <1>13, <2>1 DEF t
<1>14. CASE res \notin Failure
  <2>1. Allowed(n3.trans[s], "RESPONSE_SENDING") /\ "RESPONSE_SENDING" \in TransState
    BY <1>12 DEF Allowed, TransState
  <2>2. Moves(n3, n4, s, "RESPONSE_SENDING")
    BY <1>1, <1>11, <2>1, TransitEffect
  <2> HIDE DEF n4
  <2>3. n3.trans[s] \in Trans
    BY <1>1, <1>11 DEF NodeState
  <2>4. /\ n4.trans[s].state = "RESPONSE_SENDING" /\ n4.trans[s].req = t.req
        /\ n4.trans[s].seqno = t.seqno /\ n4.trans[s].cmd = t.cmd
        /\ n4.trans[s].cb = n3.trans[s].cb
        /\ \A r \in Slot \ {s} : n4.trans[r] = ns.trans[r]
        /\ n4.queue = n3.queue /\ n4.nbr = n3.nbr
    BY <1>11, <1>12, <2>2, <2>3 DEF Moves, Trans
  <2>5. Replies(ns, n4, p, s, e)
    BY <1>11, <2>4 DEF Replies, t
  <2>6. n4.queue[p] # ns.queue[p] => n4.trans[s].cb = cb
    BY <1>6, <1>11, <2>4
  <2> QED
    BY <1>3, <1>5, <1>14, <2>5, <2>6 DEF t
<1> QED
  BY <1>13, <1>14

(* The transaction that the parent starts for the request k. *)
LEMMA ParentAllocs ==
  ASSUME NEW p, NodeInv(p), CanAlloc(p, Child), NEW k \in Packet, k.code \in Cmd,
         NEW m, m = Transit(Alloc(p, Child, k), AllocSlot(p), "REQUEST_RECEIVED")
  PROVE  \E s \in Slot :
           /\ m \in NodeState /\ m.nbr = p.nbr /\ m.queue = p.queue
           /\ \A r \in Slot \ {s} : m.trans[r] = p.trans[r]
           /\ m.trans[s].state = "REQUEST_RECEIVED" /\ m.trans[s].req = k.req
           /\ m.trans[s].seqno = k.seqno /\ m.trans[s].cmd = k.code
           /\ m.trans[s].cb = "NONE"
           /\ HasTrans(m, Child) /\ Find(m, Child) = s
<1> DEFINE s == AllocSlot(p)
           t == [state |-> "INIT", peer |-> Child, seqno |-> k.seqno, cmd |-> k.code,
                 mode |-> DetermineMode(k.code, k.body), cb |-> "NONE",
                 timer |-> "timeout", req |-> k.req]
           na == Alloc(p, Child, k)
<1>1. s \in Slot /\ p \in NodeState /\ ~HasTrans(p, Child) /\ Child \in Node
  BY CommandFacts DEF AllocSlot, CanAlloc, FreeSlots, NodeInv
<1>2. na = [p EXCEPT !.trans[s] = t]
  BY DEF Alloc
<1>3. /\ t \in Trans /\ t.state = "INIT" /\ t.peer = Child /\ t.seqno = k.seqno
      /\ t.cmd = k.code /\ t.cb = "NONE" /\ t.req = k.req
  BY <1>1 DEF Trans, Packet, TransState, DetermineMode
<1> HIDE DEF t, s, na
<1>4. /\ na \in NodeState /\ na.trans = [p.trans EXCEPT ![s] = t]
      /\ na.nbr = p.nbr /\ na.queue = p.queue
  BY <1>1, <1>2, <1>3 DEF NodeState
<1>5. na.trans[s] = t /\ \A r \in Slot \ {s} : na.trans[r] = p.trans[r]
  BY <1>1, <1>4 DEF NodeState
<1>6. Allowed(na.trans[s], "REQUEST_RECEIVED") /\ "REQUEST_RECEIVED" \in TransState
  BY <1>3, <1>5 DEF Allowed, TransState
<1>7. m = Transit(na, s, "REQUEST_RECEIVED")
  BY DEF na, s
<1>8. Moves(na, m, s, "REQUEST_RECEIVED")
  BY <1>1, <1>4, <1>6, <1>7, TransitEffect
<1>9. /\ m.nbr = p.nbr /\ m.queue = p.queue
      /\ \A r \in Slot \ {s} : m.trans[r] = p.trans[r]
  BY <1>4, <1>5, <1>8 DEF Moves
<1>10. /\ m.trans[s].state = "REQUEST_RECEIVED" /\ m.trans[s].req = k.req
       /\ m.trans[s].seqno = k.seqno /\ m.trans[s].cmd = k.code
       /\ m.trans[s].cb = "NONE" /\ m.trans[s].peer = Child
  BY <1>3, <1>5, <1>8 DEF Moves, Trans
<1>11. TransWith(m, Child) = {s}
  BY <1>1, <1>9, <1>10 DEF HasTrans, TransWith, Listed
<1>12. HasTrans(m, Child) /\ Find(m, Child) = s
  BY <1>11, FindTrans DEF HasTrans, Find
<1>13. m \in NodeState
  <2>1. m.trans[s] = [t EXCEPT !.state = "REQUEST_RECEIVED", !.timer = "process"]
    BY <1>5, <1>8 DEF Moves
  <2>2. NbrAfter(na, na.trans[s], "REQUEST_RECEIVED") = na.nbr
    BY DEF NbrAfter
  <2>3. m = [na EXCEPT !.nbr = na.nbr, !.trans[s] = m.trans[s]]
    BY <1>5, <1>6, <1>7, <2>1, <2>2 DEF Transit
  <2>4. m.trans[s] \in Trans
    BY <1>3, <1>6, <2>1 DEF Trans
  <2> QED
    BY ZenonT(60), <1>1, <1>4, <2>3, <2>4 DEF NodeState
<1> QED
  BY <1>1, <1>9, <1>10, <1>12, <1>13

(* request_input() answers with what it stores, or with no cell. *)
LEMMA RequestInputAnswer ==
  ASSUME NEW y \in SfState, NEW k \in Packet, k.code \in SfCmd,
         NEW o \in RequestInput(y, k), o.answer
  PROVE  \/ /\ o.cb = k.code /\ o.body.cells = {o.state.res}
            /\ k.code = "RELOCATE" => o.state.reloc = k.body.rel
         \/ k.code = "DELETE" /\ o.cb = "NONE" /\ o.body.cells = {}
<1>1. \A s : ~NoReply(s).answer
  BY DEF NoReply
<1>3. CASE k.code = "ADD"
  <2>1. o \in AddReqInput(y, k.body)
    BY <1>3 DEF RequestInput
  <2>2. PICK c : o = Reply({c}, "ADD", [y EXCEPT !.res = c])
    BY <1>1, <2>1 DEF AddReqInput
  <2>3. PICK s : s = [y EXCEPT !.res = c]
    OBVIOUS
  <2>4. s.res = c
    BY <2>3 DEF SfState
  <2>5. o.cb = "ADD" /\ o.body.cells = {c} /\ o.state = s
    BY <2>2, <2>3 DEF Reply, MkBody
  <2> QED
    BY <1>3, <2>4, <2>5
<1>4. CASE k.code = "DELETE"
  <2>1. o \in DeleteReqInput(y, k.body)
    BY <1>4 DEF RequestInput
  <2>2. \/ o = Reply({}, "NONE", [y EXCEPT !.res = MinimalCell])
        \/ \E c : o = Reply({c}, "DELETE", [y EXCEPT !.res = c])
    BY <2>1 DEF DeleteReqInput
  <2>3. CASE o = Reply({}, "NONE", [y EXCEPT !.res = MinimalCell])
    BY <1>4, <2>3 DEF Reply, MkBody
  <2>4. ASSUME NEW c, o = Reply({c}, "DELETE", [y EXCEPT !.res = c])
        PROVE  o.cb = "DELETE" /\ o.body.cells = {o.state.res}
    <3>1. PICK s : s = [y EXCEPT !.res = c]
      OBVIOUS
    <3>2. s.res = c
      BY <3>1 DEF SfState
    <3>3. o.cb = "DELETE" /\ o.body.cells = {c} /\ o.state = s
      BY <2>4, <3>1 DEF Reply, MkBody
    <3> QED
      BY <3>2, <3>3
  <2> QED
    BY <1>4, <2>2, <2>3, <2>4
<1>5. CASE k.code = "RELOCATE"
  <2>1. o \in RelocateReqInput(y, k.body)
    BY <1>5 DEF RequestInput
  <2>2. PICK c : o = Reply({c}, "RELOCATE", [y EXCEPT !.res = c, !.reloc = k.body.rel])
    BY <1>1, <2>1 DEF RelocateReqInput
  <2>3. PICK s : s = [y EXCEPT !.res = c, !.reloc = k.body.rel]
    OBVIOUS
  <2>4. s.res = c /\ s.reloc = k.body.rel
    BY <2>3 DEF SfState
  <2>5. o.cb = "RELOCATE" /\ o.body.cells = {c} /\ o.state = s
    BY <2>2, <2>3 DEF Reply, MkBody
  <2> QED
    BY <1>5, <2>4, <2>5
<1> QED
  BY <1>3, <1>4, <1>5 DEF SfCmd

(* The parent answers with an error, without a transaction. *)
LEMMA ErrorAnswers ==
  ASSUME NEW c, NEW p \in NodeState, NEW x, NEW y, NEW nr, NEW k \in Packet,
         Owned(p.queue[Child]) => p.nbr[Child] # NoNbr,
         Asked(Asking(c), x, k), k.req <= nr, NEW code \in ReturnCode \ {"SUCCESS"},
         NEW res, NEW m, m = OutputError(p, Child, code, k, res)
  PROVE  Answers(c, p, m, x, y, y, nr, k)
<1> DEFINE e == MkPacket("RESPONSE", code, k.seqno, EmptyBody, NoSlot, k.req)
           a == p.queue[Child]
<1>1. /\ e \in Packet /\ e.ptr = NoSlot /\ e.code = code /\ e.req = k.req
      /\ e.type = "RESPONSE" /\ ~e.heard
  BY BodyAssumption DEF MkPacket, Packet, PktType
<1>2. m = SixtopOutput(p, Child, e, res) /\ Child \in Node
  BY CommandFacts DEF OutputError
<1> HIDE DEF e
<1>3. Outputs(p, m, Child, e)
  BY <1>1, <1>2, SixtopOutputEffect
<1>4. \A s \in Slot : m.trans[s] = p.trans[s]
  <2>1. \A s \in Slot : s # e.ptr
    BY <1>1 DEF NoSlot, Slot
  <2> QED
    BY <1>3, <2>1 DEF Outputs
<1>5. m.nbr = p.nbr /\ (m.queue[Child] = a \/ m.queue[Child] = Append(a, e))
  BY <1>2, <1>3 DEF Outputs, NodeState
<1>6. Answer(c, m, x, y, nr, e)
  BY <1>1 DEF Answer, Asked, Belongs, SameRequest
<1>7. KeepsOwn(p, m, a, y, y)
  <2>1. a \in Seq(Packet)
    BY <1>2 DEF NodeState
  <2>2. ASSUME NEW i \in 1..Len(a), a[i].ptr # NoSlot
        PROVE  a[i].ptr \in Slot /\ p.nbr[Child] # NoNbr
    <3>1. a[i] \in Packet
      BY <2>1
    <3> QED
      BY <2>2, <3>1 DEF Packet, Owned
  <2> QED
    BY <1>4, <1>5, <2>2 DEF KeepsOwn
<1>8. \A s \in Slot : Follows(p.trans[s], m.trans[s], k)
  BY <1>4 DEF Follows
<1> HIDE DEF a
<1> QED
  BY <1>1, <1>5, <1>6, <1>7, <1>8 DEF Answers, a

(* The parent answers through a transaction that waits for the response. *)
LEMMA ReplyAnswers ==
  ASSUME NEW c, NEW p \in NodeState, NEW x, NEW y, NEW z, NEW nr, NEW k \in Packet,
         ~Owned(p.queue[Child]), Asked(Asking(c), x, k), z.sched = y.sched,
         NEW n \in NodeState, n.queue = p.queue, HasTrans(n, Child),
         \A r \in Slot : Follows(p.trans[r], n.trans[r], k),
         NEW s, s = Find(n, Child), n.trans[s].state = "REQUEST_RECEIVED",
         n.trans[s].cmd # "CLEAR", n.trans[s].req <= nr,
         NEW code \in ReturnCode, NEW body \in Body, NEW cb \in Cmd \cup {"NONE"},
         \/ n.trans[s].req = k.req /\ n.trans[s].seqno = k.seqno
         \/ code # "SUCCESS" /\ n.trans[s].seqno = 0 /\ Past(c),
         code # "SUCCESS" => cb = "NONE",
         code = "SUCCESS" =>
           \/ /\ cb = k.code /\ body.cells = {z.res}
              /\ k.code = "RELOCATE" => z.reloc = k.body.rel
           \/ k.code = "DELETE" /\ cb = "NONE" /\ body.cells = {},
         NEW res, NEW m, m = OutputReply(n, Child, "RESPONSE", code, body, cb, res)
  PROVE  Answers(c, p, m, x, y, z, nr, k)
<1> DEFINE a == p.queue[Child]
<1>1. Child \in Node
  BY CommandFacts
<1>2. PICK e \in Packet :
        /\ e.type = "RESPONSE" /\ e.code = code /\ e.body = body /\ e.ptr = s
        /\ e.seqno = n.trans[s].seqno /\ e.req = n.trans[s].req /\ ~e.heard
        /\ Replies(n, m, Child, s, e)
        /\ m.queue[Child] # n.queue[Child] => m.trans[s].cb = cb
  BY <1>1, ReplyOutput
<1>3. s \in Slot /\ Listed(n.trans[s])
  BY FindTrans
<1>4. KeepsOwn(p, m, a, y, z)
  BY DEF KeepsOwn, Owned
<1>5. \A r \in Slot : Follows(p.trans[r], m.trans[r], k)
  <2>1. ASSUME NEW r \in Slot, r = s PROVE Follows(p.trans[r], m.trans[r], k)
    BY <1>2, <1>3, <2>1 DEF Follows, Replies
  <2>2. ASSUME NEW r \in Slot, r # s PROVE Follows(p.trans[r], m.trans[r], k)
    BY <1>2, <2>2 DEF Follows, Replies
  <2> QED
    BY <2>1, <2>2
<1>6. CASE m.queue[Child] = a
  BY <1>4, <1>5, <1>6 DEF Answers
<1>7. CASE m.queue[Child] # a
  <2>1. /\ m.queue[Child] = Append(a, e)
        /\ m.trans[s].state = "RESPONSE_SENDING" /\ m.nbr[Child] # NoNbr
        /\ m.trans[s].cb = cb /\ m.trans[s].req = e.req
    BY <1>2, <1>7 DEF Replies
  <2>2. Holds(m, e)
    BY <1>2, <2>1 DEF Holds
  <2>3. PICK w \in Asking(c) :
          /\ SameRequest(w, k) /\ w.cmd = k.code /\ k.code \in SfCmd
          /\ k.code = "RELOCATE" => k.body.rel = x.reloc
    BY DEF Asked
  <2>4. Belongs(Asking(c), e) \/ Stale(c, e)
    BY <1>2, <2>3 DEF Belongs, Stale, SameRequest
  <2>5. code = "SUCCESS" => Promised(Asking(c), x, z, m.trans[e.ptr], e)
    <3> SUFFICES ASSUME code = "SUCCESS"
                 PROVE  Promised(Asking(c), x, z, m.trans[s], e)
      BY <1>2
    <3>1. SameRequest(w, e)
      BY <1>2, <2>3 DEF SameRequest
    <3> QED
      BY <1>2, <2>1, <2>3, <3>1 DEF Promised
  <2>6. Answer(c, m, x, z, nr, e)
    <3>1. e.code = "SUCCESS" => e.ptr # NoSlot
      BY <1>2, <1>3 DEF Slot, NoSlot
    <3> QED
      BY <1>2, <2>2, <2>4, <2>5, <3>1 DEF Answer
  <2> HIDE DEF a
  <2> QED
    BY <1>2, <1>4, <1>5, <2>1, <2>6 DEF Answers, a
<1> QED
  BY <1>6, <1>7

(* The parent's sixp_input() on a request, with request_input(). *)
LEMMA ParentReceives ==
  ASSUME NEW c, NodeInv(c), \A s \in Slot : Listed(c.trans[s]) => c.trans[s].peer = Parent,
         NEW p, NodeInv(p), \A s \in Slot : Listed(p.trans[s]) => p.trans[s].peer = Child,
         NEW rc, NEW rp \in Seq(Frame), rp # <<>>, rp[1].src = Child,
         NEW x, NEW y \in SfState, NEW nr, Agree(c, p, rc, rp, x, y, nr),
         NEW o, IF Upcall(p, Child, rp[1].pkt) THEN o \in RequestInput(y, rp[1].pkt)
                                               ELSE o = NoReply(y),
         NEW res, NEW m, m = HandleFrame(p, rp[1], o.answer, o.body, o.cb, res)
  PROVE  Agree(c, m, rc, Tail(rp), x, o.state, nr)
<1> DEFINE k == rp[1].pkt
           W == Asking(c)
           a == p.queue[Child]
           z == o.state
           n2 == Transit(Alloc(p, Child, k), AllocSlot(p), "REQUEST_RECEIVED")
<1>1. /\ OneFrame(W, c.queue[Parent], rp, a, rc) /\ Requests(W, c.queue[Parent], rp, x)
      /\ Responses(c, p, a, rc, x, y, nr) /\ Numbers(c, p, nr)
  BY DEF Agree
<1>2. k \in Packet /\ 1 \in 1..Len(rp)
  <2>1. rp[1] \in Frame /\ 1 \in 1..Len(rp)
    BY TailElements
  <2> QED
    BY <2>1 DEF Frame
<1>3. Asked(W, x, k) /\ k.type = "REQUEST" /\ k.code \in SfCmd
  BY <1>1, <1>2 DEF Requests, Asked
<1>4. k.code \in Cmd /\ k.code # "CLEAR" /\ k.req <= nr
  <2>1. k.req <= nr
    BY <1>1, <1>3 DEF Asked, SameRequest, Numbers
  <2> QED
    BY <1>3, <2>1, CommandFacts DEF SfCmd
<1>5. Past(c) <=> k.seqno # 0
  BY <1>1, <1>3, AskedPast
<1>6. p \in NodeState /\ Child \in Node /\ a \in Seq(Packet)
  BY CommandFacts DEF NodeInv, NodeState
<1>7. AfterClear(p, Child, k) = p
  BY <1>4 DEF AfterClear
<1>8. ASSUME Owned(a)
      PROVE  /\ p.nbr[Child] # NoNbr
             /\ \E s \in Slot : p.trans[s].state = "RESPONSE_SENDING"
  <2>1. PICK i \in 1..Len(a) : a[i].ptr # NoSlot
    BY <1>8 DEF Owned
  <2>2. Holds(p, a[i]) /\ a[i] \in Packet
    BY <1>1, <1>6, <2>1 DEF Responses, Answer
  <2> QED
    BY <2>1, <2>2 DEF Holds, Packet
<1>9. /\ ~HasTrans(p, Child) => ~Owned(a)
      /\ HasTrans(p, Child) /\ p.trans[Find(p, Child)].state # "RESPONSE_SENDING" => ~Owned(a)
  <2>1. \A s \in Slot : p.trans[s].state = "RESPONSE_SENDING"
          => Listed(p.trans[s]) /\ p.trans[s].peer = Child /\ HasTrans(p, Child)
    BY DEF Listed, HasTrans, TransWith
  <2>2. HasTrans(p, Child) =>
          \A s \in Slot : Listed(p.trans[s]) => s = Find(p, Child)
    BY FindTrans DEF NodeInv, OneTransPerPeerAt
  <2> QED
    BY <1>8, <2>1, <2>2
<1> SUFFICES Answers(c, p, m, x, y, z, nr, k)
  BY <1>6, ParentTakes
<1>10. "ERR_SFID" \in ReturnCode /\ "ERR_BUSY" \in ReturnCode /\ "ERR_SEQNUM" \in ReturnCode
       /\ "SUCCESS" \in ReturnCode
  BY DEF ReturnCode
<1>11. NoReply(y).state = y
  BY DEF NoReply
<1>12. \A r \in Slot : Follows(p.trans[r], p.trans[r], k)
  BY DEF Follows
<1>13. rp[1].src = Child
  OBVIOUS
<1> HIDE DEF k, W, a
<1>14. ASSUME ~Upcall(p, Child, k) PROVE m = SixpInput(p, Child, k, res) /\ z = y
  BY <1>11, <1>13, <1>14 DEF HandleFrame, k
<1>15. ASSUME NEW code \in ReturnCode \ {"SUCCESS"}, ~Upcall(p, Child, k),
              SixpInput(p, Child, k, res) = OutputError(p, Child, code, k, res)
       PROVE  Answers(c, p, m, x, y, z, nr, k)
  BY <1>2, <1>3, <1>4, <1>6, <1>8, <1>14, <1>15, ErrorAnswers DEF W, a
<1>16. CASE ~p.sf
  <2>1. ~Upcall(p, Child, k)
    BY <1>16 DEF Upcall
  <2>2. SixpInput(p, Child, k, res) = OutputError(p, Child, "ERR_SFID", k, res)
    BY <1>16 DEF SixpInput
  <2> QED
    BY <1>10, <1>15, <2>1, <2>2
<1>17. CASE p.sf /\ HasTrans(p, Child)
  <2> DEFINE s == Find(p, Child)
             t == p.trans[s]
  <2>1. ~Upcall(p, Child, k)
    BY <1>3, <1>7, <1>17 DEF Upcall, CanAlloc
  <2>2. SixpInput(p, Child, k, res) = InputRequest(p, Child, k, res)
    BY <1>3, <1>17 DEF SixpInput
  <2>3. CASE ~ZeroMismatch(k.seqno, t.seqno)
    <3>1. InputRequest(p, Child, k, res) = OutputError(p, Child, "ERR_BUSY", k, res)
      BY <1>17, <2>3 DEF InputRequest
    <3> QED
      BY <1>10, <1>15, <2>1, <2>2, <3>1
  <2>4. CASE ZeroMismatch(k.seqno, t.seqno)
    <3>1. InputRequest(p, Child, k, res) = OutputSeqnumError(p, Child, k, res)
      BY <1>4, <1>17, <2>4 DEF InputRequest
    <3>2. CASE t.state # "REQUEST_RECEIVED"
      <4>1. InputRequest(p, Child, k, res) = OutputError(p, Child, "ERR_SEQNUM", k, res)
        BY <1>17, <3>1, <3>2 DEF OutputSeqnumError
      <4> QED
        BY <1>10, <1>15, <2>1, <2>2, <4>1
    <3>3. CASE t.state = "REQUEST_RECEIVED"
      <4>1. m = OutputReply(p, Child, "RESPONSE", "ERR_SEQNUM", EmptyBody, "NONE", res)
            /\ z = y
        BY <1>14, <2>1, <2>2, <3>1, <3>3 DEF OutputSeqnumError
      <4>2. s \in Slot /\ Listed(t) /\ ~Owned(a)
        BY <1>9, <1>17, <3>3, FindTrans
      <4>3. t.cmd # "CLEAR" /\ t.req <= nr /\ (t.seqno # 0 => Past(c))
        BY <1>1, <4>2 DEF Numbers
      <4>4. t.seqno = 0 /\ Past(c)
        BY <1>5, <2>4, <4>3 DEF ZeroMismatch
      <4>5. EmptyBody \in Body
        BY BodyAssumption
      <4> QED
        BY <1>2, <1>3, <1>6, <1>10, <1>12, <1>17, <3>3, <4>1, <4>2, <4>3, <4>4, <4>5,
           ReplyAnswers DEF W, a
    <3> QED
      BY <3>2, <3>3
  <2> QED
    BY <2>3, <2>4
<1>18. CASE p.sf /\ ~HasTrans(p, Child) /\ ~CanAlloc(p, Child)
  <2>1. ~Upcall(p, Child, k)
    BY <1>3, <1>7, <1>18 DEF Upcall
  <2>2. SixpInput(p, Child, k, res) = OutputError(p, Child, "ERR_BUSY", k, res)
    BY <1>3, <1>7, <1>18 DEF SixpInput, InputRequest
  <2> QED
    BY <1>10, <1>15, <2>1, <2>2
<1>19. CASE p.sf /\ ~HasTrans(p, Child) /\ CanAlloc(p, Child)
  <2>1. PICK n : n = n2
    OBVIOUS
  <2>2. PICK s \in Slot :
           /\ n \in NodeState /\ n.nbr = p.nbr /\ n.queue = p.queue
           /\ \A r \in Slot \ {s} : n.trans[r] = p.trans[r]
           /\ n.trans[s].state = "REQUEST_RECEIVED" /\ n.trans[s].req = k.req
           /\ n.trans[s].seqno = k.seqno /\ n.trans[s].cmd = k.code
           /\ n.trans[s].cb = "NONE"
           /\ HasTrans(n, Child) /\ Find(n, Child) = s
    BY <1>2, <1>4, <1>19, <2>1, ParentAllocs
  <2>3. ~Owned(a)
    BY <1>9, <1>19
  <2>4. ASSUME NEW r \in Slot PROVE Follows(p.trans[r], n.trans[r], k)
    <3>1. CASE r = s
      BY <1>4, <2>2, <3>1 DEF Follows
    <3>2. CASE r # s
      BY <2>2, <3>2 DEF Follows
    <3> QED
      BY <3>1, <3>2
  <2>5. SixpInput(p, Child, k, res) =
          IF Inconsistent(p, Child, k) THEN OutputSeqnumError(n, Child, k, res) ELSE n
    BY <1>3, <1>7, <1>19, <2>1 DEF SixpInput, InputRequest
  <2>6. Upcall(p, Child, k) <=> ~Inconsistent(p, Child, k)
    BY <1>3, <1>7, <1>19 DEF Upcall
  <2>7. CASE Inconsistent(p, Child, k)
    <3>1. m = OutputReply(n, Child, "RESPONSE", "ERR_SEQNUM", EmptyBody, "NONE", res)
          /\ z = y
      BY <1>14, <2>2, <2>5, <2>6, <2>7 DEF OutputSeqnumError
    <3>2. EmptyBody \in Body
      BY BodyAssumption
    <3> QED
      BY <1>2, <1>3, <1>4, <1>6, <1>10, <2>2, <2>3, <2>4, <3>1, <3>2, ReplyAnswers DEF W, a
  <2>8. CASE ~Inconsistent(p, Child, k)
    <3>1. o \in RequestInput(y, k)
      BY <2>6, <2>8 DEF k
    <3>2. GoodOutcome(o) /\ z.sched = y.sched
      BY <1>2, <3>1, RequestInputGood
    <3>3. CASE o.answer
      <4>1. m = OutputReply(n, Child, "RESPONSE", "SUCCESS", o.body, o.cb, res)
        BY <1>3, <1>13, <2>5, <2>6, <2>8, <3>3 DEF HandleFrame, k
      <4>2. \/ /\ o.cb = k.code /\ o.body.cells = {z.res}
               /\ k.code = "RELOCATE" => z.reloc = k.body.rel
            \/ k.code = "DELETE" /\ o.cb = "NONE" /\ o.body.cells = {}
        BY <1>2, <1>3, <3>1, <3>3, RequestInputAnswer
      <4>3. o.body \in Body /\ o.cb \in Cmd \cup {"NONE"}
        BY <3>2, CommandFacts DEF GoodOutcome
      <4> HIDE DEF z
      <4> QED
        BY <1>2, <1>3, <1>4, <1>6, <1>10, <2>2, <2>3, <2>4, <3>2, <4>1, <4>2, <4>3,
           ReplyAnswers DEF W, a
    <3>4. CASE ~o.answer
      <4>1. m = n
        BY <1>13, <2>5, <2>8, <3>4 DEF HandleFrame, k
      <4>2. KeepsOwn(p, m, a, y, z)
        BY <2>3 DEF KeepsOwn, Owned
      <4> QED
        BY <2>2, <2>4, <3>2, <4>1, <4>2 DEF Answers, a
    <3> QED
      BY <3>3, <3>4
  <2> QED
    BY <2>7, <2>8
<1> QED
  BY <1>16, <1>17, <1>18, <1>19

(* What both nodes do to their schedules is the same the other way round. *)
LEMMA MirrorAdd ==
  ASSUME NEW S, NEW l
  PROVE  Mirror(AddLink(S, l)) = AddLink(Mirror(S), MirrorLink(l))
<1>1. \A k : MirrorLink(k).cell = k.cell
  BY DEF MirrorLink, MkLink
<1> QED
  BY <1>1 DEF Mirror, AddLink

LEMMA MirrorOperations ==
  ASSUME NEW S, NEW r
  PROVE  /\ Mirror(RemoveLink(S, r)) = RemoveLink(Mirror(S), r)
         /\ RemoveLinks(S, {}) = S /\ RemoveLinks(S, {r}) = RemoveLink(S, r)
         /\ AddLinks(S, {r}, "TX", Parent) = AddLink(S, MkLink(r, "TX", Parent))
         /\ MirrorLink(MkLink(r, "TX", Parent)) = MkLink(r, "RX", Child)
<1>1. \A k : MirrorLink(k).cell = k.cell
  BY DEF MirrorLink, MkLink
<1>3. Mirror(RemoveLink(S, r)) = RemoveLink(Mirror(S), r)
  BY <1>1 DEF Mirror, RemoveLink
<1>4. RemoveLinks(S, {}) = S /\ RemoveLinks(S, {r}) = RemoveLink(S, r)
  BY DEF RemoveLinks, RemoveLink
<1>5. AddLinks(S, {r}, "TX", Parent) = AddLink(S, MkLink(r, "TX", Parent))
  <2>1. (CHOOSE c \in {r} : TRUE) = r /\ {r} # {}
    OBVIOUS
  <2> QED
    BY <2>1 DEF AddLinks
<1>6. MirrorLink(MkLink(r, "TX", Parent)) = MkLink(r, "RX", Child)
  BY CommandFacts DEF MirrorLink, MkLink, OtherWay, Other
<1> QED
  BY <1>3, <1>4, <1>5, <1>6

(* When the response is handled and when it is reported, the schedules     *)
(* change in the same way.                                                 *)
LEMMA SameChange ==
  ASSUME NEW x \in SfState, NEW y \in SfState, NEW W, NEW w, NEW u, NEW k,
         Mirror(x.sched) = y.sched, \A v \in W : v = w, k.code = "SUCCESS",
         Promised(W, x, y, u, k)
  PROVE  Mirror(ResponseInput(x, w.cmd, k, Parent).sched)
           = Installed(y, u.cb)
<1> DEFINE l == MkLink(y.res, "TX", Parent)
           e == MkLink(y.res, "RX", Child)
<1>1. /\ \A S : [x EXCEPT !.sched = S].sched = S
      /\ \A S : [y EXCEPT !.sched = S].sched = S
  BY DEF SfState
<1>2. MirrorLink(l) = e
  BY MirrorOperations
<1>3. CASE w.cmd \in SfCmd /\ u.cb = w.cmd /\ k.body.cells = {y.res}
           /\ (w.cmd = "RELOCATE" => y.reloc = x.reloc)
  <2> DEFINE S == AddLinks(x.sched, {y.res}, "TX", Parent)
             T == AddLink(y.sched, e)
  <2>1. S = AddLink(x.sched, l)
    BY MirrorOperations
  <2>2. Mirror(S) = T
    BY <1>2, <2>1, MirrorAdd
  <2> HIDE DEF S, T, l, e
  <2>3. CASE w.cmd = "ADD"
    <3>1. ResponseInput(x, w.cmd, k, Parent).sched = S
      BY <1>1, <1>3, <2>3 DEF ResponseInput, S
    <3>2. Installed(y, u.cb) = T
      BY <1>1, <1>3, <2>3 DEF Installed, SentCallback, T, e
    <3> QED
      BY <2>2, <3>1, <3>2
  <2>4. CASE w.cmd = "DELETE"
    <3>1. ResponseInput(x, w.cmd, k, Parent).sched = RemoveLinks(x.sched, {y.res})
      BY <1>1, <1>3, <2>4 DEF ResponseInput
    <3>2. Installed(y, u.cb) = RemoveLink(y.sched, y.res)
      BY <1>1, <1>3, <2>4 DEF Installed, SentCallback
    <3>3. RemoveLinks(x.sched, {y.res}) = RemoveLink(x.sched, y.res)
      BY MirrorOperations
    <3>4. Mirror(RemoveLink(x.sched, y.res)) = RemoveLink(Mirror(x.sched), y.res)
      BY MirrorOperations
    <3> QED
      BY <3>1, <3>2, <3>3, <3>4
  <2>5. CASE w.cmd = "RELOCATE"
    <3>1. ResponseInput(x, w.cmd, k, Parent).sched = RemoveLink(S, x.reloc)
      BY <1>1, <1>3, <2>5 DEF ResponseInput, S
    <3>2. Installed(y, u.cb) = RemoveLink(T, y.reloc)
      BY <1>1, <1>3, <2>5 DEF Installed, SentCallback, T, e
    <3>3. y.reloc = x.reloc
      BY <1>3, <2>5
    <3>4. Mirror(RemoveLink(S, x.reloc)) = RemoveLink(Mirror(S), x.reloc)
      BY MirrorOperations
    <3> QED
      BY <2>2, <3>1, <3>2, <3>3, <3>4
  <2> QED
    BY <1>3, <2>3, <2>4, <2>5 DEF SfCmd
<1>4. CASE w.cmd = "DELETE" /\ u.cb = "NONE" /\ k.body.cells = {}
  <2>1. ResponseInput(x, w.cmd, k, Parent).sched = RemoveLinks(x.sched, {})
    BY <1>1, <1>4 DEF ResponseInput
  <2>2. Installed(y, u.cb) = y.sched
    BY <1>4 DEF Installed, SentCallback
  <2> QED
    BY <2>1, <2>2, MirrorOperations
<1> QED
  BY <1>3, <1>4 DEF Promised

(* A transmission reaches the other node. *)
LEMMA HeardElements ==
  ASSUME NEW q \in Seq(Packet), q # <<>>, NEW b, b = [q EXCEPT ![1].heard = TRUE]
  PROVE  /\ Len(b) = Len(q) /\ Len(q) \in Nat \ {0} /\ 1 \in 1..Len(q) /\ q[1] \in Packet
         /\ b[1].heard /\ b[1].type = q[1].type /\ b[1].req = q[1].req
         /\ b[1].code = q[1].code /\ b[1].ptr = q[1].ptr /\ b[1].seqno = q[1].seqno
         /\ \A i \in 1..Len(q) : i # 1 => b[i] = q[i]
         /\ b # <<>>
<1>1. /\ Len(q) \in Nat \ {0} /\ 1 \in 1..Len(q) /\ q[1] \in Packet
      /\ \A i \in 1..Len(q) : q[i] \in Packet
  BY TailElements
<1> DEFINE e == [q[1] EXCEPT !.heard = TRUE]
<1>2. /\ e \in Packet /\ e.heard /\ e.type = q[1].type /\ e.req = q[1].req
      /\ e.code = q[1].code /\ e.ptr = q[1].ptr /\ e.seqno = q[1].seqno
  BY <1>1 DEF Packet
<1>3. b = [q EXCEPT ![1] = e]
  OBVIOUS
<1> HIDE DEF e
<1>4. Len(b) = Len(q) /\ b[1] = e /\ \A i \in 1..Len(q) : i # 1 => b[i] = q[i]
  BY <1>1, <1>2, <1>3
<1>5. b # <<>>
  <2>1. Len(b) # 0
    BY <1>1, <1>4
  <2> QED
    BY <2>1
<1> QED
  BY <1>1, <1>2, <1>4, <1>5

LEMMA ChildTransmits ==
  ASSUME NEW c \in NodeState, NEW p, NEW rc, NEW rp \in Seq(Frame), NEW x, NEW y, NEW nr,
         Agree(c, p, rc, rp, x, y, nr), c.queue[Parent] # <<>>,
         ~c.queue[Parent][1].heard,
         NEW m, m.trans = c.trans, m.nbr = c.nbr, m.sf = c.sf,
         m.queue[Parent] = [c.queue[Parent] EXCEPT ![1].heard = TRUE],
         NEW f \in Frame, f.pkt = c.queue[Parent][1]
  PROVE  Agree(m, p, rc, Append(rp, f), x, y, nr)
<1> DEFINE q == c.queue[Parent]
           r == m.queue[Parent]
           a == p.queue[Child]
           W == Asking(c)
           sp == Append(rp, f)
<1>1. /\ OneFrame(W, q, rp, a, rc) /\ Requests(W, q, rp, x)
      /\ Responses(c, p, a, rc, x, y, nr) /\ Numbers(c, p, nr)
      /\ Silent(c, q, rp, a, rc) /\ SameCells(c, p, a, rc, x, y)
  BY DEF Agree
<1>2. q \in Seq(Packet)
  BY CommandFacts DEF NodeState
<1>3. /\ Len(r) = Len(q) /\ Len(q) \in Nat \ {0} /\ 1 \in 1..Len(q)
      /\ r[1].heard /\ \A i \in 1..Len(q) : i # 1 => r[i] = q[i]
  BY <1>2, HeardElements
<1>4. Asking(m) = W
  BY DEF Asking
<1>5. /\ rp = <<>> /\ NoAnswer(W, a) /\ NoReturn(W, rc)
      /\ \A i \in 1..Len(q) : i = 1
      /\ Asked(W, x, f.pkt)
  <2>1. ~AllHeard(q)
    BY <1>3 DEF AllHeard
  <2>2. \A i \in 1..Len(q) : i = 1
    BY <1>1, <1>3 DEF Requests, OneFrame
  <2> QED
    BY <1>1, <1>3, <2>1, <2>2 DEF OneFrame, Requests
<1>6. Len(sp) = 1 /\ \A i \in 1..Len(sp) : i = 1 /\ sp[i] = f
  BY <1>5
<1> HIDE DEF q, r, a, W, sp
<1>7. AllHeard(r) /\ \A i \in 1..Len(r) : i = 1
  BY <1>3, <1>5 DEF AllHeard
<1>8. OneFrame(W, r, sp, a, rc)
  BY <1>1, <1>5, <1>6, <1>7 DEF OneFrame, AllHeard
<1>9. Requests(W, r, sp, x)
  BY <1>5, <1>6, <1>7 DEF Requests, AllHeard
<1>10. Past(m) <=> Past(c)
  BY DEF Past
<1>11. Responses(m, p, a, rc, x, y, nr)
  BY <1>1, <1>4, <1>10 DEF Responses, Answer, Return, Stale, W
<1>12. Numbers(m, p, nr)
  BY <1>1, <1>4, <1>10 DEF Numbers, W
<1>13. Silent(m, r, sp, a, rc)
  <2>1. q # <<>>
    BY DEF q
  <2> QED
    BY <1>1, <2>1 DEF Silent
<1>14. SameCells(m, p, a, rc, x, y)
  BY <1>1, <1>4 DEF SameCells, W
<1> QED
  BY <1>4, <1>8, <1>9, <1>11, <1>12, <1>13, <1>14 DEF Agree, r, a, W, sp

LEMMA ParentTransmits ==
  ASSUME NEW c, NodeInv(c), \A s \in Slot : Listed(c.trans[s]) => c.trans[s].peer = Parent,
         NEW p \in NodeState, NEW rc \in Seq(Frame), NEW rp,
         NEW x \in SfState, NEW y \in SfState, NEW nr,
         Agree(c, p, rc, rp, x, y, nr), p.queue[Child] # <<>>,
         ~p.queue[Child][1].heard,
         NEW m, m.trans = p.trans, m.nbr = p.nbr,
         m.queue[Child] = [p.queue[Child] EXCEPT ![1].heard = TRUE],
         NEW f \in Frame, f.pkt = p.queue[Child][1]
  PROVE  Agree(c, m, Append(rc, f), rp, x, y, nr)
<1> DEFINE q == c.queue[Parent]
           a == p.queue[Child]
           b == m.queue[Child]
           W == Asking(c)
           sc == Append(rc, f)
           k == a[1]
<1>1. /\ OneFrame(W, q, rp, a, rc) /\ Requests(W, q, rp, x)
      /\ Responses(c, p, a, rc, x, y, nr) /\ Numbers(c, p, nr)
      /\ Silent(c, q, rp, a, rc) /\ SameCells(c, p, a, rc, x, y)
  BY DEF Agree
<1>2. a \in Seq(Packet)
  BY CommandFacts DEF NodeState
<1>3. /\ Len(b) = Len(a) /\ Len(a) \in Nat \ {0} /\ 1 \in 1..Len(a) /\ b # <<>>
      /\ b[1].heard /\ b[1].type = k.type /\ b[1].req = k.req
      /\ b[1].code = k.code /\ b[1].ptr = k.ptr
      /\ \A i \in 1..Len(a) : i # 1 => b[i] = a[i]
  BY <1>2, HeardElements
<1>4. /\ Len(sc) = Len(rc) + 1 /\ Len(rc) \in Nat
      /\ \A i \in 1..Len(sc) : IF i = Len(rc) + 1 THEN sc[i] = f
                               ELSE i \in 1..Len(rc) /\ sc[i] = rc[i]
      /\ Len(rc) + 1 \in 1..Len(sc)
      /\ \A i \in 1..Len(rc) : i \in 1..Len(sc) /\ sc[i] = rc[i]
  BY AppendElements
<1>5. f.pkt = k /\ ~k.heard /\ a # <<>>
  OBVIOUS
<1> HIDE DEF q, a, b, W, sc, k
<1>6. Answer(c, p, x, y, nr, k)
  BY <1>1, <1>3 DEF Responses, k
<1>7. \A i \in 1..Len(b) : IF i = 1 THEN b[i].heard ELSE b[i] = a[i]
  BY <1>3
<1>8. Belongs(W, k) => AllHeard(q) /\ rp = <<>> /\ NoReturn(W, rc) /\ NoAnswer(W, b)
  <2> SUFFICES ASSUME Belongs(W, k)
               PROVE  AllHeard(q) /\ rp = <<>> /\ NoReturn(W, rc) /\ NoAnswer(W, b)
    OBVIOUS
  <2>1. ~NoAnswer(W, a)
    BY <1>3, <1>5 DEF NoAnswer, k
  <2>2. \A i \in 1..Len(a) : ~a[i].heard /\ Belongs(W, a[i]) => i = 1
    BY <1>1, <1>3, <1>5 DEF OneFrame, k
  <2>3. NoAnswer(W, b)
    BY <1>3, <1>7, <2>2 DEF NoAnswer
  <2> QED
    BY <1>1, <2>1, <2>3 DEF OneFrame
<1>9. NoAnswer(W, a) => NoAnswer(W, b) /\ ~Belongs(W, k)
  BY <1>3, <1>5, <1>7 DEF NoAnswer, k
<1>10. NoReturn(W, rc) /\ ~Belongs(W, k) => NoReturn(W, sc)
  BY <1>4, <1>5 DEF NoReturn
<1>11. OneFrame(W, q, rp, b, sc)
  <2>1. \A i, j \in 1..Len(b) :
          ~b[i].heard /\ Belongs(W, b[i]) /\ ~b[j].heard /\ Belongs(W, b[j]) => i = j
    BY <1>1, <1>3, <1>7 DEF OneFrame
  <2>2. ASSUME NEW i \in 1..Len(sc), NEW j \in 1..Len(sc),
               Belongs(W, sc[i].pkt), Belongs(W, sc[j].pkt)
        PROVE  i = j
    <3>1. CASE Belongs(W, k)
      <4>1. \A o \in 1..Len(rc) : ~Belongs(W, rc[o].pkt)
        BY <1>8, <3>1 DEF NoReturn
      <4> QED
        BY <1>4, <2>2, <4>1
    <3>2. CASE ~Belongs(W, k)
      BY <1>1, <1>4, <1>5, <2>2, <3>2 DEF OneFrame
    <3> QED
      BY <3>1, <3>2
  <2> QED
    BY <1>1, <1>8, <1>9, <1>10, <2>1, <2>2 DEF OneFrame
<1>12. ASSUME NEW i \in 1..Len(b)
       PROVE  Answer(c, m, x, y, nr, b[i]) /\ (i > 1 => ~b[i].heard)
  <2>1. CASE i = 1
    <3>1. \A g : Holds(p, g) <=> Holds(m, g)
      BY DEF Holds
    <3>2. Holds(m, k) => Holds(m, b[1])
      BY <1>3 DEF Holds
    <3> QED
      BY <1>3, <1>6, <2>1, <3>1, <3>2 DEF Answer
  <2>2. CASE i # 1
    <3>1. b[i] = a[i] /\ i \in 1..Len(a)
      BY <1>3, <2>2
    <3> QED
      BY <1>1, <3>1 DEF Responses, Answer, Holds
  <2> QED
    BY <2>1, <2>2
<1>13. \A i, j \in 1..Len(b) : b[i].ptr # NoSlot /\ b[j].ptr # NoSlot => i = j
  <2>1. \A i \in 1..Len(b) : b[i].ptr = a[i].ptr
    BY <1>3 DEF k
  <2> QED
    BY <1>1, <1>3, <2>1 DEF Responses
<1>14. Return(c, nr, k)
  BY <1>5, <1>6 DEF Answer, Return, Promised, W
<1>15. Responses(c, m, b, sc, x, y, nr)
  BY <1>1, <1>4, <1>5, <1>12, <1>13, <1>14 DEF Responses
<1>16. Numbers(c, m, nr)
  BY <1>1 DEF Numbers
<1>17. Silent(c, q, rp, b, sc)
  BY <1>1, <1>5 DEF Silent
<1>18. Granted(p, a, y) = y.sched
  BY <1>5 DEF Granted, k
<1>19. Granted(m, b, y) = IF k.ptr # NoSlot THEN Installed(y, p.trans[k.ptr].cb)
                          ELSE y.sched
  BY <1>3 DEF Granted
<1>20. SameCells(c, m, b, sc, x, y)
  <2>1. CASE k.code # "SUCCESS"
    <3>1. Granted(m, b, y) = y.sched
      <4>1. k.ptr # NoSlot => p.trans[k.ptr].cb = "NONE"
        BY <1>6, <2>1 DEF Answer, Holds
      <4> QED
        BY <1>19, <4>1 DEF Installed, SentCallback
    <3> QED
      BY <1>1, <1>4, <1>5, <1>18, <2>1, <3>1 DEF SameCells
  <2>2. CASE k.code = "SUCCESS"
    <3> DEFINE u == p.trans[k.ptr]
    <3>1. Promised(W, x, y, u, k) /\ k.ptr # NoSlot
      BY <1>5, <1>6, <2>2 DEF Answer, W
    <3> HIDE DEF u
    <3>2. PICK w \in W : w.req = k.req
      BY <3>1 DEF Promised, SameRequest
    <3>3. \A v \in W : v = w
      BY DEF W, Asking, Requesting, Listed, NodeInv, OneTransPerPeerAt
    <3>4. NoReturn(W, rc)
      BY <1>8, <3>2 DEF Belongs
    <3>5. \A i \in 1..Len(rc) : rc[i].pkt.code # "SUCCESS"
      BY <1>1, <3>4 DEF Responses, Return, NoReturn, Belongs, SameRequest, W
    <3>6. Mirror(x.sched) = y.sched
      BY <1>1, <1>18, <3>5 DEF SameCells
    <3>7. Mirror(ResponseInput(x, w.cmd, k, Parent).sched)
            = Installed(y, u.cb)
      BY <2>2, <3>1, <3>3, <3>6, SameChange
    <3>8. Granted(m, b, y) = Installed(y, u.cb)
      BY <1>19, <3>1 DEF u
    <3>9. \E i \in 1..Len(sc) : sc[i].pkt.code = "SUCCESS"
      BY <1>4, <1>5, <2>2
    <3>10. ASSUME NEW i \in 1..Len(sc), NEW v \in W, sc[i].pkt.code = "SUCCESS"
           PROVE  Mirror(ResponseInput(x, v.cmd, sc[i].pkt, Parent).sched) = Granted(m, b, y)
      <4>1. sc[i] = f
        BY <1>4, <3>5, <3>10
      <4>2. v = w
        BY <3>3
      <4> QED
        BY <1>5, <3>7, <3>8, <4>1, <4>2
    <3> QED
      BY <3>9, <3>10 DEF SameCells, W
  <2> QED
    BY <2>1, <2>2
<1> QED
  BY <1>1, <1>11, <1>15, <1>16, <1>17, <1>20 DEF Agree, q, b, W, sc

(* The oldest packet of the parent is out of the queue. *)
LEMMA ParentDone ==
  ASSUME NEW c, NEW p \in NodeState, NEW rc, NEW rp, NEW x, NEW y, NEW nr,
         NEW m, NEW z, Agree(c, p, rc, rp, x, y, nr), p.queue[Child] # <<>>,
         m.queue[Child] = Tail(p.queue[Child]),
         \A s \in Slot : Listed(m.trans[s]) =>
           /\ Listed(p.trans[s]) /\ m.trans[s].req = p.trans[s].req
           /\ m.trans[s].seqno = p.trans[s].seqno /\ m.trans[s].cmd = p.trans[s].cmd,
         p.queue[Child][1].ptr = NoSlot => m.trans = p.trans /\ m.nbr = p.nbr /\ z = y,
         z.sched = Granted(p, p.queue[Child], y)
  PROVE  Agree(c, m, rc, rp, x, z, nr)
<1> DEFINE q == c.queue[Parent]
           a == p.queue[Child]
           b == m.queue[Child]
           W == Asking(c)
           k == a[1]
<1>1. /\ OneFrame(W, q, rp, a, rc) /\ Requests(W, q, rp, x)
      /\ Responses(c, p, a, rc, x, y, nr) /\ Numbers(c, p, nr)
      /\ Silent(c, q, rp, a, rc) /\ SameCells(c, p, a, rc, x, y)
  BY DEF Agree
<1>2. a \in Seq(Packet) /\ a # <<>> /\ b = Tail(a)
  BY CommandFacts DEF NodeState
<1>3. /\ b \in Seq(Packet) /\ Len(b) = Len(a) - 1 /\ Len(a) \in Nat \ {0}
      /\ \A i \in 1..Len(b) : i + 1 \in 1..Len(a) /\ b[i] = a[i + 1]
      /\ 1 \in 1..Len(a)
  BY <1>2, TailElements
<1>4. /\ k.ptr = NoSlot => m.trans = p.trans /\ m.nbr = p.nbr /\ z = y
      /\ z.sched = Granted(p, a, y)
  OBVIOUS
<1> HIDE DEF q, a, b, W
<1>5. ASSUME NEW i \in 1..Len(b)
      PROVE  /\ ~b[i].heard /\ Answer(c, p, x, y, nr, b[i])
             /\ k.ptr # NoSlot => b[i].ptr = NoSlot
  <2>1. i + 1 \in 1..Len(a) /\ i + 1 > 1 /\ i + 1 # 1 /\ b[i] = a[i + 1]
    BY <1>3
  <2> QED
    BY <1>1, <1>3, <2>1 DEF Responses
<1>6. NoAnswer(W, a) => NoAnswer(W, b)
  BY <1>3 DEF NoAnswer
<1>7. OneFrame(W, q, rp, b, rc)
  <2>1. ASSUME NEW i \in 1..Len(b), NEW j \in 1..Len(b),
               Belongs(W, b[i]), Belongs(W, b[j])
        PROVE  i = j
    <3>1. i + 1 = j + 1
      BY <1>1, <1>3, <1>5, <2>1 DEF OneFrame
    <3> QED
      BY <3>1
  <2> QED
    BY <1>1, <1>6, <2>1 DEF OneFrame
<1>8. ASSUME NEW i \in 1..Len(b) PROVE Answer(c, m, x, z, nr, b[i])
  <2>1. CASE k.ptr = NoSlot
    BY <1>4, <1>5, <2>1 DEF Answer, Holds
  <2>2. CASE k.ptr # NoSlot
    <3>1. b[i].ptr = NoSlot
      BY <1>5, <2>2
    <3> QED
      BY <1>5, <3>1 DEF Answer
  <2> QED
    BY <2>1, <2>2
<1>9. \A i, j \in 1..Len(b) : b[i].ptr # NoSlot /\ b[j].ptr # NoSlot => i = j
  <2> SUFFICES ASSUME NEW i \in 1..Len(b), NEW j \in 1..Len(b),
                      b[i].ptr # NoSlot, b[j].ptr # NoSlot
               PROVE  i = j
    OBVIOUS
  <2>1. i + 1 = j + 1
    BY <1>1, <1>3 DEF Responses
  <2> QED
    BY <2>1
<1>10. Responses(c, m, b, rc, x, z, nr)
  BY <1>1, <1>5, <1>8, <1>9 DEF Responses
<1>11. Numbers(c, m, nr)
  BY <1>1 DEF Numbers
<1>12. Silent(c, q, rp, b, rc)
  BY <1>1, <1>2 DEF Silent
<1>13. Granted(m, b, z) = z.sched
  <2>1. b # <<>> => 1 \in 1..Len(b)
    BY <1>3
  <2> QED
    BY <1>5, <2>1 DEF Granted
<1>14. SameCells(c, m, b, rc, x, z)
  BY <1>1, <1>4, <1>13 DEF SameCells
<1> QED
  BY <1>1, <1>7, <1>10, <1>11, <1>12, <1>14 DEF Agree, q, b, W

(* The MAC reports a packet of the parent: mac_callback() with the         *)
(* response-sent callback.                                                 *)
AfterReport(p, y, ok) ==
  LET s == p.queue[Child][1].ptr
      t == p.trans[s]
  IN  IF s = NoSlot \/ t.peer = NoNode \/ p.nbr[t.peer] = NoNbr THEN y
      ELSE SentCallback(y, CallbackRun(p, s, ok), t.peer, ok)

LEMMA ParentReports ==
  ASSUME NEW c, NEW p \in NodeState, \A s \in Slot : Listed(p.trans[s]) => p.trans[s].peer = Child,
         NEW rc, NEW rp, NEW x, NEW y, NEW nr,
         Agree(c, p, rc, rp, x, y, nr), p.queue[Child] # <<>>,
         NEW ok \in BOOLEAN, ok = p.queue[Child][1].heard,
         NEW m, m = DoneWith(p, Child, ok), NEW z, z = AfterReport(p, y, ok)
  PROVE  Agree(c, m, rc, rp, x, z, nr)
<1> DEFINE a == p.queue[Child]
           k == a[1]
           s == k.ptr
           t == p.trans[s]
           n == [p EXCEPT !.queue[Child] = Tail(a)]
<1>1. a \in Seq(Packet) /\ Child \in Node
  BY CommandFacts DEF NodeState
<1>2. /\ Tail(a) \in Seq(Packet) /\ 1 \in 1..Len(a) /\ Head(a) = k /\ k \in Packet
  BY <1>1, TailElements
<1>3. n \in NodeState /\ n.trans = p.trans /\ n.nbr = p.nbr /\ n.queue[Child] = Tail(a)
  BY <1>1, <1>2 DEF NodeState
<1>4. m = IF s = NoSlot THEN n ELSE MacCallback(n, s, ok)
  BY <1>2 DEF DoneWith
<1> HIDE DEF n
<1>5. Answer(c, p, x, y, nr, k)
  BY <1>2 DEF Agree, Responses
<1>6. CASE s = NoSlot
  <2>1. z = y /\ m = n
    BY <1>4, <1>6 DEF AfterReport
  <2>2. y.sched = Granted(p, a, y)
    BY <1>6 DEF Granted
  <2> QED
    BY <1>3, <1>6, <2>1, <2>2, ParentDone
<1>7. CASE s # NoSlot
  <2>1. /\ s \in Slot /\ t \in Trans /\ t.state = "RESPONSE_SENDING" /\ p.nbr[Child] # NoNbr
    BY <1>2, <1>5, <1>7 DEF Answer, Holds, Packet, NodeState
  <2>2. t.peer = Child /\ Child # NoNode
    BY <1>1, <2>1, NodeAssumption DEF Listed
  <2>3. CASE ok
    <3> DEFINE v == Transit(n, s, "RESPONSE_SENT")
    <3>1. Allowed(n.trans[s], "RESPONSE_SENT") /\ "RESPONSE_SENT" \in TransState
      BY <1>3, <2>1 DEF Allowed, TransState
    <3>2. Moves(n, v, s, "RESPONSE_SENT")
      BY <1>3, <2>1, <3>1, TransitEffect
    <3>3. m = ClearCallback(v, s)
      BY <1>3, <1>4, <1>7, <2>1, <2>3, <3>1 DEF MacCallback, StateAfterMac
    <3>4. v \in NodeState
      <4>1. NbrAfter(n, n.trans[s], "RESPONSE_SENT") \in [Node -> 0..MaxSeqno \cup {NoNbr}]
        <5>1. NextSeqno(n.trans[s].seqno) \in 0..MaxSeqno
          BY <1>3, <2>1, NextSeqnoType, SMTT(60) DEF Trans
        <5> QED
          BY Zenon, <1>3, <5>1 DEF NbrAfter, NodeState
      <4>2. [t EXCEPT !.state = "RESPONSE_SENT", !.timer = "process"] \in Trans
        BY Zenon, <2>1, <3>1 DEF Trans
      <4> QED
        BY ZenonT(60), <1>3, <2>1, <3>1, <4>1, <4>2 DEF Transit, NodeState
    <3> HIDE DEF v
    <3>5. /\ m.queue = v.queue
          /\ m.trans = [v.trans EXCEPT ![s] = [@ EXCEPT !.cb = "NONE"]]
      BY <3>3, <3>4 DEF ClearCallback, NodeState
    <3>6. \A r \in Slot : /\ m.trans[r].req = p.trans[r].req
                          /\ m.trans[r].seqno = p.trans[r].seqno
                          /\ m.trans[r].cmd = p.trans[r].cmd
                          /\ Listed(m.trans[r]) => Listed(p.trans[r])
      <4>1. /\ m.trans[s].req = t.req /\ m.trans[s].seqno = t.seqno /\ m.trans[s].cmd = t.cmd
            /\ Listed(t)
        <5>1. v.trans[s] \in Trans
          BY <2>1, <3>4 DEF NodeState
        <5>2. v.trans[s].req = t.req /\ v.trans[s].seqno = t.seqno /\ v.trans[s].cmd = t.cmd
          BY <1>3, <2>1, <3>2, SMTT(60) DEF Moves, Trans
        <5>3. m.trans[s] = [v.trans[s] EXCEPT !.cb = "NONE"]
          BY <2>1, <3>4, <3>5 DEF NodeState
        <5> QED
          BY ZenonT(60), <2>1, <5>1, <5>2, <5>3 DEF Trans, Listed
      <4>2. \A r \in Slot \ {s} : m.trans[r] = p.trans[r]
        BY <1>3, <2>1, <3>2, <3>4, <3>5 DEF Moves, NodeState
      <4> QED
        BY ZenonT(60), <4>1, <4>2
    <3>7. m.queue[Child] = Tail(a)
      BY <1>3, <3>2, <3>5 DEF Moves
    <3>8. z.sched = Granted(p, a, y)
      <4>1. CallbackRun(p, s, ok) = t.cb
        BY <2>1, <2>3 DEF CallbackRun, StateAfterMac, Allowed
      <4>2. z = SentCallback(y, t.cb, Child, ok)
        BY <1>7, <2>1, <2>2, <4>1 DEF AfterReport
      <4>3. k.heard /\ a # <<>>
        BY <2>3
      <4> QED
        BY <1>7, <2>3, <4>2, <4>3 DEF Granted, Installed
    <3>9. /\ p.queue[Child] # <<>> /\ m.queue[Child] = Tail(p.queue[Child])
          /\ p.queue[Child][1].ptr # NoSlot
          /\ z.sched = Granted(p, p.queue[Child], y)
      BY <1>7, <3>7, <3>8
    <3>10. \A r \in Slot : Listed(m.trans[r]) =>
             /\ Listed(p.trans[r]) /\ m.trans[r].req = p.trans[r].req
             /\ m.trans[r].seqno = p.trans[r].seqno /\ m.trans[r].cmd = p.trans[r].cmd
      BY <3>6
    <3>11. p.queue[Child][1].ptr = NoSlot => m.trans = p.trans /\ m.nbr = p.nbr /\ z = y
      BY <3>9
    <3> HIDE DEF a, k, s, t
    <3> QED
      BY <3>9, <3>10, <3>11, ParentDone
  <2>4. CASE ~ok
    <3>1. m = ClearCallback(n, s)
      BY <1>3, <1>4, <1>7, <2>1, <2>4 DEF MacCallback, StateAfterMac
    <3>2. m.queue = n.queue /\ m.trans = [n.trans EXCEPT ![s] = [@ EXCEPT !.cb = "NONE"]]
      BY <1>3, <3>1 DEF ClearCallback, NodeState
    <3>3. \A r \in Slot : /\ m.trans[r].req = p.trans[r].req
                          /\ m.trans[r].seqno = p.trans[r].seqno
                          /\ m.trans[r].cmd = p.trans[r].cmd
                          /\ Listed(m.trans[r]) => Listed(p.trans[r])
      <4>1. m.trans[s] = [t EXCEPT !.cb = "NONE"]
        BY <1>3, <2>1, <3>2 DEF NodeState
      <4>2. m.trans[s].req = t.req /\ m.trans[s].seqno = t.seqno /\ m.trans[s].cmd = t.cmd
            /\ Listed(t)
        BY <2>1, <4>1 DEF Trans, Listed
      <4>3. \A r \in Slot \ {s} : m.trans[r] = p.trans[r]
        BY <1>3, <2>1, <3>2 DEF NodeState
      <4> QED
        BY Zenon, <4>2, <4>3
    <3>4. m.queue[Child] = Tail(a)
      BY <1>3, <3>2
    <3>5. z.sched = Granted(p, a, y)
      <4>1. CallbackRun(p, s, ok) = t.cb
        BY <2>1, <2>4 DEF CallbackRun, StateAfterMac
      <4>2. z = SentCallback(y, t.cb, Child, ok)
        BY <1>7, <2>1, <2>2, <4>1 DEF AfterReport
      <4>3. ~k.heard /\ z = y
        BY <2>4, <4>2 DEF SentCallback
      <4> QED
        BY <4>3 DEF Granted
    <3>9. /\ p.queue[Child] # <<>> /\ m.queue[Child] = Tail(p.queue[Child])
          /\ p.queue[Child][1].ptr # NoSlot
          /\ z.sched = Granted(p, p.queue[Child], y)
      BY <1>7, <3>4, <3>5
    <3>10. \A r \in Slot : Listed(m.trans[r]) =>
             /\ Listed(p.trans[r]) /\ m.trans[r].req = p.trans[r].req
             /\ m.trans[r].seqno = p.trans[r].seqno /\ m.trans[r].cmd = p.trans[r].cmd
      BY <3>3
    <3>11. p.queue[Child][1].ptr = NoSlot => m.trans = p.trans /\ m.nbr = p.nbr /\ z = y
      BY <3>9
    <3> HIDE DEF a, k, s, t
    <3> QED
      BY <3>9, <3>10, <3>11, ParentDone
  <2> QED
    BY <2>3, <2>4
<1> QED
  BY <1>6, <1>7

(* A step of the parent's 6P that neither receives nor reports. *)
LEMMA ParentKeeps ==
  ASSUME NEW c, NEW p \in NodeState, NEW rc, NEW rp, NEW x, NEW y, NEW nr, NEW m,
         Agree(c, p, rc, rp, x, y, nr), m.queue = p.queue,
         p.nbr[Child] # NoNbr => m.nbr[Child] # NoNbr,
         \A s \in Slot : Listed(m.trans[s]) =>
           /\ Listed(p.trans[s]) /\ m.trans[s].req = p.trans[s].req
           /\ m.trans[s].seqno = p.trans[s].seqno /\ m.trans[s].cmd = p.trans[s].cmd,
         \A i \in 1..Len(p.queue[Child]) :
           LET s == p.queue[Child][i].ptr
           IN  s # NoSlot => /\ m.trans[s].state = p.trans[s].state
                             /\ m.trans[s].req = p.trans[s].req
                             /\ m.trans[s].cb = p.trans[s].cb
  PROVE  Agree(c, m, rc, rp, x, y, nr)
<1> DEFINE q == c.queue[Parent]
           a == p.queue[Child]
           W == Asking(c)
<1>1. /\ OneFrame(W, q, rp, a, rc) /\ Requests(W, q, rp, x)
      /\ Responses(c, p, a, rc, x, y, nr) /\ Numbers(c, p, nr)
      /\ Silent(c, q, rp, a, rc) /\ SameCells(c, p, a, rc, x, y)
  BY DEF Agree
<1>2. m.queue[Child] = a /\ (a # <<>> => 1 \in 1..Len(a))
  <2>1. a \in Seq(Packet)
    BY CommandFacts DEF NodeState
  <2> QED
    BY <2>1, TailElements
<1>3. \A i \in 1..Len(a) : a[i].ptr # NoSlot =>
        /\ m.trans[a[i].ptr].state = p.trans[a[i].ptr].state
        /\ m.trans[a[i].ptr].req = p.trans[a[i].ptr].req
        /\ m.trans[a[i].ptr].cb = p.trans[a[i].ptr].cb
  OBVIOUS
<1> HIDE DEF q, a, W
<1>4. ASSUME NEW i \in 1..Len(a) PROVE Answer(c, m, x, y, nr, a[i])
  <2>1. Answer(c, p, x, y, nr, a[i])
    BY <1>1 DEF Responses
  <2>2. CASE a[i].ptr = NoSlot
    BY <2>1, <2>2 DEF Answer
  <2>3. CASE a[i].ptr # NoSlot
    <3>1. Holds(m, a[i])
      BY <1>3, <2>1, <2>3 DEF Answer, Holds
    <3>2. Promised(W, x, y, p.trans[a[i].ptr], a[i]) => Promised(W, x, y, m.trans[a[i].ptr], a[i])
      BY <1>3, <2>3 DEF Promised
    <3> QED
      BY <2>1, <3>1, <3>2 DEF Answer, W
  <2> QED
    BY <2>2, <2>3
<1>5. Responses(c, m, a, rc, x, y, nr)
  BY <1>1, <1>4 DEF Responses
<1>6. Numbers(c, m, nr)
  BY <1>1 DEF Numbers
<1>7. SameCells(c, m, a, rc, x, y)
  <2>1. Granted(m, a, y) = Granted(p, a, y)
    <3>1. CASE a # <<>> /\ a[1].heard /\ a[1].ptr # NoSlot
      BY <1>2, <1>3, <3>1 DEF Granted
    <3>2. CASE ~(a # <<>> /\ a[1].heard /\ a[1].ptr # NoSlot)
      BY <3>2 DEF Granted
    <3> QED
      BY <3>1, <3>2
  <2> QED
    BY <1>1, <2>1 DEF SameCells
<1> QED
  BY <1>1, <1>2, <1>5, <1>6, <1>7 DEF Agree, q, W

LEMMA ParentExpires ==
  ASSUME NEW c, NEW p, NodeInv(p), NEW rc, NEW rp, NEW x, NEW y, NEW nr,
         Agree(c, p, rc, rp, x, y, nr), NEW s \in Slot, Listed(p.trans[s]),
         NEW m,
         \/ m = ProcessTrans(p, s)
         \/ /\ m = HandleTransTimeout(p, s)
            /\ \A i \in 1..Len(p.queue[Child]) : p.queue[Child][i].req # p.trans[s].req
  PROVE  Agree(c, m, rc, rp, x, y, nr)
<1> DEFINE t == p.trans[s]
           a == p.queue[Child]
<1>1. p \in NodeState /\ t \in Trans /\ a \in Seq(Packet)
  BY CommandFacts DEF NodeInv, NodeState
<1>2. \A i \in 1..Len(a) : a[i].ptr # NoSlot =>
        /\ p.trans[a[i].ptr].state = "RESPONSE_SENDING" /\ p.trans[a[i].ptr].req = a[i].req
        /\ a[i].ptr \in Slot
  <2>1. \A i \in 1..Len(a) : a[i] \in Packet
    BY <1>1
  <2> QED
    BY <2>1 DEF Agree, Responses, Answer, Holds, Packet
<1>3. ASSUME NEW u, m.trans = [p.trans EXCEPT ![s] = u], m.queue = p.queue, m.nbr = p.nbr,
             Listed(u) => u.req = t.req /\ u.seqno = t.seqno /\ u.cmd = t.cmd,
             (\E i \in 1..Len(a) : a[i].ptr = s) => u.state = t.state /\ u.req = t.req /\ u.cb = t.cb
      PROVE  Agree(c, m, rc, rp, x, y, nr)
  <2>1. \A r \in Slot : IF r = s THEN m.trans[r] = u ELSE m.trans[r] = p.trans[r]
    BY <1>1, <1>3 DEF NodeState
  <2>2. ASSUME NEW r \in Slot, Listed(m.trans[r])
        PROVE  /\ Listed(p.trans[r]) /\ m.trans[r].req = p.trans[r].req
               /\ m.trans[r].seqno = p.trans[r].seqno /\ m.trans[r].cmd = p.trans[r].cmd
    BY <1>3, <2>1, <2>2
  <2>3. ASSUME NEW i \in 1..Len(a), a[i].ptr # NoSlot
        PROVE  /\ m.trans[a[i].ptr].state = p.trans[a[i].ptr].state
               /\ m.trans[a[i].ptr].req = p.trans[a[i].ptr].req
               /\ m.trans[a[i].ptr].cb = p.trans[a[i].ptr].cb
    BY <1>2, <1>3, <2>1, <2>3
  <2> QED
    BY <1>1, <1>3, <2>2, <2>3, ParentKeeps, ZenonT(60)
<1>4. ASSUME m = Transit(p, s, "TERMINATING"), \A i \in 1..Len(a) : a[i].ptr # s
      PROVE  Agree(c, m, rc, rp, x, y, nr)
  <2> DEFINE u == [t EXCEPT !.state = "TERMINATING", !.timer = "process"]
  <2>1. Allowed(t, "TERMINATING") /\ NbrAfter(p, t, "TERMINATING") = p.nbr
    BY DEF Allowed, NbrAfter
  <2>2. m = [p EXCEPT !.nbr = p.nbr, !.trans[s] = u]
    BY <1>4, <2>1 DEF Transit
  <2>3. u.req = t.req /\ u.seqno = t.seqno /\ u.cmd = t.cmd
    BY <1>1 DEF Trans
  <2> HIDE DEF u
  <2>4. m.trans = [p.trans EXCEPT ![s] = u] /\ m.queue = p.queue /\ m.nbr = p.nbr
    BY <1>1, <2>2 DEF NodeState
  <2> QED
    BY <1>3, <1>4, <2>3, <2>4
<1>5. CASE m = HandleTransTimeout(p, s) /\ \A i \in 1..Len(a) : a[i].req # t.req
  <2>1. \A i \in 1..Len(a) : a[i].ptr # s
    BY <1>2, <1>5 DEF NoSlot, Slot
  <2> QED
    BY <1>4, <1>5, <2>1 DEF HandleTransTimeout
<1>6. CASE m = ProcessTrans(p, s)
  <2>1. t.state # "RESPONSE_SENDING" => \A i \in 1..Len(a) : a[i].ptr # s
    BY <1>2 DEF NoSlot, Slot
  <2>2. CASE t.state = "TERMINATING"
    <3>1. m = [p EXCEPT !.trans[s] = FreeTrans]
      BY <1>6, <2>2 DEF ProcessTrans, Free, Sending
    <3>2. m.trans = [p.trans EXCEPT ![s] = FreeTrans] /\ m.queue = p.queue /\ m.nbr = p.nbr
      BY <1>1, <3>1 DEF NodeState
    <3>3. ~Listed(FreeTrans)
      BY DEF Listed, FreeTrans
    <3> QED
      BY <1>3, <2>1, <2>2, <3>2, <3>3
  <2>3. CASE t.state # "TERMINATING" /\ Complete(t)
    <3>1. m = Transit(p, s, "TERMINATING") /\ t.state # "RESPONSE_SENDING"
      BY <1>6, <2>3 DEF ProcessTrans, Complete
    <3> QED
      BY <1>4, <2>1, <3>1
  <2>4. CASE t.state # "TERMINATING" /\ ~Complete(t)
    <3> DEFINE u == [t EXCEPT !.timer = "timeout"]
    <3>1. m = [p EXCEPT !.trans[s] = u]
      BY <1>6, <2>4 DEF ProcessTrans
    <3>2. /\ u.state = t.state /\ u.req = t.req /\ u.cb = t.cb /\ u.seqno = t.seqno
          /\ u.cmd = t.cmd
      BY <1>1 DEF Trans
    <3> HIDE DEF u
    <3>3. m.trans = [p.trans EXCEPT ![s] = u] /\ m.queue = p.queue /\ m.nbr = p.nbr
      BY <1>1, <3>1 DEF NodeState
    <3> QED
      BY <1>3, <3>2, <3>3
  <2> QED
    BY <2>2, <2>3, <2>4
<1> QED
  BY <1>5, <1>6

(* The scheduling function is registered. *)
LEMMA ChildAddsSf ==
  ASSUME NEW c, NEW p, NEW rc, NEW rp, NEW x, NEW y, NEW nr, Agree(c, p, rc, rp, x, y, nr),
         NEW m, m.trans = c.trans, m.nbr = c.nbr, m.queue = c.queue, m.sf
  PROVE  Agree(m, p, rc, rp, x, y, nr)
<1>1. Asking(m) = Asking(c) /\ (Past(m) <=> Past(c))
  BY DEF Asking, Past
<1>2. /\ Responses(c, p, p.queue[Child], rc, x, y, nr) /\ Numbers(c, p, nr)
      /\ SameCells(c, p, p.queue[Child], rc, x, y)
  BY DEF Agree
<1>3. /\ Responses(m, p, p.queue[Child], rc, x, y, nr) /\ Numbers(m, p, nr)
      /\ SameCells(m, p, p.queue[Child], rc, x, y)
  BY <1>1, <1>2 DEF Responses, Answer, Return, Stale, Numbers, SameCells
<1> QED
  BY <1>1, <1>3 DEF Agree, Silent

(* What the type invariant and the minimal cell's invariant say of the two *)
(* nodes: each only has transactions with, and frames from, the other.     *)
PairInv ==
  /\ node \in [Node -> NodeState] /\ rx \in [Node -> Seq(Frame)]
  /\ sf \in [Node -> SfState] /\ nreq \in Nat
  /\ NodeInv(node[Child]) /\ NodeInv(node[Parent])
  /\ \A s \in Slot : Listed(node[Child].trans[s]) => node[Child].trans[s].peer = Parent
  /\ \A s \in Slot : Listed(node[Parent].trans[s]) => node[Parent].trans[s].peer = Child
  /\ \A i \in 1..Len(rx[Child]) : rx[Child][i].src = Parent
  /\ \A i \in 1..Len(rx[Parent]) : rx[Parent][i].src = Child

LEMMA PairHolds == SfInv /\ MinInv => PairInv
<1> SUFFICES ASSUME SfInv, MinInv PROVE PairInv
  OBVIOUS
<1>1. /\ node \in [Node -> NodeState] /\ rx \in [Node -> Seq(Frame)]
      /\ sf \in [Node -> SfState] /\ nreq \in Nat
      /\ \A n \in Node : NodeInv(node[n])
  BY DEF SfInv, SfTypeOK, Inv, TypeOK
<1>2. ASSUME NEW n \in Node, NEW s \in Slot, Listed(node[n].trans[s])
      PROVE  node[n].trans[s].peer \in Node \ {n}
  <2>1. node[n].trans[s].peer \in Node
    BY <1>1, <1>2 DEF NodeInv, Listed
  <2>2. node[n].trans[s].peer # n
    BY <1>2 DEF MinInv
  <2> QED
    BY <2>1, <2>2
<1>3. ASSUME NEW n \in Node, NEW i \in 1..Len(rx[n])
      PROVE  rx[n][i].src \in Node \ {n}
  <2>1. rx[n][i] \in Frame
    BY <1>1
  <2>2. rx[n][i].src # n
    BY DEF MinInv
  <2> QED
    BY <2>1, <2>2 DEF Frame
<1> QED
  BY <1>1, <1>2, <1>3, CommandFacts DEF PairInv

(* One node's part changes. *)
LEMMA NewNode ==
  ASSUME PairInv, NEW n \in Node, NEW m, node' = [node EXCEPT ![n] = m]
  PROVE  \A p \in Node : node'[p] = IF p = n THEN m ELSE node[p]
BY DEF PairInv

LEMMA NewRx ==
  ASSUME PairInv, NEW n \in Node, NEW r, rx' = [rx EXCEPT ![n] = r]
  PROVE  \A p \in Node : rx'[p] = IF p = n THEN r ELSE rx[p]
BY DEF PairInv

LEMMA NewSf ==
  ASSUME PairInv, NEW n \in Node, NEW z, sf' = [sf EXCEPT ![n] = z]
  PROVE  \A p \in Node : sf'[p] = IF p = n THEN z ELSE sf[p]
BY DEF PairInv

AgreeNow == Agree(node[Child], node[Parent], rx[Child], rx[Parent], sf[Child], sf[Parent], nreq)

(* The three requests of the child. *)
LEMMA RequestAgrees ==
  ASSUME PairInv, AgreeNow, NEW cmd \in SfCmd, NEW body \in Body, NEW mode \in FlushMode,
         NEW res, Request(Child, Parent, cmd, body, "NONE", mode, res),
         ~FlushesHeard(node[Child].queue[Parent], mode),
         NEW z, z.sched = sf[Child].sched,
         z = sf[Child] \/ ~HasTrans(node[Child], Parent),
         cmd = "RELOCATE" => body.rel = z.reloc,
         sf' = [sf EXCEPT ![Child] = z]
  PROVE  AgreeNow'
<1> DEFINE m == OutputRequest(Flush(node[Child], Parent, mode), Parent, cmd, body,
                              "NONE", nreq + 1, res)
<1>1. node' = [node EXCEPT ![Child] = m] /\ rx' = rx /\ nreq' = nreq + 1
  BY DEF Request, PairInv
<1>2. /\ node[Parent] \in NodeState /\ rx[Child] \in Seq(Frame) /\ rx[Parent] \in Seq(Frame)
      /\ nreq \in Nat /\ NodeInv(node[Child])
      /\ \A s \in Slot : Listed(node[Child].trans[s]) => node[Child].trans[s].peer = Parent
  BY CommandFacts DEF PairInv
<1>3. PICK k : k = m
  OBVIOUS
<1>4. Agree(k, node[Parent], rx[Child], rx[Parent], z, sf[Parent], nreq + 1)
  BY <1>2, <1>3, ChildSends DEF AgreeNow
<1> HIDE DEF m
<1>5. node'[Child] = k /\ node'[Parent] = node[Parent]
  <2>1. node' = [node EXCEPT ![Child] = k]
    BY <1>1, <1>3
  <2>2. \A p \in Node : node'[p] = IF p = Child THEN k ELSE node[p]
    BY <2>1, NewNode, CommandFacts
  <2> QED
    BY <2>2, CommandFacts
<1>6. sf'[Child] = z /\ sf'[Parent] = sf[Parent]
  BY NewSf, CommandFacts
<1> QED
  BY <1>1, <1>4, <1>5, <1>6 DEF AgreeNow

(* What the child makes of a response. *)
LEMMA ChildHandles ==
  ASSUME NEW c, c.sf, NEW x, NEW f, f.pkt.type = "RESPONSE", f.src = Parent,
         NEW o \in IF Upcall(c, f.src, f.pkt) THEN SfInput(c, x, f) ELSE {NoReply(x)},
         NEW res, NEW m, m = HandleFrame(c, f, o.answer, o.body, o.cb, res)
  PROVE  IF Accepts(c, Parent, f.pkt)
           THEN /\ m = Transit(c, Find(c, Parent), "RESPONSE_RECEIVED")
                /\ o.state = ResponseInput(x, c.trans[Find(c, Parent)].cmd, f.pkt, Parent)
           ELSE m = c /\ o.state = x
<1>1. Upcall(c, f.src, f.pkt) <=> Accepts(c, Parent, f.pkt)
  BY DEF Upcall
<1>2. ASSUME NEW t, o = NoReply(t) PROVE ~o.answer /\ o.state = t
  BY <1>2 DEF NoReply
<1>3. ~o.answer
  BY <1>2 DEF SfInput
<1>4. m = SixpInput(c, Parent, f.pkt, res)
  BY <1>3 DEF HandleFrame
<1>5. CASE Accepts(c, Parent, f.pkt)
  <2>1. o.state = ResponseInput(x, c.trans[Find(c, Parent)].cmd, f.pkt, Parent)
    BY <1>1, <1>2, <1>5 DEF SfInput
  <2>2. m = Transit(c, Find(c, Parent), "RESPONSE_RECEIVED")
    BY <1>4, <1>5 DEF SixpInput, StateOnReply
  <2> QED
    BY <1>5, <2>1, <2>2
<1>6. CASE ~Accepts(c, Parent, f.pkt)
  <2>1. o.state = x
    BY <1>1, <1>2, <1>6
  <2>2. m = c
    BY <1>4, <1>6 DEF SixpInput
  <2> QED
    BY <1>6, <2>1, <2>2
<1> QED
  BY <1>5, <1>6

LEMMA ReceiveAgrees ==
  ASSUME PairInv, AgreeNow, NEW n \in Node, NEW res, Receive(n, res)
  PROVE  AgreeNow'
<1> DEFINE f == Head(rx[n])
<1>1. /\ rx[n] \in Seq(Frame) /\ rx[n] # <<>>
      /\ f = rx[n][1] /\ 1 \in 1..Len(rx[n]) /\ f \in Frame
  BY DEF Receive, PairInv
<1>2. PICK o \in IF Upcall(node[n], f.src, f.pkt) THEN SfInput(node[n], sf[n], f)
                                                  ELSE {NoReply(sf[n])} :
        Input(n, o.answer, o.body, o.cb, res) /\ sf' = [sf EXCEPT ![n] = o.state]
  BY DEF Receive
<1> HIDE DEF f
<1> DEFINE m == HandleFrame(node[n], f, o.answer, o.body, o.cb, res)
<1>3. node' = [node EXCEPT ![n] = m] /\ rx' = [rx EXCEPT ![n] = Tail(rx[n])] /\ nreq' = nreq
  BY <1>2 DEF Input, f, PairInv
<1>4. PICK k : k = m
  OBVIOUS
<1>5. /\ NodeInv(node[Child]) /\ NodeInv(node[Parent])
      /\ \A s \in Slot : Listed(node[Child].trans[s]) => node[Child].trans[s].peer = Parent
      /\ \A s \in Slot : Listed(node[Parent].trans[s]) => node[Parent].trans[s].peer = Child
      /\ sf[Child] \in SfState /\ sf[Parent] \in SfState
  BY CommandFacts DEF PairInv
<1>6. /\ \A p \in Node : node'[p] = IF p = n THEN k ELSE node[p]
      /\ \A p \in Node : rx'[p] = IF p = n THEN Tail(rx[n]) ELSE rx[p]
      /\ \A p \in Node : sf'[p] = IF p = n THEN o.state ELSE sf[p]
  <2>1. node' = [node EXCEPT ![n] = k]
    BY <1>3, <1>4
  <2>2. \A p \in Node : node'[p] = IF p = n THEN k ELSE node[p]
    BY <2>1, NewNode
  <2>3. \A p \in Node : rx'[p] = IF p = n THEN Tail(rx[n]) ELSE rx[p]
    BY <1>3, NewRx
  <2>4. \A p \in Node : sf'[p] = IF p = n THEN o.state ELSE sf[p]
    BY <1>2, NewSf
  <2> QED
    BY <2>2, <2>3, <2>4
<1> HIDE DEF m
<1>7. CASE n = Child
  <2>1. f.src = Parent
    BY <1>1, <1>7 DEF PairInv
  <2>2. f.pkt.type = "RESPONSE" /\ node[Child].sf
    BY <1>1, <1>7 DEF AgreeNow, Agree, Responses, Return, Silent
  <2>3. IF Accepts(node[Child], Parent, f.pkt)
          THEN /\ k = Transit(node[Child], Find(node[Child], Parent), "RESPONSE_RECEIVED")
               /\ o.state = ResponseInput(sf[Child],
                              node[Child].trans[Find(node[Child], Parent)].cmd, f.pkt, Parent)
          ELSE k = node[Child] /\ o.state = sf[Child]
    BY <1>2, <1>4, <1>7, <2>1, <2>2, ChildHandles DEF m
  <2>4. Agree(k, node[Parent], Tail(rx[Child]), rx[Parent], o.state, sf[Parent], nreq)
    BY <1>1, <1>5, <1>7, <2>3, ChildReceives DEF AgreeNow
  <2> QED
    BY <1>3, <1>6, <1>7, <2>4, CommandFacts DEF AgreeNow
<1>8. CASE n = Parent
  <2>1. f.src = Child
    BY <1>1, <1>8 DEF PairInv
  <2>2. f.pkt.type = "REQUEST"
    BY <1>1, <1>8 DEF AgreeNow, Agree, Requests, Asked
  <2>3. IF Upcall(node[Parent], Child, f.pkt) THEN o \in RequestInput(sf[Parent], f.pkt)
                                              ELSE o = NoReply(sf[Parent])
    BY <1>2, <1>8, <2>1, <2>2 DEF SfInput
  <2>4. Agree(node[Child], k, rx[Child], Tail(rx[Parent]), sf[Child], o.state, nreq)
    <3>1. /\ rx[Parent] \in Seq(Frame) /\ rx[Parent] # <<>>
          /\ rx[Parent][1] = f /\ rx[Parent][1].src = Child
      BY <1>1, <1>8, <2>1
    <3>2. k = HandleFrame(node[Parent], rx[Parent][1], o.answer, o.body, o.cb, res)
      BY <1>4, <1>8, <3>1 DEF m
    <3>3. IF Upcall(node[Parent], Child, rx[Parent][1].pkt)
            THEN o \in RequestInput(sf[Parent], rx[Parent][1].pkt)
            ELSE o = NoReply(sf[Parent])
      BY <2>3, <3>1
    <3>4. Agree(node[Child], node[Parent], rx[Child], rx[Parent], sf[Child], sf[Parent], nreq)
      BY DEF AgreeNow
    <3> QED
      BY <1>5, <3>1, <3>2, <3>3, <3>4, ParentReceives
  <2> QED
    BY <1>3, <1>6, <1>8, <2>4, CommandFacts DEF AgreeNow
<1> QED
  BY <1>7, <1>8, CommandFacts

LEMMA AddSfAgrees ==
  ASSUME PairInv, AgreeNow, NEW n \in Node, AddSf(n), UNCHANGED sf
  PROVE  AgreeNow'
<1> DEFINE m == [node[n] EXCEPT !.sf = TRUE]
<1>1. node' = [node EXCEPT ![n] = m] /\ rx' = rx /\ nreq' = nreq
  BY DEF AddSf, PairInv
<1>2. node[n] \in NodeState
  BY DEF PairInv
<1>3. PICK k : k = m
  OBVIOUS
<1>4. k.trans = node[n].trans /\ k.nbr = node[n].nbr /\ k.queue = node[n].queue /\ k.sf
  BY <1>2, <1>3 DEF NodeState
<1>5. \A p \in Node : node'[p] = IF p = n THEN k ELSE node[p]
  <2>1. node' = [node EXCEPT ![n] = k]
    BY <1>1, <1>3
  <2> QED
    BY <2>1, NewNode
<1> HIDE DEF m
<1>6. CASE n = Child
  <2>1. Agree(k, node[Parent], rx[Child], rx[Parent], sf[Child], sf[Parent], nreq)
    BY <1>4, <1>6, ChildAddsSf DEF AgreeNow
  <2> QED
    BY <1>1, <1>5, <1>6, <2>1, CommandFacts DEF AgreeNow
<1>7. CASE n = Parent
  <2>1. Agree(node[Child], k, rx[Child], rx[Parent], sf[Child], sf[Parent], nreq)
    BY <1>2, <1>4, <1>7, ParentKeeps DEF AgreeNow
  <2> QED
    BY <1>1, <1>5, <1>7, <2>1, CommandFacts DEF AgreeNow
<1> QED
  BY <1>6, <1>7, CommandFacts

LEMMA TransmitAgrees ==
  ASSUME PairInv, AgreeNow, NEW n \in Node, NEW p \in Node \ {n}, Transmit(n, p), UNCHANGED sf
  PROVE  AgreeNow'
<1> DEFINE m == [node[n] EXCEPT !.queue[p][1].heard = TRUE]
           q == node[n].queue[p]
           f == [src |-> n, pkt |-> Head(q)]
<1>0. node[n] \in NodeState /\ rx[p] \in Seq(Frame)
  BY DEF PairInv
<1>1. node' = [node EXCEPT ![n] = m] /\ rx' = [rx EXCEPT ![p] = Append(rx[p], f)] /\ nreq' = nreq
  BY DEF Transmit, PairInv
<1>2. q \in Seq(Packet) /\ q # <<>> /\ Head(q) = q[1] /\ q[1] \in Packet /\ ~q[1].heard
  <2>1. q \in Seq(Packet) /\ q # <<>>
    BY <1>0 DEF NodeState, Transmit
  <2>2. ~Head(q).heard
    BY DEF Transmit
  <2> QED
    BY <2>1, <2>2
<1>3. PICK k, g : k = m /\ g = f
  OBVIOUS
<1>4. g \in Frame /\ g.pkt = q[1]
  BY <1>2, <1>3 DEF Frame
<1>5. /\ k.trans = node[n].trans /\ k.nbr = node[n].nbr /\ k.sf = node[n].sf
      /\ k.queue[p] = [q EXCEPT ![1].heard = TRUE]
  BY <1>0, <1>3 DEF NodeState
<1>6. /\ \A r \in Node : node'[r] = IF r = n THEN k ELSE node[r]
      /\ \A r \in Node : rx'[r] = IF r = p THEN Append(rx[p], g) ELSE rx[r]
  <2>1. node' = [node EXCEPT ![n] = k] /\ rx' = [rx EXCEPT ![p] = Append(rx[p], g)]
    BY <1>1, <1>3
  <2>2. \A r \in Node : node'[r] = IF r = n THEN k ELSE node[r]
    BY <2>1, NewNode
  <2>3. \A r \in Node : rx'[r] = IF r = p THEN Append(rx[p], g) ELSE rx[r]
    <3>1. PICK v : v = Append(rx[p], g)
      OBVIOUS
    <3>2. rx' = [rx EXCEPT ![p] = v]
      BY <2>1, <3>1
    <3>3. \A r \in Node : rx'[r] = IF r = p THEN v ELSE rx[r]
      BY <3>2, NewRx
    <3> QED
      BY <3>1, <3>3
  <2> QED
    BY <2>2, <2>3
<1>7. /\ NodeInv(node[Child]) /\ rx[Child] \in Seq(Frame) /\ rx[Parent] \in Seq(Frame)
      /\ \A s \in Slot : Listed(node[Child].trans[s]) => node[Child].trans[s].peer = Parent
      /\ sf[Child] \in SfState /\ sf[Parent] \in SfState
  BY CommandFacts DEF PairInv
<1> HIDE DEF m, f
<1>8. CASE n = Child
  <2>1. p = Parent
    BY <1>8, CommandFacts
  <2>2. Agree(k, node[Parent], rx[Child], Append(rx[Parent], g), sf[Child], sf[Parent], nreq)
    BY <1>0, <1>2, <1>4, <1>5, <1>8, <2>1, ChildTransmits DEF AgreeNow
  <2> QED
    BY <1>1, <1>6, <1>8, <2>1, <2>2, CommandFacts DEF AgreeNow
<1>9. CASE n = Parent
  <2>1. p = Child
    BY <1>9, CommandFacts
  <2>2. Agree(node[Child], k, Append(rx[Child], g), rx[Parent], sf[Child], sf[Parent], nreq)
    BY ZenonT(60), <1>0, <1>2, <1>4, <1>5, <1>7, <1>9, <2>1, ParentTransmits DEF AgreeNow
  <2> QED
    BY <1>1, <1>6, <1>9, <2>1, <2>2, CommandFacts DEF AgreeNow
<1> QED
  BY <1>8, <1>9, CommandFacts

LEMMA ReportAgrees ==
  ASSUME PairInv, AgreeNow, NEW n \in Node, NEW p \in Node \ {n}, NEW ok \in BOOLEAN,
         Report(n, p, ok), app'.clean, app \in AppState
  PROVE  AgreeNow'
<1> DEFINE q == node[n].queue[p]
           s == Head(q).ptr
           t == node[n].trans[s]
           m == DoneWith(node[n], p, ok)
<1>0. node[n] \in NodeState
  BY DEF PairInv
<1>1. node' = [node EXCEPT ![n] = m] /\ rx' = rx /\ nreq' = nreq
  BY Zenon DEF Report, MacDone, PairInv
<1>2. q \in Seq(Packet) /\ q # <<>> /\ Head(q) = q[1] /\ q[1] \in Packet
  <2>1. q \in Seq(Packet) /\ q # <<>>
    BY Zenon, <1>0 DEF NodeState, Report, MacDone
  <2> QED
    BY <2>1
<1>3. ok = Head(q).heard
  <2>1. app' = [app EXCEPT !.clean = @ /\ ok = Head(q).heard]
    BY Zenon DEF Report
  <2> HIDE DEF q
  <2> QED
    BY ZenonT(60), <2>1 DEF AppState
<1>4. sf' = IF s = NoSlot \/ t.peer = NoNode \/ node[n].nbr[t.peer] = NoNbr THEN sf
            ELSE [sf EXCEPT ![n] = SentCallback(sf[n], CallbackRun(node[n], s, ok), t.peer, ok)]
  BY Zenon DEF Report, PairInv
<1>5. PICK k : k = m
  OBVIOUS
<1>6. \A r \in Node : node'[r] = IF r = n THEN k ELSE node[r]
  <2>1. node' = [node EXCEPT ![n] = k]
    BY <1>1, <1>5
  <2> QED
    BY <2>1, NewNode
<1>7. CASE n = Child
  <2>1. p = Parent
    BY <1>7, CommandFacts
  <2>2. /\ Agree(k, node[Parent], rx[Child], rx[Parent], sf[Child], sf[Parent], nreq)
        /\ \A r \in Slot : CallbackRun(node[Child], r, ok) = "NONE"
    BY <1>0, <1>2, <1>3, <1>5, <1>7, <2>1, ChildReports DEF AgreeNow
  <2>3. sf' = sf
    <3>1. CASE s = NoSlot
      BY <1>4, <3>1
    <3>2. CASE s # NoSlot
      <4>1. s \in Slot
        BY <1>2, <3>2 DEF Packet
      <4>2. CallbackRun(node[n], s, ok) = "NONE"
        BY <1>7, <2>2, <4>1
      <4>3. SentCallback(sf[n], CallbackRun(node[n], s, ok), t.peer, ok) = sf[n]
        BY <4>2 DEF SentCallback
      <4>4. [sf EXCEPT ![n] = sf[n]] = sf
        BY DEF PairInv
      <4> HIDE DEF s, t
      <4> QED
        BY <1>4, <4>3, <4>4
    <3> QED
      BY <3>1, <3>2
  <2> QED
    BY <1>1, <1>6, <1>7, <2>2, <2>3, CommandFacts DEF AgreeNow
<1>8. CASE n = Parent
  <2>1. p = Child
    BY <1>8, CommandFacts
  <2>2. PICK z : z = AfterReport(node[Parent], sf[Parent], ok)
    OBVIOUS
  <2>3. \A s1 \in Slot : Listed(node[Parent].trans[s1]) => node[Parent].trans[s1].peer = Child
    BY CommandFacts DEF PairInv
  <2>4. Agree(node[Child], k, rx[Child], rx[Parent], sf[Child], z, nreq)
    BY <1>0, <1>2, <1>3, <1>5, <1>8, <2>1, <2>2, <2>3, ParentReports DEF AgreeNow
  <2>5. sf'[Child] = sf[Child] /\ sf'[Parent] = z
    <3>1. z = IF s = NoSlot \/ t.peer = NoNode \/ node[n].nbr[t.peer] = NoNbr THEN sf[n]
              ELSE SentCallback(sf[n], CallbackRun(node[n], s, ok), t.peer, ok)
      BY Zenon, <1>2, <1>8, <2>1, <2>2 DEF AfterReport
    <3> HIDE DEF s, t
    <3>2. (sf' = sf /\ z = sf[n]) \/ sf' = [sf EXCEPT ![n] = z]
      BY <1>4, <3>1
    <3>3. CASE sf' = sf /\ z = sf[n]
      BY <1>8, <3>3
    <3>4. CASE sf' = [sf EXCEPT ![n] = z]
      BY <1>8, <3>4, NewSf, CommandFacts
    <3> QED
      BY <3>2, <3>3, <3>4
  <2> QED
    BY <1>1, <1>6, <1>8, <2>4, <2>5, CommandFacts DEF AgreeNow
<1> QED
  BY <1>7, <1>8, CommandFacts

LEMMA ExpireAgrees ==
  ASSUME PairInv, AgreeNow, NEW n \in Node, NEW s \in Slot, Expire(n, s), app'.clean,
         app \in AppState
  PROVE  AgreeNow'
<1> DEFINE t == node[n].trans[s]
<1>0. NodeInv(node[n]) /\ node[n] \in NodeState
  BY CommandFacts DEF PairInv
<1>1. PICK k : /\ node' = [node EXCEPT ![n] = k]
               /\ \/ t.timer = "timeout" /\ k = HandleTransTimeout(node[n], s)
                  \/ t.timer = "process" /\ k = ProcessTrans(node[n], s)
  <2>1. CASE t.timer = "timeout" /\ node' = [node EXCEPT ![n] = HandleTransTimeout(@, s)]
    <3>1. node' = [node EXCEPT ![n] = HandleTransTimeout(node[n], s)]
      BY <2>1 DEF PairInv
    <3> QED
      BY <2>1, <3>1
  <2>2. CASE t.timer = "process" /\ node' = [node EXCEPT ![n] = ProcessTrans(@, s)]
    <3>1. node' = [node EXCEPT ![n] = ProcessTrans(node[n], s)]
      BY <2>2 DEF PairInv
    <3> QED
      BY <2>2, <3>1
  <2> QED
    BY <2>1, <2>2 DEF Expire, Timer
<1>2. rx' = rx /\ nreq' = nreq /\ sf' = sf
  BY DEF Expire, Timer
<1>3. Listed(t)
  BY <1>0, <1>1 DEF NodeInv, TimerArmedAt
<1>4. t.timer = "timeout" => ~InFlight(n, s)
  <2>1. app' = [app EXCEPT !.clean = @ /\ (t.timer = "timeout" => ~InFlight(n, s))]
    BY DEF Expire
  <2> HIDE DEF t
  <2> QED
    BY <2>1 DEF AppState
<1>5. \A r \in Node : node'[r] = IF r = n THEN k ELSE node[r]
  BY <1>1, NewNode
<1>6. CASE n = Child
  <2>1. \A r \in Slot : Listed(node[Child].trans[r]) => r = s
    <3>1. \A r \in Slot : Listed(node[Child].trans[r]) => node[Child].trans[r].peer = Parent
      BY DEF PairInv
    <3>2. OneTransPerPeerAt(node[Child]) /\ Listed(node[Child].trans[s])
      BY <1>0, <1>3, <1>6 DEF NodeInv
    <3> QED
      BY <3>1, <3>2 DEF OneTransPerPeerAt
  <2>2. /\ Agree(ProcessTrans(node[Child], s), node[Parent], rx[Child], rx[Parent],
                 sf[Child], sf[Parent], nreq)
        /\ NoneOf(t.req, node[Child].queue[Parent], rx[Parent], node[Parent].queue[Child],
                  rx[Child])
             => Agree(HandleTransTimeout(node[Child], s), node[Parent], rx[Child], rx[Parent],
                      sf[Child], sf[Parent], nreq)
    <3>1. rx[Parent] \in Seq(Frame)
      BY CommandFacts DEF PairInv
    <3> QED
      BY <1>0, <1>3, <1>6, <2>1, <3>1, ChildExpires DEF AgreeNow
  <2>3. t.timer = "timeout" =>
          NoneOf(t.req, node[Child].queue[Parent], rx[Parent], node[Parent].queue[Child], rx[Child])
    BY <1>4, CommandFacts DEF InFlight, NoneOf
  <2>4. Agree(k, node[Parent], rx[Child], rx[Parent], sf[Child], sf[Parent], nreq)
    BY <1>1, <1>6, <2>2, <2>3
  <2> QED
    BY <1>2, <1>5, <1>6, <2>4, CommandFacts DEF AgreeNow
<1>7. CASE n = Parent
  <2>1. t.timer = "timeout" =>
          \A i \in 1..Len(node[Parent].queue[Child]) : node[Parent].queue[Child][i].req # t.req
    BY <1>4, CommandFacts DEF InFlight
  <2>2. \/ k = ProcessTrans(node[Parent], s)
        \/ /\ k = HandleTransTimeout(node[Parent], s)
           /\ \A i \in 1..Len(node[Parent].queue[Child]) :
                node[Parent].queue[Child][i].req # node[Parent].trans[s].req
    BY <1>1, <1>7, <2>1
  <2>3. Agree(node[Child], k, rx[Child], rx[Parent], sf[Child], sf[Parent], nreq)
    BY <1>0, <1>3, <1>7, <2>2, ParentExpires DEF AgreeNow
  <2> QED
    BY <1>2, <1>5, <1>7, <2>3, CommandFacts DEF AgreeNow
<1> QED
  BY <1>6, <1>7, CommandFacts

LEMMA AgreeStep == SfInv /\ MinInv /\ AgreeInv /\ [SfNext]_sfvars => AgreeInv'
<1> SUFFICES ASSUME SfInv, MinInv, AgreeInv, [SfNext]_sfvars, app'.clean
             PROVE  AgreeNow'
  BY DEF AgreeInv, AgreeNow
<1>0. PairInv /\ app \in AppState /\ SfPart
  BY PairHolds, SfInvParts
<1>1. app.clean => AgreeNow
  BY DEF AgreeInv, AgreeNow
<1>2. CASE UNCHANGED <<node, rx, nreq, sf>> /\ app'.clean = app.clean
  BY <1>1, <1>2 DEF AgreeNow
<1>3. CASE UNCHANGED sfvars
  BY <1>2, <1>3 DEF sfvars
<1>4. CASE AddCheck
  <2>1. app'.clean = app.clean
    BY <1>0, <1>4 DEF AddCheck, AppState
  <2> QED
    BY <1>2, <1>4, <2>1 DEF AddCheck
<1>5. ASSUME NEW cands \in Candidates, NEW flush \in Flushing, NEW res \in Result,
             AddSend(cands, flush, res)
      PROVE  AgreeNow'
  <2>1. app.clean /\ ~FlushesHeard(node[Child].queue[Parent], flush)
    <3> DEFINE still == app.clean /\ ~FlushesHeard(node[Child].queue[Parent], flush)
    <3>1. app' = [app EXCEPT !.clean = still, !.added = @ + 1,
                             !.add = IF app.added + 1 < Target THEN "wait" ELSE "done"]
      BY <1>5 DEF AddSend
    <3>2. app'.clean = still
      <4> HIDE DEF still
      <4> QED
        BY <1>0, <3>1 DEF AppState
    <3> QED
      BY <3>2
  <2>2. /\ flush \in FlushMode /\ "ADD" \in SfCmd
        /\ MkBody(NoCell, cands) \in Body
    BY ReplyAssumption, MkBodyType DEF SfCmd, Candidates
  <2>3. sf' = [sf EXCEPT ![Child] = sf[Child]]
    BY <1>0, <1>5 DEF AddSend, PairInv
  <2>4. Request(Child, Parent, "ADD", MkBody(NoCell, cands), "NONE", flush, res)
    BY <1>5 DEF AddSend
  <2> QED
    BY <1>0, <1>1, <2>1, <2>2, <2>3, <2>4, RequestAgrees
<1>6. ASSUME NEW rels, Evaluate(rels)
      PROVE  AgreeNow'
  <2>1. app'.clean = app.clean
    BY <1>0, <1>6 DEF Evaluate, AppState
  <2> QED
    BY <1>2, <1>6, <2>1 DEF Evaluate
<1>7. ASSUME NEW c \in app.rels, NEW cands \in Candidates, NEW res \in Result,
             RelocSend(c, cands, res)
      PROVE  AgreeNow'
  <2>1. app.clean
    BY <1>0, <1>7 DEF RelocSend, AppState
  <2>2. ~FlushesHeard(node[Child].queue[Parent], "none")
    BY DEF FlushesHeard
  <2>3. c \in UpCell
    BY <1>0 DEF AppState
  <2>4. /\ "none" \in FlushMode /\ "RELOCATE" \in SfCmd
        /\ MkBody(c, cands) \in Body /\ MkBody(c, cands).rel = c
    BY <2>3, MkBodyType DEF SfCmd, Candidates, FlushMode, MkBody
  <2>5. PICK z : z = [sf[Child] EXCEPT !.reloc = c]
    OBVIOUS
  <2>6. z.sched = sf[Child].sched /\ z.reloc = c
    BY <1>0, <2>5, CommandFacts DEF PairInv, SfState
  <2>7. sf' = [sf EXCEPT ![Child] = z]
    BY <1>0, <1>7, <2>5 DEF RelocSend, PairInv
  <2>8. /\ Request(Child, Parent, "RELOCATE", MkBody(c, cands), "NONE", "none", res)
        /\ ~HasTrans(node[Child], Parent)
    BY <1>7 DEF RelocSend
  <2> QED
    BY <1>0, <1>1, <2>1, <2>2, <2>4, <2>6, <2>7, <2>8, RequestAgrees
<1>8. ASSUME NEW c \in CellsOf(sf[Child].sched, "TX", Parent), NEW res \in Result,
             RemoveSend(c, res)
      PROVE  AgreeNow'
  <2>1. app.clean
    BY <1>8 DEF RemoveSend
  <2>2. ~FlushesHeard(node[Child].queue[Parent], "none")
    BY DEF FlushesHeard
  <2>3. c \in UpCell
    BY <1>0 DEF SfPart
  <2>4. /\ "none" \in FlushMode /\ "DELETE" \in SfCmd
        /\ MkBody(NoCell, {c}) \in Body
    BY <2>3, MkBodyType DEF SfCmd, FlushMode
  <2>5. sf' = [sf EXCEPT ![Child] = sf[Child]]
    BY <1>0, <1>8 DEF RemoveSend, PairInv
  <2>6. Request(Child, Parent, "DELETE", MkBody(NoCell, {c}), "NONE", "none", res)
    BY <1>8 DEF RemoveSend
  <2> QED
    BY <1>0, <1>1, <2>1, <2>2, <2>4, <2>5, <2>6, RequestAgrees
<1>9. ASSUME NEW n \in Node, AddSf(n), UNCHANGED <<sf, app>>
      PROVE  AgreeNow'
  BY <1>0, <1>1, <1>9, AddSfAgrees
<1>10. ASSUME NEW n \in Node, NEW res \in Result, Receive(n, res)
       PROVE  AgreeNow'
  <2>1. app.clean
    BY <1>10 DEF Receive
  <2> QED
    BY <1>0, <1>1, <1>10, <2>1, ReceiveAgrees
<1>11. ASSUME NEW n \in Node, NEW p \in Node \ {n}, Transmit(n, p), UNCHANGED <<sf, app>>
       PROVE  AgreeNow'
  BY <1>0, <1>1, <1>11, TransmitAgrees
<1>12. ASSUME NEW n \in Node, NEW p \in Node \ {n}, NEW ok \in BOOLEAN, Report(n, p, ok)
       PROVE  AgreeNow'
  <2> DEFINE still == ok = Head(node[n].queue[p]).heard
  <2>1. app' = [app EXCEPT !.clean = @ /\ still]
    BY Zenon, <1>12 DEF Report
  <2> HIDE DEF still
  <2>2. app.clean
    BY <1>0, <2>1 DEF AppState
  <2> QED
    BY <1>0, <1>1, <1>12, <2>2, ReportAgrees
<1>13. ASSUME NEW n \in Node, NEW s \in Slot, Expire(n, s)
       PROVE  AgreeNow'
  <2> DEFINE still == node[n].trans[s].timer = "timeout" => ~InFlight(n, s)
  <2>1. app' = [app EXCEPT !.clean = @ /\ still]
    BY <1>13 DEF Expire
  <2> HIDE DEF still
  <2>2. app.clean
    BY <1>0, <2>1 DEF AppState
  <2> QED
    BY <1>0, <1>1, <1>13, <2>2, ExpireAgrees
<1> QED
  BY <1>3, <1>4, <1>5, <1>6, <1>7, <1>8, <1>9, <1>10, <1>11, <1>12, <1>13 DEF SfNext

(* At first nothing is on its way, and the two schedules are the same but  *)
(* for the direction of the cells.                                         *)
LEMMA AgreeInit == SfInit => AgreeInv
<1> SUFFICES ASSUME SfInit PROVE AgreeNow
  BY DEF AgreeInv, AgreeNow
<1> DEFINE c == node[Child]
           p == node[Parent]
           x == sf[Child]
           y == sf[Parent]
<1>1. c = BootState /\ p = BootState /\ rx[Child] = <<>> /\ rx[Parent] = <<>> /\ nreq = 0
  BY CommandFacts DEF SfInit, Init
<1>2. /\ c.queue[Parent] = <<>> /\ p.queue[Child] = <<>>
      /\ \A s \in Slot : c.trans[s] = FreeTrans /\ p.trans[s] = FreeTrans
  BY <1>1, CommandFacts DEF BootState
<1>3. \A s \in Slot : /\ ~Listed(c.trans[s]) /\ ~Listed(p.trans[s])
                      /\ ~Requesting(c.trans[s]) /\ c.trans[s].cb = "NONE"
  BY <1>2 DEF Listed, Requesting, FreeTrans
<1>4. Asking(c) = {}
  BY <1>3 DEF Asking
<1>5. Mirror(x.sched) = y.sched
  <2>1. /\ x.sched = {MkLink(MinimalCell, "SHARED", NoNode), MkLink(AutoTx, "TX", Parent),
                      MkLink(AutoRx, "RX", Parent)}
        /\ y.sched = {MkLink(MinimalCell, "SHARED", NoNode), MkLink(AutoTx, "RX", Child),
                      MkLink(AutoRx, "TX", Child)}
    BY CommandFacts DEF SfInit
  <2>2. /\ MirrorLink(MkLink(MinimalCell, "SHARED", NoNode)) = MkLink(MinimalCell, "SHARED", NoNode)
        /\ MirrorLink(MkLink(AutoTx, "TX", Parent)) = MkLink(AutoTx, "RX", Child)
        /\ MirrorLink(MkLink(AutoRx, "RX", Parent)) = MkLink(AutoRx, "TX", Child)
    BY CommandFacts, NodeAssumption DEF MirrorLink, MkLink, OtherWay, Other
  <2> QED
    BY <2>1, <2>2 DEF Mirror
<1> HIDE DEF c, p, x, y
<1>6. OneFrame(Asking(c), c.queue[Parent], rx[Parent], p.queue[Child], rx[Child])
  BY <1>1, <1>2 DEF OneFrame, AllHeard, NoAnswer, NoReturn
<1>7. Requests(Asking(c), c.queue[Parent], rx[Parent], x)
  BY <1>1, <1>2 DEF Requests
<1>8. Responses(c, p, p.queue[Child], rx[Child], x, y, nreq)
  BY <1>1, <1>2 DEF Responses
<1>9. Numbers(c, p, nreq)
  BY <1>3, <1>4 DEF Numbers
<1>10. Silent(c, c.queue[Parent], rx[Parent], p.queue[Child], rx[Child])
  BY <1>1, <1>2 DEF Silent
<1>11. SameCells(c, p, p.queue[Child], rx[Child], x, y)
  BY <1>1, <1>2, <1>4, <1>5 DEF SameCells, Granted
<1> QED
  BY <1>6, <1>7, <1>8, <1>9, <1>10, <1>11 DEF AgreeNow, Agree, c, p, x, y

(* When nothing is on its way, one schedule is the mirror of the other. *)
LEMMA MirrorCells ==
  ASSUME NEW s \in SUBSET Link, NEW r, Mirror(s) = r
  PROVE  /\ CellsOf(s, "TX", Parent) = CellsOf(r, "RX", Child)
         /\ CellsOf(r, "TX", Child) = CellsOf(s, "RX", Parent)
<1>1. \A l \in Link : l.opt \in {"TX", "RX", "SHARED"} /\ l.peer \in {Child, Parent, NoNode}
  BY CommandFacts DEF Link
<1>2. \A l \in Link :
        /\ MirrorLink(l).cell = l.cell
        /\ MirrorLink(l).opt = OtherWay(l.opt) /\ MirrorLink(l).peer = Other(l.peer)
  BY DEF MirrorLink, MkLink
<1>3. \A l \in Link :
        /\ OtherWay(l.opt) = "RX" <=> l.opt = "TX"
        /\ OtherWay(l.opt) = "TX" <=> l.opt = "RX"
        /\ Other(l.peer) = Child <=> l.peer = Parent
  BY <1>1, CommandFacts, NodeAssumption DEF OtherWay, Other
<1>4. \A l \in s : l \in Link /\ MirrorLink(l) \in r
  BY DEF Mirror
<1>5. \A k \in r : \E l \in s : k = MirrorLink(l)
  BY DEF Mirror
<1>6. CellsOf(s, "TX", Parent) = CellsOf(r, "RX", Child)
  <2>1. \A l \in s : l.opt = "TX" /\ l.peer = Parent =>
          LET k == MirrorLink(l) IN k \in r /\ k.opt = "RX" /\ k.peer = Child /\ k.cell = l.cell
    BY <1>2, <1>3, <1>4
  <2>2. \A k \in r : k.opt = "RX" /\ k.peer = Child =>
          \E l \in s : l.opt = "TX" /\ l.peer = Parent /\ k.cell = l.cell
    BY <1>2, <1>3, <1>4, <1>5
  <2> QED
    BY <2>1, <2>2 DEF CellsOf
<1>7. CellsOf(r, "TX", Child) = CellsOf(s, "RX", Parent)
  <2>1. \A l \in s : l.opt = "RX" /\ l.peer = Parent =>
          LET k == MirrorLink(l) IN k \in r /\ k.opt = "TX" /\ k.peer = Child /\ k.cell = l.cell
    BY <1>2, <1>3, <1>4
  <2>2. \A k \in r : k.opt = "TX" /\ k.peer = Child =>
          \E l \in s : l.opt = "RX" /\ l.peer = Parent /\ k.cell = l.cell
    BY <1>2, <1>3, <1>4, <1>5
  <2> QED
    BY <2>1, <2>2 DEF CellsOf
<1> QED
  BY <1>6, <1>7

LEMMA AgreeEnough == SfInv /\ MinInv /\ AgreeInv => SchedulesAgree
<1> SUFFICES ASSUME SfInv, MinInv, AgreeInv, Quiet, app.clean
             PROVE  /\ CellsOf(sf[Child].sched, "TX", Parent) = CellsOf(sf[Parent].sched, "RX", Child)
                    /\ CellsOf(sf[Parent].sched, "TX", Child) = CellsOf(sf[Child].sched, "RX", Parent)
  BY DEF SchedulesAgree
<1>1. SameCells(node[Child], node[Parent], node[Parent].queue[Child], rx[Child],
                sf[Child], sf[Parent])
  BY DEF AgreeInv, Agree
<1>2. node[Parent].queue[Child] = <<>> /\ rx[Child] = <<>>
  BY CommandFacts DEF Quiet
<1>3. Mirror(sf[Child].sched) = sf[Parent].sched
  BY <1>1, <1>2 DEF SameCells, Granted
<1>4. sf[Child].sched \in SUBSET Link
  BY PairHolds, CommandFacts DEF PairInv, SfState
<1> QED
  BY <1>3, <1>4, MirrorCells

(* Child and parent agree on their cells: whenever nothing of 6P is under  *)
(* way, and unless an acknowledgement was lost or a timeout overtook a     *)
(* frame, the child transmits in exactly the cells in which its parent     *)
(* listens, and the other way round.  add_links_to_schedule() on one side  *)
(* and the response-sent callbacks on the other make the same change, for  *)
(* every order of receptions, reports, timers and flushes.                 *)
THEOREM SfSchedulesAgree == SfSpec => []SchedulesAgree
BY SfInvInit, SfStep, MinInit, MinStep, AgreeInit, AgreeStep, AgreeEnough, PTL DEF SfSpec

-----------------------------------------------------------------------------
(***************************************************************************)
(* What responses do to the child's cells, also when acknowledgements were *)
(* lost and timers overtook frames.  Whatever belongs to the transaction   *)
(* that the child waits in names cells that still are what they were when  *)
(* the request was made: the schedule changes only at the end of one.      *)
(***************************************************************************)
SentIn(q) == {q[i] : i \in 1..Len(q)}
HeardIn(r) == {r[i].pkt : i \in 1..Len(r)}
Upward(c, rp) == SentIn(c.queue[Parent]) \cup HeardIn(rp)
Downward(p, rc) == SentIn(p.queue[Child]) \cup HeardIn(rc)

(* The cells that a request of the child may name, and those that the      *)
(* response to it may: those of A may be in timeslots that are in use      *)
(* already; it is empty unless something was lost.                         *)
Offers(x, cmd, cells) ==
  IF cmd = "DELETE" THEN cells \subseteq CellsOf(x.sched, "TX", Parent)
                    ELSE \A e \in cells : e[1] # AutoRx[1]

Grants(x, A, cmd, cells) ==
  IF cmd = "DELETE"
  THEN cells = {} \/ \E e \in CellsOf(x.sched, "TX", Parent) : cells = {e}
  ELSE \E e \in UpCell :
         /\ cells = {e} /\ e[1] # AutoRx[1]
         /\ e \in A \/ FreeTimeslot(x.sched, e)

UpOK(W, x, k) ==
  /\ k.type = "REQUEST" /\ k.code \in SfCmd
  /\ \A w \in W : SameRequest(w, k) => k.code = w.cmd /\ Offers(x, w.cmd, k.body.cells)

DownOK(W, x, A, k) ==
  /\ k.type = "RESPONSE"
  /\ \A w \in W : SameRequest(w, k) /\ k.code = "SUCCESS" => Grants(x, A, w.cmd, k.body.cells)

(* Before the child has a scheduling function nothing happens. *)
Flow(c, p, rc, rp, x, A) ==
  /\ NoCallbacks(c)
  /\ c.sf \/ (Upward(c, rp) = {} /\ Downward(p, rc) = {})
  /\ \A k \in Upward(c, rp) : UpOK(Asking(c), x, k)
  /\ \A k \in Downward(p, rc) : DownOK(Asking(c), x, A, k)

(* The listening cells never change, and no cell that responses add or     *)
(* remove is in their timeslot.                                            *)
OffAutoRx(C) == \A e \in C : e[1] # AutoRx[1]

ChildCells(x, rels) ==
  /\ CellsOf(x.sched, "RX", Parent) = {AutoRx}
  /\ OffAutoRx(CellsOf(x.sched, "TX", Parent) \cup {x.reloc} \cup rels)

Contested == IF app.clean THEN {} ELSE UpCell

FlowNow(A) == Flow(node[Child], node[Parent], rx[Child], rx[Parent], sf[Child], A)

CellsInv ==
  /\ FlowNow(Contested)
  /\ ChildCells(sf[Child], app.rels)

(* The same frame, but for where it is and whether it was heard. *)
Like(k, l) ==
  /\ k.type = l.type /\ k.code = l.code /\ k.body = l.body
  /\ k.req = l.req /\ k.seqno = l.seqno

Copies(K, L) == \A k \in K : \E l \in L : Like(k, l)

LEMMA CopiesOK ==
  ASSUME NEW k, NEW l, Like(k, l), NEW W, NEW V \in SUBSET W, NEW x, NEW z,
         V = {} \/ z.sched = x.sched, NEW A, NEW B, A \subseteq B
  PROVE  /\ UpOK(W, x, l) => UpOK(V, z, k)
         /\ DownOK(W, x, A, l) => DownOK(V, z, B, k)
<1>1. CASE V = {}
  BY <1>1 DEF Like, UpOK, DownOK
<1>2. CASE z.sched = x.sched
  <2>1. \A cmd, cells : Offers(x, cmd, cells) => Offers(z, cmd, cells)
    BY <1>2 DEF Offers
  <2>2. \A cmd, cells : Grants(x, A, cmd, cells) => Grants(z, B, cmd, cells)
    BY <1>2 DEF Grants
  <2>3. \A w : SameRequest(w, k) <=> SameRequest(w, l)
    BY DEF SameRequest, Like
  <2>4. UpOK(W, x, l) => UpOK(V, z, k)
    BY <2>1, <2>3 DEF UpOK, Like
  <2>5. DownOK(W, x, A, l) => DownOK(V, z, B, k)
    BY <2>2, <2>3 DEF DownOK, Like
  <2> QED
    BY <2>4, <2>5
<1> QED
  BY <1>1, <1>2

(* A step that neither asks, nor answers, nor changes the child's schedule *)
(* while the child waits.                                                  *)
LEMMA FlowKept ==
  ASSUME NEW c, NEW p, NEW rc, NEW rp, NEW x, NEW A, Flow(c, p, rc, rp, x, A),
         NEW m, NEW n, NEW sc, NEW sp, NEW z, NEW B, A \subseteq B,
         NoCallbacks(m), c.sf => m.sf, Asking(m) \subseteq Asking(c),
         Asking(m) = {} \/ z.sched = x.sched,
         Copies(Upward(m, sp), Upward(c, rp)), Copies(Downward(n, sc), Downward(p, rc))
  PROVE  Flow(m, n, sc, sp, z, B)
<1> DEFINE W == Asking(c)
           V == Asking(m)
           U == Upward(c, rp)
           D == Downward(p, rc)
           U1 == Upward(m, sp)
           D1 == Downward(n, sc)
<1>1. /\ c.sf \/ (U = {} /\ D = {})
      /\ \A k \in U : UpOK(W, x, k)
      /\ \A k \in D : DownOK(W, x, A, k)
  BY DEF Flow
<1>2. V \in SUBSET W /\ (V = {} \/ z.sched = x.sched)
  OBVIOUS
<1>3. Copies(U1, U) /\ Copies(D1, D)
  OBVIOUS
<1> HIDE DEF W, V, U, D, U1, D1
<1>4. m.sf \/ (U1 = {} /\ D1 = {})
  BY <1>1, <1>3 DEF Copies
<1>5. ASSUME NEW k \in U1 PROVE UpOK(V, z, k)
  <2>1. PICK l \in U : Like(k, l)
    BY <1>3 DEF Copies
  <2> QED
    BY <1>1, <1>2, <2>1, CopiesOK
<1>6. ASSUME NEW k \in D1 PROVE DownOK(V, z, B, k)
  <2>1. PICK l \in D : Like(k, l)
    BY <1>3 DEF Copies
  <2> QED
    BY <1>1, <1>2, <2>1, CopiesOK
<1> QED
  BY <1>4, <1>5, <1>6 DEF Flow, V, U1, D1

LEMMA CopiesSubset ==
  ASSUME NEW K, NEW L, K \subseteq L
  PROVE  Copies(K, L)
BY DEF Copies, Like

LEMMA TailSets ==
  ASSUME NEW S, NEW q \in Seq(S), q # <<>>
  PROVE  /\ SentIn(Tail(q)) \subseteq SentIn(q) /\ HeardIn(Tail(q)) \subseteq HeardIn(q)
         /\ q[1] \in SentIn(q) /\ q[1].pkt \in HeardIn(q)
BY TailElements DEF SentIn, HeardIn

LEMMA AppendSets ==
  ASSUME NEW S, NEW q \in Seq(S), NEW e
  PROVE  /\ SentIn(Append(q, e)) = SentIn(q) \cup {e}
         /\ HeardIn(Append(q, e)) = HeardIn(q) \cup {e.pkt}
<1> DEFINE r == Append(q, e)
<1>1. /\ Len(r) = Len(q) + 1 /\ Len(q) \in Nat /\ r[Len(q) + 1] = e
      /\ \A i \in 1..Len(q) : r[i] = q[i]
  OBVIOUS
<1> HIDE DEF r
<1>2. \A i : i \in 1..Len(r) <=> i \in 1..Len(q) \/ i = Len(q) + 1
  BY <1>1
<1>3. SentIn(r) = SentIn(q) \cup {e}
  BY <1>1, <1>2 DEF SentIn
<1>4. HeardIn(r) = HeardIn(q) \cup {e.pkt}
  BY <1>1, <1>2 DEF HeardIn
<1> QED
  BY <1>3, <1>4 DEF r

(* The oldest packet is heard. *)
LEMMA HeardSets ==
  ASSUME NEW q \in Seq(Packet), q # <<>>, NEW r, r = [q EXCEPT ![1].heard = TRUE]
  PROVE  Copies(SentIn(r), SentIn(q))
<1>1. /\ Len(r) = Len(q) /\ Len(q) \in Nat \ {0} /\ 1 \in 1..Len(q) /\ q[1] \in Packet
      /\ \A i \in 1..Len(q) : i # 1 => r[i] = q[i]
  BY HeardElements
<1>2. r[1] = [q[1] EXCEPT !.heard = TRUE]
  BY <1>1
<1>3. Like(r[1], q[1])
  BY <1>1, <1>2 DEF Like, Packet
<1>4. \A i \in 1..Len(r) : Like(r[i], q[i]) /\ i \in 1..Len(q)
  BY <1>1, <1>3 DEF Like
<1> QED
  BY <1>4 DEF Copies, SentIn

(* What 6P does to its transactions leaves the queues alone. *)
SameQueue(ns, m) == m.queue = ns.queue /\ DOMAIN m = DOMAIN ns

LEMMA SameQueueSteps ==
  ASSUME NEW ns, "queue" \in DOMAIN ns
  PROVE  /\ \A s, new : SameQueue(ns, Transit(ns, s, new))
         /\ \A s : SameQueue(ns, ClearCallback(ns, s)) /\ SameQueue(ns, Free(ns, s))
         /\ \A p : SameQueue(ns, WithNbr(ns, p))
         /\ \A p, k : SameQueue(ns, Alloc(ns, p, k)) /\ SameQueue(ns, AfterClear(ns, p, k))
         /\ \A s, u : SameQueue(ns, [ns EXCEPT !.trans[s] = u])
<1>1. \A s, u : SameQueue(ns, [ns EXCEPT !.trans[s] = u])
  BY DEF SameQueue
<1>2. \A s, u, b : SameQueue(ns, [ns EXCEPT !.nbr = b, !.trans[s] = u])
  BY DEF SameQueue
<1>3. \A s, new : SameQueue(ns, Transit(ns, s, new))
  BY <1>2 DEF Transit, SameQueue
<1>4. \A s : SameQueue(ns, ClearCallback(ns, s)) /\ SameQueue(ns, Free(ns, s))
  BY <1>1 DEF ClearCallback, Free
<1>5. \A p : SameQueue(ns, WithNbr(ns, p))
  BY DEF WithNbr, SameQueue
<1>6. \A p, k : SameQueue(ns, Alloc(ns, p, k)) /\ SameQueue(ns, AfterClear(ns, p, k))
  BY <1>1 DEF Alloc, AfterClear, SameQueue
<1> QED
  BY <1>1, <1>3, <1>4, <1>5, <1>6

LEMMA SameQueueTrans ==
  ASSUME NEW ns, NEW m, NEW k, SameQueue(ns, m), SameQueue(m, k)
  PROVE  SameQueue(ns, k)
BY DEF SameQueue

LEMMA SameQueueCallback ==
  ASSUME NEW ns, "queue" \in DOMAIN ns, NEW s, NEW ok
  PROVE  SameQueue(ns, MacCallback(ns, s, ok))
<1> DEFINE new == StateAfterMac(ns.trans[s], ok)
           n == Transit(ns, s, new)
<1>1. SameQueue(ns, n) /\ "queue" \in DOMAIN n
  BY SameQueueSteps DEF SameQueue
<1>2. SameQueue(n, ClearCallback(n, s))
  <2> HIDE DEF n
  <2> QED
    BY <1>1, SameQueueSteps
<1>3. SameQueue(ns, ClearCallback(n, s))
  BY <1>1, <1>2, SameQueueTrans
<1> HIDE DEF new
<1> QED
  BY <1>3, SameQueueSteps DEF MacCallback, new

LEMMA SameQueueTimers ==
  ASSUME NEW ns, "queue" \in DOMAIN ns, NEW s
  PROVE  SameQueue(ns, ProcessTrans(ns, s)) /\ SameQueue(ns, HandleTransTimeout(ns, s))
BY SameQueueSteps DEF ProcessTrans, HandleTransTimeout

(* Whatever sixp_output() reports, the queue has the packet or is the same. *)
LEMMA OutputQueue ==
  ASSUME NEW ns, "queue" \in DOMAIN ns, NEW p \in DOMAIN ns.queue, NEW pkt, NEW res,
         NEW m, m = SixtopOutput(ns, p, pkt, res)
  PROVE  /\ m.queue = ns.queue \/ m.queue[p] = Append(ns.queue[p], pkt)
         /\ DOMAIN m = DOMAIN ns
<1>1. CASE res = "queued"
  BY <1>1 DEF SixtopOutput
<1>2. CASE res # "queued"
  BY <1>2, SameQueueCallback DEF SixtopOutput, SameQueue
<1> QED
  BY <1>1, <1>2

LEMMA ReplyQueue ==
  ASSUME NEW ns, "queue" \in DOMAIN ns, NEW p \in DOMAIN ns.queue, NEW rc, NEW body, NEW cb,
         NEW res, NEW m, m = OutputReply(ns, p, "RESPONSE", rc, body, cb, res),
         NEW t, t = ns.trans[Find(ns, p)]
  PROVE  \/ m.queue = ns.queue
         \/ m.queue[p] = Append(ns.queue[p],
                               MkPacket("RESPONSE", rc, t.seqno, body, Find(ns, p), t.req))
<1> DEFINE s == Find(ns, p)
           n1 == IF t.cmd # "CLEAR" THEN WithNbr(ns, p) ELSE ns
           u == [n1.trans[s] EXCEPT !.cb = cb]
           n2 == [n1 EXCEPT !.trans[s] = u]
           e == MkPacket("RESPONSE", rc, t.seqno, body, s, t.req)
           n3 == SixtopOutput(n2, p, e, res)
           n4 == Transit(n3, s, "RESPONSE_SENDING")
<1>1. m = ns \/ m = n3 \/ m = n4
  BY DEF OutputReply
<1> HIDE DEF e, u
<1>2. SameQueue(ns, n1)
  BY SameQueueSteps DEF SameQueue
<1> HIDE DEF n1
<1>3. SameQueue(n1, n2)
  BY <1>2, SameQueueSteps DEF SameQueue
<1> HIDE DEF n2
<1>4. SameQueue(ns, n2) /\ "queue" \in DOMAIN n2 /\ p \in DOMAIN n2.queue
  BY <1>2, <1>3 DEF SameQueue
<1>5. /\ n3.queue = n2.queue \/ n3.queue[p] = Append(n2.queue[p], e)
      /\ "queue" \in DOMAIN n3
  BY <1>4, OutputQueue
<1> HIDE DEF n3
<1>6. n4.queue = n3.queue
  BY <1>5, SameQueueSteps DEF SameQueue
<1> HIDE DEF n4
<1> QED
  BY <1>1, <1>4, <1>5, <1>6 DEF SameQueue, e, s

(* What the parent says to the request k, when o is the outcome of its     *)
(* scheduling function.                                                    *)
Says(p, m, k, o) ==
  \/ m.queue[Child] = p.queue[Child]
  \/ \E e : /\ m.queue[Child] = Append(p.queue[Child], e) /\ e.type = "RESPONSE"
            /\ e.code = "SUCCESS" =>
                 /\ Upcall(p, Child, k) /\ o.answer
                 /\ e.body = o.body /\ e.req = k.req /\ e.seqno = k.seqno

LEMMA ParentSays ==
  ASSUME NEW p, NodeInv(p), NEW f, f.src = Child, NEW k \in Packet, k = f.pkt,
         k.type = "REQUEST", k.code \in SfCmd, NEW o, NEW res,
         NEW m, m = HandleFrame(p, f, o.answer, o.body, o.cb, res)
  PROVE  Says(p, m, k, o)
<1> DEFINE n2 == Transit(Alloc(p, Child, k), AllocSlot(p), "REQUEST_RECEIVED")
<1>1. /\ "queue" \in DOMAIN p /\ Child \in DOMAIN p.queue /\ k.code \in Cmd
      /\ AfterClear(p, Child, k) = p
  BY CommandFacts DEF NodeInv, NodeState, SfCmd, AfterClear
<1>2. \A type, rc, q, b, s, r : LET e == MkPacket(type, rc, q, b, s, r)
        IN  e.type = type /\ e.code = rc /\ e.body = b /\ e.req = r /\ e.seqno = q
  BY DEF MkPacket
<1>3. SameQueue(p, n2) /\ "queue" \in DOMAIN n2
  <2>1. PICK n : n = Alloc(p, Child, k)
    OBVIOUS
  <2>2. SameQueue(p, n) /\ "queue" \in DOMAIN n
    BY <1>1, <2>1, SameQueueSteps DEF SameQueue
  <2>3. SameQueue(n, n2)
    BY <2>1, <2>2, SameQueueSteps
  <2> QED
    BY <2>2, <2>3 DEF SameQueue
<1> HIDE DEF n2
<1>4. ASSUME NEW n, SameQueue(p, n), NEW rc, rc # "SUCCESS", NEW l,
             l = OutputError(n, Child, rc, k, res)
      PROVE  Says(p, l, k, o)
  <2>1. /\ "queue" \in DOMAIN n /\ Child \in DOMAIN n.queue /\ n.queue = p.queue
    BY <1>1, <1>4 DEF SameQueue
  <2>2. PICK e : e = MkPacket("RESPONSE", rc, k.seqno, EmptyBody, NoSlot, k.req)
    OBVIOUS
  <2>3. l = SixtopOutput(n, Child, e, res)
    BY <1>4, <2>2 DEF OutputError
  <2>4. l.queue = n.queue \/ l.queue[Child] = Append(n.queue[Child], e)
    BY <2>1, <2>3, OutputQueue
  <2>5. e.type = "RESPONSE" /\ e.code # "SUCCESS"
    BY <1>2, <1>4, <2>2
  <2> QED
    BY <2>1, <2>4, <2>5 DEF Says
<1>5. ASSUME NEW n, SameQueue(p, n), NEW l, l = OutputSeqnumError(n, Child, k, res)
      PROVE  Says(p, l, k, o)
  <2>1. /\ "queue" \in DOMAIN n /\ Child \in DOMAIN n.queue /\ n.queue = p.queue
    BY <1>1, <1>5 DEF SameQueue
  <2>2. CASE l = OutputError(n, Child, "ERR_SEQNUM", k, res)
    BY <1>4, <1>5, <2>2
  <2>3. CASE l = OutputReply(n, Child, "RESPONSE", "ERR_SEQNUM", EmptyBody, "NONE", res)
    <3>1. PICK t, s : t = n.trans[Find(n, Child)] /\ s = Find(n, Child)
      OBVIOUS
    <3>2. PICK e : e = MkPacket("RESPONSE", "ERR_SEQNUM", t.seqno, EmptyBody, s, t.req)
      OBVIOUS
    <3>3. l.queue = n.queue \/ l.queue[Child] = Append(n.queue[Child], e)
      BY <2>1, <2>3, <3>1, <3>2, ReplyQueue
    <3>4. e.type = "RESPONSE" /\ e.code # "SUCCESS"
      BY <1>2, <3>2
    <3> QED
      BY <2>1, <3>3, <3>4 DEF Says
  <2> QED
    BY <1>5, <2>2, <2>3 DEF OutputSeqnumError
<1>6. SameQueue(p, p)
  BY DEF SameQueue
<1>7. PICK l : l = SixpInput(p, Child, k, res)
  OBVIOUS
<1>8. \/ l = n2 /\ Upcall(p, Child, k) /\ CanAlloc(p, Child)
      \/ ~Upcall(p, Child, k) /\ Says(p, l, k, o)
  <2>1. CASE ~p.sf
    <3>1. l = OutputError(p, Child, "ERR_SFID", k, res)
      BY <1>7, <2>1 DEF SixpInput
    <3> QED
      BY <1>4, <1>6, <2>1, <3>1 DEF Upcall
  <2>2. CASE p.sf
    <3>1. l = InputRequest(p, Child, k, res)
      BY <1>7, <2>2 DEF SixpInput
    <3>2. Upcall(p, Child, k) <=> CanAlloc(p, Child) /\ ~Inconsistent(p, Child, k)
      BY <1>1, <2>2 DEF Upcall
    <3>3. CanAlloc(p, Child) => ~HasTrans(p, Child)
      BY DEF CanAlloc
    <3>4. \/ /\ l = OutputError(p, Child, "ERR_BUSY", k, res) 
             /\ ~CanAlloc(p, Child)
          \/ l = OutputSeqnumError(p, Child, k, res) /\ ~CanAlloc(p, Child)
          \/ l = OutputSeqnumError(n2, Child, k, res) /\ Inconsistent(p, Child, k)
          \/ l = n2 /\ CanAlloc(p, Child) /\ ~Inconsistent(p, Child, k)
      BY <1>1, <3>1, <3>3 DEF InputRequest, n2
    <3> QED
      BY <1>3, <1>4, <1>5, <1>6, <3>2, <3>4
  <2> QED
    BY <2>1, <2>2
<1>9. CASE ~Upcall(p, Child, k)
  <2>1. m = l
    BY <1>7, <1>9 DEF HandleFrame
  <2> QED
    BY <1>8, <1>9, <2>1
<1>10. CASE Upcall(p, Child, k) /\ ~o.answer
  <2>1. m = l
    BY <1>7, <1>10 DEF HandleFrame
  <2> QED
    BY <1>3, <1>8, <1>10, <2>1 DEF Says, SameQueue
<1>11. CASE Upcall(p, Child, k) /\ o.answer
  <2>1. l = n2 /\ CanAlloc(p, Child)
    BY <1>8, <1>11
  <2>2. PICK s \in Slot :
           /\ n2.trans[s].req = k.req /\ n2.trans[s].seqno = k.seqno
           /\ HasTrans(n2, Child) /\ Find(n2, Child) = s
    BY <1>1, <2>1, ParentAllocs DEF n2
  <2>3. PICK t, b, cb : t = n2.trans[s] /\ b = o.body /\ cb = o.cb
    OBVIOUS
  <2>4. m = OutputReply(n2, Child, "RESPONSE", "SUCCESS", b, cb, res)
    BY <1>7, <1>11, <2>1, <2>3 DEF HandleFrame
  <2>5. PICK e : e = MkPacket("RESPONSE", "SUCCESS", t.seqno, b, s, t.req)
    OBVIOUS
  <2>6. Child \in DOMAIN n2.queue /\ n2.queue = p.queue
    BY <1>1, <1>3 DEF SameQueue
  <2>7. m.queue = n2.queue \/ m.queue[Child] = Append(n2.queue[Child], e)
    BY <1>3, <2>2, <2>3, <2>4, <2>5, <2>6, ReplyQueue
  <2>8. e.type = "RESPONSE" /\ e.body = b /\ e.req = k.req /\ e.seqno = k.seqno
    BY <1>2, <2>2, <2>3, <2>5
  <2> QED
    BY <1>11, <2>3, <2>6, <2>7, <2>8 DEF Says
<1> QED
  BY <1>9, <1>10, <1>11

(* The cells that request_input() puts into a response. *)
LEMMA RequestInputNames ==
  ASSUME NEW y, NEW k, k.code \in SfCmd, NEW o \in RequestInput(y, k), o.answer
  PROVE  LET cells == o.body.cells
         IN  \/ k.code = "DELETE" /\ cells = {}
             \/ \E e \in k.body.cells :
                  cells = {e} /\ (k.code = "DELETE" \/ FreeTimeslot(y.sched, e))
<1>1. \A s : ~NoReply(s).answer
  BY DEF NoReply
<1>2. \A cells, cb, s : Reply(cells, cb, s).body.cells = cells
  BY DEF Reply, MkBody
<1>3. CASE k.code = "ADD"
  <2>1. o \in AddReqInput(y, k.body)
    BY <1>3 DEF RequestInput
  <2>2. PICK c \in Feasible(y, k.body.cells) : o = Reply({c}, "ADD", [y EXCEPT !.res = c])
    BY <1>1, <2>1 DEF AddReqInput
  <2> QED
    BY <1>2, <2>2 DEF Feasible
<1>4. CASE k.code = "DELETE"
  <2>1. o \in DeleteReqInput(y, k.body)
    BY <1>4 DEF RequestInput
  <2>2. \/ o = Reply({}, "NONE", [y EXCEPT !.res = MinimalCell])
        \/ \E c \in k.body.cells : o = Reply({c}, "DELETE", [y EXCEPT !.res = c])
    BY <2>1 DEF DeleteReqInput
  <2>3. o.body.cells = {} \/ \E c \in k.body.cells : o.body.cells = {c}
    <3>1. CASE o = Reply({}, "NONE", [y EXCEPT !.res = MinimalCell])
      BY Zenon, <1>2, <3>1
    <3>2. ASSUME NEW c \in k.body.cells, o = Reply({c}, "DELETE", [y EXCEPT !.res = c])
          PROVE  o.body.cells = {c}
      BY Zenon, <1>2, <3>2
    <3> QED
      BY <2>2, <3>1, <3>2
  <2> QED
    BY <1>4, <2>3
<1>5. CASE k.code = "RELOCATE"
  <2>1. o \in RelocateReqInput(y, k.body)
    BY <1>5 DEF RequestInput
  <2>2. PICK c \in Feasible(y, k.body.cells) :
          o = Reply({c}, "RELOCATE", [y EXCEPT !.res = c, !.reloc = k.body.rel])
    BY <1>1, <2>1 DEF RelocateReqInput
  <2> QED
    BY <1>2, <2>2 DEF Feasible
<1> QED
  BY <1>3, <1>4, <1>5 DEF SfCmd

(* As long as nothing was lost the parent has the child's cells when it    *)
(* grants a request: what is free in its schedule is free in the child's.  *)
LEMMA FreeInBoth ==
  ASSUME NEW c, NEW p, NodeInv(p), \A s \in Slot : Listed(p.trans[s]) => p.trans[s].peer = Child,
         NEW rc, NEW rp, NEW x, NEW y, NEW nr, Agree(c, p, rc, rp, x, y, nr),
         rp # <<>>, ~HasTrans(p, Child), NEW e, FreeTimeslot(y.sched, e)
  PROVE  FreeTimeslot(x.sched, e)
<1> DEFINE a == p.queue[Child]
           W == Asking(c)
<1>1. /\ OneFrame(W, c.queue[Parent], rp, a, rc) /\ Responses(c, p, a, rc, x, y, nr)
      /\ SameCells(c, p, a, rc, x, y)
  BY DEF Agree
<1>2. NoReturn(W, rc)
  BY <1>1 DEF OneFrame
<1>3. ASSUME NEW i \in 1..Len(rc) PROVE rc[i].pkt.code # "SUCCESS"
  <2>1. Return(c, nr, rc[i].pkt) /\ ~Belongs(W, rc[i].pkt)
    BY <1>1, <1>2 DEF Responses, NoReturn
  <2> QED
    BY <2>1 DEF Return, Belongs, SameRequest
<1>4. a \in Seq(Packet)
  BY CommandFacts DEF NodeInv, NodeState
<1>5. Granted(p, a, y) = y.sched
  <2> SUFFICES ASSUME a # <<>>, a[1].ptr # NoSlot PROVE FALSE
    BY DEF Granted
  <2>1. 1 \in 1..Len(a) /\ a[1] \in Packet
    BY <1>4, TailElements
  <2>2. Holds(p, a[1]) /\ a[1].ptr \in Slot
    BY <1>1, <2>1 DEF Responses, Answer, Packet
  <2>3. Listed(p.trans[a[1].ptr])
    BY <2>2 DEF Holds, Listed
  <2> QED
    BY <2>2, <2>3 DEF HasTrans, TransWith
<1>6. Mirror(x.sched) = y.sched
  BY <1>1, <1>3, <1>5 DEF SameCells
<1>7. \A l \in x.sched : MirrorLink(l) \in y.sched /\ MirrorLink(l).cell = l.cell
  BY <1>6 DEF Mirror, MirrorLink, MkLink
<1> QED
  BY <1>7 DEF FreeTimeslot

(* The parent takes a request, and answers or not. *)
LEMMA ParentGrants ==
  ASSUME NEW c, NEW p, NodeInv(p), \A s \in Slot : Listed(p.trans[s]) => p.trans[s].peer = Child,
         NEW rc, NEW rp \in Seq(Frame), rp # <<>>, rp[1].src = Child,
         NEW x, NEW y, NEW A, Flow(c, p, rc, rp, x, A), NEW nr,
         A = UpCell \/ Agree(c, p, rc, rp, x, y, nr),
         CellsOf(x.sched, "TX", Parent) \subseteq UpCell,
         NEW o, IF Upcall(p, Child, rp[1].pkt) THEN o \in RequestInput(y, rp[1].pkt)
                                               ELSE o = NoReply(y),
         NEW res, NEW m, m = HandleFrame(p, rp[1], o.answer, o.body, o.cb, res)
  PROVE  Flow(c, m, rc, Tail(rp), x, A)
<1> DEFINE W == Asking(c)
           a == p.queue[Child]
           b == m.queue[Child]
           k == rp[1].pkt
<1>1. /\ k \in Upward(c, rp) /\ Upward(c, Tail(rp)) \subseteq Upward(c, rp)
      /\ k \in Packet
  <2>1. rp[1] \in Frame
    BY TailElements
  <2> QED
    BY <2>1, TailSets DEF Upward, Frame
<1>2. /\ UpOK(W, x, k) /\ NoCallbacks(c) /\ c.sf
      /\ \A l \in Upward(c, Tail(rp)) : UpOK(W, x, l)
      /\ \A l \in Downward(p, rc) : DownOK(W, x, A, l)
  BY <1>1 DEF Flow
<1>3. k.type = "REQUEST" /\ k.code \in SfCmd
  BY <1>2 DEF UpOK
<1>4. a \in Seq(Packet)
  BY CommandFacts DEF NodeInv, NodeState
<1>5. PICK f : f = rp[1]
  OBVIOUS
<1>6. Says(p, m, k, o)
  BY <1>1, <1>3, <1>5, ParentSays
<1>7. k.body.cells \subseteq UpCell
  BY <1>1, BodyShapeAssumption DEF Packet, UpCell
<1> HIDE DEF k, W, a, b
<1>8. ASSUME NEW e, e.type = "RESPONSE",
             e.code = "SUCCESS" =>
               /\ Upcall(p, Child, k) /\ o.answer
               /\ e.body = o.body /\ e.req = k.req /\ e.seqno = k.seqno
      PROVE  DownOK(W, x, A, e)
  <2> SUFFICES ASSUME NEW w \in W, SameRequest(w, e), e.code = "SUCCESS"
               PROVE  Grants(x, A, w.cmd, o.body.cells)
    BY <1>8 DEF DownOK
  <2>1. /\ Upcall(p, Child, k) /\ o.answer /\ o \in RequestInput(y, k)
        /\ SameRequest(w, k)
    BY <1>8 DEF SameRequest, k
  <2>2. k.code = w.cmd /\ Offers(x, w.cmd, k.body.cells)
    BY <1>2, <2>1 DEF UpOK
  <2>3. \/ k.code = "DELETE" /\ o.body.cells = {}
        \/ \E d \in k.body.cells :
             o.body.cells = {d} /\ (k.code = "DELETE" \/ FreeTimeslot(y.sched, d))
    BY <1>3, <2>1, RequestInputNames
  <2>4. CASE k.code = "DELETE"
    BY <2>2, <2>3, <2>4 DEF Grants, Offers
  <2>5. CASE k.code # "DELETE"
    <3>1. PICK d \in k.body.cells : o.body.cells = {d} /\ FreeTimeslot(y.sched, d)
      BY <2>3, <2>5
    <3>2. d \in A \/ FreeTimeslot(x.sched, d)
      <4>1. CASE A = UpCell
        BY <1>7, <4>1
      <4>2. CASE Agree(c, p, rc, rp, x, y, nr)
        <5>1. ~HasTrans(p, Child)
          <6>1. AfterClear(p, Child, k) = p
            BY <1>3 DEF AfterClear, SfCmd
          <6> QED
            BY <1>3, <2>1, <6>1 DEF Upcall, CanAlloc
        <5> QED
          BY <3>1, <4>2, <5>1, FreeInBoth
      <4> QED
        BY <4>1, <4>2
    <3>3. d[1] # AutoRx[1]
      BY <2>2, <2>5 DEF Offers
    <3> QED
      BY <1>7, <2>2, <2>5, <3>1, <3>2, <3>3 DEF Grants
  <2> QED
    BY <2>4, <2>5
<1>9. \A l \in Downward(m, rc) : DownOK(W, x, A, l)
  <2>1. CASE b = a
    BY <1>2, <2>1 DEF Downward, a, b
  <2>2. CASE b # a
    <3>1. PICK e : /\ b = Append(a, e) /\ e.type = "RESPONSE"
                   /\ e.code = "SUCCESS" =>
                        /\ Upcall(p, Child, k) /\ o.answer
                        /\ e.body = o.body /\ e.req = k.req /\ e.seqno = k.seqno
      BY <1>6, <2>2 DEF Says, a, b
    <3>2. DownOK(W, x, A, e)
      BY <1>8, <3>1
    <3>3. SentIn(b) = SentIn(a) \cup {e}
      BY <1>4, <3>1, AppendSets
    <3>4. Downward(m, rc) = Downward(p, rc) \cup {e}
      BY <3>3 DEF Downward, a, b
    <3> QED
      BY <1>2, <3>2, <3>4
  <2> QED
    BY <2>1, <2>2
<1> QED
  BY <1>2, <1>9 DEF Flow, W

(* The child's cells after a change of its schedule. *)
LEMMA AddLinkCells ==
  ASSUME NEW S, NEW e, NEW R, R = AddLink(S, MkLink(e, "TX", Parent))
  PROVE  /\ CellsOf(R, "RX", Parent) = {d \in CellsOf(S, "RX", Parent) : d[1] # e[1]}
         /\ CellsOf(R, "TX", Parent) = {d \in CellsOf(S, "TX", Parent) : d[1] # e[1]} \cup {e}
         /\ FreeTimeslot(S, e) => \A opt : \A d \in CellsOf(S, opt, Parent) : d[1] # e[1]
<1>1. R = {l \in S : l.cell[1] # e[1]} \cup {MkLink(e, "TX", Parent)}
  BY DEF AddLink, MkLink
<1>2. LET l == MkLink(e, "TX", Parent) IN l.cell = e /\ l.opt = "TX" /\ l.peer = Parent
  BY DEF MkLink
<1>3. CellsOf(R, "RX", Parent) = {d \in CellsOf(S, "RX", Parent) : d[1] # e[1]}
  BY <1>1, <1>2 DEF CellsOf
<1>4. CellsOf(R, "TX", Parent) = {d \in CellsOf(S, "TX", Parent) : d[1] # e[1]} \cup {e}
  BY <1>1, <1>2 DEF CellsOf
<1>5. FreeTimeslot(S, e) => \A opt : \A d \in CellsOf(S, opt, Parent) : d[1] # e[1]
  BY DEF FreeTimeslot, CellsOf
<1> QED
  BY <1>3, <1>4, <1>5

LEMMA RemoveLinkCells ==
  ASSUME NEW S, NEW D
  PROVE  /\ \A opt : CellsOf(RemoveLinks(S, D), opt, Parent) = CellsOf(S, opt, Parent) \ D
         /\ \A c : RemoveLink(S, c) = RemoveLinks(S, {c})
<1>1. ASSUME NEW opt PROVE CellsOf(RemoveLinks(S, D), opt, Parent) = CellsOf(S, opt, Parent) \ D
  BY DEF CellsOf, RemoveLinks
<1>2. \A c : RemoveLink(S, c) = RemoveLinks(S, {c})
  BY DEF RemoveLink, RemoveLinks
<1> QED
  BY <1>1, <1>2

(* What CellsAddUp says of the schedules before and after a response.      *)
AddUp(x, z, cmd, granted, clean) ==
  LET old == CellsOf(x.sched, "TX", Parent)
      new == CellsOf(z.sched, "TX", Parent)
      replaced == {c \in old : \E g \in granted : c[1] = g[1]}
  IN  /\ CellsOf(z.sched, "RX", Parent) = CellsOf(x.sched, "RX", Parent)
      /\ CASE cmd = "ADD" ->
                /\ clean => replaced = {}
                /\ Cardinality(new) = Cardinality(old \ replaced) + 1
           [] cmd = "RELOCATE" ->
                /\ x.reloc \in UpCell
                /\ clean => replaced = {} /\ granted # {x.reloc}
                /\ Cardinality(new) = Cardinality((old \ replaced) \ {x.reloc})
                                      + IF granted = {x.reloc} THEN 0 ELSE 1
           [] cmd = "DELETE" -> Cardinality(new) = Cardinality(old) - 1
           [] OTHER -> FALSE

LEMMA CardinalityFacts ==
  ASSUME NEW C \in SUBSET UpCell, NEW e
  PROVE  /\ e \notin C => Cardinality(C \cup {e}) = Cardinality(C) + 1
         /\ e \in C => Cardinality(C \ {e}) = Cardinality(C) - 1
         /\ Cardinality(C) \in Nat
<1>1. IsFiniteSet(C) /\ IsFiniteSet(C \cup {e})
  <2>1. IsFiniteSet(UpCell)
    BY CellAssumption, FS_AddElement DEF UpCell
  <2> QED
    BY <2>1, FS_Subset, FS_AddElement
<1> QED
  BY <1>1, FS_AddElement, FS_RemoveElement, FS_CardinalityType

LEMMA ResponseAddsUp ==
  ASSUME NEW x \in SfState, NEW rels, ChildCells(x, rels),
         CellsOf(x.sched, "TX", Parent) \subseteq UpCell,
         NEW A, A \subseteq UpCell, NEW cmd, NEW k,
         k.code = "SUCCESS" => Grants(x, A, cmd, k.body.cells),
         cmd = "RELOCATE" => x.reloc \in UpCell,
         NEW z, z = ResponseInput(x, cmd, k, Parent)
  PROVE  ChildCells(z, rels) /\ (z.sched # x.sched => AddUp(x, z, cmd, k.body.cells, A = {}))
<1> DEFINE S == x.sched
           T == CellsOf(S, "TX", Parent)
           cells == k.body.cells
           added == AddLinks(S, cells, "TX", Parent)
<1>1. /\ CellsOf(S, "RX", Parent) = {AutoRx} /\ OffAutoRx(T)
      /\ x.reloc[1] # AutoRx[1] /\ OffAutoRx(rels)
  BY DEF ChildCells, OffAutoRx
<1>2. ASSUME NEW R, z = [x EXCEPT !.sched = R],
             CellsOf(R, "RX", Parent) = {AutoRx}, OffAutoRx(CellsOf(R, "TX", Parent))
      PROVE  z.sched = R /\ ChildCells(z, rels)
  <2>1. z.sched = R /\ z.reloc = x.reloc
    BY <1>2 DEF SfState
  <2> QED
    BY <1>1, <1>2, <2>1 DEF ChildCells, OffAutoRx
<1>3. CASE k.code # "SUCCESS" \/ cmd \notin SfCmd
  BY <1>3 DEF ResponseInput, SfCmd
<1>4. CASE k.code = "SUCCESS" /\ cmd = "DELETE"
  <2> DEFINE R == RemoveLinks(S, cells)
  <2>1. z = [x EXCEPT !.sched = R]
    BY <1>4 DEF ResponseInput
  <2>2. CellsOf(R, "TX", Parent) = T \ cells /\ CellsOf(R, "RX", Parent) = {AutoRx} \ cells
    BY <1>1, RemoveLinkCells
  <2>3. cells = {} \/ \E e \in T : cells = {e}
    BY <1>4 DEF Grants
  <2>4. cells = {} => R = S
    BY DEF RemoveLinks
  <2> HIDE DEF R, S, T, cells
  <2>5. AutoRx \notin cells
    BY <1>1, <2>3 DEF OffAutoRx
  <2>6. z.sched = R /\ ChildCells(z, rels)
    BY <1>1, <1>2, <2>1, <2>2, <2>5 DEF OffAutoRx
  <2>7. ASSUME R # S PROVE Cardinality(T \ cells) = Cardinality(T) - 1
    <3>1. PICK e \in T : cells = {e}
      BY <2>3, <2>4, <2>7
    <3> QED
      BY <3>1, CardinalityFacts DEF T, S
  <2> QED
    BY <1>1, <1>4, <2>2, <2>5, <2>6, <2>7 DEF AddUp, S, T
<1>5. CASE k.code = "SUCCESS" /\ cmd \in {"ADD", "RELOCATE"}
  <2>1. PICK e \in UpCell :
          cells = {e} /\ AutoRx[1] # e[1] /\ (A = {} => FreeTimeslot(S, e))
    BY <1>5 DEF Grants
  <2>2. added = AddLink(S, MkLink(e, "TX", Parent))
    BY <2>1 DEF AddLinks
  <2> DEFINE replaced == {c \in T : \E g \in cells : c[1] = g[1]}
             kept == T \ replaced
  <2>3. kept = {d \in T : d[1] # e[1]} /\ e \notin kept /\ kept \in SUBSET UpCell
    BY <2>1
  <2> HIDE DEF added, S
  <2>4. /\ CellsOf(added, "RX", Parent) = {AutoRx}
        /\ CellsOf(added, "TX", Parent) = kept \cup {e}
        /\ FreeTimeslot(S, e) => \A d \in T : d[1] # e[1]
    BY <1>1, <2>1, <2>2, <2>3, AddLinkCells
  <2>5. A = {} => replaced = {}
    BY <2>1, <2>4
  <2>6. OffAutoRx(CellsOf(added, "TX", Parent))
    BY <1>1, <2>1, <2>3, <2>4 DEF OffAutoRx
  <2>7. CASE cmd = "ADD"
    <3>1. z = [x EXCEPT !.sched = added]
      BY <1>5, <2>7 DEF ResponseInput, added, S
    <3> HIDE DEF T, replaced, kept
    <3>2. z.sched = added /\ ChildCells(z, rels)
      BY <1>2, <2>4, <2>6, <3>1
    <3>3. Cardinality(CellsOf(added, "TX", Parent)) = Cardinality(kept) + 1
      BY <2>3, <2>4, CardinalityFacts
    <3> QED
      BY <1>1, <2>4, <2>5, <2>7, <3>2, <3>3 DEF AddUp, S, T, kept, replaced
  <2>8. CASE cmd = "RELOCATE"
    <3> DEFINE R == RemoveLink(added, x.reloc)
    <3>1. z = [x EXCEPT !.sched = R]
      BY <1>5, <2>8 DEF ResponseInput, added, S
    <3> HIDE DEF T, replaced, kept
    <3>2. /\ CellsOf(R, "RX", Parent) = {AutoRx} \ {x.reloc}
          /\ CellsOf(R, "TX", Parent) = CellsOf(added, "TX", Parent) \ {x.reloc}
      <4>1. R = RemoveLinks(added, {x.reloc})
        BY RemoveLinkCells
      <4>2. \A opt : CellsOf(RemoveLinks(added, {x.reloc}), opt, Parent)
                       = CellsOf(added, opt, Parent) \ {x.reloc}
        BY RemoveLinkCells
      <4> HIDE DEF R
      <4> QED
        BY <2>4, <4>1, <4>2
    <3>3. CellsOf(R, "RX", Parent) = {AutoRx}
      BY <1>1, <3>2
    <3>4. z.sched = R /\ ChildCells(z, rels)
      <4>1. OffAutoRx(CellsOf(R, "TX", Parent))
        BY <2>6, <3>2 DEF OffAutoRx
      <4> HIDE DEF R
      <4> QED
        BY <1>2, <3>1, <3>3, <4>1
    <3>5. A = {} /\ R # S => cells # {x.reloc}
      <4> SUFFICES ASSUME A = {}, e = x.reloc PROVE R = S
        BY <2>1
      <4>1. FreeTimeslot(S, e)
        BY <2>1
      <4>2. added = S \cup {MkLink(e, "TX", Parent)} /\ \A l \in S : l.cell # e
        BY <2>2, <4>1 DEF AddLink, FreeTimeslot, MkLink
      <4> QED
        BY <4>2 DEF RemoveLink, MkLink
    <3>6. Cardinality(CellsOf(R, "TX", Parent))
            = Cardinality(kept \ {x.reloc}) + IF cells = {x.reloc} THEN 0 ELSE 1
      <4>1. kept \ {x.reloc} \in SUBSET UpCell /\ e \notin kept \ {x.reloc}
        BY <2>3
      <4>2. CASE e = x.reloc
        <5>1. CellsOf(R, "TX", Parent) = kept \ {x.reloc}
          BY <2>4, <3>2, <4>2
        <5>2. Cardinality(kept \ {x.reloc}) \in Nat
          BY <4>1, CardinalityFacts
        <5> QED
          BY <2>1, <4>2, <5>1, <5>2
      <4>3. CASE e # x.reloc
        <5>1. CellsOf(R, "TX", Parent) = (kept \ {x.reloc}) \cup {e}
          BY <2>4, <3>2, <4>3
        <5>2. Cardinality((kept \ {x.reloc}) \cup {e}) = Cardinality(kept \ {x.reloc}) + 1
          BY <4>1, CardinalityFacts
        <5>3. cells # {x.reloc}
          BY <2>1, <4>3
        <5> QED
          BY <5>1, <5>2, <5>3
      <4> QED
        BY <4>2, <4>3
    <3> HIDE DEF R
    <3> QED
      BY <1>1, <2>5, <2>8, <3>3, <3>4, <3>5, <3>6 DEF AddUp, S, T, kept, replaced
  <2> QED
    BY <1>5, <2>7, <2>8
<1> QED
  BY <1>3, <1>4, <1>5 DEF SfCmd

(* What sixp_input() and response_input() make of the response k, if it is *)
(* one to the transaction r, and that it is the answer to its request.     *)
Handled(c, x, r, k, m, z) ==
  /\ IF Accepts(c, Parent, k)
       THEN /\ m = Transit(c, r, "RESPONSE_RECEIVED")
            /\ z = ResponseInput(x, c.trans[r].cmd, k, Parent)
       ELSE m = c /\ z = x
  /\ \A s \in Slot : m.trans[s].state = "RESPONSE_RECEIVED" /\ Requesting(c.trans[s])
                        => k.req = c.trans[s].req

(* The child takes a response, or drops it: r is the transaction it is in  *)
(* with the parent, if any.  What it takes answers the request of r and so *)
(* names a cell that this request was about.                               *)
LEMMA ChildTakesGrant ==
  ASSUME NEW c, NodeInv(c), \A s \in Slot : Listed(c.trans[s]) => c.trans[s].peer = Parent,
         NEW p, NEW rc \in Seq(Frame), rc # <<>>, NEW rp,
         NEW x \in SfState, CellsOf(x.sched, "TX", Parent) \subseteq UpCell,
         \A s \in Slot : Backed(c.trans[s], x),
         NEW A, A \subseteq UpCell, Flow(c, p, rc, rp, x, A),
         NEW rels, ChildCells(x, rels),
         NEW r, r = Find(c, Parent), NEW m, NEW z,
         Handled(c, x, r, rc[1].pkt, m, z)
  PROVE  /\ Flow(m, p, Tail(rc), rp, z, A) /\ ChildCells(z, rels)
         /\ z.sched # x.sched =>
              AddUp(x, z, c.trans[r].cmd, rc[1].pkt.body.cells, A = {})
<1> DEFINE k == rc[1].pkt
           t == c.trans[r]
           sc == Tail(rc)
<1>1. /\ k \in Downward(p, rc) /\ Copies(Downward(p, sc), Downward(p, rc))
  BY TailSets, CopiesSubset DEF Downward
<1>2. /\ NoCallbacks(c) /\ c.sf /\ DownOK(Asking(c), x, A, k)
  BY <1>1 DEF Flow
<1>3. c \in NodeState /\ k.type = "RESPONSE"
  BY <1>2 DEF NodeInv, DownOK
<1>4. Copies(Upward(c, rp), Upward(c, rp)) /\ A \subseteq A
  BY CopiesSubset
<1>5. CASE ~Accepts(c, Parent, k)
  <2>1. m = c /\ z = x /\ Asking(c) \subseteq Asking(c)
    BY <1>5 DEF Handled
  <2> HIDE DEF k, t, sc
  <2>2. Flow(c, p, sc, rp, x, A)
    BY <1>1, <1>2, <1>4, FlowKept
  <2> QED
    BY <2>1, <2>2 DEF sc
<1>6. CASE Accepts(c, Parent, k)
  <2>1. /\ r \in Slot /\ Listed(t) /\ t.peer = Parent /\ t.seqno = k.seqno
        /\ Allowed(t, "RESPONSE_RECEIVED")
    BY <1>3, <1>6, FindTrans DEF Accepts, StateOnReply
  <2>2. Requesting(t) /\ \A s \in Slot : Listed(c.trans[s]) => s = r
    BY <2>1 DEF Allowed, Requesting, NodeInv, OneTransPerPeerAt
  <2>3. m = Transit(c, r, "RESPONSE_RECEIVED") /\ z = ResponseInput(x, t.cmd, k, Parent)
    BY <1>6 DEF Handled
  <2>4. Moves(c, m, r, "RESPONSE_RECEIVED")
    BY <1>3, <2>1, <2>3, TransitEffect DEF TransState
  <2>5. m.trans[r].state = "RESPONSE_RECEIVED"
    <3>1. t \in Trans
      BY <1>3, <2>1 DEF NodeState
    <3> QED
      BY <2>4, <3>1 DEF Moves, Trans
  <2>6. k.req = t.req
    BY <2>1, <2>2, <2>5 DEF Handled
  <2>7. Ask(t) \in Asking(c) /\ SameRequest(Ask(t), k) /\ Ask(t).cmd = t.cmd
    BY <2>1, <2>2, <2>6 DEF Asking, SameRequest, Ask
  <2>8. k.code = "SUCCESS" => Grants(x, A, t.cmd, k.body.cells)
    BY <1>2, <2>7 DEF DownOK
  <2>9. t.cmd = "RELOCATE" => x.reloc \in UpCell
    BY <2>1, <2>2 DEF Backed
  <2> HIDE DEF k, t, sc
  <2>10. ChildCells(z, rels) /\ (z.sched # x.sched => AddUp(x, z, t.cmd, k.body.cells, A = {}))
    BY <2>3, <2>8, <2>9, ResponseAddsUp DEF k
  <2>11. Asking(m) = {}
    <3>1. \A s \in Slot : ~Requesting(m.trans[s])
      BY <2>2, <2>4, <2>5 DEF Moves, Listed, Requesting
    <3> QED
      BY <3>1 DEF Asking
  <2>12. NoCallbacks(m) /\ m.sf = c.sf /\ m.queue = c.queue
    <3>1. "RESPONSE_RECEIVED" \in TransState \ {"REQUEST_SENDING"}
      BY DEF TransState
    <3>2. Calms(c, m) /\ m.queue = c.queue
      BY <1>2, <1>3, <2>1, <2>3, <3>1, ChildMoves DEF t
    <3> QED
      BY <3>2 DEF Calms, Calm, NoCallbacks
  <2>13. Upward(m, rp) = Upward(c, rp)
    BY <2>12 DEF Upward
  <2>14. Flow(m, p, sc, rp, z, A)
    BY <1>1, <1>4, <2>11, <2>12, <2>13, FlowKept
  <2> QED
    BY <2>10, <2>14 DEF t, sc, k
<1> QED
  BY <1>5, <1>6

LEMMA FlushCalms ==
  ASSUME NEW c \in NodeState, NoCallbacks(c), NEW mode \in FlushMode,
         NEW m, m = Flush(c, Parent, mode)
  PROVE  Calms(c, m) /\ SentIn(m.queue[Parent]) \subseteq SentIn(c.queue[Parent])
<1> DEFINE q == c.queue[Parent]
           keep == KeptHead(q, mode)
           ptrs == {q[i].ptr : i \in (IF keep THEN 2 ELSE 1)..Len(q)}
           rest == IF keep THEN <<Head(q)>> ELSE <<>>
           tr == [s \in Slot |-> IF s \in ptrs THEN FlushedTrans(c.trans[s]) ELSE c.trans[s]]
<1>1. q \in Seq(Packet) /\ Parent \in Node /\ c.trans \in [Slot -> Trans]
  BY CommandFacts DEF NodeState
<1>2. \A s \in Slot : Calm(c.trans[s], FlushedTrans(c.trans[s])) /\ Calm(c.trans[s], c.trans[s])
  <2> SUFFICES ASSUME NEW s \in Slot
               PROVE  /\ Calm(c.trans[s], FlushedTrans(c.trans[s]))
                      /\ Calm(c.trans[s], c.trans[s])
    OBVIOUS
  <2> DEFINE t == c.trans[s]
             u == [t EXCEPT !.state = "TERMINATING", !.timer = "process", !.cb = "NONE"]
  <2>1. t \in Trans /\ t.cb = "NONE"
    BY <1>1 DEF NoCallbacks
  <2>2. Calm(t, FreeTrans) /\ Calm(t, t) /\ [t EXCEPT !.cb = "NONE"] = t
    BY <2>1, CalmFree
  <2>3. t.state = "REQUEST_SENDING" => Calm(t, u)
    <3>1. /\ u.state = "TERMINATING" /\ u.cb = "NONE" /\ u.seqno = t.seqno
          /\ u.req = t.req /\ u.cmd = t.cmd
      BY <2>1 DEF Trans
    <3> HIDE DEF u
    <3> QED
      BY <3>1, CalmMove DEF Listed, Requesting
  <2> QED
    BY <2>2, <2>3 DEF FlushedTrans
<1>3. CASE mode = "none"
  <2>1. m = c
    BY <1>3 DEF Flush
  <2> QED
    BY <1>2, <2>1 DEF Calms
<1>4. CASE mode # "none"
  <2>1. m = [c EXCEPT !.queue[Parent] = rest, !.trans = tr]
    BY <1>4 DEF Flush
  <2>2. SentIn(rest) \subseteq SentIn(q)
    <3>1. CASE keep
      <4>1. q # <<>>
        BY <3>1 DEF KeptHead
      <4>2. q[1] \in SentIn(q)
        BY <1>1, <4>1, TailSets
      <4>3. rest = <<q[1]>>
        BY <1>1, <3>1, <4>1
      <4>4. SentIn(<<q[1]>>) = {q[1]}
        BY DEF SentIn
      <4> QED
        BY <4>2, <4>3, <4>4
    <3>2. CASE ~keep
      BY <3>2 DEF SentIn
    <3> QED
      BY <3>1, <3>2
  <2> HIDE DEF rest, ptrs
  <2>3. /\ m.trans = tr /\ m.nbr = c.nbr /\ m.sf = c.sf /\ m.queue[Parent] = rest
    BY <1>1, <2>1 DEF NodeState
  <2> QED
    BY <1>2, <2>2, <2>3 DEF Calms
<1> QED
  BY <1>3, <1>4

(* The child empties its queue, if it does, and hands a request to 6P: no  *)
(* frame on its way has the new transaction's number.                      *)
LEMMA ChildOffers ==
  ASSUME NEW c, NodeInv(c), \A s \in Slot : Listed(c.trans[s]) => c.trans[s].peer = Parent,
         NEW p, NEW rc, NEW rp, NEW x, NEW A, Flow(c, p, rc, rp, x, A),
         NEW mode \in FlushMode, NEW cmd \in SfCmd, NEW body \in Body,
         Offers(x, cmd, body.cells), NEW req \in Nat,
         \A k \in Upward(c, rp) \cup Downward(p, rc) : k.seqno # NextTo(c, Parent),
         NEW res, NEW m,
         m = OutputRequest(Flush(c, Parent, mode), Parent, cmd, body, "NONE", req, res),
         NEW z, z.sched = x.sched
  PROVE  Flow(m, p, rc, rp, z, A)
<1>1. PICK d : d = Flush(c, Parent, mode)
  OBVIOUS
<1>2. /\ Parent \in Node /\ c \in NodeState /\ NoCallbacks(c)
      /\ \A s \in Slot : c.trans[s].cb = "NONE"
  BY CommandFacts DEF NodeInv, Flow, NoCallbacks
<1>3. NodeInv(d) /\ d \in NodeState /\ d.queue[Parent] \in Seq(Packet)
  <2>1. NodeInv(d)
    BY <1>1, <1>2, FlushInv
  <2> QED
    BY <1>2, <2>1 DEF NodeInv, NodeState
<1>4. Calms(c, d) /\ SentIn(d.queue[Parent]) \subseteq SentIn(c.queue[Parent])
  BY <1>1, <1>2, FlushCalms
<1>5. NextTo(d, Parent) = NextTo(c, Parent)
  <2>1. d.nbr = c.nbr
    BY <1>1, <1>2, FlushDerives
  <2> QED
    BY <2>1 DEF NextTo
<1>6. NoCallbacks(d) /\ \A s \in Slot : d.trans[s].cb = "NONE"
  BY <1>4 DEF Calms, Calm, NoCallbacks
<1>7. /\ Copies(Upward(d, rp), Upward(c, rp)) /\ Copies(Downward(p, rc), Downward(p, rc))
      /\ Upward(d, rp) \subseteq Upward(c, rp) /\ A \subseteq A
  BY <1>4, CopiesSubset DEF Upward
<1>8. Flow(d, p, rc, rp, z, A)
  <2>1. Asking(d) \subseteq Asking(c) /\ (c.sf => d.sf)
    BY <1>4, CalmsFacts DEF Calms
  <2> QED
    BY <1>6, <1>7, <2>1, FlowKept
<1>9. (Calms(d, m) /\ m.queue = d.queue) \/ Starts(d, m, cmd, body, req)
  BY <1>1, <1>3, <1>6, RequestOutput
<1>10. CASE Calms(d, m) /\ m.queue = d.queue
  <2>1. /\ Asking(m) \subseteq Asking(d) /\ (d.sf => m.sf) /\ NoCallbacks(m)
    BY <1>10, CalmsFacts DEF Calms, Calm, NoCallbacks
  <2>2. /\ Copies(Upward(m, rp), Upward(d, rp)) /\ Copies(Downward(p, rc), Downward(p, rc))
        /\ z.sched = z.sched /\ A \subseteq A
    BY <1>10, CopiesSubset DEF Upward
  <2> QED
    BY <1>8, <2>1, <2>2, FlowKept
<1>11. CASE Starts(d, m, cmd, body, req)
  <2>1. ~HasTrans(d, Parent) /\ d.sf /\ m.sf = d.sf
    BY <1>11 DEF Starts
  <2>2. PICK s \in Slot :
          /\ \A r \in Slot \ {s} : m.trans[r] = d.trans[r]
          /\ Requesting(m.trans[s]) /\ m.trans[s].cmd = cmd /\ m.trans[s].cb = "NONE"
          /\ \/ m.queue[Parent] = d.queue[Parent]
             \/ \E k \in Packet :
                  /\ m.queue[Parent] = Append(d.queue[Parent], k)
                  /\ k.type = "REQUEST" /\ k.code = cmd /\ k.body = body
    BY <1>11 DEF Starts
  <2> DEFINE w == Ask(m.trans[s])
  <2>3. \A r \in Slot : ~Listed(d.trans[r])
    <3>1. AllBecome(c, d, Parent, "NONE", "NONE")
      BY <1>1, <1>2, FlushBecomes
    <3>2. \A r \in Slot : Listed(d.trans[r]) => d.trans[r].peer = Parent
      BY <3>1 DEF AllBecome, Becomes
    <3> QED
      BY <2>1, <3>2 DEF HasTrans, TransWith
  <2>4. Asking(m) = {w}
    BY <2>2, <2>3 DEF Asking, Requesting, Listed
  <2>5. NoCallbacks(m)
    BY <1>6, <2>2 DEF NoCallbacks
  <2>6. m.trans[s].seqno = NextTo(c, Parent)
    <3>1. /\ cmd \in Cmd /\ cmd # "CLEAR" /\ "NONE" \in Cmd \cup {"NONE"}
      BY DEF SfCmd, Cmd
    <3>2. Derives(d, m, Parent, {}, {}) \/ Fresh(d, m, Parent, req)
      BY <1>1, <1>2, <1>3, <3>1, OutputRequestDerives
    <3>3. PICK L : /\ FromBlock(d.trans[s], m.trans[s], Parent, L)
                   /\ L \subseteq {<<NextTo(d, Parent), req>>}
      BY <3>2 DEF Derives, Fresh
    <3>4. Pair(m.trans[s]) = <<NextTo(d, Parent), req>>
      BY <2>2, <2>3, <3>3 DEF FromBlock, Listed, Requesting
    <3> QED
      BY <1>5, <3>4 DEF Pair
  <2>7. \A k \in Upward(d, rp) \cup Downward(p, rc) : ~SameRequest(w, k)
    <3>1. w.seqno = NextTo(c, Parent)
      BY <2>6 DEF Ask
    <3> QED
      BY <1>7, <3>1 DEF SameRequest
  <2>8. w.cmd = cmd
    BY <2>2 DEF Ask
  <2> HIDE DEF w
  <2>9. \A k \in Upward(d, rp) : UpOK({w}, z, k)
    BY <1>8, <2>7 DEF UpOK, Flow
  <2>10. \A k \in Downward(p, rc) : DownOK({w}, z, A, k)
    BY <1>8, <2>7 DEF DownOK, Flow
  <2>11. \A k \in Upward(m, rp) : UpOK({w}, z, k)
    <3>1. CASE m.queue[Parent] = d.queue[Parent]
      BY <2>9, <3>1 DEF Upward
    <3>2. CASE m.queue[Parent] # d.queue[Parent]
      <4>1. PICK e : /\ m.queue[Parent] = Append(d.queue[Parent], e)
                     /\ e.type = "REQUEST" /\ e.code = cmd /\ e.body = body
        BY <2>2, <3>2
      <4>2. Upward(m, rp) = Upward(d, rp) \cup {e}
        <5>1. SentIn(Append(d.queue[Parent], e)) = SentIn(d.queue[Parent]) \cup {e}
          BY <1>3, AppendSets
        <5> QED
          BY <4>1, <5>1 DEF Upward
      <4>3. Offers(z, cmd, body.cells)
        BY DEF Offers
      <4>4. UpOK({w}, z, e)
        BY <2>8, <4>1, <4>3 DEF UpOK
      <4> QED
        BY <2>9, <4>2, <4>4
    <3> QED
      BY <3>1, <3>2
  <2> QED
    BY <2>1, <2>4, <2>5, <2>10, <2>11 DEF Flow
<1> QED
  BY <1>9, <1>10, <1>11

LEMMA FlowMore ==
  ASSUME NEW c, NEW p, NEW rc, NEW rp, NEW x, NEW A, Flow(c, p, rc, rp, x, A),
         NEW B, A \subseteq B
  PROVE  Flow(c, p, rc, rp, x, B)
<1>1. /\ Copies(Upward(c, rp), Upward(c, rp)) /\ Copies(Downward(p, rc), Downward(p, rc))
      /\ NoCallbacks(c) /\ Asking(c) \subseteq Asking(c) /\ (c.sf => c.sf)
      /\ (Asking(c) = {} \/ x.sched = x.sched)
  BY CopiesSubset DEF Flow
<1> QED
  BY <1>1, FlowKept

(* The child's 6P state changes from c to m, without a new request or a    *)
(* new frame.                                                              *)
LEMMA CalmFlow ==
  ASSUME NEW c, NEW p, NEW rc, NEW rp, NEW x, NEW A, Flow(c, p, rc, rp, x, A),
         NEW m, Calms(c, m), SentIn(m.queue[Parent]) \subseteq SentIn(c.queue[Parent])
  PROVE  Flow(m, p, rc, rp, x, A)
<1>1. /\ Asking(m) \subseteq Asking(c) /\ (c.sf => m.sf) /\ NoCallbacks(m)
      /\ (Asking(m) = {} \/ x.sched = x.sched) /\ A \subseteq A
  BY CalmsFacts DEF Calms, Calm, NoCallbacks
<1>2. /\ Copies(Upward(m, rp), Upward(c, rp)) /\ Copies(Downward(p, rc), Downward(p, rc))
  BY CopiesSubset DEF Upward
<1> QED
  BY <1>1, <1>2, FlowKept

(* The parent changes from p to n, without a new frame. *)
LEMMA ParentFlow ==
  ASSUME NEW c, NEW p, NEW rc, NEW rp, NEW x, NEW A, Flow(c, p, rc, rp, x, A),
         NEW n, SentIn(n.queue[Child]) \subseteq SentIn(p.queue[Child])
  PROVE  Flow(c, n, rc, rp, x, A)
<1>1. /\ Asking(c) \subseteq Asking(c) /\ (c.sf => c.sf) /\ NoCallbacks(c)
      /\ (Asking(c) = {} \/ x.sched = x.sched) /\ A \subseteq A
  BY DEF Flow
<1>2. /\ Copies(Upward(c, rp), Upward(c, rp)) /\ Copies(Downward(n, rc), Downward(p, rc))
  BY CopiesSubset DEF Downward
<1> QED
  BY <1>1, <1>2, FlowKept

(* The number of the next request is on no frame. *)
LEMMA NextUnused ==
  ASSUME PairInv, NumberInv(Child)
  PROVE  \A k \in Upward(node[Child], rx[Parent]) \cup Downward(node[Parent], rx[Child]) :
           k.seqno # NextTo(node[Child], Parent)
<1> DEFINE next == NextTo(node[Child], Parent)
           q == node[Child].queue[Parent]
           a == node[Parent].queue[Child]
<1>1. Numbered(Child, Parent, node, rx)
  BY CommandFacts DEF NumberInv, Numbering
<1>2. PICK K \in SUBSET (Nat \X Nat) :
        /\ Traced(node[Child], Parent, K) /\ Traced(node[Parent], Child, K)
        /\ InAir(rx[Child], Parent, K) /\ InAir(rx[Parent], Child, K)
        /\ OneRequest(K, next)
  BY <1>1 DEF Numbered
<1>3. /\ \A i \in 1..Len(q) : Pair(q[i]) \in K
      /\ \A i \in 1..Len(a) : Pair(a[i]) \in K
      /\ \A i \in 1..Len(rx[Child]) : Pair(rx[Child][i].pkt) \in K
      /\ \A i \in 1..Len(rx[Parent]) : Pair(rx[Parent][i].pkt) \in K
  BY <1>2 DEF Traced, InAir, PairInv
<1>4. \A k \in Upward(node[Child], rx[Parent]) \cup Downward(node[Parent], rx[Child]) :
        Pair(k) \in K
  BY <1>3 DEF Upward, Downward, SentIn, HeardIn
<1>5. \A e \in K : e[1] \in Nat /\ e[1] < next
  BY <1>2 DEF OneRequest
<1>6. next \in Int
  <2>1. node[Child].nbr[Parent] \in 0..MaxSeqno \cup {NoNbr}
    BY CommandFacts DEF PairInv, NodeState
  <2> QED
    BY <2>1, SeqnoAssumption DEF NextTo, NoNbr
<1> HIDE DEF next
<1>7. \A e \in K : e[1] # next
  BY <1>5, <1>6
<1>8. \A k : Pair(k)[1] = k.seqno
  BY DEF Pair
<1> QED
  BY <1>4, <1>7, <1>8 DEF next

LEMMA RequestFlow ==
  ASSUME PairInv, NumberInv(Child), NEW A, FlowNow(A), NEW cmd \in SfCmd, NEW body \in Body,
         NEW mode \in FlushMode, NEW res, Request(Child, Parent, cmd, body, "NONE", mode, res),
         Offers(sf[Child], cmd, body.cells), NEW z, z.sched = sf[Child].sched,
         sf' = [sf EXCEPT ![Child] = z]
  PROVE  FlowNow(A)'
<1> DEFINE m == OutputRequest(Flush(node[Child], Parent, mode), Parent, cmd, body,
                              "NONE", nreq + 1, res)
<1>1. node' = [node EXCEPT ![Child] = m] /\ rx' = rx
  BY DEF Request, PairInv
<1>2. /\ nreq + 1 \in Nat /\ NodeInv(node[Child])
      /\ \A s \in Slot : Listed(node[Child].trans[s]) => node[Child].trans[s].peer = Parent
  BY CommandFacts DEF PairInv
<1>3. PICK k : k = m
  OBVIOUS
<1>4. Flow(k, node[Parent], rx[Child], rx[Parent], z, A)
  BY <1>2, <1>3, NextUnused, ChildOffers DEF FlowNow
<1> HIDE DEF m
<1>5. node'[Child] = k /\ node'[Parent] = node[Parent]
  <2>1. node' = [node EXCEPT ![Child] = k]
    BY <1>1, <1>3
  <2>2. \A p \in Node : node'[p] = IF p = Child THEN k ELSE node[p]
    BY <2>1, NewNode, CommandFacts
  <2> QED
    BY <2>2, CommandFacts
<1>6. sf'[Child] = z
  BY NewSf, CommandFacts
<1> QED
  BY <1>1, <1>4, <1>5, <1>6 DEF FlowNow

LEMMA AddSfFlow ==
  ASSUME PairInv, NEW A, FlowNow(A), NEW n \in Node, AddSf(n), UNCHANGED sf
  PROVE  FlowNow(A)'
<1>1. node' = [node EXCEPT ![n] = [node[n] EXCEPT !.sf = TRUE]] /\ rx' = rx
  BY DEF AddSf, PairInv
<1>2. node[n] \in NodeState
  BY DEF PairInv
<1>3. PICK k : k = [node[n] EXCEPT !.sf = TRUE]
  OBVIOUS
<1>4. k.trans = node[n].trans /\ k.queue = node[n].queue /\ k.sf
  BY <1>2, <1>3 DEF NodeState
<1>5. \A p \in Node : node'[p] = IF p = n THEN k ELSE node[p]
  <2>1. node' = [node EXCEPT ![n] = k]
    BY <1>1, <1>3
  <2> QED
    BY <2>1, NewNode
<1>6. CASE n = Child
  <2>1. /\ Asking(k) \subseteq Asking(node[Child]) /\ NoCallbacks(k)
        /\ (node[Child].sf => k.sf) /\ (Asking(k) = {} \/ sf[Child].sched = sf[Child].sched)
        /\ A \subseteq A
    BY <1>4, <1>6 DEF Asking, NoCallbacks, FlowNow, Flow
  <2>2. /\ Copies(Upward(k, rx[Parent]), Upward(node[Child], rx[Parent]))
        /\ Copies(Downward(node[Parent], rx[Child]), Downward(node[Parent], rx[Child]))
    BY <1>4, <1>6, CopiesSubset DEF Upward
  <2>3. Flow(k, node[Parent], rx[Child], rx[Parent], sf[Child], A)
    BY <2>1, <2>2, FlowKept DEF FlowNow
  <2> QED
    BY <1>1, <1>5, <1>6, <2>3, CommandFacts DEF FlowNow
<1>7. CASE n = Parent
  <2>1. Flow(node[Child], k, rx[Child], rx[Parent], sf[Child], A)
    BY <1>4, <1>7, ParentFlow DEF FlowNow
  <2> QED
    BY <1>1, <1>5, <1>7, <2>1, CommandFacts DEF FlowNow
<1> QED
  BY <1>6, <1>7, CommandFacts

LEMMA TransmitFlow ==
  ASSUME PairInv, NEW A, FlowNow(A), NEW n \in Node, NEW p \in Node \ {n}, Transmit(n, p),
         UNCHANGED sf
  PROVE  FlowNow(A)'
<1> DEFINE m == [node[n] EXCEPT !.queue[p][1].heard = TRUE]
           q == node[n].queue[p]
           f == [src |-> n, pkt |-> Head(q)]
<1>0. node[n] \in NodeState /\ rx[p] \in Seq(Frame)
  BY DEF PairInv
<1>1. node' = [node EXCEPT ![n] = m] /\ rx' = [rx EXCEPT ![p] = Append(rx[p], f)]
  BY DEF Transmit, PairInv
<1>2. q \in Seq(Packet) /\ q # <<>> /\ Head(q) = q[1]
  <2>1. q \in Seq(Packet) /\ q # <<>>
    BY <1>0 DEF NodeState, Transmit
  <2> QED
    BY <2>1
<1>3. PICK k, g, r, v :
        k = m /\ g = f /\ r = [q EXCEPT ![1].heard = TRUE] /\ v = Append(rx[p], g)
  OBVIOUS
<1>4. g.pkt = q[1]
  BY <1>2, <1>3
<1>5. k.trans = node[n].trans /\ k.sf = node[n].sf /\ k.queue[p] = r
  BY <1>0, <1>3 DEF NodeState
<1>6. /\ \A o \in Node : node'[o] = IF o = n THEN k ELSE node[o]
      /\ \A o \in Node : rx'[o] = IF o = p THEN v ELSE rx[o]
  <2>1. node' = [node EXCEPT ![n] = k] /\ rx' = [rx EXCEPT ![p] = v]
    BY <1>1, <1>3
  <2>2. \A o \in Node : node'[o] = IF o = n THEN k ELSE node[o]
    BY <2>1, NewNode
  <2>3. \A o \in Node : rx'[o] = IF o = p THEN v ELSE rx[o]
    BY <2>1, NewRx
  <2> QED
    BY <2>2, <2>3
<1>7. Copies(SentIn(r), SentIn(q)) /\ q[1] \in SentIn(q)
  BY <1>2, <1>3, HeardSets, TailSets
<1>8. HeardIn(v) = HeardIn(rx[p]) \cup {q[1]}
  BY <1>0, <1>3, <1>4, AppendSets
<1> HIDE DEF m, f, q
<1>9. Copies(SentIn(r) \cup HeardIn(rx[p]), SentIn(q) \cup HeardIn(rx[p]))
      /\ Copies(SentIn(r) \cup HeardIn(v), SentIn(q) \cup HeardIn(rx[p]))
  BY <1>7, <1>8 DEF Copies, Like
<1>10. CASE n = Child
  <2>1. p = Parent
    BY <1>10, CommandFacts
  <2>2. Copies(Upward(k, v), Upward(node[Child], rx[Parent]))
    BY <1>5, <1>9, <1>10, <2>1 DEF Upward, q
  <2>3. /\ Asking(k) \subseteq Asking(node[Child]) /\ NoCallbacks(k)
        /\ (node[Child].sf => k.sf) /\ (Asking(k) = {} \/ sf[Child].sched = sf[Child].sched)
        /\ A \subseteq A
    BY <1>5, <1>10 DEF Asking, NoCallbacks, FlowNow, Flow
  <2>4. Copies(Downward(node[Parent], rx[Child]), Downward(node[Parent], rx[Child]))
    BY CopiesSubset
  <2>5. Flow(k, node[Parent], rx[Child], v, sf[Child], A)
    BY <2>2, <2>3, <2>4, FlowKept DEF FlowNow
  <2> QED
    BY <1>6, <1>10, <2>1, <2>5, CommandFacts DEF FlowNow
<1>11. CASE n = Parent
  <2>1. p = Child
    BY <1>11, CommandFacts
  <2>2. Copies(Downward(k, v), Downward(node[Parent], rx[Child]))
    BY <1>5, <1>9, <1>11, <2>1 DEF Downward, q
  <2>3. /\ Asking(node[Child]) \subseteq Asking(node[Child]) /\ NoCallbacks(node[Child])
        /\ (node[Child].sf => node[Child].sf)
        /\ (Asking(node[Child]) = {} \/ sf[Child].sched = sf[Child].sched)
        /\ A \subseteq A
    BY DEF FlowNow, Flow
  <2>4. Copies(Upward(node[Child], rx[Parent]), Upward(node[Child], rx[Parent]))
    BY CopiesSubset
  <2>5. Flow(node[Child], k, v, rx[Parent], sf[Child], A)
    BY <2>2, <2>3, <2>4, FlowKept DEF FlowNow
  <2> QED
    BY <1>6, <1>11, <2>1, <2>5, CommandFacts DEF FlowNow
<1> QED
  BY <1>10, <1>11, CommandFacts

(* A packet leaves the queue of a node. *)
LEMMA DoneQueue ==
  ASSUME NEW ns \in NodeState, NEW p \in Node, ns.queue[p] # <<>>, NEW ok,
         NEW m, m = DoneWith(ns, p, ok)
  PROVE  SentIn(m.queue[p]) \subseteq SentIn(ns.queue[p])
<1> DEFINE q == ns.queue[p]
           n1 == [ns EXCEPT !.queue[p] = Tail(q)]
<1>1. q \in Seq(Packet) /\ "queue" \in DOMAIN n1 /\ n1.queue[p] = Tail(q)
  BY DEF NodeState
<1>2. m = n1 \/ m = MacCallback(n1, Head(q).ptr, ok)
  BY DEF DoneWith
<1> HIDE DEF n1, q
<1>3. m.queue = n1.queue
  BY <1>1, <1>2, SameQueueCallback DEF SameQueue
<1> QED
  BY <1>1, <1>3, TailSets DEF q

LEMMA ChildDone ==
  ASSUME NEW c \in NodeState, NoCallbacks(c), c.queue[Parent] # <<>>, NEW ok \in BOOLEAN,
         NEW m, m = DoneWith(c, Parent, ok)
  PROVE  Calms(c, m)
<1> DEFINE q == c.queue[Parent]
           k == Head(q)
           n1 == [c EXCEPT !.queue[Parent] = Tail(q)]
<1>1. q \in Seq(Packet) /\ Parent \in Node
  BY CommandFacts DEF NodeState
<1>2. k \in Packet /\ Tail(q) \in Seq(Packet)
  BY <1>1
<1>3. n1.trans = c.trans /\ n1.nbr = c.nbr /\ n1.sf = c.sf /\ n1 \in NodeState
  BY <1>1, <1>2 DEF NodeState
<1>4. k.ptr \in Slot \cup {NoSlot}
  BY <1>2 DEF Packet
<1>5. m = IF k.ptr = NoSlot THEN n1 ELSE MacCallback(n1, k.ptr, ok)
  BY DEF DoneWith
<1> HIDE DEF n1, k, q
<1>6. NoCallbacks(n1) /\ Calms(c, n1)
  BY <1>3 DEF NoCallbacks, Calms, Calm
<1>7. CASE k.ptr = NoSlot
  BY <1>5, <1>6, <1>7
<1>8. CASE k.ptr # NoSlot
  <2>1. Calms(n1, m)
    BY <1>3, <1>4, <1>5, <1>6, <1>8, ChildCallback
  <2> QED
    BY <1>6, <2>1, CalmsTrans
<1> QED
  BY <1>7, <1>8

LEMMA ReportFlow ==
  ASSUME PairInv, NEW A, FlowNow(A), NEW n \in Node, NEW p \in Node \ {n}, NEW ok \in BOOLEAN,
         Report(n, p, ok)
  PROVE  FlowNow(A)' /\ sf'[Child] = sf[Child]
<1> DEFINE s == Head(node[n].queue[p]).ptr
           t == node[n].trans[s]
           m == DoneWith(node[n], p, ok)
<1>0. node[n] \in NodeState /\ node[n].queue[p] # <<>> /\ NoCallbacks(node[Child])
  BY Zenon DEF PairInv, Report, MacDone, FlowNow, Flow
<1>1. node' = [node EXCEPT ![n] = m] /\ rx' = rx
  BY Zenon DEF Report, MacDone, PairInv
<1>2. s \in Slot \cup {NoSlot}
  <2>1. node[n].queue[p] \in Seq(Packet)
    BY Zenon, <1>0 DEF NodeState
  <2>2. Head(node[n].queue[p]) \in Packet
    BY <1>0, <2>1
  <2> QED
    BY <2>2 DEF Packet
<1>3. sf' = IF s = NoSlot \/ t.peer = NoNode \/ node[n].nbr[t.peer] = NoNbr THEN sf
            ELSE [sf EXCEPT ![n] = SentCallback(sf[n], CallbackRun(node[n], s, ok), t.peer, ok)]
  BY Zenon DEF Report, PairInv
<1>4. PICK k : k = m
  OBVIOUS
<1>5. SentIn(k.queue[p]) \subseteq SentIn(node[n].queue[p])
  BY Zenon, <1>0, <1>4, DoneQueue
<1>6. \A o \in Node : node'[o] = IF o = n THEN k ELSE node[o]
  <2>1. node' = [node EXCEPT ![n] = k]
    BY <1>1, <1>4
  <2> QED
    BY <2>1, NewNode
<1>7. CASE n = Child
  <2>1. p = Parent
    BY <1>7, CommandFacts
  <2>2. Calms(node[Child], k)
    BY Zenon, <1>0, <1>4, <1>7, <2>1, ChildDone
  <2>3. Flow(k, node[Parent], rx[Child], rx[Parent], sf[Child], A)
    BY Zenon, <1>5, <1>7, <2>1, <2>2, CalmFlow DEF FlowNow
  <2>4. sf'[Child] = sf[Child]
    <3>1. CASE s = NoSlot
      BY <1>3, <3>1
    <3>2. CASE s # NoSlot
      <4>1. CallbackRun(node[n], s, ok) = "NONE"
        BY <1>0, <1>2, <1>7, <3>2 DEF CallbackRun, NoCallbacks
      <4>2. SentCallback(sf[n], CallbackRun(node[n], s, ok), t.peer, ok) = sf[n]
        BY <4>1 DEF SentCallback
      <4>3. [sf EXCEPT ![n] = sf[n]] = sf
        BY DEF PairInv
      <4> HIDE DEF s, t
      <4> QED
        BY <1>3, <4>2, <4>3
    <3> QED
      BY <3>1, <3>2
  <2> QED
    BY <1>1, <1>6, <1>7, <2>3, <2>4, CommandFacts DEF FlowNow
<1>8. CASE n = Parent
  <2>1. p = Child
    BY <1>8, CommandFacts
  <2>2. Flow(node[Child], k, rx[Child], rx[Parent], sf[Child], A)
    BY Zenon, <1>5, <1>8, <2>1, ParentFlow DEF FlowNow
  <2>3. sf'[Child] = sf[Child]
    <3>1. PICK z : z = SentCallback(sf[n], CallbackRun(node[n], s, ok), t.peer, ok)
      OBVIOUS
    <3> HIDE DEF s, t
    <3>2. sf' = sf \/ sf' = [sf EXCEPT ![n] = z]
      BY <1>3, <3>1
    <3> QED
      BY <1>8, <3>2, NewSf, CommandFacts
  <2> QED
    BY <1>1, <1>6, <1>8, <2>2, <2>3, CommandFacts DEF FlowNow
<1> QED
  BY <1>7, <1>8, CommandFacts

LEMMA ExpireFlow ==
  ASSUME PairInv, NEW A, FlowNow(A), NEW n \in Node, NEW s \in Slot, Expire(n, s)
  PROVE  FlowNow(A)' /\ sf' = sf
<1> DEFINE t == node[n].trans[s]
<1>0. NodeInv(node[n]) /\ node[n] \in NodeState /\ "queue" \in DOMAIN node[n]
  BY CommandFacts DEF PairInv, NodeState
<1>1. PICK k : /\ node' = [node EXCEPT ![n] = k]
               /\ \/ t.timer = "timeout" /\ k = HandleTransTimeout(node[n], s)
                  \/ t.timer = "process" /\ k = ProcessTrans(node[n], s)
  <2>1. CASE t.timer = "timeout" /\ node' = [node EXCEPT ![n] = HandleTransTimeout(@, s)]
    <3>1. node' = [node EXCEPT ![n] = HandleTransTimeout(node[n], s)]
      BY <2>1 DEF PairInv
    <3> QED
      BY <2>1, <3>1
  <2>2. CASE t.timer = "process" /\ node' = [node EXCEPT ![n] = ProcessTrans(@, s)]
    <3>1. node' = [node EXCEPT ![n] = ProcessTrans(node[n], s)]
      BY <2>2 DEF PairInv
    <3> QED
      BY <2>2, <3>1
  <2> QED
    BY <2>1, <2>2 DEF Expire, Timer
<1>2. rx' = rx /\ sf' = sf
  BY DEF Expire, Timer
<1>3. Listed(t)
  BY <1>0, <1>1 DEF NodeInv, TimerArmedAt
<1>4. \A q \in Node : SentIn(k.queue[q]) \subseteq SentIn(node[n].queue[q])
  BY <1>0, <1>1, SameQueueTimers DEF SameQueue
<1>5. \A o \in Node : node'[o] = IF o = n THEN k ELSE node[o]
  BY <1>1, NewNode
<1>6. CASE n = Child
  <2>1. Calms(node[Child], k)
    BY <1>0, <1>1, <1>3, <1>6, ChildTimer DEF FlowNow, Flow
  <2>2. Flow(k, node[Parent], rx[Child], rx[Parent], sf[Child], A)
    BY <1>4, <1>6, <2>1, CalmFlow, CommandFacts DEF FlowNow
  <2> QED
    BY <1>2, <1>5, <1>6, <2>2, CommandFacts DEF FlowNow
<1>7. CASE n = Parent
  <2>1. Flow(node[Child], k, rx[Child], rx[Parent], sf[Child], A)
    BY <1>4, <1>7, ParentFlow, CommandFacts DEF FlowNow
  <2> QED
    BY <1>2, <1>5, <1>7, <2>1, CommandFacts DEF FlowNow
<1> QED
  BY <1>6, <1>7, CommandFacts

(* What CellsAddUp says of a step. *)
AddsUp(clean) ==
  sf'[Child].sched # sf[Child].sched =>
    AddUp(sf[Child], sf'[Child], node[Child].trans[Find(node[Child], Parent)].cmd,
          Head(rx[Child]).pkt.body.cells, clean)

LEMMA ReceiveFlow ==
  ASSUME PairInv, SfPart, MinInv, NEW A, A \subseteq UpCell, FlowNow(A),
         A = UpCell \/ AgreeNow, NEW rels, ChildCells(sf[Child], rels),
         RightTaken(Child),
         NEW n \in Node, NEW res, Receive(n, res)
  PROVE  FlowNow(A)' /\ ChildCells(sf'[Child], rels) /\ AddsUp(A = {})
<1> DEFINE f == Head(rx[n])
<1>1. /\ rx[n] \in Seq(Frame) /\ rx[n] # <<>> /\ f = rx[n][1] /\ 1 \in 1..Len(rx[n])
  BY DEF Receive, PairInv
<1>2. PICK o \in IF Upcall(node[n], f.src, f.pkt) THEN SfInput(node[n], sf[n], f)
                                                  ELSE {NoReply(sf[n])} :
        Input(n, o.answer, o.body, o.cb, res) /\ sf' = [sf EXCEPT ![n] = o.state]
  BY DEF Receive
<1> HIDE DEF f
<1> DEFINE m == HandleFrame(node[n], f, o.answer, o.body, o.cb, res)
<1>3. node' = [node EXCEPT ![n] = m] /\ rx' = [rx EXCEPT ![n] = Tail(rx[n])]
  BY <1>2 DEF Input, f, PairInv
<1>4. PICK k : k = m
  OBVIOUS
<1>5. /\ NodeInv(node[Child]) /\ NodeInv(node[Parent])
      /\ \A s \in Slot : Listed(node[Child].trans[s]) => node[Child].trans[s].peer = Parent
      /\ \A s \in Slot : Listed(node[Parent].trans[s]) => node[Parent].trans[s].peer = Child
      /\ sf[Child] \in SfState /\ CellsOf(sf[Child].sched, "TX", Parent) \subseteq UpCell
      /\ \A s \in Slot : Backed(node[Child].trans[s], sf[Child])
  BY CommandFacts DEF PairInv, SfPart, MinInv
<1>6. /\ \A p \in Node : node'[p] = IF p = n THEN k ELSE node[p]
      /\ \A p \in Node : rx'[p] = IF p = n THEN Tail(rx[n]) ELSE rx[p]
      /\ \A p \in Node : sf'[p] = IF p = n THEN o.state ELSE sf[p]
  <2>1. node' = [node EXCEPT ![n] = k]
    BY <1>3, <1>4
  <2>2. \A p \in Node : node'[p] = IF p = n THEN k ELSE node[p]
    BY <2>1, NewNode
  <2>3. \A p \in Node : rx'[p] = IF p = n THEN Tail(rx[n]) ELSE rx[p]
    BY <1>3, NewRx
  <2>4. \A p \in Node : sf'[p] = IF p = n THEN o.state ELSE sf[p]
    BY <1>2, NewSf
  <2> QED
    BY <2>2, <2>3, <2>4
<1> HIDE DEF m
<1>7. CASE n = Child
  <2>1. f.src = Parent /\ f = rx[Child][1]
    BY <1>1, <1>7 DEF PairInv
  <2>2. f.pkt.type = "RESPONSE" /\ node[Child].sf
    <3>1. f.pkt \in Downward(node[Parent], rx[Child])
      BY <1>1, <1>7, <2>1, TailSets DEF Downward
    <3> QED
      BY <3>1 DEF FlowNow, Flow, DownOK
  <2>3. PICK r, z : r = Find(node[Child], Parent) /\ z = o.state
    OBVIOUS
  <2>4. IF Accepts(node[Child], Parent, f.pkt)
          THEN /\ k = Transit(node[Child], r, "RESPONSE_RECEIVED")
               /\ z = ResponseInput(sf[Child], node[Child].trans[r].cmd, f.pkt, Parent)
          ELSE k = node[Child] /\ z = sf[Child]
    BY <1>2, <1>4, <1>7, <2>1, <2>2, <2>3, ChildHandles DEF m
  <2>5. node'[Child] = k /\ node'[Parent] = node[Parent]
    BY <1>6, <1>7, CommandFacts
  <2>6. \A s \in Slot : k.trans[s].state = "RESPONSE_RECEIVED" /\ Requesting(node[Child].trans[s])
                          => rx[Child][1].pkt.req = node[Child].trans[s].req
    BY <1>1, <1>7, <2>1, <2>5 DEF RightTaken, Requesting, Asker, f
  <2>7. f.pkt = Head(rx[Child]).pkt
    BY <1>7 DEF f
  <2>8. /\ rx[Child] \in Seq(Frame) /\ rx[Child] # <<>>
        /\ Flow(node[Child], node[Parent], rx[Child], rx[Parent], sf[Child], A)
    BY <1>1, <1>7 DEF FlowNow
  <2>9. IF Accepts(node[Child], Parent, rx[Child][1].pkt)
          THEN /\ k = Transit(node[Child], r, "RESPONSE_RECEIVED")
               /\ z = ResponseInput(sf[Child], node[Child].trans[r].cmd, rx[Child][1].pkt, Parent)
          ELSE k = node[Child] /\ z = sf[Child]
    BY <2>1, <2>4
  <2>10. /\ Flow(k, node[Parent], Tail(rx[Child]), rx[Parent], z, A)
         /\ ChildCells(z, rels)
         /\ z.sched # sf[Child].sched =>
              AddUp(sf[Child], z, node[Child].trans[r].cmd, rx[Child][1].pkt.body.cells, A = {})
    <3>1. PICK c, x : c = node[Child] /\ x = sf[Child]
      OBVIOUS
    <3>2. Handled(c, x, r, rx[Child][1].pkt, k, z)
      BY <2>6, <2>9, <3>1 DEF Handled
    <3>3. /\ NodeInv(c) /\ x \in SfState /\ ChildCells(x, rels) /\ r = Find(c, Parent)
          /\ \A s \in Slot : Listed(c.trans[s]) => c.trans[s].peer = Parent
          /\ CellsOf(x.sched, "TX", Parent) \subseteq UpCell
          /\ \A s \in Slot : Backed(c.trans[s], x)
      BY <1>5, <2>3, <3>1
    <3>4. Flow(c, node[Parent], rx[Child], rx[Parent], x, A)
      BY <2>8, <3>1
    <3>5. /\ Flow(k, node[Parent], Tail(rx[Child]), rx[Parent], z, A)
          /\ ChildCells(z, rels)
          /\ z.sched # x.sched =>
               AddUp(x, z, c.trans[r].cmd, rx[Child][1].pkt.body.cells, A = {})
      BY <2>8, <3>2, <3>3, <3>4, ChildTakesGrant
    <3> QED
      BY <3>1, <3>5
  <2>11. /\ sf'[Child] = z /\ rx'[Child] = Tail(rx[Child]) /\ rx'[Parent] = rx[Parent]
    BY <1>6, <1>7, <2>3, CommandFacts
  <2>12. FlowNow(A)'
    BY <2>5, <2>10, <2>11 DEF FlowNow
  <2> QED
    BY <1>1, <1>7, <2>1, <2>3, <2>10, <2>11, <2>12 DEF AddsUp
<1>8. CASE n = Parent
  <2>1. f.src = Child /\ f = rx[Parent][1]
    BY <1>1, <1>8 DEF PairInv
  <2>2. f.pkt.type = "REQUEST"
    <3>1. f.pkt \in Upward(node[Child], rx[Parent])
      BY <1>1, <1>8, <2>1, TailSets DEF Upward
    <3> QED
      BY <3>1 DEF FlowNow, Flow, UpOK
  <2>3. IF Upcall(node[Parent], Child, f.pkt) THEN o \in RequestInput(sf[Parent], f.pkt)
                                              ELSE o = NoReply(sf[Parent])
    BY <1>2, <1>8, <2>1, <2>2 DEF SfInput
  <2>4. Flow(node[Child], k, rx[Child], Tail(rx[Parent]), sf[Child], A)
    <3>1. /\ rx[Parent] \in Seq(Frame) /\ rx[Parent] # <<>> /\ rx[Parent][1].src = Child
      BY <1>1, <1>8, <2>1
    <3>2. k = HandleFrame(node[Parent], rx[Parent][1], o.answer, o.body, o.cb, res)
      BY <1>4, <1>8, <2>1 DEF m
    <3>3. IF Upcall(node[Parent], Child, rx[Parent][1].pkt)
            THEN o \in RequestInput(sf[Parent], rx[Parent][1].pkt)
            ELSE o = NoReply(sf[Parent])
      BY <2>1, <2>3
    <3>4. /\ Flow(node[Child], node[Parent], rx[Child], rx[Parent], sf[Child], A)
          /\ \/ A = UpCell
             \/ Agree(node[Child], node[Parent], rx[Child], rx[Parent], sf[Child], sf[Parent], nreq)
      BY DEF FlowNow, AgreeNow
    <3> QED
      BY <1>5, <3>1, <3>2, <3>3, <3>4, ParentGrants
  <2>5. /\ sf'[Child] = sf[Child] /\ rx'[Child] = rx[Child] /\ rx'[Parent] = Tail(rx[Parent])
        /\ node'[Child] = node[Child] /\ node'[Parent] = k
    BY <1>6, <1>8, CommandFacts
  <2> QED
    BY <2>4, <2>5 DEF FlowNow, AddsUp
<1> QED
  BY <1>7, <1>8, CommandFacts

(* What was lost stays lost. *)
LEMMA CleanBefore == SfInv /\ [SfNext]_sfvars /\ app'.clean => app.clean
<1> SUFFICES ASSUME SfInv, [SfNext]_sfvars, app'.clean PROVE app.clean
  OBVIOUS
<1>1. app \in AppState
  BY DEF SfInv, SfTypeOK
<1>2. CASE UNCHANGED app
  BY <1>2
<1>3. CASE AddCheck
  BY <1>1, <1>3 DEF AddCheck, AppState
<1>4. ASSUME NEW cands, NEW flush, NEW res, AddSend(cands, flush, res) PROVE app.clean
  <2> DEFINE still == FlushesHeard(node[Child].queue[Parent], flush)
  <2>1. app' = [app EXCEPT !.clean = @ /\ ~still, !.added = @ + 1,
                           !.add = IF app.added + 1 < Target THEN "wait" ELSE "done"]
    BY <1>4 DEF AddSend
  <2> HIDE DEF still
  <2> QED
    BY <1>1, <2>1 DEF AppState
<1>5. ASSUME NEW rels, Evaluate(rels) PROVE app.clean
  BY <1>1, <1>5 DEF Evaluate, AppState
<1>6. ASSUME NEW c, NEW cands, NEW res, RelocSend(c, cands, res) PROVE app.clean
  BY <1>1, <1>6 DEF RelocSend, AppState
<1>7. ASSUME NEW n, NEW p, NEW ok, Report(n, p, ok) PROVE app.clean
  <2> DEFINE still == ok = Head(node[n].queue[p]).heard
  <2>1. app' = [app EXCEPT !.clean = @ /\ still]
    BY Zenon, <1>7 DEF Report
  <2> HIDE DEF still
  <2> QED
    BY <1>1, <2>1 DEF AppState
<1>8. ASSUME NEW n, NEW s, Expire(n, s) PROVE app.clean
  <2> DEFINE still == node[n].trans[s].timer = "timeout" => ~InFlight(n, s)
  <2>1. app' = [app EXCEPT !.clean = @ /\ still]
    BY <1>8 DEF Expire
  <2> HIDE DEF still
  <2> QED
    BY <1>1, <2>1 DEF AppState
<1> QED
  BY <1>2, <1>3, <1>4, <1>5, <1>6, <1>7, <1>8 DEF SfNext, sfvars, RemoveSend, Receive

(* A request leaves the schedule alone, and the next cell to be relocated, *)
(* if it changes, is one that was to be relocated.                         *)
CellsKept(A) ==
  /\ FlowNow(A)' /\ ChildCells(sf'[Child], app'.rels)
  /\ sf'[Child].sched = sf[Child].sched

LEMMA CellsRequests ==
  ASSUME PairInv, SfPart, app \in AppState, NumberInv(Child), NEW A, FlowNow(A),
         ChildCells(sf[Child], app.rels)
  PROVE  /\ \A cands \in Candidates, flush \in Flushing, res \in Result :
              AddSend(cands, flush, res) => CellsKept(A)
         /\ \A c \in app.rels, cands \in Candidates, res \in Result :
              RelocSend(c, cands, res) => CellsKept(A)
         /\ \A c \in CellsOf(sf[Child].sched, "TX", Parent), res \in Result :
              RemoveSend(c, res) => CellsKept(A)
<1>1. sf = [sf EXCEPT ![Child] = sf[Child]]
  BY DEF PairInv
<1>2. \A rel, cells : MkBody(rel, cells).cells = cells
  BY DEF MkBody
<1>3. \A cands \in Candidates : /\ cands \in SUBSET UpCell
                                /\ Offers(sf[Child], "ADD", cands)
                                /\ Offers(sf[Child], "RELOCATE", cands)
  BY DEF Candidates, Offers
<1>4. /\ "none" \in FlushMode /\ Flushing \subseteq FlushMode
      /\ "ADD" \in SfCmd /\ "DELETE" \in SfCmd /\ "RELOCATE" \in SfCmd
  BY ReplyAssumption DEF SfCmd, FlushMode
<1>5. ASSUME NEW cands \in Candidates, NEW flush \in Flushing, NEW res \in Result,
             AddSend(cands, flush, res)
      PROVE  CellsKept(A)
  <2>1. PICK b : b = MkBody(NoCell, cands)
    OBVIOUS
  <2>2. b \in Body /\ Offers(sf[Child], "ADD", b.cells) /\ flush \in FlushMode
    BY <1>2, <1>3, <1>4, <2>1, MkBodyType
  <2>3. Request(Child, Parent, "ADD", b, "NONE", flush, res) /\ sf' = sf
    BY <1>5, <2>1 DEF AddSend
  <2>4. sf' = [sf EXCEPT ![Child] = sf[Child]] /\ sf[Child].sched = sf[Child].sched
    BY <1>1, <2>3
  <2>5. FlowNow(A)'
    BY <1>4, <2>2, <2>3, <2>4, RequestFlow
  <2>6. app'.rels = app.rels
    BY <1>5 DEF AddSend, AppState
  <2> QED
    BY <2>3, <2>5, <2>6 DEF CellsKept
<1>6. ASSUME NEW c \in app.rels, NEW cands \in Candidates, NEW res \in Result,
             RelocSend(c, cands, res)
      PROVE  CellsKept(A)
  <2>1. PICK b, z : b = MkBody(c, cands) /\ z = [sf[Child] EXCEPT !.reloc = c]
    OBVIOUS
  <2>2. c \in UpCell
    BY DEF AppState
  <2>3. b \in Body /\ Offers(sf[Child], "RELOCATE", b.cells)
    BY <1>2, <1>3, <2>1, <2>2, MkBodyType
  <2>4. Request(Child, Parent, "RELOCATE", b, "NONE", "none", res)
    BY <1>6, <2>1 DEF RelocSend
  <2>5. sf' = [sf EXCEPT ![Child] = z]
    BY <1>6, <2>1 DEF RelocSend, PairInv
  <2>6. z.sched = sf[Child].sched /\ z.reloc = c
    BY <2>1, CommandFacts DEF PairInv, SfState
  <2>7. FlowNow(A)'
    BY <1>4, <2>3, <2>4, <2>5, <2>6, RequestFlow
  <2>8. sf'[Child] = z
    BY <2>5, NewSf, CommandFacts
  <2>9. app'.rels = app.rels \ {c}
    BY <1>6 DEF RelocSend, AppState
  <2>10. ChildCells(z, app'.rels)
    BY <2>6, <2>9 DEF ChildCells, OffAutoRx
  <2> QED
    BY <2>6, <2>7, <2>8, <2>10 DEF CellsKept
<1>7. ASSUME NEW c \in CellsOf(sf[Child].sched, "TX", Parent), NEW res \in Result,
             RemoveSend(c, res)
      PROVE  CellsKept(A)
  <2>1. PICK b : b = MkBody(NoCell, {c})
    OBVIOUS
  <2>2. {c} \in SUBSET UpCell
    BY DEF SfPart
  <2>3. b \in Body /\ Offers(sf[Child], "DELETE", b.cells)
    <3>1. b \in Body
      BY <2>1, <2>2, MkBodyType
    <3>2. b.cells = {c}
      BY <1>2, <2>1
    <3> QED
      BY <3>1, <3>2 DEF Offers
  <2>4. Request(Child, Parent, "DELETE", b, "NONE", "none", res) /\ sf' = sf /\ app' = app
    BY <1>7, <2>1 DEF RemoveSend
  <2>5. sf' = [sf EXCEPT ![Child] = sf[Child]] /\ sf[Child].sched = sf[Child].sched
    BY <1>1, <2>4
  <2>6. FlowNow(A)'
    BY <1>4, <2>3, <2>4, <2>5, RequestFlow
  <2> QED
    BY <2>4, <2>6 DEF CellsKept
<1> QED
  BY <1>5, <1>6, <1>7

LEMMA CellsInit == SfInit => CellsInv
<1> SUFFICES ASSUME SfInit PROVE CellsInv
  OBVIOUS
<1> DEFINE c == node[Child]
           p == node[Parent]
           x == sf[Child]
<1>1. c = BootState /\ p = BootState /\ rx[Child] = <<>> /\ rx[Parent] = <<>>
  BY CommandFacts DEF SfInit, Init
<1>2. /\ c.queue[Parent] = <<>> /\ p.queue[Child] = <<>>
      /\ \A s \in Slot : c.trans[s] = FreeTrans
  BY <1>1, CommandFacts DEF BootState
<1>3. NoCallbacks(c)
  BY <1>2 DEF NoCallbacks, FreeTrans
<1>4. /\ x.sched = {MkLink(MinimalCell, "SHARED", NoNode), MkLink(AutoTx, "TX", Parent),
                    MkLink(AutoRx, "RX", Parent)}
      /\ x.reloc = MinimalCell /\ app.rels = {}
  BY CommandFacts DEF SfInit
<1>5. CellsOf(x.sched, "TX", Parent) = {AutoTx} /\ CellsOf(x.sched, "RX", Parent) = {AutoRx}
  <2>1. \A cell, opt, peer : /\ MkLink(cell, opt, peer).cell = cell
                             /\ MkLink(cell, opt, peer).opt = opt
                             /\ MkLink(cell, opt, peer).peer = peer
    BY DEF MkLink
  <2>2. PICK l0, l1, l2 : /\ l0 = MkLink(MinimalCell, "SHARED", NoNode)
                          /\ l1 = MkLink(AutoTx, "TX", Parent)
                          /\ l2 = MkLink(AutoRx, "RX", Parent)
    OBVIOUS
  <2>3. /\ l0.opt = "SHARED" /\ l1.opt = "TX" /\ l1.peer = Parent /\ l1.cell = AutoTx
        /\ l2.opt = "RX" /\ l2.peer = Parent /\ l2.cell = AutoRx
    BY <2>1, <2>2
  <2>4. x.sched = {l0, l1, l2}
    BY <1>4, <2>2
  <2> QED
    BY <2>3, <2>4 DEF CellsOf
<1>6. AutoTx[1] # AutoRx[1] /\ MinimalCell[1] # AutoRx[1]
  BY CellAssumption DEF MinimalCell
<1> HIDE DEF c, p, x
<1>7. Upward(c, rx[Parent]) = {} /\ Downward(p, rx[Child]) = {}
  BY <1>1, <1>2 DEF Upward, Downward, SentIn, HeardIn
<1>8. Flow(c, p, rx[Child], rx[Parent], x, Contested)
  BY <1>3, <1>7 DEF Flow
<1>9. ChildCells(x, app.rels)
  BY <1>4, <1>5, <1>6 DEF ChildCells, OffAutoRx
<1> QED
  BY <1>8, <1>9 DEF CellsInv, FlowNow, c, p, x

LEMMA CellsStep ==
  ASSUME OneInitiator(Child), SfInv, MinInv, AgreeInv, NumberInv(Child), CellsInv,
         [SfNext]_sfvars
  PROVE  CellsInv' /\ AddsUp(app.clean)
<1>0. PairInv /\ app \in AppState /\ SfPart
  BY PairHolds, SfInvParts
<1>1. PICK A : A = Contested
  OBVIOUS
<1>2. /\ FlowNow(A) /\ ChildCells(sf[Child], app.rels)
      /\ A \subseteq UpCell /\ (A = UpCell \/ AgreeNow) /\ (app.clean => A = {})
  BY <1>1 DEF CellsInv, Contested, AgreeInv, AgreeNow
<1>3. A \subseteq Contested'
  BY <1>1, CleanBefore DEF Contested
<1>4. RightTaken(Child)
  BY SfStep, NumbersNext, CommandFacts DEF SfInv
<1>5. ASSUME FlowNow(A)', ChildCells(sf'[Child], app'.rels) PROVE CellsInv'
  <2>1. FlowNow(Contested)'
    BY <1>3, <1>5, FlowMore DEF FlowNow
  <2> QED
    BY <1>5, <2>1 DEF CellsInv
<1>6. ASSUME CellsKept(A)
      PROVE  CellsInv' /\ AddsUp(app.clean)
  BY <1>5, <1>6 DEF CellsKept, AddsUp
<1>7. CASE UNCHANGED <<node, rx, sf>> /\ app'.rels = app.rels
  BY <1>2, <1>6, <1>7 DEF CellsKept, FlowNow
<1>8. CASE UNCHANGED sfvars
  BY <1>7, <1>8 DEF sfvars
<1>9. CASE AddCheck
  <2>1. app'.rels = app.rels
    BY <1>0, <1>9 DEF AddCheck, AppState
  <2> QED
    BY <1>7, <1>9, <2>1 DEF AddCheck
<1>10. ASSUME NEW rels \in SUBSET CellsOf(sf[Child].sched, "TX", Parent), Evaluate(rels)
       PROVE  CellsKept(A)
  <2>1. app'.rels = rels /\ UNCHANGED <<node, rx, sf>>
    BY <1>0, <1>10 DEF Evaluate, AppState
  <2>2. ChildCells(sf[Child], rels)
    BY <1>2 DEF ChildCells, OffAutoRx
  <2> QED
    BY <1>2, <2>1, <2>2 DEF CellsKept, FlowNow
<1>11. ASSUME NEW n \in Node, AddSf(n), UNCHANGED <<sf, app>> PROVE CellsKept(A)
  <2>1. FlowNow(A)'
    BY <1>0, <1>2, <1>11, AddSfFlow
  <2> QED
    BY <1>2, <1>11, <2>1 DEF CellsKept
<1>12. ASSUME NEW n \in Node, NEW p \in Node \ {n}, Transmit(n, p), UNCHANGED <<sf, app>>
       PROVE  CellsKept(A)
  <2>1. FlowNow(A)'
    BY <1>0, <1>2, <1>12, TransmitFlow
  <2> QED
    BY <1>2, <1>12, <2>1 DEF CellsKept
<1>13. ASSUME NEW n \in Node, NEW p \in Node \ {n}, NEW ok \in BOOLEAN, Report(n, p, ok)
       PROVE  CellsKept(A)
  <2>1. FlowNow(A)' /\ sf'[Child] = sf[Child]
    BY Zenon, <1>0, <1>2, <1>13, ReportFlow
  <2>2. app'.rels = app.rels
    BY Zenon, <1>0, <1>13 DEF Report, AppState
  <2> QED
    BY Zenon, <1>2, <2>1, <2>2 DEF CellsKept
<1>14. ASSUME NEW n \in Node, NEW s \in Slot, Expire(n, s) PROVE CellsKept(A)
  <2>1. FlowNow(A)' /\ sf' = sf
    BY <1>0, <1>2, <1>14, ExpireFlow
  <2>2. app'.rels = app.rels
    BY <1>0, <1>14 DEF Expire, AppState
  <2> QED
    BY <1>2, <2>1, <2>2 DEF CellsKept
<1>15. ASSUME NEW n \in Node, NEW res \in Result, Receive(n, res)
       PROVE  CellsInv' /\ AddsUp(app.clean)
  <2>1. PICK rels : rels = app.rels
    OBVIOUS
  <2>2. ChildCells(sf[Child], rels)
    BY <1>2, <2>1
  <2>3. /\ FlowNow(A)' /\ ChildCells(sf'[Child], rels)
        /\ AddsUp(A = {})
    BY <1>0, <1>2, <1>4, <1>15, <2>2, ReceiveFlow
  <2>4. app' = app
    BY <1>15 DEF Receive
  <2>5. CellsInv'
    BY <1>5, <2>1, <2>3, <2>4
  <2> QED
    BY <1>2, <2>3, <2>5 DEF AddsUp, AddUp
<1>16. \/ \E cands \in Candidates, flush \in Flushing, res \in Result :
            AddSend(cands, flush, res)
       \/ \E c \in app.rels, cands \in Candidates, res \in Result :
            RelocSend(c, cands, res)
       \/ \E c \in CellsOf(sf[Child].sched, "TX", Parent), res \in Result :
            RemoveSend(c, res)
       => CellsKept(A)
  BY <1>0, <1>2, CellsRequests
<1> QED
  BY <1>6, <1>8, <1>9, <1>10, <1>11, <1>12, <1>13, <1>14, <1>15, <1>16 DEF SfNext

(* Responses change the child's transmission cells by what was asked for,  *)
(* whatever was lost, delayed, refused or flushed before: response_input() *)
(* works on cells that still are what they were when the request was made. *)
(* As in ResponsesMatch, only the child starts transactions, there is no   *)
(* power cycle and the sequence numbers do not wrap.                       *)
THEOREM SfCellsAddUp ==
  ASSUME OneInitiator(Child)
  PROVE  SfSpec => CellsAddUp
<1> DEFINE A == AddsUp(app.clean)
<1>1. SfInit => SfInv /\ MinInv /\ AgreeInv /\ NumberInv(Child) /\ CellsInv
  BY SfInvInit, MinInit, AgreeInit, NumbersInit, CellsInit, CommandFacts DEF SfInit
<1>2. /\ SfInv /\ MinInv /\ AgreeInv /\ NumberInv(Child) /\ CellsInv
      /\ [SfNext]_sfvars
      => SfInv' /\ MinInv' /\ AgreeInv' /\ NumberInv(Child)' /\ CellsInv'
  <2> SUFFICES ASSUME SfInv, MinInv, AgreeInv, NumberInv(Child), CellsInv, [SfNext]_sfvars
               PROVE  SfInv' /\ MinInv' /\ AgreeInv' /\ NumberInv(Child)' /\ CellsInv'
    OBVIOUS
  <2>1. SfInv' /\ MinInv' /\ AgreeInv'
    BY SfStep, MinStep, AgreeStep
  <2>2. NumberInv(Child)'
    BY SfStep, NumbersNext, CommandFacts DEF SfInv
  <2>3. CellsInv'
    BY CellsStep
  <2> QED
    BY <2>1, <2>2, <2>3
<1>3. /\ SfInv /\ MinInv /\ AgreeInv /\ NumberInv(Child) /\ CellsInv
      /\ [SfNext]_sfvars
      => [A]_sfvars
  BY CellsStep
<1>4. A => CellsTraded
  BY DEF AddsUp, AddUp, CellsTraded
<1> HIDE DEF A
<1> QED
  BY <1>1, <1>2, <1>3, <1>4, PTL DEF SfSpec, CellsAddUp
=============================================================================

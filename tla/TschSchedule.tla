---------------------------- MODULE TschSchedule ----------------------------
(***************************************************************************)
(* The TSCH schedule (tsch-schedule.c), the TSCH lock and the way slot     *)
(* operation walks over the links (tsch-slot-operation.c).                 *)
(*                                                                         *)
(* The schedule is changed by processes, which are cooperative: one        *)
(* process, whose calls are in "todo" and which goes through the steps of  *)
(* a call in "pc".  Slot operation runs in interrupts, which may come      *)
(* between any two steps of the process.                                   *)
(***************************************************************************)
EXTENDS Integers, Sequences, FiniteSets, SequencesExt

CONSTANTS
  MaxLinks,   \* TSCH_SCHEDULE_MAX_LINKS, the length of link_memb
  Handle,     \* slotframe handles, finitely many numbers
  Size,       \* Size[h]: the length of slotframe h
  Addr,       \* link addresses
  Options,    \* sets of link options that callers ask for
  MaxNbr,     \* room in the neighbour table
  MaxSf,      \* TSCH_SCHEDULE_MAX_SLOTFRAMES
  DoRemove,   \* values of do_remove in calls of tsch_schedule_add_link()
  Period,     \* a common multiple of the lengths: asn is kept modulo this
  MaxCalls    \* bound: calls of the schedule's interface

ASSUME ScheduleAssumption ==
  /\ MaxLinks \in Nat
  /\ Handle \subseteq Nat /\ Size \in [Handle -> Nat \ {0}]
  /\ \E h \in Handle : \A k \in Handle : Size[k] <= Size[h]
  /\ Addr # {}
  /\ Options \subseteq SUBSET {"TX", "RX", "SHARED"}
  /\ MaxNbr \in Nat /\ MaxSf \in Nat /\ MaxCalls \in Nat
  /\ DoRemove \subseteq BOOLEAN
  /\ Period \in Nat \ {0} /\ \A h \in Handle : Period % Size[h] = 0

VARIABLES
  link,     \* contents of the blocks; a freed block keeps its old contents
  used,     \* the blocks allocated
  sfs,      \* slotframe_list: handles in list order
  lists,    \* lists[h]: links_list of slotframe h
  nbr,      \* the neighbours known: tx_links_count and its dedicated part
  lock,     \* tsch_locked and tsch_lock_requested
  slot,     \* slot operation: its phase, current_link and backup_link
  asn,      \* tsch_current_asn modulo Period
  todo,     \* calls the process still has to make
  pc,       \* step of the call in progress
  calls     \* calls made so far

vars == <<link, used, sfs, lists, nbr, lock, slot, asn, todo, pc, calls>>

(* The pool of links, and NULL. *)
Block == 1..MaxLinks
NoBlock == 0

(* The options of the minimal link: Tx, Rx and shared. *)
MinimalOpt == {"TX", "RX", "SHARED"}

MaxSize == CHOOSE n \in {Size[h] : h \in Handle} : \A h \in Handle : Size[h] <= n
Link == [sf : Handle, ts : 0..MaxSize, opt : Options \cup {MinimalOpt}, addr : Addr]
Nbr == [tx : 0..255, ded : 0..255]
Slots == [phase : {"off", "wait", "tx", "rx"}, cur : Block \cup {NoBlock},
          backup : Block \cup {NoBlock}, burst : BOOLEAN]

Init ==
  /\ link \in [Block -> {CHOOSE l \in Link : TRUE}]
  /\ used = {}
  /\ sfs = <<>> /\ lists = [h \in Handle |-> <<>>]
  /\ nbr = [a \in {} |-> 0]
  /\ lock = [locked |-> FALSE, requested |-> FALSE]
  /\ slot = [phase |-> "off", cur |-> NoBlock, backup |-> NoBlock, burst |-> FALSE]
  /\ asn = 0
  /\ todo = <<>> /\ pc = "idle" /\ calls = 0

InSlot == slot.phase \in {"tx", "rx"}
Has(l, o) == o \in l.opt

-----------------------------------------------------------------------------
(***************************************************************************)
(* tsch_schedule_get_next_active_link()                                    *)
(***************************************************************************)
(* All links, in the order in which the loops visit them. *)
InOrder ==
  LET upTo[i \in 0..Len(sfs)] == IF i = 0 THEN <<>> ELSE upTo[i - 1] \o lists[sfs[i]]
  IN  upTo[Len(sfs)]

(* Slots from now to the next occurrence of a link; never 0. *)
TimeTo(l, now) ==
  LET n == Size[l.sf]
      t == now % n
  IN  IF l.ts > t THEN l.ts - t ELSE n + l.ts - t

(* default_tsch_link_comparator(), where q counts the packets queued.  In  *)
(* what follows lk is the contents of the blocks.                          *)
Comparator(lk, a, b, q) ==
  IF Has(lk[a], "TX") /\ lk[a].addr # lk[b].addr /\ q[lk[a].addr] < q[lk[b].addr]
  THEN b ELSE a

(* Which of two links that overlap is preferred; NoBlock: not the new one. *)
NewBest_FirstWins(lk, best, b, q) == NoBlock

NewBest(lk, best, b, q) ==
  IF Has(lk[best], "TX") <=> Has(lk[b], "TX")
  THEN IF lk[b].sf = lk[best].sf THEN Comparator(lk, best, b, q)
       ELSE IF lk[b].sf < lk[best].sf THEN b ELSE NoBlock
  ELSE IF Has(lk[b], "TX") THEN b ELSE NoBlock

AsBackup(lk, backup, b) ==
  IF Has(lk[b], "RX") /\ (backup = NoBlock \/ lk[b].sf < lk[backup].sf) THEN b ELSE backup

Visit(lk, r, b, now, q) ==
  LET t == TimeTo(lk[b], now)
      new == NewBest(lk, r.best, b, q)
      backup1 == IF new # b THEN AsBackup(lk, r.backup, b) ELSE r.backup
      backup2 == IF new # r.best THEN AsBackup(lk, backup1, r.best) ELSE backup1
  IN  IF r.best = NoBlock \/ t < r.time
      THEN [best |-> b, backup |-> NoBlock, time |-> t]
      ELSE IF t = r.time
      THEN [best |-> IF new # NoBlock THEN new ELSE r.best, backup |-> backup2, time |-> t]
      ELSE r

NoLink == [best |-> NoBlock, backup |-> NoBlock, time |-> 1]

NextActive(lk, order, now, q) ==
  LET after[i \in 0..Len(order)] ==
        IF i = 0 THEN NoLink ELSE Visit(lk, after[i - 1], order[i], now, q)
  IN  after[Len(order)]

-----------------------------------------------------------------------------
(***************************************************************************)
(* Slot operation (interrupt).                                             *)
(***************************************************************************)
(* The end of a slot: the next link, none while the schedule is locked.  A *)
(* burst keeps the current link for the next slot.                         *)
Advance(cur, burst) ==
  \/ /\ burst /\ cur # NoBlock
     /\ slot' = [phase |-> "wait", cur |-> cur, backup |-> NoBlock, burst |-> TRUE]
     /\ asn' = (asn + 1) % Period
  \/ /\ ~burst \/ cur = NoBlock
     /\ \E q \in [Addr -> 0..1] :
          LET n == IF lock.locked THEN NoLink ELSE NextActive(link, InOrder, asn, q)
          IN  /\ slot' = [phase |-> "wait", cur |-> n.best, backup |-> n.backup, burst |-> burst]
              /\ asn' = (asn + n.time) % Period

schedvars == <<link, used, sfs, lists, nbr, lock, todo, pc, calls>>

(* tsch_slot_operation_start(), when the node has associated. *)
Associate ==
  /\ slot.phase = "off" /\ ~lock.locked
  /\ Advance(NoBlock, FALSE)
  /\ UNCHANGED schedvars

(* The slot is skipped without a link or when the lock is requested. *)
MustSkip == slot.cur = NoBlock \/ lock.requested

SlotSkip ==
  /\ slot.phase = "wait" /\ MustSkip
  /\ Advance(slot.cur, slot.burst)
  /\ UNCHANGED schedvars

(* Whether get_packet_and_neighbor_for_link() finds a packet for a link:   *)
(* not while the queues are locked.                                        *)
MayHavePacket(b) == {FALSE} \cup IF Has(link[b], "TX") /\ ~lock.locked THEN {TRUE} ELSE {}

(* Without a packet, the backup link takes over when the current one has   *)
(* no Rx flag or a higher slotframe handle.                                *)
BackupTakesOver ==
  /\ slot.backup # NoBlock
  /\ ~Has(link[slot.cur], "RX") \/ link[slot.backup].sf < link[slot.cur].sf

Run(b, packet) ==
  IF packet \/ Has(link[b], "RX")
  THEN /\ slot' = [slot EXCEPT !.phase = IF packet THEN "tx" ELSE "rx", !.cur = b,
                                !.burst = FALSE]
       /\ asn' = asn
  ELSE Advance(b, FALSE)

SlotStart ==
  /\ slot.phase = "wait" /\ ~MustSkip
  /\ \E packet \in MayHavePacket(slot.cur) :
       IF ~packet /\ BackupTakesOver
       THEN \E packet2 \in MayHavePacket(slot.backup) : Run(slot.backup, packet2)
       ELSE Run(slot.cur, packet)
  /\ UNCHANGED schedvars

SlotEnd ==
  /\ InSlot
  /\ \E burst \in BOOLEAN : Advance(slot.cur, burst)
  /\ UNCHANGED schedvars

(* tsch_disassociate() for lack of synchronisation, and tsch_reset(). *)
Leave ==
  /\ InSlot
  /\ slot' = [slot EXCEPT !.phase = "off", !.cur = NoBlock]
  /\ asn' = 0
  /\ UNCHANGED schedvars

Slot == SlotSkip \/ SlotStart \/ SlotEnd
-----------------------------------------------------------------------------
(***************************************************************************)
(* The process: calls of the schedule's interface.                         *)
(***************************************************************************)
AddSf(h) == [do |-> "addSf", sf |-> h]
RemoveSf(h) == [do |-> "removeSf", sf |-> h]
AddLink(l, rm) == [do |-> "addLink", l |-> l, rm |-> rm]
RemoveLink(b) == [do |-> "removeLink", b |-> b]
AddNbr(l) == [do |-> "addNbr", l |-> l]

MinimalLinks == {l \in Link : l.sf = 0 /\ l.ts = 0 /\ l.opt = MinimalOpt}

(* A call of the interface: the calls that it makes in turn.  The loop     *)
(* over all slotframes removes the head of the list until there is none.   *)
Interface ==
  {<<AddSf(h)>> : h \in Handle}
    \cup {<<RemoveSf(sfs[i])>> : i \in 1..Len(sfs)}
    \cup (UNION {{<<AddLink(l, rm)>> : rm \in DoRemove} :
                    l \in {k \in Link : k.opt \in Options /\ \E i \in 1..Len(sfs) : sfs[i] = k.sf}})
    \cup {<<RemoveLink(b)>> : b \in {c \in Block : \E i \in 1..Len(InOrder) : InOrder[i] = c}}
    \cup {[i \in 1..Len(sfs) |-> RemoveSf(sfs[i])] \o <<AddSf(0), AddLink(l, TRUE)>> :
             l \in MinimalLinks}

Call ==
  /\ todo = <<>> /\ pc = "idle" /\ calls < MaxCalls
  /\ todo' \in Interface
  /\ calls' = calls + 1
  /\ UNCHANGED <<link, used, sfs, lists, nbr, lock, slot, asn, pc>>

Now == Head(todo)
Done == todo' = Tail(todo) /\ pc' = "idle"

(* tsch_schedule_get_link_by_timeslot(): the first such link, or NoBlock. *)
LinkAt(h, ts) ==
  LET i == SelectInSeq(lists[h], LAMBDA b : link[b].ts = ts)
  IN  IF i = 0 THEN NoBlock ELSE lists[h][i]

IsSlotframe(h) == \E i \in 1..Len(sfs) : sfs[i] = h

(* What a call does before it asks for the lock, if it gets that far.      *)
(* tsch_queue_add_nbr() takes the lock only for a new neighbour.           *)
Replaced_Never(c) == NoBlock
Replaced(c) == IF c.rm THEN LinkAt(c.l.sf, c.l.ts) ELSE NoBlock

WantLock == lock' = [lock EXCEPT !.requested = TRUE] /\ pc' = "want" /\ todo' = todo
NoLock == lock' = lock

Begin ==
  /\ pc = "idle" /\ todo # <<>>
  /\ \/ /\ Now.do = "addSf"
        /\ IF IsSlotframe(Now.sf) THEN Done /\ NoLock ELSE WantLock
     \/ /\ Now.do = "removeSf"
        /\ IF lists[Now.sf] = <<>> THEN WantLock
           ELSE todo' = <<RemoveLink(Head(lists[Now.sf]))>> \o todo /\ pc' = pc /\ NoLock
     \/ /\ Now.do = "addLink"
        /\ \/ /\ ~IsSlotframe(Now.l.sf) \/ Now.l.ts > Size[Now.l.sf] - 1
              /\ Done /\ NoLock
           \/ /\ IsSlotframe(Now.l.sf) /\ Now.l.ts <= Size[Now.l.sf] - 1
              /\ IF Replaced(Now) = NoBlock THEN WantLock
                 ELSE /\ todo' = <<RemoveLink(Replaced(Now)), AddLink(Now.l, FALSE)>> \o Tail(todo)
                      /\ pc' = pc /\ NoLock
     \/ Now.do = "removeLink" /\ WantLock
     \/ /\ Now.do = "addNbr"
        /\ IF Now.l.addr \in DOMAIN nbr THEN pc' = "count" /\ todo' = todo /\ NoLock
           ELSE WantLock
  /\ UNCHANGED <<link, used, sfs, lists, nbr, slot, asn, calls>>

(* tsch_get_lock() waits for the end of the slot. *)
CanTake_NoWait == TRUE
CanTake == ~InSlot

TakeLock ==
  /\ pc = "want" /\ CanTake
  /\ lock' = [locked |-> TRUE, requested |-> FALSE]
  /\ pc' = IF Now.do = "removeLink" THEN "clear" ELSE "commit"
  /\ UNCHANGED <<link, used, sfs, lists, nbr, slot, asn, todo, calls>>

(* tsch_schedule_remove_link() takes the link from slot operation when it  *)
(* is the next one.                                                        *)
ClearCurrent_Never ==
  /\ pc = "clear"
  /\ pc' = "commit"
  /\ UNCHANGED <<link, used, sfs, lists, nbr, lock, slot, asn, todo, calls>>

ClearCurrent ==
  /\ pc = "clear"
  /\ slot' = IF slot.cur = Now.b THEN [slot EXCEPT !.cur = NoBlock] ELSE slot
  /\ pc' = "commit"
  /\ UNCHANGED <<link, used, sfs, lists, nbr, lock, asn, todo, calls>>

(* The change itself, under the lock. *)
CommitSf ==
  \/ /\ Now.do = "addSf"
     /\ sfs' = IF Len(sfs) < MaxSf THEN Append(sfs, Now.sf) ELSE sfs
  \/ /\ Now.do = "removeSf"
     /\ sfs' = RemoveFirst(sfs, Now.sf)

(* memb_alloc() *)
FirstFree == CHOOSE b \in Block \ used : \A c \in Block \ used : b <= c

CommitLink_NoFree ==
  \/ /\ Now.do = "addLink" /\ used # Block
     /\ link' = [link EXCEPT ![FirstFree] = Now.l]
     /\ used' = used \cup {FirstFree}
     /\ lists' = [lists EXCEPT ![Now.l.sf] = Append(@, FirstFree)]
  \/ /\ Now.do = "addLink" /\ used = Block
     /\ UNCHANGED <<link, used, lists>>
  \/ /\ Now.do = "removeLink"
     /\ lists' = [lists EXCEPT ![link[Now.b].sf] = RemoveFirst(@, Now.b)]
     /\ used' = used
     /\ link' = link

CommitLink_KeepsListed ==
  \/ /\ Now.do = "addLink" /\ used # Block
     /\ link' = [link EXCEPT ![FirstFree] = Now.l]
     /\ used' = used \cup {FirstFree}
     /\ lists' = [lists EXCEPT ![Now.l.sf] = Append(@, FirstFree)]
  \/ /\ Now.do = "addLink" /\ used = Block
     /\ UNCHANGED <<link, used, lists>>
  \/ /\ Now.do = "removeLink"
     /\ lists' = lists
     /\ used' = used \ {Now.b}
     /\ link' = link

CommitLink ==
  \/ /\ Now.do = "addLink" /\ used # Block
     /\ link' = [link EXCEPT ![FirstFree] = Now.l]
     /\ used' = used \cup {FirstFree}
     /\ lists' = [lists EXCEPT ![Now.l.sf] = Append(@, FirstFree)]
  \/ /\ Now.do = "addLink" /\ used = Block
     /\ UNCHANGED <<link, used, lists>>
  \/ /\ Now.do = "removeLink"
     /\ lists' = [lists EXCEPT ![link[Now.b].sf] = RemoveFirst(@, Now.b)]
     /\ used' = used \ {Now.b}
     /\ link' = link

CommitNbr ==
  /\ Now.do = "addNbr"
  /\ nbr' = IF Cardinality(DOMAIN nbr) < MaxNbr
            THEN [a \in DOMAIN nbr \cup {Now.l.addr} |->
                    IF a \in DOMAIN nbr THEN nbr[a] ELSE [tx |-> 0, ded |-> 0]]
            ELSE nbr

Commit ==
  /\ pc = "commit"
  /\ \/ CommitSf /\ UNCHANGED <<link, used, lists, nbr>>
     \/ CommitLink /\ UNCHANGED <<sfs, nbr>>
     \/ CommitNbr /\ UNCHANGED <<link, used, sfs, lists>>
  /\ pc' = IF Now.do = "addLink" /\ used = Block THEN "failed" ELSE "release"
  /\ UNCHANGED <<lock, slot, asn, todo, calls>>

(* The counters of a neighbour, uint8_t. *)
Count(n, l, d) ==
  [tx |-> (n.tx + d) % 256,
   ded |-> IF "SHARED" \in l.opt THEN n.ded ELSE (n.ded + d) % 256]

CountLink(l, d) ==
  nbr' = IF l.addr \in DOMAIN nbr THEN [nbr EXCEPT ![l.addr] = Count(@, l, d)] ELSE nbr

(* tsch_release_lock(), and what follows it. *)
Release ==
  /\ pc \in {"release", "failed"}
  /\ lock' = [lock EXCEPT !.locked = FALSE]
  /\ \/ /\ Now.do = "addLink" /\ pc = "release" /\ "TX" \in Now.l.opt
        /\ todo' = <<AddNbr(Now.l)>> \o Tail(todo) /\ pc' = "idle" /\ nbr' = nbr
     \/ /\ Now.do = "addNbr"
        /\ pc' = "count" /\ UNCHANGED <<todo, nbr>>
     \/ /\ Now.do = "removeLink" /\ Done
        /\ IF "TX" \in link[Now.b].opt THEN CountLink(link[Now.b], -1) ELSE nbr' = nbr
     \/ /\ Now.do \in {"addSf", "removeSf"}
           \/ (Now.do = "addLink" /\ ("TX" \notin Now.l.opt \/ pc = "failed"))
        /\ Done /\ nbr' = nbr
  /\ UNCHANGED <<link, used, sfs, lists, slot, asn, calls>>

CountTx ==
  /\ pc = "count"
  /\ CountLink(Now.l, 1)
  /\ Done
  /\ UNCHANGED <<link, used, sfs, lists, lock, slot, asn, calls>>

(* tsch_queue_add_nbr() for a packet and tsch_queue_free_unused_neighbors()*)
(* (a neighbour without packets, here: any without transmission links).    *)
Meet(a) ==
  /\ pc = "idle" /\ todo = <<>>
  /\ a \in Addr \ DOMAIN nbr /\ Cardinality(DOMAIN nbr) < MaxNbr
  /\ nbr' = [b \in DOMAIN nbr \cup {a} |-> IF b = a THEN [tx |-> 0, ded |-> 0] ELSE nbr[b]]
  /\ UNCHANGED <<link, used, sfs, lists, lock, slot, asn, todo, pc, calls>>

Forget(a) ==
  /\ pc = "idle" /\ todo = <<>>
  /\ a \in DOMAIN nbr /\ nbr[a].tx = 0
  /\ nbr' = [b \in DOMAIN nbr \ {a} |-> nbr[b]]
  /\ UNCHANGED <<link, used, sfs, lists, lock, slot, asn, todo, pc, calls>>

Process == Begin \/ TakeLock \/ ClearCurrent \/ Commit \/ Release \/ CountTx

Next ==
  \/ Associate \/ SlotSkip \/ SlotStart \/ SlotEnd \/ Leave
  \/ Call \/ Process
  \/ \E a \in Addr : Meet(a) \/ Forget(a)

Spec == Init /\ [][Next]_vars

(* The processor returns to the process after an interrupt, and a slot     *)
(* comes to its end: its steps are driven by the real-time timer.          *)
FairSpec == Spec /\ WF_vars(Process) /\ WF_vars(SlotEnd)

-----------------------------------------------------------------------------
AtRest == pc = "idle" /\ todo = <<>>
Listed(h) == {lists[h][i] : i \in 1..Len(lists[h])}

TypeOK ==
  /\ link \in [Block -> Link] /\ used \subseteq Block
  /\ sfs \in Seq(Handle) /\ lists \in [Handle -> Seq(Block)]
  /\ DOMAIN nbr \subseteq Addr /\ \A a \in DOMAIN nbr : nbr[a] \in Nbr
  /\ lock \in [locked : BOOLEAN, requested : BOOLEAN]
  /\ slot \in Slots /\ asn \in 0..Period - 1
  /\ pc \in {"idle", "want", "clear", "commit", "failed", "release", "count"}

(* A block of the pool is on the list of exactly the slotframe it belongs  *)
(* to, once, as long as it is allocated, and on none otherwise: nothing    *)
(* leaks when slotframes with links are removed or the pool runs out.      *)
PoolConsistent ==
  /\ TypeOK
  /\ used = UNION {Listed(h) : h \in Handle}
  /\ \A h \in Handle :
       /\ Cardinality(Listed(h)) = Len(lists[h])
       /\ \A b \in Listed(h) : link[b].sf = h /\ link[b].ts < Size[h]
       /\ lists[h] # <<>> => IsSlotframe(h)

(* A frame is never being sent while a process holds the lock: tsch_tx_slot*)
(* updates the queue at its end through functions that do nothing when     *)
(* TSCH is locked.  (A slot may start under the lock, but gets no packet.) *)
TxExcludesLock == slot.phase = "tx" => ~lock.locked

(* The link that slot operation has chosen for its next slot is a link of  *)
(* the schedule, never one removed since: "The link to be removed is       *)
(* scheduled as next, set it to NULL to abort the next link operation".    *)
(* Not so for a backup link, and the burst that follows when it has taken  *)
(* over: the code does not look at backup_link.                            *)
CurrentScheduled ==
  slot.phase = "wait" /\ ~slot.burst /\ slot.cur # NoBlock => slot.cur \in used

(* tsch_schedule_get_next_active_link() against its definition, for every *)
(* list of links, slotframe by slotframe, that the pool can hold or one    *)
(* longer: the best link is one of the earliest; Tx comes first, then the  *)
(* lowest slotframe handle; and when the best link cannot receive but      *)
(* another of the earliest can, the backup is such a link, of the lowest   *)
(* handle.  The search reads nothing else, so that one look, before the    *)
(* first call, is enough.                                                  *)
InSlotframe == {l \in Link : l.ts < Size[l.sf]}
BySlotframe(lk) ==
  \A i, j, k \in DOMAIN lk : i < j /\ j < k /\ lk[i].sf = lk[k].sf => lk[j].sf = lk[i].sf

NextActiveIs(lk, n, now) ==
  LET E == {b \in DOMAIN lk : \A c \in DOMAIN lk : TimeTo(lk[b], now) <= TimeTo(lk[c], now)}
      receivers == {b \in E \ {n.best} : Has(lk[b], "RX")}
  IN  /\ n.best \in E /\ n.time = TimeTo(lk[n.best], now)
      /\ (\E b \in E : Has(lk[b], "TX")) => Has(lk[n.best], "TX")
      /\ \A b \in E : Has(lk[b], "TX") = Has(lk[n.best], "TX") => lk[n.best].sf <= lk[b].sf
      /\ n.backup # NoBlock => n.backup \in E /\ Has(lk[n.backup], "RX")
      /\ (~Has(lk[n.best], "RX") /\ receivers # {}) =>
            /\ n.backup \in receivers
            /\ \A b \in receivers : lk[n.backup].sf <= lk[b].sf

NextActiveCorrect ==
  calls = 0 =>
    \A m \in 1..MaxLinks + 1 : \A lk \in [1..m -> InSlotframe] :
      BySlotframe(lk) =>
        \A now \in 0..Period - 1, q \in [Addr -> 0..1] :
          NextActiveIs(lk, NextActive(lk, [i \in 1..m |-> i], now, q), now)

(* Every call of the interface comes to its end. *)
CallsEnd == todo # <<>> ~> todo = <<>>

(* The links on the lists are a set that changes one link at a time and    *)
(* has at most one link per timeslot: module LinkSet.                      *)
Contents == {link[b] : b \in used}
Links == INSTANCE LinkSet WITH links <- Contents
ImplementsLinkSet == Links!Spec
=============================================================================

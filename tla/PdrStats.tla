------------------------------ MODULE PdrStats ------------------------------
(***************************************************************************)
(* Delivery statistics per cell and the relocation of bad cells: the list  *)
(* pdrCellList of tsch-slot-operation.c, written by the slot interrupt at  *)
(* the end of every transmission to the time source, and the relocation    *)
(* process of child.c, which evaluates the list, relocates cells over 6P   *)
(* and deletes them from the list.  The interrupt may come between any two *)
(* accesses of the process to what they share: the two counters that are   *)
(* compared, the length of the index array, the fields of an entry that is *)
(* moved, reading and writing cellAmount.                                  *)
(***************************************************************************)
EXTENDS Integers, Sequences, FiniteSets

CONSTANTS
  Slot,       \* timeslots; the minimal cell's is not counted
  MaxCells,   \* MAX_ALLOCATE_CELLS (60)
  MaxTx,      \* MAX_NUM_TX (32)
  MaxLinks,   \* bound: transmission cells in the schedule
  MaxTorn     \* bound: transmissions counted in an entry while it is moved

ASSUME PdrAssumption ==
  /\ MaxCells \in Nat \ {0} /\ MaxLinks \in Nat /\ MaxTorn \in Nat
  /\ MaxTx \in Nat /\ MaxTx >= 2

VARIABLES
  list,    \* pdrCellList: its cellAmount first entries
  rel,     \* tsch_pdr_rel_cells_index[], its first _len entries
  todo,    \* cell_rel_list[] of the process: timeslots it still relocates
  proc,    \* the process: where it is, the loop index, the accesses that are
           \* left there, and the number it has read before them
  links,   \* timeslots of the transmission links to the time source
  raced,   \* history: a cell was inserted in the middle of a deletion
  torn,    \* history: transmissions counted in an entry while it was moved or
           \* overwritten
  kept     \* history: the entries of rel when their indices became visible,
           \* until the deletion starts

vars == <<list, rel, todo, proc, links, raced, torn, kept>>

Stats == [slot : Slot, total : 0..MaxTx - 1, success : Nat, relevant : BOOLEAN]
Field == {"slot", "total", "success", "relevant"}

At(where, i) == [at |-> where, i |-> i, left |-> {}, n |-> 0]
Waiting == At("waiting", 1)

Init ==
  /\ list = <<>> /\ rel = <<>> /\ todo = <<>>
  /\ proc = Waiting
  /\ links \in SUBSET Slot /\ Cardinality(links) <= MaxLinks
  /\ raced = FALSE /\ torn = 0 /\ kept = <<>>

(***************************************************************************)
(* The end of a transmission slot (interrupt).                             *)
(***************************************************************************)
(* tsch_stats_get_cell_pdr(): the first entry of a timeslot. *)
EntriesOf_SkipsLast(ts) == {i \in 1..Len(list) - 1 : list[i].slot = ts}
EntriesOf(ts) == {i \in 1..Len(list) : list[i].slot = ts}
Skipped(ts) == \E k \in 1..Len(rel) : rel[k].slot = ts

(* Count a transmission; at MaxTx both counters are halved. *)
Counted_NoHalfSuccess(c, ok) ==
  LET total == c.total + 1
      success == IF ok THEN c.success + 1 ELSE c.success
      full == total >= MaxTx
  IN  [c EXCEPT !.total = IF full THEN total \div 2 ELSE total,
                !.success = success,
                !.relevant = @ \/ full]

Counted(c, ok) ==
  LET total == c.total + 1
      success == IF ok THEN c.success + 1 ELSE c.success
      full == total >= MaxTx
  IN  [c EXCEPT !.total = IF full THEN total \div 2 ELSE total,
                !.success = IF full THEN success \div 2 ELSE success,
                !.relevant = @ \/ full]

New(ts, ok) ==
  [slot |-> ts, total |-> 1, success |-> IF ok THEN 1 ELSE 0, relevant |-> FALSE]

Insert_Front(c) == list' = IF Len(list) < MaxCells THEN <<c>> \o list ELSE list
Insert(c) == list' = IF Len(list) < MaxCells THEN Append(list, c) ELSE list

(* tsch_stats_delete_cells_pdr_list() is running; it moves or overwrites   *)
(* entry i.                                                                *)
Deleting == proc.at \in {"copy", "move", "shrink"}
Moving(i) == proc.at = "move" /\ i \in {proc.n, rel[proc.i].index}

Written(i) ==
  /\ Moving(i) => torn < MaxTorn
  /\ torn' = IF Moving(i) THEN torn + 1 ELSE torn

Count(ts, ok) ==
  \E i \in EntriesOf(ts) :
    /\ \A j \in EntriesOf(ts) : i <= j
    /\ list' = [list EXCEPT ![i] = Counted(@, ok)]
    /\ Written(i)

(* An unknown cell is compared through a NULL pointer when rel is not      *)
(* empty: the comparison may hold, and then the cell is skipped.           *)
TxDone(ts, ok) ==
  /\ ts \in links
  /\ \/ EntriesOf(ts) # {} /\ ~Skipped(ts) /\ Count(ts, ok)
     \/ EntriesOf(ts) = {} /\ Insert(New(ts, ok)) /\ Written(Len(list) + 1)
     \/ /\ \/ EntriesOf(ts) # {} /\ Skipped(ts)
           \/ EntriesOf(ts) = {} /\ rel # <<>>
        /\ UNCHANGED <<list, torn>>
  /\ raced' = (raced \/ (Deleting /\ Len(list') > Len(list)))
  /\ UNCHANGED <<rel, todo, proc, links, kept>>

(***************************************************************************)
(* The relocation process.                                                 *)
(***************************************************************************)
(* tsch_stats_evaluate_cells_for_relocation() starts, looks at the entries *)
(* in turn, and returns.                                                   *)
StartEvaluate ==
  /\ proc = Waiting
  /\ proc' = At("evaluate", 1)
  /\ rel' = <<>> /\ todo' = <<>>
  /\ UNCHANGED <<list, links, raced, torn, kept>>

(* The ratio of a cell that has seen MaxTx transmissions.  Which of its    *)
(* counters is read first is up to the compiler.                           *)
EvaluateCell ==
  /\ proc.at = "evaluate" /\ proc.i <= Len(list)
  /\ LET c == list[proc.i] IN
       IF c.relevant /\ c.total > 0
       THEN proc' \in {[proc EXCEPT !.at = "ratio", !.left = {"success"}, !.n = c.total],
                       [proc EXCEPT !.at = "ratio", !.left = {"total"}, !.n = c.success]}
       ELSE proc' = At("evaluate", proc.i + 1)
  /\ UNCHANGED <<list, rel, todo, links, raced, torn, kept>>

(* The other counter: 1 - tx_success / tx_total > RELOCATE_PDRTHRES. *)
EvaluateRatio ==
  /\ proc.at = "ratio"
  /\ LET c == list[proc.i]
         total == IF "total" \in proc.left THEN c.total ELSE proc.n
         success == IF "success" \in proc.left THEN c.success ELSE proc.n
     IN  proc' = IF 2 * success < total THEN At("note", proc.i) ELSE At("evaluate", proc.i + 1)
  /\ UNCHANGED <<list, rel, todo, links, raced, torn, kept>>

(* From the increment of the length on, the interrupt sees the index. *)
EvaluateNote ==
  /\ proc.at = "note"
  /\ LET c == list[proc.i] IN
       /\ rel' = Append(rel, [index |-> proc.i, slot |-> c.slot])
       /\ kept' = Append(kept, c)
       /\ todo' = Append(todo, c.slot)
  /\ proc' = At("evaluate", proc.i + 1)
  /\ UNCHANGED <<list, links, raced, torn>>

EvaluateEnd ==
  /\ proc.at = "evaluate" /\ proc.i > Len(list)
  /\ proc' = At("relocate", 1)
  /\ UNCHANGED <<list, rel, todo, links, raced, torn, kept>>

(* One 6P relocation, which replaces the link or fails. *)
Relocate(new) ==
  /\ proc.at = "relocate" /\ todo # <<>>
  /\ todo' = Tail(todo)
  /\ links' \in {links, (links \ {Head(todo)}) \cup {new}}
  /\ UNCHANGED <<list, rel, proc, raced, torn, kept>>

RelocateEnd ==
  /\ proc.at = "relocate" /\ todo = <<>>
  /\ proc' = At("copy", 1)
  /\ kept' = <<>>
  /\ UNCHANGED <<list, rel, todo, links, raced, torn>>

(* tsch_stats_delete_cells_pdr_list(): entry by entry, the last entry is   *)
(* copied over the deleted one, a field at a time and in any order, then   *)
(* cellAmount is read and decremented.                                     *)
DeleteStart ==
  /\ proc.at = "copy" /\ proc.i <= Len(rel)
  /\ proc' = [proc EXCEPT !.at = "move", !.left = Field, !.n = Len(list)]
  /\ UNCHANGED <<list, rel, todo, links, raced, torn, kept>>

Merged(to, from, f) ==
  [slot     |-> IF f = "slot" THEN from.slot ELSE to.slot,
   total    |-> IF f = "total" THEN from.total ELSE to.total,
   success  |-> IF f = "success" THEN from.success ELSE to.success,
   relevant |-> IF f = "relevant" THEN from.relevant ELSE to.relevant]

(* An index past the end of the list writes to the array behind it. *)
DeleteCopy(f) ==
  /\ proc.at = "move" /\ f \in proc.left
  /\ LET d == rel[proc.i].index IN
       list' = IF d <= Len(list) THEN [list EXCEPT ![d] = Merged(@, list[proc.n], f)] ELSE list
  /\ proc' = [proc EXCEPT !.left = @ \ {f}]
  /\ UNCHANGED <<rel, todo, links, raced, torn, kept>>

DeleteAmount ==
  /\ proc.at = "move" /\ proc.left = {}
  /\ proc' = [proc EXCEPT !.at = "shrink", !.n = Len(list)]
  /\ UNCHANGED <<list, rel, todo, links, raced, torn, kept>>

DeleteShrink ==
  /\ proc.at = "shrink"
  /\ list' = SubSeq(list, 1, proc.n - 1)
  /\ proc' = At("copy", proc.i + 1)
  /\ UNCHANGED <<rel, todo, links, raced, torn, kept>>

DeleteEnd ==
  /\ proc.at = "copy" /\ proc.i > Len(rel)
  /\ proc' = Waiting
  /\ UNCHANGED <<list, rel, todo, links, raced, torn, kept>>

(* 6P ADD: a new cell. *)
AddLink(ts) ==
  /\ ts \notin links /\ Cardinality(links) < MaxLinks
  /\ links' = links \cup {ts}
  /\ UNCHANGED <<list, rel, todo, proc, raced, torn, kept>>

Process ==
  \/ StartEvaluate \/ EvaluateCell \/ EvaluateRatio \/ EvaluateNote \/ EvaluateEnd
  \/ \E ts \in Slot \ links : Relocate(ts)
  \/ RelocateEnd
  \/ DeleteStart \/ DeleteAmount \/ DeleteShrink \/ DeleteEnd
  \/ \E f \in Field : DeleteCopy(f)

Next ==
  \/ \E ts \in Slot, ok \in BOOLEAN : TxDone(ts, ok)
  \/ Process
  \/ \E ts \in Slot : AddLink(ts)

Spec == Init /\ [][Next]_vars

-----------------------------------------------------------------------------

Places == {"waiting", "evaluate", "ratio", "note", "relocate", "copy", "move", "shrink"}

TypeOK ==
  /\ list \in Seq(Stats) /\ Len(list) <= MaxCells
  /\ rel \in Seq([index : 1..MaxCells, slot : Slot])
  /\ todo \in Seq(Slot)
  /\ proc \in [at : Places, i : Nat \ {0}, left : SUBSET Field, n : Nat]
  /\ links \subseteq Slot
  /\ torn \in 0..MaxTorn /\ kept \in Seq(Stats)

(* The counters stay a ratio that can be evaluated: never a division by    *)
(* zero; and as long as no transmission was counted in an entry that was   *)
(* being moved or overwritten, no more successes than transmissions, and a *)
(* cell marked statistically relevant keeps at least half of MAX_NUM_TX    *)
(* transmissions, so that it is not judged by a handful of frames.  The    *)
(* entry that is being overwritten is excepted.                            *)
CountersSound ==
  \A i \in 1..Len(list) :
    /\ list[i].total >= 1
    /\ torn = 0 /\ ~(Moving(i) /\ i # proc.n) =>
         /\ list[i].success <= list[i].total
         /\ list[i].relevant => list[i].total >= MaxTx \div 2

(* From the evaluation to the deletion, while cells are relocated and the  *)
(* interrupt goes on inserting and counting, the indices kept for the      *)
(* deletion name the entries they were kept for, and those are what they   *)
(* were when their indices became visible.                                 *)
IndicesFresh ==
  proc.at \in {"evaluate", "ratio", "note", "relocate"} =>
     \A k \in 1..Len(rel) :
        /\ rel[k].index <= Len(list) /\ kept[k].slot = rel[k].slot
        /\ list[rel[k].index] = kept[k]

(* A timeslot has one entry, so that tsch_stats_get_cell_pdr() finds the   *)
(* counters of the cell ("given slotoffset returns the cell recorded in    *)
(* the pdr_cell_list"), unless a cell was inserted in the middle of a      *)
(* deletion, while the entry that is moved is there twice.                 *)
OneEntryPerSlot ==
  ~Deleting /\ ~raced => \A i, j \in 1..Len(list) : list[i].slot = list[j].slot => i = j

(* The deletions still to be made are covered by entries: cellAmount, a    *)
(* uint8_t, is never decremented below 0, whatever the interrupt inserted  *)
(* in between.                                                             *)
AmountNoUnderflow ==
  /\ proc.at \in {"copy", "move"} => Len(rel) - proc.i + 1 <= Len(list)
  /\ proc.at = "shrink" => proc.n > 0 /\ proc.n <= Len(list)

(* What the evaluation has noted stays fit for the deletion, until it      *)
(* starts and while it goes on.                                            *)
DeletionSound == IndicesFresh /\ AmountNoUnderflow
=============================================================================

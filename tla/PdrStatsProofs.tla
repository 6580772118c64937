--------------------------- MODULE PdrStatsProofs ---------------------------
(***************************************************************************)
(* Proofs about the delivery statistics, for any set of timeslots, length  *)
(* of the list and of the window, and for the slot interrupt between any   *)
(* two accesses of the relocation process that PdrStats tells apart.       *)
(***************************************************************************)
EXTENDS PdrStats, SequenceTheorems, TLAPS

(* The counters of one cell: a ratio; a ratio that means something. *)
Sound(c) == c \in Stats /\ 1 <= c.total

Fine(c) ==
  /\ c.success <= c.total
  /\ c.relevant => c.total >= MaxTx \div 2

(* The entry that is overwritten. *)
Hole(i) == proc.at = "move" /\ i = rel[proc.i].index /\ i # proc.n

FineButHole == torn = 0 => \A i \in 1..Len(list) : Hole(i) \/ Fine(list[i])

(* A field that is copied is the one of the last entry. *)
Same(a, b, f) ==
  /\ f = "slot" => a.slot = b.slot
  /\ f = "total" => a.total = b.total
  /\ f = "success" => a.success = b.success
  /\ f = "relevant" => a.relevant = b.relevant

Copied ==
  torn = 0 => \A i \in 1..Len(list), f \in Field \ proc.left :
                 Hole(i) => Same(list[i], list[proc.n], f)

(* Where the process is in the list.  The evaluation notes fewer cells     *)
(* than it has looked at; each deletion uses up one entry.                 *)
Progress ==
  /\ proc.at = "evaluate" => Len(rel) < proc.i /\ proc.i <= Len(list) + 1
  /\ proc.at \in {"ratio", "note"} => Len(rel) < proc.i /\ proc.i <= Len(list)
  /\ proc.at = "relocate" => Len(rel) <= Len(list)
  /\ Len(kept) = IF proc.at \in {"evaluate", "ratio", "note", "relocate"} THEN Len(rel) ELSE 0
  /\ proc.at = "copy" => Len(rel) - proc.i + 1 <= Len(list)
  /\ proc.at \in {"move", "shrink"} =>
       proc.i <= Len(rel) /\ Len(rel) - proc.i + 1 <= proc.n /\ proc.n <= Len(list)

(* The inductive invariant. *)
Inv ==
  /\ TypeOK /\ Progress /\ IndicesFresh
  /\ \A i \in 1..Len(list) : Sound(list[i])
  /\ FineButHole /\ Copied

-----------------------------------------------------------------------------
(* Halving keeps the order and at least half of the window. *)
LEMMA Halves ==
  ASSUME NEW m \in Nat, m >= 2, NEW s \in Nat
  PROVE  /\ s \div 2 \in Nat /\ m \div 2 \in Nat
         /\ m \div 2 < m /\ 1 <= m \div 2
         /\ s <= m => s \div 2 <= m \div 2
  OBVIOUS

(* Counting a transmission keeps the counters of a cell sound and fine.    *)
LEMMA CountedSound ==
  ASSUME NEW c, Sound(c), NEW ok \in BOOLEAN
  PROVE  /\ Sound(Counted(c, ok)) /\ Counted(c, ok).slot = c.slot
         /\ Fine(c) => Fine(Counted(c, ok))
<1>1. /\ MaxTx \in Nat /\ MaxTx >= 2 /\ c \in Stats
      /\ c.slot \in Slot /\ c.total \in 0..MaxTx - 1 /\ c.success \in Nat /\ 1 <= c.total
      /\ c.relevant \in BOOLEAN
  BY PdrAssumption DEF Sound, Stats
<1>2. PICK total : total = c.total + 1
  OBVIOUS
<1>3. PICK success : success = IF ok THEN c.success + 1 ELSE c.success
  OBVIOUS
<1>4. PICK d : d = Counted(c, ok)
  OBVIOUS
<1>5. total \in 2..MaxTx /\ success \in Nat /\ (c.success <= c.total => success <= total)
  BY <1>1, <1>2, <1>3
<1>6. CASE total >= MaxTx
  <2>1. total = MaxTx
    BY <1>1, <1>5, <1>6
  <2>2. d = [c EXCEPT !.total = total \div 2, !.success = success \div 2, !.relevant = TRUE]
    BY <1>1, <1>2, <1>3, <1>4, <1>6 DEF Counted
  <2>3. /\ success \div 2 \in Nat /\ total \div 2 \in 0..MaxTx - 1 /\ 1 <= total \div 2
        /\ success <= total => success \div 2 <= total \div 2
    BY <1>1, <1>5, <2>1, Halves
  <2>4. TRUE \in BOOLEAN
    OBVIOUS
  <2>5. d \in Stats /\ d.slot = c.slot /\ d.total = total \div 2 /\ d.success = success \div 2
    <3>1. PICK t : t = total \div 2
      OBVIOUS
    <3>2. PICK s : s = success \div 2
      OBVIOUS
    <3>3. d = [c EXCEPT !.total = t, !.success = s, !.relevant = TRUE]
      BY <2>2, <3>1, <3>2
    <3>4. t \in 0..MaxTx - 1 /\ s \in Nat /\ c \in Stats
      BY <1>1, <2>3, <3>1, <3>2
    <3>5. d \in Stats /\ d.slot = c.slot /\ d.total = t /\ d.success = s
      BY <2>4, <3>3, <3>4 DEF Stats
    <3> QED
      BY <3>1, <3>2, <3>5
  <2> QED
    BY <1>1, <1>4, <1>5, <2>1, <2>3, <2>5 DEF Sound, Fine
<1>7. CASE ~(total >= MaxTx)
  <2>1. d = [c EXCEPT !.total = total, !.success = success, !.relevant = c.relevant]
    BY <1>1, <1>2, <1>3, <1>4, <1>7 DEF Counted
  <2>2. total \in 0..MaxTx - 1
    BY <1>1, <1>5, <1>7
  <2>3. d \in Stats /\ d.slot = c.slot /\ d.total = total /\ d.success = success
        /\ d.relevant = c.relevant
    <3>1. PICK r : r = c.relevant
      OBVIOUS
    <3>2. /\ d = [c EXCEPT !.total = total, !.success = success, !.relevant = r]
          /\ success \in Nat /\ r \in BOOLEAN /\ c \in Stats
      BY <1>1, <1>5, <2>1, <3>1
    <3>3. d \in Stats /\ d.slot = c.slot /\ d.total = total /\ d.success = success /\ d.relevant = r
      BY <2>2, <3>2 DEF Stats
    <3> QED
      BY <3>1, <3>3
  <2>4. total >= c.total /\ MaxTx \div 2 \in Nat
    BY <1>1, <1>2, Halves
  <2> QED
    BY <1>1, <1>2, <1>4, <1>5, <2>3, <2>4 DEF Sound, Fine
<1> QED
  BY <1>6, <1>7

(* A new entry. *)
LEMMA NewSound ==
  ASSUME NEW ts \in Slot, NEW ok \in BOOLEAN
  PROVE  Sound(New(ts, ok)) /\ Fine(New(ts, ok)) /\ New(ts, ok).slot = ts
  BY PdrAssumption DEF Sound, Fine, New, Stats

(* Copying a field of a sound entry into another one. *)
LEMMA MergedSound ==
  ASSUME NEW a, NEW b, Sound(a), Sound(b), NEW f \in Field
  PROVE  /\ Sound(Merged(a, b, f)) /\ Same(Merged(a, b, f), b, f)
         /\ \A g \in Field : Same(a, b, g) => Same(Merged(a, b, f), b, g)
         /\ Merged(a, b, f).slot = IF f = "slot" THEN b.slot ELSE a.slot
  BY DEF Sound, Stats, Merged, Field, Same

(* Copying a field of an entry over itself. *)
LEMMA MergedSelf ==
  ASSUME NEW a, Sound(a), NEW f \in Field, Fine(a)
  PROVE  Fine(Merged(a, a, f))
  BY DEF Fine, Merged

LEMMA SameFine ==
  ASSUME NEW a, NEW b, Fine(b), \A f \in Field : Same(a, b, f)
  PROVE  Fine(a)
  BY DEF Fine, Field, Same

-----------------------------------------------------------------------------
(* What is noted for the deletion. *)
LEMMA RelEntry ==
  ASSUME TypeOK, NEW k \in 1..Len(rel)
  PROVE  rel[k].index \in 1..MaxCells /\ rel[k].slot \in Slot
<1> DEFINE S == [index : 1..MaxCells, slot : Slot]
<1>1. rel \in Seq(S)
  BY Zenon DEF TypeOK
<1>2. rel[k] \in S
  <2> HIDE DEF S
  <2> QED
    BY <1>1
<1> QED
  BY <1>2

(* An index noted for the deletion, while it is looked at or kept. *)
LEMMA FreshIndex ==
  ASSUME Inv, proc.at \in {"evaluate", "ratio", "note", "relocate"}, NEW k \in 1..Len(rel)
  PROVE  /\ rel[k].index \in 1..Len(list)
         /\ kept[k].slot = rel[k].slot /\ list[rel[k].index] = kept[k]
<1>1. list \in Seq(Stats) /\ TypeOK
  BY DEF Inv, TypeOK
<1>2. /\ rel[k].index <= Len(list)
      /\ kept[k].slot = rel[k].slot /\ list[rel[k].index] = kept[k]
  <2>1. IndicesFresh
    BY DEF Inv
  <2> QED
    BY <2>1, Zenon DEF IndicesFresh
<1>3. rel[k].index \in 1..MaxCells /\ MaxCells \in Nat /\ Len(list) \in Nat
  BY <1>1, RelEntry, PdrAssumption
<1>4. rel[k].index \in 1..Len(list)
  BY <1>2, <1>3
<1> QED
  BY <1>2, <1>4

(* The lengths are numbers. *)
LEMMA Lengths ==
  ASSUME TypeOK
  PROVE  /\ Len(list) \in Nat /\ Len(rel) \in Nat /\ Len(kept) \in Nat
         /\ proc.i \in Nat \ {0} /\ proc.n \in Nat /\ torn \in Nat
         /\ MaxTorn \in Nat /\ MaxCells \in Nat
<1>1. MaxTorn \in Nat /\ MaxCells \in Nat
  BY PdrAssumption
<1> QED
  BY <1>1 DEF TypeOK

(* The interrupt counts in one entry that is not to be deleted.            *)
LEMMA CountStep ==
  ASSUME Inv, NEW ts \in Slot, NEW ok \in BOOLEAN, ~Skipped(ts), NEW i \in EntriesOf(ts),
         list' = [list EXCEPT ![i] = Counted(list[i], ok)], Written(i),
         UNCHANGED <<rel, todo, proc, links, kept>>
  PROVE  Inv'
<1>1. /\ list \in Seq(Stats) /\ i \in 1..Len(list) /\ list[i].slot = ts
      /\ Sound(list[i]) /\ TypeOK
  BY DEF Inv, TypeOK, EntriesOf
<1>2. PICK c : c = Counted(list[i], ok)
  OBVIOUS
<1>3. Sound(c) /\ c.slot = ts /\ c \in Stats /\ (Fine(list[i]) => Fine(c))
  BY <1>1, <1>2, CountedSound DEF Sound
<1>4. /\ list' \in Seq(Stats) /\ Len(list') = Len(list)
      /\ list'[i] = c
      /\ \A j \in 1..Len(list) : j # i => list'[j] = list[j]
  BY <1>1, <1>2, <1>3
<1>5. \A j \in 1..Len(list') : Sound(list'[j])
  BY <1>3, <1>4 DEF Inv
<1>6. torn' \in 0..MaxTorn /\ (torn' = 0 => torn = 0 /\ ~Moving(i))
  <2>1. torn \in 0..MaxTorn /\ MaxTorn \in Nat
    BY <1>1, PdrAssumption DEF TypeOK
  <2>2. CASE Moving(i)
    BY <2>1, <2>2 DEF Written
  <2>3. CASE ~Moving(i)
    BY <2>1, <2>3 DEF Written
  <2> QED
    BY <2>2, <2>3
<1>7. TypeOK' /\ Progress'
  BY <1>4, <1>6 DEF Inv, TypeOK, Progress
<1>8. IndicesFresh'
  <2> SUFFICES ASSUME proc.at \in {"evaluate", "ratio", "note", "relocate"}, NEW k \in 1..Len(rel)
               PROVE  /\ rel[k].index <= Len(list')
                      /\ kept[k].slot = rel[k].slot /\ list'[rel[k].index] = kept[k]
    BY DEF IndicesFresh
  <2>1. /\ rel[k].index \in 1..Len(list)
        /\ kept[k].slot = rel[k].slot /\ list[rel[k].index] = kept[k]
    BY FreshIndex
  <2>2. rel[k].slot # ts
    BY DEF Skipped
  <2>3. rel[k].index # i
    BY <1>1, <2>1, <2>2
  <2> QED
    BY <1>1, <1>4, <2>1, <2>3
<1>9. \A j : Hole(j)' <=> Hole(j)
  BY DEF Hole
<1>10. FineButHole'
  <2> SUFFICES ASSUME torn' = 0, NEW j \in 1..Len(list'), ~Hole(j)'
               PROVE  Fine(list'[j])
    BY DEF FineButHole
  <2>1. j \in 1..Len(list) /\ ~Hole(j) /\ torn = 0
    BY <1>4, <1>6, <1>9
  <2>2. Fine(list[j])
    BY <2>1 DEF Inv, FineButHole
  <2> QED
    BY <1>3, <1>4, <2>1, <2>2
<1>11. Copied'
  <2> SUFFICES ASSUME torn' = 0, NEW j \in 1..Len(list'), NEW f \in Field \ proc'.left, Hole(j)'
               PROVE  Same(list'[j], list'[proc'.n], f)
    BY DEF Copied
  <2>1. torn = 0 /\ ~Moving(i) /\ Hole(j) /\ j \in 1..Len(list) /\ proc' = proc
    BY <1>4, <1>6, <1>9
  <2>2. i # j /\ i # proc.n
    BY <2>1 DEF Moving, Hole
  <2>3. proc.n \in 1..Len(list)
    <3>1. proc.at = "move"
      BY <2>1 DEF Hole
    <3>2. /\ proc.i <= Len(rel) /\ Len(rel) - proc.i + 1 <= proc.n /\ proc.n <= Len(list)
      BY <3>1 DEF Inv, Progress
    <3> QED
      BY <1>1, <3>2, Lengths
  <2>4. list'[j] = list[j] /\ list'[proc.n] = list[proc.n]
    BY <1>4, <2>1, <2>2, <2>3
  <2>5. Same(list[j], list[proc.n], f)
    BY <2>1 DEF Inv, Copied
  <2> QED
    BY <2>1, <2>4, <2>5
<1> QED
  BY <1>5, <1>7, <1>8, <1>10, <1>11 DEF Inv


(* The list and the counters of the entries are left alone. *)
LEMMA SameList ==
  ASSUME Inv, list' = list, rel' = rel, proc' = proc, torn' \in 0..MaxTorn,
         torn' = 0 => torn = 0
  PROVE  (\A j \in 1..Len(list) : Sound(list[j]))' /\ FineButHole' /\ Copied'
<1>1. \A j : Hole(j)' <=> Hole(j)
  BY DEF Hole
<1>2. FineButHole'
  BY <1>1 DEF Inv, FineButHole
<1>3. Copied'
  BY <1>1 DEF Inv, Copied
<1> QED
  BY <1>2, <1>3 DEF Inv

(* The interrupt inserts an entry behind the others. *)
LEMMA InsertStep ==
  ASSUME Inv, NEW c, Sound(c), Fine(c), Insert(c), Written(Len(list) + 1),
         UNCHANGED <<rel, todo, proc, links, kept>>
  PROVE  Inv'
<1>1. list \in Seq(Stats) /\ c \in Stats /\ MaxCells \in Nat /\ TypeOK /\ Len(list) \in Nat
  BY PdrAssumption DEF Inv, TypeOK, Sound
<1>2. torn' \in 0..MaxTorn /\ (torn' = 0 => torn = 0 /\ ~Moving(Len(list) + 1))
  <2>1. torn \in 0..MaxTorn /\ MaxTorn \in Nat
    BY <1>1, PdrAssumption DEF TypeOK
  <2>2. CASE Moving(Len(list) + 1)
    BY <2>1, <2>2 DEF Written
  <2>3. CASE ~Moving(Len(list) + 1)
    BY <2>1, <2>3 DEF Written
  <2> QED
    BY <2>2, <2>3
<1>3. CASE Len(list) < MaxCells
  <2>1. list' = Append(list, c)
    BY <1>3 DEF Insert
  <2>2. /\ list' \in Seq(Stats) /\ Len(list') = Len(list) + 1 /\ list'[Len(list) + 1] = c
        /\ \A j \in 1..Len(list) : list'[j] = list[j]
    BY <1>1, <2>1
  <2>3. \A j \in 1..Len(list') : j \in 1..Len(list) \/ j = Len(list) + 1
    BY <1>1, <2>2
  <2>4. \A j \in 1..Len(list') : Sound(list'[j])
    BY <2>2, <2>3 DEF Inv
  <2>5. TypeOK' /\ Progress'
    BY <1>1, <1>2, <1>3, <2>2 DEF Inv, TypeOK, Progress
  <2>6. IndicesFresh'
    <3> SUFFICES ASSUME proc.at \in {"evaluate", "ratio", "note", "relocate"}, NEW k \in 1..Len(rel)
                 PROVE  /\ rel[k].index <= Len(list')
                        /\ kept[k].slot = rel[k].slot /\ list'[rel[k].index] = kept[k]
      BY DEF IndicesFresh
    <3>1. /\ rel[k].index \in 1..Len(list)
          /\ kept[k].slot = rel[k].slot /\ list[rel[k].index] = kept[k]
      BY FreshIndex
    <3> QED
      BY <1>1, <2>2, <3>1
  <2>7. \A j : Hole(j)' <=> Hole(j)
    BY DEF Hole
  <2>8. FineButHole'
    <3> SUFFICES ASSUME torn' = 0, NEW j \in 1..Len(list'), ~Hole(j)'
                 PROVE  Fine(list'[j])
      BY DEF FineButHole
    <3>1. ~Hole(j) /\ torn = 0
      BY <1>2, <2>7
    <3>2. CASE j \in 1..Len(list)
      <4>1. Fine(list[j])
        BY <3>1, <3>2 DEF Inv, FineButHole
      <4> QED
        BY <2>2, <3>2, <4>1
    <3>3. CASE j = Len(list) + 1
      BY <2>2, <3>3
    <3> QED
      BY <2>3, <3>2, <3>3
  <2>9. Copied'
    <3> SUFFICES ASSUME torn' = 0, NEW j \in 1..Len(list'), NEW f \in Field \ proc'.left, Hole(j)'
                 PROVE  Same(list'[j], list'[proc'.n], f)
      BY DEF Copied
    <3>1. torn = 0 /\ ~Moving(Len(list) + 1) /\ Hole(j) /\ proc' = proc
      BY <1>2, <2>7
    <3>2. j \in 1..Len(list)
      BY <2>3, <3>1 DEF Moving, Hole
    <3>3. proc.n \in 1..Len(list)
      <4>1. proc.at = "move"
        BY <3>1 DEF Hole
      <4>2. /\ proc.i <= Len(rel) /\ Len(rel) - proc.i + 1 <= proc.n /\ proc.n <= Len(list)
        BY <4>1 DEF Inv, Progress
      <4> QED
        BY <1>1, <4>2, Lengths
    <3>4. list'[j] = list[j] /\ list'[proc.n] = list[proc.n]
      BY <2>2, <3>2, <3>3
    <3>5. Same(list[j], list[proc.n], f)
      BY <3>1, <3>2 DEF Inv, Copied
    <3> QED
      BY <3>1, <3>4, <3>5
  <2> QED
    BY <2>4, <2>5, <2>6, <2>8, <2>9 DEF Inv
<1>4. CASE ~(Len(list) < MaxCells)
  <2>1. list' = list /\ rel' = rel /\ proc' = proc
    BY <1>4 DEF Insert
  <2>2. (\A j \in 1..Len(list) : Sound(list[j]))' /\ FineButHole' /\ Copied'
    BY <1>2, <2>1, SameList
  <2>3. TypeOK' /\ Progress' /\ IndicesFresh'
    BY <1>2, <2>1 DEF Inv, TypeOK, Progress, IndicesFresh
  <2> QED
    BY <2>2, <2>3 DEF Inv
<1> QED
  BY <1>3, <1>4

(* The interrupt at the end of a slot. *)
LEMMA TxDoneStep ==
  ASSUME Inv, NEW ts \in Slot, NEW ok \in BOOLEAN, TxDone(ts, ok)
  PROVE  Inv'
<1>1. UNCHANGED <<rel, todo, proc, links, kept>>
  BY DEF TxDone
<1>2. ASSUME list' = list, torn' = torn
      PROVE  Inv'
  <2>1. torn' \in 0..MaxTorn /\ (torn' = 0 => torn = 0)
    BY <1>2 DEF Inv, TypeOK
  <2>2. (\A j \in 1..Len(list) : Sound(list[j]))' /\ FineButHole' /\ Copied'
    BY <1>1, <1>2, <2>1, SameList
  <2>3. TypeOK' /\ Progress' /\ IndicesFresh'
    BY <1>1, <1>2 DEF Inv, TypeOK, Progress, IndicesFresh
  <2> QED
    BY <2>2, <2>3 DEF Inv
<1>3. ASSUME ~Skipped(ts), NEW i \in EntriesOf(ts), Written(i),
             list' = [list EXCEPT ![i] = Counted(@, ok)]
      PROVE  Inv'
  BY <1>1, <1>3, CountStep
<1>4. ASSUME Insert(New(ts, ok)), Written(Len(list) + 1)
      PROVE  Inv'
  <2>1. PICK c : c = New(ts, ok)
    OBVIOUS
  <2>2. Sound(c) /\ Fine(c) /\ Insert(c)
    BY <1>4, <2>1, NewSound
  <2> QED
    BY <1>1, <1>4, <2>2, InsertStep
<1> QED
  BY <1>2, <1>3, <1>4 DEF TxDone, Count


-----------------------------------------------------------------------------
(* While no entry is moved, all are fine. *)
LEMMA AllFine ==
  ASSUME Inv, proc.at # "move", list' = list, torn' = torn
  PROVE  /\ (\A i \in 1..Len(list) : Sound(list[i]))' /\ FineButHole'
         /\ (proc.at # "move")' => Copied'
<1>1. torn = 0 => \A i \in 1..Len(list) : Fine(list[i])
  BY DEF Inv, FineButHole, Hole
<1>2. FineButHole'
  BY <1>1 DEF FineButHole
<1>3. (proc.at # "move")' => Copied'
  BY DEF Copied, Hole
<1> QED
  BY <1>2, <1>3 DEF Inv

(* The evaluation looks at an entry. *)
LEMMA EvaluateStep ==
  ASSUME Inv, EvaluateCell \/ EvaluateRatio
  PROVE  Inv'
<1>1. /\ proc.at \in {"evaluate", "ratio"} /\ list' = list /\ rel' = rel /\ todo' = todo
      /\ links' = links /\ torn' = torn /\ kept' = kept
      /\ TypeOK /\ IndicesFresh /\ Progress
  BY DEF Inv, EvaluateCell, EvaluateRatio
<1>2. /\ Len(list) \in Nat /\ Len(rel) \in Nat /\ proc.i \in Nat \ {0} /\ proc.i <= Len(list)
      /\ Len(rel) < proc.i
  BY <1>1, Lengths DEF Progress, EvaluateCell, EvaluateRatio
<1>3. list[proc.i] \in Stats
  BY <1>1, <1>2 DEF TypeOK
<1>4. /\ proc' \in [at : Places, i : Nat \ {0}, left : SUBSET Field, n : Nat]
      /\ \/ proc'.at = "evaluate" /\ proc'.i = proc.i + 1
         \/ proc'.at \in {"ratio", "note"} /\ proc'.i = proc.i
  <2>1. proc \in [at : Places, i : Nat \ {0}, left : SUBSET Field, n : Nat]
    BY <1>1 DEF TypeOK
  <2>2. CASE EvaluateCell
    <3>1. PICK c : c = list[proc.i]
      OBVIOUS
    <3>2. c.total \in Nat /\ c.success \in Nat
      BY <1>3, <3>1, PdrAssumption DEF Stats
    <3>3. CASE c.relevant /\ c.total > 0
      <4>1. \/ proc' = [proc EXCEPT !.at = "ratio", !.left = {"success"}, !.n = c.total]
            \/ proc' = [proc EXCEPT !.at = "ratio", !.left = {"total"}, !.n = c.success]
        BY <2>2, <3>1, <3>3 DEF EvaluateCell
      <4>2. "ratio" \in Places /\ {"success"} \in SUBSET Field /\ {"total"} \in SUBSET Field
        BY DEF Places, Field
      <4> QED
        BY <2>1, <3>2, <4>1, <4>2
    <3>4. CASE ~(c.relevant /\ c.total > 0)
      BY <1>2, <2>2, <3>1, <3>4 DEF EvaluateCell, At, Places, Field
    <3> QED
      BY <3>3, <3>4
  <2>3. CASE EvaluateRatio
    BY <1>2, <2>1, <2>3 DEF EvaluateRatio, At, Places, Field
  <2> QED
    BY <2>2, <2>3
<1>5. TypeOK'
  BY <1>1, <1>4 DEF TypeOK
<1>6. Progress' /\ IndicesFresh'
  BY <1>1, <1>2, <1>4 DEF Progress, IndicesFresh
<1>7. (\A i \in 1..Len(list) : Sound(list[i]))' /\ FineButHole' /\ Copied'
  BY <1>1, <1>4, AllFine
<1> QED
  BY <1>5, <1>6, <1>7 DEF Inv

(* The evaluation notes a bad cell. *)
LEMMA NoteStep ==
  ASSUME Inv, EvaluateNote
  PROVE  Inv'
<1> DEFINE S == [index : 1..MaxCells, slot : Slot]
<1>1. PICK i : i = proc.i
  OBVIOUS
<1>2. PICK c : c = list[i]
  OBVIOUS
<1>3. PICK d : d = [index |-> i, slot |-> c.slot]
  OBVIOUS
<1>4. /\ proc.at = "note" /\ i \in 1..Len(list) /\ Len(rel) < i /\ Len(kept) = Len(rel)
      /\ list \in Seq(Stats) /\ rel \in Seq(S) /\ todo \in Seq(Slot) /\ kept \in Seq(Stats)
      /\ Len(list) <= MaxCells /\ MaxCells \in Nat /\ torn \in 0..MaxTorn
      /\ list' = list /\ links' = links /\ links \subseteq Slot /\ torn' = torn
      /\ proc' = At("evaluate", i + 1)
      /\ rel' = Append(rel, d) /\ kept' = Append(kept, c) /\ todo' = Append(todo, c.slot)
  BY <1>1, <1>2, <1>3, PdrAssumption DEF Inv, TypeOK, Progress, EvaluateNote
<1>5. c \in Stats /\ c.slot \in Slot /\ d \in S /\ d.index = i /\ d.slot = c.slot
  <2>1. c \in Stats /\ i \in 1..MaxCells
    BY <1>2, <1>4
  <2>2. c.slot \in Slot
    BY <2>1 DEF Stats
  <2> QED
    BY <1>3, <2>1, <2>2
<1> HIDE DEF S
<1>6. /\ rel' \in Seq(S) /\ Len(rel') = Len(rel) + 1 /\ rel'[Len(rel) + 1] = d
      /\ \A k \in 1..Len(rel) : rel'[k] = rel[k]
      /\ Len(rel) \in Nat
  BY <1>4, <1>5
<1>7. /\ kept' \in Seq(Stats) /\ Len(kept') = Len(kept) + 1 /\ kept'[Len(kept) + 1] = c
      /\ \A k \in 1..Len(kept) : kept'[k] = kept[k]
      /\ todo' \in Seq(Slot)
  BY <1>4, <1>5
<1>8. proc'.at = "evaluate" /\ proc'.i = i + 1
      /\ proc' \in [at : Places, i : Nat \ {0}, left : SUBSET Field, n : Nat]
  BY <1>4 DEF At, Places, Field
<1>9. TypeOK'
  BY <1>4, <1>6, <1>7, <1>8 DEF TypeOK, S
<1>10. Progress'
  BY <1>4, <1>6, <1>7, <1>8 DEF Progress
<1>11. IndicesFresh'
  <2> SUFFICES ASSUME NEW k \in 1..Len(rel')
               PROVE  /\ rel'[k].index <= Len(list)
                      /\ kept'[k].slot = rel'[k].slot /\ list[rel'[k].index] = kept'[k]
    BY <1>4 DEF IndicesFresh
  <2>1. CASE k \in 1..Len(rel)
    <3>1. /\ rel[k].index \in 1..Len(list)
          /\ kept[k].slot = rel[k].slot /\ list[rel[k].index] = kept[k]
      BY <1>4, <2>1, FreshIndex
    <3> QED
      BY <1>4, <1>6, <1>7, <2>1, <3>1
  <2>2. CASE k = Len(rel) + 1
    BY <1>2, <1>4, <1>5, <1>6, <1>7, <2>2
  <2> QED
    BY <1>6, <2>1, <2>2
<1>12. (\A j \in 1..Len(list) : Sound(list[j]))' /\ FineButHole' /\ Copied'
  BY <1>4, <1>8, AllFine
<1> QED
  BY <1>9, <1>10, <1>11, <1>12 DEF Inv

(* The steps that write neither the list nor the indices. *)
LEMMA ProcessStep ==
  ASSUME Inv, \/ StartEvaluate \/ EvaluateEnd \/ RelocateEnd \/ DeleteEnd \/ DeleteStart
              \/ \E ts \in Slot \ links : Relocate(ts)
  PROVE  Inv'
<1>1. list' = list /\ torn' = torn /\ proc.at # "move" /\ TypeOK /\ Progress /\ IndicesFresh
  BY DEF Inv, StartEvaluate, EvaluateEnd, RelocateEnd, DeleteEnd, DeleteStart, Relocate,
         Waiting, At
<1>2. /\ Len(list) \in Nat /\ Len(rel) \in Nat /\ Len(kept) \in Nat
      /\ proc.i \in Nat \ {0} /\ proc.n \in Nat
  BY <1>1, Lengths
<1>3. (\A i \in 1..Len(list) : Sound(list[i]))' /\ FineButHole'
      /\ ((proc.at # "move")' => Copied')
  BY <1>1, AllFine
<1>4. ASSUME Progress', IndicesFresh', TypeOK', (proc.at # "move")'
      PROVE  Inv'
  BY <1>3, <1>4 DEF Inv
<1>5. CASE StartEvaluate
  <2>1. TypeOK'
    BY <1>1, <1>5 DEF TypeOK, StartEvaluate, At, Places
  <2>2. Progress' /\ IndicesFresh' /\ proc'.at # "move"
    BY <1>1, <1>2, <1>5 DEF Progress, IndicesFresh, StartEvaluate, At, Waiting
  <2> QED
    BY <1>4, <2>1, <2>2
<1>6. CASE EvaluateEnd
  <2>1. TypeOK'
    BY <1>1, <1>6 DEF TypeOK, EvaluateEnd, At, Places
  <2>2. Progress' /\ IndicesFresh' /\ proc'.at # "move"
    BY <1>1, <1>2, <1>6 DEF Progress, IndicesFresh, EvaluateEnd, At
  <2> QED
    BY <1>4, <2>1, <2>2
<1>7. CASE RelocateEnd
  <2>1. TypeOK'
    BY <1>1, <1>7 DEF TypeOK, RelocateEnd, At, Places
  <2>2. Progress' /\ IndicesFresh' /\ proc'.at # "move"
    BY <1>1, <1>2, <1>7 DEF Progress, IndicesFresh, RelocateEnd, At
  <2> QED
    BY <1>4, <2>1, <2>2
<1>8. CASE DeleteEnd
  <2>1. TypeOK'
    BY <1>1, <1>8 DEF TypeOK, DeleteEnd, Waiting, At, Places
  <2>2. Progress' /\ IndicesFresh' /\ proc'.at # "move"
    BY <1>1, <1>2, <1>8 DEF Progress, IndicesFresh, DeleteEnd, Waiting, At
  <2> QED
    BY <1>4, <2>1, <2>2
<1>9. ASSUME NEW ts \in Slot, Relocate(ts)
      PROVE  Inv'
  <2>1. todo' \in Seq(Slot)
    BY <1>1, <1>9, HeadTailProperties DEF TypeOK, Relocate
  <2>2. links' \subseteq Slot
    BY <1>1, <1>9 DEF TypeOK, Relocate
  <2>3. TypeOK' /\ Progress' /\ IndicesFresh' /\ proc'.at # "move"
    BY <1>1, <1>9, <2>1, <2>2 DEF TypeOK, Progress, IndicesFresh, Relocate
  <2> QED
    BY <1>4, <2>3
<1>10. CASE DeleteStart
  <2>1. /\ proc.at = "copy" /\ proc.i <= Len(rel)
        /\ proc' = [proc EXCEPT !.at = "move", !.left = Field, !.n = Len(list)]
        /\ proc \in [at : Places, i : Nat \ {0}, left : SUBSET Field, n : Nat]
        /\ rel' = rel /\ todo' = todo /\ links' = links /\ kept' = kept
    BY <1>1, <1>10 DEF TypeOK, DeleteStart
  <2>2. /\ proc' \in [at : Places, i : Nat \ {0}, left : SUBSET Field, n : Nat]
        /\ proc'.at = "move" /\ proc'.left = Field /\ proc'.n = Len(list) /\ proc'.i = proc.i
    BY <1>2, <2>1 DEF Places
  <2>3. TypeOK' /\ Progress' /\ IndicesFresh'
    BY <1>1, <1>2, <2>1, <2>2 DEF TypeOK, Progress, IndicesFresh
  <2>4. Copied'
    BY <2>2 DEF Copied
  <2> QED
    BY <1>3, <2>3, <2>4 DEF Inv
<1> QED
  BY <1>5, <1>6, <1>7, <1>8, <1>9, <1>10

-----------------------------------------------------------------------------
(* The deletion copies a field of the last entry into another one. *)
LEMMA CopyStep ==
  ASSUME Inv, NEW f \in Field, DeleteCopy(f)
  PROVE  Inv'
<1>1. PICK d : d = rel[proc.i].index
  OBVIOUS
<1>2. PICK n : n = proc.n
  OBVIOUS
<1>3. /\ proc.at = "move" /\ f \in proc.left /\ proc.i \in 1..Len(rel) /\ n \in 1..Len(list)
      /\ Len(rel) - proc.i + 1 <= n /\ Len(kept) = 0 /\ list \in Seq(Stats)
      /\ proc \in [at : Places, i : Nat \ {0}, left : SUBSET Field, n : Nat]
      /\ proc' = [proc EXCEPT !.left = @ \ {f}] /\ torn' = torn
      /\ rel' = rel /\ todo' = todo /\ links' = links /\ kept' = kept
      /\ TypeOK
  <2>1. TypeOK /\ Progress /\ proc.at = "move"
    BY DEF Inv, DeleteCopy
  <2>2. /\ Len(list) \in Nat /\ Len(rel) \in Nat /\ proc.i \in Nat \ {0} /\ proc.n \in Nat
    BY <2>1, Lengths
  <2>3. proc.i \in 1..Len(rel) /\ n \in 1..Len(list) /\ Len(rel) - proc.i + 1 <= n /\ Len(kept) = 0
    BY <1>2, <2>1, <2>2 DEF Progress
  <2> QED
    BY <2>1, <2>3 DEF TypeOK, DeleteCopy
<1>4. d \in Nat \ {0}
  <2>1. rel[proc.i].index \in 1..MaxCells /\ MaxCells \in Nat
    BY <1>3, RelEntry, PdrAssumption
  <2> QED
    BY <1>1, <2>1
<1>5. PICK c : c = Merged(list[d], list[n], f)
  OBVIOUS
<1>6. list' = IF d <= Len(list) THEN [list EXCEPT ![d] = c] ELSE list
  <2>1. list' = LET e == rel[proc.i].index IN
          IF e <= Len(list) THEN [list EXCEPT ![e] = Merged(@, list[proc.n], f)] ELSE list
    BY Zenon DEF DeleteCopy
  <2>2. list' = IF d <= Len(list) THEN [list EXCEPT ![d] = Merged(list[d], list[n], f)] ELSE list
    BY <1>1, <1>2, <2>1
  <2> QED
    BY <1>5, <2>2
<1>7. d \in 1..Len(list) =>
         /\ Sound(list[d]) /\ Sound(list[n]) /\ Sound(c) /\ Same(c, list[n], f)
         /\ \A g \in Field : Same(list[d], list[n], g) => Same(c, list[n], g)
  <2> SUFFICES ASSUME d \in 1..Len(list)
               PROVE  /\ Sound(list[d]) /\ Sound(list[n]) /\ Sound(c) /\ Same(c, list[n], f)
                      /\ \A g \in Field : Same(list[d], list[n], g) => Same(c, list[n], g)
    OBVIOUS
  <2>1. Sound(list[d]) /\ Sound(list[n])
    BY <1>3 DEF Inv
  <2> QED
    BY <1>5, <2>1, MergedSound
<1>8. /\ list' \in Seq(Stats) /\ Len(list') = Len(list)
      /\ \A j \in 1..Len(list) : list'[j] = IF j = d THEN c ELSE list[j]
  <2>1. CASE d <= Len(list)
    <3>1. d \in 1..Len(list)
      BY <1>3, <1>4, <2>1
    <3>2. c \in Stats
      BY <1>7, <3>1 DEF Sound
    <3> QED
      BY <1>3, <1>6, <2>1, <3>1, <3>2
  <2>2. CASE ~(d <= Len(list))
    BY <1>3, <1>6, <2>2
  <2> QED
    BY <2>1, <2>2
<1>9. \A j \in 1..Len(list') : Sound(list'[j])
  BY <1>7, <1>8 DEF Inv
<1>10. /\ proc' \in [at : Places, i : Nat \ {0}, left : SUBSET Field, n : Nat]
       /\ proc'.at = "move" /\ proc'.left = proc.left \ {f} /\ proc'.n = n /\ proc'.i = proc.i
  BY <1>2, <1>3
<1>11. TypeOK' /\ Progress' /\ IndicesFresh'
  <2>1. TypeOK'
    BY <1>3, <1>8, <1>10 DEF TypeOK
  <2> QED
    BY <1>3, <1>8, <1>10, <2>1 DEF Progress, IndicesFresh
<1>12. \A j : (Hole(j) <=> j = d /\ j # n) /\ (Hole(j)' <=> j = d /\ j # n)
  BY <1>1, <1>2, <1>3, <1>10 DEF Hole
<1>13. FineButHole'
  <2> SUFFICES ASSUME torn = 0, NEW j \in 1..Len(list), ~(j = d /\ j # n)
               PROVE  Fine(list'[j])
    BY <1>3, <1>8, <1>12 DEF FineButHole
  <2>1. Fine(list[j])
    BY <1>12 DEF Inv, FineButHole
  <2>2. CASE j # d
    BY <1>8, <2>1, <2>2
  <2>3. CASE j = d
    <3>1. j = n /\ c = Merged(list[j], list[j], f) /\ Sound(list[j])
      BY <1>5, <1>7, <2>3
    <3>2. Fine(c)
      BY <2>1, <3>1, MergedSelf
    <3> QED
      BY <1>8, <2>3, <3>2
  <2> QED
    BY <2>2, <2>3
<1>14. Copied'
  <2> SUFFICES ASSUME torn = 0, NEW j \in 1..Len(list), NEW g \in Field \ proc'.left, j = d, j # n
               PROVE  Same(list'[j], list'[n], g)
    BY <1>3, <1>8, <1>10, <1>12 DEF Copied
  <2>1. list'[j] = c /\ list'[n] = list[n]
    BY <1>3, <1>8
  <2>2. CASE g = f
    BY <1>7, <2>1, <2>2
  <2>3. CASE g # f
    <3>1. g \in Field \ proc.left /\ Hole(j)
      BY <1>10, <1>12, <2>3
    <3>2. Same(list[d], list[n], g)
      BY <1>2, <3>1 DEF Inv, Copied
    <3> QED
      BY <1>7, <2>1, <3>1, <3>2
  <2> QED
    BY <2>2, <2>3
<1> QED
  BY <1>9, <1>11, <1>13, <1>14 DEF Inv

(* It reads cellAmount. *)
LEMMA AmountStep ==
  ASSUME Inv, DeleteAmount
  PROVE  Inv'
<1>1. /\ proc.at = "move" /\ proc.left = {} /\ list' = list /\ rel' = rel /\ todo' = todo
      /\ links' = links /\ kept' = kept /\ torn' = torn
      /\ proc \in [at : Places, i : Nat \ {0}, left : SUBSET Field, n : Nat]
      /\ proc' = [proc EXCEPT !.at = "shrink", !.n = Len(list)]
      /\ TypeOK /\ Progress
  BY DEF Inv, TypeOK, DeleteAmount
<1>2. /\ Len(list) \in Nat /\ Len(rel) \in Nat /\ proc.i \in Nat \ {0} /\ proc.n \in Nat
  BY <1>1, Lengths
<1>3. /\ proc.i <= Len(rel) /\ Len(rel) - proc.i + 1 <= proc.n /\ proc.n <= Len(list)
      /\ Len(kept) = 0
  BY <1>1 DEF Progress
<1>4. /\ proc' \in [at : Places, i : Nat \ {0}, left : SUBSET Field, n : Nat]
      /\ proc'.at = "shrink" /\ proc'.n = Len(list) /\ proc'.i = proc.i
  BY <1>1, <1>2 DEF Places
<1>5. TypeOK' /\ Progress' /\ IndicesFresh'
  BY <1>1, <1>2, <1>3, <1>4 DEF TypeOK, Progress, IndicesFresh
<1>6. ASSUME torn = 0, NEW j \in 1..Len(list)
      PROVE  Fine(list[j])
  <2>1. CASE ~Hole(j)
    BY <1>6, <2>1 DEF Inv, FineButHole
  <2>2. CASE Hole(j)
    <3>1. proc.n \in 1..Len(list) /\ ~Hole(proc.n)
      BY <1>2, <1>3 DEF Hole
    <3>2. Fine(list[proc.n])
      BY <1>6, <3>1 DEF Inv, FineButHole
    <3>3. \A f \in Field : Same(list[j], list[proc.n], f)
      BY <1>1, <1>6, <2>2 DEF Inv, Copied
    <3> QED
      BY <3>2, <3>3, SameFine
  <2> QED
    BY <2>1, <2>2
<1>7. FineButHole' /\ Copied'
  BY <1>1, <1>4, <1>6 DEF FineButHole, Copied, Hole
<1>8. (\A j \in 1..Len(list) : Sound(list[j]))'
  BY <1>1 DEF Inv
<1> QED
  BY <1>5, <1>7, <1>8 DEF Inv


(* It drops the last entry. *)
LEMMA ShrinkStep ==
  ASSUME Inv, DeleteShrink
  PROVE  Inv'
<1>1. PICK n : n = proc.n - 1
  OBVIOUS
<1>2. /\ proc.at = "shrink" /\ proc.i \in Nat \ {0} /\ Len(rel) \in Nat /\ n \in Nat
      /\ Len(rel) - proc.i <= n /\ n < Len(list) /\ Len(kept) = 0 /\ list \in Seq(Stats)
      /\ Len(list) \in Nat
      /\ proc' = At("copy", proc.i + 1) /\ list' = SubSeq(list, 1, n)
      /\ rel' = rel /\ todo' = todo /\ links' = links /\ kept' = kept /\ torn' = torn
      /\ TypeOK
  <2>1. TypeOK /\ Progress /\ proc.at = "shrink"
    BY DEF Inv, DeleteShrink
  <2>2. /\ Len(list) \in Nat /\ Len(rel) \in Nat /\ proc.i \in Nat \ {0} /\ proc.n \in Nat
    BY <2>1, Lengths
  <2>3. /\ proc.i <= Len(rel) /\ Len(rel) - proc.i + 1 <= proc.n /\ proc.n <= Len(list)
        /\ Len(kept) = 0
    BY <2>1 DEF Progress
  <2>4. n \in Nat /\ Len(rel) - proc.i <= n /\ n < Len(list)
    BY <1>1, <2>2, <2>3
  <2> QED
    BY <1>1, <2>1, <2>2, <2>3, <2>4 DEF TypeOK, DeleteShrink
<1>3. list' \in Seq(Stats) /\ Len(list') = n /\ \A j \in 1..n : list'[j] = list[j]
  <2>1. 1 \in Int /\ n \in Int /\ \A j \in 1..n : list[j] \in Stats
    BY <1>2
  <2>2. /\ list' \in Seq(Stats)
        /\ Len(list') = IF 1 <= n THEN n - 1 + 1 ELSE 0
        /\ \A j \in 1..n - 1 + 1 : list'[j] = list[1 + j - 1]
    BY <1>2, <2>1, SubSeqProperties
  <2> QED
    BY <1>2, <2>2
<1>4. \A j \in 1..n : j \in 1..Len(list)
  BY <1>2
<1>5. (\A j \in 1..Len(list) : Sound(list[j]))'
  BY <1>3, <1>4 DEF Inv
<1>6. /\ proc' \in [at : Places, i : Nat \ {0}, left : SUBSET Field, n : Nat]
      /\ proc'.at = "copy" /\ proc'.i = proc.i + 1
  BY <1>2 DEF At, Places
<1>7. TypeOK' /\ Progress' /\ IndicesFresh'
  <2>1. n <= MaxCells
    BY <1>2, PdrAssumption DEF TypeOK
  <2>2. TypeOK'
    BY <1>2, <1>3, <1>6, <2>1 DEF TypeOK
  <2> QED
    BY <1>2, <1>3, <1>6, <2>2 DEF Progress, IndicesFresh
<1>8. FineButHole' /\ Copied'
  <2>1. torn = 0 => \A j \in 1..n : Fine(list'[j])
    BY <1>2, <1>3, <1>4 DEF Inv, FineButHole, Hole
  <2> QED
    BY <1>2, <1>3, <1>6, <2>1 DEF FineButHole, Copied, Hole
<1> QED
  BY <1>5, <1>7, <1>8 DEF Inv

-----------------------------------------------------------------------------
(* Every step keeps the invariant. *)
LEMMA InvStep ==
  ASSUME Inv, [Next]_vars
  PROVE  Inv'
<1>1. ASSUME NEW ts \in Slot, NEW ok \in BOOLEAN, TxDone(ts, ok)
      PROVE  Inv'
  BY <1>1, TxDoneStep
<1>2. CASE Process
  BY <1>2, EvaluateStep, NoteStep, CopyStep, AmountStep, ShrinkStep, ProcessStep DEF Process
<1>3. ASSUME list' = list, torn' = torn, rel' = rel, proc' = proc, kept' = kept, todo' = todo,
             links' \subseteq Slot
      PROVE  Inv'
  <2>1. torn' \in 0..MaxTorn /\ (torn' = 0 => torn = 0)
    BY <1>3 DEF Inv, TypeOK
  <2>2. (\A j \in 1..Len(list) : Sound(list[j]))' /\ FineButHole' /\ Copied'
    BY <1>3, <2>1, SameList
  <2>3. TypeOK' /\ Progress' /\ IndicesFresh'
    BY <1>3 DEF Inv, TypeOK, Progress, IndicesFresh
  <2> QED
    BY <2>2, <2>3 DEF Inv
<1>4. ASSUME NEW ts \in Slot, AddLink(ts)
      PROVE  Inv'
  <2>1. links' \subseteq Slot
    BY <1>4 DEF Inv, TypeOK, AddLink
  <2> QED
    BY <1>3, <1>4, <2>1 DEF AddLink
<1>5. CASE UNCHANGED vars
  <2>1. links' \subseteq Slot
    BY <1>5 DEF vars, Inv, TypeOK
  <2> QED
    BY <1>3, <1>5, <2>1 DEF vars
<1> QED
  BY <1>1, <1>2, <1>4, <1>5 DEF Next

(* At the start the list is empty and the process waits. *)
LEMMA InvInit == Init => Inv
<1> SUFFICES ASSUME Init
             PROVE  Inv
  OBVIOUS
<1>1. TypeOK
  BY PdrAssumption DEF Init, TypeOK, Waiting, At, Places, Field
<1>2. Progress
  BY DEF Init, Progress, Waiting, At
<1>3. IndicesFresh /\ (\A i \in 1..Len(list) : Sound(list[i])) /\ FineButHole /\ Copied
  BY DEF Init, IndicesFresh, FineButHole, Copied, Waiting, At
<1> QED
  BY <1>1, <1>2, <1>3 DEF Inv

LEMMA Invariant == Spec => []Inv
  BY InvInit, InvStep, PTL DEF Spec

(* The list, the indices and the process are what they are declared to be, *)
(* whenever the slot interrupt comes.                                      *)
THEOREM TypeCorrect == Spec => []TypeOK
<1>1. Inv => TypeOK
  BY DEF Inv
<1> QED
  BY <1>1, Invariant, PTL

(* The delivery ratio of a cell can always be computed; and as long as no  *)
(* transmission was counted in an entry in the middle of its move, a       *)
(* relevant ratio rests on half a window at least: counting and halving in *)
(* the interrupt, moving entries field by field and dropping them in the   *)
(* process keep the counters sound.                                        *)
THEOREM CountersAlwaysSound == Spec => []CountersSound
<1>1. Inv => CountersSound
  <2> SUFFICES ASSUME Inv, NEW i \in 1..Len(list)
               PROVE  /\ list[i].total >= 1
                      /\ torn = 0 /\ ~(Moving(i) /\ i # proc.n) => Fine(list[i])
    BY DEF CountersSound, Fine
  <2>1. Sound(list[i])
    BY DEF Inv
  <2>2. list[i].total \in Int
    BY <2>1, PdrAssumption DEF Sound, Stats
  <2>3. list[i].total >= 1
    BY <2>1, <2>2 DEF Sound
  <2>4. Hole(i) => Moving(i) /\ i # proc.n
    BY DEF Hole, Moving
  <2> QED
    BY <2>3, <2>4 DEF Inv, FineButHole
<1> QED
  BY <1>1, Invariant, PTL

(* The indices noted by the evaluation name the entries they were noted    *)
(* for, unchanged since their indices became visible, until the deletion   *)
(* starts: the interrupt only appends, and it skips the cells that are to  *)
(* be relocated.                                                           *)
THEOREM IndicesStayFresh == Spec => []IndicesFresh
<1>1. Inv => IndicesFresh
  BY DEF Inv
<1> QED
  BY <1>1, Invariant, PTL

(* cellAmount never wraps below 0: the list is at least as long as the     *)
(* deletions still to be made, also in the middle of one.                  *)
THEOREM AmountNeverWraps == Spec => []AmountNoUnderflow
<1>1. Inv => AmountNoUnderflow
  <2> SUFFICES ASSUME Inv
               PROVE  AmountNoUnderflow
    OBVIOUS
  <2>1. /\ Len(rel) \in Nat /\ Len(list) \in Nat /\ proc.i \in Nat \ {0} /\ proc.n \in Nat
    BY Lengths DEF Inv
  <2> QED
    BY <2>1 DEF Inv, Progress, AmountNoUnderflow
<1> QED
  BY <1>1, Invariant, PTL

(* What the evaluation notes for the deletion is neither stale when the    *)
(* deletion starts nor more than the list holds while it goes on.          *)
THEOREM DeletionStaysSound == Spec => []DeletionSound
<1>1. IndicesFresh /\ AmountNoUnderflow => DeletionSound
  BY DEF DeletionSound
<1> QED
  BY <1>1, IndicesStayFresh, AmountNeverWraps, PTL


-----------------------------------------------------------------------------
(***************************************************************************)
(* One entry per timeslot.  In the middle of a deletion the last entry is  *)
(* there twice, from the copy of its timeslot on: the entries before it    *)
(* are those of different timeslots, unless a cell was inserted meanwhile. *)
(***************************************************************************)
Doubled == proc.at = "shrink" \/ (proc.at = "move" /\ "slot" \notin proc.left)

Kept == IF Doubled THEN Len(list) - 1 ELSE Len(list)

Apart ==
  ~raced => /\ proc.at \in {"move", "shrink"} => proc.n = Len(list)
            /\ \A i, j \in 1..Kept : list[i].slot = list[j].slot => i = j

LEMMA ApartTxDone ==
  ASSUME Inv, Apart, NEW ts \in Slot, NEW ok \in BOOLEAN, TxDone(ts, ok)
  PROVE  Apart'
<1>1. /\ list \in Seq(Stats) /\ Len(list) \in Nat /\ proc' = proc
      /\ \A i \in 1..Len(list) : list[i] \in Stats
  BY DEF Inv, TypeOK, TxDone
<1>2. raced' = (raced \/ (Deleting /\ Len(list') > Len(list)))
  BY DEF TxDone
<1>3. CASE list' = list
  BY <1>1, <1>2, <1>3 DEF Apart, Kept, Doubled
<1>4. ASSUME NEW i \in EntriesOf(ts), list' = [list EXCEPT ![i] = Counted(@, ok)]
      PROVE  Apart'
  <2>1. i \in 1..Len(list)
    BY DEF EntriesOf
  <2>2. PICK c : c = Counted(list[i], ok)
    OBVIOUS
  <2>3. c \in Stats /\ c.slot = list[i].slot
    <3>1. Sound(list[i])
      BY <2>1 DEF Inv
    <3> QED
      BY <2>2, <3>1, CountedSound DEF Sound
  <2>4. list' = [list EXCEPT ![i] = c]
    BY <1>4, <2>2
  <2>5. Len(list') = Len(list) /\ \A j \in 1..Len(list) : list'[j].slot = list[j].slot
    BY <1>1, <2>1, <2>3, <2>4
  <2>6. Kept' = Kept /\ \A j \in 1..Kept : j \in 1..Len(list)
    BY <1>1, <2>5 DEF Kept, Doubled
  <2>7. ~raced' => ~raced
    BY <1>2
  <2>8. ASSUME ~raced', NEW j \in 1..Kept, NEW k \in 1..Kept, list'[j].slot = list'[k].slot
        PROVE  j = k
    <3>1. list[j].slot = list[k].slot
      BY <2>5, <2>6, <2>8
    <3> QED
      BY <2>7, <2>8, <3>1 DEF Apart
  <2>9. ~raced' /\ proc.at \in {"move", "shrink"} => proc.n = Len(list')
    BY <2>5, <2>7 DEF Apart
  <2> QED
    BY <1>1, <2>6, <2>8, <2>9 DEF Apart
<1>5. ASSUME EntriesOf(ts) = {}, Insert(New(ts, ok)), list' # list, ~raced'
      PROVE  /\ proc.at \notin {"move", "shrink"}
             /\ \A i, j \in 1..Kept' : list'[i].slot = list'[j].slot => i = j
  <2>1. PICK c : c = New(ts, ok)
    OBVIOUS
  <2>2. c.slot = ts /\ c \in Stats
    BY <2>1, NewSound DEF Sound
  <2>3. list' = Append(list, c)
    BY <1>5, <2>1 DEF Insert
  <2>4. /\ Len(list') = Len(list) + 1 /\ list'[Len(list) + 1] = c
        /\ \A j \in 1..Len(list) : list'[j] = list[j]
    BY <1>1, <2>2, <2>3
  <2>5. ~Deleting /\ ~raced
    <3>1. Len(list') > Len(list)
      BY <1>1, <2>4
    <3> QED
      BY <1>2, <1>5, <3>1, Zenon
  <2>6. Kept = Len(list) /\ Kept' = Len(list) + 1 /\ proc.at \notin {"move", "shrink"}
    BY <1>1, <2>4, <2>5 DEF Kept, Deleting, Doubled
  <2>7. \A j \in 1..Len(list) : list[j].slot # ts
    BY <1>5 DEF EntriesOf
  <2>8. \A i, j \in 1..Len(list) : list[i].slot = list[j].slot => i = j
    BY <2>5, <2>6 DEF Apart
  <2>9. \A i \in 1..Len(list) + 1 : i \in 1..Len(list) \/ i = Len(list) + 1
    BY <1>1
  <2> QED
    BY <2>2, <2>4, <2>6, <2>7, <2>8, <2>9
<1>6. CASE EntriesOf(ts) = {} /\ Insert(New(ts, ok)) /\ list' # list
  BY <1>1, <1>5, <1>6 DEF Apart
<1> QED
  BY <1>3, <1>4, <1>6 DEF TxDone, Count

LEMMA ApartCopy ==
  ASSUME Inv, Apart, NEW f \in Field, DeleteCopy(f)
  PROVE  Apart'
<1>1. PICK n : n = Len(list)
  OBVIOUS
<1>2. PICK d : d = rel[proc.i].index
  OBVIOUS
<1>3. /\ proc.at = "move" /\ proc.i \in 1..Len(rel) /\ list \in Seq(Stats) /\ n \in Nat \ {0}
      /\ proc' = [proc EXCEPT !.left = @ \ {f}] /\ raced' = raced /\ f \in proc.left
      /\ proc \in [at : Places, i : Nat \ {0}, left : SUBSET Field, n : Nat]
      /\ proc.n \in 1..n
  <2>1. TypeOK /\ Progress /\ proc.at = "move"
    BY DEF Inv, DeleteCopy
  <2>2. /\ Len(list) \in Nat /\ Len(rel) \in Nat /\ proc.i \in Nat \ {0} /\ proc.n \in Nat
    BY <2>1, Lengths
  <2>3. proc.i <= Len(rel) /\ Len(rel) - proc.i + 1 <= proc.n /\ proc.n <= Len(list)
    BY <2>1 DEF Progress
  <2>4. proc.i \in 1..Len(rel) /\ n \in Nat \ {0} /\ proc.n \in 1..n
    BY <1>1, <2>2, <2>3
  <2> QED
    BY <2>1, <2>4 DEF TypeOK, DeleteCopy
<1>4. proc'.at = "move" /\ proc'.left = proc.left \ {f} /\ proc'.n = proc.n
  BY <1>3
<1>5. d \in Nat \ {0}
  <2>1. rel[proc.i].index \in 1..MaxCells /\ MaxCells \in Nat
    BY <1>3, RelEntry, PdrAssumption DEF Inv
  <2> QED
    BY <1>2, <2>1
<1>6. PICK b : b = list[proc.n]
  OBVIOUS
<1>7. PICK c : c = Merged(list[d], b, f)
  OBVIOUS
<1>8. list' = IF d <= n THEN [list EXCEPT ![d] = c] ELSE list
  <2>1. list' = LET e == rel[proc.i].index IN
          IF e <= Len(list) THEN [list EXCEPT ![e] = Merged(@, list[proc.n], f)] ELSE list
    BY Zenon DEF DeleteCopy
  <2>2. list' = IF d <= n THEN [list EXCEPT ![d] = Merged(list[d], b, f)] ELSE list
    BY <1>1, <1>2, <1>6, <2>1
  <2> QED
    BY <1>7, <2>2
<1>9. d \in 1..n => c \in Stats /\ c.slot = IF f = "slot" THEN b.slot ELSE list[d].slot
  <2>1. d \in 1..n => Sound(list[d])
    BY <1>1 DEF Inv
  <2>2. Sound(b)
    BY <1>1, <1>3, <1>6 DEF Inv
  <2> QED
    BY <1>7, <2>1, <2>2, MergedSound DEF Sound
<1>10. Len(list') = n /\ \A j \in 1..n : list'[j] = IF j = d THEN c ELSE list[j]
  <2>1. CASE d <= n
    <3>1. d \in 1..n
      BY <1>3, <1>5, <2>1
    <3> QED
      BY <1>1, <1>3, <1>8, <1>9, <2>1, <3>1
  <2>2. CASE ~(d <= n)
    BY <1>1, <1>3, <1>5, <1>8, <2>2
  <2> QED
    BY <2>1, <2>2
<1> SUFFICES ASSUME ~raced
             PROVE  /\ proc.n = n
                    /\ \A i, j \in 1..Kept' : list'[i].slot = list'[j].slot => i = j
  BY <1>3, <1>4, <1>10 DEF Apart
<1>11. proc.n = n
  BY <1>1, <1>3 DEF Apart
<1>12. CASE f # "slot"
  <2>1. Kept' = Kept /\ Kept \in {n, n - 1}
    BY <1>1, <1>3, <1>4, <1>10, <1>12 DEF Kept, Doubled
  <2>2. \A j \in 1..Kept : j \in 1..n
    BY <1>3, <2>1
  <2>3. \A j \in 1..n : list'[j].slot = list[j].slot
    BY <1>9, <1>10, <1>12
  <2>4. \A i, j \in 1..Kept : list[i].slot = list[j].slot => i = j
    BY DEF Apart
  <2> QED
    BY <1>11, <2>1, <2>2, <2>3, <2>4
<1>13. CASE f = "slot"
  <2>1. Kept = n /\ Kept' = n - 1
    BY <1>1, <1>3, <1>4, <1>10, <1>13 DEF Kept, Doubled
  <2>2. \A i, j \in 1..n : list[i].slot = list[j].slot => i = j
    BY <2>1 DEF Apart
  <2>3. \A j \in 1..n - 1 : j \in 1..n /\ j # n
    BY <1>3
  <2>4. n \in 1..n /\ b = list[n]
    BY <1>3, <1>6, <1>11
  <2>5. \A j \in 1..n : list'[j].slot = IF j = d THEN list[n].slot ELSE list[j].slot
    BY <1>9, <1>10, <1>13, <2>4
  <2> SUFFICES ASSUME NEW i \in 1..n - 1, NEW j \in 1..n - 1, list'[i].slot = list'[j].slot
               PROVE  i = j
    BY <1>11, <2>1
  <2>6. i \in 1..n /\ i # n /\ j \in 1..n /\ j # n
    BY <2>3
  <2>7. CASE i = d /\ j # d
    BY <2>2, <2>4, <2>5, <2>6, <2>7
  <2>8. CASE i # d /\ j = d
    BY <2>2, <2>4, <2>5, <2>6, <2>8
  <2>9. CASE i # d /\ j # d
    BY <2>2, <2>5, <2>6, <2>9
  <2> QED
    BY <2>7, <2>8, <2>9
<1> QED
  BY <1>12, <1>13

LEMMA ApartShrink ==
  ASSUME Inv, Apart, DeleteShrink
  PROVE  Apart'
<1>1. PICK n : n = proc.n - 1
  OBVIOUS
<1>2. /\ proc.at = "shrink" /\ list \in Seq(Stats) /\ n \in Nat /\ n < Len(list)
      /\ Len(list) \in Nat
      /\ proc' = At("copy", proc.i + 1) /\ raced' = raced
      /\ list' = SubSeq(list, 1, n)
  <2>1. TypeOK /\ Progress /\ proc.at = "shrink"
    BY DEF Inv, DeleteShrink
  <2>2. /\ Len(list) \in Nat /\ Len(rel) \in Nat /\ proc.i \in Nat \ {0} /\ proc.n \in Nat
    BY <2>1, Lengths
  <2>3. /\ proc.i <= Len(rel) /\ Len(rel) - proc.i + 1 <= proc.n /\ proc.n <= Len(list)
    BY <2>1 DEF Progress
  <2>4. n \in Nat /\ n < Len(list)
    BY <1>1, <2>2, <2>3
  <2> QED
    BY <1>1, <2>1, <2>2, <2>4 DEF TypeOK, DeleteShrink
<1>3. Len(list') = n /\ \A j \in 1..n : list'[j] = list[j]
  <2>1. 1 \in Int /\ n \in Int /\ \A j \in 1..n : list[j] \in Stats
    BY <1>2
  <2>2. /\ Len(list') = IF 1 <= n THEN n - 1 + 1 ELSE 0
        /\ \A j \in 1..n - 1 + 1 : list'[j] = list[1 + j - 1]
    BY <1>2, <2>1, SubSeqProperties
  <2> QED
    BY <1>2, <2>2
<1>4. Kept = Len(list) - 1 /\ Kept' = n /\ proc'.at = "copy"
  BY <1>2, <1>3 DEF Kept, Doubled, At
<1>5. \A j \in 1..n : j \in 1..Kept
  BY <1>2, <1>4
<1> QED
  BY <1>2, <1>3, <1>4, <1>5 DEF Apart

(* Where the entries are doubled is not changed by the other steps. *)
LEMMA ApartOther ==
  ASSUME Inv, Apart,
         \/ StartEvaluate \/ EvaluateCell \/ EvaluateRatio \/ EvaluateNote \/ EvaluateEnd
         \/ RelocateEnd \/ DeleteStart \/ DeleteAmount \/ DeleteEnd
         \/ UNCHANGED vars \/ (\E ts \in Slot : Relocate(ts) \/ AddLink(ts))
  PROVE  Apart'
<1>1. list' = list /\ raced' = raced
  BY DEF StartEvaluate, EvaluateCell, EvaluateRatio, EvaluateNote, EvaluateEnd, RelocateEnd,
         DeleteStart, DeleteAmount, DeleteEnd, Relocate, AddLink, vars
<1>2. proc \in [at : Places, i : Nat \ {0}, left : SUBSET Field, n : Nat]
  BY DEF Inv, TypeOK
<1>3. CASE DeleteStart
  <2>1. proc.at = "copy" /\ proc'.at = "move" /\ proc'.left = Field /\ proc'.n = Len(list)
    BY <1>2, <1>3 DEF DeleteStart
  <2>2. Kept' = Kept
    BY <1>1, <2>1 DEF Kept, Doubled, Field
  <2> QED
    BY <1>1, <2>1, <2>2 DEF Apart
<1>4. CASE DeleteAmount
  <2>1. proc.at = "move" /\ proc.left = {} /\ proc'.at = "shrink" /\ proc'.n = Len(list)
    BY <1>2, <1>4 DEF DeleteAmount
  <2>2. Kept' = Kept
    BY <1>1, <2>1 DEF Kept, Doubled
  <2> QED
    BY <1>1, <2>1, <2>2 DEF Apart
<1>5. CASE \/ proc' = proc
           \/ proc.at \notin {"move", "shrink"} /\ proc'.at \notin {"move", "shrink"}
  <2>1. Kept' = Kept
    BY <1>1, <1>5 DEF Kept, Doubled
  <2> QED
    BY <1>1, <1>5, <2>1 DEF Apart
<1>6. CASE EvaluateCell
  <2>1. proc.at = "evaluate"
    BY <1>6 DEF EvaluateCell
  <2>2. \A n, m : /\ [proc EXCEPT !.at = "ratio", !.left = {"success"}, !.n = n].at = "ratio"
                 /\ [proc EXCEPT !.at = "ratio", !.left = {"total"}, !.n = m].at = "ratio"
    BY <1>2
  <2>3. At("evaluate", proc.i + 1).at = "evaluate"
    BY DEF At
  <2>4. PICK c : c = list[proc.i]
    OBVIOUS
  <2>5. \/ proc' = [proc EXCEPT !.at = "ratio", !.left = {"success"}, !.n = c.total]
        \/ proc' = [proc EXCEPT !.at = "ratio", !.left = {"total"}, !.n = c.success]
        \/ proc' = At("evaluate", proc.i + 1)
    BY <1>6, <2>4 DEF EvaluateCell
  <2>6. proc'.at \in {"ratio", "evaluate"}
    BY <2>2, <2>3, <2>5
  <2> QED
    BY <1>5, <2>1, <2>6
<1>7. CASE \/ StartEvaluate \/ EvaluateRatio \/ EvaluateNote \/ EvaluateEnd
           \/ RelocateEnd \/ DeleteEnd
  <2>1. proc.at \notin {"move", "shrink"} /\ proc'.at \notin {"move", "shrink"}
    BY <1>2, <1>7 DEF StartEvaluate, EvaluateRatio, EvaluateNote, EvaluateEnd,
                      RelocateEnd, DeleteEnd, Waiting, At
  <2> QED
    BY <1>5, <2>1
<1>8. CASE UNCHANGED vars \/ (\E ts \in Slot : Relocate(ts) \/ AddLink(ts))
  <2>1. proc' = proc
    BY <1>8 DEF Relocate, AddLink, vars
  <2> QED
    BY <1>5, <2>1
<1> QED
  BY <1>3, <1>4, <1>6, <1>7, <1>8

LEMMA ApartStep ==
  ASSUME Inv, Apart, [Next]_vars
  PROVE  Apart'
  BY ApartTxDone, ApartCopy, ApartShrink, ApartOther DEF Next, Process

(* tsch_stats_get_cell_pdr() finds the only entry of a timeslot: the       *)
(* deletion overwrites and drops, and the interrupt appends a cell it has  *)
(* not found, without leaving two entries of one timeslot once a deletion  *)
(* is over - unless a cell was inserted in the middle of one.              *)
THEOREM OneEntry == Spec => []OneEntryPerSlot
<1>1. Init => Inv /\ Apart
  BY InvInit DEF Init, Apart, Kept, Doubled, Waiting, At
<1>2. Inv /\ Apart /\ [Next]_vars => Inv' /\ Apart'
  BY InvStep, ApartStep
<1>3. Inv /\ Apart => OneEntryPerSlot
  BY DEF Apart, Kept, Doubled, OneEntryPerSlot, Deleting
<1> QED
  BY <1>1, <1>2, <1>3, PTL DEF Spec
=============================================================================

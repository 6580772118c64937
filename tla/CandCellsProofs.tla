-------------------------- MODULE CandCellsProofs ---------------------------
(***************************************************************************)
(* Proofs about the candidate cells and the blacklist, for any number of   *)
(* timeslots and channels, any length of the list and of the ring, and any *)
(* cells that are interfered with.                                         *)
(***************************************************************************)
EXTENDS CandCells, TLAPS

Entries == Cell \cup {NoCell}
Ring == [buffer : [0..Size - 1 -> Entries], head : 0..Size - 1, tail : 0..Size - 1,
         count : 0..Size]

(* A call that adds a link names a timeslot. *)
GoodCall == {c \in Call : c.do \in Origin => c.arg \in Slot}

(* The types, with what a step needs of the variables TypeOK leaves open. *)
Types ==
  /\ cand \in [Index -> Entries] /\ bl \in Ring
  /\ sched \subseteq Slot \X Origin
  /\ calls \in Seq(GoodCall) /\ at \in 0..ListLen
  /\ pend.cells \subseteq Entries /\ pend.rel \in Nat

(* While replace_candidate_cell() is at work on an entry, the others are   *)
(* in different timeslots.                                                 *)
OthersDistinct ==
  \A i, j \in Index \ {at} : cand[i][1] = cand[j][1] /\ cand[i] # NoCell => i = j

(* The next entry of the ring is written count places after head. *)
Wrap(x) == x % Size
RingShape == bl.tail = Wrap(bl.head + bl.count)

(* The inductive invariant. *)
Inv == Types /\ OthersDistinct /\ RingShape /\ BlacklistHoldsRecent

-----------------------------------------------------------------------------
(* Positions in the ring. *)
LEMMA WrapIs ==
  ASSUME NEW x \in 0..2 * Size - 1
  PROVE  Wrap(x) = (IF x < Size THEN x ELSE x - Size) /\ Wrap(x) \in 0..Size - 1
<1>1. Size \in Nat \ {0}
  BY SizeAssumption
<1>2. CASE x < Size
  BY <1>1, <1>2 DEF Wrap
<1>3. CASE x >= Size
  <2>1. x = 1 * Size + (x - Size)
    BY <1>1
  <2> QED
    BY <1>1, <1>3, <2>1 DEF Wrap
<1> QED
  BY <1>1, <1>2, <1>3

(* Cells are pairs of numbers, and none is in timeslot 0. *)
LEMMA CellIs ==
  ASSUME NEW c \in Entries
  PROVE  /\ c[1] \in Nat /\ (c # NoCell <=> c \in Cell) /\ (c \in Cell <=> c[1] \in Slot)
<1>1. MaxSlot \in Nat /\ Channel \subseteq Nat
  BY SizeAssumption
<1>2. CASE c \in Cell
  <2>1. c[1] \in 1..MaxSlot
    BY <1>2 DEF Cell, Slot
  <2> QED
    BY <1>1, <1>2, <2>1 DEF NoCell, Slot
<1>3. CASE c = NoCell
  BY <1>1, <1>3 DEF NoCell, Cell, Slot
<1> QED
  BY <1>2, <1>3 DEF Entries

(* The calls of the handlers. *)
LEMMA CallsAre ==
  /\ \A ts \in Nat : Replace(ts) \in GoodCall /\ Entry(ts) \in GoodCall /\ Unlink(ts) \in GoodCall
  /\ \A ts \in Slot, cmd \in Origin : AddLink(cmd, ts) \in GoodCall
BY SizeAssumption DEF GoodCall, Call, Replace, Entry, Unlink, AddLink, Origin, Slot

(* push() keeps the ring and forgets the oldest cell when it is full. *)
LEMMA PushStep ==
  ASSUME bl \in Ring, RingShape, BlacklistHoldsRecent, NEW c \in Entries,
         bl' = Push(bl, c),
         recent' = IF Len(recent) = Size THEN Append(Tail(recent), c) ELSE Append(recent, c)
  PROVE  bl' \in Ring /\ RingShape' /\ BlacklistHoldsRecent'
<1> DEFINE h == bl.head
           t == bl.tail
           n == bl.count
           b == bl.buffer
           At(k) == Wrap(h + k - 1)
<1>1. /\ Size \in Nat \ {0} /\ h \in 0..Size - 1 /\ t \in 0..Size - 1 /\ n \in 0..Size
      /\ b \in [0..Size - 1 -> Entries]
  BY SizeAssumption DEF Ring
<1>2. t = Wrap(h + n) /\ recent = [k \in 1..n |-> b[At(k)]]
  BY DEF RingShape, BlacklistHoldsRecent, Wrap
<1>3. bl' = [buffer |-> [b EXCEPT ![t] = c], tail |-> Wrap(t + 1),
             head |-> IF n = Size THEN Wrap(h + 1) ELSE h,
             count |-> IF n = Size THEN n ELSE n + 1]
  BY DEF Push, Ring, Wrap
<1> HIDE DEF h, t, n, b
<1>10. \A x \in 0..2 * Size - 1 :
        Wrap(x) = (IF x < Size THEN x ELSE x - Size) /\ Wrap(x) \in 0..Size - 1
  BY WrapIs
<1>4. \A k \in 1..Size : At(k) = (IF h + k - 1 < Size THEN h + k - 1 ELSE h + k - 1 - Size)
                         /\ At(k) \in 0..Size - 1
  BY <1>1, <1>10
<1> HIDE DEF At
<1>5. /\ Len(recent) = n /\ recent \in Seq(Entries)
      /\ \A k \in 1..n : recent[k] = b[At(k)]
  <2>1. \A k \in 1..n : b[At(k)] \in Entries
    BY <1>1, <1>4
  <2> QED
    BY <1>1, <1>2, <2>1
<1>6. /\ Wrap(t + 1) = (IF t + 1 < Size THEN t + 1 ELSE t + 1 - Size)
      /\ Wrap(h + 1) = (IF h + 1 < Size THEN h + 1 ELSE h + 1 - Size)
      /\ t = IF h + n < Size THEN h + n ELSE h + n - Size
  BY <1>1, <1>2, <1>10
<1>7. bl' \in Ring
  <2>1. /\ (IF n = Size THEN Wrap(h + 1) ELSE h) \in 0..Size - 1
        /\ (IF n = Size THEN n ELSE n + 1) \in 0..Size
        /\ Wrap(t + 1) \in 0..Size - 1 /\ [b EXCEPT ![t] = c] \in [0..Size - 1 -> Entries]
    BY <1>1, <1>6
  <2> QED
    BY <1>3, <2>1 DEF Ring
<1>8. CASE n = Size
  <2>1. bl'.tail = Wrap(t + 1) /\ bl'.head = Wrap(h + 1) /\ bl'.count = n
        /\ bl'.buffer = [b EXCEPT ![t] = c]
    BY <1>3, <1>8
  <2>2. t = h
    BY <1>1, <1>6, <1>8
  <2> DEFINE h2 == Wrap(h + 1)
             Next2(k) == Wrap(h2 + k - 1)
  <2>3. h2 \in 0..Size - 1 /\ h2 = (IF h + 1 < Size THEN h + 1 ELSE h + 1 - Size)
    BY <1>1, <1>6
  <2> HIDE DEF h2
  <2>4. Wrap(h2 + Size) = h2
    BY <1>1, <1>10, <2>3
  <2>5. RingShape'
    BY <1>8, <2>1, <2>2, <2>4 DEF RingShape, h2
  <2>6. \A k \in 1..Size : Next2(k) = IF h2 + k - 1 < Size THEN h2 + k - 1 ELSE h2 + k - 1 - Size
    BY <1>1, <1>10, <2>3
  <2> HIDE DEF Next2
  <2>7. Next2(Size) = t /\ \A k \in 1..Size - 1 : Next2(k) = At(k + 1) /\ At(k + 1) # t
    <3>1. Size \in 1..Size /\ Next2(Size) = t
      <4>1. Size \in 1..Size
        BY <1>1
      <4>2. Next2(Size) = IF h2 + Size - 1 < Size THEN h2 + Size - 1 ELSE h2 + Size - 1 - Size
        BY <2>6, <4>1
      <4> QED
        BY <1>1, <2>2, <2>3, <4>1, <4>2
    <3>2. ASSUME NEW k \in 1..Size - 1
          PROVE  Next2(k) = At(k + 1) /\ At(k + 1) # t
      <4>1. k \in 1..Size /\ k + 1 \in 1..Size
        BY <1>1
      <4>2. Next2(k) = IF h2 + k - 1 < Size THEN h2 + k - 1 ELSE h2 + k - 1 - Size
        BY <2>6, <4>1
      <4>3. At(k + 1) = IF h + (k + 1) - 1 < Size THEN h + (k + 1) - 1 ELSE h + (k + 1) - 1 - Size
        BY <1>4, <4>1
      <4> QED
        BY <1>1, <2>2, <2>3, <4>2, <4>3
    <3> QED
      BY <3>1, <3>2
  <2> DEFINE r == Append(Tail(recent), c)
  <2>8. /\ r \in Seq(Entries) /\ Len(r) = Size
        /\ \A k \in 1..Size - 1 : r[k] = recent[k + 1]
        /\ r[Size] = c
    <3>1. /\ Tail(recent) \in Seq(Entries) /\ Len(Tail(recent)) = Size - 1
          /\ \A k \in 1..Size - 1 : Tail(recent)[k] = recent[k + 1]
      BY <1>1, <1>5, <1>8
    <3> QED
      BY <1>1, <3>1
  <2>9. recent' = r
    BY <1>5, <1>8
  <2> HIDE DEF r
  <2>10. \A k \in 1..Size : r[k] = bl'.buffer[Next2(k)]
    <3> SUFFICES ASSUME NEW k \in 1..Size
                 PROVE  r[k] = bl'.buffer[Next2(k)]
      OBVIOUS
    <3>1. CASE k = Size
      BY <1>1, <2>1, <2>7, <2>8, <3>1
    <3>2. CASE k \in 1..Size - 1
      <4>1. k + 1 \in 1..Size /\ At(k + 1) \in 0..Size - 1
        BY <1>1, <1>4, <3>2
      <4>2. bl'.buffer[Next2(k)] = b[At(k + 1)]
        BY <1>1, <2>1, <2>7, <3>2, <4>1
      <4> QED
        BY <1>5, <1>8, <2>8, <3>2, <4>1, <4>2
    <3> QED
      BY <1>1, <3>1, <3>2
  <2>11. r = [k \in 1..Size |-> bl'.buffer[Next2(k)]]
    BY <2>8, <2>10
  <2>12. BlacklistHoldsRecent'
    BY <1>8, <2>1, <2>9, <2>11 DEF BlacklistHoldsRecent, Next2, h2, Wrap
  <2> QED
    BY <1>7, <2>5, <2>12
<1>9. CASE n # Size
  <2>1. bl'.tail = Wrap(t + 1) /\ bl'.head = h /\ bl'.count = n + 1
        /\ bl'.buffer = [b EXCEPT ![t] = c]
    BY <1>3, <1>9
  <2>2. Wrap(h + (n + 1)) = IF h + n + 1 < Size THEN h + n + 1 ELSE h + n + 1 - Size
    BY <1>1, <1>9, <1>10
  <2>3. RingShape'
    <3>1. Wrap(h + (n + 1)) = Wrap(t + 1)
      BY <1>1, <1>6, <1>9, <2>2
    <3> QED
      BY <2>1, <3>1 DEF RingShape
  <2>4. At(n + 1) = t /\ \A k \in 1..n : At(k) # t
    <3>1. n + 1 \in 1..Size
      BY <1>1, <1>9
    <3>2. At(n + 1) = IF h + (n + 1) - 1 < Size THEN h + (n + 1) - 1 ELSE h + (n + 1) - 1 - Size
      BY <1>4, <3>1
    <3>3. ASSUME NEW k \in 1..n
          PROVE  At(k) # t
      <4>1. k \in 1..Size
        BY <1>1
      <4>2. At(k) = IF h + k - 1 < Size THEN h + k - 1 ELSE h + k - 1 - Size
        BY <1>4, <4>1
      <4> QED
        BY <1>1, <1>6, <1>9, <4>2
    <3> QED
      BY <1>1, <1>6, <3>2, <3>3
  <2> DEFINE r == Append(recent, c)
  <2>5. /\ r \in Seq(Entries) /\ Len(r) = n + 1
        /\ \A k \in 1..n : r[k] = recent[k]
        /\ r[n + 1] = c
    <3>1. recent \in Seq(Entries) /\ c \in Entries /\ Len(recent) = n /\ n \in Nat
      BY <1>1, <1>5
    <3> HIDE DEF r
    <3>2. r = Append(recent, c)
      BY DEF r
    <3> QED
      BY <3>1, <3>2
  <2>6. recent' = r
    BY <1>5, <1>9
  <2> HIDE DEF r
  <2>7. \A k \in 1..n + 1 : r[k] = bl'.buffer[At(k)]
    <3> SUFFICES ASSUME NEW k \in 1..n + 1
                 PROVE  r[k] = bl'.buffer[At(k)]
      OBVIOUS
    <3>1. CASE k = n + 1
      BY <1>1, <2>1, <2>4, <2>5, <3>1
    <3>2. CASE k \in 1..n
      <4>1. At(k) \in 0..Size - 1
        BY <1>1, <1>4, <3>2
      <4>2. bl'.buffer[At(k)] = b[At(k)]
        BY <1>1, <2>1, <2>4, <3>2, <4>1
      <4> QED
        BY <1>5, <2>5, <3>2, <4>2
    <3> QED
      BY <1>1, <3>1, <3>2
  <2>8. r = [k \in 1..n + 1 |-> bl'.buffer[At(k)]]
    BY <2>5, <2>7
  <2>9. BlacklistHoldsRecent'
    BY <2>1, <2>6, <2>8 DEF BlacklistHoldsRecent, At, Wrap
  <2> QED
    BY <1>7, <2>3, <2>9
<1> QED
  BY <1>8, <1>9

-----------------------------------------------------------------------------
(* The blacklist invariant does not depend on the rest. *)
LEMMA SameRing ==
  ASSUME RingShape, BlacklistHoldsRecent, UNCHANGED <<bl, recent>>
  PROVE  RingShape' /\ BlacklistHoldsRecent'
BY DEF RingShape, BlacklistHoldsRecent

(* A call of a handler starts. *)
LEMMA StartCallStep ==
  ASSUME Inv, StartCall
  PROVE  Inv'
<1> DEFINE c == Head(calls)
<1>1. /\ cand \in [Index -> Entries] /\ bl \in Ring /\ sched \subseteq Slot \X Origin
      /\ calls \in Seq(GoodCall) /\ pend.cells \subseteq Entries /\ pend.rel \in Nat
      /\ calls # <<>> /\ at = 0 /\ ListLen \in Nat \ {0}
      /\ calls' = Tail(calls) /\ UNCHANGED <<cand, bl, scan, pend, recent>>
  BY SizeAssumption DEF Inv, Types, StartCall
<1>2. c \in GoodCall /\ calls' \in Seq(GoodCall)
  BY <1>1
<1>3. \A ts : FirstHolder(ts) \subseteq 0..ListLen
  BY <1>1 DEF FirstHolder, Holders, Index
<1>4. at' \in 0..ListLen /\ sched' \subseteq Slot \X Origin
  <2> HIDE DEF c
  <2>1. CASE at' \in FirstHolder(c.arg) /\ sched' = sched
    BY <1>1, <1>3, <2>1
  <2>2. CASE sched' = sched /\ \E ts : at' \in FirstHolder(ts)
    BY <1>1, <1>3, <2>2
  <2>3. CASE c.do \in Origin /\ sched' = Without(c.arg) \cup {<<c.arg, c.do>>} /\ at' = 0
    <3>1. c.arg \in Slot
      BY <1>2, <2>3 DEF GoodCall
    <3> QED
      BY <1>1, <2>3, <3>1 DEF Without
  <2>4. CASE sched' = Without(c.arg) /\ at' = 0
    BY <1>1, <2>4 DEF Without
  <2> QED
    BY <2>1, <2>2, <2>3, <2>4 DEF StartCall, c
<1>5. Types'
  BY <1>1, <1>2, <1>4 DEF Types
<1>6. OthersDistinct'
  <2>1. \A i, j \in Index : cand[i][1] = cand[j][1] /\ cand[i] # NoCell => i = j
    BY <1>1 DEF Inv, OthersDistinct, Index
  <2> QED
    BY <1>1, <2>1 DEF OthersDistinct
<1>7. RingShape' /\ BlacklistHoldsRecent'
  BY <1>1, SameRing DEF Inv
<1> QED
  BY <1>5, <1>6, <1>7 DEF Inv

(* A draw is written to the entry that is replaced; the loop is left when  *)
(* it is in nobody else's timeslot.                                        *)
LEMMA DrawStep ==
  ASSUME Inv, NEW c \in Cell, NEW stray, Draw(c, stray)
  PROVE  Inv'
<1>1. /\ cand \in [Index -> Entries] /\ bl \in Ring /\ sched \subseteq Slot \X Origin
      /\ calls \in Seq(GoodCall) /\ pend.cells \subseteq Entries /\ pend.rel \in Nat
      /\ at \in 1..ListLen /\ ListLen \in Nat \ {0}
      /\ UNCHANGED <<bl, sched, calls, scan, pend, recent>>
  BY SizeAssumption DEF Inv, Types, Draw
<1>2. RingShape' /\ BlacklistHoldsRecent'
  BY <1>1, SameRing DEF Inv
<1>3. CASE cand' = cand /\ at' = at
  BY <1>1, <1>2, <1>3 DEF Inv, Types, OthersDistinct
<1>4. CASE cand' = [cand EXCEPT ![at] = c] /\ at' = IF InList(c[1]) THEN at ELSE 0
  <2>1. c \in Entries /\ c[1] \in Nat /\ c # NoCell
    BY CellIs DEF Entries
  <2>2. cand' \in [Index -> Entries] /\ at' \in 0..ListLen
    <3>1. cand' \in [Index -> Entries]
      BY <1>1, <1>4, <2>1
    <3>2. at' = at \/ at' = 0
      BY <1>4
    <3> QED
      BY <1>1, <3>1, <3>2
  <2>3. Types'
    BY <1>1, <2>2 DEF Types
  <2>4. OthersDistinct'
    <3> SUFFICES ASSUME NEW i \in Index, i # at', NEW j \in Index, j # at',
                        cand'[i][1] = cand'[j][1], cand'[i] # NoCell
                 PROVE  i = j
      BY DEF OthersDistinct
    <3>1. CASE i = at
      <4>1. ~InList(c[1]) /\ cand'[i] = c
        BY <1>1, <1>4, <3>1 DEF Index
      <4>2. j # at => cand'[j] = cand[j] /\ cand[j][1] # c[1]
        BY <1>1, <1>4, <4>1 DEF InList
      <4> QED
        BY <3>1, <4>1, <4>2
    <3>2. CASE j = at
      <4>1. ~InList(c[1]) /\ cand'[j] = c
        BY <1>1, <1>4, <3>2 DEF Index
      <4>2. i # at => cand'[i] = cand[i] /\ cand[i][1] # c[1]
        BY <1>1, <1>4, <4>1 DEF InList
      <4> QED
        BY <3>2, <4>1, <4>2
    <3>3. CASE i # at /\ j # at
      <4>1. cand'[i] = cand[i] /\ cand'[j] = cand[j]
        BY <1>1, <1>4, <3>3
      <4> QED
        BY <3>3, <4>1 DEF Inv, OthersDistinct
    <3> QED
      BY <3>1, <3>2, <3>3
  <2> QED
    BY <1>2, <2>3, <2>4 DEF Inv
<1> QED
  BY <1>3, <1>4 DEF Draw

(* Sensing puts a candidate that is interfered with on the blacklist. *)
LEMMA HitStep ==
  ASSUME Inv, UpdateHit
  PROVE  Inv'
<1>1. PICK p \in Hits : Hit(p[1], p[2]) /\ UNCHANGED <<cand, sched, at, pend>>
  BY DEF UpdateHit
<1>2. p[1] \in Index /\ cand[p[1]] \in Entries /\ ListLen \in Nat
  BY <1>1, SizeAssumption DEF Hits, Inv, Types
<1> DEFINE i == p[1]
           c == cand[i]
<1>3. /\ bl' = Push(bl, c) /\ calls' = <<Replace(c[1]), Entry(i + 1)>>
      /\ recent' = IF Len(recent) = Size THEN Append(Tail(recent), c) ELSE Append(recent, c)
  BY <1>1 DEF Hit
<1>4. bl' \in Ring /\ RingShape' /\ BlacklistHoldsRecent'
  <2> HIDE DEF c
  <2>1. c \in Entries /\ bl \in Ring
    BY <1>2 DEF Inv, Types, c
  <2> QED
    BY <1>3, <2>1, PushStep DEF Inv
<1>5. calls' \in Seq(GoodCall)
  <2>1. c[1] \in Nat /\ i + 1 \in Nat
    BY <1>2, CellIs DEF Index
  <2>2. Replace(c[1]) \in GoodCall /\ Entry(i + 1) \in GoodCall
    BY <2>1, CallsAre
  <2> QED
    BY <1>3, <2>2
<1>6. Types' /\ OthersDistinct'
  BY <1>1, <1>4, <1>5 DEF Inv, Types, OthersDistinct
<1> QED
  BY <1>4, <1>6 DEF Inv

(* The end of the sensing; the ADD process sends its request. *)
LEMMA EndStep ==
  ASSUME Inv, UpdateEnd
  PROVE  Inv'
<1>1. UNCHANGED <<cand, bl, sched, at, recent>>
  BY DEF UpdateEnd
<1>2. cand \in [Index -> Entries] /\ ListLen \in Nat \ {0} /\ MaxLinks \in 2..ListLen
      /\ calls \in Seq(GoodCall) /\ pend.cells \subseteq Entries /\ pend.rel \in Nat
  BY SizeAssumption DEF Inv, Types
<1>3. pend'.cells \subseteq Entries /\ pend'.rel \in Nat /\ calls' \in Seq(GoodCall)
  <2>1. CASE UNCHANGED <<pend, calls>>
    BY <1>2, <2>1
  <2>2. CASE /\ pend' = Request("ADD", Offer(MaxLinks), 0)
             /\ calls' = [i \in 1..MaxLinks - 1 |-> Replace(cand[i][1])]
    <3>1. Offer(MaxLinks) \subseteq Entries
      BY <1>2 DEF Offer, Index
    <3>2. \A i \in 1..MaxLinks - 1 : Replace(cand[i][1]) \in GoodCall
      <4> SUFFICES ASSUME NEW i \in 1..MaxLinks - 1
                   PROVE  Replace(cand[i][1]) \in GoodCall
        OBVIOUS
      <4>1. cand[i] \in Entries
        BY <1>2 DEF Index
      <4>2. cand[i][1] \in Nat
        BY <4>1, CellIs
      <4> QED
        BY <4>2, CallsAre
    <3>3. MaxLinks - 1 \in Nat
      BY <1>2
    <3> QED
      BY <1>2, <2>2, <3>1, <3>2, <3>3 DEF Request
  <2> QED
    BY <2>1, <2>2 DEF UpdateEnd
<1>4. Types' /\ OthersDistinct'
  BY <1>1, <1>3 DEF Inv, Types, OthersDistinct
<1> QED
  BY <1>1, <1>4, SameRing DEF Inv

(* A request, and the end of a transaction. *)
LEMMA TransactionStep ==
  ASSUME Inv, \/ \E ts \in Scheduled : RelocateLinks(ts)
              \/ \E c \in Cell : Response(c)
              \/ NoResponse
  PROVE  Inv'
<1>1. cand \in [Index -> Entries] /\ ListLen \in Nat \ {0} /\ MaxLinks \in 2..ListLen
      /\ calls \in Seq(GoodCall) /\ pend.cells \subseteq Entries /\ pend.rel \in Nat
      /\ sched \subseteq Slot \X Origin /\ Slot \subseteq Nat
  BY SizeAssumption DEF Inv, Types, Slot
<1>2. UNCHANGED <<cand, bl, sched, at, recent>>
  BY DEF RelocateLinks, Response, NoResponse
<1>3. pend'.cells \subseteq Entries /\ pend'.rel \in Nat /\ calls' \in Seq(GoodCall)
  <2>1. ASSUME NEW ts \in Scheduled, RelocateLinks(ts)
        PROVE  pend'.cells \subseteq Entries /\ pend'.rel \in Nat /\ calls' \in Seq(GoodCall)
    <3>1. Offer(MaxLinks - 1) \subseteq Entries
      BY <1>1 DEF Offer, Index
    <3>2. ts \in Nat
      BY <1>1 DEF Scheduled
    <3> QED
      BY <1>1, <2>1, <3>1, <3>2 DEF RelocateLinks, Request
  <2>2. ASSUME NEW c \in Cell, Response(c)
        PROVE  pend'.cells \subseteq Entries /\ pend'.rel \in Nat /\ calls' \in Seq(GoodCall)
    <3>1. c \in Entries
      BY DEF Entries
    <3>2. c[1] \in Slot /\ c[1] \in Nat
      BY <3>1, CellIs
    <3>3. /\ Replace(c[1]) \in GoodCall /\ Unlink(pend.rel) \in GoodCall
          /\ AddLink("ADD", c[1]) \in GoodCall /\ AddLink("RELOCATE", c[1]) \in GoodCall
      BY <1>1, <3>2, CallsAre DEF Origin
    <3>4. calls' \in Seq(GoodCall)
      <4>1. CASE pend.cmd = "ADD"
        BY <2>2, <3>3, <4>1 DEF Response, ResponseCalls
      <4>2. CASE pend.cmd # "ADD"
        BY <2>2, <3>3, <4>2 DEF Response, ResponseCalls
      <4> QED
        BY <4>1, <4>2
    <3> QED
      BY <2>2, <3>4 DEF Response, NoRequest
  <2>3. CASE NoResponse
    BY <1>1, <2>3 DEF NoResponse, NoRequest
  <2> QED
    BY <2>1, <2>2, <2>3
<1>4. Types' /\ OthersDistinct'
  BY <1>2, <1>3 DEF Inv, Types, OthersDistinct
<1> QED
  BY <1>2, <1>4, SameRing DEF Inv

(* Steps that write none of the candidates, the blacklist and the calls. *)
LEMMA OtherStep ==
  ASSUME Inv, \/ \E by \in {"add", "relocate"} : StartUpdate(by)
              \/ \E ts \in AutoSlot : AddAutoCell(ts)
              \/ UNCHANGED vars
  PROVE  Inv'
<1>1. UNCHANGED <<cand, bl, calls, at, pend, recent>>
  BY DEF StartUpdate, AddAutoCell, vars
<1>2. sched' \subseteq Slot \X Origin
  BY SizeAssumption DEF Inv, Types, StartUpdate, AddAutoCell, vars, Origin
<1>3. Types' /\ OthersDistinct'
  BY <1>1, <1>2 DEF Inv, Types, OthersDistinct
<1> QED
  BY <1>1, <1>3, SameRing DEF Inv

LEMMA InvStep ==
  ASSUME Inv, [Next]_vars
  PROVE  Inv'
<1>1. ASSUME NEW c \in Cell, NEW stray \in {{}, {c}}, Draw(c, stray)
      PROVE  Inv'
  BY <1>1, DrawStep
<1> QED
  BY <1>1, StartCallStep, HitStep, EndStep, TransactionStep, OtherStep DEF Next

LEMMA InvInit == Init => Inv
<1> SUFFICES ASSUME Init
             PROVE  Inv
  OBVIOUS
<1>1. Size \in Nat \ {0} /\ ListLen \in Nat \ {0}
  BY SizeAssumption
<1>2. PICK n \in Index : cand \in FilledList(n)
  BY DEF Init
<1>3. cand \in [Index -> Entries]
  BY <1>2 DEF FilledList, Entries
<1>4. /\ bl.buffer = [k \in 0..Size - 1 |-> NoCell] /\ bl.head = 0 /\ bl.tail = 0 /\ bl.count = 0
      /\ bl \in Ring
  BY <1>1 DEF Init, Ring, Entries
<1>5. Types
  BY <1>1, <1>3, <1>4 DEF Init, Types, NoRequest
<1>6. OthersDistinct
  <2> SUFFICES ASSUME NEW i \in Index, NEW j \in Index,
                      cand[i][1] = cand[j][1], cand[i] # NoCell
               PROVE  i = j
    BY DEF OthersDistinct
  <2>1. cand[i] \in Entries /\ cand[j] \in Entries
    BY <1>3
  <2>2. cand[j] # NoCell
    <3>1. cand[i][1] \in Slot
      BY <2>1, CellIs
    <3> QED
      BY <2>1, <3>1, CellIs
  <2>3. i \in 1..n /\ j \in 1..n
    BY <1>1, <1>2, <2>2 DEF FilledList, Index
  <2> QED
    BY <1>2, <2>3 DEF FilledList
<1>7. RingShape
  BY <1>1, <1>4, WrapIs DEF RingShape
<1>8. BlacklistHoldsRecent
  BY <1>4 DEF Init, BlacklistHoldsRecent
<1> QED
  BY <1>5, <1>6, <1>7, <1>8 DEF Inv

LEMMA Invariant == Spec => []Inv
  BY InvInit, InvStep, PTL DEF Spec

(* The candidate list, the blacklist, the calls and the request keep their *)
(* types: no step writes the minimal cell's timeslot to the list.          *)
THEOREM CandTypeCorrect == Spec => []TypeOK
<1>1. Inv => TypeOK
  <2> SUFFICES ASSUME Inv
               PROVE  TypeOK
    OBVIOUS
  <2>1. GoodCall \subseteq Call
    BY DEF GoodCall
  <2>2. calls \in Seq(Call)
    BY <2>1 DEF Inv, Types
  <2> QED
    BY <2>2 DEF Inv, Types, TypeOK, Ring, Entries
<1> QED
  BY <1>1, Invariant, PTL

(* Whenever replace_candidate_cell() is not at work, the candidates are in *)
(* different timeslots, whatever was drawn and overwritten on the way.     *)
THEOREM AlwaysDistinct == Spec => []CandidatesDistinct
<1>1. Inv => CandidatesDistinct
  <2> SUFFICES ASSUME Inv, at = 0
               PROVE  \A i, j \in Index : cand[i][1] = cand[j][1] /\ cand[i] # NoCell => i = j
    BY DEF CandidatesDistinct
  <2>1. 0 \notin Index
    BY DEF Index
  <2> QED
    BY <2>1 DEF Inv, OthersDistinct
<1> QED
  BY <1>1, Invariant, PTL

(* The ring always holds the cells pushed last, oldest at head.            *)
THEOREM RingHoldsRecent == Spec => []BlacklistHoldsRecent
<1>1. Inv => BlacklistHoldsRecent
  BY DEF Inv
<1> QED
  BY <1>1, Invariant, PTL


-----------------------------------------------------------------------------
(***************************************************************************)
(* What replace_candidate_cell() takes out of the list for good.  A handler *)
(* that makes a candidate unfit, because it adds its link or puts it on    *)
(* the blacklist, replaces it next, before anything else is called.        *)
(***************************************************************************)
ToReplace(i) == calls # <<>> /\ Head(calls) = Replace(cand[i][1])

Added(i) == <<cand[i][1], "ADD">> \in sched
AddedReplaced ==
  /\ \A i \in Index \ {at} : Added(i) => ToReplace(i)
  /\ \A k \in 1..Len(calls) :
       calls[k].do = "ADD" => k < Len(calls) /\ calls[k + 1] = Replace(calls[k].arg)

(* Until the ring is full its oldest entry is the first one, so that the   *)
(* scan of replace_candidate_cell() stays inside the buffer.               *)
Listed(i) == \E k \in 1..Len(recent) : cand[i] = recent[k]
BlacklistedReplaced ==
  bl.count < Size =>
    /\ bl.head = 0 /\ \A k \in 1..Len(recent) : recent[k] \in Cell
    /\ \A i \in Index \ {at} : Listed(i) => ToReplace(i)

(* A sensing run that has found nothing has compared nothing yet: it jumps *)
(* from one hit to the next, and from the start to the end if none is.     *)
Scan == [by : {"none", "add", "relocate"}, i : Nat, j : Nat, hit : BOOLEAN]
Sensing == /\ scan \in Scan /\ (~scan.hit => scan.i = 1 /\ scan.j = 1)
           /\ AddOffersClean


LEMMA Facts ==
  ASSUME Inv
  PROVE  /\ cand \in [Index -> Entries] /\ bl \in Ring /\ sched \subseteq Slot \X Origin
         /\ calls \in Seq(GoodCall) /\ ListLen \in Nat \ {0} /\ Index = 1..ListLen
         /\ at = 0 => \A i, j \in Index : cand[i][1] = cand[j][1] /\ cand[i][1] \in Slot => i = j
<1>1. ASSUME at = 0, NEW i \in Index, NEW j \in Index, cand[i][1] = cand[j][1],
             cand[i][1] \in Slot
      PROVE  i = j
  <2>1. cand[i] \in Entries /\ at \notin Index
    BY <1>1 DEF Inv, Types, Index
  <2>2. cand[i] # NoCell
    BY <1>1, <2>1, CellIs
  <2> QED
    BY <1>1, <2>1, <2>2 DEF Inv, OthersDistinct
<1> QED
  BY <1>1, SizeAssumption DEF Inv, Types, Index

(* The candidate that a handler makes unfit is the one replaced next. *)
LEMMA ReplacedNext ==
  ASSUME Inv, StartCall, NEW i \in Index, ToReplace(i), cand[i][1] \in Slot
  PROVE  at' = i
<1>1. PICK ts : ts = cand[i][1]
  OBVIOUS
<1>2. at = 0 /\ Head(calls) = Replace(ts) /\ ts \in Slot
  BY <1>1 DEF ToReplace, StartCall
<1>3. Head(calls).do = "replace" /\ Head(calls).arg = ts
  BY <1>2 DEF Replace
<1>4. at' \in FirstHolder(ts)
  BY <1>3 DEF StartCall, Origin
<1>5. Holders(ts) = {i}
  BY <1>1, <1>2, Facts DEF Holders
<1>6. FirstHolder(ts) \subseteq {i}
  BY <1>5 DEF FirstHolder
<1> QED
  BY <1>4, <1>6

(* The calls left after the first one. *)
LEMMA TailIs ==
  ASSUME NEW S, NEW s \in Seq(S), s # <<>>
  PROVE  /\ Tail(s) \in Seq(S) /\ Len(Tail(s)) = Len(s) - 1 /\ Len(s) \in Nat \ {0}
         /\ \A k \in 1..Len(Tail(s)) : Tail(s)[k] = s[k + 1] /\ k + 1 \in 1..Len(s)
         /\ Head(s) = s[1] /\ Head(s) \in S
OBVIOUS

-----------------------------------------------------------------------------
(* Cells added. *)
LEMMA AddedStartCall ==
  ASSUME Inv, AddedReplaced, StartCall
  PROVE  AddedReplaced'
<1>1. /\ calls # <<>> /\ at = 0 /\ cand' = cand /\ calls' = Tail(calls)
      /\ calls \in Seq(GoodCall) /\ sched \subseteq Slot \X Origin
      /\ cand \in [Index -> Entries] /\ 0 \notin Index
  BY Facts DEF StartCall, Index
<1>2. PICK t, c : t = Tail(calls) /\ c = Head(calls)
  OBVIOUS
<1>3. /\ Len(t) = Len(calls) - 1 /\ Len(calls) \in Nat \ {0}
      /\ \A k \in 1..Len(t) : t[k] = calls[k + 1] /\ k + 1 \in 1..Len(calls)
      /\ c = calls[1] /\ c \in GoodCall
  BY <1>1, <1>2, TailIs
<1>4. \A k \in 1..Len(calls) :
        calls[k].do = "ADD" => k < Len(calls) /\ calls[k + 1] = Replace(calls[k].arg)
  BY DEF AddedReplaced
<1>5. \A k \in 1..Len(t) : t[k].do = "ADD" => k < Len(t) /\ t[k + 1] = Replace(t[k].arg)
  <2> SUFFICES ASSUME NEW k \in 1..Len(t), t[k].do = "ADD"
               PROVE  k < Len(t) /\ t[k + 1] = Replace(t[k].arg)
    OBVIOUS
  <2>1. k + 1 \in 1..Len(calls) /\ t[k] = calls[k + 1]
    BY <1>3
  <2>2. k + 1 < Len(calls) /\ calls[(k + 1) + 1] = Replace(t[k].arg)
    BY <1>4, <2>1
  <2>3. k + 1 \in 1..Len(t)
    BY <1>3, <2>2
  <2> QED
    BY <1>3, <2>2, <2>3
<1>6. ASSUME NEW i \in Index, i # at', Added(i)'
      PROVE  ToReplace(i)'
  <2>1. <<cand[i][1], "ADD">> \in sched' /\ cand'[i] = cand[i]
    BY <1>1, <1>6 DEF Added
  <2>2. ~Added(i)
    <3>1. ASSUME Added(i) PROVE FALSE
      <4>1. ToReplace(i) /\ cand[i][1] \in Slot
        BY <1>1, <3>1 DEF AddedReplaced, Added
      <4> QED
        BY <1>6, <4>1, ReplacedNext
    <3> QED
      BY <3>1
  <2>3. c.do = "ADD" /\ c.arg = cand[i][1]
    <3>1. sched' = sched \/ sched' = Without(c.arg) \/ sched' = Without(c.arg) \cup {<<c.arg, c.do>>}
      BY <1>2 DEF StartCall
    <3>2. <<cand[i][1], "ADD">> = <<c.arg, c.do>>
      BY <2>1, <2>2, <3>1 DEF Added, Without
    <3> QED
      BY <3>2
  <2>4. 1 < Len(calls) /\ calls[2] = Replace(c.arg)
    BY <1>3, <1>4, <2>3
  <2>5. 1 \in 1..Len(t) /\ t[1] = calls[2]
    BY <1>3, <2>4
  <2>6. t # <<>> /\ Head(t) = t[1]
    <3>1. t \in Seq(GoodCall) /\ Len(t) # 0
      BY <1>1, <1>2, <2>5, TailIs
    <3>2. t # <<>>
      BY <3>1
    <3> QED
      BY <3>1, <3>2, TailIs
  <2> QED
    BY <1>1, <1>2, <2>1, <2>3, <2>4, <2>5, <2>6 DEF ToReplace
<1> QED
  BY <1>1, <1>2, <1>5, <1>6 DEF AddedReplaced

LEMMA AddedDraw ==
  ASSUME Inv, AddedReplaced, NEW c \in Cell, NEW stray, Draw(c, stray)
  PROVE  AddedReplaced'
<1>1. /\ at # 0 /\ at \in Index /\ calls' = calls /\ sched' = sched
      /\ cand \in [Index -> Entries]
  BY Facts DEF Draw, Inv, Types, Index
<1>2. CASE cand' = cand /\ at' = at
  BY <1>1, <1>2 DEF AddedReplaced, Added, ToReplace
<1>3. CASE c[1] \notin Scheduled /\ cand' = [cand EXCEPT ![at] = c] /\ (at' = at \/ at' = 0)
  <2>1. \A i \in Index : i # at => cand'[i] = cand[i]
    BY <1>3
  <2>2. <<c[1], "ADD">> \notin sched /\ cand'[at] = c
    BY <1>1, <1>3 DEF Scheduled
  <2>3. ASSUME NEW i \in Index, i # at', Added(i)' PROVE ToReplace(i)'
    <3>1. i # at
      BY <1>1, <2>2, <2>3 DEF Added
    <3> QED
      BY <1>1, <2>1, <2>3, <3>1 DEF AddedReplaced, Added, ToReplace
  <2> QED
    BY <1>1, <2>3 DEF AddedReplaced
<1> QED
  BY <1>2, <1>3 DEF Draw

(* A handler that starts, or a step of one that does not add a link. *)
LEMMA AddedOther ==
  ASSUME Inv, AddedReplaced,
         \/ UpdateHit \/ UpdateEnd \/ NoResponse
         \/ \E by \in {"add", "relocate"} : StartUpdate(by)
         \/ \E ts \in Scheduled : RelocateLinks(ts)
         \/ \E c \in Cell : Response(c)
         \/ \E ts \in AutoSlot : AddAutoCell(ts)
  PROVE  AddedReplaced'
<1>1. calls = <<>> /\ at = 0 /\ at' = 0 /\ cand' = cand /\ 0 \notin Index
  BY DEF UpdateHit, UpdateEnd, NoResponse, StartUpdate, RelocateLinks, Response, AddAutoCell,
         Idle, Index
<1>2. sched' = sched \/ \E ts : sched' = sched \cup {<<ts, "auto">>}
  BY DEF UpdateHit, UpdateEnd, NoResponse, StartUpdate, RelocateLinks, Response, AddAutoCell
<1>3. \A i \in Index : ~Added(i)
  BY <1>1 DEF AddedReplaced, ToReplace
<1>4. \A i \in Index : ~Added(i)'
  BY <1>1, <1>2, <1>3 DEF Added
<1>5. \A k \in 1..Len(calls') :
        calls'[k].do = "ADD" => k < Len(calls') /\ calls'[k + 1] = Replace(calls'[k].arg)
  <2>1. CASE UpdateHit
    <3>1. PICK a, b : calls' = <<Replace(a), Entry(b)>>
      BY <2>1 DEF UpdateHit, Hit
    <3> QED
      BY <3>1 DEF Replace, Entry
  <2>2. CASE UpdateEnd
    <3>1. \/ calls' = calls
          \/ calls' = [i \in 1..MaxLinks - 1 |-> Replace(cand[i][1])] /\ MaxLinks - 1 \in Nat
      BY <2>2, SizeAssumption DEF UpdateEnd
    <3>2. CASE calls' = calls
      BY <1>1, <3>2
    <3>3. CASE calls' = [i \in 1..MaxLinks - 1 |-> Replace(cand[i][1])] /\ MaxLinks - 1 \in Nat
      BY <3>3 DEF Replace
    <3> QED
      BY <3>1, <3>2, <3>3
  <2>3. ASSUME NEW c \in Cell, Response(c)
        PROVE  \A k \in 1..Len(calls') :
                 calls'[k].do = "ADD" => k < Len(calls') /\ calls'[k + 1] = Replace(calls'[k].arg)
    <3>1. CASE calls' = <<AddLink("ADD", c[1]), Replace(c[1])>>
      BY <3>1 DEF AddLink, Replace
    <3>2. CASE calls' = <<Replace(c[1]), AddLink("RELOCATE", c[1]), Unlink(pend.rel)>>
      BY <3>2 DEF AddLink, Replace, Unlink
    <3> QED
      BY <2>3, <3>1, <3>2 DEF Response, ResponseCalls
  <2>4. CASE calls' = calls
    BY <1>1, <2>4
  <2> QED
    BY <2>1, <2>2, <2>3, <2>4 DEF NoResponse, StartUpdate, RelocateLinks, AddAutoCell
<1> QED
  BY <1>4, <1>5 DEF AddedReplaced

LEMMA AddedStep ==
  ASSUME Inv, AddedReplaced, [Next]_vars
  PROVE  AddedReplaced'
<1>1. CASE UNCHANGED vars
  BY <1>1 DEF vars, AddedReplaced, Added, ToReplace
<1>2. ASSUME NEW c \in Cell, NEW stray \in {{}, {c}}, Draw(c, stray)
      PROVE  AddedReplaced'
  BY <1>2, AddedDraw
<1> QED
  BY <1>1, <1>2, AddedStartCall, AddedOther DEF Next

(* What an ADD response has put in the schedule is no candidate when the   *)
(* handler is done, and no draw makes it one again as long as it is there. *)
THEOREM AddedNeverOffered == Spec => []AddedNotCandidate
<1>1. Init => AddedReplaced
  BY DEF Init, AddedReplaced, Added
<1>2. Inv /\ AddedReplaced /\ [Next]_vars => Inv' /\ AddedReplaced'
  BY InvStep, AddedStep
<1>3. Inv /\ AddedReplaced => AddedNotCandidate
  BY DEF AddedReplaced, ToReplace, Added, AddedNotCandidate, Idle, Index
<1> QED
  BY <1>1, <1>2, <1>3, InvInit, PTL DEF Spec


-----------------------------------------------------------------------------
(* Cells on the blacklist. *)
LEMMA RecentIs ==
  ASSUME Inv, BlacklistedReplaced, bl.count < Size
  PROVE  /\ Len(recent) = bl.count /\ bl.count \in Nat /\ bl.head = 0
         /\ recent \in Seq(Cell)
         /\ \A k \in 1..Len(recent) : recent[k] = bl.buffer[k - 1]
<1>1. /\ Size \in Nat \ {0} /\ bl.count \in 0..Size /\ bl.head = 0
      /\ bl.buffer \in [0..Size - 1 -> Entries]
  BY SizeAssumption DEF BlacklistedReplaced, Inv, Types, Ring
<1>2. recent = [k \in 1..bl.count |-> bl.buffer[Wrap(bl.head + k - 1)]]
  BY DEF Inv, BlacklistHoldsRecent, Wrap
<1>3. ASSUME NEW k \in 1..bl.count
      PROVE  Wrap(bl.head + k - 1) = k - 1
  <2>1. k - 1 < Size /\ bl.head + k - 1 = k - 1 /\ k - 1 \in 0..2 * Size - 1
    BY <1>1
  <2> QED
    BY <1>1, <2>1, WrapIs
<1>4. recent = [k \in 1..bl.count |-> bl.buffer[k - 1]]
  BY <1>2, <1>3
<1>5. bl.count \in Nat /\ Len(recent) = bl.count
  <2>1. PICK n : n = bl.count
    OBVIOUS
  <2>2. PICK r : r = recent
    OBVIOUS
  <2>3. n \in Nat /\ r = [k \in 1..n |-> bl.buffer[k - 1]]
    BY <1>1, <1>4, <2>1, <2>2
  <2>4. Len(r) = n
    BY <2>3
  <2> QED
    BY <2>1, <2>2, <2>3, <2>4
<1>6. \A k \in 1..bl.count : recent[k] \in Cell
  BY <1>5 DEF BlacklistedReplaced
<1>7. recent \in Seq(Cell)
  <2>1. PICK n, r : n = bl.count /\ r = recent
    OBVIOUS
  <2>2. n \in Nat /\ r \in [1..n -> Cell]
    BY <1>4, <1>5, <1>6, <2>1
  <2>3. r \in Seq(Cell)
    BY <2>2
  <2> QED
    BY <2>1, <2>3
<1> QED
  BY <1>1, <1>4, <1>5, <1>7

LEMMA BlacklistedStartCall ==
  ASSUME Inv, BlacklistedReplaced, StartCall
  PROVE  BlacklistedReplaced'
<1>1. /\ at = 0 /\ cand' = cand /\ bl' = bl /\ recent' = recent
      /\ cand \in [Index -> Entries] /\ 0 \notin Index
  BY Facts DEF StartCall, Index
<1>2. ASSUME bl.count < Size, NEW i \in Index, i # at', Listed(i)
      PROVE  FALSE
  <2>1. ToReplace(i) /\ cand[i] \in Cell
    BY <1>1, <1>2 DEF BlacklistedReplaced, Listed
  <2>2. cand[i][1] \in Slot
    BY <2>1, CellIs DEF Entries
  <2> QED
    BY <1>2, <2>1, <2>2, ReplacedNext
<1> QED
  BY <1>1, <1>2 DEF BlacklistedReplaced, Listed

(* While the ring is not full the scan reads the whole of it. *)
LEMMA BlacklistedDraw ==
  ASSUME Inv, BlacklistedReplaced, NEW c \in Cell, NEW stray, Draw(c, stray)
  PROVE  BlacklistedReplaced'
<1>1. /\ at # 0 /\ at \in Index /\ calls' = calls /\ bl' = bl /\ recent' = recent
      /\ cand \in [Index -> Entries]
  BY Facts DEF Draw, Inv, Types, Index
<1>2. CASE cand' = cand /\ at' = at
  BY <1>1, <1>2 DEF BlacklistedReplaced, Listed, ToReplace
<1>3. CASE /\ Accepted(c, stray) /\ cand' = [cand EXCEPT ![at] = c]
           /\ at' = at \/ at' = 0
  <2> SUFFICES ASSUME bl.count < Size
               PROVE  \A i \in Index : i # at' /\ Listed(i)' => ToReplace(i)'
    BY <1>1 DEF BlacklistedReplaced
  <2>1. ASSUME NEW k \in 1..Len(recent)
        PROVE  recent[k] # c
    <3>1. /\ recent[k] = bl.buffer[k - 1] /\ k - 1 \in 0..bl.count - 1
          /\ bl.head + (k - 1) = k - 1 /\ k - 1 < Size
      BY RecentIs, SizeAssumption
    <3>2. PICK a : a = k - 1
      OBVIOUS
    <3> QED
      BY <1>3, <3>1, <3>2 DEF Accepted, Blacklisted
  <2>2. cand'[at] = c /\ \A i \in Index : i # at => cand'[i] = cand[i]
    BY <1>1, <1>3
  <2>3. ASSUME NEW i \in Index, i # at', Listed(i)'
        PROVE  ToReplace(i)'
    <3>1. i # at
      BY <1>1, <2>1, <2>2, <2>3 DEF Listed
    <3>2. cand'[i] = cand[i] /\ Listed(i)
      BY <1>1, <2>2, <2>3, <3>1 DEF Listed
    <3> QED
      BY <1>1, <3>1, <3>2 DEF BlacklistedReplaced, ToReplace
  <2> QED
    BY <2>3
<1> QED
  BY <1>2, <1>3 DEF Draw

(* What is pushed is the candidate that the handler replaces next. *)
LEMMA BlacklistedHit ==
  ASSUME Inv, BlacklistedReplaced, UpdateHit
  PROVE  BlacklistedReplaced'
<1>1. PICK p \in Hits : Hit(p[1], p[2]) /\ UNCHANGED <<cand, sched, at, pend>>
  BY DEF UpdateHit
<1>2. PICK c : c = cand[p[1]]
  OBVIOUS
<1>3. /\ c \in Cell /\ calls = <<>> /\ at = 0 /\ 0 \notin Index
      /\ bl \in Ring /\ Size \in Nat \ {0}
  BY <1>1, <1>2, SizeAssumption DEF UpdateHit, Hits, Index, Inv, Types
<1>4. /\ bl' = Push(bl, c) /\ \E x : calls' = <<Replace(c[1]), x>>
      /\ recent' = IF Len(recent) = Size THEN Append(Tail(recent), c) ELSE Append(recent, c)
  BY <1>1, <1>2 DEF Hit
<1> SUFFICES ASSUME bl'.count < Size
             PROVE  /\ bl'.head = 0 /\ \A k \in 1..Len(recent') : recent'[k] \in Cell
                    /\ \A i \in Index : Listed(i)' => ToReplace(i)'
  BY DEF BlacklistedReplaced
<1>5. bl.count < Size /\ bl'.head = bl.head
  BY <1>3, <1>4 DEF Push, Ring
<1>6. bl.head = 0 /\ recent \in Seq(Cell) /\ Len(recent) # Size /\ Len(recent) \in Nat
  BY <1>3, <1>5, RecentIs
<1>7. recent' = Append(recent, c)
  BY <1>4, <1>6
<1>8. /\ Len(recent') = Len(recent) + 1 /\ recent'[Len(recent) + 1] = c
      /\ \A k \in 1..Len(recent) : recent'[k] = recent[k] /\ recent[k] \in Cell
  BY <1>3, <1>6, <1>7
<1>9. \A k \in 1..Len(recent') : recent'[k] = c \/ \E m \in 1..Len(recent) : recent'[k] = recent[m]
  BY <1>6, <1>8
<1>10. ASSUME NEW i \in Index, Listed(i)'
       PROVE  ToReplace(i)'
  <2>1. cand'[i] = cand[i] /\ ~Listed(i)
    BY <1>1, <1>3, <1>5 DEF BlacklistedReplaced, ToReplace
  <2>2. cand[i] = c
    BY <1>9, <1>10, <2>1 DEF Listed
  <2> QED
    BY <1>4, <2>1, <2>2 DEF ToReplace
<1> QED
  BY <1>3, <1>5, <1>6, <1>8, <1>9, <1>10

LEMMA BlacklistedStep ==
  ASSUME Inv, BlacklistedReplaced, [Next]_vars
  PROVE  BlacklistedReplaced'
<1>1. CASE UNCHANGED vars
  BY <1>1 DEF vars, BlacklistedReplaced, Listed, ToReplace
<1>2. ASSUME NEW c \in Cell, NEW stray \in {{}, {c}}, Draw(c, stray)
      PROVE  BlacklistedReplaced'
  BY <1>2, BlacklistedDraw
<1>3. ASSUME \/ UpdateEnd \/ NoResponse
             \/ \E by \in {"add", "relocate"} : StartUpdate(by)
             \/ \E ts \in Scheduled : RelocateLinks(ts)
             \/ \E c \in Cell : Response(c)
             \/ \E ts \in AutoSlot : AddAutoCell(ts)
      PROVE  BlacklistedReplaced'
  <2>1. calls = <<>> /\ at = 0 /\ 0 \notin Index /\ UNCHANGED <<cand, bl, recent>>
    BY <1>3 DEF UpdateEnd, NoResponse, StartUpdate, RelocateLinks, Response, AddAutoCell, Idle,
                Index
  <2>2. bl.count < Size => \A i \in Index : ~Listed(i)
    BY <2>1 DEF BlacklistedReplaced, ToReplace
  <2> QED
    BY <2>1, <2>2 DEF BlacklistedReplaced, Listed
<1> QED
  BY <1>1, <1>2, <1>3, BlacklistedStartCall, BlacklistedHit DEF Next

(* Until the ring has filled up, no candidate is on the blacklist between  *)
(* handlers: what is pushed is replaced, and no draw brings it back.       *)
THEOREM BlacklistRespected == Spec => []NotBlacklistedUntilFull
<1>1. Init => BlacklistedReplaced
  BY DEF Init, BlacklistedReplaced, Listed
<1>2. Inv /\ BlacklistedReplaced /\ [Next]_vars => Inv' /\ BlacklistedReplaced'
  BY InvStep, BlacklistedStep
<1>3. Inv /\ BlacklistedReplaced => NotBlacklistedUntilFull
  BY DEF BlacklistedReplaced, ToReplace, Listed, NotBlacklistedUntilFull, Idle, Index
<1> QED
  BY <1>1, <1>2, <1>3, InvInit, PTL DEF Spec

-----------------------------------------------------------------------------
(* What is offered. *)
LEMMA SensingStep ==
  ASSUME Inv, Sensing, [Next]_vars
  PROVE  Sensing'
<1>1. /\ scan \in Scan /\ (~scan.hit => scan.i = 1 /\ scan.j = 1) /\ AddOffersClean
  BY DEF Sensing
<1>2. ASSUME UNCHANGED <<scan, pend>>
      PROVE  Sensing'
  BY <1>1, <1>2 DEF Sensing, AddOffersClean
<1>3. ASSUME NEW c \in Cell, NEW stray, Draw(c, stray)
      PROVE  Sensing'
  BY <1>2, <1>3 DEF Draw
<1>4. ASSUME NEW by \in {"add", "relocate"}, StartUpdate(by)
      PROVE  Sensing'
  BY <1>1, <1>4 DEF StartUpdate, Sensing, Scan, AddOffersClean
<1>5. CASE UpdateHit
  <2>1. PICK p \in Hits : Hit(p[1], p[2]) /\ pend' = pend
    BY <1>5 DEF UpdateHit
  <2>2. /\ p[1] \in Nat /\ p[2] + 1 \in Nat
        /\ scan' = [scan EXCEPT !.i = p[1], !.j = p[2] + 1, !.hit = TRUE]
    BY <2>1, SizeAssumption DEF Hits, Hit, Index
  <2> QED
    BY <1>1, <2>1, <2>2 DEF Sensing, Scan, AddOffersClean
<1>6. CASE UpdateEnd
  <2>1. scan' \in Scan /\ scan'.i = 1 /\ scan'.j = 1
    BY <1>6 DEF UpdateEnd, NoScan, Scan
  <2>2. AddOffersClean'
    <3>1. CASE pend' = pend
      BY <1>1, <3>1 DEF AddOffersClean
    <3>2. CASE ~scan.hit /\ pend' = Request("ADD", Offer(MaxLinks), 0) /\ pend' # pend
      <4>1. pend'.cells = Offer(MaxLinks)
        BY <3>2 DEF Request
      <4>2. ASSUME NEW j \in 1..Len(Interfered), Interfered[j] \in Offer(MaxLinks)
            PROVE  FALSE
        <5>1. PICK i \in 1..MaxLinks : Interfered[j] = cand[i]
          BY <4>2 DEF Offer
        <5>2. i \in Index /\ i \in Int /\ j \in Int /\ (i > 1 \/ (i = 1 /\ j >= 1))
          BY SizeAssumption DEF Index
        <5>3. <<i, j>> \in Hits
          BY <1>1, <3>2, <5>1, <5>2 DEF Hits
        <5> QED
          BY <1>6, <5>3 DEF UpdateEnd
      <4> QED
        BY <4>1, <4>2 DEF AddOffersClean
    <3> QED
      BY <1>6, <3>1, <3>2 DEF UpdateEnd
  <2> QED
    BY <2>1, <2>2 DEF Sensing
<1>7. ASSUME NEW ts \in Scheduled, RelocateLinks(ts)
      PROVE  Sensing'
  <2>1. scan' = scan /\ (pend' = pend \/ pend'.cmd = "RELOCATE")
    BY <1>7 DEF RelocateLinks, Request
  <2> QED
    BY <1>1, <2>1 DEF Sensing, AddOffersClean
<1>8. ASSUME \/ NoResponse \/ \E c \in Cell : Response(c)
      PROVE  Sensing'
  <2>1. scan' = scan /\ pend'.cmd = "none"
    BY <1>8 DEF NoResponse, Response, NoRequest
  <2> QED
    BY <1>1, <2>1 DEF Sensing, AddOffersClean
<1>9. ASSUME \/ StartCall \/ UNCHANGED vars \/ \E ts \in AutoSlot : AddAutoCell(ts)
      PROVE  Sensing'
  BY <1>2, <1>9 DEF StartCall, vars, AddAutoCell
<1> QED
  BY <1>3, <1>4, <1>5, <1>6, <1>7, <1>8, <1>9 DEF Next

(* An ADD request offers no cell known to be interfered with: it is sent   *)
(* in the turn of a sensing run that has compared every pair in vain.      *)
THEOREM OffersClean == Spec => []AddOffersClean
<1>1. Init => Sensing
  BY DEF Init, Sensing, Scan, NoScan, NoRequest, AddOffersClean
<1>2. Inv /\ Sensing /\ [Next]_vars => Inv' /\ Sensing'
  BY InvStep, SensingStep
<1>3. Sensing => AddOffersClean
  BY DEF Sensing
<1> QED
  BY <1>1, <1>2, <1>3, InvInit, PTL DEF Spec
=============================================================================

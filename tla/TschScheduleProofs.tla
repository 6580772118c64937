------------------------- MODULE TschScheduleProofs -------------------------
(***************************************************************************)
(* Theorems about the TSCH schedule, for any pool, slotframes and calls of *)
(* the interface: mutual exclusion of slot operation and the processes     *)
(* that hold the TSCH lock; the lists and the pool of links agree; slot    *)
(* operation goes on with links of the schedule; the search for the next   *)
(* link finds it; and the schedule implements a set of links.              *)
(***************************************************************************)
EXTENDS TschSchedule, TLAPS, FiniteSetTheorems, FunctionTheorems, WellFoundedInduction

(* The steps of a call that are made under the lock. *)
Holding == pc \in {"clear", "commit", "failed", "release"}

Shape ==
  /\ lock \in [locked : BOOLEAN, requested : BOOLEAN]
  /\ slot = [phase |-> slot.phase, cur |-> slot.cur, backup |-> slot.backup, burst |-> slot.burst]

(* The lock is held exactly during those steps, and no frame is being sent *)
(* then.                                                                   *)
Inv == Shape /\ (lock.locked <=> Holding) /\ TxExcludesLock

-----------------------------------------------------------------------------
(* After a slot comes the wait for the next one. *)
LEMMA AdvanceIs ==
  ASSUME NEW cur, NEW burst, Advance(cur, burst)
  PROVE  /\ slot' = [phase |-> slot'.phase, cur |-> slot'.cur, backup |-> slot'.backup,
                     burst |-> slot'.burst]
         /\ slot'.phase = "wait"
<1>1. \E c, b, u : slot' = [phase |-> "wait", cur |-> c, backup |-> b, burst |-> u]
  <2>1. CASE slot' = [phase |-> "wait", cur |-> cur, backup |-> NoBlock, burst |-> TRUE]
    BY <2>1
  <2>2. CASE \E q \in [Addr -> 0..1] :
               LET n == IF lock.locked THEN [best |-> NoBlock, backup |-> NoBlock, time |-> 1]
                        ELSE NextActive(link, InOrder, asn, q)
               IN  slot' = [phase |-> "wait", cur |-> n.best, backup |-> n.backup, burst |-> burst]
    BY <2>2
  <2> QED
    BY <2>1, <2>2 DEF Advance
<1> QED
  BY <1>1

(* Slots do not change the lock, and send nothing while it is held. *)
LEMMA SlotStep ==
  ASSUME Inv, Associate \/ SlotSkip \/ SlotStart \/ SlotEnd \/ Leave
  PROVE  Inv'
<1>1. UNCHANGED <<lock, pc>>
  BY DEF Associate, SlotSkip, SlotStart, SlotEnd, Leave, schedvars
<1>2. /\ slot' = [phase |-> slot'.phase, cur |-> slot'.cur, backup |-> slot'.backup,
                  burst |-> slot'.burst]
      /\ slot'.phase = "tx" => ~lock.locked
  <2>1. CASE \E cur, burst : Advance(cur, burst)
    BY <2>1, AdvanceIs
  <2>2. ASSUME NEW b, NEW packet \in MayHavePacket(b), Run(b, packet)
        PROVE  /\ slot' = [phase |-> slot'.phase, cur |-> slot'.cur, backup |-> slot'.backup,
                           burst |-> slot'.burst]
               /\ slot'.phase = "tx" => ~lock.locked
    <3>1. packet \in BOOLEAN /\ (packet => ~lock.locked)
      BY DEF MayHavePacket
    <3>2. CASE packet \/ Has(link[b], "RX")
      <4> DEFINE p == IF packet THEN "tx" ELSE "rx"
      <4>1. slot' = [slot EXCEPT !.phase = p, !.cur = b, !.burst = FALSE]
        BY <2>2, <3>2 DEF Run
      <4>2. p = "tx" => ~lock.locked
        BY <3>1
      <4> HIDE DEF p
      <4>3. slot' = [phase |-> p, cur |-> b, backup |-> slot.backup, burst |-> FALSE]
        BY <4>1 DEF Inv, Shape
      <4> QED
        BY <4>2, <4>3
    <3>3. CASE ~(packet \/ Has(link[b], "RX"))
      BY <2>1, <2>2, <3>3 DEF Run
    <3> QED
      BY <3>2, <3>3
  <2>3. CASE SlotStart
    BY <2>2, <2>3 DEF SlotStart
  <2>4. CASE Leave
    <3>1. slot' = [slot EXCEPT !.phase = "off", !.cur = NoBlock]
      BY <2>4 DEF Leave
    <3>2. slot' = [phase |-> "off", cur |-> NoBlock, backup |-> slot.backup, burst |-> slot.burst]
      BY <3>1 DEF Inv, Shape
    <3> QED
      BY <3>2
  <2> QED
    BY <2>1, <2>3, <2>4 DEF Associate, SlotSkip, SlotEnd
<1> QED
  BY <1>1, <1>2 DEF Inv, Shape, Holding, TxExcludesLock

(* The process takes the lock between slots and releases it. *)
LEMMA ProcessStep ==
  ASSUME Inv, Process \/ Call \/ (\E a \in Addr : Meet(a) \/ Forget(a)) \/ UNCHANGED vars
  PROVE  Inv'
<1>1. CASE Begin
  <2>1. slot' = slot /\ pc = "idle"
    BY <1>1 DEF Begin
  <2>2. \/ pc' = "want" /\ lock' = [lock EXCEPT !.requested = TRUE]
        \/ pc' \in {"idle", "count"} /\ lock' = lock
    BY <1>1, <2>1 DEF Begin, WantLock, NoLock, Done
  <2>3. lock' \in [locked : BOOLEAN, requested : BOOLEAN] /\ lock'.locked = lock.locked
    BY <2>2 DEF Inv, Shape
  <2> QED
    BY <2>1, <2>2, <2>3 DEF Inv, Shape, Holding, TxExcludesLock
<1>2. CASE TakeLock
  BY <1>2 DEF TakeLock, CanTake, InSlot, Inv, Shape, Holding, TxExcludesLock
<1>3. CASE ClearCurrent
  <2>1. pc = "clear" /\ pc' = "commit" /\ lock' = lock
    BY <1>3 DEF ClearCurrent
  <2>2. \/ slot' = slot
        \/ slot' = [phase |-> slot.phase, cur |-> NoBlock, backup |-> slot.backup, burst |-> slot.burst]
    BY <1>3 DEF ClearCurrent, Inv, Shape
  <2>3. slot'.phase = slot.phase
        /\ slot' = [phase |-> slot'.phase, cur |-> slot'.cur, backup |-> slot'.backup,
                    burst |-> slot'.burst]
    BY <2>2 DEF Inv, Shape
  <2> QED
    BY <2>1, <2>3 DEF Inv, Shape, Holding, TxExcludesLock
<1>4. CASE Commit
  BY <1>4 DEF Commit, Inv, Shape, Holding, TxExcludesLock
<1>5. CASE Release
  <2>1. slot' = slot /\ lock' = [lock EXCEPT !.locked = FALSE] /\ pc' \in {"idle", "count"}
    BY <1>5 DEF Release, Done
  <2> QED
    BY <2>1 DEF Inv, Shape, Holding, TxExcludesLock
<1>6. CASE CountTx
  BY <1>6 DEF CountTx, Done, Inv, Shape, Holding, TxExcludesLock
<1>7. CASE Call \/ (\E a \in Addr : Meet(a) \/ Forget(a)) \/ UNCHANGED vars
  BY <1>7 DEF Call, Meet, Forget, vars, Inv, Shape, Holding, TxExcludesLock
<1> QED
  BY <1>1, <1>2, <1>3, <1>4, <1>5, <1>6, <1>7 DEF Process

LEMMA InvInit == Init => Inv
BY DEF Init, Inv, Shape, Holding, TxExcludesLock

(* No frame is being sent while a process changes the schedule or the      *)
(* neighbour table under the lock: tsch_get_lock() waits for the end of    *)
(* the slot, and a slot that starts under the lock gets no packet.         *)
THEOREM LockExcludesTx == Spec => []TxExcludesLock
<1>1. Inv /\ [Next]_vars => Inv'
  BY SlotStep, ProcessStep DEF Next
<1>2. Inv => TxExcludesLock
  BY DEF Inv
<1> QED
  BY <1>1, <1>2, InvInit, PTL DEF Spec


-----------------------------------------------------------------------------
(***************************************************************************)
(* Induction: sets of numbers, and the functions that are defined by       *)
(* recursion over the positions of a sequence.                             *)
(***************************************************************************)
LEMMA Least ==
  ASSUME NEW T, T \subseteq Nat, T # {}
  PROVE  \E x \in T : \A y \in T : x <= y
<1> DEFINE R == OpToRel(<, Nat)
<1>1. PICK x \in T : \A y \in T : <<y, x>> \notin R
  BY WFMin, NatLessThanWellFounded
<1>2. R = {ss \in Nat \X Nat : ss[1] < ss[2]}
  BY Zenon DEF OpToRel
<1> HIDE DEF R
<1>3. \A y \in T : ~(y < x)
  BY <1>1, <1>2
<1> QED
  BY <1>3

LEMMA Induction ==
  ASSUME NEW n \in Nat, NEW T, 0 \in T, \A i \in 0..n - 1 : i \in T => i + 1 \in T
  PROVE  0..n \subseteq T
<1> DEFINE U == (0..n) \ T
<1> SUFFICES ASSUME U # {} PROVE FALSE
  OBVIOUS
<1>1. U \subseteq Nat
  OBVIOUS
<1>2. PICK x \in U : \A y \in U : x <= y
  <2> HIDE DEF U
  <2> QED
    BY <1>1, Least
<1> QED
  BY <1>2

(* The smallest of the numbers that Min is asked about. *)
LEMMA MinIs ==
  ASSUME NEW T, T \subseteq Nat, T # {}
  PROVE  Min(T) \in T /\ \A y \in T : Min(T) <= y
BY Least DEF Min

-----------------------------------------------------------------------------
(***************************************************************************)
(* Sequences without repetition, and what the calls do to them.            *)
(***************************************************************************)
Elements(s) == {s[i] : i \in 1..Len(s)}
Distinct(s) == \A i, j \in 1..Len(s) : s[i] = s[j] => i = j

LEMMA DistinctCount ==
  ASSUME NEW S, NEW s \in Seq(S), Distinct(s)
  PROVE  Cardinality(Elements(s)) = Len(s)
<1> DEFINE f == [i \in 1..Len(s) |-> s[i]]
<1>1. f \in Bijection(1..Len(s), Elements(s))
  <2>1. f \in [1..Len(s) -> Elements(s)]
    BY DEF Elements
  <2>2. \A a, b \in 1..Len(s) : f[a] = f[b] => a = b
    BY DEF Distinct
  <2>3. \A t \in Elements(s) : \E i \in 1..Len(s) : f[i] = t
    BY DEF Elements
  <2> HIDE DEF f
  <2>4. f \in Injection(1..Len(s), Elements(s)) /\ f \in Surjection(1..Len(s), Elements(s))
    BY <2>1, <2>2, <2>3, Fun_IsInj, Fun_IsSurj
  <2> QED
    BY <2>4, Fun_IsBij
<1>2. IsFiniteSet(1..Len(s)) /\ Cardinality(1..Len(s)) = Len(s)
  <2>1. 1 \in Int /\ Len(s) \in Int /\ Len(s) >= 0
    OBVIOUS
  <2> QED
    BY <2>1, FS_Interval
<1> QED
  BY <1>1, <1>2, FS_Bijection DEF ExistsBijection

(* list_add() *)
LEMMA AppendIs ==
  ASSUME NEW S, NEW s \in Seq(S), NEW e \in S
  PROVE  /\ Append(s, e) \in Seq(S) /\ Append(s, e) # <<>>
         /\ Elements(Append(s, e)) = Elements(s) \cup {e}
         /\ Distinct(s) /\ e \notin Elements(s) => Distinct(Append(s, e))
<1> DEFINE a == Append(s, e)
<1>1. /\ a \in Seq(S) /\ Len(a) = Len(s) + 1
      /\ \A i \in 1..Len(s) : a[i] = s[i]
      /\ a[Len(s) + 1] = e
  OBVIOUS
<1> HIDE DEF a
<1>2. a # <<>>
  BY <1>1
<1>3. Elements(a) = Elements(s) \cup {e}
  BY <1>1 DEF Elements
<1>4. Distinct(s) /\ e \notin Elements(s) => Distinct(a)
  BY <1>1 DEF Elements, Distinct
<1> QED
  BY <1>1, <1>2, <1>3, <1>4 DEF a

LEMMA ConcatIs ==
  ASSUME NEW S, NEW u \in Seq(S), NEW v \in Seq(S)
  PROVE  /\ u \o v \in Seq(S) /\ Len(u \o v) = Len(u) + Len(v)
         /\ \A i \in 1..Len(u) : (u \o v)[i] = u[i]
         /\ \A i \in 1..Len(v) : (u \o v)[Len(u) + i] = v[i]
OBVIOUS

(* list_remove() *)
LEMMA RemoveFirstIs ==
  ASSUME NEW S, NEW s \in Seq(S), NEW e
  PROVE  /\ RemoveFirst(s, e) \in Seq(S)
         /\ Elements(s) \subseteq Elements(RemoveFirst(s, e)) \cup {e}
         /\ Elements(RemoveFirst(s, e)) \subseteq Elements(s)
         /\ Distinct(s) => /\ Distinct(RemoveFirst(s, e))
                           /\ e \notin Elements(RemoveFirst(s, e))
<1>1. CASE \E i \in 1..Len(s) : s[i] = e
  <2> DEFINE I == {i \in 1..Len(s) : s[i] = e}
             k == Min(I)
             u == SubSeq(s, 1, k - 1)
             v == SubSeq(s, k + 1, Len(s))
             r == u \o v
  <2>1. I \subseteq Nat /\ I # {}
    BY <1>1
  <2>2. k \in 1..Len(s) /\ s[k] = e
    BY <2>1, MinIs
  <2>3. SelectInSeq(s, LAMBDA x : x = e) = k
    BY <2>1 DEF SelectInSeq
  <2>4. RemoveFirst(s, e) = r
    BY <1>1, <2>3 DEF RemoveFirst, RemoveAt
  <2> HIDE DEF k, I
  <2>5. /\ r \in Seq(S) /\ Len(r) = Len(s) - 1
        /\ \A i \in 1..k - 1 : r[i] = s[i]
        /\ \A i \in k..Len(s) - 1 : r[i] = s[i + 1]
    <3>1. u \in Seq(S) /\ Len(u) = k - 1 /\ \A i \in 1..k - 1 : u[i] = s[i]
      BY <2>2
    <3>2. v \in Seq(S) /\ Len(v) = Len(s) - k /\ \A i \in 1..Len(s) - k : v[i] = s[i + k]
      BY <2>2
    <3> HIDE DEF u, v
    <3>3. /\ r \in Seq(S) /\ Len(r) = Len(u) + Len(v)
          /\ \A i \in 1..Len(u) : r[i] = u[i]
          /\ \A i \in 1..Len(v) : r[Len(u) + i] = v[i]
      <4>1. u \in Seq(S) /\ v \in Seq(S)
        BY <3>1, <3>2
      <4> QED
        BY <4>1, ConcatIs
    <3> HIDE DEF r
    <3>5. ASSUME NEW i \in k..Len(s) - 1 PROVE r[i] = s[i + 1]
      <4> DEFINE j == i - (k - 1)
      <4>1. j \in 1..Len(v) /\ Len(u) + j = i /\ j + k = i + 1
        BY <2>2, <3>1, <3>2
      <4> HIDE DEF j
      <4>2. r[i] = v[j]
        BY <3>3, <4>1
      <4>3. v[j] = s[j + k]
        BY <3>2, <4>1
      <4> QED
        BY <4>1, <4>2, <4>3
    <3>6. \A i \in 1..k - 1 : r[i] = s[i]
      BY <2>2, <3>1, <3>3
    <3> QED
      BY <2>2, <3>1, <3>2, <3>3, <3>5, <3>6
  <2> HIDE DEF r
  <2>6. \A j \in 1..Len(s) : j = k \/ (j < k /\ r[j] = s[j]) \/ (j > k /\ r[j - 1] = s[j])
    BY <2>2, <2>5
  <2>7. \A i \in 1..Len(r) : \E j \in 1..Len(s) \ {k} : r[i] = s[j] /\ j = IF i < k THEN i ELSE i + 1
    BY <2>2, <2>5, SMTT(60)
  <2>8. Elements(s) \subseteq Elements(r) \cup {e}
    <3> SUFFICES ASSUME NEW j \in 1..Len(s) PROVE s[j] = e \/ s[j] \in Elements(r)
      BY DEF Elements
    <3>1. j = k \/ (\E i \in 1..Len(r) : r[i] = s[j])
      BY <2>2, <2>5, <2>6
    <3> QED
      BY <2>2, <3>1 DEF Elements
  <2>9. Elements(r) \subseteq Elements(s)
    BY <2>7 DEF Elements
  <2>10. Distinct(s) => e \notin Elements(r)
    BY <2>2, <2>7 DEF Elements, Distinct
  <2>11. Distinct(s) => Distinct(r)
    BY <2>2, <2>5, <2>7 DEF Distinct
  <2> QED
    BY <2>4, <2>5, <2>8, <2>9, <2>10, <2>11
<1>2. CASE ~\E i \in 1..Len(s) : s[i] = e
  BY <1>2 DEF RemoveFirst, Elements
<1> QED
  BY <1>1, <1>2

(* memb_alloc() *)
LEMMA FirstFreeIs ==
  ASSUME used \subseteq Block, used # Block
  PROVE  FirstFree \in Block \ used
<1>1. Block \subseteq Nat
  BY ScheduleAssumption DEF Block
<1>2. \E b \in Block \ used : \A c \in Block \ used : b <= c
  BY <1>1, Least
<1> QED
  BY <1>2 DEF FirstFree

(* tsch_schedule_get_link_by_timeslot() *)
LEMMA LinkAtIs ==
  ASSUME NEW h \in Handle, NEW ts, lists[h] \in Seq(Block)
  PROVE  \/ /\ LinkAt(h, ts) = NoBlock
            /\ \A b \in Elements(lists[h]) : link[b].ts # ts
         \/ /\ LinkAt(h, ts) \in Elements(lists[h])
            /\ link[LinkAt(h, ts)].ts = ts
<1> DEFINE s == lists[h]
           I == {i \in 1..Len(s) : link[s[i]].ts = ts}
           k == SelectInSeq(s, LAMBDA b : link[b].ts = ts)
<1>1. k = IF I # {} THEN Min(I) ELSE 0
  BY DEF SelectInSeq
<1>2. LinkAt(h, ts) = IF k = 0 THEN NoBlock ELSE s[k]
  BY DEF LinkAt
<1>3. I # {} => Min(I) \in I
  <2>1. I \subseteq Nat
    OBVIOUS
  <2> HIDE DEF I
  <2> QED
    BY <2>1, MinIs
<1> HIDE DEF k
<1>4. CASE I = {}
  BY <1>1, <1>2, <1>4 DEF Elements
<1>5. CASE I # {}
  <2>1. k \in 1..Len(s) /\ k # 0 /\ link[s[k]].ts = ts
    BY <1>1, <1>3, <1>5
  <2> QED
    BY <1>2, <2>1 DEF Elements
<1> QED
  BY <1>4, <1>5


-----------------------------------------------------------------------------
(***************************************************************************)
(* The search for the next link.                                           *)
(***************************************************************************)
LEMMA MaxSizeIs == MaxSize \in Nat /\ \A h \in Handle : Size[h] <= MaxSize
<1>1. PICK h \in Handle : \A k \in Handle : Size[k] <= Size[h]
  BY ScheduleAssumption
<1>2. \E n \in {Size[k] : k \in Handle} : \A k \in Handle : Size[k] <= n
  BY <1>1
<1>3. MaxSize \in {Size[k] : k \in Handle} /\ \A k \in Handle : Size[k] <= MaxSize
  BY <1>2 DEF MaxSize
<1> QED
  BY <1>3, ScheduleAssumption

LEMMA TimeToIs ==
  ASSUME NEW l \in Link, NEW now \in Nat
  PROVE  TimeTo(l, now) \in Int
<1>1. l.sf \in Handle /\ l.ts \in 0..MaxSize
  BY DEF Link
<1>2. l.ts \in Nat /\ Size[l.sf] \in Nat \ {0}
  <2>1. l.ts \in Nat
    BY <1>1, MaxSizeIs
  <2>2. Size[l.sf] \in Nat \ {0}
    BY <1>1, ScheduleAssumption
  <2> QED
    BY <2>1, <2>2
<1>3. now % Size[l.sf] \in Nat
  BY <1>2
<1> QED
  BY <1>2, <1>3 DEF TimeTo

LEMMA NewBestIs ==
  ASSUME NEW lk, NEW best, NEW b
  PROVE  \A q : NewBest(lk, best, b, q) \in {NoBlock, best, b}
BY DEF NewBest, Comparator

Found(B) == [best : B \cup {NoBlock}, backup : B \cup {NoBlock}, time : Int]

LEMMA VisitIs ==
  ASSUME NEW lk, NEW B, NEW r \in Found(B),
         NEW b \in B, lk[b] \in Link, NEW now \in Nat, NEW q
  PROVE  Visit(lk, r, b, now, q) \in Found(B)
<1> DEFINE t == TimeTo(lk[b], now)
           new == NewBest(lk, r.best, b, q)
           backup1 == IF new # b THEN AsBackup(lk, r.backup, b) ELSE r.backup
           backup2 == IF new # r.best THEN AsBackup(lk, backup1, r.best) ELSE backup1
<1>1. t \in Int
  BY TimeToIs
<1>2. new \in B \cup {NoBlock}
  BY NewBestIs DEF Found
<1>3. \A x, y \in B \cup {NoBlock} : AsBackup(lk, x, y) \in B \cup {NoBlock}
  BY DEF AsBackup
<1>4. backup1 \in B \cup {NoBlock}
  BY <1>3 DEF Found
<1> HIDE DEF backup1
<1>5. backup2 \in B \cup {NoBlock}
  BY <1>3, <1>4 DEF Found
<1>6. Visit(lk, r, b, now, q) =
        IF r.best = NoBlock \/ t < r.time
        THEN [best |-> b, backup |-> NoBlock, time |-> t]
        ELSE IF t = r.time
        THEN [best |-> IF new # NoBlock THEN new ELSE r.best, backup |-> backup2, time |-> t]
        ELSE r
  BY DEF Visit, backup1
<1> HIDE DEF t, new, backup2
<1> QED
  BY <1>1, <1>2, <1>5, <1>6 DEF Found

(* The result after each of the links, by recursion over their order.      *)
LEMMA AfterEach ==
  ASSUME NEW lk, NEW order, NEW n \in Nat, NEW now, NEW q
  PROVE  LET after[i \in 0..n] ==
               IF i = 0 THEN NoLink ELSE Visit(lk, after[i - 1], order[i], now, q)
         IN  after = [i \in 0..n |-> IF i = 0 THEN NoLink
                                     ELSE Visit(lk, after[i - 1], order[i], now, q)]
<1> DEFINE Is(g, m) == g = [i \in 0..m |-> IF i = 0 THEN NoLink
                                           ELSE Visit(lk, g[i - 1], order[i], now, q)]
           T == {m \in Nat : \E g : Is(g, m)}
<1>1. 0 \in T
  <2>1. Is([i \in 0..0 |-> NoLink], 0)
    OBVIOUS
  <2> QED
    BY <2>1
<1>2. ASSUME NEW m \in 0..n - 1, m \in T PROVE m + 1 \in T
  <2>1. PICK g : Is(g, m)
    BY <1>2
  <2> DEFINE x == Visit(lk, g[m], order[m + 1], now, q)
             h == [i \in 0..m + 1 |-> IF i = m + 1 THEN x ELSE g[i]]
  <2>2. \A i \in 0..m : h[i] = g[i]
    OBVIOUS
  <2>3. h[m + 1] = x
    OBVIOUS
  <2>4. ASSUME NEW i \in 0..m + 1
        PROVE  h[i] = IF i = 0 THEN NoLink ELSE Visit(lk, h[i - 1], order[i], now, q)
    <3>1. CASE i = m + 1
      <4>1. h[i - 1] = g[m] /\ i # 0
        BY <3>1, <2>2
      <4> QED
        BY <3>1, <4>1, <2>3
    <3>2. CASE i # m + 1
      <4>1. i \in 0..m /\ h[i] = g[i] /\ (i # 0 => h[i - 1] = g[i - 1])
        BY <3>2, <2>2
      <4>2. g[i] = IF i = 0 THEN NoLink ELSE Visit(lk, g[i - 1], order[i], now, q)
        BY <4>1, <2>1
      <4> QED
        BY <4>1, <4>2
    <3> QED
      BY <3>1, <3>2
  <2>5. h = [i \in 0..m + 1 |-> h[i]]
    OBVIOUS
  <2> HIDE DEF h
  <2>6. Is(h, m + 1)
    BY <2>4, <2>5
  <2> QED
    BY <2>6
<1>3. \E g : Is(g, n)
  <2> HIDE DEF T
  <2>1. n \in T
    BY <1>1, <1>2, Induction
  <2> QED
    BY <2>1 DEF T
<1> QED
  BY <1>3

(* The search returns a link from the list, if any. *)
LEMMA NextActiveIn ==
  ASSUME NEW lk, NEW B, NEW order \in Seq(B), \A b \in B : lk[b] \in Link,
         NEW now \in Nat, NEW q
  PROVE  NextActive(lk, order, now, q) \in Found(B)
<1> DEFINE n == Len(order)
           after[i \in 0..n] ==
             IF i = 0 THEN NoLink ELSE Visit(lk, after[i - 1], order[i], now, q)
           T == {i \in 0..n : after[i] \in Found(B)}
<1>1. after = [i \in 0..n |-> IF i = 0 THEN NoLink
                              ELSE Visit(lk, after[i - 1], order[i], now, q)]
  BY AfterEach
<1>2. NextActive(lk, order, now, q) = after[n]
  BY DEF NextActive
<1> HIDE DEF after
<1>3. 0 \in T
  BY <1>1 DEF NoLink, Found
<1>4. ASSUME NEW i \in 0..n - 1, i \in T PROVE i + 1 \in T
  <2>1. after[i] \in Found(B) /\ order[i + 1] \in B /\ lk[order[i + 1]] \in Link
    BY <1>4
  <2>2. after[i + 1] = Visit(lk, after[i], order[i + 1], now, q)
    BY <1>1
  <2>3. after[i + 1] \in Found(B)
    BY <2>1, <2>2, VisitIs
  <2> QED
    BY <2>3
<1>5. n \in T
  <2>1. n \in Nat
    OBVIOUS
  <2> HIDE DEF T, n
  <2>2. \A i \in 0..n - 1 : i \in T => i + 1 \in T
    BY <1>4
  <2>3. 0..n \subseteq T
    BY <1>3, <2>1, <2>2, Induction
  <2> QED
    BY <2>1, <2>3
<1> QED
  BY <1>2, <1>5

(* The links that the loops visit are those on the lists of slotframes.    *)
LEMMA InOrderIs ==
  ASSUME NEW B, sfs \in Seq(Handle), \A h \in Handle : lists[h] \in Seq(B)
  PROVE  InOrder \in Seq(B)
<1> DEFINE n == Len(sfs)
           Is(g, m) == g = [i \in 0..m |-> IF i = 0 THEN <<>> ELSE g[i - 1] \o lists[sfs[i]]]
           T == {m \in Nat : \E g : Is(g, m)}
           upTo[i \in 0..n] == IF i = 0 THEN <<>> ELSE upTo[i - 1] \o lists[sfs[i]]
<1>1. 0 \in T
  <2> DEFINE g == [i \in 0..0 |-> <<>>]
  <2>1. Is(g, 0)
    OBVIOUS
  <2> HIDE DEF g
  <2> QED
    BY <2>1
<1>2. ASSUME NEW m \in 0..n - 1, m \in T PROVE m + 1 \in T
  <2>1. PICK g : Is(g, m)
    BY <1>2
  <2> DEFINE x == g[m] \o lists[sfs[m + 1]]
  <2>2. x = g[m] \o lists[sfs[m + 1]]
    OBVIOUS
  <2> HIDE DEF x
  <2> DEFINE h == [i \in 0..m + 1 |-> IF i = m + 1 THEN x ELSE g[i]]
  <2>3. \A i \in 0..m : h[i] = g[i]
    OBVIOUS
  <2>4. h[m + 1] = x
    OBVIOUS
  <2>5. ASSUME NEW i \in 0..m + 1
        PROVE  h[i] = IF i = 0 THEN <<>> ELSE h[i - 1] \o lists[sfs[i]]
    <3>1. CASE i = m + 1
      <4>1. h[i - 1] = g[m] /\ i # 0
        BY <3>1, <2>3
      <4> QED
        BY <3>1, <4>1, <2>4, <2>2
    <3>2. CASE i # m + 1
      <4>1. i \in 0..m /\ h[i] = g[i] /\ (i # 0 => h[i - 1] = g[i - 1])
        BY <3>2, <2>3
      <4>2. g[i] = IF i = 0 THEN <<>> ELSE g[i - 1] \o lists[sfs[i]]
        BY <4>1, <2>1
      <4> QED
        BY <4>1, <4>2
    <3> QED
      BY <3>1, <3>2
  <2>6. h = [i \in 0..m + 1 |-> h[i]]
    OBVIOUS
  <2> HIDE DEF h, n
  <2>7. Is(h, m + 1)
    BY <2>5, <2>6
  <2> QED
    BY <2>7
<1>3. n \in Nat
  OBVIOUS
<1>4. \E g : Is(g, n)
  <2> HIDE DEF T, n
  <2>1. \A m \in 0..n - 1 : m \in T => m + 1 \in T
    BY <1>2
  <2>2. 0..n \subseteq T
    BY <1>1, <1>3, <2>1, Induction
  <2>3. n \in T
    BY <1>3, <2>2
  <2> QED
    BY <2>3 DEF T
<1>5. Is(upTo, n)
  BY <1>4
<1>6. InOrder = upTo[n]
  BY DEF InOrder
<1> HIDE DEF upTo
<1> DEFINE U == {i \in 0..n : upTo[i] \in Seq(B)}
<1>7. 0 \in U
  <2> HIDE DEF n
  <2>0. 0 \in 0..n
    BY <1>3
  <2>1. upTo[0] = <<>>
    BY <1>5, <2>0
  <2>2. <<>> \in Seq(B)
    OBVIOUS
  <2> QED
    BY <2>0, <2>1, <2>2
<1>8. ASSUME NEW i \in 0..n - 1, i \in U PROVE i + 1 \in U
  <2>1. upTo[i + 1] = upTo[i] \o lists[sfs[i + 1]]
    <3>1. \A j \in 0..n : upTo[j] = IF j = 0 THEN <<>> ELSE upTo[j - 1] \o lists[sfs[j]]
      <4> HIDE DEF n
      <4> QED
        BY <1>5
    <3>2. i + 1 \in 0..n /\ i + 1 # 0 /\ (i + 1) - 1 = i
      BY <1>3
    <3> HIDE DEF n
    <3> QED
      BY <3>1, <3>2
  <2>2. upTo[i] \in Seq(B) /\ sfs[i + 1] \in Handle
    BY <1>8
  <2>3. lists[sfs[i + 1]] \in Seq(B)
    BY <2>2
  <2>4. upTo[i + 1] \in Seq(B)
    BY <2>1, <2>2, <2>3, ConcatIs
  <2>5. i + 1 \in 0..n
    BY <1>3
  <2> QED
    BY <2>4, <2>5
<1>9. n \in U
  <2> HIDE DEF U, n
  <2>1. \A i \in 0..n - 1 : i \in U => i + 1 \in U
    BY <1>8
  <2>2. 0..n \subseteq U
    BY <1>3, <1>7, <2>1, Induction
  <2> QED
    BY <1>3, <2>2
<1> QED
  BY <1>6, <1>9


-----------------------------------------------------------------------------
(***************************************************************************)
(* The inductive invariant.                                                *)
(***************************************************************************)
(* The calls that the process may have to make. *)
Calls ==
  {AddSf(h) : h \in Handle} \cup {RemoveSf(h) : h \in Handle}
    \cup {AddLink(l, TRUE) : l \in Link} \cup {AddLink(l, FALSE) : l \in Link}
    \cup {RemoveLink(b) : b \in Block} \cup {AddNbr(l) : l \in Link}

(* A list holds the allocated blocks of its slotframe, each once. *)
DataInv ==
  /\ link \in [Block -> Link] /\ used \subseteq Block
  /\ sfs \in Seq(Handle) /\ lists \in [Handle -> Seq(Block)]
  /\ \A h \in Handle :
       Distinct(lists[h]) /\ Elements(lists[h]) = {b \in used : link[b].sf = h}
  /\ \A b \in used : link[b].ts < Size[link[b].sf] /\ IsSlotframe(link[b].sf)

NbrInv == DOMAIN nbr \subseteq Addr /\ \A a \in DOMAIN nbr : nbr[a] \in Nbr

(* What the process has found out before it asks for the lock still holds  *)
(* when it has got it.                                                     *)
CallInv ==
  /\ todo \in Seq(Calls)
  /\ pc \in {"idle", "want", "clear", "commit", "failed", "release", "count"}
  /\ pc # "idle" => todo # <<>>
  /\ pc = "clear" => Now.do = "removeLink"
  /\ pc = "failed" => Now.do = "addLink"
  /\ pc = "count" => Now.do = "addNbr"
  /\ pc \in {"want", "commit"} /\ Now.do = "removeSf" => lists[Now.sf] = <<>>
  /\ pc \in {"want", "commit"} /\ Now.do = "addLink" =>
       IsSlotframe(Now.l.sf) /\ Now.l.ts < Size[Now.l.sf]

(* Slot operation does not go back to a link that is about to be removed:  *)
(* it finds none while the schedule is locked.                             *)
SlotInv ==
  /\ slot \in Slots /\ asn \in 0..Period - 1
  /\ CurrentScheduled
  /\ pc = "commit" /\ Now.do = "removeLink" /\ slot.phase = "wait" /\ ~slot.burst =>
       slot.cur # Now.b

SInv == Inv /\ DataInv /\ NbrInv /\ CallInv /\ SlotInv

(* At most one link per timeslot, when the links are added with do_remove. *)
At(l) == {b \in used : link[b].sf = l.sf /\ link[b].ts = l.ts}

Direct == {c \in Calls : c.do = "addLink" => c.rm}

Replacing ==
  \/ todo \in Seq(Direct)
  \/ /\ Now.do = "addLink" /\ ~Now.rm /\ Tail(todo) \in Seq(Direct)
     /\ pc = "idle" => At(Now.l) = {}
  \/ /\ Len(todo) >= 2 /\ Now.do = "removeLink" /\ todo[2].do = "addLink"
     /\ Tail(Tail(todo)) \in Seq(Direct)
     /\ At(todo[2].l) \subseteq {Now.b}

UniqueInv ==
  /\ \A b \in used : At(link[b]) = {b}
  /\ pc \in {"want", "commit"} /\ Now.do = "addLink" => At(Now.l) = {}
  /\ pc = "release" /\ Now.do = "removeLink" => Now.b \notin used
  /\ Replacing

-----------------------------------------------------------------------------
LEMMA CallIs ==
  ASSUME NEW c \in Calls
  PROVE  /\ c.do \in {"addSf", "removeSf", "addLink", "removeLink", "addNbr"}
         /\ c.do \in {"addSf", "removeSf"} => c.sf \in Handle
         /\ c.do = "addLink" => c.l \in Link /\ c.rm \in BOOLEAN
         /\ c.do = "removeLink" => c.b \in Block
         /\ c.do = "addNbr" => c.l \in Link
<1>1. CASE \E h \in Handle : c = AddSf(h) \/ c = RemoveSf(h)
  BY <1>1 DEF AddSf, RemoveSf
<1>2. ASSUME NEW l \in Link, NEW rm \in BOOLEAN, c = AddLink(l, rm)
      PROVE  c.do = "addLink" /\ c.l \in Link /\ c.rm \in BOOLEAN
  <2>1. c.do = "addLink" /\ c.l = l /\ c.rm = rm
    BY <1>2 DEF AddLink
  <2> QED
    BY <2>1
<1>3. CASE \E b \in Block : c = RemoveLink(b)
  BY <1>3 DEF RemoveLink
<1>4. CASE \E l \in Link : c = AddNbr(l)
  BY <1>4 DEF AddNbr
<1> QED
  BY <1>1, <1>2, <1>3, <1>4 DEF Calls

LEMMA LinkFields ==
  ASSUME NEW l \in Link
  PROVE  /\ l.sf \in Handle /\ l.ts \in Nat /\ l.addr \in Addr
         /\ Size[l.sf] \in Nat \ {0}
<1>1. l.sf \in Handle /\ l.ts \in 0..MaxSize /\ l.addr \in Addr
  BY DEF Link
<1>2. l.ts \in Nat
  BY <1>1, MaxSizeIs
<1>3. Size[l.sf] \in Nat \ {0}
  BY <1>1, ScheduleAssumption
<1> QED
  BY <1>1, <1>2, <1>3

LEMMA ElementsIn ==
  ASSUME NEW S, NEW T, NEW s \in Seq(S), \A i \in 1..Len(s) : s[i] \in T
  PROVE  s \in Seq(T)
OBVIOUS

(* The links that slot operation looks at are those of the schedule. *)
LEMMA InOrderUsed ==
  ASSUME DataInv
  PROVE  InOrder \in Seq(used)
<1>1. ASSUME NEW h \in Handle PROVE lists[h] \in Seq(used)
  <2> DEFINE s == lists[h]
  <2>1. s \in Seq(Block)
    BY DEF DataInv
  <2>2. \A i \in 1..Len(s) : s[i] \in used
    BY DEF DataInv, Elements
  <2> HIDE DEF s
  <2>3. s \in Seq(used)
    BY <2>1, <2>2, ElementsIn
  <2> QED
    BY <2>3 DEF s
<1>2. sfs \in Seq(Handle)
  BY DEF DataInv
<1> QED
  BY <1>1, <1>2, InOrderIs

LEMMA AdvanceStep ==
  ASSUME DataInv, SlotInv, NEW cur \in Block \cup {NoBlock}, NEW burst \in BOOLEAN,
         Advance(cur, burst)
  PROVE  /\ slot' \in Slots /\ asn' \in 0..Period - 1 /\ slot'.phase = "wait"
         /\ ~slot'.burst /\ slot'.cur # NoBlock => ~lock.locked /\ slot'.cur \in used
<1>1. Period \in Nat \ {0} /\ asn \in Nat
  BY ScheduleAssumption DEF SlotInv
<1>2. CASE /\ burst /\ cur # NoBlock
           /\ slot' = [phase |-> "wait", cur |-> cur, backup |-> NoBlock, burst |-> TRUE]
           /\ asn' = (asn + 1) % Period
  BY <1>1, <1>2 DEF Slots
<1>3. ASSUME NEW q,
             LET n == IF lock.locked THEN NoLink ELSE NextActive(link, InOrder, asn, q)
             IN  /\ slot' = [phase |-> "wait", cur |-> n.best, backup |-> n.backup, burst |-> burst]
                 /\ asn' = (asn + n.time) % Period
      PROVE  /\ slot' \in Slots /\ asn' \in 0..Period - 1 /\ slot'.phase = "wait"
             /\ ~slot'.burst /\ slot'.cur # NoBlock => ~lock.locked /\ slot'.cur \in used
  <2> DEFINE n == IF lock.locked THEN NoLink ELSE NextActive(link, InOrder, asn, q)
  <2>1. \A b \in used : link[b] \in Link
    BY DEF DataInv
  <2>2. NextActive(link, InOrder, asn, q) \in Found(used)
    BY <1>1, <2>1, InOrderUsed, NextActiveIn
  <2>3. NoLink \in Found(used)
    BY DEF NoLink, Found
  <2>4. n \in Found(used) /\ (lock.locked => n.best = NoBlock)
    BY <2>2, <2>3 DEF NoLink
  <2>5. /\ slot' = [phase |-> "wait", cur |-> n.best, backup |-> n.backup, burst |-> burst]
        /\ asn' = (asn + n.time) % Period
    BY <1>3
  <2> HIDE DEF n
  <2>6. n.best \in used \cup {NoBlock} /\ n.backup \in used \cup {NoBlock} /\ n.time \in Int
    BY <2>4 DEF Found
  <2>7. used \subseteq Block
    BY DEF DataInv
  <2>8. asn' \in 0..Period - 1
    BY <1>1, <2>5, <2>6
  <2> QED
    BY <2>4, <2>5, <2>6, <2>7, <2>8 DEF Slots
<1> QED
  BY <1>2, <1>3 DEF Advance

LEMMA SlotOperation ==
  ASSUME DataInv, SlotInv, Associate \/ SlotSkip \/ SlotStart \/ SlotEnd \/ Leave
  PROVE  /\ slot' \in Slots /\ asn' \in 0..Period - 1
         /\ slot'.phase = "wait" /\ ~slot'.burst /\ slot'.cur # NoBlock =>
              ~lock.locked /\ slot'.cur \in used
<1> DEFINE Good == /\ slot' \in Slots /\ asn' \in 0..Period - 1
                   /\ slot'.phase = "wait" /\ ~slot'.burst /\ slot'.cur # NoBlock =>
                        ~lock.locked /\ slot'.cur \in used
<1> SUFFICES Good
  OBVIOUS
<1>1. ASSUME NEW cur \in Block \cup {NoBlock}, NEW burst \in BOOLEAN, Advance(cur, burst)
      PROVE  Good
  BY <1>1, AdvanceStep
<1>2. /\ slot.cur \in Block \cup {NoBlock} /\ slot.burst \in BOOLEAN
      /\ slot.backup \in Block \cup {NoBlock}
  BY DEF SlotInv, Slots
<1>3. ASSUME NEW b \in Block \cup {NoBlock}, NEW packet, Run(b, packet) PROVE Good
  <2>1. CASE packet \/ Has(link[b], "RX")
    <3> DEFINE p == IF packet THEN "tx" ELSE "rx"
    <3>1. slot' = [slot EXCEPT !.phase = p, !.cur = b, !.burst = FALSE] /\ asn' = asn
      BY <1>3, <2>1 DEF Run
    <3>2. p \in {"tx", "rx"}
      OBVIOUS
    <3> HIDE DEF p
    <3> QED
      BY <3>1, <3>2 DEF SlotInv, Slots
  <2>2. CASE ~(packet \/ Has(link[b], "RX"))
    <3>1. Advance(b, FALSE)
      BY <1>3, <2>2 DEF Run
    <3> HIDE DEF Good
    <3> QED
      BY <1>1, <3>1
  <2> QED
    BY <2>1, <2>2
<1>4. CASE Leave
  <2>1. slot' = [slot EXCEPT !.phase = "off", !.cur = NoBlock] /\ asn' = 0
    BY <1>4 DEF Leave
  <2>2. slot' \in Slots /\ slot'.phase = "off"
    BY <2>1 DEF SlotInv, Slots
  <2>3. asn' \in 0..Period - 1
    BY <2>1, ScheduleAssumption
  <2> QED
    BY <2>2, <2>3
<1> HIDE DEF Good
<1>5. CASE SlotStart
  <2>1. (\E p : Run(slot.backup, p)) \/ (\E p : Run(slot.cur, p))
    BY <1>5 DEF SlotStart
  <2> QED
    BY <1>2, <1>3, <2>1
<1>6. CASE Associate \/ SlotSkip \/ SlotEnd
  <2>1. NoBlock \in Block \cup {NoBlock} /\ FALSE \in BOOLEAN
    OBVIOUS
  <2>2. \/ Advance(NoBlock, FALSE) \/ Advance(slot.cur, slot.burst)
        \/ \E burst \in BOOLEAN : Advance(slot.cur, burst)
    BY <1>6 DEF Associate, SlotSkip, SlotEnd
  <2> QED
    BY <1>1, <1>2, <2>1, <2>2
<1> QED
  BY <1>4, <1>5, <1>6


-----------------------------------------------------------------------------
(***************************************************************************)
(* The steps of the process.                                               *)
(***************************************************************************)
LEMMA IdleCall ==
  ASSUME todo' \in Seq(Calls), pc' = "idle"
  PROVE  CallInv'
BY DEF CallInv

LEMMA TodoIs ==
  ASSUME CallInv, todo # <<>>
  PROVE  /\ Now \in Calls /\ Tail(todo) \in Seq(Calls)
         /\ todo \in Seq(Calls) /\ Len(todo) \in Nat \ {0}
BY DEF CallInv, Now

(* A call that goes on to the lock. *)
LEMMA WantCall ==
  ASSUME CallInv, todo # <<>>, todo' = todo, UNCHANGED <<lists, sfs>>,
         pc' \in {"want", "commit", "release"},
         Now.do = "removeSf" => lists[Now.sf] = <<>>,
         Now.do = "addLink" => IsSlotframe(Now.l.sf) /\ Now.l.ts < Size[Now.l.sf]
  PROVE  CallInv'
BY DEF CallInv, Now, IsSlotframe

(* A call that makes others first. *)
LEMMA CallFirst ==
  ASSUME NEW c \in Calls, NEW s \in Seq(Calls)
  PROVE  <<c>> \o s \in Seq(Calls)
OBVIOUS

LEMMA BeginCall ==
  ASSUME DataInv, CallInv, Begin
  PROVE  CallInv'
<1>1. /\ pc = "idle" /\ todo # <<>>
      /\ UNCHANGED <<link, used, sfs, lists, nbr, slot, asn, calls>>
  BY DEF Begin
<1>2. Now \in Calls /\ Tail(todo) \in Seq(Calls) /\ todo \in Seq(Calls)
  BY <1>1, TodoIs
<1>3. Done => CallInv'
  BY <1>2, IdleCall DEF Done
<1>4. /\ WantLock
      /\ Now.do = "removeSf" => lists[Now.sf] = <<>>
      /\ Now.do = "addLink" => IsSlotframe(Now.l.sf) /\ Now.l.ts < Size[Now.l.sf]
      => CallInv'
  BY <1>1, WantCall DEF WantLock
<1>5. CASE Now.do = "addSf"
  BY <1>1, <1>3, <1>4, <1>5 DEF Begin
<1>6. CASE Now.do = "removeSf"
  <2>1. lists[Now.sf] \in Seq(Block)
    BY <1>2, <1>6, CallIs DEF DataInv
  <2>2. CASE lists[Now.sf] # <<>>
    <3>1. RemoveLink(Head(lists[Now.sf])) \in Calls
      <4>1. Head(lists[Now.sf]) \in Block
        BY <2>1, <2>2
      <4> QED
        BY <4>1 DEF Calls
    <3>2. todo' = <<RemoveLink(Head(lists[Now.sf]))>> \o todo /\ pc' = "idle"
      BY <1>1, <1>6, <2>2 DEF Begin
    <3>3. todo' \in Seq(Calls)
      BY <1>2, <3>1, <3>2, CallFirst
    <3> QED
      BY <3>2, <3>3, IdleCall
  <2>3. CASE lists[Now.sf] = <<>>
    BY <1>4, <1>6, <2>3 DEF Begin
  <2> QED
    BY <2>2, <2>3
<1>7. CASE Now.do = "addLink"
  <2> DEFINE l == Now.l
             b == Replaced(Now)
  <2>1. l \in Link /\ l.sf \in Handle /\ l.ts \in Nat /\ Size[l.sf] \in Nat
    BY <1>2, <1>7, CallIs, LinkFields
  <2> DEFINE Fits == IsSlotframe(l.sf) /\ l.ts <= Size[l.sf] - 1
  <2>4. \/ ~Fits /\ Done /\ lock' = lock
        \/ /\ Fits
           /\ IF b = NoBlock THEN WantLock
              ELSE /\ todo' = <<RemoveLink(b), AddLink(l, FALSE)>> \o Tail(todo)
                   /\ pc' = "idle"
    <3>1. (~IsSlotframe(l.sf) \/ l.ts > Size[l.sf] - 1) <=> ~Fits
      BY <2>1
    <3> HIDE DEF Fits
    <3> QED
      BY <1>1, <1>7, <3>1 DEF Begin, NoLock, Fits
  <2>2. CASE ~Fits
    BY <1>3, <2>2, <2>4
  <2>3. CASE Fits
    <3>1. CASE b = NoBlock
      <4>1. WantLock
        BY <2>3, <2>4, <3>1
      <4>2. l.ts < Size[l.sf]
        BY <2>1, <2>3
      <4> QED
        BY <1>4, <1>7, <2>3, <4>1, <4>2
    <3>2. CASE b # NoBlock
      <4>1. todo' = <<RemoveLink(b), AddLink(l, FALSE)>> \o Tail(todo) /\ pc' = "idle"
        BY <2>3, <2>4, <3>2
      <4>2. b \in Block
        <5>1. lists[l.sf] \in Seq(Block)
          BY <2>1 DEF DataInv
        <5>2. b = LinkAt(l.sf, l.ts)
          BY <3>2 DEF Replaced
        <5>3. b \in Elements(lists[l.sf])
          BY <2>1, <3>2, <5>1, <5>2, LinkAtIs
        <5> QED
          BY <5>1, <5>3 DEF Elements
      <4>3. RemoveLink(b) \in Calls /\ AddLink(l, FALSE) \in Calls
        <5>1. RemoveLink(b) \in {RemoveLink(c) : c \in Block}
          BY <4>2
        <5>2. AddLink(l, FALSE) \in {AddLink(k, FALSE) : k \in Link}
          BY <2>1
        <5> QED
          BY <5>1, <5>2 DEF Calls
      <4>4. todo' \in Seq(Calls)
        <5> DEFINE x == RemoveLink(b)
                   y == AddLink(l, FALSE)
                   t == Tail(todo)
        <5>1. x \in Calls /\ y \in Calls /\ t \in Seq(Calls) /\ todo' = <<x, y>> \o t
          BY <1>2, <4>1, <4>3
        <5> HIDE DEF x, y, t
        <5> QED
          BY <5>1
      <4> QED
        BY <4>1, <4>4, IdleCall
    <3> QED
      BY <3>1, <3>2
  <2> QED
    BY <2>2, <2>3
<1>8. CASE Now.do = "removeLink"
  BY <1>4, <1>8 DEF Begin
<1>9. CASE Now.do = "addNbr"
  <2>1. CASE WantLock
    BY <1>4, <1>9, <2>1
  <2>2. CASE pc' = "count" /\ todo' = todo
    <3>1. Now' = Now /\ todo' # <<>> /\ todo' \in Seq(Calls)
      BY <1>1, <1>2, <2>2 DEF Now
    <3> QED
      BY <1>9, <2>2, <3>1 DEF CallInv
  <2> QED
    BY <1>9, <2>1, <2>2 DEF Begin
<1> QED
  BY <1>2, <1>5, <1>6, <1>7, <1>8, <1>9, CallIs


(* What callers ask for: C holds the calls that the interface makes. *)
LEMMA CallsIn ==
  /\ \A h \in Handle : AddSf(h) \in Calls /\ RemoveSf(h) \in Calls
  /\ \A l \in Link, rm \in BOOLEAN : AddLink(l, rm) \in Calls
  /\ \A b \in Block : RemoveLink(b) \in Calls
<1>1. ASSUME NEW l \in Link, NEW rm \in BOOLEAN PROVE AddLink(l, rm) \in Calls
  <2>1. AddLink(l, TRUE) \in {AddLink(k, TRUE) : k \in Link}
    OBVIOUS
  <2>2. AddLink(l, FALSE) \in {AddLink(k, FALSE) : k \in Link}
    OBVIOUS
  <2>3. rm = TRUE \/ rm = FALSE
    OBVIOUS
  <2> QED
    BY <2>1, <2>2, <2>3 DEF Calls
<1> QED
  BY <1>1 DEF Calls

LEMMA InterfaceIs ==
  ASSUME DataInv, NEW s \in Interface, NEW C,
         \A h \in Handle : AddSf(h) \in C /\ RemoveSf(h) \in C,
         \A l \in Link, rm \in DoRemove \cup {TRUE} : AddLink(l, rm) \in C,
         \A b \in Block : RemoveLink(b) \in C
  PROVE  s \in Seq(C)
<1>1. sfs \in Seq(Handle) /\ \A i \in 1..Len(sfs) : sfs[i] \in Handle
  BY DEF DataInv
<1>5. \A c \in C : <<c>> \in Seq(C)
  OBVIOUS
<1>6. CASE \E c \in C : s = <<c>>
  BY <1>5, <1>6
<1>7. ASSUME NEW l \in MinimalLinks,
             s = [i \in 1..Len(sfs) |-> RemoveSf(sfs[i])] \o <<AddSf(0), AddLink(l, TRUE)>>
      PROVE  s \in Seq(C)
  <2> DEFINE r == [i \in 1..Len(sfs) |-> RemoveSf(sfs[i])]
             x == AddSf(0)
             y == AddLink(l, TRUE)
  <2>1. r \in Seq(C)
    <3>1. \A i \in 1..Len(sfs) : RemoveSf(sfs[i]) \in C
      BY <1>1
    <3>2. Len(sfs) \in Nat
      BY <1>1
    <3> QED
      BY <3>1, <3>2
  <2>2. x \in C /\ y \in C
    <3>1. l \in Link /\ 0 \in Handle
      BY LinkFields DEF MinimalLinks
    <3> QED
      BY <3>1
  <2>3. s = r \o <<x, y>>
    BY <1>7
  <2> HIDE DEF r, x, y
  <2>4. <<x, y>> \in Seq(C)
    BY <2>2
  <2> QED
    BY <2>1, <2>3, <2>4, ConcatIs
<1>8. \/ \E c \in C : s = <<c>>
      \/ \E l \in MinimalLinks :
           s = [i \in 1..Len(sfs) |-> RemoveSf(sfs[i])] \o <<AddSf(0), AddLink(l, TRUE)>>
  <2> DEFINE Added == {k \in Link : k.opt \in Options /\ \E i \in 1..Len(sfs) : sfs[i] = k.sf}
             A == {<<AddSf(h)>> : h \in Handle}
             B == {<<RemoveSf(sfs[i])>> : i \in 1..Len(sfs)}
             F == UNION {{<<AddLink(l, rm)>> : rm \in DoRemove} : l \in Added}
             D == {<<RemoveLink(b)>> : b \in {c \in Block : \E i \in 1..Len(InOrder) : InOrder[i] = c}}
             E == {[i \in 1..Len(sfs) |-> RemoveSf(sfs[i])] \o <<AddSf(0), AddLink(l, TRUE)>> :
                     l \in MinimalLinks}
  <2>1. s \in A => \E c \in C : s = <<c>>
    OBVIOUS
  <2>2. s \in B => \E c \in C : s = <<c>>
    BY <1>1
  <2>3. s \in F => \E c \in C : s = <<c>>
    <3> SUFFICES ASSUME s \in F PROVE \E c \in C : s = <<c>>
      OBVIOUS
    <3>1. PICK l \in Added : s \in {<<AddLink(l, rm)>> : rm \in DoRemove}
      OBVIOUS
    <3>2. PICK rm \in DoRemove : s = <<AddLink(l, rm)>>
      BY <3>1
    <3>3. rm \in DoRemove \cup {TRUE} /\ l \in Link
      BY <3>1, <3>2
    <3> QED
      BY <3>2, <3>3
  <2>4. s \in D => \E c \in C : s = <<c>>
    OBVIOUS
  <2>5. s \in E => \E l \in MinimalLinks :
           s = [i \in 1..Len(sfs) |-> RemoveSf(sfs[i])] \o <<AddSf(0), AddLink(l, TRUE)>>
    OBVIOUS
  <2>6. s \in A \cup B \cup F \cup D \cup E
    <3>1. Interface = A \cup B \cup F \cup D \cup E
      BY DEF Interface
    <3> QED
      BY <3>1
  <2> HIDE DEF A, B, F, D, E
  <2> QED
    BY <2>1, <2>2, <2>3, <2>4, <2>5, <2>6
<1> QED
  BY <1>6, <1>7, <1>8

LEMMA ProcessCalls ==
  ASSUME DataInv, CallInv, TakeLock \/ ClearCurrent \/ Commit \/ Release \/ CountTx \/ Call
  PROVE  CallInv'
<1>1. CASE TakeLock
  <2>1. /\ pc = "want" /\ UNCHANGED <<lists, sfs, todo>>
        /\ pc' = IF Now.do = "removeLink" THEN "clear" ELSE "commit"
    BY <1>1 DEF TakeLock
  <2> QED
    BY <2>1 DEF CallInv, Now, IsSlotframe
<1>2. CASE ClearCurrent
  BY <1>2 DEF ClearCurrent, CallInv, Now
<1>3. CASE Commit
  <2>1. /\ pc = "commit" /\ UNCHANGED todo
        /\ pc' = IF Now.do = "addLink" /\ used = Block THEN "failed" ELSE "release"
    BY <1>3 DEF Commit
  <2> QED
    BY <2>1 DEF CallInv, Now
<1>4. CASE Release
  <2>1. todo # <<>> /\ pc \in {"release", "failed"}
    BY <1>4 DEF Release, CallInv
  <2>2. Now \in Calls /\ Tail(todo) \in Seq(Calls) /\ todo \in Seq(Calls)
    BY <2>1, TodoIs
  <2>3. CASE Done
    BY <2>2, <2>3, IdleCall DEF Done
  <2>4. CASE Now.do = "addLink" /\ todo' = <<AddNbr(Now.l)>> \o Tail(todo) /\ pc' = "idle"
    <3>1. Now.l \in Link
      BY <2>2, <2>4, CallIs
    <3>2. AddNbr(Now.l) \in Calls
      BY <3>1 DEF Calls
    <3>3. todo' \in Seq(Calls)
      BY <2>2, <2>4, <3>2, CallFirst
    <3> QED
      BY <2>4, <3>3, IdleCall
  <2>5. CASE Now.do = "addNbr" /\ pc' = "count" /\ todo' = todo
    BY <2>1, <2>2, <2>5 DEF CallInv, Now
  <2> QED
    BY <1>4, <2>3, <2>4, <2>5 DEF Release
<1>5. CASE CountTx
  <2>1. todo # <<>> /\ Done
    BY <1>5 DEF CountTx, CallInv
  <2> QED
    BY <2>1, TodoIs, IdleCall DEF Done
<1>6. CASE Call
  <2>1. todo' \in Interface /\ pc' = "idle"
    BY <1>6 DEF Call
  <2>2. DoRemove \cup {TRUE} \subseteq BOOLEAN
    BY ScheduleAssumption
  <2>3. todo' \in Seq(Calls)
    BY <2>1, <2>2, CallsIn, InterfaceIs
  <2> QED
    BY <2>1, <2>3, IdleCall
<1> QED
  BY <1>1, <1>2, <1>3, <1>4, <1>5, <1>6


LEMMA DataSame ==
  ASSUME DataInv, UNCHANGED <<link, used, sfs, lists>>
  PROVE  DataInv'
BY DEF DataInv, IsSlotframe

LEMMA CommitSfData ==
  ASSUME DataInv, CallInv, pc = "commit", CommitSf, UNCHANGED <<link, used, lists>>
  PROVE  DataInv'
<1>1. Now \in Calls
  BY TodoIs DEF CallInv
<1>2. sfs \in Seq(Handle)
  BY DEF DataInv
<1>3. CASE Now.do = "addSf"
  <2> DEFINE a == Append(sfs, Now.sf)
  <2>1. Now.sf \in Handle
    BY <1>1, <1>3, CallIs
  <2>2. a \in Seq(Handle) /\ Elements(a) = Elements(sfs) \cup {Now.sf}
    BY <1>2, <2>1, AppendIs
  <2>3. sfs' \in {a, sfs}
    BY <1>3 DEF CommitSf
  <2> HIDE DEF a
  <2>4. sfs' \in Seq(Handle) /\ Elements(sfs) \subseteq Elements(sfs')
    BY <1>2, <2>2, <2>3
  <2>5. \A h : IsSlotframe(h) => IsSlotframe(h)'
    BY <2>4 DEF IsSlotframe, Elements
  <2> QED
    BY <2>4, <2>5 DEF DataInv
<1>4. CASE Now.do = "removeSf"
  <2> DEFINE h == Now.sf
             r == RemoveFirst(sfs, h)
  <2>1. h \in Handle /\ lists[h] = <<>>
    BY <1>1, <1>4, CallIs DEF CallInv
  <2>2. sfs' = r
    BY <1>4 DEF CommitSf
  <2>3. r \in Seq(Handle) /\ Elements(sfs) \subseteq Elements(r) \cup {h}
    BY <1>2, RemoveFirstIs
  <2> HIDE DEF r, h
  <2>4. \A b \in used : link[b].sf # h
    <3>1. Elements(lists[h]) = {}
      BY <2>1 DEF Elements
    <3> QED
      BY <2>1, <3>1 DEF DataInv
  <2>5. \A k : IsSlotframe(k) /\ k # h => IsSlotframe(k)'
    BY <2>2, <2>3 DEF IsSlotframe, Elements
  <2> QED
    BY <2>2, <2>3, <2>4, <2>5 DEF DataInv
<1> QED
  BY <1>3, <1>4 DEF CommitSf

LEMMA CommitLinkData ==
  ASSUME DataInv, CallInv, pc = "commit", CommitLink, UNCHANGED sfs
  PROVE  DataInv'
<1>1. Now \in Calls
  BY TodoIs DEF CallInv
<1>2. \A h : IsSlotframe(h)' <=> IsSlotframe(h)
  BY DEF IsSlotframe
<1>3. CASE Now.do = "addLink" /\ used # Block
  <2> DEFINE f == FirstFree
             l == Now.l
             h == l.sf
             a == Append(lists[h], f)
  <2>1. f \in Block \ used
    BY <1>3, FirstFreeIs DEF DataInv
  <2>2. l \in Link /\ h \in Handle
    BY <1>1, <1>3, CallIs, LinkFields
  <2>3. IsSlotframe(h) /\ l.ts < Size[h]
    BY <1>3 DEF CallInv
  <2>4. /\ link' = [link EXCEPT ![f] = l] /\ used' = used \cup {f}
        /\ lists' = [lists EXCEPT ![h] = Append(@, f)]
    BY <1>3 DEF CommitLink
  <2>5. lists[h] \in Seq(Block) /\ f \notin Elements(lists[h]) /\ Distinct(lists[h])
    BY <2>1, <2>2 DEF DataInv
  <2>6. /\ a \in Seq(Block) /\ Elements(a) = Elements(lists[h]) \cup {f} /\ Distinct(a)
    BY <2>1, <2>5, AppendIs
  <2>7. lists' = [lists EXCEPT ![h] = a]
    BY <2>4
  <2> HIDE DEF f, l, a
  <2>8. /\ link' \in [Block -> Link] /\ used' \subseteq Block
        /\ link'[f] = l /\ \A b \in used : link'[b] = link[b]
    BY <2>1, <2>2, <2>4 DEF DataInv
  <2>9. /\ lists' \in [Handle -> Seq(Block)] /\ lists'[h] = a
        /\ \A k \in Handle : k # h => lists'[k] = lists[k]
    BY <2>2, <2>6, <2>7 DEF DataInv
  <2>10. ASSUME NEW k \in Handle
         PROVE  Distinct(lists'[k]) /\ Elements(lists'[k]) = {b \in used' : link'[b].sf = k}
    <3>1. Distinct(lists[k]) /\ Elements(lists[k]) = {b \in used : link[b].sf = k}
      BY DEF DataInv
    <3>2. CASE k = h
      <4>1. {b \in used' : link'[b].sf = k} = {b \in used : link[b].sf = k} \cup {f}
        BY <2>4, <2>8, <3>2
      <4> QED
        BY <2>6, <2>9, <3>1, <3>2, <4>1
    <3>3. CASE k # h
      <4>1. {b \in used' : link'[b].sf = k} = {b \in used : link[b].sf = k}
        BY <2>4, <2>8, <3>3
      <4> QED
        BY <2>9, <3>1, <3>3, <4>1
    <3> QED
      BY <3>2, <3>3
  <2>11. ASSUME NEW b \in used'
         PROVE  link'[b].ts < Size[link'[b].sf] /\ \E i \in 1..Len(sfs') : sfs'[i] = link'[b].sf
    <3>1. CASE b = f
      BY <2>3, <2>8, <3>1 DEF IsSlotframe
    <3>2. CASE b # f
      <4>1. b \in used /\ link'[b] = link[b]
        BY <2>4, <2>8, <3>2
      <4>2. link[b].ts < Size[link[b].sf] /\ IsSlotframe(link[b].sf)
        BY <4>1 DEF DataInv
      <4> QED
        BY <4>1, <4>2 DEF IsSlotframe
    <3> QED
      BY <3>1, <3>2
  <2>12. sfs' \in Seq(Handle)
    BY DEF DataInv
  <2> QED
    BY <2>8, <2>9, <2>10, <2>11, <2>12 DEF DataInv, IsSlotframe
<1>4. CASE Now.do = "removeLink"
  <2> DEFINE b == Now.b
             h == link[b].sf
             r == RemoveFirst(lists[h], b)
  <2>1. b \in Block
    BY <1>1, <1>4, CallIs
  <2>2. h \in Handle
    BY <2>1, LinkFields DEF DataInv
  <2>3. link' = link /\ used' = used \ {b} /\ lists' = [lists EXCEPT ![h] = RemoveFirst(@, b)]
    BY <1>4 DEF CommitLink
  <2>4. lists[h] \in Seq(Block) /\ Distinct(lists[h])
    BY <2>2 DEF DataInv
  <2>5. r \in Seq(Block) /\ Distinct(r) /\ Elements(r) = Elements(lists[h]) \ {b}
    <3> DEFINE s == lists[h]
    <3>1. s \in Seq(Block) /\ Distinct(s)
      BY <2>4
    <3>2. r = RemoveFirst(s, b)
      OBVIOUS
    <3> HIDE DEF s, b, r
    <3>3. /\ r \in Seq(Block) /\ Distinct(r) /\ b \notin Elements(r)
          /\ Elements(s) \subseteq Elements(r) \cup {b} /\ Elements(r) \subseteq Elements(s)
      BY <3>1, <3>2, RemoveFirstIs
    <3>4. Elements(r) = Elements(s) \ {b}
      BY <3>3
    <3> QED
      BY <3>3, <3>4 DEF s
  <2>6. lists' = [lists EXCEPT ![h] = r]
    BY <2>3
  <2> HIDE DEF b, r
  <2>7. /\ lists' \in [Handle -> Seq(Block)] /\ lists'[h] = r
        /\ \A k \in Handle : k # h => lists'[k] = lists[k]
    BY <2>2, <2>5, <2>6 DEF DataInv
  <2>8. ASSUME NEW k \in Handle
        PROVE  Distinct(lists'[k]) /\ Elements(lists'[k]) = {c \in used' : link'[c].sf = k}
    <3>1. Distinct(lists[k]) /\ Elements(lists[k]) = {c \in used : link[c].sf = k}
      BY DEF DataInv
    <3>2. CASE k = h
      BY <2>3, <2>5, <2>7, <3>1, <3>2
    <3>3. CASE k # h
      <4>1. {c \in used' : link'[c].sf = k} = {c \in used : link[c].sf = k}
        BY <2>3, <3>3
      <4> QED
        BY <2>7, <3>1, <3>3, <4>1
    <3> QED
      BY <3>2, <3>3
  <2> QED
    BY <1>2, <2>3, <2>7, <2>8 DEF DataInv
<1>5. CASE Now.do = "addLink" /\ used = Block
  BY <1>5, DataSame DEF CommitLink
<1> QED
  BY <1>3, <1>4, <1>5 DEF CommitLink


LEMMA NbrStep ==
  ASSUME DataInv, NbrInv, CallInv, [Next]_vars
  PROVE  NbrInv'
<1>1. CASE UNCHANGED nbr
  BY <1>1 DEF NbrInv
<1>2. ASSUME NEW l \in Link, NEW d \in {-1, 1}, CountLink(l, d) PROVE NbrInv'
  <2>1. CASE l.addr \notin DOMAIN nbr
    BY <1>1, <1>2, <2>1 DEF CountLink
  <2>2. CASE l.addr \in DOMAIN nbr
    <3> DEFINE n == nbr[l.addr]
               c == Count(n, l, d)
    <3>1. n \in Nbr
      BY <2>2 DEF NbrInv
    <3>2. c \in Nbr
      <4>1. n.tx + d \in Int /\ n.ded + d \in Int /\ n.ded \in 0..255
        BY <3>1, SMTT(60) DEF Nbr
      <4>2. \A x \in Int : x % 256 \in 0..255
        OBVIOUS
      <4> HIDE DEF n
      <4> QED
        BY <4>1, <4>2 DEF Count, Nbr
    <3>3. nbr' = [nbr EXCEPT ![l.addr] = c]
      BY <1>2, <2>2 DEF CountLink
    <3> HIDE DEF n, c
    <3>4. DOMAIN nbr' = DOMAIN nbr
      BY <3>3
    <3>5. \A a \in DOMAIN nbr : nbr'[a] = IF a = l.addr THEN c ELSE nbr[a]
      BY <3>3
    <3> QED
      BY <3>2, <3>4, <3>5 DEF NbrInv
  <2> QED
    BY <2>1, <2>2
<1>3. ASSUME NEW a \in Addr,
             nbr' = [b \in DOMAIN nbr \cup {a} |->
                       IF b \in DOMAIN nbr THEN nbr[b] ELSE [tx |-> 0, ded |-> 0]]
      PROVE  NbrInv'
  <2>1. [tx |-> 0, ded |-> 0] \in Nbr
    BY DEF Nbr
  <2>2. DOMAIN nbr' = DOMAIN nbr \cup {a}
    BY <1>3
  <2>3. \A b \in DOMAIN nbr' : nbr'[b] \in Nbr
    BY <1>3, <2>1 DEF NbrInv
  <2> QED
    BY <2>2, <2>3 DEF NbrInv
<1>4. CASE Associate \/ SlotSkip \/ SlotStart \/ SlotEnd \/ Leave \/ Call
  BY <1>1, <1>4 DEF Associate, SlotSkip, SlotStart, SlotEnd, Leave, Call, schedvars
<1>5. CASE Begin \/ TakeLock \/ ClearCurrent
  BY <1>1, <1>5 DEF Begin, TakeLock, ClearCurrent
<1>6. CASE Commit
  <2>1. CASE CommitNbr
    <3>1. Now.do = "addNbr" /\ Now \in Calls
      BY <1>6, <2>1, TodoIs DEF Commit, CommitNbr, CallInv
    <3>2. Now.l.addr \in Addr
      BY <3>1, CallIs, LinkFields
    <3> QED
      BY <1>1, <1>3, <2>1, <3>2 DEF CommitNbr
  <2> QED
    BY <1>1, <1>6, <2>1 DEF Commit
<1>7. CASE Release
  <2>1. Now \in Calls
    BY <1>7, TodoIs DEF Release, CallInv
  <2>2. CASE Now.do = "removeLink"
    <3>1. link[Now.b] \in Link
      BY <2>1, <2>2, CallIs DEF DataInv
    <3>2. CountLink(link[Now.b], -1) \/ UNCHANGED nbr
      BY <1>7, <2>2 DEF Release
    <3> QED
      BY <1>1, <1>2, <3>1, <3>2
  <2>3. CASE Now.do # "removeLink"
    BY <1>1, <1>7, <2>3 DEF Release
  <2> QED
    BY <2>2, <2>3
<1>8. CASE CountTx
  <2>1. Now \in Calls /\ Now.do = "addNbr"
    BY <1>8, TodoIs DEF CountTx, CallInv
  <2>2. Now.l \in Link
    BY <2>1, CallIs
  <2> QED
    BY <1>2, <1>8, <2>2 DEF CountTx
<1>9. ASSUME NEW a \in Addr, Meet(a) PROVE NbrInv'
  <2>1. a \notin DOMAIN nbr
    BY <1>9 DEF Meet
  <2>2. nbr' = [b \in DOMAIN nbr \cup {a} |-> IF b = a THEN [tx |-> 0, ded |-> 0] ELSE nbr[b]]
    BY <1>9 DEF Meet
  <2>3. nbr' = [b \in DOMAIN nbr \cup {a} |->
                  IF b \in DOMAIN nbr THEN nbr[b] ELSE [tx |-> 0, ded |-> 0]]
    BY <2>1, <2>2
  <2> QED
    BY <1>3, <2>3
<1>10. ASSUME NEW a \in Addr, Forget(a) PROVE NbrInv'
  <2>1. nbr' = [b \in DOMAIN nbr \ {a} |-> nbr[b]]
    BY <1>10 DEF Forget
  <2>2. DOMAIN nbr' = DOMAIN nbr \ {a} /\ \A b \in DOMAIN nbr' : nbr'[b] = nbr[b]
    BY <2>1
  <2> QED
    BY <2>2 DEF NbrInv
<1>11. CASE UNCHANGED vars
  BY <1>1, <1>11 DEF vars
<1> QED
  BY <1>4, <1>5, <1>6, <1>7, <1>8, <1>9, <1>10, <1>11 DEF Next, Process

LEMMA SlotInvStep ==
  ASSUME SInv, [Next]_vars
  PROVE  SlotInv'
<1>0. DataInv /\ CallInv /\ SlotInv /\ Inv
  BY DEF SInv
<1>1. CASE Associate \/ SlotSkip \/ SlotStart \/ SlotEnd \/ Leave
  <2>1. UNCHANGED <<used, pc, todo, lock>>
    BY <1>1 DEF Associate, SlotSkip, SlotStart, SlotEnd, Leave, schedvars
  <2>2. /\ slot' \in Slots /\ asn' \in 0..Period - 1
        /\ slot'.phase = "wait" /\ ~slot'.burst /\ slot'.cur # NoBlock =>
             ~lock.locked /\ slot'.cur \in used
    BY <1>0, <1>1, SlotOperation
  <2>3. pc = "commit" => lock.locked
    BY <1>0 DEF Inv, Holding
  <2>4. pc = "commit" /\ Now.do = "removeLink" => Now.b # NoBlock
    <3> SUFFICES ASSUME pc = "commit", Now.do = "removeLink" PROVE Now.b # NoBlock
      OBVIOUS
    <3>1. Now.b \in Block
      BY <1>0, TodoIs, CallIs DEF CallInv
    <3> QED
      BY <3>1, ScheduleAssumption DEF Block, NoBlock
  <2>5. Now' = Now
    BY <2>1 DEF Now
  <2> QED
    BY <2>1, <2>2, <2>3, <2>4, <2>5 DEF SlotInv, CurrentScheduled
<1>2. ASSUME UNCHANGED <<slot, asn, used>>, pc' # "commit" \/ UNCHANGED <<pc, todo>>
      PROVE  SlotInv'
  BY <1>0, <1>2 DEF SlotInv, CurrentScheduled, Now
<1>3. CASE Begin \/ Release \/ CountTx \/ Call \/ (\E a \in Addr : Meet(a) \/ Forget(a))
           \/ UNCHANGED vars
  <2>1. UNCHANGED <<slot, asn, used>>
    BY <1>3 DEF Begin, Release, CountTx, Call, Meet, Forget, vars
  <2>2. pc' # "commit" \/ UNCHANGED <<pc, todo>>
    BY <1>3 DEF Begin, Release, CountTx, Call, Meet, Forget, vars, Done, WantLock
  <2> QED
    BY <1>2, <2>1, <2>2
<1>4. CASE TakeLock
  <2>1. UNCHANGED <<slot, asn, used, todo>> /\ (pc' = "commit" => Now.do # "removeLink")
    BY <1>4 DEF TakeLock
  <2> QED
    BY <1>0, <2>1 DEF SlotInv, CurrentScheduled, Now
<1>5. CASE ClearCurrent
  <2>1. /\ UNCHANGED <<asn, used, todo>> /\ pc = "clear"
        /\ slot' = IF slot.cur = Now.b THEN [slot EXCEPT !.cur = NoBlock] ELSE slot
    BY <1>5 DEF ClearCurrent
  <2>2. Now.b \in Block /\ Now.b # NoBlock
    <3>1. Now.b \in Block
      BY <1>0, <2>1, TodoIs, CallIs DEF CallInv
    <3> QED
      BY <3>1, ScheduleAssumption DEF Block, NoBlock
  <2>3. CASE slot.cur = Now.b
    <3>1. slot' \in Slots /\ slot'.cur = NoBlock
      BY <1>0, <2>1, <2>3 DEF SlotInv, Slots
    <3> QED
      BY <1>0, <2>1, <2>2, <3>1 DEF SlotInv, CurrentScheduled, Now
  <2>4. CASE slot.cur # Now.b
    BY <1>0, <2>1, <2>4 DEF SlotInv, CurrentScheduled, Now
  <2> QED
    BY <2>3, <2>4
<1>6. CASE Commit
  <2>1. UNCHANGED <<slot, asn, todo>> /\ pc = "commit" /\ pc' # "commit"
    BY <1>6 DEF Commit
  <2>2. used \subseteq used' \/ (Now.do = "removeLink" /\ used' = used \ {Now.b})
    BY <1>6 DEF Commit, CommitLink
  <2>3. slot.phase = "wait" /\ ~slot.burst /\ slot.cur # NoBlock => slot.cur \in used'
    BY <1>0, <2>1, <2>2 DEF SlotInv, CurrentScheduled
  <2> QED
    BY <1>0, <2>1, <2>3 DEF SlotInv, CurrentScheduled
<1> QED
  BY <1>1, <1>3, <1>4, <1>5, <1>6 DEF Next, Process


LEMMA SInvInit == Init => SInv
<1> SUFFICES ASSUME Init PROVE SInv
  OBVIOUS
<1>1. DataInv
  <2>1. Link # {}
    <3>1. PICK h \in Handle, a \in Addr : TRUE
      BY ScheduleAssumption
    <3>2. [sf |-> h, ts |-> 0, opt |-> MinimalOpt, addr |-> a] \in Link
      BY MaxSizeIs DEF Link
    <3> QED
      BY <3>2
  <2>2. (CHOOSE l \in Link : TRUE) \in Link
    BY <2>1
  <2> DEFINE l0 == CHOOSE l \in Link : TRUE
  <2>3. link \in [Block -> {l0}] /\ l0 \in Link
    BY <2>2 DEF Init
  <2> HIDE DEF l0
  <2>4. link \in [Block -> Link]
    BY <2>3
  <2>5. used = {} /\ sfs = <<>> /\ lists = [h \in Handle |-> <<>>]
    BY DEF Init
  <2>6. <<>> \in Seq(Block) /\ <<>> \in Seq(Handle) /\ Elements(<<>>) = {} /\ Distinct(<<>>)
    BY DEF Elements, Distinct
  <2>7. \A h \in Handle : lists[h] = <<>>
    BY <2>5
  <2>8. lists \in [Handle -> Seq(Block)]
    BY <2>5, <2>6
  <2>9. \A h \in Handle :
          Distinct(lists[h]) /\ Elements(lists[h]) = {b \in used : link[b].sf = h}
    BY <2>5, <2>6, <2>7
  <2> QED
    BY <2>4, <2>5, <2>6, <2>8, <2>9 DEF DataInv
<1>2. NbrInv
  BY DEF Init, NbrInv
<1>3. CallInv
  <2>1. todo = <<>> /\ pc = "idle"
    BY DEF Init
  <2>2. todo \in Seq(Calls)
    BY <2>1
  <2> QED
    BY <2>1, <2>2 DEF CallInv
<1>4. SlotInv
  <2>1. slot = [phase |-> "off", cur |-> NoBlock, backup |-> NoBlock, burst |-> FALSE]
        /\ asn = 0 /\ pc = "idle"
    BY DEF Init
  <2>2. slot \in Slots /\ slot.phase = "off"
    BY <2>1 DEF Slots
  <2>3. asn \in 0..Period - 1
    BY <2>1, ScheduleAssumption
  <2> QED
    BY <2>1, <2>2, <2>3 DEF SlotInv, CurrentScheduled
<1> QED
  BY <1>1, <1>2, <1>3, <1>4, InvInit DEF SInv

LEMMA SInvStep == SInv /\ [Next]_vars => SInv'
<1> SUFFICES ASSUME SInv, [Next]_vars PROVE SInv'
  OBVIOUS
<1>0. DataInv /\ CallInv /\ SlotInv /\ Inv /\ NbrInv
  BY DEF SInv
<1>1. Inv'
  BY <1>0, SlotStep, ProcessStep DEF Next
<1>2. NbrInv'
  BY <1>0, NbrStep
<1>3. SlotInv'
  BY SlotInvStep
<1>4. ASSUME UNCHANGED <<todo, pc, lists, sfs>> PROVE CallInv'
  BY <1>0, <1>4 DEF CallInv, Now, IsSlotframe
<1>5. CASE Associate \/ SlotSkip \/ SlotStart \/ SlotEnd \/ Leave
  <2>1. UNCHANGED <<link, used, sfs, lists, todo, pc>>
    BY <1>5 DEF Associate, SlotSkip, SlotStart, SlotEnd, Leave, schedvars
  <2> QED
    BY <1>0, <1>1, <1>2, <1>3, <1>4, <2>1, DataSame DEF SInv
<1>6. CASE Call \/ Begin \/ TakeLock \/ ClearCurrent \/ Release \/ CountTx
  <2>1. UNCHANGED <<link, used, sfs, lists>>
    BY <1>6 DEF Call, Begin, TakeLock, ClearCurrent, Release, CountTx
  <2>2. CallInv'
    BY <1>0, <1>6, BeginCall, ProcessCalls
  <2> QED
    BY <1>0, <1>1, <1>2, <1>3, <2>1, <2>2, DataSame DEF SInv
<1>7. CASE Commit
  <2>1. CallInv'
    BY <1>0, <1>7, ProcessCalls
  <2>2. /\ pc = "commit"
        /\ \/ CommitSf /\ UNCHANGED <<link, used, lists>>
           \/ CommitLink /\ UNCHANGED sfs
           \/ UNCHANGED <<link, used, sfs, lists>>
    BY <1>7 DEF Commit
  <2>3. DataInv'
    BY <1>0, <2>2, CommitSfData, CommitLinkData, DataSame
  <2> QED
    BY <1>1, <1>2, <1>3, <2>1, <2>3 DEF SInv
<1>8. CASE (\E a \in Addr : Meet(a) \/ Forget(a)) \/ UNCHANGED vars
  <2>1. UNCHANGED <<link, used, sfs, lists, todo, pc>>
    BY <1>8 DEF Meet, Forget, vars
  <2> QED
    BY <1>0, <1>1, <1>2, <1>3, <1>4, <2>1, DataSame DEF SInv
<1> QED
  BY <1>5, <1>6, <1>7, <1>8 DEF Next, Process

LEMMA PoolFollows == SInv => PoolConsistent
<1> SUFFICES ASSUME SInv PROVE PoolConsistent
  OBVIOUS
<1>1. \A h : Listed(h) = Elements(lists[h])
  BY DEF Listed, Elements
<1>2. \A h \in Handle : Listed(h) = {b \in used : link[b].sf = h}
  BY <1>1 DEF SInv, DataInv
<1>3. \A b \in used : link[b].sf \in Handle
  BY LinkFields DEF SInv, DataInv
<1>4. used = UNION {Listed(h) : h \in Handle}
  BY <1>2, <1>3
<1>5. ASSUME NEW h \in Handle
      PROVE  /\ Cardinality(Listed(h)) = Len(lists[h])
             /\ \A b \in Listed(h) : link[b].sf = h /\ link[b].ts < Size[h]
             /\ lists[h] # <<>> => IsSlotframe(h)
  <2>1. lists[h] \in Seq(Block) /\ Distinct(lists[h])
    BY DEF SInv, DataInv
  <2>2. Cardinality(Listed(h)) = Len(lists[h])
    BY <1>1, <2>1, DistinctCount
  <2>3. \A b \in Listed(h) : link[b].sf = h /\ link[b].ts < Size[h] /\ IsSlotframe(h)
    BY <1>2 DEF SInv, DataInv
  <2>4. lists[h] # <<>> => lists[h][1] \in Listed(h)
    BY <2>1 DEF Listed
  <2> QED
    BY <2>2, <2>3, <2>4
<1>6. TypeOK
  BY DEF TypeOK, SInv, DataInv, NbrInv, SlotInv, CallInv, Inv, Shape
<1> QED
  BY <1>4, <1>5, <1>6 DEF PoolConsistent

(* The pool of links and the lists of the slotframes agree after every     *)
(* step of every call: a block is on the list of its own slotframe, once,  *)
(* exactly while it is allocated, at a timeslot that the slotframe has.    *)
(* Rests on what the calls have found out before they wait for the lock    *)
(* (CallInv): that the slotframe is there, or that its list is empty.      *)
THEOREM PoolSound == Spec => []PoolConsistent
<1> QED
  BY SInvInit, SInvStep, PoolFollows, PTL DEF Spec

(* current_link, as long as slot operation goes by it, is a link of the    *)
(* schedule: tsch_schedule_remove_link() clears it when it removes that    *)
(* link between two slots. Nothing is said of backup_link, which the code  *)
(* does not clear, nor of the slot and the burst after a backup link has   *)
(* taken over.                                                             *)
THEOREM CurrentIsScheduled == Spec => []CurrentScheduled
<1>1. SInv => CurrentScheduled
  BY DEF SInv, SlotInv
<1> QED
  BY <1>1, SInvInit, SInvStep, PTL DEF Spec

-----------------------------------------------------------------------------
(***************************************************************************)
(* At most one link per timeslot, and the set of links.                    *)
(***************************************************************************)
LEMMA DirectIn ==
  ASSUME DoRemove \subseteq {TRUE}
  PROVE  /\ \A h \in Handle : AddSf(h) \in Direct /\ RemoveSf(h) \in Direct
         /\ \A l \in Link, rm \in DoRemove \cup {TRUE} : AddLink(l, rm) \in Direct
         /\ \A b \in Block : RemoveLink(b) \in Direct
         /\ \A l \in Link : AddNbr(l) \in Direct
<1>1. \A h \in Handle : AddSf(h) \in Direct /\ RemoveSf(h) \in Direct
  BY CallsIn DEF Direct, AddSf, RemoveSf
<1>2. ASSUME NEW l \in Link, NEW rm \in DoRemove \cup {TRUE} PROVE AddLink(l, rm) \in Direct
  <2>1. rm = TRUE
    OBVIOUS
  <2>2. AddLink(l, rm) \in Calls
    BY <2>1, CallsIn
  <2>3. AddLink(l, rm).rm
    BY <2>1 DEF AddLink
  <2> QED
    BY <2>2, <2>3 DEF Direct
<1>3. \A b \in Block : RemoveLink(b) \in Direct
  BY CallsIn DEF Direct, RemoveLink
<1>4. \A l \in Link : AddNbr(l) \in Direct
  BY DEF Direct, AddNbr, Calls
<1> QED
  BY <1>1, <1>2, <1>3, <1>4

(* What is still to do when the call in progress is not one of a pair. *)
LEMMA RestDirect ==
  ASSUME CallInv, Replacing, todo # <<>>, Now.do # "removeLink"
  PROVE  /\ Tail(todo) \in Seq(Direct)
         /\ todo \in Seq(Direct) \/ (Now.do = "addLink" /\ ~Now.rm)
         /\ Now.do # "addLink" => todo \in Seq(Direct)
<1>1. CASE todo \in Seq(Direct)
  BY <1>1
<1>2. CASE Now.do = "addLink" /\ ~Now.rm /\ Tail(todo) \in Seq(Direct)
  BY <1>2
<1> QED
  BY <1>1, <1>2 DEF Replacing

(* A link that does not go where another one is. *)
LEMMA NoneAt ==
  ASSUME DataInv, NEW l \in Link, LinkAt(l.sf, l.ts) = NoBlock
  PROVE  At(l) = {}
<1>1. l.sf \in Handle
  BY LinkFields
<1>2. lists[l.sf] \in Seq(Block)
  BY <1>1 DEF DataInv
<1>3. \A b \in Elements(lists[l.sf]) : b \in Block
  BY <1>2 DEF Elements
<1>4. NoBlock \notin Block
  BY DEF Block, NoBlock
<1>5. \A b \in Elements(lists[l.sf]) : link[b].ts # l.ts
  BY <1>1, <1>2, <1>3, <1>4, LinkAtIs
<1>6. Elements(lists[l.sf]) = {b \in used : link[b].sf = l.sf}
  BY <1>1 DEF DataInv
<1> QED
  BY <1>5, <1>6 DEF At

(* The link that is replaced is the only one at its place. *)
LEMMA OneAt ==
  ASSUME DataInv, UniqueInv, NEW l \in Link, LinkAt(l.sf, l.ts) # NoBlock
  PROVE  At(l) = {LinkAt(l.sf, l.ts)}
<1> DEFINE b == LinkAt(l.sf, l.ts)
<1>1. l.sf \in Handle
  BY LinkFields
<1>2. lists[l.sf] \in Seq(Block)
  BY <1>1 DEF DataInv
<1>3. b \in Elements(lists[l.sf]) /\ link[b].ts = l.ts
  BY <1>1, <1>2, LinkAtIs
<1>4. b \in used /\ link[b].sf = l.sf
  BY <1>1, <1>3 DEF DataInv
<1> HIDE DEF b
<1>5. At(link[b]) = {b}
  BY <1>4 DEF UniqueInv
<1>6. At(link[b]) = At(l)
  BY <1>3, <1>4 DEF At
<1> QED
  BY <1>5, <1>6 DEF b

(* A step that changes no link. *)
LEMMA UniqueKept ==
  ASSUME UniqueInv, UNCHANGED <<link, used>>,
         pc' \in {"want", "commit"} /\ Now'.do = "addLink" => At(Now'.l) = {},
         pc' = "release" /\ Now'.do = "removeLink" => Now'.b \notin used,
         Replacing'
  PROVE  UniqueInv'
<1>1. \A l : At(l)' = At(l)
  BY DEF At
<1>2. (\A b \in used : At(link[b]) = {b})'
  BY <1>1 DEF UniqueInv
<1>3. (pc \in {"want", "commit"} /\ Now.do = "addLink" => At(Now.l) = {})'
  BY <1>1
<1> QED
  BY <1>2, <1>3 DEF UniqueInv

LEMMA UniqueIdle ==
  ASSUME UniqueInv, UNCHANGED <<link, used>>, todo' \in Seq(Direct), pc' \in {"idle", "count"}
  PROVE  UniqueInv'
BY UniqueKept DEF Replacing

LEMMA BeginUnique ==
  ASSUME DoRemove \subseteq {TRUE}, DataInv, CallInv, UniqueInv, Begin
  PROVE  UniqueInv'
<1>1. pc = "idle" /\ todo # <<>> /\ UNCHANGED <<link, used, lists, sfs>>
  BY DEF Begin
<1>2. Now \in Calls /\ todo \in Seq(Calls) /\ Replacing
  BY <1>1, TodoIs DEF UniqueInv
<1>3. CASE Now.do # "removeLink" /\ Done
  <2>1. Tail(todo) \in Seq(Direct)
    BY <1>1, <1>2, <1>3, RestDirect
  <2> QED
    BY <1>1, <1>3, <2>1, UniqueIdle DEF Done
<1>4. CASE WantLock /\ (Now.do = "addLink" => At(Now.l) = {})
  <2>1. todo' = todo /\ Now' = Now /\ pc' = "want"
    BY <1>4 DEF WantLock, Now
  <2>2. \A l : At(l)' = At(l)
    BY <1>1 DEF At
  <2>3. Replacing'
    BY <1>1, <1>2, <2>1, <2>2 DEF Replacing
  <2> QED
    BY <1>1, <1>4, <2>1, <2>3, UniqueKept
<1>5. CASE Now.do = "removeSf" /\ ~WantLock
  <2> DEFINE c == RemoveLink(Head(lists[Now.sf]))
  <2>1. todo' = <<c>> \o todo /\ pc' = "idle" /\ lists[Now.sf] # <<>>
    BY <1>1, <1>5 DEF Begin
  <2>2. lists[Now.sf] \in Seq(Block)
    BY <1>2, <1>5, CallIs DEF DataInv
  <2>3. c \in Direct
    <3>1. Head(lists[Now.sf]) \in Block
      BY <2>1, <2>2
    <3> QED
      BY <3>1, DirectIn
  <2>4. todo \in Seq(Direct)
    BY <1>1, <1>2, <1>5, RestDirect
  <2> HIDE DEF c
  <2>5. todo' \in Seq(Direct)
    BY <2>1, <2>3, <2>4
  <2> QED
    BY <1>1, <2>1, <2>5, UniqueIdle
<1>6. CASE Now.do = "addLink" /\ ~Done
  <2> DEFINE l == Now.l
             b == Replaced(Now)
  <2>1. l \in Link
    BY <1>2, <1>6, CallIs
  <2>2. IF b = NoBlock THEN WantLock
        ELSE /\ todo' = <<RemoveLink(b), AddLink(l, FALSE)>> \o Tail(todo)
             /\ pc' = "idle"
    BY <1>1, <1>6 DEF Begin, NoLock
  <2>3. CASE b = NoBlock
    <3>1. CASE Now.rm
      <4>1. LinkAt(l.sf, l.ts) = NoBlock
        BY <2>3, <3>1 DEF Replaced
      <4> QED
        BY <1>4, <2>1, <2>2, <2>3, <4>1, NoneAt
    <3>2. CASE ~Now.rm
      <4>1. todo \notin Seq(Direct)
        <5>1. Now \notin Direct
          BY <1>6, <3>2 DEF Direct
        <5>2. todo[1] = Now /\ 1 \in 1..Len(todo)
          BY <1>1, <1>2 DEF Now
        <5> QED
          BY <5>1, <5>2
      <4>2. At(l) = {}
        BY <1>1, <1>2, <1>6, <4>1 DEF Replacing
      <4> QED
        BY <1>4, <2>2, <2>3, <4>2
    <3> QED
      BY <3>1, <3>2
  <2>4. CASE b # NoBlock
    <3>1. Now.rm /\ b = LinkAt(l.sf, l.ts)
      BY <2>4 DEF Replaced
    <3>2. At(l) = {b}
      BY <2>1, <2>4, <3>1, OneAt
    <3> DEFINE x == RemoveLink(b)
               y == AddLink(l, FALSE)
               r == Tail(todo)
    <3>3. r \in Seq(Direct)
      BY <1>1, <1>2, <1>6, RestDirect
    <3>4. todo' = <<x, y>> \o r /\ pc' = "idle"
      BY <2>2, <2>4
    <3>5. x.do = "removeLink" /\ x.b = b /\ y.do = "addLink" /\ y.l = l
      BY DEF RemoveLink, AddLink
    <3>6. \A k : At(k)' = At(k)
      BY <1>1 DEF At
    <3> HIDE DEF x, y, r, l, b
    <3>7. /\ todo' # <<>> /\ Len(todo') >= 2 /\ Now' = x /\ todo'[2] = y
          /\ Tail(Tail(todo')) = r
      BY <3>3, <3>4 DEF Now
    <3>8. Replacing'
      BY <3>2, <3>3, <3>5, <3>6, <3>7 DEF Replacing
    <3> QED
      BY <1>1, <3>4, <3>8, UniqueKept
  <2> QED
    BY <2>3, <2>4
<1>7. CASE Now.do = "removeLink"
  BY <1>1, <1>4, <1>7 DEF Begin
<1>8. CASE Now.do = "addNbr"
  <2>1. todo \in Seq(Direct)
    BY <1>1, <1>2, <1>8, RestDirect
  <2>2. WantLock \/ (pc' = "count" /\ todo' = todo)
    BY <1>1, <1>8 DEF Begin
  <2> QED
    BY <1>1, <1>4, <1>8, <2>1, <2>2, UniqueIdle
<1>9. CASE Now.do = "addSf"
  <2>1. Done \/ WantLock
    BY <1>1, <1>9 DEF Begin
  <2> QED
    BY <1>3, <1>4, <1>9, <2>1
<1> QED
  BY <1>2, <1>3, <1>4, <1>5, <1>6, <1>7, <1>8, <1>9, CallIs

(* The change itself. *)
LEMMA AddUnique ==
  ASSUME DataInv, CallInv, UniqueInv, pc = "commit", CommitLink,
         Now.do = "addLink", used # Block
  PROVE  /\ (\A b \in used : At(link[b]) = {b})'
         /\ Links!Insert(Now.l)
<1> DEFINE f == FirstFree
           l == Now.l
<1>1. f \in Block \ used
  BY FirstFreeIs DEF DataInv
<1>2. l \in Link
  BY TodoIs, CallIs DEF CallInv
<1>3. link' = [link EXCEPT ![f] = l] /\ used' = used \cup {f}
  BY DEF CommitLink
<1>4. At(l) = {}
  BY DEF UniqueInv
<1>5. used \subseteq Block /\ link \in [Block -> Link]
  BY DEF DataInv
<1> HIDE DEF f, l
<1>6. link'[f] = l /\ \A b \in used : link'[b] = link[b]
  BY <1>1, <1>3, <1>5
<1>7. \A b \in used : <<link[b].sf, link[b].ts>> # <<l.sf, l.ts>>
  BY <1>4 DEF At
<1>8. ASSUME NEW b \in used'
      PROVE  {c \in used' : link'[c].sf = link'[b].sf /\ link'[c].ts = link'[b].ts} = {b}
  <2>1. CASE b = f
    BY <1>3, <1>6, <1>7, <2>1
  <2>2. CASE b \in used
    <3>1. At(link[b]) = {b}
      BY <2>2 DEF UniqueInv
    <3> QED
      BY <1>3, <1>6, <1>7, <2>2, <3>1 DEF At
  <2> QED
    BY <1>3, <2>1, <2>2
<1>9. (\A b \in used : At(link[b]) = {b})'
  BY <1>8 DEF At
<1>10. Contents' = Contents \cup {l}
  BY <1>3, <1>6 DEF Contents
<1>11. \A k \in Contents : <<k.sf, k.ts>> # <<l.sf, l.ts>>
  BY <1>7 DEF Contents
<1> QED
  BY <1>9, <1>10, <1>11 DEF Links!Insert, l

LEMMA RemoveUnique ==
  ASSUME DataInv, CallInv, UniqueInv, pc = "commit", CommitLink, Now.do = "removeLink"
  PROVE  /\ (\A b \in used : At(link[b]) = {b})'
         /\ Contents' = Contents \/ Links!Remove(link[Now.b])
<1> DEFINE b == Now.b
<1>1. link' = link /\ used' = used \ {b}
  BY DEF CommitLink
<1> HIDE DEF b
<1>2. \A c \in used : At(link[c]) = {c}
  BY DEF UniqueInv
<1>3. (\A c \in used : At(link[c]) = {c})'
  BY <1>1, <1>2 DEF At
<1>4. ASSUME b \notin used PROVE Contents' = Contents
  <2>1. used' = used
    BY <1>1, <1>4
  <2> QED
    BY <1>1, <2>1 DEF Contents
<1>5. ASSUME b \in used PROVE Links!Remove(link[b])
  <2>1. \A c \in used : c # b => link[c] # link[b]
    BY <1>2, <1>5 DEF At
  <2>2. Contents' = Contents \ {link[b]} /\ link[b] \in Contents
    BY <1>1, <1>5, <2>1 DEF Contents
  <2> QED
    BY <2>2 DEF Links!Remove
<1>6. Contents' = Contents \/ Links!Remove(link[b])
  BY <1>4, <1>5
<1> QED
  BY <1>3, <1>6 DEF b

LEMMA CommitUnique ==
  ASSUME DataInv, CallInv, UniqueInv, Commit
  PROVE  UniqueInv' /\ [Links!Next]_Contents
<1>1. pc = "commit" /\ todo' = todo /\ Now' = Now /\ todo # <<>>
  BY DEF Commit, Now, CallInv
<1>2. pc' = (IF Now.do = "addLink" /\ used = Block THEN "failed" ELSE "release")
  BY DEF Commit
<1>3. Replacing
  BY DEF UniqueInv
<1>4. CASE UNCHANGED <<link, used>> /\ Now.do # "removeLink"
  <2>1. \A l : At(l)' = At(l)
    BY <1>4 DEF At
  <2>2. Replacing'
    BY <1>1, <1>2, <1>3, <2>1 DEF Replacing
  <2>3. UniqueInv'
    BY <1>1, <1>2, <1>4, <2>2, UniqueKept
  <2>4. Contents' = Contents
    BY <1>4 DEF Contents
  <2> QED
    BY <2>3, <2>4
<1>5. CASE CommitLink /\ Now.do = "addLink" /\ used # Block
  <2>1. (\A b \in used : At(link[b]) = {b})' /\ Links!Insert(Now.l)
    BY <1>1, <1>5, AddUnique
  <2>2. Now.l \in Link
    BY <1>1, <1>5, TodoIs, CallIs
  <2>3. todo \in Seq(Direct) \/ (~Now.rm /\ Tail(todo) \in Seq(Direct))
    BY <1>1, <1>5, <1>3, RestDirect
  <2>4. Replacing'
    BY <1>1, <1>2, <1>5, <2>3 DEF Replacing
  <2>5. UniqueInv'
    BY <1>1, <1>2, <1>5, <2>1, <2>4 DEF UniqueInv
  <2> QED
    BY <2>1, <2>2, <2>5 DEF Links!Next
<1>6. CASE CommitLink /\ Now.do = "removeLink"
  <2>1. /\ (\A b \in used : At(link[b]) = {b})'
        /\ Contents' = Contents \/ Links!Remove(link[Now.b])
    BY <1>1, <1>6, RemoveUnique
  <2>2. link[Now.b] \in Link
    <3>1. Now.b \in Block
      BY <1>1, <1>6, TodoIs, CallIs
    <3> QED
      BY <3>1 DEF DataInv
  <2>3. link' = link /\ used' = used \ {Now.b}
    BY <1>6 DEF CommitLink
  <2>4. \A l : At(l)' \subseteq At(l)
    BY <2>3 DEF At
  <2>5. Replacing'
    BY <1>1, <1>2, <1>3, <1>6, <2>4 DEF Replacing
  <2>6. (pc = "release" /\ Now.do = "removeLink" => Now.b \notin used)'
    BY <1>1, <2>3
  <2>7. UniqueInv'
    BY <1>1, <1>2, <1>6, <2>1, <2>5, <2>6 DEF UniqueInv
  <2> QED
    BY <2>1, <2>2, <2>7 DEF Links!Next
<1>7. CASE CommitSf \/ CommitNbr
  <2>1. Now.do # "removeLink" /\ UNCHANGED <<link, used>>
    BY <1>7 DEF CommitSf, CommitNbr, CommitLink, Commit
  <2> QED
    BY <1>4, <2>1
<1>8. CASE CommitLink /\ Now.do = "addLink" /\ used = Block
  BY <1>4, <1>8 DEF CommitLink
<1> QED
  BY <1>5, <1>6, <1>7, <1>8 DEF Commit, CommitLink

(* The steps after the change, and the next call. *)
LEMMA OtherUnique ==
  ASSUME DoRemove \subseteq {TRUE}, DataInv, CallInv, UniqueInv,
         TakeLock \/ ClearCurrent \/ Release \/ CountTx \/ Call
  PROVE  UniqueInv'
<1>1. UNCHANGED <<link, used>> /\ \A l : At(l)' = At(l)
  BY DEF TakeLock, ClearCurrent, Release, CountTx, Call, At
<1>2. Replacing
  BY DEF UniqueInv
<1>3. CASE TakeLock \/ ClearCurrent
  <2>1. /\ todo' = todo /\ Now' = Now /\ pc' \in {"clear", "commit"}
        /\ pc' = "commit" => pc \in {"want", "clear"}
        /\ pc \in {"want", "clear"} /\ (pc = "clear" => Now.do = "removeLink")
    BY <1>3 DEF TakeLock, ClearCurrent, Now, CallInv
  <2>2. Replacing'
    BY <1>1, <1>2, <2>1 DEF Replacing
  <2> QED
    BY <1>1, <2>1, <2>2, UniqueKept DEF UniqueInv
<1>4. CASE Release
  <2>1. todo # <<>> /\ pc \in {"release", "failed"}
    BY <1>4 DEF Release, CallInv
  <2>2. Now \in Calls /\ todo \in Seq(Calls)
    BY <2>1, TodoIs
  <2>3. CASE Now.do # "removeLink" /\ Done
    <3>1. Tail(todo) \in Seq(Direct)
      BY <1>2, <2>1, <2>3, RestDirect
    <3> QED
      BY <1>1, <2>3, <3>1, UniqueIdle DEF Done
  <2>4. CASE Now.do = "addLink" /\ ~Done
    <3> DEFINE c == AddNbr(Now.l)
               r == Tail(todo)
    <3>1. todo' = <<c>> \o r /\ pc' = "idle"
      BY <1>4, <2>4 DEF Release
    <3>2. r \in Seq(Direct)
      BY <1>2, <2>1, <2>4, RestDirect
    <3>3. c \in Direct
      <4>1. Now.l \in Link
        BY <2>2, <2>4, CallIs
      <4> QED
        BY <4>1, DirectIn
    <3> HIDE DEF c, r
    <3>4. todo' \in Seq(Direct)
      BY <3>1, <3>2, <3>3
    <3> QED
      BY <1>1, <3>1, <3>4, UniqueIdle
  <2>5. CASE Now.do = "addNbr" /\ ~Done
    <3>1. todo' = todo /\ pc' = "count"
      BY <1>4, <2>5 DEF Release
    <3>2. todo \in Seq(Direct)
      BY <1>2, <2>1, <2>5, RestDirect
    <3> QED
      BY <1>1, <3>1, <3>2, UniqueIdle
  <2>6. CASE Now.do = "removeLink"
    <3>1. todo' = Tail(todo) /\ pc' = "idle"
      BY <1>4, <2>6 DEF Release, Done
    <3>2. CASE todo \in Seq(Direct)
      <4>1. todo' \in Seq(Direct)
        BY <2>1, <3>1, <3>2
      <4> QED
        BY <1>1, <3>1, <4>1, UniqueIdle
    <3>3. CASE todo \notin Seq(Direct)
      <4> DEFINE l == todo[2].l
      <4>1. /\ Len(todo) >= 2 /\ todo[2].do = "addLink"
            /\ Tail(Tail(todo)) \in Seq(Direct)
            /\ At(l) \subseteq {Now.b}
        BY <1>2, <2>6, <3>3 DEF Replacing
      <4>2. Now.b \notin used
        <5>1. pc = "release"
          BY <2>1, <2>6 DEF CallInv
        <5> QED
          BY <2>6, <5>1 DEF UniqueInv
      <4>3. At(l) = {}
        BY <4>1, <4>2 DEF At
      <4>4. Now' = todo[2] /\ todo' # <<>> /\ Tail(todo') = Tail(Tail(todo))
        BY <2>2, <3>1, <4>1 DEF Now
      <4>5. Replacing'
        <5>1. CASE ~todo[2].rm
          BY <1>1, <4>1, <4>3, <4>4, <5>1 DEF Replacing
        <5>2. CASE todo[2].rm
          <6> DEFINE r == Tail(Tail(todo))
                     c == todo[2]
          <6>1. c \in Direct
            BY <2>2, <4>1, <5>2 DEF Direct
          <6>2. todo' = <<c>> \o r
            BY <2>2, <3>1, <4>1
          <6>3. r \in Seq(Direct)
            BY <4>1
          <6> HIDE DEF c, r
          <6>4. todo' \in Seq(Direct)
            BY <6>1, <6>2, <6>3
          <6> QED
            BY <6>4 DEF Replacing
        <5> QED
          BY <5>1, <5>2
      <4> QED
        BY <1>1, <3>1, <4>5, UniqueKept
    <3> QED
      BY <3>2, <3>3
  <2>7. Now.do \in {"addSf", "removeSf"} => Done
    BY <1>4 DEF Release
  <2> QED
    BY <2>2, <2>3, <2>4, <2>5, <2>6, <2>7, CallIs
<1>5. CASE CountTx
  <2>1. todo # <<>> /\ Done /\ Now.do = "addNbr"
    BY <1>5 DEF CountTx, CallInv
  <2>2. Tail(todo) \in Seq(Direct)
    BY <1>2, <2>1, RestDirect
  <2> QED
    BY <1>1, <2>1, <2>2, UniqueIdle DEF Done
<1>6. CASE Call
  <2>1. todo' \in Interface /\ pc' = "idle"
    BY <1>6 DEF Call
  <2>2. todo' \in Seq(Direct)
    BY <2>1, DirectIn, InterfaceIs
  <2> QED
    BY <1>1, <2>1, <2>2, UniqueIdle
<1> QED
  BY <1>3, <1>4, <1>5, <1>6

LEMMA UniqueInit == Init => UniqueInv
<1> SUFFICES ASSUME Init PROVE UniqueInv
  OBVIOUS
<1>1. used = {} /\ todo = <<>> /\ pc = "idle"
  BY DEF Init
<1>2. todo \in Seq(Direct)
  BY <1>1
<1> QED
  BY <1>1, <1>2 DEF UniqueInv, Replacing

LEMMA UniqueStep ==
  ASSUME DoRemove \subseteq {TRUE}, SInv, UniqueInv, [Next]_vars
  PROVE  UniqueInv' /\ [Links!Next]_Contents
<1>1. DataInv /\ CallInv
  BY DEF SInv
<1>2. CASE Commit
  BY <1>1, <1>2, CommitUnique
<1>3. UNCHANGED <<link, used>> => Contents' = Contents
  BY DEF Contents
<1>4. CASE Begin \/ TakeLock \/ ClearCurrent \/ Release \/ CountTx \/ Call
  <2>1. UNCHANGED <<link, used>>
    BY <1>4 DEF Begin, TakeLock, ClearCurrent, Release, CountTx, Call
  <2> QED
    BY <1>1, <1>3, <1>4, <2>1, BeginUnique, OtherUnique
<1>5. CASE UNCHANGED <<link, used, todo, pc>>
  <2>1. UniqueInv'
    BY <1>5 DEF UniqueInv, Replacing, At, Now
  <2> QED
    BY <1>3, <1>5, <2>1
<1>6. Associate \/ SlotSkip \/ SlotStart \/ SlotEnd \/ Leave \/ UNCHANGED vars
        \/ (\E a \in Addr : Meet(a) \/ Forget(a)) => UNCHANGED <<link, used, todo, pc>>
  BY DEF Associate, SlotSkip, SlotStart, SlotEnd, Leave, vars, Meet, Forget, schedvars
<1> QED
  BY <1>2, <1>4, <1>5, <1>6 DEF Next, Process

(* The schedule implements a set of links that changes one link at a time  *)
(* and never has two links of a slotframe at the same timeslot, as long as *)
(* links are added with do_remove, which all callers do: a process that    *)
(* has removed the link in its way comes back from the lock before any     *)
(* other can take the place.                                               *)
THEOREM LinkSetImplemented ==
  ASSUME DoRemove \subseteq {TRUE}
  PROVE  Spec => ImplementsLinkSet
<1>1. Init => Links!Init
  BY DEF Init, Links!Init, Contents
<1>2. SInv /\ UniqueInv /\ [Next]_vars => UniqueInv' /\ [Links!Next]_Contents
  BY UniqueStep
<1>3. Spec => Links!Spec
  BY <1>1, <1>2, SInvInit, SInvStep, UniqueInit, PTL DEF Spec, Links!Spec
<1> QED
  BY <1>3 DEF ImplementsLinkSet

-----------------------------------------------------------------------------
(***************************************************************************)
(* What the search for the next link finds.                                *)
(***************************************************************************)
(* The earliest of the links visited so far, and a result for them: as in  *)
(* NextActiveIs, and the backup is one of the lowest handle even when the  *)
(* best link can receive itself.                                           *)
Earliest(lk, U, now) ==
  {b \in U : \A c \in U : TimeTo(lk[b], now) <= TimeTo(lk[c], now)}

IsBest(lk, E, r) ==
  /\ r.best \in E
  /\ (\E b \in E : Has(lk[b], "TX")) => Has(lk[r.best], "TX")
  /\ \A b \in E : Has(lk[b], "TX") = Has(lk[r.best], "TX") => lk[r.best].sf <= lk[b].sf

IsBackup(lk, E, r) ==
  /\ r.backup # NoBlock => r.backup \in E /\ Has(lk[r.backup], "RX")
  /\ \A b \in E \ {r.best} :
       Has(lk[b], "RX") => r.backup # NoBlock /\ lk[r.backup].sf <= lk[b].sf

Chosen(lk, U, r, now) ==
  /\ IsBest(lk, Earliest(lk, U, now), r) /\ IsBackup(lk, Earliest(lk, U, now), r)
  /\ r.time = TimeTo(lk[r.best], now)

LEMMA ChosenFirst ==
  ASSUME NEW lk, NEW b, b # NoBlock, lk[b] \in Link, NEW now \in Nat,
         NEW r, r.best = b, r.backup = NoBlock, r.time = TimeTo(lk[b], now)
  PROVE  IsBest(lk, {b}, r) /\ IsBackup(lk, {b}, r)
<1>1. lk[b].sf \in Nat
  BY LinkFields, ScheduleAssumption
<1> QED
  BY <1>1 DEF IsBest, IsBackup, NoBlock

(* A further link at the same time. *)
LEMMA ChosenTie ==
  ASSUME NEW lk, NEW E, NEW b, NEW r, NEW q,
         NoBlock \notin E \cup {b}, \A c \in E \cup {b} : lk[c].sf \in Nat,
         IsBest(lk, E, r), IsBackup(lk, E, r)
  PROVE  LET new == NewBest(lk, r.best, b, q)
             backup1 == IF new # b THEN AsBackup(lk, r.backup, b) ELSE r.backup
             backup2 == IF new # r.best THEN AsBackup(lk, backup1, r.best) ELSE backup1
             best == IF new # NoBlock THEN new ELSE r.best
         IN  \A s : s.best = best /\ s.backup = backup2 =>
               IsBest(lk, E \cup {b}, s) /\ IsBackup(lk, E \cup {b}, s)
<1> DEFINE new == NewBest(lk, r.best, b, q)
           backup1 == IF new # b THEN AsBackup(lk, r.backup, b) ELSE r.backup
           backup2 == IF new # r.best THEN AsBackup(lk, backup1, r.best) ELSE backup1
           best == IF new # NoBlock THEN new ELSE r.best
           Offered(O, x) ==
             /\ x # NoBlock => x \in E \cup {b} /\ Has(lk[x], "RX")
             /\ \A c \in O : Has(lk[c], "RX") => x # NoBlock /\ lk[x].sf <= lk[c].sf
<1> SUFFICES ASSUME NEW s, s.best = best, s.backup = backup2
             PROVE  IsBest(lk, E \cup {b}, s) /\ IsBackup(lk, E \cup {b}, s)
  OBVIOUS
<1>1. /\ r.best \in E /\ r.best # NoBlock /\ b # NoBlock
      /\ (\E c \in E : Has(lk[c], "TX")) => Has(lk[r.best], "TX")
      /\ \A c \in E : Has(lk[c], "TX") = Has(lk[r.best], "TX") => lk[r.best].sf <= lk[c].sf
  BY DEF IsBest
<1>2. IsBest(lk, E \cup {b}, s)
  <2>1. CASE Has(lk[r.best], "TX") /\ ~Has(lk[b], "TX")
    <3>1. new = NoBlock /\ best = r.best
      BY <2>1 DEF NewBest
    <3> QED
      BY <1>1, <2>1, <3>1 DEF IsBest
  <2>2. CASE ~Has(lk[r.best], "TX") /\ Has(lk[b], "TX")
    <3>1. new = b /\ best = b
      BY <1>1, <2>2 DEF NewBest
    <3> QED
      BY <1>1, <2>2, <3>1 DEF IsBest
  <2>3. CASE Has(lk[r.best], "TX") <=> Has(lk[b], "TX")
    <3>1. \/ lk[b].sf = lk[r.best].sf /\ best \in {r.best, b}
          \/ lk[b].sf < lk[r.best].sf /\ best = b
          \/ ~(lk[b].sf <= lk[r.best].sf) /\ best = r.best
      <4>1. new = IF lk[b].sf = lk[r.best].sf THEN Comparator(lk, r.best, b, q)
                  ELSE IF lk[b].sf < lk[r.best].sf THEN b ELSE NoBlock
        BY <2>3 DEF NewBest
      <4>2. Comparator(lk, r.best, b, q) \in {r.best, b}
        BY DEF Comparator
      <4>3. lk[b].sf \in Nat /\ lk[r.best].sf \in Nat
        BY <1>1
      <4> HIDE DEF new
      <4> QED
        BY <1>1, <4>1, <4>2, <4>3
    <3> HIDE DEF best
    <3>2. best \in E \cup {b} /\ Has(lk[best], "TX") = Has(lk[b], "TX")
      BY <1>1, <2>3, <3>1 DEF Has
    <3>3. lk[best].sf <= lk[b].sf /\ lk[best].sf <= lk[r.best].sf
      BY <1>1, <3>1
    <3>4. \A c \in E \cup {b} : Has(lk[c], "TX") = Has(lk[best], "TX") => lk[best].sf <= lk[c].sf
      <4> SUFFICES ASSUME NEW c \in E, Has(lk[c], "TX") = Has(lk[best], "TX")
                   PROVE  lk[best].sf <= lk[c].sf
        BY <3>3
      <4>1. lk[r.best].sf <= lk[c].sf
        BY <1>1, <2>3, <3>2 DEF Has
      <4> QED
        BY <1>1, <3>2, <3>3, <4>1
    <3>5. (\E c \in E \cup {b} : Has(lk[c], "TX")) => Has(lk[best], "TX")
      BY <1>1, <2>3, <3>2
    <3> QED
      BY <3>2, <3>4, <3>5 DEF IsBest
  <2> QED
    BY <2>1, <2>2, <2>3
<1>3. r.backup # NoBlock => r.backup \in E /\ Has(lk[r.backup], "RX")
  BY DEF IsBackup
<1>4. Offered(E \ {r.best}, r.backup)
  BY DEF IsBackup
<1>5. ASSUME NEW O, NEW x, NEW c \in E \cup {b}, O \subseteq E \cup {b}, Offered(O, x)
      PROVE  Offered(O \cup {c}, AsBackup(lk, x, c))
  <2>1. CASE Has(lk[c], "RX") /\ (x = NoBlock \/ lk[c].sf < lk[x].sf)
    <3>1. AsBackup(lk, x, c) = c
      BY <2>1 DEF AsBackup
    <3>2. ASSUME NEW d \in O, Has(lk[d], "RX") PROVE lk[c].sf <= lk[d].sf
      BY <1>5, <2>1, <3>2
    <3> QED
      BY <1>5, <2>1, <3>1, <3>2
  <2>2. CASE ~(Has(lk[c], "RX") /\ (x = NoBlock \/ lk[c].sf < lk[x].sf))
    <3>1. AsBackup(lk, x, c) = x
      BY <2>2 DEF AsBackup
    <3>2. Has(lk[c], "RX") => x # NoBlock /\ lk[x].sf <= lk[c].sf
      BY <1>5, <2>2
    <3> QED
      BY <1>5, <3>1, <3>2
  <2> QED
    BY <2>1, <2>2
<1>6. Offered((E \ {r.best}) \cup (IF new # b THEN {b} ELSE {}), backup1)
  <2> DEFINE O == E \ {r.best}
  <2>1. Offered(O \cup {b}, AsBackup(lk, r.backup, b))
    <3>1. O \subseteq E \cup {b} /\ b \in E \cup {b} /\ Offered(O, r.backup)
      BY <1>4
    <3> HIDE DEF O, Offered
    <3> QED
      BY <1>5, <3>1
  <2>2. O \cup {} = O
    OBVIOUS
  <2> HIDE DEF new, Offered, O
  <2> QED
    BY <1>4, <2>1, <2>2 DEF O
<1>7. Offered((E \ {r.best}) \cup (IF new # b THEN {b} ELSE {})
                \cup (IF new # r.best THEN {r.best} ELSE {}), backup2)
  <2> HIDE DEF backup1, Offered
  <2> QED
    BY <1>1, <1>5, <1>6
<1>8. (E \cup {b}) \ {best} \subseteq
        (E \ {r.best}) \cup (IF new # b THEN {b} ELSE {})
                \cup (IF new # r.best THEN {r.best} ELSE {})
  <2>1. new \in {NoBlock, r.best, b}
    BY NewBestIs
  <2> HIDE DEF new
  <2> QED
    BY <1>1, <2>1
<1>9. IsBackup(lk, E \cup {b}, s)
  <2> HIDE DEF new, backup2, best
  <2> QED
    BY <1>7, <1>8 DEF IsBackup
<1> QED
  BY <1>2, <1>9

(* The earliest links when one more is visited. *)
LEMMA EarliestIs ==
  ASSUME NEW lk, NEW U, NEW b, \A c \in U \cup {b} : lk[c] \in Link, NEW now \in Nat,
         NEW a \in Earliest(lk, U, now)
  PROVE  LET t == TimeTo(lk[b], now)
             s == TimeTo(lk[a], now)
         IN  /\ t \in Int /\ s \in Int
             /\ t < s => Earliest(lk, U \cup {b}, now) = {b}
             /\ t = s => Earliest(lk, U \cup {b}, now) = Earliest(lk, U, now) \cup {b}
             /\ t > s => Earliest(lk, U \cup {b}, now) = Earliest(lk, U, now)
<1> DEFINE f(c) == TimeTo(lk[c], now)
<1>1. \A c \in U \cup {b} : f(c) \in Int
  BY TimeToIs
<1>2. a \in U /\ \A c \in U : f(a) <= f(c)
  BY DEF Earliest
<1>3. Earliest(lk, U, now) = {c \in U : \A d \in U : f(c) <= f(d)}
  BY DEF Earliest
<1>4. Earliest(lk, U \cup {b}, now) = {c \in U \cup {b} : \A d \in U \cup {b} : f(c) <= f(d)}
  BY DEF Earliest
<1> SUFFICES /\ f(b) \in Int /\ f(a) \in Int
             /\ f(b) < f(a) => Earliest(lk, U \cup {b}, now) = {b}
             /\ f(b) = f(a) => Earliest(lk, U \cup {b}, now) = Earliest(lk, U, now) \cup {b}
             /\ f(b) > f(a) => Earliest(lk, U \cup {b}, now) = Earliest(lk, U, now)
  OBVIOUS
<1> HIDE DEF f
<1>5. f(b) < f(a) => Earliest(lk, U \cup {b}, now) = {b}
  BY <1>1, <1>2, <1>4
<1>6. f(b) = f(a) => Earliest(lk, U \cup {b}, now) = Earliest(lk, U, now) \cup {b}
  BY <1>1, <1>2, <1>3, <1>4
<1>7. f(b) > f(a) => Earliest(lk, U \cup {b}, now) = Earliest(lk, U, now)
  BY <1>1, <1>2, <1>3, <1>4
<1> QED
  BY <1>1, <1>2, <1>5, <1>6, <1>7

LEMMA ChosenStep ==
  ASSUME NEW lk, NEW U, NEW b, NoBlock \notin U \cup {b},
         \A c \in U \cup {b} : lk[c] \in Link, NEW now \in Nat, NEW q, NEW r,
         U = {} => r = NoLink,
         U # {} => Chosen(lk, U, r, now)
  PROVE  Chosen(lk, U \cup {b}, Visit(lk, r, b, now, q), now)
<1> DEFINE t == TimeTo(lk[b], now)
           new == NewBest(lk, r.best, b, q)
           backup1 == IF new # b THEN AsBackup(lk, r.backup, b) ELSE r.backup
           backup2 == IF new # r.best THEN AsBackup(lk, backup1, r.best) ELSE backup1
           best == IF new # NoBlock THEN new ELSE r.best
           v == Visit(lk, r, b, now, q)
           first == [best |-> b, backup |-> NoBlock, time |-> t]
           tie == [best |-> best, backup |-> backup2, time |-> t]
<1>1. v = IF r.best = NoBlock \/ t < r.time THEN first ELSE IF t = r.time THEN tie ELSE r
  BY DEF Visit
<1>2. first.best = b /\ first.backup = NoBlock /\ first.time = t
  OBVIOUS
<1>3. tie.best = best /\ tie.backup = backup2 /\ tie.time = t
  OBVIOUS
<1> DEFINE E == Earliest(lk, U, now)
           E2 == Earliest(lk, U \cup {b}, now)
<1>4. IsBest(lk, {b}, first) /\ IsBackup(lk, {b}, first)
  <2> HIDE DEF first
  <2> QED
    BY <1>2, ChosenFirst
<1>5. CASE U = {}
  <2>1. v = first
    BY <1>1, <1>5 DEF NoLink
  <2>2. E2 = {b}
    <3>1. t <= t
      BY TimeToIs
    <3> QED
      BY <1>5, <3>1 DEF Earliest
  <2> HIDE DEF v, first, E2
  <2> QED
    BY <1>2, <1>4, <2>1, <2>2 DEF Chosen, v, E2
<1>6. CASE U # {}
  <2>1. IsBest(lk, E, r) /\ IsBackup(lk, E, r) /\ r.time = TimeTo(lk[r.best], now)
    BY <1>6 DEF Chosen
  <2>2. r.best \in E /\ r.best # NoBlock
    BY <2>1 DEF IsBest, Earliest
  <2>3. /\ t \in Int /\ r.time \in Int
        /\ t < r.time => E2 = {b}
        /\ t = r.time => E2 = E \cup {b}
        /\ t > r.time => E2 = E
    BY <2>1, <2>2, EarliestIs
  <2>4. CASE t < r.time
    <3>1. v = first
      BY <1>1, <2>4
    <3> HIDE DEF v, first, E2
    <3> QED
      BY <1>2, <1>4, <2>3, <2>4, <3>1 DEF Chosen, v, E2
  <2>5. CASE t = r.time
    <3>1. v = tie
      BY <1>1, <2>2, <2>3, <2>5
    <3>2. NoBlock \notin E \cup {b} /\ \A c \in E \cup {b} : lk[c].sf \in Nat
      BY LinkFields, ScheduleAssumption DEF Earliest
    <3>3. IsBest(lk, E \cup {b}, tie) /\ IsBackup(lk, E \cup {b}, tie)
      <4> HIDE DEF E, tie
      <4> QED
        BY <1>3, <2>1, <3>2, ChosenTie
    <3>4. tie.time = TimeTo(lk[tie.best], now)
      <4>1. best \in {r.best, b}
        BY NewBestIs
      <4> HIDE DEF best, tie
      <4> QED
        BY <1>3, <2>1, <2>5, <4>1
    <3> HIDE DEF v, tie, E2, E
    <3> QED
      BY <2>3, <2>5, <3>1, <3>3, <3>4 DEF Chosen, v, E2
  <2>6. CASE t > r.time
    <3>1. v = r
      BY <1>1, <2>2, <2>3, <2>6
    <3> HIDE DEF v, E2, E
    <3> QED
      BY <2>1, <2>3, <2>6, <3>1 DEF Chosen, v, E2
  <2> QED
    BY <2>3, <2>4, <2>5, <2>6
<1> QED
  BY <1>5, <1>6

(* The search over a list that is not empty. *)
LEMMA NextActiveChosen ==
  ASSUME NEW lk, NEW B, NoBlock \notin B, NEW order \in Seq(B), order # <<>>,
         \A b \in B : lk[b] \in Link, NEW now \in Nat, NEW q
  PROVE  Chosen(lk, Elements(order), NextActive(lk, order, now, q), now)
<1> DEFINE n == Len(order)
           U(i) == {order[j] : j \in 1..i}
           after[i \in 0..n] ==
             IF i = 0 THEN NoLink ELSE Visit(lk, after[i - 1], order[i], now, q)
           Good(i) == /\ i = 0 => after[i] = NoLink
                      /\ i # 0 => Chosen(lk, U(i), after[i], now)
           T == {i \in 0..n : Good(i)}
<1>1. after = [i \in 0..n |-> IF i = 0 THEN NoLink
                              ELSE Visit(lk, after[i - 1], order[i], now, q)]
  BY AfterEach
<1>2. NextActive(lk, order, now, q) = after[n]
  BY DEF NextActive
<1> HIDE DEF after
<1>3. 0 \in T
  BY <1>1
<1>4. ASSUME NEW i \in 0..n - 1, i \in T PROVE i + 1 \in T
  <2>1. after[i + 1] = Visit(lk, after[i], order[i + 1], now, q)
    BY <1>1
  <2>2. order[i + 1] \in B /\ U(i) \subseteq B
    BY <1>4
  <2>3. U(i + 1) = U(i) \cup {order[i + 1]}
    OBVIOUS
  <2>4. Good(i)
    BY <1>4
  <2>5. (i = 0 => U(i) = {}) /\ (i # 0 => U(i) # {})
    OBVIOUS
  <2> HIDE DEF U
  <2>6. U(i) = {} => after[i] = NoLink
    BY <2>4, <2>5
  <2>7. U(i) # {} => Chosen(lk, U(i), after[i], now)
    BY <2>4, <2>5
  <2>8. Chosen(lk, U(i + 1), after[i + 1], now)
    <3> DEFINE V == U(i)
               b == order[i + 1]
               r == after[i]
    <3>1. NoBlock \notin V \cup {b} /\ \A c \in V \cup {b} : lk[c] \in Link
      BY <2>2
    <3>2. (V = {} => r = NoLink) /\ (V # {} => Chosen(lk, V, r, now))
      BY <2>6, <2>7
    <3>3. U(i + 1) = V \cup {b} /\ after[i + 1] = Visit(lk, r, b, now, q)
      BY <2>1, <2>3
    <3> HIDE DEF V, b, r
    <3>4. Chosen(lk, V \cup {b}, Visit(lk, r, b, now, q), now)
      BY <3>1, <3>2, ChosenStep
    <3> QED
      BY <3>3, <3>4
  <2>9. i + 1 \in 0..n /\ i + 1 # 0
    OBVIOUS
  <2> QED
    BY <2>8, <2>9
<1>5. n \in Nat \ {0}
  OBVIOUS
<1>6. n \in T
  <2> HIDE DEF T, n
  <2>1. \A i \in 0..n - 1 : i \in T => i + 1 \in T
    BY <1>4
  <2>2. 0..n \subseteq T
    BY <1>3, <1>5, <2>1, Induction
  <2> QED
    BY <1>5, <2>2
<1>7. U(n) = Elements(order)
  BY DEF Elements
<1> HIDE DEF U
<1> QED
  BY <1>2, <1>5, <1>6, <1>7

(* The result of the search is what the property asks for. *)
LEMMA ChosenIs ==
  ASSUME NEW lk, NEW r, NEW now, NoBlock \notin DOMAIN lk,
         \A b \in DOMAIN lk : lk[b].sf \in Nat,
         Chosen(lk, DOMAIN lk, r, now)
  PROVE  NextActiveIs(lk, r, now)
<1> DEFINE E == {b \in DOMAIN lk :
                   \A c \in DOMAIN lk : TimeTo(lk[b], now) <= TimeTo(lk[c], now)}
           receivers == {b \in E \ {r.best} : Has(lk[b], "RX")}
<1>1. E = Earliest(lk, DOMAIN lk, now)
  BY DEF Earliest
<1>2. IsBest(lk, E, r) /\ IsBackup(lk, E, r) /\ r.time = TimeTo(lk[r.best], now)
  BY <1>1 DEF Chosen
<1> HIDE DEF E
<1>3. /\ r.best \in E
      /\ (\E b \in E : Has(lk[b], "TX")) => Has(lk[r.best], "TX")
      /\ \A b \in E : Has(lk[b], "TX") = Has(lk[r.best], "TX") => lk[r.best].sf <= lk[b].sf
  BY <1>2 DEF IsBest
<1>4. r.backup # NoBlock => r.backup \in E /\ Has(lk[r.backup], "RX")
  BY <1>2 DEF IsBackup
<1>5. ~Has(lk[r.best], "RX") /\ receivers # {} =>
        r.backup \in receivers /\ \A b \in receivers : lk[r.backup].sf <= lk[b].sf
  BY <1>2 DEF IsBackup
<1> HIDE DEF receivers
<1> QED
  BY <1>2, <1>3, <1>4, <1>5 DEF NextActiveIs, E, receivers

(* The search finds what its definition asks for, in every list of links   *)
(* of whatever length, at every time and with whatever queues: the loops   *)
(* keep it true of the links visited so far.                               *)
THEOREM NextActiveRight == Spec => []NextActiveCorrect
<1>1. NextActiveCorrect
  <2> SUFFICES ASSUME NEW m \in 1..MaxLinks + 1, NEW lk \in [1..m -> InSlotframe],
                      NEW now \in 0..Period - 1, NEW q
               PROVE  NextActiveIs(lk, NextActive(lk, [i \in 1..m |-> i], now, q), now)
    BY DEF NextActiveCorrect
  <2> DEFINE order == [i \in 1..m |-> i]
  <2>1. m \in Nat /\ m >= 1 /\ now \in Nat
    BY ScheduleAssumption
  <2>2. order \in Seq(1..m) /\ Len(order) = m /\ Elements(order) = 1..m
    BY <2>1 DEF Elements
  <2>3. order # <<>>
    BY <2>1, <2>2
  <2>4. DOMAIN lk = 1..m /\ \A b \in 1..m : lk[b] \in Link
    BY DEF InSlotframe
  <2>5. NoBlock \notin 1..m /\ \A b \in 1..m : lk[b].sf \in Nat
    <3>1. ASSUME NEW b \in 1..m PROVE lk[b].sf \in Nat
      <4>1. lk[b] \in Link
        BY <2>4
      <4>2. lk[b].sf \in Handle
        BY <4>1, LinkFields
      <4> QED
        BY <4>2, ScheduleAssumption
    <3> QED
      BY <3>1 DEF NoBlock
  <2> HIDE DEF order
  <2> DEFINE r == NextActive(lk, order, now, q)
  <2>6. Chosen(lk, 1..m, r, now)
    <3> DEFINE B == 1..m
    <3>1. NoBlock \notin B /\ order \in Seq(B) /\ \A b \in B : lk[b] \in Link
      BY <2>2, <2>4, <2>5
    <3>2. Elements(order) = B
      BY <2>2
    <3> HIDE DEF B
    <3> QED
      BY <2>1, <2>3, <3>1, <3>2, NextActiveChosen DEF B
  <2> HIDE DEF r
  <2>7. NextActiveIs(lk, r, now)
    BY <2>4, <2>5, <2>6, ChosenIs
  <2> QED
    BY <2>7 DEF r, order
<1> QED
  BY <1>1, PTL
=============================================================================

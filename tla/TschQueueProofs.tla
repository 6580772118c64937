-------------------------- MODULE TschQueueProofs --------------------------
(***************************************************************************)
(* Proofs about the transmission queues: every block has one owner, every  *)
(* packet is reported once, the frame that is sent is the first of its     *)
(* queue, and the queues implement MacQueue.                               *)
(***************************************************************************)
EXTENDS TschQueue, TLAPS, FiniteSetTheorems, WellFoundedInduction

-----------------------------------------------------------------------------
(***************************************************************************)
(* The inductive invariant.                                                *)
(***************************************************************************)
Rings(size) ==
  [arr : [0..size - 1 -> Block \cup {NoBlock}], put : 0..size - 1, get : 0..size - 1]
Frames ==
  [do : {"send", "flush", "pending", "unused", "reset"}, n : Nbr,
   at : {"lock", "locked", "check", "put", "test", "get", "call", "free", "peek", "next",
         "remove", "backoff"},
   b : Block \cup {NoBlock}, g : Nat, rest : SUBSET Nbr]
SlotRecs ==
  [phase : {"idle", "tx"}, b : Block \cup {NoBlock}, n : Nbr, l : Links \cup {NoLink}, i : Nat]

PacketTypes == pkt \in [Block -> Rec] /\ used \subseteq Block
RingTypes == ring \in [Nbr -> Rings(Ring)] /\ dq \in Rings(DqRing)
TableTypes ==
  /\ Virtual \subseteq known /\ known \subseteq Nbr
  /\ backoff \in [Nbr -> [exp : MinBE..MaxBE, win : Nat]]
  /\ \A n \in Nbr : backoff[n].win = 0 \/ backoff[n].win \in 1..2^backoff[n].exp
OtherTypes ==
  /\ locked \in BOOLEAN /\ slot \in SlotRecs
  /\ net \in {"out", "joined", "leaving", "resetting"}
  /\ sent \in 0..MaxSend /\ count \in [Id -> Nat]
Types ==
  PacketTypes /\ RingTypes /\ TableTypes /\ OtherTypes /\ proc \in Seq(Frames)

(* Which call is made from which: the callback of a packet sends another   *)
(* one; tsch_reset() flushes, and calls what handles pending packets.      *)
Over(f, g) ==
  \/ f.do = "send" /\ g.do \in {"flush", "pending"} /\ g.at = "free"
  \/ f.do = "flush" /\ g.do = "reset" /\ g.at = "backoff"
  \/ f.do \in {"pending", "unused"} /\ g.do = "reset" /\ g.at = "next"

Calls(s) == {s[i] : i \in 1..Len(s)}

Linked(s) == \A i \in 1..Len(s) - 1 : Over(s[i], s[i + 1])
Stack ==
  /\ Linked(proc)
  /\ \A f \in Calls(proc) : f.do = "reset" => net = "resetting"

(* What a call has found out still holds when it goes on. *)
FrameInv(f) ==
  /\ f.do = "send" =>
       /\ f.at \in {"lock", "locked", "check", "put"} /\ sent >= 1
       /\ f.at \in {"check", "put"} => f.n \in known
       /\ f.at = "put" => /\ ~Full(ring[f.n], Ring)
                          /\ ring[f.n].arr[ring[f.n].put] = f.b
  /\ f.do = "flush" =>
       /\ f.at \in {"test", "get", "call", "free"}
       /\ f.n \in known
       /\ f.at = "get" => ~IsEmpty(ring[f.n], Ring) /\ f.g = ring[f.n].get
  /\ f.do = "pending" =>
       /\ f.at \in {"peek", "call", "free", "get"}
       /\ f.at # "peek" => ~IsEmpty(dq, DqRing) /\ f.b = First(dq)
  /\ f.do = "unused" =>
       /\ f.at \in {"next", "lock", "locked", "remove"}
       /\ f.at # "next" => IsUnused(f.n)
  /\ f.do = "reset" => f.at \in {"next", "backoff"}

CallsInv == \A f \in Calls(proc) : FrameInv(f)

(* Who holds which blocks. *)
OneEach(r, size) ==
  \A i, j \in 1..Elements(r, size) : Contents(r, size)[i] = Contents(r, size)[j] => i = j
Held(r, size) == {Contents(r, size)[i] : i \in 1..Elements(r, size)}
Queued(n) == Held(ring[n], Ring)
AllQueued == UNION {Queued(n) : n \in Nbr}
Finished == Held(dq, DqRing)

Flushes(f) == f.do = "flush" /\ f.at \in {"call", "free"}
Stores(f) == f.do = "send" /\ f.at = "put"
Frees(f) == f.do = "pending" /\ f.at = "get"
FlushedIn(F) == {f.b : f \in {h \in F : Flushes(h)}}
StoredIn(F) == {f.b : f \in {h \in F : Stores(h)}}
FreeingIn(F) == {f.b : f \in {h \in F : Frees(h)}}
Flushed == FlushedIn(Calls(proc))
Stored == StoredIn(Calls(proc))
Freeing == FreeingIn(Calls(proc))

Ownership ==
  /\ \A n \in Nbr : OneEach(ring[n], Ring)
  /\ OneEach(dq, DqRing)
  /\ \A m, n \in Nbr : m # n => Queued(m) \cap Queued(n) = {}
  /\ \A n \in Nbr : Queued(n) \cap (Finished \cup Flushed \cup Stored) = {}
  /\ Finished \cap (Flushed \cup Stored) = {}
  /\ Flushed \cap Stored = {}
  /\ used \cup Freeing = AllQueued \cup Finished \cup Flushed \cup Stored
  /\ used \cap Freeing = {} /\ Freeing \subseteq Block

QInv == Types /\ Stack /\ CallsInv /\ Ownership /\ SendsFirst /\ ~Disturbed

-----------------------------------------------------------------------------
(***************************************************************************)
(* Rings: what ringbufindex_put() and ringbufindex_get() do to contents.   *)
(***************************************************************************)
LEMMA Modulo ==
  ASSUME NEW n \in Nat \ {0}
  PROVE  /\ \A x \in 0..n - 1 : x % n = x
         /\ \A x \in 0..n - 1 : (x + n) % n = x
         /\ \A x \in 0..n - 1 : (x - n) % n = x
OBVIOUS

LEMMA CountIs ==
  ASSUME NEW size \in Nat \ {0}, NEW r \in Rings(size)
  PROVE  Elements(r, size) = IF r.put >= r.get THEN r.put - r.get ELSE r.put - r.get + size
<1>1. r.put \in 0..size - 1 /\ r.get \in 0..size - 1
  BY DEF Rings
<1>2. CASE r.put >= r.get
  <2>1. r.put - r.get \in 0..size - 1
    BY <1>1, <1>2
  <2> QED
    BY <1>2, <2>1, Modulo DEF Elements
<1>3. CASE ~(r.put >= r.get)
  <2>1. r.put - r.get + size \in 0..size - 1
    BY <1>1, <1>3
  <2>2. r.put - r.get = (r.put - r.get + size) - size
    BY <1>1
  <2>3. (r.put - r.get) % size = r.put - r.get + size
    BY <2>1, <2>2, Modulo
  <2> QED
    BY <1>3, <2>3 DEF Elements
<1> QED
  BY <1>2, <1>3

LEMMA RangeIs ==
  ASSUME NEW size \in Nat \ {0}, NEW r \in Rings(size)
  PROVE  Elements(r, size) \in 0..size - 1
<1>1. r.put \in 0..size - 1 /\ r.get \in 0..size - 1
  BY DEF Rings
<1> QED
  BY <1>1, CountIs

LEMMA NextIs ==
  ASSUME NEW size \in Nat \ {0}, NEW x \in 0..size - 1
  PROVE  (x + 1) % size = IF x + 1 = size THEN 0 ELSE x + 1
<1>1. CASE x + 1 = size
  <2>1. 0 \in 0..size - 1 /\ 0 + size = size
    OBVIOUS
  <2>2. size % size = 0
    BY <2>1, Modulo
  <2> QED
    BY <1>1, <2>2
<1>2. CASE x + 1 # size
  <2>1. x + 1 \in 0..size - 1
    BY <1>2
  <2> QED
    BY <1>2, <2>1, Modulo
<1> QED
  BY <1>1, <1>2

(* Where the ith element is. *)
LEMMA IndexIs ==
  ASSUME NEW size \in Nat \ {0}, NEW x \in 0..size - 1, NEW i \in 1..size
  PROVE  /\ (x + i - 1) % size \in 0..size - 1
         /\ (x + i - 1) % size = IF x + i - 1 < size THEN x + i - 1 ELSE x + i - 1 - size
<1>1. CASE x + i - 1 < size
  <2>1. x + i - 1 \in 0..size - 1
    BY <1>1
  <2> QED
    BY <1>1, <2>1, Modulo
<1>2. CASE ~(x + i - 1 < size)
  <2>1. x + i - 1 - size \in 0..size - 1 /\ (x + i - 1 - size) + size = x + i - 1
    BY <1>2
  <2>2. (x + i - 1) % size = x + i - 1 - size
    BY <2>1, Modulo
  <2> QED
    BY <1>2, <2>1, <2>2
<1> QED
  BY <1>1, <1>2

LEMMA ContentsAre ==
  ASSUME NEW size \in Nat \ {0}, NEW r \in Rings(size)
  PROVE  /\ Contents(r, size) \in Seq(Block \cup {NoBlock})
         /\ Len(Contents(r, size)) = Elements(r, size)
         /\ Contents(r, size) = [i \in 1..Elements(r, size) |-> r.arr[(r.get + i - 1) % size]]
<1>1. Elements(r, size) \in 0..size - 1
  BY RangeIs
<1>2. r.get \in 0..size - 1 /\ r.arr \in [0..size - 1 -> Block \cup {NoBlock}]
  BY DEF Rings
<1>3. Contents(r, size) = [i \in 1..Elements(r, size) |-> r.arr[(r.get + i - 1) % size]]
  BY DEF Contents
<1>4. ASSUME NEW i \in 1..Elements(r, size)
      PROVE  r.arr[(r.get + i - 1) % size] \in Block \cup {NoBlock}
  <2>1. i \in 1..size
    BY <1>1
  <2>2. (r.get + i - 1) % size \in 0..size - 1
    BY <1>2, <2>1, IndexIs
  <2> QED
    BY <1>2, <2>2
<1>5. Contents(r, size) \in Seq(Block \cup {NoBlock}) /\ Len(Contents(r, size)) = Elements(r, size)
  BY <1>1, <1>3, <1>4
<1> QED
  BY <1>3, <1>5

LEMMA FirstIs ==
  ASSUME NEW size \in Nat \ {0}, NEW r \in Rings(size), ~IsEmpty(r, size)
  PROVE  Elements(r, size) >= 1 /\ Contents(r, size)[1] = First(r) /\ First(r) \in Held(r, size)
<1>1. Elements(r, size) \in 0..size - 1 /\ Elements(r, size) # 0
  BY RangeIs DEF IsEmpty
<1>2. r.get \in 0..size - 1
  BY DEF Rings
<1>3. (r.get + 1 - 1) % size = r.get
  <2>1. r.get + 1 - 1 = r.get
    BY <1>2
  <2> QED
    BY <1>2, <2>1, Modulo
<1>4. Contents(r, size)[1] = First(r)
  BY <1>1, <1>3, ContentsAre DEF First
<1> QED
  BY <1>1, <1>4 DEF Held

(* The arithmetic of a ring with p the index to put and g that to get. *)
LEMMA PutCount ==
  ASSUME NEW size \in Nat \ {0}, NEW p \in 0..size - 1, NEW g \in 0..size - 1, NEW m, NEW q,
         m = IF p >= g THEN p - g ELSE p - g + size, m # size - 1,
         q = IF p + 1 = size THEN 0 ELSE p + 1
  PROVE  /\ m \in 0..size - 2
         /\ (IF q >= g THEN q - g ELSE q - g + size) = m + 1
         /\ (IF g + (m + 1) - 1 < size THEN g + (m + 1) - 1 ELSE g + (m + 1) - 1 - size) = p
OBVIOUS

LEMMA GetCount ==
  ASSUME NEW size \in Nat \ {0}, NEW p \in 0..size - 1, NEW g \in 0..size - 1, NEW m, NEW h,
         m = IF p >= g THEN p - g ELSE p - g + size, m # 0,
         h = IF g + 1 = size THEN 0 ELSE g + 1
  PROVE  /\ m \in 1..size - 1 /\ h \in 0..size - 1
         /\ (IF p >= h THEN p - h ELSE p - h + size) = m - 1
OBVIOUS

LEMMA NextPlace ==
  ASSUME NEW size \in Nat \ {0}, NEW g \in 0..size - 1, NEW h,
         h = IF g + 1 = size THEN 0 ELSE g + 1, NEW i \in 1..size
  PROVE  (IF h + i - 1 < size THEN h + i - 1 ELSE h + i - 1 - size)
           = IF g + (i + 1) - 1 < size THEN g + (i + 1) - 1 ELSE g + (i + 1) - 1 - size
OBVIOUS

(* A block stored where the next one goes. *)
LEMMA RingStore ==
  ASSUME NEW size \in Nat \ {0}, NEW r \in Rings(size), NEW b \in Block \cup {NoBlock}
  PROVE  LET s == [r EXCEPT !.arr[r.put] = b]
         IN  /\ s \in Rings(size) /\ s.put = r.put /\ s.get = r.get /\ s.arr[s.put] = b
             /\ Elements(s, size) = Elements(r, size)
             /\ Contents(s, size) = Contents(r, size)
<1> DEFINE s == [r EXCEPT !.arr[r.put] = b]
<1> SUFFICES /\ s \in Rings(size) /\ s.put = r.put /\ s.get = r.get /\ s.arr[s.put] = b
             /\ Elements(s, size) = Elements(r, size)
             /\ Contents(s, size) = Contents(r, size)
  OBVIOUS
<1>1. /\ r.put \in 0..size - 1 /\ r.get \in 0..size - 1
      /\ r.arr \in [0..size - 1 -> Block \cup {NoBlock}]
  BY DEF Rings
<1>2. s \in Rings(size) /\ s.put = r.put /\ s.get = r.get /\ s.arr = [r.arr EXCEPT ![r.put] = b]
  BY <1>1 DEF Rings
<1> HIDE DEF s
<1>3. Elements(s, size) = Elements(r, size)
  BY <1>2 DEF Elements
<1>4. ASSUME NEW i \in 1..Elements(r, size)
      PROVE  s.arr[(s.get + i - 1) % size] = r.arr[(r.get + i - 1) % size]
  <2>1. i \in 1..size
    BY RangeIs
  <2>2. /\ (r.get + i - 1) % size \in 0..size - 1
        /\ (r.get + i - 1) % size = IF r.get + i - 1 < size THEN r.get + i - 1
                                    ELSE r.get + i - 1 - size
    BY <1>1, <2>1, IndexIs
  <2>3. Elements(r, size) = IF r.put >= r.get THEN r.put - r.get ELSE r.put - r.get + size
    BY CountIs
  <2>4. (r.get + i - 1) % size # r.put
    BY <1>1, <2>2, <2>3
  <2> QED
    BY <1>1, <1>2, <2>2, <2>4
<1>5. Contents(s, size) = Contents(r, size)
  <2> DEFINE m == Elements(r, size)
             c == Contents(r, size)
             d == Contents(s, size)
  <2>1. c = [i \in 1..m |-> r.arr[(r.get + i - 1) % size]]
    BY ContentsAre
  <2>2. d = [i \in 1..m |-> s.arr[(s.get + i - 1) % size]]
    BY <1>2, <1>3, ContentsAre
  <2> HIDE DEF m, c, d
  <2> QED
    BY <1>4, <2>1, <2>2 DEF m, c, d
<1> QED
  BY <1>1, <1>2, <1>3, <1>5

(* ringbufindex_put() *)
LEMMA RingPut ==
  ASSUME NEW size \in Nat \ {0}, NEW r \in Rings(size), ~Full(r, size)
  PROVE  LET s == [r EXCEPT !.put = (r.put + 1) % size]
         IN  /\ s \in Rings(size)
             /\ Elements(s, size) = Elements(r, size) + 1
             /\ Contents(s, size) = Append(Contents(r, size), r.arr[r.put])
<1> DEFINE s == [r EXCEPT !.put = (r.put + 1) % size]
           m == Elements(r, size)
<1> SUFFICES /\ s \in Rings(size)
             /\ Elements(s, size) = m + 1
             /\ Contents(s, size) = Append(Contents(r, size), r.arr[r.put])
  OBVIOUS
<1>1. /\ r.put \in 0..size - 1 /\ r.get \in 0..size - 1
      /\ r.arr \in [0..size - 1 -> Block \cup {NoBlock}]
  BY DEF Rings
<1>2. (r.put + 1) % size = IF r.put + 1 = size THEN 0 ELSE r.put + 1
  BY <1>1, NextIs
<1>3. /\ s \in Rings(size) /\ s.get = r.get /\ s.arr = r.arr
      /\ s.put = IF r.put + 1 = size THEN 0 ELSE r.put + 1
  BY <1>1, <1>2 DEF Rings
<1> HIDE DEF s
<1>4. m \in 0..size - 1 /\ m # size - 1
      /\ m = IF r.put >= r.get THEN r.put - r.get ELSE r.put - r.get + size
  BY RangeIs, CountIs DEF Full
<1>4a. /\ (IF s.put >= r.get THEN s.put - r.get ELSE s.put - r.get + size) = m + 1
       /\ (IF r.get + (m + 1) - 1 < size THEN r.get + (m + 1) - 1
           ELSE r.get + (m + 1) - 1 - size) = r.put
  <2>1. PICK p, g, n, q : p = r.put /\ g = r.get /\ n = m /\ q = s.put
    OBVIOUS
  <2>2. /\ p \in 0..size - 1 /\ g \in 0..size - 1
        /\ n = (IF p >= g THEN p - g ELSE p - g + size) /\ n # size - 1
        /\ q = IF p + 1 = size THEN 0 ELSE p + 1
    BY <1>1, <1>3, <1>4, <2>1
  <2>3. /\ (IF q >= g THEN q - g ELSE q - g + size) = n + 1
        /\ (IF g + (n + 1) - 1 < size THEN g + (n + 1) - 1 ELSE g + (n + 1) - 1 - size) = p
    BY <2>2, PutCount, SMTT(60)
  <2> QED
    BY <2>1, <2>3
<1>5. Elements(s, size) = m + 1
  <2>1. Elements(s, size) = IF s.put >= s.get THEN s.put - s.get ELSE s.put - s.get + size
    BY <1>3, CountIs
  <2> QED
    BY <1>3, <1>4a, <2>1
<1>6. (r.get + (m + 1) - 1) % size = r.put
  <2>1. m + 1 \in 1..size
    BY <1>4
  <2> HIDE DEF m
  <2>2. (r.get + (m + 1) - 1) % size =
          (IF r.get + (m + 1) - 1 < size THEN r.get + (m + 1) - 1
           ELSE r.get + (m + 1) - 1 - size)
    BY <1>1, <2>1, IndexIs
  <2> QED
    BY <1>4a, <2>2
<1> DEFINE c == Contents(r, size)
           x == r.arr[r.put]
           d == Contents(s, size)
<1>7. c \in Seq(Block \cup {NoBlock}) /\ Len(c) = m /\ x \in Block \cup {NoBlock}
  BY <1>1, ContentsAre
<1>8. d \in Seq(Block \cup {NoBlock}) /\ Len(d) = m + 1
  BY <1>3, <1>5, ContentsAre
<1>9. \A i \in 1..m : c[i] = r.arr[(r.get + i - 1) % size]
  BY ContentsAre
<1>10. \A i \in 1..m + 1 : d[i] = r.arr[(r.get + i - 1) % size]
  BY <1>3, <1>5, ContentsAre
<1> HIDE DEF m, c, x, d
<1>11. \A i \in 1..m : d[i] = c[i]
  BY <1>4, <1>9, <1>10
<1>12. d[m + 1] = x
  BY <1>4, <1>6, <1>10 DEF x
<1>13. d = Append(c, x)
  BY <1>4, <1>7, <1>8, <1>11, <1>12
<1> QED
  BY <1>3, <1>5, <1>13 DEF c, x, d

(* ringbufindex_get() *)
LEMMA RingGet ==
  ASSUME NEW size \in Nat \ {0}, NEW r \in Rings(size), ~IsEmpty(r, size)
  PROVE  /\ Get(r, size) \in Rings(size)
         /\ Elements(Get(r, size), size) = Elements(r, size) - 1
         /\ Contents(Get(r, size), size) = Tail(Contents(r, size))
<1> DEFINE s == Get(r, size)
           m == Elements(r, size)
<1>1. /\ r.put \in 0..size - 1 /\ r.get \in 0..size - 1
      /\ r.arr \in [0..size - 1 -> Block \cup {NoBlock}]
  BY DEF Rings
<1>2. (r.get + 1) % size = IF r.get + 1 = size THEN 0 ELSE r.get + 1
  BY <1>1, NextIs
<1>3. /\ s \in Rings(size) /\ s.put = r.put /\ s.arr = r.arr
      /\ s.get = IF r.get + 1 = size THEN 0 ELSE r.get + 1
  BY <1>1, <1>2 DEF Rings, Get
<1> HIDE DEF s
<1>4. m \in 1..size - 1
      /\ m = IF r.put >= r.get THEN r.put - r.get ELSE r.put - r.get + size
  BY RangeIs, CountIs DEF IsEmpty
<1>5. Elements(s, size) = m - 1
  <2>1. Elements(s, size) = IF s.put >= s.get THEN s.put - s.get ELSE s.put - s.get + size
    BY <1>3, CountIs
  <2>2. PICK p, g, n, h : p = r.put /\ g = r.get /\ n = m /\ h = s.get
    OBVIOUS
  <2>3. /\ p \in 0..size - 1 /\ g \in 0..size - 1
        /\ n = (IF p >= g THEN p - g ELSE p - g + size) /\ n # 0
        /\ h = IF g + 1 = size THEN 0 ELSE g + 1
    BY <1>1, <1>3, <1>4, <2>2
  <2>4. (IF p >= h THEN p - h ELSE p - h + size) = n - 1
    BY <2>3, GetCount, SMTT(60)
  <2> QED
    BY <1>3, <2>1, <2>2, <2>4
<1> DEFINE c == Contents(r, size)
           d == Contents(s, size)
<1>7. c \in Seq(Block \cup {NoBlock}) /\ Len(c) = m
  BY <1>1, ContentsAre
<1>8. d \in Seq(Block \cup {NoBlock}) /\ Len(d) = m - 1
  BY <1>3, <1>5, ContentsAre
<1>9. \A i \in 1..m : c[i] = r.arr[(r.get + i - 1) % size]
  BY ContentsAre
<1>10. \A i \in 1..m - 1 : d[i] = r.arr[(s.get + i - 1) % size]
  BY <1>3, <1>5, ContentsAre
<1> HIDE DEF m, c, d
<1>11. ASSUME NEW i \in 1..m - 1 PROVE d[i] = c[i + 1]
  <2>0. s.get \in 0..size - 1 /\ m \in 1..size - 1
    BY <1>3, <1>4 DEF Rings
  <2>1. i \in 1..size /\ i + 1 \in 1..size /\ i + 1 \in 1..m /\ s.get \in 0..size - 1
    BY <2>0
  <2>2. (s.get + i - 1) % size = IF s.get + i - 1 < size THEN s.get + i - 1
                                 ELSE s.get + i - 1 - size
    BY <2>1, IndexIs
  <2>3. (r.get + (i + 1) - 1) % size =
          IF r.get + (i + 1) - 1 < size THEN r.get + (i + 1) - 1
          ELSE r.get + (i + 1) - 1 - size
    BY <1>1, <2>1, IndexIs
  <2>4. (s.get + i - 1) % size = (r.get + (i + 1) - 1) % size
    <3>1. (IF s.get + i - 1 < size THEN s.get + i - 1 ELSE s.get + i - 1 - size) =
            IF r.get + (i + 1) - 1 < size THEN r.get + (i + 1) - 1
            ELSE r.get + (i + 1) - 1 - size
      BY <1>1, <1>3, <2>1, NextPlace, Zenon
    <3> QED
      BY <2>2, <2>3, <3>1
  <2> QED
    BY <1>9, <1>10, <2>1, <2>4
<1>12. Tail(c) \in Seq(Block \cup {NoBlock}) /\ Len(Tail(c)) = m - 1
       /\ \A i \in 1..m - 1 : Tail(c)[i] = c[i + 1]
  BY <1>4, <1>7
<1>13. d = Tail(c)
  BY <1>4, <1>8, <1>11, <1>12
<1> QED
  BY <1>3, <1>5, <1>13 DEF c, d, m, s

(* The blocks in a ring, when each is in it once. *)
LEMMA HeldSame ==
  ASSUME NEW size, NEW r, NEW s, Elements(s, size) = Elements(r, size),
         Contents(s, size) = Contents(r, size)
  PROVE  Held(s, size) = Held(r, size) /\ (OneEach(s, size) <=> OneEach(r, size))
BY DEF Held, OneEach

LEMMA HeldPut ==
  ASSUME NEW size \in Nat \ {0}, NEW r \in Rings(size), ~Full(r, size)
  PROVE  LET s == [r EXCEPT !.put = (r.put + 1) % size]
             x == r.arr[r.put]
         IN  /\ s \in Rings(size) /\ ~IsEmpty(s, size) /\ s.get = r.get /\ First(s) = First(r)
             /\ Held(s, size) = Held(r, size) \cup {x}
             /\ OneEach(r, size) /\ x \notin Held(r, size) => OneEach(s, size)
<1> DEFINE s == [r EXCEPT !.put = (r.put + 1) % size]
           x == r.arr[r.put]
           m == Elements(r, size)
           c == Contents(r, size)
           d == Contents(s, size)
<1> SUFFICES /\ s \in Rings(size) /\ ~IsEmpty(s, size) /\ s.get = r.get /\ First(s) = First(r)
             /\ Held(s, size) = Held(r, size) \cup {x}
             /\ OneEach(r, size) /\ x \notin Held(r, size) => OneEach(s, size)
  OBVIOUS
<1>1. s \in Rings(size) /\ Elements(s, size) = m + 1 /\ d = Append(c, x)
  BY RingPut
<1>2. s.get = r.get /\ s.arr = r.arr
  BY DEF Rings
<1>3. m \in Nat /\ c \in Seq(Block \cup {NoBlock}) /\ Len(c) = m
  BY RangeIs, ContentsAre
<1> HIDE DEF s, x, m, c, d
<1>4. (\A i \in 1..m : d[i] = c[i]) /\ d[m + 1] = x
  BY <1>1, <1>3
<1>5. Held(r, size) = {c[i] : i \in 1..m} /\ Held(s, size) = {d[i] : i \in 1..m + 1}
  BY <1>1 DEF Held, m, c, d
<1>6. Held(s, size) = Held(r, size) \cup {x}
  BY <1>3, <1>4, <1>5
<1>7. ASSUME OneEach(r, size), x \notin Held(r, size) PROVE OneEach(s, size)
  <2>1. \A i, j \in 1..m : c[i] = c[j] => i = j
    BY <1>7 DEF OneEach, m, c
  <2>2. \A i, j \in 1..m + 1 : d[i] = d[j] => i = j
    BY <1>3, <1>4, <1>5, <1>7, <2>1
  <2> QED
    BY <1>1, <2>2 DEF OneEach, d
<1>8. ~IsEmpty(s, size)
  BY <1>1, <1>3 DEF IsEmpty
<1> QED
  BY <1>1, <1>2, <1>6, <1>7, <1>8 DEF First

LEMMA HeldGet ==
  ASSUME NEW size \in Nat \ {0}, NEW r \in Rings(size), ~IsEmpty(r, size)
  PROVE  LET s == Get(r, size)
         IN  /\ s \in Rings(size) /\ ~Full(s, size) /\ s.put = r.put /\ s.arr = r.arr
             /\ First(r) \in Held(r, size)
             /\ OneEach(r, size) => /\ Held(s, size) = Held(r, size) \ {First(r)}
                                    /\ OneEach(s, size)
<1> DEFINE s == Get(r, size)
           m == Elements(r, size)
           c == Contents(r, size)
           d == Contents(s, size)
<1> SUFFICES /\ s \in Rings(size) /\ ~Full(s, size) /\ s.put = r.put /\ s.arr = r.arr
             /\ First(r) \in Held(r, size)
             /\ OneEach(r, size) => /\ Held(s, size) = Held(r, size) \ {First(r)}
                                    /\ OneEach(s, size)
  OBVIOUS
<1>1. s \in Rings(size) /\ Elements(s, size) = m - 1 /\ d = Tail(c)
  BY RingGet
<1>2. s.put = r.put /\ s.arr = r.arr
  BY DEF Rings, Get
<1>3. m \in 1..size - 1 /\ c \in Seq(Block \cup {NoBlock}) /\ Len(c) = m /\ c[1] = First(r)
      /\ First(r) \in Held(r, size)
  BY RangeIs, ContentsAre, FirstIs
<1> HIDE DEF s, m, c, d
<1>4. \A i \in 1..m - 1 : d[i] = c[i + 1]
  BY <1>1, <1>3
<1>5. Held(r, size) = {c[i] : i \in 1..m} /\ Held(s, size) = {d[i] : i \in 1..m - 1}
  BY <1>1 DEF Held, m, c, d
<1>6. ASSUME OneEach(r, size)
      PROVE  Held(s, size) = Held(r, size) \ {First(r)} /\ OneEach(s, size)
  <2>1. \A i, j \in 1..m : c[i] = c[j] => i = j
    BY <1>6 DEF OneEach, m, c
  <2>2. \A i, j \in 1..m - 1 : d[i] = d[j] => i = j
    BY <1>3, <1>4, <2>1
  <2>3. OneEach(s, size)
    BY <1>1, <2>2 DEF OneEach, d
  <2>4. \A x : x \in Held(s, size) <=> x \in Held(r, size) /\ x # c[1]
    <3>1. ASSUME NEW i \in 1..m - 1 PROVE d[i] \in Held(r, size) /\ d[i] # c[1]
      <4>1. i + 1 \in 1..m /\ 1 \in 1..m /\ i + 1 # 1
        BY <1>3
      <4> QED
        BY <1>4, <1>5, <2>1, <4>1
    <3>2. ASSUME NEW i \in 1..m, c[i] # c[1] PROVE c[i] \in Held(s, size)
      <4>1. i - 1 \in 1..m - 1 /\ (i - 1) + 1 = i
        BY <1>3, <3>2
      <4>2. d[i - 1] = c[i]
        BY <1>4, <4>1
      <4> QED
        BY <1>5, <4>1, <4>2
    <3> QED
      BY <1>5, <3>1, <3>2
  <2> QED
    BY <1>3, <2>3, <2>4
<1>7. ~Full(s, size)
  BY <1>1, <1>3 DEF Full
<1> QED
  BY <1>1, <1>2, <1>3, <1>6, <1>7

-----------------------------------------------------------------------------
(***************************************************************************)
(* The stack of calls.                                                     *)
(***************************************************************************)
LEMMA TopIs ==
  ASSUME NEW s \in Seq(Frames), s # <<>>
  PROVE  /\ Head(s) \in Frames /\ Head(s) = s[1] /\ Tail(s) \in Seq(Frames)
         /\ Len(s) \in Nat \ {0} /\ Len(Tail(s)) = Len(s) - 1
         /\ \A i \in 1..Len(s) - 1 : Tail(s)[i] = s[i + 1]
         /\ Calls(s) = {Head(s)} \cup Calls(Tail(s))
<1>1. /\ Head(s) \in Frames /\ Head(s) = s[1] /\ Tail(s) \in Seq(Frames)
      /\ Len(s) \in Nat \ {0} /\ Len(Tail(s)) = Len(s) - 1
      /\ \A i \in 1..Len(s) - 1 : Tail(s)[i] = s[i + 1]
  OBVIOUS
<1>2. Calls(s) \subseteq {Head(s)} \cup Calls(Tail(s))
  <2> SUFFICES ASSUME NEW i \in 1..Len(s), i # 1 PROVE s[i] \in Calls(Tail(s))
    BY <1>1 DEF Calls
  <2>1. i - 1 \in 1..Len(s) - 1 /\ (i - 1) + 1 = i
    BY <1>1
  <2> QED
    BY <1>1, <2>1 DEF Calls
<1>3. {Head(s)} \cup Calls(Tail(s)) \subseteq Calls(s)
  <2>1. \A i \in 1..Len(s) - 1 : i + 1 \in 1..Len(s)
    BY <1>1
  <2> QED
    BY <1>1, <2>1 DEF Calls
<1> QED
  BY <1>1, <1>2, <1>3

LEMMA PushIs ==
  ASSUME NEW f \in Frames, NEW r \in Seq(Frames)
  PROVE  /\ <<f>> \o r \in Seq(Frames) /\ <<f>> \o r # <<>>
         /\ Head(<<f>> \o r) = f /\ Tail(<<f>> \o r) = r
         /\ Len(<<f>> \o r) = Len(r) + 1
         /\ Calls(<<f>> \o r) = {f} \cup Calls(r)
<1> DEFINE s == <<f>> \o r
<1>1. s \in Seq(Frames) /\ s # <<>> /\ Head(s) = f /\ Tail(s) = r /\ Len(s) = Len(r) + 1
  OBVIOUS
<1> HIDE DEF s
<1> QED
  BY <1>1, TopIs DEF s

(* What is below the call that goes on. *)
LEMMA Below ==
  ASSUME Types, Stack, proc # <<>>
  PROVE  /\ Top \in Frames /\ Tail(proc) \in Seq(Frames)
         /\ Calls(proc) = {Top} \cup Calls(Tail(proc))
         /\ Tail(proc) # <<>> => Over(Top, Head(Tail(proc)))
         /\ \A f \in Calls(Tail(proc)) :
              /\ f \in Frames /\ ~Stores(f) /\ ~Frees(f)
              /\ f.do \in {"flush", "pending", "reset"}
              /\ f.do \in {"flush", "pending"} => f.at = "free" /\ Top.do = "send"
              /\ Top.do = "reset" => FALSE
<1>1. proc \in Seq(Frames)
  BY DEF Types, PacketTypes, RingTypes, TableTypes, OtherTypes
<1>2. /\ Top \in Frames /\ Tail(proc) \in Seq(Frames)
      /\ Calls(proc) = {Top} \cup Calls(Tail(proc)) /\ Top = proc[1]
      /\ Len(proc) \in Nat \ {0} /\ Len(Tail(proc)) = Len(proc) - 1
      /\ \A i \in 1..Len(proc) - 1 : Tail(proc)[i] = proc[i + 1]
  BY <1>1, TopIs DEF Top
<1>3. ASSUME Tail(proc) # <<>> PROVE Over(Top, Head(Tail(proc)))
  <2>1. Len(Tail(proc)) >= 1 /\ Head(Tail(proc)) = Tail(proc)[1]
    BY <1>2, <1>3
  <2>2. 1 \in 1..Len(proc) - 1 /\ Head(Tail(proc)) = proc[1 + 1]
    BY <1>2, <2>1
  <2> QED
    BY <1>2, <2>2 DEF Stack, Linked
<1>4. ASSUME NEW f \in Calls(Tail(proc))
      PROVE  /\ f \in Frames /\ ~Stores(f) /\ ~Frees(f)
             /\ f.do \in {"flush", "pending", "reset"}
             /\ f.do \in {"flush", "pending"} => f.at = "free" /\ Top.do = "send"
             /\ Top.do = "reset" => FALSE
  <2>1. PICK i \in 1..Len(proc) - 1 : f = proc[i + 1]
    BY <1>2, <1>4 DEF Calls
  <2>2. Over(proc[i], f)
    BY <2>1 DEF Stack, Linked
  <2>3. i = 1 \/ (i - 1 \in 1..Len(proc) - 1 /\ (i - 1) + 1 = i)
    BY <1>2
  <2>4. i = 1 \/ Over(proc[i - 1], proc[i])
    BY <2>3 DEF Stack, Linked
  <2>5. i - 1 = 1 \/ i = 1 \/ (i - 2 \in 1..Len(proc) - 1 /\ (i - 2) + 1 = i - 1)
    BY <1>2
  <2>6. i - 1 = 1 \/ i = 1 \/ Over(proc[i - 2], proc[i - 1])
    BY <2>5 DEF Stack, Linked
  <2>7. f \in Frames
    BY <1>1, <1>2, <2>1
  <2> QED
    BY <1>2, <2>2, <2>4, <2>6, <2>7 DEF Over, Stores, Frees
<1> QED
  BY <1>2, <1>3, <1>4

LEMMA LinkedPush ==
  ASSUME NEW f \in Frames, NEW r \in Seq(Frames), Linked(r), r # <<>> => Over(f, Head(r))
  PROVE  Linked(<<f>> \o r)
<1> DEFINE s == <<f>> \o r
<1>1. s \in Seq(Frames) /\ s # <<>> /\ Head(s) = f /\ Tail(s) = r /\ Len(s) = Len(r) + 1
  BY PushIs
<1> HIDE DEF s
<1>2. s[1] = f /\ \A i \in 1..Len(r) : s[i + 1] = r[i]
  BY <1>1, TopIs
<1>3. ASSUME NEW i \in 1..Len(s) - 1 PROVE Over(s[i], s[i + 1])
  <2>1. CASE i = 1
    <3>1. r # <<>> /\ Head(r) = r[1] /\ s[i + 1] = r[1]
      BY <1>1, <1>2, <2>1
    <3> QED
      BY <1>2, <2>1, <3>1
  <2>2. CASE i # 1
    <3>1. i - 1 \in 1..Len(r) - 1 /\ (i - 1) + 1 = i
      BY <1>1, <2>2
    <3>2. s[i] = r[i - 1] /\ s[i + 1] = r[(i - 1) + 1]
      BY <1>2, <3>1
    <3> QED
      BY <3>1, <3>2 DEF Linked
  <2> QED
    BY <2>1, <2>2
<1> QED
  BY <1>3 DEF Linked, s

LEMMA LinkedTail ==
  ASSUME NEW s \in Seq(Frames), s # <<>>, Linked(s)
  PROVE  Linked(Tail(s))
<1>1. /\ Len(s) \in Nat \ {0} /\ Len(Tail(s)) = Len(s) - 1
      /\ \A i \in 1..Len(s) - 1 : Tail(s)[i] = s[i + 1]
  BY TopIs
<1>2. ASSUME NEW i \in 1..Len(Tail(s)) - 1 PROVE Over(Tail(s)[i], Tail(s)[i + 1])
  <2>1. i + 1 \in 1..Len(s) - 1 /\ i \in 1..Len(s) - 1
    BY <1>1
  <2>2. Tail(s)[i] = s[i + 1] /\ Tail(s)[i + 1] = s[(i + 1) + 1]
    BY <1>1, <2>1
  <2> QED
    BY <2>1, <2>2 DEF Linked
<1> QED
  BY <1>2 DEF Linked

(* The call at the top goes on, returns or makes another one. *)
LEMMA TopGoesOn ==
  ASSUME Types, Stack, proc # <<>>, NEW f \in Frames, proc' = <<f>> \o Tail(proc)
  PROVE  /\ proc' \in Seq(Frames) /\ proc' # <<>> /\ Top' = f
         /\ Calls(proc') = {f} \cup Calls(Tail(proc))
         /\ net' = net /\ (f.do = Top.do \/ (f.do = "unused" /\ Top.do = "pending"))
              => Stack'
<1>1. /\ Top \in Frames /\ Tail(proc) \in Seq(Frames)
      /\ Calls(proc) = {Top} \cup Calls(Tail(proc))
      /\ Tail(proc) # <<>> => Over(Top, Head(Tail(proc)))
  BY Below
<1>2. /\ proc' \in Seq(Frames) /\ proc' # <<>> /\ Top' = f
      /\ Calls(proc') = {f} \cup Calls(Tail(proc))
  BY <1>1, PushIs DEF Top
<1>3. ASSUME net' = net, f.do = Top.do \/ (f.do = "unused" /\ Top.do = "pending")
      PROVE  Stack'
  <2>1. Linked(Tail(proc))
    BY LinkedTail DEF Types, PacketTypes, RingTypes, TableTypes, OtherTypes, Stack
  <2>2. Tail(proc) # <<>> => Over(f, Head(Tail(proc)))
    BY <1>1, <1>3 DEF Over
  <2>3. Linked(proc')
    BY <1>1, <2>1, <2>2, LinkedPush
  <2>4. \A h \in Calls(proc') : h.do = "reset" => net' = "resetting"
    BY <1>1, <1>2, <1>3 DEF Stack
  <2> QED
    BY <2>3, <2>4 DEF Stack
<1> QED
  BY <1>2, <1>3

LEMMA TopReturns ==
  ASSUME Types, Stack, proc # <<>>, proc' = Tail(proc)
  PROVE  /\ proc' \in Seq(Frames) /\ Calls(proc') = Calls(Tail(proc))
         /\ net' = net => Stack'
<1>1. /\ Tail(proc) \in Seq(Frames) /\ Calls(proc) = {Top} \cup Calls(Tail(proc))
  BY Below
<1>2. Linked(proc')
  BY LinkedTail DEF Types, PacketTypes, RingTypes, TableTypes, OtherTypes, Stack
<1> QED
  BY <1>1, <1>2 DEF Stack

LEMMA TopCalls ==
  ASSUME Types, Stack, NEW f \in Frames, proc' = <<f>> \o proc
  PROVE  /\ proc' \in Seq(Frames) /\ proc' # <<>> /\ Top' = f
         /\ Calls(proc') = {f} \cup Calls(proc)
         /\ net' = net /\ f.do # "reset" /\ (proc # <<>> => Over(f, Top)) => Stack'
<1>1. /\ proc' \in Seq(Frames) /\ proc' # <<>> /\ Top' = f
      /\ Calls(proc') = {f} \cup Calls(proc)
  BY PushIs DEF Types, PacketTypes, RingTypes, TableTypes, OtherTypes, Top
<1>2. ASSUME net' = net, f.do # "reset", proc # <<>> => Over(f, Top) PROVE Stack'
  <2>1. Linked(proc')
    BY <1>2, LinkedPush DEF Types, PacketTypes, RingTypes, TableTypes, OtherTypes, Stack, Top
  <2> QED
    BY <1>1, <1>2, <2>1 DEF Stack
<1> QED
  BY <1>1, <1>2

LEMMA NoCalls ==
  ASSUME proc = <<>>
  PROVE  Calls(proc) = {}
BY DEF Calls

LEMMA NewCalls ==
  ASSUME NEW n \in Nbr
  PROVE  Sending(n) \in Frames /\ Flushing(n) \in Frames /\ Pending \in Frames
         /\ \A S \in SUBSET Nbr : [Unused EXCEPT !.rest = S] \in Frames
                                  /\ [Frame("reset", Bcast, "next") EXCEPT !.rest = S] \in Frames
BY QueueAssumption DEF Sending, Flushing, Pending, Unused, Frame, Frames

-----------------------------------------------------------------------------
(* memb_alloc(): the first free block. *)
LEMMA FreeIs ==
  ASSUME used \subseteq Block, used # Block
  PROVE  FirstFree \in Block \ used
<1> DEFINE F == Block \ used
           R == OpToRel(<, Nat)
<1>1. F \subseteq Nat /\ F # {}
  <2>1. Block \subseteq Nat
    BY QueueAssumption DEF Block
  <2> QED
    BY <2>1
<1>2. \E b \in F : \A c \in F : b <= c
  <2> HIDE DEF F
  <2>1. PICK b \in F : \A c \in F : <<c, b>> \notin R
    BY <1>1, WFMin, NatLessThanWellFounded
  <2>2. R = {s \in Nat \X Nat : s[1] < s[2]}
    BY Zenon DEF OpToRel
  <2> HIDE DEF R
  <2>3. \A c \in F : ~(c < b)
    BY <1>1, <2>1, <2>2
  <2> QED
    BY <1>1, <2>3
<1> QED
  BY <1>2 DEF FirstFree

-----------------------------------------------------------------------------
(***************************************************************************)
(* The stack after every step.                                             *)
(***************************************************************************)
(* Steps of a process that are not the first of a call. *)
LEMMA StackInCall ==
  ASSUME Types, Stack, CallsInv,
         \/ TakeLock \/ AddNbr \/ SendCheck \/ SendPut \/ FlushTest \/ FlushGet
         \/ FreePacket \/ PendingPeek \/ PendingGet \/ UnusedNext \/ UnusedUnlock
         \/ ResetBackoff
  PROVE  proc' \in Seq(Frames) /\ Stack'
<1>1. proc # <<>> /\ net' = net
  BY DEF TakeLock, WantsLock, AddNbr, SendCheck, SendPut, FlushTest, FlushGet, FreePacket,
         PendingPeek, PendingGet, UnusedNext, UnusedUnlock, ResetBackoff, At
<1>2. Top \in Frames /\ Tail(proc) \in Seq(Frames)
  BY <1>1, Below
<1>3. Return => proc' \in Seq(Frames) /\ Stack'
  BY <1>1, TopReturns DEF Return
<1>4. ASSUME NEW f \in Frames, f.do = Top.do \/ (f.do = "unused" /\ Top.do = "pending"),
             proc' = <<f>> \o Tail(proc)
      PROVE  proc' \in Seq(Frames) /\ Stack'
  BY <1>1, <1>4, TopGoesOn
<1>5. ASSUME NEW at \in {"locked", "check", "test", "get", "remove", "next"}, Goto(at)
      PROVE  proc' \in Seq(Frames) /\ Stack'
  <2> DEFINE f == [Top EXCEPT !.at = at]
  <2>1. f \in Frames /\ f.do = Top.do
    BY <1>2 DEF Frames
  <2>2. proc' = <<f>> \o Tail(proc)
    BY <1>5 DEF Goto
  <2> HIDE DEF f
  <2> QED
    BY <1>4, <2>1, <2>2
<1>6. CASE TakeLock
  BY <1>5, <1>6 DEF TakeLock
<1>7. CASE AddNbr
  BY <1>3, <1>5, <1>7 DEF AddNbr
<1>8. CASE SendCheck
  <2>1. CASE Return
    BY <1>3, <2>1
  <2>2. CASE ~Return
    <3> DEFINE b == FirstFree
               f == [Top EXCEPT !.at = "put", !.b = b]
    <3>1. proc' = <<f>> \o Tail(proc) /\ used # Block
      BY <1>8, <2>2 DEF SendCheck
    <3>2. b \in Block
      BY <3>1, FreeIs DEF Types, PacketTypes, RingTypes, TableTypes, OtherTypes
    <3> HIDE DEF b
    <3>3. f \in Frames /\ f.do = Top.do
      BY <1>2, <3>2 DEF Frames
    <3> HIDE DEF f
    <3> QED
      BY <1>4, <3>1, <3>3
  <2> QED
    BY <2>1, <2>2
<1>9. CASE SendPut
  BY <1>3, <1>9 DEF SendPut
<1>10. CASE FlushTest
  <2>1. CASE Return
    BY <1>3, <2>1
  <2>2. CASE ~Return
    <3> DEFINE g == ring[Top.n].get
               f == [Top EXCEPT !.at = "get", !.g = g]
    <3>1. proc' = <<f>> \o Tail(proc)
      BY <1>10, <2>2 DEF FlushTest
    <3>2. g \in Nat
      BY <1>2, QueueAssumption DEF Types, PacketTypes, RingTypes, TableTypes, OtherTypes, Rings, Frames
    <3> HIDE DEF g
    <3>3. f \in Frames /\ f.do = Top.do
      BY <1>2, <3>2 DEF Frames
    <3> HIDE DEF f
    <3> QED
      BY <1>4, <3>1, <3>3
  <2> QED
    BY <2>1, <2>2
<1>11. CASE FlushGet
  <2> DEFINE b == ring[Top.n].arr[Top.g]
             f == [Top EXCEPT !.at = "call", !.b = b]
  <2>1. proc' = <<f>> \o Tail(proc) /\ Top.do = "flush" /\ Top.at = "get"
    BY <1>11 DEF FlushGet, At
  <2>2. FrameInv(Top) /\ Top.n \in Nbr
    BY <1>1, <1>2, Below DEF CallsInv, Frames
  <2>3. Top.g = ring[Top.n].get
    BY <2>1, <2>2 DEF FrameInv
  <2>4. b \in Block \cup {NoBlock}
    <3>1. ring[Top.n] \in Rings(Ring)
      BY <2>2 DEF Types, PacketTypes, RingTypes, TableTypes, OtherTypes
    <3> QED
      BY <2>3, <3>1 DEF Rings
  <2> HIDE DEF b
  <2>5. f \in Frames /\ f.do = Top.do
    BY <1>2, <2>4 DEF Frames
  <2> HIDE DEF f
  <2> QED
    BY <1>4, <2>1, <2>5
<1>12. CASE FreePacket
  BY <1>5, <1>12 DEF FreePacket
<1>13. CASE PendingPeek
  <2> DEFINE f == [Top EXCEPT !.at = "call", !.b = First(dq)]
             u == [Unused EXCEPT !.rest = known]
  <2>1. Top.do = "pending" /\ proc' \in {<<f>> \o Tail(proc), <<u>> \o Tail(proc), Tail(proc)}
    BY <1>13 DEF PendingPeek, At
  <2>2. First(dq) \in Block \cup {NoBlock}
    BY DEF Types, PacketTypes, RingTypes, TableTypes, OtherTypes, Rings, First
  <2>3. f \in Frames /\ f.do = Top.do
    BY <1>2, <2>2 DEF Frames
  <2>4. u \in Frames /\ u.do = "unused"
    <3>1. known \in SUBSET Nbr /\ Bcast \in Nbr
      BY QueueAssumption DEF Types, PacketTypes, RingTypes, TableTypes, OtherTypes
    <3> QED
      BY <3>1 DEF Unused, Frame, Frames
  <2> HIDE DEF f, u
  <2> QED
    BY <1>3, <1>4, <2>1, <2>3, <2>4 DEF Return
<1>14. CASE PendingGet
  <2> DEFINE f == [Pending EXCEPT !.g = 1]
  <2>1. proc' = <<f>> \o Tail(proc) /\ Top.do = "pending"
    BY <1>14 DEF PendingGet, At
  <2>2. f \in Frames /\ f.do = "pending"
    BY QueueAssumption DEF Pending, Frame, Frames
  <2> HIDE DEF f
  <2> QED
    BY <1>4, <2>1, <2>2
<1>15. CASE UnusedNext
  <2>1. CASE Return
    BY <1>3, <2>1
  <2>2. CASE ~Return
    <3>1. PICK n \in Top.rest :
            proc' = <<[Top EXCEPT !.n = n, !.rest = @ \ {n},
                            !.at = IF IsUnused(n) THEN "lock" ELSE "next"]>> \o Tail(proc)
      BY <1>15, <2>2 DEF UnusedNext
    <3> DEFINE at == IF IsUnused(n) THEN "lock" ELSE "next"
               f == [Top EXCEPT !.n = n, !.rest = @ \ {n}, !.at = at]
    <3>2. at \in {"lock", "next"} /\ n \in Nbr
      BY <1>2 DEF Frames
    <3>3. proc' = <<f>> \o Tail(proc)
      BY <3>1
    <3> HIDE DEF at
    <3>4. f \in Frames /\ f.do = Top.do
      BY <1>2, <3>2 DEF Frames
    <3> HIDE DEF f
    <3> QED
      BY <1>4, <3>3, <3>4
  <2> QED
    BY <2>1, <2>2
<1>16. CASE UnusedUnlock
  BY <1>5, <1>16 DEF UnusedUnlock
<1>17. CASE ResetBackoff
  BY <1>5, <1>17 DEF ResetBackoff
<1> QED
  BY <1>6, <1>7, <1>8, <1>9, <1>10, <1>11, <1>12, <1>13, <1>14, <1>15, <1>16, <1>17

(* Steps with which a call begins, or makes another one. *)
LEMMA StackCalls ==
  ASSUME Types, Stack, CallsInv,
         \/ Callback \/ Poll \/ UnusedRemove \/ Reset \/ ResetNext \/ Associate
         \/ Disassociate \/ Desync
         \/ \E n \in Nbr : Send(n) \/ FreePacketsTo(n)
  PROVE  proc' \in Seq(Frames) /\ Stack'
<1>1. ASSUME NEW f \in Frames, proc = <<>>, proc' = <<f>> \o proc, net' = net, f.do # "reset"
      PROVE  proc' \in Seq(Frames) /\ Stack'
  BY <1>1, TopCalls
<1>2. ASSUME proc' = proc, net' = net \/ proc = <<>> \/ net # "resetting"
      PROVE  proc' \in Seq(Frames) /\ Stack'
  BY <1>2, NoCalls DEF Types, PacketTypes, RingTypes, TableTypes, OtherTypes, Stack, Linked
<1>3. CASE Callback
  <2> DEFINE back == [Top EXCEPT !.at = "free"]
  <2>1. proc # <<>> /\ net' = net /\ Top.do \in {"flush", "pending"}
    BY <1>3 DEF Callback, At
  <2>2. Top \in Frames /\ Tail(proc) \in Seq(Frames)
    BY <2>1, Below
  <2>3. back \in Frames /\ back.do = Top.do /\ back.at = "free"
    BY <2>2 DEF Frames
  <2>4. CASE proc' = <<back>> \o Tail(proc)
    <3> HIDE DEF back
    <3> QED
      BY <2>1, <2>3, <2>4, TopGoesOn
  <2>5. CASE \E n \in Nbr \ Virtual : proc' = <<Sending(n), back>> \o Tail(proc)
    <3>1. PICK n \in Nbr : proc' = <<Sending(n), back>> \o Tail(proc)
      BY <2>5
    <3> DEFINE r == <<back>> \o Tail(proc)
               f == Sending(n)
    <3>2. f \in Frames /\ f.do = "send"
      BY NewCalls DEF Sending, Frame
    <3> HIDE DEF back, f
    <3>3. r \in Seq(Frames) /\ r # <<>> /\ Head(r) = back /\ Calls(r) = {back} \cup Calls(Tail(proc))
      BY <2>2, <2>3, PushIs
    <3>4. proc' = <<f>> \o r
      BY <2>2, <2>3, <3>1, <3>2 DEF f
    <3>5. Linked(r)
      <4>1. Linked(Tail(proc)) /\ (Tail(proc) # <<>> => Over(back, Head(Tail(proc))))
        BY <2>1, <2>3, LinkedTail, Below DEF Stack, Types, Over
      <4> QED
        BY <2>2, <2>3, <4>1, LinkedPush
    <3> HIDE DEF r
    <3>6. Linked(proc')
      BY <2>1, <2>3, <3>2, <3>3, <3>4, <3>5, LinkedPush DEF Over
    <3>7. proc' \in Seq(Frames) /\ Calls(proc') = {f} \cup Calls(r)
      BY <3>2, <3>3, <3>4, PushIs
    <3>8. \A h \in Calls(proc') : h.do = "reset" => net' = "resetting"
      BY <2>1, <2>3, <3>2, <3>3, <3>7, Below DEF Stack
    <3> QED
      BY <3>6, <3>7, <3>8 DEF Stack
  <2> QED
    BY <1>3, <2>4, <2>5 DEF Callback
<1>4. CASE Poll
  <2>1. Pending \in Frames /\ Pending.do # "reset"
    BY QueueAssumption, NewCalls DEF Pending, Frame
  <2> QED
    BY <1>1, <1>4, <2>1 DEF Poll, Call
<1>5. CASE UnusedRemove
  <2>1. proc # <<>> /\ Top.do = "unused" /\ Top.at = "remove" /\ net' = net
    BY <1>5 DEF UnusedRemove, At
  <2>2. Top \in Frames /\ FrameInv(Top)
    BY <2>1, Below DEF CallsInv
  <2>3. IsEmpty(ring[Top.n], Ring)
    BY <2>1, <2>2 DEF FrameInv, IsUnused
  <2> DEFINE f == [Top EXCEPT !.at = "next"]
  <2>4. proc' = <<f>> \o Tail(proc)
    BY <1>5, <2>3 DEF UnusedRemove, Goto
  <2>5. f \in Frames /\ f.do = Top.do
    BY <2>2 DEF Frames
  <2> HIDE DEF f
  <2> QED
    BY <2>1, <2>4, <2>5, TopGoesOn
<1>6. CASE Reset
  <2> DEFINE f == Pending
             g == [Frame("reset", Bcast, "next") EXCEPT !.rest = known]
  <2>1. proc' = <<f, g>> /\ net' = "resetting"
    BY <1>6 DEF Reset
  <2>2. f \in Frames /\ g \in Frames
    BY QueueAssumption, NewCalls DEF Types, PacketTypes, RingTypes, TableTypes, OtherTypes
  <2>3. f.do = "pending" /\ g.do = "reset" /\ g.at = "next"
    BY DEF Pending, Frame
  <2> HIDE DEF f, g
  <2>4. proc' \in Seq(Frames) /\ Len(proc') = 2 /\ proc'[1] = f /\ proc'[2] = g
    BY <2>1, <2>2
  <2>5. Linked(proc')
    BY <2>3, <2>4 DEF Linked, Over
  <2> QED
    BY <2>1, <2>4, <2>5 DEF Stack
<1>7. CASE ResetNext
  <2>1. proc # <<>> /\ Top.do = "reset" /\ Top.at = "next"
    BY <1>7 DEF ResetNext, At
  <2>2. Top \in Frames /\ net = "resetting"
    BY <2>1, Below DEF Stack
  <2>3. CASE net' = net
    <3>1. PICK n \in Top.rest \cap known :
            proc' = <<Flushing(n), [Top EXCEPT !.at = "backoff", !.n = n, !.rest = @ \ {n}]>>
      <4>1. net' # "out"
        BY <2>2, <2>3
      <4> QED
        BY <1>7, <4>1 DEF ResetNext
    <3> DEFINE f == Flushing(n)
               g == [Top EXCEPT !.at = "backoff", !.n = n, !.rest = @ \ {n}]
    <3>2. proc' = <<f, g>>
      BY <2>2, <2>3, <3>1
    <3>3. f \in Frames /\ g \in Frames
      <4>1. n \in Nbr
        BY DEF Types, PacketTypes, RingTypes, TableTypes, OtherTypes
      <4>2. Flushing(n) \in Frames
        BY <4>1, NewCalls
      <4>3. g \in Frames
        BY <2>2, <4>1 DEF Frames
      <4> QED
        BY <4>2, <4>3
    <3>4. f.do = "flush" /\ g.do = "reset" /\ g.at = "backoff"
      BY <2>1, <2>2 DEF Flushing, Frame, Frames
    <3> HIDE DEF f, g
    <3>5. proc' \in Seq(Frames) /\ Len(proc') = 2 /\ proc'[1] = f /\ proc'[2] = g
      BY <3>2, <3>3
    <3>6. Linked(proc')
      BY <3>4, <3>5 DEF Linked, Over
    <3> QED
      BY <2>2, <2>3, <3>5, <3>6 DEF Stack
  <2>4. CASE net' # net
    <3> DEFINE f == [Unused EXCEPT !.rest = known]
    <3>1. proc' = <<f>>
      BY <1>7, <2>4 DEF ResetNext
    <3>2. f \in Frames /\ f.do = "unused"
      <4>1. known \in SUBSET Nbr
        BY DEF Types, PacketTypes, RingTypes, TableTypes, OtherTypes
      <4>2. f \in Frames
        BY <4>1, QueueAssumption, NewCalls
      <4> QED
        BY <4>2 DEF Unused, Frame
    <3> HIDE DEF f
    <3>3. proc' \in Seq(Frames) /\ Len(proc') = 1 /\ proc'[1] = f
      BY <3>1, <3>2
    <3>4. Calls(proc') = {f} /\ Linked(proc')
      BY <3>3 DEF Calls, Linked
    <3> QED
      BY <3>2, <3>3, <3>4 DEF Stack
  <2> QED
    BY <2>3, <2>4
<1>8. CASE Associate \/ Disassociate \/ Desync
  BY <1>2, <1>8 DEF Associate, Disassociate, Desync
<1>9. ASSUME NEW n \in Nbr, Send(n) PROVE proc' \in Seq(Frames) /\ Stack'
  <2>1. Sending(n) \in Frames /\ Sending(n).do # "reset"
    BY NewCalls DEF Sending, Frame
  <2> QED
    BY <1>1, <1>2, <1>9, <2>1 DEF Send, Call
<1>10. ASSUME NEW n \in Nbr, FreePacketsTo(n) PROVE proc' \in Seq(Frames) /\ Stack'
  <2>1. Flushing(n) \in Frames /\ Flushing(n).do # "reset"
    BY NewCalls DEF Flushing, Frame
  <2> QED
    BY <1>1, <1>10, <2>1 DEF FreePacketsTo, Call
<1> QED
  BY <1>3, <1>4, <1>5, <1>6, <1>7, <1>8, <1>9, <1>10

-----------------------------------------------------------------------------
(* The queue that a slot chooses. *)
LEMMA CandidateIs ==
  ASSUME TableTypes, NEW l \in Links, NEW n \in Candidates(l)
  PROVE  n \in Nbr /\ Ready(n, l)
<1> DEFINE own == {i \in 1..Len(l.queues) : Ready(l.queues[i], l)}
           any == {m \in Nbr \ Virtual : ~HasTxLink(m) /\ Ready(m, l)}
<1>1. Candidates(l) = IF own # {} THEN {l.queues[CHOOSE i \in own : \A j \in own : i <= j]}
                      ELSE IF LinkAddr(l) = Bcast THEN any ELSE {}
  BY DEF Candidates
<1>2. CASE own # {}
  <2> DEFINE i == CHOOSE k \in own : \A j \in own : k <= j
             R == OpToRel(<, Nat)
  <2>1. own \subseteq Nat
    OBVIOUS
  <2>2. \E k \in own : \A j \in own : k <= j
    <3> HIDE DEF own
    <3>1. PICK k \in own : \A j \in own : <<j, k>> \notin R
      BY <1>2, <2>1, WFMin, NatLessThanWellFounded
    <3>2. R = {s \in Nat \X Nat : s[1] < s[2]}
      BY Zenon DEF OpToRel
    <3> HIDE DEF R
    <3>3. \A j \in own : ~(j < k)
      BY <2>1, <3>1, <3>2
    <3> QED
      BY <2>1, <3>3
  <2>3. i \in own /\ n = l.queues[i]
    <3>1. n = l.queues[i]
      BY <1>1, <1>2
    <3>2. i \in own
      <4> HIDE DEF own
      <4> QED
        BY <2>2
    <3> QED
      BY <3>1, <3>2
  <2> HIDE DEF i
  <2>4. Ready(n, l)
    BY <2>3
  <2> QED
    BY <2>4 DEF Ready, TableTypes
<1>3. CASE own = {}
  BY <1>1, <1>3
<1> QED
  BY <1>2, <1>3

-----------------------------------------------------------------------------
(***************************************************************************)
(* The types after every step.                                             *)
(***************************************************************************)
(* Which steps change what. *)
LEMMA Changes ==
  ASSUME [Next]_vars
  PROVE  /\ \/ UNCHANGED <<pkt, used>> \/ SlotEnds \/ SendCheck \/ FreePacket
         /\ \/ UNCHANGED ring \/ SlotEnds \/ SendCheck \/ SendPut \/ FlushGet \/ UnusedRemove
         /\ \/ UNCHANGED dq \/ SlotEnds \/ PendingGet
         /\ \/ UNCHANGED known \/ AddNbr \/ UnusedRemove
         /\ \/ UNCHANGED backoff \/ SlotEnds \/ UnusedRemove \/ ResetBackoff
            \/ \E l \in Links : SlotPass(l)
         /\ \/ UNCHANGED slot \/ SlotEnds \/ ResetNext \/ \E l \in Links : SlotBegin(l)
         /\ \/ UNCHANGED <<sent, count>> \/ AddNbr \/ SendCheck \/ Callback
            \/ \E n \in Nbr : Send(n)
         /\ \/ UNCHANGED net \/ Desync \/ Reset \/ ResetNext \/ Associate \/ Disassociate
         /\ \/ UNCHANGED proc
            \/ TakeLock \/ AddNbr \/ SendCheck \/ SendPut \/ FlushTest \/ FlushGet
            \/ FreePacket \/ PendingPeek \/ PendingGet \/ UnusedNext \/ UnusedUnlock
            \/ ResetBackoff
            \/ Callback \/ Poll \/ UnusedRemove \/ Reset \/ ResetNext
            \/ \E n \in Nbr : Send(n) \/ FreePacketsTo(n)
<1>1. CASE UNCHANGED vars
  BY <1>1 DEF vars
<1>2. CASE SlotEnds \/ Desync \/ Associate \/ Disassociate \/ \E l \in Links : SlotPass(l) \/ SlotBegin(l)
  BY <1>2 DEF Desync, Associate, Disassociate, SlotPass, SlotBegin, SlotEnds, SlotEnd
<1>3. CASE TakeLock \/ AddNbr \/ SendCheck \/ SendPut \/ FlushTest \/ FlushGet
  BY <1>3 DEF TakeLock, AddNbr, SendCheck, SendPut, FlushTest, FlushGet
<1>4. CASE Callback \/ FreePacket \/ Poll \/ PendingPeek \/ PendingGet
  BY <1>4 DEF Callback, FreePacket, Poll, PendingPeek, PendingGet
<1>5. CASE UnusedNext \/ UnusedUnlock \/ UnusedRemove \/ Reset \/ ResetNext \/ ResetBackoff
  BY <1>5 DEF UnusedNext, UnusedUnlock, UnusedRemove, Reset, ResetNext, ResetBackoff
<1>6. CASE \E n \in Nbr : Send(n) \/ FreePacketsTo(n)
  BY <1>6 DEF Send, FreePacketsTo
<1> QED
  BY <1>1, <1>2, <1>3, <1>4, <1>5, <1>6 DEF Next, Step

(* The rings are rings, and what is in them is allocated. *)
LEMMA Sizes == Ring \in Nat \ {0} /\ DqRing \in Nat \ {0}
BY QueueAssumption

(* The packet that is being sent. *)
LEMMA Transmits ==
  ASSUME QInv, slot.phase = "tx"
  PROVE  /\ slot.n \in Nbr /\ slot.n \in known /\ slot.b \in Block /\ slot.i \in 0..DqRing - 1
         /\ ring[slot.n] \in Rings(Ring) /\ ~IsEmpty(ring[slot.n], Ring)
         /\ slot.b = First(ring[slot.n]) /\ slot.b \in Queued(slot.n) /\ slot.b \in used
         /\ slot.i = dq.put /\ ~Full(dq, DqRing) /\ dq \in Rings(DqRing)
         /\ net = "joined"
<1>1. /\ slot.n \in known /\ ~IsEmpty(ring[slot.n], Ring) /\ First(ring[slot.n]) = slot.b
      /\ slot.i = dq.put /\ ~Full(dq, DqRing)
  BY DEF QInv, SendsFirst
<1>2. slot.n \in Nbr /\ ring[slot.n] \in Rings(Ring) /\ dq \in Rings(DqRing)
  BY <1>1 DEF QInv, Types, TableTypes, RingTypes
<1>3. slot.b \in Queued(slot.n)
  BY <1>1, <1>2, Sizes, FirstIs DEF Queued
<1>4. slot.b \in used
  <2>1. slot.b \in used \cup Freeing
    BY <1>2, <1>3 DEF QInv, Ownership, AllQueued
  <2>2. slot.b \notin Freeing
    <3> SUFFICES ASSUME slot.b \in Freeing PROVE FALSE
      OBVIOUS
    <3>1. PICK f \in Calls(proc) : Frees(f) /\ f.b = slot.b
      BY DEF Freeing, FreeingIn
    <3>2. f.b = First(dq) /\ ~IsEmpty(dq, DqRing)
      BY <3>1 DEF QInv, CallsInv, FrameInv, Frees
    <3>3. f.b \in Finished
      BY <1>2, <3>2, Sizes, FirstIs DEF Finished
    <3> QED
      BY <1>2, <1>3, <3>1, <3>3 DEF QInv, Ownership
  <2> QED
    BY <2>1, <2>2
<1>5. slot.b \in Block
  BY <1>4 DEF QInv, Types, PacketTypes
<1>6. slot.i \in 0..DqRing - 1
  BY <1>1, <1>2 DEF Rings
<1>7. net = "joined"
  BY DEF QInv, Disturbed
<1> QED
  BY <1>1, <1>2, <1>3, <1>4, <1>5, <1>6, <1>7

LEMMA PacketTypesStep ==
  ASSUME QInv, [Next]_vars
  PROVE  PacketTypes'
<1>1. PacketTypes /\ OtherTypes
  BY DEF QInv, Types
<1>2. CASE UNCHANGED <<pkt, used>>
  BY <1>1, <1>2 DEF PacketTypes
<1>3. ASSUME NEW ok \in BOOLEAN, SlotEnd(ok) PROVE PacketTypes'
  <2> DEFINE p == [pkt[slot.b] EXCEPT !.tx = (@ + 1) % 256]
  <2>1. slot.phase = "tx" /\ pkt' = [pkt EXCEPT ![slot.b] = p] /\ used' = used
    BY <1>3 DEF SlotEnd
  <2>2. pkt[slot.b] \in Rec
    BY <1>1, <2>1, Transmits DEF PacketTypes
  <2>3. (pkt[slot.b].tx + 1) % 256 \in 0..255
    BY <2>2 DEF Rec
  <2>4. p \in Rec
    BY <2>2, <2>3 DEF Rec
  <2> HIDE DEF p
  <2> QED
    BY <1>1, <2>1, <2>4 DEF PacketTypes
<1>4. CASE SendCheck
  <2>1. CASE UNCHANGED <<pkt, used>>
    BY <1>2, <2>1
  <2>2. CASE ~UNCHANGED <<pkt, used>>
    <3> DEFINE b == FirstFree
               p == [id |-> sent, tx |-> 0, to |-> Top.n]
    <3>1. /\ used # Block /\ used' = used \cup {b} /\ pkt' = [pkt EXCEPT ![b] = p]
          /\ proc # <<>>
      BY <1>4, <2>2 DEF SendCheck, At
    <3>2. b \in Block
      BY <1>1, <3>1, FreeIs DEF PacketTypes
    <3>3. Top \in Frames
      BY <3>1, Below DEF QInv
    <3>4. p \in Rec
      BY <1>1, <3>3, QueueAssumption DEF Rec, Frames, OtherTypes
    <3> HIDE DEF b, p
    <3> QED
      BY <1>1, <3>1, <3>2, <3>4 DEF PacketTypes
  <2> QED
    BY <2>1, <2>2
<1>5. CASE FreePacket
  <2>1. used' = used \ {Top.b} /\ pkt' = [pkt EXCEPT ![Top.b] = NoPacket]
    BY <1>5 DEF FreePacket
  <2>2. NoPacket \in Rec
    BY QueueAssumption DEF NoPacket, Rec
  <2> QED
    BY <1>1, <2>1, <2>2 DEF PacketTypes
<1> QED
  BY <1>2, <1>3, <1>4, <1>5, Changes DEF SlotEnds

LEMMA OtherTypesStep ==
  ASSUME QInv, [Next]_vars
  PROVE  OtherTypes'
<1>1. OtherTypes /\ Types /\ MaxSend \in Nat
  BY QueueAssumption DEF QInv, Types
<1>2. locked' \in BOOLEAN
  <2>1. locked' \in {TRUE, FALSE, locked}
    BY DEF Next, Step, vars, SlotPass, SlotBegin, SlotEnds, SlotEnd, Desync, TakeLock, AddNbr,
           SendCheck, SendPut, FlushTest, FlushGet, Callback, FreePacket, Poll, PendingPeek,
           PendingGet, UnusedNext, UnusedUnlock, UnusedRemove, Reset, ResetNext, ResetBackoff,
           Associate, Disassociate, Send, FreePacketsTo
  <2> QED
    BY <1>1, <2>1 DEF OtherTypes
<1>3. slot' \in SlotRecs
  <2>1. CASE UNCHANGED slot \/ SlotEnds \/ ResetNext
    <3>1. slot' \in {slot, Idle, [slot EXCEPT !.l = NoLink]}
      BY <2>1 DEF SlotEnds, SlotEnd, ResetNext
    <3>2. Idle \in SlotRecs
      BY QueueAssumption DEF Idle, SlotRecs
    <3> QED
      BY <1>1, <3>1, <3>2 DEF OtherTypes, SlotRecs
  <2>2. ASSUME NEW l \in Links, SlotBegin(l) PROVE slot' \in SlotRecs
    <3>1. PICK n \in Candidates(l) :
            slot' = [phase |-> "tx", b |-> First(ring[n]), n |-> n, l |-> l, i |-> dq.put]
      BY <2>2 DEF SlotBegin
    <3>2. n \in Nbr
      BY CandidateIs DEF QInv, Types
    <3>3. ring[n] \in Rings(Ring) /\ dq \in Rings(DqRing)
      BY <1>1, <3>2 DEF Types, RingTypes
    <3>4. First(ring[n]) \in Block \cup {NoBlock} /\ dq.put \in Nat
      BY <3>3, QueueAssumption DEF Rings, First
    <3> QED
      BY <3>1, <3>2, <3>4 DEF SlotRecs
  <2> QED
    BY <2>1, <2>2, Changes
<1>4. net' \in {"out", "joined", "leaving", "resetting"}
  BY <1>1, Changes DEF OtherTypes, Desync, Reset, ResetNext, Associate, Disassociate
<1>5. sent' \in 0..MaxSend /\ count' \in [Id -> Nat]
  <2>1. ASSUME NEW x PROVE [count EXCEPT ![x] = @ + 1] \in [Id -> Nat]
    <3>1. count \in [Id -> Nat]
      BY <1>1 DEF OtherTypes
    <3>2. CASE x \in Id
      <4>1. count[x] + 1 \in Nat
        BY <3>1, <3>2
      <4> QED
        BY <3>1, <4>1
    <3>3. CASE x \notin Id
      <4>1. [count EXCEPT ![x] = @ + 1] = count
        BY <3>1, <3>3
      <4> QED
        BY <3>1, <4>1
    <3> QED
      BY <3>2, <3>3
  <2>2. sent' = sent \/ (sent < MaxSend /\ sent' = sent + 1)
    BY Changes DEF AddNbr, SendCheck, Callback, Send, CanSend
  <2>3. count' = count \/ \E x : count' = [count EXCEPT ![x] = @ + 1]
    BY Changes DEF AddNbr, SendCheck, Callback, Send, Report
  <2> QED
    BY <1>1, <2>1, <2>2, <2>3 DEF OtherTypes
<1> QED
  BY <1>2, <1>3, <1>4, <1>5 DEF OtherTypes


-----------------------------------------------------------------------------
(***************************************************************************)
(* The blocks that calls hold, after a step of the innermost one.          *)
(***************************************************************************)
LEMMA SetsOf ==
  ASSUME NEW F, NEW f
  PROVE  /\ FlushedIn({f} \cup F) = (IF Flushes(f) THEN {f.b} ELSE {}) \cup FlushedIn(F)
         /\ StoredIn({f} \cup F) = (IF Stores(f) THEN {f.b} ELSE {}) \cup StoredIn(F)
         /\ FreeingIn({f} \cup F) = (IF Frees(f) THEN {f.b} ELSE {}) \cup FreeingIn(F)
BY DEF FlushedIn, StoredIn, FreeingIn

LEMMA BelowHolds ==
  ASSUME Types, Stack, proc # <<>>
  PROVE  /\ StoredIn(Calls(Tail(proc))) = {} /\ FreeingIn(Calls(Tail(proc))) = {}
         /\ Top.do # "send" => FlushedIn(Calls(Tail(proc))) = {}
BY Below DEF StoredIn, FreeingIn, FlushedIn, Flushes

LEMMA HoldNow ==
  ASSUME Types, Stack, proc # <<>>
  PROVE  /\ Flushed = (IF Flushes(Top) THEN {Top.b} ELSE {}) \cup FlushedIn(Calls(Tail(proc)))
         /\ Stored = IF Stores(Top) THEN {Top.b} ELSE {}
         /\ Freeing = IF Frees(Top) THEN {Top.b} ELSE {}
<1> DEFINE T == Calls(Tail(proc))
<1>1. Calls(proc) = {Top} \cup T /\ StoredIn(T) = {} /\ FreeingIn(T) = {}
  BY Below, BelowHolds
<1> HIDE DEF T
<1>2. Flushed = (IF Flushes(Top) THEN {Top.b} ELSE {}) \cup FlushedIn(T)
  BY <1>1, SetsOf DEF Flushed
<1>3. Stored = IF Stores(Top) THEN {Top.b} ELSE {}
  <2>1. Stored = (IF Stores(Top) THEN {Top.b} ELSE {}) \cup {}
    BY <1>1, SetsOf DEF Stored
  <2> QED
    BY <2>1
<1>4. Freeing = IF Frees(Top) THEN {Top.b} ELSE {}
  <2>1. Freeing = (IF Frees(Top) THEN {Top.b} ELSE {}) \cup {}
    BY <1>1, SetsOf DEF Freeing
  <2> QED
    BY <2>1
<1> QED
  BY <1>2, <1>3, <1>4 DEF T

LEMMA HoldGoesOn ==
  ASSUME Types, Stack, proc # <<>>, NEW f \in Frames, proc' = <<f>> \o Tail(proc)
  PROVE  /\ Flushed' = (IF Flushes(f) THEN {f.b} ELSE {}) \cup FlushedIn(Calls(Tail(proc)))
         /\ Stored' = IF Stores(f) THEN {f.b} ELSE {}
         /\ Freeing' = IF Frees(f) THEN {f.b} ELSE {}
<1> DEFINE T == Calls(Tail(proc))
<1>1. Calls(proc') = {f} \cup T /\ StoredIn(T) = {} /\ FreeingIn(T) = {}
  BY TopGoesOn, BelowHolds
<1> HIDE DEF T
<1>2. Flushed' = (IF Flushes(f) THEN {f.b} ELSE {}) \cup FlushedIn(T)
  BY <1>1, SetsOf DEF Flushed
<1>3. Stored' = IF Stores(f) THEN {f.b} ELSE {}
  <2>1. StoredIn({f} \cup T) = (IF Stores(f) THEN {f.b} ELSE {}) \cup {}
    BY <1>1, SetsOf
  <2>2. Stored' = StoredIn({f} \cup T)
    BY <1>1 DEF Stored
  <2> QED
    BY <2>1, <2>2
<1>4. Freeing' = IF Frees(f) THEN {f.b} ELSE {}
  <2>1. FreeingIn({f} \cup T) = (IF Frees(f) THEN {f.b} ELSE {}) \cup {}
    BY <1>1, SetsOf
  <2>2. Freeing' = FreeingIn({f} \cup T)
    BY <1>1 DEF Freeing
  <2> QED
    BY <2>1, <2>2
<1> QED
  BY <1>2, <1>3, <1>4 DEF T

LEMMA HoldReturns ==
  ASSUME Types, Stack, proc # <<>>, proc' = Tail(proc)
  PROVE  Flushed' = FlushedIn(Calls(Tail(proc))) /\ Stored' = {} /\ Freeing' = {}
BY BelowHolds DEF Flushed, Stored, Freeing

LEMMA HoldCalls ==
  ASSUME Types, Stack, NEW f \in Frames, proc' = <<f>> \o proc,
         ~Flushes(f), ~Stores(f), ~Frees(f)
  PROVE  Flushed' = Flushed /\ Stored' = Stored /\ Freeing' = Freeing
<1>1. Calls(proc') = {f} \cup Calls(proc)
  BY TopCalls
<1>2. /\ FlushedIn({f} \cup Calls(proc)) = FlushedIn(Calls(proc))
      /\ StoredIn({f} \cup Calls(proc)) = StoredIn(Calls(proc))
      /\ FreeingIn({f} \cup Calls(proc)) = FreeingIn(Calls(proc))
  BY DEF FlushedIn, StoredIn, FreeingIn
<1> QED
  BY <1>1, <1>2 DEF Flushed, Stored, Freeing

(* What calls further out have found out, once the innermost one is over.  *)
LEMMA BelowSteady ==
  ASSUME Types, Stack, CallsInv, proc # <<>>,
         Top.do = "send" => known \subseteq known' /\ dq' = dq
  PROVE  \A f \in Calls(Tail(proc)) : FrameInv(f)'
<1> SUFFICES ASSUME NEW f \in Calls(Tail(proc)) PROVE FrameInv(f)'
  OBVIOUS
<1>1. /\ f.do \in {"flush", "pending", "reset"}
      /\ f.do \in {"flush", "pending"} => f.at = "free" /\ Top.do = "send"
      /\ FrameInv(f)
  BY Below DEF CallsInv
<1> QED
  BY <1>1 DEF FrameInv

(* No slot sends from the queue that is flushed. *)
LEMMA FlushApart ==
  ASSUME QInv, slot.phase = "tx", proc # <<>>, Top.do = "flush"
  PROVE  Top.n # slot.n
<1>1. Types /\ Stack /\ ~Disturbed /\ proc \in Seq(Frames)
  BY DEF QInv, Types
<1>2. CASE Tail(proc) = <<>>
  <2>1. Len(proc) = 1 /\ proc[Len(proc)] = Top
    <3> DEFINE m == Len(proc)
    <3>1. proc[1] = Top /\ m \in Nat /\ Len(Tail(proc)) = m - 1
      BY <1>1, TopIs DEF Top
    <3>2. 0 = m - 1
      BY <1>2, <3>1
    <3> HIDE DEF m
    <3>3. m = 1
      BY <3>1, <3>2
    <3> QED
      BY <3>1, <3>3 DEF m
  <2> QED
    BY <1>1, <2>1 DEF Disturbed
<1>3. CASE Tail(proc) # <<>>
  <2>1. Head(Tail(proc)).do = "reset" /\ Tail(proc) \in Seq(Frames)
    BY <1>1, <1>3, Below DEF Over
  <2>2. Head(Tail(proc)) \in Calls(proc)
    <3>1. Head(Tail(proc)) \in Calls(Tail(proc))
      BY <1>3, <2>1, TopIs
    <3> QED
      BY <1>1, <3>1, Below
  <2>3. net = "resetting"
    BY <1>1, <2>1, <2>2 DEF Stack
  <2> QED
    BY <1>1, <2>3 DEF Disturbed
<1> QED
  BY <1>2, <1>3


(* The stack after a step, as far as the invariant speaks of it.           *)
LEMMA GoesOn ==
  ASSUME Types, Stack, CallsInv, proc # <<>>, NEW f \in Frames, proc' = <<f>> \o Tail(proc),
         FrameInv(f)', Top.do = "send" => known \subseteq known' /\ dq' = dq
  PROVE  CallsInv'
<1>1. Calls(proc') = {f} \cup Calls(Tail(proc))
  BY TopGoesOn
<1>2. \A h \in Calls(Tail(proc)) : FrameInv(h)'
  BY BelowSteady
<1>3. \A h \in Calls(proc') : FrameInv(h)'
  BY <1>1, <1>2
<1> QED
  BY <1>3 DEF CallsInv

LEMMA GoesBack ==
  ASSUME Types, Stack, CallsInv, proc # <<>>, proc' = Tail(proc),
         Top.do = "send" => known \subseteq known' /\ dq' = dq
  PROVE  CallsInv'
<1>1. \A h \in Calls(Tail(proc)) : FrameInv(h)'
  BY BelowSteady
<1> QED
  BY <1>1 DEF CallsInv

LEMMA GoesDown ==
  ASSUME Types, Stack, CallsInv, NEW f \in Frames, proc' = <<f>> \o proc, FrameInv(f)',
         UNCHANGED <<ring, dq, known>>, sent' >= sent, sent \in Nat, sent' \in Nat
  PROVE  CallsInv'
<1>1. Calls(proc') = {f} \cup Calls(proc)
  BY TopCalls
<1>2. ASSUME NEW h \in Calls(proc) PROVE FrameInv(h)'
  <2>1. FrameInv(h)
    BY DEF CallsInv
  <2> QED
    BY <2>1 DEF FrameInv, IsUnused
<1>3. \A h \in Calls(proc') : FrameInv(h)'
  BY <1>1, <1>2
<1> QED
  BY <1>3 DEF CallsInv

LEMMA QueuedIn ==
  ASSUME NEW x
  PROVE  /\ x \in AllQueued <=> \E n \in Nbr : x \in Queued(n)
         /\ x \in AllQueued' <=> \E n \in Nbr : x \in Queued(n)'
BY DEF AllQueued

LEMMA OwnershipSame ==
  ASSUME Ownership, UNCHANGED <<ring, dq, used>>,
         Flushed' = Flushed, Stored' = Stored, Freeing' = Freeing
  PROVE  Ownership'
BY DEF Ownership, AllQueued, Queued, Finished

(* A step of a call that takes and leaves no block. *)
LEMMA NothingHeld ==
  ASSUME Types, Stack, Ownership, proc # <<>>, UNCHANGED <<ring, dq, used>>,
         ~Stores(Top), ~Frees(Top),
         \/ ~Flushes(Top) /\ proc' = Tail(proc)
         \/ \E f \in Frames : /\ proc' = <<f>> \o Tail(proc) /\ ~Stores(f) /\ ~Frees(f)
                              /\ Flushes(f) <=> Flushes(Top)
                              /\ Flushes(f) => f.b = Top.b
  PROVE  Ownership' /\ Stored' = Stored
<1>1. /\ Flushed = (IF Flushes(Top) THEN {Top.b} ELSE {}) \cup FlushedIn(Calls(Tail(proc)))
      /\ Stored = {} /\ Freeing = {}
  BY HoldNow
<1>2. CASE ~Flushes(Top) /\ proc' = Tail(proc)
  <2>1. Flushed' = Flushed /\ Stored' = Stored /\ Freeing' = Freeing
    BY <1>1, <1>2, HoldReturns
  <2> QED
    BY <2>1, OwnershipSame
<1>3. ASSUME NEW f \in Frames, proc' = <<f>> \o Tail(proc), ~Stores(f), ~Frees(f),
             Flushes(f) <=> Flushes(Top), Flushes(f) => f.b = Top.b
      PROVE  Ownership' /\ Stored' = Stored
  <2>1. /\ Flushed' = (IF Flushes(f) THEN {f.b} ELSE {}) \cup FlushedIn(Calls(Tail(proc)))
        /\ Stored' = {} /\ Freeing' = {}
    BY <1>3, HoldGoesOn
  <2>2. Flushed' = Flushed
    BY <1>1, <1>3, <2>1
  <2> QED
    BY <1>1, <2>1, <2>2, OwnershipSame
<1> QED
  BY <1>2, <1>3

Steady == RingTypes /\ CallsInv /\ Ownership

(* Steady, and no call begins or ends to store a block. *)
Calm == Steady' /\ Stored' = Stored

LEMMA QuietStep ==
  ASSUME QInv,
         \/ TakeLock \/ AddNbr \/ FlushTest \/ PendingPeek \/ UnusedNext \/ UnusedUnlock
         \/ ResetBackoff
  PROVE  Calm
<1>1. Types /\ Stack /\ CallsInv /\ Ownership /\ proc # <<>> /\ UNCHANGED <<ring, dq, used>>
  BY DEF QInv, TakeLock, WantsLock, AddNbr, FlushTest, PendingPeek, UnusedNext, UnusedUnlock,
         ResetBackoff, At
<1>2. RingTypes'
  BY <1>1 DEF Types, RingTypes
<1>3. Top \in Frames /\ FrameInv(Top) /\ Tail(proc) \in Seq(Frames)
  BY <1>1, Below DEF CallsInv
<1>4. ASSUME ~Stores(Top), ~Frees(Top), ~Flushes(Top), Return, known \subseteq known'
      PROVE  Calm
  BY <1>1, <1>2, <1>4, GoesBack, NothingHeld DEF Return, Steady, Calm
<1>5. ASSUME NEW f \in Frames, ~Stores(Top), ~Frees(Top), ~Flushes(Top), known \subseteq known',
             proc' = <<f>> \o Tail(proc), ~Stores(f), ~Frees(f), ~Flushes(f), FrameInv(f)'
      PROVE  Calm
  <2>1. CallsInv'
    BY <1>1, <1>5, GoesOn
  <2>2. Ownership' /\ Stored' = Stored
    BY <1>1, <1>5, NothingHeld
  <2> QED
    BY <1>2, <2>1, <2>2 DEF Steady, Calm
<1>6. CASE TakeLock
  <2>1. PICK f : f = [Top EXCEPT !.at = "locked"]
    OBVIOUS
  <2>2. f \in Frames /\ f.do = Top.do /\ f.n = Top.n /\ f.at = "locked"
    BY <1>3, <2>1 DEF Frames
  <2>3. Top.at = "lock" /\ proc' = <<f>> \o Tail(proc) /\ UNCHANGED <<known, sent>>
    BY <1>6, <2>1 DEF TakeLock, WantsLock, Goto, Top
  <2>4. FrameInv(f)'
    BY <1>1, <1>3, <2>2, <2>3 DEF FrameInv, IsUnused, Frames
  <2> QED
    BY <1>5, <2>2, <2>3, <2>4 DEF Stores, Frees, Flushes
<1>7. CASE AddNbr
  <2>1. Top.do = "send" /\ Top.at = "locked" /\ sent' = sent
    BY <1>7 DEF AddNbr, At
  <2>2. CASE Return /\ known' = known
    BY <1>4, <2>1, <2>2 DEF Stores, Frees, Flushes
  <2>3. CASE known' = known \cup {Top.n} /\ Goto("check")
    <3>1. PICK f : f = [Top EXCEPT !.at = "check"]
      OBVIOUS
    <3>2. f \in Frames /\ f.do = Top.do /\ f.n = Top.n /\ f.at = "check"
      BY <1>3, <3>1 DEF Frames
    <3>3. proc' = <<f>> \o Tail(proc) /\ known \subseteq known'
      BY <2>3, <3>1 DEF Goto
    <3>4. FrameInv(f)'
      BY <1>1, <1>3, <2>1, <2>3, <3>2 DEF FrameInv
    <3> QED
      BY <1>5, <2>1, <3>2, <3>3, <3>4 DEF Stores, Frees, Flushes
  <2> QED
    BY <1>7, <2>2, <2>3 DEF AddNbr
<1>8. CASE FlushTest
  <2>1. Top.do = "flush" /\ Top.at = "test" /\ known' = known
    BY <1>8 DEF FlushTest, At
  <2>2. CASE Return
    BY <1>4, <2>1, <2>2 DEF Stores, Frees, Flushes
  <2>3. CASE ~Return
    <3>1. PICK f : f = [Top EXCEPT !.at = "get", !.g = ring[Top.n].get]
      OBVIOUS
    <3>2. proc' = <<f>> \o Tail(proc) /\ ~IsEmpty(ring[Top.n], Ring)
      BY <1>8, <2>3, <3>1 DEF FlushTest
    <3>3. ring[Top.n].get \in Nat
      BY <1>1, <1>3, Sizes DEF Types, RingTypes, Rings, Frames
    <3>4. f \in Frames /\ f.do = Top.do /\ f.n = Top.n /\ f.at = "get" /\ f.g = ring[Top.n].get
      BY <1>3, <3>1, <3>3 DEF Frames
    <3>5. FrameInv(f)'
      BY <1>1, <1>3, <2>1, <3>2, <3>4 DEF FrameInv
    <3> QED
      BY <1>5, <2>1, <3>2, <3>4, <3>5 DEF Stores, Frees, Flushes
  <2> QED
    BY <2>2, <2>3
<1>9. CASE PendingPeek
  <2>1. Top.do = "pending" /\ Top.at = "peek" /\ known' = known
    BY <1>9 DEF PendingPeek, At
  <2>2. PICK f : f = [Top EXCEPT !.at = "call", !.b = First(dq)]
    OBVIOUS
  <2>3. PICK u : u = [Unused EXCEPT !.rest = known]
    OBVIOUS
  <2>4. CASE ~IsEmpty(dq, DqRing) /\ proc' = <<f>> \o Tail(proc)
    <3>1. First(dq) \in Block \cup {NoBlock}
      BY <1>1 DEF Types, RingTypes, Rings, First
    <3>2. f \in Frames /\ f.do = "pending" /\ f.at = "call" /\ f.b = First(dq)
      BY <1>3, <2>1, <2>2, <3>1 DEF Frames
    <3>3. FrameInv(f)'
      BY <1>1, <2>4, <3>2 DEF FrameInv
    <3> QED
      BY <1>5, <2>1, <2>4, <3>2, <3>3 DEF Stores, Frees, Flushes
  <2>5. CASE proc' = <<u>> \o Tail(proc)
    <3>1. known \in SUBSET Nbr
      BY <1>1 DEF Types, TableTypes
    <3>2. u \in Frames /\ u.do = "unused" /\ u.at = "next"
      BY <2>3, <3>1, QueueAssumption DEF Unused, Frame, Frames
    <3>3. FrameInv(u)'
      BY <3>2 DEF FrameInv
    <3> QED
      BY <1>5, <2>1, <2>5, <3>2, <3>3 DEF Stores, Frees, Flushes
  <2>6. CASE Return
    BY <1>4, <2>1, <2>6 DEF Stores, Frees, Flushes
  <2> QED
    BY <1>9, <2>2, <2>3, <2>4, <2>5, <2>6 DEF PendingPeek, Return
<1>10. CASE UnusedNext
  <2>1. Top.do = "unused" /\ Top.at = "next" /\ known' = known
    BY <1>10 DEF UnusedNext, At
  <2>2. CASE Return
    BY <1>4, <2>1, <2>2 DEF Stores, Frees, Flushes
  <2>3. CASE ~Return
    <3>1. PICK n \in Top.rest :
            proc' = <<[Top EXCEPT !.n = n, !.rest = @ \ {n},
                            !.at = IF IsUnused(n) THEN "lock" ELSE "next"]>> \o Tail(proc)
      BY <1>10, <2>3 DEF UnusedNext
    <3>2. PICK at : at = IF IsUnused(n) THEN "lock" ELSE "next"
      OBVIOUS
    <3>3. PICK f : f = [Top EXCEPT !.n = n, !.rest = @ \ {n}, !.at = at]
      OBVIOUS
    <3>4. n \in Nbr /\ at \in {"lock", "next"}
      BY <1>3, <3>2 DEF Frames
    <3>5. f \in Frames /\ f.do = "unused" /\ f.n = n /\ f.at = at
      BY <1>3, <2>1, <3>3, <3>4 DEF Frames
    <3>6. proc' = <<f>> \o Tail(proc)
      BY <3>1, <3>2, <3>3
    <3>7. at = "lock" => IsUnused(n)'
      BY <1>1, <3>2 DEF IsUnused
    <3>8. FrameInv(f)'
      BY <3>4, <3>5, <3>7 DEF FrameInv
    <3> QED
      BY <1>5, <2>1, <3>5, <3>6, <3>8 DEF Stores, Frees, Flushes
  <2> QED
    BY <2>2, <2>3
<1>11. CASE UnusedUnlock
  <2>1. Top.do = "unused" /\ Top.at = "locked" /\ known' = known
    BY <1>11 DEF UnusedUnlock, At
  <2>2. PICK f : f = [Top EXCEPT !.at = "remove"]
    OBVIOUS
  <2>3. f \in Frames /\ f.do = "unused" /\ f.n = Top.n /\ f.at = "remove"
    BY <1>3, <2>1, <2>2 DEF Frames
  <2>4. proc' = <<f>> \o Tail(proc)
    BY <1>11, <2>2 DEF UnusedUnlock, Goto
  <2>5. FrameInv(f)'
    BY <1>1, <1>3, <2>1, <2>3 DEF FrameInv, IsUnused
  <2> QED
    BY <1>5, <2>1, <2>3, <2>4, <2>5 DEF Stores, Frees, Flushes
<1>12. CASE ResetBackoff
  <2>1. Top.do = "reset" /\ Top.at = "backoff" /\ known' = known
    BY <1>12 DEF ResetBackoff, At
  <2>2. PICK f : f = [Top EXCEPT !.at = "next"]
    OBVIOUS
  <2>3. f \in Frames /\ f.do = "reset" /\ f.at = "next"
    BY <1>3, <2>1, <2>2 DEF Frames
  <2>4. proc' = <<f>> \o Tail(proc)
    BY <1>12, <2>2 DEF ResetBackoff, Goto
  <2>5. FrameInv(f)'
    BY <2>3 DEF FrameInv
  <2> QED
    BY <1>5, <2>1, <2>3, <2>4, <2>5 DEF Stores, Frees, Flushes
<1> QED
  BY <1>6, <1>7, <1>8, <1>9, <1>10, <1>11, <1>12


(* A stack of calls none of which holds a block. *)
LEMMA FreshCalls ==
  ASSUME Types, Ownership, UNCHANGED <<ring, dq, used>>,
         Flushed = {}, Stored = {}, Freeing = {},
         \A h \in Calls(proc') : FrameInv(h)' /\ ~Stores(h) /\ ~Frees(h) /\ ~Flushes(h)
  PROVE  Calm
<1>1. Flushed' = {} /\ Stored' = {} /\ Freeing' = {}
  BY DEF Flushed, Stored, Freeing, FlushedIn, StoredIn, FreeingIn
<1>2. Ownership'
  BY <1>1, OwnershipSame
<1>3. CallsInv'
  BY DEF CallsInv
<1>4. RingTypes'
  BY DEF Types, RingTypes
<1> QED
  BY <1>1, <1>2, <1>3, <1>4 DEF Steady, Calm

LEMMA HoldNone ==
  ASSUME proc = <<>>
  PROVE  Flushed = {} /\ Stored = {} /\ Freeing = {}
BY NoCalls DEF Flushed, Stored, Freeing, FlushedIn, StoredIn, FreeingIn

LEMMA CallsOf ==
  ASSUME NEW f \in Frames, NEW g \in Frames
  PROVE  Calls(<<f>>) = {f} /\ Calls(<<f, g>>) = {f, g}
<1>1. Calls(<<f>>) = {f}
  <2> DEFINE s == <<f>>
  <2>1. Len(s) = 1 /\ s[1] = f
    OBVIOUS
  <2> HIDE DEF s
  <2> QED
    BY <2>1 DEF Calls, s
<1>2. Calls(<<f, g>>) = {f, g}
  <2> DEFINE s == <<f, g>>
  <2>1. Len(s) = 2 /\ s[1] = f /\ s[2] = g
    OBVIOUS
  <2> HIDE DEF s
  <2>2. {f, g} \subseteq Calls(s)
    BY <2>1 DEF Calls
  <2>3. Calls(s) \subseteq {f, g}
    BY <2>1 DEF Calls
  <2>4. Calls(s) = {f, g}
    BY <2>2, <2>3
  <2> QED
    BY <2>4 DEF s
<1> QED
  BY <1>1, <1>2

LEMMA CallStep ==
  ASSUME QInv, Poll \/ Reset \/ ResetNext \/ \E n \in Nbr : Send(n) \/ FreePacketsTo(n)
  PROVE  Calm
<1>1. Types /\ Stack /\ CallsInv /\ Ownership
  BY DEF QInv
<1>2. known \in SUBSET Nbr /\ sent \in Nat /\ MaxSend \in Nat
  BY <1>1, QueueAssumption DEF Types, TableTypes, OtherTypes
<1>3. ASSUME NEW f \in Frames, proc = <<>>, proc' = <<f>> \o proc, UNCHANGED <<ring, dq, used>>,
             FrameInv(f)', ~Stores(f), ~Frees(f), ~Flushes(f)
      PROVE  Calm
  <2>1. Calls(proc') = {f}
    BY <1>1, <1>3, TopCalls, NoCalls
  <2> QED
    BY <1>1, <1>3, <2>1, HoldNone, FreshCalls
<1>4. ASSUME NEW f \in Frames, NEW g \in Frames, proc' = <<f, g>>, UNCHANGED <<ring, dq, used>>,
             Flushed = {}, Stored = {}, Freeing = {}, FrameInv(f)', FrameInv(g)',
             ~Stores(f), ~Frees(f), ~Flushes(f), ~Stores(g), ~Frees(g), ~Flushes(g)
      PROVE  Calm
  <2>1. Calls(proc') = {f, g}
    BY <1>4, CallsOf
  <2> QED
    BY <1>1, <1>4, <2>1, FreshCalls
<1>5. CASE Poll
  <2>1. PICK f : f = Pending
    OBVIOUS
  <2>2. f \in Frames /\ f.do = "pending" /\ f.at = "peek"
    BY <2>1, QueueAssumption, NewCalls DEF Pending, Frame
  <2>3. FrameInv(f)'
    BY <2>2 DEF FrameInv
  <2> QED
    BY <1>3, <1>5, <2>1, <2>2, <2>3 DEF Poll, Call, Stores, Frees, Flushes
<1>6. CASE Reset
  <2>1. PICK f : f = Pending
    OBVIOUS
  <2>2. PICK g : g = [Frame("reset", Bcast, "next") EXCEPT !.rest = known]
    OBVIOUS
  <2>3. f \in Frames /\ f.do = "pending" /\ f.at = "peek"
    BY <2>1, QueueAssumption, NewCalls DEF Pending, Frame
  <2>4. g \in Frames /\ g.do = "reset" /\ g.at = "next"
    BY <1>2, <2>2, QueueAssumption DEF Frame, Frames
  <2>5. FrameInv(f)' /\ FrameInv(g)'
    BY <2>3, <2>4 DEF FrameInv
  <2>6. proc = <<>> /\ proc' = <<f, g>> /\ UNCHANGED <<ring, dq, used>>
    BY <1>6, <2>1, <2>2 DEF Reset
  <2> QED
    BY <1>4, <2>3, <2>4, <2>5, <2>6, HoldNone DEF Stores, Frees, Flushes
<1>7. CASE ResetNext
  <2>1. /\ proc # <<>> /\ Top.do = "reset" /\ Top.at = "next"
        /\ UNCHANGED <<ring, dq, used, known>>
    BY <1>7 DEF ResetNext, At
  <2>2. Top \in Frames /\ Flushed = {} /\ Stored = {} /\ Freeing = {}
    <3>1. ~Flushes(Top) /\ ~Stores(Top) /\ ~Frees(Top)
      BY <2>1 DEF Flushes, Stores, Frees
    <3>2. Flushed = {} \cup FlushedIn(Calls(Tail(proc))) /\ FlushedIn(Calls(Tail(proc))) = {}
      BY <1>1, <2>1, <3>1, HoldNow, BelowHolds
    <3> QED
      BY <1>1, <2>1, <3>1, <3>2, Below, HoldNow
  <2>3. ASSUME NEW n \in known,
               proc' = <<Flushing(n), [Top EXCEPT !.at = "backoff", !.n = n, !.rest = @ \ {n}]>>
        PROVE  Calm
    <3>1. PICK f : f = Flushing(n)
      OBVIOUS
    <3>2. PICK g : g = [Top EXCEPT !.at = "backoff", !.n = n, !.rest = @ \ {n}]
      OBVIOUS
    <3>3. f \in Frames /\ f.do = "flush" /\ f.at = "test" /\ f.n = n
      BY <1>2, <3>1, NewCalls DEF Flushing, Frame
    <3>4. g \in Frames /\ g.do = "reset" /\ g.at = "backoff"
      BY <1>2, <2>1, <2>2, <3>2 DEF Frames
    <3>5. FrameInv(f)' /\ FrameInv(g)'
      BY <2>1, <3>3, <3>4 DEF FrameInv
    <3>6. proc' = <<f, g>>
      BY <2>3, <3>1, <3>2
    <3> QED
      BY <1>4, <2>1, <2>2, <3>3, <3>4, <3>5, <3>6 DEF Stores, Frees, Flushes
  <2>4. CASE proc' = <<[Unused EXCEPT !.rest = known]>>
    <3>1. PICK f : f = [Unused EXCEPT !.rest = known]
      OBVIOUS
    <3>2. f \in Frames /\ f.do = "unused" /\ f.at = "next"
      BY <1>2, <3>1, QueueAssumption DEF Unused, Frame, Frames
    <3>3. FrameInv(f)'
      BY <3>2 DEF FrameInv
    <3>4. Calls(proc') = {f}
      BY <2>4, <3>1, <3>2, CallsOf
    <3> QED
      BY <1>1, <2>1, <2>2, <3>2, <3>3, <3>4, FreshCalls DEF Stores, Frees, Flushes
  <2> QED
    BY <1>7, <2>3, <2>4 DEF ResetNext
<1>8. ASSUME NEW n \in Nbr, Send(n) PROVE Calm
  <2>1. proc = <<>> /\ UNCHANGED <<ring, dq, used, known>> /\ sent' = sent + 1
    BY <1>8 DEF Send
  <2>2. CASE proc' = proc
    <3>1. Calls(proc') = {}
      BY <2>1, <2>2, NoCalls
    <3> QED
      BY <1>1, <2>1, <3>1, HoldNone, FreshCalls
  <2>3. CASE Call(Sending(n))
    <3>1. PICK f : f = Sending(n)
      OBVIOUS
    <3>2. /\ f \in Frames /\ f.do = "send" /\ f.n = n /\ f.at \in {"check", "lock"}
          /\ f.at = "check" => n \in known
      BY <3>1, NewCalls DEF Sending, Frame
    <3>3. FrameInv(f)'
      BY <1>2, <2>1, <3>2 DEF FrameInv
    <3> QED
      BY <1>3, <2>1, <2>3, <3>1, <3>2, <3>3 DEF Call, Stores, Frees, Flushes
  <2> QED
    BY <1>8, <2>2, <2>3 DEF Send
<1>9. ASSUME NEW n \in Nbr, FreePacketsTo(n) PROVE Calm
  <2>1. PICK f : f = Flushing(n)
    OBVIOUS
  <2>2. f \in Frames /\ f.do = "flush" /\ f.at = "test" /\ f.n = n
    BY <2>1, NewCalls DEF Flushing, Frame
  <2>3. proc = <<>> /\ proc' = <<f>> \o proc /\ n \in known /\ UNCHANGED <<ring, dq, used, known>>
    BY <1>9, <2>1 DEF FreePacketsTo, Call
  <2>4. FrameInv(f)'
    BY <2>2, <2>3 DEF FrameInv
  <2> QED
    BY <1>3, <2>2, <2>3, <2>4 DEF Stores, Frees, Flushes
<1> QED
  BY <1>5, <1>6, <1>7, <1>8, <1>9

(* The sent callback of a packet, which may send another one. *)
LEMMA CallbackStep ==
  ASSUME QInv, Callback
  PROVE  Calm
<1>1. Types /\ Stack /\ CallsInv /\ Ownership
  BY DEF QInv
<1>2. /\ proc # <<>> /\ Top.do \in {"flush", "pending"} /\ Top.at = "call"
      /\ UNCHANGED <<ring, dq, used, known>>
  BY DEF Callback, At
<1>3. Top \in Frames /\ FrameInv(Top) /\ Tail(proc) \in Seq(Frames) /\ sent \in Nat
  BY <1>1, <1>2, Below, QueueAssumption DEF CallsInv, Types, OtherTypes
<1>4. RingTypes'
  BY <1>1, <1>2 DEF Types, RingTypes
<1>5. PICK f : f = [Top EXCEPT !.at = "free"]
  OBVIOUS
<1>6. f \in Frames /\ f.do = Top.do /\ f.n = Top.n /\ f.b = Top.b /\ f.at = "free"
  BY <1>3, <1>5 DEF Frames
<1>7. FrameInv(f)'
  BY <1>2, <1>3, <1>6 DEF FrameInv
<1>8. CASE proc' = <<f>> \o Tail(proc)
  <2>1. CallsInv'
    BY <1>1, <1>2, <1>6, <1>7, <1>8, GoesOn
  <2>2. Ownership' /\ Stored' = Stored
    BY <1>1, <1>2, <1>6, <1>8, NothingHeld DEF Stores, Frees, Flushes
  <2> QED
    BY <1>4, <2>1, <2>2 DEF Steady, Calm
<1>9. ASSUME NEW n \in Nbr, proc' = <<Sending(n), f>> \o Tail(proc), sent' = sent + 1
      PROVE  Calm
  <2>1. PICK g : g = Sending(n)
    OBVIOUS
  <2>2. /\ g \in Frames /\ g.do = "send" /\ g.n = n /\ g.at \in {"check", "lock"}
        /\ g.at = "check" => n \in known
    BY <2>1, NewCalls DEF Sending, Frame
  <2>3. FrameInv(g)'
    BY <1>2, <1>3, <1>9, <2>2 DEF FrameInv
  <2>4. Calls(proc') = {g} \cup ({f} \cup Calls(Tail(proc)))
    <3>1. proc' = <<g>> \o (<<f>> \o Tail(proc))
      BY <1>3, <1>6, <1>9, <2>1, <2>2
    <3>2. <<f>> \o Tail(proc) \in Seq(Frames) /\ Calls(<<f>> \o Tail(proc)) = {f} \cup Calls(Tail(proc))
      BY <1>3, <1>6, PushIs
    <3> QED
      BY <2>2, <3>1, <3>2, PushIs
  <2>5. CallsInv'
    <3>1. \A h \in Calls(Tail(proc)) : FrameInv(h)'
      BY <1>1, <1>2, BelowSteady
    <3>2. \A h \in Calls(proc') : FrameInv(h)'
      BY <1>7, <2>3, <2>4, <3>1
    <3> QED
      BY <3>2 DEF CallsInv
  <2>6. Flushed' = Flushed /\ Stored' = Stored /\ Freeing' = Freeing
    <3> DEFINE T == Calls(Tail(proc))
               X == {f} \cup T
    <3>1. Calls(proc) = {Top} \cup T
      BY <1>1, <1>2, Below
    <3>2. Calls(proc') = {g} \cup ({f} \cup T)
      BY <2>4
    <3> HIDE DEF T, X
    <3>3. /\ ~Stores(Top) /\ ~Frees(Top) /\ ~Stores(f) /\ ~Frees(f)
          /\ ~Stores(g) /\ ~Frees(g) /\ ~Flushes(g) /\ (Flushes(f) <=> Flushes(Top))
      BY <1>2, <1>6, <2>2 DEF Stores, Frees, Flushes
    <3>4. FlushedIn({g} \cup ({f} \cup T)) = FlushedIn({Top} \cup T)
      <4>1. FlushedIn({g} \cup X) = (IF Flushes(g) THEN {g.b} ELSE {}) \cup FlushedIn(X)
        BY SetsOf
      <4>2. /\ FlushedIn(X) = (IF Flushes(f) THEN {f.b} ELSE {}) \cup FlushedIn(T)
            /\ FlushedIn({Top} \cup T) = (IF Flushes(Top) THEN {Top.b} ELSE {}) \cup FlushedIn(T)
        BY SetsOf DEF X
      <4>3. (IF Flushes(f) THEN {f.b} ELSE {}) = (IF Flushes(Top) THEN {Top.b} ELSE {})
        BY <1>6, <3>3
      <4>4. FlushedIn({g} \cup X) = FlushedIn(X)
        BY <3>3, <4>1
      <4> QED
        BY <4>2, <4>3, <4>4 DEF X
    <3>5. StoredIn({g} \cup ({f} \cup T)) = StoredIn({Top} \cup T)
      <4>1. StoredIn({g} \cup X) = (IF Stores(g) THEN {g.b} ELSE {}) \cup StoredIn(X)
        BY SetsOf
      <4>2. /\ StoredIn(X) = (IF Stores(f) THEN {f.b} ELSE {}) \cup StoredIn(T)
            /\ StoredIn({Top} \cup T) = (IF Stores(Top) THEN {Top.b} ELSE {}) \cup StoredIn(T)
        BY SetsOf DEF X
      <4> QED
        BY <1>6, <3>3, <4>1, <4>2 DEF X
    <3>6. FreeingIn({g} \cup ({f} \cup T)) = FreeingIn({Top} \cup T)
      <4>1. FreeingIn({g} \cup X) = (IF Frees(g) THEN {g.b} ELSE {}) \cup FreeingIn(X)
        BY SetsOf
      <4>2. /\ FreeingIn(X) = (IF Frees(f) THEN {f.b} ELSE {}) \cup FreeingIn(T)
            /\ FreeingIn({Top} \cup T) = (IF Frees(Top) THEN {Top.b} ELSE {}) \cup FreeingIn(T)
        BY SetsOf DEF X
      <4> QED
        BY <1>6, <3>3, <4>1, <4>2 DEF X
    <3> QED
      BY <3>1, <3>2, <3>4, <3>5, <3>6 DEF Flushed, Stored, Freeing
  <2>7. Ownership'
    BY <1>1, <1>2, <2>6, OwnershipSame
  <2> QED
    BY <1>4, <2>5, <2>6, <2>7 DEF Steady, Calm
<1> QED
  BY <1>5, <1>8, <1>9 DEF Callback


-----------------------------------------------------------------------------
(***************************************************************************)
(* The steps that move blocks.                                             *)
(***************************************************************************)
LEMMA SendCheckStep ==
  ASSUME QInv, SendCheck
  PROVE  /\ Steady'
         /\ \/ Return /\ Stored' = Stored /\ UNCHANGED <<pkt, used, ring>>
               /\ count' = [count EXCEPT ![sent] = @ + 1]
            \/ /\ Stored = {} /\ Stored' = {FirstFree} /\ FirstFree \in Block \ used
               /\ used' = used \cup {FirstFree} /\ AllQueued' = AllQueued
               /\ \A m \in Nbr : Contents(ring'[m], Ring) = Contents(ring[m], Ring)
                               /\ Elements(ring'[m], Ring) = Elements(ring[m], Ring)
               /\ pkt' = [pkt EXCEPT ![FirstFree] = [id |-> sent, tx |-> 0, to |-> Top.n]]
               /\ count' = count
<1>1. Types /\ Stack /\ CallsInv /\ Ownership
  BY DEF QInv
<1>2. /\ proc # <<>> /\ Top.do = "send" /\ Top.at = "check"
      /\ UNCHANGED <<dq, known, sent>>
  BY DEF SendCheck, At
<1>3. ~Stores(Top) /\ ~Frees(Top) /\ ~Flushes(Top)
  BY <1>2 DEF Stores, Frees, Flushes
<1>4. Top \in Frames /\ FrameInv(Top) /\ Tail(proc) \in Seq(Frames)
  BY <1>1, <1>2, Below DEF CallsInv
<1>5. CASE Full(ring[Top.n], Ring) \/ used = Block
  <2>1. /\ count' = [count EXCEPT ![sent] = @ + 1] /\ proc' = Tail(proc)
        /\ UNCHANGED <<pkt, used, ring>>
    BY <1>5 DEF SendCheck, Return
  <2>2. RingTypes'
    BY <1>1, <1>2, <2>1 DEF Types, RingTypes
  <2>3. CallsInv'
    BY <1>1, <1>2, <2>1, GoesBack
  <2>4. Ownership' /\ Stored' = Stored
    BY <1>1, <1>2, <1>3, <2>1, NothingHeld
  <2> QED
    BY <2>1, <2>2, <2>3, <2>4 DEF Steady, Return
<1>6. CASE ~(Full(ring[Top.n], Ring) \/ used = Block)
  <2>1. PICK b : b = FirstFree
    OBVIOUS
  <2>2. PICK f : f = [Top EXCEPT !.at = "put", !.b = b]
    OBVIOUS
  <2>3. PICK n : n = Top.n
    OBVIOUS
  <2> DEFINE r == ring[n]
             s == [r EXCEPT !.arr[r.put] = b]
  <2>4. /\ ~Full(r, Ring) /\ used # Block /\ used' = used \cup {b}
        /\ ring' = [ring EXCEPT ![n] = s] /\ proc' = <<f>> \o Tail(proc)
    BY <1>6, <2>1, <2>2, <2>3 DEF SendCheck
  <2>5. b \in Block \ used
    BY <1>1, <2>1, <2>4, FreeIs DEF Types, PacketTypes
  <2>6. f \in Frames /\ f.do = "send" /\ f.n = n /\ f.at = "put" /\ f.b = b
    BY <1>2, <1>4, <2>2, <2>3, <2>5 DEF Frames
  <2>7. n \in Nbr /\ n \in known /\ r \in Rings(Ring)
    BY <1>1, <1>2, <1>4, <2>3 DEF FrameInv, Frames, Types, RingTypes
  <2>8. /\ s \in Rings(Ring) /\ s.arr[s.put] = b
        /\ Elements(s, Ring) = Elements(r, Ring) /\ Contents(s, Ring) = Contents(r, Ring)
    BY <2>5, <2>7, Sizes, RingStore
  <2>9. Held(s, Ring) = Held(r, Ring) /\ (OneEach(s, Ring) <=> OneEach(r, Ring))
    BY <2>8, HeldSame
  <2>10. ~Full(s, Ring)
    BY <2>4, <2>8 DEF Full
  <2>11. ring \in [Nbr -> Rings(Ring)]
    BY <1>1 DEF Types, RingTypes
  <2>12. ring' \in [Nbr -> Rings(Ring)] /\ ring'[n] = s /\ \A m \in Nbr : m # n => ring'[m] = ring[m]
    <3> HIDE DEF s
    <3> QED
      BY <2>4, <2>7, <2>8, <2>11
  <2> HIDE DEF s
  <2>13. RingTypes'
    BY <1>1, <1>2, <2>12 DEF Types, RingTypes
  <2>14. FrameInv(f)'
    <3>1. ~Full(ring'[n], Ring) /\ ring'[n].arr[ring'[n].put] = b
      BY <2>8, <2>10, <2>12
    <3> QED
      BY <1>2, <1>4, <2>6, <2>7, <3>1 DEF FrameInv
  <2>15. CallsInv'
    BY <1>1, <1>2, <2>4, <2>6, <2>14, GoesOn
  <2>16. /\ Flushed' = Flushed /\ Stored' = {b} /\ Freeing' = {} /\ Stored = {} /\ Freeing = {}
         /\ Finished' = Finished
    <3>1. ~Flushes(f) /\ Stores(f) /\ ~Frees(f)
      BY <2>6 DEF Stores, Frees, Flushes
    <3>2. /\ Flushed = (IF Flushes(Top) THEN {Top.b} ELSE {}) \cup FlushedIn(Calls(Tail(proc)))
          /\ Stored = {} /\ Freeing = {}
      BY <1>1, <1>2, <1>3, HoldNow
    <3>3. /\ Flushed' = (IF Flushes(f) THEN {f.b} ELSE {}) \cup FlushedIn(Calls(Tail(proc)))
          /\ Stored' = {f.b} /\ Freeing' = {}
      BY <1>1, <1>2, <2>4, <2>6, <3>1, HoldGoesOn
    <3>4. Flushed' = Flushed
      BY <1>3, <3>1, <3>2, <3>3
    <3>5. Finished' = Finished
      BY <1>2 DEF Finished
    <3> QED
      BY <2>6, <3>2, <3>3, <3>4, <3>5
  <2>17. \A m \in Nbr : Queued(m)' = Queued(m) /\ OneEach(ring'[m], Ring)
    <3> SUFFICES ASSUME NEW m \in Nbr PROVE Queued(m)' = Queued(m) /\ OneEach(ring'[m], Ring)
      OBVIOUS
    <3>1. OneEach(ring[m], Ring)
      BY <1>1 DEF Ownership
    <3>2. CASE m = n
      BY <2>9, <2>12, <3>1, <3>2 DEF Queued
    <3>3. CASE m # n
      BY <2>12, <3>1, <3>3 DEF Queued
    <3> QED
      BY <3>2, <3>3
  <2>18. AllQueued' = AllQueued
    BY <2>17, QueuedIn
  <2>19. b \notin AllQueued
    BY <1>1, <2>5, <2>16 DEF Ownership
  <2>20. Ownership'
    BY <1>1, <1>2, <2>4, <2>5, <2>16, <2>17, <2>18, <2>19, QueuedIn DEF Ownership
  <2>21. /\ count' = count
         /\ pkt' = [pkt EXCEPT ![b] = [id |-> sent, tx |-> 0, to |-> Top.n]]
    BY <1>6, <2>1 DEF SendCheck
  <2>22. \A m \in Nbr : /\ Contents(ring'[m], Ring) = Contents(ring[m], Ring)
                        /\ Elements(ring'[m], Ring) = Elements(ring[m], Ring)
    BY <2>8, <2>12
  <2> QED
    BY <2>1, <2>4, <2>5, <2>13, <2>15, <2>16, <2>18, <2>20, <2>21, <2>22 DEF Steady
<1> QED
  BY <1>5, <1>6

LEMMA SendPutStep ==
  ASSUME QInv, SendPut
  PROVE  /\ Steady'
         /\ Top.n \in Nbr /\ Top.n \in known /\ Top.b \in Block /\ Top.b \notin AllQueued
         /\ Stored = {Top.b} /\ Stored' = {} /\ AllQueued' = AllQueued \cup {Top.b}
         /\ Elements(ring'[Top.n], Ring) = Elements(ring[Top.n], Ring) + 1
         /\ Contents(ring'[Top.n], Ring) = Append(Contents(ring[Top.n], Ring), Top.b)
         /\ \A m \in Nbr : m # Top.n => ring'[m] = ring[m]
<1>1. Types /\ Stack /\ CallsInv /\ Ownership
  BY DEF QInv
<1>2. /\ proc # <<>> /\ Top.do = "send" /\ Top.at = "put"
      /\ UNCHANGED <<dq, known, used>>
  BY DEF SendPut, At
<1>3. Stores(Top) /\ ~Frees(Top) /\ ~Flushes(Top)
  BY <1>2 DEF Stores, Frees, Flushes
<1>4. Top \in Frames /\ FrameInv(Top)
  BY <1>1, <1>2, Below DEF CallsInv
<1>5. PICK n : n = Top.n
  OBVIOUS
<1>6. PICK b : b = Top.b
  OBVIOUS
<1> DEFINE r == ring[n]
           s == [r EXCEPT !.put = (r.put + 1) % Ring]
<1>7. ring' = [ring EXCEPT ![n] = s] /\ proc' = Tail(proc)
  BY <1>5 DEF SendPut, Return
<1>8. n \in Nbr /\ r \in Rings(Ring) /\ ~Full(r, Ring) /\ r.arr[r.put] = b
  BY <1>1, <1>2, <1>4, <1>5, <1>6 DEF FrameInv, Frames, Types, RingTypes
<1>9. Stored = {b} /\ b \notin Queued(n)
  <2>1. Stored = {b}
    BY <1>1, <1>2, <1>3, <1>6, HoldNow
  <2> QED
    BY <1>1, <1>8, <2>1 DEF Ownership
<1>10. /\ s \in Rings(Ring) /\ Held(s, Ring) = Held(r, Ring) \cup {b}
       /\ OneEach(r, Ring) /\ b \notin Held(r, Ring) => OneEach(s, Ring)
  BY <1>8, Sizes, HeldPut
<1>19. /\ Elements(s, Ring) = Elements(r, Ring) + 1
       /\ Contents(s, Ring) = Append(Contents(r, Ring), b)
  BY <1>8, Sizes, RingPut
<1>11. ring \in [Nbr -> Rings(Ring)]
  BY <1>1 DEF Types, RingTypes
<1>12. ring' \in [Nbr -> Rings(Ring)] /\ ring'[n] = s /\ \A m \in Nbr : m # n => ring'[m] = ring[m]
  <2> HIDE DEF s
  <2> QED
    BY <1>7, <1>8, <1>10, <1>11
<1> HIDE DEF s
<1>13. RingTypes'
  BY <1>1, <1>2, <1>12 DEF Types, RingTypes
<1>14. CallsInv'
  BY <1>1, <1>2, <1>7, GoesBack
<1>15. Flushed' = Flushed /\ Stored' = {} /\ Freeing' = {} /\ Freeing = {} /\ Finished' = Finished
  <2>1. /\ Flushed = (IF Flushes(Top) THEN {Top.b} ELSE {}) \cup FlushedIn(Calls(Tail(proc)))
        /\ Freeing = {}
    BY <1>1, <1>2, <1>3, HoldNow
  <2>2. Flushed' = FlushedIn(Calls(Tail(proc))) /\ Stored' = {} /\ Freeing' = {}
    BY <1>1, <1>2, <1>7, HoldReturns
  <2>3. Flushed' = Flushed
    BY <1>3, <2>1, <2>2
  <2>4. Finished' = Finished
    BY <1>2 DEF Finished
  <2> QED
    BY <2>1, <2>2, <2>3, <2>4
<1>16. /\ Queued(n)' = Queued(n) \cup {b} /\ OneEach(ring'[n], Ring)
       /\ \A m \in Nbr : m # n => Queued(m)' = Queued(m) /\ OneEach(ring'[m], Ring)
  <2>1. Queued(n)' = Queued(n) \cup {b}
    BY <1>10, <1>12 DEF Queued
  <2>2. \A m \in Nbr : OneEach(ring[m], Ring)
    BY <1>1 DEF Ownership
  <2>3. OneEach(ring'[n], Ring)
    BY <1>8, <1>9, <1>10, <1>12, <2>2 DEF Queued
  <2>4. \A m \in Nbr : m # n => Queued(m)' = Queued(m) /\ OneEach(ring'[m], Ring)
    BY <1>12, <2>2 DEF Queued
  <2> QED
    BY <2>1, <2>3, <2>4
<1>17. AllQueued' = AllQueued \cup {b}
  BY <1>8, <1>16, QueuedIn
<1>18. Ownership'
  BY <1>1, <1>2, <1>8, <1>9, <1>15, <1>16, <1>17 DEF Ownership
<1>20. b \in Block /\ b \notin AllQueued
  <2>1. Stored \subseteq used /\ Stored \cap AllQueued = {}
    BY <1>1, <1>15, QueuedIn DEF Ownership
  <2> QED
    BY <1>1, <1>9, <2>1 DEF Types, PacketTypes
<1>21. /\ Elements(ring'[n], Ring) = Elements(ring[n], Ring) + 1
       /\ Contents(ring'[n], Ring) = Append(Contents(ring[n], Ring), b)
  BY <1>12, <1>19
<1>22. Steady'
  BY <1>13, <1>14, <1>18 DEF Steady
<1>23. \A m \in Nbr : m # Top.n => ring'[m] = ring[m]
  BY <1>5, <1>12
<1>24. /\ Elements(ring'[Top.n], Ring) = Elements(ring[Top.n], Ring) + 1
       /\ Contents(ring'[Top.n], Ring) = Append(Contents(ring[Top.n], Ring), Top.b)
  BY <1>5, <1>6, <1>21
<1>25. /\ Top.n \in Nbr /\ Top.n \in known
       /\ Top.b \in Block /\ Top.b \notin AllQueued
       /\ Stored = {Top.b} /\ AllQueued' = AllQueued \cup {Top.b}
  BY <1>2, <1>4, <1>5, <1>6, <1>8, <1>9, <1>17, <1>20 DEF FrameInv
<1> QED
  BY <1>15, <1>22, <1>23, <1>24, <1>25

LEMMA FlushGetStep ==
  ASSUME QInv, FlushGet
  PROVE  /\ Steady'
         /\ ring' = [ring EXCEPT ![Top.n] = Get(ring[Top.n], Ring)]
         /\ ~IsEmpty(ring[Top.n], Ring) /\ Top.n \in Nbr /\ Top.n \in known
         /\ Flushed = {} /\ Flushed' = {First(ring[Top.n])}
         /\ Stored' = Stored /\ AllQueued' = AllQueued \ {First(ring[Top.n])}
<1>1. Types /\ Stack /\ CallsInv /\ Ownership
  BY DEF QInv
<1>2. /\ proc # <<>> /\ Top.do = "flush" /\ Top.at = "get"
      /\ UNCHANGED <<dq, known, used>>
  BY DEF FlushGet, At
<1>3. ~Stores(Top) /\ ~Frees(Top) /\ ~Flushes(Top)
  BY <1>2 DEF Stores, Frees, Flushes
<1>4. Top \in Frames /\ FrameInv(Top)
  BY <1>1, <1>2, Below DEF CallsInv
<1>5. PICK n : n = Top.n
  OBVIOUS
<1>6. PICK b : b = ring[n].arr[Top.g]
  OBVIOUS
<1>7. PICK f : f = [Top EXCEPT !.at = "call", !.b = b]
  OBVIOUS
<1> DEFINE r == ring[n]
           s == Get(r, Ring)
<1>8. n \in Nbr /\ n \in known /\ r \in Rings(Ring) /\ ~IsEmpty(r, Ring) /\ Top.g = r.get
  BY <1>1, <1>2, <1>4, <1>5 DEF FrameInv, Frames, Types, RingTypes
<1>9. ring' = [ring EXCEPT ![n] = s] /\ proc' = <<f>> \o Tail(proc) /\ b = First(r)
  BY <1>5, <1>6, <1>7, <1>8 DEF FlushGet, Get, First
<1>10. b \in Queued(n) /\ b \in Block \cup {NoBlock}
  BY <1>8, <1>9, Sizes, FirstIs DEF Queued, Rings, First
<1>11. f \in Frames /\ f.do = "flush" /\ f.n = n /\ f.at = "call" /\ f.b = b
  BY <1>2, <1>4, <1>5, <1>7, <1>10 DEF Frames
<1>12. s \in Rings(Ring) /\ (OneEach(r, Ring) => Held(s, Ring) = Held(r, Ring) \ {b} /\ OneEach(s, Ring))
  BY <1>8, <1>9, Sizes, HeldGet
<1>13. ring \in [Nbr -> Rings(Ring)] /\ \A m \in Nbr : OneEach(ring[m], Ring)
  BY <1>1 DEF Types, RingTypes, Ownership
<1>14. ring' \in [Nbr -> Rings(Ring)] /\ ring'[n] = s /\ \A m \in Nbr : m # n => ring'[m] = ring[m]
  <2> HIDE DEF s
  <2> QED
    BY <1>8, <1>9, <1>12, <1>13
<1> HIDE DEF s
<1>15. RingTypes'
  BY <1>1, <1>2, <1>14 DEF Types, RingTypes
<1>16. FrameInv(f)'
  BY <1>2, <1>8, <1>11 DEF FrameInv
<1>17. CallsInv'
  BY <1>1, <1>2, <1>9, <1>11, <1>16, GoesOn
<1>18. /\ Flushed = {} /\ Stored = {} /\ Freeing = {} /\ Flushed' = {b} /\ Stored' = {}
       /\ Freeing' = {} /\ Finished' = Finished
  <2>1. Flushes(f) /\ ~Stores(f) /\ ~Frees(f)
    BY <1>11 DEF Stores, Frees, Flushes
  <2>2. /\ Flushed = (IF Flushes(Top) THEN {Top.b} ELSE {}) \cup FlushedIn(Calls(Tail(proc)))
        /\ Stored = {} /\ Freeing = {} /\ FlushedIn(Calls(Tail(proc))) = {}
    BY <1>1, <1>2, <1>3, HoldNow, BelowHolds
  <2>3. /\ Flushed' = (IF Flushes(f) THEN {f.b} ELSE {}) \cup FlushedIn(Calls(Tail(proc)))
        /\ Stored' = {} /\ Freeing' = {}
    BY <1>1, <1>2, <1>9, <1>11, <2>1, HoldGoesOn
  <2>4. Flushed = {}
    BY <1>3, <2>2
  <2>5. Flushed' = {b}
    BY <1>11, <2>1, <2>2, <2>3
  <2>6. Finished' = Finished
    BY <1>2 DEF Finished
  <2> QED
    BY <2>2, <2>3, <2>4, <2>5, <2>6
<1>19. /\ Queued(n)' = Queued(n) \ {b} /\ OneEach(ring'[n], Ring)
       /\ \A m \in Nbr : m # n => Queued(m)' = Queued(m) /\ OneEach(ring'[m], Ring)
  <2>1. Queued(n)' = Queued(n) \ {b}
    BY <1>8, <1>12, <1>13, <1>14 DEF Queued
  <2>2. OneEach(ring'[n], Ring)
    BY <1>8, <1>12, <1>13, <1>14
  <2>3. \A m \in Nbr : m # n => Queued(m)' = Queued(m) /\ OneEach(ring'[m], Ring)
    BY <1>13, <1>14 DEF Queued
  <2> QED
    BY <2>1, <2>2, <2>3
<1>20. AllQueued' = AllQueued \ {b} /\ b \in AllQueued
  <2>1. \A m \in Nbr : m # n => b \notin Queued(m)
    BY <1>1, <1>8, <1>10 DEF Ownership
  <2> QED
    BY <1>8, <1>10, <1>19, <2>1, QueuedIn
<1>21. Ownership'
  BY <1>1, <1>2, <1>8, <1>10, <1>18, <1>19, <1>20 DEF Ownership
<1>22. Steady'
  BY <1>15, <1>17, <1>21 DEF Steady
<1> QED
  BY <1>5, <1>8, <1>9, <1>18, <1>20, <1>22 DEF s


LEMMA FreePacketStep ==
  ASSUME QInv, FreePacket
  PROVE  Steady' /\ Top.b \in used /\ Top.b \notin AllQueued /\ Stored = {} /\ Stored' = {}
<1>1. Types /\ Stack /\ CallsInv /\ Ownership
  BY DEF QInv
<1>2. /\ proc # <<>> /\ Top.do \in {"flush", "pending"} /\ Top.at = "free"
      /\ UNCHANGED <<ring, dq, known>> /\ used' = used \ {Top.b}
  BY DEF FreePacket, At
<1>3. Top \in Frames /\ FrameInv(Top)
  BY <1>1, <1>2, Below DEF CallsInv
<1>4. RingTypes'
  BY <1>1, <1>2 DEF Types, RingTypes
<1>5. ~Stores(Top) /\ ~Frees(Top) /\ (Flushes(Top) <=> Top.do = "flush")
  BY <1>2 DEF Stores, Frees, Flushes
<1>6. /\ Flushed = (IF Flushes(Top) THEN {Top.b} ELSE {}) \cup FlushedIn(Calls(Tail(proc)))
      /\ Stored = {} /\ Freeing = {} /\ FlushedIn(Calls(Tail(proc))) = {}
  BY <1>1, <1>2, <1>5, HoldNow, BelowHolds
<1>7. UNCHANGED AllQueued /\ Finished' = Finished /\ \A n \in Nbr : Queued(n)' = Queued(n)
  BY <1>2 DEF AllQueued, Finished, Queued
<1>8. CASE Top.do = "flush"
  <2>1. PICK f : f = [Top EXCEPT !.at = "test"]
    OBVIOUS
  <2>2. f \in Frames /\ f.do = "flush" /\ f.at = "test" /\ f.n = Top.n
    BY <1>3, <1>8, <2>1 DEF Frames
  <2>3. proc' = <<f>> \o Tail(proc)
    BY <1>8, <2>1 DEF FreePacket, Goto
  <2>4. FrameInv(f)'
    BY <1>2, <1>3, <1>8, <2>2 DEF FrameInv
  <2>5. CallsInv'
    BY <1>1, <1>2, <2>2, <2>3, <2>4, GoesOn
  <2>6. Flushed = {Top.b}
    BY <1>5, <1>6, <1>8
  <2>7. Flushed' = {} /\ Stored' = {} /\ Freeing' = {}
    <3>1. ~Flushes(f) /\ ~Stores(f) /\ ~Frees(f)
      BY <2>2 DEF Stores, Frees, Flushes
    <3>2. /\ Flushed' = (IF Flushes(f) THEN {f.b} ELSE {}) \cup FlushedIn(Calls(Tail(proc)))
          /\ Stored' = {} /\ Freeing' = {}
      BY <1>1, <1>2, <2>2, <2>3, <3>1, HoldGoesOn
    <3> QED
      BY <1>6, <3>1, <3>2
  <2>8. Top.b \in used /\ Top.b \notin AllQueued /\ Top.b \notin Finished
    BY <1>1, <1>6, <2>6, QueuedIn DEF Ownership
  <2>9. Ownership'
    BY <1>1, <1>2, <1>6, <1>7, <2>6, <2>7, <2>8 DEF Ownership
  <2> QED
    BY <1>4, <1>6, <2>5, <2>7, <2>8, <2>9 DEF Steady
<1>9. CASE Top.do = "pending"
  <2>1. PICK f : f = [Top EXCEPT !.at = "get"]
    OBVIOUS
  <2>2. f \in Frames /\ f.do = "pending" /\ f.at = "get" /\ f.b = Top.b
    BY <1>3, <1>9, <2>1 DEF Frames
  <2>3. proc' = <<f>> \o Tail(proc)
    BY <1>9, <2>1 DEF FreePacket, Goto
  <2>4. FrameInv(f)' /\ Top.b = First(dq) /\ ~IsEmpty(dq, DqRing)
    BY <1>2, <1>3, <1>9, <2>2 DEF FrameInv
  <2>5. CallsInv'
    BY <1>1, <1>2, <2>2, <2>3, <2>4, GoesOn
  <2>6. Flushed = {}
    BY <1>5, <1>6, <1>9
  <2>7. Flushed' = {} /\ Stored' = {} /\ Freeing' = {Top.b}
    <3>1. ~Flushes(f) /\ ~Stores(f) /\ Frees(f)
      BY <2>2 DEF Stores, Frees, Flushes
    <3>2. /\ Flushed' = (IF Flushes(f) THEN {f.b} ELSE {}) \cup FlushedIn(Calls(Tail(proc)))
          /\ Stored' = {} /\ Freeing' = {f.b}
      BY <1>1, <1>2, <2>2, <2>3, <3>1, HoldGoesOn
    <3> QED
      BY <1>6, <2>2, <3>1, <3>2
  <2>8. Top.b \in Finished
    BY <1>1, <2>4, Sizes, FirstIs DEF Types, RingTypes, Finished
  <2>9. Top.b \in used /\ Top.b \in Block
    BY <1>1, <1>6, <2>8 DEF Ownership, Types, PacketTypes
  <2>10. Top.b \notin AllQueued
    BY <1>1, <2>8, QueuedIn DEF Ownership
  <2>11. Ownership'
    BY <1>1, <1>2, <1>6, <1>7, <2>6, <2>7, <2>8, <2>9 DEF Ownership
  <2> QED
    BY <1>4, <1>6, <2>5, <2>7, <2>9, <2>10, <2>11 DEF Steady
<1> QED
  BY <1>2, <1>8, <1>9

LEMMA PendingGetStep ==
  ASSUME QInv, PendingGet
  PROVE  Calm /\ ~IsEmpty(dq, DqRing) /\ First(dq) \notin used
<1>1. Types /\ Stack /\ CallsInv /\ Ownership
  BY DEF QInv
<1>2. /\ proc # <<>> /\ Top.do = "pending" /\ Top.at = "get"
      /\ UNCHANGED <<ring, known, used>> /\ dq' = Get(dq, DqRing)
  BY DEF PendingGet, At
<1>3. Top \in Frames /\ FrameInv(Top)
  BY <1>1, <1>2, Below DEF CallsInv
<1>4. dq \in Rings(DqRing) /\ ~IsEmpty(dq, DqRing) /\ OneEach(dq, DqRing) /\ Top.b = First(dq)
  BY <1>1, <1>2, <1>3 DEF FrameInv, Types, RingTypes, Ownership
<1>5. dq' \in Rings(DqRing) /\ Finished' = Finished \ {Top.b} /\ OneEach(dq, DqRing)'
      /\ Top.b \in Finished
  BY <1>2, <1>4, Sizes, HeldGet DEF Finished
<1>6. RingTypes'
  BY <1>1, <1>2, <1>5 DEF Types, RingTypes
<1>7. PICK f : f = [Pending EXCEPT !.g = 1]
  OBVIOUS
<1>8. f \in Frames /\ f.do = "pending" /\ f.at = "peek"
  BY <1>7, QueueAssumption DEF Pending, Frame, Frames
<1>9. proc' = <<f>> \o Tail(proc)
  BY <1>7 DEF PendingGet
<1>10. FrameInv(f)'
  BY <1>8 DEF FrameInv
<1>11. CallsInv'
  BY <1>1, <1>2, <1>8, <1>9, <1>10, GoesOn
<1>12. /\ Flushed = {} /\ Stored = {} /\ Freeing = {Top.b}
       /\ Flushed' = {} /\ Stored' = {} /\ Freeing' = {}
  <2>1. /\ ~Flushes(f) /\ ~Stores(f) /\ ~Frees(f)
        /\ ~Flushes(Top) /\ ~Stores(Top) /\ Frees(Top)
    BY <1>2, <1>8 DEF Stores, Frees, Flushes
  <2>2. /\ Flushed = (IF Flushes(Top) THEN {Top.b} ELSE {}) \cup FlushedIn(Calls(Tail(proc)))
        /\ Stored = {} /\ Freeing = {Top.b} /\ FlushedIn(Calls(Tail(proc))) = {}
    BY <1>1, <1>2, <2>1, HoldNow, BelowHolds
  <2>3. /\ Flushed' = (IF Flushes(f) THEN {f.b} ELSE {}) \cup FlushedIn(Calls(Tail(proc)))
        /\ Stored' = {} /\ Freeing' = {}
    BY <1>1, <1>2, <1>8, <1>9, <2>1, HoldGoesOn
  <2>4. Flushed = {} /\ Flushed' = {}
    BY <2>1, <2>2, <2>3
  <2> QED
    BY <2>2, <2>3, <2>4
<1>13. UNCHANGED AllQueued /\ \A n \in Nbr : Queued(n)' = Queued(n) /\ OneEach(ring[n], Ring)'
  BY <1>1, <1>2 DEF AllQueued, Queued, Ownership
<1>14. Top.b \notin AllQueued /\ Top.b \notin used
  BY <1>1, <1>5, <1>12, QueuedIn DEF Ownership
<1>15. Ownership'
  BY <1>1, <1>2, <1>5, <1>12, <1>13, <1>14 DEF Ownership
<1> QED
  BY <1>4, <1>6, <1>11, <1>12, <1>14, <1>15 DEF Steady, Calm

LEMMA EmptyIs ==
  ASSUME NEW size \in Nat \ {0}
  PROVE  /\ Empty(size) \in Rings(size) /\ Elements(Empty(size), size) = 0
         /\ Held(Empty(size), size) = {} /\ OneEach(Empty(size), size)
<1>1. Empty(size) \in Rings(size) /\ Empty(size).put = 0 /\ Empty(size).get = 0
  BY DEF Empty, Rings
<1>2. Elements(Empty(size), size) = 0
  BY <1>1, CountIs
<1> QED
  BY <1>1, <1>2 DEF Held, OneEach

LEMMA UnusedRemoveStep ==
  ASSUME QInv, UnusedRemove
  PROVE  /\ Calm /\ AllQueued' = AllQueued /\ used' = used
         /\ Top.n \in Nbr \ Virtual /\ IsEmpty(ring[Top.n], Ring)
         /\ ring' = [ring EXCEPT ![Top.n] = Empty(Ring)] /\ known' = known \ {Top.n}
<1>1. Types /\ Stack /\ CallsInv /\ Ownership
  BY DEF QInv
<1>2. proc # <<>> /\ Top.do = "unused" /\ Top.at = "remove" /\ UNCHANGED <<dq, used>>
  BY DEF UnusedRemove, At
<1>3. Top \in Frames /\ FrameInv(Top)
  BY <1>1, <1>2, Below DEF CallsInv
<1>4. PICK n : n = Top.n
  OBVIOUS
<1>5. IsEmpty(ring[n], Ring) /\ n \in Nbr /\ n \notin Virtual
  BY <1>2, <1>3, <1>4 DEF FrameInv, IsUnused, Frames
<1>6. PICK f : f = [Top EXCEPT !.at = "next"]
  OBVIOUS
<1>7. f \in Frames /\ f.do = "unused" /\ f.at = "next"
  BY <1>2, <1>3, <1>6 DEF Frames
<1>8. /\ proc' = <<f>> \o Tail(proc) /\ ring' = [ring EXCEPT ![n] = Empty(Ring)]
      /\ known' = known \ {n}
  BY <1>4, <1>5, <1>6 DEF UnusedRemove, Goto
<1>9. ring \in [Nbr -> Rings(Ring)] /\ Empty(Ring) \in Rings(Ring)
  BY <1>1, Sizes, EmptyIs DEF Types, RingTypes
<1>10. /\ ring' \in [Nbr -> Rings(Ring)] /\ ring'[n] = Empty(Ring)
       /\ \A m \in Nbr : m # n => ring'[m] = ring[m]
  BY <1>5, <1>8, <1>9
<1>11. RingTypes'
  BY <1>1, <1>2, <1>10 DEF Types, RingTypes
<1>12. FrameInv(f)'
  BY <1>7 DEF FrameInv
<1>13. CallsInv'
  BY <1>1, <1>2, <1>7, <1>8, <1>12, GoesOn
<1>14. \A m \in Nbr : Queued(m)' = Queued(m) /\ OneEach(ring'[m], Ring)
  <2>1. Queued(n) = {}
    BY <1>5 DEF Queued, Held, IsEmpty
  <2>2. Queued(n)' = {} /\ OneEach(ring'[n], Ring)
    BY <1>10, Sizes, EmptyIs DEF Queued
  <2>3. \A m \in Nbr : OneEach(ring[m], Ring)
    BY <1>1 DEF Ownership
  <2>4. \A m \in Nbr : m # n => Queued(m)' = Queued(m) /\ OneEach(ring'[m], Ring)
    BY <1>10, <2>3 DEF Queued
  <2> QED
    BY <2>1, <2>2, <2>4
<1>15. /\ Flushed' = Flushed /\ Stored' = Stored /\ Freeing' = Freeing
       /\ Finished' = Finished /\ AllQueued' = AllQueued
  <2>1. /\ ~Flushes(f) /\ ~Stores(f) /\ ~Frees(f)
        /\ ~Flushes(Top) /\ ~Stores(Top) /\ ~Frees(Top)
    BY <1>2, <1>7 DEF Stores, Frees, Flushes
  <2>2. /\ Flushed = (IF Flushes(Top) THEN {Top.b} ELSE {}) \cup FlushedIn(Calls(Tail(proc)))
        /\ Stored = {} /\ Freeing = {}
    BY <1>1, <1>2, <2>1, HoldNow
  <2>3. /\ Flushed' = (IF Flushes(f) THEN {f.b} ELSE {}) \cup FlushedIn(Calls(Tail(proc)))
        /\ Stored' = {} /\ Freeing' = {}
    BY <1>1, <1>2, <1>7, <1>8, <2>1, HoldGoesOn
  <2>4. Flushed' = Flushed
    BY <2>1, <2>2, <2>3
  <2>5. Finished' = Finished
    BY <1>2 DEF Finished
  <2>6. AllQueued' = AllQueued
    BY <1>14, QueuedIn
  <2> QED
    BY <2>2, <2>3, <2>4, <2>5, <2>6
<1>16. Ownership'
  BY <1>1, <1>2, <1>14, <1>15 DEF Ownership
<1> QED
  BY <1>2, <1>4, <1>5, <1>8, <1>11, <1>13, <1>15, <1>16 DEF Steady, Calm


(* What a slot at its end leaves true of the calls it interrupts.          *)
LEMMA InterruptedCalls ==
  ASSUME QInv, slot.phase = "tx", UNCHANGED <<proc, known, sent>>,
         ring' \in [Nbr -> Rings(Ring)], dq' \in Rings(DqRing),
         \A m \in Nbr : m # slot.n => ring'[m] = ring[m],
         ~Full(ring'[slot.n], Ring),
         ring'[slot.n].arr = ring[slot.n].arr, ring'[slot.n].put = ring[slot.n].put,
         ~IsEmpty(dq, DqRing) => ~IsEmpty(dq', DqRing) /\ First(dq') = First(dq)
  PROVE  CallsInv'
<1>1. Types /\ Stack /\ CallsInv
  BY DEF QInv
<1>2. slot.n \in Nbr /\ ~IsEmpty(ring[slot.n], Ring)
  BY Transmits
<1>3. ASSUME NEW f \in Calls(proc) PROVE FrameInv(f)'
  <2>1. FrameInv(f) /\ f \in Frames
    <3>1. proc # <<>>
      BY NoCalls
    <3> QED
      BY <1>1, <3>1, Below DEF CallsInv
  <2>2. f.n \in Nbr
    BY <2>1 DEF Frames
  <2>3. CASE f.do = "send"
    <3>1. f.at = "put" => /\ ~Full(ring'[f.n], Ring)
                          /\ ring'[f.n].arr[ring'[f.n].put] = f.b
      <4>1. CASE f.n = slot.n
        BY <2>1, <2>3, <4>1 DEF FrameInv
      <4>2. CASE f.n # slot.n
        BY <2>1, <2>2, <2>3, <4>2 DEF FrameInv
      <4> QED
        BY <4>1, <4>2
    <3> QED
      BY <2>1, <2>3, <3>1 DEF FrameInv
  <2>4. CASE f.do = "flush"
    <3>1. f.at = "get" => f.n # slot.n
      <4> SUFFICES ASSUME f.at = "get" PROVE f.n # slot.n
        OBVIOUS
      <4>1. proc # <<>>
        BY NoCalls
      <4>2. f = Top
        BY <1>1, <2>4, <4>1, Below
      <4> QED
        BY <2>4, <4>1, <4>2, FlushApart
    <3> QED
      BY <2>1, <2>2, <2>4, <3>1 DEF FrameInv
  <2>5. CASE f.do = "pending"
    BY <2>1, <2>5 DEF FrameInv
  <2>6. CASE f.do = "unused"
    <3>1. f.at # "next" => f.n # slot.n
      BY <1>2, <2>1, <2>6 DEF FrameInv, IsUnused
    <3> QED
      BY <2>1, <2>2, <2>6, <3>1 DEF FrameInv, IsUnused
  <2>7. CASE f.do = "reset"
    BY <2>1, <2>7 DEF FrameInv
  <2> QED
    BY <2>1, <2>3, <2>4, <2>5, <2>6, <2>7 DEF Frames
<1>4. \A f \in Calls(proc') : FrameInv(f)'
  BY <1>3
<1> QED
  BY <1>4 DEF CallsInv

LEMMA SlotEndStep ==
  ASSUME QInv, NEW ok \in BOOLEAN, SlotEnd(ok)
  PROVE  /\ Calm
         /\ \/ UNCHANGED <<ring, dq>>
            \/ /\ ring' = [ring EXCEPT ![slot.n] = Get(ring[slot.n], Ring)]
               /\ Finished' = Finished \cup {slot.b} /\ slot.b \notin Finished
               /\ AllQueued' = AllQueued \ {slot.b}
<1>1. Types /\ Stack /\ CallsInv /\ Ownership
  BY DEF QInv
<1>2. slot.phase = "tx" /\ UNCHANGED <<used, known, proc, sent>>
  BY DEF SlotEnd
<1>3. PICK n : n = slot.n
  OBVIOUS
<1>4. PICK b : b = slot.b
  OBVIOUS
<1> DEFINE r == ring[n]
<1>5. /\ n \in Nbr /\ b \in Block /\ slot.i = dq.put /\ slot.i \in 0..DqRing - 1
      /\ r \in Rings(Ring) /\ ~IsEmpty(r, Ring) /\ b = First(r) /\ b \in Queued(n)
      /\ ~Full(dq, DqRing) /\ dq \in Rings(DqRing)
  BY <1>2, <1>3, <1>4, Transmits
<1>6. ring \in [Nbr -> Rings(Ring)] /\ \A m \in Nbr : OneEach(ring[m], Ring)
  BY <1>1 DEF Types, RingTypes, Ownership
<1>7. CASE UNCHANGED <<ring, dq>>
  <2>1. RingTypes'
    BY <1>1, <1>7 DEF Types, RingTypes
  <2>2. Flushed' = Flushed /\ Stored' = Stored /\ Freeing' = Freeing
    BY <1>2 DEF Flushed, Stored, Freeing
  <2>3. Ownership'
    BY <1>1, <1>2, <1>7, <2>2, OwnershipSame
  <2>4. CallsInv'
    BY <1>1, <1>2, <1>7 DEF CallsInv, FrameInv, IsUnused
  <2> QED
    BY <1>7, <2>1, <2>2, <2>3, <2>4 DEF Steady, Calm
<1>8. CASE ~UNCHANGED <<ring, dq>>
  <2> DEFINE s == Get(r, Ring)
             d == [dq EXCEPT !.arr[dq.put] = b]
             e == [d EXCEPT !.put = (d.put + 1) % DqRing]
  <2>1. ring' = [ring EXCEPT ![n] = s] /\ dq' = e
    <3>1. Leaves(ok, [pkt[slot.b] EXCEPT !.tx = (@ + 1) % 256])
      <4>1. SUFFICES ASSUME ~Leaves(ok, [pkt[slot.b] EXCEPT !.tx = (@ + 1) % 256])
                     PROVE  ring' = ring /\ dq' = dq
        BY <1>8
      <4>2. dq' = dq
        BY <4>1 DEF SlotEnd
      <4>3. ring' = [ring EXCEPT ![slot.n] = ring[slot.n]]
        BY <4>1 DEF SlotEnd
      <4> QED
        BY <1>6, <4>2, <4>3
    <3>2. ring' = [ring EXCEPT ![n] = s]
      BY <1>3, <1>5, <3>1 DEF SlotEnd
    <3>3. dq' = [dq EXCEPT !.arr[slot.i] = slot.b,
                           !.put = IF Full(dq, DqRing) THEN @ ELSE (@ + 1) % DqRing]
      BY <3>1 DEF SlotEnd
    <3>4. dq' = [dq EXCEPT !.arr[dq.put] = b, !.put = (@ + 1) % DqRing]
      BY <1>4, <1>5, <3>3
    <3>5. dq' = e
      BY <1>5, <3>4 DEF Rings
    <3> QED
      BY <3>2, <3>5
  <2>2. /\ s \in Rings(Ring) /\ ~Full(s, Ring) /\ s.put = r.put /\ s.arr = r.arr
        /\ Held(s, Ring) = Held(r, Ring) \ {b} /\ OneEach(s, Ring)
    BY <1>5, <1>6, Sizes, HeldGet
  <2>3. /\ d \in Rings(DqRing) /\ d.arr[d.put] = b
        /\ Elements(d, DqRing) = Elements(dq, DqRing) /\ Contents(d, DqRing) = Contents(dq, DqRing)
    BY <1>5, Sizes, RingStore
  <2>4. Held(d, DqRing) = Finished /\ (OneEach(d, DqRing) <=> OneEach(dq, DqRing))
    BY <2>3, HeldSame DEF Finished
  <2>5. ~IsEmpty(dq, DqRing) => First(d) = First(dq) /\ ~IsEmpty(d, DqRing)
    <3> SUFFICES ASSUME ~IsEmpty(dq, DqRing) PROVE First(d) = First(dq) /\ ~IsEmpty(d, DqRing)
      OBVIOUS
    <3>1. ~IsEmpty(d, DqRing)
      BY <2>3 DEF IsEmpty
    <3>2. First(dq) = Contents(dq, DqRing)[1]
      BY <1>5, Sizes, FirstIs
    <3> HIDE DEF d
    <3>3. First(d) = Contents(d, DqRing)[1]
      BY <2>3, <3>1, Sizes, FirstIs
    <3> QED
      BY <2>3, <3>1, <3>2, <3>3
  <2>6. ~Full(d, DqRing)
    BY <1>5, <2>3 DEF Full
  <2> HIDE DEF d
  <2>7. /\ e \in Rings(DqRing) /\ ~IsEmpty(e, DqRing) /\ First(e) = First(d)
        /\ Held(e, DqRing) = Held(d, DqRing) \cup {b}
        /\ OneEach(d, DqRing) /\ b \notin Held(d, DqRing) => OneEach(e, DqRing)
    BY <2>3, <2>6, Sizes, HeldPut
  <2>8. b \notin Finished /\ OneEach(dq, DqRing)
    BY <1>1, <1>5 DEF Ownership
  <2>9. /\ dq' \in Rings(DqRing) /\ OneEach(dq', DqRing) /\ Finished' = Finished \cup {b}
        /\ ~IsEmpty(dq, DqRing) => ~IsEmpty(dq', DqRing) /\ First(dq') = First(dq)
    <3> HIDE DEF e
    <3>1. Finished' = Held(e, DqRing)
      BY <2>1 DEF Finished
    <3> QED
      BY <2>1, <2>4, <2>5, <2>7, <2>8, <3>1
  <2>10. /\ ring' \in [Nbr -> Rings(Ring)] /\ ring'[n] = s
         /\ \A m \in Nbr : m # n => ring'[m] = ring[m]
    <3> HIDE DEF s
    <3> QED
      BY <1>5, <1>6, <2>1, <2>2
  <2>11. RingTypes'
    BY <2>9, <2>10 DEF RingTypes
  <2>12. CallsInv'
    <3> HIDE DEF s
    <3> QED
      BY <1>2, <1>3, <2>2, <2>9, <2>10, InterruptedCalls
  <2>13. Flushed' = Flushed /\ Stored' = Stored /\ Freeing' = Freeing
    BY <1>2 DEF Flushed, Stored, Freeing
  <2>14. /\ Queued(n)' = Queued(n) \ {b} /\ OneEach(ring'[n], Ring)
         /\ \A m \in Nbr : m # n => Queued(m)' = Queued(m) /\ OneEach(ring'[m], Ring)
    <3> HIDE DEF s
    <3> QED
      BY <1>6, <2>2, <2>10 DEF Queued
  <2>15. AllQueued' = AllQueued \ {b} /\ b \in AllQueued
    <3>1. \A m \in Nbr : m # n => b \notin Queued(m)
      BY <1>1, <1>5 DEF Ownership
    <3> QED
      BY <1>5, <2>14, <3>1, QueuedIn
  <2>16. Ownership'
    BY <1>1, <1>2, <1>5, <2>9, <2>13, <2>14, <2>15 DEF Ownership
  <2> QED
    BY <1>3, <1>4, <2>1, <2>8, <2>9, <2>11, <2>12, <2>13, <2>15, <2>16 DEF Steady, Calm
<1> QED
  BY <1>7, <1>8


LEMMA SteadyStep ==
  ASSUME QInv, [Next]_vars
  PROVE  Steady'
<1>1. ASSUME UNCHANGED <<ring, dq, used, proc, known, sent>> PROVE Steady'
  <2>1. Types /\ CallsInv /\ Ownership
    BY DEF QInv
  <2>2. RingTypes' /\ CallsInv'
    BY <1>1, <2>1 DEF Types, RingTypes, CallsInv, FrameInv, IsUnused
  <2>3. Flushed' = Flushed /\ Stored' = Stored /\ Freeing' = Freeing
    BY <1>1 DEF Flushed, Stored, Freeing
  <2>4. Ownership'
    BY <1>1, <2>1, <2>3, OwnershipSame
  <2> QED
    BY <2>2, <2>4 DEF Steady
<1>2. CASE \/ UNCHANGED vars \/ Desync \/ Associate \/ Disassociate
           \/ \E l \in Links : SlotPass(l) \/ SlotBegin(l)
  BY <1>1, <1>2 DEF vars, Desync, Associate, Disassociate, SlotPass, SlotBegin
<1>3. CASE SlotEnds
  BY <1>3, SlotEndStep DEF SlotEnds, Calm
<1>4. CASE Step
  BY <1>4, QuietStep, CallStep, CallbackStep, SendCheckStep, SendPutStep, FlushGetStep,
     FreePacketStep, PendingGetStep, UnusedRemoveStep DEF Step, Calm
<1>5. CASE \E n \in Nbr : Send(n) \/ FreePacketsTo(n)
  BY <1>5, CallStep DEF Calm
<1> QED
  BY <1>2, <1>3, <1>4, <1>5 DEF Next

(* The first packet of the queue that a slot sends from stays the first.   *)
LEMMA FirstStays ==
  ASSUME QInv, slot.phase = "tx", SendCheck \/ SendPut \/ FlushGet \/ UnusedRemove
  PROVE  ~IsEmpty(ring'[slot.n], Ring) /\ First(ring'[slot.n]) = First(ring[slot.n])
<1>1. PICK n : n = slot.n
  OBVIOUS
<1> DEFINE r == ring[n]
<1>2. n \in Nbr /\ r \in Rings(Ring) /\ ~IsEmpty(r, Ring) /\ ring \in [Nbr -> Rings(Ring)]
  BY <1>1, Transmits DEF QInv, Types, RingTypes
<1>3. Types /\ Stack /\ CallsInv
  BY DEF QInv
<1>4. CASE ring'[n] = r
  BY <1>1, <1>2, <1>4
<1>5. CASE SendCheck /\ ring'[n] # r
  <2> DEFINE b == FirstFree
             s == [r EXCEPT !.arr[r.put] = b]
  <2>1. used # Block /\ ring' = [ring EXCEPT ![Top.n].arr[ring[Top.n].put] = b]
    BY <1>5 DEF SendCheck
  <2>2. Top.n = n
    BY <1>2, <1>5, <2>1
  <2>3. ring'[n] = s
    BY <1>2, <2>1, <2>2
  <2>4. b \in Block
    BY <1>3, <2>1, FreeIs DEF Types, PacketTypes
  <2> HIDE DEF b
  <2>5. /\ s \in Rings(Ring) /\ Elements(s, Ring) = Elements(r, Ring)
        /\ Contents(s, Ring) = Contents(r, Ring)
    BY <1>2, <2>4, Sizes, RingStore
  <2> HIDE DEF s
  <2>6. ~IsEmpty(s, Ring)
    BY <1>2, <2>5 DEF IsEmpty
  <2>7. First(s) = Contents(s, Ring)[1] /\ First(r) = Contents(r, Ring)[1]
    BY <1>2, <2>5, <2>6, Sizes, FirstIs
  <2> QED
    BY <1>1, <2>3, <2>5, <2>6, <2>7
<1>6. CASE SendPut /\ ring'[n] # r
  <2> DEFINE s == [r EXCEPT !.put = (r.put + 1) % Ring]
  <2>1. ring' = [ring EXCEPT ![Top.n].put = (@ + 1) % Ring] /\ Top.do = "send" /\ Top.at = "put"
        /\ proc # <<>>
    BY <1>6 DEF SendPut, At
  <2>2. Top.n = n
    BY <1>2, <1>6, <2>1
  <2>3. ring'[n] = s
    BY <1>2, <2>1, <2>2 DEF Rings
  <2>4. ~Full(r, Ring)
    BY <1>3, <2>1, <2>2, Below DEF CallsInv, FrameInv
  <2>5. ~IsEmpty(s, Ring) /\ First(s) = First(r)
    BY <1>2, <2>4, Sizes, HeldPut
  <2> QED
    BY <1>1, <2>3, <2>5
<1>7. CASE FlushGet
  <2>1. proc # <<>> /\ Top.do = "flush" /\ ring' = [ring EXCEPT ![Top.n] = Get(ring[Top.n], Ring)]
    BY <1>7, FlushGetStep DEF FlushGet, At
  <2>2. Top.n # n
    BY <1>1, <2>1, FlushApart
  <2> QED
    BY <1>2, <1>4, <2>1, <2>2
<1>8. CASE UnusedRemove
  <2>1. IsEmpty(ring[Top.n], Ring) /\ ring' = [ring EXCEPT ![Top.n] = Empty(Ring)]
    BY <1>8, UnusedRemoveStep
  <2>2. Top.n # n
    BY <1>2, <2>1
  <2> QED
    BY <1>2, <1>4, <2>1, <2>2
<1> QED
  BY <1>4, <1>5, <1>6, <1>7, <1>8

LEMMA SendsFirstStep ==
  ASSUME QInv, [Next]_vars
  PROVE  SendsFirst'
<1>1. CASE SlotEnds
  BY <1>1 DEF SlotEnds, SlotEnd, SendsFirst, Idle
<1>2. ASSUME NEW l \in Links, SlotBegin(l) PROVE SendsFirst'
  <2>1. PICK n \in Candidates(l) :
          slot' = [phase |-> "tx", b |-> First(ring[n]), n |-> n, l |-> l, i |-> dq.put]
    BY <1>2 DEF SlotBegin
  <2>2. n \in Nbr /\ Ready(n, l)
    BY CandidateIs DEF QInv, Types
  <2>3. n \in known /\ ~IsEmpty(ring[n], Ring) /\ ~Full(dq, DqRing)
    BY <1>2, <2>2 DEF Ready, SlotBegin, Skips
  <2>4. UNCHANGED <<known, ring, dq>>
    BY <1>2 DEF SlotBegin
  <2> QED
    BY <2>1, <2>3, <2>4 DEF SendsFirst
<1>3. CASE /\ slot'.phase = slot.phase /\ slot'.n = slot.n /\ slot'.b = slot.b /\ slot'.i = slot.i
           /\ ~SlotEnds
  <2> SUFFICES ASSUME slot.phase = "tx"
               PROVE  /\ slot.n \in known' /\ ~IsEmpty(ring'[slot.n], Ring)
                      /\ First(ring'[slot.n]) = slot.b
                      /\ slot.i = dq'.put /\ ~Full(dq', DqRing)
    BY <1>3 DEF SendsFirst
  <2>1. /\ slot.n \in known /\ ~IsEmpty(ring[slot.n], Ring) /\ First(ring[slot.n]) = slot.b
        /\ slot.i = dq.put /\ ~Full(dq, DqRing) /\ dq \in Rings(DqRing)
    BY Transmits
  <2>2. slot.n \in known'
    <3>1. CASE UNCHANGED known \/ AddNbr
      BY <2>1, <3>1 DEF AddNbr
    <3>2. CASE UnusedRemove
      BY <2>1, <3>2, UnusedRemoveStep
    <3> QED
      BY <3>1, <3>2, Changes
  <2>3. ~IsEmpty(ring'[slot.n], Ring) /\ First(ring'[slot.n]) = slot.b
    <3>1. CASE UNCHANGED ring
      BY <2>1, <3>1
    <3>2. CASE ~UNCHANGED ring
      <4>1. SendCheck \/ SendPut \/ FlushGet \/ UnusedRemove
        BY <1>3, <3>2, Changes
      <4> QED
        BY <2>1, <4>1, FirstStays
    <3> QED
      BY <3>1, <3>2
  <2>4. slot.i = dq'.put /\ ~Full(dq', DqRing)
    <3>1. CASE UNCHANGED dq
      BY <2>1, <3>1
    <3>2. CASE PendingGet
      <4>1. dq' = Get(dq, DqRing) /\ ~IsEmpty(dq, DqRing)
        BY <3>2, PendingGetStep DEF PendingGet
      <4> QED
        BY <2>1, <4>1, Sizes, HeldGet
    <3> QED
      BY <1>3, <3>1, <3>2, Changes
  <2> QED
    BY <2>2, <2>3, <2>4
<1> QED
  <2>1. slot \in SlotRecs
    BY DEF QInv, Types, OtherTypes
  <2>2. UNCHANGED slot \/ SlotEnds \/ ResetNext \/ \E l \in Links : SlotBegin(l)
    BY Changes
  <2>3. CASE UNCHANGED slot
    BY <1>1, <1>3, <2>3
  <2>4. CASE ResetNext
    <3>1. slot' = slot \/ slot' = [slot EXCEPT !.l = NoLink]
      BY <2>4 DEF ResetNext
    <3> QED
      BY <1>1, <1>3, <2>1, <3>1 DEF SlotRecs
  <2> QED
    BY <1>1, <1>2, <2>2, <2>3, <2>4

(* The windows of the backoff. *)
Windows(bo) ==
  /\ bo \in [Nbr -> [exp : MinBE..MaxBE, win : Nat]]
  /\ \A n \in Nbr : bo[n].win = 0 \/ bo[n].win \in 1..2^bo[n].exp

LEMMA DecrementedIs ==
  ASSUME NEW bo, Windows(bo), NEW l
  PROVE  Windows(Decremented(bo, l))
<1> DEFINE d == Decremented(bo, l)
<1>1. \A n \in Nbr : d[n] = bo[n] \/ (bo[n].win # 0 /\ d[n] = [bo[n] EXCEPT !.win = @ - 1])
  BY DEF Decremented
<1>2. d = [n \in Nbr |-> d[n]]
  BY DEF Decremented
<1> HIDE DEF d
<1>3. ASSUME NEW n \in Nbr
      PROVE  /\ d[n] \in [exp : MinBE..MaxBE, win : Nat]
             /\ d[n].win = 0 \/ d[n].win \in 1..2^d[n].exp
  <2>1. bo[n] \in [exp : MinBE..MaxBE, win : Nat] /\ (bo[n].win = 0 \/ bo[n].win \in 1..2^bo[n].exp)
    BY DEF Windows
  <2>2. CASE d[n] = bo[n]
    BY <2>1, <2>2
  <2>3. CASE bo[n].win # 0 /\ d[n] = [bo[n] EXCEPT !.win = @ - 1]
    <3>1. PICK w : w = bo[n].win
      OBVIOUS
    <3>2. PICK e : e = 2^bo[n].exp
      OBVIOUS
    <3>3. w \in Nat /\ w # 0 /\ w \in 1..e /\ e \in Int
      BY <2>1, <2>3, <3>1, <3>2, QueueAssumption
    <3>4. d[n].exp = bo[n].exp /\ d[n].win = w - 1 /\ d[n] \in [exp : MinBE..MaxBE, win : Nat]
      BY <2>1, <2>3, <3>1, <3>3
    <3>5. w - 1 = 0 \/ w - 1 \in 1..e
      BY <3>3
    <3> QED
      BY <3>2, <3>4, <3>5
  <2> QED
    BY <1>1, <2>2, <2>3
<1>4. Windows(d)
  BY <1>2, <1>3 DEF Windows
<1> QED
  BY <1>4 DEF d

LEMMA NewWindow ==
  ASSUME NEW bo, Windows(bo), NEW n \in Nbr, NEW w \in Increased(bo[n]) \cup {NoBackoff}
  PROVE  Windows([bo EXCEPT ![n] = w])
<1>1. w \in [exp : MinBE..MaxBE, win : Nat] /\ (w.win = 0 \/ w.win \in 1..2^w.exp)
  <2>1. CASE w = NoBackoff
    BY <2>1, QueueAssumption DEF NoBackoff
  <2>2. CASE w \in Increased(bo[n])
    <3> DEFINE e == IF bo[n].exp + 1 <= MaxBE THEN bo[n].exp + 1 ELSE MaxBE
    <3>1. e \in MinBE..MaxBE
      BY QueueAssumption DEF Windows
    <3>2. PICK v \in 0..2^e - 1 : w = [exp |-> e, win |-> v + 1]
      BY <2>2 DEF Increased
    <3> HIDE DEF e
    <3>3. v + 1 \in Nat /\ v + 1 \in 1..2^e
      <4>1. PICK p : p = 2^e
        OBVIOUS
      <4>2. p \in Int
        BY <3>1, <4>1, QueueAssumption
      <4> QED
        BY <3>2, <4>1, <4>2
    <3> QED
      BY <3>1, <3>2, <3>3
  <2> QED
    BY <2>1, <2>2
<1> QED
  BY <1>1 DEF Windows


LEMMA TableTypesStep ==
  ASSUME QInv, [Next]_vars
  PROVE  TableTypes'
<1>1. Types /\ TableTypes /\ Windows(backoff) /\ ring \in [Nbr -> Rings(Ring)]
  BY DEF QInv, Types, TableTypes, RingTypes, Windows
<1>2. Virtual \subseteq known' /\ known' \subseteq Nbr
  <2>1. CASE UNCHANGED known
    BY <1>1, <2>1 DEF TableTypes
  <2>2. CASE AddNbr
    <3>1. proc # <<>> /\ known' \in {known, known \cup {Top.n}}
      BY <2>2 DEF AddNbr, At
    <3>2. Top.n \in Nbr
      BY <3>1, Below DEF QInv, Frames
    <3> QED
      BY <1>1, <3>1, <3>2 DEF TableTypes
  <2>3. CASE UnusedRemove
    BY <1>1, <2>3, UnusedRemoveStep DEF TableTypes
  <2> QED
    BY <2>1, <2>2, <2>3, Changes
<1>3. Windows(backoff')
  <2>1. CASE UNCHANGED backoff
    BY <1>1, <2>1
  <2>2. ASSUME NEW ok \in BOOLEAN, SlotEnd(ok) PROVE Windows(backoff')
    <3>1. slot.n \in Nbr
      BY <2>2, Transmits DEF SlotEnd
    <3>2. PICK shared \in BOOLEAN, last \in BOOLEAN :
            \E bo \in BackoffAfter(ok, slot.n, shared, last) :
              backoff' = Decremented([backoff EXCEPT ![slot.n] = bo], slot.l)
      <4>1. slot.l = NoLink \/ slot.l.shared \in BOOLEAN
        BY <1>1, QueueAssumption DEF Types, OtherTypes, SlotRecs
      <4>2. \A r : IsEmpty(r, Ring) \in BOOLEAN
        BY DEF IsEmpty
      <4> QED
        BY <2>2, <4>1, <4>2 DEF SlotEnd
    <3>3. PICK bo \in BackoffAfter(ok, slot.n, shared, last) :
            backoff' = Decremented([backoff EXCEPT ![slot.n] = bo], slot.l)
      BY <3>2
    <3>4. bo = backoff[slot.n] \/ bo \in Increased(backoff[slot.n]) \cup {NoBackoff}
      BY <3>3 DEF BackoffAfter
    <3>5. Windows([backoff EXCEPT ![slot.n] = bo])
      <4>1. CASE bo = backoff[slot.n]
        <5>1. [backoff EXCEPT ![slot.n] = bo] = backoff
          BY <1>1, <4>1 DEF Windows
        <5> QED
          BY <1>1, <5>1
      <4>2. CASE bo \in Increased(backoff[slot.n]) \cup {NoBackoff}
        BY <1>1, <3>1, <4>2, NewWindow
      <4> QED
        BY <3>4, <4>1, <4>2
    <3> QED
      BY <3>3, <3>5, DecrementedIs
  <2>3. CASE UnusedRemove \/ ResetBackoff
    <3>1. proc # <<>> /\ backoff' \in {backoff, [backoff EXCEPT ![Top.n] = NoBackoff]}
      BY <2>3 DEF UnusedRemove, ResetBackoff, At
    <3>2. Top.n \in Nbr
      BY <3>1, Below DEF QInv, Frames
    <3>3. Windows([backoff EXCEPT ![Top.n] = NoBackoff])
      <4>1. NoBackoff \in Increased(backoff[Top.n]) \cup {NoBackoff}
        OBVIOUS
      <4> QED
        BY <1>1, <3>2, <4>1, NewWindow
    <3> QED
      BY <1>1, <3>1, <3>3
  <2>4. ASSUME NEW l \in Links, SlotPass(l) PROVE Windows(backoff')
    BY <1>1, <2>4, DecrementedIs DEF SlotPass
  <2> QED
    BY <2>1, <2>2, <2>3, <2>4, Changes DEF SlotEnds
<1> QED
  BY <1>2, <1>3 DEF TableTypes, Windows

-----------------------------------------------------------------------------
(***************************************************************************)
(* The invariant.                                                          *)
(***************************************************************************)
LEMMA QInit ==
  Init => QInv
<1> SUFFICES ASSUME Init PROVE QInv
  OBVIOUS
<1>1. /\ pkt = [b \in Block |-> NoPacket] /\ used = {}
      /\ ring = [n \in Nbr |-> Empty(Ring)] /\ dq = Empty(DqRing)
      /\ known = Virtual /\ backoff = [n \in Nbr |-> NoBackoff]
      /\ locked = FALSE /\ slot = Idle /\ net = "out" /\ proc = <<>>
      /\ sent = 0 /\ count = [i \in Id |-> 0]
  BY DEF Init
<1>2. Types
  <2>1. NoPacket \in Rec /\ Idle \in SlotRecs
    BY QueueAssumption DEF NoPacket, Rec, Idle, SlotRecs
  <2>2. NoBackoff \in [exp : MinBE..MaxBE, win : Nat] /\ NoBackoff.win = 0
    BY QueueAssumption DEF NoBackoff
  <2>3. PacketTypes
    BY <1>1, <2>1 DEF PacketTypes
  <2>4. RingTypes
    BY <1>1, Sizes, EmptyIs DEF RingTypes
  <2>5. TableTypes
    BY <1>1, <2>2, QueueAssumption DEF TableTypes
  <2>6. OtherTypes
    <3>1. locked \in BOOLEAN /\ slot \in SlotRecs /\ net \in {"out", "joined", "leaving", "resetting"}
      BY <1>1, <2>1
    <3>2. sent \in 0..MaxSend /\ count \in [Id -> Nat]
      BY <1>1, QueueAssumption
    <3> QED
      BY <3>1, <3>2 DEF OtherTypes
  <2>7. proc \in Seq(Frames)
    BY <1>1
  <2> QED
    BY <2>3, <2>4, <2>5, <2>6, <2>7 DEF Types
<1>3. Stack /\ CallsInv
  <2>1. Calls(proc) = {} /\ Len(proc) = 0
    BY <1>1, NoCalls
  <2> QED
    BY <2>1 DEF Stack, Linked, CallsInv
<1>4. Ownership
  <2>1. \A n \in Nbr : Queued(n) = {} /\ OneEach(ring[n], Ring)
    BY <1>1, Sizes, EmptyIs DEF Queued
  <2>2. Finished = {} /\ OneEach(dq, DqRing)
    BY <1>1, Sizes, EmptyIs DEF Finished
  <2>3. Flushed = {} /\ Stored = {} /\ Freeing = {}
    BY <1>1, HoldNone
  <2>4. AllQueued = {}
    BY <2>1, QueuedIn
  <2> QED
    BY <1>1, <2>1, <2>2, <2>3, <2>4 DEF Ownership
<1>5. SendsFirst /\ ~Disturbed
  BY <1>1 DEF SendsFirst, Disturbed, Idle
<1> QED
  BY <1>2, <1>3, <1>4, <1>5 DEF QInv

LEMMA StackStep ==
  ASSUME QInv, [Next]_vars
  PROVE  proc' \in Seq(Frames) /\ Stack'
<1>1. Types /\ Stack /\ CallsInv
  BY DEF QInv
<1>2. ASSUME UNCHANGED <<proc, net>> PROVE proc' \in Seq(Frames) /\ Stack'
  BY <1>1, <1>2 DEF Types, Stack
<1>3. CASE UNCHANGED vars \/ SlotEnds \/ \E l \in Links : SlotPass(l) \/ SlotBegin(l)
  BY <1>2, <1>3 DEF vars, SlotEnds, SlotEnd, SlotPass, SlotBegin
<1>4. CASE ~(UNCHANGED vars \/ SlotEnds \/ \E l \in Links : SlotPass(l) \/ SlotBegin(l))
  BY <1>1, <1>4, StackInCall, StackCalls DEF Next, Step
<1> QED
  BY <1>3, <1>4

LEMMA QNext ==
  QInv /\ [Next /\ ~Disturbed']_vars => QInv'
<1> SUFFICES ASSUME QInv, [Next /\ ~Disturbed']_vars PROVE QInv'
  OBVIOUS
<1>1. [Next]_vars
  OBVIOUS
<1>2. Types'
  <2>1. PacketTypes' /\ TableTypes' /\ OtherTypes'
    BY <1>1, PacketTypesStep, TableTypesStep, OtherTypesStep
  <2>2. RingTypes'
    BY <1>1, SteadyStep DEF Steady
  <2>3. (proc \in Seq(Frames))'
    BY <1>1, StackStep
  <2> QED
    BY <2>1, <2>2, <2>3 DEF Types
<1>3. Stack' /\ CallsInv' /\ Ownership' /\ SendsFirst'
  BY <1>1, StackStep, SteadyStep, SendsFirstStep DEF Steady
<1>4. ~Disturbed'
  <2>1. UNCHANGED vars => (Disturbed' <=> Disturbed)
    BY DEF Disturbed, vars
  <2> QED
    BY <2>1 DEF QInv
<1> QED
  BY <1>2, <1>3, <1>4 DEF QInv

LEMMA QAlways == Spec => []QInv
BY QInit, QNext, PTL DEF Spec

(* The frame being sent is the first packet of its queue, and there is     *)
(* room for it among the finished packets: what tsch_tx_slot() removes at  *)
(* its end is what it has sent. Packets put behind it, callbacks that      *)
(* send, neighbours removed and finished packets taken meanwhile do not    *)
(* change that; the flush of this queue and leaving the network would, and *)
(* Spec leaves them out while a slot sends.                                *)
THEOREM FirstIsSent == Spec => []SendsFirst
BY QAlways, PTL DEF QInv


LEMMA AtMostOne ==
  ASSUME NEW S, \A x, y \in S : x = y
  PROVE  Cardinality(S) = IF S = {} THEN 0 ELSE 1
<1>1. CASE S = {}
  BY <1>1, FS_EmptySet
<1>2. CASE S # {}
  <2>1. PICK x \in S : TRUE
    BY <1>2
  <2>2. S = {x}
    BY <2>1
  <2> QED
    BY <1>2, <2>2, FS_Singleton
<1> QED
  BY <1>1, <1>2

(* At most one call flushes, and only the innermost one sends.             *)
LEMMA OneFlush ==
  ASSUME Types, Stack
  PROVE  /\ \A i, j \in 1..Len(proc) : proc[i].do = "flush" /\ proc[j].do = "flush" => i = j
         /\ \A i \in 1..Len(proc) : proc[i].do = "send" => i = 1
<1>1. proc \in Seq(Frames) /\ Linked(proc)
  BY DEF Types, Stack
<1>2. \A i \in 1..Len(proc) - 1 : Over(proc[i], proc[i + 1])
  BY <1>1 DEF Linked
<1>3. ASSUME NEW i \in 1..Len(proc), NEW j \in 1..Len(proc), i < j, proc[i].do = "flush",
             proc[j].do = "flush"
      PROVE  FALSE
  <2>1. i \in 1..Len(proc) - 1 /\ Over(proc[i], proc[i + 1])
    BY <1>1, <1>2, <1>3
  <2>2. proc[i + 1].do = "reset"
    BY <1>3, <2>1 DEF Over
  <2>3. i + 1 # j
    BY <1>3, <2>2
  <2>4. i + 1 \in 1..Len(proc) - 1
    BY <1>1, <1>3, <2>3
  <2>5. Over(proc[i + 1], proc[(i + 1) + 1])
    BY <1>2, <2>4
  <2> QED
    BY <2>2, <2>5 DEF Over
<1>4. ASSUME NEW i \in 1..Len(proc), proc[i].do = "send", i # 1 PROVE FALSE
  <2>1. i - 1 \in 1..Len(proc) - 1 /\ (i - 1) + 1 = i
    BY <1>1, <1>4
  <2>2. Over(proc[i - 1], proc[i])
    BY <1>2, <2>1
  <2> QED
    BY <1>4, <2>2 DEF Over
<1>5. \A i, j \in 1..Len(proc) : proc[i].do = "flush" /\ proc[j].do = "flush" => i = j
  <2>1. \A i, j \in 1..Len(proc) : i < j \/ j < i \/ i = j
    BY <1>1
  <2> QED
    BY <1>3, <2>1
<1> QED
  BY <1>4, <1>5

(* How often a block is held. *)
LEMMA HeldInQueue ==
  ASSUME QInv, NEW b \in Block
  PROVE  Cardinality(InQueue(b)) = IF b \in AllQueued THEN 1 ELSE 0
<1>1. Types /\ Ownership
  BY DEF QInv
<1>2. ASSUME NEW n \in Nbr PROVE ring[n] \in Rings(Ring) /\ Elements(ring[n], Ring) \in 0..Ring - 1
  BY <1>1, Sizes, RangeIs DEF Types, RingTypes
<1>3. ASSUME NEW p \in InQueue(b)
      PROVE  /\ p = <<p[1], p[2]>> /\ p[1] \in Nbr /\ p[2] \in 1..Elements(ring[p[1]], Ring)
             /\ Contents(ring[p[1]], Ring)[p[2]] = b /\ b \in Queued(p[1])
  <2>1. p \in Nbr \X (1..Ring) /\ p[2] <= Elements(ring[p[1]], Ring)
        /\ Contents(ring[p[1]], Ring)[p[2]] = b
    BY DEF InQueue
  <2>2. p = <<p[1], p[2]>> /\ p[1] \in Nbr /\ p[2] \in 1..Ring
    BY <2>1
  <2>3. p[2] \in 1..Elements(ring[p[1]], Ring)
    BY <1>2, <2>1, <2>2, Sizes
  <2> QED
    BY <2>1, <2>2, <2>3 DEF Queued, Held
<1>4. ASSUME NEW p \in InQueue(b), NEW q \in InQueue(b) PROVE p = q
  <2>1. p[1] = q[1]
    BY <1>1, <1>3 DEF Ownership
  <2>2. OneEach(ring[p[1]], Ring)
    BY <1>1, <1>3 DEF Ownership
  <2>3. p[2] = q[2]
    BY <1>3, <2>1, <2>2 DEF OneEach
  <2> QED
    BY <1>3, <2>1, <2>3
<1>5. InQueue(b) # {} <=> b \in AllQueued
  <2>1. ASSUME b \in AllQueued PROVE InQueue(b) # {}
    <3>1. PICK n \in Nbr : b \in Queued(n)
      BY <2>1, QueuedIn
    <3>2. PICK i \in 1..Elements(ring[n], Ring) : b = Contents(ring[n], Ring)[i]
      BY <3>1 DEF Queued, Held
    <3>3. i \in 1..Ring /\ i <= Elements(ring[n], Ring)
      BY <1>2, Sizes
    <3>4. <<n, i>> \in InQueue(b)
      BY <3>2, <3>3 DEF InQueue
    <3> QED
      BY <3>4
  <2>2. ASSUME InQueue(b) # {} PROVE b \in AllQueued
    BY <1>3, <2>2, QueuedIn
  <2> QED
    BY <2>1, <2>2
<1> QED
  BY <1>4, <1>5, AtMostOne

LEMMA HeldElsewhere ==
  ASSUME QInv, NEW b \in Block
  PROVE  /\ Cardinality(InDone(b)) = IF b \in Finished THEN 1 ELSE 0
         /\ Cardinality(InCall(b)) = IF b \in Flushed THEN 1 ELSE 0
         /\ Cardinality(InSend(b)) = IF b \in Stored THEN 1 ELSE 0
         /\ Freed(b) <=> b \in Freeing
<1>1. Types /\ Stack /\ CallsInv /\ Ownership /\ proc \in Seq(Frames)
  BY DEF QInv, Types
<1>2. Cardinality(InDone(b)) = IF b \in Finished THEN 1 ELSE 0
  <2>1. InDone(b) # {} <=> b \in Finished
    BY DEF InDone, Finished, Held
  <2>2. \A i, j \in InDone(b) : i = j
    BY <1>1 DEF InDone, Ownership, OneEach
  <2> QED
    BY <2>1, <2>2, AtMostOne
<1>3. Cardinality(InCall(b)) = IF b \in Flushed THEN 1 ELSE 0
  <2>1. InCall(b) # {} <=> b \in Flushed
    BY DEF InCall, Flushed, FlushedIn, Calls, Flushes
  <2>2. \A i, j \in InCall(b) : i = j
    BY <1>1, OneFlush DEF InCall
  <2> QED
    BY <2>1, <2>2, AtMostOne
<1>4. Cardinality(InSend(b)) = IF b \in Stored THEN 1 ELSE 0
  <2>1. \A f \in Calls(proc) : Stores(f) => ring[f.n].arr[ring[f.n].put] = f.b
    BY <1>1 DEF CallsInv, FrameInv, Stores
  <2>2. InSend(b) # {} <=> b \in Stored
    BY <2>1 DEF InSend, Stored, StoredIn, Calls, Stores
  <2>3. \A i, j \in InSend(b) : i = j
    BY <1>1, OneFlush DEF InSend
  <2> QED
    BY <2>2, <2>3, AtMostOne
<1>5. Freed(b) <=> b \in Freeing
  BY DEF Freed, Freeing, FreeingIn, Calls, Frees
<1> QED
  BY <1>2, <1>3, <1>4, <1>5

LEMMA OwnerIs ==
  QInv => OneOwner
<1> SUFFICES ASSUME QInv PROVE OneOwner
  OBVIOUS
<1>1. Types /\ Ownership
  BY DEF QInv
<1>2. TypeOK
  <2>1. pkt \in [Block -> Rec] /\ used \subseteq Block
    BY <1>1 DEF Types, PacketTypes
  <2>2. IsRing(dq, DqRing) /\ \A n \in Nbr : IsRing(ring[n], Ring)
    BY <1>1 DEF Types, RingTypes, Rings, IsRing
  <2>3. /\ Virtual \subseteq known /\ known \subseteq Nbr
        /\ \A n \in Nbr : /\ backoff[n].exp \in MinBE..MaxBE
                          /\ backoff[n].win = 0 \/ backoff[n].win \in 1..2^backoff[n].exp
    BY <1>1 DEF Types, TableTypes
  <2>4. /\ locked \in BOOLEAN /\ slot.phase \in {"idle", "tx"}
        /\ net \in {"out", "joined", "leaving", "resetting"}
        /\ sent \in 0..MaxSend /\ count \in [Id -> Nat]
    BY <1>1 DEF Types, OtherTypes, SlotRecs
  <2> QED
    BY <2>1, <2>2, <2>3, <2>4 DEF TypeOK
<1>3. ASSUME NEW b \in Block
      PROVE  Cardinality(InQueue(b)) + Cardinality(InDone(b)) + Cardinality(InCall(b))
               + Cardinality(InSend(b)) = IF b \in used \/ Freed(b) THEN 1 ELSE 0
  <2>1. b \in AllQueued => b \notin Finished /\ b \notin Flushed /\ b \notin Stored
    BY <1>1, QueuedIn DEF Ownership
  <2>2. /\ b \in Finished => b \notin Flushed /\ b \notin Stored
        /\ b \in Flushed => b \notin Stored
        /\ b \in used \/ b \in Freeing <=>
             b \in AllQueued \/ b \in Finished \/ b \in Flushed \/ b \in Stored
    BY <1>1 DEF Ownership
  <2> QED
    BY <2>1, <2>2, HeldInQueue, HeldElsewhere
<1> QED
  BY <1>2, <1>3 DEF OneOwner

(* No block of packet_memb leaks, is freed twice or sits in two places:    *)
(* when slots interrupt tsch_queue_add_packet(), the handling of finished  *)
(* packets or the flush of a queue other than the one they send from, each *)
(* block has one owner while it is allocated and none when it is free.     *)
THEOREM BlocksOwned == Spec => []OneOwner
BY QAlways, OwnerIs, PTL


-----------------------------------------------------------------------------
(***************************************************************************)
(* Packets and their callbacks.                                            *)
(***************************************************************************)
(* A call that has called the callback and is to free the packet, and one  *)
(* that does not know yet whether the packet can be queued.                *)
Closes(f) == f.do \in {"flush", "pending"} /\ f.at = "free"
Decides(f) == f.do = "send" /\ f.at # "put"
ClosingIn(F) == {f.b : f \in {h \in F : Closes(h)}}
Closing == ClosingIn(Calls(proc))
Deciding == \E f \in Calls(proc) : Decides(f)

Undone(i) == (i = sent /\ Deciding) \/ \E b \in used \ Closing : pkt[b].id = i

Reports ==
  /\ \A a, b \in used : pkt[a].id = pkt[b].id => a = b
  /\ \A b \in used : pkt[b].id \in 1..sent
  /\ Deciding => sent >= 1 /\ \A b \in used : pkt[b].id # sent
  /\ \A i \in Id : count[i] = IF i > sent \/ Undone(i) THEN 0 ELSE 1

(* A neighbour that is added starts with an empty queue. *)
UnknownEmpty == \A n \in Nbr \ known : IsEmpty(ring[n], Ring)

RInv == QInv /\ Reports /\ UnknownEmpty


LEMMA GoesOnTyped ==
  ASSUME QInv, [Next]_vars, proc # <<>>, NEW f, proc' = <<f>> \o Tail(proc)
  PROVE  f \in Frames
<1>1. proc' \in Seq(Frames) /\ Tail(proc) \in Seq(Frames)
  BY StackStep, Below DEF QInv
<1> DEFINE S == Frames \cup {f}
           t == Tail(proc)
<1>2. <<f>> \in Seq(S) /\ t \in Seq(S)
  <2>1. Frames \subseteq S
    OBVIOUS
  <2>2. t \in Seq(Frames)
    BY <1>1
  <2> HIDE DEF S, t
  <2>3. t \in Seq(S)
    BY <2>1, <2>2
  <2>4. f \in S
    BY DEF S
  <2> QED
    BY <2>3, <2>4
<1> HIDE DEF S, t
<1>3. Len(<<f>> \o t) >= 1 /\ (<<f>> \o t)[1] = f
  BY <1>2
<1>4. proc'[1] = f /\ Len(proc') >= 1
  BY <1>3 DEF t
<1> QED
  BY <1>1, <1>4

LEMMA CloseIn ==
  ASSUME NEW F, NEW f
  PROVE  ClosingIn({f} \cup F) = (IF Closes(f) THEN {f.b} ELSE {}) \cup ClosingIn(F)
BY DEF ClosingIn

LEMMA CloseNow ==
  ASSUME Types, Stack, proc # <<>>
  PROVE  /\ Closing = (IF Closes(Top) THEN {Top.b} ELSE {}) \cup ClosingIn(Calls(Tail(proc)))
         /\ Deciding <=> Decides(Top)
         /\ Top.do # "send" => ClosingIn(Calls(Tail(proc))) = {}
<1>1. Calls(proc) = {Top} \cup Calls(Tail(proc))
  BY Below
<1>2. \A f \in Calls(Tail(proc)) : ~Decides(f) /\ (Top.do # "send" => ~Closes(f))
  BY Below DEF Decides, Closes
<1>3. Closing = (IF Closes(Top) THEN {Top.b} ELSE {}) \cup ClosingIn(Calls(Tail(proc)))
  BY <1>1, CloseIn DEF Closing
<1>4. Deciding <=> Decides(Top)
  BY <1>1, <1>2 DEF Deciding
<1>5. Top.do # "send" => ClosingIn(Calls(Tail(proc))) = {}
  BY <1>2 DEF ClosingIn
<1> QED
  BY <1>3, <1>4, <1>5

LEMMA CloseGoesOn ==
  ASSUME QInv, [Next]_vars, proc # <<>>, NEW f, proc' = <<f>> \o Tail(proc)
  PROVE  /\ Closing' = (IF Closes(f) THEN {f.b} ELSE {}) \cup ClosingIn(Calls(Tail(proc)))
         /\ Deciding' <=> Decides(f)
<1>1. Calls(proc') = {f} \cup Calls(Tail(proc))
  BY GoesOnTyped, TopGoesOn DEF QInv
<1>2. \A h \in Calls(Tail(proc)) : ~Decides(h)
  BY Below DEF Decides, QInv
<1>3. Closing' = (IF Closes(f) THEN {f.b} ELSE {}) \cup ClosingIn(Calls(Tail(proc)))
  <2>1. ClosingIn({f} \cup Calls(Tail(proc)))
          = (IF Closes(f) THEN {f.b} ELSE {}) \cup ClosingIn(Calls(Tail(proc)))
    BY CloseIn
  <2> QED
    BY <1>1, <2>1 DEF Closing
<1>4. Deciding' <=> Decides(f)
  BY <1>1, <1>2 DEF Deciding
<1> QED
  BY <1>3, <1>4

LEMMA CloseReturns ==
  ASSUME QInv, proc # <<>>, proc' = Tail(proc)
  PROVE  Closing' = ClosingIn(Calls(Tail(proc))) /\ ~Deciding'
<1>1. \A h \in Calls(Tail(proc)) : ~Decides(h)
  BY Below DEF Decides, QInv
<1> QED
  BY <1>1 DEF Closing, Deciding

LEMMA CloseNone ==
  ASSUME \A f \in Calls(proc) : ~Closes(f) /\ ~Decides(f)
  PROVE  Closing = {} /\ ~Deciding
BY DEF Closing, ClosingIn, Deciding

(* Steps that decide nothing about a packet. *)
LEMMA Unreported ==
  ASSUME QInv, [Next]_vars,
         \/ TakeLock \/ SendPut \/ FlushTest \/ FlushGet \/ PendingPeek \/ PendingGet
         \/ UnusedNext \/ UnusedUnlock \/ UnusedRemove \/ ResetBackoff
         \/ Poll \/ Reset \/ ResetNext \/ \E n \in Nbr : FreePacketsTo(n)
  PROVE  Closing' = Closing /\ (Deciding' <=> Deciding)
<1>1. Types /\ Stack /\ CallsInv
  BY DEF QInv
<1>2. ASSUME proc # <<>>, proc' = Tail(proc), ~Closes(Top), ~Decides(Top)
      PROVE  Closing' = Closing /\ (Deciding' <=> Deciding)
  BY <1>1, <1>2, CloseNow, CloseReturns
<1>3. ASSUME NEW f, proc # <<>>, proc' = <<f>> \o Tail(proc), ~Closes(Top), ~Closes(f),
             Decides(f) <=> Decides(Top)
      PROVE  Closing' = Closing /\ (Deciding' <=> Deciding)
  <2>1. /\ Closing = (IF Closes(Top) THEN {Top.b} ELSE {}) \cup ClosingIn(Calls(Tail(proc)))
        /\ Deciding <=> Decides(Top)
    BY <1>1, <1>3, CloseNow
  <2>2. /\ Closing' = (IF Closes(f) THEN {f.b} ELSE {}) \cup ClosingIn(Calls(Tail(proc)))
        /\ Deciding' <=> Decides(f)
    BY <1>3, CloseGoesOn
  <2> QED
    BY <1>3, <2>1, <2>2
<1>4. ASSUME \A f \in Calls(proc) : ~Closes(f) /\ ~Decides(f),
             \A f \in Calls(proc') : ~Closes(f) /\ ~Decides(f)
      PROVE  Closing' = Closing /\ (Deciding' <=> Deciding)
  <2>1. Closing = {} /\ ~Deciding
    BY <1>4, CloseNone
  <2>2. Closing' = {} /\ ~Deciding'
    BY <1>4 DEF Closing, ClosingIn, Deciding
  <2> QED
    BY <2>1, <2>2
<1>5. proc # <<>> => Top \in Frames /\ FrameInv(Top)
  BY <1>1, Below DEF CallsInv
<1>6. CASE TakeLock
  <2>1. PICK f : f = [Top EXCEPT !.at = "locked"]
    OBVIOUS
  <2>2. proc # <<>> /\ Top.at = "lock" /\ proc' = <<f>> \o Tail(proc)
    BY <1>6, <2>1 DEF TakeLock, WantsLock, Goto, Top
  <2>3. f.do = Top.do /\ f.at = "locked"
    BY <1>5, <2>1, <2>2 DEF Frames
  <2> QED
    BY <1>3, <2>2, <2>3 DEF Closes, Decides
<1>7. CASE SendPut
  BY <1>2, <1>7 DEF SendPut, At, Return, Closes, Decides
<1>8. CASE FlushTest
  <2>1. PICK f : f = [Top EXCEPT !.at = "get", !.g = ring[Top.n].get]
    OBVIOUS
  <2>2. /\ proc # <<>> /\ Top.do = "flush" /\ Top.at = "test"
        /\ proc' = Tail(proc) \/ proc' = <<f>> \o Tail(proc)
    BY <1>8, <2>1 DEF FlushTest, At, Return
  <2>3. f.do = "flush" /\ f.at = "get"
    BY <1>5, <2>1, <2>2 DEF Frames
  <2> QED
    BY <1>2, <1>3, <2>2, <2>3 DEF Closes, Decides
<1>9. CASE FlushGet
  <2>1. PICK f : f = [Top EXCEPT !.at = "call", !.b = ring[Top.n].arr[Top.g]]
    OBVIOUS
  <2>2. proc # <<>> /\ Top.do = "flush" /\ Top.at = "get" /\ proc' = <<f>> \o Tail(proc)
    BY <1>9, <2>1 DEF FlushGet, At
  <2>3. f.do = "flush" /\ f.at = "call"
    BY <1>5, <2>1, <2>2 DEF Frames
  <2> QED
    BY <1>3, <2>2, <2>3 DEF Closes, Decides
<1>10. CASE PendingPeek
  <2>1. PICK f : f = [Top EXCEPT !.at = "call", !.b = First(dq)]
    OBVIOUS
  <2>2. PICK u : u = [Unused EXCEPT !.rest = known]
    OBVIOUS
  <2>3. /\ proc # <<>> /\ Top.do = "pending" /\ Top.at = "peek"
        /\ proc' = Tail(proc) \/ proc' = <<f>> \o Tail(proc) \/ proc' = <<u>> \o Tail(proc)
    BY <1>10, <2>1, <2>2 DEF PendingPeek, At
  <2>4. f.do = "pending" /\ f.at = "call" /\ u.do = "unused"
    BY <1>5, <2>1, <2>2, <2>3 DEF Frames, Unused, Frame
  <2> QED
    BY <1>2, <1>3, <2>3, <2>4 DEF Closes, Decides
<1>11. CASE PendingGet
  <2>1. PICK f : f = [Pending EXCEPT !.g = 1]
    OBVIOUS
  <2>2. proc # <<>> /\ Top.do = "pending" /\ Top.at = "get" /\ proc' = <<f>> \o Tail(proc)
    BY <1>11, <2>1 DEF PendingGet, At
  <2>3. f.do = "pending" /\ f.at = "peek"
    BY <2>1 DEF Pending, Frame
  <2> QED
    BY <1>3, <2>2, <2>3 DEF Closes, Decides
<1>12. CASE UnusedNext
  <2>1. proc # <<>> /\ Top.do = "unused"
    BY <1>12 DEF UnusedNext, At
  <2>2. CASE Return
    BY <1>2, <2>1, <2>2 DEF Return, Closes, Decides
  <2>3. CASE ~Return
    <3>1. PICK n \in Top.rest :
            proc' = <<[Top EXCEPT !.n = n, !.rest = @ \ {n},
                            !.at = IF IsUnused(n) THEN "lock" ELSE "next"]>> \o Tail(proc)
      BY <1>12, <2>3 DEF UnusedNext
    <3>2. PICK f : f = [Top EXCEPT !.n = n, !.rest = @ \ {n},
                               !.at = IF IsUnused(n) THEN "lock" ELSE "next"]
      OBVIOUS
    <3>3. f.do = "unused" /\ proc' = <<f>> \o Tail(proc)
      BY <1>5, <2>1, <3>1, <3>2 DEF Frames
    <3> QED
      BY <1>3, <2>1, <3>3 DEF Closes, Decides
  <2> QED
    BY <2>2, <2>3
<1>13. CASE UnusedUnlock
  <2>1. PICK f : f = [Top EXCEPT !.at = "remove"]
    OBVIOUS
  <2>2. proc # <<>> /\ Top.do = "unused" /\ proc' = <<f>> \o Tail(proc)
    BY <1>13, <2>1 DEF UnusedUnlock, At, Goto
  <2>3. f.do = "unused"
    BY <1>5, <2>1, <2>2 DEF Frames
  <2> QED
    BY <1>3, <2>2, <2>3 DEF Closes, Decides
<1>14. CASE UnusedRemove
  <2>1. PICK f : f = [Top EXCEPT !.at = "next"]
    OBVIOUS
  <2>2. proc # <<>> /\ Top.do = "unused" /\ proc' = <<f>> \o Tail(proc)
    BY <1>14, <2>1, UnusedRemoveStep DEF UnusedRemove, At, Goto
  <2>3. f.do = "unused"
    BY <1>5, <2>1, <2>2 DEF Frames
  <2> QED
    BY <1>3, <2>2, <2>3 DEF Closes, Decides
<1>15. CASE ResetBackoff
  <2>1. PICK f : f = [Top EXCEPT !.at = "next"]
    OBVIOUS
  <2>2. proc # <<>> /\ Top.do = "reset" /\ proc' = <<f>> \o Tail(proc)
    BY <1>15, <2>1 DEF ResetBackoff, At, Goto
  <2>3. f.do = "reset"
    BY <1>5, <2>1, <2>2 DEF Frames
  <2> QED
    BY <1>3, <2>2, <2>3 DEF Closes, Decides
<1>16. CASE Poll \/ \E n \in Nbr : FreePacketsTo(n)
  <2>1. PICK f \in Frames : proc = <<>> /\ proc' = <<f>> \o proc /\ ~Closes(f) /\ ~Decides(f)
    <3>1. CASE Poll
      <4>1. Pending \in Frames /\ Pending.do = "pending" /\ Pending.at = "peek"
        BY QueueAssumption, NewCalls DEF Pending, Frame
      <4> QED
        BY <3>1, <4>1 DEF Poll, Call, Closes, Decides
    <3>2. ASSUME NEW n \in Nbr, FreePacketsTo(n)
          PROVE  \E f \in Frames : /\ proc = <<>> /\ proc' = <<f>> \o proc
                                   /\ ~Closes(f) /\ ~Decides(f)
      <4>1. Flushing(n) \in Frames /\ Flushing(n).do = "flush" /\ Flushing(n).at = "test"
        BY NewCalls DEF Flushing, Frame
      <4> QED
        BY <3>2, <4>1 DEF FreePacketsTo, Call, Closes, Decides
    <3> QED
      BY <1>16, <3>1, <3>2
  <2>2. Calls(proc) = {} /\ Calls(proc') = {f}
    BY <1>1, <2>1, TopCalls, NoCalls
  <2> QED
    BY <1>4, <2>1, <2>2
<1>17. CASE Reset
  <2>1. PICK f : f = Pending
    OBVIOUS
  <2>2. PICK g : g = [Frame("reset", Bcast, "next") EXCEPT !.rest = known]
    OBVIOUS
  <2>3. f \in Frames /\ f.do = "pending" /\ f.at = "peek"
    BY <2>1, QueueAssumption, NewCalls DEF Pending, Frame
  <2>4. g \in Frames /\ g.do = "reset"
    BY <1>1, <2>2, QueueAssumption, NewCalls DEF Types, TableTypes, Frame
  <2>5. Calls(proc) = {} /\ Calls(proc') = {f, g}
    BY <1>17, <2>1, <2>2, <2>3, <2>4, NoCalls, CallsOf DEF Reset
  <2> QED
    BY <1>4, <2>3, <2>4, <2>5 DEF Closes, Decides
<1>18. CASE ResetNext
  <2>1. proc # <<>> /\ Top.do = "reset" /\ known \in SUBSET Nbr /\ Bcast \in Nbr
    BY <1>1, <1>18, QueueAssumption DEF ResetNext, At, Types, TableTypes
  <2>2. \A h \in Calls(proc) : ~Closes(h) /\ ~Decides(h)
    BY <1>1, <2>1, Below DEF Closes, Decides
  <2>3. ASSUME NEW n \in known,
               proc' = <<Flushing(n), [Top EXCEPT !.at = "backoff", !.n = n, !.rest = @ \ {n}]>>
        PROVE  \A h \in Calls(proc') : ~Closes(h) /\ ~Decides(h)
    <3>1. PICK f : f = Flushing(n)
      OBVIOUS
    <3>2. PICK g : g = [Top EXCEPT !.at = "backoff", !.n = n, !.rest = @ \ {n}]
      OBVIOUS
    <3>3. f \in Frames /\ f.do = "flush" /\ f.at = "test"
      BY <2>1, <3>1, NewCalls DEF Flushing, Frame
    <3>4. g \in Frames /\ g.do = "reset"
      BY <1>5, <2>1, <3>2 DEF Frames
    <3>5. Calls(proc') = {f, g}
      BY <2>3, <3>1, <3>2, <3>3, <3>4, CallsOf
    <3> QED
      BY <3>3, <3>4, <3>5 DEF Closes, Decides
  <2>4. CASE proc' = <<[Unused EXCEPT !.rest = known]>>
    <3>1. PICK f : f = [Unused EXCEPT !.rest = known]
      OBVIOUS
    <3>2. f \in Frames /\ f.do = "unused"
      BY <2>1, <3>1 DEF Unused, Frame, Frames
    <3>3. Calls(proc') = {f}
      BY <2>4, <3>1, <3>2, CallsOf
    <3> QED
      BY <1>4, <2>2, <3>2, <3>3 DEF Closes, Decides
  <2> QED
    BY <1>4, <1>18, <2>2, <2>3, <2>4 DEF ResetNext
<1> QED
  BY <1>6, <1>7, <1>8, <1>9, <1>10, <1>11, <1>12, <1>13, <1>14, <1>15, <1>16, <1>17, <1>18


LEMMA ReportsSame ==
  ASSUME Reports, UNCHANGED <<used, sent, count>>, \A b \in used : pkt'[b].id = pkt[b].id,
         Closing' = Closing, Deciding' <=> Deciding
  PROVE  Reports'
BY DEF Reports, Undone

LEMMA ClosingIs ==
  ASSUME QInv
  PROVE  Closing \subseteq Flushed \cup Finished
<1> SUFFICES ASSUME NEW f \in Calls(proc), Closes(f) PROVE f.b \in Flushed \cup Finished
  BY DEF Closing, ClosingIn
<1>1. CASE f.do = "flush"
  BY <1>1 DEF Closes, Flushed, FlushedIn, Flushes
<1>2. CASE f.do = "pending"
  <2>1. ~IsEmpty(dq, DqRing) /\ f.b = First(dq) /\ dq \in Rings(DqRing)
    BY <1>2 DEF Closes, QInv, CallsInv, FrameInv, Types, RingTypes
  <2> QED
    BY <2>1, Sizes, FirstIs DEF Finished
<1> QED
  BY <1>1, <1>2 DEF Closes

(* What packets are, and where: only packets in use are queued or closing. *)
LEMMA QueuedUsed ==
  ASSUME QInv
  PROVE  /\ AllQueued \subseteq used /\ Stored \subseteq used /\ Flushed \subseteq used
         /\ Closing \cap (AllQueued \cup Stored) = {}
         /\ Freeing \subseteq Finished
<1>1. Types /\ Ownership /\ CallsInv
  BY DEF QInv
<1>2. Freeing \subseteq Finished
  <2> SUFFICES ASSUME NEW f \in Calls(proc), Frees(f) PROVE f.b \in Finished
    BY DEF Freeing, FreeingIn
  <2>1. ~IsEmpty(dq, DqRing) /\ f.b = First(dq) /\ dq \in Rings(DqRing)
    BY <1>1 DEF Frees, CallsInv, FrameInv, Types, RingTypes
  <2> QED
    BY <2>1, Sizes, FirstIs DEF Finished
<1>3. AllQueued \cap (Finished \cup Flushed \cup Stored) = {}
  BY <1>1, QueuedIn DEF Ownership
<1>4. /\ Finished \cap (Flushed \cup Stored) = {} /\ Flushed \cap Stored = {}
      /\ used \cup Freeing = AllQueued \cup Finished \cup Flushed \cup Stored
  BY <1>1 DEF Ownership
<1> QED
  BY <1>2, <1>3, <1>4, ClosingIs

(* A packet that cannot be queued: its callback is called at once.         *)
LEMMA RefusedReports ==
  ASSUME RInv, UNCHANGED <<pkt, used, sent>>, count' = [count EXCEPT ![sent] = @ + 1],
         Deciding, ~Deciding', Closing' = Closing
  PROVE  Reports'
<1>1. sent \in Id /\ count \in [Id -> Nat] /\ sent \in Nat
  BY QueueAssumption DEF RInv, Reports, QInv, Types, OtherTypes, Id
<1>2. Id \subseteq Nat
  BY QueueAssumption DEF Id
<1>3. \A i \in Id : count'[i] = IF i = sent THEN count[i] + 1 ELSE count[i]
  BY <1>1
<1>4. count[sent] = 0 /\ ~\E b \in used \ Closing : pkt[b].id = sent
  BY <1>1 DEF RInv, Reports, Undone
<1> QED
  BY <1>1, <1>2, <1>3, <1>4 DEF RInv, Reports, Undone

LEMMA ReportsStep ==
  ASSUME RInv, [Next]_vars
  PROVE  Reports'
<1>1. QInv /\ Types /\ Stack /\ CallsInv /\ Ownership /\ Reports
  BY DEF RInv, QInv
<1>2. sent \in Nat /\ count \in [Id -> Nat] /\ MaxSend \in Nat /\ Id \subseteq Nat
  BY <1>1, QueueAssumption DEF Types, OtherTypes, Id
<1>3. CASE \/ UNCHANGED vars \/ Desync \/ Associate \/ Disassociate
           \/ \E l \in Links : SlotPass(l) \/ SlotBegin(l)
  <2>1. UNCHANGED <<pkt, used, sent, count, proc>>
    BY <1>3 DEF vars, Desync, Associate, Disassociate, SlotPass, SlotBegin
  <2>2. Closing' = Closing /\ (Deciding' <=> Deciding)
    BY <2>1 DEF Closing, Deciding
  <2> QED
    BY <1>1, <2>1, <2>2, ReportsSame
<1>4. ASSUME NEW ok \in BOOLEAN, SlotEnd(ok) PROVE Reports'
  <2>1. PICK p : p = [pkt[slot.b] EXCEPT !.tx = (@ + 1) % 256]
    OBVIOUS
  <2>2. /\ slot.phase = "tx" /\ pkt' = [pkt EXCEPT ![slot.b] = p]
        /\ UNCHANGED <<used, sent, count, proc>>
    BY <1>4, <2>1 DEF SlotEnd
  <2>3. slot.b \in Block /\ pkt \in [Block -> Rec] /\ used \subseteq Block
    BY <1>1, <2>2, Transmits DEF Types, PacketTypes
  <2>4. p.id = pkt[slot.b].id
    BY <2>1, <2>3 DEF Rec
  <2>5. \A b \in used : pkt'[b].id = pkt[b].id
    BY <2>2, <2>3, <2>4
  <2>6. Closing' = Closing /\ (Deciding' <=> Deciding)
    BY <2>2 DEF Closing, Deciding
  <2> QED
    BY <1>1, <2>2, <2>5, <2>6, ReportsSame
<1>5. CASE \/ TakeLock \/ SendPut \/ FlushTest \/ FlushGet \/ PendingPeek \/ PendingGet
           \/ UnusedNext \/ UnusedUnlock \/ UnusedRemove \/ ResetBackoff
           \/ Poll \/ Reset \/ ResetNext \/ \E n \in Nbr : FreePacketsTo(n)
  <2>1. UNCHANGED <<pkt, used, sent, count>>
    BY <1>5 DEF TakeLock, SendPut, FlushTest, FlushGet, PendingPeek, PendingGet, UnusedNext,
                UnusedUnlock, UnusedRemove, ResetBackoff, Poll, Reset, ResetNext, FreePacketsTo
  <2>2. Closing' = Closing /\ (Deciding' <=> Deciding)
    BY <1>1, <1>5, Unreported
  <2> QED
    BY <1>1, <2>1, <2>2, ReportsSame
<1>6. proc # <<>> => Top \in Frames /\ FrameInv(Top)
  BY <1>1, Below DEF CallsInv
<1>7. ASSUME proc # <<>>, Top.do = "send", Top.at # "put", proc' = Tail(proc)
      PROVE  Deciding /\ ~Deciding' /\ Closing' = Closing
  <2>1. Decides(Top) /\ ~Closes(Top)
    BY <1>7 DEF Decides, Closes
  <2> QED
    BY <1>1, <1>7, <2>1, CloseNow, CloseReturns
<1>8. CASE AddNbr
  <2>1. proc # <<>> /\ Top.do = "send" /\ Top.at = "locked" /\ UNCHANGED <<pkt, used, sent>>
    BY <1>8 DEF AddNbr, At
  <2>2. CASE Return /\ count' = [count EXCEPT ![sent] = @ + 1]
    BY <1>7, <2>1, <2>2, RefusedReports DEF Return
  <2>3. CASE Goto("check") /\ count' = count
    <3>1. PICK f : f = [Top EXCEPT !.at = "check"]
      OBVIOUS
    <3>2. f.do = "send" /\ f.at = "check" /\ proc' = <<f>> \o Tail(proc)
      BY <1>6, <2>1, <2>3, <3>1 DEF Frames, Goto
    <3>3. Decides(f) /\ Decides(Top) /\ ~Closes(f) /\ ~Closes(Top)
      BY <2>1, <3>2 DEF Decides, Closes
    <3>4. Closing' = Closing /\ (Deciding' <=> Deciding)
      BY <1>1, <2>1, <3>2, <3>3, CloseNow, CloseGoesOn
    <3> QED
      BY <1>1, <2>1, <2>3, <3>4, ReportsSame
  <2> QED
    BY <1>8, <2>2, <2>3 DEF AddNbr
<1>9. CASE SendCheck
  <2>1. proc # <<>> /\ Top.do = "send" /\ Top.at = "check" /\ sent' = sent
    BY <1>9 DEF SendCheck, At
  <2>2. CASE Return /\ count' = [count EXCEPT ![sent] = @ + 1] /\ UNCHANGED <<pkt, used>>
    BY <1>7, <2>1, <2>2, RefusedReports DEF Return
  <2>3. CASE ~(Return /\ count' = [count EXCEPT ![sent] = @ + 1] /\ UNCHANGED <<pkt, used>>)
    <3>1. PICK b : b = FirstFree
      OBVIOUS
    <3>2. PICK f : f = [Top EXCEPT !.at = "put", !.b = b]
      OBVIOUS
    <3>3. /\ used # Block /\ used' = used \cup {b} /\ proc' = <<f>> \o Tail(proc)
          /\ pkt' = [pkt EXCEPT ![b] = [id |-> sent, tx |-> 0, to |-> Top.n]] /\ count' = count
      BY <1>9, <2>3, <3>1, <3>2 DEF SendCheck
    <3>4. b \in Block \ used /\ pkt \in [Block -> Rec] /\ used \subseteq Block
      BY <1>1, <3>1, <3>3, FreeIs DEF Types, PacketTypes
    <3>5. f.do = "send" /\ f.at = "put"
      BY <1>6, <2>1, <3>2 DEF Frames
    <3>6. ~Decides(f) /\ Decides(Top) /\ ~Closes(f) /\ ~Closes(Top) /\ ~Frees(Top)
      BY <2>1, <3>5 DEF Decides, Closes, Frees
    <3>7. Closing' = Closing /\ Deciding /\ ~Deciding'
      BY <1>1, <2>1, <3>3, <3>6, CloseNow, CloseGoesOn
    <3>8. b \notin Closing
      <4>1. Freeing = {}
        BY <1>1, <2>1, <3>6, HoldNow
      <4>2. Flushed \cup Finished \subseteq used
        BY <1>1, <4>1 DEF Ownership
      <4> QED
        BY <1>1, <3>4, <4>2, ClosingIs
    <3>9. pkt'[b].id = sent /\ \A a \in used : pkt'[a].id = pkt[a].id
      BY <3>3, <3>4
    <3>10. sent \in 1..sent /\ \A a \in used : pkt[a].id # sent
      BY <1>1, <1>2, <3>7 DEF Reports
    <3>11. \A a, c \in used' : pkt'[a].id = pkt'[c].id => a = c
      BY <1>1, <3>3, <3>9, <3>10 DEF Reports
    <3>12. \A a \in used' : pkt'[a].id \in 1..sent
      BY <1>1, <3>3, <3>9, <3>10 DEF Reports
    <3>13. \A i \in Id : count'[i] = IF i > sent \/ Undone(i)' THEN 0 ELSE 1
      <4> SUFFICES ASSUME NEW i \in Id PROVE Undone(i)' <=> Undone(i)
        BY <1>1, <2>1, <3>3 DEF Reports
      <4>1. \A a : a \in used' \ Closing' <=> a = b \/ a \in used \ Closing
        BY <3>3, <3>4, <3>7, <3>8
      <4>2. Undone(i)' <=> \E a \in used' \ Closing' : pkt'[a].id = i
        BY <3>7 DEF Undone
      <4>3. Undone(i) <=> i = sent \/ \E a \in used \ Closing : pkt[a].id = i
        BY <3>7 DEF Undone
      <4> QED
        BY <3>9, <4>1, <4>2, <4>3
    <3> QED
      BY <2>1, <3>7, <3>11, <3>12, <3>13 DEF Reports
  <2> QED
    BY <2>2, <2>3
<1>10. CASE FreePacket
  <2>1. /\ proc # <<>> /\ Top.do \in {"flush", "pending"} /\ Top.at = "free"
        /\ used' = used \ {Top.b} /\ pkt' = [pkt EXCEPT ![Top.b] = NoPacket]
        /\ UNCHANGED <<sent, count>>
    BY <1>10 DEF FreePacket, At
  <2>2. PICK f : f = [Top EXCEPT !.at = IF Top.do = "flush" THEN "test" ELSE "get"]
    OBVIOUS
  <2>3. f.at \in {"test", "get"} /\ f.do = Top.do /\ proc' = <<f>> \o Tail(proc)
    BY <1>6, <1>10, <2>1, <2>2 DEF Frames, FreePacket, Goto
  <2>4. Closes(Top) /\ ~Closes(f) /\ ~Decides(Top) /\ ~Decides(f)
    BY <2>1, <2>3 DEF Decides, Closes
  <2>5. Closing = {Top.b} /\ ~Deciding
    BY <1>1, <2>1, <2>4, CloseNow
  <2>6. Closing' = {} /\ ~Deciding'
    <3>1. /\ Closing' = (IF Closes(f) THEN {f.b} ELSE {}) \cup ClosingIn(Calls(Tail(proc)))
          /\ Deciding' <=> Decides(f)
      BY <1>1, <2>1, <2>3, CloseGoesOn
    <3>2. ClosingIn(Calls(Tail(proc))) = {}
      BY <1>1, <2>1, CloseNow
    <3> QED
      BY <2>4, <3>1, <3>2
  <2>7. \A a \in used' : pkt'[a] = pkt[a]
    BY <1>1, <2>1 DEF Types, PacketTypes
  <2>8. used' \ Closing' = used \ Closing /\ used' \subseteq used
    BY <2>1, <2>5, <2>6
  <2>9. \A i \in Id : Undone(i)' <=> Undone(i)
    BY <2>1, <2>5, <2>6, <2>7, <2>8 DEF Undone
  <2> QED
    BY <1>1, <2>1, <2>6, <2>7, <2>8, <2>9 DEF Reports
<1>11. CASE Callback
  <2>1. /\ proc # <<>> /\ Top.do \in {"flush", "pending"} /\ Top.at = "call"
        /\ UNCHANGED <<pkt, used>> /\ count' = [count EXCEPT ![pkt[Top.b].id] = @ + 1]
    BY <1>11 DEF Callback, At, Report
  <2>2. PICK f : f = [Top EXCEPT !.at = "free"]
    OBVIOUS
  <2>3. f \in Frames /\ f.at = "free" /\ f.do = Top.do /\ f.b = Top.b
    BY <1>6, <2>1, <2>2 DEF Frames
  <2>4. Closes(f) /\ ~Closes(Top) /\ ~Decides(Top) /\ ~Decides(f) /\ ~Frees(Top)
    BY <2>1, <2>3 DEF Decides, Closes, Frees
  <2>5. Closing = {} /\ ~Deciding /\ ClosingIn(Calls(Tail(proc))) = {}
    BY <1>1, <2>1, <2>4, CloseNow
  <2>6. Top.b \in used
    <3>1. Top.b \in Flushed \cup Finished
      <4>1. CASE Top.do = "flush"
        <5>1. Flushes(Top) /\ Top \in Calls(proc)
          BY <1>1, <2>1, <4>1, Below DEF Flushes
        <5> QED
          BY <5>1 DEF Flushed, FlushedIn
      <4>2. CASE Top.do = "pending"
        <5>1. ~IsEmpty(dq, DqRing) /\ Top.b = First(dq) /\ dq \in Rings(DqRing)
          BY <1>1, <1>6, <2>1, <4>2 DEF FrameInv, Types, RingTypes
        <5> QED
          BY <5>1, Sizes, FirstIs DEF Finished
      <4> QED
        BY <2>1, <4>1, <4>2
    <3>2. Freeing = {}
      BY <1>1, <2>1, <2>4, HoldNow
    <3> QED
      BY <1>1, <3>1, <3>2 DEF Ownership
  <2>7. PICK x : x = pkt[Top.b].id
    OBVIOUS
  <2>8. x \in 1..sent /\ x \in Id /\ count[x] = 0
    <3>1. x \in 1..sent /\ x \in Id
      BY <1>1, <1>2, <2>6, <2>7 DEF Reports, Types, OtherTypes, Id
    <3>2. Undone(x)
      BY <2>5, <2>6, <2>7 DEF Undone
    <3> QED
      BY <1>1, <3>1, <3>2 DEF Reports
  <2>9. \A i \in Id : count'[i] = IF i = x THEN 1 ELSE count[i]
    BY <1>2, <2>1, <2>7, <2>8
  <2>10. \A i \in Id : (\E b \in used \ {Top.b} : pkt[b].id = i) <=> Undone(i) /\ i # x
    BY <1>1, <2>5, <2>6, <2>7 DEF Undone, Reports
  <2>11. CASE proc' = <<f>> \o Tail(proc) /\ sent' = sent
    <3>1. Closing' = {Top.b} /\ ~Deciding'
      BY <1>1, <2>1, <2>3, <2>4, <2>5, <2>11, CloseGoesOn
    <3>2. \A i \in Id : Undone(i)' <=> Undone(i) /\ i # x
      BY <2>1, <2>10, <3>1 DEF Undone
    <3> QED
      BY <1>1, <1>2, <2>1, <2>8, <2>9, <2>11, <3>1, <3>2 DEF Reports
  <2>12. CASE sent' = sent + 1 /\ \E n \in Nbr \ Virtual : proc' = <<Sending(n), f>> \o Tail(proc)
    <3>1. PICK n \in Nbr : proc' = <<Sending(n), f>> \o Tail(proc)
      BY <2>12
    <3>2. PICK g : g = Sending(n)
      OBVIOUS
    <3>3. g \in Frames /\ g.do = "send" /\ g.at \in {"check", "lock"}
      BY <3>2, NewCalls DEF Sending, Frame
    <3>4. Calls(proc') = {g} \cup ({f} \cup Calls(Tail(proc)))
      <4>1. Tail(proc) \in Seq(Frames)
        BY <1>1, <2>1, Below
      <4>2. proc' = <<g>> \o (<<f>> \o Tail(proc))
        BY <2>3, <3>1, <3>2, <3>3, <4>1
      <4>3. <<f>> \o Tail(proc) \in Seq(Frames) /\ Calls(<<f>> \o Tail(proc)) = {f} \cup Calls(Tail(proc))
        BY <2>3, <4>1, PushIs
      <4> QED
        BY <3>3, <4>2, <4>3, PushIs
    <3>5. Decides(g) /\ ~Closes(g)
      BY <3>3 DEF Decides, Closes
    <3>6. Closing' = {Top.b} /\ Deciding'
      <4> DEFINE T == Calls(Tail(proc))
                 X == {f} \cup T
      <4>1. Calls(proc') = {g} \cup X /\ ClosingIn(T) = {}
        BY <2>5, <3>4
      <4> HIDE DEF T, X
      <4>2. ClosingIn({g} \cup X) = (IF Closes(g) THEN {g.b} ELSE {}) \cup ClosingIn(X)
        BY CloseIn
      <4>3. ClosingIn(X) = (IF Closes(f) THEN {f.b} ELSE {}) \cup ClosingIn(T)
        BY CloseIn DEF X
      <4>4. ClosingIn({g} \cup X) = ClosingIn(X)
        BY <3>5, <4>2
      <4>5. ClosingIn(X) = {Top.b}
        BY <2>3, <2>4, <4>1, <4>3
      <4>6. Closing' = {Top.b}
        BY <4>1, <4>4, <4>5 DEF Closing
      <4>7. Deciding'
        BY <3>5, <4>1 DEF Deciding
      <4> QED
        BY <4>6, <4>7
    <3>7. \A i \in Id : Undone(i)' <=> i = sent' \/ (Undone(i) /\ i # x)
      BY <2>1, <2>10, <3>6 DEF Undone
    <3>8. \A b \in used : pkt[b].id # sent + 1
      BY <1>1, <1>2 DEF Reports
    <3>9. ASSUME NEW i \in Id PROVE count'[i] = IF i > sent' \/ Undone(i)' THEN 0 ELSE 1
      <4>1. /\ count[i] = IF i > sent \/ Undone(i) THEN 0 ELSE 1
            /\ count'[i] = IF i = x THEN 1 ELSE count[i]
            /\ Undone(i)' <=> i = sent + 1 \/ (Undone(i) /\ i # x)
        BY <1>1, <2>9, <2>12, <3>7 DEF Reports
      <4>2. i \in Nat /\ x \in 1..sent /\ sent \in Nat /\ sent' = sent + 1
        BY <1>2, <2>8, <2>12
      <4>3. CASE i = x
        BY <4>1, <4>2, <4>3
      <4>4. CASE i # x /\ i <= sent
        BY <4>1, <4>2, <4>4
      <4>5. CASE i > sent
        BY <4>1, <4>2, <4>5
      <4> QED
        BY <4>2, <4>3, <4>4, <4>5
    <3>10. \A b \in used' : pkt'[b].id \in 1..sent'
      BY <1>1, <1>2, <2>1, <2>12 DEF Reports
    <3> QED
      BY <1>1, <1>2, <2>1, <2>12, <3>6, <3>8, <3>9, <3>10 DEF Reports
  <2> QED
    BY <1>11, <2>2, <2>11, <2>12 DEF Callback
<1>12. ASSUME NEW n \in Nbr, Send(n) PROVE Reports'
  <2>1. proc = <<>> /\ sent < MaxSend /\ sent' = sent + 1 /\ UNCHANGED <<pkt, used>>
    BY <1>12 DEF Send, CanSend
  <2>2. sent + 1 \in Id /\ sent + 1 \in Nat
    BY <1>2, <2>1 DEF Id
  <2>3. Closing = {} /\ ~Deciding
    BY <2>1, NoCalls, CloseNone
  <2>4. \A b \in used : pkt[b].id \in 1..sent /\ pkt[b].id # sent + 1
    BY <1>1, <1>2 DEF Reports
  <2>5. count[sent + 1] = 0
    BY <1>1, <1>2, <2>2 DEF Reports
  <2>6. \A b \in used' : pkt'[b].id \in 1..sent'
    BY <1>2, <2>1, <2>4
  <2>7. CASE count' = count /\ Call(Sending(n))
    <3>1. Sending(n) \in Frames /\ Decides(Sending(n)) /\ ~Closes(Sending(n))
      BY NewCalls DEF Sending, Frame, Decides, Closes
    <3>2. Calls(proc') = {Sending(n)}
      BY <1>1, <2>1, <2>7, <3>1, TopCalls, NoCalls DEF Call
    <3>3. Closing' = {} /\ Deciding'
      BY <3>1, <3>2 DEF Closing, ClosingIn, Deciding
    <3>4. \A i \in Id : Undone(i)' <=> i = sent + 1 \/ Undone(i)
      BY <2>1, <2>3, <3>3 DEF Undone
    <3>5. \A i \in Id : count'[i] = IF i > sent' \/ Undone(i)' THEN 0 ELSE 1
      BY <1>1, <1>2, <2>1, <2>5, <2>7, <3>4 DEF Reports
    <3> QED
      BY <1>1, <1>2, <2>1, <2>4, <2>6, <3>3, <3>5 DEF Reports
  <2>8. CASE count' = [count EXCEPT ![sent'] = @ + 1] /\ proc' = proc
    <3>1. Closing' = {} /\ ~Deciding'
      BY <2>3, <2>8 DEF Closing, Deciding
    <3>2. \A i \in Id : Undone(i)' <=> Undone(i)
      BY <2>1, <2>3, <3>1 DEF Undone
    <3>3. \A i \in Id : count'[i] = IF i = sent + 1 THEN 1 ELSE count[i]
      BY <1>2, <2>1, <2>2, <2>5, <2>8
    <3>4. ~Undone(sent + 1)
      BY <2>3, <2>4 DEF Undone
    <3>5. \A i \in Id : count'[i] = IF i > sent' \/ Undone(i)' THEN 0 ELSE 1
      BY <1>1, <1>2, <2>1, <3>2, <3>3, <3>4 DEF Reports
    <3> QED
      BY <1>1, <1>2, <2>1, <2>6, <3>1, <3>5 DEF Reports
  <2> QED
    BY <1>12, <2>7, <2>8 DEF Send
<1> QED
  BY <1>3, <1>4, <1>5, <1>8, <1>9, <1>10, <1>11, <1>12 DEF Next, Step, SlotEnds


LEMMA UnknownEmptyStep ==
  ASSUME RInv, [Next]_vars
  PROVE  UnknownEmpty'
<1>1. QInv /\ Types /\ Stack /\ CallsInv /\ UnknownEmpty
  BY DEF RInv, QInv
<1>2. ring \in [Nbr -> Rings(Ring)] /\ known \subseteq Nbr
  BY <1>1 DEF Types, RingTypes, TableTypes
<1>3. IsEmpty(Empty(Ring), Ring)
  BY Sizes, EmptyIs DEF IsEmpty
<1>4. CASE UnusedRemove
  <2>1. ring' = [ring EXCEPT ![Top.n] = Empty(Ring)] /\ known' = known \ {Top.n}
    BY <1>1, <1>4, UnusedRemoveStep
  <2> QED
    BY <1>1, <1>2, <1>3, <2>1 DEF UnknownEmpty
<1>5. CASE ~UnusedRemove
  <2>1. known \subseteq known'
    BY <1>5, Changes DEF AddNbr
  <2>2. ASSUME NEW n \in Nbr \ known PROVE ring'[n] = ring[n]
    <3>1. CASE UNCHANGED ring
      BY <3>1
    <3>2. ASSUME NEW ok \in BOOLEAN, SlotEnd(ok) PROVE ring'[n] = ring[n]
      <4>1. slot.n \in known
        BY <1>1, <3>2, Transmits DEF SlotEnd
      <4>2. ring' = ring \/ ring' = [ring EXCEPT ![slot.n] = Get(ring[slot.n], Ring)]
        BY <1>1, <3>2, SlotEndStep
      <4> QED
        BY <1>2, <4>1, <4>2
    <3>3. CASE SendCheck \/ SendPut
      <4>1. proc # <<>> /\ Top.do = "send" /\ Top.at \in {"check", "put"}
        BY <3>3 DEF SendCheck, SendPut, At
      <4>2. Top.n \in known
        BY <1>1, <4>1, Below DEF CallsInv, FrameInv
      <4> QED
        BY <1>2, <3>3, <4>2 DEF SendCheck, SendPut
    <3>4. CASE FlushGet
      <4>1. Top.n \in known /\ ring' = [ring EXCEPT ![Top.n] = Get(ring[Top.n], Ring)]
        BY <1>1, <3>4, FlushGetStep
      <4> QED
        BY <1>2, <4>1
    <3> QED
      BY <1>5, <3>1, <3>2, <3>3, <3>4, Changes DEF SlotEnds
  <2> QED
    BY <1>1, <2>1, <2>2 DEF UnknownEmpty
<1> QED
  BY <1>4, <1>5

LEMMA RAlways == Spec => []RInv
<1>1. Init => RInv
  <2> SUFFICES ASSUME Init PROVE RInv
    OBVIOUS
  <2>1. QInv /\ proc = <<>> /\ used = {} /\ sent = 0 /\ ring = [n \in Nbr |-> Empty(Ring)]
        /\ count = [i \in Id |-> 0]
    BY QInit DEF Init
  <2>2. ~Deciding
    BY <2>1, NoCalls DEF Deciding
  <2>3. Reports
    <3>1. \A i \in Id : i > sent
      BY <2>1, QueueAssumption DEF Id
    <3> QED
      BY <2>1, <2>2, <3>1 DEF Reports
  <2>4. UnknownEmpty
    BY <2>1, Sizes, EmptyIs DEF UnknownEmpty, IsEmpty
  <2> QED
    BY <2>1, <2>3, <2>4 DEF RInv
<1>2. RInv /\ [Next /\ ~Disturbed']_vars => RInv'
  <2> SUFFICES ASSUME RInv, [Next /\ ~Disturbed']_vars PROVE RInv'
    OBVIOUS
  <2>1. QInv'
    BY QNext DEF RInv
  <2>2. Reports' /\ UnknownEmpty'
    BY ReportsStep, UnknownEmptyStep
  <2> QED
    BY <2>1, <2>2 DEF RInv
<1> QED
  BY <1>1, <1>2, PTL DEF Spec

LEMMA ReportedIs ==
  RInv => ReportedOnce
<1> SUFFICES ASSUME RInv PROVE ReportedOnce
  OBVIOUS
<1>1. QInv /\ Reports /\ Types /\ Stack /\ proc \in Seq(Frames)
  BY DEF RInv, QInv, Types
<1>2. Waiting = used \ Closing
  BY DEF Waiting, Closing, ClosingIn, Closes, Calls
<1>3. ASSUME NEW i \in 1..sent
      PROVE  count[i] + Cardinality({b \in Waiting : pkt[b].id = i})
               + Cardinality({k \in 1..Len(proc) : proc[k].do = "send" /\ proc[k].at # "put"
                                                   /\ i = sent}) = 1
  <2> DEFINE P == {b \in Waiting : pkt[b].id = i}
             D == {k \in 1..Len(proc) : proc[k].do = "send" /\ proc[k].at # "put" /\ i = sent}
  <2>1. Cardinality(P) = IF P = {} THEN 0 ELSE 1
    <3>1. \A a, b \in P : a = b
      BY <1>1, <1>2 DEF Reports
    <3> HIDE DEF P
    <3> QED
      BY <3>1, AtMostOne
  <2>2. Cardinality(D) = IF D = {} THEN 0 ELSE 1
    <3>1. \A a, b \in D : a = b
      BY <1>1, OneFlush
    <3> HIDE DEF D
    <3> QED
      BY <3>1, AtMostOne
  <2>3. D # {} <=> i = sent /\ Deciding
    BY DEF Deciding, Decides, Calls
  <2>4. P # {} <=> \E b \in used \ Closing : pkt[b].id = i
    BY <1>2
  <2>5. ~(D # {} /\ P # {})
    BY <1>1, <1>2, <2>3 DEF Reports
  <2>6. count[i] = IF D # {} \/ P # {} THEN 0 ELSE 1
    <3>1. i \in Id /\ ~(i > sent)
      BY <1>1, QueueAssumption DEF Types, OtherTypes, Id
    <3>2. count[i] = IF i > sent \/ Undone(i) THEN 0 ELSE 1
      BY <1>1, <3>1 DEF Reports
    <3>3. Undone(i) <=> D # {} \/ P # {}
      BY <2>3, <2>4 DEF Undone
    <3> HIDE DEF D, P
    <3> QED
      BY <3>1, <3>2, <3>3
  <2> HIDE DEF D, P
  <2>7. count[i] + Cardinality(P) + Cardinality(D) = 1
    BY <2>1, <2>2, <2>5, <2>6
  <2> QED
    BY <2>7 DEF D, P
<1> QED
  BY <1>3 DEF ReportedOnce

(* The sent callback of every packet handed to send_packet() is called     *)
(* once: refused, sent, dropped after too many attempts or flushed, the    *)
(* packet is still waiting in one place or has been reported, never both   *)
(* and never twice; unless it is flushed while a slot sends it, which Spec *)
(* leaves out.                                                             *)
THEOREM PacketsReportedOnce == Spec => []ReportedOnce
BY RAlways, ReportedIs, PTL


-----------------------------------------------------------------------------
(***************************************************************************)
(* The queues implement MacQueue.                                          *)
(***************************************************************************)
(* The packets that are finished: allocated, and neither queued nor being  *)
(* queued.                                                                 *)
Holding == used \ (AllQueued \cup Stored)
IdsIn(S) == {pkt[b].id : b \in S}

Mapped ==
  /\ MacQueues = [n \in Nbr |-> Ids(ring[n])]
  /\ MacDone = IdsIn(Holding) \ Reported

LEMMA HoldingIs ==
  ASSUME QInv
  PROVE  Holding = (Finished \cup Flushed) \cap used
<1>1. Ownership
  BY DEF QInv
<1>2. \A n \in Nbr : Queued(n) \cap (Finished \cup Flushed \cup Stored) = {}
  BY <1>1 DEF Ownership
<1>3. AllQueued \cap (Finished \cup Flushed \cup Stored) = {}
  BY <1>2, QueuedIn
<1> QED
  BY <1>1, <1>3 DEF Ownership, Holding

LEMMA QueueIds ==
  ASSUME QInv, NEW n \in Nbr
  PROVE  /\ Elements(ring[n], Ring) \in Nat
         /\ \A k \in 1..Elements(ring[n], Ring) :
              /\ Contents(ring[n], Ring)[k] \in Queued(n)
              /\ Contents(ring[n], Ring)[k] \in AllQueued
              /\ Ids(ring[n])[k] = pkt[Contents(ring[n], Ring)[k]].id
         /\ Ids(ring[n]) \in Seq(Nat) /\ Len(Ids(ring[n])) = Elements(ring[n], Ring)
<1>1. ring[n] \in Rings(Ring) /\ Elements(ring[n], Ring) \in Nat
  BY Sizes, RangeIs DEF QInv, Types, RingTypes
<1>2. \A k \in 1..Elements(ring[n], Ring) : Contents(ring[n], Ring)[k] \in Queued(n)
  BY DEF Queued, Held
<1>3. \A k \in 1..Elements(ring[n], Ring) : Contents(ring[n], Ring)[k] \in AllQueued
  BY <1>2, QueuedIn
<1>4. \A b \in AllQueued : pkt[b].id \in Nat
  <2>1. AllQueued \subseteq Block
    BY QueuedUsed DEF QInv, Types, PacketTypes
  <2> QED
    BY <2>1, QueueAssumption DEF QInv, Types, PacketTypes, Rec
<1> DEFINE m == Elements(ring[n], Ring)
           c == Contents(ring[n], Ring)
<1>5. Ids(ring[n]) = [k \in 1..m |-> pkt[c[k]].id]
  BY DEF Ids
<1> HIDE DEF m, c
<1>6. \A k \in 1..m : pkt[c[k]].id \in Nat
  BY <1>3, <1>4 DEF m, c
<1>7. Ids(ring[n]) \in Seq(Nat) /\ Len(Ids(ring[n])) = m
  BY <1>1, <1>5, <1>6 DEF m
<1>8. \A k \in 1..m : Ids(ring[n])[k] = pkt[c[k]].id
  BY <1>5
<1> QED
  BY <1>1, <1>2, <1>3, <1>7, <1>8 DEF m, c

LEMMA MacIs == RInv => Mapped
<1> SUFFICES ASSUME RInv PROVE Mapped
  OBVIOUS
<1>1. QInv /\ UnknownEmpty
  BY DEF RInv
<1>2. MacQueues = [n \in Nbr |-> Ids(ring[n])]
  <2>1. ASSUME NEW n \in Nbr, n \notin known PROVE Ids(ring[n]) = <<>>
    <3>1. Elements(ring[n], Ring) = 0
      BY <1>1, <2>1 DEF UnknownEmpty, IsEmpty
    <3>2. Ids(ring[n]) \in Seq(Nat) /\ Len(Ids(ring[n])) = 0
      BY <1>1, <3>1, QueueIds
    <3> QED
      BY <3>2
  <2> QED
    BY <2>1 DEF MacQueues
<1>3. InHand \cap used = Holding
  <2>1. used \subseteq Block
    BY <1>1 DEF QInv, Types, PacketTypes
  <2>2. \A b \in used : b \in InHand <=> b \in Finished \/ b \in Flushed
    BY <2>1 DEF InHand, InDone, Finished, Held, InCall, Flushed, FlushedIn, Calls, Flushes
  <2> QED
    BY <1>1, <2>2, HoldingIs
<1> QED
  BY <1>2, <1>3 DEF Mapped, MacDone, IdsIn

LEMMA MacIsNext ==
  ASSUME RInv'
  PROVE  Mapped'
BY MacIs, PTL

(* Packets that are allocated, and their callbacks.                        *)
LEMMA Fates ==
  ASSUME RInv
  PROVE  /\ \A b \in used : /\ pkt[b].id \in Id
                            /\ pkt[b].id \in Reported <=> b \in Closing
         /\ \A a, b \in used : pkt[a].id = pkt[b].id => a = b
         /\ Deciding => sent \in Id \ Reported /\ \A b \in used : pkt[b].id # sent
<1>1. Reports /\ sent \in Nat /\ sent <= MaxSend /\ MaxSend \in Nat
  BY QueueAssumption DEF RInv, QInv, Types, OtherTypes
<1>2. ASSUME NEW b \in used
      PROVE  pkt[b].id \in Id /\ (pkt[b].id \in Reported <=> b \in Closing)
  <2>1. pkt[b].id \in 1..sent /\ pkt[b].id \in Id /\ ~(pkt[b].id > sent)
    BY <1>1 DEF Reports, Id
  <2>2. Undone(pkt[b].id) <=> b \notin Closing
    BY <1>1, <2>1 DEF Undone, Reports
  <2>3. count[pkt[b].id] = IF Undone(pkt[b].id) THEN 0 ELSE 1
    BY <1>1, <2>1 DEF Reports
  <2> QED
    BY <2>1, <2>2, <2>3 DEF Reported
<1>3. ASSUME Deciding PROVE sent \in Id \ Reported /\ \A b \in used : pkt[b].id # sent
  <2>1. sent \in Id /\ Undone(sent)
    BY <1>1, <1>3 DEF Reports, Undone, Id
  <2>2. count[sent] = 0
    BY <1>1, <2>1 DEF Reports
  <2> QED
    BY <1>1, <1>3, <2>1, <2>2 DEF Reports, Reported
<1> QED
  BY <1>1, <1>2, <1>3 DEF Reports

LEMMA FreshIs ==
  ASSUME RInv, NEW i \in Id, i \notin Reported,
         \A b \in AllQueued \cup Holding : pkt[b].id # i
  PROVE  Mac!Fresh(i)
<1>1. Mapped /\ QInv
  BY MacIs DEF RInv
<1>2. i \notin MacDone
  BY <1>1 DEF Mapped, IdsIn
<1>3. ASSUME NEW n \in Nbr, NEW k \in 1..Len(MacQueues[n]) PROVE MacQueues[n][k] # i
  <2>1. MacQueues[n] = Ids(ring[n])
    BY <1>1 DEF Mapped
  <2>2. k \in 1..Elements(ring[n], Ring)
    BY <1>1, <1>3, <2>1, QueueIds
  <2> QED
    BY <1>1, <2>1, <2>2, QueueIds
<1> QED
  BY <1>2, <1>3 DEF Mac!Fresh

(* Queues whose contents stay.                                             *)
LEMMA IdsSame ==
  ASSUME QInv, NEW n \in Nbr, \A b \in AllQueued : pkt'[b].id = pkt[b].id,
         Contents(ring'[n], Ring) = Contents(ring[n], Ring),
         Elements(ring'[n], Ring) = Elements(ring[n], Ring)
  PROVE  Ids(ring[n])' = Ids(ring[n])
<1> DEFINE m == Elements(ring[n], Ring)
           c == Contents(ring[n], Ring)
<1>1. Ids(ring[n]) = [k \in 1..m |-> pkt[c[k]].id]
  BY DEF Ids
<1>2. Ids(ring[n])' = [k \in 1..m |-> pkt'[c[k]].id]
  BY DEF Ids
<1>3. \A k \in 1..m : c[k] \in AllQueued
  BY QueueIds
<1> HIDE DEF m, c
<1> QED
  BY <1>1, <1>2, <1>3

LEMMA MacSame ==
  ASSUME RInv, RInv', \A b \in AllQueued \cup Holding : pkt'[b].id = pkt[b].id,
         \A n \in Nbr : /\ Contents(ring'[n], Ring) = Contents(ring[n], Ring)
                        /\ Elements(ring'[n], Ring) = Elements(ring[n], Ring),
         Holding' = Holding, count' = count
  PROVE  UNCHANGED <<MacQueues, MacDone, Reported>>
<1>1. Mapped /\ Mapped' /\ QInv
  BY MacIs, MacIsNext DEF RInv
<1>2. \A n \in Nbr : Ids(ring[n])' = Ids(ring[n])
  BY <1>1, IdsSame
<1>3. Reported' = Reported
  BY DEF Reported
<1>4. IdsIn(Holding)' = IdsIn(Holding)
  BY DEF IdsIn
<1>5. MacQueues' = MacQueues
  BY <1>1, <1>2 DEF Mapped
<1>6. MacDone' = MacDone
  BY <1>1, <1>3, <1>4 DEF Mapped
<1> QED
  BY <1>3, <1>5, <1>6


(* A packet that cannot be queued. *)
LEMMA Refused ==
  ASSUME RInv, RInv', NEW i \in Id, i \notin Reported, \A b \in used : pkt[b].id # i,
         UNCHANGED <<pkt, used, ring>>, Stored' = Stored, count' = [count EXCEPT ![i] = @ + 1]
  PROVE  Mac!Refuse(i)
<1>1. Mapped /\ Mapped' /\ QInv
  BY MacIs, MacIsNext DEF RInv
<1>2. AllQueued' = AllQueued
  BY DEF AllQueued, Queued
<1>3. Holding' = Holding
  BY <1>2 DEF Holding
<1>4. AllQueued \subseteq used /\ Holding \subseteq used
  BY <1>1, QueuedUsed DEF Holding
<1>5. Mac!Fresh(i)
  BY <1>4, FreshIs
<1>6. \A n \in Nbr : Ids(ring[n])' = Ids(ring[n])
  BY <1>1, IdsSame
<1>7. MacQueues' = MacQueues
  BY <1>1, <1>6 DEF Mapped
<1>8. Reported' = Reported \cup {i}
  BY <1>1, QueueAssumption DEF Reported, QInv, Types, OtherTypes, Id
<1>9. MacDone' = MacDone
  <2>1. IdsIn(Holding)' = IdsIn(Holding) /\ i \notin IdsIn(Holding)
    BY <1>3, <1>4 DEF IdsIn
  <2> QED
    BY <1>1, <1>8, <2>1 DEF Mapped
<1> QED
  BY <1>5, <1>7, <1>8, <1>9 DEF Mac!Refuse

(* The first packet of a queue leaves it: it is sent, given up or flushed. *)
LEMMA Finishes ==
  ASSUME RInv, RInv', NEW n \in Nbr, ~IsEmpty(ring[n], Ring),
         ring' = [ring EXCEPT ![n] = Get(ring[n], Ring)],
         AllQueued' = AllQueued \ {First(ring[n])}, Stored' = Stored,
         UNCHANGED <<used, count>>, \A b \in used : pkt'[b].id = pkt[b].id
  PROVE  Mac!Finish(n)
<1>1. Mapped /\ Mapped' /\ QInv
  BY MacIs, MacIsNext DEF RInv
<1>2. PICK b : b = First(ring[n])
  OBVIOUS
<1>3. ring \in [Nbr -> Rings(Ring)]
  BY <1>1 DEF QInv, Types, RingTypes
<1>4. ring'[n] = Get(ring[n], Ring) /\ \A m \in Nbr : m # n => ring'[m] = ring[m]
  BY <1>3
<1>5. AllQueued \subseteq used /\ Closing \cap (AllQueued \cup Stored) = {}
  BY <1>1, QueuedUsed
<1>6. Elements(ring[n], Ring) >= 1 /\ Contents(ring[n], Ring)[1] = b
  BY <1>2, <1>3, Sizes, FirstIs
<1>7. b \in AllQueued /\ b \in used /\ b \notin Closing /\ b \notin Stored
      /\ Ids(ring[n])[1] = pkt[b].id
  <2>1. 1 \in 1..Elements(ring[n], Ring)
    BY <1>1, <1>6, QueueIds
  <2>2. b \in AllQueued /\ b \in Queued(n) /\ Ids(ring[n])[1] = pkt[b].id
    BY <1>1, <1>6, <2>1, QueueIds
  <2>3. b \notin Stored
    BY <1>1, <2>2 DEF QInv, Ownership
  <2> QED
    BY <1>5, <2>2, <2>3
<1>8. Ids(ring[n]) \in Seq(Nat) /\ Ids(ring[n]) # <<>> /\ Head(Ids(ring[n])) = pkt[b].id
  <2>1. Ids(ring[n]) \in Seq(Nat) /\ Len(Ids(ring[n])) >= 1
    BY <1>1, <1>6, QueueIds
  <2> QED
    BY <1>7, <2>1
<1>9. Ids(ring[n])' = Tail(Ids(ring[n]))
  <2> DEFINE m == Elements(ring[n], Ring)
             c == Contents(ring[n], Ring)
             q == Ids(ring[n])
             m1 == Elements(ring'[n], Ring)
             c1 == Contents(ring'[n], Ring)
  <2>1. m1 = m - 1 /\ c1 = Tail(c)
    BY <1>3, <1>4, Sizes, RingGet
  <2>2. c \in Seq(Block \cup {NoBlock}) /\ Len(c) = m /\ m \in Nat /\ m >= 1
    BY <1>3, <1>6, Sizes, ContentsAre, RangeIs
  <2>3. q \in Seq(Nat) /\ Len(q) = m /\ \A k \in 1..m : q[k] = pkt'[c[k]].id
    <3>1. \A k \in 1..m : c[k] \in used
      BY <1>1, <1>5, QueueIds
    <3> QED
      BY <1>1, <3>1, QueueIds
  <2>4. Ids(ring[n])' = [k \in 1..m1 |-> pkt'[c1[k]].id]
    BY DEF Ids
  <2> HIDE DEF m, c, q, m1, c1
  <2>5. \A k \in 1..m - 1 : c1[k] = c[k + 1]
    BY <2>1, <2>2
  <2>6. /\ Tail(q) \in Seq(Nat) /\ Len(Tail(q)) = m - 1
        /\ \A k \in 1..m - 1 : Tail(q)[k] = q[k + 1]
    BY <2>2, <2>3
  <2>7. \A k \in 1..m - 1 : k + 1 \in 1..m
    BY <2>2
  <2>8. \A k \in 1..m - 1 : pkt'[c1[k]].id = Tail(q)[k]
    BY <2>3, <2>5, <2>6, <2>7
  <2>9. PICK j : j = m - 1
    OBVIOUS
  <2>10. PICK e : e = [k \in 1..j |-> pkt'[c1[k]].id]
    OBVIOUS
  <2>11. j \in Nat /\ \A k \in 1..j : Tail(q)[k] \in Nat /\ pkt'[c1[k]].id = Tail(q)[k]
    BY <2>2, <2>3, <2>6, <2>7, <2>8, <2>9
  <2>12. \A k \in 1..j : e[k] \in Nat /\ e[k] = Tail(q)[k]
    BY <2>10, <2>11
  <2>13. e \in Seq(Nat) /\ Len(e) = j
    BY <2>10, <2>11, <2>12
  <2>14. e = Tail(q)
    BY <2>6, <2>9, <2>12, <2>13
  <2>15. Ids(ring[n])' = Tail(q)
    BY <2>1, <2>4, <2>9, <2>10, <2>14
  <2> QED
    BY <2>15 DEF q
<1>10. \A m \in Nbr : m # n => Ids(ring[m])' = Ids(ring[m])
  BY <1>1, <1>4, <1>5, IdsSame
<1>11. MacQueues' = [MacQueues EXCEPT ![n] = Tail(@)]
  BY <1>1, <1>9, <1>10 DEF Mapped
<1>12. Holding' = Holding \cup {b}
  BY <1>2, <1>7 DEF Holding
<1>13. Reported' = Reported
  BY DEF Reported
<1>14. IdsIn(Holding)' = IdsIn(Holding) \cup {pkt[b].id}
  <2>1. Holding \subseteq used
    BY DEF Holding
  <2> QED
    BY <1>7, <1>12, <2>1 DEF IdsIn
<1>15. pkt[b].id \notin Reported
  BY <1>7, Fates
<1>16. MacDone' = MacDone \cup {pkt[b].id}
  BY <1>1, <1>13, <1>14, <1>15 DEF Mapped
<1>17. MacQueues[n] # <<>> /\ Head(MacQueues[n]) = pkt[b].id
  BY <1>1, <1>8 DEF Mapped
<1> QED
  BY <1>11, <1>13, <1>16, <1>17 DEF Mac!Finish


(* A packet enters the queue when the index to put moves on. *)
LEMMA Accepts ==
  ASSUME RInv, RInv', SendPut
  PROVE  Mac!Accept(Top.n, pkt[Top.b].id) /\ Top.n \in Nbr /\ pkt[Top.b].id \in Id
<1>1. Mapped /\ Mapped' /\ QInv
  BY MacIs, MacIsNext DEF RInv
<1>2. PICK b : b = Top.b
  OBVIOUS
<1>3. PICK n : n = Top.n
  OBVIOUS
<1>4. PICK i : i = pkt[b].id
  OBVIOUS
<1>5. UNCHANGED <<pkt, used, count>>
  BY DEF SendPut
<1>6. /\ n \in Nbr /\ b \in Block /\ b \notin AllQueued
      /\ Stored = {b} /\ Stored' = {} /\ AllQueued' = AllQueued \cup {b}
      /\ \A m \in Nbr : m # n => ring'[m] = ring[m]
  BY <1>1, <1>2, <1>3, SendPutStep
<1>7. /\ Elements(ring'[n], Ring) = Elements(ring[n], Ring) + 1
      /\ Contents(ring'[n], Ring) = Append(Contents(ring[n], Ring), b)
  BY <1>1, <1>2, <1>3, SendPutStep
<1>8. AllQueued \subseteq used /\ b \in used /\ b \notin Closing
  BY <1>1, <1>6, QueuedUsed
<1>9. i \in Id /\ i \notin Reported /\ \A a \in used : a # b => pkt[a].id # i
  BY <1>4, <1>8, Fates
<1>10. Holding \subseteq used /\ b \notin Holding /\ Holding' = Holding
  BY <1>5, <1>6 DEF Holding
<1>11. Mac!Fresh(i)
  <2>1. \A a \in AllQueued \cup Holding : pkt[a].id # i
    BY <1>6, <1>8, <1>9, <1>10
  <2> QED
    BY <1>9, <2>1, FreshIs
<1>12. Ids(ring[n])' = Append(Ids(ring[n]), i)
  <2> DEFINE m == Elements(ring[n], Ring)
             c == Contents(ring[n], Ring)
             q == Ids(ring[n])
             m1 == Elements(ring'[n], Ring)
             c1 == Contents(ring'[n], Ring)
  <2>1. m1 = m + 1 /\ c1 = Append(c, b)
    BY <1>7
  <2>2. c \in Seq(Block \cup {NoBlock}) /\ Len(c) = m /\ m \in Nat
    BY <1>1, <1>6, Sizes, ContentsAre, RangeIs DEF QInv, Types, RingTypes
  <2>3. q \in Seq(Nat) /\ Len(q) = m /\ \A k \in 1..m : q[k] = pkt[c[k]].id
    BY <1>1, <1>6, QueueIds
  <2>4. Ids(ring[n])' = [k \in 1..m1 |-> pkt[c1[k]].id]
    BY <1>5 DEF Ids
  <2> HIDE DEF m, c, q, m1, c1
  <2>5. b \in Block \cup {NoBlock} /\ i \in Nat
    BY <1>6, <1>9, QueueAssumption DEF Id
  <2>6. c1[m + 1] = b /\ \A k \in 1..m : c1[k] = c[k]
    BY <2>1, <2>2, <2>5
  <2>7. /\ Append(q, i) \in Seq(Nat) /\ Len(Append(q, i)) = m + 1
        /\ Append(q, i)[m + 1] = i /\ \A k \in 1..m : Append(q, i)[k] = q[k]
    BY <2>2, <2>3, <2>5
  <2>8. PICK j : j = m + 1
    OBVIOUS
  <2>9. PICK e : e = [k \in 1..j |-> pkt[c1[k]].id]
    OBVIOUS
  <2>10. j \in Nat /\ \A k \in 1..j : k = m + 1 \/ k \in 1..m
    BY <2>2, <2>8
  <2>11. \A k \in 1..j : e[k] = Append(q, i)[k]
    BY <1>4, <2>3, <2>6, <2>7, <2>9, <2>10
  <2>12. \A k \in 1..j : e[k] \in Nat
    BY <2>3, <2>5, <2>7, <2>10, <2>11
  <2>13. e \in Seq(Nat) /\ Len(e) = j
    BY <2>9, <2>10, <2>12
  <2>14. e = Append(q, i)
    BY <2>7, <2>8, <2>11, <2>13
  <2>15. Ids(ring[n])' = Append(q, i)
    BY <2>1, <2>4, <2>8, <2>9, <2>14
  <2> QED
    BY <2>15 DEF q
<1>13. \A m \in Nbr : m # n => Ids(ring[m])' = Ids(ring[m])
  BY <1>1, <1>5, <1>6, IdsSame
<1>14. MacQueues' = [MacQueues EXCEPT ![n] = Append(@, i)]
  BY <1>1, <1>12, <1>13 DEF Mapped
<1>15. Reported' = Reported
  BY <1>5 DEF Reported
<1>16. MacDone' = MacDone
  <2>1. IdsIn(Holding)' = IdsIn(Holding)
    BY <1>5, <1>10 DEF IdsIn
  <2> QED
    BY <1>1, <1>15, <2>1 DEF Mapped
<1>17. Mac!Accept(n, i)
  BY <1>11, <1>14, <1>15, <1>16 DEF Mac!Accept
<1> QED
  BY <1>2, <1>3, <1>4, <1>6, <1>9, <1>17

(* The sent callback of a packet that is finished. *)
LEMMA ReportsOne ==
  ASSUME RInv, RInv', Callback
  PROVE  Mac!Report(pkt[Top.b].id) /\ pkt[Top.b].id \in Id
<1>1. Mapped /\ Mapped' /\ QInv /\ Types /\ Stack /\ CallsInv /\ Ownership
  BY MacIs, MacIsNext DEF RInv, QInv
<1>2. PICK b : b = Top.b
  OBVIOUS
<1>3. PICK i : i = pkt[b].id
  OBVIOUS
<1>4. /\ proc # <<>> /\ Top.do \in {"flush", "pending"} /\ Top.at = "call"
      /\ UNCHANGED <<pkt, used, ring, dq>> /\ count' = [count EXCEPT ![i] = @ + 1]
  BY <1>2, <1>3 DEF Callback, At, Report
<1>5. Top \in Frames /\ FrameInv(Top)
  BY <1>1, <1>4, Below DEF CallsInv
<1>6. ~Closes(Top) /\ ~Decides(Top) /\ ~Frees(Top)
  BY <1>4 DEF Decides, Closes, Frees
<1>7. Closing = {} /\ Freeing = {}
  BY <1>1, <1>4, <1>6, CloseNow, HoldNow
<1>8. b \in Finished \cup Flushed
  <2>1. CASE Top.do = "flush"
    <3>1. Flushes(Top) /\ Top \in Calls(proc)
      BY <1>1, <1>4, <2>1, Below DEF Flushes
    <3> QED
      BY <1>2, <3>1 DEF Flushed, FlushedIn
  <2>2. CASE Top.do = "pending"
    <3>1. ~IsEmpty(dq, DqRing) /\ Top.b = First(dq) /\ dq \in Rings(DqRing)
      BY <1>1, <1>4, <1>5, <2>2 DEF FrameInv, Types, RingTypes
    <3> QED
      BY <1>2, <3>1, Sizes, FirstIs DEF Finished
  <2> QED
    BY <1>4, <2>1, <2>2
<1>9. b \in used /\ b \in Holding
  <2>1. b \in used
    BY <1>1, <1>7, <1>8 DEF Ownership
  <2> QED
    BY <1>1, <1>8, <2>1, HoldingIs
<1>10. i \in Id /\ i \notin Reported
  BY <1>3, <1>7, <1>9, Fates
<1>11. i \in MacDone
  BY <1>1, <1>3, <1>9, <1>10 DEF Mapped, IdsIn
<1>12. AllQueued' = AllQueued
  BY <1>4 DEF AllQueued, Queued
<1>13. Holding' = Holding
  <2>1. Stored' = Stored
    BY <1>1, CallbackStep DEF Calm
  <2> QED
    BY <1>4, <1>12, <2>1 DEF Holding
<1>14. Reported' = Reported \cup {i}
  BY <1>1, <1>4, <1>10, QueueAssumption DEF Reported, Types, OtherTypes, Id
<1>15. MacDone' = MacDone \ {i}
  <2>1. IdsIn(Holding)' = IdsIn(Holding)
    BY <1>4, <1>13 DEF IdsIn
  <2> QED
    BY <1>1, <1>14, <2>1 DEF Mapped
<1>16. MacQueues' = MacQueues
  <2>1. \A n \in Nbr : Ids(ring[n])' = Ids(ring[n])
    BY <1>1, <1>4, IdsSame
  <2> QED
    BY <1>1, <2>1 DEF Mapped
<1>17. Mac!Report(i)
  BY <1>11, <1>14, <1>15, <1>16 DEF Mac!Report
<1> QED
  BY <1>2, <1>3, <1>10, <1>17

(* A packet that is freed has been reported. *)
LEMMA FreedSame ==
  ASSUME RInv, RInv', FreePacket
  PROVE  UNCHANGED <<MacQueues, MacDone, Reported>>
<1>1. Mapped /\ Mapped' /\ QInv /\ Types /\ Stack
  BY MacIs, MacIsNext DEF RInv, QInv
<1>2. PICK b : b = Top.b
  OBVIOUS
<1>3. /\ proc # <<>> /\ Top.do \in {"flush", "pending"} /\ Top.at = "free"
      /\ used' = used \ {b} /\ pkt' = [pkt EXCEPT ![b] = NoPacket] /\ UNCHANGED <<ring, count>>
  BY <1>2 DEF FreePacket, At
<1>4. b \in used /\ b \notin AllQueued /\ Stored = {} /\ Stored' = {}
  BY <1>1, <1>2, FreePacketStep
<1>5. b \in Closing
  <2>1. Closes(Top)
    BY <1>3 DEF Closes
  <2> QED
    BY <1>1, <1>2, <1>3, <2>1, CloseNow
<1>6. pkt[b].id \in Reported
  BY <1>4, <1>5, Fates
<1>7. \A a \in used \ {b} : pkt'[a] = pkt[a]
  BY <1>1, <1>3 DEF Types, PacketTypes
<1>8. AllQueued \subseteq used \ {b}
  BY <1>1, <1>4, QueuedUsed
<1>9. Holding' = Holding \ {b}
  <2>1. AllQueued' = AllQueued
    BY <1>3 DEF AllQueued, Queued
  <2> QED
    BY <1>3, <1>4, <2>1 DEF Holding
<1>10. Reported' = Reported
  BY <1>3 DEF Reported
<1>11. MacDone' = MacDone
  <2>1. Holding \subseteq used
    BY DEF Holding
  <2>2. IdsIn(Holding)' = {pkt[a].id : a \in Holding \ {b}}
    BY <1>7, <1>9, <2>1 DEF IdsIn
  <2>3. IdsIn(Holding) \ Reported = {pkt[a].id : a \in Holding \ {b}} \ Reported
    BY <1>6 DEF IdsIn
  <2> QED
    BY <1>1, <1>10, <2>2, <2>3 DEF Mapped
<1>12. MacQueues' = MacQueues
  <2>1. \A n \in Nbr : Ids(ring[n])' = Ids(ring[n])
    BY <1>1, <1>3, <1>7, <1>8, IdsSame
  <2> QED
    BY <1>1, <2>1 DEF Mapped
<1> QED
  BY <1>10, <1>11, <1>12


(* Steps that neither move packets between queues nor report them.         *)
LEMMA StillSame ==
  ASSUME RInv, RInv', UNCHANGED <<ring, used, count>>, Stored' = Stored,
         \A b \in used : pkt'[b].id = pkt[b].id
  PROVE  UNCHANGED <<MacQueues, MacDone, Reported>>
<1>1. QInv
  BY DEF RInv
<1>2. AllQueued' = AllQueued
  BY DEF AllQueued, Queued
<1>3. AllQueued \subseteq used /\ Holding \subseteq used /\ Holding' = Holding
  BY <1>1, <1>2, QueuedUsed DEF Holding
<1> QED
  BY <1>3, MacSame

LEMMA SlotEndMac ==
  ASSUME RInv, RInv', NEW ok \in BOOLEAN, SlotEnd(ok)
  PROVE  UNCHANGED <<MacQueues, MacDone, Reported>> \/ Mac!Finish(slot.n)
<1>1. QInv /\ Types
  BY DEF RInv, QInv
<1>2. /\ slot.phase = "tx" /\ UNCHANGED <<used, count>>
      /\ pkt' = [pkt EXCEPT ![slot.b] = [pkt[slot.b] EXCEPT !.tx = (@ + 1) % 256]]
  BY DEF SlotEnd
<1>3. /\ slot.n \in Nbr /\ slot.b \in Block /\ ~IsEmpty(ring[slot.n], Ring)
      /\ slot.b = First(ring[slot.n])
  BY <1>1, <1>2, Transmits
<1>4. \A b \in used : pkt'[b].id = pkt[b].id
  <2>1. pkt \in [Block -> Rec] /\ used \subseteq Block
    BY <1>1 DEF Types, PacketTypes
  <2>2. PICK p : p = [pkt[slot.b] EXCEPT !.tx = (@ + 1) % 256]
    OBVIOUS
  <2>3. p.id = pkt[slot.b].id
    BY <1>3, <2>1, <2>2 DEF Rec
  <2>4. pkt' = [pkt EXCEPT ![slot.b] = p]
    BY <1>2, <2>2
  <2> QED
    BY <1>3, <2>1, <2>3, <2>4
<1>5. Stored' = Stored
  BY <1>1, SlotEndStep DEF Calm
<1>6. CASE UNCHANGED <<ring, dq>>
  BY <1>2, <1>4, <1>5, <1>6, StillSame
<1>7. CASE /\ ring' = [ring EXCEPT ![slot.n] = Get(ring[slot.n], Ring)]
           /\ AllQueued' = AllQueued \ {slot.b}
  BY <1>2, <1>3, <1>4, <1>5, <1>7, Finishes
<1> QED
  BY <1>1, <1>6, <1>7, SlotEndStep

LEMMA SendCheckMac ==
  ASSUME RInv, RInv', SendCheck
  PROVE  UNCHANGED <<MacQueues, MacDone, Reported>> \/ (sent \in Id /\ Mac!Refuse(sent))
<1>1. QInv /\ Types /\ Stack /\ proc # <<>>
  BY DEF RInv, QInv, SendCheck, At
<1>2. Deciding
  <2>1. Decides(Top)
    BY DEF SendCheck, At, Decides
  <2> QED
    BY <1>1, <2>1, CloseNow
<1>3. CASE /\ Stored' = Stored /\ UNCHANGED <<pkt, used, ring>>
           /\ count' = [count EXCEPT ![sent] = @ + 1]
  BY <1>2, <1>3, Fates, Refused
<1>4. ASSUME NEW b, b \in Block \ used, Stored = {}, Stored' = {b}, used' = used \cup {b},
             AllQueued' = AllQueued,
             \A m \in Nbr : /\ Contents(ring'[m], Ring) = Contents(ring[m], Ring)
                            /\ Elements(ring'[m], Ring) = Elements(ring[m], Ring),
             pkt' = [pkt EXCEPT ![b] = [id |-> sent, tx |-> 0, to |-> Top.n]], count' = count
      PROVE  UNCHANGED <<MacQueues, MacDone, Reported>>
  <2>1. AllQueued \subseteq used /\ Holding \subseteq used /\ Holding' = Holding
    BY <1>1, <1>4, QueuedUsed DEF Holding
  <2>2. \A a \in AllQueued \cup Holding : pkt'[a].id = pkt[a].id
    BY <1>1, <1>4, <2>1 DEF Types, PacketTypes
  <2> QED
    BY <1>4, <2>1, <2>2, MacSame
<1> QED
  BY <1>1, <1>3, <1>4, SendCheckStep

LEMMA UnusedRemoveMac ==
  ASSUME RInv, RInv', UnusedRemove
  PROVE  UNCHANGED <<MacQueues, MacDone, Reported>>
<1>1. QInv
  BY DEF RInv
<1>2. PICK n : n = Top.n
  OBVIOUS
<1>3. /\ Stored' = Stored /\ AllQueued' = AllQueued /\ used' = used /\ n \in Nbr
      /\ IsEmpty(ring[n], Ring) /\ ring' = [ring EXCEPT ![n] = Empty(Ring)]
  BY <1>1, <1>2, UnusedRemoveStep DEF Calm
<1>4. UNCHANGED <<pkt, count>>
  BY DEF UnusedRemove
<1>5. ring \in [Nbr -> Rings(Ring)] /\ ring' \in [Nbr -> Rings(Ring)]
  BY <1>1, <1>3, Sizes, EmptyIs DEF QInv, Types, RingTypes
<1>6. Holding' = Holding
  BY <1>3 DEF Holding
<1>7. ASSUME NEW m \in Nbr
      PROVE  /\ Contents(ring'[m], Ring) = Contents(ring[m], Ring)
             /\ Elements(ring'[m], Ring) = Elements(ring[m], Ring)
  <2>1. CASE m # n
    BY <1>3, <1>5, <2>1
  <2>2. CASE m = n
    <3>1. Elements(ring[n], Ring) = 0 /\ Elements(ring'[n], Ring) = 0
      BY <1>3, <1>5, Sizes, EmptyIs DEF IsEmpty
    <3>2. /\ Contents(ring[n], Ring) \in Seq(Block \cup {NoBlock})
          /\ Len(Contents(ring[n], Ring)) = 0
      BY <1>3, <1>5, <3>1, Sizes, ContentsAre
    <3>3. /\ Contents(ring'[n], Ring) \in Seq(Block \cup {NoBlock})
          /\ Len(Contents(ring'[n], Ring)) = 0
      BY <1>3, <1>5, <3>1, Sizes, ContentsAre
    <3>4. Contents(ring[n], Ring) = <<>>
      BY <3>2
    <3>5. Contents(ring'[n], Ring) = <<>>
      BY <3>3
    <3> QED
      BY <2>2, <3>1, <3>4, <3>5
  <2> QED
    BY <2>1, <2>2
<1> QED
  BY <1>4, <1>6, <1>7, MacSame

LEMMA MacStep ==
  ASSUME RInv, RInv', [Next]_vars
  PROVE  Mac!Next \/ UNCHANGED <<MacQueues, MacDone, Reported>>
<1>1. QInv /\ Types /\ Stack
  BY DEF RInv, QInv
<1>2. CASE \/ UNCHANGED vars \/ Desync \/ Associate \/ Disassociate
           \/ \E l \in Links : SlotPass(l) \/ SlotBegin(l)
  <2>1. UNCHANGED <<pkt, used, ring, count, proc>>
    BY <1>2 DEF vars, Desync, Associate, Disassociate, SlotPass, SlotBegin
  <2>2. Stored' = Stored
    BY <2>1 DEF Stored
  <2> QED
    BY <2>1, <2>2, StillSame
<1>3. ASSUME NEW ok \in BOOLEAN, SlotEnd(ok)
      PROVE  Mac!Next \/ UNCHANGED <<MacQueues, MacDone, Reported>>
  <2>1. slot.n \in Nbr
    BY <1>1, <1>3, Transmits DEF SlotEnd
  <2> QED
    BY <1>3, <2>1, SlotEndMac DEF Mac!Next
<1>4. CASE TakeLock \/ FlushTest \/ PendingPeek \/ UnusedNext \/ UnusedUnlock \/ ResetBackoff
  <2>1. UNCHANGED <<pkt, used, ring, count>>
    BY <1>4 DEF TakeLock, FlushTest, PendingPeek, UnusedNext, UnusedUnlock, ResetBackoff
  <2>2. Stored' = Stored
    BY <1>1, <1>4, QuietStep DEF Calm
  <2> QED
    BY <2>1, <2>2, StillSame
<1>5. CASE AddNbr
  <2>1. Stored' = Stored /\ UNCHANGED <<pkt, used, ring>>
    BY <1>1, <1>5, QuietStep DEF Calm, AddNbr
  <2>2. CASE count' = count
    BY <2>1, <2>2, StillSame
  <2>3. CASE count' = [count EXCEPT ![sent] = @ + 1]
    <3>1. proc # <<>> /\ Decides(Top)
      BY <1>5 DEF AddNbr, At, Decides
    <3>2. Deciding
      BY <1>1, <3>1, CloseNow
    <3> QED
      BY <2>1, <2>3, <3>2, Fates, Refused DEF Mac!Next
  <2> QED
    BY <1>5, <2>2, <2>3 DEF AddNbr
<1>6. CASE SendCheck
  BY <1>6, SendCheckMac DEF Mac!Next
<1>7. CASE SendPut
  BY <1>7, Accepts DEF Mac!Next
<1>8. CASE FlushGet
  <2>1. /\ Stored' = Stored /\ Top.n \in Nbr /\ ~IsEmpty(ring[Top.n], Ring)
        /\ ring' = [ring EXCEPT ![Top.n] = Get(ring[Top.n], Ring)]
        /\ AllQueued' = AllQueued \ {First(ring[Top.n])}
    BY <1>1, <1>8, FlushGetStep
  <2>2. UNCHANGED <<pkt, used, count>>
    BY <1>8 DEF FlushGet
  <2>3. Mac!Finish(Top.n)
    BY <2>1, <2>2, Finishes
  <2> QED
    BY <2>1, <2>3 DEF Mac!Next
<1>9. CASE Callback
  BY <1>9, ReportsOne DEF Mac!Next
<1>10. CASE FreePacket
  BY <1>10, FreedSame
<1>11. CASE PendingGet
  <2>1. UNCHANGED <<pkt, used, ring, count>> /\ Stored' = Stored
    BY <1>1, <1>11, PendingGetStep DEF PendingGet, Calm
  <2> QED
    BY <2>1, StillSame
<1>12. CASE UnusedRemove
  BY <1>12, UnusedRemoveMac
<1>13. CASE Poll \/ Reset \/ ResetNext \/ \E n \in Nbr : FreePacketsTo(n)
  <2>1. UNCHANGED <<pkt, used, ring, count>>
    BY <1>13 DEF Poll, Reset, ResetNext, FreePacketsTo
  <2>2. Stored' = Stored
    BY <1>1, <1>13, CallStep DEF Calm
  <2> QED
    BY <2>1, <2>2, StillSame
<1>14. ASSUME NEW n \in Nbr, Send(n)
       PROVE  Mac!Next \/ UNCHANGED <<MacQueues, MacDone, Reported>>
  <2>1. /\ proc = <<>> /\ sent < MaxSend /\ sent' = sent + 1 /\ UNCHANGED <<pkt, used, ring>>
        /\ count' = count \/ count' = [count EXCEPT ![sent'] = @ + 1]
    BY <1>14 DEF Send, CanSend
  <2>2. Stored' = Stored
    BY <1>1, <1>14, CallStep DEF Calm
  <2>3. CASE count' = count
    BY <2>1, <2>2, <2>3, StillSame
  <2>4. CASE count' = [count EXCEPT ![sent'] = @ + 1]
    <3>1. Reports /\ sent \in Nat /\ MaxSend \in Nat
      BY <1>1, QueueAssumption DEF RInv, Types, OtherTypes
    <3>2. PICK i : i = sent + 1
      OBVIOUS
    <3>3. i \in Id /\ i > sent /\ \A b \in used : pkt[b].id # i
      BY <2>1, <3>1, <3>2 DEF Id, Reports
    <3>4. i \notin Reported
      BY <3>1, <3>3 DEF Reports, Reported
    <3>5. Mac!Refuse(i)
      BY <2>1, <2>2, <2>4, <3>2, <3>3, <3>4, Refused
    <3> QED
      BY <3>3, <3>5 DEF Mac!Next
  <2> QED
    BY <2>1, <2>3, <2>4
<1> QED
  BY <1>2, <1>3, <1>4, <1>5, <1>6, <1>7, <1>8, <1>9, <1>10, <1>11, <1>12, <1>13, <1>14
     DEF Next, Step, SlotEnds

LEMMA MacInit == Init => Mac!Init
<1> SUFFICES ASSUME Init PROVE Mac!Init
  OBVIOUS
<1>1. QInv /\ used = {} /\ ring = [n \in Nbr |-> Empty(Ring)] /\ count = [i \in Id |-> 0]
  BY QInit DEF Init
<1>2. MacQueues = [n \in Nbr |-> <<>>]
  <2>1. ASSUME NEW n \in Nbr PROVE Ids(ring[n]) = <<>>
    <3>1. Elements(ring[n], Ring) = 0
      BY <1>1, Sizes, EmptyIs
    <3>2. Ids(ring[n]) \in Seq(Nat) /\ Len(Ids(ring[n])) = 0
      BY <1>1, <3>1, QueueIds
    <3> QED
      BY <3>2
  <2> QED
    BY <2>1 DEF MacQueues
<1>3. MacDone = {} /\ Reported = {}
  BY <1>1 DEF MacDone, Reported
<1> QED
  BY <1>2, <1>3 DEF Mac!Init

(* The queues implement what the layers above are promised: packets for a  *)
(* neighbour are finished in the order in which they were accepted, by     *)
(* whatever way they leave, and reported once, after that; as long as no   *)
(* slot is sending from a queue that is flushed or when the network is     *)
(* left.                                                                   *)
THEOREM MacQueueImplemented == Spec => ImplementsMacQueue
<1>1. RInv /\ RInv' /\ [Next]_vars => [Mac!Next]_<<MacQueues, MacDone, Reported>>
  BY MacStep
<1>2. Spec => Mac!Spec
  BY <1>1, MacInit, RAlways, PTL DEF Spec, Mac!Spec
<1> QED
  BY <1>2 DEF ImplementsMacQueue
=============================================================================

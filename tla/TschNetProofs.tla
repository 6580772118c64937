--------------------------- MODULE TschNetProofs ----------------------------
(***************************************************************************)
(* Proofs about keepalives, for any set of neighbours, threshold and sizes *)
(* of the rings, and any interleaving of slots with the processes.         *)
(***************************************************************************)
EXTENDS TschNet, TLAPS

(* There is a keepalive timeout exactly while there is a time source.      *)
TimeoutForSource == ka.timeout = IF src.ts = None THEN 0 ELSE 1

(* Whoever asks for a keepalive also polls the process that sends it.      *)
AskedIsPolled == ka.status # "unchanged" => pend.polled \/ pend.at # "idle"

(* The inductive invariant: ProcessPending starts the timer only if there  *)
(* is a timeout, and Fire polls only if it is the first to ask.            *)
Inv == TypeOK /\ TimeoutForSource /\ AskedIsPolled /\ KeepaliveComing

Keepalive == [status : {"unchanged", "schedule", "now"}, timeout : {0, 1}, timer : -1..1]

-----------------------------------------------------------------------------
(* A keepalive is asked for; the rest is kept. *)
LEMMA ScheduledIs ==
  ASSUME NEW k \in Keepalive, NEW b \in BOOLEAN
  PROVE  /\ Scheduled(k, b) \in Keepalive
         /\ Scheduled(k, b).status # "unchanged"
         /\ Scheduled(k, b).timeout = k.timeout /\ Scheduled(k, b).timer = k.timer
<1> DEFINE s == IF b \/ k.status = "now" THEN "now" ELSE "schedule"
<1>1. Scheduled(k, b) = [k EXCEPT !.status = s]
  BY DEF Scheduled
<1>2. s \in {"schedule", "now"}
  OBVIOUS
<1> HIDE DEF s
<1> QED
  BY <1>1, <1>2 DEF Keepalive

(* A new time source has a timeout, none has not; a change is a request.   *)
LEMMA KaForSourceIs ==
  ASSUME NEW k \in Keepalive, NEW old, NEW new
  PROVE  /\ KaForSource(k, old, new) \in Keepalive
         /\ new = old => KaForSource(k, old, new) = k
         /\ new # old => /\ KaForSource(k, old, new).status # "unchanged"
                         /\ KaForSource(k, old, new).timeout = IF new = None THEN 0 ELSE 1
<1> DEFINE t == IF new = None THEN 0 ELSE 1
           s == IF k.status = "now" THEN "now" ELSE "schedule"
           d == KaForSource(k, old, new)
<1>1. CASE new = old
  BY <1>1 DEF KaForSource
<1>2. CASE new # old
  <2>1. d = [k EXCEPT !.timeout = t, !.status = s]
    BY <1>2 DEF KaForSource, WithTimeout, Scheduled, Keepalive
  <2>2. t \in {0, 1} /\ s \in {"schedule", "now"}
    OBVIOUS
  <2> HIDE DEF d, t, s
  <2>3. d \in Keepalive /\ d.status = s /\ d.timeout = t
    BY <2>1, <2>2 DEF Keepalive
  <2>4. d.status # "unchanged"
    BY <2>2, <2>3
  <2> QED
    BY <1>2, <2>3, <2>4, Zenon DEF d, t
<1> QED
  BY <1>1, <1>2

(* The age of the last synchronisation.                                    *)
LEMMA YoungIs == Young \in Age /\ Young.ticks = 0 /\ Young.switches = 0 /\ Young.setbacks = 0
BY NetAssumption DEF Young, Age

LEMMA SetBackIs ==
  ASSUME NEW a \in Age
  PROVE  /\ SetBack(a) \in Age /\ SetBack(a).ticks = a.ticks /\ SetBack(a).switches = a.switches
         /\ a.setbacks < Desync => SetBack(a).setbacks = a.setbacks + 1
         /\ SetBack(a).setbacks < Desync => a.setbacks < Desync
<1> DEFINE s == IF a.setbacks < Desync THEN a.setbacks + 1 ELSE a.setbacks
<1>1. a.setbacks \in 0..Desync /\ Desync \in Nat
  BY NetAssumption DEF Age
<1>2. s \in 0..Desync /\ SetBack(a) = [a EXCEPT !.setbacks = s]
  BY <1>1 DEF SetBack
<1>3. (a.setbacks < Desync => s = a.setbacks + 1) /\ (s < Desync => a.setbacks < Desync)
  BY <1>1
<1> HIDE DEF s
<1>4. SetBack(a) \in Age /\ SetBack(a).ticks = a.ticks /\ SetBack(a).switches = a.switches
      /\ SetBack(a).setbacks = s
  BY <1>2 DEF Age
<1> QED
  BY <1>3, <1>4

(* The keepalive goes to the queue of the time source, or is asked for     *)
(* again.                                                                  *)
LEMMA KeepaliveSendIs ==
  ASSUME TypeOK, NEW k \in Keepalive, KeepaliveSend(k)
  PROVE  /\ ka' \in Keepalive /\ ka'.timeout = k.timeout
         /\ queued' \in [Nbr -> 0..MaxKa] /\ age' \in Age
         /\ ka'.status \in {k.status} \/ ka'.status # "unchanged"
         /\ net.assoc /\ src.ts # None =>
              ka'.status # "unchanged" \/ \E n \in Nbr : queued'[n] > 0
<1> DEFINE stopped == [k EXCEPT !.timer = Off]
<1>1. stopped \in Keepalive /\ stopped.timeout = k.timeout /\ stopped.status = k.status
  BY DEF Keepalive, Off
<1>2. /\ queued \in [Nbr -> 0..MaxKa] /\ age \in Age /\ MaxKa \in Nat
      /\ src.ts \in Nbr \cup {None}
  BY NetAssumption DEF TypeOK
<1>3. \/ (~net.assoc \/ src.ts = None) /\ ka' = stopped /\ UNCHANGED <<queued, age>>
      \/ /\ src.ts # None /\ queued[src.ts] < MaxKa
         /\ queued' = [queued EXCEPT ![src.ts] = @ + 1]
         /\ ka' = stopped /\ age' = age
      \/ ka' = Scheduled(stopped, FALSE) /\ queued' = queued /\ age' = SetBack(age)
  BY DEF KeepaliveSend
<1> HIDE DEF stopped
<1>4. CASE (~net.assoc \/ src.ts = None) /\ ka' = stopped /\ UNCHANGED <<queued, age>>
  BY <1>1, <1>2, <1>4
<1>5. CASE /\ src.ts # None /\ queued[src.ts] < MaxKa
           /\ queued' = [queued EXCEPT ![src.ts] = @ + 1]
           /\ ka' = stopped /\ age' = age
  <2>1. src.ts \in Nbr /\ queued' \in [Nbr -> 0..MaxKa] /\ queued'[src.ts] > 0
    BY <1>2, <1>5
  <2> QED
    BY <1>1, <1>2, <1>5, <2>1
<1>6. CASE ka' = Scheduled(stopped, FALSE) /\ queued' = queued /\ age' = SetBack(age)
  BY <1>1, <1>2, <1>6, ScheduledIs, SetBackIs
<1> QED
  BY <1>3, <1>4, <1>5, <1>6

(* A wait for the acknowledgement of a keepalive has failed. *)
LEMMA ResynchronizeIs ==
  ASSUME TypeOK, TimeoutForSource, NEW n \in Nbr, Resynchronize(n)
  PROVE  /\ ka' \in Keepalive /\ ka'.status # "unchanged"
         /\ net' \in [assoc : BOOLEAN, main : {"scan", "run", "reset"}, polled : BOOLEAN]
         /\ src' \in [ts : Nbr \cup {None}, last : Nbr \cup {None}, synced : BOOLEAN]
         /\ age' \in Age
         /\ TimeoutForSource'
<1>1. /\ ka \in Keepalive
      /\ net \in [assoc : BOOLEAN, main : {"scan", "run", "reset"}, polled : BOOLEAN]
      /\ src \in [ts : Nbr \cup {None}, last : Nbr \cup {None}, synced : BOOLEAN]
      /\ age \in Age
      /\ MaxSwitch \in Nat
  BY NetAssumption DEF TypeOK, Keepalive
<1>2. CASE Changed(n) \/ src.last = None
  <2>1. ka' = Scheduled(ka, FALSE) /\ src' = src /\ age' = age
        /\ net' \in {net, Disassociated(net)}
    BY <1>2 DEF Resynchronize
  <2>2. Disassociated(net) \in [assoc : BOOLEAN, main : {"scan", "run", "reset"}, polled : BOOLEAN]
    BY <1>1 DEF Disassociated
  <2>3. ka' \in Keepalive /\ ka'.status # "unchanged" /\ ka'.timeout = ka.timeout
    BY <1>1, <2>1, ScheduledIs
  <2> QED
    BY <1>1, <2>1, <2>2, <2>3 DEF TimeoutForSource
<1>3. CASE ~(Changed(n) \/ src.last = None)
  <2>1. PICK new \in {src.ts, src.last} :
          /\ new = src.last \/ age.switches < MaxSwitch
          /\ src' = [src EXCEPT !.ts = new, !.last = None]
          /\ ka' = Scheduled(KaForSource(ka, src.ts, new), TRUE)
          /\ age' = IF new = src.last THEN age ELSE [age EXCEPT !.switches = @ + 1]
    BY <1>3 DEF Resynchronize
  <2>2. net' = net
    BY <1>3 DEF Resynchronize
  <2>3. src'.ts = new /\ src' \in [ts : Nbr \cup {None}, last : Nbr \cup {None}, synced : BOOLEAN]
    BY <1>1, <2>1
  <2>4. age' \in Age
    BY <1>1, <2>1 DEF Age
  <2> DEFINE k == KaForSource(ka, src.ts, new)
  <2>5. k \in Keepalive /\ k.timeout = IF new = None THEN 0 ELSE 1
    BY <1>1, KaForSourceIs DEF TimeoutForSource
  <2>6. ka' = Scheduled(k, TRUE)
    BY <2>1
  <2> HIDE DEF k
  <2>7. ka' \in Keepalive /\ ka'.status # "unchanged" /\ ka'.timeout = k.timeout
    BY <2>5, <2>6, ScheduledIs
  <2> QED
    BY <1>1, <2>2, <2>3, <2>4, <2>5, <2>7 DEF TimeoutForSource
<1> QED
  BY <1>2, <1>3

-----------------------------------------------------------------------------
(* A step that asks for a keepalive and polls the process. *)
LEMMA AskStep ==
  ASSUME ka'.status # "unchanged", pend'.polled
  PROVE  AskedIsPolled' /\ KeepaliveComing'
BY DEF AskedIsPolled, KeepaliveComing, Requested

LEMMA SlotStep ==
  ASSUME Inv, \/ \E n \in Nbr : \E f \in {"data", "eb", "bad"} : SlotRx(n, f)
              \/ SlotDesync \/ \E n \in Nbr, status \in Status : SlotTx(n, status)
  PROVE  Inv'
<1> USE DEF Inv
<1>0. ka \in Keepalive
  BY DEF TypeOK, Keepalive
<1>1. Scheduled(ka, FALSE) \in Keepalive /\ Scheduled(ka, FALSE).status # "unchanged"
      /\ Scheduled(ka, FALSE).timeout = ka.timeout
  BY <1>0, ScheduledIs
<1>2. 0 \in 0..Desync + 1 /\ 0 \in 0..MaxSwitch /\ MaxIn \in Nat /\ MaxKa \in Nat
  BY NetAssumption
<1>3. pend.saved \in {"unchanged", "schedule", "now"} /\ Polled \in
        [polled : BOOLEAN, at : {"idle", "input", "sent", "saved"},
         saved : {"unchanged", "schedule", "now"}] /\ Polled.polled /\ Polled.at = pend.at
  BY DEF TypeOK, Polled
<1>4. ASSUME NEW n \in Nbr, NEW f \in {"data", "eb", "bad"}, SlotRx(n, f)
      PROVE  Inv'
  <2> DEFINE F == [n : Nbr, kind : {"data", "eb", "bad"}]
             e == [n |-> n, kind |-> f]
  <2>1. input' \in Seq(F) /\ Len(input') <= MaxIn
    <3>1. e \in F
      OBVIOUS
    <3>2. input \in Seq(F) /\ Len(input) < MaxIn /\ input' = Append(input, e)
      BY <1>4 DEF TypeOK, SlotRx, InputRoom
    <3> HIDE DEF F, e
    <3> QED
      BY <1>2, <3>1, <3>2
  <2>2. pend' = Polled /\ UNCHANGED <<net, queued, done, dead>>
    BY <1>4 DEF SlotRx
  <2>3. CASE n = src.ts
    <3>1. ka' = Scheduled(ka, FALSE) /\ src' = [src EXCEPT !.synced = TRUE]
          /\ age' = Young
      BY <1>4, <2>3 DEF SlotRx, Synced
    <3>2. TypeOK'
      <4>1. ka' \in Keepalive /\ age' \in Age
        BY <1>1, <3>1, YoungIs
      <4>2. src' \in [ts : Nbr \cup {None}, last : Nbr \cup {None}, synced : BOOLEAN]
        BY <3>1 DEF TypeOK
      <4> QED
        BY <1>3, <2>1, <2>2, <4>1, <4>2 DEF TypeOK, Keepalive
    <3>3. TimeoutForSource'
      BY <1>1, <3>1 DEF TypeOK, TimeoutForSource
    <3> QED
      BY <1>1, <1>3, <2>2, <3>1, <3>2, <3>3, AskStep
  <2>4. CASE n # src.ts
    <3>1. UNCHANGED <<age, src, ka>>
      BY <1>4, <2>4 DEF SlotRx
    <3>2. TypeOK'
      BY <1>3, <2>1, <2>2, <3>1 DEF TypeOK
    <3>3. TimeoutForSource' /\ AskedIsPolled' /\ KeepaliveComing'
      BY <1>3, <2>2, <3>1 DEF TimeoutForSource, AskedIsPolled, KeepaliveComing, Requested
    <3> QED
      BY <3>2, <3>3
  <2> QED
    BY <2>3, <2>4
<1>5. CASE SlotDesync
  <2>1. net' \in [assoc : BOOLEAN, main : {"scan", "run", "reset"}, polled : BOOLEAN] /\ ~net'.assoc
    BY <1>5 DEF TypeOK, SlotDesync, Disassociated
  <2> QED
    BY <1>5, <2>1 DEF SlotDesync, TypeOK, TimeoutForSource, AskedIsPolled, KeepaliveComing
<1>6. ASSUME NEW n \in Nbr, NEW status \in Status, SlotTx(n, status)
      PROVE  Inv'
  <2>1. queued' \in [Nbr -> 0..MaxKa]
    BY <1>2, <1>6 DEF TypeOK, SlotTx
  <2> DEFINE R == [n : Nbr, noack : BOOLEAN]
             d == [n |-> n, noack |-> status = "noack"]
  <2>2. done' \in Seq(R) /\ done' # <<>>
    <3>1. d \in R
      OBVIOUS
    <3>2. done \in Seq(R) /\ done' = Append(done, d)
      BY <1>6 DEF TypeOK, SlotTx
    <3> HIDE DEF R, d
    <3> QED
      BY <3>1, <3>2
  <2>3. pend' = Polled /\ UNCHANGED <<net, src, input, dead>>
    BY <1>6 DEF SlotTx
  <2>4. \/ ka' = Scheduled(ka, FALSE) /\ age' = Young
        \/ ka' = ka /\ age' \in {age, SetBack(age)}
    BY <1>6 DEF SlotTx, Synced
  <2>5. TypeOK'
    <3>1. ka' \in Keepalive /\ age' \in Age
      <4>1. CASE ka' = Scheduled(ka, FALSE) /\ age' = Young
        BY <1>1, <4>1, YoungIs
      <4>2. CASE ka' = ka /\ age' \in {age, SetBack(age)}
        BY <1>0, <4>2, SetBackIs DEF TypeOK
      <4> QED
        BY <2>4, <4>1, <4>2
    <3>2. pend' \in [polled : BOOLEAN, at : {"idle", "input", "sent", "saved"},
                     saved : {"unchanged", "schedule", "now"}]
      BY <1>3, <2>3
    <3>3. net' = net /\ src' = src /\ input' = input /\ dead' = dead
      BY <2>3
    <3> QED
      BY <2>1, <2>2, <3>1, <3>2, <3>3 DEF TypeOK, Keepalive
  <2>6. TimeoutForSource' /\ AskedIsPolled'
    BY <1>1, <1>3, <2>3, <2>4 DEF TimeoutForSource, AskedIsPolled
  <2>7. KeepaliveComing'
    BY <2>2 DEF KeepaliveComing
  <2> QED
    BY <2>5, <2>6, <2>7
<1> QED
  BY <1>4, <1>5, <1>6

-----------------------------------------------------------------------------
Pending == [polled : BOOLEAN, at : {"idle", "input", "sent", "saved"},
            saved : {"unchanged", "schedule", "now"}]
Main == [assoc : BOOLEAN, main : {"scan", "run", "reset"}, polled : BOOLEAN]

(* The steps of tsch_pending_events_process that leave the keepalive       *)
(* status alone.                                                           *)
LEMMA PendingStep ==
  ASSUME Inv, PendStart \/ EbInput \/ EbInputEnd \/ SaveStatus
  PROVE  Inv'
<1> USE DEF Inv
<1>1. CASE PendStart
  <2>1. pend' \in Pending /\ pend'.at = "input"
    BY <1>1 DEF TypeOK, PendStart, Pending
  <2> QED
    BY <1>1, <2>1 DEF PendStart, TypeOK, Pending, TimeoutForSource, AskedIsPolled,
                      KeepaliveComing, Requested
<1>2. CASE EbInput
  <2> DEFINE F == [n : Nbr, kind : {"data", "eb", "bad"}]
  <2>1. input' \in Seq(F) /\ Len(input') <= MaxIn /\ Head(input) \in F
    <3>1. input \in Seq(F) /\ Len(input) <= MaxIn /\ input # <<>> /\ input' = Tail(input)
          /\ MaxIn \in Nat
      BY <1>2, NetAssumption DEF TypeOK, EbInput
    <3> HIDE DEF F
    <3>2. Tail(input) \in Seq(F) /\ Len(Tail(input)) = Len(input) - 1 /\ Head(input) \in F
      BY <3>1
    <3> QED
      BY <3>1, <3>2
  <2>2. /\ src' \in [ts : Nbr \cup {None}, last : Nbr \cup {None}, synced : BOOLEAN]
        /\ src'.ts = src.ts
    BY <1>2, <2>1 DEF TypeOK, EbInput
  <2>3. net' \in Main /\ (net'.assoc => net.assoc)
    BY <1>2 DEF TypeOK, EbInput, Disassociated, Main
  <2>4. UNCHANGED <<ka, pend, queued, done, age, dead>>
    BY <1>2 DEF EbInput
  <2> QED
    BY <2>1, <2>2, <2>3, <2>4 DEF TypeOK, Main, TimeoutForSource, AskedIsPolled,
                                  KeepaliveComing, Requested
<1>3. CASE EbInputEnd
  <2>1. pend' \in Pending /\ pend'.at = "sent"
    BY <1>3 DEF TypeOK, EbInputEnd, Pending
  <2> QED
    BY <1>3, <2>1 DEF EbInputEnd, TypeOK, Pending, TimeoutForSource, AskedIsPolled,
                      KeepaliveComing, Requested
<1>4. CASE SaveStatus
  <2>1. /\ pend' \in Pending /\ pend.at = "sent" /\ done = <<>>
        /\ ka.status # "unchanged" => pend'.at = "saved"
    BY <1>4 DEF TypeOK, SaveStatus, Pending
  <2> QED
    BY <1>4, <2>1 DEF SaveStatus, TypeOK, Pending, TimeoutForSource, AskedIsPolled,
                      KeepaliveComing, Requested
<1> QED
  BY <1>1, <1>2, <1>3, <1>4

(* The report of a keepalive asks for the next one. *)
LEMMA SentStep ==
  ASSUME Inv, KeepalivePacketSent
  PROVE  Inv'
<1> USE DEF Inv
<1> DEFINE R == [n : Nbr, noack : BOOLEAN]
<1>1. done' \in Seq(R) /\ Head(done).n \in Nbr
  <2>1. done \in Seq(R) /\ done # <<>> /\ done' = Tail(done)
    BY DEF TypeOK, KeepalivePacketSent
  <2>2. Tail(done) \in Seq(R) /\ Head(done) \in R
    <3> HIDE DEF R
    <3> QED
      BY <2>1
  <2> QED
    BY <2>1, <2>2
<1>2. pend' = Polled /\ UNCHANGED <<input, queued, dead>>
  BY DEF KeepalivePacketSent
<1>3. pend' \in Pending /\ pend'.polled
  BY <1>2 DEF TypeOK, Polled, Pending
<1>4. ka \in Keepalive
  BY DEF TypeOK, Keepalive
<1>5. /\ ka' \in Keepalive /\ ka'.status # "unchanged"
      /\ net' \in [assoc : BOOLEAN, main : {"scan", "run", "reset"}, polled : BOOLEAN]
      /\ src' \in [ts : Nbr \cup {None}, last : Nbr \cup {None}, synced : BOOLEAN]
      /\ age' \in Age
      /\ TimeoutForSource'
  <2>1. CASE ~Head(done).noack
    <3>1. ka' = Scheduled(ka, FALSE) /\ UNCHANGED <<net, src, age>>
      BY <2>1 DEF KeepalivePacketSent
    <3>2. ka' \in Keepalive /\ ka'.status # "unchanged" /\ ka'.timeout = ka.timeout
      BY <1>4, <3>1, ScheduledIs
    <3> QED
      BY <3>1, <3>2 DEF TypeOK, TimeoutForSource
  <2>2. CASE Head(done).noack
    <3>1. Resynchronize(Head(done).n)
      BY <2>2 DEF KeepalivePacketSent
    <3> QED
      BY <1>1, <3>1, ResynchronizeIs
  <2> QED
    BY <2>1, <2>2
<1>6. TypeOK'
  BY <1>1, <1>2, <1>3, <1>5 DEF TypeOK, Pending, Keepalive
<1> QED
  BY <1>3, <1>5, <1>6, AskStep

(* The status that was saved is seen to: a keepalive is sent, or the timer *)
(* runs.                                                                   *)
LEMMA ProcessStep ==
  ASSUME Inv, ProcessPending
  PROVE  Inv'
<1> USE DEF Inv
<1> DEFINE cleared == [ka EXCEPT !.status = "unchanged"]
<1>1. cleared \in Keepalive /\ cleared.timeout = ka.timeout /\ cleared.status = "unchanged"
  BY DEF TypeOK, Keepalive
<1>2. /\ pend' = [polled |-> pend.polled \/ ka'.status # "unchanged",
                  at |-> "idle", saved |-> "unchanged"]
      /\ UNCHANGED <<net, src, input, done, dead>>
  BY DEF ProcessPending
<1>3. pend' \in Pending /\ AskedIsPolled'
  BY <1>2 DEF TypeOK, Pending, AskedIsPolled
<1>4. CASE KeepaliveSend(cleared)
  <2> HIDE DEF cleared
  <2>1. /\ ka' \in Keepalive /\ ka'.timeout = ka.timeout
        /\ queued' \in [Nbr -> 0..MaxKa] /\ age' \in Age
        /\ net.assoc /\ src.ts # None =>
             ka'.status # "unchanged" \/ \E n \in Nbr : queued'[n] > 0
    BY <1>1, <1>4, KeepaliveSendIs
  <2>2. TypeOK' /\ TimeoutForSource'
    BY <1>2, <1>3, <2>1 DEF TypeOK, Keepalive, Pending, TimeoutForSource
  <2>3. KeepaliveComing'
    BY <1>2, <2>1 DEF KeepaliveComing, Requested
  <2> QED
    BY <1>3, <2>2, <2>3
<1>5. CASE /\ ka' = [cleared EXCEPT !.timer = IF net.assoc /\ ka.timeout > 0 THEN 1 ELSE Off]
           /\ UNCHANGED <<queued, age>>
  <2>1. /\ ka' \in Keepalive /\ ka'.timeout = ka.timeout
        /\ net.assoc /\ ka.timeout > 0 => ka'.timer # Off
    <3> DEFINE t == IF net.assoc /\ ka.timeout > 0 THEN 1 ELSE Off
    <3>1. t \in {1, -1} /\ (net.assoc /\ ka.timeout > 0 => t = 1)
      BY DEF Off
    <3>2. ka' = [cleared EXCEPT !.timer = t]
      BY <1>5
    <3> HIDE DEF t, cleared
    <3>3. ka' \in Keepalive /\ ka'.timeout = cleared.timeout /\ ka'.timer = t
      BY <1>1, <3>1, <3>2 DEF Keepalive
    <3> QED
      BY <1>1, <3>1, <3>3 DEF Off
  <2>2. TypeOK' /\ TimeoutForSource'
    BY <1>2, <1>3, <1>5, <2>1 DEF TypeOK, Keepalive, Pending, TimeoutForSource
  <2>3. net.assoc /\ src.ts # None => ka'.timer # Off
    BY <2>1 DEF TimeoutForSource
  <2>4. KeepaliveComing'
    BY <1>2, <2>3 DEF KeepaliveComing
  <2> QED
    BY <1>3, <2>2, <2>4
<1> QED
  BY <1>4, <1>5 DEF ProcessPending

(* The timer sends a keepalive, or asks for one. *)
LEMMA FireStep ==
  ASSUME Inv, Fire
  PROVE  Inv'
<1> USE DEF Inv
<1>1. ka \in Keepalive /\ pend \in Pending
  BY DEF TypeOK, Keepalive, Pending
<1>2. /\ KeepaliveSend(ka) /\ UNCHANGED <<net, src, input, done, dead>>
      /\ pend' = IF ka'.status # ka.status THEN Polled ELSE pend
  BY DEF Fire
<1>3. /\ ka' \in Keepalive /\ ka'.timeout = ka.timeout
      /\ queued' \in [Nbr -> 0..MaxKa] /\ age' \in Age
      /\ net.assoc /\ src.ts # None =>
           ka'.status # "unchanged" \/ \E n \in Nbr : queued'[n] > 0
  BY <1>1, <1>2, KeepaliveSendIs
<1>4. pend' \in Pending
  BY <1>1, <1>2 DEF Polled, Pending
<1>5. ka'.status # "unchanged" => pend'.polled
  <2>1. CASE ka'.status = ka.status
    BY <1>2, <2>1 DEF AskedIsPolled, Fire
  <2>2. CASE ka'.status # ka.status
    BY <1>2, <2>2, <1>1 DEF Polled, Pending
  <2> QED
    BY <2>1, <2>2
<1>6. TypeOK' /\ TimeoutForSource'
  BY <1>2, <1>3, <1>4 DEF TypeOK, Keepalive, Pending, TimeoutForSource
<1>7. AskedIsPolled' /\ KeepaliveComing'
  BY <1>2, <1>3, <1>5 DEF AskedIsPolled, KeepaliveComing, Requested
<1> QED
  BY <1>6, <1>7

-----------------------------------------------------------------------------
(* tsch_process: joining asks for a keepalive, leaving stops them. *)
LEMMA MainStep ==
  ASSUME Inv, \/ Wake \/ Reset \/ \E n \in Nbr : Associate(n)
  PROVE  Inv'
<1> USE DEF Inv
<1>1. ka \in Keepalive /\ pend \in Pending /\ net \in Main
  BY DEF TypeOK, Keepalive, Pending, Main
<1>2. Polled \in Pending /\ Polled.polled /\ Polled.at = pend.at
  BY <1>1 DEF Polled, Pending
<1>3. CASE Wake
  <2>1. net' \in Main /\ net'.assoc = net.assoc
    BY <1>1, <1>3 DEF Wake, Main
  <2>2. pend' \in Pending /\ pend'.polled = pend.polled /\ pend.at = "idle"
        /\ (net.assoc => pend'.at = "idle")
    BY <1>1, <1>3 DEF Wake, Pending
  <2>3. UNCHANGED <<src, ka, input, queued, done, age, dead>>
    BY <1>3 DEF Wake
  <2>4. TypeOK' /\ TimeoutForSource' /\ AskedIsPolled'
    BY <2>1, <2>2, <2>3 DEF TypeOK, Main, Pending, TimeoutForSource, AskedIsPolled
  <2>5. KeepaliveComing'
    BY <2>1, <2>2, <2>3 DEF KeepaliveComing, Requested
  <2> QED
    BY <2>4, <2>5
<1>4. CASE Reset
  <2> DEFINE k == KaForSource(ka, src.ts, None)
  <2>1. k \in Keepalive /\ k.timeout = 0
    BY <1>1, KaForSourceIs DEF TimeoutForSource
  <2>2. /\ ka' = [k EXCEPT !.status = "unchanged"]
        /\ src' = [src EXCEPT !.ts = None, !.last = None]
        /\ net' = [net EXCEPT !.main = "scan"]
        /\ pend' \in {Polled, pend} /\ queued' = [n \in Nbr |-> 0]
        /\ UNCHANGED <<input, done, age, dead>>
    BY <1>4 DEF Reset
  <2> HIDE DEF k
  <2>3. ka' \in Keepalive /\ ka'.timeout = 0 /\ ka'.status = "unchanged"
    BY <2>1, <2>2 DEF Keepalive
  <2>4. src'.ts = None
        /\ src' \in [ts : Nbr \cup {None}, last : Nbr \cup {None}, synced : BOOLEAN]
    BY <2>2 DEF TypeOK
  <2>5. net' \in Main /\ pend' \in Pending /\ queued' \in [Nbr -> 0..MaxKa]
    BY <1>1, <1>2, <2>2, NetAssumption DEF Main
  <2>6. TypeOK'
    BY <2>2, <2>3, <2>4, <2>5 DEF TypeOK, Keepalive, Main, Pending
  <2> QED
    BY <2>3, <2>4, <2>6 DEF TimeoutForSource, AskedIsPolled, KeepaliveComing
<1>5. ASSUME NEW n \in Nbr, Associate(n)
      PROVE  Inv'
  <2> DEFINE k == KaForSource(ka, src.ts, n)
  <2>1. k \in Keepalive /\ k.timeout = 1
    BY <1>1, KaForSourceIs, NetAssumption DEF TimeoutForSource
  <2>2. /\ ka' = Scheduled(k, FALSE)
        /\ src' = [src EXCEPT !.ts = n, !.synced = FALSE]
        /\ net' = [assoc |-> TRUE, main |-> "run", polled |-> FALSE]
        /\ age' = Young
        /\ pend' = Polled /\ UNCHANGED <<input, queued, done, dead>>
    BY <1>5 DEF Associate
  <2> HIDE DEF k
  <2>3. ka' \in Keepalive /\ ka'.status # "unchanged" /\ ka'.timeout = 1
    BY <2>1, <2>2, ScheduledIs
  <2>4. src'.ts = n
        /\ src' \in [ts : Nbr \cup {None}, last : Nbr \cup {None}, synced : BOOLEAN]
    BY <2>2 DEF TypeOK
  <2>5. net' \in Main /\ age' \in Age
    BY <2>2, YoungIs DEF Main
  <2>6. TypeOK'
    BY <1>2, <2>2, <2>3, <2>4, <2>5 DEF TypeOK, Keepalive, Main, Pending
  <2>7. TimeoutForSource'
    BY <2>3, <2>4, NetAssumption DEF TimeoutForSource
  <2> QED
    BY <1>2, <2>2, <2>3, <2>6, <2>7, AskStep
<1> QED
  BY <1>3, <1>4, <1>5

(* The routing layer, the clock and the other nodes. *)
LEMMA OutsideStep ==
  ASSUME Inv, \/ Tick
              \/ \E n \in Nbr : Die(n)
              \/ \E n \in Nbr \cup {None} : ParentSwitch(n)
  PROVE  Inv'
<1> USE DEF Inv
<1>1. ka \in Keepalive /\ pend \in Pending
  BY DEF TypeOK, Keepalive, Pending
<1>2. CASE Tick
  <2>1. /\ age' = [age EXCEPT !.ticks = IF net.assoc /\ @ <= Desync THEN @ + 1 ELSE @]
        /\ ka' = [ka EXCEPT !.timer = IF @ > 0 THEN @ - 1 ELSE @]
        /\ UNCHANGED <<net, src, pend, input, queued, done, dead>>
    BY <1>2 DEF Tick
  <2>2. age' \in Age
    <3> DEFINE t == IF net.assoc /\ age.ticks <= Desync THEN age.ticks + 1 ELSE age.ticks
    <3>1. age \in Age /\ Desync \in Nat
      BY NetAssumption DEF TypeOK
    <3>2. t \in 0..Desync + 1
      BY <3>1 DEF Age
    <3>3. age' = [age EXCEPT !.ticks = t]
      BY <2>1
    <3> HIDE DEF t
    <3> QED
      BY <3>1, <3>2, <3>3 DEF Age
  <2>3. /\ ka' \in Keepalive /\ ka'.status = ka.status /\ ka'.timeout = ka.timeout
        /\ ka.timer # Off => ka'.timer # Off
    BY <1>1, <2>1 DEF Keepalive, Off
  <2>4. TypeOK'
    BY <2>1, <2>2, <2>3 DEF TypeOK, Keepalive
  <2>5. TimeoutForSource' /\ AskedIsPolled' /\ KeepaliveComing'
    BY <2>1, <2>3 DEF TimeoutForSource, AskedIsPolled, KeepaliveComing, Requested
  <2> QED
    BY <2>4, <2>5
<1>3. ASSUME NEW n \in Nbr, Die(n)
      PROVE  Inv'
  BY <1>3 DEF Die, TypeOK, TimeoutForSource, AskedIsPolled, KeepaliveComing, Requested
<1>4. ASSUME NEW n \in Nbr \cup {None}, ParentSwitch(n)
      PROVE  Inv'
  <2>1. /\ n # src.ts /\ src' = [src EXCEPT !.ts = n]
        /\ ka' = KaForSource(ka, src.ts, n) /\ pend' = Polled
        /\ age.switches < MaxSwitch
        /\ UNCHANGED <<net, input, queued, done, dead>>
    BY <1>4 DEF ParentSwitch
  <2>2. /\ ka' \in Keepalive /\ ka'.status # "unchanged"
        /\ ka'.timeout = IF n = None THEN 0 ELSE 1
    BY <1>1, <2>1, KaForSourceIs
  <2>3. src'.ts = n
        /\ src' \in [ts : Nbr \cup {None}, last : Nbr \cup {None}, synced : BOOLEAN]
    BY <2>1 DEF TypeOK
  <2>4. age' \in Age
    <3>1. age \in Age /\ MaxSwitch \in Nat /\ Desync \in Nat
      BY NetAssumption DEF TypeOK
    <3>2. age.switches + 1 \in 0..MaxSwitch
      BY <2>1, <3>1 DEF Age
    <3>3. PICK a : a = [age EXCEPT !.switches = @ + 1]
      OBVIOUS
    <3>4. a \in Age /\ [a EXCEPT !.setbacks = Desync] \in Age
      <4>1. a \in Age
        BY <3>1, <3>2, <3>3 DEF Age
      <4>2. Desync \in 0..Desync
        BY <3>1
      <4> QED
        BY <4>1, <4>2 DEF Age
    <3>5. age' \in {[a EXCEPT !.setbacks = Desync], SetBack(a)}
      BY <1>4, <3>3 DEF ParentSwitch
    <3> QED
      BY <3>4, <3>5, SetBackIs
  <2>5. pend' \in Pending /\ pend'.polled
    BY <1>1, <2>1 DEF Polled, Pending
  <2>6. TypeOK'
    BY <2>1, <2>2, <2>3, <2>4, <2>5 DEF TypeOK, Keepalive, Pending
  <2>7. TimeoutForSource'
    BY <2>2, <2>3 DEF TimeoutForSource
  <2> QED
    BY <2>2, <2>5, <2>6, <2>7, AskStep
<1> QED
  BY <1>2, <1>3, <1>4

LEMMA InvStep ==
  ASSUME Inv, [Next]_vars
  PROVE  Inv'
<1>1. CASE Step
  BY <1>1, PendingStep, SentStep, ProcessStep, FireStep, MainStep DEF Step
<1>2. CASE Slot
  BY <1>2, SlotStep DEF Slot
<1>3. CASE Tick \/ \E n \in Nbr \cup {None} : ParentSwitch(n)
  BY <1>3, OutsideStep
<1>4. CASE \E n \in Nbr : \/ \E f \in {"data", "eb", "bad"} : SlotRx(n, f)
                          \/ Associate(n) \/ Die(n)
  BY <1>4, SlotStep, MainStep, OutsideStep
<1>5. CASE UNCHANGED vars
  BY <1>5 DEF vars, Inv, TypeOK, TimeoutForSource, AskedIsPolled, KeepaliveComing, Requested
<1> QED
  BY <1>1, <1>2, <1>3, <1>4, <1>5 DEF Next

LEMMA InvInit == Init => Inv
<1> SUFFICES ASSUME Init
             PROVE  Inv
  OBVIOUS
<1>1. TypeOK
  <2>1. 0 \in 0..Desync + 1 /\ 0 \in 0..MaxSwitch /\ 0 \in 0..MaxKa /\ MaxIn \in Nat
    BY NetAssumption
  <2>2. /\ <<>> \in Seq([n : Nbr, kind : {"data", "eb", "bad"}])
        /\ <<>> \in Seq([n : Nbr, noack : BOOLEAN]) /\ Len(<<>>) = 0
    OBVIOUS
  <2>3. /\ net \in Main /\ pend \in Pending /\ ka \in Keepalive
        /\ src \in [ts : Nbr \cup {None}, last : Nbr \cup {None}, synced : BOOLEAN]
    BY DEF Init, Main, Pending, Keepalive, Off
  <2>4. input = <<>> /\ done = <<>> /\ queued = [n \in Nbr |-> 0] /\ dead = {}
        /\ age = Young
    BY DEF Init
  <2>5. queued \in [Nbr -> 0..MaxKa] /\ Len(input) <= MaxIn
        /\ age \in Age
    BY <2>1, <2>2, <2>4, YoungIs
  <2>6. /\ input \in Seq([n : Nbr, kind : {"data", "eb", "bad"}])
        /\ done \in Seq([n : Nbr, noack : BOOLEAN])
        /\ dead \subseteq Nbr
    BY <2>2, <2>4
  <2> QED
    BY <2>3, <2>5, <2>6 DEF TypeOK, Main, Pending, Keepalive
<1> QED
  BY <1>1 DEF Init, Inv, TimeoutForSource, AskedIsPolled, KeepaliveComing

LEMMA Invariant == Spec => []Inv
  BY InvInit, InvStep, PTL DEF Spec

(* The rings, queues and status words of the node keep their types.        *)
THEOREM NetTypeCorrect == Spec => []TypeOK
<1>1. Inv => TypeOK
  BY DEF Inv
<1> QED
  BY <1>1, Invariant, PTL

(* A node with a time source always has a keepalive coming, whenever slots *)
(* come between reading and clearing the status, whatever fails to be sent *)
(* and however often the source changes.                                   *)
THEOREM KeepaliveAlwaysComing == Spec => []KeepaliveComing
<1>1. Inv => KeepaliveComing
  BY DEF Inv
<1> QED
  BY <1>1, Invariant, PTL


-----------------------------------------------------------------------------

(***************************************************************************)
(* Why a node stays in time.  A tick ends with the keepalive timer due,    *)
(* and the next one has to wait for the keepalive: it is acknowledged, or  *)
(* lost or refused, or the source has been changed meanwhile.  Each of     *)
(* these but the first is a setback: there is one tick more than setbacks, *)
(* and only while the keepalive is on its way.                             *)
(***************************************************************************)
JustDue ==
  /\ ka.timer = 0 /\ ka.status = "unchanged" /\ pend.at # "saved"
  /\ done = <<>> /\ \A n \in Nbr : queued[n] = 0

(* No report waits that would take the node away from its time source.     *)
NoneLost == \A k \in 1..Len(done) : done[k].n = src.ts => ~done[k].noack

InTime ==
  /\ src.ts \in Nbr
  /\ \/ age.ticks <= age.setbacks
     \/ age.ticks = age.setbacks + 1 /\ NoneLost /\ (queued[src.ts] > 0 \/ JustDue)

SyncInv ==
  /\ net.assoc => net.main = "run"
  /\ net.assoc /\ age.setbacks < Desync => InTime

Source == [ts : Nbr \cup {None}, last : Nbr \cup {None}, synced : BOOLEAN]
Report == [n : Nbr, noack : BOOLEAN]

LEMMA TypesAre ==
  ASSUME TypeOK
  PROVE  /\ ka \in Keepalive /\ pend \in Pending /\ net \in Main /\ src \in Source /\ age \in Age
         /\ queued \in [Nbr -> 0..MaxKa] /\ done \in Seq(Report)
         /\ None \notin Nbr /\ MaxKa \in Nat /\ Desync \in Nat /\ MaxSwitch \in Nat
         /\ age.ticks \in Nat /\ age.setbacks \in Nat
BY NetAssumption DEF TypeOK, Keepalive, Pending, Main, Source, Age, Report

(* The time source stays, the node is no younger, and neither is its queue *)
(* shorter nor its timer set back: it is in time as before.                *)
LEMMA SameTime ==
  ASSUME TypeOK, UNCHANGED <<age, queued, done>>, src'.ts = src.ts, InTime,
         JustDue => JustDue'
  PROVE  InTime'
BY DEF InTime, NoneLost

(* Steps that write neither the queue, the reports nor what is in time. *)
LEMMA SyncSame ==
  ASSUME TypeOK, SyncInv, UNCHANGED <<age, queued, done>>, src'.ts = src.ts,
         net'.assoc => net.assoc, net'.assoc => net'.main = "run",
         net'.assoc /\ JustDue => JustDue'
  PROVE  SyncInv'
BY SameTime DEF SyncInv

LEMMA SyncSlot ==
  ASSUME Inv, SyncInv,
         \/ \E n \in Nbr : \E f \in {"data", "eb", "bad"} : SlotRx(n, f)
         \/ SlotDesync \/ \E n \in Nbr, status \in Status : SlotTx(n, status)
  PROVE  SyncInv'
<1>1. /\ TypeOK /\ net.assoc /\ net.main = "run" /\ age \in Age
      /\ age.ticks \in Nat /\ age.setbacks \in Nat
      /\ age.setbacks < Desync => InTime
  BY TypesAre DEF Inv, SyncInv, SlotRx, SlotDesync, SlotTx
<1>2. ASSUME NEW n \in Nbr, NEW f \in {"data", "eb", "bad"}, SlotRx(n, f)
      PROVE  SyncInv'
  <2>1. UNCHANGED <<net, queued, done, dead>> /\ pend'.at = pend.at /\ src'.ts = src.ts
    BY <1>2, TypesAre, <1>1 DEF SlotRx, Polled, Source, Pending
  <2>2. CASE n = src.ts
    <3>1. age'.ticks = 0 /\ age'.setbacks = 0
      BY <1>2, <2>2, YoungIs DEF SlotRx, Synced
    <3> QED
      BY <1>1, <2>1, <2>2, <3>1 DEF SyncInv, InTime
  <2>3. CASE n # src.ts
    <3>1. age' = age /\ ka' = ka
      BY <1>2, <2>3 DEF SlotRx
    <3>2. JustDue => JustDue'
      BY <2>1, <3>1 DEF JustDue
    <3> QED
      BY <1>1, <2>1, <3>1, <3>2, SyncSame
  <2> QED
    BY <2>2, <2>3
<1>3. CASE SlotDesync
  <2>1. ~net'.assoc
    BY <1>1, <1>3, TypesAre DEF SlotDesync, Disassociated, Main
  <2> QED
    BY <2>1 DEF SyncInv
<1>4. ASSUME NEW n \in Nbr, NEW status \in Status, SlotTx(n, status)
      PROVE  SyncInv'
  <2>1. UNCHANGED <<net, src>> /\ queued[n] > 0
    BY <1>4 DEF SlotTx
  <2>2. CASE n = src.ts /\ status = "ok"
    <3>1. age'.ticks = 0 /\ age'.setbacks = 0
      BY <1>4, <2>2, YoungIs DEF SlotTx, Synced
    <3> QED
      BY <1>1, <2>1, <2>2, <3>1 DEF SyncInv, InTime
  <2>3. CASE n = src.ts /\ status # "ok"
    <3>1. age' = SetBack(age)
      BY <1>4, <2>3 DEF SlotTx
    <3>2. /\ age'.ticks = age.ticks
          /\ age.setbacks < Desync => age'.setbacks = age.setbacks + 1
          /\ age'.setbacks < Desync => age.setbacks < Desync
      BY <1>1, <3>1, SetBackIs
    <3>3. age.setbacks < Desync => age.ticks <= age.setbacks + 1
      BY <1>1 DEF InTime
    <3> QED
      BY <1>1, <2>1, <2>3, <3>2, <3>3 DEF SyncInv, InTime
  <2>4. CASE n # src.ts
    <3> SUFFICES ASSUME InTime, age.setbacks < Desync
                 PROVE  InTime'
      BY <1>1, <1>4, <2>1, <2>4 DEF SyncInv, SlotTx
    <3>1. age' = age /\ ~JustDue /\ src.ts \in Nbr
      BY <1>1, <1>4, <2>1, <2>4, TypesAre DEF SlotTx, InTime, JustDue
    <3>2. queued'[src.ts] = queued[src.ts]
      BY <1>1, <1>4, <2>4, <3>1, TypesAre DEF SlotTx
    <3>3. NoneLost => NoneLost'
      <4>1. PICK r : r = [n |-> n, noack |-> status = "noack"]
        OBVIOUS
      <4>2. r \in Report /\ r.n = n /\ done \in Seq(Report) /\ done' = Append(done, r)
        BY <1>1, <1>4, <4>1, TypesAre DEF Report, SlotTx
      <4>3. \A k \in 1..Len(done') : done'[k] = r \/ (k \in 1..Len(done) /\ done'[k] = done[k])
        BY <4>2
      <4> QED
        BY <2>1, <2>4, <4>2, <4>3 DEF NoneLost
    <3> QED
      BY <2>1, <3>1, <3>2, <3>3 DEF InTime
  <2> QED
    BY <2>2, <2>3, <2>4
<1> QED
  BY <1>2, <1>3, <1>4

LEMMA SyncPending ==
  ASSUME Inv, SyncInv, PendStart \/ EbInput \/ EbInputEnd \/ SaveStatus
  PROVE  SyncInv'
<1>1. TypeOK /\ src \in Source /\ net \in Main /\ pend \in Pending
  BY TypesAre DEF Inv
<1>2. /\ UNCHANGED <<ka, age, queued, dead, done>>
      /\ net'.main = net.main /\ (net'.assoc => net.assoc)
  BY <1>1 DEF PendStart, EbInput, EbInputEnd, SaveStatus, Disassociated, Main
<1>3. src'.ts = src.ts
  BY <1>1 DEF PendStart, EbInput, EbInputEnd, SaveStatus, Source
<1>4. JustDue => pend'.at # "saved"
  BY <1>1 DEF PendStart, EbInput, EbInputEnd, SaveStatus, Pending, JustDue
<1>5. JustDue => JustDue'
  BY <1>2, <1>4 DEF JustDue
<1> QED
  BY <1>1, <1>2, <1>3, <1>5, SyncSame DEF SyncInv

(* The report of a lost keepalive may change the time source: the loss has *)
(* been counted.  Any other report leaves the source alone.                *)
LEMMA SyncSent ==
  ASSUME Inv, SyncInv, KeepalivePacketSent
  PROVE  SyncInv'
<1>1. /\ TypeOK /\ src \in Source /\ net \in Main /\ done # <<>> /\ done \in Seq(Report)
      /\ age.ticks \in Nat /\ age.setbacks \in Nat /\ None \notin Nbr
      /\ UNCHANGED <<queued, dead>> /\ done' = Tail(done)
  BY TypesAre DEF Inv, KeepalivePacketSent
<1>2. /\ \A k \in 1..Len(done') : done'[k] = done[k + 1] /\ k + 1 \in 1..Len(done)
      /\ Head(done) = done[1] /\ 1 \in 1..Len(done)
  BY <1>1
<1>3. net'.main = net.main /\ (net'.assoc => net.assoc)
  BY <1>1 DEF KeepalivePacketSent, Resynchronize, Disassociated, Main
<1>4. age'.ticks = age.ticks /\ age'.setbacks = age.setbacks
  BY TypesAre DEF Inv, KeepalivePacketSent, Resynchronize, Age
<1>5. ASSUME net.assoc, age.setbacks < Desync
      PROVE  InTime'
  <2>1. InTime /\ ~JustDue /\ src.ts \in Nbr /\ src.ts # None
    BY <1>1, <1>5 DEF SyncInv, InTime, JustDue
  <2>2. CASE src' = src
    BY <1>1, <1>2, <1>4, <2>1, <2>2 DEF InTime, NoneLost
  <2>3. CASE src' # src
    <3>1. /\ Head(done).noack /\ Head(done).n = src.ts /\ src.last # None
          /\ src'.ts \in {src.ts, src.last}
      BY <1>1, <2>1, <2>3 DEF KeepalivePacketSent, Resynchronize, Changed, Source
    <3>2. ~NoneLost
      BY <1>2, <3>1 DEF NoneLost
    <3>3. src'.ts \in Nbr /\ age.ticks <= age.setbacks
      BY <1>1, <2>1, <3>1, <3>2 DEF InTime, Source
    <3> QED
      BY <1>4, <3>3 DEF InTime
  <2> QED
    BY <2>2, <2>3
<1> QED
  BY <1>1, <1>3, <1>4, <1>5 DEF SyncInv

(* A keepalive that is accepted is in the queue of the time source, one    *)
(* that is refused is a setback.                                           *)
LEMMA SendInTime ==
  ASSUME TypeOK, NEW k \in Keepalive, KeepaliveSend(k), net.assoc, age.setbacks < Desync, InTime,
         UNCHANGED <<src, done>>
  PROVE  InTime'
<1>1. /\ src.ts \in Nbr /\ src.ts # None /\ queued \in [Nbr -> 0..MaxKa] /\ MaxKa \in Nat
      /\ age \in Age /\ age.ticks \in Nat /\ age.setbacks \in Nat
  BY TypesAre DEF InTime
<1>2. CASE queued' = [queued EXCEPT ![src.ts] = @ + 1] /\ age' = age
  <2>1. queued'[src.ts] > 0
    BY <1>1, <1>2
  <2>2. NoneLost' <=> NoneLost
    BY DEF NoneLost
  <2> QED
    BY <1>1, <1>2, <2>1, <2>2 DEF InTime
<1>3. CASE queued' = queued /\ age' = SetBack(age)
  <2>1. age'.ticks = age.ticks /\ age'.setbacks = age.setbacks + 1
    BY <1>1, <1>3, SetBackIs
  <2> QED
    BY <1>1, <2>1 DEF InTime
<1> QED
  BY <1>1, <1>2, <1>3 DEF KeepaliveSend

LEMMA SyncSend ==
  ASSUME Inv, SyncInv, ProcessPending \/ Fire
  PROVE  SyncInv'
<1>1. /\ TypeOK /\ ka \in Keepalive /\ age \in Age /\ UNCHANGED <<net, src, input, done, dead>>
  BY TypesAre DEF Inv, ProcessPending, Fire
<1>2. ASSUME net.assoc, age'.setbacks < Desync
      PROVE  InTime'
  <2>1. age' \in {age, SetBack(age)}
    BY DEF ProcessPending, Fire, KeepaliveSend
  <2>2. age.setbacks < Desync /\ InTime
    BY <1>1, <1>2, <2>1, SetBackIs DEF SyncInv
  <2>3. CASE \E k \in Keepalive : KeepaliveSend(k)
    BY <1>1, <1>2, <2>2, <2>3, SendInTime
  <2>4. CASE ~\E k \in Keepalive : KeepaliveSend(k)
    <3>1. [ka EXCEPT !.status = "unchanged"] \in Keepalive
      BY <1>1 DEF Keepalive
    <3>2. ProcessPending /\ ~KeepaliveSend([ka EXCEPT !.status = "unchanged"])
      BY <1>1, <2>4, <3>1 DEF Fire
    <3>3. queued' = queued /\ age' = age /\ ~JustDue
      BY <3>2 DEF ProcessPending, JustDue
    <3> QED
      BY <1>1, <2>2, <3>3, SameTime
  <2> QED
    BY <2>3, <2>4
<1> QED
  BY <1>1, <1>2 DEF SyncInv

LEMMA SyncMain ==
  ASSUME Inv, SyncInv, \/ Wake \/ Reset \/ \E n \in Nbr : Associate(n)
  PROVE  SyncInv'
<1>1. /\ TypeOK /\ net \in Main /\ src \in Source /\ pend \in Pending
      /\ UNCHANGED <<done, dead>>
  BY TypesAre DEF Inv, Wake, Reset, Associate
<1>2. CASE Wake
  <2>1. /\ net'.assoc = net.assoc /\ (net.assoc => net'.main = "run" /\ pend'.at = "idle")
        /\ UNCHANGED <<src, ka, queued, age>>
    BY <1>1, <1>2 DEF Wake, Main, Pending
  <2>2. net'.assoc /\ JustDue => JustDue'
    BY <1>1, <2>1 DEF JustDue
  <2> QED
    BY <1>1, <2>1, <2>2, SyncSame
<1>3. CASE Reset
  <2>1. ~net'.assoc
    BY <1>1, <1>3 DEF Reset, Main, SyncInv
  <2> QED
    BY <2>1 DEF SyncInv
<1>4. ASSUME NEW n \in Nbr, Associate(n)
      PROVE  SyncInv'
  <2>1. /\ net' = [assoc |-> TRUE, main |-> "run", polled |-> FALSE] /\ age' = Young
        /\ src' = [src EXCEPT !.ts = n, !.synced = FALSE]
    BY <1>4 DEF Associate
  <2>2. src'.ts = n /\ age'.ticks = 0 /\ age'.setbacks = 0
    BY <1>1, <2>1, YoungIs DEF Source
  <2>3. InTime'
    BY <2>2 DEF InTime
  <2> QED
    BY <2>1, <2>3 DEF SyncInv
<1> QED
  BY <1>2, <1>3, <1>4

LEMMA SyncOutside ==
  ASSUME Inv, SyncInv, \/ Tick
                       \/ \E n \in Nbr : Die(n)
                       \/ \E n \in Nbr \cup {None} : ParentSwitch(n)
  PROVE  SyncInv'
<1>1. /\ TypeOK /\ ka \in Keepalive /\ src \in Source /\ age \in Age /\ None \notin Nbr
      /\ age.ticks \in Nat /\ age.setbacks \in Nat /\ queued \in [Nbr -> 0..MaxKa]
      /\ Desync \in Nat /\ UNCHANGED <<net, done>>
  BY TypesAre DEF Inv, Tick, Die, ParentSwitch
<1>2. CASE Tick
  <2> SUFFICES ASSUME net.assoc, age'.setbacks < Desync
               PROVE  InTime'
    BY <1>1 DEF SyncInv
  <2>1. /\ UNCHANGED <<net, src, pend, queued, dead>>
        /\ ka.timer # 0 /\ ka.status = "unchanged" /\ pend.at # "saved" /\ done = <<>>
        /\ queued = [n \in Nbr |-> 0] /\ age.ticks <= Desync
    BY <1>1, <1>2 DEF Tick, Quiet, LostSync
  <2>2. age'.ticks = age.ticks + 1 /\ age'.setbacks = age.setbacks
    BY <1>1, <1>2, <2>1 DEF Tick, Age
  <2>3. InTime /\ \A n \in Nbr : queued[n] = 0
    BY <2>1, <2>2 DEF SyncInv
  <2>4. ka.timer = 1
    <3>1. ka.timer # Off
      BY <1>1, <2>1, <2>3 DEF Inv, KeepaliveComing, Requested, InTime
    <3> QED
      BY <1>1, <2>1, <3>1 DEF Keepalive, Off
  <2>5. ka'.timer = 0 /\ ka'.status = "unchanged"
    <3>1. ka' = [ka EXCEPT !.timer = IF @ > 0 THEN @ - 1 ELSE @]
      BY <1>2 DEF Tick
    <3> QED
      BY <1>1, <2>1, <2>4, <3>1 DEF Keepalive
  <2>6. JustDue' /\ NoneLost' /\ age.ticks <= age.setbacks
    BY <1>1, <2>1, <2>3, <2>5 DEF InTime, JustDue, NoneLost
  <2> QED
    BY <1>1, <2>1, <2>2, <2>3, <2>6 DEF InTime
<1>3. ASSUME NEW n \in Nbr, Die(n)
      PROVE  SyncInv'
  <2>1. UNCHANGED <<net, src, ka, pend, queued, done, age>>
    BY <1>3 DEF Die
  <2> QED
    BY <2>1 DEF SyncInv, InTime, JustDue, NoneLost
<1>4. ASSUME NEW n \in Nbr \cup {None}, ParentSwitch(n)
      PROVE  SyncInv'
  <2> SUFFICES ASSUME net.assoc, age'.setbacks < Desync
               PROVE  InTime'
    BY <1>1 DEF SyncInv
  <2>1. PICK a : a = [age EXCEPT !.switches = @ + 1]
    OBVIOUS
  <2>2. age' = (IF n = None THEN [a EXCEPT !.setbacks = Desync] ELSE SetBack(a))
        /\ src' = [src EXCEPT !.ts = n] /\ age.switches < MaxSwitch
    BY <1>4, <2>1 DEF ParentSwitch
  <2>3. a \in Age /\ a.ticks = age.ticks /\ a.setbacks = age.setbacks
    <3>1. age.switches + 1 \in 0..MaxSwitch
      BY <1>1, <2>2, NetAssumption DEF Age
    <3> QED
      BY <1>1, <2>1, <3>1 DEF Age
  <2>4. n # None
    BY <1>1, <2>2, <2>3 DEF Age
  <2>5. age'.ticks = age.ticks /\ age.setbacks < Desync /\ age'.setbacks = age.setbacks + 1
    BY <2>2, <2>3, <2>4, SetBackIs
  <2>6. src'.ts = n /\ n \in Nbr
    BY <1>1, <2>2, <2>4 DEF Source
  <2> QED
    BY <1>1, <2>5, <2>6 DEF SyncInv, InTime
<1> QED
  BY <1>2, <1>3, <1>4

LEMMA SyncStep ==
  ASSUME Inv, SyncInv, [Next]_vars
  PROVE  SyncInv'
<1>1. CASE Step
  BY <1>1, SyncPending, SyncSent, SyncSend, SyncMain DEF Step
<1>2. CASE Slot
  BY <1>2, SyncSlot DEF Slot
<1>3. CASE Tick \/ \E n \in Nbr \cup {None} : ParentSwitch(n)
  BY <1>3, SyncOutside
<1>4. CASE \E n \in Nbr : \/ \E f \in {"data", "eb", "bad"} : SlotRx(n, f)
                          \/ Associate(n) \/ Die(n)
  BY <1>4, SyncSlot, SyncMain, SyncOutside
<1>5. CASE UNCHANGED vars
  BY <1>5 DEF vars, SyncInv, NoneLost, InTime, JustDue
<1> QED
  BY <1>1, <1>2, <1>3, <1>4, <1>5 DEF Next

(* A node never loses synchronisation before each keepalive timeout of the *)
(* threshold has had its setback: whatever is lost, refused or changed     *)
(* costs one timeout at most, in any interleaving of slots, reports and    *)
(* timers, whether the time source is there or has stopped.                *)
THEOREM SyncKept == Spec => []StaysInSync
<1>1. Init => SyncInv
  BY DEF Init, SyncInv
<1>2. Inv /\ SyncInv /\ [Next]_vars => Inv' /\ SyncInv'
  BY InvStep, SyncStep
<1>3. Inv /\ SyncInv => StaysInSync
  <2> SUFFICES ASSUME Inv, SyncInv, net.assoc, age.setbacks < Desync
               PROVE  ~(age.ticks > Desync)
    BY DEF StaysInSync, LostSync
  <2>1. InTime /\ age.setbacks \in Nat /\ age.ticks \in Nat /\ Desync \in Nat
    BY TypesAre DEF SyncInv, Inv
  <2> QED
    BY <2>1 DEF InTime
<1> QED
  BY <1>1, <1>2, <1>3, InvInit, PTL DEF Spec
=============================================================================

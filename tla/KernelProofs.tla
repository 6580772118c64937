---------------------------- MODULE KernelProofs ----------------------------
(***************************************************************************)
(* Theorems about the event timers, for any timers, intervals, width of    *)
(* the clock and length of the event queue: the list of timers is sound,   *)
(* and no expiry is overlooked although the clock wraps around and the     *)
(* interrupt looks at one number only, the nearest expiry.  And about the  *)
(* process scheduler, for any processes and nesting of calls: the list of  *)
(* processes holds those that run, no thread is re-entered, and no poll    *)
(* that an interrupt asks for is forgotten.                                *)
(***************************************************************************)
EXTENDS Timers, Processes, TLAPS, WellFoundedInduction

(* The ticks since a timer was started, in the arithmetic of the clock. *)
Age(n, r) == (n - r.start) % Width

(* A timer that runs is younger than half a round of the clock. *)
Young(n, k, r) == r.interval \in Interval /\ Age(n, r) <= k

(* What update_time() computes: a time e, at most k ticks ago, that is not *)
(* after the expiry of any timer that has not expired yet.  That it is the *)
(* same modulo Width as the clock plus r is written without %.             *)
Wake(n, k, list, timers, e) ==
  \E r \in -k..Width :
    /\ e \in {n + r, n + r - Width, n + r + Width}
    /\ \A t \in Members(list) :
         Age(n, timers[t]) < timers[t].interval => r <= timers[t].interval - Age(n, timers[t])

Ages == \A t \in Timer : t \in Listed \/ tm[t].interval # 0 => Young(now, ticks, tm[t])

(* The etimer process is to be polled when a timer is due, and next_       *)
(* expiration is set for those that are not.                               *)
TimerInv ==
  /\ ListSound
  /\ Ages
  /\ \A t \in Listed : tm[t].interval <= Age(now, tm[t]) => polled
  /\ timerlist # <<>> => Wake(now, ticks, timerlist, tm, nextexp)


-----------------------------------------------------------------------------
(***************************************************************************)
(* Arithmetic of the clock.                                                *)
(***************************************************************************)
LEMMA Modulo ==
  ASSUME NEW n \in Nat \ {0}
  PROVE  /\ \A x \in 0..n - 1 : x % n = x
         /\ \A x \in 0..n - 1 : (x + n) % n = x
         /\ \A x \in 0..n - 1 : (x - n) % n = x
OBVIOUS

(* The numbers the clock is computed with are less than a round away. *)
LEMMA Wrap ==
  ASSUME NEW x \in -Width..2 * Width - 1
  PROVE  x % Width = IF x < 0 THEN x + Width ELSE IF x < Width THEN x ELSE x - Width
<1>1. Width \in Nat \ {0}
  BY TimersAssumption
<1>2. CASE x < 0
  <2>1. x + Width \in 0..Width - 1 /\ x = (x + Width) - Width
    BY <1>1, <1>2
  <2>2. x % Width = x + Width
    BY <1>1, <2>1, Modulo
  <2> QED
    BY <1>2, <2>2
<1>3. CASE 0 <= x /\ x < Width
  <2>1. x \in 0..Width - 1
    BY <1>1, <1>3
  <2>2. x % Width = x
    BY <1>1, <2>1, Modulo
  <2> QED
    BY <1>3, <2>2
<1>4. CASE Width <= x
  <2>1. x - Width \in 0..Width - 1 /\ x = (x - Width) + Width
    BY <1>1, <1>4
  <2>2. x % Width = x - Width
    BY <1>1, <2>1, Modulo
  <2> QED
    BY <1>1, <1>4, <2>2
<1> QED
  BY <1>1, <1>2, <1>3, <1>4

Clock == 0..Width - 1
Timers == [start : Clock, interval : Interval \cup {0}, p : {"none", "ctimer", "app"}]

LEMMA AgeIs ==
  ASSUME NEW n \in Clock, NEW r \in Timers
  PROVE  /\ Age(n, r) = IF n < r.start THEN n - r.start + Width ELSE n - r.start
         /\ Age(n, r) \in Clock
<1>1. Width \in Nat \ {0} /\ n \in 0..Width - 1 /\ r.start \in 0..Width - 1
  BY TimersAssumption DEF Clock, Timers
<1>2. n - r.start \in -Width..2 * Width - 1
  BY <1>1
<1>3. Age(n, r) = IF n < r.start THEN n - r.start + Width ELSE n - r.start
  BY <1>1, <1>2, Wrap DEF Age
<1> QED
  BY <1>1, <1>3 DEF Clock

LEMMA Bounds ==
  ASSUME NEW i \in Interval
  PROVE  /\ i \in Nat /\ MaxTicks \in Nat /\ Width \in Nat \ {0, 1}
         /\ 2 * (i + MaxTicks) < Width
BY TimersAssumption

(* timer_expired() says that the interval is over: the 1 that it adds does *)
(* not make the age of a young timer wrap.                                 *)
LEMMA ExpiredIs ==
  ASSUME now \in Clock, ticks \in 0..MaxTicks, NEW t, tm[t] \in Timers,
         Young(now, ticks, tm[t])
  PROVE  Expired(t) <=> tm[t].interval <= Age(now, tm[t])
<1>1. Age(now, tm[t]) \in Clock /\ Age(now, tm[t]) <= ticks /\ tm[t].interval \in Interval
  BY AgeIs DEF Young
<1>2. /\ tm[t].interval \in Nat /\ MaxTicks \in Nat /\ Width \in Nat \ {0, 1}
      /\ 2 * (tm[t].interval + MaxTicks) < Width
  BY <1>1, Bounds
<1>3. Age(now, tm[t]) + 1 \in -Width..2 * Width - 1 /\ Age(now, tm[t]) + 1 < Width
      /\ 0 <= Age(now, tm[t]) + 1
  BY <1>1, <1>2 DEF Clock
<1>4. (Age(now, tm[t]) + 1) % Width = Age(now, tm[t]) + 1
  BY <1>3, Wrap
<1>5. Expired(t) <=> tm[t].interval < Age(now, tm[t]) + 1
  BY <1>4 DEF Expired, Age
<1> QED
  BY <1>1, <1>2, <1>5 DEF Clock

-----------------------------------------------------------------------------
(***************************************************************************)
(* Induction over the positions of a sequence.                             *)
(***************************************************************************)
LEMMA Least ==
  ASSUME NEW T, T \subseteq Nat, T # {}
  PROVE  \E x \in T : \A y \in T : x <= y
<1> DEFINE R == OpToRel(<, Nat)
<1>1. PICK x \in T : \A y \in T : <<y, x>> \notin R
  BY WFMin, NatLessThanWellFounded
<1>2. R = {ss \in Nat \X Nat : ss[1] < ss[2]}
  BY Zenon DEF OpToRel
<1> HIDE DEF R
<1>3. \A y \in T : ~(y < x)
  BY <1>1, <1>2
<1> QED
  BY <1>3

LEMMA Induction ==
  ASSUME NEW n \in Nat, NEW T, 0 \in T, \A i \in 0..n - 1 : i \in T => i + 1 \in T
  PROVE  0..n \subseteq T
<1> DEFINE U == (0..n) \ T
<1> SUFFICES ASSUME U # {} PROVE FALSE
  OBVIOUS
<1>1. U \subseteq Nat
  OBVIOUS
<1>2. PICK x \in U : \A y \in U : x <= y
  <2> HIDE DEF U
  <2> QED
    BY <1>1, Least
<1> QED
  BY <1>2

(* The smallest of the numbers that Min is asked about. *)
LEMMA MinIs ==
  ASSUME NEW T, T \subseteq Nat, T # {}
  PROVE  Min(T) \in T /\ \A y \in T : Min(T) <= y
BY Least DEF Min


-----------------------------------------------------------------------------
(***************************************************************************)
(* Lists of timers.                                                        *)
(***************************************************************************)
Distinct(s) == \A i, j \in 1..Len(s) : s[i] = s[j] => i = j

LEMMA InjectiveIs ==
  ASSUME NEW s \in Seq(Timer)
  PROVE  IsInjective(s) <=> Distinct(s)
<1>1. DOMAIN s = 1..Len(s)
  OBVIOUS
<1> QED
  BY <1>1 DEF IsInjective, Distinct

LEMMA AppendIs ==
  ASSUME NEW s \in Seq(Timer), NEW e \in Timer
  PROVE  /\ Append(s, e) \in Seq(Timer)
         /\ Members(Append(s, e)) = Members(s) \cup {e}
         /\ Distinct(s) /\ e \notin Members(s) => Distinct(Append(s, e))
<1> DEFINE a == Append(s, e)
<1>1. /\ a \in Seq(Timer) /\ Len(a) = Len(s) + 1
      /\ \A i \in 1..Len(s) : a[i] = s[i]
      /\ a[Len(s) + 1] = e
  OBVIOUS
<1> HIDE DEF a
<1>2. Members(a) = Members(s) \cup {e}
  BY <1>1 DEF Members
<1>3. Distinct(s) /\ e \notin Members(s) => Distinct(a)
  BY <1>1 DEF Members, Distinct
<1> QED
  BY <1>1, <1>2, <1>3 DEF a

LEMMA ConcatIs ==
  ASSUME NEW S, NEW u \in Seq(S), NEW v \in Seq(S)
  PROVE  u \o v \in Seq(S) /\ Len(u \o v) = Len(u) + Len(v)
OBVIOUS

LEMMA PushIs ==
  ASSUME NEW s \in Seq(Timer), NEW e \in Timer
  PROVE  /\ <<e>> \o s \in Seq(Timer) /\ <<e>> \o s # <<>>
         /\ Members(<<e>> \o s) = Members(s) \cup {e}
         /\ Distinct(s) /\ e \notin Members(s) => Distinct(<<e>> \o s)
<1> DEFINE a == <<e>> \o s
<1>1. /\ a \in Seq(Timer) /\ Len(a) = Len(s) + 1
      /\ \A i \in 1..Len(a) : a[i] = IF i = 1 THEN e ELSE s[i - 1]
  OBVIOUS
<1> HIDE DEF a
<1>2. a # <<>>
  BY <1>1
<1>3. Members(a) = Members(s) \cup {e}
  <2>1. \A i \in 1..Len(a) : a[i] \in Members(s) \cup {e}
    BY <1>1 DEF Members
  <2>2. 1 \in 1..Len(a) /\ a[1] = e
    BY <1>1
  <2>3. \A i \in 1..Len(s) : i + 1 \in 1..Len(a) /\ a[i + 1] = s[i]
    BY <1>1
  <2>4. e \in Members(a)
    BY <2>2 DEF Members
  <2>5. Members(s) \subseteq Members(a)
    BY <2>3 DEF Members
  <2>6. Members(a) \subseteq Members(s) \cup {e}
    <3> SUFFICES ASSUME NEW i \in 1..Len(a) PROVE a[i] \in Members(s) \cup {e}
      BY DEF Members
    <3> QED
      BY <2>1
  <2> QED
    BY <2>4, <2>5, <2>6
<1>4. ASSUME Distinct(s), e \notin Members(s) PROVE Distinct(a)
  <2> SUFFICES ASSUME NEW i \in 1..Len(a), NEW j \in 1..Len(a), a[i] = a[j]
               PROVE  i = j
    BY DEF Distinct
  <2>1. \A k \in 1..Len(a) : k # 1 => k - 1 \in 1..Len(s) /\ a[k] = s[k - 1] /\ a[k] # e
    BY <1>1, <1>4 DEF Members
  <2>2. CASE i = 1 \/ j = 1
    BY <1>1, <2>1, <2>2
  <2>3. CASE i # 1 /\ j # 1
    <3>1. i - 1 \in 1..Len(s) /\ j - 1 \in 1..Len(s) /\ s[i - 1] = s[j - 1]
      BY <2>1, <2>3
    <3>2. i - 1 = j - 1
      BY <3>1, <1>4 DEF Distinct
    <3> QED
      BY <3>2
  <2> QED
    BY <2>2, <2>3
<1> QED
  BY <1>1, <1>2, <1>3, <1>4 DEF a

(* The list without some timers, by recursion over its positions. *)
IsKept(g, s, S, n) ==
  g = [i \in 0..n |-> IF i = 0 THEN <<>>
                      ELSE IF s[i] \in S THEN Append(g[i - 1], s[i]) ELSE g[i - 1]]

LEMMA KeptUpTo ==
  ASSUME NEW s, NEW S, NEW n \in Nat
  PROVE  \E g : IsKept(g, s, S, n)
<1> DEFINE Holds(g, m) == IsKept(g, s, S, m)
           T == {m \in Nat : \E g : Holds(g, m)}
<1>1. 0 \in T
  <2>1. Holds([i \in 0..0 |-> <<>>], 0)
    BY DEF IsKept
  <2> QED
    BY <2>1
<1>2. ASSUME NEW m \in 0..n - 1, m \in T PROVE m + 1 \in T
  <2>1. PICK g : Holds(g, m)
    BY <1>2
  <2>2. PICK x : x = IF s[m + 1] \in S THEN Append(g[m], s[m + 1]) ELSE g[m]
    OBVIOUS
  <2> DEFINE h == [i \in 0..m + 1 |-> IF i = m + 1 THEN x ELSE g[i]]
  <2>3. \A i \in 0..m : h[i] = g[i]
    OBVIOUS
  <2>4. h[m + 1] = x
    OBVIOUS
  <2>5. ASSUME NEW i \in 0..m + 1
        PROVE  h[i] = IF i = 0 THEN <<>>
                      ELSE IF s[i] \in S THEN Append(h[i - 1], s[i]) ELSE h[i - 1]
    <3>1. CASE i = m + 1
      <4>1. h[i - 1] = g[m] /\ i # 0
        BY <3>1, <2>3
      <4> QED
        BY <3>1, <4>1, <2>4, <2>2
    <3>2. CASE i # m + 1
      <4>1. i \in 0..m /\ h[i] = g[i] /\ (i # 0 => h[i - 1] = g[i - 1])
        BY <3>2, <2>3
      <4>2. g[i] = IF i = 0 THEN <<>>
                   ELSE IF s[i] \in S THEN Append(g[i - 1], s[i]) ELSE g[i - 1]
        BY <4>1, <2>1 DEF IsKept
      <4> QED
        BY <4>1, <4>2
    <3> QED
      BY <3>1, <3>2
  <2>6. h = [i \in 0..m + 1 |-> h[i]]
    OBVIOUS
  <2> HIDE DEF h
  <2>7. Holds(h, m + 1)
    BY <2>5, <2>6 DEF IsKept
  <2> HIDE DEF Holds
  <2>8. m + 1 \in Nat
    BY <1>2
  <2> QED
    BY <2>7, <2>8
<1>3. \E g : Holds(g, n)
  <2> HIDE DEF T
  <2>1. n \in T
    BY <1>1, <1>2, Induction
  <2> QED
    BY <2>1 DEF T
<1> QED
  BY <1>3

LEMMA KeepIs ==
  ASSUME NEW s \in Seq(Timer), NEW S, Distinct(s)
  PROVE  /\ Keep(s, S) \in Seq(Timer) /\ Distinct(Keep(s, S))
         /\ Members(Keep(s, S)) = Members(s) \cap S
<1> DEFINE n == Len(s)
           upTo[i \in 0..n] ==
             IF i = 0 THEN <<>>
             ELSE IF s[i] \in S THEN Append(upTo[i - 1], s[i]) ELSE upTo[i - 1]
           Good(u, i) == /\ u \in Seq(Timer) /\ Distinct(u)
                         /\ Members(u) = {s[j] : j \in 1..i} \cap S
           T == {i \in 0..n : Good(upTo[i], i)}
<1>0. n \in Nat
  OBVIOUS
<1>1. upTo = [i \in 0..n |-> IF i = 0 THEN <<>>
                             ELSE IF s[i] \in S THEN Append(upTo[i - 1], s[i]) ELSE upTo[i - 1]]
  <2> HIDE DEF n
  <2>1. \E g : IsKept(g, s, S, n)
    BY <1>0, KeptUpTo
  <2> QED
    BY <2>1 DEF IsKept
<1>2. Keep(s, S) = upTo[n]
  BY DEF Keep
<1> HIDE DEF upTo
<1>3. 0 \in T
  <2>1. 0 \in 0..n /\ upTo[0] = <<>>
    BY <1>0, <1>1
  <2>2. <<>> \in Seq(Timer) /\ Distinct(<<>>) /\ Members(<<>>) = {}
    BY DEF Distinct, Members
  <2>3. {s[j] : j \in 1..0} = {}
    OBVIOUS
  <2>4. Good(<<>>, 0)
    BY <2>2, <2>3
  <2> QED
    BY <2>1, <2>4
<1>4. ASSUME NEW i \in 0..n - 1, i \in T PROVE i + 1 \in T
  <2>1. i + 1 \in 1..n /\ i + 1 \in 0..n /\ i \in 0..n /\ (i + 1) - 1 = i /\ i + 1 # 0
    BY <1>0
  <2>2. upTo[i + 1] = IF s[i + 1] \in S THEN Append(upTo[i], s[i + 1]) ELSE upTo[i]
    BY <1>1, <2>1
  <2>3. PICK u : u = upTo[i]
    OBVIOUS
  <2>4. Good(u, i)
    BY <1>4, <2>3
  <2>5. PICK e : e = s[i + 1]
    OBVIOUS
  <2>6. e \in Timer /\ \A j \in 1..i : s[j] # e
    BY <2>1, <2>5 DEF Distinct
  <2>7. {s[j] : j \in 1..i + 1} = {s[j] : j \in 1..i} \cup {e}
    BY <2>1, <2>5
  <2>8. CASE e \in S
    <3>1. upTo[i + 1] = Append(u, e)
      BY <2>2, <2>3, <2>5, <2>8
    <3>2. e \notin Members(u)
      BY <2>4, <2>6
    <3>3. Good(Append(u, e), i + 1)
      <4>1. /\ Append(u, e) \in Seq(Timer) /\ Distinct(Append(u, e))
            /\ Members(Append(u, e)) = Members(u) \cup {e}
        BY <2>4, <2>6, <3>2, AppendIs
      <4> QED
        BY <2>4, <2>7, <2>8, <4>1
    <3> QED
      BY <2>1, <3>1, <3>3
  <2>9. CASE e \notin S
    <3>1. upTo[i + 1] = u
      BY <2>2, <2>3, <2>5, <2>9
    <3>2. Good(u, i + 1)
      BY <2>4, <2>7, <2>9
    <3> QED
      BY <2>1, <3>1, <3>2
  <2> QED
    BY <2>8, <2>9
<1>5. n \in T
  <2> HIDE DEF T, n
  <2>1. \A i \in 0..n - 1 : i \in T => i + 1 \in T
    BY <1>4
  <2>2. 0..n \subseteq T
    BY <1>0, <1>3, <2>1, Induction
  <2> QED
    BY <1>0, <2>2
<1>6. Good(upTo[n], n)
  BY <1>5
<1> QED
  BY <1>2, <1>6 DEF Members


-----------------------------------------------------------------------------
(***************************************************************************)
(* The nearest expiry, as update_time() computes it.                       *)
(***************************************************************************)
LEMMA DistanceIs ==
  ASSUME now \in Clock, ticks \in 0..MaxTicks, NEW r \in Timers, Young(now, ticks, r)
  PROVE  /\ Distance(r) = IF Age(now, r) <= r.interval THEN r.interval - Age(now, r)
                          ELSE r.interval - Age(now, r) + Width
         /\ Distance(r) \in Clock
<1> DEFINE age == Age(now, r)
<1>1. /\ age = IF now < r.start THEN now - r.start + Width ELSE now - r.start
      /\ age \in Clock /\ age <= ticks /\ r.interval \in Interval
  BY AgeIs DEF Young
<1>2. /\ r.interval \in Nat /\ MaxTicks \in Nat /\ Width \in Nat \ {0, 1}
      /\ 2 * (r.interval + MaxTicks) < Width
  BY <1>1, Bounds
<1>3. r.start \in 0..Width - 1 /\ now \in 0..Width - 1 /\ age \in 0..Width - 1
  BY <1>1 DEF Clock, Timers
<1> HIDE DEF age
<1>4. /\ r.start + r.interval - now \in -Width..2 * Width - 1
      /\ age <= r.interval \/ now >= r.start \/ r.start + r.interval - now >= 0
  BY <1>1, <1>2, <1>3
<1> DEFINE x == r.start + r.interval - now
<1>5. x % Width = IF x < 0 THEN x + Width ELSE IF x < Width THEN x ELSE x - Width
  BY <1>4, Wrap
<1>6. x % Width = IF age <= r.interval THEN r.interval - age ELSE r.interval - age + Width
  BY <1>1, <1>2, <1>3, <1>5
<1>7. x % Width \in 0..Width - 1
  BY <1>1, <1>2, <1>3, <1>6
<1> QED
  BY <1>6, <1>7 DEF Distance, age, Clock

LEMMA NextIs ==
  ASSUME now \in Clock, ticks \in 0..MaxTicks, NEW list \in Seq(Timer), list # <<>>,
         NEW timers \in [Timer -> Timers],
         \A t \in Members(list) : Young(now, ticks, timers[t])
  PROVE  /\ NextExpiration(list, timers) \in Clock
         /\ Wake(now, ticks, list, timers, NextExpiration(list, timers))
<1> DEFINE D == {Distance(timers[list[i]]) : i \in 1..Len(list)}
           left(t) == timers[t].interval - Age(now, timers[t])
<1>1. Width \in Nat \ {0, 1} /\ MaxTicks \in Nat /\ now \in 0..Width - 1
  BY TimersAssumption DEF Clock
<1>2. ASSUME NEW t \in Members(list)
      PROVE  /\ Distance(timers[t]) \in 0..Width - 1 /\ left(t) \in -ticks..Width
             /\ Distance(timers[t]) = IF 0 <= left(t) THEN left(t) ELSE left(t) + Width
             /\ 2 * (left(t) + MaxTicks) < Width
             /\ Age(now, timers[t]) < timers[t].interval <=> 0 < left(t)
  <2>1. t \in Timer
    BY DEF Members
  <2>2. timers[t] \in Timers /\ Young(now, ticks, timers[t])
    BY <2>1
  <2>3. PICK r : r = timers[t]
    OBVIOUS
  <2>4. /\ Distance(r) = IF Age(now, r) <= r.interval THEN r.interval - Age(now, r)
                         ELSE r.interval - Age(now, r) + Width
        /\ Distance(r) \in 0..Width - 1
    BY <2>2, <2>3, DistanceIs DEF Clock
  <2>5. Age(now, r) \in 0..Width - 1 /\ Age(now, r) <= ticks /\ r.interval \in Interval
    BY <2>2, <2>3, AgeIs DEF Young, Clock
  <2>6. r.interval \in Nat /\ 2 * (r.interval + MaxTicks) < Width
    BY <2>5, Bounds
  <2>7. PICK a, i : a = Age(now, r) /\ i = r.interval
    OBVIOUS
  <2>8. left(t) = i - a /\ (Age(now, timers[t]) < timers[t].interval <=> a < i)
    BY <2>3, <2>7
  <2>9. /\ Distance(timers[t]) = IF a <= i THEN i - a ELSE i - a + Width
        /\ Distance(timers[t]) \in 0..Width - 1
    BY <2>3, <2>4, <2>7
  <2>10. a \in 0..Width - 1 /\ a <= ticks /\ i \in Nat /\ 2 * (i + MaxTicks) < Width
    BY <2>5, <2>6, <2>7
  <2> HIDE DEF left
  <2> QED
    BY <1>1, <2>8, <2>9, <2>10
<1>3. \A t \in Members(list) : Distance(timers[t]) \in D
  BY DEF Members
<1>4. D # {} /\ D \subseteq Nat /\ \A x \in D : \E t \in Members(list) : x = Distance(timers[t])
  <2>1. 1 \in 1..Len(list)
    OBVIOUS
  <2>2. \A i \in 1..Len(list) : list[i] \in Members(list)
    BY DEF Members
  <2>3. \A x \in D : \E t \in Members(list) : x = Distance(timers[t])
    BY <2>2
  <2>4. \A x \in D : x \in Nat
    BY <1>1, <1>2, <2>3
  <2> QED
    BY <2>1, <2>3, <2>4
<1>5. NextExpiration(list, timers) = (now + Min(D)) % Width
  BY DEF NextExpiration
<1> HIDE DEF D
<1>6. PICK m : m = Min(D)
  OBVIOUS
<1>7. m \in D /\ \A y \in D : m <= y
  BY <1>4, <1>6, MinIs
<1>8. PICK f \in Members(list) : m = Distance(timers[f])
  BY <1>4, <1>7
<1>9. m \in 0..Width - 1 /\ \A t \in Members(list) : m <= Distance(timers[t])
  BY <1>2, <1>3, <1>7, <1>8
<1> DEFINE e == NextExpiration(list, timers)
<1>10. e = IF now + m < Width THEN now + m ELSE now + m - Width
  <2>1. now + m \in -Width..2 * Width - 1 /\ ~(now + m < 0)
    BY <1>1, <1>9
  <2>2. (now + m) % Width = IF now + m < Width THEN now + m ELSE now + m - Width
    <3>1. PICK x : x = now + m
      OBVIOUS
    <3>2. x % Width = IF x < 0 THEN x + Width ELSE IF x < Width THEN x ELSE x - Width
      BY <2>1, <3>1, Wrap
    <3> QED
      BY <1>1, <1>9, <2>1, <3>1, <3>2
  <2>3. e = (now + m) % Width
    BY <1>5, <1>6
  <2> HIDE DEF e
  <2> QED
    BY <2>2, <2>3
<1> HIDE DEF e
<1>11. e \in Clock
  BY <1>1, <1>9, <1>10 DEF Clock
<1>12. left(f) \in -ticks..Width
  BY <1>2
<1>13. e \in {now + left(f), now + left(f) - Width, now + left(f) + Width}
  <2>1. m = left(f) \/ m = left(f) + Width
    BY <1>2, <1>8
  <2> HIDE DEF left
  <2> QED
    BY <1>1, <1>9, <1>10, <1>12, <2>1, SMTT(60)
<1>14. ASSUME NEW t \in Members(list), Age(now, timers[t]) < timers[t].interval
       PROVE  left(f) <= left(t)
  <2>1. 0 < left(t) /\ left(t) \in -ticks..Width /\ 2 * (left(t) + MaxTicks) < Width
    BY <1>2, <1>14
  <2>2. m <= left(t)
    BY <1>2, <1>9, <2>1
  <2>3. m = IF 0 <= left(f) THEN left(f) ELSE left(f) + Width
    BY <1>2, <1>8
  <2> HIDE DEF left
  <2> QED
    BY <1>1, <1>12, <2>1, <2>2, <2>3
<1>15. Wake(now, ticks, list, timers, e)
  BY <1>12, <1>13, <1>14 DEF Wake
<1> QED
  BY <1>11, <1>15 DEF e


-----------------------------------------------------------------------------
(***************************************************************************)
(* The steps.                                                              *)
(***************************************************************************)
LEMMA TypesAre ==
  ASSUME TimerInv
  PROVE  /\ now \in Clock /\ ticks \in 0..MaxTicks /\ tm \in [Timer -> Timers]
         /\ timerlist \in Seq(Timer) /\ nextexp \in Clock /\ polled \in BOOLEAN
         /\ queue \in Seq(Timer \cup {"other"}) /\ Len(queue) <= QLen
         /\ clist \subseteq CTimer /\ app \in BOOLEAN
         /\ Distinct(timerlist) /\ Listed \subseteq Timer
<1>1. TypeOK /\ IsInjective(timerlist)
  BY DEF TimerInv, ListSound
<1>2. timerlist \in Seq(Timer)
  BY <1>1 DEF TypeOK
<1> QED
  BY <1>1, <1>2, InjectiveIs DEF TypeOK, Clock, Timers, Listed, Members

LEMMA TypesFollow ==
  ASSUME now' \in Clock, ticks' \in 0..MaxTicks, tm' \in [Timer -> Timers],
         timerlist' \in Seq(Timer), nextexp' \in Clock, polled' \in BOOLEAN,
         queue' \in Seq(Timer \cup {"other"}), Len(queue') <= QLen,
         clist' \subseteq CTimer, app' \in BOOLEAN, Distinct(timerlist'),
         \A t \in Listed' : tm'[t].p = Owner(t) /\ (t \in CTimer \/ app')
  PROVE  ListSound'
<1>1. TypeOK'
  BY DEF TypeOK, Clock, Timers
<1>2. IsInjective(timerlist')
  BY InjectiveIs
<1> QED
  BY <1>1, <1>2 DEF ListSound, MayUse

LEMMA WakeLess ==
  ASSUME NEW n, NEW k, NEW list, NEW timers, NEW e, Wake(n, k, list, timers, e),
         NEW list2, Members(list2) \subseteq Members(list), NEW timers2,
         \A t \in Members(list2) : /\ timers2[t].start = timers[t].start
                                   /\ timers2[t].interval = timers[t].interval
  PROVE  Wake(n, k, list2, timers2, e)
BY DEF Wake, Age

(* Taking timers from the list. *)
LEMMA Unlist ==
  ASSUME TimerInv, NEW S, timerlist' = Keep(timerlist, S)
  PROVE  /\ timerlist' \in Seq(Timer) /\ Distinct(timerlist')
         /\ Listed' = Listed \cap S
         /\ timerlist' # <<>> => timerlist # <<>>
<1>1. timerlist \in Seq(Timer) /\ Distinct(timerlist)
  BY TypesAre
<1>2. /\ timerlist' \in Seq(Timer) /\ Distinct(timerlist')
      /\ Members(timerlist') = Members(timerlist) \cap S
  BY <1>1, KeepIs
<1>3. ASSUME timerlist' # <<>> PROVE timerlist # <<>>
  <2>1. Members(timerlist') # {}
    BY <1>2, <1>3 DEF Members
  <2>2. Members(timerlist) # {}
    BY <1>2, <2>1
  <2> QED
    BY <2>2 DEF Members
<1> QED
  BY <1>2, <1>3 DEF Listed

(* The clock interrupt: a timer that becomes due now has at most one tick  *)
(* left, so that next_expiration has come.                                 *)
LEMMA TickStep ==
  ASSUME TimerInv, Tick
  PROVE  TimerInv'
<1>1. /\ now \in Clock /\ ticks \in 0..MaxTicks /\ tm \in [Timer -> Timers]
      /\ timerlist \in Seq(Timer) /\ nextexp \in Clock /\ polled \in BOOLEAN
      /\ Listed \subseteq Timer
  BY TypesAre
<1>2. /\ ticks < MaxTicks /\ ticks' = ticks + 1 /\ now' = (now + 1) % Width
      /\ polled' = (polled \/ (timerlist # <<>> /\ ~Before(now', nextexp)))
      /\ tm' = tm /\ timerlist' = timerlist /\ nextexp' = nextexp /\ queue' = queue
      /\ clist' = clist /\ app' = app
  BY DEF Tick
<1>3. Width \in Nat \ {0, 1} /\ MaxTicks \in Nat
  BY TimersAssumption
<1>4. /\ now' = IF now + 1 = Width THEN 0 ELSE now + 1
      /\ now' \in Clock
  <2>1. now + 1 \in -Width..2 * Width - 1
    BY <1>1, <1>3 DEF Clock
  <2>2. (now + 1) % Width = IF now + 1 < 0 THEN now + 1 + Width
                            ELSE IF now + 1 < Width THEN now + 1 ELSE now + 1 - Width
    <3>1. PICK x : x = now + 1
      OBVIOUS
    <3>2. x % Width = IF x < 0 THEN x + Width ELSE IF x < Width THEN x ELSE x - Width
      BY <2>1, <3>1, Wrap
    <3> QED
      BY <1>1, <1>3, <3>1, <3>2 DEF Clock
  <2> QED
    BY <1>1, <1>2, <1>3, <2>2 DEF Clock
<1>5. ticks' \in 0..MaxTicks
  BY <1>1, <1>2, <1>3
<1>6. ASSUME NEW t \in Timer, Young(now, ticks, tm[t])
      PROVE  Age(now', tm[t]) = Age(now, tm[t]) + 1 /\ Young(now', ticks', tm[t])
  <2>1. PICK r : r = tm[t]
    OBVIOUS
  <2>2. r \in Timers
    BY <1>1, <2>1
  <2>3. /\ Age(now, r) = IF now < r.start THEN now - r.start + Width ELSE now - r.start
        /\ Age(now, r) <= ticks /\ r.interval \in Interval
    BY <1>1, <1>6, <2>1, <2>2, AgeIs DEF Young
  <2>4. PICK n : n = now'
    OBVIOUS
  <2>5. Age(n, r) = IF n < r.start THEN n - r.start + Width ELSE n - r.start
    BY <1>4, <2>2, <2>4, AgeIs
  <2>6. r.interval \in Nat /\ 2 * (r.interval + MaxTicks) < Width
    BY <2>3, Bounds
  <2>7. r.start \in 0..Width - 1 /\ now \in 0..Width - 1
    BY <1>1, <2>2 DEF Clock, Timers
  <2>8. n = IF now + 1 = Width THEN 0 ELSE now + 1
    BY <1>4, <2>4
  <2>9. Age(n, r) = Age(now, r) + 1
    <3>1. PICK a, s : a = Age(now, r) /\ s = r.start
      OBVIOUS
    <3>2. /\ a = IF now < s THEN now - s + Width ELSE now - s
          /\ a <= ticks /\ s \in 0..Width - 1 /\ 2 * (a + 1) < Width
          /\ Age(n, r) = IF n < s THEN n - s + Width ELSE n - s
      <4>1. a <= ticks /\ 2 * MaxTicks < Width /\ ticks < MaxTicks
        BY <1>2, <1>3, <2>3, <2>6, <3>1
      <4> QED
        BY <1>1, <1>3, <2>3, <2>5, <2>7, <3>1, <4>1
    <3>3. PICK b : b = Age(n, r)
      OBVIOUS
    <3>4. b = IF n < s THEN n - s + Width ELSE n - s
      BY <3>2, <3>3
    <3>5. b = a + 1
      BY <1>3, <2>7, <2>8, <3>2, <3>4
    <3> QED
      BY <3>1, <3>3, <3>5
  <2>10. Age(n, r) <= ticks + 1
    <3>1. Age(now, r) \in Int /\ ticks \in Int
      BY <1>1, <1>3, <2>2, AgeIs DEF Clock
    <3> QED
      BY <2>3, <2>9, <3>1
  <2> QED
    BY <1>2, <2>1, <2>3, <2>4, <2>9, <2>10 DEF Young
<1>7. \A t \in Timer : t \in Listed \/ tm[t].interval # 0 => Young(now, ticks, tm[t])
  BY DEF TimerInv, Ages
<1>8. Ages'
  BY <1>2, <1>6, <1>7 DEF Ages, Listed
<1>9. ListSound'
  <2>1. \A t \in Listed : tm[t].p = Owner(t) /\ (t \in CTimer \/ app)
    BY DEF TimerInv, ListSound, MayUse
  <2>2. \A t \in Listed' : tm'[t].p = Owner(t) /\ (t \in CTimer \/ app')
    BY <1>2, <2>1 DEF Listed
  <2>3. polled' \in BOOLEAN
    BY <1>1, <1>2
  <2> QED
    BY <1>1, <1>2, <1>4, <1>5, <2>2, <2>3, TypesAre, TypesFollow
<1>10. ASSUME timerlist # <<>>
       PROVE  /\ Wake(now', ticks', timerlist', tm', nextexp')
              /\ \A t \in Listed :
                   Age(now, tm[t]) < tm[t].interval /\ tm[t].interval <= Age(now', tm[t]) => polled'
  <2>1. PICK r \in -ticks..Width :
          /\ nextexp \in {now + r, now + r - Width, now + r + Width}
          /\ \A t \in Listed : Age(now, tm[t]) < tm[t].interval => r <= tm[t].interval - Age(now, tm[t])
    BY <1>10 DEF TimerInv, Wake, Listed
  <2>2. 2 * MaxTicks < Width
    <3>1. PICK t \in Timer : t \in Listed
      BY <1>1, <1>10 DEF Listed, Members
    <3>2. Young(now, ticks, tm[t])
      BY <1>7, <3>1
    <3> QED
      BY <3>2, Bounds DEF Young
  <2>3. r - 1 \in -ticks'..Width
    BY <1>1, <1>2, <1>3
  <2>4. nextexp' \in {now' + (r - 1), now' + (r - 1) - Width, now' + (r - 1) + Width}
    <3>1. nextexp \in 0..Width - 1 /\ now \in 0..Width - 1
      BY <1>1 DEF Clock
    <3> QED
      BY <1>1, <1>2, <1>3, <1>4, <2>1, <2>2, <3>1, SMTT(60)
  <2>5. ASSUME NEW t \in Listed
        PROVE  /\ Age(now', tm[t]) = Age(now, tm[t]) + 1
               /\ Age(now, tm[t]) \in Nat /\ tm[t].interval \in Nat
    <3>1. t \in Timer /\ Young(now, ticks, tm[t]) /\ tm[t] \in Timers
      BY <1>1, <1>7
    <3> QED
      BY <1>1, <1>3, <1>6, <3>1, AgeIs, Bounds DEF Young, Clock
  <2>6. \A t \in Listed : Age(now', tm[t]) < tm[t].interval => r - 1 <= tm[t].interval - Age(now', tm[t])
    BY <1>1, <2>1, <2>5
  <2>7. Wake(now', ticks', timerlist', tm', nextexp')
    BY <1>2, <2>3, <2>4, <2>6 DEF Wake, Listed
  <2>8. ASSUME NEW t \in Listed, Age(now, tm[t]) < tm[t].interval, tm[t].interval <= Age(now', tm[t])
        PROVE  polled'
    <3>1. r <= 1
      BY <2>1, <2>5, <2>8
    <3>2. ~Before(now', nextexp)
      <4>1. now' - nextexp \in {1 - r, 1 - r - Width, 1 - r + Width}
        BY <1>1, <1>2, <1>3, <1>4, <2>1, <2>4 DEF Clock
      <4>2. PICK x : x = now' - nextexp
        OBVIOUS
      <4>3. x \in -Width..2 * Width - 1 /\ x \in {1 - r, 1 - r - Width, 1 - r + Width}
        BY <1>1, <1>3, <1>4, <4>1, <4>2 DEF Clock
      <4>4. x % Width = IF x < 0 THEN x + Width ELSE IF x < Width THEN x ELSE x - Width
        BY <4>3, Wrap
      <4>5. x % Width = 1 - r
        BY <1>1, <1>2, <1>3, <1>4, <2>1, <2>2, <3>1, <4>2, <4>3, <4>4 DEF Clock
      <4>6. 1 - r <= MaxTicks
        BY <1>1, <1>2, <1>3, <2>1
      <4> QED
        BY <1>3, <2>1, <2>2, <4>2, <4>5, <4>6 DEF Before
    <3> QED
      BY <1>2, <1>10, <3>2
  <2> QED
    BY <2>7, <2>8
<1>11. ASSUME NEW t \in Listed', tm'[t].interval <= Age(now', tm'[t])
       PROVE  polled'
  <2>1. t \in Listed /\ tm' = tm /\ timerlist # <<>>
    BY <1>2, <1>11 DEF Listed, Members
  <2>2. CASE tm[t].interval <= Age(now, tm[t])
    BY <1>2, <2>1, <2>2 DEF TimerInv
  <2>3. CASE ~(tm[t].interval <= Age(now, tm[t]))
    <3>1. tm[t].interval \in Nat /\ Age(now, tm[t]) \in Nat
      <4>1. t \in Timer /\ Young(now, ticks, tm[t]) /\ tm[t] \in Timers
        BY <1>1, <1>7, <2>1
      <4> QED
        BY <1>1, <1>3, <4>1, AgeIs, Bounds DEF Young, Clock
    <3>2. Age(now, tm[t]) < tm[t].interval
      BY <2>3, <3>1
    <3> QED
      BY <1>10, <1>11, <2>1, <3>2
  <2> QED
    BY <2>2, <2>3
<1>12. timerlist' # <<>> => Wake(now', ticks', timerlist', tm', nextexp')
  BY <1>2, <1>10
<1> QED
  BY <1>8, <1>9, <1>11, <1>12 DEF TimerInv


(* add_timer(): the etimer process is polled, and the expiry computed. *)
LEMMA AddStep ==
  ASSUME TimerInv, NEW t \in Timer, MayUse(t), NEW start \in Clock, NEW i \in Interval,
         (now - start) % Width <= ticks, AddTimer(t, start, i), Started(t), UNCHANGED rest
  PROVE  TimerInv'
<1>1. /\ now \in Clock /\ ticks \in 0..MaxTicks /\ tm \in [Timer -> Timers]
      /\ timerlist \in Seq(Timer) /\ queue \in Seq(Timer \cup {"other"}) /\ Len(queue) <= QLen
      /\ clist \subseteq CTimer /\ app \in BOOLEAN /\ Distinct(timerlist) /\ Listed \subseteq Timer
  BY TypesAre
<1>2. now' = now /\ ticks' = ticks /\ queue' = queue /\ app' = app
  BY DEF rest
<1> DEFINE new == [start |-> start, interval |-> i, p |-> Owner(t)]
<1>3. tm' = [tm EXCEPT ![t] = new]
  BY DEF AddTimer
<1>4. new \in Timers /\ new.p # "none"
  BY DEF Timers, Owner
<1> HIDE DEF new
<1>5. /\ tm' \in [Timer -> Timers] /\ tm'[t] = new
      /\ \A u \in Timer : u # t => tm'[u] = tm[u]
  BY <1>1, <1>3, <1>4
<1>6. \A u \in Listed : tm[u].p = Owner(u) /\ (u \in CTimer \/ app)
  BY DEF TimerInv, ListSound, MayUse
<1>7. /\ timerlist' \in Seq(Timer) /\ timerlist' # <<>> /\ Distinct(timerlist')
      /\ Members(timerlist') = Listed \cup {t}
  <2>1. CASE tm[t].p # "none" /\ t \in Listed
    <3>1. timerlist' = timerlist
      BY <2>1 DEF AddTimer
    <3>2. timerlist # <<>>
      BY <2>1 DEF Listed, Members
    <3> QED
      BY <1>1, <2>1, <3>1, <3>2 DEF Listed
  <2>2. CASE ~(tm[t].p # "none" /\ t \in Listed)
    <3>1. t \notin Listed
      BY <1>6, <2>2 DEF Owner
    <3>2. timerlist' = <<t>> \o timerlist
      BY <2>2 DEF AddTimer
    <3> QED
      BY <1>1, <3>1, <3>2, PushIs DEF Listed
  <2> QED
    BY <2>1, <2>2
<1>8. Listed' = Listed \cup {t}
  BY <1>7 DEF Listed
<1>9. \A u \in Timer : u \in Listed \/ tm[u].interval # 0 => Young(now, ticks, tm[u])
  BY DEF TimerInv, Ages
<1>10. Young(now, ticks, tm'[t])
  BY <1>5 DEF Young, Age, new
<1>11. Ages'
  BY <1>2, <1>5, <1>8, <1>9, <1>10 DEF Ages
<1>12. polled' = TRUE /\ nextexp' = NextExpiration(timerlist', tm')
  BY DEF AddTimer
<1>13. nextexp' \in Clock /\ Wake(now, ticks, timerlist', tm', nextexp')
  <2>1. \A u \in Members(timerlist') : Young(now, ticks, tm'[u])
    BY <1>1, <1>5, <1>7, <1>9, <1>10
  <2>2. PICK list, timers : list = timerlist' /\ timers = tm'
    OBVIOUS
  <2>3. /\ list \in Seq(Timer) /\ list # <<>> /\ timers \in [Timer -> Timers]
        /\ \A u \in Members(list) : Young(now, ticks, timers[u])
    BY <1>5, <1>7, <2>1, <2>2
  <2>4. /\ NextExpiration(list, timers) \in Clock
        /\ Wake(now, ticks, list, timers, NextExpiration(list, timers))
    BY <1>1, <2>3, NextIs
  <2> QED
    BY <1>12, <2>2, <2>4
<1>14. ListSound'
  <2>1. clist' \subseteq CTimer
    BY <1>1 DEF Started
  <2>2. \A u \in Listed' : tm'[u].p = Owner(u) /\ (u \in CTimer \/ app')
    BY <1>1, <1>2, <1>5, <1>6, <1>8 DEF MayUse, new
  <2>3. polled' \in BOOLEAN
    BY <1>12
  <2> QED
    BY <1>1, <1>2, <1>5, <1>7, <1>13, <2>1, <2>2, <2>3, TypesFollow
<1> QED
  BY <1>2, <1>11, <1>12, <1>13, <1>14 DEF TimerInv

LEMMA ResetIs ==
  ASSUME TimerInv, NEW t \in Timer, tm[t].interval # 0
  PROVE  /\ tm[t].interval \in Interval /\ ResetStart(t) \in Clock
         /\ (now - ResetStart(t)) % Width <= ticks
<1>1. now \in Clock /\ ticks \in 0..MaxTicks /\ tm[t] \in Timers
  BY TypesAre
<1>2. Young(now, ticks, tm[t])
  BY DEF TimerInv, Ages
<1>3. PICK r : r = tm[t]
  OBVIOUS
<1>4. Expired(t) <=> r.interval <= Age(now, r)
  BY <1>1, <1>2, <1>3, ExpiredIs
<1>5. /\ Age(now, r) = IF now < r.start THEN now - r.start + Width ELSE now - r.start
      /\ Age(now, r) <= ticks /\ r.interval \in Interval
  BY <1>1, <1>2, <1>3, AgeIs DEF Young
<1>6. /\ r.interval \in Nat /\ MaxTicks \in Nat /\ Width \in Nat \ {0, 1}
      /\ 2 * (r.interval + MaxTicks) < Width
  BY <1>5, Bounds
<1>7. r.start \in 0..Width - 1 /\ now \in 0..Width - 1
  BY <1>1, <1>3 DEF Clock, Timers
<1>8. CASE ~Expired(t)
  <2>1. ResetStart(t) = r.start
    BY <1>3, <1>8 DEF ResetStart
  <2> QED
    BY <1>3, <1>5, <1>7, <2>1 DEF Clock, Age
<1>9. CASE Expired(t)
  <2>1. PICK x : x = r.start + r.interval
    OBVIOUS
  <2>2. x \in -Width..2 * Width - 1 /\ x \in 0..2 * Width - 1
    BY <1>6, <1>7, <2>1
  <2>3. x % Width = IF x < Width THEN x ELSE x - Width
    BY <1>6, <2>2, Wrap, SMTT(60)
  <2>4. ResetStart(t) = x % Width
    BY <1>3, <1>9, <2>1 DEF ResetStart
  <2>5. PICK y : y = now - ResetStart(t)
    OBVIOUS
  <2>6. ResetStart(t) \in 0..Width - 1
    BY <1>6, <2>2, <2>3, <2>4
  <2>7. y \in -Width..2 * Width - 1 /\ y < Width
    BY <1>6, <1>7, <2>5, <2>6
  <2>8. y % Width = IF y < 0 THEN y + Width ELSE y
    BY <1>6, <2>7, Wrap
  <2>9. PICK a : a = Age(now, r)
    OBVIOUS
  <2>10. /\ a = IF now < r.start THEN now - r.start + Width ELSE now - r.start
         /\ a <= ticks /\ r.interval <= a
    BY <1>4, <1>5, <1>9, <2>9
  <2>11. y % Width = a - r.interval
    BY <1>6, <1>7, <2>1, <2>2, <2>3, <2>4, <2>5, <2>8, <2>10, SMTT(60)
  <2>12. y % Width <= ticks
    BY <1>1, <1>6, <1>7, <2>10, <2>11
  <2> QED
    BY <1>3, <1>5, <2>5, <2>6, <2>12 DEF Clock
<1> QED
  BY <1>8, <1>9

(* Stop and the exit of the process take timers from the list. *)
LEMMA StopStep ==
  ASSUME TimerInv, NEW t \in Timer, Stop(t)
  PROVE  TimerInv'
<1>1. /\ now \in Clock /\ ticks \in 0..MaxTicks /\ tm \in [Timer -> Timers]
      /\ timerlist \in Seq(Timer) /\ queue \in Seq(Timer \cup {"other"}) /\ Len(queue) <= QLen
      /\ clist \subseteq CTimer /\ app \in BOOLEAN /\ Distinct(timerlist) /\ Listed \subseteq Timer
      /\ nextexp \in Clock /\ polled \in BOOLEAN
  BY TypesAre
<1>2. /\ now' = now /\ ticks' = ticks /\ queue' = queue /\ app' = app /\ polled' = polled
      /\ clist' = clist \ {t} /\ timerlist' = Keep(timerlist, Timer \ {t})
  BY DEF Stop
<1>3. /\ timerlist' \in Seq(Timer) /\ Distinct(timerlist') /\ Listed' = Listed \ {t}
      /\ timerlist' # <<>> => timerlist # <<>>
  <2>1. PICK S : S = Timer \ {t}
    OBVIOUS
  <2>2. timerlist' = Keep(timerlist, S)
    BY <1>2, <2>1
  <2>3. /\ timerlist' \in Seq(Timer) /\ Distinct(timerlist') /\ Listed' = Listed \cap S
        /\ timerlist' # <<>> => timerlist # <<>>
    BY <2>2, Unlist
  <2> QED
    BY <1>1, <2>1, <2>3
<1>4. tm' = [tm EXCEPT ![t] = [start |-> tm[t].start, interval |-> tm[t].interval, p |-> "none"]]
  <2>1. tm[t] = [start |-> tm[t].start, interval |-> tm[t].interval, p |-> tm[t].p]
    BY <1>1 DEF Timers
  <2>2. tm' = [tm EXCEPT ![t] = [tm[t] EXCEPT !.p = "none"]]
    BY DEF Stop
  <2>3. [tm[t] EXCEPT !.p = "none"]
          = [start |-> tm[t].start, interval |-> tm[t].interval, p |-> "none"]
    BY <2>1
  <2> QED
    BY <2>2, <2>3
<1>5. /\ tm' \in [Timer -> Timers]
      /\ \A u \in Timer : u # t => tm'[u] = tm[u]
      /\ \A u \in Timer : tm'[u].start = tm[u].start /\ tm'[u].interval = tm[u].interval
  <2>1. [start |-> tm[t].start, interval |-> tm[t].interval, p |-> "none"] \in Timers
    BY <1>1 DEF Timers
  <2> QED
    BY <1>1, <1>4, <2>1
<1>6. \A u \in Timer : u \in Listed \/ tm[u].interval # 0 => Young(now, ticks, tm[u])
  BY DEF TimerInv, Ages
<1>7. Ages'
  BY <1>2, <1>3, <1>5, <1>6 DEF Ages, Young, Age
<1>8. /\ nextexp' \in Clock
      /\ timerlist' # <<>> => Wake(now, ticks, timerlist', tm', nextexp')
  <2>1. PICK list : list = timerlist'
    OBVIOUS
  <2>2. list \in Seq(Timer) /\ Members(list) \subseteq Listed \ {t}
    BY <1>3, <2>1 DEF Listed
  <2>3. \A u \in Members(list) :
          tm'[u].start = tm[u].start /\ tm'[u].interval = tm[u].interval
    BY <1>1, <1>5, <2>2
  <2>4. CASE t \in Listed
    <3>1. nextexp' = NextExpiration(list, tm)
      BY <2>1, <2>4 DEF Stop
    <3>2. CASE list = <<>>
      BY <1>1, <2>1, <3>1, <3>2, TimersAssumption DEF NextExpiration, Clock
    <3>3. CASE list # <<>>
      <4>1. \A u \in Members(list) : Young(now, ticks, tm[u])
        BY <1>1, <1>6, <2>2
      <4>2. /\ NextExpiration(list, tm) \in Clock
            /\ Wake(now, ticks, list, tm, NextExpiration(list, tm))
        BY <1>1, <2>2, <3>3, <4>1, NextIs
      <4>3. Wake(now, ticks, list, tm', nextexp')
        BY <2>3, <3>1, <4>2, WakeLess
      <4> QED
        BY <2>1, <3>1, <4>2, <4>3
    <3> QED
      BY <3>2, <3>3
  <2>5. CASE t \notin Listed
    <3>1. nextexp' = nextexp
      BY <2>5 DEF Stop
    <3>2. ASSUME list # <<>> PROVE Wake(now, ticks, list, tm', nextexp)
      <4>1. Wake(now, ticks, timerlist, tm, nextexp) /\ Members(list) \subseteq Members(timerlist)
        BY <1>3, <2>1, <2>2, <3>2 DEF TimerInv, Listed
      <4> QED
        BY <2>3, <4>1, WakeLess
    <3> QED
      BY <1>1, <2>1, <3>1, <3>2
  <2> QED
    BY <2>4, <2>5
<1>9. ListSound'
  <2>1. \A u \in Listed : tm[u].p = Owner(u) /\ (u \in CTimer \/ app)
    BY DEF TimerInv, ListSound, MayUse
  <2>2. \A u \in Listed' : tm'[u].p = Owner(u) /\ (u \in CTimer \/ app')
    BY <1>1, <1>2, <1>3, <1>5, <2>1
  <2> QED
    BY <1>1, <1>2, <1>3, <1>5, <1>8, <2>2, TypesFollow
<1>10. \A u \in Listed' : tm'[u].interval <= Age(now', tm'[u]) => polled'
  BY <1>1, <1>2, <1>3, <1>5 DEF TimerInv, Age
<1> QED
  BY <1>2, <1>7, <1>8, <1>9, <1>10 DEF TimerInv


LEMMA ExitStep ==
  ASSUME TimerInv, AppExit
  PROVE  TimerInv'
<1>1. /\ now \in Clock /\ ticks \in 0..MaxTicks /\ tm \in [Timer -> Timers]
      /\ timerlist \in Seq(Timer) /\ queue \in Seq(Timer \cup {"other"}) /\ Len(queue) <= QLen
      /\ clist \subseteq CTimer /\ Distinct(timerlist) /\ Listed \subseteq Timer
      /\ nextexp \in Clock /\ polled \in BOOLEAN
  BY TypesAre
<1>2. PICK S : S = {t \in Timer : tm[t].p # "app"}
  OBVIOUS
<1>3. /\ now' = now /\ ticks' = ticks /\ queue' = queue /\ app' = FALSE /\ polled' = polled
      /\ clist' = clist /\ tm' = tm /\ nextexp' = nextexp /\ timerlist' = Keep(timerlist, S)
  BY <1>2 DEF AppExit
<1>4. /\ timerlist' \in Seq(Timer) /\ Distinct(timerlist') /\ Listed' = Listed \cap S
      /\ timerlist' # <<>> => timerlist # <<>>
  BY <1>3, Unlist
<1>5. ListSound'
  <2>1. \A u \in Listed : tm[u].p = Owner(u)
    BY DEF TimerInv, ListSound
  <2>2. \A u \in Listed' : tm'[u].p = Owner(u) /\ (u \in CTimer \/ app')
    BY <1>2, <1>3, <1>4, <2>1 DEF Owner
  <2>3. /\ now' \in Clock /\ ticks' \in 0..MaxTicks /\ tm' \in [Timer -> Timers]
        /\ nextexp' \in Clock /\ polled' \in BOOLEAN /\ app' \in BOOLEAN
        /\ queue' \in Seq(Timer \cup {"other"}) /\ Len(queue') <= QLen /\ clist' \subseteq CTimer
    BY <1>1, <1>3
  <2> QED
    BY <1>4, <2>2, <2>3, TypesFollow
<1>6. ASSUME timerlist' # <<>> PROVE Wake(now, ticks, timerlist', tm, nextexp)
  <2>1. PICK list : list = timerlist'
    OBVIOUS
  <2>2. Wake(now, ticks, timerlist, tm, nextexp) /\ Members(list) \subseteq Members(timerlist)
    BY <1>4, <1>6, <2>1 DEF TimerInv, Listed
  <2> QED
    BY <2>1, <2>2, WakeLess
<1>7. Ages'
  BY <1>3, <1>4 DEF TimerInv, Ages, Young, Age
<1>8. \A u \in Listed' : tm'[u].interval <= Age(now', tm'[u]) => polled'
  BY <1>3, <1>4 DEF TimerInv, Age
<1> QED
  BY <1>3, <1>5, <1>6, <1>7, <1>8 DEF TimerInv

(* The steps that leave the timers alone. *)
LEMMA OtherStep ==
  ASSUME TimerInv, Deliver \/ PostOther \/ AppStart \/ UNCHANGED vars
  PROVE  TimerInv'
<1>1. /\ queue \in Seq(Timer \cup {"other"}) /\ Len(queue) <= QLen
      /\ clist \subseteq CTimer /\ app \in BOOLEAN
  BY TypesAre
<1>2. /\ now' = now /\ ticks' = ticks /\ tm' = tm /\ timerlist' = timerlist
      /\ nextexp' = nextexp /\ polled' = polled
  BY DEF Deliver, PostOther, AppStart, vars
<1>3. queue' \in Seq(Timer \cup {"other"}) /\ Len(queue') <= QLen
  <2>1. CASE Deliver
    <3>1. queue # <<>> /\ queue' = Tail(queue)
      BY <2>1 DEF Deliver
    <3>2. Tail(queue) \in Seq(Timer \cup {"other"}) /\ Len(Tail(queue)) = Len(queue) - 1
          /\ Len(queue) \in Nat
      BY <1>1, <3>1
    <3> QED
      BY <1>1, <3>1, <3>2, TimersAssumption
  <2>2. CASE PostOther
    <3>1. Len(queue) < QLen /\ queue' = Append(queue, "other")
      BY <2>2 DEF PostOther
    <3>2. "other" \in Timer \cup {"other"}
      OBVIOUS
    <3>3. /\ Append(queue, "other") \in Seq(Timer \cup {"other"})
          /\ Len(Append(queue, "other")) = Len(queue) + 1 /\ Len(queue) \in Nat
      BY <1>1, <3>2
    <3> QED
      BY <3>1, <3>3, TimersAssumption
  <2>3. CASE AppStart \/ UNCHANGED vars
    BY <1>1, <2>3 DEF AppStart, vars
  <2> QED
    BY <2>1, <2>2, <2>3
<1>4. clist' \subseteq CTimer /\ app' \in BOOLEAN /\ (app => app')
  BY <1>1 DEF Deliver, PostOther, AppStart, vars
<1>5. Listed' = Listed /\ Listed \subseteq Timer
  BY <1>2, TypesAre DEF Listed
<1>6. ListSound'
  <2>1. \A u \in Listed : tm[u].p = Owner(u) /\ (u \in CTimer \/ app)
    BY DEF TimerInv, ListSound, MayUse
  <2>2. \A u \in Listed' : tm'[u].p = Owner(u) /\ (u \in CTimer \/ app')
    BY <1>2, <1>4, <1>5, <2>1
  <2>3. /\ now' \in Clock /\ ticks' \in 0..MaxTicks /\ tm' \in [Timer -> Timers]
        /\ timerlist' \in Seq(Timer) /\ nextexp' \in Clock /\ polled' \in BOOLEAN
        /\ Distinct(timerlist')
    BY <1>2, TypesAre
  <2> QED
    BY <1>3, <1>4, <2>2, <2>3, TypesFollow
<1>7. Ages'
  BY <1>2, <1>5 DEF TimerInv, Ages, Young, Age
<1>8. \A u \in Listed' : tm'[u].interval <= Age(now', tm'[u]) => polled'
  BY <1>2, <1>5 DEF TimerInv, Age
<1>9. timerlist' # <<>> => Wake(now', ticks', timerlist', tm', nextexp')
  BY <1>2 DEF TimerInv
<1> QED
  BY <1>6, <1>7, <1>8, <1>9 DEF TimerInv

(* The etimer process: either all timers that are due have been posted, or *)
(* it asks to be polled again.                                             *)
LEMMA PollStep ==
  ASSUME TimerInv, EtimerPoll
  PROVE  TimerInv'
<1>1. /\ now \in Clock /\ ticks \in 0..MaxTicks /\ tm \in [Timer -> Timers]
      /\ timerlist \in Seq(Timer) /\ queue \in Seq(Timer \cup {"other"}) /\ Len(queue) <= QLen
      /\ clist \subseteq CTimer /\ app \in BOOLEAN /\ Distinct(timerlist) /\ Listed \subseteq Timer
      /\ nextexp \in Clock /\ polled \in BOOLEAN
  BY TypesAre
<1> DEFINE due == {t \in Listed : Expired(t)}
           room == QLen - Len(queue)
<1>2. PICK waiting : waiting = Keep(timerlist, due)
  OBVIOUS
<1>3. waiting \in Seq(Timer) /\ Members(waiting) = due
  <2>1. waiting \in Seq(Timer) /\ Members(waiting) = Members(timerlist) \cap due
    BY <1>1, <1>2, KeepIs
  <2> QED
    BY <2>1 DEF Listed
<1>4. PICK k : k = Min({room, Len(waiting)})
  OBVIOUS
<1>5. PICK posted : posted = [i \in 1..k |-> waiting[i]]
  OBVIOUS
<1>6. /\ polled' = RetryNeeded(waiting, room)
      /\ queue' = queue \o posted
      /\ timerlist' = Keep(timerlist, Timer \ Members(posted))
      /\ tm' = [t \in Timer |-> IF t \in Members(posted) THEN [tm[t] EXCEPT !.p = "none"] ELSE tm[t]]
      /\ nextexp' = IF posted = <<>> THEN nextexp ELSE NextExpiration(timerlist', tm')
      /\ now' = now /\ ticks' = ticks /\ clist' = clist /\ app' = app
  BY <1>2, <1>4, <1>5 DEF EtimerPoll
<1>7. room \in Nat /\ Len(waiting) \in Nat /\ Len(queue) \in Nat /\ QLen \in Nat
  BY <1>1, <1>3, TimersAssumption
<1>8. k \in Nat /\ k <= room /\ k <= Len(waiting) /\ (k = room \/ k = Len(waiting))
  <2>1. PICK T : T = {room, Len(waiting)}
    OBVIOUS
  <2>2. T \subseteq Nat /\ T # {}
    BY <1>7, <2>1
  <2>3. Min(T) \in T /\ \A y \in T : Min(T) <= y
    BY <2>2, MinIs
  <2>4. k = Min(T)
    BY <1>4, <2>1
  <2> HIDE DEF room
  <2> QED
    BY <1>7, <2>1, <2>3, <2>4
<1> HIDE DEF room
<1>9. /\ posted \in Seq(Timer) /\ Len(posted) = k
      /\ \A i \in 1..k : posted[i] = waiting[i]
  <2>1. \A i \in 1..k : waiting[i] \in Timer
    BY <1>3, <1>7, <1>8
  <2> QED
    BY <1>5, <1>8, <2>1
<1>10. PICK P : P = Members(posted)
  OBVIOUS
<1>11. /\ P \subseteq due /\ P \subseteq Timer
       /\ Len(waiting) <= room => P = due
  <2>1. P = {waiting[i] : i \in 1..k}
    BY <1>9, <1>10 DEF Members
  <2>2. due = {waiting[i] : i \in 1..Len(waiting)}
    BY <1>3 DEF Members
  <2> HIDE DEF due
  <2>3. P \subseteq due
    BY <1>7, <1>8, <2>1, <2>2
  <2>4. Len(waiting) <= room => k = Len(waiting)
    BY <1>7, <1>8
  <2>5. due \subseteq Timer
    BY <1>1 DEF due
  <2> QED
    BY <2>1, <2>2, <2>3, <2>4, <2>5
<1>12. /\ tm' \in [Timer -> Timers]
       /\ \A u \in Timer : u \notin P => tm'[u] = tm[u]
       /\ \A u \in Timer : tm'[u].start = tm[u].start /\ tm'[u].interval = tm[u].interval
  <2>1. ASSUME NEW u \in Timer
        PROVE  [tm[u] EXCEPT !.p = "none"]
                 = [start |-> tm[u].start, interval |-> tm[u].interval, p |-> "none"]
    BY <1>1 DEF Timers
  <2>2. \A u \in Timer :
          tm'[u] = IF u \in P THEN [start |-> tm[u].start, interval |-> tm[u].interval, p |-> "none"]
                   ELSE tm[u]
    BY <1>6, <1>10, <2>1
  <2>3. \A u \in Timer : [start |-> tm[u].start, interval |-> tm[u].interval, p |-> "none"] \in Timers
    BY <1>1 DEF Timers
  <2>4. tm' = [u \in Timer |-> tm'[u]]
    BY <1>6
  <2>5. \A u \in Timer : tm'[u] \in Timers
    BY <1>1, <2>2, <2>3
  <2> QED
    BY <2>2, <2>4, <2>5
<1>13. /\ timerlist' \in Seq(Timer) /\ Distinct(timerlist') /\ Listed' = Listed \ P
       /\ timerlist' # <<>> => timerlist # <<>>
  <2>1. PICK S : S = Timer \ P
    OBVIOUS
  <2>2. timerlist' = Keep(timerlist, S)
    BY <1>6, <1>10, <2>1
  <2>3. /\ timerlist' \in Seq(Timer) /\ Distinct(timerlist') /\ Listed' = Listed \cap S
        /\ timerlist' # <<>> => timerlist # <<>>
    BY <2>2, Unlist
  <2> QED
    BY <1>1, <2>1, <2>3
<1>14. \A u \in Timer : u \in Listed \/ tm[u].interval # 0 => Young(now, ticks, tm[u])
  BY DEF TimerInv, Ages
<1>15. Ages'
  BY <1>6, <1>12, <1>13, <1>14 DEF Ages, Young, Age
<1>16. queue' \in Seq(Timer \cup {"other"}) /\ Len(queue') <= QLen
  <2>1. posted \in Seq(Timer \cup {"other"})
    BY <1>9
  <2>2. queue \o posted \in Seq(Timer \cup {"other"}) /\ Len(queue \o posted) = Len(queue) + k
    <3>1. PICK S : S = Timer \cup {"other"}
      OBVIOUS
    <3>2. queue \in Seq(S) /\ posted \in Seq(S)
      BY <1>1, <2>1, <3>1
    <3>3. queue \o posted \in Seq(S) /\ Len(queue \o posted) = Len(queue) + Len(posted)
      BY <3>2, ConcatIs
    <3> QED
      BY <1>9, <3>1, <3>3
  <2> QED
    BY <1>6, <1>7, <1>8, <2>2 DEF room
<1>17. /\ nextexp' \in Clock
       /\ timerlist' # <<>> => Wake(now, ticks, timerlist', tm', nextexp')
  <2>1. PICK list, timers : list = timerlist' /\ timers = tm'
    OBVIOUS
  <2>2. list \in Seq(Timer) /\ Members(list) = Listed \ P /\ timers \in [Timer -> Timers]
    BY <1>12, <1>13, <2>1 DEF Listed
  <2>3. \A u \in Members(list) :
          timers[u].start = tm[u].start /\ timers[u].interval = tm[u].interval
    BY <1>1, <1>12, <2>1, <2>2
  <2>4. CASE posted = <<>>
    <3>1. nextexp' = nextexp
      BY <1>6, <2>4
    <3>2. ASSUME list # <<>> PROVE Wake(now, ticks, list, timers, nextexp)
      <4>1. Wake(now, ticks, timerlist, tm, nextexp) /\ Members(list) \subseteq Members(timerlist)
        BY <1>13, <2>1, <2>2, <3>2 DEF TimerInv, Listed
      <4> QED
        BY <2>3, <4>1, WakeLess
    <3> QED
      BY <1>1, <2>1, <3>1, <3>2
  <2>5. CASE posted # <<>>
    <3>1. nextexp' = NextExpiration(list, timers)
      BY <1>6, <2>1, <2>5
    <3>2. CASE list = <<>>
      BY <1>1, <2>1, <3>1, <3>2, TimersAssumption DEF NextExpiration, Clock
    <3>3. CASE list # <<>>
      <4>1. \A u \in Members(list) : Young(now, ticks, timers[u])
        BY <1>1, <1>14, <2>2, <2>3 DEF Young, Age
      <4>2. /\ NextExpiration(list, timers) \in Clock
            /\ Wake(now, ticks, list, timers, NextExpiration(list, timers))
        BY <1>1, <2>2, <3>3, <4>1, NextIs
      <4> QED
        BY <2>1, <3>1, <4>2
    <3> QED
      BY <3>2, <3>3
  <2> QED
    BY <2>4, <2>5
<1>18. polled' = (Len(waiting) > room)
  BY <1>6 DEF RetryNeeded
<1>19. ListSound'
  <2>1. \A u \in Listed : tm[u].p = Owner(u) /\ (u \in CTimer \/ app)
    BY DEF TimerInv, ListSound, MayUse
  <2>2. \A u \in Listed' : tm'[u].p = Owner(u) /\ (u \in CTimer \/ app')
    BY <1>1, <1>6, <1>12, <1>13, <2>1
  <2>3. /\ now' \in Clock /\ ticks' \in 0..MaxTicks /\ polled' \in BOOLEAN /\ app' \in BOOLEAN
        /\ clist' \subseteq CTimer
    BY <1>1, <1>6, <1>18
  <2> QED
    BY <1>12, <1>13, <1>16, <1>17, <2>2, <2>3, TypesFollow
<1>20. ASSUME NEW u \in Listed', tm'[u].interval <= Age(now', tm'[u])
       PROVE  polled'
  <2>1. u \in Timer /\ u \in Listed /\ u \notin P
    BY <1>1, <1>13, <1>20
  <2>2. tm[u].interval <= Age(now, tm[u])
    BY <1>6, <1>12, <1>20, <2>1 DEF Age
  <2>3. Expired(u)
    BY <1>1, <1>14, <2>1, <2>2, ExpiredIs
  <2>4. P # due
    BY <2>1, <2>3
  <2>5. Len(waiting) > room
    BY <1>7, <1>11, <2>4 DEF room
  <2> QED
    BY <1>18, <2>5
<1> QED
  BY <1>6, <1>15, <1>17, <1>19, <1>20 DEF TimerInv


LEMMA InvInit == Init => TimerInv
<1> SUFFICES ASSUME Init PROVE TimerInv
  OBVIOUS
<1>1. /\ now \in Boot /\ ticks = 0 /\ timerlist = <<>> /\ nextexp = 0 /\ polled = FALSE
      /\ tm = [t \in Timer |-> [start |-> 0, interval |-> 0, p |-> "none"]]
      /\ queue = <<>> /\ clist = {} /\ app = TRUE
  BY DEF Init
<1>2. Listed = {}
  BY <1>1 DEF Listed, Members
<1>3. TypeOK
  <2>1. 0 \in 0..Width - 1 /\ now \in 0..Width - 1 /\ ticks \in 0..MaxTicks
    BY <1>1, TimersAssumption
  <2>2. [start |-> 0, interval |-> 0, p |-> "none"]
          \in [start : 0..Width - 1, interval : Interval \cup {0}, p : {"none", "ctimer", "app"}]
    BY <2>1
  <2>3. Len(queue) <= QLen
    BY <1>1, TimersAssumption
  <2>4. tm \in [Timer -> [start : 0..Width - 1, interval : Interval \cup {0},
                         p : {"none", "ctimer", "app"}]]
    <3>1. PICK z : z = [start |-> 0, interval |-> 0, p |-> "none"]
      OBVIOUS
    <3> QED
      BY <1>1, <2>2, <3>1
  <2>5. timerlist \in Seq(Timer) /\ queue \in Seq(Timer \cup {"other"})
    BY <1>1
  <2> QED
    BY <1>1, <2>1, <2>3, <2>4, <2>5 DEF TypeOK
<1>4. IsInjective(timerlist)
  <2>1. <<>> \in Seq(Timer) /\ Distinct(<<>>)
    BY DEF Distinct
  <2> QED
    BY <1>1, <2>1, InjectiveIs
<1> QED
  BY <1>1, <1>2, <1>3, <1>4 DEF TimerInv, ListSound, Ages

LEMMA InvStep == TimerInv /\ [Next]_vars => TimerInv'
<1> SUFFICES ASSUME TimerInv, [Next]_vars PROVE TimerInv'
  OBVIOUS
<1>1. CASE Tick
  BY <1>1, TickStep
<1>2. CASE EtimerPoll
  BY <1>2, PollStep
<1>3. CASE AppExit
  BY <1>3, ExitStep
<1>4. CASE Deliver \/ PostOther \/ AppStart \/ UNCHANGED vars
  BY <1>4, OtherStep
<1>5. ASSUME NEW t \in Timer, Operation(t) PROVE TimerInv'
  <2>1. now \in Clock /\ ticks \in 0..MaxTicks /\ (now - now) % Width <= ticks
    <3>1. now \in Clock /\ ticks \in 0..MaxTicks
      BY <1>5, TypesAre
    <3>2. now - now = 0 /\ 0 \in -Width..2 * Width - 1 /\ MaxTicks \in Nat /\ Width \in Nat \ {0, 1}
      BY <3>1, TimersAssumption DEF Clock
    <3>3. 0 % Width = 0
      BY <3>2, Wrap
    <3> QED
      BY <3>1, <3>2, <3>3
  <2>2. ASSUME NEW i \in Interval, Set(t, i) PROVE TimerInv'
    BY <2>1, <2>2, AddStep DEF Set
  <2>3. ASSUME NEW i \in Interval, ResetWithNewInterval(t, i) PROVE TimerInv'
    BY <2>3, AddStep, ResetIs DEF ResetWithNewInterval
  <2>4. CASE Reset(t)
    BY <2>4, AddStep, ResetIs DEF Reset
  <2>5. CASE Restart(t)
    BY <2>1, <2>5, AddStep, ResetIs DEF Restart
  <2>6. CASE Stop(t)
    BY <2>6, StopStep
  <2> QED
    BY <1>5, <2>2, <2>3, <2>4, <2>5, <2>6 DEF Operation
<1> QED
  BY <1>1, <1>2, <1>3, <1>4, <1>5 DEF Next

LEMMA InvHolds == Spec => []TimerInv
BY InvInit, InvStep, PTL DEF Spec

(* The list of timers never has a timer twice, none that etimer_expired()  *)
(* reports as expired, and none of a process that has exited.              *)
THEOREM ListStaysSound == Spec => []ListSound
<1>1. TimerInv => ListSound
  BY DEF TimerInv
<1> QED
  BY <1>1, InvHolds, PTL

(* Whatever timers are set, stopped and reset, around which value of the   *)
(* clock ever, and however often the event queue is full: as long as a     *)
(* timer of the list has expired, the etimer process is to be polled.      *)
THEOREM NoExpiryMissed == Spec => []ExpiryNoticed
<1>1. TimerInv => ExpiryNoticed
  <2> SUFFICES ASSUME TimerInv, NEW t \in Listed, Expired(t) PROVE polled
    BY DEF ExpiryNoticed
  <2>1. t \in Timer /\ tm[t] \in Timers /\ now \in Clock /\ ticks \in 0..MaxTicks
    BY TypesAre
  <2>2. Young(now, ticks, tm[t])
    BY <2>1 DEF TimerInv, Ages
  <2>3. tm[t].interval <= Age(now, tm[t])
    BY <2>1, <2>2, ExpiredIs
  <2> QED
    BY <2>3 DEF TimerInv
<1> QED
  BY <1>1, InvHolds, PTL

-----------------------------------------------------------------------------
(***************************************************************************)
(* The process scheduler.  The list is a set of processes in an order that *)
(* the pointers follow; of the functions in progress, each pair obeys what *)
(* the code relies on when the inner one changes the list.                 *)
(***************************************************************************)
(* The list as a set D of processes: the pointers lead from h upwards in   *)
(* the order rk through all of D to its last element e.                    *)
Linked(D, h, nx, rk, e) ==
  /\ h \in D /\ e \in D /\ nx[e] = Nil
  /\ \A r \in D : /\ nx[r] \in D \cup {Nil}
                  /\ nx[r] # Nil => rk[r] < rk[nx[r]]
                  /\ r # h => \E s \in D : nx[s] = r
                  /\ rk[h] <= rk[r]

Running(st) == {p \in Proc : st[p] # "none"}

IsList(D, h, nx) ==
  \/ D = {} /\ h = Nil
  \/ \E rk \in [Proc -> Int], e \in Proc : Linked(D, h, nx, rk, e)

-----------------------------------------------------------------------------
(* What a function in progress is about. *)
Frames == [k : {"call", "exitcall", "exit", "poll", "bcast"}, p : Proc \cup {Nil},
           at : {"thread", "start", "unlink", "tell", "told", "visit", "call", "next"},
           ev : {"none", "init", "event", "poll", "exit", "exited"}, q : Proc \cup {Nil}]

FrameOK(f) ==
  /\ f \in Frames
  /\ f.k \in {"call", "exitcall"} => f.at = "thread" /\ f.p # Nil
  /\ f.k = "exit" => f.at \in {"start", "unlink", "tell", "told"} /\ f.p # Nil
  /\ f.k = "exit" /\ f.at = "told" => f.q # Nil
  /\ f.k = "poll" => f.at \in {"visit", "next"} /\ (f.at = "next" => f.p # Nil)
  /\ f.k = "bcast" => f.at \in {"visit", "call", "next"} /\ (f.at # "visit" => f.p # Nil)

Ending(f) == f.k = "exit" /\ f.at \in {"start", "unlink"}

(* a was called, perhaps not directly, from b.  No process that is called  *)
(* is called again or made to exit, and nobody exits while told of the end *)
(* of another.                                                             *)
Above(a, b) ==
  /\ a.k # "bcast" /\ (a.k = "poll" => b.k = "bcast")
  /\ b.k = "exit" => b.at \in {"unlink", "told"}
  /\ b.k = "exit" /\ b.at = "told" => ~Ending(a)
  /\ b.k = "poll" => b.at = "next"
  /\ b.k = "call" /\ a.p = b.p => a.k # "call" /\ ~Ending(a)

(* What the walk of do_poll() finds next is on the list, also when the     *)
(* process that it polled has ended, and whatever happened in between.     *)
PollOK(f, st, nx) ==
  f.k = "poll" =>
    /\ f.at = "visit" => f.p = Nil \/ st[f.p] # "none"
    /\ f.at = "next" => st[f.p] # "none" \/ nx[f.p] = Nil \/ st[nx[f.p]] # "none"

(* What the process that do_poll() has called is doing: it runs, or has     *)
(* come to its end.                                                        *)
Busy(a) == a.k = "call" \/ (a.k = "exit" /\ a.at \in {"tell", "told"})
Leaving(a, st) == Ending(a) /\ a.q = a.p /\ st[a.p] # "none"

StackInv(s, st, nx) ==
  /\ s \in Seq(Frames)
  /\ \A i \in 1..Len(s) : /\ FrameOK(s[i]) /\ PollOK(s[i], st, nx)
                          /\ s[i].k = "call" => st[s[i].p] = "called"
  /\ \A i \in 1..Len(s) : \A j \in i + 1..Len(s) : Above(s[i], s[j])
  /\ \A i \in 2..Len(s) : s[i].k = "poll" =>
       s[i - 1].p = s[i].p /\ (Busy(s[i - 1]) \/ (i = 2 /\ Leaving(s[1], st)))

(* The function on top may make calls. *)
Steady(s) == Len(s) >= 2 /\ s[2].k = "poll" => ~Ending(s[1])

ProcInv ==
  /\ ProcTypeOK
  /\ IsList(Running(state), head, nxt)
  /\ StackInv(stack, state, nxt)
-----------------------------------------------------------------------------
LEMMA TailOf ==
  ASSUME NEW s \in Seq(Frames), s # <<>>
  PROVE  /\ Tail(s) \in Seq(Frames) /\ Len(Tail(s)) = Len(s) - 1 /\ Len(s) \in Nat
         /\ \A i \in 1..Len(s) - 1 : Tail(s)[i] = s[i + 1]
  OBVIOUS

LEMMA ConsOf ==
  ASSUME NEW s \in Seq(Frames), NEW a \in Frames, NEW n, n = <<a>> \o s
  PROVE  /\ n \in Seq(Frames) /\ Len(n) = Len(s) + 1 /\ n[1] = a /\ Len(s) \in Nat
         /\ \A i \in 2..Len(n) : n[i] = s[i - 1]
         /\ n # <<>> /\ Tail(n) = s
<1>1. n \in Seq(Frames) /\ Len(n) = Len(s) + 1 /\ n[1] = a /\ Len(s) \in Nat
  OBVIOUS
<1>2. \A i \in 2..Len(n) : n[i] = s[i - 1]
  OBVIOUS
<1>3. n # <<>> /\ Tail(n) = s
  OBVIOUS
<1> QED
  BY <1>1, <1>2, <1>3

LEMMA PopKeeps ==
  ASSUME NEW s, NEW st, NEW nx, StackInv(s, st, nx), s # <<>>
  PROVE  /\ StackInv(Tail(s), st, nx) /\ Steady(Tail(s))
         /\ \A j \in 1..Len(Tail(s)) : Above(s[1], Tail(s)[j])
<1> DEFINE n == Tail(s)
<1>1. /\ s \in Seq(Frames) /\ n \in Seq(Frames) /\ Len(n) = Len(s) - 1 /\ Len(s) \in Nat
      /\ \A i \in 1..Len(n) : n[i] = s[i + 1] /\ i + 1 \in 1..Len(s)
  BY TailOf DEF StackInv
<1> HIDE DEF n
<1>2. \A i \in 1..Len(n) : /\ FrameOK(n[i]) /\ PollOK(n[i], st, nx)
                           /\ n[i].k = "call" => st[n[i].p] = "called"
  BY <1>1 DEF StackInv
<1>3. \A i \in 1..Len(n) : \A j \in i + 1..Len(n) : Above(n[i], n[j])
  <2> TAKE i \in 1..Len(n)
  <2> TAKE j \in i + 1..Len(n)
  <2>1. i + 1 \in 1..Len(s) /\ j + 1 \in (i + 1) + 1..Len(s) /\ n[i] = s[i + 1] /\ n[j] = s[j + 1]
    BY <1>1
  <2> QED
    BY <2>1 DEF StackInv
<1>4. \A i \in 2..Len(n) : n[i].k = "poll" => n[i - 1].p = n[i].p /\ Busy(n[i - 1])
  <2> TAKE i \in 2..Len(n)
  <2>1. i + 1 \in 2..Len(s) /\ n[i - 1] = s[(i + 1) - 1] /\ n[i] = s[i + 1] /\ i + 1 # 2
    BY <1>1
  <2> QED
    BY <2>1 DEF StackInv
<1>5. \A j \in 1..Len(n) : Above(s[1], n[j])
  <2> TAKE j \in 1..Len(n)
  <2>1. 1 \in 1..Len(s) /\ j + 1 \in 1 + 1..Len(s) /\ n[j] = s[j + 1]
    BY <1>1
  <2> QED
    BY <2>1 DEF StackInv
<1>6. Steady(n)
  <2> SUFFICES ASSUME Len(n) >= 2, n[2].k = "poll"
               PROVE  ~Ending(n[1])
    BY DEF Steady
  <2>1. 2 \in 2..Len(n) /\ 2 - 1 = 1
    BY <1>1
  <2>2. Busy(n[1])
    BY <1>4, <2>1
  <2> QED
    BY <2>2 DEF Busy, Ending
<1>7. StackInv(n, st, nx)
  BY <1>1, <1>2, <1>3, <1>4 DEF StackInv
<1> QED
  BY <1>5, <1>6, <1>7 DEF n

(* The function a may be called from s. *)
Fits(a, s, st, nx) ==
  /\ FrameOK(a) /\ PollOK(a, st, nx)
  /\ a.k = "call" => st[a.p] = "called"
  /\ \A j \in 1..Len(s) : Above(a, s[j])
  /\ s # <<>> /\ s[1].k = "poll" => a.p = s[1].p /\ (Busy(a) \/ Leaving(a, st))

Pushed(n, a, s) == n = <<a>> \o s

LEMMA PushKeeps ==
  ASSUME NEW s, NEW st, NEW nx, StackInv(s, st, nx), Steady(s),
         NEW a, Fits(a, s, st, nx), NEW n, Pushed(n, a, s)
  PROVE  StackInv(n, st, nx) /\ n # <<>> /\ n[1] = a /\ Tail(n) = s
<1>1. /\ s \in Seq(Frames) /\ n \in Seq(Frames) /\ Len(n) = Len(s) + 1 /\ n[1] = a /\ Len(s) \in Nat
      /\ \A i \in 2..Len(n) : n[i] = s[i - 1] /\ i - 1 \in 1..Len(s)
      /\ n # <<>> /\ Tail(n) = s
  BY ConsOf DEF StackInv, FrameOK, Fits, Pushed
<1>2. \A i \in 1..Len(n) : /\ FrameOK(n[i]) /\ PollOK(n[i], st, nx)
                           /\ n[i].k = "call" => st[n[i].p] = "called"
  <2> TAKE i \in 1..Len(n)
  <2>1. CASE i = 1
    BY <1>1, <2>1 DEF Fits
  <2>2. CASE i # 1
    <3>1. i \in 2..Len(n)
      BY <1>1, <2>2
    <3> QED
      BY <1>1, <3>1 DEF StackInv
  <2> QED
    BY <2>1, <2>2
<1>3. \A i \in 1..Len(n) : \A j \in i + 1..Len(n) : Above(n[i], n[j])
  <2> TAKE i \in 1..Len(n)
  <2> TAKE j \in i + 1..Len(n)
  <2>1. j \in 2..Len(n) /\ n[j] = s[j - 1] /\ j - 1 \in 1..Len(s)
    BY <1>1
  <2>2. CASE i = 1
    BY <1>1, <2>1, <2>2 DEF Fits
  <2>3. CASE i # 1
    <3>1. i \in 2..Len(n) /\ n[i] = s[i - 1] /\ i - 1 \in 1..Len(s) /\ j - 1 \in (i - 1) + 1..Len(s)
      BY <1>1, <2>1, <2>3
    <3> QED
      BY <2>1, <3>1 DEF StackInv
  <2> QED
    BY <2>2, <2>3
<1>4. \A i \in 2..Len(n) : n[i].k = "poll" =>
        n[i - 1].p = n[i].p /\ (Busy(n[i - 1]) \/ (i = 2 /\ Leaving(n[1], st)))
  <2> SUFFICES ASSUME NEW i \in 2..Len(n), n[i].k = "poll"
               PROVE  n[i - 1].p = n[i].p /\ (Busy(n[i - 1]) \/ (i = 2 /\ Leaving(n[1], st)))
    OBVIOUS
  <2>1. n[i] = s[i - 1] /\ i - 1 \in 1..Len(s)
    BY <1>1
  <2>2. CASE i = 2
    <3>1. s # <<>> /\ n[i] = s[1] /\ n[i - 1] = a
      BY <1>1, <2>1, <2>2 DEF Fits
    <3> QED
      BY <1>1, <2>2, <3>1 DEF Fits
  <2>3. CASE i # 2
    <3>1. /\ i - 1 \in 2..Len(s) /\ i - 1 \in 2..Len(n) /\ n[i - 1] = s[(i - 1) - 1]
      BY <1>1, <2>1, <2>3
    <3>2. s[(i - 1) - 1].p = s[i - 1].p /\ (Busy(s[(i - 1) - 1]) \/ (i - 1 = 2 /\ Leaving(s[1], st)))
      BY <2>1, <3>1 DEF StackInv
    <3>3. i - 1 = 2 => ~Ending(s[1])
      BY <1>1, <2>1 DEF Steady
    <3> QED
      BY <2>1, <3>1, <3>2, <3>3 DEF Leaving
  <2> QED
    BY <2>2, <2>3
<1> QED
  BY <1>1, <1>2, <1>3, <1>4 DEF StackInv

(* Processes start, call and return, but none leaves the list. *)
LEMMA StateKeeps ==
  ASSUME NEW s, NEW st, NEW nx, StackInv(s, st, nx), NEW st2, NEW nx2,
         nx \in [Proc -> Proc \cup {Nil}],
         \A p \in Proc : st[p] # "none" => st2[p] # "none",
         \A i \in 1..Len(s) : s[i].k = "call" => st2[s[i].p] = "called",
         \A p \in Proc : nx2[p] = nx[p] \/ st2[p] # "none"
  PROVE  StackInv(s, st2, nx2)
<1>1. \A i \in 1..Len(s) : PollOK(s[i], st2, nx2)
  <2> TAKE i \in 1..Len(s)
  <2>1. FrameOK(s[i]) /\ PollOK(s[i], st, nx)
    BY DEF StackInv
  <2> QED
    BY <2>1, ProcessAssumption DEF PollOK, FrameOK, Frames
<1>2. \A i \in 2..Len(s) : Leaving(s[1], st) => Leaving(s[1], st2)
  <2> TAKE i \in 2..Len(s)
  <2>1. 1 \in 1..Len(s)
    BY DEF StackInv
  <2>2. FrameOK(s[1])
    BY <2>1 DEF StackInv
  <2> QED
    BY <2>2 DEF Leaving, FrameOK, Frames, Ending
<1> QED
  BY <1>1, <1>2 DEF StackInv

-----------------------------------------------------------------------------
(* Whoever follows the pointers from the head comes to the whole list. *)
LEMMA Follows ==
  ASSUME NEW D \in SUBSET Proc, NEW h, NEW nx, NEW rk \in [Proc -> Int], NEW e,
         Linked(D, h, nx, rk, e),
         NEW S, h \in S, \A r \in D : r \in S /\ nx[r] # Nil => nx[r] \in S
  PROVE  D \subseteq S
<1> SUFFICES ASSUME NEW x \in D, x \notin S PROVE FALSE
  OBVIOUS
<1> DEFINE T == {rk[r] - rk[h] : r \in D \ S}
<1>1. T \subseteq Nat /\ T # {}
  <2>1. \A r \in D \ S : rk[r] \in Int /\ rk[h] \in Int /\ rk[h] <= rk[r]
    BY DEF Linked
  <2>2. \A r \in D \ S : rk[r] - rk[h] \in Nat
    BY <2>1
  <2> QED
    BY <2>2
<1>2. PICK m \in T : \A y \in T : m <= y
  <2> HIDE DEF T
  <2> QED
    BY <1>1, Least
<1>3. PICK r \in D \ S : m = rk[r] - rk[h]
  OBVIOUS
<1>4. PICK s \in D : nx[s] = r
  BY <1>3 DEF Linked
<1>5. rk[s] < rk[r] /\ s \notin S
  <2>1. nx[s] # Nil
    BY <1>3, <1>4, ProcessAssumption
  <2> QED
    BY <1>3, <1>4, <2>1 DEF Linked
<1>6. rk[s] - rk[h] \in T
  BY <1>4, <1>5
<1>7. rk[s] \in Int /\ rk[r] \in Int /\ rk[h] \in Int
  BY <1>3, <1>4 DEF Linked
<1>8. m <= rk[s] - rk[h]
  BY <1>2, <1>6
<1> HIDE DEF T
<1> QED
  BY <1>3, <1>5, <1>7, <1>8

(* The processes met from x, with the pointers nx. *)
After(nx, x) ==
  {q \in Proc : /\ x # Nil
                /\ \A S \in SUBSET Proc :
                     x \in S /\ (\A r \in S : nx[r] # Nil => nx[r] \in S) => q \in S}

LEMMA AfterIs ==
  ASSUME NEW D \in SUBSET Proc, NEW h, NEW nx, IsList(D, h, nx)
  PROVE  After(nx, h) = D
<1>1. CASE D = {} /\ h = Nil
  BY <1>1 DEF After
<1>2. ASSUME NEW rk \in [Proc -> Int], NEW e \in Proc, Linked(D, h, nx, rk, e)
      PROVE  After(nx, h) = D
  <2>1. h \in D /\ h # Nil
    BY <1>2, ProcessAssumption DEF Linked
  <2>2. After(nx, h) \subseteq D
    <3>1. \A r \in D : nx[r] # Nil => nx[r] \in D
      BY <1>2 DEF Linked
    <3> QED
      BY <2>1, <3>1 DEF After
  <2>3. ASSUME NEW q \in D PROVE q \in After(nx, h)
    <3> SUFFICES ASSUME NEW S \in SUBSET Proc, h \in S, \A r \in S : nx[r] # Nil => nx[r] \in S
                 PROVE  q \in S
      BY <2>1 DEF After
    <3>1. \A r \in D : r \in S /\ nx[r] # Nil => nx[r] \in S
      OBVIOUS
    <3> QED
      BY <1>2, <3>1, Follows
  <2> QED
    BY <2>2, <2>3
<1> QED
  BY <1>1, <1>2 DEF IsList

LEMMA ReachIs ==
  ASSUME NEW D \in SUBSET Proc, IsList(D, head, nxt)
  PROVE  Reach(head) = D
<1>1. Reach(head) = After(nxt, head)
  BY DEF Reach, Closed, After
<1> QED
  BY <1>1, AfterIs

LEMMA LinkIn ==
  ASSUME NEW D \in SUBSET Proc, NEW h, NEW nx \in [Proc -> Proc \cup {Nil}], IsList(D, h, nx),
         NEW q \in Proc \ D
  PROVE  IsList(D \cup {q}, q, [nx EXCEPT ![q] = h])
<1> DEFINE m == [nx EXCEPT ![q] = h]
           C == D \cup {q}
<1>1. m[q] = h /\ \A r \in D : m[r] = nx[r] /\ r # q
  OBVIOUS
<1>2. CASE D = {} /\ h = Nil
  <2> DEFINE zero == [r \in Proc |-> 0]
  <2>0. zero \in [Proc -> Int]
    OBVIOUS
  <2>1. PICK rk \in [Proc -> Int] : rk = zero
    BY <2>0
  <2>2. Linked(C, q, m, rk, q)
    BY <1>1, <1>2, <2>1 DEF Linked
  <2> QED
    BY <2>2 DEF IsList
<1>3. ASSUME NEW rk \in [Proc -> Int], NEW e \in Proc, Linked(D, h, nx, rk, e)
      PROVE  IsList(C, q, m)
  <2> DEFINE less == [rk EXCEPT ![q] = rk[h] - 1]
  <2>1. h \in D /\ rk[h] \in Int
    BY <1>3 DEF Linked
  <2>2. PICK rk2 \in [Proc -> Int] : rk2 = less
    <3>1. less \in [Proc -> Int]
      BY <2>1
    <3> QED
      BY <3>1
  <2>3. rk2[q] = rk[h] - 1 /\ rk[h] \in Int /\ \A r \in D : rk2[r] = rk[r] /\ rk[r] \in Int
    BY <2>1, <2>2
  <2>4. q \in C /\ e \in C /\ m[e] = Nil
    BY <1>1, <1>3 DEF Linked
  <2>5. \A r \in C : /\ m[r] \in C \cup {Nil}
                     /\ m[r] # Nil => rk2[r] < rk2[m[r]]
                     /\ rk2[q] <= rk2[r]
    <3>1. h \in D
      BY <1>3 DEF Linked
    <3>2. m[q] \in C /\ rk2[q] < rk2[m[q]] /\ rk2[q] <= rk2[q]
      BY <1>1, <2>3, <3>1
    <3>3. ASSUME NEW r \in D
          PROVE  /\ m[r] \in C \cup {Nil}
                 /\ m[r] # Nil => rk2[r] < rk2[m[r]]
                 /\ rk2[q] <= rk2[r]
      <4>1. nx[r] \in D \cup {Nil} /\ (nx[r] # Nil => rk[r] < rk[nx[r]]) /\ rk[h] <= rk[r]
        BY <1>3 DEF Linked
      <4> QED
        BY <1>1, <2>3, <4>1
    <3> HIDE DEF m
    <3> QED
      BY <3>2, <3>3
  <2>6. \A r \in C : r # q => \E s \in C : m[s] = r
    <3> SUFFICES ASSUME NEW r \in D PROVE \E s \in C : m[s] = r
      OBVIOUS
    <3>1. CASE r = h
      BY <1>1, <3>1
    <3>2. CASE r # h
      <4>1. PICK s \in D : nx[s] = r
        BY <1>3, <3>2 DEF Linked
      <4> QED
        BY <1>1, <4>1
    <3> QED
      BY <3>1, <3>2
  <2> HIDE DEF m, C
  <2>7. Linked(C, q, m, rk2, e)
    BY <2>4, <2>5, <2>6 DEF Linked
  <2> QED
    BY <2>7 DEF IsList
<1> QED
  BY <1>2, <1>3 DEF IsList

(* The head and the pointers after p has been taken from the list. *)
Unlinked(D, h, nx, p, g, m) ==
  /\ g = IF h = p THEN nx[p] ELSE h
  /\ m = [r \in Proc |-> IF h # p /\ r \in D /\ nx[r] = p THEN nx[p] ELSE nx[r]]

LEMMA UnlinkFrom ==
  ASSUME NEW D \in SUBSET Proc, NEW h, NEW nx \in [Proc -> Proc \cup {Nil}], IsList(D, h, nx),
         NEW p \in D, NEW g, NEW m, Unlinked(D, h, nx, p, g, m)
  PROVE  /\ IsList(D \ {p}, g, m)
         /\ m[p] \in (D \ {p}) \cup {Nil}
         /\ m \in [Proc -> Proc \cup {Nil}]
<1> DEFINE C == D \ {p}
<1>0. /\ g = IF h = p THEN nx[p] ELSE h
      /\ m = [r \in Proc |-> IF h # p /\ r \in D /\ nx[r] = p THEN nx[p] ELSE nx[r]]
  BY DEF Unlinked
<1>1. PICK rk \in [Proc -> Int], e \in Proc : Linked(D, h, nx, rk, e)
  BY DEF IsList
<1>2. /\ \A r \in D : rk[r] \in Int /\ nx[r] \in D \cup {Nil} /\ (nx[r] # Nil => rk[r] < rk[nx[r]])
      /\ \A r \in D : nx[r] # r
      /\ p \notin {Nil} /\ h \in D /\ e \in D /\ nx[e] = Nil
      /\ \A r \in D : (r # h => \E s \in D : nx[s] = r) /\ rk[h] <= rk[r]
  <2>1. \A r \in D : rk[r] \in Int /\ nx[r] \in D \cup {Nil} /\ (nx[r] # Nil => rk[r] < rk[nx[r]])
    BY <1>1 DEF Linked
  <2>2. \A r \in D : nx[r] # r
    BY <2>1, ProcessAssumption
  <2>3. h \in D /\ e \in D /\ nx[e] = Nil /\ p # Nil
    BY <1>1, ProcessAssumption DEF Linked
  <2>4. \A r \in D : (r # h => \E s \in D : nx[s] = r) /\ rk[h] <= rk[r]
    BY <1>1 DEF Linked
  <2> QED
    BY <2>1, <2>2, <2>3, <2>4
<1>3. m \in [Proc -> Proc \cup {Nil}] /\ m[p] = nx[p] /\ m[p] \in C \cup {Nil}
  BY <1>0, <1>2
<1>4. CASE h = p
  <2>1. (\A r \in D : m[r] = nx[r]) /\ g = nx[p]
    BY <1>0, <1>4
  <2>2. CASE nx[p] = Nil
    <3>1. D \subseteq {p}
      BY <1>1, <1>4, <2>2, Follows
    <3> QED
      BY <1>3, <1>4, <2>1, <2>2, <3>1 DEF IsList
  <2>3. CASE nx[p] # Nil
    <3> DEFINE S == {p} \cup {r \in D : rk[nx[p]] <= rk[r]}
    <3>1. nx[p] \in C
      BY <1>2, <2>3
    <3>2. \A r \in D : r \in S /\ nx[r] # Nil => nx[r] \in S
      <4> SUFFICES ASSUME NEW r \in D, r \in S, nx[r] # Nil PROVE nx[r] \in S
        OBVIOUS
      <4>1. nx[r] \in D /\ rk[r] < rk[nx[r]] /\ rk[r] \in Int /\ rk[nx[r]] \in Int /\ rk[nx[p]] \in Int
        BY <1>2, <3>1
      <4> QED
        BY <4>1
    <3>3. D \subseteq S
      <4>1. h \in S
        BY <1>4
      <4> HIDE DEF S
      <4> QED
        BY <1>1, <3>2, <4>1, Follows
    <3>4. \A r \in C : rk[nx[p]] <= rk[r]
      BY <3>3
    <3>5. \A r \in C : r # nx[p] => \E s \in C : m[s] = r
      <4> SUFFICES ASSUME NEW r \in C, r # nx[p] PROVE \E s \in C : m[s] = r
        OBVIOUS
      <4>1. PICK s \in D : nx[s] = r
        BY <1>2, <1>4
      <4> QED
        BY <2>1, <4>1
    <3>6. \A r \in C : m[r] \in C \cup {Nil} /\ (m[r] # Nil => rk[r] < rk[m[r]])
      <4> TAKE r \in C
      <4>1. nx[r] \in D \cup {Nil} /\ (nx[r] # Nil => rk[r] < rk[nx[r]])
        BY <1>2
      <4>2. nx[r] # p
        <5>1. rk[p] <= rk[r] /\ rk[p] \in Int /\ rk[r] \in Int
          BY <1>2, <1>4
        <5> QED
          BY <1>2, <4>1, <5>1
      <4> QED
        BY <2>1, <4>1, <4>2
    <3>7. e \in C /\ m[e] = Nil
      BY <1>2, <2>1, <2>3
    <3> HIDE DEF C
    <3>8. Linked(C, nx[p], m, rk, e)
      BY <3>1, <3>4, <3>5, <3>6, <3>7 DEF Linked
    <3> QED
      BY <1>3, <1>4, <2>1, <3>8 DEF IsList, C
  <2> QED
    BY <2>2, <2>3
<1>5. CASE h # p
  <2>1. (\A r \in D : m[r] = IF nx[r] = p THEN nx[p] ELSE nx[r]) /\ g = h
    BY <1>0, <1>5
  <2>2. PICK t \in D : nx[t] = p
    BY <1>2, <1>5
  <2>3. t \in C /\ m[t] = nx[p]
    BY <1>2, <2>1, <2>2
  <2>4. \A r \in C : m[r] \in C \cup {Nil} /\ (m[r] # Nil => rk[r] < rk[m[r]])
    <3> TAKE r \in C
    <3>1. /\ nx[r] \in D \cup {Nil} /\ (nx[r] # Nil => rk[r] < rk[nx[r]])
          /\ nx[p] \in C \cup {Nil} /\ (nx[p] # Nil => rk[p] < rk[nx[p]])
          /\ rk[r] \in Int /\ rk[p] \in Int
      BY <1>2
    <3>2. CASE nx[r] = p
      <4>1. m[r] = nx[p] /\ rk[r] < rk[p]
        BY <1>2, <2>1, <3>1, <3>2
      <4>2. nx[p] # Nil => rk[nx[p]] \in Int
        BY <1>2, <3>1
      <4> QED
        BY <3>1, <4>1, <4>2
    <3>3. CASE nx[r] # p
      BY <2>1, <3>1, <3>3
    <3> QED
      BY <3>2, <3>3
  <2>5. \A r \in C : r # h => \E s \in C : m[s] = r
    <3> SUFFICES ASSUME NEW r \in C, r # h PROVE \E s \in C : m[s] = r
      OBVIOUS
    <3>1. PICK s \in D : nx[s] = r
      BY <1>2
    <3>2. CASE s = p
      BY <2>3, <3>1, <3>2
    <3>3. CASE s # p
      BY <2>1, <3>1, <3>3
    <3> QED
      BY <3>2, <3>3
  <2>6. h \in C /\ \A r \in C : rk[h] <= rk[r]
    BY <1>2, <1>5
  <2>7. \E f \in C : m[f] = Nil
    <3>1. CASE e = p
      BY <1>2, <2>3, <3>1
    <3>2. CASE e # p
      BY <1>2, <2>1, <3>2
    <3> QED
      BY <3>1, <3>2
  <2>8. PICK f \in C : m[f] = Nil
    BY <2>7
  <2>9. f \in Proc
    OBVIOUS
  <2> HIDE DEF C
  <2>10. Linked(C, h, m, rk, f)
    BY <2>4, <2>5, <2>6, <2>8 DEF Linked
  <2> QED
    BY <1>3, <1>5, <2>1, <2>9, <2>10 DEF IsList, C
<1> QED
  BY <1>4, <1>5

-----------------------------------------------------------------------------
LEMMA TwoOnTop ==
  ASSUME NEW a \in Frames, NEW b \in Frames, NEW u \in Seq(Frames)
  PROVE  /\ <<a, b>> \o u = <<a>> \o (<<b>> \o u)
         /\ <<a>> \o <<b>> \o u = <<a>> \o (<<b>> \o u)
         /\ <<>> \o <<b>> \o u = <<b>> \o u
         /\ <<a>> = <<a>> \o <<>> /\ <<>> \in Seq(Frames)
<1>1. <<a, b>> \o u = <<a>> \o (<<b>> \o u)
  <2> DEFINE x == <<a, b>> \o u
             y == <<a>> \o (<<b>> \o u)
             z == <<b>> \o u
  <2>1. z \in Seq(Frames) /\ Len(z) = Len(u) + 1 /\ Len(u) \in Nat /\ z[1] = b
        /\ \A i \in 2..Len(z) : z[i] = u[i - 1]
    BY ConsOf
  <2>2. x \in Seq(Frames) /\ Len(x) = Len(u) + 2
    OBVIOUS
  <2>3. x[1] = a /\ x[2] = b /\ \A i \in 3..Len(u) + 2 : x[i] = u[i - 2]
    OBVIOUS
  <2> HIDE DEF x, z
  <2>4. y \in Seq(Frames) /\ Len(y) = Len(u) + 2 /\ y[1] = a
        /\ \A i \in 2..Len(u) + 2 : y[i] = z[i - 1]
    BY <2>1, ConsOf DEF z
  <2> HIDE DEF y
  <2>5. \A i \in 1..Len(u) + 2 : x[i] = y[i]
    <3> TAKE i \in 1..Len(u) + 2
    <3>1. CASE i = 1
      BY <2>3, <2>4, <3>1
    <3>2. CASE i = 2
      <4>1. i \in 2..Len(u) + 2 /\ i - 1 = 1
        BY <3>2
      <4> QED
        BY <2>1, <2>3, <2>4, <3>2, <4>1
    <3>3. CASE i \notin {1, 2}
      <4>1. /\ i \in 3..Len(u) + 2 /\ i \in 2..Len(u) + 2 /\ i - 1 \in 2..Len(z) /\ (i - 1) - 1 = i - 2
        BY <2>1, <3>3
      <4>2. y[i] = z[i - 1] /\ z[i - 1] = u[(i - 1) - 1] /\ x[i] = u[i - 2]
        BY <2>1, <2>3, <2>4, <4>1
      <4> QED
        BY <4>1, <4>2
    <3> QED
      BY <3>1, <3>2, <3>3
  <2>6. x = y
    BY <2>2, <2>4, <2>5
  <2> QED
    BY <2>6 DEF x, y, z
<1>2. <<a>> \o <<b>> \o u = <<a>> \o (<<b>> \o u)
  OBVIOUS
<1>3. <<>> \o <<b>> \o u = <<b>> \o u
  OBVIOUS
<1>4. <<a>> = <<a>> \o <<>> /\ <<>> \in Seq(Frames)
  OBVIOUS
<1> QED
  BY <1>1, <1>2, <1>3, <1>4

LEMMA EmptyStack ==
  ASSUME NEW st, NEW nx
  PROVE  StackInv(<<>>, st, nx) /\ Steady(<<>>)
<1>1. <<>> \in Seq(Frames) /\ Len(<<>>) = 0
  OBVIOUS
<1>2. 1..0 = {} /\ 2..0 = {} /\ ~(0 >= 2)
  OBVIOUS
<1> QED
  BY <1>1, <1>2 DEF StackInv, Steady

(* No function in progress waits for anything but a call. *)
Waits(f) ==
  /\ f.k = "exit" => f.at \in {"unlink", "told"}
  /\ f.k = "poll" => f.at = "next"

LEMMA AllWait ==
  ASSUME NEW s, NEW st, NEW nx, StackInv(s, st, nx), s # <<>> => Waits(s[1])
  PROVE  \A j \in 1..Len(s) : Waits(s[j])
<1> SUFFICES ASSUME NEW j \in 1..Len(s), j # 1 PROVE Waits(s[j])
  BY DEF StackInv
<1>1. 1 \in 1..Len(s) /\ j \in 1 + 1..Len(s)
  BY DEF StackInv
<1>2. Above(s[1], s[j])
  BY <1>1 DEF StackInv
<1> QED
  BY <1>2 DEF Above, Waits

(* A process that is not in the middle of a call is called. *)
LEMMA PushCall ==
  ASSUME NEW s, NEW st, NEW nx, StackInv(s, st, nx), Steady(s),
         \A j \in 1..Len(s) : Waits(s[j]),
         NEW p \in Proc, s # <<>> /\ s[1].k = "poll" => s[1].p = p, \A j \in 1..Len(s) : s[j].k = "call" => s[j].p # p,
         st \in [Proc -> {"none", "running", "called"}], nx \in [Proc -> Proc \cup {Nil}],
         NEW nx2, \A r \in Proc : nx2[r] = nx[r] \/ r = p,
         NEW ev \in {"init", "event", "poll", "exited"},
         NEW st2, st2 = [st EXCEPT ![p] = "called"],
         NEW n, n = <<[Frame("call", p, "thread") EXCEPT !.ev = ev]>> \o s
  PROVE  StackInv(n, st2, nx2)
<1> DEFINE a == [Frame("call", p, "thread") EXCEPT !.ev = ev]
<1>1. a \in Frames /\ a.k = "call" /\ a.p = p /\ a.at = "thread"
  BY DEF Frame, Frames
<1> HIDE DEF a
<1>2. FrameOK(a) /\ PollOK(a, st2, nx2) /\ st2[a.p] = "called" /\ Busy(a)
  BY <1>1, ProcessAssumption DEF FrameOK, PollOK, Busy
<1>3. \A i \in 1..Len(s) : s[i] \in Frames /\ (s[i].k = "call" => st2[s[i].p] = "called")
  <2> TAKE i \in 1..Len(s)
  <2>1. FrameOK(s[i]) /\ (s[i].k = "call" => st[s[i].p] = "called")
    BY DEF StackInv
  <2>2. s[i] \in Frames /\ (s[i].k = "call" => s[i].p \in Proc)
    BY <2>1 DEF FrameOK, Frames
  <2> QED
    BY <2>1, <2>2
<1>4. \A r \in Proc : (st[r] # "none" => st2[r] # "none") /\ (nx2[r] = nx[r] \/ st2[r] # "none")
  OBVIOUS
<1>5. StackInv(s, st2, nx2)
  BY <1>3, <1>4, StateKeeps
<1>6. \A j \in 1..Len(s) : Above(a, s[j])
  BY <1>1 DEF Above, Waits, Ending
<1>7. s # <<>> /\ s[1].k = "poll" => a.p = s[1].p /\ (Busy(a) \/ Leaving(a, st2))
  BY <1>1, <1>2
<1>8. Pushed(n, a, s)
  BY DEF a, Pushed
<1>9. Fits(a, s, st2, nx2)
  BY <1>2, <1>6, <1>7 DEF Fits
<1> QED
  BY <1>5, <1>8, <1>9, PushKeeps

LEMMA CallKeeps ==
  ASSUME ProcTypeOK, NEW s, StackInv(s, state, nxt), Steady(s),
         s # <<>> => Waits(s[1]) /\ s[1].k # "poll",
         NEW p \in Proc, NEW ev \in {"event", "exited"}, CallProcess(p, ev, s)
  PROVE  /\ StackInv(stack', state', nxt)
         /\ Running(state') = Running(state)
         /\ state' \in [Proc -> {"none", "running", "called"}]
<1>1. CASE Callable(p)
  <2>1. /\ state' = [state EXCEPT ![p] = "called"]
        /\ stack' = <<[Frame("call", p, "thread") EXCEPT !.ev = ev]>> \o s
        /\ state[p] = "running"
    BY <1>1 DEF CallProcess, Callable
  <2>2. \A j \in 1..Len(s) : s[j].k = "call" => s[j].p # p
    BY <2>1 DEF StackInv
  <2>3. \A j \in 1..Len(s) : Waits(s[j])
    BY AllWait
  <2>4. /\ state \in [Proc -> {"none", "running", "called"}]
        /\ nxt \in [Proc -> Proc \cup {Nil}]
    BY DEF ProcTypeOK
  <2>5. StackInv(stack', state', nxt)
    BY <2>1, <2>2, <2>3, <2>4, PushCall
  <2>6. Running(state') = Running(state)
    BY <2>1, <2>4 DEF Running
  <2> QED
    BY <2>1, <2>4, <2>5, <2>6
<1>2. CASE ~Callable(p)
  BY <1>2 DEF CallProcess, ProcTypeOK
<1> QED
  BY <1>1, <1>2

LEMMA ReplaceTop ==
  ASSUME NEW s, NEW st, NEW nx, StackInv(s, st, nx), s # <<>>,
         NEW b, FrameOK(b), PollOK(b, st, nx), b.k = s[1].k,
         \/ b.k \in {"poll", "bcast"}
         \/ /\ b.k = "exit" /\ b.p = s[1].p /\ (Ending(b) => Ending(s[1]))
            /\ (Busy(s[1]) => Busy(b)) /\ (Leaving(s[1], st) => Leaving(b, st)),
         NEW n, Pushed(n, b, Tail(s))
  PROVE  StackInv(n, st, nx) /\ n # <<>> /\ n[1] = b /\ Tail(n) = Tail(s) /\ (~Ending(b) => Steady(n))
<1>0. PICK u : u = Tail(s)
  OBVIOUS
<1>1. /\ StackInv(u, st, nx) /\ Steady(u) /\ \A j \in 1..Len(u) : Above(s[1], u[j])
  BY <1>0, PopKeeps
<1>2. \A j \in 1..Len(u) : Above(b, u[j])
  BY <1>1 DEF Above, Ending
<1>3. u # <<>> => u[1] = s[2] /\ 2 \in 2..Len(s) /\ 2 - 1 = 1 /\ Above(s[1], u[1])
  <2> SUFFICES ASSUME u # <<>> PROVE u[1] = s[2] /\ 2 \in 2..Len(s) /\ 2 - 1 = 1 /\ Above(s[1], u[1])
    OBVIOUS
  <2>1. u \in Seq(Frames) /\ Len(u) = Len(s) - 1 /\ Len(s) \in Nat /\ s \in Seq(Frames)
    BY <1>0, <1>1, TailOf DEF StackInv
  <2>2. 1 \in 1..Len(u) /\ 1 \in 1..Len(s) - 1
    BY <2>1
  <2>3. u[1] = s[2]
    BY <1>0, <2>1, <2>2, TailOf
  <2> QED
    BY <1>1, <2>1, <2>2, <2>3
<1>4. u # <<>> /\ u[1].k = "poll" => b.p = u[1].p /\ (Busy(b) \/ Leaving(b, st))
  <2> SUFFICES ASSUME u # <<>>, u[1].k = "poll" PROVE b.p = u[1].p /\ (Busy(b) \/ Leaving(b, st))
    OBVIOUS
  <2>1. s[1].p = s[2].p /\ (Busy(s[1]) \/ Leaving(s[1], st))
    BY <1>3 DEF StackInv
  <2>2. b.k \notin {"poll", "bcast"}
    BY <1>3 DEF Above
  <2> QED
    BY <1>3, <2>1, <2>2
<1>5. b.k # "call"
  OBVIOUS
<1>6. Pushed(n, b, u) /\ Fits(b, u, st, nx)
  BY <1>0, <1>2, <1>4, <1>5 DEF Fits
<1>7. StackInv(n, st, nx) /\ n # <<>> /\ n[1] = b /\ Tail(n) = u
  BY <1>1, <1>6, PushKeeps
<1> QED
  BY <1>0, <1>7 DEF Steady

(* The list, as the walks use it. *)
LEMMA Walks ==
  ASSUME ProcInv
  PROVE  /\ Reach(head) = Running(state)
         /\ head = Nil \/ (head \in Proc /\ state[head] # "none")
         /\ \A p \in Proc : state[p] # "none" => nxt[p] = Nil \/ (nxt[p] \in Proc /\ state[nxt[p]] # "none")
         /\ \A p \in Proc : OnList(p) <=> state[p] # "none"
         /\ head # Nil => \E p \in Reach(head) : nxt[p] = Nil
<1>1. IsList(Running(state), head, nxt) /\ Running(state) \in SUBSET Proc
  BY DEF ProcInv, Running
<1>2. Reach(head) = Running(state)
  BY <1>1, ReachIs
<1>3. /\ head = Nil \/ head \in Running(state)
      /\ \A p \in Running(state) : nxt[p] \in Running(state) \cup {Nil}
      /\ head # Nil => \E p \in Running(state) : nxt[p] = Nil
  BY <1>1 DEF IsList, Linked
<1>4. \A p \in Proc : p \in Running(state) <=> state[p] # "none"
  BY DEF Running
<1>5. Running(state) \subseteq Proc
  BY DEF Running
<1> QED
  BY <1>2, <1>3, <1>4, <1>5 DEF OnList

-----------------------------------------------------------------------------
(* What the steps do. *)
LEMMA TopOf ==
  ASSUME ProcInv, stack # <<>>
  PROVE  /\ Top = stack[1] /\ 1 \in 1..Len(stack)
         /\ FrameOK(Top) /\ PollOK(Top, state, nxt) /\ (Top.k = "call" => state[Top.p] = "called")
         /\ StackInv(Under, state, nxt) /\ Steady(Under)
         /\ \A j \in 1..Len(Under) : Above(Top, Under[j])
<1>1. StackInv(stack, state, nxt)
  BY DEF ProcInv
<1>2. Top = stack[1] /\ 1 \in 1..Len(stack)
  BY <1>1 DEF StackInv, Top
<1>3. FrameOK(Top) /\ PollOK(Top, state, nxt) /\ (Top.k = "call" => state[Top.p] = "called")
  BY <1>1, <1>2 DEF StackInv
<1>4. StackInv(Under, state, nxt) /\ Steady(Under) /\ \A j \in 1..Len(Under) : Above(Top, Under[j])
  BY <1>1, <1>2, PopKeeps DEF Under
<1> QED
  BY <1>2, <1>3, <1>4

LEMMA SameStack ==
  ASSUME ProcInv, ProcTypeOK', UNCHANGED <<head, nxt, state, stack>>
  PROVE  ProcInv'
BY DEF ProcInv

LEMMA RunPollStep == ProcInv /\ RunPoll => ProcInv'
<1> SUFFICES ASSUME ProcInv, RunPoll PROVE ProcInv'
  OBVIOUS
<1> DEFINE a == Frame("poll", head, "visit")
<1>1. a \in Frames /\ FrameOK(a) /\ a.k = "poll" /\ a.at = "visit" /\ a.p = head
  BY DEF ProcInv, ProcTypeOK, Frame, Frames, FrameOK
<1> HIDE DEF a
<1>2. PollOK(a, state, nxt)
  BY <1>1, Walks DEF PollOK
<1>3. StackInv(<<>>, state, nxt) /\ Steady(<<>>)
  BY EmptyStack
<1>4. Fits(a, <<>>, state, nxt)
  BY <1>1, <1>2 DEF Fits
<1>5. Pushed(<<a>>, a, <<>>)
  BY <1>1, TwoOnTop DEF Pushed
<1>6. StackInv(<<a>>, state, nxt)
  BY <1>3, <1>4, <1>5, PushKeeps
<1>7. StackInv(stack', state, nxt)
  BY <1>3, <1>6 DEF RunPoll, a
<1>8. ProcTypeOK'
  BY DEF ProcInv, ProcTypeOK, RunPoll, lists
<1> QED
  BY <1>7, <1>8 DEF ProcInv, RunPoll, lists

LEMMA RunEventStep == ProcInv /\ RunEvent => ProcInv'
<1> SUFFICES ASSUME ProcInv, RunEvent PROVE ProcInv'
  OBVIOUS
<1>1. ProcTypeOK /\ StackInv(<<>>, state, nxt) /\ Steady(<<>>)
  BY EmptyStack DEF ProcInv
<1>2. CASE events = <<>>
  <2>1. ProcTypeOK'
    BY <1>1, <1>2 DEF ProcTypeOK, RunEvent, lists, polls
  <2> QED
    BY <1>2, <2>1, SameStack DEF RunEvent, lists
<1>3. CASE events # <<>>
  <2>1. /\ Head(events) \in Proc \cup {Nil} /\ events' = Tail(events)
        /\ events' \in Seq(Proc \cup {Nil}) /\ Len(events') <= NumEvents
    <3>1. events \in Seq(Proc \cup {Nil}) /\ Len(events) <= NumEvents /\ events' = Tail(events)
      BY <1>1, <1>3 DEF ProcTypeOK, RunEvent
    <3>2. /\ Head(events) \in Proc \cup {Nil} /\ Tail(events) \in Seq(Proc \cup {Nil})
          /\ Len(Tail(events)) = Len(events) - 1 /\ Len(events) \in Nat
      BY <1>3, <3>1
    <3>3. NumEvents \in Nat
      BY ProcessAssumption
    <3> QED
      BY <3>1, <3>2, <3>3
  <2>2. CASE Head(events) = Nil
    <3> DEFINE a == Frame("bcast", head, "visit")
    <3>1. a \in Frames /\ FrameOK(a) /\ a.k = "bcast"
      BY <1>1 DEF ProcTypeOK, Frame, Frames, FrameOK
    <3> HIDE DEF a
    <3>2. Fits(a, <<>>, state, nxt)
      BY <3>1 DEF Fits, PollOK
    <3>3. Pushed(<<a>>, a, <<>>)
      BY <3>1, TwoOnTop DEF Pushed
    <3>4. StackInv(<<a>>, state, nxt)
      BY <1>1, <3>2, <3>3, PushKeeps
    <3>5. stack' = <<a>> /\ state' = state
      BY <1>3, <2>2 DEF RunEvent, a
    <3>6. ProcTypeOK'
      BY <1>1, <2>1, <3>5 DEF ProcTypeOK, RunEvent, lists, polls
    <3> QED
      BY <3>4, <3>5, <3>6 DEF ProcInv, RunEvent, lists
  <2>3. CASE Head(events) # Nil
    <3>1. CallProcess(Head(events), "event", <<>>) /\ Head(events) \in Proc
      BY <1>3, <2>1, <2>3 DEF RunEvent
    <3>2. /\ StackInv(stack', state', nxt) /\ Running(state') = Running(state)
          /\ state' \in [Proc -> {"none", "running", "called"}]
      BY <1>1, <3>1, CallKeeps
    <3>3. ProcTypeOK'
      BY <1>1, <2>1, <3>2 DEF ProcTypeOK, RunEvent, lists, polls
    <3> QED
      BY <3>2, <3>3 DEF ProcInv, RunEvent, lists
  <2> QED
    BY <2>2, <2>3
<1> QED
  BY <1>2, <1>3

LEMMA PollVisitStep == ProcInv /\ PollVisit => ProcInv'
<1> SUFFICES ASSUME ProcInv, PollVisit PROVE ProcInv'
  OBVIOUS
<1>1. stack # <<>> /\ Top.k = "poll" /\ Top.at = "visit" /\ ProcTypeOK
  BY DEF PollVisit, Is, ProcInv
<1>2. /\ Top = stack[1] /\ FrameOK(Top) /\ PollOK(Top, state, nxt)
      /\ StackInv(Under, state, nxt) /\ Steady(Under)
      /\ \A j \in 1..Len(Under) : Above(Top, Under[j])
  BY <1>1, TopOf
<1>3. CASE Top.p = Nil
  <2>1. stack' = Under /\ UNCHANGED <<head, nxt, state>>
    BY <1>3 DEF PollVisit, lists
  <2>2. ProcTypeOK'
    BY <1>1, <1>3 DEF ProcTypeOK, PollVisit, lists, PollDone
  <2> QED
    BY <1>2, <2>1, <2>2 DEF ProcInv
<1>4. CASE Top.p # Nil
  <2> DEFINE b == [Top EXCEPT !.at = "next"]
             n == <<b>> \o Under
  <2>1. Top.p \in Proc /\ state[Top.p] # "none"
    BY <1>1, <1>2, <1>4 DEF FrameOK, Frames, PollOK
  <2>2. FrameOK(b) /\ b.k = "poll" /\ b.p = Top.p /\ b.at = "next" /\ b \in Frames
    BY <1>1, <1>2, <1>4 DEF FrameOK, Frames
  <2>3. Pushed(n, b, Tail(stack))
    BY DEF Pushed, Under
  <2> HIDE DEF b, n
  <2>4. PollOK(b, state, nxt) /\ b.k = stack[1].k
    BY <1>1, <1>2, <2>1, <2>2 DEF PollOK
  <2>5. StackInv(n, state, nxt) /\ n # <<>> /\ n[1] = b /\ Steady(n)
    BY <1>1, <2>2, <2>3, <2>4, ReplaceTop DEF ProcInv, Ending
  <2>6. CASE needspoll[Top.p]
    <3> DEFINE c == [Frame("call", Top.p, "thread") EXCEPT !.ev = "poll"]
    <3>1. c \in Frames /\ Under \in Seq(Frames)
      BY <1>2, <2>1 DEF Frame, Frames, StackInv
    <3>2. stack' = <<c>> \o n /\ state' = [state EXCEPT ![Top.p] = "called"]
      BY <1>4, <2>2, <2>6, <3>1, TwoOnTop DEF PollVisit, b, n
    <3>3. \A j \in 1..Len(n) : Waits(n[j])
      BY <2>2, <2>5, AllWait DEF Waits
    <3>4. \A j \in 1..Len(n) : n[j].k # "call"
      <4> SUFFICES ASSUME NEW j \in 1..Len(n), j # 1 PROVE n[j].k # "call"
        BY <2>2, <2>5
      <4>1. 1 \in 1..Len(n) /\ j \in 1 + 1..Len(n)
        BY <2>5 DEF StackInv
      <4>2. Above(b, n[j])
        BY <2>5, <4>1 DEF StackInv
      <4> QED
        BY <2>2, <4>2 DEF Above
    <3>5. state \in [Proc -> {"none", "running", "called"}] /\ nxt \in [Proc -> Proc \cup {Nil}]
      BY <1>1 DEF ProcTypeOK
    <3>6. StackInv(stack', state', nxt)
      BY <2>1, <2>2, <2>5, <3>2, <3>3, <3>4, <3>5, PushCall
    <3>7. Running(state') = Running(state)
      BY <2>1, <3>2, <3>5 DEF Running
    <3>8. ProcTypeOK'
      BY <1>1, <1>4, <2>1, <2>6 DEF ProcTypeOK, PollVisit, lists
    <3> QED
      BY <3>6, <3>7, <3>8 DEF ProcInv, PollVisit, lists
  <2>7. CASE ~needspoll[Top.p]
    <3>1. stack' = n /\ state' = state
      BY <1>4, <2>7 DEF PollVisit, b, n
    <3>2. ProcTypeOK'
      BY <1>1, <1>4, <2>7 DEF ProcTypeOK, PollVisit, lists
    <3> QED
      BY <2>5, <3>1, <3>2 DEF ProcInv, PollVisit, lists
  <2> QED
    BY <2>6, <2>7
<1> QED
  BY <1>3, <1>4

LEMMA BcastVisitStep == ProcInv /\ BcastVisit => ProcInv'
<1> SUFFICES ASSUME ProcInv, BcastVisit PROVE ProcInv'
  OBVIOUS
<1>1. stack # <<>> /\ Top.k = "bcast" /\ Top.at = "visit" /\ ProcTypeOK
  BY DEF BcastVisit, Is, ProcInv
<1>2. /\ Top = stack[1] /\ FrameOK(Top) /\ StackInv(Under, state, nxt)
  BY <1>1, TopOf
<1>3. ProcTypeOK'
  BY <1>1 DEF ProcTypeOK, BcastVisit, lists
<1>4. CASE Top.p = Nil
  BY <1>2, <1>3, <1>4 DEF ProcInv, BcastVisit, lists
<1>5. CASE Top.p # Nil
  <2> DEFINE b == [Top EXCEPT !.at = "call"]
             n == <<b>> \o Under
             a == Frame("poll", head, "visit")
  <2>1. FrameOK(b) /\ b.k = "bcast" /\ b \in Frames
    BY <1>1, <1>2, <1>5 DEF FrameOK, Frames
  <2>2. a \in Frames /\ FrameOK(a) /\ a.k = "poll" /\ a.at = "visit" /\ a.p = head
    BY <1>1 DEF ProcTypeOK, Frame, Frames, FrameOK
  <2>3. Pushed(n, b, Tail(stack)) /\ Pushed(<<a>> \o n, a, n)
    BY DEF Pushed, Under
  <2>4. Under \in Seq(Frames)
    BY <1>2 DEF StackInv
  <2>5. stack' = IF pollreq THEN <<a>> \o n ELSE n
    BY <1>5, <2>1, <2>2, <2>4, TwoOnTop DEF BcastVisit
  <2> HIDE DEF a, b, n
  <2>6. PollOK(b, state, nxt) /\ PollOK(a, state, nxt)
    BY <2>1, <2>2, Walks DEF PollOK
  <2>7. StackInv(n, state, nxt) /\ n # <<>> /\ n[1] = b /\ Steady(n)
    BY <1>1, <1>2, <2>1, <2>3, <2>6, ReplaceTop DEF ProcInv, Ending
  <2>8. \A j \in 1..Len(n) : n[j].k = "bcast"
    <3> SUFFICES ASSUME NEW j \in 1..Len(n), j # 1 PROVE FALSE
      BY <2>1, <2>7
    <3>1. Len(Under) = Len(n) - 1 /\ Len(Under) \in Nat /\ n \in Seq(Frames) /\ Len(n) \in Nat
      BY <2>1, <2>4, ConsOf DEF n
    <3>2. 1 \in 1..Len(Under)
      BY <3>1
    <3>3. Above(Top, Under[1])
      BY <1>1, <3>2, TopOf
    <3> QED
      BY <1>1, <3>3 DEF Above
  <2>9. Fits(a, n, state, nxt)
    BY <2>1, <2>2, <2>6, <2>7, <2>8 DEF Fits, Above, Ending
  <2>10. StackInv(<<a>> \o n, state, nxt)
    BY <2>3, <2>7, <2>9, PushKeeps
  <2> QED
    BY <1>3, <2>5, <2>7, <2>10 DEF ProcInv, BcastVisit, lists
<1> QED
  BY <1>4, <1>5

LEMMA BcastCallStep == ProcInv /\ BcastCall => ProcInv'
<1> SUFFICES ASSUME ProcInv, BcastCall PROVE ProcInv'
  OBVIOUS
<1>1. stack # <<>> /\ Top.k = "bcast" /\ Top.at = "call" /\ ProcTypeOK
  BY DEF BcastCall, Is, ProcInv
<1>2. /\ Top = stack[1] /\ FrameOK(Top) /\ StackInv(Under, state, nxt)
  BY <1>1, TopOf
<1> DEFINE b == [Top EXCEPT !.at = "next"]
           n == <<b>> \o Under
<1>3. FrameOK(b) /\ b.k = "bcast" /\ Top.p \in Proc
  BY <1>1, <1>2 DEF FrameOK, Frames
<1>4. Pushed(n, b, Tail(stack))
  BY DEF Pushed, Under
<1>5. CallProcess(Top.p, "event", n)
  BY DEF BcastCall
<1> HIDE DEF b, n
<1>6. StackInv(n, state, nxt) /\ n # <<>> /\ n[1] = b /\ Steady(n)
  <2>1. PollOK(b, state, nxt)
    BY <1>3 DEF PollOK
  <2> QED
    BY <1>1, <1>2, <1>3, <1>4, <2>1, ReplaceTop DEF ProcInv, Ending
<1>7. Waits(n[1]) /\ n[1].k # "poll"
  BY <1>3, <1>6 DEF Waits
<1>8. /\ StackInv(stack', state', nxt) /\ Running(state') = Running(state)
      /\ state' \in [Proc -> {"none", "running", "called"}]
  BY <1>1, <1>3, <1>5, <1>6, <1>7, CallKeeps
<1>9. ProcTypeOK'
  BY <1>1, <1>8 DEF ProcTypeOK, BcastCall, lists, polls
<1> QED
  BY <1>8, <1>9 DEF ProcInv, BcastCall, lists

LEMMA AdvanceStep == ProcInv /\ Advance => ProcInv'
<1> SUFFICES ASSUME ProcInv, Advance PROVE ProcInv'
  OBVIOUS
<1>1. stack # <<>> /\ Top.k \in {"poll", "bcast"} /\ Top.at = "next" /\ ProcTypeOK
  BY DEF Advance, Is, ProcInv
<1>2. Top = stack[1] /\ FrameOK(Top) /\ PollOK(Top, state, nxt)
  BY <1>1, TopOf
<1> DEFINE b == [Top EXCEPT !.p = nxt[Top.p], !.at = "visit"]
           n == <<b>> \o Under
<1>3. Top.p \in Proc /\ nxt[Top.p] \in Proc \cup {Nil}
  BY <1>1, <1>2 DEF FrameOK, Frames, ProcTypeOK
<1>4. FrameOK(b) /\ b.k = Top.k /\ b.p = nxt[Top.p] /\ b.at = "visit"
  BY <1>1, <1>2, <1>3 DEF FrameOK, Frames
<1>5. Pushed(n, b, Tail(stack)) /\ stack' = n
  BY DEF Pushed, Under, Advance
<1> HIDE DEF b, n
<1>6. PollOK(b, state, nxt)
  <2>1. state[Top.p] # "none" => nxt[Top.p] = Nil \/ state[nxt[Top.p]] # "none"
    BY <1>3, Walks
  <2> QED
    BY <1>1, <1>2, <1>4, <2>1 DEF PollOK
<1>7. StackInv(n, state, nxt)
  BY <1>1, <1>2, <1>4, <1>5, <1>6, ReplaceTop DEF ProcInv
<1>8. ProcTypeOK'
  BY <1>1 DEF ProcTypeOK, Advance, lists, polls
<1> QED
  BY <1>5, <1>7, <1>8 DEF ProcInv, Advance, lists

LEMMA ExitStartStep == ProcInv /\ ExitStart => ProcInv'
<1> SUFFICES ASSUME ProcInv, ExitStart PROVE ProcInv'
  OBVIOUS
<1>1. stack # <<>> /\ Top.k = "exit" /\ Top.at = "start" /\ ProcTypeOK
  BY DEF ExitStart, Is, ProcInv
<1>2. /\ Top = stack[1] /\ FrameOK(Top) /\ StackInv(Under, state, nxt)
      /\ \A j \in 1..Len(Under) : Above(Top, Under[j])
  BY <1>1, TopOf
<1>3. ProcTypeOK'
  BY <1>1 DEF ProcTypeOK, ExitStart, lists, polls
<1>4. CASE ~OnList(Top.p)
  BY <1>2, <1>3, <1>4 DEF ProcInv, ExitStart, lists
<1>5. CASE OnList(Top.p)
  <2> DEFINE b == [Top EXCEPT !.at = "unlink"]
             n == <<b>> \o Under
             x == [Frame("exitcall", Top.p, "thread") EXCEPT !.ev = "exit"]
  <2>1. FrameOK(b) /\ b.k = "exit" /\ b.at = "unlink" /\ b.p = Top.p /\ b.q = Top.q /\ b \in Frames
    BY <1>1, <1>2 DEF FrameOK, Frames
  <2>2. x \in Frames /\ FrameOK(x) /\ x.k = "exitcall"
    BY <1>1, <1>2 DEF Frame, Frames, FrameOK
  <2>3. Pushed(n, b, Tail(stack)) /\ Pushed(<<x>> \o n, x, n)
    BY DEF Pushed, Under
  <2>4. Under \in Seq(Frames)
    BY <1>2 DEF StackInv
  <2>5. stack' = n \/ (Top.p # Top.q /\ stack' = <<x>> \o n)
    BY <1>5, <2>1, <2>2, <2>4, TwoOnTop DEF ExitStart
  <2> HIDE DEF b, n, x
  <2>6. PollOK(b, state, nxt) /\ PollOK(x, state, nxt)
    BY <2>1, <2>2 DEF PollOK
  <2>7. StackInv(n, state, nxt) /\ n # <<>> /\ n[1] = b /\ Tail(n) = Under
    BY <1>1, <1>2, <2>1, <2>3, <2>6, ReplaceTop DEF ProcInv, Ending, Busy, Leaving, Under
  <2>8. ASSUME Top.p # Top.q PROVE StackInv(<<x>> \o n, state, nxt)
    <3>1. Steady(n)
      <4> SUFFICES ASSUME Len(n) >= 2, n[2].k = "poll" PROVE FALSE
        BY DEF Steady
      <4>1. n[1].p = n[2].p /\ (Busy(n[1]) \/ Leaving(n[1], state))
        <5>1. 2 \in 2..Len(n) /\ 2 - 1 = 1
          BY <2>7 DEF StackInv
        <5> QED
          BY <2>7, <5>1 DEF StackInv
      <4> QED
        BY <2>1, <2>7, <2>8, <4>1 DEF Busy, Leaving
    <3>2. \A j \in 1..Len(n) : Waits(n[j])
      BY <2>1, <2>7, AllWait DEF Waits
    <3>3. Fits(x, n, state, nxt)
      BY <2>1, <2>2, <2>6, <2>7, <3>2 DEF Fits, Above, Waits, Ending
    <3> QED
      BY <2>3, <2>7, <3>1, <3>3, PushKeeps
  <2> QED
    BY <1>3, <2>5, <2>7, <2>8 DEF ProcInv, ExitStart, lists
<1> QED
  BY <1>4, <1>5

(* The process that do_poll() has called is on the list while exit_process()*)
(* takes one from it: it is that one, or in the middle of a call.          *)
LEMMA PolledIsListed ==
  ASSUME ProcInv, Is("exit", "unlink")
  PROVE  \A i \in 1..Len(Under) : Under[i].k = "poll" =>
           /\ Under[i].at = "next" /\ Under[i].p \in Proc /\ state[Under[i].p] # "none"
           /\ i = 1 <=> Under[i].p = Top.p
<1> SUFFICES ASSUME NEW i \in 1..Len(Under), Under[i].k = "poll"
             PROVE  /\ Under[i].at = "next" /\ Under[i].p \in Proc /\ state[Under[i].p] # "none"
                    /\ i = 1 <=> Under[i].p = Top.p
  OBVIOUS
<1>1. stack # <<>> /\ Top.k = "exit" /\ Top.at = "unlink" /\ ProcTypeOK /\ Ending(Top)
  BY DEF Is, ProcInv, Ending
<1>2. /\ Top = stack[1] /\ StackInv(Under, state, nxt)
      /\ \A j \in 1..Len(Under) : Above(Top, Under[j])
  BY <1>1, TopOf
<1>3. /\ Under \in Seq(Frames) /\ Len(Under) = Len(stack) - 1 /\ Len(stack) \in Nat
      /\ \A j \in 1..Len(Under) : Under[j] = stack[j + 1]
      /\ StackInv(stack, state, nxt)
  BY <1>1, TailOf DEF Under, ProcInv, StackInv
<1>4. /\ i + 1 \in 2..Len(stack) /\ Under[i] = stack[i + 1] /\ (i + 1) - 1 = i
      /\ (i + 1 = 2 <=> i = 1)
  BY <1>3
<1>5. stack[i].p = Under[i].p /\ (Busy(stack[i]) \/ (i + 1 = 2 /\ Leaving(stack[1], state)))
  BY <1>3, <1>4 DEF StackInv
<1>6. Under[i].at = "next" /\ Under[i].p \in Proc
  <2>1. FrameOK(Under[i]) /\ Above(Top, Under[i])
    BY <1>2 DEF StackInv
  <2> QED
    BY <2>1 DEF FrameOK, Frames, Above
<1>7. CASE i = 1
  <2>1. Leaving(Top, state)
    BY <1>1, <1>2, <1>5, <1>7 DEF Busy, Ending
  <2> QED
    BY <1>2, <1>5, <1>6, <1>7, <2>1 DEF Leaving
<1>8. CASE i # 1
  <2>1. Busy(stack[i])
    BY <1>4, <1>5, <1>8
  <2>2. i - 1 \in 1..Len(Under) /\ Under[i - 1] = stack[i] /\ i \in 1..Len(stack)
    BY <1>3, <1>8
  <2>3. Above(Top, stack[i])
    BY <1>2, <2>2
  <2>4. stack[i].k = "call" /\ stack[i].p # Top.p
    BY <1>1, <2>1, <2>3 DEF Busy, Above
  <2>5. state[stack[i].p] = "called"
    BY <1>3, <2>2, <2>4 DEF StackInv
  <2> QED
    BY <1>5, <1>6, <1>8, <2>4, <2>5
<1> QED
  BY <1>7, <1>8

(* The process leaves the list.  Its own poll, if it was polled, goes on   *)
(* from where it pointed.                                                  *)
LEMMA ExitUnlinkStep == ProcInv /\ ExitUnlink => ProcInv'
<1> SUFFICES ASSUME ProcInv, ExitUnlink PROVE ProcInv'
  OBVIOUS
<1>1. stack # <<>> /\ Top.k = "exit" /\ Top.at = "unlink" /\ ProcTypeOK /\ Ending(Top)
  BY DEF ExitUnlink, Is, ProcInv, Ending
<1>2. /\ Top = stack[1] /\ FrameOK(Top) /\ StackInv(Under, state, nxt) /\ Steady(Under)
      /\ \A j \in 1..Len(Under) : Above(Top, Under[j])
  BY <1>1, TopOf
<1>3. PICK p \in Proc : p = Top.p
  BY <1>1, <1>2 DEF FrameOK, Frames
<1>4. PICK D \in SUBSET Proc : D = Running(state)
  BY DEF Running
<1>5. Unlinked(D, head, nxt, p, head', nxt')
  BY <1>3, <1>4, Walks DEF ExitUnlink, Unlink, Unlinked
<1>6. /\ IsList(D, head, nxt) /\ nxt \in [Proc -> Proc \cup {Nil}]
      /\ state \in [Proc -> {"none", "running", "called"}]
  BY <1>1, <1>4 DEF ProcInv, ProcTypeOK
<1>7. CASE state[p] = "none"
  <2>1. stack' = Under /\ state' = state /\ owed' = owed
    BY <1>3, <1>7 DEF ExitUnlink
  <2>2. p \notin D
    BY <1>4, <1>7 DEF Running
  <2>3. head # p /\ \A r \in D : nxt[r] # p
    BY <1>3, <1>4, <1>7, Walks, ProcessAssumption DEF Running
  <2>4. head' = head /\ nxt' = nxt
    BY <1>5, <1>6, <2>3 DEF Unlinked
  <2>5. ProcTypeOK'
    BY <1>1, <2>1, <2>4 DEF ProcTypeOK, ExitUnlink
  <2> QED
    BY <1>2, <2>1, <2>4, <2>5 DEF ProcInv
<1>8. CASE state[p] # "none"
  <2> DEFINE b == [Top EXCEPT !.at = "tell", !.q = head']
             n == <<b>> \o Under
  <2>1. /\ state' = [state EXCEPT ![p] = "none"] /\ owed' = [owed EXCEPT ![p] = FALSE]
        /\ stack' = n
    BY <1>3, <1>8 DEF ExitUnlink
  <2>2. p \in D
    BY <1>4, <1>8 DEF Running
  <2>3. /\ IsList(D \ {p}, head', nxt') /\ nxt'[p] \in (D \ {p}) \cup {Nil}
        /\ nxt' \in [Proc -> Proc \cup {Nil}]
    BY <1>5, <1>6, <2>2, UnlinkFrom
  <2>4. Running(state') = D \ {p}
    BY <1>4, <1>6, <2>1 DEF Running
  <2>5. head' \in Proc \cup {Nil}
    BY <1>1, <1>5 DEF ProcTypeOK, Unlinked
  <2>6. ProcTypeOK'
    BY <1>1, <2>1, <2>3, <2>5 DEF ProcTypeOK, ExitUnlink
  <2>7. FrameOK(b) /\ b.k = "exit" /\ b.at = "tell" /\ b.p = p
    BY <1>1, <1>2, <1>3, <2>5 DEF FrameOK, Frames
  <2>8. Pushed(n, b, Under)
    BY DEF Pushed
  <2> HIDE DEF b, n
  <2>9. Under \in Seq(Frames)
    BY <1>2 DEF StackInv
  <2>10. \A i \in 1..Len(Under) : Under[i].k = "call" => Under[i].p # p
    BY <1>1, <1>2, <1>3 DEF Above
  <2>11. \A i \in 1..Len(Under) : Under[i].k = "poll" => (i = 1 => Under[i].p = p)
                                                      /\ (i # 1 => state'[Under[i].p] # "none")
    <3>1. Is("exit", "unlink")
      BY DEF ExitUnlink
    <3> QED
      BY <1>3, <1>6, <2>1, <3>1, PolledIsListed
  <2>12. \A i \in 1..Len(Under) : PollOK(Under[i], state', nxt')
    <3> SUFFICES ASSUME NEW i \in 1..Len(Under), Under[i].k = "poll"
                 PROVE  PollOK(Under[i], state', nxt')
      BY DEF PollOK
    <3>1. Under[i].at = "next"
      BY <1>2 DEF Above
    <3>2. nxt'[p] = Nil \/ state'[nxt'[p]] # "none"
      BY <2>3, <2>4 DEF Running
    <3> QED
      BY <2>11, <3>1, <3>2 DEF PollOK
  <2>13. \A i \in 1..Len(Under) : Under[i].k = "call" => state'[Under[i].p] = "called"
    <3> TAKE i \in 1..Len(Under)
    <3>1. FrameOK(Under[i]) /\ (Under[i].k = "call" => state[Under[i].p] = "called")
      BY <1>2 DEF StackInv
    <3> QED
      BY <1>6, <2>1, <2>10, <3>1 DEF FrameOK, Frames
  <2>14. \A i \in 2..Len(Under) : Under[i].k = "poll" => Busy(Under[i - 1])
    <3> SUFFICES ASSUME NEW i \in 2..Len(Under), Under[i].k = "poll" PROVE Busy(Under[i - 1])
      OBVIOUS
    <3>1. Busy(Under[i - 1]) \/ (i = 2 /\ Ending(Under[1]))
      BY <1>2 DEF StackInv, Leaving
    <3> QED
      BY <1>2, <2>9, <3>1 DEF Steady
  <2>15. StackInv(Under, state', nxt')
    BY <1>2, <2>12, <2>13, <2>14 DEF StackInv
  <2>16. Fits(b, Under, state', nxt')
    <3>1. Under # <<>> => 1 \in 1..Len(Under)
      BY <2>9
    <3>2. \A j \in 1..Len(Under) : Above(b, Under[j])
      BY <1>1, <1>2, <2>7 DEF Above, Ending
    <3>3. Under # <<>> /\ Under[1].k = "poll" => b.p = Under[1].p /\ Busy(b)
      BY <2>7, <2>11, <3>1 DEF Busy
    <3> QED
      BY <2>7, <3>2, <3>3 DEF Fits, PollOK
  <2>17. StackInv(stack', state', nxt')
    BY <1>2, <2>1, <2>8, <2>15, <2>16, PushKeeps
  <2> QED
    BY <2>3, <2>4, <2>6, <2>17 DEF ProcInv
<1> QED
  BY <1>7, <1>8

LEMMA ExitTellStep == ProcInv /\ ExitTell => ProcInv'
<1> SUFFICES ASSUME ProcInv, ExitTell PROVE ProcInv'
  OBVIOUS
<1>1. stack # <<>> /\ Top.k = "exit" /\ Top.at = "tell" /\ ProcTypeOK
  BY DEF ExitTell, Is, ProcInv
<1>2. /\ Top = stack[1] /\ FrameOK(Top) /\ StackInv(Under, state, nxt)
  BY <1>1, TopOf
<1>3. CASE Top.q = Nil
  <2>1. ProcTypeOK'
    BY <1>1, <1>3 DEF ProcTypeOK, ExitTell, lists, polls
  <2> QED
    BY <1>2, <1>3, <2>1 DEF ProcInv, ExitTell, lists
<1>4. CASE Top.q # Nil
  <2> DEFINE b == [Top EXCEPT !.at = "told"]
             n == <<b>> \o Under
  <2>1. FrameOK(b) /\ b.k = "exit" /\ b.at = "told" /\ b.p = Top.p /\ Top.q \in Proc
    BY <1>1, <1>2, <1>4 DEF FrameOK, Frames
  <2>2. Pushed(n, b, Tail(stack)) /\ CallProcess(Top.q, "exited", n)
    BY <1>4 DEF Pushed, Under, ExitTell
  <2> HIDE DEF b, n
  <2>3. StackInv(n, state, nxt) /\ n # <<>> /\ n[1] = b /\ Steady(n)
    <3>1. PollOK(b, state, nxt)
      BY <2>1 DEF PollOK
    <3>2. ~Ending(b) /\ ~Leaving(stack[1], state) /\ Busy(b)
      BY <1>1, <1>2, <2>1 DEF Ending, Leaving, Busy
    <3> QED
      BY <1>1, <1>2, <2>1, <2>2, <3>1, <3>2, ReplaceTop DEF ProcInv
  <2>4. Waits(n[1]) /\ n[1].k # "poll"
    BY <2>1, <2>3 DEF Waits
  <2>5. /\ StackInv(stack', state', nxt) /\ Running(state') = Running(state)
        /\ state' \in [Proc -> {"none", "running", "called"}]
    BY <1>1, <2>1, <2>2, <2>3, <2>4, CallKeeps
  <2>6. ProcTypeOK'
    BY <1>1, <2>5 DEF ProcTypeOK, ExitTell, lists, polls
  <2> QED
    BY <2>5, <2>6 DEF ProcInv, ExitTell, lists
<1> QED
  BY <1>3, <1>4

LEMMA ExitToldStep == ProcInv /\ ExitTold => ProcInv'
<1> SUFFICES ASSUME ProcInv, ExitTold PROVE ProcInv'
  OBVIOUS
<1>1. stack # <<>> /\ Top.k = "exit" /\ Top.at = "told" /\ ProcTypeOK
  BY DEF ExitTold, Is, ProcInv
<1>2. Top = stack[1] /\ FrameOK(Top)
  BY <1>1, TopOf
<1> DEFINE b == [Top EXCEPT !.q = nxt[Top.q], !.at = "tell"]
           n == <<b>> \o Under
<1>3. nxt[Top.q] \in Proc \cup {Nil}
  BY <1>1, <1>2 DEF FrameOK, Frames, ProcTypeOK
<1>4. FrameOK(b) /\ b.k = "exit" /\ b.at = "tell" /\ b.p = Top.p
  BY <1>1, <1>2, <1>3 DEF FrameOK, Frames
<1>5. Pushed(n, b, Tail(stack)) /\ stack' = n
  BY DEF Pushed, Under, ExitTold
<1> HIDE DEF b, n
<1>6. PollOK(b, state, nxt) /\ ~Ending(b) /\ ~Leaving(stack[1], state) /\ Busy(b)
  BY <1>1, <1>2, <1>4 DEF PollOK, Ending, Leaving, Busy
<1>7. StackInv(n, state, nxt)
  BY <1>1, <1>2, <1>4, <1>5, <1>6, ReplaceTop DEF ProcInv
<1>8. ProcTypeOK'
  BY <1>1 DEF ProcTypeOK, ExitTold, lists, polls
<1> QED
  BY <1>5, <1>7, <1>8 DEF ProcInv, ExitTold, lists

-----------------------------------------------------------------------------
(* What threads do, and their return. *)
LEMMA InThreadIs ==
  ASSUME ProcInv, InThread
  PROVE  /\ stack # <<>> /\ Top = stack[1] /\ Top.k \in {"call", "exitcall"} /\ Top.p \in Proc
         /\ StackInv(stack, state, nxt) /\ Steady(stack) /\ ProcTypeOK
         /\ \A j \in 1..Len(stack) : Waits(stack[j])
<1>1. stack # <<>> /\ Top.k \in {"call", "exitcall"}
  BY DEF InThread, Is
<1>2. Top = stack[1] /\ Top.p \in Proc
  BY <1>1, TopOf DEF FrameOK, Frames
<1>3. StackInv(stack, state, nxt) /\ ProcTypeOK
  BY DEF ProcInv
<1>4. Steady(stack) /\ Waits(stack[1])
  BY <1>1, <1>2 DEF Steady, Ending, Waits
<1> QED
  BY <1>1, <1>2, <1>3, <1>4, AllWait

LEMMA PostStep == ASSUME NEW to \in Proc \cup {Nil} PROVE ProcInv /\ Post(to) => ProcInv'
<1> SUFFICES ASSUME ProcInv, Post(to) PROVE ProcInv'
  OBVIOUS
<1>1. ProcTypeOK /\ ops' = ops + 1 /\ ops < MaxOps /\ ops \in Nat /\ MaxOps \in Nat /\ NumEvents \in Nat
  BY ProcessAssumption DEF ProcInv, ProcTypeOK, Post, Act
<1>2. events \in Seq(Proc \cup {Nil}) /\ Len(events) <= NumEvents
  BY <1>1 DEF ProcTypeOK
<1>3. events' \in Seq(Proc \cup {Nil}) /\ Len(events') <= NumEvents
  BY <1>1, <1>2 DEF Post, Room
<1>4. ProcTypeOK'
  BY <1>1, <1>3 DEF ProcTypeOK, Post, lists, polls
<1> QED
  BY <1>4, SameStack DEF Post, lists

LEMMA PostSynchStep == ASSUME NEW q \in Proc PROVE ProcInv /\ PostSynch(q) => ProcInv'
<1> SUFFICES ASSUME ProcInv, PostSynch(q) PROVE ProcInv'
  OBVIOUS
<1>1. InThread /\ ops' = ops + 1 /\ ops < MaxOps /\ CallProcess(q, "event", stack)
  BY DEF PostSynch, Act
<1>2. /\ StackInv(stack, state, nxt) /\ Steady(stack) /\ ProcTypeOK
      /\ Waits(stack[1]) /\ stack[1].k # "poll"
  BY <1>1, InThreadIs DEF Waits
<1>3. /\ StackInv(stack', state', nxt) /\ Running(state') = Running(state)
      /\ state' \in [Proc -> {"none", "running", "called"}]
  BY <1>1, <1>2, CallKeeps
<1>4. ProcTypeOK'
  BY <1>1, <1>2, <1>3, ProcessAssumption DEF ProcTypeOK, PostSynch, lists, polls
<1> QED
  BY <1>3, <1>4 DEF ProcInv, PostSynch, lists

(* The frame of exit_process(), above s, when nobody is told of an end.    *)
LEMMA ExitFits ==
  ASSUME NEW s, NEW st, NEW nx, \A j \in 1..Len(s) : Waits(s[j]),
         \A j \in 1..Len(s) : ~(s[j].k = "exit" /\ s[j].at = "told"),
         NEW p \in Proc, \A j \in 1..Len(s) : s[j].k = "call" => s[j].p # p,
         NEW from \in Proc, s # <<>> /\ s[1].k = "poll" => from = p /\ s[1].p = p /\ st[p] # "none"
  PROVE  Fits(Exit(p, from), s, st, nx)
<1> DEFINE a == Exit(p, from)
<1>1. a \in Frames /\ a.k = "exit" /\ a.at = "start" /\ a.p = p /\ a.q = from
  BY DEF Exit, Frame, Frames
<1> HIDE DEF a
<1>2. FrameOK(a) /\ PollOK(a, st, nx)
  BY <1>1, ProcessAssumption DEF FrameOK, PollOK
<1>3. \A j \in 1..Len(s) : Above(a, s[j])
  BY <1>1 DEF Above, Waits
<1>4. s # <<>> /\ s[1].k = "poll" => a.p = s[1].p /\ Leaving(a, st)
  BY <1>1 DEF Leaving, Ending
<1> QED
  BY <1>1, <1>2, <1>3, <1>4 DEF Fits, a

LEMMA ProcessExitStep ==
  ASSUME NEW q \in Proc PROVE ProcInv /\ ~Telling /\ state[q] # "called" /\ ProcessExit(q) => ProcInv'
<1> SUFFICES ASSUME ProcInv, ~Telling, state[q] # "called", ProcessExit(q) PROVE ProcInv'
  OBVIOUS
<1>1. InThread /\ ops' = ops + 1 /\ ops < MaxOps /\ stack' = <<Exit(q, Top.p)>> \o stack
  BY DEF ProcessExit, Act
<1>2. /\ StackInv(stack, state, nxt) /\ Steady(stack) /\ ProcTypeOK /\ Top.p \in Proc
      /\ stack[1].k # "poll" /\ \A j \in 1..Len(stack) : Waits(stack[j])
  BY <1>1, InThreadIs
<1>3. \A j \in 1..Len(stack) : ~(stack[j].k = "exit" /\ stack[j].at = "told")
  BY DEF Telling
<1>4. \A j \in 1..Len(stack) : stack[j].k = "call" => stack[j].p # q
  BY <1>2 DEF StackInv
<1>5. PICK a : a = Exit(q, Top.p)
  OBVIOUS
<1>6. Fits(a, stack, state, nxt)
  BY <1>2, <1>3, <1>4, <1>5, ExitFits
<1>7. Pushed(stack', a, stack)
  BY <1>1, <1>5 DEF Pushed
<1>8. StackInv(stack', state, nxt)
  BY <1>2, <1>6, <1>7, PushKeeps
<1>9. ProcTypeOK'
  BY <1>1, <1>2, ProcessAssumption DEF ProcTypeOK, ProcessExit, lists, polls
<1> QED
  BY <1>8, <1>9 DEF ProcInv, ProcessExit, lists

LEMMA ProcessStartStep == ASSUME NEW q \in Proc PROVE ProcInv /\ ProcessStart(q) => ProcInv'
<1> SUFFICES ASSUME ProcInv, ProcessStart(q) PROVE ProcInv'
  OBVIOUS
<1>1. InThread /\ ops' = ops + 1 /\ ops < MaxOps
  BY DEF ProcessStart, Act
<1>2. /\ stack # <<>> /\ StackInv(stack, state, nxt) /\ Steady(stack) /\ ProcTypeOK
      /\ stack[1].k # "poll" /\ \A j \in 1..Len(stack) : Waits(stack[j])
  BY <1>1, InThreadIs
<1>3. CASE ~Startable(q)
  <2>1. ProcTypeOK'
    BY <1>1, <1>2, <1>3, ProcessAssumption DEF ProcTypeOK, ProcessStart, lists, polls
  <2> QED
    BY <1>3, <2>1, SameStack DEF ProcessStart, lists
<1>4. CASE Startable(q)
  <2>1. /\ nxt' = [nxt EXCEPT ![q] = head] /\ head' = q
        /\ state' = [state EXCEPT ![q] = "called"]
        /\ stack' = <<[Frame("call", q, "thread") EXCEPT !.ev = "init"]>> \o stack
    BY <1>4 DEF ProcessStart
  <2>2. state[q] = "none"
    BY <1>4, Walks DEF Startable
  <2>3. /\ state \in [Proc -> {"none", "running", "called"}]
        /\ nxt \in [Proc -> Proc \cup {Nil}] /\ head \in Proc \cup {Nil}
    BY <1>2 DEF ProcTypeOK
  <2>4. PICK D \in SUBSET Proc : D = Running(state)
    BY DEF Running
  <2>5. IsList(D, head, nxt) /\ q \in Proc \ D
    BY <2>2, <2>4 DEF ProcInv, Running
  <2>6. IsList(D \cup {q}, head', nxt')
    BY <2>1, <2>3, <2>5, LinkIn
  <2>7. Running(state') = D \cup {q}
    BY <2>1, <2>3, <2>4 DEF Running
  <2>8. \A j \in 1..Len(stack) : stack[j].k = "call" => stack[j].p # q
    BY <1>2, <2>2 DEF StackInv
  <2>9. \A r \in Proc : nxt'[r] = nxt[r] \/ r = q
    BY <2>1, <2>3
  <2>10. StackInv(stack', state', nxt')
    BY <1>2, <2>1, <2>3, <2>8, <2>9, PushCall
  <2>11. ProcTypeOK'
    BY <1>1, <1>2, <2>1, <2>3, ProcessAssumption DEF ProcTypeOK, ProcessStart, polls
  <2> QED
    BY <2>6, <2>7, <2>10, <2>11 DEF ProcInv
<1> QED
  BY <1>3, <1>4

LEMMA ReturnStep == ProcInv /\ Return => ProcInv'
<1> SUFFICES ASSUME ProcInv, Return PROVE ProcInv'
  OBVIOUS
<1>1. stack # <<>> /\ Top.k = "call" /\ ProcTypeOK
  BY DEF Return, Is, ProcInv
<1>2. /\ Top.p \in Proc /\ state[Top.p] = "called" /\ StackInv(Under, state, nxt)
      /\ \A j \in 1..Len(Under) : Above(Top, Under[j])
  BY <1>1, TopOf DEF FrameOK, Frames
<1>3. stack' = Under /\ state' = [state EXCEPT ![Top.p] = "running"]
  BY DEF Return
<1>4. /\ state \in [Proc -> {"none", "running", "called"}]
      /\ nxt \in [Proc -> Proc \cup {Nil}]
  BY <1>1 DEF ProcTypeOK
<1>5. \A j \in 1..Len(Under) : Under[j].k = "call" => state'[Under[j].p] = "called"
  <2> SUFFICES ASSUME NEW j \in 1..Len(Under), Under[j].k = "call"
               PROVE  state'[Under[j].p] = "called"
    OBVIOUS
  <2>1. FrameOK(Under[j]) /\ state[Under[j].p] = "called" /\ Above(Top, Under[j])
    BY <1>2 DEF StackInv
  <2> QED
    BY <1>1, <1>3, <1>4, <2>1 DEF FrameOK, Frames, Above
<1>6. \A p \in Proc : state[p] # "none" => state'[p] # "none"
  BY <1>2, <1>3, <1>4
<1>7. StackInv(Under, state', nxt)
  BY <1>2, <1>4, <1>5, <1>6, StateKeeps
<1>8. Running(state') = Running(state)
  BY <1>2, <1>3, <1>4 DEF Running
<1>9. ProcTypeOK'
  BY <1>1, <1>2, <1>3, <1>4 DEF ProcTypeOK, Return, lists, polls
<1> QED
  BY <1>3, <1>7, <1>8, <1>9 DEF ProcInv, Return, lists

LEMMA EndStep == ProcInv /\ ~Telling /\ End => ProcInv'
<1> SUFFICES ASSUME ProcInv, ~Telling, End PROVE ProcInv'
  OBVIOUS
<1>1. /\ stack # <<>> /\ Top.k = "call" /\ ProcTypeOK /\ InThread
      /\ ops' = ops + 1 /\ ops < MaxOps
  BY DEF End, Is, ProcInv, InThread
<1>2. /\ Top.p \in Proc /\ state[Top.p] = "called" /\ StackInv(Under, state, nxt) /\ Steady(Under)
      /\ Top = stack[1] /\ \A j \in 1..Len(Under) : Above(Top, Under[j])
  BY <1>1, TopOf DEF FrameOK, Frames
<1>3. /\ Under \in Seq(Frames) /\ Len(Under) = Len(stack) - 1 /\ Len(stack) \in Nat
      /\ \A i \in 1..Len(Under) : Under[i] = stack[i + 1]
      /\ StackInv(stack, state, nxt)
  BY <1>1, TailOf DEF Under, ProcInv, StackInv
<1>4. \A j \in 1..Len(Under) : Waits(Under[j]) /\ ~(Under[j].k = "exit" /\ Under[j].at = "told")
  <2> TAKE j \in 1..Len(Under)
  <2>1. j + 1 \in 1..Len(stack)
    BY <1>3
  <2> QED
    BY <1>1, <1>3, <2>1, InThreadIs DEF Telling
<1>5. \A j \in 1..Len(Under) : Under[j].k = "call" => Under[j].p # Top.p
  BY <1>1, <1>2 DEF Above
<1>6. Under # <<>> /\ Under[1].k = "poll" => Under[1].p = Top.p
  <2> SUFFICES ASSUME Under # <<>>, Under[1].k = "poll" PROVE Under[1].p = Top.p
    OBVIOUS
  <2>1. 1 \in 1..Len(Under) /\ 2 \in 2..Len(stack) /\ 2 - 1 = 1 /\ Under[1] = stack[2]
    BY <1>3
  <2> QED
    BY <1>2, <1>3, <2>1 DEF StackInv
<1>7. PICK a : a = Exit(Top.p, Top.p)
  OBVIOUS
<1>8. Fits(a, Under, state, nxt)
  BY <1>2, <1>4, <1>5, <1>6, <1>7, ExitFits
<1>9. Pushed(stack', a, Under)
  BY <1>7 DEF End, Pushed
<1>10. StackInv(stack', state, nxt)
  BY <1>2, <1>8, <1>9, PushKeeps
<1>11. ProcTypeOK'
  BY <1>1, ProcessAssumption DEF ProcTypeOK, End, lists, polls
<1> QED
  BY <1>10, <1>11 DEF ProcInv, End, lists

LEMMA ExitReturnStep == ProcInv /\ ExitReturn => ProcInv'
<1> SUFFICES ASSUME ProcInv, ExitReturn PROVE ProcInv'
  OBVIOUS
<1>1. StackInv(Under, state, nxt)
  BY TopOf DEF ExitReturn, Is
<1>2. ProcTypeOK'
  BY DEF ProcInv, ProcTypeOK, ExitReturn, lists, polls
<1> QED
  BY <1>1, <1>2 DEF ProcInv, ExitReturn, lists

LEMMA PollRequestStep == ASSUME NEW p \in Proc PROVE ProcInv /\ Poll(p) => ProcInv'
<1> SUFFICES ASSUME ProcInv, Poll(p) PROVE ProcInv'
  OBVIOUS
<1>1. ProcTypeOK'
  BY DEF ProcInv, ProcTypeOK, Poll, lists
<1> QED
  BY <1>1, SameStack DEF Poll, lists

-----------------------------------------------------------------------------
LEMMA ProcStart == ProcInit => ProcInv
<1> SUFFICES ASSUME ProcInit PROVE ProcInv
  OBVIOUS
<1> DEFINE l == AutoStart
           k == Len(AutoStart)
<1>1. /\ l \in Seq(Proc) /\ k \in Nat /\ \A i \in 1..k : l[i] \in Proc
      /\ \A i, j \in 1..k : l[i] = l[j] => i = j
  BY ProcessAssumption
<1>2. \A i \in 1..k - 1 : nxt[l[i]] = l[i + 1]
  <2> TAKE i \in 1..k - 1
  <2>1. i \in 1..k /\ l[i] \in Proc
    BY <1>1
  <2>2. \A j \in 1..k - 1 : l[j] = l[i] => j = i
    BY <1>1, <2>1
  <2>3. i = CHOOSE j \in 1..k - 1 : l[j] = l[i]
    BY <2>2
  <2>4. nxt[l[i]] = l[1 + i]
    BY <2>1, <2>3 DEF ProcInit
  <2> QED
    BY <1>1, <2>4
<1>3. \A p \in Proc : (\A i \in 1..k - 1 : l[i] # p) => nxt[p] = Nil
  BY DEF ProcInit
<1>4. nxt \in [Proc -> Proc \cup {Nil}] /\ \A p \in Proc : nxt[p] \in Proc \cup {Nil}
  <2>1. nxt = [p \in Proc |-> nxt[p]]
    BY DEF ProcInit
  <2>2. \A p \in Proc : nxt[p] \in Proc \cup {Nil}
    <3> TAKE p \in Proc
    <3>1. ASSUME NEW i \in 1..k - 1, l[i] = p PROVE nxt[p] \in Proc
      <4>1. i + 1 \in 1..k
        BY <1>1
      <4> QED
        BY <1>1, <1>2, <3>1, <4>1
    <3> QED
      BY <1>3, <3>1
  <2> QED
    BY <2>1, <2>2
<1>5. head = (IF k = 0 THEN Nil ELSE l[1]) /\ head \in Proc \cup {Nil}
  BY <1>1, ProcessAssumption DEF ProcInit
<1>6. PICK D \in SUBSET Proc : D = Running(state)
  BY DEF Running
<1>7. D = {l[i] : i \in 1..k}
  BY <1>1, <1>6 DEF Running, ProcInit
<1>8. ProcTypeOK
  <2>1. events = <<>> /\ events \in Seq(Proc \cup {Nil}) /\ Len(events) = 0
    BY DEF ProcInit
  <2>2. NumEvents \in Nat /\ MaxOps \in Nat
    BY ProcessAssumption
  <2>3. /\ state \in [Proc -> {"none", "running", "called"}] /\ needspoll \in [Proc -> BOOLEAN]
        /\ pollreq \in BOOLEAN /\ owed \in [Proc -> BOOLEAN] /\ stage \in {"poll", "event"} /\ ops = 0
    BY DEF ProcInit
  <2> QED
    BY <1>4, <1>5, <2>1, <2>2, <2>3 DEF ProcTypeOK
<1>9. StackInv(stack, state, nxt)
  BY EmptyStack DEF ProcInit
<1>10. CASE k = 0
  <2>1. D = {} /\ head = Nil
    BY <1>5, <1>7, <1>10
  <2> QED
    BY <1>6, <1>8, <1>9, <2>1 DEF ProcInv, IsList
<1>11. CASE k # 0
  <2> DEFINE rank(p) == IF p \in D THEN CHOOSE i \in 1..k : l[i] = p ELSE 0
             ranks == [p \in Proc |-> rank(p)]
  <2>1. \A i \in 1..k : rank(l[i]) = i /\ l[i] \in D
    <3> TAKE i \in 1..k
    <3>1. l[i] \in D
      BY <1>7
    <3>2. \A j \in 1..k : l[j] = l[i] => j = i
      BY <1>1
    <3> QED
      BY <3>1, <3>2
  <2>2. ranks \in [Proc -> Int]
    <3>1. \A p \in D : rank(p) \in Int
      <4> TAKE p \in D
      <4>1. PICK i \in 1..k : l[i] = p
        BY <1>7
      <4> HIDE DEF rank
      <4> QED
        BY <2>1, <4>1
    <3>2. \A p \in Proc \ D : rank(p) \in Int
      OBVIOUS
    <3> HIDE DEF rank
    <3> QED
      BY <3>1, <3>2
  <2>3. PICK rk \in [Proc -> Int] : rk = ranks
    BY <2>2
  <2>4. \A i \in 1..k : rk[l[i]] = i /\ l[i] \in D
    BY <1>1, <2>1, <2>3
  <2> HIDE DEF l, k, rank, ranks
  <2>5. head = l[1] /\ 1 \in 1..k /\ k \in 1..k
    BY <1>1, <1>5, <1>11
  <2>6. nxt[l[k]] = Nil
    <3>1. \A i \in 1..k - 1 : l[i] # l[k]
      BY <1>1, <2>5
    <3> QED
      BY <1>1, <1>3, <2>5, <3>1
  <2>7. ASSUME NEW r \in D
        PROVE  /\ nxt[r] \in D \cup {Nil}
               /\ nxt[r] # Nil => rk[r] < rk[nxt[r]]
               /\ r # head => \E s \in D : nxt[s] = r
               /\ rk[head] <= rk[r]
    <3>1. PICK i \in 1..k : l[i] = r
      BY <1>7
    <3>2. rk[r] = i /\ rk[head] = 1
      BY <2>4, <2>5, <3>1
    <3>3. nxt[r] \in D \cup {Nil} /\ (nxt[r] # Nil => rk[r] < rk[nxt[r]])
      <4>1. CASE i = k
        BY <2>6, <3>1, <4>1
      <4>2. CASE i # k
        <5>1. i \in 1..k - 1 /\ i + 1 \in 1..k /\ i < i + 1
          BY <1>1, <4>2
        <5>2. nxt[r] = l[i + 1] /\ l[i + 1] \in D /\ rk[l[i + 1]] = i + 1
          BY <1>2, <2>4, <3>1, <5>1
        <5> QED
          BY <3>2, <5>1, <5>2
      <4> QED
        BY <4>1, <4>2
    <3>4. ASSUME r # head PROVE \E s \in D : nxt[s] = r
      <4>1. i - 1 \in 1..k - 1 /\ i - 1 \in 1..k /\ (i - 1) + 1 = i
        BY <1>1, <2>5, <3>1, <3>4
      <4>2. nxt[l[i - 1]] = l[(i - 1) + 1] /\ l[i - 1] \in D
        BY <1>2, <2>4, <4>1
      <4> QED
        BY <3>1, <4>1, <4>2
    <3> QED
      BY <3>2, <3>3, <3>4
  <2>8. Linked(D, head, nxt, rk, l[k])
    BY <2>4, <2>5, <2>6, <2>7 DEF Linked
  <2>9. l[k] \in Proc
    BY <1>1, <2>5
  <2>10. IsList(D, head, nxt)
    BY <2>8, <2>9 DEF IsList
  <2> QED
    BY <1>6, <1>8, <1>9, <2>10 DEF ProcInv
<1> QED
  BY <1>10, <1>11

LEMMA ProcStep == ProcInv /\ [ProcNext]_procvars => ProcInv'
<1> SUFFICES ASSUME ProcInv, [ProcNext]_procvars PROVE ProcInv'
  OBVIOUS
<1>1. CASE Step
  BY <1>1, RunPollStep, RunEventStep, PollVisitStep, BcastVisitStep, BcastCallStep, AdvanceStep,
     ExitStartStep, ExitUnlinkStep, ExitTellStep, ExitToldStep, ReturnStep, ExitReturnStep DEF Step
<1>2. CASE ~Telling /\ (End \/ \E p \in Proc : state[p] # "called" /\ ProcessExit(p))
  BY <1>2, EndStep, ProcessExitStep
<1>3. CASE \E p \in Proc : Poll(p) \/ PostSynch(p) \/ ProcessStart(p)
  BY <1>3, PollRequestStep, PostSynchStep, ProcessStartStep
<1>4. CASE \E p \in Proc \cup {Nil} : Post(p)
  BY <1>4, PostStep
<1>5. CASE UNCHANGED procvars
  <2>1. ProcTypeOK'
    BY <1>5 DEF ProcInv, ProcTypeOK, procvars
  <2> QED
    BY <1>5, <2>1, SameStack DEF procvars
<1> QED
  BY <1>1, <1>2, <1>3, <1>4, <1>5 DEF ProcNext

(* The process list holds exactly the processes that run, and it ends: no  *)
(* nesting of synchronous events, broadcasts, starts and ends of processes *)
(* lets do_poll(), whose pointer stays on a process while that process     *)
(* ends and is taken from the list, come to one that no longer runs, mark  *)
(* it as called, and so have it run without being on the list.             *)
THEOREM ListHoldsRunning == ProcSpec => []ListedRun
<1>1. ProcInv => ListedRun
  BY Walks DEF ListedRun, ProcInv
<1> QED
  BY <1>1, ProcStart, ProcStep, PTL DEF ProcSpec

-----------------------------------------------------------------------------
(* The walks of do_poll() in progress, and the processes before them. *)
Walking(s) == {s[i] : i \in {j \in 1..Len(s) : s[j].k = "poll"}}
Ahead(f) == Reach(IF f.at = "visit" THEN f.p ELSE nxt[f.p])

(* No poll is forgotten: as long as one is owed to a process, the process  *)
(* is on the list and marked, and do_poll() will be called or is on its    *)
(* way to it.                                                              *)
PollKept ==
  \A p \in Proc : owed[p] =>
    state[p] # "none" /\ needspoll[p] /\ (pollreq \/ \E f \in Walking(stack) : p \in Ahead(f))

LEMMA AheadIs ==
  \A f : Ahead(f) = After(nxt, IF f.at = "visit" THEN f.p ELSE nxt[f.p])
BY DEF Ahead, Reach, Closed, After

LEMMA AfterNext ==
  ASSUME NEW nx \in [Proc -> Proc \cup {Nil}], NEW x \in Proc, NEW q \in After(nx, x), q # x
  PROVE  q \in After(nx, nx[x])
<1>1. nx[x] # Nil
  <2> SUFFICES ASSUME nx[x] = Nil PROVE FALSE
    OBVIOUS
  <2>1. {x} \in SUBSET Proc /\ x \in {x} /\ \A r \in {x} : nx[r] # Nil => nx[r] \in {x}
    OBVIOUS
  <2> QED
    BY <2>1 DEF After
<1>2. ASSUME NEW S \in SUBSET Proc, nx[x] \in S, \A r \in S : nx[r] # Nil => nx[r] \in S
      PROVE  q \in S
  <2>1. /\ S \cup {x} \in SUBSET Proc /\ x \in S \cup {x}
        /\ \A r \in S \cup {x} : nx[r] # Nil => nx[r] \in S \cup {x}
    BY <1>2
  <2>2. q \in S \cup {x}
    BY <2>1 DEF After
  <2> QED
    BY <2>2
<1> QED
  BY <1>1, <1>2 DEF After

(* A process that joins the list leaves the walks as they are. *)
LEMMA AfterLink ==
  ASSUME NEW D \in SUBSET Proc, NEW h, NEW nx \in [Proc -> Proc \cup {Nil}], IsList(D, h, nx),
         NEW p \in Proc \ D, NEW m, m = [nx EXCEPT ![p] = h],
         NEW y \in D, NEW q \in After(nx, y)
  PROVE  q \in After(m, y)
<1>1. \A r \in D : nx[r] \in D \cup {Nil} /\ m[r] = nx[r]
  BY DEF IsList, Linked
<1>2. ASSUME NEW S \in SUBSET Proc, y \in S, \A r \in S : m[r] # Nil => m[r] \in S
      PROVE  q \in S
  <2>1. /\ S \cap D \in SUBSET Proc /\ y \in S \cap D
        /\ \A r \in S \cap D : nx[r] # Nil => nx[r] \in S \cap D
    BY <1>1, <1>2
  <2>2. q \in S \cap D
    BY <2>1 DEF After
  <2> QED
    BY <2>2
<1>3. q \in Proc /\ y # Nil
  BY DEF After
<1> QED
  BY <1>2, <1>3 DEF After

(* A process that leaves the list is left out by the walks. *)
LEMMA AfterUnlink ==
  ASSUME NEW D \in SUBSET Proc, NEW h, NEW nx \in [Proc -> Proc \cup {Nil}], IsList(D, h, nx),
         NEW p \in D, NEW g, NEW m, Unlinked(D, h, nx, p, g, m),
         NEW y \in D, y # p, NEW q \in After(nx, y), q # p
  PROVE  q \in After(m, y)
<1>1. \A r \in D : /\ nx[r] \in D \cup {Nil}
                   /\ m[r] = IF h # p /\ nx[r] = p THEN nx[p] ELSE nx[r]
  BY DEF IsList, Linked, Unlinked
<1>2. ASSUME NEW S \in SUBSET Proc, y \in S, \A r \in S : m[r] # Nil => m[r] \in S
      PROVE  q \in S
  <2>1. CASE \E r \in S \cap D : m[r] # nx[r]
    <3>1. PICK t \in S \cap D : m[t] # nx[t]
      BY <2>1
    <3>2. nx[p] # Nil => nx[p] \in S
      BY <1>1, <1>2, <3>1
    <3> DEFINE T == (S \cap D) \cup {p}
    <3>3. \A r \in T : nx[r] # Nil => nx[r] \in T
      <4> SUFFICES ASSUME NEW r \in T, nx[r] # Nil PROVE nx[r] \in T
        OBVIOUS
      <4>1. CASE r = p
        BY <1>1, <3>2, <4>1
      <4>2. CASE r # p
        BY <1>1, <1>2, <4>2
      <4> QED
        BY <4>1, <4>2
    <3>4. T \in SUBSET Proc /\ y \in T
      BY <1>2
    <3> HIDE DEF T
    <3>5. q \in T
      BY <3>3, <3>4 DEF After
    <3> QED
      BY <3>5 DEF T
  <2>2. CASE \A r \in S \cap D : m[r] = nx[r]
    <3>1. /\ S \cap D \in SUBSET Proc /\ y \in S \cap D
          /\ \A r \in S \cap D : nx[r] # Nil => nx[r] \in S \cap D
      BY <1>1, <1>2, <2>2
    <3>2. q \in S \cap D
      BY <3>1 DEF After
    <3> QED
      BY <3>2
  <2> QED
    BY <2>1, <2>2
<1>3. q \in Proc /\ y # Nil
  BY DEF After
<1> QED
  BY <1>2, <1>3 DEF After

(* The walk that points to r goes on after p has left the list. *)
LEMMA PointsAfter ==
  ASSUME NEW D \in SUBSET Proc, NEW h, NEW nx \in [Proc -> Proc \cup {Nil}], IsList(D, h, nx),
         NEW p \in D, NEW g, NEW m, Unlinked(D, h, nx, p, g, m),
         NEW r \in D, NEW q \in After(nx, nx[r]), q # p
  PROVE  q \in After(m, m[r])
<1>1. PICK rk \in [Proc -> Int], e \in Proc : Linked(D, h, nx, rk, e)
  BY DEF IsList
<1>2. nx[r] # Nil /\ nx[r] \in D /\ \A t \in D : nx[t] # t
  <2>1. nx[r] # Nil
    BY DEF After
  <2>2. \A t \in D : nx[t] # t
    <3> TAKE t \in D
    <3>1. rk[t] \in Int /\ t # Nil /\ (nx[t] # Nil => rk[t] < rk[nx[t]])
      BY <1>1, ProcessAssumption DEF Linked
    <3> QED
      BY <3>1
  <2> QED
    BY <1>1, <2>1, <2>2 DEF Linked
<1>3. nx[r] = p => h # p
  <2> SUFFICES ASSUME nx[r] = p, h = p PROVE FALSE
    OBVIOUS
  <2>1. rk[r] < rk[p] /\ rk[p] <= rk[r] /\ rk[r] \in Int /\ rk[p] \in Int
    BY <1>1, <1>2 DEF Linked
  <2> QED
    BY <2>1
<1>4. m[r] = IF nx[r] = p THEN nx[p] ELSE nx[r]
  BY <1>3 DEF Unlinked
<1>5. CASE nx[r] # p
  BY <1>2, <1>4, <1>5, AfterUnlink
<1>6. CASE nx[r] = p
  <2>1. q \in After(nx, nx[p])
    BY <1>6, AfterNext
  <2>2. nx[p] \in D /\ nx[p] # p
    BY <1>1, <1>2, <2>1 DEF Linked, After
  <2> QED
    BY <1>4, <1>6, <2>1, <2>2, AfterUnlink
<1> QED
  BY <1>5, <1>6

-----------------------------------------------------------------------------
LEMMA WalkPush ==
  ASSUME NEW s \in Seq(Frames), NEW a \in Frames, NEW n, Pushed(n, a, s)
  PROVE  /\ n \in Seq(Frames) /\ Walking(s) \subseteq Walking(n)
         /\ a.k = "poll" => a \in Walking(n)
<1>1. /\ n \in Seq(Frames) /\ Len(n) = Len(s) + 1 /\ n[1] = a /\ Len(s) \in Nat
      /\ \A i \in 2..Len(n) : n[i] = s[i - 1]
  BY ConsOf DEF Pushed
<1>2. ASSUME NEW i \in 1..Len(s), s[i].k = "poll" PROVE s[i] \in Walking(n)
  <2>1. i + 1 \in 1..Len(n) /\ n[i + 1] = s[i]
    BY <1>1
  <2> QED
    BY <1>2, <2>1 DEF Walking
<1>3. a.k = "poll" => a \in Walking(n)
  <2>1. 1 \in 1..Len(n)
    BY <1>1
  <2> QED
    BY <1>1, <2>1 DEF Walking
<1> QED
  BY <1>1, <1>2, <1>3 DEF Walking

LEMMA WalkPop ==
  ASSUME NEW s \in Seq(Frames), s # <<>>, NEW f \in Walking(s)
  PROVE  f \in Walking(Tail(s)) \/ (f = s[1] /\ s[1].k = "poll")
<1>1. PICK i \in 1..Len(s) : f = s[i] /\ s[i].k = "poll"
  BY DEF Walking
<1>2. CASE i = 1
  BY <1>1, <1>2
<1>3. CASE i # 1
  <2>1. i - 1 \in 1..Len(Tail(s)) /\ Tail(s)[i - 1] = s[i]
    <3>1. Len(Tail(s)) = Len(s) - 1 /\ \A j \in 1..Len(s) - 1 : Tail(s)[j] = s[j + 1]
      BY TailOf
    <3>2. i - 1 \in 1..Len(s) - 1 /\ (i - 1) + 1 = i
      BY <1>3
    <3> QED
      BY <3>1, <3>2
  <2> QED
    BY <1>1, <2>1 DEF Walking
<1> QED
  BY <1>2, <1>3

(* A walk goes on when the function on top, if it is not the walk, is      *)
(* replaced by another, and when anything is called.                       *)
LEMMA WalkReplace ==
  ASSUME NEW s \in Seq(Frames), s # <<>>, s[1].k # "poll", NEW b \in Frames, NEW n, Pushed(n, b, Tail(s))
  PROVE  n \in Seq(Frames) /\ Walking(s) \subseteq Walking(n) /\ Walking(s) \subseteq Walking(Tail(s))
<1>1. Walking(s) \subseteq Walking(Tail(s)) /\ Tail(s) \in Seq(Frames)
  BY WalkPop, TailOf
<1>2. n \in Seq(Frames) /\ Walking(Tail(s)) \subseteq Walking(n)
  BY <1>1, WalkPush
<1> QED
  BY <1>1, <1>2

LEMMA WalkCall ==
  ASSUME ProcTypeOK, NEW s \in Seq(Frames), NEW p \in Proc, NEW ev \in {"event", "exited"},
         CallProcess(p, ev, s)
  PROVE  /\ Walking(s) \subseteq Walking(stack')
         /\ \A r \in Proc : state[r] # "none" => state'[r] # "none"
<1> DEFINE a == [Frame("call", p, "thread") EXCEPT !.ev = ev]
<1>1. a \in Frames
  BY DEF Frame, Frames
<1>2. CASE Callable(p)
  <2>1. Pushed(stack', a, s) /\ state' = [state EXCEPT ![p] = "called"]
    BY <1>2 DEF CallProcess, Pushed
  <2> HIDE DEF a
  <2>2. Walking(s) \subseteq Walking(stack')
    BY <1>1, <2>1, WalkPush
  <2> QED
    BY <2>1, <2>2 DEF ProcTypeOK
<1>3. CASE ~Callable(p)
  BY <1>3 DEF CallProcess
<1> QED
  BY <1>2, <1>3

(* A step that neither polls nor changes the list. *)
LEMMA KeptSame ==
  ASSUME PollKept, nxt' = nxt, owed' = owed, needspoll' = needspoll, pollreq' = pollreq,
         Walking(stack) \subseteq Walking(stack'),
         \A p \in Proc : state[p] # "none" => state'[p] # "none"
  PROVE  PollKept'
<1> SUFFICES ASSUME NEW p \in Proc, owed[p]
             PROVE  /\ state'[p] # "none" /\ needspoll[p]
                    /\ pollreq \/ \E f \in Walking(stack') : p \in Ahead(f)'
  BY DEF PollKept
<1>1. \A f : Ahead(f)' = Ahead(f)
  BY DEF Ahead, Reach, Closed
<1> QED
  BY <1>1 DEF PollKept

-----------------------------------------------------------------------------
LEMMA KeptRunPoll == ProcInv /\ PollKept /\ RunPoll => PollKept'
<1> SUFFICES ASSUME ProcInv, PollKept, RunPoll, NEW p \in Proc, owed[p]
             PROVE  /\ state[p] # "none" /\ needspoll[p]
                    /\ \E f \in Walking(stack') : p \in Ahead(f)'
  BY DEF PollKept, RunPoll
<1>1. Walking(stack) = {}
  BY DEF RunPoll, Walking
<1>2. pollreq /\ state[p] # "none" /\ needspoll[p]
  BY <1>1 DEF PollKept
<1>0. PICK a : a = Frame("poll", head, "visit")
  OBVIOUS
<1>3. a.k = "poll" /\ a.at = "visit" /\ a.p = head
  BY <1>0 DEF Frame
<1>4. stack' = <<a>>
  BY <1>0, <1>2 DEF RunPoll
<1>5. a \in Walking(stack')
  <2>1. Len(stack') = 1 /\ stack'[1] = a /\ 1 \in 1..1
    BY <1>4
  <2> QED
    BY <1>3, <2>1 DEF Walking
<1>6. p \in Reach(head)
  BY <1>2, Walks DEF Running
<1>7. Ahead(a)' = Reach(head)
  BY <1>3 DEF RunPoll, lists, Ahead, Reach, Closed
<1> QED
  BY <1>2, <1>5, <1>6, <1>7

LEMMA KeptRunEvent == ProcInv /\ PollKept /\ RunEvent => PollKept'
<1> SUFFICES ASSUME ProcInv, PollKept, RunEvent PROVE PollKept'
  OBVIOUS
<1>1. Walking(stack) = {}
  BY DEF RunEvent, Walking
<1>2. \A p \in Proc : state[p] # "none" => state'[p] # "none"
  <2>1. CASE events = <<>> \/ Head(events) = Nil
    BY <2>1 DEF RunEvent
  <2>2. CASE events # <<>> /\ Head(events) # Nil
    <3>1. ProcTypeOK /\ Head(events) \in Proc
      BY <2>2 DEF ProcInv, ProcTypeOK
    <3>2. CallProcess(Head(events), "event", <<>>) /\ <<>> \in Seq(Frames)
      BY <2>2 DEF RunEvent
    <3> QED
      BY <3>1, <3>2, WalkCall
  <2> QED
    BY <2>1, <2>2
<1> QED
  BY <1>1, <1>2, KeptSame DEF RunEvent, lists, polls

LEMMA KeptPollVisit == ProcInv /\ PollKept /\ PollVisit => PollKept'
<1> SUFFICES ASSUME ProcInv, PollKept, PollVisit PROVE PollKept'
  OBVIOUS
<1>1. stack # <<>> /\ Top.k = "poll" /\ Top.at = "visit" /\ ProcTypeOK
  BY DEF PollVisit, Is, ProcInv
<1>2. Top = stack[1] /\ FrameOK(Top) /\ stack \in Seq(Frames) /\ Under \in Seq(Frames)
  BY <1>1, TopOf, TailOf DEF ProcInv, StackInv, Under
<1>3. \A f \in Walking(stack) : f \in Walking(Under) \/ f = Top
  BY <1>1, <1>2, WalkPop DEF Under
<1>4. \A f : Ahead(f)' = Ahead(f)
  BY DEF PollVisit, lists, Ahead, Reach, Closed
<1>5. CASE Top.p = Nil
  <2>1. Ahead(Top) = {}
    BY <1>1, <1>5 DEF Ahead, Reach
  <2>2. /\ stack' = Under /\ pollreq' = pollreq /\ state' = state
        /\ needspoll' = needspoll /\ owed' = owed
    BY <1>5 DEF PollVisit, PollDone
  <2> QED
    BY <1>3, <1>4, <2>1, <2>2 DEF PollKept
<1>6. CASE Top.p # Nil
  <2> DEFINE g == [Top EXCEPT !.at = "next"]
             n == <<g>> \o Under
             a == [Frame("call", Top.p, "thread") EXCEPT !.ev = "poll"]
             m == <<a>> \o n
  <2>1. Top.p \in Proc /\ g \in Frames /\ g.k = "poll" /\ g.at = "next" /\ g.p = Top.p
    BY <1>1, <1>2, <1>6 DEF FrameOK, Frames
  <2>2. a \in Frames
    BY <2>1 DEF Frame, Frames
  <2>3. Pushed(n, g, Under) /\ Pushed(m, a, n)
    BY DEF Pushed
  <2>4. stack' = m \/ stack' = n
    <3>1. <<a, g>> \o Under = m
      <4> HIDE DEF a, g
      <4> QED
        BY <1>2, <2>1, <2>2, TwoOnTop
    <3> QED
      BY <1>6, <3>1 DEF PollVisit
  <2> HIDE DEF g, n, a, m
  <2>5. n \in Seq(Frames) /\ Walking(Under) \subseteq Walking(n) /\ g \in Walking(n)
    BY <1>2, <2>1, <2>3, WalkPush
  <2>6. Walking(n) \subseteq Walking(m)
    BY <2>2, <2>3, <2>5, WalkPush
  <2>7. Walking(Under) \subseteq Walking(stack') /\ g \in Walking(stack')
    BY <2>4, <2>5, <2>6
  <2>8. ASSUME NEW q \in Proc, owed'[q]
        PROVE  q # Top.p /\ owed[q] /\ needspoll'[q] = needspoll[q] /\ state'[q] = state[q]
    <3>1. CASE needspoll[Top.p]
      <4>1. /\ needspoll' = [needspoll EXCEPT ![Top.p] = FALSE]
            /\ owed' = [owed EXCEPT ![Top.p] = FALSE]
            /\ state' = [state EXCEPT ![Top.p] = "called"]
        BY <1>6, <3>1 DEF PollVisit
      <4> QED
        BY <1>1, <2>1, <2>8, <4>1 DEF ProcTypeOK
    <3>2. CASE ~needspoll[Top.p]
      <4>1. needspoll' = needspoll /\ owed' = owed /\ state' = state
        BY <1>6, <3>2 DEF PollVisit
      <4> QED
        BY <2>8, <3>2, <4>1 DEF PollKept
    <3> QED
      BY <3>1, <3>2
  <2>9. \A q \in Ahead(Top) : q # Top.p => q \in Ahead(g)
    BY <1>1, <2>1, AheadIs, AfterNext DEF ProcTypeOK
  <2>10. pollreq' = pollreq
    BY <1>6 DEF PollVisit
  <2> QED
    BY <1>3, <1>4, <2>7, <2>8, <2>9, <2>10 DEF PollKept
<1> QED
  BY <1>5, <1>6

LEMMA KeptBcastVisit == ProcInv /\ PollKept /\ BcastVisit => PollKept'
<1> SUFFICES ASSUME ProcInv, PollKept, BcastVisit PROVE PollKept'
  OBVIOUS
<1>1. stack # <<>> /\ Top.k = "bcast" /\ ProcTypeOK
  BY DEF BcastVisit, Is, ProcInv
<1>2. Top = stack[1] /\ FrameOK(Top) /\ stack \in Seq(Frames) /\ Under \in Seq(Frames)
  BY <1>1, TopOf, TailOf DEF ProcInv, StackInv, Under
<1> DEFINE b == [Top EXCEPT !.at = "call"]
           n == <<b>> \o Under
<1>3. b \in Frames /\ Pushed(n, b, Tail(stack))
  BY <1>2 DEF FrameOK, Frames, Pushed, Under
<1> HIDE DEF b, n
<1>4. /\ n \in Seq(Frames) /\ Walking(stack) \subseteq Walking(n)
      /\ Walking(stack) \subseteq Walking(Under)
  BY <1>1, <1>2, <1>3, WalkReplace DEF Under
<1>5. CASE Top.p = Nil \/ ~pollreq
  <2>1. Walking(stack) \subseteq Walking(stack')
    <3>1. Top.p # Nil => stack' = <<>> \o <<b>> \o Under
      BY <1>5 DEF BcastVisit, b
    <3>2. Top.p # Nil => stack' = n
      BY <1>2, <1>3, <3>1, TwoOnTop DEF n
    <3>3. Top.p = Nil => stack' = Under
      BY DEF BcastVisit
    <3> QED
      BY <1>4, <3>2, <3>3
  <2>2. pollreq' = pollreq
    BY <1>1, <1>5 DEF BcastVisit, ProcTypeOK
  <2> QED
    BY <2>1, <2>2, KeptSame DEF BcastVisit, lists
<1>6. CASE Top.p # Nil /\ pollreq
  <2> SUFFICES ASSUME NEW p \in Proc, owed[p]
               PROVE  /\ state[p] # "none" /\ needspoll[p]
                      /\ \E f \in Walking(stack') : p \in Ahead(f)'
    BY DEF PollKept, BcastVisit
  <2>0. PICK a : a = Frame("poll", head, "visit")
    OBVIOUS
  <2> DEFINE m == <<a>> \o n
  <2>1. a \in Frames /\ a.k = "poll" /\ a.at = "visit" /\ a.p = head
    BY <1>1, <2>0 DEF Frame, Frames, ProcTypeOK
  <2>2. stack' = <<a>> \o <<b>> \o Under
    BY <1>6, <2>0 DEF BcastVisit, b
  <2>3. Pushed(m, a, n)
    BY DEF Pushed
  <2>4. stack' = m
    BY <1>2, <1>3, <2>1, <2>2, TwoOnTop DEF n
  <2> HIDE DEF m
  <2>5. a \in Walking(stack')
    BY <1>4, <2>1, <2>3, <2>4, WalkPush
  <2>6. p \in Reach(head) /\ state[p] # "none" /\ needspoll[p]
    BY Walks DEF PollKept, Running
  <2>7. Ahead(a)' = Reach(head)
    BY <2>1 DEF BcastVisit, lists, Ahead, Reach, Closed
  <2> QED
    BY <2>5, <2>6, <2>7
<1> QED
  BY <1>5, <1>6

LEMMA KeptBcastCall == ProcInv /\ PollKept /\ BcastCall => PollKept'
<1> SUFFICES ASSUME ProcInv, PollKept, BcastCall PROVE PollKept'
  OBVIOUS
<1>1. stack # <<>> /\ Top.k = "bcast" /\ Top.at = "call" /\ ProcTypeOK
  BY DEF BcastCall, Is, ProcInv
<1>2. Top = stack[1] /\ FrameOK(Top) /\ stack \in Seq(Frames)
  BY <1>1, TopOf DEF ProcInv, StackInv
<1> DEFINE b == [Top EXCEPT !.at = "next"]
           n == <<b>> \o Under
<1>3. b \in Frames /\ Pushed(n, b, Tail(stack)) /\ Top.p \in Proc
  BY <1>1, <1>2 DEF FrameOK, Frames, Pushed, Under
<1>4. CallProcess(Top.p, "event", n)
  BY DEF BcastCall
<1> HIDE DEF b, n
<1>5. n \in Seq(Frames) /\ Walking(stack) \subseteq Walking(n)
  BY <1>1, <1>2, <1>3, WalkReplace
<1>6. /\ Walking(n) \subseteq Walking(stack')
      /\ \A r \in Proc : state[r] # "none" => state'[r] # "none"
  BY <1>1, <1>3, <1>4, <1>5, WalkCall
<1> QED
  BY <1>5, <1>6, KeptSame DEF BcastCall, lists, polls

LEMMA KeptAdvance == ProcInv /\ PollKept /\ Advance => PollKept'
<1> SUFFICES ASSUME ProcInv, PollKept, Advance PROVE PollKept'
  OBVIOUS
<1>1. stack # <<>> /\ Top.k \in {"poll", "bcast"} /\ Top.at = "next" /\ ProcTypeOK
  BY DEF Advance, Is, ProcInv
<1>2. Top = stack[1] /\ FrameOK(Top) /\ stack \in Seq(Frames) /\ Under \in Seq(Frames)
  BY <1>1, TopOf, TailOf DEF ProcInv, StackInv, Under
<1> DEFINE b == [Top EXCEPT !.p = nxt[Top.p], !.at = "visit"]
           n == <<b>> \o Under
<1>3. nxt[Top.p] \in Proc \cup {Nil}
  BY <1>1, <1>2 DEF FrameOK, Frames, ProcTypeOK
<1>4. b \in Frames /\ b.k = Top.k /\ b.at = "visit" /\ b.p = nxt[Top.p]
  BY <1>2, <1>3 DEF FrameOK, Frames
<1>5. Pushed(n, b, Tail(stack)) /\ stack' = n
  BY DEF Pushed, Under, Advance
<1> HIDE DEF b, n
<1>6. CASE Top.k = "bcast"
  <2>1. Walking(stack) \subseteq Walking(stack')
    BY <1>1, <1>2, <1>4, <1>5, <1>6, WalkReplace
  <2> QED
    BY <2>1, KeptSame DEF Advance, lists, polls
<1>7. CASE Top.k = "poll"
  <2>1. Walking(Under) \subseteq Walking(stack') /\ b \in Walking(stack')
    BY <1>2, <1>4, <1>5, <1>7, WalkPush DEF Under
  <2>2. \A f \in Walking(stack) : f \in Walking(Under) \/ f = Top
    BY <1>1, <1>2, WalkPop DEF Under
  <2>3. Ahead(b) = Ahead(Top)
    BY <1>1, <1>4 DEF Ahead
  <2>4. \A f : Ahead(f)' = Ahead(f)
    BY DEF Advance, lists, Ahead, Reach, Closed
  <2> QED
    BY <2>1, <2>2, <2>3, <2>4 DEF PollKept, Advance, polls
<1> QED
  BY <1>1, <1>6, <1>7

LEMMA KeptExitStart == ProcInv /\ PollKept /\ ExitStart => PollKept'
<1> SUFFICES ASSUME ProcInv, PollKept, ExitStart PROVE PollKept'
  OBVIOUS
<1>1. stack # <<>> /\ Top.k = "exit"
  BY DEF ExitStart, Is
<1>2. Top = stack[1] /\ FrameOK(Top) /\ stack \in Seq(Frames) /\ Under \in Seq(Frames)
  BY <1>1, TopOf, TailOf DEF ProcInv, StackInv, Under
<1>0. PICK b : b = [Top EXCEPT !.at = "unlink"]
  OBVIOUS
<1>3. PICK a : a = [Frame("exitcall", Top.p, "thread") EXCEPT !.ev = "exit"]
  OBVIOUS
<1> DEFINE n == <<b>> \o Under
           m == <<a>> \o n
<1>4. b \in Frames /\ a \in Frames
  BY <1>0, <1>2, <1>3 DEF FrameOK, Frames, Frame
<1>5. Pushed(n, b, Tail(stack)) /\ Pushed(m, a, n)
  BY DEF Pushed, Under
<1>6. stack' = Under \/ stack' = n \/ stack' = m
  <2>1. stack' = Under \/ stack' = <<>> \o <<b>> \o Under \/ stack' = <<a>> \o <<b>> \o Under
    BY <1>0, <1>3 DEF ExitStart
  <2> QED
    BY <1>2, <1>4, <2>1, TwoOnTop
<1> HIDE DEF n, m
<1>7. /\ n \in Seq(Frames) /\ Walking(stack) \subseteq Walking(n)
      /\ Walking(stack) \subseteq Walking(Under)
  BY <1>1, <1>2, <1>4, <1>5, WalkReplace DEF Under
<1>8. Walking(n) \subseteq Walking(m)
  BY <1>4, <1>5, <1>7, WalkPush
<1> QED
  BY <1>6, <1>7, <1>8, KeptSame DEF ExitStart, lists, polls

LEMMA KeptExitTell == ProcInv /\ PollKept /\ ExitTell => PollKept'
<1> SUFFICES ASSUME ProcInv, PollKept, ExitTell PROVE PollKept'
  OBVIOUS
<1>1. stack # <<>> /\ Top.k = "exit" /\ Top.at = "tell" /\ ProcTypeOK
  BY DEF ExitTell, Is, ProcInv
<1>2. Top = stack[1] /\ FrameOK(Top) /\ stack \in Seq(Frames)
  BY <1>1, TopOf DEF ProcInv, StackInv
<1> DEFINE b == [Top EXCEPT !.at = "told"]
           n == <<b>> \o Under
<1>3. b \in Frames /\ Pushed(n, b, Tail(stack)) /\ Top.q \in Proc \cup {Nil}
  BY <1>1, <1>2 DEF FrameOK, Frames, Pushed, Under
<1>4. Top.q # Nil => CallProcess(Top.q, "exited", n)
  BY DEF ExitTell
<1> HIDE DEF b, n
<1>5. /\ n \in Seq(Frames) /\ Walking(stack) \subseteq Walking(n)
      /\ Walking(stack) \subseteq Walking(Under)
  BY <1>1, <1>2, <1>3, WalkReplace DEF Under
<1>6. CASE Top.q = Nil
  BY <1>5, <1>6, KeptSame DEF ExitTell, lists, polls
<1>7. CASE Top.q # Nil
  <2>1. /\ Walking(n) \subseteq Walking(stack')
        /\ \A r \in Proc : state[r] # "none" => state'[r] # "none"
    BY <1>1, <1>3, <1>4, <1>5, <1>7, WalkCall
  <2> QED
    BY <1>5, <2>1, KeptSame DEF ExitTell, lists, polls
<1> QED
  BY <1>6, <1>7

LEMMA KeptExitTold == ProcInv /\ PollKept /\ ExitTold => PollKept'
<1> SUFFICES ASSUME ProcInv, PollKept, ExitTold PROVE PollKept'
  OBVIOUS
<1>1. stack # <<>> /\ Top.k = "exit" /\ Top.at = "told" /\ ProcTypeOK
  BY DEF ExitTold, Is, ProcInv
<1>2. Top = stack[1] /\ FrameOK(Top) /\ stack \in Seq(Frames)
  BY <1>1, TopOf DEF ProcInv, StackInv
<1>3. nxt[Top.q] \in Proc \cup {Nil}
  BY <1>1, <1>2 DEF FrameOK, Frames, ProcTypeOK
<1> DEFINE b == [Top EXCEPT !.q = nxt[Top.q], !.at = "tell"]
<1>4. b \in Frames
  BY <1>2, <1>3 DEF FrameOK, Frames
<1>5. Pushed(stack', b, Tail(stack))
  BY DEF Pushed, Under, ExitTold
<1> HIDE DEF b
<1>6. Walking(stack) \subseteq Walking(stack')
  BY <1>1, <1>2, <1>4, <1>5, WalkReplace
<1> QED
  BY <1>6, KeptSame DEF ExitTold, lists, polls

(* A thread returns. *)
LEMMA KeptReturn == ProcInv /\ PollKept /\ (Return \/ ExitReturn) => PollKept'
<1> SUFFICES ASSUME ProcInv, PollKept, Return \/ ExitReturn PROVE PollKept'
  OBVIOUS
<1>1. stack # <<>> /\ Top.k \in {"call", "exitcall"} /\ stack' = Under
  BY DEF Return, ExitReturn, Is
<1>2. Top = stack[1] /\ Top.k # "poll" /\ stack \in Seq(Frames)
  BY <1>1, TopOf DEF ProcInv, StackInv
<1>3. Walking(stack) \subseteq Walking(stack')
  BY <1>1, <1>2, WalkPop DEF Under
<1>4. \A p \in Proc : state[p] # "none" => state'[p] # "none"
  BY DEF Return, ExitReturn, ProcInv, ProcTypeOK
<1> QED
  BY <1>3, <1>4, KeptSame DEF Return, ExitReturn, lists, polls

(* What a thread does on its own stack: posting, and having processes exit. *)
LEMMA KeptThread ==
  ProcInv /\ PollKept /\ (End \/ \E q \in Proc : PostSynch(q) \/ ProcessExit(q)) => PollKept'
<1> SUFFICES ASSUME ProcInv, PollKept, End \/ \E q \in Proc : PostSynch(q) \/ ProcessExit(q)
             PROVE  PollKept'
  OBVIOUS
<1>1. InThread
  BY DEF End, PostSynch, ProcessExit, Act, InThread
<1>2. /\ stack # <<>> /\ Top = stack[1] /\ Top.k # "poll" /\ Top.p \in Proc /\ stack \in Seq(Frames)
      /\ ProcTypeOK
  BY <1>1, InThreadIs DEF StackInv
<1>3. CASE End
  <2>1. PICK a : a = Exit(Top.p, Top.p)
    OBVIOUS
  <2>2. a \in Frames /\ Pushed(stack', a, Tail(stack))
    BY <1>2, <1>3, <2>1 DEF End, Exit, Frame, Frames, Pushed, Under
  <2>3. Walking(stack) \subseteq Walking(stack')
    BY <1>2, <2>2, WalkReplace
  <2> QED
    BY <1>3, <2>3, KeptSame DEF End, lists, polls
<1>4. ASSUME NEW q \in Proc, PostSynch(q) PROVE PollKept'
  <2>1. CallProcess(q, "event", stack)
    BY <1>4 DEF PostSynch
  <2>2. /\ Walking(stack) \subseteq Walking(stack')
        /\ \A r \in Proc : state[r] # "none" => state'[r] # "none"
    BY <1>2, <2>1, WalkCall
  <2> QED
    BY <1>4, <2>2, KeptSame DEF PostSynch, lists, polls
<1>5. ASSUME NEW q \in Proc, ProcessExit(q) PROVE PollKept'
  <2>1. PICK a : a = Exit(q, Top.p)
    OBVIOUS
  <2>2. a \in Frames /\ Pushed(stack', a, stack)
    BY <1>2, <1>5, <2>1 DEF ProcessExit, Exit, Frame, Frames, Pushed
  <2>3. Walking(stack) \subseteq Walking(stack')
    BY <1>2, <2>2, WalkPush
  <2> QED
    BY <1>5, <2>3, KeptSame DEF ProcessExit, lists, polls
<1> QED
  BY <1>3, <1>4, <1>5

(* A walk that stands on the process that leaves goes on from where that   *)
(* process pointed; one that was about to come to it comes to the next.    *)
LEMMA KeptExitUnlink == ProcInv /\ PollKept /\ ExitUnlink => PollKept'
<1> SUFFICES ASSUME ProcInv, PollKept, ExitUnlink PROVE PollKept'
  OBVIOUS
<1>1. stack # <<>> /\ Top.k = "exit" /\ Top.at = "unlink" /\ ProcTypeOK /\ Is("exit", "unlink")
  BY DEF ExitUnlink, Is, ProcInv
<1>2. /\ Top = stack[1] /\ FrameOK(Top) /\ stack \in Seq(Frames) /\ Under \in Seq(Frames)
  BY <1>1, TopOf, TailOf DEF ProcInv, StackInv, Under
<1>3. PICK p \in Proc : p = Top.p
  BY <1>1, <1>2 DEF FrameOK, Frames
<1>4. PICK D \in SUBSET Proc : D = Running(state)
  BY DEF Running
<1>5. Unlinked(D, head, nxt, p, head', nxt')
  BY <1>3, <1>4, Walks DEF ExitUnlink, Unlink, Unlinked
<1>6. /\ IsList(D, head, nxt) /\ nxt \in [Proc -> Proc \cup {Nil}]
      /\ state \in [Proc -> {"none", "running", "called"}]
  BY <1>1, <1>4 DEF ProcInv, ProcTypeOK
<1>7. \A f \in Walking(stack) : f \in Walking(Under)
  BY <1>1, <1>2, WalkPop DEF Under
<1>8. CASE state[p] = "none"
  <2>1. stack' = Under /\ state' = state /\ owed' = owed
    BY <1>3, <1>8 DEF ExitUnlink
  <2>2. head # p /\ \A r \in D : nxt[r] # p
    BY <1>3, <1>4, <1>8, Walks, ProcessAssumption DEF Running
  <2>3. nxt' = nxt
    BY <1>5, <1>6, <2>2 DEF Unlinked
  <2> QED
    BY <1>7, <2>1, <2>3, KeptSame DEF ExitUnlink
<1>9. CASE state[p] # "none"
  <2>1. /\ state' = [state EXCEPT ![p] = "none"] /\ owed' = [owed EXCEPT ![p] = FALSE]
        /\ stack' = <<[Top EXCEPT !.at = "tell", !.q = head']>> \o Under
    BY <1>3, <1>9 DEF ExitUnlink
  <2>2. PICK b : b = [Top EXCEPT !.at = "tell", !.q = head']
    OBVIOUS
  <2>3. head' \in Proc \cup {Nil}
    BY <1>1, <1>5 DEF ProcTypeOK, Unlinked
  <2>4. b \in Frames /\ Pushed(stack', b, Under)
    BY <1>2, <2>1, <2>2, <2>3 DEF FrameOK, Frames, Pushed
  <2>5. Walking(Under) \subseteq Walking(stack')
    BY <1>2, <2>4, WalkPush
  <2>6. p \in D
    BY <1>4, <1>9 DEF Running
  <2>7. ASSUME NEW f \in Walking(stack), NEW q \in Ahead(f), q # p
        PROVE  f \in Walking(stack') /\ q \in Ahead(f)'
    <3>1. PICK i \in 1..Len(Under) : Under[i] = f /\ f.k = "poll"
      BY <1>7 DEF Walking
    <3>2. f.at = "next" /\ f.p \in D
      BY <1>1, <1>4, <3>1, PolledIsListed DEF Running
    <3>3. q \in After(nxt, nxt[f.p])
      BY <3>2, AheadIs
    <3>4. q \in After(nxt', nxt'[f.p])
      <4>1. PICK r \in D : r = f.p
        BY <3>2
      <4>2. q \in After(nxt, nxt[r]) /\ q # p
        BY <2>7, <3>3, <4>1
      <4>3. q \in After(nxt', nxt'[r])
        BY <1>5, <1>6, <2>6, <4>2, PointsAfter
      <4> QED
        BY <4>1, <4>3
    <3>5. Ahead(f)' = After(nxt', nxt'[f.p])
      BY <3>2 DEF Ahead, Reach, Closed, After
    <3> QED
      BY <1>7, <2>5, <3>4, <3>5
  <2>8. \A q \in Proc : owed'[q] => q # p /\ owed[q] /\ state'[q] = state[q]
    BY <1>1, <1>6, <2>1 DEF ProcTypeOK
  <2>9. needspoll' = needspoll /\ pollreq' = pollreq
    BY DEF ExitUnlink
  <2> QED
    BY <2>7, <2>8, <2>9 DEF PollKept
<1> QED
  BY <1>8, <1>9

(* A process that starts joins the list at its head.  If it is the one     *)
(* that do_poll() stands on, the walk starts again.                        *)
LEMMA KeptProcessStart ==
  ASSUME NEW q \in Proc PROVE ProcInv /\ PollKept /\ ProcessStart(q) => PollKept'
<1> SUFFICES ASSUME ProcInv, PollKept, ProcessStart(q) PROVE PollKept'
  OBVIOUS
<1>1. InThread
  BY DEF ProcessStart, Act
<1>2. /\ StackInv(stack, state, nxt) /\ ProcTypeOK /\ stack \in Seq(Frames)
      /\ \A j \in 1..Len(stack) : Waits(stack[j])
  BY <1>1, InThreadIs DEF StackInv
<1>3. CASE ~Startable(q)
  BY <1>3, KeptSame DEF ProcessStart, lists, polls
<1>4. CASE Startable(q)
  <2>1. /\ nxt' = [nxt EXCEPT ![q] = head] /\ state' = [state EXCEPT ![q] = "called"]
        /\ stack' = <<[Frame("call", q, "thread") EXCEPT !.ev = "init"]>> \o stack
        /\ needspoll' = needspoll /\ pollreq' = pollreq /\ owed' = owed
    BY <1>4 DEF ProcessStart, polls
  <2>2. /\ state \in [Proc -> {"none", "running", "called"}]
        /\ nxt \in [Proc -> Proc \cup {Nil}] /\ head \in Proc \cup {Nil}
    BY <1>2 DEF ProcTypeOK
  <2>3. PICK D \in SUBSET Proc : D = Running(state)
    BY DEF Running
  <2>4. IsList(D, head, nxt) /\ q \in Proc \ D
    <3>1. state[q] = "none"
      BY <1>4, Walks DEF Startable
    <3> QED
      BY <2>3, <3>1 DEF ProcInv, Running
  <2>5. PICK a : a = [Frame("call", q, "thread") EXCEPT !.ev = "init"]
    OBVIOUS
  <2>6. a \in Frames /\ Pushed(stack', a, stack)
    BY <2>1, <2>5 DEF Frame, Frames, Pushed
  <2>7. Walking(stack) \subseteq Walking(stack')
    BY <1>2, <2>6, WalkPush
  <2>8. ASSUME NEW f \in Walking(stack), NEW p \in Ahead(f), p \in D
        PROVE  p \in Ahead(f)'
    <3>1. PICK i \in 1..Len(stack) : stack[i] = f /\ f.k = "poll"
      BY DEF Walking
    <3>2. f.at = "next" /\ f.p \in Proc /\ PollOK(f, state, nxt)
      BY <1>2, <3>1 DEF Waits, StackInv, FrameOK, Frames
    <3>3. p \in After(nxt, nxt[f.p])
      BY <3>2, AheadIs
    <3>4. Ahead(f)' = After(nxt', nxt'[f.p])
      BY <3>2 DEF Ahead, Reach, Closed, After
    <3>5. CASE f.p = q
      <4>1. nxt'[f.p] = head /\ p \in After(nxt, head)
        BY <2>1, <2>2, <2>4, <2>8, <3>5, AfterIs
      <4>2. head \in D
        BY <2>4, <2>8 DEF IsList, Linked
      <4>3. PICK y \in D : y = head
        BY <4>2
      <4>4. p \in After(nxt, y)
        BY <4>1, <4>3
      <4>5. p \in After(nxt', y)
        BY <2>1, <2>2, <2>4, <4>4, AfterLink
      <4> QED
        BY <3>4, <4>1, <4>3, <4>5
    <3>6. CASE f.p # q
      <4>1. nxt'[f.p] = nxt[f.p] /\ nxt[f.p] # Nil
        BY <2>1, <2>2, <3>2, <3>3, <3>6 DEF After
      <4>2. nxt[f.p] \in D
        BY <2>2, <2>3, <3>1, <3>2, <4>1, Walks DEF PollOK, Running
      <4>3. PICK y \in D : y = nxt[f.p]
        BY <4>2
      <4>4. p \in After(nxt, y)
        BY <3>3, <4>3
      <4>5. p \in After(nxt', y)
        BY <2>1, <2>2, <2>4, <4>4, AfterLink
      <4> QED
        BY <3>4, <4>1, <4>3, <4>5
    <3> QED
      BY <3>5, <3>6
  <2>9. \A p \in Proc : state[p] # "none" => state'[p] # "none" /\ p \in D
    BY <2>1, <2>2, <2>3 DEF Running
  <2> QED
    BY <2>1, <2>7, <2>8, <2>9 DEF PollKept
<1> QED
  BY <1>3, <1>4

LEMMA KeptPollRequest == ASSUME NEW p \in Proc PROVE ProcInv /\ PollKept /\ Poll(p) => PollKept'
<1> SUFFICES ASSUME ProcInv, PollKept, Poll(p), NEW q \in Proc, owed'[q]
             PROVE  state'[q] # "none" /\ needspoll'[q] /\ pollreq'
  BY DEF PollKept
<1>1. needspoll \in [Proc -> BOOLEAN] /\ owed \in [Proc -> BOOLEAN]
  BY DEF ProcInv, ProcTypeOK
<1>2. /\ state[p] # "none" /\ state' = state /\ pollreq' = TRUE
      /\ needspoll' = [needspoll EXCEPT ![p] = TRUE] /\ owed' = [owed EXCEPT ![p] = TRUE]
  BY DEF Poll
<1>3. CASE q = p
  BY <1>1, <1>2, <1>3
<1>4. CASE q # p
  <2>1. owed[q] /\ needspoll'[q] = needspoll[q]
    BY <1>1, <1>2, <1>4
  <2> QED
    BY <1>2, <2>1 DEF PollKept
<1> QED
  BY <1>3, <1>4

LEMMA KeptStep == ProcInv /\ PollKept /\ [ProcNext]_procvars => PollKept'
<1> SUFFICES ASSUME ProcInv, PollKept, [ProcNext]_procvars PROVE PollKept'
  OBVIOUS
<1>1. CASE Step
  BY <1>1, KeptRunPoll, KeptRunEvent, KeptPollVisit, KeptBcastVisit, KeptBcastCall, KeptAdvance,
     KeptExitStart, KeptExitUnlink, KeptExitTell, KeptExitTold, KeptReturn DEF Step
<1>2. CASE ~Telling /\ (End \/ \E p \in Proc : state[p] # "called" /\ ProcessExit(p))
  BY <1>2, KeptThread
<1>3. CASE \E p \in Proc : Poll(p) \/ PostSynch(p) \/ ProcessStart(p)
  BY <1>3, KeptPollRequest, KeptThread, KeptProcessStart
<1>4. CASE \E p \in Proc \cup {Nil} : Post(p)
  BY <1>4, KeptSame DEF Post, lists, polls
<1>5. CASE UNCHANGED procvars
  BY <1>5, KeptSame DEF procvars
<1> QED
  BY <1>1, <1>2, <1>3, <1>4, <1>5 DEF ProcNext

(* No poll that an interrupt asks for is forgotten: until the process is   *)
(* polled or ends, either a call of do_poll() is due or one in progress    *)
(* still comes to it, whatever starts, ends and is polled while it is on   *)
(* its way: do_poll() clears the request before it walks over the list,    *)
(* and goes on with the pointer of the process it has polled, which may    *)
(* have ended and started again meanwhile.                                 *)
THEOREM PollsKept == ProcSpec => []PollKept
<1>1. ProcInit => PollKept
  BY DEF ProcInit, PollKept
<1> QED
  BY <1>1, ProcStart, ProcStep, KeptStep, PTL DEF ProcSpec

-----------------------------------------------------------------------------
(* No thread is re-entered: a process in the middle of a call is marked as *)
(* called and on the list, and is called once.                             *)
NotReentered ==
  \A i \in 1..Len(stack) : stack[i].k = "call" =>
    /\ state[stack[i].p] = "called" /\ OnList(stack[i].p)
    /\ \A j \in i + 1..Len(stack) : stack[j].k = "call" => stack[j].p # stack[i].p

(* No thread is re-entered, and none loses its place on the list while it  *)
(* is in progress, although do_poll() sets the state of the process it     *)
(* polls to running without a look at it, process_start() sets it of any   *)
(* process that is not on the list, and exit_process() takes whatever      *)
(* process it is given from the list after that process has run.           *)
THEOREM NoThreadReentered == ProcSpec => []NotReentered
<1>1. ProcInv => NotReentered
  <2> SUFFICES ASSUME ProcInv, NEW i \in 1..Len(stack), stack[i].k = "call"
               PROVE  /\ state[stack[i].p] = "called" /\ OnList(stack[i].p)
                      /\ \A j \in i + 1..Len(stack) : stack[j].k = "call" => stack[j].p # stack[i].p
    BY DEF NotReentered
  <2>1. state[stack[i].p] = "called" /\ stack[i].p \in Proc
    BY DEF ProcInv, StackInv, FrameOK, Frames
  <2>2. OnList(stack[i].p)
    BY <2>1, Walks
  <2>3. \A j \in i + 1..Len(stack) : Above(stack[i], stack[j])
    BY DEF ProcInv, StackInv
  <2> QED
    BY <2>1, <2>2, <2>3 DEF Above
<1> QED
  BY <1>1, ProcStart, ProcStep, PTL DEF ProcSpec
=============================================================================

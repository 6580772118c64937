------------------------------- MODULE Timers -------------------------------
(***************************************************************************)
(* Event timers and callback timers (etimer.c, ctimer.c, timer.c), the     *)
(* clock interrupt that drives them (nrf/sys/clock-arch.c) and the event   *)
(* queue of bounded length between them and the processes (process.c).     *)
(* 6P takes its timeouts and its deferred work from callback timers.       *)
(*                                                                         *)
(* A callback timer contains an event timer, which belongs to the process  *)
(* "ctimer"; the other event timers belong to a process "app", which may   *)
(* exit and start again.                                                   *)
(***************************************************************************)
EXTENDS Integers, Sequences, FiniteSets, FiniteSetsExt, SequencesExt

CONSTANTS
  Timer,      \* event timers
  CTimer,     \* those inside callback timers
  Interval,   \* intervals in use, in ticks
  Width,      \* clock_time_t counts modulo this number
  Boot,       \* values of the clock at the start
  QLen,       \* PROCESS_CONF_NUMEVENTS
  MaxTicks    \* bound: ticks of the clock

ASSUME TimersAssumption ==
  /\ CTimer \subseteq Timer /\ Interval \subseteq Nat
  /\ Width \in Nat \ {0, 1} /\ Boot \subseteq 0..Width - 1 /\ QLen \in Nat \ {0} /\ MaxTicks \in Nat
  /\ \A i \in Interval : 2 * (i + MaxTicks) < Width

VARIABLES
  now,        \* clock_time()
  ticks,      \* ticks so far
  tm,         \* tm[t]: start and interval of a timer, and its process
  timerlist,
  nextexp,    \* next_expiration
  polled,     \* the etimer process is to be polled
  queue,      \* events posted: a timer, or "other"
  clist,      \* ctimer_list
  app         \* whether the application process runs

vars == <<now, ticks, tm, timerlist, nextexp, polled, queue, clist, app>>

Owner(t) == IF t \in CTimer THEN "ctimer" ELSE "app"

Init ==
  /\ now \in Boot /\ ticks = 0
  /\ tm = [t \in Timer |-> [start |-> 0, interval |-> 0, p |-> "none"]]
  /\ timerlist = <<>> /\ nextexp = 0 /\ polled = FALSE
  /\ queue = <<>> /\ clist = {} /\ app = TRUE

Members(s) == {s[i] : i \in 1..Len(s)}
Listed == Members(timerlist)

(* The elements of s that are in S, in their order. *)
Keep(s, S) ==
  LET upTo[i \in 0..Len(s)] ==
        IF i = 0 THEN <<>>
        ELSE IF s[i] \in S THEN Append(upTo[i - 1], s[i]) ELSE upTo[i - 1]
  IN  upTo[Len(s)]

-----------------------------------------------------------------------------
(* timer_expired(), in the arithmetic of clock_time_t. *)
Expired(t) == tm[t].interval < (((now - tm[t].start) % Width) + 1) % Width

(* update_time() *)
Next_NoWrap(list, timers) ==
  IF list = <<>> THEN 0
  ELSE Min({timers[list[i]].start + timers[list[i]].interval : i \in 1..Len(list)})

Distance(r) == (r.start + r.interval - now) % Width

NextExpiration(list, timers) ==
  IF list = <<>> THEN 0
  ELSE (now + Min({Distance(timers[list[i]]) : i \in 1..Len(list)})) % Width

(* CLOCK_LT(), a comparison of signed differences. *)
Before(a, b) == 2 * ((a - b) % Width) >= Width

(* The clock interrupt. *)
Tick ==
  /\ ticks < MaxTicks
  /\ ticks' = ticks + 1 /\ now' = (now + 1) % Width
  /\ polled' = (polled \/ (timerlist # <<>> /\ ~Before(now', nextexp)))
  /\ UNCHANGED <<tm, timerlist, nextexp, queue, clist, app>>

(* The etimer process, polled: events are posted for the timers that have  *)
(* expired, in the order of the list, as long as the queue has room; then  *)
(* it asks to be polled again.                                             *)
RetryNeeded_Never(waiting, room) == FALSE
RetryNeeded(waiting, room) == Len(waiting) > room

EtimerPoll ==
  LET waiting == Keep(timerlist, {t \in Listed : Expired(t)})
      room == QLen - Len(queue)
      posted == [i \in 1..Min({room, Len(waiting)}) |-> waiting[i]]
  IN  /\ polled
      /\ polled' = RetryNeeded(waiting, room)
      /\ queue' = queue \o posted
      /\ timerlist' = Keep(timerlist, Timer \ Members(posted))
      /\ tm' = [t \in Timer |->
                  IF t \in Members(posted) THEN [tm[t] EXCEPT !.p = "none"] ELSE tm[t]]
      /\ nextexp' = IF posted = <<>> THEN nextexp ELSE NextExpiration(timerlist', tm')
      /\ UNCHANGED <<now, ticks, clist, app>>

(* do_event(): the first event goes to its process.  The ctimer process    *)
(* calls back if the timer is on its list.                                 *)
Deliver ==
  /\ queue # <<>>
  /\ queue' = Tail(queue)
  /\ clist' = clist \ {Head(queue)}
  /\ UNCHANGED <<now, ticks, tm, timerlist, nextexp, polled, app>>

(* Other processes post events too. *)
PostOther ==
  /\ Len(queue) < QLen
  /\ queue' = Append(queue, "other")
  /\ UNCHANGED <<now, ticks, tm, timerlist, nextexp, polled, clist, app>>

-----------------------------------------------------------------------------
(***************************************************************************)
(* Operations of etimer.h and ctimer.h.  Those of ctimer.h do the same to  *)
(* the timer inside, and put the callback timer on ctimer_list or take it  *)
(* from there.                                                             *)
(***************************************************************************)
(* add_timer(), with a new start and interval. *)
AddTimer_NoSearch(t, start, interval) ==
  /\ tm' = [tm EXCEPT ![t] = [start |-> start, interval |-> interval, p |-> Owner(t)]]
  /\ timerlist' = <<t>> \o timerlist
  /\ nextexp' = NextExpiration(timerlist', tm')
  /\ polled' = TRUE

AddTimer(t, start, interval) ==
  /\ tm' = [tm EXCEPT ![t] = [start |-> start, interval |-> interval, p |-> Owner(t)]]
  /\ timerlist' = IF tm[t].p # "none" /\ t \in Listed THEN timerlist ELSE <<t>> \o timerlist
  /\ nextexp' = NextExpiration(timerlist', tm')
  /\ polled' = TRUE

MayUse(t) == t \in CTimer \/ app
Started(t) == clist' = clist \cup ({t} \cap CTimer)
rest == <<now, ticks, queue, app>>

Set(t, i) ==
  /\ MayUse(t)
  /\ AddTimer(t, now, i) /\ Started(t)
  /\ UNCHANGED rest

(* timer_reset() moves the start of an expired timer only.  A timer that   *)
(* is reset or restarted has been set before.                              *)
ResetStart(t) == IF Expired(t) THEN (tm[t].start + tm[t].interval) % Width ELSE tm[t].start

Reset(t) ==
  /\ MayUse(t) /\ tm[t].interval # 0
  /\ AddTimer(t, ResetStart(t), tm[t].interval) /\ Started(t)
  /\ UNCHANGED rest

ResetWithNewInterval(t, i) ==
  /\ MayUse(t) /\ tm[t].interval # 0
  /\ AddTimer(t, ResetStart(t), i) /\ Started(t)
  /\ UNCHANGED rest

Restart(t) ==
  /\ MayUse(t) /\ tm[t].interval # 0
  /\ AddTimer(t, now, tm[t].interval) /\ Started(t)
  /\ UNCHANGED rest

Stop(t) ==
  /\ MayUse(t)
  /\ timerlist' = Keep(timerlist, Timer \ {t})
  /\ nextexp' = IF t \in Listed THEN NextExpiration(timerlist', tm) ELSE nextexp
  /\ tm' = [tm EXCEPT ![t].p = "none"]
  /\ clist' = clist \ {t}
  /\ UNCHANGED <<now, ticks, polled, queue, app>>

(* PROCESS_EVENT_EXITED takes the timers of the process from the list. *)
AppExit ==
  /\ app
  /\ timerlist' = Keep(timerlist, {t \in Timer : tm[t].p # "app"})
  /\ app' = FALSE
  /\ UNCHANGED <<now, ticks, tm, nextexp, polled, queue, clist>>

AppStart ==
  /\ ~app
  /\ app' = TRUE
  /\ UNCHANGED <<now, ticks, tm, timerlist, nextexp, polled, queue, clist>>

Operation(t) ==
  \/ \E i \in Interval : Set(t, i) \/ ResetWithNewInterval(t, i)
  \/ Reset(t) \/ Restart(t) \/ Stop(t)

Next ==
  \/ Tick \/ EtimerPoll \/ Deliver \/ PostOther \/ AppExit \/ AppStart
  \/ \E t \in Timer : Operation(t)

Spec == Init /\ [][Next]_vars

(* process_run() is called in a loop: polls and events are handled. *)
FairSpec == Spec /\ WF_vars(EtimerPoll) /\ WF_vars(Deliver)

-----------------------------------------------------------------------------
TypeOK ==
  /\ now \in 0..Width - 1 /\ ticks \in 0..MaxTicks
  /\ tm \in [Timer -> [start : 0..Width - 1, interval : Interval \cup {0},
                       p : {"none", "ctimer", "app"}]]
  /\ timerlist \in Seq(Timer) /\ nextexp \in 0..Width - 1
  /\ polled \in BOOLEAN /\ queue \in Seq(Timer \cup {"other"}) /\ Len(queue) <= QLen
  /\ clist \subseteq CTimer /\ app \in BOOLEAN

(* The list of timers has no timer twice (it would be a cycle), has those  *)
(* only whose etimer_expired() is false, and none of a process that has    *)
(* exited.                                                                 *)
ListSound ==
  /\ TypeOK
  /\ IsInjective(timerlist)
  /\ \A t \in Listed : tm[t].p = Owner(t) /\ MayUse(t)

(* No expiry is overlooked: when a timer has expired, the etimer process   *)
(* is going to be polled, although it is called for the nearest expiry     *)
(* only, computed when some timer changes, and the clock wraps around.     *)
ExpiryNoticed == \A t \in Listed : Expired(t) => polled

(* A callback timer that has expired is called, even when the event queue  *)
(* was full at that time, unless somebody stops or restarts it or the      *)
(* queue is full again and again (it is polled before each single event).  *)
CalledBack ==
  \A c \in CTimer :
    \/ []<>(Len(queue) = QLen)
    \/ (c \in clist /\ Expired(c)) ~> (c \notin clist \/ ~Expired(c))
=============================================================================

----------------------------- MODULE Processes -----------------------------
(***************************************************************************)
(* The process scheduler (process.c): the list of processes, the queue of  *)
(* events, polls from interrupts, and the calls of process threads, which  *)
(* may nest: a thread posts synchronous events, starts processes and makes *)
(* them exit.  "stack" holds the functions in progress, innermost first;   *)
(* the list is walked by its pointers, as it may change under the walk.    *)
(***************************************************************************)
EXTENDS Integers, Sequences, FiniteSets

CONSTANTS
  Proc,       \* processes
  Nil,        \* NULL
  NumEvents,  \* PROCESS_CONF_NUMEVENTS
  AutoStart,  \* processes that run from the start, as a sequence
  MaxOps      \* bound: what threads do, in all

ASSUME ProcessAssumption ==
  /\ Nil \notin Proc /\ NumEvents \in Nat \ {0} /\ MaxOps \in Nat
  /\ AutoStart \in Seq(Proc)
  /\ \A i, j \in 1..Len(AutoStart) : AutoStart[i] = AutoStart[j] => i = j

VARIABLES
  head,       \* process_list
  nxt,        \* nxt[p]: p->next
  state,      \* state[p]: PROCESS_STATE_NONE, _RUNNING or _CALLED
  needspoll, pollreq,
  events,     \* the queue: receivers, Nil for a broadcast
  stage,      \* what process_run() does next
  stack,
  owed,       \* owed[p]: a poll was requested since p was last polled
  ops

procvars == <<head, nxt, state, needspoll, pollreq, events, stage, stack, owed, ops>>
lists == <<head, nxt>>
polls == <<needspoll, pollreq, owed>>

ProcInit ==
  /\ head = IF AutoStart = <<>> THEN Nil ELSE AutoStart[1]
  /\ nxt = [p \in Proc |->
              IF \E i \in 1..Len(AutoStart) - 1 : AutoStart[i] = p
              THEN AutoStart[1 + CHOOSE i \in 1..Len(AutoStart) - 1 : AutoStart[i] = p] ELSE Nil]
  /\ state = [p \in Proc |-> IF \E i \in 1..Len(AutoStart) : AutoStart[i] = p
                             THEN "running" ELSE "none"]
  /\ needspoll = [p \in Proc |-> FALSE] /\ pollreq = FALSE
  /\ events = <<>> /\ stage = "poll" /\ stack = <<>>
  /\ owed = [p \in Proc |-> FALSE] /\ ops = 0

(* The processes met by following the pointers from p, p included: those   *)
(* in every set that has p and is closed under the pointers.               *)
Closed(S) == \A r \in S : nxt[r] # Nil => nxt[r] \in S
Reach(p) == {q \in Proc : p # Nil /\ \A S \in SUBSET Proc : p \in S /\ Closed(S) => q \in S}

OnList(p) == p \in Reach(head)

-----------------------------------------------------------------------------
Frame(k, p, at) == [k |-> k, p |-> p, at |-> at, ev |-> "none", q |-> Nil]
Top == Head(stack)
Is(k, at) == stack # <<>> /\ Top.k = k /\ Top.at = at
Under == Tail(stack)

(* call_process(p, ev), with the stack below it. *)
Callable(p) == state[p] = "running"

CallProcess(p, ev, below) ==
  IF Callable(p)
  THEN /\ state' = [state EXCEPT ![p] = "called"]
       /\ stack' = <<[Frame("call", p, "thread") EXCEPT !.ev = ev]>> \o below
  ELSE state' = state /\ stack' = below

(* process_run(): poll the processes that ask for it, then one event. *)
RunPoll ==
  /\ stack = <<>> /\ stage = "poll"
  /\ stage' = "event" /\ pollreq' = FALSE
  /\ stack' = IF pollreq THEN <<Frame("poll", head, "visit")>> ELSE <<>>
  /\ UNCHANGED <<lists, state, needspoll, events, owed, ops>>

RunEvent ==
  /\ stack = <<>> /\ stage = "event"
  /\ stage' = "poll"
  /\ IF events = <<>> THEN UNCHANGED <<state, events, stack>>
     ELSE /\ events' = Tail(events)
          /\ IF Head(events) = Nil
             THEN stack' = <<Frame("bcast", head, "visit")>> /\ state' = state
             ELSE CallProcess(Head(events), "event", <<>>)
  /\ UNCHANGED <<lists, polls, ops>>

(* do_poll() clears the request first, so that none that comes during the  *)
(* walk is lost.                                                           *)
PollDone_Clears == FALSE
PollDone == pollreq

PollVisit ==
  /\ Is("poll", "visit")
  /\ IF Top.p = Nil
     THEN stack' = Under /\ pollreq' = PollDone /\ UNCHANGED <<state, needspoll, owed>>
     ELSE /\ pollreq' = pollreq
          /\ IF needspoll[Top.p]
             THEN /\ needspoll' = [needspoll EXCEPT ![Top.p] = FALSE]
                  /\ owed' = [owed EXCEPT ![Top.p] = FALSE]
                  /\ state' = [state EXCEPT ![Top.p] = "called"]
                  /\ stack' = <<[Frame("call", Top.p, "thread") EXCEPT !.ev = "poll"],
                                [Top EXCEPT !.at = "next"]>> \o Under
             ELSE /\ stack' = <<[Top EXCEPT !.at = "next"]>> \o Under
                  /\ UNCHANGED <<state, needspoll, owed>>
  /\ UNCHANGED <<lists, events, stage, ops>>

(* A broadcast event, with polls in between. *)
BcastVisit ==
  /\ Is("bcast", "visit")
  /\ pollreq' = (pollreq /\ Top.p = Nil)
  /\ stack' = IF Top.p = Nil THEN Under
              ELSE (IF pollreq THEN <<Frame("poll", head, "visit")>> ELSE <<>>)
                     \o <<[Top EXCEPT !.at = "call"]>> \o Under
  /\ UNCHANGED <<lists, state, needspoll, owed, events, stage, ops>>

BcastCall ==
  /\ Is("bcast", "call")
  /\ CallProcess(Top.p, "event", <<[Top EXCEPT !.at = "next"]>> \o Under)
  /\ UNCHANGED <<lists, polls, events, stage, ops>>

(* The walks go on with the pointer as it is after the call. *)
Advance ==
  /\ Is("poll", "next") \/ Is("bcast", "next")
  /\ stack' = <<[Top EXCEPT !.p = nxt[@], !.at = "visit"]>> \o Under
  /\ UNCHANGED <<lists, state, polls, events, stage, ops>>

-----------------------------------------------------------------------------
(***************************************************************************)
(* exit_process(p, from)                                                   *)
(***************************************************************************)
Exit(p, from) == [Frame("exit", p, "start") EXCEPT !.q = from]

ExitStart ==
  /\ Is("exit", "start")
  /\ stack' = IF ~OnList(Top.p) THEN Under
              ELSE (IF state[Top.p] # "none" /\ Top.p # Top.q
                    THEN <<[Frame("exitcall", Top.p, "thread") EXCEPT !.ev = "exit"]>> ELSE <<>>)
                     \o <<[Top EXCEPT !.at = "unlink"]>> \o Under
  /\ UNCHANGED <<lists, state, polls, events, stage, ops>>

Unlink_Head(p) == head' = (IF head = p THEN nxt[p] ELSE head) /\ nxt' = nxt
Unlink(p) ==
  /\ head' = IF head = p THEN nxt[p] ELSE head
  /\ nxt' = [r \in Proc |-> IF head # p /\ r \in Reach(head) /\ nxt[r] = p THEN nxt[p] ELSE nxt[r]]

ExitUnlink ==
  /\ Is("exit", "unlink")
  /\ Unlink(Top.p)
  /\ IF state[Top.p] # "none"
     THEN /\ state' = [state EXCEPT ![Top.p] = "none"]
          /\ owed' = [owed EXCEPT ![Top.p] = FALSE]
          /\ stack' = <<[Top EXCEPT !.at = "tell", !.q = head']>> \o Under
     ELSE stack' = Under /\ UNCHANGED <<state, owed>>
  /\ UNCHANGED <<needspoll, pollreq, events, stage, ops>>

ExitTell ==
  /\ Is("exit", "tell")
  /\ IF Top.q = Nil THEN stack' = Under /\ state' = state
     ELSE CallProcess(Top.q, "exited", <<[Top EXCEPT !.at = "told"]>> \o Under)
  /\ UNCHANGED <<lists, polls, events, stage, ops>>

ExitTold ==
  /\ Is("exit", "told")
  /\ stack' = <<[Top EXCEPT !.q = nxt[@], !.at = "tell"]>> \o Under
  /\ UNCHANGED <<lists, state, polls, events, stage, ops>>

-----------------------------------------------------------------------------
(***************************************************************************)
(* What the thread of a process does, and its return.                      *)
(***************************************************************************)
InThread == Is("call", "thread") \/ Is("exitcall", "thread")
Act == InThread /\ ops < MaxOps /\ ops' = ops + 1

(* process_post(); without effect when the queue is full. *)
Room == Len(events) < NumEvents

Post(to) ==
  /\ Act
  /\ events' = IF Room THEN Append(events, to) ELSE events
  /\ UNCHANGED <<lists, state, polls, stage, stack>>

(* process_post_synch() *)
PostSynch(q) ==
  /\ Act
  /\ CallProcess(q, "event", stack)
  /\ UNCHANGED <<lists, polls, events, stage>>

(* process_exit() *)
ProcessExit(q) ==
  /\ Act
  /\ stack' = <<Exit(q, Top.p)>> \o stack
  /\ UNCHANGED <<lists, state, polls, events, stage>>

(* process_start(): a process that is on the list is left alone. *)
Startable(q) == ~OnList(q)

ProcessStart(q) ==
  /\ Act
  /\ IF Startable(q)
     THEN /\ nxt' = [nxt EXCEPT ![q] = head] /\ head' = q
          /\ state' = [state EXCEPT ![q] = "called"]
          /\ stack' = <<[Frame("call", q, "thread") EXCEPT !.ev = "init"]>> \o stack
     ELSE UNCHANGED <<lists, state, stack>>
  /\ UNCHANGED <<polls, events, stage>>

(* The thread waits again, or has come to its end. *)
Return ==
  /\ Is("call", "thread") /\ state' = [state EXCEPT ![Top.p] = "running"]
  /\ stack' = Under
  /\ UNCHANGED <<lists, polls, events, stage, ops>>

End ==
  /\ Is("call", "thread") /\ ops < MaxOps /\ ops' = ops + 1
  /\ stack' = <<Exit(Top.p, Top.p)>> \o Under
  /\ UNCHANGED <<lists, state, polls, events, stage>>

ExitReturn ==
  /\ Is("exitcall", "thread")
  /\ stack' = Under
  /\ UNCHANGED <<lists, state, polls, events, stage, ops>>

(* process_poll(), from an interrupt at any time. *)
Poll(p) ==
  /\ state[p] # "none"
  /\ needspoll' = [needspoll EXCEPT ![p] = TRUE] /\ pollreq' = TRUE
  /\ owed' = [owed EXCEPT ![p] = TRUE]
  /\ UNCHANGED <<lists, state, events, stage, stack, ops>>

Step ==
  \/ RunPoll \/ RunEvent \/ PollVisit \/ BcastVisit \/ BcastCall \/ Advance
  \/ ExitStart \/ ExitUnlink \/ ExitTell \/ ExitTold
  \/ Return \/ ExitReturn

(* Processes are being told of the end of another. *)
Telling == \E i \in 1..Len(stack) : stack[i].k = "exit" /\ stack[i].at = "told"

(* Threads end, and make processes exit that are not in the middle of a    *)
(* call, but not when they are told of the end of another: this is what    *)
(* the list of processes stands.                                           *)
ProcNext ==
  \/ Step
  \/ ~Telling /\ (End \/ \E p \in Proc : state[p] # "called" /\ ProcessExit(p))
  \/ \E p \in Proc : Poll(p) \/ PostSynch(p) \/ ProcessStart(p)
  \/ \E p \in Proc \cup {Nil} : Post(p)

ProcSpec == ProcInit /\ [][ProcNext]_procvars

(* main() calls process_run() in a loop, and threads return. *)
ProcFairSpec == ProcSpec /\ WF_procvars(Step)

-----------------------------------------------------------------------------
ProcTypeOK ==
  /\ head \in Proc \cup {Nil} /\ nxt \in [Proc -> Proc \cup {Nil}]
  /\ state \in [Proc -> {"none", "running", "called"}]
  /\ needspoll \in [Proc -> BOOLEAN] /\ pollreq \in BOOLEAN /\ owed \in [Proc -> BOOLEAN]
  /\ events \in Seq(Proc \cup {Nil}) /\ Len(events) <= NumEvents
  /\ stage \in {"poll", "event"} /\ ops \in 0..MaxOps

(* The processes on the list are those that run, and the list ends: a walk *)
(* over it comes to NULL.                                                  *)
ListedRun ==
  /\ ProcTypeOK
  /\ \A p \in Proc : OnList(p) <=> state[p] # "none"
  /\ head # Nil => \E p \in Reach(head) : nxt[p] = Nil

(* Every process whose poll was requested is polled, or exits. *)
Polled == \A p \in Proc : owed[p] ~> ~owed[p]
=============================================================================

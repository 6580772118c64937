# TLA+ verification of 6P, sf-simple and TSCH in a Contiki-NG extension

The repository is Contiki-NG with a thesis project on top: a scheduling function,
`examples/ba_benjamin_ko/sf-simple.c`, that lets a child node negotiate TSCH cells with its
parent over 6P (RFC 8480, `os/net/mac/tsch/sixtop`), measures them and relocates the bad ones.
This directory models that extension and what it stands on: 6P, the scheduling function and its
application, the candidate cells and the blacklist, the delivery statistics, the TSCH schedule,
the TSCH queues, keepalives and synchronisation, and the timers and processes of the kernel. TLC
checks small instances; TLAPS proves the central invariants for every value of the constants.

Paths below are relative to the repository; `tsch/` is `os/net/mac/tsch/`, `sys/` is
`os/sys/`, `ex/` is `examples/ba_benjamin_ko/`; the `sixp-*.c` are in `tsch/sixtop/`.

## 1. Inventory

| Component | State it keeps | Operations | Interacts with |
|---|---|---|---|
| 6P transactions, `sixp-trans.c` | pool of `SIXTOP_MAX_TRANSACTIONS` blocks (default 1), per block state, peer, sequence number, command, sent-callback, ctimer | alloc, find, transit, process, timeout, free | 6P engine; ctimers |
| 6P engine, `sixp.c` | none of its own | `sixp_output`, `sixp_input`, `mac_callback`, error responses | scheduling function (calls up), sixtop (down) |
| 6P neighbours, `sixp-nbr.c` | `next_seqno` (uint8) per peer | alloc, set, reset, increment | engine, transactions |
| sixtop, `sixtop.c` | registered scheduling functions | `add_sf`, output, input | TSCH MAC |
| 6P packets, `sixp-pkt.c` | none | encode, decode | everything above |
| sf-simple, `ex/sf-simple.c` | `res_storage`, `req_storage`, `current_cell_to_be_relocated` | request and response handlers, sent-callbacks, `add_links`, `remove_links`, `relocate_links` | 6P, TSCH schedule, candidate cells |
| child, `ex/child.c` | `added_num_of_tx_cells`, list of cells to relocate, two protothreads | add process, relocate process | sf-simple, queue flush, 6P (`sixp_trans_find`), statistics |
| parent, `ex/parent.c` | auto-cell flags | registers sf-simple, installs auto cells | sf-simple |
| candidate cells, `ex/advanced_cell_alloc.c` | list of 9 candidates, blacklist ring of 5 | init, get, replace, update, push | schedule, sf-simple, child |
| PDR statistics, `tsch/tsch-slot-operation.c` | `pdrCellList`, `cellAmount`, indices of bad cells | count (interrupt), evaluate, delete (process) | child, slot operation |
| TSCH schedule, `tsch/tsch-schedule.c` | slotframes, links, neighbours' link counters | add, remove, look up, next active link | slot operation (interrupt), lock |
| TSCH queue, `tsch/tsch-queue.c` | neighbour table, a ring per neighbour, backoff | add, flush, remove, packet sent, time source | slot operation (interrupt), lock |
| TSCH MAC, `tsch/tsch.c` | association, input and dequeued rings, keepalive state | send, pending events, associate, keepalive, resynchronise, reset | queue, 6P, RPL glue |
| slot operation, `tsch/tsch-slot-operation.c` | current and backup link, current packet, lock, last synchronisation | transmission slot, reception slot, choice of the next link | queue, schedule, statistics |
| timers, `sys/etimer.c`, `ctimer.c`, `timer.c` | list of event timers, `next_expiration`, list of callback timers | set, reset, restart, stop, poll of `etimer_process` | clock interrupt, event queue |
| processes, `sys/process.c` | list of processes, event queue of fixed length, poll flags | start, exit, post, post_synch, poll, run | everything; polls from interrupts |

Everything else (IPv6, RPL, CSMA, application protocols, storage, platforms, the other TSCH users) is
upstream Contiki-NG that the extension only runs on; PROJECT.json lists it as not modelled.

What is hard here:
- a 6P transaction is driven by four independent sources (received frames, reports of the MAC, two
  kinds of ctimer, the application's own processes), the MAC keeps a raw pointer to the block
  while its packet is queued, and acknowledgements get lost so that the two ends disagree;
- processes are cooperative, but slot operation runs in interrupts: statistics, queues, schedule
  and keepalive state are shared with it, guarded by a lock that some functions take, some only test
  and some ignore;
- functions call back: freeing a packet calls the sender's callback, which may send the next one;
  a process that exits tells all the others in the middle of a walk over their list;
- fixed sizes everywhere: rings, pools, the event queue, an array of 20 indices, uint8 counters,
  a clock that wraps.

PROJECT.json ("hazards") gives each at its line with the properties that would show it going wrong.

What makes the system correct: at most one transaction per peer, each timed and finally freed; a
delayed response never taken for another one; the schedules of child and parent agree; a cell is
offered only if it is free, distinct and not interfered with; statistics that stay a ratio and are deleted for
the cells that were relocated; a pool of links and one of packets without leaks; every packet
reported exactly once; no frame sent under the lock; no expiry, poll or keepalive forgotten.

## 2. Modules

| Module | Contents |
|---|---|
| `SixpOps` | one node's 6P layer as operators from state to state, one per C function |
| `Sixp` (extends `SixpOps`) | nodes running it over a lossy MAC with an arbitrary scheduling function |
| `SfSimple` (extends `Sixp`) | sf-simple, the schedule it writes and the processes of `child.c`: every step is a step of `Sixp` conjoined with what the scheduling function does in it |
| `CandCells` | candidate list, replacement loop, blacklist ring, and their callers |
| `PdrStats` | delivery statistics: interrupt, evaluation, relocation, deletion |
| `TschSchedule` | slotframes, links, counters, the lock, the choice of the next link; implements `LinkSet` |
| `LinkSet` | abstract: a set of links, at most one per timeslot of a slotframe |
| `TschQueue` | queues, pool of packets, transmission slots, callbacks, leaving the network; implements `MacQueue` |
| `MacQueue` | abstract: first in first out per neighbour, each packet reported once: what `Sixp` assumes of its MAC |
| `TschNet` | joining, keepalives, time source, resynchronisation, leaving |
| `Timers` | etimer, ctimer, clock and event queue |
| `Processes` | the process scheduler |
| `MC...` | values of the constants and symmetry for TLC |
| `SixpProofs`, `SfSimpleProofs`, `CandCellsProofs`, `PdrStatsProofs`, `TschNetProofs`, `TschScheduleProofs`, `TschQueueProofs`, `KernelProofs` | theorems |

`SfSimple` composes with `Sixp` by conjunction of actions. The modules below are checked against each other
through what they promise: `TschQueue` implements `MacQueue`, whose order and single
report are what the queues of `Sixp` rely on (the composition itself is not stated, see section 3.3);
`TschSchedule` implements `LinkSet`, the set that `SfSimple` and `CandCells` use as the schedule. `Timers` and `Processes`
stand behind the fairness of the ctimers and etimers above.

Definitions with a suffix (`Push_NoHead`) that nothing uses are variants of the definition of the
same name with a plausible mistake; each breaks the property PROJECT.json ("mutants") gives for it.

Interrupts and processes: a handler of a process is one action where nothing it does can be
observed from an interrupt or by a callback (`Sixp`, `SfSimple`, `CandCells`); elsewhere it is
cut between the accesses to what interrupts share with it (in `PdrStats` down to the single counters and
the fields of a struct that is copied; in `TschSchedule`, `TschQueue` and `TschNet` at the lock, the indices of the rings,
the calls made and the saved status, with accesses in the order of the program), with a
program counter (`TschSchedule.pc`, `PdrStats.proc`, `TschNet.pend.at`) or, where calls nest, a stack (`TschQueue.proc`, `Processes.stack`).

### SixpOps and Sixp

A node is a record `trans` (the blocks of `trans_memb`), `nbr` (next_seqno or `NoNbr`), `queue`
(packets handed to TSCH per peer, oldest first) and `sf` (a scheduling function is registered).
`trans[s].timer` says what the block's single ctimer will run: `handle_trans_timeout`,
`process_trans` (`schedule_trans_process` sets it with delay 0) or nothing. A packet's `ptr` is
the block given to the MAC as callback argument; `heard` says that the receiver has got it;
`req` is a history field, the identity of the request a frame belongs to, which no guard reads.

| Action | Code |
|---|---|
| `AddSf(n)` | `sixtop_add_sf()` |
| `Request(n, p, ...)` | the application may empty the queue to `p` (`tsch_queue_free_packets_to()`), then `sixp_output()` for a request with all its failures |
| `Input(n, ...)` | `tsch_rx_process_pending()` to `sixp_input()`, the upcall and the answer the scheduling function sends from inside it |
| `Transmit(n, p)` | the oldest packet is received by `p`; later copies are dropped by `packet_input()` |
| `MacDone(n, p, ok)` | `tsch_tx_process_pending()` and `mac_callback()`; `ok` needs `heard`, a packet that was heard may still be reported as failed (lost acknowledgement) |
| `Timer(n, s)` | the ctimer of block `s` fires |
| `Reboot(n)` | power cycle |

What sixtop_output() may do with a frame is the parameter `res`: `queued`, `refused` (the MAC
calls `mac_callback` at once), `failed` and `dropped` (-1, with and without callback).

Abstractions: a message body is an element of `Body`; the report of a packet is delivered before
the next packet to the same peer is transmitted (the dequeued ring is not separate from the queue, except
that a flush may find the oldest packet already acknowledged: mode `unacked`, or still
unacknowledged: `all`); exhaustion of the neighbour table, failure of `sixp_pkt_create()`,
malformed packets and several scheduling functions per node are left out; sf-simple's error
handler is NULL, so an inconsistency is only answered. `sixp_trans_init()` of a running node is not called
in this tree; `sixp_trans_abort()` is called once, by `sixp_output()` when `sixtop_output()` has failed for a request
(`sixp.c:524`), where `OutputRequest` has its effect.

### SfSimple

`sf[n]` holds the schedule as a set of links, the first cell of `res_storage` and
`current_cell_to_be_relocated`. A cleared `res_storage` reads as cell (0, 0), the minimal cell.
The handlers are operators that return the set of possible outcomes (a reply with its body and
sent-callback, or none, and the new state); `Receive` conjoins `Input` with an outcome, `Report`
conjoins `MacDone` with the sent-callback. The request-sent callbacks only log and are `"NONE"`.

The child's add process is `AddCheck` (no transaction is running; then it senses, yielding) and
`AddSend` (flush, request, count); the relocate process is `Evaluate` (any set of the child's
transmission cells may turn out bad) and `RelocSend` (one cell, when no transaction is running).
`RemoveSend` is sf-simple's Delete, which the application does not use at present. `app.clean` is
a history: no acknowledgement was lost and no timeout overtook a frame so far.

Abstractions: `num_links` is 1, as in every call; which feasible candidate comes first is a
choice; of the candidate list `Candidates` keeps that its cells have different timeslots. These timeslots are free
when they are drawn but may be taken when the request is sent: a RELOCATE response replaces the candidate
before its link is added (`sf-simple.c:571`), so that the timeslot of the new cell may be drawn, with any channel, and the first list
is drawn before the auto cells are installed. `Candidates` is larger than what the code can draw: any timeslot may be
taken. The exception is the timeslot in which the parent transmits to the child: a candidate in it is never granted, because the parent
finds its own link there, and so is left out;
cells are never 0xffff; the pool of links never runs out and the TSCH lock is always
available; the auto cells are installed at the start and the nodes are not power-cycled; no UDP
traffic shares the queue.

### CandCells

`cand` and `bl` are the two static structures, with `NoCell` for what the arrays hold before they
are written; `calls` lists what the running handler has still to call, so that
`replace_candidate_cell()` may need any number of steps: `StartCall` finds the entry, each `Draw`
is one round of its `while` (random cell, test against schedule, list and blacklist, entry
written whenever the scan of the blacklist comes to its end), `at` is the entry. The code reads
the ring at `head + a` without the modulus: `Accepted` has a parameter `stray` for what lies past the array, which
the model leaves free. `StartUpdate`/`UpdateHit`/`UpdateEnd` are `update_cand_cell_list()` with its two loops, one step per
candidate found interfered with, from either process; `UpdateEnd` builds the ADD request in the same turn. `Response` makes the calls
of sf-simple's response handler in their order, which differs between ADD and RELOCATE.
`recent` is a history of the cells pushed last.

### PdrStats

`TxDone` is the end of a transmission slot to the time source (interrupt): skip what is being
relocated, count, halve at `MaxTx`, or insert. The process is cut at each access to what the two share. The evaluation reads the two
counters of a cell one after the other, in either order (`EvaluateCell`, `EvaluateRatio`; bad is less than half of
the transmissions successful), and notes it (`EvaluateNote`) in a third step, up to which the interrupt may go on counting in it:
the cell need not be bad any more when it is noted. `Relocate` and `RelocateEnd` follow, then the deletion, entry by entry: `DeleteStart`,
`DeleteCopy` (one field of the struct at a time, in any order), `DeleteAmount` and `DeleteShrink` (`cellAmount` read and written).
Histories: `raced`, a cell was inserted in the middle of a deletion; `torn`, transmissions
counted in an entry while it was moved or overwritten; `kept`, the entries noted as they were when their index became visible to the
interrupt. A counter is relevant once the window was full.

### TschSchedule and LinkSet

Blocks of `link_memb` keep their contents when freed (`link`, `used`), since slot operation may
still point at them. A call of the interface is split at the lock: `Begin` (the checks before),
`TakeLock` (busy wait of `tsch_get_lock()` with the request flag), `ClearCurrent`, `Commit`, `Release`, `CountTx` (the neighbour's
counters, changed after the lock is released). `todo` holds the calls a function makes one after
the other: removing a slotframe removes its links one by one, adding a link first removes those of
its timeslot. Slots (`SlotSkip`, `SlotStart`, `SlotEnd`) come between any two steps; `NextActive` is
`tsch_schedule_get_next_active_link()`, one `Visit` per link, and `NextActiveIs` its definition.

### TschQueue and MacQueue

Blocks of `packet_memb` and the rings with their put and get indices are explicit. `proc` is the stack of
calls: `Send` (`send_packet()`: lock, neighbour, block, put), `FreePacketsTo` (flush: test the
lock, get, call back, free), `Poll` (`tsch_tx_process_pending()` and
`tsch_queue_free_unused_neighbors()`), `Reset`. A callback may send again, which nests. A slot
is `SlotPass` (no packet, or TSCH locked, or no room in the ring of finished packets) or
`SlotBegin` and `SlotEnd(ok)`; backoff windows are drawn from all values of the exponent.

### TschNet

One node that is not the coordinator. One tick is the keepalive timeout (12 s); `Desync` is the
threshold (120 s in the code) in ticks. Slots receive (`SlotRx`: data, beacon, or a beacon with another ASN), transmit a keepalive (`SlotTx`:
acknowledged, not acknowledged although the neighbour may be there, or not sent because the channel is busy or the radio fails)
or find synchronisation lost (`SlotDesync`). `tsch_pending_events_process` is `PendStart`,
`EbInput`, `EbInputEnd`, `KeepalivePacketSent`, `SaveStatus`, `ProcessPending`: the saved status
and the cleared one are two steps, an interrupt between them may ask for a keepalive. `Wake`,
`Reset` are `tsch_process`; `Fire` the ctimer; `ParentSwitch` the RPL glue; `Die` stops a
neighbour. `age.setbacks` is a history: what has happened since the node was last in time that may cost it a
keepalive timeout, a keepalive unacknowledged, not sent or refused, or another time source.

### Timers and Processes

`Timers`: `Tick` is the clock interrupt, `EtimerPoll` the poll of `etimer_process` over the list,
with the retry when the event queue is full; `Deliver` hands the first event to `ctimer_process`, which recognises a timer by its address, or
to the application. All arithmetic is modulo `Width`. `Processes`: `RunPoll` and `RunEvent` are
the two halves of `process_run()`; the walks over the list of `do_poll()`, a broadcast and `exit_process()`
are stack frames that hold a pointer into the list; a thread in a call may post, post
synchronously, start, exit, or make others exit.

## 3. Runs

All runs use two workers and end within a few minutes. `CHECK_DEADLOCK FALSE` in the 6P runs only: when the
requests of the bound are used up and answered the system rests, as the real one does.

| Run | Checks | Shows |
|---|---|---|
| `pair` | `OneTransPerPeer`, `TimerArmed`, `ClearKeepsZero`, `ZeroOnlyByClear` | two nodes, both initiators, 2-step, 3-step and CLEAR, numbers that wrap at 1, refused and failed output, one power cycle |
| `single` | `ResponseMatchesRequest`, `TransactionsEnd` | one initiator, all faults, all flushes: a delayed response never matches a later request; every transaction leaves the list |
| `hub` | `InputIsolated` | three nodes, one block: the busy path disturbs nobody |
| `sf` | `SchedulesAgree`, `MinimalCellKept`, `CellsAddUp`, `AddingFinishes` | Add, Delete and Relocate over a MAC that loses acknowledgements: the schedules agree when 6P is idle as long as no acknowledgement was lost and no timeout overtook a frame; in any case the minimal cell stays, responses change the cells by what was asked (a grant replaces the cell in its timeslot, which there is none as long as nothing was lost), the add process reaches its target |
| `cand` | `CandidatesDistinct`, `BlacklistHoldsRecent`, `NotBlacklistedUntilFull`, `AddedNotCandidate`, `AddOffersClean`, `ReplaceReturnsBlacklist` | both processes, responses in any order, a schedule that changes |
| `cand_hang` | `ReplaceReturns` (violated) | with an empty blacklist the replacement loop never ends |
| `pdr` | `CountersSound`, `DeletionSound`, `OneEntryPerSlot` | the interrupt between any two accesses of the process to what they share |
| `sched` | `PoolConsistent`, `TxExcludesLock`, `CurrentScheduled`, `NextActiveCorrect`, `CallsEnd`, `ImplementsLinkSet` | every call of the interface under slots that go on; the current link is never a removed one (not so the backup link); the search for the next link against its definition for all lists of up to three links; the refinement |
| `queue` | `OneOwner`, `ReportedOnce`, `SendsFirst`, `ImplementsMacQueue`, `AllReported` | packets with and without a cell of their own, callbacks that send again, flushes, leaving and joining (not while a slot sends from the queue in question); the refinement |
| `timers` | `ListSound`, `ExpiryNoticed`, `CalledBack` | the clock wraps, the event queue fills up, a process exits |
| `procs` | `ListedRun`, `Polled` | nested calls, exits, broadcasts, polls at any point |
| `net` | `KeepaliveComing`, `StaysInSync`, `Recovers`, `Rejoins` | two neighbours, one may stop, parent switches; keepalives refused, unacknowledged or not sent, also to a neighbour that is there |

The type invariants of `Sixp`, `SfSimple`, `CandCells`, `PdrStats` and `TschNet` are proved (section 4), those of the other modules
are part of the first property of their run.

### 3.1 Bounds

6P: `MaxSeqno` 1 makes every increment wrap and 3 or 4 let several numbers be live; `MaxTrans` 1 is
the default of the code, 2 in `pair` lets a second block be wrongly used; `MaxRequest` 2 or 3 is enough
for a stale transaction, a current one and a reuse of a block or number; `MaxQueue` 1 or 2 reaches the full queue;
`MaxRx` bounds the input ring. `sf`: two candidate cells in one timeslot, with different
channels, and two auto cells, so that candidates can be infeasible, be exhausted, collide and share the timeslot of a scheduled
cell; three requests, one relocation.

`cand`: lists of two, a ring of two, so that the third push overwrites; three of five timeslots are
interfered with, and at most two cells are scheduled, so that a free cell may or may not exist.
`pdr`: three timeslots, two of them with a link at a time, and a list of three, so that the list is full and an entry outlives
its link; a window of four, so that halving happens with odd and even counters; one transmission counted in an entry that is being moved (`MaxTorn`). `sched`: two links in the pool, so that it runs out after one
has been removed; slotframes of lengths 2 and 1, that overlap; four calls. `queue`: two blocks, room for
one in the ring of finished packets, three packets, backoff exponents 0 and 1. `timers`: a clock of 16
ticks that starts at 15, intervals 1 and 2, two ticks, a queue of two events. `procs`: three processes, four operations of
threads. `net`: synchronisation is lost after three keepalive timeouts instead of ten, so that one or two setbacks must not lose it; one frame and one keepalive in the rings, one parent switch.

### 3.2 Fairness

* 6P: only ctimers (`WF` of `Timer`); nothing is assumed of the peer, the MAC or the radio.
* `sf`: the child's etimers and ctimers expire and its processes run. Nothing is assumed of the parent.
* `cand`: handlers run to their end, and `random_rand()` comes back to every cell (`SF` of `Draw`).
* `sched`: the processor returns to the process after an interrupt, a slot comes to its end.
* `queue`: in addition `process_run()` handles polls before events (`SF` of `Poll` and `Reset`), and the
  slots of every link come again and again (`SF` of `Slot(l)`), since the slotframe repeats.
* `timers`, `procs`: `process_run()` is called in a loop by `main()`.
* `net`: processes are scheduled, `tsch_process` and the timer get their turn however often the
  pending events are polled, slots come, time passes, and a node that scans hears a beacon sometime.
  Synchrony: `Tick` waits until what is due is done (`Quiet`), because the keepalive
  timeout is 12 s and handling takes milliseconds.

### 3.3 Assumptions, where the code does not see to it itself

Some properties hold of the code under a condition that the code does not enforce; the module says so
in the property or in its specification, and section 3.4 says what happens without it.

* `SchedulesAgree`: `app.clean`. Without it no protocol with one acknowledgement could keep the schedules equal.
* `NotBlacklistedUntilFull`: the ring has not yet filled up.
* `OneEntryPerSlot`: no insertion in the middle of a deletion (`raced`). `CountersSound`, but for the division by zero: nothing
  is counted in an entry while it is moved (`torn`), and the entry being overwritten is excepted.
* `CurrentScheduled`: says nothing of `backup_link`, nor of the burst after a backup has taken over.
* `TschQueue`: `Disturbed` states are excluded, a slot that is sending from a queue while
  `tsch_queue_free_packets_to()` works on that queue, or while a process leaves the network. The code allows both (3.4), and the
  four safety properties of `queue` do not hold then. `IsUnused` does not spare the time source as the code does (`tsch-queue.c:407`): more behaviours.
* `Processes`: a thread makes processes exit only if they are not in the middle of a call, ends by itself otherwise, and nobody
  exits while being told of another exit: what this tree's threads do.
* `StaysInSync`: fewer setbacks since the last synchronisation than keepalive timeouts in the threshold. With as many losses in a row the
  node does lose synchronisation, as it must. `MaxSwitch` bounds the parent switches between two synchronisations; the switch to no
  time source at all counts as the whole threshold.
* `CellsAddUp`: `app.clean` for the part that says that a grant replaces nothing.
* `sched` runs with room for every neighbour in the table.
* `Sixp` lets a flush be followed by the report of the flushed packet only; that `TschQueue` implements `MacQueue` under the assumption
  above supports it, but the composition of the two is not a run.

### 3.4 Disagreements met in the code

`cand_hang` has a run. The others were met while modelling; each is described where it is, and the models either
show the behaviour without a property over it or exclude it by an assumption above.

| Where | What |
|---|---|
| `ex/advanced_cell_alloc.c:88` | (`cand_hang`) the entry is written, and the loop's end counted, only inside the loop over the blacklist: with an empty blacklist `replace_candidate_cell()` does not return |
| `ex/advanced_cell_alloc.c:113` | the scan reads `buffer[head + a]` without the modulus: after more than `BLACKLIST_MAX_SIZE` pushes it reads past the array and misses the newest entries |
| `ex/sf-simple.c:571` | the RELOCATE response replaces the candidate before the link is in the schedule: the draw may return the timeslot of the cell just added, with another channel. The parent refuses such a candidate as long as the schedules agree; after a loss it may grant it, and the grant then replaces the cell instead of adding one |
| `ex/child.c:168` | after waiting for the last transaction the add process yields while sensing and does not look again; a refused request is counted as a cell |
| `sixp-trans.c:270` | with two initiators the override of next_seqno on RESPONSE_SENT moves it back, and a delayed response can match a later request, which `sixp.c:496-504` says is prevented |
| `sixp-trans.c:185` | freeing a block whose packet the MAC holds is deferred, but not after a timeout: the state is TERMINATING by then, and `mac_callback()` gets a stale pointer |
| `tsch/tsch-slot-operation.c:208` | the two counters are read while the interrupt halves them: a total read before and successes read after it make a good cell look bad (30 successes in 31 read as 15 in 31), and one that has become good meanwhile is still noted |
| `tsch/tsch-slot-operation.c:213` | indices of bad cells are written to an array of 20 without a bound |
| `tsch/tsch-slot-operation.c:244` | each deletion moves the last entry without adjusting the later indices: if the last one is itself to be deleted, another entry is dropped in its stead |
| `tsch/tsch-slot-operation.c:244` | the struct is copied while the interrupt counts in it: counts are lost, or one counter is old and the other new |
| `tsch/tsch-slot-operation.c:245` | an insertion by the interrupt between copy and decrement is lost, and the copied entry stays twice |
| `tsch/tsch-schedule.c:308` | a removed link is taken from `current_link`, not from `backup_link`, which slot operation may use next |
| `tsch/tsch-schedule.c:278` | a link added with the neighbour table full is not counted, its removal decrements the uint8 counter from 0 |
| `tsch/tsch-queue.c:327` | the flush tests the lock without taking it: with a slot sending from the queue, a packet is reported and freed twice |
| `tsch/tsch.c:210` | `tsch_reset()` frees the packet in transmission and clears `current_link`, which the end of the slot still uses |
| `tsch/tsch.c:1152` | `header_len` is written after the packet is visible to slot operation |
| `tsch/tsch.c:170` | `tsch_set_coordinator()` clears `tsch_is_associated` without polling `tsch_process` |
| `tsch/tsch.c:193` | each change of the time source restarts the keepalive timer: changed often enough, no keepalive is ever sent |
| `tsch/tsch.c:272` | the node followed after a loss may itself follow this node; and with a full neighbour table the switch fails unnoticed and the old time source stays |
| `sys/ctimer.c:72` | an event still queued calls back a timer that has been stopped and set again, at once; 6P reuses blocks with their timers |
| `sys/etimer.c:209` | `etimer_adjust()` requests no poll and may put the expiry in the past; nothing in the tree calls it |
| `sys/process.c:216` | `process_exit()` of a process in the middle of a call is undone by `call_process()` on return |
| `sys/process.c:244` | `do_poll()` walks on from a process removed meanwhile and may run one that has exited |

## 4. Proofs

Every theorem holds for all values of the constants that satisfy the ASSUMEs of its module (sizes are naturals,
rings have a place, the null address is no node, the callers' sets are sensible).

* `SixpProofs`: `TypeCorrect`, `OneTransaction`, `TimersArmed`, `ClearAssertion`. The invariant is `Inv`:
  the types, and for every node `NodeInv`, which adds to the three properties that a block in use
  names a peer. They need each other: a late `mac_callback()` on any block keeps the timer
  invariant because unlisted states are never left by it, and a CLEAR's zero is kept because no other listed
  transaction with that peer exists that could override next_seqno. Each operator of
  `SixpOps` gets a lemma that it keeps `NodeInv`, so `InvStep` has one short case per action. `ZeroByClear` and
  `FramesIsolated` are action properties: a second set of lemmas says which neighbours each operator touches.
* `ResponsesMatch` (same module): a node `i` starts the transactions. For every peer there is a set of pairs of a sequence
  number and a request (`Numbered`): it holds the pair of every listed transaction between the two, of every packet queued and of every frame in the
  air, a number in it belongs to one request, and all are below the next number (`OneRequest`). A step only copies pairs that are
  there (`Derives`), but for a new request, whose number is the next one, which then moves on. `Roles`: `i` answers nothing and
  the others ask nothing, so only a new request changes the numbers of `i`. Without any one of the hypotheses (`OneInitiator`) TLC finds
  a delayed response that is taken for the answer to a later request: two initiators and four requests, a CLEAR, a power cycle, or numbers that wrap.
* `SfSimpleProofs`: `SfTypeCorrect`, `SfRefinesSixp` (every step of SfSimple is a step of Sixp or leaves 6P alone;
  the mapping is the identity on the shared variables) and `SfOneTransaction`. `SfInv` adds to `Inv`
  that the cells the child transmits in are cells a request may name. `SfMinimalCell`: what is removed or replaced is
  always a transmission cell of the peer, and what is installed is never (0, 0).
* `SfSchedulesAgree` (same module) has the invariant `AgreeInv`, which speaks of clean runs. The child waits for the
  answer to at most one request, `Asking`. Of that request at most one frame is on its way: the request itself in the
  child's queue, in the air or in the parent's ring; or a response in the parent's queue or the child's ring. The two
  schedules are mirror images except during such an exchange: the parent makes its change when its MAC reports the response, the
  child when it handles it, in either order, and `SameCells` says for each of the four combinations which cell
  makes the difference (`Granted`). Error responses to requests that the child has given up may be left over; they carry
  a sequence number that does not match. A flush or an expired timer ends the exchange before the parent has answered, or makes
  the run unclean.
* `SfCellsAddUp` (same module) has the invariant `CellsInv`, under the assumption that only the child starts transactions
  (`OneInitiator(Child)`, and with it the numbers of `ResponsesMatch`). `Flow` speaks of the frames of the transaction the child waits in, in
  whatever queue they are, and of the schedule as the child has it now, which a single outstanding transaction leaves alone until it
  is answered: the request names transmission cells of the child if it is a DELETE, and otherwise cells of any timeslot but that of the
  listening cell (`Offers`); a successful answer names at most one cell of the first kind, or exactly one of the other (`Grants`). In a clean
  run the timeslot of that cell is free at the child, because it is free at the parent, which looks before it grants, and the schedules agree
  (`AgreeInv`); in other runs it may be taken (`Contested`), and the link added replaces what is there. `ChildCells`: the child listens in its auto cell
  alone, and no cell that it transmits in or relocates has that timeslot.
* `CandCellsProofs`: `CandTypeCorrect`, `AlwaysDistinct`, `RingHoldsRecent`. Distinctness is not inductive, since the
  loop writes duplicates to the entry it works on: `OthersDistinct` says that the entries other
  than that one are distinct, and the loop is left only with a timeslot that no entry has. For the
  ring, `RingShape` relates tail to head and count modulo the size; the entries move by one when the oldest is overwritten.
  `AddedNeverOffered` and `BlacklistRespected` rest on one observation about the calls of a handler: whatever makes a candidate
  unfit, its link added or its cell pushed to the blacklist, is followed by the call that replaces it. `OffersClean`: the
  sensing run that sends the request has compared every pair.
* `PdrStatsProofs`: `TypeCorrect`, `CountersAlwaysSound`, `DeletionStaysSound`, `OneEntry`. `Progress` relates the loop
  index of the process to the lengths of the two lists: the evaluation notes fewer cells than it has looked at, each deletion uses up
  one entry, and the interrupt only appends. Soundness of an entry is kept by counting, halving, dropping and by copying all fields;
  while the fields are copied one by one the entry is a mixture of two sound ones as long as nothing was counted in between. The indices
  stay fresh because the interrupt skips a timeslot from the moment its index is visible. `OneEntry`:
  the entry that is overwritten takes the last one's timeslot at some field of the copy; the others are distinct throughout.
* `TschNetProofs`: `NetTypeCorrect`, `KeepaliveAlwaysComing`. The invariant adds that there is a keepalive timeout exactly
  while there is a time source (`TimeoutForSource`: `ProcessPending` starts the timer only with a timeout) and that whoever
  asks for a keepalive also polls (`AskedIsPolled`); with these the cleared status is never the last trace of a request.
  `SyncKept`: each timeout that has passed since the last synchronisation is paid for by a setback, except the one whose
  keepalive is on its way (`InTime`); the last setback of the threshold is the one that loses synchronisation.
* `TschScheduleProofs`: `LockExcludesTx`: the lock is held exactly during the steps of a call that are made under it, and
  taken only outside a slot. `PoolSound` needs what a call has found out before it waited for the lock (`CallInv`), since the lists may
  have changed in the meantime; `CurrentIsScheduled` follows with it, for `current_link` between two slots, not for `backup_link`. `LinkSetImplemented` is the refinement of
  `LinkSet`, provided that links are added with `do_remove` as all callers do: without it two links of one timeslot are possible. `NextActiveRight` proves
  the search against its definition for every list: the fold over the links keeps the definition true of
  the links visited so far.
* `TschQueueProofs`: `FirstIsSent`, `BlocksOwned`, `PacketsReportedOnce`, `MacQueueImplemented`, all under the exclusion of
  `Disturbed` states (3.3). The invariant says for every frame of the
  stack of calls what it holds and what it has already given away; two frames never hold the same block. The indices of
  a ring wrap at its size, and lemmas say what a put and a get do to the sequence of its contents. The refinement
  reads the abstract queues off the rings, and finished packets as the blocks in use that no ring and no caller has.
* `KernelProofs`, the timers: `ListStaysSound`, `NoExpiryMissed`, for a clock of any width. `update_time()` computes the smallest
  distance to an expiry modulo the width; that no listed timer is older than half a round (`Young`) makes the comparison
  modulo the width the comparison of ages. Assumed: the intervals and the ticks of the run are together less than half a round:
  with longer ones the comparison of wrapping times is meaningless.
* `KernelProofs`, the process scheduler: `ListHoldsRunning`, `NoThreadReentered`, `PollsKept`, for any processes and any depth of calls. The invariant
  is `ProcInv`. The list (`IsList`) is the set of processes that run, in an order that the pointers follow: this is what stays true while
  pointers are read by walks that a call has interrupted. `StackInv` speaks of the functions in progress: of each pair, `Above` says what may have been
  called from what: no process that is called is called again or made to exit, and nobody exits while told of another's end. `PollOK` is the delicate part:
  `do_poll()` keeps a pointer to the process it polled and goes on from it, and that process may have been taken from the list; what
  its pointer leads to is on the list all the same, because nobody else leaves the list while the others are told of that end. It is needed because `do_poll()` sets the
  state of what it finds without looking at it. It rests on the assumption on exits of section 3.3. `PollsKept` is the safety core of `Polled`: who is owed a poll is ahead of a
  walk (`Ahead`), or a walk is due; each change of the list has a lemma (`AfterLink`, `AfterUnlink`, `PointsAfter`) that it loses no process ahead of a walk.

The library's induction rules cannot be used here, but induction over the positions of a sequence is available in set form: a
set of numbers that contains 0 and with each number the next is the whole interval, since otherwise the complement has a
least element (`Induction`, `Least` in `TschScheduleProofs` and `KernelProofs`). Every recursive function of the models that has a
theorem is treated so.

Every safety property and every refinement that a passing run checks has a theorem. Only model-checked: liveness
(`TransactionsEnd`, `AddingFinishes`, `ReplaceReturnsBlacklist`, `CallsEnd`, `AllReported`, `CalledBack`, `Polled`, `Recovers`, `Rejoins`), since
the prover has no rules for fairness and ENABLED; of these `ExpiryNoticed` and `PollsKept` are the part that is an invariant.
That the loop of `replace_candidate_cell()` never ends (`cand_hang`) is a counterexample and needs no proof.

## 5. Not modelled

* Frame formats (`sixp-pkt.c`, `tsch-packet.c`), security, radio timing within a slot, channel hopping,
  drift correction (`tsch-adaptive-timesync.c`): the properties tell frames apart only by what arrived and from whom.
* The coordinator, scanning, sending of beacons and the automatic choice of a time source: `TschNet` models a node that has joined by a beacon.
* What the overflow of the array of 20 indices does to the memory behind it; what lies past the blacklist's array is a free choice in `CandCells`.
* Statistics, logging, LEDs, UDP traffic of the example, the network interferer (its effect, lost frames, is in the MAC models).
* The rest of Contiki-NG (IPv6, 6LoWPAN, RPL, CSMA, application protocols, file systems, drivers,
  platforms, Orchestra and the tsch-cs services) is upstream code that the extension does not change. It is the bulk of the
  repository, and 6P neither calls it nor is called by it, apart from the parent switch of RPL, which is in `TschNet`.

## 6. What could come next

1. The composition of `Sixp` with `TschQueue` in place of its own queues, on one pair of nodes: `MacQueueImplemented` is the half of it
   that speaks of the queues, the other is that `Sixp` uses them as `MacQueue` allows.
2. `SixpPkt`: encoding and parsing of the 6P body as operators on byte sequences, against the record that `SixpOps` uses. The inverse of
   one to the other is an induction over the bytes, which stays with TLC.

----------------------------- MODULE CandCells -----------------------------
(***************************************************************************)
(* The child's candidate cells and its blacklist (advanced_cell_alloc.c),  *)
(* driven by the two 6P processes of child.c and the response handler of   *)
(* sf-simple.c.  A cell is <<timeslot_offset, channel_offset>>.            *)
(*                                                                         *)
(* The processes are cooperative, so that a handler runs to its end before *)
(* another one starts.  Its calls are kept in "calls" and made one by one, *)
(* and the loop of replace_candidate_cell(), which need not end, makes one *)
(* step per draw.                                                          *)
(***************************************************************************)
EXTENDS Integers, Sequences, FiniteSets

CONSTANTS
  MaxSlot,        \* TSCH_SCHEDULE_CONF_DEFAULT_LENGTH - 1 (100)
  Channel,        \* channel offsets, 0 .. NUMBER_OF_CHANNELS - 1
  ListLen,        \* CAND_CELL_LIST_LEN (9)
  Size,           \* BLACKLIST_MAX_SIZE (5)
  MaxLinks,       \* SF_SIMPLE_MAX_LINKS (4)
  Interfered,     \* network_interfere_cells[], in order
  AutoSlot,       \* timeslots of add_mock_auto_cell() (5, 50, 80, 90)
  Relocates,      \* whether the relocation process runs
  MaxSched        \* bound: timeslots in the schedule

Slot == 1..MaxSlot
Cell == Slot \X Channel
NoCell == <<0, 0>>   \* what the static arrays hold before they are written

ASSUME SizeAssumption ==
  /\ MaxSlot \in Nat /\ Channel \subseteq Nat /\ Channel # {}
  /\ ListLen \in Nat \ {0} /\ Size \in Nat \ {0} /\ MaxSched \in Nat
  /\ MaxLinks \in 2..ListLen
  /\ Interfered \in Seq(Cell) /\ AutoSlot \subseteq Slot
  /\ Relocates \in BOOLEAN

VARIABLES
  cand,    \* candidate_cell_list[]
  bl,      \* blacklist: buffer, head, tail, count
  sched,   \* links of slotframe 0, the minimal cell aside: <<timeslot, origin>>
  calls,   \* the calls the running handler still has to make
  at,      \* entry that replace_candidate_cell() is replacing, or 0
  scan,    \* where update_cand_cell_list() is, and the process it runs for
  pend,    \* the 6P request waiting for its response
  recent   \* history: the cells pushed last, oldest first, at most Size

vars == <<cand, bl, sched, calls, at, scan, pend, recent>>

Index == 1..ListLen
NoScan == [by |-> "none", i |-> 1, j |-> 1, hit |-> FALSE]
NoRequest == [cmd |-> "none", cells |-> {}, rel |-> 0]

(* The calls a handler makes: replace the candidate in a timeslot, replace *)
(* whatever entry i is then, add a link for a response, remove a link.     *)
Origin == {"ADD", "RELOCATE", "auto"}
Call == [do : {"replace", "entry", "unlink"} \cup Origin, arg : Nat]
Replace(ts) == [do |-> "replace", arg |-> ts]
Entry(i) == [do |-> "entry", arg |-> i]
AddLink(cmd, ts) == [do |-> cmd, arg |-> ts]
Unlink(ts) == [do |-> "unlink", arg |-> ts]

Scheduled == {l[1] : l \in sched}
Without(ts) == {l \in sched : l[1] # ts}

Idle == calls = <<>> /\ at = 0 /\ scan = NoScan

(***************************************************************************)
(* The blacklist, a ring buffer.                                           *)
(***************************************************************************)
Push_NoHead(b, c) ==
  [b EXCEPT !.count = IF b.count = Size THEN @ ELSE @ + 1,
            !.buffer[b.tail] = c, !.tail = (@ + 1) % Size]

Push(b, c) ==
  [b EXCEPT !.head = IF b.count = Size THEN (@ + 1) % Size ELSE @,
            !.count = IF b.count = Size THEN @ ELSE @ + 1,
            !.buffer[b.tail] = c,
            !.tail = (@ + 1) % Size]

(* The scan of replace_candidate_cell() reads buffer[head + a] without the *)
(* modulus.  Past the end of the array it may find anything: stray.        *)
Blacklisted_SkipsLast(b, c, stray) ==
  \E a \in 0..b.count - 2 :
     IF b.head + a < Size THEN b.buffer[b.head + a] = c ELSE c \in stray

Blacklisted(b, c, stray) ==
  \E a \in 0..b.count - 1 :
     IF b.head + a < Size THEN b.buffer[b.head + a] = c ELSE c \in stray

(***************************************************************************)
(* The candidate list.                                                     *)
(***************************************************************************)
InList_SkipsLast(ts) == \E j \in 1..ListLen - 1 : cand[j][1] = ts
InList(ts) == \E j \in Index : cand[j][1] = ts

(* init_cand_cell_list() draws cells with different timeslots, whatever is *)
(* in the schedule, and gives up after too many collisions.                *)
FilledList(n) ==
  {f \in [Index -> Cell \cup {NoCell}] :
     /\ \A i \in Index : i > n <=> f[i] = NoCell
     /\ \A i, j \in 1..n : f[i][1] = f[j][1] => i = j}

Init ==
  /\ \E n \in Index : cand \in FilledList(n)
  /\ bl = [buffer |-> [k \in 0..Size - 1 |-> NoCell], head |-> 0, tail |-> 0, count |-> 0]
  /\ sched = {}
  /\ calls = <<>> /\ at = 0 /\ scan = NoScan
  /\ pend = NoRequest
  /\ recent = <<>>

(* get_candidate_add() *)
Offer(n) == {cand[i] : i \in 1..n}

(* replace_candidate_cell(ts): the first entry with that timeslot is the   *)
(* one to replace; without one the call returns at once.                   *)
Holders(ts) == {i \in Index : cand[i][1] = ts}
FirstHolder(ts) ==
  IF Holders(ts) = {} THEN {0}
  ELSE {i \in Holders(ts) : \A j \in Holders(ts) : i <= j}

StartCall ==
  /\ calls # <<>> /\ at = 0
  /\ LET c == Head(calls) IN
       /\ calls' = Tail(calls)
       /\ \/ /\ c.do = "replace"
             /\ at' \in FirstHolder(c.arg)
             /\ sched' = sched
          \/ /\ c.do = "entry"   \* past the end of the list: any value
             /\ \E ts \in (IF c.arg \in Index THEN {cand[c.arg][1]} ELSE Slot) :
                  at' \in FirstHolder(ts)
             /\ sched' = sched
          \/ /\ c.do \in Origin
             /\ sched' = Without(c.arg) \cup {<<c.arg, c.do>>} /\ at' = 0
          \/ /\ c.do = "unlink"
             /\ sched' = Without(c.arg) /\ at' = 0
  /\ UNCHANGED <<cand, bl, scan, pend, recent>>

(* One iteration of its loop.  The draw must miss the schedule; the entry  *)
(* is overwritten whenever the scan of the blacklist comes to its end, and *)
(* the loop is left when the draw has also missed the candidate list.      *)
Accepted_WholeBuffer(c, stray) == bl.count = Size /\ ~Blacklisted(bl, c, stray)

Accepted(c, stray) == bl.count > 0 /\ ~Blacklisted(bl, c, stray)

Draw(c, stray) ==
  /\ at # 0
  /\ IF c[1] \notin Scheduled /\ Accepted(c, stray)
     THEN /\ cand' = [cand EXCEPT ![at] = c]
          /\ at' = IF InList(c[1]) THEN at ELSE 0
     ELSE UNCHANGED <<cand, at>>
  /\ UNCHANGED <<bl, sched, calls, scan, pend, recent>>

(***************************************************************************)
(* update_cand_cell_list(): every candidate against every interfered cell. *)
(***************************************************************************)
StartUpdate(by) ==
  /\ Idle
  /\ by = "relocate" => Relocates
  /\ scan' = [by |-> by, i |-> 1, j |-> 1, hit |-> FALSE]
  /\ UNCHANGED <<cand, bl, sched, calls, at, pend, recent>>

(* The pairs <<i, j>> still to be compared that are equal. *)
Hits ==
  {p \in Index \X (1..Len(Interfered)) :
     /\ p[1] > scan.i \/ (p[1] = scan.i /\ p[2] >= scan.j)
     /\ cand[p[1]] = Interfered[p[2]]}

(* A candidate that is interfered with is put on the blacklist and         *)
(* replaced, and so is the entry after it.                                 *)
Hit_NotReported(i, j) ==
  /\ bl' = Push(bl, cand[i])
  /\ recent' = IF Len(recent) = Size THEN Append(Tail(recent), cand[i])
               ELSE Append(recent, cand[i])
  /\ calls' = <<Replace(cand[i][1]), Entry(i + 1)>>
  /\ scan' = [scan EXCEPT !.i = i, !.j = j + 1]

Hit(i, j) ==
  /\ bl' = Push(bl, cand[i])
  /\ recent' = IF Len(recent) = Size THEN Append(Tail(recent), cand[i])
               ELSE Append(recent, cand[i])
  /\ calls' = <<Replace(cand[i][1]), Entry(i + 1)>>
  /\ scan' = [scan EXCEPT !.i = i, !.j = j + 1, !.hit = TRUE]

UpdateHit ==
  /\ scan # NoScan /\ calls = <<>> /\ at = 0
  /\ \E p \in Hits :
       /\ \A q \in Hits : p[1] < q[1] \/ (p[1] = q[1] /\ p[2] <= q[2])
       /\ Hit(p[1], p[2])
  /\ UNCHANGED <<cand, sched, at, pend>>

(* sixp_output() refuses a request while another transaction is running.   *)
Request(cmd, cells, rel) ==
  IF pend = NoRequest THEN [cmd |-> cmd, cells |-> cells, rel |-> rel] ELSE pend

(* The scan has reached its end.  The ADD process senses again when        *)
(* something was interfered with; otherwise it goes on at once, without    *)
(* giving up the processor, and sf_simple_add_links() offers the first     *)
(* MaxLinks candidates and replaces all of them but the last.              *)
UpdateEnd ==
  /\ scan # NoScan /\ calls = <<>> /\ at = 0
  /\ Hits = {}
  /\ \/ /\ scan.by = "add" /\ ~scan.hit
        /\ pend' = Request("ADD", Offer(MaxLinks), 0)
        /\ calls' = [i \in 1..MaxLinks - 1 |-> Replace(cand[i][1])]
     \/ /\ scan.by = "relocate" \/ scan.hit
        /\ UNCHANGED <<pend, calls>>
  /\ scan' = NoScan
  /\ UNCHANGED <<cand, bl, sched, at, recent>>

(***************************************************************************)
(* sf-simple and the rest of child.c.                                      *)
(***************************************************************************)
(* sf_simple_relocate_links() offers one candidate fewer and keeps all. *)
RelocateLinks(ts) ==
  /\ Idle /\ Relocates
  /\ ts \in Scheduled
  /\ pend' = Request("RELOCATE", Offer(MaxLinks - 1), ts)
  /\ UNCHANGED <<cand, bl, sched, calls, at, scan, recent>>

(* A response that names an offered cell: ADD adds the link and replaces   *)
(* the candidate, RELOCATE replaces the candidate, adds the link and       *)
(* removes the old one.                                                    *)
ResponseCalls_AddLast(c) ==
  IF pend.cmd = "ADD" THEN <<Replace(c[1]), AddLink("ADD", c[1])>>
  ELSE <<Replace(c[1]), AddLink("RELOCATE", c[1]), Unlink(pend.rel)>>

ResponseCalls(c) ==
  IF pend.cmd = "ADD" THEN <<AddLink("ADD", c[1]), Replace(c[1])>>
  ELSE <<Replace(c[1]), AddLink("RELOCATE", c[1]), Unlink(pend.rel)>>

Response(c) ==
  /\ Idle
  /\ c \in pend.cells /\ c # NoCell
  /\ Cardinality(sched) < MaxSched
  /\ calls' = ResponseCalls(c)
  /\ pend' = NoRequest
  /\ UNCHANGED <<cand, bl, sched, at, scan, recent>>

(* An error code, or no response before the timeout. *)
NoResponse ==
  /\ Idle /\ pend # NoRequest
  /\ pend' = NoRequest
  /\ UNCHANGED <<cand, bl, sched, calls, at, scan, recent>>

(* add_mock_auto_cell(), after the candidate list has been initialised. *)
AddAutoCell(ts) ==
  /\ Idle
  /\ ts \in AutoSlot \ Scheduled /\ Cardinality(sched) < MaxSched
  /\ sched' = sched \cup {<<ts, "auto">>}
  /\ UNCHANGED <<cand, bl, calls, at, scan, pend, recent>>

Next ==
  \/ StartCall
  \/ \E c \in Cell : \E stray \in {{}, {c}} : Draw(c, stray)
  \/ \E by \in {"add", "relocate"} : StartUpdate(by)
  \/ UpdateHit
  \/ UpdateEnd
  \/ \E ts \in Scheduled : RelocateLinks(ts)
  \/ \E c \in Cell : Response(c)
  \/ NoResponse
  \/ \E ts \in AutoSlot : AddAutoCell(ts)

Spec == Init /\ [][Next]_vars

(* random_rand() comes back to every cell, and what lies past the end of   *)
(* the buffer is not equal to every cell drawn; handlers run to their end. *)
FairSpec ==
  /\ Spec
  /\ WF_vars(StartCall) /\ WF_vars(UpdateHit) /\ WF_vars(UpdateEnd)
  /\ \A c \in Cell : SF_vars(Draw(c, {}))

-----------------------------------------------------------------------------
(* The state keeps its shape: in particular no candidate is ever put in    *)
(* timeslot 0, the minimal cell's.                                         *)
TypeOK ==
  /\ cand \in [Index -> Cell \cup {NoCell}]
  /\ bl.buffer \in [0..Size - 1 -> Cell \cup {NoCell}]
  /\ bl.head \in 0..Size - 1 /\ bl.tail \in 0..Size - 1 /\ bl.count \in 0..Size
  /\ sched \subseteq Slot \X Origin
  /\ calls \in Seq(Call) /\ at \in 0..ListLen
  /\ pend.cells \subseteq Cell \cup {NoCell}

(* Between handlers the candidates are in different timeslots, although    *)
(* replace_candidate_cell() writes cells to the list that are already      *)
(* there on its way: 6P requires distinct timeslots in a cell list.        *)
CandidatesDistinct ==
  at = 0 => \A i, j \in Index : cand[i][1] = cand[j][1] /\ cand[i] # NoCell => i = j

(* The blacklist holds the cells pushed last, oldest at head: push()       *)
(* overwrites the oldest entry when the ring is full.                      *)
BlacklistHoldsRecent ==
  recent = [k \in 1..bl.count |-> bl.buffer[(bl.head + k - 1) % Size]]

(* Between handlers no candidate is on the blacklist, as the comment in    *)
(* replace_candidate_cell() says ("Find free slots that dont exist in      *)
(* cand_cell_list, blacklist and schedule"), as long as the ring has not   *)
(* filled up: then the scan, which lacks the modulus, misses the newest.   *)
NotBlacklistedUntilFull ==
  Idle /\ bl.count < Size =>
    \A i \in Index : \A k \in 1..Len(recent) : cand[i] # recent[k]

(* A cell that an ADD response has put in the schedule is no candidate any *)
(* more when the handler is done, and does not become one again ("Remove   *)
(* cell from candidate cell list", sf_simple's response handler).          *)
AddedNotCandidate == Idle => \A i \in Index : <<cand[i][1], "ADD">> \notin sched

(* An ADD request never offers a cell known to be interfered with: the     *)
(* process senses until update_cand_cell_list() finds nothing to replace   *)
(* and sends the request in the same turn.                                 *)
AddOffersClean ==
  pend.cmd = "ADD" => \A j \in 1..Len(Interfered) : Interfered[j] \notin pend.cells

(* replace_candidate_cell() returns: "Delete a candidate cell and replace  *)
(* it immediately with a valid cell".                                      *)
ReplaceReturns == at # 0 ~> at = 0

(* It does when the blacklist is not empty and some cell is neither in the *)
(* schedule nor blacklisted nor in a candidate's timeslot.                 *)
HasFreeCell ==
  \E c \in Cell : /\ c[1] \notin Scheduled /\ ~InList(c[1])
                  /\ \A k \in DOMAIN bl.buffer : bl.buffer[k] # c

ReplaceReturnsBlacklist == at # 0 /\ bl.count > 0 /\ HasFreeCell ~> at = 0
=============================================================================

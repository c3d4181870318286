---------------------------- MODULE RequestQueue ----------------------------
(***************************************************************************)
(* The cyclic queue of logged requests (filter.c): log_request writes at   *)
(* the head, get_request reads from the tail, an overflow rejects the      *)
(* entry at the tail, filter_init_2 / filter_free_2 attach and detach the  *)
(* event of the logging application, and filter_free frees what is left.   *)
(*                                                                         *)
(* Every slot owns up to two pool blocks, the process name and the SID.    *)
(* What the slots point at and which blocks are allocated is all that is   *)
(* kept of a request, besides its serial number and its log_skipped.       *)
(***************************************************************************)
EXTENDS Integers, FiniteSetsExt

CONSTANTS
  Size,       \* REQUEST_QUEUE_SIZE
  Threads,    \* threads that log requests
  Blocks,     \* pool blocks that can hold a process name or a SID
  NULL,
  MaxLogged   \* bound: requests logged

ASSUME ConstantsAssumption ==
  /\ Size \in Nat \ {0, 1}
  /\ NULL \notin Blocks
  /\ MaxLogged \in Nat

VARIABLES
  data,       \* slot -> its request: [id, skipped, pname, sid_a]
  head,       \* slot log_request writes next
  tail,       \* slot get_request reads next
  live,       \* blocks allocated and not freed
  badfree,    \* free() was given a block that was not allocated
  g_got_log,  \* the logging application has the control device open
  event,      \* g_queue.event: "none", "clear" or "set"
  writer,     \* thread -> "idle", "test" or "set": its way through the signalling
  phase,      \* "up", or "freed" after filter_free
  logged,     \* history: requests logged
  rejected,   \* history: requests rejected on overflow
  told,       \* history: log_skipped values handed to the reader, summed
  unseen      \* history: logged since the reader's wait was last satisfied

slotVars == <<data, head, tail, live, badfree>>
histVars == <<logged, rejected, told>>
vars == <<slotVars, g_got_log, event, writer, phase, histVars, unseen>>

Slots == 0 .. Size - 1
Empty == [id |-> 0, skipped |-> 0, pname |-> NULL, sid_a |-> NULL]

TypeOK ==
  /\ data \in [Slots -> [id : 0 .. MaxLogged, skipped : Nat,
                         pname : Blocks \cup {NULL}, sid_a : Blocks \cup {NULL}]]
  /\ head \in Slots
  /\ tail \in Slots
  /\ live \subseteq Blocks
  /\ badfree \in BOOLEAN
  /\ g_got_log \in BOOLEAN
  /\ event \in {"none", "clear", "set"}
  /\ writer \in [Threads -> {"idle", "test", "set"}]
  /\ phase \in {"up", "freed"}
  /\ logged \in 0 .. MaxLogged
  /\ rejected \in Nat
  /\ unseen \in BOOLEAN

(* filter_init *)
Init ==
  /\ data = [i \in Slots |-> Empty]
  /\ head = 0
  /\ tail = 0
  /\ live = {}
  /\ badfree = FALSE
  /\ g_got_log = FALSE
  /\ event = "none"
  /\ writer = [t \in Threads |-> "idle"]
  /\ phase = "up"
  /\ logged = 0
  /\ rejected = 0
  /\ told = 0
  /\ unseen = FALSE

-----------------------------------------------------------------------------
(* Fault: the index does not wrap. *)
Succ_NoWrap(i) == i + 1

(* (i + 1) % REQUEST_QUEUE_SIZE *)
Succ(i) == IF i = Size - 1 THEN 0 ELSE i + 1

(* How far slot i is from the tail, in the direction of the head.          *)
Distance(i) == IF i >= tail THEN i - tail ELSE i - tail + Size
Count == Distance(head)
Occupied == {i \in Slots : Distance(i) < Count}

Pointers(i) == {data[i].pname, data[i].sid_a} \ {NULL}
Fresh(allocated) == (Blocks \ allocated) \cup {NULL}

(* Fault: the test for a full queue is one entry late. *)
Overflows_Late == head = tail /\ logged > 0

Overflows == Succ(head) = tail

(* Fault: the rejected entry's own log_skipped is not carried over. *)
SkippedBy_Restarts(full) == IF full THEN 1 ELSE 0

(* log_skipped of a request that goes in.                                  *)
SkippedBy(full) == IF full THEN data[tail].skipped + 1 ELSE 0

(* Fault: the blocks of the rejected entry are not freed. *)
Rejected_Kept(full) == {}

(* The blocks an overflow frees before the tail moves on.                  *)
Rejected(full) == IF full THEN Pointers(tail) ELSE {}

(* log_request under g_queue.guard.  The caller's SID block moves into the *)
(* slot; the process name is copied into a block of its own, if the name   *)
(* is known and there is memory.                                           *)
log_request(t) ==
  /\ phase = "up" /\ writer[t] = "idle" /\ logged < MaxLogged
  /\ \E sid_a \in Fresh(live) :
       LET full == Overflows
           held == (live \cup ({sid_a} \ {NULL})) \ Rejected(full)
       IN \E pname \in Fresh(held) :
            /\ data' = [data EXCEPT ![head] = [id |-> logged + 1, skipped |-> SkippedBy(full),
                                               pname |-> pname, sid_a |-> sid_a]]
            /\ live' = held \cup ({pname} \ {NULL})
            /\ tail' = IF full THEN Succ(tail) ELSE tail
            /\ rejected' = IF full THEN rejected + 1 ELSE rejected
            /\ badfree' = (badfree \/ ~(Rejected(full) \subseteq live))
  /\ head' = Succ(head)
  /\ logged' = logged + 1
  /\ unseen' = TRUE
  /\ writer' = [writer EXCEPT ![t] = "test"]
  /\ UNCHANGED <<g_got_log, event, phase, told>>

(* if (g_queue.event != NULL), with no lock held.                          *)
log_request_test(t) ==
  /\ writer[t] = "test"
  /\ writer' = [writer EXCEPT ![t] = IF event = "none" THEN "idle" ELSE "set"]
  /\ UNCHANGED <<slotVars, g_got_log, event, phase, histVars, unseen>>

(* Fault: the event stays as it is. *)
log_request_set_NoSetEvent(t) ==
  /\ writer[t] = "set"
  /\ writer' = [writer EXCEPT ![t] = "idle"]
  /\ UNCHANGED <<slotVars, g_got_log, event, phase, histVars, unseen>>

(* KeSetEvent.  When filter_free_2 came in between, the event is gone and  *)
(* the call, if it returns, wakes nobody.                                  *)
log_request_set(t) ==
  /\ writer[t] = "set"
  /\ writer' = [writer EXCEPT ![t] = "idle"]
  /\ event' = IF event = "none" THEN "none" ELSE "set"
  /\ UNCHANGED <<slotVars, g_got_log, phase, histVars, unseen>>

(* Fault: the tail moves one entry too far. *)
TailAfter_OneMore(k) == IF tail + k + 1 < Size THEN tail + k + 1 ELSE tail + k + 1 - Size

TailAfter(k) == IF tail + k < Size THEN tail + k ELSE tail + k - Size

(* get_request: as many requests as the caller's buffer holds, oldest      *)
(* first; their blocks are freed and their pointers cleared.               *)
get_request ==
  /\ phase = "up" /\ g_got_log
  /\ \E k \in 1 .. Count :
       LET read == {i \in Slots : Distance(i) < k}
       IN /\ live' = live \ UNION {Pointers(i) : i \in read}
          /\ badfree' = (badfree \/ \E i \in read : ~(Pointers(i) \subseteq live))
          /\ data' = [i \in Slots |-> IF i \in read
                                      THEN [data[i] EXCEPT !.pname = NULL, !.sid_a = NULL]
                                      ELSE data[i]]
          /\ tail' = TailAfter(k)
          /\ told' = told + MapThenSumSet(LAMBDA i : data[i].skipped, read)
  /\ UNCHANGED <<head, g_got_log, event, writer, phase, logged, rejected, unseen>>

-----------------------------------------------------------------------------
(* The logging application: IRP_MJ_CREATE of the control device, which it  *)
(* opens exclusively, its wait on the event, and IRP_MJ_CLOSE.  Requests   *)
(* logged before it attached are not announced to it.                      *)
filter_init_2 ==
  /\ phase = "up" /\ ~g_got_log
  /\ g_got_log' = TRUE
  /\ event' \in {"clear", "none"}   \* none: ZwCreateEvent or the reference failed
  /\ unseen' = FALSE
  /\ UNCHANGED <<slotVars, writer, phase, histVars>>

(* The event is a SynchronizationEvent: a satisfied wait clears it.        *)
reader_wait ==
  /\ event = "set"
  /\ event' = "clear"
  /\ unseen' = FALSE
  /\ UNCHANGED <<slotVars, g_got_log, writer, phase, histVars>>

filter_free_2 ==
  /\ phase = "up" /\ g_got_log
  /\ g_got_log' = FALSE
  /\ event' = "none"
  /\ UNCHANGED <<slotVars, writer, phase, histVars, unseen>>

(* filter_free, from OnUnload: every pointer of every slot is freed,       *)
(* whether the slot is between tail and head or not.                       *)
filter_free ==
  LET pointers == UNION {Pointers(i) : i \in Slots}
      twice == \E i, j \in Slots : i # j /\ Pointers(i) \cap Pointers(j) # {}
  IN /\ phase = "up" /\ ~g_got_log
     /\ phase' = "freed"
     /\ badfree' = (badfree \/ twice \/ ~(pointers \subseteq live))
     /\ live' = live \ pointers
     /\ UNCHANGED <<data, head, tail, g_got_log, event, writer, histVars, unseen>>

-----------------------------------------------------------------------------
Next ==
  \/ \E t \in Threads : log_request(t) \/ log_request_test(t) \/ log_request_set(t)
  \/ get_request
  \/ filter_init_2 \/ reader_wait \/ filter_free_2
  \/ filter_free

Spec == Init /\ [][Next]_vars

-----------------------------------------------------------------------------
(* Every allocated block belongs to exactly one slot between tail and      *)
(* head, and everything those slots point at is allocated: nothing leaks,  *)
(* nothing is shared, and no free() up to filter_free hits a dead block    *)
(* (log_request's overflow branch and get_request free different slots).   *)
BlocksOwned ==
  phase = "up" =>
    /\ live = UNION {Pointers(i) : i \in Occupied}
    /\ \A i, j \in Occupied : i # j => Pointers(i) \cap Pointers(j) = {}
    /\ \A i \in Occupied : data[i].pname # NULL => data[i].pname # data[i].sid_a
    /\ ~badfree

(* Nothing is left allocated when filter_free is done: memtrack_free then  *)
(* reports no leak of the queue's.                                         *)
NoLeak == phase = "freed" => live = {}

(* A rejected request is reported once: the log_skipped values handed to   *)
(* the reader and those still queued add up to the number of rejections,   *)
(* however often the queue overflowed and was read in between.             *)
SkippedAccounted ==
  told + MapThenSumSet(LAMBDA i : data[i].skipped, Occupied) = rejected

(* No lost wakeup: a request logged while the event exists is announced by *)
(* the event, or a thread between the unlock and KeSetEvent is about to    *)
(* announce it.                                                            *)
Announced ==
  event # "none" /\ unseen => event = "set" \/ \E t \in Threads : writer[t] # "idle"

(* The requests between tail and head, oldest first.                       *)
Queued == [n \in 1 .. Count |->
             LET i == CHOOSE i \in Slots : Distance(i) = n - 1
             IN [id |-> data[i].id, skipped |-> data[i].skipped]]

(* The queue implements the bounded log of RequestLog: one slot stays      *)
(* empty, and the requests between tail and head are the log's.            *)
Log == INSTANCE RequestLog WITH Capacity <- Size - 1, queue <- Queued

ImplementsLog == Log!Spec

(* memtrack.c:180-182: free() checks the block it is given and stops the   *)
(* machine at a bad one, so every block is freed once, by filter_free too. *)
FreedOnce == ~badfree
=============================================================================

----------------------------- MODULE RequestLog -----------------------------
(***************************************************************************)
(* What the request log of tdi_fw promises its reader: requests come out   *)
(* in the order they went in, when the log is full the oldest one makes    *)
(* room, and every rejected request is reported once, in the log_skipped   *)
(* of some request that was logged later.                                  *)
(***************************************************************************)
EXTENDS Integers, Sequences, SequencesExt

CONSTANT Capacity

VARIABLES
  queue,     \* requests in the log, oldest first: [id, skipped]
  logged,    \* requests logged so far; the n-th has id n
  rejected,  \* requests that made room for a later one
  told       \* log_skipped values the reader has been given, summed

vars == <<queue, logged, rejected, told>>

SkippedIn(q) == FoldLeft(LAMBDA sum, r : sum + r.skipped, 0, q)

Init ==
  /\ queue = <<>>
  /\ logged = 0
  /\ rejected = 0
  /\ told = 0

(* One request goes in.  The abstract log does not say which request       *)
(* reports a rejected one, only that none is forgotten or counted twice.   *)
Log ==
  LET full == Len(queue) = Capacity
      rest == IF full THEN Tail(queue) ELSE queue
  IN /\ logged' = logged + 1
     /\ rejected' = IF full THEN rejected + 1 ELSE rejected
     /\ \E s \in 0 .. rejected' : queue' = Append(rest, [id |-> logged', skipped |-> s])
     /\ SkippedIn(queue') + told = rejected'
     /\ UNCHANGED told

(* The reader takes the k oldest requests.                                 *)
Fetch ==
  \E k \in 1 .. Len(queue) :
    /\ queue' = SubSeq(queue, k + 1, Len(queue))
    /\ told' = told + SkippedIn(SubSeq(queue, 1, k))
    /\ UNCHANGED <<logged, rejected>>

Next == Log \/ Fetch

Spec == Init /\ [][Next]_vars
=============================================================================

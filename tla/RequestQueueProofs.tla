------------------------- MODULE RequestQueueProofs -------------------------
(***************************************************************************)
(* Proofs about the request queue for any size of the ring, any number of  *)
(* threads and any pool.                                                   *)
(***************************************************************************)
EXTENDS RequestQueue, Sequences, FiniteSetTheorems, WellFoundedInduction, TLAPS

(* The types of the ring, without the rest of the state.                   *)
Ring == 
  /\ data \in [Slots -> [id : 0 .. MaxLogged, skipped : Nat,
                         pname : Blocks \cup {NULL}, sid_a : Blocks \cup {NULL}]]
  /\ head \in Slots
  /\ tail \in Slots
  /\ live \subseteq Blocks
  /\ badfree \in BOOLEAN

RestTyped ==
  /\ g_got_log \in BOOLEAN
  /\ event \in {"none", "clear", "set"}
  /\ writer \in [Threads -> {"idle", "test", "set"}]
  /\ phase \in {"up", "freed"}
  /\ logged \in 0 .. MaxLogged
  /\ rejected \in Nat
  /\ unseen \in BOOLEAN

(* BlocksOwned block by block, in the form the steps preserve.             *)
Owned ==
  /\ \A b \in live : \E i \in Occupied : b \in Pointers(i)
  /\ \A i \in Occupied : Pointers(i) \subseteq live
  /\ \A i, j \in Occupied : i # j => Pointers(i) \cap Pointers(j) = {}
  /\ \A i \in Occupied : data[i].pname # NULL => data[i].pname # data[i].sid_a
  /\ ~badfree

IInv == Ring /\ RestTyped /\ (phase = "up" => Owned) /\ NoLeak

(* Ownership block by block: what is allocated is what the slots point at. *)
LEMMA OwnedImplies == Ring /\ Owned => live = UNION {Pointers(i) : i \in Occupied}
BY DEF Owned, Occupied

(* What the invariant says of the blocks is what the properties say. *)
LEMMA IInvImplies == IInv => TypeOK /\ BlocksOwned /\ NoLeak
BY OwnedImplies DEF IInv, Ring, RestTyped, Owned, TypeOK, BlocksOwned

(* The ring after log_request: the head was free, the tail moves on when   *)
(* the ring was full, and every other occupied slot stays occupied.        *)
LEMMA OccupiedAfterLog ==
  ASSUME head \in Slots, tail \in Slots,
         head' = Succ(head),
         tail' = IF Overflows THEN Succ(tail) ELSE tail
  PROVE  /\ head' \in Slots /\ tail' \in Slots
         /\ head \notin Occupied
         /\ Overflows => tail \in Occupied
         /\ Occupied' = (IF Overflows THEN Occupied \ {tail} ELSE Occupied) \cup {head}
BY ConstantsAssumption DEF Slots, Succ, Overflows, Occupied, Count, Distance

(* The ring after get_request: exactly the slots read leave it.            *)
LEMMA OccupiedAfterGet ==
  ASSUME head \in Slots, tail \in Slots, NEW k \in 1 .. Count,
         head' = head, tail' = TailAfter(k)
  PROVE  /\ tail' \in Slots
         /\ {i \in Slots : Distance(i) < k} \subseteq Occupied
         /\ Occupied' = Occupied \ {i \in Slots : Distance(i) < k}
BY ConstantsAssumption DEF Slots, TailAfter, Occupied, Count, Distance

(* log_request fills the free slot, and frees the rejected one's blocks if it overflows. *)
LEMMA LogKeeps ==
  ASSUME IInv, NEW t \in Threads, log_request(t)
  PROVE  IInv'
<1> USE ConstantsAssumption DEF IInv, NoLeak
<1>1. PICK sid_a \in Fresh(live) :
        LET full == Overflows
            held == (live \cup ({sid_a} \ {NULL})) \ Rejected(full)
        IN \E pname \in Fresh(held) :
             /\ data' = [data EXCEPT ![head] = [id |-> logged + 1, skipped |-> SkippedBy(full),
                                                pname |-> pname, sid_a |-> sid_a]]
             /\ live' = held \cup ({pname} \ {NULL})
             /\ tail' = IF full THEN Succ(tail) ELSE tail
             /\ rejected' = IF full THEN rejected + 1 ELSE rejected
             /\ badfree' = (badfree \/ ~(Rejected(full) \subseteq live))
  BY DEF log_request
<1> DEFINE gone == Rejected(Overflows)
           held == (live \cup ({sid_a} \ {NULL})) \ gone
<1>2. PICK pname \in Fresh(held) :
        /\ data' = [data EXCEPT ![head] = [id |-> logged + 1, skipped |-> SkippedBy(Overflows),
                                           pname |-> pname, sid_a |-> sid_a]]
        /\ live' = held \cup ({pname} \ {NULL})
        /\ tail' = IF Overflows THEN Succ(tail) ELSE tail
        /\ rejected' = IF Overflows THEN rejected + 1 ELSE rejected
        /\ badfree' = (badfree \/ ~(gone \subseteq live))
  BY <1>1
<1>3. /\ phase = "up" /\ phase' = "up" /\ logged < MaxLogged /\ logged' = logged + 1
      /\ head' = Succ(head) /\ unseen' = TRUE
      /\ writer' = [writer EXCEPT ![t] = "test"]
      /\ UNCHANGED <<g_got_log, event>>
  BY DEF log_request
<1>4. /\ head' \in Slots /\ tail' \in Slots
      /\ head \notin Occupied
      /\ Overflows => tail \in Occupied
      /\ Occupied' = (IF Overflows THEN Occupied \ {tail} ELSE Occupied) \cup {head}
  BY <1>2, <1>3, OccupiedAfterLog DEF Ring
<1>5. /\ sid_a \in Blocks \cup {NULL} /\ sid_a \notin live
      /\ pname \in Blocks \cup {NULL} /\ pname \notin held
      /\ NULL \notin live
  BY <1>2 DEF Fresh, Ring
<1>6. Owned /\ Ring /\ RestTyped
  BY <1>3
<1>7. gone \subseteq live
  BY <1>4, <1>6 DEF Rejected, Owned
<1>8. RestTyped'
  BY <1>2, <1>3, <1>6 DEF RestTyped
<1>9. Ring'
  <2>1. SkippedBy(Overflows) \in Nat
    BY <1>6 DEF SkippedBy, Ring
  <2>2. logged + 1 \in 0 .. MaxLogged
    BY <1>3, <1>6 DEF RestTyped
  <2>3. data' \in [Slots -> [id : 0 .. MaxLogged, skipped : Nat,
                             pname : Blocks \cup {NULL}, sid_a : Blocks \cup {NULL}]]
    BY <1>2, <1>5, <1>6, <2>1, <2>2 DEF Ring
  <2>4. live' \subseteq Blocks
    BY <1>2, <1>5, <1>6 DEF Ring
  <2>5. badfree' \in BOOLEAN
    BY <1>2
  <2> QED BY <1>4, <2>3, <2>4, <2>5 DEF Ring
<1>10. /\ data'[head].pname = pname /\ data'[head].sid_a = sid_a
       /\ \A i \in Slots \ {head} : data'[i] = data[i]
  BY <1>2, <1>6 DEF Ring
<1> DEFINE own(i) == {data'[i].pname, data'[i].sid_a} \ {NULL}
<1>11. /\ own(head) = {pname, sid_a} \ {NULL}
       /\ \A i \in Occupied : own(i) = Pointers(i)
  BY <1>4, <1>10 DEF Pointers, Occupied
<1>12. ASSUME NEW i \in Occupied' \ {head}
       PROVE  i \in Occupied /\ own(i) = Pointers(i) /\ own(i) \subseteq live \ gone
  <2>1. i \in Occupied /\ (Overflows => i # tail /\ tail \in Occupied)
    BY <1>4, <1>12
  <2>2. Pointers(i) \subseteq live \ gone
    BY <1>6, <2>1 DEF Owned, Rejected
  <2> QED BY <1>11, <2>1, <2>2
<1>13. live \ gone \subseteq held /\ live' = held \cup ({pname} \ {NULL})
       /\ (sid_a # NULL => sid_a \in held) /\ gone \subseteq live
  BY <1>2, <1>5, <1>7
<1>14. \A b \in live' : \E i \in Occupied' : b \in own(i)
  <2> SUFFICES ASSUME NEW b \in live' PROVE \E i \in Occupied' : b \in own(i)
    OBVIOUS
  <2>1. CASE b \in {pname, sid_a} \ {NULL}
    BY <1>4, <1>11, <2>1
  <2>2. CASE b \in live /\ b \notin gone
    <3>1. PICK i \in Occupied : b \in Pointers(i)
      BY <1>6, <2>2 DEF Owned
    <3>2. ~ (Overflows /\ i = tail)
      BY <2>2, <3>1 DEF Rejected
    <3>3. i \in Occupied'
      BY <1>4, <3>2
    <3> QED BY <1>11, <3>1, <3>3
  <2> QED BY <1>13, <2>1, <2>2
<1> HIDE DEF gone, held, own
<1>15. \A i \in Occupied' : own(i) \subseteq live'
  BY <1>11, <1>12, <1>13
<1>16. \A i, j \in Occupied' : i # j => own(i) \cap own(j) = {}
  <2> SUFFICES ASSUME NEW i \in Occupied', NEW j \in Occupied', i # j
               PROVE  own(i) \cap own(j) = {}
    OBVIOUS
  <2>1. ASSUME NEW m \in Occupied' \ {head} PROVE own(m) \cap own(head) = {}
    BY <1>5, <1>11, <1>12, <1>13, <2>1
  <2>2. CASE i # head /\ j # head
    BY <1>6, <1>12, <2>2 DEF Owned
  <2> QED BY <2>1, <2>2
<1>17. \A i \in Occupied' : data'[i].pname # NULL => data'[i].pname # data'[i].sid_a
  <2> SUFFICES ASSUME NEW i \in Occupied', data'[i].pname # NULL
               PROVE  data'[i].pname # data'[i].sid_a
    OBVIOUS
  <2>1. CASE i = head
    BY <1>5, <1>10, <1>13, <2>1
  <2>2. CASE i # head
    <3>1. i \in Occupied /\ i \in Slots /\ data'[i] = data[i]
      BY <1>10, <1>12, <2>2 DEF Occupied
    <3> QED BY <1>6, <3>1 DEF Owned
  <2> QED BY <2>1, <2>2
<1>18. ~ badfree'
  BY <1>2, <1>6, <1>7 DEF Owned
<1>19. Owned'
  BY <1>14, <1>15, <1>16, <1>17, <1>18 DEF Owned, Pointers, own
<1> QED BY <1>3, <1>8, <1>9, <1>19

(* get_request frees the blocks of the slots it empties. *)
LEMMA GetKeeps ==
  ASSUME IInv, get_request
  PROVE  IInv'
<1> USE ConstantsAssumption DEF IInv, NoLeak
<1>1. PICK k \in 1 .. Count :
        LET read == {i \in Slots : Distance(i) < k}
        IN /\ live' = live \ UNION {Pointers(i) : i \in read}
           /\ badfree' = (badfree \/ \E i \in read : ~(Pointers(i) \subseteq live))
           /\ data' = [i \in Slots |-> IF i \in read
                                       THEN [data[i] EXCEPT !.pname = NULL, !.sid_a = NULL]
                                       ELSE data[i]]
           /\ tail' = TailAfter(k)
  BY DEF get_request
<1> DEFINE read == {i \in Slots : Distance(i) < k}
<1>2. /\ phase = "up"
      /\ UNCHANGED <<head, g_got_log, event, writer, phase, logged, rejected, unseen>>
  BY DEF get_request
<1>3. Ring /\ RestTyped /\ Owned
  BY <1>2
<1>4. tail' \in Slots /\ read \subseteq Occupied /\ Occupied' = Occupied \ read
  BY <1>1, <1>2, <1>3, OccupiedAfterGet DEF Ring
<1>5. /\ live' = live \ UNION {Pointers(i) : i \in read}
      /\ badfree' = (badfree \/ \E i \in read : ~(Pointers(i) \subseteq live))
      /\ \A i \in read : data'[i] = [data[i] EXCEPT !.pname = NULL, !.sid_a = NULL]
      /\ \A i \in Slots \ read : data'[i] = data[i]
      /\ data' = [i \in Slots |-> data'[i]]
  BY <1>1
<1> HIDE DEF read
<1>6. Ring'
  <2>1. \A i \in Slots : data'[i] \in [id : 0 .. MaxLogged, skipped : Nat,
                                     pname : Blocks \cup {NULL}, sid_a : Blocks \cup {NULL}]
    <3>1. ASSUME NEW i \in read, i \in Slots
          PROVE  data'[i] \in [id : 0 .. MaxLogged, skipped : Nat,
                               pname : Blocks \cup {NULL}, sid_a : Blocks \cup {NULL}]
      BY <1>3, <1>5, <3>1 DEF Ring
    <3> QED BY <1>3, <1>5, <3>1 DEF Ring
  <2>2. data' \in [Slots -> [id : 0 .. MaxLogged, skipped : Nat,
                             pname : Blocks \cup {NULL}, sid_a : Blocks \cup {NULL}]]
    BY <1>5, <2>1
  <2>3. live' \subseteq Blocks /\ badfree' \in BOOLEAN /\ head' \in Slots
    BY <1>2, <1>3, <1>5 DEF Ring
  <2> QED BY <1>4, <2>2, <2>3 DEF Ring
<1>7. RestTyped'
  BY <1>2, <1>3 DEF RestTyped
<1>8. \A i \in Occupied' : i \in Occupied /\ i \in Slots /\ i \notin read /\ data'[i] = data[i]
  BY <1>4, <1>5 DEF Occupied
<1>9. \A i \in Occupied' : Pointers(i)' = Pointers(i)
  BY <1>8 DEF Pointers
<1>10. Owned'
  <2>1. \A i \in Occupied' : Pointers(i)' \subseteq live'
    <3> SUFFICES ASSUME NEW i \in Occupied' PROVE Pointers(i) \subseteq live'
      BY <1>9
    <3>1. \A j \in read : Pointers(i) \cap Pointers(j) = {}
      BY <1>3, <1>4, <1>8 DEF Owned
    <3>2. Pointers(i) \cap UNION {Pointers(j) : j \in read} = {}
      BY <3>1
    <3>3. Pointers(i) \subseteq live
      BY <1>3, <1>8 DEF Owned
    <3> QED BY <1>5, <3>2, <3>3
  <2>2. \A b \in live' : \E i \in Occupied' : b \in Pointers(i)'
    <3> SUFFICES ASSUME NEW b \in live' PROVE \E i \in Occupied' : b \in Pointers(i)
      BY <1>9
    <3>1. PICK i \in Occupied : b \in Pointers(i)
      BY <1>3, <1>5 DEF Owned
    <3>2. i \notin read
      BY <1>5, <3>1
    <3> QED BY <1>4, <3>1, <3>2
  <2>3. \A i, j \in Occupied' : i # j => Pointers(i)' \cap Pointers(j)' = {}
    BY <1>3, <1>8, <1>9 DEF Owned
  <2>4. \A i \in Occupied' : data'[i].pname # NULL => data'[i].pname # data'[i].sid_a
    BY <1>3, <1>8 DEF Owned
  <2>5. ~ badfree'
    BY <1>3, <1>4, <1>5 DEF Owned
  <2> QED BY <2>1, <2>2, <2>3, <2>4, <2>5 DEF Owned
<1> QED BY <1>2, <1>6, <1>7, <1>10

(* The steps that leave the ring alone, and filter_free, which ends it.    *)
LEMMA RestKeeps ==
  ASSUME IInv,
         \/ \E t \in Threads : log_request_test(t) \/ log_request_set(t)
         \/ filter_init_2 \/ reader_wait \/ filter_free_2 \/ UNCHANGED vars
  PROVE  IInv'
<1>1. UNCHANGED <<data, head, tail, live, badfree, phase>>
  BY DEF log_request_test, log_request_set, filter_init_2, reader_wait, filter_free_2,
         vars, slotVars, histVars
<1>2. Ring' /\ (phase' = "up" => Owned')
  BY <1>1 DEF IInv, Ring, Owned, Occupied, Count, Distance, Pointers
<1>4. NoLeak'
  BY <1>1 DEF IInv, NoLeak
<1>3. RestTyped'
  <2> USE DEF IInv, RestTyped, slotVars, histVars
  <2>1. CASE \E t \in Threads : log_request_test(t)
    BY <2>1 DEF log_request_test
  <2>2. CASE \E t \in Threads : log_request_set(t)
    BY <2>2 DEF log_request_set
  <2>3. CASE filter_init_2
    BY <2>3 DEF filter_init_2
  <2>4. CASE reader_wait
    BY <2>4 DEF reader_wait
  <2>5. CASE filter_free_2
    BY <2>5 DEF filter_free_2
  <2>6. CASE UNCHANGED vars
    BY <2>6 DEF vars
  <2> QED BY <2>1, <2>2, <2>3, <2>4, <2>5, <2>6
<1> QED BY <1>2, <1>3, <1>4 DEF IInv

(* filter_free leaves no block allocated, although it may free one twice. *)
LEMMA FreeKeeps == ASSUME IInv, filter_free PROVE IInv'
<1>1. Ring' /\ RestTyped' /\ phase' = "freed"
  BY DEF IInv, Ring, RestTyped, filter_free, histVars
<1>2. live' = {}
  BY DEF IInv, Owned, Occupied, filter_free
<1> QED BY <1>1, <1>2 DEF IInv, NoLeak

(* The initial states: an empty ring. *)
LEMMA IInvInit == Init => IInv
<1> SUFFICES ASSUME Init PROVE IInv
  OBVIOUS
<1>1. 0 \in Slots
  BY ConstantsAssumption DEF Slots
<1>2. Ring /\ RestTyped
  <2>1. 0 \in 0 .. MaxLogged
    BY ConstantsAssumption
  <2>2. data \in [Slots -> [id : 0 .. MaxLogged, skipped : Nat,
                            pname : Blocks \cup {NULL}, sid_a : Blocks \cup {NULL}]]
    BY <2>1 DEF Init, Empty
  <2> QED BY <1>1, <2>1, <2>2 DEF Init, Ring, RestTyped
<1>3. Occupied = {}
  BY ConstantsAssumption DEF Init, Occupied, Count, Distance, Slots
<1>4. Owned
  BY <1>3 DEF Init, Owned
<1>5. NoLeak
  BY DEF Init, NoLeak
<1> QED BY <1>2, <1>4, <1>5 DEF IInv

(* Every step keeps the invariant. *)
LEMMA IInvNext == IInv /\ [Next]_vars => IInv'
<1> SUFFICES ASSUME IInv, [Next]_vars PROVE IInv'
  OBVIOUS
<1>1. ASSUME NEW t \in Threads, log_request(t) PROVE IInv'
  BY <1>1, LogKeeps
<1>2. CASE get_request
  BY <1>2, GetKeeps
<1>3. CASE filter_free
  BY <1>3, FreeKeeps
<1>4. CASE \/ \E t \in Threads : log_request_test(t) \/ log_request_set(t)
           \/ filter_init_2 \/ reader_wait \/ filter_free_2 \/ UNCHANGED vars
  BY <1>4, RestKeeps
<1> QED BY <1>1, <1>2, <1>3, <1>4 DEF Next

(* The invariant holds in every reachable state. *)
LEMMA Inductive == Spec => []IInv
BY IInvInit, IInvNext, PTL DEF Spec

(* The indices never leave the ring and the slots hold what they should,   *)
(* for every size of the ring.                                             *)
THEOREM TypeCorrect == Spec => []TypeOK
BY Inductive, IInvImplies, PTL

(* Whatever was queued, filter_free leaves no block of the queue allocated. *)
THEOREM NothingLeaks == Spec => []NoLeak
BY Inductive, IInvImplies, PTL

(* Until filter_free, every allocated name and SID belongs to exactly one  *)
(* queued request, and no block is freed twice.                            *)
THEOREM BlocksStayOwned == Spec => []BlocksOwned
BY Inductive, IInvImplies, PTL

-----------------------------------------------------------------------------
(* Signalling.                                                             *)

SignalInv == RestTyped /\ Announced

(* Every step leaves a logged request announced, or about to be. *)
LEMMA SignalNext == SignalInv /\ RestTyped' /\ [Next]_vars => SignalInv'
<1> SUFFICES ASSUME SignalInv, RestTyped', [Next]_vars PROVE Announced'
  BY DEF SignalInv
<1> USE DEF SignalInv, Announced
<1>1. ASSUME NEW t \in Threads, log_request(t) PROVE Announced'
  BY <1>1 DEF log_request, RestTyped
<1>2. ASSUME NEW t \in Threads, log_request_test(t) PROVE Announced'
  BY <1>2 DEF log_request_test, RestTyped
<1>3. ASSUME NEW t \in Threads, log_request_set(t) PROVE Announced'
  BY <1>3 DEF log_request_set, RestTyped
<1>4. CASE get_request
  BY <1>4 DEF get_request
<1>5. CASE filter_init_2 \/ reader_wait \/ filter_free_2
  BY <1>5 DEF filter_init_2, reader_wait, filter_free_2
<1>6. CASE filter_free
  BY <1>6 DEF filter_free
<1>7. CASE UNCHANGED vars
  BY <1>7 DEF vars
<1> QED BY <1>1, <1>2, <1>3, <1>4, <1>5, <1>6, <1>7 DEF Next

(* No wakeup of the logging application is lost, with any number of        *)
(* threads between the unlock and KeSetEvent.                              *)
THEOREM NoLostWakeup == Spec => []Announced
<1>1. Init => Announced
  BY DEF Init, Announced
<1>2. IInv => RestTyped
  BY DEF IInv
<1> QED BY <1>1, <1>2, Inductive, IInvInit, SignalNext, PTL DEF Spec, SignalInv

-----------------------------------------------------------------------------
(* Sums over finite sets.                                                  *)

(* A nonempty set of naturals has a least element.                         *)
LEMMA LeastNatural ==
  ASSUME NEW T \in SUBSET Nat, T # {}
  PROVE  \E n \in T : \A m \in T : n <= m
<1> DEFINE Less == OpToRel(<, Nat)
<1>1. IsWellFoundedOn(Less, Nat)
  BY NatLessThanWellFounded
<1> HIDE DEF Less
<1>2. PICK n \in T : \A m \in T : ~ (<<m, n>> \in Less)
  BY <1>1, WFMin
<1>3. \A m \in T : ~ (m < n)
  BY <1>2 DEF Less, OpToRel
<1> QED BY <1>3

(* A nonempty set of naturals with a bound has a greatest element.         *)
LEMMA BoundedMaximum ==
  ASSUME NEW N \in Nat, NEW S \in SUBSET (0 .. N), S # {}
  PROVE  \E r \in S : \A q \in S : q <= r
<1> DEFINE T == {N - s : s \in S}
<1>1. T \in SUBSET Nat /\ T # {}
  <2>1. \A s \in S : N - s \in Nat
    OBVIOUS
  <2> QED BY <2>1
<1>2. PICK x \in T : \A y \in T : x <= y
  <2> HIDE DEF T
  <2> QED BY <1>1, LeastNatural
<1>3. PICK r \in S : x = N - r
  OBVIOUS
<1>4. ASSUME NEW q \in S PROVE q <= r
  <2>1. N - r <= N - q
    BY <1>2, <1>3
  <2> QED BY <2>1
<1> QED BY <1>4

(* The recursion that adds up v over every part s of S; c says which       *)
(* element of s is taken out first.                                        *)
Adds(f, c, v, S) ==
  f = [s \in SUBSET S |-> IF s = {} THEN 0 ELSE v[c[s]] + f[s \ {c[s]}]]

(* What any fold that adds v up has in common, whichever side it adds on.  *)
IsSum(f, c, v, S) ==
  /\ f[{}] = 0
  /\ \A s \in SUBSET S :
       s # {} /\ f[s \ {c[s]}] \in Nat => f[s] = v[c[s]] + f[s \ {c[s]}]

(* c takes an element out of every part of S that has one.                 *)
Picks(c, S) == \A s \in SUBSET S : s # {} => c[s] \in s

(* Such a sum exists: a least size without one contradicts itself. *)
LEMMA SumExists ==
  ASSUME NEW S, IsFiniteSet(S), NEW c, Picks(c, S), NEW v
  PROVE  \E f : Adds(f, c, v, S)
<1> DEFINE Sub(n) == {s \in SUBSET S : Cardinality(s) <= n}
           UpTo(f, n) == f = [s \in Sub(n) |-> IF s = {} THEN 0 ELSE v[c[s]] + f[s \ {c[s]}]]
           Without == {n \in Nat : ~ \E f : UpTo(f, n)}
<1>1. \A s \in SUBSET S : /\ IsFiniteSet(s) /\ Cardinality(s) \in Nat
                          /\ Cardinality(s) <= Cardinality(S)
                          /\ Cardinality(s) = 0 <=> s = {}
  BY FS_Subset, FS_CardinalityType, FS_EmptySet
<1>2. \A s \in SUBSET S : s # {} => /\ s \ {c[s]} \in SUBSET S
                                    /\ Cardinality(s \ {c[s]}) = Cardinality(s) - 1
  BY <1>1, FS_RemoveElement DEF Picks
<1>3. Without = {}
  <2> SUFFICES ASSUME Without # {} PROVE FALSE
    OBVIOUS
  <2>1. PICK n \in Without : \A m \in Without : n <= m
    <3> HIDE DEF Without
    <3>1. Without \in SUBSET Nat
      BY DEF Without
    <3> QED BY <3>1, LeastNatural
  <2>2. CASE n = 0
    <3> DEFINE f == [s \in Sub(0) |-> 0]
    <3>1. \A s \in Sub(0) : s = {}
      BY <1>1
    <3>2. UpTo(f, 0)
      BY <3>1
    <3> QED BY <2>1, <2>2, <3>2
  <2>3. CASE n # 0
    <3>1. n - 1 \in Nat /\ n \in Nat /\ ~ (n <= n - 1)
      BY <2>3
    <3>2. PICK f : UpTo(f, n - 1)
      BY <2>1, <3>1
    <3> DEFINE g == [s \in Sub(n) |-> IF s = {} THEN 0 ELSE v[c[s]] + f[s \ {c[s]}]]
    <3>3. \A s \in Sub(n) : s # {} => s \ {c[s]} \in Sub(n - 1)
      BY <1>1, <1>2, <3>1
    <3>4. \A s \in Sub(n - 1) : s \in Sub(n)
      BY <1>1, <3>1
    <3> HIDE DEF Sub
    <3>5. \A s \in Sub(n - 1) : f[s] = g[s]
      BY <3>2, <3>4
    <3>6. UpTo(g, n)
      BY <3>3, <3>5
    <3> QED BY <2>1, <3>6
  <2> QED BY <2>2, <2>3
<1>4. PICK f : UpTo(f, Cardinality(S))
  <2>1. Cardinality(S) \in Nat
    BY <1>1
  <2> QED BY <1>3, <2>1
<1>5. Sub(Cardinality(S)) = SUBSET S
  BY <1>1
<1>6. Adds(f, c, v, S)
  BY <1>4, <1>5 DEF Adds
<1> QED BY <1>6

(* f gives the sum of v over every part of S: any element may be taken out *)
(* first.                                                                  *)
Sums(f, v, S) ==
  /\ f[{}] = 0
  /\ \A s \in SUBSET S : f[s] \in Nat
  /\ \A s \in SUBSET S : \A x \in s : f[s] = v[x] + f[s \ {x}]

(* Taking out another element first gives the same sum. *)
LEMMA SumStep ==
  ASSUME NEW S, IsFiniteSet(S), NEW c, Picks(c, S), NEW v, \A x \in S : v[x] \in Nat,
         NEW f, IsSum(f, c, v, S)
  PROVE  Sums(f, v, S)
<1> DEFINE Good(s) == f[s] \in Nat /\ \A x \in s : f[s] = v[x] + f[s \ {x}]
           Bad == {n \in Nat : \E s \in SUBSET S : Cardinality(s) = n /\ ~ Good(s)}
<1>1. \A s \in SUBSET S : /\ IsFiniteSet(s) /\ Cardinality(s) \in Nat
                          /\ \A x \in s : /\ s \ {x} \in SUBSET S
                                          /\ Cardinality(s \ {x}) = Cardinality(s) - 1
  BY FS_Subset, FS_CardinalityType, FS_RemoveElement
<1>2. /\ f[{}] = 0
      /\ \A s \in SUBSET S : s # {} => c[s] \in s
      /\ \A s \in SUBSET S :
           s # {} /\ f[s \ {c[s]}] \in Nat => f[s] = v[c[s]] + f[s \ {c[s]}]
  BY DEF IsSum, Picks
<1>3. Bad = {}
  <2> SUFFICES ASSUME Bad # {} PROVE FALSE
    OBVIOUS
  <2>1. PICK n \in Bad : \A m \in Bad : n <= m
    <3> HIDE DEF Bad
    <3>1. Bad \in SUBSET Nat
      BY DEF Bad
    <3> QED BY <3>1, LeastNatural
  <2>2. PICK s \in SUBSET S : Cardinality(s) = n /\ ~ Good(s)
    BY <2>1
  <2>3. ASSUME NEW u \in SUBSET S, Cardinality(u) < n PROVE Good(u)
    <3>1. Cardinality(u) \in Nat /\ n \in Nat /\ ~ (n <= Cardinality(u))
      BY <1>1, <2>1, <2>3
    <3>2. Cardinality(u) \notin Bad
      <4> HIDE DEF Bad
      <4> QED BY <2>1, <3>1
    <3> HIDE DEF Good
    <3> QED BY <3>1, <3>2
  <2>4. ASSUME NEW x \in s
        PROVE  /\ Good(s \ {x}) /\ s \ {x} \in SUBSET S
               /\ \A y \in s \ {x} : Good((s \ {x}) \ {y})
    <3>1. s \ {x} \in SUBSET S /\ Cardinality(s \ {x}) < n
      BY <1>1, <2>2
    <3>2. ASSUME NEW y \in s \ {x}
          PROVE  (s \ {x}) \ {y} \in SUBSET S /\ Cardinality((s \ {x}) \ {y}) < n
      <4> DEFINE u == s \ {x}
      <4>1. u \in SUBSET S /\ y \in u /\ Cardinality(u) < n /\ Cardinality(u) \in Nat /\ n \in Nat
        BY <1>1, <3>1
      <4> HIDE DEF u
      <4>2. u \ {y} \in SUBSET S /\ Cardinality(u \ {y}) = Cardinality(u) - 1
        BY <1>1, <4>1
      <4>3. Cardinality(u \ {y}) < n
        BY <4>1, <4>2
      <4> QED BY <4>2, <4>3 DEF u
    <3> HIDE DEF Good
    <3> QED BY <2>3, <3>1, <3>2
  <2>5. s # {}
    <3> SUFFICES ASSUME s = {} PROVE Good(s)
      BY <2>2
    <3> QED BY <1>2
  <2>6. c[s] \in s /\ f[s] = v[c[s]] + f[s \ {c[s]}] /\ f[s] \in Nat
    <3>1. c[s] \in s /\ v[c[s]] \in Nat
      BY <1>2, <2>5
    <3>2. f[s \ {c[s]}] \in Nat
      BY <2>4, <3>1
    <3>3. f[s] = v[c[s]] + f[s \ {c[s]}]
      BY <1>2, <2>5, <3>2
    <3> QED BY <3>1, <3>2, <3>3
  <2>7. ASSUME NEW x \in s PROVE f[s] = v[x] + f[s \ {x}]
    <3>1. CASE x = c[s]
      BY <2>6, <3>1
    <3>2. CASE x # c[s]
      <4> DEFINE y == c[s]
                 both == (s \ {x}) \ {y}
      <4>1. both = (s \ {y}) \ {x} /\ y \in s \ {x} /\ x \in s \ {y}
        BY <2>6, <3>2
      <4>2. f[s \ {x}] = v[y] + f[both] /\ f[s \ {y}] = v[x] + f[both]
        <5>1. Good(s \ {x}) /\ Good(s \ {y})
          BY <2>4, <2>6
        <5> HIDE DEF y
        <5> QED BY <4>1, <5>1
      <4>3. v[x] \in Nat /\ v[y] \in Nat /\ f[both] \in Nat
        BY <2>4, <2>6, <4>1
      <4>4. f[s] = v[y] + f[s \ {y}]
        BY <2>6
      <4> HIDE DEF both, y
      <4> QED BY <4>2, <4>3, <4>4
    <3> QED BY <3>1, <3>2
  <2> QED BY <2>2, <2>6, <2>7
<1>4. \A s \in SUBSET S : Good(s)
  <2> HIDE DEF Good
  <2> QED BY <1>1, <1>3
<1> QED BY <1>2, <1>4 DEF Sums

(* The sum over a set does not depend on the order, nor on the set the     *)
(* function is defined for.                                                *)
LEMMA SumUnique ==
  ASSUME NEW S, IsFiniteSet(S), NEW c, Picks(c, S), NEW v, \A x \in S : v[x] \in Nat,
         NEW f, IsSum(f, c, v, S),
         NEW T, IsFiniteSet(T), NEW e, Picks(e, T), NEW w, \A x \in T : w[x] \in Nat,
         NEW g, IsSum(g, e, w, T),
         NEW U, U \subseteq S, U \subseteq T, \A x \in U : v[x] = w[x]
  PROVE  f[U] = g[U]
<1> DEFINE Bad == {n \in Nat : \E s \in SUBSET U : Cardinality(s) = n /\ f[s] # g[s]}
<1>1. \A s \in SUBSET U : /\ IsFiniteSet(s) /\ Cardinality(s) \in Nat
                          /\ \A x \in s : /\ s \ {x} \in SUBSET U
                                          /\ Cardinality(s \ {x}) = Cardinality(s) - 1
  BY FS_Subset, FS_CardinalityType, FS_RemoveElement
<1>2. /\ f[{}] = 0 /\ g[{}] = 0
      /\ \A s \in SUBSET U : \A x \in s : f[s] = v[x] + f[s \ {x}] /\ g[s] = v[x] + g[s \ {x}]
  <2>1. /\ f[{}] = 0 /\ \A s \in SUBSET S : \A x \in s : f[s] = v[x] + f[s \ {x}]
    BY SumStep DEF Sums
  <2>2. /\ g[{}] = 0 /\ \A s \in SUBSET T : \A x \in s : g[s] = w[x] + g[s \ {x}]
    BY SumStep DEF Sums
  <2>3. \A s \in SUBSET U : s \in SUBSET S /\ s \in SUBSET T /\ \A x \in s : v[x] = w[x]
    OBVIOUS
  <2> QED BY <2>1, <2>2, <2>3
<1>3. Bad = {}
  <2> SUFFICES ASSUME Bad # {} PROVE FALSE
    OBVIOUS
  <2>1. PICK n \in Bad : \A m \in Bad : n <= m
    <3> HIDE DEF Bad
    <3>1. Bad \in SUBSET Nat
      BY DEF Bad
    <3> QED BY <3>1, LeastNatural
  <2>2. PICK s \in SUBSET U : Cardinality(s) = n /\ f[s] # g[s]
    BY <2>1
  <2>3. PICK x \in s : TRUE
    BY <1>2, <2>2
  <2>4. s \ {x} \in SUBSET U /\ Cardinality(s \ {x}) \in Nat /\ Cardinality(s \ {x}) = n - 1
    BY <1>1, <2>2
  <2>5. f[s \ {x}] = g[s \ {x}]
    <3>1. Cardinality(s \ {x}) \notin Bad
      <4> HIDE DEF Bad
      <4>1. n \in Nat /\ ~ (n <= n - 1)
        BY <1>1, <2>2
      <4> QED BY <2>1, <2>4, <4>1
    <3> QED BY <2>4, <3>1
  <2> QED BY <1>2, <2>2, <2>3, <2>5
<1>4. U \in SUBSET U /\ Cardinality(U) \in Nat
  BY <1>1
<1> QED BY <1>3, <1>4

-----------------------------------------------------------------------------
(* The two sums of the model.                                              *)

(* log_skipped added up over the slots of S of the ring d.                 *)
SkippedOf(d, S) == MapThenSumSet(LAMBDA i : d[i].skipped, S)

Skips(d, S) == [i \in S |-> d[i].skipped]
AnyOf(S) == [s \in SUBSET S |-> CHOOSE x \in s : TRUE]
LastOf(S) == [s \in SUBSET S |-> CHOOSE x \in s : \A y \in s : x >= y]

(* The sum of the model, defined by a choice at every step, is such a sum. *)
LEMMA SkippedOfIsSum ==
  ASSUME NEW d, NEW S, IsFiniteSet(S)
  PROVE  /\ Picks(AnyOf(S), S)
         /\ \E f : IsSum(f, AnyOf(S), Skips(d, S), S) /\ SkippedOf(d, S) = f[S]
<1> DEFINE Body(f) == [s \in SUBSET S |-> IF s = {} THEN 0
                       ELSE LET x == CHOOSE x \in s : TRUE IN d[x].skipped + f[s \ {x}]]
           g == CHOOSE f : f = Body(f)
<1>1. SkippedOf(d, S) = g[S]
  BY DEF SkippedOf, MapThenSumSet, MapThenFoldSet
<1>2. Picks(AnyOf(S), S)
  BY DEF Picks, AnyOf
<1>3. \A f : Adds(f, AnyOf(S), Skips(d, S), S) => f = Body(f)
  BY DEF Adds, AnyOf, Skips
<1>4. \A f : f = Body(f) => IsSum(f, AnyOf(S), Skips(d, S), S)
  BY DEF IsSum, AnyOf, Skips
<1> HIDE DEF Body
<1>5. \E f : f = Body(f)
  <2>1. \E f : Adds(f, AnyOf(S), Skips(d, S), S)
    BY <1>2, SumExists
  <2> QED BY <1>3, <2>1
<1>6. g = Body(g)
  BY <1>5
<1> QED BY <1>1, <1>2, <1>4, <1>6

(* FoldLeft from the front of a sequence is the sum over its positions.    *)
LEMMA SkippedInIsSum ==
  ASSUME NEW q, NEW n \in Nat, DOMAIN q = 1 .. n, \A i \in 1 .. n : q[i].skipped \in Nat
  PROVE  /\ Picks(LastOf(1 .. n), 1 .. n)
         /\ \E f : /\ IsSum(f, LastOf(1 .. n), Skips(q, 1 .. n), 1 .. n)
                   /\ Log!SkippedIn(q) = f[1 .. n]
<1> DEFINE S == 1 .. n
           last(s) == CHOOSE x \in s : \A y \in s : x >= y
           Body(f) == [s \in SUBSET S |-> IF s = {} THEN 0
                                          ELSE f[s \ {last(s)}] + q[last(s)].skipped]
           g == CHOOSE f : f = Body(f)
<1>1. Log!SkippedIn(q) = g[S]
  BY DEF Log!SkippedIn, Log!FoldLeft, Log!MapThenFoldSet, Log!Max
<1>2. IsFiniteSet(S) /\ Picks(LastOf(S), S)
  <2>1. IsFiniteSet(S)
    BY FS_Interval
  <2>2. ASSUME NEW s \in SUBSET S, s # {} PROVE \E x \in s : \A y \in s : x >= y
    <3>1. s \in SUBSET (0 .. n)
      OBVIOUS
    <3>2. PICK x \in s : \A y \in s : y <= x
      BY <2>2, <3>1, BoundedMaximum
    <3> QED BY <3>1, <3>2
  <2> QED BY <2>1, <2>2 DEF Picks, LastOf
<1> DEFINE c == LastOf(S)
           v == Skips(q, S)
<1>3. /\ \A s \in SUBSET S : c[s] = CHOOSE x \in s : \A y \in s : x >= y
      /\ \A s \in SUBSET S : s # {} => c[s] \in S /\ v[c[s]] = q[c[s]].skipped
      /\ \A i \in S : v[i] \in Nat
  <2>1. \A s \in SUBSET S : c[s] = CHOOSE x \in s : \A y \in s : x >= y
    BY DEF LastOf
  <2> HIDE DEF c
  <2>2. \A s \in SUBSET S : s # {} => c[s] \in S
    BY <1>2 DEF Picks, c
  <2> QED BY <2>1, <2>2 DEF Skips
<1> HIDE DEF last
<1>4. \A f : Body(f) = [s \in SUBSET S |-> IF s = {} THEN 0
                                           ELSE f[s \ {c[s]}] + q[c[s]].skipped]
  <2>1. \A s \in SUBSET S : c[s] = last(s)
    BY <1>3 DEF last
  <2> HIDE DEF c
  <2> QED BY <2>1
<1> HIDE DEF Body, c, v
<1>5. ASSUME NEW f, Adds(f, c, v, S) PROVE f = Body(f)
  <2>1. IsSum(f, c, v, S)
    BY <1>5 DEF Adds, IsSum
  <2>2. \A s \in SUBSET S : f[s] \in Nat
    BY <1>2, <1>3, <2>1, SumStep DEF c, Sums
  <2>3. \A s \in SUBSET S : s # {} => v[c[s]] + f[s \ {c[s]}] = f[s \ {c[s]}] + q[c[s]].skipped
    <3>1. ASSUME NEW s \in SUBSET S, s # {}
          PROVE  v[c[s]] + f[s \ {c[s]}] = f[s \ {c[s]}] + q[c[s]].skipped
      <4>1. f[s \ {c[s]}] \in Nat /\ v[c[s]] \in Nat /\ v[c[s]] = q[c[s]].skipped
        BY <1>3, <2>2, <3>1
      <4> QED BY <4>1
    <3> QED BY <3>1
  <2> QED BY <1>4, <1>5, <2>3 DEF Adds
<1>6. ASSUME NEW f, f = Body(f) PROVE IsSum(f, c, v, S)
  <2>1. f[{}] = 0
    BY <1>4, <1>6
  <2>2. ASSUME NEW s \in SUBSET S, s # {}, f[s \ {c[s]}] \in Nat
        PROVE  f[s] = v[c[s]] + f[s \ {c[s]}]
    <3>1. f[s] = f[s \ {c[s]}] + q[c[s]].skipped
      BY <1>4, <1>6, <2>2
    <3>2. v[c[s]] \in Nat /\ v[c[s]] = q[c[s]].skipped
      BY <1>3, <2>2
    <3> QED BY <2>2, <3>1, <3>2
  <2> QED BY <2>1, <2>2 DEF IsSum
<1>7. g = Body(g)
  <2>1. \E f : Adds(f, c, v, S)
    BY <1>2, SumExists DEF c
  <2> QED BY <1>5, <2>1
<1> QED BY <1>1, <1>2, <1>6, <1>7 DEF c, v

(* One slot can be taken out of the sum.                                   *)
LEMMA SkippedOfStep ==
  ASSUME NEW d, NEW S, IsFiniteSet(S), \A i \in S : d[i].skipped \in Nat
  PROVE  /\ SkippedOf(d, S) \in Nat
         /\ S = {} => SkippedOf(d, S) = 0
         /\ \A x \in S : SkippedOf(d, S) = d[x].skipped + SkippedOf(d, S \ {x})
<1>1. PICK f : IsSum(f, AnyOf(S), Skips(d, S), S) /\ SkippedOf(d, S) = f[S]
  BY SkippedOfIsSum
<1>2. \A i \in S : Skips(d, S)[i] \in Nat /\ Skips(d, S)[i] = d[i].skipped
  BY DEF Skips
<1>3. /\ f[{}] = 0
      /\ \A s \in SUBSET S : f[s] \in Nat
      /\ \A s \in SUBSET S : \A x \in s : f[s] = Skips(d, S)[x] + f[s \ {x}]
  <2>1. Picks(AnyOf(S), S)
    BY SkippedOfIsSum
  <2>2. \A i \in S : Skips(d, S)[i] \in Nat
    BY <1>2
  <2>3. Sums(f, Skips(d, S), S)
    BY <1>1, <2>1, <2>2, SumStep
  <2> QED BY <2>3 DEF Sums
<1>4. ASSUME NEW x \in S PROVE SkippedOf(d, S) = d[x].skipped + SkippedOf(d, S \ {x})
  <2> DEFINE U == S \ {x}
  <2>1. IsFiniteSet(U) /\ U \subseteq S
    BY FS_RemoveElement
  <2> HIDE DEF U
  <2>2. PICK g : IsSum(g, AnyOf(U), Skips(d, U), U) /\ SkippedOf(d, U) = g[U]
    BY <2>1, SkippedOfIsSum
  <2>3. \A i \in U : Skips(d, U)[i] \in Nat /\ Skips(d, S)[i] = Skips(d, U)[i]
    BY <2>1 DEF Skips
  <2>4. f[U] = g[U]
    BY <1>1, <1>2, <2>1, <2>2, <2>3, SkippedOfIsSum, SumUnique
  <2>5. f[S] = d[x].skipped + f[U]
    BY <1>2, <1>3 DEF U
  <2> QED BY <1>1, <2>2, <2>4, <2>5 DEF U
<1> QED BY <1>1, <1>3, <1>4

(* The sum depends on log_skipped alone.                                   *)
LEMMA SkippedOfSame ==
  ASSUME NEW d, NEW S, IsFiniteSet(S), \A i \in S : d[i].skipped \in Nat,
         NEW e, \A i \in S : e[i].skipped = d[i].skipped
  PROVE  SkippedOf(e, S) = SkippedOf(d, S)
<1>1. PICK f : IsSum(f, AnyOf(S), Skips(d, S), S) /\ SkippedOf(d, S) = f[S]
  BY SkippedOfIsSum
<1>2. PICK g : IsSum(g, AnyOf(S), Skips(e, S), S) /\ SkippedOf(e, S) = g[S]
  BY SkippedOfIsSum
<1>3. /\ \A i \in S : Skips(d, S)[i] \in Nat /\ Skips(e, S)[i] \in Nat
      /\ \A i \in S : Skips(d, S)[i] = Skips(e, S)[i]
  BY DEF Skips
<1>4. f[S] = g[S]
  BY <1>1, <1>2, <1>3, SkippedOfIsSum, SumUnique
<1> QED BY <1>1, <1>2, <1>4

(* A part and the rest of it add up to the whole.                          *)
LEMMA SkippedOfSplit ==
  ASSUME NEW d, NEW S, IsFiniteSet(S), \A i \in S : d[i].skipped \in Nat,
         NEW R, R \subseteq S
  PROVE  SkippedOf(d, S) = SkippedOf(d, R) + SkippedOf(d, S \ R)
<1> DEFINE Good(P) == SkippedOf(d, S) = SkippedOf(d, P) + SkippedOf(d, S \ P)
           Bad == {n \in Nat : \E P \in SUBSET S : Cardinality(P) = n /\ ~ Good(P)}
<1>1. \A P \in SUBSET S : /\ IsFiniteSet(P) /\ Cardinality(P) \in Nat
                          /\ \A x \in P : /\ P \ {x} \in SUBSET S
                                          /\ Cardinality(P \ {x}) = Cardinality(P) - 1
  BY FS_Subset, FS_CardinalityType, FS_RemoveElement
<1>2. \A P \in SUBSET S : /\ SkippedOf(d, P) \in Nat
                          /\ P = {} => SkippedOf(d, P) = 0
                          /\ \A x \in P : SkippedOf(d, P) = d[x].skipped + SkippedOf(d, P \ {x})
  BY <1>1, SkippedOfStep
<1>3. Bad = {}
  <2> SUFFICES ASSUME Bad # {} PROVE FALSE
    OBVIOUS
  <2>1. PICK n \in Bad : \A m \in Bad : n <= m
    <3> HIDE DEF Bad
    <3>1. Bad \in SUBSET Nat
      BY DEF Bad
    <3> QED BY <3>1, LeastNatural
  <2>2. PICK P \in SUBSET S : Cardinality(P) = n /\ ~ Good(P)
    BY <2>1
  <2>3. P # {}
    <3> SUFFICES ASSUME P = {} PROVE Good(P)
      BY <2>2
    <3>1. S \ P = S /\ SkippedOf(d, P) = 0 /\ SkippedOf(d, S) \in Nat
      BY <1>2
    <3> QED BY <3>1
  <2>4. PICK x \in P : TRUE
    BY <2>3
  <2> DEFINE Q == P \ {x}
             U == S \ Q
  <2>5. Q \in SUBSET S /\ U \in SUBSET S /\ x \in U /\ U \ {x} = S \ P
    BY <2>2, <2>4
  <2>6. Good(Q)
    <3>1. Cardinality(Q) = n - 1 /\ Cardinality(Q) \in Nat /\ n \in Nat
      BY <1>1, <2>2, <2>4, <2>5
    <3>2. Cardinality(Q) \notin Bad
      <4> HIDE DEF Bad, Q
      <4> QED BY <2>1, <3>1
    <3> HIDE DEF Good, Q
    <3> QED BY <2>5, <3>1, <3>2
  <2>7. SkippedOf(d, P) = d[x].skipped + SkippedOf(d, Q)
    BY <1>2, <2>4
  <2>8. SkippedOf(d, U) = d[x].skipped + SkippedOf(d, S \ P)
    <3> HIDE DEF U
    <3> QED BY <1>2, <2>5
  <2>9. /\ SkippedOf(d, Q) \in Nat /\ SkippedOf(d, S \ P) \in Nat
        /\ SkippedOf(d, U) \in Nat /\ d[x].skipped \in Nat
    <3> HIDE DEF U, Q
    <3> QED BY <1>2, <2>5
  <2>10. SkippedOf(d, S) = SkippedOf(d, Q) + SkippedOf(d, U)
    BY <2>6
  <2>11. SkippedOf(d, S) = SkippedOf(d, P) + SkippedOf(d, S \ P)
    <3> HIDE DEF U, Q
    <3> QED BY <2>7, <2>8, <2>9, <2>10
  <2> QED BY <2>2, <2>11
<1>4. R \in SUBSET S /\ Cardinality(R) \in Nat
  BY <1>1
<1> HIDE DEF Good
<1>5. Good(R)
  BY <1>3, <1>4
<1> QED BY <1>5 DEF Good

(* A sequence that lists the slots of a set adds up to the set's sum.      *)
LEMMA SkippedInListed ==
  ASSUME NEW q, NEW n \in Nat, DOMAIN q = 1 .. n,
         NEW d, NEW S, IsFiniteSet(S),
         NEW at \in [1 .. n -> S], \A i, j \in 1 .. n : i # j => at[i] # at[j],
         \A i \in 1 .. n : q[i].skipped \in Nat /\ q[i].skipped = d[at[i]].skipped
  PROVE  Log!SkippedIn(q) = SkippedOf(d, {at[i] : i \in 1 .. n})
<1> DEFINE First(m) == {at[i] : i \in 1 .. m}
<1>1. PICK f : /\ IsSum(f, LastOf(1 .. n), Skips(q, 1 .. n), 1 .. n)
               /\ Log!SkippedIn(q) = f[1 .. n]
  BY SkippedInIsSum
<1>2. /\ f[{}] = 0
      /\ \A m \in 1 .. n : f[1 .. m] = q[m].skipped + f[1 .. m - 1]
  <2>1. IsFiniteSet(1 .. n) /\ \A i \in 1 .. n : Skips(q, 1 .. n)[i] = q[i].skipped
    BY FS_Interval DEF Skips
  <2>2. Picks(LastOf(1 .. n), 1 .. n)
    BY SkippedInIsSum
  <2>3. /\ f[{}] = 0
        /\ \A s \in SUBSET (1 .. n) : \A x \in s : f[s] = Skips(q, 1 .. n)[x] + f[s \ {x}]
    <3>1. \A i \in 1 .. n : Skips(q, 1 .. n)[i] \in Nat
      BY <2>1
    <3>2. Sums(f, Skips(q, 1 .. n), 1 .. n)
      BY <1>1, <2>1, <2>2, <3>1, SumStep
    <3> QED BY <3>2 DEF Sums
  <2>4. ASSUME NEW m \in 1 .. n PROVE f[1 .. m] = q[m].skipped + f[1 .. m - 1]
    <3>1. 1 .. m \in SUBSET (1 .. n) /\ m \in 1 .. m /\ (1 .. m) \ {m} = 1 .. m - 1
      OBVIOUS
    <3>2. f[1 .. m] = Skips(q, 1 .. n)[m] + f[(1 .. m) \ {m}]
      BY <2>3, <3>1
    <3> QED BY <2>1, <3>1, <3>2
  <2> QED BY <2>3, <2>4
<1>3. /\ SkippedOf(d, First(0)) = 0
      /\ \A m \in 1 .. n : SkippedOf(d, First(m)) = q[m].skipped + SkippedOf(d, First(m - 1))
  <2>1. \A m \in 0 .. n : IsFiniteSet(First(m)) /\ \A x \in First(m) : d[x].skipped \in Nat
    <3> SUFFICES ASSUME NEW m \in 0 .. n
                 PROVE  IsFiniteSet(First(m)) /\ \A x \in First(m) : d[x].skipped \in Nat
      OBVIOUS
    <3>1. First(m) \in SUBSET S
      OBVIOUS
    <3>2. IsFiniteSet(First(m))
      BY <3>1, FS_Subset
    <3> QED BY <3>2
  <2>2. First(0) = {}
    OBVIOUS
  <2>3. ASSUME NEW m \in 1 .. n PROVE First(m) \ {at[m]} = First(m - 1) /\ at[m] \in First(m)
    OBVIOUS
  <2> HIDE DEF First
  <2>4. SkippedOf(d, First(0)) = 0
    BY <2>1, <2>2, SkippedOfStep
  <2>5. ASSUME NEW m \in 1 .. n
        PROVE  SkippedOf(d, First(m)) = q[m].skipped + SkippedOf(d, First(m - 1))
    <3>1. IsFiniteSet(First(m)) /\ \A x \in First(m) : d[x].skipped \in Nat
      BY <2>1
    <3>2. First(m) \ {at[m]} = First(m - 1) /\ at[m] \in First(m)
      BY <2>3
    <3> DEFINE F == First(m)
    <3> HIDE DEF F
    <3>3. \A x \in F : SkippedOf(d, F) = d[x].skipped + SkippedOf(d, F \ {x})
      BY <3>1, SkippedOfStep DEF F
    <3> QED BY <3>2, <3>3 DEF F
  <2> QED BY <2>4, <2>5
<1> HIDE DEF First
<1> DEFINE Bad == {m \in 0 .. n : f[1 .. m] # SkippedOf(d, First(m))}
<1>4. Bad = {}
  <2> SUFFICES ASSUME Bad # {} PROVE FALSE
    OBVIOUS
  <2>1. PICK m \in Bad : \A k \in Bad : m <= k
    <3>1. Bad \in SUBSET Nat
      OBVIOUS
    <3> HIDE DEF Bad
    <3> QED BY <3>1, LeastNatural
  <2>2. m # 0
    <3>1. 1 .. 0 = {}
      OBVIOUS
    <3> QED BY <1>2, <1>3, <2>1, <3>1
  <2>3. m \in 1 .. n /\ m - 1 \in 0 .. n /\ ~ (m <= m - 1)
    BY <2>1, <2>2
  <2>4. f[1 .. m - 1] = SkippedOf(d, First(m - 1))
    BY <2>1, <2>3
  <2>5. f[1 .. m] = SkippedOf(d, First(m))
    BY <1>2, <1>3, <2>3, <2>4
  <2> QED BY <2>1, <2>5
<1>5. n \in 0 .. n
  OBVIOUS
<1> QED BY <1>1, <1>4, <1>5 DEF First

-----------------------------------------------------------------------------
(* Rejected requests are accounted for.                                    *)

(* SkippedAccounted, with the sum of the lemmas.                           *)
AccInv == told \in Nat /\ told + SkippedOf(data, Occupied) = rejected

(* The invariant is SkippedAccounted. *)
LEMMA AccImplies == AccInv => SkippedAccounted
BY DEF AccInv, SkippedAccounted, SkippedOf

(* The slots are finitely many, so their sums exist. *)
LEMMA OccupiedFinite ==
  /\ IsFiniteSet(Slots)
  /\ \A S \in SUBSET Slots : IsFiniteSet(S)
  /\ Occupied \in SUBSET Slots
<1>1. IsFiniteSet(Slots)
  BY ConstantsAssumption, FS_Interval DEF Slots
<1> QED BY <1>1, FS_Subset DEF Occupied

(* What log_request does to the ring.                                      *)
LEMMA LogEffect ==
  ASSUME IInv, NEW t \in Threads, log_request(t)
  PROVE  /\ data' \in [Slots -> [id : 0 .. MaxLogged, skipped : Nat,
                                 pname : Blocks \cup {NULL}, sid_a : Blocks \cup {NULL}]]
         /\ data'[head].id = logged + 1 /\ data'[head].skipped = SkippedBy(Overflows)
         /\ \A i \in Slots \ {head} : data'[i] = data[i]
         /\ head' = Succ(head) /\ tail' = (IF Overflows THEN Succ(tail) ELSE tail)
         /\ logged' = logged + 1 /\ told' = told
         /\ rejected' = (IF Overflows THEN rejected + 1 ELSE rejected)
<1>1. \E sid_a, pname \in Blocks \cup {NULL} :
        data' = [data EXCEPT ![head] = [id |-> logged + 1, skipped |-> SkippedBy(Overflows),
                                        pname |-> pname, sid_a |-> sid_a]]
  BY DEF log_request, Fresh
<1>2. /\ head' = Succ(head) /\ tail' = (IF Overflows THEN Succ(tail) ELSE tail)
      /\ logged' = logged + 1 /\ told' = told
      /\ rejected' = (IF Overflows THEN rejected + 1 ELSE rejected)
  BY DEF log_request
<1>3. Ring'
  BY LogKeeps DEF IInv
<1>4. head \in Slots /\ DOMAIN data = Slots
  BY DEF IInv, Ring
<1> QED BY <1>1, <1>2, <1>3, <1>4 DEF Ring

(* log_request: the rejected slot's count goes into the new one's, and one more. *)
LEMMA LogAccounts ==
  ASSUME IInv, AccInv, NEW t \in Threads, log_request(t)
  PROVE  AccInv' /\ SkippedBy(Overflows) \in 0 .. rejected'
<1> DEFINE O == Occupied
           rest == IF Overflows THEN O \ {tail} ELSE O
<1>1. /\ head \in Slots /\ tail \in Slots /\ head \notin O
      /\ Overflows => tail \in O
      /\ Occupied' = rest \cup {head}
      /\ O \in SUBSET Slots /\ rest \in SUBSET Slots /\ rest \cup {head} \in SUBSET Slots
      /\ head \notin rest
  BY LogEffect, OccupiedAfterLog, OccupiedFinite DEF IInv, Ring
<1>2. /\ \A i \in Slots : data[i].skipped \in Nat /\ data'[i].skipped \in Nat
      /\ told \in Nat /\ rejected \in Nat
  BY LogEffect DEF IInv, Ring, RestTyped, AccInv
<1>3. /\ data'[head].skipped = SkippedBy(Overflows)
      /\ \A i \in Slots \ {head} : data'[i].skipped = data[i].skipped
      /\ told' = told
      /\ rejected' = (IF Overflows THEN rejected + 1 ELSE rejected)
  BY LogEffect
<1>4. IsFiniteSet(O) /\ IsFiniteSet(rest) /\ IsFiniteSet(rest \cup {head})
  BY <1>1, OccupiedFinite
<1> HIDE DEF O, rest
<1>5. SkippedOf(data', rest \cup {head}) = SkippedBy(Overflows) + SkippedOf(data, rest)
  <2>1. SkippedOf(data', rest \cup {head})
          = data'[head].skipped + SkippedOf(data', (rest \cup {head}) \ {head})
    BY <1>1, <1>2, <1>4, SkippedOfStep
  <2>2. (rest \cup {head}) \ {head} = rest
    BY <1>1
  <2>3. SkippedOf(data', rest) = SkippedOf(data, rest)
    BY <1>1, <1>2, <1>3, <1>4, SkippedOfSame
  <2> QED BY <1>3, <2>1, <2>2, <2>3
<1>6. SkippedOf(data, rest) \in Nat /\ SkippedOf(data, O) \in Nat
  BY <1>1, <1>2, <1>4, SkippedOfStep
<1> DEFINE before == SkippedOf(data, O)
           kept   == SkippedOf(data, rest)
           after  == SkippedOf(data', rest \cup {head})
           new    == SkippedBy(Overflows)
<1>7. told + before = rejected
  BY DEF AccInv, O
<1>8. told' + after = rejected' /\ new \in 0 .. rejected'
  <2>1. CASE Overflows
    <3>1. before = data[tail].skipped + kept
      BY <1>1, <1>2, <1>4, <2>1, SkippedOfStep DEF rest
    <3>2. new = data[tail].skipped + 1 /\ data[tail].skipped \in Nat /\ rejected' = rejected + 1
      BY <1>1, <1>2, <1>3, <2>1 DEF SkippedBy
    <3>3. after = new + kept /\ kept \in Nat /\ before \in Nat /\ told \in Nat /\ told' = told
      BY <1>2, <1>3, <1>5, <1>6
    <3> HIDE DEF before, kept, after, new
    <3> QED BY <1>7, <3>1, <3>2, <3>3
  <2>2. CASE ~ Overflows
    <3>1. new = 0 /\ rest = O /\ rejected' = rejected
      BY <1>3, <2>2 DEF SkippedBy, rest
    <3>2. after = new + before /\ before \in Nat /\ told \in Nat /\ told' = told
      BY <1>2, <1>3, <1>5, <1>6, <3>1
    <3> HIDE DEF before, after, new
    <3> QED BY <1>7, <3>1, <3>2
  <2> QED BY <2>1, <2>2
<1> QED BY <1>1, <1>2, <1>3, <1>8 DEF AccInv

(* What get_request does to the ring.                                      *)
LEMMA GetEffect ==
  ASSUME IInv, get_request
  PROVE  \E k \in 1 .. Count :
           LET read == {i \in Slots : Distance(i) < k}
           IN /\ head' = head /\ tail' = TailAfter(k)
              /\ told' = told + SkippedOf(data, read)
              /\ \A i \in Slots : data'[i].id = data[i].id /\ data'[i].skipped = data[i].skipped
              /\ logged' = logged /\ rejected' = rejected
<1>1. PICK k \in 1 .. Count :
        LET read == {i \in Slots : Distance(i) < k}
        IN /\ data' = [i \in Slots |-> IF i \in read
                                       THEN [data[i] EXCEPT !.pname = NULL, !.sid_a = NULL]
                                       ELSE data[i]]
           /\ tail' = TailAfter(k)
           /\ told' = told + SkippedOf(data, read)
  BY DEF get_request, SkippedOf
<1> DEFINE read == {i \in Slots : Distance(i) < k}
<1>2. head' = head /\ logged' = logged /\ rejected' = rejected
  BY DEF get_request
<1>3. ASSUME NEW i \in Slots
      PROVE  data'[i].id = data[i].id /\ data'[i].skipped = data[i].skipped
  <2>1. data[i] \in [id : 0 .. MaxLogged, skipped : Nat,
                     pname : Blocks \cup {NULL}, sid_a : Blocks \cup {NULL}]
    BY DEF IInv, Ring
  <2>2. data'[i] = (IF i \in read THEN [data[i] EXCEPT !.pname = NULL, !.sid_a = NULL]
                                  ELSE data[i])
    BY <1>1
  <2> HIDE DEF read
  <2> QED BY <2>1, <2>2
<1> QED BY <1>1, <1>2, <1>3

(* get_request: what leaves the slots is told. *)
LEMMA GetAccounts ==
  ASSUME IInv, AccInv, get_request
  PROVE  AccInv'
<1>1. PICK k \in 1 .. Count :
        LET read == {i \in Slots : Distance(i) < k}
        IN /\ head' = head /\ tail' = TailAfter(k)
           /\ told' = told + SkippedOf(data, read)
           /\ \A i \in Slots : data'[i].id = data[i].id /\ data'[i].skipped = data[i].skipped
           /\ logged' = logged /\ rejected' = rejected
  BY GetEffect
<1> DEFINE read == {i \in Slots : Distance(i) < k}
           O == Occupied
           left == O \ read
<1>2. read \subseteq O /\ Occupied' = left
  BY <1>1, OccupiedAfterGet DEF IInv, Ring
<1>3. /\ \A i \in Slots : data[i].skipped \in Nat
      /\ told \in Nat /\ rejected \in Nat
  BY DEF IInv, Ring, RestTyped, AccInv
<1>4. /\ IsFiniteSet(O) /\ IsFiniteSet(read) /\ IsFiniteSet(left)
      /\ O \in SUBSET Slots /\ read \in SUBSET Slots /\ left \in SUBSET Slots
  <2>1. O \in SUBSET Slots /\ read \in SUBSET Slots /\ left \in SUBSET Slots
    BY OccupiedFinite
  <2> HIDE DEF O, read, left
  <2> QED BY <2>1, OccupiedFinite
<1>5. told' = told + SkippedOf(data, read) /\ rejected' = rejected
  BY <1>1
<1>6. told + SkippedOf(data, O) = rejected
  BY DEF AccInv
<1> HIDE DEF O, read
<1>7. SkippedOf(data, O) = SkippedOf(data, read) + SkippedOf(data, left)
  BY <1>2, <1>3, <1>4, SkippedOfSplit
<1> HIDE DEF left
<1>8. SkippedOf(data', left) = SkippedOf(data, left)
  BY <1>1, <1>3, <1>4, SkippedOfSame
<1>9. SkippedOf(data, read) \in Nat /\ SkippedOf(data, left) \in Nat
  BY <1>3, <1>4, SkippedOfStep
<1>10. told' \in Nat /\ told' + SkippedOf(data', left) = rejected'
  BY <1>3, <1>5, <1>6, <1>7, <1>8, <1>9
<1> QED BY <1>2, <1>10 DEF AccInv

(* Every other step leaves the ring and the counts as they are.            *)
LEMMA OtherSteps ==
  ASSUME \/ \E t \in Threads : log_request_test(t) \/ log_request_set(t)
         \/ filter_init_2 \/ reader_wait \/ filter_free_2 \/ filter_free \/ UNCHANGED vars
  PROVE  UNCHANGED <<data, head, tail, logged, rejected, told>>
BY DEF log_request_test, log_request_set, filter_init_2, reader_wait, filter_free_2,
       filter_free, vars, slotVars, histVars

(* Every step keeps the account. *)
LEMMA AccNext == IInv /\ AccInv /\ [Next]_vars => AccInv'
<1> SUFFICES ASSUME IInv, AccInv, [Next]_vars PROVE AccInv'
  OBVIOUS
<1>1. ASSUME NEW t \in Threads, log_request(t) PROVE AccInv'
  BY <1>1, LogAccounts
<1>2. CASE get_request
  BY <1>2, GetAccounts
<1>3. CASE \/ \E t \in Threads : log_request_test(t) \/ log_request_set(t)
           \/ filter_init_2 \/ reader_wait \/ filter_free_2 \/ filter_free \/ UNCHANGED vars
  <2>1. UNCHANGED <<data, head, tail, rejected, told>>
    BY <1>3, OtherSteps
  <2> QED BY <2>1 DEF AccInv, Occupied, Count, Distance
<1> QED BY <1>1, <1>2, <1>3 DEF Next

(* Nothing is rejected in the initial states. *)
LEMMA AccInit == Init => AccInv
<1> SUFFICES ASSUME Init PROVE AccInv
  OBVIOUS
<1>1. Occupied = {}
  BY ConstantsAssumption DEF Init, Occupied, Count, Distance, Slots
<1>2. IsFiniteSet({})
  BY FS_EmptySet
<1>3. SkippedOf(data, {}) = 0
  BY <1>2, SkippedOfStep
<1> QED BY <1>1, <1>3 DEF Init, AccInv

(* log_request, filter.c:324-341: whatever the size of the ring, no        *)
(* rejected request is forgotten or reported twice, however overflows and  *)
(* reads alternate.                                                        *)
THEOREM SkippedStaysAccounted == Spec => []SkippedAccounted
<1>1. Init => IInv /\ AccInv
  BY IInvInit, AccInit
<1>2. IInv /\ AccInv /\ [Next]_vars => IInv' /\ AccInv'
  BY IInvNext, AccNext
<1> QED BY <1>1, <1>2, AccImplies, PTL DEF Spec

-----------------------------------------------------------------------------
(* The ring implements the log, step by step.                              *)

(* The slot of the n-th oldest request, when the oldest is in slot start.  *)
SlotAt(start, n) == IF start + n - 1 < Size THEN start + n - 1 ELSE start + n - 1 - Size

(* Slots and distances from the tail determine each other. *)
LEMMA SlotAtFacts ==
  ASSUME head \in Slots, tail \in Slots
  PROVE  /\ Count \in 0 .. Size - 1
         /\ \A n \in 1 .. Count : /\ SlotAt(tail, n) \in Slots
                                  /\ Distance(SlotAt(tail, n)) = n - 1
                                  /\ \A i \in Slots : Distance(i) = n - 1 => i = SlotAt(tail, n)
         /\ \A m, n \in 1 .. Count : m # n => SlotAt(tail, m) # SlotAt(tail, n)
         /\ \A k \in 0 .. Count : {i \in Slots : Distance(i) < k} = {SlotAt(tail, n) : n \in 1 .. k}
<1> USE ConstantsAssumption DEF Slots, Distance, Count
<1>1. Count \in 0 .. Size - 1
  OBVIOUS
<1>2. ASSUME NEW n \in 1 .. Count
      PROVE  /\ SlotAt(tail, n) \in Slots
             /\ Distance(SlotAt(tail, n)) = n - 1
             /\ \A i \in Slots : Distance(i) = n - 1 => i = SlotAt(tail, n)
  BY DEF SlotAt
<1>3. \A m, n \in 1 .. Count : m # n => SlotAt(tail, m) # SlotAt(tail, n)
  BY DEF SlotAt
<1>4. ASSUME NEW k \in 0 .. Count
      PROVE  {i \in Slots : Distance(i) < k} = {SlotAt(tail, n) : n \in 1 .. k}
  <2>1. ASSUME NEW i \in Slots, Distance(i) < k PROVE \E n \in 1 .. k : i = SlotAt(tail, n)
    <3>1. Distance(i) + 1 \in 1 .. k /\ SlotAt(tail, Distance(i) + 1) = i
      BY <2>1 DEF SlotAt
    <3> QED BY <3>1
  <2>2. ASSUME NEW n \in 1 .. k PROVE SlotAt(tail, n) \in Slots /\ Distance(SlotAt(tail, n)) < k
    BY <1>2
  <2> HIDE DEF Slots, Distance
  <2> QED BY <2>1, <2>2
<1> QED BY <1>1, <1>2, <1>3, <1>4

(* The log's queue, slot by slot.                                          *)
LEMMA QueuedAt ==
  head \in Slots /\ tail \in Slots =>
    Queued = [n \in 1 .. Count |-> [id |-> data[SlotAt(tail, n)].id,
                                    skipped |-> data[SlotAt(tail, n)].skipped]]
<1> SUFFICES ASSUME head \in Slots, tail \in Slots
             PROVE  Queued = [n \in 1 .. Count |-> [id |-> data[SlotAt(tail, n)].id,
                                                    skipped |-> data[SlotAt(tail, n)].skipped]]
  OBVIOUS
<1>1. ASSUME NEW n \in 1 .. Count
      PROVE  (CHOOSE i \in Slots : Distance(i) = n - 1) = SlotAt(tail, n)
  <2>1. /\ SlotAt(tail, n) \in Slots /\ Distance(SlotAt(tail, n)) = n - 1
        /\ \A i \in Slots : Distance(i) = n - 1 => i = SlotAt(tail, n)
    BY SlotAtFacts
  <2> QED BY <2>1
<1> QED BY <1>1 DEF Queued

(* log_skipped added up over the k oldest requests.                        *)
LEMMA SkippedInOldest ==
  ASSUME Ring, NEW k \in 0 .. Count, NEW q, DOMAIN q = 1 .. k,
         \A n \in 1 .. k : q[n].skipped = data[SlotAt(tail, n)].skipped
  PROVE  Log!SkippedIn(q) = SkippedOf(data, {i \in Slots : Distance(i) < k})
<1> DEFINE at == [n \in 1 .. k |-> SlotAt(tail, n)]
<1>1. head \in Slots /\ tail \in Slots /\ \A i \in Slots : data[i].skipped \in Nat
  BY DEF Ring
<1>2. /\ Count \in 0 .. Size - 1
      /\ \A n \in 1 .. Count : SlotAt(tail, n) \in Slots
      /\ \A m, n \in 1 .. Count : m # n => SlotAt(tail, m) # SlotAt(tail, n)
      /\ {i \in Slots : Distance(i) < k} = {SlotAt(tail, n) : n \in 1 .. k}
  BY <1>1, SlotAtFacts
<1>3. k \in Nat /\ 1 .. k \subseteq 1 .. Count
  BY <1>2, ConstantsAssumption
<1>4. /\ at \in [1 .. k -> Slots]
      /\ \A m, n \in 1 .. k : m # n => at[m] # at[n]
      /\ \A n \in 1 .. k : q[n].skipped \in Nat /\ q[n].skipped = data[at[n]].skipped
      /\ {i \in Slots : Distance(i) < k} = {at[n] : n \in 1 .. k}
  BY <1>1, <1>2, <1>3
<1> HIDE DEF at
<1>5. IsFiniteSet(Slots)
  BY OccupiedFinite
<1>6. Log!SkippedIn(q) = SkippedOf(data, {at[n] : n \in 1 .. k})
  BY <1>3, <1>4, <1>5, SkippedInListed
<1> QED BY <1>4, <1>6

(* log_skipped added up over the whole queue.                              *)
LEMMA QueuedSum == Ring => Log!SkippedIn(Queued) = SkippedOf(data, Occupied)
<1> SUFFICES ASSUME Ring PROVE Log!SkippedIn(Queued) = SkippedOf(data, Occupied)
  OBVIOUS
<1>1. Count \in 0 .. Count /\ head \in Slots /\ tail \in Slots
  <2>1. head \in Slots /\ tail \in Slots
    BY DEF Ring
  <2>2. Count \in 0 .. Size - 1
    BY <2>1, SlotAtFacts
  <2> QED BY <2>1, <2>2
<1>2. Queued = [n \in 1 .. Count |-> [id |-> data[SlotAt(tail, n)].id,
                                      skipped |-> data[SlotAt(tail, n)].skipped]]
  BY <1>1, QueuedAt
<1>3. /\ DOMAIN Queued = 1 .. Count
      /\ \A n \in 1 .. Count : Queued[n].skipped = data[SlotAt(tail, n)].skipped
  BY <1>2
<1>4. Log!SkippedIn(Queued) = SkippedOf(data, {i \in Slots : Distance(i) < Count})
  BY <1>1, <1>3, SkippedInOldest
<1> QED BY <1>4 DEF Occupied

(* Where the requests stand after log_request: the oldest is gone when the *)
(* ring was full, the others keep their order, and the new one is last.    *)
LEMMA SlotsAfterLog ==
  ASSUME head \in Slots, tail \in Slots,
         head' = Succ(head),
         tail' = IF Overflows THEN Succ(tail) ELSE tail
  PROVE  /\ Overflows <=> Count = Size - 1
         /\ Overflows  => /\ Count' = Count
                          /\ \A n \in 1 .. Count - 1 : SlotAt(tail', n) = SlotAt(tail, n + 1)
         /\ ~Overflows => /\ Count' = Count + 1
                          /\ \A n \in 1 .. Count : SlotAt(tail', n) = SlotAt(tail, n)
         /\ SlotAt(tail', Count') = head
         /\ \A n \in 1 .. Count : SlotAt(tail, n) # head
<1> USE ConstantsAssumption DEF Slots, Succ, Overflows
<1>1. Overflows <=> Count = Size - 1
  BY DEF Count, Distance
<1>4. \A n \in 1 .. Count : SlotAt(tail, n) # head
  BY DEF SlotAt, Count, Distance
<1>2. CASE Overflows
  <2>1. tail' = Succ(tail) /\ head' = tail
    BY <1>2
  <2>2. Count' = Count /\ Count = Size - 1
    BY <1>1, <1>2, <2>1 DEF Count, Distance
  <2>3. ASSUME NEW n \in 1 .. Count - 1 PROVE SlotAt(tail', n) = SlotAt(tail, n + 1)
    BY <2>1, <2>2 DEF SlotAt
  <2>4. SlotAt(tail', Count') = head
    BY <2>1, <2>2, <1>2 DEF SlotAt
  <2> HIDE DEF Overflows
  <2> QED BY <1>1, <1>2, <1>4, <2>2, <2>3, <2>4
<1>3. CASE ~ Overflows
  <2>1. tail' = tail /\ head' = Succ(head)
    BY <1>3
  <2>2. Count' = Count + 1
    BY <1>3, <2>1 DEF Count, Distance
  <2>3. ASSUME NEW n \in 1 .. Count PROVE SlotAt(tail', n) = SlotAt(tail, n)
    BY <2>1 DEF SlotAt
  <2>4. SlotAt(tail', Count') = head
    BY <2>1, <2>2 DEF SlotAt, Count, Distance
  <2> HIDE DEF Overflows
  <2> QED BY <1>1, <1>3, <1>4, <2>2, <2>3, <2>4
<1> HIDE DEF Overflows
<1> QED BY <1>2, <1>3

(* And after get_request: the k oldest are gone.                           *)
LEMMA SlotsAfterGet ==
  ASSUME head \in Slots, tail \in Slots, NEW k \in 1 .. Count,
         head' = head, tail' = TailAfter(k)
  PROVE  /\ tail' \in Slots
         /\ Count' = Count - k
         /\ \A n \in 1 .. Count - k : SlotAt(tail', n) = SlotAt(tail, n + k)
BY ConstantsAssumption DEF Slots, TailAfter, Count, Distance, SlotAt

(* log_request is Log: the oldest request goes if the ring is full. *)
LEMMA LogImplements ==
  ASSUME IInv, AccInv, NEW t \in Threads, log_request(t)
  PROVE  Log!Log
<1> DEFINE entry == [id |-> logged + 1, skipped |-> SkippedBy(Overflows)]
           rest  == IF Overflows THEN Tail(Queued) ELSE Queued
<1>1. /\ data'[head].id = logged + 1 /\ data'[head].skipped = SkippedBy(Overflows)
      /\ \A i \in Slots \ {head} : data'[i] = data[i]
      /\ head' = Succ(head) /\ tail' = (IF Overflows THEN Succ(tail) ELSE tail)
      /\ logged' = logged + 1 /\ told' = told
      /\ rejected' = (IF Overflows THEN rejected + 1 ELSE rejected)
  BY LogEffect
<1>2. Ring /\ Ring' /\ head \in Slots /\ tail \in Slots /\ head' \in Slots /\ tail' \in Slots
  BY LogKeeps DEF IInv, Ring
<1>3. /\ Count \in 0 .. Size - 1 /\ Count' \in 1 .. Size - 1
      /\ Overflows <=> Count = Size - 1
      /\ Overflows  => /\ Count' = Count
                       /\ \A n \in 1 .. Count - 1 : SlotAt(tail', n) = SlotAt(tail, n + 1)
      /\ ~Overflows => /\ Count' = Count + 1
                       /\ \A n \in 1 .. Count : SlotAt(tail', n) = SlotAt(tail, n)
      /\ SlotAt(tail', Count') = head
      /\ \A n \in 1 .. Count : SlotAt(tail, n) \in Slots \ {head}
  <2>1. Count \in 0 .. Size - 1 /\ \A n \in 1 .. Count : SlotAt(tail, n) \in Slots
    BY <1>2, SlotAtFacts
  <2>2. /\ Overflows <=> Count = Size - 1
        /\ Overflows  => /\ Count' = Count
                         /\ \A n \in 1 .. Count - 1 : SlotAt(tail', n) = SlotAt(tail, n + 1)
        /\ ~Overflows => /\ Count' = Count + 1
                         /\ \A n \in 1 .. Count : SlotAt(tail', n) = SlotAt(tail, n)
        /\ SlotAt(tail', Count') = head
        /\ \A n \in 1 .. Count : SlotAt(tail, n) # head
    BY <1>1, <1>2, SlotsAfterLog
  <2>3. Count' \in 1 .. Size - 1
    BY <2>1, <2>2, ConstantsAssumption
  <2> QED BY <2>1, <2>2, <2>3
<1>4. /\ Queued = [n \in 1 .. Count |-> [id |-> data[SlotAt(tail, n)].id,
                                         skipped |-> data[SlotAt(tail, n)].skipped]]
      /\ Queued' = [n \in 1 .. Count' |-> [id |-> data'[SlotAt(tail', n)].id,
                                           skipped |-> data'[SlotAt(tail', n)].skipped]]
  <2>1. (head \in Slots /\ tail \in Slots)' =>
          (Queued = [n \in 1 .. Count |-> [id |-> data[SlotAt(tail, n)].id,
                                           skipped |-> data[SlotAt(tail, n)].skipped]])'
    BY QueuedAt, PTL
  <2> QED BY <1>2, <2>1, QueuedAt
<1>5. Len(Queued) = Count /\ Queued \in Seq([id : 0 .. MaxLogged, skipped : Nat])
  <2>1. \A n \in 1 .. Count : data[SlotAt(tail, n)].id \in 0 .. MaxLogged
                              /\ data[SlotAt(tail, n)].skipped \in Nat
    BY <1>2, <1>3 DEF Ring
  <2> DEFINE R == [id : 0 .. MaxLogged, skipped : Nat]
  <2>2. \A n \in 1 .. Count : Queued[n] \in R
    BY <1>4, <2>1
  <2>3. Count \in Nat /\ Queued = [n \in 1 .. Count |-> Queued[n]]
    BY <1>3, <1>4, ConstantsAssumption
  <2> HIDE DEF R
  <2>4. Queued \in [1 .. Count -> R]
    BY <2>2, <2>3
  <2> QED BY <2>3, <2>4 DEF R
<1>6. /\ Queued'[Count'] = entry
      /\ \A n \in 1 .. Count' - 1 : Queued'[n] = IF Overflows THEN Queued[n + 1] ELSE Queued[n]
  <2>1. Queued'[Count'] = entry
    <3>1. Count' \in 1 .. Count' /\ SlotAt(tail', Count') = head
      BY <1>3
    <3> QED BY <1>1, <1>4, <3>1
  <2>2. ASSUME NEW n \in 1 .. Count' - 1
        PROVE  Queued'[n] = IF Overflows THEN Queued[n + 1] ELSE Queued[n]
    <3> DEFINE old == IF Overflows THEN n + 1 ELSE n
    <3>1. n \in 1 .. Count' /\ old \in 1 .. Count /\ SlotAt(tail', n) = SlotAt(tail, old)
      <4>1. CASE Overflows
        <5>1. old = n + 1 /\ n \in 1 .. Count - 1 /\ n \in 1 .. Count' /\ n + 1 \in 1 .. Count
          BY <1>3, <2>2, <4>1
        <5> QED BY <1>3, <4>1, <5>1
      <4>2. CASE ~ Overflows
        <5>1. old = n /\ n \in 1 .. Count /\ n \in 1 .. Count'
          BY <1>3, <2>2, <4>2
        <5> QED BY <1>3, <4>2, <5>1
      <4> QED BY <4>1, <4>2
    <3> HIDE DEF old
    <3>2. data'[SlotAt(tail', n)] = data[SlotAt(tail, old)]
      BY <1>1, <1>3, <3>1
    <3>3. Queued'[n] = Queued[old]
      BY <1>4, <3>1, <3>2
    <3> QED BY <3>3 DEF old
  <2> QED BY <2>1, <2>2
<1>7. Queued' = Append(rest, entry)
  <2>1. /\ Queued' = [n \in 1 .. Count' |-> Queued'[n]]
        /\ Queued \in Seq([id : 0 .. MaxLogged, skipped : Nat]) /\ Len(Queued) = Count
        /\ Count \in Nat /\ Count' \in Nat
    BY <1>3, <1>4, <1>5
  <2>2. CASE Overflows
    <3>1. Count' = Count /\ Count >= 1 /\ rest = Tail(Queued)
      BY <1>3, <2>2
    <3>2. /\ rest \in Seq([id : 0 .. MaxLogged, skipped : Nat]) /\ Len(rest) = Count - 1
          /\ \A n \in 1 .. Count - 1 : rest[n] = Queued[n + 1]
      BY <2>1, <3>1
    <3> HIDE DEF rest, entry
    <3>3. /\ DOMAIN Append(rest, entry) = 1 .. Count
          /\ \A n \in 1 .. Count - 1 : Append(rest, entry)[n] = Queued[n + 1]
          /\ Append(rest, entry)[Count] = entry
      BY <2>1, <3>1, <3>2
    <3> QED BY <1>6, <2>1, <2>2, <3>1, <3>3
  <2>3. CASE ~ Overflows
    <3>1. Count' = Count + 1 /\ rest = Queued
      BY <1>3, <2>3
    <3> HIDE DEF rest, entry
    <3>2. /\ DOMAIN Append(rest, entry) = 1 .. Count + 1
          /\ \A n \in 1 .. Count : Append(rest, entry)[n] = Queued[n]
          /\ Append(rest, entry)[Count + 1] = entry
      BY <2>1, <3>1
    <3> QED BY <1>6, <2>1, <2>3, <3>1, <3>2
  <2> QED BY <2>2, <2>3
<1>8. Log!SkippedIn(Queued') + told' = rejected'
  <2>1. Log!SkippedIn(Queued') = SkippedOf(data', Occupied')
    <3>1. Ring' => (Log!SkippedIn(Queued) = SkippedOf(data, Occupied))'
      BY QueuedSum, PTL
    <3> QED BY <1>2, <3>1
  <2>2. told' + SkippedOf(data', Occupied') = rejected' /\ told' \in Nat
    BY LogAccounts DEF AccInv
  <2>3. rejected' \in Nat /\ SkippedOf(data', Occupied') \in Nat
    <3>1. IInv'
      BY LogKeeps
    <3>2. \A i \in Occupied' : data'[i].skipped \in Nat
      BY <1>2 DEF Ring, Occupied
    <3>3. IsFiniteSet(Occupied')
      BY OccupiedFinite DEF Occupied
    <3>4. SkippedOf(data', Occupied') \in Nat
      BY <3>2, <3>3, SkippedOfStep
    <3> QED BY <3>1, <3>4 DEF IInv, RestTyped
  <2> QED BY <2>1, <2>2, <2>3
<1>9. SkippedBy(Overflows) \in 0 .. rejected'
  BY LogAccounts
<1> QED BY <1>1, <1>3, <1>5, <1>7, <1>8, <1>9 DEF Log!Log

(* get_request is Fetch: the requests read are the oldest ones. *)
LEMMA GetImplements ==
  ASSUME IInv, AccInv, get_request
  PROVE  Log!Fetch
<1>1. PICK k \in 1 .. Count :
        LET read == {i \in Slots : Distance(i) < k}
        IN /\ head' = head /\ tail' = TailAfter(k)
           /\ told' = told + SkippedOf(data, read)
           /\ \A i \in Slots : data'[i].id = data[i].id /\ data'[i].skipped = data[i].skipped
           /\ logged' = logged /\ rejected' = rejected
  BY GetEffect
<1>2. Ring /\ head \in Slots /\ tail \in Slots
  BY DEF IInv, Ring
<1>3. /\ Count \in 0 .. Size - 1 /\ k \in 1 .. Count /\ k \in 0 .. Count
      /\ head' \in Slots /\ tail' \in Slots
      /\ Count' = Count - k
      /\ \A n \in 1 .. Count - k : SlotAt(tail', n) = SlotAt(tail, n + k)
      /\ \A n \in 1 .. Count : SlotAt(tail, n) \in Slots
  <2>1. Count \in 0 .. Size - 1 /\ \A n \in 1 .. Count : SlotAt(tail, n) \in Slots
    BY <1>2, SlotAtFacts
  <2>2. /\ tail' \in Slots /\ Count' = Count - k
        /\ \A n \in 1 .. Count - k : SlotAt(tail', n) = SlotAt(tail, n + k)
    BY <1>1, <1>2, SlotsAfterGet
  <2> QED BY <1>1, <1>2, <2>1, <2>2
<1>4. /\ Queued = [n \in 1 .. Count |-> [id |-> data[SlotAt(tail, n)].id,
                                         skipped |-> data[SlotAt(tail, n)].skipped]]
      /\ Queued' = [n \in 1 .. Count' |-> [id |-> data'[SlotAt(tail', n)].id,
                                           skipped |-> data'[SlotAt(tail', n)].skipped]]
  <2>1. (head \in Slots /\ tail \in Slots)' =>
          (Queued = [n \in 1 .. Count |-> [id |-> data[SlotAt(tail, n)].id,
                                           skipped |-> data[SlotAt(tail, n)].skipped]])'
    BY QueuedAt, PTL
  <2> QED BY <1>2, <1>3, <2>1, QueuedAt
<1> DEFINE R == [id : 0 .. MaxLogged, skipped : Nat]
<1>5. Len(Queued) = Count /\ Queued \in Seq(R) /\ Count \in Nat
  <2>1. \A n \in 1 .. Count : data[SlotAt(tail, n)].id \in 0 .. MaxLogged
                              /\ data[SlotAt(tail, n)].skipped \in Nat
    BY <1>2, <1>3 DEF Ring
  <2>2. \A n \in 1 .. Count : Queued[n] \in R
    BY <1>4, <2>1
  <2>3. Count \in Nat /\ Queued = [n \in 1 .. Count |-> Queued[n]]
    BY <1>3, <1>4, ConstantsAssumption
  <2> HIDE DEF R
  <2>4. Queued \in [1 .. Count -> R]
    BY <2>2, <2>3
  <2> QED BY <2>3, <2>4
<1> DEFINE q == SubSeq(Queued, 1, k)
<1>6. /\ DOMAIN q = 1 .. k
      /\ \A n \in 1 .. k : q[n].skipped = data[SlotAt(tail, n)].skipped
  <2> HIDE DEF R
  <2>1. DOMAIN q = 1 .. k /\ \A n \in 1 .. k : q[n] = Queued[n]
    BY <1>3, <1>5
  <2> HIDE DEF q
  <2>2. ASSUME NEW n \in 1 .. k PROVE Queued[n].skipped = data[SlotAt(tail, n)].skipped
    <3>1. n \in 1 .. Count
      BY <1>3
    <3> QED BY <1>4, <3>1
  <2> QED BY <2>1, <2>2
<1>7. told' = told + Log!SkippedIn(q)
  <2> HIDE DEF q
  <2> QED BY <1>1, <1>2, <1>3, <1>6, SkippedInOldest
<1>8. Queued' = SubSeq(Queued, k + 1, Len(Queued))
  <2> DEFINE r == SubSeq(Queued, k + 1, Count)
  <2>1. r = [n \in 1 .. Count - k |-> Queued[n + k]]
    <3> HIDE DEF R
    <3> QED BY <1>3, <1>5
  <2>2. ASSUME NEW n \in 1 .. Count - k PROVE Queued'[n] = Queued[n + k]
    <3> DEFINE i == SlotAt(tail, n + k)
    <3>1. n + k \in 1 .. Count /\ n \in 1 .. Count' /\ SlotAt(tail', n) = i /\ i \in Slots
      BY <1>3
    <3>2. Queued[n + k] = [id |-> data[i].id, skipped |-> data[i].skipped]
      BY <1>4, <3>1
    <3> HIDE DEF i
    <3>3. Queued'[n] = [id |-> data'[i].id, skipped |-> data'[i].skipped]
      BY <1>4, <3>1
    <3> QED BY <1>1, <3>1, <3>2, <3>3
  <2>3. Queued' = [n \in 1 .. Count - k |-> Queued'[n]]
    BY <1>3, <1>4
  <2> HIDE DEF r
  <2>4. Queued' = r
    BY <2>1, <2>2, <2>3
  <2> QED BY <1>5, <2>4 DEF r
<1> QED BY <1>1, <1>3, <1>5, <1>7, <1>8 DEF Log!Fetch

(* Every step is one of the log, or changes nothing there. *)
LEMMA StepImplements == IInv /\ AccInv /\ [Next]_vars => [Log!Next]_(Log!vars)
<1> SUFFICES ASSUME IInv, AccInv, [Next]_vars PROVE [Log!Next]_(Log!vars)
  OBVIOUS
<1>1. ASSUME NEW t \in Threads, log_request(t) PROVE Log!Next
  BY <1>1, LogImplements DEF Log!Next
<1>2. ASSUME get_request PROVE Log!Next
  BY <1>2, GetImplements DEF Log!Next
<1>3. CASE \/ \E t \in Threads : log_request_test(t) \/ log_request_set(t)
           \/ filter_init_2 \/ reader_wait \/ filter_free_2 \/ filter_free \/ UNCHANGED vars
  <2>1. UNCHANGED <<data, head, tail, logged, rejected, told>>
    BY <1>3, OtherSteps
  <2>2. Queued' = Queued
    BY <2>1 DEF Queued, Count, Distance
  <2> QED BY <2>1, <2>2 DEF Log!vars
<1> QED BY <1>1, <1>2, <1>3 DEF Next

(* The empty ring is the empty log. *)
LEMMA InitImplements == Init => Log!Init
<1> SUFFICES ASSUME Init PROVE Log!Init
  OBVIOUS
<1>1. Count = 0
  BY ConstantsAssumption DEF Init, Count, Distance
<1>2. Queued = <<>>
  BY <1>1 DEF Queued
<1> QED BY <1>2 DEF Init, Log!Init

(* log_request and get_request, filter.c:315-448: for every size of the    *)
(* ring, every number of threads and every pool, the cyclic queue is a     *)
(* bounded log: requests come out in the order they went in, the oldest    *)
(* one makes room, and no rejected one is forgotten or told twice.         *)
THEOREM RingImplementsLog == Spec => ImplementsLog
<1>1. Init => IInv /\ AccInv
  BY IInvInit, AccInit
<1>2. IInv /\ AccInv /\ [Next]_vars => IInv' /\ AccInv'
  BY IInvNext, AccNext
<1> QED BY <1>1, <1>2, InitImplements, StepImplements, PTL DEF Spec, ImplementsLog, Log!Spec
=============================================================================

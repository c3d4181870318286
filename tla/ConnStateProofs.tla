--------------------------- MODULE ConnStateProofs ---------------------------
(***************************************************************************)
(* Proofs about the TCP state table for any number of connection objects   *)
(* and entries, any MAX_CLOSED_TIME and any lag of the thread.             *)
(***************************************************************************)
EXTENDS ConnState, WellFoundedInduction, TLAPS

(* A nonempty set of naturals with a bound has a greatest element: the     *)
(* loop of conn_thread that picks the timeout is well defined.             *)
LEMMA BoundedMaximum ==
  ASSUME NEW N \in Nat, NEW S \in SUBSET (0 .. N), S # {}
  PROVE  \E r \in S : \A q \in S : q <= r
<1> DEFINE T == {N - s : s \in S}
<1>1. T \subseteq Nat /\ T # {}
  <2>1. \A s \in S : s \in Int /\ 0 <= s /\ s <= N
    OBVIOUS
  <2>2. \A s \in S : N - s \in Nat
    BY <2>1
  <2> QED BY <2>2
<1> DEFINE Less == OpToRel(<, Nat)
<1>2. IsWellFoundedOn(Less, Nat)
  BY NatLessThanWellFounded
<1> HIDE DEF Less
<1>3. PICK x \in T : \A y \in T : ~ (<<y, x>> \in Less)
  <2> HIDE DEF T
  <2> QED BY <1>1, <1>2, WFMin
<1>4. \A y \in T : ~ (y < x)
  BY <1>1, <1>3 DEF Less, OpToRel
<1>5. PICK r \in S : x = N - r
  OBVIOUS
<1>6. ASSUME NEW q \in S PROVE q <= r
  <2>1. N - q \in T
    OBVIOUS
  <2> HIDE DEF T
  <2>2. ~ (N - q < N - r)
    BY <1>4, <1>5, <2>1
  <2> QED BY <2>2
<1> QED BY <1>6

-----------------------------------------------------------------------------
(* The inductive invariant, in two halves: what the state table must keep  *)
(* (types of its variables, NoDangling, NoOrphan), and the types of the    *)
(* rest, with the fact that only an object in g_ot_hash holds an entry.    *)

TableTyped ==
  /\ conn_entry \in [ConnObjs -> Entries \cup {NULL}]
  /\ heap \subseteq Entries
  /\ state \in [Entries -> StateValues]
  /\ connobj \in [Entries -> ConnObjs \cup {NULL}]
  /\ g_conn_to_del \subseteq Entries
  /\ relinked \in BOOLEAN
  /\ age \in [Entries -> 0 .. AgeCap]
  /\ g_conn_new_to_del \in BOOLEAN

OwnersPoint ==
  \A c \in ConnObjs : conn_entry[c] # NULL =>
    /\ conn_entry[c] \in heap \ g_conn_to_del
    /\ connobj[conn_entry[c]] = c

QueuedClosed ==
  \A e \in g_conn_to_del : e \in heap /\ state[e] = "CLOSED" /\ connobj[e] = NULL

TableInv == TableTyped /\ OwnersPoint /\ QueuedClosed /\ NoOrphan

RestTyped ==
  /\ fobj \in [ConnObjs -> {"none", "open", "stale"}]
  /\ conn_irp \in [ConnObjs -> {"idle", "connect", "accept", "reject"}]
  /\ disc \in [ConnObjs -> [at : {"idle", "read", "sent"}, to : StateValues]]
  /\ ev \in [ConnObjs -> {"NONE", "CLOSE_WAIT", "TIME_WAIT"}]
  /\ g_conn_thread \in BOOLEAN
  /\ pc \in {"wait", "scan", "test", "exited"}
  /\ timer \in {Infinite} \cup (0 .. MaxClosed + MaxLag)
  /\ lag \in 0 .. MaxLag
  /\ phase \in {"running", "ot_free", "cleared", "signalled", "freed"}

OnlyOpenOwn == \A c \in ConnObjs : conn_entry[c] # NULL => fobj[c] # "none"

IInv == TableInv /\ RestTyped /\ OnlyOpenOwn

(* What the invariant says of the table is what the properties say. *)
LEMMA IInvImplies == IInv => TypeOK /\ NoDangling /\ NoOrphan
BY DEF IInv, TableInv, TableTyped, OwnersPoint, QueuedClosed, RestTyped, OnlyOpenOwn,
       TypeOK, NoDangling

(* What each operation of the table does to it and to the other objects.   *)

(* add_tcp_conn takes a free entry for one object and leaves the others alone. *)
LEMMA AddKeeps ==
  ASSUME TableInv, NEW c \in ConnObjs, NEW s \in StateValues, add_tcp_conn(c, s)
  PROVE  TableInv' /\ \A d \in ConnObjs \ {c} : conn_entry'[d] = conn_entry[d]
<1> USE ConstantsAssumption DEF TableInv, TableTyped
<1>1. PICK e \in Entries \ heap :
        /\ conn_entry[c] = NULL
        /\ heap' = heap \cup {e}
        /\ state' = [state EXCEPT ![e] = s]
        /\ connobj' = [connobj EXCEPT ![e] = c]
        /\ conn_entry' = [conn_entry EXCEPT ![c] = e]
        /\ UNCHANGED <<g_conn_to_del, relinked, age, g_conn_new_to_del>>
  BY DEF add_tcp_conn
<1>2. TableTyped'
  BY <1>1
<1>3. OwnersPoint' /\ QueuedClosed'
  BY <1>1 DEF OwnersPoint, QueuedClosed
<1>4. NoOrphan'
  BY <1>1 DEF NoOrphan
<1> QED BY <1>1, <1>2, <1>3, <1>4

(* del_tcp_conn queues one object's entry and no other. *)
LEMMA DelKeeps ==
  ASSUME TableInv, NEW c \in ConnObjs, del_tcp_conn(c)
  PROVE  /\ TableInv'
         /\ conn_entry'[c] = NULL
         /\ \A d \in ConnObjs \ {c} : conn_entry'[d] = conn_entry[d]
<1> USE ConstantsAssumption DEF TableInv, TableTyped
<1>1. CASE conn_entry[c] = NULL
  BY <1>1 DEF del_tcp_conn, ceVars, OwnersPoint, QueuedClosed, NoOrphan
<1>2. CASE conn_entry[c] # NULL
  <2> DEFINE e == conn_entry[c]
  <2>1. /\ e \in Entries
        /\ conn_entry' = [conn_entry EXCEPT ![c] = NULL]
        /\ state' = [state EXCEPT ![e] = "CLOSED"]
        /\ connobj' = [connobj EXCEPT ![e] = NULL]
        /\ g_conn_to_del' = g_conn_to_del \cup {e}
        /\ relinked' \in BOOLEAN
        /\ age' = [age EXCEPT ![e] = 0]
        /\ g_conn_new_to_del' = TRUE
        /\ heap' = heap
    BY <1>2 DEF del_tcp_conn, del_tcp_conn_obj
  <2>2. TableTyped'
    BY <2>1 DEF AgeCap, StateValues, TcpStates
  <2>3. \A d \in ConnObjs \ {c} : conn_entry[d] # e
    BY <1>2 DEF OwnersPoint
  <2>4. OwnersPoint' /\ QueuedClosed'
    BY <1>2, <2>1, <2>3 DEF OwnersPoint, QueuedClosed
  <2>5. NoOrphan'
    BY <2>1, <2>3 DEF NoOrphan
  <2> QED BY <2>1, <2>2, <2>4, <2>5
<1> QED BY <1>1, <1>2

(* set_tcp_conn_state moves no pointer; a CLOSED entry is queued with it. *)
LEMMA SetKeeps ==
  ASSUME TableInv, NEW c \in ConnObjs, NEW s \in StateValues, set_tcp_conn_state(c, s)
  PROVE  TableInv' /\ conn_entry' = conn_entry
<1> USE ConstantsAssumption DEF TableInv, TableTyped, set_tcp_conn_state
<1>1. TableTyped' /\ OwnersPoint' /\ NoOrphan'
  BY DEF OwnersPoint, NoOrphan
<1>2. QueuedClosed'
  BY DEF OwnersPoint, QueuedClosed
<1> QED BY <1>1, <1>2

(* The pass of conn_thread over the list.                                  *)
LEMMA LongestType ==
  ASSUME TableInv, lag \in 0 .. MaxLag, NEW E \in SUBSET g_conn_to_del, E # {},
         \A e \in E : ~ Due(e)
  PROVE  /\ Longest(E) \in 1 .. MaxClosed + MaxLag
         /\ \A e \in E : MaxClosed - Delta(e) <= Longest(E)
<1>1. \A e \in E : age[e] \in Nat /\ Delta(e) < MaxClosed /\ Delta(e) >= -lag /\ Delta(e) \in Int
  BY ConstantsAssumption DEF TableInv, TableTyped, Due, Delta, AgeCap
<1>2. \A e \in E : MaxClosed - Delta(e) \in 1 .. MaxClosed + MaxLag
  BY <1>1, ConstantsAssumption
<1>3. Remaining(E) \in SUBSET (1 .. MaxClosed + MaxLag) /\ Remaining(E) # {}
  BY <1>2 DEF Remaining
<1>4. \E r \in Remaining(E) : \A q \in Remaining(E) : q <= r
  <2>1. MaxClosed + MaxLag \in Nat
    BY ConstantsAssumption
  <2>2. Remaining(E) \in SUBSET (0 .. MaxClosed + MaxLag)
    BY <1>3
  <2> QED BY <1>3, <2>1, <2>2, BoundedMaximum
<1>5. Longest(E) \in Remaining(E) /\ \A q \in Remaining(E) : q <= Longest(E)
  BY <1>4 DEF Longest
<1> QED BY <1>3, <1>5 DEF Remaining

(* The pass frees only queued entries, and those no object points at. *)
LEMMA ScanKeeps ==
  ASSUME IInv, conn_thread_scan
  PROVE  IInv'
<1> USE ConstantsAssumption DEF IInv, TableInv
<1> DEFINE freed == {e \in g_conn_to_del : Due(e)}
           kept  == g_conn_to_del \ freed
<1>1. /\ g_conn_to_del' = kept
      /\ heap' = heap \ freed
      /\ age' = [e \in Entries |-> IF e \in freed THEN 0 ELSE age[e]]
      /\ state' = [e \in Entries |-> IF e \in freed THEN "NONE" ELSE state[e]]
      /\ timer' = IF kept = {} THEN Infinite ELSE Longest(kept)
      /\ pc' = "test" /\ lag' = 0
      /\ UNCHANGED <<fobj, conn_entry, connobj, relinked, conn_irp, disc, ev,
                     g_conn_thread, phase, g_conn_new_to_del>>
  BY DEF conn_thread_scan, objVars, irpVars, freeVars
<1>2. timer' \in {Infinite} \cup (0 .. MaxClosed + MaxLag)
  <2>1. CASE kept = {}
    BY <1>1, <2>1
  <2>2. CASE kept # {}
    <3>1. Longest(kept) \in 1 .. MaxClosed + MaxLag
      BY <2>2, LongestType DEF RestTyped
    <3> QED BY <1>1, <2>2, <3>1
  <2> QED BY <2>1, <2>2
<1> HIDE DEF freed, kept
<1>3. freed \subseteq g_conn_to_del /\ kept = g_conn_to_del \ freed
  BY DEF freed, kept
<1>4. TableTyped'
  <2>1. age' \in [Entries -> 0 .. AgeCap]
    BY <1>1 DEF TableTyped, AgeCap
  <2>2. state' \in [Entries -> StateValues]
    BY <1>1 DEF TableTyped, StateValues, TcpStates
  <2> QED BY <1>1, <1>3, <2>1, <2>2 DEF TableTyped
<1>5. OwnersPoint' /\ QueuedClosed' /\ NoOrphan'
  BY <1>1, <1>3 DEF TableTyped, OwnersPoint, QueuedClosed, NoOrphan
<1>6. RestTyped'
  BY <1>1, <1>2 DEF RestTyped
<1>7. OnlyOpenOwn'
  BY <1>1 DEF OnlyOpenOwn
<1> QED BY <1>4, <1>5, <1>6, <1>7

(* The remaining steps of the thread, of time and of the teardown leave    *)
(* the table alone or go through del_tcp_conn.                             *)
LEMMA ThreadKeeps ==
  ASSUME IInv, conn_thread_wake \/ conn_thread_test \/ OnUnload \/
               conn_state_free
  PROVE  IInv'
<1> USE ConstantsAssumption
    DEF IInv, TableInv, TableTyped, OwnersPoint, QueuedClosed, NoOrphan, RestTyped, OnlyOpenOwn,
        objVars, ceVars, irpVars, thrVars, freeVars
<1>1. CASE conn_thread_wake
  <2>1. g_conn_new_to_del' \in BOOLEAN
    BY <1>1, Zenon DEF conn_thread_wake
  <2>2. /\ pc' = "scan" /\ lag' = 0 /\ timer' = Infinite
        /\ UNCHANGED <<objVars, ceVars, irpVars, freeVars>>
    BY <1>1, Zenon DEF conn_thread_wake
  <2> QED BY <2>1, <2>2
<1>2. CASE conn_thread_test
  BY <1>2 DEF conn_thread_test
<1>3. CASE OnUnload
  BY <1>3 DEF OnUnload
<1>4. CASE conn_state_free_clear
  BY <1>4 DEF conn_state_free_clear
<1>5. CASE conn_state_free_signal
  BY <1>5 DEF conn_state_free_signal
<1>6. CASE conn_state_free_join
  BY <1>6 DEF conn_state_free_join
<1> QED BY <1>1, <1>2, <1>3, <1>4, <1>5, <1>6 DEF conn_state_free

(* Time changes ages and the timer only. *)
LEMMA TickKeeps ==
  ASSUME IInv, Tick
  PROVE  IInv'
<1> USE ConstantsAssumption DEF IInv, TableInv
<1>1. /\ pc \in {"scan", "test"} => lag < MaxLag
      /\ lag' = IF pc \in {"scan", "test"} THEN lag + 1 ELSE lag
      /\ timer' = IF pc = "wait" /\ timer > 0 THEN timer - 1 ELSE timer
      /\ age' = [e \in Entries |-> IF e \in g_conn_to_del /\ age[e] < AgeCap
                                   THEN age[e] + 1 ELSE age[e]]
      /\ UNCHANGED <<fobj, conn_entry, heap, state, connobj, g_conn_to_del, relinked,
                     conn_irp, disc, ev, pc, g_conn_thread, phase, g_conn_new_to_del>>
  BY DEF Tick, objVars, irpVars, freeVars
<1>2. age' \in [Entries -> 0 .. AgeCap]
  <2>1. AgeCap \in Nat
    BY DEF AgeCap
  <2>2. \A e \in Entries : age[e] \in 0 .. AgeCap
    BY DEF TableTyped
  <2>3. \A e \in Entries : (IF e \in g_conn_to_del /\ age[e] < AgeCap
                             THEN age[e] + 1 ELSE age[e]) \in 0 .. AgeCap
    BY <2>1, <2>2
  <2> QED BY <1>1, <2>3
<1>3. TableTyped' /\ OwnersPoint' /\ QueuedClosed' /\ NoOrphan' /\ OnlyOpenOwn'
  BY <1>1, <1>2 DEF TableTyped, OwnersPoint, QueuedClosed, NoOrphan, OnlyOpenOwn
<1>4. timer' \in {Infinite} \cup (0 .. MaxClosed + MaxLag) /\ lag' \in 0 .. MaxLag
  BY <1>1 DEF RestTyped, Infinite
<1>5. RestTyped'
  BY <1>1, <1>4 DEF RestTyped
<1> QED BY <1>3, <1>5

(* Every handler keeps the invariant: the table part by the lemma about    *)
(* its operation, the rest by its own assignments.                         *)
LEMMA HandlersKeep ==
  ASSUME IInv, NEW c \in ConnObjs, Handlers(c) \/ ot_free(c)
  PROVE  IInv'
<1> USE ConstantsAssumption DEF IInv, thrVars, freeVars
<1>0. TableInv /\ RestTyped /\ OnlyOpenOwn /\ conn_entry \in [ConnObjs -> Entries \cup {NULL}]
  BY DEF TableInv, TableTyped
<1>1. CASE tdi_create(c)
  <2>1. TableInv' /\ OnlyOpenOwn'
    BY <1>0, <1>1, DelKeeps DEF tdi_create, OnlyOpenOwn, RestTyped
  <2>2. RestTyped'
    BY <1>1 DEF tdi_create, RestTyped, irpVars
  <2> QED BY <2>1, <2>2
<1>2. CASE tdi_cleanup(c)
  <2>1. TableInv' /\ OnlyOpenOwn'
    BY <1>0, <1>2, DelKeeps DEF tdi_cleanup, OnlyOpenOwn, RestTyped
  <2>2. RestTyped'
    BY <1>2 DEF tdi_cleanup, RestTyped, irpVars
  <2> QED BY <2>1, <2>2
<1>3. CASE tdi_connect(c)
  <2>1. TableInv' /\ OnlyOpenOwn'
    BY <1>0, <1>3, AddKeeps DEF tdi_connect, OnlyOpenOwn, StateValues, TcpStates
  <2>2. RestTyped'
    BY <1>3 DEF tdi_connect, RestTyped
  <2> QED BY <2>1, <2>2
<1>4. CASE tdi_connect_complete(c)
  <2>1. set_tcp_conn_state(c, "ESTABLISHED_OUT") \/ del_tcp_conn(c)
    BY <1>4 DEF tdi_connect_complete
  <2>2. TableInv' /\ OnlyOpenOwn'
    BY <1>0, <1>4, <2>1, SetKeeps, DelKeeps
       DEF tdi_connect_complete, OnlyOpenOwn, StateValues, TcpStates
  <2>3. RestTyped'
    BY <1>4 DEF tdi_connect_complete, RestTyped
  <2> QED BY <2>2, <2>3
<1>5. CASE tdi_event_connect_accept(c)
  <2>1. TableInv' /\ OnlyOpenOwn'
    BY <1>0, <1>5, AddKeeps DEF tdi_event_connect_accept, OnlyOpenOwn, StateValues, TcpStates
  <2>2. RestTyped'
    BY <1>5 DEF tdi_event_connect_accept, RestTyped
  <2> QED BY <2>1, <2>2
<1>6. CASE tdi_event_connect_deny(c)
  <2>1. TableInv' /\ OnlyOpenOwn'
    BY <1>0, <1>6, DelKeeps DEF tdi_event_connect_deny, OnlyOpenOwn
  <2>2. RestTyped'
    BY <1>6 DEF tdi_event_connect_deny, RestTyped
  <2> QED BY <2>1, <2>2
<1>7. CASE tdi_event_connect_reuse(c)
  <2> DEFINE e == conn_entry[c]
  <2>1. /\ e \in heap /\ e \in Entries
        /\ state' = [state EXCEPT ![e] = "CLOSED"]
        /\ connobj' = [connobj EXCEPT ![e] = NULL]
        /\ g_conn_to_del' = g_conn_to_del \cup {e}
        /\ relinked' = TRUE
        /\ age' = [age EXCEPT ![e] = 0]
        /\ g_conn_new_to_del' = TRUE
        /\ conn_entry' = [conn_entry EXCEPT ![c] = NULL]
        /\ UNCHANGED <<fobj, heap>>
    BY <1>0, <1>7 DEF tdi_event_connect_reuse, TableInv, OwnersPoint
  <2>2. \A d \in ConnObjs \ {c} : conn_entry[d] # e
    BY <1>0, <1>7 DEF tdi_event_connect_reuse, TableInv, OwnersPoint
  <2>3. TableTyped'
    BY <2>1 DEF TableInv, TableTyped, AgeCap, StateValues, TcpStates
  <2>4. OwnersPoint' /\ QueuedClosed' /\ NoOrphan' /\ OnlyOpenOwn'
    BY <1>0, <2>1, <2>2
       DEF TableInv, TableTyped, OwnersPoint, QueuedClosed, NoOrphan, OnlyOpenOwn
  <2>5. RestTyped'
    BY <1>7 DEF tdi_event_connect_reuse, RestTyped
  <2> QED BY <2>3, <2>4, <2>5 DEF TableInv
<1>8. CASE tdi_evconn_accept_complete(c)
  <2>1. set_tcp_conn_state(c, "ESTABLISHED_IN") \/ del_tcp_conn(c)
    BY <1>8 DEF tdi_evconn_accept_complete
  <2>2. TableInv' /\ OnlyOpenOwn'
    BY <1>0, <1>8, <2>1, SetKeeps, DelKeeps
       DEF tdi_evconn_accept_complete, OnlyOpenOwn, StateValues, TcpStates
  <2>3. RestTyped'
    BY <1>8 DEF tdi_evconn_accept_complete, RestTyped
  <2> QED BY <2>2, <2>3
<1>9. CASE tdi_disconnect_release(c)
  <2>1. PICK s \in ReleaseTargets(get_tcp_conn_state_by_obj(c)) :
          disc' = [disc EXCEPT ![c] = [at |-> "read", to |-> s]]
    BY <1>9 DEF tdi_disconnect_release
  <2>2. s \in StateValues
    BY <2>1 DEF ReleaseTargets, StateValues, TcpStates
  <2>3. RestTyped'
    BY <1>9, <2>1, <2>2 DEF tdi_disconnect_release, RestTyped, objVars
  <2>4. UNCHANGED <<fobj, conn_entry, heap, state, connobj, g_conn_to_del, relinked, age,
                    g_conn_new_to_del>>
    BY <1>9 DEF tdi_disconnect_release, objVars, ceVars
  <2> QED BY <1>0, <2>3, <2>4
      DEF TableInv, TableTyped, OwnersPoint, QueuedClosed, NoOrphan, OnlyOpenOwn
<1>10. CASE tdi_disconnect_set(c)
  <2>1. disc[c].to \in StateValues
    BY <1>0 DEF RestTyped
  <2>2. TableInv' /\ OnlyOpenOwn'
    BY <1>0, <1>10, <2>1, SetKeeps DEF tdi_disconnect_set, OnlyOpenOwn
  <2>3. RestTyped'
    BY <1>10 DEF tdi_disconnect_set, RestTyped
  <2> QED BY <2>2, <2>3
<1>11. CASE tdi_disconnect_abort(c)
  <2>1. TableInv' /\ OnlyOpenOwn'
    BY <1>0, <1>11, SetKeeps DEF tdi_disconnect_abort, OnlyOpenOwn, StateValues, TcpStates
  <2>2. RestTyped'
    BY <1>11 DEF tdi_disconnect_abort, RestTyped, StateValues, TcpStates
  <2> QED BY <2>1, <2>2
<1>12. CASE tdi_disconnect_complete(c)
  <2>1. \/ set_tcp_conn_state(c, "FIN_WAIT2")
        \/ del_tcp_conn(c)
        \/ UNCHANGED <<conn_entry, ceVars, g_conn_new_to_del>>
    BY <1>12 DEF tdi_disconnect_complete
  <2>2. CASE UNCHANGED <<conn_entry, ceVars, g_conn_new_to_del>>
    BY <1>0, <1>12, <2>2
       DEF tdi_disconnect_complete, ceVars, TableInv, TableTyped, OwnersPoint,
           QueuedClosed, NoOrphan, OnlyOpenOwn, RestTyped, Idle, StateValues, TcpStates
  <2>3. CASE set_tcp_conn_state(c, "FIN_WAIT2") \/ del_tcp_conn(c)
    <3>1. TableInv' /\ OnlyOpenOwn'
      BY <1>0, <1>12, <2>3, SetKeeps, DelKeeps
         DEF tdi_disconnect_complete, OnlyOpenOwn, StateValues, TcpStates
    <3>2. RestTyped'
      BY <1>12 DEF tdi_disconnect_complete, RestTyped, Idle, StateValues, TcpStates
    <3> QED BY <3>1, <3>2
  <2> QED BY <2>1, <2>2, <2>3
<1>13. CASE tdi_event_disconnect_release(c)
  <2>1. RestTyped'
    BY <1>13 DEF tdi_event_disconnect_release, RestTyped, PeerClosed, objVars
  <2>2. UNCHANGED <<fobj, conn_entry, heap, state, connobj, g_conn_to_del, relinked, age,
                    g_conn_new_to_del>>
    BY <1>13 DEF tdi_event_disconnect_release, objVars, ceVars
  <2> QED BY <1>0, <2>1, <2>2
      DEF TableInv, TableTyped, OwnersPoint, QueuedClosed, NoOrphan, OnlyOpenOwn
<1>14. CASE tdi_event_disconnect_set(c)
  <2>1. ev[c] \in StateValues
    BY <1>0 DEF RestTyped, StateValues, TcpStates
  <2>2. TableInv' /\ OnlyOpenOwn'
    BY <1>0, <1>14, <2>1, SetKeeps DEF tdi_event_disconnect_set, OnlyOpenOwn
  <2>3. RestTyped'
    BY <1>14 DEF tdi_event_disconnect_set, RestTyped
  <2> QED BY <2>2, <2>3
<1>15. CASE tdi_event_disconnect_abort(c)
  <2>1. TableInv' /\ OnlyOpenOwn'
    BY <1>0, <1>15, DelKeeps DEF tdi_event_disconnect_abort, OnlyOpenOwn
  <2>2. RestTyped'
    BY <1>15 DEF tdi_event_disconnect_abort, RestTyped, irpVars
  <2> QED BY <2>1, <2>2
<1>16. CASE ot_free(c)
  <2>1. TableInv' /\ OnlyOpenOwn'
    BY <1>0, <1>16, DelKeeps DEF ot_free, OnlyOpenOwn, RestTyped
  <2>2. RestTyped'
    BY <1>16 DEF ot_free, RestTyped, irpVars
  <2> QED BY <2>1, <2>2
<1> QED
  BY <1>1, <1>2, <1>3, <1>4, <1>5, <1>6, <1>7, <1>8, <1>9, <1>10, <1>11, <1>12, <1>13,
     <1>14, <1>15, <1>16 DEF Handlers

-----------------------------------------------------------------------------
(* The initial states: an empty table and a waiting thread. *)
LEMMA IInvInit == Init => IInv
<1> SUFFICES ASSUME Init PROVE IInv
  OBVIOUS
<1>1. AgeCap \in Nat
  BY ConstantsAssumption DEF AgeCap
<1>2. age \in [Entries -> 0 .. AgeCap]
  BY <1>1 DEF Init
<1>3. TableTyped
  BY <1>2 DEF Init, TableTyped, StateValues, TcpStates
<1>4. OwnersPoint /\ QueuedClosed /\ NoOrphan /\ OnlyOpenOwn
  BY DEF Init, OwnersPoint, QueuedClosed, NoOrphan, OnlyOpenOwn
<1>5. disc \in [ConnObjs -> [at : {"idle", "read", "sent"}, to : StateValues]]
  BY DEF Init, Idle, StateValues, TcpStates
<1>6. lag \in 0 .. MaxLag /\ timer \in {Infinite} \cup (0 .. MaxClosed + MaxLag)
  BY ConstantsAssumption DEF Init
<1>7. RestTyped
  BY <1>5, <1>6 DEF Init, RestTyped
<1> QED BY <1>3, <1>4, <1>7 DEF IInv, TableInv

(* Every step keeps the invariant. *)
LEMMA IInvNext == IInv /\ [Next]_vars => IInv'
<1> SUFFICES ASSUME IInv, [Next]_vars PROVE IInv'
  OBVIOUS
<1>1. ASSUME NEW c \in ConnObjs, Handlers(c) \/ ot_free(c) PROVE IInv'
  BY <1>1, HandlersKeep
<1>2. CASE conn_thread
  BY <1>2, ThreadKeeps, ScanKeeps DEF conn_thread
<1>3. CASE Tick
  BY <1>3, TickKeeps
<1>4. CASE OnUnload \/ conn_state_free
  BY <1>4, ThreadKeeps
<1>5. CASE UNCHANGED vars
  BY <1>5 DEF vars, objVars, ceVars, irpVars, thrVars, freeVars, IInv, TableInv, TableTyped,
              OwnersPoint, QueuedClosed, NoOrphan, RestTyped, OnlyOpenOwn
<1> QED BY <1>1, <1>2, <1>3, <1>4, <1>5 DEF Next

(* The invariant holds in every reachable state. *)
LEMMA Inductive == Spec => []IInv
BY IInvInit, IInvNext, PTL DEF Spec

(* The variables of the table keep their types in every behaviour, the     *)
(* uninitialised disconnect states included.                               *)
THEOREM TypeCorrect == Spec => []TypeOK
BY Inductive, IInvImplies, PTL

(* conn_thread never frees an entry a connection object still points at,   *)
(* and a queued entry is CLOSED, unowned and not yet freed.                *)
THEOREM NeverDangles == Spec => []NoDangling
BY Inductive, IInvImplies, PTL

(* No path of the handlers or of the teardown loses an entry: what is      *)
(* allocated is owned or queued.                                           *)
THEOREM NeverOrphaned == Spec => []NoOrphan
BY Inductive, IInvImplies, PTL
-----------------------------------------------------------------------------
(* ClosedLingers, step by step.  Only conn_thread's pass frees anything.   *)

Lingers ==
  /\ \A e \in g_conn_to_del \cap g_conn_to_del' :
       state'[e] = state[e] /\ connobj'[e] = connobj[e]
  /\ \A e \in heap \ heap' :
       e \in g_conn_to_del /\ (age[e] >= MaxClosed \/ ~g_conn_thread)

(* add_tcp_conn takes no queued entry. *)
LEMMA AddLingers ==
  ASSUME TableInv, NEW c \in ConnObjs, NEW s, add_tcp_conn(c, s)
  PROVE  Lingers
<1>1. PICK e \in Entries \ heap :
        /\ heap' = heap \cup {e}
        /\ state' = [state EXCEPT ![e] = s]
        /\ connobj' = [connobj EXCEPT ![e] = c]
  BY DEF add_tcp_conn
<1>2. e \notin g_conn_to_del
  BY DEF TableInv, QueuedClosed
<1> QED BY <1>1, <1>2 DEF TableInv, TableTyped, Lingers

(* del_tcp_conn touches no entry that is queued already. *)
LEMMA DelLingers ==
  ASSUME TableInv, NEW c \in ConnObjs, del_tcp_conn(c)
  PROVE  Lingers
<1>1. CASE conn_entry[c] = NULL
  BY <1>1 DEF del_tcp_conn, ceVars, Lingers
<1>2. CASE conn_entry[c] # NULL
  <2>1. conn_entry[c] \notin g_conn_to_del
    BY <1>2 DEF TableInv, OwnersPoint
  <2>2. /\ heap' = heap
        /\ state' = [state EXCEPT ![conn_entry[c]] = "CLOSED"]
        /\ connobj' = [connobj EXCEPT ![conn_entry[c]] = NULL]
    BY <1>2 DEF del_tcp_conn, del_tcp_conn_obj
  <2> QED BY <2>1, <2>2 DEF TableInv, TableTyped, Lingers
<1> QED BY <1>1, <1>2

(* set_tcp_conn_state touches no entry that is queued already. *)
LEMMA SetLingers ==
  ASSUME TableInv, NEW c \in ConnObjs, NEW s, set_tcp_conn_state(c, s)
  PROVE  Lingers
<1>1. conn_entry[c] # NULL => conn_entry[c] \notin g_conn_to_del
  BY DEF TableInv, OwnersPoint
<1> QED BY <1>1 DEF set_tcp_conn_state, TableInv, TableTyped, Lingers

(* Nothing changes for queued entries if the fields stay. *)
LEMMA KeepLingers ==
  ASSUME heap' = heap, state' = state, connobj' = connobj
  PROVE  Lingers
BY DEF Lingers

(* The pass frees a queued entry only when it is due, or on unload. *)
LEMMA ScanLingers ==
  ASSUME IInv, conn_thread_scan
  PROVE  Lingers
<1> DEFINE freed == {e \in g_conn_to_del : Due(e)}
<1>1. /\ g_conn_to_del' = g_conn_to_del \ freed
      /\ heap' = heap \ freed
      /\ state' = [e \in Entries |-> IF e \in freed THEN "NONE" ELSE state[e]]
      /\ connobj' = connobj
  BY DEF conn_thread_scan
<1>2. \A e \in freed : e \in g_conn_to_del /\ (age[e] >= MaxClosed \/ ~g_conn_thread)
  <2>1. \A e \in g_conn_to_del : age[e] \in Nat
    BY ConstantsAssumption DEF IInv, TableInv, TableTyped, AgeCap
  <2>2. lag \in Nat
    BY ConstantsAssumption DEF IInv, RestTyped
  <2> QED BY <2>1, <2>2, ConstantsAssumption DEF Due, Delta
<1> HIDE DEF freed
<1> QED BY <1>1, <1>2 DEF IInv, TableInv, TableTyped, Lingers

(* What each handler does to the table is one of the above.                *)
LEMMA HandlersLinger ==
  ASSUME IInv, NEW c \in ConnObjs, Handlers(c) \/ ot_free(c)
  PROVE  Lingers
<1>0. TableInv
  BY DEF IInv
<1>1. CASE tdi_create(c) \/ tdi_cleanup(c) \/ tdi_event_connect_deny(c)
           \/ tdi_event_disconnect_abort(c) \/ ot_free(c)
  BY <1>0, <1>1, DelLingers
     DEF tdi_create, tdi_cleanup, tdi_event_connect_deny, tdi_event_disconnect_abort, ot_free
<1>2. CASE tdi_connect(c) \/ tdi_event_connect_accept(c)
  BY <1>0, <1>2, AddLingers DEF tdi_connect, tdi_event_connect_accept
<1>3. CASE tdi_connect_complete(c) \/ tdi_evconn_accept_complete(c)
  BY <1>0, <1>3, DelLingers, SetLingers DEF tdi_connect_complete, tdi_evconn_accept_complete
<1>4. CASE tdi_disconnect_set(c) \/ tdi_disconnect_abort(c) \/ tdi_event_disconnect_set(c)
  BY <1>0, <1>4, SetLingers
     DEF tdi_disconnect_set, tdi_disconnect_abort, tdi_event_disconnect_set
<1>5. CASE tdi_disconnect_complete(c)
  <2>1. set_tcp_conn_state(c, "FIN_WAIT2") \/ del_tcp_conn(c) \/ UNCHANGED ceVars
    BY <1>5 DEF tdi_disconnect_complete
  <2> QED BY <1>0, <2>1, DelLingers, SetLingers, KeepLingers DEF ceVars
<1>6. CASE tdi_disconnect_release(c) \/ tdi_event_disconnect_release(c)
  BY <1>6, KeepLingers DEF tdi_disconnect_release, tdi_event_disconnect_release, ceVars
<1>7. CASE tdi_event_connect_reuse(c)
  <2>1. conn_entry[c] \notin g_conn_to_del
    BY <1>0, <1>7 DEF tdi_event_connect_reuse, TableInv, OwnersPoint
  <2>2. /\ heap' = heap
        /\ state' = [state EXCEPT ![conn_entry[c]] = "CLOSED"]
        /\ connobj' = [connobj EXCEPT ![conn_entry[c]] = NULL]
    BY <1>7 DEF tdi_event_connect_reuse
  <2> QED BY <1>0, <2>1, <2>2 DEF TableInv, TableTyped, Lingers
<1> QED BY <1>1, <1>2, <1>3, <1>4, <1>5, <1>6, <1>7 DEF Handlers

(* Every step lets queued entries be. *)
LEMMA NextLingers == IInv /\ [Next]_vars => [Lingers]_vars
<1> SUFFICES ASSUME IInv, Next PROVE Lingers
  OBVIOUS
<1>1. CASE \E c \in ConnObjs : Handlers(c) \/ ot_free(c)
  BY <1>1, HandlersLinger
<1>2. CASE conn_thread
  BY <1>2, ScanLingers, KeepLingers
     DEF conn_thread, conn_thread_wake, conn_thread_test, ceVars
<1>3. CASE Tick \/ OnUnload \/ conn_state_free
  BY <1>3, KeepLingers
     DEF Tick, OnUnload, conn_state_free, conn_state_free_clear, conn_state_free_signal,
         conn_state_free_join, ceVars
<1> QED BY <1>1, <1>2, <1>3 DEF Next

(* A closed entry is adopted by nobody, keeps its state while it is        *)
(* queued, and is freed only by conn_thread, MAX_CLOSED_TIME after it was  *)
(* closed or when the driver unloads.                                      *)
THEOREM ClosedEntriesLinger == Spec => ClosedLingers
<1>1. IInv /\ [Next]_vars => [Lingers]_vars
  BY NextLingers
<1> QED BY Inductive, <1>1, PTL DEF Spec, ClosedLingers, Lingers

-----------------------------------------------------------------------------
(* SweepArmed.  Between the pass and the wait the same holds of the        *)
(* timeout just computed, with the time lost since the pass on top.        *)

Waits == pc = "wait" /\ ~g_conn_new_to_del
Passed == pc = "test" /\ ~g_conn_new_to_del
Horizon == 2 * MaxClosed + 2 * MaxLag

Armed ==
  \A e \in g_conn_to_del :
    /\ Waits => timer # Infinite /\ (timer > 0 => age[e] + timer <= Horizon + MaxLag)
    /\ Passed => timer > 0 /\ age[e] + timer <= Horizon + lag

(* Who touches the list or an age outside the thread sets the event.       *)
Signals ==
  \/ g_conn_new_to_del' = TRUE
  \/ UNCHANGED <<g_conn_to_del, age, g_conn_new_to_del>>

(* An entry that is queued together with a signal leaves the thread armed. *)
LEMMA SignalsArm ==
  ASSUME Armed, Signals, UNCHANGED <<pc, timer, lag>>
  PROVE  Armed'
<1>1. CASE g_conn_new_to_del' = TRUE
  BY <1>1 DEF Armed, Waits, Passed
<1>2. CASE UNCHANGED <<g_conn_to_del, age, g_conn_new_to_del>>
  BY <1>2 DEF Armed, Waits, Passed, Horizon
<1> QED BY <1>1, <1>2 DEF Signals

(* Every handler that queues an entry signals, and none touches the clock. *)
LEMMA HandlersSignal ==
  ASSUME NEW c \in ConnObjs, Handlers(c) \/ ot_free(c)
  PROVE  Signals /\ UNCHANGED <<pc, timer, lag>>
<1>1. ASSUME del_tcp_conn(c) PROVE Signals
  BY <1>1 DEF del_tcp_conn, del_tcp_conn_obj, ceVars, Signals
<1>2. ASSUME NEW s, add_tcp_conn(c, s) PROVE Signals
  BY <1>2 DEF add_tcp_conn, Signals
<1>3. ASSUME NEW s, set_tcp_conn_state(c, s) PROVE Signals
  BY <1>3 DEF set_tcp_conn_state, Signals
<1>4. CASE tdi_create(c) \/ tdi_cleanup(c) \/ tdi_event_connect_deny(c)
           \/ tdi_event_disconnect_abort(c) \/ ot_free(c)
  BY <1>1, <1>4 DEF tdi_create, tdi_cleanup, tdi_event_connect_deny,
                    tdi_event_disconnect_abort, ot_free, thrVars
<1>5. CASE tdi_connect(c) \/ tdi_event_connect_accept(c)
  BY <1>2, <1>5 DEF tdi_connect, tdi_event_connect_accept, thrVars
<1>6. CASE tdi_connect_complete(c) \/ tdi_evconn_accept_complete(c)
  BY <1>1, <1>3, <1>6 DEF tdi_connect_complete, tdi_evconn_accept_complete, thrVars
<1>7. CASE tdi_disconnect_set(c) \/ tdi_disconnect_abort(c) \/ tdi_event_disconnect_set(c)
  BY <1>3, <1>7 DEF tdi_disconnect_set, tdi_disconnect_abort, tdi_event_disconnect_set, thrVars
<1>8. CASE tdi_disconnect_complete(c)
  <2>1. set_tcp_conn_state(c, "FIN_WAIT2") \/ del_tcp_conn(c)
        \/ UNCHANGED <<ceVars, g_conn_new_to_del>>
    BY <1>8 DEF tdi_disconnect_complete
  <2>2. Signals
    BY <1>1, <1>3, <2>1 DEF ceVars, Signals
  <2> QED BY <1>8, <2>2 DEF tdi_disconnect_complete, thrVars
<1>9. CASE tdi_disconnect_release(c) \/ tdi_event_disconnect_release(c)
           \/ tdi_event_connect_reuse(c)
  BY <1>9 DEF tdi_disconnect_release, tdi_event_disconnect_release, tdi_event_connect_reuse,
              Signals, ceVars, thrVars
<1> QED BY <1>4, <1>5, <1>6, <1>7, <1>8, <1>9 DEF Handlers

(* What the pass leaves on the list is younger than MAX_CLOSED_TIME by the *)
(* clock the thread read, and the timeout is at most that long.            *)
LEMMA ScanArms ==
  ASSUME IInv, conn_thread_scan
  PROVE  Armed'
<1> DEFINE freed == {e \in g_conn_to_del : Due(e)}
           kept  == g_conn_to_del \ freed
<1>1. /\ g_conn_to_del' = kept
      /\ age' = [e \in Entries |-> IF e \in freed THEN 0 ELSE age[e]]
      /\ timer' = IF kept = {} THEN Infinite ELSE Longest(kept)
      /\ pc' = "test" /\ lag' = 0
  BY DEF conn_thread_scan
<1>2. ASSUME NEW e \in kept PROVE timer' > 0 /\ age'[e] + timer' <= Horizon + lag'
  <2>1. timer' = Longest(kept) /\ Longest(kept) \in 1 .. MaxClosed + MaxLag
    <3>1. lag \in 0 .. MaxLag
      BY DEF IInv, RestTyped
    <3>2. Longest(kept) \in 1 .. MaxClosed + MaxLag
      BY <1>2, <3>1, LongestType DEF IInv
    <3> QED BY <1>1, <1>2, <3>2
  <2>2. e \in Entries /\ age[e] \in Nat /\ lag \in 0 .. MaxLag
    BY <1>2, ConstantsAssumption DEF IInv, TableInv, TableTyped, RestTyped, AgeCap
  <2>3. age[e] - lag < MaxClosed
    BY <1>2, <2>2, ConstantsAssumption DEF Due, Delta
  <2>4. age'[e] = age[e]
    BY <1>1, <1>2, <2>2
  <2> QED BY <1>1, <2>1, <2>2, <2>3, <2>4, ConstantsAssumption DEF Horizon
<1> HIDE DEF kept, freed
<1> QED BY <1>1, <1>2 DEF Armed, Waits, Passed

(* Time runs the timer down no faster than entries grow old. *)
LEMMA TickArms ==
  ASSUME IInv, Armed, Tick
  PROVE  Armed'
<1>1. /\ pc \in {"scan", "test"} => lag < MaxLag
      /\ lag' = IF pc \in {"scan", "test"} THEN lag + 1 ELSE lag
      /\ timer' = IF pc = "wait" /\ timer > 0 THEN timer - 1 ELSE timer
      /\ age' = [e \in Entries |-> IF e \in g_conn_to_del /\ age[e] < AgeCap
                                   THEN age[e] + 1 ELSE age[e]]
      /\ UNCHANGED <<g_conn_to_del, pc, g_conn_new_to_del>>
  BY DEF Tick
<1>2. ASSUME NEW e \in g_conn_to_del
      PROVE  /\ Waits' => timer' # Infinite /\ (timer' > 0 => age'[e] + timer' <= Horizon + MaxLag)
             /\ Passed' => timer' > 0 /\ age'[e] + timer' <= Horizon + lag'
  <2>1. e \in Entries /\ age[e] \in Nat /\ lag \in Nat /\ timer \in Nat \cup {Infinite}
    BY ConstantsAssumption DEF IInv, TableInv, TableTyped, RestTyped, AgeCap
  <2>2. age'[e] \in Nat /\ age'[e] <= age[e] + 1
    BY <1>1, <2>1
  <2>3. Waits' = Waits /\ Passed' = Passed
    BY <1>1 DEF Waits, Passed
  <2>4. CASE Waits
    <3>1. timer # Infinite /\ (timer > 0 => age[e] + timer <= Horizon + MaxLag)
      BY <2>4 DEF Armed
    <3>2. pc = "wait" /\ ~Passed
      BY <2>4 DEF Waits, Passed
    <3>3. timer \in Nat /\ timer' = IF timer > 0 THEN timer - 1 ELSE timer
      BY <1>1, <2>1, <3>1, <3>2
    <3>4. Horizon + MaxLag \in Nat
      BY ConstantsAssumption DEF Horizon
    <3> QED BY <2>1, <2>2, <2>3, <3>1, <3>2, <3>3, <3>4 DEF Infinite
  <2>5. CASE Passed
    <3>1. timer > 0 /\ age[e] + timer <= Horizon + lag
      BY <2>5 DEF Armed
    <3>2. pc = "test" /\ ~Waits
      BY <2>5 DEF Waits, Passed
    <3>3. timer' = timer /\ lag' = lag + 1 /\ timer \in Nat
      BY <1>1, <2>1, <3>1, <3>2 DEF Infinite
    <3>4. Horizon \in Nat
      BY ConstantsAssumption DEF Horizon
    <3> QED BY <2>1, <2>2, <2>3, <3>1, <3>2, <3>3, <3>4
  <2> QED BY <2>3, <2>4, <2>5
<1>3. g_conn_to_del' = g_conn_to_del
  BY <1>1
<1> HIDE DEF Armed
<1> QED BY <1>2, <1>3 DEF Armed

(* Every step leaves the thread armed. *)
LEMMA NextArms == IInv /\ Armed /\ [Next]_vars => Armed'
<1> SUFFICES ASSUME IInv, Armed, [Next]_vars PROVE Armed'
  OBVIOUS
<1>1. ASSUME NEW c \in ConnObjs, Handlers(c) \/ ot_free(c) PROVE Armed'
  BY <1>1, HandlersSignal, SignalsArm
<1>2. CASE conn_thread_wake
  BY <1>2 DEF conn_thread_wake, Armed, Waits, Passed
<1>3. CASE conn_thread_scan
  BY <1>3, ScanArms
<1>4. CASE conn_thread_test
  <2>1. /\ pc = "test" /\ pc' \in {"wait", "exited"}
        /\ UNCHANGED <<g_conn_to_del, age, timer, g_conn_new_to_del>>
    BY <1>4 DEF conn_thread_test, ceVars
  <2>2. ASSUME NEW e \in g_conn_to_del, ~g_conn_new_to_del
        PROVE  timer # Infinite /\ age[e] + timer <= Horizon + MaxLag
    <3>1. timer > 0 /\ age[e] + timer <= Horizon + lag
      BY <2>1, <2>2 DEF Armed, Passed
    <3>2. age[e] \in Nat /\ lag \in 0 .. MaxLag /\ timer \in Nat
      BY <3>1, ConstantsAssumption DEF IInv, TableInv, TableTyped, RestTyped, AgeCap, Infinite
    <3>3. Horizon \in Nat
      BY ConstantsAssumption DEF Horizon
    <3> QED BY <3>1, <3>2, <3>3, ConstantsAssumption DEF Infinite
  <2> QED BY <2>1, <2>2 DEF Armed, Waits, Passed
<1>5. CASE Tick
  BY <1>5, TickArms
<1>6. CASE OnUnload \/ conn_state_free \/ UNCHANGED vars
  <2>1. Signals /\ UNCHANGED <<pc, timer, lag>>
    BY <1>6 DEF OnUnload, conn_state_free, conn_state_free_clear, conn_state_free_signal,
                conn_state_free_join, Signals, vars, ceVars, thrVars
  <2> QED BY <2>1, SignalsArm
<1> QED BY <1>1, <1>2, <1>3, <1>4, <1>5, <1>6 DEF Next, conn_thread

(* An armed thread sweeps within the bound of SweepArmed. *)
LEMMA ArmedIsEnough == IInv /\ Armed => SweepArmed
<1> SUFFICES ASSUME IInv, Armed, pc = "wait", ~g_conn_new_to_del, NEW e \in g_conn_to_del
             PROVE  /\ timer # Infinite
                    /\ timer > 0 => age[e] + timer < 2 * MaxClosed + 3 * MaxLag + 1
  BY DEF SweepArmed
<1>1. timer # Infinite /\ (timer > 0 => age[e] + timer <= Horizon + MaxLag)
  BY DEF Armed, Waits
<1>2. age[e] \in Nat /\ timer \in Nat
  BY <1>1, ConstantsAssumption DEF IInv, TableInv, TableTyped, RestTyped, AgeCap
<1> QED BY <1>1, <1>2, ConstantsAssumption DEF Horizon

(* conn_thread never sleeps on a queued entry without a wakeup, for any    *)
(* MAX_CLOSED_TIME and any delay of the thread.                            *)
THEOREM AlwaysArmed == Spec => []SweepArmed
<1>1. Init => Armed
  BY DEF Init, Armed
<1> QED BY Inductive, <1>1, NextArms, ArmedIsEnough, PTL DEF Spec
-----------------------------------------------------------------------------
(* ImplementsTable, step by step.  What the mapping needs beyond IInv: the *)
(* completion of a connect finds no incoming connection and that of an     *)
(* accept no outgoing one; a release is about to write the successor of a  *)
(* state or garbage; and the handle goes after the last phase of ot_free.  *)
SidedAt(irp, t) ==
  /\ irp = "connect" => t \notin Table!Incoming \ Garbage
  /\ irp = "accept" => t \notin Table!Outgoing \ Garbage

Releasing(d) == d.at = "read" => d.to \in {"FIN_WAIT1", "LAST_ACK"} \cup Garbage

Sided ==
  /\ \A c \in ConnObjs : SidedAt(conn_irp[c], Tracked[c]) /\ Releasing(disc[c])
  /\ g_conn_thread = (phase \in {"running", "ot_free"})

(* What may be written as a state from each side. *)
Sides(s, t) ==
  /\ s \in Table!Outgoing \ Garbage => t \notin Table!Incoming \ Garbage
  /\ s \in Table!Incoming \ Garbage => t \notin Table!Outgoing \ Garbage

(* An object's state is known by its entry. *)
LEMMA TrackedAt ==
  ASSUME TableInv, NEW c \in ConnObjs
  PROVE  /\ conn_entry[c] = NULL <=> Tracked[c] = Table!Untracked
         /\ conn_entry[c] # NULL =>
              /\ Tracked[c] = state[conn_entry[c]] /\ conn_entry[c] \in heap \ g_conn_to_del
              /\ \A d \in ConnObjs \ {c} : conn_entry[d] # conn_entry[c]
<1>1. conn_entry[c] # NULL => state[conn_entry[c]] \in StateValues
  BY DEF TableInv, TableTyped
<1>2. "UNTRACKED" \notin StateValues
  BY DEF StateValues, TcpStates, Junk
<1> QED BY <1>1, <1>2 DEF Tracked, Table!Untracked, TableInv, OwnersPoint

(* What is known of every object after a step: it has the state it had,    *)
(* but for one.                                                            *)
LEMMA TrackedNext ==
  ASSUME NEW c \in ConnObjs, NEW s,
         IF conn_entry'[c] = NULL THEN s = Table!Untracked ELSE s = state'[conn_entry'[c]],
         \A d \in ConnObjs \ {c} :
           /\ conn_entry'[d] = conn_entry[d]
           /\ conn_entry[d] # NULL => state'[conn_entry[d]] = state[conn_entry[d]]
  PROVE  Tracked' = [Tracked EXCEPT ![c] = s]
<1>1. Tracked' = [d \in ConnObjs |->
        IF conn_entry'[d] = NULL THEN "UNTRACKED" ELSE state'[conn_entry'[d]]]
  BY DEF Tracked
<1>2. \A d \in ConnObjs : Tracked'[d] = IF d = c THEN s ELSE Tracked[d]
  BY <1>1 DEF Tracked, Table!Untracked
<1> QED BY <1>1, <1>2 DEF Tracked

(* add_tcp_conn begins a connection. *)
LEMMA AddBegins ==
  ASSUME TableInv, NEW c \in ConnObjs, NEW s \in Table!Opening, add_tcp_conn(c, s),
         g_conn_thread, UNCHANGED g_conn_thread
  PROVE  Table!Begin(c) /\ Tracked' = [Tracked EXCEPT ![c] = s]
<1>1. PICK e \in Entries \ heap :
        /\ conn_entry[c] = NULL
        /\ state' = [state EXCEPT ![e] = s]
        /\ conn_entry' = [conn_entry EXCEPT ![c] = e]
        /\ UNCHANGED <<g_conn_to_del, age>>
  BY DEF add_tcp_conn
<1>2. state'[e] = s /\ conn_entry'[c] = e /\ e # NULL
  BY <1>1, ConstantsAssumption DEF TableInv, TableTyped
<1>3. ASSUME NEW d \in ConnObjs \ {c}
      PROVE  /\ conn_entry'[d] = conn_entry[d]
             /\ conn_entry[d] # NULL => state'[conn_entry[d]] = state[conn_entry[d]]
  <2>1. conn_entry[d] # NULL => conn_entry[d] \in heap
    BY DEF TableInv, OwnersPoint
  <2> QED BY <1>1, <2>1 DEF TableInv, TableTyped
<1>4. Tracked' = [Tracked EXCEPT ![c] = s]
  BY <1>2, <1>3, TrackedNext
<1>5. Tracked[c] = Table!Untracked /\ UNCHANGED Lingering
  BY <1>1, TrackedAt DEF Lingering
<1> QED BY <1>4, <1>5 DEF Table!Begin

(* An entry that is let go and queued ends the connection. *)
LEMMA QueuedEnds ==
  ASSUME TableInv, NEW c \in ConnObjs, conn_entry[c] # NULL,
         state' = [state EXCEPT ![conn_entry[c]] = "CLOSED"],
         conn_entry' = [conn_entry EXCEPT ![c] = NULL],
         g_conn_to_del' = g_conn_to_del \cup {conn_entry[c]},
         age' = [age EXCEPT ![conn_entry[c]] = 0],
         g_conn_thread, UNCHANGED g_conn_thread
  PROVE  Table!End(c) /\ Tracked' = [Tracked EXCEPT ![c] = Table!Untracked]
<1> DEFINE e == conn_entry[c]
<1>1. e \in Entries /\ e \notin g_conn_to_del /\ \A d \in ConnObjs \ {c} : conn_entry[d] # e
  BY TrackedAt DEF TableInv, TableTyped
<1>2. conn_entry'[c] = NULL
  BY DEF TableInv, TableTyped
<1>3. ASSUME NEW d \in ConnObjs \ {c}
      PROVE  /\ conn_entry'[d] = conn_entry[d]
             /\ conn_entry[d] # NULL => state'[conn_entry[d]] = state[conn_entry[d]]
  BY <1>1 DEF TableInv, TableTyped
<1>4. Tracked' = [Tracked EXCEPT ![c] = Table!Untracked]
  BY <1>2, <1>3, TrackedNext
<1>5. Tracked[c] # Table!Untracked
  BY TrackedAt
<1>6. Lingering' = [q \in DOMAIN Lingering \cup {e} |-> IF q = e THEN 0 ELSE Lingering[q]]
  <2>1. Lingering' = [q \in g_conn_to_del \cup {e} |-> age'[q]]
    BY DEF Lingering
  <2>2. \A q \in g_conn_to_del \cup {e} : age'[q] = IF q = e THEN 0 ELSE Lingering[q]
    BY <1>1 DEF Lingering, TableInv, TableTyped
  <2>3. DOMAIN Lingering = g_conn_to_del
    BY DEF Lingering
  <2> QED BY <2>1, <2>2, <2>3
<1>7. e \in Entries \ DOMAIN Lingering
  BY <1>1 DEF Lingering
<1> QED BY <1>4, <1>5, <1>6, <1>7 DEF Table!End

(* del_tcp_conn ends the connection, if there is one. *)
LEMMA DelEnds ==
  ASSUME TableInv, NEW c \in ConnObjs, del_tcp_conn(c), g_conn_thread, UNCHANGED g_conn_thread
  PROVE  /\ Table!End(c) \/ UNCHANGED Table!vars
         /\ Tracked' = [Tracked EXCEPT ![c] = Table!Untracked]
<1>1. CASE conn_entry[c] = NULL
  <2>1. UNCHANGED <<conn_entry, state, g_conn_to_del, age>>
    BY <1>1 DEF del_tcp_conn, ceVars
  <2>2. UNCHANGED <<Tracked, Lingering>>
    BY <2>1 DEF Tracked, Lingering
  <2>3. Tracked[c] = Table!Untracked /\ Tracked = [Tracked EXCEPT ![c] = Tracked[c]]
    BY <1>1, TrackedAt DEF Tracked
  <2> QED BY <2>2, <2>3 DEF Table!vars
<1>2. CASE conn_entry[c] # NULL
  <2>1. /\ state' = [state EXCEPT ![conn_entry[c]] = "CLOSED"]
        /\ conn_entry' = [conn_entry EXCEPT ![c] = NULL]
        /\ g_conn_to_del' = g_conn_to_del \cup {conn_entry[c]}
        /\ age' = [age EXCEPT ![conn_entry[c]] = 0]
    BY <1>2 DEF del_tcp_conn, del_tcp_conn_obj
  <2> QED BY <1>2, <2>1, QueuedEnds
<1> QED BY <1>1, <1>2

(* set_tcp_conn_state changes the state of one connection, if there is one.*)
LEMMA SetChanges ==
  ASSUME TableInv, NEW c \in ConnObjs, NEW s \in Table!Later \cup Garbage, Sides(s, Tracked[c]),
         set_tcp_conn_state(c, s), g_conn_thread, UNCHANGED g_conn_thread
  PROVE  /\ Table!Change(c) \/ UNCHANGED Table!vars
         /\ \/ Tracked' = Tracked
            \/ Tracked' = [Tracked EXCEPT ![c] = s]
<1>1. UNCHANGED <<conn_entry, g_conn_to_del, age>> /\ UNCHANGED Lingering
  BY DEF set_tcp_conn_state, Lingering
<1>2. CASE conn_entry[c] = NULL
  <2>1. UNCHANGED state
    BY <1>2 DEF set_tcp_conn_state
  <2>2. UNCHANGED Tracked
    BY <1>1, <2>1 DEF Tracked
  <2> QED BY <1>1, <2>2 DEF Table!vars
<1>3. CASE conn_entry[c] # NULL
  <2>1. /\ state' = [state EXCEPT ![conn_entry[c]] = s] /\ conn_entry[c] \in Entries
        /\ \A d \in ConnObjs \ {c} : conn_entry[d] # conn_entry[c]
    BY <1>3, TrackedAt DEF set_tcp_conn_state, TableInv, TableTyped
  <2>2. state'[conn_entry'[c]] = s /\ conn_entry'[c] # NULL
    BY <1>1, <1>3, <2>1 DEF TableInv, TableTyped
  <2>3. ASSUME NEW d \in ConnObjs \ {c}
        PROVE  /\ conn_entry'[d] = conn_entry[d]
               /\ conn_entry[d] # NULL => state'[conn_entry[d]] = state[conn_entry[d]]
    BY <1>1, <2>1 DEF TableInv, TableTyped
  <2>4. Tracked' = [Tracked EXCEPT ![c] = s]
    BY <2>2, <2>3, TrackedNext
  <2>5. Tracked[c] # Table!Untracked
    BY <1>3, TrackedAt
  <2>6. Table!Change(c)
    BY <1>1, <2>4, <2>5 DEF Table!Change, Sides
  <2> QED BY <2>4, <2>6
<1> QED BY <1>2, <1>3

(* A step of the handlers on one object. *)
LEMMA SidedNext ==
  ASSUME Sided, NEW c \in ConnObjs, UNCHANGED <<g_conn_thread, phase>>,
         \A d \in ConnObjs \ {c} :
           conn_irp'[d] = conn_irp[d] /\ disc'[d] = disc[d] /\ Tracked'[d] = Tracked[d],
         SidedAt(conn_irp'[c], Tracked'[c]), Releasing(disc'[c])
  PROVE  Sided'
  BY DEF Sided, SidedAt, Releasing

(* States that both sides reach, and none. *)
Neutral == {"FIN_WAIT1", "FIN_WAIT2", "TIME_WAIT", "CLOSE_WAIT", "LAST_ACK", "CLOSED",
            Table!Untracked} \cup Garbage

(* They can be written from either side. *)
LEMMA NeutralSides ==
  ASSUME NEW s \in Neutral
  PROVE  /\ \A t : Sides(s, t)
         /\ \A irp : SidedAt(irp, s)
         /\ s # Table!Untracked => s \in Table!Later \cup Garbage
  BY DEF Neutral, Sides, SidedAt, Table!Incoming, Table!Outgoing, Table!Untracked, Table!Later

Implements == Table!Next \/ UNCHANGED Table!vars

(* A handler that lets go of the entry. *)
LEMMA LetsGo ==
  ASSUME IInv, Sided, NEW c \in ConnObjs, del_tcp_conn(c), g_conn_thread,
         UNCHANGED <<g_conn_thread, phase>>,
         \A d \in ConnObjs \ {c} : conn_irp'[d] = conn_irp[d] /\ disc'[d] = disc[d],
         Releasing(disc'[c])
  PROVE  Implements /\ Sided'
<1>1. /\ Table!End(c) \/ UNCHANGED Table!vars
      /\ Tracked' = [Tracked EXCEPT ![c] = Table!Untracked]
  BY DelEnds DEF IInv
<1>2. Tracked'[c] = Table!Untracked /\ \A d \in ConnObjs \ {c} : Tracked'[d] = Tracked[d]
  BY <1>1 DEF Tracked
<1>3. SidedAt(conn_irp'[c], Tracked'[c])
  BY <1>2, NeutralSides DEF Neutral
<1>4. Sided'
  BY <1>2, <1>3, SidedNext
<1> QED BY <1>1, <1>4 DEF Implements, Table!Next

(* One that writes a state. *)
LEMMA Writes ==
  ASSUME IInv, Sided, NEW c \in ConnObjs, NEW s \in Table!Later \cup Garbage,
         Sides(s, Tracked[c]), set_tcp_conn_state(c, s), g_conn_thread,
         UNCHANGED <<g_conn_thread, phase>>,
         \A d \in ConnObjs \ {c} : conn_irp'[d] = conn_irp[d] /\ disc'[d] = disc[d],
         SidedAt(conn_irp'[c], Tracked[c]), SidedAt(conn_irp'[c], s), Releasing(disc'[c])
  PROVE  Implements /\ Sided'
<1>1. /\ Table!Change(c) \/ UNCHANGED Table!vars
      /\ Tracked' = Tracked \/ Tracked' = [Tracked EXCEPT ![c] = s]
  BY SetChanges DEF IInv
<1>2. Tracked'[c] \in {Tracked[c], s} /\ \A d \in ConnObjs \ {c} : Tracked'[d] = Tracked[d]
  BY <1>1 DEF Tracked
<1>3. Sided'
  BY <1>2, SidedNext
<1> QED BY <1>1, <1>3 DEF Implements, Table!Next

(* One that writes a state both sides reach. *)
LEMMA WritesNeutral ==
  ASSUME IInv, Sided, NEW c \in ConnObjs, NEW s \in Neutral, s # Table!Untracked,
         set_tcp_conn_state(c, s), g_conn_thread, UNCHANGED <<g_conn_thread, phase, conn_irp>>,
         \A d \in ConnObjs \ {c} : disc'[d] = disc[d], Releasing(disc'[c])
  PROVE  Implements /\ Sided'
<1>1. Sides(s, Tracked[c]) /\ SidedAt(conn_irp'[c], s) /\ s \in Table!Later \cup Garbage
  BY NeutralSides
<1>2. SidedAt(conn_irp'[c], Tracked[c])
  BY DEF Sided
<1> QED BY <1>1, <1>2, Writes

(* One that takes a new entry. *)
LEMMA Takes ==
  ASSUME IInv, Sided, NEW c \in ConnObjs, NEW s \in Table!Opening, add_tcp_conn(c, s),
         g_conn_thread, UNCHANGED <<g_conn_thread, phase, disc>>,
         \A d \in ConnObjs \ {c} : conn_irp'[d] = conn_irp[d],
         SidedAt(conn_irp'[c], s)
  PROVE  Implements /\ Sided'
<1>1. Table!Begin(c) /\ Tracked' = [Tracked EXCEPT ![c] = s]
  BY AddBegins DEF IInv
<1>2. Tracked'[c] = s /\ \A d \in ConnObjs \ {c} : Tracked'[d] = Tracked[d]
  BY <1>1 DEF Tracked
<1>3. Releasing(disc'[c])
  BY DEF Sided
<1>4. Sided'
  BY <1>2, <1>3, SidedNext
<1> QED BY <1>1, <1>4 DEF Implements, Table!Next

(* One that leaves the table alone. *)
LEMMA LeavesAlone ==
  ASSUME Sided, NEW c \in ConnObjs, UNCHANGED <<conn_entry, state, g_conn_to_del, age>>,
         UNCHANGED <<g_conn_thread, phase, conn_irp>>,
         \A d \in ConnObjs \ {c} : disc'[d] = disc[d], Releasing(disc'[c])
  PROVE  Implements /\ Sided'
<1>1. UNCHANGED <<Tracked, Lingering>>
  BY DEF Tracked, Lingering
<1>2. SidedAt(conn_irp'[c], Tracked'[c])
  BY <1>1 DEF Sided
<1>3. Sided'
  BY <1>1, <1>2, SidedNext
<1> QED BY <1>1, <1>3 DEF Implements, Table!vars

(* Every handler is one of these. *)
LEMMA HandlersImplement ==
  ASSUME IInv, Sided, NEW c \in ConnObjs, Handlers(c) \/ ot_free(c)
  PROVE  Implements /\ Sided'
<1>1. /\ conn_irp \in [ConnObjs -> {"idle", "connect", "accept", "reject"}]
      /\ disc \in [ConnObjs -> [at : {"idle", "read", "sent"}, to : StateValues]]
      /\ ev \in [ConnObjs -> {"NONE", "CLOSE_WAIT", "TIME_WAIT"}]
      /\ g_conn_thread \in BOOLEAN
  BY DEF IInv, RestTyped
<1>2. Attached \/ Reachable => g_conn_thread
  BY <1>1 DEF Attached, Reachable, Sided
<1>3. SidedAt(conn_irp[c], Tracked[c]) /\ Releasing(disc[c])
  BY DEF Sided
<1>4. Releasing(Idle) /\ \A s : Releasing([at |-> "sent", to |-> s])
  BY DEF Releasing, Idle
<1>5. CASE tdi_create(c) \/ tdi_cleanup(c) \/ tdi_event_disconnect_abort(c) \/ ot_free(c)
  <2>1. del_tcp_conn(c) /\ UNCHANGED <<irpVars, freeVars>>
    BY <1>5 DEF tdi_create, tdi_cleanup, tdi_event_disconnect_abort, ot_free
  <2>2. g_conn_thread
    <3>1. ot_free(c) => g_conn_thread
      BY <1>1 DEF ot_free, Sided
    <3> QED BY <1>2, <1>5, <3>1 DEF tdi_create, tdi_cleanup, tdi_event_disconnect_abort
  <2> QED BY <1>3, <2>1, <2>2, LetsGo DEF irpVars, freeVars
<1>6. CASE tdi_connect(c)
  <2>1. add_tcp_conn(c, "SYN_SENT") /\ conn_irp' = [conn_irp EXCEPT ![c] = "connect"]
        /\ UNCHANGED <<disc, freeVars>>
    BY <1>6 DEF tdi_connect
  <2>2. SidedAt("connect", "SYN_SENT") /\ "SYN_SENT" \in Table!Opening
    BY DEF SidedAt, Table!Incoming, Table!Opening
  <2>3. conn_irp'[c] = "connect" /\ \A d \in ConnObjs \ {c} : conn_irp'[d] = conn_irp[d]
    BY <1>1, <2>1
  <2>4. g_conn_thread
    BY <1>2, <1>6 DEF tdi_connect
  <2> QED BY <2>1, <2>2, <2>3, <2>4, Takes DEF freeVars
<1>7. CASE tdi_event_connect_accept(c)
  <2>1. add_tcp_conn(c, "SYN_RCVD") /\ conn_irp' = [conn_irp EXCEPT ![c] = "accept"]
        /\ UNCHANGED <<disc, freeVars>>
    BY <1>7 DEF tdi_event_connect_accept
  <2>2. SidedAt("accept", "SYN_RCVD") /\ "SYN_RCVD" \in Table!Opening
    BY DEF SidedAt, Table!Outgoing, Table!Opening
  <2>3. conn_irp'[c] = "accept" /\ \A d \in ConnObjs \ {c} : conn_irp'[d] = conn_irp[d]
    BY <1>1, <2>1
  <2>4. g_conn_thread
    BY <1>2, <1>7 DEF tdi_event_connect_accept
  <2> QED BY <2>1, <2>2, <2>3, <2>4, Takes DEF freeVars
<1>8. CASE tdi_connect_complete(c)
  <2>1. /\ conn_irp[c] = "connect" /\ conn_irp' = [conn_irp EXCEPT ![c] = "idle"]
        /\ set_tcp_conn_state(c, "ESTABLISHED_OUT") \/ del_tcp_conn(c)
        /\ UNCHANGED <<disc, freeVars>>
    BY <1>8 DEF tdi_connect_complete
  <2>2. conn_irp'[c] = "idle" /\ \A d \in ConnObjs \ {c} : conn_irp'[d] = conn_irp[d]
    BY <1>1, <2>1
  <2>3. g_conn_thread
    BY <1>2, <1>8 DEF tdi_connect_complete
  <2>4. "ESTABLISHED_OUT" \in Table!Later /\ Sides("ESTABLISHED_OUT", Tracked[c])
        /\ \A t : SidedAt("idle", t)
    BY <1>3, <2>1 DEF Table!Later, Sides, SidedAt, Table!Incoming, Table!Outgoing
  <2>5. CASE set_tcp_conn_state(c, "ESTABLISHED_OUT")
    BY <1>3, <2>1, <2>2, <2>3, <2>4, <2>5, Writes DEF freeVars
  <2>6. CASE del_tcp_conn(c)
    BY <1>3, <2>1, <2>2, <2>3, <2>6, LetsGo DEF freeVars
  <2> QED BY <2>1, <2>5, <2>6
<1>9. CASE tdi_evconn_accept_complete(c)
  <2>1. /\ \/ conn_irp[c] = "accept" /\ set_tcp_conn_state(c, "ESTABLISHED_IN")
           \/ del_tcp_conn(c)
        /\ conn_irp' = [conn_irp EXCEPT ![c] = "idle"]
        /\ UNCHANGED <<disc, freeVars>>
    BY <1>9 DEF tdi_evconn_accept_complete
  <2>2. conn_irp'[c] = "idle" /\ \A d \in ConnObjs \ {c} : conn_irp'[d] = conn_irp[d]
    BY <1>1, <2>1
  <2>3. g_conn_thread
    BY <1>2, <1>9 DEF tdi_evconn_accept_complete
  <2>4. "ESTABLISHED_IN" \in Table!Later
        /\ (conn_irp[c] = "accept" => Sides("ESTABLISHED_IN", Tracked[c]))
        /\ \A t : SidedAt("idle", t)
    BY <1>3, <2>1 DEF Table!Later, Sides, SidedAt, Table!Incoming, Table!Outgoing
  <2>5. CASE conn_irp[c] = "accept" /\ set_tcp_conn_state(c, "ESTABLISHED_IN")
    BY <1>3, <2>1, <2>2, <2>3, <2>4, <2>5, Writes DEF freeVars
  <2>6. CASE del_tcp_conn(c)
    BY <1>3, <2>1, <2>2, <2>3, <2>6, LetsGo DEF freeVars
  <2> QED BY <2>1, <2>5, <2>6
<1>10. CASE tdi_event_connect_deny(c)
  <2>1. del_tcp_conn(c) /\ conn_irp' = [conn_irp EXCEPT ![c] = "reject"]
        /\ UNCHANGED <<disc, freeVars>>
    BY <1>10 DEF tdi_event_connect_deny
  <2>2. \A d \in ConnObjs \ {c} : conn_irp'[d] = conn_irp[d]
    BY <1>1, <2>1
  <2>3. g_conn_thread
    BY <1>2, <1>10 DEF tdi_event_connect_deny
  <2> QED BY <1>3, <2>1, <2>2, <2>3, LetsGo DEF freeVars
<1>11. CASE tdi_event_connect_reuse(c)
  <2>1. /\ conn_entry[c] # NULL
        /\ state' = [state EXCEPT ![conn_entry[c]] = "CLOSED"]
        /\ conn_entry' = [conn_entry EXCEPT ![c] = NULL]
        /\ g_conn_to_del' = g_conn_to_del \cup {conn_entry[c]}
        /\ age' = [age EXCEPT ![conn_entry[c]] = 0]
        /\ conn_irp' = [conn_irp EXCEPT ![c] = "reject"]
        /\ UNCHANGED <<disc, freeVars>>
    BY <1>11 DEF tdi_event_connect_reuse
  <2>2. \A d \in ConnObjs \ {c} : conn_irp'[d] = conn_irp[d]
    BY <1>1, <2>1
  <2>3. g_conn_thread
    BY <1>2, <1>11 DEF tdi_event_connect_reuse
  <2>4. Table!End(c) /\ Tracked' = [Tracked EXCEPT ![c] = Table!Untracked]
    BY <2>1, <2>3, QueuedEnds DEF IInv, freeVars
  <2>5. Tracked'[c] = Table!Untracked /\ \A d \in ConnObjs \ {c} : Tracked'[d] = Tracked[d]
    BY <2>4 DEF Tracked
  <2>6. SidedAt(conn_irp'[c], Tracked'[c])
    BY <2>5, NeutralSides DEF Neutral
  <2>7. Sided'
    BY <1>3, <2>1, <2>2, <2>5, <2>6, SidedNext DEF freeVars
  <2> QED BY <2>4, <2>7 DEF Implements, Table!Next
<1>12. CASE tdi_disconnect_release(c)
  <2>1. PICK s \in ReleaseTargets(get_tcp_conn_state_by_obj(c)) :
          disc' = [disc EXCEPT ![c] = [at |-> "read", to |-> s]]
    BY <1>12 DEF tdi_disconnect_release
  <2>2. s \in {"FIN_WAIT1", "LAST_ACK"} \cup Garbage
    BY <2>1 DEF ReleaseTargets
  <2>3. Releasing(disc'[c]) /\ \A d \in ConnObjs \ {c} : disc'[d] = disc[d]
    BY <1>1, <2>1, <2>2 DEF Releasing
  <2> QED BY <1>12, <2>3, LeavesAlone DEF tdi_disconnect_release, objVars, ceVars, freeVars
<1>13. CASE tdi_disconnect_set(c)
  <2>1. /\ disc[c].at = "read" /\ set_tcp_conn_state(c, disc[c].to)
        /\ disc' = [disc EXCEPT ![c].at = "sent"] /\ UNCHANGED <<conn_irp, freeVars>>
    BY <1>13 DEF tdi_disconnect_set
  <2>2. Releasing(disc'[c]) /\ \A d \in ConnObjs \ {c} : disc'[d] = disc[d]
    BY <1>1, <2>1 DEF Releasing
  <2>3. disc[c].to \in Neutral /\ disc[c].to # Table!Untracked
    <3>1. disc[c].to \in Neutral
      BY <1>3, <2>1 DEF Releasing, Neutral
    <3>2. disc[c].to \in StateValues
      BY <1>1
    <3> QED BY <3>1, <3>2 DEF StateValues, TcpStates, Junk, Table!Untracked
  <2>4. g_conn_thread
    BY <1>2, <1>13 DEF tdi_disconnect_set
  <2> QED BY <2>1, <2>2, <2>3, <2>4, WritesNeutral DEF freeVars
<1>14. CASE tdi_disconnect_abort(c)
  <2>1. /\ set_tcp_conn_state(c, "CLOSED") /\ UNCHANGED <<conn_irp, freeVars>>
        /\ disc' = [disc EXCEPT ![c] = [at |-> "sent", to |-> "CLOSED"]]
    BY <1>14 DEF tdi_disconnect_abort
  <2>2. Releasing(disc'[c]) /\ \A d \in ConnObjs \ {c} : disc'[d] = disc[d]
    BY <1>1, <2>1 DEF Releasing
  <2>3. g_conn_thread
    BY <1>2, <1>14 DEF tdi_disconnect_abort
  <2>4. "CLOSED" \in Neutral /\ "CLOSED" # Table!Untracked
    BY DEF Neutral, Table!Untracked
  <2> QED BY <2>1, <2>2, <2>3, <2>4, WritesNeutral DEF freeVars
<1>15. CASE tdi_disconnect_complete(c)
  <2>1. /\ \/ set_tcp_conn_state(c, "FIN_WAIT2")
           \/ del_tcp_conn(c)
           \/ UNCHANGED <<conn_entry, ceVars>>
        /\ disc' = [disc EXCEPT ![c] = Idle] /\ UNCHANGED <<conn_irp, freeVars>>
    BY <1>15 DEF tdi_disconnect_complete
  <2>2. Releasing(disc'[c]) /\ \A d \in ConnObjs \ {c} : disc'[d] = disc[d]
    BY <1>1, <1>4, <2>1
  <2>3. g_conn_thread
    BY <1>2, <1>15 DEF tdi_disconnect_complete
  <2>4. "FIN_WAIT2" \in Neutral /\ "FIN_WAIT2" # Table!Untracked
    BY DEF Neutral, Table!Untracked
  <2>5. CASE set_tcp_conn_state(c, "FIN_WAIT2")
    BY <2>1, <2>2, <2>3, <2>4, <2>5, WritesNeutral DEF freeVars
  <2>6. CASE del_tcp_conn(c)
    BY <2>1, <2>2, <2>3, <2>6, LetsGo DEF freeVars
  <2>7. CASE UNCHANGED <<conn_entry, ceVars>>
    BY <2>1, <2>2, <2>7, LeavesAlone DEF ceVars, freeVars
  <2> QED BY <2>1, <2>5, <2>6, <2>7
<1>16. CASE tdi_event_disconnect_release(c)
  BY <1>3, <1>16, LeavesAlone DEF tdi_event_disconnect_release, objVars, ceVars, freeVars
<1>17. CASE tdi_event_disconnect_set(c)
  <2>1. ev[c] # "NONE" /\ set_tcp_conn_state(c, ev[c]) /\ UNCHANGED <<conn_irp, disc, freeVars>>
    BY <1>17 DEF tdi_event_disconnect_set
  <2>2. ev[c] \in Neutral /\ ev[c] # Table!Untracked
    BY <1>1, <2>1 DEF Neutral, Table!Untracked
  <2>3. g_conn_thread
    BY <1>2, <1>17 DEF tdi_event_disconnect_set
  <2> QED BY <1>3, <2>1, <2>2, <2>3, WritesNeutral DEF freeVars
<1> QED
  BY <1>5, <1>6, <1>7, <1>8, <1>9, <1>10, <1>11, <1>12, <1>13, <1>14, <1>15, <1>16, <1>17
     DEF Handlers

(* The pass of conn_thread takes old records away and changes no state.    *)
LEMMA ScanSweeps ==
  ASSUME IInv, conn_thread_scan
  PROVE  Table!Sweep /\ UNCHANGED Tracked
<1> DEFINE freed == {e \in g_conn_to_del : Due(e)}
<1>1. /\ g_conn_to_del' = g_conn_to_del \ freed
      /\ age' = [e \in Entries |-> IF e \in freed THEN 0 ELSE age[e]]
      /\ state' = [e \in Entries |-> IF e \in freed THEN "NONE" ELSE state[e]]
      /\ UNCHANGED <<conn_entry, g_conn_thread>>
  BY DEF conn_thread_scan, objVars, freeVars
<1>2. freed \subseteq g_conn_to_del /\ g_conn_to_del \subseteq Entries
  BY DEF IInv, TableInv, TableTyped
<1>3. ~g_conn_thread \/ \A e \in freed : age[e] >= MaxClosed
  <2>1. \A e \in g_conn_to_del : age[e] \in Nat
    BY ConstantsAssumption DEF IInv, TableInv, TableTyped, AgeCap
  <2>2. lag \in Nat
    BY ConstantsAssumption DEF IInv, RestTyped
  <2> QED BY <2>1, <2>2, ConstantsAssumption DEF Due, Delta
<1> HIDE DEF freed
<1>4. UNCHANGED Tracked
  <2>1. \A c \in ConnObjs : conn_entry[c] # NULL =>
          conn_entry[c] \in Entries /\ conn_entry[c] \notin freed
    BY <1>2 DEF IInv, TableInv, TableTyped, OwnersPoint
  <2>2. \A c \in ConnObjs : conn_entry[c] # NULL => state'[conn_entry[c]] = state[conn_entry[c]]
    BY <1>1, <2>1
  <2> QED BY <1>1, <2>2 DEF Tracked
<1>5. Lingering' = [r \in DOMAIN Lingering \ freed |-> Lingering[r]]
  <2>1. Lingering' = [r \in g_conn_to_del \ freed |-> age'[r]]
    BY <1>1 DEF Lingering
  <2>2. \A r \in g_conn_to_del \ freed : age'[r] = Lingering[r]
    BY <1>1, <1>2 DEF Lingering
  <2>3. DOMAIN Lingering = g_conn_to_del
    BY DEF Lingering
  <2> QED BY <2>1, <2>2, <2>3
<1>6. freed \in SUBSET DOMAIN Lingering /\ \A e \in freed : Lingering[e] = age[e]
  BY <1>2 DEF Lingering
<1> QED BY <1>1, <1>3, <1>4, <1>5, <1>6 DEF Table!Sweep

(* Time makes the records older. *)
LEMMA TickWaits ==
  ASSUME IInv, Tick
  PROVE  Table!Wait /\ UNCHANGED Tracked
<1> DEFINE counted == {e \in g_conn_to_del : age[e] < AgeCap}
<1>1. /\ age' = [e \in Entries |-> IF e \in g_conn_to_del /\ age[e] < AgeCap
                                   THEN age[e] + 1 ELSE age[e]]
      /\ UNCHANGED <<conn_entry, state, g_conn_to_del, g_conn_thread>>
  BY DEF Tick, objVars, freeVars
<1>2. UNCHANGED Tracked
  BY <1>1 DEF Tracked
<1>3. DOMAIN Lingering = g_conn_to_del /\ g_conn_to_del \subseteq Entries
  BY DEF Lingering, IInv, TableInv, TableTyped
<1>4. \A r \in g_conn_to_del :
        age'[r] = IF r \in counted THEN Lingering[r] + 1 ELSE Lingering[r]
  BY <1>1, <1>3 DEF Lingering
<1>5. counted \in SUBSET DOMAIN Lingering
  BY <1>3
<1>6. Lingering' = [r \in DOMAIN Lingering |-> age'[r]]
  BY <1>1, <1>3 DEF Lingering
<1> HIDE DEF counted
<1>7. Lingering' = [r \in DOMAIN Lingering |->
                      IF r \in counted THEN Lingering[r] + 1 ELSE Lingering[r]]
  BY <1>3, <1>4, <1>6
<1> QED BY <1>1, <1>2, <1>5, <1>7 DEF Table!Wait

(* What no step of the table changes keeps its mapping. *)
LEMMA TableStays ==
  ASSUME UNCHANGED <<conn_entry, state, g_conn_to_del, age>>
  PROVE  UNCHANGED <<Tracked, Lingering>>
  BY DEF Tracked, Lingering

(* Sided is kept where only the thread and the phase move. *)
LEMMA SidedStays ==
  ASSUME Sided, UNCHANGED <<Tracked, conn_irp, disc>>,
         g_conn_thread' = (phase' \in {"running", "ot_free"})
  PROVE  Sided'
  BY DEF Sided

(* Every step of the table is one of ConnTable or changes nothing there. *)
LEMMA StepImplements == IInv /\ Sided /\ [Next]_vars => Implements /\ Sided'
<1> SUFFICES ASSUME IInv, Sided, [Next]_vars PROVE Implements /\ Sided'
  OBVIOUS
<1>1. g_conn_thread = (phase \in {"running", "ot_free"}) /\ g_conn_thread \in BOOLEAN
  BY DEF Sided, IInv, RestTyped
<1>2. CASE \E c \in ConnObjs : Handlers(c) \/ ot_free(c)
  BY <1>2, HandlersImplement
<1>3. CASE conn_thread_scan
  <2>1. Table!Sweep /\ UNCHANGED <<Tracked, conn_irp, disc, g_conn_thread, phase>>
    BY <1>3, ScanSweeps DEF conn_thread_scan, irpVars, freeVars
  <2> QED BY <1>1, <2>1, SidedStays DEF Implements, Table!Next
<1>4. CASE Tick
  <2>1. Table!Wait /\ UNCHANGED <<Tracked, conn_irp, disc, g_conn_thread, phase>>
    BY <1>4, TickWaits DEF Tick, irpVars, freeVars
  <2> QED BY <1>1, <2>1, SidedStays DEF Implements, Table!Next
<1>5. CASE conn_thread_wake \/ conn_thread_test \/ UNCHANGED vars
  <2>1. UNCHANGED <<conn_entry, state, g_conn_to_del, age, conn_irp, disc, g_conn_thread, phase>>
    BY <1>5 DEF conn_thread_wake, conn_thread_test, vars, objVars, ceVars, irpVars, freeVars
  <2>2. UNCHANGED <<Tracked, Lingering>>
    BY <2>1, TableStays
  <2> QED BY <1>1, <2>1, <2>2, SidedStays DEF Implements, Table!vars
<1>6. CASE OnUnload \/ conn_state_free_signal \/ conn_state_free_join
  <2>1. /\ UNCHANGED <<conn_entry, state, g_conn_to_del, age, conn_irp, disc, g_conn_thread>>
        /\ \/ phase = "running" /\ phase' = "ot_free"
           \/ phase = "cleared" /\ phase' = "signalled"
           \/ phase = "signalled" /\ phase' = "freed"
    BY <1>6 DEF OnUnload, conn_state_free_signal, conn_state_free_join, objVars, ceVars, irpVars
  <2>2. UNCHANGED <<Tracked, Lingering>>
    BY <2>1, TableStays
  <2>3. g_conn_thread' = (phase' \in {"running", "ot_free"})
    BY <1>1, <2>1
  <2> QED BY <2>1, <2>2, <2>3, SidedStays DEF Implements, Table!vars
<1>7. CASE conn_state_free_clear
  <2>1. /\ UNCHANGED <<conn_entry, state, g_conn_to_del, age, conn_irp, disc>>
        /\ g_conn_thread' = FALSE /\ phase' = "cleared"
        /\ \A c \in ConnObjs : fobj[c] = "none"
    BY <1>7 DEF conn_state_free_clear, objVars, ceVars, irpVars
  <2>2. UNCHANGED <<Tracked, Lingering>>
    BY <2>1, TableStays
  <2>3. \A c \in ConnObjs : Tracked[c] = Table!Untracked
    BY <2>1, TrackedAt DEF IInv, OnlyOpenOwn
  <2>4. Table!Unload
    BY <2>1, <2>2, <2>3 DEF Table!Unload
  <2>5. (phase' \in {"running", "ot_free"}) = FALSE
    BY <2>1
  <2>6. g_conn_thread' = (phase' \in {"running", "ot_free"})
    BY <2>1, <2>5, Zenon
  <2>7. UNCHANGED <<Tracked, conn_irp, disc>>
    BY <2>1, <2>2
  <2>8. Sided'
    BY <2>6, <2>7, SidedStays
  <2> QED BY <2>4, <2>8 DEF Implements, Table!Next
<1> QED BY <1>2, <1>3, <1>4, <1>5, <1>6, <1>7 DEF Next, conn_thread, conn_state_free

(* The initial states. *)
LEMMA InitImplements == Init => Table!Init /\ Sided
<1> SUFFICES ASSUME Init PROVE Table!Init /\ Sided
  OBVIOUS
<1>1. Tracked = [c \in ConnObjs |-> Table!Untracked]
  BY DEF Init, Tracked, Table!Untracked
<1>2. Lingering = [r \in {} |-> 0]
  BY DEF Init, Lingering
<1>3. Sided
  BY <1>1 DEF Init, Sided, SidedAt, Releasing, Idle
<1> QED BY <1>1, <1>2, <1>3 DEF Init, Table!Init

(* Entries shared by pointer, queued, timed and freed by a thread are, for *)
(* the handlers, a state in each object: no step changes two of them, the  *)
(* thread changes none, a connection opened from one side is never         *)
(* established from the other, and all are gone before the table is        *)
(* (conn_state.c:250-470, 650-745, disp_conn.c:60-560, ev_conn.c:60-430).  *)
THEOREM TableImplements == Spec => ImplementsTable
<1>1. Init => Table!Init /\ Sided
  BY InitImplements
<1>2. IInv /\ Sided /\ [Next]_vars => [Table!Next]_(Table!vars) /\ Sided'
  BY StepImplements DEF Implements
<1> QED BY <1>1, <1>2, Inductive, PTL DEF Spec, ImplementsTable, Table!Spec
=============================================================================

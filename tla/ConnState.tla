------------------------------ MODULE ConnState ------------------------------
(***************************************************************************)
(* The TCP state table of tdi_fw (conn_state.c) together with the handlers *)
(* that drive it: creation and cleanup of connection objects (disp_obj.c,  *)
(* obj_tbl.c), TDI_CONNECT and TDI_DISCONNECT with their completions       *)
(* (disp_conn.c), the CONNECT and DISCONNECT events raised by tcpip.sys    *)
(* (ev_conn.c), the sweeper thread conn_thread, and the teardown ot_free / *)
(* conn_state_free.                                                        *)
(*                                                                         *)
(* Every section that runs under g_ot_hash_guard or g_conn_guard is one    *)
(* action; a handler that leaves the lock between reading a state and      *)
(* writing it is two.  Time is counted in ticks.  ce->ticks is kept as the *)
(* age of the entry, and the waiting time of the thread as a countdown, so *)
(* that the model needs no absolute clock.  Addresses and the hash chains  *)
(* are left out: an entry is on its chain from add_tcp_conn to its free.   *)
(***************************************************************************)
EXTENDS Integers, FiniteSets

CONSTANTS
  ConnObjs,    \* file objects of TCP connections
  Entries,     \* blocks the pool can hand out as struct conn_entry
  NULL,        \* no entry, no connection object
  Garbage,     \* what the uninitialised new_state of tdi_disconnect may hold
  MaxClosed,   \* MAX_CLOSED_TIME, in ticks
  MaxLag       \* bound: ticks the thread may lose before the lock, or before it waits

TcpStates == {"NONE", "SYN_SENT", "SYN_RCVD", "ESTABLISHED_IN", "ESTABLISHED_OUT",
              "FIN_WAIT1", "FIN_WAIT2", "TIME_WAIT", "CLOSE_WAIT", "LAST_ACK", "CLOSED"}

Junk == "JUNK"                   \* an int that is no TCP_STATE_xxx
StateValues == TcpStates \cup {Junk}

ASSUME ConstantsAssumption ==
  /\ NULL \notin ConnObjs \cup Entries
  /\ Garbage \subseteq StateValues
  /\ MaxClosed \in Nat \ {0}
  /\ MaxLag \in Nat

VARIABLES
  fobj,           \* connobj -> "none" | "open" | "stale": its ot_entry and its handle
  conn_entry,     \* connobj -> ote->conn_entry
  heap,           \* conn_entry blocks allocated and not freed
  state,          \* entry -> ce->state
  connobj,        \* entry -> ce->connobj
  g_conn_to_del,  \* entries reachable through next_to_del
  relinked,       \* an entry already on that list was pushed again
  age,            \* entry -> ticks since ce->ticks was taken
  conn_irp,       \* connobj -> connect or accept IRP in flight
  disc,           \* connobj -> TDI_DISCONNECT in progress and its new_state
  ev,             \* connobj -> state tdi_event_disconnect is about to set
  g_conn_new_to_del,  \* the auto-reset event
  g_conn_thread,  \* FALSE once conn_state_free has cleared the handle
  pc,             \* where conn_thread is
  timer,          \* ticks left of its timed wait, Infinite for none
  lag,            \* ticks since its KeQueryTickCount, or since its pass over the list
  phase           \* how far OnUnload is

objVars  == <<fobj, conn_entry>>
ceVars   == <<heap, state, connobj, g_conn_to_del, relinked, age>>
irpVars  == <<conn_irp, disc, ev>>
thrVars  == <<pc, timer, lag>>
freeVars == <<g_conn_thread, phase>>
vars == <<objVars, ceVars, irpVars, thrVars, freeVars, g_conn_new_to_del>>

Infinite == -1
AgeCap == 2 * MaxClosed + 3 * MaxLag   \* ages saturate here
Idle == [at |-> "idle", to |-> "NONE"]

TypeOK ==
  /\ fobj \in [ConnObjs -> {"none", "open", "stale"}]
  /\ conn_entry \in [ConnObjs -> Entries \cup {NULL}]
  /\ heap \subseteq Entries
  /\ state \in [Entries -> StateValues]
  /\ connobj \in [Entries -> ConnObjs \cup {NULL}]
  /\ g_conn_to_del \subseteq Entries
  /\ relinked \in BOOLEAN
  /\ age \in [Entries -> 0 .. AgeCap]
  /\ conn_irp \in [ConnObjs -> {"idle", "connect", "accept", "reject"}]
  /\ disc \in [ConnObjs -> [at : {"idle", "read", "sent"}, to : StateValues]]
  /\ ev \in [ConnObjs -> {"NONE", "CLOSE_WAIT", "TIME_WAIT"}]
  /\ g_conn_new_to_del \in BOOLEAN
  /\ g_conn_thread \in BOOLEAN
  /\ pc \in {"wait", "scan", "test", "exited"}
  /\ timer \in {Infinite} \cup (0 .. MaxClosed + MaxLag)
  /\ lag \in 0 .. MaxLag
  /\ phase \in {"running", "ot_free", "cleared", "signalled", "freed"}

(* DriverEntry has run conn_state_init; the thread is about to wait.       *)
Init ==
  /\ fobj = [c \in ConnObjs |-> "none"]
  /\ conn_entry = [c \in ConnObjs |-> NULL]
  /\ heap = {}
  /\ state = [e \in Entries |-> "NONE"]
  /\ connobj = [e \in Entries |-> NULL]
  /\ g_conn_to_del = {}
  /\ relinked = FALSE
  /\ age = [e \in Entries |-> 0]
  /\ conn_irp = [c \in ConnObjs |-> "idle"]
  /\ disc = [c \in ConnObjs |-> Idle]
  /\ ev = [c \in ConnObjs |-> "NONE"]
  /\ g_conn_new_to_del = FALSE
  /\ g_conn_thread = TRUE
  /\ pc = "wait"
  /\ timer = Infinite
  /\ lag = 0
  /\ phase = "running"

-----------------------------------------------------------------------------
(* Operations of the state table.                                          *)

(* New IRPs reach the driver until its devices are detached.  Completions  *)
(* and events still reach it until ot_free is done.  A list linked twice   *)
(* is circular: conn_thread never leaves its loop and holds g_conn_guard,  *)
(* so nothing that needs the lock moves after that.                        *)
Attached == phase = "running" /\ ~relinked
Reachable == phase \in {"running", "ot_free"} /\ ~relinked

(* add_tcp_conn: a fresh entry, linked to the connection object.           *)
add_tcp_conn(c, s) ==
  \E e \in Entries \ heap :
    /\ conn_entry[c] = NULL
    /\ heap' = heap \cup {e}
    /\ state' = [state EXCEPT ![e] = s]
    /\ connobj' = [connobj EXCEPT ![e] = c]
    /\ conn_entry' = [conn_entry EXCEPT ![c] = e]
    /\ UNCHANGED <<g_conn_to_del, relinked, age, g_conn_new_to_del>>

(* Fault: the KeSetEvent is missing. *)
del_tcp_conn_obj_NoSignal(e) ==
  /\ state' = [state EXCEPT ![e] = "CLOSED"]
  /\ connobj' = [connobj EXCEPT ![e] = NULL]
  /\ g_conn_to_del' = g_conn_to_del \cup {e}
  /\ relinked' = (relinked \/ e \in g_conn_to_del)
  /\ age' = [age EXCEPT ![e] = 0]
  /\ UNCHANGED <<heap, g_conn_new_to_del>>

(* del_tcp_conn_obj: the entry becomes CLOSED and is queued for conn_thread. *)
del_tcp_conn_obj(e) ==
  /\ state' = [state EXCEPT ![e] = "CLOSED"]
  /\ connobj' = [connobj EXCEPT ![e] = NULL]
  /\ g_conn_to_del' = g_conn_to_del \cup {e}
  /\ relinked' = (relinked \/ e \in g_conn_to_del)
  /\ age' = [age EXCEPT ![e] = 0]
  /\ g_conn_new_to_del' = TRUE
  /\ UNCHANGED heap

(* Fault: ote_conn->conn_entry = NULL is missing. *)
del_tcp_conn_KeepsPointer(c) ==
  IF conn_entry[c] = NULL
  THEN UNCHANGED <<conn_entry, ceVars, g_conn_new_to_del>>
  ELSE del_tcp_conn_obj(conn_entry[c]) /\ UNCHANGED conn_entry

(* del_tcp_conn, and the same steps in ot_del_fileobj, ot_cleanup_ote and  *)
(* ot_free: the object lets go of its entry, if it has one.                *)
del_tcp_conn(c) ==
  IF conn_entry[c] = NULL
  THEN UNCHANGED <<conn_entry, ceVars, g_conn_new_to_del>>
  ELSE /\ conn_entry' = [conn_entry EXCEPT ![c] = NULL]
       /\ del_tcp_conn_obj(conn_entry[c])

get_tcp_conn_state_by_obj(c) ==
  IF conn_entry[c] = NULL THEN "NONE" ELSE state[conn_entry[c]]

set_tcp_conn_state(c, s) ==
  /\ state' = IF conn_entry[c] = NULL THEN state ELSE [state EXCEPT ![conn_entry[c]] = s]
  /\ UNCHANGED <<conn_entry, heap, connobj, g_conn_to_del, relinked, age, g_conn_new_to_del>>

-----------------------------------------------------------------------------
(* Connection objects.                                                     *)

(* The I/O manager reuses the address of a file object only when no IRP    *)
(* refers to it any more.                                                  *)
Unreferenced(c) == conn_irp[c] = "idle" /\ disc[c] = Idle /\ ev[c] = "NONE"

(* tdi_create of a connection object.  A create that fails below leaves    *)
(* the ot_entry behind: nobody sends a cleanup for it.                     *)
tdi_create(c) ==
  /\ Attached
  /\ fobj[c] # "open"
  /\ Unreferenced(c)
  /\ \E result \in {"open", "stale"} : fobj' = [fobj EXCEPT ![c] = result]
  /\ del_tcp_conn(c)
  /\ UNCHANGED <<irpVars, thrVars, freeVars>>

(* Fault: ot_del_fileobj frees the ot_entry and forgets its conn_entry. *)
tdi_cleanup_DropsEntry(c) ==
  /\ Attached
  /\ fobj[c] = "open"
  /\ fobj' = [fobj EXCEPT ![c] = "none"]
  /\ conn_entry' = [conn_entry EXCEPT ![c] = NULL]
  /\ UNCHANGED <<ceVars, irpVars, thrVars, freeVars, g_conn_new_to_del>>

tdi_cleanup(c) ==
  /\ Attached
  /\ fobj[c] = "open"
  /\ fobj' = [fobj EXCEPT ![c] = "none"]
  /\ del_tcp_conn(c)
  /\ UNCHANGED <<irpVars, thrVars, freeVars>>

-----------------------------------------------------------------------------
(* Outgoing connections.  The denied branches of tdi_connect (no ot_entry, *)
(* not associated, no memory, entry already there) change no state.        *)

tdi_connect(c) ==
  /\ Attached
  /\ fobj[c] = "open"
  /\ conn_irp[c] = "idle"
  /\ add_tcp_conn(c, "SYN_SENT")
  /\ conn_irp' = [conn_irp EXCEPT ![c] = "connect"]
  /\ UNCHANGED <<fobj, disc, ev, thrVars, freeVars>>

(* Fault: the completion sets the state of an incoming connection. *)
tdi_connect_complete_In(c) ==
  /\ Reachable
  /\ conn_irp[c] = "connect"
  /\ \/ set_tcp_conn_state(c, "ESTABLISHED_IN")
     \/ del_tcp_conn(c)
  /\ conn_irp' = [conn_irp EXCEPT ![c] = "idle"]
  /\ UNCHANGED <<fobj, disc, ev, thrVars, freeVars>>

tdi_connect_complete(c) ==
  /\ Reachable
  /\ conn_irp[c] = "connect"
  /\ \/ set_tcp_conn_state(c, "ESTABLISHED_OUT")
     \/ del_tcp_conn(c)
  /\ conn_irp' = [conn_irp EXCEPT ![c] = "idle"]
  /\ UNCHANGED <<fobj, disc, ev, thrVars, freeVars>>

-----------------------------------------------------------------------------
(* Incoming connections.                                                   *)

(* tdi_event_connect, from the lookup of the connection object to the      *)
(* release of the lock.  The object is accepted when it has no entry.      *)
tdi_event_connect_accept(c) ==
  /\ Reachable
  /\ fobj[c] = "open"
  /\ conn_irp[c] = "idle"
  /\ add_tcp_conn(c, "SYN_RCVD")
  /\ conn_irp' = [conn_irp EXCEPT ![c] = "accept"]
  /\ UNCHANGED <<fobj, disc, ev, thrVars, freeVars>>

(* An error before the entry is cleared (wrong address object, no context  *)
(* entry), or after it when there was none: the entry, if any, is queued   *)
(* once and the IRP is completed outside the lock.                         *)
tdi_event_connect_deny(c) ==
  /\ Reachable
  /\ fobj[c] = "open"
  /\ conn_irp[c] = "idle"
  /\ del_tcp_conn(c)
  /\ conn_irp' = [conn_irp EXCEPT ![c] = "reject"]
  /\ UNCHANGED <<fobj, disc, ev, thrVars, freeVars>>

(* The object still has an entry of its previous connection: the entry is  *)
(* queued, but ote_conn->conn_entry keeps pointing at it, so add_tcp_conn  *)
(* reports a duplicate and the deny branch queues it a second time.        *)
tdi_event_connect_reuse(c) ==
  /\ Reachable
  /\ fobj[c] = "open"
  /\ conn_irp[c] = "idle"
  /\ conn_entry[c] # NULL
  /\ state' = [state EXCEPT ![conn_entry[c]] = "CLOSED"]
  /\ connobj' = [connobj EXCEPT ![conn_entry[c]] = NULL]
  /\ g_conn_to_del' = g_conn_to_del \cup {conn_entry[c]}
  /\ relinked' = TRUE
  /\ age' = [age EXCEPT ![conn_entry[c]] = 0]
  /\ g_conn_new_to_del' = TRUE
  /\ conn_entry' = [conn_entry EXCEPT ![c] = NULL]
  /\ conn_irp' = [conn_irp EXCEPT ![c] = "reject"]
  /\ UNCHANGED <<fobj, heap, disc, ev, thrVars, freeVars>>

tdi_evconn_accept_complete(c) ==
  /\ Reachable
  /\ \/ conn_irp[c] = "accept" /\ set_tcp_conn_state(c, "ESTABLISHED_IN")
     \/ conn_irp[c] \in {"accept", "reject"} /\ del_tcp_conn(c)
  /\ conn_irp' = [conn_irp EXCEPT ![c] = "idle"]
  /\ UNCHANGED <<fobj, disc, ev, thrVars, freeVars>>

-----------------------------------------------------------------------------
(* Disconnects by the local side.                                          *)

(* The states a release may write: the successor of the state read, or     *)
(* whatever new_state holds when no branch assigned it.                    *)
ReleaseTargets(s) ==
  IF s \in {"ESTABLISHED_IN", "ESTABLISHED_OUT"} THEN {"FIN_WAIT1"}
  ELSE IF s = "CLOSE_WAIT" THEN {"LAST_ACK"}
  ELSE Garbage

(* TDI_DISCONNECT_RELEASE reads the state under the locks ...              *)
tdi_disconnect_release(c) ==
  /\ Attached
  /\ fobj[c] = "open"
  /\ disc[c] = Idle
  /\ \E s \in ReleaseTargets(get_tcp_conn_state_by_obj(c)) :
       disc' = [disc EXCEPT ![c] = [at |-> "read", to |-> s]]
  /\ UNCHANGED <<objVars, ceVars, conn_irp, ev, thrVars, freeVars, g_conn_new_to_del>>

(* ... and writes the new one after taking them again.                     *)
tdi_disconnect_set(c) ==
  /\ Reachable
  /\ disc[c].at = "read"
  /\ set_tcp_conn_state(c, disc[c].to)
  /\ disc' = [disc EXCEPT ![c].at = "sent"]
  /\ UNCHANGED <<fobj, conn_irp, ev, thrVars, freeVars>>

tdi_disconnect_abort(c) ==
  /\ Attached
  /\ fobj[c] = "open"
  /\ disc[c] = Idle
  /\ set_tcp_conn_state(c, "CLOSED")
  /\ disc' = [disc EXCEPT ![c] = [at |-> "sent", to |-> "CLOSED"]]
  /\ UNCHANGED <<fobj, conn_irp, ev, thrVars, freeVars>>

tdi_disconnect_complete(c) ==
  /\ Reachable
  /\ disc[c].at = "sent"
  /\ \/ disc[c].to = "FIN_WAIT1" /\ set_tcp_conn_state(c, "FIN_WAIT2")
     \/ disc[c].to \in {"LAST_ACK", "CLOSED"} /\ del_tcp_conn(c)
     \/ UNCHANGED <<conn_entry, ceVars, g_conn_new_to_del>>   \* failed, or weird state
  /\ disc' = [disc EXCEPT ![c] = Idle]
  /\ UNCHANGED <<fobj, conn_irp, ev, thrVars, freeVars>>

-----------------------------------------------------------------------------
(* Disconnects by the remote side.                                         *)

(* Successor of a state on the peer's FIN; "NONE" where the handler only   *)
(* prints "weird conn state".                                              *)
PeerClosed(s) ==
  IF s \in {"ESTABLISHED_IN", "ESTABLISHED_OUT"} THEN "CLOSE_WAIT"
  ELSE IF s = "FIN_WAIT2" THEN "TIME_WAIT"
  ELSE "NONE"

tdi_event_disconnect_release(c) ==
  /\ Reachable
  /\ fobj[c] = "open"
  /\ ev[c] = "NONE"
  /\ ev' = [ev EXCEPT ![c] = PeerClosed(get_tcp_conn_state_by_obj(c))]
  /\ UNCHANGED <<objVars, ceVars, conn_irp, disc, thrVars, freeVars, g_conn_new_to_del>>

tdi_event_disconnect_set(c) ==
  /\ Reachable
  /\ ev[c] # "NONE"
  /\ set_tcp_conn_state(c, ev[c])
  /\ ev' = [ev EXCEPT ![c] = "NONE"]
  /\ UNCHANGED <<fobj, conn_irp, disc, thrVars, freeVars>>

tdi_event_disconnect_abort(c) ==
  /\ Reachable
  /\ fobj[c] = "open"
  /\ ev[c] = "NONE"
  /\ del_tcp_conn(c)
  /\ UNCHANGED <<fobj, irpVars, thrVars, freeVars>>

-----------------------------------------------------------------------------
(* conn_thread.                                                            *)

(* Fault: the difference of the tick counts has the wrong sign. *)
Delta_Swapped(e) == age[e] + lag

(* What the thread computes from the tick count it took before the lock.   *)
Delta(e) == age[e] - lag
Due(e) == Delta(e) >= MaxClosed \/ ~g_conn_thread
(* Fault: the remaining time has the wrong sign. *)
Remaining_Negated(E) == {Delta(e) - MaxClosed : e \in E}

Remaining(E) == {MaxClosed - Delta(e) : e \in E}
(* Fault: the timeout is not set for the entries left on the list. *)
Longest_Unset(E) == Infinite

Longest(E) == CHOOSE r \in Remaining(E) : \A q \in Remaining(E) : q <= r

conn_thread_wake ==
  /\ pc = "wait" /\ ~relinked
  /\ \/ g_conn_new_to_del /\ g_conn_new_to_del' = FALSE
     \/ timer = 0 /\ UNCHANGED g_conn_new_to_del
  /\ pc' = "scan"
  /\ lag' = 0
  /\ timer' = Infinite
  /\ UNCHANGED <<objVars, ceVars, irpVars, freeVars>>

(* One pass over the list under g_conn_guard: due entries are unlinked and *)
(* freed (what a free block holds is of no use to anyone: it reads as the  *)
(* initial values), and the timeout becomes the longest remaining time of  *)
(* the rest.                                                               *)
conn_thread_scan ==
  LET freed == {e \in g_conn_to_del : Due(e)}
      kept  == g_conn_to_del \ freed
  IN /\ pc = "scan" /\ ~relinked
     /\ g_conn_to_del' = kept
     /\ heap' = heap \ freed
     /\ age' = [e \in Entries |-> IF e \in freed THEN 0 ELSE age[e]]
     /\ state' = [e \in Entries |-> IF e \in freed THEN "NONE" ELSE state[e]]
     /\ timer' = IF kept = {} THEN Infinite ELSE Longest(kept)
     /\ pc' = "test"
     /\ lag' = 0
     /\ UNCHANGED <<objVars, connobj, relinked, irpVars, freeVars, g_conn_new_to_del>>

(* while (g_conn_thread != NULL)                                           *)
conn_thread_test ==
  /\ pc = "test"
  /\ pc' = IF g_conn_thread THEN "wait" ELSE "exited"
  /\ lag' = 0
  /\ UNCHANGED <<objVars, ceVars, irpVars, timer, freeVars, g_conn_new_to_del>>

(* The passing of time.  MaxLag bounds how long the lock can be contended  *)
(* and how long the thread can be preempted before it waits again.         *)
Tick ==
  /\ pc \in {"scan", "test"} => lag < MaxLag
  /\ lag' = IF pc \in {"scan", "test"} THEN lag + 1 ELSE lag
  /\ timer' = IF pc = "wait" /\ timer > 0 THEN timer - 1 ELSE timer
  /\ age' = [e \in Entries |-> IF e \in g_conn_to_del /\ age[e] < AgeCap
                               THEN age[e] + 1 ELSE age[e]]
  /\ UNCHANGED <<objVars, heap, state, connobj, g_conn_to_del, relinked, irpVars,
                 pc, freeVars, g_conn_new_to_del>>

-----------------------------------------------------------------------------
(* Teardown: OnUnload detaches the devices, ot_free drops every object,    *)
(* conn_state_free stops the thread and frees the table.                   *)

OnUnload ==
  /\ phase = "running" /\ ~relinked
  /\ phase' = "ot_free"
  /\ UNCHANGED <<objVars, ceVars, irpVars, thrVars, g_conn_thread, g_conn_new_to_del>>

ot_free(c) ==
  /\ phase = "ot_free" /\ ~relinked
  /\ fobj[c] # "none"
  /\ fobj' = [fobj EXCEPT ![c] = "none"]
  /\ del_tcp_conn(c)
  /\ UNCHANGED <<irpVars, thrVars, freeVars>>

conn_state_free_clear ==
  /\ phase = "ot_free" /\ ~relinked
  /\ \A c \in ConnObjs : fobj[c] = "none"
  /\ g_conn_thread' = FALSE
  /\ phase' = "cleared"
  /\ UNCHANGED <<objVars, ceVars, irpVars, thrVars, g_conn_new_to_del>>

(* Fault: conn_state_free clears the handle without KeSetEvent. *)
conn_state_free_signal_NoEvent ==
  /\ phase = "cleared"
  /\ phase' = "signalled"
  /\ UNCHANGED <<objVars, ceVars, irpVars, thrVars, g_conn_thread, g_conn_new_to_del>>

conn_state_free_signal ==
  /\ phase = "cleared"
  /\ g_conn_new_to_del' = TRUE
  /\ phase' = "signalled"
  /\ UNCHANGED <<objVars, ceVars, irpVars, thrVars, g_conn_thread>>

(* ZwWaitForSingleObject(thread), then free(g_conn).                       *)
conn_state_free_join ==
  /\ phase = "signalled"
  /\ pc = "exited"
  /\ phase' = "freed"
  /\ UNCHANGED <<objVars, ceVars, irpVars, thrVars, g_conn_thread, g_conn_new_to_del>>

-----------------------------------------------------------------------------
Handlers(c) ==
  \/ tdi_create(c) \/ tdi_cleanup(c)
  \/ tdi_connect(c) \/ tdi_connect_complete(c)
  \/ tdi_event_connect_accept(c) \/ tdi_event_connect_deny(c)
  \/ tdi_event_connect_reuse(c) \/ tdi_evconn_accept_complete(c)
  \/ tdi_disconnect_release(c) \/ tdi_disconnect_set(c)
  \/ tdi_disconnect_abort(c) \/ tdi_disconnect_complete(c)
  \/ tdi_event_disconnect_release(c) \/ tdi_event_disconnect_set(c)
  \/ tdi_event_disconnect_abort(c)

conn_thread == conn_thread_wake \/ conn_thread_scan \/ conn_thread_test

conn_state_free == conn_state_free_clear \/ conn_state_free_signal \/ conn_state_free_join

Next ==
  \/ \E c \in ConnObjs : Handlers(c) \/ ot_free(c)
  \/ conn_thread
  \/ Tick
  \/ OnUnload
  \/ conn_state_free

Spec == Init /\ [][Next]_vars

(* Clients and tcpip.sys owe nothing.  The system thread is scheduled, time *)
(* passes, and OnUnload, once entered, runs to its end.                     *)
Fairness ==
  /\ WF_vars(conn_thread)
  /\ WF_vars(Tick)
  /\ WF_vars(\E c \in ConnObjs : ot_free(c))
  /\ WF_vars(conn_state_free)

FairSpec == Spec /\ Fairness

-----------------------------------------------------------------------------
(* Safety.                                                                 *)

(* An entry a connection object points at is allocated, points back, and   *)
(* is not queued for deletion; a queued entry is CLOSED, still allocated   *)
(* and belongs to nobody.  conn_thread therefore never frees an entry that *)
(* set_tcp_conn_state, set_tcp_conn_local or del_tcp_conn can still reach. *)
NoDangling ==
  /\ \A c \in ConnObjs : conn_entry[c] # NULL =>
       /\ conn_entry[c] \in heap \ g_conn_to_del
       /\ connobj[conn_entry[c]] = c
       /\ fobj[c] # "none"
  /\ \A e \in g_conn_to_del :
       e \in heap /\ state[e] = "CLOSED" /\ connobj[e] = NULL

(* No allocated entry is lost: some connection object owns it or it waits  *)
(* for conn_thread, on every path of the handlers and of the teardown.     *)
NoOrphan ==
  \A e \in heap : e \in g_conn_to_del \/ \E c \in ConnObjs : conn_entry[c] = e

(* The thread never sleeps on a queued entry without a wakeup: either the  *)
(* event is signalled, or the wait is timed and fires before the entry has *)
(* been closed for twice MAX_CLOSED_TIME (the timeout is the longest of    *)
(* the remaining times, so once is not enough).                            *)
SweepArmed ==
  pc = "wait" /\ ~g_conn_new_to_del =>
    \A e \in g_conn_to_del :
      /\ timer # Infinite
      /\ timer > 0 => age[e] + timer < 2 * MaxClosed + 3 * MaxLag + 1

(* What one step may do to a closed entry: its state stays CLOSED and      *)
(* nobody adopts it while it is queued, and conn_thread frees it no sooner *)
(* than MAX_CLOSED_TIME after it was closed, unless the driver unloads.    *)
(* An entry that is not queued is never freed.                             *)
ClosedLingers ==
  [][/\ \A e \in g_conn_to_del \cap g_conn_to_del' :
          state'[e] = state[e] /\ connobj'[e] = connobj[e]
     /\ \A e \in heap \ heap' :
          e \in g_conn_to_del /\ (age[e] >= MaxClosed \/ ~g_conn_thread)]_vars

(* The table implements ConnTable: entries shared by pointer, queued,      *)
(* timed and freed by a thread behave like a state in each object and a    *)
(* record of what is over (conn_state.c:250-470, 650-745).                 *)
Tracked ==
  [c \in ConnObjs |-> IF conn_entry[c] = NULL THEN "UNTRACKED" ELSE state[conn_entry[c]]]
Lingering == [e \in g_conn_to_del |-> age[e]]
Table == INSTANCE ConnTable
  WITH Records <- Entries, tracked <- Tracked, lingering <- Lingering,
       unloading <- ~g_conn_thread
ImplementsTable == Table!Spec

(* Liveness.                                                               *)

(* A closed entry is eventually freed while the thread runs.               *)
EventuallySwept ==
  \A e \in Entries :
    e \in g_conn_to_del ~> (e \notin g_conn_to_del \/ pc = "exited" \/ relinked)

(* Once OnUnload has reached ot_free it gets to the end: conn_thread is    *)
(* woken whatever it was waiting for, sees the cleared handle and exits.   *)
UnloadCompletes == phase = "ot_free" ~> (phase = "freed" \/ relinked)

(* Properties the code does not have.                                      *)

(* ev_conn.c:203 "clear listen & conn entries in connobj (fileobject can   *)
(* be reused)": accepting on a connection object with a left-over entry    *)
(* queues that entry once.                                                 *)
NotRelinked == ~relinked

(* conn_state.c:118 "signal for thread to cleanup & exit": when            *)
(* conn_state_free has joined the thread no entry is left allocated.       *)
CleanedUpAtExit == phase = "freed" => heap = {}

(* conn_state.c:671 "find min timeout to next entry": the timeout is at    *)
(* most the remaining time of every entry left on the list.                *)
SleepsToEarliest ==
  [][pc = "scan" /\ pc' = "test" =>
       \A e \in g_conn_to_del' : timer' <= MaxClosed - Delta(e)]_vars

=============================================================================

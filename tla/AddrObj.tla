------------------------------- MODULE AddrObj -------------------------------
(***************************************************************************)
(* Address objects: their ot_entry (obj_tbl.c), creation with its query of *)
(* the address (disp_obj.c), the event handlers the driver puts in front   *)
(* of the client's (disp_ev.c), the listen table (conn_state.c), and what  *)
(* ot_free undoes of it.                                                   *)
(*                                                                         *)
(* A request passes the driver first and reaches tcpip.sys afterwards, and *)
(* what tcpip.sys holds is part of the state: `installed' is an ot_entry   *)
(* when the handler is the driver's, whose context lies in that entry.     *)
(***************************************************************************)
EXTENDS Integers, FiniteSets

CONSTANTS
  Objs,      \* addresses of file objects
  Otes,      \* pool blocks for ot_entry
  Listens,   \* pool blocks for listen_entry
  Handlers,  \* event handlers of clients
  Events,    \* types of events
  CONNECT,   \* TDI_EVENT_CONNECT
  MaxSet,    \* bound: handlers that clients have set at a time
  Bugcheck,  \* what an event gets when the driver has no handler to call
  NULL

Requests == [event : Events, handler : Otes \cup {NULL}]
Restores == [obj : Objs, event : Events, handler : Handlers]

ASSUME ConstantsAssumption ==
  /\ CONNECT \in Events
  /\ NULL \notin Objs \cup Otes \cup Listens \cup Handlers
  /\ NULL \notin Requests \cup Restores
  /\ Otes \cap Handlers = {}
  /\ {CONNECT, Bugcheck} \cap (Handlers \cup {NULL}) = {}
  /\ MaxSet \in Nat

VARIABLES
  g_ot,         \* ot_entries in the table
  fileobj,      \* entry -> its file object; NULL once ot_free is done with it
  ipproto,      \* entry -> "tcp" or "udp" (raw IP is treated alike)
  listen_entry, \* entry -> its listen_entry, or NULL
  old_handler,  \* entry -> event -> the client's handler, or NULL
  g_listen,     \* listen_entries in the listen table
  addrobj,      \* listen_entry -> file object
  file,         \* file object -> "closed", "creating", "open" or "closing"
  queries,      \* file objects whose TDI_QUERY_INFORMATION is pending
  request,      \* file object -> a handler on its way to tcpip.sys, or NULL
  installed,    \* file object -> event -> what tcpip.sys calls
  restoring,    \* ot_free between the guard and IoCallDriver, or NULL
  lost,         \* history: handlers ot_free could not, or came too early to, restore
  phase         \* "up", "freeing" or "freed"

oteVars == <<g_ot, fileobj, ipproto, listen_entry, old_handler>>
listenVars == <<g_listen, addrobj>>
tcpipVars == <<file, queries, request, installed>>
freeVars == <<restoring, lost, phase>>
vars == <<oteVars, listenVars, tcpipVars, freeVars>>

Unset == [e \in Events |-> NULL]

TypeOK ==
  /\ g_ot \subseteq Otes
  /\ fileobj \in [Otes -> Objs \cup {NULL}]
  /\ ipproto \in [Otes -> {"tcp", "udp"}]
  /\ listen_entry \in [Otes -> Listens \cup {NULL}]
  /\ old_handler \in [Otes -> [Events -> Handlers \cup {NULL}]]
  /\ g_listen \subseteq Listens
  /\ addrobj \in [Listens -> Objs \cup {NULL}]
  /\ file \in [Objs -> {"closed", "creating", "open", "closing"}]
  /\ queries \subseteq Objs
  /\ request \in [Objs -> Requests \cup {NULL}]
  /\ installed \in [Objs -> [Events -> Otes \cup Handlers \cup {NULL}]]
  /\ restoring \in Restores \cup {NULL}
  /\ lost \subseteq Objs \X Events
  /\ phase \in {"up", "freeing", "freed"}

(* ot_init and conn_state_init, before the devices are attached. *)
Init ==
  /\ g_ot = {}
  /\ fileobj = [id \in Otes |-> NULL]
  /\ ipproto = [id \in Otes |-> "tcp"]
  /\ listen_entry = [id \in Otes |-> NULL]
  /\ old_handler = [id \in Otes |-> Unset]
  /\ g_listen = {}
  /\ addrobj = [le \in Listens |-> NULL]
  /\ file = [o \in Objs |-> "closed"]
  /\ queries = {}
  /\ request = [o \in Objs |-> NULL]
  /\ installed = [o \in Objs |-> Unset]
  /\ restoring = NULL
  /\ lost = {}
  /\ phase = "up"

-----------------------------------------------------------------------------
(* The object table.                                                       *)

(* ot_find_fileobj *)
Finds(o, id) == id \in g_ot /\ fileobj[id] = o
Misses(o) == \A id \in g_ot : fileobj[id] # o

(* Fault: the new entry is not zeroed. *)
Zeroed_Not == [e \in Events |-> CONNECT]

(* ctx[] after memset *)
Zeroed == Unset

(* del_listen_obj, where the entry has one. *)
del_listen_obj(id) ==
  /\ g_listen' = g_listen \ {listen_entry[id]}
  /\ addrobj' = [le \in Listens |-> IF le = listen_entry[id] THEN NULL ELSE addrobj[le]]
  /\ listen_entry' = [listen_entry EXCEPT ![id] = NULL]

(* ot_add_fileobj: a new entry, or one left over for this file object,     *)
(* which ot_cleanup_ote empties.                                           *)
ot_add_fileobj(o, id, proto) ==
  /\ Finds(o, id) \/ (Misses(o) /\ id \notin g_ot)
  /\ g_ot' = g_ot \cup {id}
  /\ fileobj' = [fileobj EXCEPT ![id] = o]
  /\ ipproto' = [ipproto EXCEPT ![id] = proto]
  /\ del_listen_obj(id)
  /\ old_handler' = [old_handler EXCEPT ![id] = Zeroed]

(* A freed block keeps nothing. *)
Freed(id) ==
  /\ g_ot' = g_ot \ {id}
  /\ fileobj' = [fileobj EXCEPT ![id] = NULL]
  /\ ipproto' = [ipproto EXCEPT ![id] = "tcp"]
  /\ old_handler' = [old_handler EXCEPT ![id] = Unset]

(* Fault: the listen_entry of the object is forgotten. *)
ot_del_fileobj_Listening(o) ==
  \/ \E id \in g_ot :
       /\ Finds(o, id)
       /\ Freed(id)
       /\ listen_entry' = [listen_entry EXCEPT ![id] = NULL]
       /\ UNCHANGED listenVars
  \/ Misses(o) /\ UNCHANGED <<oteVars, listenVars>>

(* ot_del_fileobj *)
ot_del_fileobj(o) ==
  \/ \E id \in g_ot :
       /\ Finds(o, id)
       /\ Freed(id)
       /\ del_listen_obj(id)
  \/ Misses(o) /\ UNCHANGED <<oteVars, listenVars>>

(* add_listen, when the object is not listed yet and there is memory.      *)
add_listen(id) ==
  /\ listen_entry[id] = NULL
  /\ \E le \in Listens \ g_listen :
       /\ g_listen' = g_listen \cup {le}
       /\ addrobj' = [addrobj EXCEPT ![le] = fileobj[id]]
       /\ listen_entry' = [listen_entry EXCEPT ![id] = le]

-----------------------------------------------------------------------------
(* Creation.                                                               *)

(* tdi_create for an address object.  If the query IRP cannot be allocated *)
(* the create is denied, and the entry stays in the table.                 *)
tdi_create(o) ==
  /\ phase = "up" /\ file[o] = "closed"
  /\ \E id \in Otes, proto \in {"tcp", "udp"} : ot_add_fileobj(o, id, proto)
  /\ \E result \in {"creating", "closed"} : file' = [file EXCEPT ![o] = result]
  /\ UNCHANGED <<queries, request, installed, freeVars>>

(* tdi_create_addrobj_complete.  The entry stays only if the query of the  *)
(* address is pending; if the query succeeds at once the create succeeds,  *)
(* but the entry goes as if it had failed.                                 *)
tdi_create_addrobj_complete(o) ==
  /\ phase # "freed" /\ file[o] = "creating"
  /\ \/ /\ file' = [file EXCEPT ![o] = "open"]
        /\ queries' = queries \cup {o}
        /\ UNCHANGED <<oteVars, listenVars>>
     \/ /\ \E result \in {"open", "closed"} : file' = [file EXCEPT ![o] = result]
        /\ ot_del_fileobj(o)
        /\ UNCHANGED queries
  /\ UNCHANGED <<request, installed, freeVars>>

(* tdi_create_addrobj_complete2: the address is known; what is not TCP     *)
(* listens from now on.                                                    *)
tdi_create_addrobj_complete2(o) ==
  /\ phase # "freed" /\ o \in queries
  /\ queries' = queries \ {o}
  /\ \/ \E id \in g_ot : /\ Finds(o, id) /\ ipproto[id] # "tcp"
                         /\ add_listen(id)
                         /\ UNCHANGED <<g_ot, fileobj, ipproto, old_handler>>
     \/ UNCHANGED <<oteVars, listenVars>>
  /\ UNCHANGED <<file, request, installed, freeVars>>

-----------------------------------------------------------------------------
(* Event handlers.  A client has one request at a time on an object, and   *)
(* CONNECT handlers on TCP objects only.                                   *)

ClientMaySet(o, e) ==
  /\ phase = "up" /\ file[o] = "open" /\ request[o] = NULL
  /\ e = CONNECT => \A id \in g_ot : Finds(o, id) => ipproto[id] = "tcp"

(* tdi_set_event_handler with a handler.  The context is changed before    *)
(* add_listen may fail, and then the request is denied.  For some types    *)
(* the driver has no handler of its own and passes on none.                *)
tdi_set_event_handler(o, e, h) ==
  /\ ClientMaySet(o, e)
  /\ Cardinality({x \in g_ot \X Events : old_handler[x[1]][x[2]] # NULL}) < MaxSet
  /\ \E id \in g_ot :
       /\ Finds(o, id)
       /\ old_handler' = [old_handler EXCEPT ![id][e] = h]
       /\ \/ /\ e = CONNECT /\ add_listen(id)
             /\ request' = [request EXCEPT ![o] = [event |-> e, handler |-> id]]
          \/ /\ e # CONNECT
             /\ \E handler \in {id, NULL} :
                  request' = [request EXCEPT ![o] = [event |-> e, handler |-> handler]]
             /\ UNCHANGED <<listen_entry, listenVars>>
          \/ /\ e = CONNECT
             /\ UNCHANGED <<request, listen_entry, listenVars>>
  /\ UNCHANGED <<g_ot, fileobj, ipproto, file, queries, installed, freeVars>>

(* Fault: the listen_entry stays when the CONNECT handler goes. *)
tdi_set_event_handler_remove_Listening(o, e) ==
  /\ ClientMaySet(o, e)
  /\ request' = [request EXCEPT ![o] = [event |-> e, handler |-> NULL]]
  /\ \/ \E id \in g_ot :
          /\ Finds(o, id)
          /\ old_handler' = [old_handler EXCEPT ![id][e] = NULL]
          /\ UNCHANGED <<listen_entry, listenVars>>
     \/ Misses(o) /\ UNCHANGED <<old_handler, listen_entry, listenVars>>
  /\ UNCHANGED <<g_ot, fileobj, ipproto, file, queries, installed, freeVars>>

(* Fault: the removal is answered by the driver and not passed on. *)
tdi_set_event_handler_remove_Swallowed(o, e) ==
  /\ ClientMaySet(o, e)
  /\ \E id \in g_ot :
       /\ Finds(o, id)
       /\ old_handler' = [old_handler EXCEPT ![id][e] = NULL]
       /\ IF e = CONNECT THEN del_listen_obj(id)
          ELSE UNCHANGED <<listen_entry, listenVars>>
  /\ UNCHANGED <<request, g_ot, fileobj, ipproto, file, queries, installed, freeVars>>

(* tdi_set_event_handler without one; allowed for unknown objects too.     *)
tdi_set_event_handler_remove(o, e) ==
  /\ ClientMaySet(o, e)
  /\ request' = [request EXCEPT ![o] = [event |-> e, handler |-> NULL]]
  /\ \/ \E id \in g_ot :
          /\ Finds(o, id)
          /\ old_handler' = [old_handler EXCEPT ![id][e] = NULL]
          /\ IF e = CONNECT THEN del_listen_obj(id)
             ELSE UNCHANGED <<listen_entry, listenVars>>
     \/ Misses(o) /\ UNCHANGED <<old_handler, listen_entry, listenVars>>
  /\ UNCHANGED <<g_ot, fileobj, ipproto, file, queries, installed, freeVars>>

(* The request reaches tcpip.sys; after the devices are detached that is   *)
(* noted for a handler of the driver.                                      *)
TcpipSets(o) ==
  /\ request[o] # NULL
  /\ LET e == request[o].event IN
     /\ installed' = [installed EXCEPT ![o][e] = request[o].handler]
     /\ lost' = IF phase # "up" /\ request[o].handler # NULL THEN lost \cup {<<o, e>>}
                                                          ELSE lost \ {<<o, e>>}
  /\ request' = [request EXCEPT ![o] = NULL]
  /\ UNCHANGED <<oteVars, listenVars, file, queries, restoring, phase>>

-----------------------------------------------------------------------------
(* tdi_cleanup forgets the object, then tcpip.sys closes it, once it has   *)
(* answered what is pending on it.                                         *)
tdi_cleanup(o) ==
  /\ phase = "up" /\ file[o] = "open" /\ request[o] = NULL
  /\ ot_del_fileobj(o)
  /\ file' = [file EXCEPT ![o] = "closing"]
  /\ UNCHANGED <<queries, request, installed, freeVars>>

TcpipCloses(o) ==
  /\ file[o] = "closing" /\ o \notin queries
  /\ file' = [file EXCEPT ![o] = "closed"]
  /\ installed' = [installed EXCEPT ![o] = Unset]
  /\ lost' = lost \ ({o} \X Events)
  /\ UNCHANGED <<oteVars, listenVars, queries, request, restoring, phase>>

-----------------------------------------------------------------------------
(* Unloading.                                                              *)

(* The devices are detached: nothing new passes the driver, but what has   *)
(* passed it may still be on its way.                                      *)
d_n_d_device ==
  /\ phase = "up"
  /\ phase' = "freeing"
  /\ UNCHANGED <<oteVars, listenVars, tcpipVars, restoring, lost>>

(* A client closes a file object that ot_free may not have come to yet.    *)
DetachedCleanup(o) ==
  /\ phase = "freeing" /\ file[o] = "open" /\ request[o] = NULL
  /\ file' = [file EXCEPT ![o] = "closing"]
  /\ UNCHANGED <<oteVars, listenVars, queries, request, installed, freeVars>>

(* Fault: the handler is not cleared before it is restored. *)
ot_free_handler_Kept(id, e) ==
  /\ phase = "freeing" /\ restoring = NULL
  /\ id \in g_ot /\ fileobj[id] # NULL /\ old_handler[id][e] # NULL
  /\ restoring' = [obj |-> fileobj[id], event |-> e, handler |-> old_handler[id][e]]
  /\ UNCHANGED <<oteVars, listenVars, tcpipVars, lost, phase>>

(* ot_free takes one handler off an address object under the guard...      *)
ot_free_handler(id, e) ==
  /\ phase = "freeing" /\ restoring = NULL
  /\ id \in g_ot /\ fileobj[id] # NULL /\ old_handler[id][e] # NULL
  /\ restoring' = [obj |-> fileobj[id], event |-> e, handler |-> old_handler[id][e]]
  /\ old_handler' = [old_handler EXCEPT ![id][e] = NULL]
  /\ UNCHANGED <<g_ot, fileobj, ipproto, listen_entry, listenVars, tcpipVars, lost, phase>>

(* Fault: the request names the wrong type of event. *)
ot_free_restore_Connect ==
  /\ restoring # NULL
  /\ restoring' = NULL
  /\ IF file[restoring.obj] = "open"
     THEN installed' = [installed EXCEPT ![restoring.obj][CONNECT] = restoring.handler]
     ELSE UNCHANGED installed
  /\ UNCHANGED <<oteVars, listenVars, file, queries, request, lost, phase>>

(* ...and gives it back to tcpip.sys without the guard, unless it gets no  *)
(* IRP for that.                                                           *)
ot_free_restore ==
  /\ restoring # NULL
  /\ restoring' = NULL
  /\ LET o == restoring.obj
         e == restoring.event IN
     IF file[o] = "open"
     THEN \/ /\ installed' = [installed EXCEPT ![o][e] = restoring.handler]
             /\ lost' = lost \ {<<o, e>>}
          \/ /\ lost' = IF installed[o][e] \in Otes THEN lost \cup {<<o, e>>} ELSE lost
             /\ UNCHANGED installed
     ELSE UNCHANGED <<installed, lost>>
  /\ UNCHANGED <<oteVars, listenVars, file, queries, request, phase>>

(* Fault: an object is done with while it has handlers. *)
ot_free_object_Early(id) ==
  /\ phase = "freeing" /\ restoring = NULL
  /\ id \in g_ot /\ fileobj[id] # NULL
  /\ del_listen_obj(id)
  /\ fileobj' = [fileobj EXCEPT ![id] = NULL]
  /\ UNCHANGED <<g_ot, ipproto, old_handler, tcpipVars, freeVars>>

(* An object without handlers leaves the listen table and is skipped from  *)
(* then on.                                                                *)
ot_free_object(id) ==
  /\ phase = "freeing" /\ restoring = NULL
  /\ id \in g_ot /\ fileobj[id] # NULL /\ old_handler[id] = Unset
  /\ del_listen_obj(id)
  /\ fileobj' = [fileobj EXCEPT ![id] = NULL]
  /\ UNCHANGED <<g_ot, ipproto, old_handler, tcpipVars, freeVars>>

(* "clear it!": nothing may find an entry any more. *)
ot_free_clear ==
  /\ phase = "freeing" /\ restoring = NULL
  /\ \A id \in g_ot : fileobj[id] = NULL
  /\ g_ot' = {}
  /\ phase' = "freed"
  /\ UNCHANGED <<fileobj, ipproto, listen_entry, old_handler, listenVars, tcpipVars,
                 restoring, lost>>

ot_free ==
  \/ \E id \in Otes : ot_free_object(id) \/ \E e \in Events : ot_free_handler(id, e)
  \/ ot_free_restore \/ ot_free_clear

Next ==
  \/ \E o \in Objs :
       \/ tdi_create(o) \/ tdi_create_addrobj_complete(o) \/ tdi_create_addrobj_complete2(o)
       \/ \E e \in Events : \/ \E h \in Handlers : tdi_set_event_handler(o, e, h)
                            \/ tdi_set_event_handler_remove(o, e)
       \/ TcpipSets(o) \/ tdi_cleanup(o) \/ TcpipCloses(o) \/ DetachedCleanup(o)
  \/ d_n_d_device \/ ot_free

Spec == Init /\ [][Next]_vars

(* OnUnload runs ot_free to its end.                                       *)
FairSpec == Spec /\ WF_vars(ot_free)

-----------------------------------------------------------------------------
(* The listen table holds exactly the listen_entries that objects of the   *)
(* table own, each once and under the object's own file object: none is    *)
(* freed while an object points at it, none is left behind.                *)
ListenOwned ==
  /\ g_listen = {listen_entry[id] : id \in g_ot} \ {NULL}
  /\ \A id, other \in g_ot :
       listen_entry[id] # NULL /\ listen_entry[id] = listen_entry[other] => id = other
  /\ \A id \in g_ot : listen_entry[id] # NULL => addrobj[listen_entry[id]] = fileobj[id]

(* Whatever handler of the driver tcpip.sys may call, its context is in    *)
(* the table and holds the client's handler, except while the removal of   *)
(* that handler or the cleanup of that object is on its way.               *)
HandlersBacked ==
  phase = "up" =>
    \A o \in Objs, e \in Events :
      LET id == installed[o][e] IN
      id \in Otes =>
        \/ Finds(o, id) /\ old_handler[id][e] # NULL
        \/ request[o] = [event |-> e, handler |-> NULL]
        \/ file[o] = "closing"

(* What the listen table says is so: a listed object is open and, if it is *)
(* a TCP object, has a CONNECT handler; and a TCP object that tcpip.sys    *)
(* accepts connections for is listed.                                      *)
ListenTruth ==
  phase = "up" =>
    /\ \A id \in g_ot :
         listen_entry[id] # NULL =>
           /\ file[fileobj[id]] = "open"
           /\ ipproto[id] = "tcp" => old_handler[id][CONNECT] # NULL
    /\ \A o \in Objs :
         installed[o][CONNECT] \in Otes /\ file[o] = "open" /\ request[o] = NULL =>
           listen_entry[installed[o][CONNECT]] # NULL

(* When the driver's memory goes, tcpip.sys holds none of its handlers,    *)
(* except where ot_free could not allocate the request, or one that had    *)
(* passed the driver came after it, and where a removal or a close is on   *)
(* its way.                                                                *)
HandlersRestored ==
  phase = "freed" =>
    \A o \in Objs, e \in Events :
      installed[o][e] \in Otes =>
        \/ <<o, e>> \in lost
        \/ file[o] = "closing"
        \/ request[o] = [event |-> e, handler |-> NULL]

(* ot_free ends, although it looks at the objects "again and again".       *)
FreeCompletes == phase = "freeing" ~> phase = "freed"

(* What clients see of the driver's handlers is what EventHandlers says.   *)
(* Kept is the handler in the context of the object's own entry or on its  *)
(* way out of it.  Called is what an event gets: the driver's handlers     *)
(* call the client's through the entry they were installed with, and       *)
(* nothing tests whether it has one, or whether the entry is there.        *)
Restoring(o, e) == restoring # NULL /\ restoring.obj = o /\ restoring.event = e
KeptAt(o, e) ==
  IF Restoring(o, e) THEN restoring.handler
  ELSE IF Misses(o) THEN NULL
  ELSE old_handler[CHOOSE id \in g_ot : Finds(o, id)][e]
CalledAt(o, e) ==
  LET id == installed[o][e] IN
  IF id \notin Otes THEN id
  ELSE IF Finds(o, id) /\ old_handler[id][e] # NULL THEN old_handler[id][e]
  ELSE Bugcheck
Kept == [o \in Objs |-> [e \in Events |-> KeptAt(o, e)]]
Called == [o \in Objs |-> [e \in Events |-> CalledAt(o, e)]]

Seen == INSTANCE EventHandlers WITH keeps <- Kept, calls <- Called, unloading <- phase # "up"

ImplementsHandlers == Seen!Spec
=============================================================================

---------------------------- MODULE AddrObjProofs ----------------------------
(***************************************************************************)
(* Proofs about AddrObj: its type invariant, ListenOwned, HandlersBacked,  *)
(* ListenTruth and HandlersRestored, and that it implements EventHandlers, *)
(* for any objects, blocks, events and handlers.                           *)
(***************************************************************************)
EXTENDS AddrObj, TLAPS

(* TypeOK of the two tables.                                               *)
TablesTyped ==
  /\ g_ot \subseteq Otes
  /\ fileobj \in [Otes -> Objs \cup {NULL}]
  /\ ipproto \in [Otes -> {"tcp", "udp"}]
  /\ listen_entry \in [Otes -> Listens \cup {NULL}]
  /\ old_handler \in [Otes -> [Events -> Handlers \cup {NULL}]]
  /\ g_listen \subseteq Listens
  /\ addrobj \in [Listens -> Objs \cup {NULL}]

(* ListenOwned, block by block, and for the blocks outside the table too.  *)
Owned ==
  /\ g_listen \subseteq Listens
  /\ listen_entry \in [Otes -> Listens \cup {NULL}]
  /\ \A id \in Otes : listen_entry[id] # NULL =>
       id \in g_ot /\ listen_entry[id] \in g_listen /\ addrobj[listen_entry[id]] = fileobj[id]
  /\ \A id, other \in Otes :
       listen_entry[id] # NULL /\ listen_entry[id] = listen_entry[other] => id = other
  /\ \A le \in g_listen : \E id \in g_ot : listen_entry[id] = le

(* A file object has one entry, and ot_free alone takes it from the entry. *)
Entries ==
  /\ \A id, other \in g_ot : fileobj[id] # NULL /\ fileobj[id] = fileobj[other] => id = other
  /\ \A id \in g_ot : fileobj[id] = NULL => phase # "up" /\ listen_entry[id] = NULL

(* What goes with the state of a file object, and of the driver.           *)
Files ==
  /\ \A o \in Objs : file[o] \in {"closed", "creating"} =>
                       installed[o] = Unset /\ o \notin queries
  /\ \A o \in Objs : request[o] # NULL => file[o] = "open"
  /\ phase = "up" => \A id \in g_ot : file[fileobj[id]] # "closing"
  /\ phase # "freeing" => restoring = NULL
  /\ phase = "freed" => g_ot = {}

(* HandlersBacked, continued through ot_free.                              *)
Backed ==
  \A o \in Objs, e \in Events :
    installed[o][e] \in Otes =>
      \/ Finds(o, installed[o][e]) /\ old_handler[installed[o][e]][e] # NULL
      \/ request[o] = [event |-> e, handler |-> NULL]
      \/ file[o] = "closing"
      \/ phase # "up" /\ <<o, e>> \in lost
      \/ phase # "up" /\ \E h \in Handlers : restoring = [obj |-> o, event |-> e, handler |-> h]

(* The same of a handler on its way.                                       *)
Requested == phase = "up" =>
  \A o \in Objs : request[o] # NULL /\ request[o].handler # NULL =>
    /\ Finds(o, request[o].handler)
    /\ old_handler[request[o].handler][request[o].event] # NULL
    /\ request[o].event = CONNECT => listen_entry[request[o].handler] # NULL

(* The two halves of ListenTruth, the second with requests on their way.   *)
Listed == phase = "up" =>
  \A id \in g_ot : listen_entry[id] # NULL =>
    /\ file[fileobj[id]] = "open"
    /\ ipproto[id] = "tcp" => old_handler[id][CONNECT] # NULL

Accepting == phase = "up" =>
  \A o \in Objs : installed[o][CONNECT] \in Otes /\ file[o] = "open" =>
    \/ request[o] = [event |-> CONNECT, handler |-> NULL]
    \/ listen_entry[installed[o][CONNECT]] # NULL

IInv ==
  /\ TypeOK /\ Owned /\ Entries /\ Files /\ Backed /\ Requested /\ Listed /\ Accepting

-----------------------------------------------------------------------------
(* The operations on the tables, each with what it keeps.                  *)

(* An entry leaves the listen table, and the object table or not.          *)
LEMMA DelListenOwned ==
  ASSUME IInv, NEW id \in Otes, del_listen_obj(id),
         g_ot' \in {g_ot, g_ot \ {id}, g_ot \cup {id}},
         \A other \in Otes \ {id} : fileobj'[other] = fileobj[other]
  PROVE  Owned'
  <1>1. g_listen' \subseteq Listens /\ listen_entry' \in [Otes -> Listens \cup {NULL}]
    BY DEF IInv, Owned, del_listen_obj
  <1>2. listen_entry'[id] = NULL /\ \A x \in Otes \ {id} : listen_entry'[x] = listen_entry[x]
    BY DEF IInv, Owned, del_listen_obj
  <1>3. ASSUME NEW x \in Otes, listen_entry'[x] # NULL
        PROVE  /\ x \in g_ot' /\ listen_entry'[x] \in g_listen'
               /\ addrobj'[listen_entry'[x]] = fileobj'[x]
    <2>1. x # id /\ listen_entry[x] # listen_entry[id] /\ listen_entry[x] \in Listens
      BY <1>2, <1>3 DEF IInv, Owned
    <2> QED
      BY <1>2, <1>3, <2>1 DEF IInv, Owned, del_listen_obj
  <1>4. ASSUME NEW x \in Otes, NEW y \in Otes,
               listen_entry'[x] # NULL, listen_entry'[x] = listen_entry'[y]
        PROVE  x = y
    BY <1>2, <1>4 DEF IInv, Owned
  <1>5. ASSUME NEW le \in g_listen'
        PROVE  \E x \in g_ot' : listen_entry'[x] = le
    <2>1. le \in g_listen /\ le # listen_entry[id]
      BY DEF del_listen_obj
    <2>2. PICK x \in g_ot : listen_entry[x] = le
      BY <2>1 DEF IInv, Owned
    <2>3. x \in Otes /\ x # id
      BY <2>1, <2>2 DEF IInv, TypeOK
    <2> QED
      BY <1>2, <2>2, <2>3
  <1> QED
    BY <1>1, <1>3, <1>4, <1>5 DEF Owned

(* A listener is put into a block that nobody owns. *)
LEMMA AddListenOwned ==
  ASSUME IInv, NEW id \in g_ot, add_listen(id), UNCHANGED <<g_ot, fileobj>>
  PROVE  Owned'
  <1>1. PICK le \in Listens \ g_listen :
          /\ g_listen' = g_listen \cup {le}
          /\ addrobj' = [addrobj EXCEPT ![le] = fileobj[id]]
          /\ listen_entry' = [listen_entry EXCEPT ![id] = le]
    BY DEF add_listen
  <1>2. id \in Otes /\ le # NULL /\ addrobj \in [Listens -> Objs \cup {NULL}]
    BY ConstantsAssumption DEF IInv, TypeOK
  <1>3. listen_entry'[id] = le /\ \A x \in Otes \ {id} : listen_entry'[x] = listen_entry[x]
    BY <1>1, <1>2 DEF IInv, Owned
  <1>4. \A x \in Otes \ {id} : listen_entry[x] # le
    BY <1>1, <1>2 DEF IInv, Owned
  <1>5. g_listen' \subseteq Listens /\ listen_entry' \in [Otes -> Listens \cup {NULL}]
    BY <1>1, <1>2 DEF IInv, Owned
  <1>6. ASSUME NEW x \in Otes, listen_entry'[x] # NULL
        PROVE  /\ x \in g_ot' /\ listen_entry'[x] \in g_listen'
               /\ addrobj'[listen_entry'[x]] = fileobj'[x]
    BY <1>1, <1>2, <1>3, <1>4, <1>6 DEF IInv, Owned
  <1>7. ASSUME NEW x \in Otes, NEW y \in Otes,
               listen_entry'[x] # NULL, listen_entry'[x] = listen_entry'[y]
        PROVE  x = y
    BY <1>3, <1>4, <1>7 DEF IInv, Owned
  <1>8. ASSUME NEW l \in g_listen'
        PROVE  \E x \in g_ot' : listen_entry'[x] = l
    <2>1. CASE l = le
      BY <1>3, <2>1
    <2>2. CASE l \in g_listen
      <3>1. PICK x \in g_ot : listen_entry[x] = l
        BY <2>2 DEF IInv, Owned
      <3>2. x \in Otes /\ x # id
        BY <1>2, <2>2, <3>1, ConstantsAssumption DEF IInv, TypeOK, Owned, add_listen
      <3> QED
        BY <1>3, <3>1, <3>2
    <2> QED
      BY <1>1, <2>1, <2>2
  <1> QED
    BY <1>5, <1>6, <1>7, <1>8 DEF Owned

(* The listen table keeps its type when a listener goes. *)
LEMMA DelListenTyped ==
  ASSUME IInv, NEW id \in Otes, del_listen_obj(id)
  PROVE  /\ g_listen' \subseteq Listens
         /\ addrobj' \in [Listens -> Objs \cup {NULL}]
         /\ listen_entry' \in [Otes -> Listens \cup {NULL}]
  BY DEF IInv, TypeOK, del_listen_obj

(* The listen table keeps its type when a listener comes. *)
LEMMA AddListenTyped ==
  ASSUME IInv, NEW id \in g_ot, add_listen(id)
  PROVE  /\ g_listen' \subseteq Listens
         /\ addrobj' \in [Listens -> Objs \cup {NULL}]
         /\ listen_entry' \in [Otes -> Listens \cup {NULL}]
  <1>1. PICK le \in Listens \ g_listen :
          /\ g_listen' = g_listen \cup {le}
          /\ addrobj' = [addrobj EXCEPT ![le] = fileobj[id]]
          /\ listen_entry' = [listen_entry EXCEPT ![id] = le]
    BY DEF add_listen
  <1>2. fileobj[id] \in Objs \cup {NULL}
    BY DEF IInv, TypeOK
  <1> QED
    BY <1>1, <1>2 DEF IInv, TypeOK

(* An entry that is added, or one taken over at the same address, owns nothing twice. *)
LEMMA AddFileobjKeeps ==
  ASSUME IInv, NEW o \in Objs, NEW id \in Otes, NEW proto \in {"tcp", "udp"},
         ot_add_fileobj(o, id, proto)
  PROVE  TablesTyped' /\ Owned'
  <1>1. Owned'
    BY DelListenOwned DEF IInv, TypeOK, ot_add_fileobj
  <1>2. TablesTyped'
    BY DelListenTyped DEF IInv, TypeOK, TablesTyped, ot_add_fileobj, Zeroed, Unset
  <1> QED
    BY <1>1, <1>2

(* An entry that is deleted gives up its listener. *)
LEMMA DelFileobjKeeps ==
  ASSUME IInv, NEW o \in Objs, ot_del_fileobj(o)
  PROVE  TablesTyped' /\ Owned'
  <1>1. CASE Misses(o) /\ UNCHANGED <<oteVars, listenVars>>
    BY <1>1 DEF IInv, TypeOK, TablesTyped, Owned, oteVars, listenVars
  <1>2. ASSUME NEW id \in g_ot, Finds(o, id), Freed(id), del_listen_obj(id)
        PROVE  TablesTyped' /\ Owned'
    <2>1. id \in Otes
      BY DEF IInv, TypeOK
    <2>2. Owned'
      BY <1>2, <2>1, DelListenOwned DEF IInv, TypeOK, Freed
    <2>3. TablesTyped'
      BY <1>2, <2>1, DelListenTyped DEF IInv, TypeOK, TablesTyped, Freed, Unset
    <2> QED
      BY <2>2, <2>3
  <1> QED
    BY <1>1, <1>2 DEF ot_del_fileobj

(* A function of functions, changed at one place.                          *)
LEMMA NestedTyped ==
  ASSUME NEW S, NEW T, NEW U, NEW f \in [S -> [T -> U]], NEW s \in S, NEW t \in T, NEW u \in U
  PROVE  [f EXCEPT ![s][t] = u] \in [S -> [T -> U]]
  OBVIOUS

-----------------------------------------------------------------------------
(* One lemma for each action.                                              *)

(* A create: an object may be opened again before the driver forgets it. *)
LEMMA CreateStep ==
  ASSUME IInv, NEW o \in Objs, tdi_create(o)
  PROVE  IInv'
  <1>1. TablesTyped' /\ Owned'
    BY AddFileobjKeeps DEF tdi_create
  <1>2. TypeOK'
    BY <1>1 DEF IInv, TypeOK, tdi_create, freeVars, TablesTyped
  <1>3. Entries'
    BY ConstantsAssumption DEF IInv, TypeOK, Entries, tdi_create,
       ot_add_fileobj, Finds, Misses
  <1>4. Files'
    BY DEF IInv, TypeOK, Files, tdi_create, ot_add_fileobj, freeVars
  <1>5. Backed'
    BY ConstantsAssumption DEF IInv, Files, Backed, tdi_create,
       ot_add_fileobj, Finds, Unset
  <1>6. Requested'
    BY DEF IInv, Files, Requested, tdi_create, ot_add_fileobj,
       del_listen_obj, Finds
  <1>7. Listed'
    BY DEF IInv, TypeOK, Listed, tdi_create, ot_add_fileobj, del_listen_obj
  <1>8. Accepting'
    BY ConstantsAssumption DEF IInv, Backed, Accepting, tdi_create,
       ot_add_fileobj, del_listen_obj, Finds
  <1> QED
    BY <1>1, <1>2, <1>3, <1>4, <1>5, <1>6, <1>7, <1>8 DEF IInv

(* The first completion: the create may have failed, or its query be refused. *)
LEMMA CompleteStep ==
  ASSUME IInv, NEW o \in Objs, tdi_create_addrobj_complete(o)
  PROVE  IInv'
  <1>1. TablesTyped' /\ Owned'
    BY DelFileobjKeeps DEF IInv, TypeOK, Owned, TablesTyped, oteVars,
       listenVars, tdi_create_addrobj_complete
  <1>2. TypeOK'
    BY <1>1 DEF IInv, TypeOK, TablesTyped, tdi_create_addrobj_complete, freeVars
  <1>3. Entries'
    BY DEF IInv, TypeOK, Entries, tdi_create_addrobj_complete,
       ot_del_fileobj, Freed, del_listen_obj, oteVars, freeVars
  <1>4. /\ g_ot' \subseteq g_ot
        /\ \A x \in g_ot' : fileobj'[x] = fileobj[x]
    BY DEF IInv, TypeOK, ot_del_fileobj, Freed, oteVars,
       tdi_create_addrobj_complete
  <1>5. Files'
    <2>1. ASSUME NEW r \in {"open", "closed"}, file' = [file EXCEPT ![o] = r],
                 UNCHANGED queries
          PROVE  Files'
      BY <1>4, <2>1, ConstantsAssumption
      DEF IInv, TypeOK, Entries, Files, freeVars, tdi_create_addrobj_complete
    <2>2. CASE file' = [file EXCEPT ![o] = "open"] /\ queries' = queries \cup {o}
      BY <1>4, <2>2, ConstantsAssumption
      DEF IInv, TypeOK, Entries, Files, freeVars, tdi_create_addrobj_complete
    <2> QED
      BY <2>1, <2>2 DEF tdi_create_addrobj_complete
  <1>6. Backed'
    BY ConstantsAssumption DEF IInv, TypeOK, Files, Backed,
       tdi_create_addrobj_complete, ot_del_fileobj, Freed, Finds, Unset,
       oteVars, freeVars
  <1>7. Requested'
    BY DEF IInv, TypeOK, Files, Requested, tdi_create_addrobj_complete,
       ot_del_fileobj, Freed, del_listen_obj, Finds, oteVars, freeVars
  <1>8. Listed'
    BY DEF IInv, TypeOK, Entries, Listed, tdi_create_addrobj_complete,
       ot_del_fileobj, Freed, del_listen_obj, oteVars, freeVars
  <1>9. Accepting'
    BY ConstantsAssumption DEF IInv, TypeOK, Files, Listed, Accepting,
       tdi_create_addrobj_complete, ot_del_fileobj, del_listen_obj, Finds,
       Unset, oteVars, freeVars
  <1> QED
    BY <1>1, <1>2, <1>3, <1>5, <1>6, <1>7, <1>8, <1>9 DEF IInv

(* The answer to the address query, which may come after the cleanup. *)
LEMMA Complete2Step ==
  ASSUME IInv, NEW o \in Objs, tdi_create_addrobj_complete2(o)
  PROVE  IInv'
  <1>1. TypeOK'
    BY AddListenTyped DEF IInv, TypeOK, oteVars, listenVars, freeVars,
       tdi_create_addrobj_complete2
  <1>2. Owned'
    BY AddListenOwned DEF IInv, Owned, listenVars, oteVars,
       tdi_create_addrobj_complete2
  <1>3. Entries'
    BY ConstantsAssumption DEF IInv, TypeOK, Entries,
       tdi_create_addrobj_complete2, add_listen, Finds, oteVars, freeVars
  <1>4. Files'
    BY DEF IInv, Files, tdi_create_addrobj_complete2, oteVars, freeVars
  <1>5. Requested'
    BY DEF IInv, TypeOK, Requested, tdi_create_addrobj_complete2,
       add_listen, Finds, oteVars, freeVars
  <1>6. Listed'
    BY DEF IInv, TypeOK, Files, Listed, tdi_create_addrobj_complete2,
       add_listen, Finds, oteVars, freeVars
  <1>7. Accepting'
    BY DEF IInv, TypeOK, Accepting, tdi_create_addrobj_complete2,
       add_listen, oteVars, freeVars
  <1>8. Backed'
    BY DEF IInv, Backed, tdi_create_addrobj_complete2, Finds, oteVars,
       freeVars
  <1> QED
    BY <1>1, <1>2, <1>3, <1>4, <1>5, <1>6, <1>7, <1>8 DEF IInv

(* Setting a handler: the context is overwritten before the listener is denied. *)
LEMMA SetStep ==
  ASSUME IInv, NEW o \in Objs, NEW e \in Events, NEW h \in Handlers,
         tdi_set_event_handler(o, e, h)
  PROVE  IInv'
  <1>1. old_handler' \in [Otes -> [Events -> Handlers \cup {NULL}]]
    BY DEF IInv, TypeOK, tdi_set_event_handler
  <1>2. request' \in [Objs -> Requests \cup {NULL}]
    BY DEF IInv, TypeOK, Requests, tdi_set_event_handler
  <1>3. TypeOK'
    BY <1>1, <1>2, AddListenTyped DEF IInv, TypeOK, listenVars, freeVars,
       tdi_set_event_handler
  <1>4. Owned'
    BY AddListenOwned DEF IInv, Owned, listenVars, tdi_set_event_handler
  <1>5. Entries'
    BY DEF IInv, Entries, tdi_set_event_handler, ClientMaySet
  <1>6. Files'
    BY DEF IInv, TypeOK, Files, tdi_set_event_handler, ClientMaySet,
       freeVars
  <1>7. Backed'
    BY ConstantsAssumption DEF IInv, TypeOK, Backed, tdi_set_event_handler,
       ClientMaySet, Requests, Finds
  <1>8. Requested'
    BY ConstantsAssumption DEF IInv, TypeOK, Backed, Requested,
       tdi_set_event_handler, ClientMaySet, add_listen, Finds, freeVars
  <1>9. Listed'
    BY ConstantsAssumption DEF IInv, TypeOK, Listed, tdi_set_event_handler,
       ClientMaySet, add_listen, Finds
  <1>10. Accepting'
    BY ConstantsAssumption DEF IInv, TypeOK, Owned, Entries, Files, Backed,
       Requested, Listed, Accepting, tdi_set_event_handler, ClientMaySet,
       add_listen, Requests, Restores, Finds, Misses, Unset, oteVars,
       listenVars, tcpipVars, freeVars
  <1> QED
    BY <1>3, <1>4, <1>5, <1>6, <1>7, <1>8, <1>9, <1>10 DEF IInv

(* Removing a handler: the context is empty before tcpip.sys hears of it. *)
LEMMA RemoveStep ==
  ASSUME IInv, NEW o \in Objs, NEW e \in Events, tdi_set_event_handler_remove(o, e)
  PROVE  IInv'
  <1>1. old_handler' \in [Otes -> [Events -> Handlers \cup {NULL}]]
    <2>1. ASSUME NEW id \in g_ot, old_handler' = [old_handler EXCEPT ![id][e] = NULL]
          PROVE  old_handler' \in [Otes -> [Events -> Handlers \cup {NULL}]]
      BY <2>1, NestedTyped DEF IInv, TypeOK
    <2>2. CASE UNCHANGED old_handler
      BY <2>2 DEF IInv, TypeOK
    <2> QED
      BY <2>1, <2>2 DEF tdi_set_event_handler_remove
  <1>2. request' \in [Objs -> Requests \cup {NULL}]
    BY DEF IInv, TypeOK, Requests, tdi_set_event_handler_remove
  <1>3. TypeOK'
    BY <1>1, <1>2, DelListenTyped DEF IInv, TypeOK, listenVars, freeVars,
       tdi_set_event_handler_remove
  <1>4. Owned'
    BY DelListenOwned DEF IInv, TypeOK, Owned, listenVars,
       tdi_set_event_handler_remove
  <1>5. Entries'
    BY DEF IInv, Entries, tdi_set_event_handler_remove, ClientMaySet
  <1>6. Files'
    BY DEF IInv, Files, tdi_set_event_handler_remove, ClientMaySet, freeVars
  <1>7. Backed'
    <2>1. \A x \in Otes, a \in Events :
            ~Finds(o, x) \/ a # e => old_handler'[x][a] = old_handler[x][a]
      <3>1. ASSUME NEW id \in g_ot, Finds(o, id),
                   old_handler' = [old_handler EXCEPT ![id][e] = NULL]
            PROVE  \A x \in Otes, a \in Events :
                     ~Finds(o, x) \/ a # e => old_handler'[x][a] = old_handler[x][a]
        BY <3>1 DEF IInv, TypeOK
      <3>2. CASE UNCHANGED old_handler
        BY <3>2
      <3> QED
        BY <3>1, <3>2 DEF tdi_set_event_handler_remove
    <2>2. request'[o] = [event |-> e, handler |-> NULL]
          /\ \A x \in Objs \ {o} : request'[x] = request[x]
      BY DEF IInv, TypeOK, tdi_set_event_handler_remove
    <2>3. request[o] = NULL /\ [event |-> e, handler |-> NULL] # NULL
          /\ \A a \in Events : [event |-> a, handler |-> NULL] # NULL
      BY ConstantsAssumption DEF ClientMaySet, tdi_set_event_handler_remove, Requests
    <2>4. UNCHANGED <<g_ot, fileobj, file, installed, phase, lost, restoring>>
      BY DEF tdi_set_event_handler_remove, freeVars
    <2> QED
      BY <2>1, <2>2, <2>3, <2>4 DEF IInv, Backed, Finds
  <1>8. Requested'
    BY DEF IInv, TypeOK, Requested, tdi_set_event_handler_remove,
       ClientMaySet, del_listen_obj, Finds, Misses
  <1>9. Listed'
    <2>1. CASE e = CONNECT
      BY <2>1, ConstantsAssumption
      DEF IInv, TypeOK, Owned, Listed, Finds, Misses, del_listen_obj, freeVars,
          tdi_set_event_handler_remove
    <2>2. CASE e # CONNECT
      <3>1. ASSUME NEW id \in g_ot, old_handler' = [old_handler EXCEPT ![id][e] = NULL],
                   UNCHANGED <<listen_entry, listenVars>>
            PROVE  Listed'
        BY <2>2, <3>1, ConstantsAssumption
        DEF IInv, TypeOK, Listed, freeVars, tdi_set_event_handler_remove
      <3>2. CASE UNCHANGED <<old_handler, listen_entry, listenVars>>
        BY <3>2 DEF IInv, Listed, freeVars, tdi_set_event_handler_remove
      <3> QED
        BY <2>2, <3>1, <3>2 DEF tdi_set_event_handler_remove
    <2> QED
      BY <2>1, <2>2
  <1>10. Accepting'
    BY ConstantsAssumption DEF IInv, TypeOK, Backed, Accepting,
       tdi_set_event_handler_remove, ClientMaySet, del_listen_obj, Requests,
       Finds
  <1> QED
    BY <1>3, <1>4, <1>5, <1>6, <1>7, <1>8, <1>9, <1>10 DEF IInv

(* tcpip.sys takes up a request that sets or removes a handler. *)
LEMMA TcpipSetsStep ==
  ASSUME IInv, NEW o \in Objs, TcpipSets(o)
  PROVE  IInv'
  <1>1. installed' \in [Objs -> [Events -> Otes \cup Handlers \cup {NULL}]]
    BY DEF IInv, TypeOK, Requests, TcpipSets
  <1>2. TypeOK'
    BY <1>1 DEF IInv, TypeOK, TcpipSets, oteVars, listenVars
  <1>3. Files'
    BY DEF IInv, Files, TcpipSets, oteVars
  <1>4. Backed'
    BY ConstantsAssumption DEF IInv, TypeOK, Backed, Requested, TcpipSets,
       Finds, oteVars
  <1>5. Requested'
    BY DEF IInv, Requested, TcpipSets, Finds, oteVars
  <1>6. Accepting'
    BY ConstantsAssumption DEF IInv, TypeOK, Requested, Accepting,
       TcpipSets, oteVars
  <1>7. Owned' /\ Entries' /\ Listed'
    BY DEF IInv, Owned, Entries, Listed, TcpipSets, oteVars, listenVars
  <1> QED
    BY <1>2, <1>3, <1>4, <1>5, <1>6, <1>7 DEF IInv

(* A cleanup: the entry goes before tcpip.sys hears of it. *)
LEMMA CleanupStep ==
  ASSUME IInv, NEW o \in Objs, tdi_cleanup(o)
  PROVE  IInv'
  <1>1. TablesTyped' /\ Owned'
    BY DelFileobjKeeps DEF tdi_cleanup
  <1>2. TypeOK'
    BY <1>1 DEF IInv, TypeOK, tdi_cleanup, freeVars, TablesTyped
  <1>3. Entries'
    BY DEF IInv, TypeOK, Entries, tdi_cleanup, ot_del_fileobj, Freed,
       oteVars
  <1>4. Files'
    BY DEF IInv, TypeOK, Entries, Files, tdi_cleanup, ot_del_fileobj, Freed,
       Finds, Misses, oteVars, freeVars
  <1>5. Backed'
    BY DEF IInv, TypeOK, Backed, tdi_cleanup, ot_del_fileobj, Freed, Finds,
       oteVars
  <1>6. Requested'
    BY DEF IInv, TypeOK, Requested, tdi_cleanup, ot_del_fileobj, Freed,
       del_listen_obj, Finds, oteVars
  <1>7. Listed'
    BY DEF IInv, TypeOK, Entries, Listed, tdi_cleanup, ot_del_fileobj,
       Freed, del_listen_obj, Finds, Misses, oteVars
  <1>8. Accepting'
    BY ConstantsAssumption DEF IInv, TypeOK, Backed, Accepting, tdi_cleanup,
       ot_del_fileobj, del_listen_obj, Finds, oteVars
  <1> QED
    BY <1>1, <1>2, <1>3, <1>4, <1>5, <1>6, <1>7, <1>8 DEF IInv

(* tcpip.sys closes the object and forgets its handlers. *)
LEMMA TcpipClosesStep ==
  ASSUME IInv, NEW o \in Objs, TcpipCloses(o)
  PROVE  IInv'
  <1>1. TypeOK'
    BY DEF IInv, TypeOK, TcpipCloses, Unset, oteVars, listenVars
  <1>2. Files'
    BY DEF IInv, TypeOK, Files, TcpipCloses, oteVars
  <1>3. Backed'
    BY ConstantsAssumption DEF IInv, TypeOK, Backed, TcpipCloses, Finds,
       Unset, oteVars
  <1>4. Listed'
    BY DEF IInv, Listed, TcpipCloses, oteVars
  <1>5. Accepting'
    BY DEF IInv, Accepting, TcpipCloses, oteVars
  <1>6. Owned' /\ Entries' /\ Requested'
    BY DEF IInv, Owned, Entries, Requested, TcpipCloses, Finds, oteVars,
       listenVars
  <1> QED
    BY <1>1, <1>2, <1>3, <1>4, <1>5, <1>6 DEF IInv

(* A cleanup the detached driver does not see. *)
LEMMA DetachedCleanupStep ==
  ASSUME IInv, NEW o \in Objs, DetachedCleanup(o)
  PROVE  IInv'
  <1>1. TypeOK'
    BY DEF IInv, TypeOK, DetachedCleanup, oteVars, listenVars, freeVars
  <1>2. Files'
    BY DEF IInv, Files, DetachedCleanup, freeVars
  <1>3. Backed'
    BY DEF IInv, Backed, DetachedCleanup, Finds, oteVars, freeVars
  <1>4. Listed' /\ Accepting'
    BY DEF Listed, Accepting, DetachedCleanup, freeVars
  <1>5. Owned' /\ Entries' /\ Requested'
    BY DEF IInv, Owned, Entries, Requested, DetachedCleanup, oteVars,
       listenVars, freeVars
  <1> QED
    BY <1>1, <1>2, <1>3, <1>4, <1>5 DEF IInv

(* The detachment of the devices. *)
LEMMA DetachStep ==
  ASSUME IInv, d_n_d_device
  PROVE  IInv'
  <1>1. TypeOK'
    BY DEF IInv, TypeOK, d_n_d_device, oteVars, listenVars, tcpipVars
  <1>2. Entries'
    BY DEF IInv, Entries, d_n_d_device, oteVars
  <1>3. Files'
    BY DEF IInv, Files, d_n_d_device, tcpipVars
  <1>4. Backed'
    BY DEF IInv, Backed, d_n_d_device, Finds, oteVars, tcpipVars
  <1>5. Requested' /\ Listed' /\ Accepting'
    BY DEF Requested, Listed, Accepting, d_n_d_device
  <1>6. Owned'
    BY DEF IInv, Owned, d_n_d_device, oteVars, listenVars
  <1> QED
    BY <1>1, <1>2, <1>3, <1>4, <1>5, <1>6 DEF IInv

(* ot_free frees an entry without handlers. *)
LEMMA FreeObjectStep ==
  ASSUME IInv, NEW id \in Otes, ot_free_object(id)
  PROVE  IInv'
  <1>1. TypeOK'
    BY DelListenTyped DEF IInv, TypeOK, ot_free_object, tcpipVars, freeVars
  <1>2. Owned'
    BY DEF IInv, Owned, ot_free_object, del_listen_obj
  <1>3. Entries'
    BY DEF IInv, Owned, Entries, ot_free_object, del_listen_obj, freeVars
  <1>4. Files'
    BY DEF IInv, Files, ot_free_object, tcpipVars, freeVars
  <1>5. Backed'
    BY DEF IInv, Backed, ot_free_object, Finds, Unset, tcpipVars, freeVars
  <1>6. Requested' /\ Listed' /\ Accepting'
    BY DEF Requested, Listed, Accepting, ot_free_object, freeVars
  <1> QED
    BY <1>1, <1>2, <1>3, <1>4, <1>5, <1>6 DEF IInv

(* ot_free takes a handler out of its context and leaves the guard. *)
LEMMA FreeHandlerStep ==
  ASSUME IInv, NEW id \in Otes, NEW e \in Events, ot_free_handler(id, e)
  PROVE  IInv'
  <1>1. old_handler' \in [Otes -> [Events -> Handlers \cup {NULL}]]
    BY DEF IInv, TypeOK, ot_free_handler
  <1>2. TypeOK'
    BY <1>1 DEF IInv, TypeOK, Restores, ot_free_handler, listenVars,
       tcpipVars
  <1>3. Files'
    BY DEF IInv, Files, ot_free_handler, tcpipVars
  <1>4. Backed'
    BY ConstantsAssumption DEF IInv, TypeOK, Backed, ot_free_handler,
       Restores, Finds, tcpipVars
  <1>5. Requested' /\ Listed'
    BY DEF Requested, Listed, ot_free_handler
  <1>6. Owned' /\ Entries' /\ Accepting'
    BY DEF IInv, Owned, Entries, Accepting, ot_free_handler, listenVars
  <1> QED
    BY <1>2, <1>3, <1>4, <1>5, <1>6 DEF IInv

(* ot_free gives the handler back to tcpip.sys. *)
LEMMA FreeRestoreStep ==
  ASSUME IInv, ot_free_restore
  PROVE  IInv'
  <1>1. installed' \in [Objs -> [Events -> Otes \cup Handlers \cup {NULL}]]
    <2>1. restoring.obj \in Objs /\ restoring.event \in Events /\ restoring.handler \in Handlers
      BY DEF IInv, TypeOK, Restores, ot_free_restore
    <2>2. CASE installed' = [installed EXCEPT ![restoring.obj][restoring.event] = restoring.handler]
      BY <2>1, <2>2, NestedTyped DEF IInv, TypeOK
    <2>3. CASE UNCHANGED installed
      BY <2>3 DEF IInv, TypeOK
    <2> QED
      BY <2>2, <2>3 DEF ot_free_restore
  <1>2. lost' \subseteq Objs \X Events
    BY DEF IInv, TypeOK, Restores, ot_free_restore
  <1>3. TypeOK'
    BY <1>1, <1>2 DEF IInv, TypeOK, oteVars, listenVars, ot_free_restore
  <1>4. Files'
    BY DEF IInv, TypeOK, Files, ot_free_restore
  <1>5. Backed'
    BY ConstantsAssumption DEF IInv, TypeOK, Entries, Files, Backed,
       ot_free_restore, Requests, Restores, Finds, Unset, oteVars
  <1>6. Accepting'
    BY DEF IInv, Files, Accepting, ot_free_restore
  <1>7. Owned' /\ Entries' /\ Requested' /\ Listed'
    BY DEF IInv, Owned, Entries, Files, Requested, Listed, ot_free_restore,
       oteVars, listenVars
  <1> QED
    BY <1>3, <1>4, <1>5, <1>6, <1>7 DEF IInv

(* ot_free ends: no entry is left, and what tcpip.sys calls is the clients'. *)
LEMMA FreeClearStep ==
  ASSUME IInv, ot_free_clear
  PROVE  IInv'
  <1>1. TypeOK'
    BY DEF IInv, TypeOK, ot_free_clear, listenVars, tcpipVars
  <1>2. Owned'
    BY ConstantsAssumption DEF IInv, Owned, Entries, ot_free_clear,
       listenVars
  <1>3. Entries'
    BY DEF Entries, ot_free_clear
  <1>4. Files'
    BY DEF IInv, Files, ot_free_clear, tcpipVars
  <1>5. Backed'
    BY ConstantsAssumption DEF IInv, Backed, ot_free_clear, Finds, tcpipVars
  <1>6. Requested' /\ Listed' /\ Accepting'
    BY DEF Requested, Listed, Accepting, ot_free_clear
  <1> QED
    BY <1>1, <1>2, <1>3, <1>4, <1>5, <1>6 DEF IInv

-----------------------------------------------------------------------------
(* The initial states: no object, no listener, no handler. *)
LEMMA InitIInv == Init => IInv
  BY ConstantsAssumption
  DEF Init, IInv, TypeOK, Owned, Entries, Files, Backed, Requested, Listed, Accepting, Unset

(* A step of nothing keeps the invariant. *)
LEMMA StutterIInv == IInv /\ UNCHANGED vars => IInv'
  <1> SUFFICES ASSUME IInv, UNCHANGED vars PROVE IInv'
    OBVIOUS
  <1>1. TypeOK' /\ Owned' /\ Entries' /\ Files'
    BY DEF IInv, TypeOK, Owned, Entries, Files, vars, oteVars, listenVars, tcpipVars, freeVars
  <1>2. Backed' /\ Requested' /\ Listed' /\ Accepting'
    BY DEF IInv, Backed, Requested, Listed, Accepting, Finds,
           vars, oteVars, listenVars, tcpipVars, freeVars
  <1> QED
    BY <1>1, <1>2 DEF IInv

(* Every step keeps the invariant. *)
LEMMA NextIInv == IInv /\ [Next]_vars => IInv'
  <1> SUFFICES ASSUME IInv, [Next]_vars PROVE IInv'
    OBVIOUS
  <1>1. ASSUME NEW o \in Objs,
               \/ tdi_create(o) \/ tdi_create_addrobj_complete(o)
               \/ tdi_create_addrobj_complete2(o)
        PROVE  IInv'
    BY <1>1, CreateStep, CompleteStep, Complete2Step
  <1>2. ASSUME NEW o \in Objs, NEW e \in Events,
               \/ \E h \in Handlers : tdi_set_event_handler(o, e, h)
               \/ tdi_set_event_handler_remove(o, e)
        PROVE  IInv'
    BY <1>2, SetStep, RemoveStep
  <1>3. ASSUME NEW o \in Objs,
               TcpipSets(o) \/ tdi_cleanup(o) \/ TcpipCloses(o) \/ DetachedCleanup(o)
        PROVE  IInv'
    BY <1>3, TcpipSetsStep, CleanupStep, TcpipClosesStep, DetachedCleanupStep
  <1>4. CASE d_n_d_device
    BY <1>4, DetachStep
  <1>5. CASE ot_free
    BY <1>5, FreeObjectStep, FreeHandlerStep, FreeRestoreStep, FreeClearStep DEF ot_free
  <1>6. CASE UNCHANGED vars
    BY <1>6, StutterIInv
  <1> QED
    BY <1>1, <1>2, <1>3, <1>4, <1>5, <1>6 DEF Next

(* The invariant holds in every reachable state. *)
LEMMA Inductive == Spec => []IInv
  BY InitIInv, NextIInv, PTL DEF Spec

-----------------------------------------------------------------------------
(* What the invariant says of the properties of AddrObj.                   *)

(* Ownership block by block is ListenOwned. *)
LEMMA OwnedSuffices == IInv => ListenOwned
  <1> SUFFICES ASSUME IInv PROVE ListenOwned
    OBVIOUS
  <1>1. g_ot \subseteq Otes
    BY DEF IInv, TypeOK
  <1>2. g_listen = {listen_entry[id] : id \in g_ot} \ {NULL}
    BY <1>1, ConstantsAssumption DEF IInv, Owned
  <1> QED
    BY <1>1, <1>2 DEF IInv, Owned, ListenOwned

(* Backed handlers, before ot_free, are HandlersBacked. *)
LEMMA BackedSuffices == IInv => HandlersBacked
  BY DEF IInv, Backed, HandlersBacked

(* What is listed accepts, and what accepts is listed, once nothing is on its way. *)
LEMMA ListedSuffices == IInv => ListenTruth
  <1> SUFFICES ASSUME IInv, phase = "up" PROVE ListenTruth
    BY DEF ListenTruth
  <1>1. ASSUME NEW o \in Objs,
               installed[o][CONNECT] \in Otes, file[o] = "open", request[o] = NULL
        PROVE  listen_entry[installed[o][CONNECT]] # NULL
    <2>1. [event |-> CONNECT, handler |-> NULL] \in Requests
      BY ConstantsAssumption DEF Requests
    <2> QED
      BY <1>1, <2>1, ConstantsAssumption DEF IInv, Accepting
  <1> QED
    BY <1>1 DEF IInv, Listed, ListenTruth

(* Backed handlers, after ot_free, are HandlersRestored. *)
LEMMA BackedAtEnd == IInv => HandlersRestored
  <1> SUFFICES ASSUME IInv, phase = "freed", NEW o \in Objs, NEW e \in Events,
                      installed[o][e] \in Otes
               PROVE  \/ <<o, e>> \in lost
                      \/ file[o] = "closing"
                      \/ request[o] = [event |-> e, handler |-> NULL]
    BY DEF HandlersRestored
  <1>1. restoring = NULL /\ g_ot = {}
    BY DEF IInv, Files
  <1>2. \A h \in Handlers : restoring # [obj |-> o, event |-> e, handler |-> h]
    BY <1>1, ConstantsAssumption DEF Restores
  <1> QED
    BY <1>1, <1>2 DEF IInv, Backed, Finds

(* The object table, the listen table, tcpip.sys and ot_free keep their    *)
(* types.                                                                  *)
THEOREM TypeCorrect == Spec => []TypeOK
  BY Inductive, PTL DEF IInv

(* add_listen, del_listen_obj, ot_cleanup_ote, ot_del_fileobj and ot_free  *)
(* leave every listen_entry with exactly one owner.                        *)
THEOREM ListensAreOwned == Spec => []ListenOwned
  BY Inductive, OwnedSuffices, PTL

(* Behind every handler tdi_set_event_handler had installed stands its     *)
(* context, until its removal or the cleanup of its object is on its way.  *)
THEOREM HandlersAreBacked == Spec => []HandlersBacked
  BY Inductive, BackedSuffices, PTL

(* What the listen table lists is open and accepts, and what accepts is    *)
(* listed.                                                                 *)
THEOREM ListensTellTheTruth == Spec => []ListenTruth
  BY Inductive, ListedSuffices, PTL

(* After ot_free tcpip.sys calls the driver only where it got no IRP, or   *)
(* where a request that had passed the driver came after it.               *)
THEOREM HandlersAreRestored == Spec => []HandlersRestored
  BY Inductive, BackedAtEnd, PTL

-----------------------------------------------------------------------------
(* ImplementsHandlers, step by step.                                       *)

(* A CONNECT handler whose removal is on its way has left the context.     *)
Removals ==
  \A o \in Objs : request[o] = [event |-> CONNECT, handler |-> NULL] =>
    /\ ~Restoring(o, CONNECT)
    /\ \A id \in g_ot : fileobj[id] = o => old_handler[id][CONNECT] = NULL

(* So has a handler that is being given back.                              *)
Taken ==
  restoring # NULL =>
    \A id \in g_ot : Finds(restoring.obj, id) => old_handler[id][restoring.event] = NULL

(* Until then tcpip.sys calls no client itself.                            *)
Raw == phase = "up" => \A o \in Objs, e \in Events : installed[o][e] \notin Handlers

(* What is being created, or is closed, has no handlers in the table,      *)
(* unless it has been closed since the devices were detached.              *)
Fresh ==
  \A o \in Objs : file[o] = "creating" \/ (file[o] = "closed" /\ phase = "up") =>
    /\ restoring # NULL => restoring.obj # o
    /\ \A id \in g_ot : fileobj[id] = o => old_handler[id] = Unset

HInv == Removals /\ Taken /\ Raw /\ Fresh

Implements == [Seen!Next]_(Seen!vars)

(* What the mapping says of one object and event. *)
Knows(o, e) ==
  /\ Restoring(o, e) => KeptAt(o, e) = restoring.handler
  /\ ~Restoring(o, e) /\ Misses(o) => KeptAt(o, e) = NULL
  /\ ~Restoring(o, e) =>
       \A id \in g_ot : fileobj[id] = o => KeptAt(o, e) = old_handler[id][e]

KnowsAll == \A o \in Objs, e \in Events : Knows(o, e)

(* An object has one entry, so that the choice in KeptAt is none. *)
LEMMA KnowsIt == IInv => KnowsAll
  <1> SUFFICES ASSUME IInv, NEW o \in Objs, NEW e \in Events PROVE Knows(o, e)
    BY DEF KnowsAll
  <1>1. ASSUME NEW id \in g_ot, fileobj[id] = o PROVE (CHOOSE x \in g_ot : Finds(o, x)) = id
    <2>1. \A x \in g_ot : Finds(o, x) => x = id
      BY <1>1, ConstantsAssumption DEF IInv, Entries, Finds
    <2>2. Finds(o, id)
      BY <1>1 DEF Finds
    <2> QED BY <2>1, <2>2
  <1> QED BY <1>1 DEF Knows, KeptAt, Misses

(* Now and after a step. *)
LEMMA KeptIs == IInv => \A o \in Objs, e \in Events : Knows(o, e)
  BY KnowsIt DEF KnowsAll

LEMMA KeptIsNext == IInv' => \A o \in Objs, e \in Events : Knows(o, e)'
  <1>1. IInv' => KnowsAll'
    BY KnowsIt, PTL
  <1> QED BY <1>1 DEF KnowsAll

(* A table of handlers is known by its places. *)
IsTable(f) == f = [o \in Objs |-> [e \in Events |-> f[o][e]]]

LEMMA TableSame ==
  ASSUME NEW f, NEW g, IsTable(f), IsTable(g),
         \A p \in Objs, q \in Events : g[p][q] = f[p][q]
  PROVE  g = f
  <1>1. g = [o \in Objs |-> [e \in Events |-> f[o][e]]]
    BY DEF IsTable
  <1> QED BY <1>1 DEF IsTable

(* One row changes. *)
LEMMA TableRow ==
  ASSUME NEW f, NEW g, IsTable(f), IsTable(g), NEW o \in Objs,
         NEW r, r = [e \in Events |-> r[e]], \A q \in Events : g[o][q] = r[q],
         \A p \in Objs \ {o}, q \in Events : g[p][q] = f[p][q]
  PROVE  g = [f EXCEPT ![o] = r]
  <1> DEFINE x == [f EXCEPT ![o] = r]
  <1>1. IsTable(x)
    BY DEF IsTable
  <1>2. \A p \in Objs, q \in Events : g[p][q] = x[p][q]
    BY DEF IsTable
  <1> HIDE DEF x
  <1>3. g = x
    BY <1>1, <1>2, TableSame
  <1> QED BY <1>3 DEF x

(* One place changes. *)
LEMMA TablePlace ==
  ASSUME NEW f, NEW g, IsTable(f), IsTable(g), NEW o \in Objs, NEW e \in Events, NEW h,
         g[o][e] = h,
         \A p \in Objs, q \in Events : p # o \/ q # e => g[p][q] = f[p][q]
  PROVE  g = [f EXCEPT ![o][e] = h]
  <1> DEFINE r == [f[o] EXCEPT ![e] = h]
  <1>1. f[o] = [q \in Events |-> f[o][q]]
    BY DEF IsTable
  <1>2. r = [q \in Events |-> r[q]] /\ \A q \in Events : g[o][q] = r[q]
    BY <1>1
  <1> HIDE DEF r
  <1>3. g = [f EXCEPT ![o] = r]
    BY <1>2, TableRow
  <1> QED BY <1>3 DEF r

(* Both tables of the mapping are such tables, now and after a step. *)
LEMMA Tables ==
  /\ IsTable(Kept) /\ IsTable(Called) /\ IsTable(Kept') /\ IsTable(Called')
  /\ \A o \in Objs, e \in Events : Kept[o][e] = KeptAt(o, e) /\ Called[o][e] = CalledAt(o, e)
  /\ \A o \in Objs, e \in Events :
       Kept'[o][e] = KeptAt(o, e)' /\ Called'[o][e] = CalledAt(o, e)'
  <1>1. /\ \A o \in Objs, e \in Events : Kept[o][e] = KeptAt(o, e) /\ Called[o][e] = CalledAt(o, e)
        /\ IsTable(Kept) /\ IsTable(Called)
    BY DEF IsTable, Kept, Called
  <1>2. /\ \A o \in Objs, e \in Events :
             Kept'[o][e] = KeptAt(o, e)' /\ Called'[o][e] = CalledAt(o, e)'
        /\ IsTable(Kept') /\ IsTable(Called')
    BY DEF IsTable, Kept, Called
  <1> QED BY <1>1, <1>2

(* Where a step leaves a place as it is. *)
SameAt(o, e) == KeptAt(o, e)' = KeptAt(o, e) /\ CalledAt(o, e)' = CalledAt(o, e)

(* One place of a table of the mapping changes. *)
LEMMA KeptPlace ==
  ASSUME NEW o \in Objs, NEW e \in Events,
         \A p \in Objs, q \in Events : p # o \/ q # e => SameAt(p, q)
  PROVE  Kept' = [Kept EXCEPT ![o][e] = KeptAt(o, e)']
  <1>1. \A p \in Objs, q \in Events : p # o \/ q # e => Kept'[p][q] = Kept[p][q]
    BY Tables DEF SameAt
  <1>2. IsTable(Kept) /\ IsTable(Kept') /\ Kept'[o][e] = KeptAt(o, e)'
    BY Tables
  <1> QED BY <1>1, <1>2, TablePlace

(* So for the handlers that are called. *)
LEMMA CalledPlace ==
  ASSUME NEW o \in Objs, NEW e \in Events,
         \A p \in Objs, q \in Events : p # o \/ q # e => SameAt(p, q)
  PROVE  Called' = [Called EXCEPT ![o][e] = CalledAt(o, e)']
  <1>1. \A p \in Objs, q \in Events : p # o \/ q # e => Called'[p][q] = Called[p][q]
    BY Tables DEF SameAt
  <1>2. IsTable(Called) /\ IsTable(Called') /\ Called'[o][e] = CalledAt(o, e)'
    BY Tables
  <1> QED BY <1>1, <1>2, TablePlace

(* A step of the table, place by place. *)
LEMMA Stutters ==
  ASSUME \A p \in Objs, q \in Events : SameAt(p, q), (phase' # "up") = (phase # "up")
  PROVE  Implements
  <1>1. Kept' = Kept /\ Called' = Called
    BY Tables, TableSame DEF SameAt
  <1> QED BY <1>1 DEF Implements, Seen!vars

(* The rows of one object change. *)
LEMMA KeptRow ==
  ASSUME NEW o \in Objs, \A p \in Objs \ {o}, q \in Events : SameAt(p, q),
         NEW r, r = [q \in Events |-> r[q]], \A q \in Events : KeptAt(o, q)' = r[q]
  PROVE  Kept' = [Kept EXCEPT ![o] = r]
  <1>1. \A p \in Objs \ {o}, q \in Events : Kept'[p][q] = Kept[p][q]
    BY Tables DEF SameAt
  <1>2. IsTable(Kept) /\ IsTable(Kept') /\ \A q \in Events : Kept'[o][q] = r[q]
    BY Tables
  <1> QED BY <1>1, <1>2, TableRow

LEMMA CalledRow ==
  ASSUME NEW o \in Objs, \A p \in Objs \ {o}, q \in Events : SameAt(p, q),
         NEW r, r = [q \in Events |-> r[q]], \A q \in Events : CalledAt(o, q)' = r[q]
  PROVE  Called' = [Called EXCEPT ![o] = r]
  <1>1. \A p \in Objs \ {o}, q \in Events : Called'[p][q] = Called[p][q]
    BY Tables DEF SameAt
  <1>2. IsTable(Called) /\ IsTable(Called') /\ \A q \in Events : Called'[o][q] = r[q]
    BY Tables
  <1> QED BY <1>1, <1>2, TableRow

LEMMA UnsetRow == Seen!Unset = [q \in Events |-> Seen!Unset[q]]
                  /\ \A q \in Events : Seen!Unset[q] = NULL
  BY DEF Seen!Unset

(* A client closes an object. *)
LEMMA Closes ==
  ASSUME NEW o \in Objs, \A p \in Objs \ {o}, q \in Events : SameAt(p, q),
         phase = "up", phase' = "up",
         \A q \in Events : KeptAt(o, q)' = NULL,
         \A q \in Events : CalledAt(o, q)' = IF CalledAt(o, q) = NULL THEN NULL ELSE Bugcheck
  PROVE  Implements
  <1> DEFINE row == [q \in Events |-> IF Called[o][q] = NULL THEN NULL ELSE Bugcheck]
  <1>1. Kept' = [Kept EXCEPT ![o] = Seen!Unset]
    BY UnsetRow, KeptRow
  <1>2. row = [q \in Events |-> row[q]] /\ \A q \in Events : CalledAt(o, q)' = row[q]
    BY Tables
  <1> HIDE DEF row
  <1>3. Called' = [Called EXCEPT ![o] = row]
    BY <1>2, CalledRow
  <1>4. Seen!Close(o)
    BY <1>1, <1>3 DEF Seen!Close, row
  <1> QED BY <1>4 DEF Implements, Seen!Next

(* tcpip.sys has closed it. *)
LEMMA HasClosed ==
  ASSUME NEW o \in Objs, \A p \in Objs \ {o}, q \in Events : SameAt(p, q),
         (phase' # "up") = (phase # "up"),
         \A q \in Events : CalledAt(o, q)' = NULL,
         \A q \in Events : KeptAt(o, q)' = KeptAt(o, q)
  PROVE  Implements
  <1>1. Called' = [Called EXCEPT ![o] = Seen!Unset]
    BY UnsetRow, CalledRow
  <1>2. \A p \in Objs, q \in Events : Kept'[p][q] = Kept[p][q]
    BY Tables DEF SameAt
  <1>3. Kept' = Kept
    BY <1>2, Tables, TableSame
  <1> QED BY <1>1, <1>3 DEF Implements, Seen!Next, Seen!Closed

(* A client sets a handler. *)
LEMMA Asks ==
  ASSUME NEW o \in Objs, NEW e \in Events, NEW h \in Handlers,
         phase = "up", phase' = "up",
         \A p \in Objs, q \in Events : p # o \/ q # e => SameAt(p, q),
         KeptAt(o, e)' = h, CalledAt(o, e)' \in {CalledAt(o, e), h}
  PROVE  Implements
  <1>1. Kept' = [Kept EXCEPT ![o][e] = h]
    BY KeptPlace
  <1>2. CASE CalledAt(o, e)' = CalledAt(o, e)
    <2>1. \A p \in Objs, q \in Events : Called'[p][q] = Called[p][q]
      BY <1>2, Tables DEF SameAt
    <2>2. Called' = Called
      BY <2>1, Tables, TableSame
    <2> QED BY <1>1, <2>2 DEF Implements, Seen!Next, Seen!Ask
  <1>3. CASE CalledAt(o, e)' = h
    <2>1. Called' = [Called EXCEPT ![o][e] = h]
      BY <1>3, CalledPlace
    <2> QED BY <1>1, <2>1 DEF Implements, Seen!Next, Seen!Ask
  <1> QED BY <1>2, <1>3

(* A client removes one. *)
LEMMA Removes ==
  ASSUME NEW o \in Objs, NEW e \in Events,
         phase = "up", phase' = "up",
         \A p \in Objs, q \in Events : p # o \/ q # e => SameAt(p, q),
         KeptAt(o, e)' = NULL,
         CalledAt(o, e)' = IF CalledAt(o, e) = NULL THEN NULL ELSE Bugcheck
  PROVE  Implements
  <1>1. Kept' = [Kept EXCEPT ![o][e] = NULL]
    BY KeptPlace
  <1> DEFINE c == IF Called[o][e] = NULL THEN NULL ELSE Bugcheck
  <1>2. CalledAt(o, e)' = c
    BY Tables
  <1> HIDE DEF c
  <1>3. Called' = [Called EXCEPT ![o][e] = c]
    BY <1>2, CalledPlace
  <1>4. Seen!Remove(o, e)
    BY <1>1, <1>3 DEF Seen!Remove, c
  <1> QED BY <1>4 DEF Implements, Seen!Next

LEMMA Takes ==
  ASSUME NEW o \in Objs, NEW e \in Events, (phase' # "up") = (phase # "up"),
         \A p \in Objs, q \in Events : p # o \/ q # e => SameAt(p, q),
         KeptAt(o, e)' = KeptAt(o, e),
         CalledAt(o, e)' = KeptAt(o, e) \/ (e # CONNECT /\ CalledAt(o, e)' = NULL)
  PROVE  Implements
  <1>1. Kept' = Kept
    <2>1. \A p \in Objs, q \in Events : Kept'[p][q] = Kept[p][q]
      BY Tables DEF SameAt
    <2> QED BY <2>1, Tables, TableSame
  <1>2. CASE CalledAt(o, e)' = KeptAt(o, e)
    <2>1. Called' = [Called EXCEPT ![o][e] = Kept[o][e]]
      BY <1>2, CalledPlace, Tables
    <2> QED BY <1>1, <2>1 DEF Implements, Seen!Next, Seen!Take
  <1>3. CASE e # CONNECT /\ CalledAt(o, e)' = NULL
    <2>1. Called' = [Called EXCEPT ![o][e] = NULL]
      BY <1>3, CalledPlace
    <2> QED BY <1>1, <1>3, <2>1 DEF Implements, Seen!Next, Seen!Drop
  <1> QED BY <1>2, <1>3

(* The driver is called with nothing to call. *)
LEMMA IsMissed ==
  ASSUME NEW o \in Objs, NEW e \in Events, phase # "up", phase' # "up",
         \A p \in Objs, q \in Events : p # o \/ q # e => SameAt(p, q),
         KeptAt(o, e)' = KeptAt(o, e),
         CalledAt(o, e)' \in {CalledAt(o, e), Bugcheck}
  PROVE  Implements
  <1>1. \A p \in Objs, q \in Events : Kept'[p][q] = Kept[p][q]
    BY Tables DEF SameAt
  <1>2. Kept' = Kept
    BY <1>1, Tables, TableSame
  <1>3. CASE CalledAt(o, e)' = CalledAt(o, e)
    <2>1. \A p \in Objs, q \in Events : Called'[p][q] = Called[p][q]
      BY <1>3, Tables DEF SameAt
    <2>2. Called' = Called
      BY <2>1, Tables, TableSame
    <2> QED BY <1>2, <2>2 DEF Implements, Seen!vars
  <1>4. CASE CalledAt(o, e)' = Bugcheck
    <2>1. Called' = [Called EXCEPT ![o][e] = Bugcheck]
      BY <1>4, CalledPlace
    <2> QED BY <1>2, <2>1 DEF Implements, Seen!Next, Seen!Miss
  <1> QED BY <1>3, <1>4

LEMMA GivesBack ==
  ASSUME NEW o \in Objs, NEW e \in Events, phase # "up", phase' # "up",
         \A p \in Objs, q \in Events : p # o \/ q # e => SameAt(p, q),
         KeptAt(o, e)' = NULL,
         CalledAt(o, e)' \in {KeptAt(o, e), CalledAt(o, e)}
  PROVE  Implements
  <1>1. Kept' = [Kept EXCEPT ![o][e] = NULL]
    BY KeptPlace
  <1>2. CASE CalledAt(o, e)' = KeptAt(o, e)
    <2>1. Called' = [Called EXCEPT ![o][e] = Kept[o][e]]
      BY <1>2, CalledPlace, Tables
    <2> QED BY <1>1, <2>1 DEF Implements, Seen!Next, Seen!Restore
  <1>3. CASE CalledAt(o, e)' = CalledAt(o, e)
    <2>1. \A p \in Objs, q \in Events : Called'[p][q] = Called[p][q]
      BY <1>3, Tables DEF SameAt
    <2>2. Called' = Called
      BY <2>1, Tables, TableSame
    <2> QED BY <1>1, <2>2 DEF Implements, Seen!Next, Seen!Lose
  <1> QED BY <1>2, <1>3

-----------------------------------------------------------------------------
(* One lemma per action, or per group of actions alike to the clients.     *)

(* Where an entry, its handler and what goes back are as before.           *)
LEMMA KeptSame ==
  ASSUME IInv, IInv', NEW o \in Objs, NEW e \in Events, restoring' = restoring,
         \/ Misses(o) /\ Misses(o)'
         \/ \E id \in g_ot : /\ id \in g_ot' /\ fileobj[id] = o /\ fileobj'[id] = o
                             /\ old_handler'[id][e] = old_handler[id][e]
  PROVE  KeptAt(o, e)' = KeptAt(o, e)
  <1>1. Knows(o, e) /\ Knows(o, e)' /\ Restoring(o, e)' = Restoring(o, e)
    BY KeptIs, KeptIsNext DEF Restoring
  <1>2. CASE Restoring(o, e)
    BY <1>1, <1>2 DEF Knows
  <1>3. CASE ~Restoring(o, e) /\ Misses(o) /\ Misses(o)'
    BY <1>1, <1>3 DEF Knows
  <1>4. CASE /\ ~Restoring(o, e)
             /\ \E id \in g_ot : /\ id \in g_ot' /\ fileobj[id] = o /\ fileobj'[id] = o
                                 /\ old_handler'[id][e] = old_handler[id][e]
    BY <1>1, <1>4 DEF Knows
  <1> QED BY <1>2, <1>3, <1>4

(* Where what tcpip.sys calls, and the object's entry, are as before.      *)
LEMMA CalledSame ==
  ASSUME NEW o \in Objs, NEW e \in Events, installed'[o][e] = installed[o][e],
         \A x \in Otes :
           /\ (x \in g_ot' /\ fileobj'[x] = o) <=> (x \in g_ot /\ fileobj[x] = o)
           /\ x \in g_ot /\ fileobj[x] = o => old_handler'[x][e] = old_handler[x][e]
  PROVE  CalledAt(o, e)' = CalledAt(o, e)
  <1>1. CASE installed[o][e] \notin Otes
    BY <1>1 DEF CalledAt
  <1>2. CASE installed[o][e] \in Otes
    BY <1>2 DEF CalledAt, Finds
  <1> QED BY <1>1, <1>2

(* An event gets nothing exactly where tcpip.sys has no handler.           *)
LEMMA CalledNone ==
  \A o \in Objs, e \in Events : CalledAt(o, e) = NULL <=> installed[o][e] = NULL
  <1>1. Bugcheck # NULL /\ NULL \notin Otes
    BY ConstantsAssumption
  <1> QED BY <1>1 DEF CalledAt

(* Also after a step. *)
LEMMA CalledNoneNext ==
  \A o \in Objs, e \in Events : CalledAt(o, e)' = NULL <=> installed'[o][e] = NULL
  <1>1. Bugcheck # NULL /\ NULL \notin Otes
    BY ConstantsAssumption
  <1> QED BY <1>1 DEF CalledAt

(* An object that is fresh keeps nothing. *)
LEMMA FreshKeeps ==
  IInv /\ Fresh =>
    \A o \in Objs, e \in Events :
      file[o] = "creating" \/ (file[o] = "closed" /\ phase = "up") => KeptAt(o, e) = NULL
  <1> SUFFICES ASSUME IInv, Fresh, NEW o \in Objs, NEW e \in Events,
                      file[o] = "creating" \/ (file[o] = "closed" /\ phase = "up")
               PROVE  KeptAt(o, e) = NULL
    OBVIOUS
  <1>1. Knows(o, e) /\ ~Restoring(o, e)
    BY KeptIs DEF Fresh, Restoring
  <1> QED BY <1>1 DEF Knows, Misses, Fresh, Unset

(* Steps on the listen table and on queries are none of the clients'.      *)
LEMMA ListeningImplements ==
  ASSUME UNCHANGED <<g_ot, fileobj, old_handler, file, request, installed, restoring, phase>>,
         HInv
  PROVE  Implements /\ HInv'
  <1>1. \A p \in Objs, q \in Events : SameAt(p, q)
    BY DEF SameAt, KeptAt, CalledAt, Restoring, Misses, Finds
  <1>2. HInv'
    BY DEF HInv, Removals, Restoring, Taken, Raw, Fresh, Finds
  <1> QED BY <1>1, <1>2, Stutters

(* A create gives the object an empty context. *)
LEMMA CreateImplements ==
  ASSUME IInv, IInv', HInv, NEW o \in Objs, tdi_create(o) PROVE Implements /\ HInv'
  <1>1. /\ phase = "up" /\ file[o] = "closed" /\ request[o] = NULL /\ restoring = NULL
        /\ installed[o] = Unset
        /\ \A p \in Objs \ {o} : file'[p] = file[p]
        /\ UNCHANGED <<queries, request, installed, restoring, lost, phase>>
    BY DEF tdi_create, IInv, TypeOK, Files, freeVars
  <1>2. PICK id \in Otes, proto \in {"tcp", "udp"} : ot_add_fileobj(o, id, proto)
    BY DEF tdi_create
  <1>3. /\ g_ot' = g_ot \cup {id} /\ fileobj'[id] = o /\ old_handler'[id] = Unset
        /\ \A x \in Otes \ {id} : fileobj'[x] = fileobj[x] /\ old_handler'[x] = old_handler[x]
        /\ id \in g_ot => fileobj[id] = o
        /\ g_ot \subseteq Otes
    BY <1>2 DEF ot_add_fileobj, Finds, Zeroed, IInv, TypeOK
  <1>4. \A x \in g_ot' : fileobj'[x] = o => old_handler'[x] = Unset
    <2>1. Entries' /\ id \in g_ot' /\ o # NULL
      BY <1>3, ConstantsAssumption DEF IInv
    <2> QED BY <2>1, <1>3 DEF Entries
  <1>5. ASSUME NEW p \in Objs \ {o}, NEW q \in Events PROVE SameAt(p, q)
    <2>1. \A x \in Otes :
            /\ (x \in g_ot' /\ fileobj'[x] = p) <=> (x \in g_ot /\ fileobj[x] = p)
            /\ x \in g_ot /\ fileobj[x] = p => old_handler'[x] = old_handler[x]
      BY <1>3
    <2>2. Misses(p) => Misses(p)'
      BY <1>3 DEF Misses
    <2>3. KeptAt(p, q)' = KeptAt(p, q)
      BY <2>1, <2>2, <1>1, <1>3, KeptSame DEF Misses
    <2>4. CalledAt(p, q)' = CalledAt(p, q)
      BY <2>1, <1>1, CalledSame
    <2> QED BY <2>3, <2>4 DEF SameAt
  <1>6. ASSUME NEW q \in Events PROVE SameAt(o, q)
    <2>1. CalledAt(o, q)' = NULL /\ CalledAt(o, q) = NULL
      BY <1>1, CalledNone, CalledNoneNext DEF Unset
    <2>2. Knows(o, q)' /\ ~Restoring(o, q)' /\ id \in g_ot' /\ fileobj'[id] = o
      BY <1>1, <1>3, KeptIsNext DEF Restoring
    <2>3. KeptAt(o, q)' = NULL
      BY <2>2, <1>3 DEF Knows, Unset
    <2>4. KeptAt(o, q) = NULL
      BY <1>1, FreshKeeps DEF HInv
    <2> QED BY <2>1, <2>3, <2>4 DEF SameAt
  <1>7. Implements
    BY <1>1, <1>5, <1>6, Stutters
  <1>8. Fresh'
    <2>1. ASSUME NEW p \in Objs \ {o}, NEW x \in g_ot', fileobj'[x] = p
          PROVE  x \in g_ot /\ fileobj[x] = p /\ old_handler'[x] = old_handler[x]
      BY <2>1, <1>3
    <2> QED BY <2>1, <1>1, <1>4 DEF HInv, Fresh
  <1>9. Removals'
    <2>1. \A p \in Objs : request'[p] = [event |-> CONNECT, handler |-> NULL] =>
                            p # o /\ request[p] = request'[p]
      BY <1>1, ConstantsAssumption DEF Requests
    <2>2. \A p \in Objs \ {o}, x \in g_ot' : fileobj'[x] = p =>
            x \in g_ot /\ fileobj[x] = p /\ old_handler'[x] = old_handler[x]
      BY <1>3
    <2> QED BY <2>1, <2>2, <1>1 DEF HInv, Removals, Restoring
  <1>10. Taken' /\ Raw'
    BY <1>1 DEF Taken, Raw, HInv
  <1> QED BY <1>7, <1>8, <1>9, <1>10 DEF HInv

(* The entry of an object goes, or none does: what a create that has       *)
(* completed, and a cleanup, do to the table.                              *)
LEMMA EntryGoes ==
  ASSUME IInv, IInv', HInv, NEW o \in Objs,
         ot_del_fileobj(o) \/ UNCHANGED <<oteVars, listenVars>>,
         UNCHANGED <<request, installed, freeVars>>
  PROVE  /\ \A p \in Objs \ {o}, q \in Events : SameAt(p, q)
         /\ g_ot' \subseteq g_ot
         /\ \A x \in g_ot' : fileobj'[x] = fileobj[x] /\ old_handler'[x] = old_handler[x]
         /\ Misses(o)' \/ UNCHANGED <<g_ot, fileobj, old_handler>>
         /\ Removals' /\ Taken' /\ Raw'
  <1>1. /\ request' = request /\ installed' = installed
        /\ restoring' = restoring /\ phase' = phase /\ g_ot \subseteq Otes
    BY DEF freeVars, IInv, TypeOK
  <1>2. /\ g_ot' \subseteq g_ot
        /\ \A x \in g_ot' : fileobj'[x] = fileobj[x] /\ old_handler'[x] = old_handler[x]
        /\ \A x \in g_ot : fileobj[x] # o => x \in g_ot'
        /\ Misses(o)' \/ UNCHANGED <<g_ot, fileobj, old_handler>>
    <2>1. CASE UNCHANGED <<oteVars, listenVars>>
      BY <2>1, <1>1 DEF oteVars
    <2>2. ASSUME NEW id \in g_ot, Finds(o, id), Freed(id)
          PROVE  /\ g_ot' = g_ot \ {id} /\ fileobj[id] = o
                 /\ \A x \in Otes \ {id} :
                      fileobj'[x] = fileobj[x] /\ old_handler'[x] = old_handler[x]
                 /\ \A x \in g_ot : fileobj[x] = o => x = id
      BY <2>2, <1>1, ConstantsAssumption DEF Freed, Finds, IInv, TypeOK, Entries
    <2>3. CASE \E id \in g_ot : Finds(o, id) /\ Freed(id)
      <3>1. PICK id \in g_ot : Finds(o, id) /\ Freed(id)
        BY <2>3
      <3>2. Misses(o)'
        BY <2>2, <3>1, <1>1 DEF Misses
      <3> QED BY <2>2, <3>1, <3>2, <1>1
    <2> QED BY <2>1, <2>3 DEF ot_del_fileobj
  <1>3. ASSUME NEW p \in Objs \ {o}, NEW q \in Events PROVE SameAt(p, q)
    <2>1. \A x \in Otes :
            /\ (x \in g_ot' /\ fileobj'[x] = p) <=> (x \in g_ot /\ fileobj[x] = p)
            /\ x \in g_ot /\ fileobj[x] = p => old_handler'[x] = old_handler[x]
      BY <1>2
    <2>2. Misses(p) => Misses(p)'
      BY <1>2 DEF Misses
    <2>3. KeptAt(p, q)' = KeptAt(p, q)
      BY <2>1, <2>2, <1>1, <1>2, KeptSame DEF Misses
    <2>4. CalledAt(p, q)' = CalledAt(p, q)
      BY <2>1, <1>1, CalledSame
    <2> QED BY <2>3, <2>4 DEF SameAt
  <1>5. Removals'
    BY <1>1, <1>2 DEF HInv, Removals, Restoring
  <1>6. Taken' /\ Raw'
    BY <1>1, <1>2 DEF HInv, Taken, Raw, Finds
  <1> QED BY <1>2, <1>3, <1>5, <1>6

(* A create completes: there are no handlers yet. *)
LEMMA CompleteImplements ==
  ASSUME IInv, IInv', HInv, NEW o \in Objs, tdi_create_addrobj_complete(o)
  PROVE  Implements /\ HInv'
  <1>1. /\ file[o] = "creating" /\ installed[o] = Unset
        /\ \A p \in Objs \ {o} : file'[p] = file[p]
        /\ UNCHANGED <<request, installed, restoring, phase>>
        /\ ot_del_fileobj(o) \/ UNCHANGED <<oteVars, listenVars>>
    BY DEF tdi_create_addrobj_complete, IInv, TypeOK, Files, freeVars
  <1>2. /\ \A p \in Objs \ {o}, q \in Events : SameAt(p, q)
        /\ g_ot' \subseteq g_ot
        /\ \A x \in g_ot' : fileobj'[x] = fileobj[x] /\ old_handler'[x] = old_handler[x]
        /\ Misses(o)' \/ UNCHANGED <<g_ot, fileobj, old_handler>>
        /\ Removals' /\ Taken' /\ Raw'
    BY <1>1, EntryGoes DEF tdi_create_addrobj_complete
  <1>3. /\ restoring # NULL => restoring.obj # o
        /\ \A x \in g_ot : fileobj[x] = o => old_handler[x] = Unset
    BY <1>1 DEF HInv, Fresh
  <1>4. ASSUME NEW q \in Events PROVE SameAt(o, q)
    <2>1. CalledAt(o, q)' = NULL /\ CalledAt(o, q) = NULL
      BY <1>1, CalledNone, CalledNoneNext DEF Unset
    <2>2. Knows(o, q)' /\ ~Restoring(o, q)'
      BY <1>1, <1>3, KeptIsNext DEF Restoring
    <2>3. \A x \in g_ot' : fileobj'[x] = o => old_handler'[x][q] = NULL
      BY <1>2, <1>3 DEF Unset
    <2>4. KeptAt(o, q)' = NULL
      BY <2>2, <2>3 DEF Knows, Misses
    <2>5. KeptAt(o, q) = NULL
      BY <1>1, FreshKeeps DEF HInv
    <2> QED BY <2>1, <2>4, <2>5 DEF SameAt
  <1>5. Implements
    BY <1>1, <1>2, <1>4, Stutters
  <1>6. Fresh'
    BY <1>1, <1>2, <1>3 DEF HInv, Fresh
  <1> QED BY <1>2, <1>5, <1>6 DEF HInv

(* A cleanup: tcpip.sys may call the driver still, which has forgotten the *)
(* object.                                                                 *)
LEMMA CleanupImplements ==
  ASSUME IInv, IInv', HInv, NEW o \in Objs, tdi_cleanup(o) PROVE Implements /\ HInv'
  <1>1. /\ phase = "up" /\ file'[o] = "closing" /\ restoring = NULL
        /\ \A p \in Objs \ {o} : file'[p] = file[p]
        /\ UNCHANGED <<request, installed, restoring, phase>>
        /\ ot_del_fileobj(o)
    BY DEF tdi_cleanup, IInv, TypeOK, Files, freeVars
  <1>2. /\ \A p \in Objs \ {o}, q \in Events : SameAt(p, q)
        /\ g_ot' \subseteq g_ot
        /\ \A x \in g_ot' : fileobj'[x] = fileobj[x] /\ old_handler'[x] = old_handler[x]
        /\ Removals' /\ Taken' /\ Raw'
    BY <1>1, EntryGoes DEF tdi_cleanup
  <1>3. Misses(o)'
    <2>1. \A x \in g_ot' : file'[fileobj'[x]] # "closing"
      BY <1>1 DEF IInv, Files
    <2> QED BY <2>1, <1>1 DEF Misses
  <1>4. ASSUME NEW q \in Events PROVE KeptAt(o, q)' = NULL
    BY <1>1, <1>3, KeptIsNext DEF Knows, Restoring
  <1>5. ASSUME NEW q \in Events
        PROVE  CalledAt(o, q)' = IF CalledAt(o, q) = NULL THEN NULL ELSE Bugcheck
    <2>1. CASE installed[o][q] = NULL
      BY <2>1, <1>1, CalledNone, CalledNoneNext
    <2>2. CASE installed[o][q] # NULL
      <3>1. installed[o][q] \in Otes
        BY <2>2, <1>1 DEF HInv, Raw, IInv, TypeOK
      <3>2. CalledAt(o, q)' = Bugcheck
        BY <3>1, <1>1, <1>3 DEF CalledAt, Finds, Misses
      <3>3. CalledAt(o, q) # NULL
        BY <2>2, CalledNone
      <3> QED BY <3>2, <3>3
    <2> QED BY <2>1, <2>2
  <1>6. Implements
    BY <1>1, <1>2, <1>4, <1>5, Closes
  <1>7. Fresh'
    BY <1>1, <1>2 DEF HInv, Fresh
  <1> QED BY <1>2, <1>6, <1>7 DEF HInv

(* A cleanup the driver does not see leaves the entry to ot_free.          *)
LEMMA DetachedCleanupImplements ==
  ASSUME HInv, IInv, NEW o \in Objs, DetachedCleanup(o) PROVE Implements /\ HInv'
  <1>1. /\ phase = "freeing" /\ file'[o] = "closing"
        /\ \A p \in Objs \ {o} : file'[p] = file[p]
        /\ UNCHANGED <<g_ot, fileobj, old_handler, request, installed, restoring, phase>>
    BY DEF DetachedCleanup, oteVars, freeVars, IInv, TypeOK
  <1>2. \A p \in Objs, q \in Events : SameAt(p, q)
    BY <1>1 DEF SameAt, KeptAt, CalledAt, Restoring, Misses, Finds
  <1>3. HInv'
    BY <1>1 DEF HInv, Removals, Restoring, Taken, Raw, Fresh, Finds
  <1> QED BY <1>1, <1>2, <1>3, Stutters

(* What tcpip.sys has closed reaches no handler any more. *)
LEMMA TcpipClosesImplements ==
  ASSUME IInv, HInv, NEW o \in Objs, TcpipCloses(o) PROVE Implements /\ HInv'
  <1>1. /\ file[o] = "closing" /\ file'[o] = "closed" /\ installed'[o] = Unset
        /\ \A p \in Objs \ {o} : file'[p] = file[p] /\ installed'[p] = installed[p]
        /\ UNCHANGED <<g_ot, fileobj, old_handler, request, restoring, phase>>
    BY DEF TcpipCloses, oteVars, IInv, TypeOK, Files
  <1>2. ASSUME NEW p \in Objs, NEW q \in Events PROVE KeptAt(p, q)' = KeptAt(p, q)
    BY <1>1 DEF KeptAt, Restoring, Misses, Finds
  <1>3. ASSUME NEW p \in Objs \ {o}, NEW q \in Events PROVE SameAt(p, q)
    BY <1>1, <1>2 DEF SameAt, CalledAt, Finds
  <1>4. ASSUME NEW q \in Events PROVE CalledAt(o, q)' = NULL
    BY <1>1, CalledNoneNext DEF Unset
  <1>5. Implements
    BY <1>1, <1>2, <1>3, <1>4, HasClosed
  <1>6. Removals' /\ Taken'
    BY <1>1 DEF HInv, Removals, Restoring, Taken, Finds
  <1>7. Raw'
    BY <1>1, ConstantsAssumption DEF HInv, Raw, Unset
  <1>8. Fresh'
    <2>1. phase = "up" => restoring = NULL /\ \A x \in g_ot : fileobj[x] # o
      BY <1>1 DEF IInv, Files
    <2> QED BY <2>1, <1>1 DEF HInv, Fresh
  <1> QED BY <1>5, <1>6, <1>7, <1>8 DEF HInv

(* A client sets a handler: the context has it, and the request goes on    *)
(* with that context, without a handler, or not at all.                    *)
LEMMA SetImplements ==
  ASSUME IInv, IInv', HInv, NEW o \in Objs, NEW e \in Events, NEW h \in Handlers,
         tdi_set_event_handler(o, e, h)
  PROVE  Implements /\ HInv'
  <1>1. PICK id \in g_ot :
          /\ Finds(o, id)
          /\ old_handler' = [old_handler EXCEPT ![id][e] = h]
          /\ request' = request \/ \E handler \in {id, NULL} :
               /\ e = CONNECT => handler = id
               /\ request' = [request EXCEPT ![o] = [event |-> e, handler |-> handler]]
    BY DEF tdi_set_event_handler
  <1>2. /\ phase = "up" /\ request[o] = NULL /\ restoring = NULL /\ g_ot \subseteq Otes
        /\ file[o] = "open"
        /\ UNCHANGED <<g_ot, fileobj, file, installed, restoring, phase>>
    BY DEF tdi_set_event_handler, ClientMaySet, freeVars, IInv, TypeOK, Files
  <1>3. /\ fileobj[id] = o /\ old_handler'[id][e] = h
        /\ \A q \in Events \ {e} : old_handler'[id][q] = old_handler[id][q]
        /\ \A x \in Otes \ {id} : old_handler'[x] = old_handler[x]
    BY <1>1, <1>2 DEF Finds, IInv, TypeOK
  <1>4. \A p \in Objs : p # o => request'[p] = request[p]
    BY <1>1 DEF IInv, TypeOK
  <1>5. \A x \in g_ot : fileobj[x] = o => x = id
    BY <1>3, ConstantsAssumption DEF IInv, Entries
  <1>6. ASSUME NEW p \in Objs, NEW q \in Events, p # o \/ q # e PROVE SameAt(p, q)
    <2>1. \A x \in g_ot : fileobj[x] = p => old_handler'[x][q] = old_handler[x][q]
      BY <1>2, <1>3, <1>6
    <2>2. KeptAt(p, q)' = KeptAt(p, q)
      BY <2>1, <1>2, KeptSame DEF Misses
    <2>3. CalledAt(p, q)' = CalledAt(p, q)
      BY <2>1, <1>2, CalledSame
    <2> QED BY <2>2, <2>3 DEF SameAt
  <1>7. KeptAt(o, e)' = h
    <2>1. Knows(o, e)' /\ ~Restoring(o, e)' /\ id \in g_ot' /\ fileobj'[id] = o
      BY <1>2, <1>3, KeptIsNext DEF Restoring
    <2> QED BY <2>1, <1>3 DEF Knows
  <1>8. CalledAt(o, e)' \in {CalledAt(o, e), h}
    <2>0. h # NULL
      BY ConstantsAssumption
    <2>1. CASE installed[o][e] = id
      BY <2>0, <2>1, <1>2, <1>3 DEF CalledAt, Finds
    <2>2. CASE installed[o][e] \in Otes \ {id}
      <3>1. ~Finds(o, installed[o][e])
        BY <2>2, <1>5 DEF Finds
      <3> QED BY <3>1, <2>2, <1>2 DEF CalledAt, Finds
    <2>3. CASE installed[o][e] \notin Otes
      BY <2>3, <1>2 DEF CalledAt
    <2> QED BY <2>1, <2>2, <2>3
  <1>9. Implements
    BY <1>2, <1>6, <1>7, <1>8, Asks
  <1>10. Fresh'
    <2>1. \A p \in Objs, x \in g_ot : p # o /\ fileobj[x] = p => old_handler'[x] = old_handler[x]
      BY <1>2, <1>3
    <2> QED BY <2>1, <1>2 DEF HInv, Fresh
  <1>11. Removals'
    <2>1. ASSUME NEW p \in Objs, request'[p] = [event |-> CONNECT, handler |-> NULL]
          PROVE  p # o
      <3>1. SUFFICES ASSUME p = o PROVE FALSE
        OBVIOUS
      <3>2. request'[o] # NULL
        BY <2>1, <3>1, ConstantsAssumption DEF Requests
      <3>3. PICK handler \in {id, NULL} :
              /\ e = CONNECT => handler = id
              /\ request' = [request EXCEPT ![o] = [event |-> e, handler |-> handler]]
        BY <3>2, <1>1, <1>2
      <3>4. request'[o].event = e /\ request'[o].handler = handler
        BY <3>3 DEF IInv, TypeOK
      <3>5. e = CONNECT /\ handler = NULL
        BY <2>1, <3>1, <3>4
      <3> QED BY <3>3, <3>5, <1>2, ConstantsAssumption
    <2>2. \A p \in Objs, x \in g_ot : p # o /\ fileobj[x] = p => old_handler'[x] = old_handler[x]
      BY <1>2, <1>3
    <2> QED BY <2>1, <2>2, <1>2, <1>4 DEF HInv, Removals, Restoring
  <1>12. Taken' /\ Raw'
    BY <1>2 DEF Taken, Raw, HInv
  <1> QED BY <1>9, <1>10, <1>11, <1>12 DEF HInv

(* A client removes one: the context has it no more when the request goes, *)
(* but the driver is called until that has come to tcpip.sys.              *)
LEMMA RemoveImplements ==
  ASSUME IInv, IInv', HInv, NEW o \in Objs, NEW e \in Events, tdi_set_event_handler_remove(o, e)
  PROVE  Implements /\ HInv'
  <1>1. /\ phase = "up" /\ restoring = NULL /\ g_ot \subseteq Otes /\ file[o] = "open"
        /\ UNCHANGED <<g_ot, fileobj, file, installed, restoring, phase>>
        /\ request'[o] = [event |-> e, handler |-> NULL]
        /\ \A p \in Objs \ {o} : request'[p] = request[p]
    BY DEF tdi_set_event_handler_remove, ClientMaySet, freeVars, IInv, TypeOK, Files
  <1>2. /\ \A x \in g_ot : fileobj[x] = o => old_handler'[x][e] = NULL
        /\ \A x \in g_ot : fileobj[x] # o => old_handler'[x] = old_handler[x]
        /\ \A x \in Otes, q \in Events \ {e} : old_handler'[x][q] = old_handler[x][q]
    <2>1. CASE Misses(o) /\ old_handler' = old_handler
      BY <2>1 DEF Misses
    <2>2. CASE \E id \in g_ot : Finds(o, id) /\ old_handler' = [old_handler EXCEPT ![id][e] = NULL]
      <3>1. PICK id \in g_ot : Finds(o, id) /\ old_handler' = [old_handler EXCEPT ![id][e] = NULL]
        BY <2>2
      <3>2. fileobj[id] = o /\ \A x \in g_ot : fileobj[x] = o => x = id
        BY <3>1, ConstantsAssumption DEF Finds, IInv, Entries
      <3>3. /\ old_handler'[id][e] = NULL
            /\ \A q \in Events \ {e} : old_handler'[id][q] = old_handler[id][q]
            /\ \A x \in Otes \ {id} : old_handler'[x] = old_handler[x]
        BY <3>1, <1>1 DEF IInv, TypeOK
      <3> QED BY <3>2, <3>3, <1>1
    <2> QED BY <2>1, <2>2 DEF tdi_set_event_handler_remove
  <1>4. ASSUME NEW p \in Objs, NEW q \in Events, p # o \/ q # e PROVE SameAt(p, q)
    <2>1. \A x \in g_ot : fileobj[x] = p => old_handler'[x][q] = old_handler[x][q]
      BY <1>1, <1>2, <1>4
    <2>2. KeptAt(p, q)' = KeptAt(p, q)
      BY <2>1, <1>1, KeptSame DEF Misses
    <2>3. CalledAt(p, q)' = CalledAt(p, q)
      BY <2>1, <1>1, CalledSame
    <2> QED BY <2>2, <2>3 DEF SameAt
  <1>5. KeptAt(o, e)' = NULL
    <2>1. Knows(o, e)' /\ ~Restoring(o, e)'
      BY <1>1, KeptIsNext DEF Restoring
    <2> QED BY <2>1, <1>1, <1>2 DEF Knows, Misses
  <1>6. CalledAt(o, e)' = IF CalledAt(o, e) = NULL THEN NULL ELSE Bugcheck
    <2>1. CASE installed[o][e] = NULL
      BY <2>1, <1>1, CalledNone, CalledNoneNext
    <2>2. CASE installed[o][e] # NULL
      <3>1. installed[o][e] \in Otes
        BY <2>2, <1>1 DEF HInv, Raw, IInv, TypeOK
      <3>2. CalledAt(o, e)' = Bugcheck
        BY <3>1, <1>1, <1>2 DEF CalledAt, Finds
      <3>3. CalledAt(o, e) # NULL
        BY <2>2, CalledNone
      <3> QED BY <3>2, <3>3
    <2> QED BY <2>1, <2>2
  <1>7. Implements
    BY <1>1, <1>4, <1>5, <1>6, Removes
  <1>8. Fresh'
    <2>1. \A p \in Objs, x \in g_ot : p # o /\ fileobj[x] = p => old_handler'[x] = old_handler[x]
      BY <1>2
    <2> QED BY <2>1, <1>1 DEF HInv, Fresh
  <1>9. Removals'
    <2>1. request'[o] = [event |-> CONNECT, handler |-> NULL] => e = CONNECT
      <3>1. request'[o].event = e
        BY <1>1
      <3> QED BY <3>1
    <2> QED BY <2>1, <1>1, <1>2 DEF HInv, Removals, Restoring
  <1>10. Taken' /\ Raw'
    BY <1>1 DEF Taken, Raw, HInv
  <1> QED BY <1>7, <1>8, <1>9, <1>10 DEF HInv

(* A request reaches tcpip.sys, which calls the client's handler then.     *)
(* What has been removed by it is in the context no more, and what ot_free *)
(* has taken from the context is not there for the driver to call.         *)
LEMMA TcpipSetsImplements ==
  ASSUME IInv, HInv, NEW o \in Objs, TcpipSets(o) PROVE Implements /\ HInv'
  <1>0. PICK e \in Events, hd \in Otes \cup {NULL} : request[o] = [event |-> e, handler |-> hd]
    BY DEF TcpipSets, IInv, TypeOK, Requests
  <1>1. /\ request[o] # NULL /\ e \in Events /\ hd \in Otes \cup {NULL} /\ file[o] = "open"
        /\ UNCHANGED <<g_ot, fileobj, old_handler, file, restoring, phase>>
        /\ request'[o] = NULL /\ \A p \in Objs \ {o} : request'[p] = request[p]
        /\ installed'[o][e] = hd
        /\ \A p \in Objs, q \in Events : p # o \/ q # e => installed'[p][q] = installed[p][q]
    BY <1>0 DEF TcpipSets, oteVars, IInv, TypeOK, Files
  <1>4. Knows(o, e)
    BY <1>1, KeptIs
  <1>6. \A p \in Objs, q \in Events : KeptAt(p, q)' = KeptAt(p, q)
    BY <1>1 DEF KeptAt, Restoring, Misses, Finds
  <1>7. \A p \in Objs, q \in Events : p # o \/ q # e => SameAt(p, q)
    BY <1>1, <1>6 DEF SameAt, CalledAt, Finds
  <1>8. Implements
    <2>1. CASE hd = NULL
      <3>1. CalledAt(o, e)' = NULL
        BY <2>1, <1>1, CalledNoneNext
      <3>2. e = CONNECT => KeptAt(o, e) = NULL
        <4>1. SUFFICES ASSUME e = CONNECT PROVE KeptAt(o, e) = NULL
          OBVIOUS
        <4>2. ~Restoring(o, e) /\ \A id \in g_ot : fileobj[id] = o => old_handler[id][e] = NULL
          BY <4>1, <2>1, <1>0 DEF HInv, Removals
        <4> QED BY <1>4, <4>2 DEF Knows, Misses
      <3> QED BY <3>1, <3>2, <1>1, <1>6, <1>7, Takes
    <2>2. CASE hd \in Otes /\ Finds(o, hd) /\ old_handler[hd][e] # NULL
      <3>1. ~Restoring(o, e)
        BY <2>2 DEF HInv, Taken, Restoring, Finds
      <3>2. KeptAt(o, e) = old_handler[hd][e]
        BY <2>2, <3>1, <1>4 DEF Knows, Finds
      <3>3. CalledAt(o, e)' = old_handler[hd][e]
        BY <2>2, <1>1 DEF CalledAt, Finds
      <3> QED BY <3>2, <3>3, <1>1, <1>6, <1>7, Takes
    <2>3. CASE hd \in Otes /\ ~(Finds(o, hd) /\ old_handler[hd][e] # NULL)
      <3>1. CalledAt(o, e)' = Bugcheck
        BY <2>3, <1>1 DEF CalledAt, Finds
      <3>2. phase # "up"
        <4>1. hd # NULL /\ request[o].event = e /\ request[o].handler = hd
          BY <2>3, <1>0, ConstantsAssumption
        <4> QED BY <4>1, <2>3, <1>1 DEF IInv, Requested
      <3> QED BY <3>1, <3>2, <1>1, <1>6, <1>7, IsMissed
    <2> QED BY <2>1, <2>2, <2>3, <1>1
  <1>9. Removals'
    <2>1. \A p \in Objs : request'[p] = [event |-> CONNECT, handler |-> NULL] => p # o
      BY <1>1, ConstantsAssumption DEF Requests
    <2> QED BY <2>1, <1>1 DEF HInv, Removals, Restoring
  <1>10. Taken' /\ Fresh'
    BY <1>1 DEF HInv, Taken, Fresh, Finds
  <1>11. Raw'
    <2>1. hd \notin Handlers
      BY <1>1, ConstantsAssumption
    <2> QED BY <2>1, <1>1 DEF HInv, Raw
  <1> QED BY <1>8, <1>9, <1>10, <1>11 DEF HInv

(* The devices are detached. *)
LEMMA DetachImplements ==
  ASSUME HInv, d_n_d_device PROVE Implements /\ HInv'
  <1>1. /\ phase = "up" /\ phase' = "freeing"
        /\ UNCHANGED <<g_ot, fileobj, old_handler, file, request, installed, restoring>>
    BY DEF d_n_d_device, oteVars, tcpipVars
  <1>2. Kept' = Kept /\ Called' = Called
    BY <1>1 DEF Kept, Called, KeptAt, CalledAt, Restoring, Misses, Finds
  <1>3. (phase # "up")' = TRUE
    BY <1>1
  <1>4. Seen!Unload
    BY <1>2, <1>3, Zenon DEF Seen!Unload
  <1>5. HInv'
    BY <1>1 DEF HInv, Removals, Restoring, Taken, Raw, Fresh, Finds
  <1> QED BY <1>4, <1>5 DEF Implements, Seen!Next

(* An entry that ot_free skips has no handlers to forget. *)
LEMMA FreeObjectImplements ==
  ASSUME IInv, IInv', HInv, NEW id \in Otes, ot_free_object(id) PROVE Implements /\ HInv'
  <1>1. /\ phase = "freeing" /\ restoring = NULL /\ old_handler[id] = Unset /\ id \in g_ot
        /\ g_ot \subseteq Otes /\ fileobj'[id] = NULL
        /\ \A x \in Otes \ {id} : fileobj'[x] = fileobj[x]
        /\ UNCHANGED <<g_ot, old_handler, file, request, installed, restoring, phase>>
    BY DEF ot_free_object, tcpipVars, freeVars, IInv, TypeOK
  <1>2. ASSUME NEW p \in Objs
        PROVE  /\ Misses(p) => Misses(p)'
               /\ fileobj[id] = p => Misses(p)'
    <2>1. Misses(p) => Misses(p)'
      BY <1>1, ConstantsAssumption DEF Misses
    <2>2. ASSUME fileobj[id] = p PROVE Misses(p)'
      <3>1. \A x \in g_ot : x # id => fileobj[x] # p
        BY <2>2, <1>1, ConstantsAssumption DEF IInv, Entries
      <3> QED BY <3>1, <1>1, ConstantsAssumption DEF Misses
    <2> QED BY <2>1, <2>2
  <1>3. ASSUME NEW p \in Objs, NEW q \in Events PROVE SameAt(p, q)
    <2>1. Knows(p, q) /\ Knows(p, q)' /\ ~Restoring(p, q) /\ ~Restoring(p, q)'
      BY <1>1, KeptIs, KeptIsNext DEF Restoring
    <2>2. CASE fileobj[id] = p
      <3>1. KeptAt(p, q) = NULL
        BY <2>1, <2>2, <1>1 DEF Knows, Unset
      <3>2. KeptAt(p, q)' = NULL
        BY <2>1, <2>2, <1>2 DEF Knows
      <3>3. CASE installed[p][q] \in Otes
        <4>1. ~Finds(p, installed[p][q]) \/ old_handler[installed[p][q]][q] = NULL
          BY <2>2, <1>1, ConstantsAssumption DEF Finds, IInv, Entries, Unset
        <4>2. CalledAt(p, q) = Bugcheck
          BY <4>1, <3>3 DEF CalledAt
        <4>3. CalledAt(p, q)' = Bugcheck
          BY <2>2, <3>3, <1>1, <1>2 DEF CalledAt, Finds, Misses
        <4> QED BY <4>2, <4>3, <3>1, <3>2 DEF SameAt
      <3>4. CASE installed[p][q] \notin Otes
        BY <3>1, <3>2, <3>4, <1>1 DEF SameAt, CalledAt
      <3> QED BY <3>3, <3>4
    <2>3. CASE fileobj[id] # p
      <3>1. \A x \in Otes : (x \in g_ot' /\ fileobj'[x] = p) <=> (x \in g_ot /\ fileobj[x] = p)
        BY <2>3, <1>1, ConstantsAssumption
      <3>2. KeptAt(p, q)' = KeptAt(p, q)
        BY <3>1, <1>1, <1>2, KeptSame DEF Misses
      <3>3. CalledAt(p, q)' = CalledAt(p, q)
        BY <3>1, <1>1, CalledSame
      <3> QED BY <3>2, <3>3 DEF SameAt
    <2> QED BY <2>2, <2>3
  <1>4. Implements
    BY <1>1, <1>3, Stutters
  <1>5. \A p \in Objs, x \in g_ot : fileobj'[x] = p => fileobj[x] = p
    BY <1>1, ConstantsAssumption
  <1>6. Removals' /\ Fresh'
    BY <1>1, <1>5 DEF HInv, Removals, Restoring, Fresh
  <1>7. Taken' /\ Raw'
    BY <1>1 DEF Taken, Raw
  <1> QED BY <1>4, <1>6, <1>7 DEF HInv

(* A handler leaves its context for the request that gives it back: until  *)
(* then the client still has it, but the driver has nothing to call.       *)
LEMMA FreeHandlerImplements ==
  ASSUME IInv, IInv', HInv, NEW id \in Otes, NEW e \in Events, ot_free_handler(id, e)
  PROVE  Implements /\ HInv'
  <1>0. PICK o \in Objs, h \in Handlers : fileobj[id] = o /\ old_handler[id][e] = h
    BY DEF ot_free_handler, IInv, TypeOK
  <1>1. /\ phase = "freeing" /\ restoring = NULL /\ o \in Objs /\ h \in Handlers /\ id \in g_ot
        /\ g_ot \subseteq Otes
        /\ restoring' = [obj |-> o, event |-> e, handler |-> h]
        /\ UNCHANGED <<g_ot, fileobj, file, request, installed, phase>>
        /\ old_handler'[id][e] = NULL
        /\ \A q \in Events \ {e} : old_handler'[id][q] = old_handler[id][q]
        /\ \A x \in Otes \ {id} : old_handler'[x] = old_handler[x]
    BY <1>0 DEF ot_free_handler, tcpipVars, IInv, TypeOK
  <1>2. restoring' # NULL
    BY <1>1, ConstantsAssumption DEF Restores
  <1>3. /\ Restoring(o, e)' /\ restoring'.handler = h
        /\ \A p \in Objs, q \in Events : p # o \/ q # e => ~Restoring(p, q)'
        /\ \A p \in Objs, q \in Events : ~Restoring(p, q)
    BY <1>1, <1>2 DEF Restoring
  <1>4. \A x \in g_ot : fileobj[x] = o => x = id
    BY <1>0, <1>1, ConstantsAssumption DEF IInv, Entries
  <1>7. ~Misses(o) /\ fileobj[id] = o /\ h = old_handler[id][e] /\ h # NULL
    BY <1>0, <1>1, ConstantsAssumption DEF Misses
  <1>8. ASSUME NEW p \in Objs, NEW q \in Events, p # o \/ q # e PROVE SameAt(p, q)
    <2>1. Knows(p, q) /\ Knows(p, q)' /\ ~Restoring(p, q) /\ ~Restoring(p, q)'
      BY <1>3, <1>8, KeptIs, KeptIsNext
    <2>2. \A x \in g_ot : fileobj[x] = p => old_handler'[x][q] = old_handler[x][q]
      BY <1>1, <1>7, <1>8
    <2>3. KeptAt(p, q)' = KeptAt(p, q)
      BY <2>1, <2>2, <1>1 DEF Knows, Misses
    <2>4. CalledAt(p, q)' = CalledAt(p, q)
      BY <2>2, <1>1, CalledSame
    <2> QED BY <2>3, <2>4 DEF SameAt
  <1>9. KeptAt(o, e)' = KeptAt(o, e)
    <2>1. Knows(o, e) /\ Knows(o, e)'
      BY <1>1, KeptIs, KeptIsNext
    <2> QED BY <2>1, <1>1, <1>3, <1>7 DEF Knows
  <1>10. CalledAt(o, e)' \in {CalledAt(o, e), Bugcheck}
    BY <1>1, <1>4 DEF CalledAt, Finds
  <1>11. Implements
    BY <1>1, <1>8, <1>9, <1>10, IsMissed
  <1>12. ASSUME NEW p \in Objs,
                \/ request[p] = [event |-> CONNECT, handler |-> NULL] /\ e = CONNECT
                \/ file[p] = "creating"
         PROVE  p # o
    <2>1. request[p] = [event |-> CONNECT, handler |-> NULL] /\ e = CONNECT =>
            \A x \in g_ot : fileobj[x] = p => old_handler[x][e] = NULL
      BY DEF HInv, Removals
    <2>2. file[p] = "creating" => \A x \in g_ot : fileobj[x] = p => old_handler[x][e] = NULL
      BY DEF HInv, Fresh, Unset
    <2> QED BY <2>1, <2>2, <1>1, <1>7, <1>12
  <1>13. Removals'
    <2>1. ASSUME NEW p \in Objs, request[p] = [event |-> CONNECT, handler |-> NULL]
          PROVE  /\ \A x \in g_ot : fileobj[x] = p => old_handler'[x][CONNECT] = NULL
                 /\ ~(restoring'.obj = p /\ restoring'.event = CONNECT)
      <3>1. \A x \in g_ot : fileobj[x] = p => old_handler[x][CONNECT] = NULL
        BY <2>1 DEF HInv, Removals
      <3>2. p # o \/ CONNECT # e
        BY <2>1, <1>12
      <3> QED BY <3>1, <3>2, <1>1, ConstantsAssumption
    <2> QED BY <2>1, <1>1 DEF Removals, Restoring
  <1>14. Fresh'
    <2>1. \A p \in Objs, x \in g_ot : p # o /\ fileobj[x] = p => old_handler'[x] = old_handler[x]
      BY <1>1, <1>7
    <2> QED BY <2>1, <1>1, <1>12 DEF HInv, Fresh
  <1>15. Taken' /\ Raw'
    BY <1>1, <1>4, <1>7 DEF Taken, Raw, Finds
  <1> QED BY <1>11, <1>13, <1>14, <1>15 DEF HInv

(* A handler is given back, or lost.                                       *)
LEMMA FreeRestoreImplements ==
  ASSUME IInv, IInv', HInv, ot_free_restore PROVE Implements /\ HInv'
  <1>0. PICK o \in Objs, e \in Events, h \in Handlers :
          restoring.obj = o /\ restoring.event = e /\ restoring.handler = h
    BY DEF ot_free_restore, IInv, TypeOK, Restores
  <1>1. /\ phase = "freeing" /\ restoring # NULL /\ restoring' = NULL
        /\ o \in Objs /\ e \in Events /\ h \in Handlers
        /\ UNCHANGED <<g_ot, fileobj, old_handler, file, request, phase>>
        /\ installed' = [installed EXCEPT ![o][e] = h] \/ installed' = installed
    BY <1>0 DEF ot_free_restore, oteVars, IInv, TypeOK, Files
  <1>2. Restoring(o, e) /\ \A p \in Objs, q \in Events : p # o \/ q # e => ~Restoring(p, q)
    BY <1>0, <1>1 DEF Restoring
  <1>3. \A p \in Objs, q \in Events : ~Restoring(p, q)'
    BY <1>1 DEF Restoring
  <1>4. \A x \in g_ot : fileobj[x] = o => old_handler[x][e] = NULL
    BY <1>0, <1>1 DEF HInv, Taken, Finds
  <1>5. /\ installed'[o][e] = h \/ installed' = installed
        /\ \A p \in Objs, q \in Events : p # o \/ q # e => installed'[p][q] = installed[p][q]
    BY <1>1 DEF IInv, TypeOK
  <1>8. ASSUME NEW p \in Objs, NEW q \in Events, p # o \/ q # e PROVE SameAt(p, q)
    <2>1. Knows(p, q) /\ Knows(p, q)' /\ ~Restoring(p, q) /\ ~Restoring(p, q)'
      BY <1>2, <1>3, <1>8, KeptIs, KeptIsNext
    <2>2. KeptAt(p, q)' = KeptAt(p, q)
      BY <2>1, <1>1 DEF Knows, Misses
    <2>3. CalledAt(p, q)' = CalledAt(p, q)
      BY <1>1, <1>5, <1>8, CalledSame
    <2> QED BY <2>2, <2>3 DEF SameAt
  <1>9. KeptAt(o, e) = h /\ KeptAt(o, e)' = NULL
    <2>1. Knows(o, e) /\ Knows(o, e)' /\ ~Restoring(o, e)'
      BY <1>1, <1>3, KeptIs, KeptIsNext
    <2> QED BY <2>1, <1>0, <1>1, <1>2, <1>4 DEF Knows, Misses
  <1>10. CalledAt(o, e)' \in {KeptAt(o, e), CalledAt(o, e)}
    <2>1. CASE installed'[o][e] = h
      <3>1. h \notin Otes
        BY <1>1, ConstantsAssumption
      <3> QED BY <2>1, <3>1, <1>9 DEF CalledAt
    <2>2. CASE installed' = installed
      BY <2>2, <1>1 DEF CalledAt, Finds
    <2> QED BY <2>1, <2>2, <1>5
  <1>11. Implements
    BY <1>1, <1>8, <1>9, <1>10, GivesBack
  <1>12. Removals'
    BY <1>1 DEF HInv, Removals, Restoring
  <1>13. Taken' /\ Raw' /\ Fresh'
    BY <1>1 DEF HInv, Taken, Raw, Fresh
  <1> QED BY <1>11, <1>12, <1>13 DEF HInv

(* When the table is cleared, no object is found in it any more.           *)
LEMMA FreeClearImplements ==
  ASSUME IInv, IInv', HInv, ot_free_clear PROVE Implements /\ HInv'
  <1>1. /\ phase = "freeing" /\ phase' = "freed" /\ restoring = NULL /\ g_ot' = {}
        /\ \A id \in g_ot : fileobj[id] = NULL
        /\ UNCHANGED <<fileobj, old_handler, file, request, installed, restoring>>
    BY DEF ot_free_clear, tcpipVars
  <1>2. \A p \in Objs : Misses(p)' /\ Misses(p)
    BY <1>1, ConstantsAssumption DEF Misses
  <1>3. ASSUME NEW p \in Objs, NEW q \in Events PROVE SameAt(p, q)
    <2>1. KeptAt(p, q)' = KeptAt(p, q)
      BY <1>1, <1>2, KeptSame
    <2>2. CalledAt(p, q)' = CalledAt(p, q)
      BY <1>1, ConstantsAssumption, CalledSame
    <2> QED BY <2>1, <2>2 DEF SameAt
  <1>4. Implements
    BY <1>1, <1>3, Stutters
  <1>5. Removals'
    BY <1>1 DEF HInv, Removals, Restoring
  <1>6. Taken' /\ Raw' /\ Fresh'
    BY <1>1 DEF HInv, Taken, Raw, Fresh
  <1> QED BY <1>4, <1>5, <1>6 DEF HInv

-----------------------------------------------------------------------------
(* Every step is one of the table of handlers, or none. *)
LEMMA NextImplements == IInv /\ HInv /\ [Next]_vars /\ IInv' => Implements /\ HInv'
  <1> SUFFICES ASSUME IInv, HInv, [Next]_vars, IInv' PROVE Implements /\ HInv'
    OBVIOUS
  <1>1. CASE \E o \in Objs : tdi_create(o)
    BY <1>1, CreateImplements
  <1>2. CASE \E o \in Objs : tdi_create_addrobj_complete(o)
    BY <1>2, CompleteImplements
  <1>3. CASE \E o \in Objs : tdi_create_addrobj_complete2(o)
    BY <1>3, ListeningImplements DEF tdi_create_addrobj_complete2, oteVars, freeVars
  <1>4. CASE \E o \in Objs, e \in Events, h \in Handlers : tdi_set_event_handler(o, e, h)
    BY <1>4, SetImplements
  <1>5. CASE \E o \in Objs, e \in Events : tdi_set_event_handler_remove(o, e)
    BY <1>5, RemoveImplements
  <1>6. CASE \E o \in Objs : TcpipSets(o)
    BY <1>6, TcpipSetsImplements
  <1>7. CASE \E o \in Objs : tdi_cleanup(o)
    BY <1>7, CleanupImplements
  <1>8. CASE \E o \in Objs : TcpipCloses(o)
    BY <1>8, TcpipClosesImplements
  <1>9. CASE \E o \in Objs : DetachedCleanup(o)
    BY <1>9, DetachedCleanupImplements
  <1>10. CASE d_n_d_device
    BY <1>10, DetachImplements
  <1>11. CASE ot_free
    BY <1>11, FreeObjectImplements, FreeHandlerImplements, FreeRestoreImplements,
       FreeClearImplements DEF ot_free
  <1>12. CASE UNCHANGED vars
    BY <1>12, ListeningImplements DEF vars, oteVars, tcpipVars, freeVars
  <1> QED BY <1>1, <1>2, <1>3, <1>4, <1>5, <1>6, <1>7, <1>8, <1>9, <1>10, <1>11, <1>12 DEF Next

(* No object has a handler at first. *)
LEMMA InitImplements == Init => HInv /\ Seen!Init
  <1> SUFFICES ASSUME Init PROVE HInv /\ Seen!Init
    OBVIOUS
  <1>1. HInv
    <2>1. \A o \in Objs : request[o] = NULL /\ installed[o] = Unset
      BY DEF Init
    <2>2. restoring = NULL /\ g_ot = {}
      BY DEF Init
    <2>3. \A o \in Objs : request[o] # [event |-> CONNECT, handler |-> NULL]
      BY <2>1, ConstantsAssumption DEF Requests
    <2>4. Raw
      BY <2>1, ConstantsAssumption DEF Raw, Unset
    <2> QED BY <2>2, <2>3, <2>4 DEF HInv, Removals, Taken, Fresh
  <1>2. \A o \in Objs, e \in Events : KeptAt(o, e) = NULL /\ CalledAt(o, e) = NULL
    <2>1. \A o \in Objs, e \in Events : installed[o][e] = NULL
      BY DEF Init, Unset
    <2>2. \A o \in Objs, e \in Events : CalledAt(o, e) = NULL
      BY <2>1, CalledNone
    <2>3. \A o \in Objs, e \in Events : KeptAt(o, e) = NULL
      BY DEF Init, KeptAt, Restoring, Misses
    <2> QED BY <2>2, <2>3
  <1>3. Kept = [o \in Objs |-> Seen!Unset] /\ Called = [o \in Objs |-> Seen!Unset]
    BY <1>2 DEF Kept, Called, Seen!Unset
  <1>4. (phase # "up") = FALSE
    BY DEF Init
  <1> QED BY <1>1, <1>3, <1>4, Zenon DEF Seen!Init

(* Although the driver puts itself in front of the event handlers of its   *)
(* clients (ctx->old_handler, disp_ev.c:105), an event reaches the handler *)
(* that was set last for it on this object, or none; it finds the driver   *)
(* with nothing to call only while a removal (disp_ev.c:105), a cleanup or *)
(* ot_free's request (obj_tbl.c:127 to 199) is on its way, or after        *)
(* unloading has begun; and ot_free gives each handler back to where it    *)
(* was set, or loses it.                                                   *)
THEOREM HandlersImplement == Spec => ImplementsHandlers
  <1>1. Init => HInv /\ Seen!Init
    BY InitImplements
  <1>2. IInv /\ IInv' /\ HInv /\ [Next]_vars => Implements /\ HInv'
    BY NextImplements
  <1>3. Implements => [Seen!Next]_(Seen!vars)
    BY DEF Implements
  <1> QED BY <1>1, <1>2, <1>3, Inductive, PTL DEF Spec, ImplementsHandlers, Seen!Spec
=============================================================================

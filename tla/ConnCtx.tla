------------------------------ MODULE ConnCtx ------------------------------
(***************************************************************************)
(* Connection objects found by address object and connection context:      *)
(* association (disp_obj.c), the index g_cte_hash (obj_tbl.c), incoming    *)
(* and outgoing connections (ev_conn.c, disp_conn.c) and the local address *)
(* recorded for them.                                                      *)
(*                                                                         *)
(* tcpip.sys knows a connection by the address object it is associated     *)
(* with and by its context, and passes these two to the event handlers.    *)
(* A request changes the driver's records first and reaches tcpip.sys      *)
(* afterwards, which may refuse it; both views are part of the state.      *)
(* Connections that were opened before the driver was attached are known   *)
(* to tcpip.sys alone.                                                     *)
(***************************************************************************)
EXTENDS Integers, FiniteSets

CONSTANTS
  Conns,     \* addresses of file objects of connections
  Addrs,     \* addresses of file objects of transport addresses
  Ctxs,      \* connection contexts
  Freed,     \* what a freed ot_entry holds
  Zero,      \* the address 0.0.0.0 that a query leaves behind if it fails
  NoOne

Ops == {"associate", "disassociate", "connect", "accept", "close"}
ConnRequests == [op : Ops, addr : Addrs \cup {NoOne}, ctx : Ctxs \cup {NoOne}]
ConnEvents == [addr : Addrs, alive : BOOLEAN]

ASSUME CtxAssumption ==
  /\ NoOne \notin Conns \cup Addrs \cup Ctxs \cup ConnRequests \cup ConnEvents
  /\ {Freed, Zero} \cap (Addrs \cup {NoOne}) = {}
  /\ "queued" \notin Addrs \cup {NoOne, Zero}
  /\ Conns \cap Addrs = {}

VARIABLES
  filtering,          \* the driver is attached to \Device\Tcp
  ot,                 \* file objects in the object table
  conn_ctx,           \* connection -> the context the driver has recorded
  associated_fileobj, \* connection -> the address object the driver has recorded
  laddr,              \* connection -> the address object whose address is recorded
  g_cte,              \* <<address object, context>> -> connection
  open,               \* file objects that are open
  assoc,              \* tcpip.sys: connection -> its address object
  context,            \* tcpip.sys: connection -> its context
  connected,          \* tcpip.sys: connections that are established
  request,            \* connection -> a request on its way to tcpip.sys
  event,              \* a connect event whose client is deciding
  ucn,                \* connection -> NoOne, "queued", or what a query has brought
  unlinked,           \* history: connections whose disassociation tcpip.sys refused
  spoiled,            \* history: contexts changed for an accept that came to nothing
  late,               \* history: connections begun while a query of an earlier one was out
  mistaken,           \* history: connections whose entry went with an event of another one
  misnoted            \* history: connections begun from an association tcpip.sys refused

recordVars == <<ot, conn_ctx, associated_fileobj, laddr, g_cte>>
tcpVars == <<open, assoc, context, connected, request>>
flightVars == <<event, ucn>>
ctxHistory == <<unlinked, spoiled, late, mistaken, misnoted>>
ctxVars == <<filtering, recordVars, tcpVars, flightVars, ctxHistory>>

CtxTypeOK ==
  /\ filtering \in BOOLEAN
  /\ ot \subseteq Conns \cup Addrs
  /\ conn_ctx \in [Conns -> Ctxs \cup {NoOne}]
  /\ associated_fileobj \in [Conns -> Addrs \cup {NoOne}]
  /\ laddr \in [Conns -> Addrs \cup {NoOne, Freed, Zero}]
  /\ g_cte \in [Addrs \X Ctxs -> Conns \cup {NoOne}]
  /\ open \subseteq Conns \cup Addrs
  /\ assoc \in [Conns -> Addrs \cup {NoOne}]
  /\ context \in [Conns -> Ctxs \cup {NoOne}]
  /\ connected \subseteq Conns
  /\ request \in [Conns -> ConnRequests \cup {NoOne}]
  /\ event \in ConnEvents \cup {NoOne}
  /\ ucn \in [Conns -> Addrs \cup {NoOne, "queued", Zero}]
  /\ unlinked \cup late \cup mistaken \cup misnoted \subseteq Conns /\ spoiled \subseteq Ctxs

Nothing == [c \in Conns |-> NoOne]
NoLinks == [k \in Addrs \X Ctxs |-> NoOne]

CtxInit ==
  /\ filtering = FALSE
  /\ ot = {} /\ conn_ctx = Nothing /\ associated_fileobj = Nothing /\ laddr = Nothing
  /\ g_cte = NoLinks
  /\ open = {} /\ assoc = Nothing /\ context = Nothing /\ connected = {} /\ request = Nothing
  /\ event = NoOne /\ ucn = Nothing
  /\ unlinked = {} /\ spoiled = {} /\ late = {} /\ mistaken = {} /\ misnoted = {}

-----------------------------------------------------------------------------
(* The index.                                                              *)

(* ot_find_conn_ctx, for the context tcpip.sys has for a connection *)
Found(c) == IF assoc[c] = NoOne THEN NoOne ELSE g_cte[<<assoc[c], context[c]>>]

(* Fault: an entry that exists already is left as it is. *)
Link_Kept(table, a, x, c) ==
  IF table[<<a, x>>] = NoOne THEN [table EXCEPT ![<<a, x>>] = c] ELSE table

(* ot_add_conn_ctx *)
Link(table, a, x, c) == [table EXCEPT ![<<a, x>>] = c]

(* ot_del_conn_ctx *)
Unlink(table, a, x) == [table EXCEPT ![<<a, x>>] = NoOne]

-----------------------------------------------------------------------------
(* Opening and closing.  Clients use a context for one connection at a     *)
(* time.                                                                   *)

Unused(x) ==
  /\ \A c \in Conns \cap open : context[c] # x
  /\ \A c \in Conns : request[c] # NoOne => request[c].ctx # x

(* tdi_create for a connection object, and the answer of tcpip.sys; if it  *)
(* refuses, the entry stays.                                               *)
OpenConn(c, x) ==
  /\ filtering /\ c \notin open /\ Unused(x)
  /\ ot' = ot \cup {c}
  /\ conn_ctx' = [conn_ctx EXCEPT ![c] = x]
  /\ associated_fileobj' = [associated_fileobj EXCEPT ![c] = NoOne]
  /\ laddr' = [laddr EXCEPT ![c] = NoOne]
  /\ \/ /\ open' = open \cup {c}
        /\ context' = [context EXCEPT ![c] = x]
        /\ spoiled' = IF \E d \in Conns \ {c} : conn_ctx[d] = x THEN spoiled ELSE spoiled \ {x}
     \/ UNCHANGED <<open, context, spoiled>>
  /\ UNCHANGED <<filtering, g_cte, assoc, connected, request, flightVars, unlinked, late, mistaken,
                 misnoted>>

(* tdi_create for an address object; an object whose address cannot be     *)
(* queried is not kept (tdi_create_addrobj_complete).                      *)
OpenAddr(a) ==
  /\ filtering /\ a \notin open
  /\ open' = open \cup {a}
  /\ ot' \in {ot \cup {a}, ot \ {a}}
  /\ UNCHANGED <<filtering, conn_ctx, associated_fileobj, laddr, g_cte, assoc, context,
                 connected, request, flightVars, ctxHistory>>

(* What is left of a connection in the object table. *)
Forgotten(c) ==
  /\ ot' = ot \ {c}
  /\ conn_ctx' = [conn_ctx EXCEPT ![c] = NoOne]
  /\ associated_fileobj' = [associated_fileobj EXCEPT ![c] = NoOne]
  /\ laddr' = [laddr EXCEPT ![c] = NoOne]

Sent(c, o, a, x) == request' = [request EXCEPT ![c] = [op |-> o, addr |-> a, ctx |-> x]]

(* tdi_cleanup of a connection; the entry of g_cte_hash stays. *)
CleanupConn(c) ==
  /\ c \in Conns \cap open /\ request[c] = NoOne
  /\ IF filtering THEN Forgotten(c) ELSE UNCHANGED <<ot, conn_ctx, associated_fileobj, laddr>>
  /\ Sent(c, "close", NoOne, NoOne)
  /\ UNCHANGED <<filtering, g_cte, open, assoc, context, connected, flightVars, ctxHistory>>

TcpipClosesConn(c) ==
  /\ request[c] # NoOne /\ request[c].op = "close"
  /\ open' = open \ {c}
  /\ assoc' = [assoc EXCEPT ![c] = NoOne]
  /\ context' = [context EXCEPT ![c] = NoOne]
  /\ connected' = connected \ {c}
  /\ request' = [request EXCEPT ![c] = NoOne]
  /\ unlinked' = unlinked \ {c} /\ late' = late \ {c}
  /\ mistaken' = mistaken \ {c} /\ misnoted' = misnoted \ {c}
  /\ UNCHANGED <<filtering, recordVars, flightVars, spoiled>>

(* tdi_cleanup of an address object.  tcpip.sys breaks its associations,   *)
(* the driver's records of them stay.                                      *)
CleanupAddr(a) ==
  /\ a \in Addrs \cap open
  /\ \A c \in Conns : request[c] # NoOne /\ request[c].op = "associate" => request[c].addr # a
  /\ ot' = IF filtering THEN ot \ {a} ELSE ot
  /\ open' = open \ {a}
  /\ assoc' = [c \in Conns |-> IF assoc[c] = a THEN NoOne ELSE assoc[c]]
  /\ connected' = {c \in connected : assoc[c] # a}
  /\ event' = IF event # NoOne /\ event.addr = a THEN [event EXCEPT !.alive = FALSE] ELSE event
  /\ UNCHANGED <<filtering, conn_ctx, associated_fileobj, laddr, g_cte, context, request, ucn,
                 ctxHistory>>

-----------------------------------------------------------------------------
(* Association.                                                            *)

(* tdi_associate_address: the association is noted, then linked, whether   *)
(* or not the connection has one already; if there is no memory for the    *)
(* link the request is denied and the note stays.                          *)
Associate(c, a) ==
  /\ filtering /\ c \in ot \cap open /\ a \in open /\ request[c] = NoOne
  /\ associated_fileobj' = [associated_fileobj EXCEPT ![c] = a]
  /\ \/ /\ g_cte' = Link(g_cte, a, conn_ctx[c], c)
        /\ Sent(c, "associate", a, NoOne)
     \/ /\ g_cte[<<a, conn_ctx[c]>>] = NoOne
        /\ UNCHANGED <<g_cte, request>>
  /\ UNCHANGED <<filtering, ot, conn_ctx, laddr, open, assoc, context, connected, flightVars,
                 ctxHistory>>

(* tcpip.sys associates or refuses, a connection that is associated always. *)
TcpipAssociates(c) ==
  /\ request[c] # NoOne /\ request[c].op = "associate"
  /\ request' = [request EXCEPT ![c] = NoOne]
  /\ \/ assoc[c] = NoOne /\ assoc' = [assoc EXCEPT ![c] = request[c].addr]
     \/ UNCHANGED assoc
  /\ UNCHANGED <<filtering, recordVars, open, context, connected, flightVars, ctxHistory>>

(* tdi_disassociate_address: the link goes, whatever tcpip.sys will say;   *)
(* associated_fileobj stays.                                               *)
Disassociate(c) ==
  /\ filtering /\ c \in Conns \cap open /\ request[c] = NoOne
  /\ g_cte' = IF c \in ot /\ associated_fileobj[c] # NoOne
              THEN Unlink(g_cte, associated_fileobj[c], conn_ctx[c]) ELSE g_cte
  /\ Sent(c, "disassociate", NoOne, NoOne)
  /\ UNCHANGED <<filtering, ot, conn_ctx, associated_fileobj, laddr, open, assoc, context,
                 connected, flightVars, ctxHistory>>

(* tcpip.sys refuses while the connection is established. *)
TcpipDisassociates(c) ==
  /\ request[c] # NoOne /\ request[c].op = "disassociate"
  /\ request' = [request EXCEPT ![c] = NoOne]
  /\ IF c \in connected
     THEN unlinked' = unlinked \cup {c} /\ UNCHANGED assoc
     ELSE assoc' = [assoc EXCEPT ![c] = NoOne] /\ UNCHANGED unlinked
  /\ UNCHANGED <<filtering, recordVars, open, context, connected, flightVars, spoiled,
                 late, mistaken, misnoted>>

-----------------------------------------------------------------------------
(* Outgoing connections.                                                   *)

(* Fault: an entry of an earlier connection is taken over as it is. *)
Recorded_Over(c, a) ==
  /\ laddr' = IF laddr[c] = NoOne THEN [laddr EXCEPT ![c] = a] ELSE laddr
  /\ late' = IF ucn[c] = NoOne THEN late \ {c} ELSE late \cup {c}
  /\ mistaken' = mistaken \ {c}

(* A connection begins: add_tcp_conn with a local address; it fails if the *)
(* file object still has the entry of an earlier connection.               *)
Recorded(c, a) ==
  /\ laddr[c] = NoOne
  /\ laddr' = [laddr EXCEPT ![c] = a]
  /\ late' = IF ucn[c] = NoOne THEN late \ {c} ELSE late \cup {c}
  /\ mistaken' = mistaken \ {c}

(* tdi_connect of a TCP connection; the local address is that of the       *)
(* address object the driver has noted.  Otherwise it is denied.           *)
Connect(c) ==
  /\ filtering /\ c \in ot \cap open /\ c \notin connected /\ request[c] = NoOne
  /\ associated_fileobj[c] \in ot
  /\ Recorded(c, associated_fileobj[c])
  /\ misnoted' = IF associated_fileobj[c] = assoc[c] THEN misnoted \ {c} ELSE misnoted \cup {c}
  /\ Sent(c, "connect", NoOne, NoOne)
  /\ UNCHANGED <<filtering, ot, conn_ctx, associated_fileobj, g_cte, open, assoc, context,
                 connected, flightVars, unlinked, spoiled>>

(* update_conn_info: the query is sent later from a work item, if there is *)
(* memory for one.  Bound: one query of a connection object at a time.     *)
update_conn_info(c) ==
  \/ ucn[c] = NoOne /\ ucn' = [ucn EXCEPT ![c] = "queued"]
  \/ UNCHANGED ucn

(* tcpip.sys answers; tdi_connect_complete, which forgets one that failed.  *)
TcpipConnects(c) ==
  /\ request[c] # NoOne /\ request[c].op = "connect"
  /\ request' = [request EXCEPT ![c] = NoOne]
  /\ \/ /\ assoc[c] # NoOne
        /\ connected' = connected \cup {c}
        /\ update_conn_info(c)
        /\ UNCHANGED laddr
     \/ /\ laddr' = [laddr EXCEPT ![c] = NoOne]
        /\ UNCHANGED <<connected, ucn>>
  /\ UNCHANGED <<filtering, ot, conn_ctx, associated_fileobj, g_cte, open, assoc, context, event,
                 ctxHistory>>

(* delayed_ucn: the query reaches tcpip.sys, for whatever the file object  *)
(* has become, and is answered or fails; or there is no memory to send it. *)
delayed_ucn(c) ==
  /\ ucn[c] = "queued"
  /\ \E brought \in {assoc[c], Zero, NoOne} : ucn' = [ucn EXCEPT ![c] = brought]
  /\ UNCHANGED <<filtering, recordVars, tcpVars, event, ctxHistory>>

(* update_conn_info_complete: set_tcp_conn_local for the connection that   *)
(* has the file object by now, with whatever is in the buffer; the status  *)
(* of the query is not looked at.                                          *)
update_conn_info_complete(c) ==
  /\ ucn[c] \in Addrs \cup {Zero}
  /\ ucn' = [ucn EXCEPT ![c] = NoOne]
  /\ laddr' = IF c \in ot /\ laddr[c] # NoOne THEN [laddr EXCEPT ![c] = ucn[c]] ELSE laddr
  /\ UNCHANGED <<filtering, ot, conn_ctx, associated_fileobj, g_cte, tcpVars, event, ctxHistory>>

-----------------------------------------------------------------------------
(* Incoming connections.                                                   *)

(* tdi_event_connect up to the call of the client's handler: the address   *)
(* object is found and the guard released; local_addr points into it.      *)
EventConnect(a) ==
  /\ event = NoOne
  /\ a \in ot \cap open
  /\ event' = [addr |-> a, alive |-> TRUE]
  /\ UNCHANGED <<filtering, recordVars, tcpVars, ucn, ctxHistory>>

(* A connection the client can accept on, and the driver knows. *)
Offered(c) ==
  /\ event # NoOne /\ c \in Conns \cap open /\ c \notin connected /\ request[c] = NoOne
  /\ c \in ot

(* The client refuses, or accepts on a connection that the driver does not *)
(* know, finds associated with another address object or cannot unlink, or *)
(* there is no memory: the accept is called off, and what the connection   *)
(* that was found had for an entry is deleted.                             *)
EventRefused ==
  /\ event # NoOne
  /\ event' = NoOne
  /\ \/ UNCHANGED laddr
     \/ \E c \in Conns : Offered(c) /\ laddr' = [laddr EXCEPT ![c] = NoOne]
  /\ UNCHANGED <<filtering, ot, conn_ctx, associated_fileobj, g_cte, tcpVars, ucn, ctxHistory>>

Accepting(c) == Offered(c) /\ associated_fileobj[c] = event.addr

CopiedAddress == IF event.alive THEN event.addr ELSE Freed

(* A client returns the context of the connection, or a new one for it. *)
Returns(c, x) == x = context[c] \/ Unused(x)

(* tcpip.sys will look for the address object it has indicated. *)
AcceptFor == IF event.alive THEN event.addr ELSE NoOne

(* tdi_event_connect goes on with the connection the client accepts it     *)
(* on, under the context the driver has recorded.                          *)
EventAccepted(c) ==
  /\ Accepting(c) /\ Returns(c, conn_ctx[c])
  /\ event' = NoOne
  /\ Recorded(c, CopiedAddress) /\ misnoted' = misnoted \ {c}
  /\ Sent(c, "accept", AcceptFor, conn_ctx[c])
  /\ UNCHANGED <<filtering, ot, conn_ctx, associated_fileobj, g_cte, open, assoc, context,
                 connected, ucn, unlinked, spoiled>>

(* Fault: the new context is not linked. *)
EventAcceptedAs_Unlinked(c, x) ==
  /\ Accepting(c)
  /\ x # conn_ctx[c] /\ Returns(c, x)
  /\ g_cte[<<associated_fileobj[c], conn_ctx[c]>>] # NoOne
  /\ event' = NoOne
  /\ conn_ctx' = [conn_ctx EXCEPT ![c] = x]
  /\ g_cte' = Unlink(g_cte, associated_fileobj[c], conn_ctx[c])
  /\ Recorded(c, CopiedAddress) /\ misnoted' = misnoted \ {c}
  /\ Sent(c, "accept", AcceptFor, x)
  /\ UNCHANGED <<filtering, ot, associated_fileobj, open, assoc, context, connected, ucn,
                 unlinked, spoiled>>

(* The same under another context: the old link goes first, and if there   *)
(* is no memory for the new one, or the addresses or the state table make  *)
(* it fail later, the driver rejects the connection and keeps the change.  *)
EventAcceptedAs(c, x) ==
  /\ Accepting(c)
  /\ x # conn_ctx[c] /\ Returns(c, x)
  /\ g_cte[<<associated_fileobj[c], conn_ctx[c]>>] # NoOne
  /\ event' = NoOne
  /\ conn_ctx' = [conn_ctx EXCEPT ![c] = x]
  /\ LET unlinkedTable == Unlink(g_cte, associated_fileobj[c], conn_ctx[c])
         linkedTable == Link(unlinkedTable, associated_fileobj[c], x, c) IN
     \/ /\ g_cte' = linkedTable
        /\ Recorded(c, CopiedAddress) /\ misnoted' = misnoted \ {c}
        /\ Sent(c, "accept", AcceptFor, x)
        /\ UNCHANGED spoiled
     \/ /\ g_cte' = linkedTable \/ (g_cte[<<event.addr, x>>] = NoOne /\ g_cte' = unlinkedTable)
        /\ spoiled' = spoiled \cup {context[c], x}
        /\ laddr' = [laddr EXCEPT ![c] = NoOne]
        /\ UNCHANGED <<request, late, mistaken, misnoted>>
  /\ UNCHANGED <<filtering, ot, associated_fileobj, open, assoc, context, connected, ucn,
                 unlinked>>

(* The accept reaches tcpip.sys, which refuses it if the address object is *)
(* not the connection's; tdi_evconn_accept_complete.                       *)
TcpipAccepts(c) ==
  /\ request[c] # NoOne /\ request[c].op = "accept"
  /\ request' = [request EXCEPT ![c] = NoOne]
  /\ \/ /\ assoc[c] # NoOne /\ assoc[c] = request[c].addr
        /\ context' = [context EXCEPT ![c] = request[c].ctx]
        /\ connected' = connected \cup {c}
        /\ update_conn_info(c)
        /\ UNCHANGED <<laddr, spoiled>>
     \/ /\ spoiled' = IF request[c].ctx = context[c] THEN spoiled
                      ELSE spoiled \cup {context[c], request[c].ctx}
        /\ laddr' = [laddr EXCEPT ![c] = NoOne]
        /\ UNCHANGED <<context, connected, ucn>>
  /\ UNCHANGED <<filtering, ot, conn_ctx, associated_fileobj, g_cte, open, assoc, event, unlinked,
                 late, mistaken, misnoted>>

-----------------------------------------------------------------------------
(* The end of a connection.                                                *)

(* The client's TDI_DISCONNECT. *)
Disconnect(c) ==
  /\ c \in connected /\ request[c] = NoOne
  /\ connected' = connected \ {c}
  /\ laddr' = IF filtering THEN [laddr EXCEPT ![c] = NoOne] ELSE laddr
  /\ UNCHANGED <<filtering, ot, conn_ctx, associated_fileobj, g_cte, open, assoc, context, request,
                 flightVars, ctxHistory>>

(* tcpip.sys indicates the end of a connection; tdi_event_disconnect, if   *)
(* the driver's handler is there, forgets the connection it finds.         *)
EventDisconnect(c) ==
  /\ c \in connected
  /\ connected' = connected \ {c}
  /\ laddr' = IF assoc[c] \in ot /\ Found(c) # NoOne
              THEN [laddr EXCEPT ![Found(c)] = NoOne] ELSE laddr
  /\ mistaken' = IF Found(c) \in {c, NoOne} THEN mistaken ELSE mistaken \cup {Found(c)}
  /\ UNCHANGED <<filtering, ot, conn_ctx, associated_fileobj, g_cte, open, assoc, context, request,
                 flightVars, unlinked, spoiled, late, misnoted>>

-----------------------------------------------------------------------------
(* What the driver does not see, and its coming and going.                 *)

(* Objects opened while the driver is not attached. *)
UnseenConn(c, x) ==
  /\ ~filtering /\ c \notin open \cup ot /\ Unused(x)
  /\ open' = open \cup {c}
  /\ context' = [context EXCEPT ![c] = x]
  /\ \E a \in (Addrs \cap open) \cup {NoOne} : assoc' = [assoc EXCEPT ![c] = a]
  /\ UNCHANGED <<filtering, recordVars, connected, request, flightVars, ctxHistory>>

UnseenAddr(a) ==
  /\ ~filtering /\ a \notin open \cup ot
  /\ open' = open \cup {a}
  /\ UNCHANGED <<filtering, recordVars, assoc, context, connected, request, flightVars, ctxHistory>>

(* A connection made past the driver: it is not attached, or the address   *)
(* object is older than it.                                                *)
UnseenConnect(c) ==
  /\ c \in Conns \cap open /\ c \notin connected /\ request[c] = NoOne
  /\ assoc[c] # NoOne /\ assoc[c] \notin ot
  /\ connected' = connected \cup {c}
  /\ UNCHANGED <<filtering, recordVars, open, assoc, context, request, flightVars, ctxHistory>>

(* c_n_a_device for \Device\Tcp *)
Attach ==
  /\ ~filtering /\ ot = {} /\ g_cte = NoLinks /\ event = NoOne /\ ucn = Nothing
  /\ request = Nothing
  /\ filtering' = TRUE
  /\ UNCHANGED <<recordVars, tcpVars, flightVars, ctxHistory>>

(* d_n_d_device *)
Detach ==
  /\ filtering
  /\ filtering' = FALSE
  /\ UNCHANGED <<recordVars, tcpVars, flightVars, ctxHistory>>

(* ot_free: both tables are emptied. *)
Forget ==
  /\ ~filtering
  /\ ot' = {} /\ conn_ctx' = Nothing /\ associated_fileobj' = Nothing /\ laddr' = Nothing
  /\ g_cte' = NoLinks
  /\ unlinked' = {} /\ spoiled' = {} /\ late' = {} /\ mistaken' = {} /\ misnoted' = {}
  /\ UNCHANGED <<filtering, tcpVars, flightVars>>

CtxNext ==
  \/ \E c \in Conns, x \in Ctxs : OpenConn(c, x) \/ UnseenConn(c, x) \/ EventAcceptedAs(c, x)
  \/ \E a \in Addrs : OpenAddr(a) \/ UnseenAddr(a) \/ CleanupAddr(a) \/ EventConnect(a)
  \/ \E c \in Conns, a \in Addrs : Associate(c, a)
  \/ \E c \in Conns :
       \/ CleanupConn(c) \/ TcpipClosesConn(c) \/ TcpipAssociates(c)
       \/ Disassociate(c) \/ TcpipDisassociates(c)
       \/ Connect(c) \/ TcpipConnects(c) \/ delayed_ucn(c) \/ update_conn_info_complete(c)
       \/ EventAccepted(c) \/ TcpipAccepts(c) \/ Disconnect(c) \/ EventDisconnect(c)
       \/ UnseenConnect(c)
  \/ EventRefused \/ Attach \/ Detach \/ Forget

CtxSpec == CtxInit /\ [][CtxNext]_ctxVars

-----------------------------------------------------------------------------
(* While the driver is attached, it finds every connection it knows by     *)
(* what tcpip.sys knows it by, once no request on it is under way.         *)
(* Excepted: tcpip.sys refused a disassociation the driver had carried out *)
(* already (disp_obj.c:448), or the context was changed for an accept that *)
(* came to nothing (ev_conn.c:187).                                        *)
LinkTruth ==
  filtering => \A c \in Conns \cap ot :
    assoc[c] # NoOne /\ request[c] = NoOne /\ c \notin unlinked /\ context[c] \notin spoiled
      => Found(c) = c

(* An event of one connection is never taken for another's, neither for    *)
(* one that the driver has never seen, nor through entries of g_cte_hash   *)
(* that tdi_cleanup leaves behind (disp_obj.c:357), with that exception.   *)
EventHitsOwn ==
  filtering => \A c \in Conns \cap open :
    Found(c) \in {c, NoOne} \/ context[c] \in spoiled

(* An established connection has its entry, with the address of the object *)
(* it is made on, or with no address if the query for it has failed        *)
(* (disp_conn.c:395).  Excepted: it began while the driver was still       *)
(* asking for the address of an earlier one on this object                 *)
(* (disp_conn.c:379), or from an association noted but refused by          *)
(* tcpip.sys (disp_obj.c:404), or an event of another one was taken for    *)
(* its own (EventHitsOwn).  What is copied from an ot_entry freed during   *)
(* the client's handler (ev_conn.c:250) never becomes the address of an    *)
(* established one.                                                        *)
RecordedAddress ==
  filtering => \A c \in connected \cap ot :
    assoc[c] \in ot /\ c \notin late \cup mistaken \cup misnoted
      => laddr[c] \in {assoc[c], Zero}
=============================================================================

---------------------------- MODULE ClientProofs ----------------------------
(***************************************************************************)
(* Proofs about what the driver does for its clients: their requests       *)
(* (Dispatch), for any number of them, and their connections (ConnCtx),    *)
(* for any number of connections, address objects and contexts.            *)
(***************************************************************************)
EXTENDS Dispatch, ConnCtx, TLAPS

-----------------------------------------------------------------------------
(* The requests.                                                           *)

(* What is known of a request on each stretch of its way: the client has   *)
(* not been told before the end, a TDI_SKIP_CTX belongs to a request that  *)
(* waits for tdi_skip_complete, and a duty to one that waits for one of    *)
(* the driver's routines.                                                  *)
OnItsWay(i) ==
  /\ i.told = 0 /\ ~i.lost
  /\ i.skip_ctx = (i.way = "skipped")
  /\ i.at = "below" => i.way # "own" /\ (i.way = "passed" => i.duty = {})
  /\ i.at \in {"completing", "returning"} => i.way \in {"copied", "skipped"}
  /\ i.at = "returning" => i.duty = {}

(* What is known of one that is complete. *)
Ended(i) ==
  /\ \/ i.lost /\ i.told = 0
     \/ i.way = "skipped" /\ i.cancel /\ "cancel" \notin i.asks /\ i.told = 0
     \/ i.told = IF Wanted(i) THEN 1 ELSE 0
  /\ i.skip_ctx = FALSE /\ (i.duty # {} => i.lost)

Sound(i) ==
  /\ i \in Irps
  /\ i.at \in {"below", "completing", "returning"} => OnItsWay(i)
  /\ i.at = "done" => Ended(i)

DispatchInv == irp \in [Reqs -> Irps] /\ TCPSendData \in BOOLEAN /\ \A r \in Reqs : Sound(irp[r])

-----------------------------------------------------------------------------
(* A request that no client uses. *)
LEMMA IdleSound == Idle \in Irps /\ Idle.at = "idle" /\ Idle.told = 0 /\ Sound(Idle)
  BY DEF Idle, Irps, Outcomes, Duties, Codes, Sound

(* Completing the client's location. *)
LEMMA IoCompletesSound ==
  ASSUME NEW i \in Irps, i.told = 0, i.skip_ctx = FALSE, i.duty # {} => i.lost
  PROVE  Sound(IoCompletes(i)) /\ IoCompletes(i).at = "done"
<1> DEFINE j == IoCompletes(i)
<1>1. j \in Irps
  <2> DEFINE told == IF Wanted(i) /\ ~i.lost THEN 1 ELSE 0
  <2>1. j = [i EXCEPT !.at = "done", !.told = told]
    BY DEF IoCompletes, Irps
  <2>2. told \in 0..2
    OBVIOUS
  <2> HIDE DEF told, j
  <2> QED BY <2>1, <2>2 DEF Irps
<1>2. /\ j.at = "done" /\ j.told = IF Wanted(i) /\ ~i.lost THEN 1 ELSE 0
      /\ j.lost = i.lost /\ j.skip_ctx = FALSE /\ j.duty = i.duty
      /\ j.status = i.status /\ j.asks = i.asks /\ j.cancel = i.cancel
  BY DEF IoCompletes, Irps
<1>3. Wanted(j) <=> Wanted(i)
  BY <1>2 DEF Wanted
<1>4. Ended(j)
  BY <1>2, <1>3 DEF Ended, Irps
<1> HIDE DEF j
<1>5. Sound(j)
  BY <1>1, <1>2, <1>4 DEF Sound
<1> QED BY <1>2, <1>5 DEF j

(* A step that changes one request into a sound one keeps the invariant. *)
LEMMA OneChanges ==
  ASSUME DispatchInv, NEW r \in Reqs, NEW i, Sound(i),
         irp' = [irp EXCEPT ![r] = i], TCPSendData' \in BOOLEAN
  PROVE  DispatchInv'
  BY DEF DispatchInv, Sound

-----------------------------------------------------------------------------
(* A request arrives. *)
LEMMA ArrivesKeeps ==
  ASSUME DispatchInv, NEW r \in Reqs, NEW code \in Codes, NEW asks \in SUBSET Outcomes,
         Arrives(r, code, asks) \/ tdifw_user_device_dispatch(r, code, asks)
  PROVE  DispatchInv'
<1>1. Idle \in Irps
  BY IdleSound
<1>2. DutyOf(code) \in SUBSET Duties
  BY DEF DutyOf, Duties
<1>3. TCPSendData' \in BOOLEAN
  BY DEF DispatchInv, Arrives, Denied, Passed, Copied, Skipped, SkipFails,
     tdifw_user_device_dispatch
<1>4. CASE Denied(r, code, asks)
  <2> DEFINE i == [Idle EXCEPT !.code = code, !.asks = asks, !.status = "error"]
  <2>1. i \in Irps
    BY <1>1 DEF Irps
  <2>2. i.told = 0 /\ i.skip_ctx = FALSE /\ i.duty = {}
    BY DEF Idle
  <2>3. irp' = [irp EXCEPT ![r] = IoCompletes(i)]
    BY <1>4 DEF Denied, Becomes
  <2> HIDE DEF i
  <2> QED BY <1>3, <2>1, <2>2, <2>3, IoCompletesSound, OneChanges
<1>5. CASE Passed(r, code, asks)
  <2> DEFINE i == [Idle EXCEPT !.code = code, !.asks = asks, !.at = "below", !.way = "passed"]
  <2>1. i \in Irps
    BY <1>1 DEF Irps
  <2>2. i.at = "below" /\ OnItsWay(i)
    BY DEF Idle, OnItsWay
  <2>3. irp' = [irp EXCEPT ![r] = i]
    BY <1>5 DEF Passed, Becomes
  <2> HIDE DEF i
  <2> QED BY <1>3, <2>1, <2>2, <2>3, OneChanges DEF Sound
<1>6. CASE Copied(r, code, asks)
  <2> DEFINE i == [Idle EXCEPT !.code = code, !.asks = asks, !.duty = DutyOf(code),
                               !.at = "below", !.way = "copied"]
  <2>1. i \in Irps
    BY <1>1, <1>2 DEF Irps
  <2>2. i.at = "below" /\ OnItsWay(i)
    BY DEF Idle, OnItsWay
  <2>3. irp' = [irp EXCEPT ![r] = i]
    BY <1>6 DEF Copied, Becomes
  <2> HIDE DEF i
  <2> QED BY <1>3, <2>1, <2>2, <2>3, OneChanges DEF Sound
<1>7. CASE Skipped(r, code, asks)
  <2> DEFINE i == [Idle EXCEPT !.code = code, !.asks = asks, !.duty = DutyOf(code),
                               !.at = "below", !.way = "skipped", !.skip_ctx = TRUE]
  <2>1. i \in Irps
    BY <1>1, <1>2 DEF Irps
  <2>2. i.at = "below" /\ OnItsWay(i)
    BY DEF Idle, OnItsWay
  <2>3. irp' = [irp EXCEPT ![r] = i]
    BY <1>7 DEF Skipped, Becomes
  <2> HIDE DEF i
  <2> QED BY <1>3, <2>1, <2>2, <2>3, OneChanges DEF Sound
<1>8. CASE SkipFails(r, code, asks)
  <2> DEFINE i == [Idle EXCEPT !.code = code, !.asks = asks, !.duty = DutyOf(code),
                               !.status = "error", !.lost = TRUE]
  <2>1. i \in Irps
    BY <1>1, <1>2 DEF Irps
  <2>2. i.told = 0 /\ i.skip_ctx = FALSE /\ i.lost
    BY DEF Idle
  <2>3. irp' = [irp EXCEPT ![r] = IoCompletes(i)]
    BY <1>8 DEF SkipFails, Becomes
  <2> HIDE DEF i
  <2> QED BY <1>3, <2>1, <2>2, <2>3, IoCompletesSound, OneChanges
<1>9. CASE tdifw_user_device_dispatch(r, code, asks)
  <2> DEFINE i == [Idle EXCEPT !.code = code, !.asks = asks, !.lost = TRUE]
  <2>1. i \in Irps
    BY <1>1 DEF Irps
  <2>2. i.told = 0 /\ i.skip_ctx = FALSE /\ i.lost
    BY DEF Idle
  <2>3. irp' = [irp EXCEPT ![r] = IoCompletes(i)]
    BY <1>9 DEF tdifw_user_device_dispatch, Becomes
  <2> HIDE DEF i
  <2> QED BY <1>3, <2>1, <2>2, <2>3, IoCompletesSound, OneChanges
<1> QED BY <1>4, <1>5, <1>6, <1>7, <1>8, <1>9 DEF Arrives

(* tcpip.sys completes it. *)
LEMMA TcpipCompletesKeeps ==
  ASSUME DispatchInv, NEW r \in Reqs, NEW status \in {"success", "error"},
         TcpipCompletes(r, status)
  PROVE  DispatchInv'
<1> DEFINE i == [irp[r] EXCEPT !.status = status]
<1>1. irp[r] \in Irps /\ irp[r].at = "below" /\ OnItsWay(irp[r])
  BY DEF DispatchInv, Sound, TcpipCompletes
<1>2. TCPSendData' \in BOOLEAN
  BY DEF DispatchInv, TcpipCompletes
<1>3. i \in Irps /\ i.told = 0 /\ ~i.lost /\ i.way = irp[r].way
  BY <1>1 DEF Irps, OnItsWay
<1>4. CASE irp[r].way = "passed"
  <2>1. irp' = [irp EXCEPT ![r] = IoCompletes(i)]
    BY <1>3, <1>4 DEF TcpipCompletes
  <2>2. i.skip_ctx = FALSE /\ i.duty = {}
    BY <1>1, <1>4 DEF Irps, OnItsWay
  <2> HIDE DEF i
  <2> QED BY <1>2, <1>3, <2>1, <2>2, IoCompletesSound, OneChanges
<1>5. CASE irp[r].way # "passed"
  <2> DEFINE j == [i EXCEPT !.at = "completing"]
  <2>1. irp' = [irp EXCEPT ![r] = j]
    BY <1>3, <1>5 DEF TcpipCompletes
  <2>2. Sound(j)
    BY <1>1, <1>5 DEF Irps, OnItsWay, Sound
  <2> HIDE DEF j
  <2> QED BY <1>2, <2>1, <2>2, OneChanges
<1> QED BY <1>4, <1>5

(* It is cancelled. *)
LEMMA CancelKeeps == ASSUME DispatchInv, NEW r \in Reqs, IoCancelIrp(r) PROVE DispatchInv'
<1> DEFINE i == [irp[r] EXCEPT !.cancel = TRUE]
<1>1. irp[r] \in Irps /\ irp[r].at \in {"below", "completing", "returning"} /\ OnItsWay(irp[r])
  BY DEF DispatchInv, Sound, IoCancelIrp
<1>2. Sound(i)
  BY <1>1 DEF Irps, OnItsWay, Sound
<1>3. irp' = [irp EXCEPT ![r] = i] /\ TCPSendData' \in BOOLEAN
  BY DEF IoCancelIrp, DispatchInv
<1> HIDE DEF i
<1> QED BY <1>2, <1>3, OneChanges

(* The driver's routines. *)
LEMMA CompletesKeeps == ASSUME DispatchInv, NEW r \in Reqs, Completes(r) PROVE DispatchInv'
<1>1. irp[r] \in Irps /\ OnItsWay(irp[r]) /\ irp[r].at \in {"completing", "returning"}
  BY DEF DispatchInv, Sound, Completes, CompletionRoutine, tdi_generic_complete, tdi_skip_complete
<1>2. TCPSendData' \in BOOLEAN
  BY DEF DispatchInv, Completes, CompletionRoutine, tdi_generic_complete, tdi_skip_complete
<1>3. ASSUME NEW status \in {"success", "error"}, CompletionRoutine(r, status)
      PROVE  DispatchInv'
  <2> DEFINE i == [irp[r] EXCEPT !.at = "returning", !.status = status, !.duty = {}]
  <2>1. Sound(i)
    BY <1>1, <1>3 DEF Irps, OnItsWay, Sound, CompletionRoutine
  <2>2. irp' = [irp EXCEPT ![r] = i]
    BY <1>3 DEF CompletionRoutine, DispatchInv
  <2> HIDE DEF i
  <2> QED BY <1>2, <2>1, <2>2, OneChanges
<1>4. CASE tdi_generic_complete(r)
  <2>1. irp' = [irp EXCEPT ![r] = IoCompletes(irp[r])]
    BY <1>4 DEF tdi_generic_complete
  <2>2. irp[r].told = 0 /\ irp[r].skip_ctx = FALSE /\ irp[r].duty = {}
    BY <1>1, <1>4 DEF OnItsWay, tdi_generic_complete
  <2> QED BY <1>1, <1>2, <2>1, <2>2, IoCompletesSound, OneChanges
<1>5. CASE tdi_skip_complete(r)
  <2> DEFINE b_call == IF irp[r].cancel THEN "cancel" \in irp[r].asks
                                        ELSE irp[r].status \in irp[r].asks
             i == [irp[r] EXCEPT !.at = "done", !.skip_ctx = FALSE,
                                 !.told = IF b_call THEN @ + 1 ELSE @]
  <2>1. irp' = [irp EXCEPT ![r] = i]
    BY <1>5 DEF tdi_skip_complete, DispatchInv
  <2>2. irp[r].told = 0 /\ irp[r].duty = {} /\ irp[r].way = "skipped"
    BY <1>1, <1>5 DEF OnItsWay, tdi_skip_complete
  <2>3. i \in Irps
    <3> DEFINE told == IF b_call THEN 1 ELSE 0
    <3>1. i = [irp[r] EXCEPT !.at = "done", !.skip_ctx = FALSE, !.told = told]
      BY <1>1, <2>2 DEF Irps
    <3>2. told \in 0..2
      OBVIOUS
    <3> HIDE DEF told, i
    <3> QED BY <1>1, <3>1, <3>2 DEF Irps
  <2>4. /\ i.at = "done" /\ i.told = IF b_call THEN 1 ELSE 0
        /\ i.skip_ctx = FALSE /\ i.duty = {} /\ i.way = "skipped"
        /\ i.status = irp[r].status /\ i.asks = irp[r].asks /\ i.cancel = irp[r].cancel
    BY <1>1, <2>2 DEF Irps
  <2> HIDE DEF i
  <2>5. Ended(i)
    BY <2>3, <2>4 DEF Ended, Wanted, Irps
  <2> QED BY <1>2, <2>1, <2>3, <2>4, <2>5, OneChanges DEF Sound
<1> QED BY <1>3, <1>4, <1>5 DEF Completes

(* The client takes it back. *)
LEMMA ReusedKeeps == ASSUME DispatchInv, NEW r \in Reqs, Reused(r) PROVE DispatchInv'
  BY IdleSound, OneChanges DEF Reused, DispatchInv

-----------------------------------------------------------------------------
(* The initial states satisfy the invariant. *)
LEMMA DispatchInitially == DispatchInit => DispatchInv
  BY IdleSound DEF DispatchInit, DispatchInv

(* Every step of a request keeps it. *)
LEMMA DispatchStep == DispatchInv /\ [DispatchNext]_dispatchVars => DispatchInv'
<1> SUFFICES ASSUME DispatchInv, [DispatchNext]_dispatchVars PROVE DispatchInv'
  OBVIOUS
<1>1. CASE UNCHANGED dispatchVars
  BY <1>1 DEF dispatchVars, DispatchInv
<1>2. CASE DispatchNext
  <2> PICK r \in Reqs :
        \/ \E code \in Codes, asks \in SUBSET Outcomes :
             Arrives(r, code, asks) \/ tdifw_user_device_dispatch(r, code, asks)
        \/ \E status \in {"success", "error"} : TcpipCompletes(r, status)
        \/ IoCancelIrp(r) \/ Completes(r) \/ Reused(r)
    BY <1>2 DEF DispatchNext
  <2> QED BY ArrivesKeeps, TcpipCompletesKeeps, CancelKeeps, CompletesKeeps, ReusedKeeps
<1> QED BY <1>1, <1>2

(* What the invariant says of complete requests. *)
LEMMA DispatchInvImplies == DispatchInv => DispatchTypeOK /\ ClientTold /\ DutiesDone
  BY DEF DispatchInv, Sound, Ended, DispatchTypeOK, ClientTold, DutiesDone

(* The records of the requests keep their types (tdi_fw.c). *)
THEOREM DispatchTypeCorrect == DispatchSpec => []DispatchTypeOK
  BY DispatchInitially, DispatchStep, DispatchInvImplies, PTL DEF DispatchSpec

(* The client's completion routine is called once and only when the client *)
(* wants it, with the exceptions ClientTold names (tdi_fw.c:875-917).      *)
THEOREM ClientsAreTold == DispatchSpec => []ClientTold
  BY DispatchInitially, DispatchStep, DispatchInvImplies, PTL DEF DispatchSpec

(* A complete request leaves nothing behind in the driver, unless its      *)
(* TDI_SKIP_CTX could not be allocated (tdi_fw.c:769-791).                 *)
THEOREM NoDutyRemains == DispatchSpec => []DutiesDone
  BY DispatchInitially, DispatchStep, DispatchInvImplies, PTL DEF DispatchSpec

-----------------------------------------------------------------------------
(* The connection objects (ConnCtx).  The invariant has three parts: what  *)
(* tcpip.sys knows, what the driver has recorded, and the index between    *)
(* the two.  It is true with and without the driver attached.              *)

(* A request of this kind is on its way for the connection. *)
Op(c, o) == request[c] # NoOne /\ request[c].op = o

(* The context is that of the connection, or is to become it. *)
Uses(c, x) == context[c] = x \/ (request[c] # NoOne /\ request[c].ctx = x)

(* tcpip.sys knows nothing of what is not open, and what is associated or  *)
(* established is so with an open address object.                          *)
Objects == \A c \in Conns :
  /\ c \in open => context[c] \in Ctxs
  /\ c \notin open =>
       context[c] = NoOne /\ assoc[c] = NoOne /\ c \notin connected /\ request[c] = NoOne
  /\ assoc[c] # NoOne => assoc[c] \in open
  /\ c \in connected => assoc[c] # NoOne

(* What a request on its way presumes is still so. *)
UnderWay == \A c \in Conns :
  /\ Op(c, "associate") => request[c].addr \in Addrs \cap open
  /\ Op(c, "connect") \/ Op(c, "accept") => c \notin connected
  /\ request[c] # NoOne => IF request[c].op = "accept" THEN request[c].ctx \in Ctxs
                                                       ELSE request[c].ctx = NoOne

(* A context belongs to one connection. *)
OneUser == \A c, d \in Conns, x \in Ctxs : Uses(c, x) /\ Uses(d, x) => c = d

TcpipInv == Objects /\ UnderWay /\ OneUser

(* The driver has a record of what is in the object table, and no other. *)
Unknown == \A c \in Conns :
  /\ c \notin ot => conn_ctx[c] = NoOne /\ associated_fileobj[c] = NoOne /\ laddr[c] = NoOne
  /\ c \in ot => conn_ctx[c] \in Ctxs

(* What the driver passes on is what it has recorded. *)
Passing == filtering =>
  /\ ot \cap Addrs \subseteq open
  /\ \A c \in Conns :
       /\ Op(c, "associate") \/ Op(c, "connect") \/ Op(c, "accept") => c \in ot
       /\ Op(c, "accept") => request[c].ctx = conn_ctx[c]

(* The context recorded is the connection's, or both are spoiled. *)
Current == filtering => \A c \in Conns \cap ot \cap open :
  Uses(c, conn_ctx[c]) \/ (conn_ctx[c] \in spoiled /\ context[c] \in spoiled)

RecordInv == Unknown /\ Passing /\ Current

(* The address objects a connection is associated with, or is to be.  What *)
(* the driver has noted can be another one, which tcpip.sys has refused.   *)
PlaceOf(c, a) ==
  \/ assoc[c] # NoOne /\ a = assoc[c]
  \/ Op(c, "associate") /\ a = request[c].addr

LinkAt(c, a) == g_cte[<<a, conn_ctx[c]>>]

(* An accept under another context that tcpip.sys is going to refuse. *)
Misled(c) == Op(c, "accept") /\ request[c].addr # assoc[c] /\ conn_ctx[c] # context[c]

(* No other connection is at its places, and it is itself there from the   *)
(* association on to the disassociation.                                   *)
Linked == filtering => \A c \in Conns \cap ot \cap open, a \in Addrs :
  conn_ctx[c] \notin spoiled /\ ~Misled(c) /\ PlaceOf(c, a) =>
    /\ LinkAt(c, a) \in {c, NoOne}
    /\ c \notin unlinked /\ ~Op(c, "disassociate") => LinkAt(c, a) = c

(* Nor is another one at the place that tcpip.sys would look at. *)
Own == filtering => \A c \in Conns \cap open :
  assoc[c] # NoOne /\ context[c] \notin spoiled => Found(c) \in {c, NoOne}

LinkInv == Linked /\ Own

(* The local address recorded, and the one a query will bring, before a    *)
(* connection is established and while it is.                              *)
Addresses == filtering => \A c \in Conns \cap ot : c \notin late \cup mistaken \cup misnoted =>
  /\ c \in connected /\ assoc[c] \in ot =>
       laddr[c] \in {assoc[c], Zero} /\ (ucn[c] \in Addrs => ucn[c] = assoc[c])
  /\ Op(c, "connect") => ucn[c] = NoOne /\ (assoc[c] # NoOne => laddr[c] = assoc[c])
  /\ Op(c, "accept") /\ request[c].addr # NoOne => ucn[c] = NoOne /\ laddr[c] = request[c].addr

CtxInv == CtxTypeOK /\ TcpipInv /\ RecordInv /\ LinkInv /\ Addresses

(* A context that is not spoiled belongs to one connection in the driver's *)
(* records as well.                                                        *)
LEMMA OneContext ==
  ASSUME CtxInv, filtering, NEW c \in Conns \cap ot \cap open, NEW d \in Conns,
         conn_ctx[c] \notin spoiled,
         Uses(d, conn_ctx[c]) \/ (d \in ot \cap open /\ conn_ctx[d] = conn_ctx[c])
  PROVE  d = c
<1>1. conn_ctx[c] \in Ctxs /\ Uses(c, conn_ctx[c])
  BY DEF CtxInv, RecordInv, Unknown, Current
<1>2. Uses(d, conn_ctx[c])
  BY DEF CtxInv, RecordInv, Current
<1> QED BY <1>1, <1>2 DEF CtxInv, TcpipInv, OneUser

(* A request is sent. *)
LEMMA SentMeans ==
  ASSUME CtxTypeOK, NEW c \in Conns, NEW o \in Ops,
         NEW a \in Addrs \cup {NoOne}, NEW x \in Ctxs \cup {NoOne}, Sent(c, o, a, x)
  PROVE  /\ request' \in [Conns -> ConnRequests \cup {NoOne}]
         /\ request'[c] # NoOne
         /\ request'[c].op = o /\ request'[c].addr = a /\ request'[c].ctx = x
         /\ \A d \in Conns : d # c => request'[d] = request[d]
  BY CtxAssumption DEF CtxTypeOK, Sent, ConnRequests

(* A request is answered. *)
LEMMA AnsweredMeans ==
  ASSUME CtxTypeOK, NEW c \in Conns, request' = [request EXCEPT ![c] = NoOne]
  PROVE  /\ request' \in [Conns -> ConnRequests \cup {NoOne}]
         /\ request'[c] = NoOne
         /\ \A d \in Conns : d # c => request'[d] = request[d]
  BY DEF CtxTypeOK

(* The states of g_cte_hash. *)
LinkTables == [Addrs \X Ctxs -> Conns \cup {NoOne}]

(* ot_add_conn_ctx changes one entry. *)
LEMMA LinkMeans ==
  ASSUME NEW table \in LinkTables, NEW a \in Addrs, NEW x \in Ctxs, NEW c \in Conns
  PROVE  /\ Link(table, a, x, c) \in LinkTables
         /\ Link(table, a, x, c)[<<a, x>>] = c
         /\ \A b \in Addrs, y \in Ctxs :
              b # a \/ y # x => Link(table, a, x, c)[<<b, y>>] = table[<<b, y>>]
  BY DEF LinkTables, Link

(* ot_del_conn_ctx changes one entry. *)
LEMMA UnlinkMeans ==
  ASSUME NEW table \in LinkTables, NEW a \in Addrs, NEW x \in Ctxs
  PROVE  /\ Unlink(table, a, x) \in LinkTables
         /\ Unlink(table, a, x)[<<a, x>>] = NoOne
         /\ \A b \in Addrs, y \in Ctxs :
              b # a \/ y # x => Unlink(table, a, x)[<<b, y>>] = table[<<b, y>>]
  BY DEF LinkTables, Unlink

-----------------------------------------------------------------------------
(* One lemma per operation on connections: each of the parts is kept.      *)

(* tdi_create of a connection (disp_obj.c). *)
LEMMA OpenConnKeeps ==
  ASSUME CtxInv, NEW c \in Conns, NEW x \in Ctxs, OpenConn(c, x)
  PROVE  CtxInv'
<1>1. CtxTypeOK'
  BY DEF CtxInv, OpenConn, flightVars, CtxTypeOK
<1>2. TcpipInv'
  BY DEF CtxInv, OpenConn, Unused, TcpipInv, Objects, UnderWay, OneUser, Op,
     Uses, CtxTypeOK
<1>3. RecordInv'
  BY CtxAssumption DEF CtxInv, OpenConn, Unused, RecordInv, Unknown, Passing,
     Current, TcpipInv, Objects, Op, Uses, CtxTypeOK
<1>4. LinkInv'
  BY DEF CtxInv, OpenConn, Unused, LinkInv, Linked, Own, Found, LinkAt, PlaceOf, Misled,
     TcpipInv, Objects, Op, CtxTypeOK
<1>5. Addresses'
  BY DEF CtxInv, OpenConn, flightVars, Addresses, TcpipInv, Objects, Op
<1> QED BY <1>1, <1>2, <1>3, <1>4, <1>5 DEF CtxInv

(* tdi_create of an address object. *)
LEMMA OpenAddrKeeps ==
  ASSUME CtxInv, NEW a \in Addrs, OpenAddr(a)
  PROVE  CtxInv'
<1>1. CtxTypeOK'
  BY DEF CtxInv, OpenAddr, flightVars, ctxHistory, CtxTypeOK
<1>2. TcpipInv'
  BY CtxAssumption DEF CtxInv, OpenAddr, TcpipInv, Objects, UnderWay, OneUser, Op, Uses
<1>3. RecordInv'
  BY CtxAssumption DEF CtxInv, OpenAddr, ctxHistory, RecordInv, Unknown, Passing,
     Current, Op, Uses
<1>4. LinkInv'
  BY CtxAssumption DEF CtxInv, OpenAddr, ctxHistory, LinkInv, Linked, Own, Found, LinkAt, PlaceOf,
     Misled, Op
<1>5. Addresses'
  BY DEF CtxInv, OpenAddr, flightVars, ctxHistory, Addresses, TcpipInv,
     Objects, Op
<1> QED BY <1>1, <1>2, <1>3, <1>4, <1>5 DEF CtxInv

(* tdi_cleanup of a connection. *)
LEMMA CleanupConnKeeps ==
  ASSUME CtxInv, NEW c \in Conns, CleanupConn(c)
  PROVE  CtxInv'
<1>1. CtxTypeOK'
  <2>1. request' \in [Conns -> ConnRequests \cup {NoOne}]
    BY SentMeans DEF CleanupConn, CtxInv, Ops
  <2> QED BY <2>1 DEF CtxInv, CleanupConn, Forgotten, flightVars, ctxHistory, CtxTypeOK
<1>2. Objects'
  BY DEF CtxInv, CleanupConn, Sent, TcpipInv, Objects
<1>3. UnderWay'
  BY DEF CtxInv, CleanupConn, Sent, TcpipInv, UnderWay, Op
<1>4. OneUser'
  BY CtxAssumption DEF CtxInv, CleanupConn, Sent, TcpipInv, OneUser, Uses
<1>5. Unknown'
  BY DEF CtxInv, CleanupConn, Forgotten, RecordInv, Unknown, CtxTypeOK
<1>6. Passing'
  BY DEF CtxInv, CleanupConn, Sent, Forgotten, RecordInv, Passing, Op, CtxTypeOK
<1>7. Current'
  BY DEF CtxInv, CleanupConn, Sent, Forgotten, ctxHistory, RecordInv,
     Current, Uses, CtxTypeOK
<1>8. Linked'
  BY DEF CtxInv, CleanupConn, Sent, Forgotten, ctxHistory, LinkInv, Linked,
     LinkAt, PlaceOf, Misled, Op, CtxTypeOK
<1>9. Own'
  BY DEF CtxInv, CleanupConn, ctxHistory, LinkInv, Own, Found
<1>10. Addresses'
  BY DEF CtxInv, CleanupConn, Sent, Forgotten, flightVars, ctxHistory,
     Addresses, Op, CtxTypeOK
<1> QED BY <1>1, <1>2, <1>3, <1>4, <1>5, <1>6, <1>7, <1>8, <1>9, <1>10 DEF CtxInv,
   TcpipInv, RecordInv, LinkInv

(* tcpip.sys has closed it. *)
LEMMA TcpipClosesConnKeeps ==
  ASSUME CtxInv, NEW c \in Conns, TcpipClosesConn(c)
  PROVE  CtxInv'
<1>1. CtxTypeOK'
  BY DEF CtxInv, TcpipClosesConn, recordVars, flightVars, CtxTypeOK
<1>2. TcpipInv'
  BY CtxAssumption DEF CtxInv, TcpipClosesConn, TcpipInv, Objects, UnderWay, OneUser, Op,
     Uses, CtxTypeOK
<1>3. RecordInv'
  BY CtxAssumption DEF CtxInv, TcpipClosesConn, recordVars, RecordInv, Unknown, Passing, Current,
     Op, Uses
<1>4. LinkInv'
  BY DEF CtxInv, TcpipClosesConn, recordVars, LinkInv, Linked, Own, Found,
     LinkAt, PlaceOf, Misled, Op
<1>5. Addresses'
  BY DEF CtxInv, TcpipClosesConn, recordVars, flightVars, Addresses, Op
<1> QED BY <1>1, <1>2, <1>3, <1>4, <1>5 DEF CtxInv

(* tdi_cleanup of an address object. *)
LEMMA CleanupAddrKeeps ==
  ASSUME CtxInv, NEW a \in Addrs, CleanupAddr(a)
  PROVE  CtxInv'
<1>1. CtxTypeOK'
  BY DEF CtxInv, CleanupAddr, ctxHistory, CtxTypeOK, ConnEvents
<1>2. TcpipInv'
  BY CtxAssumption DEF CtxInv, CleanupAddr, TcpipInv, Objects, UnderWay, OneUser, Op, Uses
<1>3. RecordInv'
  BY CtxAssumption DEF CtxInv, CleanupAddr, ctxHistory, RecordInv, Unknown, Passing,
     Current, Op, Uses
<1>4. LinkInv'
  BY DEF CtxInv, CleanupAddr, ctxHistory, LinkInv, Linked, Own, Found,
     LinkAt, PlaceOf, Misled, Op
<1>5. Addresses'
  BY DEF CtxInv, CleanupAddr, ctxHistory, Addresses, Op
<1> QED BY <1>1, <1>2, <1>3, <1>4, <1>5 DEF CtxInv

(* tdi_associate_address. *)
LEMMA AssociateKeeps ==
  ASSUME CtxInv, NEW c \in Conns, NEW a \in Addrs, Associate(c, a)
  PROVE  CtxInv'
<1>1. conn_ctx[c] \in Ctxs /\ CtxTypeOK /\ g_cte \in LinkTables
  BY DEF CtxInv, RecordInv, Unknown, Associate, CtxTypeOK, LinkTables
<1>2. request' \in [Conns -> ConnRequests \cup {NoOne}]
  BY <1>1, SentMeans DEF Associate, CtxTypeOK, Ops
<1>3. g_cte' \in LinkTables
  BY <1>1, LinkMeans DEF Associate
<1>4. CtxTypeOK'
  BY <1>1, <1>2, <1>3 DEF Associate, CtxTypeOK, LinkTables, flightVars, ctxHistory
<1>5. Linked'
  <2> SUFFICES ASSUME filtering', NEW d \in Conns \cap ot' \cap open', NEW b \in Addrs,
                      conn_ctx'[d] \notin spoiled', ~Misled(d)', PlaceOf(d, b)'
               PROVE  /\ LinkAt(d, b)' \in {d, NoOne}
                      /\ d \notin unlinked' /\ ~Op(d, "disassociate")' => LinkAt(d, b)' = d
    BY DEF Linked
  <2>1. /\ conn_ctx' = conn_ctx /\ assoc' = assoc /\ context' = context /\ filtering
        /\ ot' = ot /\ open' = open /\ unlinked' = unlinked /\ spoiled' = spoiled
        /\ c \in ot \cap open /\ request[c] = NoOne /\ conn_ctx[d] \in Ctxs
    BY DEF Associate, ctxHistory, CtxInv, RecordInv, Unknown
  <2>2. \A e \in Conns : e # c => request'[e] = request[e]
    BY <1>1, SentMeans DEF Associate, Ops
  <2>3. CASE d = c
    <3>1. CASE g_cte' = g_cte /\ request' = request
      BY <2>1, <2>3, <3>1 DEF CtxInv, LinkInv, Linked, LinkAt, PlaceOf, Misled, Op
    <3>2. CASE g_cte' = Link(g_cte, a, conn_ctx[c], c) /\ Sent(c, "associate", a, NoOne)
      <4>1. request'[c] # NoOne /\ request'[c].op = "associate" /\ request'[c].addr = a
        BY <1>1, <3>2, SentMeans DEF Ops
      <4>2. CASE b = a
        BY <1>1, <2>1, <2>3, <3>2, <4>2, LinkMeans DEF LinkAt
      <4>3. CASE b # a
        <5>1. LinkAt(d, b)' = LinkAt(d, b)
          <6>1. Link(g_cte, a, conn_ctx[c], c)[<<b, conn_ctx[c]>>] = g_cte[<<b, conn_ctx[c]>>]
            BY <1>1, <4>3 DEF Link, LinkTables
          <6> QED BY <2>1, <2>3, <3>2, <6>1 DEF LinkAt
        <5>2. PlaceOf(d, b)
          BY <2>1, <2>3, <4>1, <4>3 DEF PlaceOf, Op
        <5> QED BY <2>1, <2>3, <5>1, <5>2 DEF CtxInv, LinkInv, Linked, Misled, Op
      <4> QED BY <4>2, <4>3
    <3> QED BY <3>1, <3>2 DEF Associate
  <2>4. CASE d # c
    <3>1. conn_ctx[d] # conn_ctx[c]
      BY <2>1, <2>4, OneContext
    <3>2. LinkAt(d, b)' = LinkAt(d, b)
      <4>1. Link(g_cte, a, conn_ctx[c], c)[<<b, conn_ctx[d]>>] = g_cte[<<b, conn_ctx[d]>>]
        BY <1>1, <2>1, <3>1 DEF Link, LinkTables
      <4>2. g_cte' \in {g_cte, Link(g_cte, a, conn_ctx[c], c)}
        BY DEF Associate
      <4> QED BY <2>1, <4>1, <4>2 DEF LinkAt
    <3> QED BY <2>1, <2>2, <2>4, <3>2 DEF CtxInv, LinkInv, Linked, PlaceOf, Misled, Op
  <2> QED BY <2>3, <2>4
<1>6. Objects'
  BY DEF CtxInv, Associate, Sent, TcpipInv, Objects, CtxTypeOK
<1>7. UnderWay'
  BY DEF CtxInv, Associate, Sent, TcpipInv, UnderWay, Op, CtxTypeOK
<1>8. OneUser'
  BY CtxAssumption DEF CtxInv, Associate, Sent, TcpipInv, OneUser, Uses, CtxTypeOK
<1>9. Unknown'
  BY DEF CtxInv, Associate, RecordInv, Unknown
<1>10. Passing'
  BY DEF CtxInv, Associate, Sent, RecordInv, Passing, Op, CtxTypeOK
<1>11. Current'
  BY DEF CtxInv, Associate, Sent, ctxHistory, RecordInv, Current, Uses,
     CtxTypeOK
<1>12. Own'
  <2> SUFFICES ASSUME filtering', NEW d \in Conns \cap open', assoc'[d] # NoOne,
                      context'[d] \notin spoiled'
               PROVE  Found(d)' \in {d, NoOne}
    BY DEF Own
  <2>1. /\ filtering /\ d \in open /\ assoc[d] \in Addrs /\ context[d] \in Ctxs
        /\ context[d] \notin spoiled /\ g_cte[<<assoc[d], context[d]>>] \in {d, NoOne}
        /\ Found(d)' = g_cte'[<<assoc[d], context[d]>>]
    BY DEF Associate, ctxHistory, CtxInv, CtxTypeOK, TcpipInv, Objects, LinkInv, Own, Found
  <2>2. d # c => context[d] # conn_ctx[c]
    BY <2>1, OneContext DEF Associate, Uses
  <2>3. Link(g_cte, a, conn_ctx[c], c)[<<assoc[d], context[d]>>] \in {d, NoOne}
    BY <1>1, <2>1, <2>2 DEF Link, LinkTables
  <2>4. g_cte' \in {g_cte, Link(g_cte, a, conn_ctx[c], c)}
    BY DEF Associate
  <2> QED BY <2>1, <2>3, <2>4
<1>13. Addresses'
  BY DEF CtxInv, Associate, Sent, flightVars, ctxHistory, Addresses, Op,
     CtxTypeOK
<1> QED BY <1>4, <1>5, <1>6, <1>7, <1>8, <1>9, <1>10, <1>11, <1>12, <1>13 DEF CtxInv,
   TcpipInv, RecordInv, LinkInv

(* tcpip.sys associates or refuses. *)
LEMMA TcpipAssociatesKeeps ==
  ASSUME CtxInv, NEW c \in Conns, TcpipAssociates(c)
  PROVE  CtxInv'
<1>1. CtxTypeOK'
  BY DEF CtxInv, TcpipAssociates, recordVars, flightVars, ctxHistory, CtxTypeOK,
     ConnRequests
<1>2. TcpipInv'
  BY DEF CtxInv, TcpipAssociates, TcpipInv, Objects, UnderWay, OneUser, Op,
     Uses, CtxTypeOK
<1>3. RecordInv'
  BY CtxAssumption DEF CtxInv, TcpipAssociates, recordVars, ctxHistory, RecordInv, Unknown,
     Passing, Current, TcpipInv, UnderWay, Op, Uses, CtxTypeOK
<1>4. LinkInv'
  BY CtxAssumption DEF CtxInv, TcpipAssociates, recordVars, ctxHistory, LinkInv, Linked,
     Own, Found, LinkAt, PlaceOf, Misled, RecordInv, Unknown, Passing, Current, TcpipInv,
     UnderWay, Op, Uses,
     CtxTypeOK, ConnEvents
<1>5. Addresses'
  BY DEF CtxInv, TcpipAssociates, recordVars, flightVars, ctxHistory,
     Addresses, TcpipInv, Objects, UnderWay, Op, CtxTypeOK
<1> QED BY <1>1, <1>2, <1>3, <1>4, <1>5 DEF CtxInv

(* tdi_disassociate_address. *)
LEMMA DisassociateKeeps ==
  ASSUME CtxInv, NEW c \in Conns, Disassociate(c)
  PROVE  CtxInv'
<1>1. Linked'
  <2> SUFFICES ASSUME filtering', NEW d \in Conns \cap ot' \cap open', NEW b \in Addrs,
                      conn_ctx'[d] \notin spoiled', ~Misled(d)', PlaceOf(d, b)'
               PROVE  /\ LinkAt(d, b)' \in {d, NoOne}
                      /\ d \notin unlinked' /\ ~Op(d, "disassociate")' => LinkAt(d, b)' = d
    BY DEF Linked
  <2>1. /\ conn_ctx' = conn_ctx /\ assoc' = assoc /\ context' = context /\ filtering
        /\ ot' = ot /\ open' = open /\ unlinked' = unlinked /\ spoiled' = spoiled
        /\ request[c] = NoOne /\ conn_ctx[d] \in Ctxs /\ CtxTypeOK /\ g_cte \in LinkTables
    BY DEF Disassociate, ctxHistory, CtxInv, RecordInv, Unknown, CtxTypeOK, LinkTables
  <2>2. request'[c] # NoOne /\ request'[c].op = "disassociate"
    BY <2>1, SentMeans DEF Disassociate, Ops
  <2>3. \A e \in Conns : e # c => request'[e] = request[e]
    BY <2>1, SentMeans DEF Disassociate, Ops
  <2>4. PlaceOf(d, b) /\ ~Misled(d)
    BY <2>1, <2>2, <2>3 DEF PlaceOf, Misled, Op
  <2>5. /\ LinkAt(d, b) \in {d, NoOne}
        /\ d \notin unlinked /\ ~Op(d, "disassociate") => LinkAt(d, b) = d
    BY <2>1, <2>4 DEF CtxInv, LinkInv, Linked
  <2>6. CASE g_cte' = g_cte
    BY <2>1, <2>2, <2>3, <2>5, <2>6 DEF LinkAt, Op
  <2>7. CASE /\ c \in ot /\ associated_fileobj[c] # NoOne
             /\ g_cte' = Unlink(g_cte, associated_fileobj[c], conn_ctx[c])
    <3>1. associated_fileobj[c] \in Addrs /\ conn_ctx[c] \in Ctxs
      BY <2>7 DEF CtxInv, RecordInv, Unknown, CtxTypeOK
    <3>2. CASE d = c
      <4>1. LinkAt(d, b)' \in {LinkAt(d, b), NoOne}
        <5>1. Unlink(g_cte, associated_fileobj[c], conn_ctx[c])[<<b, conn_ctx[c]>>]
                \in {g_cte[<<b, conn_ctx[c]>>], NoOne}
          BY <2>1, <3>1 DEF Unlink, LinkTables
        <5> QED BY <2>1, <2>7, <3>2, <5>1 DEF LinkAt
      <4> QED BY <2>2, <2>5, <3>2, <4>1 DEF Op
    <3>3. CASE d # c
      <4>1. conn_ctx[d] # conn_ctx[c]
        BY <2>1, <2>7, <3>3, OneContext DEF Disassociate
      <4>2. LinkAt(d, b)' = LinkAt(d, b)
        <5>1. Unlink(g_cte, associated_fileobj[c], conn_ctx[c])[<<b, conn_ctx[d]>>]
                = g_cte[<<b, conn_ctx[d]>>]
          BY <2>1, <3>1, <4>1 DEF Unlink, LinkTables
        <5> QED BY <2>1, <2>7, <5>1 DEF LinkAt
      <4> QED BY <2>1, <2>3, <2>5, <3>3, <4>2 DEF Op
    <3> QED BY <3>2, <3>3
  <2> QED BY <2>6, <2>7 DEF Disassociate
<1>2. CtxTypeOK'
  BY DEF CtxInv, Disassociate, Sent, Unlink, flightVars, ctxHistory, CtxTypeOK,
     ConnRequests, Ops
<1>3. Objects'
  BY DEF CtxInv, Disassociate, Sent, TcpipInv, Objects
<1>4. UnderWay'
  BY DEF CtxInv, Disassociate, Sent, TcpipInv, UnderWay, Op
<1>5. OneUser'
  BY CtxAssumption DEF CtxInv, Disassociate, Sent, TcpipInv, OneUser, Uses
<1>6. Unknown'
  BY DEF CtxInv, Disassociate, RecordInv, Unknown
<1>7. Passing'
  BY DEF CtxInv, Disassociate, Sent, RecordInv, Passing, Op
<1>8. Current'
  BY DEF CtxInv, Disassociate, Sent, ctxHistory, RecordInv, Current, Uses
<1>9. Own'
  BY DEF CtxInv, Disassociate, Unlink, ctxHistory, LinkInv, Own, Found
<1>10. Addresses'
  BY DEF CtxInv, Disassociate, Sent, flightVars, ctxHistory, Addresses, Op
<1> QED BY <1>1, <1>2, <1>3, <1>4, <1>5, <1>6, <1>7, <1>8, <1>9, <1>10 DEF CtxInv,
   TcpipInv, RecordInv, LinkInv

(* tcpip.sys disassociates or refuses. *)
LEMMA TcpipDisassociatesKeeps ==
  ASSUME CtxInv, NEW c \in Conns, TcpipDisassociates(c)
  PROVE  CtxInv'
<1>1. CtxTypeOK'
  BY DEF CtxInv, TcpipDisassociates, recordVars, flightVars, CtxTypeOK
<1>2. TcpipInv'
  BY DEF CtxInv, TcpipDisassociates, TcpipInv, Objects, UnderWay, OneUser,
     Op, Uses, CtxTypeOK
<1>3. RecordInv'
  BY CtxAssumption DEF CtxInv, TcpipDisassociates, recordVars, RecordInv, Unknown, Passing,
     Current, TcpipInv, UnderWay, Op, Uses, CtxTypeOK
<1>4. LinkInv'
  BY DEF CtxInv, TcpipDisassociates, recordVars, LinkInv, Linked, Own, Found,
     LinkAt, PlaceOf, Misled, Passing, Op, CtxTypeOK
<1>5. Addresses'
  BY DEF CtxInv, TcpipDisassociates, recordVars, flightVars, Addresses, Op,
     CtxTypeOK
<1> QED BY <1>1, <1>2, <1>3, <1>4, <1>5 DEF CtxInv

(* tdi_connect (disp_conn.c). *)
LEMMA ConnectKeeps ==
  ASSUME CtxInv, NEW c \in Conns, Connect(c)
  PROVE  CtxInv'
<1>1. CtxTypeOK'
  BY DEF CtxInv, Connect, Sent, Recorded, flightVars, CtxTypeOK, ConnRequests, Ops
<1>2. TcpipInv'
  BY CtxAssumption DEF CtxInv, Connect, Sent, TcpipInv, Objects, UnderWay, OneUser, Op, Uses
<1>3. RecordInv'
  BY DEF CtxInv, Connect, Sent, Recorded, RecordInv, Unknown, Passing,
     Current, Op, Uses
<1>4. LinkInv'
  BY DEF CtxInv, Connect, Sent, LinkInv, Linked, Own, Found, LinkAt, PlaceOf, Misled, Op
<1>5. Addresses'
  BY DEF CtxInv, Connect, Sent, Recorded, flightVars, Addresses, Op, CtxTypeOK
<1> QED BY <1>1, <1>2, <1>3, <1>4, <1>5 DEF CtxInv

(* tdi_connect_complete. *)
LEMMA TcpipConnectsKeeps ==
  ASSUME CtxInv, NEW c \in Conns, TcpipConnects(c)
  PROVE  CtxInv'
<1>1. CtxTypeOK'
  BY DEF CtxInv, TcpipConnects, update_conn_info, ctxHistory, CtxTypeOK
<1>2. TcpipInv'
  BY DEF CtxInv, TcpipConnects, TcpipInv, Objects, UnderWay, OneUser, Op,
     Uses, CtxTypeOK
<1>3. RecordInv'
  BY CtxAssumption DEF CtxInv, TcpipConnects, ctxHistory, RecordInv, Unknown, Passing, Current,
     TcpipInv, UnderWay, Op, Uses, CtxTypeOK
<1>4. LinkInv'
  BY DEF CtxInv, TcpipConnects, ctxHistory, LinkInv, Linked, Own, Found,
     LinkAt, PlaceOf, Misled, Op
<1>5. Addresses'
  BY CtxAssumption DEF CtxInv, TcpipConnects, update_conn_info, ctxHistory, Addresses,
     RecordInv, TcpipInv, UnderWay, Op, CtxTypeOK
<1> QED BY <1>1, <1>2, <1>3, <1>4, <1>5 DEF CtxInv

(* delayed_ucn. *)
LEMMA delayed_ucnKeeps ==
  ASSUME CtxInv, NEW c \in Conns, delayed_ucn(c)
  PROVE  CtxInv'
<1>1. CtxTypeOK'
  BY DEF CtxInv, delayed_ucn, recordVars, tcpVars, ctxHistory, CtxTypeOK
<1>2. TcpipInv'
  BY DEF CtxInv, delayed_ucn, tcpVars, TcpipInv, Objects, UnderWay, OneUser,
     Op, Uses
<1>3. RecordInv'
  BY DEF CtxInv, delayed_ucn, recordVars, tcpVars, ctxHistory, RecordInv,
     Unknown, Passing, Current, Op, Uses
<1>4. LinkInv'
  BY DEF CtxInv, delayed_ucn, recordVars, tcpVars, ctxHistory, LinkInv,
     Linked, Own, Found, LinkAt, PlaceOf, Misled, Op
<1>5. Addresses'
  BY CtxAssumption DEF CtxInv, delayed_ucn, recordVars, tcpVars, ctxHistory, Addresses, Op
<1> QED BY <1>1, <1>2, <1>3, <1>4, <1>5 DEF CtxInv

(* update_conn_info_complete. *)
LEMMA update_conn_info_completeKeeps ==
  ASSUME CtxInv, NEW c \in Conns, update_conn_info_complete(c)
  PROVE  CtxInv'
<1>1. CtxTypeOK'
  BY DEF CtxInv, update_conn_info_complete, tcpVars, ctxHistory, CtxTypeOK
<1>2. TcpipInv'
  BY DEF CtxInv, update_conn_info_complete, tcpVars, TcpipInv, Objects,
     UnderWay, OneUser, Op, Uses
<1>3. RecordInv'
  BY DEF CtxInv, update_conn_info_complete, tcpVars, ctxHistory, RecordInv,
     Unknown, Passing, Current, Op, Uses
<1>4. LinkInv'
  BY DEF CtxInv, update_conn_info_complete, tcpVars, ctxHistory, LinkInv,
     Linked, Own, Found, LinkAt, PlaceOf, Misled, Op
<1>5. Addresses'
  BY CtxAssumption DEF CtxInv, update_conn_info_complete, tcpVars, ctxHistory, Addresses, Op
<1> QED BY <1>1, <1>2, <1>3, <1>4, <1>5 DEF CtxInv

(* tdi_event_connect up to the client (ev_conn.c). *)
LEMMA EventConnectKeeps ==
  ASSUME CtxInv, NEW a \in Addrs, EventConnect(a)
  PROVE  CtxInv'
<1>1. CtxTypeOK'
  BY DEF CtxInv, EventConnect, recordVars, tcpVars, ctxHistory, CtxTypeOK, ConnEvents
<1>2. TcpipInv'
  BY DEF CtxInv, EventConnect, tcpVars, TcpipInv, Objects, UnderWay, OneUser,
     Op, Uses
<1>3. RecordInv'
  BY DEF CtxInv, EventConnect, recordVars, tcpVars, ctxHistory, RecordInv,
     Unknown, Passing, Current, Op, Uses
<1>4. LinkInv'
  BY DEF CtxInv, EventConnect, recordVars, tcpVars, ctxHistory, LinkInv,
     Linked, Own, Found, LinkAt, PlaceOf, Misled, Op
<1>5. Addresses'
  BY DEF CtxInv, EventConnect, recordVars, tcpVars, ctxHistory, Addresses, Op
<1> QED BY <1>1, <1>2, <1>3, <1>4, <1>5 DEF CtxInv

(* The client refuses. *)
LEMMA EventRefusedKeeps ==
  ASSUME CtxInv, EventRefused
  PROVE  CtxInv'
<1>1. \/ UNCHANGED laddr
      \/ \E c \in Conns \cap ot : /\ c \notin connected /\ request[c] = NoOne
                                 /\ laddr' = [laddr EXCEPT ![c] = NoOne]
  BY DEF EventRefused, Offered
<1>2. CtxTypeOK'
  BY <1>1 DEF CtxInv, EventRefused, tcpVars, ctxHistory, CtxTypeOK
<1>3. TcpipInv'
  BY DEF CtxInv, EventRefused, tcpVars, TcpipInv, Objects, UnderWay, OneUser, Op, Uses
<1>4. Unknown'
  BY <1>1 DEF CtxInv, EventRefused, CtxTypeOK, RecordInv, Unknown
<1>5. Passing' /\ Current'
  BY DEF CtxInv, EventRefused, tcpVars, ctxHistory, RecordInv, Passing, Current, Op, Uses
<1>6. LinkInv'
  BY DEF CtxInv, EventRefused, tcpVars, ctxHistory, LinkInv,
     Linked, Own, Found, LinkAt, PlaceOf, Misled, Op
<1>7. Addresses'
  BY <1>1 DEF CtxInv, CtxTypeOK, EventRefused, tcpVars, ctxHistory, Addresses, Op
<1> QED BY <1>2, <1>3, <1>4, <1>5, <1>6, <1>7 DEF CtxInv, RecordInv

(* The client accepts under the context recorded. *)
LEMMA EventAcceptedKeeps ==
  ASSUME CtxInv, NEW c \in Conns, EventAccepted(c)
  PROVE  CtxInv'
<1>1. /\ CtxTypeOK /\ AcceptFor \in Addrs \cup {NoOne}
      /\ conn_ctx[c] \in Ctxs /\ c \notin connected
  BY CtxAssumption DEF EventAccepted, Accepting, Offered, AcceptFor, CtxInv, RecordInv, CtxTypeOK,
     ConnEvents, Unknown
<1>2. UnderWay'
  <2>1. request'[c].op = "accept" /\ request'[c].ctx = conn_ctx[c]
    BY <1>1, SentMeans DEF EventAccepted, Ops
  <2>2. \A d \in Conns : d # c => request'[d] = request[d]
    BY <1>1, SentMeans DEF EventAccepted, Ops
  <2> QED BY <1>1, <2>1, <2>2 DEF EventAccepted, CtxInv, TcpipInv, UnderWay, Op
<1>3. CtxTypeOK'
  BY DEF CtxInv, EventAccepted, Sent, Recorded, Accepting, Offered, CopiedAddress,
     AcceptFor, CtxTypeOK, ConnRequests, Ops
<1>4. Objects'
  BY DEF CtxInv, EventAccepted, Sent, Accepting, Offered, TcpipInv, Objects
<1>5. OneUser'
  BY CtxAssumption DEF CtxInv, EventAccepted, Sent, Returns, Unused, TcpipInv, Objects,
     OneUser, Uses
<1>6. Unknown'
  BY DEF CtxInv, EventAccepted, Recorded, Accepting, Offered, RecordInv, Unknown
<1>7. Passing'
  BY DEF CtxInv, EventAccepted, Sent, Accepting, Offered, RecordInv, Passing, Op
<1>8. Current'
  BY DEF CtxInv, EventAccepted, Sent, Accepting, Offered, RecordInv, Current, Uses
<1>9. Linked'
  BY DEF CtxInv, EventAccepted, Sent, Accepting, Offered, LinkInv, Linked, LinkAt, PlaceOf,
     Misled, Op
<1>10. Own'
  BY DEF CtxInv, EventAccepted, LinkInv, Own, Found
<1>11. Addresses'
  BY DEF CtxInv, EventAccepted, Sent, Recorded, Accepting, Offered, CopiedAddress,
     AcceptFor, Addresses, Op, CtxTypeOK
<1> QED BY <1>2, <1>3, <1>4, <1>5, <1>6, <1>7, <1>8, <1>9, <1>10, <1>11 DEF CtxInv,
   TcpipInv, RecordInv, LinkInv

(* The client accepts under another one. *)
LEMMA EventAcceptedAsKeeps ==
  ASSUME CtxInv, NEW c \in Conns, NEW x \in Ctxs, EventAcceptedAs(c, x)
  PROVE  CtxInv'
<1> DEFINE a == associated_fileobj[c]
           unlinkedTable == Unlink(g_cte, a, conn_ctx[c])
           linkedTable == Link(unlinkedTable, a, x, c)
           Done == /\ g_cte' = linkedTable /\ Recorded(c, CopiedAddress)
                   /\ misnoted' = misnoted \ {c}
                   /\ Sent(c, "accept", AcceptFor, x) /\ UNCHANGED spoiled
           Undone == /\ g_cte' \in {linkedTable, unlinkedTable}
                     /\ spoiled' = spoiled \cup {context[c], x}
                     /\ laddr' = [laddr EXCEPT ![c] = NoOne]
                     /\ UNCHANGED <<request, late, mistaken, misnoted>>
<1>1. /\ CtxTypeOK /\ g_cte \in LinkTables /\ filtering' = filtering
      /\ c \in open \cap ot /\ c \notin connected /\ request[c] = NoOne
      /\ a \in Addrs /\ conn_ctx[c] \in Ctxs /\ context[c] \in Ctxs
      /\ AcceptFor \in {a, NoOne} /\ CopiedAddress \in Addrs \cup {Freed}
  BY CtxAssumption DEF EventAcceptedAs, Accepting, Offered, AcceptFor, CopiedAddress, CtxInv,
     RecordInv, TcpipInv, CtxTypeOK, LinkTables, ConnEvents, Objects, Unknown
<1>2. conn_ctx'[c] = x /\ \A d \in Conns : d # c => conn_ctx'[d] = conn_ctx[d]
  BY <1>1 DEF EventAcceptedAs, CtxTypeOK
<1>3. Done \/ Undone
  BY DEF EventAcceptedAs
<1>4. /\ unlinkedTable \in LinkTables /\ linkedTable \in LinkTables
      /\ linkedTable[<<a, x>>] = c
      /\ \A b \in Addrs, y \in Ctxs :
           b # a \/ (y # x /\ y # conn_ctx[c]) =>
             /\ linkedTable[<<b, y>>] = g_cte[<<b, y>>]
             /\ unlinkedTable[<<b, y>>] = g_cte[<<b, y>>]
      /\ linkedTable[<<a, conn_ctx[c]>>] = NoOne /\ unlinkedTable[<<a, conn_ctx[c]>>] = NoOne
  <2>1. /\ unlinkedTable \in LinkTables /\ unlinkedTable[<<a, conn_ctx[c]>>] = NoOne
        /\ \A b \in Addrs, y \in Ctxs :
             b # a \/ y # conn_ctx[c] => unlinkedTable[<<b, y>>] = g_cte[<<b, y>>]
    BY <1>1, UnlinkMeans
  <2>2. /\ linkedTable \in LinkTables /\ linkedTable[<<a, x>>] = c
        /\ \A b \in Addrs, y \in Ctxs :
             b # a \/ y # x => linkedTable[<<b, y>>] = unlinkedTable[<<b, y>>]
    BY <1>1, <2>1, LinkMeans
  <2>3. x # conn_ctx[c]
    BY DEF EventAcceptedAs
  <2> QED BY <1>1, <2>1, <2>2, <2>3
<1>5. \A d \in Conns : d # c => ~Uses(d, x)
  <2>1. CASE x = context[c]
    BY <2>1 DEF CtxInv, TcpipInv, OneUser, Uses
  <2>2. CASE Unused(x)
    BY <2>2, CtxAssumption DEF Unused, Uses, CtxInv, TcpipInv, Objects
  <2> QED BY <2>1, <2>2 DEF EventAcceptedAs, Returns
<1>6. /\ request' \in [Conns -> ConnRequests \cup {NoOne}]
      /\ \A d \in Conns : d # c => request'[d] = request[d]
      /\ \/ Undone /\ request' = request
         \/ /\ Done
            /\ request'[c] # NoOne /\ request'[c].op = "accept"
            /\ request'[c].addr = AcceptFor /\ request'[c].ctx = x
  <2>1. CASE Done
    <3>1. Sent(c, "accept", AcceptFor, x)
      BY <2>1
    <3>2. "accept" \in Ops /\ x \in Ctxs \cup {NoOne} /\ AcceptFor \in Addrs \cup {NoOne}
      BY <1>1 DEF Ops
    <3>3. /\ request' \in [Conns -> ConnRequests \cup {NoOne}]
          /\ request'[c] # NoOne /\ request'[c].op = "accept"
          /\ request'[c].addr = AcceptFor /\ request'[c].ctx = x
          /\ \A d \in Conns : d # c => request'[d] = request[d]
      BY <1>1, <3>1, <3>2, SentMeans
    <3> QED BY <2>1, <3>3
  <2>2. CASE Undone
    BY <1>1, <2>2 DEF CtxTypeOK
  <2> QED BY <1>3, <2>1, <2>2
<1>7. g_cte' \in {linkedTable, unlinkedTable} /\ spoiled \subseteq spoiled'
  BY <1>3
<1> HIDE DEF unlinkedTable, linkedTable
<1>8. CtxTypeOK'
  <2>1. g_cte' \in LinkTables
    BY <1>4, <1>7
  <2>2. laddr' \in [Conns -> Addrs \cup {NoOne, Freed, Zero}]
        /\ late' \cup mistaken' \cup misnoted' \subseteq Conns /\ spoiled' \subseteq Ctxs
    BY <1>1, <1>3 DEF Recorded, CtxTypeOK
  <2> QED BY <1>1, <1>6, <2>1, <2>2 DEF EventAcceptedAs, CtxTypeOK, LinkTables
<1>9. Current'
  BY <1>1, <1>2, <1>6, <1>7 DEF EventAcceptedAs, CtxInv, RecordInv, Current, Uses
<1>10. Linked'
  <2> SUFFICES ASSUME filtering', NEW d \in Conns \cap ot' \cap open', NEW b \in Addrs,
                      conn_ctx'[d] \notin spoiled', ~Misled(d)', PlaceOf(d, b)'
               PROVE  /\ LinkAt(d, b)' \in {d, NoOne}
                      /\ d \notin unlinked' /\ ~Op(d, "disassociate")' => LinkAt(d, b)' = d
    BY DEF Linked
  <2>1. /\ d \in ot \cap open /\ filtering
        /\ unlinked' = unlinked /\ assoc' = assoc /\ context' = context
    BY <1>1 DEF EventAcceptedAs
  <2>2. CASE d = c
    <3>1. Done
      BY <1>2, <1>3, <2>2
    <3>2. request'[c] # NoOne /\ request'[c].op = "accept" /\ request'[c].addr = AcceptFor
      BY <1>2, <1>6, <2>2
    <3>3. assoc[c] = b /\ b # NoOne
      BY <2>1, <2>2, <3>2 DEF PlaceOf, Op
    <3>4. x # context[c]
      <4>1. SUFFICES ASSUME x = context[c] PROVE FALSE
        OBVIOUS
      <4>2. x \in spoiled
        BY <1>1, <2>1, <4>1 DEF EventAcceptedAs, CtxInv, RecordInv, Current, Uses
      <4> QED BY <1>2, <2>2, <3>1, <4>2
    <3>5. b = a
      BY <1>1, <1>2, <2>1, <2>2, <3>2, <3>3, <3>4 DEF Misled, Op
    <3> QED BY <1>2, <1>4, <2>2, <3>1, <3>5 DEF LinkAt
  <2>3. CASE d # c
    <3>1. /\ conn_ctx'[d] = conn_ctx[d] /\ conn_ctx[d] \notin spoiled /\ request'[d] = request[d]
          /\ conn_ctx[d] \in Ctxs
      BY <1>2, <1>6, <1>7, <2>1, <2>3 DEF CtxInv, RecordInv, Unknown
    <3>2. conn_ctx[d] # x
      BY <1>5, <2>1, <2>3, <3>1 DEF CtxInv, RecordInv, Current
    <3>3. conn_ctx[d] # conn_ctx[c]
      BY <1>1, <2>1, <2>3, <3>1, OneContext
    <3>4. LinkAt(d, b)' = LinkAt(d, b)
      BY <1>4, <1>7, <3>1, <3>2, <3>3 DEF LinkAt
    <3>5. PlaceOf(d, b) /\ ~Misled(d)
      BY <2>1, <3>1 DEF PlaceOf, Misled, Op
    <3> QED BY <2>1, <3>1, <3>4, <3>5 DEF CtxInv, LinkInv, Linked, Op
  <2> QED BY <2>2, <2>3
<1>11. Own'
  <2> SUFFICES ASSUME filtering', NEW d \in Conns \cap open', assoc'[d] # NoOne, context'[d]
     \notin spoiled'
               PROVE  Found(d)' \in {d, NoOne}
    BY DEF Own
  <2>1. /\ assoc[d] \in Addrs /\ context[d] \in Ctxs /\ d \in open /\ assoc[d] # NoOne
        /\ context[d] \notin spoiled
        /\ Found(d) = g_cte[<<assoc[d], context[d]>>]
        /\ Found(d)' = g_cte'[<<assoc[d], context[d]>>]
    BY <1>1, <1>7 DEF EventAcceptedAs, Found, CtxInv, TcpipInv, CtxTypeOK, Objects
  <2>2. Found(d) \in {d, NoOne}
    BY <1>1, <2>1 DEF CtxInv, LinkInv, Own
  <2>3. CASE d = c
    <3>1. conn_ctx[c] = context[c]
      BY <1>1, <2>1, <2>3 DEF CtxInv, RecordInv, Current, Uses
    <3>2. context[c] # x
      BY <3>1 DEF EventAcceptedAs
    <3> QED BY <1>1, <1>4, <1>7, <2>1, <2>2, <2>3, <3>1, <3>2
  <2>4. CASE d # c
    <3>1. context[d] # x
      BY <1>5, <2>4 DEF Uses
    <3> QED BY <1>1, <1>4, <1>7, <2>1, <2>2, <3>1
  <2> QED BY <2>3, <2>4
<1>12. Objects'
  BY DEF CtxInv, EventAcceptedAs, Sent, Accepting, Offered, TcpipInv, Objects, CtxTypeOK
<1>13. UnderWay'
  BY DEF CtxInv, EventAcceptedAs, Sent, Accepting, Offered, TcpipInv, UnderWay, Op,
     CtxTypeOK
<1>14. OneUser'
  BY CtxAssumption DEF CtxInv, EventAcceptedAs, Sent, Returns, Unused, TcpipInv, Objects,
     OneUser, Uses, CtxTypeOK
<1>15. Unknown'
  BY DEF CtxInv, EventAcceptedAs, Recorded, Accepting, Offered, RecordInv, Unknown,
     CtxTypeOK
<1>16. Passing'
  BY DEF CtxInv, EventAcceptedAs, Sent, Accepting, Offered, RecordInv, Passing, Op,
     CtxTypeOK
<1>17. Addresses'
  BY DEF CtxInv, EventAcceptedAs, Sent, Recorded, Accepting, Offered, CopiedAddress,
     AcceptFor, Addresses, Op, CtxTypeOK
<1> QED BY <1>8, <1>9, <1>10, <1>11, <1>12, <1>13, <1>14, <1>15, <1>16, <1>17 DEF CtxInv,
   TcpipInv, RecordInv, LinkInv

(* tdi_evconn_accept_complete. *)
LEMMA TcpipAcceptsKeeps ==
  ASSUME CtxInv, NEW c \in Conns, TcpipAccepts(c)
  PROVE  CtxInv'
<1>1. CtxTypeOK'
  <2>1. /\ CtxTypeOK /\ c \in open
        /\ context[c] \in Ctxs /\ request[c].ctx \in Ctxs
    BY DEF TcpipAccepts, CtxInv, TcpipInv, Objects, UnderWay, Op
  <2>2. request' \in [Conns -> ConnRequests \cup {NoOne}]
    BY <2>1, AnsweredMeans DEF TcpipAccepts
  <2> QED BY <2>1, <2>2 DEF TcpipAccepts, update_conn_info, CtxTypeOK
<1>2. Objects'
  BY DEF CtxInv, TcpipAccepts, TcpipInv, Objects, UnderWay, CtxTypeOK
<1>3. UnderWay'
  BY DEF CtxInv, TcpipAccepts, TcpipInv, UnderWay, Op, CtxTypeOK
<1>4. OneUser'
  BY DEF CtxInv, TcpipAccepts, TcpipInv, OneUser, Uses, CtxTypeOK
<1>5. Unknown'
  BY DEF CtxInv, TcpipAccepts, RecordInv, Unknown, CtxTypeOK
<1>6. Passing'
  BY DEF CtxInv, TcpipAccepts, RecordInv, Passing, Op
<1>7. Current'
  BY DEF CtxInv, TcpipAccepts, RecordInv, Current, Passing, Op, Uses, CtxTypeOK
<1>8. Linked'
  <2> SUFFICES ASSUME filtering', NEW d \in Conns \cap ot' \cap open', NEW b \in Addrs,
                      conn_ctx'[d] \notin spoiled', ~Misled(d)', PlaceOf(d, b)'
               PROVE  /\ LinkAt(d, b)' \in {d, NoOne}
                      /\ d \notin unlinked' /\ ~Op(d, "disassociate")' => LinkAt(d, b)' = d
    BY DEF Linked
  <2>1. /\ conn_ctx' = conn_ctx /\ assoc' = assoc /\ filtering /\ g_cte' = g_cte
        /\ ot' = ot /\ open' = open /\ unlinked' = unlinked /\ spoiled \subseteq spoiled'
        /\ Op(c, "accept")
    BY DEF TcpipAccepts, Op
  <2>2. /\ request'[c] = NoOne
        /\ \A e \in Conns : e # c => request'[e] = request[e] /\ context'[e] = context[e]
    BY DEF TcpipAccepts, CtxInv, CtxTypeOK
  <2>3. CASE d = c
    <3>1. request[c].ctx = conn_ctx[c]
      BY <2>1, <2>3 DEF CtxInv, RecordInv, Passing
    <3>2. PlaceOf(d, b) /\ ~Op(d, "disassociate")
      BY <2>1, <2>2, <2>3 DEF PlaceOf, Op
    <3>3. ~Misled(d)
      BY <2>1, <2>3, <3>1 DEF TcpipAccepts, Misled
    <3> QED BY <2>1, <3>2, <3>3 DEF CtxInv, LinkInv, Linked, LinkAt
  <2>4. CASE d # c
    BY <2>1, <2>2, <2>4 DEF CtxInv, LinkInv, Linked, LinkAt, PlaceOf, Misled, Op
  <2> QED BY <2>3, <2>4
<1>9. Own'
  BY DEF CtxInv, TcpipAccepts, LinkInv, Own, Found, Linked, LinkAt, PlaceOf, Misled,
     RecordInv, Passing, Op, CtxTypeOK
<1>10. Addresses'
  BY CtxAssumption DEF CtxInv, TcpipAccepts, update_conn_info, Addresses, TcpipInv,
     UnderWay, Op, CtxTypeOK
<1> QED BY <1>1, <1>2, <1>3, <1>4, <1>5, <1>6, <1>7, <1>8, <1>9, <1>10 DEF CtxInv,
   TcpipInv, RecordInv, LinkInv

(* tdi_disconnect. *)
LEMMA DisconnectKeeps ==
  ASSUME CtxInv, NEW c \in Conns, Disconnect(c)
  PROVE  CtxInv'
<1>1. CtxTypeOK'
  BY DEF CtxInv, Disconnect, flightVars, ctxHistory, CtxTypeOK
<1>2. TcpipInv'
  BY DEF CtxInv, Disconnect, TcpipInv, Objects, UnderWay, OneUser, Op, Uses
<1>3. RecordInv'
  BY DEF CtxInv, Disconnect, ctxHistory, RecordInv, Unknown, Passing,
     Current, Op, Uses
<1>4. LinkInv'
  BY DEF CtxInv, Disconnect, ctxHistory, LinkInv, Linked, Own, Found, LinkAt, PlaceOf, Misled, Op
<1>5. Addresses'
  BY DEF CtxInv, Disconnect, flightVars, ctxHistory, Addresses, Op
<1> QED BY <1>1, <1>2, <1>3, <1>4, <1>5 DEF CtxInv

(* tdi_event_disconnect. *)
LEMMA EventDisconnectKeeps ==
  ASSUME CtxInv, NEW c \in Conns, EventDisconnect(c)
  PROVE  CtxInv'
<1>1. CtxTypeOK'
  <2>1. assoc[c] \in Addrs /\ context[c] \in Ctxs
    BY DEF EventDisconnect, CtxInv, TcpipInv, CtxTypeOK, Objects
  <2>2. Found(c) \in Conns \cup {NoOne}
    BY <2>1 DEF Found, CtxInv, CtxTypeOK
  <2>3. laddr' \in [Conns -> Addrs \cup {NoOne, Freed, Zero}]
    BY <2>2 DEF EventDisconnect, CtxInv, CtxTypeOK
  <2>4. mistaken' \subseteq Conns
    BY <2>2 DEF EventDisconnect, CtxInv, CtxTypeOK
  <2> QED BY <2>3, <2>4 DEF EventDisconnect, CtxInv, CtxTypeOK, flightVars
<1>2. Objects'
  BY DEF CtxInv, EventDisconnect, TcpipInv, Objects
<1>3. UnderWay'
  BY DEF CtxInv, EventDisconnect, TcpipInv, UnderWay, Op
<1>4. OneUser'
  BY DEF CtxInv, EventDisconnect, TcpipInv, OneUser, Uses
<1>5. Unknown'
  BY DEF CtxInv, EventDisconnect, RecordInv, Unknown
<1>6. Passing'
  BY DEF CtxInv, EventDisconnect, RecordInv, Passing, Op
<1>7. Current'
  BY DEF CtxInv, EventDisconnect, RecordInv, Current, Uses
<1>8. Linked'
  BY DEF CtxInv, EventDisconnect, LinkInv, Linked, LinkAt, PlaceOf, Misled, Op
<1>9. Own'
  BY DEF CtxInv, EventDisconnect, LinkInv, Own, Found
<1>10. Addresses'
  BY DEF CtxInv, EventDisconnect, flightVars, Addresses, TcpipInv, UnderWay, Op
<1> QED BY <1>1, <1>2, <1>3, <1>4, <1>5, <1>6, <1>7, <1>8, <1>9, <1>10 DEF CtxInv,
   TcpipInv, RecordInv, LinkInv

(* A connection opened past the driver. *)
LEMMA UnseenConnKeeps ==
  ASSUME CtxInv, NEW c \in Conns, NEW x \in Ctxs, UnseenConn(c, x)
  PROVE  CtxInv'
<1>1. CtxTypeOK'
  BY DEF CtxInv, UnseenConn, recordVars, flightVars, ctxHistory, CtxTypeOK
<1>2. TcpipInv'
  BY DEF CtxInv, UnseenConn, Unused, TcpipInv, Objects, UnderWay, OneUser,
     Op, Uses, CtxTypeOK
<1>3. RecordInv'
  BY DEF CtxInv, UnseenConn, recordVars, RecordInv, Unknown, Passing,
     Current
<1>4. LinkInv'
  BY DEF CtxInv, UnseenConn, LinkInv, Linked, Own
<1>5. Addresses'
  BY DEF CtxInv, UnseenConn, Addresses
<1> QED BY <1>1, <1>2, <1>3, <1>4, <1>5 DEF CtxInv

(* An address object opened past it. *)
LEMMA UnseenAddrKeeps ==
  ASSUME CtxInv, NEW a \in Addrs, UnseenAddr(a)
  PROVE  CtxInv'
<1>1. CtxTypeOK'
  BY DEF CtxInv, UnseenAddr, recordVars, flightVars, ctxHistory, CtxTypeOK
<1>2. TcpipInv'
  BY CtxAssumption DEF CtxInv, UnseenAddr, TcpipInv, Objects, UnderWay, OneUser, Op, Uses
<1>3. RecordInv'
  BY DEF CtxInv, UnseenAddr, recordVars, RecordInv, Unknown, Passing,
     Current
<1>4. LinkInv'
  BY DEF CtxInv, UnseenAddr, LinkInv, Linked, Own
<1>5. Addresses'
  BY DEF CtxInv, UnseenAddr, Addresses
<1> QED BY <1>1, <1>2, <1>3, <1>4, <1>5 DEF CtxInv

(* A connection established past it. *)
LEMMA UnseenConnectKeeps ==
  ASSUME CtxInv, NEW c \in Conns, UnseenConnect(c)
  PROVE  CtxInv'
<1>1. CtxTypeOK'
  BY DEF CtxInv, UnseenConnect, recordVars, flightVars, ctxHistory, CtxTypeOK
<1>2. TcpipInv'
  BY DEF CtxInv, UnseenConnect, TcpipInv, Objects, UnderWay, OneUser, Op, Uses
<1>3. RecordInv'
  BY DEF CtxInv, UnseenConnect, recordVars, ctxHistory, RecordInv, Unknown,
     Passing, Current, Op, Uses
<1>4. LinkInv'
  BY DEF CtxInv, UnseenConnect, recordVars, ctxHistory, LinkInv, Linked, Own,
     Found, LinkAt, PlaceOf, Misled, Op
<1>5. Addresses'
  BY DEF CtxInv, UnseenConnect, recordVars, flightVars, ctxHistory,
     Addresses, Op
<1> QED BY <1>1, <1>2, <1>3, <1>4, <1>5 DEF CtxInv

(* The driver is attached. *)
LEMMA CtxAttachKeeps ==
  ASSUME CtxInv, Attach
  PROVE  CtxInv'
<1>1. CtxTypeOK'
  BY DEF CtxInv, Attach, recordVars, tcpVars, flightVars, ctxHistory, CtxTypeOK
<1>2. TcpipInv'
  BY DEF CtxInv, Attach, tcpVars, TcpipInv, Objects, UnderWay, OneUser, Op, Uses
<1>3. RecordInv'
  BY DEF CtxInv, Attach, Nothing, recordVars, tcpVars, RecordInv, Unknown,
     Passing, Current, Op
<1>4. LinkInv'
  BY DEF CtxInv, Attach, NoLinks, recordVars, tcpVars, LinkInv, Linked, Own,
     Found, TcpipInv, Objects, CtxTypeOK
<1>5. Addresses'
  BY DEF CtxInv, Attach, recordVars, Addresses
<1> QED BY <1>1, <1>2, <1>3, <1>4, <1>5 DEF CtxInv

(* It is detached. *)
LEMMA CtxDetachKeeps ==
  ASSUME CtxInv, Detach
  PROVE  CtxInv'
<1>1. CtxTypeOK'
  BY DEF CtxInv, Detach, recordVars, tcpVars, flightVars, ctxHistory, CtxTypeOK
<1>2. TcpipInv'
  BY DEF CtxInv, Detach, tcpVars, TcpipInv, Objects, UnderWay, OneUser, Op, Uses
<1>3. RecordInv'
  BY DEF CtxInv, Detach, recordVars, RecordInv, Unknown, Passing, Current
<1>4. LinkInv'
  BY DEF CtxInv, Detach, LinkInv, Linked, Own
<1>5. Addresses'
  BY DEF CtxInv, Detach, Addresses
<1> QED BY <1>1, <1>2, <1>3, <1>4, <1>5 DEF CtxInv

(* ot_free. *)
LEMMA ForgetKeeps ==
  ASSUME CtxInv, Forget
  PROVE  CtxInv'
<1>1. CtxTypeOK'
  BY DEF CtxInv, Forget, Nothing, NoLinks, tcpVars, flightVars, CtxTypeOK
<1>2. TcpipInv'
  BY DEF CtxInv, Forget, tcpVars, TcpipInv, Objects, UnderWay, OneUser, Op, Uses
<1>3. RecordInv'
  BY DEF CtxInv, Forget, Nothing, RecordInv, Unknown, Passing, Current
<1>4. LinkInv'
  BY DEF CtxInv, Forget, LinkInv, Linked, Own
<1>5. Addresses'
  BY DEF CtxInv, Forget, Addresses
<1> QED BY <1>1, <1>2, <1>3, <1>4, <1>5 DEF CtxInv

-----------------------------------------------------------------------------
(* The invariant holds initially. *)
LEMMA CtxInitially == CtxInit => CtxInv
<1> SUFFICES ASSUME CtxInit PROVE CtxInv
  OBVIOUS
<1>1. CtxTypeOK
  BY DEF CtxInit, CtxTypeOK, Nothing, NoLinks
<1>2. TcpipInv /\ RecordInv
  BY CtxAssumption DEF CtxInit, Nothing, TcpipInv, Objects, UnderWay, OneUser, Op, Uses,
     RecordInv, Unknown, Passing, Current
<1>3. LinkInv /\ Addresses
  BY DEF CtxInit, LinkInv, Linked, Own, Addresses
<1> QED BY <1>1, <1>2, <1>3 DEF CtxInv

(* What it says of the index, of the events and of the addresses. *)
LEMMA CtxInvImplies == CtxInv => CtxTypeOK /\ LinkTruth /\ EventHitsOwn /\ RecordedAddress
<1> SUFFICES ASSUME CtxInv PROVE CtxTypeOK /\ LinkTruth /\ EventHitsOwn /\ RecordedAddress
  OBVIOUS
<1>1. LinkTruth
  <2> SUFFICES ASSUME filtering, NEW c \in Conns \cap ot,
                      assoc[c] # NoOne, request[c] = NoOne, c \notin unlinked,
                      context[c] \notin spoiled
               PROVE  Found(c) = c
    BY DEF LinkTruth
  <2>1. c \in open /\ assoc[c] \in Addrs
    BY DEF CtxInv, CtxTypeOK, TcpipInv, Objects
  <2>2. conn_ctx[c] = context[c]
    BY <2>1 DEF CtxInv, RecordInv, Current, Uses
  <2>3. LinkAt(c, assoc[c]) = c
    BY <2>1, <2>2 DEF CtxInv, LinkInv, Linked, PlaceOf, Misled, Op
  <2> QED BY <2>2, <2>3 DEF Found, LinkAt
<1>2. EventHitsOwn
  BY DEF EventHitsOwn, CtxInv, LinkInv, Own, Found
<1>3. RecordedAddress
  BY DEF RecordedAddress, CtxInv, Addresses, CtxTypeOK
<1> QED BY <1>1, <1>2, <1>3 DEF CtxInv

(* Every step keeps it. *)
LEMMA CtxStep == CtxInv /\ [CtxNext]_ctxVars => CtxInv'
<1> SUFFICES ASSUME CtxInv, [CtxNext]_ctxVars PROVE CtxInv'
  OBVIOUS
<1>1. CASE \E c \in Conns, x \in Ctxs : OpenConn(c, x) \/ UnseenConn(c, x) \/ EventAcceptedAs(c, x)
  BY <1>1, OpenConnKeeps, UnseenConnKeeps, EventAcceptedAsKeeps
<1>2. CASE \E a \in Addrs : OpenAddr(a) \/ UnseenAddr(a) \/ CleanupAddr(a) \/ EventConnect(a)
  BY <1>2, OpenAddrKeeps, UnseenAddrKeeps, CleanupAddrKeeps, EventConnectKeeps
<1>3. CASE \E c \in Conns, a \in Addrs : Associate(c, a)
  BY <1>3, AssociateKeeps
<1>4. CASE \E c \in Conns :
             \/ CleanupConn(c) \/ TcpipClosesConn(c) \/ TcpipAssociates(c)
             \/ Disassociate(c) \/ TcpipDisassociates(c)
  BY <1>4, CleanupConnKeeps, TcpipClosesConnKeeps, TcpipAssociatesKeeps, DisassociateKeeps,
     TcpipDisassociatesKeeps
<1>5. CASE \E c \in Conns :
             \/ Connect(c) \/ TcpipConnects(c) \/ delayed_ucn(c) \/ update_conn_info_complete(c)
             \/ EventAccepted(c) \/ TcpipAccepts(c) \/ Disconnect(c) \/ EventDisconnect(c)
             \/ UnseenConnect(c)
  BY <1>5, ConnectKeeps, TcpipConnectsKeeps, delayed_ucnKeeps, update_conn_info_completeKeeps,
     EventAcceptedKeeps, TcpipAcceptsKeeps, DisconnectKeeps, EventDisconnectKeeps,
     UnseenConnectKeeps
<1>6. CASE EventRefused \/ Attach \/ Detach \/ Forget
  BY <1>6, EventRefusedKeeps, CtxAttachKeeps, CtxDetachKeeps, ForgetKeeps
<1>7. CASE UNCHANGED ctxVars
  <2>1. CtxTypeOK' /\ TcpipInv'
    BY <1>7 DEF ctxVars, recordVars, tcpVars, flightVars, ctxHistory, CtxInv, CtxTypeOK,
       TcpipInv, Objects, UnderWay, OneUser, Op, Uses
  <2>2. RecordInv'
    BY <1>7 DEF ctxVars, recordVars, tcpVars, flightVars, ctxHistory, CtxInv, RecordInv, Unknown,
       Passing, Current, Op, Uses
  <2>3. LinkInv' /\ Addresses'
    BY <1>7 DEF ctxVars, recordVars, tcpVars, flightVars, ctxHistory, CtxInv, LinkInv, Linked,
       LinkAt, PlaceOf, Misled, Own, Found, Addresses, Op
  <2> QED BY <2>1, <2>2, <2>3 DEF CtxInv
<1> QED BY <1>1, <1>2, <1>3, <1>4, <1>5, <1>6, <1>7 DEF CtxNext

(* The records of the connections keep their types (obj_tbl.c, ev_conn.c). *)
THEOREM CtxTypeCorrect == CtxSpec => []CtxTypeOK
  BY CtxInitially, CtxStep, CtxInvImplies, PTL DEF CtxSpec

(* The driver finds the connections it knows by what tcpip.sys knows them  *)
(* by, for any number of connections, address objects and contexts         *)
(* (disp_obj.c:357-460, obj_tbl.c).                                        *)
THEOREM ConnectionsAreFound == CtxSpec => []LinkTruth
  BY CtxInitially, CtxStep, CtxInvImplies, PTL DEF CtxSpec

(* What it finds for an event is the connection the event is for, or none, *)
(* unless its context is spoiled (ev_conn.c:60-260).                       *)
THEOREM EventsFindTheirOwn == CtxSpec => []EventHitsOwn
  BY CtxInitially, CtxStep, CtxInvImplies, PTL DEF CtxSpec

(* An established connection has the local address of its address object,  *)
(* or none if the query for it failed; excepted are those begun while a    *)
(* query of an earlier one was out or from an association that tcpip.sys   *)
(* refused, and those whose entry went with another one's event            *)
(* (disp_conn.c:55-414, disp_obj.c:404, ev_conn.c:165-311).                *)
THEOREM AddressesAreRecorded == CtxSpec => []RecordedAddress
  BY CtxInitially, CtxStep, CtxInvImplies, PTL DEF CtxSpec
=============================================================================

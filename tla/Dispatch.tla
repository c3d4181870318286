------------------------------ MODULE Dispatch ------------------------------
(***************************************************************************)
(* The way of a request through a filter device: DeviceDispatch, the       *)
(* handlers' verdicts, tdi_dispatch_complete, the driver's completion      *)
(* routines and the client's (tdi_fw.c, dispatch.c).                       *)
(*                                                                         *)
(* A request reaches the driver in a stack location that holds the         *)
(* client's completion routine and says on which outcomes the client wants *)
(* it called.  The driver completes the request itself, passes its         *)
(* location on, puts a routine of its own into the next location, or, if   *)
(* there is no next location, puts tdi_skip_complete in the place of the   *)
(* client's routine and calls that one itself.                             *)
(***************************************************************************)
EXTENDS Integers, FiniteSets

CONSTANT Reqs  \* requests

Outcomes == {"success", "error", "cancel"}

(* What a handler leaves to be done when the request is complete: a        *)
(* SYN_SENT entry, or a query_irp.                                         *)
Duties == {"SYN_SENT", "query_irp"}

(* The request codes, after TdiMapUserRequest. *)
Codes ==
  {"TDI_ASSOCIATE_ADDRESS", "TDI_CONNECT", "TDI_DISASSOCIATE_ADDRESS", "TDI_SET_EVENT_HANDLER",
   "TDI_SEND_DATAGRAM", "TDI_RECEIVE_DATAGRAM", "TDI_DISCONNECT", "TDI_SEND", "TDI_RECEIVE",
   "TDI_ACCEPT", "TDI_LISTEN", "IRP_MJ_CREATE", "IRP_MJ_CLEANUP",
   "QUERY_DIRECT_SEND_HANDLER", "other"}

(* The handlers' completion routines, the handlers that may deny, those    *)
(* that always do (tdi_deny_stub), and those that always set a routine.    *)
g_tdi_ioctls ==
  [TDI_CONNECT |-> "tdi_connect_complete", TDI_DISCONNECT |-> "tdi_disconnect_complete",
   TDI_RECEIVE |-> "tdi_receive_complete", TDI_RECEIVE_DATAGRAM |-> "tdi_receive_datagram_complete",
   IRP_MJ_CREATE |-> "tdi_create_addrobj_complete"]
tdi_deny_stub == {"TDI_ACCEPT", "TDI_LISTEN"}
Denying == tdi_deny_stub \cup
  {"TDI_ASSOCIATE_ADDRESS", "TDI_CONNECT", "TDI_SET_EVENT_HANDLER", "TDI_SEND_DATAGRAM",
   "IRP_MJ_CREATE"}
Completing == {"TDI_DISCONNECT", "TDI_RECEIVE_DATAGRAM"}
DutyOf(code) ==
  CASE code = "TDI_CONNECT" -> {"SYN_SENT"}
    [] code = "IRP_MJ_CREATE" -> {"query_irp"}
    [] OTHER -> {}

VARIABLES
  irp,            \* request -> its state
  TCPSendData     \* a client calls new_TCPSendData directly

dispatchVars == <<irp, TCPSendData>>

Irps == [at : {"idle", "below", "completing", "returning", "done"},
         way : {"own", "passed", "copied", "skipped"},
         code : Codes,
         asks : SUBSET Outcomes,     \* when the client wants its routine called
         lost : BOOLEAN,             \* the location with the client's routine was skipped
         cancel : BOOLEAN,           \* Irp->Cancel
         status : {"success", "error"},
         duty : SUBSET Duties,
         skip_ctx : BOOLEAN,         \* a TDI_SKIP_CTX is allocated
         told : 0..2]                \* calls of the client's routine

Idle == [at |-> "idle", way |-> "own", code |-> "other", asks |-> {}, lost |-> FALSE,
         cancel |-> FALSE, status |-> "success", duty |-> {}, skip_ctx |-> FALSE, told |-> 0]

DispatchTypeOK == irp \in [Reqs -> Irps] /\ TCPSendData \in BOOLEAN

DispatchInit == irp = [r \in Reqs |-> Idle] /\ TCPSendData = FALSE

-----------------------------------------------------------------------------
(* IoCompleteRequest calls the routine of a location if one of the         *)
(* outcomes it is wanted for has come.                                     *)
Wanted(i) ==
  \/ i.status \in i.asks
  \/ i.cancel /\ "cancel" \in i.asks

(* The location of the client's routine is completed. *)
IoCompletes(i) ==
  [i EXCEPT !.at = "done", !.told = IF Wanted(i) /\ ~i.lost THEN @ + 1 ELSE @]

Becomes(r, i) ==
  /\ irp[r] = Idle
  /\ irp' = [irp EXCEPT ![r] = i]

(* FILTER_DENY: completed with an error at once. *)
Denied(r, code, asks) ==
  /\ code \in Denying
  /\ Becomes(r, IoCompletes([Idle EXCEPT !.code = code, !.asks = asks, !.status = "error"]))
  /\ UNCHANGED TCPSendData

(* FILTER_ALLOW without a completion routine: the location is passed on.   *)
Passed(r, code, asks) ==
  /\ code \notin tdi_deny_stub \cup Completing
  /\ Becomes(r, [Idle EXCEPT !.code = code, !.asks = asks, !.at = "below", !.way = "passed"])
  /\ UNCHANGED TCPSendData

(* With one, and with a location for it. *)
Copied(r, code, asks) ==
  /\ code \in DOMAIN g_tdi_ioctls
  /\ Becomes(r, [Idle EXCEPT !.code = code, !.asks = asks, !.duty = DutyOf(code),
                             !.at = "below", !.way = "copied"])
  /\ UNCHANGED TCPSendData

(* With one, and without a location: tdi_skip_complete. *)
Skipped(r, code, asks) ==
  /\ code \in DOMAIN g_tdi_ioctls
  /\ Becomes(r, [Idle EXCEPT !.code = code, !.asks = asks, !.duty = DutyOf(code),
                             !.at = "below", !.way = "skipped", !.skip_ctx = TRUE])
  /\ UNCHANGED TCPSendData

(* The same without memory for the TDI_SKIP_CTX: the location has been     *)
(* skipped already when the request is completed, and what the handler has *)
(* begun is not undone.                                                    *)
SkipFails(r, code, asks) ==
  /\ code \in DOMAIN g_tdi_ioctls
  /\ Becomes(r, IoCompletes([Idle EXCEPT !.code = code, !.asks = asks, !.duty = DutyOf(code),
                                         !.status = "error", !.lost = TRUE]))
  /\ UNCHANGED TCPSendData

(* A request for a device that DeviceDispatch takes for the user device:   *)
(* tdifw_user_device_dispatch skips its location and completes.            *)
tdifw_user_device_dispatch(r, code, asks) ==
  /\ Becomes(r, IoCompletes([Idle EXCEPT !.code = code, !.asks = asks, !.lost = TRUE]))
  /\ UNCHANGED TCPSendData

-----------------------------------------------------------------------------
(* tcpip.sys completes the request.  The routine of the location it was    *)
(* given is next: the client's if it was passed on, else the driver's.  A  *)
(* client that asks for tcpip.sys' send routine and is answered at once    *)
(* gets new_TCPSendData in its place.                                      *)
TcpipCompletes(r, status) ==
  /\ irp[r].at = "below"
  /\ irp' = [irp EXCEPT ![r] =
       LET i == [@ EXCEPT !.status = status] IN
       IF i.way = "passed" THEN IoCompletes(i) ELSE [i EXCEPT !.at = "completing"]]
  /\ \/ UNCHANGED TCPSendData
     \/ irp[r].code = "QUERY_DIRECT_SEND_HANDLER" /\ status = "success" /\ TCPSendData' = TRUE

(* IoCancelIrp, at any moment. *)
IoCancelIrp(r) ==
  /\ irp[r].at \in {"below", "completing", "returning"}
  /\ irp' = [irp EXCEPT ![r].cancel = TRUE]
  /\ UNCHANGED TCPSendData

(* Fault: a connection that failed keeps its SYN_SENT entry. *)
CompletionRoutine_Keeps(r, status) ==
  /\ irp[r].at = "completing"
  /\ irp[r].status = "error" => status = "error"
  /\ irp[r].code \notin {"TDI_CONNECT", "IRP_MJ_CREATE"} => status = irp[r].status
  /\ irp' = [irp EXCEPT ![r].at = "returning", ![r].status = status,
                        ![r].duty = IF status = "error" THEN @ ELSE {}]
  /\ UNCHANGED TCPSendData

(* The driver's completion routine ends what its handler has begun.  That  *)
(* of a connection or an address object may put an error in the place of   *)
(* success.                                                                *)
CompletionRoutine(r, status) ==
  /\ irp[r].at = "completing"
  /\ irp[r].status = "error" => status = "error"
  /\ irp[r].code \notin {"TDI_CONNECT", "IRP_MJ_CREATE"} => status = irp[r].status
  /\ irp' = [irp EXCEPT ![r].at = "returning", ![r].status = status, ![r].duty = {}]
  /\ UNCHANGED TCPSendData

(* tdi_generic_complete has returned: IoCompleteRequest goes on with the   *)
(* location that holds the client's routine.                               *)
tdi_generic_complete(r) ==
  /\ irp[r].at = "returning" /\ irp[r].way = "copied"
  /\ irp' = [irp EXCEPT ![r] = IoCompletes(@)]
  /\ UNCHANGED TCPSendData

(* Fault: the client's routine is always called. *)
tdi_skip_complete_Always(r) ==
  /\ irp[r].at = "returning" /\ irp[r].way = "skipped"
  /\ irp' = [irp EXCEPT ![r].at = "done", ![r].skip_ctx = FALSE, ![r].told = @ + 1]
  /\ UNCHANGED TCPSendData

(* The rest of tdi_skip_complete: it decides whether the client's routine  *)
(* is called, frees its context and returns to IoCompleteRequest, which    *)
(* has no other location below the client's own.                           *)
tdi_skip_complete(r) ==
  /\ irp[r].at = "returning" /\ irp[r].way = "skipped"
  /\ LET b_call == IF irp[r].cancel THEN "cancel" \in irp[r].asks
                                    ELSE irp[r].status \in irp[r].asks IN
     irp' = [irp EXCEPT ![r].at = "done", ![r].skip_ctx = FALSE,
                        ![r].told = IF b_call THEN @ + 1 ELSE @]
  /\ UNCHANGED TCPSendData

(* The client uses the request again. *)
Reused(r) ==
  /\ irp[r].at = "done"
  /\ irp' = [irp EXCEPT ![r] = Idle]
  /\ UNCHANGED TCPSendData

Arrives(r, code, asks) ==
  \/ Denied(r, code, asks) \/ Passed(r, code, asks) \/ Copied(r, code, asks)
  \/ Skipped(r, code, asks) \/ SkipFails(r, code, asks)

Completes(r) ==
  \/ \E status \in {"success", "error"} : CompletionRoutine(r, status)
  \/ tdi_generic_complete(r) \/ tdi_skip_complete(r)

DispatchNext == \E r \in Reqs :
  \/ \E code \in Codes, asks \in SUBSET Outcomes :
       Arrives(r, code, asks) \/ tdifw_user_device_dispatch(r, code, asks)
  \/ \E status \in {"success", "error"} : TcpipCompletes(r, status)
  \/ IoCancelIrp(r) \/ Completes(r) \/ Reused(r)

DispatchSpec == DispatchInit /\ [][DispatchNext]_dispatchVars

-----------------------------------------------------------------------------
(* The client's completion routine has been called exactly once when the   *)
(* request is complete and the outcome is one the client wants to hear of, *)
(* and never otherwise, as if the driver were not there.  Excepted: its    *)
(* location was skipped before the request was completed in the driver     *)
(* (tdi_fw.c:781), and a request that was cancelled, has                   *)
(* ended otherwise and went through tdi_skip_complete, which then looks at *)
(* the cancel flag alone (tdi_fw.c:899).                                   *)
ClientTold == \A r \in Reqs : irp[r].at = "done" =>
  \/ irp[r].lost /\ irp[r].told = 0
  \/ irp[r].way = "skipped" /\ irp[r].cancel /\ "cancel" \notin irp[r].asks /\ irp[r].told = 0
  \/ irp[r].told = IF Wanted(irp[r]) THEN 1 ELSE 0

(* When a request is complete nothing is left of it in the driver: neither *)
(* a connection in SYN_SENT, nor a query_irp, nor a TDI_SKIP_CTX; except   *)
(* where the TDI_SKIP_CTX could not be allocated (tdi_fw.c:781).           *)
DutiesDone == \A r \in Reqs : irp[r].at = "done" =>
  irp[r].skip_ctx = FALSE /\ (irp[r].duty # {} => irp[r].lost)
=============================================================================

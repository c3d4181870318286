------------------------------- MODULE Driver -------------------------------
(***************************************************************************)
(* The driver as a whole: its life (DriverLife), the requests that pass    *)
(* its filter devices (Dispatch), the connection objects (ConnCtx) and the *)
(* copies of the host list (HostSync).                                     *)
(*                                                                         *)
(* A step of DriverLife that attaches, detaches, loads or frees is the     *)
(* same step as that of the component it does it for.  A component's own   *)
(* steps happen while the part of the driver they need is there; a         *)
(* completion routine, an event or a work item that returns into a driver  *)
(* that has been unloaded stops the machine.                               *)
(***************************************************************************)
EXTENDS DriverLife, Dispatch, ConnCtx, HostSync

driverVars == <<lifeVars, dispatchVars, ctxVars, syncVars>>

DTypeOK == LifeTypeOK /\ DispatchTypeOK /\ CtxTypeOK /\ SyncTypeOK

DInit == LifeInit /\ DispatchInit /\ CtxInit /\ SyncInit

Loaded == phase \in {"entering", "up", "leaving"}

-----------------------------------------------------------------------------
(* Loading and unloading.                                                  *)

(* The steps of DriverLife that concern no other component. *)
LifeAlone ==
  /\ \/ Load \/ ot_init \/ filter_init \/ conn_state_init \/ SetDispatch \/ EntryDone
     \/ \E d \in Named : CreateNamed(d) \/ DeleteNamed(d)
     \/ \E d \in Named \ {"adf"} : OpenNamed(d) \/ CloseNamed(d)
     \/ \E p \in {"udp", "ip"} : c_n_a_device(p) \/ d_n_d_device(p)
     \/ Unload \/ filter_free \/ conn_state_free \/ UnloadDone
  /\ UNCHANGED <<dispatchVars, ctxVars, syncVars>>

(* Requests are filtered from the moment \Device\Tcp is attached, unless   *)
(* the filter device is taken for the user device.                         *)
AttachTcp ==
  /\ c_n_a_device("tcp")
  /\ IF "tcp" \in attached' \ misrouted' THEN Attach ELSE UNCHANGED ctxVars
  /\ UNCHANGED <<dispatchVars, syncVars>>

DetachTcp ==
  /\ d_n_d_device("tcp")
  /\ IF filtering THEN Detach ELSE UNCHANGED ctxVars
  /\ UNCHANGED <<dispatchVars, syncVars>>

FreeObjects ==
  /\ ot_free
  /\ IF phase' = "crashed" THEN UNCHANGED ctxVars ELSE Forget
  /\ UNCHANGED <<dispatchVars, syncVars>>

(* load_cfg within tdifw_driver_entry; a list that is loaded is cleared    *)
(* again if there is no device.                                            *)
Enter ==
  /\ tdifw_driver_entry
  /\ IF entered' THEN load_file ELSE load_file_undone \/ UNCHANGED syncVars
  /\ locked' => "cfg_file" \in made'
  /\ UNCHANGED <<dispatchVars, ctxVars>>

Leave ==
  /\ tdifw_driver_unload
  /\ IF loaded /\ phase' # "crashed" THEN unload_cfg ELSE UNCHANGED syncVars
  /\ UNCHANGED <<dispatchVars, ctxVars>>

-----------------------------------------------------------------------------
(* What comes back to the driver.                                          *)

WithRoutine(r) ==
  irp[r].at \in {"below", "completing", "returning"} /\ irp[r].way # "passed"
Outstanding ==
  \/ \E r \in Reqs : WithRoutine(r)
  \/ \E c \in Conns : request[c] # NoOne /\ request[c].op \in {"connect", "accept"}
  \/ event # NoOne \/ ucn # Nothing

(* OnUnload does not wait for any of it. *)
LateCall ==
  /\ phase = "gone"
  /\ Outstanding \/ TCPSendData
  /\ Crash
  /\ UNCHANGED <<dispatchVars, ctxVars, syncVars>>

(* The driver can be loaded again, if nothing of that is left. *)
Again ==
  /\ phase = "gone" /\ ~Outstanding /\ ~TCPSendData
  /\ Restart(made)
  /\ UNCHANGED <<dispatchVars, ctxVars, syncVars>>

(* The machine starts anew. *)
Reboot ==
  /\ Restart({}) /\ PowerOff
  /\ irp' = [r \in Reqs |-> Idle] /\ TCPSendData' = FALSE
  /\ filtering' = FALSE
  /\ ot' = {} /\ conn_ctx' = Nothing /\ associated_fileobj' = Nothing /\ laddr' = Nothing
  /\ g_cte' = NoLinks
  /\ open' = {} /\ assoc' = Nothing /\ context' = Nothing /\ connected' = {} /\ request' = Nothing
  /\ event' = NoOne /\ ucn' = Nothing
  /\ unlinked' = {} /\ spoiled' = {} /\ late' = {} /\ mistaken' = {} /\ misnoted' = {}

-----------------------------------------------------------------------------
(* The clients.                                                            *)

RequestStep ==
  /\ \E r \in Reqs :
       \/ /\ Dispatching
          /\ \E code \in Codes, asks \in SUBSET Outcomes :
               \/ attached \ misrouted # {} /\ Arrives(r, code, asks)
               \/ attached \cap misrouted # {} /\ tdifw_user_device_dispatch(r, code, asks)
       \/ /\ WithRoutine(r) => Loaded
          /\ \E status \in {"success", "error"} : TcpipCompletes(r, status)
       \/ phase # "crashed" /\ (IoCancelIrp(r) \/ Reused(r))
       \/ Loaded /\ Completes(r)
  /\ UNCHANGED <<lifeVars, ctxVars, syncVars>>

(* Nothing reaches tcpip.sys through a device that is taken for another. *)
ConnectionStep ==
  /\ phase # "crashed" /\ "tcp" \notin attached \cap misrouted
  /\ \/ \E c \in Conns, x \in Ctxs : OpenConn(c, x) \/ UnseenConn(c, x)
     \/ \E a \in Addrs : OpenAddr(a) \/ UnseenAddr(a) \/ CleanupAddr(a)
     \/ \E c \in Conns, a \in Addrs : Associate(c, a)
     \/ \E c \in Conns :
          \/ CleanupConn(c) \/ TcpipClosesConn(c) \/ TcpipAssociates(c)
          \/ Disassociate(c) \/ TcpipDisassociates(c)
          \/ Connect(c) \/ Disconnect(c) \/ EventDisconnect(c) \/ UnseenConnect(c)
     \/ /\ Loaded
        /\ \/ \E c \in Conns :
                \/ TcpipConnects(c) \/ TcpipAccepts(c)
                \/ delayed_ucn(c) \/ update_conn_info_complete(c)
                \/ EventAccepted(c) \/ \E x \in Ctxs : EventAcceptedAs(c, x)
           \/ \E a \in Addrs : EventConnect(a)
           \/ EventRefused
  /\ UNCHANGED <<lifeVars, dispatchVars, syncVars>>

(* The handles of the control device, kept by DriverLife as one. *)
AdfHandles ==
  CASE valid = {} /\ valid' # {} -> OpenNamed("adf")
    [] valid # {} /\ valid' = {} -> CloseNamed("adf")
    [] OTHER -> UNCHANGED lifeVars

ApplicationStep ==
  /\ phase # "crashed"
  /\ \/ \E g \in Guis :
          \/ HostViewModel(g) /\ (valid' # valid => phase = "up")
          \/ Dispose(g) \/ Flush(g) \/ Killed(g)
          \/ \E h \in Hosts : Add(g, h) \/ Del(g, h) \/ RowDeleted(g, h)
          \/ \E old, new \in Hosts :
               s_LostFocus(g, old, new) \/ CommitFirst(g, old, new) \/ CommitOther(g, old, new)
     \/ \E h \in Hosts : phase = "up" /\ adfcon(h)
  /\ AdfHandles
  /\ UNCHANGED <<dispatchVars, ctxVars>>

DNext ==
  \/ LifeAlone \/ AttachTcp \/ DetachTcp \/ FreeObjects \/ Enter \/ Leave
  \/ LateCall \/ Again \/ Reboot
  \/ RequestStep \/ ConnectionStep \/ ApplicationStep

DSpec == DInit /\ [][DNext]_driverVars
=============================================================================

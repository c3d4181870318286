----------------------------- MODULE DriverLife -----------------------------
(***************************************************************************)
(* The driver's life: DriverEntry and OnUnload (tdi_fw.c), the parts each  *)
(* of their calls makes and frees, the adfilter library's own entry and    *)
(* unload (driver.c), and the handles of its control devices.              *)
(*                                                                         *)
(* `todo' holds the calls that DriverEntry or OnUnload still has to make.  *)
(* What the driver owns is `made'; a pointer it kept to something freed is *)
(* in `stale'.  A call that uses what is not there stops the machine in    *)
(* the state it found.                                                     *)
(***************************************************************************)
EXTENDS Integers, Sequences

Protos == {"tcp", "udp", "ip"}
Named == {"control", "nfo", "adf"}
Tables == {"ot", "cte", "listen", "conn"}
Parts == Tables \cup Protos \cup Named \cup
  {"notify", "rule", "queue", "thread", "lists",
   "control_link", "nfo_link", "adf_link",
   "request_event",  \* g_queue.event, while the control device is open
   "cfg_file"}       \* a file that load_file did not close

LinkOf == [control |-> "control_link", nfo |-> "nfo_link", adf |-> "adf_link"]

VARIABLES
  phase,         \* "out", "entering", "up", "leaving", "gone" or "crashed"
  todo,          \* calls to come
  made,          \* parts that exist
  stale,         \* parts that are freed and still pointed at
  attached,      \* filter devices attached to those of tcpip.sys
  MajorFunction, \* "default", "ours" or "tcpip"
  misrouted,     \* filter devices that lie in the block of the freed adf device
  handles,       \* named devices that are open
  entered        \* history: tdifw_driver_entry succeeded

lifeVars == <<phase, todo, made, stale, attached, MajorFunction, misrouted, handles, entered>>

(* Fault: the library is set up after the devices are attached. *)
LoadOrder_Late ==
  <<"ot_init", "filter_init", "conn_state_init", "DeviceDispatch", "control", "nfo",
    "tcp", "udp", "ip", "tdifw_driver_entry">>

(* DriverEntry: the calls in their order. *)
LoadOrder ==
  <<"ot_init", "filter_init", "conn_state_init", "DeviceDispatch", "control", "nfo",
    "tdifw_driver_entry", "tcp", "udp", "ip">>

(* OnUnload: the calls in their order. *)
UnloadOrder ==
  <<"tdifw_driver_unload", "tcp", "udp", "ip", "control", "nfo",
    "filter_free", "ot_free", "conn_state_free">>

LifeTypeOK ==
  /\ phase \in {"out", "entering", "up", "leaving", "gone", "crashed"}
  /\ \E order \in {LoadOrder, UnloadOrder} : \E n \in 1..Len(order) + 1 :
       todo = SubSeq(order, n, Len(order))
  /\ made \subseteq Parts /\ stale \subseteq Parts \ made
  /\ attached \subseteq made \cap Protos
  /\ MajorFunction \in {"default", "ours", "tcpip"}
  /\ misrouted \subseteq Protos
  /\ handles \subseteq Named
  /\ entered \in BOOLEAN

LifeInit ==
  /\ phase = "out" /\ todo = <<>>
  /\ made = {} /\ stale = {} /\ attached = {} /\ misrouted = {}
  /\ MajorFunction = "default"
  /\ handles = {} /\ entered = FALSE

-----------------------------------------------------------------------------
(* Loading.                                                                *)

(* The system loads the driver. *)
Load ==
  /\ phase = "out"
  /\ phase' = "entering" /\ todo' = LoadOrder
  /\ UNCHANGED <<made, stale, attached, MajorFunction, misrouted, handles, entered>>

Entering(call) == phase = "entering" /\ todo # <<>> /\ Head(todo) = call
Leaving(call) == phase = "leaving" /\ todo # <<>> /\ Head(todo) = call

Succeed == todo' = Tail(todo) /\ UNCHANGED phase

(* DriverEntry's `done' label: whatever failed, OnUnload is called.        *)
Fail == phase' = "leaving" /\ todo' = UnloadOrder

(* ot_init: if there is no memory for the second table the first is freed, *)
(* and g_ot_hash still points at it.                                       *)
ot_init ==
  /\ Entering("ot_init")
  /\ \/ Succeed /\ made' = made \cup {"ot", "cte"} /\ UNCHANGED stale
     \/ Fail /\ stale' \in {stale, stale \cup {"ot"}} /\ UNCHANGED made
  /\ UNCHANGED <<attached, MajorFunction, misrouted, handles, entered>>

(* filter_init: the notify routine, the first rule and the queue. *)
filter_init ==
  /\ Entering("filter_init")
  /\ \/ Succeed /\ made' = made \cup {"notify", "rule", "queue"}
     \/ Fail /\ made' = made \cup {"notify"}
     \/ Fail /\ made' = made \cup {"notify", "rule"}
  /\ UNCHANGED <<stale, attached, MajorFunction, misrouted, handles, entered>>

(* conn_state_init: the tables, then the sweeper thread; on failure the    *)
(* tables are freed and their pointers kept.                               *)
conn_state_init ==
  /\ Entering("conn_state_init")
  /\ \/ Succeed /\ made' = made \cup {"listen", "conn", "thread"} /\ UNCHANGED stale
     \/ /\ Fail
        /\ \E kept \in {{}, {"listen"}, {"listen", "conn"}} : stale' = stale \cup kept
        /\ UNCHANGED made
  /\ UNCHANGED <<attached, MajorFunction, misrouted, handles, entered>>

SetDispatch ==
  /\ Entering("DeviceDispatch")
  /\ Succeed
  /\ MajorFunction' = "ours"
  /\ UNCHANGED <<made, stale, attached, misrouted, handles, entered>>

(* IoCreateDevice and IoCreateSymbolicLink for the control and the         *)
(* information device.                                                     *)
CreateNamed(d) ==
  /\ d \in {"control", "nfo"} /\ Entering(d)
  /\ \/ Succeed /\ made' = made \cup {d, LinkOf[d]}
     \/ Fail /\ made' \in {made, made \cup {d}}
  /\ UNCHANGED <<stale, attached, MajorFunction, misrouted, handles, entered>>

(* tdifw_driver_entry: load_cfg, whose result is ignored and which leaves  *)
(* a file open when it runs out of memory, then create_device.  If the     *)
(* link fails the device is deleted, but stays registered with the engine  *)
(* and in Adf.device.  DriverEntry overwrites the returned status.         *)
tdifw_driver_entry ==
  /\ Entering("tdifw_driver_entry")
  /\ Succeed
  /\ \E files \in SUBSET {"cfg_file"} :
       \/ /\ made' = made \cup {"lists", "adf", "adf_link"} \cup files
          /\ entered' = TRUE /\ UNCHANGED stale
       \/ /\ made' = made \cup {"lists"} \cup files
          /\ stale' \in {stale, stale \cup {"adf"}} /\ UNCHANGED entered
  /\ UNCHANGED <<attached, MajorFunction, misrouted, handles>>

(* c_n_a_device: the filter device, perhaps in the block of the adf device *)
(* that was just freed, and its attachment.                                *)
c_n_a_device(p) ==
  /\ p \in Protos /\ Entering(p)
  /\ \/ Succeed /\ made' = made \cup {p} /\ attached' = attached \cup {p}
     \/ Fail /\ made' \in {made, made \cup {p}} /\ UNCHANGED attached
  /\ misrouted' \in {misrouted} \cup
       IF "adf" \in stale /\ misrouted = {} THEN {made' \cap {p}} ELSE {}
  /\ UNCHANGED <<stale, MajorFunction, handles, entered>>

EntryDone ==
  /\ phase = "entering" /\ todo = <<>>
  /\ phase' = "up"
  /\ UNCHANGED <<todo, made, stale, attached, MajorFunction, misrouted, handles, entered>>

-----------------------------------------------------------------------------
(* Running: the named devices.                                             *)

(* IRP_MJ_CREATE of a named device; for the control device filter_init_2,  *)
(* whose failure goes unnoticed.                                           *)
OpenNamed(d) ==
  /\ phase = "up" /\ d \in Named \ handles /\ {d, LinkOf[d]} \subseteq made
  /\ handles' = handles \cup {d}
  /\ \/ d = "control" /\ made' = made \cup {"request_event"}
     \/ UNCHANGED made
  /\ UNCHANGED <<phase, todo, stale, attached, MajorFunction, misrouted, entered>>

(* IRP_MJ_CLOSE; for the control device filter_free_2. *)
CloseNamed(d) ==
  /\ phase = "up" /\ d \in handles
  /\ handles' = handles \ {d}
  /\ made' = IF d = "control" THEN made \ {"request_event"} ELSE made
  /\ UNCHANGED <<phase, todo, stale, attached, MajorFunction, misrouted, entered>>

-----------------------------------------------------------------------------
(* Unloading, in a build with CAN_UNLOAD.                                  *)

(* The I/O manager waits for the handles of the driver's devices. *)
Unload ==
  /\ phase = "up" /\ handles = {}
  /\ phase' = "leaving" /\ todo' = UnloadOrder
  /\ UNCHANGED <<made, stale, attached, MajorFunction, misrouted, handles, entered>>

Crash ==
  /\ phase' = "crashed"
  /\ UNCHANGED <<todo, made, stale, attached, MajorFunction, misrouted, handles, entered>>

(* A call of OnUnload that needs `needs' and frees `frees'. *)
Frees(call, needs, frees) ==
  /\ Leaving(call)
  /\ IF needs \subseteq made
     THEN /\ Succeed
          /\ made' = made \ frees
          /\ UNCHANGED <<stale, misrouted, handles, entered>>
     ELSE Crash

(* tdifw_driver_unload deletes Adf.device without a look at it, and clears *)
(* the lists, whose heads stay.                                            *)
tdifw_driver_unload ==
  /\ Frees("tdifw_driver_unload", {"adf", "lists"}, {"adf", "adf_link"})
  /\ UNCHANGED <<attached, MajorFunction>>

(* Fault: the device is detached and not deleted. *)
d_n_d_device_Detach(p) ==
  /\ p \in Protos
  /\ Frees(p, {}, {})
  /\ attached' = attached \ {p}
  /\ MajorFunction' = IF p \in attached THEN "tcpip" ELSE MajorFunction

(* Fault: the device is deleted whether it is there or not. *)
d_n_d_device_Blind(p) ==
  /\ p \in Protos
  /\ Frees(p, {p}, {p})
  /\ attached' = IF p \in made THEN attached \ {p} ELSE attached
  /\ MajorFunction' = IF p \in attached THEN "tcpip" ELSE MajorFunction

(* d_n_d_device: once one device was attached the dispatch routines are    *)
(* those of tcpip.sys.                                                     *)
d_n_d_device(p) ==
  /\ p \in Protos
  /\ Frees(p, {}, {p})
  /\ attached' = attached \ {p}
  /\ MajorFunction' = IF p \in attached THEN "tcpip" ELSE MajorFunction

DeleteNamed(d) ==
  /\ d \in {"control", "nfo"}
  /\ Frees(d, {}, {d, LinkOf[d]})
  /\ UNCHANGED <<attached, MajorFunction>>

(* filter_free walks the queue; the notify routine is unregistered last. *)
filter_free ==
  /\ Frees("filter_free", {"queue"}, {"rule", "queue", "notify"})
  /\ UNCHANGED <<attached, MajorFunction>>

ot_free ==
  /\ Frees("ot_free", {"ot"}, {"ot", "cte"})
  /\ UNCHANGED <<attached, MajorFunction>>

(* conn_state_free wakes the thread, waits for it and frees the tables; if *)
(* conn_state_init failed it frees them a second time.                     *)
conn_state_free ==
  /\ Frees("conn_state_free", {"listen", "conn"}, {"listen", "conn", "thread"})
  /\ UNCHANGED <<attached, MajorFunction>>

(* OnUnload returns and the image goes, with the heads of the lists.       *)
UnloadDone ==
  /\ phase = "leaving" /\ todo = <<>>
  /\ phase' = "gone"
  /\ made' = made \ {"lists"}
  /\ UNCHANGED <<todo, stale, attached, MajorFunction, misrouted, handles, entered>>

(* The driver starts with nothing, the next time the machine does or, once *)
(* unloaded, while the machine still runs.                                 *)
Restart(kept) ==
  /\ phase # "out"
  /\ phase' = "out" /\ todo' = <<>>
  /\ made' = kept /\ stale' = {} /\ attached' = {} /\ misrouted' = {}
  /\ MajorFunction' = "default"
  /\ handles' = {} /\ entered' = FALSE

LifeNext ==
  \/ Load \/ ot_init \/ filter_init \/ conn_state_init \/ SetDispatch
  \/ \E d \in Named : CreateNamed(d) \/ OpenNamed(d) \/ CloseNamed(d) \/ DeleteNamed(d)
  \/ tdifw_driver_entry \/ EntryDone
  \/ \E p \in Protos : c_n_a_device(p) \/ d_n_d_device(p)
  \/ Unload \/ tdifw_driver_unload \/ filter_free \/ ot_free \/ conn_state_free
  \/ UnloadDone \/ Restart({}) \/ (phase = "gone" /\ Restart(made))

LifeSpec == LifeInit /\ [][LifeNext]_lifeVars

-----------------------------------------------------------------------------
(* Where the driver's code can run for a client: its dispatch routines     *)
(* while a device is attached, its event handlers until ot_free.           *)
Dispatching == attached # {} /\ MajorFunction = "ours" /\ phase # "crashed"
EventsInstalled == "ot" \in made /\ phase \in {"up", "leaving"} /\ entered

(* Everything a request or an event uses is set up before it can arrive    *)
(* and is there for as long as it can (tdi_fw.c:205, conn_state.c:112).    *)
(* Excepted is the queue between filter_free and ot_free: an event that    *)
(* arrives then logs into freed memory.                                    *)
HandlersReady ==
  /\ Dispatching => Tables \cup {"notify", "rule", "queue", "thread", "lists"} \subseteq made
  /\ EventsInstalled => Tables \cup {"thread", "lists"} \subseteq made
  /\ EventsInstalled /\ (todo = <<>> \/ Head(todo) # "ot_free") => {"rule", "queue"} \subseteq made

(* OnUnload never uses what is not there, and a request never reaches the  *)
(* wrong branch of DeviceDispatch, unless tdifw_driver_entry had failed or *)
(* was not reached: then tdifw_driver_unload deletes a device that does    *)
(* not exist, and one deleted for want of its link stays registered.       *)
UnloadTouchesLive ==
  /\ phase = "crashed" /\ todo # <<>> => ~entered
  /\ misrouted # {} => "adf" \in stale

(* When OnUnload has returned nothing of the driver is left: no device, no *)
(* link, no table, no thread, no notify routine, no event; only a file     *)
(* that load_file left open when it ran out of memory (adfilter.c:103).    *)
NothingLeft == phase = "gone" => made \subseteq {"cfg_file"} /\ attached = {} /\ handles = {}
=============================================================================

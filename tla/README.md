# A TLA+ development of adfilter

adfilter blocks advertisements on Windows by refusing DNS queries for listed
host names. Its kernel driver is built from two libraries: `sys/tdi_fw`, a
firewall that sits as a filter over the TDI devices of tcpip.sys (TCP, UDP and
raw IP), and `sys/adfilter`, which links it and supplies the judgement of
outgoing datagrams. A WPF application (`exe/adfilter`) and a console
(`exe/adfcon`) talk to the driver's control device.

This directory holds TLA+ models of the stateful parts of the driver, TLC
configurations that check them on small instances, and proofs checked by TLAPS
that hold for instances of every size. `PROJECT.json` maps each definition to the
lines it translates, lists the runs, and gives for each property a plausible bug
(a definition whose comment starts with "Fault:") that breaks it.

Paths below are relative to `src/`; `tdi_fw` stands for `sys/tdi_fw/src`.

## 1. The system: an inventory

| Component | State | Operations | Hard part |
|---|---|---|---|
| TCP state table (`tdi_fw/conn_state.c`) | hash of `conn_entry`, deletion list `g_conn_to_del`, event, thread handle | add / delete / get / set state; `conn_thread`; `conn_state_free` | one thread frees what handlers still point at, on timers |
| Listen table (`conn_state.c`) | `listen_entry` chains by port | `add_listen`, `del_listen_obj`, lookups | shared ownership with address objects |
| Object table (`obj_tbl.c`) | `ot_entry` per file object, contexts, event handlers, (address object, context) index | add, find, clean up, delete, `ot_free` | pointers kept across unlocks; reuse of file-object addresses |
| TDI connection handlers (`disp_conn.c`, `ev_conn.c`) | pending IRPs, completions, `new_state` | connect, disconnect, incoming connect, disconnect events | state read and written under separate lock acquisitions |
| TDI object handlers (`disp_obj.c`, `disp_ev.c`, `dispatch.c`) | IRPs with two chained completions | create, associate, set event handler, cleanup | failure halfway through a create |
| Request log (`filter.c`: `log_request`, `get_request`, ...) | cyclic queue `g_queue`, blocks owned by slots, event | log, read, attach, detach, free | overflow, wrap-around, signalling after the unlock |
| Rule chains (`filter.c`) | rule chains, active flags | `add_flt_rule`, `clear_flt_chain`, `quick_filter` | in this product `quick_filter` calls `tdifw_filter` |
| PID table (`pid_pname.c`, `tdi_create`) | process names, events, contexts | resolve, set, process notification | a five-second handshake with the logging application |
| SID list (`sids.c`) | a table replaced as a whole | set, lookup | none: one lock |
| Host filter (`sys/adfilter/filter.c`, `list.c`, `adfilter.c`) | three host lists, pause switch, `g_need_check` | `tdifw_filter`, `tdifw_udp_send`, `filter`, load and unload | one global gate; lock released between two looks |
| Host control device (`sys/adfilter/dispatch.c`, `driver.c`) | the control device | set/get pause, add/delete/get host | ioctls during a walk; teardown order |
| Datagrams and streams (`disp_dg.c`, `ev_dg.c`, `disp_sr.c`, `ev_recv.c`) | byte counters | send, receive, chained receive | `g_ot_hash_guard` is held while a datagram is judged |
| Load, dispatch and unload (`tdi_fw.c`) | devices, links, `MajorFunction`, the stack location of each IRP | `DriverEntry`, `OnUnload`, `DeviceDispatch`, `tdi_dispatch_complete`, `tdi_skip_complete` | order; a failure at any call; completion routines that outlive what they need |
| Desktop application, library and console (`exe/adfilter`, `exe/adfcon`) | the host lists, their files, a handle of the control device | add, delete, edit a cell, save on exit | the list exists three times, and only an orderly exit writes the file |
| Packet interface (`packet.c`), info ioctls (`ipc.c`), `memtrack.c`, vendored `slre`, installer | none, or a copy of the above | | |

How they interact. Every request of a client is an IRP that `DeviceDispatch`
gives to a handler; the handler takes `g_ot_hash_guard` to find its `ot_entry`,
and `g_conn_guard` or `g_listen_guard` inside it. Completion routines and the
events of tcpip.sys re-enter the same tables later, in any order. The one thread
of the driver, `conn_thread`, takes only `g_conn_guard`. What the handlers log
goes through the request queue to a user process. Sends of datagrams call
`tdifw_udp_send` of the host filter with `g_ot_hash_guard` held; the host filter
has a lock of its own, `Adf.lock`, shared with its ioctls. What a handler decides
takes effect in tcpip.sys later and may be refused there, so the driver's record of
an object and tcpip.sys' own can differ. The applications reach the driver through
one control device and each other only through the file.

What makes each part correct: an entry is never reachable once queued for
deletion, and never lost; a closed entry stays for `MAX_CLOSED_TIME` and goes
eventually; a teardown ends and leaves nothing; a log slot owns its blocks and
rejected requests are counted; a reader is woken; a verdict on a datagram follows
from a configuration that held while it was judged; a client hears of its request
as if the driver were not there; an event is taken for the connection it is about;
nothing the driver can be called for is used before it is made or after it is
freed; the list on the screen is the one in the driver and, in the end, in the file.

## 2. Modules

| Module | Models | Lines |
|---|---|---|
| `ConnState` | the TCP state table, the connection objects that own its entries, the handlers, `conn_thread`, teardown | `conn_state.c`, parts of `obj_tbl.c`, `disp_conn.c`, `ev_conn.c`, `tdi_fw.c` |
| `ConnTable` | abstract: a state in each connection object and a record of connections that are over | |
| `ConnStateProofs` | type correctness, `NoDangling`, `NoOrphan`, `ClosedLingers`, `SweepArmed`, `ImplementsTable` | |
| `RequestLog` | abstract: a bounded log that counts what it rejects | |
| `RequestQueue` | the cyclic queue, its blocks and its event | `filter.c` |
| `RequestQueueProofs` | type correctness, `BlocksOwned`, `NoLeak`, `Announced`, `SkippedAccounted`, `ImplementsLog` | |
| `HostFilter` | the host lists, the DNS gate, the judgement of a datagram, ioctls, unload | `sys/adfilter/*`, `disp_dg.c` |
| `HostFilterProofs` | type correctness, `VerdictJustified`, `EntriesOutliveWalks` | |
| `PidResolve` | the table of process names, the handshake of `tdi_create`, process notification | `pid_pname.c`, `disp_obj.c`, `filter.c` |
| `PidResolveProofs` | type correctness, `EventsOwned`, `MissesExplained`, `NameStays` | |
| `AddrObj` | address objects, their event handlers, the listen table, the restoring of handlers by `ot_free` | `obj_tbl.c`, `disp_obj.c`, `disp_ev.c`, `conn_state.c` |
| `EventHandlers` | abstract: the handler each client has set, and the one an event reaches | |
| `AddrObjProofs` | type correctness, `ListenOwned`, `HandlersBacked`, `ListenTruth`, `HandlersRestored`, `ImplementsHandlers` | |
| `DriverLife` | `DriverEntry` and `OnUnload` call by call, named devices and their handles | `tdi_fw.c`, `sys/adfilter/driver.c`, the `*_init` and `*_free` functions |
| `Dispatch` | a request's way through a filter device and back | `tdi_fw.c`, `dispatch.c`, `tdi_fw.h` |
| `ConnCtx` | association, the (address object, context) index, connections as the driver and as tcpip.sys know them, recorded local addresses | `obj_tbl.c`, `disp_obj.c`, `disp_conn.c`, `ev_conn.c` |
| `ClientProofs` | type correctness of `Dispatch` and `ConnCtx`, `ClientTold`, `DutiesDone`, `LinkTruth`, `EventHitsOwn`, `RecordedAddress` | |
| `HostSync` | the host list in the file, the driver and the applications | `sys/adfilter/*`, `exe/adfilter`, `exe/adfcon` |
| `HostSyncProofs` | type correctness, `ListsAgree` | |
| `Driver` | the composition of the last four components | `tdi_fw.c`, `sys/adfilter/dispatch.c` |
| `DriverProofs` | type correctness, `HandlersReady`, `UnloadTouchesLive`, `NothingLeft`, and the properties of `Dispatch`, `ConnCtx` and `HostSync` in the composition | |
| `MCConnState`, `MCRequestQueue`, `MCHostFilter`, `MCPidResolve`, `MCAddrObj`, `MCDriver` | instances for TLC | |

### ConnState

`fobj` and `conn_entry` are the two fields of an `ot_entry` that matter here;
`heap`, `state`, `connobj`, `age` and `g_conn_to_del` are the pool, the fields of
`conn_entry` and the list linked by `next_to_del`. Each section of a handler that
runs under a lock is an action; `tdi_disconnect` and `tdi_event_disconnect`, which
leave the lock between reading a state and writing its successor, are two
actions each (`..._release`, `..._set`). `conn_irp`, `disc` and `ev` say which IRP or
event is between its parts. `disc[c].to` is the local `new_state`: no branch
assigns it for an unexpected state (`disp_conn.c:431-438`), so it then takes any
value of `Garbage`.

`tdi_event_connect` on an object with a left-over entry queues that entry twice,
which makes the list circular; `conn_thread` then never leaves its loop and keeps
`g_conn_guard`. The model records this in `relinked` and lets nothing that needs
the lock happen afterwards.

Time: `age[e]` counts from `ce->ticks`, `timer` counts the thread's wait down, and
`lag` is the time since the thread's `KeQueryTickCount` (before the lock) or since
its pass (before it waits again). The bound `MaxLag` limits `lag`; `AgeCap` is
where ages saturate, beyond any value the properties tell apart.

`ConnTable` is what the handlers may believe: a state stored in the connection object
itself. The mapping reads `tracked[c]` off the entry `c` points at (`Tracked`), takes the
queued entries and their ages for the record of what is over (`Lingering`), and the
cleared thread handle for `unloading`. The heap, `connobj`, the events, the thread
and its clock have no counterpart. `ConnTable` leaves open what the code leaves open:
a disconnect may write its successor over any later state, and the record may be
swept late.

### RequestQueue

`data`, `head`, `tail` are the fields of `g_queue`; `live` is the set of pool blocks
allocated for process names and SIDs. `log_request` under the lock is one action;
the test of `g_queue.event` and the `KeSetEvent`, which run after it without the
lock, are `log_request_test` and `log_request_set`. The logging application is
`filter_init_2` (open), `get_request` (read), `reader_wait` (its wait) and
`filter_free_2` (close). `logged`, `rejected`, `told` and `unseen` are history
variables. `MaxLogged` bounds the number of requests.

### HostFilter

`tdi_send_datagram` holds `g_ot_hash_guard` from the lookup of the address object
to its end, so one datagram at a time is judged; `pc` says how far it is. Three
windows are open to other threads: before the look at the switch, between that
look and the walk, and the walk itself, which holds `Adf.lock` and so excludes
ioctls but not `unload_cfg`. The walk is one entry per step. Regular expressions
are the constant relation `Matches`. Names are what `fmt_dns_msg` extracts; the
formatting is not modelled. `pauses` and `moments` record what the switch and the
lists said since the send began. A step that reads an entry already freed sets
`walked_freed` and the model stops there (what follows is undefined).

### PidResolve

`g_plist` is the list of entries in order, because `find_ple` returns the first of a
pid. A caller that finds an entry works on it under the guard, so that is one action;
a caller that misses leaves the guard and appends later (`register_add`,
`reset_add`, `pid_pname_set_add`). The event is the local variable of one call, so
the thread stands for it; when the call returns, what still points at it becomes
`DEAD`, and a `KeSetEvent` on that is undefined behaviour, where the model stops.
The driver starts after some processes, so any set of processes may be alive in
`Init`. `clean` remembers the processes whose creation the driver saw and that found
nothing of an earlier process with their pid, in the list or under way in the
application's ioctl. The answers of the logging application are unconstrained: for
any pid, at any time while it has the device open. `MaxEntries` bounds the list.

### AddrObj

`g_ot` with `fileobj`, `ipproto`, `listen_entry` and `old_handler` are the `ot_entry`s of
address objects, `g_listen` with `addrobj` the listen table. Connection objects share
the C structure but none of this state; they are in `ConnState`. A request acts on
the driver's tables first and reaches tcpip.sys in a later step (`request`, then
`TcpipSets`; `tdi_cleanup`, then `TcpipCloses`), and `installed` is what tcpip.sys calls for
an object and event: an `ot_entry` stands for the driver's handler with that entry's
context, a member of `Handlers` for a client's own. `CONNECT` is singled out
because it alone touches the listen table; the other types of events differ in
nothing but whether the driver has a handler to put in front (`events.c:31` has
none for chained datagrams), which is a choice of the action. `ot_free` takes one
handler at a time, leaves the guard, and gives the handler back (`restoring`); it
visits the entries in hash order, which the model leaves open. `lost` names the
handlers it could not give back. After the devices are detached the driver no longer
sees its clients: `DetachedCleanup` is a cleanup that it misses.

`EventHandlers` is what the clients may believe: for each object and event the handler
set (`keeps`) and what an event gets (`calls`). The mapping reads `keeps` off the context
in the object's own entry, or off `restoring` while `ot_free` has the handler in hand
(`Kept`). `calls` is what tcpip.sys calls for the object, and where that is the driver,
the `old_handler` of the context it was installed with (`Called`). The driver's event
handlers call `old_handler` untested (`ev_conn.c:126`, `401`, `ev_dg.c:140`), so where it
is NULL, or its entry gone, an event gets `Bugcheck`. `EventHandlers` allows that in three
spans and no others: from the removal of a handler (`Remove`) or the clean-up of an object
(`Close`) until tcpip.sys has agreed, and from the moment `ot_free` has cleared the context
(`obj_tbl.c:127`) until tcpip.sys has the client's handler back (`obj_tbl.c:199-202`;
`Miss`). It leaves open, too, that a new handler may be called before tcpip.sys has seen
the request, and even if `add_listen` fails and the request is denied (`Ask`); that events
without a handler of the driver reach nobody (`Drop`); and that a handler is lost at
unload (`Lose`).

### DriverLife

`todo` is the rest of `LoadOrder` or `UnloadOrder`, the calls in the order of the
source, and each call is an action with a disjunct for every way it can fail.
`made` holds what exists: tables, devices, links, the thread, the notify routine.
`DriverEntry` calls `OnUnload` whatever failed, and `OnUnload` never asks how far
loading came, so each of its actions says what it needs (`Frees`) and the machine
stops (`"crashed"`) if that is missing. Two kinds of pointers survive a failure and
are in `stale`: tables that an `*_init` freed again, and the control device that
`create_device` deletes for want of its link while it stays in `g_user_devices`. A
filter device created later may lie at that address (`misrouted`), and
`DeviceDispatch` then takes its requests for the user device's. The branches of
`d_n_d_device` for a device that was never created are taken; `old_devobj` unknown
to `DeviceDispatch` is not reachable, as every device of the driver is registered.

### Dispatch

`irp[r]` is one request: `way` says what `tdi_dispatch_complete` did with its stack
location (`passed` on, `copied` with a routine of the driver in the next one, or,
without a next one, `skipped` with `tdi_skip_complete` in the client's place), `asks`
the outcomes the client's `SL_INVOKE_ON_*` flags name, `told` counts the calls of the
client's routine, and `duty` is what the handler began and its completion routine
has to end. `IoCompletes` is what the I/O manager does with the client's location,
and so external. Which handlers deny, allow or set a routine is in `Denying`,
`tdi_deny_stub`, `Completing` and `g_tdi_ioctls`; the verdict itself is open, since in
this product `quick_filter` is `tdifw_filter`, and what it says is `HostFilter`'s
subject. Left out because no handler produces them: `FILTER_UNKNOWN`, the generic
routine set by a handler (lines 816-817), and `STATUS_MORE_PROCESSING_REQUIRED`
from a completion routine of a request.

### ConnCtx

What the driver has recorded (`ot`, `conn_ctx`, `associated_fileobj`, `g_cte`, `laddr`)
stands beside what tcpip.sys knows (`open`, `assoc`, `context`, `connected`). A request
changes the first at once and the second when tcpip.sys takes it up (`request`). An
incoming connection is `EventConnect` up to the call of the client's handler, which
runs without the guard, then `EventAccepted`, `EventAcceptedAs` or `EventRefused`; in
between the address object may be cleaned up (`event.alive`), and the address that is
copied from it is then `Freed`. `laddr[c]` names the address object whose address
`add_tcp_conn` recorded. `update_conn_info` allocates a work item (`ucn` is
`"queued"`), which sends a query for the file object (`delayed_ucn`), whose answer is
written to whatever connection has the file object by then. `update_conn_info_complete`
does not look at the status of the query (`disp_conn.c:395-404`): one that fails writes
the zeroed buffer, the address `Zero`. `tdi_associate_address` does not ask whether the
connection is associated already (`disp_obj.c:397-412`): a second request changes
`associated_fileobj` and links the connection there, tcpip.sys refuses it, and a
`tdi_connect` that follows records the address of an object the connection is not made
on. Objects opened before
the driver came are known to tcpip.sys alone (`Unseen...`). `unlinked`, `spoiled`,
`late`, `mistaken` and `misnoted` remember the cases that the properties except. A context is
used by one connection at a time, which is a rule of TDI for clients. Bounds: one
connect event and one address query per object at a time.

### HostSync

A list is a bag of hosts; the user and the except list are alike, and one is
modelled. The application's `List<HostList>` is `gui[g]`. Its three ways to edit
a row differ in who acts first: the Add and Del buttons, the grid's commit of a cell
against `s_LostFocus`, and the grid's own Delete key. Saving is two steps, since
`StreamWriter` truncates the file when it opens it. `locked` is the handle that
`load_file` does not close when memory runs out. `PowerOff` stops everything.

### Driver and MCDriver

A step of `DriverLife` that attaches, detaches, loads or frees is the same step as the
component's (`AttachTcp`, `DetachTcp`, `FreeObjects`, `Enter`, `Leave`); requests and events
arrive only while `DriverLife` says they can, opening and closing the control device
is what the applications do with it (`AdfHandles`), and `LateCall` is a completion
routine, an event, a work item or a direct send that returns into a driver that is
gone. `MCDriver` lets one kind of client act at a time: requests, connections and
lists share nothing but the driver's life, so their interleavings with each other
add states and no behaviour.

## 3. Runs

| Run | Question | Bounds | Result |
|---|---|---|---|
| `conn_table` | `NoDangling`, `NoOrphan`, `SweepArmed`, `ClosedLingers`, `ImplementsTable`, `EventuallySwept`, `UnloadCompletes` | 1 object, 2 entries, `MaxClosed` 2, `MaxLag` 1 | holds, 575 216 states |
| `conn_reuse` | is a left-over entry queued once? (`NotRelinked`) | 2 objects | violated |
| `conn_unload` | is nothing allocated after the join? (`CleanedUpAtExit`) | 2 objects | violated |
| `conn_timeout` | does the thread wait for the earliest entry? (`SleepsToEarliest`) | 2 objects | violated |
| `request_queue` | `BlocksOwned`, `NoLeak`, `SkippedAccounted`, `Announced`, `ImplementsLog` | 3 slots, 2 threads, 5 blocks, 6 requests | holds, 120 016 states up to symmetry |
| `queue_free` | is each block freed once? (`FreedOnce`) | 3 slots, 1 thread | violated |
| `host_filter` | `VerdictJustified`, `EntriesOutliveWalks` | 2 patterns, 2 names, lists of at most 2 | holds, 1 118 466 states |
| `pid_resolve` | `EventsOwned`, `MissesExplained`, `NameStays`, `Returns` | 2 processes, 2 threads of one, 2 names, 3 entries | holds, 453 340 states |
| `pid_reset` | is every event taken back? (`EventReset`) | the same | violated |
| `addr_obj` | `ListenOwned`, `HandlersBacked`, `ListenTruth`, `HandlersRestored`, `ImplementsHandlers`, `FreeCompletes` | 2 objects, 2 entries, 2 listen entries, 2 types of events, 2 handlers set at a time | holds, 679 112 states |
| `driver` | `HandlersReady`, `UnloadTouchesLive`, `NothingLeft`, `ClientTold`, `DutiesDone`, `LinkTruth`, `EventHitsOwn`, `RecordedAddress`, `ListsAgree` | 1 request, 2 connections, 2 address objects, 2 contexts, 2 hosts, 2 applications, 2 entries of a host; one kind of client at a time | holds, 808 325 states up to symmetry |
| `host_gate` | are only DNS queries refused? (`OnlyDnsDenied`) | lists of at most 1 | violated |

Why the bounds are enough for what is asked.

* `conn_table`: the table relates one object to its entries, and objects interact
  only through the pool, the list and the thread. One object that reconnects
  already puts both entries on the list, at different ages, with the thread at any
  point of its loop. `MaxClosed` 2 separates a due entry, a younger one and a
  fresh one. The three violations run with two objects. The safety properties
  that TLAPS proves do not depend on these bounds.
* `request_queue`: three slots hold two requests, so the third overflows; six
  requests go around the ring twice. Five blocks let two requests hold two each
  with one to spare, and the pool still runs out in some steps. Threads and
  blocks are interchangeable, hence the symmetry; `ImplementsLog` is a safety
  property, for which symmetry is sound.
* `host_filter`: one pattern covers both names and one only the first, so lists
  overlap, contain duplicates, and disagree; every initial content is tried.
* `pid_resolve`: duplicates need two callers that miss, here two threads and the
  application, so three entries of one pid are possible; the second process puts a
  foreign entry between them. Allocation may fail at any time.
* `addr_obj`: two objects with as many entries compete for blocks that go and come
  back under other objects. `MaxSet` 2 allows both handlers on one object, which
  `ot_free` needs two rounds for, and one on each.
* `driver`: every call of `DriverEntry` fails in every way, with all clients at rest;
  once loaded, one kind of client acts. Requests do not affect each other (`irp[r]`
  alone is read and written for `r`), so one is enough. Two connections and two
  address objects make an event of one connection that could be taken for the
  other's, through a context or an address that is used again; `FewConnections` keeps
  one request or event under way and one stale link or one excepted case at a time,
  `Calm` one connection and one application while the driver comes and goes. Two
  entries of one host let the grid commit one of them and `Del` find the other; two
  applications are needed to disagree. TLAPS proves every property of this run for all
  values of the constants, with none of these limits.

Deadlock is not checked: the models end in a freed driver, with the bound on
logged requests, or where undefined behaviour begins.

Fairness. `conn_thread` is a system thread that the
scheduler runs, so its step is weakly fair; time passes; and `OnUnload` is
straight-line code, so its steps (`ot_free`, `conn_state_free`) are weakly fair once
entered. Nothing is assumed of clients or of tcpip.sys, so no handler and no
completion is fair. `EventuallySwept` and `UnloadCompletes` except the case
`relinked`, in which the thread does loop for ever: that case is `conn_reuse`. In
`PidResolve!FairSpec` a thread inside `tdi_create` runs on, and its timer expires: its
steps are weakly fair, but neither the answer nor the next call is. In
`AddrObj!FairSpec` `OnUnload` runs on through `ot_free` once the devices are detached;
whether a client ever unloads, closes or answers is left open. The run `driver` states
no fairness: nothing there must happen eventually that is the driver's to do.

## 4. Properties

* `NoDangling`: an entry some object points at is allocated, points back and is not
  queued; a queued entry is `CLOSED` and nobody's. This is what keeps the timer
  driven free safe although `conn_thread` does not take `g_ot_hash_guard`.
* `NoOrphan`: an allocated entry is owned or queued, on every path, failed creates
  and teardown included.
* `SweepArmed`, `EventuallySwept`: the thread never sleeps on a queued entry
  without a wakeup; every queued entry goes.
* `ClosedLingers` (action): a queued entry is neither adopted nor changed, and is
  freed no sooner than `MAX_CLOSED_TIME` after it was closed unless the driver
  unloads.
* `ImplementsTable` (refinement): no step changes the state of two objects, the thread
  changes none, a connection opened from one side is never established from the
  other, a connection that is over goes on record at the same moment, and the driver
  goes only when no connection is tracked.
* `UnloadCompletes`: wherever the thread is when the handle is cleared, it exits.
* `BlocksOwned`, `NoLeak`: blocks belong to exactly one occupied slot; `filter_free`
  leaves none.
* `SkippedAccounted`: `log_skipped` values read and queued add up to the rejections.
* `Announced`: no lost wakeup between append, test, set, attach, detach and wait.
* `ImplementsLog`: the ring refines `RequestLog` with capacity `Size - 1`.
* `VerdictJustified`: the verdict on a UDP datagram is one the switch and the lists
  gave at moments inside the call.
* `EventsOwned`: a process created into a clean table has one entry, and the event
  there belongs to one of its threads that has yet to reset it.
* `MissesExplained`: an event registered beside a known name is either signalled or was
  registered after the name came. An answer can also be missed because the event was
  replaced by another thread's, or lies in the second of two entries (`pid_reset`).
* `NameStays` (action): whatever duplicates there are, the first name reported stays.
* `Returns`: every `tdi_create` ends, with or without an answer.
* `ListenOwned`: the listen table holds exactly the entries that objects own, through
  denied creates, reused file objects and late completions of the address query.
* `HandlersBacked`: behind a handler of the driver in tcpip.sys stands the object's
  entry with the client's handler in it, except while the removal of that handler
  or a cleanup is on its way. The event handlers call `old_handler` without
  testing it, so these are the moments in which they must not run.
* `ListenTruth`: what is listed is open and accepts, what accepts is listed.
* `HandlersRestored`: when the driver's memory goes, tcpip.sys calls clients
  directly, but for the handlers that got no IRP or came too late.
* `ImplementsHandlers`: an event reaches a handler set for it on this object, the last
  one once tcpip.sys has agreed, or none, however blocks are reused and calls overtake
  each other; it finds the driver with nothing to call only while a removal or a close is
  on its way to tcpip.sys or `ot_free` is giving the handler back; no request changes
  another object's or event's handler; and `ot_free` gives each handler back to where it
  was set, or loses it.
* `FreeCompletes`: `ot_free` ends.
* `HandlersReady`: whatever a request or an event uses exists from the first moment one
  can arrive to the last. Excepted is the queue between `filter_free` and `ot_free`
  (`tdi_fw.c:316`), in which an event logs into freed memory.
* `UnloadTouchesLive`: after any failure of `DriverEntry`, `OnUnload` frees only what is
  there, and no filter device is taken for the user device; except after a failure
  of `tdifw_driver_entry` or before it.
* `NothingLeft`: an unload that returns leaves nothing but a file `load_file` did not close.
* `ClientTold`: the client's completion routine is called exactly once if it asked for
  the outcome, and never else. Excepted are the two cases in which the code does
  otherwise (`tdi_fw.c:781` and `899`, below).
* `DutiesDone`: a complete request leaves no entry in SYN_SENT, no `query_irp`, no
  `TDI_SKIP_CTX`.
* `LinkTruth`: the driver finds every connection by what tcpip.sys knows it by, once no
  request on it is on its way; except after a refused disassociation, or an accept
  under a new context that came to nothing.
* `EventHitsOwn`: an event of one connection is never taken for another's, although
  `tdi_cleanup` leaves links behind and addresses are used again.
* `RecordedAddress`: an established connection is in the state table with the address of
  the object it is made on, or with the address 0 if the query for it failed, although
  that address is copied from an entry that may be freed. Excepted are connections begun
  while a query of an earlier one was out, begun from an association that tcpip.sys
  refused, or whose entry went with another connection's event.
* `ListsAgree`: what an application shows is what the driver filters by; once none
  runs, it is what the file says. Excepted, host by host, are the edits that do not
  reach every list.
* `EntriesOutliveWalks`: no ioctl frees an entry under a walk.

## 5. Findings

1. `conn_reuse`, `ev_conn.c:214`: the comment at line 203 clears the entries of a
   reused connection object, but the pointer stays, `add_tcp_conn` reports a
   duplicate and the deny branch queues the entry a second time: a circular list
   and a thread that holds `g_conn_guard` for ever.
2. `conn_unload`, `conn_state.c:727`: the thread may test the handle after it is
   cleared and before the next pass, and exits without the cleanup that the
   comment at line 118 announces.
3. `conn_timeout`, `conn_state.c:714`: the comment says minimum, the comparison
   takes the maximum; a closed entry can stay for twice the intended time
   (`SweepArmed` states that bound).
4. `queue_free`, `filter.c:335`: the overflow branch frees a slot's blocks and
   leaves the pointers, which `filter_free` frees again.
5. `host_gate`, `sys/adfilter/filter.c:131`: the gate is updated for UDP only and
   read for raw IP sends as well.
6. `pid_reset`, `pid_pname.c:113`: two callers that miss both append; the reset finds
   the first entry only, and the second keeps the event of a call that is over.
   Only processes without an entry are exposed: those older than the driver (the
   installer registers it with `start= auto`) and those whose entry could not be
   allocated. `EventsOwned` is what holds of the others.

The exceptions that the properties of the run `driver` name are places where the code
does less than the property would ask, without a comment or test to contradict:

* `tdi_fw.c:781`: without memory for the `TDI_SKIP_CTX` a request is completed after its
  location was skipped. The client's routine is not called and the handler's duty stays.
* `tdi_fw.c:899`: `tdi_skip_complete` looks at `Irp->Cancel` alone. A request that was
  cancelled and ended otherwise is not reported to a client that asked for success
  or error only.
* `tdi_fw.c:209`, `driver.c:40`: the status of `tdifw_driver_entry` is overwritten; the
  driver runs on without its control device, or with a deleted one still registered.
* `tdi_fw.c:316`: the queue goes before the event handlers do.
* `disp_obj.c:448`: the link goes before tcpip.sys refuses the disassociation.
* `disp_obj.c:404`: the association is noted before tcpip.sys refuses it, and `tdi_connect`
  takes the local address from what is noted.
* `disp_conn.c:395`: the status of the query is not looked at; if it fails the entry of an
  established connection gets the address 0. An answer that comes late is written to
  the next connection on the object.
* `obj_tbl.c:127`: from here until tcpip.sys has the client's handler back (l.202), an event
  calls a NULL `old_handler`.
* `ev_conn.c:187`: context and link change before the accept is certain.
* `adfilter.c:103`: the file stays open when memory runs out.
* `HostEdit.xaml:51` and `HostViewModel.cs:123`: the Delete key, a cell the grid commits
  first, a second instance and a crash separate the lists.

Runtime unloading needs a build with `CAN_UNLOAD`, which `sys/tdi_fw/readme.md`
calls unstable; `OnUnload` also runs when `DriverEntry` fails. The model shows one
reason: `unload_cfg` frees the host lists without `Adf.lock` while the devices are
attached. `EntriesOutliveWalks` therefore speaks of the time before unloading only.

## 6. Proofs

TLAPS checks each theorem for every value of the constants allowed by the
assumption of its module (`ConstantsAssumption`; `CtxAssumption` in `ConnCtx`,
`SyncAssumption` in `HostSync`), which TLC
evaluates in every run.

* `ConstantsAssumption` of `ConnState`: `NULL` is no object and no entry, `Garbage`
  holds state values, `MaxClosed` is positive. `ConnStateProofs` proves `TypeOK`,
  `NoDangling` and `NoOrphan`. Each of the two needs the others: letting go of an entry
  orphans nothing else only because entries point back at one owner, and queues no
  entry twice only because owned entries are not queued. The invariant has two
  halves: what `del_tcp_conn_obj`,
  `add_tcp_conn` and `set_tcp_conn_state` keep (`TableTyped`, `OwnersPoint`,
  `QueuedClosed`, `NoOrphan`), proved once per table operation and cited by every
  handler, and the types of the rest. Type correctness of `timer` needs that the
  maximum of a bounded set of naturals exists, `BoundedMaximum`, by the
  well-foundedness of `<`. From that invariant follow `ClosedLingers`, again one
  lemma per table operation (`...Lingers`), and `SweepArmed`, whose lemmas (`...Arm`,
  `...Arms`) say how far ahead each operation leaves the next wake-up.
  `TableImplements` shows each step to be one of `ConnTable` or a stutter. That
  `OwnersPoint` gives each entry one owner is what makes a write through a pointer a
  change of one object. The mapping needs one fact more, `Sided`: the completion of a
  connect finds no incoming connection and that of an accept no outgoing one, a
  release is about to write the successor of a state, and the handle is cleared after
  `ot_free`.
* `RequestQueueProofs` proves every property of `RequestQueue` for any ring size from 2
  on. The inductive invariant states ownership block by block
  (`Owned`). The lemmas `OccupiedAfterLog` and its counterpart for `get_request` say
  how the occupied slots change, which is where modular arithmetic enters.
  `Announced` is inductive by itself. `SkippedAccounted` and `ImplementsLog` are about
  sums, which the community modules define by recursion over sets and sequences. The
  prover cannot do induction over data, so the lemmas on sums argue by a minimal
  counterexample: if a set without the sum of its weights existed, one of least
  cardinality would, and removing an element contradicts it (`SumExists`, `SumStep`).
  The sum over the occupied slots then changes by one slot in `log_request` and
  splits in `get_request`, and the sum over the sequence `Queued`, the refinement
  mapping, is the sum over its slots (`SkippedOfIsSum`). `RingImplementsLog` follows
  step by step: the queue of the log loses its head when the ring is full, gains the
  new request, or loses the prefix that is read.
* `HostFilterProofs` proves `TypeOK`, `VerdictJustified` and `EntriesOutliveWalks`.
  The strengthening says that the history variables contain the present values
  (`Seen`), that under the guard the gate is this datagram's (`Gate`), that a search
  began unpaused (`Searched`), that everything the walk has passed does not match
  (`Passed`), and that the cursor is within the list while the control device
  exists (`InRange`). Unloading may shorten the lists during a walk; `Passed`
  survives because it only removes entries.
* `PidResolveProofs` proves `TypeOK`, `EventsOwned`, `MissesExplained` and `NameStays`.
  The strengthening says that who will append missed an entry of an unclean process
  (`Appending`), that an event lies only in entries of its own process and of a
  thread still inside (`Pointing`), and that a clean process has one entry
  (`Single`). `Grown` says what all steps but two do to the list, from which
  `NameStays` follows; the removal on process exit is shown separately (`Kept`).
* `AddrObjProofs` proves all the safety properties of `AddrObj`. The strengthening states
  ownership of listen entries block by block (`Owned`); that a file object has one
  entry, which keeps it until `ot_free` (`Entries`); what is still or already gone in
  each state of a file object (`Files`); and `HandlersBacked` and `ListenTruth` with
  the requests on their way to tcpip.sys taken along (`Requested`, `Accepting`) and
  continued through `ot_free` (`Backed`), whose last value is `HandlersRestored`. There is
  a lemma for each table operation and one for each action. `HandlersImplement` needs
  four facts more: the removal of a CONNECT handler has left the context before it
  reaches tcpip.sys (`Removals`), and so has a handler that is being given back (`Taken`),
  which is why an event then gets `Bugcheck`; while the driver is attached tcpip.sys has no
  client's handler itself (`Raw`); and what is being created or closed has none in the
  table (`Fresh`). The mapping is a table of tables; the lemmas `TableSame`, `TableRow`
  and `TablePlace` reduce each step to the places it changes, and the actions fall into
  the shapes of `EventHandlers` (`Stutters`, `Closes`, `HasClosed`, `Asks`, `Removes`,
  `Takes`, `IsMissed`, `GivesBack`).
* `ClientProofs` proves all of `Dispatch` and of `ConnCtx`. The invariant of `Dispatch` is
  stated request by request: one under way has been told nothing, has its duty only
  while the driver's routine is still to run, and holds a `TDI_SKIP_CTX` exactly if it
  is skipped (`OnItsWay`); one that has ended is as the two properties say (`Ended`).
  That of `ConnCtx` relates three views of a connection. `TcpipInv` is about tcpip.sys:
  what is not open has nothing, and a context belongs to one connection, the one a
  pending accept will give it included (`OneUser`). `RecordInv` is about the driver: what is
  not in the table has no record, what the driver passes on is what it has recorded
  (`Passing`), and the context recorded is the one the connection has or will have, or
  both are spoiled (`Current`). `LinkInv` is about the index: at each place where tcpip.sys
  has the connection, or will once it has agreed to an association (`PlaceOf`), under the
  context the driver has recorded, and at the place that tcpip.sys would look at, there is
  the connection itself or nothing (`Linked`, `Own`); it is the connection itself from the
  association on to the disassociation. It would be wrong to say this of the address object
  the driver has noted, which can be one that tcpip.sys is about to refuse; and it does
  not hold while an accept under another context is on its way to be refused (`Misled`).
  `LinkTruth` follows because the two places coincide; neither half of `LinkInv` keeps
  itself without the other two invariants, since a link is removed by the context recorded
  and found by the context tcpip.sys passes. `Addresses` carries `RecordedAddress` through
  the pending connect or accept and the query that is out. There is a lemma for each
  action.
* `HostSyncProofs` proves all of `HostSync`. The two halves of `ListsAgree` do not keep
  themselves: that the file equals the driver's list after the last application has
  saved needs to know, while it runs, that every host that is neither `stray` nor
  `unsaved` is the same in file and driver (`FileDriver`), in file and application
  (`FileGui`) and in any two applications (`GuiGui`), and that handles belong to
  running applications and one at most is saving (`Users`, `Editor`). All edits share
  the shape `EditOf`, for which this is shown once.
* `DriverProofs` proves, of the composition, the properties of `DriverLife` and again those
  of the three modules above. The invariant `LifeInv` says for each place in the two
  orders what has been made (`LoadedTo`), what has been freed (`FreedTo`) and what is
  still to be found (`FoundFrom`); the lemma for a call shows that it leads from one
  place to the next. Every step of `Driver` is a step of `DriverLife` or leaves it
  alone (`LifeMove`), a step of `Dispatch` or a restart, a step of `ConnCtx` or a
  restart, and a step of `HostSync` or a stutter, which makes `DriverImplementsSync` a
  refinement. `DriverTypeCorrect` adds to `LifeInv` that what is still to be called is the
  rest of one of the two orders (`Remaining`), and how far loading can have come when a
  pointer becomes stale (`StaleInv`): a part is made by one call only, and once an
  `*_init` has freed its table again nothing makes it a second time, so no pointer is
  both stale and good.

Only model-checked: the liveness properties `EventuallySwept`, `UnloadCompletes`,
`Returns` and `FreeCompletes`, which are out of the prover's reach here. Every other
property of a passing run is a theorem.

## 7. Not modelled, and why

The rule chains of `filter.c` and the SID list: `add_flt_rule`, `clear_flt_chain` and
`get_sid_id` keep tables that nothing in this product consults, since `quick_filter`
returns `tdifw_filter`. Lock order: every critical section is one step here. The
disconnects that `ot_free` sends, traffic counters and byte counts change nothing
the models keep. The build with `USE_TDI_HOOKING` is not the product's.
`tdi_create_addrobj_complete2` does not look at the status of its query, as
`update_conn_info_complete` does not: in `AddrObj` the entry gets a listen entry in
either case, and the address of an address object is the object itself in `ConnCtx`. A
client that sets or removes a handler past the detached driver, while `ot_free` restores
the old one, is left out. `set_tcp_conn_local` rehashes an entry without changing who
owns it; hash chains are abstracted to membership. `load_file`
splits text into lines; the lists start with every content up to the bound
instead. The queries of the control devices only read. `packet.c` serves a packet
driver that is not in the repository. `memtrack.c` is compiled into debug builds;
its check is `FreedOnce`. `ipc.c` copies tables to the caller. The driver page
of the application only sets the pause switch (`ioctl_set_pause` in `HostFilter`). The
installer has no state. A send on an address
object that the table does not know is refused before it touches any modelled
state.

## 8. Plan

Done: `ConnState`, `RequestLog` and `RequestQueue`, `HostFilter`, `PidResolve`, `AddrObj`,
`DriverLife`, `Dispatch`, `ConnCtx`, `HostSync` and their composition `Driver`; proofs for
all of them.

Left, in order of importance:

1. `LockOrder`: the acquisition sequences of the handlers, and their freedom from
   deadlock.
2. An abstract table of listening ports as a second specification of `AddrObj`.
3. Rule chains, byte counters and the packet checks, as operators checked against a
   reference.

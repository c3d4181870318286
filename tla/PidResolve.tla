----------------------------- MODULE PidResolve -----------------------------
(***************************************************************************)
(* The table of process names (pid_pname.c) and the handshake by which     *)
(* tdi_create asks the logging application for a name: it registers an     *)
(* event that lives in its own stack frame, logs a TYPE_RESOLVE_PID        *)
(* request, waits for up to five seconds and takes the event back.         *)
(*                                                                         *)
(* find_ple and add_ple are two critical sections of g_plist.guard, so a   *)
(* caller that misses may append an entry although another one has by now. *)
(* Which chain a name selects (context) is read by no compiled code and is *)
(* left out, as is the verdict of tdi_create, which leaves no trace here.  *)
(***************************************************************************)
EXTENDS Integers, Sequences

CONSTANTS
  Pids,
  Threads,     \* threads that create TDI objects
  ProcessOf,   \* thread -> the pid of its process
  Names,
  NULL,
  DEAD,        \* an event of a stack frame that is gone
  MaxEntries   \* bound: entries in g_plist, beyond which malloc_np fails

ASSUME ConstantsAssumption ==
  /\ ProcessOf \in [Threads -> Pids]
  /\ NULL \notin Threads \cup Names
  /\ DEAD \notin Threads \cup {NULL}
  /\ MaxEntries \in Nat

VARIABLES
  g_plist,      \* entries in list order: [pid, pname, pname_event]
  alive,        \* processes that exist
  clean,        \* history: processes whose creation found a clean table
  pc,           \* thread -> where it is in the handshake
  signalled,    \* threads whose event is signalled
  late,         \* history: threads that registered when the name was known
  g_got_log,    \* the logging application has the control device open
  setter,       \* the SETPNAME ioctl between find_ple and add_ple, or NULL
  stale_signal, \* KeSetEvent was called on an event of a dead frame
  phase         \* "up", or "freed" after pid_pname_free

frameVars == <<pc, signalled, late>>
otherVars == <<alive, clean, g_got_log, phase>>
vars == <<g_plist, frameVars, otherVars, setter, stale_signal>>

Entries == [pid : Pids, pname : Names \cup {NULL},
            pname_event : Threads \cup {NULL, DEAD}]

TypeOK ==
  /\ g_plist \in Seq(Entries)
  /\ alive \subseteq Pids
  /\ clean \subseteq alive
  /\ pc \in [Threads -> {"idle", "register", "register_add", "log", "wait",
                         "reset", "reset_add"}]
  /\ signalled \subseteq Threads
  /\ late \subseteq Threads
  /\ g_got_log \in BOOLEAN
  /\ setter \in [pid : Pids, pname : Names] \cup {NULL}
  /\ stale_signal \in BOOLEAN
  /\ phase \in {"up", "freed"}

(* pid_pname_init.  Some processes are older than the driver.              *)
Init ==
  /\ g_plist = <<>>
  /\ alive \in SUBSET Pids
  /\ clean = {}
  /\ pc = [t \in Threads |-> "idle"]
  /\ signalled = {}
  /\ late = {}
  /\ g_got_log = FALSE
  /\ setter = NULL
  /\ stale_signal = FALSE
  /\ phase = "up"

-----------------------------------------------------------------------------
(* find_ple returns the first entry of the pid, if there is one.           *)
Finds(p, i) ==
  /\ i \in 1 .. Len(g_plist)
  /\ g_plist[i].pid = p
  /\ \A j \in 1 .. i - 1 : g_plist[j].pid # p

Misses(p) == \A i \in 1 .. Len(g_plist) : g_plist[i].pid # p

(* pid_pname_resolve succeeds. *)
Known(p) == \E i \in 1 .. Len(g_plist) : Finds(p, i) /\ g_plist[i].pname # NULL

(* Fault: the new entry is not zeroed. *)
add_ple_NotZeroed(p, pname, pname_event) ==
  Append(g_plist, [pid |-> p, pname |-> IF pname = NULL THEN DEAD ELSE pname,
                   pname_event |-> pname_event])

(* Fault: the new entry goes to the front of the list. *)
add_ple_InFront(p, pname, pname_event) ==
  <<[pid |-> p, pname |-> pname, pname_event |-> pname_event]>> \o g_plist

(* The list after add_ple and what its caller writes into the new entry    *)
(* before it releases the guard.                                           *)
add_ple(p, pname, pname_event) ==
  Append(g_plist, [pid |-> p, pname |-> pname, pname_event |-> pname_event])

(* malloc_np may fail at any time, and does when the bound is reached.     *)
HasMemory == Len(g_plist) < MaxEntries

(* Thread t returns from tdi_create, and its event dies with the frame.    *)
Retired(list, t) ==
  [i \in 1 .. Len(list) |->
     IF list[i].pname_event = t THEN [list[i] EXCEPT !.pname_event = DEAD] ELSE list[i]]

-----------------------------------------------------------------------------
(* tdi_create finds the name unknown and initialises its event.  With a    *)
(* name it passes through without touching this table.                     *)
tdi_create(t) ==
  /\ phase = "up" /\ pc[t] = "idle" /\ ProcessOf[t] \in alive
  /\ ~Known(ProcessOf[t])
  /\ pc' = [pc EXCEPT ![t] = "register"]
  /\ signalled' = signalled \ {t}
  /\ late' = late \ {t}
  /\ UNCHANGED <<g_plist, otherVars, setter, stale_signal>>

(* pid_pname_set_event(pid, &event), with an entry there or without.       *)
register(t) ==
  /\ pc[t] = "register"
  /\ \/ \E i \in 1 .. Len(g_plist) :
          /\ Finds(ProcessOf[t], i)
          /\ g_plist' = [g_plist EXCEPT ![i].pname_event = t]
          /\ late' = IF g_plist[i].pname # NULL THEN late \cup {t} ELSE late
          /\ pc' = [pc EXCEPT ![t] = "log"]
     \/ /\ Misses(ProcessOf[t])
        /\ pc' = [pc EXCEPT ![t] = "register_add"]
        /\ UNCHANGED <<g_plist, late>>
  /\ UNCHANGED <<signalled, otherVars, setter, stale_signal>>

register_add(t) ==
  /\ pc[t] = "register_add"
  /\ pc' = [pc EXCEPT ![t] = "log"]
  /\ \/ HasMemory /\ g_plist' = add_ple(ProcessOf[t], NULL, t)
     \/ UNCHANGED g_plist
  /\ UNCHANGED <<signalled, late, otherVars, setter, stale_signal>>

(* log_request refuses a TYPE_RESOLVE_PID if nobody would read it; then    *)
(* default_chain_only decides and there is no wait.                        *)
log_request(t) ==
  /\ pc[t] = "log"
  /\ pc' = [pc EXCEPT ![t] = IF g_got_log THEN "wait" ELSE "reset"]
  /\ UNCHANGED <<g_plist, signalled, late, otherVars, setter, stale_signal>>

(* Fault: the wait has no timeout. *)
wait_Forever(t) ==
  /\ pc[t] = "wait" /\ t \in signalled
  /\ pc' = [pc EXCEPT ![t] = "reset"]
  /\ UNCHANGED <<g_plist, signalled, late, otherVars, setter, stale_signal>>

(* KeWaitForSingleObject returns: the event, or five seconds.  Time is not *)
(* counted, so the timeout may come at any moment.                         *)
wait(t) ==
  /\ pc[t] = "wait"
  /\ pc' = [pc EXCEPT ![t] = "reset"]
  /\ UNCHANGED <<g_plist, signalled, late, otherVars, setter, stale_signal>>

(* Fault: the event is left in the entry. *)
reset_Skipped(t) ==
  /\ pc[t] = "reset"
  /\ g_plist' = Retired(g_plist, t)
  /\ pc' = [pc EXCEPT ![t] = "idle"]
  /\ UNCHANGED <<signalled, late, otherVars, setter, stale_signal>>

(* pid_pname_set_event(pid, NULL), after which tdi_create has no more to   *)
(* do with the table and returns.                                          *)
reset(t) ==
  /\ pc[t] = "reset"
  /\ \/ \E i \in 1 .. Len(g_plist) :
          /\ Finds(ProcessOf[t], i)
          /\ g_plist' = Retired([g_plist EXCEPT ![i].pname_event = NULL], t)
          /\ pc' = [pc EXCEPT ![t] = "idle"]
     \/ /\ Misses(ProcessOf[t])
        /\ pc' = [pc EXCEPT ![t] = "reset_add"]
        /\ UNCHANGED g_plist
  /\ UNCHANGED <<signalled, late, otherVars, setter, stale_signal>>

reset_add(t) ==
  /\ pc[t] = "reset_add"
  /\ pc' = [pc EXCEPT ![t] = "idle"]
  /\ \/ HasMemory /\ g_plist' = Retired(add_ple(ProcessOf[t], NULL, NULL), t)
     \/ g_plist' = Retired(g_plist, t)
  /\ UNCHANGED <<signalled, late, otherVars, setter, stale_signal>>

-----------------------------------------------------------------------------
(* KeSetEvent on what the entry points at.                                 *)
Signals(pname_event) ==
  /\ signalled' = signalled \cup ({pname_event} \cap Threads)
  /\ stale_signal' = (stale_signal \/ pname_event = DEAD)

(* Fault: the event is not signalled. *)
Named_Silently(i, n) ==
  /\ g_plist[i].pname = NULL
  /\ \E pname \in {n, NULL} : g_plist' = [g_plist EXCEPT ![i].pname = pname]
  /\ UNCHANGED <<signalled, stale_signal>>

(* pid_pname_set on an entry: the first name stays; the event is signalled *)
(* even if there is no memory for the name.                                *)
Named(i, n) ==
  \/ /\ g_plist[i].pname = NULL
     /\ \E pname \in {n, NULL} : g_plist' = [g_plist EXCEPT ![i].pname = pname]
     /\ Signals(g_plist[i].pname_event)
  \/ /\ g_plist[i].pname # NULL
     /\ UNCHANGED <<g_plist, signalled, stale_signal>>

(* IOCTL_CMD_SETPNAME: the logging application gives a name to a pid, asked *)
(* for or not, of a process that is there or not.                          *)
set_pid_pname(p, n) ==
  /\ g_got_log /\ setter = NULL
  /\ \/ \E i \in 1 .. Len(g_plist) : Finds(p, i) /\ Named(i, n) /\ UNCHANGED setter
     \/ /\ Misses(p)
        /\ setter' = [pid |-> p, pname |-> n]
        /\ UNCHANGED <<g_plist, signalled, stale_signal>>
  /\ UNCHANGED <<pc, late, otherVars>>

pid_pname_set_add ==
  /\ setter # NULL
  /\ \/ /\ HasMemory
        /\ \E pname \in {setter.pname, NULL} :
             g_plist' = add_ple(setter.pid, pname, NULL)
     \/ UNCHANGED g_plist
  /\ setter' = NULL
  /\ UNCHANGED <<frameVars, otherVars, stale_signal>>

(* IRP_MJ_CREATE and IRP_MJ_CLOSE of the control device; a file is closed  *)
(* when it has no request pending.                                         *)
log_open ==
  /\ phase = "up" /\ ~g_got_log
  /\ g_got_log' = TRUE
  /\ UNCHANGED <<g_plist, frameVars, alive, clean, phase, setter, stale_signal>>

log_close ==
  /\ g_got_log /\ setter = NULL
  /\ g_got_log' = FALSE
  /\ UNCHANGED <<g_plist, frameVars, alive, clean, phase, setter, stale_signal>>

-----------------------------------------------------------------------------
(* ProcessNotifyProc(.., TRUE), which appends without a look at the list.  *)
(* The table is clean for the process if nothing of an earlier one with    *)
(* the same pid is there or on its way.  When malloc_np fails, the guard   *)
(* is released twice; while no other processor holds it that has no effect.*)
ProcessCreated(p) ==
  /\ phase = "up" /\ p \notin alive
  /\ alive' = alive \cup {p}
  /\ \/ /\ HasMemory
        /\ g_plist' = add_ple(p, NULL, NULL)
        /\ clean' = IF Misses(p) /\ (setter # NULL => setter.pid # p)
                    THEN clean \cup {p} ELSE clean
     \/ UNCHANGED <<g_plist, clean>>
  /\ UNCHANGED <<frameVars, g_got_log, phase, setter, stale_signal>>

Without(k) ==
  [j \in 1 .. Len(g_plist) - 1 |-> IF j < k THEN g_plist[j] ELSE g_plist[j + 1]]

(* ProcessNotifyProc(.., FALSE), run by the last thread of the process.    *)
ProcessTerminated(p) ==
  /\ phase = "up" /\ p \in alive
  /\ \A t \in Threads : ProcessOf[t] = p => pc[t] = "idle"
  /\ alive' = alive \ {p}
  /\ clean' = clean \ {p}
  /\ \/ \E i \in 1 .. Len(g_plist) : Finds(p, i) /\ g_plist' = Without(i)
     \/ Misses(p) /\ UNCHANGED g_plist
  /\ UNCHANGED <<frameVars, g_got_log, phase, setter, stale_signal>>

(* pid_pname_free.  The control device is closed when a driver unloads;    *)
(* threads inside tdi_create go on.                                        *)
pid_pname_free ==
  /\ phase = "up" /\ ~g_got_log
  /\ phase' = "freed"
  /\ g_plist' = <<>>
  /\ clean' = {}
  /\ UNCHANGED <<frameVars, alive, g_got_log, setter, stale_signal>>

Resolves(t) ==
  \/ register(t) \/ register_add(t) \/ log_request(t) \/ wait(t)
  \/ reset(t) \/ reset_add(t)

(* What follows a KeSetEvent on a dead frame is undefined: the model stops. *)
Next ==
  /\ ~stale_signal
  /\ \/ \E t \in Threads : tdi_create(t) \/ Resolves(t)
     \/ \E p \in Pids, n \in Names : set_pid_pname(p, n)
     \/ \E p \in Pids : ProcessCreated(p) \/ ProcessTerminated(p)
     \/ pid_pname_set_add \/ log_open \/ log_close \/ pid_pname_free

Spec == Init /\ [][Next]_vars

(* A thread in the handshake runs on, and its timer expires.               *)
FairSpec == Spec /\ \A t \in Threads : WF_vars(~stale_signal /\ Resolves(t))

-----------------------------------------------------------------------------
(* A process created into a clean table has exactly one entry as long as   *)
(* it lives, and the event registered there, if any, belongs to one of its *)
(* threads that has yet to reset it: pid_pname_set never signals a frame   *)
(* that is gone.                                                           *)
EventsOwned ==
  \A p \in clean :
    /\ ~Misses(p)
    /\ \A i, j \in 1 .. Len(g_plist) :
         g_plist[i].pid = p /\ g_plist[j].pid = p => i = j
    /\ \A i \in 1 .. Len(g_plist) :
         g_plist[i].pid = p /\ g_plist[i].pname_event # NULL =>
           \E t \in Threads :
             /\ g_plist[i].pname_event = t /\ ProcessOf[t] = p
             /\ pc[t] \in {"log", "wait", "reset"}

(* When a thread is registered beside a known name and its event is not    *)
(* signalled, so that it will wait in vain, then the name was there before *)
(* it registered: no pid_pname_set misses the event it finds in the entry. *)
MissesExplained ==
  \A i \in 1 .. Len(g_plist) : \A t \in Threads :
    g_plist[i].pname # NULL /\ g_plist[i].pname_event = t => t \in signalled \cup late

(* The name pid_pname_resolve reports of a process, once there, neither    *)
(* changes nor goes until the process ends or the driver unloads, however  *)
(* many entries of the pid there are.                                      *)
NameOf(p, n) == \E i \in 1 .. Len(g_plist) : Finds(p, i) /\ g_plist[i].pname = n
NameStays ==
  [][\A p \in alive \cap alive' : \A n \in Names :
       NameOf(p, n) /\ phase' = "up" => NameOf(p, n)']_vars

(* Every tdi_create gets its verdict, answered or not.                     *)
Returns == \A t \in Threads : pc[t] # "idle" ~> (pc[t] = "idle" \/ stale_signal)

(* What the comment "reset wait event" in tdi_create says: no entry, of    *)
(* whatever process, keeps the event of a call that is over.               *)
EventReset == \A i \in 1 .. Len(g_plist) : g_plist[i].pname_event # DEAD
=============================================================================

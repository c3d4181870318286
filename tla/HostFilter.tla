----------------------------- MODULE HostFilter -----------------------------
(***************************************************************************)
(* The host filter of adfilter.sys: the three host lists and the pause     *)
(* switch, the control device that edits them, the judgement of an         *)
(* outgoing datagram (tdi_send_datagram, tdifw_udp_send, filter), and the  *)
(* release of the lists when the driver unloads.                           *)
(*                                                                         *)
(* tdi_send_datagram and every other caller of tdifw_filter hold           *)
(* g_ot_hash_guard, so datagrams are judged one at a time: the guard is    *)
(* held exactly while pc # "idle".  Adf.lock is held exactly while filter  *)
(* walks the lists; it is released between the look at the switch and the  *)
(* walk.  unload_cfg takes no lock at all.                                 *)
(***************************************************************************)
EXTENDS Integers, Sequences, SequencesExt, FiniteSetsExt

CONSTANTS
  Patterns,   \* host strings in the lists
  Names,      \* host names that are looked up
  Matches,    \* <<pattern, name>>: slre_match of the pattern covers the name
  MaxLen      \* bound: entries of a list

ASSUME ConstantsAssumption ==
  /\ Matches \subseteq Patterns \X Names
  /\ MaxLen \in Nat

VARIABLES
  paused,        \* Adf.paused
  lists,         \* Adf.AdHost: sys, user and excpt, head first
  g_need_check,  \* the last UDP request went to, or came in on, port 53
  pc,            \* the datagram in tdi_send_datagram: "idle", "pause", "filter", "walk", "done"
  send,          \* that datagram: [udp, dns, name]
  cursor,        \* [list, at]: the entry isMatchHostList looks at, 0 for the header
  result,        \* what tdifw_udp_send returns
  phase,         \* "up", "unload" once the control device is gone, "detached"
  walked_freed,  \* isMatchHostList has read an entry that was already freed
  pauses,        \* history: values of the switch during this send
  moments        \* history: what the lists said about its name during this send

cfgVars  == <<paused, lists>>
sendVars == <<pc, send, cursor, result>>
histVars == <<pauses, moments>>
vars == <<cfgVars, g_need_check, sendVars, phase, walked_freed, histVars>>

ListNames == {"excpt", "user", "sys"}
Verdicts == {"FILTER_ALLOW", "FILTER_DENY"}
Sends == [udp : BOOLEAN, dns : BOOLEAN, name : Names]

TypeOK ==
  /\ paused \in BOOLEAN
  /\ lists \in [ListNames -> Seq(Patterns)]
  /\ g_need_check \in BOOLEAN
  /\ pc \in {"idle", "pause", "filter", "walk", "done"}
  /\ send \in Sends
  /\ cursor \in [list : ListNames, at : Nat]
  /\ result \in Verdicts
  /\ phase \in {"up", "unload", "detached"}
  /\ walked_freed \in BOOLEAN
  /\ pauses \subseteq BOOLEAN
  /\ moments \subseteq Verdicts

(* tdifw_driver_entry: load_cfg fills the lists from the three files and   *)
(* the switch from the registry.                                           *)
Init ==
  /\ paused \in BOOLEAN
  /\ lists \in [ListNames -> BoundedSeq(Patterns, MaxLen)]
  /\ g_need_check = FALSE
  /\ pc = "idle"
  /\ send \in Sends
  /\ cursor = [list |-> "excpt", at |-> 0]
  /\ result = "FILTER_ALLOW"
  /\ phase = "up"
  /\ walked_freed = FALSE
  /\ pauses = {}
  /\ moments = {}

-----------------------------------------------------------------------------
(* What the lists say about a name: an exception wins over both other      *)
(* lists, and what is on no list passes.                                   *)
Hit(list, name) == \E i \in DOMAIN list : <<list[i], name>> \in Matches

Policy(L, name) ==
  IF ~Hit(L["excpt"], name) /\ (Hit(L["user"], name) \/ Hit(L["sys"], name))
  THEN "FILTER_DENY" ELSE "FILTER_ALLOW"

(* Bookkeeping: what a send in flight sees of a change.                    *)
Witnessed ==
  /\ pauses' = IF pc = "idle" THEN pauses ELSE pauses \cup {paused'}
  /\ moments' = IF pc = "idle" THEN moments ELSE moments \cup {Policy(lists', send.name)}

-----------------------------------------------------------------------------
(* The control device.  Each ioctl runs under Adf.lock.                    *)

Unlocked == pc # "walk" /\ ~walked_freed
Controlled == phase = "up" /\ Unlocked

ioctl_set_pause(p) ==
  /\ Controlled
  /\ paused' = p
  /\ UNCHANGED <<lists, g_need_check, sendVars, phase, walked_freed>>
  /\ Witnessed

(* addHostList at the tail; nothing happens when the pool is exhausted.    *)
ioctl_add_host(l, p) ==
  /\ Controlled
  /\ l # "sys"
  /\ Len(lists[l]) < MaxLen
  /\ lists' = [lists EXCEPT ![l] = Append(@, p)]
  /\ UNCHANGED <<paused, g_need_check, sendVars, phase, walked_freed>>
  /\ Witnessed

(* Fault: the list is edited without Adf.lock. *)
ioctl_del_host_NoLock(l, p) ==
  /\ phase = "up"
  /\ ~walked_freed
  /\ l # "sys"
  /\ \E i \in DOMAIN lists[l] :
       /\ lists[l][i] = p
       /\ \A j \in DOMAIN lists[l] : j > i => lists[l][j] # p
       /\ lists' = [lists EXCEPT ![l] = RemoveAt(@, i)]
  /\ UNCHANGED <<paused, g_need_check, sendVars, phase, walked_freed>>
  /\ Witnessed

(* removeHostList: the occurrence nearest to the tail.                     *)
ioctl_del_host(l, p) ==
  /\ Controlled
  /\ l # "sys"
  /\ \E i \in DOMAIN lists[l] :
       /\ lists[l][i] = p
       /\ \A j \in DOMAIN lists[l] : j > i => lists[l][j] # p
       /\ lists' = [lists EXCEPT ![l] = RemoveAt(@, i)]
  /\ UNCHANGED <<paused, g_need_check, sendVars, phase, walked_freed>>
  /\ Witnessed

-----------------------------------------------------------------------------
(* Other UDP requests: received datagrams, and connects of UDP sockets.    *)

(* Fault: the handler does not take g_ot_hash_guard. *)
tdifw_filter_Unguarded(port53) ==
  /\ phase # "detached"
  /\ g_need_check' = port53
  /\ UNCHANGED <<cfgVars, sendVars, phase, walked_freed, histVars>>

tdifw_filter(port53) ==
  /\ phase # "detached"
  /\ pc = "idle"
  /\ g_need_check' = port53
  /\ UNCHANGED <<cfgVars, sendVars, phase, walked_freed, histVars>>

-----------------------------------------------------------------------------
(* A datagram is sent, on a UDP or a raw IP address object: quick_filter   *)
(* updates g_need_check for UDP only.  (A send on an object the table does *)
(* not know returns before that and touches nothing.)                      *)
tdi_send_datagram(s) ==
  /\ phase # "detached"
  /\ pc = "idle"
  /\ s.dns => s.udp
  /\ send' = s
  /\ g_need_check' = IF s.udp THEN s.dns ELSE g_need_check
  /\ pc' = "pause"
  /\ pauses' = {paused}
  /\ moments' = {Policy(lists, s.name)}
  /\ UNCHANGED <<cfgVars, cursor, result, phase, walked_freed>>

(* tdifw_udp_send up to the call of filter.                                *)
tdifw_udp_send ==
  /\ pc = "pause"
  /\ Unlocked
  /\ IF ~g_need_check \/ paused
     THEN pc' = "done" /\ result' = "FILTER_ALLOW"
     ELSE pc' = "filter" /\ UNCHANGED result
  /\ UNCHANGED <<cfgVars, g_need_check, send, cursor, phase, walked_freed, histVars>>

(* filter takes the lock and starts at the tail of the exceptions.         *)
filter ==
  /\ pc = "filter"
  /\ Unlocked
  /\ pc' = "walk"
  /\ cursor' = [list |-> "excpt", at |-> Len(lists["excpt"])]
  /\ UNCHANGED <<cfgVars, g_need_check, send, result, phase, walked_freed, histVars>>

(* What filter returns when the name is found on list l.                   *)
Found(l) == l # "excpt"

(* Fault: found, 0 or 1, is returned as it is; FILTER_ALLOW is 1. *)
Plus1_Missing(found) == IF found THEN "FILTER_ALLOW" ELSE "0"

(* filter(data, len) + 1: FILTER_DENY is FILTER_ALLOW + 1.                 *)
Plus1(found) == IF found THEN "FILTER_DENY" ELSE "FILTER_ALLOW"

(* The list searched after l.                                              *)
Following(l) == IF l = "excpt" THEN "user" ELSE "sys"

(* One round of the loop of isMatchHostList, and on to the next list at    *)
(* its end.                                                                *)
isMatchHostList ==
  /\ pc = "walk" /\ ~walked_freed
  /\ LET l == cursor.list
         hit == <<lists[l][cursor.at], send.name>> \in Matches
     IN \/ /\ cursor.at > Len(lists[l])
           /\ walked_freed' = TRUE
           /\ UNCHANGED <<pc, cursor, result>>
        \/ /\ cursor.at \in DOMAIN lists[l] /\ hit
           /\ result' = Plus1(Found(l))
           /\ pc' = "done"
           /\ UNCHANGED <<cursor, walked_freed>>
        \/ /\ cursor.at \in DOMAIN lists[l] /\ ~hit
           /\ cursor' = [cursor EXCEPT !.at = @ - 1]
           /\ UNCHANGED <<pc, result, walked_freed>>
        \/ /\ cursor.at = 0 /\ l # "sys"
           /\ cursor' = [list |-> Following(l), at |-> Len(lists[Following(l)])]
           /\ UNCHANGED <<pc, result, walked_freed>>
        \/ /\ cursor.at = 0 /\ l = "sys"
           /\ result' = Plus1(FALSE)
           /\ pc' = "done"
           /\ UNCHANGED <<cursor, walked_freed>>
  /\ UNCHANGED <<cfgVars, g_need_check, send, phase, histVars>>

(* tdi_send_datagram releases g_ot_hash_guard and returns the verdict.     *)
tdi_send_datagram_return ==
  /\ pc = "done"
  /\ pc' = "idle"
  /\ pauses' = {}
  /\ moments' = {}
  /\ UNCHANGED <<cfgVars, g_need_check, send, cursor, result, phase, walked_freed>>

-----------------------------------------------------------------------------
(* OnUnload: tdifw_driver_unload deletes the control device and runs       *)
(* unload_cfg, and only then are the TDI devices detached.                 *)

delete_device ==
  /\ phase = "up" /\ ~walked_freed
  /\ phase' = "unload"
  /\ UNCHANGED <<cfgVars, g_need_check, sendVars, walked_freed, histVars>>

(* The lists are cleared in this order, each from its tail.                *)
Cleared(l) == lists[l] = <<>>
Turn(l) == /\ l # "sys" => Cleared("sys")
           /\ l = "excpt" => Cleared("user")

(* One round of clearHostList: RemoveTailList and ExFreePoolWithTag.       *)
unload_cfg(l) ==
  /\ phase = "unload" /\ ~walked_freed
  /\ Turn(l) /\ ~Cleared(l)
  /\ lists' = [lists EXCEPT ![l] = Front(@)]
  /\ UNCHANGED <<paused, g_need_check, sendVars, phase, walked_freed>>
  /\ Witnessed

d_n_d_device ==
  /\ phase = "unload" /\ ~walked_freed
  /\ \A l \in ListNames : Cleared(l)
  /\ phase' = "detached"
  /\ UNCHANGED <<cfgVars, g_need_check, sendVars, walked_freed, histVars>>

-----------------------------------------------------------------------------
Next ==
  \/ \E p \in BOOLEAN : ioctl_set_pause(p)
  \/ \E l \in ListNames, p \in Patterns : ioctl_add_host(l, p) \/ ioctl_del_host(l, p)
  \/ \E port53 \in BOOLEAN : tdifw_filter(port53)
  \/ \E s \in Sends : tdi_send_datagram(s)
  \/ tdifw_udp_send \/ filter \/ isMatchHostList \/ tdi_send_datagram_return
  \/ delete_device
  \/ \E l \in ListNames : unload_cfg(l)
  \/ d_n_d_device

Spec == Init /\ [][Next]_vars

-----------------------------------------------------------------------------
(* The verdict on a UDP datagram is one the configuration gave while it    *)
(* was judged: a datagram that is no DNS query passes, and a query is      *)
(* judged by some value the switch had and something the lists said, at    *)
(* moments between the call of tdi_send_datagram and its return, whatever  *)
(* ioctls, other datagrams or unloading run in between.  In particular a   *)
(* query passes that is sent while the filter stays paused, or while its   *)
(* name stays on the exception list; and one is refused whose name stays   *)
(* listed, unexcepted, while the filter stays active.                      *)
VerdictJustified ==
  pc = "done" /\ send.udp =>
    IF send.dns
    THEN \E p \in pauses, m \in moments : result = IF p THEN "FILTER_ALLOW" ELSE m
    ELSE result = "FILTER_ALLOW"

(* Only unloading can free an entry that is being looked at: an ioctl that *)
(* removes a host waits for the walk of isMatchHostList, and the walk      *)
(* never reads past what a removal left.                                   *)
EntriesOutliveWalks == walked_freed => phase # "up"

(* A property the code does not have.                                      *)

(* filter.c:123 "only check dns message": what is refused is a DNS query.  *)
OnlyDnsDenied == pc = "done" /\ result = "FILTER_DENY" => send.dns
=============================================================================

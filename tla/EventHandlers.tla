---------------------------- MODULE EventHandlers ----------------------------
(***************************************************************************)
(* What tdi_fw promises the clients of an address object about their event *)
(* handlers, although it puts itself in front of them: an event reaches    *)
(* the handler that was set last for it on this object, once tcpip.sys has *)
(* agreed, or none; no request touches the handlers of another object or   *)
(* event; and unloading gives each back or loses it.  What it does not     *)
(* promise is said too: from the removal of a handler until tcpip.sys has  *)
(* agreed, while an object is being closed, and while a handler is being   *)
(* given back, an event finds the driver with nothing to call.  There are  *)
(* no entries, no contexts, no blocks to be used again and no requests on  *)
(* their way.                                                              *)
(***************************************************************************)

CONSTANTS
  Objs,      \* address objects
  Events,    \* types of events
  CONNECT,   \* the one for which the driver always has a handler
  Handlers,  \* event handlers of clients
  Bugcheck,  \* the driver's handler, with no client's handler to call
  NULL

VARIABLES
  calls,     \* object -> event -> the handler an event reaches, Bugcheck, or NULL
  keeps,     \* object -> event -> the handler the client has set, or NULL
  unloading  \* the driver gives the handlers back

vars == <<calls, keeps, unloading>>

Unset == [e \in Events |-> NULL]

Init ==
  /\ calls = [o \in Objs |-> Unset]
  /\ keeps = [o \in Objs |-> Unset]
  /\ unloading = FALSE

(* A client sets a handler; this may take effect before tcpip.sys has      *)
(* agreed, and even if it does not.                                        *)
Ask(o, e) ==
  /\ ~unloading
  /\ \E h \in Handlers :
       /\ keeps' = [keeps EXCEPT ![o][e] = h]
       /\ calls' = calls \/ calls' = [calls EXCEPT ![o][e] = h]
  /\ UNCHANGED unloading

(* A client removes one: if it was called, there is nothing to call until  *)
(* tcpip.sys has agreed.                                                   *)
Remove(o, e) ==
  /\ ~unloading
  /\ keeps' = [keeps EXCEPT ![o][e] = NULL]
  /\ calls' = [calls EXCEPT ![o][e] = IF @ = NULL THEN NULL ELSE Bugcheck]
  /\ UNCHANGED unloading

(* tcpip.sys agrees. *)
Take(o, e) ==
  /\ calls' = [calls EXCEPT ![o][e] = keeps[o][e]]
  /\ UNCHANGED <<keeps, unloading>>

(* There are types of events the driver lets nobody have. *)
Drop(o, e) ==
  /\ e # CONNECT
  /\ calls' = [calls EXCEPT ![o][e] = NULL]
  /\ UNCHANGED <<keeps, unloading>>

(* A client closes the object: the driver forgets its handlers at once... *)
Close(o) ==
  /\ ~unloading
  /\ keeps' = [keeps EXCEPT ![o] = Unset]
  /\ calls' = [calls EXCEPT ![o] =
                 [e \in Events |-> IF calls[o][e] = NULL THEN NULL ELSE Bugcheck]]
  /\ UNCHANGED unloading

(* ...and tcpip.sys when it has closed it. *)
Closed(o) ==
  /\ calls' = [calls EXCEPT ![o] = Unset]
  /\ UNCHANGED <<keeps, unloading>>

Unload ==
  /\ unloading' = TRUE
  /\ UNCHANGED <<calls, keeps>>

(* A handler is on its way back to tcpip.sys, which calls the driver still *)
(* or, by a request that comes late, again.                                *)
Miss(o, e) ==
  /\ unloading
  /\ calls' = [calls EXCEPT ![o][e] = Bugcheck]
  /\ UNCHANGED <<keeps, unloading>>

(* It is given back... *)
Restore(o, e) ==
  /\ unloading
  /\ calls' = [calls EXCEPT ![o][e] = keeps[o][e]]
  /\ keeps' = [keeps EXCEPT ![o][e] = NULL]
  /\ UNCHANGED unloading

(* ...or lost. *)
Lose(o, e) ==
  /\ unloading
  /\ keeps' = [keeps EXCEPT ![o][e] = NULL]
  /\ UNCHANGED <<calls, unloading>>

Next ==
  \/ \E o \in Objs :
       \/ Close(o) \/ Closed(o)
       \/ \E e \in Events :
            \/ Ask(o, e) \/ Remove(o, e) \/ Take(o, e) \/ Drop(o, e)
            \/ Miss(o, e) \/ Restore(o, e) \/ Lose(o, e)
  \/ Unload

Spec == Init /\ [][Next]_vars
=============================================================================

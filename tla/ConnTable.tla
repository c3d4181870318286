----------------------------- MODULE ConnTable -----------------------------
(***************************************************************************)
(* What the TCP state table of tdi_fw promises the handlers and the list   *)
(* of connections it shows: every connection object has a state of its own,*)
(* as if it were stored in the object; a connection that is over stays on  *)
(* record for MaxClosed; the table is empty before it goes.  There are no  *)
(* blocks, no pointers, no list to be swept and no thread.                 *)
(***************************************************************************)
EXTENDS Integers

CONSTANTS
  ConnObjs,    \* connection objects
  Records,     \* names for the connections that are over
  Garbage,     \* what a disconnect in an unexpected state may write
  MaxClosed    \* how long a connection that is over stays on record

Untracked == "UNTRACKED"
Opening == {"SYN_SENT", "SYN_RCVD"}
Outgoing == {"SYN_SENT", "ESTABLISHED_OUT"}
Incoming == {"SYN_RCVD", "ESTABLISHED_IN"}
Later == {"ESTABLISHED_IN", "ESTABLISHED_OUT", "FIN_WAIT1", "FIN_WAIT2", "TIME_WAIT",
          "CLOSE_WAIT", "LAST_ACK", "CLOSED"}

VARIABLES
  tracked,     \* connection object -> its state, or Untracked
  lingering,   \* record -> how long ago that connection was over, at least
  unloading    \* the driver is about to free the table

vars == <<tracked, lingering, unloading>>

Init ==
  /\ tracked = [c \in ConnObjs |-> Untracked]
  /\ lingering = [r \in {} |-> 0]
  /\ unloading = FALSE

(* A connection is opened from either side. *)
Begin(c) ==
  /\ ~unloading /\ tracked[c] = Untracked
  /\ \E s \in Opening : tracked' = [tracked EXCEPT ![c] = s]
  /\ UNCHANGED <<lingering, unloading>>

(* It is established only from the side it was opened from, and never goes *)
(* back to be opened; other changes may come late, in any order.           *)
Change(c) ==
  /\ ~unloading /\ tracked[c] # Untracked
  /\ \E s \in Later \cup Garbage :
       /\ s \in Outgoing \ Garbage => tracked[c] \notin Incoming \ Garbage
       /\ s \in Incoming \ Garbage => tracked[c] \notin Outgoing \ Garbage
       /\ tracked' = [tracked EXCEPT ![c] = s]
  /\ UNCHANGED <<lingering, unloading>>

(* It is over, and goes on record. *)
End(c) ==
  /\ ~unloading /\ tracked[c] # Untracked
  /\ tracked' = [tracked EXCEPT ![c] = Untracked]
  /\ \E r \in Records \ DOMAIN lingering :
       lingering' = [q \in DOMAIN lingering \cup {r} |-> IF q = r THEN 0 ELSE lingering[q]]
  /\ UNCHANGED unloading

(* Time passes; the record may stop counting, but never counts ahead. *)
Wait ==
  /\ \E counted \in SUBSET DOMAIN lingering :
       lingering' = [r \in DOMAIN lingering |->
                       IF r \in counted THEN lingering[r] + 1 ELSE lingering[r]]
  /\ UNCHANGED <<tracked, unloading>>

(* Records go when they are old enough, or when the driver goes. *)
Sweep ==
  /\ \E gone \in SUBSET DOMAIN lingering :
       /\ unloading \/ \A r \in gone : lingering[r] >= MaxClosed
       /\ lingering' = [r \in DOMAIN lingering \ gone |-> lingering[r]]
  /\ UNCHANGED <<tracked, unloading>>

(* The driver goes only when no connection is tracked any more. *)
Unload ==
  /\ \A c \in ConnObjs : tracked[c] = Untracked
  /\ unloading' = TRUE
  /\ UNCHANGED <<tracked, lingering>>

Next == (\E c \in ConnObjs : Begin(c) \/ Change(c) \/ End(c)) \/ Wait \/ Sweep \/ Unload

Spec == Init /\ [][Next]_vars
=============================================================================

------------------------------ MODULE MCDriver ------------------------------
(***************************************************************************)
(* One kind of client at a time, with the other two at rest: the requests, *)
(* the connections and the host lists share nothing but the driver's life. *)
(* Whatever fails while the driver is loaded is explored with all of them  *)
(* at rest; a list that was not loaded completely, with the applications.  *)
(***************************************************************************)
EXTENDS Driver, TLC

Symmetry == Permutations(Conns) \cup Permutations(Addrs) \cup Permutations(Ctxs)

NoRequests == irp = [r \in Reqs |-> Idle] /\ ~TCPSendData
NoConnections ==
  /\ open = {} /\ ot = {} /\ g_cte = NoLinks
  /\ request = Nothing /\ event = NoOne /\ ucn = Nothing
NoApplications == file = Empty /\ user = Empty /\ Quiet /\ stray \cup unsaved = {}

(* Nothing but a list has failed, and only applications have handles. *)
Smooth ==
  /\ stale = {} /\ handles \subseteq {"adf"}
  /\ phase # "crashed" /\ (phase = "leaving" => entered)
WholeLists == "cfg_file" \notin made

OnlyRequests == NoConnections /\ NoApplications /\ Smooth /\ WholeLists
OnlyConnections == NoRequests /\ NoApplications /\ Smooth /\ WholeLists
OnlyApplications == NoRequests /\ NoConnections /\ Smooth

(* Links to a connection that neither the driver's records nor tcpip.sys   *)
(* have there.                                                             *)
StaleLinks == {k \in Addrs \X Ctxs :
  /\ g_cte[k] # NoOne
  /\ k # <<associated_fileobj[g_cte[k]], conn_ctx[g_cte[k]]>>
  /\ k # <<assoc[g_cte[k]], context[g_cte[k]]>>}

(* What a property excepts; the contexts of an accept that failed are one. *)
Excepted == (ot \ open) \cup unlinked \cup (IF spoiled = {} THEN {} ELSE {spoiled})
            \cup late \cup mistaken \cup misnoted

(* Three open objects, one request or event under way, one connection with *)
(* an address, one stale link or one of the excepted cases at a time; a    *)
(* query only while one connection is open.                                *)
FewConnections ==
  /\ Cardinality(open) <= 3
  /\ Cardinality({c \in Conns : request[c] # NoOne} \cup ({event} \ {NoOne})) <= 1
  /\ Cardinality({c \in Conns : ucn[c] # NoOne \/ laddr[c] # NoOne}) <= 1
  /\ Cardinality(StaleLinks) + Cardinality(Excepted) <= 1
  /\ ucn # Nothing => Cardinality(open \cap Conns) <= 1 /\ StaleLinks = {} /\ spoiled = {}

(* While the driver comes and goes: one connection, one application. *)
Calm ==
  /\ Cardinality(open \cap Conns) <= 1 /\ StaleLinks = {} /\ Excepted = {}
  /\ Cardinality({g \in Guis : Running(g)}) <= 1 /\ \A h \in Hosts : file[h] <= 1
  /\ Quiet \/ stray \cup unsaved = {}

Bounded ==
  /\ \/ NoRequests /\ NoConnections /\ NoApplications
     \/ OnlyRequests \/ OnlyConnections \/ OnlyApplications
  /\ FewConnections
  /\ phase # "up" => Calm

MCNext ==
  \/ LifeAlone \/ AttachTcp \/ DetachTcp \/ FreeObjects \/ Enter \/ Leave
  \/ LateCall \/ Again \/ Reboot
  \/ OnlyRequests /\ RequestStep
  \/ OnlyConnections /\ ConnectionStep
  \/ OnlyApplications /\ ApplicationStep

MCSpec == DInit /\ [][MCNext]_driverVars
=============================================================================

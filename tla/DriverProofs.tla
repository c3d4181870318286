---------------------------- MODULE DriverProofs ----------------------------
(***************************************************************************)
(* Proofs about the driver as a whole: what OnUnload and the handlers find *)
(* (DriverLife), and the theorems on the requests, the connections and the *)
(* host lists for the composition, in which the driver comes and goes.     *)
(***************************************************************************)
EXTENDS Driver, ClientProofs, HostSyncProofs, SequenceTheorems

Calls ==
  {"ot_init", "filter_init", "conn_state_init", "DeviceDispatch", "control", "nfo",
   "tdifw_driver_entry", "tcp", "udp", "ip",
   "tdifw_driver_unload", "filter_free", "ot_free", "conn_state_free"}

(* The calls from the n-th on are still to be made. *)
Step(order, n) ==
  /\ todo \in Seq(Calls) /\ Len(todo) = Len(order) - n + 1
  /\ \A i \in 1..Len(todo) : todo[i] = order[n - 1 + i]

TableParts == {"ot", "cte"}
FilterParts == {"notify", "rule", "queue"}
ConnParts == {"listen", "conn", "thread"}

(* What DriverEntry has done before its n-th call. *)
LoadedTo(n) ==
  /\ n >= 2 => TableParts \subseteq made
  /\ n >= 3 => FilterParts \subseteq made
  /\ n >= 4 => ConnParts \subseteq made
  /\ n >= 8 => "lists" \in made
  /\ entered => n >= 8 /\ "adf" \in made
  /\ n <= 8 => attached = {}
  /\ n >= 9 => "tcp" \in attached

(* What OnUnload has freed before its n-th call, what it still finds if    *)
(* the driver was loaded, and what a request finds as long as one can come.*)
FreedTo(n) ==
  /\ "adf" \in made \/ "adf_link" \in made => n <= 1
  /\ "tcp" \in made => n <= 2
  /\ "udp" \in made => n <= 3
  /\ "ip" \in made => n <= 4
  /\ "control" \in made \/ "control_link" \in made => n <= 5
  /\ "nfo" \in made \/ "nfo_link" \in made => n <= 6
  /\ "notify" \in made \/ "rule" \in made \/ "queue" \in made => n <= 7
  /\ "ot" \in made \/ "cte" \in made => n <= 8
  /\ "listen" \in made \/ "conn" \in made \/ "thread" \in made => n <= 9

FoundFrom(n) ==
  entered =>
    /\ "lists" \in made
    /\ n <= 1 => "adf" \in made
    /\ n <= 7 => FilterParts \subseteq made
    /\ n <= 8 => TableParts \subseteq made
    /\ n <= 9 => ConnParts \subseteq made

Served ==
  attached # {} /\ MajorFunction = "ours" =>
    /\ "tcp" \in attached
    /\ TableParts \cup FilterParts \cup ConnParts \cup {"lists"} \subseteq made

NoHandle == handles = {} /\ "request_event" \notin made

OutInv == phase = "out" => NoHandle /\ made \subseteq {"cfg_file"} /\ attached = {} /\ ~entered
EnteringInv ==
  phase = "entering" => NoHandle /\ \E n \in 1..11 : Step(LoadOrder, n) /\ LoadedTo(n)
UpInv == phase = "up" =>
  /\ todo = <<>> /\ LoadedTo(11)
  /\ "request_event" \in made => "control" \in handles
LeavingInv ==
  phase = "leaving" =>
    /\ NoHandle /\ Served
    /\ \E n \in 1..10 : Step(UnloadOrder, n) /\ FreedTo(n) /\ FoundFrom(n)
GoneInv ==
  phase = "gone" => todo = <<>> /\ made \subseteq {"cfg_file"} /\ attached = {} /\ handles = {}

LifeInv ==
  /\ phase \in {"out", "entering", "up", "leaving", "gone", "crashed"}
  /\ made \subseteq Parts /\ attached \subseteq made \cap Protos
  /\ OutInv /\ EnteringInv /\ UpInv /\ LeavingInv /\ GoneInv
  /\ phase = "crashed" /\ todo # <<>> => ~entered
  /\ misrouted # {} => "adf" \in stale

-----------------------------------------------------------------------------
(* The two lists of calls, walked from the front. *)
LEMMA Orders ==
  /\ LoadOrder \in Seq(Calls) /\ Len(LoadOrder) = 10
  /\ UnloadOrder \in Seq(Calls) /\ Len(UnloadOrder) = 9
  BY DEF LoadOrder, UnloadOrder, Calls

(* A list of calls just begun is at its first. *)
LEMMA FirstStep ==
  ASSUME NEW order \in Seq(Calls), todo' = order
  PROVE  Step(order, 1)'
  BY DEF Step

(* The call at the head is the one at this place in the list. *)
LEMMA ThisStep ==
  ASSUME NEW order \in Seq(Calls), NEW n \in 1..Len(order) + 1, Step(order, n)
  PROVE  /\ todo = <<>> <=> n = Len(order) + 1
         /\ todo # <<>> => Head(todo) = order[n]
  BY DEF Step

(* Once that call is made the list is one place further. *)
LEMMA NextStep ==
  ASSUME NEW order \in Seq(Calls), NEW n \in 1..Len(order) + 1, Step(order, n),
         todo # <<>>, todo' = Tail(todo)
  PROVE  Step(order, n + 1)'
<1>1. todo' \in Seq(Calls) /\ Len(todo') = Len(todo) - 1
  BY DEF Step
<1>2. ASSUME NEW i \in 1..Len(todo') PROVE todo'[i] = order[n + i]
  <2>1. todo'[i] = todo[i + 1] /\ i + 1 \in 1..Len(todo)
    BY <1>1, <1>2 DEF Step
  <2> QED BY <2>1 DEF Step
<1> QED BY <1>1, <1>2 DEF Step

(* Where DriverEntry stands when it makes a call. *)
LEMMA LoadCall ==
  ASSUME NEW n \in 1..11, Step(LoadOrder, n), NEW call, Entering(call)
  PROVE  /\ n \in 1..10 /\ LoadOrder[n] = call
         /\ Succeed => Step(LoadOrder, n + 1)'
<1>1. LoadOrder \in Seq(Calls) /\ Len(LoadOrder) = 10 /\ n \in 1..Len(LoadOrder) + 1
  BY Orders
<1>2. todo # <<>> /\ Head(todo) = call
  BY DEF Entering
<1>3. n # 11 /\ LoadOrder[n] = call
  <2>1. todo = <<>> <=> n = Len(LoadOrder) + 1
    BY <1>1, ThisStep
  <2>2. todo # <<>> => Head(todo) = LoadOrder[n]
    BY <1>1, ThisStep
  <2> QED BY <1>1, <1>2, <2>1, <2>2
<1>4. ASSUME todo' = Tail(todo) PROVE Step(LoadOrder, n + 1)'
  BY <1>1, <1>2, <1>4, NextStep DEF Step
<1> QED BY <1>3, <1>4 DEF Succeed

(* Where OnUnload stands when it makes a call. *)
LEMMA UnloadCall ==
  ASSUME NEW n \in 1..10, Step(UnloadOrder, n), NEW call, Leaving(call)
  PROVE  /\ n \in 1..9 /\ UnloadOrder[n] = call
         /\ Succeed => Step(UnloadOrder, n + 1)'
<1>1. UnloadOrder \in Seq(Calls) /\ Len(UnloadOrder) = 9 /\ n \in 1..Len(UnloadOrder) + 1
  BY Orders
<1>2. todo # <<>> /\ Head(todo) = call
  BY DEF Leaving
<1>3. n # 10 /\ UnloadOrder[n] = call
  <2>1. todo = <<>> <=> n = Len(UnloadOrder) + 1
    BY <1>1, ThisStep
  <2>2. todo # <<>> => Head(todo) = UnloadOrder[n]
    BY <1>1, ThisStep
  <2> QED BY <1>1, <1>2, <2>1, <2>2
<1>4. ASSUME todo' = Tail(todo) PROVE Step(UnloadOrder, n + 1)'
  BY <1>1, <1>2, <1>4, NextStep DEF Step
<1> QED BY <1>3, <1>4 DEF Succeed

(* Where each call stands. *)
LEMMA LoadPlaces ==
  ASSUME NEW n \in 1..10
  PROVE  /\ LoadOrder[n] = "ot_init" <=> n = 1
         /\ LoadOrder[n] = "filter_init" <=> n = 2
         /\ LoadOrder[n] = "conn_state_init" <=> n = 3
         /\ LoadOrder[n] = "DeviceDispatch" <=> n = 4
         /\ LoadOrder[n] = "control" <=> n = 5
         /\ LoadOrder[n] = "nfo" <=> n = 6
         /\ LoadOrder[n] = "tdifw_driver_entry" <=> n = 7
         /\ LoadOrder[n] = "tcp" <=> n = 8
         /\ LoadOrder[n] = "udp" <=> n = 9
         /\ LoadOrder[n] = "ip" <=> n = 10
<1>1. /\ LoadOrder[1] = "ot_init"
      /\ LoadOrder[2] = "filter_init"
      /\ LoadOrder[3] = "conn_state_init"
      /\ LoadOrder[4] = "DeviceDispatch"
      /\ LoadOrder[5] = "control"
      /\ LoadOrder[6] = "nfo"
      /\ LoadOrder[7] = "tdifw_driver_entry"
      /\ LoadOrder[8] = "tcp"
      /\ LoadOrder[9] = "udp"
      /\ LoadOrder[10] = "ip"
  BY DEF LoadOrder
<1>2. n = 1 \/ n = 2 \/ n = 3 \/ n = 4 \/ n = 5 \/ n = 6 \/ n = 7 \/ n = 8 \/ n = 9 \/ n = 10
  OBVIOUS
<1> QED BY <1>1, <1>2

(* The place of each call of OnUnload. *)
LEMMA UnloadPlaces ==
  ASSUME NEW n \in 1..9
  PROVE  /\ UnloadOrder[n] = "tdifw_driver_unload" <=> n = 1
         /\ UnloadOrder[n] = "tcp" <=> n = 2
         /\ UnloadOrder[n] = "udp" <=> n = 3
         /\ UnloadOrder[n] = "ip" <=> n = 4
         /\ UnloadOrder[n] = "control" <=> n = 5
         /\ UnloadOrder[n] = "nfo" <=> n = 6
         /\ UnloadOrder[n] = "filter_free" <=> n = 7
         /\ UnloadOrder[n] = "ot_free" <=> n = 8
         /\ UnloadOrder[n] = "conn_state_free" <=> n = 9
<1>1. /\ UnloadOrder[1] = "tdifw_driver_unload"
      /\ UnloadOrder[2] = "tcp"
      /\ UnloadOrder[3] = "udp"
      /\ UnloadOrder[4] = "ip"
      /\ UnloadOrder[5] = "control"
      /\ UnloadOrder[6] = "nfo"
      /\ UnloadOrder[7] = "filter_free"
      /\ UnloadOrder[8] = "ot_free"
      /\ UnloadOrder[9] = "conn_state_free"
  BY DEF UnloadOrder
<1>2. n = 1 \/ n = 2 \/ n = 3 \/ n = 4 \/ n = 5 \/ n = 6 \/ n = 7 \/ n = 8 \/ n = 9
  OBVIOUS
<1> QED BY <1>1, <1>2

(* What is known when DriverEntry makes its k-th call. *)
LEMMA EntryAt ==
  ASSUME LifeInv, NEW k \in 1..10, NEW next \in 2..11, next = k + 1, Entering(LoadOrder[k])
  PROVE  /\ phase = "entering" /\ NoHandle /\ LoadedTo(k)
         /\ Succeed => Step(LoadOrder, next)'
<1>1. phase = "entering"
  BY DEF Entering
<1>2. PICK n \in 1..11 : Step(LoadOrder, n) /\ LoadedTo(n)
  BY <1>1 DEF LifeInv, EnteringInv
<1>3. n \in 1..10 /\ LoadOrder[n] = LoadOrder[k] /\ (Succeed => Step(LoadOrder, n + 1)')
  BY <1>2, LoadCall
<1>4. n = k
  BY <1>3, LoadPlaces
<1> QED BY <1>1, <1>2, <1>3, <1>4 DEF LifeInv, EnteringInv

(* The same for OnUnload. *)
LEMMA ExitAt ==
  ASSUME LifeInv, NEW k \in 1..9, NEW next \in 2..10, next = k + 1, Leaving(UnloadOrder[k])
  PROVE  /\ phase = "leaving" /\ NoHandle /\ Served /\ FreedTo(k) /\ FoundFrom(k)
         /\ Succeed => Step(UnloadOrder, next)'
<1>1. phase = "leaving"
  BY DEF Leaving
<1>2. PICK n \in 1..10 : Step(UnloadOrder, n) /\ FreedTo(n) /\ FoundFrom(n)
  BY <1>1 DEF LifeInv, LeavingInv
<1>3. n \in 1..9 /\ UnloadOrder[n] = UnloadOrder[k] /\ (Succeed => Step(UnloadOrder, n + 1)')
  BY <1>2, UnloadCall
<1>4. n = k
  BY <1>3, UnloadPlaces
<1> QED BY <1>1, <1>2, <1>3, <1>4 DEF LifeInv, LeavingInv

(* The parts of the invariant that do not depend on the phase. *)
PartsInv ==
  /\ made \subseteq Parts /\ attached \subseteq made \cap Protos
  /\ misrouted # {} => "adf" \in stale

(* A call of DriverEntry that succeeds leaves what the next one finds. *)
LEMMA EntrySucceeds ==
  ASSUME LifeInv, phase = "entering", NEW next \in 2..11, phase' = phase,
         Step(LoadOrder, next)', LoadedTo(next)', NoHandle', PartsInv'
  PROVE  LifeInv'
<1>1. EnteringInv'
  BY DEF EnteringInv
<1> QED BY <1>1 DEF LifeInv, PartsInv, OutInv, UpInv, LeavingInv, GoneInv

(* One that fails leaves OnUnload with what it can free. *)
LEMMA EntryFails ==
  ASSUME LifeInv, Fail, NoHandle', PartsInv', Served', FoundFrom(1)'
  PROVE  LifeInv'
<1>1. phase' = "leaving" /\ Step(UnloadOrder, 1)'
  BY Orders, FirstStep DEF Fail
<1>2. FreedTo(1)'
  BY DEF FreedTo
<1>3. LeavingInv'
  BY <1>1, <1>2 DEF LeavingInv
<1> QED BY <1>1, <1>3 DEF LifeInv, PartsInv, OutInv, EnteringInv, UpInv, GoneInv

(* A call of OnUnload frees what it should, and crashes only if the driver *)
(* was not loaded.                                                         *)
LEMMA ExitFrees ==
  ASSUME LifeInv, NEW next \in 1..10, NEW call, NEW needs, NEW frees, Frees(call, needs, frees),
         NoHandle, Succeed => Step(UnloadOrder, next)',
         attached' \subseteq attached, attached' \cap frees = {},
         entered => needs \subseteq made,
         needs \subseteq made => FreedTo(next)' /\ FoundFrom(next)' /\ Served'
  PROVE  LifeInv'
<1>1. phase = "leaving" /\ todo # <<>>
  BY DEF Frees, Leaving
<1>2. CASE needs \subseteq made
  <2>1. /\ Succeed /\ made' = made \ frees /\ UNCHANGED <<phase, stale, misrouted, handles, entered>>
    BY <1>2 DEF Frees, Succeed
  <2>2. PartsInv' /\ NoHandle'
    BY <2>1 DEF LifeInv, PartsInv, NoHandle
  <2>3. Step(UnloadOrder, next)' /\ FreedTo(next)' /\ FoundFrom(next)' /\ Served'
    BY <1>2, <2>1
  <2>4. LeavingInv'
    BY <2>2, <2>3 DEF LeavingInv
  <2> QED BY <1>1, <2>1, <2>2, <2>4 DEF LifeInv, PartsInv, OutInv, EnteringInv, UpInv, GoneInv
<1>3. CASE ~(needs \subseteq made)
  <2>1. Crash /\ ~entered
    BY <1>3 DEF Frees
  <2> QED BY <2>1 DEF LifeInv, Crash, OutInv, EnteringInv, UpInv, LeavingInv, GoneInv
<1> QED BY <1>2, <1>3

-----------------------------------------------------------------------------
(* DriverEntry. *)

(* A failure before tdifw_driver_entry: only what was made has to be known.*)
LEMMA EarlyFailure ==
  ASSUME LifeInv, Fail, NoHandle, attached = {}, ~entered,
         UNCHANGED <<attached, handles, entered, misrouted>>,
         stale \subseteq stale', made \subseteq made', made' \subseteq Parts \ {"request_event"}
  PROVE  LifeInv'
<1>1. Served' /\ FoundFrom(1)' /\ NoHandle'
  BY DEF Served, FoundFrom, NoHandle
<1>2. PartsInv'
  BY DEF LifeInv, PartsInv
<1> QED BY <1>1, <1>2, EntryFails

(* What the calls make. *)
LEMMA PartsListed ==
  /\ {"ot", "cte", "notify", "rule", "queue", "listen", "conn", "thread", "lists", "adf", "adf_link",
      "control", "control_link", "nfo", "nfo_link", "tcp", "udp", "ip", "cfg_file"}
       \subseteq Parts \ {"request_event"}
  /\ LinkOf["control"] = "control_link" /\ LinkOf["nfo"] = "nfo_link"
  /\ Protos = {"tcp", "udp", "ip"}
  BY DEF Parts, Tables, Protos, Named, LinkOf

(* ot_init keeps the invariant. *)
LEMMA otInitKeeps == ASSUME LifeInv, ot_init PROVE LifeInv'
<1>1. Entering(LoadOrder[1])
  BY LoadPlaces DEF ot_init
<1>2. phase = "entering" /\ NoHandle /\ LoadedTo(1) /\ (Succeed => Step(LoadOrder, 2)')
  BY <1>1, EntryAt
<1>3. /\ UNCHANGED <<attached, MajorFunction, misrouted, handles, entered>>
      /\ stale \subseteq stale'
  BY DEF ot_init
<1>4. ~entered /\ attached = {} /\ PartsInv
  BY <1>2 DEF LoadedTo, LifeInv, PartsInv
<1>5. CASE Succeed /\ made' = made \cup {"ot", "cte"}
  <2>1. LoadedTo(2)'
    BY <1>3, <1>4, <1>5 DEF LoadedTo, TableParts
  <2>2. PartsInv' /\ NoHandle'
    BY <1>2, <1>3, <1>4, <1>5, PartsListed DEF PartsInv, NoHandle
  <2> QED BY <1>2, <1>5, <2>1, <2>2, EntrySucceeds DEF Succeed
<1>6. CASE Fail /\ UNCHANGED made
  <2>1. made' \subseteq Parts \ {"request_event"}
    BY <1>2, <1>4, <1>6 DEF PartsInv, NoHandle
  <2> QED BY <1>2, <1>3, <1>4, <1>6, <2>1, EarlyFailure
<1> QED BY <1>5, <1>6 DEF ot_init

(* filter_init keeps it. *)
LEMMA filterInitKeeps == ASSUME LifeInv, filter_init PROVE LifeInv'
<1>1. Entering(LoadOrder[2])
  BY LoadPlaces DEF filter_init
<1>2. phase = "entering" /\ NoHandle /\ LoadedTo(2) /\ (Succeed => Step(LoadOrder, 3)')
  BY <1>1, EntryAt
<1>3. UNCHANGED <<stale, attached, MajorFunction, misrouted, handles, entered>>
  BY DEF filter_init
<1>4. ~entered /\ attached = {} /\ PartsInv
  BY <1>2 DEF LoadedTo, LifeInv, PartsInv
<1>5. CASE Succeed /\ made' = made \cup {"notify", "rule", "queue"}
  <2>1. LoadedTo(3)'
    BY <1>2, <1>3, <1>4, <1>5 DEF LoadedTo, FilterParts
  <2>2. PartsInv' /\ NoHandle'
    BY <1>2, <1>3, <1>4, <1>5, PartsListed DEF PartsInv, NoHandle
  <2> QED BY <1>2, <1>5, <2>1, <2>2, EntrySucceeds DEF Succeed
<1>6. CASE Fail /\ made' \in {made \cup {"notify"}, made \cup {"notify", "rule"}}
  <2>1. made' \subseteq Parts \ {"request_event"}
    BY <1>2, <1>4, <1>6, PartsListed DEF PartsInv, NoHandle
  <2> QED BY <1>2, <1>3, <1>4, <1>6, <2>1, EarlyFailure
<1> QED BY <1>5, <1>6 DEF filter_init

(* conn_state_init keeps it. *)
LEMMA connStateInitKeeps == ASSUME LifeInv, conn_state_init PROVE LifeInv'
<1>1. Entering(LoadOrder[3])
  BY LoadPlaces DEF conn_state_init
<1>2. phase = "entering" /\ NoHandle /\ LoadedTo(3) /\ (Succeed => Step(LoadOrder, 4)')
  BY <1>1, EntryAt
<1>3. UNCHANGED <<attached, MajorFunction, misrouted, handles, entered>> /\ stale \subseteq stale'
  BY DEF conn_state_init
<1>4. ~entered /\ attached = {} /\ PartsInv
  BY <1>2 DEF LoadedTo, LifeInv, PartsInv
<1>5. CASE Succeed /\ made' = made \cup {"listen", "conn", "thread"}
  <2>1. LoadedTo(4)'
    BY <1>2, <1>3, <1>4, <1>5 DEF LoadedTo, ConnParts
  <2>2. PartsInv' /\ NoHandle'
    BY <1>2, <1>3, <1>4, <1>5, PartsListed DEF PartsInv, NoHandle
  <2> QED BY <1>2, <1>5, <2>1, <2>2, EntrySucceeds DEF Succeed
<1>6. CASE Fail /\ UNCHANGED made
  <2>1. made' \subseteq Parts \ {"request_event"}
    BY <1>2, <1>4, <1>6 DEF PartsInv, NoHandle
  <2> QED BY <1>2, <1>3, <1>4, <1>6, <2>1, EarlyFailure
<1> QED BY <1>5, <1>6 DEF conn_state_init

(* Three calls on which nothing else depends. *)
LEMMA MinorCalls ==
  ASSUME NEW n \in 4..6, NEW next \in 5..7, next = n + 1,
         LoadedTo(n), made \subseteq made', UNCHANGED <<attached, entered>>
  PROVE  LoadedTo(next)'
  BY DEF LoadedTo

(* Setting the dispatch routines keeps it. *)
LEMMA SetDispatchKeeps == ASSUME LifeInv, SetDispatch PROVE LifeInv'
<1>1. Entering(LoadOrder[4])
  BY LoadPlaces DEF SetDispatch
<1>2. phase = "entering" /\ NoHandle /\ LoadedTo(4) /\ (Succeed => Step(LoadOrder, 5)')
  BY <1>1, EntryAt
<1>3. Succeed /\ UNCHANGED <<made, stale, attached, misrouted, handles, entered>>
  BY DEF SetDispatch
<1>4. LoadedTo(5)'
  BY <1>2, <1>3, MinorCalls
<1>5. PartsInv' /\ NoHandle'
  BY <1>2, <1>3 DEF LifeInv, PartsInv, NoHandle
<1> QED BY <1>2, <1>3, <1>4, <1>5, EntrySucceeds DEF Succeed

(* Creating the control and information devices keeps it. *)
LEMMA CreateNamedKeeps == ASSUME LifeInv, NEW d, CreateNamed(d) PROVE LifeInv'
<1>1. PICK k \in 4..6, next \in 5..7 : next = k + 1 /\ Entering(LoadOrder[k])
  BY LoadPlaces DEF CreateNamed
<1>2. phase = "entering" /\ NoHandle /\ LoadedTo(k) /\ (Succeed => Step(LoadOrder, next)')
  BY <1>1, EntryAt
<1>3. UNCHANGED <<stale, attached, MajorFunction, misrouted, handles, entered>>
  BY DEF CreateNamed
<1>4. ~entered /\ attached = {} /\ PartsInv
  BY <1>2 DEF LoadedTo, LifeInv, PartsInv
<1>5. made \subseteq made' /\ made' \subseteq Parts \ {"request_event"}
  BY <1>2, <1>4, PartsListed DEF CreateNamed, PartsInv, NoHandle
<1>6. CASE Succeed
  <2>1. LoadedTo(next)'
    BY <1>1, <1>2, <1>3, <1>5, MinorCalls
  <2>2. PartsInv' /\ NoHandle'
    BY <1>2, <1>3, <1>4, <1>5 DEF PartsInv, NoHandle
  <2> QED BY <1>2, <1>6, <2>1, <2>2, EntrySucceeds DEF Succeed
<1>7. CASE Fail
  BY <1>2, <1>3, <1>4, <1>5, <1>7, EarlyFailure
<1> QED BY <1>6, <1>7 DEF CreateNamed

(* The call on which the lists and the adf device depend. *)
LEMMA EntryLoads ==
  ASSUME LoadedTo(7), attached = {}, UNCHANGED attached, made \cup {"lists"} \subseteq made',
         entered' => "adf" \in made'
  PROVE  LoadedTo(8)'
  BY DEF LoadedTo

(* tdifw_driver_entry keeps it. *)
LEMMA EntryKeeps == ASSUME LifeInv, tdifw_driver_entry PROVE LifeInv'
<1>1. Entering(LoadOrder[7])
  <2>1. Entering("tdifw_driver_entry")
    BY DEF tdifw_driver_entry
  <2> QED BY <2>1, LoadPlaces
<1>2. phase = "entering" /\ NoHandle /\ LoadedTo(7) /\ (Succeed => Step(LoadOrder, 8)')
  BY <1>1, EntryAt
<1>3. /\ Succeed /\ UNCHANGED <<attached, MajorFunction, misrouted, handles>>
      /\ stale \subseteq stale'
  BY DEF tdifw_driver_entry
<1>4. ~entered /\ attached = {} /\ PartsInv
  BY <1>2 DEF LoadedTo, LifeInv, PartsInv
<1>5. /\ made \cup {"lists"} \subseteq made' /\ made' \subseteq Parts \ {"request_event"}
      /\ entered' => "adf" \in made'
  <2>1. made \subseteq Parts \ {"request_event"}
    BY <1>2, <1>4 DEF NoHandle, PartsInv
  <2>2. PICK files \in SUBSET {"cfg_file"} :
          \/ made' = made \cup {"lists", "adf", "adf_link"} \cup files
          \/ made' = made \cup {"lists"} \cup files /\ UNCHANGED entered
    BY DEF tdifw_driver_entry
  <2>3. entered' => "adf" \in made'
    BY <1>4, <2>2
  <2>4. {"lists", "adf", "adf_link", "cfg_file"} \subseteq Parts \ {"request_event"}
    BY PartsListed
  <2> QED BY <2>1, <2>2, <2>3, <2>4
<1>6. LoadedTo(8)'
  BY <1>2, <1>3, <1>4, <1>5, EntryLoads
<1>7. PartsInv' /\ NoHandle'
  BY <1>2, <1>3, <1>4, <1>5 DEF PartsInv, NoHandle
<1> QED BY <1>2, <1>3, <1>6, <1>7, EntrySucceeds DEF Succeed

(* Attaching a filter device keeps it. *)
LEMMA AttachKeeps == ASSUME LifeInv, NEW p, c_n_a_device(p) PROVE LifeInv'
<1>1. PICK k \in 8..10, next \in 9..11 :
        next = k + 1 /\ Entering(LoadOrder[k]) /\ (k = 8 => p = "tcp")
  <2>1. Entering(p) /\ p \in {"tcp", "udp", "ip"}
    BY PartsListed DEF c_n_a_device
  <2>2. LoadOrder[8] = "tcp" /\ LoadOrder[9] = "udp" /\ LoadOrder[10] = "ip"
    BY LoadPlaces
  <2> QED BY <2>1, <2>2
<1>2. phase = "entering" /\ NoHandle /\ LoadedTo(k) /\ (Succeed => Step(LoadOrder, next)')
  BY <1>1, EntryAt
<1>3. UNCHANGED <<stale, MajorFunction, handles, entered>> /\ p \in Protos
  BY DEF c_n_a_device
<1>4. PartsInv /\ (attached # {} => "tcp" \in attached)
      /\ TableParts \cup FilterParts \cup ConnParts \cup {"lists"} \subseteq made
      /\ (entered => "adf" \in made)
  BY <1>2 DEF LoadedTo, LifeInv, PartsInv
<1>5. made' \in {made, made \cup {p}} /\ (misrouted' # {} => "adf" \in stale')
  BY <1>3, <1>4 DEF c_n_a_device, PartsInv
<1>6. NoHandle' /\ made \subseteq made' /\ made' \subseteq Parts
  BY <1>2, <1>3, <1>4, <1>5, PartsListed DEF NoHandle, PartsInv
<1>7. CASE Succeed /\ made' = made \cup {p} /\ attached' = attached \cup {p}
  <2>1. LoadedTo(next)'
    BY <1>1, <1>2, <1>3, <1>4, <1>6, <1>7 DEF LoadedTo
  <2>2. PartsInv'
    BY <1>3, <1>4, <1>5, <1>6, <1>7 DEF PartsInv
  <2> QED BY <1>1, <1>2, <1>6, <1>7, <2>1, <2>2, EntrySucceeds DEF Succeed
<1>8. CASE Fail /\ UNCHANGED attached
  <2>1. PartsInv'
    BY <1>4, <1>5, <1>6, <1>8 DEF PartsInv
  <2>2. Served'
    BY <1>4, <1>6, <1>8 DEF Served
  <2>3. FoundFrom(1)'
    BY <1>3, <1>4, <1>6 DEF FoundFrom
  <2> QED BY <1>6, <1>8, <2>1, <2>2, <2>3, EntryFails
<1> QED BY <1>7, <1>8 DEF c_n_a_device

-----------------------------------------------------------------------------
(* Before, after and in between. *)
LEMMA LoadKeeps == ASSUME LifeInv, Load PROVE LifeInv'
<1>1. Step(LoadOrder, 1)'
  BY Orders, FirstStep DEF Load
<1>2. /\ phase = "out" /\ phase' = "entering"
      /\ UNCHANGED <<made, stale, attached, misrouted, handles, entered>>
  BY DEF Load
<1>3. NoHandle /\ attached = {} /\ ~entered
  BY <1>2 DEF LifeInv, OutInv
<1>4. LoadedTo(1)'
  BY <1>2, <1>3 DEF LoadedTo
<1>5. EnteringInv'
  <2>1. NoHandle'
    BY <1>2, <1>3 DEF NoHandle
  <2> QED BY <1>1, <1>4, <2>1 DEF EnteringInv
<1> QED BY <1>2, <1>5 DEF LifeInv, OutInv, UpInv, LeavingInv, GoneInv

(* The end of DriverEntry keeps it. *)
LEMMA EntryDoneKeeps == ASSUME LifeInv, EntryDone PROVE LifeInv'
<1>1. /\ phase = "entering" /\ todo = <<>> /\ phase' = "up"
      /\ UNCHANGED <<todo, made, stale, attached, misrouted, handles, entered>>
  BY DEF EntryDone
<1>2. PICK n \in 1..11 : Step(LoadOrder, n) /\ LoadedTo(n)
  BY <1>1 DEF LifeInv, EnteringInv
<1>3. LoadOrder \in Seq(Calls) /\ Len(LoadOrder) = 10 /\ n \in 1..Len(LoadOrder) + 1
  BY Orders
<1>4. n = Len(LoadOrder) + 1
  BY <1>1, <1>2, <1>3, ThisStep
<1>5. LoadedTo(11) /\ NoHandle
  BY <1>1, <1>2, <1>3, <1>4 DEF LifeInv, EnteringInv
<1>6. UpInv'
  BY <1>1, <1>5 DEF UpInv, LoadedTo, NoHandle
<1> QED BY <1>1, <1>6 DEF LifeInv, OutInv, EnteringInv, LeavingInv, GoneInv

(* Opening a named device keeps it. *)
LEMMA OpenKeeps == ASSUME LifeInv, NEW d, OpenNamed(d) PROVE LifeInv'
<1>1. /\ phase = "up" /\ handles' = handles \cup {d}
      /\ made' = made \/ (d = "control" /\ made' = made \cup {"request_event"})
      /\ UNCHANGED <<phase, todo, stale, attached, misrouted, entered>>
  BY DEF OpenNamed
<1>2. made' \subseteq Parts
  BY <1>1 DEF LifeInv, Parts
<1>3. UpInv'
  BY <1>1 DEF LifeInv, UpInv, LoadedTo
<1> QED BY <1>1, <1>2, <1>3 DEF LifeInv, OutInv, EnteringInv, LeavingInv, GoneInv

(* Closing one keeps it. *)
LEMMA CloseKeeps == ASSUME LifeInv, NEW d, CloseNamed(d) PROVE LifeInv'
<1>1. /\ phase = "up" /\ handles' = handles \ {d}
      /\ made' = IF d = "control" THEN made \ {"request_event"} ELSE made
      /\ UNCHANGED <<phase, todo, stale, attached, misrouted, entered>>
  BY DEF CloseNamed
<1>2. attached' \subseteq made' \cap Protos /\ made' \subseteq Parts
  BY <1>1 DEF LifeInv, Protos
<1>3. UpInv'
  BY <1>1 DEF LifeInv, UpInv, LoadedTo, TableParts, FilterParts, ConnParts
<1> QED BY <1>1, <1>2, <1>3 DEF LifeInv, OutInv, EnteringInv, LeavingInv, GoneInv

(* What a driver that has been loaded has. *)
LEMMA FullyLoaded ==
  ASSUME LoadedTo(11)
  PROVE  /\ TableParts \cup FilterParts \cup ConnParts \cup {"lists"} \subseteq made
         /\ "tcp" \in attached /\ (entered => "adf" \in made)
  BY DEF LoadedTo

(* What has been freed when OnUnload is done. *)
LEMMA FullyFreed ==
  ASSUME FreedTo(10)
  PROVE  \A part \in made : part \notin
    {"ot", "cte", "listen", "conn", "tcp", "udp", "ip", "control", "nfo", "adf", "notify", "rule",
     "queue", "thread", "control_link", "nfo_link", "adf_link"}
  BY DEF FreedTo

(* The beginning of OnUnload keeps it. *)
LEMMA UnloadKeeps == ASSUME LifeInv, Unload PROVE LifeInv'
<1>1. Step(UnloadOrder, 1)'
  BY Orders, FirstStep DEF Unload
<1>2. /\ phase = "up" /\ phase' = "leaving" /\ handles = {} /\ LoadedTo(11)
      /\ "request_event" \notin made
      /\ UNCHANGED <<made, stale, attached, misrouted, handles, entered>>
  BY DEF Unload, LifeInv, UpInv
<1>3. Served' /\ NoHandle'
  BY <1>2, FullyLoaded DEF Served, NoHandle
<1>4. FoundFrom(1)' /\ FreedTo(1)'
  <2>1. FoundFrom(1)'
    BY <1>2, FullyLoaded DEF FoundFrom
  <2>2. FreedTo(1)'
    BY DEF FreedTo
  <2> QED BY <2>1, <2>2
<1>5. LeavingInv'
  BY <1>1, <1>3, <1>4 DEF LeavingInv
<1> QED BY <1>2, <1>5 DEF LifeInv, OutInv, EnteringInv, UpInv, GoneInv

(* The end of OnUnload keeps it. *)
LEMMA UnloadDoneKeeps == ASSUME LifeInv, UnloadDone PROVE LifeInv'
<1>1. /\ phase = "leaving" /\ todo = <<>> /\ phase' = "gone" /\ made' = made \ {"lists"}
      /\ UNCHANGED <<todo, stale, attached, misrouted, handles, entered>>
  BY DEF UnloadDone
<1>2. PICK n \in 1..10 : Step(UnloadOrder, n) /\ FreedTo(n)
  BY <1>1 DEF LifeInv, LeavingInv
<1>3. UnloadOrder \in Seq(Calls) /\ Len(UnloadOrder) = 9 /\ n \in 1..Len(UnloadOrder) + 1
  BY Orders
<1>4. n = Len(UnloadOrder) + 1
  BY <1>1, <1>2, <1>3, ThisStep
<1>5. FreedTo(10) /\ NoHandle
  BY <1>1, <1>2, <1>3, <1>4 DEF LifeInv, LeavingInv
<1>6. made' \subseteq {"cfg_file"}
  <2>1. made \subseteq Parts
    BY DEF LifeInv
  <2>2. Parts = {"ot", "cte", "listen", "conn", "tcp", "udp", "ip", "control", "nfo", "adf",
                 "notify", "rule", "queue", "thread", "lists", "control_link", "nfo_link",
                 "adf_link", "request_event", "cfg_file"}
    BY DEF Parts, Tables, Protos, Named
  <2> QED BY <1>1, <1>5, <2>1, <2>2, FullyFreed DEF NoHandle
<1>7. GoneInv' /\ attached' \subseteq made' \cap Protos
  <2>1. attached = {}
    BY <1>5, FullyFreed DEF LifeInv, Protos
  <2> QED BY <1>1, <1>5, <1>6, <2>1 DEF GoneInv, NoHandle
<1> QED BY <1>1, <1>6, <1>7 DEF LifeInv, OutInv, EnteringInv, UpInv, LeavingInv

-----------------------------------------------------------------------------
(* OnUnload. *)
LEMMA LibraryUnloads == ASSUME LifeInv, tdifw_driver_unload PROVE LifeInv'
<1>1. Leaving("tdifw_driver_unload")
  BY DEF tdifw_driver_unload, Frees
<1>2. Leaving(UnloadOrder[1])
  BY <1>1, UnloadPlaces
<1>3. NoHandle /\ Served /\ FreedTo(1) /\ FoundFrom(1) /\ (Succeed => Step(UnloadOrder, 2)')
  BY <1>2, ExitAt
<1>4. /\ Frees("tdifw_driver_unload", {"adf", "lists"}, {"adf", "adf_link"})
      /\ UNCHANGED <<attached, MajorFunction>>
  BY DEF tdifw_driver_unload
<1>5. ASSUME {"adf", "lists"} \subseteq made PROVE FreedTo(2)' /\ FoundFrom(2)' /\ Served'
  <2>1. made' = made \ {"adf", "adf_link"} /\ UNCHANGED entered
    BY <1>4, <1>5 DEF Frees
  <2>2. FreedTo(2)'
    BY <1>3, <2>1 DEF FreedTo
  <2>3. FoundFrom(2)'
    BY <1>3, <2>1 DEF FoundFrom, FilterParts, TableParts, ConnParts
  <2>4. Served'
    BY <1>3, <1>4, <2>1 DEF Served, FilterParts, TableParts, ConnParts
  <2> QED BY <2>2, <2>3, <2>4
<1>6. attached' \subseteq attached /\ attached' \cap {"adf", "adf_link"} = {}
  BY <1>4 DEF LifeInv, Protos
<1>7. entered => {"adf", "lists"} \subseteq made
  BY <1>3 DEF FoundFrom
<1> QED BY <1>3, <1>4, <1>5, <1>6, <1>7, ExitFrees

(* Detaching a filter device keeps it. *)
LEMMA DetachKeeps == ASSUME LifeInv, NEW p, d_n_d_device(p) PROVE LifeInv'
<1>1. Leaving(p) /\ p \in {"tcp", "udp", "ip"}
  BY PartsListed DEF d_n_d_device, Frees
<1>2. PICK k \in 2..4, next \in 3..5 :
        /\ next = k + 1 /\ Leaving(UnloadOrder[k])
        /\ (k = 2 /\ p = "tcp") \/ (k = 3 /\ p = "udp") \/ (k = 4 /\ p = "ip")
  <2>1. UnloadOrder[2] = "tcp" /\ UnloadOrder[3] = "udp" /\ UnloadOrder[4] = "ip"
    BY UnloadPlaces
  <2> QED BY <1>1, <2>1
<1>3. NoHandle /\ Served /\ FreedTo(k) /\ FoundFrom(k) /\ (Succeed => Step(UnloadOrder, next)')
  BY <1>2, ExitAt
<1>4. /\ Frees(p, {}, {p}) /\ attached' = attached \ {p}
      /\ MajorFunction' = IF p \in attached THEN "tcpip" ELSE MajorFunction
  BY DEF d_n_d_device
<1>5. made' = made \ {p} /\ UNCHANGED entered
  BY <1>4 DEF Frees
<1>6. FreedTo(next)'
  BY <1>2, <1>3, <1>5 DEF FreedTo
<1>7. FoundFrom(next)'
  BY <1>2, <1>3, <1>5 DEF FoundFrom, FilterParts, TableParts, ConnParts
<1>8. Served'
  <2>1. CASE p \in attached
    BY <1>4, <2>1 DEF Served
  <2>2. CASE p \notin attached
    BY <1>1, <1>3, <1>4, <1>5, <2>2 DEF Served, FilterParts, TableParts, ConnParts
  <2> QED BY <2>1, <2>2
<1> QED BY <1>2, <1>3, <1>4, <1>6, <1>7, <1>8, ExitFrees

(* Deleting the control and information devices keeps it. *)
LEMMA DeleteNamedKeeps == ASSUME LifeInv, NEW d, DeleteNamed(d) PROVE LifeInv'
<1>1. Leaving(d) /\ d \in {"control", "nfo"}
  BY DEF DeleteNamed, Frees
<1>2. PICK k \in 5..6, next \in 6..7 :
        /\ next = k + 1 /\ Leaving(UnloadOrder[k])
        /\ (k = 5 /\ d = "control") \/ (k = 6 /\ d = "nfo")
  <2>1. UnloadOrder[5] = "control" /\ UnloadOrder[6] = "nfo"
    BY UnloadPlaces
  <2> QED BY <1>1, <2>1
<1>3. NoHandle /\ Served /\ FreedTo(k) /\ FoundFrom(k) /\ (Succeed => Step(UnloadOrder, next)')
  BY <1>2, ExitAt
<1>4. PICK link \in {"control_link", "nfo_link"} :
        /\ Frees(d, {}, {d, link})
        /\ (k = 5 => link = "control_link") /\ (k = 6 => link = "nfo_link")
  BY <1>2, PartsListed DEF DeleteNamed
<1>5. made' = made \ {d, link} /\ UNCHANGED <<entered, attached, MajorFunction>>
  BY <1>4 DEF Frees, DeleteNamed
<1>6. FreedTo(next)'
  BY <1>2, <1>3, <1>4, <1>5 DEF FreedTo
<1>7. FoundFrom(next)' /\ Served'
  BY <1>1, <1>2, <1>3, <1>4, <1>5 DEF FoundFrom, Served, FilterParts, TableParts, ConnParts
<1>8. attached' \subseteq attached /\ attached' \cap {d, link} = {}
  BY <1>1, <1>4, <1>5 DEF LifeInv, Protos
<1> QED BY <1>2, <1>3, <1>4, <1>6, <1>7, <1>8, ExitFrees

(* From here on no request can come. *)
LEMMA NoneComes ==
  ASSUME LifeInv, NEW k \in 3..9, FreedTo(k), Served
  PROVE  attached = {} \/ MajorFunction # "ours"
  BY DEF LifeInv, FreedTo, Served

(* filter_free keeps it. *)
LEMMA FilterFrees == ASSUME LifeInv, filter_free PROVE LifeInv'
<1>1. Leaving("filter_free")
  BY DEF filter_free, Frees
<1>2. Leaving(UnloadOrder[7])
  BY <1>1, UnloadPlaces
<1>3. NoHandle /\ Served /\ FreedTo(7) /\ FoundFrom(7) /\ (Succeed => Step(UnloadOrder, 8)')
  BY <1>2, ExitAt
<1>4. /\ Frees("filter_free", {"queue"}, {"rule", "queue", "notify"})
      /\ UNCHANGED <<attached, MajorFunction>>
  BY DEF filter_free
<1>5. ASSUME {"queue"} \subseteq made PROVE FreedTo(8)' /\ FoundFrom(8)' /\ Served'
  <2>1. made' = made \ {"rule", "queue", "notify"} /\ UNCHANGED entered
    BY <1>4, <1>5 DEF Frees
  <2>2. FreedTo(8)'
    BY <1>3, <2>1 DEF FreedTo
  <2>3. FoundFrom(8)'
    BY <1>3, <2>1 DEF FoundFrom, TableParts, ConnParts
  <2>4. Served'
    BY <1>3, <1>4, NoneComes DEF Served
  <2> QED BY <2>2, <2>3, <2>4
<1>6. attached' \subseteq attached /\ attached' \cap {"rule", "queue", "notify"} = {}
  BY <1>4 DEF LifeInv, Protos
<1>7. entered => {"queue"} \subseteq made
  BY <1>3 DEF FoundFrom, FilterParts
<1> QED BY <1>3, <1>4, <1>5, <1>6, <1>7, ExitFrees

(* ot_free keeps it. *)
LEMMA ObjectsFree == ASSUME LifeInv, ot_free PROVE LifeInv'
<1>1. Leaving("ot_free")
  BY DEF ot_free, Frees
<1>2. Leaving(UnloadOrder[8])
  BY <1>1, UnloadPlaces
<1>3. NoHandle /\ Served /\ FreedTo(8) /\ FoundFrom(8) /\ (Succeed => Step(UnloadOrder, 9)')
  BY <1>2, ExitAt
<1>4. /\ Frees("ot_free", {"ot"}, {"ot", "cte"})
      /\ UNCHANGED <<attached, MajorFunction>>
  BY DEF ot_free
<1>5. ASSUME {"ot"} \subseteq made PROVE FreedTo(9)' /\ FoundFrom(9)' /\ Served'
  <2>1. made' = made \ {"ot", "cte"} /\ UNCHANGED entered
    BY <1>4, <1>5 DEF Frees
  <2>2. FreedTo(9)'
    BY <1>3, <2>1 DEF FreedTo
  <2>3. FoundFrom(9)'
    BY <1>3, <2>1 DEF FoundFrom, ConnParts
  <2>4. Served'
    BY <1>3, <1>4, NoneComes DEF Served
  <2> QED BY <2>2, <2>3, <2>4
<1>6. attached' \subseteq attached /\ attached' \cap {"ot", "cte"} = {}
  BY <1>4 DEF LifeInv, Protos
<1>7. entered => {"ot"} \subseteq made
  BY <1>3 DEF FoundFrom, TableParts
<1> QED BY <1>3, <1>4, <1>5, <1>6, <1>7, ExitFrees

(* conn_state_free keeps it. *)
LEMMA ConnStateFrees == ASSUME LifeInv, conn_state_free PROVE LifeInv'
<1>1. Leaving("conn_state_free")
  BY DEF conn_state_free, Frees
<1>2. Leaving(UnloadOrder[9])
  BY <1>1, UnloadPlaces
<1>3. NoHandle /\ Served /\ FreedTo(9) /\ FoundFrom(9) /\ (Succeed => Step(UnloadOrder, 10)')
  BY <1>2, ExitAt
<1>4. /\ Frees("conn_state_free", {"listen", "conn"}, {"listen", "conn", "thread"})
      /\ UNCHANGED <<attached, MajorFunction>>
  BY DEF conn_state_free
<1>5. ASSUME {"listen", "conn"} \subseteq made PROVE FreedTo(10)' /\ FoundFrom(10)' /\ Served'
  <2>1. made' = made \ {"listen", "conn", "thread"} /\ UNCHANGED entered
    BY <1>4, <1>5 DEF Frees
  <2>2. FreedTo(10)'
    BY <1>3, <2>1 DEF FreedTo
  <2>3. FoundFrom(10)'
    BY <1>3, <2>1 DEF FoundFrom
  <2>4. Served'
    BY <1>3, <1>4, NoneComes DEF Served
  <2> QED BY <2>2, <2>3, <2>4
<1>6. attached' \subseteq attached /\ attached' \cap {"listen", "conn", "thread"} = {}
  BY <1>4 DEF LifeInv, Protos
<1>7. entered => {"listen", "conn"} \subseteq made
  BY <1>3 DEF FoundFrom, ConnParts
<1> QED BY <1>3, <1>4, <1>5, <1>6, <1>7, ExitFrees

-----------------------------------------------------------------------------
(* The driver starts anew, with no more left of the last time than a file. *)
Anew ==
  /\ phase' = "out" /\ attached' = {} /\ misrouted' = {} /\ handles' = {} /\ entered' = FALSE
  /\ made' \subseteq {"cfg_file"}

(* Starting anew keeps it. *)
LEMMA RestartKeeps == ASSUME LifeInv, Anew PROVE LifeInv'
<1>1. made' \subseteq Parts /\ NoHandle'
  BY PartsListed DEF NoHandle, Anew
<1> QED BY <1>1 DEF Anew, LifeInv, OutInv, EnteringInv, UpInv, LeavingInv, GoneInv

(* It is called after it has gone. *)
LEMMA LateCrash == ASSUME LifeInv, phase = "gone", Crash PROVE LifeInv'
  BY DEF LifeInv, Crash, OutInv, EnteringInv, UpInv, LeavingInv, GoneInv

LifeMove == LifeNext \/ (phase = "gone" /\ Crash) \/ UNCHANGED lifeVars

(* Every step of the driver's life keeps the invariant. *)
LEMMA LifeStep == ASSUME LifeInv, LifeMove PROVE LifeInv'
<1>1. CASE Load \/ EntryDone \/ Unload \/ UnloadDone
  BY <1>1, LoadKeeps, EntryDoneKeeps, UnloadKeeps, UnloadDoneKeeps
<1>2. CASE ot_init \/ filter_init \/ conn_state_init \/ SetDispatch \/ tdifw_driver_entry
  BY <1>2, otInitKeeps, filterInitKeeps, connStateInitKeeps, SetDispatchKeeps, EntryKeeps
<1>3. ASSUME NEW d \in Named, CreateNamed(d) \/ OpenNamed(d) \/ CloseNamed(d) \/ DeleteNamed(d)
      PROVE  LifeInv'
  BY <1>3, CreateNamedKeeps, OpenKeeps, CloseKeeps, DeleteNamedKeeps
<1>4. ASSUME NEW p \in Protos, c_n_a_device(p) \/ d_n_d_device(p) PROVE LifeInv'
  BY <1>4, AttachKeeps, DetachKeeps
<1>5. CASE tdifw_driver_unload \/ filter_free \/ ot_free \/ conn_state_free
  BY <1>5, LibraryUnloads, FilterFrees, ObjectsFree, ConnStateFrees
<1>6. CASE Restart({}) \/ (phase = "gone" /\ Restart(made))
  <2>1. CASE Restart({})
    BY <2>1, RestartKeeps DEF Restart, Anew
  <2>2. CASE phase = "gone" /\ Restart(made)
    BY <2>2, RestartKeeps DEF Restart, Anew, LifeInv, GoneInv
  <2> QED BY <1>6, <2>1, <2>2
<1>7. CASE phase = "gone" /\ Crash
  BY <1>7, LateCrash
<1>8. CASE UNCHANGED lifeVars
  <2>1. \A n \in 1..11 : Step(LoadOrder, n) /\ LoadedTo(n) => Step(LoadOrder, n)' /\ LoadedTo(n)'
    BY <1>8 DEF lifeVars, Step, LoadedTo
  <2>2. \A n \in 1..10 : Step(UnloadOrder, n) /\ FreedTo(n) /\ FoundFrom(n)
          => Step(UnloadOrder, n)' /\ FreedTo(n)' /\ FoundFrom(n)'
    BY <1>8 DEF lifeVars, Step, FreedTo, FoundFrom
  <2>3. EnteringInv'
    BY <1>8, <2>1 DEF lifeVars, LifeInv, EnteringInv, NoHandle
  <2>4. LeavingInv'
    BY <1>8, <2>2 DEF lifeVars, LifeInv, LeavingInv, NoHandle, Served
  <2>5. UpInv'
    BY <1>8 DEF lifeVars, LifeInv, UpInv, LoadedTo
  <2> QED BY <1>8, <2>3, <2>4, <2>5 DEF lifeVars, LifeInv, OutInv, GoneInv, NoHandle
<1> QED BY <1>1, <1>2, <1>3, <1>4, <1>5, <1>6, <1>7, <1>8 DEF LifeMove, LifeNext

(* The invariant holds before the driver is loaded. *)
LEMMA LifeInitially == LifeInit => LifeInv
  BY DEF LifeInit, LifeInv, OutInv, EnteringInv, UpInv, LeavingInv, GoneInv, NoHandle

(* What the invariant says of those who use the parts. *)
LEMMA LifeInvImplies == LifeInv => HandlersReady /\ UnloadTouchesLive /\ NothingLeft
<1> SUFFICES ASSUME LifeInv PROVE HandlersReady /\ UnloadTouchesLive /\ NothingLeft
  OBVIOUS
<1> DEFINE All == TableParts \cup FilterParts \cup ConnParts \cup {"lists"}
<1>1. All = Tables \cup {"notify", "rule", "queue", "thread", "lists"}
  BY DEF TableParts, FilterParts, ConnParts, Tables
<1>2. ASSUME phase = "up" PROVE All \subseteq made
  BY <1>2, FullyLoaded DEF LifeInv, UpInv
<1>3. ASSUME Dispatching PROVE All \subseteq made
  <2>1. CASE phase = "entering"
    <3>1. PICK n \in 1..11 : LoadedTo(n)
      BY <2>1 DEF LifeInv, EnteringInv
    <3>2. n >= 9
      BY <1>3, <3>1 DEF Dispatching, LoadedTo
    <3> QED BY <3>1, <3>2 DEF LoadedTo
  <2>2. CASE phase = "leaving"
    BY <1>3, <2>2 DEF LifeInv, LeavingInv, Dispatching, Served
  <2> QED BY <1>2, <1>3, <2>1, <2>2 DEF LifeInv, OutInv, GoneInv, Dispatching
<1>4. ASSUME EventsInstalled, phase = "leaving"
      PROVE  /\ TableParts \cup ConnParts \cup {"lists"} \subseteq made
             /\ todo = <<>> \/ Head(todo) # "ot_free" => FilterParts \subseteq made
  <2>1. PICK n \in 1..10 : Step(UnloadOrder, n) /\ FreedTo(n) /\ FoundFrom(n)
    BY <1>4 DEF LifeInv, LeavingInv
  <2>2. n <= 8 /\ entered
    BY <1>4, <2>1 DEF EventsInstalled, FreedTo
  <2>3. TableParts \cup ConnParts \cup {"lists"} \subseteq made /\ (n <= 7 => FilterParts \subseteq made)
    BY <2>1, <2>2 DEF FoundFrom
  <2>4. UnloadOrder \in Seq(Calls) /\ Len(UnloadOrder) = 9 /\ n \in 1..Len(UnloadOrder) + 1
    BY Orders
  <2>5. todo # <<>> /\ Head(todo) = UnloadOrder[n]
    <3>1. todo = <<>> <=> n = Len(UnloadOrder) + 1
      BY <2>1, <2>4, ThisStep
    <3>2. todo # <<>> => Head(todo) = UnloadOrder[n]
      BY <2>1, <2>4, ThisStep
    <3> QED BY <2>2, <2>4, <3>1, <3>2
  <2>6. n = 8 => Head(todo) = "ot_free"
    BY <2>5, UnloadPlaces
  <2> QED BY <2>2, <2>3, <2>5, <2>6
<1>5. HandlersReady
  <2>1. EventsInstalled => phase \in {"up", "leaving"}
    BY DEF EventsInstalled
  <2>2. EventsInstalled => Tables \cup {"thread", "lists"} \subseteq made
    BY <1>1, <1>2, <1>4, <2>1 DEF TableParts, ConnParts, Tables
  <2>3. EventsInstalled /\ (todo = <<>> \/ Head(todo) # "ot_free") => {"rule", "queue"} \subseteq made
    BY <1>1, <1>2, <1>4, <2>1 DEF FilterParts
  <2>4. Dispatching => Tables \cup {"notify", "rule", "queue", "thread", "lists"} \subseteq made
    BY <1>1, <1>3
  <2> QED BY <2>2, <2>3, <2>4 DEF HandlersReady
<1>6. UnloadTouchesLive /\ NothingLeft
  BY DEF LifeInv, GoneInv, UnloadTouchesLive, NothingLeft
<1> QED BY <1>5, <1>6

-----------------------------------------------------------------------------
(* The types.  A pointer is stale only once its part is freed for good:    *)
(* DriverEntry makes each part in one call, and after a call that frees    *)
(* one again only the filter devices are still to be made.                 *)
Remaining(order) == \E n \in 1..Len(order) + 1 : todo = SubSeq(order, n, Len(order))

StaleInv ==
  /\ stale \subseteq Parts \ made
  /\ phase = "out" => stale = {}
  /\ phase \in {"entering", "up"} => stale \subseteq {"adf"}
  /\ phase = "entering" =>
       /\ Len(todo) >= 10 => "ot" \notin made
       /\ Len(todo) >= 8 => "listen" \notin made /\ "conn" \notin made
       /\ Len(todo) >= 4 => "adf" \notin made /\ stale = {}

RestInv ==
  /\ MajorFunction \in {"default", "ours", "tcpip"} /\ misrouted \subseteq Protos
  /\ handles \subseteq Named /\ entered \in BOOLEAN

TypeInv == (Remaining(LoadOrder) \/ Remaining(UnloadOrder)) /\ StaleInv /\ RestInv

(* One call less remains, all of them, or none. *)
LEMMA RemainingNext ==
  ASSUME NEW order \in Seq(Calls), Remaining(order), todo # <<>>, todo' = Tail(todo)
  PROVE  Remaining(order)'
<1>1. PICK n \in 1..Len(order) + 1 : todo = SubSeq(order, n, Len(order))
  BY DEF Remaining
<1>2. Len(order) \in Nat
  OBVIOUS
<1>3. n \in 1..Len(order) /\ Len(order) \in n..Len(order)
  <2>1. ASSUME n = Len(order) + 1 PROVE FALSE
    <3>1. Len(order) < n
      BY <1>2, <2>1
    <3>2. SubSeq(order, n, Len(order)) = <<>>
      BY <1>2, <3>1, SubSeqEmpty
    <3> QED BY <1>1, <3>2
  <2> QED BY <1>2, <2>1
<1>4. Tail(SubSeq(order, n, Len(order))) = SubSeq(order, n + 1, Len(order))
  BY <1>3, HeadTailOfSubSeq
<1>5. todo' = SubSeq(order, n + 1, Len(order)) /\ n + 1 \in 1..Len(order) + 1
  BY <1>1, <1>2, <1>3, <1>4
<1> QED BY <1>5 DEF Remaining

(* The lists themselves, and the empty one. *)
LEMMA RemainingEnds ==
  ASSUME NEW order \in Seq(Calls), todo' = order \/ todo' = <<>>
  PROVE  Remaining(order)'
<1>1. Len(order) \in Nat
  OBVIOUS
<1>2. CASE todo' = order
  <2>1. todo' = SubSeq(order, 1, Len(order)) /\ 1 \in 1..Len(order) + 1
    BY <1>1, <1>2, SubSeqFull
  <2> QED BY <2>1 DEF Remaining
<1>3. CASE todo' = <<>>
  <2>1. SubSeq(order, Len(order) + 1, Len(order)) = <<>>
    BY <1>1, SubSeqEmpty
  <2>2. todo' = SubSeq(order, Len(order) + 1, Len(order)) /\ Len(order) + 1 \in 1..Len(order) + 1
    BY <1>1, <1>3, <2>1
  <2> QED BY <2>2 DEF Remaining
<1> QED BY <1>2, <1>3

(* Every step leaves the rest of one of the two lists. *)
LEMMA RemainingKeeps ==
  ASSUME Remaining(LoadOrder) \/ Remaining(UnloadOrder),
         \/ todo # <<>> /\ Succeed
         \/ todo' \in {todo, <<>>, LoadOrder, UnloadOrder}
  PROVE  (Remaining(LoadOrder) \/ Remaining(UnloadOrder))'
<1>1. LoadOrder \in Seq(Calls) /\ UnloadOrder \in Seq(Calls)
  BY Orders
<1>2. CASE todo # <<>> /\ Succeed
  BY <1>1, <1>2, RemainingNext DEF Succeed
<1>3. CASE todo' = todo
  BY <1>3 DEF Remaining
<1>4. CASE todo' = LoadOrder
  BY <1>1, <1>4, RemainingEnds
<1>5. CASE todo' = UnloadOrder
  BY <1>1, <1>5, RemainingEnds
<1>6. CASE todo' = <<>>
  BY <1>1, <1>6, RemainingEnds
<1> QED BY <1>2, <1>3, <1>4, <1>5, <1>6

(* How many calls DriverEntry has left at its k-th, and after it. *)
LEMMA LeftAt ==
  ASSUME LifeInv, NEW k \in 1..10, NEW left \in 0..9, left = 10 - k, Entering(LoadOrder[k])
  PROVE  /\ phase = "entering" /\ todo # <<>> /\ Len(todo) = left + 1
         /\ Succeed => phase' = "entering" /\ Len(todo') = left
<1>1. phase = "entering" /\ todo # <<>>
  BY DEF Entering
<1>2. PICK n \in 1..11 : Step(LoadOrder, n) /\ LoadedTo(n)
  BY <1>1 DEF LifeInv, EnteringInv
<1>3. n \in 1..10 /\ LoadOrder[n] = LoadOrder[k]
  BY <1>2, LoadCall
<1>4. n = k
  BY <1>3, LoadPlaces
<1>5. Len(LoadOrder) = 10
  BY Orders
<1>6. todo \in Seq(Calls) /\ Len(todo) = left + 1
  BY <1>2, <1>4, <1>5 DEF Step
<1>7. Len(Tail(todo)) = Len(todo) - 1
  BY <1>1, <1>6
<1> QED BY <1>1, <1>6, <1>7 DEF Succeed

(* A call of DriverEntry that fails. *)
LEMMA FailStale ==
  ASSUME Fail, stale' \subseteq Parts \ made'
  PROVE  StaleInv'
  BY DEF Fail, StaleInv

(* ot_init. *)
LEMMA otInitStale == ASSUME LifeInv, StaleInv, ot_init PROVE StaleInv'
<1>1. Entering(LoadOrder[1])
  BY LoadPlaces DEF ot_init
<1>2. phase = "entering" /\ Len(todo) = 10 /\ (Succeed => phase' = "entering" /\ Len(todo') = 9)
  BY <1>1, LeftAt
<1>3. "ot" \notin made /\ "listen" \notin made /\ "conn" \notin made /\ "adf" \notin made
      /\ stale = {}
  BY <1>2 DEF StaleInv
<1>4. CASE Succeed /\ made' = made \cup {"ot", "cte"} /\ UNCHANGED stale
  BY <1>2, <1>3, <1>4 DEF StaleInv
<1>5. CASE Fail /\ stale' \in {stale, stale \cup {"ot"}} /\ UNCHANGED made
  BY <1>3, <1>5, FailStale, PartsListed
<1> QED BY <1>4, <1>5 DEF ot_init

(* filter_init. *)
LEMMA filterInitStale == ASSUME LifeInv, StaleInv, filter_init PROVE StaleInv'
<1>1. Entering(LoadOrder[2])
  BY LoadPlaces DEF filter_init
<1>2. phase = "entering" /\ Len(todo) = 9 /\ (Succeed => phase' = "entering" /\ Len(todo') = 8)
  BY <1>1, LeftAt
<1>3. "listen" \notin made /\ "conn" \notin made /\ "adf" \notin made /\ stale = {}
      /\ UNCHANGED stale
  BY <1>2 DEF StaleInv, filter_init
<1>4. CASE Succeed /\ made' = made \cup {"notify", "rule", "queue"}
  <2>1. "listen" \notin made' /\ "conn" \notin made' /\ "adf" \notin made' /\ stale' = {}
    BY <1>3, <1>4
  <2> QED BY <1>2, <1>4, <2>1 DEF StaleInv
<1>5. CASE Fail
  BY <1>3, <1>5, FailStale
<1> QED BY <1>4, <1>5 DEF filter_init

(* conn_state_init. *)
LEMMA connStateInitStale == ASSUME LifeInv, StaleInv, conn_state_init PROVE StaleInv'
<1>1. Entering(LoadOrder[3])
  BY LoadPlaces DEF conn_state_init
<1>2. phase = "entering" /\ Len(todo) = 8 /\ (Succeed => phase' = "entering" /\ Len(todo') = 7)
  BY <1>1, LeftAt
<1>3. "listen" \notin made /\ "conn" \notin made /\ "adf" \notin made /\ stale = {}
  BY <1>2 DEF StaleInv
<1>4. CASE Succeed /\ made' = made \cup {"listen", "conn", "thread"} /\ UNCHANGED stale
  <2>1. "adf" \notin made' /\ stale' = {}
    BY <1>3, <1>4
  <2>2. phase' = "entering" /\ Len(todo') = 7
    BY <1>2, <1>4
  <2>3. ~(Len(todo') >= 8) /\ ~(Len(todo') >= 10)
    BY <2>2
  <2> QED BY <2>1, <2>2, <2>3 DEF StaleInv
<1>5. CASE Fail /\ UNCHANGED made
           /\ \E kept \in {{}, {"listen"}, {"listen", "conn"}} : stale' = stale \cup kept
  BY <1>3, <1>5, FailStale, PartsListed
<1> QED BY <1>4, <1>5 DEF conn_state_init

(* Setting the dispatch routines, and the control and information devices. *)
LEMMA MinorStale ==
  ASSUME LifeInv, StaleInv, SetDispatch \/ \E d \in Named : CreateNamed(d)
  PROVE  StaleInv'
<1>1. PICK k \in 4..6, left \in 4..6 : left = 10 - k /\ Entering(LoadOrder[k])
  BY LoadPlaces DEF SetDispatch, CreateNamed
<1>2. phase = "entering" /\ Len(todo) = left + 1
      /\ (Succeed => phase' = "entering" /\ Len(todo') = left)
  <2>1. k \in 1..10 /\ left \in 0..9
    OBVIOUS
  <2> QED BY <1>1, <2>1, LeftAt
<1>3. "adf" \notin made /\ stale = {}
  BY <1>2 DEF StaleInv
<1>4. UNCHANGED stale /\ (Succeed \/ Fail)
      /\ made' \subseteq made \cup {"control", "nfo", "control_link", "nfo_link"}
  BY PartsListed DEF SetDispatch, CreateNamed
<1>5. CASE Succeed
  BY <1>2, <1>3, <1>4, <1>5 DEF StaleInv
<1>6. CASE Fail
  BY <1>3, <1>4, <1>6, FailStale
<1> QED BY <1>4, <1>5, <1>6

(* tdifw_driver_entry. *)
LEMMA EntryStale == ASSUME LifeInv, StaleInv, tdifw_driver_entry PROVE StaleInv'
<1>1. Entering("tdifw_driver_entry") /\ Succeed
  BY DEF tdifw_driver_entry
<1>2. Entering(LoadOrder[7])
  BY <1>1, LoadPlaces
<1>3. phase = "entering" /\ Len(todo) = 4 /\ phase' = "entering" /\ Len(todo') = 3
  BY <1>1, <1>2, LeftAt
<1>4. "adf" \notin made /\ stale = {}
  BY <1>3 DEF StaleInv
<1>5. \/ stale' = {}
      \/ stale' \subseteq {"adf"} /\ "adf" \notin made'
  BY <1>4 DEF tdifw_driver_entry
<1> QED BY <1>3, <1>5, PartsListed DEF StaleInv

(* Attaching a filter device. *)
LEMMA AttachStale == ASSUME LifeInv, StaleInv, NEW p, c_n_a_device(p) PROVE StaleInv'
<1>1. Entering(p) /\ p \in {"tcp", "udp", "ip"} /\ UNCHANGED stale
  BY PartsListed DEF c_n_a_device
<1>2. PICK k \in 8..10, left \in 0..2 : left = 10 - k /\ Entering(LoadOrder[k])
  BY <1>1, LoadPlaces
<1>3. phase = "entering" /\ (Succeed => phase' = "entering" /\ Len(todo') = left)
  <2>1. k \in 1..10 /\ left \in 0..9
    OBVIOUS
  <2> QED BY <1>2, <2>1, LeftAt
<1>4. stale \subseteq {"adf"} /\ stale \subseteq Parts \ made
  BY <1>3 DEF StaleInv
<1>5. made' \subseteq made \cup {p} /\ (Succeed \/ Fail)
  BY DEF c_n_a_device
<1>6. stale' \subseteq Parts \ made' /\ stale' \subseteq {"adf"}
  BY <1>1, <1>4, <1>5
<1>7. CASE Succeed
  BY <1>3, <1>6, <1>7 DEF StaleInv
<1>8. CASE Fail
  BY <1>6, <1>8, FailStale
<1> QED BY <1>5, <1>7, <1>8

(* Before, after and in between. *)
LEMMA BetweenStale ==
  ASSUME LifeInv, StaleInv,
         Load \/ EntryDone \/ Unload \/ UnloadDone \/ \E d \in Named : OpenNamed(d) \/ CloseNamed(d)
  PROVE  StaleInv'
<1>1. CASE Load
  <2>1. phase = "out" /\ phase' = "entering" /\ UNCHANGED <<made, stale>>
    BY <1>1 DEF Load
  <2>2. stale = {} /\ made \subseteq {"cfg_file"}
    BY <2>1 DEF StaleInv, LifeInv, OutInv
  <2> QED BY <2>1, <2>2 DEF StaleInv
<1>2. CASE EntryDone \/ Unload \/ UnloadDone
  BY <1>2 DEF EntryDone, Unload, UnloadDone, StaleInv
<1>3. ASSUME NEW d \in Named, OpenNamed(d) \/ CloseNamed(d) PROVE StaleInv'
  <2>1. phase = "up" /\ phase' = "up" /\ UNCHANGED stale
        /\ made' \subseteq made \cup {"request_event"}
    BY <1>3 DEF OpenNamed, CloseNamed
  <2> QED BY <2>1 DEF StaleInv
<1> QED BY <1>1, <1>2, <1>3

(* OnUnload only frees. *)
LEMMA FreesStale ==
  ASSUME StaleInv, NEW call, NEW needs, NEW frees, Frees(call, needs, frees)
  PROVE  StaleInv'
<1>1. phase = "leaving" /\ UNCHANGED stale /\ made' \subseteq made
      /\ phase' \in {"leaving", "crashed"}
  BY DEF Frees, Leaving, Succeed, Crash
<1> QED BY <1>1 DEF StaleInv

(* Every step of the driver's life keeps the stale pointers typed. *)
LEMMA StaleStep == ASSUME LifeInv, StaleInv, LifeMove PROVE StaleInv'
<1>1. CASE ot_init \/ filter_init \/ conn_state_init \/ tdifw_driver_entry
  BY <1>1, otInitStale, filterInitStale, connStateInitStale, EntryStale
<1>2. CASE SetDispatch \/ \E d \in Named : CreateNamed(d)
  BY <1>2, MinorStale
<1>3. ASSUME NEW p \in Protos, c_n_a_device(p) PROVE StaleInv'
  BY <1>3, AttachStale
<1>4. CASE Load \/ EntryDone \/ Unload \/ UnloadDone \/ \E d \in Named : OpenNamed(d) \/ CloseNamed(d)
  BY <1>4, BetweenStale
<1>5. CASE tdifw_driver_unload \/ filter_free \/ ot_free \/ conn_state_free
  BY <1>5, FreesStale DEF tdifw_driver_unload, filter_free, ot_free, conn_state_free
<1>6. ASSUME NEW d \in Named, DeleteNamed(d) PROVE StaleInv'
  BY <1>6, FreesStale DEF DeleteNamed
<1>7. ASSUME NEW p \in Protos, d_n_d_device(p) PROVE StaleInv'
  BY <1>7, FreesStale DEF d_n_d_device
<1>8. CASE Restart({}) \/ (phase = "gone" /\ Restart(made))
  BY <1>8 DEF Restart, StaleInv
<1>9. CASE (phase = "gone" /\ Crash) \/ UNCHANGED lifeVars
  BY <1>9 DEF Crash, lifeVars, StaleInv
<1> QED BY <1>1, <1>2, <1>3, <1>4, <1>5, <1>6, <1>7, <1>8, <1>9 DEF LifeMove, LifeNext

(* What a step does to the calls still to come. *)
LEMMA CallsMove ==
  ASSUME LifeMove
  PROVE  \/ todo # <<>> /\ Succeed
         \/ todo' \in {todo, <<>>, LoadOrder, UnloadOrder}
<1>1. CASE ot_init \/ filter_init \/ conn_state_init \/ SetDispatch \/ tdifw_driver_entry
  BY <1>1 DEF ot_init, filter_init, conn_state_init, SetDispatch, tdifw_driver_entry, Entering, Fail
<1>2. CASE \E d \in Named : CreateNamed(d)
  BY <1>2 DEF CreateNamed, Entering, Fail
<1>3. CASE \E p \in Protos : c_n_a_device(p)
  BY <1>3 DEF c_n_a_device, Entering, Fail
<1>4. CASE Load \/ EntryDone \/ Unload \/ UnloadDone \/ \E d \in Named : OpenNamed(d) \/ CloseNamed(d)
  BY <1>4 DEF Load, EntryDone, Unload, UnloadDone, OpenNamed, CloseNamed
<1>5. ASSUME NEW call, NEW needs, NEW frees, Frees(call, needs, frees)
      PROVE  \/ todo # <<>> /\ Succeed
             \/ todo' = todo
  BY <1>5 DEF Frees, Leaving, Crash
<1>6. CASE tdifw_driver_unload \/ filter_free \/ ot_free \/ conn_state_free
  BY <1>5, <1>6 DEF tdifw_driver_unload, filter_free, ot_free, conn_state_free
<1>7. CASE \E d \in Named : DeleteNamed(d)
  BY <1>5, <1>7 DEF DeleteNamed
<1>8. CASE \E p \in Protos : d_n_d_device(p)
  BY <1>5, <1>8 DEF d_n_d_device
<1>9. CASE Restart({}) \/ (phase = "gone" /\ Restart(made))
  BY <1>9 DEF Restart
<1>10. CASE (phase = "gone" /\ Crash) \/ UNCHANGED lifeVars
  BY <1>10 DEF Crash, lifeVars
<1> QED BY <1>1, <1>2, <1>3, <1>4, <1>6, <1>7, <1>8, <1>9, <1>10 DEF LifeMove, LifeNext

(* The remaining variables. *)
LEMMA RestStep == ASSUME RestInv, LifeMove PROVE RestInv'
<1>1. CASE ot_init \/ filter_init \/ conn_state_init \/ SetDispatch \/ tdifw_driver_entry
  BY <1>1 DEF ot_init, filter_init, conn_state_init, SetDispatch, tdifw_driver_entry, RestInv
<1>2. CASE \E d \in Named : CreateNamed(d)
  BY <1>2 DEF CreateNamed, RestInv
<1>3. ASSUME NEW p \in Protos, c_n_a_device(p) PROVE RestInv'
  BY <1>3 DEF c_n_a_device, RestInv
<1>4. CASE Load \/ EntryDone \/ Unload \/ UnloadDone \/ \E d \in Named : OpenNamed(d) \/ CloseNamed(d)
  BY <1>4 DEF Load, EntryDone, Unload, UnloadDone, OpenNamed, CloseNamed, RestInv
<1>5. ASSUME NEW call, NEW needs, NEW frees, Frees(call, needs, frees),
             MajorFunction' \in {"default", "ours", "tcpip"}
      PROVE  RestInv'
  BY <1>5 DEF Frees, Crash, RestInv
<1>6. CASE tdifw_driver_unload \/ filter_free \/ ot_free \/ conn_state_free
  BY <1>5, <1>6 DEF tdifw_driver_unload, filter_free, ot_free, conn_state_free, RestInv
<1>7. CASE \E d \in Named : DeleteNamed(d)
  BY <1>5, <1>7 DEF DeleteNamed, RestInv
<1>8. CASE \E p \in Protos : d_n_d_device(p)
  BY <1>5, <1>8 DEF d_n_d_device, RestInv
<1>9. CASE Restart({}) \/ (phase = "gone" /\ Restart(made))
  BY <1>9 DEF Restart, RestInv
<1>10. CASE (phase = "gone" /\ Crash) \/ UNCHANGED lifeVars
  BY <1>10 DEF Crash, lifeVars, RestInv
<1> QED BY <1>1, <1>2, <1>3, <1>4, <1>6, <1>7, <1>8, <1>9, <1>10 DEF LifeMove, LifeNext

(* Together. *)
LEMMA TypeStep == ASSUME LifeInv, TypeInv, LifeMove PROVE TypeInv'
  BY StaleStep, CallsMove, RemainingKeeps, RestStep DEF TypeInv

(* The types hold before the driver is loaded. *)
LEMMA TypeInitially == ASSUME LifeInit PROVE TypeInv
<1>1. Len(UnloadOrder) = 9 /\ UnloadOrder \in Seq(Calls)
  BY Orders
<1>2. SubSeq(UnloadOrder, 10, 9) = <<>>
  BY SubSeqEmpty
<1>3. Remaining(UnloadOrder)
  BY <1>1, <1>2 DEF Remaining, LifeInit
<1> QED BY <1>3 DEF TypeInv, LifeInit, StaleInv, RestInv

(* What the invariants say of the types. *)
LEMMA TypeInvImplies == ASSUME LifeInv, TypeInv PROVE LifeTypeOK
  BY DEF LifeInv, TypeInv, Remaining, StaleInv, RestInv, LifeTypeOK

-----------------------------------------------------------------------------
(* The whole.  A step of the driver is one of its life, and one of each    *)
(* component or none; the requests and the connections also end with the   *)
(* machine.                                                                *)
LEMMA DriverLives == DNext => LifeMove
<1> SUFFICES ASSUME DNext PROVE LifeMove
  OBVIOUS
<1>1. CASE LifeAlone
  BY <1>1, PartsListed DEF LifeAlone, LifeMove, LifeNext
<1>2. CASE AttachTcp \/ DetachTcp
  BY <1>2, PartsListed DEF AttachTcp, DetachTcp, LifeMove, LifeNext
<1>3. CASE FreeObjects \/ Enter \/ Leave
  BY <1>3 DEF FreeObjects, Enter, Leave, LifeMove, LifeNext
<1>4. CASE LateCall \/ Again \/ Reboot
  BY <1>4 DEF LateCall, Again, Reboot, LifeMove, LifeNext
<1>5. CASE RequestStep \/ ConnectionStep
  BY <1>5 DEF RequestStep, ConnectionStep, LifeMove
<1>6. CASE ApplicationStep
  <2>1. AdfHandles
    BY <1>6 DEF ApplicationStep
  <2>2. OpenNamed("adf") \/ CloseNamed("adf") \/ UNCHANGED lifeVars
    BY <2>1 DEF AdfHandles
  <2> QED BY <2>2 DEF LifeMove, LifeNext, Named
<1> QED BY <1>1, <1>2, <1>3, <1>4, <1>5, <1>6 DEF DNext

(* Every step of the driver is one of HostSync or leaves its lists alone. *)
LEMMA DriverSyncs == DNext => [SyncNext]_syncVars
<1> SUFFICES ASSUME DNext PROVE [SyncNext]_syncVars
  OBVIOUS
<1>1. CASE LifeAlone \/ AttachTcp \/ DetachTcp \/ FreeObjects \/ LateCall \/ Again
  BY <1>1 DEF LifeAlone, AttachTcp, DetachTcp, FreeObjects, LateCall, Again
<1>2. CASE Enter \/ Leave \/ Reboot
  BY <1>2 DEF Enter, Leave, Reboot, SyncNext
<1>3. CASE RequestStep \/ ConnectionStep
  BY <1>3 DEF RequestStep, ConnectionStep
<1>4. CASE ApplicationStep
  BY <1>4 DEF ApplicationStep, SyncNext
<1> QED BY <1>1, <1>2, <1>3, <1>4 DEF DNext

(* Every step is one of Dispatch, leaves its requests alone, or restarts   *)
(* the machine.                                                            *)
LEMMA DriverDispatches ==
  DNext => [DispatchNext]_dispatchVars \/ DispatchInit'
<1> SUFFICES ASSUME DNext PROVE [DispatchNext]_dispatchVars \/ DispatchInit'
  OBVIOUS
<1>1. CASE LifeAlone \/ AttachTcp \/ DetachTcp \/ FreeObjects \/ LateCall \/ Again \/ Enter \/ Leave
  BY <1>1 DEF LifeAlone, AttachTcp, DetachTcp, FreeObjects, LateCall, Again, Enter, Leave
<1>2. CASE Reboot
  BY <1>2 DEF Reboot, DispatchInit
<1>3. CASE RequestStep
  BY <1>3 DEF RequestStep, DispatchNext
<1>4. CASE ConnectionStep \/ ApplicationStep
  BY <1>4 DEF ConnectionStep, ApplicationStep
<1> QED BY <1>1, <1>2, <1>3, <1>4 DEF DNext

(* The same for the connections. *)
LEMMA DriverConnects == DNext => [CtxNext]_ctxVars \/ CtxInit'
<1> SUFFICES ASSUME DNext PROVE [CtxNext]_ctxVars \/ CtxInit'
  OBVIOUS
<1>1. CASE LifeAlone \/ LateCall \/ Again \/ Enter \/ Leave \/ RequestStep \/ ApplicationStep
  BY <1>1 DEF LifeAlone, LateCall, Again, Enter, Leave, RequestStep, ApplicationStep
<1>2. CASE AttachTcp \/ DetachTcp \/ FreeObjects
  BY <1>2 DEF AttachTcp, DetachTcp, FreeObjects, CtxNext
<1>3. CASE Reboot
  BY <1>3 DEF Reboot, CtxInit
<1>4. CASE ConnectionStep
  BY <1>4 DEF ConnectionStep, CtxNext
<1> QED BY <1>1, <1>2, <1>3, <1>4 DEF DNext

(* The invariant of the composition. *)
DInv == LifeInv /\ TypeInv /\ DispatchInv /\ CtxInv /\ SyncInv

(* The invariant of the composition holds initially. *)
LEMMA DriverInitially == DInit => DInv
  BY LifeInitially, TypeInitially, DispatchInitially, CtxInitially, Initially DEF DInit, DInv

(* Every step keeps it. *)
LEMMA DriverStep == DInv /\ [DNext]_driverVars => DInv'
<1> SUFFICES ASSUME DInv, [DNext]_driverVars PROVE DInv'
  OBVIOUS
<1>1. CASE DNext
  <2>1. LifeInv' /\ TypeInv'
    BY <1>1, DriverLives, LifeStep, TypeStep DEF DInv
  <2>2. SyncInv'
    BY <1>1, DriverSyncs, SyncStep DEF DInv
  <2>3. DispatchInit' => DispatchInv'
    BY IdleSound DEF DispatchInit, DispatchInv
  <2>4. DispatchInv'
    BY <1>1, <2>3, DriverDispatches, DispatchStep DEF DInv
  <2>5. CtxInit' => CtxInv'
    BY CtxInitially, PTL
  <2>6. CtxInv'
    BY <1>1, <2>5, DriverConnects, CtxStep DEF DInv
  <2> QED BY <2>1, <2>2, <2>4, <2>6 DEF DInv
<1>2. CASE UNCHANGED driverVars
  <2>1. UNCHANGED lifeVars /\ UNCHANGED dispatchVars /\ UNCHANGED ctxVars /\ UNCHANGED syncVars
    BY <1>2 DEF driverVars
  <2> QED BY <2>1, LifeStep, TypeStep, DispatchStep, CtxStep, SyncStep DEF LifeMove, DInv
<1> QED BY <1>1, <1>2

(* Every variable keeps its type; what OnUnload and DriverEntry still have *)
(* to call is the rest of their own lists, and a pointer is stale only to  *)
(* what is not there (tdi_fw.c:113-322, driver.c:12-100).                  *)
THEOREM DriverTypeCorrect == DSpec => []DTypeOK
<1>1. DInv => DTypeOK
  BY TypeInvImplies, DispatchInvImplies, CtxInvImplies DEF DInv, SyncInv, DTypeOK
<1> QED BY DriverInitially, DriverStep, <1>1, PTL DEF DSpec

(* No request and no event finds a part of the driver missing that it      *)
(* uses, however DriverEntry fails and however often the driver is loaded  *)
(* (tdi_fw.c:113-274, 281-322).                                            *)
THEOREM HandlersFindAll == DSpec => []HandlersReady
<1>1. DInv => HandlersReady
  BY LifeInvImplies DEF DInv
<1> QED BY DriverInitially, DriverStep, <1>1, PTL DEF DSpec

(* OnUnload finds all it frees, if tdifw_driver_entry had succeeded        *)
(* (tdi_fw.c:281-322, driver.c:91-100).                                    *)
THEOREM UnloadFindsAll == DSpec => []UnloadTouchesLive
<1>1. DInv => UnloadTouchesLive
  BY LifeInvImplies DEF DInv
<1> QED BY DriverInitially, DriverStep, <1>1, PTL DEF DSpec

(* OnUnload leaves nothing but perhaps an open file (tdi_fw.c:281-322).    *)
THEOREM UnloadLeavesNothing == DSpec => []NothingLeft
<1>1. DInv => NothingLeft
  BY LifeInvImplies DEF DInv
<1> QED BY DriverInitially, DriverStep, <1>1, PTL DEF DSpec

(* The clients are told, and no duty remains, while the driver comes and   *)
(* goes (tdi_fw.c:683-917).                                                *)
THEOREM DriverTellsClients == DSpec => [](ClientTold /\ DutiesDone)
<1>1. DInv => ClientTold /\ DutiesDone
  BY DispatchInvImplies DEF DInv
<1> QED BY DriverInitially, DriverStep, <1>1, PTL DEF DSpec

(* Connections are found, events find their own, and an established one    *)
(* has the address of its address object, or none after a failed query,    *)
(* whenever the driver is attached, with the exceptions that the three     *)
(* properties name (tdi_fw.c:281-322, disp_obj.c:357-460,                  *)
(* disp_conn.c:55-414, ev_conn.c:60-311).                                  *)
THEOREM DriverFindsConnections == DSpec => [](LinkTruth /\ EventHitsOwn /\ RecordedAddress)
<1>1. DInv => LinkTruth /\ EventHitsOwn /\ RecordedAddress
  BY CtxInvImplies DEF DInv
<1> QED BY DriverInitially, DriverStep, <1>1, PTL DEF DSpec

(* In the driver as a whole the lists of hosts behave as HostSync says.    *)
THEOREM DriverImplementsSync == DSpec => SyncSpec
<1>1. DInit => SyncInit
  BY DEF DInit
<1>2. [DNext]_driverVars => [SyncNext]_syncVars
  BY DriverSyncs DEF driverVars
<1> QED BY <1>1, <1>2, PTL DEF DSpec, SyncSpec

(* The lists agree as well when the driver is loaded, unloaded and started *)
(* anew (HostViewModel.cs:37-142, adfilter.c:67-116).                      *)
THEOREM DriverListsAgree == DSpec => []ListsAgree
  BY DriverImplementsSync, ListsKeepAgreeing
=============================================================================

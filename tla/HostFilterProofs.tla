-------------------------- MODULE HostFilterProofs --------------------------
(***************************************************************************)
(* Proofs about HostFilter: its type invariant, VerdictJustified and       *)
(* EntriesOutliveWalks, for any patterns, names, matching relation and     *)
(* list lengths.                                                           *)
(***************************************************************************)
EXTENDS HostFilter, TLAPS

InFlight == {"pause", "filter", "walk", "done"}

(* The history variables hold what the datagram in flight can see now.     *)
Seen == pc # "idle" => paused \in pauses /\ Policy(lists, send.name) \in moments

(* Under g_ot_hash_guard the switch g_need_check is the one this datagram  *)
(* set, if it is a UDP datagram.                                           *)
Gate == pc # "idle" =>
  /\ send.dns => send.udp
  /\ send.udp => g_need_check = send.dns

(* Only what is checked, and was not paused when it was looked at, is      *)
(* searched for.                                                           *)
Searched == pc \in {"filter", "walk"} => g_need_check /\ FALSE \in pauses

NoHit(list, name) == \A i \in DOMAIN list : <<list[i], name>> \notin Matches

(* What the walk has passed does not match: the lists before the current   *)
(* one, and the entries behind the cursor.                                 *)
Passed == pc = "walk" =>
  /\ cursor.list # "excpt" => NoHit(lists["excpt"], send.name)
  /\ cursor.list = "sys" => NoHit(lists["user"], send.name)
  /\ \A i \in DOMAIN lists[cursor.list] :
       i > cursor.at => <<lists[cursor.list][i], send.name>> \notin Matches

(* While the control device exists the cursor is on an entry or before it. *)
InRange == pc = "walk" /\ phase = "up" => cursor.at <= Len(lists[cursor.list])

IInv ==
  /\ TypeOK /\ Seen /\ Gate /\ Searched /\ Passed /\ InRange
  /\ VerdictJustified /\ EntriesOutliveWalks

-----------------------------------------------------------------------------
(* Sequences. *)

(* A list with one more entry is a list. *)
LEMMA AppendTyped ==
  ASSUME NEW S, NEW s \in Seq(S), NEW e \in S
  PROVE  Append(s, e) \in Seq(S)
  OBVIOUS

(* A list with one entry less is a list. *)
LEMMA RemoveAtTyped ==
  ASSUME NEW S, NEW s \in Seq(S), NEW i \in DOMAIN s
  PROVE  RemoveAt(s, i) \in Seq(S)
  <1>1. i \in 1 .. Len(s)
    OBVIOUS
  <1>2. SubSeq(s, 1, i - 1) \in Seq(S)
    BY <1>1
  <1>3. SubSeq(s, i + 1, Len(s)) \in Seq(S)
    BY <1>1
  <1> QED
    BY <1>2, <1>3 DEF RemoveAt

(* Taking the tail entry off leaves the others in place.                   *)
LEMMA FrontKeeps ==
  ASSUME NEW S, NEW s \in Seq(S), s # <<>>
  PROVE  /\ Front(s) \in Seq(S)
         /\ Len(Front(s)) = Len(s) - 1
         /\ \A i \in DOMAIN Front(s) : i \in DOMAIN s /\ Front(s)[i] = s[i]
  <1>1. Len(s) \in Nat /\ Len(s) > 0
    OBVIOUS
  <1>2. Front(s) \in Seq(S) /\ Len(Front(s)) = Len(s) - 1
    <2>1. Front(s) \in Seq(S)
      BY <1>1 DEF Front
    <2>2. Front(s) = [i \in 1 .. Len(s) - 1 |-> s[i]]
      BY <1>1 DEF Front
    <2>3. Len(Front(s)) = Len(s) - 1
      BY <1>1, <2>2
    <2> QED
      BY <2>1, <2>3
  <1>3. ASSUME NEW i \in DOMAIN Front(s)
        PROVE  i \in DOMAIN s /\ Front(s)[i] = s[i]
    <2>1. i \in 1 .. Len(s) - 1
      BY <1>2, <1>3
    <2> QED
      BY <1>1, <2>1 DEF Front
  <1> QED
    BY <1>2, <1>3

(* A bounded list is a list. *)
LEMMA BoundedTyped ==
  ASSUME NEW S, NEW s \in BoundedSeq(S, MaxLen)
  PROVE  s \in Seq(S)
  <1>1. PICK m \in 0 .. MaxLen : s \in [1 .. m -> S]
    BY DEF BoundedSeq, SeqOf
  <1>2. m \in Nat
    BY <1>1, ConstantsAssumption
  <1> QED
    BY <1>1, <1>2

(* What the lists say, from what was found and not found.                  *)
LEMMA PolicyAllows ==
  ASSUME NEW L, NEW n,
         Hit(L["excpt"], n) \/ (NoHit(L["user"], n) /\ NoHit(L["sys"], n))
  PROVE  Policy(L, n) = "FILTER_ALLOW"
  BY DEF Policy, Hit, NoHit

(* A host that only the user's or the system's list names is denied. *)
LEMMA PolicyDenies ==
  ASSUME NEW L, NEW n,
         NoHit(L["excpt"], n), Hit(L["user"], n) \/ Hit(L["sys"], n)
  PROVE  Policy(L, n) = "FILTER_DENY"
  BY DEF Policy, Hit, NoHit

(* The policy is a verdict. *)
LEMMA PolicyTyped ==
  ASSUME NEW L, NEW n
  PROVE  Policy(L, n) \in Verdicts
  BY DEF Policy, Verdicts

-----------------------------------------------------------------------------
(* The initial states: any lists, and no datagram. *)
LEMMA InitIInv == Init => IInv
  <1> SUFFICES ASSUME Init PROVE IInv
    OBVIOUS
  <1>1. lists \in [ListNames -> Seq(Patterns)]
    BY BoundedTyped DEF Init
  <1>2. TypeOK
    BY <1>1 DEF Init, TypeOK, ListNames, Verdicts
  <1> QED
    BY <1>2 DEF Init, IInv, Seen, Gate, Searched, Passed, InRange, VerdictJustified,
                EntriesOutliveWalks

-----------------------------------------------------------------------------
(* A configuration change seen by the datagram in flight, outside a walk.  *)
LEMMA ChangeSeen ==
  ASSUME IInv, Witnessed, pc # "walk",
         paused' \in BOOLEAN, lists' \in [ListNames -> Seq(Patterns)],
         UNCHANGED <<g_need_check, sendVars, phase, walked_freed>>
  PROVE  IInv'
  <1>1. TypeOK'
    <2>1. pauses' \subseteq BOOLEAN
      BY DEF IInv, TypeOK, Witnessed
    <2>2. moments' \subseteq Verdicts
      BY PolicyTyped DEF IInv, TypeOK, Witnessed
    <2>3. phase' = phase /\ walked_freed' = walked_freed /\ g_need_check' = g_need_check
          /\ pc' = pc /\ send' = send /\ cursor' = cursor /\ result' = result
      BY DEF sendVars
    <2> QED
      BY <2>1, <2>2, <2>3 DEF IInv, TypeOK
  <1>2. pauses \subseteq pauses' /\ moments \subseteq moments'
    BY DEF Witnessed
  <1>3. Seen'
    BY DEF Witnessed, Seen, sendVars
  <1>4. Gate' /\ Searched' /\ Passed'
    BY <1>2 DEF IInv, Gate, Searched, Passed, sendVars
  <1>5. VerdictJustified'
    BY <1>2 DEF IInv, VerdictJustified, sendVars
  <1>6. InRange' /\ EntriesOutliveWalks'
    BY DEF IInv, InRange, EntriesOutliveWalks, sendVars
  <1> QED
    BY <1>1, <1>3, <1>4, <1>5, <1>6 DEF IInv

(* The pause switch: the new setting is seen by the send under way. *)
LEMMA StepSetPause ==
  ASSUME IInv, NEW p \in BOOLEAN, ioctl_set_pause(p)
  PROVE  IInv'
  <1>1. paused' \in BOOLEAN /\ lists' \in [ListNames -> Seq(Patterns)]
    BY DEF ioctl_set_pause, IInv, TypeOK
  <1> QED
    BY <1>1, ChangeSeen DEF ioctl_set_pause, Controlled, Unlocked

(* An added host: the new lists are seen by the send under way. *)
LEMMA StepAddHost ==
  ASSUME IInv, NEW l \in ListNames, NEW p \in Patterns, ioctl_add_host(l, p)
  PROVE  IInv'
  <1>1. lists[l] \in Seq(Patterns)
    BY DEF IInv, TypeOK
  <1>2. paused' \in BOOLEAN /\ lists' \in [ListNames -> Seq(Patterns)]
    BY <1>1, AppendTyped DEF ioctl_add_host, IInv, TypeOK
  <1> QED
    BY <1>2, ChangeSeen DEF ioctl_add_host, Controlled, Unlocked

(* A deleted host: no walk is under way, or the ioctl would wait. *)
LEMMA StepDelHost ==
  ASSUME IInv, NEW l \in ListNames, NEW p \in Patterns, ioctl_del_host(l, p)
  PROVE  IInv'
  <1>1. lists[l] \in Seq(Patterns)
    BY DEF IInv, TypeOK
  <1>2. PICK i \in DOMAIN lists[l] : lists' = [lists EXCEPT ![l] = RemoveAt(lists[l], i)]
    BY DEF ioctl_del_host
  <1>3. paused' \in BOOLEAN /\ lists' \in [ListNames -> Seq(Patterns)]
    BY <1>1, <1>2, RemoveAtTyped DEF ioctl_del_host, IInv, TypeOK
  <1> QED
    BY <1>3, ChangeSeen DEF ioctl_del_host, Controlled, Unlocked

(* unload_cfg may run during a walk: what did not match still does not.    *)
LEMMA StepUnload ==
  ASSUME IInv, NEW l \in ListNames, unload_cfg(l)
  PROVE  IInv'
  <1>1. lists[l] \in Seq(Patterns) /\ lists[l] # <<>>
    BY DEF IInv, TypeOK, unload_cfg, Cleared
  <1>2. lists' = [lists EXCEPT ![l] = Front(lists[l])]
    BY DEF unload_cfg
  <1>3. lists' \in [ListNames -> Seq(Patterns)] /\ paused' \in BOOLEAN
    BY <1>1, <1>2, FrontKeeps DEF IInv, TypeOK, unload_cfg
  <1>4. \A k \in ListNames : \A i \in DOMAIN lists'[k] :
          i \in DOMAIN lists[k] /\ lists'[k][i] = lists[k][i]
    BY <1>1, <1>2, FrontKeeps DEF IInv, TypeOK
  <1>5. UNCHANGED <<g_need_check, sendVars, phase, walked_freed>> /\ Witnessed
    BY DEF unload_cfg
  <1>6. CASE pc # "walk"
    BY <1>3, <1>5, <1>6, ChangeSeen
  <1>7. CASE pc = "walk"
    <2>1. pc' = "walk" /\ cursor' = cursor /\ send' = send /\ result' = result
          /\ g_need_check' = g_need_check
      BY <1>5, <1>7 DEF sendVars
    <2>2. cursor.list \in ListNames
      BY DEF IInv, TypeOK
    <2>3. Passed'
      BY <1>4, <1>7, <2>1, <2>2 DEF IInv, Passed, NoHit, ListNames
    <2>4. TypeOK'
      <3>1. pauses' \subseteq BOOLEAN
        BY <1>5, <1>3 DEF IInv, TypeOK, Witnessed
      <3>2. moments' \subseteq Verdicts
        BY <1>5, PolicyTyped DEF IInv, TypeOK, Witnessed
      <3> QED
        BY <1>3, <1>5, <2>1, <3>1, <3>2 DEF IInv, TypeOK
    <2>5. Seen'
      BY <1>5, <2>1, <1>7 DEF Witnessed, Seen
    <2>6. pauses \subseteq pauses'
      BY <1>5 DEF Witnessed
    <2>7. Gate' /\ Searched'
      BY <1>7, <2>1, <2>6 DEF IInv, Gate, Searched
    <2>8. VerdictJustified'
      BY <2>1 DEF VerdictJustified
    <2>9. InRange' /\ EntriesOutliveWalks'
      BY <1>5 DEF InRange, EntriesOutliveWalks, unload_cfg
    <2> QED
      BY <2>3, <2>4, <2>5, <2>7, <2>8, <2>9 DEF IInv
  <1> QED
    BY <1>6, <1>7

(* A send begins, and its history with it. *)
LEMMA StepSend ==
  ASSUME IInv, NEW s \in Sends, tdi_send_datagram(s)
  PROVE  IInv'
  <1>1. TypeOK'
    BY PolicyTyped DEF IInv, TypeOK, tdi_send_datagram, Sends, cfgVars
  <1>2. Seen'
    BY DEF Seen, tdi_send_datagram, cfgVars
  <1>3. Gate'
    BY DEF Gate, tdi_send_datagram, Sends
  <1> QED
    BY <1>1, <1>2, <1>3 DEF IInv, Searched, Passed, InRange, VerdictJustified,
                            EntriesOutliveWalks, tdi_send_datagram

(* The look at the switch, under Adf.lock. *)
LEMMA StepUdpSend ==
  ASSUME IInv, tdifw_udp_send
  PROVE  IInv'
  <1>1. TypeOK'
    BY DEF IInv, TypeOK, tdifw_udp_send, cfgVars, histVars, Verdicts
  <1>2. Seen' /\ Gate'
    BY DEF IInv, Seen, Gate, tdifw_udp_send, cfgVars, histVars
  <1>5. InRange' /\ EntriesOutliveWalks'
    BY DEF IInv, InRange, EntriesOutliveWalks, tdifw_udp_send
  <1>3. CASE ~g_need_check \/ paused
    <2>1. VerdictJustified'
      BY <1>3 DEF IInv, TypeOK, Seen, Gate, VerdictJustified, tdifw_udp_send, cfgVars, histVars
    <2> QED
      BY <1>1, <1>2, <1>3, <1>5, <2>1 DEF IInv, Searched, Passed, tdifw_udp_send
  <1>4. CASE ~(~g_need_check \/ paused)
    <2>1. pc' = "filter" /\ g_need_check' /\ FALSE \in pauses'
      BY <1>4 DEF IInv, TypeOK, Seen, tdifw_udp_send, cfgVars, histVars
    <2> QED
      BY <1>1, <1>2, <1>5, <2>1 DEF IInv, Searched, Passed, VerdictJustified
  <1> QED
    BY <1>3, <1>4

(* The walk begins: the lock is taken again and the gate read. *)
LEMMA StepFilter ==
  ASSUME IInv, filter
  PROVE  IInv'
  <1>1. lists["excpt"] \in Seq(Patterns)
    BY DEF IInv, TypeOK, ListNames
  <1>2. TypeOK'
    BY <1>1 DEF IInv, TypeOK, filter, cfgVars, histVars, ListNames
  <1>3. Passed'
    BY <1>1 DEF Passed, filter, cfgVars
  <1>4. InRange' /\ EntriesOutliveWalks'
    BY <1>1 DEF IInv, InRange, EntriesOutliveWalks, filter, cfgVars
  <1> QED
    BY <1>2, <1>3, <1>4 DEF IInv, Seen, Gate, Searched, VerdictJustified, filter, cfgVars,
                            histVars

-----------------------------------------------------------------------------
(* The verdict of a finished walk is what the lists say at its last step.  *)
LEMMA Judged ==
  ASSUME IInv, pc = "walk", pc' = "done", result' = Policy(lists, send.name),
         TypeOK', UNCHANGED <<cfgVars, g_need_check, send, phase, walked_freed, histVars>>
  PROVE  IInv'
  <1>1. send' = send /\ lists' = lists /\ paused' = paused /\ g_need_check' = g_need_check
        /\ pauses' = pauses /\ moments' = moments
    BY DEF cfgVars, histVars
  <1>2. Seen' /\ Gate' /\ Searched' /\ Passed'
    BY <1>1 DEF IInv, Seen, Gate, Searched, Passed
  <1>3. FALSE \in pauses /\ Policy(lists, send.name) \in moments /\ g_need_check
    BY DEF IInv, Seen, Searched
  <1>4. send.udp => send.dns
    BY <1>3 DEF IInv, Gate
  <1>5. VerdictJustified'
    BY <1>1, <1>3, <1>4 DEF VerdictJustified
  <1>6. InRange' /\ EntriesOutliveWalks'
    BY DEF IInv, InRange, EntriesOutliveWalks
  <1> QED
    BY <1>2, <1>5, <1>6 DEF IInv

(* A round that goes on walking moves the cursor only.                     *)
LEMMA WalksOn ==
  ASSUME IInv, pc = "walk", cursor' \in [list : ListNames, at : Nat],
         walked_freed' \in BOOLEAN,
         UNCHANGED <<cfgVars, g_need_check, pc, send, result, phase, histVars>>
  PROVE  TypeOK' /\ Seen' /\ Gate' /\ Searched' /\ VerdictJustified'
  <1>1. send' = send /\ lists' = lists /\ paused' = paused /\ g_need_check' = g_need_check
        /\ pauses' = pauses /\ moments' = moments /\ phase' = phase
        /\ pc' = pc
    BY DEF cfgVars, histVars
  <1>2. TypeOK'
    BY <1>1 DEF IInv, TypeOK
  <1>3. Seen'
    BY <1>1 DEF IInv, Seen
  <1>4. Gate'
    BY <1>1 DEF IInv, Gate
  <1>5. Searched'
    <2>1. Searched
      BY DEF IInv
    <2>2. g_need_check \in BOOLEAN /\ g_need_check' = g_need_check
      BY <1>1 DEF IInv, TypeOK
    <2>3. g_need_check'
      BY <2>1, <2>2 DEF Searched
    <2>4. FALSE \in pauses'
      BY <1>1, <2>1 DEF Searched
    <2> QED
      BY <2>3, <2>4 DEF Searched
  <1>6. pc' = "walk"
    OBVIOUS
  <1>7. VerdictJustified'
    BY <1>6 DEF VerdictJustified
  <1> QED
    BY <1>2, <1>3, <1>4, <1>5, <1>7

(* One entry of the walk: a hit ends it, a miss moves it on. *)
LEMMA StepMatch ==
  ASSUME IInv, isMatchHostList
  PROVE  IInv'
  <1> DEFINE l == cursor.list
             hit == <<lists[l][cursor.at], send.name>> \in Matches
  <1>1. l \in ListNames /\ cursor.at \in Nat /\ lists[l] \in Seq(Patterns)
        /\ \A k \in ListNames : lists[k] \in Seq(Patterns)
    BY DEF IInv, TypeOK
  <1>2. pc = "walk" /\ UNCHANGED <<cfgVars, g_need_check, send, phase, histVars>>
    BY DEF isMatchHostList
  <1>3. send' = send /\ lists' = lists /\ paused' = paused /\ g_need_check' = g_need_check
        /\ pauses' = pauses /\ moments' = moments /\ phase' = phase
    BY <1>2 DEF cfgVars, histVars
  <1>4. CASE cursor.at > Len(lists[l]) /\ walked_freed' = TRUE /\ UNCHANGED <<pc, cursor, result>>
    <2>1. cursor' \in [list : ListNames, at : Nat]
      BY <1>4 DEF IInv, TypeOK
    <2>2. Passed'
      BY <1>3, <1>4 DEF IInv, Passed
    <2>3. phase # "up"
      BY <1>1, <1>2, <1>4 DEF IInv, InRange
    <2>4. InRange' /\ EntriesOutliveWalks'
      BY <1>3, <2>3 DEF InRange, EntriesOutliveWalks
    <2> QED
      BY <1>2, <1>4, <2>1, <2>2, <2>4, WalksOn DEF IInv
  <1>5. CASE /\ cursor.at \in DOMAIN lists[l] /\ hit
             /\ result' = Plus1(Found(l)) /\ pc' = "done" /\ UNCHANGED <<cursor, walked_freed>>
    <2>1. Hit(lists[l], send.name)
      BY <1>5 DEF Hit
    <2>2. result' = Policy(lists, send.name)
      <3>1. CASE l = "excpt"
        <4>1. Policy(lists, send.name) = "FILTER_ALLOW"
          BY <2>1, <3>1, PolicyAllows
        <4> QED
          BY <1>5, <3>1, <4>1 DEF Plus1, Found
      <3>2. CASE l # "excpt"
        <4>1. NoHit(lists["excpt"], send.name)
          BY <1>2, <3>2 DEF IInv, Passed
        <4>2. l = "user" \/ l = "sys"
          BY <1>1, <3>2 DEF ListNames
        <4>3. Policy(lists, send.name) = "FILTER_DENY"
          BY <2>1, <4>1, <4>2, PolicyDenies
        <4> QED
          BY <1>5, <3>2, <4>3 DEF Plus1, Found
      <3> QED
        BY <3>1, <3>2
    <2>3. TypeOK'
      BY <1>3, <1>5 DEF IInv, TypeOK, Plus1, Verdicts
    <2> QED
      BY <1>2, <1>5, <2>2, <2>3, Judged
  <1>6. CASE /\ cursor.at \in DOMAIN lists[l] /\ ~hit
             /\ cursor' = [cursor EXCEPT !.at = cursor.at - 1] /\ UNCHANGED <<pc, result, walked_freed>>
    <2>1. cursor'.list = l /\ cursor'.at = cursor.at - 1 /\ cursor'.at \in Nat
          /\ cursor' \in [list : ListNames, at : Nat]
      BY <1>1, <1>6 DEF IInv, TypeOK
    <2>2. \A i \in DOMAIN lists[l] : i > cursor'.at => i = cursor.at \/ i > cursor.at
      BY <1>1, <2>1
    <2>3. Passed'
      BY <1>2, <1>3, <1>6, <2>1, <2>2 DEF IInv, Passed
    <2>4. walked_freed' \in BOOLEAN
      BY <1>6 DEF IInv, TypeOK
    <2>5. InRange' /\ EntriesOutliveWalks'
      BY <1>1, <1>2, <1>3, <1>6, <2>1 DEF IInv, InRange, EntriesOutliveWalks
    <2> QED
      BY <1>2, <1>6, <2>1, <2>3, <2>4, <2>5, WalksOn DEF IInv
  <1>7. CASE /\ cursor.at = 0 /\ l # "sys"
             /\ cursor' = [list |-> Following(l), at |-> Len(lists[Following(l)])]
             /\ UNCHANGED <<pc, result, walked_freed>>
    <2>1. NoHit(lists[l], send.name)
      <3>1. \A i \in DOMAIN lists[l] : i > cursor.at
        BY <1>1, <1>7
      <3> QED
        BY <1>2, <3>1 DEF IInv, Passed, NoHit
    <2>2. Following(l) \in ListNames /\ \/ l = "excpt" /\ Following(l) = "user"
                                        \/ l = "user" /\ Following(l) = "sys"
      BY <1>1, <1>7 DEF Following, ListNames
    <2>3. lists[Following(l)] \in Seq(Patterns)
      BY <1>1, <2>2
    <2>4. Passed'
      BY <1>2, <1>3, <1>7, <2>1, <2>2, <2>3 DEF IInv, Passed
    <2>5. cursor' \in [list : ListNames, at : Nat]
      BY <1>7, <2>2, <2>3
    <2>6. walked_freed' \in BOOLEAN
      BY <1>7 DEF IInv, TypeOK
    <2>7. InRange' /\ EntriesOutliveWalks'
      BY <1>3, <1>7, <2>3 DEF IInv, InRange, EntriesOutliveWalks
    <2> QED
      BY <1>2, <1>7, <2>4, <2>5, <2>6, <2>7, WalksOn DEF IInv
  <1>8. CASE /\ cursor.at = 0 /\ l = "sys"
             /\ result' = Plus1(FALSE) /\ pc' = "done" /\ UNCHANGED <<cursor, walked_freed>>
    <2>1. NoHit(lists["sys"], send.name) /\ NoHit(lists["user"], send.name)
      <3>1. \A i \in DOMAIN lists[l] : i > cursor.at
        BY <1>1, <1>8
      <3> QED
        BY <1>2, <1>8, <3>1 DEF IInv, Passed, NoHit
    <2>2. result' = Policy(lists, send.name)
      BY <1>8, <2>1, PolicyAllows DEF Plus1
    <2>3. TypeOK'
      BY <1>3, <1>8 DEF IInv, TypeOK, Plus1, Verdicts
    <2> QED
      BY <1>2, <1>8, <2>2, <2>3, Judged
  <1> QED
    BY <1>4, <1>5, <1>6, <1>7, <1>8 DEF isMatchHostList

-----------------------------------------------------------------------------
(* The steps that change neither the lists nor the walk. *)
LEMMA StepOther ==
  ASSUME IInv,
         \/ \E port53 \in BOOLEAN : tdifw_filter(port53)
         \/ tdi_send_datagram_return
         \/ delete_device
         \/ d_n_d_device
         \/ UNCHANGED vars
  PROVE  IInv'
  <1>1. CASE \E port53 \in BOOLEAN : tdifw_filter(port53)
    BY <1>1 DEF IInv, TypeOK, Seen, Gate, Searched, Passed, InRange, VerdictJustified,
                EntriesOutliveWalks, tdifw_filter, cfgVars, sendVars, histVars
  <1>2. CASE tdi_send_datagram_return
    BY <1>2 DEF IInv, TypeOK, Seen, Gate, Searched, Passed, InRange, VerdictJustified,
                EntriesOutliveWalks, tdi_send_datagram_return, cfgVars
  <1>3. CASE delete_device \/ d_n_d_device
    BY <1>3 DEF IInv, TypeOK, Seen, Gate, Searched, Passed, InRange, VerdictJustified,
                EntriesOutliveWalks, delete_device, d_n_d_device, cfgVars, sendVars, histVars
  <1>4. CASE UNCHANGED vars
    BY <1>4 DEF IInv, TypeOK, Seen, Gate, Searched, Passed, InRange, VerdictJustified,
                EntriesOutliveWalks, vars, cfgVars, sendVars, histVars
  <1> QED
    BY <1>1, <1>2, <1>3, <1>4

(* Every step keeps the invariant. *)
LEMMA StepIInv == IInv /\ [Next]_vars => IInv'
  <1> SUFFICES ASSUME IInv, [Next]_vars PROVE IInv'
    OBVIOUS
  <1>1. CASE \E p \in BOOLEAN : ioctl_set_pause(p)
    BY <1>1, StepSetPause
  <1>2. CASE \E l \in ListNames, p \in Patterns : ioctl_add_host(l, p) \/ ioctl_del_host(l, p)
    BY <1>2, StepAddHost, StepDelHost
  <1>3. CASE \E s \in Sends : tdi_send_datagram(s)
    BY <1>3, StepSend
  <1>4. CASE tdifw_udp_send \/ filter \/ isMatchHostList
    BY <1>4, StepUdpSend, StepFilter, StepMatch
  <1>5. CASE \E l \in ListNames : unload_cfg(l)
    BY <1>5, StepUnload
  <1> QED
    BY <1>1, <1>2, <1>3, <1>4, <1>5, StepOther DEF Next

(* The invariant holds in every reachable state. *)
LEMMA Inductive == Spec => []IInv
  BY InitIInv, StepIInv, PTL DEF Spec

(* The lists, the gate and the datagram in flight keep their types.        *)
THEOREM TypeCorrect == Spec => []TypeOK
  <1>1. IInv => TypeOK
    BY DEF IInv
  <1> QED
    BY Inductive, <1>1, PTL

(* Every UDP datagram gets a verdict the configuration justified while it  *)
(* was being judged, whatever the lists hold and however they match.       *)
THEOREM VerdictsAreJustified == Spec => []VerdictJustified
  <1>1. IInv => VerdictJustified
    BY DEF IInv
  <1> QED
    BY Inductive, <1>1, PTL

(* No ioctl frees an entry under the walk of isMatchHostList.              *)
THEOREM EntriesOutlive == Spec => []EntriesOutliveWalks
  <1>1. IInv => EntriesOutliveWalks
    BY DEF IInv
  <1> QED
    BY Inductive, <1>1, PTL
=============================================================================

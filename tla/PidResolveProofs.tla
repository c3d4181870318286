------------------------- MODULE PidResolveProofs --------------------------
(***************************************************************************)
(* What holds of PidResolve for any processes, threads and list length:    *)
(* type correctness, EventsOwned, MissesExplained and NameStays.           *)
(***************************************************************************)
EXTENDS PidResolve, TLAPS

(* A thread inside tdi_create belongs to a process that is there.          *)
Inside == \A t \in Threads : pc[t] # "idle" => ProcessOf[t] \in alive

(* Whoever missed, and will append, missed an entry of an unclean process. *)
Appending ==
  /\ \A t \in Threads : pc[t] \in {"register_add", "reset_add"} => ProcessOf[t] \notin clean
  /\ setter # NULL => setter.pid \notin clean

(* An event lies in entries of its own process only, and of a thread that  *)
(* registered it and is still in tdi_create.                               *)
Pointing ==
  \A i \in 1 .. Len(g_plist) : \A t \in Threads :
    g_plist[i].pname_event = t =>
      /\ g_plist[i].pid = ProcessOf[t]
      /\ pc[t] \in {"log", "wait", "reset", "reset_add"}

(* One entry for a clean process, and no event of a dead frame in it.      *)
Single ==
  \A p \in clean :
    /\ ~Misses(p)
    /\ \A i, j \in 1 .. Len(g_plist) : g_plist[i].pid = p /\ g_plist[j].pid = p => i = j
    /\ \A i \in 1 .. Len(g_plist) : g_plist[i].pid = p => g_plist[i].pname_event # DEAD

IInv == TypeOK /\ Inside /\ Appending /\ Pointing /\ Single /\ MissesExplained

-----------------------------------------------------------------------------
(* What the four ways of changing the list do to it.                       *)

(* A list with one more entry: the old entries stay where they are. *)
LEMMA Appended ==
  ASSUME NEW s \in Seq(Entries), NEW e \in Entries
  PROVE  /\ Append(s, e) \in Seq(Entries)
         /\ Len(Append(s, e)) = Len(s) + 1
         /\ Append(s, e)[Len(s) + 1] = e
         /\ \A j \in 1 .. Len(s) : Append(s, e)[j] = s[j]
OBVIOUS

(* A list with one entry changed: the others stay as they are. *)
LEMMA Updated ==
  ASSUME NEW s \in Seq(Entries), NEW i \in 1 .. Len(s), NEW e \in Entries
  PROVE  /\ [s EXCEPT ![i] = e] \in Seq(Entries)
         /\ Len([s EXCEPT ![i] = e]) = Len(s)
         /\ \A j \in 1 .. Len(s) : [s EXCEPT ![i] = e][j] = IF j = i THEN e ELSE s[j]
OBVIOUS

(* A function on 1 .. n is a list of length n. *)
LEMMA FunctionIsList ==
  ASSUME NEW n \in Nat, NEW f \in [1 .. n -> Entries]
  PROVE  f \in Seq(Entries) /\ Len(f) = n
OBVIOUS

(* When a call returns, its event becomes DEAD wherever it lies. *)
LEMMA RetiredList ==
  ASSUME NEW s \in Seq(Entries), NEW t \in Threads
  PROVE  /\ Retired(s, t) \in Seq(Entries)
         /\ Len(Retired(s, t)) = Len(s)
         /\ \A j \in 1 .. Len(s) :
              /\ Retired(s, t)[j].pid = s[j].pid
              /\ Retired(s, t)[j].pname = s[j].pname
              /\ Retired(s, t)[j].pname_event =
                   IF s[j].pname_event = t THEN DEAD ELSE s[j].pname_event
<1> DEFINE r(j) == IF s[j].pname_event = t THEN [s[j] EXCEPT !.pname_event = DEAD] ELSE s[j]
<1>1. ASSUME NEW j \in 1 .. Len(s)
      PROVE  r(j) \in Entries /\ r(j).pid = s[j].pid /\ r(j).pname = s[j].pname
             /\ r(j).pname_event = IF s[j].pname_event = t THEN DEAD ELSE s[j].pname_event
  <2>1. s[j] \in Entries
    OBVIOUS
  <2> QED
    BY <2>1 DEF Entries
<1>2. Len(s) \in Nat
  OBVIOUS
<1>3. Retired(s, t) = [j \in 1 .. Len(s) |-> r(j)]
  BY DEF Retired
<1>4. Retired(s, t) \in [1 .. Len(s) -> Entries]
  BY <1>1, <1>3
<1>5. Retired(s, t) \in Seq(Entries) /\ Len(Retired(s, t)) = Len(s)
  BY <1>2, <1>4, FunctionIsList
<1> QED
  BY <1>1, <1>3, <1>5

(* A list with one entry less: those behind it move up. *)
LEMMA WithoutList ==
  ASSUME g_plist \in Seq(Entries), NEW k \in 1 .. Len(g_plist)
  PROVE  /\ Without(k) \in Seq(Entries)
         /\ Len(Without(k)) = Len(g_plist) - 1
         /\ \A j \in 1 .. Len(g_plist) - 1 :
              Without(k)[j] = IF j < k THEN g_plist[j] ELSE g_plist[j + 1]
<1>1. Len(g_plist) \in Nat /\ Len(g_plist) - 1 \in Nat
  OBVIOUS
<1>2. Without(k) \in [1 .. Len(g_plist) - 1 -> Entries]
  BY <1>1 DEF Without
<1>3. Without(k) \in Seq(Entries) /\ Len(Without(k)) = Len(g_plist) - 1
  BY <1>1, <1>2, FunctionIsList
<1> QED
  BY <1>3 DEF Without

-----------------------------------------------------------------------------
(* Every step but the end of a process and of the driver leaves the entries *)
(* where they are, with their pid and with their name if they have one.    *)
Grown ==
  \A i \in 1 .. Len(g_plist) :
    /\ i \in 1 .. Len(g_plist')
    /\ g_plist'[i].pid = g_plist[i].pid
    /\ g_plist[i].pname # NULL => g_plist'[i].pname = g_plist[i].pname

(* An entry more, of an unclean process. *)
LEMMA Extended ==
  ASSUME IInv, NEW e \in Entries, e.pid \notin clean,
         g_plist' = Append(g_plist, e), clean' = clean
  PROVE  Single' /\ Grown
<1>1. /\ Len(g_plist') = Len(g_plist) + 1
      /\ g_plist'[Len(g_plist) + 1] = e
      /\ \A j \in 1 .. Len(g_plist) : g_plist'[j] = g_plist[j]
  BY Appended DEF IInv, TypeOK
<1>2. Len(g_plist) \in Nat
  BY DEF IInv, TypeOK
<1>3. Grown
  BY <1>1, <1>2 DEF Grown
<1>4. Single'
  BY <1>1, <1>2 DEF Single, Misses, IInv
<1> QED
  BY <1>3, <1>4

(* An entry changed in place. *)
LEMMA Replaced ==
  ASSUME IInv, NEW i \in 1 .. Len(g_plist), NEW e \in Entries,
         e.pid = g_plist[i].pid,
         g_plist[i].pname # NULL => e.pname = g_plist[i].pname,
         e.pname_event = g_plist[i].pname_event \/ e.pname_event # DEAD,
         g_plist' = [g_plist EXCEPT ![i] = e], clean' = clean
  PROVE  Single' /\ Grown
<1>1. /\ Len(g_plist') = Len(g_plist)
      /\ \A j \in 1 .. Len(g_plist) : g_plist'[j] = IF j = i THEN e ELSE g_plist[j]
  BY Updated DEF IInv, TypeOK
<1>2. Grown
  BY <1>1 DEF Grown
<1>3. Single'
  BY <1>1 DEF Single, Misses, IInv
<1> QED
  BY <1>2, <1>3

-----------------------------------------------------------------------------
(* The steps of a thread inside tdi_create.                                *)

(* A create begins. *)
LEMMA CreateKeeps ==
  ASSUME IInv, NEW t \in Threads, tdi_create(t)
  PROVE  IInv' /\ Grown
<1> USE DEF tdi_create, otherVars
<1>1. TypeOK'
  BY DEF IInv, TypeOK
<1>2. Inside' /\ Appending'
  BY DEF IInv, TypeOK, Inside, Appending
<1>3. Pointing'
  BY DEF IInv, TypeOK, Pointing
<1>4. Single'
  BY DEF IInv, Single, Misses
<1>5. MissesExplained'
  BY DEF IInv, Pointing, MissesExplained
<1>6. Grown
  BY DEF Grown
<1> QED
  BY <1>1, <1>2, <1>3, <1>4, <1>5, <1>6 DEF IInv

(* The look-up in the table: an entry found takes the event at once. *)
LEMMA RegisterKeeps ==
  ASSUME IInv, NEW t \in Threads, register(t)
  PROVE  IInv' /\ Grown
<1> USE DEF register, otherVars
<1>1. ASSUME NEW i \in 1 .. Len(g_plist), Finds(ProcessOf[t], i),
             g_plist' = [g_plist EXCEPT ![i].pname_event = t],
             late' = IF g_plist[i].pname # NULL THEN late \cup {t} ELSE late,
             pc' = [pc EXCEPT ![t] = "log"]
      PROVE  IInv' /\ Grown
  <2> DEFINE e == [g_plist[i] EXCEPT !.pname_event = t]
  <2>1. /\ e \in Entries /\ e.pid = g_plist[i].pid /\ e.pname = g_plist[i].pname
        /\ e.pname_event = t
    <3>1. g_plist[i] \in Entries
      BY DEF IInv, TypeOK
    <3> QED
      BY <3>1 DEF Entries
  <2>2. g_plist' = [g_plist EXCEPT ![i] = e]
    BY <1>1
  <2> HIDE DEF e
  <2>3. Single' /\ Grown
    <3>1. t # DEAD
      BY ConstantsAssumption
    <3> QED
      BY <2>1, <2>2, <3>1, Replaced
  <2>4. /\ g_plist' \in Seq(Entries) /\ Len(g_plist') = Len(g_plist)
        /\ \A j \in 1 .. Len(g_plist) : g_plist'[j] = IF j = i THEN e ELSE g_plist[j]
    BY <2>1, <2>2, Updated DEF IInv, TypeOK
  <2>5. TypeOK' /\ Inside' /\ Appending'
    BY <1>1, <2>4 DEF IInv, TypeOK, Inside, Appending
  <2>6. Pointing'
    BY <1>1, <2>1, <2>4 DEF IInv, TypeOK, Pointing, Finds
  <2>7. MissesExplained'
    BY <1>1, <2>1, <2>4 DEF IInv, TypeOK, MissesExplained
  <2> QED
    BY <2>3, <2>5, <2>6, <2>7 DEF IInv
<1>2. ASSUME Misses(ProcessOf[t]), pc' = [pc EXCEPT ![t] = "register_add"],
             UNCHANGED <<g_plist, late>>
      PROVE  IInv' /\ Grown
  <2>1. ProcessOf[t] \notin clean
    BY <1>2 DEF IInv, Single
  <2>2. TypeOK' /\ Inside' /\ Appending'
    BY <1>2, <2>1 DEF IInv, TypeOK, Inside, Appending
  <2>3. Pointing' /\ MissesExplained' /\ Grown
    BY <1>2 DEF IInv, TypeOK, Pointing, MissesExplained, Grown
  <2>4. Single'
    BY <1>2 DEF IInv, Single, Misses
  <2> QED
    BY <2>2, <2>3, <2>4 DEF IInv
<1> QED
  BY <1>1, <1>2

(* The entry appended after a miss. *)
LEMMA RegisterAddKeeps ==
  ASSUME IInv, NEW t \in Threads, register_add(t)
  PROVE  IInv' /\ Grown
<1> USE DEF register_add, otherVars
<1>1. CASE UNCHANGED g_plist
  <2>1. TypeOK' /\ Inside' /\ Appending' /\ Grown
    BY <1>1 DEF IInv, TypeOK, Inside, Appending, Grown
  <2>2. Pointing' /\ MissesExplained'
    BY <1>1 DEF IInv, TypeOK, Pointing, MissesExplained
  <2>3. Single'
    BY <1>1 DEF IInv, Single, Misses
  <2> QED
    BY <2>1, <2>2, <2>3 DEF IInv
<1>2. CASE g_plist' = add_ple(ProcessOf[t], NULL, t)
  <2> DEFINE e == [pid |-> ProcessOf[t], pname |-> NULL, pname_event |-> t]
  <2>1. e \in Entries /\ e.pid = ProcessOf[t] /\ e.pname = NULL /\ e.pname_event = t
    BY ConstantsAssumption DEF Entries
  <2>2. g_plist' = Append(g_plist, e)
    BY <1>2 DEF add_ple
  <2>3. ProcessOf[t] \notin clean
    BY DEF IInv, Appending
  <2> HIDE DEF e
  <2>4. Single' /\ Grown
    BY <2>1, <2>2, <2>3, Extended
  <2>5. /\ g_plist' \in Seq(Entries)
        /\ Len(g_plist') = Len(g_plist) + 1 /\ g_plist'[Len(g_plist) + 1] = e
        /\ \A j \in 1 .. Len(g_plist) : g_plist'[j] = g_plist[j]
    BY <2>1, <2>2, Appended DEF IInv, TypeOK
  <2>6. TypeOK' /\ Inside' /\ Appending'
    BY <2>5 DEF IInv, TypeOK, Inside, Appending
  <2>7. Len(g_plist) \in Nat
    BY DEF IInv, TypeOK
  <2>8. Pointing'
    BY <2>1, <2>5, <2>7 DEF IInv, TypeOK, Pointing
  <2>9. MissesExplained'
    BY <2>1, <2>5, <2>7 DEF IInv, MissesExplained
  <2> QED
    BY <2>4, <2>6, <2>8, <2>9 DEF IInv
<1> QED
  BY <1>1, <1>2

(* Between registration and reset the table is the others'. *)
LEMMA LogKeeps ==
  ASSUME IInv, NEW t \in Threads, log_request(t) \/ wait(t)
  PROVE  IInv' /\ Grown
<1> USE DEF log_request, wait, otherVars
<1>1. TypeOK' /\ Inside' /\ Appending' /\ Grown
  BY DEF IInv, TypeOK, Inside, Appending, Grown
<1>2. Pointing' /\ MissesExplained'
  BY DEF IInv, TypeOK, Pointing, MissesExplained
<1>3. Single'
  BY DEF IInv, Single, Misses
<1> QED
  BY <1>1, <1>2, <1>3 DEF IInv

(* After a return: the pids and names of list m, and no event of thread t. *)
LEMMA Returned ==
  ASSUME IInv, NEW t \in Threads, NEW m \in Seq(Entries),
         Len(m) >= Len(g_plist),
         \A j \in 1 .. Len(g_plist) :
           /\ m[j].pid = g_plist[j].pid /\ m[j].pname = g_plist[j].pname
           /\ m[j].pname_event \in {g_plist[j].pname_event, NULL},
         \A j \in 1 .. Len(m) : j > Len(g_plist) =>
           m[j].pid \notin clean /\ m[j].pname_event = NULL,
         \A j \in 1 .. Len(m) : m[j].pid \in clean => m[j].pname_event # t,
         g_plist' = Retired(m, t), pc' = [pc EXCEPT ![t] = "idle"],
         UNCHANGED <<signalled, late, otherVars, setter, stale_signal>>
  PROVE  IInv' /\ Grown
<1> USE DEF otherVars
<1>1. /\ g_plist' \in Seq(Entries) /\ Len(g_plist') = Len(m)
      /\ \A j \in 1 .. Len(m) :
           /\ g_plist'[j].pid = m[j].pid /\ g_plist'[j].pname = m[j].pname
           /\ g_plist'[j].pname_event =
                IF m[j].pname_event = t THEN DEAD ELSE m[j].pname_event
  BY RetiredList
<1>2. Len(g_plist) \in Nat /\ Len(m) \in Nat
  BY DEF IInv, TypeOK
<1>3. TypeOK' /\ Inside' /\ Appending' /\ Grown
  BY <1>1, <1>2 DEF IInv, TypeOK, Inside, Appending, Grown
<1>4. NULL \notin Threads /\ DEAD \notin Threads /\ DEAD # NULL
  BY ConstantsAssumption
<1>5. \A j \in 1 .. Len(m) : \A u \in Threads :
        g_plist'[j].pname_event = u =>
          u # t /\ j \in 1 .. Len(g_plist) /\ g_plist[j].pname_event = u
  BY <1>1, <1>2, <1>4
<1>6. Pointing'
  BY <1>1, <1>2, <1>5 DEF IInv, TypeOK, Pointing
<1>7. MissesExplained'
  BY <1>1, <1>2, <1>5 DEF IInv, MissesExplained
<1>8. Single'
  <2> SUFFICES ASSUME NEW p \in clean
               PROVE  /\ ~Misses(p)'
                      /\ \A i, j \in 1 .. Len(m) : m[i].pid = p /\ m[j].pid = p => i = j
                      /\ \A i \in 1 .. Len(m) :
                           m[i].pid = p => g_plist'[i].pname_event # DEAD
    BY <1>1 DEF Single
  <2>1. ~Misses(p)'
    BY <1>1, <1>2 DEF IInv, Single, Misses
  <2>2. \A i \in 1 .. Len(m) : m[i].pid = p => i \in 1 .. Len(g_plist) /\ g_plist[i].pid = p
    BY <1>2
  <2>3. \A i, j \in 1 .. Len(m) : m[i].pid = p /\ m[j].pid = p => i = j
    BY <2>2 DEF IInv, Single
  <2>4. \A i \in 1 .. Len(m) : m[i].pid = p => g_plist'[i].pname_event # DEAD
    BY <1>1, <1>4, <2>2 DEF IInv, Single
  <2> QED
    BY <2>1, <2>3, <2>4
<1> QED
  BY <1>3, <1>6, <1>7, <1>8 DEF IInv

(* The reset: the call takes its event back where it finds it, and returns. *)
LEMMA ResetKeeps ==
  ASSUME IInv, NEW t \in Threads, reset(t)
  PROVE  IInv' /\ Grown
<1> USE DEF reset, otherVars
<1>1. ASSUME NEW i \in 1 .. Len(g_plist), Finds(ProcessOf[t], i),
             g_plist' = Retired([g_plist EXCEPT ![i].pname_event = NULL], t),
             pc' = [pc EXCEPT ![t] = "idle"]
      PROVE  IInv' /\ Grown
  <2> DEFINE e == [g_plist[i] EXCEPT !.pname_event = NULL]
             m == [g_plist EXCEPT ![i] = e]
  <2>1. /\ e \in Entries /\ e.pid = g_plist[i].pid /\ e.pname = g_plist[i].pname
        /\ e.pname_event = NULL
    <3>1. g_plist[i] \in Entries
      BY DEF IInv, TypeOK
    <3> QED
      BY <3>1 DEF Entries
  <2>2. g_plist' = Retired(m, t)
    BY <1>1
  <2> HIDE DEF e
  <2>3. /\ m \in Seq(Entries) /\ Len(m) = Len(g_plist)
        /\ \A j \in 1 .. Len(g_plist) : m[j] = IF j = i THEN e ELSE g_plist[j]
    BY <2>1, Updated DEF IInv, TypeOK
  <2> HIDE DEF m
  <2>4. \A j \in 1 .. Len(m) : m[j].pid \in clean => m[j].pname_event # t
    <3> SUFFICES ASSUME NEW j \in 1 .. Len(m), m[j].pid \in clean, m[j].pname_event = t
                 PROVE  FALSE
      OBVIOUS
    <3>1. j # i /\ m[j] = g_plist[j]
      BY <2>1, <2>3, ConstantsAssumption
    <3>2. g_plist[j].pid = ProcessOf[t] /\ g_plist[i].pid = ProcessOf[t]
      BY <1>1, <2>3, <3>1 DEF IInv, Pointing, Finds
    <3> QED
      BY <2>3, <3>1, <3>2 DEF IInv, Single
  <2>5. Len(g_plist) \in Nat
    BY DEF IInv, TypeOK
  <2>6. Len(m) >= Len(g_plist)
    BY <2>3, <2>5
  <2>7. \A j \in 1 .. Len(g_plist) :
          /\ m[j].pid = g_plist[j].pid /\ m[j].pname = g_plist[j].pname
          /\ m[j].pname_event \in {g_plist[j].pname_event, NULL}
    BY <2>1, <2>3
  <2>8. \A j \in 1 .. Len(m) : j > Len(g_plist) =>
          m[j].pid \notin clean /\ m[j].pname_event = NULL
    BY <2>3, <2>5
  <2> QED
    BY <1>1, <2>2, <2>3, <2>4, <2>6, <2>7, <2>8, Returned
<1>2. ASSUME Misses(ProcessOf[t]), pc' = [pc EXCEPT ![t] = "reset_add"], UNCHANGED g_plist
      PROVE  IInv' /\ Grown
  <2>1. ProcessOf[t] \notin clean
    BY <1>2 DEF IInv, Single
  <2>2. TypeOK' /\ Inside' /\ Appending'
    BY <1>2, <2>1 DEF IInv, TypeOK, Inside, Appending
  <2>3. Pointing' /\ MissesExplained' /\ Grown
    BY <1>2 DEF IInv, TypeOK, Pointing, MissesExplained, Grown
  <2>4. Single'
    BY <1>2 DEF IInv, Single, Misses
  <2> QED
    BY <2>2, <2>3, <2>4 DEF IInv
<1> QED
  BY <1>1, <1>2

(* The entry the reset appends after a miss. *)
LEMMA ResetAddKeeps ==
  ASSUME IInv, NEW t \in Threads, reset_add(t)
  PROVE  IInv' /\ Grown
<1> USE DEF reset_add
<1>1. ProcessOf[t] \notin clean
  BY DEF IInv, Appending
<1>2. \A j \in 1 .. Len(g_plist) : g_plist[j].pid \in clean => g_plist[j].pname_event # t
  BY <1>1 DEF IInv, Pointing
<1>3. Len(g_plist) \in Nat /\ g_plist \in Seq(Entries)
  BY DEF IInv, TypeOK
<1>4. CASE g_plist' = Retired(g_plist, t)
  <2>1. \A j \in 1 .. Len(g_plist) : ~(j > Len(g_plist))
    BY <1>3
  <2>2. Len(g_plist) >= Len(g_plist)
    BY <1>3
  <2> QED
    BY <1>2, <1>3, <1>4, <2>1, <2>2, Returned
<1>5. CASE g_plist' = Retired(add_ple(ProcessOf[t], NULL, NULL), t)
  <2> DEFINE e == [pid |-> ProcessOf[t], pname |-> NULL, pname_event |-> NULL]
             m == Append(g_plist, e)
  <2>1. e \in Entries /\ e.pid = ProcessOf[t] /\ e.pname_event = NULL
    BY ConstantsAssumption DEF Entries
  <2>2. g_plist' = Retired(m, t)
    BY <1>5 DEF add_ple
  <2> HIDE DEF e
  <2>3. /\ m \in Seq(Entries) /\ Len(m) = Len(g_plist) + 1 /\ m[Len(g_plist) + 1] = e
        /\ \A j \in 1 .. Len(g_plist) : m[j] = g_plist[j]
    BY <1>3, <2>1, Appended
  <2> HIDE DEF m
  <2>4. \A j \in 1 .. Len(m) : j > Len(g_plist) =>
          m[j].pid \notin clean /\ m[j].pname_event = NULL
    BY <1>1, <1>3, <2>1, <2>3
  <2>5. \A j \in 1 .. Len(m) : m[j].pid \in clean => m[j].pname_event # t
    BY <1>2, <1>3, <2>3, <2>4
  <2>6. Len(m) >= Len(g_plist)
    BY <1>3, <2>3
  <2> QED
    BY <2>2, <2>3, <2>4, <2>5, <2>6, Returned
<1> QED
  BY <1>4, <1>5

-----------------------------------------------------------------------------
(* The logging application.                                                *)

(* An entry is named, and its event signalled. *)
LEMMA NamedKeeps ==
  ASSUME IInv, NEW p \in Pids, NEW n \in Names, NEW i \in 1 .. Len(g_plist),
         Finds(p, i), Named(i, n), UNCHANGED <<setter, pc, late, otherVars>>
  PROVE  IInv' /\ Grown
<1> USE DEF otherVars
<1>1. ASSUME g_plist[i].pname = NULL, Signals(g_plist[i].pname_event),
             NEW pname \in {n, NULL}, g_plist' = [g_plist EXCEPT ![i].pname = pname]
      PROVE  IInv' /\ Grown
  <2> DEFINE e == [g_plist[i] EXCEPT !.pname = pname]
  <2>1. /\ e \in Entries /\ e.pid = g_plist[i].pid /\ e.pname = pname
        /\ e.pname_event = g_plist[i].pname_event
    <3>1. g_plist[i] \in Entries
      BY DEF IInv, TypeOK
    <3> QED
      BY <3>1 DEF Entries
  <2>2. g_plist' = [g_plist EXCEPT ![i] = e]
    BY <1>1
  <2> HIDE DEF e
  <2>3. Single' /\ Grown
    BY <1>1, <2>1, <2>2, Replaced
  <2>4. /\ g_plist' \in Seq(Entries) /\ Len(g_plist') = Len(g_plist)
        /\ \A j \in 1 .. Len(g_plist) : g_plist'[j] = IF j = i THEN e ELSE g_plist[j]
    BY <2>1, <2>2, Updated DEF IInv, TypeOK
  <2>5. TypeOK' /\ Inside' /\ Appending'
    BY <1>1, <2>4 DEF IInv, TypeOK, Inside, Appending, Signals
  <2>6. Pointing'
    BY <2>1, <2>4 DEF IInv, Pointing
  <2>7. MissesExplained'
    BY <1>1, <2>1, <2>4 DEF IInv, MissesExplained, Signals
  <2> QED
    BY <2>3, <2>5, <2>6, <2>7 DEF IInv
<1>2. CASE UNCHANGED <<g_plist, signalled, stale_signal>>
  <2>1. TypeOK' /\ Inside' /\ Appending' /\ Grown
    BY <1>2 DEF IInv, TypeOK, Inside, Appending, Grown
  <2>2. Pointing' /\ MissesExplained' /\ Single'
    BY <1>2 DEF IInv, Pointing, MissesExplained, Single, Misses
  <2> QED
    BY <2>1, <2>2 DEF IInv
<1> QED
  BY <1>1, <1>2 DEF Named

(* The application's answer, found or missed. *)
LEMMA SetKeeps ==
  ASSUME IInv, NEW p \in Pids, NEW n \in Names, set_pid_pname(p, n)
  PROVE  IInv' /\ Grown
<1>1. ASSUME NEW i \in 1 .. Len(g_plist), Finds(p, i), Named(i, n), UNCHANGED setter
      PROVE  IInv' /\ Grown
  BY <1>1, NamedKeeps DEF set_pid_pname
<1>2. ASSUME Misses(p), setter' = [pid |-> p, pname |-> n],
             UNCHANGED <<g_plist, signalled, stale_signal>>
      PROVE  IInv' /\ Grown
  <2> USE DEF set_pid_pname, otherVars
  <2>1. p \notin clean
    BY <1>2 DEF IInv, Single
  <2>2. TypeOK' /\ Inside' /\ Appending' /\ Grown
    BY <1>2, <2>1 DEF IInv, TypeOK, Inside, Appending, Grown
  <2>3. Pointing' /\ MissesExplained' /\ Single'
    BY <1>2 DEF IInv, Pointing, MissesExplained, Single, Misses
  <2> QED
    BY <2>2, <2>3 DEF IInv
<1> QED
  BY <1>1, <1>2 DEF set_pid_pname

(* The entry the application's ioctl appends after a miss. *)
LEMMA SetAddKeeps ==
  ASSUME IInv, pid_pname_set_add
  PROVE  IInv' /\ Grown
<1> USE DEF pid_pname_set_add, frameVars, otherVars
<1>1. CASE UNCHANGED g_plist
  <2>1. TypeOK' /\ Inside' /\ Appending' /\ Grown
    BY <1>1 DEF IInv, TypeOK, Inside, Appending, Grown
  <2>2. Pointing' /\ MissesExplained' /\ Single'
    BY <1>1 DEF IInv, Pointing, MissesExplained, Single, Misses
  <2> QED
    BY <2>1, <2>2 DEF IInv
<1>2. ASSUME NEW pname \in {setter.pname, NULL},
             g_plist' = add_ple(setter.pid, pname, NULL)
      PROVE  IInv' /\ Grown
  <2> DEFINE e == [pid |-> setter.pid, pname |-> pname, pname_event |-> NULL]
  <2>1. setter \in [pid : Pids, pname : Names] /\ setter.pid \notin clean
    BY DEF IInv, TypeOK, Appending
  <2>2. e \in Entries /\ e.pid = setter.pid /\ e.pname_event = NULL
    BY <2>1 DEF Entries
  <2>3. g_plist' = Append(g_plist, e)
    BY <1>2 DEF add_ple
  <2> HIDE DEF e
  <2>4. Single' /\ Grown
    BY <2>1, <2>2, <2>3, Extended
  <2>5. /\ g_plist' \in Seq(Entries)
        /\ Len(g_plist') = Len(g_plist) + 1 /\ g_plist'[Len(g_plist) + 1] = e
        /\ \A j \in 1 .. Len(g_plist) : g_plist'[j] = g_plist[j]
    BY <2>2, <2>3, Appended DEF IInv, TypeOK
  <2>6. TypeOK' /\ Inside' /\ Appending'
    BY <2>5 DEF IInv, TypeOK, Inside, Appending
  <2>7. Len(g_plist) \in Nat /\ NULL \notin Threads
    BY ConstantsAssumption DEF IInv, TypeOK
  <2>8. Pointing' /\ MissesExplained'
    BY <2>2, <2>5, <2>7 DEF IInv, Pointing, MissesExplained
  <2> QED
    BY <2>4, <2>6, <2>8 DEF IInv
<1> QED
  BY <1>1, <1>2

(* The application opens or closes the device. *)
LEMMA OpenCloseKeeps ==
  ASSUME IInv, log_open \/ log_close
  PROVE  IInv' /\ Grown
<1> USE DEF log_open, log_close, frameVars
<1>1. TypeOK' /\ Inside' /\ Appending' /\ Grown
  BY DEF IInv, TypeOK, Inside, Appending, Grown
<1>2. Pointing' /\ MissesExplained' /\ Single'
  BY DEF IInv, Pointing, MissesExplained, Single, Misses
<1> QED
  BY <1>1, <1>2 DEF IInv

-----------------------------------------------------------------------------
(* Processes, and the end of the driver.                                   *)

(* A process starts: it is clean if nothing of an earlier one is left. *)
LEMMA CreatedKeeps ==
  ASSUME IInv, NEW p \in Pids, ProcessCreated(p)
  PROVE  IInv' /\ Grown
<1> USE DEF ProcessCreated, frameVars
<1>1. p \notin clean /\ \A t \in Threads : ProcessOf[t] = p => pc[t] = "idle"
  BY DEF IInv, TypeOK, Inside
<1>2. CASE UNCHANGED <<g_plist, clean>>
  <2>1. TypeOK' /\ Inside' /\ Appending' /\ Grown
    BY <1>2 DEF IInv, TypeOK, Inside, Appending, Grown
  <2>2. Pointing' /\ MissesExplained' /\ Single'
    BY <1>2 DEF IInv, Pointing, MissesExplained, Single, Misses
  <2> QED
    BY <2>1, <2>2 DEF IInv
<1>3. ASSUME g_plist' = add_ple(p, NULL, NULL),
             clean' = IF Misses(p) /\ (setter # NULL => setter.pid # p)
                      THEN clean \cup {p} ELSE clean
      PROVE  IInv' /\ Grown
  <2> DEFINE e == [pid |-> p, pname |-> NULL, pname_event |-> NULL]
  <2>1. e \in Entries /\ e.pid = p /\ e.pname = NULL /\ e.pname_event = NULL
    BY DEF Entries
  <2>2. g_plist' = Append(g_plist, e)
    BY <1>3 DEF add_ple
  <2> HIDE DEF e
  <2>3. /\ g_plist' \in Seq(Entries)
        /\ Len(g_plist') = Len(g_plist) + 1 /\ g_plist'[Len(g_plist) + 1] = e
        /\ \A j \in 1 .. Len(g_plist) : g_plist'[j] = g_plist[j]
    BY <2>1, <2>2, Appended DEF IInv, TypeOK
  <2>4. Len(g_plist) \in Nat /\ NULL \notin Threads /\ NULL # DEAD
    BY ConstantsAssumption DEF IInv, TypeOK
  <2>5. TypeOK' /\ Inside'
    BY <1>3, <2>3 DEF IInv, TypeOK, Inside
  <2>6. Appending'
    BY <1>1, <1>3 DEF IInv, Appending
  <2>7. Pointing' /\ MissesExplained'
    BY <2>1, <2>3, <2>4 DEF IInv, Pointing, MissesExplained
  <2>8. Grown
    BY <2>3, <2>4 DEF Grown
  <2>9. ASSUME NEW q \in clean'
        PROVE  /\ ~Misses(q)'
               /\ \A i, j \in 1 .. Len(g_plist') :
                    g_plist'[i].pid = q /\ g_plist'[j].pid = q => i = j
               /\ \A i \in 1 .. Len(g_plist') :
                    g_plist'[i].pid = q => g_plist'[i].pname_event # DEAD
    <3>1. CASE q # p
      BY <1>3, <2>1, <2>3, <2>4, <3>1 DEF IInv, Single, Misses
    <3>2. CASE q = p
      <4>1. Misses(p)
        BY <1>1, <1>3, <3>2
      <4> QED
        BY <2>1, <2>3, <2>4, <3>2, <4>1 DEF Misses
    <3> QED
      BY <3>1, <3>2
  <2>10. Single'
    BY <2>9 DEF Single
  <2> QED
    BY <2>5, <2>6, <2>7, <2>8, <2>10 DEF IInv
<1> QED
  BY <1>2, <1>3

(* The process p is gone; the other processes keep their entries, in order. *)
Kept(p) ==
  \A q \in alive' : \A n \in Names : q # p /\ NameOf(q, n) => NameOf(q, n)'

(* A process ends: its first entry goes, and no other's. *)
LEMMA TerminatedKeeps ==
  ASSUME IInv, NEW p \in Pids, ProcessTerminated(p)
  PROVE  IInv' /\ Kept(p)
<1> USE DEF ProcessTerminated, frameVars
<1>1. CASE UNCHANGED g_plist
  <2>1. TypeOK' /\ Inside' /\ Appending'
    BY <1>1 DEF IInv, TypeOK, Inside, Appending
  <2>2. Pointing' /\ MissesExplained' /\ Single'
    BY <1>1 DEF IInv, Pointing, MissesExplained, Single, Misses
  <2>3. Kept(p)
    BY <1>1 DEF Kept, NameOf, Finds
  <2> QED
    BY <2>1, <2>2, <2>3 DEF IInv
<1>2. ASSUME NEW k \in 1 .. Len(g_plist), Finds(p, k), g_plist' = Without(k)
      PROVE  IInv' /\ Kept(p)
  <2>1. /\ g_plist' \in Seq(Entries) /\ Len(g_plist') = Len(g_plist) - 1
        /\ \A j \in 1 .. Len(g_plist) - 1 :
             g_plist'[j] = IF j < k THEN g_plist[j] ELSE g_plist[j + 1]
    BY <1>2, WithoutList DEF IInv, TypeOK
  <2>2. Len(g_plist) \in Nat /\ g_plist[k].pid = p
    BY <1>2 DEF IInv, TypeOK, Finds
  <2> DEFINE old(j) == IF j < k THEN j ELSE j + 1
             new(j) == IF j < k THEN j ELSE j - 1
  <2>3. \A j \in 1 .. Len(g_plist') : old(j) \in 1 .. Len(g_plist) /\ g_plist'[j] = g_plist[old(j)]
    BY <2>1, <2>2
  <2>4. \A j \in 1 .. Len(g_plist) : j # k =>
          new(j) \in 1 .. Len(g_plist') /\ g_plist'[new(j)] = g_plist[j]
    BY <2>1, <2>2
  <2>5. \A i, j \in 1 .. Len(g_plist') : old(i) = old(j) => i = j
    BY <2>1, <2>2
  <2>6. TypeOK' /\ Inside' /\ Appending'
    BY <2>1 DEF IInv, TypeOK, Inside, Appending
  <2>7. Pointing' /\ MissesExplained'
    <3>1. \A j \in 1 .. Len(g_plist') : \E i \in 1 .. Len(g_plist) : g_plist'[j] = g_plist[i]
      BY <2>3
    <3>2. UNCHANGED <<pc, signalled, late>>
      OBVIOUS
    <3> HIDE DEF ProcessTerminated
    <3>3. Pointing'
      BY <3>1, <3>2 DEF IInv, Pointing
    <3>4. MissesExplained'
      BY <3>1, <3>2 DEF IInv, MissesExplained
    <3> QED
      BY <3>3, <3>4
  <2>8. Single'
    <3> SUFFICES ASSUME NEW q \in clean, q # p
                 PROVE  /\ ~Misses(q)'
                        /\ \A i, j \in 1 .. Len(g_plist') :
                             g_plist'[i].pid = q /\ g_plist'[j].pid = q => i = j
                        /\ \A i \in 1 .. Len(g_plist') :
                             g_plist'[i].pid = q => g_plist'[i].pname_event # DEAD
      BY DEF Single
    <3>1. ~Misses(q)'
      <4>1. PICK i \in 1 .. Len(g_plist) : g_plist[i].pid = q
        BY DEF IInv, Single, Misses
      <4>2. i # k
        BY <2>2, <4>1
      <4> QED
        BY <2>4, <4>1, <4>2 DEF Misses
    <3>2. \A i, j \in 1 .. Len(g_plist') : g_plist'[i].pid = q /\ g_plist'[j].pid = q => i = j
      BY <2>3, <2>5 DEF IInv, Single
    <3>3. \A i \in 1 .. Len(g_plist') : g_plist'[i].pid = q => g_plist'[i].pname_event # DEAD
      BY <2>3 DEF IInv, Single
    <3> QED
      BY <3>1, <3>2, <3>3
  <2>9. ASSUME NEW q \in alive', NEW n \in Names, q # p, NameOf(q, n)
        PROVE  NameOf(q, n)'
    <3>1. PICK i \in 1 .. Len(g_plist) : Finds(q, i) /\ g_plist[i].pname = n
      BY <2>9 DEF NameOf
    <3>2. i # k
      BY <2>2, <2>9, <3>1 DEF Finds
    <3>3. \A j \in 1 .. new(i) - 1 : g_plist'[j].pid # q
      <4> SUFFICES ASSUME NEW j \in 1 .. new(i) - 1
                   PROVE  g_plist'[j].pid # q
        OBVIOUS
      <4>1. j \in 1 .. Len(g_plist') /\ g_plist'[j] = g_plist[old(j)]
        BY <2>1, <2>2, <2>3, <3>2
      <4>2. old(j) \in 1 .. i - 1 \/ old(j) = k
        BY <2>2, <3>2
      <4>3. g_plist[old(j)].pid # q
        BY <2>2, <2>9, <3>1, <4>2 DEF Finds
      <4> QED
        BY <4>1, <4>3
    <3>4. new(i) \in 1 .. Len(g_plist') /\ g_plist'[new(i)] = g_plist[i]
      BY <2>4, <3>2
    <3> HIDE DEF new
    <3> QED
      BY <3>1, <3>3, <3>4 DEF NameOf, Finds
  <2> QED
    BY <2>6, <2>7, <2>8, <2>9 DEF IInv, Kept
<1> QED
  BY <1>1, <1>2

(* The unload: the list goes as a whole. *)
LEMMA FreeKeeps ==
  ASSUME IInv, pid_pname_free
  PROVE  IInv' /\ phase' # "up"
<1> USE DEF pid_pname_free, frameVars
<1>1. TypeOK' /\ Inside' /\ Appending'
  BY DEF IInv, TypeOK, Inside, Appending
<1>2. Len(g_plist') = 0
  OBVIOUS
<1>3. Pointing' /\ MissesExplained' /\ Single'
  BY <1>2 DEF Pointing, MissesExplained, Single
<1> QED
  BY <1>1, <1>3 DEF IInv

(* A step of nothing keeps everything. *)
LEMMA StutterKeeps ==
  ASSUME IInv, UNCHANGED vars
  PROVE  IInv' /\ Grown
<1> USE DEF vars, frameVars, otherVars
<1>1. TypeOK' /\ Inside' /\ Appending' /\ Grown
  BY DEF IInv, TypeOK, Inside, Appending, Grown
<1>2. Pointing' /\ MissesExplained' /\ Single'
  BY DEF IInv, Pointing, MissesExplained, Single, Misses
<1> QED
  BY <1>1, <1>2 DEF IInv

-----------------------------------------------------------------------------
(* Names.                                                                  *)

(* What NameStays says of one step. *)
Stays ==
  \A p \in alive \cap alive' : \A n \in Names :
    NameOf(p, n) /\ phase' = "up" => NameOf(p, n)'

(* Where the list only grows, names stay. *)
LEMMA GrownStays ==
  ASSUME IInv, Grown
  PROVE  Stays
<1>1. SUFFICES ASSUME NEW p \in alive, NEW n \in Names, NameOf(p, n)
               PROVE  NameOf(p, n)'
  BY DEF Stays
<1>2. PICK i \in 1 .. Len(g_plist) : Finds(p, i) /\ g_plist[i].pname = n
  BY <1>1 DEF NameOf
<1>3. n # NULL
  BY ConstantsAssumption
<1>4. i \in 1 .. Len(g_plist') /\ g_plist'[i].pid = p /\ g_plist'[i].pname = n
  BY <1>2, <1>3 DEF Grown, Finds
<1>5. \A j \in 1 .. i - 1 : g_plist'[j].pid # p
  <2>1. Len(g_plist) \in Nat
    BY DEF IInv, TypeOK
  <2>2. \A j \in 1 .. i - 1 : j \in 1 .. Len(g_plist)
    BY <1>2, <2>1
  <2> QED
    BY <1>2, <2>2 DEF Grown, Finds
<1> QED
  BY <1>4, <1>5 DEF NameOf, Finds

(* The initial states: an empty list and any set of processes. *)
LEMMA Initially == Init => IInv
<1> SUFFICES ASSUME Init PROVE IInv
  OBVIOUS
<1> USE DEF Init
<1>1. TypeOK /\ Inside /\ Appending
  <2>1. <<>> \in Seq(Entries)
    OBVIOUS
  <2>2. TypeOK
    BY <2>1 DEF TypeOK
  <2>3. Inside
    BY DEF Inside
  <2>4. Appending
    BY DEF Appending
  <2> QED
    BY <2>2, <2>3, <2>4
<1>2. Len(g_plist) = 0
  OBVIOUS
<1>3. Pointing /\ MissesExplained /\ Single
  BY <1>2 DEF Pointing, MissesExplained, Single
<1> QED
  BY <1>1, <1>3 DEF IInv

(* Every step keeps the invariant, and names stay. *)
LEMMA Step == IInv /\ [Next]_vars => IInv' /\ Stays
<1> SUFFICES ASSUME IInv, [Next]_vars PROVE IInv' /\ Stays
  OBVIOUS
<1>1. ASSUME NEW t \in Threads, tdi_create(t) PROVE IInv' /\ Stays
  BY <1>1, CreateKeeps, GrownStays
<1>2. ASSUME NEW t \in Threads, register(t) PROVE IInv' /\ Stays
  BY <1>2, RegisterKeeps, GrownStays
<1>3. ASSUME NEW t \in Threads, register_add(t) PROVE IInv' /\ Stays
  BY <1>3, RegisterAddKeeps, GrownStays
<1>4. ASSUME NEW t \in Threads, log_request(t) \/ wait(t) PROVE IInv' /\ Stays
  BY <1>4, LogKeeps, GrownStays
<1>5. ASSUME NEW t \in Threads, reset(t) PROVE IInv' /\ Stays
  BY <1>5, ResetKeeps, GrownStays
<1>6. ASSUME NEW t \in Threads, reset_add(t) PROVE IInv' /\ Stays
  BY <1>6, ResetAddKeeps, GrownStays
<1>7. ASSUME NEW p \in Pids, NEW n \in Names, set_pid_pname(p, n) PROVE IInv' /\ Stays
  BY <1>7, SetKeeps, GrownStays
<1>8. CASE pid_pname_set_add
  BY <1>8, SetAddKeeps, GrownStays
<1>9. CASE log_open \/ log_close
  BY <1>9, OpenCloseKeeps, GrownStays
<1>10. ASSUME NEW p \in Pids, ProcessCreated(p) PROVE IInv' /\ Stays
  BY <1>10, CreatedKeeps, GrownStays
<1>11. ASSUME NEW p \in Pids, ProcessTerminated(p) PROVE IInv' /\ Stays
  <2>1. IInv' /\ Kept(p) /\ p \notin alive'
    BY <1>11, TerminatedKeeps DEF ProcessTerminated
  <2> QED
    BY <2>1 DEF Stays, Kept
<1>12. CASE pid_pname_free
  BY <1>12, FreeKeeps DEF Stays
<1>13. CASE UNCHANGED vars
  BY <1>13, StutterKeeps, GrownStays
<1> QED
  BY <1>1, <1>2, <1>3, <1>4, <1>5, <1>6, <1>7, <1>8, <1>9, <1>10, <1>11, <1>12, <1>13
  DEF Next, Resolves

(* The invariant holds in every reachable state. *)
LEMMA Always == Spec => []IInv
BY Initially, Step, PTL DEF Spec

-----------------------------------------------------------------------------
(* The list, the threads' places and the pending ioctl keep their types.   *)
THEOREM TypeCorrect == Spec => []TypeOK
<1>1. IInv => TypeOK
  BY DEF IInv
<1> QED
  BY <1>1, Always, PTL

(* A clean process has one entry, and an event in it belongs to one of its *)
(* threads that has yet to take it back: pid_pname_set signals no dead     *)
(* stack frame of such a process.                                          *)
THEOREM EventsAreOwned == Spec => []EventsOwned
<1>1. IInv => EventsOwned
  <2> SUFFICES ASSUME IInv, NEW p \in clean
               PROVE  \A i \in 1 .. Len(g_plist) :
                        g_plist[i].pid = p /\ g_plist[i].pname_event # NULL =>
                          \E t \in Threads :
                            /\ g_plist[i].pname_event = t /\ ProcessOf[t] = p
                            /\ pc[t] \in {"log", "wait", "reset"}
    BY DEF EventsOwned, IInv, Single
  <2>1. SUFFICES ASSUME NEW i \in 1 .. Len(g_plist), g_plist[i].pid = p,
                        g_plist[i].pname_event # NULL
                 PROVE  \E t \in Threads :
                          /\ g_plist[i].pname_event = t /\ ProcessOf[t] = p
                          /\ pc[t] \in {"log", "wait", "reset"}
    OBVIOUS
  <2>2. g_plist[i] \in Entries
    BY DEF IInv, TypeOK
  <2>3. g_plist[i].pname_event \in Threads
    BY <2>1, <2>2 DEF IInv, Single, Entries
  <2> WITNESS g_plist[i].pname_event \in Threads
  <2> QED
    BY <2>1, <2>3 DEF IInv, Pointing, Appending
<1> QED
  BY <1>1, Always, PTL

(* pid_pname_set signals every event it finds registered: a thread that    *)
(* waits beside a known name registered after the name was there.          *)
THEOREM MissesAreExplained == Spec => []MissesExplained
<1>1. IInv => MissesExplained
  BY DEF IInv
<1> QED
  BY <1>1, Always, PTL

(* The first name of a living process is the one that pid_pname_resolve    *)
(* reports from then on.                                                   *)
THEOREM NamesStay == Spec => NameStays
<1>1. IInv /\ [Next]_vars => [Stays]_vars
  BY Step
<1> QED
  BY <1>1, Always, PTL DEF Spec, NameStays, Stays
=============================================================================

--------------------------- MODULE HostSyncProofs ---------------------------
(***************************************************************************)
(* Proofs about HostSync: the types and ListsAgree, for any hosts, any     *)
(* number of applications and any bound on the entries of a host.          *)
(***************************************************************************)
EXTENDS HostSync, TLAPS

(* The instance that alone knows of the edits that are not saved. *)
Alone(g) == g \in valid /\ \A o \in Guis \ {g} : ~Running(o)

(* Who has a handle or writes the file is running, and without the driver  *)
(* there are no handles.                                                   *)
Users ==
  /\ \A g \in valid \cup saving : Running(g)
  /\ loaded \/ valid = {}
  /\ \A g, o \in saving : g = o

Editor == unsaved \subseteq stray \/ \E g \in Guis : Alone(g)

(* The lists of two places agree about each host that is not stray. *)
GuiDriver ==
  loaded => \A g \in Guis, h \in Hosts \ stray : Running(g) => gui[g][h] = user[h]
FileDriver ==
  loaded /\ saving = {} => \A h \in Hosts \ (stray \cup unsaved) : file[h] = user[h]
FileGui ==
  ~loaded /\ saving = {} =>
    \A g \in Guis, h \in Hosts \ (stray \cup unsaved) : Running(g) => gui[g][h] = file[h]
GuiGui ==
  ~loaded => \A g, o \in Guis, h \in Hosts \ stray :
    Running(g) /\ Running(o) => gui[g][h] = gui[o][h]

Agreement == GuiDriver /\ FileDriver /\ FileGui /\ GuiGui

SyncInv == SyncTypeOK /\ Users /\ Editor /\ Agreement

-----------------------------------------------------------------------------
(* Bags.                                                                   *)

(* What adding one entry does. *)
LEMMA PlusOne ==
  ASSUME NEW bag \in Bags, NEW h \in Hosts, bag[h] < MaxCopies
  PROVE  /\ Plus(bag, h) \in Bags
         /\ Plus(bag, h)[h] = bag[h] + 1
         /\ \A o \in Hosts \ {h} : Plus(bag, h)[o] = bag[o]
  BY SyncAssumption DEF Bags, Plus

(* What taking one out does. *)
LEMMA MinusOne ==
  ASSUME NEW bag \in Bags, NEW h \in Hosts
  PROVE  /\ Minus(bag, h) \in Bags
         /\ bag[h] > 0 => Minus(bag, h)[h] = bag[h] - 1
         /\ bag[h] = 0 => Minus(bag, h)[h] = 0
         /\ \A o \in Hosts \ {h} : Minus(bag, h)[o] = bag[o]
  BY SyncAssumption DEF Bags, Minus

(* The empty list and a list cut short. *)
LEMMA Subsets ==
  /\ Empty \in Bags
  /\ \A h \in Hosts : Empty[h] = 0
  /\ \A bag \in Bags, lost \in SUBSET Hosts :
       /\ Without(bag, lost) \in Bags
       /\ \A h \in Hosts \ lost : Without(bag, lost)[h] = bag[h]
  BY SyncAssumption DEF Bags, Empty, Without

-----------------------------------------------------------------------------
(* Edits in an application.                                                *)

(* What all of them have in common: of the hosts that change, those that   *)
(* do not go astray change alike in the list and in the driver.            *)
EditOf(g, hosts) ==
  /\ Running(g)
  /\ UNCHANGED <<file, locked, loaded, valid, saving>>
  /\ user' \in Bags
  /\ \E list \in Bags : gui' = [gui EXCEPT ![g] = list]
  /\ unsaved' = unsaved \cup hosts
  /\ stray \subseteq stray' /\ stray' \subseteq Hosts
  /\ \A h \in Hosts \ hosts : user'[h] = user[h] /\ gui'[g][h] = gui[g][h]
  /\ \A h \in hosts \ stray' :
       /\ g \in valid /\ \A o \in Guis \ {g} : ~Running(o)
       /\ gui[g][h] = user[h] => gui'[g][h] = user'[h]

(* An edit keeps the invariant. *)
LEMMA EditKeeps ==
  ASSUME NEW g \in Guis, NEW hosts \in SUBSET Hosts, SyncInv, EditOf(g, hosts)
  PROVE  SyncInv'
<1>1. SyncTypeOK'
  BY DEF SyncInv, SyncTypeOK, EditOf
<1>2. \A o \in Guis : Running(o)' <=> Running(o)
  BY SyncAssumption DEF SyncInv, SyncTypeOK, EditOf, Running
<1>3. \A o \in Guis \ {g} : gui'[o] = gui[o]
  BY DEF EditOf, SyncInv, SyncTypeOK
<1>4. Users'
  BY <1>2 DEF SyncInv, Users, EditOf, SyncTypeOK
<1>5. Editor'
  <2>1. CASE hosts \subseteq stray'
    BY <2>1, <1>2 DEF SyncInv, Editor, Alone, EditOf
  <2>2. CASE ~(hosts \subseteq stray')
    <3>1. Alone(g)'
      BY <2>2, <1>2 DEF Alone, EditOf
    <3> QED BY <3>1 DEF Editor
  <2> QED BY <2>1, <2>2
<1>6. GuiDriver'
  <2> SUFFICES ASSUME loaded', NEW o \in Guis, NEW h \in Hosts \ stray', Running(o)'
               PROVE  gui'[o][h] = user'[h]
    BY DEF GuiDriver
  <2>1. loaded /\ h \in Hosts \ stray /\ Running(o) /\ gui[o][h] = user[h]
    BY <1>2 DEF EditOf, SyncInv, Agreement, GuiDriver
  <2>2. CASE h \notin hosts
    BY <2>1, <2>2, <1>3 DEF EditOf
  <2>3. CASE h \in hosts
    BY <2>1, <2>3 DEF EditOf
  <2> QED BY <2>2, <2>3
<1>7. FileDriver'
  BY DEF EditOf, SyncInv, Agreement, FileDriver
<1>8. ~loaded => hosts \subseteq stray'
  BY DEF EditOf, SyncInv, Users
<1>9. FileGui'
  BY <1>2, <1>3 DEF EditOf, SyncInv, Agreement, FileGui
<1>10. GuiGui'
  <2> SUFFICES ASSUME ~loaded', NEW a \in Guis, NEW b \in Guis, NEW h \in Hosts \ stray',
                      Running(a)', Running(b)'
               PROVE  gui'[a][h] = gui'[b][h]
    BY DEF GuiGui
  <2>1. gui[a][h] = gui[b][h]
    BY <1>2 DEF EditOf, SyncInv, Agreement, GuiGui
  <2>2. h \notin hosts /\ h \in Hosts
    BY <1>8 DEF EditOf
  <2>3. \A c \in Guis : gui'[c][h] = gui[c][h]
    BY <2>2, <1>3 DEF EditOf
  <2> QED BY <2>1, <2>3
<1> QED BY <1>1, <1>4, <1>5, <1>6, <1>7, <1>9, <1>10 DEF SyncInv, Agreement

(* Add is such an edit. *)
LEMMA AddEdits ==
  ASSUME NEW g \in Guis, NEW h \in Hosts, SyncInv, Add(g, h)
  PROVE  EditOf(g, {h})
<1> DEFINE list == Plus(gui[g], h)
<1>1. gui[g] \in Bags /\ user \in Bags
  BY DEF SyncInv, SyncTypeOK, Add, Editing, Running
<1>2. /\ list \in Bags /\ gui' = [gui EXCEPT ![g] = list] /\ gui'[g] = list
      /\ list[h] = gui[g][h] + 1
      /\ \A o \in Hosts \ {h} : list[o] = gui[g][o]
  BY <1>1, PlusOne, SyncAssumption DEF Add, SyncInv, SyncTypeOK
<1>3. /\ user' \in Bags
      /\ \A o \in Hosts \ {h} : user'[o] = user[o]
      /\ user' = user \/ user'[h] = user[h] + 1
  BY <1>1, PlusOne DEF Add, addHostList
<1>4. /\ Running(g)
      /\ UNCHANGED <<file, locked, loaded, valid, saving>>
      /\ unsaved' = unsaved \cup {h}
      /\ stray \subseteq stray' /\ stray' \subseteq Hosts
      /\ h \notin stray' => /\ g \in valid /\ \A o \in Guis \ {g} : ~Running(o)
                            /\ user' # user
  BY DEF Add, Editing, SyncInv, SyncTypeOK
<1> QED BY <1>2, <1>3, <1>4 DEF EditOf

(* Del likewise. *)
LEMMA DelEdits ==
  ASSUME NEW g \in Guis, NEW h \in Hosts, SyncInv, Del(g, h)
  PROVE  EditOf(g, {h})
<1> DEFINE list == Minus(gui[g], h)
<1>1. gui[g] \in Bags /\ user \in Bags
  BY DEF SyncInv, SyncTypeOK, Del, Editing, Running
<1>2. /\ list \in Bags /\ gui' = [gui EXCEPT ![g] = list] /\ gui'[g] = list
      /\ list[h] = gui[g][h] - 1 /\ gui[g][h] > 0
      /\ \A o \in Hosts \ {h} : list[o] = gui[g][o]
  BY <1>1, MinusOne DEF Del, SyncInv, SyncTypeOK
<1>3. /\ user' \in Bags
      /\ \A o \in Hosts \ {h} : user'[o] = user[o]
      /\ user[h] > 0 => user'[h] = user[h] - 1
  BY <1>1, MinusOne DEF Del, removeHostList
<1>4. /\ Running(g)
      /\ UNCHANGED <<file, locked, loaded, valid, saving>>
      /\ unsaved' = unsaved \cup {h}
      /\ stray \subseteq stray' /\ stray' \subseteq Hosts
      /\ h \notin stray' => g \in valid /\ \A o \in Guis \ {g} : ~Running(o)
  BY DEF Del, Edited, Editing, SyncInv, SyncTypeOK
<1> QED BY <1>2, <1>3, <1>4 DEF EditOf

(* The Delete key. *)
LEMMA RowDeletedEdits ==
  ASSUME NEW g \in Guis, NEW h \in Hosts, SyncInv, RowDeleted(g, h)
  PROVE  EditOf(g, {h})
<1> DEFINE list == Minus(gui[g], h)
<1>1. gui[g] \in Bags /\ user \in Bags
  BY DEF SyncInv, SyncTypeOK, RowDeleted, Editing, Running
<1>2. /\ list \in Bags /\ gui' = [gui EXCEPT ![g] = list] /\ gui'[g] = list
      /\ \A o \in Hosts \ {h} : list[o] = gui[g][o]
  BY <1>1, MinusOne DEF RowDeleted, SyncInv, SyncTypeOK
<1>3. /\ Running(g)
      /\ UNCHANGED <<file, locked, user, loaded, valid, saving>>
      /\ unsaved' = unsaved \cup {h}
      /\ stray \subseteq stray' /\ stray' \subseteq Hosts /\ h \in stray'
  BY DEF RowDeleted, Editing, SyncInv, SyncTypeOK
<1> QED BY <1>1, <1>2, <1>3 DEF EditOf

(* A cell edited in the grid. *)
LEMMA LostFocusEdits ==
  ASSUME NEW g \in Guis, NEW old \in Hosts, NEW new \in Hosts, SyncInv, s_LostFocus(g, old, new)
  PROVE  EditOf(g, {old, new})
<1> DEFINE rest == Minus(user, old)
           less == Minus(gui[g], old)
<1>1. gui[g] \in Bags /\ user \in Bags
  BY DEF SyncInv, SyncTypeOK, s_LostFocus, Editing, Running
<1>2. old # new /\ gui[g][old] > 0 /\ user[new] < MaxCopies
  BY DEF s_LostFocus
<1>3. /\ rest \in Bags
      /\ user[old] > 0 => rest[old] = user[old] - 1
      /\ \A o \in Hosts \ {old} : rest[o] = user[o]
  BY <1>1, MinusOne
<1>4. /\ less \in Bags
      /\ less[old] = gui[g][old] - 1
      /\ \A o \in Hosts \ {old} : less[o] = gui[g][o]
  BY <1>1, <1>2, MinusOne
<1>5. /\ Running(g)
      /\ UNCHANGED <<file, locked, loaded, valid, saving>>
      /\ unsaved' = unsaved \cup {old, new}
      /\ stray \subseteq stray' /\ stray' \subseteq Hosts
      /\ ~({old, new} \subseteq stray') => /\ g \in valid /\ \A o \in Guis \ {g} : ~Running(o)
                                           /\ user'[new] # user[new] \/ gui[g][new] > 0
  BY <1>1 DEF s_LostFocus, Editing, SyncInv, SyncTypeOK, Bags
<1>6. CASE gui[g][new] > 0
  <2>1. user' = rest /\ gui' = [gui EXCEPT ![g] = less] /\ gui'[g] = less
    BY <1>6 DEF s_LostFocus, SyncInv, SyncTypeOK
  <2> QED BY <1>2, <1>3, <1>4, <1>5, <2>1 DEF EditOf
<1>7. CASE ~(gui[g][new] > 0)
  <2>1. gui[g][new] = 0
    BY <1>1, <1>7, SyncAssumption DEF Bags
  <2>2. /\ user' \in {rest, Plus(rest, new)}
        /\ gui' = [gui EXCEPT ![g] = Plus(less, new)] /\ gui'[g] = Plus(less, new)
    BY <1>7 DEF s_LostFocus, SyncInv, SyncTypeOK
  <2>3. /\ Plus(less, new) \in Bags
        /\ Plus(less, new)[new] = 1
        /\ \A o \in Hosts \ {new} : Plus(less, new)[o] = less[o]
    BY <1>2, <1>4, <2>1, PlusOne, SyncAssumption
  <2>4. /\ user' \in Bags
        /\ \A o \in Hosts \ {new} : user'[o] = rest[o]
        /\ user'[new] \in {user[new], user[new] + 1}
    BY <1>2, <1>3, <2>2, PlusOne
  <2>5. \A h \in Hosts \ {old, new} : user'[h] = user[h] /\ gui'[g][h] = gui[g][h]
    BY <1>3, <1>4, <2>2, <2>3, <2>4
  <2>6. gui[g][old] = user[old] => gui'[g][old] = user'[old]
    BY <1>2, <1>3, <1>4, <2>2, <2>3, <2>4
  <2>7. gui[g][new] = user[new] /\ user'[new] # user[new] => gui'[g][new] = user'[new]
    BY <2>1, <2>2, <2>3, <2>4
  <2>8. \A h \in {old, new} \ stray' :
          /\ g \in valid /\ \A o \in Guis \ {g} : ~Running(o)
          /\ gui[g][h] = user[h] => gui'[g][h] = user'[h]
    BY <1>5, <1>7, <2>6, <2>7
  <2> QED BY <1>5, <2>2, <2>3, <2>4, <2>5, <2>8 DEF EditOf
<1> QED BY <1>6, <1>7

(* The same where Del has found another row than the grid has. *)
LEMMA CommitOtherEdits ==
  ASSUME NEW g \in Guis, NEW old \in Hosts, NEW new \in Hosts, SyncInv, CommitOther(g, old, new)
  PROVE  EditOf(g, {old, new})
<1> DEFINE less == Minus(Minus(gui[g], old), old)
           list == Plus(Plus(less, new), new)
<1>1. gui[g] \in Bags /\ user \in Bags
  BY DEF SyncInv, SyncTypeOK, CommitOther, Editing, Running
<1>2. old # new /\ gui[g][new] = 0 /\ MaxCopies > 1 /\ user[new] < MaxCopies
  BY <1>1 DEF CommitOther
<1>3. /\ less \in Bags /\ \A o \in Hosts \ {old} : less[o] = gui[g][o]
  BY <1>1, MinusOne
<1>4. /\ Plus(less, new) \in Bags /\ Plus(less, new)[new] = 1
      /\ \A o \in Hosts \ {new} : Plus(less, new)[o] = less[o]
  BY <1>2, <1>3, PlusOne, SyncAssumption
<1>5. /\ list \in Bags /\ \A o \in Hosts \ {old, new} : list[o] = gui[g][o]
  BY <1>2, <1>3, <1>4, PlusOne, SyncAssumption
<1>6. /\ user' \in Bags /\ \A o \in Hosts \ {old, new} : user'[o] = user[o]
  <2>1. Minus(user, old) \in Bags /\ \A o \in Hosts \ {old} : Minus(user, old)[o] = user[o]
    BY <1>1, MinusOne
  <2> QED BY <1>2, <2>1, PlusOne DEF CommitOther
<1>7. /\ Running(g)
      /\ UNCHANGED <<file, locked, loaded, valid, saving>>
      /\ gui' = [gui EXCEPT ![g] = list] /\ gui'[g] = list
      /\ unsaved' = unsaved \cup {old, new}
      /\ stray \subseteq stray' /\ stray' \subseteq Hosts /\ {old, new} \subseteq stray'
  BY DEF CommitOther, Editing, SyncInv, SyncTypeOK
<1> QED BY <1>5, <1>6, <1>7 DEF EditOf

(* The same where the grid commits first. *)
LEMMA CommitFirstEdits ==
  ASSUME NEW g \in Guis, NEW old \in Hosts, NEW new \in Hosts, SyncInv, CommitFirst(g, old, new)
  PROVE  EditOf(g, {old, new})
<1> DEFINE one == Minus(gui[g], old)
           two == Minus(one, old)
<1>1. gui[g] \in Bags /\ user \in Bags
  BY DEF SyncInv, SyncTypeOK, CommitFirst, Editing, Running
<1>2. old # new /\ gui[g][new] < MaxCopies
  BY DEF CommitFirst
<1>3. /\ one \in Bags /\ two \in Bags
      /\ \A o \in Hosts \ {old} : one[o] = gui[g][o] /\ two[o] = gui[g][o]
  BY <1>1, MinusOne
<1>4. \A less \in {one, two} :
        /\ Plus(less, new) \in Bags
        /\ \A o \in Hosts \ {old, new} : Plus(less, new)[o] = gui[g][o]
  BY <1>2, <1>3, PlusOne
<1>5. \E less \in {one, two} :
        gui' = [gui EXCEPT ![g] = Plus(less, new)] /\ gui'[g] = Plus(less, new)
  BY DEF CommitFirst, SyncInv, SyncTypeOK
<1>6. user' \in Bags /\ \A o \in Hosts \ {old} : user'[o] = user[o]
  BY <1>1, MinusOne DEF CommitFirst, removeHostList
<1>7. /\ Running(g)
      /\ UNCHANGED <<file, locked, loaded, valid, saving>>
      /\ unsaved' = unsaved \cup {old, new}
      /\ stray \subseteq stray' /\ stray' \subseteq Hosts /\ {old, new} \subseteq stray'
  BY DEF CommitFirst, Editing, SyncInv, SyncTypeOK
<1> QED BY <1>4, <1>5, <1>6, <1>7 DEF EditOf

-----------------------------------------------------------------------------
(* The other steps.                                                        *)

(* The initial states satisfy the invariant. *)
LEMMA Initially == SyncInit => SyncInv
<1> SUFFICES ASSUME SyncInit PROVE SyncInv
  OBVIOUS
<1>1. SyncTypeOK
  BY Subsets, SyncAssumption DEF SyncInit, SyncTypeOK
<1>2. \A g \in Guis : ~Running(g)
  BY DEF SyncInit, Running
<1> QED BY <1>1, <1>2 DEF SyncInit, SyncInv, Users, Editor, Agreement, GuiDriver, FileDriver,
     FileGui, GuiGui

(* The driver reads the file. *)
LEMMA Loading == ASSUME SyncInv, load_file PROVE SyncInv'
<1>1. SyncTypeOK'
  BY Subsets DEF SyncInv, SyncTypeOK, load_file, Lines
<1>2. UNCHANGED <<gui, valid, saving, unsaved, file>> /\ loaded' = TRUE /\ ~loaded
  BY DEF load_file
<1>3. stray \subseteq stray'
  BY DEF load_file, SyncInv, SyncTypeOK
<1>4. \A h \in Hosts \ stray' : user'[h] = file[h] /\ saving = {}
  BY Subsets DEF load_file, SyncInv, SyncTypeOK, Lines, Readable
<1>5. Users' /\ Editor'
  BY <1>2, <1>3 DEF SyncInv, Users, Editor, Alone, Running
<1>6. unsaved \subseteq stray
  BY <1>2 DEF SyncInv, Users, Editor, Alone
<1>7. GuiDriver'
  BY <1>2, <1>3, <1>4, <1>6 DEF GuiDriver, SyncInv, Agreement, FileGui, Running
<1>8. FileDriver' /\ FileGui' /\ GuiGui'
  BY <1>2, <1>4 DEF FileDriver, FileGui, GuiGui
<1> QED BY <1>1, <1>5, <1>7, <1>8 DEF SyncInv, Agreement

(* It reads the file in vain. *)
LEMMA LoadingUndone == ASSUME SyncInv, load_file_undone PROVE SyncInv'
  BY DEF SyncInv, SyncTypeOK, load_file_undone, Users, Editor, Alone, Running, Agreement,
     GuiDriver, FileDriver, FileGui, GuiGui

(* The driver forgets its list. *)
LEMMA Unloading == ASSUME SyncInv, unload_cfg PROVE SyncInv'
<1>1. SyncTypeOK'
  BY Subsets DEF SyncInv, SyncTypeOK, unload_cfg
<1>2. UNCHANGED <<gui, valid, saving, unsaved, stray, file>> /\ ~loaded' /\ loaded /\ valid = {}
  BY DEF unload_cfg
<1>3. Users' /\ Editor'
  BY <1>2 DEF SyncInv, Users, Editor, Alone, Running
<1>4. FileGui' /\ GuiGui'
  BY <1>2 DEF SyncInv, Agreement, GuiDriver, FileDriver, FileGui, GuiGui, Running
<1>5. GuiDriver' /\ FileDriver'
  BY <1>2 DEF GuiDriver, FileDriver
<1> QED BY <1>1, <1>3, <1>4, <1>5 DEF SyncInv, Agreement

(* The machine stops. *)
LEMMA PoweringOff == ASSUME SyncInv, PowerOff PROVE SyncInv'
<1>1. SyncTypeOK'
  BY Subsets DEF SyncInv, SyncTypeOK, PowerOff
<1>2. \A g \in Guis : ~Running(g)'
  BY DEF PowerOff, Running
<1> QED BY <1>1, <1>2 DEF PowerOff, SyncInv, Users, Editor, Agreement, GuiDriver, FileDriver,
     FileGui, GuiGui

(* The console. *)
LEMMA ConsoleKeeps == ASSUME SyncInv, NEW h \in Hosts, adfcon(h) PROVE SyncInv'
<1>1. user \in Bags
  BY DEF SyncInv, SyncTypeOK
<1>2. user' \in Bags /\ \A o \in Hosts \ {h} : user'[o] = user[o]
  BY <1>1, PlusOne, MinusOne DEF adfcon, addHostList, removeHostList
<1>3. /\ UNCHANGED <<file, locked, loaded, gui, valid, saving, unsaved>>
      /\ stray' = stray \cup {h}
  BY DEF adfcon
<1> QED BY <1>2, <1>3 DEF SyncInv, SyncTypeOK, Users, Editor, Alone, Running, Agreement,
     GuiDriver, FileDriver, FileGui, GuiGui

(* An application starts. *)
LEMMA Starting == ASSUME SyncInv, NEW g \in Guis, HostViewModel(g) PROVE SyncInv'
<1>1. SyncTypeOK'
  BY Subsets DEF SyncInv, SyncTypeOK, HostViewModel
<1>2. /\ UNCHANGED <<file, user, loaded, saving, unsaved>> /\ ~Running(g)
      /\ valid' = valid \/ (loaded /\ valid' = valid \cup {g})
      /\ stray \cup unsaved \subseteq stray'
  BY DEF HostViewModel, SyncInv, SyncTypeOK
<1>3. /\ gui'[g] \in Bags /\ \A o \in Guis \ {g} : gui'[o] = gui[o]
      /\ \A h \in Hosts \ stray' : saving = {} /\ gui'[g][h] = file[h]
  BY Subsets DEF HostViewModel, SyncInv, SyncTypeOK, Readable
<1>4. Running(g)' /\ \A o \in Guis \ {g} : Running(o)' <=> Running(o)
  BY <1>3, SyncAssumption DEF Running
<1>5. Users' /\ Editor'
  BY <1>2, <1>4 DEF SyncInv, SyncTypeOK, Users, Editor
<1>6. GuiDriver'
  BY <1>2, <1>3, <1>4 DEF SyncInv, Agreement, GuiDriver, FileDriver
<1>7. FileDriver'
  BY <1>2 DEF SyncInv, Agreement, FileDriver
<1>8. FileGui' /\ GuiGui'
  BY <1>2, <1>3, <1>4 DEF SyncInv, Agreement, FileGui, GuiGui
<1> QED BY <1>1, <1>5, <1>6, <1>7, <1>8 DEF SyncInv, Agreement

(* An application ends, with what it had not saved astray. *)
Ends(g) ==
  /\ UNCHANGED <<file, user, loaded, unsaved>>
  /\ gui' = [gui EXCEPT ![g] = Closed] /\ valid' = valid \ {g}
  /\ saving' = saving \ {g}
  /\ stray \cup unsaved \subseteq stray'
  /\ saving' # saving => stray' = Hosts

(* The end of an application keeps the invariant. *)
LEMMA EndKeeps == ASSUME SyncInv, NEW g \in Guis, Ends(g), SyncTypeOK' PROVE SyncInv'
<1>1. ~Running(g)' /\ \A o \in Guis \ {g} : gui'[o] = gui[o] /\ (Running(o)' <=> Running(o))
  BY DEF Ends, Running, SyncInv, SyncTypeOK
<1>2. Users' /\ Editor'
  BY <1>1 DEF SyncInv, SyncTypeOK, Users, Editor, Ends
<1>3. GuiDriver' /\ GuiGui'
  BY <1>1 DEF SyncInv, Agreement, GuiDriver, GuiGui, Ends
<1>4. FileDriver' /\ FileGui'
  BY <1>1 DEF SyncInv, Agreement, FileDriver, FileGui, Ends
<1> QED BY <1>2, <1>3, <1>4 DEF SyncInv, Agreement

(* An application closes its window. *)
LEMMA Disposing == ASSUME SyncInv, NEW g \in Guis, Dispose(g) PROVE SyncInv'
<1>1. SyncTypeOK'
  BY Subsets DEF SyncInv, SyncTypeOK, Dispose
<1>2. CASE Readable
  <2>1. /\ saving = {} /\ saving' = {g} /\ Running(g)
        /\ UNCHANGED <<gui, valid, stray, user, loaded, unsaved>>
    BY <1>2 DEF Dispose, Readable, Editing
  <2>2. \A o \in Guis : Running(o)' <=> Running(o)
    BY <2>1 DEF Running
  <2>3. Users'
    BY <2>1, <2>2 DEF SyncInv, SyncTypeOK, Users
  <2>4. Editor'
    BY <2>1, <2>2 DEF SyncInv, Editor, Alone
  <2>5. GuiDriver' /\ GuiGui'
    BY <2>1, <2>2 DEF SyncInv, Agreement, GuiDriver, GuiGui
  <2>6. FileDriver' /\ FileGui'
    BY <2>1 DEF FileDriver, FileGui
  <2> QED BY <1>1, <2>3, <2>4, <2>5, <2>6 DEF SyncInv, Agreement
<1>3. CASE ~Readable
  <2>1. Ends(g)
    BY <1>3 DEF Dispose, Ends, Editing, SyncInv, SyncTypeOK
  <2> QED BY <1>1, <2>1, EndKeeps
<1> QED BY <1>2, <1>3

(* It has written the file: now the file is what it showed. *)
LEMMA Flushing == ASSUME SyncInv, NEW g \in Guis, Flush(g) PROVE SyncInv'
<1>1. Running(g) /\ gui[g] \in Bags
  BY DEF SyncInv, Users, Flush, SyncTypeOK, Running
<1>2. SyncTypeOK'
  BY <1>1 DEF SyncInv, SyncTypeOK, Flush
<1>3. ~Running(g)' /\ \A o \in Guis \ {g} : gui'[o] = gui[o] /\ (Running(o)' <=> Running(o))
  BY DEF Flush, Running, SyncInv, SyncTypeOK
<1>4. /\ UNCHANGED <<user, loaded, stray>> /\ file' = gui[g] /\ saving' = {} /\ unsaved' = {}
      /\ valid' = valid \ {g}
  BY DEF Flush
<1>5. Users' /\ Editor'
  BY <1>3, <1>4 DEF SyncInv, SyncTypeOK, Users, Editor
<1>6. GuiDriver' /\ GuiGui'
  BY <1>3, <1>4 DEF SyncInv, Agreement, GuiDriver, GuiGui
<1>7. FileDriver' /\ FileGui'
  BY <1>1, <1>3, <1>4 DEF SyncInv, Agreement, GuiDriver, GuiGui, FileDriver, FileGui
<1> QED BY <1>2, <1>5, <1>6, <1>7 DEF SyncInv, Agreement

(* A process is killed. *)
LEMMA Killing == ASSUME SyncInv, NEW g \in Guis, Killed(g) PROVE SyncInv'
<1>1. SyncTypeOK'
  BY DEF SyncInv, SyncTypeOK, Killed
<1>2. Ends(g)
  BY DEF Killed, Ends, SyncInv, SyncTypeOK
<1> QED BY <1>1, <1>2, EndKeeps

-----------------------------------------------------------------------------
(* Every step of the lists keeps the invariant. *)
LEMMA SyncStep == SyncInv /\ [SyncNext]_syncVars => SyncInv'
<1> SUFFICES ASSUME SyncInv, [SyncNext]_syncVars PROVE SyncInv'
  OBVIOUS
<1>1. CASE load_file
  BY <1>1, Loading
<1>2. CASE load_file_undone
  BY <1>2, LoadingUndone
<1>3. CASE unload_cfg
  BY <1>3, Unloading
<1>4. CASE PowerOff
  BY <1>4, PoweringOff
<1>5. ASSUME NEW h \in Hosts, adfcon(h) PROVE SyncInv'
  BY <1>5, ConsoleKeeps
<1>6. ASSUME NEW g \in Guis, HostViewModel(g) \/ Dispose(g) \/ Flush(g) \/ Killed(g)
      PROVE  SyncInv'
  BY <1>6, Starting, Disposing, Flushing, Killing
<1>7. ASSUME NEW g \in Guis, NEW h \in Hosts, Add(g, h) \/ Del(g, h) \/ RowDeleted(g, h)
      PROVE  SyncInv'
  <2>1. EditOf(g, {h})
    BY <1>7, AddEdits, DelEdits, RowDeletedEdits
  <2> QED BY <2>1, EditKeeps
<1>8. ASSUME NEW g \in Guis, NEW old \in Hosts, NEW new \in Hosts,
             s_LostFocus(g, old, new) \/ CommitFirst(g, old, new) \/ CommitOther(g, old, new)
      PROVE  SyncInv'
  <2>1. EditOf(g, {old, new})
    BY <1>8, LostFocusEdits, CommitFirstEdits, CommitOtherEdits
  <2> QED BY <2>1, EditKeeps
<1>9. CASE UNCHANGED syncVars
  BY <1>9 DEF syncVars, SyncInv, SyncTypeOK, Users, Editor, Alone, Running, Agreement,
     GuiDriver, FileDriver, FileGui, GuiGui
<1> QED BY <1>1, <1>2, <1>3, <1>4, <1>5, <1>6, <1>7, <1>8, <1>9 DEF SyncNext

(* What the invariant says of lists that are at rest. *)
LEMMA SyncInvImplies == SyncInv => ListsAgree
<1> SUFFICES ASSUME SyncInv PROVE ListsAgree
  OBVIOUS
<1>1. ASSUME NEW g \in Guis, NEW h \in Hosts, loaded, Editing(g), h \notin stray
      PROVE  gui[g][h] = user[h]
  BY <1>1 DEF SyncInv, Agreement, GuiDriver, Editing
<1>2. ASSUME NEW h \in Hosts, loaded, Quiet, h \notin stray
      PROVE  file[h] = user[h]
  <2>1. saving = {} /\ valid = {}
    BY <1>2 DEF Quiet, SyncInv, Users, SyncTypeOK
  <2>2. unsaved \subseteq stray
    BY <2>1 DEF SyncInv, Editor, Alone
  <2> QED BY <1>2, <2>1, <2>2 DEF SyncInv, Agreement, FileDriver
<1> QED BY <1>1, <1>2 DEF ListsAgree

(* The lists, the file and the handles keep their types (HostViewModel.cs, *)
(* list.c): no entry is taken out of a list that does not hold it.         *)
THEOREM SyncTypeCorrect == SyncSpec => []SyncTypeOK
<1>1. SyncInv => SyncTypeOK
  BY DEF SyncInv
<1> QED BY Initially, SyncStep, <1>1, PTL DEF SyncSpec

(* What an application shows is what the driver filters by, and what the   *)
(* file says once none runs, for every host that has not gone astray       *)
(* (HostViewModel.cs:37-84, 101-142).                                      *)
THEOREM ListsKeepAgreeing == SyncSpec => []ListsAgree
  BY Initially, SyncStep, SyncInvImplies, PTL DEF SyncSpec
=============================================================================

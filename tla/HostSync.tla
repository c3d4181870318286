------------------------------ MODULE HostSync ------------------------------
(***************************************************************************)
(* The three copies of a list of hosts: the file, the driver's list        *)
(* (adfilter.c, dispatch.c, list.c) and the list of each running desktop   *)
(* application (HostViewModel.cs, HostEdit.xaml.cs).  The user and the     *)
(* except list are alike; one of them is modelled.                         *)
(*                                                                         *)
(* The driver reads the file when it is loaded.  The application reads it  *)
(* when it starts, carries every edit out in the driver and in its own     *)
(* list, and writes the file when it ends.  The console tool reaches the   *)
(* driver alone.  A list is a bag: nothing depends on the order.           *)
(***************************************************************************)
EXTENDS Integers, FiniteSets

CONSTANTS
  Hosts,      \* valid host names
  Guis,       \* instances of the desktop application
  MaxCopies,  \* bound: entries of one host in a list
  Closed      \* the list of an instance that is not running

Bags == [Hosts -> 0..MaxCopies]
Empty == [h \in Hosts |-> 0]

ASSUME SyncAssumption == MaxCopies \in Nat /\ MaxCopies > 0 /\ Closed \notin Bags

VARIABLES
  file,      \* UserFilePath
  locked,    \* the file is open in the driver
  user,      \* Adf.AdHost.user
  loaded,    \* the driver's lists are there
  gui,       \* instance -> Hosts
  valid,     \* instances that have opened the control device
  saving,    \* instances that are writing the file
  unsaved,   \* history: hosts edited since the file was written
  stray      \* history: hosts edited in a way that does not reach every list

syncVars == <<file, locked, user, loaded, gui, valid, saving, unsaved, stray>>

Running(g) == gui[g] # Closed
Quiet == \A g \in Guis : ~Running(g)

SyncTypeOK ==
  /\ file \in Bags /\ user \in Bags
  /\ locked \in BOOLEAN /\ loaded \in BOOLEAN
  /\ gui \in [Guis -> Bags \cup {Closed}]
  /\ valid \subseteq Guis /\ saving \subseteq Guis
  /\ unsaved \subseteq Hosts /\ stray \subseteq Hosts

SyncInit ==
  /\ file \in Bags /\ locked = FALSE /\ user = Empty /\ loaded = FALSE
  /\ gui = [g \in Guis |-> Closed] /\ valid = {} /\ saving = {}
  /\ unsaved = {} /\ stray = {}

Plus(bag, h) == [bag EXCEPT ![h] = @ + 1]
(* Fault: an entry is taken out that is not there. *)
Minus_Unchecked(bag, h) == [bag EXCEPT ![h] = @ - 1]
Minus(bag, h) == IF bag[h] > 0 THEN [bag EXCEPT ![h] = @ - 1] ELSE bag
Without(bag, lost) == [h \in Hosts |-> IF h \in lost THEN 0 ELSE bag[h]]

-----------------------------------------------------------------------------
(* The driver.                                                             *)

(* A file that is being written, or is open in the driver, cannot be       *)
(* opened.                                                                 *)
Readable == saving = {} /\ ~locked

Lines == {h \in Hosts : file[h] > 0}

(* load_file: every line becomes an entry until there is no memory for     *)
(* one; the file then stays open until the machine stops.                  *)
load_file ==
  /\ ~loaded /\ loaded' = TRUE
  /\ IF Readable
     THEN \E lost \in SUBSET Lines :
            /\ user' = Without(file, lost)
            /\ locked' = (lost # {}) /\ stray' = stray \cup lost
     ELSE user' = Empty /\ stray' = Hosts /\ UNCHANGED locked
  /\ UNCHANGED <<file, gui, valid, saving, unsaved>>

(* The list is loaded and cleared again, since there is no control device; *)
(* its file may stay open.                                                 *)
load_file_undone ==
  /\ ~loaded
  /\ Readable /\ Lines # {} /\ locked' = TRUE
  /\ UNCHANGED <<file, user, loaded, gui, valid, saving, unsaved, stray>>

(* unload_cfg: the I/O manager has waited for the handles. *)
unload_cfg ==
  /\ loaded /\ valid = {}
  /\ loaded' = FALSE /\ user' = Empty
  /\ UNCHANGED <<file, locked, gui, valid, saving, unsaved, stray>>

(* The machine stops; a file that was being written stays as it is. *)
PowerOff ==
  /\ loaded' = FALSE /\ user' = Empty
  /\ gui' = [g \in Guis |-> Closed] /\ valid' = {} /\ saving' = {}
  /\ unsaved' = {} /\ stray' = {} /\ locked' = FALSE
  /\ UNCHANGED file

(* device_control: IOCTL_ADF_ADD_USER_HOST, which reports success even if  *)
(* there was no memory for the entry.                                      *)
addHostList(h) == user' = Plus(user, h) \/ user' = user
(* IOCTL_ADF_DEL_USER_HOST, likewise if there is no such entry. *)
removeHostList(h) == user' = Minus(user, h)

(* adfcon: the driver's list alone. *)
adfcon(h) ==
  /\ loaded
  /\ (user[h] < MaxCopies /\ addHostList(h)) \/ removeHostList(h)
  /\ stray' = stray \cup {h}
  /\ UNCHANGED <<file, locked, loaded, gui, valid, saving, unsaved>>

-----------------------------------------------------------------------------
(* The desktop application.                                                *)

(* Its start: the control device is opened, if that succeeds, and the file *)
(* is read, if it can be.  The edits of another instance are not in it yet.*)
HostViewModel(g) ==
  /\ ~Running(g)
  /\ valid' = valid \/ (loaded /\ valid' = valid \cup {g})
  /\ IF Readable
     THEN gui' = [gui EXCEPT ![g] = file] /\ stray' = stray \cup unsaved
     ELSE gui' = [gui EXCEPT ![g] = Empty] /\ stray' = Hosts
  /\ UNCHANGED <<file, locked, user, loaded, saving, unsaved>>

Editing(g) == Running(g) /\ g \notin saving

(* An edit is not saved yet, and unknown to the other instances. *)
Edited(g, hosts) ==
  /\ unsaved' = unsaved \cup hosts
  /\ stray' = IF \E o \in Guis \ {g} : Running(o) THEN stray \cup hosts ELSE stray

(* Fault: the list is changed whether or not the driver has done it. *)
Add_Unchecked(g, h) ==
  /\ Editing(g) /\ gui[g][h] = 0
  /\ user[h] < MaxCopies
  /\ user' = IF g \in valid THEN Plus(user, h) ELSE user
  /\ gui' = [gui EXCEPT ![g] = Plus(@, h)]
  /\ Edited(g, {h})
  /\ UNCHANGED <<file, locked, loaded, valid, saving>>

(* Add: a host that is in the list is refused; without a handle nothing    *)
(* is done.                                                                *)
Add(g, h) ==
  /\ Editing(g) /\ g \in valid /\ gui[g][h] = 0
  /\ user[h] < MaxCopies
  /\ addHostList(h)
  /\ gui' = [gui EXCEPT ![g] = Plus(@, h)]
  /\ unsaved' = unsaved \cup {h}
  /\ stray' = IF user' = user \/ (\E o \in Guis \ {g} : Running(o)) THEN stray \cup {h} ELSE stray
  /\ UNCHANGED <<file, locked, loaded, valid, saving>>

(* Del *)
Del(g, h) ==
  /\ Editing(g) /\ g \in valid /\ gui[g][h] > 0
  /\ removeHostList(h)
  /\ gui' = [gui EXCEPT ![g] = Minus(@, h)]
  /\ Edited(g, {h})
  /\ UNCHANGED <<file, locked, loaded, valid, saving>>

(* s_LostFocus before the grid commits the cell: the old host is deleted   *)
(* and the new one added, unless it is there (a new text that is no host   *)
(* is Del alone).                                                          *)
s_LostFocus(g, old, new) ==
  /\ Editing(g) /\ g \in valid /\ gui[g][old] > 0 /\ old # new
  /\ user[new] < MaxCopies
  /\ LET rest == Minus(user, old) IN
     IF gui[g][new] > 0
     THEN user' = rest /\ gui' = [gui EXCEPT ![g] = Minus(@, old)]
     ELSE /\ user' \in {rest, Plus(rest, new)}
          /\ gui' = [gui EXCEPT ![g] = Plus(Minus(@, old), new)]
  /\ unsaved' = unsaved \cup {old, new}
  /\ stray' = IF (user'[new] = user[new] /\ gui[g][new] = 0)
                 \/ (\E o \in Guis \ {g} : Running(o))
              THEN stray \cup {old, new} ELSE stray
  /\ UNCHANGED <<file, locked, loaded, valid, saving>>

(* Of several entries of the old host Del finds the first, which need not  *)
(* be the one whose cell the grid then commits.                            *)
CommitOther(g, old, new) ==
  /\ Editing(g) /\ g \in valid /\ gui[g][old] > 1 /\ gui[g][new] = 0
  /\ MaxCopies > 1 /\ user[new] < MaxCopies
  /\ user' \in {Minus(user, old), Plus(Minus(user, old), new)}
  /\ gui' = [gui EXCEPT ![g] = Plus(Plus(Minus(Minus(@, old), old), new), new)]
  /\ unsaved' = unsaved \cup {old, new} /\ stray' = stray \cup {old, new}
  /\ UNCHANGED <<file, locked, loaded, valid, saving>>

(* The grid commits first: the entry has its new text when s_LostFocus     *)
(* looks for the old one, finds at most another entry of it to delete, and *)
(* finds the new one there already.                                        *)
CommitFirst(g, old, new) ==
  /\ Editing(g) /\ gui[g][old] > 0 /\ old # new
  /\ gui[g][new] < MaxCopies
  /\ IF g \in valid /\ gui[g][old] > 1
     THEN /\ removeHostList(old)
          /\ gui' = [gui EXCEPT ![g] = Plus(Minus(Minus(@, old), old), new)]
     ELSE /\ gui' = [gui EXCEPT ![g] = Plus(Minus(@, old), new)]
          /\ UNCHANGED user
  /\ unsaved' = unsaved \cup {old, new} /\ stray' = stray \cup {old, new}
  /\ UNCHANGED <<file, locked, loaded, valid, saving>>

(* The Delete key: the grid removes the row, and the driver is not asked. *)
RowDeleted(g, h) ==
  /\ Editing(g) /\ gui[g][h] > 0
  /\ gui' = [gui EXCEPT ![g] = Minus(@, h)]
  /\ unsaved' = unsaved \cup {h} /\ stray' = stray \cup {h}
  /\ UNCHANGED <<file, locked, user, loaded, valid, saving>>

(* Dispose: the file is opened, which empties it; if it cannot be, the     *)
(* exception is swallowed and nothing is saved.                            *)
Dispose(g) ==
  /\ Editing(g)
  /\ IF Readable
     THEN /\ saving' = {g} /\ file' = Empty
          /\ UNCHANGED <<gui, valid, stray>>
     ELSE /\ gui' = [gui EXCEPT ![g] = Closed] /\ valid' = valid \ {g}
          /\ stray' = stray \cup unsaved
          /\ UNCHANGED <<saving, file>>
  /\ UNCHANGED <<locked, user, loaded, unsaved>>

(* sw.Flush, and the process ends. *)
Flush(g) ==
  /\ g \in saving
  /\ file' = gui[g]
  /\ saving' = {}
  /\ gui' = [gui EXCEPT ![g] = Closed] /\ valid' = valid \ {g}
  /\ unsaved' = {}
  /\ UNCHANGED <<locked, user, loaded, stray>>

(* The process is killed; its edits are lost, or what it had not written   *)
(* of the file.                                                            *)
Killed(g) ==
  /\ Running(g)
  /\ gui' = [gui EXCEPT ![g] = Closed] /\ valid' = valid \ {g}
  /\ stray' = IF g \in saving THEN Hosts ELSE stray \cup unsaved
  /\ saving' = saving \ {g}
  /\ UNCHANGED <<file, locked, user, loaded, unsaved>>

SyncNext ==
  \/ load_file \/ load_file_undone \/ unload_cfg \/ PowerOff
  \/ \E h \in Hosts : adfcon(h)
  \/ \E g \in Guis :
       \/ HostViewModel(g) \/ Dispose(g) \/ Flush(g) \/ Killed(g)
       \/ \E h \in Hosts : Add(g, h) \/ Del(g, h) \/ RowDeleted(g, h)
       \/ \E old, new \in Hosts : s_LostFocus(g, old, new) \/ CommitFirst(g, old, new)
                                \/ CommitOther(g, old, new)

SyncSpec == SyncInit /\ [][SyncNext]_syncVars

-----------------------------------------------------------------------------
(* What the user sees in the application is what the driver filters by,    *)
(* and when no application runs it is what the driver would read from the  *)
(* file at the next start.  Excepted are the hosts of which one list could *)
(* not know: edited from the console, with the Delete key or in a cell     *)
(* that was committed first, while another instance was running or before  *)
(* it started, not added for want of memory, or lost with a process that   *)
(* was killed or could not save (HostViewModel.cs:123).                    *)
ListsAgree ==
  /\ \A g \in Guis, h \in Hosts :
       loaded /\ Editing(g) /\ h \notin stray => gui[g][h] = user[h]
  /\ \A h \in Hosts :
       loaded /\ Quiet /\ h \notin stray => file[h] = user[h]
=============================================================================

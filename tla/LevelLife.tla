----------------------------- MODULE LevelLife -----------------------------
(***************************************************************************)
(* How a level comes and goes (shared.c, client_list.c, teleport.c,        *)
(* loadsave.c): clients enter it, loaders they fork open it in the         *)
(* background, clients change it, and the saver writes the .cw file and    *)
(* removes the level's files when nobody is on it.  The files are removed  *)
(* under system_lock but opened under level_lock, which is itself one of   *)
(* the files; the dirty flag is shared memory written by both sides.       *)
(*                                                                         *)
(* An edit is its number, the contents of the map the set of the edits in  *)
(* it; 0 stands for the map as it was before the first edit.  A process    *)
(* keeps the files it has mapped when their names are removed: mine[t] is  *)
(* the part of them that still is what the names stand for.                *)
(***************************************************************************)
EXTENDS Integers, FiniteSets

CONSTANTS
  User,         \* clients
  NoUser,       \* the user of the saver's task
  MaxEdits,     \* bound: edits
  QueueLen,     \* edits after which the saver's place in the queue is overrun
  MayDie,       \* may a process die while it loads the map
  MaxFails      \* bound: how often opening the level fails

ASSUME LifeAssumption ==
  /\ NoUser \notin User
  /\ MaxEdits \in Nat
  /\ QueueLen \in Nat \ {0}
  /\ MayDie \in BOOLEAN
  /\ MaxFails \in Nat

Client(u) == <<u, "client">>
Loader(u) == <<u, "loader">>
Saver == <<NoUser, "saver">>
Task == {Client(u) : u \in User} \cup {Loader(u) : u \in User} \cup {Saver}

Edit == 1 .. MaxEdits
NoEdit == 0
Map == 0
File == {"lock", "props", "blocks"}

VARIABLES
  \* the entry of the level table, and what the client list says of the users
  loaded, force_unload, on_level, summon,
  \* the level's files: properties ("none", "new", "valid") with dirty_save,
  \* the blocks (whether there is a file, and its contents), the .cw file
  props, dirty_save, has_blocks, blocks, cw,
  \* the tasks: where they are, which of the files they have mapped, and whether
  \* one that fails to open them is to remove them; how many have failed
  stage, mine, del_on_err, fails,
  \* an edit a client has written to the blocks and not yet queued
  unqueued,
  \* the saver's variables: do_timed_save, level_in_use, no_unload, the edits
  \* queued when it took its place, and what it is writing
  timed, level_in_use, no_unload, base, tmp,
  \* history: edits made, and those that may be lost, see EditsKept
  made, exposed,
  \* history: a file was removed while a loader was opening the level; one that
  \* failed to open it removed what was not its own, or left what is no map
  overtaken, spoilt

tableVars == <<loaded, force_unload, on_level, summon>>
fileVars == <<props, dirty_save, has_blocks, blocks>>
saverVars == <<timed, level_in_use, no_unload, base, tmp>>
failVars == <<del_on_err, fails, spoilt>>
histVars == <<made, exposed, overtaken>>
vars == <<tableVars, fileVars, cw, stage, mine, failVars, unqueued, saverVars, histVars>>

Opening == {"lock", "wait", "props", "load"}
Removing == {"remove", "remove2"}
Window == {"fetched", "renamed"}
Unlinking == {"unlink", "unlink2"}

TypeOK ==
  /\ {loaded, force_unload, dirty_save, has_blocks, timed, level_in_use, no_unload,
      overtaken, spoilt} \subseteq BOOLEAN
  /\ {on_level, summon} \subseteq [User -> BOOLEAN]
  /\ props \in {"none", "new", "valid"}
  /\ {blocks, cw, base, tmp, made, exposed} \subseteq SUBSET (Edit \cup {Map})
  /\ stage \in [Task -> Opening \cup Removing \cup Window \cup Unlinking \cup
                   {"idle", "enter", "begin", "open", "failed", "save", "check", "unload"}]
  /\ mine \in [Task -> SUBSET File]
  /\ del_on_err \in [Task -> BOOLEAN] /\ fails \in 0 .. MaxFails
  /\ unqueued \in [User -> Edit \cup {NoEdit}]
  /\ \A u \in User : unqueued[u] # NoEdit => stage[Client(u)] = "open"

Init ==
  /\ loaded = FALSE /\ force_unload = FALSE
  /\ on_level = [u \in User |-> FALSE] /\ summon = [u \in User |-> FALSE]
  /\ props = "none" /\ dirty_save = FALSE
  /\ has_blocks = FALSE /\ blocks = {} /\ cw = {Map}
  /\ stage = [t \in Task |-> "idle"] /\ mine = [t \in Task |-> {}]
  /\ del_on_err = [t \in Task |-> FALSE] /\ fails = 0 /\ spoilt = FALSE
  /\ unqueued = [u \in User |-> NoEdit]
  /\ timed = FALSE /\ level_in_use = FALSE /\ no_unload = FALSE
  /\ base = {} /\ tmp = {}
  /\ made = {Map} /\ exposed = {} /\ overtaken = FALSE

Go(t, s) == stage' = [stage EXCEPT ![t] = s]
\* A file is removed: a task that has mapped it keeps it, under no name.  History
\* records that a task had files of the level open at that moment.
Unlink(f) ==
  /\ mine' = [t \in Task |-> mine[t] \ {f}]
  /\ overtaken' = (overtaken \/ \E t \in Task : mine[t] # {})

\* system_lock is held over more than one step only while the saver unlinks.
SystemFree == stage[Saver] \notin Unlinking

\* Only tasks that have opened the same lock file exclude each other; of those
\* whose lock file has been removed nothing is assumed.
LevelLockFree(t) ==
  "lock" \in mine[t] =>
    \A s \in Task \ {t} : ~("lock" \in mine[s] /\ stage[s] \in {"props", "load"})

----------------------------------------------------------------------------
(* open_level_files *)

\* The lock file is open; are the others there?  The saver makes none.
Look(t) ==
  /\ stage[t] = "lock"
  /\ LET missing == props = "none" \/ ~has_blocks
         given_up == missing /\ t = Saver
     IN /\ del_on_err' = [del_on_err EXCEPT ![t] = missing /\ ~given_up]
        /\ mine' = [mine EXCEPT ![t] = IF given_up THEN {} ELSE @]
        /\ Go(t, IF given_up THEN "failed" ELSE "wait")
  /\ UNCHANGED <<tableVars, fileVars, cw, fails, spoilt, unqueued, saverVars, histVars>>

\* Take the lock, and open or create the properties.  Those of a clean map may go.
OpenProps(t) ==
  /\ stage[t] = "wait"
  /\ LevelLockFree(t)
  /\ props' = IF props = "none" THEN "new" ELSE props
  /\ dirty_save' = (props # "none" /\ dirty_save)
  /\ mine' = [mine EXCEPT ![t] = @ \cup {"props"}]
  /\ del_on_err' = [del_on_err EXCEPT ![t] = @ \/ (props = "valid" /\ ~dirty_save)]
  /\ spoilt' = (spoilt \/ \E s \in Task : stage[s] \in Removing)
  /\ Go(t, "props")
  /\ UNCHANGED <<tableVars, has_blocks, blocks, cw, fails, unqueued, saverVars, histVars>>

Forget(t) ==
  del_on_err' = [del_on_err EXCEPT ![t] = FALSE] /\ UNCHANGED <<fails, spoilt>>

\* The properties are valid: open the blocks.  A missing file makes an Air map.
\* Properties removed meanwhile were those of a level the saver had opened, so
\* they are valid too.  The file of the queue comes and goes with the blocks.
OpenBlocks(t) ==
  /\ stage[t] = "props"
  /\ "props" \in mine[t] => props = "valid"
  /\ has_blocks' = TRUE
  /\ blocks' = IF has_blocks THEN blocks ELSE {}
  /\ mine' = [mine EXCEPT ![t] = @ \cup {"blocks"}]
  /\ Forget(t)
  /\ Go(t, "open")
  /\ UNCHANGED <<tableVars, props, dirty_save, cw, unqueued, saverVars, histVars>>

\* They are not: load_cwfile creates and fills them once more by name, and
\* makes room for the blocks ...
LoadProps(t) ==
  /\ stage[t] = "props"
  /\ "props" \in mine[t] /\ props # "valid"
  /\ props' = "valid"
  /\ dirty_save' = FALSE
  /\ has_blocks' = TRUE
  /\ blocks' = IF has_blocks THEN blocks ELSE {}
  /\ mine' = [mine EXCEPT ![t] = @ \cup {"props", "blocks"}]
  /\ Go(t, "load")
  /\ UNCHANGED <<tableVars, cw, failVars, unqueued, saverVars, histVars>>

\* ... and reads them from the .cw file.
LoadBlocks(t) ==
  /\ stage[t] = "load"
  /\ blocks' = IF "blocks" \in mine[t] THEN cw ELSE blocks
  /\ Forget(t)
  /\ Go(t, "open")
  /\ UNCHANGED <<tableVars, props, dirty_save, has_blocks, cw, mine, unqueued, saverVars,
                 histVars>>

\* A file cannot be opened or mapped, or the .cw file is not one: the lock is
\* given up first.  What was to be removed then may be another's by now, or
\* changed; what is not removed may be part of a map.
OpenFails(t) ==
  /\ stage[t] \in {"wait", "props", "load"}
  /\ stage[t] = "wait" => LevelLockFree(t)
  /\ fails < MaxFails
  /\ fails' = fails + 1
  /\ spoilt' =
       \/ spoilt
       \/ IF del_on_err[t] THEN dirty_save \/ \E s \in Task \ {t} : "props" \in mine[s]
          ELSE stage[t] = "load"
  /\ del_on_err' = [del_on_err EXCEPT ![t] = FALSE]
  /\ mine' = [mine EXCEPT ![t] = {}]
  /\ Go(t, IF del_on_err[t] THEN "remove" ELSE "failed")
  /\ UNCHANGED <<tableVars, fileVars, cw, unqueued, saverVars, histVars>>

\* unlink_level, by name, and without the lock
Remove(f) == mine' = [t \in Task |-> mine[t] \ {f}]

RemoveProps(t) ==
  /\ stage[t] = "remove"
  /\ props' = "none" /\ dirty_save' = FALSE
  /\ Remove("props")
  /\ Go(t, "remove2")
  /\ UNCHANGED <<tableVars, has_blocks, blocks, cw, failVars, unqueued, saverVars, histVars>>

RemoveBlocks(t) ==
  /\ stage[t] = "remove2"
  /\ has_blocks' = FALSE /\ blocks' = {}
  /\ Remove("blocks")
  /\ Go(t, "failed")
  /\ UNCHANGED <<tableVars, props, dirty_save, cw, failVars, unqueued, saverVars, histVars>>

OpenLevelFiles(t) ==
  \/ Look(t) \/ OpenProps(t) \/ OpenBlocks(t) \/ LoadProps(t) \/ LoadBlocks(t)
  \/ OpenFails(t) \/ RemoveProps(t) \/ RemoveBlocks(t)

----------------------------------------------------------------------------
(* Clients and loaders *)

\* direct_teleport: a level that is loaded (as far as one can see without the
\* lock) is entered, any other is left to a loader; a client in the void enters
\* at once.  check_level keeps everybody out of a level being unloaded.
MayTeleport(u) ==
  /\ stage[Client(u)] = "idle" /\ stage[Loader(u)] = "idle"
  /\ ~(loaded /\ force_unload)
Teleport(u) ==
  \/ Go(Client(u), "enter")
  \/ ~loaded /\ Go(Loader(u), "begin")

Goto(u) ==
  /\ MayTeleport(u)
  /\ Teleport(u)
  /\ UNCHANGED <<tableVars, fileVars, cw, mine, failVars, unqueued, saverVars, histVars>>

\* check_user_summon forgets the summons before it follows it.
CheckUserSummon(u) ==
  /\ stage[Client(u)] \in {"idle", "open"}
  /\ summon[u]
  /\ summon' = [summon EXCEPT ![u] = FALSE]
  /\ IF MayTeleport(u) THEN Teleport(u) ELSE UNCHANGED stage
  /\ UNCHANGED <<loaded, force_unload, on_level, fileVars, cw, mine, failVars, unqueued,
                 saverVars, histVars>>

\* An entry of the table is filled unless the level has one.
Register ==
  /\ SystemFree
  /\ loaded' = TRUE
  /\ force_unload' = (loaded /\ force_unload)

\* start_level, and the lock file is opened.
StartLevel(u) ==
  /\ stage[Client(u)] = "enter"
  /\ Register
  /\ on_level' = [on_level EXCEPT ![u] = TRUE]
  /\ mine' = [mine EXCEPT ![Client(u)] = {"lock"}]
  /\ Go(Client(u), "lock")
  /\ UNCHANGED <<summon, fileVars, cw, failVars, unqueued, saverVars, histVars>>

\* A loader opens the files first ...
LoaderStart(u) ==
  /\ stage[Loader(u)] = "begin"
  /\ mine' = [mine EXCEPT ![Loader(u)] = {"lock"}]
  /\ Go(Loader(u), "lock")
  /\ UNCHANGED <<tableVars, fileVars, cw, failVars, unqueued, saverVars, histVars>>

\* ... and registers the level and summons its user then.
LoaderRegister(u) ==
  /\ stage[Loader(u)] = "open"
  /\ Register
  /\ summon' = [summon EXCEPT ![u] = TRUE]
  /\ mine' = [mine EXCEPT ![Loader(u)] = {}]
  /\ Go(Loader(u), "idle")
  /\ UNCHANGED <<on_level, fileVars, cw, failVars, unqueued, saverVars, histVars>>

\* update_block writes the blocks ...
WriteBlock(u) ==
  /\ stage[Client(u)] = "open"
  /\ unqueued[u] = NoEdit
  /\ LET e == Cardinality(made)
     IN /\ e \in Edit
        /\ \A v \in User : unqueued[v] # e
        /\ unqueued' = [unqueued EXCEPT ![u] = e]
        /\ blocks' = IF "blocks" \in mine[Client(u)] THEN blocks \cup {e} ELSE blocks
  /\ UNCHANGED <<tableVars, props, dirty_save, has_blocks, cw, stage, mine, failVars, saverVars,
                 histVars>>

\* ... and send_update queues the change and sets the dirty flag.
SendUpdate(u) ==
  /\ unqueued[u] # NoEdit
  /\ LevelLockFree(Client(u))
  /\ dirty_save' = (dirty_save \/ "props" \in mine[Client(u)])
  /\ made' = made \cup {unqueued[u]}
  /\ exposed' = IF stage[Saver] \in Window \cup {"unload"}
                THEN exposed \cup {unqueued[u]} ELSE exposed
  /\ unqueued' = [unqueued EXCEPT ![u] = NoEdit]
  /\ UNCHANGED <<tableVars, props, has_blocks, blocks, cw, stage, mine, failVars, saverVars,
                 overtaken>>

\* As Leave, were update_block left between its two halves.
LeaveAtOnce(u) ==
  /\ stage[Client(u)] = "open"
  /\ SystemFree
  /\ on_level' = [on_level EXCEPT ![u] = FALSE]
  /\ mine' = [mine EXCEPT ![Client(u)] = {}]
  /\ Go(Client(u), "idle")
  /\ UNCHANGED <<loaded, force_unload, summon, fileVars, cw, failVars, unqueued, saverVars,
                 histVars>>

\* The client leaves for another level or the void; or its process ends.
Leave(u) ==
  /\ stage[Client(u)] = "open"
  /\ unqueued[u] = NoEdit
  /\ SystemFree
  /\ on_level' = [on_level EXCEPT ![u] = FALSE]
  /\ mine' = [mine EXCEPT ![Client(u)] = {}]
  /\ Go(Client(u), "idle")
  /\ UNCHANGED <<loaded, force_unload, summon, fileVars, cw, failVars, unqueued, saverVars,
                 histVars>>

\* As ThrownOut, had check_this_user looked only for levels that are gone.
ThrownOutLate(u) == ~loaded /\ Leave(u)

\* check_this_user finds that the level is being unloaded.
ThrownOut(u) == (~loaded \/ force_unload) /\ Leave(u)

\* The files could not be opened: the client goes to the main level ...
ReturnToMain(u) ==
  /\ stage[Client(u)] = "failed"
  /\ SystemFree
  /\ on_level' = [on_level EXCEPT ![u] = FALSE]
  /\ Go(Client(u), "idle")
  /\ UNCHANGED <<loaded, force_unload, summon, fileVars, cw, mine, failVars, unqueued,
                 saverVars,
                 histVars>>

\* ... and the loader ends.
LoaderFails(u) ==
  /\ stage[Loader(u)] = "failed"
  /\ Go(Loader(u), "idle")
  /\ UNCHANGED <<tableVars, fileVars, cw, mine, failVars, unqueued, saverVars, histVars>>

\* A process ends in the middle of opening; level_lock is handed on.
DieOpening(u) ==
  /\ MayDie
  /\ SystemFree
  /\ \E t \in {Client(u), Loader(u)} :
       /\ stage[t] \in Opening \cup Removing
       /\ mine' = [mine EXCEPT ![t] = {}]
       /\ Forget(t)
       /\ Go(t, "idle")
       /\ on_level' = IF t = Client(u) THEN [on_level EXCEPT ![u] = FALSE] ELSE on_level
  /\ UNCHANGED <<loaded, force_unload, summon, fileVars, cw, unqueued, saverVars, histVars>>

\* /unload
CmdUnload ==
  /\ loaded /\ ~force_unload
  /\ SystemFree
  /\ force_unload' = TRUE
  /\ UNCHANGED <<loaded, on_level, summon, fileVars, cw, stage, mine, failVars, unqueued,
                 saverVars, histVars>>

----------------------------------------------------------------------------
(* The saver *)

InUse == \E u \in User : on_level[u] \/ summon[u]

\* scan_and_save_levels comes to the level and opens the files.
ScanLevel(t) ==
  /\ stage[Saver] = "idle"
  /\ loaded
  /\ t \/ ~InUse
  /\ timed' = t
  /\ mine' = [mine EXCEPT ![Saver] = {"lock"}]
  /\ Go(Saver, "lock")
  /\ UNCHANGED <<tableVars, fileVars, cw, failVars, unqueued, level_in_use, no_unload, base,
                 tmp,
                 histVars>>

\* What the saver knows of a level it forgets when it is done with it.
ForgetLevel ==
  /\ timed' = FALSE /\ level_in_use' = FALSE /\ no_unload' = FALSE
  /\ base' = {} /\ tmp' = {}

\* It cannot: the entry of a level nobody is on is dropped (ignore_broken_level).
IgnoreBrokenLevel ==
  /\ stage[Saver] = "failed"
  /\ loaded' = (loaded /\ InUse)
  /\ ForgetLevel
  /\ Go(Saver, "idle")
  /\ UNCHANGED <<force_unload, on_level, summon, fileVars, cw, mine, failVars, unqueued,
                 histVars>>

\* It decides what to do; to save, it first takes its place in the queue.
Decide ==
  /\ stage[Saver] = "open"
  /\ level_in_use' = InUse
  /\ no_unload' = (InUse /\ ~force_unload)
  /\ base' = made \cap blocks
  /\ Go(Saver, IF dirty_save /\ (timed \/ force_unload) THEN "save" ELSE "check")
  /\ UNCHANGED <<tableVars, fileVars, cw, mine, failVars, unqueued, timed, tmp, histVars>>

\* The blocks have been written, and now the queue since its place: what was
\* queued by then is in the file, unless the queue has been overrun and the
\* cell was written already; what is not queued may be.
FetchQueued ==
  /\ stage[Saver] = "save"
  /\ LevelLockFree(Saver)
  /\ \E new \in SUBSET (blocks \ base) :
       /\ \/ made \cap blocks \subseteq base \cup new
          \/ Cardinality((made \cap blocks) \ base) >= QueueLen
       /\ tmp' = base \cup new /\ base' = {}
       /\ exposed' = exposed \cup ((made \cap blocks) \ tmp')
  /\ Go(Saver, "fetched")
  /\ UNCHANGED <<tableVars, fileVars, cw, mine, failVars, unqueued, timed, level_in_use,
                 no_unload, made,
                 overtaken>>

\* The file becomes the .cw file ...
Rename ==
  /\ stage[Saver] = "fetched"
  /\ cw' = tmp /\ tmp' = {}
  /\ Go(Saver, "renamed")
  /\ UNCHANGED <<tableVars, fileVars, mine, failVars, unqueued, timed, level_in_use, no_unload,
                 base,
                 histVars>>

\* ... or the save fails.
SaveFails ==
  /\ stage[Saver] \in {"save", "fetched"}
  /\ Go(Saver, "check")
  /\ UNCHANGED <<tableVars, fileVars, cw, mine, failVars, unqueued, saverVars, histVars>>

ClearDirty ==
  /\ stage[Saver] = "renamed"
  /\ dirty_save' = FALSE
  /\ Go(Saver, "check")
  /\ UNCHANGED <<tableVars, props, has_blocks, blocks, cw, mine, failVars, unqueued, saverVars,
                 histVars>>

\* The flag is read and the files are closed; only a clean level that was not
\* in use goes on.
DirtyIgnored == FALSE
Dirty == dirty_save
CheckUnload ==
  /\ stage[Saver] = "check"
  /\ mine' = [mine EXCEPT ![Saver] = {}]
  /\ Go(Saver, IF Dirty \/ no_unload \/ level_in_use THEN "idle" ELSE "unload")
  /\ ForgetLevel
  /\ UNCHANGED <<tableVars, fileVars, cw, failVars, unqueued, histVars>>

\* The users are counted again under system_lock, and the files go one by one.
RecountOnLevel == \E u \in User : summon[u]
Recount == InUse
UnlinkProps ==
  /\ stage[Saver] = "unload"
  /\ IF Recount
     THEN Go(Saver, "idle") /\ UNCHANGED <<fileVars, mine, overtaken>>
     ELSE /\ props' = "none"
          /\ dirty_save' = FALSE
          /\ Unlink("props")
          /\ Go(Saver, "unlink")
          /\ UNCHANGED <<has_blocks, blocks>>
  /\ UNCHANGED <<tableVars, cw, failVars, unqueued, saverVars, made, exposed>>

UnlinkBlocks ==
  /\ stage[Saver] = "unlink"
  /\ has_blocks' = FALSE
  /\ blocks' = {}
  /\ Unlink("blocks")
  /\ Go(Saver, "unlink2")
  /\ UNCHANGED <<tableVars, props, dirty_save, cw, failVars, unqueued, saverVars, made,
                 exposed>>

UnlinkLock ==
  /\ stage[Saver] = "unlink2"
  /\ Unlink("lock")
  /\ loaded' = FALSE
  /\ Go(Saver, "idle")
  /\ UNCHANGED <<force_unload, on_level, summon, fileVars, cw, failVars, unqueued, saverVars,
                 made, exposed>>

Save == Decide \/ FetchQueued \/ Rename \/ SaveFails \/ ClearDirty
Unload == CheckUnload \/ UnlinkProps \/ UnlinkBlocks \/ UnlinkLock

Next ==
  \/ \E t \in Task : OpenLevelFiles(t)
  \/ \E u \in User :
       \/ Goto(u) \/ CheckUserSummon(u) \/ StartLevel(u)
       \/ LoaderStart(u) \/ LoaderRegister(u)
       \/ WriteBlock(u) \/ SendUpdate(u) \/ Leave(u)
       \/ ReturnToMain(u) \/ LoaderFails(u) \/ DieOpening(u)
  \/ CmdUnload
  \/ \E t \in BOOLEAN : ScanLevel(t)
  \/ IgnoreBrokenLevel \/ Save \/ Unload

Spec == Init /\ [][Next]_vars

\* Clients run their ticks, loaders come to their end, mutexes are handed to
\* those who wait for them, the listener starts the saver again and again, and
\* the disk does not refuse for ever.
ClientStep(u) ==
  \/ OpenLevelFiles(Client(u)) \/ ReturnToMain(u)
  \/ StartLevel(u) \/ SendUpdate(u) \/ CheckUserSummon(u) \/ ThrownOut(u)
LoaderStep(u) ==
  LoaderStart(u) \/ OpenLevelFiles(Loader(u)) \/ LoaderFails(u) \/ LoaderRegister(u)
SaverStep ==
  \/ \E t \in BOOLEAN : ScanLevel(t)
  \/ OpenLevelFiles(Saver) \/ IgnoreBrokenLevel \/ Save \/ Unload

Fairness ==
  /\ \A u \in User : SF_vars(ClientStep(u)) /\ SF_vars(LoaderStep(u))
  /\ SF_vars(SaverStep) /\ SF_vars(FetchQueued) /\ SF_vars(Rename)

FairSpec == Spec /\ Fairness

----------------------------------------------------------------------------
(* Properties *)

\* What the next visitor finds: the level files, or the .cw file while there
\* are none, or somebody is filling them, or has failed to and is to remove them.
Loading ==
  \E t \in Task : (stage[t] = "load" /\ "blocks" \in mine[t]) \/ stage[t] \in Removing
Contents == IF props = "valid" /\ ~Loading THEN blocks ELSE cw

\* No edit is lost by saving, unloading and loading again, in whatever order
\* clients, loaders and the saver do it (open_level_files, scan_and_save_levels,
\* update_block).  Excepted are edits made while the saver has the queue's end
\* and has not cleared dirty_save yet, or has read it and not yet counted the
\* users; edits lost in an overrun while it saves; and all of them once a file
\* was removed while a loader was opening it, or an open that failed has done
\* harm: it removes the files, after it has given up the lock and without
\* counting users, though others have them open, or open them before they are
\* gone, or there are edits in them that are not saved; or it leaves a part of a
\* map, because there were files when it looked, those of one that failed too.
EditsKept == overtaken \/ spoilt \/ made \ exposed \subseteq Contents

\* Nobody is on a level whose files have been removed: the count of the users
\* under system_lock and their registration before opening see to it; an open
\* that fails removes them without, see EditsKept.
FilesStay ==
  spoilt \/ \A u \in User : stage[Client(u)] = "open" => mine[Client(u)] = File

\* What /unload has marked is unloaded in the end (wait_for_forced_unload waits
\* for it): everybody is thrown out, nobody new comes in, it is saved, removed.
UnloadEnds == (loaded /\ force_unload) ~> ~(loaded /\ force_unload)

\* loadsave.c:318: a map that is still dirty is not unloaded.
DirtyNotUnloaded == [][props' = "none" => ~dirty_save]_vars

\* shared.c:182: after an extraction that did not succeed nothing else is used,
\* whatever ended it.
OnlyWholeMaps ==
  \A t \in Task : stage[t] = "open" /\ mine[t] = File => Map \in blocks

----------------------------------------------------------------------------
(* The inductive invariants *)

\* Stages in which all of the level's files are open.
Working == {"open", "save", "check"} \cup Window

\* Which files a task has opened by then.
Opened(s) ==
  IF s \in {"lock", "wait"} THEN {"lock"}
  ELSE IF s = "props" THEN {"lock", "props"}
  ELSE IF s \in Working \cup {"load"} THEN File
  ELSE {}

\* A client is on the level before it opens the first file, and the saver has
\* seen nobody on the level before it removes the first.
PlaceInv ==
  /\ \A u \in User :
       /\ stage[Client(u)] \in Opening \cup Removing \cup {"idle", "enter", "open", "failed"}
       /\ stage[Client(u)] \in Opening \cup Removing \cup {"open"} => on_level[u]
       /\ \/ spoilt
          \/ stage[Client(u)] \in Opening \cup {"open"} =>
               mine[Client(u)] = Opened(stage[Client(u)])
       /\ stage[Loader(u)] \in Opening \cup Removing \cup {"idle", "begin", "open", "failed"}
  /\ stage[Saver] \notin {"enter", "begin"}
  /\ stage[Saver] \in Unlinking => \A u \in User : ~on_level[u]

\* Who removes the files after a failure is alone with them, and they are saved.
RemoveInv ==
  \A t \in Task : stage[t] \in Removing =>
    ~dirty_save /\ \A s \in Task : "props" \notin mine[s]

\* The rest is about levels of which nothing was removed under a loader, and
\* processes that do not die while they load.  All tasks have the same files ...
MineInv == \A t \in Task : mine[t] = Opened(stage[t])

\* ... so level_lock keeps them apart while they open them.
LockInv ==
  /\ \A s, t \in Task :
       stage[s] \in {"props", "load"} /\ stage[t] \in {"props", "load"} => s = t
  /\ \A s, t \in Task : stage[t] = "load" => stage[s] \notin Working

\* The files are there for those who have them open; what appears while the
\* saver removes them belongs to a loader.
PropsInv ==
  /\ props = "valid" => has_blocks \/ \E t \in Task : stage[t] = "remove"
  /\ \A t \in Task :
       /\ stage[t] = "props" => props # "none"
       /\ stage[t] \in Working \cup {"load"} => props = "valid"
       /\ stage[t] = "remove2" => props = "none"
  /\ stage[Saver] \in Unlinking /\ props = "valid" =>
       \E u \in User : stage[Loader(u)] \in {"load", "open", "remove"}

\* A clean map is in the .cw file, and so is one the saver has written or is
\* removing.
Safe == made \ exposed
SavedInv ==
  /\ ~dirty_save => Safe \subseteq cw
  /\ stage[Saver] = "fetched" => Safe \subseteq tmp
  /\ stage[Saver] \in Unlinking \cup {"renamed", "unload"} => Safe \subseteq cw
  /\ \A u \in User : unqueued[u] # NoEdit => unqueued[u] \in blocks
  /\ Safe \subseteq Contents

LevelInv == MineInv /\ LockInv /\ PropsInv /\ SavedInv

IInv ==
  /\ TypeOK /\ PlaceInv
  /\ spoilt \/ RemoveInv
  /\ overtaken \/ spoilt \/ LevelInv
=============================================================================

--------------------------- MODULE LevelLifeProofs ---------------------------
(***************************************************************************)
(* Proofs about LevelLife for every number of users and edits and every    *)
(* length of the queue.  PlaceInv, where the tasks are, is kept by every   *)
(* step and gives TypeOK and FilesStay, whatever dies.  LevelInv, what the *)
(* files hold, is kept while no process dies loading and nothing is        *)
(* removed under a loader, and gives EditsKept.                            *)
(***************************************************************************)
EXTENDS LevelLife, TLAPS

USE LifeAssumption

-----------------------------------------------------------------------------
(* Types, and where the tasks are. *)

\* Clients, loaders and the saver are tasks, all different, and there are no
\* others.
LEMMA Tasks ==
  /\ \A u \in User : Client(u) \in Task /\ Loader(u) \in Task
  /\ Saver \in Task
  /\ \A u, v \in User :
       /\ Client(u) # Loader(v) /\ Client(u) # Saver /\ Loader(u) # Saver
       /\ Client(u) = Client(v) => u = v
       /\ Loader(u) = Loader(v) => u = v
  /\ \A t \in Task : t = Saver \/ \E u \in User : t = Client(u) \/ t = Loader(u)
BY DEF Task, Client, Loader, Saver

\* A task on its way in, or out after a failure, leaves clients that have files
\* open on the level, if it leaves their files alone and gets those that belong
\* to where it comes.
LEMMA OpeningPlace ==
  ASSUME TypeOK, PlaceInv, NEW t \in Task, Go(t, stage'[t]), UNCHANGED on_level, spoilt => spoilt',
         stage[t] \in Opening \cup Removing,
         stage'[t] \in Opening \cup Removing \cup {"open", "failed"},
         stage'[t] \in Opening \cup {"open"} => stage[t] \in Opening,
         \A u \in User : t # Client(u) => spoilt' \/ mine'[Client(u)] = mine[Client(u)],
         \/ stage'[t] \in Removing \cup {"failed"}
         \/ mine[t] = Opened(stage[t]) => mine'[t] = Opened(stage'[t])
  PROVE  PlaceInv'
<1>1. \A r \in Task : r # t => stage'[r] = stage[r]
  BY DEF TypeOK, Go
<1>2. ASSUME NEW u \in User
      PROVE  /\ stage'[Client(u)] \in Opening \cup Removing \cup
                  {"idle", "enter", "open", "failed"}
             /\ stage'[Client(u)] \in Opening \cup Removing \cup {"open"} => on_level'[u]
             /\ \/ spoilt'
                \/ stage'[Client(u)] \in Opening \cup {"open"} =>
                     mine'[Client(u)] = Opened(stage'[Client(u)])
  <2>1. CASE t = Client(u)
    BY <2>1 DEF PlaceInv, Opening, Removing
  <2>2. CASE t # Client(u)
    <3>1. stage'[Client(u)] = stage[Client(u)]
      BY <1>1, <2>2, Tasks
    <3>2. QED
      BY <2>2, <3>1 DEF PlaceInv
  <2>3. QED
    BY <2>1, <2>2
<1>3. \A u \in User :
        stage'[Loader(u)] \in Opening \cup Removing \cup {"idle", "begin", "open", "failed"}
  BY <1>1, Tasks DEF PlaceInv
<1>4. /\ stage'[Saver] \notin {"enter", "begin"}
      /\ stage'[Saver] \in Unlinking => \A u \in User : ~on_level'[u]
  BY <1>1, Tasks DEF PlaceInv, Opening, Removing, Unlinking
<1>5. QED
  BY <1>2, <1>3, <1>4 DEF PlaceInv, Opened

\* The look for a level's files leaves all variables of their type.
LEMMA LookType ==
  ASSUME TypeOK, NEW t \in Task, Look(t)
  PROVE  TypeOK'
BY Tasks DEF TypeOK, Look, Go, tableVars, fileVars, saverVars, histVars, failVars, Opening,
       Removing, Window, Unlinking, File

\* The look for a level's files leaves clients that have files open on the
\* level, and nobody on it while the saver removes them.
LEMMA LookPlace ==
  ASSUME TypeOK, PlaceInv, NEW t \in Task, Look(t)
  PROVE  PlaceInv'
<1>1. /\ UNCHANGED on_level /\ (spoilt => spoilt') /\ Go(t, stage'[t])
      /\ stage[t] \in Opening /\ stage'[t] \in Opening \cup Removing \cup {"open", "failed"}
      /\ \A r \in Task : r # t => mine'[r] = mine[r]
      /\ \/ stage'[t] \in Removing \cup {"failed"}
         \/ mine[t] = Opened(stage[t]) => mine'[t] = Opened(stage'[t])
  BY DEF TypeOK, Opened, Opening, Removing, Working, Window, File, Look, Go, tableVars, failVars
<1>2. QED
  BY <1>1, OpeningPlace, Tasks

\* Opening or making the properties file under level_lock leaves all variables
\* of their type.
LEMMA OpenPropsType ==
  ASSUME TypeOK, NEW t \in Task, OpenProps(t)
  PROVE  TypeOK'
BY Tasks DEF TypeOK, OpenProps, Go, tableVars, fileVars, saverVars, histVars, failVars, Opening,
       Removing, Window, Unlinking, File

\* Opening or making the properties file under level_lock leaves clients that
\* have files open on the level, and nobody on it while the saver removes them.
LEMMA OpenPropsPlace ==
  ASSUME TypeOK, PlaceInv, NEW t \in Task, OpenProps(t)
  PROVE  PlaceInv'
<1>1. /\ UNCHANGED on_level /\ (spoilt => spoilt') /\ Go(t, stage'[t])
      /\ stage[t] \in Opening /\ stage'[t] \in Opening \cup Removing \cup {"open", "failed"}
      /\ \A r \in Task : r # t => mine'[r] = mine[r]
      /\ \/ stage'[t] \in Removing \cup {"failed"}
         \/ mine[t] = Opened(stage[t]) => mine'[t] = Opened(stage'[t])
  BY DEF TypeOK, Opened, Opening, Removing, Working, Window, File, OpenProps, Go, tableVars,
         failVars
<1>2. QED
  BY <1>1, OpeningPlace, Tasks

\* Opening the blocks of a level whose properties are valid leaves all
\* variables of their type.
LEMMA OpenBlocksType ==
  ASSUME TypeOK, NEW t \in Task, OpenBlocks(t)
  PROVE  TypeOK'
BY Tasks DEF TypeOK, OpenBlocks, Go, Forget, tableVars, fileVars, saverVars, histVars,
       failVars, Opening,
       Removing, Window, Unlinking, File

\* Opening the blocks of a level whose properties are valid leaves clients that
\* have files open on the level, and nobody on it while the saver removes them.
LEMMA OpenBlocksPlace ==
  ASSUME TypeOK, PlaceInv, NEW t \in Task, OpenBlocks(t)
  PROVE  PlaceInv'
<1>1. /\ UNCHANGED on_level /\ (spoilt => spoilt') /\ Go(t, stage'[t])
      /\ stage[t] \in Opening /\ stage'[t] \in Opening \cup Removing \cup {"open", "failed"}
      /\ \A r \in Task : r # t => mine'[r] = mine[r]
      /\ \/ stage'[t] \in Removing \cup {"failed"}
         \/ mine[t] = Opened(stage[t]) => mine'[t] = Opened(stage'[t])
  BY DEF TypeOK, Opened, Opening, Removing, Working, Window, File, OpenBlocks, Go, Forget,
         tableVars, failVars
<1>2. QED
  BY <1>1, OpeningPlace, Tasks

\* Filling in the properties of a new level (load_cwfile) leaves all variables
\* of their type.
LEMMA LoadPropsType ==
  ASSUME TypeOK, NEW t \in Task, LoadProps(t)
  PROVE  TypeOK'
BY Tasks DEF TypeOK, LoadProps, Go, tableVars, fileVars, saverVars, histVars, failVars, Opening,
       Removing, Window, Unlinking, File

\* Filling in the properties of a new level (load_cwfile) leaves clients that
\* have files open on the level, and nobody on it while the saver removes them.
LEMMA LoadPropsPlace ==
  ASSUME TypeOK, PlaceInv, NEW t \in Task, LoadProps(t)
  PROVE  PlaceInv'
<1>1. /\ UNCHANGED on_level /\ (spoilt => spoilt') /\ Go(t, stage'[t])
      /\ stage[t] \in Opening /\ stage'[t] \in Opening \cup Removing \cup {"open", "failed"}
      /\ \A r \in Task : r # t => mine'[r] = mine[r]
      /\ \/ stage'[t] \in Removing \cup {"failed"}
         \/ mine[t] = Opened(stage[t]) => mine'[t] = Opened(stage'[t])
  BY DEF TypeOK, Opened, Opening, Removing, Working, Window, File, LoadProps, Go, tableVars,
         failVars
<1>2. QED
  BY <1>1, OpeningPlace, Tasks

\* Reading the blocks from the .cw file (load_cwfile) leaves all variables of
\* their type.
LEMMA LoadBlocksType ==
  ASSUME TypeOK, NEW t \in Task, LoadBlocks(t)
  PROVE  TypeOK'
BY Tasks DEF TypeOK, LoadBlocks, Go, Forget, tableVars, fileVars, saverVars, histVars,
       failVars, Opening,
       Removing, Window, Unlinking, File

\* Reading the blocks from the .cw file (load_cwfile) leaves clients that have
\* files open on the level, and nobody on it while the saver removes them.
LEMMA LoadBlocksPlace ==
  ASSUME TypeOK, PlaceInv, NEW t \in Task, LoadBlocks(t)
  PROVE  PlaceInv'
<1>1. /\ UNCHANGED on_level /\ (spoilt => spoilt') /\ Go(t, stage'[t])
      /\ stage[t] \in Opening /\ stage'[t] \in Opening \cup Removing \cup {"open", "failed"}
      /\ \A r \in Task : r # t => mine'[r] = mine[r]
      /\ \/ stage'[t] \in Removing \cup {"failed"}
         \/ mine[t] = Opened(stage[t]) => mine'[t] = Opened(stage'[t])
  BY DEF TypeOK, Opened, Opening, Removing, Working, Window, File, LoadBlocks, Go, Forget,
         tableVars, failVars
<1>2. QED
  BY <1>1, OpeningPlace, Tasks

\* The failure to open a level leaves all variables of their type.
LEMMA OpenFailsType ==
  ASSUME TypeOK, NEW t \in Task, OpenFails(t)
  PROVE  TypeOK'
BY Tasks DEF TypeOK, OpenFails, Go, tableVars, fileVars, saverVars, histVars, failVars, Opening,
       Removing, Window, Unlinking, File

\* The failure to open a level leaves clients that have files open on the
\* level, and nobody on it while the saver removes them.
LEMMA OpenFailsPlace ==
  ASSUME TypeOK, PlaceInv, NEW t \in Task, OpenFails(t)
  PROVE  PlaceInv'
<1>1. /\ UNCHANGED on_level /\ (spoilt => spoilt') /\ Go(t, stage'[t])
      /\ stage[t] \in Opening /\ stage'[t] \in Opening \cup Removing \cup {"open", "failed"}
      /\ \A r \in Task : r # t => mine'[r] = mine[r]
      /\ \/ stage'[t] \in Removing \cup {"failed"}
         \/ mine[t] = Opened(stage[t]) => mine'[t] = Opened(stage'[t])
  BY DEF TypeOK, Opened, Opening, Removing, Working, Window, File, OpenFails, Go, tableVars,
         failVars
<1>2. QED
  BY <1>1, OpeningPlace, Tasks

\* The removal of the properties after a failure (unlink_level) leaves all
\* variables of their type.
LEMMA RemovePropsType ==
  ASSUME TypeOK, NEW t \in Task, RemoveProps(t)
  PROVE  TypeOK'
BY Tasks DEF TypeOK, RemoveProps, Go, Remove, tableVars, fileVars, saverVars, histVars,
       failVars, Opening,
       Removing, Window, Unlinking, File

\* The removal of the blocks after a failure (unlink_level) leaves all
\* variables of their type.
LEMMA RemoveBlocksType ==
  ASSUME TypeOK, NEW t \in Task, RemoveBlocks(t)
  PROVE  TypeOK'
<1>1. {loaded', force_unload', dirty_save', has_blocks', timed', level_in_use', no_unload',
       overtaken', spoilt'} \subseteq BOOLEAN
  BY DEF TypeOK, RemoveBlocks, Go, Remove, tableVars, fileVars, saverVars, histVars, failVars,
         Opening, Removing, Window, Unlinking, File
<1>2. {on_level', summon'} \subseteq [User -> BOOLEAN] /\ props' \in {"none", "new", "valid"}
  BY DEF TypeOK, RemoveBlocks, Go, Remove, tableVars, fileVars, saverVars, histVars, failVars,
         Opening, Removing, Window, Unlinking, File
<1>3. {blocks', cw', base', tmp', made', exposed'} \subseteq SUBSET (Edit \cup {Map})
  BY DEF TypeOK, RemoveBlocks, Go, Remove, tableVars, fileVars, saverVars, histVars, failVars,
         Opening, Removing, Window, Unlinking, File
<1>4. stage' \in [Task -> Opening \cup Removing \cup Window \cup Unlinking \cup
                  {"idle", "enter", "begin", "open", "failed", "save", "check", "unload"}]
  BY Tasks DEF TypeOK, RemoveBlocks, Go, Remove, tableVars, fileVars, saverVars, histVars,
         failVars, Opening, Removing, Window, Unlinking, File
<1>5. mine' \in [Task -> SUBSET File]
  BY Tasks DEF TypeOK, RemoveBlocks, Go, Remove, tableVars, fileVars, saverVars, histVars,
         failVars, Opening, Removing, Window, Unlinking, File
<1>6. del_on_err' \in [Task -> BOOLEAN] /\ fails' \in 0 .. MaxFails
  BY DEF TypeOK, RemoveBlocks, Go, Remove, tableVars, fileVars, saverVars, histVars, failVars,
         Opening, Removing, Window, Unlinking, File
<1>7. /\ unqueued' \in [User -> Edit \cup {NoEdit}]
      /\ \A v \in User : unqueued'[v] # NoEdit => stage'[Client(v)] = "open"
  BY Tasks DEF TypeOK, RemoveBlocks, Go, Remove, tableVars, fileVars, saverVars, histVars,
         failVars, Opening, Removing, Window, Unlinking, File
<1>8. QED
  BY <1>1, <1>2, <1>3, <1>4, <1>5, <1>6, <1>7 DEF TypeOK

\* Who removes the files after a failure does so to no client on the level.
LEMMA RemovePlace ==
  ASSUME TypeOK, PlaceInv, spoilt \/ RemoveInv, NEW t \in Task, RemoveProps(t) \/ RemoveBlocks(t)
  PROVE  PlaceInv'
<1>1. PICK f \in {"props", "blocks"} :
        /\ UNCHANGED <<on_level, spoilt>> /\ Go(t, stage'[t])
        /\ stage[t] \in Removing /\ stage'[t] \in {"remove2", "failed"}
        /\ mine' = [r \in Task |-> mine[r] \ {f}]
  BY DEF TypeOK, RemoveProps, RemoveBlocks, Remove, Removing, Go, tableVars, failVars
<1>2. ASSUME NEW u \in User, ~spoilt
      PROVE  mine'[Client(u)] = mine[Client(u)] \/ stage[Client(u)] \notin Opening \cup {"open"}
  BY <1>1, <1>2, Tasks DEF PlaceInv, RemoveInv, Opened, Working, Opening, File
<1>3. \A r \in Task : r # t => stage'[r] = stage[r]
  BY <1>1 DEF TypeOK, Go
<1>4. ASSUME NEW u \in User
      PROVE  /\ stage'[Client(u)] \in Opening \cup Removing \cup
                  {"idle", "enter", "open", "failed"}
             /\ stage'[Client(u)] \in Opening \cup Removing \cup {"open"} => on_level'[u]
             /\ \/ spoilt'
                \/ stage'[Client(u)] \in Opening \cup {"open"} =>
                     mine'[Client(u)] = Opened(stage'[Client(u)])
  <2>1. CASE t = Client(u)
    BY <1>1, <2>1 DEF PlaceInv, Opening, Removing
  <2>2. CASE t # Client(u)
    <3>1. stage'[Client(u)] = stage[Client(u)]
      BY <1>3, <2>2, Tasks
    <3>2. QED
      BY <1>1, <1>2, <2>2, <3>1 DEF PlaceInv
  <2>3. QED
    BY <2>1, <2>2
<1>5. \A u \in User :
        stage'[Loader(u)] \in Opening \cup Removing \cup {"idle", "begin", "open", "failed"}
  BY <1>1, <1>3, Tasks DEF PlaceInv, Removing
<1>6. /\ stage'[Saver] \notin {"enter", "begin"}
      /\ stage'[Saver] \in Unlinking => \A u \in User : ~on_level'[u]
  BY <1>1, <1>3, Tasks DEF PlaceInv, Unlinking
<1>7. QED
  BY <1>4, <1>5, <1>6 DEF PlaceInv, Opened

\* A client's choice of a level (direct_teleport) leaves all variables of their
\* type.
LEMMA GotoType ==
  ASSUME TypeOK, NEW u \in User, Goto(u)
  PROVE  TypeOK'
BY Tasks DEF TypeOK, Goto, MayTeleport, Teleport, tableVars, fileVars, saverVars, histVars, Go,
       Opening, Window, Unlinking, failVars, Removing

\* A client's choice of a level (direct_teleport) leaves clients that have
\* files open on the level, and nobody on it while the saver removes them.
LEMMA GotoPlace ==
  ASSUME TypeOK, PlaceInv, NEW u \in User, Goto(u)
  PROVE  PlaceInv'
BY Tasks DEF TypeOK, PlaceInv, Opened, Working, File, Goto, MayTeleport, Teleport, tableVars,
       fileVars, saverVars, histVars, Go, Opening, Unlinking, failVars, Removing

\* Following a summons (check_user_summon) leaves all variables of their type.
LEMMA CheckUserSummonType ==
  ASSUME TypeOK, NEW u \in User, CheckUserSummon(u)
  PROVE  TypeOK'
BY Tasks DEF TypeOK, CheckUserSummon, MayTeleport, Teleport, fileVars, saverVars, histVars, Go,
       Opening, Window, Unlinking, failVars, Removing

\* Following a summons (check_user_summon) leaves clients that have files open
\* on the level, and nobody on it while the saver removes them.
LEMMA CheckUserSummonPlace ==
  ASSUME TypeOK, PlaceInv, NEW u \in User, CheckUserSummon(u)
  PROVE  PlaceInv'
BY Tasks DEF TypeOK, PlaceInv, Opened, Working, File, CheckUserSummon, MayTeleport, Teleport,
       fileVars, saverVars, histVars, Go, Opening, Unlinking, failVars, Removing

\* start_level, which registers the client before it opens a file, leaves all
\* variables of their type.
LEMMA StartLevelType ==
  ASSUME TypeOK, NEW u \in User, StartLevel(u)
  PROVE  TypeOK'
BY Tasks DEF TypeOK, StartLevel, Register, Go, fileVars, saverVars, histVars, Unlinking,
       Opening, Window, File, failVars, Removing

\* start_level, which registers the client before it opens a file, leaves
\* clients that have files open on the level, and nobody on it while the saver
\* removes them.
LEMMA StartLevelPlace ==
  ASSUME TypeOK, PlaceInv, NEW u \in User, StartLevel(u)
  PROVE  PlaceInv'
BY Tasks DEF TypeOK, PlaceInv, Opened, Working, File, StartLevel, Register, Go, fileVars,
       saverVars, histVars, SystemFree, Unlinking, Opening, failVars, Removing

\* A loader's first file leaves all variables of their type.
LEMMA LoaderStartType ==
  ASSUME TypeOK, NEW u \in User, LoaderStart(u)
  PROVE  TypeOK'
BY Tasks DEF TypeOK, LoaderStart, Go, tableVars, fileVars, saverVars, histVars, Opening,
       Window, Unlinking, File, failVars, Removing

\* A loader's first file leaves clients that have files open on the level, and
\* nobody on it while the saver removes them.
LEMMA LoaderStartPlace ==
  ASSUME TypeOK, PlaceInv, NEW u \in User, LoaderStart(u)
  PROVE  PlaceInv'
BY Tasks DEF TypeOK, PlaceInv, Opened, Working, File, LoaderStart, Go, tableVars, fileVars,
       saverVars, histVars, Opening, Unlinking, failVars, Removing

\* A loader's end, where it registers the level and summons its user, leaves
\* all variables of their type.
LEMMA LoaderRegisterType ==
  ASSUME TypeOK, NEW u \in User, LoaderRegister(u)
  PROVE  TypeOK'
BY Tasks DEF TypeOK, LoaderRegister, Register, Go, fileVars, saverVars, histVars, Unlinking,
       Opening, Window, File, failVars, Removing

\* A loader's end, where it registers the level and summons its user, leaves
\* clients that have files open on the level, and nobody on it while the saver
\* removes them.
LEMMA LoaderRegisterPlace ==
  ASSUME TypeOK, PlaceInv, NEW u \in User, LoaderRegister(u)
  PROVE  PlaceInv'
BY Tasks DEF TypeOK, PlaceInv, Opened, Working, File, LoaderRegister, Register, Go, fileVars,
       saverVars, histVars, SystemFree, Unlinking, Opening, failVars, Removing

\* The first half of update_block leaves all variables of their type.
LEMMA WriteBlockType ==
  ASSUME TypeOK, NEW u \in User, WriteBlock(u)
  PROVE  TypeOK'
BY Tasks DEF TypeOK, WriteBlock, tableVars, saverVars, histVars, Opening, Window, Unlinking,
       failVars, Removing

\* The first half of update_block leaves clients that have files open on the
\* level, and nobody on it while the saver removes them.
LEMMA WriteBlockPlace ==
  ASSUME TypeOK, PlaceInv, NEW u \in User, WriteBlock(u)
  PROVE  PlaceInv'
BY Tasks DEF TypeOK, PlaceInv, Opened, Working, File, WriteBlock, tableVars, saverVars,
       histVars, Opening, Unlinking, failVars, Removing

\* The second half of update_block (send_update) leaves all variables of their
\* type.
LEMMA SendUpdateType ==
  ASSUME TypeOK, NEW u \in User, SendUpdate(u)
  PROVE  TypeOK'
BY Tasks DEF TypeOK, SendUpdate, Window, tableVars, saverVars, Opening, Unlinking, failVars,
       Removing

\* The second half of update_block (send_update) leaves clients that have files
\* open on the level, and nobody on it while the saver removes them.
LEMMA SendUpdatePlace ==
  ASSUME TypeOK, PlaceInv, NEW u \in User, SendUpdate(u)
  PROVE  PlaceInv'
BY Tasks DEF TypeOK, PlaceInv, Opened, Working, File, SendUpdate, Window, tableVars, saverVars,
       Opening, Unlinking, failVars, Removing

\* A client's leaving (stop_shared, and clearing its level in the table) leaves
\* all variables of their type.
LEMMA LeaveType ==
  ASSUME TypeOK, NEW u \in User, Leave(u)
  PROVE  TypeOK'
BY Tasks DEF TypeOK, Leave, Go, fileVars, saverVars, histVars, Unlinking, Opening, Window,
       File, failVars, Removing

\* A client's leaving (stop_shared, and clearing its level in the table) leaves
\* clients that have files open on the level, and nobody on it while the saver
\* removes them.
LEMMA LeavePlace ==
  ASSUME TypeOK, PlaceInv, NEW u \in User, Leave(u)
  PROVE  PlaceInv'
BY Tasks DEF TypeOK, PlaceInv, Opened, Working, File, Leave, SystemFree, Go, fileVars,
       saverVars, histVars, Unlinking, Opening, failVars, Removing

\* The way back to the main level (open_main_level) leaves all variables of
\* their type.
LEMMA ReturnToMainType ==
  ASSUME TypeOK, NEW u \in User, ReturnToMain(u)
  PROVE  TypeOK'
BY Tasks DEF TypeOK, ReturnToMain, SystemFree, Go, tableVars, fileVars, saverVars, histVars,
       failVars, Opening,
       Removing, Window, Unlinking, File

\* The way back to the main level (open_main_level) leaves clients that have
\* files open on the level, and nobody on it while the saver removes them.
LEMMA ReturnToMainPlace ==
  ASSUME TypeOK, PlaceInv, NEW u \in User, ReturnToMain(u)
  PROVE  PlaceInv'
BY Tasks DEF TypeOK, PlaceInv, Opened, Working, File, ReturnToMain, SystemFree, Go, tableVars,
       fileVars, saverVars,
   histVars, failVars, Opening, Removing, Unlinking

\* The end of a loader that has failed leaves all variables of their type.
LEMMA LoaderFailsType ==
  ASSUME TypeOK, NEW u \in User, LoaderFails(u)
  PROVE  TypeOK'
BY Tasks DEF TypeOK, LoaderFails, Go, tableVars, fileVars, saverVars, histVars, failVars,
       Opening,
       Removing, Window, Unlinking, File

\* The end of a loader that has failed leaves clients that have files open on
\* the level, and nobody on it while the saver removes them.
LEMMA LoaderFailsPlace ==
  ASSUME TypeOK, PlaceInv, NEW u \in User, LoaderFails(u)
  PROVE  PlaceInv'
BY Tasks DEF TypeOK, PlaceInv, Opened, Working, File, LoaderFails, Go, tableVars, fileVars,
       saverVars,
   histVars, failVars, Opening, Removing, Unlinking

\* A process that ends while it opens the level leaves all variables of their
\* type.
LEMMA DieOpeningType ==
  ASSUME TypeOK, NEW u \in User, DieOpening(u)
  PROVE  TypeOK'
BY Tasks DEF TypeOK, DieOpening, Forget, Opening, Go, fileVars, saverVars, histVars, Unlinking,
       Window, File, failVars, Removing

\* A process that ends while it opens the level leaves clients that have files
\* open on the level, and nobody on it while the saver removes them.
LEMMA DieOpeningPlace ==
  ASSUME TypeOK, PlaceInv, NEW u \in User, DieOpening(u)
  PROVE  PlaceInv'
BY Tasks DEF TypeOK, PlaceInv, Opened, Working, File, DieOpening, Forget, SystemFree, Opening,
       Go, fileVars, saverVars, histVars, Unlinking, failVars, Removing

\* /unload leaves all variables of their type.
LEMMA CmdUnloadType ==
  ASSUME TypeOK, CmdUnload
  PROVE  TypeOK'
BY Tasks DEF TypeOK, CmdUnload, fileVars, saverVars, histVars, Unlinking, failVars, Removing

\* /unload leaves clients that have files open on the level, and nobody on it
\* while the saver removes them.
LEMMA CmdUnloadPlace ==
  ASSUME TypeOK, PlaceInv, CmdUnload
  PROVE  PlaceInv'
BY Tasks DEF TypeOK, PlaceInv, Opened, Working, File, CmdUnload, SystemFree, fileVars,
       saverVars, histVars, Unlinking, Opening, failVars, Removing

\* The saver's coming to a level (scan_and_save_levels) leaves all variables of
\* their type.
LEMMA ScanLevelType ==
  ASSUME TypeOK, NEW b \in BOOLEAN, ScanLevel(b)
  PROVE  TypeOK'
BY Tasks DEF TypeOK, ScanLevel, Go, tableVars, fileVars, saverVars, histVars, failVars, Opening,
       Removing, Window, Unlinking, File

\* The saver's coming to a level (scan_and_save_levels) leaves clients that
\* have files open on the level, and nobody on it while the saver removes them.
LEMMA ScanLevelPlace ==
  ASSUME TypeOK, PlaceInv, NEW b \in BOOLEAN, ScanLevel(b)
  PROVE  PlaceInv'
BY Tasks DEF TypeOK, PlaceInv, Opened, Working, File, ScanLevel, Go, tableVars, fileVars,
       saverVars,
   histVars, failVars, Opening, Removing, Unlinking

\* The dropping of a level that cannot be opened (ignore_broken_level) leaves
\* all variables of their type.
LEMMA IgnoreBrokenLevelType ==
  ASSUME TypeOK, IgnoreBrokenLevel
  PROVE  TypeOK'
<1>1. {loaded', force_unload', dirty_save', has_blocks', timed', level_in_use', no_unload',
       overtaken', spoilt'} \subseteq BOOLEAN
  BY DEF TypeOK, IgnoreBrokenLevel, ForgetLevel, InUse, Go, tableVars, fileVars, saverVars,
         histVars, failVars, Opening, Removing, Window, Unlinking, File
<1>2. {on_level', summon'} \subseteq [User -> BOOLEAN] /\ props' \in {"none", "new", "valid"}
  BY DEF TypeOK, IgnoreBrokenLevel, ForgetLevel, InUse, Go, tableVars, fileVars, saverVars,
         histVars, failVars, Opening, Removing, Window, Unlinking, File
<1>3. {blocks', cw', base', tmp', made', exposed'} \subseteq SUBSET (Edit \cup {Map})
  BY DEF TypeOK, IgnoreBrokenLevel, ForgetLevel, InUse, Go, tableVars, fileVars, saverVars,
         histVars, failVars, Opening, Removing, Window, Unlinking, File
<1>4. stage' \in [Task -> Opening \cup Removing \cup Window \cup Unlinking \cup
                  {"idle", "enter", "begin", "open", "failed", "save", "check", "unload"}]
  BY Tasks DEF TypeOK, IgnoreBrokenLevel, ForgetLevel, InUse, Go, tableVars, fileVars,
         saverVars, histVars, failVars, Opening, Removing, Window, Unlinking, File
<1>5. mine' \in [Task -> SUBSET File]
  BY Tasks DEF TypeOK, IgnoreBrokenLevel, ForgetLevel, InUse, Go, tableVars, fileVars,
         saverVars, histVars, failVars, Opening, Removing, Window, Unlinking, File
<1>6. del_on_err' \in [Task -> BOOLEAN] /\ fails' \in 0 .. MaxFails
  BY DEF TypeOK, IgnoreBrokenLevel, ForgetLevel, InUse, Go, tableVars, fileVars, saverVars,
         histVars, failVars, Opening, Removing, Window, Unlinking, File
<1>7. /\ unqueued' \in [User -> Edit \cup {NoEdit}]
      /\ \A v \in User : unqueued'[v] # NoEdit => stage'[Client(v)] = "open"
  BY Tasks DEF TypeOK, IgnoreBrokenLevel, ForgetLevel, InUse, Go, tableVars, fileVars,
         saverVars, histVars, failVars, Opening, Removing, Window, Unlinking, File
<1>8. QED
  BY <1>1, <1>2, <1>3, <1>4, <1>5, <1>6, <1>7 DEF TypeOK

\* The dropping of a level that cannot be opened (ignore_broken_level) leaves
\* clients that have files open on the level, and nobody on it while the saver
\* removes them.
LEMMA IgnoreBrokenLevelPlace ==
  ASSUME TypeOK, PlaceInv, IgnoreBrokenLevel
  PROVE  PlaceInv'
BY Tasks DEF TypeOK, PlaceInv, Opened, Working, File, IgnoreBrokenLevel, ForgetLevel, InUse,
       Go, tableVars, fileVars, saverVars,
   histVars, failVars, Opening, Removing, Unlinking

\* The saver's reading of the users and of dirty_save leaves all variables of
\* their type.
LEMMA DecideType ==
  ASSUME TypeOK, Decide
  PROVE  TypeOK'
<1>1. {loaded', force_unload', dirty_save', has_blocks', timed', level_in_use', no_unload',
       overtaken', spoilt'} \subseteq BOOLEAN
  BY DEF TypeOK, Decide, InUse, Go, tableVars, fileVars, histVars, failVars, Removing
<1>2. {on_level', summon'} \subseteq [User -> BOOLEAN]
  BY DEF TypeOK, Decide, InUse, Go, tableVars, fileVars, histVars, failVars, Removing
<1>3. props' \in {"none", "new", "valid"}
  BY DEF TypeOK, Decide, InUse, Go, tableVars, fileVars, histVars, failVars, Removing
<1>4. {blocks', cw', base', tmp', made', exposed'} \subseteq SUBSET (Edit \cup {Map})
  BY DEF TypeOK, Decide, InUse, Go, tableVars, fileVars, histVars, failVars, Removing
<1>5. stage' \in [Task -> Opening \cup Removing \cup Window \cup Unlinking \cup
                  {"idle", "enter", "begin", "open", "failed", "save", "check", "unload"}]
  BY Tasks DEF TypeOK, Opening, Window, Unlinking, Decide, InUse, Go, tableVars, fileVars,
         histVars, failVars, Removing
<1>6. mine' \in [Task -> SUBSET File]
  BY Tasks DEF TypeOK, File, Decide, InUse, Go, tableVars, fileVars, histVars, failVars,
         Removing
<1>7. unqueued' \in [User -> Edit \cup {NoEdit}]
  BY DEF TypeOK, Decide, InUse, Go, tableVars, fileVars, histVars, failVars, Removing
<1>8. \A v \in User : unqueued'[v] # NoEdit => stage'[Client(v)] = "open"
  BY Tasks DEF TypeOK, Opening, Window, Unlinking, Decide, InUse, Go, tableVars, fileVars,
         histVars, failVars, Removing
<1>9. del_on_err' \in [Task -> BOOLEAN] /\ fails' \in 0 .. MaxFails
  BY DEF TypeOK, Decide, InUse, Go, tableVars, fileVars, histVars, failVars, Removing
<1>10. QED
  BY <1>1, <1>2, <1>3, <1>4, <1>5, <1>6, <1>7, <1>8, <1>9 DEF TypeOK, failVars, Removing

\* The saver's reading of the users and of dirty_save leaves clients that have
\* files open on the level, and nobody on it while the saver removes them.
LEMMA DecidePlace ==
  ASSUME TypeOK, PlaceInv, Decide
  PROVE  PlaceInv'
BY Tasks DEF TypeOK, PlaceInv, Opened, Working, File, Decide, InUse, Go, tableVars, fileVars,
       histVars, Opening, Unlinking, failVars, Removing

\* Appending the queue to the file being written leaves all variables of their
\* type.
LEMMA FetchQueuedType ==
  ASSUME TypeOK, FetchQueued
  PROVE  TypeOK'
BY Tasks DEF TypeOK, FetchQueued, Go, tableVars, fileVars, Opening, Window, Unlinking,
       failVars, Removing

\* Appending the queue to the file being written leaves clients that have files
\* open on the level, and nobody on it while the saver removes them.
LEMMA FetchQueuedPlace ==
  ASSUME TypeOK, PlaceInv, FetchQueued
  PROVE  PlaceInv'
BY Tasks DEF TypeOK, PlaceInv, Opened, Working, File, FetchQueued, Go, tableVars, fileVars,
       Opening, Unlinking, failVars, Removing

\* The written file's becoming the .cw file leaves all variables of their type.
LEMMA RenameType ==
  ASSUME TypeOK, Rename
  PROVE  TypeOK'
BY Tasks DEF TypeOK, Rename, Go, tableVars, fileVars, saverVars, histVars, Opening, Window,
       Unlinking, failVars, Removing

\* The written file's becoming the .cw file leaves clients that have files open
\* on the level, and nobody on it while the saver removes them.
LEMMA RenamePlace ==
  ASSUME TypeOK, PlaceInv, Rename
  PROVE  PlaceInv'
BY Tasks DEF TypeOK, PlaceInv, Opened, Working, File, Rename, Go, tableVars, fileVars,
       saverVars, histVars, Opening, Unlinking, failVars, Removing

\* A save that fails leaves all variables of their type.
LEMMA SaveFailsType ==
  ASSUME TypeOK, SaveFails
  PROVE  TypeOK'
BY Tasks DEF TypeOK, SaveFails, Go, tableVars, fileVars, saverVars, histVars, Opening, Window,
       Unlinking, failVars, Removing

\* A save that fails leaves clients that have files open on the level, and
\* nobody on it while the saver removes them.
LEMMA SaveFailsPlace ==
  ASSUME TypeOK, PlaceInv, SaveFails
  PROVE  PlaceInv'
BY Tasks DEF TypeOK, PlaceInv, Opened, Working, File, SaveFails, Go, tableVars, fileVars,
       saverVars, histVars, Opening, Unlinking, failVars, Removing

\* Clearing dirty_save after a save leaves all variables of their type.
LEMMA ClearDirtyType ==
  ASSUME TypeOK, ClearDirty
  PROVE  TypeOK'
BY Tasks DEF TypeOK, ClearDirty, Go, tableVars, saverVars, histVars, Opening, Window,
       Unlinking, failVars, Removing

\* Clearing dirty_save after a save leaves clients that have files open on the
\* level, and nobody on it while the saver removes them.
LEMMA ClearDirtyPlace ==
  ASSUME TypeOK, PlaceInv, ClearDirty
  PROVE  PlaceInv'
BY Tasks DEF TypeOK, PlaceInv, Opened, Working, File, ClearDirty, Go, tableVars, saverVars,
       histVars, Opening, Unlinking, failVars, Removing

\* The saver's last look at the flags, when it closes the files, leaves all
\* variables of their type.
LEMMA CheckUnloadType ==
  ASSUME TypeOK, CheckUnload
  PROVE  TypeOK'
<1>1. {loaded', force_unload', dirty_save', has_blocks', timed', level_in_use', no_unload',
       overtaken', spoilt'} \subseteq BOOLEAN
  BY DEF TypeOK, CheckUnload, ForgetLevel, Go, tableVars, fileVars, saverVars, histVars,
         Opening, Window, Unlinking, File, failVars, Removing
<1>2. {on_level', summon'} \subseteq [User -> BOOLEAN] /\ props' \in {"none", "new", "valid"}
  BY DEF TypeOK, CheckUnload, ForgetLevel, Go, tableVars, fileVars, saverVars, histVars,
         Opening, Window, Unlinking, File, failVars, Removing
<1>3. {blocks', cw', base', tmp', made', exposed'} \subseteq SUBSET (Edit \cup {Map})
  BY DEF TypeOK, CheckUnload, ForgetLevel, Go, tableVars, fileVars, saverVars, histVars,
         Opening, Window, Unlinking, File, failVars, Removing
<1>4. stage' \in [Task -> Opening \cup Removing \cup Window \cup Unlinking \cup
                  {"idle", "enter", "begin", "open", "failed", "save", "check", "unload"}]
  BY Tasks DEF TypeOK, CheckUnload, ForgetLevel, Go, tableVars, fileVars, saverVars, histVars,
         Opening, Window, Unlinking, File, failVars, Removing
<1>5. mine' \in [Task -> SUBSET File]
  BY Tasks DEF TypeOK, CheckUnload, ForgetLevel, Go, tableVars, fileVars, saverVars, histVars,
         Opening, Window, Unlinking, File, failVars, Removing
<1>6. del_on_err' \in [Task -> BOOLEAN] /\ fails' \in 0 .. MaxFails
  BY DEF TypeOK, CheckUnload, ForgetLevel, Go, tableVars, fileVars, saverVars, histVars,
         Opening, Window, Unlinking, File, failVars, Removing
<1>7. /\ unqueued' \in [User -> Edit \cup {NoEdit}]
      /\ \A v \in User : unqueued'[v] # NoEdit => stage'[Client(v)] = "open"
  BY Tasks DEF TypeOK, CheckUnload, ForgetLevel, Go, tableVars, fileVars, saverVars, histVars,
         Opening, Window, Unlinking, File, failVars, Removing
<1>8. QED
  BY <1>1, <1>2, <1>3, <1>4, <1>5, <1>6, <1>7 DEF TypeOK

\* The saver's last look at the flags, when it closes the files, leaves clients
\* that have files open on the level, and nobody on it while the saver removes
\* them.
LEMMA CheckUnloadPlace ==
  ASSUME TypeOK, PlaceInv, CheckUnload
  PROVE  PlaceInv'
BY Tasks DEF TypeOK, PlaceInv, Opened, Working, File, CheckUnload, Go, tableVars, fileVars,
       saverVars, histVars, Opening, Unlinking, failVars, Removing

\* The count under system_lock and the removal of the properties leaves all
\* variables of their type.
LEMMA UnlinkPropsType ==
  ASSUME TypeOK, UnlinkProps
  PROVE  TypeOK'
<1>1. {loaded', force_unload', dirty_save', has_blocks', timed', level_in_use', no_unload',
       overtaken', spoilt'} \subseteq BOOLEAN
  BY DEF TypeOK, UnlinkProps, Recount, InUse, Go, Unlink, tableVars, fileVars, saverVars,
         failVars, Removing
<1>2. {on_level', summon'} \subseteq [User -> BOOLEAN]
  BY DEF TypeOK, UnlinkProps, Recount, InUse, Go, Unlink, tableVars, fileVars, saverVars,
         failVars, Removing
<1>3. props' \in {"none", "new", "valid"}
  BY DEF TypeOK, UnlinkProps, Recount, InUse, Go, Unlink, tableVars, fileVars, saverVars,
         failVars, Removing
<1>4. {blocks', cw', base', tmp', made', exposed'} \subseteq SUBSET (Edit \cup {Map})
  BY DEF TypeOK, UnlinkProps, Recount, InUse, Go, Unlink, tableVars, fileVars, saverVars,
         failVars, Removing
<1>5. stage' \in [Task -> Opening \cup Removing \cup Window \cup Unlinking \cup
                  {"idle", "enter", "begin", "open", "failed", "save", "check", "unload"}]
  BY Tasks DEF TypeOK, Opening, Window, Unlinking, UnlinkProps, Recount, InUse, Go, Unlink,
         tableVars, fileVars, saverVars, failVars, Removing
<1>6. mine' \in [Task -> SUBSET File]
  BY Tasks DEF TypeOK, File, UnlinkProps, Recount, InUse, Go, Unlink, tableVars, fileVars,
         saverVars, failVars, Removing
<1>7. unqueued' \in [User -> Edit \cup {NoEdit}]
  BY DEF TypeOK, UnlinkProps, Recount, InUse, Go, Unlink, tableVars, fileVars, saverVars,
         failVars, Removing
<1>8. \A v \in User : unqueued'[v] # NoEdit => stage'[Client(v)] = "open"
  BY Tasks DEF TypeOK, Opening, Window, Unlinking, UnlinkProps, Recount, InUse, Go, Unlink,
         tableVars, fileVars, saverVars, failVars, Removing
<1>9. del_on_err' \in [Task -> BOOLEAN] /\ fails' \in 0 .. MaxFails
  BY DEF TypeOK, UnlinkProps, Recount, InUse, Go, Unlink, tableVars, fileVars, saverVars,
         failVars, Removing
<1>10. QED
  BY <1>1, <1>2, <1>3, <1>4, <1>5, <1>6, <1>7, <1>8, <1>9 DEF TypeOK, failVars, Removing

\* The count under system_lock and the removal of the properties leaves clients
\* that have files open on the level, and nobody on it while the saver removes
\* them.
LEMMA UnlinkPropsPlace ==
  ASSUME TypeOK, PlaceInv, UnlinkProps
  PROVE  PlaceInv'
BY Tasks DEF TypeOK, PlaceInv, Opened, Working, File, UnlinkProps, Recount, Go, fileVars,
       Unlink, tableVars, saverVars, InUse, Opening, Unlinking, failVars, Removing

\* The removal of the blocks leaves all variables of their type.
LEMMA UnlinkBlocksType ==
  ASSUME TypeOK, UnlinkBlocks
  PROVE  TypeOK'
<1>1. {loaded', force_unload', dirty_save', has_blocks', timed', level_in_use', no_unload',
       overtaken', spoilt'} \subseteq BOOLEAN
  BY DEF TypeOK, UnlinkBlocks, Go, Unlink, tableVars, saverVars, failVars, Removing
<1>2. {on_level', summon'} \subseteq [User -> BOOLEAN]
  BY DEF TypeOK, UnlinkBlocks, Go, Unlink, tableVars, saverVars, failVars, Removing
<1>3. props' \in {"none", "new", "valid"}
  BY DEF TypeOK, UnlinkBlocks, Go, Unlink, tableVars, saverVars, failVars, Removing
<1>4. {blocks', cw', base', tmp', made', exposed'} \subseteq SUBSET (Edit \cup {Map})
  BY DEF TypeOK, UnlinkBlocks, Go, Unlink, tableVars, saverVars, failVars, Removing
<1>5. stage' \in [Task -> Opening \cup Removing \cup Window \cup Unlinking \cup
                  {"idle", "enter", "begin", "open", "failed", "save", "check", "unload"}]
  BY Tasks DEF TypeOK, Opening, Window, Unlinking, UnlinkBlocks, Go, Unlink, tableVars,
         saverVars, failVars, Removing
<1>6. mine' \in [Task -> SUBSET File]
  BY Tasks DEF TypeOK, File, UnlinkBlocks, Go, Unlink, tableVars, saverVars, failVars, Removing
<1>7. unqueued' \in [User -> Edit \cup {NoEdit}]
  BY DEF TypeOK, UnlinkBlocks, Go, Unlink, tableVars, saverVars, failVars, Removing
<1>8. \A v \in User : unqueued'[v] # NoEdit => stage'[Client(v)] = "open"
  BY Tasks DEF TypeOK, Opening, Window, Unlinking, UnlinkBlocks, Go, Unlink, tableVars,
         saverVars, failVars, Removing
<1>9. del_on_err' \in [Task -> BOOLEAN] /\ fails' \in 0 .. MaxFails
  BY DEF TypeOK, UnlinkBlocks, Go, Unlink, tableVars, saverVars, failVars, Removing
<1>10. QED
  BY <1>1, <1>2, <1>3, <1>4, <1>5, <1>6, <1>7, <1>8, <1>9 DEF TypeOK, failVars, Removing

\* The removal of the blocks leaves clients that have files open on the level,
\* and nobody on it while the saver removes them.
LEMMA UnlinkBlocksPlace ==
  ASSUME TypeOK, PlaceInv, UnlinkBlocks
  PROVE  PlaceInv'
BY Tasks DEF TypeOK, PlaceInv, Opened, Working, File, UnlinkBlocks, Unlink, Go, tableVars,
       saverVars, Opening, Unlinking, failVars, Removing

\* The removal of the lock file and of the level's entry leaves all variables
\* of their type.
LEMMA UnlinkLockType ==
  ASSUME TypeOK, UnlinkLock
  PROVE  TypeOK'
BY Tasks DEF TypeOK, UnlinkLock, Unlink, Go, fileVars, saverVars, Opening, Window, Unlinking,
       failVars, Removing

\* The removal of the lock file and of the level's entry leaves clients that
\* have files open on the level, and nobody on it while the saver removes them.
LEMMA UnlinkLockPlace ==
  ASSUME TypeOK, PlaceInv, UnlinkLock
  PROVE  PlaceInv'
BY Tasks DEF TypeOK, PlaceInv, Opened, Working, File, UnlinkLock, Unlink, Go, fileVars,
       saverVars, Opening, Unlinking, failVars, Removing

-----------------------------------------------------------------------------
(* Who removes the files after a failure is alone with them.               *)

\* No step but a failure begins a removal.
LEMMA NoRemovalBegins ==
  ASSUME TypeOK, Next, \A t \in Task : ~OpenFails(t), NEW r \in Task, stage'[r] \in Removing
  PROVE  stage[r] \in Removing
<1>1. ASSUME NEW t \in Task, NEW x, Go(t, x), x \in Removing => stage[t] \in Removing
      PROVE  stage[r] \in Removing
  BY <1>1 DEF TypeOK, Go
<1>2. CASE stage' = stage
  BY <1>2
<1>3. ASSUME NEW t \in Task, OpenLevelFiles(t)
      PROVE  stage[r] \in Removing
  <2>1. \E x : Go(t, x) /\ (x \in Removing => stage[t] \in Removing)
    BY <1>3 DEF OpenLevelFiles, Look, OpenProps, OpenBlocks, LoadProps, LoadBlocks, RemoveProps,
       RemoveBlocks, Removing
  <2>2. QED
    BY <1>1, <2>1
<1>4. ASSUME NEW u \in User, Goto(u) \/ CheckUserSummon(u)
      PROVE  stage[r] \in Removing
  <2>1. stage' = stage \/ Go(Client(u), "enter") \/ Go(Loader(u), "begin")
    BY <1>4 DEF Goto, CheckUserSummon, Teleport
  <2>2. QED
    BY <1>1, <1>2, <2>1, Tasks DEF Removing
<1>5. ASSUME NEW u \in User,
             \/ StartLevel(u) \/ LoaderStart(u) \/ LoaderRegister(u) \/ WriteBlock(u)
             \/ SendUpdate(u) \/ Leave(u) \/ ReturnToMain(u) \/ LoaderFails(u) \/ DieOpening(u)
      PROVE  stage[r] \in Removing
  <2>1. \/ stage' = stage
        \/ \E t \in {Client(u), Loader(u)}, x \in {"lock", "idle"} : Go(t, x)
    BY <1>5 DEF StartLevel, LoaderStart, LoaderRegister, WriteBlock, SendUpdate, Leave,
       ReturnToMain, LoaderFails, DieOpening
  <2>2. QED
    BY <1>1, <1>2, <2>1, Tasks DEF Removing
<1>6. CASE CmdUnload
  BY <1>2, <1>6 DEF CmdUnload
<1>7. CASE (\E b \in BOOLEAN : ScanLevel(b)) \/ IgnoreBrokenLevel \/ Save \/ Unload
  <2>1. \E x : Go(Saver, x) /\ x \notin Removing
    BY <1>7 DEF ScanLevel, IgnoreBrokenLevel, Save, Decide, FetchQueued, Rename, SaveFails,
       ClearDirty, Unload, CheckUnload, UnlinkProps, UnlinkBlocks, UnlinkLock, Removing
  <2>2. QED
    BY <1>1, <2>1, Tasks
<1>8. QED
  BY <1>3, <1>4, <1>5, <1>6, <1>7 DEF Next

\* Nobody gets at the properties, or makes them dirty, but through open_level_files.
LEMMA NobodyComes ==
  ASSUME TypeOK, Next, \A t \in Task : "props" \notin mine[t], ~dirty_save,
         \A t \in Task : ~OpenProps(t)
  PROVE  ~dirty_save' /\ \A t \in Task : "props" \notin mine'[t]
<1>1. ASSUME NEW t \in Task, OpenLevelFiles(t)
      PROVE  ~dirty_save' /\ \A r \in Task : "props" \notin mine'[r]
  <2>1. ~LoadProps(t)
    BY DEF LoadProps
  <2>2. CASE Look(t) \/ OpenBlocks(t) \/ LoadBlocks(t) \/ OpenFails(t)
    <3>1. CASE Look(t)
      BY <3>1 DEF TypeOK, Look, fileVars
    <3>2. CASE OpenBlocks(t)
      BY <3>2 DEF TypeOK, OpenBlocks
    <3>3. CASE LoadBlocks(t)
      BY <3>3 DEF LoadBlocks
    <3>4. CASE OpenFails(t)
      BY <3>4 DEF TypeOK, OpenFails, fileVars
    <3>5. QED
      BY <2>2, <3>1, <3>2, <3>3, <3>4
  <2>3. CASE RemoveProps(t) \/ RemoveBlocks(t)
    BY <2>3 DEF TypeOK, RemoveProps, RemoveBlocks, Remove
  <2>4. QED
    BY <1>1, <2>1, <2>2, <2>3 DEF OpenLevelFiles
<1>2. ASSUME NEW u \in User,
             \/ Goto(u) \/ CheckUserSummon(u) \/ StartLevel(u) \/ LoaderStart(u)
             \/ LoaderRegister(u) \/ WriteBlock(u) \/ SendUpdate(u) \/ Leave(u)
             \/ ReturnToMain(u) \/ LoaderFails(u) \/ DieOpening(u)
      PROVE  ~dirty_save' /\ \A r \in Task : "props" \notin mine'[r]
  BY <1>2, Tasks DEF TypeOK, Goto, CheckUserSummon, StartLevel, LoaderStart, LoaderRegister,
     WriteBlock, SendUpdate, Leave, ReturnToMain, LoaderFails, DieOpening, fileVars
<1>3. CASE CmdUnload \/ (\E b \in BOOLEAN : ScanLevel(b)) \/ IgnoreBrokenLevel
  BY <1>3, Tasks DEF TypeOK, CmdUnload, ScanLevel, IgnoreBrokenLevel, fileVars
<1>4. CASE Save \/ Unload
  BY <1>4, Tasks DEF TypeOK, Save, Decide, FetchQueued, Rename, SaveFails, ClearDirty, Unload,
     CheckUnload, UnlinkProps, UnlinkBlocks, UnlinkLock, Unlink, fileVars
<1>5. QED
  BY <1>1, <1>2, <1>3, <1>4 DEF Next

\* What a failure has spoilt stays so.
LEMMA SpoiltStays ==
  ASSUME [Next]_vars, spoilt
  PROVE  spoilt'
<1>1. CASE UNCHANGED spoilt
  BY <1>1
<1>2. ASSUME NEW t \in Task, OpenLevelFiles(t)
      PROVE  spoilt'
  BY <1>2 DEF OpenLevelFiles, Look, OpenProps, OpenBlocks, LoadProps, LoadBlocks, OpenFails,
     RemoveProps, RemoveBlocks, Forget, failVars
<1>3. CASE Next /\ \A t \in Task : ~OpenLevelFiles(t)
  BY <1>3 DEF Next, Goto, CheckUserSummon, StartLevel, LoaderStart, LoaderRegister, WriteBlock,
     SendUpdate, Leave, ReturnToMain, LoaderFails, DieOpening, Forget, CmdUnload, ScanLevel,
     IgnoreBrokenLevel, Save, Decide, FetchQueued, Rename, SaveFails, ClearDirty, Unload,
     CheckUnload, UnlinkProps, UnlinkBlocks, UnlinkLock, failVars
<1>4. QED
  BY <1>1, <1>2, <1>3 DEF vars, failVars

\* Who removes the files is alone with them after every step.
LEMMA RemoveStep ==
  ASSUME TypeOK, RemoveInv, [Next]_vars, ~spoilt'
  PROVE  RemoveInv'
<1>1. CASE UNCHANGED vars
  BY <1>1 DEF vars, fileVars, RemoveInv
<1>2. ASSUME NEW t \in Task, OpenFails(t)
      PROVE  RemoveInv'
  <2>1. /\ \A r \in Task : r # t => stage'[r] = stage[r] /\ mine'[r] = mine[r]
        /\ mine'[t] = {} /\ dirty_save' = dirty_save
        /\ stage'[t] \in Removing => del_on_err[t]
        /\ del_on_err[t] => ~dirty_save /\ \A s \in Task \ {t} : "props" \notin mine[s]
    BY <1>2 DEF TypeOK, OpenFails, Go, Removing, fileVars
  <2>2. QED
    BY <2>1 DEF RemoveInv
<1>3. ASSUME NEW t \in Task, OpenProps(t)
      PROVE  RemoveInv'
  <2>1. /\ \A s \in Task : stage[s] \notin Removing
        /\ \A r \in Task : stage'[r] = stage[r] \/ stage'[r] = "props"
    BY <1>3 DEF TypeOK, OpenProps, Go
  <2>2. QED
    BY <2>1 DEF RemoveInv, Removing
<1>4. CASE Next /\ (\A t \in Task : ~OpenFails(t)) /\ \A t \in Task : ~OpenProps(t)
  BY <1>4, NoRemovalBegins, NobodyComes DEF RemoveInv
<1>5. QED
  BY <1>1, <1>2, <1>3, <1>4

-----------------------------------------------------------------------------
(* No edit is lost.                                                        *)

\* While every task has the files its stage stands for, somebody fills the blocks
\* or is to remove them exactly when a task is at it.
LEMMA LoadingIs ==
  ASSUME MineInv
  PROVE  Loading <=> \E t \in Task : stage[t] \in {"load"} \cup Removing
BY DEF MineInv, Opened, Working, File, Loading

\* Where a task has the properties open, none removes them after a failure.
LEMMA NoneRemoves ==
  ASSUME MineInv, RemoveInv, NEW t \in Task, stage[t] \in Working \cup {"props", "load"}
  PROVE  \A s \in Task : stage[s] \notin Removing
<1>1. "props" \in mine[t]
  BY DEF MineInv, Opened, Working, Window, File
<1>2. QED
  BY <1>1 DEF RemoveInv

\* Who gets level_lock finds nobody opening the level.
LEMMA LockHeld ==
  ASSUME MineInv, NEW t \in Task,
         stage[t] \in Working \cup Opening,
         LevelLockFree(t)
  PROVE  \A s \in Task : s # t => stage[s] \notin {"props", "load"}
BY DEF MineInv, Opened, Working, Window, File, LevelLockFree, Opening

\* t goes to x, with the files that takes.
Moved(t, x) ==
  /\ Go(t, x)
  /\ mine'[t] = Opened(x)
  /\ \A r \in Task : r # t => mine'[r] = mine[r]

\* A step of one task moves no other.
LEMMA MovedStage ==
  ASSUME TypeOK, NEW t \in Task, NEW x, Go(t, x)
  PROVE  stage'[t] = x /\ \A r \in Task : r # t => stage'[r] = stage[r]
BY DEF TypeOK, Go

\* A task that moves with the files of its new stage keeps the files in order.
LEMMA MineStep ==
  ASSUME TypeOK, MineInv, NEW t \in Task, NEW x, Moved(t, x)
  PROVE  MineInv'
<1>1. stage'[t] = x /\ \A r \in Task : r # t => stage'[r] = stage[r]
  BY MovedStage DEF Moved
<1>2. QED
  BY <1>1 DEF Moved, MineInv, Opened

\* A task that moves to where level_lock lets it keeps the lock in order.
LEMMA LockStep ==
  ASSUME TypeOK, LockInv, NEW t \in Task, NEW x, Go(t, x),
         x \in {"props", "load"} =>
           \A s \in Task : s # t => stage[s] \notin {"props", "load"},
         x = "load" => \A s \in Task : s # t => stage[s] \notin Working,
         x \in Working => \A s \in Task : s # t => stage[s] # "load"
  PROVE  LockInv'
<1>1. stage'[t] = x /\ \A r \in Task : r # t => stage'[r] = stage[r]
  BY MovedStage
<1>2. x \in Working => x \notin {"props", "load"}
  BY DEF Working, Window
<1>3. ASSUME NEW r \in Task, NEW s \in Task,
             stage'[r] \in {"props", "load"}, stage'[s] \in {"props", "load"}
      PROVE  r = s
  BY <1>1, <1>3 DEF LockInv
<1>4. ASSUME NEW r \in Task, NEW s \in Task, stage'[s] = "load", stage'[r] \in Working
      PROVE  FALSE
  <2>1. CASE s = t
    BY <1>1, <1>2, <1>4, <2>1
  <2>2. CASE s # t
    BY <1>1, <1>4, <2>2 DEF LockInv
  <2>3. QED
    BY <2>1, <2>2
<1>5. QED
  BY <1>3, <1>4 DEF LockInv

\* Steps that leave the files alone and open none of them.
LEMMA Moving ==
  ASSUME TypeOK, LevelInv, NEW t \in Task, NEW x, Moved(t, x),
         UNCHANGED <<fileVars, cw, made, exposed, unqueued>>, tmp' = tmp \/ t = Saver,
         stage[t] \notin {"load"} \cup Removing, x \notin {"props", "load"} \cup Removing,
         x \in Working => stage[t] \in Working,
         t = Saver => x \notin {"fetched", "renamed", "unload"} \cup Unlinking,
         stage[Saver] \in Unlinking => stage[t] # "open"
  PROVE  LevelInv'
<1>1. stage'[t] = x /\ \A r \in Task : r # t => stage'[r] = stage[r]
  BY MovedStage DEF Moved
<1>2. MineInv'
  BY MineStep DEF LevelInv
<1>3. LockInv'
  BY LockStep DEF LevelInv, LockInv, Moved
<1>4. PropsInv'
  <2>1. props' = props /\ has_blocks' = has_blocks
    BY DEF fileVars
  <2>2. ASSUME NEW r \in Task
        PROVE  /\ stage'[r] = "props" => props # "none"
               /\ stage'[r] \in Working \cup {"load"} => props = "valid"
               /\ stage'[r] = "remove2" => props = "none"
    <3>1. CASE r = t
      BY <1>1, <3>1 DEF LevelInv, PropsInv, Removing
    <3>2. CASE r # t
      BY <1>1, <3>2 DEF LevelInv, PropsInv
    <3>3. QED
      BY <3>1, <3>2
  <2>3. stage'[Saver] \in Unlinking => stage[Saver] \in Unlinking
    BY <1>1, Tasks
  <2>4. ASSUME NEW u \in User, stage[Saver] \in Unlinking,
               stage[Loader(u)] \in {"load", "open", "remove"}
        PROVE  stage'[Loader(u)] \in {"load", "open", "remove"}
    BY <1>1, <2>4, Tasks DEF Removing
  <2>5. \A r \in Task : stage[r] = "remove" => stage'[r] = "remove"
    BY <1>1 DEF Removing
  <2>6. QED
    BY <2>1, <2>2, <2>3, <2>4, <2>5 DEF LevelInv, PropsInv
<1>5. Loading' <=> Loading
  <2>1. Loading' <=> \E r \in Task : stage'[r] \in {"load"} \cup Removing
    BY <1>2 DEF MineInv, Opened, Working, File, Loading
  <2>2. QED
    BY <1>1, <2>1, LoadingIs DEF LevelInv
<1>6. SavedInv'
  <2>1. /\ stage'[Saver] = "fetched" => stage[Saver] = "fetched"
        /\ stage'[Saver] \in Unlinking \cup {"renamed", "unload"} =>
             stage[Saver] \in Unlinking \cup {"renamed", "unload"}
    BY <1>1, Tasks
  <2>2. Contents' = Contents /\ Safe' = Safe
    BY <1>5 DEF Contents, Safe, fileVars
  <2>3. stage'[Saver] = "fetched" => tmp' = tmp
    BY <1>1
  <2>4. QED
    BY <2>1, <2>2, <2>3 DEF LevelInv, SavedInv, fileVars
<1>7. QED
  BY <1>2, <1>3, <1>4, <1>6 DEF LevelInv

\* A step that changes neither the files nor where the tasks are loses no edit.
LEMMA Staying ==
  ASSUME LevelInv, UNCHANGED <<fileVars, cw, tmp, made, exposed, unqueued, stage, mine>>
  PROVE  LevelInv'
BY DEF fileVars, LevelInv, MineInv, Opened, LockInv, PropsInv, SavedInv, Safe, Contents,
      Loading

\* Clients and loaders on their way in and out.
LEMMA UserMoves ==
  ASSUME TypeOK, LevelInv, NEW u \in User,
         \/ Goto(u) \/ CheckUserSummon(u) \/ StartLevel(u) \/ LoaderStart(u)
         \/ LoaderRegister(u) \/ Leave(u) \/ ReturnToMain(u) \/ LoaderFails(u)
  PROVE  LevelInv'
<1>0. UNCHANGED <<fileVars, cw, tmp, made, exposed, unqueued>>
  BY DEF Goto, CheckUserSummon, StartLevel, LoaderStart, LoaderRegister, Leave,
     ReturnToMain, LoaderFails, saverVars, histVars
<1> DEFINE Idle(t) == stage[t] = "idle" /\ mine[t] = {}
<1>1. mine \in [Task -> SUBSET File] /\ \A t \in Task : mine[t] = Opened(stage[t])
  BY DEF TypeOK, LevelInv, MineInv
<1>2. CASE /\ mine' = mine
           /\ \/ stage[Client(u)] = "idle" /\ Go(Client(u), "enter")
              \/ stage[Loader(u)] = "idle" /\ Go(Loader(u), "begin")
  <2>1. \/ stage[Client(u)] = "idle" /\ Moved(Client(u), "enter")
        \/ stage[Loader(u)] = "idle" /\ Moved(Loader(u), "begin")
    BY <1>1, <1>2, Tasks DEF Moved, Opened, Working, Window
  <2>2. QED
    BY <1>0, <2>1, Tasks, Moving DEF Working, Window, Removing
<1>3. CASE Goto(u) \/ CheckUserSummon(u)
  <2>1. mine' = mine
    BY <1>3 DEF Goto, CheckUserSummon
  <2>2. CASE stage' = stage
    BY <1>0, <2>1, <2>2, Staying
  <2>3. CASE stage' # stage
    BY <1>2, <1>3, <2>1, <2>3 DEF Goto, CheckUserSummon, MayTeleport, Teleport
  <2>4. QED
    BY <2>2, <2>3
<1>4. CASE StartLevel(u) \/ LoaderStart(u)
  <2>1. \/ stage[Client(u)] = "enter" /\ Moved(Client(u), "lock")
        \/ stage[Loader(u)] = "begin" /\ Moved(Loader(u), "lock")
    BY <1>1, <1>4, Tasks DEF StartLevel, LoaderStart, Moved, Opened
  <2>2. QED
    BY <1>0, <2>1, Tasks, Moving DEF Working, Window, Removing
<1>5. CASE LoaderRegister(u) \/ Leave(u)
  <2>1. \/ stage[Client(u)] = "open" /\ Moved(Client(u), "idle")
        \/ stage[Loader(u)] = "open" /\ Moved(Loader(u), "idle")
    BY <1>1, <1>5, Tasks DEF LoaderRegister, Leave, Moved, Opened, Working, Window
  <2>2. stage[Saver] \notin Unlinking
    BY <1>5 DEF LoaderRegister, Leave, Register, SystemFree
  <2>3. QED
    BY <1>0, <2>1, <2>2, Tasks, Moving DEF Working, Window, Removing
<1>6. CASE ReturnToMain(u) \/ LoaderFails(u)
  <2>1. \/ stage[Client(u)] = "failed" /\ Moved(Client(u), "idle")
        \/ stage[Loader(u)] = "failed" /\ Moved(Loader(u), "idle")
    BY <1>1, <1>6, Tasks DEF ReturnToMain, LoaderFails, Moved, Opened, Working, Window
  <2>2. QED
    BY <1>0, <2>1, Tasks, Moving DEF Working, Window, Removing
<1>7. QED
  BY <1>3, <1>4, <1>5, <1>6

\* Steps of the saver that change neither the files nor what counts as saved.
LEMMA SaverMoves ==
  ASSUME TypeOK, LevelInv,
         \/ \E t \in BOOLEAN : ScanLevel(t)
         \/ IgnoreBrokenLevel \/ Decide \/ SaveFails
         \/ UnlinkProps /\ Recount
  PROVE  LevelInv'
<1>0. UNCHANGED <<fileVars, cw, made, exposed, unqueued>>
  BY DEF ScanLevel, IgnoreBrokenLevel, Decide, SaveFails, UnlinkProps, histVars, fileVars
<1>1. mine \in [Task -> SUBSET File] /\ \A t \in Task : mine[t] = Opened(stage[t])
  BY DEF TypeOK, LevelInv, MineInv
<1>2. CASE (\E t \in BOOLEAN : ScanLevel(t)) \/ IgnoreBrokenLevel
  <2>1. \/ stage[Saver] = "idle" /\ Moved(Saver, "lock")
        \/ stage[Saver] = "failed" /\ Moved(Saver, "idle")
    BY <1>1, <1>2, Tasks DEF ScanLevel, IgnoreBrokenLevel, Moved, Opened, Working, Window
  <2>2. QED
    BY <1>0, <2>1, Tasks, Moving DEF Working, Window, Unlinking, Removing
<1>3. CASE Decide \/ SaveFails
  <2>1. PICK x \in {"save", "check"} : Go(Saver, x)
    BY <1>3 DEF Decide, SaveFails
  <2>2. stage[Saver] \in {"open", "save", "fetched"} /\ mine' = mine
    BY <1>3 DEF Decide, SaveFails
  <2>3. Moved(Saver, x)
    BY <1>1, <2>1, <2>2, Tasks DEF Moved, Opened, Working, Window
  <2>4. QED
    BY <1>0, <2>2, <2>3, Tasks, Moving DEF Working, Window, Unlinking, Removing
<1>4. CASE UnlinkProps /\ Recount
  <2>1. Moved(Saver, "idle") /\ stage[Saver] = "unload"
    BY <1>1, <1>4, Tasks DEF UnlinkProps, Moved, Opened, Working, Window
  <2>2. QED
    BY <1>0, <2>1, Tasks, Moving DEF Working, Window, Unlinking, Removing
<1>5. QED
  BY <1>2, <1>3, <1>4

\* What is opened while the saver removes the files, a loader opens.
LEMMA LoaderComes ==
  ASSUME TypeOK, PlaceInv, NEW t \in Task, NEW x \in {"load", "open"},
         stage[t] \in Opening, Go(t, x)
  PROVE  stage'[Saver] \in Unlinking =>
           \E u \in User : stage'[Loader(u)] \in {"load", "open", "remove"}
<1>1. stage'[t] = x /\ \A r \in Task : r # t => stage'[r] = stage[r]
  BY MovedStage
<1>2. SUFFICES ASSUME stage'[Saver] \in Unlinking
               PROVE  \E u \in User : t = Loader(u)
  BY <1>1
<1>3. t # Saver /\ stage[Saver] \in Unlinking
  BY <1>1, <1>2, Tasks DEF Unlinking
<1>4. \A u \in User : t # Client(u)
  BY <1>3 DEF PlaceInv
<1>5. QED
  BY <1>3, <1>4, Tasks

\* The look for a level's files changes none.
LEMMA LookLevel ==
  ASSUME TypeOK, LevelInv, NEW t \in Task, Look(t)
  PROVE  LevelInv'
<1>1. PICK x \in {"wait", "failed"} :
        /\ Go(t, x) /\ (x = "failed" => t = Saver)
        /\ mine' = [mine EXCEPT ![t] = IF x = "failed" THEN {} ELSE @]
        /\ stage[t] = "lock"
  BY DEF Look
<1>2. UNCHANGED <<fileVars, cw, tmp, made, exposed, unqueued>>
  BY DEF Look, saverVars, histVars
<1>3. Moved(t, x)
  BY <1>1 DEF TypeOK, LevelInv, MineInv, Opened, Working, Window, Moved
<1>4. QED
  BY <1>1, <1>2, <1>3, Moving DEF Working, Window, Unlinking, Removing

\* level_lock is taken and the properties are opened or made anew.
LEMMA OpenPropsLevel ==
  ASSUME TypeOK, PlaceInv, LevelInv, NEW t \in Task, OpenProps(t), ~spoilt'
  PROVE  LevelInv'
<1>0. \A s \in Task : stage[s] \notin Removing
  BY DEF OpenProps
<1>1. /\ stage[t] = "wait" /\ Go(t, "props") /\ MineInv
      /\ mine' = [mine EXCEPT ![t] = @ \cup {"props"}]
      /\ props' = IF props = "none" THEN "new" ELSE props
      /\ dirty_save' = (props # "none" /\ dirty_save)
      /\ UNCHANGED <<has_blocks, blocks, cw, unqueued, tmp, made, exposed>>
  BY DEF OpenProps, LevelInv, saverVars, histVars
<1>2. \A s \in Task : s # t => stage[s] \notin {"props", "load"}
  BY <1>1, LockHeld DEF OpenProps, Opening
<1>3. Moved(t, "props")
  BY <1>1 DEF TypeOK, MineInv, Opened, Working, Window, Moved
<1>4. stage'[t] = "props" /\ \A r \in Task : r # t => stage'[r] = stage[r]
  BY <1>1, MovedStage
<1>5. MineInv'
  BY <1>1, <1>3, MineStep
<1>6. LockInv'
  BY <1>1, <1>2, LockStep DEF LevelInv, Working, Window
<1>7. PropsInv'
  <2>1. props' # "none" /\ (props' = "valid" <=> props = "valid")
    BY <1>1
  <2>2. \A r \in Task : stage'[r] \in Working \cup {"load"} => props' = "valid"
    BY <1>4, <2>1 DEF LevelInv, PropsInv, Working, Window
  <2>3. props' = "valid" => has_blocks'
    BY <1>0, <1>1, <2>1 DEF LevelInv, PropsInv, Removing
  <2>4. ASSUME stage'[Saver] \in Unlinking, props' = "valid"
        PROVE  \E u \in User : stage'[Loader(u)] \in {"load", "open", "remove"}
    <3>1. PICK u \in User : stage[Loader(u)] \in {"load", "open", "remove"}
      BY <1>4, <2>1, <2>4, Tasks DEF LevelInv, PropsInv, Unlinking
    <3>2. QED
      BY <1>1, <1>4, <3>1, Tasks
  <2>5. \A r \in Task : stage'[r] # "remove2"
    BY <1>0, <1>4 DEF Removing
  <2>6. QED
    BY <2>1, <2>2, <2>3, <2>4, <2>5 DEF PropsInv
<1>8. SavedInv'
  <2>1. Safe' = Safe /\ (props' = "valid" <=> props = "valid")
    BY <1>1 DEF Safe
  <2>2. ~Loading /\ ~Loading'
    BY <1>0, <1>1, <1>2, <1>4 DEF Loading, Removing
  <2>3. Contents' = Contents
    BY <1>1, <2>1, <2>2 DEF Contents
  <2>4. ~dirty_save' => Safe \subseteq cw
    BY <1>1 DEF LevelInv, SavedInv, Contents
  <2>5. /\ stage'[Saver] = "fetched" => stage[Saver] = "fetched"
        /\ stage'[Saver] \in Unlinking \cup {"renamed", "unload"} =>
             stage[Saver] \in Unlinking \cup {"renamed", "unload"}
    BY <1>4, Tasks DEF Unlinking
  <2>6. QED
    BY <1>1, <2>1, <2>3, <2>4, <2>5 DEF LevelInv, SavedInv
<1>9. QED
  BY <1>5, <1>6, <1>7, <1>8 DEF LevelInv

\* Properties and blocks are valid and are opened as they are.
LEMMA OpenBlocksLevel ==
  ASSUME TypeOK, PlaceInv, RemoveInv, LevelInv, NEW t \in Task, OpenBlocks(t)
  PROVE  LevelInv'
<1>0. \A s \in Task : stage[s] \notin Removing
  BY NoneRemoves DEF OpenBlocks, LevelInv
<1>1. /\ stage[t] = "props" /\ Go(t, "open") /\ MineInv
      /\ "props" \in mine[t] => props = "valid"
      /\ mine' = [mine EXCEPT ![t] = @ \cup {"blocks"}]
      /\ UNCHANGED <<props, dirty_save, cw, unqueued, tmp, made, exposed>>
  BY DEF OpenBlocks, LevelInv, saverVars, histVars
<1>2. props = "valid"
  BY <1>1 DEF MineInv, Opened
<1>3. blocks' = blocks /\ has_blocks' /\ has_blocks
  BY <1>0, <1>2 DEF OpenBlocks, LevelInv, PropsInv, Removing
<1>4. \A s \in Task : s # t => stage[s] \notin {"props", "load"}
  BY <1>1 DEF LevelInv, LockInv
<1>5. Moved(t, "open")
  BY <1>1 DEF TypeOK, MineInv, Opened, Working, Window, File, Moved
<1>6. stage'[t] = "open" /\ \A r \in Task : r # t => stage'[r] = stage[r]
  BY <1>1, MovedStage
<1>7. MineInv'
  BY <1>1, <1>5, MineStep
<1>8. LockInv'
  BY <1>1, <1>4, LockStep DEF LevelInv
<1>9. PropsInv'
  <2>1. stage'[Saver] \in Unlinking =>
          \E u \in User : stage'[Loader(u)] \in {"load", "open", "remove"}
    BY <1>1, LoaderComes DEF Opening
  <2>2. QED
    BY <1>0, <1>1, <1>2, <1>3, <1>6, <2>1 DEF PropsInv, Removing
<1>10. SavedInv'
  <2>1. ~Loading /\ ~Loading'
    BY <1>0, <1>1, <1>4, <1>6 DEF Loading, Removing
  <2>2. Contents' = Contents /\ Safe' = Safe
    BY <1>1, <1>3, <2>1 DEF Contents, Safe
  <2>3. /\ stage'[Saver] = "fetched" => stage[Saver] = "fetched"
        /\ stage'[Saver] \in Unlinking \cup {"renamed", "unload"} =>
             stage[Saver] \in Unlinking \cup {"renamed", "unload"}
    BY <1>6, Tasks DEF Unlinking
  <2>4. QED
    BY <1>1, <1>3, <2>2, <2>3 DEF LevelInv, SavedInv
<1>11. QED
  BY <1>7, <1>8, <1>9, <1>10 DEF LevelInv

\* load_cwfile makes the files of a level of which there are none: all that is
\* safe is in the .cw file.
LEMMA LoadPropsLevel ==
  ASSUME TypeOK, PlaceInv, RemoveInv, LevelInv, NEW t \in Task, LoadProps(t)
  PROVE  LevelInv'
<1>0. \A s \in Task : stage[s] \notin Removing
  BY NoneRemoves DEF LoadProps, LevelInv
<1>1. /\ stage[t] = "props" /\ Go(t, "load") /\ MineInv
      /\ props # "valid"
      /\ props' = "valid" /\ ~dirty_save' /\ has_blocks'
      /\ mine' = [mine EXCEPT ![t] = @ \cup {"props", "blocks"}]
      /\ UNCHANGED <<cw, unqueued, tmp, made, exposed>>
  BY DEF LoadProps, LevelInv, saverVars, histVars
<1>2. \A s \in Task : stage[s] \notin Working \cup {"load"}
  BY <1>1 DEF LevelInv, PropsInv
<1>3. \A s \in Task : s # t => stage[s] # "props"
  BY <1>1 DEF LevelInv, LockInv
<1>4. Moved(t, "load")
  BY <1>1 DEF TypeOK, MineInv, Opened, Working, Window, File, Moved
<1>5. stage'[t] = "load" /\ \A r \in Task : r # t => stage'[r] = stage[r]
  BY <1>1, MovedStage
<1>6. MineInv'
  BY <1>1, <1>4, MineStep
<1>7. LockInv'
  BY <1>1, <1>2, <1>3, LockStep DEF LevelInv, Working, Window
<1>8. PropsInv'
  <2>1. stage'[Saver] \in Unlinking =>
          \E u \in User : stage'[Loader(u)] \in {"load", "open", "remove"}
    BY <1>1, LoaderComes DEF Opening
  <2>2. QED
    BY <1>0, <1>1, <1>5, <2>1 DEF PropsInv, Removing
<1>9. SavedInv'
  <2>1. Loading'
    BY <1>5, <1>6 DEF MineInv, Opened, Working, Window, File, Loading
  <2>2. Contents = cw /\ Contents' = cw /\ Safe' = Safe
    BY <1>1, <2>1 DEF Contents, Safe
  <2>3. \A u \in User : unqueued[u] = NoEdit
    BY <1>2, Tasks DEF TypeOK, Working
  <2>4. stage'[Saver] # "fetched"
    BY <1>2, <1>5, Tasks DEF Working, Window
  <2>5. QED
    BY <1>1, <2>2, <2>3, <2>4 DEF LevelInv, SavedInv
<1>10. QED
  BY <1>6, <1>7, <1>8, <1>9 DEF LevelInv

\* The blocks are filled from the .cw file.
LEMMA LoadBlocksLevel ==
  ASSUME TypeOK, PlaceInv, RemoveInv, LevelInv, NEW t \in Task, LoadBlocks(t)
  PROVE  LevelInv'
<1>0. \A s \in Task : stage[s] \notin Removing
  BY NoneRemoves DEF LoadBlocks, LevelInv
<1>1. /\ stage[t] = "load" /\ Go(t, "open") /\ MineInv
      /\ mine' = mine
      /\ UNCHANGED <<props, dirty_save, has_blocks, cw, unqueued, tmp, made, exposed>>
  BY DEF LoadBlocks, LevelInv, saverVars, histVars
<1>2. "blocks" \in mine[t]
  BY <1>1 DEF MineInv, Opened, Working, Window, File
<1>3. blocks' = cw
  BY <1>2 DEF LoadBlocks
<1>4. \A s \in Task : stage[s] \notin Working /\ (s # t => stage[s] \notin {"props", "load"})
  BY <1>1 DEF LevelInv, LockInv
<1>5. Moved(t, "open")
  BY <1>1 DEF MineInv, Opened, Working, Window, Moved
<1>6. stage'[t] = "open" /\ \A r \in Task : r # t => stage'[r] = stage[r]
  BY <1>1, MovedStage
<1>7. MineInv'
  BY <1>1, <1>5, MineStep
<1>8. LockInv'
  BY <1>1, <1>4, LockStep DEF LevelInv
<1>9. props = "valid" /\ has_blocks
  BY <1>0, <1>1 DEF LevelInv, PropsInv, Removing
<1>10. PropsInv'
  <2>1. stage'[Saver] \in Unlinking =>
          \E u \in User : stage'[Loader(u)] \in {"load", "open", "remove"}
    BY <1>1, LoaderComes DEF Opening
  <2>2. QED
    BY <1>0, <1>1, <1>6, <1>9, <2>1 DEF PropsInv, Removing
<1>11. SavedInv'
  <2>1. Loading /\ ~Loading'
    BY <1>0, <1>1, <1>2, <1>4, <1>6 DEF Loading, Removing
  <2>2. Contents = cw /\ Contents' = cw /\ Safe' = Safe
    BY <1>1, <1>3, <1>9, <2>1 DEF Contents, Safe
  <2>3. \A u \in User : unqueued[u] = NoEdit
    BY <1>1, <1>4, Tasks DEF TypeOK, Working
  <2>4. /\ stage'[Saver] # "fetched"
        /\ stage'[Saver] \in Unlinking \cup {"renamed", "unload"} =>
             stage[Saver] \in Unlinking \cup {"renamed", "unload"}
    BY <1>4, <1>6, Tasks DEF Working, Window, Unlinking
  <2>5. QED
    BY <1>1, <2>2, <2>3, <2>4 DEF LevelInv, SavedInv
<1>12. QED
  BY <1>7, <1>8, <1>10, <1>11 DEF LevelInv

\* An edit is written to the blocks of the level and then queued, with the flag
\* that says so.
LEMMA EditLevel ==
  ASSUME TypeOK, PlaceInv, RemoveInv, LevelInv, NEW u \in User, WriteBlock(u) \/ SendUpdate(u)
  PROVE  LevelInv'
<1>1. /\ stage[Client(u)] = "open" /\ Client(u) \in Task
      /\ mine[Client(u)] = File
      /\ props = "valid"
      /\ UNCHANGED <<props, has_blocks, cw, stage, mine, tmp>>
  BY Tasks DEF WriteBlock, SendUpdate, TypeOK, LevelInv, MineInv, PropsInv, Opened,
     Working, saverVars
<1>2. MineInv' /\ LockInv' /\ PropsInv'
  BY <1>1 DEF LevelInv, MineInv, Opened, LockInv, PropsInv
<1>3. ~Loading /\ ~Loading'
  <2>1. \A s \in Task : stage[s] # "load"
    BY <1>1 DEF LevelInv, LockInv, Working
  <2>2. \A s \in Task : stage[s] \notin Removing
    BY <1>1, NoneRemoves DEF LevelInv, Working
  <2>3. QED
    BY <1>1, <2>1, <2>2 DEF Loading
<1>4. Contents = blocks /\ Contents' = blocks'
  BY <1>1, <1>3 DEF Contents
<1>5. CASE WriteBlock(u)
  <2>1. PICK e \in Edit : /\ unqueued' = [unqueued EXCEPT ![u] = e]
                          /\ blocks' = blocks \cup {e}
    BY <1>1, <1>5 DEF WriteBlock, File
  <2>2. UNCHANGED <<dirty_save, made, exposed>>
    BY <1>5 DEF WriteBlock, histVars
  <2>3. SavedInv'
    BY <1>1, <1>4, <2>1, <2>2 DEF TypeOK, LevelInv, SavedInv, Safe
  <2>4. QED
    BY <1>2, <2>3 DEF LevelInv
<1>6. CASE SendUpdate(u)
  <2> DEFINE e == unqueued[u]
  <2>1. /\ e # NoEdit /\ dirty_save' /\ made' = made \cup {e}
        /\ exposed' = IF stage[Saver] \in Window \cup {"unload"}
                      THEN exposed \cup {e} ELSE exposed
        /\ unqueued' = [unqueued EXCEPT ![u] = NoEdit]
        /\ blocks' = blocks
    BY <1>1, <1>6 DEF SendUpdate, File
  <2>2. e \in blocks
    BY <2>1 DEF LevelInv, SavedInv
  <2>3. Safe' \subseteq Safe \cup {e}
        /\ (stage[Saver] \in Window \cup {"unload"} => Safe' \subseteq Safe)
    BY <2>1 DEF Safe
  <2>4. \A v \in User : unqueued'[v] # NoEdit => unqueued'[v] = unqueued[v]
    BY <2>1 DEF TypeOK
  <2>5. stage[Saver] \notin Unlinking
    BY <1>1 DEF PlaceInv
  <2>6. SavedInv'
    BY <1>1, <1>4, <2>1, <2>2, <2>3, <2>4, <2>5 DEF LevelInv, SavedInv, Window
  <2>7. QED
    BY <1>2, <2>6 DEF LevelInv
<1>7. QED
  BY <1>5, <1>6

\* The saver fetches what was queued, makes the file the .cw file and clears the
\* flag: what was not fetched counts as exposed, all the rest is in the file.
LEMMA SaveLevel ==
  ASSUME TypeOK, RemoveInv, LevelInv, FetchQueued \/ Rename \/ ClearDirty
  PROVE  LevelInv'
<1>1. PICK x \in {"fetched", "renamed", "check"} :
        /\ Go(Saver, x) /\ mine' = mine
        /\ stage[Saver] \in {"save", "fetched", "renamed"}
        /\ x = "fetched" <=> FetchQueued
        /\ x = "renamed" <=> stage[Saver] = "fetched"
  BY DEF FetchQueued, Rename, ClearDirty
<1>2. UNCHANGED <<props, has_blocks, blocks, unqueued, made>>
  BY DEF FetchQueued, Rename, ClearDirty, fileVars, histVars
<1>3. Moved(Saver, x)
  BY <1>1, Tasks DEF LevelInv, MineInv, Moved, Opened, Working, Window
<1>4. stage'[Saver] = x /\ \A r \in Task : r # Saver => stage'[r] = stage[r]
  BY <1>1, Tasks, MovedStage
<1>5. props = "valid" /\ \A s \in Task : stage[s] # "load"
  BY <1>1, Tasks DEF LevelInv, PropsInv, LockInv, Working, Window
<1>6. MineInv'
  BY <1>3, Tasks, MineStep DEF LevelInv
<1>7. LockInv'
  BY <1>1, <1>5, Tasks, LockStep DEF LevelInv
<1>8. PropsInv'
  BY <1>1, <1>2, <1>4, <1>5 DEF LevelInv, PropsInv, Unlinking
<1>9. Contents = blocks /\ Contents' = blocks
  <2>1. \A s \in Task : stage[s] \notin Removing
    BY <1>1, Tasks, NoneRemoves DEF LevelInv, Working, Window
  <2>2. \A s \in Task : stage'[s] \notin {"load"} \cup Removing
    BY <1>4, <1>5, <2>1 DEF Removing
  <2>3. QED
    BY <1>2, <1>5, <2>1, <2>2 DEF Contents, Loading
<1>10. SavedInv'
  <2>1. CASE FetchQueued
    <3>1. x = "fetched" /\ UNCHANGED <<dirty_save, cw>>
      BY <1>1, <2>1 DEF FetchQueued, fileVars
    <3>2. exposed' = exposed \cup ((made \cap blocks) \ tmp')
      BY <2>1 DEF FetchQueued
    <3>3. Safe' \subseteq Safe /\ Safe \subseteq blocks
      BY <1>2, <1>9, <3>2 DEF Safe, LevelInv, SavedInv
    <3>4. Safe' \subseteq tmp'
      BY <1>2, <3>2, <3>3 DEF Safe
    <3>5. QED
      BY <1>2, <1>4, <1>9, <3>1, <3>3, <3>4 DEF LevelInv, SavedInv, Unlinking
  <2>2. CASE Rename
    <3>1. cw' = tmp /\ x = "renamed" /\ UNCHANGED <<dirty_save, exposed>>
      BY <1>1, <2>2 DEF Rename, fileVars, histVars
    <3>2. Safe' = Safe /\ Safe \subseteq tmp
      BY <1>1, <1>2, <2>2, <3>1 DEF Safe, LevelInv, SavedInv, Rename
    <3>3. QED
      BY <1>2, <1>4, <1>9, <3>1, <3>2 DEF LevelInv, SavedInv
  <2>3. CASE ClearDirty
    <3>1. stage[Saver] = "renamed" /\ UNCHANGED <<cw, tmp, exposed>>
      BY <2>3 DEF ClearDirty, saverVars, histVars
    <3>2. x = "check" /\ Safe' = Safe /\ Safe \subseteq cw
      BY <1>1, <1>2, <2>3, <3>1 DEF Safe, LevelInv, SavedInv, FetchQueued
    <3>3. QED
      BY <1>2, <1>4, <1>9, <3>1, <3>2 DEF LevelInv, SavedInv, Unlinking
  <2>4. QED
    BY <2>1, <2>2, <2>3
<1>11. QED
  BY <1>6, <1>7, <1>8, <1>10 DEF LevelInv

\* The saver goes on to remove the level only with the flag clear.
LEMMA CheckUnloadLevel ==
  ASSUME TypeOK, LevelInv, CheckUnload
  PROVE  LevelInv'
<1>1. PICK x \in {"idle", "unload"} :
        /\ Go(Saver, x) /\ mine' = [mine EXCEPT ![Saver] = {}]
        /\ stage[Saver] = "check"
        /\ x = "unload" => ~dirty_save
        /\ UNCHANGED <<fileVars, cw, made, exposed, unqueued>>
  BY DEF CheckUnload, Dirty, histVars
<1>2. Moved(Saver, x)
  BY <1>1, Tasks DEF TypeOK, Moved, Opened, Working, Window
<1>3. CASE x = "idle"
  BY <1>1, <1>2, <1>3, Tasks, Moving DEF Working, Window, Unlinking, Removing
<1>4. CASE x = "unload"
  <2>1. stage'[Saver] = x /\ \A r \in Task : r # Saver => stage'[r] = stage[r]
    BY <1>1, Tasks, MovedStage
  <2>2. MineInv'
    BY <1>2, Tasks, MineStep DEF LevelInv
  <2>3. LockInv'
    BY <1>1, Tasks, LockStep DEF LevelInv, Working, Window
  <2>4. PropsInv'
    BY <1>1, <1>4, <2>1 DEF LevelInv, PropsInv, Unlinking, Working, Window, Removing, fileVars
  <2>5. Loading' <=> Loading
    <3>1. Loading' <=> \E r \in Task : stage'[r] \in {"load"} \cup Removing
      BY <2>2 DEF MineInv, Opened, Working, File, Loading
    <3>2. QED
      BY <1>1, <1>4, <2>1, <3>1, LoadingIs DEF LevelInv, Removing
  <2>6. Contents' = Contents /\ Safe' = Safe
    BY <1>1, <2>5 DEF Contents, Safe, fileVars
  <2>7. SavedInv'
    BY <1>1, <1>4, <2>1, <2>6 DEF LevelInv, SavedInv, fileVars
  <2>8. QED
    BY <2>2, <2>3, <2>4, <2>7 DEF LevelInv
<1>5. QED
  BY <1>3, <1>4

\* An open that fails leaves the files, or is to remove those of a saved map.
LEMMA FailLevel ==
  ASSUME TypeOK, LevelInv, NEW t \in Task, OpenFails(t), ~spoilt'
  PROVE  LevelInv'
<1>1. PICK x \in {"remove", "failed"} :
        /\ Go(t, x) /\ mine' = [mine EXCEPT ![t] = {}]
        /\ stage[t] \in {"wait", "props", "load"}
        /\ x = "remove" => ~dirty_save
        /\ x = "failed" => stage[t] # "load"
  BY DEF OpenFails
<1>2. UNCHANGED <<fileVars, cw, tmp, made, exposed, unqueued>>
  BY DEF OpenFails, saverVars, histVars
<1>3. Moved(t, x)
  BY <1>1 DEF TypeOK, Moved, Opened, Working, Window
<1>4. CASE x = "failed"
  BY <1>1, <1>2, <1>3, <1>4, Moving DEF Working, Window, Unlinking, Removing
<1>5. CASE x = "remove"
  <2>1. stage'[t] = x /\ \A r \in Task : r # t => stage'[r] = stage[r]
    BY <1>1, MovedStage
  <2>2. MineInv'
    BY <1>3, MineStep DEF LevelInv
  <2>3. LockInv'
    BY <1>1, LockStep DEF LevelInv, Working, Window
  <2>4. PropsInv'
    <3>1. props' = props /\ has_blocks' = has_blocks
      BY <1>2 DEF fileVars
    <3>2. ASSUME NEW r \in Task
          PROVE  /\ stage'[r] = "props" => props # "none"
                 /\ stage'[r] \in Working \cup {"load"} => props = "valid"
                 /\ stage'[r] = "remove2" => props = "none"
                 /\ stage[r] = "remove" => stage'[r] = "remove"
      BY <1>1, <1>5, <2>1 DEF LevelInv, PropsInv, Working, Window
    <3>3. stage'[Saver] \in Unlinking => stage[Saver] \in Unlinking
      BY <1>5, <2>1, Tasks DEF Unlinking
    <3>4. ASSUME NEW u \in User, stage[Loader(u)] \in {"load", "open", "remove"}
          PROVE  stage'[Loader(u)] \in {"load", "open", "remove"}
      BY <1>5, <2>1, <3>4, Tasks
    <3>5. QED
      BY <3>1, <3>2, <3>3, <3>4 DEF LevelInv, PropsInv
  <2>5. SavedInv'
    <3>1. Contents' = cw /\ Safe' = Safe
      BY <1>2, <1>5, <2>1 DEF Contents, Loading, Safe, Removing
    <3>2. Safe \subseteq cw /\ ~dirty_save'
      BY <1>1, <1>2, <1>5 DEF LevelInv, SavedInv, fileVars
    <3>3. stage'[Saver] = "fetched" => stage[Saver] = "fetched"
      BY <1>5, <2>1, Tasks
    <3>4. QED
      BY <1>2, <3>1, <3>2, <3>3 DEF LevelInv, SavedInv, fileVars
  <2>6. QED
    BY <2>2, <2>3, <2>4, <2>5 DEF LevelInv
<1>6. QED
  BY <1>4, <1>5

\* It removes them one by one, while nobody has one of them open.
LEMMA RemoveLevel ==
  ASSUME TypeOK, RemoveInv, LevelInv, NEW t \in Task, RemoveProps(t) \/ RemoveBlocks(t)
  PROVE  LevelInv'
<1>1. PICK x \in {"remove2", "failed"}, f \in {"props", "blocks"} :
        /\ Go(t, x) /\ mine' = [r \in Task |-> mine[r] \ {f}]
        /\ stage[t] \in Removing
  BY DEF RemoveProps, RemoveBlocks, Remove, Removing
<1>2. /\ ~dirty_save /\ ~dirty_save' /\ props' = "none"
      /\ UNCHANGED <<cw, tmp, made, exposed, unqueued>>
  BY DEF RemoveProps, RemoveBlocks, RemoveInv, LevelInv, PropsInv, Removing, saverVars, histVars
<1>3. \A s \in Task : stage[s] \notin Working \cup {"props", "load"}
  BY <1>1, NoneRemoves DEF LevelInv
<1>4. \A s \in Task : mine[s] \subseteq {"lock"}
  BY <1>3 DEF LevelInv, MineInv, Opened
<1>5. mine' = mine
  BY <1>1, <1>4 DEF TypeOK
<1>6. Moved(t, x)
  BY <1>1, <1>5 DEF LevelInv, MineInv, Moved, Opened, Removing, Working, Window
<1>7. stage'[t] = x /\ \A r \in Task : r # t => stage'[r] = stage[r]
  BY <1>1, MovedStage
<1>8. \A s \in Task : stage'[s] \notin Working \cup {"props", "load"}
  BY <1>3, <1>7 DEF Working, Window
<1>9. MineInv'
  BY <1>6, MineStep DEF LevelInv
<1>10. LockInv' /\ PropsInv'
  BY <1>2, <1>8 DEF LockInv, PropsInv
<1>11. SavedInv'
  <2>1. Safe' = Safe /\ Contents' = cw /\ Safe \subseteq cw
    BY <1>2 DEF Safe, Contents, LevelInv, SavedInv
  <2>2. \A u \in User : unqueued[u] = NoEdit
    BY <1>3, Tasks DEF TypeOK, Working
  <2>3. stage'[Saver] # "fetched"
    BY <1>8, Tasks DEF Working, Window
  <2>4. QED
    BY <1>2, <2>1, <2>2, <2>3 DEF SavedInv
<1>12. QED
  BY <1>9, <1>10, <1>11 DEF LevelInv

\* The files are removed one by one, while nobody has one of them open.
LEMMA UnlinkLevel ==
  ASSUME TypeOK, LevelInv, ~overtaken,
         UnlinkProps \/ UnlinkBlocks \/ UnlinkLock,
         UnlinkProps => ~Recount,
         ~overtaken'
  PROVE  LevelInv'
<1>1. PICK x \in {"unlink", "unlink2", "idle"}, f \in File :
        /\ Go(Saver, x) /\ Unlink(f)
        /\ stage[Saver] \in Unlinking \cup {"unload"}
        /\ x = "unlink" <=> UnlinkProps
  BY DEF UnlinkProps, UnlinkBlocks, UnlinkLock, Unlinking, File
<1>2. \A t \in Task : mine[t] = {}
  BY <1>1 DEF Unlink, TypeOK
<1>3. \A t \in Task : stage[t] \notin Working \cup Opening
  BY <1>2 DEF LevelInv, MineInv, Opened, Opening, Working, Window, File
<1>4. mine' = [t \in Task |-> {}]
  BY <1>1, <1>2 DEF Unlink
<1>5. Moved(Saver, x)
  BY <1>1, <1>2, <1>4, Tasks DEF Moved, Opened, Working, Window
<1>6. stage'[Saver] = x /\ \A r \in Task : r # Saver => stage'[r] = stage[r]
  BY <1>1, Tasks, MovedStage
<1>7. MineInv'
  BY <1>5, Tasks, MineStep DEF LevelInv
<1>8. LockInv'
  BY <1>1, Tasks, LockStep DEF LevelInv, Working, Window
<1>9. UNCHANGED <<cw, tmp, made, exposed, unqueued>>
  BY DEF UnlinkProps, UnlinkBlocks, UnlinkLock, saverVars
<1>10. props' = "valid" => \E u \in User : stage[Loader(u)] = "remove"
  <2>1. CASE UnlinkProps
    BY <2>1 DEF UnlinkProps
  <2>2. CASE ~UnlinkProps
    <3>1. props' = props /\ stage[Saver] \in Unlinking
      BY <2>2 DEF UnlinkBlocks, UnlinkLock, fileVars, Unlinking
    <3>2. QED
      BY <1>3, <3>1, Tasks DEF LevelInv, PropsInv, Working, Opening
  <2>3. QED
    BY <2>1, <2>2
<1>11. \A t \in Task : stage'[t] \notin Working \cup {"props", "load"}
  BY <1>1, <1>3, <1>6 DEF Working, Window, Opening
<1>12. PropsInv'
  <2>1. props' = "valid" => \E u \in User : stage'[Loader(u)] = "remove"
    BY <1>6, <1>10, Tasks
  <2>2. \A t \in Task : stage'[t] = "remove2" => props' = "none"
    <3>1. props' = props \/ props' = "none"
      BY DEF UnlinkProps, UnlinkBlocks, UnlinkLock, fileVars
    <3>2. QED
      BY <1>1, <1>6, <3>1 DEF LevelInv, PropsInv
  <2>3. QED
    BY <1>11, <2>1, <2>2, Tasks DEF PropsInv
<1>13. SavedInv'
  <2>1. Safe' = Safe /\ Contents' = cw /\ Safe \subseteq cw
    <3>1. props' = "valid" => Loading'
      BY <1>6, <1>10, Tasks DEF Loading, Removing
    <3>2. QED
      BY <1>1, <1>9, <3>1 DEF Safe, Contents, LevelInv, SavedInv
  <2>2. \A u \in User : unqueued[u] = NoEdit
    BY <1>3, Tasks DEF TypeOK, Working
  <2>3. stage'[Saver] # "fetched"
    BY <1>1, <1>6
  <2>4. QED
    BY <1>9, <2>1, <2>2, <2>3 DEF SavedInv
<1>14. QED
  BY <1>7, <1>8, <1>12, <1>13 DEF LevelInv

-----------------------------------------------------------------------------
(* The theorems *)

\* The server starts with no level loaded: the invariant holds.
LEMMA InitInv == Init => IInv
<1> SUFFICES ASSUME Init
             PROVE  IInv
  OBVIOUS
<1>1. TypeOK
  <2>1. stage \in [Task -> {"idle"}] /\ mine \in [Task -> {{}}] /\ del_on_err \in [Task -> {FALSE}]
    BY DEF Init
  <2>2. \A u \in User : unqueued[u] = NoEdit
    BY DEF Init
  <2>3. fails \in 0 .. MaxFails
    BY LifeAssumption DEF Init
  <2>4. {loaded, force_unload, dirty_save, has_blocks, timed, level_in_use, no_unload,
         overtaken, spoilt} \subseteq BOOLEAN
    BY DEF Init
  <2>5. {blocks, cw, base, tmp, made, exposed} \subseteq SUBSET (Edit \cup {Map})
    BY DEF Init
  <2>6. {on_level, summon} \subseteq [User -> BOOLEAN] /\ unqueued \in [User -> Edit \cup {NoEdit}]
    BY DEF Init
  <2>7. stage \in [Task -> Opening \cup Removing \cup Window \cup Unlinking \cup
          {"idle", "enter", "begin", "open", "failed", "save", "check", "unload"}]
    BY <2>1
  <2>8. QED
    BY <2>1, <2>2, <2>3, <2>4, <2>5, <2>6, <2>7 DEF Init, TypeOK
<1>2. PlaceInv
  BY Tasks DEF Init, PlaceInv, Opening, Unlinking, Removing
<1>3. MineInv /\ LockInv /\ PropsInv
  BY Tasks DEF Init, MineInv, LockInv, PropsInv, Opened, Working, Window, Unlinking
<1>4. SavedInv
  BY Tasks DEF Init, SavedInv, Safe, Contents, Unlinking
<1>5. RemoveInv
  BY DEF Init, RemoveInv, Removing
<1>6. QED
  BY <1>1, <1>2, <1>3, <1>4, <1>5 DEF IInv, LevelInv

\* Types and places: in every step, also with processes that die.
LEMMA PlaceStep ==
  ASSUME TypeOK, PlaceInv, spoilt \/ RemoveInv, [Next]_vars
  PROVE  TypeOK' /\ PlaceInv'
<1>1. CASE UNCHANGED vars
  BY <1>1 DEF vars, tableVars, fileVars, saverVars, failVars, histVars, TypeOK, PlaceInv, Opened
<1>2. ASSUME NEW t \in Task, OpenLevelFiles(t)
      PROVE  TypeOK' /\ PlaceInv'
  BY <1>2, LookType, OpenPropsType, OpenBlocksType, LoadPropsType, LoadBlocksType,
     OpenFailsType, RemovePropsType, RemoveBlocksType,
     LookPlace, OpenPropsPlace, OpenBlocksPlace, LoadPropsPlace, LoadBlocksPlace,
     OpenFailsPlace, RemovePlace
     DEF OpenLevelFiles
<1>3. ASSUME NEW u \in User,
             \/ Goto(u) \/ CheckUserSummon(u) \/ StartLevel(u)
             \/ LoaderStart(u) \/ LoaderRegister(u)
             \/ WriteBlock(u) \/ SendUpdate(u) \/ Leave(u)
             \/ ReturnToMain(u) \/ LoaderFails(u) \/ DieOpening(u)
      PROVE  TypeOK' /\ PlaceInv'
  <2>1. TypeOK'
    BY <1>3, GotoType, CheckUserSummonType, StartLevelType, LoaderStartType,
       LoaderRegisterType, WriteBlockType, SendUpdateType, LeaveType,
       ReturnToMainType, LoaderFailsType, DieOpeningType
  <2>2. PlaceInv'
    BY <1>3, GotoPlace, CheckUserSummonPlace, StartLevelPlace, LoaderStartPlace,
       LoaderRegisterPlace, WriteBlockPlace, SendUpdatePlace, LeavePlace,
       ReturnToMainPlace, LoaderFailsPlace, DieOpeningPlace
  <2>3. QED
    BY <2>1, <2>2
<1>4. CASE CmdUnload \/ (\E t \in BOOLEAN : ScanLevel(t)) \/ IgnoreBrokenLevel
  BY <1>4, CmdUnloadType, ScanLevelType, IgnoreBrokenLevelType, CmdUnloadPlace, ScanLevelPlace,
     IgnoreBrokenLevelPlace
<1>5. CASE Save
  BY <1>5, DecideType, FetchQueuedType, RenameType, SaveFailsType, ClearDirtyType,
     DecidePlace, FetchQueuedPlace, RenamePlace, SaveFailsPlace, ClearDirtyPlace DEF Save
<1>6. CASE Unload
  BY <1>6, CheckUnloadType, UnlinkPropsType, UnlinkBlocksType, UnlinkLockType,
     CheckUnloadPlace, UnlinkPropsPlace, UnlinkBlocksPlace, UnlinkLockPlace DEF Unload
<1>7. QED
  BY <1>1, <1>2, <1>3, <1>4, <1>5, <1>6 DEF Next

\* What a loader was once overtaken at stays so.
LEMMA OvertakenStays ==
  ASSUME [Next]_vars, overtaken
  PROVE  overtaken'
<1>1. CASE UNCHANGED overtaken
  BY <1>1
<1>2. CASE UnlinkProps \/ UnlinkBlocks \/ UnlinkLock
  BY <1>2 DEF UnlinkProps, UnlinkBlocks, UnlinkLock, Unlink
<1>3. CASE ~(UnlinkProps \/ UnlinkBlocks \/ UnlinkLock) /\ Next
  BY <1>3 DEF Next, OpenLevelFiles, Look, OpenProps, OpenBlocks, LoadProps, LoadBlocks,
     OpenFails, RemoveProps, RemoveBlocks, Goto, CheckUserSummon, StartLevel, LoaderStart,
     LoaderRegister, WriteBlock, SendUpdate, Leave, ReturnToMain, LoaderFails, DieOpening,
     CmdUnload, ScanLevel, IgnoreBrokenLevel, Save, Decide, FetchQueued, Rename,
     SaveFails, ClearDirty, Unload, CheckUnload, histVars
<1>4. QED
  BY <1>1, <1>2, <1>3 DEF vars, histVars

\* Every step keeps each level's files, lock and saved edits in order, as long
\* as no process dies while it loads, no file is removed under a loader, and no
\* open that fails does harm.
LEMMA LevelStep ==
  ASSUME TypeOK, PlaceInv, RemoveInv, LevelInv, [Next]_vars, ~MayDie, ~overtaken, ~overtaken',
         ~spoilt'
  PROVE  LevelInv'
<1>1. CASE UNCHANGED vars
  BY <1>1, Staying DEF vars, saverVars, histVars
<1>2. ASSUME NEW t \in Task, OpenLevelFiles(t)
      PROVE  LevelInv'
  BY <1>2, LookLevel, OpenPropsLevel, OpenBlocksLevel, LoadPropsLevel, LoadBlocksLevel,
     FailLevel, RemoveLevel DEF OpenLevelFiles
<1>3. ASSUME NEW u \in User,
             \/ Goto(u) \/ CheckUserSummon(u) \/ StartLevel(u)
             \/ LoaderStart(u) \/ LoaderRegister(u)
             \/ WriteBlock(u) \/ SendUpdate(u) \/ Leave(u)
             \/ ReturnToMain(u) \/ LoaderFails(u) \/ DieOpening(u)
      PROVE  LevelInv'
  <2>1. ~DieOpening(u)
    BY DEF DieOpening
  <2>2. QED
    BY <1>3, <2>1, UserMoves, EditLevel
<1>4. CASE CmdUnload
  BY <1>4, Staying DEF CmdUnload, saverVars, histVars
<1>5. CASE (\E t \in BOOLEAN : ScanLevel(t)) \/ IgnoreBrokenLevel
  BY <1>5, SaverMoves
<1>6. CASE Save
  BY <1>6, SaverMoves, SaveLevel DEF Save
<1>7. CASE Unload
  <2>1. CASE CheckUnload
    BY <2>1, CheckUnloadLevel
  <2>2. CASE UnlinkProps /\ Recount
    BY <2>2, SaverMoves
  <2>3. CASE ~CheckUnload /\ ~(UnlinkProps /\ Recount)
    BY <1>7, <2>3, UnlinkLevel DEF Unload
  <2>4. QED
    BY <2>1, <2>2, <2>3
<1>8. QED
  BY <1>1, <1>2, <1>3, <1>4, <1>5, <1>6, <1>7 DEF Next

\* The part of the invariant that holds also with processes that die.
PlaceIInv == TypeOK /\ PlaceInv /\ (spoilt \/ RemoveInv)

LEMMA PlaceIInvStep == PlaceIInv /\ [Next]_vars => PlaceIInv'
BY PlaceStep, RemoveStep, SpoiltStays DEF PlaceIInv

\* The level table, its files and the saver's variables are always of their type,
\* and an edit that is not queued yet belongs to a client on the level: also with
\* processes that die while they load.
THEOREM LifeTypes == Spec => []TypeOK
<1>1. Init => PlaceIInv
  BY InitInv DEF IInv, PlaceIInv
<1>2. PlaceIInv /\ [Next]_vars => PlaceIInv'
  BY PlaceIInvStep
<1>3. PlaceIInv => TypeOK
  BY DEF PlaceIInv
<1>4. QED
  BY <1>1, <1>2, <1>3, PTL DEF Spec

\* Nobody is on a level whose files have been removed (scan_and_save_levels counts
\* under system_lock, start_level registers before it opens), but for an open that
\* fails and removes what is not its own: also with processes that die while they load.
THEOREM NobodyOnRemovedFiles == Spec => []FilesStay
<1>1. Init => PlaceIInv
  BY InitInv DEF IInv, PlaceIInv
<1>2. PlaceIInv /\ [Next]_vars => PlaceIInv'
  BY PlaceIInvStep
<1>3. PlaceIInv => FilesStay
  BY DEF PlaceIInv, PlaceInv, FilesStay, Opened, Working
<1>4. QED
  BY <1>1, <1>2, <1>3, PTL DEF Spec

\* With processes that do not die while they load, the invariant of a level's life.
THEOREM LifeInvariant ==
  ASSUME ~MayDie
  PROVE  Spec => []IInv
<1>1. IInv /\ [Next]_vars => IInv'
  <2> SUFFICES ASSUME IInv, [Next]_vars
               PROVE  IInv'
    OBVIOUS
  <2>1. TypeOK' /\ PlaceInv' /\ (spoilt' \/ RemoveInv')
    BY PlaceIInvStep DEF IInv, PlaceIInv
  <2>2. overtaken' \/ spoilt' \/ LevelInv'
    BY LevelStep, OvertakenStays, SpoiltStays DEF IInv
  <2>3. QED
    BY <2>1, <2>2 DEF IInv
<1>2. QED
  BY <1>1, InitInv, PTL DEF Spec

\* No edit is lost by saving, unloading and loading again, outside the windows
\* EditsKept names (open_level_files, scan_and_save_levels, update_block).
THEOREM NoEditIsLost ==
  ASSUME ~MayDie
  PROVE  Spec => []EditsKept
<1>1. IInv => EditsKept
  BY DEF IInv, LevelInv, SavedInv, Safe, EditsKept
<1>2. QED
  BY <1>1, LifeInvariant, PTL
=============================================================================

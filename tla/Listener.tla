------------------------------ MODULE Listener ------------------------------
(***************************************************************************)
(* What makes the listener start a saver, and what the saver then does     *)
(* with each level (tcpserver.c, loadsave.c): a generation that every      *)
(* process increments without a lock, two counts of levels, signals, and   *)
(* timers.  LevelLife has the saving and unloading of a level in detail;   *)
(* here a save is one step and succeeds, and a level is its flags.         *)
(***************************************************************************)
EXTENDS Integers, FiniteSets

CONSTANTS
  User, Level,
  Main,          \* main_level(): not unloaded while anybody is there
  NoUnload,      \* levels with the flag NoUnload
  Saver,         \* saver processes; two of them after the listener restarts
  MaxOps,        \* bound on what players do
  None

ASSUME ListenerAssumption ==
  /\ Main \in Level \cup {None}
  /\ NoUnload \subseteq Level
  /\ IsFiniteSet(Level) /\ IsFiniteSet(User)
  /\ MaxOps \in Nat
  /\ None \notin Level \cup Saver

VARIABLES
  \* clients: state.active and on_level, where they are in stop_user, and the
  \* generation they are about to increment
  on_level, active, leaving, seen,
  \* shdat.client->levels[] and the levels' dirty_save
  loaded, in_use, dirty_save, force_unload, force_backup,
  \* shdat.client and server
  generation, cleanup_generation, loaded_levels, pinned_levels,
  \* the listener: where it is in its loop, its flags, and the counts scan_levels
  \* has made and not yet stored
  loop, alarm_sig, restart_sig, trigger_backup, trigger_unload, backup_pid, counted,
  \* timers: save_interval and FREQUENT_CHECK seconds have gone by
  save_due, unload_due,
  \* savers: the passes to make, first "unload" and then "timed", and in a pass
  \* the levels to come, those counted, and whether one was found in use again
  saver,
  orphan,       \* history: a restart has left a saver at work
  ops

userVars == <<on_level, active, leaving, seen>>
levelVars == <<loaded, in_use, dirty_save, force_unload, force_backup>>
sharedVars == <<generation, cleanup_generation, loaded_levels, pinned_levels>>
listenerVars == <<loop, alarm_sig, restart_sig, trigger_backup, trigger_unload, backup_pid, counted,
                  orphan>>
timers == <<save_due, unload_due>>
allVars == <<userVars, levelVars, sharedVars, listenerVars, timers, saver, ops>>

\* scan_levels has counted nothing: whoever it is for is to look at all levels.
NotCounted == [loaded |-> 0, pinned |-> 0, scanned |-> FALSE, changed |-> TRUE]

Idle == [at |-> "none", unload |-> FALSE, timed |-> FALSE, again |-> FALSE, todo |-> {}, count |-> 0,
         level |-> None]
Saver_t == [at : {"none", "start", "look", "unload", "zombie"}, unload : BOOLEAN, timed : BOOLEAN,
            again : BOOLEAN, todo : SUBSET Level, count : Nat, level : Level \cup {None}]

TypeOK ==
  /\ on_level \in [User -> Level \cup {None}]
  /\ active \in [User -> BOOLEAN]
  /\ leaving \in [User -> {"no", "read", "added", "inactive", "pinned", "dead"}]
  /\ seen \in [User -> Nat]
  /\ loaded \in [Level -> BOOLEAN] /\ in_use \in [Level -> BOOLEAN]
  /\ dirty_save \in [Level -> BOOLEAN]
  /\ force_unload \in [Level -> BOOLEAN] /\ force_backup \in [Level -> BOOLEAN]
  /\ generation \in Nat /\ cleanup_generation \in Nat
  /\ loaded_levels \in Nat /\ pinned_levels \in Nat
  /\ loop \in {"zombies", "backup", "store", "clear"}
  /\ alarm_sig \in BOOLEAN /\ restart_sig \in BOOLEAN
  /\ trigger_backup \in BOOLEAN /\ trigger_unload \in BOOLEAN
  /\ backup_pid \in Saver \cup {None}
  /\ counted \in [loaded : Nat, pinned : Nat, scanned : BOOLEAN, changed : BOOLEAN]
  /\ save_due \in BOOLEAN /\ unload_due \in BOOLEAN
  /\ saver \in [Saver -> Saver_t]
  /\ orphan \in BOOLEAN
  /\ ops \in 0 .. MaxOps

ListenerInit ==
  /\ on_level = [u \in User |-> None]
  /\ active = [u \in User |-> FALSE]
  /\ leaving = [u \in User |-> "no"]
  /\ seen = [u \in User |-> 0]
  /\ loaded = [l \in Level |-> FALSE]
  /\ in_use = [l \in Level |-> FALSE]
  /\ dirty_save = [l \in Level |-> FALSE]
  /\ force_unload = [l \in Level |-> FALSE]
  /\ force_backup = [l \in Level |-> FALSE]
  /\ generation = 0 /\ cleanup_generation = 0
  /\ loaded_levels = 0 /\ pinned_levels = 0
  /\ loop = "zombies"
  /\ alarm_sig = FALSE /\ restart_sig = FALSE
  /\ trigger_backup = FALSE /\ trigger_unload = FALSE
  /\ backup_pid = None
  /\ counted = NotCounted
  /\ save_due = FALSE /\ unload_due = FALSE
  /\ saver = [s \in Saver |-> Idle]
  /\ orphan = FALSE
  /\ ops = 0

Set(f, x, v) == [f EXCEPT ![x] = v]
Op == ops < MaxOps /\ ops' = ops + 1

----------------------------------------------------------------------------
(* What players do *)

\* start_user, start_level: under system_lock
Enter(u, l) ==
  /\ Op
  /\ leaving[u] = "no"
  /\ on_level[u] # l
  /\ loaded[l] => ~force_unload[l]
  /\ on_level' = Set(on_level, u, l)
  /\ active' = Set(active, u, TRUE)
  /\ IF loaded[l]
     THEN UNCHANGED <<levelVars, loaded_levels>>
     ELSE /\ loaded' = Set(loaded, l, TRUE)
          /\ in_use' = Set(in_use, l, FALSE)
          /\ dirty_save' = Set(dirty_save, l, FALSE)
          /\ force_unload' = Set(force_unload, l, FALSE)
          /\ force_backup' = Set(force_backup, l, FALSE)
          /\ loaded_levels' = loaded_levels + 1
  /\ generation' = generation + 1
  /\ UNCHANGED <<leaving, seen, cleanup_generation, pinned_levels, listenerVars, timers, saver>>

\* send_update
Edit(u) ==
  /\ Op
  /\ active[u] /\ leaving[u] = "no" /\ on_level[u] # None
  /\ loaded[on_level[u]]
  /\ dirty_save' = Set(dirty_save, on_level[u], TRUE)
  /\ UNCHANGED <<userVars, loaded, in_use, force_unload, force_backup, sharedVars, listenerVars,
                 timers, saver>>

CmdSave(u) ==
  /\ Op
  /\ active[u] /\ leaving[u] = "no" /\ on_level[u] # None
  /\ loaded[on_level[u]]
  /\ force_backup' = Set(force_backup, on_level[u], TRUE)
  /\ dirty_save' = Set(dirty_save, on_level[u], TRUE)
  /\ alarm_sig' = TRUE
  /\ UNCHANGED <<userVars, loaded, in_use, force_unload, sharedVars, loop, restart_sig,
                 trigger_backup, trigger_unload, backup_pid, counted, orphan, timers, saver>>

CmdUnload(l) ==
  /\ Op
  /\ \E u \in User : active[u]
  /\ loaded[l]
  /\ force_unload' = Set(force_unload, l, TRUE)
  /\ generation' = generation + 1
  /\ alarm_sig' = TRUE
  /\ UNCHANGED <<userVars, loaded, in_use, dirty_save, force_backup, cleanup_generation,
                 loaded_levels, pinned_levels, loop, restart_sig, trigger_backup, trigger_unload,
                 backup_pid, counted, orphan, timers, saver>>

\* /restart: SIGHUP
CmdRestart ==
  /\ Op
  /\ \E u \in User : active[u]
  /\ restart_sig' = TRUE
  /\ UNCHANGED <<userVars, levelVars, sharedVars, loop, alarm_sig, trigger_backup, trigger_unload,
                 backup_pid, counted, orphan, timers, saver>>

\* check_this_user: the level is going, its clients move to the void.
ThrownOut(u) ==
  /\ active[u] /\ leaving[u] = "no" /\ on_level[u] # None
  /\ ~loaded[on_level[u]] \/ force_unload[on_level[u]]
  /\ on_level' = Set(on_level, u, None)
  /\ generation' = generation + 1
  /\ alarm_sig' = TRUE
  /\ UNCHANGED <<active, leaving, seen, levelVars, cleanup_generation, loaded_levels, pinned_levels,
                 loop, restart_sig, trigger_backup, trigger_unload, backup_pid, counted, orphan, timers,
                 saver, ops>>

\* stop_user, without a lock: generation++ in two steps, active, pinned_levels++
StopRead(u) ==
  /\ Op
  /\ active[u] /\ leaving[u] = "no"
  /\ leaving' = Set(leaving, u, "read")
  /\ seen' = Set(seen, u, generation)
  /\ UNCHANGED <<on_level, active, levelVars, sharedVars, listenerVars, timers, saver>>

StopAdd(u) ==
  /\ leaving[u] = "read"
  /\ generation' = seen[u] + 1
  /\ leaving' = Set(leaving, u, "added")
  /\ seen' = Set(seen, u, 0)
  /\ UNCHANGED <<on_level, active, levelVars, cleanup_generation, loaded_levels, pinned_levels,
                 listenerVars, timers, saver, ops>>

StopInactive(u) ==
  /\ leaving[u] = "added"
  /\ active' = Set(active, u, FALSE)
  /\ leaving' = Set(leaving, u, "inactive")
  /\ UNCHANGED <<on_level, seen, levelVars, sharedVars, listenerVars, timers, saver, ops>>

StopPinned(u) ==
  /\ leaving[u] = "inactive"
  /\ pinned_levels' = pinned_levels + 1
  /\ leaving' = Set(leaving, u, "pinned")
  /\ UNCHANGED <<on_level, active, seen, levelVars, generation, cleanup_generation, loaded_levels,
                 listenerVars, timers, saver, ops>>

Killed(u) ==
  /\ Op
  /\ active[u] /\ leaving[u] \in {"no", "read", "added"}
  /\ leaving' = Set(leaving, u, "dead")
  /\ seen' = Set(seen, u, 0)
  /\ UNCHANGED <<on_level, active, levelVars, sharedVars, listenerVars, timers, saver>>

----------------------------------------------------------------------------
(* The listener's loop: check_new_exe, cleanup_zombies, start_backup_process *)

SaveDue ==
  /\ ~save_due
  /\ save_due' = TRUE
  /\ UNCHANGED <<userVars, levelVars, sharedVars, listenerVars, unload_due, saver, ops>>

UnloadDue ==
  /\ ~unload_due
  /\ unload_due' = TRUE
  /\ UNCHANGED <<userVars, levelVars, sharedVars, listenerVars, save_due, saver, ops>>

\* do_restart: exec forgets the flags and the saver, and ignores signals.  (There is
\* a process left to be the next saver: a bound, not a guard of the code.)
DoRestart ==
  /\ loop = "zombies"
  /\ \E s \in Saver : saver[s].at \in {"none", "zombie"}
  /\ restart_sig
  /\ restart_sig' = FALSE /\ alarm_sig' = FALSE
  /\ trigger_backup' = FALSE /\ trigger_unload' = FALSE
  /\ backup_pid' = None
  /\ orphan' = (orphan \/ \E s \in Saver : saver[s].at \notin {"none", "zombie"})
  /\ UNCHANGED <<userVars, levelVars, sharedVars, loop, counted, timers, saver, ops>>

\* cleanup_zombies: whatever is not the saver it knows of is a client; the slot
\* of one that was killed is wiped by delete_session_id.
CleanupZombies ==
  LET dead == {u \in User : leaving[u] = "dead"}
      gone == {u \in User : leaving[u] \in {"pinned", "dead"}}
      ended == {s \in Saver : saver[s].at = "zombie"}
  IN
  /\ loop = "zombies"
  /\ ~restart_sig
  /\ loop' = "backup"
  /\ leaving' = [u \in User |-> IF u \in gone THEN "no" ELSE leaving[u]]
  /\ active' = [u \in User |-> active[u] /\ u \notin dead]
  /\ on_level' = [u \in User |-> IF u \in gone THEN None ELSE on_level[u]]
  /\ generation' = generation + Cardinality(dead)
  /\ saver' = [s \in Saver |-> IF s \in ended THEN Idle ELSE saver[s]]
  /\ backup_pid' = IF backup_pid \in ended THEN None ELSE backup_pid
  /\ trigger_unload' = (trigger_unload \/ gone # {} \/ ended \ {backup_pid} # {})
  /\ UNCHANGED <<seen, levelVars, cleanup_generation, loaded_levels, pinned_levels, alarm_sig,
                 restart_sig, trigger_backup, counted, orphan, timers, ops>>

\* set_level_in_use_flag: main stays while there is anybody, others if they say so
UsersOn(l) == {u \in User : active[u] /\ on_level[u] = l}
InUse(l) ==
  \/ UsersOn(l) # {}
  \/ ~force_unload[l] /\ (l \in NoUnload \/ (l = Main /\ \E u \in User : active[u]))
Loaded == {l \in Level : loaded[l]}

\* As NothingToDo below, had the generation been left out
NothingLoaded == ~alarm_sig /\ ~trigger_backup /\ loaded_levels = pinned_levels

\* The whole of this is for nothing, whatever the triggers and the timers say, if
\* neither a signal nor a generation nor the counts call for it.
NothingToDo ==
  /\ ~alarm_sig /\ ~trigger_backup
  /\ generation = cleanup_generation
  /\ loaded_levels = pinned_levels

\* What start_backup_process decides before it scans the levels
Backup == trigger_backup \/ alarm_sig \/ save_due
Unload == trigger_unload \/ (~Backup /\ unload_due /\ loaded_levels # pinned_levels)

StartNothing ==
  /\ loop = "backup"
  /\ backup_pid # None \/ NothingToDo
  /\ loop' = "clear"
  /\ UNCHANGED <<userVars, levelVars, sharedVars, alarm_sig, restart_sig, trigger_backup,
                 trigger_unload, backup_pid, counted, orphan, timers, saver, ops>>

\* scan_levels looks at the levels only if the generation tells it nothing new.
ScanLevels ==
  /\ loop = "backup"
  /\ backup_pid = None /\ ~NothingToDo
  /\ ~Unload
  /\ loop' = "store"
  /\ trigger_backup' = Backup
  /\ LET g == IF alarm_sig THEN generation + 1 ELSE generation IN
     /\ generation' = g
     /\ cleanup_generation' = g
     /\ IF cleanup_generation # g
        THEN /\ counted' = NotCounted
             /\ UNCHANGED in_use
        ELSE /\ counted' = [loaded |-> Cardinality(Loaded),
                            pinned |-> Cardinality({l \in Loaded : InUse(l)}), scanned |-> TRUE,
                            changed |-> \E l \in Loaded : force_backup[l] \/ InUse(l) # in_use[l]]
             /\ in_use' = [l \in Level |-> IF loaded[l] THEN InUse(l) ELSE in_use[l]]
  /\ UNCHANGED <<userVars, loaded, dirty_save, force_unload, force_backup, loaded_levels,
                 pinned_levels, alarm_sig, restart_sig, trigger_unload, backup_pid, orphan, timers,
                 saver, ops>>

Fork(s, unload, timed) ==
  saver' = Set(saver, s, [Idle EXCEPT !.at = "start", !.unload = unload, !.timed = timed])

\* The counts, if any were made, are stored over what others have added meanwhile.
StoreCounts(s) ==
  /\ loop = "store"
  /\ saver[s].at = "none"
  /\ loop' = "clear"
  /\ loaded_levels' = IF counted.scanned THEN counted.loaded ELSE loaded_levels
  /\ pinned_levels' = IF counted.scanned THEN counted.pinned ELSE pinned_levels
  /\ counted' = NotCounted
  /\ IF trigger_backup \/ counted.changed
     THEN /\ backup_pid' = s
          /\ Fork(s, counted.changed, trigger_backup)
          /\ save_due' = (save_due /\ ~trigger_backup)
          /\ unload_due' = FALSE
          /\ trigger_backup' = FALSE /\ trigger_unload' = FALSE
     ELSE UNCHANGED <<backup_pid, saver, timers, trigger_backup, trigger_unload>>
  /\ UNCHANGED <<userVars, levelVars, generation, cleanup_generation, alarm_sig, restart_sig,
                 orphan, ops>>

StartSaver(s) ==
  /\ loop = "backup"
  /\ backup_pid = None /\ ~NothingToDo
  /\ Unload
  /\ saver[s].at = "none"
  /\ loop' = "clear"
  /\ backup_pid' = s
  /\ Fork(s, TRUE, Backup)
  /\ generation' = IF alarm_sig THEN generation + 1 ELSE generation
  /\ save_due' = (save_due /\ ~Backup)
  /\ unload_due' = FALSE
  /\ trigger_backup' = FALSE /\ trigger_unload' = FALSE
  /\ UNCHANGED <<userVars, levelVars, cleanup_generation, loaded_levels, pinned_levels, alarm_sig,
                 restart_sig, counted, orphan, ops>>

\* A signal that has come since start_backup_process looked is forgotten.
ClearAlarm ==
  /\ loop = "clear"
  /\ loop' = "zombies"
  /\ alarm_sig' = FALSE
  /\ UNCHANGED <<userVars, levelVars, sharedVars, restart_sig, trigger_backup, trigger_unload,
                 backup_pid, counted, orphan, timers, saver, ops>>
----------------------------------------------------------------------------
(* A saver: scan_and_save_levels(0), which unloads what nobody uses, and     *)
(* scan_and_save_levels(1), which saves what is dirty as well                *)

Scanning(s) == saver[s].at \in {"look", "unload"}

\* level_save_lock is held for a whole pass.
StartPass(s) ==
  /\ saver[s].at = "start" /\ (saver[s].unload \/ saver[s].timed)
  /\ \A t \in Saver : ~Scanning(t)
  /\ saver' = [saver EXCEPT ![s].at = "look", ![s].todo = Level, ![s].count = 0, ![s].again = FALSE]
  /\ cleanup_generation' = generation
  /\ UNCHANGED <<userVars, levelVars, generation, loaded_levels, pinned_levels, listenerVars, timers, ops>>

\* A level is saved in the timed pass, and when it is to be unloaded or backed up
\* come what may; a backup that is asked for in the first pass calls for the second.
Look(s, l) ==
  LET timed == ~saver[s].unload
      skip == ~timed /\ InUse(l) /\ ~force_backup[l]
      dirty == (dirty_save[l] \/ force_backup[l]) /\ ~(timed \/ force_unload[l])
      next == [saver[s] EXCEPT !.todo = @ \ {l}, !.count = @ + 1,
                               !.timed = @ \/ (~timed /\ force_backup[l])]
  IN
  /\ saver[s].at = "look" /\ l \in saver[s].todo
  /\ IF ~loaded[l]
     THEN saver' = [saver EXCEPT ![s].todo = @ \ {l}] /\ UNCHANGED levelVars
     ELSE /\ in_use' = Set(in_use, l, InUse(l))
          /\ IF skip
             THEN saver' = Set(saver, s, next) /\ UNCHANGED <<dirty_save, force_backup>>
             ELSE /\ force_backup' = Set(force_backup, l, FALSE)
                  /\ dirty_save' = Set(dirty_save, l, dirty)
                  /\ saver' = Set(saver, s,
                       IF dirty \/ InUse(l) THEN next ELSE [next EXCEPT !.at = "unload", !.level = l])
          /\ UNCHANGED <<loaded, force_unload>>
  /\ UNCHANGED <<userVars, sharedVars, listenerVars, timers, ops>>

\* As Unloaded below, had it not been taken off the count
UnloadedCounted(s) == [saver[s] EXCEPT !.at = "look", !.level = None]

Unloaded(s) == [saver[s] EXCEPT !.at = "look", !.level = None, !.count = @ - 1]

\* Under system_lock the users are counted again.
UnloadLevel(s) ==
  LET l == saver[s].level IN
  /\ saver[s].at = "unload"
  /\ IF UsersOn(l) # {}
     THEN /\ saver' = [saver EXCEPT ![s].at = "look", ![s].level = None, ![s].again = TRUE]
          /\ UNCHANGED loaded
     ELSE saver' = Set(saver, s, Unloaded(s)) /\ loaded' = Set(loaded, l, FALSE)
  /\ UNCHANGED <<userVars, in_use, dirty_save, force_unload, force_backup, sharedVars, listenerVars,
                 timers, ops>>

\* As Pinned below, had it taken off the levels unloaded
PinnedLess(s) == pinned_levels - (loaded_levels - saver[s].count)

\* A changed number of levels makes the listener look again.
Pinned(s) == IF loaded_levels # saver[s].count THEN 0 ELSE pinned_levels

EndPass(s) ==
  /\ saver[s].at = "look" /\ saver[s].todo = {}
  /\ saver' = [saver EXCEPT ![s].at = "start", ![s].unload = FALSE,
                            ![s].timed = @ /\ saver[s].unload]
  /\ loaded_levels' = saver[s].count
  /\ pinned_levels' = Pinned(s)
  /\ generation' = IF saver[s].again THEN generation + 1 ELSE generation
  /\ UNCHANGED <<userVars, levelVars, cleanup_generation, listenerVars, timers, ops>>

EndSaver(s) ==
  /\ saver[s].at = "start" /\ ~saver[s].unload /\ ~saver[s].timed
  /\ saver' = Set(saver, s, [Idle EXCEPT !.at = "zombie"])
  /\ UNCHANGED <<userVars, levelVars, sharedVars, listenerVars, timers, ops>>

UserStep(u) == StopAdd(u) \/ StopInactive(u) \/ StopPinned(u) \/ ThrownOut(u)
ListenerStep ==
  \/ DoRestart \/ CleanupZombies \/ StartNothing \/ ScanLevels \/ ClearAlarm
  \/ \E s \in Saver : StoreCounts(s) \/ StartSaver(s)
SaverStep(s) ==
  \/ StartPass(s) \/ (\E l \in Level : Look(s, l)) \/ UnloadLevel(s) \/ EndPass(s) \/ EndSaver(s)

ListenerNext ==
  \/ \E u \in User :
       \/ \E l \in Level : Enter(u, l)
       \/ Edit(u) \/ CmdSave(u) \/ StopRead(u) \/ Killed(u) \/ UserStep(u)
  \/ \E l \in Level : CmdUnload(l)
  \/ CmdRestart \/ ListenerStep \/ SaveDue \/ UnloadDue
  \/ \E s \in Saver : SaverStep(s)

\* The listener's loop turns once a second, time passes, a process that has
\* something to do does it, and whoever waits for level_save_lock gets it.
Fairness ==
  /\ WF_allVars(ListenerStep) /\ WF_allVars(SaveDue) /\ WF_allVars(UnloadDue)
  /\ \A u \in User : WF_allVars(UserStep(u))
  /\ \A s \in Saver : SF_allVars(SaverStep(s))

ListenerSpec == ListenerInit /\ [][ListenerNext]_allVars /\ Fairness

----------------------------------------------------------------------------
(* Properties *)

\* No change is overlooked for ever: whatever increments of the generation are
\* lost to each other or meet a scan half done, the saver or scan_levels comes to
\* see the last one.
ChangesSeen == []<>(generation = cleanup_generation)

\* server->loaded_levels, which processes add to and the saver and the listener
\* overwrite with what they have counted before, comes to be right again.  Except
\* after a restart has left a saver at work: the listener may store what it counted
\* before that one unloaded a level, and where this makes the two counts equal it
\* has no reason to count again.
CountsSettle == []<>(orphan \/ loaded_levels = Cardinality(Loaded))

\* The count is never above the number of levels there are, which would keep a
\* server without levels from ever restarting: neither what is added while a
\* saver counts makes it so, nor what is unloaded.  Except while a saver is at it,
\* who has yet to store what he has counted, and after a restart has left one at
\* work: then the listener may store what it counted before that one unloaded.
CountNotOver ==
  orphan \/ (\E s \in Saver : Scanning(s)) \/ loaded_levels <= Cardinality(Loaded)

\* "Trigger a rescan": once nobody uses a level any more it is unloaded in the
\* end, whichever way its users left.
UnusedUnloaded == \A l \in Level : []<>(InUse(l) \/ ~loaded[l])
----------------------------------------------------------------------------
(* The inductive invariant *)

Passed(s) == {l \in Loaded : l \notin saver[s].todo}

\* Who works on the levels: one saver at a time, and none that the listener does
\* not know of, but for those a restart has left.
SaverInv ==
  /\ backup_pid # None => saver[backup_pid].at # "none"
  /\ loop = "store" => backup_pid = None
  /\ \A s, t \in Saver : Scanning(s) /\ Scanning(t) => s = t
  /\ ~orphan => \A s \in Saver : s # backup_pid => saver[s].at \in {"none", "zombie"}
  /\ \A s \in Saver : saver[s].at = "unload" =>
       saver[s].level \in Passed(s) /\ saver[s].count > 0

\* What a saver has counted is still there, and what scan_levels has.
LoadedInv ==
  /\ \A s \in Saver : Scanning(s) => saver[s].count <= Cardinality(Passed(s))
  /\ ~orphan /\ loop = "store" => counted.loaded <= Cardinality(Loaded)
  /\ CountNotOver

ListenerIInv == TypeOK /\ SaverInv /\ LoadedInv
=============================================================================

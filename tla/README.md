# A TLA+ model of mcchost

mcchost is a server for the classic block building game. A listener process
accepts connections and forks one process per client. Those processes, and the
saver the listener forks, share no memory but files they all `mmap`: the client
list, the properties and the blocks of each level, a queue of block updates per
level, a chat queue and a command queue. Robust process shared mutexes, each
in a file of its own, guard them. Any process may end at any moment.

## The system's parts

| Part | Source | State | Operations | What makes it correct |
|---|---|---|---|---|
| Block update queue | `queue_block.c`, `shared.c` | ring file: `generation`, `curr_offset`, `queue_len`, `last_queue_len`, `updates`; per process `last_id`, `last_generation`, `reload_pending`, the mapped length | `send_update`, `prelocked_update`, `send_queued_blocks`, `fetch_queued_blocks`, `create_block_queue`, `check_block_queue`, `/reload` | a reader gets every update after its place once and in order, or finds out that it cannot and reloads; every void queue is noticed |
| Level blocks | `queue_block.c`, `setblock.c`, drawing commands | `level_blocks` | `update_block`, physics of sand, grass and stacked blocks | what the clients show in the end is what the file holds |
| Map transfer | `send_map_file.c`, `packet.c` | the reader's place, the compressor | `send_map_file` | transfer and queue together miss no update |
| Level life cycle | `teleport.c`, `loadsave.c`, `client_list.c` | level table (`loaded`, `in_use`, `force_unload` ...), `dirty_save`, `.cw` file | enter, load in the background, save, back up, unload, delete, rename, restore, resize | no edit is lost by unloading; no files are removed under a user |
| Sessions | `client_list.c`, `main.c`, `wait.c` | `client_entry_t` per slot | `start_user`, `check_user_summon`, `stop_user`, `delete_session_id` | one process per slot, one active session per name |
| Chat and command queues | `queue_chat.c`, `queue_cmd.c` | fixed rings | queue, send | as the block queue, but an overrun skips; messages in parts stay whole |
| File locks | `pthread_mutex.c`, `fcntl_mutex.c` | the mutex file | `lock_start_try`, `lock_fn`, `unlock_fn`, `lock_restart` | all processes use the same mutex |
| Listener | `tcpserver.c`, `wait.c` | children, trigger flags | accept, `cleanup_zombies`, `start_backup_process`, restart | at most one saver; every level left is saved in the end |
| Commands on levels, resize | `command/cmd{newlvl,deletelvl,renamelvl,copylvl,restore,resizelvl}.c`, `teleport.c` | the `.cw` files, the level table, a process forked for the command | force all off, wait, work on the file, bring them back | a level has in it what the last command or edit put there |
| Other users on a client | `client_list.c` | per process: what it told its client (`myuser`, `uid_ren`) | `check_other_users`, `reorder_visible_users` | the client shows who is there |
| Main loop and protocol | `requestloop.c`, `packet.c`, `send_packet.c`, `websocket.c` | receive buffer, `msglen` | reassembly, frames, one tick | no packet is cut or merged; lengths agree |
| Login | `login.c`, `cpe_login.c` | handshake state | identify, negotiate extensions | the connection is completed once, with lengths settled |
| Chat text | `chat_message.c` | `pending_chat` | receive in parts, colour, wrap | what is said is shown |
| User records | `userrecord.c` | file and record of a user, a copy in each process | read, modify, write | no lost write |
| Permissions, server settings | `permission.c`, `commands.c`, `ini_*.c`, `args.c` | ini files, a copy in each process | set, save, read again | all processes have what was set |
| Map and level settings files | `nbtload.c`, `nbtsave.c`, `ini_struct.c` | none that is shared | save, load | round trips |
| Spam limits | `antispam.c` | a counter per process | count an event | limits, and no false refusal |
| Generators, conversions, logging | `*map.c`, `strops.c`, `logfile.c` ... | none that is shared | pure functions | - |

The parts meet in the files: a client process writes a level's blocks and queue
and reads both back for its own client; the saver reads them, writes the `.cw`
file and removes the files of a level nobody is on; the client list says who is
where. The hard behaviour is in those meetings: reads outside the lock, places
in a ring somebody else turns, processes that end in the middle, slots and
levels that are used again by another.

`PROJECT.json` lists every part, with its status, and the hazards by line.

## Modules

| Module | What it is |
|---|---|
| `UpdateLog` | what a queue promises: one endless log and readers that are sent each update after their place, once and in order, until dropped |
| `BlockQueue`, `MCBlockQueue`, `BlockQueueProofs` | the block queue's ring as the code has it; instances; theorems |
| `ChatQueue`, `MCChatQueue`, `ChatQueueProofs` | the chat queue; it implements `UpdateLog` too. `MCChatQueue` also runs `UserRecord`, as a part of its own |
| `LevelView`, `MCLevelView`, `LevelViewProofs` | the blocks of a level, `update_block`, map transfer, and what the clients show. The queue in it is the log of `UpdateLog`, which the ring is proved to implement; so the two together speak of the code's queue |
| `LevelLife`, `MCLevelLife`, `LevelLifeProofs` | how a level is entered, loaded, saved and unloaded |
| `Sessions`, `MCSessions`, `SessionsProofs` | slots of the client list, processes, commands and summons. `MCSessions` also runs `PlayerList` and `Resize`, each as a part of its own |
| `PlayerList` | what one client is shown of that list |
| `Listener`, `MCListener` | what starts a saver, and what a saver sees |
| `RobustLock` | the mutex file |
| `Wire`, `Handshake` | lengths of packets; login and extensions |
| `Stream` | bytes, frames and packets of a connection |
| `ChatText` | a line of chat |
| `LevelAdmin` | the commands on whole levels |
| `Resize`, `ResizeProofs` | `/resizelvl` |
| `MapFile` | a map saved and loaded |
| `IniFile`, `LevelIni` | ini files; the one of a level |
| `Settings` | `server.ini` |
| `CmdSet` | permissions of commands |
| `UserRecord` | what is kept of a user |
| `AntiSpam` | the limit on events |
| `PartsProofs` | theorems of `RobustLock`, `Handshake`, `LevelAdmin` and `AntiSpam` |
| `UnlockedProofs` | theorems of `UserRecord` and `Listener`, where processes share what no lock guards |
| `MCParts` | instances of the other modules from `RobustLock` on, which share no state: a behaviour of it is a behaviour of one of them. It extends `RobustLock`, `Handshake`, `LevelAdmin` and `AntiSpam`, and has instances of the rest; it states the assumptions on constants the proofs make, as `MCChatQueue` and `MCSessions` do those of `UserRecord` and `Resize` |

What one module has in detail another has in one step: a save is six steps in
`LevelLife`, one in `LevelAdmin`, `Resize` and `Listener`; the queue of commands
is a mailbox in `Sessions`; a mutex, which `RobustLock` takes apart, is a guard
elsewhere.

Many properties have exceptions, named in the property and in the comment above
it: behaviours in which the code does lose or mix up what the property is about.
Each exception is a history variable or a condition that says exactly when, put
there because TLC found the behaviour. They are listed under *What the
exceptions say*.

### BlockQueue

The variables are the fields of `struct block_queue_t`, `level_lock` (its
holder), and for each process its mapped length (`mmap_count`), the three
statics of `queue_block.c`, and its place in the program (`pc`). An update is
its number; memory no update was written to reads as 0. `count` (updates made),
`sent` (the last update each process sent) and `voids` (times the queue was
declared void) are history variables.

| Action | Code |
|---|---|
| `OpenLevel`, `SendMapFile`, `StopShared` | `open_level_files`, `send_map_file` (`set_last_block_queue_id`), `stop_shared` |
| `LockQueue`, `PutUpdate`, `WrapQueue`, `UnlockQueue` | `send_update`; several `PutUpdate` in one hold are `prelocked_update` in a drawing command |
| `SendStart`, `SendOverrun`, `SendDone`, `SendOne` | `send_queued_blocks`: the unlocked check of the length, then one locked round of the loop each |
| `ReloadRequest`, `ReloadCancel`, `ReloadCountdown`, `ReloadNow` | `/reload` and the `reload_pending` part of `send_queued_blocks` |
| `ReloadAll`, `ReloadAllRaced`, `ResizeLevel` | `generation += 2` by `/reload all`, alone and overlapping a writer's `generation++`, and by `resize_current_level` |
| `Die` | a process ends; the robust mutex is handed on |

`CreateQueue` is `create_block_queue` with its initialisation of a queue it
cannot use, growth to what the map's size is worth, and fallback;
`CheckQueue` is `check_block_queue`.

Rounds of the reader's loop are atomic because the code holds `level_lock`
around them; between rounds everything may happen. A writer's append and its
wrap are two steps, so that it can be killed between them.

### LevelView

The level is a column of cells, the shape in which slabs stack and light makes
grass or dirt; the kinds of blocks and their definitions (`StackOf`, `DirtOf`,
`GrassOf`, `Lit`) are constants. `plan[p]` holds the writes `update_block` has
decided on from cells it read without a lock; each is then made in two steps,
the cell and the update. `view[p]` is what p's client shows: its own clicks at
once, then whatever packets bring, in order, after any delay (`down`).

| Action | Code |
|---|---|
| `Click`, `Receive` | the client program, as far as the server relies on it (external) |
| `PlaceCommand` | `/place`: a request of mode 3 |
| `UpdateBlock`, `WriteBlock`, `NoChange`, `SendUpdate` | `process_player_setblock` and `update_block`; `Writes` is its decision, with `Stacks`, `Corrected`, `BelowOf` and `Grow` |
| `RevertClient` | `revert_client`, after any of the refusals |
| `Draw` | `do_cuboid` and its like: writes under one hold of `level_lock` |
| `SendMapFile`, `SendCell` | `send_map_file`: the place in the queue, then the copy, cell by cell, in `Passes` passes |
| `SendQueuedBlock`, `Overrun` | `send_queued_blocks` |
| `Die` | a process ends, with what it had not queued |

`SameView` excepts two kinds of cells: those that two processes wrote before the
first had queued its update, and those whose writer died before it queued. The
history variable `disputed` names them. `ClassicOf` is what a classic client
means by the block it places: dirt for grass, a slab for a double one. That it
makes nothing of air and air of nothing (`ClassicAssumption`) is so in
`process_player_setblock`, and needed: a click that removes a block must stay
one.

### LevelLife

An edit is a number, the contents of a map the set of the edits in it. A file
that is removed stays with the tasks that have mapped it: `mine[t]` is the part
of t's files that still is what the names stand for. Tasks are clients, the
loaders they fork, and the saver; `stage[t]` is where a task is.

| Action | Code |
|---|---|
| `Goto`, `CheckUserSummon` | `direct_teleport`, `preload_level`, `check_level`, `check_user_summon` |
| `StartLevel`, `Leave`, `ThrownOut` | `start_level`, `check_this_user` |
| `LoaderStart`, `LoaderRegister` | the forked part of `preload_level`, `direct_load_level` |
| `Look`, `OpenProps`, `OpenBlocks`, `LoadProps`, `LoadBlocks` | `open_level_files`, `load_cwfile` |
| `OpenFails`, `RemoveProps`, `RemoveBlocks` | its end at `open_failed`, `unlink_level` |
| `ReturnToMain`, `LoaderFails`, `IgnoreBrokenLevel` | what the client, the loader and the saver do then |
| `WriteBlock`, `SendUpdate` | `update_block`, `send_update` (with `dirty_save`) |
| `CmdUnload` | `/unload` |
| `ScanLevel`, `Decide`, `FetchQueued`, `Rename`, `SaveFails`, `ClearDirty`, `CheckUnload`, `UnlinkProps`, `UnlinkBlocks`, `UnlinkLock` | `scan_and_save_levels`, `save_level`, `fetch_queued_blocks`, `unlink_level` |
| `DieOpening` | a client or loader is killed before the level is open |

The saver opens the level by the same actions. Any of them may fail, `MaxFails`
times, after any step under the lock: the process then gives up `level_lock`
(`stop_shared`), and if `del_on_err` says so - the files were not there when it
looked, before it waited for the lock, or the map is clean - it removes them one
by one, under no lock. `EditsKept` excepts the edits that fall into a window the
code leaves open; the history variables `exposed`, `overtaken` and `spoilt` name
them: what is queued between the saver's reading of the queue and its clearing
of `dirty_save`, what is queued between its reading of the flag and its count of
the users (run `life_dirty`), all of it once a file was removed while a loader,
which nobody counts, was opening the level, and all of it once an open that
failed has removed files that others had open, or opened before both were gone,
or that were dirty, or has left a part of a map because it was not to remove it.
`FilesStay` has only the last of these exceptions.

### ChatQueue

One ring of fixed length. The variables are the fields of `struct
chat_queue_t`, the lock, and each process's statics; an entry is its number,
its part of the message, the parts after it, and who is to see it.

| Action | Code |
|---|---|
| `CreateQueue`, `JoinQueue` | `create_chat_queue` and, under a second hold of the lock, `set_last_chat_queue_id` |
| `StopQueue` | `stop_chat_queue`, by the saver and the listener after each message |
| `QueueChat`, `LockQueue`, `PutPart`, `WrapQueue`, `UnlockQueue` | `queue_chat` |
| `SendOne`, `SendOverrun`, `SkipAll` | `send_queued_chats`, a round of its loop each |
| `Die` | a process ends, also between two parts |

`WholeMessages` excepts the one message a reader posts after it missed parts
(skipping leaves in the buffer what it had of the one before), and messages
whose writer died between parts.

### Sessions

Slots, processes and the listener. `pc[p]` is where a process is, `mailbox[p]`
the command that waits for it, `held` a slot number somebody looked up and is
about to use. Process ids are used again once reaped. Whoever writes to a slot
without `system_lock` tests it in one step and writes each member in one of its
own, so `start_user` may give the slot away in between: "found" and "late",
"stop" and "clear" are where such a process is, `wiping` where the listener is.
`Restart` is a listener that executes itself again, `StartAgain` one that has
ended (SIGTERM) and is started by hand: both wipe the slots of processes that are
gone, but after the second the clients there are no children any more
(`orphans`), and when they end it is init that reaps them.

| Action | Code |
|---|---|
| `Accept`, `Reap` | `tcpserver`, `cleanup_zombies` with `process_status_message` |
| `Restart`, `StartAgain`, `ReapOrphan` | `do_restart`; the end of `tcpserver` and `main`; a client no listener waits for |
| `RejectLogin`, `StartUser`, `JoinQueue` | `start_user`, `set_last_cmd_queue_id` |
| `FoundInactive`, `ClearOnNewSession`, `TakeSummon`, `ProcessCommand`, `SkipCommands` | the tick: `check_user_summon`, `process_queued_cmds` |
| `Logout`, `StopUser`, `StopActive`, `StopSession`, `Die` | `logout` and the steps of `stop_user`; an end without them |
| `FindSession`, `WipeSession`, `WipeActive` | `delete_session_id`, slot by slot, without a lock |
| `FindPlayer`, `SendCommand`, `Summon`, `ForkLoader`, `LoaderSummons` | `find_online_player` with `send_ipc_cmd` and `cmd_summon`; `preload_level` and `direct_load_level` |

`RunningOwnsSlot`, `NobodyMisled` and `NoGhosts` name the races they except: `stale` is a
command or summons looked up for a user who has left the slot since; `Struck`
are the sessions another one has wiped from under, be it `stop_user` or
`check_user_summon` of a session that had the slot before and is late, or the
listener's `delete_session_id`; `forsaken` are the slots that stay in the list
with no process (`NoGhosts` says which).

### Listener

A level is its flags. `generation` is read and written in two steps (`StopRead`,
`StopAdd`), as the code increments it without a lock; the counts of loaded and
pinned levels are stored by the saver from what it has counted before.
`SaveDue`, `UnloadDue` are the timers, `StartSaver` a fork with what it is told
to do, `Look` the saver's round over the levels, `EndPass` the counts it stores.
`ScanLevels` is the listener's own look at them, after which `StoreCounts` stores
what it has counted, if it has counted. `DoRestart` leaves the saver of before
running; the history variable `orphan` says that it has.

### RobustLock

`LockStart`, `Open`, `MapFile`, `Broken`, `Remove`, `Make`, `Link` are the steps
of `lock_start_try`; `LockFn`, `UnlockFn`, `LockStop`, `Die` the use of the
mutex. Files are numbers; the name stands for one of them or none, processes
keep the one they have mapped.

### Wire, Handshake, Stream

`Wire` has the lengths: `SentLength(e, protocol)` as the `send_..._pkt`
functions write, `ReadLength(e)` as `process_client_message` reads, `Adjusted(e,
table)` as `msglen` is changed when an extension is agreed on (`Changes(e)`, the
entries it writes). `Handshake` has two sets for that: `enabled` is
`extensions[].enabled`, `exts` the flags the packets are cut by; they differ
where a list that has wide block numbers in it comes to its end, and the flag of
EnvMapAppearance, but not its entry, is cleared. It has `Login`, `Welcome`,
`ExtInfo`, `ExtEntry`, `CustBlock`, `PendingTimeout`; a client may send any of
the extensions in any order, also twice or after the end, and answer CustomBlocks
at any time, asked or not. `Stream` has bytes
known by where they came from, read in pieces of any size, and
`websocket_translate` and `remote_received`.

### ChatText

`Receive` puts parts together and converts the colours (`process_chat_message`,
`convert_and_post_chat`), `Post` cuts the text into lines and writes them for a
client (`post_chat`, `nb_string_write`). The property compares the characters and
colours a client shows with those of the text as it was meant.

### LevelAdmin, Resize

A command is a process with a stage: `Command` forks it, `ForceAway` throws all
off the level, `Wait` waits for the saver, `Delete` and `Rename` are the work, or
`Read` or `Restore`, which write the copy, and `CopyPut`, which puts it in place;
`ReturnOpen` and `ReturnRegister` open the level again and summon who was there.
The saver (`SaveOpen`, `SavePut`), `/copylvl` and `/restore` write without a common
lock to one temporary file, which is named for the level (`tmp`): a second one
cuts it off under the first, what two have written is neither's, the second to
rename it finds none (`CopyFails`) and removes the name, whoever writes there now
(`Undo`). A command that fails still brings back those it forced away (`Fail`).
That the saver's rename fails and that it then removes the file are one step, and
who writes does not die in the middle. The level table has `MAX_LEVEL` slots and
may be full: then a level that is not in it cannot be entered or opened (`Room`,
`Place`). Any of the levels may be there at the start. Clients go to levels and
museums through loaders (`Goto`, `Load`, `Summon`), as in `LevelLife`. The
contents of a map are a number. `want` is what the last command or edit asked
for.

In `Resize` the level has `Depth` rows of one to `MaxWidth` blocks, so that the same
number of blocks is laid out differently before and after: `Copy` cell by cell,
`Rename`, `MarkProps`, `Force`, `Return`; `Killed` at any of them.

### PlayerList

The client process's copies (`myuser`, `was_uid_ren`), its numbers (`uid_ren`,
`range`), and the client's screen and list of names, which packets change.
`CheckOtherUsers` and `ReorderVisibleUsers` are two steps, since others change
their entries in between. `EnterLevel` is `reset_player_list`.

### MapFile, IniFile, LevelIni, Settings, CmdSet, UserRecord

`MapFile` writes a level as tags (`SaveMap`) and reads it as the loader does
(`ReadElement`, by the name of the item and of the compound it thinks it is in).
`IniFile` has lines with sections, and their reading and rewriting in place;
`LevelIni` applies it to `/isave` and `/iload`; `Settings` to `server.ini`, which
the listener reads again when its time is not the one it knows (`Reload`; the
first time it takes the one it finds, `FirstLook`), sessions write in two steps
(`Fill`, `Rename`), and people edit (`Edit`). Times are of whole seconds, so that a
write need not change them (`NewTime`). `CmdSet` has the
permissions, their file, the message that makes sessions read it again, and
`Run`, the decision of `run_command`. `UserRecord` has the two copies of a user
on disk and the ones in his session, an administrator's process and the
listener's that counts a session that died.

### AntiSpam

`Tick` is a millisecond, `Second` of them a second of the clock by which bans are
measured; `EventAlone` and `Event` are `add_antispam_event` with nothing and with
something outstanding. Times are relative to now, so there is no bound on how
long it goes on. `passed` is a history: how many events were let through lately.

## Runs

| Run | What it shows | Bounds |
|---|---|---|
| `queue` | the inductive invariant, the implementation of `UpdateLog`, and that a void queue reaches all | two processes, rings of 2 growing to 3, 4 updates, generation up to 5: enough to be one and two generations behind at every offset, to wrap twice, grow in between, be initialised again and voided |
| `queue_live` | every process catches up, again and again | one ring of 2, 3 updates (one overrun and one wrap), countdown from 8 so that both of its speeds are used |
| `chat` | `ImplementsLog`, `WholeMessages`; and, of `UserRecord`, `AsTold`, `Counted` | 2 processes, a ring of 3, messages of up to 4 parts (longer than the ring), 5 entries: the ring is turned once and the reader is overrun in the middle of a message. `UserRecord`: 2 sessions, 4 events |
| `view` | `SameView` with stacking slabs, dirt, grass and light, a classic and a modern client, maps in two passes, deaths | 3 cells, 2 edits, a level of grass or of a slab under air: a slab on a slab, or on grass, with another beside it, by two clients |
| `life` | `EditsKept`, `FilesStay` | 2 clients with a loader each, 2 edits, a queue that 2 edits overrun: one may be on the level, one coming, the saver between any two steps; one open that fails. A behaviour is followed (constraint `Followed`) until `spoilt`, and one in which a file was removed under a loader only without a failed open: the invariants ask for nothing, or no more, after that |
| `life_live` | `/unload` comes to its end | 1 client and its loader, 1 edit, one open that fails, deaths while opening |
| `life_dirty`, `life_part` | expected to fail: the dirty flag read too early, half a map taken for a whole one | as `life` |
| `sessions` | `OneActivePerName`, `RunningOwnsSlot`, `NoGhosts`, `NobodyMisled`; and, of `PlayerList`, `AsSeen`, and of `Resize`, `AsResized` | 3 process ids, 2 users, 2 slots, 3 connections: a slot and a process id are used again while an old session is on its way out. Of what is sent to a slot (a number that is held, summonses, commands) one kind is followed at a time, and none after the listener was started again (constraint `Followed`). `PlayerList`: 5 slots, 4 numbers (classic 2), two users that come, go, move and change twice besides what they do to arrive. `Resize`: 2 clients, 2 rows of up to 2, 1 edit |
| `listener` | `CountNotOver`, `ChangesSeen`, `CountsSettle` | 1 player, 1 level, 1 saver, 3 operations; a restart, which leaves the saver at work |
| `listener_left` | expected to fail: the level nobody is on is not unloaded | as `listener` |
| `parts` | `OneMutex`, `NeverStuck` (2 processes, 2 tries, 3 files); `SendsWhatIsListed`, `ReadsWhatIsCut`, `CompletedInTheEnd` (10 extensions, lists of up to 4 and 2 late entries); `PacketsAsSent` (2 frames of up to 4 bytes, packets of 3 and 1); `SameAgain` (2 cells, 2 changes, blocks of 4 in a byte); `SavedComesBack` (1 file and its loading over the level or an empty one); `SetStays` and `RunsAsTold` (2 sessions, 2 changes); `SaidIsShown` (lines of 9, texts of 4 units); `AsOrdered` (2 levels, 2 clients, a table of 2, 3 acts); `AsAllowed` (3 events in 7 ticks, so that the share is rounded; bans of none and of 1; seconds of 5 ticks) | see left |

`CHECK_DEADLOCK` is off in `parts` alone: a map has been loaded, a line shown,
the bound on events reached, and there is no more to do. Larger instances were
checked outside the runs: `AsTold` and `Counted` with 5 events (12 million
states), `AsOrdered` with 4 acts, `AsResized` with 2 edits, `AsSeen` with 3 steps
of the movers, and with all slots moving; `ListenerIInv` with 2 players, 2 savers
and 3 operations, and with 1 player and 4; all properties of `listener` with 2
savers, so that a restart leaves one and another is started beside it, and with
2 levels.

Bounds on counters: `MaxUpdates`, `MaxGeneration`, `MaxLen`; in the code they
are 32 bit and wrap around after 2^32 generations, which is not modelled.
`MIN_QUEUE`, `STD_QUEUE`, the batch of 1024 and the delay of 100 ticks are
constants with small values. `MaxTries`, `MaxFiles`, `MaxLate`, `MaxFrames`,
`MaxPayload`, `MaxChanges`, `Saves`, `MaxSets`, `MaxEvents`, `MaxUnits`,
`MaxActs`, `MaxSteps`, `MaxEdits`, `MaxDebt`, `MaxForks` and `MaxOps` bound what
the surroundings do, never what the code does.

**Fairness** (`queue_live`): strong fairness of each process's tick
(`SendMapFile`, `Reload`, `Send`), since the main loop of a process calls
`send_queued_blocks` again and again while its client reads, and `level_lock`
is a mutex a waiting process gets in the end; weak fairness of a lock holder
going on to wrap and release, since it only writes to memory. Nothing is
assumed of writers, of deaths or of `/reload`.

**Fairness** (`life_live`): strong fairness of the ticks of a client, of a
loader and of the saver, which wait for mutexes others take again and again and
get them in the end; and of `FetchQueued` and `Rename`, since a disk does not
refuse for ever, for which reason the opens that fail are bounded too. Nothing is assumed of what players do or of deaths.

**Fairness** (`listener`, `listener_left`): weak fairness of the listener's
loop, of its timers and of a session that is leaving; strong fairness of a
saver's steps, which wait for `system_lock`. Nothing is assumed of players,
signals or restarts.

## Proofs

Each component that is proved about has an inductive invariant, stated at the
end of its module as a conjunction of named parts, and a module of proofs with
one lemma per action (or group of small ones), under it one step per part. The
theorems hold for every value of the constants: any number of processes, users,
slots, levels, cells, blocks and extensions, every length of ring, and whatever
the bounds are. TLC has checked each inductive invariant on the instance of its
run. What else a theorem assumes is in its `ASSUME` or named here.

| Theorems | Statement |
|---|---|
| `RingInvariant`, `RingImplementsLog`, `VoidReaches` | `BlockQueue`: `IInv`, `ImplementsLog`, `VoidReachesAll` |
| `ChatInvariant`, `ChatTypes`, `MessagesAreWhole`, `ChatImplementsLog` | `ChatQueue`: `IInv`, `TypeOK`, `WholeMessages`, `ImplementsLog` |
| `ViewInvariant`, `ViewTypes`, `QuietClientsSeeTheLevel` | `LevelView`: `IInv`, `TypeOK`, `SameView` |
| `LifeInvariant`, `LifeTypes`, `NobodyOnRemovedFiles`, `NoEditIsLost` | `LevelLife`: `IInv`, `TypeOK`, `FilesStay`, `EditsKept` |
| `Invariant`, `TypeInvariant`, `OnceInTheList`, `SlotIsOwned`, `GhostsGo`, `MailIsMeant` | `Sessions`: `IInv`, `TypeOK`, `OneActivePerName`, `RunningOwnsSlot`, `NoGhosts`, `NobodyMisled` |
| `UserInvariant`, `FileAsTold`, `CountedOnce` | `UserRecord`: `UserIInv`, `AsTold`, `Counted` |
| `ListenerInvariant`, `ListenerTypes`, `NotOverCounted` | `Listener`: `ListenerIInv`, `TypeOK`, `CountNotOver` |
| `ResizeInvariant`, `LevelIsAsResized` | `Resize`: `ResizeIInv`, `AsResized` |
| `SpamInvariant`, `SpamTypes`, `KeepersNotRefused` | `AntiSpam`: `SpamIInv`, `SpamTypeOK`, `AsAllowed` |
| `LockInvariant`, `MutexIsOne`, `MutexIsNotStuck` | `RobustLock`: `LockIInv`, `OneMutex`, `NeverStuck` |
| `AdminInvariant`, `AdminTypes`, `LevelsAreAsOrdered` | `LevelAdmin`: `AdminIInv`, `AdminTypeOK`, `AsOrdered` |
| `HandshakeInvariant`, `LengthsSent`, `LengthsRead`, `LetInOnce` | `Handshake`: `HandshakeIInv`, `SendsWhatIsListed`, `ReadsWhatIsCut`, `CompletedInTheEnd` |

**The two rings.** `TypeOK` and the bounds of the offsets are not inductive
alone: that a reader's place is good depends on what lies in the ring, and that
on what the generation says about it. In `BlockQueue`, `ContentInv` says that
the entries of this generation are the latest updates, `ReaderInv` that a reader
one generation behind has the tail of that generation intact above the offset,
`LockInv` and `UserInv` that a writer's mapping is as long as the queue. In
`ChatQueue` the same is said of a ring that does not grow (`Behind` is the number
of entries between a reader's place and the end), and more is needed because
messages have parts: `LogInv` says that a part is followed by the next one for
the same readers, `TailInv` and `MidInv` what the writer in the middle of a
message will add and that nobody is past it, `BufferInv` that a reader's buffer
is the start of the message he goes on with. That both rings implement
`UpdateLog` is shown step by step with the position of a reader computed from
his place (`Position`).

Both assume `~CrashInWrap`: no process is killed between `++curr_offset` and the
reset of the offset. It is needed: with `CrashInWrap = TRUE` TLC finds the offset
beyond the ring.

**What the clients show** (`LevelView`). Of a settled cell (nobody has a write of
it to queue, and it is not disputed) each client with a place in the queue has
one of three: the queue has an update of it after the client's place (`News`),
its process has something to do about it (`Owes`: a map to send, a click to
answer, a write to make or to tell of), or what it shows, overwritten by the
packets on their way, is the cell (`Shows`). That is `ViewInv`; `LogInv` says that
the last update of a settled cell is what the cell is, and `CopyInv` that a cell
without news is copied right into a map on its way. `SameView` is the case of a
client that owes nothing, has no news and no packets. Deaths are included.

**The life of a level** (`LevelLife`). `PlaceInv` - a client is on the level before it
opens the first file, the saver has seen nobody before it removes the first -
holds of all behaviours, and `FilesStay` follows from it; its part on the files
holds until `spoilt`. For that who removes the files after a failure must be
alone with a clean map (`RemoveInv`), which the steps of the others keep so
unless they open the properties, and that is one of the ways to be spoilt.
`EditsKept` needs
`LevelInv`: all tasks have the same files open (`MineInv`), so `level_lock` keeps
them apart while they open them (`LockInv`), and a map without the dirty flag
is in the `.cw` file (`SavedInv`). It holds until a file is removed under a loader
(`overtaken`) or an open that failed has done harm (`spoilt`), and assumes `~MayDie`: a process
that dies while it loads leaves half a map that is taken for a whole one, as
run `life_part` shows. The types and `FilesStay` are proved without that.

**Sessions.** The proof needs to know of each slot who has it: an active slot has
a process under its name, or the listener is at work on it, or it is forsaken
(`SlotInv`), and a process whose slot nobody has struck has its session there
until it clears it (`SessionInv`, `OwnerInv`); one that is about to clear the
session of its slot is not the one the list shows there (`LateInv`), so what
is cleared from under an active slot is another's, and the slot is forsaken then;
and the listener has passed no slot of the process it looks for
(`ListenerInv`), since no process id is used again meanwhile; then, that every reference, summons or
command is for the user of its slot or says that it is stale. The attempt showed
that `struck` had to include the sessions whose slot `check_user_summon` clears
for one that had it before: the model had let `RunningOwnsSlot` say too much,
and a counterexample needs five connections, beyond the bound of the run.

**The mutex** (`RobustLock`). Until a sound file is removed, there is one, and the
name stands for it (`NameInv`); a mutex and its holder know of each other until
the holder dies (`HolderInv`). `LockConstants` says that there is a file and that
`Nobody` is no process.

**Commands on levels** (`LevelAdmin`). What is to be saved is in memory, and what is
in memory and not to be saved is what the file has (`SavedInv`): so an unload
changes no contents, and a command that reads the file after the level has left
memory reads the current contents. What is being saved is a level that is to be
saved (`SavingInv`); who writes a temporary file is alone with it, and it has in
it what is to be the level's (`TmpInv`). `raced` names the behaviours in which the
level came back in between, two were at one temporary file, or a level was edited
while it was saved, as in `AsOrdered`. `AdminConstants` says that the table has
a slot. The table may be full, whatever `MAX_LEVEL` is.

**User records** (`UserRecord`). As long as no two work on the file at a time (`raced`),
somebody has what was told: who is at it, else the file; and a session that
plays has it but for a rank it has been sent a message of (`ToldInv`). That a
ban is the last message a session is sent is part of it: a later "load the
user" would let it back in. As long as one session runs and nobody writes the
record meanwhile (`mixed`), the counts are those of the session, of the listener
that adds a kick, or of the record, in that order (`CountInv`). Both need where each
process is and what there is by then (`FlowInv`): a process that is about to write
the record has written the file before. The two histories are those of
`AsTold` and `Counted`, and the theorems are of any number of sessions and of
administrators' changes. `UserConstants` says that the administrator and the
listener are two, and no sessions.

**The listener** (`Listener`). At most one saver scans at a time, by `level_save_lock`,
and unless a restart left one (`orphan`) it is the listener's (`SaverInv`). So
nobody else unloads, what the saver has counted is still loaded when it stores
the count, as is what the listener counted before it starts one (`LoadedInv`). The
exception for a restart is needed: TLC finds the listener's `scan_levels` counting a
level, the saver of before unloading it and storing 0, and the listener
storing 1. That all counts are natural numbers, and so the types, rests on the
same: the one a saver unloads is one it has counted.

**Resize.** Each cell has a place of its own in a file of any size (`PackApart`), so a
file is what is in the cells (`Holds`), and a copy of cells touches no other.
`LevelInv` says that the level's file has what it should, in its own layout, but
while the new file has the name and the old size is told; `CopyInv` that what
is copied is in the new file and no edit changes that, since an edit of a cell
that was copied is remembered as `late`; `MappedInv` that who has the old file is
about to be put off. All of it until something is torn, as in `AsResized`.

**Limits** (`AntiSpam`). Time is paid with `Count` a tick and an event costs `Time`
(`Debt`); the deadline is that, rounded down. Since each event puts off the
deadline by at least `Share` (`ShareInv`), and, since the last time nothing was
outstanding, by all of its cost (`CostInv`), no more can be let through in a `Time`
than `AsAllowed` says. Who has kept to the limit has done no more than `Count`
events since then and is remembered by all of them (`KeptInv`), so he never comes
to be late. `SpamConstants` has `Count <= Time`: see *What the exceptions say*.

**The handshake.** The table of lengths is at any time the table of the protocol
with the changes of the flags (`TableInv`). It is preserved because changing
a table for a set of flags after it was changed for a smaller one is changing
the first for the larger one, and because what one extension changes no other
does, but for those `Changes` orders. `LengthsSent` and `LengthsRead` then are
facts about every set of flags, by cases of the packet; the second excepts
wide block numbers without HeldBlock. `LetInOnce` counts what the client has still
to send against `cpe_extn_remaining` while the exchange is on (`ExchangeInv`), and
says of who is in or gone that an end of it before the list's is an early answer
(`InInv`, `GoneInv`, `AskedInv`). `HandshakeConstants` says that
the bounds are numbers.

**Out of the prover's reach**, and checked by TLC only: liveness (`CatchesUp`,
`UnloadEnds`, `ChangesSeen`, `CountsSettle`), and what is computed by recursion over
data: the lines of `ChatText` (`SaidIsShown`), the files of `IniFile`, which
`CmdSet`, `Settings` and `LevelIni` read (`SetStays`, `RunsAsTold`, `SavedComesBack`
of them), the tags of `MapFile` (`SameAgain`), the cut of `Stream` (`PacketsAsSent`)
and the numbers `PlayerList` deals (`AsSeen`). `MCParts` reaches `ChatText`, so its
`TypeOK`, which joins the types of its modules, is proved part by part for four of
them (`AdminTypes` and `SpamTypes`, and within `LockInvariant` and
`HandshakeInvariant`) and checked for `Stream`.

## What the runs that fail say

Each is a finding in `PROJECT.json`, with the line and the comment it is about:
the dirty flag (`life_dirty`), a map that was only partly extracted
(`life_part`), and the level its last player has left (`listener_left`): if one
level is loaded and none pinned, the increment of `pinned_levels` that is to
trigger a rescan makes the two counts equal, and the listener does nothing.

## What the exceptions say

What the models show of the code beyond what holds:

* **Block queue**: a writer killed at the end of the ring leaves the offset
  beyond it. `generation += 2` without the lock may be lost.
* **Level view**: two writers of a cell may queue their updates the other way
  round; clients then show what the level does not have.
* **Saving**: what is queued between the reading of the queue and the clearing of
  `dirty_save` is not marked as unsaved; a loader is counted by nobody. A client or
  loader that fails to open a level removes its files after it has given up the
  lock, from under whoever waited for it, or has them open with a map that is
  clean; one that saw the files of another that then fails leaves its own.
* **Chat**: a reader that was overrun in a message joins its parts to those of
  the next. A colour inside a word that is moved to the next line paints the
  whole word; colours an administrator made come out as `% ` on clients without
  text colours.
* **Sessions**: a slot may be wiped late, by `stop_user` or by the listener, for
  a session that had it before; its new user is told of a "new session" there is
  not. If it is given away between the test and the writes of `stop_user` or
  `check_user_summon`, it may end active with no session: `delete_session_id` never
  wipes that, and only a user of the same name gets it back. A client that outlives
  its listener and is killed under the next one stays in the list until then, or
  until a start; and a client with the process id it had is left when it dies,
  since the loop ends with the first slot that has the id. Commands an overrun reader skips are lost.
* **Handshake**: CustomBlocks is asked for in the middle of the list, and a client
  that answers there (`early`) is let in at once: the rest of its list is late, and
  an entry that may not be late sends it away again. An answer nobody asked for,
  or a late one, makes a finished exchange pending again, though the comment at
  `cpe_login.c:238` takes late entries for okay; an extension list that ends with an entry that was there
  before is not completed; with wide block numbers and no HeldBlock a position
  is one byte longer than is read.
* **Stream**: a frame of exactly 125 bytes, a header that comes in small pieces,
  and a websocket client without extensions a header of which arrives alone.
* **Locks**: a sound file can be removed by one that had looked at a broken one.
* **Commands on levels**: what was checked before the wait (that the other name
  is free, that the level is not in memory) is not checked after it; a museum of
  a level is taken for the level, by name. Two restores of a level, two copies to
  one name, or either and the saver write into one temporary file: the level gets
  what both wrote, one of them fails, and then removes what a third may be writing. A resize is lost or scrambled when
  somebody opens the level between the renaming and the new size, when the saver
  had it open, when it is killed there, or when it is unloaded first; the size
  at the end of the block file is written into the old file.
* **Other users**: a slot taken over between two looks by a user who has changed
  as often keeps the look of the one before; one who comes out of hiding by a
  small step is shown in the wrong place; what had the number that becomes the
  client's own stays; the name at the last number stays when numbers are dealt;
  the largest number stays empty rather than be given to a hidden user.
* **Map files**: the definition of block 256, a reach of -1, a jump without its
  flag, changes to MCGalaxy's own blocks are not brought back; the unique number
  is read only inside block definitions, and so is new after each load.
* **Level settings**: what is false has no line in a new file, so that reading it
  over a level where it is true leaves it true.
* **Server settings, permissions, user records**: all are read, changed and
  written without a lock, and two changes at the same time undo each other. A
  command told its default has no line, and sessions that are there keep what
  they had. A reach that is the map's again is not written.
  `server.ini` edited before the listener has looked at it first, or in the second
  of its last write, is not read until it changes again (`unseen`).
* **Limits**: a limit of more events than its interval has milliseconds refuses
  nothing. What an event takes of the time is rounded down to whole milliseconds
  when nothing is outstanding, so that a bit more than twice the limit may be let
  through: 7 events in 5 ms if 3 are allowed.
* **Listener**: after a restart the count of loaded levels may be too high until the
  next scan, since the new listener and the saver of before both store theirs;
  where the wrong count is that of the pinned levels, no scan follows.

## What is left

1. `LevelLife` with the main level and `no_unload`; two resizes at a time, which
   share their temporary file.
2. Pure algorithms: the cells of `do_cuboid` in its four shapes,
   `check_for_sand` over a column, the name conversion of `fix_fname`.

## Not modelled

Map generators and random numbers (arithmetic without interaction), file names,
code pages and natural order, logging and platform glue, commands that print or
set one field, downloads and `lib/classicmap.c` (another program's file formats,
read only), heartbeat, vendored hashes and the header generator of the build. In
the models above: falling sand, the shapes of drawing commands, compression and
padding of maps, `usertxtrec.c` and `fcntl_mutex.c` (other builds), the search
for names by their parts (`find_file_match`), the message a spammer is told
once, the delay queue, and numbers at the end of their 32 bits. `PROJECT.json`
says of every part what of it is left out.

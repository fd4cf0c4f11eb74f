----------------------------- MODULE LevelAdmin -----------------------------
(***************************************************************************)
(* The commands that work on whole levels: /newlvl, /deletelvl, /renamelvl, *)
(* /copylvl, /restore and /unload, against clients that enter levels, the   *)
(* loaders that open levels for them, and the saver.  A command works on    *)
(* the .cw file alone, so the level has to be out of memory: if it is not,  *)
(* a process forked for the command forces everybody off it, waits until    *)
(* the saver has unloaded it, does its work, and brings them back.          *)
(*                                                                          *)
(* What is in a map is a number; LevelLife shows how it gets there.         *)
(***************************************************************************)
EXTENDS Integers, FiniteSets, FiniteSetsExt

CONSTANTS
  Level,        \* names of levels, of which none is the main one
  Kept,         \* the one that has a backup
  Client,
  MAX_LEVEL,    \* how many entries the table has
  MaxActs       \* a bound on commands, joins and edits, for TLC

None == 0                            \* no such file, not in memory
Nowhere == 0                         \* the void, or the main level
Slot == 1 .. MAX_LEVEL

\* What the proofs need of them
AdminConstants == MAX_LEVEL \in Nat \ {0} /\ MaxActs \in Nat

VARIABLES
  cw, backups,  \* of each level: the file, and what is in the backups
  tmp,          \* of each level: the file its next .cw is written to
  saving,       \* the slot of the level that is being saved, by who has level_save_lock
  mem, dirty_save,  \* of each level: what is in memory; has it changed
  levels,       \* the table: which level, is it a backup of it, force_unload
  on_level, summon_level_id,   \* of each client
  loader, processor,           \* the processes a client forks
  want,         \* history: what each level should have in it
  deleted,      \* history: what should be in its backups
  raced,        \* history: see AsOrdered
  made, acts    \* contents there have been; what has been done

table == <<levels, on_level, summon_level_id>>
writing == <<tmp, saving>>
memory == <<mem, dirty_save>>
history == <<want, deleted, raced, made>>
adminVars == <<cw, backups, writing, memory, table, loader, processor, history, acts>>

LevelEntry(l, museum) == [level |-> l, museum |-> museum, force_unload |-> 0]
Free == LevelEntry("", FALSE)
LoaderOf(l, museum) == [level |-> l, museum |-> museum, opened |-> FALSE]
NoLoader == LoaderOf("", FALSE)
NoProcessor == [op |-> "", from |-> "", to |-> "", stage |-> "", here |-> FALSE, slot |-> 0,
                users |-> {}, content |-> None]

Entry_t == [level : Level \cup {""}, museum : BOOLEAN, force_unload : {0, 1, 2}]
Loader_t == [level : Level \cup {""}, museum : BOOLEAN, opened : BOOLEAN]
Op == {"", "delete", "rename", "copy", "restore"}
Stage == {"", "direct", "force", "wait", "act", "put", "putback", "undo", "undoback", "open",
          "register"}
Processor_t ==
  [op : Op, from : Level \cup {""}, to : Level \cup {""}, stage : Stage, here : BOOLEAN,
   slot : Slot \cup {0}, users : SUBSET Client, content : Nat]

AdminTypeOK ==
  /\ cw \in [Level -> Nat] /\ tmp \in [Level -> Nat] /\ saving \in Slot \cup {Nowhere}
  /\ mem \in [Level -> Nat] /\ want \in [Level -> Nat]
  /\ backups \in [Level -> SUBSET Nat] /\ deleted \in [Level -> SUBSET Nat]
  /\ dirty_save \in [Level -> BOOLEAN] /\ raced \in BOOLEAN
  /\ levels \in [Slot -> Entry_t]
  /\ on_level \in [Client -> Slot \cup {Nowhere}]
  /\ summon_level_id \in [Client -> Slot \cup {Nowhere}]
  /\ loader \in [Client -> Loader_t] /\ processor \in [Client -> Processor_t]
  /\ made \in Nat /\ acts \in 0 .. MaxActs

AdminInit ==
  /\ cw \in {[l \in Level |-> IF l = Kept THEN 1 ELSE IF l \in there THEN 2 ELSE None] :
               there \in SUBSET (Level \ {Kept})}
  /\ backups = [l \in Level |-> IF l = Kept THEN {3} ELSE {}]
  /\ tmp = [l \in Level |-> None] /\ saving = Nowhere
  /\ mem = [l \in Level |-> None] /\ dirty_save = [l \in Level |-> FALSE]
  /\ levels = [i \in Slot |-> Free]
  /\ on_level = [c \in Client |-> Nowhere] /\ summon_level_id = [c \in Client |-> Nowhere]
  /\ loader = [c \in Client |-> NoLoader] /\ processor = [c \in Client |-> NoProcessor]
  /\ want = cw /\ deleted = [l \in Level |-> {}] /\ raced = FALSE /\ made = 3 /\ acts = 0

Acts == acts < MaxActs /\ acts' = acts + 1
Fresh == made + 1

----------------------------------------------------------------------------
(* The table *)

Loaded(i) == levels[i].level # ""
Entries(l) == {i \in Slot : levels[i].level = l}
Entry(l, museum) == {i \in Entries(l) : levels[i].museum = museum}
Live(l) == Entry(l, FALSE) # {}
Current(l) == IF mem[l] # None THEN mem[l] ELSE cw[l]

\* "Too many already loaded levels", if there is no room.
Room(l, museum) == Entry(l, museum) # {} \/ \E i \in Slot : ~Loaded(i)

\* The slot start_level and direct_load_level take, and the entry there
SlotFor(l, museum) ==
  IF Entry(l, museum) # {} THEN Min(Entry(l, museum)) ELSE Min({i \in Slot : ~Loaded(i)})
Register(l, museum) ==
  levels' = IF ~Room(l, museum) THEN levels ELSE [levels EXCEPT ![SlotFor(l, museum)] =
               IF Loaded(SlotFor(l, museum)) THEN @ ELSE LevelEntry(l, museum)]

\* open_level_files: what is in memory is used, else the file, else a flat map is made.
OpenFiles(l) ==
  IF mem[l] # None THEN UNCHANGED <<memory, made>> /\ UNCHANGED raced
  ELSE /\ mem' = [mem EXCEPT ![l] = IF cw[l] = None THEN Fresh ELSE cw[l]]
       /\ dirty_save' = [dirty_save EXCEPT ![l] = cw[l] = None]
       /\ made' = IF cw[l] = None THEN Fresh ELSE made
       /\ raced' = (raced \/ cw[l] = None)

----------------------------------------------------------------------------
(* Clients *)

\* choose_level_files
MayEnter(l, museum) ==
  IF museum THEN backups[l] # {}
  ELSE cw[l] # None /\ \A i \in Entry(l, FALSE) : levels[i].force_unload = 0

\* preload_level: a client that is somewhere has a level that is not loaded opened by another
\* process, and waits for its summons.
MayFork(c, l, museum) == Entry(l, museum) = {} /\ Room(l, museum)
Fork(c, l, museum) == loader' = [loader EXCEPT ![c] = LoaderOf(l, museum)]

\* Where the summons to the level leads
Place(l, museum, otherwise) == IF Room(l, museum) THEN SlotFor(l, museum) ELSE otherwise

\* start_level and what follows it; without room it is back to the main level.
Enter(c, l, museum) ==
  /\ Register(l, museum)
  /\ on_level' = [on_level EXCEPT ![c] = Place(l, museum, Nowhere)]
  /\ IF museum \/ ~Room(l, museum) THEN UNCHANGED <<memory, made, raced>> ELSE OpenFiles(l)

\* direct_teleport
Teleport(c, l, museum) ==
  /\ MayEnter(l, museum)
  /\ \/ MayFork(c, l, museum) /\ Fork(c, l, museum) /\ UNCHANGED <<levels, on_level, memory, made,
                                                                   raced>>
     \/ Enter(c, l, museum) /\ UNCHANGED loader

\* cmd_goto, cmd_museum
Goto(c, l, museum) ==
  /\ loader[c] = NoLoader /\ processor[c] = NoProcessor
  /\ on_level[c] # Nowhere => levels[on_level[c]] # LevelEntry(l, museum)
  /\ Acts /\ Teleport(c, l, museum)
  /\ UNCHANGED <<cw, backups, writing, summon_level_id, processor, want, deleted>>

\* direct_load_level opens the files ...
Load(c) ==
  /\ loader[c].level # "" /\ ~loader[c].opened
  /\ IF loader[c].museum THEN UNCHANGED <<memory, made, raced>> ELSE OpenFiles(loader[c].level)
  /\ loader' = [loader EXCEPT ![c].opened = TRUE]
  /\ UNCHANGED <<cw, backups, writing, table, processor, want, deleted, acts>>

\* ... then registers the level, and summons the client.
Summon(c) ==
  /\ loader[c].opened
  /\ Register(loader[c].level, loader[c].museum)
  /\ summon_level_id' =
       [summon_level_id EXCEPT ![c] = Place(loader[c].level, loader[c].museum, Nowhere)]
  /\ loader' = [loader EXCEPT ![c] = NoLoader]
  /\ UNCHANGED <<cw, backups, writing, memory, on_level, processor, history, acts>>

\* check_user_summon
CheckUserSummon(c) ==
  /\ summon_level_id[c] # Nowhere
  /\ summon_level_id' = [summon_level_id EXCEPT ![c] = Nowhere]
  /\ LET e == levels[summon_level_id[c]] IN
     IF summon_level_id[c] # on_level[c] /\ e.level # "" /\ MayEnter(e.level, e.museum)
     THEN Enter(c, e.level, e.museum)
     ELSE UNCHANGED <<levels, on_level, memory, made, raced>>
  /\ UNCHANGED <<cw, backups, writing, loader, processor, want, deleted, acts>>

\* check_this_user; and a client may go away by itself.
Leave(c) ==
  /\ on_level[c] # Nowhere
  /\ on_level' = [on_level EXCEPT ![c] = Nowhere]
  /\ UNCHANGED <<cw, backups, writing, memory, levels, summon_level_id, loader, processor,
                 history, acts>>

Edit(c) ==
  /\ on_level[c] # Nowhere /\ ~levels[on_level[c]].museum /\ Acts
  /\ LET l == levels[on_level[c]].level
     IN /\ mem' = [mem EXCEPT ![l] = Fresh] /\ want' = [want EXCEPT ![l] = Fresh]
        /\ dirty_save' = [dirty_save EXCEPT ![l] = TRUE] /\ made' = Fresh
        /\ raced' = (raced \/ (saving # Nowhere /\ levels[saving].level = l))
  /\ UNCHANGED <<cw, backups, writing, table, loader, processor, deleted>>

----------------------------------------------------------------------------
(* The saver *)

\* A file to write t's next .cw to is made, or cut off: what two have open is neither's.
WriteTmp(t, content) ==
  /\ \E x \in {content, IF tmp[t] = None THEN content ELSE Fresh} : tmp' = [tmp EXCEPT ![t] = x]
  /\ made' = IF tmp[t] = None THEN made ELSE Fresh
  /\ raced' = (raced \/ tmp[t] # None)

\* It takes the place of the .cw.
PutTmp(t) ==
  /\ tmp[t] # None
  /\ cw' = [cw EXCEPT ![t] = tmp[t]] /\ tmp' = [tmp EXCEPT ![t] = None]

\* Another took it away; it may be the .cw by now, and have got the rest there.
NoTmp(t, content) ==
  /\ tmp[t] = None
  /\ \E x \in {cw[t], IF cw[t] = None THEN None ELSE content} : cw' = [cw EXCEPT ![t] = x]

\* scan_and_save_levels, save_level, to where the file is written; one save at a time
SaveOpen(i) ==
  /\ saving = Nowhere
  /\ Loaded(i) /\ ~levels[i].museum /\ dirty_save[levels[i].level]
  /\ WriteTmp(levels[i].level, mem[levels[i].level])
  /\ saving' = i
  /\ UNCHANGED <<cw, backups, memory, table, loader, processor, want, deleted, acts>>

\* save_level, the rest: with or without a backup of what was there
SavePut(bkp) ==
  /\ saving # Nowhere
  /\ LET l == levels[saving].level IN
     \/ /\ PutTmp(l)
        /\ backups' = [backups EXCEPT ![l] = IF bkp /\ cw[l] # None THEN @ \cup {cw[l]} ELSE @]
        /\ dirty_save' = [dirty_save EXCEPT ![l] = FALSE]
     \/ NoTmp(l, mem[l]) /\ UNCHANGED <<tmp, backups, dirty_save>>
  /\ saving' = Nowhere
  /\ UNCHANGED <<mem, table, loader, processor, history, acts>>

Unload(i) ==
  /\ Loaded(i) /\ saving # i /\ (levels[i].museum \/ ~dirty_save[levels[i].level])
  /\ \A c \in Client : i \notin {on_level[c], summon_level_id[c]}
  /\ mem' = IF levels[i].museum THEN mem ELSE [mem EXCEPT ![levels[i].level] = None]
  /\ levels' = [levels EXCEPT ![i] = Free]
  /\ UNCHANGED <<cw, backups, writing, dirty_save, on_level, summon_level_id, loader, processor,
                 history, acts>>

----------------------------------------------------------------------------
(* The commands *)

Step(c, s) == processor' = [processor EXCEPT ![c].stage = s]
Done(c) == processor' = [processor EXCEPT ![c] = NoProcessor]
On(c, l) == on_level[c] # Nowhere /\ levels[on_level[c]] = LevelEntry(l, FALSE)

\* cmd_newlvl, to its file; the /goto at its end is Goto.
Newlvl(l) ==
  /\ cw[l] = None /\ Acts
  /\ cw' = [cw EXCEPT ![l] = Fresh] /\ want' = [want EXCEPT ![l] = Fresh] /\ made' = Fresh
  /\ raced' = (raced \/ mem[l] # None)
  /\ UNCHANGED <<backups, writing, memory, table, loader, processor, deleted>>

\* cmd_unload: the first entry of that name, a backup's too
UnloadCmd(l) ==
  /\ Entries(l) # {} /\ Acts
  /\ levels' = [levels EXCEPT ![Min(Entries(l))].force_unload = 1]
  /\ UNCHANGED <<cw, backups, writing, memory, on_level, summon_level_id, loader, processor,
                 history>>

Job(op, from, to, here, content) ==
  [op |-> op, from |-> from, to |-> to, stage |-> IF op = "restore" THEN "force" ELSE "direct",
   here |-> here, slot |-> 0, users |-> {}, content |-> content]

\* cmd_deletelvl, cmd_renamelvl, cmd_copylvl, cmd_restorelvl, to where they begin.  Who is in
\* a museum cannot delete what is loaded.
Command(c, op, from, to) ==
  /\ processor[c] = NoProcessor /\ Acts
  /\ IF op = "restore" THEN backups[from] # {} ELSE cw[from] # None
  /\ op \in {"rename", "copy"} => cw[to] = None
  /\ op = "delete" /\ on_level[c] # Nowhere => ~levels[on_level[c]].museum
  /\ \E b \in backups[from] \cup {None} :
       /\ (op = "restore") = (b # None)
       /\ processor' = [processor EXCEPT ![c] = Job(op, from, to, On(c, from), b)]
  /\ UNCHANGED <<cw, backups, writing, memory, table, loader, history>>

\* Who is to come back to the level in slot i when the command is through
Users(c, i) ==
  {u \in Client : on_level[u] = i /\ ~levels[i].museum /\ processor[c].op # "delete"}

ForceUnload(c, i) ==
  /\ levels' = [levels EXCEPT ![i].force_unload = IF processor[c].op = "delete" THEN 1 ELSE 2]
  /\ processor' = [processor EXCEPT ![c] =
                     [processor[c] EXCEPT !.stage = "wait", !.slot = i, !.users = Users(c, i)]]

\* wait_for_forced_unload, first part: the first entry of that name again
ForceAway(c) ==
  /\ processor[c].stage = "force"
  /\ IF Entries(processor[c].from) = {} THEN Step(c, "act") /\ UNCHANGED levels
     ELSE ForceUnload(c, Min(Entries(processor[c].from)))
  /\ UNCHANGED <<cw, backups, writing, memory, on_level, summon_level_id, loader, history, acts>>

\* Its second part
Wait(c) ==
  /\ processor[c].stage = "wait"
  /\ levels[processor[c].slot].force_unload = 0
  /\ Step(c, "act")
  /\ UNCHANGED <<cw, backups, writing, memory, table, loader, history, acts>>

\* If there is anybody to bring back
Return(c) == IF processor[c].users = {} THEN Done(c) ELSE Step(c, "open")

\* A command that fails at once is given to a process.  One that fails in the process is over,
\* once those it forced away are brought back, or summoned to the main level by /renamelvl.
Fail(c) ==
  LET j == processor[c] IN
  /\ IF j.stage \in {"direct", "undo"} THEN Step(c, "force")
     ELSE IF j.op = "rename" THEN Done(c) ELSE Return(c)
  /\ summon_level_id' =
       [u \in Client |-> IF j.op = "rename" /\ u \in j.users THEN Nowhere ELSE summon_level_id[u]]
  /\ UNCHANGED <<cw, backups, saving, memory, levels, on_level, loader, want, deleted, made, acts>>

\* As InMemory below, without looking at the table.
NotInMemory(c) == FALSE

\* Is the level in the table, by the name of it?  The copy of a level one is on needs not be
\* out of memory if it is saved, and the process of one who is does not look.
InMemory(c) ==
  LET j == processor[c] IN
  /\ Entries(j.from) # {}
  /\ ~(j.op = "copy" /\ j.here /\ (j.stage = "act" \/ ~dirty_save[j.from]))

Acting(c, op) == processor[c].op = op /\ processor[c].stage \in {"direct", "act"}

\* do_direct_delete; do_direct_rename; and what both refuse.  Renaming a file does not ask if
\* the other name is still free.
Delete(c) ==
  /\ Acting(c, "delete") /\ ~InMemory(c) /\ cw[processor[c].from] # None
  /\ LET l == processor[c].from IN
     /\ backups' = [backups EXCEPT ![l] = @ \cup {cw[l]}] /\ cw' = [cw EXCEPT ![l] = None]
     /\ deleted' = [deleted EXCEPT ![l] = @ \cup {want[l]}] /\ want' = [want EXCEPT ![l] = None]
     /\ raced' = (raced \/ (mem[l] # None /\ ~Live(l)))
  /\ Done(c)
  /\ UNCHANGED <<writing, memory, table, loader, made, acts>>

Rename(c) ==
  /\ Acting(c, "rename") /\ ~InMemory(c) /\ cw[processor[c].from] # None
  /\ LET l == processor[c].from t == processor[c].to IN
     /\ cw' = [cw EXCEPT ![l] = None, ![t] = cw[l]]
     /\ want' = [want EXCEPT ![l] = None, ![t] = want[l]]
     /\ raced' = (raced \/ (mem[l] # None /\ ~Live(l)) \/ mem[t] # None \/ cw[t] # None)
  /\ Return(c)
  /\ UNCHANGED <<backups, writing, memory, table, loader, deleted, made, acts>>

\* do_direct_copy and copy_backup_to_map, to where the copy is written, without a lock, to a
\* file that is named for the level it is to be; whether that is out of memory is not asked
\* (again).
Target(j) == IF j.op = "copy" THEN j.to ELSE j.from

Copy(c, content, next) ==
  /\ processor' = [processor EXCEPT ![c] =
                     [processor[c] EXCEPT !.content = content, !.stage = next]]
  /\ UNCHANGED <<cw, backups, saving, memory, table, loader, want, deleted, acts>>

Read(c) ==
  /\ Acting(c, "copy") /\ ~InMemory(c) /\ cw[processor[c].from] # None
  /\ WriteTmp(processor[c].to, cw[processor[c].from])
  /\ Copy(c, cw[processor[c].from], IF processor[c].stage = "direct" THEN "put" ELSE "putback")

Restore(c) ==
  /\ Acting(c, "restore")
  /\ WriteTmp(processor[c].from, processor[c].content)
  /\ Copy(c, processor[c].content, "putback")

\* The copy takes the place of the .cw ...
CopyPut(c) ==
  /\ processor[c].stage \in {"put", "putback"}
  /\ LET j == processor[c] t == Target(j) IN
     /\ PutTmp(t)
     /\ want' = [want EXCEPT ![t] = j.content]
     /\ raced' = (raced \/ mem[t] # None \/ (j.op = "copy" /\ cw[t] # None))
  /\ Return(c)
  /\ UNCHANGED <<backups, saving, memory, table, loader, deleted, made, acts>>

\* ... or does not, as there is none.
CopyFails(c) ==
  /\ processor[c].stage \in {"put", "putback"}
  /\ NoTmp(Target(processor[c]), processor[c].content)
  /\ Step(c, IF processor[c].stage = "put" THEN "undo" ELSE "undoback")
  /\ UNCHANGED <<backups, writing, memory, table, loader, history, acts>>

\* The file of that name is removed, whoever writes it.
Undo(c) ==
  /\ processor[c].stage \in {"undo", "undoback"}
  /\ LET t == Target(processor[c]) IN
     tmp' = [tmp EXCEPT ![t] = None] /\ raced' = (raced \/ tmp[t] # None)
  /\ Fail(c)

\* There is nothing to copy.
NoSource(c) ==
  /\ Acting(c, "copy") /\ ~InMemory(c) /\ cw[processor[c].from] = None
  /\ Step(c, IF processor[c].stage = "direct" THEN "undo" ELSE "undoback")
  /\ UNCHANGED <<cw, backups, writing, memory, table, loader, history, acts>>

Refused(c) ==
  /\ \/ \E op \in {"delete", "rename", "copy"} : Acting(c, op) /\ InMemory(c)
     \/ \E op \in {"delete", "rename"} : Acting(c, op) /\ cw[processor[c].from] = None
  /\ Fail(c) /\ UNCHANGED <<tmp, raced>>

Back(j) == IF j.op = "rename" THEN j.to ELSE j.from

\* return_users_to_level
ReturnOpen(c) ==
  /\ processor[c].stage = "open"
  /\ LET l == Back(processor[c]) IN
     IF cw[l] = None THEN Done(c) /\ UNCHANGED <<memory, made, raced>>
     ELSE Step(c, "register") /\ OpenFiles(l)
  /\ UNCHANGED <<cw, backups, writing, table, loader, want, deleted, acts>>

ReturnRegister(c) ==
  /\ processor[c].stage = "register"
  /\ LET j == processor[c] l == Back(j) IN
     /\ Register(l, FALSE)
     /\ summon_level_id' = [u \in Client |->
          IF u \in j.users THEN Place(l, FALSE, j.slot) ELSE summon_level_id[u]]
  /\ Done(c)
  /\ UNCHANGED <<cw, backups, writing, memory, on_level, loader, history, acts>>

AdminNext ==
  \/ \E c \in Client :
       \/ \E l \in Level, museum \in BOOLEAN : Goto(c, l, museum)
       \/ Load(c) \/ Summon(c) \/ CheckUserSummon(c) \/ Leave(c) \/ Edit(c)
       \/ \E l \in Level : Command(c, "delete", l, l) \/ Command(c, "restore", l, l)
       \/ \E l, t \in Level : l # t /\ (Command(c, "rename", l, t) \/ Command(c, "copy", l, t))
       \/ ForceAway(c) \/ Wait(c) \/ Delete(c) \/ Rename(c) \/ Read(c) \/ Restore(c) \/ CopyPut(c)
       \/ CopyFails(c) \/ Undo(c) \/ NoSource(c) \/ Refused(c) \/ ReturnOpen(c)
       \/ ReturnRegister(c)
  \/ \E i \in Slot : SaveOpen(i) \/ Unload(i)
  \/ \E bkp \in BOOLEAN : SavePut(bkp)
  \/ \E l \in Level : Newlvl(l) \/ UnloadCmd(l)

AdminSpec == AdminInit /\ [][AdminNext]_adminVars

----------------------------------------------------------------------------
(* Properties *)

\* A level has in it what the last command or edit put there, in memory if it is loaded, and
\* in its file if not; a deleted one is gone, and what it was is among its backups.  Except
\* when a process has opened the level since it was checked not to be in memory, or the other
\* name was taken in the meantime, for which nothing asks again; and what /restore puts under
\* a level that is still in memory, because it waited for a museum of it, is overwritten.  Nor
\* when two have the file open, or one removes it for the other, to which they write what is to
\* be the level's, which has one name for the saver, /restore and /copylvl; nor when somebody
\* edits a level that is being saved, of which LevelLife has more.
AsOrdered ==
  ~raced =>
    \A l \in Level :
      /\ Current(l) = want[l]
      /\ deleted[l] \subseteq backups[l]

----------------------------------------------------------------------------
(* What is needed to prove it: AdminIInv is inductive *)

\* A process works on levels, and restores a backup.
ProcessorInv ==
  \A c \in Client :
    LET j == processor[c] IN
    j.stage # "" =>
      j.from \in Level /\ j.to \in Level /\ (j.op = "restore" => j.content # None)

\* What is to be saved is in memory; what is not, is in the file.
SavedInv ==
  \A l \in Level :
    /\ dirty_save[l] => mem[l] # None
    /\ raced \/ dirty_save[l] \/ mem[l] \in {None, cw[l]}

\* What is being saved is a level that is to be saved.
Copying(c) == processor[c].stage \in {"put", "putback"}
SavingInv ==
  saving # Nowhere =>
    levels[saving].level # "" /\ ~levels[saving].museum /\ dirty_save[levels[saving].level]

\* Who writes a file is alone with it, and has in it what is to be the level's.
TmpInv ==
  raced
  \/ /\ saving # Nowhere => tmp[levels[saving].level] = mem[levels[saving].level]
     /\ \A c \in Client : Copying(c) =>
          LET t == Target(processor[c]) IN
          /\ processor[c].content # None /\ tmp[t] = processor[c].content
          /\ saving # Nowhere => levels[saving].level # t
          /\ \A d \in Client \ {c} : Copying(d) => Target(processor[d]) # t

AdminIInv == AdminTypeOK /\ ProcessorInv /\ SavedInv /\ SavingInv /\ TmpInv /\ AsOrdered
=============================================================================

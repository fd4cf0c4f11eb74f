------------------------------- MODULE Resize -------------------------------
(***************************************************************************)
(* /resizelvl.  A process forked for the command copies the blocks, row by *)
(* row, into a file laid out for the new size, renames it over the file of *)
(* the level, tells the new size in the properties everybody has mapped,   *)
(* and has the level unloaded and opened again.  The others have the old   *)
(* file mapped, and go on.                                                 *)
(*                                                                         *)
(* The width of the level changes, and its rows stay as many.  The steps   *)
(* of entering and of unloading are in LevelLife and LevelAdmin; here each *)
(* is one.                                                                 *)
(***************************************************************************)
EXTENDS Integers, FiniteSetsExt

CONSTANTS
  Client,
  Depth, MaxWidth,   \* how many rows there are, and how long they may be
  MaxEdits           \* a bound, for TLC

\* What the proofs need of the constants
ResizeConstants == Depth \in Nat \ {0} /\ MaxWidth \in Nat /\ MaxEdits \in Nat

Rows == 0 .. Depth - 1
Width == 1 .. MaxWidth
Cells(w) == (0 .. w - 1) \X Rows
Air == 0
NoFile == 0
File == 1 .. 3             \* more are never in use

VARIABLES
  cells_x, dirty_save,   \* the properties of the level
  file, data,   \* the file of blocks the name stands for; what is in each
  cw,           \* the map file: its width, and its blocks
  loaded, force_unload,  \* the entry of the level table
  mapped,       \* of each client: the file it has mapped, if it is on the level
  rpc, to, todo,         \* the resizer: the new width, and the cells to copy
  source, tmp, users_on, \* the file it has mapped, the new one, who is to return
  saver,        \* the file the saver has mapped
  want, late,   \* history: what should be in each cell, and what came late for it
  torn,         \* history: see AsResized
  edits

level == <<cells_x, dirty_save, file, data, cw, loaded, force_unload>>
resizer == <<rpc, to, todo, source, tmp, users_on>>
resizeHistory == <<want, late, torn>>
resizeVars == <<level, mapped, resizer, saver, resizeHistory, edits>>

\* World_Pack: the place of a cell in a file for maps of width w.
Pack(c, w) == c[2] * w + c[1]
Places(w) == 0 .. Depth * w - 1
Packed(w, f) == [i \in Places(w) |-> f[CHOOSE c \in Cells(w) : Pack(c, w) = i]]

Original(w) == [c \in Cells(w) |-> 1 + c[1] + MaxWidth * c[2]]
\* What there is in a file at the place of a cell.
At(blocks, c, w) == IF Pack(c, w) \in DOMAIN blocks THEN blocks[Pack(c, w)] ELSE Air

ResizeInit ==
  /\ cells_x \in Width
  /\ dirty_save = FALSE
  /\ file = 1 /\ data = [f \in File |-> IF f = 1 THEN Packed(cells_x, Original(cells_x)) ELSE <<>>]
  /\ cw = [w |-> cells_x, blocks |-> data[1]]
  /\ loaded = TRUE /\ force_unload = FALSE
  /\ mapped \in [Client -> {NoFile, 1}] /\ \E c \in Client : mapped[c] = 1
  /\ rpc = "no" /\ to \in Width \ {cells_x} /\ todo = {}
  /\ source = NoFile /\ tmp = NoFile /\ users_on = {}
  /\ saver = NoFile
  /\ want = Original(cells_x) /\ late = <<>>
  /\ torn = FALSE
  /\ edits = 0

PutCell(f, c, v) == [d \in DOMAIN f \cup {c} |-> IF d = c THEN v ELSE f[d]]
Over(f, g) == [d \in DOMAIN f |-> IF d \in DOMAIN g THEN g[d] ELSE f[d]]

-----------------------------------------------------------------------------
(* The clients.                                                            *)

\* update_block, by the size the properties tell, in the file c has mapped: it
\* has no such place, or it is that of another cell, if the size is not its own.
Edit(c, cell) ==
  /\ mapped[c] # NoFile /\ edits < MaxEdits
  /\ cell \in Cells(cells_x)
  /\ edits' = edits + 1
  /\ data' = IF Pack(cell, cells_x) \in DOMAIN data[mapped[c]]
             THEN [data EXCEPT ![mapped[c]][Pack(cell, cells_x)] = 10 + edits] ELSE data
  /\ dirty_save' = TRUE
  /\ \/ mapped[c] # file /\ UNCHANGED <<want, late>>
     \/ /\ mapped[c] = file
        /\ IF rpc \in {"copy", "rename"} /\ cell \notin todo
           THEN late' = PutCell(late, cell, 10 + edits) /\ want' = want
           ELSE want' = PutCell(want, cell, 10 + edits) /\ late' = late
  /\ UNCHANGED <<cells_x, file, cw, loaded, force_unload, mapped, resizer, saver, torn>>

\* check_this_user, and anybody may go.
LeaveLevel(c) ==
  /\ mapped[c] # NoFile
  /\ mapped' = [mapped EXCEPT ![c] = NoFile]
  /\ UNCHANGED <<level, resizer, saver, resizeHistory, edits>>

\* A file that has no name and that nobody has mapped.
FreeFile == Min(File \ ({file, saver, source, tmp} \cup {mapped[c] : c \in Client}))

\* open_level_files: the files, if they are there, or else those made from the map file.
Opened ==
  IF file # NoFile THEN UNCHANGED <<cells_x, file, data>>
  ELSE /\ cells_x' = cw.w
       /\ file' = FreeFile /\ data' = [data EXCEPT ![FreeFile] = cw.blocks]

\* Opened while the blocks are of one size, and the size in the properties another.
InBetween == rpc = "sizes" \/ (rpc = "killed" /\ torn)

Enter(c) ==
  /\ mapped[c] = NoFile
  /\ ~(loaded /\ force_unload)
  /\ Opened
  /\ mapped' = [mapped EXCEPT ![c] = file']
  /\ loaded' = TRUE
  /\ force_unload' = (loaded /\ force_unload)
  /\ torn' = (torn \/ InBetween)
  /\ UNCHANGED <<dirty_save, cw, resizer, saver, want, late, edits>>

-----------------------------------------------------------------------------
(* The saver.                                                              *)

SaverOpens ==
  /\ saver = NoFile /\ loaded
  /\ saver' = file
  /\ torn' = (torn \/ InBetween)
  /\ UNCHANGED <<level, mapped, resizer, want, late, edits>>

Save ==
  /\ saver # NoFile /\ dirty_save
  /\ cw' = [w |-> cells_x, blocks |-> [i \in Places(cells_x) |->
              IF i \in DOMAIN data[saver] THEN data[saver][i] ELSE Air]]
  /\ dirty_save' = FALSE
  /\ UNCHANGED <<cells_x, file, data, loaded, force_unload, mapped, resizer, saver,
                 resizeHistory, edits>>

\* It unloads a level that nobody is on, and that is as it was saved.
SaverCloses ==
  /\ saver # NoFile
  /\ saver' = NoFile
  /\ IF ~dirty_save /\ \A c \in Client : mapped[c] = NoFile
     THEN /\ loaded' = FALSE /\ force_unload' = FALSE /\ file' = NoFile
          /\ torn' = (torn \/ rpc \in {"copy", "rename", "sizes"})
     ELSE UNCHANGED <<loaded, force_unload, file, torn>>
  /\ UNCHANGED <<cells_x, dirty_save, data, cw, mapped, resizer, want, late, edits>>

-----------------------------------------------------------------------------
(* The resizer.                                                            *)

\* resize_current_level: the new file, zeroed.
Begin(c) ==
  /\ rpc = "no" /\ mapped[c] # NoFile /\ cells_x # to
  /\ rpc' = "copy"
  /\ todo' = Cells(cells_x) \cap Cells(to)
  /\ source' = mapped[c] /\ tmp' = FreeFile
  /\ data' = [data EXCEPT ![FreeFile] = [i \in Places(to) |-> Air]]
  /\ UNCHANGED <<cells_x, dirty_save, file, cw, loaded, force_unload, mapped, to, users_on, saver,
                 resizeHistory, edits>>

\* A mutation: the layout of the new file is that of the old.
SameLayout(cell) ==
  data' = [data EXCEPT ![tmp][Pack(cell, cells_x)] = data[source][Pack(cell, cells_x)]]

\* copyblocks, of the part that both maps have.
CopyBlock(cell) ==
  data' = [data EXCEPT ![tmp][Pack(cell, to)] = data[source][Pack(cell, cells_x)]]

Copy ==
  /\ rpc = "copy"
  /\ IF todo = {} THEN rpc' = "rename" /\ UNCHANGED <<data, todo>>
     ELSE \E cell \in todo :
       /\ \A other \in todo : Pack(cell, MaxWidth) <= Pack(other, MaxWidth)
       /\ CopyBlock(cell) /\ todo' = todo \ {cell} /\ rpc' = rpc
  /\ UNCHANGED <<cells_x, dirty_save, file, cw, loaded, force_unload, mapped, to, source, tmp,
                 users_on, saver, resizeHistory, edits>>

\* What came after its cell was copied stays in the old file.
Rename ==
  /\ rpc = "rename" /\ rpc' = "sizes"
  /\ file' = tmp
  /\ late' = <<>>
  /\ torn' = (torn \/ saver # NoFile)
  /\ UNCHANGED <<cells_x, dirty_save, data, cw, loaded, force_unload, mapped, to, todo, source,
                 tmp, users_on, saver, want, edits>>

RenameFails ==
  /\ rpc = "rename" /\ rpc' = "failed"
  /\ source' = NoFile /\ tmp' = NoFile
  /\ want' = Over(want, late) /\ late' = <<>>
  /\ UNCHANGED <<level, mapped, to, todo, users_on, saver, torn, edits>>

\* Mark the props as resized, under level_lock.
MarkProps ==
  /\ rpc = "sizes" /\ rpc' = "force"
  /\ cells_x' = to /\ dirty_save' = TRUE
  /\ want' = [c \in Cells(to) |-> IF c \in DOMAIN want THEN want[c] ELSE Air]
  /\ UNCHANGED <<file, data, cw, loaded, force_unload, mapped, to, todo, source, tmp, users_on,
                 saver, late, torn, edits>>

\* wait_for_forced_unload
ForceUnload ==
  /\ rpc = "force"
  /\ IF loaded
     THEN /\ force_unload' = TRUE /\ rpc' = "wait"
          /\ users_on' = {c \in Client : mapped[c] # NoFile}
          /\ source' = NoFile /\ tmp' = NoFile
     ELSE rpc' = "done" /\ UNCHANGED <<force_unload, users_on, source, tmp>>
  /\ UNCHANGED <<cells_x, dirty_save, file, data, cw, loaded, mapped, to, todo, saver,
                 resizeHistory,
                 edits>>

\* return_users_to_level, if there are any.
Return ==
  /\ rpc = "wait" /\ ~(loaded /\ force_unload)
  /\ rpc' = "done"
  /\ IF users_on = {} THEN UNCHANGED <<cells_x, file, data, loaded, mapped>>
     ELSE /\ Opened /\ loaded' = TRUE
          /\ mapped' = [c \in Client |-> IF c \in users_on THEN file' ELSE mapped[c]]
  /\ UNCHANGED <<dirty_save, cw, force_unload, to, todo, source, tmp, users_on, saver,
                 resizeHistory,
                 edits>>

\* It is killed.
Killed ==
  /\ rpc \in {"copy", "rename", "sizes", "force", "wait"}
  /\ rpc' = "killed"
  /\ source' = NoFile /\ tmp' = NoFile
  /\ want' = IF rpc \in {"copy", "rename"} THEN Over(want, late) ELSE want
  /\ late' = <<>>
  /\ torn' = (torn \/ rpc = "sizes")
  /\ UNCHANGED <<level, mapped, to, todo, users_on, saver, edits>>

ResizeNext ==
  \/ \E c \in Client : \/ LeaveLevel(c) \/ Enter(c) \/ Begin(c)
                       \/ \E cell \in Cells(MaxWidth) : Edit(c, cell)
  \/ SaverOpens \/ Save \/ SaverCloses
  \/ Copy \/ Rename \/ RenameFails \/ MarkProps \/ ForceUnload \/ Return \/ Killed

ResizeSpec == ResizeInit /\ [][ResizeNext]_resizeVars

-----------------------------------------------------------------------------
\* The level as the next to enter finds it.
FoundMap ==
  IF file # NoFile THEN [w |-> cells_x, blocks |-> data[file]] ELSE cw

\* Once the resizer is through, or has given up, or was killed, the level has one
\* size, with each block where it was and air in what is new; and all who are on it
\* have the same file, unless the resizer was killed before it had sent them off.
\* Not so if the saver had the level open when the file was renamed, if anybody
\* opened it, or the resizer was killed, between the renaming and the new size, or
\* if the level was unloaded first.  Blocks changed in the old file after they were
\* copied are lost (cmdresizelvl.c).
AsResized ==
  ~torn /\ rpc \notin {"copy", "rename", "sizes"} =>
    /\ DOMAIN want = Cells(FoundMap.w)
    /\ \A c \in DOMAIN want : At(FoundMap.blocks, c, FoundMap.w) = Over(want, late)[c]
    /\ rpc = "done" => FoundMap.w = to
    /\ rpc = "done" => \A c \in Client : mapped[c] \in {NoFile, file}

-----------------------------------------------------------------------------
(* What is needed to prove it: ResizeIInv is inductive *)

Copying == rpc \in {"copy", "rename"}
FileOrNone == File \cup {NoFile}

\* A file laid out for maps of width w, with f in it.
Holds(blocks, w, f) == DOMAIN blocks = Places(w) /\ \A c \in Cells(w) : blocks[Pack(c, w)] = f[c]

ResizeTypes ==
  /\ cells_x \in Width /\ to \in Width
  /\ dirty_save \in BOOLEAN /\ loaded \in BOOLEAN /\ force_unload \in BOOLEAN /\ torn = FALSE
  /\ file \in FileOrNone /\ DOMAIN data = File
  /\ mapped \in [Client -> FileOrNone] /\ saver \in FileOrNone
  /\ source \in FileOrNone /\ tmp \in FileOrNone
  /\ rpc \in {"no", "copy", "rename", "sizes", "force", "wait", "done", "failed", "killed"}
  /\ DOMAIN want = Cells(cells_x) /\ DOMAIN late \subseteq DOMAIN want
  /\ edits \in Nat

\* A level is loaded while it has files, and nobody has those of one that is not.
FilesInv ==
  /\ loaded <=> file # NoFile
  /\ file = NoFile => ~dirty_save /\ \A c \in Client : mapped[c] = NoFile
  /\ saver \in {NoFile, file}

\* Of the level's own file, and of what was saved of it
LevelInv ==
  rpc # "sizes" =>
    /\ file # NoFile => Holds(data[file], cells_x, Over(want, late))
    /\ ~dirty_save => cw.w = cells_x /\ Holds(cw.blocks, cells_x, Over(want, late))

\* Who has an old file mapped is to be put off.
MappedInv ==
  /\ rpc \in {"no", "copy", "rename", "failed", "done"} \/ (rpc = "wait" /\ ~(loaded /\ force_unload)) =>
       \A c \in Client : mapped[c] \in {NoFile, file}
  /\ rpc = "sizes" => \A c \in Client : mapped[c] # file

\* What is copied is in the new file, and no edit changes it.
CopyInv ==
  /\ Copying =>
       /\ file # NoFile /\ source = file /\ tmp \in File \ {file} /\ cells_x # to
       /\ todo \subseteq Cells(cells_x) \cap Cells(to)
       /\ \A c \in todo : c \notin DOMAIN late
       /\ Holds(data[tmp], to,
            [c \in Cells(to) |-> IF c \in Cells(cells_x) \ todo THEN want[c] ELSE Air])
  /\ rpc = "rename" => todo = {}
  /\ ~Copying => DOMAIN late = {}

\* The new file has its name, and the size is not told yet.
SizesInv ==
  /\ rpc = "sizes" =>
       /\ file # NoFile /\ saver = NoFile
       /\ Holds(data[file], to, [c \in Cells(to) |-> IF c \in Cells(cells_x) THEN want[c] ELSE Air])
  /\ rpc \in {"force", "wait", "done"} => cells_x = to
  /\ rpc = "no" => source = NoFile /\ tmp = NoFile

ResizeIInv ==
  ~torn => ResizeTypes /\ FilesInv /\ LevelInv /\ MappedInv /\ CopyInv /\ SizesInv
=============================================================================

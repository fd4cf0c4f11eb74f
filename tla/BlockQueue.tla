----------------------------- MODULE BlockQueue -----------------------------
(***************************************************************************)
(* The block update queue of one level (queue_block.c, shared.c): a ring   *)
(* in a file that every process with the level open maps into its memory.  *)
(* A writer appends under level_lock; every process keeps its own place    *)
(* (last_generation, last_id) and finds out by the generation whether the  *)
(* entries it has not sent yet were overwritten.  The ring can grow, be    *)
(* initialised again and be declared void (generation += 2) while readers  *)
(* stand anywhere in it.                                                   *)
(*                                                                         *)
(* An entry is abstracted to the number of the update it holds, 0 for      *)
(* memory no update was written to: which update is where is all that the  *)
(* queue can get wrong.  LevelView gives the updates their contents.       *)
(***************************************************************************)
EXTENDS Integers, FiniteSets

CONSTANTS
  Proc,         \* processes that may have the level open
  NoProc,       \* the holder of a free level_lock
  MinQueue,     \* MIN_QUEUE, 250 in the code
  StdQueue,     \* STD_QUEUE, 2048 in the code
  MaxLen,       \* bound: the longest ring
  Wanted,       \* lengths create_block_queue can compute from the map's size
  Totals,       \* values level_prop->total_blocks can have
  Batch,        \* entries sent by one send_queued_blocks, 1024 in the code
  ReloadDelay,  \* ticks before an overrun reader reloads, 100 in the code
  CrashInWrap,  \* may a process be killed between ++curr_offset and its reset
  MaxUpdates,   \* bound: updates made
  MaxGeneration \* bound: value of the generation

ASSUME ProcAssumption == NoProc \notin Proc
ASSUME LengthAssumption ==
  /\ MinQueue \in Nat \ {0}
  /\ StdQueue \in Nat
  /\ MaxLen \in Nat
  /\ MinQueue <= MaxLen
  /\ Wanted \subseteq MinQueue .. MaxLen
  /\ Totals \subseteq Nat
  /\ Totals # {}
ASSUME SendAssumption ==
  /\ Batch \in Nat \ {0}
  /\ ReloadDelay \in Nat \ {0}
ASSUME CrashAssumption == CrashInWrap \in BOOLEAN
ASSUME BoundAssumption ==
  /\ MaxUpdates \in Nat
  /\ MaxGeneration \in Nat

VARIABLES
  \* the queue file: struct block_queue_t
  generation, curr_offset, queue_len, last_queue_len, updates,
  \* the level's properties file
  total_blocks,
  \* level_lock: a robust mutex in a file of its own
  level_lock,
  \* per process: shdat.block_queue_mmap_count (0: queue not mapped), the
  \* statics of queue_block.c, and where the process is
  mmap_count, last_id, last_generation, reload_pending, pc, budget,
  \* history: updates made, the last one each process sent to its client, and
  \* the times the queue was declared void
  count, sent, voids

queueVars == <<generation, curr_offset, queue_len, last_queue_len, updates>>
readerVars == <<last_id, last_generation, reload_pending>>
histVars == <<count, sent, voids>>
vars == <<queueVars, total_blocks, level_lock, mmap_count, readerVars,
          pc, budget, histVars>>

Wild == 0
\* updates[1] in the struct makes the array one entry longer than queue_len.
Slots == 0 .. MaxLen
Locations == {"idle", "opened", "append", "wrap", "send"}

TypeOK ==
  /\ generation \in Nat
  /\ curr_offset \in Nat
  /\ queue_len \in Nat
  /\ last_queue_len \in Nat
  /\ updates \in [Slots -> Nat]
  /\ total_blocks \in Totals
  /\ level_lock \in Proc \cup {NoProc}
  /\ mmap_count \in [Proc -> Nat]
  /\ last_id \in [Proc -> Nat \cup {-1}]
  /\ last_generation \in [Proc -> Nat]
  /\ reload_pending \in [Proc -> Nat]
  /\ pc \in [Proc -> Locations]
  /\ budget \in [Proc -> 0 .. Batch]
  /\ count \in Nat
  /\ sent \in [Proc -> Nat]
  /\ voids \in Nat

Init ==
  /\ generation = 0
  /\ curr_offset = 0
  /\ queue_len = 0
  /\ last_queue_len = 0
  /\ updates = [i \in Slots |-> Wild]
  /\ total_blocks \in Totals
  /\ level_lock = NoProc
  /\ mmap_count = [p \in Proc |-> 0]
  /\ last_id = [p \in Proc |-> -1]
  /\ last_generation = [p \in Proc |-> 0]
  /\ reload_pending = [p \in Proc |-> 0]
  /\ pc = [p \in Proc |-> "idle"]
  /\ budget = [p \in Proc |-> 0]
  /\ count = 0
  /\ sent = [p \in Proc |-> Wild]
  /\ voids = 0

-----------------------------------------------------------------------------
(* The queue file: create_block_queue and check_block_queue.               *)

\* The file is new, damaged, or longer than the level has blocks.
Unusable ==
  \/ generation = 0
  \/ queue_len < MinQueue
  \/ curr_offset >= queue_len
  \/ queue_len > StdQueue /\ queue_len > total_blocks

\* p maps the queue, initialising it when it is unusable and making it longer
\* when this level's map is worth more than its length.  A failure to make it
\* longer falls back on the length it has, which is want = MinQueue.
CreateQueue(p, want) ==
  LET len  == IF Unusable THEN MinQueue ELSE queue_len
      longer == IF want > len THEN want ELSE len
  IN  /\ Unusable => generation + 2 <= MaxGeneration
      /\ generation' = IF Unusable THEN generation + 2 ELSE generation
      /\ curr_offset' = IF Unusable THEN 0 ELSE curr_offset
      /\ queue_len' = longer
      /\ last_queue_len' = IF Unusable THEN MinQueue
                           ELSE IF last_queue_len = 0 THEN longer
                           ELSE last_queue_len
      /\ mmap_count' = [mmap_count EXCEPT ![p] = longer]
      /\ UNCHANGED updates

\* mutant of CheckQueue: the queue is never mapped again.
CheckQueueNever(p) == UNCHANGED <<queueVars, mmap_count>>

\* Before it uses the queue p compares the length it has mapped with the
\* length the queue has now, and maps it again when it grew.
CheckQueue(p) ==
  \/ /\ mmap_count[p] >= queue_len
     /\ mmap_count' = [mmap_count EXCEPT ![p] = queue_len]
     /\ UNCHANGED queueVars
  \/ /\ mmap_count[p] < queue_len
     /\ \E want \in Wanted \cup {MinQueue} : CreateQueue(p, want)

HasQueue(p) == mmap_count[p] > 0
LockFree == level_lock = NoProc
Idle(p) == pc[p] = "idle"

-----------------------------------------------------------------------------
(* A process enters and leaves the level.                                  *)

\* open_level_files, under level_lock from before it maps the properties.
OpenLevel(p) ==
  /\ Idle(p)
  /\ ~HasQueue(p)
  /\ LockFree
  /\ \E want \in Wanted \cup {MinQueue} : CreateQueue(p, want)
  /\ last_id' = [last_id EXCEPT ![p] = -1]
  /\ last_generation' = [last_generation EXCEPT ![p] = 0]
  /\ pc' = [pc EXCEPT ![p] = "opened"]
  /\ UNCHANGED <<total_blocks, level_lock, reload_pending, budget, histVars>>

\* set_last_block_queue_id: p's place becomes the end of the queue.
SetLast(p) ==
  /\ LockFree
  /\ CheckQueue(p)
  /\ last_id' = [last_id EXCEPT ![p] = curr_offset']
  /\ last_generation' = [last_generation EXCEPT ![p] = generation']

\* send_map_file after entering the level: the map is sent from here on.
SendMapFile(p) ==
  /\ pc[p] = "opened"
  /\ SetLast(p)
  /\ pc' = [pc EXCEPT ![p] = "idle"]
  /\ UNCHANGED <<total_blocks, level_lock, reload_pending, budget, histVars>>

\* stop_shared: the process leaves the level but keeps its statics.
StopShared(p) ==
  /\ pc[p] \in {"idle", "opened"}
  /\ HasQueue(p)
  /\ mmap_count' = [mmap_count EXCEPT ![p] = 0]
  /\ pc' = [pc EXCEPT ![p] = "idle"]
  /\ UNCHANGED <<queueVars, total_blocks, level_lock, readerVars, budget,
                 histVars>>

\* The process ends anywhere, killed or not.  The robust mutex it held goes to
\* the next locker, which marks it consistent and repairs nothing.  Its place
\* is taken by a process that has not opened the level yet.
Die(p) ==
  /\ pc[p] = "wrap" => CrashInWrap
  /\ level_lock' = IF level_lock = p THEN NoProc ELSE level_lock
  /\ mmap_count' = [mmap_count EXCEPT ![p] = 0]
  /\ last_id' = [last_id EXCEPT ![p] = -1]
  /\ last_generation' = [last_generation EXCEPT ![p] = 0]
  /\ reload_pending' = [reload_pending EXCEPT ![p] = 0]
  /\ pc' = [pc EXCEPT ![p] = "idle"]
  /\ budget' = [budget EXCEPT ![p] = 0]
  /\ UNCHANGED <<queueVars, total_blocks, histVars>>

-----------------------------------------------------------------------------
(* Writing: send_update, and prelocked_update under the caller's lock.     *)

LockQueue(p) ==
  /\ Idle(p)
  /\ HasQueue(p)
  /\ LockFree
  /\ level_lock' = p
  /\ CheckQueue(p)
  /\ pc' = [pc EXCEPT ![p] = "append"]
  /\ UNCHANGED <<total_blocks, readerVars, budget, histVars>>

\* The entry is written and the offset advanced ...
PutUpdate(p) ==
  /\ pc[p] = "append"
  /\ count < MaxUpdates
  /\ updates' = [updates EXCEPT ![curr_offset] = count + 1]
  /\ curr_offset' = curr_offset + 1
  /\ count' = count + 1
  /\ pc' = [pc EXCEPT ![p] =
              IF curr_offset + 1 >= queue_len THEN "wrap" ELSE "append"]
  /\ UNCHANGED <<generation, queue_len, last_queue_len, total_blocks,
                 level_lock, mmap_count, readerVars, budget, sent, voids>>

\* ... and at the end of the ring a new generation begins at its start.
WrapQueue(p) ==
  /\ pc[p] = "wrap"
  /\ curr_offset' = 0
  /\ generation' = generation + 1
  /\ last_queue_len' = queue_len
  /\ pc' = [pc EXCEPT ![p] = "append"]
  /\ UNCHANGED <<queue_len, updates, total_blocks, level_lock, mmap_count,
                 readerVars, budget, histVars>>

\* One update by send_update, any number of them by a drawing command.
UnlockQueue(p) ==
  /\ pc[p] = "append"
  /\ level_lock' = NoProc
  /\ pc' = [pc EXCEPT ![p] = "idle"]
  /\ UNCHANGED <<queueVars, total_blocks, mmap_count, readerVars, budget,
                 histVars>>

-----------------------------------------------------------------------------
(* Declaring the queue void.                                               *)

\* /reload all: no lock is taken.
ReloadAll(p) ==
  /\ Idle(p)
  /\ HasQueue(p)
  /\ generation + 2 <= MaxGeneration
  /\ generation' = generation + 2
  /\ voids' = voids + 1
  /\ UNCHANGED <<curr_offset, queue_len, last_queue_len, updates,
                 total_blocks, level_lock, mmap_count, readerVars, pc, budget,
                 count, sent>>

\* The same when the unlocked generation += 2 of p overlaps the generation++ of
\* a writer q that wraps the ring: one of the two additions is lost.
ReloadAllRaced(p) ==
  /\ Idle(p)
  /\ HasQueue(p)
  /\ generation + 2 <= MaxGeneration
  /\ \E q \in Proc :
       /\ pc[q] = "wrap"
       /\ pc' = [pc EXCEPT ![q] = "append"]
  /\ curr_offset' = 0
  /\ generation' \in {generation + 1, generation + 2}
  /\ last_queue_len' = queue_len
  /\ voids' = voids + 1
  /\ UNCHANGED <<queue_len, updates, total_blocks, level_lock, mmap_count,
                 readerVars, budget, count, sent>>

\* resize_current_level, the step that publishes the new size.
ResizeLevel(p) ==
  /\ Idle(p)
  /\ HasQueue(p)
  /\ LockFree
  /\ generation + 2 <= MaxGeneration
  /\ generation' = generation + 2
  /\ total_blocks' \in Totals
  /\ voids' = voids + 1
  /\ UNCHANGED <<curr_offset, queue_len, last_queue_len, updates, level_lock,
                 mmap_count, readerVars, pc, budget, count, sent>>

-----------------------------------------------------------------------------
(* Reading: send_queued_blocks, called on every tick of the client.        *)

\* /reload by p: its next tick sends the map again.
ReloadRequest(p) ==
  /\ Idle(p)
  /\ HasQueue(p)
  /\ mmap_count[p] < queue_len => LockFree
  /\ CheckQueue(p)
  /\ reload_pending' = [reload_pending EXCEPT ![p] = 1]
  /\ UNCHANGED <<total_blocks, level_lock, last_id, last_generation, pc,
                 budget, histVars>>

\* A tick on the void map forgets the reload.
ReloadCancel(p) ==
  /\ Idle(p)
  /\ ~HasQueue(p)
  /\ reload_pending[p] > 0
  /\ reload_pending' = [reload_pending EXCEPT ![p] = 0]
  /\ UNCHANGED <<queueVars, total_blocks, level_lock, mmap_count, last_id,
                 last_generation, pc, budget, histVars>>

\* A tick of the countdown, faster while nothing is written: last_id is now
\* the offset at the last tick.  The offset is read without the lock.
ReloadCountdown(p) ==
  /\ Idle(p)
  /\ HasQueue(p)
  /\ reload_pending[p] > 1
  /\ reload_pending' = [reload_pending EXCEPT ![p] =
       IF @ > 7 /\ last_id[p] = curr_offset THEN @ - 6 ELSE @ - 1]
  /\ last_id' = [last_id EXCEPT ![p] = curr_offset]
  /\ UNCHANGED <<queueVars, total_blocks, level_lock, mmap_count,
                 last_generation, pc, budget, histVars>>

\* The countdown is over: the map is sent again from the end of the queue.
ReloadNow(p) ==
  /\ Idle(p)
  /\ HasQueue(p)
  /\ reload_pending[p] = 1
  /\ SetLast(p)
  /\ reload_pending' = [reload_pending EXCEPT ![p] = 0]
  /\ UNCHANGED <<total_blocks, level_lock, pc, budget, histVars>>

\* The tick of a reader with a place in the queue.  The comparison of the
\* lengths is not under the lock, and is made once for the whole batch.
SendStart(p) ==
  /\ Idle(p)
  /\ HasQueue(p)
  /\ reload_pending[p] = 0
  /\ last_id[p] >= 0
  /\ mmap_count[p] < queue_len => LockFree
  /\ CheckQueue(p)
  /\ pc' = [pc EXCEPT ![p] = "send"]
  /\ budget' = [budget EXCEPT ![p] = Batch]
  /\ UNCHANGED <<total_blocks, level_lock, readerVars, histVars>>

\* mutant of Overrun: a ring that grew since the last generation is trusted.
OverrunAnyLength(p) ==
  /\ last_generation[p] # generation
  /\ ~(last_generation[p] = generation - 1 /\ curr_offset < last_id[p])

\* mutant of Overrun: the reader's generation may be any older one.
OverrunAnyGeneration(p) ==
  /\ last_generation[p] # generation
  /\ ~(queue_len = last_queue_len /\ curr_offset < last_id[p])

\* mutant of Overrun: a reader a whole ring behind is not overrun.
OverrunFullRing(p) ==
  /\ last_generation[p] # generation
  /\ ~ /\ last_generation[p] = generation - 1
       /\ queue_len = last_queue_len
       /\ curr_offset <= last_id[p]

\* Entries that p has not sent may be gone.
Overrun(p) ==
  /\ last_generation[p] # generation
  /\ ~ /\ last_generation[p] = generation - 1
       /\ queue_len = last_queue_len
       /\ curr_offset < last_id[p]

SendOverrun(p) ==
  /\ pc[p] = "send"
  /\ LockFree
  /\ Overrun(p)
  /\ last_id' = [last_id EXCEPT ![p] = -1]
  /\ last_generation' = [last_generation EXCEPT ![p] = 0]
  /\ reload_pending' = [reload_pending EXCEPT ![p] = ReloadDelay]
  /\ pc' = [pc EXCEPT ![p] = "idle"]
  /\ budget' = [budget EXCEPT ![p] = 0]
  /\ UNCHANGED <<queueVars, total_blocks, level_lock, mmap_count, histVars>>

SendDone(p) ==
  /\ pc[p] = "send"
  /\ LockFree
  /\ ~Overrun(p)
  /\ last_id[p] = curr_offset
  /\ pc' = [pc EXCEPT ![p] = "idle"]
  /\ budget' = [budget EXCEPT ![p] = 0]
  /\ UNCHANGED <<queueVars, total_blocks, level_lock, mmap_count, readerVars,
                 histVars>>

\* What p can read at index i: beyond its mapping, anything.
Readable(p, i) ==
  IF i < mmap_count[p] THEN {updates[i]} ELSE {updates[i], Wild}

SendOne(p) ==
  /\ pc[p] = "send"
  /\ LockFree
  /\ ~Overrun(p)
  /\ last_id[p] # curr_offset
  /\ \E n \in Readable(p, last_id[p]) : sent' = [sent EXCEPT ![p] = n]
  /\ last_id' = [last_id EXCEPT ![p] = IF @ + 1 = queue_len THEN 0 ELSE @ + 1]
  /\ last_generation' = [last_generation EXCEPT ![p] =
                           IF last_id[p] + 1 = queue_len THEN @ + 1 ELSE @]
  /\ budget' = [budget EXCEPT ![p] = @ - 1]
  /\ pc' = [pc EXCEPT ![p] = IF budget[p] = 1 THEN "idle" ELSE "send"]
  /\ UNCHANGED <<queueVars, total_blocks, level_lock, mmap_count,
                 reload_pending, count, voids>>

-----------------------------------------------------------------------------
Write(p) == LockQueue(p) \/ PutUpdate(p) \/ WrapQueue(p) \/ UnlockQueue(p)
Send(p) == SendStart(p) \/ SendOverrun(p) \/ SendDone(p) \/ SendOne(p)
Reload(p) == ReloadCancel(p) \/ ReloadCountdown(p) \/ ReloadNow(p)
Enter(p) == OpenLevel(p) \/ SendMapFile(p)

Next ==
  \E p \in Proc :
    \/ Enter(p)
    \/ StopShared(p)
    \/ Die(p)
    \/ Write(p)
    \/ ReloadAll(p)
    \/ ReloadAllRaced(p)
    \/ ResizeLevel(p)
    \/ ReloadRequest(p)
    \/ Reload(p)
    \/ Send(p)

Spec == Init /\ [][Next]_vars

-----------------------------------------------------------------------------
(* Where a reader is in the log of all updates.                            *)

Joined(p) == HasQueue(p) /\ reload_pending[p] = 0 /\ last_id[p] >= 0

\* The number of the last update p is past; -1 when p has no place, or when
\* its place is lost and it has yet to find out.
Position(p) ==
  IF ~Joined(p) \/ Overrun(p) THEN -1
  ELSE IF last_generation[p] = generation
  THEN count - curr_offset + last_id[p]
  ELSE count - curr_offset - last_queue_len + last_id[p]

Positions == [p \in Proc |-> Position(p)]

\* Processes that would read beyond what they have mapped.
Short == {p \in Proc : mmap_count[p] < queue_len}

\* Until the queue file exists there is nothing to be short of.
Log == INSTANCE UpdateLog WITH position <- Positions, short <- Short

\* Every step of the queue is a step of the endless log or changes nothing in
\* it: a reader is sent each update after the one it joined at, once and in
\* order, until it is dropped, whatever the ring does under it.
ImplementsLog == Log!Spec

-----------------------------------------------------------------------------
(* What the ring keeps true; together with TypeOK it is inductive.         *)

\* level_lock is held exactly by the process inside a locked write.
LockInv == \A p \in Proc : pc[p] \in {"append", "wrap"} <=> level_lock = p

\* Offsets stay inside the ring, and the ring inside its file.  The offset is
\* at the end only while the writer that put it there holds the lock.
QueueInv ==
  /\ curr_offset <= count
  /\ generation = 0 => curr_offset = 0
  /\ generation > 0 =>
       /\ queue_len \in MinQueue .. MaxLen
       /\ last_queue_len \in 1 .. queue_len
       /\ curr_offset <= queue_len
       /\ curr_offset = queue_len <=> \E p \in Proc : pc[p] = "wrap"

\* A process uses the queue only where it mapped it: a writer's mapping is as
\* long as the queue, and one that sends has a place in it.
UserOK(p) ==
  /\ HasQueue(p) => generation > 0
  /\ pc[p] \in {"append", "wrap"} => HasQueue(p) /\ mmap_count[p] = queue_len
  /\ pc[p] = "opened" => HasQueue(p)
  /\ pc[p] = "send" => Joined(p) /\ budget[p] > 0
UserInv == \A p \in Proc : UserOK(p)

\* The entries of this generation are the latest updates, in order.
ContentInv ==
  \A i \in 0 .. curr_offset - 1 : updates[i] = count - curr_offset + i + 1

\* A reader one generation behind finds the tail of that generation still in
\* place above the offset, whatever was appended since.
ReaderOK(p) ==
  /\ last_generation[p] <= generation
  /\ last_generation[p] = generation =>
       last_id[p] <= curr_offset /\ last_id[p] < queue_len
  /\ last_generation[p] = generation - 1 =>
       /\ last_id[p] < last_queue_len
       /\ curr_offset + last_queue_len <= count
       /\ \A i \in curr_offset .. last_queue_len - 1 :
            updates[i] = count - curr_offset - last_queue_len + i + 1
ReaderInv == \A p \in Proc : Joined(p) => ReaderOK(p)

\* The inductive invariant: why what a reader finds at its place is the update
\* it is due.
IInv == TypeOK /\ LockInv /\ QueueInv /\ UserInv /\ ContentInv /\ ReaderInv

\* Declaring the queue void (/reload all, a resized level) leaves no reader
\* with a place in it, so every client is sent the whole map again: neither
\* one that was up to date nor one that was a generation behind and still over
\* intact entries.  (A step that moves the offset too is a /reload all that
\* raced with a writer; when its addition is the one lost, readers less than a
\* ring behind keep their place.)
VoidReachesAll ==
  [][voids' # voids /\ UNCHANGED curr_offset =>
       \A p \in Proc : Position(p)' = -1]_vars

-----------------------------------------------------------------------------
(* Progress.                                                               *)

\* A client that reads what it is sent has its ticks again and again, and a
\* process that waits for level_lock gets it when it is free again and again;
\* whoever holds it writes to memory only and goes on to release it.
Fairness == \A p \in Proc :
  /\ SF_vars(SendMapFile(p))
  /\ SF_vars(Reload(p))
  /\ SF_vars(Send(p))
  /\ WF_vars(WrapQueue(p) \/ UnlockQueue(p))

FairSpec == Spec /\ Fairness

\* Every process that has the level open is at the end of the log again and
\* again: an overrun, a void queue and a reload all end in a reader that is up
\* to date, and no reader waits forever.
CatchesUp == \A p \in Proc : []<>(~HasQueue(p) \/ Position(p) = count)
=============================================================================

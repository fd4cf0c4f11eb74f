----------------------------- MODULE ChatQueue -----------------------------
(***************************************************************************)
(* The chat queue (queue_chat.c, shared.c): one ring of fixed length for   *)
(* all processes of the server.  A message longer than an entry is queued  *)
(* in parts, under one hold of the lock; a reader takes one entry at a     *)
(* time, keeps the parts of what is for its client in queue_tmp_buf and    *)
(* posts them with the last.  A reader that is overrun skips what there is.*)
(*                                                                         *)
(* An entry is its number, which part of its message it is, how many parts *)
(* come after it (message_len says as much), and who is to see it.  A      *)
(* change of who that is between two parts is left out.                    *)
(***************************************************************************)
EXTENDS Integers, Sequences

CONSTANTS
  Proc,         \* processes of the server
  NoProc,       \* the holder of a free chat_queue_lock
  QueueLen,     \* CHAT_QUEUE_LEN, 256 in the code
  MaxParts,     \* bound: parts of a message, may be more than QueueLen
  CrashInWrap,  \* may a process be killed between ++curr_offset and its reset
  MaxCount,     \* bound: entries written
  MaxStarts     \* bound: times a process sets up the queue

ASSUME ChatAssumption ==
  /\ NoProc \notin Proc
  /\ {QueueLen, MaxParts} \subseteq Nat \ {0}
  /\ CrashInWrap \in BOOLEAN
  /\ {MaxCount, MaxStarts} \subseteq Nat

VARIABLES
  \* the queue file: struct chat_queue_t
  generation, curr_offset, updates,
  chat_queue_lock,
  \* per process: is the queue mapped, the statics of queue_chat.c, where the
  \* process is, and what it still has to queue
  mapped, last_id, last_generation, queue_tmp_buf, pc, todo,
  \* what counts for MaxStarts
  starts,
  \* history: entries written, the last one each process read, what the last
  \* message it posted was like, whether it has missed parts of the message in
  \* its buffer, and entries whose writer died before the next part
  count, sent, posted, torn, cut

queueVars == <<generation, curr_offset, updates>>
placeVars == <<last_id, last_generation>>
bufferVars == <<queue_tmp_buf, posted, torn>>
vars == <<queueVars, chat_queue_lock, mapped, placeVars, bufferVars, pc, todo, starts, count, sent, cut>>

\* One slot more than there are: where a death at the end of the ring leads.
Slots == 0 .. QueueLen
Entry == [n : Nat, part : 0 .. MaxParts, left : 0 .. MaxParts, to : SUBSET Proc]
NoEntry == [n |-> 0, part |-> 0, left |-> 0, to |-> {}]
Todo == [part : 1 .. MaxParts + 1, left : 0 .. MaxParts, to : SUBSET Proc]
NoTodo == [part |-> 1, left |-> 0, to |-> {}]

TypeOK ==
  /\ generation \in Nat
  /\ curr_offset \in 0 .. QueueLen
  /\ updates \in [Slots -> Entry]
  /\ chat_queue_lock \in Proc \cup {NoProc}
  /\ mapped \in [Proc -> BOOLEAN]
  /\ last_id \in [Proc -> -1 .. QueueLen]
  /\ last_generation \in [Proc -> Nat]
  /\ queue_tmp_buf \in [Proc -> Seq(Entry)]
  /\ pc \in [Proc -> {"idle", "create", "join", "lock", "append", "wrap", "skip"}]
  /\ todo \in [Proc -> Todo]
  /\ starts \in 0 .. MaxStarts
  /\ count \in 0 .. MaxCount
  /\ sent \in [Proc -> 0 .. MaxCount]
  /\ posted \in [Proc -> {"whole", "torn", "broken"}]
  /\ torn \in [Proc -> BOOLEAN]
  /\ cut \subseteq 1 .. MaxCount
  /\ \A p \in Proc : pc[p] \in {"append", "wrap"} <=> chat_queue_lock = p

Init ==
  /\ generation = 0
  /\ curr_offset = 0
  /\ updates = [i \in Slots |-> NoEntry]
  /\ chat_queue_lock = NoProc
  /\ mapped = [p \in Proc |-> FALSE]
  /\ last_id = [p \in Proc |-> -1]
  /\ last_generation = [p \in Proc |-> 0]
  /\ queue_tmp_buf = [p \in Proc |-> <<>>]
  /\ pc = [p \in Proc |-> "idle"]
  /\ todo = [p \in Proc |-> NoTodo]
  /\ starts = 0
  /\ count = 0
  /\ sent = [p \in Proc |-> 0]
  /\ posted = [p \in Proc |-> "whole"]
  /\ torn = [p \in Proc |-> FALSE]
  /\ cut = {}

LockFree == chat_queue_lock = NoProc
Go(p, where) == pc' = [pc EXCEPT ![p] = where]
SetPlace(p, id, gen) ==
  /\ last_id' = [last_id EXCEPT ![p] = id]
  /\ last_generation' = [last_generation EXCEPT ![p] = gen]
\* What p has in its buffer will not be continued.
Tear(p) == torn' = [torn EXCEPT ![p] = @ \/ queue_tmp_buf[p] # <<>>]

----------------------------------------------------------------------------
(* create_chat_queue, stop_chat_queue *)

Unusable == generation = 0 \/ curr_offset >= QueueLen

\* A process starts, or the queue cannot be used; it is set up unless it is
\* good as it is.
CreateQueue(p) ==
  /\ pc[p] = "create" \/ (pc[p] = "idle" /\ ~mapped[p])
  /\ LockFree
  /\ starts < MaxStarts
  /\ starts' = starts + 1
  /\ IF Unusable
     THEN generation' = 2 /\ curr_offset' = 0
     ELSE UNCHANGED <<generation, curr_offset>>
  /\ mapped' = [mapped EXCEPT ![p] = TRUE]
  /\ SetPlace(p, -1, 0)
  /\ Go(p, "join")
  /\ UNCHANGED <<updates, chat_queue_lock, bufferVars, todo, count, sent, cut>>

\* set_last_chat_queue_id, under a second hold of the lock; a process that has
\* come here to queue a message goes on with that.
JoinQueue(p) ==
  /\ pc[p] = "join"
  /\ LockFree
  /\ SetPlace(p, curr_offset, generation)
  /\ Tear(p)
  /\ Go(p, IF todo[p] = NoTodo THEN "idle" ELSE "lock")
  /\ UNCHANGED <<queueVars, chat_queue_lock, mapped, queue_tmp_buf, posted, todo, starts, count, sent, cut>>

\* The saver and the listener close the queue after each message.
StopQueue(p) ==
  /\ pc[p] = "idle"
  /\ mapped[p]
  /\ mapped' = [mapped EXCEPT ![p] = FALSE]
  /\ SetPlace(p, -1, 0)
  /\ UNCHANGED <<queueVars, chat_queue_lock, bufferVars, pc, todo, starts, count, sent, cut>>

\* A process ends; the robust mutex is handed on.  It may have parts left
\* to write, which nobody will.
Die(p) ==
  /\ pc[p] = "wrap" => CrashInWrap
  /\ chat_queue_lock' = IF chat_queue_lock = p THEN NoProc ELSE chat_queue_lock
  /\ mapped' = [mapped EXCEPT ![p] = FALSE]
  /\ SetPlace(p, -1, 0)
  /\ queue_tmp_buf' = [queue_tmp_buf EXCEPT ![p] = <<>>]
  /\ posted' = [posted EXCEPT ![p] = "whole"]
  /\ torn' = [torn EXCEPT ![p] = FALSE]
  /\ cut' = IF chat_queue_lock = p /\ todo[p].part > 1 /\ todo[p].left > 0
            THEN cut \cup {count} ELSE cut
  /\ Go(p, "idle")
  /\ todo' = [todo EXCEPT ![p] = NoTodo]
  /\ UNCHANGED <<queueVars, starts, count, sent>>

----------------------------------------------------------------------------
(* queue_chat *)

\* The offset is looked at before the lock is taken.
QueueChat(p, parts, to) ==
  /\ pc[p] = "idle"
  /\ count + parts <= MaxCount
  /\ todo' = [todo EXCEPT ![p] = [part |-> 1, left |-> parts, to |-> to]]
  /\ Go(p, IF ~mapped[p] \/ curr_offset >= QueueLen THEN "create" ELSE "lock")
  /\ UNCHANGED <<queueVars, chat_queue_lock, mapped, placeVars, bufferVars, starts, count, sent, cut>>

LockQueue(p) ==
  /\ pc[p] = "lock"
  /\ LockFree
  /\ chat_queue_lock' = p
  /\ Go(p, "append")
  /\ UNCHANGED <<queueVars, mapped, placeVars, bufferVars, todo, starts, count, sent, cut>>

\* As PutPart, had the end of the ring been one entry further.
PutPartLater(p) ==
  /\ pc[p] = "append"
  /\ todo[p].left > 0
  /\ count < MaxCount
  /\ updates' = [updates EXCEPT ![curr_offset] =
       [n |-> count + 1, part |-> todo[p].part, left |-> todo[p].left - 1, to |-> todo[p].to]]
  /\ curr_offset' = curr_offset + 1
  /\ count' = count + 1
  /\ todo' = [todo EXCEPT ![p].part = @ + 1, ![p].left = @ - 1]
  /\ Go(p, IF curr_offset' > QueueLen THEN "wrap" ELSE "append")
  /\ UNCHANGED <<generation, chat_queue_lock, mapped, placeVars, bufferVars, starts, sent, cut>>

\* One part after the other is written ...
PutPart(p) ==
  /\ pc[p] = "append"
  /\ todo[p].left > 0
  /\ count < MaxCount
  /\ updates' = [updates EXCEPT ![curr_offset] =
       [n |-> count + 1, part |-> todo[p].part, left |-> todo[p].left - 1, to |-> todo[p].to]]
  /\ curr_offset' = curr_offset + 1
  /\ count' = count + 1
  /\ todo' = [todo EXCEPT ![p].part = @ + 1, ![p].left = @ - 1]
  /\ Go(p, IF curr_offset' >= QueueLen THEN "wrap" ELSE "append")
  /\ UNCHANGED <<generation, chat_queue_lock, mapped, placeVars, bufferVars, starts, sent, cut>>

\* As WrapQueue, had the ring been turned without saying so.
WrapSilently(p) ==
  /\ pc[p] = "wrap"
  /\ curr_offset' = 0
  /\ Go(p, "append")
  /\ UNCHANGED <<generation, updates, chat_queue_lock, mapped, placeVars, bufferVars, todo, starts, count, sent, cut>>

\* ... at the end of the ring a new generation begins ...
WrapQueue(p) ==
  /\ pc[p] = "wrap"
  /\ curr_offset' = 0
  /\ generation' = generation + 1
  /\ Go(p, "append")
  /\ UNCHANGED <<updates, chat_queue_lock, mapped, placeVars, bufferVars, todo, starts, count, sent, cut>>

\* ... and the lock is given up after the last.
UnlockQueue(p) ==
  /\ pc[p] = "append"
  /\ todo[p].left = 0
  /\ chat_queue_lock' = NoProc
  /\ todo' = [todo EXCEPT ![p] = NoTodo]
  /\ Go(p, "idle")
  /\ UNCHANGED <<queueVars, mapped, placeVars, bufferVars, starts, count, sent, cut>>

----------------------------------------------------------------------------
(* send_queued_chats *)

\* The entries after the reader's place have been written over.  In the code
\* this, and what follows, is one round of a loop.
Overrun(p) ==
  /\ last_generation[p] # generation
  /\ ~(last_generation[p] = generation - 1 /\ curr_offset < last_id[p])

\* Skip everything: the lock is given up, and taken again to find the end.
SendOverrun(p) ==
  /\ pc[p] = "idle"
  /\ last_id[p] >= 0
  /\ LockFree
  /\ Overrun(p)
  /\ Go(p, "skip")
  /\ UNCHANGED <<queueVars, chat_queue_lock, mapped, placeVars, bufferVars, todo, starts, count, sent, cut>>

SkipAll(p) ==
  /\ pc[p] = "skip"
  /\ LockFree
  /\ SetPlace(p, curr_offset, generation)
  /\ Tear(p)
  /\ Go(p, "idle")
  /\ UNCHANGED <<queueVars, chat_queue_lock, mapped, queue_tmp_buf, posted, todo, starts, count, sent, cut>>

\* What is posted: all the parts of one message; the rest of a message that was
\* missed in part, before something else; or neither.
Whole(s) ==
  /\ s[1].part = 1
  /\ s[Len(s)].left = 0
  /\ \A i \in DOMAIN s : s[i].n = s[1].n + i - 1

Judge(p, s) ==
  IF Whole(s) THEN "whole"
  ELSE IF torn[p] \/ \E i \in DOMAIN s : s[i].n \in cut THEN "torn"
  ELSE "broken"

\* As PostChat, had a last part been posted without a look at the buffer.
PostPart(p, upd) ==
  IF p \notin upd.to
  THEN UNCHANGED bufferVars
  ELSE LET all == Append(queue_tmp_buf[p], upd)
       IN IF upd.left = 0
          THEN /\ posted' = [posted EXCEPT ![p] = Judge(p, <<upd>>)]
               /\ queue_tmp_buf' = [queue_tmp_buf EXCEPT ![p] = <<>>]
               /\ torn' = [torn EXCEPT ![p] = FALSE]
          ELSE /\ queue_tmp_buf' = [queue_tmp_buf EXCEPT ![p] = all]
               /\ UNCHANGED <<posted, torn>>

\* An entry for others is passed over; a part is kept, the last one posted.
PostChat(p, upd) ==
  IF p \notin upd.to
  THEN UNCHANGED bufferVars
  ELSE LET all == Append(queue_tmp_buf[p], upd)
       IN IF upd.left = 0
          THEN /\ posted' = [posted EXCEPT ![p] = Judge(p, all)]
               /\ queue_tmp_buf' = [queue_tmp_buf EXCEPT ![p] = <<>>]
               /\ torn' = [torn EXCEPT ![p] = FALSE]
          ELSE /\ queue_tmp_buf' = [queue_tmp_buf EXCEPT ![p] = all]
               /\ UNCHANGED <<posted, torn>>

SendOne(p) ==
  /\ pc[p] = "idle"
  /\ last_id[p] >= 0
  /\ LockFree
  /\ ~Overrun(p)
  /\ last_id[p] # curr_offset
  /\ LET upd == updates[last_id[p]]
         next == last_id[p] + 1
     IN /\ IF next = QueueLen
           THEN SetPlace(p, 0, last_generation[p] + 1)
           ELSE SetPlace(p, next, last_generation[p])
        /\ sent' = [sent EXCEPT ![p] = upd.n]
        /\ PostChat(p, upd)
  /\ UNCHANGED <<queueVars, chat_queue_lock, mapped, pc, todo, starts, count, cut>>

\* At the bound there is nothing more to write.
Rest == count = MaxCount /\ UNCHANGED vars

Next ==
  \/ Rest
  \/ \E p \in Proc :
       \/ CreateQueue(p) \/ JoinQueue(p) \/ StopQueue(p) \/ Die(p)
       \/ \E parts \in 1 .. MaxParts, to \in {Proc} \cup {{q} : q \in Proc \ {p}} : QueueChat(p, parts, to)
       \/ LockQueue(p) \/ PutPart(p) \/ WrapQueue(p) \/ UnlockQueue(p)
       \/ SendOverrun(p) \/ SkipAll(p) \/ SendOne(p)

Spec == Init /\ [][Next]_vars

----------------------------------------------------------------------------
(* Properties *)

\* A reader has a place in the ring, and what is after it is still there.
Placed(p) ==
  last_id[p] >= 0 /\ pc[p] \notin {"skip", "create", "join"} /\ ~Overrun(p)

Behind(p) ==
  IF last_generation[p] = generation THEN curr_offset - last_id[p]
  ELSE curr_offset + QueueLen - last_id[p]

\* Where a reader stands in the endless log of entries.
Position(p) == IF Placed(p) THEN count - Behind(p) ELSE -1

Positions == [p \in Proc |-> Position(p)]

Log == INSTANCE UpdateLog WITH position <- Positions, short <- {}

\* The ring is the endless log: each reader reads every entry after its place
\* once and in order, until it skips to the end (send_queued_chats, queue_chat,
\* create_chat_queue).
ImplementsLog == Log!Spec

\* What is posted is one message, all of it and nothing else, as queue_chat has
\* queued it, whatever was queued for others and however the ring turned in
\* between (send_queued_chats); excepted is what is posted first after parts were
\* missed, and messages whose writer died.
WholeMessages == \A p \in Proc : posted[p] # "broken"

----------------------------------------------------------------------------
(* The inductive invariant, for CrashInWrap = FALSE *)

\* The queue exists once somebody has mapped it, and is full only on the way
\* around.
QueueInv ==
  /\ generation = 0 =>
       count = 0 /\ curr_offset = 0 /\ \A p \in Proc : ~mapped[p]
  /\ generation # 0 => generation >= 2
  /\ curr_offset <= count
  /\ generation > 2 => curr_offset + QueueLen <= count
  /\ curr_offset = QueueLen <=> \E p \in Proc : pc[p] = "wrap"

WriterInv == \A p \in Proc :
  /\ pc[p] \in {"join", "lock", "append", "wrap", "skip"} => mapped[p]
  /\ pc[p] \notin {"append", "wrap"} => todo[p].part = 1
  /\ todo[p].part + todo[p].left <= MaxParts + 1

ReaderInv == \A p \in Proc : last_id[p] >= 0 =>
  /\ mapped[p]
  /\ last_id[p] < QueueLen
  /\ last_generation[p] \in 2 .. generation
  /\ last_generation[p] = generation => last_id[p] <= curr_offset

\* The ring holds the last entries of the log, each at its offset.
ContentInv ==
  /\ \A i \in Slots : updates[i].n <= count
  /\ generation > 0 => \A i \in 0 .. QueueLen - 1 :
       /\ i < curr_offset => updates[i].n = count - curr_offset + i + 1
       /\ i >= curr_offset /\ generation > 2
          => updates[i].n = count - curr_offset - QueueLen + i + 1
  /\ cut \subseteq 1 .. count

\* After a part that is not the last comes more for the same, unless its writer
\* died; after anything else comes the start of a message.
Follows(a, b) ==
  IF a.left > 0 /\ a.n \notin cut THEN b.to = a.to ELSE b.part = 1

LogInv == \A i, j \in Slots :
  updates[i].n > 0 /\ updates[j].n = updates[i].n + 1
  => Follows(updates[i], updates[j])

MidMessage(p) == chat_queue_lock = p /\ todo[p].part > 1

\* The last entry says what is to come.
TailInv == count > 0 => \A i \in Slots : updates[i].n = count =>
  /\ \A p \in Proc : MidMessage(p) =>
       /\ count \notin cut
       /\ updates[i].left = todo[p].left
       /\ updates[i].to = todo[p].to
  /\ (\A p \in Proc : ~MidMessage(p)) => updates[i].left = 0 \/ count \in cut

\* Nobody has read all of a message that is being written.
MidInv == \A p \in Proc : MidMessage(p) =>
  count > 0 /\ \A q \in Proc : Placed(q) => Behind(q) > 0

\* Nothing in p's buffer was missed or will be.
Intact(p) ==
  /\ ~torn[p]
  /\ \A i \in DOMAIN queue_tmp_buf[p] : queue_tmp_buf[p][i].n \notin cut

\* An intact buffer is the start of a message for p, and the entry at p's place
\* goes on with it.
BufferOK(p) == queue_tmp_buf[p] # <<>> /\ Intact(p) =>
  LET s == queue_tmp_buf[p]
  IN /\ s[1].part = 1
     /\ \A i \in DOMAIN s : s[i].n = s[1].n + i - 1
     /\ Placed(p) => /\ Position(p) = s[Len(s)].n
                     /\ Behind(p) > 0
                     /\ p \in updates[last_id[p]].to

\* With an empty buffer, what p comes to is the start of a message or not for p.
NextOK(p) == Placed(p) /\ Behind(p) > 0 /\ queue_tmp_buf[p] = <<>> =>
  updates[last_id[p]].part = 1 \/ p \notin updates[last_id[p]].to

BufferInv == \A p \in Proc : BufferOK(p) /\ NextOK(p)

IInv ==
  /\ TypeOK /\ WholeMessages
  /\ QueueInv /\ WriterInv /\ ReaderInv /\ ContentInv
  /\ LogInv /\ TailInv /\ MidInv /\ BufferInv
=============================================================================

-------------------------- MODULE ChatQueueProofs --------------------------
(***************************************************************************)
(* Proofs about ChatQueue for every set of processes, every length of the  *)
(* ring and every message, also one with more parts than the ring has      *)
(* entries: IInv is an invariant, what is posted is whole messages, and    *)
(* the ring implements the endless log of UpdateLog.  All are about        *)
(* CrashInWrap = FALSE, no process dying between ++curr_offset and the     *)
(* reset of the offset.                                                    *)
(***************************************************************************)
EXTENDS ChatQueue, TLAPS

USE ChatAssumption DEF LockFree, Go, SetPlace, Tear, Slots, queueVars,
  placeVars, bufferVars

\* Before anybody has set up the queue the invariant holds.
LEMMA InitInv == Init => IInv
<1> SUFFICES ASSUME Init
             PROVE  IInv
  OBVIOUS
<1>1. TypeOK
  <2>1. updates \in [Slots -> Entry] /\ NoEntry \in Entry
    BY DEF Init, NoEntry, Entry
  <2>2. todo \in [Proc -> Todo]
    BY DEF Init, NoTodo, Todo
  <2>3. queue_tmp_buf \in [Proc -> Seq(Entry)]
    BY DEF Init
  <2>4. /\ generation \in Nat
        /\ curr_offset \in 0 .. QueueLen
        /\ chat_queue_lock \in Proc \cup {NoProc}
        /\ mapped \in [Proc -> BOOLEAN]
        /\ last_id \in [Proc -> -1 .. QueueLen]
        /\ last_generation \in [Proc -> Nat]
    BY DEF Init
  <2>5. /\ pc \in [Proc -> {"idle", "create", "join", "lock", "append", "wrap", "skip"}]
        /\ starts \in 0 .. MaxStarts
        /\ count \in 0 .. MaxCount
        /\ sent \in [Proc -> 0 .. MaxCount]
        /\ posted \in [Proc -> {"whole", "torn", "broken"}]
        /\ torn \in [Proc -> BOOLEAN]
        /\ cut \subseteq 1 .. MaxCount
    BY DEF Init
  <2>6. \A p \in Proc : pc[p] \in {"append", "wrap"} <=> chat_queue_lock = p
    BY DEF Init
  <2>7. QED
    BY <2>1, <2>2, <2>3, <2>4, <2>5, <2>6 DEF TypeOK
<1>2. WholeMessages /\ QueueInv
  BY DEF Init, WholeMessages, QueueInv
<1>3. WriterInv /\ ReaderInv
  BY DEF Init, WriterInv, ReaderInv, NoTodo
<1>4. ContentInv /\ LogInv
  BY DEF Init, ContentInv, LogInv, NoEntry
<1>5. TailInv /\ MidInv
  BY DEF Init, TailInv, MidInv, MidMessage
<1>6. BufferInv
  <2>1. \A p \in Proc : last_id[p] = -1 /\ queue_tmp_buf[p] = <<>>
    BY DEF Init
  <2>2. ASSUME NEW p \in Proc
        PROVE  ~Placed(p)
    <3>1. last_id[p] = -1
      BY <2>1
    <3>2. QED
      BY <3>1 DEF Placed
  <2>3. QED
    BY <2>1, <2>2 DEF BufferInv, BufferOK, NextOK
<1>7. QED
  BY <1>1, <1>2, <1>3, <1>4, <1>5, <1>6 DEF IInv

\* While nobody holds chat_queue_lock the offset is in the ring and no message is
\* half written.
LEMMA Unlocked ==
  ASSUME IInv, LockFree
  PROVE  /\ curr_offset < QueueLen
         /\ \A q \in Proc : pc[q] \notin {"append", "wrap"} /\ ~MidMessage(q)
<1>1. \A q \in Proc : pc[q] \notin {"append", "wrap"}
  BY DEF IInv, TypeOK
<1>2. curr_offset # QueueLen /\ curr_offset \in 0 .. QueueLen
  BY <1>1 DEF IInv, TypeOK, QueueInv
<1>3. QED
  BY <1>1, <1>2 DEF MidMessage

\* Who has the queue mapped has one that was set up.
LEMMA MappedQueue ==
  ASSUME IInv, NEW q \in Proc, mapped[q]
  PROVE  generation \in Nat /\ generation >= 2
BY DEF IInv, TypeOK, QueueInv

\* With the ring as it was, a reader that does not move stands where it stood.
LEMMA StillPlaced ==
  ASSUME UNCHANGED queueVars, NEW q \in Proc,
         last_id'[q] = last_id[q], last_generation'[q] = last_generation[q]
  PROVE  /\ Behind(q)' = Behind(q)
         /\ Overrun(q)' = Overrun(q)
BY DEF Behind, Overrun

\* A step that begins no message and moves no reader up to the writer keeps MidInv.
LEMMA StillMid ==
  ASSUME IInv, UNCHANGED count,
         \A q \in Proc : MidMessage(q)' => MidMessage(q),
         \A q \in Proc : Placed(q)' => Placed(q) /\ Behind(q)' = Behind(q)
  PROVE  MidInv'
BY DEF IInv, MidInv

\* With the ring as it was, the buffer of a reader that stays, leaves, or comes to
\* the end with nothing in its buffer is as the invariant has it.
LEMMA StillRead ==
  ASSUME IInv, UNCHANGED <<queueVars, count>>, cut \subseteq cut', NEW q \in Proc,
         \/ queue_tmp_buf'[q] = <<>> /\ ~Placed(q)'
         \/ /\ queue_tmp_buf'[q] = queue_tmp_buf[q]
            /\ \/ ~Placed(q)' /\ torn'[q] = torn[q]
               \/ /\ Placed(q) /\ torn'[q] = torn[q]
                  /\ last_id'[q] = last_id[q]
                  /\ last_generation'[q] = last_generation[q]
               \/ Behind(q)' = 0 /\ (torn'[q] \/ queue_tmp_buf[q] = <<>>)
  PROVE  BufferOK(q)' /\ NextOK(q)'
<1>1. BufferOK(q) /\ NextOK(q)
  BY DEF IInv, BufferInv
<1>2. CASE queue_tmp_buf'[q] = <<>> /\ ~Placed(q)'
  BY <1>2 DEF BufferOK, NextOK
<1>3. CASE /\ queue_tmp_buf'[q] = queue_tmp_buf[q]
           /\ Behind(q)' = 0 /\ (torn'[q] \/ queue_tmp_buf[q] = <<>>)
  BY <1>3 DEF BufferOK, NextOK, Intact
<1>4. CASE queue_tmp_buf'[q] = queue_tmp_buf[q] /\ torn'[q] = torn[q]
  <2>1. Intact(q)' => Intact(q)
    BY <1>4 DEF Intact
  <2>2. CASE ~Placed(q)'
    BY <1>1, <1>4, <2>1, <2>2 DEF BufferOK, NextOK
  <2>3. CASE Placed(q) /\ last_id'[q] = last_id[q] /\ last_generation'[q] = last_generation[q]
    <3>1. Behind(q)' = Behind(q)
      BY <2>3 DEF Behind
    <3>2. Placed(q)' => Position(q)' = Position(q)
      BY <2>3, <3>1 DEF Position
    <3>3. updates'[last_id'[q]] = updates[last_id[q]]
      BY <2>3
    <3>4. BufferOK(q)'
      BY <1>1, <1>4, <2>1, <2>3, <3>1, <3>2, <3>3 DEF BufferOK
    <3>5. NextOK(q)'
      BY <1>1, <1>4, <2>3, <3>1, <3>3 DEF NextOK
    <3>6. QED
      BY <3>4, <3>5
  <2>4. QED
    BY <1>3, <1>4, <2>2, <2>3
<1>5. QED
  BY <1>2, <1>3, <1>4

\* create_chat_queue keeps the invariant: under the lock the queue is void only
\* when nobody has it.
LEMMA CreateQueueKeeps ==
  ASSUME IInv, ~CrashInWrap, NEW p \in Proc, CreateQueue(p)
  PROVE  IInv'
<1>0. /\ \/ /\ generation = 0 /\ count = 0 /\ curr_offset = 0
            /\ generation' = 2 /\ curr_offset' = 0
            /\ \A q \in Proc : ~mapped[q]
         \/ generation >= 2 /\ generation' = generation /\ curr_offset' = curr_offset
      /\ generation \in Nat /\ curr_offset \in 0 .. QueueLen - 1
  <2>1. generation \in Nat /\ curr_offset \in 0 .. QueueLen
    BY DEF IInv, TypeOK
  <2>2. CASE generation = 0
    BY <2>1, <2>2, Unlocked DEF IInv, QueueInv, CreateQueue, Unusable
  <2>3. CASE generation # 0
    BY <2>1, <2>3, Unlocked DEF IInv, QueueInv, CreateQueue, Unusable
  <2>4. QED
    BY <2>2, <2>3
<1>1. TypeOK'
  <2>1. /\ generation' \in Nat /\ curr_offset' \in 0 .. QueueLen
        /\ updates' \in [Slots -> Entry]
        /\ chat_queue_lock' \in Proc \cup {NoProc}
        /\ starts' \in 0 .. MaxStarts /\ count' \in 0 .. MaxCount
    <3>1. generation' \in Nat /\ curr_offset' \in 0 .. QueueLen
      BY <1>0
    <3>2. QED
      BY <3>1 DEF IInv, TypeOK, CreateQueue
  <2>2. /\ last_id' \in [Proc -> -1 .. QueueLen]
        /\ last_generation' \in [Proc -> Nat]
    BY <1>0, Unlocked DEF IInv, TypeOK, CreateQueue
  <2>3. /\ mapped' \in [Proc -> BOOLEAN]
        /\ queue_tmp_buf' \in [Proc -> Seq(Entry)]
        /\ posted' \in [Proc -> {"whole", "torn", "broken"}]
        /\ torn' \in [Proc -> BOOLEAN]
    BY <1>0, Unlocked DEF IInv, TypeOK, CreateQueue
  <2>4. /\ pc' \in [Proc -> {"idle", "create", "join", "lock", "append", "wrap", "skip"}]
        /\ sent' \in [Proc -> 0 .. MaxCount]
    BY <1>0, Unlocked DEF IInv, TypeOK, CreateQueue
  <2>5. todo' \in [Proc -> Todo]
    BY <1>0, Unlocked DEF IInv, TypeOK, CreateQueue, Todo, NoTodo
  <2>6. cut' \subseteq 1 .. MaxCount
    BY <1>0, Unlocked DEF IInv, TypeOK, MidInv, MidMessage, CreateQueue
  <2>7. \A q \in Proc : pc'[q] \in {"append", "wrap"} <=> chat_queue_lock' = q
    BY <1>0, Unlocked DEF IInv, TypeOK, CreateQueue
  <2>8. QED
    BY <2>1, <2>2, <2>3, <2>4, <2>5, <2>6, <2>7 DEF TypeOK
<1>2. QueueInv'
  <2>1. /\ generation' = 0 =>
             count' = 0 /\ curr_offset' = 0 /\ \A q \in Proc : ~mapped'[q]
        /\ generation' # 0 => generation' >= 2
        /\ curr_offset' <= count'
        /\ generation' > 2 => curr_offset' + QueueLen <= count'
    BY <1>0 DEF IInv, TypeOK, QueueInv, CreateQueue
  <2>2. curr_offset' = QueueLen <=> \E q \in Proc : pc'[q] = "wrap"
    BY <1>0, Unlocked DEF IInv, TypeOK, CreateQueue
  <2>3. QED
    BY <2>1, <2>2 DEF QueueInv
<1>3. WriterInv'
  BY <1>0, Unlocked DEF IInv, TypeOK, QueueInv, WriterInv, ReaderInv, CreateQueue, Todo, NoTodo
<1>4. ReaderInv'
  <2> SUFFICES ASSUME NEW q \in Proc, last_id'[q] >= 0
               PROVE  /\ mapped'[q]
                      /\ last_id'[q] < QueueLen
                      /\ last_generation'[q] \in 2 .. generation'
                      /\ last_generation'[q] = generation' => last_id'[q] <= curr_offset'
    BY DEF ReaderInv
  <2>1. q # p
    <3>1. last_id'[p] = -1
      BY DEF IInv, TypeOK, CreateQueue
    <3>2. QED
      BY <3>1
  <2>2. last_id'[q] = last_id[q] /\ last_generation'[q] = last_generation[q]
        /\ mapped'[q] = mapped[q]
    BY <2>1 DEF IInv, TypeOK, CreateQueue
  <2>3. QED
    BY <1>0, <2>1, <2>2 DEF IInv, ReaderInv
<1>5. ContentInv'
  <2>1. \A i \in Slots : updates[i].n \in Nat
    BY DEF IInv, TypeOK, Entry
  <2>2. CASE generation = 0
    BY <1>0, <2>1, <2>2 DEF IInv, ContentInv, CreateQueue
  <2>3. CASE generation # 0
    BY <1>0, <2>3 DEF IInv, ContentInv, CreateQueue
  <2>4. QED
    BY <2>2, <2>3
<1>6. LogInv'
  BY <1>0, Unlocked DEF IInv, TypeOK, ContentInv, LogInv, Follows, Entry, CreateQueue
<1>7. TailInv'
  BY <1>0, Unlocked DEF IInv, TypeOK, TailInv, WriterInv, MidMessage, CreateQueue, Todo, NoTodo
<1>8. MidInv'
  BY <1>0, Unlocked DEF IInv, TypeOK, MidInv, WriterInv, MidMessage, Placed, Overrun, Behind, CreateQueue, NoTodo
<1>9. BufferInv'
  <2> SUFFICES ASSUME NEW q \in Proc
               PROVE  BufferOK(q)' /\ NextOK(q)'
    BY DEF BufferInv
  <2>1. queue_tmp_buf'[q] = queue_tmp_buf[q] /\ torn'[q] = torn[q]
        /\ UNCHANGED count /\ cut' = cut
    BY DEF CreateQueue
  <2>2. CASE ~Placed(q)'
    <3>1. BufferOK(q)'
      BY <2>1, <2>2 DEF IInv, BufferInv, BufferOK, Intact, CreateQueue
    <3>2. QED
      BY <2>2, <3>1 DEF NextOK
  <2>3. CASE Placed(q)'
    <3>1. last_id'[q] >= 0 /\ pc'[q] # "join"
      BY <2>3 DEF Placed
    <3>2. q # p
      BY <3>1 DEF IInv, TypeOK, CreateQueue
    <3>3. last_id'[q] = last_id[q] /\ last_generation'[q] = last_generation[q]
          /\ pc'[q] = pc[q]
      BY <3>2 DEF IInv, TypeOK, CreateQueue
    <3>4. mapped[q]
      BY <3>1, <3>3 DEF IInv, ReaderInv
    <3>5. UNCHANGED queueVars
      BY <1>0, <3>4 DEF CreateQueue
    <3>6. Placed(q)
      BY <2>3, <3>3, <3>5, StillPlaced DEF Placed
    <3>7. QED
      BY <2>1, <3>3, <3>5, <3>6, StillRead
  <2>4. QED
    BY <2>2, <2>3
<1>10. WholeMessages'
  BY DEF IInv, TypeOK, WholeMessages, CreateQueue
<1>11. QED
  BY <1>1, <1>2, <1>3, <1>4, <1>5, <1>6, <1>7, <1>8, <1>9, <1>10 DEF IInv

\* set_last_chat_queue_id keeps the invariant: the new place is the end, and what
\* was in the buffer counts as torn.
LEMMA JoinQueueKeeps ==
  ASSUME IInv, ~CrashInWrap, NEW p \in Proc, JoinQueue(p)
  PROVE  IInv'
<1>1. TypeOK'
  <2>1. /\ generation' \in Nat /\ curr_offset' \in 0 .. QueueLen
        /\ updates' \in [Slots -> Entry]
        /\ chat_queue_lock' \in Proc \cup {NoProc}
        /\ starts' \in 0 .. MaxStarts /\ count' \in 0 .. MaxCount
    BY Unlocked DEF IInv, TypeOK, JoinQueue
  <2>2. /\ last_id' \in [Proc -> -1 .. QueueLen]
        /\ last_generation' \in [Proc -> Nat]
    BY Unlocked DEF IInv, TypeOK, JoinQueue
  <2>3. /\ mapped' \in [Proc -> BOOLEAN]
        /\ queue_tmp_buf' \in [Proc -> Seq(Entry)]
        /\ posted' \in [Proc -> {"whole", "torn", "broken"}]
        /\ torn' \in [Proc -> BOOLEAN]
    BY Unlocked DEF IInv, TypeOK, JoinQueue
  <2>4. /\ pc' \in [Proc -> {"idle", "create", "join", "lock", "append", "wrap", "skip"}]
        /\ sent' \in [Proc -> 0 .. MaxCount]
    BY Unlocked DEF IInv, TypeOK, JoinQueue
  <2>5. todo' \in [Proc -> Todo]
    BY Unlocked DEF IInv, TypeOK, JoinQueue, Todo, NoTodo
  <2>6. cut' \subseteq 1 .. MaxCount
    BY Unlocked DEF IInv, TypeOK, MidInv, MidMessage, JoinQueue
  <2>7. \A q \in Proc : pc'[q] \in {"append", "wrap"} <=> chat_queue_lock' = q
    BY Unlocked DEF IInv, TypeOK, JoinQueue
  <2>8. QED
    BY <2>1, <2>2, <2>3, <2>4, <2>5, <2>6, <2>7 DEF TypeOK
<1>2. QueueInv'
  BY Unlocked DEF IInv, TypeOK, QueueInv, WriterInv, JoinQueue
<1>3. WriterInv'
  BY Unlocked DEF IInv, TypeOK, QueueInv, WriterInv, ReaderInv, JoinQueue, Todo, NoTodo
<1>4. ReaderInv'
  <2> SUFFICES ASSUME NEW q \in Proc, last_id'[q] >= 0
               PROVE  /\ mapped'[q]
                      /\ last_id'[q] < QueueLen
                      /\ last_generation'[q] \in 2 .. generation'
                      /\ last_generation'[q] = generation' => last_id'[q] <= curr_offset'
    BY DEF ReaderInv
  <2>1. CASE q # p
    BY <2>1 DEF IInv, TypeOK, ReaderInv, JoinQueue
  <2>2. CASE q = p
    <3>1. mapped[p]
      BY DEF IInv, WriterInv, JoinQueue
    <3>2. generation \in Nat /\ generation >= 2
      BY <3>1, MappedQueue
    <3>3. last_id'[p] = curr_offset /\ last_generation'[p] = generation
      BY DEF IInv, TypeOK, JoinQueue
    <3>4. mapped'[p] /\ generation' = generation /\ curr_offset' = curr_offset
      BY <3>1 DEF JoinQueue
    <3>5. curr_offset \in Nat /\ curr_offset < QueueLen
      <4>1. curr_offset < QueueLen
        BY Unlocked DEF JoinQueue
      <4>2. QED
        BY <4>1 DEF IInv, TypeOK
    <3>6. QED
      BY <2>2, <3>2, <3>3, <3>4, <3>5
  <2>3. QED
    BY <2>1, <2>2
<1>5. ContentInv'
  BY Unlocked DEF IInv, TypeOK, QueueInv, ContentInv, MidInv, MidMessage, JoinQueue
<1>6. LogInv'
  BY Unlocked DEF IInv, TypeOK, ContentInv, LogInv, Follows, Entry, JoinQueue
<1>7. TailInv'
  BY Unlocked DEF IInv, TypeOK, TailInv, WriterInv, MidMessage, JoinQueue, Todo, NoTodo
<1>8. MidInv'
  BY Unlocked DEF IInv, TypeOK, MidInv, WriterInv, MidMessage, Placed, Overrun, Behind, JoinQueue, NoTodo
<1>9. BufferInv'
  <2> SUFFICES ASSUME NEW q \in Proc
               PROVE  BufferOK(q)' /\ NextOK(q)'
    BY DEF BufferInv
  <2>1. UNCHANGED <<queueVars, count>> /\ cut' = cut
        /\ queue_tmp_buf'[q] = queue_tmp_buf[q]
    BY DEF JoinQueue
  <2>2. CASE q = p
    <3>1. last_id'[p] = curr_offset /\ last_generation'[p] = generation
          /\ curr_offset \in Nat
      BY DEF IInv, TypeOK, JoinQueue
    <3>2. Behind(p)' = 0
      BY <2>1, <3>1 DEF Behind
    <3>3. torn'[p] \/ queue_tmp_buf[p] = <<>>
      BY DEF IInv, TypeOK, JoinQueue
    <3>4. QED
      BY <2>1, <2>2, <3>2, <3>3, StillRead
  <2>3. CASE q # p
    <3>1. last_id'[q] = last_id[q] /\ last_generation'[q] = last_generation[q]
          /\ pc'[q] = pc[q] /\ torn'[q] = torn[q]
      BY <2>3 DEF IInv, TypeOK, JoinQueue
    <3>2. Placed(q)' => Placed(q)
      BY <2>1, <3>1, StillPlaced DEF Placed
    <3>3. QED
      BY <2>1, <3>1, <3>2, StillRead
  <2>4. QED
    BY <2>2, <2>3
<1>10. WholeMessages'
  BY DEF IInv, TypeOK, WholeMessages, JoinQueue
<1>11. QED
  BY <1>1, <1>2, <1>3, <1>4, <1>5, <1>6, <1>7, <1>8, <1>9, <1>10 DEF IInv

\* stop_chat_queue keeps the invariant.
LEMMA StopQueueKeeps ==
  ASSUME IInv, ~CrashInWrap, NEW p \in Proc, StopQueue(p)
  PROVE  IInv'
<1>1. TypeOK'
  <2>1. /\ generation' \in Nat /\ curr_offset' \in 0 .. QueueLen
        /\ updates' \in [Slots -> Entry]
        /\ chat_queue_lock' \in Proc \cup {NoProc}
        /\ starts' \in 0 .. MaxStarts /\ count' \in 0 .. MaxCount
    BY DEF IInv, TypeOK, StopQueue
  <2>2. /\ last_id' \in [Proc -> -1 .. QueueLen]
        /\ last_generation' \in [Proc -> Nat]
    BY DEF IInv, TypeOK, StopQueue
  <2>3. /\ mapped' \in [Proc -> BOOLEAN]
        /\ queue_tmp_buf' \in [Proc -> Seq(Entry)]
        /\ posted' \in [Proc -> {"whole", "torn", "broken"}]
        /\ torn' \in [Proc -> BOOLEAN]
    BY DEF IInv, TypeOK, StopQueue
  <2>4. /\ pc' \in [Proc -> {"idle", "create", "join", "lock", "append", "wrap", "skip"}]
        /\ sent' \in [Proc -> 0 .. MaxCount]
    BY DEF IInv, TypeOK, StopQueue
  <2>5. todo' \in [Proc -> Todo]
    BY DEF IInv, TypeOK, StopQueue, Todo, NoTodo
  <2>6. cut' \subseteq 1 .. MaxCount
    BY DEF IInv, TypeOK, MidInv, MidMessage, StopQueue
  <2>7. \A q \in Proc : pc'[q] \in {"append", "wrap"} <=> chat_queue_lock' = q
    BY DEF IInv, TypeOK, StopQueue
  <2>8. QED
    BY <2>1, <2>2, <2>3, <2>4, <2>5, <2>6, <2>7 DEF TypeOK
<1>2. QueueInv'
  BY DEF IInv, TypeOK, QueueInv, WriterInv, StopQueue
<1>3. WriterInv'
  BY DEF IInv, TypeOK, QueueInv, WriterInv, ReaderInv, StopQueue, Todo, NoTodo
<1>4. ReaderInv'
  BY DEF IInv, TypeOK, QueueInv, WriterInv, ReaderInv, StopQueue
<1>5. ContentInv'
  BY DEF IInv, TypeOK, QueueInv, ContentInv, MidInv, MidMessage, StopQueue
<1>6. LogInv'
  BY DEF IInv, TypeOK, ContentInv, LogInv, Follows, Entry, StopQueue
<1>7. TailInv'
  BY DEF IInv, TypeOK, TailInv, WriterInv, MidMessage, StopQueue, Todo, NoTodo
<1>8. MidInv'
  <2>1. ASSUME NEW q \in Proc, Placed(q)'
        PROVE  Placed(q) /\ Behind(q)' = Behind(q)
    <3>1. q # p
      BY <2>1 DEF IInv, TypeOK, Placed, StopQueue
    <3>2. last_id'[q] = last_id[q] /\ last_generation'[q] = last_generation[q]
          /\ pc'[q] = pc[q] /\ UNCHANGED queueVars
      BY <3>1 DEF IInv, TypeOK, StopQueue
    <3>3. QED
      BY <2>1, <3>2, StillPlaced DEF Placed
  <2>2. \A q \in Proc : MidMessage(q)' => MidMessage(q)
    BY DEF IInv, TypeOK, MidMessage, NoTodo, StopQueue
  <2>3. QED
    BY <2>1, <2>2, StillMid DEF StopQueue
<1>9. BufferInv'
  <2> SUFFICES ASSUME NEW q \in Proc
               PROVE  BufferOK(q)' /\ NextOK(q)'
    BY DEF BufferInv
  <2>1. UNCHANGED <<queueVars, count>> /\ cut \subseteq cut'
    BY DEF StopQueue
  <2>2. CASE q = p
    <3>1. ~Placed(p)'
      BY DEF IInv, TypeOK, Placed, StopQueue
    <3>2. \/ queue_tmp_buf'[p] = <<>>
          \/ queue_tmp_buf'[p] = queue_tmp_buf[p] /\ torn'[p] = torn[p]
      BY DEF IInv, TypeOK, StopQueue
    <3>3. QED
      BY <2>1, <2>2, <3>1, <3>2, StillRead
  <2>3. CASE q # p
    <3>1. last_id'[q] = last_id[q] /\ last_generation'[q] = last_generation[q]
          /\ pc'[q] = pc[q] /\ torn'[q] = torn[q]
          /\ queue_tmp_buf'[q] = queue_tmp_buf[q]
      BY <2>3 DEF IInv, TypeOK, StopQueue
    <3>2. Placed(q)' => Placed(q)
      BY <2>1, <3>1, StillPlaced DEF Placed
    <3>3. QED
      BY <2>1, <3>1, <3>2, StillRead
  <2>4. QED
    BY <2>2, <2>3
<1>10. WholeMessages'
  BY DEF IInv, TypeOK, WholeMessages, StopQueue
<1>11. QED
  BY <1>1, <1>2, <1>3, <1>4, <1>5, <1>6, <1>7, <1>8, <1>9, <1>10 DEF IInv

\* The death of a process keeps the invariant: a message it leaves half written is
\* cut at the last entry.
LEMMA DieKeeps ==
  ASSUME IInv, ~CrashInWrap, NEW p \in Proc, Die(p)
  PROVE  IInv'
<1>1. TypeOK'
  <2>1. /\ generation' \in Nat /\ curr_offset' \in 0 .. QueueLen
        /\ updates' \in [Slots -> Entry]
        /\ chat_queue_lock' \in Proc \cup {NoProc}
        /\ starts' \in 0 .. MaxStarts /\ count' \in 0 .. MaxCount
    BY DEF IInv, TypeOK, Die
  <2>2. /\ last_id' \in [Proc -> -1 .. QueueLen]
        /\ last_generation' \in [Proc -> Nat]
    BY DEF IInv, TypeOK, Die
  <2>3. /\ mapped' \in [Proc -> BOOLEAN]
        /\ queue_tmp_buf' \in [Proc -> Seq(Entry)]
        /\ posted' \in [Proc -> {"whole", "torn", "broken"}]
        /\ torn' \in [Proc -> BOOLEAN]
    BY DEF IInv, TypeOK, Die
  <2>4. /\ pc' \in [Proc -> {"idle", "create", "join", "lock", "append", "wrap", "skip"}]
        /\ sent' \in [Proc -> 0 .. MaxCount]
    BY DEF IInv, TypeOK, Die
  <2>5. todo' \in [Proc -> Todo]
    BY DEF IInv, TypeOK, Die, Todo, NoTodo
  <2>6. cut' \subseteq 1 .. MaxCount
    BY DEF IInv, TypeOK, MidInv, MidMessage, Die
  <2>7. \A q \in Proc : pc'[q] \in {"append", "wrap"} <=> chat_queue_lock' = q
    BY DEF IInv, TypeOK, Die
  <2>8. QED
    BY <2>1, <2>2, <2>3, <2>4, <2>5, <2>6, <2>7 DEF TypeOK
<1>2. QueueInv'
  BY DEF IInv, TypeOK, QueueInv, WriterInv, Die
<1>3. WriterInv'
  <2> SUFFICES ASSUME NEW q \in Proc
               PROVE  /\ pc'[q] \in {"join", "lock", "append", "wrap", "skip"} => mapped'[q]
                      /\ pc'[q] \notin {"append", "wrap"} => todo'[q].part = 1
                      /\ todo'[q].part + todo'[q].left <= MaxParts + 1
    BY DEF WriterInv
  <2>1. CASE q = p
    <3>1. pc'[p] = "idle" /\ todo'[p].part = 1 /\ todo'[p].left = 0
      BY DEF IInv, TypeOK, NoTodo, Die
    <3>2. QED
      BY <2>1, <3>1
  <2>2. CASE q # p
    BY <2>2 DEF IInv, TypeOK, WriterInv, Die
  <2>3. QED
    BY <2>1, <2>2
<1>4. ReaderInv'
  BY DEF IInv, TypeOK, QueueInv, WriterInv, ReaderInv, Die
<1>5. ContentInv'
  BY DEF IInv, TypeOK, QueueInv, ContentInv, MidInv, MidMessage, Die
<1>6. LogInv'
  <2> SUFFICES ASSUME NEW i \in Slots, NEW j \in Slots,
                      updates[i].n > 0, updates[j].n = updates[i].n + 1
               PROVE  Follows(updates[i], updates[j])'
    BY DEF LogInv, Die
  <2>1. updates[i].n \in Nat /\ updates[j].n <= count /\ count \in Nat
    <3>1. updates[i] \in Entry
      BY DEF IInv, TypeOK
    <3>2. updates[i].n \in Nat
      BY <3>1 DEF Entry
    <3>3. updates[j].n <= count
      BY DEF IInv, ContentInv
    <3>4. QED
      BY <3>2, <3>3 DEF IInv, TypeOK
  <2>2. updates[i].n # count
    BY <2>1
  <2>3. updates[i].n \in cut' <=> updates[i].n \in cut
    BY <2>2 DEF Die
  <2>4. Follows(updates[i], updates[j])
    BY DEF IInv, LogInv
  <2>5. QED
    BY <2>3, <2>4 DEF Follows, Die
<1>7. TailInv'
  <2> SUFFICES ASSUME count > 0, NEW i \in Slots, updates[i].n = count
               PROVE  /\ \A q \in Proc : MidMessage(q)' =>
                           /\ count \notin cut'
                           /\ updates[i].left = todo'[q].left
                           /\ updates[i].to = todo'[q].to
                      /\ \/ \E q \in Proc : MidMessage(q)'
                         \/ updates[i].left = 0 \/ count \in cut'
    BY DEF TailInv, Die
  <2>1. /\ \A q \in Proc : MidMessage(q) =>
             /\ count \notin cut
             /\ updates[i].left = todo[q].left
             /\ updates[i].to = todo[q].to
        /\ (\A q \in Proc : ~MidMessage(q)) => updates[i].left = 0 \/ count \in cut
    BY DEF IInv, TailInv
  <2>2. CASE MidMessage(p)
    <3>1. chat_queue_lock' = NoProc
      BY <2>2 DEF MidMessage, Die
    <3>2. \A q \in Proc : ~MidMessage(q)'
      BY <3>1 DEF MidMessage
    <3>3. todo[p].left \in Nat
      BY DEF IInv, TypeOK, Todo
    <3>4. updates[i].left = 0 \/ count \in cut'
      BY <2>1, <2>2, <3>3 DEF MidMessage, Die
    <3>5. QED
      BY <3>2, <3>4
  <2>3. CASE ~MidMessage(p)
    <3>1. cut' = cut /\ ~MidMessage(p)'
      BY <2>3 DEF MidMessage, Die
    <3>2. ASSUME NEW q \in Proc, q # p
          PROVE  todo'[q] = todo[q] /\ (MidMessage(q)' <=> MidMessage(q))
      BY <3>2 DEF IInv, TypeOK, MidMessage, Die
    <3>3. QED
      BY <2>1, <2>3, <3>1, <3>2
  <2>4. QED
    BY <2>2, <2>3
<1>8. MidInv'
  <2>1. ASSUME NEW q \in Proc, Placed(q)'
        PROVE  Placed(q) /\ Behind(q)' = Behind(q)
    <3>1. q # p
      BY <2>1 DEF IInv, TypeOK, Placed, Die
    <3>2. last_id'[q] = last_id[q] /\ last_generation'[q] = last_generation[q]
          /\ pc'[q] = pc[q] /\ UNCHANGED queueVars
      BY <3>1 DEF IInv, TypeOK, Die
    <3>3. QED
      BY <2>1, <3>2, StillPlaced DEF Placed
  <2>2. \A q \in Proc : MidMessage(q)' => MidMessage(q)
    BY DEF IInv, TypeOK, MidMessage, NoTodo, Die
  <2>3. QED
    BY <2>1, <2>2, StillMid DEF Die
<1>9. BufferInv'
  <2> SUFFICES ASSUME NEW q \in Proc
               PROVE  BufferOK(q)' /\ NextOK(q)'
    BY DEF BufferInv
  <2>1. UNCHANGED <<queueVars, count>> /\ cut \subseteq cut'
    BY DEF Die
  <2>2. CASE q = p
    <3>1. ~Placed(p)'
      BY DEF IInv, TypeOK, Placed, Die
    <3>2. \/ queue_tmp_buf'[p] = <<>>
          \/ queue_tmp_buf'[p] = queue_tmp_buf[p] /\ torn'[p] = torn[p]
      BY DEF IInv, TypeOK, Die
    <3>3. QED
      BY <2>1, <2>2, <3>1, <3>2, StillRead
  <2>3. CASE q # p
    <3>1. last_id'[q] = last_id[q] /\ last_generation'[q] = last_generation[q]
          /\ pc'[q] = pc[q] /\ torn'[q] = torn[q]
          /\ queue_tmp_buf'[q] = queue_tmp_buf[q]
      BY <2>3 DEF IInv, TypeOK, Die
    <3>2. Placed(q)' => Placed(q)
      BY <2>1, <3>1, StillPlaced DEF Placed
    <3>3. QED
      BY <2>1, <3>1, <3>2, StillRead
  <2>4. QED
    BY <2>2, <2>3
<1>10. WholeMessages'
  BY DEF IInv, TypeOK, WholeMessages, Die
<1>11. QED
  BY <1>1, <1>2, <1>3, <1>4, <1>5, <1>6, <1>7, <1>8, <1>9, <1>10 DEF IInv

\* Taking chat_queue_lock keeps the invariant: no part is written yet.
LEMMA LockQueueKeeps ==
  ASSUME IInv, ~CrashInWrap, NEW p \in Proc, LockQueue(p)
  PROVE  IInv'
<1>1. TypeOK'
  <2>1. /\ generation' \in Nat /\ curr_offset' \in 0 .. QueueLen
        /\ updates' \in [Slots -> Entry]
        /\ chat_queue_lock' \in Proc \cup {NoProc}
        /\ starts' \in 0 .. MaxStarts /\ count' \in 0 .. MaxCount
    BY Unlocked DEF IInv, TypeOK, LockQueue
  <2>2. /\ last_id' \in [Proc -> -1 .. QueueLen]
        /\ last_generation' \in [Proc -> Nat]
    BY Unlocked DEF IInv, TypeOK, LockQueue
  <2>3. /\ mapped' \in [Proc -> BOOLEAN]
        /\ queue_tmp_buf' \in [Proc -> Seq(Entry)]
        /\ posted' \in [Proc -> {"whole", "torn", "broken"}]
        /\ torn' \in [Proc -> BOOLEAN]
    BY Unlocked DEF IInv, TypeOK, LockQueue
  <2>4. /\ pc' \in [Proc -> {"idle", "create", "join", "lock", "append", "wrap", "skip"}]
        /\ sent' \in [Proc -> 0 .. MaxCount]
    BY Unlocked DEF IInv, TypeOK, LockQueue
  <2>5. todo' \in [Proc -> Todo]
    BY Unlocked DEF IInv, TypeOK, LockQueue, Todo, NoTodo
  <2>6. cut' \subseteq 1 .. MaxCount
    BY Unlocked DEF IInv, TypeOK, MidInv, MidMessage, LockQueue
  <2>7. \A q \in Proc : pc'[q] \in {"append", "wrap"} <=> chat_queue_lock' = q
    BY Unlocked DEF IInv, TypeOK, LockQueue
  <2>8. QED
    BY <2>1, <2>2, <2>3, <2>4, <2>5, <2>6, <2>7 DEF TypeOK
<1>2. QueueInv'
  BY Unlocked DEF IInv, TypeOK, QueueInv, WriterInv, LockQueue
<1>3. WriterInv'
  BY Unlocked DEF IInv, TypeOK, QueueInv, WriterInv, ReaderInv, LockQueue, Todo, NoTodo
<1>4. ReaderInv'
  BY Unlocked DEF IInv, TypeOK, QueueInv, WriterInv, ReaderInv, LockQueue
<1>5. ContentInv'
  BY Unlocked DEF IInv, TypeOK, QueueInv, ContentInv, MidInv, MidMessage, LockQueue
<1>6. LogInv'
  BY Unlocked DEF IInv, TypeOK, ContentInv, LogInv, Follows, Entry, LockQueue
<1>7. TailInv'
  <2>1. \A q \in Proc : ~MidMessage(q) /\ ~MidMessage(q)'
    BY Unlocked DEF IInv, TypeOK, WriterInv, MidMessage, LockQueue
  <2>2. QED
    BY <2>1 DEF IInv, TailInv, LockQueue
<1>8. MidInv'
  BY Unlocked DEF IInv, TypeOK, MidInv, WriterInv, MidMessage, Placed, Overrun, Behind, LockQueue, NoTodo
<1>9. BufferInv'
  <2> SUFFICES ASSUME NEW q \in Proc
               PROVE  BufferOK(q)' /\ NextOK(q)'
    BY DEF BufferInv
  <2>1. QED
    BY Unlocked, StillRead DEF IInv, TypeOK, QueueInv, WriterInv, ReaderInv, Placed, Overrun, Behind, LockQueue
<1>10. WholeMessages'
  BY DEF IInv, TypeOK, WholeMessages, LockQueue
<1>11. QED
  BY <1>1, <1>2, <1>3, <1>4, <1>5, <1>6, <1>7, <1>8, <1>9, <1>10 DEF IInv

\* Giving up chat_queue_lock keeps the invariant: all the parts are written.
LEMMA UnlockQueueKeeps ==
  ASSUME IInv, ~CrashInWrap, NEW p \in Proc, UnlockQueue(p)
  PROVE  IInv'
<1>1. TypeOK'
  <2>1. /\ generation' \in Nat /\ curr_offset' \in 0 .. QueueLen
        /\ updates' \in [Slots -> Entry]
        /\ chat_queue_lock' \in Proc \cup {NoProc}
        /\ starts' \in 0 .. MaxStarts /\ count' \in 0 .. MaxCount
    BY DEF IInv, TypeOK, UnlockQueue
  <2>2. /\ last_id' \in [Proc -> -1 .. QueueLen]
        /\ last_generation' \in [Proc -> Nat]
    BY DEF IInv, TypeOK, UnlockQueue
  <2>3. /\ mapped' \in [Proc -> BOOLEAN]
        /\ queue_tmp_buf' \in [Proc -> Seq(Entry)]
        /\ posted' \in [Proc -> {"whole", "torn", "broken"}]
        /\ torn' \in [Proc -> BOOLEAN]
    BY DEF IInv, TypeOK, UnlockQueue
  <2>4. /\ pc' \in [Proc -> {"idle", "create", "join", "lock", "append", "wrap", "skip"}]
        /\ sent' \in [Proc -> 0 .. MaxCount]
    BY DEF IInv, TypeOK, UnlockQueue
  <2>5. todo' \in [Proc -> Todo]
    BY DEF IInv, TypeOK, UnlockQueue, Todo, NoTodo
  <2>6. cut' \subseteq 1 .. MaxCount
    BY DEF IInv, TypeOK, MidInv, MidMessage, UnlockQueue
  <2>7. \A q \in Proc : pc'[q] \in {"append", "wrap"} <=> chat_queue_lock' = q
    BY DEF IInv, TypeOK, UnlockQueue
  <2>8. QED
    BY <2>1, <2>2, <2>3, <2>4, <2>5, <2>6, <2>7 DEF TypeOK
<1>2. QueueInv'
  BY DEF IInv, TypeOK, QueueInv, WriterInv, UnlockQueue
<1>3. WriterInv'
  <2> SUFFICES ASSUME NEW q \in Proc
               PROVE  /\ pc'[q] \in {"join", "lock", "append", "wrap", "skip"} => mapped'[q]
                      /\ pc'[q] \notin {"append", "wrap"} => todo'[q].part = 1
                      /\ todo'[q].part + todo'[q].left <= MaxParts + 1
    BY DEF WriterInv
  <2>1. CASE q = p
    <3>1. pc'[p] = "idle" /\ todo'[p].part = 1 /\ todo'[p].left = 0
      BY DEF IInv, TypeOK, NoTodo, UnlockQueue
    <3>2. QED
      BY <2>1, <3>1
  <2>2. CASE q # p
    BY <2>2 DEF IInv, TypeOK, WriterInv, UnlockQueue
  <2>3. QED
    BY <2>1, <2>2
<1>4. ReaderInv'
  BY DEF IInv, TypeOK, QueueInv, WriterInv, ReaderInv, UnlockQueue
<1>5. ContentInv'
  BY DEF IInv, TypeOK, QueueInv, ContentInv, MidInv, MidMessage, UnlockQueue
<1>6. LogInv'
  <2>1. updates' = updates /\ cut' = cut
    BY DEF UnlockQueue, queueVars
  <2>2. LogInv
    BY DEF IInv
  <2>3. QED
    BY <2>1, <2>2 DEF LogInv, Follows
<1>7. TailInv'
  BY DEF IInv, TypeOK, TailInv, WriterInv, MidMessage, UnlockQueue, Todo, NoTodo
<1>8. MidInv'
  BY DEF IInv, TypeOK, MidInv, WriterInv, MidMessage, Placed, Overrun, Behind, UnlockQueue, NoTodo
<1>9. BufferInv'
  <2> SUFFICES ASSUME NEW q \in Proc
               PROVE  BufferOK(q)' /\ NextOK(q)'
    BY DEF BufferInv
  <2>1. QED
    BY StillRead DEF IInv, TypeOK, QueueInv, WriterInv, ReaderInv, Placed, Overrun, Behind, UnlockQueue
<1>10. WholeMessages'
  BY DEF IInv, TypeOK, WholeMessages, UnlockQueue
<1>11. QED
  BY <1>1, <1>2, <1>3, <1>4, <1>5, <1>6, <1>7, <1>8, <1>9, <1>10 DEF IInv

\* Finding itself overrun, a reader loses its place.
LEMMA SendOverrunKeeps ==
  ASSUME IInv, ~CrashInWrap, NEW p \in Proc, SendOverrun(p)
  PROVE  IInv'
<1>1. TypeOK'
  <2>1. /\ generation' \in Nat /\ curr_offset' \in 0 .. QueueLen
        /\ updates' \in [Slots -> Entry]
        /\ chat_queue_lock' \in Proc \cup {NoProc}
        /\ starts' \in 0 .. MaxStarts /\ count' \in 0 .. MaxCount
    BY Unlocked DEF IInv, TypeOK, SendOverrun
  <2>2. /\ last_id' \in [Proc -> -1 .. QueueLen]
        /\ last_generation' \in [Proc -> Nat]
    BY Unlocked DEF IInv, TypeOK, SendOverrun
  <2>3. /\ mapped' \in [Proc -> BOOLEAN]
        /\ queue_tmp_buf' \in [Proc -> Seq(Entry)]
        /\ posted' \in [Proc -> {"whole", "torn", "broken"}]
        /\ torn' \in [Proc -> BOOLEAN]
    BY Unlocked DEF IInv, TypeOK, SendOverrun
  <2>4. /\ pc' \in [Proc -> {"idle", "create", "join", "lock", "append", "wrap", "skip"}]
        /\ sent' \in [Proc -> 0 .. MaxCount]
    BY Unlocked DEF IInv, TypeOK, SendOverrun
  <2>5. todo' \in [Proc -> Todo]
    BY Unlocked DEF IInv, TypeOK, SendOverrun, Todo, NoTodo
  <2>6. cut' \subseteq 1 .. MaxCount
    BY Unlocked DEF IInv, TypeOK, MidInv, MidMessage, SendOverrun
  <2>7. \A q \in Proc : pc'[q] \in {"append", "wrap"} <=> chat_queue_lock' = q
    BY Unlocked DEF IInv, TypeOK, SendOverrun
  <2>8. QED
    BY <2>1, <2>2, <2>3, <2>4, <2>5, <2>6, <2>7 DEF TypeOK
<1>2. QueueInv'
  BY Unlocked DEF IInv, TypeOK, QueueInv, WriterInv, SendOverrun
<1>3. WriterInv'
  BY Unlocked DEF IInv, TypeOK, QueueInv, WriterInv, ReaderInv, SendOverrun, Todo, NoTodo
<1>4. ReaderInv'
  BY Unlocked DEF IInv, TypeOK, QueueInv, WriterInv, ReaderInv, SendOverrun
<1>5. ContentInv'
  BY Unlocked DEF IInv, TypeOK, QueueInv, ContentInv, MidInv, MidMessage, SendOverrun
<1>6. LogInv'
  BY Unlocked DEF IInv, TypeOK, ContentInv, LogInv, Follows, Entry, SendOverrun
<1>7. TailInv'
  BY Unlocked DEF IInv, TypeOK, TailInv, WriterInv, MidMessage, SendOverrun, Todo, NoTodo
<1>8. MidInv'
  BY Unlocked DEF IInv, TypeOK, MidInv, WriterInv, MidMessage, Placed, Overrun, Behind, SendOverrun, NoTodo
<1>9. BufferInv'
  <2> SUFFICES ASSUME NEW q \in Proc
               PROVE  BufferOK(q)' /\ NextOK(q)'
    BY DEF BufferInv
  <2>1. QED
    BY Unlocked, StillRead DEF IInv, TypeOK, QueueInv, WriterInv, ReaderInv, Placed, Overrun, Behind, SendOverrun
<1>10. WholeMessages'
  BY DEF IInv, TypeOK, WholeMessages, SendOverrun
<1>11. QED
  BY <1>1, <1>2, <1>3, <1>4, <1>5, <1>6, <1>7, <1>8, <1>9, <1>10 DEF IInv

\* A reader that skips to the end keeps the invariant.
LEMMA SkipAllKeeps ==
  ASSUME IInv, ~CrashInWrap, NEW p \in Proc, SkipAll(p)
  PROVE  IInv'
<1>1. TypeOK'
  <2>1. /\ generation' \in Nat /\ curr_offset' \in 0 .. QueueLen
        /\ updates' \in [Slots -> Entry]
        /\ chat_queue_lock' \in Proc \cup {NoProc}
        /\ starts' \in 0 .. MaxStarts /\ count' \in 0 .. MaxCount
    BY Unlocked DEF IInv, TypeOK, SkipAll
  <2>2. /\ last_id' \in [Proc -> -1 .. QueueLen]
        /\ last_generation' \in [Proc -> Nat]
    BY Unlocked DEF IInv, TypeOK, SkipAll
  <2>3. /\ mapped' \in [Proc -> BOOLEAN]
        /\ queue_tmp_buf' \in [Proc -> Seq(Entry)]
        /\ posted' \in [Proc -> {"whole", "torn", "broken"}]
        /\ torn' \in [Proc -> BOOLEAN]
    BY Unlocked DEF IInv, TypeOK, SkipAll
  <2>4. /\ pc' \in [Proc -> {"idle", "create", "join", "lock", "append", "wrap", "skip"}]
        /\ sent' \in [Proc -> 0 .. MaxCount]
    BY Unlocked DEF IInv, TypeOK, SkipAll
  <2>5. todo' \in [Proc -> Todo]
    BY Unlocked DEF IInv, TypeOK, SkipAll, Todo, NoTodo
  <2>6. cut' \subseteq 1 .. MaxCount
    BY Unlocked DEF IInv, TypeOK, MidInv, MidMessage, SkipAll
  <2>7. \A q \in Proc : pc'[q] \in {"append", "wrap"} <=> chat_queue_lock' = q
    BY Unlocked DEF IInv, TypeOK, SkipAll
  <2>8. QED
    BY <2>1, <2>2, <2>3, <2>4, <2>5, <2>6, <2>7 DEF TypeOK
<1>2. QueueInv'
  BY Unlocked DEF IInv, TypeOK, QueueInv, WriterInv, SkipAll
<1>3. WriterInv'
  BY Unlocked DEF IInv, TypeOK, QueueInv, WriterInv, ReaderInv, SkipAll, Todo, NoTodo
<1>4. ReaderInv'
  <2> SUFFICES ASSUME NEW q \in Proc, last_id'[q] >= 0
               PROVE  /\ mapped'[q]
                      /\ last_id'[q] < QueueLen
                      /\ last_generation'[q] \in 2 .. generation'
                      /\ last_generation'[q] = generation' => last_id'[q] <= curr_offset'
    BY DEF ReaderInv
  <2>1. CASE q # p
    BY <2>1 DEF IInv, TypeOK, ReaderInv, SkipAll
  <2>2. CASE q = p
    <3>1. mapped[p]
      BY DEF IInv, WriterInv, SkipAll
    <3>2. generation \in Nat /\ generation >= 2
      BY <3>1, MappedQueue
    <3>3. last_id'[p] = curr_offset /\ last_generation'[p] = generation
      BY DEF IInv, TypeOK, SkipAll
    <3>4. mapped'[p] /\ generation' = generation /\ curr_offset' = curr_offset
      BY <3>1 DEF SkipAll
    <3>5. curr_offset \in Nat /\ curr_offset < QueueLen
      <4>1. curr_offset < QueueLen
        BY Unlocked DEF SkipAll
      <4>2. QED
        BY <4>1 DEF IInv, TypeOK
    <3>6. QED
      BY <2>2, <3>2, <3>3, <3>4, <3>5
  <2>3. QED
    BY <2>1, <2>2
<1>5. ContentInv'
  BY Unlocked DEF IInv, TypeOK, QueueInv, ContentInv, MidInv, MidMessage, SkipAll
<1>6. LogInv'
  BY Unlocked DEF IInv, TypeOK, ContentInv, LogInv, Follows, Entry, SkipAll
<1>7. TailInv'
  BY Unlocked DEF IInv, TypeOK, TailInv, WriterInv, MidMessage, SkipAll, Todo, NoTodo
<1>8. MidInv'
  BY Unlocked DEF IInv, TypeOK, MidInv, WriterInv, MidMessage, Placed, Overrun, Behind, SkipAll, NoTodo
<1>9. BufferInv'
  <2> SUFFICES ASSUME NEW q \in Proc
               PROVE  BufferOK(q)' /\ NextOK(q)'
    BY DEF BufferInv
  <2>1. UNCHANGED <<queueVars, count>> /\ cut' = cut
        /\ queue_tmp_buf'[q] = queue_tmp_buf[q]
    BY DEF SkipAll
  <2>2. CASE q = p
    <3>1. last_id'[p] = curr_offset /\ last_generation'[p] = generation
          /\ curr_offset \in Nat
      BY DEF IInv, TypeOK, SkipAll
    <3>2. Behind(p)' = 0
      BY <2>1, <3>1 DEF Behind
    <3>3. torn'[p] \/ queue_tmp_buf[p] = <<>>
      BY DEF IInv, TypeOK, SkipAll
    <3>4. QED
      BY <2>1, <2>2, <3>2, <3>3, StillRead
  <2>3. CASE q # p
    <3>1. last_id'[q] = last_id[q] /\ last_generation'[q] = last_generation[q]
          /\ pc'[q] = pc[q] /\ torn'[q] = torn[q]
      BY <2>3 DEF IInv, TypeOK, SkipAll
    <3>2. Placed(q)' => Placed(q)
      BY <2>1, <3>1, StillPlaced DEF Placed
    <3>3. QED
      BY <2>1, <3>1, <3>2, StillRead
  <2>4. QED
    BY <2>2, <2>3
<1>10. WholeMessages'
  BY DEF IInv, TypeOK, WholeMessages, SkipAll
<1>11. QED
  BY <1>1, <1>2, <1>3, <1>4, <1>5, <1>6, <1>7, <1>8, <1>9, <1>10 DEF IInv

\* queue_chat, before it takes the lock, keeps the invariant.
LEMMA QueueChatKeeps ==
  ASSUME IInv, ~CrashInWrap, NEW p \in Proc,
         NEW parts \in 1 .. MaxParts, NEW to \in SUBSET Proc, QueueChat(p, parts, to)
  PROVE  IInv'
<1>1. TypeOK'
  <2>1. /\ generation' \in Nat /\ curr_offset' \in 0 .. QueueLen
        /\ updates' \in [Slots -> Entry]
        /\ chat_queue_lock' \in Proc \cup {NoProc}
        /\ starts' \in 0 .. MaxStarts /\ count' \in 0 .. MaxCount
    BY DEF IInv, TypeOK, QueueChat
  <2>2. /\ last_id' \in [Proc -> -1 .. QueueLen]
        /\ last_generation' \in [Proc -> Nat]
    BY DEF IInv, TypeOK, QueueChat
  <2>3. /\ mapped' \in [Proc -> BOOLEAN]
        /\ queue_tmp_buf' \in [Proc -> Seq(Entry)]
        /\ posted' \in [Proc -> {"whole", "torn", "broken"}]
        /\ torn' \in [Proc -> BOOLEAN]
    BY DEF IInv, TypeOK, QueueChat
  <2>4. /\ pc' \in [Proc -> {"idle", "create", "join", "lock", "append", "wrap", "skip"}]
        /\ sent' \in [Proc -> 0 .. MaxCount]
    BY DEF IInv, TypeOK, QueueChat
  <2>5. todo' \in [Proc -> Todo]
    BY DEF IInv, TypeOK, QueueChat, Todo, NoTodo
  <2>6. cut' \subseteq 1 .. MaxCount
    BY DEF IInv, TypeOK, MidInv, MidMessage, QueueChat
  <2>7. \A q \in Proc : pc'[q] \in {"append", "wrap"} <=> chat_queue_lock' = q
    BY DEF IInv, TypeOK, QueueChat
  <2>8. QED
    BY <2>1, <2>2, <2>3, <2>4, <2>5, <2>6, <2>7 DEF TypeOK
<1>2. QueueInv'
  BY DEF IInv, TypeOK, QueueInv, WriterInv, QueueChat
<1>3. WriterInv'
  <2> SUFFICES ASSUME NEW q \in Proc
               PROVE  /\ pc'[q] \in {"join", "lock", "append", "wrap", "skip"} => mapped'[q]
                      /\ pc'[q] \notin {"append", "wrap"} => todo'[q].part = 1
                      /\ todo'[q].part + todo'[q].left <= MaxParts + 1
    BY DEF WriterInv
  <2>1. CASE q = p
    <3>1. /\ pc'[p] = "create" \/ (pc'[p] = "lock" /\ mapped'[p])
          /\ todo'[p].part = 1 /\ todo'[p].left = parts
      BY DEF IInv, TypeOK, NoTodo, QueueChat
    <3>2. QED
      BY <2>1, <3>1
  <2>2. CASE q # p
    BY <2>2 DEF IInv, TypeOK, WriterInv, QueueChat
  <2>3. QED
    BY <2>1, <2>2
<1>4. ReaderInv'
  BY DEF IInv, TypeOK, QueueInv, WriterInv, ReaderInv, QueueChat
<1>5. ContentInv'
  BY DEF IInv, TypeOK, QueueInv, ContentInv, MidInv, MidMessage, QueueChat
<1>6. LogInv'
  BY DEF IInv, TypeOK, ContentInv, LogInv, Follows, Entry, QueueChat
<1>7. TailInv'
  BY DEF IInv, TypeOK, TailInv, WriterInv, MidMessage, QueueChat, Todo, NoTodo
<1>8. MidInv'
  BY DEF IInv, TypeOK, MidInv, WriterInv, MidMessage, Placed, Overrun, Behind, QueueChat, NoTodo
<1>9. BufferInv'
  <2> SUFFICES ASSUME NEW q \in Proc
               PROVE  BufferOK(q)' /\ NextOK(q)'
    BY DEF BufferInv
  <2>1. QED
    BY StillRead DEF IInv, TypeOK, QueueInv, WriterInv, ReaderInv, Placed, Overrun, Behind, QueueChat
<1>10. WholeMessages'
  BY DEF IInv, TypeOK, WholeMessages, QueueChat
<1>11. QED
  BY <1>1, <1>2, <1>3, <1>4, <1>5, <1>6, <1>7, <1>8, <1>9, <1>10 DEF IInv

\* What a reader takes is the entry after its position, and its place moves on
\* by that one, around the end of the ring too.
LEMMA SendStep ==
  ASSUME IInv, NEW p \in Proc, SendOne(p)
  PROVE  /\ Placed(p) /\ Placed(p)'
         /\ last_id[p] \in 0 .. QueueLen - 1 /\ last_id'[p] \in 0 .. QueueLen - 1
         /\ Behind(p) \in Nat /\ Behind(p) > 0 /\ Behind(p)' = Behind(p) - 1
         /\ updates[last_id[p]].n = Position(p) + 1
         /\ Position(p) \in Nat /\ Position(p)' = Position(p) + 1
         /\ last_generation'[p] \in 2 .. generation
         /\ last_generation'[p] = generation => last_id'[p] <= curr_offset
         /\ Behind(p)' = 0 => updates[last_id[p]].n = count
         /\ Behind(p)' > 0 =>
              updates[last_id'[p]].n = updates[last_id[p]].n + 1
<1> DEFINE id == last_id[p]  gen == last_generation[p]
           id2 == last_id'[p]  gen2 == last_generation'[p]
<1>1. /\ count \in Nat /\ generation \in Nat /\ curr_offset \in Nat
      /\ id \in Int /\ gen \in Nat
      /\ QueueLen \in Nat /\ QueueLen > 0
  BY DEF IInv, TypeOK
<1>2. id >= 0 /\ id < QueueLen /\ gen \in 2 .. generation
      /\ (gen = generation => id <= curr_offset)
  BY DEF IInv, ReaderInv, SendOne
<1>3. curr_offset < QueueLen
  BY Unlocked DEF SendOne
<1>4. /\ \/ gen = generation /\ id < curr_offset
         \/ gen = generation - 1 /\ curr_offset < id
      /\ Placed(p)
  BY <1>1, <1>2 DEF SendOne, Overrun, Placed
<1>5. /\ IF id + 1 = QueueLen THEN id2 = 0 /\ gen2 = gen + 1
         ELSE id2 = id + 1 /\ gen2 = gen
      /\ UNCHANGED <<queueVars, pc, count>>
  BY DEF SendOne, IInv, TypeOK
<1>6. curr_offset <= count /\ (generation > 2 => curr_offset + QueueLen <= count)
  BY DEF IInv, QueueInv
<1>7. \A i \in 0 .. QueueLen - 1 :
        /\ i < curr_offset => updates[i].n = count - curr_offset + i + 1
        /\ i >= curr_offset /\ generation > 2
           => updates[i].n = count - curr_offset - QueueLen + i + 1
  BY <1>1, <1>2 DEF IInv, ContentInv
<1> HIDE DEF id, gen, id2, gen2
<1>8. CASE gen = generation
  <2>1. id2 = id + 1 /\ gen2 = gen /\ id + 1 < QueueLen /\ id < curr_offset
    BY <1>1, <1>2, <1>3, <1>4, <1>5, <1>8
  <2>2. Behind(p) = curr_offset - id /\ Behind(p)' = curr_offset - id2
    BY <1>5, <1>8, <2>1 DEF Behind, id, gen, id2, gen2
  <2>3. Placed(p)'
    BY <1>1, <1>2, <1>4, <1>5, <1>8, <2>1 DEF Placed, Overrun, id, gen, id2, gen2
  <2>4. Position(p) = count - Behind(p) /\ Position(p)' = count - Behind(p)'
    BY <1>4, <1>5, <2>3 DEF Position
  <2>5. updates[id].n = count - curr_offset + id + 1
    BY <1>1, <1>2, <1>7, <2>1
  <2>6. id2 < curr_offset => updates[id2].n = count - curr_offset + id2 + 1
    BY <1>1, <1>2, <1>7, <2>1
  <2>7. QED
    BY <1>1, <1>2, <1>4, <1>6, <1>8, <2>1, <2>2, <2>3, <2>4, <2>5, <2>6
       DEF id, gen, id2, gen2
<1>9. CASE gen # generation
  <2>1. gen = generation - 1 /\ curr_offset < id /\ generation > 2
    BY <1>1, <1>2, <1>4, <1>9
  <2>2. Behind(p) = curr_offset + QueueLen - id
    BY <1>9 DEF Behind, id, gen
  <2>3. updates[id].n = count - curr_offset - QueueLen + id + 1
    BY <1>1, <1>2, <1>7, <2>1
  <2>4. CASE id + 1 = QueueLen
    <3>1. id2 = 0 /\ gen2 = generation
      BY <1>1, <1>5, <2>1, <2>4
    <3>2. Behind(p)' = curr_offset
      BY <1>1, <1>5, <3>1 DEF Behind, id2, gen2
    <3>3. Placed(p)'
      BY <1>4, <1>5, <3>1 DEF Placed, Overrun, id2, gen2
    <3>4. Position(p) = count - Behind(p) /\ Position(p)' = count - Behind(p)'
      BY <1>4, <1>5, <3>3 DEF Position
    <3>5. 0 < curr_offset => updates[id2].n = count - curr_offset + 1
      BY <1>1, <1>7, <3>1
    <3>6. Behind(p) = curr_offset + 1 /\ updates[id].n = count - curr_offset
      BY <1>1, <1>2, <2>2, <2>3, <2>4
    <3>7. Position(p) \in Nat /\ Position(p)' = Position(p) + 1
          /\ updates[id].n = Position(p) + 1
      BY <1>1, <1>6, <2>1, <3>2, <3>4, <3>6
    <3>8. QED
      BY <1>1, <1>2, <1>4, <2>1, <3>1, <3>2, <3>3, <3>5, <3>6, <3>7
         DEF id, gen, id2, gen2
  <2>5. CASE id + 1 # QueueLen
    <3>1. id2 = id + 1 /\ gen2 = gen /\ id2 < QueueLen
      BY <1>1, <1>2, <1>5, <2>5
    <3>2. Behind(p)' = curr_offset + QueueLen - id2
      BY <1>5, <1>9, <3>1 DEF Behind, id2, gen2
    <3>3. Placed(p)'
      BY <1>1, <1>2, <1>4, <1>5, <2>1, <3>1 DEF Placed, Overrun, id2, gen2
    <3>4. Position(p) = count - Behind(p) /\ Position(p)' = count - Behind(p)'
      BY <1>4, <1>5, <3>3 DEF Position
    <3>5. updates[id2].n = count - curr_offset - QueueLen + id2 + 1
      BY <1>1, <1>2, <1>7, <2>1, <3>1
    <3>6. QED
      BY <1>1, <1>2, <1>3, <1>4, <1>6, <2>1, <2>2, <2>3, <3>1, <3>2, <3>3, <3>4,
         <3>5 DEF id, gen, id2, gen2
  <2>6. QED
    BY <2>4, <2>5
<1>10. QED
  BY <1>8, <1>9

\* A message begun with its first part and continued by the next entry is a
\* message begun.
LEMMA Grown ==
  ASSUME NEW s \in Seq(Entry), NEW e \in Entry,
         s = <<>> => e.part = 1,
         s # <<>> => /\ s[1].part = 1
                     /\ \A i \in DOMAIN s : s[i].n = s[1].n + i - 1
                     /\ e.n = s[Len(s)].n + 1
  PROVE  /\ Append(s, e) \in Seq(Entry)
         /\ Append(s, e) # <<>>
         /\ Append(s, e)[1].part = 1
         /\ Append(s, e)[Len(Append(s, e))] = e
         /\ \A i \in DOMAIN Append(s, e) :
              Append(s, e)[i].n = Append(s, e)[1].n + i - 1
<1> DEFINE t == Append(s, e)
<1>1. t \in Seq(Entry) /\ Len(t) = Len(s) + 1 /\ Len(s) \in Nat
      /\ DOMAIN t = 1 .. Len(s) + 1 /\ DOMAIN s = 1 .. Len(s)
  OBVIOUS
<1>2. t[Len(s) + 1] = e /\ \A i \in 1 .. Len(s) : t[i] = s[i]
  OBVIOUS
<1>3. t[1].n \in Nat /\ e.n \in Nat
  <2>1. t[1] \in Entry
    BY <1>1
  <2>2. QED
    BY <2>1 DEF Entry
<1> HIDE DEF t
<1>4. CASE s = <<>>
  BY <1>1, <1>2, <1>3, <1>4 DEF t
<1>5. CASE s # <<>>
  <2>1. Len(s) > 0
    BY <1>1, <1>5
  <2>2. t[1] = s[1] /\ s[Len(s)].n = s[1].n + Len(s) - 1
    BY <1>1, <1>2, <1>5, <2>1
  <2>3. \A i \in DOMAIN t : t[i].n = t[1].n + i - 1
    <3> SUFFICES ASSUME NEW i \in DOMAIN t
                 PROVE  t[i].n = t[1].n + i - 1
      OBVIOUS
    <3>1. CASE i = Len(s) + 1
      BY <1>1, <1>2, <1>3, <1>5, <2>2, <3>1
    <3>2. CASE i # Len(s) + 1
      BY <1>1, <1>2, <1>5, <2>2, <3>2
    <3>3. QED
      BY <3>1, <3>2
  <2>4. QED
    BY <1>1, <1>2, <1>5, <2>1, <2>2, <2>3 DEF t
<1>6. QED
  BY <1>4, <1>5

\* What a reader does with the entry it took: a part goes on with the message in
\* the buffer, the last one completes it, and what is posted is not broken.
LEMMA PostStep ==
  ASSUME IInv, NEW p \in Proc, SendOne(p)
  PROVE  /\ BufferOK(p)' /\ NextOK(p)'
         /\ posted'[p] \in {"whole", "torn"}
         /\ queue_tmp_buf' \in [Proc -> Seq(Entry)]
         /\ posted' \in [Proc -> {"whole", "torn", "broken"}]
         /\ torn' \in [Proc -> BOOLEAN]
<1> DEFINE a == updates[last_id[p]]
           b == updates[last_id'[p]]
           s == queue_tmp_buf[p]
           all == Append(s, a)
<1>1. /\ Placed(p) /\ Placed(p)' /\ Behind(p) > 0 /\ Behind(p)' \in Nat
      /\ last_id[p] \in Slots /\ last_id'[p] \in Slots
      /\ a.n = Position(p) + 1 /\ Position(p)' = a.n /\ a.n > 0
      /\ Behind(p)' = 0 => a.n = count
      /\ Behind(p)' > 0 => b.n = a.n + 1
  BY SendStep
<1>2. a \in Entry /\ s \in Seq(Entry) /\ a.n \in Nat /\ a.left \in Nat
  <2>1. a \in Entry /\ s \in Seq(Entry)
    BY <1>1 DEF IInv, TypeOK
  <2>2. QED
    BY <2>1 DEF Entry
<1>3. Behind(p)' > 0 => Follows(a, b)
  BY <1>1 DEF IInv, LogInv
<1>4. Behind(p)' = 0 => a.left = 0 \/ a.n \in cut
  <2>1. \A q \in Proc : ~MidMessage(q)
    BY Unlocked DEF SendOne
  <2>2. QED
    BY <1>1, <1>2, <2>1 DEF IInv, TailInv
<1>5. BufferOK(p) /\ NextOK(p)
  BY DEF IInv, BufferInv
<1>6. s # <<>> /\ Intact(p) =>
        /\ s[1].part = 1
        /\ \A i \in DOMAIN s : s[i].n = s[1].n + i - 1
        /\ a.n = s[Len(s)].n + 1
        /\ p \in a.to
  BY <1>1, <1>5 DEF BufferOK
<1>7. s = <<>> => a.part = 1 \/ p \notin a.to
  BY <1>1, <1>5 DEF NextOK
<1>8. cut' = cut /\ updates' = updates /\ PostChat(p, a)
  BY DEF SendOne
<1>9. queue_tmp_buf \in [Proc -> Seq(Entry)]
      /\ posted \in [Proc -> {"whole", "torn", "broken"}]
      /\ torn \in [Proc -> BOOLEAN]
      /\ posted[p] # "broken"
  BY DEF IInv, TypeOK, WholeMessages
<1>10. all \in Seq(Entry) /\ all # <<>> /\ Len(all) = Len(s) + 1
       /\ Len(s) \in Nat /\ all[Len(all)] = a
       /\ DOMAIN all = 1 .. Len(s) + 1 /\ DOMAIN s = 1 .. Len(s)
       /\ \A i \in DOMAIN s : all[i] = s[i]
  BY <1>2
<1> HIDE DEF a, b, s, all
<1>11. CASE p \notin a.to
  <2>1. UNCHANGED bufferVars
    BY <1>8, <1>11 DEF PostChat
  <2>2. ~(s # <<>> /\ Intact(p))
    BY <1>6, <1>11
  <2>3. BufferOK(p)'
    BY <1>8, <2>1, <2>2 DEF BufferOK, Intact, s
  <2>4. NextOK(p)'
    <3>1. Behind(p)' > 0 => b.part = 1 \/ p \notin b.to
      BY <1>3, <1>11 DEF Follows
    <3>2. QED
      BY <1>8, <3>1 DEF NextOK, b
  <2>5. QED
    BY <1>9, <2>1, <2>3, <2>4
<1>12. CASE p \in a.to /\ a.left = 0
  <2>1. /\ posted' = [posted EXCEPT ![p] = Judge(p, all)]
        /\ queue_tmp_buf' = [queue_tmp_buf EXCEPT ![p] = <<>>]
        /\ torn' = [torn EXCEPT ![p] = FALSE]
    BY <1>8, <1>12 DEF PostChat, all, s
  <2>2. Judge(p, all) \in {"whole", "torn"}
    <3>1. CASE ~torn[p] /\ \A i \in DOMAIN all : all[i].n \notin cut
      <4>1. Intact(p)
        BY <1>10, <3>1 DEF Intact, s
      <4>2. all[1].part = 1 /\ \A i \in DOMAIN all : all[i].n = all[1].n + i - 1
        BY <1>2, <1>6, <1>7, <1>12, <4>1, Grown DEF all
      <4>3. QED
        BY <1>10, <1>12, <4>2 DEF Judge, Whole
    <3>2. CASE ~(~torn[p] /\ \A i \in DOMAIN all : all[i].n \notin cut)
      BY <3>2 DEF Judge
    <3>3. QED
      BY <3>1, <3>2
  <2>3. queue_tmp_buf'[p] = <<>>
    BY <1>9, <2>1
  <2>4. NextOK(p)'
    <3>1. Behind(p)' > 0 => b.part = 1
      BY <1>3, <1>12 DEF Follows
    <3>2. QED
      BY <1>8, <3>1 DEF NextOK, b
  <2>5. posted'[p] = Judge(p, all)
    BY <1>9, <2>1
  <2>6. BufferOK(p)'
    BY <2>3 DEF BufferOK
  <2>7. queue_tmp_buf' \in [Proc -> Seq(Entry)]
    BY <1>9, <2>1
  <2>8. posted' \in [Proc -> {"whole", "torn", "broken"}]
        /\ torn' \in [Proc -> BOOLEAN]
    BY <1>9, <2>1, <2>2
  <2>9. QED
    BY <2>2, <2>4, <2>5, <2>6, <2>7, <2>8
<1>13. CASE p \in a.to /\ a.left # 0
  <2>1. /\ queue_tmp_buf' = [queue_tmp_buf EXCEPT ![p] = all]
        /\ posted' = posted /\ torn' = torn
    BY <1>8, <1>13 DEF PostChat, all, s
  <2>2. queue_tmp_buf'[p] = all
    BY <1>9, <2>1
  <2>3. NextOK(p)'
    BY <1>10, <2>2 DEF NextOK
  <2>4. BufferOK(p)'
    <3>1. SUFFICES ASSUME Intact(p)'
                   PROVE  /\ all[1].part = 1
                          /\ \A i \in DOMAIN all : all[i].n = all[1].n + i - 1
                          /\ Position(p)' = all[Len(all)].n
                          /\ Behind(p)' > 0
                          /\ p \in b.to
      BY <1>8, <1>10, <2>2 DEF BufferOK, b
    <3>2. ~torn[p] /\ \A i \in DOMAIN all : all[i].n \notin cut
      BY <1>8, <2>1, <2>2, <3>1 DEF Intact
    <3>3. Intact(p) /\ a.n \notin cut
      BY <1>10, <3>2 DEF Intact, s
    <3>4. all[1].part = 1 /\ \A i \in DOMAIN all : all[i].n = all[1].n + i - 1
      BY <1>2, <1>6, <1>7, <1>13, <3>3, Grown DEF all
    <3>5. Behind(p)' > 0
      BY <1>1, <1>4, <1>13, <3>3
    <3>6. p \in b.to
      BY <1>2, <1>3, <1>13, <3>3, <3>5 DEF Follows
    <3>7. QED
      BY <1>1, <1>10, <3>4, <3>5, <3>6
  <2>5. QED
    BY <1>9, <1>10, <2>1, <2>3, <2>4
<1>14. QED
  BY <1>11, <1>12, <1>13

\* One round of send_queued_chats keeps the invariant.
LEMMA SendOneKeeps ==
  ASSUME IInv, ~CrashInWrap, NEW p \in Proc, SendOne(p)
  PROVE  IInv'
<1> USE SendStep
<1>1. UNCHANGED <<queueVars, chat_queue_lock, mapped, pc, todo, starts, count, cut>>
  BY DEF SendOne
<1>2. ASSUME NEW q \in Proc, q # p
      PROVE  /\ last_id'[q] = last_id[q] /\ last_generation'[q] = last_generation[q]
             /\ queue_tmp_buf'[q] = queue_tmp_buf[q] /\ torn'[q] = torn[q]
             /\ posted'[q] = posted[q]
  BY <1>2 DEF SendOne, PostChat, IInv, TypeOK
<1>3. TypeOK'
  <2>1. last_id \in [Proc -> -1 .. QueueLen] /\ last_generation \in [Proc -> Nat]
        /\ last_id[p] \in 0 .. QueueLen - 1 /\ QueueLen \in Nat
    BY DEF IInv, TypeOK
  <2>2. last_id' \in [Proc -> -1 .. QueueLen] /\ last_generation' \in [Proc -> Nat]
    <3>1. CASE last_id[p] + 1 = QueueLen
      <4>1. last_id' = [last_id EXCEPT ![p] = 0]
            /\ last_generation' = [last_generation EXCEPT ![p] = last_generation[p] + 1]
        BY <3>1 DEF SendOne
      <4>2. QED
        BY <2>1, <4>1
    <3>2. CASE last_id[p] + 1 # QueueLen
      <4>1. last_id' = [last_id EXCEPT ![p] = last_id[p] + 1]
            /\ last_generation' = [last_generation EXCEPT ![p] = last_generation[p]]
        BY <3>2 DEF SendOne
      <4>2. QED
        BY <2>1, <4>1
    <3>3. QED
      BY <3>1, <3>2
  <2>3. sent' \in [Proc -> 0 .. MaxCount]
    <3>1. updates[last_id[p]] \in Entry
      BY DEF IInv, TypeOK
    <3>2. updates[last_id[p]].n \in Nat
      BY <3>1 DEF Entry
    <3>3. updates[last_id[p]].n <= count
      BY DEF IInv, ContentInv
    <3>4. updates[last_id[p]].n \in 0 .. MaxCount
      BY <3>2, <3>3 DEF IInv, TypeOK
    <3>5. QED
      BY <3>4 DEF SendOne, IInv, TypeOK
  <2>4. QED
    BY <1>1, <2>2, <2>3, PostStep DEF IInv, TypeOK
<1>4. QueueInv' /\ WriterInv' /\ ContentInv' /\ LogInv'
  BY <1>1 DEF IInv, QueueInv, WriterInv, ContentInv, LogInv, Follows
<1>5. TailInv'
  BY <1>1 DEF IInv, TailInv, MidMessage
<1>6. MidInv'
  <2>1. \A q \in Proc : ~MidMessage(q)
    BY Unlocked DEF SendOne
  <2>2. \A q \in Proc : ~MidMessage(q)'
    BY <1>1, <2>1 DEF MidMessage
  <2>3. QED
    BY <2>2 DEF MidInv
<1>7. ReaderInv'
  <2> SUFFICES ASSUME NEW q \in Proc, last_id'[q] >= 0
               PROVE  /\ mapped'[q]
                      /\ last_id'[q] < QueueLen
                      /\ last_generation'[q] \in 2 .. generation'
                      /\ last_generation'[q] = generation' => last_id'[q] <= curr_offset'
    BY DEF ReaderInv
  <2>1. CASE q # p
    BY <1>1, <1>2, <2>1 DEF IInv, ReaderInv
  <2>2. CASE q = p
    <3>1. mapped[p]
      BY DEF IInv, ReaderInv, SendOne
    <3>2. last_id'[p] < QueueLen
      OBVIOUS
    <3>3. QED
      BY <1>1, <2>2, <3>1, <3>2
  <2>3. QED
    BY <2>1, <2>2
<1>8. BufferInv'
  <2>1. ASSUME NEW q \in Proc, q # p
        PROVE  BufferOK(q)' /\ NextOK(q)'
    <3>1. Placed(q)' => Placed(q)
      BY <1>1, <1>2, <2>1, StillPlaced DEF Placed
    <3>2. QED
      BY <1>1, <1>2, <2>1, <3>1, StillRead
  <2>2. QED
    BY <2>1, PostStep DEF BufferInv
<1>9. WholeMessages'
  BY <1>2, PostStep DEF IInv, WholeMessages
<1>10. QED
  BY <1>3, <1>4, <1>5, <1>6, <1>7, <1>8, <1>9 DEF IInv

\* The writer is the only one at the end of the ring, and has a queue to write.
LEMMA WriterQueue ==
  ASSUME IInv, NEW p \in Proc, pc[p] \in {"append", "wrap"}
  PROVE  /\ chat_queue_lock = p
         /\ \A q \in Proc : q # p => pc[q] \notin {"append", "wrap"}
         /\ generation \in Nat /\ generation >= 2
         /\ curr_offset \in Nat /\ curr_offset <= QueueLen
         /\ count \in Nat
         /\ curr_offset = QueueLen <=> pc[p] = "wrap"
         /\ QueueLen \in Nat /\ QueueLen > 0
<1>1. chat_queue_lock = p
  BY DEF IInv, TypeOK
<1>2. \A q \in Proc : q # p => pc[q] \notin {"append", "wrap"}
  BY <1>1 DEF IInv, TypeOK
<1>3. mapped[p]
  BY DEF IInv, WriterInv
<1>4. generation \in Nat /\ generation >= 2
  BY <1>3, MappedQueue
<1>5. curr_offset = QueueLen <=> pc[p] = "wrap"
  BY <1>2 DEF IInv, QueueInv
<1>6. curr_offset \in 0 .. QueueLen /\ count \in Nat
  BY DEF IInv, TypeOK
<1>7. QED
  BY <1>1, <1>2, <1>4, <1>5, <1>6

\* An entry is written behind every reader that keeps its place, never over what
\* the reader has still to take.
LEMMA PutPartReader ==
  ASSUME IInv, NEW p \in Proc, PutPart(p), NEW q \in Proc, Placed(q)'
  PROVE  /\ Placed(q)
         /\ Behind(q) \in Nat /\ Behind(q)' = Behind(q) + 1
         /\ Position(q)' = Position(q)
         /\ last_id'[q] = last_id[q] /\ last_id[q] \in 0 .. QueueLen - 1
         /\ Behind(q) = 0 => last_id[q] = curr_offset
         /\ Behind(q) > 0 => updates'[last_id[q]] = updates[last_id[q]]
<1>1. /\ generation \in Nat /\ generation >= 2
      /\ curr_offset \in Nat /\ curr_offset < QueueLen
      /\ count \in Nat /\ QueueLen \in Nat
  BY WriterQueue DEF PutPart
<1>2. /\ generation' = generation /\ curr_offset' = curr_offset + 1
      /\ last_id' = last_id /\ last_generation' = last_generation
      /\ count' = count + 1
  BY DEF PutPart
<1>3. last_id[q] >= 0 /\ ~Overrun(q)' /\ pc'[q] \notin {"skip", "create", "join"}
  BY <1>2 DEF Placed
<1>4. /\ last_id[q] \in 0 .. QueueLen - 1
      /\ last_generation[q] \in 2 .. generation
      /\ last_generation[q] = generation => last_id[q] <= curr_offset
  <2>1. last_id \in [Proc -> -1 .. QueueLen] /\ ReaderInv
    BY DEF IInv, TypeOK
  <2>2. QED
    BY <1>1, <1>3, <2>1 DEF ReaderInv
<1>5. pc[q] \notin {"skip", "create", "join"}
  BY <1>3 DEF PutPart, IInv, TypeOK
<1>6. \/ last_generation[q] = generation
      \/ /\ last_generation[q] = generation - 1
         /\ curr_offset + 1 < last_id[q]
  BY <1>2, <1>3 DEF Overrun
<1>7. Placed(q)
  BY <1>1, <1>3, <1>4, <1>5, <1>6 DEF Placed, Overrun
<1>8. Behind(q) \in Nat /\ Behind(q)' = Behind(q) + 1
      /\ (Behind(q) = 0 => last_id[q] = curr_offset)
      /\ (Behind(q) > 0 => last_id[q] # curr_offset)
  <2>1. CASE last_generation[q] = generation
    BY <1>1, <1>2, <1>4, <2>1 DEF Behind
  <2>2. CASE last_generation[q] # generation
    BY <1>1, <1>2, <1>4, <1>6, <2>2 DEF Behind
  <2>3. QED
    BY <2>1, <2>2
<1>9. Position(q)' = Position(q)
  BY <1>1, <1>2, <1>7, <1>8 DEF Position
<1>10. Behind(q) > 0 => updates'[last_id[q]] = updates[last_id[q]]
  BY <1>1, <1>4, <1>8 DEF PutPart, IInv, TypeOK
<1>11. QED
  BY <1>2, <1>4, <1>7, <1>8, <1>9, <1>10

\* Writing a part keeps the invariant: it is the next entry of the log, it goes on
\* with the message, and no reader that keeps its place loses what it is due.
LEMMA PutPartKeeps ==
  ASSUME IInv, ~CrashInWrap, NEW p \in Proc, PutPart(p)
  PROVE  IInv'
<1> DEFINE e == [n |-> count + 1, part |-> todo[p].part, left |-> todo[p].left - 1,
                 to |-> todo[p].to]
<1>1. /\ generation \in Nat /\ generation >= 2
      /\ curr_offset \in Nat /\ curr_offset < QueueLen
      /\ count \in Nat /\ QueueLen \in Nat
      /\ chat_queue_lock = p
      /\ \A q \in Proc : q # p => pc[q] \notin {"append", "wrap"}
  BY WriterQueue DEF PutPart
<1>2. /\ generation' = generation /\ curr_offset' = curr_offset + 1
      /\ count' = count + 1 /\ count < MaxCount
      /\ updates' = [updates EXCEPT ![curr_offset] = e]
      /\ UNCHANGED <<chat_queue_lock, mapped, placeVars, bufferVars, starts, sent, cut>>
  BY DEF PutPart
<1>3. todo[p] \in Todo /\ todo[p].left > 0 /\ todo[p].part + todo[p].left <= MaxParts + 1
  BY DEF PutPart, IInv, TypeOK, WriterInv
<1>4. /\ todo[p].left \in 1 .. MaxParts /\ todo[p].part \in 1 .. MaxParts
      /\ todo[p].to \in SUBSET Proc
  BY <1>3 DEF Todo
<1>5. e \in Entry /\ e.n = count + 1 /\ e.part = todo[p].part
      /\ e.left = todo[p].left - 1 /\ e.to = todo[p].to
  BY <1>1, <1>4 DEF Entry
<1>6. /\ todo' \in [Proc -> Todo]
      /\ todo'[p].part = todo[p].part + 1 /\ todo'[p].left = todo[p].left - 1
      /\ todo'[p].to = todo[p].to
      /\ \A q \in Proc : q # p => todo'[q] = todo[q]
  <2>1. todo \in [Proc -> Todo]
    BY DEF IInv, TypeOK
  <2>2. todo' = [todo EXCEPT ![p].part = @ + 1, ![p].left = @ - 1]
    BY DEF PutPart
  <2>3. todo' = [todo EXCEPT ![p] = [part |-> todo[p].part + 1, left |-> todo[p].left - 1,
                                     to |-> todo[p].to]]
    BY <1>3, <2>1, <2>2 DEF Todo
  <2>4. [part |-> todo[p].part + 1, left |-> todo[p].left - 1, to |-> todo[p].to] \in Todo
    BY <1>4 DEF Todo
  <2>5. QED
    BY <2>1, <2>3, <2>4
<1>7. /\ updates' \in [Slots -> Entry] /\ updates'[curr_offset] = e
      /\ \A i \in Slots : i # curr_offset => updates'[i] = updates[i]
      /\ curr_offset \in Slots
  BY <1>1, <1>2, <1>5 DEF IInv, TypeOK
<1>8. /\ pc' \in [Proc -> {"idle", "create", "join", "lock", "append", "wrap", "skip"}]
      /\ pc'[p] = IF curr_offset + 1 >= QueueLen THEN "wrap" ELSE "append"
      /\ \A q \in Proc : q # p => pc'[q] = pc[q]
  BY <1>2 DEF PutPart, IInv, TypeOK
<1>9. \A i \in Slots : updates[i].n \in Nat /\ updates[i].n <= count
  <2>1. ASSUME NEW i \in Slots
        PROVE  updates[i].n \in Nat /\ updates[i].n <= count
    <3>1. updates[i] \in Entry
      BY DEF IInv, TypeOK
    <3>2. QED
      BY <3>1 DEF Entry, IInv, ContentInv
  <2>2. QED
    BY <2>1
<1> HIDE DEF e
<1>10. TypeOK'
  <2>1. generation' \in Nat /\ curr_offset' \in 0 .. QueueLen /\ count' \in 0 .. MaxCount
    BY <1>1, <1>2
  <2>2. \A q \in Proc : pc'[q] \in {"append", "wrap"} <=> chat_queue_lock' = q
    BY <1>1, <1>2, <1>8
  <2>3. QED
    BY <1>2, <1>6, <1>7, <1>8, <2>1, <2>2 DEF IInv, TypeOK
<1>11. QueueInv'
  <2>1. curr_offset <= count /\ (generation > 2 => curr_offset + QueueLen <= count)
    BY DEF IInv, QueueInv
  <2>2. curr_offset' = QueueLen <=> \E q \in Proc : pc'[q] = "wrap"
    BY <1>1, <1>2, <1>8
  <2>3. QED
    BY <1>1, <1>2, <2>1, <2>2 DEF QueueInv
<1>12. WriterInv'
  <2> SUFFICES ASSUME NEW q \in Proc
               PROVE  /\ pc'[q] \in {"join", "lock", "append", "wrap", "skip"} => mapped'[q]
                      /\ pc'[q] \notin {"append", "wrap"} => todo'[q].part = 1
                      /\ todo'[q].part + todo'[q].left <= MaxParts + 1
    BY DEF WriterInv
  <2>1. CASE q = p
    <3>1. mapped'[p]
      BY <1>2 DEF PutPart, IInv, WriterInv
    <3>2. QED
      BY <1>3, <1>4, <1>6, <1>8, <2>1, <3>1
  <2>2. CASE q # p
    BY <1>2, <1>6, <1>8, <2>2 DEF IInv, WriterInv
  <2>3. QED
    BY <2>1, <2>2
<1>13. ReaderInv'
  <2> SUFFICES ASSUME NEW q \in Proc, last_id'[q] >= 0
               PROVE  /\ mapped'[q]
                      /\ last_id'[q] < QueueLen
                      /\ last_generation'[q] \in 2 .. generation'
                      /\ last_generation'[q] = generation' => last_id'[q] <= curr_offset'
    BY DEF ReaderInv
  <2>1. last_id'[q] = last_id[q] /\ last_generation'[q] = last_generation[q]
        /\ mapped'[q] = mapped[q] /\ last_id[q] \in Int
    BY <1>2 DEF IInv, TypeOK
  <2>2. QED
    BY <1>1, <1>2, <2>1 DEF IInv, ReaderInv
<1>14. ContentInv'
  <2>1. \A i \in Slots : updates'[i].n <= count'
    BY <1>1, <1>2, <1>5, <1>7, <1>9
  <2>2. ASSUME NEW i \in 0 .. QueueLen - 1
        PROVE  /\ i < curr_offset' => updates'[i].n = count' - curr_offset' + i + 1
               /\ i >= curr_offset' /\ generation' > 2
                  => updates'[i].n = count' - curr_offset' - QueueLen + i + 1
    <3>1. CASE i = curr_offset
      BY <1>1, <1>2, <1>5, <1>7, <3>1
    <3>2. CASE i # curr_offset
      <4>1. updates'[i] = updates[i]
        BY <1>1, <1>7, <3>2
      <4>2. /\ i < curr_offset => updates[i].n = count - curr_offset + i + 1
            /\ i >= curr_offset /\ generation > 2
               => updates[i].n = count - curr_offset - QueueLen + i + 1
        BY <1>1 DEF IInv, ContentInv
      <4>3. QED
        BY <1>1, <1>2, <3>2, <4>1, <4>2
    <3>3. QED
      BY <3>1, <3>2
  <2>3. cut' \subseteq 1 .. count'
    BY <1>1, <1>2 DEF IInv, ContentInv
  <2>4. QED
    BY <2>1, <2>2, <2>3 DEF ContentInv
<1>15. LogInv'
  <2> SUFFICES ASSUME NEW i \in Slots, NEW j \in Slots,
                      updates'[i].n > 0, updates'[j].n = updates'[i].n + 1
               PROVE  Follows(updates[i], updates[j])'
    BY DEF LogInv
  <2>1. i # curr_offset
    BY <1>1, <1>5, <1>7, <1>9
  <2>2. CASE j # curr_offset
    BY <1>2, <1>7, <2>1, <2>2 DEF IInv, LogInv, Follows
  <2>3. CASE j = curr_offset
    <3>1. updates'[i] = updates[i] /\ updates'[j] = e
      BY <1>7, <2>1, <2>3
    <3>2. updates[i].n = count /\ count > 0
      BY <1>1, <1>5, <1>9, <2>3, <3>1
    <3>3. CASE todo[p].part > 1
      <4>1. MidMessage(p)
        BY <1>1, <3>3 DEF MidMessage
      <4>2. updates[i].left = todo[p].left /\ updates[i].to = todo[p].to /\ count \notin cut
        BY <3>2, <4>1 DEF IInv, TailInv
      <4>3. QED
        BY <1>2, <1>4, <1>5, <3>1, <3>2, <4>2 DEF Follows
    <3>4. CASE todo[p].part = 1
      <4>1. \A q \in Proc : ~MidMessage(q)
        BY <1>1, <3>4 DEF MidMessage
      <4>2. updates[i].left = 0 \/ count \in cut
        BY <3>2, <4>1 DEF IInv, TailInv
      <4>3. QED
        BY <1>2, <1>5, <3>1, <3>2, <3>4, <4>2 DEF Follows
    <3>5. QED
      BY <1>4, <3>3, <3>4
  <2>4. QED
    BY <2>2, <2>3
<1>16. MidMessage(p)' /\ \A q \in Proc : MidMessage(q)' => q = p
  BY <1>1, <1>2, <1>4, <1>6 DEF MidMessage
<1>17. TailInv'
  <2> SUFFICES ASSUME NEW i \in Slots, updates'[i].n = count'
               PROVE  /\ count' \notin cut'
                      /\ updates'[i].left = todo'[p].left
                      /\ updates'[i].to = todo'[p].to
    BY <1>16 DEF TailInv
  <2>1. i = curr_offset
    BY <1>1, <1>2, <1>7, <1>9
  <2>2. count' \notin cut'
    BY <1>1, <1>2 DEF IInv, ContentInv
  <2>3. QED
    BY <1>5, <1>6, <1>7, <2>1, <2>2
<1>18. MidInv'
  <2>1. ASSUME NEW q \in Proc, Placed(q)'
        PROVE  Behind(q)' > 0
    BY <2>1, PutPartReader
  <2>2. QED
    BY <1>1, <1>2, <2>1 DEF MidInv
<1>19. BufferInv'
  <2> SUFFICES ASSUME NEW q \in Proc
               PROVE  BufferOK(q)' /\ NextOK(q)'
    BY DEF BufferInv
  <2>1. BufferOK(q) /\ NextOK(q)
    BY DEF IInv, BufferInv
  <2>2. queue_tmp_buf' = queue_tmp_buf /\ (Intact(q)' <=> Intact(q))
    BY <1>2 DEF Intact
  <2>3. CASE ~Placed(q)'
    BY <2>1, <2>2, <2>3 DEF BufferOK, NextOK
  <2>4. CASE Placed(q)' /\ Behind(q) > 0
    <3>1. /\ Placed(q) /\ Behind(q)' > 0 /\ Position(q)' = Position(q)
          /\ updates'[last_id'[q]] = updates[last_id[q]]
      BY <2>4, PutPartReader
    <3>2. QED
      BY <2>1, <2>2, <2>4, <3>1 DEF BufferOK, NextOK
  <2>5. CASE Placed(q)' /\ ~(Behind(q) > 0)
    <3>1. Placed(q) /\ Behind(q) = 0 /\ last_id'[q] = curr_offset
      BY <2>5, PutPartReader
    <3>2. ~MidMessage(p)
      BY <2>5, <3>1 DEF IInv, MidInv
    <3>3. updates'[last_id'[q]].part = 1
      BY <1>1, <1>4, <1>5, <1>7, <3>1, <3>2 DEF MidMessage
    <3>4. BufferOK(q)'
      BY <2>1, <2>2, <2>5, <3>1 DEF BufferOK
    <3>5. QED
      BY <3>3, <3>4 DEF NextOK
  <2>6. QED
    BY <2>3, <2>4, <2>5
<1>20. WholeMessages'
  BY <1>2 DEF IInv, WholeMessages
<1>21. QED
  BY <1>10, <1>11, <1>12, <1>13, <1>14, <1>15, <1>17, <1>18, <1>19, <1>20 DEF IInv

\* Around the end of the ring every reader keeps its place, but for the one that
\* has all of the ring before it.
LEMMA WrapReader ==
  ASSUME IInv, NEW p \in Proc, WrapQueue(p), NEW q \in Proc, Placed(q)'
  PROVE  /\ Placed(q) /\ Behind(q)' = Behind(q) /\ Position(q)' = Position(q)
         /\ last_id'[q] = last_id[q]
<1>1. /\ generation \in Nat /\ generation >= 2
      /\ curr_offset = QueueLen /\ QueueLen \in Nat
  BY WriterQueue DEF WrapQueue
<1>2. /\ generation' = generation + 1 /\ curr_offset' = 0
      /\ last_id' = last_id /\ last_generation' = last_generation
      /\ count' = count
  BY DEF WrapQueue
<1>3. last_id[q] >= 0 /\ ~Overrun(q)' /\ pc'[q] \notin {"skip", "create", "join"}
  BY <1>2 DEF Placed
<1>4. last_generation[q] \in 2 .. generation /\ last_id[q] \in Nat
  <2>1. last_id \in [Proc -> -1 .. QueueLen] /\ ReaderInv
    BY DEF IInv, TypeOK
  <2>2. QED
    BY <1>1, <1>3, <2>1 DEF ReaderInv
<1>5. pc[q] \notin {"skip", "create", "join"}
  BY <1>3 DEF WrapQueue, IInv, TypeOK
<1>6. last_generation[q] = generation
  BY <1>1, <1>2, <1>3, <1>4 DEF Overrun
<1>7. Placed(q)
  BY <1>3, <1>5, <1>6 DEF Placed, Overrun
<1>8. Behind(q)' = Behind(q)
  BY <1>1, <1>2, <1>4, <1>6 DEF Behind
<1>9. QED
  BY <1>2, <1>7, <1>8 DEF Position

\* The turn of the ring keeps the invariant: each offset is one ring behind now.
LEMMA WrapQueueKeeps ==
  ASSUME IInv, ~CrashInWrap, NEW p \in Proc, WrapQueue(p)
  PROVE  IInv'
<1>1. /\ generation \in Nat /\ generation >= 2
      /\ curr_offset = QueueLen /\ QueueLen \in Nat /\ QueueLen > 0
      /\ count \in Nat /\ chat_queue_lock = p
      /\ \A q \in Proc : q # p => pc[q] \notin {"append", "wrap"}
  BY WriterQueue DEF WrapQueue
<1>2. /\ generation' = generation + 1 /\ curr_offset' = 0
      /\ UNCHANGED <<updates, chat_queue_lock, mapped, placeVars, bufferVars, todo,
                     starts, count, sent, cut>>
  BY DEF WrapQueue
<1>3. /\ pc' \in [Proc -> {"idle", "create", "join", "lock", "append", "wrap", "skip"}]
      /\ pc'[p] = "append"
      /\ \A q \in Proc : q # p => pc'[q] = pc[q]
  BY DEF WrapQueue, IInv, TypeOK
<1>4. TypeOK'
  <2>1. generation' \in Nat /\ curr_offset' \in 0 .. QueueLen
    BY <1>1, <1>2
  <2>2. \A q \in Proc : pc'[q] \in {"append", "wrap"} <=> chat_queue_lock' = q
    BY <1>1, <1>2, <1>3
  <2>3. QED
    BY <1>2, <1>3, <2>1, <2>2 DEF IInv, TypeOK
<1>5. QueueInv'
  <2>1. curr_offset <= count
    BY DEF IInv, QueueInv
  <2>2. \A q \in Proc : pc'[q] # "wrap"
    BY <1>1, <1>3
  <2>3. QED
    BY <1>1, <1>2, <2>1, <2>2 DEF QueueInv
<1>6. WriterInv'
  BY <1>2, <1>3 DEF WrapQueue, IInv, WriterInv
<1>7. ReaderInv'
  <2>1. /\ ReaderInv /\ last_id \in [Proc -> -1 .. QueueLen]
        /\ last_generation \in [Proc -> Nat]
    BY DEF IInv, TypeOK
  <2>2. /\ last_id' = last_id /\ last_generation' = last_generation /\ mapped' = mapped
    BY <1>2 DEF placeVars
  <2>3. QED
    BY <1>1, <1>2, <2>1, <2>2 DEF ReaderInv
<1>8. ContentInv'
  <2>1. \A i \in 0 .. QueueLen - 1 : updates[i].n = count - QueueLen + i + 1
    BY <1>1 DEF IInv, ContentInv
  <2>2. QED
    BY <1>1, <1>2, <2>1 DEF IInv, ContentInv
<1>9. LogInv' /\ TailInv'
  BY <1>2 DEF IInv, LogInv, Follows, TailInv, MidMessage
<1>10. MidInv'
  <2>1. \A q \in Proc : MidMessage(q)' => MidMessage(q)
    BY <1>2 DEF MidMessage
  <2>2. QED
    BY <1>2, <2>1, WrapReader, StillMid
<1>11. BufferInv'
  <2> SUFFICES ASSUME NEW q \in Proc
               PROVE  BufferOK(q)' /\ NextOK(q)'
    BY DEF BufferInv
  <2>1. BufferOK(q) /\ NextOK(q)
    BY DEF IInv, BufferInv
  <2>2. queue_tmp_buf' = queue_tmp_buf /\ updates' = updates /\ (Intact(q)' <=> Intact(q))
    BY <1>2 DEF Intact
  <2>3. CASE ~Placed(q)'
    BY <2>1, <2>2, <2>3 DEF BufferOK, NextOK
  <2>4. CASE Placed(q)'
    BY <2>1, <2>2, <2>4, WrapReader DEF BufferOK, NextOK
  <2>5. QED
    BY <2>3, <2>4
<1>12. WholeMessages'
  BY <1>2 DEF IInv, WholeMessages
<1>13. QED
  BY <1>4, <1>5, <1>6, <1>7, <1>8, <1>9, <1>10, <1>11, <1>12 DEF IInv

\* A step that changes nothing keeps the invariant.
LEMMA StutterKeeps ==
  ASSUME IInv, UNCHANGED vars
  PROVE  IInv'
<1>1. UNCHANGED <<queueVars, chat_queue_lock, mapped, placeVars, bufferVars, pc, todo, starts, count, sent, cut>>
  BY DEF vars
<1>2. TypeOK' /\ WholeMessages'
  BY <1>1 DEF IInv, TypeOK, WholeMessages
<1>3. QueueInv' /\ WriterInv' /\ ReaderInv' /\ ContentInv'
  BY <1>1 DEF IInv, QueueInv, WriterInv, ReaderInv, ContentInv
<1>4. LogInv' /\ TailInv'
  BY <1>1 DEF IInv, LogInv, Follows, TailInv, MidMessage
<1>5. \A q \in Proc : Placed(q)' => Placed(q) /\ Behind(q)' = Behind(q)
  BY <1>1, StillPlaced DEF Placed
<1>6. MidInv'
  BY <1>1, <1>5, StillMid DEF MidMessage
<1>7. BufferInv'
  BY <1>1, <1>5, StillRead DEF BufferInv
<1>8. QED
  BY <1>2, <1>3, <1>4, <1>6, <1>7 DEF IInv

\* Every step keeps the invariant.
LEMMA StepInv ==
  ASSUME IInv, ~CrashInWrap, [Next]_vars
  PROVE  IInv'
<1>1. CASE UNCHANGED vars
  BY <1>1, StutterKeeps
<1>2. CASE Next /\ ~UNCHANGED vars
  <2>1. PICK p \in Proc :
          \/ CreateQueue(p) \/ JoinQueue(p) \/ StopQueue(p) \/ Die(p)
          \/ \E parts \in 1 .. MaxParts, to \in {Proc} \cup {{q} : q \in Proc \ {p}} :
               QueueChat(p, parts, to)
          \/ LockQueue(p) \/ PutPart(p) \/ WrapQueue(p) \/ UnlockQueue(p)
          \/ SendOverrun(p) \/ SkipAll(p) \/ SendOne(p)
    BY <1>2 DEF Next, Rest
  <2>2. CASE CreateQueue(p) \/ JoinQueue(p) \/ StopQueue(p) \/ Die(p)
    BY <2>2, CreateQueueKeeps, JoinQueueKeeps, StopQueueKeeps, DieKeeps
  <2>3. ASSUME NEW parts \in 1 .. MaxParts,
               NEW to \in {Proc} \cup {{q} : q \in Proc \ {p}},
               QueueChat(p, parts, to)
        PROVE  IInv'
    <3>1. to \in SUBSET Proc
      OBVIOUS
    <3>2. QED
      BY <2>3, <3>1, QueueChatKeeps
  <2>4. CASE LockQueue(p) \/ PutPart(p) \/ WrapQueue(p) \/ UnlockQueue(p)
    BY <2>4, LockQueueKeeps, PutPartKeeps, WrapQueueKeeps, UnlockQueueKeeps
  <2>5. CASE SendOverrun(p) \/ SkipAll(p) \/ SendOne(p)
    BY <2>5, SendOverrunKeeps, SkipAllKeeps, SendOneKeeps
  <2>6. QED
    BY <2>1, <2>2, <2>3, <2>4, <2>5
<1>3. QED
  BY <1>1, <1>2

\* The invariant of the ring of queue_chat.c: the entries are the last of the log,
\* in their order, each message's parts one after the other for the same readers,
\* and every buffer is the start of the message its reader goes on with.
THEOREM ChatInvariant ==
  ASSUME ~CrashInWrap
  PROVE  Spec => []IInv
<1>1. IInv /\ [Next]_vars => IInv'
  BY StepInv
<1>2. QED
  BY <1>1, InitInv, PTL DEF Spec

\* The queue, the places of the readers and their buffers are always of their type;
\* the holder of chat_queue_lock is the one that is in queue_chat's loop.
THEOREM ChatTypes ==
  ASSUME ~CrashInWrap
  PROVE  Spec => []TypeOK
BY ChatInvariant, PTL DEF IInv

\* What send_queued_chats posts is one message, all of it and nothing else, unless
\* parts were missed or the writer died, however long it is.
THEOREM MessagesAreWhole ==
  ASSUME ~CrashInWrap
  PROVE  Spec => []WholeMessages
BY ChatInvariant, PTL DEF IInv

-----------------------------------------------------------------------------
(* The ring implements the endless log.                                    *)

\* A reader keeps its position or loses it.
Kept(q) == Position(q)' = Position(q) \/ Position(q)' = -1

\* A reader that stays placed, as far behind as before, keeps its position.
LEMMA KeptPlace ==
  ASSUME NEW q \in Proc, UNCHANGED count,
         Placed(q)' => Placed(q) /\ Behind(q)' = Behind(q)
  PROVE  Kept(q)
BY DEF Kept, Position

\* No entry is written, and readers lose their places at most: the log drops those.
LEMMA DropStep ==
  ASSUME \A q \in Proc : Kept(q), UNCHANGED <<count, sent>>
  PROVE  Log!Next
<1> DEFINE S == {q \in Proc : Position(q)' = -1}
<1>1. Positions' = Log!Without(S)
  BY DEF Kept, Positions, Log!Without, Log!None
<1>2. QED
  BY <1>1 DEF Log!Next, Log!Drop

\* An entry is written, and readers lose their places at most.
LEMMA UpdateStep ==
  ASSUME \A q \in Proc : Kept(q), count' = count + 1, sent' = sent
  PROVE  Log!Next
<1> DEFINE S == {q \in Proc : Position(q)' = -1}
<1>1. Positions' = Log!Without(S)
  BY DEF Kept, Positions, Log!Without, Log!None
<1>2. QED
  BY <1>1 DEF Log!Next, Log!Update

\* Steps that leave the ring alone: they end p's place, or move nobody's.
LEMMA SameLog ==
  ASSUME IInv, NEW p \in Proc, NEW parts \in 1 .. MaxParts, NEW to \in SUBSET Proc,
         \/ StopQueue(p) \/ Die(p) \/ LockQueue(p) \/ UnlockQueue(p)
         \/ SendOverrun(p) \/ QueueChat(p, parts, to)
  PROVE  Log!Next
<1>1. UNCHANGED <<queueVars, count, sent>>
  BY DEF StopQueue, Die, LockQueue, UnlockQueue, SendOverrun, QueueChat
<1>2. ASSUME NEW q \in Proc
      PROVE  Kept(q)
  <2>1. CASE q # p
    <3>1. last_id'[q] = last_id[q] /\ last_generation'[q] = last_generation[q]
          /\ pc'[q] = pc[q]
      BY <2>1 DEF StopQueue, Die, LockQueue, UnlockQueue, SendOverrun, QueueChat,
         IInv, TypeOK
    <3>2. QED
      BY <1>1, <3>1, StillPlaced, KeptPlace DEF Placed
  <2>2. CASE q = p /\ (StopQueue(p) \/ Die(p))
    <3>1. last_id'[p] = -1
      BY <2>2 DEF StopQueue, Die, IInv, TypeOK
    <3>2. ~Placed(q)'
      BY <2>2, <3>1 DEF Placed
    <3>3. QED
      BY <3>2 DEF Kept, Position
  <2>3. CASE /\ q = p
             /\ \/ LockQueue(p) \/ UnlockQueue(p) \/ SendOverrun(p)
                \/ QueueChat(p, parts, to)
    <3>1. last_id' = last_id /\ last_generation' = last_generation
          /\ pc[p] \notin {"skip", "create", "join"}
      BY <2>3 DEF LockQueue, UnlockQueue, SendOverrun, QueueChat
    <3>2. QED
      BY <1>1, <2>3, <3>1, StillPlaced, KeptPlace DEF Placed
  <2>4. QED
    BY <2>1, <2>2, <2>3
<1>3. QED
  BY <1>1, <1>2, DropStep

\* Setting up the queue drops the process that does it, and with the queue
\* already there nobody else.
LEMMA CreateQueueLog ==
  ASSUME IInv, NEW p \in Proc, CreateQueue(p)
  PROVE  Log!Next
<1>1. UNCHANGED <<count, sent>>
  BY DEF CreateQueue
<1>2. ASSUME NEW q \in Proc, Placed(q)'
      PROVE  Placed(q) /\ Behind(q)' = Behind(q)
  <2>1. last_id'[q] >= 0 /\ pc'[q] # "join"
    BY <1>2 DEF Placed
  <2>2. q # p
    BY <2>1 DEF IInv, TypeOK, CreateQueue
  <2>3. last_id'[q] = last_id[q] /\ last_generation'[q] = last_generation[q]
        /\ pc'[q] = pc[q]
    BY <2>2 DEF IInv, TypeOK, CreateQueue
  <2>4. mapped[q]
    BY <2>1, <2>3 DEF IInv, ReaderInv
  <2>5. generation # 0
    BY <2>4, MappedQueue
  <2>6. UNCHANGED queueVars
    <3>1. curr_offset < QueueLen
      BY Unlocked DEF CreateQueue
    <3>2. ~Unusable
      BY <2>5, <3>1 DEF Unusable, IInv, TypeOK
    <3>3. QED
      BY <3>2 DEF CreateQueue
  <2>7. QED
    BY <1>2, <2>3, <2>6, StillPlaced DEF Placed
<1>3. QED
  BY <1>1, <1>2, KeptPlace, DropStep

\* set_last_chat_queue_id joins p at the end of the log.
LEMMA JoinLog ==
  ASSUME IInv, NEW p \in Proc, JoinQueue(p) \/ SkipAll(p)
  PROVE  Log!Next
<1>1. UNCHANGED <<queueVars, count, sent>>
  BY DEF JoinQueue, SkipAll
<1>2. ASSUME NEW q \in Proc, q # p
      PROVE  Kept(q)
  <2>1. last_id'[q] = last_id[q] /\ last_generation'[q] = last_generation[q]
        /\ pc'[q] = pc[q]
    BY <1>2 DEF JoinQueue, SkipAll, IInv, TypeOK
  <2>2. QED
    BY <1>1, <2>1, StillPlaced, KeptPlace DEF Placed
<1>3. last_id'[p] = curr_offset /\ last_generation'[p] = generation
      /\ pc'[p] \in {"idle", "lock"} /\ curr_offset \in Nat /\ count \in Nat
  BY DEF JoinQueue, SkipAll, IInv, TypeOK
<1>4. Placed(p)' /\ Behind(p)' = 0
  BY <1>1, <1>3 DEF Placed, Overrun, Behind
<1>5. Position(p)' = count
  BY <1>1, <1>3, <1>4 DEF Position
<1> DEFINE S == {q \in Proc \ {p} : Position(q)' = -1}
<1>6. Positions' = [Log!Without(S) EXCEPT ![p] = count]
  BY <1>2, <1>5 DEF Kept, Positions, Log!Without, Log!None
<1>7. Log!Join(p)
  BY <1>1, <1>6 DEF Log!Join
<1>8. QED
  BY <1>7 DEF Log!Next

\* A part written is an update of the log; it drops whom it overruns.
LEMMA PutPartLog ==
  ASSUME IInv, NEW p \in Proc, PutPart(p)
  PROVE  Log!Next
<1>1. count' = count + 1 /\ sent' = sent
  BY DEF PutPart
<1>2. ASSUME NEW q \in Proc
      PROVE  Kept(q)
  BY PutPartReader DEF Kept, Position
<1>3. QED
  BY <1>1, <1>2, UpdateStep

\* The turn of the ring drops whom it overruns.
LEMMA WrapQueueLog ==
  ASSUME IInv, NEW p \in Proc, WrapQueue(p)
  PROVE  Log!Next
<1>1. UNCHANGED <<count, sent>>
  BY DEF WrapQueue
<1>2. ASSUME NEW q \in Proc
      PROVE  Kept(q)
  BY WrapReader DEF Kept, Position
<1>3. QED
  BY <1>1, <1>2, DropStep

\* A reader is sent the entry after its position.
LEMMA SendOneLog ==
  ASSUME IInv, NEW p \in Proc, SendOne(p)
  PROVE  Log!Next
<1>1. /\ Position(p) \in Nat /\ Position(p)' = Position(p) + 1
      /\ updates[last_id[p]].n = Position(p) + 1
      /\ Placed(p) /\ Behind(p) \in Nat /\ Behind(p) > 0
  BY SendStep
<1>2. UNCHANGED <<queueVars, count, pc>>
      /\ sent' = [sent EXCEPT ![p] = Position(p) + 1]
  BY <1>1 DEF SendOne
<1>3. ASSUME NEW q \in Proc, q # p
      PROVE  Position(q)' = Position(q)
  <2>1. last_id'[q] = last_id[q] /\ last_generation'[q] = last_generation[q]
        /\ pc'[q] = pc[q]
    BY <1>2, <1>3 DEF SendOne, IInv, TypeOK
  <2>2. Placed(q)' = Placed(q) /\ Behind(q)' = Behind(q)
    BY <1>2, <2>1, StillPlaced DEF Placed
  <2>3. QED
    BY <1>2, <2>2 DEF Position
<1>4. Positions' = [Positions EXCEPT ![p] = Positions[p] + 1]
  BY <1>1, <1>3 DEF Positions
<1>5. Positions[p] = Position(p)
  BY DEF Positions
<1>6. Position(p) # -1 /\ Position(p) < count
  <2>1. Position(p) = count - Behind(p) /\ count \in Nat
    BY <1>1 DEF Position, IInv, TypeOK
  <2>2. QED
    BY <1>1, <2>1
<1>7. Log!Deliver(p)
  BY <1>2, <1>4, <1>5, <1>6 DEF Log!Deliver, Log!None
<1>8. QED
  BY <1>7 DEF Log!Next

\* Every step of the queue is a step of the log or leaves it alone.
LEMMA StepLog ==
  ASSUME IInv, [Next]_vars
  PROVE  [Log!Next]_Log!vars
<1>1. CASE UNCHANGED vars
  <2>1. Positions' = Positions
    BY <1>1 DEF vars, Positions, Position, Placed, Overrun, Behind
  <2>2. QED
    BY <1>1, <2>1 DEF vars, Log!vars
<1>2. CASE Next /\ ~UNCHANGED vars
  <2>1. PICK p \in Proc :
          \/ CreateQueue(p) \/ JoinQueue(p) \/ StopQueue(p) \/ Die(p)
          \/ \E parts \in 1 .. MaxParts, to \in {Proc} \cup {{q} : q \in Proc \ {p}} :
               QueueChat(p, parts, to)
          \/ LockQueue(p) \/ PutPart(p) \/ WrapQueue(p) \/ UnlockQueue(p)
          \/ SendOverrun(p) \/ SkipAll(p) \/ SendOne(p)
    BY <1>2 DEF Next, Rest
  <2>2. CASE StopQueue(p) \/ Die(p) \/ LockQueue(p) \/ UnlockQueue(p) \/ SendOverrun(p)
    <3>1. 1 \in 1 .. MaxParts /\ {} \in SUBSET Proc
      OBVIOUS
    <3>2. QED
      BY <2>2, <3>1, SameLog
  <2>3. ASSUME NEW parts \in 1 .. MaxParts,
               NEW to \in {Proc} \cup {{q} : q \in Proc \ {p}},
               QueueChat(p, parts, to)
        PROVE  Log!Next
    <3>1. to \in SUBSET Proc
      OBVIOUS
    <3>2. QED
      BY <2>3, <3>1, SameLog
  <2>4. CASE CreateQueue(p) \/ JoinQueue(p) \/ SkipAll(p)
    BY <2>4, CreateQueueLog, JoinLog
  <2>5. CASE PutPart(p) \/ WrapQueue(p) \/ SendOne(p)
    BY <2>5, PutPartLog, WrapQueueLog, SendOneLog
  <2>6. QED
    BY <2>1, <2>2, <2>3, <2>4, <2>5
<1>3. QED
  BY <1>1, <1>2

\* The queue begins as the empty log.
LEMMA InitLog == Init => Log!Init
<1> SUFFICES ASSUME Init
             PROVE  Log!Init
  OBVIOUS
<1>1. ASSUME NEW p \in Proc
      PROVE  Position(p) = -1
  <2>1. last_id[p] = -1
    BY DEF Init
  <2>2. QED
    BY <2>1 DEF Placed, Position
<1>2. QED
  BY <1>1 DEF Init, Log!Init, Log!None, Log!Wild, Positions

\* The ring of queue_chat.c implements the endless log: every reader is sent every
\* entry after its place, each once and in order, until it skips to the end.
THEOREM ChatImplementsLog ==
  ASSUME ~CrashInWrap
  PROVE  Spec => ImplementsLog
<1>1. Init => Log!Init
  BY InitLog
<1>2. IInv /\ [Next]_vars => [Log!Next]_Log!vars
  BY StepLog
<1>3. Spec => []IInv
  BY ChatInvariant
<1>4. QED
  BY <1>1, <1>2, <1>3, PTL DEF Spec, ImplementsLog, Log!Spec
=============================================================================

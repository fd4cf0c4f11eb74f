-------------------------- MODULE BlockQueueProofs --------------------------
(***************************************************************************)
(* Proofs about BlockQueue for every number of processes, every ring       *)
(* length and every batch: IInv is an invariant, and the ring implements   *)
(* the endless log of UpdateLog.  Both are about CrashInWrap = FALSE, no   *)
(* process dying between ++curr_offset and the reset of the offset.        *)
(***************************************************************************)
EXTENDS BlockQueue, TLAPS

USE ProcAssumption, LengthAssumption, SendAssumption, CrashAssumption,
    BoundAssumption

\* All that create_block_queue and check_block_queue do to what others see:
\* the ring is kept, perhaps longer, or emptied two generations on.
QueueStep(p) ==
  /\ updates' = updates
  /\ mmap_count' = [mmap_count EXCEPT ![p] = queue_len']
  /\ queue_len' \in MinQueue .. MaxLen
  /\ last_queue_len' \in 1 .. queue_len'
  /\ queue_len' = queue_len \/ LockFree
  /\ \/ /\ generation' = generation
        /\ generation > 0
        /\ curr_offset' = curr_offset
        /\ last_queue_len' = last_queue_len
        /\ queue_len <= queue_len'
     \/ /\ generation' = generation + 2
        /\ curr_offset' = 0
        /\ LockFree

LEMMA CreateStep ==
  ASSUME IInv, NEW p \in Proc, NEW want \in Wanted \cup {MinQueue},
         LockFree, CreateQueue(p, want)
  PROVE  QueueStep(p)
<1> DEFINE len == IF Unusable THEN MinQueue ELSE queue_len
           longer == IF want > len THEN want ELSE len
<1>1. want \in MinQueue .. MaxLen
  OBVIOUS
<1>2. CASE Unusable
  BY <1>1, <1>2 DEF IInv, TypeOK, CreateQueue, QueueStep
<1>3. CASE ~Unusable
  <2>1. generation > 0 /\ queue_len \in MinQueue .. MaxLen
        /\ last_queue_len \in 1 .. queue_len
    BY <1>3 DEF IInv, TypeOK, QueueInv, Unusable
  <2>2. QED
    BY <1>1, <1>3, <2>1 DEF IInv, TypeOK, CreateQueue, QueueStep
<1>4. QED
  BY <1>2, <1>3

LEMMA CheckStep ==
  ASSUME IInv, NEW p \in Proc, HasQueue(p),
         mmap_count[p] < queue_len => LockFree, CheckQueue(p)
  PROVE  QueueStep(p)
<1>1. generation > 0 /\ queue_len \in MinQueue .. MaxLen
      /\ last_queue_len \in 1 .. queue_len
  BY DEF IInv, TypeOK, UserInv, UserOK, QueueInv
<1>2. CASE mmap_count[p] >= queue_len
  BY <1>1, <1>2 DEF CheckQueue, QueueStep, IInv, TypeOK, queueVars, CreateQueue
<1>3. CASE mmap_count[p] < queue_len
  BY <1>3, CreateStep DEF CheckQueue, IInv, TypeOK
<1>4. QED
  BY <1>2, <1>3 DEF IInv, TypeOK

\* A process that checks the queue leaves the ring as the invariant has it,
\* and every reader that does not move keeps what it stands on or loses it.
LEMMA QueueStepKeeps ==
  ASSUME IInv, NEW p \in Proc, QueueStep(p), count' = count
  PROVE  /\ generation' \in Nat /\ generation' > 0
         /\ queue_len' \in Nat /\ last_queue_len' \in Nat
         /\ curr_offset' \in Nat /\ mmap_count' \in [Proc -> Nat]
         /\ curr_offset' <= count /\ curr_offset' <= queue_len'
         /\ curr_offset' = queue_len' => \E q \in Proc : pc[q] = "wrap"
         /\ ContentInv'
         /\ \A q \in Proc :
              Joined(q) /\ last_id'[q] = last_id[q]
                        /\ last_generation'[q] = last_generation[q]
              => ReaderOK(q)'
<1>1. /\ generation' \in Nat /\ generation' > 0
      /\ queue_len' \in Nat /\ last_queue_len' \in Nat
      /\ curr_offset' \in Nat /\ mmap_count' \in [Proc -> Nat]
      /\ curr_offset' <= count
  BY DEF QueueStep, IInv, TypeOK, QueueInv
<1>2. CASE /\ generation' = generation
           /\ generation > 0
           /\ curr_offset' = curr_offset
           /\ last_queue_len' = last_queue_len
           /\ queue_len <= queue_len'
  <2>1. curr_offset' <= queue_len'
    BY <1>1, <1>2 DEF IInv, TypeOK, QueueInv
  <2>2. curr_offset' = queue_len' => \E q \in Proc : pc[q] = "wrap"
    BY <1>1, <1>2 DEF IInv, TypeOK, QueueInv
  <2>3. ContentInv'
    BY <1>2 DEF QueueStep, IInv, ContentInv
  <2>4. ASSUME NEW q \in Proc, Joined(q), last_id'[q] = last_id[q],
               last_generation'[q] = last_generation[q]
        PROVE  ReaderOK(q)'
    BY <1>1, <1>2, <2>4 DEF QueueStep, IInv, TypeOK, ReaderInv, ReaderOK
  <2>5. QED
    BY <1>1, <2>1, <2>2, <2>3, <2>4
<1>3. CASE /\ generation' = generation + 2
           /\ curr_offset' = 0
  <2>1. curr_offset' < queue_len'
    BY <1>1, <1>3 DEF QueueStep
  <2>2. ContentInv'
    BY <1>3 DEF ContentInv
  <2>3. ASSUME NEW q \in Proc, Joined(q), last_id'[q] = last_id[q],
               last_generation'[q] = last_generation[q]
        PROVE  ReaderOK(q)'
    <3>1. last_generation[q] <= generation /\ last_generation[q] \in Nat
          /\ generation \in Nat
      BY <2>3 DEF IInv, TypeOK, ReaderInv, ReaderOK
    <3>2. QED
      BY <1>3, <2>3, <3>1 DEF ReaderOK
  <2>4. QED
    BY <1>1, <2>1, <2>2, <2>3
<1>4. QED
  BY <1>2, <1>3 DEF QueueStep

LEMMA InitInv == Init => IInv
<1> SUFFICES ASSUME Init PROVE IInv
  OBVIOUS
<1>1. TypeOK
  BY DEF Init, TypeOK, Slots, Locations, Wild
<1>2. LockInv
  BY DEF Init, LockInv
<1>3. QueueInv /\ UserInv /\ ContentInv
  BY DEF Init, QueueInv, UserInv, UserOK, HasQueue, ContentInv
<1>4. ReaderInv
  BY DEF Init, ReaderInv, Joined, HasQueue
<1>5. QED
  BY <1>1, <1>2, <1>3, <1>4 DEF IInv

\* A step of p that checks the queue and moves no other process keeps IInv
\* when it does for p itself.
LEMMA CheckedInv ==
  ASSUME IInv, NEW p \in Proc, QueueStep(p), count' = count,
         TypeOK', LockInv', UserOK(p)', Joined(p)' => ReaderOK(p)',
         \A q \in Proc : pc'[q] = "wrap" <=> pc[q] = "wrap",
         \A q \in Proc \ {p} :
           /\ pc'[q] = pc[q]
           /\ budget'[q] = budget[q]
           /\ last_id'[q] = last_id[q]
           /\ last_generation'[q] = last_generation[q]
           /\ reload_pending'[q] = reload_pending[q]
  PROVE  IInv'
<1>1. /\ generation' \in Nat /\ generation' > 0
      /\ queue_len' \in Nat /\ last_queue_len' \in Nat
      /\ curr_offset' \in Nat
      /\ curr_offset' <= count /\ curr_offset' <= queue_len'
  BY QueueStepKeeps
<1>2. curr_offset' = queue_len' => \E q \in Proc : pc[q] = "wrap"
  BY QueueStepKeeps
<1>3. ContentInv'
  BY QueueStepKeeps
<1>4. \A q \in Proc :
        Joined(q) /\ last_id'[q] = last_id[q]
                  /\ last_generation'[q] = last_generation[q]
        => ReaderOK(q)'
  BY QueueStepKeeps
<1>5. QueueInv'
  <2>1. (\E q \in Proc : pc[q] = "wrap") =>
          ~LockFree /\ curr_offset = queue_len
    BY DEF LockFree, IInv, LockInv, QueueInv, UserInv, UserOK, TypeOK
  <2>2. QED
    BY <1>1, <1>2, <2>1 DEF QueueInv, QueueStep
<1>6. ASSUME NEW q \in Proc \ {p}
      PROVE  HasQueue(q)' = HasQueue(q) /\ Joined(q)' = Joined(q)
  BY <1>6 DEF QueueStep, HasQueue, Joined, IInv, TypeOK
<1>7. UserInv'
  <2> SUFFICES ASSUME NEW q \in Proc, q # p PROVE UserOK(q)'
    BY DEF UserInv
  <2>1. pc[q] \in {"append", "wrap"} => mmap_count'[q] = queue_len'
    BY DEF QueueStep, LockFree, IInv, TypeOK, LockInv, UserInv, UserOK
  <2>2. UserOK(q)
    BY DEF IInv, UserInv
  <2>3. QED
    BY <1>1, <1>6, <2>1, <2>2 DEF UserOK
<1>8. ReaderInv'
  BY <1>4, <1>6 DEF ReaderInv
<1>9. QED
  BY <1>3, <1>5, <1>7, <1>8 DEF IInv

LEMMA OpenLevelInv ==
  ASSUME IInv, NEW p \in Proc, OpenLevel(p)
  PROVE  IInv'
<1>1. QueueStep(p)
  <2>1. PICK want \in Wanted \cup {MinQueue} : CreateQueue(p, want)
    BY DEF OpenLevel
  <2>2. QED
    BY <2>1, CreateStep DEF OpenLevel
<1>2. count' = count
  BY DEF OpenLevel, histVars
<1>3. generation' \in Nat /\ generation' > 0 /\ curr_offset' \in Nat
      /\ mmap_count' \in [Proc -> Nat]
  BY <1>1, <1>2, QueueStepKeeps
<1>4. TypeOK'
  BY <1>1, <1>3 DEF OpenLevel, QueueStep, IInv, TypeOK, Locations, histVars
<1>5. LockInv'
  BY DEF OpenLevel, IInv, TypeOK, LockInv, Idle
<1>6. UserOK(p)'
  BY <1>1, <1>3 DEF OpenLevel, QueueStep, UserOK, HasQueue, IInv, TypeOK
<1>7. ~Joined(p)'
  BY DEF OpenLevel, Joined, IInv, TypeOK
<1>8. QED
  BY <1>1, <1>2, <1>4, <1>5, <1>6, <1>7, CheckedInv
     DEF OpenLevel, Idle, IInv, TypeOK

\* set_last_block_queue_id puts p where a reader may stand.
LEMMA SetLastStands ==
  ASSUME IInv, NEW p \in Proc, HasQueue(p), SetLast(p), count' = count
  PROVE  /\ QueueStep(p)
         /\ ReaderOK(p)'
         /\ last_id' \in [Proc -> Nat \cup {-1}]
         /\ last_generation' \in [Proc -> Nat]
         /\ generation' \in Nat /\ generation' > 0 /\ curr_offset' \in Nat
         /\ mmap_count' \in [Proc -> Nat]
<1>1. QueueStep(p)
  BY CheckStep DEF SetLast
<1>2. /\ generation' \in Nat /\ generation' > 0
      /\ queue_len' \in Nat
      /\ curr_offset' \in Nat
      /\ mmap_count' \in [Proc -> Nat]
      /\ curr_offset' <= queue_len'
  BY <1>1, QueueStepKeeps
<1>3. curr_offset' = queue_len' => \E q \in Proc : pc[q] = "wrap"
  BY <1>1, QueueStepKeeps
<1>4. last_id'[p] = curr_offset' /\ last_generation'[p] = generation'
  BY DEF SetLast, IInv, TypeOK
<1>5. curr_offset' < queue_len'
  <2>1. ~ \E q \in Proc : pc[q] = "wrap"
    BY DEF SetLast, LockFree, IInv, LockInv
  <2>2. QED
    BY <1>2, <1>3, <2>1
<1>6. ReaderOK(p)'
  BY <1>2, <1>4, <1>5 DEF ReaderOK
<1>7. last_id' \in [Proc -> Nat \cup {-1}]
      /\ last_generation' \in [Proc -> Nat]
  BY <1>2 DEF SetLast, IInv, TypeOK
<1>8. QED
  BY <1>1, <1>2, <1>6, <1>7

LEMMA SendMapFileInv ==
  ASSUME IInv, NEW p \in Proc, SendMapFile(p)
  PROVE  IInv'
<1>1. HasQueue(p) /\ count' = count
  BY DEF SendMapFile, IInv, UserInv, UserOK, histVars
<1>2. /\ QueueStep(p)
      /\ ReaderOK(p)'
      /\ last_id' \in [Proc -> Nat \cup {-1}]
      /\ last_generation' \in [Proc -> Nat]
      /\ generation' \in Nat /\ generation' > 0 /\ curr_offset' \in Nat
      /\ mmap_count' \in [Proc -> Nat]
  BY <1>1, SetLastStands DEF SendMapFile
<1>3. TypeOK'
  BY <1>2 DEF SendMapFile, QueueStep, IInv, TypeOK, Locations, histVars
<1>4. LockInv'
  BY DEF SendMapFile, IInv, TypeOK, LockInv
<1>5. UserOK(p)'
  BY <1>2 DEF SendMapFile, UserOK, IInv, TypeOK
<1>6. QED
  BY <1>1, <1>2, <1>3, <1>4, <1>5, CheckedInv
     DEF SendMapFile, SetLast, IInv, TypeOK

LEMMA ReloadNowInv ==
  ASSUME IInv, NEW p \in Proc, ReloadNow(p)
  PROVE  IInv'
<1>1. HasQueue(p) /\ count' = count
  BY DEF ReloadNow, histVars
<1>2. /\ QueueStep(p)
      /\ ReaderOK(p)'
      /\ last_id' \in [Proc -> Nat \cup {-1}]
      /\ last_generation' \in [Proc -> Nat]
      /\ generation' \in Nat /\ generation' > 0 /\ curr_offset' \in Nat
      /\ mmap_count' \in [Proc -> Nat]
  BY <1>1, SetLastStands DEF ReloadNow
<1>3. TypeOK'
  BY <1>2 DEF ReloadNow, QueueStep, IInv, TypeOK, histVars
<1>4. LockInv'
  BY DEF ReloadNow, IInv, LockInv
<1>5. UserOK(p)'
  BY <1>2 DEF ReloadNow, Idle, UserOK, IInv, TypeOK
<1>6. QED
  BY <1>1, <1>2, <1>3, <1>4, <1>5, CheckedInv
     DEF ReloadNow, SetLast, IInv, TypeOK

\* The other steps that check the queue: only p's place in the program moves.
LEMMA LockQueueInv ==
  ASSUME IInv, NEW p \in Proc, LockQueue(p)
  PROVE  IInv'
<1>1. QueueStep(p) /\ count' = count
  BY CheckStep DEF LockQueue, histVars
<1>2. generation' \in Nat /\ generation' > 0 /\ curr_offset' \in Nat
      /\ mmap_count' \in [Proc -> Nat]
  BY <1>1, QueueStepKeeps
<1>3. TypeOK'
  BY <1>1, <1>2
     DEF LockQueue, QueueStep, IInv, TypeOK, Locations, histVars, readerVars
<1>4. LockInv'
  BY DEF LockQueue, Idle, LockFree, IInv, TypeOK, LockInv
<1>5. UserOK(p)'
  BY <1>1, <1>2 DEF LockQueue, QueueStep, UserOK, HasQueue, IInv, TypeOK
<1>6. Joined(p)' => ReaderOK(p)'
  <2>1. Joined(p)' => Joined(p)
    BY DEF LockQueue, Joined, readerVars
  <2>2. QED
    BY <1>1, <2>1, QueueStepKeeps DEF LockQueue, readerVars
<1>7. QED
  BY <1>1, <1>3, <1>4, <1>5, <1>6, CheckedInv
     DEF LockQueue, Idle, readerVars, IInv, TypeOK
LEMMA SendStartInv ==
  ASSUME IInv, NEW p \in Proc, SendStart(p)
  PROVE  IInv'
<1>1. QueueStep(p) /\ count' = count
  BY CheckStep DEF SendStart, histVars
<1>2. generation' \in Nat /\ generation' > 0 /\ curr_offset' \in Nat
      /\ mmap_count' \in [Proc -> Nat]
  BY <1>1, QueueStepKeeps
<1>3. TypeOK'
  BY <1>1, <1>2
     DEF SendStart, QueueStep, IInv, TypeOK, Locations, histVars, readerVars
<1>4. LockInv'
  BY DEF SendStart, Idle, IInv, TypeOK, LockInv
<1>5. Joined(p)' => Joined(p)
  BY DEF SendStart, Joined, readerVars, IInv, TypeOK
<1>6. Joined(p)' => ReaderOK(p)'
  BY <1>1, <1>5, QueueStepKeeps DEF SendStart, readerVars
<1>7. UserOK(p)'
  BY <1>1, <1>2 DEF SendStart, Idle, QueueStep, UserOK, HasQueue, Joined,
     readerVars, IInv, TypeOK
<1>8. QED
  BY <1>1, <1>3, <1>4, <1>6, <1>7, CheckedInv
     DEF SendStart, Idle, readerVars, IInv, TypeOK

LEMMA ReloadRequestInv ==
  ASSUME IInv, NEW p \in Proc, ReloadRequest(p)
  PROVE  IInv'
<1>1. QueueStep(p) /\ count' = count
  BY CheckStep DEF ReloadRequest, histVars
<1>2. generation' \in Nat /\ generation' > 0 /\ curr_offset' \in Nat
      /\ mmap_count' \in [Proc -> Nat]
  BY <1>1, QueueStepKeeps
<1>3. TypeOK'
  BY <1>1, <1>2
     DEF ReloadRequest, QueueStep, IInv, TypeOK, Locations, histVars, readerVars
<1>4. LockInv'
  BY DEF ReloadRequest, Idle, IInv, TypeOK, LockInv
<1>5. Joined(p)' => Joined(p)
  BY DEF ReloadRequest, Joined, readerVars, IInv, TypeOK
<1>6. Joined(p)' => ReaderOK(p)'
  BY <1>1, <1>5, QueueStepKeeps DEF ReloadRequest, readerVars
<1>7. UserOK(p)'
  BY <1>1, <1>2 DEF ReloadRequest, Idle, QueueStep, UserOK, HasQueue, Joined,
     readerVars, IInv, TypeOK
<1>8. QED
  BY <1>1, <1>3, <1>4, <1>6, <1>7, CheckedInv
     DEF ReloadRequest, Idle, readerVars, IInv, TypeOK

\* Steps that do not touch the queue file.
LEMMA QueueSameInv ==
  ASSUME IInv, NEW p \in Proc, UNCHANGED <<queueVars, count>>,
         TypeOK', LockInv', UserOK(p)', Joined(p)' => ReaderOK(p)',
         \A q \in Proc : pc'[q] = "wrap" <=> pc[q] = "wrap",
         \A q \in Proc \ {p} :
           /\ pc'[q] = pc[q]
           /\ budget'[q] = budget[q]
           /\ mmap_count'[q] = mmap_count[q]
           /\ last_id'[q] = last_id[q]
           /\ last_generation'[q] = last_generation[q]
           /\ reload_pending'[q] = reload_pending[q]
  PROVE  IInv'
<1>1. QueueInv' /\ ContentInv'
  <2>1. (\E q \in Proc : pc'[q] = "wrap") <=> (\E q \in Proc : pc[q] = "wrap")
    OBVIOUS
  <2>2. QED
    BY <2>1 DEF IInv, queueVars, QueueInv, ContentInv
<1>2. UserInv'
  BY DEF IInv, queueVars, UserInv, UserOK, HasQueue, Joined
<1>3. ReaderInv'
  BY DEF IInv, queueVars, ReaderInv, ReaderOK, HasQueue, Joined
<1>4. QED
  BY <1>1, <1>2, <1>3 DEF IInv

LEMMA StopSharedInv ==
  ASSUME IInv, NEW p \in Proc, StopShared(p)
  PROVE  IInv'
<1>1. TypeOK'
  BY DEF StopShared, IInv, TypeOK, Locations, histVars, queueVars, readerVars,
     UserInv, UserOK, Readable, Wild
<1>2. LockInv'
  BY DEF StopShared, Idle, IInv, TypeOK, LockInv
<1>3. UserOK(p)'
  BY DEF StopShared, Idle, UserOK, HasQueue, Joined, queueVars, readerVars,
     IInv, TypeOK, UserInv
<1>4. Joined(p)' => ReaderOK(p)'
  BY DEF StopShared, Joined, HasQueue, queueVars, readerVars, histVars, IInv,
     TypeOK, ReaderInv, ReaderOK
<1>5. QED
  BY <1>1, <1>2, <1>3, <1>4, QueueSameInv
     DEF StopShared, Idle, queueVars, readerVars, histVars, IInv, TypeOK

LEMMA UnlockQueueInv ==
  ASSUME IInv, NEW p \in Proc, UnlockQueue(p)
  PROVE  IInv'
<1>1. TypeOK'
  BY DEF UnlockQueue, IInv, TypeOK, Locations, histVars, queueVars, readerVars,
     UserInv, UserOK, Readable, Wild
<1>2. LockInv'
  BY DEF UnlockQueue, Idle, IInv, TypeOK, LockInv
<1>3. UserOK(p)'
  BY DEF UnlockQueue, Idle, UserOK, HasQueue, Joined, queueVars, readerVars,
     IInv, TypeOK, UserInv
<1>4. Joined(p)' => ReaderOK(p)'
  BY DEF UnlockQueue, Joined, HasQueue, queueVars, readerVars, histVars, IInv,
     TypeOK, ReaderInv, ReaderOK
<1>5. QED
  BY <1>1, <1>2, <1>3, <1>4, QueueSameInv
     DEF UnlockQueue, Idle, queueVars, readerVars, histVars, IInv, TypeOK

LEMMA ReloadCancelInv ==
  ASSUME IInv, NEW p \in Proc, ReloadCancel(p)
  PROVE  IInv'
<1>1. TypeOK'
  BY DEF ReloadCancel, IInv, TypeOK, Locations, histVars, queueVars, readerVars,
     UserInv, UserOK, Readable, Wild
<1>2. LockInv'
  BY DEF ReloadCancel, Idle, IInv, TypeOK, LockInv
<1>3. UserOK(p)'
  BY DEF ReloadCancel, Idle, UserOK, HasQueue, Joined, queueVars, readerVars,
     IInv, TypeOK, UserInv
<1>4. Joined(p)' => ReaderOK(p)'
  BY DEF ReloadCancel, Joined, HasQueue, queueVars, readerVars, histVars, IInv,
     TypeOK, ReaderInv, ReaderOK
<1>5. QED
  BY <1>1, <1>2, <1>3, <1>4, QueueSameInv
     DEF ReloadCancel, Idle, queueVars, readerVars, histVars, IInv, TypeOK

LEMMA ReloadCountdownInv ==
  ASSUME IInv, NEW p \in Proc, ReloadCountdown(p)
  PROVE  IInv'
<1>1. TypeOK'
  BY DEF ReloadCountdown, IInv, TypeOK, Locations, histVars, queueVars, readerVars,
     UserInv, UserOK, Readable, Wild
<1>2. LockInv'
  BY DEF ReloadCountdown, Idle, IInv, TypeOK, LockInv
<1>3. UserOK(p)'
  BY DEF ReloadCountdown, Idle, UserOK, HasQueue, Joined, queueVars, readerVars,
     IInv, TypeOK, UserInv
<1>4. Joined(p)' => ReaderOK(p)'
  BY DEF ReloadCountdown, Joined, HasQueue, queueVars, readerVars, histVars, IInv,
     TypeOK, ReaderInv, ReaderOK
<1>5. QED
  BY <1>1, <1>2, <1>3, <1>4, QueueSameInv
     DEF ReloadCountdown, Idle, queueVars, readerVars, histVars, IInv, TypeOK

LEMMA SendOverrunInv ==
  ASSUME IInv, NEW p \in Proc, SendOverrun(p)
  PROVE  IInv'
<1>1. TypeOK'
  BY DEF SendOverrun, IInv, TypeOK, Locations, histVars, queueVars, readerVars,
     UserInv, UserOK, Readable, Wild
<1>2. LockInv'
  BY DEF SendOverrun, Idle, IInv, TypeOK, LockInv
<1>3. UserOK(p)'
  BY DEF SendOverrun, Idle, UserOK, HasQueue, Joined, queueVars, readerVars,
     IInv, TypeOK, UserInv
<1>4. Joined(p)' => ReaderOK(p)'
  BY DEF SendOverrun, Joined, HasQueue, queueVars, readerVars, histVars, IInv,
     TypeOK, ReaderInv, ReaderOK
<1>5. QED
  BY <1>1, <1>2, <1>3, <1>4, QueueSameInv
     DEF SendOverrun, Idle, queueVars, readerVars, histVars, IInv, TypeOK

LEMMA SendDoneInv ==
  ASSUME IInv, NEW p \in Proc, SendDone(p)
  PROVE  IInv'
<1>1. TypeOK'
  BY DEF SendDone, IInv, TypeOK, Locations, histVars, queueVars, readerVars,
     UserInv, UserOK, Readable, Wild
<1>2. LockInv'
  BY DEF SendDone, Idle, IInv, TypeOK, LockInv
<1>3. UserOK(p)'
  BY DEF SendDone, Idle, UserOK, HasQueue, Joined, queueVars, readerVars,
     IInv, TypeOK, UserInv
<1>4. Joined(p)' => ReaderOK(p)'
  BY DEF SendDone, Joined, HasQueue, queueVars, readerVars, histVars, IInv,
     TypeOK, ReaderInv, ReaderOK
<1>5. QED
  BY <1>1, <1>2, <1>3, <1>4, QueueSameInv
     DEF SendDone, Idle, queueVars, readerVars, histVars, IInv, TypeOK

\* The one lemma that needs CrashInWrap = FALSE: with it the offset would stay
\* at the end of the ring with no writer to reset it.
LEMMA DieInv ==
  ASSUME IInv, ~CrashInWrap, NEW p \in Proc, Die(p)
  PROVE  IInv'
<1>1. TypeOK'
  BY DEF Die, IInv, TypeOK, Locations, histVars, queueVars
<1>2. LockInv'
  BY DEF Die, IInv, TypeOK, LockInv
<1>3. UserOK(p)' /\ ~Joined(p)'
  BY DEF Die, UserOK, HasQueue, Joined, IInv, TypeOK
<1>4. QED
  BY <1>1, <1>2, <1>3, QueueSameInv DEF Die, queueVars, histVars, IInv, TypeOK

\* Steps that only move the generation on by two, lock or no lock.
LEMMA VoidInv ==
  ASSUME IInv, NEW p \in Proc,
         ReloadAll(p) \/ ResizeLevel(p)
  PROVE  IInv'
<1>1. /\ generation' = generation + 2
      /\ UNCHANGED <<curr_offset, queue_len, last_queue_len, updates,
                     level_lock, mmap_count, readerVars, pc, budget, count,
                     sent>>
      /\ voids' = voids + 1
      /\ HasQueue(p)
  BY DEF ReloadAll, ResizeLevel
<1>2. TypeOK'
  BY <1>1 DEF ReloadAll, ResizeLevel, IInv, TypeOK, readerVars, histVars
<1>3. LockInv' /\ QueueInv' /\ UserInv' /\ ContentInv'
  BY <1>1 DEF IInv, TypeOK, LockInv, QueueInv, UserInv, UserOK, HasQueue,
     Joined, ContentInv, readerVars, histVars
<1>4. ReaderInv'
  <2> SUFFICES ASSUME NEW q \in Proc, Joined(q)' PROVE ReaderOK(q)'
    BY DEF ReaderInv
  <2>1. last_generation[q] <= generation /\ last_generation[q] \in Nat
        /\ generation \in Nat
    BY <1>1 DEF IInv, TypeOK, ReaderInv, ReaderOK, Joined, HasQueue, readerVars
  <2>2. QED
    BY <1>1, <2>1 DEF ReaderOK, readerVars
<1>5. QED
  BY <1>2, <1>3, <1>4 DEF IInv

LEMMA PutUpdateInv ==
  ASSUME IInv, NEW p \in Proc, PutUpdate(p)
  PROVE  IInv'
<1>1. /\ generation > 0 /\ generation \in Nat
      /\ queue_len \in MinQueue .. MaxLen /\ last_queue_len \in 1 .. queue_len
      /\ curr_offset \in 0 .. queue_len - 1 /\ count \in Nat
      /\ curr_offset <= count
      /\ updates \in [Slots -> Nat] /\ curr_offset \in Slots
  <2>1. generation > 0 /\ level_lock = p
    BY DEF PutUpdate, IInv, LockInv, UserInv, UserOK
  <2>2. ~ \E q \in Proc : pc[q] = "wrap"
    BY <2>1 DEF PutUpdate, IInv, LockInv
  <2>3. QED
    BY <2>1, <2>2 DEF IInv, TypeOK, QueueInv, Slots
<1>2. TypeOK'
  BY <1>1 DEF PutUpdate, IInv, TypeOK, Locations, readerVars
<1>3. LockInv'
  BY DEF PutUpdate, IInv, TypeOK, LockInv
<1>4. QueueInv'
  BY <1>1 DEF PutUpdate, QueueInv, IInv, TypeOK
<1>5. UserInv'
  BY <1>1 DEF PutUpdate, UserInv, UserOK, HasQueue, Joined, IInv, TypeOK,
     readerVars
<1>6. ContentInv'
  BY <1>1 DEF PutUpdate, ContentInv, IInv, Slots
<1>7. ReaderInv'
  <2> SUFFICES ASSUME NEW q \in Proc, Joined(q)' PROVE ReaderOK(q)'
    BY DEF ReaderInv
  <2>1. ReaderOK(q) /\ last_id[q] \in Nat \cup {-1}
        /\ last_generation[q] \in Nat
    BY DEF PutUpdate, IInv, TypeOK, ReaderInv, Joined, HasQueue, readerVars
  <2>2. CASE last_generation[q] = generation - 1
    <3>1. \A i \in curr_offset + 1 .. last_queue_len - 1 :
            updates'[i] = updates[i]
      BY <1>1 DEF PutUpdate, Slots
    <3>2. QED
      BY <1>1, <2>1, <2>2, <3>1 DEF PutUpdate, ReaderOK, readerVars
  <2>3. CASE last_generation[q] # generation - 1
    BY <1>1, <2>1, <2>3 DEF PutUpdate, ReaderOK, readerVars
  <2>4. QED
    BY <2>2, <2>3
<1>8. QED
  BY <1>2, <1>3, <1>4, <1>5, <1>6, <1>7 DEF IInv

LEMMA WrapQueueInv ==
  ASSUME IInv, NEW p \in Proc, WrapQueue(p)
  PROVE  IInv'
<1>1. /\ generation > 0 /\ generation \in Nat
      /\ queue_len \in MinQueue .. MaxLen
      /\ curr_offset <= queue_len /\ curr_offset \in Nat /\ count \in Nat
      /\ curr_offset <= count
  BY DEF WrapQueue, IInv, TypeOK, QueueInv, UserInv, UserOK
<1>2. curr_offset = queue_len
  BY <1>1 DEF WrapQueue, IInv, QueueInv
<1>3. TypeOK'
  BY <1>1 DEF WrapQueue, IInv, TypeOK, Locations, readerVars, histVars
<1>4. LockInv'
  BY DEF WrapQueue, IInv, TypeOK, LockInv
<1>5. QueueInv' /\ ContentInv'
  <2>1. ~ \E q \in Proc : pc'[q] = "wrap"
    BY DEF WrapQueue, IInv, TypeOK, LockInv
  <2>2. curr_offset' = 0 /\ generation' > 0 /\ last_queue_len' = queue_len
        /\ queue_len' = queue_len /\ count' = count
    BY <1>1 DEF WrapQueue, histVars
  <2>3. QueueInv'
    BY <1>1, <2>1, <2>2 DEF QueueInv
  <2>4. ContentInv'
    BY <2>2 DEF ContentInv
  <2>5. QED
    BY <2>3, <2>4
<1>6. UserInv'
  BY <1>1 DEF WrapQueue, UserInv, UserOK, HasQueue, Joined, IInv, TypeOK,
     readerVars
<1>7. ReaderInv'
  <2> SUFFICES ASSUME NEW q \in Proc, Joined(q)' PROVE ReaderOK(q)'
    BY DEF ReaderInv
  <2>1. ReaderOK(q) /\ last_id[q] \in Nat \cup {-1}
        /\ last_generation[q] \in Nat
    BY DEF WrapQueue, IInv, TypeOK, ReaderInv, Joined, HasQueue, readerVars
  <2>2. QED
    BY <1>1, <1>2, <2>1 DEF WrapQueue, ReaderOK, readerVars, histVars, IInv, ContentInv
<1>8. QED
  BY <1>3, <1>4, <1>5, <1>6, <1>7 DEF IInv

\* A raced /reload all is the wrap of the writer it raced with, or two
\* generations on with the offset at the start.
LEMMA RacedInv ==
  ASSUME IInv, NEW p \in Proc, ReloadAllRaced(p)
  PROVE  IInv'
<1>1. PICK r \in Proc : pc[r] = "wrap" /\ pc' = [pc EXCEPT ![r] = "append"]
  BY DEF ReloadAllRaced
<1>2. /\ generation > 0 /\ generation \in Nat
      /\ queue_len \in MinQueue .. MaxLen
      /\ curr_offset = queue_len /\ count \in Nat /\ curr_offset <= count
  BY <1>1 DEF IInv, TypeOK, QueueInv, UserInv, UserOK
<1>3. TypeOK'
  BY <1>1, <1>2 DEF ReloadAllRaced, IInv, TypeOK, Locations, readerVars
<1>4. LockInv'
  BY <1>1 DEF ReloadAllRaced, IInv, TypeOK, LockInv
<1>5. QueueInv' /\ ContentInv'
  <2>1. ~ \E q \in Proc : pc'[q] = "wrap"
    BY <1>1 DEF IInv, TypeOK, LockInv
  <2>2. curr_offset' = 0 /\ generation' > 0 /\ last_queue_len' = queue_len
        /\ queue_len' = queue_len /\ count' = count
    BY <1>2 DEF ReloadAllRaced
  <2>3. QueueInv'
    BY <1>2, <2>1, <2>2 DEF QueueInv
  <2>4. ContentInv'
    BY <2>2 DEF ContentInv
  <2>5. QED
    BY <2>3, <2>4
<1>6. UserInv'
  BY <1>1, <1>2 DEF ReloadAllRaced, UserInv, UserOK, HasQueue, Joined, IInv,
     TypeOK, readerVars
<1>7. ReaderInv'
  <2> SUFFICES ASSUME NEW q \in Proc, Joined(q)' PROVE ReaderOK(q)'
    BY DEF ReaderInv
  <2>1. ReaderOK(q) /\ last_id[q] \in Nat \cup {-1}
        /\ last_generation[q] \in Nat
    BY DEF ReloadAllRaced, IInv, TypeOK, ReaderInv, Joined, HasQueue, readerVars
  <2>2. QED
    BY <1>2, <2>1 DEF ReloadAllRaced, ReaderOK, readerVars, IInv, ContentInv
<1>8. QED
  BY <1>3, <1>4, <1>5, <1>6, <1>7 DEF IInv

\* A reader that may read at its place finds there the update it is due, and
\* with it the next place stands too.
LEMMA ReadStep ==
  ASSUME IInv, NEW p \in Proc, Joined(p), ~Overrun(p), LockFree,
         last_id[p] # curr_offset
  PROVE  /\ Position(p) \in Nat
         /\ Position(p) < count
         /\ last_id[p] \in Slots
         /\ updates[last_id[p]] = Position(p) + 1
         /\ last_id[p] + 1 = queue_len => last_generation[p] = generation - 1
<1>1. ReaderOK(p) /\ HasQueue(p) /\ last_id[p] \in Nat
      /\ last_generation[p] \in Nat
  BY DEF IInv, TypeOK, ReaderInv, Joined
<1>2. /\ generation > 0 /\ generation \in Nat
      /\ queue_len \in MinQueue .. MaxLen /\ last_queue_len \in 1 .. queue_len
      /\ curr_offset \in Nat /\ count \in Nat /\ curr_offset <= count
      /\ curr_offset < queue_len
  <2>1. generation > 0
    BY <1>1 DEF IInv, UserInv, UserOK
  <2>2. ~ \E q \in Proc : pc[q] = "wrap"
    BY DEF LockFree, IInv, LockInv
  <2>3. QED
    BY <2>1, <2>2 DEF IInv, TypeOK, QueueInv
<1>3. CASE last_generation[p] = generation
  <2>1. last_id[p] < curr_offset
    BY <1>1, <1>2, <1>3 DEF ReaderOK
  <2>2. Position(p) = count - curr_offset + last_id[p]
    BY <1>3 DEF Position
  <2>3. updates[last_id[p]] = count - curr_offset + last_id[p] + 1
    BY <1>1, <1>2, <2>1 DEF IInv, ContentInv
  <2>4. QED
    BY <1>1, <1>2, <2>1, <2>2, <2>3 DEF Slots
<1>4. CASE last_generation[p] # generation
  <2>1. /\ last_generation[p] = generation - 1
        /\ queue_len = last_queue_len
        /\ curr_offset < last_id[p]
    BY <1>4 DEF Overrun
  <2>2. /\ last_id[p] < last_queue_len
        /\ curr_offset + last_queue_len <= count
        /\ updates[last_id[p]] =
             count - curr_offset - last_queue_len + last_id[p] + 1
    BY <1>1, <1>2, <2>1 DEF ReaderOK
  <2>3. Position(p) = count - curr_offset - last_queue_len + last_id[p]
    BY <1>4 DEF Position
  <2>4. QED
    BY <1>1, <1>2, <2>1, <2>2, <2>3 DEF Slots
<1>5. QED
  BY <1>3, <1>4

LEMMA SendOneInv ==
  ASSUME IInv, NEW p \in Proc, SendOne(p)
  PROVE  IInv'
<1>1. Joined(p) /\ budget[p] > 0 /\ budget[p] \in 0 .. Batch
  BY DEF SendOne, IInv, TypeOK, UserInv, UserOK
<1>2. /\ Position(p) \in Nat
      /\ last_id[p] \in Slots
      /\ updates[last_id[p]] = Position(p) + 1
      /\ last_id[p] + 1 = queue_len => last_generation[p] = generation - 1
  BY <1>1, ReadStep DEF SendOne
<1>3. ReaderOK(p) /\ generation \in Nat /\ last_generation[p] \in Nat
      /\ curr_offset \in Nat /\ queue_len \in Nat /\ last_queue_len \in Nat
      /\ generation > 0
      /\ queue_len \in MinQueue .. MaxLen
      /\ last_id[p] \in Nat
  BY <1>1 DEF IInv, TypeOK, ReaderInv, UserInv, UserOK, QueueInv, Joined
<1>4. TypeOK'
  <2>1. sent' \in [Proc -> Nat]
    BY <1>2 DEF SendOne, Readable, Wild, IInv, TypeOK
  <2>2. QED
    BY <1>1, <1>3, <2>1 DEF SendOne, IInv, TypeOK, Locations, queueVars
<1>5. LockInv'
  BY DEF SendOne, IInv, TypeOK, LockInv
<1>6. Joined(p)'
  BY <1>1, <1>3 DEF SendOne, Joined, HasQueue, IInv, TypeOK
<1>7. UserOK(p)'
  BY <1>1, <1>3, <1>6 DEF SendOne, UserOK, HasQueue, IInv, TypeOK, queueVars,
     UserInv
<1>8. ReaderOK(p)'
  <2>1. CASE last_id[p] + 1 = queue_len
    <3>1. last_id'[p] = 0 /\ last_generation'[p] = generation
      BY <1>2, <1>3, <2>1 DEF SendOne, IInv, TypeOK
    <3>2. QED
      BY <1>3, <3>1 DEF SendOne, ReaderOK, queueVars
  <2>2. CASE last_id[p] + 1 # queue_len
    <3>1. last_id'[p] = last_id[p] + 1
          /\ last_generation'[p] = last_generation[p]
      BY <1>3, <2>2 DEF SendOne, IInv, TypeOK
    <3>2. last_generation[p] = generation => last_id[p] < curr_offset
      BY <1>3 DEF SendOne, ReaderOK
    <3>3. last_generation[p] = generation - 1 => queue_len = last_queue_len
      BY <1>3 DEF SendOne, Overrun
    <3>4. QED
      BY <1>3, <2>2, <3>1, <3>2, <3>3 DEF SendOne, ReaderOK, queueVars
  <2>3. QED
    BY <2>1, <2>2
<1>9. QED
  BY <1>4, <1>5, <1>7, <1>8, QueueSameInv
     DEF SendOne, queueVars, IInv, TypeOK

LEMMA StepInv ==
  ASSUME IInv, ~CrashInWrap, [Next]_vars
  PROVE  IInv'
<1>1. CASE UNCHANGED vars
  BY <1>1 DEF vars, queueVars, readerVars, histVars, IInv, TypeOK, LockInv,
     QueueInv, UserInv, UserOK, ContentInv, ReaderInv, ReaderOK, HasQueue,
     Joined
<1>2. ASSUME NEW p \in Proc, Enter(p) \/ StopShared(p) \/ Die(p)
      PROVE  IInv'
  BY <1>2, OpenLevelInv, SendMapFileInv, StopSharedInv, DieInv DEF Enter
<1>3. ASSUME NEW p \in Proc, Write(p)
      PROVE  IInv'
  BY <1>3, LockQueueInv, PutUpdateInv, WrapQueueInv, UnlockQueueInv DEF Write
<1>4. ASSUME NEW p \in Proc,
             \/ ReloadAll(p) \/ ReloadAllRaced(p) \/ ResizeLevel(p)
             \/ ReloadRequest(p) \/ Reload(p)
      PROVE  IInv'
  BY <1>4, VoidInv, RacedInv, ReloadRequestInv, ReloadCancelInv, ReloadCountdownInv,
     ReloadNowInv DEF Reload
<1>5. ASSUME NEW p \in Proc, Send(p)
      PROVE  IInv'
  BY <1>5, SendStartInv, SendOverrunInv, SendDoneInv, SendOneInv DEF Send
<1>6. QED
  BY <1>1, <1>2, <1>3, <1>4, <1>5 DEF Next

\* The ring is always as IInv says: offsets in bounds, a writer only where it
\* mapped the queue, the entries of this generation the latest updates in
\* order, and a reader one generation behind still over intact entries
\* (create_block_queue, send_update, send_queued_blocks).
THEOREM RingInvariant ==
  ASSUME ~CrashInWrap
  PROVE  Spec => []IInv
<1>1. IInv /\ [Next]_vars => IInv'
  BY StepInv
<1>2. QED
  BY <1>1, InitInv, PTL DEF Spec

-----------------------------------------------------------------------------
(* The ring implements the endless log.                                    *)

\* Where every reader keeps its position or loses it, the log drops those that
\* lose theirs.
Kept(q) == Position(q)' = Position(q) \/ Position(q)' = -1

LEMMA DropStep ==
  ASSUME \A q \in Proc : Kept(q), UNCHANGED <<count, sent>>
  PROVE  Log!Next
<1> DEFINE S == {q \in Proc : Position(q)' = -1}
<1>1. Positions' = Log!Without(S)
  BY DEF Kept, Positions, Log!Without, Log!None
<1>2. QED
  BY <1>1 DEF Log!Next, Log!Drop, Short

LEMMA UpdateStep ==
  ASSUME \A q \in Proc : Kept(q), count' = count + 1, sent' = sent
  PROVE  Log!Next
<1> DEFINE S == {q \in Proc : Position(q)' = -1}
<1>1. Positions' = Log!Without(S)
  BY DEF Kept, Positions, Log!Without, Log!None
<1>2. QED
  BY <1>1 DEF Log!Next, Log!Update, Short

\* Checking the queue moves no reader that stands still.
LEMMA CheckKept ==
  ASSUME IInv, NEW p \in Proc, QueueStep(p), count' = count, NEW q \in Proc,
         Joined(q)' => Joined(q),
         last_id'[q] = last_id[q], last_generation'[q] = last_generation[q]
  PROVE  Kept(q)
<1>1. CASE ~Joined(q)'
  BY <1>1 DEF Kept, Position
<1>2. CASE /\ Joined(q)'
           /\ generation' = generation /\ curr_offset' = curr_offset
           /\ last_queue_len' = last_queue_len /\ queue_len <= queue_len'
  <2>1. last_queue_len <= queue_len /\ queue_len \in Nat
        /\ last_queue_len \in Nat /\ queue_len' \in Nat
    BY <1>2 DEF QueueStep, IInv, TypeOK, QueueInv, UserInv, UserOK, Joined,
       HasQueue
  <2>2. Joined(q)
    BY <1>2
  <2>3. Overrun(q) => Overrun(q)'
    BY <1>2, <2>1 DEF Overrun
  <2>4. QED
    BY <1>2, <2>2, <2>3 DEF Kept, Position
<1>3. CASE Joined(q)' /\ generation' = generation + 2
  <2>1. last_generation[q] <= generation /\ last_generation[q] \in Nat
        /\ generation \in Nat
    BY <1>3 DEF IInv, TypeOK, ReaderInv, ReaderOK
  <2>2. Overrun(q)'
    BY <1>3, <2>1 DEF Overrun
  <2>3. QED
    BY <2>2 DEF Kept, Position
<1>4. QED
  BY <1>1, <1>2, <1>3 DEF QueueStep

\* A step that leaves the ring alone keeps the position of a reader whose own
\* variables it leaves alone, or that it takes the place from.
LEMMA SameKept ==
  ASSUME IInv, UNCHANGED <<queueVars, count>>, NEW q \in Proc,
         \/ ~Joined(q)'
         \/ /\ mmap_count'[q] = mmap_count[q]
            /\ last_id'[q] = last_id[q]
            /\ last_generation'[q] = last_generation[q]
            /\ reload_pending'[q] = reload_pending[q]
  PROVE  Kept(q)
BY DEF queueVars, Kept, Position, Joined, HasQueue, Overrun

LEMMA OpenLevelLog ==
  ASSUME IInv, NEW p \in Proc, OpenLevel(p)
  PROVE  Log!Next
<1>1. QueueStep(p)
  <2>1. PICK want \in Wanted \cup {MinQueue} : CreateQueue(p, want)
    BY DEF OpenLevel
  <2>2. QED
    BY <2>1, CreateStep DEF OpenLevel
<1>2. ASSUME NEW q \in Proc
      PROVE  Kept(q)
  <2>1. CASE q = p
    BY <2>1 DEF OpenLevel, Kept, Position, Joined, IInv, TypeOK
  <2>2. CASE q # p
    BY <1>1, <2>2, CheckKept DEF OpenLevel, QueueStep, histVars, Joined,
       HasQueue, IInv, TypeOK
  <2>3. QED
    BY <2>1, <2>2
<1>3. QED
  BY <1>2, DropStep DEF OpenLevel, histVars

\* set_last_block_queue_id joins p, unless a reload is still pending.
LEMMA SetLastLog ==
  ASSUME IInv, NEW p \in Proc, HasQueue(p), SetLast(p),
         UNCHANGED <<count, sent>>,
         \A q \in Proc \ {p} : reload_pending'[q] = reload_pending[q]
  PROVE  Log!Next
<1>1. QueueStep(p)
  BY SetLastStands
<1>2. ASSUME NEW q \in Proc \ {p}
      PROVE  Kept(q)
  BY <1>1, CheckKept DEF SetLast, QueueStep, Joined, HasQueue, IInv, TypeOK
<1>3. CASE ~Joined(p)'
  <2>1. Kept(p)
    BY <1>3 DEF Kept, Position
  <2>2. QED
    BY <1>2, <2>1, DropStep
<1>4. CASE Joined(p)'
  <2> DEFINE S == {q \in Proc \ {p} : Position(q)' = -1}
  <2>1. last_id'[p] = curr_offset' /\ last_generation'[p] = generation'
    BY DEF SetLast, IInv, TypeOK
  <2>2. curr_offset' \in Nat /\ count \in Nat
    BY <1>1, QueueStepKeeps DEF IInv, TypeOK
  <2>3. Position(p)' = count
    BY <1>4, <2>1, <2>2 DEF Position, Overrun
  <2>4. Positions' = [Log!Without(S) EXCEPT ![p] = count]
    BY <1>2, <2>3 DEF Kept, Positions, Log!Without, Log!None
  <2>5. Log!Join(p)
    BY <2>4 DEF Log!Join
  <2>6. QED
    BY <2>5 DEF Log!Next, Short
<1>5. QED
  BY <1>3, <1>4

\* A writer's check, a reader's check and a reload request drop at most.
LEMMA CheckLog ==
  ASSUME IInv, NEW p \in Proc,
         LockQueue(p) \/ SendStart(p) \/ ReloadRequest(p)
  PROVE  Log!Next
<1>1. QueueStep(p) /\ UNCHANGED <<count, sent>>
  BY CheckStep DEF LockQueue, SendStart, ReloadRequest, histVars
<1>2. ASSUME NEW q \in Proc
      PROVE  Kept(q)
  <2>1. last_id'[q] = last_id[q] /\ last_generation'[q] = last_generation[q]
    BY DEF LockQueue, SendStart, ReloadRequest, readerVars
  <2>2. Joined(q)' => Joined(q)
    BY <1>1 DEF LockQueue, SendStart, ReloadRequest, readerVars, QueueStep,
       Joined, HasQueue, IInv, TypeOK
  <2>3. QED
    BY <1>1, <2>1, <2>2, CheckKept
<1>3. QED
  BY <1>1, <1>2, DropStep
\* Steps that leave the ring alone: they end a place, or move no position.
LEMMA SameLog ==
  ASSUME IInv, NEW p \in Proc,
         \/ StopShared(p) \/ Die(p) \/ UnlockQueue(p) \/ ReloadCancel(p)
         \/ ReloadCountdown(p) \/ SendOverrun(p) \/ SendDone(p)
  PROVE  Log!Next
<1>1. UNCHANGED <<queueVars, count>> /\ sent' = sent
  BY DEF StopShared, Die, UnlockQueue, ReloadCancel, ReloadCountdown,
     SendOverrun, SendDone, histVars
<1>2. CASE UnlockQueue(p) \/ SendDone(p)
  BY <1>1, <1>2, SameKept, DropStep DEF UnlockQueue, SendDone, readerVars
<1>3. CASE ~(UnlockQueue(p) \/ SendDone(p))
  <2>1. ~Joined(p)'
    BY <1>3 DEF StopShared, Die, ReloadCancel, ReloadCountdown, SendOverrun,
       Joined, HasQueue, IInv, TypeOK
  <2>2. ASSUME NEW q \in Proc, q # p
        PROVE  /\ mmap_count'[q] = mmap_count[q]
               /\ last_id'[q] = last_id[q]
               /\ last_generation'[q] = last_generation[q]
               /\ reload_pending'[q] = reload_pending[q]
    BY <1>3, <2>2 DEF StopShared, Die, ReloadCancel, ReloadCountdown,
       SendOverrun, readerVars, IInv, TypeOK
  <2>3. \A q \in Proc : Kept(q)
    BY <1>1, <2>1, <2>2, SameKept
  <2>4. QED
    BY <1>1, <2>3, DropStep
<1>4. QED
  BY <1>2, <1>3

LEMMA PutUpdateLog ==
  ASSUME IInv, NEW p \in Proc, PutUpdate(p)
  PROVE  Log!Next
<1>1. ASSUME NEW q \in Proc
      PROVE  Kept(q)
  BY DEF PutUpdate, readerVars, Kept, Position, Joined, HasQueue, Overrun,
     IInv, TypeOK
<1>2. QED
  BY <1>1, UpdateStep DEF PutUpdate

LEMMA WrapQueueLog ==
  ASSUME IInv, NEW p \in Proc, WrapQueue(p)
  PROVE  Log!Next
<1>1. curr_offset = queue_len /\ generation \in Nat /\ queue_len \in Nat
      /\ count \in Nat
  BY DEF WrapQueue, IInv, TypeOK, QueueInv, UserInv, UserOK
<1>2. ASSUME NEW q \in Proc, Joined(q)
      PROVE  Kept(q)
  <2>1. last_generation[q] <= generation /\ last_generation[q] \in Nat
        /\ last_id[q] \in Nat
    BY <1>2 DEF IInv, TypeOK, ReaderInv, ReaderOK, Joined
  <2>2. CASE last_generation[q] = generation
    BY <1>1, <1>2, <2>1, <2>2 DEF WrapQueue, Kept, Position, Overrun,
       readerVars, histVars, Joined, HasQueue
  <2>3. CASE last_generation[q] # generation
    BY <1>1, <1>2, <2>1, <2>3 DEF WrapQueue, Kept, Position, Overrun,
       readerVars
  <2>4. QED
    BY <2>2, <2>3
<1>3. ASSUME NEW q \in Proc, ~Joined(q)
      PROVE  Kept(q)
  BY <1>3 DEF WrapQueue, Kept, Position, Joined, HasQueue, readerVars
<1>4. QED
  BY <1>2, <1>3, DropStep DEF WrapQueue, histVars

LEMMA RacedLog ==
  ASSUME IInv, NEW p \in Proc, ReloadAllRaced(p)
  PROVE  Log!Next
<1>1. curr_offset = queue_len /\ generation \in Nat /\ queue_len \in Nat
      /\ count \in Nat
  BY DEF ReloadAllRaced, IInv, TypeOK, QueueInv, UserInv, UserOK
<1>2. ASSUME NEW q \in Proc, Joined(q)
      PROVE  Kept(q)
  <2>1. last_generation[q] <= generation /\ last_generation[q] \in Nat
        /\ last_id[q] \in Nat
    BY <1>2 DEF IInv, TypeOK, ReaderInv, ReaderOK, Joined
  <2>2. CASE last_generation[q] = generation
    <3>1. ~Overrun(q) /\ Position(q) = last_id[q]  + count - queue_len
      BY <1>1, <1>2, <2>1, <2>2 DEF Position, Overrun
    <3>2. Joined(q)' /\ last_id'[q] = last_id[q]
      BY <1>2 DEF ReloadAllRaced, readerVars, Joined, HasQueue
    <3>3. CASE generation' = generation + 1
      BY <1>1, <2>1, <2>2, <3>1, <3>2, <3>3 DEF ReloadAllRaced, Kept,
         Position, Overrun, readerVars
    <3>4. CASE generation' = generation + 2
      BY <1>1, <2>1, <2>2, <3>4 DEF ReloadAllRaced, Kept, Position, Overrun,
         readerVars
    <3>5. QED
      BY <3>3, <3>4 DEF ReloadAllRaced
  <2>3. CASE last_generation[q] # generation
    BY <1>1, <1>2, <2>1, <2>3 DEF ReloadAllRaced, Kept, Position, Overrun,
       readerVars
  <2>4. QED
    BY <2>2, <2>3
<1>3. ASSUME NEW q \in Proc, ~Joined(q)
      PROVE  Kept(q)
  BY <1>3 DEF ReloadAllRaced, Kept, Position, Joined, HasQueue, readerVars
<1>4. QED
  BY <1>2, <1>3, DropStep DEF ReloadAllRaced

\* Two generations on, every reader is overrun.
LEMMA VoidDrops ==
  ASSUME IInv, NEW p \in Proc,
         ReloadAll(p) \/ ResizeLevel(p), NEW q \in Proc
  PROVE  Position(q)' = -1
<1>1. CASE ~Joined(q)
  BY <1>1 DEF ReloadAll, ResizeLevel, Position, Joined, HasQueue, readerVars
<1>2. CASE Joined(q)
  <2>1. last_generation[q] <= generation /\ last_generation[q] \in Nat
        /\ generation \in Nat
    BY <1>2 DEF IInv, TypeOK, ReaderInv, ReaderOK
  <2>2. QED
    BY <2>1 DEF ReloadAll, ResizeLevel, Position, Overrun, readerVars
<1>3. QED
  BY <1>1, <1>2

LEMMA VoidLog ==
  ASSUME IInv, NEW p \in Proc,
         ReloadAll(p) \/ ResizeLevel(p)
  PROVE  Log!Next
BY VoidDrops, DropStep DEF Kept, ReloadAll, ResizeLevel, histVars

LEMMA SendOneLog ==
  ASSUME IInv, NEW p \in Proc, SendOne(p)
  PROVE  Log!Next
<1>1. Joined(p) /\ Joined(p)'
  BY DEF SendOne, IInv, TypeOK, UserInv, UserOK, Joined, HasQueue
<1>2. /\ Position(p) \in Nat
      /\ Position(p) < count
      /\ last_id[p] \in Slots
      /\ updates[last_id[p]] = Position(p) + 1
      /\ last_id[p] + 1 = queue_len => last_generation[p] = generation - 1
  BY <1>1, ReadStep DEF SendOne
<1>3. ReaderOK(p) /\ generation \in Nat /\ last_generation[p] \in Nat
      /\ curr_offset \in Nat /\ queue_len \in Nat /\ last_queue_len \in Nat
      /\ count \in Nat /\ last_id[p] \in Nat /\ mmap_count[p] \in Nat
  BY <1>1 DEF IInv, TypeOK, ReaderInv, Joined
<1>4. Position(p)' = Position(p) + 1
  <2>1. CASE last_id[p] + 1 = queue_len
    <3>1. last_id'[p] = 0 /\ last_generation'[p] = generation
      BY <1>2, <1>3, <2>1 DEF SendOne, IInv, TypeOK
    <3>2. last_generation[p] # generation /\ last_queue_len = queue_len
      BY <1>2, <1>3, <2>1 DEF SendOne, Overrun
    <3>3. Position(p)' = count - curr_offset
      BY <1>1, <1>3, <3>1 DEF SendOne, Position, Overrun, queueVars
    <3>4. Position(p) = count - curr_offset - last_queue_len + last_id[p]
      BY <1>1, <3>2 DEF SendOne, Position
    <3>5. QED
      BY <1>3, <2>1, <3>2, <3>3, <3>4
  <2>2. CASE last_id[p] + 1 # queue_len
    <3>1. last_id'[p] = last_id[p] + 1
          /\ last_generation'[p] = last_generation[p]
      BY <1>3, <2>2 DEF SendOne, IInv, TypeOK
    <3>2. ~Overrun(p)'
      BY <1>3, <3>1 DEF SendOne, Overrun, queueVars
    <3>3. QED
      BY <1>1, <1>3, <3>1, <3>2 DEF SendOne, Position, queueVars
  <2>3. QED
    BY <2>1, <2>2
<1>5. \A q \in Proc \ {p} : Position(q)' = Position(q)
  BY DEF SendOne, Position, Joined, HasQueue, Overrun, queueVars, IInv, TypeOK
<1>6. Positions' = [Positions EXCEPT ![p] = Positions[p] + 1]
  BY <1>4, <1>5 DEF Positions
<1>7. Positions[p] = Position(p) /\ Positions[p] # Log!None
  BY <1>2 DEF Positions, Log!None
<1>8. CASE sent' = [sent EXCEPT ![p] = updates[last_id[p]]]
  <2>1. Log!Deliver(p)
    BY <1>2, <1>6, <1>7, <1>8 DEF Log!Deliver, SendOne
  <2>2. QED
    BY <2>1 DEF Log!Next, Short
<1>9. CASE sent' = [sent EXCEPT ![p] = Wild] /\ last_id[p] >= mmap_count[p]
  <2>1. last_id[p] < queue_len
    <3>1. last_queue_len <= queue_len
      BY <1>1, <1>3 DEF IInv, QueueInv, UserInv, UserOK, Joined
    <3>2. last_generation[p] = generation \/ last_generation[p] = generation - 1
      BY DEF SendOne, Overrun
    <3>3. QED
      BY <1>3, <3>1, <3>2 DEF ReaderOK
  <2>2. p \in Short
    BY <1>3, <1>9, <2>1 DEF Short
  <2>3. Log!Misread(p)
    BY <1>2, <1>6, <1>7, <1>9, <2>2 DEF Log!Misread, Log!Wild, Wild, SendOne
  <2>4. QED
    BY <2>3 DEF Log!Next, Short
<1>10. PICK n \in Readable(p, last_id[p]) : sent' = [sent EXCEPT ![p] = n]
  BY DEF SendOne
<1>11. \/ n = updates[last_id[p]]
       \/ (n = Wild /\ last_id[p] >= mmap_count[p])
  BY <1>3 DEF Readable
<1>12. QED
  BY <1>8, <1>9, <1>10, <1>11

LEMMA StepLog ==
  ASSUME IInv, [Next]_vars
  PROVE  [Log!Next]_Log!vars
<1>1. CASE UNCHANGED vars
  BY <1>1 DEF vars, queueVars, readerVars, histVars, Log!vars, Positions,
     Position, Joined, HasQueue, Overrun, Short
<1>2. ASSUME NEW p \in Proc, Enter(p)
      PROVE  Log!Next
  <2>1. CASE OpenLevel(p)
    BY <2>1, OpenLevelLog
  <2>2. CASE SendMapFile(p)
    BY <2>2, SetLastLog DEF SendMapFile, histVars, IInv, UserInv, UserOK
  <2>3. QED
    BY <1>2, <2>1, <2>2 DEF Enter
<1>3. ASSUME NEW p \in Proc, StopShared(p) \/ Die(p)
      PROVE  Log!Next
  BY <1>3, SameLog
<1>4. ASSUME NEW p \in Proc, Write(p)
      PROVE  Log!Next
  BY <1>4, CheckLog, PutUpdateLog, WrapQueueLog, SameLog DEF Write
<1>5. ASSUME NEW p \in Proc,
             ReloadAll(p) \/ ReloadAllRaced(p) \/ ResizeLevel(p)
      PROVE  Log!Next
  BY <1>5, VoidLog, RacedLog
<1>6. ASSUME NEW p \in Proc, ReloadRequest(p) \/ Reload(p)
      PROVE  Log!Next
  <2>1. CASE ReloadNow(p)
    BY <2>1, SetLastLog DEF ReloadNow, histVars, IInv, TypeOK
  <2>2. CASE ReloadRequest(p) \/ ReloadCancel(p) \/ ReloadCountdown(p)
    BY <2>2, CheckLog, SameLog
  <2>3. QED
    BY <1>6, <2>1, <2>2 DEF Reload
<1>7. ASSUME NEW p \in Proc, Send(p)
      PROVE  Log!Next
  BY <1>7, CheckLog, SameLog, SendOneLog DEF Send
<1>8. QED
  BY <1>1, <1>2, <1>3, <1>4, <1>5, <1>6, <1>7 DEF Next

LEMMA InitLog == Init => Log!Init
BY DEF Init, Log!Init, Log!None, Log!Wild, Wild, Positions, Position, Joined,
   HasQueue, Short

\* The ring of queue_block.c implements the endless log: every reader is sent
\* the updates after the place it joined at, each once and in order, until it
\* is dropped, however the ring wraps, grows, is emptied or declared void.
THEOREM RingImplementsLog ==
  ASSUME ~CrashInWrap
  PROVE  Spec => ImplementsLog
<1>1. Init => Log!Init
  BY InitLog
<1>2. IInv /\ [Next]_vars => [Log!Next]_Log!vars
  BY StepLog
<1>3. Spec => []IInv
  BY RingInvariant
<1>4. QED
  BY <1>1, <1>2, <1>3, PTL DEF Spec, ImplementsLog, Log!Spec

\* No other step declares the queue void and leaves the offset where it is.
LEMMA VoidingStep ==
  ASSUME IInv, [Next]_vars, voids' # voids, UNCHANGED curr_offset
  PROVE  \E p \in Proc : ReloadAll(p) \/ ResizeLevel(p)
<1>1. PICK p \in Proc :
        \/ Enter(p) \/ StopShared(p) \/ Die(p) \/ Write(p)
        \/ ReloadAll(p) \/ ReloadAllRaced(p) \/ ResizeLevel(p)
        \/ ReloadRequest(p) \/ Reload(p) \/ Send(p)
  BY DEF Next, vars, histVars
<1>2. ~(Enter(p) \/ StopShared(p) \/ Die(p))
  BY DEF Enter, OpenLevel, SendMapFile, StopShared, Die, histVars
<1>3. ~Write(p)
  BY DEF Write, LockQueue, PutUpdate, WrapQueue, UnlockQueue, histVars
<1>4. ~(ReloadRequest(p) \/ Reload(p))
  BY DEF ReloadRequest, Reload, ReloadCancel, ReloadCountdown, ReloadNow,
     histVars
<1>5. ~Send(p)
  BY DEF Send, SendStart, SendOverrun, SendDone, SendOne, histVars
<1>6. ~ReloadAllRaced(p)
  BY DEF ReloadAllRaced, IInv, TypeOK, QueueInv, UserInv, UserOK
<1>7. QED
  BY <1>1, <1>2, <1>3, <1>4, <1>5, <1>6

\* /reload all and a resize of the level reach every reader, whichever
\* generation it stands in.
THEOREM VoidReaches ==
  ASSUME ~CrashInWrap
  PROVE  Spec => VoidReachesAll
<1>1. IInv /\ [Next]_vars =>
        [voids' # voids /\ UNCHANGED curr_offset =>
           \A p \in Proc : Position(p)' = -1]_vars
  BY VoidingStep, VoidDrops
<1>2. Spec => []IInv
  BY RingInvariant
<1>3. QED
  BY <1>1, <1>2, PTL DEF Spec, VoidReachesAll
=============================================================================

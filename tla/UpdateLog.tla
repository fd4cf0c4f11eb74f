----------------------------- MODULE UpdateLog -----------------------------
(***************************************************************************)
(* What the block queue of a level promises to the processes that share    *)
(* it, with no ring, no generation and no lock.  The updates of a level    *)
(* are one endless log, of which only the length matters here: an update   *)
(* is its number.  A reader joins at the end of the log and is then sent   *)
(* every later update exactly once and in order, until it is dropped; a    *)
(* dropped reader is sent nothing before it joins again, which the server  *)
(* does only together with a transfer of the whole map.                    *)
(***************************************************************************)
EXTENDS Integers

CONSTANT Proc           \* the processes that have the level open

None == -1              \* the position of a reader that has not joined
Wild == 0               \* an entry that is not an update of the level

VARIABLES
  count,                \* number of updates made so far
  position,             \* position[p]: number of the last update p is past
  sent,                 \* sent[p]: number of the last update p was sent
  short                 \* the processes whose window on the queue is too short

vars == <<count, position, sent, short>>

Init ==
  /\ count = 0
  /\ position = [p \in Proc |-> None]
  /\ sent = [p \in Proc |-> Wild]
  /\ short = {}

\* The positions after the readers in S are dropped.
Without(S) == [q \in Proc |-> IF q \in S THEN None ELSE position[q]]

\* An update is made.  The log keeps a bounded tail of itself, so readers that
\* are too far behind may be dropped by it.
Update ==
  /\ count' = count + 1
  /\ \E S \in SUBSET Proc : position' = Without(S)
  /\ UNCHANGED sent

\* p joins at the end of the log; that may find the queue void and drop others.
Join(p) ==
  /\ \E S \in SUBSET Proc : position' = [Without(S) EXCEPT ![p] = count]
  /\ UNCHANGED <<count, sent>>

\* p is sent the update after its position: that one and no other.
Deliver(p) ==
  /\ position[p] # None
  /\ position[p] < count
  /\ sent' = [sent EXCEPT ![p] = position[p] + 1]
  /\ position' = [position EXCEPT ![p] = @ + 1]
  /\ UNCHANGED count

\* p's window on the queue's memory is shorter than the queue: p may be sent
\* anything in the place of the update it is due.
Misread(p) ==
  /\ p \in short
  /\ position[p] # None
  /\ position[p] < count
  /\ sent' = [sent EXCEPT ![p] = Wild]
  /\ position' = [position EXCEPT ![p] = @ + 1]
  /\ UNCHANGED count

\* Readers leave, or the queue they stand in is declared void.
Drop ==
  /\ \E S \in SUBSET Proc : position' = Without(S)
  /\ UNCHANGED <<count, sent>>

\* The queue grows, and processes map it, in any of these steps.
Next ==
  /\ \/ Update
     \/ Drop
     \/ \E p \in Proc : Join(p) \/ Deliver(p) \/ Misread(p)
  /\ short' \in SUBSET Proc

Spec == Init /\ [][Next]_vars
=============================================================================

--------------------------- MODULE LevelViewProofs ---------------------------
(***************************************************************************)
(* Proofs about LevelView: IInv is an invariant, and so clients with       *)
(* nothing under way show the level as it is.  ViewInv says for each cell  *)
(* why a client will show it right: the queue still has news of it, or its *)
(* process owes it something, or its packets come to it.                   *)
(***************************************************************************)
EXTENDS LevelView, TLAPS

USE ViewProcAssumption, BlockAssumption, ViewBoundAssumption

\* What a sequence is with one element more.
LEMMA AppendIs ==
  ASSUME NEW T, NEW s \in Seq(T), NEW m \in T
  PROVE  /\ Append(s, m) \in Seq(T)
         /\ Len(Append(s, m)) = Len(s) + 1
         /\ Append(s, m)[Len(s) + 1] = m
         /\ \A i \in 1 .. Len(s) : Append(s, m)[i] = s[i]
         /\ DOMAIN Append(s, m) = 1 .. Len(s) + 1
         /\ DOMAIN s = 1 .. Len(s)
OBVIOUS

\* The elements of a sequence are of its set.
LEMMA ElementIs ==
  ASSUME NEW T, NEW s \in Seq(T), NEW i \in 1 .. Len(s)
  PROVE  s[i] \in T
OBVIOUS

\* What a sequence is without its first element.
LEMMA TailIs ==
  ASSUME NEW T, NEW s \in Seq(T), s # <<>>
  PROVE  /\ Head(s) \in T /\ Head(s) = s[1]
         /\ Len(s) > 0
         /\ Tail(s) \in Seq(T)
         /\ Len(Tail(s)) = Len(s) - 1
         /\ \A i \in 1 .. Len(s) - 1 : Tail(s)[i] = s[i + 1]
         /\ DOMAIN Tail(s) = 1 .. Len(s) - 1
OBVIOUS

\* A function on the first n numbers is a sequence.
LEMMA IsASeq ==
  ASSUME NEW T, NEW n \in Nat, NEW s \in [1 .. n -> T]
  PROVE  s \in Seq(T) /\ Len(s) = n
OBVIOUS

\* A level that has just been opened and sent to everybody is of its types.
LEMMA InitType == Init => TypeOK
BY DEF Init, TypeOK, Cell, Queue!Wild, Queue!None

\* A click is shown and sent: the variables stay in their types.
LEMMA ClickType ==
  ASSUME TypeOK, NEW p \in Proc, NEW c \in Cell, NEW b \in Block, Click(p, c, b)
  PROVE  TypeOK'
<1> DEFINE m == [kind |-> "click", cell |-> c, block |-> b]
<1>1. m \in Request
  BY DEF Request
<1>2. up' \in [Proc -> Seq(Request)]
  BY <1>1, AppendIs DEF TypeOK, Click
<1>3. view' \in [Proc -> [Cell -> Block \cup {NoBlock}]]
  BY DEF TypeOK, Click
<1>4. QED
  BY <1>2, <1>3 DEF TypeOK, Click, queueVars

\* So they do when a command is typed (cmd_place),
LEMMA PlaceCommandType ==
  ASSUME TypeOK, NEW p \in Proc, NEW c \in Cell, NEW b \in Block, PlaceCommand(p, c, b)
  PROVE  TypeOK'
<1> DEFINE m == [kind |-> "place", cell |-> c, block |-> b]
<1>1. m \in Request
  BY DEF Request
<1>2. up' \in [Proc -> Seq(Request)]
  BY <1>1, AppendIs DEF TypeOK, PlaceCommand
<1>3. QED
  BY <1>2 DEF TypeOK, PlaceCommand, queueVars

\* A packet changes one cell of what a client shows, or all of them.
LEMMA PacketIs ==
  ASSUME NEW m \in Packet
  PROVE  \/ "map" \in DOMAIN m /\ m.map \in [Cell -> Block \cup {NoBlock}]
         \/ "map" \notin DOMAIN m /\ m.cell \in Cell /\ m.block \in Block
BY DEF Packet

\* A block of a cell makes a set block packet.
LEMMA CellPacket ==
  ASSUME NEW c \in Cell, NEW b \in Block
  PROVE  LET m == [cell |-> c, block |-> b]
         IN m \in Packet /\ "map" \notin DOMAIN m
BY DEF Packet

\* when a client takes a packet,
LEMMA ReceiveType ==
  ASSUME TypeOK, NEW p \in Proc, Receive(p)
  PROVE  TypeOK'
<1> DEFINE m == Head(down[p])
<1>1. m \in Packet /\ Tail(down[p]) \in Seq(Packet)
  BY TailIs DEF TypeOK, Receive
<1>2. down' \in [Proc -> Seq(Packet)]
  BY <1>1 DEF TypeOK, Receive
<1>3. view' \in [Proc -> [Cell -> Block \cup {NoBlock}]]
  BY <1>1, PacketIs DEF TypeOK, Receive
<1>4. QED
  BY <1>2, <1>3 DEF TypeOK, Receive, queueVars

\* A packet put in the connection leaves a sequence of packets.
LEMMA SendPacketType ==
  ASSUME TypeOK, NEW p \in Proc, NEW m \in Packet, SendPacket(p, m)
  PROVE  down' \in [Proc -> Seq(Packet)]
BY AppendIs DEF TypeOK, SendPacket

\* when a click is refused (revert_client),
LEMMA RevertClientType ==
  ASSUME TypeOK, NEW p \in Proc, RevertClient(p)
  PROVE  TypeOK'
<1> DEFINE r == Head(up[p])
           m == [cell |-> r.cell, block |-> blocks[r.cell]]
<1>1. r \in Request /\ Tail(up[p]) \in Seq(Request)
  BY TailIs DEF TypeOK, RevertClient
<1>2. m \in Packet
  BY <1>1 DEF TypeOK, Request, Packet
<1>3. down' \in [Proc -> Seq(Packet)]
  BY <1>2, SendPacketType DEF RevertClient
<1>4. up' \in [Proc -> Seq(Request)]
  BY <1>1 DEF TypeOK, RevertClient
<1>5. QED
  BY <1>3, <1>4 DEF TypeOK, RevertClient, queueVars

\* What update_block makes of a block is a block.
LEMMA GrowType ==
  ASSUME TypeOK, NEW c, NEW b \in Block
  PROVE  Grow(c, b) \in Block
BY DEF Grow

\* Correcting a block by the light above it makes a block of it.
LEMMA CorrectedType ==
  ASSUME TypeOK, NEW c \in Cell, NEW b \in Block
  PROVE  Corrected(c, b) \in Block
BY GrowType DEF Corrected, Grow

\* The block below becomes a block.
LEMMA BelowOfType ==
  ASSUME TypeOK, NEW c \in Cell, c > 1, NEW b \in Block
  PROVE  BelowOf(c, b) \in Block
<1>1. c - 1 \in Cell
  BY DEF Cell
<1>2. blocks[c - 1] \in Block
  BY <1>1 DEF TypeOK
<1>3. QED
  BY <1>2, GrowType DEF BelowOf

\* update_block writes nothing if the cell is as wanted and no answer is due; and
\* otherwise something else into the cell, or something its client is told of.
LEMMA WritesAre ==
  ASSUME TypeOK, NEW c \in Cell, NEW want \in Block, NEW mode \in 1 .. 3
  PROVE  /\ Writes(c, want, mode) \in Seq(Write)
         /\ blocks[c] = want /\ mode # 2 => Writes(c, want, mode) = <<>>
         /\ ~(blocks[c] = want /\ mode # 2) =>
              LET w == Writes(c, want, mode)
              IN /\ 1 \in DOMAIN w /\ w[1].cell = c
                 /\ w[1].echo \/ w[1].block # blocks[c]
<1> DEFINE stack == Stacks(c, want)
           b == Corrected(c, IF stack THEN Air ELSE want)
           first == [cell |-> c, block |-> b, echo |-> mode = 2 \/ stack]
           under == IF c > 1 THEN BelowOf(c, b) ELSE Air
           below == IF c > 1 /\ under # blocks[c - 1] THEN {under}
                    ELSE IF stack THEN {StackOf[want]} ELSE {}
           second == [cell |-> c - 1, block |-> CHOOSE n \in below : TRUE, echo |-> FALSE]
<1>1. b \in Block
  BY CorrectedType
<1>2. first \in Write
  <2>1. stack \in BOOLEAN
    BY DEF Stacks
  <2>2. QED
    BY <1>1, <2>1 DEF Write
<1>3. below # {} => second \in Write
  <2> SUFFICES ASSUME below # {}
               PROVE  second \in Write
    OBVIOUS
  <2>1. c > 1
    BY DEF Stacks
  <2>2. below \subseteq Block
    BY <1>1, <2>1, BelowOfType
  <2> HIDE DEF below
  <2>3. (CHOOSE n \in below : TRUE) \in Block
    BY <2>2
  <2>4. c - 1 \in Cell
    BY <2>1 DEF Cell
  <2>5. QED
    BY <2>3, <2>4 DEF Write
<1>4. ~(blocks[c] = want /\ mode # 2) => first.echo \/ first.block # blocks[c]
  <2>1. CASE mode = 2 \/ stack
    BY <2>1
  <2>2. CASE mode # 2 /\ ~stack
    BY <2>2 DEF Corrected, Grow
  <2>3. QED
    BY <2>1, <2>2
<1>5. Writes(c, want, mode) = IF blocks[c] = want /\ mode # 2 THEN <<>>
                              ELSE IF below = {} THEN <<first>> ELSE <<first, second>>
  BY DEF Writes
<1>6. first.cell = c
  OBVIOUS
<1> HIDE DEF first, second, below
<1>7. QED
  BY <1>2, <1>3, <1>4, <1>5, <1>6

\* when update_block has planned its writes,
LEMMA UpdateBlockType ==
  ASSUME TypeOK, NEW p \in Proc, UpdateBlock(p)
  PROVE  TypeOK'
<1> DEFINE r == Head(up[p])
<1>1. r \in Request /\ Tail(up[p]) \in Seq(Request)
  BY TailIs DEF TypeOK, UpdateBlock
<1>2. PICK w \in Wishes(p, r) : plan' = [plan EXCEPT ![p] = Writes(r.cell, w[1], w[2])]
  BY DEF UpdateBlock
<1>3. w[1] \in Block /\ w[2] \in 1 .. 3
  BY <1>1 DEF Wishes, Meant, Request
<1>4. Writes(r.cell, w[1], w[2]) \in Seq(Write)
  BY <1>1, <1>3, WritesAre DEF Request
<1>5. plan' \in [Proc -> Seq(Write)]
  BY <1>2, <1>4 DEF TypeOK
<1>6. up' \in [Proc -> Seq(Request)]
  BY <1>1 DEF TypeOK, UpdateBlock
<1>7. /\ pc' \in [Proc -> {"idle", "write", "send", "map"}]
      /\ \A q \in Proc : pc'[q] \in {"write", "send"} <=> plan'[q] # <<>>
  BY <1>2 DEF TypeOK, UpdateBlock
<1>8. QED
  BY <1>5, <1>6, <1>7 DEF TypeOK, UpdateBlock, queueVars

\* when a drawing command has (do_cuboid),
LEMMA DrawType ==
  ASSUME TypeOK, NEW p \in Proc, NEW lo \in Cell, NEW b \in Block, NEW hi \in lo .. Height,
         Draw(p, lo, hi, b)
  PROVE  TypeOK'
<1> DEFINE n == hi + 1 - lo
           s == [i \in 1 .. n |-> [cell |-> lo + i - 1, block |-> b, echo |-> FALSE]]
<1>1. n \in Nat \ {0} /\ \A i \in 1 .. n : lo + i - 1 \in Cell
  BY DEF Cell
<1>2. s \in Seq(Write) /\ s # <<>>
  <2>1. \A i \in 1 .. n : [cell |-> lo + i - 1, block |-> b, echo |-> FALSE] \in Write
    BY <1>1 DEF Write
  <2>2. s \in [1 .. n -> Write]
    BY <2>1
  <2> HIDE DEF s, n
  <2>3. s \in Seq(Write) /\ Len(s) = n
    BY <1>1, <2>2, IsASeq
  <2>4. QED
    BY <1>1, <2>3
<1>3. plan' = [plan EXCEPT ![p] = s]
  BY DEF Draw
<1> HIDE DEF s
<1>4. plan' \in [Proc -> Seq(Write)]
  BY <1>2, <1>3 DEF TypeOK
<1>5. /\ pc' \in [Proc -> {"idle", "write", "send", "map"}]
      /\ \A q \in Proc : pc'[q] \in {"write", "send"} <=> plan'[q] # <<>>
  BY <1>2, <1>3 DEF TypeOK, Draw
<1>6. /\ level_lock' = p /\ edits' = edits + 1 /\ edits < MaxEdits
      /\ UNCHANGED <<blocks, log, position, sent, snap, view, up, down, disputed>>
  BY DEF Draw
<1>7. QED
  BY <1>4, <1>5, <1>6 DEF TypeOK

\* The updates in the queue are of blocks of the level.
LEMMA Entry ==
  ASSUME TypeOK, NEW i \in 1 .. Len(log)
  PROVE  /\ log[i] \in [cell : Cell, block : Block]
         /\ log[i].cell \in Cell /\ log[i].block \in Block
<1>1. log[i] \in [cell : Cell, block : Block]
  BY ElementIs DEF TypeOK
<1>2. QED
  BY <1>1

\* A process that writes or sends has a write in its plan.
LEMMA PlanHead ==
  ASSUME TypeOK, NEW p \in Proc, pc[p] \in {"write", "send"}
  PROVE  /\ plan[p] # <<>> /\ Head(plan[p]) = plan[p][1]
         /\ Head(plan[p]).cell \in Cell /\ Head(plan[p]).block \in Block
         /\ Head(plan[p]).echo \in BOOLEAN
         /\ Tail(plan[p]) \in Seq(Write)
<1>1. plan[p] \in Seq(Write) /\ plan[p] # <<>>
  BY DEF TypeOK
<1>2. Head(plan[p]) \in Write /\ Tail(plan[p]) \in Seq(Write) /\ Head(plan[p]) = plan[p][1]
  BY <1>1, TailIs
<1>3. QED
  BY <1>1, <1>2 DEF Write

\* A write done with leaves plans, and the lock free or held by a process.
LEMMA DoneOneType ==
  ASSUME TypeOK, NEW p \in Proc, pc[p] \in {"write", "send"}, DoneOne(p)
  PROVE  /\ plan' \in [Proc -> Seq(Write)]
         /\ pc' \in [Proc -> {"idle", "write", "send", "map"}]
         /\ \A q \in Proc : pc'[q] \in {"write", "send"} <=> plan'[q] # <<>>
         /\ level_lock' \in Proc \cup {NoProc}
<1>1. plan' \in [Proc -> Seq(Write)]
  BY PlanHead DEF TypeOK, DoneOne
<1>2. QED
  BY <1>1 DEF TypeOK, DoneOne

\* when a block is written (update_block),
LEMMA WriteBlockType ==
  ASSUME TypeOK, NEW p \in Proc, WriteBlock(p)
  PROVE  TypeOK'
<1>1. pc[p] \in {"write", "send"}
  BY DEF WriteBlock
<1>2. blocks' \in [Cell -> Block]
  BY <1>1, PlanHead DEF TypeOK, WriteBlock
<1>3. disputed' \subseteq Cell
  BY <1>1, PlanHead DEF TypeOK, WriteBlock
<1>4. /\ pc' \in [Proc -> {"idle", "write", "send", "map"}]
      /\ \A q \in Proc : pc'[q] \in {"write", "send"} <=> plan'[q] # <<>>
  BY DEF TypeOK, WriteBlock
<1>5. UNCHANGED <<queueVars, plan, snap, clientVars, down>>
  BY DEF WriteBlock
<1>6. QED
  BY <1>2, <1>3, <1>4, <1>5 DEF TypeOK, queueVars, clientVars

\* when the block was there already,
LEMMA NoChangeType ==
  ASSUME TypeOK, NEW p \in Proc, NoChange(p)
  PROVE  TypeOK'
<1> DEFINE w == Head(plan[p])
<1>1. pc[p] \in {"write", "send"}
  BY DEF NoChange
<1>2. [cell |-> w.cell, block |-> w.block] \in Packet
  BY <1>1, PlanHead, CellPacket
<1>3. down' \in [Proc -> Seq(Packet)]
  BY <1>2, SendPacketType DEF TypeOK, NoChange
<1>4. QED
  BY <1>1, <1>3, DoneOneType DEF TypeOK, NoChange, clientVars

\* when the write is queued (send_update),
LEMMA SendUpdateType ==
  ASSUME TypeOK, NEW p \in Proc, SendUpdate(p)
  PROVE  TypeOK'
<1> DEFINE w == Head(plan[p])
           e == [cell |-> w.cell, block |-> w.block]
<1>1. pc[p] \in {"write", "send"}
  BY DEF SendUpdate
<1>2. e \in [cell : Cell, block : Block]
  BY <1>1, PlanHead
<1>3. log' = Append(log, e)
  BY DEF SendUpdate
<1> HIDE DEF e
<1>4. log' \in Seq([cell : Cell, block : Block]) /\ Len(log') = Len(log) + 1 /\ Len(log) \in Nat
  BY <1>2, <1>3, AppendIs DEF TypeOK
<1>5. UNCHANGED <<position, sent, blocks, snap, clientVars, down, disputed>>
  BY DEF SendUpdate, Queue!Update
<1>6. /\ position' \in [Proc -> {Queue!None} \cup 0 .. Len(log')]
      /\ sent' \in [Proc -> 0 .. Len(log')]
  <2>1. 0 .. Len(log) \subseteq 0 .. Len(log')
    BY <1>4
  <2>2. QED
    BY <2>1, <1>5 DEF TypeOK
<1>7. DoneOne(p)
  BY DEF SendUpdate
<1>8. QED
  BY <1>1, <1>4, <1>5, <1>6, <1>7, DoneOneType DEF TypeOK, clientVars

\* when the place in the queue is taken (send_map_file),
LEMMA SendMapFileType ==
  ASSUME TypeOK, NEW p \in Proc, SendMapFile(p)
  PROVE  TypeOK'
<1>1. Len(log) \in Nat
  BY DEF TypeOK
<1>2. /\ UNCHANGED <<log, level_lock, sent, blocks, plan, snap, view, up, down, disputed>>
      /\ position' = [position EXCEPT ![p] = Len(log)]
      /\ pc[p] = "idle" /\ pc' = [pc EXCEPT ![p] = "map"]
      /\ edits' \in {edits, edits + 1} /\ (edits' # edits => edits < MaxEdits)
  <2>1. UNCHANGED sent
    BY DEF SendMapFile, SetPlace, Queue!Join
  <2>2. UNCHANGED <<log, level_lock>> /\ position' = [position EXCEPT ![p] = Len(log)]
    BY DEF SendMapFile, SetPlace
  <2>3. edits' \in {edits, edits + 1} /\ (edits' # edits => edits < MaxEdits)
    BY DEF SendMapFile
  <2>4. QED
    BY <2>1, <2>2, <2>3 DEF SendMapFile
<1>3. position' \in [Proc -> {Queue!None} \cup 0 .. Len(log')]
  BY <1>1, <1>2 DEF TypeOK
<1>4. QED
  BY <1>2, <1>3 DEF TypeOK

\* when it is found overrun (send_queued_blocks),
LEMMA OverrunType ==
  ASSUME TypeOK, NEW p \in Proc, Overrun(p)
  PROVE  TypeOK'
BY DEF TypeOK, Overrun, Queue!Drop

\* when an update is sent from it,
LEMMA SendQueuedBlockType ==
  ASSUME TypeOK, NEW p \in Proc, SendQueuedBlock(p)
  PROVE  TypeOK'
<1> DEFINE e == log[position[p] + 1]
<1>1. Len(log) \in Nat /\ position[p] \in Nat /\ position[p] < Len(log)
  BY DEF TypeOK, SendQueuedBlock, Queue!Deliver
<1>2. e \in Packet
  <2>1. e \in [cell : Cell, block : Block]
    BY <1>1, Entry
  <2>2. QED
    BY <2>1 DEF Packet
<1>3. down' \in [Proc -> Seq(Packet)]
  BY <1>2, SendPacketType DEF SendQueuedBlock
<1>4. /\ position' = [position EXCEPT ![p] = @ + 1] /\ sent' = [sent EXCEPT ![p] = position[p] + 1]
      /\ UNCHANGED <<log, blocks, level_lock, pc, plan, snap, clientVars, disputed>>
  BY DEF SendQueuedBlock, Queue!Deliver
<1>5. /\ position' \in [Proc -> {Queue!None} \cup 0 .. Len(log')]
      /\ sent' \in [Proc -> 0 .. Len(log')]
  BY <1>1, <1>4 DEF TypeOK
<1>6. QED
  BY <1>3, <1>4, <1>5 DEF TypeOK, clientVars

\* and when a process ends.
LEMMA DieType ==
  ASSUME TypeOK, NEW p \in Proc, Die(p)
  PROVE  TypeOK'
<1>1. Unsent(p) \subseteq Cell
  BY PlanHead DEF Unsent
<1>2. /\ <<>> \in Seq(Write) /\ <<>> \in Seq(Block) /\ <<>> \in Seq(Request) /\ <<>> \in Seq(Packet)
  OBVIOUS
<1>3. QED
  BY <1>1, <1>2 DEF TypeOK, Die

-----------------------------------------------------------------------------
(* What the clients will see *)

\* One more packet: what it tells of a cell is what the cell comes to.
LEMMA ComesAppend ==
  ASSUME NEW s \in Seq(Packet), NEW m \in Packet, NEW v, NEW c, NEW b
  PROVE  /\ Tells(m, c) /\ Told(m, c) = b => ComesTo(v, Append(s, m), c, b)
         /\ ~Tells(m, c) /\ ComesTo(v, s, c, b) => ComesTo(v, Append(s, m), c, b)
<1> DEFINE t == Append(s, m)
           n == Len(s)
<1>1. /\ n \in Nat /\ DOMAIN s = 1 .. n /\ DOMAIN t = 1 .. n + 1 /\ t[n + 1] = m
      /\ \A i \in 1 .. n : t[i] = s[i]
  BY AppendIs
<1> HIDE DEF t, n
<1>2. ASSUME Tells(m, c), Told(m, c) = b PROVE ComesTo(v, t, c, b)
  BY <1>1, <1>2 DEF ComesTo
<1>3. ASSUME ~Tells(m, c), ComesTo(v, s, c, b) PROVE ComesTo(v, t, c, b)
  <2>1. \A j \in DOMAIN t : j # n + 1 => j \in DOMAIN s /\ t[j] = s[j]
    BY <1>1
  <2>2. DOMAIN s \subseteq DOMAIN t
    BY <1>1
  <2>3. QED
    BY <1>1, <1>3, <2>1, <2>2 DEF ComesTo
<1>4. QED
  BY <1>2, <1>3 DEF t

\* A packet received: it may have told of the cell.
LEMMA ComesTail ==
  ASSUME NEW s \in Seq(Packet), s # <<>>, NEW v, NEW c, NEW b, ComesTo(v, s, c, b)
  PROVE  ComesTo(IF Tells(Head(s), c) THEN Told(Head(s), c) ELSE v, Tail(s), c, b)
<1> DEFINE t == Tail(s)
           n == Len(s)
           w == IF Tells(Head(s), c) THEN Told(Head(s), c) ELSE v
<1>1. /\ n \in Nat \ {0} /\ DOMAIN s = 1 .. n /\ DOMAIN t = 1 .. n - 1 /\ Head(s) = s[1]
      /\ \A i \in 1 .. n - 1 : t[i] = s[i + 1]
  BY TailIs
<1> HIDE DEF t, n
<1>2. CASE v = b /\ \A i \in DOMAIN s : ~Tells(s[i], c)
  BY <1>1, <1>2 DEF ComesTo
<1>3. ASSUME NEW i \in DOMAIN s, Tells(s[i], c), Told(s[i], c) = b,
             \A j \in DOMAIN s : j > i => ~Tells(s[j], c)
      PROVE  ComesTo(w, t, c, b)
  <2>0. \A j \in DOMAIN t : j + 1 \in DOMAIN s /\ t[j] = s[j + 1]
    BY <1>1
  <2>1. CASE i = 1
    <3>1. \A j \in DOMAIN t : ~Tells(t[j], c)
      BY <1>1, <1>3, <2>0, <2>1
    <3>2. w = b
      BY <1>1, <1>3, <2>1
    <3>3. QED
      BY <3>1, <3>2 DEF ComesTo
  <2>2. CASE i # 1
    <3>1. i - 1 \in DOMAIN t /\ t[i - 1] = s[i]
      BY <1>1, <2>2
    <3>2. \A j \in DOMAIN t : j > i - 1 => ~Tells(t[j], c)
      BY <1>1, <1>3, <2>0
    <3>3. QED
      BY <1>3, <3>1, <3>2 DEF ComesTo
  <2>3. QED
    BY <2>1, <2>2
<1>4. QED
  BY <1>2, <1>3 DEF ComesTo, t

\* With nothing more to come the client shows the cell.
LEMMA ComesNow ==
  ASSUME NEW v, NEW c, NEW b, ComesTo(v, <<>>, c, b)
  PROVE  v = b
BY DEF ComesTo

\* Steps that leave the blocks, the queue and what is to be queued alone.
LEMMA SameCells ==
  ASSUME UNCHANGED <<blocks, log, disputed>>,
         \A q \in Proc : /\ pc'[q] = "send" <=> pc[q] = "send"
                         /\ pc[q] = "send" => plan'[q] = plan[q]
  PROVE  /\ Pending' = Pending /\ Settled' = Settled
         /\ WriteInv => WriteInv'
         /\ LogInv => LogInv'
<1>1. \A q \in Proc : Unsent(q)' = Unsent(q)
  BY DEF Unsent
<1>2. Pending' = Pending
  BY <1>1 DEF Pending
<1>3. Settled' = Settled
  BY <1>2 DEF Settled
<1>4. WriteInv => WriteInv'
  BY DEF WriteInv
<1>5. LogInv => LogInv'
  BY <1>3 DEF LogInv
<1>6. QED
  BY <1>2, <1>3, <1>4, <1>5

\* What a process and its client do does not change what another one will see.
LEMMA OtherView ==
  ASSUME NEW q \in Proc, NEW c \in Cell,
         UNCHANGED <<blocks, log>>,
         position'[q] = position[q], pc'[q] = pc[q], plan'[q] = plan[q],
         view'[q] = view[q], up'[q] = up[q], down'[q] = down[q]
  PROVE  (News(q, c) \/ Owes(q, c) \/ Shows(q, c)) => (News(q, c) \/ Owes(q, c) \/ Shows(q, c))'
BY DEF News, Owes, Shows

\* So a step of p that leaves the cells alone has to be looked at for p only.
LEMMA ViewStep ==
  ASSUME ViewInv, NEW p \in Proc,
         UNCHANGED <<blocks, log>>, Settled' = Settled,
         \A q \in Proc : q # p =>
            /\ position'[q] = position[q] /\ pc'[q] = pc[q] /\ plan'[q] = plan[q]
            /\ view'[q] = view[q] /\ up'[q] = up[q] /\ down'[q] = down[q],
         position'[p] # Queue!None =>
            \A c \in Settled : (News(p, c) \/ Owes(p, c) \/ Shows(p, c))'
  PROVE  ViewInv'
<1> SUFFICES ASSUME NEW q \in Proc, position'[q] # Queue!None, NEW c \in Settled
             PROVE  (News(q, c) \/ Owes(q, c) \/ Shows(q, c))'
  BY DEF ViewInv
<1>1. CASE q = p
  BY <1>1
<1>2. CASE q # p
  <2>1. News(q, c) \/ Owes(q, c) \/ Shows(q, c)
    BY <1>2 DEF ViewInv
  <2>2. c \in Cell
    BY DEF Settled
  <2>3. QED
    BY <1>2, <2>1, <2>2, OtherView
<1>3. QED
  BY <1>1, <1>2

\* Steps that neither copy nor start or end a copy.
LEMMA SameCopy ==
  ASSUME CopyInv, UNCHANGED <<blocks, log>>, Settled' = Settled,
         \A q \in Proc :
            /\ snap'[q] = snap[q]
            /\ pc'[q] = "map" <=> pc[q] = "map"
            /\ pc[q] = "map" => position'[q] = position[q]
  PROVE  CopyInv'
<1> SUFFICES ASSUME NEW q \in Proc
             PROVE  /\ pc'[q] # "map" => snap'[q] = <<>>
                    /\ pc'[q] = "map" =>
                        /\ position'[q] # Queue!None
                        /\ Len(snap'[q]) < MapSize
                        /\ \A c \in Settled, k \in 1 .. Passes :
                             \/ News(q, c)' \/ At(k, c) > Len(snap'[q])
                             \/ snap'[q][At(k, c)] = blocks[c]
  BY DEF CopyInv, MapSize
<1>1. pc[q] = "map" => \A c : News(q, c)' = News(q, c)
  BY DEF News
<1>2. QED
  BY <1>1 DEF CopyInv

\* The cell a pass of the copy comes to.
LEMMA AtIs ==
  ASSUME NEW c \in Cell, NEW k \in 1 .. Passes
  PROVE  /\ At(k, c) \in 1 .. MapSize
         /\ At(1, c) = c
         /\ \A n \in Nat : At(k, c) = n + 1 => 1 + (n % Height) = c
<1>1. k \in {1, 2} /\ Passes \in {1, 2} /\ Height \in Nat \ {0} /\ c \in 1 .. Height /\ k <= Passes
  BY DEF Cell
<1>2. CASE k = 1
  BY <1>1, <1>2 DEF At, MapSize
<1>3. CASE k = 2
  BY <1>1, <1>3 DEF At, MapSize
<1>4. QED
  BY <1>1, <1>2, <1>3

\* A map is at least one pass over the level.
LEMMA MapSizeIs == MapSize \in Nat \ {0} /\ MapSize >= Height
<1>1. Passes \in {1, 2}
  OBVIOUS
<1>2. QED
  BY <1>1 DEF MapSize

\* The cell copied next is the one whose turn it is.
LEMMA NextIs ==
  ASSUME NEW s, Len(s) \in Nat
  PROVE  /\ NextCell(s) \in Cell
         /\ \A c \in Cell, k \in 1 .. Passes : At(k, c) = Len(s) + 1 => NextCell(s) = c
<1>1. \A n \in Nat : 1 + (n % Height) \in Cell
  BY DEF Cell
<1>2. QED
  BY <1>1, AtIs DEF NextCell

\* If packets on their way make up for what a client shows, it may show
\* anything.
LEMMA ComesAny ==
  ASSUME NEW v, NEW w, NEW s, NEW c, NEW b, ComesTo(v, s, c, b), v # b
  PROVE  ComesTo(w, s, c, b)
BY DEF ComesTo

\* A click: what the client shows in advance is owed an answer, for the block
\* it means is not the one there.
LEMMA ClickStep ==
  ASSUME IInv, NEW p \in Proc, NEW c \in Cell, NEW b \in Block, Click(p, c, b)
  PROVE  IInv'
<1> DEFINE m == [kind |-> "click", cell |-> c, block |-> b]
<1>0. /\ UNCHANGED <<blocks, log, position, sent, level_lock, pc, plan, snap, down, disputed>>
      /\ up[p] = <<>> /\ up' = [up EXCEPT ![p] = <<m>>]
      /\ view' = [view EXCEPT ![p][c] = b]
  BY DEF Click, queueVars
<1>1. TypeOK'
  BY ClickType DEF IInv
<1>2. UpInv'
  BY <1>0 DEF IInv, UpInv, TypeOK
<1>3. Settled' = Settled /\ WriteInv' /\ LogInv'
  BY <1>0, SameCells DEF IInv
<1>4. CopyInv'
  BY <1>0, <1>3, SameCopy DEF IInv
<1>5. ViewInv'
  <2> SUFFICES ASSUME position[p] # Queue!None, NEW d \in Settled
               PROVE  (News(p, d) \/ Owes(p, d) \/ Shows(p, d))'
    BY <1>0, <1>3, ViewStep DEF IInv, TypeOK
  <2>1. News(p, d) \/ Owes(p, d) \/ Shows(p, d)
    BY DEF IInv, ViewInv
  <2>2. CASE News(p, d)
    BY <1>0, <2>2 DEF News
  <2>3. CASE Owes(p, d)
    BY <1>0, <2>3 DEF Owes
  <2>4. CASE Shows(p, d) /\ d # c
    <3>1. view'[p][d] = view[p][d]
      BY <1>0, <2>4 DEF IInv, TypeOK
    <3>2. QED
      BY <1>0, <2>4, <3>1 DEF Shows
  <2>5. CASE Shows(p, c) /\ d = c
    <3>1. CASE view[p][c] = blocks[c]
      <4>1. Meant(p, b) # blocks[c]
        BY <3>1, ClassicAssumption DEF Click, Meant
      <4>2. up'[p] = <<m>>
        BY <1>0 DEF IInv, TypeOK
      <4>3. up'[p] # <<>> /\ Head(up'[p]) = m
        BY <4>2
      <4>4. Owes(p, c)'
        BY <1>0, <4>1, <4>3 DEF Owes, Meant
      <4>5. QED
        BY <2>5, <4>4
    <3>2. CASE view[p][c] # blocks[c]
      <4>1. ComesTo(view'[p][c], down[p], c, blocks[c])
        BY <2>5, <3>2, ComesAny DEF Shows
      <4>2. QED
        BY <1>0, <2>5, <4>1 DEF Shows
    <3>3. QED
      BY <3>1, <3>2
  <2>6. QED
    BY <2>1, <2>2, <2>3, <2>4, <2>5
<1>6. QED
  BY <1>1, <1>2, <1>3, <1>4, <1>5 DEF IInv

\* A command typed changes nothing anybody sees.
LEMMA PlaceCommandStep ==
  ASSUME IInv, NEW p \in Proc, NEW c \in Cell, NEW b \in Block, PlaceCommand(p, c, b)
  PROVE  IInv'
<1>0. /\ UNCHANGED <<blocks, log, position, sent, level_lock, pc, plan, snap, view, down, disputed>>
      /\ up[p] = <<>> /\ up' = [up EXCEPT ![p] = <<[kind |-> "place", cell |-> c, block |-> b]>>]
  BY DEF PlaceCommand, queueVars
<1>1. TypeOK'
  BY PlaceCommandType DEF IInv
<1>2. UpInv'
  BY <1>0 DEF IInv, UpInv, TypeOK
<1>3. Settled' = Settled /\ WriteInv' /\ LogInv'
  BY <1>0, SameCells DEF IInv
<1>4. CopyInv'
  BY <1>0, <1>3, SameCopy DEF IInv
<1>5. ViewInv'
  <2> SUFFICES ASSUME position[p] # Queue!None, NEW d \in Settled
               PROVE  (News(p, d) \/ Owes(p, d) \/ Shows(p, d))'
    BY <1>0, <1>3, ViewStep DEF IInv, TypeOK
  <2>1. News(p, d) \/ Owes(p, d) \/ Shows(p, d)
    BY DEF IInv, ViewInv
  <2>2. QED
    BY <1>0, <2>1 DEF News, Owes, Shows
<1>6. QED
  BY <1>1, <1>2, <1>3, <1>4, <1>5 DEF IInv

\* A packet received: the client comes to what it would come to.
LEMMA ReceiveStep ==
  ASSUME IInv, NEW p \in Proc, Receive(p)
  PROVE  IInv'
<1> DEFINE m == Head(down[p])
<1>0. /\ UNCHANGED <<blocks, log, position, sent, level_lock, pc, plan, snap, up, disputed>>
      /\ down[p] # <<>> /\ down' = [down EXCEPT ![p] = Tail(@)]
      /\ view' = [view EXCEPT ![p] = IF "map" \in DOMAIN m THEN m.map
                                     ELSE [@ EXCEPT ![m.cell] = m.block]]
  BY DEF Receive, queueVars
<1>1. TypeOK'
  BY ReceiveType DEF IInv
<1>2. UpInv'
  BY <1>0 DEF IInv, UpInv
<1>3. Settled' = Settled /\ WriteInv' /\ LogInv'
  BY <1>0, SameCells DEF IInv
<1>4. CopyInv'
  BY <1>0, <1>3, SameCopy DEF IInv
<1>5. ViewInv'
  <2> SUFFICES ASSUME position[p] # Queue!None, NEW d \in Settled
               PROVE  (News(p, d) \/ Owes(p, d) \/ Shows(p, d))'
    BY <1>0, <1>3, ViewStep DEF IInv, TypeOK
  <2>1. News(p, d) \/ Owes(p, d) \/ Shows(p, d)
    BY DEF IInv, ViewInv
  <2>2. CASE News(p, d) \/ Owes(p, d)
    BY <1>0, <2>2 DEF News, Owes
  <2>3. CASE Shows(p, d)
    <3>1. d \in Cell /\ down[p] \in Seq(Packet) /\ m \in Packet
      BY <1>0, TailIs DEF IInv, TypeOK, Settled
    <3>2. view'[p][d] = IF Tells(m, d) THEN Told(m, d) ELSE view[p][d]
      <4>1. CASE "map" \in DOMAIN m
        BY <1>0, <4>1 DEF IInv, TypeOK, Tells, Told
      <4>2. CASE "map" \notin DOMAIN m
        <5>1. view'[p] = [view[p] EXCEPT ![m.cell] = m.block]
          BY <1>0, <4>2 DEF IInv, TypeOK
        <5>2. QED
          BY <3>1, <4>2, <5>1, PacketIs DEF IInv, TypeOK, Tells, Told
      <4>3. QED
        BY <4>1, <4>2
    <3>3. ComesTo(view'[p][d], Tail(down[p]), d, blocks[d])
      BY <1>0, <2>3, <3>1, <3>2, ComesTail DEF Shows
    <3>4. down'[p] = Tail(down[p])
      BY <1>0 DEF IInv, TypeOK
    <3>5. QED
      BY <1>0, <3>3, <3>4 DEF Shows
  <2>4. QED
    BY <2>1, <2>2, <2>3
<1>6. QED
  BY <1>1, <1>2, <1>3, <1>4, <1>5 DEF IInv

\* A packet that tells of a cell as it is, or does not tell of it, does no harm.
LEMMA ShowsPacket ==
  ASSUME TypeOK, NEW p \in Proc, NEW m \in Packet, SendPacket(p, m), UNCHANGED <<blocks, view>>,
         NEW d, ~Tells(m, d) => Shows(p, d), Tells(m, d) => Told(m, d) = blocks[d]
  PROVE  Shows(p, d)'
<1>1. down[p] \in Seq(Packet) /\ down'[p] = Append(down[p], m)
  BY DEF TypeOK, SendPacket
<1>2. ComesTo(view[p][d], Append(down[p], m), d, blocks[d])
  BY <1>1, ComesAppend DEF Shows
<1>3. QED
  BY <1>1, <1>2 DEF Shows

\* A click refused: the packet tells of the cell as it is, and no other answer
\* is owed.
LEMMA RevertClientStep ==
  ASSUME IInv, NEW p \in Proc, RevertClient(p)
  PROVE  IInv'
<1> DEFINE r == Head(up[p])
           m == [cell |-> r.cell, block |-> blocks[r.cell]]
<1>0. /\ UNCHANGED <<blocks, log, position, sent, level_lock, pc, plan, snap, view, disputed>>
      /\ SendPacket(p, m) /\ down' = [down EXCEPT ![p] = Append(@, m)]
      /\ up[p] # <<>> /\ up' = [up EXCEPT ![p] = Tail(@)]
  BY DEF RevertClient, queueVars, SendPacket
<1>1. TypeOK'
  BY RevertClientType DEF IInv
<1>2. UpInv'
  <2>1. up[p] \in Seq(Request) /\ up'[p] = Tail(up[p])
    BY <1>0 DEF IInv, TypeOK
  <2>2. Len(up'[p]) <= 1
    BY <1>0, <2>1, TailIs DEF IInv, UpInv
  <2>3. QED
    BY <1>0, <2>2 DEF IInv, UpInv, TypeOK
<1>3. Settled' = Settled /\ WriteInv' /\ LogInv'
  BY <1>0, SameCells DEF IInv
<1>4. CopyInv'
  BY <1>0, <1>3, SameCopy DEF IInv
<1>5. ViewInv'
  <2> SUFFICES ASSUME position[p] # Queue!None, NEW d \in Settled
               PROVE  (News(p, d) \/ Owes(p, d) \/ Shows(p, d))'
    BY <1>0, <1>3, ViewStep DEF IInv, TypeOK
  <2>1. News(p, d) \/ Owes(p, d) \/ Shows(p, d)
    BY DEF IInv, ViewInv
  <2>2. m \in Packet /\ "map" \notin DOMAIN m /\ m.cell = r.cell /\ m.block = blocks[r.cell]
    <3>1. r \in Request
      BY <1>0, TailIs DEF IInv, TypeOK
    <3>2. r.cell \in Cell /\ blocks[r.cell] \in Block
      BY <3>1 DEF IInv, TypeOK, Request
    <3>3. QED
      BY <3>2, CellPacket
  <2>3. CASE d = r.cell
    BY <1>0, <2>2, <2>3, ShowsPacket DEF IInv, Tells, Told
  <2>4. CASE d # r.cell /\ Shows(p, d)
    BY <1>0, <2>2, <2>4, ShowsPacket DEF IInv, Tells, Told
  <2>5. CASE d # r.cell /\ Owes(p, d)
    BY <1>0, <2>5 DEF Owes
  <2>6. CASE News(p, d)
    BY <1>0, <2>6 DEF News
  <2>7. QED
    BY <2>1, <2>3, <2>4, <2>5, <2>6
<1>6. QED
  BY <1>1, <1>2, <1>3, <1>4, <1>5 DEF IInv

\* A click taken: the plan answers it, unless the cell is what the client
\* meant.
LEMMA UpdateBlockStep ==
  ASSUME IInv, NEW p \in Proc, UpdateBlock(p)
  PROVE  IInv'
<1> DEFINE r == Head(up[p])
<1>0. /\ UNCHANGED <<blocks, log, position, sent, level_lock, snap, view, down, disputed>>
      /\ up[p] # <<>> /\ up' = [up EXCEPT ![p] = Tail(@)]
      /\ pc[p] = "idle" /\ pc' = [pc EXCEPT ![p] = IF plan'[p] = <<>> THEN "idle" ELSE "write"]
      /\ \E w \in Wishes(p, r) : plan' = [plan EXCEPT ![p] = Writes(r.cell, w[1], w[2])]
  BY DEF UpdateBlock, queueVars
<1>1. TypeOK'
  BY UpdateBlockType DEF IInv
<1>2. UpInv'
  <2>1. up[p] \in Seq(Request) /\ up'[p] = Tail(up[p])
    BY <1>0 DEF IInv, TypeOK
  <2>2. Len(up'[p]) <= 1
    BY <1>0, <2>1, TailIs DEF IInv, UpInv
  <2>3. QED
    BY <1>0, <2>2 DEF IInv, UpInv, TypeOK
<1>3. \A q \in Proc : q # p => pc'[q] = pc[q] /\ plan'[q] = plan[q]
  BY <1>0 DEF IInv, TypeOK
<1>4. pc'[p] \in {"idle", "write"}
  BY <1>0 DEF IInv, TypeOK
<1>5. Settled' = Settled /\ WriteInv' /\ LogInv'
  BY <1>0, <1>3, <1>4, SameCells DEF IInv
<1>6. CopyInv'
  BY <1>0, <1>3, <1>4, <1>5, SameCopy DEF IInv
<1>7. ViewInv'
  <2> SUFFICES ASSUME position[p] # Queue!None, NEW d \in Settled
               PROVE  (News(p, d) \/ Owes(p, d) \/ Shows(p, d))'
    BY <1>0, <1>3, <1>5, ViewStep DEF IInv, TypeOK
  <2>1. News(p, d) \/ Owes(p, d) \/ Shows(p, d)
    BY DEF IInv, ViewInv
  <2>2. CASE News(p, d) \/ Shows(p, d)
    BY <1>0, <2>2 DEF News, Shows
  <2>3. CASE Owes(p, d)
    <3>1. plan[p] = <<>>
      BY <1>0 DEF IInv, TypeOK
    <3>2. r.kind = "click" /\ r.cell = d /\ Meant(p, r.block) # blocks[d]
      BY <1>0, <2>3, <3>1 DEF Owes
    <3>3. PICK w \in Wishes(p, r) : plan' = [plan EXCEPT ![p] = Writes(r.cell, w[1], w[2])]
      BY <1>0
    <3>4. r \in Request
      BY <1>0, TailIs DEF IInv, TypeOK
    <3>5. w[1] \in Block /\ w[2] \in 1 .. 3 /\ ~(blocks[d] = w[1] /\ w[2] # 2)
      BY <3>2, <3>4 DEF Wishes, Meant, Request
    <3>6. d \in Cell
      BY DEF Settled
    <3>7. plan'[p] = Writes(d, w[1], w[2])
      BY <3>2, <3>3 DEF IInv, TypeOK
    <3>8. /\ 1 \in DOMAIN plan'[p] /\ plan'[p][1].cell = d
          /\ plan'[p][1].echo \/ plan'[p][1].block # blocks[d]
      BY <3>5, <3>6, <3>7, WritesAre DEF IInv
    <3>9. QED
      BY <1>0, <3>8 DEF Owes
  <2>4. QED
    BY <2>1, <2>2, <2>3
<1>8. QED
  BY <1>1, <1>2, <1>5, <1>6, <1>7 DEF IInv

\* A drawing command: nothing was owed by the process but for the click in the
\* connection.
LEMMA DrawStep ==
  ASSUME IInv, NEW p \in Proc, NEW lo \in Cell, NEW b \in Block, NEW hi \in lo .. Height,
         Draw(p, lo, hi, b)
  PROVE  IInv'
<1>0. /\ UNCHANGED <<blocks, log, position, sent, snap, view, up, down, disputed>>
      /\ pc[p] = "idle" /\ pc' = [pc EXCEPT ![p] = "write"]
      /\ \A q \in Proc : q # p => plan'[q] = plan[q]
  BY DEF Draw, IInv, TypeOK
<1>1. TypeOK'
  BY DrawType DEF IInv
<1>2. UpInv'
  BY <1>0 DEF IInv, UpInv
<1>3. \A q \in Proc : q # p => pc'[q] = pc[q]
  BY <1>0 DEF IInv, TypeOK
<1>4. pc'[p] = "write"
  BY <1>0 DEF IInv, TypeOK
<1>5. Settled' = Settled /\ WriteInv' /\ LogInv'
  BY <1>0, <1>3, <1>4, SameCells DEF IInv
<1>6. CopyInv'
  BY <1>0, <1>3, <1>4, <1>5, SameCopy DEF IInv
<1>7. ViewInv'
  <2> SUFFICES ASSUME position[p] # Queue!None, NEW d \in Settled
               PROVE  (News(p, d) \/ Owes(p, d) \/ Shows(p, d))'
    BY <1>0, <1>3, <1>5, ViewStep DEF IInv, TypeOK
  <2>1. News(p, d) \/ Owes(p, d) \/ Shows(p, d)
    BY DEF IInv, ViewInv
  <2>2. plan[p] = <<>>
    BY <1>0 DEF IInv, TypeOK
  <2>3. QED
    BY <1>0, <2>1, <2>2 DEF News, Owes, Shows
<1>8. QED
  BY <1>1, <1>2, <1>5, <1>6, <1>7 DEF IInv

\* The place is taken before anything is copied: what is not queued from here
\* on is copied as it stays.
LEMMA SendMapFileStep ==
  ASSUME IInv, NEW p \in Proc, SendMapFile(p)
  PROVE  IInv'
<1>0. /\ UNCHANGED <<blocks, log, plan, snap, view, up, down, disputed>>
      /\ pc[p] = "idle" /\ pc' = [pc EXCEPT ![p] = "map"]
      /\ position' = [position EXCEPT ![p] = Len(log)]
  BY DEF SendMapFile, SetPlace
<1>1. TypeOK'
  BY SendMapFileType DEF IInv
<1>2. UpInv'
  BY <1>0 DEF IInv, UpInv
<1>3. \A q \in Proc : q # p => pc'[q] = pc[q] /\ position'[q] = position[q]
  BY <1>0 DEF IInv, TypeOK
<1>4. pc'[p] = "map" /\ position'[p] = Len(log)
  BY <1>0 DEF IInv, TypeOK
<1>5. Settled' = Settled /\ WriteInv' /\ LogInv'
  BY <1>0, <1>3, <1>4, SameCells DEF IInv
<1>6. CopyInv'
  <2>1. \A q \in Proc : q # p => \A c : News(q, c)' = News(q, c)
    BY <1>0, <1>3 DEF News
  <2>2. snap[p] = <<>> /\ Len(snap[p]) = 0
    BY <1>0 DEF IInv, CopyInv
  <2>3. position'[p] # Queue!None
    BY <1>4 DEF IInv, TypeOK, Queue!None
  <2>4. \A c \in Cell, k \in 1 .. Passes : At(k, c) > 0 /\ MapSize > 0
    BY AtIs DEF MapSize
  <2>5. MapSize > 0
    BY DEF MapSize
  <2>6. Settled \subseteq Cell
    BY DEF Settled
  <2>7. MapSize' = MapSize
    BY DEF MapSize
  <2>8. QED
    BY <1>0, <1>3, <1>4, <1>5, <2>1, <2>2, <2>3, <2>4, <2>5, <2>6, <2>7 DEF IInv, CopyInv
<1>7. ViewInv'
  <2> SUFFICES ASSUME NEW d \in Settled
               PROVE  (News(p, d) \/ Owes(p, d) \/ Shows(p, d))'
    BY <1>0, <1>3, <1>5, ViewStep DEF IInv, TypeOK
  <2>1. QED
    BY <1>4 DEF Owes
<1>8. QED
  BY <1>1, <1>2, <1>5, <1>6, <1>7 DEF IInv

\* The copy with one cell more: what is right stays so.
LEMMA Copied ==
  ASSUME IInv, NEW p \in Proc, pc[p] = "map"
  PROVE  LET s == Append(snap[p], blocks[NextCell(snap[p])])
         IN /\ s \in Seq(Block) /\ Len(s) = Len(snap[p]) + 1 /\ Len(s) \in 1 .. MapSize
            /\ \A c \in Settled, k \in 1 .. Passes :
                 News(p, c) \/ At(k, c) > Len(s) \/ s[At(k, c)] = blocks[c]
<1> DEFINE n == Len(snap[p])
           s == Append(snap[p], blocks[NextCell(snap[p])])
<1>1. snap[p] \in Seq(Block) /\ n \in Nat /\ n < MapSize /\ MapSize \in Nat
  BY MapSizeIs DEF IInv, TypeOK, CopyInv
<1>2. NextCell(snap[p]) \in Cell
  BY <1>1, NextIs
<1>3. blocks[NextCell(snap[p])] \in Block
  BY <1>2 DEF IInv, TypeOK
<1>4. /\ s \in Seq(Block) /\ Len(s) = n + 1 /\ s[n + 1] = blocks[NextCell(snap[p])]
      /\ \A i \in 1 .. n : s[i] = snap[p][i]
  BY <1>1, <1>3, AppendIs
<1>5. Len(s) \in 1 .. MapSize
  BY <1>1, <1>4
<1> HIDE DEF s
<1>6. ASSUME NEW c \in Settled, NEW k \in 1 .. Passes, ~News(p, c), ~(At(k, c) > Len(s))
      PROVE  s[At(k, c)] = blocks[c]
  <2>1. c \in Cell /\ At(k, c) \in 1 .. MapSize
    BY AtIs DEF Settled
  <2>2. CASE At(k, c) = n + 1
    <3>1. NextCell(snap[p]) = c
      BY <1>1, <2>1, <2>2, NextIs
    <3>2. QED
      BY <1>4, <2>2, <3>1
  <2>3. CASE At(k, c) # n + 1
    <3>1. At(k, c) \in 1 .. n
      BY <1>1, <1>4, <1>6, <2>1, <2>3
    <3>2. snap[p][At(k, c)] = blocks[c]
      BY <1>1, <1>6, <3>1 DEF IInv, CopyInv
    <3>3. QED
      BY <1>4, <3>1, <3>2
  <2>4. QED
    BY <2>2, <2>3
<1>7. \A c \in Settled, k \in 1 .. Passes :
        News(p, c) \/ At(k, c) > Len(s) \/ s[At(k, c)] = blocks[c]
  BY <1>6
<1>8. QED
  BY <1>4, <1>5, <1>7 DEF s

\* The packet of a complete copy.
LEMMA MapPacket ==
  ASSUME NEW s \in Seq(Block), Len(s) >= MapSize
  PROVE  LET m == [map |-> MapOf(s)]
         IN m \in Packet /\ "map" \in DOMAIN m /\ m.map = MapOf(s)
<1>1. \A c \in Cell : c \in 1 .. Len(s)
  BY DEF Cell, MapSize
<1>2. \A c \in Cell : s[c] \in Block
  BY <1>1, ElementIs
<1>3. MapOf(s) \in [Cell -> Block \cup {NoBlock}]
  BY <1>2 DEF MapOf
<1>4. QED
  BY <1>3 DEF Packet

\* The copy of one cell, or the packet when it is complete (send_block_array),
\* leaves the variables in their types.
LEMMA SendCellType ==
  ASSUME IInv, NEW p \in Proc, SendCell(p)
  PROVE  TypeOK'
<1> DEFINE s == Append(snap[p], blocks[NextCell(snap[p])])
<1>1. pc[p] = "map" /\ UNCHANGED <<blocks, log, position, sent, level_lock, plan, view, up, edits, disputed>>
  BY DEF SendCell, queueVars, clientVars
<1>2. s \in Seq(Block) /\ Len(s) \in Nat
  BY <1>1, Copied
<1> HIDE DEF s
<1>3. CASE snap' = [snap EXCEPT ![p] = s] /\ UNCHANGED <<pc, down>>
  BY <1>1, <1>2, <1>3 DEF IInv, TypeOK
<1>4. CASE /\ ~(Len(s) < MapSize) /\ SendPacket(p, [map |-> MapOf(s)])
           /\ snap' = [snap EXCEPT ![p] = <<>>] /\ pc' = [pc EXCEPT ![p] = "idle"]
  <2>1. [map |-> MapOf(s)] \in Packet
    <3>1. Len(s) >= MapSize
      BY <1>2, <1>4, MapSizeIs
    <3>2. QED
      BY <1>2, <3>1, MapPacket
  <2>2. down' \in [Proc -> Seq(Packet)]
    BY <1>4, <2>1, SendPacketType DEF IInv
  <2>3. <<>> \in Seq(Block)
    OBVIOUS
  <2>4. QED
    BY <1>1, <1>4, <2>2, <2>3 DEF IInv, TypeOK
<1>5. QED
  BY <1>3, <1>4 DEF SendCell, s

\* A complete copy is right wherever the queue has nothing new.
LEMMA SendCellStep ==
  ASSUME IInv, NEW p \in Proc, SendCell(p)
  PROVE  IInv'
<1> DEFINE s == Append(snap[p], blocks[NextCell(snap[p])])
           m == [map |-> MapOf(s)]
<1>0. /\ UNCHANGED <<blocks, log, position, sent, level_lock, plan, view, up, edits, disputed>>
      /\ pc[p] = "map"
  BY DEF SendCell, queueVars, clientVars
<1>1. TypeOK'
  BY SendCellType DEF IInv
<1>2. UpInv'
  BY <1>0 DEF IInv, UpInv
<1>3. /\ s \in Seq(Block) /\ Len(s) \in 1 .. MapSize
      /\ \A c \in Settled, k \in 1 .. Passes :
           News(p, c) \/ At(k, c) > Len(s) \/ s[At(k, c)] = blocks[c]
  BY <1>0, Copied
<1>4. \/ Len(s) < MapSize /\ snap' = [snap EXCEPT ![p] = s] /\ UNCHANGED <<pc, down>>
      \/ /\ ~(Len(s) < MapSize) /\ SendPacket(p, m) /\ down' = [down EXCEPT ![p] = Append(@, m)]
         /\ snap' = [snap EXCEPT ![p] = <<>>] /\ pc' = [pc EXCEPT ![p] = "idle"]
  BY DEF SendCell, SendPacket
<1> HIDE DEF s
<1>5. \A q \in Proc : q # p => pc'[q] = pc[q] /\ snap'[q] = snap[q] /\ down'[q] = down[q]
  BY <1>4 DEF IInv, TypeOK
<1>6. \/ pc'[p] = "map" /\ snap'[p] = s /\ Len(s) < MapSize
      \/ pc'[p] = "idle" /\ snap'[p] = <<>> /\ Len(s) >= MapSize /\ SendPacket(p, m)
  BY <1>0, <1>3, <1>4, MapSizeIs DEF IInv, TypeOK
<1>7. Settled' = Settled /\ WriteInv' /\ LogInv'
  BY <1>0, <1>5, <1>6, SameCells DEF IInv
<1>8. CopyInv'
  <2>1. \A q \in Proc, c \in Cell : News(q, c)' = News(q, c)
    BY <1>0 DEF News
  <2>2. MapSize' = MapSize /\ Settled \subseteq Cell
    BY DEF MapSize, Settled
  <2>3. QED
    BY <1>0, <1>3, <1>5, <1>6, <1>7, <2>1, <2>2 DEF IInv, CopyInv
<1>9. ViewInv'
  <2> SUFFICES ASSUME position[p] # Queue!None, NEW d \in Settled
               PROVE  (News(p, d) \/ Owes(p, d) \/ Shows(p, d))'
    BY <1>0, <1>5, <1>7, ViewStep DEF IInv, TypeOK
  <2>1. CASE pc'[p] = "map"
    BY <2>1 DEF Owes
  <2>2. CASE News(p, d)
    BY <1>0, <2>2 DEF News
  <2>3. CASE pc'[p] # "map" /\ ~News(p, d)
    <3>1. d \in Cell /\ Len(s) = MapSize /\ 1 \in 1 .. Passes
      BY <1>3, <1>6, <2>3, MapSizeIs DEF Settled
    <3>2. \A k \in 1 .. Passes : s[At(k, d)] = blocks[d]
      <4> SUFFICES ASSUME NEW k \in 1 .. Passes
                   PROVE  s[At(k, d)] = blocks[d]
        OBVIOUS
      <4>1. At(k, d) \in 1 .. MapSize
        BY <3>1, AtIs
      <4>2. ~(At(k, d) > Len(s))
        BY <3>1, <4>1, MapSizeIs
      <4>3. QED
        BY <1>3, <2>3, <4>2
    <3>3. s[d] = blocks[d]
      BY <3>1, <3>2, AtIs
    <3>4. MapOf(s)[d] = blocks[d]
      BY <3>1, <3>2, <3>3 DEF MapOf
    <3>5. m \in Packet /\ "map" \in DOMAIN m /\ m.map = MapOf(s)
      BY <1>3, <3>1, MapPacket, MapSizeIs
    <3>6. Tells(m, d) /\ Told(m, d) = blocks[d]
      BY <3>4, <3>5 DEF Tells, Told
    <3>7. SendPacket(p, m)
      BY <1>6, <2>3
    <3> HIDE DEF m
    <3>8. Shows(p, d)'
      BY <1>0, <3>5, <3>6, <3>7, ShowsPacket DEF IInv
    <3>9. QED
      BY <3>8
  <2>4. QED
    BY <2>1, <2>2, <2>3
<1>10. QED
  BY <1>1, <1>2, <1>7, <1>8, <1>9 DEF IInv

\* What is left of a plan after its first write.
LEMMA PlanTail ==
  ASSUME NEW w \in Seq(Write), NEW i \in DOMAIN w, i # 1
  PROVE  i - 1 \in DOMAIN Tail(w) /\ Tail(w)[i - 1] = w[i]
<1>1. w # <<>> /\ DOMAIN w = 1 .. Len(w)
  BY AppendIs
<1>2. QED
  BY <1>1, TailIs

\* A write done with moves its process only.
LEMMA DoneOneIs ==
  ASSUME TypeOK, NEW p \in Proc, pc[p] \in {"write", "send"}, DoneOne(p)
  PROVE  /\ plan'[p] = Tail(plan[p]) /\ pc'[p] \in {"idle", "write"}
         /\ \A q \in Proc : q # p => pc'[q] = pc[q] /\ plan'[q] = plan[q]
BY DEF TypeOK, DoneOne

\* A block that was there already: if the client was owed the cell it is told,
\* or a later write of the plan is still to come.
LEMMA NoChangeStep ==
  ASSUME IInv, NEW p \in Proc, NoChange(p)
  PROVE  IInv'
<1> DEFINE w == Head(plan[p])
           m == [cell |-> w.cell, block |-> w.block]
<1>0. /\ UNCHANGED <<blocks, log, position, sent, snap, view, up, disputed>>
      /\ pc[p] = "write" /\ DoneOne(p) /\ w.block = blocks[w.cell]
      /\ \/ w.echo /\ SendPacket(p, m)
         \/ ~w.echo /\ UNCHANGED down
  BY DEF NoChange, clientVars
<1>1. TypeOK'
  BY NoChangeType DEF IInv
<1>2. UpInv'
  BY <1>0 DEF IInv, UpInv
<1>3. /\ plan'[p] = Tail(plan[p]) /\ pc'[p] \in {"idle", "write"}
      /\ \A q \in Proc : q # p => pc'[q] = pc[q] /\ plan'[q] = plan[q] /\ down'[q] = down[q]
  <2>1. \A q \in Proc : q # p => down'[q] = down[q]
    BY <1>0 DEF IInv, TypeOK, SendPacket
  <2>2. QED
    BY <1>0, <2>1, DoneOneIs DEF IInv
<1>4. /\ w = plan[p][1] /\ m \in Packet /\ "map" \notin DOMAIN m
      /\ m.cell = w.cell /\ m.block = w.block
  BY <1>0, PlanHead, CellPacket DEF IInv
<1> HIDE DEF w
<1>5. Settled' = Settled /\ WriteInv' /\ LogInv'
  BY <1>0, <1>3, SameCells DEF IInv
<1>6. CopyInv'
  BY <1>0, <1>3, <1>5, SameCopy DEF IInv
<1>7. ViewInv'
  <2> SUFFICES ASSUME position[p] # Queue!None, NEW d \in Settled
               PROVE  (News(p, d) \/ Owes(p, d) \/ Shows(p, d))'
    BY <1>0, <1>3, <1>5, ViewStep DEF IInv, TypeOK
  <2>1. News(p, d) \/ Owes(p, d) \/ Shows(p, d)
    BY DEF IInv, ViewInv
  <2>2. CASE News(p, d)
    BY <1>0, <2>2 DEF News
  <2>3. CASE d = w.cell /\ w.echo
    <3>1. Tells(m, d) /\ Told(m, d) = blocks[d]
      BY <1>0, <1>4, <2>3 DEF Tells, Told
    <3> HIDE DEF m
    <3>2. Shows(p, d)'
      BY <1>0, <1>4, <2>3, <3>1, ShowsPacket DEF IInv
    <3>3. QED
      BY <3>2
  <2>4. CASE ~(d = w.cell /\ w.echo) /\ Shows(p, d)
    <3>1. CASE w.echo
      <4>1. ~Tells(m, d)
        BY <1>4, <2>4, <3>1 DEF Tells
      <4> HIDE DEF m
      <4>2. Shows(p, d)'
        BY <1>0, <1>4, <2>4, <3>1, <4>1, ShowsPacket DEF IInv
      <4>3. QED
        BY <4>2
    <3>2. CASE ~w.echo
      BY <1>0, <2>4, <3>2 DEF Shows
    <3>3. QED
      BY <3>1, <3>2
  <2>5. CASE ~(d = w.cell /\ w.echo) /\ Owes(p, d)
    <3>1. CASE up[p] # <<>> /\ LET r == Head(up[p])
                               IN r.kind = "click" /\ r.cell = d /\ Meant(p, r.block) # blocks[d]
      BY <1>0, <3>1 DEF Owes, Meant
    <3>2. ASSUME NEW i \in DOMAIN plan[p], plan[p][i].cell = d,
                 plan[p][i].echo \/ plan[p][i].block # blocks[d]
          PROVE  Owes(p, d)'
      <4>1. i # 1
        BY <1>0, <1>4, <2>5, <3>2
      <4>2. plan[p] \in Seq(Write)
        BY DEF IInv, TypeOK
      <4>3. i - 1 \in DOMAIN plan'[p] /\ plan'[p][i - 1] = plan[p][i]
        BY <1>3, <4>1, <4>2, PlanTail
      <4>4. QED
        BY <1>0, <3>2, <4>3 DEF Owes
    <3>3. pc[p] # "map"
      BY <1>0
    <3>4. QED
      BY <2>5, <3>1, <3>2, <3>3 DEF Owes
  <2>6. QED
    BY <2>1, <2>2, <2>3, <2>4, <2>5
<1>8. QED
  BY <1>1, <1>2, <1>5, <1>6, <1>7 DEF IInv

\* A reader dropped from the queue is promised nothing until it gets the map.
LEMMA OverrunStep ==
  ASSUME IInv, NEW p \in Proc, Overrun(p)
  PROVE  IInv'
<1>0. /\ UNCHANGED <<blocks, log, pc, plan, snap, view, up, down, disputed>>
      /\ pc[p] = "idle" /\ position' = [position EXCEPT ![p] = Queue!None]
  BY DEF Overrun
<1>1. TypeOK'
  BY OverrunType DEF IInv
<1>2. UpInv'
  BY <1>0 DEF IInv, UpInv
<1>3. position'[p] = Queue!None /\ \A q \in Proc : q # p => position'[q] = position[q]
  BY <1>0 DEF IInv, TypeOK
<1>4. Settled' = Settled /\ WriteInv' /\ LogInv'
  BY <1>0, SameCells DEF IInv
<1>5. CopyInv'
  BY <1>0, <1>3, <1>4, SameCopy DEF IInv
<1>6. ViewInv'
  BY <1>0, <1>3, <1>4, ViewStep DEF IInv
<1>7. QED
  BY <1>1, <1>2, <1>4, <1>5, <1>6 DEF IInv

\* An update sent from the queue: if it was the last of its cell it tells of
\* the cell as it is.
LEMMA SendQueuedBlockStep ==
  ASSUME IInv, NEW p \in Proc, SendQueuedBlock(p)
  PROVE  IInv'
<1> DEFINE n == position[p] + 1
           m == log[n]
<1>0. /\ UNCHANGED <<blocks, log, pc, plan, snap, view, up, disputed>>
      /\ pc[p] = "idle" /\ position' = [position EXCEPT ![p] = n]
      /\ position[p] # Queue!None /\ position[p] < Len(log) /\ SendPacket(p, m)
  BY DEF SendQueuedBlock, clientVars, Queue!Deliver
<1>1. TypeOK'
  BY SendQueuedBlockType DEF IInv
<1>2. UpInv'
  BY <1>0 DEF IInv, UpInv
<1>3. /\ position'[p] = n
      /\ \A q \in Proc : q # p => position'[q] = position[q] /\ down'[q] = down[q]
  BY <1>0 DEF IInv, TypeOK, SendPacket
<1>4. Settled' = Settled /\ WriteInv' /\ LogInv'
  BY <1>0, SameCells DEF IInv
<1>5. CopyInv'
  BY <1>0, <1>3, <1>4, SameCopy DEF IInv
<1>6. position[p] \in Nat /\ Len(log) \in Nat /\ n \in 1 .. Len(log)
  BY <1>0 DEF IInv, TypeOK
<1>7. m \in Packet /\ "map" \notin DOMAIN m
  <2>1. m \in [cell : Cell, block : Block]
    BY <1>6, Entry DEF IInv
  <2> HIDE DEF m
  <2>2. QED
    BY <2>1 DEF Packet
<1>8. ViewInv'
  <2> SUFFICES ASSUME NEW d \in Settled
               PROVE  (News(p, d) \/ Owes(p, d) \/ Shows(p, d))'
    BY <1>0, <1>3, <1>4, ViewStep DEF IInv
  <2>1. News(p, d) \/ Owes(p, d) \/ Shows(p, d)
    BY <1>0 DEF IInv, ViewInv
  <2>2. CASE Owes(p, d)
    BY <1>0, <2>2 DEF Owes
  <2>3. CASE m.cell = d
    <3>1. CASE \A j \in n + 1 .. Len(log) : log[j].cell # d
      <4>1. m.block = blocks[d]
        BY <1>6, <2>3, <3>1 DEF IInv, LogInv
      <4>2. Tells(m, d) /\ Told(m, d) = blocks[d]
        BY <1>7, <2>3, <4>1 DEF Tells, Told
      <4> HIDE DEF m
      <4>3. Shows(p, d)'
        BY <1>0, <1>7, <4>2, ShowsPacket DEF IInv
      <4>4. QED
        BY <4>3
    <3>2. CASE \E j \in n + 1 .. Len(log) : log[j].cell = d
      BY <1>0, <1>3, <3>2 DEF News
    <3>3. QED
      BY <3>1, <3>2
  <2>4. CASE m.cell # d /\ News(p, d)
    <3>1. PICK i \in n .. Len(log) : log[i].cell = d
      BY <2>4 DEF News
    <3>2. i \in n + 1 .. Len(log)
      BY <1>6, <2>4, <3>1
    <3>3. QED
      BY <1>0, <1>3, <3>1, <3>2 DEF News
  <2>5. CASE m.cell # d /\ Shows(p, d)
    <3>1. ~Tells(m, d)
      BY <1>7, <2>5 DEF Tells
    <3> HIDE DEF m
    <3>2. Shows(p, d)'
      BY <1>0, <1>7, <2>5, <3>1, ShowsPacket DEF IInv
    <3>3. QED
      BY <3>2
  <2>6. QED
    BY <2>1, <2>2, <2>3, <2>4, <2>5
<1>9. QED
  BY <1>1, <1>2, <1>4, <1>5, <1>8 DEF IInv

\* A block written: until its update is queued nothing is said of the cell, and
\* if another process has one of that cell to queue, never again.
LEMMA WriteBlockStep ==
  ASSUME IInv, NEW p \in Proc, WriteBlock(p)
  PROVE  IInv'
<1> DEFINE w == Head(plan[p])
           c == w.cell
<1>0. /\ UNCHANGED <<log, position, plan, snap, view, up, down>>
      /\ pc[p] = "write" /\ pc' = [pc EXCEPT ![p] = "send"]
      /\ blocks' = [blocks EXCEPT ![c] = w.block]
      /\ disputed' = IF \E q \in Proc : c \in Unsent(q) THEN disputed \cup {c} ELSE disputed
  BY DEF WriteBlock, queueVars, clientVars
<1>1. TypeOK'
  BY WriteBlockType DEF IInv
<1>2. UpInv'
  BY <1>0 DEF IInv, UpInv
<1>3. pc'[p] = "send" /\ \A q \in Proc : q # p => pc'[q] = pc[q]
  BY <1>0 DEF IInv, TypeOK
<1>4. c \in Cell /\ w.block \in Block
  BY <1>0, PlanHead DEF IInv
<1>5. blocks'[c] = w.block /\ \A d \in Cell : d # c => blocks'[d] = blocks[d]
  BY <1>0, <1>4 DEF IInv, TypeOK
<1>6. \A d \in Settled' : d \in Settled /\ d # c /\ d \in Cell
  <2>1. Unsent(p) = {} /\ Unsent(p)' = {c} /\ \A q \in Proc : q # p => Unsent(q)' = Unsent(q)
    BY <1>0, <1>3 DEF Unsent
  <2>2. disputed \subseteq disputed'
    BY <1>0
  <2>3. QED
    BY <2>1, <2>2 DEF Settled, Pending
<1>7. WriteInv'
  <2> SUFFICES ASSUME NEW q \in Proc, pc'[q] = "send"
               PROVE  LET v == Head(plan[q]) IN v.cell \in disputed' \/ v.block = blocks'[v.cell]
    BY <1>0 DEF WriteInv
  <2>1. CASE q = p
    BY <1>5, <2>1
  <2>2. CASE q # p
    <3>1. pc[q] = "send" /\ Head(plan[q]).cell \in Cell
      BY <1>3, <2>2, PlanHead DEF IInv
    <3>2. CASE Head(plan[q]).cell = c
      <4>1. c \in Unsent(q)
        BY <3>1, <3>2 DEF Unsent
      <4>2. QED
        BY <1>0, <3>2, <4>1
    <3>3. CASE Head(plan[q]).cell # c
      <4>1. Head(plan[q]).cell \in disputed \/ Head(plan[q]).block = blocks[Head(plan[q]).cell]
        BY <3>1 DEF IInv, WriteInv
      <4>2. disputed \subseteq disputed'
        BY <1>0
      <4>3. QED
        BY <1>5, <3>1, <3>3, <4>1, <4>2
    <3>4. QED
      BY <3>2, <3>3
  <2>3. QED
    BY <2>1, <2>2
<1> HIDE DEF w, c
<1>8. LogInv'
  BY <1>0, <1>5, <1>6 DEF IInv, LogInv
<1>9. \A q \in Proc : \A d : News(q, d)' = News(q, d)
  BY <1>0 DEF News
<1>10. CopyInv'
  <2>1. MapSize' = MapSize
    BY DEF MapSize
  <2>2. \A q \in Proc : pc'[q] = "map" <=> pc[q] = "map"
    BY <1>0, <1>3
  <2>3. QED
    BY <1>0, <1>5, <1>6, <1>9, <2>1, <2>2 DEF IInv, CopyInv
<1>11. ViewInv'
  <2> SUFFICES ASSUME NEW q \in Proc, position[q] # Queue!None, NEW d \in Settled'
               PROVE  (News(q, d) \/ Owes(q, d) \/ Shows(q, d))'
    BY <1>0 DEF ViewInv
  <2>1. News(q, d) \/ Owes(q, d) \/ Shows(q, d)
    BY <1>6 DEF IInv, ViewInv
  <2>2. blocks'[d] = blocks[d] /\ (pc[q] = "map" => pc'[q] = "map")
    BY <1>0, <1>3, <1>5, <1>6
  <2>3. QED
    BY <1>0, <1>9, <2>1, <2>2 DEF Owes, Shows
<1>12. QED
  BY <1>1, <1>2, <1>7, <1>8, <1>10, <1>11 DEF IInv

\* A write queued: from here on there is news of the cell for everybody.
LEMMA SendUpdateStep ==
  ASSUME IInv, NEW p \in Proc, SendUpdate(p)
  PROVE  IInv'
<1> DEFINE w == Head(plan[p])
           c == w.cell
           e == [cell |-> c, block |-> w.block]
           n == Len(log)
<1>0. /\ UNCHANGED <<position, blocks, snap, view, up, down, disputed>>
      /\ pc[p] = "send" /\ log' = Append(log, e) /\ DoneOne(p)
  BY DEF SendUpdate, clientVars
<1>1. TypeOK'
  BY SendUpdateType DEF IInv
<1>2. UpInv'
  BY <1>0 DEF IInv, UpInv
<1>3. /\ plan'[p] = Tail(plan[p]) /\ pc'[p] \in {"idle", "write"}
      /\ \A q \in Proc : q # p => pc'[q] = pc[q] /\ plan'[q] = plan[q]
  BY <1>0, DoneOneIs DEF IInv
<1>4. c \in Cell /\ w.block \in Block /\ w = plan[p][1] /\ plan[p] \in Seq(Write)
  BY <1>0, PlanHead DEF IInv, TypeOK
<1>5. e \in [cell : Cell, block : Block] /\ e.cell = c /\ e.block = w.block
  BY <1>4
<1>6. c \in disputed \/ e.block = blocks[c]
  BY <1>0, <1>5 DEF IInv, WriteInv
<1>7. \A d \in Settled' : d \in Cell /\ d \notin disputed /\ (d # c => d \in Settled)
  <2>1. Unsent(p) = {c} /\ Unsent(p)' = {} /\ \A q \in Proc : q # p => Unsent(q)' = Unsent(q)
    BY <1>0, <1>3 DEF Unsent
  <2>2. QED
    BY <1>0, <2>1 DEF Settled, Pending
<1>8. WriteInv'
  BY <1>0, <1>3 DEF IInv, WriteInv
<1> HIDE DEF w, c, e
<1>9. /\ n \in Nat /\ Len(log') = n + 1 /\ log'[n + 1] = e
      /\ \A i \in 1 .. n : log'[i] = log[i]
  BY <1>0, <1>5, AppendIs DEF IInv, TypeOK
<1> HIDE DEF n
<1>10. Len(log) = n
  BY DEF n
<1>11. LogInv'
  <2> SUFFICES ASSUME NEW d \in Settled', NEW i \in 1 .. n + 1, log'[i].cell = d,
                      \A j \in i + 1 .. n + 1 : log'[j].cell # d
               PROVE  log'[i].block = blocks[d]
    BY <1>0, <1>9 DEF LogInv
  <2>1. CASE i = n + 1
    BY <1>5, <1>6, <1>7, <1>9, <2>1
  <2>2. CASE i # n + 1
    <3>1. i \in 1 .. n /\ n + 1 \in i + 1 .. n + 1
      BY <1>9, <2>2
    <3>2. d # c /\ d \in Settled
      BY <1>5, <1>7, <1>9, <3>1
    <3>3. \A j \in i + 1 .. n : log[j].cell # d
      BY <1>9, <3>1
    <3>4. log[i].block = blocks[d]
      BY <1>9, <1>10, <3>1, <3>2, <3>3 DEF IInv, LogInv
    <3>5. QED
      BY <1>9, <3>1, <3>4
  <2>3. QED
    BY <2>1, <2>2
<1>12. \A q \in Proc : position[q] # Queue!None => position[q] \in 0 .. n
  BY <1>10 DEF IInv, TypeOK
<1>13. \A q \in Proc, d \in Cell :
          position[q] # Queue!None => (d = c => News(q, d)') /\ (News(q, d) => News(q, d)')
  <2> SUFFICES ASSUME NEW q \in Proc, NEW d \in Cell, position[q] # Queue!None
               PROVE  (d = c => News(q, d)') /\ (News(q, d) => News(q, d)')
    OBVIOUS
  <2>1. position[q] \in 0 .. n /\ position'[q] = position[q]
    BY <1>0, <1>12
  <2>2. CASE d = c
    <3>1. n + 1 \in position[q] + 1 .. n + 1
      BY <1>9, <2>1
    <3>2. QED
      BY <1>5, <1>9, <2>1, <2>2, <3>1 DEF News
  <2>3. ASSUME News(q, d) PROVE News(q, d)'
    <3>1. PICK i \in position[q] + 1 .. n : log[i].cell = d
      BY <1>10, <2>3 DEF News
    <3>2. i \in 1 .. n /\ i \in position[q] + 1 .. n + 1
      BY <1>9, <2>1
    <3>3. QED
      BY <1>9, <2>1, <3>1, <3>2 DEF News
  <2>4. QED
    BY <2>2, <2>3
<1>14. CopyInv'
  <2>1. MapSize' = MapSize
    BY DEF MapSize
  <2>2. \A q \in Proc : pc'[q] = "map" <=> pc[q] = "map"
    BY <1>0, <1>3
  <2> SUFFICES ASSUME NEW q \in Proc, pc[q] = "map", NEW d \in Settled', NEW k \in 1 .. Passes
               PROVE  News(q, d)' \/ At(k, d) > Len(snap[q]) \/ snap[q][At(k, d)] = blocks[d]
    BY <1>0, <2>1, <2>2 DEF IInv, CopyInv
  <2>3. position[q] # Queue!None
    BY DEF IInv, CopyInv
  <2>4. CASE d = c
    BY <1>7, <1>13, <2>3, <2>4
  <2>5. CASE d # c
    <3>1. News(q, d) \/ At(k, d) > Len(snap[q]) \/ snap[q][At(k, d)] = blocks[d]
      BY <1>7, <2>5 DEF IInv, CopyInv
    <3>2. QED
      BY <1>7, <1>13, <2>3, <3>1
  <2>6. QED
    BY <2>4, <2>5
<1>15. ViewInv'
  <2> SUFFICES ASSUME NEW q \in Proc, position[q] # Queue!None, NEW d \in Settled'
               PROVE  (News(q, d) \/ Owes(q, d) \/ Shows(q, d))'
    BY <1>0 DEF ViewInv
  <2>1. CASE d = c
    BY <1>7, <1>13, <2>1
  <2>2. CASE d # c
    <3>1. News(q, d) \/ Owes(q, d) \/ Shows(q, d)
      BY <1>7, <2>2 DEF IInv, ViewInv
    <3>2. CASE News(q, d)
      BY <1>7, <1>13, <3>2
    <3>3. CASE Shows(q, d)
      BY <1>0, <3>3 DEF Shows
    <3>4. CASE Owes(q, d) /\ q # p
      BY <1>0, <1>3, <3>4 DEF Owes
    <3>5. CASE Owes(q, d) /\ q = p
      <4>1. CASE up[p] # <<>> /\ LET r == Head(up[p])
                                 IN r.kind = "click" /\ r.cell = d /\ Meant(p, r.block) # blocks[d]
        BY <1>0, <3>5, <4>1 DEF Owes, Meant
      <4>2. ASSUME NEW i \in DOMAIN plan[p], plan[p][i].cell = d,
                   plan[p][i].echo \/ plan[p][i].block # blocks[d]
            PROVE  Owes(p, d)'
        <5>1. i # 1
          BY <1>4, <2>2, <4>2 DEF c
        <5>2. i - 1 \in DOMAIN plan'[p] /\ plan'[p][i - 1] = plan[p][i]
          BY <1>3, <1>4, <5>1, PlanTail
        <5>3. QED
          BY <1>0, <4>2, <5>2 DEF Owes
      <4>3. QED
        BY <1>0, <3>5, <4>1, <4>2 DEF Owes
    <3>6. QED
      BY <3>1, <3>2, <3>3, <3>4, <3>5
  <2>3. QED
    BY <2>1, <2>2
<1>16. QED
  BY <1>1, <1>2, <1>8, <1>11, <1>14, <1>15 DEF IInv

\* A process that ends leaves cells it has not queued in dispute, and its lock
\* and its place to others.
LEMMA DieStep ==
  ASSUME IInv, NEW p \in Proc, Die(p)
  PROVE  IInv'
<1>0. /\ UNCHANGED <<blocks, log>>
      /\ disputed' = disputed \cup Unsent(p)
      /\ pc'[p] = "idle" /\ snap'[p] = <<>> /\ up'[p] = <<>> /\ position'[p] = Queue!None
      /\ \A q \in Proc : q # p =>
            /\ position'[q] = position[q] /\ pc'[q] = pc[q] /\ plan'[q] = plan[q]
            /\ snap'[q] = snap[q] /\ view'[q] = view[q] /\ up'[q] = up[q] /\ down'[q] = down[q]
  BY DEF IInv, TypeOK, Die
<1>1. TypeOK'
  BY DieType DEF IInv
<1>2. UpInv'
  BY <1>0 DEF IInv, UpInv
<1>3. Settled' \subseteq Settled
  <2>1. \A q \in Proc : q # p => Unsent(q)' = Unsent(q)
    BY <1>0 DEF Unsent
  <2>2. QED
    BY <1>0, <2>1 DEF Settled, Pending
<1>4. WriteInv'
  BY <1>0 DEF IInv, WriteInv
<1>5. LogInv'
  BY <1>0, <1>3 DEF IInv, LogInv
<1>6. CopyInv'
  <2>1. MapSize' = MapSize
    BY DEF MapSize
  <2>2. \A q \in Proc : \A d : q # p => News(q, d)' = News(q, d)
    BY <1>0 DEF News
  <2>3. QED
    BY <1>0, <1>3, <2>1, <2>2 DEF IInv, CopyInv
<1>7. ViewInv'
  <2> SUFFICES ASSUME NEW q \in Proc, q # p, position[q] # Queue!None, NEW d \in Settled'
               PROVE  (News(q, d) \/ Owes(q, d) \/ Shows(q, d))'
    BY <1>0 DEF ViewInv
  <2>1. News(q, d) \/ Owes(q, d) \/ Shows(q, d)
    BY <1>3 DEF IInv, ViewInv
  <2>2. d \in Cell
    BY DEF Settled
  <2>3. QED
    BY <1>0, <2>1, <2>2, OtherView
<1>8. QED
  BY <1>1, <1>2, <1>4, <1>5, <1>6, <1>7 DEF IInv

\* The invariant holds of a level that everybody has just been sent.
LEMMA InitInv == Init => IInv
<1> SUFFICES ASSUME Init
             PROVE  IInv
  OBVIOUS
<1>1. TypeOK
  BY InitType
<1>2. Len(log) = 0 /\ \A p \in Proc : Len(up[p]) = 0 /\ DOMAIN down[p] = {}
  BY DEF Init
<1>3. UpInv /\ WriteInv /\ LogInv /\ CopyInv
  BY <1>2 DEF Init, UpInv, WriteInv, LogInv, CopyInv
<1>4. ViewInv
  BY <1>2 DEF Init, ViewInv, Shows, ComesTo
<1>5. QED
  BY <1>1, <1>3, <1>4 DEF IInv

\* Where nothing happens nothing changes.
LEMMA NoStep ==
  ASSUME IInv, UNCHANGED vars
  PROVE  IInv'
<1>1. /\ UNCHANGED <<blocks, log, position, sent, level_lock, pc, plan, snap, view, up, down>>
      /\ UNCHANGED <<edits, disputed>>
  BY DEF vars, queueVars, clientVars
<1>2. TypeOK' /\ UpInv'
  BY <1>1 DEF IInv, TypeOK, UpInv
<1>3. Settled' = Settled /\ WriteInv' /\ LogInv'
  BY <1>1, SameCells DEF IInv
<1>4. CopyInv'
  BY <1>1, <1>3, SameCopy DEF IInv
<1>5. ViewInv'
  BY <1>1, <1>3 DEF IInv, ViewInv, News, Owes, Shows
<1>6. QED
  BY <1>2, <1>3, <1>4, <1>5 DEF IInv

\* The level, its queue, the copies being made of it and the connections agree,
\* as IInv says, for every number of processes, every column of cells and all
\* blocks that stack, grow and let light through, of whatever kinds
\* (update_block, send_map_file, send_queued_blocks, process_player_setblock).
THEOREM ViewInvariant == Spec => []IInv
<1>1. IInv /\ [Next]_vars => IInv'
  <2> SUFFICES ASSUME IInv, [Next]_vars
               PROVE  IInv'
    OBVIOUS
  <2>1. CASE UNCHANGED vars
    BY <2>1, NoStep
  <2>2. CASE Rest
    BY <2>2, NoStep DEF Rest
  <2>3. ASSUME NEW p \in Proc, NEW c \in Cell, NEW b \in Block, Click(p, c, b) \/ PlaceCommand(p, c, b)
        PROVE  IInv'
    BY <2>3, ClickStep, PlaceCommandStep
  <2>4. ASSUME NEW p \in Proc, NEW lo \in Cell, NEW b \in Block, NEW hi \in lo .. Height, Draw(p, lo, hi, b)
        PROVE  IInv'
    BY <2>4, DrawStep
  <2>5. ASSUME NEW p \in Proc,
               \/ Receive(p) \/ RevertClient(p) \/ UpdateBlock(p)
               \/ WriteBlock(p) \/ NoChange(p) \/ SendUpdate(p)
        PROVE  IInv'
    BY <2>5, ReceiveStep, RevertClientStep, UpdateBlockStep, WriteBlockStep, NoChangeStep, SendUpdateStep
  <2>6. ASSUME NEW p \in Proc,
               \/ SendMapFile(p) \/ SendCell(p) \/ SendQueuedBlock(p) \/ Overrun(p) \/ Die(p)
        PROVE  IInv'
    BY <2>6, SendMapFileStep, SendCellStep, SendQueuedBlockStep, OverrunStep, DieStep
  <2>7. QED
    BY <2>1, <2>2, <2>3, <2>4, <2>5, <2>6 DEF Next
<1>2. QED
  BY <1>1, InitInv, PTL DEF Spec

\* All variables stay in their types.
THEOREM ViewTypes == Spec => []TypeOK
<1>1. IInv => TypeOK
  BY DEF IInv
<1>2. QED
  BY <1>1, ViewInvariant, PTL

\* A client that waits for nothing shows the blocks of the level, whatever was
\* clicked, refused, stacked, painted, drawn and copied meanwhile, except where
\* two processes wrote a cell before the first had queued its update, or one
\* died before.
THEOREM QuietClientsSeeTheLevel == Spec => []SameView
<1>1. ASSUME IInv, NEW p \in Proc, Quiet(p), NEW c \in Settled
      PROVE  view[p][c] = blocks[c]
  <2>1. /\ p \in Proc /\ pc[p] = "idle" /\ up[p] = <<>> /\ down[p] = <<>> /\ plan[p] = <<>>
        /\ position[p] = Len(log) /\ Len(log) \in Nat /\ position[p] # Queue!None
    <3>1. pc[p] = "idle" /\ up[p] = <<>> /\ down[p] = <<>> /\ position[p] = Len(log)
      BY <1>1 DEF Quiet
    <3>2. plan[p] = <<>>
      BY <1>1, <3>1 DEF IInv, TypeOK
    <3>3. Len(log) \in Nat
      BY <1>1 DEF IInv, TypeOK
    <3>4. QED
      BY <3>1, <3>2, <3>3 DEF Queue!None
  <2>2. ~News(p, c)
    BY <2>1 DEF News
  <2>3. ~Owes(p, c)
    BY <2>1 DEF Owes
  <2>4. Shows(p, c)
    BY <1>1, <2>1, <2>2, <2>3 DEF IInv, ViewInv
  <2>5. QED
    BY <2>1, <2>4, ComesNow DEF Shows
<1>2. IInv => SameView
  BY <1>1 DEF SameView, Settled
<1>3. QED
  BY <1>2, ViewInvariant, PTL
=============================================================================

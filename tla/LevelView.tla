----------------------------- MODULE LevelView -----------------------------
(***************************************************************************)
(* The blocks of a level, the processes that change them, and what their   *)
(* clients see (queue_block.c, setblock.c, send_map_file.c).  A client     *)
(* shows its own clicks at once; its process may refuse them or make       *)
(* something else of them (stacked slabs, dirt and grass).  The blocks are *)
(* written without level_lock and before the update is put in the queue,   *)
(* a map is copied without it, and packets may wait in the connection.     *)
(*                                                                         *)
(* The queue is the endless log of UpdateLog, which BlockQueue implements. *)
(* The level is one column of cells, the shape in which stacking and grass *)
(* act; falling sand, which has more updates of the same form, is left out.*)
(***************************************************************************)
EXTENDS Integers, Sequences

CONSTANTS
  Proc,         \* client processes on the level, each with its client
  NoProc,       \* the holder of a free level_lock
  Classic,      \* those whose client does not know the CPE extensions
  Height,       \* cells of the column
  Block, Air,   \* kinds of blocks, and the kind that is none
  StackOf,      \* blockdef[b].stack_block, Air for none
  DirtOf,       \* blockdef[b].dirt_block
  GrassOf,      \* blockdef[b].grass_block
  ClassicOf,    \* what a classic client means by the block it places
  Lit,          \* the kinds with blockdef[b].transmits_light
  Levels,       \* the blocks a level may start with
  Passes,       \* times a map is read to send it: 1, or 2 for wide block numbers
  MayDie,       \* may processes end in the middle of an update
  MaxEdits,     \* bound: clicks, commands, reloads, overruns and deaths
  MaxDown       \* bound: packets waiting in a connection

Cell == 1 .. Height
NoBlock == "none"

ASSUME ViewProcAssumption == NoProc \notin Proc /\ Classic \subseteq Proc
ASSUME BlockAssumption ==
  /\ Air \in Block
  /\ NoBlock \notin Block
  /\ {StackOf, DirtOf, GrassOf, ClassicOf} \subseteq [Block -> Block]
  /\ Lit \subseteq Block
  /\ Levels \subseteq [Cell -> Block]
ASSUME ClassicAssumption == \A b \in Block : ClassicOf[b] = Air <=> b = Air
ASSUME ViewBoundAssumption ==
  Height \in Nat \ {0} /\ Passes \in 1 .. 2 /\ MaxEdits \in Nat /\ MaxDown \in Nat /\ MayDie \in BOOLEAN

VARIABLES
  blocks,         \* level_blocks, the mapped file
  log,            \* the updates in the queue, from the first
  position, sent, \* the readers of the queue, see UpdateLog
  level_lock,     \* its holder
  pc,             \* what a process is doing
  plan,           \* the writes it still has to make
  snap,           \* the cells of the map it has copied so far
  view,           \* what its client shows
  up, down,       \* the connection: clicks and commands, packets
  edits,          \* history: what counts for MaxEdits
  disputed        \* history: cells whose updates were overtaken or never sent

queueVars == <<log, position, sent, level_lock>>
clientVars == <<view, up, edits>>
vars == <<blocks, queueVars, pc, plan, snap, clientVars, down, disputed>>

Queue == INSTANCE UpdateLog WITH count <- Len(log), short <- {}

Write == [cell : Cell, block : Block, echo : BOOLEAN]
Request == [kind : {"click", "place"}, cell : Cell, block : Block]
Packet == [cell : Cell, block : Block] \cup [map : [Cell -> Block \cup {NoBlock}]]

TypeOK ==
  /\ blocks \in [Cell -> Block]
  /\ log \in Seq([cell : Cell, block : Block])
  /\ position \in [Proc -> {Queue!None} \cup 0 .. Len(log)]
  /\ sent \in [Proc -> 0 .. Len(log)]
  /\ level_lock \in Proc \cup {NoProc}
  /\ pc \in [Proc -> {"idle", "write", "send", "map"}]
  /\ plan \in [Proc -> Seq(Write)]
  /\ \A p \in Proc : pc[p] \in {"write", "send"} <=> plan[p] # <<>>
  /\ snap \in [Proc -> Seq(Block)]
  /\ view \in [Proc -> [Cell -> Block \cup {NoBlock}]]
  /\ up \in [Proc -> Seq(Request)]
  /\ down \in [Proc -> Seq(Packet)]
  /\ edits \in 0 .. MaxEdits
  /\ disputed \subseteq Cell

\* Everybody has just got the map of a level without updates.
Init ==
  /\ blocks \in Levels
  /\ log = <<>>
  /\ position = [p \in Proc |-> 0]
  /\ sent = [p \in Proc |-> Queue!Wild]
  /\ level_lock = NoProc
  /\ pc = [p \in Proc |-> "idle"]
  /\ plan = [p \in Proc |-> <<>>]
  /\ snap = [p \in Proc |-> <<>>]
  /\ view = [p \in Proc |-> blocks]
  /\ up = [p \in Proc |-> <<>>]
  /\ down = [p \in Proc |-> <<>>]
  /\ edits = 0
  /\ disputed = {}

----------------------------------------------------------------------------
(* What update_block makes of a request *)

\* grow_dirt_block: dirt beside grass becomes grass.
Grow(c, b) ==
  IF GrassOf[b] # Air /\ \E d \in Cell \cap {c - 1, c + 1} : blocks[d] = GrassOf[b]
  THEN GrassOf[b] ELSE b

\* A second slab on a slab makes the lower one double.
Stacks(c, b) ==
  c > 1 /\ StackOf[b] # Air /\ blocks[c] = Air /\ blocks[c - 1] = b

\* Dirt and grass by the light from above, unless the player insists.
Corrected(c, b) ==
  LET above == IF c < Height THEN blocks[c + 1] ELSE Air
  IN IF above \notin Lit /\ DirtOf[b] \notin {Air, blocks[c]} THEN DirtOf[b]
     ELSE IF above \in Lit /\ GrassOf[b] \notin {Air, blocks[c]} THEN Grow(c, b)
     ELSE b

\* The same for the block below one that becomes b.
BelowOf(c, b) ==
  LET under == blocks[c - 1]
  IN IF b \in Lit THEN Grow(c - 1, under)
     ELSE IF DirtOf[under] # Air THEN DirtOf[under] ELSE under

\* The writes of update_block, the cell before the one below it.
Writes(c, want, mode) ==
  LET stack == Stacks(c, want)
      b == Corrected(c, IF stack THEN Air ELSE want)
      first == [cell |-> c, block |-> b, echo |-> mode = 2 \/ stack]
      under == IF c > 1 THEN BelowOf(c, b) ELSE Air
      below == IF c > 1 /\ under # blocks[c - 1] THEN {under}
               ELSE IF stack THEN {StackOf[want]} ELSE {}
  IN IF blocks[c] = want /\ mode # 2 THEN <<>>
     ELSE IF below = {} THEN <<first>>
     ELSE <<first, [cell |-> c - 1, block |-> CHOOSE n \in below : TRUE, echo |-> FALSE]>>

\* The block a client means by the one it shows.
Meant(p, b) == IF p \in Classic THEN ClassicOf[b] ELSE b

\* What process_player_setblock turns a request into: the block and the mode.
\* Mode 2 is painting or a /mode set by the player, mode 3 a command.
Wishes(p, m) ==
  IF m.kind = "place" THEN {<<m.block, 3>>}
  ELSE {<<Meant(p, m.block), 1>>} \cup (Block \X {2})

----------------------------------------------------------------------------
(* Clients *)

\* The player clicks: the client removes a block, or puts one where there is
\* none, shows that at once and tells the server.
Click(p, c, b) ==
  /\ edits < MaxEdits
  /\ up[p] = <<>>
  /\ view[p][c] # NoBlock
  /\ b # view[p][c]
  /\ b = Air \/ view[p][c] = Air
  /\ view' = [view EXCEPT ![p][c] = b]
  /\ up' = [up EXCEPT ![p] = Append(@, [kind |-> "click", cell |-> c, block |-> b])]
  /\ edits' = edits + 1
  /\ UNCHANGED <<blocks, queueVars, pc, plan, snap, down, disputed>>

\* The player types /place: the client shows nothing yet.
PlaceCommand(p, c, b) ==
  /\ edits < MaxEdits
  /\ up[p] = <<>>
  /\ up' = [up EXCEPT ![p] = Append(@, [kind |-> "place", cell |-> c, block |-> b])]
  /\ edits' = edits + 1
  /\ UNCHANGED <<blocks, queueVars, pc, plan, snap, view, down, disputed>>

\* The client receives a packet.
Receive(p) ==
  /\ down[p] # <<>>
  /\ LET m == Head(down[p])
     IN view' = [view EXCEPT ![p] =
                   IF "map" \in DOMAIN m THEN m.map ELSE [@ EXCEPT ![m.cell] = m.block]]
  /\ down' = [down EXCEPT ![p] = Tail(@)]
  /\ UNCHANGED <<blocks, queueVars, pc, plan, snap, up, edits, disputed>>

----------------------------------------------------------------------------
(* Processes *)

Room(p) == Len(down[p]) < MaxDown
SendPacket(p, m) == Room(p) /\ down' = [down EXCEPT ![p] = Append(@, m)]
LockFree(p) == level_lock \in {NoProc, p}

\* A request is refused for whatever reason (spam, reach, permission, a mark):
\* revert_client sends the block the cell has.
RevertClient(p) ==
  /\ pc[p] = "idle" /\ up[p] # <<>>
  /\ LET m == Head(up[p])
     IN m.kind = "click" /\ SendPacket(p, [cell |-> m.cell, block |-> blocks[m.cell]])
  /\ up' = [up EXCEPT ![p] = Tail(@)]
  /\ UNCHANGED <<blocks, queueVars, pc, plan, snap, view, edits, disputed>>

\* update_block reads the cells and decides what to write.
UpdateBlock(p) ==
  /\ pc[p] = "idle" /\ up[p] # <<>>
  /\ LET m == Head(up[p])
     IN \E w \in Wishes(p, m) : plan' = [plan EXCEPT ![p] = Writes(m.cell, w[1], w[2])]
  /\ pc' = [pc EXCEPT ![p] = IF plan'[p] = <<>> THEN "idle" ELSE "write"]
  /\ up' = [up EXCEPT ![p] = Tail(@)]
  /\ UNCHANGED <<blocks, queueVars, snap, view, edits, down, disputed>>

\* A cuboid, /replace or the like takes level_lock and keeps it to the end.
Draw(p, lo, hi, b) ==
  /\ pc[p] = "idle"
  /\ edits < MaxEdits
  /\ level_lock = NoProc
  /\ level_lock' = p
  /\ plan' = [plan EXCEPT ![p] =
                [i \in 1 .. hi + 1 - lo |-> [cell |-> lo + i - 1, block |-> b, echo |-> FALSE]]]
  /\ pc' = [pc EXCEPT ![p] = "write"]
  /\ edits' = edits + 1
  /\ UNCHANGED <<blocks, log, position, sent, snap, view, up, down, disputed>>

\* As DoneOne, had the end of the plan been missed.
DoneOneMore(p) ==
  /\ plan' = [plan EXCEPT ![p] = Tail(@)]
  /\ pc' = [pc EXCEPT ![p] = "write"]
  /\ level_lock' = IF level_lock = p /\ plan'[p] = <<>> THEN NoProc ELSE level_lock

\* One write of the plan is done with; the last one gives up the lock.
DoneOne(p) ==
  /\ plan' = [plan EXCEPT ![p] = Tail(@)]
  /\ pc' = [pc EXCEPT ![p] = IF plan'[p] = <<>> THEN "idle" ELSE "write"]
  /\ level_lock' = IF level_lock = p /\ plan'[p] = <<>> THEN NoProc ELSE level_lock

\* Cells somebody has written and not yet put in the queue.
Unsent(q) == IF pc[q] = "send" THEN {Head(plan[q]).cell} ELSE {}

\* level_blocks[index] = b.
WriteBlock(p) ==
  /\ pc[p] = "write"
  /\ LET w == Head(plan[p])
     IN /\ w.block # blocks[w.cell]
        /\ blocks' = [blocks EXCEPT ![w.cell] = w.block]
        /\ disputed' = IF \E q \in Proc : w.cell \in Unsent(q)
                       THEN disputed \cup {w.cell} ELSE disputed
  /\ pc' = [pc EXCEPT ![p] = "send"]
  /\ UNCHANGED <<queueVars, plan, snap, clientVars, down>>

\* The cell is that block already: nothing, or only the own client is told.
NoChange(p) ==
  /\ pc[p] = "write"
  /\ LET w == Head(plan[p])
     IN /\ w.block = blocks[w.cell]
        /\ IF w.echo THEN SendPacket(p, [cell |-> w.cell, block |-> w.block])
           ELSE UNCHANGED down
  /\ DoneOne(p)
  /\ UNCHANGED <<blocks, log, position, sent, snap, clientVars, disputed>>

\* send_update, or prelocked_update under the lock of Draw.
SendUpdate(p) ==
  /\ pc[p] = "send"
  /\ LockFree(p)
  /\ LET w == Head(plan[p])
     IN log' = Append(log, [cell |-> w.cell, block |-> w.block])
  /\ UNCHANGED position
  /\ Queue!Update
  /\ DoneOne(p)
  /\ UNCHANGED <<blocks, snap, clientVars, down, disputed>>

\* send_block_array copies the level once, and once more for the high bytes of
\* the blocks if the client knows more than 256; it reads the level each time.
MapSize == Passes * Height
NextCell(s) == 1 + (Len(s) % Height)
At(i, c) == (i - 1) * Height + c
MapOf(s) ==
  [c \in Cell |-> IF \A i \in 1 .. Passes : s[At(i, c)] = s[c]
                 THEN s[c] ELSE NoBlock]

\* As SendCell, had send_map_file taken the place in the queue after copying.
SendCellThenPlace(p) ==
  /\ pc[p] = "map"
  /\ LET s == Append(snap[p], blocks[NextCell(snap[p])])
     IN IF Len(s) < MapSize
        THEN snap' = [snap EXCEPT ![p] = s] /\ UNCHANGED <<pc, down, position>>
        ELSE /\ SendPacket(p, [map |-> MapOf(s)])
             /\ snap' = [snap EXCEPT ![p] = <<>>]
             /\ pc' = [pc EXCEPT ![p] = "idle"]
             /\ position' = [position EXCEPT ![p] = Len(log)]
  /\ UNCHANGED <<blocks, log, sent, level_lock, plan, clientVars, disputed>>

\* send_map_file: the place in the queue is taken first.  A client without a
\* place gets a map; one that has a place may ask for it.
SetPlace(p) ==
  /\ LockFree(p)
  /\ UNCHANGED <<log, level_lock>>
  /\ position' = [position EXCEPT ![p] = Len(log)]
  /\ Queue!Join(p)

SendMapFile(p) ==
  /\ pc[p] = "idle"
  /\ position[p] # Queue!None => edits < MaxEdits
  /\ SetPlace(p)
  /\ pc' = [pc EXCEPT ![p] = "map"]
  /\ edits' = IF position[p] # Queue!None THEN edits + 1 ELSE edits
  /\ UNCHANGED <<blocks, plan, snap, view, up, down, disputed>>

\* One cell after the other is compressed; the client shows the map when it is
\* complete.
SendCell(p) ==
  /\ pc[p] = "map"
  /\ LET s == Append(snap[p], blocks[NextCell(snap[p])])
     IN IF Len(s) < MapSize
        THEN snap' = [snap EXCEPT ![p] = s] /\ UNCHANGED <<pc, down>>
        ELSE /\ SendPacket(p, [map |-> MapOf(s)])
             /\ snap' = [snap EXCEPT ![p] = <<>>]
             /\ pc' = [pc EXCEPT ![p] = "idle"]
  /\ UNCHANGED <<blocks, queueVars, plan, clientVars, disputed>>

\* send_queued_blocks finds the place overrun or the queue void.
Overrun(p) ==
  /\ pc[p] = "idle"
  /\ position[p] # Queue!None
  /\ edits < MaxEdits
  /\ UNCHANGED log
  /\ position' = [position EXCEPT ![p] = Queue!None]
  /\ Queue!Drop
  /\ edits' = edits + 1
  /\ UNCHANGED <<blocks, level_lock, pc, plan, snap, view, up, down, disputed>>

\* send_queued_blocks: the next update of the queue goes to the client.
SendQueuedBlock(p) ==
  /\ pc[p] = "idle"
  /\ LockFree(p)
  /\ UNCHANGED log
  /\ Queue!Deliver(p)
  /\ SendPacket(p, log[position[p] + 1])
  /\ UNCHANGED <<blocks, level_lock, pc, plan, snap, clientVars, disputed>>

\* The process ends, and with it the connection; the place is free for
\* another client.
Die(p) ==
  /\ MayDie
  /\ edits < MaxEdits
  /\ edits' = edits + 1
  /\ disputed' = disputed \cup Unsent(p)
  /\ level_lock' = IF level_lock = p THEN NoProc ELSE level_lock
  /\ position' = [position EXCEPT ![p] = Queue!None]
  /\ pc' = [pc EXCEPT ![p] = "idle"]
  /\ plan' = [plan EXCEPT ![p] = <<>>]
  /\ snap' = [snap EXCEPT ![p] = <<>>]
  /\ view' = [view EXCEPT ![p] = [c \in Cell |-> NoBlock]]
  /\ up' = [up EXCEPT ![p] = <<>>]
  /\ down' = [down EXCEPT ![p] = <<>>]
  /\ UNCHANGED <<blocks, log, sent>>

\* A client with nothing under way: no click unanswered, no packet in the
\* connection, and its process at the end of the queue.
Quiet(p) ==
  /\ pc[p] = "idle" /\ up[p] = <<>> /\ down[p] = <<>>
  /\ position[p] = Len(log)

\* At the bound, the only way to stop is that everybody is quiet.
Rest == edits = MaxEdits /\ (\A p \in Proc : Quiet(p)) /\ UNCHANGED vars

Next ==
  \/ Rest
  \/ \E p \in Proc :
    \/ \E c \in Cell, b \in Block : Click(p, c, b) \/ PlaceCommand(p, c, b)
    \/ Receive(p) \/ RevertClient(p) \/ UpdateBlock(p)
    \/ \E lo \in Cell, b \in Block : \E hi \in lo .. Height : Draw(p, lo, hi, b)
    \/ WriteBlock(p) \/ NoChange(p) \/ SendUpdate(p)
    \/ SendMapFile(p) \/ SendCell(p) \/ SendQueuedBlock(p) \/ Overrun(p)
    \/ Die(p)

Spec == Init /\ [][Next]_vars

----------------------------------------------------------------------------
(* Properties *)

Pending == UNION {Unsent(q) : q \in Proc}

\* Whatever was clicked, refused, stacked, painted, drawn and copied meanwhile
\* (update_block, revert_client, send_map_file, send_queued_blocks), a quiet
\* client shows the blocks of the level; excepted are cells that two processes
\* wrote before the first had queued its update, or whose writer died before.
SameView ==
  \A p \in Proc : Quiet(p) =>
    \A c \in Cell \ (Pending \cup disputed) : view[p][c] = blocks[c]

----------------------------------------------------------------------------
(* The inductive invariant *)

\* Cells of which the queue tells what they are, or that nothing was said of.
Settled == Cell \ (Pending \cup disputed)

\* A client waits for the answer to a click.
UpInv == \A p \in Proc : Len(up[p]) <= 1

\* What is to be queued is what the cell is ...
WriteInv ==
  \A q \in Proc : pc[q] = "send" =>
    LET w == Head(plan[q]) IN w.cell \in disputed \/ w.block = blocks[w.cell]

\* ... so the last that was queued of a cell is what it is.
LogInv ==
  \A c \in Settled, i \in 1 .. Len(log) :
    log[i].cell = c /\ (\A j \in i + 1 .. Len(log) : log[j].cell # c) => log[i].block = blocks[c]

\* The queue still has an update of the cell for p.
News(p, c) == \E i \in position[p] + 1 .. Len(log) : log[i].cell = c

\* A cell that was copied and of which there is no news is copied right.
CopyInv ==
  \A p \in Proc :
    /\ pc[p] # "map" => snap[p] = <<>>
    /\ pc[p] = "map" =>
         /\ position[p] # Queue!None
         /\ Len(snap[p]) < MapSize
         /\ \A c \in Settled, k \in 1 .. Passes :
              News(p, c) \/ At(k, c) > Len(snap[p]) \/ snap[p][At(k, c)] = blocks[c]

\* A packet tells of a cell, and what of it.
Tells(m, c) == "map" \in DOMAIN m \/ m.cell = c
Told(m, c) == IF "map" \in DOMAIN m THEN m.map[c] ELSE m.block

\* A client that shows v for the cell shows b when it has received the packets s.
ComesTo(v, s, c, b) ==
  \/ v = b /\ \A i \in DOMAIN s : ~Tells(s[i], c)
  \/ \E i \in DOMAIN s :
       /\ Tells(s[i], c) /\ Told(s[i], c) = b
       /\ \A j \in DOMAIN s : j > i => ~Tells(s[j], c)

\* Once its packets have arrived, the client of p shows the cell as it is.
Shows(p, c) == ComesTo(view[p][c], down[p], c, blocks[c])

\* p has something to do that will make it so: a map to send, a click to answer
\* that is none of the cell's block, a write to make or to tell its client of.
Owes(p, c) ==
  \/ pc[p] = "map"
  \/ /\ up[p] # <<>>
     /\ LET m == Head(up[p])
        IN m.kind = "click" /\ m.cell = c /\ Meant(p, m.block) # blocks[c]
  \/ \E i \in DOMAIN plan[p] :
       plan[p][i].cell = c /\ (plan[p][i].echo \/ plan[p][i].block # blocks[c])

ViewInv ==
  \A p \in Proc : position[p] # Queue!None =>
    \A c \in Settled : News(p, c) \/ Owes(p, c) \/ Shows(p, c)

IInv == TypeOK /\ UpInv /\ WriteInv /\ LogInv /\ CopyInv /\ ViewInv
=============================================================================

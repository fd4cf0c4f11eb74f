------------------------------ MODULE Sessions ------------------------------
(***************************************************************************)
(* Who is logged in (client_list.c, main.c, wait.c, queue_cmd.c): the      *)
(* slots of the client list, the process of each client, the listener that *)
(* forks and reaps them, and what others send to a slot: commands and      *)
(* summons.  start_user works under system_lock; everything else reads and *)
(* writes the slots without it.                                            *)
(*                                                                         *)
(* The command queue is the mailbox of each process: what was queued for   *)
(* its slot since it joined.  The ring of queue_cmd.c is that of           *)
(* queue_chat.c, which ChatQueue shows to be such a log.  Any command that *)
(* is queued is a kick here; a ban ends the session in the same way, and   *)
(* the others change nothing this module knows of.                         *)
(***************************************************************************)
EXTENDS Integers, FiniteSets, FiniteSetsExt

CONSTANTS
  Pid,          \* process ids, used again when a process has been reaped
  User,         \* names of users
  Slots,        \* MAX_USER
  MaxPlayers,   \* server->max_players
  MaxForks,     \* a bound on the connections, for TLC
  NoPid, NoUser

ASSUME SessionAssumption ==
  /\ Slots \in Nat \ {0}
  /\ MaxPlayers \in 1 .. Slots
  /\ MaxForks \in Nat
  /\ NoPid \notin Pid
  /\ NoUser \notin User

Slot == 0 .. Slots - 1
NoSlot == -1

VARIABLES
  \* shdat.client->user[]: the slot's user, state.active, session_id, and for
  \* whom summon_level_id was set (NoMail: it is -1)
  name, active, session_id, summon,
  \* the processes: where they are, their user, my_user_no, whether they have
  \* joined the command queue, and what waits for them there
  pc, user_id, my_user_no, joined, mailbox,
  \* the listener in delete_session_id: the process it has reaped (NoPid: any
  \* that is gone), the slot it looks at, and one it is about to wipe, with the
  \* session it saw there, and whether it has wiped that already
  reaping, reaped, at, wiping,
  \* a slot number somebody holds: the sender of a command, between
  \* find_online_player and send_ipc_cmd, or a loader that is going to summon the
  \* client that forked it
  held,
  \* processes the listener has forked, and those that are no children of this one
  forks, orphans,
  \* history: sessions a newer one has taken over from; sessions whose slot was
  \* wiped by somebody who took it for his own or for that of a dead one;
  \* kinds of messages that reached a session they were not meant for; slots
  \* that stay in the list when their process is gone, see NoGhosts
  superseded, struck, misled, forsaken

slotVars == <<name, active, session_id, summon>>
procVars == <<pc, user_id, my_user_no, joined, mailbox>>
listenerVars == <<reaping, reaped, at, wiping, orphans>>
history == <<superseded, struck, misled, forsaken>>
vars == <<slotVars, procVars, listenerVars, held, forks, history>>

NoRef == [by |-> "none", slot |-> NoSlot, for |-> NoUser, stale |-> FALSE]
Ref == [by : {"command", "loader"}, slot : Slot, for : User, stale : BOOLEAN]
NoWipe == [slot |-> NoSlot, session |-> NoPid, half |-> FALSE]
NoMail == [for |-> NoUser, stale |-> FALSE]
Mail == [for : User, stale : BOOLEAN]

\* Where a process is that has a slot
WithSlot == {"start", "run", "found", "leave", "late", "stop", "clear"}

TypeOK ==
  /\ name \in [Slot -> User \cup {NoUser}]
  /\ active \in [Slot -> BOOLEAN]
  /\ session_id \in [Slot -> Pid \cup {NoPid}]
  /\ summon \in [Slot -> Mail \cup {NoMail}]
  /\ pc \in [Pid -> {"none", "login", "zombie"} \cup WithSlot]
  /\ user_id \in [Pid -> User \cup {NoUser}]
  /\ my_user_no \in [Pid -> Slot \cup {NoSlot}]
  /\ joined \in [Pid -> BOOLEAN]
  /\ mailbox \in [Pid -> Mail \cup {NoMail}]
  /\ reaping \in BOOLEAN
  /\ reaped \in Pid \cup {NoPid}
  /\ at \in 0 .. Slots
  /\ wiping \in [slot : Slot, session : Pid, half : BOOLEAN] \cup {NoWipe}
  /\ orphans \in SUBSET Pid
  /\ held \in Ref \cup {NoRef}
  /\ forks \in 0 .. MaxForks
  /\ superseded \in SUBSET Pid
  /\ struck \in SUBSET Pid
  /\ misled \in SUBSET {"kick", "summon"}
  /\ forsaken \in SUBSET Slot
  /\ \A p \in Pid : pc[p] \in WithSlot => my_user_no[p] # NoSlot

Init ==
  /\ name = [i \in Slot |-> NoUser]
  /\ active = [i \in Slot |-> FALSE]
  /\ session_id = [i \in Slot |-> NoPid]
  /\ summon = [i \in Slot |-> NoMail]
  /\ pc = [p \in Pid |-> "none"]
  /\ user_id = [p \in Pid |-> NoUser]
  /\ my_user_no = [p \in Pid |-> NoSlot]
  /\ joined = [p \in Pid |-> FALSE]
  /\ mailbox = [p \in Pid |-> NoMail]
  /\ reaping = FALSE
  /\ reaped = NoPid
  /\ at = 0
  /\ wiping = NoWipe
  /\ held = NoRef
  /\ forks = 0
  /\ orphans = {}
  /\ superseded = {}
  /\ struck = {}
  /\ misled = {}
  /\ forsaken = {}

\* kill(pid, 0) fails: a zombie is still there.
Gone(p) == p = NoPid \/ pc[p] = "none"
Running == {p \in Pid : pc[p] = "run"}
\* Whose session goes when somebody else wipes slot i
Struck(i, own) == {p \in {session_id[i]} \ {own} : ~Gone(p)}
Go(p, where) == pc' = [pc EXCEPT ![p] = where]

----------------------------------------------------------------------------
(* Logging in: tcpserver, login, start_user, complete_connection *)

\* The listener forks a process, which is told the name of its user.
Accept(p, u) ==
  /\ ~reaping
  /\ pc[p] = "none"
  /\ Go(p, "login")
  /\ user_id' = [user_id EXCEPT ![p] = u]
  /\ forks < MaxForks
  /\ forks' = forks + 1
  /\ UNCHANGED <<slotVars, my_user_no, joined, mailbox, listenerVars, held, history>>

Same(u) == {i \in Slot : active[i] /\ name[i] = u}
Dead(u) == {i \in Same(u) : Gone(session_id[i])}
\* As Free below, had the session of a slot not been looked at ...
FreeWhenInactive(u) == {i \in Slot : ~active[i]} \cup Dead(u)

\* ... and had the loop run over the end of the table.
FreeBeyond(u) ==
  {i \in Slot : ~active[i] /\ session_id[i] = NoPid} \cup Dead(u) \cup {Slots}

\* A slot that is inactive is not free before its process has given it up.
Free(u) == {i \in Slot : ~active[i] /\ session_id[i] = NoPid} \cup Dead(u)
Connected == {i \in Slot : active[i]}

\* As Ended below, had only dead sessions been ended; as Fresh below, had it been forgotten.
EndedDead(u) == [i \in Slot |-> active[i] /\ i \notin Dead(u)]
FreshNever(i) == summon

\* The slots that stay active, and a slot no summons waits in
Ended(u) == [i \in Slot |-> active[i] /\ i \notin Same(u)]
Fresh(i) == [summon EXCEPT ![i] = NoMail]

\* Only a user who has proved who he is may take over from a session that is alive.
RejectLogin(p) ==
  /\ pc[p] = "login"
  /\ Same(user_id[p]) \ Dead(user_id[p]) # {}
  /\ Go(p, "zombie")
  /\ UNCHANGED <<slotVars, user_id, my_user_no, joined, mailbox, listenerVars, held, forks,
                 history>>

\* The sessions that are to end: the id in a slot may be another's by now.
Superseded(u) ==
  {p \in Pid : my_user_no[p] \in Same(u) \ Dead(u) /\ session_id[my_user_no[p]] = p}

\* Sessions of the same name are wiped if they are dead and else told to end,
\* even if there is no slot for the new one.
StartUser(p, is_admin) ==
  LET u == user_id[p]
      wiped == [i \in Slot |-> IF i \in Dead(u) THEN NoPid ELSE session_id[i]]
      full == Cardinality(Connected) >= MaxPlayers /\ ~is_admin
  IN
  /\ pc[p] = "login"
  /\ superseded' = superseded \cup Superseded(u)
  /\ IF Free(u) = {} \/ full
     THEN /\ active' = Ended(u)
          /\ session_id' = wiped
          /\ Go(p, "zombie")
          /\ UNCHANGED <<name, summon, my_user_no, held, forsaken>>
     ELSE LET new == Min(Free(u)) IN
          /\ name' = [name EXCEPT ![new] = u]
          /\ active' = [Ended(u) EXCEPT ![new] = TRUE]
          /\ session_id' = [wiped EXCEPT ![new] = p]
          /\ summon' = Fresh(new)
          /\ my_user_no' = [my_user_no EXCEPT ![p] = new]
          /\ held' = IF held.slot = new THEN [held EXCEPT !.stale = TRUE] ELSE held
          /\ forsaken' = forsaken \ {new}
          /\ Go(p, "start")
  /\ UNCHANGED <<user_id, joined, mailbox, listenerVars, forks, struck, misled>>

\* create_cmd_queue: the process reads what is queued from now on.
JoinQueue(p) ==
  /\ pc[p] = "start"
  /\ joined' = [joined EXCEPT ![p] = TRUE]
  /\ mailbox' = [mailbox EXCEPT ![p] = NoMail]
  /\ Go(p, "run")
  /\ UNCHANGED <<slotVars, user_id, my_user_no, listenerVars, held, forks, history>>

----------------------------------------------------------------------------
(* The tick of a process: check_user_summon, process_queued_cmds *)

\* What p makes of something that was sent to its slot: who sent it may have
\* looked the slot up when it was another's, and p's slot may be another's now.
Misled(p, mail, kind) ==
  IF mail.for = user_id[p] \/ mail.stale \/ p \in struck \cup superseded THEN {} ELSE {kind}

\* Somebody has made the slot inactive: "(Connecting on new session)".
FoundInactive(p) ==
  /\ pc[p] = "run"
  /\ ~active[my_user_no[p]]
  /\ Go(p, "found")
  /\ UNCHANGED <<slotVars, user_id, my_user_no, joined, mailbox, listenerVars, held, forks,
                 history>>

\* The session of its slot is cleared, whose ever it is by then.  An active slot
\* is not looked for any more if the session was another's.
ClearSession(p) ==
  LET i == my_user_no[p] IN
  /\ session_id' = [session_id EXCEPT ![i] = NoPid]
  /\ forsaken' = IF active[i] /\ session_id[i] \notin {p, NoPid} THEN forsaken \cup {i}
                 ELSE forsaken

ClearOnNewSession(p) ==
  /\ pc[p] = "found"
  /\ ClearSession(p)
  /\ struck' = struck \cup Struck(my_user_no[p], p)
  /\ Go(p, "late")
  /\ UNCHANGED <<name, active, summon, user_id, my_user_no, joined, mailbox, listenerVars,
                 held, forks, superseded, misled>>

TakeSummon(p) ==
  LET i == my_user_no[p] IN
  /\ pc[p] = "run"
  /\ active[i]
  /\ summon[i] # NoMail
  /\ misled' = misled \cup Misled(p, summon[i], "summon")
  /\ summon' = [summon EXCEPT ![i] = NoMail]
  /\ UNCHANGED <<name, active, session_id, procVars, listenerVars, held, forks, superseded,
                 struck, forsaken>>

\* A kick is read ...
ProcessCommand(p) ==
  /\ pc[p] = "run"
  /\ mailbox[p] # NoMail
  /\ misled' = misled \cup Misled(p, mailbox[p], "kick")
  /\ mailbox' = [mailbox EXCEPT ![p] = NoMail]
  /\ Go(p, "leave")
  /\ UNCHANGED <<slotVars, user_id, my_user_no, joined, listenerVars, held, forks, superseded,
                 struck, forsaken>>

\* ... or skipped with everything else by a reader that is overrun.
SkipCommands(p) ==
  /\ pc[p] = "run"
  /\ mailbox[p] # NoMail
  /\ mailbox' = [mailbox EXCEPT ![p] = NoMail]
  /\ UNCHANGED <<slotVars, pc, user_id, my_user_no, joined, listenerVars, held, forks, history>>

Logout(p) ==
  /\ pc[p] = "run"
  /\ Go(p, "leave")
  /\ UNCHANGED <<slotVars, user_id, my_user_no, joined, mailbox, listenerVars, held, forks,
                 history>>

\* stop_user looks whether the slot is active ...
StopUser(p) ==
  /\ pc[p] \in {"leave", "late"}
  /\ Go(p, IF active[my_user_no[p]] THEN "stop" ELSE "zombie")
  /\ UNCHANGED <<slotVars, user_id, my_user_no, joined, mailbox, listenerVars, held, forks,
                 history>>

\* ... and gives it up in two steps, whoever has it by then: that may be another
\* if p had been told to end, or was struck.
StruckLate(p) == IF p \in struck \cup superseded THEN Struck(my_user_no[p], p) ELSE {}

StopActive(p) ==
  /\ pc[p] = "stop"
  /\ active' = [active EXCEPT ![my_user_no[p]] = FALSE]
  /\ struck' = struck \cup StruckLate(p)
  /\ Go(p, "clear")
  /\ UNCHANGED <<name, session_id, summon, user_id, my_user_no, joined, mailbox, listenerVars,
                 held, forks, superseded, misled, forsaken>>

StopSession(p) ==
  /\ pc[p] = "clear"
  /\ ClearSession(p)
  /\ struck' = struck \cup StruckLate(p)
  /\ Go(p, "zombie")
  /\ UNCHANGED <<name, active, summon, user_id, my_user_no, joined, mailbox, listenerVars,
                 held, forks, superseded, misled>>

\* A process is killed, or fails.
Die(p) ==
  /\ pc[p] \in {"login"} \cup WithSlot
  /\ Go(p, "zombie")
  /\ UNCHANGED <<slotVars, user_id, my_user_no, joined, mailbox, listenerVars, held, forks,
                 history>>

----------------------------------------------------------------------------
(* The listener: cleanup_zombies, delete_session_id *)

\* Nothing is left of a process, but what it wrote.
Vanish(p) ==
  /\ pc[p] = "zombie"
  /\ Go(p, "none")
  /\ user_id' = [user_id EXCEPT ![p] = NoUser]
  /\ my_user_no' = [my_user_no EXCEPT ![p] = NoSlot]
  /\ joined' = [joined EXCEPT ![p] = FALSE]
  /\ mailbox' = [mailbox EXCEPT ![p] = NoMail]
  /\ superseded' = superseded \ {p}
  /\ struck' = struck \ {p}
  /\ UNCHANGED <<slotVars, wiping, held, forks, misled>>

Reap(p) ==
  /\ ~reaping
  /\ p \notin orphans
  /\ Vanish(p)
  /\ reaping' = TRUE /\ reaped' = p
  /\ UNCHANGED <<at, orphans, forsaken>>

\* A client of a listener before this one is reaped by init.
ReapOrphan(p) ==
  /\ p \in orphans
  /\ Vanish(p)
  /\ orphans' = orphans \ {p}
  /\ forsaken' = forsaken \cup {i \in Slot : active[i] /\ session_id[i] = p}
  /\ UNCHANGED <<reaping, reaped, at>>

\* As ToWipe below, had its loop left out the last slot.
ToWipeShort(p) ==
  IF p = NoPid THEN {i \in Slot : session_id[i] # NoPid /\ Gone(session_id[i])}
  ELSE {i \in 0 .. Slots - 2 : active[i] /\ session_id[i] = p}

\* The slots to wipe: that of the process, or, when the server starts, those of
\* all that are gone.
ToWipe(p) ==
  IF p = NoPid THEN {i \in Slot : session_id[i] # NoPid /\ Gone(session_id[i])}
  ELSE {i \in Slot : active[i] /\ session_id[i] = p}

\* main, when the server restarts itself: its clients stay its children ...
Restart ==
  /\ ~reaping
  /\ ToWipe(NoPid) # {}
  /\ reaping' = TRUE
  /\ UNCHANGED <<slotVars, procVars, reaped, at, wiping, orphans, held, forks, history>>

\* ... and when the listener has ended and is started again: they do not.
Started(p) == pc[p] # "none"
StartAgain ==
  /\ ~reaping
  /\ \E p \in Pid : Started(p) /\ p \notin orphans
  /\ orphans' = {p \in Pid : Started(p)}
  /\ reaping' = TRUE
  /\ UNCHANGED <<slotVars, procVars, reaped, at, wiping, held, forks, history>>

Done == reaping' = FALSE /\ reaped' = NoPid /\ at' = 0

FindSession ==
  /\ reaping
  /\ wiping = NoWipe
  /\ IF at = Slots
     THEN Done /\ UNCHANGED wiping
     ELSE /\ IF at \in ToWipe(reaped)
             THEN /\ wiping' = [slot |-> at, session |-> session_id[at], half |-> FALSE]
                  /\ UNCHANGED at
             ELSE /\ at' = at + 1
                  /\ UNCHANGED wiping
          /\ UNCHANGED <<reaping, reaped>>
  /\ UNCHANGED <<slotVars, procVars, orphans, held, forks, history>>

\* The user's record has been read and written since the slot was found.
WipeSession ==
  LET i == wiping.slot IN
  /\ wiping # NoWipe /\ ~wiping.half
  /\ session_id' = [session_id EXCEPT ![i] = NoPid]
  /\ struck' = struck \cup Struck(i, wiping.session)
  /\ wiping' = [wiping EXCEPT !.half = TRUE]
  /\ UNCHANGED <<name, active, summon, procVars, reaping, reaped, at, orphans, held, forks,
                 superseded, misled, forsaken>>

\* Between the two its user may log in and be given the slot.  One process has one
\* slot: another with its id, left by one that had it before, is left.
WipeActive ==
  LET i == wiping.slot IN
  /\ wiping.half
  /\ active' = [active EXCEPT ![i] = FALSE]
  /\ struck' = struck \cup Struck(i, wiping.session)
  /\ wiping' = NoWipe
  /\ IF reaped = NoPid
     THEN at' = at + 1 /\ UNCHANGED <<reaping, reaped, forsaken>>
     ELSE Done /\ forsaken' = forsaken \cup (ToWipe(reaped) \ {i})
  /\ UNCHANGED <<name, session_id, summon, procVars, orphans, held, forks, superseded, misled>>

----------------------------------------------------------------------------
(* What others send to a slot *)

\* cmd_kick and its like: find_online_player finds a slot ...
FindPlayer(i) ==
  /\ held = NoRef
  /\ Running # {}
  /\ active[i] /\ session_id[i] # NoPid
  /\ held' = [by |-> "command", slot |-> i, for |-> name[i], stale |-> FALSE]
  /\ UNCHANGED <<slotVars, procVars, listenerVars, forks, history>>

\* ... and send_ipc_cmd queues for it.
SendCommand ==
  /\ held.by = "command"
  /\ mailbox' = [p \in Pid |->
       IF joined[p] /\ my_user_no[p] = held.slot
       THEN [for |-> held.for, stale |-> held.stale]
       ELSE mailbox[p]]
  /\ held' = NoRef
  /\ UNCHANGED <<slotVars, pc, user_id, my_user_no, joined, listenerVars, forks, history>>

\* cmd_summon, summon_userlist: the slot of a user that was just found there
Summon(i) ==
  /\ Running # {}
  /\ active[i]
  /\ summon' = [summon EXCEPT ![i] = [for |-> name[i], stale |-> FALSE]]
  /\ UNCHANGED <<name, active, session_id, procVars, listenerVars, held, forks, history>>

\* preload_level: a loader is forked by a client ...
ForkLoader(p) ==
  /\ held = NoRef
  /\ pc[p] = "run"
  /\ held' = [by |-> "loader", slot |-> my_user_no[p], for |-> user_id[p],
              stale |-> p \in struck \cup superseded]
  /\ UNCHANGED <<slotVars, procVars, listenerVars, forks, history>>

\* ... and summons its slot when the level is there, direct_load_level, whoever
\* has it by then.
LoaderSummons ==
  /\ held.by = "loader"
  /\ summon' = [summon EXCEPT ![held.slot] = [for |-> held.for, stale |-> held.stale]]
  /\ held' = NoRef
  /\ UNCHANGED <<name, active, session_id, procVars, listenerVars, forks, history>>

\* The bound on the connections is reached and all have ended: not a deadlock.
AllEnded ==
  /\ forks = MaxForks
  /\ \A p \in Pid : pc[p] = "none"
  /\ ~reaping
  /\ UNCHANGED vars

Next ==
  \/ \E p \in Pid :
       \/ \E u \in User : Accept(p, u)
       \/ RejectLogin(p) \/ \E is_admin \in BOOLEAN : StartUser(p, is_admin)
       \/ JoinQueue(p) \/ FoundInactive(p) \/ ClearOnNewSession(p)
       \/ TakeSummon(p) \/ ProcessCommand(p) \/ SkipCommands(p) \/ ForkLoader(p)
       \/ Logout(p) \/ StopUser(p) \/ StopActive(p) \/ StopSession(p)
       \/ Die(p) \/ Reap(p) \/ ReapOrphan(p)
  \/ \E i \in Slot : FindPlayer(i) \/ Summon(i)
  \/ Restart \/ StartAgain \/ FindSession \/ WipeSession \/ WipeActive
  \/ SendCommand \/ LoaderSummons
  \/ AllEnded

Spec == Init /\ [][Next]_vars

----------------------------------------------------------------------------
(* Properties *)

\* A user is in the list once, whatever sessions of his are started, die, or are
\* given up late: start_user ends those it finds, and nothing else sets active.
OneActivePerName ==
  \A i, j \in Slot : active[i] /\ active[j] /\ name[i] = name[j] => i = j

\* A session that no newer one has taken over from has its slot, with its process
\* and its name in it, until it ends: no slot is given to two processes by
\* start_user, nor wiped for a process id of long ago by the listener.  The
\* exceptions are those whose slot check_user_summon, stop_user or
\* delete_session_id of another session wiped late.
RunningOwnsSlot ==
  \A p \in Pid \ (superseded \cup struck) : pc[p] \in {"start", "run"} =>
    LET i == my_user_no[p] IN active[i] /\ session_id[i] = p /\ name[i] = user_id[p]

\* An active slot is that of a process which is there; if that has been reaped
\* the listener is about to wipe it, so nobody stays in the list as a ghost.
\* Excepted (forsaken) are the slots of clients of an earlier listener, which
\* init has reaped and no delete_session_id is called for; that of a process with
\* the id of such a one, which stands before it in the list; and one whose session
\* check_user_summon or stop_user of another process has cleared late, without
\* system_lock, after start_user had given it away.
NoGhosts ==
  \A i \in Slot \ forsaken : active[i] =>
    \/ wiping.slot = i /\ wiping.half
    \/ /\ session_id[i] # NoPid
       /\ Gone(session_id[i]) => reaping /\ reaped = session_id[i]

\* A slot is found by name and used by number, with no lock in between or after:
\* still a kick and a summons reach only whom they were meant for, since a new
\* session resets summon_level_id and joins the command queue at its end.  They
\* do reach another if the slot changed hands between the look-up and the
\* sending, which is what stale says.
NobodyMisled == misled = {}

----------------------------------------------------------------------------
(* What is needed to prove them: IInv is inductive *)

InSlot == {"start", "run", "leave", "stop"}

\* Nobody has taken these for dead, or for one of their own.
Untouched(p) == pc[p] \in InSlot /\ p \notin superseded \cup struck

\* Whoever has a slot has a name.
NameInv ==
  /\ \A p \in Pid : pc[p] # "none" => user_id[p] # NoUser
  /\ \A i \in Slot : active[i] => name[i] # NoUser

\* An active slot has a process, or the listener is at work on it.
SlotInv ==
  \A i \in Slot \ forsaken : active[i] =>
    \/ wiping.slot = i /\ wiping.half
    \/ /\ session_id[i] \in Pid
       /\ \/ /\ pc[session_id[i]] \in WithSlot \cup {"zombie"}
             /\ my_user_no[session_id[i]] = i
             /\ user_id[session_id[i]] = name[i]
          \/ pc[session_id[i]] = "none" /\ reaping /\ reaped = session_id[i]

\* A process has its session in its slot until it clears it, ...
SessionInv ==
  \A p \in Pid : pc[p] \in InSlot \cup {"clear"} /\ p \notin superseded \cup struck =>
    session_id[my_user_no[p]] = p

\* ... the slot is active under its name, ...
OwnerInv ==
  \A p \in Pid : Untouched(p) => active[my_user_no[p]] /\ name[my_user_no[p]] = user_id[p]

\* ... and one that has found it inactive has been told to end, or was struck.  One
\* that is about to clear it is not in the list.
LateInv ==
  \A p \in Pid :
    /\ pc[p] \in {"found", "late"} => p \in superseded \cup struck
    /\ pc[p] \in {"found", "clear"} =>
         ~(active[my_user_no[p]] /\ session_id[my_user_no[p]] = p)

\* The listener wipes sessions of processes that are gone, and only while no
\* process id can be used again; it has passed no slot of the one it looks for.
ListenerInv ==
  /\ wiping # NoWipe => reaping /\ pc[wiping.session] = "none" /\ wiping.slot = at
  /\ reaped # NoPid => reaping /\ pc[reaped] = "none"
  /\ ~reaping => at = 0
  /\ reaped # NoPid => \A i \in Slot : i < at /\ active[i] => session_id[i] # reaped

\* What is on its way to a slot is for the user who has it, unless it says stale.
Meant(mail, p) == mail.for = user_id[p] \/ mail.stale
HeldInv ==
  \A p \in Pid : Untouched(p) /\ held # NoRef /\ held.slot = my_user_no[p] => Meant(held, p)
SummonInv ==
  \A p \in Pid : Untouched(p) /\ summon[my_user_no[p]] # NoMail => Meant(summon[my_user_no[p]], p)
MailboxInv ==
  \A p \in Pid : Untouched(p) /\ pc[p] = "run" /\ mailbox[p] # NoMail => Meant(mailbox[p], p)

IInv ==
  /\ TypeOK /\ OneActivePerName /\ NobodyMisled
  /\ NameInv /\ SlotInv /\ SessionInv /\ OwnerInv /\ LateInv /\ ListenerInv
  /\ HeldInv /\ SummonInv /\ MailboxInv
=============================================================================

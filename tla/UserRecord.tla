----------------------------- MODULE UserRecord -----------------------------
(***************************************************************************)
(* What the server keeps of a user: a settings file and a record in the    *)
(* database (userrecord.c), both written whole from what some process has  *)
(* in memory: the user's sessions, an administrator's (/ban, /unban,       *)
(* /setperm), and the listener's, which counts a session that died.        *)
(***************************************************************************)
EXTENDS Integers, Sequences, FiniteSets, SequencesExt

CONSTANTS
  Session,      \* sessions of the user
  Admin, Reaper,
  MaxEvents     \* a bound on what happens, for TLC

Process == Session \cup {Admin, Reaper}

\* What the proofs need of the constants
UserConstants ==
  /\ Admin \notin Session /\ Reaper \notin Session /\ Admin # Reaper
  /\ MaxEvents \in Nat

\* user_perms
AdminGroup == 0
UserGroup == 1
MapDefault == -1                     \* click_distance
Absent == <<>>

VARIABLES
  ini,          \* the settings file
  rec,          \* dbi_rec: the counts by number
  index,        \* dbi_ind1: the user's number
  my,           \* what each process has of the user
  ini_dirty,    \* of a session: do not read the file again before writing it
  writing,      \* of a process that writes: "ini", "db", else "idle"
  phase,        \* of a session: "none", "login", "pending", "listed", "old", "leaving", "dead"
  tokens,       \* the commands sent to a session
  tell,         \* the sessions /setperm tells when it is done
  told,         \* history: what the file should say
  said, kicked, \* history: how many messages and kicks should have been counted
  raced, mixed, \* history: two have worked on the file, on the record, at the same time
  behind,       \* history: a session died, and the file lacks what the record has
  events

recordVars ==
  <<ini, rec, index, my, ini_dirty, writing, phase, tokens, tell, told, said, kicked, raced, mixed,
    behind, events>>

NewUser == [no |-> 0, group |-> UserGroup, banned |-> FALSE, title |-> 0, reach |-> MapDefault,
            messages |-> 0, kicks |-> 0]

UserInit ==
  /\ \/ ini = Absent /\ rec = <<>> /\ index = 0
     \/ /\ ini \in {[NewUser EXCEPT !.no = 1, !.group = g] : g \in {UserGroup, -1}}
        /\ rec = <<[messages |-> 0, kicks |-> 0]>> /\ index = 1
  /\ my = [p \in Process |-> NewUser] /\ ini_dirty = [s \in Session |-> FALSE]
  /\ writing = [p \in Process |-> "idle"] /\ phase = [s \in Session |-> "none"]
  /\ tokens = [s \in Session |-> <<>>] /\ tell = {}
  /\ told = [group |-> UserGroup, banned |-> ini # Absent /\ ini.group < 0, title |-> 0,
             reach |-> MapDefault]
  /\ said = 0 /\ kicked = 0 /\ raced = FALSE /\ mixed = FALSE /\ behind = FALSE /\ events = 0

----------------------------------------------------------------------------
(* Reading and writing *)

\* user_ini_fields, reading: groups below 0 are how it once said banned
LoadIni ==
  IF ini.group < 0 THEN [ini EXCEPT !.group = UserGroup, !.banned = TRUE] ELSE ini

\* As ReadIni, not keeping what is in the database.
ReadIniAll(r) ==
  IF ini = Absent THEN r ELSE [LoadIni EXCEPT !.no = r.no, !.reach = IF @ = MapDefault THEN r.reach ELSE @]

\* read_ini_file_fields: all but what is in the database, and the reach without a line
ReadIni(r) ==
  IF ini = Absent THEN r
  ELSE [LoadIni EXCEPT !.no = r.no, !.messages = r.messages, !.kicks = r.kicks,
          !.reach = IF @ = MapDefault THEN r.reach ELSE @]

Found == index # 0

\* read_userrec; the counts of the file only where there is no record
ReadUser ==
  LET r == IF ini = Absent THEN NewUser ELSE LoadIni
  IN IF Found THEN [r EXCEPT !.no = index, !.messages = rec[index].messages, !.kicks = rec[index].kicks]
     ELSE [r EXCEPT !.no = 0]

\* The reach loses no line by being the map's.
WriteIni(p) ==
  /\ writing[p] = "ini"
  /\ ini' = [my[p] EXCEPT !.reach = IF @ = MapDefault /\ ini # Absent THEN ini.reach ELSE @]
  /\ ini_dirty' = [s \in Session |-> s # p /\ ini_dirty[s]]
  /\ writing' = [writing EXCEPT ![p] = "db"]
  /\ UNCHANGED <<rec, index, my, phase, tokens, tell, told, said, kicked, raced, mixed, behind,
                 events>>

\* init_userrec
NextNo == Len(rec) + 1

\* put_userrec
Put(r) ==
  LET no == IF r.no = 0 THEN NextNo ELSE r.no
      counts == [messages |-> r.messages, kicks |-> r.kicks]
  IN /\ rec' = IF no > Len(rec) THEN Append(rec, counts) ELSE [rec EXCEPT ![no] = counts]
     /\ index' = no

\* The second half of write_userrec
WriteDb(p) ==
  /\ writing[p] = "db"
  /\ Put(my[p])
  /\ my' = [my EXCEPT ![p].no = index']
  /\ writing' = [writing EXCEPT ![p] = "idle"]
  /\ behind' = (p = Reaper)
  /\ phase' = [s \in Session |->
       CASE s = p /\ phase[s] = "login" -> "pending"
         [] (s = p /\ phase[s] = "leaving") \/ (p = Reaper /\ phase[s] = "dead") -> "none"
         [] OTHER -> phase[s]]
  /\ tokens' = [s \in Session |->
       IF p = s /\ phase[s] = "leaving" THEN <<>>
       ELSE IF p = Admin /\ s \in tell /\ phase[s] = "listed" THEN Append(tokens[s], "loaduser")
       ELSE tokens[s]]
  /\ tell' = IF p = Admin THEN {} ELSE tell
  \* A session about to be banned has not heard of its rank.
  /\ raced' = (raced \/ (p = Admin /\ \E s \in tell : "ban" \in ToSet(tokens[s])))
  /\ UNCHANGED <<ini, ini_dirty, told, said, kicked, mixed, events>>

----------------------------------------------------------------------------
(* Who meets whom *)

Plays(s) == phase[s] \notin {"none", "dead"}
Busy(p) == writing[p] # "idle" \/ (p \in Session /\ phase[p] = "pending")

\* A process that begins to work on the file, or has read the record to write it
Meets(p) ==
  /\ raced' = (raced \/ \E q \in Process \ {p} : Busy(q))
  /\ mixed' = (mixed \/ (\E q \in Process \ {p} : writing[q] # "idle")
                 \/ (p \in Session \cup {Reaper} /\ \E s \in Session \ {p} : Plays(s)))

Happens == events < MaxEvents /\ events' = events + 1

----------------------------------------------------------------------------
(* Sessions *)

\* write_current_user(1): into memory that has nothing of the user yet
Login(s) ==
  /\ phase[s] = "none" /\ Happens /\ Meets(s)
  /\ my' = [my EXCEPT ![s] = ReadUser]
  /\ ini_dirty' = [ini_dirty EXCEPT ![s] = TRUE]
  /\ phase' = [phase EXCEPT ![s] = "login"] /\ writing' = [writing EXCEPT ![s] = "ini"]
  /\ UNCHANGED <<ini, rec, index, tokens, tell, told, said, kicked, behind>>

\* complete_connection: start_user puts off the session there was
Listed(s) ==
  /\ phase[s] = "pending" /\ writing[s] = "idle" /\ ~my[s].banned
  /\ phase' = [t \in Session |-> IF t = s THEN "listed" ELSE IF phase[t] = "listed" THEN "old" ELSE phase[t]]
  /\ UNCHANGED <<ini, rec, index, my, ini_dirty, writing, tokens, tell, told, said, kicked,
                 raced, mixed,
                 behind, events>>

\* As Leave, the file never read again.
LeaveUnread(s, r, dirty) ==
  /\ my' = [my EXCEPT ![s] = r]
  /\ phase' = [phase EXCEPT ![s] = "leaving"] /\ writing' = [writing EXCEPT ![s] = "ini"]
  /\ Meets(s)

\* stop_user with r in memory: the file is read again unless it was changed here.
Leave(s, r, dirty) ==
  /\ my' = [my EXCEPT ![s] = IF dirty THEN r ELSE ReadIni(r)]
  /\ phase' = [phase EXCEPT ![s] = "leaving"] /\ writing' = [writing EXCEPT ![s] = "ini"]
  /\ Meets(s)

\* A client that goes; a banned one, and one that is on a new session, are put off.
Quit(s) ==
  /\ phase[s] \in {"pending", "listed", "old"} /\ writing[s] = "idle"
  /\ Leave(s, my[s], ini_dirty[s])
  /\ UNCHANGED <<ini, rec, index, ini_dirty, tokens, tell, told, said, kicked, behind, events>>

Say(s) ==
  /\ phase[s] \in {"listed", "old"} /\ writing[s] = "idle" /\ Happens
  /\ my' = [my EXCEPT ![s].messages = @ + 1] /\ said' = said + 1
  /\ UNCHANGED <<ini, rec, index, ini_dirty, writing, phase, tokens, tell, told, kicked, raced,
                 mixed, behind>>

\* write_current_user(0)
Tick(s) ==
  /\ phase[s] \in {"listed", "old"} /\ writing[s] = "idle" /\ rec[my[s].no].messages # my[s].messages
  /\ Put(my[s])
  /\ mixed' = (mixed \/ \E p \in Process : writing[p] # "idle")
  /\ UNCHANGED <<ini, my, ini_dirty, writing, phase, tokens, tell, told, said, kicked, raced,
                 behind, events>>

\* What do_cmd_title and its likes, and cmd_reachdist, do
Change(s, field, value) ==
  /\ my' = [my EXCEPT ![s] = [ReadIni(my[s]) EXCEPT ![field] = value]]
  /\ told' = [told EXCEPT ![field] = value]
  /\ ini_dirty' = [ini_dirty EXCEPT ![s] = TRUE]
  /\ writing' = [writing EXCEPT ![s] = "ini"]
  /\ Meets(s)

Reachdist(s, d) ==
  /\ phase[s] = "listed" /\ writing[s] = "idle" /\ Happens /\ Change(s, "reach", d)
  /\ UNCHANGED <<ini, rec, index, phase, tokens, tell, said, kicked, behind>>

\* send_ipc_cmd of /kick, of /ban to one who is there, and of /title and its likes
Send(s, token) ==
  /\ phase[s] = "listed" /\ Happens
  /\ tokens' = [tokens EXCEPT ![s] = Append(@, token)]
  /\ UNCHANGED <<ini, rec, index, my, ini_dirty, writing, phase, tell, told, said, kicked, raced,
                 mixed, behind>>

\* process_ipc_cmd
Receive(s) ==
  /\ phase[s] = "listed" /\ writing[s] = "idle" /\ tokens[s] # <<>>
  /\ tokens' = [tokens EXCEPT ![s] = Tail(@)]
  /\ LET token == Head(tokens[s]) kick == [my[s] EXCEPT !.kicks = @ + 1] IN
     \/ /\ token = "loaduser"
        /\ my' = [my EXCEPT ![s] = ReadIni(my[s])] /\ ini_dirty' = [ini_dirty EXCEPT ![s] = FALSE]
        /\ UNCHANGED <<writing, phase, told, kicked, raced, mixed>>
     \/ /\ token = "title" /\ Change(s, "title", events)
        /\ UNCHANGED <<phase, kicked>>
     \/ /\ token = "kick" /\ Leave(s, kick, ini_dirty[s]) /\ kicked' = kicked + 1
        /\ UNCHANGED <<ini_dirty, told>>
     \/ /\ token = "ban"
        /\ Leave(s, [kick EXCEPT !.banned = TRUE], TRUE) /\ kicked' = kicked + 1
        /\ told' = [told EXCEPT !.banned = TRUE] /\ ini_dirty' = [ini_dirty EXCEPT ![s] = TRUE]
  /\ UNCHANGED <<ini, rec, index, tell, said, behind, events>>

\* Killed, wherever it is: what it had not written is lost.
SessionDies(s) ==
  /\ Plays(s) /\ Happens
  /\ phase' \in {[phase EXCEPT ![s] = t] :
       t \in CASE phase[s] = "listed" -> {"dead"}
               [] phase[s] \in {"old", "leaving"} -> {"dead", "none"}
               [] OTHER -> {"none"}}
  /\ writing' = [writing EXCEPT ![s] = "idle"] /\ tokens' = [tokens EXCEPT ![s] = <<>>]
  /\ ini_dirty' = [ini_dirty EXCEPT ![s] = FALSE]
  /\ raced' = (raced \/ writing[s] = "ini") /\ behind' = TRUE
  /\ said' = ReadUser.messages /\ kicked' = ReadUser.kicks
  /\ UNCHANGED <<ini, rec, index, my, tell, told, mixed>>

----------------------------------------------------------------------------
(* Others *)

\* delete_session_id
CountKick(s) ==
  /\ phase[s] = "dead" /\ writing[Reaper] = "idle"
  /\ IF Found
     THEN /\ my' = [my EXCEPT ![Reaper] = [NewUser EXCEPT !.no = index,
                      !.messages = rec[index].messages, !.kicks = rec[index].kicks + 1]]
          /\ writing' = [writing EXCEPT ![Reaper] = "db"] /\ kicked' = kicked + 1 /\ UNCHANGED phase
          /\ Meets(Reaper)
     ELSE phase' = [phase EXCEPT ![s] = "none"] /\ UNCHANGED <<my, writing, kicked, raced, mixed>>
  /\ UNCHANGED <<ini, rec, index, ini_dirty, tokens, tell, told, said, behind, events>>

\* An administrator's command that reads all there is, and writes it all.
Amend(r, who) ==
  /\ writing[Admin] = "idle" /\ Found /\ Happens /\ Meets(Admin)
  /\ my' = [my EXCEPT ![Admin] = r] /\ writing' = [writing EXCEPT ![Admin] = "ini"]
  /\ told' = [told EXCEPT !.group = r.group, !.banned = r.banned]
  /\ tell' = who
  /\ UNCHANGED <<ini, rec, index, ini_dirty, phase, tokens, said, kicked, behind>>

Listeners == {s \in Session : phase[s] = "listed"}

\* cmd_ban, of one who is not there
BanOffline == Listeners = {} /\ Amend([ReadUser EXCEPT !.banned = TRUE], {})

\* cmd_unban: an administrator is one no more.
Unban ==
  /\ ReadUser.banned
  /\ Amend([ReadUser EXCEPT !.banned = FALSE, !.group = IF @ <= 0 THEN UserGroup ELSE @], {})

\* cmd_setperm
Setperm(g) == Amend([ReadUser EXCEPT !.group = g], Listeners)

\* rebuild_user_database: the server starts without a database.  A user whose file has no
\* number yet is none.
Rebuild ==
  /\ Found /\ \A s \in Session : ~Plays(s)
  /\ writing[Admin] = "idle" /\ writing[Reaper] = "idle" /\ Happens
  /\ LET no == IF ini = Absent THEN 0 ELSE ini.no
         counts == [messages |-> ini.messages, kicks |-> ini.kicks]
     IN /\ rec' = IF no = 0 THEN <<>> ELSE [n \in 1 .. no |-> counts]
        /\ index' = no
  /\ said' = IF behind THEN ini.messages ELSE said
  /\ kicked' = IF behind THEN ini.kicks ELSE kicked
  /\ UNCHANGED <<ini, my, ini_dirty, writing, phase, tokens, tell, told, raced, mixed, behind>>

UserNext ==
  \/ \E p \in Process : WriteIni(p) \/ WriteDb(p)
  \/ \E s \in Session : \/ Login(s) \/ Listed(s) \/ Quit(s) \/ Say(s) \/ Tick(s) \/ Receive(s)
                        \/ SessionDies(s) \/ CountKick(s)
                        \/ \E d \in {0, MapDefault} : Reachdist(s, d)
                        \/ \E token \in {"kick", "ban", "title"} : Send(s, token)
  \/ BanOffline \/ Unban \/ Rebuild \/ \E g \in {AdminGroup, UserGroup} : Setperm(g)

UserSpec == UserInit /\ [][UserNext]_recordVars

----------------------------------------------------------------------------
(* Properties *)

Quiet == \A p \in Process : writing[p] = "idle"

\* What was last said of a user, a rank, a ban, a title, a reach, is in the file once all have
\* written, and those who play have the rank; a banned user does not.  As long as no two work
\* on the file at the same time: there is no lock over reading and writing it.  That the reach
\* is the map's again is not written (user_ini_fields).
AsTold ==
  (~raced /\ Quiet /\ ini # Absent) =>
    /\ LoadIni.group = told.group /\ LoadIni.banned = told.banned /\ LoadIni.title = told.title
    /\ told.reach # MapDefault => LoadIni.reach = told.reach
    /\ \A s \in Listeners :
         /\ "loaduser" \notin ToSet(tokens[s]) => my[s].group = told.group
         /\ ~told.banned

\* Every message, and every kick, is counted once: by the session that runs, and in the record
\* when none does; also over a database that is lost, if the user has left properly.  As long
\* as one session runs at a time and nobody writes the record in between.
Counted ==
  (~mixed /\ Quiet) =>
    LET r == IF \E s \in Session : Plays(s) THEN my[CHOOSE s \in Session : Plays(s)] ELSE ReadUser
    IN r.messages = said /\ r.kicks = kicked

----------------------------------------------------------------------------
(* What is needed to prove them: UserIInv is inductive *)

User_t ==
  [no : Nat, group : {AdminGroup, UserGroup}, banned : BOOLEAN, title : Nat, reach : Int,
   messages : Nat, kicks : Nat]
File_t ==
  [no : Nat, group : {AdminGroup, UserGroup, -1}, banned : BOOLEAN, title : Nat, reach : Int,
   messages : Nat, kicks : Nat]
Counts_t == [messages : Nat, kicks : Nat]
Phase == {"none", "login", "pending", "listed", "old", "leaving", "dead"}
Token == {"kick", "ban", "title", "loaduser"}

UserTypes ==
  /\ ini \in File_t \cup {Absent}
  /\ rec \in Seq(Counts_t) /\ index \in 0 .. Len(rec)
  /\ my \in [Process -> User_t] /\ ini_dirty \in [Session -> BOOLEAN]
  /\ writing \in [Process -> {"idle", "ini", "db"}] /\ phase \in [Session -> Phase]
  /\ tokens \in [Session -> Seq(Token)] /\ tell \subseteq Session
  /\ told \in [group : {AdminGroup, UserGroup}, banned : BOOLEAN, title : Nat, reach : Int]
  /\ said \in Nat /\ kicked \in Nat /\ events \in Nat
  /\ raced \in BOOLEAN /\ mixed \in BOOLEAN /\ behind \in BOOLEAN

Active(p) == writing[p] # "idle" \/ (p \in Session /\ Plays(p))

\* Where each process is, and what there is by then
FlowInv ==
  /\ \A s \in Session :
       /\ phase[s] \in {"none", "pending", "dead"} => writing[s] = "idle"
       /\ ini_dirty[s] => writing[s] = "ini"
       /\ phase[s] \in {"pending", "listed", "old", "leaving"} \/ writing[s] = "db" => ini # Absent
  /\ writing[Reaper] # "ini"
  /\ writing[Admin] # "idle" \/ writing[Reaper] # "idle" \/ index # 0 => ini # Absent
  /\ \A s, t \in Listeners : s = t
  /\ \A p \in Process : Active(p) => my[p].no <= Len(rec)

\* Does r say what was told?
SaysRest(r) ==
  /\ r.banned = told.banned /\ r.title = told.title
  /\ told.reach # MapDefault => r.reach = told.reach
Says(r) == r.group = told.group /\ SaysRest(r)

\* Told a new rank once the administrator is through
ToBeTold(s) == writing[Admin] # "idle" /\ s \in tell

\* As long as no two work on the file at the same time, who is at it has what was told, and
\* without him the file has; who plays has it, but for a rank of which he is about to hear.
ToldInv ==
  ~raced =>
    /\ \A p, q \in Process : Busy(p) /\ Busy(q) => p = q
    /\ \A p \in Process \ {Reaper} : Busy(p) => Says(my[p])
    /\ ini = Absent => Says(NewUser)
    /\ ini # Absent /\ (\A p \in Process : writing[p] # "ini") => Says(LoadIni)
    /\ \A s \in Listeners :
         /\ ~told.banned /\ SaysRest(my[s])
         /\ my[s].group = told.group \/ "loaduser" \in ToSet(tokens[s]) \/ ToBeTold(s)
         /\ writing[s] # "ini" => SaysRest(LoadIni) /\ (LoadIni.group = told.group \/ ToBeTold(s))
    /\ \A s \in Session : \A i, j \in DOMAIN tokens[s] :
         i < j /\ tokens[s][i] = "ban" => tokens[s][j] # "loaduser"

Counts(r) == r.messages = said /\ r.kicks = kicked
NoneRuns == \A s \in Session : ~Plays(s)

\* As long as one session runs at a time, and nobody writes the record meanwhile, the counts are
\* those of the session, or of the record, or of the listener that adds a kick to them.
CountInv ==
  ~mixed =>
    /\ \A p, q \in Process : writing[p] # "idle" /\ writing[q] # "idle" => p = q
    /\ \A s, t \in Session : Plays(s) /\ Plays(t) => s = t
    /\ writing[Reaper] # "idle" => NoneRuns /\ Counts(my[Reaper])
    /\ \A s \in Session : Plays(s) => Counts(my[s])
    /\ writing[Admin] # "idle" =>
         /\ index # 0 /\ my[Admin].no = index
         /\ my[Admin].messages = rec[index].messages /\ my[Admin].kicks = rec[index].kicks
    /\ NoneRuns /\ writing[Reaper] = "idle" => Counts(ReadUser)
    /\ \A p \in Process \ {Reaper} :
         writing[p] = "db" => ini.messages = my[p].messages /\ ini.kicks = my[p].kicks
    /\ ~behind /\ NoneRuns /\ writing[Reaper] = "idle" /\ ini # Absent => Counts(ini)

UserIInv == UserTypes /\ FlowInv /\ ToldInv /\ CountInv
=============================================================================

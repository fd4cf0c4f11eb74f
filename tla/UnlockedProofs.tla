-------------------------- MODULE UnlockedProofs -----------------------------
(***************************************************************************)
(* Proofs about what the processes keep in common without a lock, for any   *)
(* number of them.                                                         *)
(*                                                                         *)
(* AsTold and Counted are invariants of UserRecord: UserIInv is inductive   *)
(* in four parts: what there is and of which type (UserTypes), where each   *)
(* process is (FlowInv), who has what was told while no two work on the     *)
(* file (ToldInv), and who has the counts while no two write the record     *)
(* (CountInv).  Each action has a lemma for what it does to each of them.   *)
(*                                                                         *)
(* CountNotOver is one of Listener: ListenerIInv is inductive in three: the *)
(* types, which savers there are (SaverInv), and that what they and the     *)
(* listener have counted is still there (LoadedInv).                        *)
(***************************************************************************)
EXTENDS UserRecord, Listener, FiniteSetTheorems, TLAPS

-----------------------------------------------------------------------------
(* What is read *)

LEMMA AbsentIsNone == ASSUME NEW r \in File_t \cup User_t PROVE r # Absent
<1>1. "no" \in DOMAIN r
  BY DEF File_t, User_t
<1>2. DOMAIN Absent = {}
  BY DEF Absent
<1> QED
  BY <1>1, <1>2

LEMMA NewUserType == NewUser \in User_t /\ NewUser.no = 0 /\ NewUser.messages = 0 /\ NewUser.kicks = 0
BY DEF NewUser, User_t, UserGroup, AdminGroup, MapDefault

LEMMA LoadIniType ==
  ASSUME ini \in File_t
  PROVE  /\ LoadIni \in User_t
         /\ LoadIni.no = ini.no /\ LoadIni.messages = ini.messages /\ LoadIni.kicks = ini.kicks
         /\ ini.group >= 0 => LoadIni = ini
<1>1. CASE ini.group < 0
  <2>1. LoadIni = [ini EXCEPT !.group = UserGroup, !.banned = TRUE]
    BY <1>1 DEF LoadIni
  <2>2. ~(ini.group >= 0)
    BY <1>1 DEF File_t, UserGroup, AdminGroup
  <2> QED
    BY <2>1, <2>2 DEF File_t, User_t, UserGroup, AdminGroup
<1>2. CASE ~(ini.group < 0)
  <2>1. ini.group \in {AdminGroup, UserGroup}
    BY <1>2 DEF File_t, AdminGroup, UserGroup
  <2> QED
    BY <1>2, <2>1 DEF LoadIni, File_t, User_t, UserGroup, AdminGroup
<1> QED
  BY <1>1, <1>2

\* What is read of the file again: all but the counts and the number.
LEMMA ReadIniIs ==
  ASSUME ini \in File_t \cup {Absent}, NEW r \in User_t
  PROVE  /\ ReadIni(r) \in User_t
         /\ ReadIni(r).no = r.no /\ ReadIni(r).messages = r.messages /\ ReadIni(r).kicks = r.kicks
         /\ ini # Absent =>
              /\ ReadIni(r).group = LoadIni.group /\ ReadIni(r).banned = LoadIni.banned
              /\ ReadIni(r).title = LoadIni.title
              /\ LoadIni.reach # MapDefault => ReadIni(r).reach = LoadIni.reach
<1>1. CASE ini = Absent
  BY <1>1 DEF ReadIni
<1>2. CASE ini # Absent
  <2>1. LoadIni \in User_t
    BY <1>2, LoadIniType
  <2>2. ReadIni(r) = [LoadIni EXCEPT !.no = r.no, !.messages = r.messages, !.kicks = r.kicks,
                        !.reach = IF @ = MapDefault THEN r.reach ELSE @]
    BY <1>2 DEF ReadIni
  <2> QED
    BY <1>2, <2>1, <2>2 DEF User_t
<1> QED
  BY <1>1, <1>2

\* What is read of the file and of the record
LEMMA ReadUserIs ==
  ASSUME UserTypes
  PROVE  /\ ReadUser \in User_t
         /\ ReadUser.no = index
         /\ Found => ReadUser.messages = rec[index].messages /\ ReadUser.kicks = rec[index].kicks
         /\ ~Found /\ ini # Absent => ReadUser.messages = ini.messages /\ ReadUser.kicks = ini.kicks
         /\ ~Found /\ ini = Absent => ReadUser.messages = 0 /\ ReadUser.kicks = 0
         /\ LET r == IF ini = Absent THEN NewUser ELSE LoadIni
            IN /\ ReadUser.group = r.group /\ ReadUser.banned = r.banned
               /\ ReadUser.title = r.title /\ ReadUser.reach = r.reach
<1> DEFINE r == IF ini = Absent THEN NewUser ELSE LoadIni
<1>1. ini \in File_t \cup {Absent} /\ rec \in Seq(Counts_t) /\ index \in 0 .. Len(rec)
  BY DEF UserTypes
<1>2. /\ r \in User_t
      /\ ini = Absent => r.messages = 0 /\ r.kicks = 0
      /\ ini # Absent => r.messages = ini.messages /\ r.kicks = ini.kicks
  BY <1>1, NewUserType, LoadIniType
<1>3. ReadUser = IF Found THEN [r EXCEPT !.no = index, !.messages = rec[index].messages, !.kicks = rec[index].kicks]
                 ELSE [r EXCEPT !.no = 0]
  BY DEF ReadUser
<1> HIDE DEF r
<1>4. CASE Found
  <2>1. rec[index] \in Counts_t /\ index \in Nat
    BY <1>1, <1>4 DEF Found
  <2>2. rec[index].messages \in Nat /\ rec[index].kicks \in Nat
    BY <2>1 DEF Counts_t
  <2> QED
    BY <1>2, <1>3, <1>4, <2>1, <2>2 DEF User_t, r
<1>5. CASE ~Found
  <2>1. index = 0
    BY <1>5 DEF Found
  <2> QED
    BY <1>2, <1>3, <1>5, <2>1 DEF User_t, r
<1> QED
  BY <1>4, <1>5

Held == UserConstants /\ UserTypes /\ FlowInv

-----------------------------------------------------------------------------
(* What the parts of the actions do *)

LEMMA ProcessIs ==
  ASSUME UserConstants
  PROVE  /\ Session \subseteq Process /\ Admin \in Process /\ Reaper \in Process
         /\ Admin \notin Session /\ Reaper \notin Session /\ Admin # Reaper
         /\ \A p \in Process : p \in Session \/ p = Admin \/ p = Reaper
BY DEF UserConstants, Process

\* Who begins meets nobody, or the behaviour is one of those that are excepted.
LEMMA MeetsIs ==
  ASSUME UserTypes, NEW p \in Process, Meets(p)
  PROVE  /\ raced' \in BOOLEAN /\ mixed' \in BOOLEAN
         /\ ~raced' => ~raced /\ \A q \in Process \ {p} : ~Busy(q)
         /\ ~mixed' => /\ ~mixed /\ \A q \in Process \ {p} : writing[q] = "idle"
                       /\ p \in Session \cup {Reaper} => \A s \in Session \ {p} : ~Plays(s)
<1>1. /\ raced' = (raced \/ \E q \in Process \ {p} : Busy(q))
      /\ mixed' = (mixed \/ (\E q \in Process \ {p} : writing[q] # "idle")
                     \/ (p \in Session \cup {Reaper} /\ \E s \in Session \ {p} : Plays(s)))
  BY DEF Meets
<1>2. raced \in BOOLEAN /\ mixed \in BOOLEAN
  BY DEF UserTypes
<1> QED
  BY <1>1, <1>2, Zenon

\* The record that is put has the counts, and the index has its number.
LEMMA PutIs ==
  ASSUME UserTypes, NEW r \in User_t, r.no <= Len(rec), Put(r)
  PROVE  /\ rec' \in Seq(Counts_t) /\ Len(rec') >= Len(rec) /\ Len(rec') \in Nat
         /\ index' \in 1 .. Len(rec') /\ (r.no # 0 => index' = r.no)
         /\ rec'[index'] = [messages |-> r.messages, kicks |-> r.kicks]
<1> DEFINE counts == [messages |-> r.messages, kicks |-> r.kicks]
           no == IF r.no = 0 THEN Len(rec) + 1 ELSE r.no
<1>1. /\ rec \in Seq(Counts_t) /\ Len(rec) \in Nat /\ counts \in Counts_t /\ r.no \in Nat
  BY DEF UserTypes, User_t, Counts_t
<1>2. index' = no /\ rec' = IF no > Len(rec) THEN Append(rec, counts) ELSE [rec EXCEPT ![no] = counts]
  BY DEF Put, NextNo
<1>3. no \in 1 .. Len(rec) + 1 /\ (r.no # 0 => no = r.no)
  BY <1>1
<1> HIDE DEF counts, no
<1>4. CASE no > Len(rec)
  <2>1. rec' = Append(rec, counts) /\ no = Len(rec) + 1
    BY <1>1, <1>2, <1>3, <1>4
  <2>2. /\ rec' \in Seq(Counts_t) /\ Len(rec') = Len(rec) + 1 /\ rec'[Len(rec) + 1] = counts
    BY <1>1, <2>1
  <2> QED
    BY <1>1, <1>2, <1>3, <2>1, <2>2 DEF counts
<1>5. CASE ~(no > Len(rec))
  <2>1. rec' = [rec EXCEPT ![no] = counts] /\ no \in 1 .. Len(rec)
    BY <1>1, <1>2, <1>3, <1>5
  <2>2. /\ rec' \in Seq(Counts_t) /\ Len(rec') = Len(rec) /\ rec'[no] = counts
    BY <1>1, <2>1
  <2> QED
    BY <1>1, <1>2, <1>3, <2>1, <2>2 DEF counts
<1> QED
  BY <1>4, <1>5

\* stop_user
LEMMA LeaveIs ==
  ASSUME UserConstants, UserTypes, NEW s \in Session, NEW r \in User_t, NEW dirty \in BOOLEAN,
         Leave(s, r, dirty)
  PROVE  /\ my' \in [Process -> User_t] /\ phase' \in [Session -> Phase]
         /\ writing' \in [Process -> {"idle", "ini", "db"}]
         /\ my'[s] = IF dirty THEN r ELSE ReadIni(r)
         /\ my'[s].no = r.no /\ my'[s].messages = r.messages /\ my'[s].kicks = r.kicks
         /\ phase'[s] = "leaving" /\ writing'[s] = "ini"
         /\ \A p \in Process : p # s => my'[p] = my[p] /\ writing'[p] = writing[p]
         /\ \A t \in Session : t # s => phase'[t] = phase[t]
         /\ Meets(s)
<1>1. s \in Process /\ "leaving" \in Phase
  BY ProcessIs DEF Phase
<1>2. /\ ReadIni(r) \in User_t /\ ReadIni(r).no = r.no
      /\ ReadIni(r).messages = r.messages /\ ReadIni(r).kicks = r.kicks
  BY ReadIniIs DEF UserTypes
<1>3. /\ my' = [my EXCEPT ![s] = IF dirty THEN r ELSE ReadIni(r)]
      /\ phase' = [phase EXCEPT ![s] = "leaving"] /\ writing' = [writing EXCEPT ![s] = "ini"] /\ Meets(s)
  BY DEF Leave
<1>4. /\ my \in [Process -> User_t] /\ writing \in [Process -> {"idle", "ini", "db"}]
      /\ phase \in [Session -> Phase]
  BY DEF UserTypes
<1> QED
  BY <1>1, <1>2, <1>3, <1>4

Change_t(field, value) == (field = "reach" /\ value \in Int) \/ (field = "title" /\ value \in Nat)

\* do_cmd_title and its likes
LEMMA ChangeIs ==
  ASSUME UserConstants, UserTypes, NEW s \in Session, NEW field, NEW value, Change_t(field, value),
         Change(s, field, value)
  PROVE  /\ my' \in [Process -> User_t] /\ writing' \in [Process -> {"idle", "ini", "db"}]
         /\ ini_dirty' \in [Session -> BOOLEAN]
         /\ told' \in [group : {AdminGroup, UserGroup}, banned : BOOLEAN, title : Nat, reach : Int]
         /\ my'[s] = [ReadIni(my[s]) EXCEPT ![field] = value]
         /\ told' = [told EXCEPT ![field] = value]
         /\ my'[s].no = my[s].no /\ my'[s].messages = my[s].messages /\ my'[s].kicks = my[s].kicks
         /\ writing'[s] = "ini"
         /\ \A p \in Process : p # s => my'[p] = my[p] /\ writing'[p] = writing[p]
         /\ \A t \in Session : t # s => ini_dirty'[t] = ini_dirty[t]
         /\ Meets(s)
<1>1. s \in Process
  BY ProcessIs
<1>2. /\ my \in [Process -> User_t] /\ writing \in [Process -> {"idle", "ini", "db"}]
      /\ ini_dirty \in [Session -> BOOLEAN] /\ my[s] \in User_t
      /\ told \in [group : {AdminGroup, UserGroup}, banned : BOOLEAN, title : Nat, reach : Int]
  BY <1>1 DEF UserTypes
<1>3. /\ ReadIni(my[s]) \in User_t /\ ReadIni(my[s]).no = my[s].no
      /\ ReadIni(my[s]).messages = my[s].messages /\ ReadIni(my[s]).kicks = my[s].kicks
  BY <1>2, ReadIniIs DEF UserTypes
<1> DEFINE r == [ReadIni(my[s]) EXCEPT ![field] = value]
<1>4. /\ my' = [my EXCEPT ![s] = r] /\ told' = [told EXCEPT ![field] = value]
      /\ ini_dirty' = [ini_dirty EXCEPT ![s] = TRUE] /\ writing' = [writing EXCEPT ![s] = "ini"] /\ Meets(s)
  BY DEF Change
<1>5. r \in User_t /\ r.no = my[s].no /\ r.messages = my[s].messages /\ r.kicks = my[s].kicks
  BY <1>3 DEF User_t, Change_t
<1>6. told' \in [group : {AdminGroup, UserGroup}, banned : BOOLEAN, title : Nat, reach : Int]
  BY <1>2, <1>4 DEF Change_t
<1>7. my'[s] = r
  BY <1>1, <1>2, <1>4
<1> HIDE DEF r
<1>8. /\ my' \in [Process -> User_t] /\ writing' \in [Process -> {"idle", "ini", "db"}]
      /\ ini_dirty' \in [Session -> BOOLEAN] /\ writing'[s] = "ini"
      /\ \A p \in Process : p # s => my'[p] = my[p] /\ writing'[p] = writing[p]
      /\ \A t \in Session : t # s => ini_dirty'[t] = ini_dirty[t]
  BY <1>1, <1>2, <1>4, <1>5
<1> QED
  BY <1>4, <1>5, <1>6, <1>7, <1>8 DEF r

\* /ban, /unban and /setperm
LEMMA AmendIs ==
  ASSUME UserConstants, UserTypes, NEW r \in User_t, NEW who \in SUBSET Session, Amend(r, who)
  PROVE  /\ my' \in [Process -> User_t] /\ writing' \in [Process -> {"idle", "ini", "db"}]
         /\ told' \in [group : {AdminGroup, UserGroup}, banned : BOOLEAN, title : Nat, reach : Int]
         /\ my'[Admin] = r /\ writing[Admin] = "idle" /\ writing'[Admin] = "ini"
         /\ \A p \in Process : p # Admin => my'[p] = my[p] /\ writing'[p] = writing[p]
         /\ told'.group = r.group /\ told'.banned = r.banned
         /\ told'.title = told.title /\ told'.reach = told.reach
         /\ tell' = who /\ index # 0 /\ events' = events + 1 /\ Meets(Admin)
<1>1. /\ my \in [Process -> User_t] /\ writing \in [Process -> {"idle", "ini", "db"}] /\ Admin \in Process
      /\ told \in [group : {AdminGroup, UserGroup}, banned : BOOLEAN, title : Nat, reach : Int]
  BY ProcessIs DEF UserTypes
<1>2. /\ my' = [my EXCEPT ![Admin] = r] /\ writing' = [writing EXCEPT ![Admin] = "ini"]
      /\ told' = [told EXCEPT !.group = r.group, !.banned = r.banned] /\ tell' = who
      /\ writing[Admin] = "idle" /\ index # 0 /\ events' = events + 1 /\ Meets(Admin)
  BY DEF Amend, Found, Happens
<1>3. r.group \in {AdminGroup, UserGroup} /\ r.banned \in BOOLEAN
  BY DEF User_t
<1> QED
  BY <1>1, <1>2, <1>3

-----------------------------------------------------------------------------
(* What there is, and where each process is *)

LEMMA InitFlows == ASSUME UserConstants, UserInit PROVE UserTypes /\ FlowInv
<1>1. NewUser \in User_t /\ NewUser.no = 0
  BY NewUserType
<1>2. ini \in File_t \cup {Absent} /\ rec \in Seq(Counts_t) /\ index \in 0 .. Len(rec)
      /\ (index # 0 => ini # Absent)
  <2>1. CASE ini = Absent /\ rec = <<>> /\ index = 0
    BY <2>1
  <2>2. CASE /\ ini \in {[NewUser EXCEPT !.no = 1, !.group = g] : g \in {UserGroup, -1}}
             /\ rec = <<[messages |-> 0, kicks |-> 0]>> /\ index = 1
    <3>1. ini \in File_t
      <4>1. PICK g \in {UserGroup, -1} : ini = [NewUser EXCEPT !.no = 1, !.group = g]
        BY <2>2
      <4>2. g \in {AdminGroup, UserGroup, -1} /\ NewUser \in User_t
        BY NewUserType
      <4> HIDE DEF NewUser
      <4> QED
        BY <4>1, <4>2 DEF User_t, File_t
    <3>2. [messages |-> 0, kicks |-> 0] \in Counts_t
      BY DEF Counts_t
    <3> QED
      BY <2>2, <3>1, <3>2, AbsentIsNone
  <2> QED
    BY <2>1, <2>2 DEF UserInit
<1>3. told \in [group : {AdminGroup, UserGroup}, banned : BOOLEAN, title : Nat, reach : Int]
  BY DEF UserInit, UserGroup, MapDefault
<1>4. UserTypes
  <2>1. my \in [Process -> User_t] /\ ini_dirty \in [Session -> BOOLEAN]
    BY <1>1 DEF UserInit
  <2>2. /\ writing \in [Process -> {"idle", "ini", "db"}] /\ phase \in [Session -> Phase]
        /\ tokens \in [Session -> Seq(Token)] /\ tell \subseteq Session
    BY DEF UserInit, Phase
  <2>3. /\ said \in Nat /\ kicked \in Nat /\ events \in Nat
        /\ raced \in BOOLEAN /\ mixed \in BOOLEAN /\ behind \in BOOLEAN
    BY DEF UserInit
  <2> QED
    BY <1>2, <1>3, <2>1, <2>2, <2>3 DEF UserTypes
<1>5. FlowInv
  BY <1>1, <1>2, ProcessIs DEF UserInit, FlowInv, Listeners, Active, Plays
<1> QED
  BY <1>4, <1>5

\* What the file has after a write
LEMMA WriteIniIs ==
  ASSUME Held, NEW p \in Process, WriteIni(p)
  PROVE  /\ p # Reaper /\ ini' \in User_t /\ ini' # Absent
         /\ ini'.group = my[p].group /\ ini'.banned = my[p].banned /\ ini'.title = my[p].title
         /\ ini'.messages = my[p].messages /\ ini'.kicks = my[p].kicks
         /\ my[p].reach # MapDefault => ini'.reach = my[p].reach
         /\ writing[p] = "ini" /\ writing'[p] = "db" /\ \A q \in Process : q # p => writing'[q] = writing[q]
         /\ ini_dirty' \in [Session -> BOOLEAN]
         /\ \A s \in Session : ini_dirty'[s] = (s # p /\ ini_dirty[s])
<1>1. my[p] \in User_t /\ writing \in [Process -> {"idle", "ini", "db"}] /\ ini \in File_t \cup {Absent}
      /\ ini_dirty \in [Session -> BOOLEAN]
  BY DEF Held, UserTypes
<1>2. p # Reaper /\ writing[p] = "ini" /\ writing' = [writing EXCEPT ![p] = "db"]
  BY DEF Held, FlowInv, WriteIni
<1>3. /\ ini' = [my[p] EXCEPT !.reach = IF @ = MapDefault /\ ini # Absent THEN ini.reach ELSE @]
      /\ ini_dirty' = [s \in Session |-> s # p /\ ini_dirty[s]]
  BY DEF WriteIni
<1>4. ini # Absent => ini.reach \in Int
  BY <1>1 DEF File_t
<1>5. ini' \in User_t
  BY <1>1, <1>3, <1>4 DEF User_t
<1>6. /\ ini'.group = my[p].group /\ ini'.banned = my[p].banned /\ ini'.title = my[p].title
      /\ ini'.messages = my[p].messages /\ ini'.kicks = my[p].kicks
      /\ my[p].reach # MapDefault => ini'.reach = my[p].reach
  BY <1>1, <1>3 DEF User_t
<1>7. ini_dirty' \in [Session -> BOOLEAN] /\ \A s \in Session : ini_dirty'[s] = (s # p /\ ini_dirty[s])
  BY <1>3
<1> QED
  BY <1>1, <1>2, <1>5, <1>6, <1>7, AbsentIsNone

LEMMA WriteIniFlows ==
  ASSUME Held, NEW p \in Process, WriteIni(p)
  PROVE  UserTypes' /\ FlowInv'
<1>1. UNCHANGED <<rec, index, my, phase, tokens, tell, told, said, kicked, raced, mixed, behind, events>>
      /\ writing' = [writing EXCEPT ![p] = "db"]
  BY DEF WriteIni
<1>2. User_t \subseteq File_t
  BY DEF User_t, File_t
<1>3. UserTypes'
  BY <1>1, <1>2, WriteIniIs DEF Held, UserTypes
<1>4. FlowInv'
  <2>1. \A s \in Session : /\ phase'[s] \in {"none", "pending", "dead"} => writing'[s] = "idle"
                           /\ ini_dirty'[s] => writing'[s] = "ini"
    BY <1>1, WriteIniIs, ProcessIs DEF Held, FlowInv
  <2>2. writing'[Reaper] # "ini" /\ (\A s, t \in Listeners' : s = t)
    BY <1>1, WriteIniIs, ProcessIs DEF Held, FlowInv, Listeners
  <2>3. \A q \in Process : Active(q)' => my'[q].no <= Len(rec')
    BY <1>1, WriteIniIs DEF Held, FlowInv, Active, Plays
  <2> QED
    BY <2>1, <2>2, <2>3, WriteIniIs DEF FlowInv
<1> QED
  BY <1>3, <1>4

\* What write_userrec leaves when it is through
LEMMA WriteDbIs ==
  ASSUME Held, NEW p \in Process, WriteDb(p)
  PROVE  /\ rec' \in Seq(Counts_t) /\ Len(rec') >= Len(rec) /\ Len(rec') \in Nat /\ Len(rec) \in Nat
         /\ index' \in 1 .. Len(rec') /\ (my[p].no # 0 => index' = my[p].no)
         /\ rec'[index'] = [messages |-> my[p].messages, kicks |-> my[p].kicks]
         /\ my' \in [Process -> User_t] /\ my' = [my EXCEPT ![p].no = index']
         /\ my'[p].no = index' /\ \A q \in Process \ {p} : my'[q] = my[q]
         /\ writing[p] = "db" /\ writing'[p] = "idle" /\ \A q \in Process : q # p => writing'[q] = writing[q]
         /\ phase' \in [Session -> Phase]
         /\ \A s \in Session :
              phase'[s] = IF s = p /\ phase[s] = "login" THEN "pending"
                          ELSE IF (s = p /\ phase[s] = "leaving") \/ (p = Reaper /\ phase[s] = "dead") THEN "none"
                          ELSE phase[s]
         /\ tokens' \in [Session -> Seq(Token)]
<1>1. /\ my \in [Process -> User_t] /\ writing \in [Process -> {"idle", "ini", "db"}] /\ my[p] \in User_t
      /\ phase \in [Session -> Phase] /\ tokens \in [Session -> Seq(Token)] /\ rec \in Seq(Counts_t)
  BY DEF Held, UserTypes
<1>2. writing[p] = "db" /\ writing' = [writing EXCEPT ![p] = "idle"] /\ Put(my[p]) /\ my' = [my EXCEPT ![p].no = index']
  BY DEF WriteDb
<1>3. my[p].no <= Len(rec)
  BY <1>2 DEF Held, FlowInv, Active
<1>4. /\ rec' \in Seq(Counts_t) /\ Len(rec') >= Len(rec) /\ Len(rec') \in Nat
      /\ index' \in 1 .. Len(rec') /\ (my[p].no # 0 => index' = my[p].no)
      /\ rec'[index'] = [messages |-> my[p].messages, kicks |-> my[p].kicks]
  BY <1>1, <1>2, <1>3, PutIs DEF Held
<1>5. index' \in Nat
  BY <1>4
<1>6. [my[p] EXCEPT !.no = index'] \in User_t /\ [my[p] EXCEPT !.no = index'].no = index'
  BY <1>1, <1>5 DEF User_t
<1>7. /\ my' \in [Process -> User_t] /\ my'[p].no = index' /\ \A q \in Process \ {p} : my'[q] = my[q]
  BY <1>1, <1>2, <1>6
<1>8. phase' = [s \in Session |->
       CASE s = p /\ phase[s] = "login" -> "pending"
         [] (s = p /\ phase[s] = "leaving") \/ (p = Reaper /\ phase[s] = "dead") -> "none"
         [] OTHER -> phase[s]]
  BY DEF WriteDb
<1>9. \A s \in Session :
        phase'[s] = IF s = p /\ phase[s] = "login" THEN "pending"
                    ELSE IF (s = p /\ phase[s] = "leaving") \/ (p = Reaper /\ phase[s] = "dead") THEN "none"
                    ELSE phase[s]
  <2> SUFFICES ASSUME NEW s \in Session
               PROVE  phase'[s] = IF s = p /\ phase[s] = "login" THEN "pending"
                          ELSE IF (s = p /\ phase[s] = "leaving") \/ (p = Reaper /\ phase[s] = "dead") THEN "none"
                          ELSE phase[s]
    OBVIOUS
  <2>1. CASE s = p /\ phase[s] = "login"
    BY <1>8, <2>1
  <2>2. CASE (s = p /\ phase[s] = "leaving") \/ (p = Reaper /\ phase[s] = "dead")
    BY <1>8, <2>2
  <2>3. CASE ~(s = p /\ phase[s] = "login") /\ ~((s = p /\ phase[s] = "leaving") \/ (p = Reaper /\ phase[s] = "dead"))
    BY <1>8, <2>3
  <2> QED
    BY <2>1, <2>2, <2>3
<1>10. phase' \in [Session -> Phase]
  <2>1. \A s \in Session : phase'[s] \in Phase
    BY <1>1, <1>9 DEF Phase
  <2> QED
    BY <1>8, <2>1
<1>11. tokens' \in [Session -> Seq(Token)]
  <2>1. tokens' = [s \in Session |->
          IF p = s /\ phase[s] = "leaving" THEN <<>>
          ELSE IF p = Admin /\ s \in tell /\ phase[s] = "listed" THEN Append(tokens[s], "loaduser")
          ELSE tokens[s]]
    BY DEF WriteDb
  <2>2. \A s \in Session : Append(tokens[s], "loaduser") \in Seq(Token) /\ tokens[s] \in Seq(Token)
    BY <1>1 DEF Token
  <2> QED
    BY <2>1, <2>2
<1> QED
  BY <1>1, <1>2, <1>4, <1>7, <1>9, <1>10, <1>11

LEMMA WriteDbFlows ==
  ASSUME Held, NEW p \in Process, WriteDb(p)
  PROVE  UserTypes' /\ FlowInv'
<1>1. /\ UNCHANGED <<ini, ini_dirty, told, said, kicked, mixed, events>>
      /\ raced' = (raced \/ (p = Admin /\ \E s \in tell : "ban" \in ToSet(tokens[s])))
      /\ tell' = IF p = Admin THEN {} ELSE tell
      /\ behind' = (p = Reaper) /\ writing' = [writing EXCEPT ![p] = "idle"]
  BY DEF WriteDb
<1>2. /\ rec' \in Seq(Counts_t) /\ Len(rec') >= Len(rec) /\ Len(rec') \in Nat /\ Len(rec) \in Nat
      /\ index' \in 1 .. Len(rec')
      /\ my' \in [Process -> User_t] /\ phase' \in [Session -> Phase]
      /\ tokens' \in [Session -> Seq(Token)]
  BY WriteDbIs
<1>3. /\ my'[p].no = index' /\ \A q \in Process \ {p} : my'[q] = my[q]
      /\ writing[p] = "db" /\ writing'[p] = "idle" /\ \A q \in Process : q # p => writing'[q] = writing[q]
      /\ \A s \in Session :
              phase'[s] = IF s = p /\ phase[s] = "login" THEN "pending"
                          ELSE IF (s = p /\ phase[s] = "leaving") \/ (p = Reaper /\ phase[s] = "dead") THEN "none"
                          ELSE phase[s]
  BY WriteDbIs
<1>4. UserTypes'
  <2>1. raced' \in BOOLEAN /\ behind' \in BOOLEAN /\ tell' \subseteq Session
    BY <1>1 DEF Held, UserTypes
  <2>2. index' \in 0 .. Len(rec') /\ writing' \in [Process -> {"idle", "ini", "db"}]
    BY <1>1, <1>2 DEF Held, UserTypes
  <2> QED
    BY <1>1, <1>2, <2>1, <2>2 DEF Held, UserTypes
<1>5. FlowInv'
  <2>1. \A s \in Session :
          /\ phase'[s] \in {"none", "pending", "dead"} => writing'[s] = "idle"
          /\ ini_dirty'[s] => writing'[s] = "ini"
          /\ phase'[s] \in {"pending", "listed", "old", "leaving"} \/ writing'[s] = "db" => ini' # Absent
    BY <1>1, <1>3, ProcessIs DEF Held, FlowInv
  <2>2. writing'[Reaper] # "ini" /\ ini' # Absent
    BY <1>1, <1>3, ProcessIs DEF Held, FlowInv
  <2>3. \A s \in Session : phase'[s] = "listed" => phase[s] = "listed"
    BY <1>3
  <2>4. \A s, t \in Listeners' : s = t
    BY <2>3 DEF Held, FlowInv, Listeners
  <2>5. \A q \in Process : Active(q)' => my'[q].no <= Len(rec')
    <3> SUFFICES ASSUME NEW q \in Process, Active(q)' PROVE my'[q].no <= Len(rec')
      OBVIOUS
    <3>1. CASE q = p
      BY <1>2, <1>3, <3>1
    <3>2. CASE q # p
      <4>1. Active(q)
        BY <1>3, <3>2 DEF Active, Plays
      <4>2. my'[q] = my[q] /\ my[q].no \in Nat /\ my[q].no <= Len(rec)
        BY <1>3, <3>2, <4>1 DEF Held, FlowInv, UserTypes, User_t
      <4> QED
        BY <1>2, <4>2
    <3> QED
      BY <3>1, <3>2
  <2> QED
    BY <2>1, <2>2, <2>4, <2>5 DEF FlowInv
<1> QED
  BY <1>4, <1>5
LEMMA LoginFlows == ASSUME Held, NEW s \in Session, Login(s) PROVE UserTypes' /\ FlowInv'
<1>1. /\ UNCHANGED <<ini, rec, index, tokens, tell, told, said, kicked, behind>> /\ Meets(s)
      /\ my' = [my EXCEPT ![s] = ReadUser] /\ ini_dirty' = [ini_dirty EXCEPT ![s] = TRUE]
      /\ phase' = [phase EXCEPT ![s] = "login"] /\ writing' = [writing EXCEPT ![s] = "ini"]
      /\ events' = events + 1
  BY DEF Login, Happens
<1>2. s \in Process /\ raced' \in BOOLEAN /\ mixed' \in BOOLEAN
  BY <1>1, ProcessIs, MeetsIs DEF Held
<1>3. ReadUser \in User_t /\ ReadUser.no = index /\ index <= Len(rec)
  BY ReadUserIs DEF Held, UserTypes
<1>4. UserTypes'
  BY <1>1, <1>2, <1>3 DEF Held, UserTypes, Phase
<1>5. FlowInv'
  <2>1. \A t \in Session :
          /\ phase'[t] \in {"none", "pending", "dead"} => writing'[t] = "idle"
          /\ ini_dirty'[t] => writing'[t] = "ini"
          /\ phase'[t] \in {"pending", "listed", "old", "leaving"} \/ writing'[t] = "db" => ini' # Absent
    BY <1>1, <1>2 DEF Held, UserTypes, FlowInv
  <2>2. /\ writing'[Reaper] # "ini"
        /\ writing'[Admin] # "idle" \/ writing'[Reaper] # "idle" \/ index' # 0 => ini' # Absent
    BY <1>1, ProcessIs DEF Held, UserTypes, FlowInv
  <2>3. \A t, u \in Listeners' : t = u
    BY <1>1 DEF Held, UserTypes, FlowInv, Listeners
  <2>4. \A p \in Process : Active(p)' => my'[p].no <= Len(rec')
    BY <1>1, <1>2, <1>3 DEF Held, UserTypes, FlowInv, Active, Plays
  <2> QED
    BY <2>1, <2>2, <2>3, <2>4 DEF FlowInv
<1> QED
  BY <1>4, <1>5

LEMMA ListedFlows == ASSUME Held, NEW s \in Session, Listed(s) PROVE UserTypes' /\ FlowInv'
<1>1. /\ UNCHANGED <<ini, rec, index, my, ini_dirty, writing, tokens, tell, told, said, kicked, raced, mixed,
                     behind, events>>
      /\ phase[s] = "pending" /\ writing[s] = "idle"
      /\ phase' = [t \in Session |-> IF t = s THEN "listed" ELSE IF phase[t] = "listed" THEN "old" ELSE phase[t]]
  BY DEF Listed
<1>2. \A t \in Session :
        phase'[t] = IF t = s THEN "listed" ELSE IF phase[t] = "listed" THEN "old" ELSE phase[t]
  BY <1>1
<1>3. phase' \in [Session -> Phase]
  BY <1>1 DEF Held, UserTypes, Phase
<1>4. UserTypes'
  BY <1>1, <1>3 DEF Held, UserTypes
<1>5. FlowInv'
  <2>1. \A t \in Session :
          /\ phase'[t] \in {"none", "pending", "dead"} => writing'[t] = "idle"
          /\ ini_dirty'[t] => writing'[t] = "ini"
          /\ phase'[t] \in {"pending", "listed", "old", "leaving"} \/ writing'[t] = "db" => ini' # Absent
    BY <1>1, <1>2 DEF Held, FlowInv
  <2>2. /\ writing'[Reaper] # "ini"
        /\ writing'[Admin] # "idle" \/ writing'[Reaper] # "idle" \/ index' # 0 => ini' # Absent
    BY <1>1 DEF Held, FlowInv
  <2>3. \A t, u \in Listeners' : t = u
    BY <1>2 DEF Listeners
  <2>4. \A p \in Process : Active(p)' => my'[p].no <= Len(rec')
    BY <1>1, <1>2 DEF Held, FlowInv, Active, Plays
  <2> QED
    BY <2>1, <2>2, <2>3, <2>4 DEF FlowInv
<1> QED
  BY <1>4, <1>5

\* A session that leaves, with or without its file changed
LEMMA LeaveFlows ==
  ASSUME Held, NEW s \in Session, NEW r \in User_t, NEW dirty \in BOOLEAN, Leave(s, r, dirty),
         r.no = my[s].no, phase[s] \in {"pending", "listed", "old"}, writing[s] = "idle",
         UNCHANGED <<ini, rec, index, tell, said, behind, events>>,
         ini_dirty' \in [Session -> BOOLEAN],
         \A t \in Session \ {s} : ini_dirty'[t] = ini_dirty[t],
         kicked' \in Nat, tokens' \in [Session -> Seq(Token)],
         told' \in [group : {AdminGroup, UserGroup}, banned : BOOLEAN, title : Nat, reach : Int]
  PROVE  UserTypes' /\ FlowInv'
<1>1. /\ my' \in [Process -> User_t] /\ phase' \in [Session -> Phase]
      /\ writing' \in [Process -> {"idle", "ini", "db"}]
      /\ my'[s].no = r.no /\ phase'[s] = "leaving" /\ writing'[s] = "ini"
      /\ \A p \in Process : p # s => my'[p] = my[p] /\ writing'[p] = writing[p]
      /\ \A t \in Session : t # s => phase'[t] = phase[t]
      /\ Meets(s)
  BY LeaveIs DEF Held
<1>2. s \in Process /\ raced' \in BOOLEAN /\ mixed' \in BOOLEAN
  BY <1>1, ProcessIs, MeetsIs DEF Held
<1>3. UserTypes'
  BY <1>1, <1>2 DEF Held, UserTypes
<1>4. FlowInv'
  <2>1. \A t \in Session :
          /\ phase'[t] \in {"none", "pending", "dead"} => writing'[t] = "idle"
          /\ ini_dirty'[t] => writing'[t] = "ini"
          /\ phase'[t] \in {"pending", "listed", "old", "leaving"} \/ writing'[t] = "db" => ini' # Absent
    BY <1>1, ProcessIs DEF Held, FlowInv
  <2>2. /\ writing'[Reaper] # "ini"
        /\ writing'[Admin] # "idle" \/ writing'[Reaper] # "idle" \/ index' # 0 => ini' # Absent
    BY <1>1, ProcessIs DEF Held, FlowInv
  <2>3. \A t, u \in Listeners' : t = u
    <3>1. \A t \in Session : phase'[t] = "listed" => phase[t] = "listed"
      BY <1>1
    <3> QED
      BY <3>1 DEF Held, FlowInv, Listeners
  <2>4. \A p \in Process : Active(p)' => my'[p].no <= Len(rec')
    <3>1. my[s].no <= Len(rec)
      BY <1>2 DEF Held, FlowInv, Active, Plays
    <3> QED
      BY <1>1, <1>2, <3>1 DEF Held, FlowInv, Active, Plays
  <2> QED
    BY <2>1, <2>2, <2>3, <2>4 DEF FlowInv
<1> QED
  BY <1>3, <1>4

LEMMA QuitFlows == ASSUME Held, NEW s \in Session, Quit(s) PROVE UserTypes' /\ FlowInv'
<1>1. /\ UNCHANGED <<ini, rec, index, ini_dirty, tokens, tell, told, said, kicked, behind, events>>
      /\ phase[s] \in {"pending", "listed", "old"} /\ writing[s] = "idle" /\ Leave(s, my[s], ini_dirty[s])
  BY DEF Quit
<1>2. my[s] \in User_t /\ ini_dirty[s] \in BOOLEAN
  BY ProcessIs DEF Held, UserTypes
<1> QED
  BY <1>1, <1>2, LeaveFlows DEF Held, UserTypes

LEMMA SayFlows == ASSUME Held, NEW s \in Session, Say(s) PROVE UserTypes' /\ FlowInv'
<1>1. /\ UNCHANGED <<ini, rec, index, ini_dirty, writing, phase, tokens, tell, told, kicked, raced, mixed, behind>>
      /\ my' = [my EXCEPT ![s].messages = @ + 1] /\ said' = said + 1 /\ events' = events + 1
  BY DEF Say, Happens
<1>2. s \in Process /\ my[s] \in User_t
  BY ProcessIs DEF Held, UserTypes
<1>3. /\ [my[s] EXCEPT !.messages = @ + 1] \in User_t
      /\ [my[s] EXCEPT !.messages = @ + 1].no = my[s].no
  BY <1>2 DEF User_t
<1>4. /\ my' \in [Process -> User_t] /\ \A p \in Process : my'[p].no = my[p].no
  BY <1>1, <1>2, <1>3 DEF Held, UserTypes
<1>5. UserTypes'
  BY <1>1, <1>4 DEF Held, UserTypes
<1>6. FlowInv'
  BY <1>1, <1>4 DEF Held, FlowInv, Listeners, Active, Plays
<1> QED
  BY <1>5, <1>6

LEMMA TickFlows == ASSUME Held, NEW s \in Session, Tick(s) PROVE UserTypes' /\ FlowInv'
<1>1. /\ UNCHANGED <<ini, my, ini_dirty, writing, phase, tokens, tell, told, said, kicked, raced, behind, events>>
      /\ mixed' = (mixed \/ \E p \in Process : writing[p] # "idle") /\ Put(my[s])
      /\ phase[s] \in {"listed", "old"}
  BY DEF Tick
<1>2. my[s] \in User_t /\ my[s].no <= Len(rec) /\ ini # Absent
  BY <1>1, ProcessIs DEF Held, UserTypes, FlowInv, Active, Plays
<1>3. /\ rec' \in Seq(Counts_t) /\ Len(rec') >= Len(rec) /\ Len(rec') \in Nat /\ Len(rec) \in Nat
      /\ index' \in 1 .. Len(rec')
  <2>1. rec \in Seq(Counts_t)
    BY DEF Held, UserTypes
  <2>2. /\ rec' \in Seq(Counts_t) /\ Len(rec') >= Len(rec) /\ Len(rec') \in Nat
        /\ index' \in 1 .. Len(rec')
    BY <1>1, <1>2, PutIs DEF Held
  <2> QED
    BY <2>1, <2>2
<1>4. UserTypes'
  BY <1>1, <1>3 DEF Held, UserTypes
<1>5. FlowInv'
  <2>1. \A p \in Process : Active(p)' => my'[p].no <= Len(rec')
    <3> SUFFICES ASSUME NEW p \in Process, Active(p)' PROVE my'[p].no <= Len(rec')
      OBVIOUS
    <3>1. Active(p)
      BY <1>1 DEF Active, Plays
    <3>2. my'[p] = my[p] /\ my[p].no \in Nat /\ my[p].no <= Len(rec)
      BY <1>1, <3>1 DEF Held, UserTypes, User_t, FlowInv
    <3> QED
      BY <1>3, <3>2
  <2> QED
    BY <1>1, <1>2, <2>1 DEF Held, FlowInv, Listeners
<1> QED
  BY <1>4, <1>5
\* A session that changes a setting of its user
LEMMA ChangeFlows ==
  ASSUME Held, NEW s \in Session, NEW field, NEW value, Change_t(field, value), Change(s, field, value),
         phase[s] = "listed", writing[s] = "idle",
         UNCHANGED <<ini, rec, index, phase, tell, said, kicked, behind>>,
         events' \in Nat, tokens' \in [Session -> Seq(Token)]
  PROVE  UserTypes' /\ FlowInv'
<1>1. /\ my' \in [Process -> User_t] /\ writing' \in [Process -> {"idle", "ini", "db"}]
      /\ ini_dirty' \in [Session -> BOOLEAN]
      /\ told' \in [group : {AdminGroup, UserGroup}, banned : BOOLEAN, title : Nat, reach : Int]
      /\ my'[s].no = my[s].no /\ writing'[s] = "ini"
      /\ \A p \in Process : p # s => my'[p] = my[p] /\ writing'[p] = writing[p]
      /\ \A t \in Session : t # s => ini_dirty'[t] = ini_dirty[t]
      /\ Meets(s)
  BY ChangeIs DEF Held
<1>2. s \in Process /\ raced' \in BOOLEAN /\ mixed' \in BOOLEAN
  BY <1>1, ProcessIs, MeetsIs DEF Held
<1>3. UserTypes'
  BY <1>1, <1>2 DEF Held, UserTypes
<1>4. FlowInv'
  <2>1. \A t \in Session :
          /\ phase'[t] \in {"none", "pending", "dead"} => writing'[t] = "idle"
          /\ ini_dirty'[t] => writing'[t] = "ini"
          /\ phase'[t] \in {"pending", "listed", "old", "leaving"} \/ writing'[t] = "db" => ini' # Absent
    BY <1>1, ProcessIs DEF Held, FlowInv
  <2>2. /\ writing'[Reaper] # "ini"
        /\ writing'[Admin] # "idle" \/ writing'[Reaper] # "idle" \/ index' # 0 => ini' # Absent
    BY <1>1, ProcessIs DEF Held, FlowInv
  <2>3. \A t, u \in Listeners' : t = u
    BY DEF Held, FlowInv, Listeners
  <2>4. \A p \in Process : Active(p)' => my'[p].no <= Len(rec')
    <3>1. my[s].no <= Len(rec)
      BY <1>2 DEF Held, FlowInv, Active, Plays
    <3> QED
      BY <1>1, <1>2, <3>1 DEF Held, FlowInv, Active, Plays
  <2> QED
    BY <2>1, <2>2, <2>3, <2>4 DEF FlowInv
<1> QED
  BY <1>3, <1>4

LEMMA ReachdistFlows ==
  ASSUME Held, NEW s \in Session, NEW d \in {0, MapDefault}, Reachdist(s, d)
  PROVE  UserTypes' /\ FlowInv'
<1>1. /\ UNCHANGED <<ini, rec, index, phase, tokens, tell, said, kicked, behind>>
      /\ phase[s] = "listed" /\ writing[s] = "idle" /\ events' = events + 1 /\ Change(s, "reach", d)
  BY DEF Reachdist, Happens
<1>2. Change_t("reach", d)
  BY DEF Change_t, MapDefault
<1> QED
  BY <1>1, <1>2, ChangeFlows DEF Held, UserTypes

LEMMA SendFlows ==
  ASSUME Held, NEW s \in Session, NEW token \in {"kick", "ban", "title"}, Send(s, token)
  PROVE  UserTypes' /\ FlowInv'
<1>1. /\ UNCHANGED <<ini, rec, index, my, ini_dirty, writing, phase, tell, told, said, kicked, raced, mixed, behind>>
      /\ tokens' = [tokens EXCEPT ![s] = Append(@, token)] /\ events' = events + 1
  BY DEF Send, Happens
<1>2. tokens' \in [Session -> Seq(Token)]
  <2>1. tokens[s] \in Seq(Token) /\ token \in Token
    BY DEF Held, UserTypes, Token
  <2>2. Append(tokens[s], token) \in Seq(Token)
    BY <2>1
  <2> QED
    BY <1>1, <2>2 DEF Held, UserTypes
<1>3. UserTypes'
  BY <1>1, <1>2 DEF Held, UserTypes
<1>4. FlowInv'
  BY <1>1 DEF Held, FlowInv, Listeners, Active, Plays
<1> QED
  BY <1>3, <1>4

\* The commands that are left
LEMMA TailIs ==
  ASSUME Held, NEW s \in Session, tokens[s] # <<>>, tokens' = [tokens EXCEPT ![s] = Tail(@)]
  PROVE  tokens' \in [Session -> Seq(Token)] /\ Head(tokens[s]) \in Token
<1>1. tokens \in [Session -> Seq(Token)] /\ tokens[s] \in Seq(Token)
  BY DEF Held, UserTypes
<1>2. Tail(tokens[s]) \in Seq(Token) /\ Head(tokens[s]) \in Token
  BY <1>1
<1> QED
  BY <1>1, <1>2

\* process_ipc_cmd: what each command does
Reread(s) ==
  /\ my' = [my EXCEPT ![s] = ReadIni(my[s])] /\ ini_dirty' = [ini_dirty EXCEPT ![s] = FALSE]
  /\ UNCHANGED <<writing, phase, told, kicked, raced, mixed>>
Kicked(s) == [my[s] EXCEPT !.kicks = @ + 1]
BeKicked(s) ==
  /\ Leave(s, Kicked(s), ini_dirty[s]) /\ kicked' = kicked + 1 /\ UNCHANGED <<ini_dirty, told>>
BeBanned(s) ==
  /\ Leave(s, [Kicked(s) EXCEPT !.banned = TRUE], TRUE) /\ kicked' = kicked + 1
  /\ told' = [told EXCEPT !.banned = TRUE] /\ ini_dirty' = [ini_dirty EXCEPT ![s] = TRUE]

LEMMA ReceiveIs ==
  ASSUME NEW s \in Session, Receive(s)
  PROVE  /\ phase[s] = "listed" /\ writing[s] = "idle" /\ tokens[s] # <<>>
         /\ tokens' = [tokens EXCEPT ![s] = Tail(@)]
         /\ UNCHANGED <<ini, rec, index, tell, said, behind, events>>
         /\ \/ Head(tokens[s]) = "loaduser" /\ Reread(s)
            \/ Head(tokens[s]) = "title" /\ Change(s, "title", events) /\ UNCHANGED <<phase, kicked>>
            \/ Head(tokens[s]) = "kick" /\ BeKicked(s)
            \/ Head(tokens[s]) = "ban" /\ BeBanned(s)
BY Zenon DEF Receive, Reread, BeKicked, BeBanned, Kicked

LEMMA KickedIs ==
  ASSUME Held, NEW s \in Session
  PROVE  /\ my[s] \in User_t /\ Kicked(s) \in User_t /\ Kicked(s).no = my[s].no
         /\ [Kicked(s) EXCEPT !.banned = TRUE] \in User_t /\ [Kicked(s) EXCEPT !.banned = TRUE].no = my[s].no
<1>1. my[s] \in User_t
  BY ProcessIs DEF Held, UserTypes
<1>2. Kicked(s) \in User_t /\ Kicked(s).no = my[s].no
  BY <1>1 DEF User_t, Kicked
<1>3. /\ [Kicked(s) EXCEPT !.banned = TRUE] \in User_t
      /\ [Kicked(s) EXCEPT !.banned = TRUE].no = Kicked(s).no
  BY <1>2 DEF User_t
<1> QED
  BY <1>1, <1>2, <1>3

LEMMA ReceiveFlows == ASSUME Held, NEW s \in Session, Receive(s) PROVE UserTypes' /\ FlowInv'
<1>1. /\ phase[s] = "listed" /\ writing[s] = "idle" /\ UNCHANGED <<ini, rec, index, tell, said, behind, events>>
      /\ tokens' \in [Session -> Seq(Token)]
  BY ReceiveIs, TailIs
<1>2. CASE Reread(s)
  <2>1. /\ my' = [my EXCEPT ![s] = ReadIni(my[s])] /\ ini_dirty' = [ini_dirty EXCEPT ![s] = FALSE]
        /\ UNCHANGED <<writing, phase, told, kicked, raced, mixed>>
    BY <1>2 DEF Reread
  <2>2. ReadIni(my[s]) \in User_t /\ ReadIni(my[s]).no = my[s].no /\ s \in Process
    BY KickedIs, ReadIniIs, ProcessIs DEF Held, UserTypes
  <2>3. my' \in [Process -> User_t] /\ \A p \in Process : my'[p].no = my[p].no
    BY <2>1, <2>2 DEF Held, UserTypes
  <2>4. UserTypes'
    BY <1>1, <2>1, <2>3 DEF Held, UserTypes
  <2>5. \A t \in Session : ini_dirty'[t] => ini_dirty[t]
    BY <2>1 DEF Held, UserTypes
  <2>6. FlowInv'
    BY <1>1, <2>1, <2>3, <2>5 DEF Held, FlowInv, Listeners, Active, Plays
  <2> QED
    BY <2>4, <2>6
<1>3. CASE Change(s, "title", events) /\ UNCHANGED <<phase, kicked>>
  <2>1. Change_t("title", events)
    BY DEF Change_t, Held, UserTypes
  <2> QED
    BY <1>1, <1>3, <2>1, ChangeFlows DEF Held, UserTypes
<1>4. CASE BeKicked(s)
  <2>1. Leave(s, Kicked(s), ini_dirty[s]) /\ kicked' = kicked + 1 /\ UNCHANGED <<ini_dirty, told>>
    BY <1>4 DEF BeKicked
  <2>2. Kicked(s) \in User_t /\ Kicked(s).no = my[s].no /\ ini_dirty[s] \in BOOLEAN
    BY KickedIs DEF Held, UserTypes
  <2>3. /\ kicked' \in Nat /\ ini_dirty' \in [Session -> BOOLEAN]
        /\ told' \in [group : {AdminGroup, UserGroup}, banned : BOOLEAN, title : Nat, reach : Int]
    BY <2>1 DEF Held, UserTypes
  <2> QED
    BY <1>1, <2>1, <2>2, <2>3, LeaveFlows DEF Held
<1>5. CASE BeBanned(s)
  <2>1. /\ Leave(s, [Kicked(s) EXCEPT !.banned = TRUE], TRUE) /\ kicked' = kicked + 1
        /\ told' = [told EXCEPT !.banned = TRUE] /\ ini_dirty' = [ini_dirty EXCEPT ![s] = TRUE]
    BY <1>5 DEF BeBanned
  <2>2. /\ [Kicked(s) EXCEPT !.banned = TRUE] \in User_t /\ [Kicked(s) EXCEPT !.banned = TRUE].no = my[s].no
    BY KickedIs
  <2>3. /\ kicked' \in Nat /\ ini_dirty' \in [Session -> BOOLEAN]
        /\ \A t \in Session \ {s} : ini_dirty'[t] = ini_dirty[t]
    BY <2>1 DEF Held, UserTypes
  <2>4. told' \in [group : {AdminGroup, UserGroup}, banned : BOOLEAN, title : Nat, reach : Int]
    BY <2>1 DEF Held, UserTypes
  <2> QED
    BY <1>1, <2>1, <2>2, <2>3, <2>4, LeaveFlows DEF Held
<1> QED
  BY <1>2, <1>3, <1>4, <1>5, ReceiveIs

\* Where a session is that was killed
LEMMA DieIs ==
  ASSUME UserTypes, NEW s \in Session, SessionDies(s)
  PROVE  /\ phase' \in [Session -> Phase] /\ phase'[s] \in {"dead", "none"}
         /\ phase'[s] = "dead" => phase[s] \in {"listed", "old", "leaving"}
         /\ \A t \in Session \ {s} : phase'[t] = phase[t]
<1>1. PICK t \in CASE phase[s] = "listed" -> {"dead"}
                  [] phase[s] \in {"old", "leaving"} -> {"dead", "none"}
                  [] OTHER -> {"none"} : phase' = [phase EXCEPT ![s] = t]
  BY DEF SessionDies
<1>2. t \in {"dead", "none"} /\ (t = "dead" => phase[s] \in {"listed", "old", "leaving"})
  <2>1. CASE phase[s] = "listed"
    BY <1>1, <2>1
  <2>2. CASE phase[s] \in {"old", "leaving"}
    BY <1>1, <2>2
  <2>3. CASE phase[s] # "listed" /\ phase[s] \notin {"old", "leaving"}
    BY <1>1, <2>3
  <2> QED
    BY <2>1, <2>2, <2>3
<1> QED
  BY <1>1, <1>2 DEF UserTypes, Phase

LEMMA DieFlows == ASSUME Held, NEW s \in Session, SessionDies(s) PROVE UserTypes' /\ FlowInv'
<1>1. /\ UNCHANGED <<ini, rec, index, my, tell, told, mixed>> /\ events' = events + 1
      /\ writing' = [writing EXCEPT ![s] = "idle"] /\ tokens' = [tokens EXCEPT ![s] = <<>>]
      /\ ini_dirty' = [ini_dirty EXCEPT ![s] = FALSE]
      /\ raced' = (raced \/ writing[s] = "ini") /\ behind' = TRUE
      /\ said' = ReadUser.messages /\ kicked' = ReadUser.kicks
      /\ Plays(s)
  BY DEF SessionDies, Happens
<1>2. /\ phase' \in [Session -> Phase] /\ phase'[s] \in {"dead", "none"}
      /\ \A t \in Session \ {s} : phase'[t] = phase[t]
  BY DieIs DEF Held
<1>3. ReadUser \in User_t /\ ReadUser.messages \in Nat /\ ReadUser.kicks \in Nat
  BY ReadUserIs DEF Held, User_t
<1>4. UserTypes'
  <2>1. raced' \in BOOLEAN /\ behind' \in BOOLEAN
    BY <1>1 DEF Held, UserTypes
  <2>2. writing' \in [Process -> {"idle", "ini", "db"}] /\ ini_dirty' \in [Session -> BOOLEAN]
    BY <1>1 DEF Held, UserTypes
  <2>4. tokens' \in [Session -> Seq(Token)]
    <3>1. <<>> \in Seq(Token) /\ tokens \in [Session -> Seq(Token)]
      BY DEF Held, UserTypes
    <3> QED
      BY <1>1, <3>1
  <2>3. said' \in Nat /\ kicked' \in Nat /\ events' \in Nat
    BY <1>1, <1>3 DEF Held, UserTypes
  <2> QED
    BY <1>1, <1>2, <2>1, <2>2, <2>3, <2>4 DEF Held, UserTypes
<1>5. /\ writing'[s] = "idle" /\ ~ini_dirty'[s]
      /\ \A p \in Process : p # s => writing'[p] = writing[p]
      /\ \A t \in Session : t # s => ini_dirty'[t] = ini_dirty[t]
  BY <1>1, ProcessIs DEF Held, UserTypes
<1>6. FlowInv'
  <2>1. \A t \in Session :
          /\ phase'[t] \in {"none", "pending", "dead"} => writing'[t] = "idle"
          /\ ini_dirty'[t] => writing'[t] = "ini"
          /\ phase'[t] \in {"pending", "listed", "old", "leaving"} \/ writing'[t] = "db" => ini' # Absent
    BY <1>1, <1>2, <1>5, ProcessIs DEF Held, FlowInv
  <2>2. /\ writing'[Reaper] # "ini"
        /\ writing'[Admin] # "idle" \/ writing'[Reaper] # "idle" \/ index' # 0 => ini' # Absent
    BY <1>1, <1>5, ProcessIs DEF Held, FlowInv
  <2>3. \A t \in Session : phase'[t] = "listed" => phase[t] = "listed"
    BY <1>2
  <2>4. \A t, u \in Listeners' : t = u
    BY <2>3 DEF Held, FlowInv, Listeners
  <2>5. \A p \in Process : Active(p)' => my'[p].no <= Len(rec')
    BY <1>1, <1>2, <1>5 DEF Held, FlowInv, Active, Plays
  <2> QED
    BY <2>1, <2>2, <2>4, <2>5 DEF FlowInv
<1> QED
  BY <1>4, <1>6
\* delete_session_id: the listener has the counts of the record and a kick, or nothing to do.
ReapsRecord ==
  /\ my' = [my EXCEPT ![Reaper] = [NewUser EXCEPT !.no = index,
                      !.messages = rec[index].messages, !.kicks = rec[index].kicks + 1]]
  /\ writing' = [writing EXCEPT ![Reaper] = "db"] /\ kicked' = kicked + 1 /\ UNCHANGED phase /\ Meets(Reaper)
ReapsNone(s) == phase' = [phase EXCEPT ![s] = "none"] /\ UNCHANGED <<my, writing, kicked, raced, mixed>>

LEMMA ReapIs ==
  ASSUME NEW s \in Session, CountKick(s)
  PROVE  /\ phase[s] = "dead" /\ writing[Reaper] = "idle"
         /\ (Found /\ ReapsRecord) \/ (~Found /\ ReapsNone(s))
         /\ UNCHANGED <<ini, rec, index, ini_dirty, tokens, tell, told, said, behind, events>>
BY Zenon DEF CountKick, ReapsRecord, ReapsNone

LEMMA ReapsRecordIs ==
  ASSUME Held, Found, ReapsRecord
  PROVE  /\ my' \in [Process -> User_t] /\ my'[Reaper].no = index
         /\ my'[Reaper].messages = rec[index].messages /\ my'[Reaper].kicks = rec[index].kicks + 1
         /\ writing' \in [Process -> {"idle", "ini", "db"}] /\ writing'[Reaper] = "db"
         /\ \A p \in Process : p # Reaper => my'[p] = my[p] /\ writing'[p] = writing[p]
         /\ kicked' = kicked + 1 /\ phase' = phase /\ Meets(Reaper)
         /\ index \in 1 .. Len(rec) /\ rec[index] \in Counts_t
<1> DEFINE r == [NewUser EXCEPT !.no = index, !.messages = rec[index].messages, !.kicks = rec[index].kicks + 1]
<1>1. index \in 1 .. Len(rec) /\ rec[index] \in Counts_t /\ index \in Nat
  BY DEF Held, UserTypes, Found
<1>2. rec[index].messages \in Nat /\ rec[index].kicks \in Nat /\ NewUser \in User_t
  BY <1>1, NewUserType DEF Counts_t
<1>3. r \in User_t /\ r.no = index /\ r.messages = rec[index].messages /\ r.kicks = rec[index].kicks + 1
  <2>1. PICK m \in Nat, k \in Nat : m = rec[index].messages /\ k = rec[index].kicks + 1
    <3>1. rec[index].kicks + 1 \in Nat
      BY <1>2
    <3> QED
      BY <1>2, <3>1, Zenon
  <2>2. r = [NewUser EXCEPT !.no = index, !.messages = m, !.kicks = k]
    BY <2>1
  <2> HIDE DEF r
  <2>3. r \in User_t /\ r.no = index /\ r.messages = m /\ r.kicks = k
    BY <1>1, <1>2, <2>2 DEF User_t
  <2> QED
    BY <2>1, <2>3
<1>4. /\ my' = [my EXCEPT ![Reaper] = r] /\ writing' = [writing EXCEPT ![Reaper] = "db"]
      /\ kicked' = kicked + 1 /\ phase' = phase /\ Meets(Reaper)
  BY DEF ReapsRecord
<1> HIDE DEF r
<1>5. Reaper \in Process /\ my \in [Process -> User_t] /\ writing \in [Process -> {"idle", "ini", "db"}]
  BY ProcessIs DEF Held, UserTypes
<1> QED
  BY <1>1, <1>3, <1>4, <1>5

LEMMA ReapFlows == ASSUME Held, NEW s \in Session, CountKick(s) PROVE UserTypes' /\ FlowInv'
<1>1. /\ UNCHANGED <<ini, rec, index, ini_dirty, tokens, tell, told, said, behind, events>>
      /\ phase[s] = "dead"
  BY ReapIs
<1>2. CASE Found /\ ReapsRecord
  <2>1. /\ my' \in [Process -> User_t] /\ my'[Reaper].no = index
        /\ writing' \in [Process -> {"idle", "ini", "db"}] /\ writing'[Reaper] = "db"
        /\ \A p \in Process : p # Reaper => my'[p] = my[p] /\ writing'[p] = writing[p]
        /\ kicked' = kicked + 1 /\ phase' = phase /\ Meets(Reaper)
        /\ index \in 1 .. Len(rec)
    BY <1>2, ReapsRecordIs
  <2>2. raced' \in BOOLEAN /\ mixed' \in BOOLEAN /\ Reaper \in Process
    BY <2>1, ProcessIs, MeetsIs DEF Held
  <2>3. UserTypes'
    BY <1>1, <2>1, <2>2 DEF Held, UserTypes
  <2>4. ini # Absent
    BY <2>1 DEF Held, FlowInv
  <2>5. FlowInv'
    BY <1>1, <2>1, <2>2, <2>4, ProcessIs DEF Held, FlowInv, Listeners, Active, Plays
  <2> QED
    BY <2>3, <2>5
<1>3. CASE ReapsNone(s)
  <2>1. phase' = [phase EXCEPT ![s] = "none"] /\ UNCHANGED <<my, writing, kicked, raced, mixed>>
    BY <1>3 DEF ReapsNone
  <2>2. phase' \in [Session -> Phase] /\ phase'[s] = "none" /\ \A t \in Session \ {s} : phase'[t] = phase[t]
    BY <2>1 DEF Held, UserTypes, Phase
  <2>3. UserTypes'
    BY <1>1, <2>1, <2>2 DEF Held, UserTypes
  <2>4. \A t \in Session : phase'[t] = "listed" => phase[t] = "listed"
    BY <2>2
  <2>5. \A t, u \in Listeners' : t = u
    BY <2>4 DEF Held, FlowInv, Listeners
  <2>6. \A p \in Process : Active(p)' => Active(p)
    BY <1>1, <2>1, <2>2 DEF Active, Plays
  <2>7. FlowInv'
    BY <1>1, <2>1, <2>2, <2>5, <2>6 DEF Held, FlowInv
  <2> QED
    BY <2>3, <2>7
<1> QED
  BY <1>2, <1>3, ReapIs

\* An administrator's command
LEMMA AmendFlows ==
  ASSUME Held, NEW r \in User_t, NEW who \in SUBSET Session, Amend(r, who), r.no = index
  PROVE  UserTypes' /\ FlowInv'
<1>1. UNCHANGED <<ini, rec, index, ini_dirty, phase, tokens, said, kicked, behind>>
  BY DEF Amend
<1>2. /\ my' \in [Process -> User_t] /\ writing' \in [Process -> {"idle", "ini", "db"}]
      /\ told' \in [group : {AdminGroup, UserGroup}, banned : BOOLEAN, title : Nat, reach : Int]
      /\ my'[Admin] = r /\ writing'[Admin] = "ini"
      /\ \A p \in Process : p # Admin => my'[p] = my[p] /\ writing'[p] = writing[p]
      /\ tell' = who /\ index # 0 /\ events' = events + 1 /\ Meets(Admin)
  BY AmendIs DEF Held
<1>3. Admin \in Process /\ raced' \in BOOLEAN /\ mixed' \in BOOLEAN
  BY <1>2, ProcessIs, MeetsIs DEF Held
<1>4. UserTypes'
  BY <1>1, <1>2, <1>3 DEF Held, UserTypes
<1>5. FlowInv'
  <2>1. ini # Absent /\ index <= Len(rec)
    BY <1>2 DEF Held, UserTypes, FlowInv
  <2>2. \A p \in Process : Active(p)' => my'[p].no <= Len(rec')
    BY <1>1, <1>2, <2>1 DEF Held, FlowInv, Active, Plays
  <2> QED
    BY <1>1, <1>2, <2>1, <2>2, ProcessIs DEF Held, FlowInv, Listeners
<1> QED
  BY <1>4, <1>5

\* What each of them writes
LEMMA BanOfflineIs ==
  ASSUME Held, BanOffline
  PROVE  \E r \in User_t :
           /\ Listeners = {} /\ Amend(r, {}) /\ r.no = index /\ r.group = ReadUser.group /\ r.banned
           /\ r.title = ReadUser.title /\ r.reach = ReadUser.reach
           /\ r.messages = ReadUser.messages /\ r.kicks = ReadUser.kicks
<1> DEFINE r == [ReadUser EXCEPT !.banned = TRUE]
<1>1. ReadUser \in User_t /\ ReadUser.no = index
  BY ReadUserIs DEF Held
<1>2. Listeners = {} /\ Amend(r, {})
  BY DEF BanOffline
<1>3. /\ r \in User_t /\ r.no = ReadUser.no /\ r.group = ReadUser.group /\ r.banned
      /\ r.title = ReadUser.title /\ r.reach = ReadUser.reach
      /\ r.messages = ReadUser.messages /\ r.kicks = ReadUser.kicks
  BY <1>1 DEF User_t
<1> QED
  <2> HIDE DEF r
  <2> QED
    BY <1>1, <1>2, <1>3

LEMMA UnbanIs ==
  ASSUME Held, Unban
  PROVE  \E r \in User_t :
           /\ ReadUser.banned /\ Amend(r, {}) /\ r.no = index /\ ~r.banned
           /\ r.title = ReadUser.title /\ r.reach = ReadUser.reach
           /\ r.messages = ReadUser.messages /\ r.kicks = ReadUser.kicks
<1> DEFINE g == IF ReadUser.group <= 0 THEN UserGroup ELSE ReadUser.group
           r == [ReadUser EXCEPT !.banned = FALSE, !.group = IF @ <= 0 THEN UserGroup ELSE @]
<1>1. ReadUser \in User_t /\ ReadUser.no = index
  BY ReadUserIs DEF Held
<1>2. ReadUser.banned /\ Amend(r, {})
  BY DEF Unban
<1>3. g \in {AdminGroup, UserGroup} /\ r = [ReadUser EXCEPT !.banned = FALSE, !.group = g]
  BY <1>1 DEF User_t
<1>4. /\ r \in User_t /\ r.no = ReadUser.no /\ ~r.banned
      /\ r.title = ReadUser.title /\ r.reach = ReadUser.reach
      /\ r.messages = ReadUser.messages /\ r.kicks = ReadUser.kicks
  <2> HIDE DEF g, r
  <2> QED
    BY <1>1, <1>3 DEF User_t
<1> QED
  <2> HIDE DEF r
  <2> QED
    BY <1>1, <1>2, <1>4

LEMMA SetpermIs ==
  ASSUME Held, NEW g \in {AdminGroup, UserGroup}, Setperm(g)
  PROVE  \E r \in User_t :
           /\ Amend(r, Listeners) /\ r.no = index /\ r.banned = ReadUser.banned
           /\ r.title = ReadUser.title /\ r.reach = ReadUser.reach
           /\ r.messages = ReadUser.messages /\ r.kicks = ReadUser.kicks
<1> DEFINE r == [ReadUser EXCEPT !.group = g]
<1>1. ReadUser \in User_t /\ ReadUser.no = index
  BY ReadUserIs DEF Held
<1>2. Amend(r, Listeners)
  BY DEF Setperm
<1>3. /\ r \in User_t /\ r.no = ReadUser.no /\ r.banned = ReadUser.banned
      /\ r.title = ReadUser.title /\ r.reach = ReadUser.reach
      /\ r.messages = ReadUser.messages /\ r.kicks = ReadUser.kicks
  BY <1>1 DEF User_t
<1> QED
  <2> HIDE DEF r
  <2> QED
    BY <1>1, <1>2, <1>3

\* rebuild_user_database
LEMMA RebuildIs ==
  ASSUME Held, Rebuild
  PROVE  /\ Found /\ ini \in File_t /\ NoneRuns /\ writing[Admin] = "idle" /\ writing[Reaper] = "idle"
         /\ rec' \in Seq(Counts_t) /\ index' \in 0 .. Len(rec') /\ Len(rec') \in Nat
         /\ index' # 0 => rec'[index'] = [messages |-> ini.messages, kicks |-> ini.kicks]
         /\ said' = (IF behind THEN ini.messages ELSE said) /\ kicked' = (IF behind THEN ini.kicks ELSE kicked)
         /\ events' = events + 1
         /\ UNCHANGED <<ini, my, ini_dirty, writing, phase, tokens, tell, told, raced, mixed, behind>>
<1> DEFINE counts == [messages |-> ini.messages, kicks |-> ini.kicks]
           no == IF ini = Absent THEN 0 ELSE ini.no
<1>1. /\ Found /\ NoneRuns /\ writing[Admin] = "idle" /\ writing[Reaper] = "idle"
      /\ said' = (IF behind THEN ini.messages ELSE said) /\ kicked' = (IF behind THEN ini.kicks ELSE kicked)
      /\ events' = events + 1
      /\ UNCHANGED <<ini, my, ini_dirty, writing, phase, tokens, tell, told, raced, mixed, behind>>
      /\ rec' = (IF no = 0 THEN <<>> ELSE [n \in 1 .. no |-> counts]) /\ index' = no
  BY DEF Rebuild, NoneRuns, Happens
<1>2. ini \in File_t
  BY <1>1 DEF Held, UserTypes, FlowInv, Found
<1>3. counts \in Counts_t /\ no \in Nat
  BY <1>2 DEF File_t, Counts_t
<1> HIDE DEF counts, no
<1>4. CASE no = 0
  BY <1>1, <1>2, <1>4
<1>5. CASE no # 0
  <2>1. rec' = [n \in 1 .. no |-> counts]
    BY <1>1, <1>5
  <2>2. rec' \in Seq(Counts_t) /\ Len(rec') = no /\ rec'[no] = counts
    BY <1>3, <1>5, <2>1
  <2> QED
    BY <1>1, <1>2, <1>3, <2>2 DEF counts
<1> QED
  BY <1>4, <1>5

LEMMA AdminFlows ==
  ASSUME Held, BanOffline \/ Unban \/ \E g \in {AdminGroup, UserGroup} : Setperm(g)
  PROVE  UserTypes' /\ FlowInv'
<1>1. \E r \in User_t, who \in SUBSET Session : Amend(r, who) /\ r.no = index
  <2>1. {} \in SUBSET Session /\ Listeners \in SUBSET Session
    BY DEF Listeners
  <2>2. CASE BanOffline
    BY <2>1, <2>2, BanOfflineIs
  <2>3. CASE Unban
    BY <2>1, <2>3, UnbanIs
  <2>4. CASE \E g \in {AdminGroup, UserGroup} : Setperm(g)
    BY <2>1, <2>4, SetpermIs
  <2> QED
    BY <2>2, <2>3, <2>4
<1> QED
  BY <1>1, AmendFlows

LEMMA RebuildFlows == ASSUME Held, Rebuild PROVE UserTypes' /\ FlowInv'
<1>1. /\ ini \in File_t /\ NoneRuns /\ writing[Admin] = "idle" /\ writing[Reaper] = "idle"
      /\ rec' \in Seq(Counts_t) /\ index' \in 0 .. Len(rec')
      /\ said' = (IF behind THEN ini.messages ELSE said) /\ kicked' = (IF behind THEN ini.kicks ELSE kicked)
      /\ events' = events + 1
      /\ UNCHANGED <<ini, my, ini_dirty, writing, phase, tokens, tell, told, raced, mixed, behind>>
  BY RebuildIs
<1>2. said' \in Nat /\ kicked' \in Nat
  BY <1>1 DEF Held, UserTypes, File_t
<1>3. UserTypes'
  BY <1>1, <1>2 DEF Held, UserTypes
<1>4. ini # Absent
  BY <1>1, AbsentIsNone
<1>5. \A p \in Process : ~Active(p)'
  <2>1. \A s \in Session : phase[s] \in {"none", "dead"}
    BY <1>1 DEF NoneRuns, Plays
  <2>2. \A s \in Session : writing[s] = "idle"
    BY <2>1 DEF Held, FlowInv
  <2> QED
    BY <1>1, <2>1, <2>2, ProcessIs DEF Held, Active, Plays
<1>6. FlowInv'
  BY <1>1, <1>4, <1>5 DEF Held, FlowInv, Listeners
<1> QED
  BY <1>3, <1>6
-----------------------------------------------------------------------------
(* Who has what was told *)

NoBanAhead(q) == \A i, j \in DOMAIN q : i < j /\ q[i] = "ban" => q[j] # "loaduser"

ToldBusy == \A p, q \in Process : Busy(p) /\ Busy(q) => p = q
ToldMy == \A p \in Process \ {Reaper} : Busy(p) => Says(my[p])
ToldNew == ini = Absent => Says(NewUser)
ToldFile == ini # Absent /\ (\A p \in Process : writing[p] # "ini") => Says(LoadIni)
ToldPlay ==
  \A s \in Listeners :
    /\ ~told.banned /\ SaysRest(my[s])
    /\ my[s].group = told.group \/ "loaduser" \in ToSet(tokens[s]) \/ ToBeTold(s)
    /\ writing[s] # "ini" => SaysRest(LoadIni) /\ (LoadIni.group = told.group \/ ToBeTold(s))
ToldBan == \A s \in Session : NoBanAhead(tokens[s])

LEMMA ToldParts ==
  ToldInv <=> (~raced => ToldBusy /\ ToldMy /\ ToldNew /\ ToldFile /\ ToldPlay /\ ToldBan)
BY DEF ToldInv, ToldBusy, ToldMy, ToldNew, ToldFile, ToldPlay, ToldBan, NoBanAhead

LEMMA ToldPartsNext ==
  ToldInv' <=> (~raced' => ToldBusy' /\ ToldMy' /\ ToldNew' /\ ToldFile' /\ ToldPlay' /\ ToldBan')
BY DEF ToldInv, ToldBusy, ToldMy, ToldNew, ToldFile, ToldPlay, ToldBan, NoBanAhead

\* Two records that say the same
Same(r, v) == r.group = v.group /\ r.banned = v.banned /\ r.title = v.title /\ r.reach = v.reach

LEMMA BanAppend ==
  ASSUME NEW q \in Seq(Token), NEW token \in Token, NoBanAhead(q),
         token # "loaduser" \/ "ban" \notin ToSet(q)
  PROVE  NoBanAhead(Append(q, token))
<1> DEFINE z == Append(q, token)
<1>1. /\ Len(q) \in Nat /\ DOMAIN q = 1 .. Len(q) /\ DOMAIN z = 1 .. Len(q) + 1
      /\ \A i \in 1 .. Len(q) : z[i] = q[i]
      /\ z[Len(q) + 1] = token
  OBVIOUS
<1> HIDE DEF z
<1>2. SUFFICES ASSUME NEW i \in DOMAIN z, NEW j \in DOMAIN z, i < j, z[i] = "ban" PROVE z[j] # "loaduser"
  BY DEF NoBanAhead, z
<1>3. i \in DOMAIN q /\ q[i] = "ban"
  BY <1>1, <1>2
<1>4. "ban" \in ToSet(q)
  BY <1>3 DEF ToSet
<1>5. CASE j \in DOMAIN q
  BY <1>1, <1>2, <1>3, <1>5 DEF NoBanAhead
<1>6. CASE j = Len(q) + 1
  BY <1>1, <1>4, <1>6
<1> QED
  BY <1>1, <1>5, <1>6

LEMMA BanTail ==
  ASSUME NEW q \in Seq(Token), q # <<>>, NoBanAhead(q)
  PROVE  /\ NoBanAhead(Tail(q))
         /\ "loaduser" \in ToSet(q) => Head(q) = "loaduser" \/ "loaduser" \in ToSet(Tail(q))
         /\ Head(q) = "ban" => "loaduser" \notin ToSet(q)
<1>1. /\ Len(q) \in Nat \ {0} /\ DOMAIN q = 1 .. Len(q) /\ DOMAIN Tail(q) = 1 .. Len(q) - 1
      /\ \A i \in 1 .. Len(q) - 1 : Tail(q)[i] = q[i + 1]
      /\ Head(q) = q[1]
  OBVIOUS
<1>2. NoBanAhead(Tail(q))
  <2> SUFFICES ASSUME NEW i \in DOMAIN Tail(q), NEW j \in DOMAIN Tail(q), i < j, Tail(q)[i] = "ban"
               PROVE  Tail(q)[j] # "loaduser"
    BY DEF NoBanAhead
  <2>1. /\ i + 1 \in DOMAIN q /\ j + 1 \in DOMAIN q /\ i + 1 < j + 1
        /\ Tail(q)[i] = q[i + 1] /\ Tail(q)[j] = q[j + 1]
    BY <1>1
  <2> QED
    BY <2>1 DEF NoBanAhead
<1>3. ASSUME "loaduser" \in ToSet(q), Head(q) # "loaduser" PROVE "loaduser" \in ToSet(Tail(q))
  <2>1. PICK k \in DOMAIN q : q[k] = "loaduser"
    BY <1>3 DEF ToSet
  <2>2. k # 1 /\ k - 1 \in DOMAIN Tail(q) /\ Tail(q)[k - 1] = q[k]
    BY <1>1, <1>3, <2>1
  <2> QED
    BY <2>1, <2>2 DEF ToSet
<1>4. ASSUME Head(q) = "ban" PROVE "loaduser" \notin ToSet(q)
  <2> SUFFICES ASSUME NEW k \in DOMAIN q, q[k] = "loaduser" PROVE FALSE
    BY DEF ToSet
  <2>1. 1 \in DOMAIN q /\ q[1] = "ban" /\ 1 < k
    BY <1>1, <1>4
  <2> QED
    BY <2>1 DEF NoBanAhead
<1> QED
  BY <1>2, <1>3, <1>4

LEMMA AppendHas ==
  ASSUME NEW q \in Seq(Token), NEW token \in Token
  PROVE  ToSet(Append(q, token)) = ToSet(q) \cup {token}
<1>1. /\ Len(q) \in Nat /\ DOMAIN q = 1 .. Len(q) /\ DOMAIN Append(q, token) = 1 .. Len(q) + 1
      /\ \A i \in 1 .. Len(q) : Append(q, token)[i] = q[i]
      /\ Append(q, token)[Len(q) + 1] = token
  OBVIOUS
<1>2. DOMAIN Append(q, token) = DOMAIN q \cup {Len(q) + 1}
  BY <1>1
<1> QED
  BY <1>1, <1>2 DEF ToSet

\* A step that says nothing new and makes no new claim
LEMMA ToldFrame ==
  ASSUME Held, ToldInv, UNCHANGED <<ini, told>>, ~raced' => ~raced,
         \A p \in Process : Same(my'[p], my[p]),
         ~raced' => \A p \in Process : (Busy(p)' => Busy(p)) /\ (writing[p] = "ini" => writing'[p] = "ini"),
         \A s \in Session :
           /\ phase'[s] = "listed" =>
                /\ phase[s] = "listed"
                /\ "loaduser" \in ToSet(tokens[s]) => "loaduser" \in ToSet(tokens'[s])
                /\ ToBeTold(s) => ToBeTold(s)'
           /\ NoBanAhead(tokens[s]) => NoBanAhead(tokens'[s])
  PROVE  ToldInv'
<1>1. SUFFICES ASSUME ~raced' PROVE ToldBusy' /\ ToldMy' /\ ToldNew' /\ ToldFile' /\ ToldPlay' /\ ToldBan'
  BY ToldPartsNext
<1>2. ToldBusy /\ ToldMy /\ ToldNew /\ ToldFile /\ ToldPlay /\ ToldBan
  BY <1>1, ToldParts
<1>3. \A p \in Process : (Busy(p)' => Busy(p)) /\ (writing[p] = "ini" => writing'[p] = "ini")
  BY <1>1
<1>4. LoadIni' = LoadIni
  BY DEF LoadIni
<1>5. \A p \in Process : (Says(my[p]) => Says(my[p])') /\ (SaysRest(my[p]) => SaysRest(my[p])')
  BY DEF Says, SaysRest, Same
<1>6. (Says(LoadIni) => Says(LoadIni)') /\ (SaysRest(LoadIni) => SaysRest(LoadIni)')
  BY <1>4 DEF Says, SaysRest
<1>7. ToldBusy' /\ ToldMy'
  BY <1>2, <1>3, <1>5 DEF ToldBusy, ToldMy
<1>8. ToldNew' /\ ToldBan'
  BY <1>2 DEF ToldNew, ToldBan, Says, SaysRest, NewUser
<1>9. ToldFile'
  BY <1>2, <1>3, <1>6 DEF ToldFile
<1>10. ToldPlay'
  <2> SUFFICES ASSUME NEW s \in Session, phase'[s] = "listed"
               PROVE /\ ~told'.banned /\ SaysRest(my[s])'
                     /\ my'[s].group = told'.group \/ "loaduser" \in ToSet(tokens'[s]) \/ ToBeTold(s)'
                     /\ writing'[s] # "ini" => SaysRest(LoadIni)' /\ (LoadIni'.group = told'.group \/ ToBeTold(s)')
    BY DEF ToldPlay, Listeners
  <2>1. s \in Process
    BY ProcessIs DEF Held
  <2>2. /\ ~told.banned /\ SaysRest(my[s])
        /\ my[s].group = told.group \/ "loaduser" \in ToSet(tokens[s]) \/ ToBeTold(s)
        /\ writing[s] # "ini" => SaysRest(LoadIni) /\ (LoadIni.group = told.group \/ ToBeTold(s))
    BY <1>2 DEF ToldPlay, Listeners
  <2>3. my'[s].group = my[s].group
    BY <2>1 DEF Same
  <2> QED
    BY <1>3, <1>4, <1>5, <1>6, <2>1, <2>2, <2>3
<1> QED
  BY <1>7, <1>8, <1>9, <1>10
LEMMA SayTold == ASSUME Held, ToldInv, NEW s \in Session, Say(s) PROVE ToldInv'
<1>1. /\ UNCHANGED <<ini, rec, index, ini_dirty, writing, phase, tokens, tell, told, kicked, raced, mixed, behind>>
      /\ my' = [my EXCEPT ![s].messages = @ + 1]
  BY DEF Say
<1>2. \A p \in Process : Same(my'[p], my[p])
  <2>1. s \in Process /\ my[s] \in User_t /\ my \in [Process -> User_t]
    BY ProcessIs DEF Held, UserTypes
  <2>2. PICK m : my' = [my EXCEPT ![s] = [my[s] EXCEPT !.messages = m]]
    BY <1>1
  <2>3. Same([my[s] EXCEPT !.messages = m], my[s])
    BY <2>1 DEF User_t, Same
  <2>4. \A p \in Process : my'[p] = IF p = s THEN [my[s] EXCEPT !.messages = m] ELSE my[p]
    BY <2>1, <2>2
  <2> QED
    BY <2>3, <2>4 DEF Same
<1> QED
  BY <1>1, <1>2, ToldFrame DEF Busy, ToBeTold

LEMMA TickTold == ASSUME Held, ToldInv, NEW s \in Session, Tick(s) PROVE ToldInv'
<1>1. UNCHANGED <<ini, my, ini_dirty, writing, phase, tokens, tell, told, said, kicked, raced, behind, events>>
  BY DEF Tick
<1> QED
  BY <1>1, ToldFrame DEF Busy, ToBeTold, Same

LEMMA SendTold ==
  ASSUME Held, ToldInv, NEW s \in Session, NEW token \in {"kick", "ban", "title"}, Send(s, token)
  PROVE  ToldInv'
<1>1. /\ UNCHANGED <<ini, rec, index, my, ini_dirty, writing, phase, tell, told, said, kicked, raced, mixed, behind>>
      /\ tokens' = [tokens EXCEPT ![s] = Append(@, token)]
  BY DEF Send
<1>2. token \in Token /\ token # "loaduser" /\ \A t \in Session : tokens[t] \in Seq(Token)
  BY DEF Token, Held, UserTypes
<1>3. \A t \in Session : tokens'[t] = IF t = s THEN Append(tokens[s], token) ELSE tokens[t]
  BY <1>1 DEF Held, UserTypes
<1>4. \A t \in Session :
        /\ "loaduser" \in ToSet(tokens[t]) => "loaduser" \in ToSet(tokens'[t])
        /\ NoBanAhead(tokens[t]) => NoBanAhead(tokens'[t])
  BY <1>2, <1>3, AppendHas, BanAppend
<1> QED
  BY <1>1, <1>4, ToldFrame DEF Busy, ToBeTold, Same

LEMMA DieTold == ASSUME Held, ToldInv, NEW s \in Session, SessionDies(s) PROVE ToldInv'
<1>1. /\ UNCHANGED <<ini, rec, index, my, tell, told, mixed>>
      /\ writing' = [writing EXCEPT ![s] = "idle"] /\ tokens' = [tokens EXCEPT ![s] = <<>>]
      /\ raced' = (raced \/ writing[s] = "ini")
  BY DEF SessionDies
<1>2. phase'[s] \in {"dead", "none"} /\ \A t \in Session \ {s} : phase'[t] = phase[t]
  BY DieIs DEF Held
<1>3. ~raced' => ~raced /\ writing[s] # "ini"
  BY <1>1 DEF Held, UserTypes
<1>4. /\ \A p \in Process : writing'[p] = IF p = s THEN "idle" ELSE writing[p]
      /\ \A t \in Session : tokens'[t] = IF t = s THEN <<>> ELSE tokens[t]
  BY <1>1, ProcessIs DEF Held, UserTypes
<1>5. NoBanAhead(<<>>)
  BY DEF NoBanAhead
<1>6. ~raced' => \A p \in Process : (Busy(p)' => Busy(p)) /\ (writing[p] = "ini" => writing'[p] = "ini")
  BY <1>2, <1>3, <1>4 DEF Busy
<1>7. \A t \in Session :
        /\ phase'[t] = "listed" =>
             /\ phase[t] = "listed"
             /\ "loaduser" \in ToSet(tokens[t]) => "loaduser" \in ToSet(tokens'[t])
             /\ ToBeTold(t) => ToBeTold(t)'
        /\ NoBanAhead(tokens[t]) => NoBanAhead(tokens'[t])
  BY <1>1, <1>2, <1>4, <1>5, ProcessIs DEF ToBeTold, Held
<1> QED
  BY <1>1, <1>3, <1>6, <1>7, ToldFrame DEF Same

LEMMA RebuildTold == ASSUME Held, ToldInv, Rebuild PROVE ToldInv'
<1>1. UNCHANGED <<ini, my, ini_dirty, writing, phase, tokens, tell, told, raced, mixed, behind>>
  BY DEF Rebuild
<1> QED
  BY <1>1, ToldFrame DEF Busy, ToBeTold, Same

\* While nobody is about to write the file, it says what was told.
LEMMA FileSays ==
  ASSUME ToldInv, ~raced, ini # Absent, \A p \in Process : writing[p] # "ini"
  PROVE  Says(LoadIni)
BY ToldParts DEF ToldFile

\* Nobody is at work.
LEMMA NoneBusy ==
  ASSUME Held, NEW p \in Process, \A q \in Process \ {p} : ~Busy(q), writing[p] = "idle"
  PROVE  /\ \A q \in Process : writing[q] = "idle"
         /\ \A s \in Session : ~ini_dirty[s] /\ ~ToBeTold(s)
<1>1. \A q \in Process : writing[q] = "idle"
  BY DEF Busy
<1> QED
  BY <1>1, ProcessIs DEF Held, FlowInv, ToBeTold

LEMMA ReapTold == ASSUME Held, ToldInv, NEW s \in Session, CountKick(s) PROVE ToldInv'
<1>1. UNCHANGED <<ini, rec, index, ini_dirty, tokens, tell, told, said, behind, events>>
  BY ReapIs
<1>2. CASE Found /\ ReapsRecord
  <2>1. /\ my' \in [Process -> User_t] /\ writing'[Reaper] = "db"
        /\ \A p \in Process : p # Reaper => my'[p] = my[p] /\ writing'[p] = writing[p]
        /\ phase' = phase /\ Meets(Reaper) /\ writing[Reaper] = "idle"
    BY <1>2, ReapsRecordIs, ReapIs
  <2>2. SUFFICES ASSUME ~raced' PROVE ToldBusy' /\ ToldMy' /\ ToldNew' /\ ToldFile' /\ ToldPlay' /\ ToldBan'
    BY ToldPartsNext
  <2>3. ~raced /\ \A q \in Process \ {Reaper} : ~Busy(q)
    BY <2>1, <2>2, ProcessIs, MeetsIs DEF Held
  <2>4. ToldMy /\ ToldNew /\ ToldFile /\ ToldPlay /\ ToldBan
    BY <2>3, ToldParts
  <2>5. \A q \in Process \ {Reaper} : ~Busy(q)'
    BY <1>1, <2>1, <2>3 DEF Busy
  <2>6. LoadIni' = LoadIni
    BY <1>1 DEF LoadIni
  <2>7. ToldBusy' /\ ToldMy'
    BY <2>5 DEF ToldBusy, ToldMy
  <2>8. ToldNew' /\ ToldBan'
    BY <1>1, <2>4 DEF ToldNew, ToldBan, Says, SaysRest, NewUser
  <2>9. ToldFile'
    BY <1>1, <2>1, <2>4, <2>6 DEF ToldFile, Says, SaysRest
  <2>10. ToldPlay'
    BY <1>1, <2>1, <2>4, <2>6, ProcessIs DEF Held, ToldPlay, Listeners, SaysRest, ToBeTold
  <2> QED
    BY <2>7, <2>8, <2>9, <2>10
<1>3. CASE ReapsNone(s)
  <2>1. phase' = [phase EXCEPT ![s] = "none"] /\ UNCHANGED <<my, writing, kicked, raced, mixed>>
    BY <1>3 DEF ReapsNone
  <2>2. phase'[s] = "none" /\ \A t \in Session \ {s} : phase'[t] = phase[t]
    BY <2>1 DEF Held, UserTypes
  <2>3. \A p \in Process : Busy(p)' => Busy(p)
    BY <2>1, <2>2 DEF Busy
  <2>4. \A t \in Session : phase'[t] = "listed" => phase[t] = "listed"
    BY <2>2
  <2> QED
    BY <1>1, <2>1, <2>3, <2>4, ToldFrame DEF ToBeTold, Same
<1> QED
  BY <1>2, <1>3, ReapIs

LEMMA WriteIniTold == ASSUME Held, ToldInv, NEW p \in Process, WriteIni(p) PROVE ToldInv'
<1>1. UNCHANGED <<rec, index, my, phase, tokens, tell, told, said, kicked, raced, mixed, behind, events>>
  BY DEF WriteIni
<1>2. /\ p # Reaper /\ ini' \in User_t /\ ini' # Absent
      /\ ini'.group = my[p].group /\ ini'.banned = my[p].banned /\ ini'.title = my[p].title
      /\ my[p].reach # MapDefault => ini'.reach = my[p].reach
      /\ writing[p] = "ini" /\ writing'[p] = "db" /\ \A q \in Process : q # p => writing'[q] = writing[q]
  BY WriteIniIs
<1>3. SUFFICES ASSUME ~raced PROVE ToldBusy' /\ ToldMy' /\ ToldNew' /\ ToldFile' /\ ToldPlay' /\ ToldBan'
  BY <1>1, ToldPartsNext
<1>4. ToldBusy /\ ToldMy /\ ToldPlay /\ ToldBan
  BY <1>3, ToldParts
<1>5. Busy(p) /\ Says(my[p])
  BY <1>2, <1>4 DEF Busy, ToldMy
<1>6. \A q \in Process : Busy(q)' <=> Busy(q)
  BY <1>1, <1>2 DEF Busy
<1>7. LoadIni' = ini'
  <2>1. ~(ini'.group < 0)
    BY <1>2 DEF User_t, AdminGroup, UserGroup
  <2> QED
    BY <2>1 DEF LoadIni
<1>8. Says(LoadIni)' /\ SaysRest(LoadIni)' /\ LoadIni'.group = told'.group
  BY <1>1, <1>2, <1>5, <1>7 DEF Says, SaysRest
<1>9. \A q \in Process : (Says(my[q]) => Says(my[q])') /\ (SaysRest(my[q]) => SaysRest(my[q])')
  BY <1>1 DEF Says, SaysRest
<1>10. ToldBusy' /\ ToldMy'
  BY <1>4, <1>6, <1>9 DEF ToldBusy, ToldMy
<1>11. ToldNew' /\ ToldFile' /\ ToldBan'
  BY <1>1, <1>2, <1>4, <1>8 DEF ToldNew, ToldFile, ToldBan
<1>12. ToldPlay'
  <2>1. \A s \in Session : ToBeTold(s) => ToBeTold(s)'
    BY <1>1, <1>2, ProcessIs DEF ToBeTold, Held
  <2> QED
    BY <1>1, <1>4, <1>8, <1>9, <2>1, ProcessIs DEF Held, ToldPlay, Listeners
<1> QED
  BY <1>10, <1>11, <1>12
LEMMA WriteDbTold == ASSUME Held, ToldInv, NEW p \in Process, WriteDb(p) PROVE ToldInv'
<1>1. /\ UNCHANGED <<ini, ini_dirty, told, said, kicked, mixed, events>>
      /\ raced' = (raced \/ (p = Admin /\ \E s \in tell : "ban" \in ToSet(tokens[s])))
      /\ tell' = IF p = Admin THEN {} ELSE tell
      /\ tokens' = [s \in Session |->
           IF p = s /\ phase[s] = "leaving" THEN <<>>
           ELSE IF p = Admin /\ s \in tell /\ phase[s] = "listed" THEN Append(tokens[s], "loaduser")
           ELSE tokens[s]]
  BY DEF WriteDb
<1>2. /\ my' = [my EXCEPT ![p].no = index'] /\ index' \in Nat
      /\ writing[p] = "db" /\ writing'[p] = "idle" /\ \A q \in Process : q # p => writing'[q] = writing[q]
      /\ \A s \in Session :
           phase'[s] = IF s = p /\ phase[s] = "login" THEN "pending"
                       ELSE IF (s = p /\ phase[s] = "leaving") \/ (p = Reaper /\ phase[s] = "dead") THEN "none"
                       ELSE phase[s]
  <2>1. index' \in 1 .. Len(rec') /\ Len(rec') \in Nat
    BY WriteDbIs
  <2>2. index' \in Nat
    BY <2>1
  <2>3. /\ my' = [my EXCEPT ![p].no = index']
        /\ writing[p] = "db" /\ writing'[p] = "idle" /\ \A q \in Process : q # p => writing'[q] = writing[q]
    BY WriteDbIs
  <2> QED
    BY <2>2, <2>3, WriteDbIs
<1>3. SUFFICES ASSUME ~raced' PROVE ToldBusy' /\ ToldMy' /\ ToldNew' /\ ToldFile' /\ ToldPlay' /\ ToldBan'
  BY ToldPartsNext
<1>4. ~raced /\ (p = Admin => \A s \in tell : "ban" \notin ToSet(tokens[s]))
  BY <1>1, <1>3 DEF Held, UserTypes
<1>5. ToldBusy /\ ToldMy /\ ToldNew /\ ToldFile /\ ToldPlay /\ ToldBan
  BY <1>4, ToldParts
<1>6. LoadIni' = LoadIni
  BY <1>1 DEF LoadIni
<1>7. \A q \in Process : Same(my'[q], my[q])
  <2>1. my[p] \in User_t /\ my \in [Process -> User_t]
    BY DEF Held, UserTypes
  <2>2. Same([my[p] EXCEPT !.no = index'], my[p])
    BY <2>1 DEF User_t, Same
  <2>3. \A q \in Process : my'[q] = IF q = p THEN [my[p] EXCEPT !.no = index'] ELSE my[q]
    BY <1>2, <2>1
  <2> QED
    BY <2>2, <2>3 DEF Same
<1>8. \A q \in Process : (Says(my[q]) => Says(my[q])') /\ (SaysRest(my[q]) => SaysRest(my[q])')
  BY <1>1, <1>7 DEF Says, SaysRest, Same
<1>9. (Says(LoadIni) => Says(LoadIni)') /\ (SaysRest(LoadIni) => SaysRest(LoadIni)')
  BY <1>1, <1>6 DEF Says, SaysRest
<1>10. \A q \in Process : (Busy(q)' => Busy(q)) /\ (writing[q] = "ini" => writing'[q] = "ini")
  BY <1>2 DEF Busy
<1>11. ToldBusy' /\ ToldMy'
  BY <1>5, <1>8, <1>10 DEF ToldBusy, ToldMy
<1>12. ToldNew' /\ ToldFile'
  BY <1>1, <1>5, <1>9, <1>10 DEF ToldNew, ToldFile, Says, SaysRest, NewUser
<1>13. \A s \in Session : tokens[s] \in Seq(Token)
  BY DEF Held, UserTypes
<1>14. "loaduser" \in Token
  BY DEF Token
<1>15. ToldBan'
  <2> SUFFICES ASSUME NEW s \in Session PROVE NoBanAhead(tokens'[s])
    BY DEF ToldBan
  <2>1. NoBanAhead(tokens[s]) /\ NoBanAhead(<<>>)
    BY <1>5 DEF ToldBan, NoBanAhead
  <2>2. CASE p = s /\ phase[s] = "leaving"
    BY <1>1, <2>1, <2>2
  <2>3. CASE p = Admin /\ s \in tell /\ phase[s] = "listed"
    <3>1. tokens'[s] = Append(tokens[s], "loaduser")
      BY <1>1, <2>3
    <3> QED
      BY <1>4, <1>13, <1>14, <2>1, <2>3, <3>1, BanAppend
  <2>4. CASE ~(p = s /\ phase[s] = "leaving") /\ ~(p = Admin /\ s \in tell /\ phase[s] = "listed")
    BY <1>1, <2>1, <2>4
  <2> QED
    BY <2>2, <2>3, <2>4
<1>16. ToldPlay'
  <2> SUFFICES ASSUME NEW s \in Session, phase'[s] = "listed"
               PROVE /\ ~told'.banned /\ SaysRest(my[s])'
                     /\ my'[s].group = told'.group \/ "loaduser" \in ToSet(tokens'[s]) \/ ToBeTold(s)'
                     /\ writing'[s] # "ini" => SaysRest(LoadIni)' /\ (LoadIni'.group = told'.group \/ ToBeTold(s)')
    BY DEF ToldPlay, Listeners
  <2>1. s \in Process /\ phase[s] = "listed" /\ my'[s].group = my[s].group
    BY <1>2, <1>7, ProcessIs DEF Held, Same
  <2>2. /\ ~told.banned /\ SaysRest(my[s])
        /\ my[s].group = told.group \/ "loaduser" \in ToSet(tokens[s]) \/ ToBeTold(s)
        /\ writing[s] # "ini" => SaysRest(LoadIni) /\ (LoadIni.group = told.group \/ ToBeTold(s))
    BY <1>5, <2>1 DEF ToldPlay, Listeners
  <2>3. CASE p = Admin /\ s \in tell
    <3>1. tokens'[s] = Append(tokens[s], "loaduser")
      BY <1>1, <2>1, <2>3, ProcessIs DEF Held
    <3>2. "loaduser" \in ToSet(tokens'[s])
      BY <1>13, <1>14, <3>1, AppendHas
    <3>3. \A q \in Process : writing[q] # "ini"
      BY <1>2, <1>5 DEF ToldBusy, Busy
    <3>4. ini # Absent
      BY <1>2 DEF Held, FlowInv
    <3>5. Says(LoadIni)'
      BY <1>5, <1>9, <3>3, <3>4 DEF ToldFile
    <3> QED
      BY <1>1, <1>8, <2>1, <2>2, <3>2, <3>5 DEF Says
  <2>4. CASE ~(p = Admin /\ s \in tell)
    <3>1. tokens'[s] = tokens[s]
      BY <1>1, <2>1, <2>4
    <3>2. ToBeTold(s) => ToBeTold(s)'
      BY <1>1, <1>2, <2>4, ProcessIs DEF Held, ToBeTold
    <3> QED
      BY <1>1, <1>6, <1>8, <1>9, <1>10, <2>1, <2>2, <3>1, <3>2
  <2> QED
    BY <2>3, <2>4
<1> QED
  BY <1>11, <1>12, <1>15, <1>16

LEMMA LoginTold == ASSUME Held, ToldInv, NEW s \in Session, Login(s) PROVE ToldInv'
<1>1. /\ UNCHANGED <<ini, rec, index, tokens, tell, told, said, kicked, behind>> /\ Meets(s)
      /\ my' = [my EXCEPT ![s] = ReadUser] /\ phase[s] = "none"
      /\ phase' = [phase EXCEPT ![s] = "login"] /\ writing' = [writing EXCEPT ![s] = "ini"]
  BY DEF Login
<1>2. s \in Process
  BY ProcessIs DEF Held
<1>3. /\ my'[s] = ReadUser /\ writing'[s] = "ini" /\ phase'[s] = "login"
      /\ \A p \in Process : p # s => my'[p] = my[p] /\ writing'[p] = writing[p]
      /\ \A t \in Session : t # s => phase'[t] = phase[t]
  BY <1>1, <1>2 DEF Held, UserTypes
<1>4. SUFFICES ASSUME ~raced' PROVE ToldBusy' /\ ToldMy' /\ ToldNew' /\ ToldFile' /\ ToldPlay' /\ ToldBan'
  BY ToldPartsNext
<1>5. ~raced /\ writing[s] = "idle" /\ \A q \in Process \ {s} : ~Busy(q)
  BY <1>1, <1>2, <1>4, MeetsIs DEF Held, FlowInv
<1>6. ToldMy /\ ToldNew /\ ToldFile /\ ToldPlay /\ ToldBan
  BY <1>5, ToldParts
<1>7. \A q \in Process \ {s} : ~Busy(q)'
  BY <1>3, <1>5 DEF Busy
<1>8. \A q \in Process : writing[q] = "idle"
  BY <1>2, <1>5, NoneBusy
<1>9. Says(my[s])'
  <2>1. CASE ini = Absent
    <3>1. Says(NewUser)
      BY <1>6, <2>1 DEF ToldNew
    <3>2. /\ ReadUser.group = NewUser.group /\ ReadUser.banned = NewUser.banned
          /\ ReadUser.title = NewUser.title /\ ReadUser.reach = NewUser.reach
      BY <2>1, ReadUserIs DEF Held
    <3> QED
      BY <1>1, <1>3, <3>1, <3>2 DEF Says, SaysRest
  <2>2. CASE ini # Absent
    <3>1. Says(LoadIni)
      BY <1>5, <1>8, <2>2, FileSays
    <3>2. /\ ReadUser.group = LoadIni.group /\ ReadUser.banned = LoadIni.banned
          /\ ReadUser.title = LoadIni.title /\ ReadUser.reach = LoadIni.reach
      BY <2>2, ReadUserIs DEF Held
    <3> QED
      BY <1>1, <1>3, <3>1, <3>2 DEF Says, SaysRest
  <2> QED
    BY <2>1, <2>2
<1>10. LoadIni' = LoadIni
  BY <1>1 DEF LoadIni
<1>11. ToldBusy' /\ ToldMy'
  BY <1>7, <1>9 DEF ToldBusy, ToldMy
<1>12. ToldNew' /\ ToldFile' /\ ToldBan'
  BY <1>1, <1>2, <1>3, <1>6 DEF ToldNew, ToldFile, ToldBan, Says, SaysRest, NewUser
<1>13. ToldPlay'
  <2>1. \A t \in Session : ToBeTold(t) => ToBeTold(t)'
    BY <1>1, <1>3, ProcessIs DEF ToBeTold, Held
  <2>2. \A t \in Session : phase'[t] = "listed" => t # s /\ phase[t] = "listed"
    BY <1>3
  <2> QED
    BY <1>1, <1>3, <1>6, <1>10, <2>1, <2>2, ProcessIs DEF ToldPlay, Listeners, SaysRest, Held
<1> QED
  BY <1>11, <1>12, <1>13

LEMMA ListedTold == ASSUME Held, ToldInv, NEW s \in Session, Listed(s) PROVE ToldInv'
<1>1. /\ UNCHANGED <<ini, rec, index, my, ini_dirty, writing, tokens, tell, told, said, kicked, raced, mixed,
                     behind, events>>
      /\ phase[s] = "pending" /\ writing[s] = "idle" /\ ~my[s].banned
      /\ phase' = [t \in Session |-> IF t = s THEN "listed" ELSE IF phase[t] = "listed" THEN "old" ELSE phase[t]]
  BY DEF Listed
<1>2. \A t \in Session :
        phase'[t] = IF t = s THEN "listed" ELSE IF phase[t] = "listed" THEN "old" ELSE phase[t]
  BY <1>1
<1>3. SUFFICES ASSUME ~raced PROVE ToldBusy' /\ ToldMy' /\ ToldNew' /\ ToldFile' /\ ToldPlay' /\ ToldBan'
  BY <1>1, ToldPartsNext
<1>4. ToldBusy /\ ToldMy /\ ToldNew /\ ToldFile /\ ToldPlay /\ ToldBan
  BY <1>3, ToldParts
<1>5. s \in Process \ {Reaper}
  BY ProcessIs DEF Held
<1>6. Busy(s) /\ Says(my[s]) /\ \A q \in Process \ {s} : ~Busy(q)
  BY <1>1, <1>4, <1>5 DEF Busy, ToldBusy, ToldMy
<1>7. \A q \in Process : writing[q] = "idle"
  BY <1>1, <1>5, <1>6, NoneBusy
<1>8. ini # Absent
  BY <1>1 DEF Held, FlowInv
<1>9. Says(LoadIni)
  BY <1>3, <1>7, <1>8, FileSays
<1>10. LoadIni' = LoadIni /\ my' = my /\ told' = told /\ tokens' = tokens
  BY <1>1 DEF LoadIni
<1>11. \A p \in Process : Busy(p)' => Busy(p)
  BY <1>1, <1>2 DEF Busy
<1>12. ToldBusy' /\ ToldMy'
  BY <1>4, <1>10, <1>11 DEF ToldBusy, ToldMy, Says, SaysRest
<1>13. ToldNew' /\ ToldFile' /\ ToldBan'
  BY <1>1, <1>4, <1>8, <1>9, <1>10 DEF ToldNew, ToldFile, ToldBan, Says, SaysRest
<1>14. ToldPlay'
  <2>1. \A t \in Session : phase'[t] = "listed" => t = s
    BY <1>2
  <2>2. ~told.banned
    BY <1>1, <1>6 DEF Says, SaysRest
  <2> QED
    BY <1>6, <1>9, <1>10, <2>1, <2>2 DEF ToldPlay, Listeners, Says, SaysRest
<1> QED
  BY <1>12, <1>13, <1>14
\* A session that leaves with what the file says, but for its counts
LEMMA LeaveTold ==
  ASSUME Held, ToldInv, NEW s \in Session, NEW r \in User_t, Leave(s, r, ini_dirty[s]),
         phase[s] \in {"pending", "listed", "old"}, writing[s] = "idle",
         UNCHANGED <<ini, told, tell>>,
         \A t \in Session : NoBanAhead(tokens[t]) => NoBanAhead(tokens'[t]),
         \A t \in Session \ {s} : tokens'[t] = tokens[t]
  PROVE  ToldInv'
<1>1. /\ my'[s] = IF ini_dirty[s] THEN r ELSE ReadIni(r)
      /\ phase'[s] = "leaving" /\ writing'[s] = "ini"
      /\ \A p \in Process : p # s => my'[p] = my[p] /\ writing'[p] = writing[p]
      /\ \A t \in Session : t # s => phase'[t] = phase[t]
      /\ Meets(s)
  <2>1. ini_dirty[s] \in BOOLEAN
    BY DEF Held, UserTypes
  <2> QED
    BY <2>1, LeaveIs DEF Held
<1>2. s \in Process /\ ini # Absent
  BY ProcessIs DEF Held, FlowInv
<1>3. SUFFICES ASSUME ~raced' PROVE ToldBusy' /\ ToldMy' /\ ToldNew' /\ ToldFile' /\ ToldPlay' /\ ToldBan'
  BY ToldPartsNext
<1>4. ~raced /\ \A q \in Process \ {s} : ~Busy(q)
  BY <1>1, <1>2, <1>3, MeetsIs DEF Held
<1>5. ToldMy /\ ToldNew /\ ToldFile /\ ToldPlay /\ ToldBan
  BY <1>4, ToldParts
<1>6. \A q \in Process \ {s} : ~Busy(q)'
  BY <1>1, <1>4 DEF Busy
<1>7. (\A q \in Process : writing[q] = "idle") /\ ~ini_dirty[s]
  BY <1>2, <1>4, NoneBusy
<1>8. Says(LoadIni)
  BY <1>2, <1>4, <1>7, FileSays
<1>9. LoadIni' = LoadIni
  BY DEF LoadIni
<1>10. Says(my[s])'
  <2>1. my'[s] = ReadIni(r)
    BY <1>1, <1>7
  <2>2. /\ ReadIni(r).group = LoadIni.group /\ ReadIni(r).banned = LoadIni.banned
        /\ ReadIni(r).title = LoadIni.title
        /\ LoadIni.reach # MapDefault => ReadIni(r).reach = LoadIni.reach
    BY <1>2, ReadIniIs DEF Held, UserTypes
  <2> QED
    BY <1>8, <2>1, <2>2 DEF Says, SaysRest
<1>11. ToldBusy' /\ ToldMy'
  BY <1>6, <1>10 DEF ToldBusy, ToldMy
<1>12. ToldNew' /\ ToldFile' /\ ToldBan'
  BY <1>1, <1>2, <1>5 DEF ToldNew, ToldFile, ToldBan
<1>13. ToldPlay'
  <2>1. \A t \in Session : ToBeTold(t) => ToBeTold(t)'
    BY <1>1, ProcessIs DEF ToBeTold, Held
  <2>2. \A t \in Session : phase'[t] = "listed" => t # s /\ phase[t] = "listed"
    BY <1>1
  <2> QED
    BY <1>1, <1>5, <1>9, <2>1, <2>2, ProcessIs DEF ToldPlay, Listeners, SaysRest, Held
<1> QED
  BY <1>11, <1>12, <1>13

LEMMA QuitTold == ASSUME Held, ToldInv, NEW s \in Session, Quit(s) PROVE ToldInv'
<1>1. /\ UNCHANGED <<ini, rec, index, ini_dirty, tokens, tell, told, said, kicked, behind, events>>
      /\ phase[s] \in {"pending", "listed", "old"} /\ writing[s] = "idle" /\ Leave(s, my[s], ini_dirty[s])
  BY DEF Quit
<1>2. my[s] \in User_t
  BY ProcessIs DEF Held, UserTypes
<1> QED
  BY <1>1, <1>2, LeaveTold

\* A session that changes a setting of its user, with nobody else at work
LEMMA ChangeTold ==
  ASSUME Held, ToldInv, NEW s \in Session, NEW field, NEW value, Change_t(field, value), Change(s, field, value),
         phase[s] = "listed", writing[s] = "idle", UNCHANGED <<ini, phase, tell>>,
         \A t \in Session : NoBanAhead(tokens[t]) => NoBanAhead(tokens'[t])
  PROVE  ToldInv'
<1>1. /\ my'[s] = [ReadIni(my[s]) EXCEPT ![field] = value]
      /\ told' = [told EXCEPT ![field] = value] /\ writing'[s] = "ini"
      /\ \A p \in Process : p # s => my'[p] = my[p] /\ writing'[p] = writing[p]
      /\ Meets(s)
  <2>1. /\ writing'[s] = "ini" /\ Meets(s)
        /\ \A p \in Process : p # s => my'[p] = my[p] /\ writing'[p] = writing[p]
    BY ChangeIs DEF Held
  <2>2. /\ my' = [my EXCEPT ![s] = [ReadIni(my[s]) EXCEPT ![field] = value]]
        /\ told' = [told EXCEPT ![field] = value]
    BY DEF Change
  <2>3. s \in Process /\ my \in [Process -> User_t]
    BY ProcessIs DEF Held, UserTypes
  <2>4. my'[s] = [ReadIni(my[s]) EXCEPT ![field] = value]
    BY <2>2, <2>3
  <2> QED
    BY <2>1, <2>2, <2>4
<1>2. s \in Process /\ ini # Absent /\ my[s] \in User_t
  BY ProcessIs DEF Held, UserTypes, FlowInv
<1>3. SUFFICES ASSUME ~raced' PROVE ToldBusy' /\ ToldMy' /\ ToldNew' /\ ToldFile' /\ ToldPlay' /\ ToldBan'
  BY ToldPartsNext
<1>4. ~raced /\ \A q \in Process \ {s} : ~Busy(q)
  BY <1>1, <1>2, <1>3, MeetsIs DEF Held
<1>5. ToldPlay /\ ToldBan
  BY <1>4, ToldParts
<1>6. \A q \in Process \ {s} : ~Busy(q)'
  BY <1>1, <1>4 DEF Busy
<1>7. \A q \in Process : writing[q] = "idle"
  BY <1>2, <1>4, NoneBusy
<1>8. Says(LoadIni)
  BY <1>2, <1>4, <1>7, FileSays
<1>9. Says(my[s])' /\ told'.banned = told.banned
  <2>1. /\ ReadIni(my[s]) \in User_t
        /\ ReadIni(my[s]).group = LoadIni.group /\ ReadIni(my[s]).banned = LoadIni.banned
        /\ ReadIni(my[s]).title = LoadIni.title
        /\ LoadIni.reach # MapDefault => ReadIni(my[s]).reach = LoadIni.reach
    BY <1>2, ReadIniIs DEF Held, UserTypes
  <2>2. told \in [group : {AdminGroup, UserGroup}, banned : BOOLEAN, title : Nat, reach : Int]
    BY DEF Held, UserTypes
  <2>3. CASE field = "reach"
    <3>1. /\ my'[s].group = LoadIni.group /\ my'[s].banned = LoadIni.banned
          /\ my'[s].title = LoadIni.title /\ my'[s].reach = value
      BY <1>1, <2>1, <2>3 DEF User_t
    <3>2. /\ told'.group = told.group /\ told'.banned = told.banned
          /\ told'.title = told.title /\ told'.reach = value
      BY <1>1, <2>2, <2>3
    <3> QED
      BY <1>8, <3>1, <3>2 DEF Says, SaysRest
  <2>4. CASE field = "title"
    <3>1. /\ my'[s].group = LoadIni.group /\ my'[s].banned = LoadIni.banned
          /\ my'[s].title = value
          /\ LoadIni.reach # MapDefault => my'[s].reach = LoadIni.reach
      BY <1>1, <2>1, <2>4 DEF User_t
    <3>2. /\ told'.group = told.group /\ told'.banned = told.banned
          /\ told'.title = value /\ told'.reach = told.reach
      BY <1>1, <2>2, <2>4
    <3> QED
      BY <1>8, <3>1, <3>2 DEF Says, SaysRest
  <2> QED
    BY <2>3, <2>4 DEF Change_t
<1>10. ToldBusy' /\ ToldMy'
  BY <1>6, <1>9 DEF ToldBusy, ToldMy
<1>11. ToldNew' /\ ToldFile' /\ ToldBan'
  BY <1>1, <1>2, <1>5 DEF ToldNew, ToldFile, ToldBan
<1>12. ToldPlay'
  <2>1. \A t \in Session : phase'[t] = "listed" => t = s
    BY DEF Held, FlowInv, Listeners
  <2>2. ~told.banned
    BY <1>5 DEF ToldPlay, Listeners
  <2> QED
    BY <1>1, <1>9, <2>1, <2>2 DEF ToldPlay, Listeners, Says
<1> QED
  BY <1>10, <1>11, <1>12

LEMMA ReachdistTold ==
  ASSUME Held, ToldInv, NEW s \in Session, NEW d \in {0, MapDefault}, Reachdist(s, d)
  PROVE  ToldInv'
<1>1. /\ UNCHANGED <<ini, rec, index, phase, tokens, tell, said, kicked, behind>>
      /\ phase[s] = "listed" /\ writing[s] = "idle" /\ Change(s, "reach", d)
  BY DEF Reachdist
<1>2. Change_t("reach", d)
  BY DEF Change_t, MapDefault
<1> QED
  BY <1>1, <1>2, ChangeTold

LEMMA ReceiveTold == ASSUME Held, ToldInv, NEW s \in Session, Receive(s) PROVE ToldInv'
<1>1. /\ phase[s] = "listed" /\ writing[s] = "idle" /\ UNCHANGED <<ini, rec, index, tell, said, behind, events>>
      /\ s \in Process /\ my[s] \in User_t
  BY ReceiveIs, ProcessIs DEF Held, UserTypes
<1>2. /\ tokens[s] \in Seq(Token) /\ tokens[s] # <<>>
      /\ \A t \in Session : tokens'[t] = IF t = s THEN Tail(tokens[s]) ELSE tokens[t]
  BY ReceiveIs DEF Held, UserTypes
<1>3. \A t \in Session : NoBanAhead(tokens[t]) => NoBanAhead(tokens'[t])
  BY <1>2, BanTail
<1>4. CASE Head(tokens[s]) = "loaduser" /\ Reread(s)
  <2>1. /\ my' = [my EXCEPT ![s] = ReadIni(my[s])]
        /\ UNCHANGED <<writing, phase, told, kicked, raced, mixed>>
    BY <1>4 DEF Reread
  <2>2. my'[s] = ReadIni(my[s]) /\ \A p \in Process \ {s} : my'[p] = my[p]
    BY <1>1, <2>1 DEF Held, UserTypes
  <2>3. SUFFICES ASSUME ~raced PROVE ToldBusy' /\ ToldMy' /\ ToldNew' /\ ToldFile' /\ ToldPlay' /\ ToldBan'
    BY <2>1, ToldPartsNext
  <2>4. ToldBusy /\ ToldMy /\ ToldNew /\ ToldFile /\ ToldPlay /\ ToldBan
    BY <2>3, ToldParts
  <2>5. LoadIni' = LoadIni /\ told' = told
    BY <1>1, <2>1 DEF LoadIni
  <2>6. (\A p \in Process : Busy(p)' <=> Busy(p)) /\ ~Busy(s)
    BY <1>1, <2>1 DEF Busy
  <2>7. ToldBusy' /\ ToldMy'
    BY <2>2, <2>4, <2>5, <2>6 DEF ToldBusy, ToldMy, Says, SaysRest
  <2>8. ToldNew' /\ ToldBan'
    BY <1>1, <1>3, <2>1, <2>4 DEF ToldNew, ToldBan, Says, SaysRest, NewUser
  <2>9. ToldFile'
    BY <1>1, <2>1, <2>4, <2>5 DEF ToldFile, Says, SaysRest
  <2>10. ToldPlay'
    <3>1. \A t \in Session : phase'[t] = "listed" => t = s
      BY <1>1, <2>1 DEF Held, FlowInv, Listeners
    <3>2. ini # Absent
      BY <1>1 DEF Held, FlowInv
    <3>3. ~told.banned /\ SaysRest(LoadIni) /\ (LoadIni.group = told.group \/ ToBeTold(s))
      BY <1>1, <2>4 DEF ToldPlay, Listeners
    <3>4. /\ ReadIni(my[s]).group = LoadIni.group /\ ReadIni(my[s]).banned = LoadIni.banned
          /\ ReadIni(my[s]).title = LoadIni.title
          /\ LoadIni.reach # MapDefault => ReadIni(my[s]).reach = LoadIni.reach
      BY <1>1, <3>2, ReadIniIs DEF Held, UserTypes
    <3>5. SaysRest(my[s])' /\ SaysRest(LoadIni)'
      BY <2>2, <2>5, <3>3, <3>4 DEF SaysRest
    <3>6. ToBeTold(s) => ToBeTold(s)'
      BY <1>1, <2>1 DEF ToBeTold
    <3> QED
      BY <2>2, <2>5, <3>1, <3>3, <3>4, <3>5, <3>6 DEF ToldPlay, Listeners
  <2> QED
    BY <2>7, <2>8, <2>9, <2>10
<1>5. CASE Change(s, "title", events) /\ UNCHANGED <<phase, kicked>>
  <2>1. Change_t("title", events)
    BY DEF Change_t, Held, UserTypes
  <2> QED
    BY <1>1, <1>3, <1>5, <2>1, ChangeTold
<1>6. CASE BeKicked(s)
  <2>1. Leave(s, Kicked(s), ini_dirty[s]) /\ UNCHANGED <<ini_dirty, told>> /\ Kicked(s) \in User_t
    BY <1>6, KickedIs DEF BeKicked
  <2>2. UNCHANGED <<ini, told, tell>> /\ \A t \in Session \ {s} : tokens'[t] = tokens[t]
    BY <1>1, <1>2, <2>1
  <2> QED
    BY <1>1, <1>3, <2>1, <2>2, LeaveTold
<1>7. CASE Head(tokens[s]) = "ban" /\ BeBanned(s)
  <2> DEFINE r == [Kicked(s) EXCEPT !.banned = TRUE]
  <2>1. Leave(s, r, TRUE) /\ told' = [told EXCEPT !.banned = TRUE]
    BY <1>7 DEF BeBanned
  <2>2. r \in User_t /\ r.group = my[s].group /\ r.banned /\ r.title = my[s].title /\ r.reach = my[s].reach
    <3>1. /\ Kicked(s) \in User_t /\ Kicked(s).group = my[s].group
          /\ Kicked(s).title = my[s].title /\ Kicked(s).reach = my[s].reach
      BY <1>1, KickedIs DEF User_t, Kicked
    <3> QED
      BY <3>1 DEF User_t
  <2> HIDE DEF r
  <2>3. /\ my'[s] = r /\ phase'[s] = "leaving" /\ writing'[s] = "ini"
        /\ \A p \in Process : p # s => my'[p] = my[p] /\ writing'[p] = writing[p]
        /\ \A t \in Session : t # s => phase'[t] = phase[t]
        /\ Meets(s)
    BY <2>1, <2>2, LeaveIs DEF Held
  <2>4. told'.banned /\ told'.group = told.group /\ told'.title = told.title /\ told'.reach = told.reach
    BY <2>1 DEF Held, UserTypes
  <2>5. SUFFICES ASSUME ~raced' PROVE ToldBusy' /\ ToldMy' /\ ToldNew' /\ ToldFile' /\ ToldPlay' /\ ToldBan'
    BY ToldPartsNext
  <2>6. ~raced /\ \A q \in Process \ {s} : ~Busy(q)
    BY <1>1, <2>3, <2>5, MeetsIs DEF Held
  <2>7. ToldPlay /\ ToldBan
    BY <2>6, ToldParts
  <2>8. \A q \in Process \ {s} : ~Busy(q)'
    BY <2>3, <2>6 DEF Busy
  <2>9. ~ToBeTold(s)
    BY <1>1, <2>6, NoneBusy
  <2>10. "loaduser" \notin ToSet(tokens[s])
    BY <1>2, <1>7, <2>7, BanTail DEF ToldBan
  <2>11. SaysRest(my[s]) /\ my[s].group = told.group
    BY <1>1, <2>7, <2>9, <2>10 DEF ToldPlay, Listeners
  <2>12. Says(my[s])'
    BY <2>2, <2>3, <2>4, <2>11 DEF Says, SaysRest, Held, UserTypes, User_t
  <2>13. \A t \in Session : phase'[t] # "listed"
    <3>1. \A t \in Session : phase[t] = "listed" => t = s
      BY <1>1 DEF Held, FlowInv, Listeners
    <3> QED
      BY <2>3, <3>1
  <2>14. ini' # Absent
    BY <1>1 DEF Held, FlowInv
  <2> QED
    BY <1>1, <1>3, <2>3, <2>7, <2>8, <2>12, <2>13, <2>14
       DEF ToldBusy, ToldMy, ToldNew, ToldFile, ToldPlay, ToldBan, Listeners
<1> QED
  BY <1>4, <1>5, <1>6, <1>7, ReceiveIs

\* An administrator's command that keeps what it does not say, with nobody else at work
LEMMA AmendTold ==
  ASSUME Held, ToldInv, NEW r \in User_t, NEW who \in SUBSET Session, Amend(r, who),
         r.title = ReadUser.title, r.reach = ReadUser.reach,
         ~raced => r.banned = ReadUser.banned \/ Listeners = {},
         \A s \in Listeners : s \in who
  PROVE  ToldInv'
<1>1. UNCHANGED <<ini, rec, index, ini_dirty, phase, tokens, said, kicked, behind>>
  BY DEF Amend
<1>2. /\ my'[Admin] = r /\ writing[Admin] = "idle" /\ writing'[Admin] = "ini"
      /\ \A p \in Process : p # Admin => my'[p] = my[p] /\ writing'[p] = writing[p]
      /\ told'.group = r.group /\ told'.banned = r.banned
      /\ told'.title = told.title /\ told'.reach = told.reach
      /\ tell' = who /\ index # 0 /\ Meets(Admin)
  BY AmendIs DEF Held
<1>3. Admin \in Process /\ ini # Absent
  BY <1>2, ProcessIs DEF Held, FlowInv
<1>4. SUFFICES ASSUME ~raced' PROVE ToldBusy' /\ ToldMy' /\ ToldNew' /\ ToldFile' /\ ToldPlay' /\ ToldBan'
  BY ToldPartsNext
<1>5. ~raced /\ \A q \in Process \ {Admin} : ~Busy(q)
  BY <1>2, <1>3, <1>4, MeetsIs DEF Held
<1>6. ToldPlay /\ ToldBan
  BY <1>5, ToldParts
<1>7. \A q \in Process \ {Admin} : ~Busy(q)'
  BY <1>1, <1>2, <1>5 DEF Busy
<1>8. \A q \in Process : writing[q] = "idle"
  BY <1>2, <1>3, <1>5, NoneBusy
<1>9. Says(LoadIni)
  BY <1>3, <1>5, <1>8, FileSays
<1>10. LoadIni' = LoadIni
  BY <1>1 DEF LoadIni
<1>11. /\ ReadUser.banned = LoadIni.banned
       /\ r.title = LoadIni.title /\ r.reach = LoadIni.reach
  BY <1>3, ReadUserIs DEF Held
<1>12. Says(my[Admin])'
  BY <1>2, <1>9, <1>11 DEF Says, SaysRest
<1>13. ToldBusy' /\ ToldMy'
  BY <1>7, <1>12 DEF ToldBusy, ToldMy
<1>14. ToldNew' /\ ToldFile' /\ ToldBan'
  BY <1>1, <1>2, <1>3, <1>6 DEF ToldNew, ToldFile, ToldBan
<1>15. ToldPlay'
  <2> SUFFICES ASSUME NEW s \in Session, phase[s] = "listed"
               PROVE /\ ~told'.banned /\ SaysRest(my[s])' /\ ToBeTold(s)'
                     /\ SaysRest(LoadIni)'
    BY <1>1 DEF ToldPlay, Listeners
  <2>1. s \in Listeners
    BY DEF Listeners
  <2>2. ~told.banned /\ SaysRest(my[s])
    BY <1>6, <2>1 DEF ToldPlay
  <2>3. r.banned = told.banned
    BY <1>5, <1>9, <1>11, <2>1 DEF Says, SaysRest
  <2>4. my'[s] = my[s]
    BY <1>2, ProcessIs DEF Held
  <2> QED
    BY <1>2, <1>9, <1>10, <2>1, <2>2, <2>3, <2>4 DEF Says, SaysRest, ToBeTold
<1> QED
  BY <1>13, <1>14, <1>15

LEMMA AdminTold ==
  ASSUME Held, ToldInv, BanOffline \/ Unban \/ \E g \in {AdminGroup, UserGroup} : Setperm(g)
  PROVE  ToldInv'
<1>1. {} \in SUBSET Session /\ Listeners \in SUBSET Session
  BY DEF Listeners
<1>2. CASE BanOffline
  BY <1>1, <1>2, BanOfflineIs, AmendTold
<1>3. CASE Unban
  <2>1. PICK r \in User_t :
           /\ ReadUser.banned /\ Amend(r, {}) /\ r.title = ReadUser.title /\ r.reach = ReadUser.reach
    BY <1>3, UnbanIs
  <2>2. index # 0 /\ Meets(Admin) /\ writing[Admin] = "idle" /\ Admin \in Process
    BY <1>1, <2>1, AmendIs, ProcessIs DEF Held
  <2>3. ~raced' => Listeners = {}
    <3> SUFFICES ASSUME ~raced' PROVE Listeners = {}
      OBVIOUS
    <3>1. ~raced /\ \A q \in Process \ {Admin} : ~Busy(q)
      BY <2>2, MeetsIs DEF Held
    <3>2. \A q \in Process : writing[q] = "idle"
      BY <2>2, <3>1, NoneBusy
    <3>3. ini # Absent
      BY <2>2 DEF Held, FlowInv
    <3>4. told.banned
      BY <2>1, <3>1, <3>2, <3>3, FileSays, ReadUserIs DEF Held, Says, SaysRest
    <3> QED
      BY <3>1, <3>4, ToldParts DEF ToldPlay
  <2>4. CASE raced'
    BY <2>4 DEF ToldInv
  <2>5. CASE ~raced'
    BY <1>1, <2>1, <2>3, <2>5, AmendTold
  <2> QED
    BY <2>4, <2>5
<1>4. CASE \E g \in {AdminGroup, UserGroup} : Setperm(g)
  BY <1>1, <1>4, SetpermIs, AmendTold
<1> QED
  BY <1>2, <1>3, <1>4
-----------------------------------------------------------------------------
(* Who has the counts *)

CountWriters == \A p, q \in Process : writing[p] # "idle" /\ writing[q] # "idle" => p = q
CountRuns == \A s, t \in Session : Plays(s) /\ Plays(t) => s = t
CountReaper == writing[Reaper] # "idle" => NoneRuns /\ Counts(my[Reaper])
CountMine == \A s \in Session : Plays(s) => Counts(my[s])
CountAdmin ==
  writing[Admin] # "idle" =>
    /\ index # 0 /\ my[Admin].no = index
    /\ my[Admin].messages = rec[index].messages /\ my[Admin].kicks = rec[index].kicks
CountRec == NoneRuns /\ writing[Reaper] = "idle" => Counts(ReadUser)
CountFile ==
  \A p \in Process \ {Reaper} :
    writing[p] = "db" => ini.messages = my[p].messages /\ ini.kicks = my[p].kicks
CountIni == ~behind /\ NoneRuns /\ writing[Reaper] = "idle" /\ ini # Absent => Counts(ini)

CountAll ==
  CountWriters /\ CountRuns /\ CountReaper /\ CountMine /\ CountAdmin /\ CountRec /\ CountFile /\ CountIni

LEMMA CountParts == (CountInv <=> (~mixed => CountAll)) /\ (CountInv' <=> (~mixed' => CountAll'))
BY DEF CountInv, CountAll, CountWriters, CountRuns, CountReaper, CountMine, CountAdmin, CountRec, CountFile, CountIni

\* The counts that are read: those of the record, or of the file if there is none
ReadIs ==
  /\ index # 0 => ReadUser.messages = rec[index].messages /\ ReadUser.kicks = rec[index].kicks
  /\ index = 0 /\ ini # Absent => ReadUser.messages = ini.messages /\ ReadUser.kicks = ini.kicks

LEMMA ReadCounts == UserTypes => ReadIs
BY ReadUserIs DEF ReadIs, Found

LEMMA ReadCountsNext == UserTypes' => ReadIs'
BY ReadCounts, PTL

LEMMA RunningIs ==
  ASSUME Held, NEW s \in Session, writing[s] # "idle"
  PROVE  Plays(s)
BY DEF Held, FlowInv, Plays

\* A step that counts nothing, and writes nothing
LEMMA CountFrame ==
  ASSUME Held, CountInv, UNCHANGED <<ini, rec, index, writing, said, kicked, behind, mixed>>,
         \A p \in Process : my'[p].no = my[p].no /\ my'[p].messages = my[p].messages /\ my'[p].kicks = my[p].kicks,
         \A s \in Session : Plays(s)' <=> Plays(s)
  PROVE  CountInv'
<1>1. SUFFICES ASSUME ~mixed PROVE CountAll'
  BY CountParts
<1>2. CountAll
  BY <1>1, CountParts
<1>3. ReadUser' = ReadUser
  BY DEF ReadUser, LoadIni, Found
<1>4. Reaper \in Process /\ Admin \in Process /\ Session \subseteq Process
  BY ProcessIs DEF Held
<1>5. NoneRuns' <=> NoneRuns
  BY DEF NoneRuns
<1>6. CountWriters' /\ CountRuns'
  BY <1>2 DEF CountAll, CountWriters, CountRuns
<1>7. CountReaper' /\ CountMine'
  BY <1>2, <1>4, <1>5 DEF CountAll, CountReaper, CountMine, Counts
<1>8. CountAdmin' /\ CountFile'
  BY <1>2, <1>4 DEF CountAll, CountAdmin, CountFile
<1>9. CountRec' /\ CountIni'
  BY <1>2, <1>3, <1>5 DEF CountAll, CountRec, CountIni, Counts
<1> QED
  BY <1>6, <1>7, <1>8, <1>9 DEF CountAll

\* A session that begins to write, the only one that runs, and has the counts
LEMMA CountBegins ==
  ASSUME Held, CountInv, NEW s \in Session, Meets(s), writing'[s] = "ini", Plays(s)',
         \A p \in Process : p # s => writing'[p] = writing[p],
         \A t \in Session : t # s => (Plays(t)' => Plays(t)),
         ~mixed' => Counts(my[s])'
  PROVE  CountInv'
<1>1. SUFFICES ASSUME ~mixed' PROVE CountAll'
  BY CountParts
<1>2. s \in Process /\ Reaper \in Process \ {s} /\ Admin \in Process \ {s}
  BY ProcessIs DEF Held
<1>3. /\ \A q \in Process \ {s} : writing[q] = "idle"
      /\ \A t \in Session \ {s} : ~Plays(t)
  BY <1>1, <1>2, MeetsIs DEF Held
<1>4. /\ \A q \in Process \ {s} : writing'[q] = "idle"
      /\ \A t \in Session \ {s} : ~Plays(t)'
  BY <1>3
<1>5. CountWriters' /\ CountRuns' /\ CountReaper' /\ CountAdmin'
  BY <1>2, <1>4 DEF CountWriters, CountRuns, CountReaper, CountAdmin
<1>6. CountMine' /\ CountRec' /\ CountIni' /\ CountFile'
  BY <1>1, <1>4 DEF CountMine, CountRec, CountIni, CountFile, NoneRuns
<1> QED
  BY <1>5, <1>6 DEF CountAll

LEMMA LoginCount == ASSUME Held, CountInv, NEW s \in Session, Login(s) PROVE CountInv'
<1>1. /\ UNCHANGED <<ini, rec, index, said, kicked, behind>> /\ Meets(s)
      /\ my' = [my EXCEPT ![s] = ReadUser] /\ phase[s] = "none"
      /\ phase' = [phase EXCEPT ![s] = "login"] /\ writing' = [writing EXCEPT ![s] = "ini"]
  BY DEF Login
<1>2. s \in Process /\ Reaper \in Process \ {s}
  BY ProcessIs DEF Held
<1>3. /\ my'[s] = ReadUser /\ writing'[s] = "ini" /\ phase'[s] = "login"
      /\ \A p \in Process : p # s => writing'[p] = writing[p]
      /\ \A t \in Session : t # s => phase'[t] = phase[t]
  BY <1>1, <1>2 DEF Held, UserTypes
<1>4. ASSUME ~mixed' PROVE Counts(my[s])'
  <2>1. /\ ~mixed /\ \A q \in Process \ {s} : writing[q] = "idle"
        /\ \A t \in Session \ {s} : ~Plays(t)
    BY <1>1, <1>2, <1>4, MeetsIs DEF Held
  <2>2. NoneRuns /\ writing[Reaper] = "idle"
    BY <1>1, <1>2, <2>1 DEF NoneRuns, Plays
  <2>3. Counts(ReadUser)
    BY <2>1, <2>2, CountParts DEF CountAll, CountRec
  <2> QED
    BY <1>1, <1>3, <2>3 DEF Counts
<1> QED
  BY <1>1, <1>3, <1>4, CountBegins DEF Plays

LEMMA ListedCount == ASSUME Held, CountInv, NEW s \in Session, Listed(s) PROVE CountInv'
<1>1. /\ UNCHANGED <<ini, rec, index, my, writing, said, kicked, mixed, behind>> /\ phase[s] = "pending"
      /\ phase' = [t \in Session |-> IF t = s THEN "listed" ELSE IF phase[t] = "listed" THEN "old" ELSE phase[t]]
  BY DEF Listed
<1>2. \A t \in Session : Plays(t)' <=> Plays(t)
  BY <1>1 DEF Plays
<1> QED
  BY <1>1, <1>2, CountFrame

LEMMA SendCount ==
  ASSUME Held, CountInv, NEW s \in Session, NEW token \in {"kick", "ban", "title"}, Send(s, token)
  PROVE  CountInv'
<1>1. UNCHANGED <<ini, rec, index, my, ini_dirty, writing, phase, tell, told, said, kicked, raced, mixed, behind>>
  BY DEF Send
<1> QED
  BY <1>1, CountFrame DEF Plays

\* A session that leaves: its kick is counted in memory.
LEMMA LeaveCount ==
  ASSUME Held, CountInv, NEW s \in Session, NEW r \in User_t, NEW dirty \in BOOLEAN, Leave(s, r, dirty),
         phase[s] \in {"pending", "listed", "old"}, said' = said,
         \/ r.messages = my[s].messages /\ r.kicks = my[s].kicks /\ kicked' = kicked
         \/ r.messages = my[s].messages /\ r.kicks = my[s].kicks + 1 /\ kicked' = kicked + 1
  PROVE  CountInv'
<1>1. /\ my'[s].messages = r.messages /\ my'[s].kicks = r.kicks
      /\ phase'[s] = "leaving" /\ writing'[s] = "ini"
      /\ \A p \in Process : p # s => my'[p] = my[p] /\ writing'[p] = writing[p]
      /\ \A t \in Session : t # s => phase'[t] = phase[t]
      /\ Meets(s)
  BY LeaveIs DEF Held
<1>2. s \in Process
  BY ProcessIs DEF Held
<1>3. ASSUME ~mixed' PROVE Counts(my[s])'
  <2>1. ~mixed
    BY <1>1, <1>2, <1>3, MeetsIs DEF Held
  <2>2. Counts(my[s])
    BY <2>1, CountParts DEF CountAll, CountMine, Plays
  <2> QED
    BY <1>1, <2>2 DEF Counts
<1> QED
  BY <1>1, <1>3, CountBegins DEF Plays

LEMMA QuitCount == ASSUME Held, CountInv, NEW s \in Session, Quit(s) PROVE CountInv'
<1>1. /\ UNCHANGED <<said, kicked>>
      /\ phase[s] \in {"pending", "listed", "old"} /\ Leave(s, my[s], ini_dirty[s])
  BY DEF Quit
<1>2. my[s] \in User_t /\ ini_dirty[s] \in BOOLEAN
  BY ProcessIs DEF Held, UserTypes
<1> QED
  BY <1>1, <1>2, LeaveCount

LEMMA ChangeCount ==
  ASSUME Held, CountInv, NEW s \in Session, NEW field, NEW value, Change_t(field, value), Change(s, field, value),
         phase[s] = "listed", UNCHANGED <<phase, said, kicked>>
  PROVE  CountInv'
<1>1. /\ my'[s].messages = my[s].messages /\ my'[s].kicks = my[s].kicks /\ writing'[s] = "ini"
      /\ \A p \in Process : p # s => my'[p] = my[p] /\ writing'[p] = writing[p]
      /\ Meets(s)
  BY ChangeIs DEF Held
<1>2. s \in Process
  BY ProcessIs DEF Held
<1>3. ASSUME ~mixed' PROVE Counts(my[s])'
  <2>1. ~mixed
    BY <1>1, <1>2, <1>3, MeetsIs DEF Held
  <2>2. Counts(my[s])
    BY <2>1, CountParts DEF CountAll, CountMine, Plays
  <2> QED
    BY <1>1, <2>2 DEF Counts
<1> QED
  BY <1>1, <1>3, CountBegins DEF Plays

LEMMA ReachdistCount ==
  ASSUME Held, CountInv, NEW s \in Session, NEW d \in {0, MapDefault}, Reachdist(s, d)
  PROVE  CountInv'
<1>1. UNCHANGED <<phase, said, kicked>> /\ phase[s] = "listed" /\ Change(s, "reach", d)
  BY DEF Reachdist
<1>2. Change_t("reach", d)
  BY DEF Change_t, MapDefault
<1> QED
  BY <1>1, <1>2, ChangeCount

LEMMA ReceiveCount == ASSUME Held, CountInv, NEW s \in Session, Receive(s) PROVE CountInv'
<1>1. /\ phase[s] = "listed" /\ UNCHANGED <<ini, rec, index, tell, said, behind, events>>
      /\ s \in Process /\ my[s] \in User_t
  BY ReceiveIs, ProcessIs DEF Held, UserTypes
<1>2. CASE Reread(s)
  <2>1. /\ my' = [my EXCEPT ![s] = ReadIni(my[s])]
        /\ UNCHANGED <<writing, phase, told, kicked, raced, mixed>>
    BY <1>2 DEF Reread
  <2>2. /\ ReadIni(my[s]).no = my[s].no /\ ReadIni(my[s]).messages = my[s].messages
        /\ ReadIni(my[s]).kicks = my[s].kicks
    BY <1>1, ReadIniIs DEF Held, UserTypes
  <2>3. \A p \in Process : my'[p] = IF p = s THEN ReadIni(my[s]) ELSE my[p]
    BY <1>1, <2>1 DEF Held, UserTypes
  <2> QED
    BY <1>1, <2>1, <2>2, <2>3, CountFrame DEF Plays
<1>3. CASE Change(s, "title", events) /\ UNCHANGED <<phase, kicked>>
  <2>1. Change_t("title", events)
    BY DEF Change_t, Held, UserTypes
  <2> QED
    BY <1>1, <1>3, <2>1, ChangeCount
<1>4. /\ Kicked(s) \in User_t /\ Kicked(s).messages = my[s].messages /\ Kicked(s).kicks = my[s].kicks + 1
  BY <1>1, KickedIs DEF User_t, Kicked
<1>5. CASE BeKicked(s)
  <2>1. Leave(s, Kicked(s), ini_dirty[s]) /\ kicked' = kicked + 1 /\ ini_dirty[s] \in BOOLEAN
    BY <1>5 DEF BeKicked, Held, UserTypes
  <2> QED
    BY <1>1, <1>4, <2>1, LeaveCount
<1>6. CASE BeBanned(s)
  <2> DEFINE r == [Kicked(s) EXCEPT !.banned = TRUE]
  <2>1. Leave(s, r, TRUE) /\ kicked' = kicked + 1
    BY <1>6 DEF BeBanned
  <2>2. r \in User_t /\ r.messages = my[s].messages /\ r.kicks = my[s].kicks + 1
    BY <1>4 DEF User_t
  <2> HIDE DEF r
  <2> QED
    BY <1>1, <2>1, <2>2, LeaveCount
<1> QED
  BY <1>2, <1>3, <1>5, <1>6, ReceiveIs
LEMMA SayCount == ASSUME Held, CountInv, NEW s \in Session, Say(s) PROVE CountInv'
<1>1. /\ UNCHANGED <<ini, rec, index, writing, phase, kicked, mixed, behind>> /\ said' = said + 1
      /\ my' = [my EXCEPT ![s].messages = @ + 1] /\ phase[s] \in {"listed", "old"} /\ writing[s] = "idle"
  BY DEF Say
<1>2. SUFFICES ASSUME ~mixed PROVE CountAll'
  BY <1>1, CountParts
<1>3. CountAll
  BY <1>2, CountParts
<1>4. s \in Process /\ my[s] \in User_t /\ Session \subseteq Process
      /\ Reaper \in Process \ {s} /\ Admin \in Process \ {s}
  BY ProcessIs DEF Held, UserTypes
<1>5. /\ my'[s].messages = my[s].messages + 1 /\ my'[s].kicks = my[s].kicks
      /\ \A p \in Process \ {s} : my'[p] = my[p]
  BY <1>1, <1>4 DEF Held, UserTypes, User_t
<1>6. Plays(s) /\ \A t \in Session : Plays(t)' <=> Plays(t)
  BY <1>1 DEF Plays
<1>7. CountWriters' /\ CountRuns' /\ writing[Reaper] = "idle"
  BY <1>1, <1>3, <1>6 DEF CountAll, CountWriters, CountRuns, CountReaper, NoneRuns
<1>8. CountReaper' /\ CountRec' /\ CountIni'
  BY <1>1, <1>6, <1>7 DEF CountReaper, CountRec, CountIni, NoneRuns
<1>9. CountMine'
  <2>1. Counts(my[s])
    BY <1>3, <1>6 DEF CountAll, CountMine
  <2>2. \A t \in Session : Plays(t)' => t = s
    BY <1>3, <1>6 DEF CountAll, CountRuns
  <2> QED
    BY <1>1, <1>5, <2>1, <2>2 DEF CountMine, Counts
<1>10. CountAdmin' /\ CountFile'
  BY <1>1, <1>3, <1>4, <1>5 DEF CountAll, CountAdmin, CountFile
<1> QED
  BY <1>7, <1>8, <1>9, <1>10 DEF CountAll

LEMMA TickCount == ASSUME Held, CountInv, NEW s \in Session, Tick(s) PROVE CountInv'
<1>1. /\ UNCHANGED <<ini, my, writing, phase, said, kicked, behind>> /\ phase[s] \in {"listed", "old"}
      /\ mixed' = (mixed \/ \E p \in Process : writing[p] # "idle")
  BY DEF Tick
<1>2. SUFFICES ASSUME ~mixed' PROVE CountAll'
  BY CountParts
<1>3. ~mixed /\ \A p \in Process : writing[p] = "idle"
  BY <1>1, <1>2 DEF Held, UserTypes
<1>4. CountAll
  BY <1>3, CountParts
<1>5. Plays(s) /\ \A t \in Session : Plays(t)' <=> Plays(t)
  BY <1>1 DEF Plays
<1>6. CountWriters' /\ CountRuns' /\ CountReaper' /\ CountAdmin' /\ CountFile'
  BY <1>1, <1>3, <1>4, <1>5, ProcessIs
     DEF Held, CountAll, CountWriters, CountRuns, CountReaper, CountAdmin, CountFile
<1>7. CountMine' /\ CountRec' /\ CountIni'
  BY <1>1, <1>4, <1>5 DEF CountAll, CountMine, CountRec, CountIni, NoneRuns, Counts
<1> QED
  BY <1>6, <1>7 DEF CountAll

LEMMA DieCount == ASSUME Held, CountInv, NEW s \in Session, SessionDies(s) PROVE CountInv'
<1>1. /\ UNCHANGED <<ini, rec, index, my, tell, told, mixed>> /\ Plays(s)
      /\ writing' = [writing EXCEPT ![s] = "idle"] /\ behind' = TRUE
      /\ said' = ReadUser.messages /\ kicked' = ReadUser.kicks
  BY DEF SessionDies
<1>2. phase'[s] \in {"dead", "none"} /\ \A t \in Session \ {s} : phase'[t] = phase[t]
  BY DieIs DEF Held
<1>3. SUFFICES ASSUME ~mixed PROVE CountAll'
  BY <1>1, CountParts
<1>4. CountAll
  BY <1>3, CountParts
<1>5. Reaper \in Process \ {s} /\ Admin \in Process \ {s} /\ s \in Process
  BY ProcessIs DEF Held
<1>6. \A p \in Process : writing'[p] = IF p = s THEN "idle" ELSE writing[p]
  BY <1>1, <1>5 DEF Held, UserTypes
<1>7. \A t \in Session : ~Plays(t)'
  BY <1>1, <1>2, <1>4 DEF CountAll, CountRuns, Plays
<1>8. ReadUser' = ReadUser
  BY <1>1 DEF ReadUser, LoadIni, Found
<1>9. CountWriters' /\ CountRuns' /\ CountMine' /\ CountIni'
  BY <1>1, <1>4, <1>6, <1>7 DEF CountAll, CountWriters, CountRuns, CountMine, CountIni
<1>10. CountReaper' /\ CountRec'
  BY <1>1, <1>4, <1>5, <1>6, <1>8 DEF CountAll, CountReaper, CountRec, NoneRuns, Counts
<1>11. CountAdmin' /\ CountFile'
  BY <1>1, <1>4, <1>5, <1>6 DEF CountAll, CountAdmin, CountFile
<1> QED
  BY <1>9, <1>10, <1>11 DEF CountAll

LEMMA ReapCount == ASSUME Held, CountInv, NEW s \in Session, CountKick(s) PROVE CountInv'
<1>1. /\ UNCHANGED <<ini, rec, index, ini_dirty, tokens, tell, told, said, behind, events>>
      /\ phase[s] = "dead" /\ writing[Reaper] = "idle"
  BY ReapIs
<1>2. CASE Found /\ ReapsRecord
  <2>1. /\ my'[Reaper].messages = rec[index].messages /\ my'[Reaper].kicks = rec[index].kicks + 1
        /\ writing'[Reaper] = "db" /\ \A p \in Process : p # Reaper => writing'[p] = writing[p]
        /\ kicked' = kicked + 1 /\ phase' = phase /\ Meets(Reaper)
    BY <1>2, ReapsRecordIs
  <2>2. SUFFICES ASSUME ~mixed' PROVE CountAll'
    BY CountParts
  <2>3. /\ ~mixed /\ \A q \in Process \ {Reaper} : writing[q] = "idle"
        /\ \A t \in Session \ {Reaper} : ~Plays(t)
    BY <2>1, <2>2, ProcessIs, MeetsIs DEF Held
  <2>4. NoneRuns /\ NoneRuns' /\ \A t \in Session : ~Plays(t)'
    BY <2>1, <2>3, ProcessIs DEF Held, NoneRuns, Plays
  <2>5. Counts(ReadUser)
    BY <1>1, <2>3, <2>4, CountParts DEF CountAll, CountRec
  <2>6. ReadUser.messages = rec[index].messages /\ ReadUser.kicks = rec[index].kicks
    BY <1>2, ReadUserIs DEF Held
  <2>7. CountReaper'
    BY <1>1, <2>1, <2>4, <2>5, <2>6 DEF CountReaper, Counts
  <2>8. CountWriters' /\ CountAdmin' /\ CountFile'
    BY <2>1, <2>3, ProcessIs DEF Held, CountWriters, CountAdmin, CountFile
  <2>9. CountRuns' /\ CountMine' /\ CountRec' /\ CountIni'
    BY <2>1, <2>4 DEF CountRuns, CountMine, CountRec, CountIni
  <2> QED
    BY <2>7, <2>8, <2>9 DEF CountAll
<1>3. CASE ReapsNone(s)
  <2>1. phase' = [phase EXCEPT ![s] = "none"] /\ UNCHANGED <<my, writing, kicked, raced, mixed>>
    BY <1>3 DEF ReapsNone
  <2>2. \A t \in Session : Plays(t)' <=> Plays(t)
    BY <1>1, <2>1 DEF Held, UserTypes, Plays
  <2> QED
    BY <1>1, <2>1, <2>2, CountFrame
<1> QED
  BY <1>2, <1>3, ReapIs

LEMMA AmendCount ==
  ASSUME Held, CountInv, NEW r \in User_t, NEW who \in SUBSET Session, Amend(r, who), r.no = index,
         r.messages = ReadUser.messages, r.kicks = ReadUser.kicks
  PROVE  CountInv'
<1>1. UNCHANGED <<ini, rec, index, ini_dirty, phase, tokens, said, kicked, behind>>
  BY DEF Amend
<1>2. /\ my'[Admin] = r /\ writing'[Admin] = "ini"
      /\ \A p \in Process : p # Admin => my'[p] = my[p] /\ writing'[p] = writing[p]
      /\ index # 0 /\ Meets(Admin)
  BY AmendIs DEF Held
<1>3. SUFFICES ASSUME ~mixed' PROVE CountAll'
  BY CountParts
<1>4. Admin \in Process /\ Reaper \in Process \ {Admin} /\ \A s \in Session : s \in Process \ {Admin}
  BY ProcessIs DEF Held
<1>5. ~mixed /\ \A q \in Process \ {Admin} : writing[q] = "idle"
  BY <1>2, <1>3, <1>4, MeetsIs DEF Held
<1>6. CountAll
  BY <1>5, CountParts
<1>7. ReadUser' = ReadUser
  BY <1>1 DEF ReadUser, LoadIni, Found
<1>8. ReadUser.messages = rec[index].messages /\ ReadUser.kicks = rec[index].kicks
  BY <1>2, ReadUserIs DEF Held, Found
<1>9. \A t \in Session : Plays(t)' <=> Plays(t)
  BY <1>1 DEF Plays
<1>10. CountWriters' /\ CountRuns' /\ CountReaper' /\ CountFile'
  BY <1>2, <1>4, <1>5, <1>6, <1>9 DEF CountAll, CountWriters, CountRuns, CountReaper, CountFile
<1>11. CountMine' /\ CountAdmin'
  BY <1>1, <1>2, <1>4, <1>6, <1>8, <1>9 DEF CountAll, CountMine, CountAdmin, Counts
<1>12. CountRec' /\ CountIni'
  BY <1>1, <1>2, <1>4, <1>6, <1>7, <1>9 DEF CountAll, CountRec, CountIni, Counts, NoneRuns
<1> QED
  BY <1>10, <1>11, <1>12 DEF CountAll

LEMMA AdminCount ==
  ASSUME Held, CountInv, BanOffline \/ Unban \/ \E g \in {AdminGroup, UserGroup} : Setperm(g)
  PROVE  CountInv'
<1>1. \E r \in User_t, who \in SUBSET Session :
        /\ Amend(r, who) /\ r.no = index
        /\ r.messages = ReadUser.messages /\ r.kicks = ReadUser.kicks
  <2>1. {} \in SUBSET Session /\ Listeners \in SUBSET Session
    BY DEF Listeners
  <2>2. CASE BanOffline
    BY <2>1, <2>2, BanOfflineIs
  <2>3. CASE Unban
    BY <2>1, <2>3, UnbanIs
  <2>4. CASE \E g \in {AdminGroup, UserGroup} : Setperm(g)
    BY <2>1, <2>4, SetpermIs
  <2> QED
    BY <2>2, <2>3, <2>4
<1> QED
  BY <1>1, AmendCount

LEMMA RebuildCount == ASSUME Held, CountInv, Rebuild PROVE CountInv'
<1>1. /\ ini \in File_t /\ NoneRuns /\ writing[Admin] = "idle" /\ writing[Reaper] = "idle"
      /\ index' # 0 => rec'[index'] = [messages |-> ini.messages, kicks |-> ini.kicks]
      /\ said' = (IF behind THEN ini.messages ELSE said) /\ kicked' = (IF behind THEN ini.kicks ELSE kicked)
      /\ UNCHANGED <<ini, my, ini_dirty, writing, phase, tokens, tell, told, raced, mixed, behind>>
  BY RebuildIs
<1>2. SUFFICES ASSUME ~mixed PROVE CountAll'
  BY <1>1, CountParts
<1>3. CountAll
  BY <1>2, CountParts
<1>4. ini # Absent
  BY <1>1, AbsentIsNone
<1>5. Counts(ini)'
  BY <1>1, <1>3, <1>4 DEF CountAll, CountIni, Counts
<1>6. UserTypes'
  BY RebuildFlows
<1>7. Counts(ReadUser)'
  <2>1. ReadIs'
    BY <1>6, ReadCountsNext
  <2> QED
    BY <1>1, <1>4, <1>5, <2>1 DEF ReadIs, Counts
<1>8. \A p \in Process : writing[p] = "idle"
  BY <1>1, RunningIs, ProcessIs DEF Held, NoneRuns
<1>9. NoneRuns' /\ \A s \in Session : ~Plays(s)'
  BY <1>1 DEF NoneRuns, Plays
<1>10. CountWriters' /\ CountRuns' /\ CountReaper' /\ CountMine' /\ CountAdmin' /\ CountFile'
  BY <1>1, <1>8, <1>9 DEF CountWriters, CountRuns, CountReaper, CountMine, CountAdmin, CountFile
<1>11. CountRec' /\ CountIni'
  BY <1>5, <1>7 DEF CountRec, CountIni
<1> QED
  BY <1>10, <1>11 DEF CountAll

LEMMA WriteIniCount == ASSUME Held, CountInv, NEW p \in Process, WriteIni(p) PROVE CountInv'
<1>1. UNCHANGED <<rec, index, my, phase, tokens, tell, told, said, kicked, raced, mixed, behind, events>>
  BY DEF WriteIni
<1>2. /\ p # Reaper /\ ini' # Absent
      /\ ini'.messages = my[p].messages /\ ini'.kicks = my[p].kicks
      /\ writing[p] = "ini" /\ writing'[p] = "db" /\ \A q \in Process : q # p => writing'[q] = writing[q]
  BY WriteIniIs
<1>3. SUFFICES ASSUME ~mixed PROVE CountAll'
  BY <1>1, CountParts
<1>4. CountAll
  BY <1>3, CountParts
<1>5. \A q \in Process \ {p} : writing[q] = "idle" /\ writing'[q] = "idle"
  BY <1>2, <1>4 DEF CountAll, CountWriters
<1>6. Reaper \in Process \ {p} /\ Admin \in Process /\ (p \in Session \/ p = Admin)
  BY <1>2, ProcessIs DEF Held
<1>7. (\A t \in Session : Plays(t)' <=> Plays(t)) /\ (NoneRuns' <=> NoneRuns)
  BY <1>1 DEF Plays, NoneRuns
<1>8. CountWriters' /\ CountRuns' /\ CountReaper'
  BY <1>4, <1>5, <1>6, <1>7 DEF CountAll, CountWriters, CountRuns, CountReaper
<1>9. CountMine' /\ CountAdmin' /\ CountFile'
  <2>1. writing'[Admin] # "idle" => writing[Admin] # "idle"
    BY <1>2, <1>6
  <2> QED
    BY <1>1, <1>2, <1>4, <1>5, <1>7, <2>1 DEF CountAll, CountMine, CountAdmin, CountFile, Counts
<1>10. ASSUME NoneRuns'
       PROVE  p = Admin /\ index # 0 /\ Counts(ReadUser) /\ ReadIs
              /\ ini'.messages = rec[index].messages /\ ini'.kicks = rec[index].kicks
  <2>1. p = Admin
    BY <1>2, <1>6, <1>7, <1>10, RunningIs DEF NoneRuns
  <2>2. index # 0 /\ my[p].messages = rec[index].messages /\ my[p].kicks = rec[index].kicks
    BY <1>2, <1>4, <2>1 DEF CountAll, CountAdmin
  <2>3. Counts(ReadUser)
    BY <1>4, <1>5, <1>6, <1>7, <1>10 DEF CountAll, CountRec
  <2>4. ReadIs
    BY ReadCounts DEF Held
  <2> QED
    BY <1>2, <2>1, <2>2, <2>3, <2>4
<1>11. CountRec' /\ CountIni'
  <2> SUFFICES ASSUME NoneRuns' PROVE Counts(ReadUser)' /\ Counts(ini)'
    BY DEF CountRec, CountIni
  <2>1. UserTypes'
    BY WriteIniFlows
  <2>2. ReadIs'
    BY <2>1, ReadCountsNext
  <2> QED
    BY <1>1, <1>10, <2>2 DEF ReadIs, Counts
<1> QED
  BY <1>8, <1>9, <1>11 DEF CountAll

LEMMA WriteDbCount == ASSUME Held, CountInv, NEW p \in Process, WriteDb(p) PROVE CountInv'
<1>1. UNCHANGED <<ini, ini_dirty, told, said, kicked, mixed, events>> /\ behind' = (p = Reaper)
  BY DEF WriteDb
<1>2. /\ writing[p] = "db" /\ writing'[p] = "idle" /\ \A q \in Process : q # p => writing'[q] = writing[q]
      /\ index' \in 1 .. Len(rec') /\ Len(rec') \in Nat
      /\ rec'[index'] = [messages |-> my[p].messages, kicks |-> my[p].kicks]
  BY WriteDbIs
<1>3. \A s \in Session :
           phase'[s] = IF s = p /\ phase[s] = "login" THEN "pending"
                       ELSE IF (s = p /\ phase[s] = "leaving") \/ (p = Reaper /\ phase[s] = "dead") THEN "none"
                       ELSE phase[s]
  BY WriteDbIs
<1>4. SUFFICES ASSUME ~mixed PROVE CountAll'
  BY <1>1, CountParts
<1>5. CountAll
  BY <1>4, CountParts
<1>6. \A q \in Process : writing'[q] = "idle"
  BY <1>2, <1>5 DEF CountAll, CountWriters
<1>7. Session \subseteq Process /\ Reaper \in Process /\ Admin \in Process
      /\ (p \in Session \/ p = Admin \/ p = Reaper) /\ Reaper # Admin
      /\ Admin \notin Session /\ Reaper \notin Session
  BY ProcessIs DEF Held
<1>8. \A t \in Session : (Plays(t)' => Plays(t)) /\ (p = Admin => (Plays(t)' <=> Plays(t)))
  BY <1>3, <1>7 DEF Plays
<1>9. \A q \in Process : my'[q].messages = my[q].messages /\ my'[q].kicks = my[q].kicks
  <2>1. my[p] \in User_t
    BY DEF Held, UserTypes
  <2>2. my' = [my EXCEPT ![p].no = index'] /\ \A q \in Process \ {p} : my'[q] = my[q]
    BY WriteDbIs
  <2>3. my'[p] = [my[p] EXCEPT !.no = index']
    BY <2>2 DEF Held, UserTypes
  <2>4. my'[p].messages = my[p].messages /\ my'[p].kicks = my[p].kicks
    BY <2>1, <2>3 DEF User_t
  <2> QED
    BY <2>2, <2>4
<1>10. CountWriters' /\ CountRuns' /\ CountReaper' /\ CountAdmin' /\ CountFile'
  BY <1>5, <1>6, <1>7, <1>8
     DEF CountAll, CountWriters, CountRuns, CountReaper, CountAdmin, CountFile
<1>11. CountMine'
  BY <1>1, <1>5, <1>7, <1>8, <1>9 DEF CountAll, CountMine, Counts
<1>12. ASSUME NoneRuns' PROVE Counts(my[p])
  <2>1. CASE p = Reaper
    BY <1>2, <1>5, <2>1 DEF CountAll, CountReaper
  <2>2. CASE p \in Session
    BY <1>2, <1>5, <2>2, RunningIs DEF CountAll, CountMine
  <2>3. CASE p = Admin
    <3>1. NoneRuns /\ writing[Reaper] = "idle"
      BY <1>2, <1>5, <1>7, <1>8, <1>12, <2>3 DEF CountAll, CountWriters, NoneRuns
    <3>2. Counts(ReadUser) /\ ReadIs
      BY <1>5, <3>1, ReadCounts DEF CountAll, CountRec, Held
    <3>3. index # 0 /\ my[p].messages = rec[index].messages /\ my[p].kicks = rec[index].kicks
      BY <1>2, <1>5, <2>3 DEF CountAll, CountAdmin
    <3> QED
      BY <3>2, <3>3 DEF ReadIs, Counts
  <2> QED
    BY <1>7, <2>1, <2>2, <2>3
<1>13. CountRec'
  <2> SUFFICES ASSUME NoneRuns' PROVE Counts(ReadUser)'
    BY DEF CountRec
  <2>1. UserTypes' /\ index' # 0
    BY <1>2, WriteDbFlows
  <2>2. ReadIs'
    BY <2>1, ReadCountsNext
  <2> QED
    BY <1>1, <1>2, <1>12, <2>1, <2>2 DEF ReadIs, Counts
<1>14. CountIni'
  BY <1>1, <1>2, <1>5, <1>12 DEF CountAll, CountIni, CountFile, Counts
<1> QED
  BY <1>10, <1>11, <1>13, <1>14 DEF CountAll

-----------------------------------------------------------------------------
(* What always holds *)

LEMMA InitHolds == ASSUME UserConstants, UserInit PROVE UserIInv
<1>1. UserTypes /\ FlowInv
  BY InitFlows
<1>2. /\ \A p \in Process : writing[p] = "idle" /\ ~Busy(p)
      /\ \A s \in Session : ~Plays(s) /\ phase[s] = "none" /\ tokens[s] = <<>>
      /\ Reaper \in Process /\ Admin \in Process
  BY ProcessIs DEF UserInit, Plays, Busy
<1>3. ToldInv
  <2>1. ini = Absent => Says(NewUser)
    BY DEF UserInit, Says, SaysRest, NewUser, UserGroup, MapDefault
  <2>2. ini # Absent => Says(LoadIni)
    <3> SUFFICES ASSUME ini # Absent PROVE Says(LoadIni)
      OBVIOUS
    <3>1. PICK g \in {UserGroup, -1} : ini = [NewUser EXCEPT !.no = 1, !.group = g]
      BY DEF UserInit
    <3>2. told = [group |-> UserGroup, banned |-> ini.group < 0, title |-> 0, reach |-> MapDefault]
      BY DEF UserInit
    <3>3. ini.group = g /\ ini.banned = FALSE /\ ini.title = 0 /\ ini \in File_t
      BY <1>1, <3>1 DEF UserTypes, NewUser
    <3>4. CASE g = -1
      <4>1. LoadIni = [ini EXCEPT !.group = UserGroup, !.banned = TRUE]
        BY <3>3, <3>4 DEF LoadIni
      <4>2. LoadIni.group = UserGroup /\ LoadIni.banned = TRUE /\ LoadIni.title = 0
        BY <3>3, <4>1 DEF File_t
      <4>3. ini.group < 0
        BY <3>3, <3>4
      <4>4. told.group = UserGroup /\ told.banned = TRUE /\ told.title = 0 /\ told.reach = MapDefault
        BY <3>2, <4>3
      <4> QED
        BY <4>2, <4>4 DEF Says, SaysRest
    <3>5. CASE g = UserGroup
      <4>1. LoadIni = ini /\ ~(ini.group < 0)
        BY <3>3, <3>5 DEF LoadIni, UserGroup
      <4>2. told.group = UserGroup /\ told.banned = FALSE /\ told.title = 0 /\ told.reach = MapDefault
        <5>1. told.banned \in BOOLEAN
          BY <1>1 DEF UserTypes
        <5>2. told.banned = (ini.group < 0)
          BY <3>2
        <5>3. ~told.banned
          BY <4>1, <5>2, Zenon
        <5>4. told.banned = FALSE
          BY <5>1, <5>3
        <5> QED
          BY <3>2, <5>4
      <4> QED
        BY <3>3, <3>5, <4>1, <4>2 DEF Says, SaysRest
    <3> QED
      BY <3>1, <3>4, <3>5
  <2>3. ToldBusy /\ ToldMy /\ ToldNew /\ ToldFile /\ ToldPlay /\ ToldBan
    BY <1>2, <2>1, <2>2 DEF ToldBusy, ToldMy, ToldNew, ToldFile, ToldPlay, ToldBan, NoBanAhead, Listeners
  <2> QED
    BY <2>3, ToldParts
<1>4. CountInv
  <2>1. said = 0 /\ kicked = 0
    BY DEF UserInit
  <2>2. ini # Absent => ini.messages = 0 /\ ini.kicks = 0
    BY DEF UserInit, NewUser
  <2>3. index # 0 => rec[index].messages = 0 /\ rec[index].kicks = 0
    BY DEF UserInit
  <2>4. Counts(ReadUser)
    BY <1>1, <2>1, <2>2, <2>3, ReadUserIs DEF Found, Counts
  <2>5. CountAll
    BY <1>2, <2>1, <2>2, <2>4 DEF CountAll, CountWriters, CountRuns, CountReaper, CountMine, CountAdmin,
       CountRec, CountFile, CountIni, Counts
  <2> QED
    BY <2>5, CountParts
<1> QED
  BY <1>1, <1>3, <1>4 DEF UserIInv

LEMMA NextHolds == ASSUME UserConstants, UserIInv, UserNext PROVE UserIInv'
<1>1. Held /\ ToldInv /\ CountInv
  BY DEF UserIInv, Held
<1>2. CASE \E p \in Process : WriteIni(p)
  BY <1>1, <1>2, WriteIniFlows, WriteIniTold, WriteIniCount DEF UserIInv
<1>3. CASE \E p \in Process : WriteDb(p)
  BY <1>1, <1>3, WriteDbFlows, WriteDbTold, WriteDbCount DEF UserIInv
<1>4. ASSUME NEW s \in Session,
             \/ Login(s) \/ Listed(s) \/ Quit(s) \/ Say(s) \/ Tick(s) \/ Receive(s)
             \/ SessionDies(s) \/ CountKick(s)
             \/ \E d \in {0, MapDefault} : Reachdist(s, d)
             \/ \E token \in {"kick", "ban", "title"} : Send(s, token)
      PROVE  UserIInv'
  <2>1. CASE Login(s)
    BY <1>1, <2>1, LoginFlows, LoginTold, LoginCount DEF UserIInv
  <2>2. CASE Listed(s)
    BY <1>1, <2>2, ListedFlows, ListedTold, ListedCount DEF UserIInv
  <2>3. CASE Quit(s)
    BY <1>1, <2>3, QuitFlows, QuitTold, QuitCount DEF UserIInv
  <2>4. CASE Say(s)
    BY <1>1, <2>4, SayFlows, SayTold, SayCount DEF UserIInv
  <2>5. CASE Tick(s)
    BY <1>1, <2>5, TickFlows, TickTold, TickCount DEF UserIInv
  <2>6. CASE Receive(s)
    BY <1>1, <2>6, ReceiveFlows, ReceiveTold, ReceiveCount DEF UserIInv
  <2>7. CASE SessionDies(s)
    BY <1>1, <2>7, DieFlows, DieTold, DieCount DEF UserIInv
  <2>8. CASE CountKick(s)
    BY <1>1, <2>8, ReapFlows, ReapTold, ReapCount DEF UserIInv
  <2>9. CASE \E d \in {0, MapDefault} : Reachdist(s, d)
    BY <1>1, <2>9, ReachdistFlows, ReachdistTold, ReachdistCount DEF UserIInv
  <2>10. CASE \E token \in {"kick", "ban", "title"} : Send(s, token)
    BY <1>1, <2>10, SendFlows, SendTold, SendCount DEF UserIInv
  <2> QED
    BY <1>4, <2>1, <2>2, <2>3, <2>4, <2>5, <2>6, <2>7, <2>8, <2>9, <2>10
<1>5. CASE BanOffline \/ Unban \/ \E g \in {AdminGroup, UserGroup} : Setperm(g)
  BY <1>1, <1>5, AdminFlows, AdminTold, AdminCount DEF UserIInv
<1>6. CASE Rebuild
  BY <1>1, <1>6, RebuildFlows, RebuildTold, RebuildCount DEF UserIInv
<1> QED
  BY <1>2, <1>3, <1>4, <1>5, <1>6 DEF UserNext

LEMMA StutterHolds == ASSUME UserIInv, UNCHANGED recordVars PROVE UserIInv'
<1>1. /\ LoadIni' = LoadIni /\ ReadUser' = ReadUser /\ Listeners' = Listeners
      /\ \A s \in Session : Plays(s)' <=> Plays(s)
      /\ \A p \in Process : Busy(p)' <=> Busy(p)
  BY DEF recordVars, LoadIni, ReadUser, Found, Listeners, Plays, Busy
<1>2. UserTypes'
  BY DEF UserIInv, UserTypes, recordVars
<1>3. FlowInv'
  BY <1>1 DEF UserIInv, FlowInv, Active, recordVars
<1>4. ToldInv'
  BY <1>1 DEF UserIInv, ToldInv, Says, SaysRest, ToBeTold, recordVars
<1>5. CountInv'
  BY <1>1 DEF UserIInv, CountInv, Counts, NoneRuns, recordVars
<1> QED
  BY <1>2, <1>3, <1>4, <1>5 DEF UserIInv

\* UserIInv holds always: who works on a user's file, and who on his record, and what each has
\* of him (userrecord.c).
THEOREM UserInvariant == ASSUME UserConstants PROVE UserSpec => []UserIInv
<1>1. UserInit => UserIInv
  BY InitHolds
<1>2. UserIInv /\ [UserNext]_recordVars => UserIInv'
  BY NextHolds, StutterHolds
<1> QED
  BY <1>1, <1>2, PTL DEF UserSpec

\* What was last said of a user is in his file, and in the session that plays, once all have
\* written: of any number of sessions, as long as no two work on the file at the same time
\* (write_userrec, stop_user, process_ipc_cmd).
THEOREM FileAsTold == ASSUME UserConstants PROVE UserSpec => []AsTold
<1>1. UserIInv => AsTold
  <2> SUFFICES ASSUME UserIInv, ~raced, Quiet, ini # Absent
               PROVE  /\ LoadIni.group = told.group /\ LoadIni.banned = told.banned
                      /\ LoadIni.title = told.title
                      /\ told.reach # MapDefault => LoadIni.reach = told.reach
                      /\ \A s \in Listeners :
                           /\ "loaduser" \notin ToSet(tokens[s]) => my[s].group = told.group
                           /\ ~told.banned
    BY DEF AsTold
  <2>1. ToldFile /\ ToldPlay
    BY ToldParts DEF UserIInv
  <2>2. Says(LoadIni)
    BY <2>1 DEF ToldFile, Quiet
  <2>3. \A s \in Session : ~ToBeTold(s)
    BY ProcessIs DEF ToBeTold, Quiet
  <2> QED
    BY <2>1, <2>2, <2>3 DEF ToldPlay, Listeners, Says, SaysRest
<1> QED
  BY <1>1, UserInvariant, PTL

\* Every message and every kick is counted once, by the session that runs and by the record when
\* none does, also over a database that is rebuilt: of any number of sessions, as long as one
\* runs at a time and nobody writes the record meanwhile (put_userrec, delete_session_id,
\* rebuild_user_database).
THEOREM CountedOnce == ASSUME UserConstants PROVE UserSpec => []Counted
<1>1. UserIInv => Counted
  <2> SUFFICES ASSUME UserIInv, ~mixed, Quiet
               PROVE  LET r == IF \E s \in Session : Plays(s) THEN my[CHOOSE s \in Session : Plays(s)] ELSE ReadUser
                      IN r.messages = said /\ r.kicks = kicked
    BY DEF Counted
  <2>1. CountMine /\ CountRec
    BY CountParts DEF UserIInv, CountAll
  <2>2. CASE \E s \in Session : Plays(s)
    BY <2>1, <2>2 DEF CountMine, Counts
  <2>3. CASE ~\E s \in Session : Plays(s)
    BY <2>1, <2>3, ProcessIs DEF CountRec, Counts, NoneRuns, Quiet
  <2> QED
    BY <2>2, <2>3
<1> QED
  BY <1>1, UserInvariant, PTL

-----------------------------------------------------------------------------
(* Listener: sets of levels *)

LEMMA LevelSets ==
  ASSUME NEW S \in SUBSET Level
  PROVE  IsFiniteSet(S) /\ Cardinality(S) \in Nat
BY ListenerAssumption, FS_Subset, FS_CardinalityType

LEMMA FewerLevels ==
  ASSUME NEW T \in SUBSET Level, NEW S \in SUBSET T
  PROVE  Cardinality(S) <= Cardinality(T)
BY LevelSets, FS_Subset

LEMMA OneLevelMore ==
  ASSUME NEW S \in SUBSET Level, NEW l \in Level, l \notin S
  PROVE  Cardinality(S \cup {l}) = Cardinality(S) + 1
BY LevelSets, FS_AddElement

LEMMA OneLevelLess ==
  ASSUME NEW S \in SUBSET Level, NEW l \in S
  PROVE  Cardinality(S \ {l}) = Cardinality(S) - 1
BY LevelSets, FS_RemoveElement

LEMMA LoadedSets ==
  /\ Loaded \in SUBSET Level
  /\ \A s \in Saver : Passed(s) \in SUBSET Level /\ Passed(s) \in SUBSET Loaded
BY DEF Loaded, Passed

-----------------------------------------------------------------------------
(* Listener: the types *)

LEMMA ListenerStarts ==
  ASSUME ListenerInit PROVE ListenerIInv
<1>1. Loaded = {}
  BY DEF ListenerInit, Loaded
<1>2. Cardinality(Loaded) = 0
  BY <1>1, FS_EmptySet
<1>3. TypeOK
  <2>1. saver \in [Saver -> Saver_t]
    BY DEF ListenerInit, Idle, Saver_t
  <2>2. counted \in [loaded : Nat, pinned : Nat, scanned : BOOLEAN, changed : BOOLEAN]
    BY DEF ListenerInit, NotCounted
  <2>3. /\ loaded \in [Level -> BOOLEAN] /\ in_use \in [Level -> BOOLEAN]
        /\ dirty_save \in [Level -> BOOLEAN]
        /\ force_unload \in [Level -> BOOLEAN] /\ force_backup \in [Level -> BOOLEAN]
    BY DEF ListenerInit
  <2>4. on_level \in [User -> Level \cup {None}] /\ ops \in 0 .. MaxOps
    BY ListenerAssumption DEF ListenerInit
  <2> QED
    BY <2>1, <2>2, <2>3, <2>4 DEF ListenerInit, TypeOK
<1>4. SaverInv
  BY DEF ListenerInit, SaverInv, Idle, Scanning
<1>5. LoadedInv
  BY <1>2 DEF ListenerInit, LoadedInv, CountNotOver, Idle, Scanning, NotCounted
<1> QED
  BY <1>3, <1>4, <1>5 DEF ListenerIInv

LEMMA PlayerTypes ==
  ASSUME TypeOK, NEW u \in User,
         \/ \E l \in Level : Enter(u, l)
         \/ Edit(u) \/ CmdSave(u) \/ StopRead(u) \/ Killed(u) \/ UserStep(u)
  PROVE  TypeOK'
<1> USE ListenerAssumption DEF Set, Op, userVars, levelVars, sharedVars, listenerVars, timers
<1>1. CASE \E l \in Level : Enter(u, l)
  <2>1. PICK l \in Level : Enter(u, l)
    BY <1>1
  <2>2. /\ loaded' \in [Level -> BOOLEAN] /\ in_use' \in [Level -> BOOLEAN]
        /\ dirty_save' \in [Level -> BOOLEAN]
        /\ force_unload' \in [Level -> BOOLEAN] /\ force_backup' \in [Level -> BOOLEAN]
    <3>1. CASE loaded[l]
      BY <2>1, <3>1 DEF TypeOK, Enter
    <3>2. CASE ~loaded[l]
      <4>1. loaded' \in [Level -> BOOLEAN] /\ in_use' \in [Level -> BOOLEAN]
        BY <2>1, <3>2 DEF TypeOK, Enter
      <4>2. dirty_save' \in [Level -> BOOLEAN]
        BY <2>1, <3>2 DEF TypeOK, Enter
      <4>3. force_unload' \in [Level -> BOOLEAN] /\ force_backup' \in [Level -> BOOLEAN]
        BY <2>1, <3>2 DEF TypeOK, Enter
      <4> QED
        BY <4>1, <4>2, <4>3
    <3> QED
      BY <3>1, <3>2
  <2>3. loaded_levels' \in Nat
    BY <2>1 DEF TypeOK, Enter
  <2>4. on_level' \in [User -> Level \cup {None}] /\ active' \in [User -> BOOLEAN]
    BY <2>1 DEF TypeOK, Enter
  <2> QED
    BY <2>1, <2>2, <2>3, <2>4 DEF TypeOK, Enter
<1>2. CASE Edit(u)
  BY <1>2 DEF TypeOK, Edit
<1>3. CASE CmdSave(u)
  BY <1>3 DEF TypeOK, CmdSave
<1>4. CASE StopRead(u)
  BY <1>4 DEF TypeOK, StopRead
<1>5. CASE Killed(u)
  BY <1>5 DEF TypeOK, Killed
<1>6. CASE StopAdd(u)
  BY <1>6 DEF TypeOK, StopAdd
<1>7. CASE StopInactive(u)
  BY <1>7 DEF TypeOK, StopInactive
<1>8. CASE StopPinned(u)
  BY <1>8 DEF TypeOK, StopPinned
<1>9. CASE ThrownOut(u)
  BY <1>9 DEF TypeOK, ThrownOut
<1> QED
  BY <1>1, <1>2, <1>3, <1>4, <1>5, <1>6, <1>7, <1>8, <1>9 DEF UserStep

LEMMA SignalTypes ==
  ASSUME TypeOK, (\E l \in Level : CmdUnload(l)) \/ CmdRestart \/ SaveDue \/ UnloadDue
  PROVE  TypeOK'
<1> USE ListenerAssumption DEF Set, Op, userVars, levelVars, sharedVars, listenerVars, timers
<1>1. CASE \E l \in Level : CmdUnload(l)
  BY <1>1 DEF TypeOK, CmdUnload
<1>2. CASE CmdRestart
  BY <1>2 DEF TypeOK, CmdRestart
<1>3. CASE SaveDue
  BY <1>3 DEF TypeOK, SaveDue
<1>4. CASE UnloadDue
  BY <1>4 DEF TypeOK, UnloadDue
<1> QED
  BY <1>1, <1>2, <1>3, <1>4

\* The record of a saver that starts
LEMMA ForkTypes ==
  ASSUME NEW b \in BOOLEAN, NEW c \in BOOLEAN
  PROVE  /\ [Idle EXCEPT !.at = "start", !.unload = b, !.timed = c] \in Saver_t
         /\ [Idle EXCEPT !.at = "start", !.unload = b, !.timed = c].at = "start"
<1>1. Idle \in Saver_t
  BY DEF Idle, Saver_t
<1> QED
  BY <1>1 DEF Saver_t

\* What the steps of a saver change of its record
LEMMA PassUpdates ==
  ASSUME NEW r \in Saver_t, NEW b \in BOOLEAN
  PROVE  /\ [r EXCEPT !.at = "look", !.todo = Level, !.count = 0, !.again = FALSE] \in Saver_t
         /\ [r EXCEPT !.at = "start", !.unload = FALSE, !.timed = b] \in Saver_t
<1>1. [r EXCEPT !.at = "look", !.todo = Level, !.count = 0, !.again = FALSE] \in Saver_t
  BY DEF Saver_t
<1>2. [r EXCEPT !.at = "start", !.unload = FALSE, !.timed = b] \in Saver_t
  BY DEF Saver_t
<1> QED
  BY <1>1, <1>2

LEMMA UnloadUpdates ==
  ASSUME NEW r \in Saver_t
  PROVE  /\ [r EXCEPT !.at = "look", !.level = None, !.again = TRUE] \in Saver_t
         /\ r.count # 0 => [r EXCEPT !.at = "look", !.level = None, !.count = @ - 1] \in Saver_t
<1>1. [r EXCEPT !.at = "look", !.level = None, !.again = TRUE] \in Saver_t
  BY DEF Saver_t
<1>2. \A n \in Nat : [r EXCEPT !.at = "look", !.level = None, !.count = n] \in Saver_t
  BY DEF Saver_t
<1>3. r.count # 0 => r.count - 1 \in Nat
  BY DEF Saver_t
<1> QED
  BY <1>1, <1>2, <1>3

LEMMA LookUpdates ==
  ASSUME NEW r \in Saver_t, NEW l \in Level, NEW b \in BOOLEAN
  PROVE  /\ [r EXCEPT !.todo = @ \ {l}] \in Saver_t
         /\ [r EXCEPT !.todo = @ \ {l}, !.count = @ + 1, !.timed = b] \in Saver_t
         /\ [r EXCEPT !.at = "unload", !.level = l] \in Saver_t
<1>1. [r EXCEPT !.todo = @ \ {l}] \in Saver_t
  BY DEF Saver_t
<1>2. \A n \in Nat : [r EXCEPT !.todo = @ \ {l}, !.count = n, !.timed = b] \in Saver_t
  BY DEF Saver_t
<1>3. r.count + 1 \in Nat
  BY DEF Saver_t
<1>4. [r EXCEPT !.at = "unload", !.level = l] \in Saver_t
  BY DEF Saver_t
<1> QED
  BY <1>1, <1>2, <1>3, <1>4

LEMMA LoopTypes ==
  ASSUME TypeOK, ListenerStep
  PROVE  TypeOK'
<1> USE DEF Set, Op, userVars, levelVars, sharedVars, listenerVars, timers
<1>1. CASE DoRestart
  BY <1>1 DEF TypeOK, DoRestart
<1>2. CASE CleanupZombies
  <2>1. Cardinality({u \in User : leaving[u] = "dead"}) \in Nat
    BY ListenerAssumption, FS_Subset, FS_CardinalityType
  <2>2. generation' \in Nat
    BY <1>2, <2>1 DEF TypeOK, CleanupZombies
  <2>3. saver' \in [Saver -> Saver_t]
    <3>1. Idle \in Saver_t
      BY DEF Idle, Saver_t
    <3> QED
      BY <1>2, <3>1 DEF TypeOK, CleanupZombies
  <2>4. /\ leaving' \in [User -> {"no", "read", "added", "inactive", "pinned", "dead"}]
        /\ active' \in [User -> BOOLEAN]
        /\ on_level' \in [User -> Level \cup {None}]
    BY <1>2 DEF TypeOK, CleanupZombies
  <2>5. backup_pid' \in Saver \cup {None} /\ trigger_unload' \in BOOLEAN
    BY <1>2 DEF TypeOK, CleanupZombies
  <2> QED
    BY <1>2, <2>2, <2>3, <2>4, <2>5 DEF TypeOK, CleanupZombies
<1>3. CASE StartNothing
  BY <1>3 DEF TypeOK, StartNothing
<1>4. CASE ScanLevels
  <2>1. /\ Cardinality(Loaded) \in Nat
        /\ Cardinality({l \in Loaded : InUse(l)}) \in Nat
    <3>1. {l \in Loaded : InUse(l)} \in SUBSET Level
      BY DEF Loaded
    <3> QED
      BY <3>1, LevelSets, LoadedSets
  <2>2. counted' \in [loaded : Nat, pinned : Nat, scanned : BOOLEAN, changed : BOOLEAN]
    <3>1. CASE counted' = NotCounted
      BY <3>1 DEF NotCounted
    <3>2. CASE counted' = [loaded |-> Cardinality(Loaded),
                            pinned |-> Cardinality({l \in Loaded : InUse(l)}), scanned |-> TRUE,
                            changed |-> \E l \in Loaded : force_backup[l] \/ InUse(l) # in_use[l]]
      BY <2>1, <3>2
    <3> QED
      BY <1>4, <3>1, <3>2 DEF ScanLevels
  <2>3. in_use' \in [Level -> BOOLEAN]
    <3>1. \A l \in Level : InUse(l) \in BOOLEAN
      BY DEF InUse
    <3>2. [l \in Level |-> IF loaded[l] THEN InUse(l) ELSE in_use[l]] \in [Level -> BOOLEAN]
      BY <3>1 DEF TypeOK
    <3>3. in_use \in [Level -> BOOLEAN]
      BY DEF TypeOK
    <3> QED
      BY <1>4, <3>2, <3>3 DEF ScanLevels
  <2>4. generation' \in Nat /\ cleanup_generation' \in Nat /\ trigger_backup' \in BOOLEAN
    BY <1>4 DEF TypeOK, ScanLevels, Backup
  <2> QED
    BY <1>4, <2>2, <2>3, <2>4 DEF TypeOK, ScanLevels
<1>5. CASE \E s \in Saver : StoreCounts(s)
  <2>1. PICK s \in Saver : StoreCounts(s)
    BY <1>5
  <2>2. loaded_levels' \in Nat /\ pinned_levels' \in Nat
    BY <2>1 DEF TypeOK, StoreCounts
  <2>3. counted' \in [loaded : Nat, pinned : Nat, scanned : BOOLEAN, changed : BOOLEAN]
    BY <2>1 DEF StoreCounts, NotCounted
  <2>4. saver' \in [Saver -> Saver_t]
    <3>1. counted.changed \in BOOLEAN /\ trigger_backup \in BOOLEAN /\ saver \in [Saver -> Saver_t]
      BY DEF TypeOK
    <3> QED
      BY <2>1, <3>1, ForkTypes DEF StoreCounts, Fork
  <2>5. /\ backup_pid' \in Saver \cup {None} /\ save_due' \in BOOLEAN /\ unload_due' \in BOOLEAN
        /\ trigger_backup' \in BOOLEAN /\ trigger_unload' \in BOOLEAN
    BY <2>1 DEF TypeOK, StoreCounts
  <2> QED
    BY <2>1, <2>2, <2>3, <2>4, <2>5 DEF TypeOK, StoreCounts
<1>6. CASE \E s \in Saver : StartSaver(s)
  <2>1. PICK s \in Saver : StartSaver(s)
    BY <1>6
  <2>2. saver' \in [Saver -> Saver_t]
    <3>1. Backup \in BOOLEAN
      BY DEF TypeOK, Backup
    <3> QED
      BY <2>1, <3>1, ForkTypes DEF TypeOK, StartSaver, Fork
  <2>3. save_due' \in BOOLEAN /\ generation' \in Nat
    BY <2>1 DEF TypeOK, StartSaver
  <2> QED
    BY <2>1, <2>2, <2>3 DEF TypeOK, StartSaver
<1>7. CASE ClearAlarm
  BY <1>7 DEF TypeOK, ClearAlarm
<1> QED
  BY <1>1, <1>2, <1>3, <1>4, <1>5, <1>6, <1>7 DEF ListenerStep

LEMMA SaverTypes ==
  ASSUME TypeOK, SaverInv, NEW s \in Saver, SaverStep(s)
  PROVE  TypeOK'
<1> USE DEF Set, userVars, levelVars, sharedVars, listenerVars, timers
<1>1. CASE StartPass(s)
  <2>1. saver' \in [Saver -> Saver_t]
    <3>1. saver[s] \in Saver_t /\ saver \in [Saver -> Saver_t]
      BY DEF TypeOK
    <3>2. saver' = [saver EXCEPT ![s] =
            [saver[s] EXCEPT !.at = "look", !.todo = Level, !.count = 0, !.again = FALSE]]
      BY <1>1, <3>1 DEF StartPass
    <3> QED
      BY <3>1, <3>2, PassUpdates
  <2> QED
    BY <1>1, <2>1 DEF TypeOK, StartPass
<1>2. CASE \E l \in Level : Look(s, l)
  <2>1. PICK l \in Level : Look(s, l)
    BY <1>2
  <2>2. saver' \in [Saver -> Saver_t]
    <3>1. saver[s] \in Saver_t /\ saver \in [Saver -> Saver_t]
      BY DEF TypeOK
    <3>2. PICK b \in BOOLEAN : b = (saver[s].timed \/ (saver[s].unload /\ force_backup[l]))
      OBVIOUS
    <3> DEFINE next == [saver[s] EXCEPT !.todo = @ \ {l}, !.count = @ + 1, !.timed = b]
    <3>3. /\ [saver[s] EXCEPT !.todo = @ \ {l}] \in Saver_t
          /\ next \in Saver_t
          /\ [next EXCEPT !.at = "unload", !.level = l] \in Saver_t
      BY <3>1, LookUpdates
    <3>4. \/ saver' = [saver EXCEPT ![s] = [saver[s] EXCEPT !.todo = @ \ {l}]]
          \/ saver' = [saver EXCEPT ![s] = next]
          \/ saver' = [saver EXCEPT ![s] = [next EXCEPT !.at = "unload", !.level = l]]
      BY <2>1, <3>1, <3>2 DEF Look
    <3> QED
      BY <3>1, <3>3, <3>4
  <2>3. /\ loaded' \in [Level -> BOOLEAN] /\ in_use' \in [Level -> BOOLEAN]
        /\ dirty_save' \in [Level -> BOOLEAN]
        /\ force_unload' \in [Level -> BOOLEAN] /\ force_backup' \in [Level -> BOOLEAN]
    <3>1. CASE ~loaded[l]
      BY <2>1, <3>1 DEF TypeOK, Look
    <3>2. CASE loaded[l]
      <4>1. in_use' \in [Level -> BOOLEAN]
        BY <2>1, <3>2 DEF TypeOK, Look, InUse
      <4>2. dirty_save' \in [Level -> BOOLEAN]
        BY <2>1, <3>2 DEF TypeOK, Look
      <4>3. force_backup' \in [Level -> BOOLEAN]
        BY <2>1, <3>2 DEF TypeOK, Look
      <4> QED
        BY <2>1, <3>2, <4>1, <4>2, <4>3 DEF TypeOK, Look
    <3> QED
      BY <3>1, <3>2
  <2> QED
    BY <2>1, <2>2, <2>3 DEF TypeOK, Look
<1>3. CASE UnloadLevel(s)
  <2>1. saver' \in [Saver -> Saver_t]
    <3>1. saver[s].count \in Nat \ {0}
      BY <1>3 DEF TypeOK, SaverInv, UnloadLevel, Saver_t
    <3>2. CASE UsersOn(saver[s].level) # {}
      <4>1. saver[s] \in Saver_t /\ saver \in [Saver -> Saver_t]
        BY DEF TypeOK
      <4>2. saver' = [saver EXCEPT ![s] = [saver[s] EXCEPT !.at = "look", !.level = None, !.again = TRUE]]
        BY <1>3, <3>2, <4>1 DEF UnloadLevel
      <4> QED
        BY <4>1, <4>2, UnloadUpdates
    <3>3. CASE UsersOn(saver[s].level) = {}
      <4>1. Unloaded(s) \in Saver_t
        BY <3>1, UnloadUpdates DEF TypeOK, Unloaded
      <4> QED
        BY <1>3, <3>3, <4>1 DEF TypeOK, UnloadLevel
    <3> QED
      BY <3>2, <3>3
  <2>2. loaded' \in [Level -> BOOLEAN]
    BY <1>3 DEF TypeOK, UnloadLevel
  <2> QED
    BY <1>3, <2>1, <2>2 DEF TypeOK, UnloadLevel
<1>4. CASE EndPass(s)
  <2>1. saver' \in [Saver -> Saver_t]
    <3>1. saver[s] \in Saver_t /\ saver \in [Saver -> Saver_t]
      BY DEF TypeOK
    <3>2. PICK b \in BOOLEAN : b = (saver[s].timed /\ saver[s].unload)
      OBVIOUS
    <3>3. saver' = [saver EXCEPT ![s] = [saver[s] EXCEPT !.at = "start", !.unload = FALSE, !.timed = b]]
      BY <1>4, <3>1, <3>2 DEF EndPass
    <3> QED
      BY <3>1, <3>3, PassUpdates
  <2>2. loaded_levels' \in Nat /\ pinned_levels' \in Nat /\ generation' \in Nat
    BY <1>4 DEF TypeOK, EndPass, Pinned, Saver_t
  <2> QED
    BY <1>4, <2>1, <2>2 DEF TypeOK, EndPass
<1>5. CASE EndSaver(s)
  <2>1. saver' \in [Saver -> Saver_t]
    BY <1>5 DEF TypeOK, EndSaver, Idle, Saver_t
  <2> QED
    BY <1>5, <2>1 DEF TypeOK, EndSaver
<1> QED
  BY <1>1, <1>2, <1>3, <1>4, <1>5 DEF SaverStep

-----------------------------------------------------------------------------
(* Listener: who works on the levels, and what is counted *)

\* What concerns neither the levels that are loaded nor the savers
LEMMA Beside ==
  ASSUME SaverInv, LoadedInv,
         UNCHANGED <<loaded, loaded_levels, loop, backup_pid, counted, saver, orphan>>
  PROVE  SaverInv' /\ LoadedInv'
<1>1. Loaded' = Loaded /\ \A s \in Saver : Passed(s)' = Passed(s) /\ Scanning(s)' = Scanning(s)
  BY DEF Loaded, Passed, Scanning
<1>2. SaverInv'
  BY <1>1 DEF SaverInv
<1>3. LoadedInv'
  BY <1>1 DEF LoadedInv, CountNotOver
<1> QED
  BY <1>2, <1>3

\* A level that is loaded is one more, and counted by who adds it.
LEMMA EnterKeeps ==
  ASSUME ListenerIInv, NEW u \in User, NEW l \in Level, Enter(u, l)
  PROVE  SaverInv' /\ LoadedInv'
<1> USE DEF userVars, levelVars, sharedVars, listenerVars, timers
<1>0. SaverInv /\ LoadedInv
  BY DEF ListenerIInv
<1>1. CASE loaded[l]
  <2>1. UNCHANGED <<loaded, loaded_levels, loop, backup_pid, counted, saver, orphan>>
    BY <1>1 DEF Enter
  <2> QED
    BY <1>0, <2>1, Beside
<1>2. CASE ~loaded[l]
  <2>1. /\ UNCHANGED <<loop, backup_pid, counted, saver, orphan>>
        /\ loaded_levels' = loaded_levels + 1
    BY <1>2 DEF Enter
  <2>2. Loaded' = Loaded \cup {l} /\ l \notin Loaded
    BY <1>2 DEF Enter, Loaded, ListenerIInv, TypeOK, Set
  <2>3. \A s \in Saver : Scanning(s)' = Scanning(s)
    BY <2>1 DEF Scanning
  <2>4. \A s \in Saver : Passed(s) \in SUBSET Passed(s)' /\ Passed(s)' \in SUBSET Level
    BY <2>1, <2>2, LoadedSets DEF Passed
  <2>5. \A s \in Saver : Cardinality(Passed(s)) <= Cardinality(Passed(s)')
    BY <2>4, FewerLevels
  <2>6. /\ Cardinality(Loaded') = Cardinality(Loaded) + 1
        /\ Cardinality(Loaded) \in Nat
    BY <2>2, OneLevelMore, LevelSets, LoadedSets
  <2>7. SaverInv'
    BY <1>0, <2>1, <2>3, <2>4 DEF SaverInv
  <2>8. LoadedInv'
    <3>1. \A s \in Saver : Scanning(s)' => saver'[s].count <= Cardinality(Passed(s)')
      <4>1. TAKE s \in Saver
      <4>2. HAVE Scanning(s)'
      <4>3. saver[s].count <= Cardinality(Passed(s)) /\ saver[s].count \in Nat
        BY <1>0, <2>3, <4>2 DEF LoadedInv, ListenerIInv, TypeOK, Saver_t
      <4>4. Cardinality(Passed(s)) \in Nat /\ Cardinality(Passed(s)') \in Nat
        BY <2>4, LevelSets, LoadedSets
      <4> QED
        BY <2>1, <2>5, <4>3, <4>4
    <3>2. ~orphan' /\ loop' = "store" => counted'.loaded <= Cardinality(Loaded')
      BY <1>0, <2>1, <2>6 DEF LoadedInv, ListenerIInv, TypeOK
    <3>3. CountNotOver'
      BY <1>0, <2>1, <2>3, <2>6 DEF LoadedInv, CountNotOver, ListenerIInv, TypeOK
    <3> QED
      BY <3>1, <3>2, <3>3 DEF LoadedInv
  <2> QED
    BY <2>7, <2>8
<1> QED
  BY <1>1, <1>2

LEMMA PlayerKeeps ==
  ASSUME ListenerIInv, NEW u \in User,
         \/ \E l \in Level : Enter(u, l)
         \/ Edit(u) \/ CmdSave(u) \/ StopRead(u) \/ Killed(u) \/ UserStep(u)
  PROVE  SaverInv' /\ LoadedInv'
<1> USE DEF userVars, levelVars, sharedVars, listenerVars, timers
<1>1. CASE \E l \in Level : Enter(u, l)
  BY <1>1, EnterKeeps
<1>2. CASE Edit(u) \/ CmdSave(u) \/ StopRead(u) \/ Killed(u) \/ UserStep(u)
  <2>1. UNCHANGED <<loaded, loaded_levels, loop, backup_pid, counted, saver, orphan>>
    BY <1>2 DEF Edit, CmdSave, StopRead, Killed, UserStep, StopAdd, StopInactive, StopPinned, ThrownOut
  <2> QED
    BY <2>1, Beside DEF ListenerIInv
<1> QED
  BY <1>1, <1>2

LEMMA SignalKeeps ==
  ASSUME ListenerIInv, (\E l \in Level : CmdUnload(l)) \/ CmdRestart \/ SaveDue \/ UnloadDue
  PROVE  SaverInv' /\ LoadedInv'
<1>1. UNCHANGED <<loaded, loaded_levels, loop, backup_pid, counted, saver, orphan>>
  BY DEF CmdUnload, CmdRestart, SaveDue, UnloadDue, userVars, levelVars, sharedVars, listenerVars,
         timers
<1> QED
  BY <1>1, Beside DEF ListenerIInv

-----------------------------------------------------------------------------
(* Listener: its loop *)

\* Who asks for nobody else to be at work has the counts to himself.
LEMMA Alone ==
  ASSUME ListenerIInv, backup_pid = None, ~orphan
  PROVE  /\ \A s \in Saver : saver[s].at \in {"none", "zombie"} /\ ~Scanning(s)
         /\ loaded_levels <= Cardinality(Loaded)
<1>1. \A s \in Saver : saver[s].at \in {"none", "zombie"}
  BY ListenerAssumption DEF ListenerIInv, SaverInv
<1>2. \A s \in Saver : ~Scanning(s)
  BY <1>1 DEF Scanning
<1> QED
  BY <1>1, <1>2 DEF ListenerIInv, LoadedInv, CountNotOver

LEMMA DoRestartKeeps ==
  ASSUME ListenerIInv, DoRestart
  PROVE  SaverInv' /\ LoadedInv'
<1>1. /\ UNCHANGED <<loaded, loaded_levels, saver, loop>>
      /\ loop = "zombies" /\ backup_pid' = None
      /\ ~orphan' => ~orphan /\ \A s \in Saver : saver[s].at \in {"none", "zombie"}
  BY DEF DoRestart, levelVars, sharedVars
<1>2. Loaded' = Loaded /\ \A s \in Saver : Passed(s)' = Passed(s) /\ Scanning(s)' = Scanning(s)
  BY <1>1 DEF Loaded, Passed, Scanning
<1>3. SaverInv'
  BY <1>1, <1>2 DEF ListenerIInv, SaverInv
<1>4. LoadedInv'
  BY <1>1, <1>2 DEF ListenerIInv, LoadedInv, CountNotOver
<1> QED
  BY <1>3, <1>4

LEMMA CleanupZombiesKeeps ==
  ASSUME ListenerIInv, CleanupZombies
  PROVE  SaverInv' /\ LoadedInv'
<1>1. /\ UNCHANGED <<loaded, loaded_levels, orphan>>
      /\ loop' = "backup"
  BY DEF CleanupZombies, levelVars, listenerVars
<1>2. \A s \in Saver : saver'[s] = IF saver[s].at = "zombie" THEN Idle ELSE saver[s]
  BY DEF CleanupZombies
<1>3. backup_pid' = IF backup_pid \in {s \in Saver : saver[s].at = "zombie"} THEN None ELSE backup_pid
  BY DEF CleanupZombies
<1>4. Loaded' = Loaded
  BY <1>1 DEF Loaded
<1>5. \A s \in Saver : Scanning(s)' = Scanning(s)
  BY <1>2 DEF Scanning, Idle
<1>6. \A s \in Saver : Scanning(s) => saver'[s] = saver[s] /\ Passed(s)' = Passed(s)
  BY <1>2, <1>4 DEF Scanning, Passed
<1>7. SaverInv'
  <2>1. backup_pid' # None => saver'[backup_pid'].at # "none"
    BY <1>2, <1>3 DEF ListenerIInv, SaverInv, TypeOK
  <2>2. ~orphan' => \A s \in Saver : s # backup_pid' => saver'[s].at \in {"none", "zombie"}
    BY <1>1, <1>2, <1>3 DEF ListenerIInv, SaverInv, Idle
  <2>3. \A s \in Saver : saver'[s].at = "unload" => saver'[s].level \in Passed(s)' /\ saver'[s].count > 0
    BY <1>2, <1>6 DEF ListenerIInv, SaverInv, Idle, Scanning
  <2> QED
    BY <1>1, <1>5, <2>1, <2>2, <2>3 DEF ListenerIInv, SaverInv
<1>8. LoadedInv'
  BY <1>1, <1>4, <1>5, <1>6 DEF ListenerIInv, LoadedInv, CountNotOver
<1> QED
  BY <1>7, <1>8

LEMMA ScanLevelsKeeps ==
  ASSUME ListenerIInv, ScanLevels
  PROVE  SaverInv' /\ LoadedInv'
<1>1. /\ UNCHANGED <<loaded, loaded_levels, backup_pid, saver, orphan>>
      /\ backup_pid = None
      /\ counted' = NotCounted \/ counted'.loaded = Cardinality(Loaded)
  BY DEF ScanLevels
<1>2. Loaded' = Loaded /\ \A s \in Saver : Passed(s)' = Passed(s) /\ Scanning(s)' = Scanning(s)
  BY <1>1 DEF Loaded, Passed, Scanning
<1>3. SaverInv'
  BY <1>1, <1>2 DEF ListenerIInv, SaverInv
<1>4. counted'.loaded <= Cardinality(Loaded')
  <2>1. Cardinality(Loaded) \in Nat
    BY LevelSets, LoadedSets
  <2> QED
    BY <1>1, <1>2, <2>1 DEF NotCounted
<1>5. LoadedInv'
  BY <1>1, <1>2, <1>4 DEF ListenerIInv, LoadedInv, CountNotOver
<1> QED
  BY <1>3, <1>5

\* What the start of saver s keeps
LEMMA StartKeeps ==
  ASSUME ListenerIInv, NEW s \in Saver, saver[s].at = "none", backup_pid = None,
         loop' # "store", UNCHANGED <<loaded, orphan>>,
         \/ UNCHANGED <<backup_pid, saver>>
         \/ backup_pid' = s /\ \E b, c \in BOOLEAN : Fork(s, b, c),
         ~orphan => loaded_levels' <= Cardinality(Loaded)
  PROVE  SaverInv' /\ LoadedInv'
<1>1. CASE UNCHANGED <<backup_pid, saver>>
  <2>1. Loaded' = Loaded /\ \A t \in Saver : Passed(t)' = Passed(t) /\ Scanning(t)' = Scanning(t)
    BY <1>1 DEF Loaded, Passed, Scanning
  <2>2. SaverInv'
    BY <1>1, <2>1 DEF ListenerIInv, SaverInv
  <2>3. LoadedInv'
    BY <1>1, <2>1 DEF ListenerIInv, LoadedInv, CountNotOver
  <2> QED
    BY <2>2, <2>3
<1>2. CASE backup_pid' = s /\ \E b, c \in BOOLEAN : Fork(s, b, c)
  <2>1. saver'[s].at = "start" /\ \A t \in Saver \ {s} : saver'[t] = saver[t]
    <3>1. PICK b \in BOOLEAN, c \in BOOLEAN : Fork(s, b, c)
      BY <1>2
    <3>2. saver \in [Saver -> Saver_t]
      BY DEF ListenerIInv, TypeOK
    <3>3. saver'[s] = [Idle EXCEPT !.at = "start", !.unload = b, !.timed = c]
      BY <3>1, <3>2 DEF Fork, Set
    <3>4. \A t \in Saver \ {s} : saver'[t] = saver[t]
      BY <3>1, <3>2 DEF Fork, Set
    <3> QED
      BY <3>3, <3>4, ForkTypes
  <2>2. Loaded' = Loaded /\ \A t \in Saver : Scanning(t)' => t # s /\ Scanning(t) /\ Passed(t)' = Passed(t)
    BY <2>1 DEF Loaded, Passed, Scanning
  <2>3. \A t \in Saver : Scanning(t) => Scanning(t)'
    BY <2>1 DEF Scanning
  <2>4. SaverInv'
    <3>1. backup_pid' # None => saver'[backup_pid'].at # "none"
      BY <1>2, <2>1
    <3>2. \A t, r \in Saver : Scanning(t)' /\ Scanning(r)' => t = r
      BY <2>2 DEF ListenerIInv, SaverInv
    <3>3. ~orphan' => \A t \in Saver : t # backup_pid' => saver'[t].at \in {"none", "zombie"}
      BY <1>2, <2>1, Alone
    <3>4. \A t \in Saver : saver'[t].at = "unload" =>
            saver'[t].level \in Passed(t)' /\ saver'[t].count > 0
      BY <2>1, <2>2 DEF ListenerIInv, SaverInv, Scanning
    <3> QED
      BY <3>1, <3>2, <3>3, <3>4 DEF SaverInv
  <2>5. LoadedInv'
    <3>1. \A t \in Saver : Scanning(t)' => saver'[t].count <= Cardinality(Passed(t)')
      BY <2>1, <2>2 DEF ListenerIInv, LoadedInv
    <3>2. CountNotOver'
      BY <2>2 DEF CountNotOver
    <3> QED
      BY <3>1, <3>2 DEF LoadedInv
  <2> QED
    BY <2>4, <2>5
<1> QED
  BY <1>1, <1>2

LEMMA StoreCountsKeeps ==
  ASSUME ListenerIInv, NEW s \in Saver, StoreCounts(s)
  PROVE  SaverInv' /\ LoadedInv'
<1>1. /\ loop = "store" /\ loop' # "store" /\ saver[s].at = "none"
      /\ UNCHANGED <<loaded, orphan>>
      /\ loaded_levels' = IF counted.scanned THEN counted.loaded ELSE loaded_levels
  BY DEF StoreCounts, levelVars
<1>2. backup_pid = None
  BY <1>1 DEF ListenerIInv, SaverInv
<1>3. ~orphan => loaded_levels' <= Cardinality(Loaded)
  BY <1>1, <1>2, Alone DEF ListenerIInv, LoadedInv
<1>4. \/ UNCHANGED <<backup_pid, saver>>
      \/ backup_pid' = s /\ \E b, c \in BOOLEAN : Fork(s, b, c)
  <2>1. trigger_backup \in BOOLEAN /\ counted.changed \in BOOLEAN
    BY DEF ListenerIInv, TypeOK
  <2> QED
    BY <2>1 DEF StoreCounts
<1> QED
  BY <1>1, <1>2, <1>3, <1>4, StartKeeps

LEMMA StartSaverKeeps ==
  ASSUME ListenerIInv, NEW s \in Saver, StartSaver(s)
  PROVE  SaverInv' /\ LoadedInv'
<1>1. /\ loop' # "store" /\ saver[s].at = "none" /\ backup_pid = None
      /\ UNCHANGED <<loaded, orphan, loaded_levels>>
  BY DEF StartSaver, levelVars
<1>2. backup_pid' = s /\ \E b, c \in BOOLEAN : Fork(s, b, c)
  <2>1. Backup \in BOOLEAN
    BY DEF Backup, ListenerIInv, TypeOK
  <2> QED
    BY <2>1 DEF StartSaver
<1>3. ~orphan => loaded_levels' <= Cardinality(Loaded)
  BY <1>1, Alone
<1> QED
  BY <1>1, <1>2, <1>3, StartKeeps

LEMMA LoopKeeps ==
  ASSUME ListenerIInv, ListenerStep
  PROVE  SaverInv' /\ LoadedInv'
<1>1. CASE StartNothing \/ ClearAlarm
  <2>1. /\ UNCHANGED <<loaded, loaded_levels, backup_pid, counted, saver, orphan>>
        /\ loop' # "store"
    BY <1>1 DEF StartNothing, ClearAlarm, levelVars, sharedVars
  <2>2. Loaded' = Loaded /\ \A s \in Saver : Passed(s)' = Passed(s) /\ Scanning(s)' = Scanning(s)
    BY <2>1 DEF Loaded, Passed, Scanning
  <2>3. SaverInv'
    BY <2>1, <2>2 DEF ListenerIInv, SaverInv
  <2>4. LoadedInv'
    BY <2>1, <2>2 DEF ListenerIInv, LoadedInv, CountNotOver
  <2> QED
    BY <2>3, <2>4
<1> QED
  BY <1>1, DoRestartKeeps, CleanupZombiesKeeps, ScanLevelsKeeps, StoreCountsKeeps, StartSaverKeeps
     DEF ListenerStep

-----------------------------------------------------------------------------
(* Listener: the savers *)

\* A saver that scans is the only one, and known to the listener or an orphan.
LEMMA OneScans ==
  ASSUME ListenerIInv, NEW s \in Saver, saver[s].at \in {"look", "unload", "start"}
  PROVE  /\ saver[s].at # "start" => \A t \in Saver \ {s} : ~Scanning(t)
         /\ ~orphan => s = backup_pid /\ loop # "store"
<1>1. saver[s].at # "start" => \A t \in Saver \ {s} : ~Scanning(t)
  BY DEF ListenerIInv, SaverInv, Scanning
<1>2. ~orphan => s = backup_pid
  BY DEF ListenerIInv, SaverInv
<1>3. s = backup_pid => loop # "store"
  BY ListenerAssumption DEF ListenerIInv, SaverInv
<1> QED
  BY <1>1, <1>2, <1>3

\* While one scans, what matters is what it has counted.
LEMMA ScanKeeps ==
  ASSUME ListenerIInv, NEW s \in Saver, saver[s].at \in {"look", "unload", "start"},
         saver'[s].at \in {"look", "unload", "start"},
         \A t \in Saver \ {s} : saver'[t] = saver[t] /\ ~Scanning(t),
         UNCHANGED <<backup_pid, loop, orphan, counted>>,
         saver'[s].at = "unload" => saver'[s].level \in Passed(s)' /\ saver'[s].count > 0,
         Scanning(s)' => saver'[s].count <= Cardinality(Passed(s)'),
         ~Scanning(s)' => loaded_levels' <= Cardinality(Loaded')
  PROVE  SaverInv' /\ LoadedInv'
<1>1. \A t \in Saver \ {s} : ~Scanning(t)'
  BY DEF Scanning
<1>2. ~orphan => s = backup_pid /\ loop # "store"
  BY OneScans
<1>3. SaverInv'
  <2>1. backup_pid' # None => saver'[backup_pid].at # "none"
    BY DEF ListenerIInv, SaverInv, TypeOK
  <2>2. ~orphan' => \A t \in Saver : t # backup_pid' => saver'[t].at \in {"none", "zombie"}
    BY <1>2 DEF ListenerIInv, SaverInv
  <2>3. \A t \in Saver : saver'[t].at = "unload" => saver'[t].level \in Passed(t)' /\ saver'[t].count > 0
    BY <1>1 DEF Scanning
  <2> QED
    BY <1>1, <2>1, <2>2, <2>3 DEF ListenerIInv, SaverInv
<1>4. LoadedInv'
  BY <1>1, <1>2 DEF LoadedInv, CountNotOver
<1> QED
  BY <1>3, <1>4

LEMMA StartPassKeeps ==
  ASSUME ListenerIInv, NEW s \in Saver, StartPass(s)
  PROVE  SaverInv' /\ LoadedInv'
<1>1. /\ saver[s].at = "start" /\ \A t \in Saver : ~Scanning(t)
      /\ UNCHANGED <<backup_pid, loop, orphan, counted, loaded>>
  BY DEF StartPass, levelVars, listenerVars
<1>2. saver'[s].at = "look" /\ saver'[s].count = 0
  BY DEF StartPass, ListenerIInv, TypeOK, Saver_t
<1>3. \A t \in Saver \ {s} : saver'[t] = saver[t]
  BY DEF StartPass, ListenerIInv, TypeOK
<1>4. Passed(s)' \in SUBSET Level
  BY DEF Passed, Loaded
<1>5. Cardinality(Passed(s)') \in Nat
  BY <1>4, LevelSets
<1>6. saver'[s].count <= Cardinality(Passed(s)')
  BY <1>2, <1>5
<1>7. Scanning(s)'
  BY <1>2 DEF Scanning
<1> QED
  BY <1>1, <1>2, <1>3, <1>6, <1>7, ScanKeeps

LEMMA LookKeeps ==
  ASSUME ListenerIInv, NEW s \in Saver, NEW l \in Level, Look(s, l)
  PROVE  SaverInv' /\ LoadedInv'
<1>1. /\ saver[s].at = "look" /\ l \in saver[s].todo
      /\ UNCHANGED <<backup_pid, loop, orphan, counted>>
      /\ Loaded' = Loaded
  BY DEF Look, levelVars, listenerVars, Loaded
<1>2. saver \in [Saver -> Saver_t] /\ saver[s] \in Saver_t
  BY DEF ListenerIInv, TypeOK
<1>3. \A t \in Saver \ {s} : saver'[t] = saver[t] /\ ~Scanning(t)
  <2>1. \A t \in Saver \ {s} : ~Scanning(t)
    BY <1>1, OneScans
  <2> QED
    BY <1>2, <2>1 DEF Look, Set
<1>4. /\ saver'[s].at \in {"look", "unload"} /\ saver'[s].todo = saver[s].todo \ {l}
      /\ saver'[s].count = IF loaded[l] THEN saver[s].count + 1 ELSE saver[s].count
      /\ saver'[s].at = "unload" => loaded[l] /\ saver'[s].level = l
  <2>1. PICK b \in BOOLEAN : b = (saver[s].timed \/ (saver[s].unload /\ force_backup[l]))
    OBVIOUS
  <2> DEFINE next == [saver[s] EXCEPT !.todo = @ \ {l}, !.count = @ + 1, !.timed = b]
  <2>2. next.at = "look" /\ next.todo = saver[s].todo \ {l} /\ next.count = saver[s].count + 1
    BY <1>1, <1>2 DEF Saver_t
  <2>3. CASE ~loaded[l]
    BY <1>1, <1>2, <2>3 DEF Look, Saver_t
  <2>4. CASE loaded[l]
    <3>1. next \in Saver_t
      BY <1>2, LookUpdates
    <3>2. saver' = [saver EXCEPT ![s] = next] \/ saver' = [saver EXCEPT ![s] = [next EXCEPT !.at = "unload", !.level = l]]
      BY <1>2, <2>1, <2>4 DEF Look, Set
    <3> HIDE DEF next
    <3>3. saver'[s] = next \/ saver'[s] = [next EXCEPT !.at = "unload", !.level = l]
      BY <1>2, <3>2
    <3>4. LET n == [next EXCEPT !.at = "unload", !.level = l] IN
            n.at = "unload" /\ n.level = l /\ n.todo = next.todo /\ n.count = next.count
      BY <3>1 DEF Saver_t
    <3> QED
      BY <2>2, <2>4, <3>3, <3>4
  <2> QED
    BY <2>3, <2>4
<1>5. Passed(s)' = IF loaded[l] THEN Passed(s) \cup {l} ELSE Passed(s)
  BY <1>1, <1>4 DEF Passed, Loaded
<1>6. l \notin Passed(s) /\ Passed(s) \in SUBSET Level
  BY <1>1, LoadedSets DEF Passed
<1>7. saver[s].count <= Cardinality(Passed(s)) /\ saver[s].count \in Nat /\ Cardinality(Passed(s)) \in Nat
  BY <1>1, <1>2, <1>6, LevelSets DEF ListenerIInv, LoadedInv, Scanning, Saver_t
<1>8. saver'[s].count <= Cardinality(Passed(s)')
  BY <1>4, <1>5, <1>6, <1>7, OneLevelMore
<1>9. saver'[s].at = "unload" => saver'[s].level \in Passed(s)' /\ saver'[s].count > 0
  BY <1>4, <1>5, <1>7
<1>10. Scanning(s)'
  BY <1>4 DEF Scanning
<1> QED
  BY <1>1, <1>3, <1>4, <1>8, <1>9, <1>10, ScanKeeps

LEMMA UnloadLevelKeeps ==
  ASSUME ListenerIInv, NEW s \in Saver, UnloadLevel(s)
  PROVE  SaverInv' /\ LoadedInv'
<1> DEFINE l == saver[s].level
<1>1. /\ saver[s].at = "unload"
      /\ UNCHANGED <<backup_pid, loop, orphan, counted>>
  BY DEF UnloadLevel, listenerVars
<1>2. saver \in [Saver -> Saver_t] /\ saver[s] \in Saver_t
  BY DEF ListenerIInv, TypeOK
<1>3. l \in Passed(s) /\ Passed(s) \in SUBSET Level /\ l \in Level
  BY <1>1, LoadedSets DEF ListenerIInv, SaverInv
<1>4. /\ saver[s].count > 0 /\ saver[s].count \in Nat
      /\ saver[s].count <= Cardinality(Passed(s)) /\ Cardinality(Passed(s)) \in Nat
  BY <1>1, <1>2, <1>3, LevelSets DEF ListenerIInv, SaverInv, LoadedInv, Scanning, Saver_t
<1>5. \A t \in Saver \ {s} : saver'[t] = saver[t] /\ ~Scanning(t)
  <2>1. \A t \in Saver \ {s} : ~Scanning(t)
    BY <1>1, OneScans
  <2> QED
    BY <1>2, <2>1 DEF UnloadLevel, Set
<1>6. saver'[s].at = "look" /\ saver'[s].count <= Cardinality(Passed(s)')
  <2>1. CASE UsersOn(l) # {}
    <3>1. /\ saver'[s].at = "look" /\ saver'[s].todo = saver[s].todo
          /\ saver'[s].count = saver[s].count
      BY <1>2, <2>1 DEF UnloadLevel, Saver_t
    <3>2. Loaded' = Loaded
      BY <2>1 DEF UnloadLevel, Loaded
    <3>3. Passed(s)' = Passed(s)
      BY <3>1, <3>2 DEF Passed
    <3> QED
      BY <1>4, <3>1, <3>3
  <2>2. CASE UsersOn(l) = {}
    <3>1. saver'[s] = Unloaded(s)
      BY <1>2, <2>2 DEF UnloadLevel, Set
    <3>2. /\ Unloaded(s).at = "look" /\ Unloaded(s).todo = saver[s].todo
          /\ Unloaded(s).count = saver[s].count - 1
      BY <1>2 DEF Unloaded, Saver_t
    <3>3. Loaded' = Loaded \ {l}
      BY <1>3, <2>2 DEF UnloadLevel, Loaded, Set, ListenerIInv, TypeOK
    <3>4. Passed(s)' = Passed(s) \ {l}
      BY <3>1, <3>2, <3>3 DEF Passed
    <3>5. Cardinality(Passed(s)') = Cardinality(Passed(s)) - 1
      BY <1>3, <3>4, OneLevelLess
    <3> QED
      BY <1>4, <3>1, <3>2, <3>5
  <2> QED
    BY <2>1, <2>2
<1>7. Scanning(s)'
  BY <1>6 DEF Scanning
<1> QED
  BY <1>1, <1>5, <1>6, <1>7, ScanKeeps

LEMMA EndPassKeeps ==
  ASSUME ListenerIInv, NEW s \in Saver, EndPass(s)
  PROVE  SaverInv' /\ LoadedInv'
<1>1. /\ saver[s].at = "look" /\ saver[s].todo = {}
      /\ UNCHANGED <<backup_pid, loop, orphan, counted>>
      /\ Loaded' = Loaded /\ loaded_levels' = saver[s].count
  BY DEF EndPass, levelVars, listenerVars, Loaded
<1>2. saver \in [Saver -> Saver_t] /\ saver[s] \in Saver_t
  BY DEF ListenerIInv, TypeOK
<1>3. \A t \in Saver \ {s} : saver'[t] = saver[t] /\ ~Scanning(t)
  <2>1. \A t \in Saver \ {s} : ~Scanning(t)
    BY <1>1, OneScans
  <2> QED
    BY <1>2, <2>1 DEF EndPass
<1>4. saver'[s].at = "start"
  <2>1. PICK b \in BOOLEAN : b = (saver[s].timed /\ saver[s].unload)
    OBVIOUS
  <2>2. saver'[s] = [saver[s] EXCEPT !.at = "start", !.unload = FALSE, !.timed = b]
    BY <1>2, <2>1 DEF EndPass
  <2> QED
    BY <1>2, <2>2 DEF Saver_t
<1>5. Passed(s) = Loaded
  BY <1>1 DEF Passed
<1>6. loaded_levels' <= Cardinality(Loaded')
  BY <1>1, <1>5 DEF ListenerIInv, LoadedInv, Scanning
<1>7. ~Scanning(s)'
  BY <1>4 DEF Scanning
<1> QED
  BY <1>1, <1>3, <1>4, <1>6, <1>7, ScanKeeps

LEMMA EndSaverKeeps ==
  ASSUME ListenerIInv, NEW s \in Saver, EndSaver(s)
  PROVE  SaverInv' /\ LoadedInv'
<1>1. /\ saver[s].at = "start"
      /\ UNCHANGED <<backup_pid, loop, orphan, counted, loaded, loaded_levels>>
  BY DEF EndSaver, levelVars, sharedVars, listenerVars
<1>2. saver'[s].at = "zombie" /\ \A t \in Saver \ {s} : saver'[t] = saver[t]
  BY DEF EndSaver, Set, Idle, ListenerIInv, TypeOK
<1>3. Loaded' = Loaded
  BY <1>1 DEF Loaded
<1>4. \A t \in Saver : /\ Scanning(t)' = Scanning(t)
                       /\ Scanning(t) => saver'[t] = saver[t] /\ Passed(t)' = Passed(t)
  BY <1>1, <1>2, <1>3 DEF Scanning, Passed
<1>5. SaverInv'
  <2>1. backup_pid' # None => saver'[backup_pid].at # "none"
    BY <1>1, <1>2 DEF ListenerIInv, SaverInv, TypeOK
  <2>2. ~orphan' => \A t \in Saver : t # backup_pid' => saver'[t].at \in {"none", "zombie"}
    BY <1>1, <1>2 DEF ListenerIInv, SaverInv
  <2>3. \A t \in Saver : saver'[t].at = "unload" => saver'[t].level \in Passed(t)' /\ saver'[t].count > 0
    BY <1>2, <1>4 DEF ListenerIInv, SaverInv, Scanning
  <2> QED
    BY <1>1, <1>4, <2>1, <2>2, <2>3 DEF ListenerIInv, SaverInv
<1>6. LoadedInv'
  BY <1>1, <1>3, <1>4 DEF ListenerIInv, LoadedInv, CountNotOver
<1> QED
  BY <1>5, <1>6

-----------------------------------------------------------------------------
(* Listener: the theorems *)

LEMMA ListenerStepKeeps ==
  ASSUME ListenerIInv, [ListenerNext]_allVars
  PROVE  ListenerIInv'
<1>0. TypeOK /\ SaverInv
  BY DEF ListenerIInv
<1>1. CASE \E u \in User : \/ \E l \in Level : Enter(u, l)
                          \/ Edit(u) \/ CmdSave(u) \/ StopRead(u) \/ Killed(u) \/ UserStep(u)
  BY <1>0, <1>1, PlayerTypes, PlayerKeeps DEF ListenerIInv
<1>2. CASE (\E l \in Level : CmdUnload(l)) \/ CmdRestart \/ SaveDue \/ UnloadDue
  BY <1>0, <1>2, SignalTypes, SignalKeeps DEF ListenerIInv
<1>3. CASE ListenerStep
  BY <1>0, <1>3, LoopTypes, LoopKeeps DEF ListenerIInv
<1>4. CASE \E s \in Saver : SaverStep(s)
  <2>1. PICK s \in Saver : SaverStep(s)
    BY <1>4
  <2>2. TypeOK'
    BY <1>0, <2>1, SaverTypes
  <2>3. SaverInv' /\ LoadedInv'
    BY <2>1, StartPassKeeps, LookKeeps, UnloadLevelKeeps, EndPassKeeps, EndSaverKeeps DEF SaverStep
  <2> QED
    BY <2>2, <2>3 DEF ListenerIInv
<1>5. CASE UNCHANGED allVars
  <2>1. TypeOK'
    BY <1>0, <1>5 DEF TypeOK, allVars, userVars, levelVars, sharedVars, listenerVars, timers
  <2>2. SaverInv' /\ LoadedInv'
    BY <1>5, Beside DEF ListenerIInv, allVars, levelVars, sharedVars, listenerVars
  <2> QED
    BY <2>1, <2>2 DEF ListenerIInv
<1> QED
  BY <1>1, <1>2, <1>3, <1>4, <1>5 DEF ListenerNext

\* The inductive invariant of Listener: at any time at most one saver scans the
\* levels, what it has counted is still loaded, and what the listener has counted
\* is, unless a restart left it with a saver it does not know of
\* (scan_and_save_levels, scan_levels, start_backup_process).
THEOREM ListenerInvariant == ListenerSpec => []ListenerIInv
<1>1. ListenerInit => ListenerIInv
  BY ListenerStarts
<1>2. ListenerIInv /\ [ListenerNext]_allVars => ListenerIInv'
  BY ListenerStepKeeps
<1> QED
  BY <1>1, <1>2, PTL DEF ListenerSpec

\* Of Listener: the state is of its type; no count of levels ever is negative, the
\* one a saver stores included (scan_and_save_levels).
THEOREM ListenerTypes == ListenerSpec => []TypeOK
<1>1. ListenerIInv => TypeOK
  BY DEF ListenerIInv
<1> QED
  BY <1>1, ListenerInvariant, PTL

\* server->loaded_levels is not above the number of levels that are loaded, however
\* many clients load levels while savers and the listener store what they had
\* counted before; but while a saver scans, and after a restart left one at work.
THEOREM NotOverCounted == ListenerSpec => []CountNotOver
<1>1. ListenerIInv => CountNotOver
  BY DEF ListenerIInv, LoadedInv
<1> QED
  BY <1>1, ListenerInvariant, PTL
=============================================================================

-------------------------------- MODULE CmdSet --------------------------------
(***************************************************************************)
(* Who may run which command: the permissions each session has of its own, *)
(* the file they are read from, the message that makes sessions read it    *)
(* again (/cmdset), and what run_command does with what a user types.      *)
(***************************************************************************)
EXTENDS IniFile

CONSTANTS
  Session,      \* whose users may run /cmdset
  MaxSets       \* a bound on the changes, for TLC

\* perm_token
None == 0
AdminOnly == 1
LevelOwner == 2
Forbidden == 3

\* Commands, with the function they run; those that follow another of the same function are
\* the same command, unless they are said not to be.
Entry(name, function, perm_def, nodup) ==
  [name |-> name, function |-> function, perm_def |-> perm_def, nodup |-> nodup]
command_list == <<
  Entry(<<"skin", "own">>, "xskin", None, FALSE), Entry(<<"xskin", "">>, "xskin", None, FALSE),
  Entry(<<"skin", "">>, "skin", AdminOnly, FALSE), Entry(<<"skins", "">>, "skin", None, FALSE),
  Entry(<<"skin", "all">>, "skin", LevelOwner, TRUE)>>

Repeats(i) ==
  i > 1 /\ ~command_list[i].nodup /\ command_list[i].function = command_list[i - 1].function
Official == {i \in DOMAIN command_list : ~Repeats(i)}
OfficialOf(i) == Max({c \in Official : c <= i})

VARIABLES
  perm,         \* perm_okay of each session's commands; NoPerm before one has connected
  commandini,   \* the file
  other,        \* other_cmd_disabled, from the file
  unread,       \* the sessions that have a message
  pc,           \* of each session: "idle", "filled", "renamed"
  image,        \* what a session is about to write
  told,         \* history: what was set last
  raced,        \* history: of two sessions that did so, one had not heard of the other
  older,        \* history: the commands whose line has gone, and the sessions there were
  sets          \* how many changes were made

vars == <<perm, commandini, other, unread, pc, image, told, raced, older, sets>>

NoPerm == <<>>
Connected(p) == DOMAIN perm[p] # {}

----------------------------------------------------------------------------
(* cmdset_ini_fields *)

\* What a command is that the file does not speak of
Otherwise(c) == IF other = 1 THEN Forbidden ELSE command_list[c].perm_def

\* Without a line if it is what it would be anyway; -1 is for the default where that is not.
Save(perms) ==
  LET add(ini, c) ==
        AddLine(ini, "cmdset", command_list[c].name,
                CASE other = 1 /\ perms[c] = Forbidden -> NoText
                  [] perms[c] # command_list[c].perm_def -> <<perms[c]>>
                  [] other # 0 -> <<-1>>
                  [] OTHER -> NoText,
                FALSE)
  IN InFile(FoldLeft(add, commandini, SetToSeq(Official)))

\* A line that has gone changes nothing.
Load(perms) ==
  LET read(r, item) ==
        IF item.section # "cmdset" THEN r
        ELSE LET c == CHOOSE i \in Official : command_list[i].name = item.name
             IN [r EXCEPT ![c] = IF item.value = <<-1>> THEN command_list[c].perm_def ELSE item.value[1]]
  IN FoldLeft(read, perms, Items(commandini))

Init ==
  /\ other \in 0 .. 2
  /\ commandini = IF other = 0 THEN <<>>
                  ELSE <<Header("cmdlimits"), ItemLine(<<"othercmddisabled", "">>, <<other>>)>>
  /\ perm = [p \in Session |-> NoPerm]
  /\ unread = {} /\ pc = [p \in Session |-> "idle"] /\ image = [p \in Session |-> <<>>]
  /\ told = [c \in Official |-> Otherwise(c)]
  /\ raced = FALSE /\ older = [c \in Official |-> {}] /\ sets = 0

----------------------------------------------------------------------------
(* Sessions *)

\* complete_connection: the file, and init_cmdset_perms for what it does not speak of
Connect(p) ==
  /\ ~Connected(p)
  /\ LET read == Load([c \in Official |-> -1])
         known == {Items(commandini)[i].name : i \in DOMAIN Items(commandini)}
     IN perm' = [perm EXCEPT ![p] =
          [c \in Official |-> IF command_list[c].name \in known THEN read[c] ELSE Otherwise(c)]]
  /\ UNCHANGED <<commandini, other, unread, pc, image, told, raced, older, sets>>

\* cmd_cmdset, save_cmdset: all that this session knows, into the file
Cmdset(p, i, group) ==
  LET c == OfficialOf(i) IN
  /\ Connected(p) /\ pc[p] = "idle" /\ sets < MaxSets
  /\ LET perms == [perm[p] EXCEPT ![c] = group]
     IN perm' = [perm EXCEPT ![p] = perms] /\ image' = [image EXCEPT ![p] = Save(perms)]
  /\ pc' = [pc EXCEPT ![p] = "filled"]
  /\ told' = [told EXCEPT ![c] = group]
  /\ raced' = (raced \/ p \in unread \/ (\E q \in Session : pc[q] # "idle")
                 \/ \E d \in DOMAIN older \ {c} : p \in older[d])
  /\ sets' = sets + 1
  /\ UNCHANGED <<commandini, other, unread, older>>

Speaks(ini, c) == \E i \in DOMAIN Items(ini) : Items(ini)[i].name = command_list[c].name

Rename(p) ==
  /\ pc[p] = "filled"
  /\ older' = [c \in Official |->
       IF Speaks(image[p], c) THEN {}
       ELSE IF Speaks(commandini, c) THEN {q \in Session : Connected(q)} \ {p} ELSE older[c]]
  /\ commandini' = image[p] /\ image' = [image EXCEPT ![p] = <<>>]
  /\ pc' = [pc EXCEPT ![p] = "renamed"]
  /\ UNCHANGED <<perm, other, unread, told, raced, sets>>

\* send_ipc_cmd, to everyone
Send(p) ==
  /\ pc[p] = "renamed"
  /\ unread' = {q \in Session : Connected(q)}
  /\ pc' = [pc EXCEPT ![p] = "idle"]
  /\ UNCHANGED <<perm, commandini, other, image, told, raced, older, sets>>

\* process_ipc_cmd, cmd_token_loadperm
Receive(p) ==
  /\ p \in unread /\ pc[p] = "idle"
  /\ perm' = [perm EXCEPT ![p] = Load(@)]
  /\ unread' = unread \ {p}
  /\ UNCHANGED <<commandini, other, pc, image, told, raced, older, sets>>

Next ==
  \/ \E p \in Session : Connect(p) \/ Rename(p) \/ Send(p) \/ Receive(p)
  \/ \E p \in Session, i \in DOMAIN command_list, group \in None .. Forbidden : Cmdset(p, i, group)

Spec == Init /\ [][Next]_vars

----------------------------------------------------------------------------
(* run_command *)

\* A command, with the first word after it
Typed == {<<"skin", "">>, <<"skin", "own">>, <<"skin", "all">>, <<"skin", "me">>, <<"xskin", "own">>,
          <<"skins", "own">>}

\* Where in the table a name is, in its order; and what it is a name of.
At(name) == LET list == command_list
            IN SelectSeq([i \in DOMAIN list |-> i], LAMBDA i : list[i].name = name)
Enabled(perms, i) == perms[OfficialOf(i)] # Forbidden

\* As FindCommand below, in the order of the table whatever the name.
FindCommandFirst(perms, typed) ==
  LET all == SetToSortSeq(Range(At(<<typed[1], "">>)) \cup Range(At(typed)), <)
      at == SelectSeq(all, LAMBDA i : Enabled(perms, i))
  IN IF at = <<>> THEN 0 ELSE OfficialOf(at[1])

\* The first of the name that is not disabled, unless there is one for the two words, of which
\* the last is taken.
FindCommand(perms, typed) ==
  LET first == SelectSeq(At(<<typed[1], "">>), LAMBDA i : Enabled(perms, i))
      two == IF typed[2] = "" THEN <<>> ELSE SelectSeq(At(typed), LAMBDA i : Enabled(perms, i))
  IN IF two # <<>> THEN OfficialOf(Last(two)) ELSE IF first # <<>> THEN OfficialOf(first[1]) ELSE 0

Allowed(group, admin, owner) ==
  group = None \/ admin \/ (group = LevelOwner /\ owner)

\* What a user gets to run; 0 is nothing. To own the level is to be let on it by name.
Run(perms, typed, admin, owner) ==
  LET c == FindCommand(perms, typed)
  IN IF c # 0 /\ Allowed(perms[c], admin, owner) THEN c ELSE 0

----------------------------------------------------------------------------
(* Properties *)

\* When all have heard of it, a user gets to run what was told by the administrators: a
\* command of two words goes by its own permission, and by that of its first word where it is
\* disabled; through the lines that are there only for what is not the default, and the names
\* that stand for others.  As long as none changes anything without having heard of what
\* another did; and a session that was there when a line went, because the command was told
\* what it is without one, goes on as it was (cmdset_ini_fields, process_ipc_cmd).
RunsAsTold ==
  (~raced /\ unread = {} /\ \A p \in Session : pc[p] = "idle") =>
    \A p \in Session : (Connected(p) /\ \A c \in DOMAIN older : p \notin older[c]) =>
      \A typed \in Typed :
        LET named(w) == {OfficialOf(i) : i \in {j \in DOMAIN command_list : command_list[j].name = w}}
            enabled(w) == {c \in named(w) : told[c] # Forbidden}
            c == IF enabled(typed) # {} THEN enabled(typed) ELSE enabled(<<typed[1], "">>)
        IN \A who \in {"admin", "owner", "user"} :
             LET may == {x \in c : who = "admin" \/ told[x] = None
                                     \/ (told[x] = LevelOwner /\ who = "owner")}
             IN Run(perm[p], typed, who = "admin", who = "owner") \in
                  IF may = {} THEN {0} ELSE may
=============================================================================

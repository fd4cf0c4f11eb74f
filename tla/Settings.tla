------------------------------- MODULE Settings -------------------------------
(***************************************************************************)
(* server.ini: the settings all processes share, the text colours each has *)
(* of its own, the file that every session rewrites and people edit, and   *)
(* the listener that reads it again when it sees that it has changed.      *)
(***************************************************************************)
EXTENDS IniFile

CONSTANTS
  Session,      \* the processes of clients; Listener is not one of them
  Listener,
  MaxSets       \* a bound on the changes, for TLC

Field == {"motd", "flaglogchat", "saveinterval"}
Kind == [motd |-> STR, flaglogchat |-> BOOL, saveinterval |-> DURATION]
Values == [motd |-> {"a", "b"}, flaglogchat |-> BOOLEAN, saveinterval |-> {0, 5400}]
Default == [motd |-> "a", flaglogchat |-> TRUE, saveinterval |-> 900]
Process == Session \cup {Listener}
Hue == {1, 2}
NoColour == 0

VARIABLES
  server,       \* the shared memory
  textcolour,   \* of each process: one colour, NoColour if it is not defined
  serverini,    \* the file
  reload,       \* its time for the listener: "first" (not looked at), "known" or "changed"
  unseen,       \* history: it was edited, and its time will not tell the listener
  phase,        \* of each session: "no", "idle", "set" (in memory), "filled" (image)
  image,        \* what a session is about to write
  told,         \* history: what was set last, by command or by hand
  raced,        \* history: two changes were made at the same time
  again,        \* history: the colour was defined or removed again
  sets          \* how many changes were made

vars ==
  <<server, textcolour, serverini, reload, unseen, phase, image, told, raced, again, sets>>

----------------------------------------------------------------------------
(* system_ini_fields *)

Row(f, s) == [section |-> "server", name |-> f, kind |-> Kind[f], v |-> s[f]]
SystemFields(s, colour) ==
  <<Row("motd", s), Row("flaglogchat", s), Row("saveinterval", s)>>
    \o (IF colour = NoColour THEN <<>>
        ELSE <<[section |-> "textcolour.107", name |-> "colour", kind |-> INT, v |-> colour]>>)

\* What the file says goes over what there is; a colour it speaks of is defined.
Load(s, colour, ini) ==
  LET read(r, item) ==
        IF item.section = "server" /\ item.name \in Field
        THEN [r EXCEPT !.s[item.name] = ValueOf(Kind[item.name], item.value)]
        ELSE IF item.section = "textcolour.107" THEN [r EXCEPT !.c = item.value[1]]
        ELSE r
  IN FoldLeft(read, [s |-> s, c |-> colour], Items(ini))

\* The file as the server makes it if there is none, or one that was written by hand
ByHand == <<Comment, HeaderItem("server", "motd", <<"b">>), BadLine(NoText),
            Header("textcolour.107"), Comment, Header("other"), ItemLine("motd", <<"c">>),
            Header("server"), ItemLine("saveinterval", <<1, 3>>)>>
Init ==
  /\ serverini \in {SaveIni(<<>>, SystemFields(Default, NoColour)), ByHand}
  /\ server = Load(Default, NoColour, serverini).s /\ told = server
  /\ textcolour = [p \in Process |-> NoColour]
  /\ phase = [p \in Session |-> "no"]
  /\ image = [p \in Session |-> <<>>]
  /\ reload = "first" /\ unseen = FALSE /\ raced = FALSE /\ again = FALSE /\ sets = 0

Busy(p) == phase[p] \in {"set", "filled"}
NobodyBusy == \A p \in Session : ~Busy(p)

----------------------------------------------------------------------------
(* Sessions *)

\* Forked from the listener
Connect(p) ==
  /\ phase[p] = "no"
  /\ phase' = [phase EXCEPT ![p] = "idle"]
  /\ textcolour' = [textcolour EXCEPT ![p] = textcolour[Listener]]
  /\ UNCHANGED <<server, serverini, reload, unseen, image, told, raced, again, sets>>

Disconnect(p) ==
  /\ phase[p] = "idle"
  /\ phase' = [phase EXCEPT ![p] = "no"]
  /\ textcolour' = [textcolour EXCEPT ![p] = NoColour]
  /\ UNCHANGED <<server, serverini, reload, unseen, image, told, raced, again, sets>>

\* A change is made while another is under way, or before the listener has read an edited file.
Begin(p) ==
  /\ phase[p] = "idle" /\ sets < MaxSets
  /\ phase' = [phase EXCEPT ![p] = "set"]
  /\ raced' = (raced \/ ~NobodyBusy \/ Load(server, NoColour, serverini).s # server)
  /\ sets' = sets + 1
  /\ UNCHANGED <<serverini, reload, unseen, image>>

\* setvar, of an admin
Setvar(p, f, v) ==
  /\ Begin(p)
  /\ server' = [server EXCEPT ![f] = v] /\ told' = [told EXCEPT ![f] = v]
  /\ UNCHANGED <<textcolour, again>>

\* cmd_textcolour: added, or removed with NoColour if the process has it
SetColour(p, c) ==
  /\ c # NoColour \/ textcolour[p] # NoColour
  /\ Begin(p)
  /\ textcolour' = [textcolour EXCEPT ![p] = c]
  /\ again' = (again \/ \E q \in Process : textcolour[q] # NoColour)
  /\ UNCHANGED <<server, told>>

\* As Fill below, into an empty file.
FillAnew(p) ==
  /\ phase[p] = "set"
  /\ image' = [image EXCEPT ![p] = SaveIni(<<>>, SystemFields(server, textcolour[p]))]
  /\ phase' = [phase EXCEPT ![p] = "filled"]
  /\ UNCHANGED <<server, textcolour, serverini, reload, unseen, told, raced, again, sets>>

\* save_ini_file: the file as it is now, with the fields as they are now
Fill(p) ==
  /\ phase[p] = "set"
  /\ image' = [image EXCEPT ![p] = SaveIni(serverini, SystemFields(server, textcolour[p]))]
  /\ phase' = [phase EXCEPT ![p] = "filled"]
  /\ UNCHANGED <<server, textcolour, serverini, reload, unseen, told, raced, again, sets>>

\* A write may come in the second of the one before, and leave the time as it was.
NewTime == IF reload = "first" THEN {"first"} ELSE {"changed", reload}

\* Written under another name and renamed
Rename(p) ==
  /\ phase[p] = "filled"
  /\ serverini' = image[p]
  /\ image' = [image EXCEPT ![p] = <<>>]
  /\ phase' = [phase EXCEPT ![p] = "idle"]
  /\ reload' \in NewTime
  /\ UNCHANGED <<server, textcolour, unseen, told, raced, again, sets>>

----------------------------------------------------------------------------
(* The listener and the operator *)

\* check_reload_server_ini: the first time it looks it takes the file for the one it has read.
FirstLook ==
  /\ reload = "first"
  /\ reload' = "known"
  /\ UNCHANGED <<server, textcolour, serverini, unseen, phase, image, told, raced, again, sets>>

Reload ==
  /\ reload = "changed"
  /\ LET r == Load(server, textcolour[Listener], serverini)
     IN server' = r.s /\ textcolour' = [textcolour EXCEPT ![Listener] = r.c]
  /\ reload' = "known" /\ unseen' = FALSE
  /\ raced' = (raced \/ ~NobodyBusy)
  /\ UNCHANGED <<serverini, phase, image, told, again, sets>>

\* By hand: an item in place of what the loader took, or in a section at the end
Edit(f, v) ==
  /\ sets < MaxSets
  /\ LET at == {i \in LinesOf(serverini, "server") :
                  "item" \in serverini[i].type /\ serverini[i].name = f}
         text == TextOf(Kind[f], v)
     IN serverini' = IF at # {} THEN [serverini EXCEPT ![Max(at)].value = text]
                     ELSE serverini \o <<HeaderItem("server", f, text)>>
  /\ told' = [told EXCEPT ![f] = v]
  /\ reload' \in NewTime /\ unseen' = (unseen \/ reload' # "changed")
  /\ sets' = sets + 1
  /\ raced' = (raced \/ ~NobodyBusy)
  /\ UNCHANGED <<server, textcolour, phase, image, again>>

\* A flag that is on unless it is said not to be, in a file without a line for it: that it is
\* off is not written.
NotSaid(f) ==
  Kind[f] = BOOL /\ ~told[f] /\ ~\E i \in DOMAIN Items(serverini) :
    Items(serverini)[i].section = "server" /\ Items(serverini)[i].name = f

\* When nobody is there; the memory is a file that may be gone or of another version, and with
\* it goes what is not said.
Restart(fresh) ==
  /\ \A p \in Session : phase[p] = "no"
  /\ LET r == Load(IF fresh THEN Default ELSE server, NoColour, serverini)
     IN /\ server' = r.s /\ textcolour' = [textcolour EXCEPT ![Listener] = r.c]
        /\ told' = [f \in Field |-> IF NotSaid(f) THEN r.s[f] ELSE told[f]]
  /\ reload' = "first" /\ unseen' = FALSE
  /\ UNCHANGED <<serverini, phase, image, raced, again, sets>>

Next ==
  \/ \E p \in Session : Connect(p) \/ Disconnect(p) \/ Fill(p) \/ Rename(p)
  \/ \E p \in Session, f \in Field : \E v \in Values[f] : Setvar(p, f, v)
  \/ \E p \in Session, c \in Hue \cup {NoColour} : SetColour(p, c)
  \/ FirstLook \/ Reload
  \/ \E f \in Field : \E v \in Values[f] : Edit(f, v)
  \/ \E fresh \in BOOLEAN : Restart(fresh)

Spec == Init /\ [][Next]_vars

----------------------------------------------------------------------------
(* Properties *)

\* As long as changes are not made at the same time, what was set last, by a command of any
\* session or by hand, is what the server will have when it starts anew, and what all processes
\* have when the listener has looked; but for what was edited before it looked first, or in the
\* second of the write it knows of, which it does not see until the file changes again (unseen).
\* And a colour that was added once is there for those who connect then.  Changes at the same time undo each other (save_system_ini_file and
\* check_reload_server_ini, args.c, hold no lock).
SetStays ==
  (NobodyBusy /\ ~raced) =>
    LET anew == Load(Default, NoColour, serverini) IN
    /\ \A f \in Field : anew.s[f] = told[f] \/ NotSaid(f)
    /\ reload = "known" /\ ~unseen => \A f \in Field : server[f] = told[f] \/ NotSaid(f)
    /\ ~again => \A p \in Process : textcolour[p] = NoColour \/ anew.c = textcolour[p]
=============================================================================

------------------------------ MODULE ChatText ------------------------------
(***************************************************************************)
(* A line of chat on its way from the client that types it to one that     *)
(* shows it: the parts of a long message put together, the colours, the    *)
(* lines it is cut into for the protocol (chat_message.c, send_packet.c).  *)
(***************************************************************************)
EXTENDS Integers, Sequences, SequencesExt

CONSTANTS
  MB_STRLEN,    \* how long a line is
  MaxUnits      \* a bound on what is typed, for TLC

\* Characters; b, e, f are also colours (as the digits and the other letters to f), S is
\* an alias of a colour, Z one that an administrator made.  NUL is the byte 0.
NUL == ""
Strange == "?"
Hex == {"b", "e", "f"}
Defined == {"S", "Z"}
Alias == [S |-> "e"]
Fallback == [S |-> "e", Z |-> "b"]

Unit == {<<"x">>, <<"b", "x", "x">>, <<" ">>, <<"&", "b">>, <<"&", "S">>, <<"&", "Z">>, <<"&", "x">>}
Typed ==
  {start \o FlattenSeq(units) : start \in {<<>>, <<"/">>, <<"/", "/">>},
                                units \in UNION {[1 .. n -> Unit] : n \in 0 .. MaxUnits}}

VARIABLES
  typed, sender, receiver,  \* the text; do the clients have colours of their own
  sent,         \* what the sender's client has not sent of it
  pending_chat, \* what the server has of it
  chat,         \* the message, posted; NoChat before
  lines         \* what the receiver's client gets

vars == <<typed, sender, receiver, sent, pending_chat, chat, lines>>
NoChat == <<NUL>>

\* Leading and trailing spaces are the client's to remove.
Init ==
  /\ typed \in {t \in Typed : t # <<>> /\ t[1] # " " /\ Last(t) # " "}
  /\ sender \in BOOLEAN /\ receiver \in BOOLEAN
  /\ sent = [i \in DOMAIN typed |-> IF typed[i] = "&" THEN "%" ELSE typed[i]]
  /\ pending_chat = <<>> /\ chat = NoChat /\ lines = <<>>

Str(s, i) == IF i \in DOMAIN s THEN s[i] ELSE NUL
Spaces(n) == [i \in 1 .. n |-> " "]
Padded(line) == line \o Spaces(MB_STRLEN - Len(line))

----------------------------------------------------------------------------
(* From the sender *)

\* convert_and_post_chat's loop.  Nothing follows the text but zeros, over the first of which
\* it steps when the text ends in a sign.
RECURSIVE Converted(_, _)
Converted(s, i) ==
  IF i > Len(s) THEN <<>>
  ELSE LET c == s[i] n == Str(s, i + 1) IN
    CASE ~sender /\ c = "%" /\ n \in Hex -> <<"&", n>> \o Converted(s, i + 2)
      [] ~sender /\ c = "%" -> (IF n = "%" THEN <<c>> ELSE <<c, n>>) \o Converted(s, i + 2)
      [] sender /\ c = "%" -> <<"&", n>> \o Converted(s, i + 2)
      [] OTHER -> <<c>> \o Converted(s, i + 1)

Name == <<"&", "e", "x", "&", "e", ":", "&", "f", " ">>

\* process_client_message, process_chat_message: all parts but the last are full, and spaces
\* in them stay; what comes with the last is the message.  A command is not for others.
Receive ==
  /\ sent # <<>>
  /\ IF Len(sent) > MB_STRLEN
     THEN /\ pending_chat' = pending_chat \o SubSeq(sent, 1, MB_STRLEN)
          /\ sent' = SubSeq(sent, MB_STRLEN + 1, Len(sent))
          /\ UNCHANGED chat
     ELSE /\ LET msg == pending_chat \o sent
                 text == IF msg[1] = "/" THEN Tail(msg) ELSE msg
             IN chat' = IF msg[1] = "/" /\ Str(msg, 2) # "/" THEN <<>>
                        ELSE Name \o Converted(text, 1)
          /\ pending_chat' = <<>> /\ sent' = <<>>
  /\ UNCHANGED <<typed, sender, receiver, lines>>

----------------------------------------------------------------------------
(* To the receiver *)

\* The colour a sign and a character stand for; NUL if none
ColourOf(col) ==
  LET c == IF col \in DOMAIN Alias THEN Alias[col] ELSE col
  IN IF c \in Defined \cup Hex THEN c ELSE NUL

\* Where post_chat is: at s, with the line so far; ws and wd are the last space, in the text
\* and in the line.
Start == [s |-> 1, line |-> <<>>, ws |-> 0, wd |-> -1, add_gt |-> FALSE, el |-> TRUE,
          colour |-> IF chat[1] = " " THEN NUL ELSE "f", ncolour |-> "e", out |-> <<>>]

\* As Wrapped below, going on behind the word that did not fit.
WrappedBehind(st) ==
  IF st.wd > 0 THEN [st EXCEPT !.line = Padded(SubSeq(@, 1, st.wd)), !.s = @ - 1]
  ELSE [st EXCEPT !.line = Padded(@), !.s = @ - 1]

\* The line ends at its last space, behind which the next one starts.
Wrapped(st) ==
  IF st.wd > 0 THEN [st EXCEPT !.line = Padded(SubSeq(@, 1, st.wd)), !.s = st.ws]
  ELSE [st EXCEPT !.line = Padded(@), !.s = @ - 1]

\* The character goes into the line, behind the sign of a line that goes on, and a colour.
Put(st, c, needs) ==
  LET gt == IF st.add_gt THEN (IF st.colour # "f" THEN <<"&", "f">> ELSE <<>>) \o <<">", " ">> ELSE <<>>
      colour == IF st.add_gt THEN "f" ELSE st.colour
      painted == needs > 1 /\ colour # st.ncolour
  IN [st EXCEPT !.line = @ \o gt \o (IF painted THEN <<"&", st.ncolour, c>>
                                     ELSE IF st.add_gt /\ c = " " THEN <<>> ELSE <<c>>),
                !.add_gt = FALSE, !.colour = IF painted THEN st.ncolour ELSE colour]

Flushed(st) ==
  IF Len(st.line) < MB_STRLEN THEN st
  ELSE [st EXCEPT !.out = Append(@, st.line), !.line = <<>>, !.el = FALSE, !.add_gt = TRUE,
                  !.colour = IF Str(chat, st.s) = Strange THEN NUL ELSE "f", !.ws = 0, !.wd = -1]

\* post_chat, to this client: its lines
RECURSIVE Posted(_)
Posted(st) ==
  IF st.s > Len(chat)
  THEN IF st.line # <<>> \/ st.el THEN Append(st.out, Padded(st.line)) ELSE st.out
  ELSE LET sign == chat[st.s] = "&"
           col == ColourOf(Str(chat, st.s + 1))
       IN IF sign /\ col # NUL THEN Posted([st EXCEPT !.ncolour = col, !.s = @ + 2])
          ELSE LET c == IF sign THEN Strange ELSE IF chat[st.s] = NUL THEN " " ELSE chat[st.s]
                   at == IF c = " " THEN [st EXCEPT !.ws = st.s, !.wd = Len(st.line)] ELSE st
                   needs == IF (st.colour # st.ncolour /\ c # " ") \/ (st.line = <<>> /\ c = " ")
                            THEN 3 ELSE 1
                   last == Len(st.line) + needs
                   ends == last > MB_STRLEN \/ (last = MB_STRLEN /\ Str(chat, st.s + 1) \notin {" ", NUL})
                   done == Flushed(IF ends THEN Wrapped(at) ELSE Put(at, c, needs))
               IN Posted([done EXCEPT !.s = @ + 1])

\* nb_string_write: no colour at the end of a line; and for clients that have none of their own,
\* only those they know
Blank(line) == SelectInSeq(Reverse(line), LAMBDA c : c # " ")
RECURSIVE Stripped(_)
Stripped(line) ==
  LET last == Len(line) + 1 - Blank(line)
  IN IF Blank(line) # 0 /\ last > 1 /\ line[last - 1] = "&"
     THEN Stripped([line EXCEPT ![last] = " ", ![last - 1] = " "]) ELSE line
Written(line) ==
  LET l == Stripped(line)
      unknown(i) == i \in DOMAIN l /\ l[i] = "&" /\ l[i + 1] \notin Hex
  IN IF receiver THEN l
     ELSE [i \in DOMAIN l |-> IF unknown(i) THEN "%" ELSE IF unknown(i - 1) THEN " " ELSE l[i]]

Post ==
  /\ chat \notin {NoChat, <<>>} /\ lines = <<>>
  /\ LET out == Posted(Start)
     IN lines' = [i \in DOMAIN out |-> Written(out[i])]
  /\ UNCHANGED <<typed, sender, receiver, sent, pending_chat, chat>>

Next == Receive \/ Post

Spec == Init /\ [][Next]_vars

----------------------------------------------------------------------------
(* Properties *)

\* What a client shows of a text that begins in a colour: characters, each with its colour,
\* which a space has none of.
RECURSIVE Shown(_, _, _)
Shown(text, i, colour) ==
  IF i > Len(text) THEN <<>>
  ELSE IF text[i] = "&" THEN Shown(text, i + 2, text[i + 1])
  ELSE <<[c |-> text[i], colour |-> IF text[i] = " " THEN NUL ELSE colour]>> \o Shown(text, i + 1, colour)

\* What was typed, as its author sees it: one sign behind which no colour is becomes another;
\* a client without colours of its own knows no others.
RECURSIVE Meant(_, _)
Meant(text, i) ==
  IF i > Len(text) THEN <<>>
  ELSE IF text[i] # "&" THEN <<text[i]>> \o Meant(text, i + 1)
  ELSE LET c == text[i + 1] IN
       CASE c \in Hex -> <<"&", c>> \o Meant(text, i + 2)
         [] ~sender -> <<"%", c>> \o Meant(text, i + 2)
         [] c \in Defined -> <<"&", IF c \in DOMAIN Alias THEN Alias[c] ELSE c>> \o Meant(text, i + 2)
         [] OTHER -> <<Strange, c>> \o Meant(text, i + 2)

Visible(shown) == SelectSeq(shown, LAMBDA x : x.c # " ")

\* Everything said is shown once, in order, in its colour, whatever its length and wherever the
\* client cut it; and a line ends where a word does, unless one word is all there is in it.
\* Commands are not shown.  Not so: a colour inside a word that goes to the next line is that
\* of the whole word; and clients without colours of their own get a sign for those that are,
\* not their fallback (nb_string_write looks at the colour it has replaced).
SaidIsShown ==
  (chat # NoChat /\ (chat = <<>> \/ lines # <<>>)) =>
    LET command == typed[1] = "/" /\ Str(typed, 2) # "/"
        text == Meant(IF typed[1] = "/" THEN Tail(typed) ELSE typed, 1)
        expected == Visible(Shown(Name \o text, 1, "e"))
        body(i) == IF i = 1 THEN lines[i] ELSE SubSeq(lines[i], 3, MB_STRLEN)
        shown == FlattenSeq([i \in DOMAIN lines |-> Visible(Shown(body(i), 1, "f"))])
        inside == \E i \in 2 .. Len(text) - 2 :
                    text[i] = "&" /\ text[i - 1] # " " /\ text[i + 2] # " "
        custom == ~receiver /\ \E i \in DOMAIN text : text[i] = "Z"
    IN IF command THEN lines = <<>>
       ELSE ~custom =>
         /\ [i \in DOMAIN shown |-> shown[i].c] = [i \in DOMAIN expected |-> expected[i].c]
         /\ ~inside => shown = expected
         /\ \A i \in DOMAIN lines : Len(lines[i]) = MB_STRLEN /\ (i > 1 => SubSeq(lines[i], 1, 2) = <<">", " ">>)
         /\ \A i \in DOMAIN lines \ {Len(lines)} :
              LET whole == Shown(Name \o text, 1, "e")
                  until == Len(FlattenSeq([j \in 1 .. i |-> Visible(Shown(body(j), 1, "f"))]))
                  \* the last character in these lines
                  last == CHOOSE n \in DOMAIN whole :
                            whole[n].c # " " /\ Len(Visible(SubSeq(whole, 1, n))) = until
                  line == Shown(body(i), 1, "f")
              IN whole[last + 1].c # " " => SubSeq(line, 1, Len(Visible(line))) = Visible(line)
=============================================================================

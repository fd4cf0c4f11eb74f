------------------------------- MODULE IniFile -------------------------------
(***************************************************************************)
(* The settings files: lines under section headers, which the server       *)
(* rewrites in place, keeping what people wrote in them (ini_file.c), and  *)
(* the kinds of values in them (ini_struct.c).  A text is a tuple of the   *)
(* numbers in it, which no formatting changes.                             *)
(***************************************************************************)
EXTENDS Integers, Sequences, SequencesExt, FiniteSetsExt

BLOCKMAX == 1024
Unset == -2147483647 - 1             \* INT_MIN
NoText == <<>>                       \* a null pointer; an empty value is <<"">>

\* A header may have an item on its line.
Line(type, section, name, value) == [type |-> type, section |-> section, name |-> name, value |-> value]
Header(section) == Line({"section"}, section, "", NoText)
ItemLine(name, value) == Line({"item"}, NoText, name, value)
HeaderItem(section, name, value) == Line({"section", "item"}, section, name, value)
Comment == Line({"comment"}, NoText, "", NoText)
\* What is no item; with a header before it neither that is one.
BadLine(section) == Line({"error"}, section, "", NoText)

----------------------------------------------------------------------------
(* Lines *)

Headers(ini) == {i \in DOMAIN ini : "section" \in ini[i].type}

\* The lines after a header of this name, the header's included, up to the next one
LinesOf(ini, section) ==
  LET heads == Headers(ini)
  IN {i \in DOMAIN ini : \E h \in heads :
        ini[h].section = section /\ h <= i /\ \A g \in heads : g <= h \/ g > i}

\* add_ini_txt_line_or_nil: over the first item of that name; or after the section's last item;
\* or in a new section.  Without a value the line is none, its header neither.
AddLine(ini, section, name, value, nilok) ==
  LET mine == {i \in LinesOf(ini, section) : ini[i].type \cap {"section", "item"} # {}}
      same == {i \in mine : "item" \in ini[i].type /\ ini[i].name = name}
  IN IF same # {}
     THEN IF value = NoText THEN [ini EXCEPT ![Min(same)].type = {}, ![Min(same)].value = NoText]
          ELSE [ini EXCEPT ![Min(same)].value = value]
     ELSE IF nilok \/ value = NoText THEN ini
     ELSE IF mine = {} THEN ini \o <<Comment, Header(section), ItemLine(name, value)>>
     ELSE InsertAt(ini, Max(mine) + 1, ItemLine(name, value))

\* save_ini_txt_file: what is no line any more is left out; a bad line becomes a comment.
InFile(ini) ==
  LET kept == SelectSeq(ini, LAMBDA l : l.type # {})
  IN [i \in DOMAIN kept |-> IF kept[i].type = {"error"} THEN Comment ELSE kept[i]]

\* The items of a file with their sections, as load_ini_file goes through them
Items(ini) ==
  LET heads == Headers(ini)
      last(i) == Max({h \in heads : h <= i})
      at == SelectSeq([i \in DOMAIN ini |-> i],
                      LAMBDA i : "item" \in ini[i].type /\ \E h \in heads : h <= i)
  IN [n \in DOMAIN at |-> [section |-> ini[last(at[n])].section, name |-> ini[at[n]].name,
                           value |-> ini[at[n]].value]]

----------------------------------------------------------------------------
(* Values: a kind is that of the macro, with a scale where it has one       *)

STR == <<"str">>                     \* strings, and bytes in hexadecimal
INT == <<"int">>                     \* and hexadecimal numbers, and dates
BOOL == <<"bool">>
BLK == <<"blk">>                     \* a number of a block
KNOWN == <<"known">>                 \* written unless INT_MIN
NONZERO == <<"nonzero">>             \* written unless 0
DURATION == <<"duration">>
FIXEDP(scale, scale2) == <<"fixed", scale, scale2>>

Power == <<1, 10, 100, 1000, 10000>>

\* To the nearest, halves up
Rounded(n, d) == (2 * n + d) \div (2 * d)

\* As WriteFixed below, with two digits whatever the scale.
WriteFixedTwo(v, scale, scale2) == <<Rounded(v * scale2 * 100, scale), 2>>

\* ini_write_int_scale: as many digits as the scale needs
WriteFixed(v, scale, scale2) ==
  LET digits == Min({d \in 0 .. 4 : Power[d + 1] >= scale \div scale2})
  IN <<Rounded(v * scale2 * Power[digits + 1], scale), digits>>
ReadFixed(text, scale, scale2) == Rounded(text[1] * scale, scale2 * Power[text[2] + 1])

TimeUnit == <<1, 60, 3600, 86400, 604800>>
WriteDuration(v) ==
  LET unit == IF v = 0 THEN 1 ELSE Max({u \in DOMAIN TimeUnit : v % TimeUnit[u] = 0})
  IN <<v \div TimeUnit[unit], unit>>
ReadDuration(text) == text[1] * (IF Len(text) = 1 THEN 1 ELSE TimeUnit[text[2]])

TextOf(kind, v) ==
  CASE kind[1] = "fixed" -> WriteFixed(v, kind[2], kind[3])
    [] kind[1] = "duration" -> WriteDuration(v)
    [] OTHER -> <<v>>

ValueOf(kind, text) ==
  CASE kind[1] = "fixed" -> ReadFixed(text, kind[2], kind[3])
    [] kind[1] = "duration" -> ReadDuration(text)
    [] OTHER -> text[1]

\* Left out of the file; if it says something else already, it still does.
Skipped(kind, v) ==
  \/ kind = BLK /\ v \notin 0 .. BLOCKMAX - 1
  \/ kind = KNOWN /\ v = Unset
  \/ kind = NONZERO /\ v = 0

\* The INI_ macros, writing.  A flag that is not set has no line unless there is one to change.
Write(ini, section, name, kind, v) ==
  IF Skipped(kind, v) THEN ini
  ELSE AddLine(ini, section, name, TextOf(kind, v), kind = BOOL /\ ~v)

\* save_ini_file: every field, into what the file was
SaveIni(ini, fields) ==
  InFile(FoldLeft(LAMBDA i, f : Write(i, f.section, f.name, f.kind, f.v), ini, fields))
=============================================================================

---------------------------- MODULE ResizeProofs ----------------------------
(***************************************************************************)
(* AsResized is an invariant of Resize, for every size of the level and any *)
(* number of clients: ResizeIInv is inductive.  As long as nothing is torn  *)
(* the file of the level has its blocks (LevelInv), what is copied is in    *)
(* the new file and stays as it is (CopyInv), and who has another file is   *)
(* about to be put off (MappedInv).  First the layout of files, where each  *)
(* cell has a place of its own.                                            *)
(***************************************************************************)
EXTENDS Resize, TLAPS

-----------------------------------------------------------------------------
(* The layout of files *)

\* A cell is a place in a row, and a row.
LEMMA CellIs ==
  ASSUME ResizeConstants, NEW w \in Nat, NEW c \in Cells(w)
  PROVE  /\ c = <<c[1], c[2]>> /\ c[1] \in Nat /\ c[2] \in Nat
         /\ c[1] < w /\ c[2] < Depth /\ c[1] \in 0 .. w - 1 /\ c[2] \in Rows
BY DEF ResizeConstants, Cells, Rows

\* A row further down is a whole width further on.
LEMMA RowsApart ==
  ASSUME NEW a \in Nat, NEW b \in Nat, NEW w \in Nat, a < b
  PROVE  a * w + w <= b * w /\ a * w \in Nat /\ b * w \in Nat
<1>1. PICK d \in Nat : b = a + 1 + d
  <2>1. b - a - 1 \in Nat /\ b = a + 1 + (b - a - 1)
    OBVIOUS
  <2> QED
    BY <2>1
<1>2. (a + 1 + d) * w = a * w + w + d * w /\ d * w >= 0 /\ d * w \in Nat /\ a * w \in Nat
  OBVIOUS
<1> QED
  BY <1>1, <1>2

\* A cell has a place in the file.
LEMMA PackIn ==
  ASSUME ResizeConstants, NEW w \in Nat, NEW c \in Cells(w)
  PROVE  Pack(c, w) \in Places(w)
<1>1. c[1] \in Nat /\ c[2] \in Nat /\ c[1] < w /\ c[2] < Depth /\ Depth \in Nat
  BY CellIs DEF ResizeConstants
<1>2. c[2] * w + w <= Depth * w /\ c[2] * w \in Nat /\ Depth * w \in Nat
  BY <1>1, RowsApart
<1>3. c[2] * w + c[1] \in 0 .. Depth * w - 1
  BY <1>1, <1>2
<1> QED
  BY <1>3 DEF Pack, Places

\* No two have the same.
LEMMA PackApart ==
  ASSUME ResizeConstants, NEW w \in Nat, NEW c \in Cells(w), NEW d \in Cells(w),
         Pack(c, w) = Pack(d, w)
  PROVE  c = d
<1>1. /\ c = <<c[1], c[2]>> /\ c[1] \in Nat /\ c[2] \in Nat /\ c[1] < w
      /\ d = <<d[1], d[2]>> /\ d[1] \in Nat /\ d[2] \in Nat /\ d[1] < w
  BY CellIs
<1>2. c[2] * w + c[1] = d[2] * w + d[1]
  BY DEF Pack
<1>3. ~(c[2] < d[2])
  <2> SUFFICES ASSUME c[2] < d[2] PROVE FALSE
    OBVIOUS
  <2>1. c[2] * w + w <= d[2] * w /\ c[2] * w \in Nat /\ d[2] * w \in Nat
    BY <1>1, RowsApart
  <2> QED
    BY <1>1, <1>2, <2>1
<1>4. ~(d[2] < c[2])
  <2> SUFFICES ASSUME d[2] < c[2] PROVE FALSE
    OBVIOUS
  <2>1. d[2] * w + w <= c[2] * w /\ c[2] * w \in Nat /\ d[2] * w \in Nat
    BY <1>1, RowsApart
  <2> QED
    BY <1>1, <1>2, <2>1
<1>5. c[2] = d[2]
  BY <1>1, <1>3, <1>4
<1>6. c[1] = d[1]
  <2>1. c[2] * w \in Nat
    BY <1>1
  <2> QED
    BY <1>1, <1>2, <1>5, <2>1
<1> QED
  BY <1>1, <1>5, <1>6

\* A block that is put into a file is in its cell, and nothing else is changed.
LEMMA PutHolds ==
  ASSUME ResizeConstants, NEW w \in Nat, NEW blocks, NEW f, NEW g, NEW c \in Cells(w), NEW v,
         Holds(blocks, w, f), g[c] = v, \A d \in Cells(w) : d # c => g[d] = f[d]
  PROVE  Holds([blocks EXCEPT ![Pack(c, w)] = v], w, g)
<1> DEFINE b == [blocks EXCEPT ![Pack(c, w)] = v]
<1>1. DOMAIN blocks = Places(w) /\ \A d \in Cells(w) : blocks[Pack(d, w)] = f[d]
  BY DEF Holds
<1>2. DOMAIN b = Places(w) /\ \A i \in Places(w) : b[i] = IF i = Pack(c, w) THEN v ELSE blocks[i]
  BY <1>1
<1> HIDE DEF b
<1>3. ASSUME NEW d \in Cells(w) PROVE b[Pack(d, w)] = g[d]
  <2>1. Pack(d, w) \in Places(w)
    BY PackIn
  <2>2. CASE d = c
    BY <1>2, <2>1, <2>2
  <2>3. CASE d # c
    <3>1. Pack(d, w) # Pack(c, w)
      BY <2>3, PackApart
    <3> QED
      BY <1>1, <1>2, <2>1, <2>3, <3>1
  <2> QED
    BY <2>2, <2>3
<1> QED
  BY <1>2, <1>3 DEF Holds, b

\* Who has the same in every cell is held by the same file.
LEMMA SameHolds ==
  ASSUME NEW w, NEW blocks, NEW f, NEW g, Holds(blocks, w, f), \A c \in Cells(w) : f[c] = g[c]
  PROVE  Holds(blocks, w, g)
BY DEF Holds

LEMMA PackedHolds ==
  ASSUME ResizeConstants, NEW w \in Nat, NEW f
  PROVE  Holds(Packed(w, f), w, f)
<1> DEFINE b == Packed(w, f)
<1>1. DOMAIN b = Places(w)
      /\ \A i \in Places(w) : b[i] = f[CHOOSE c \in Cells(w) : Pack(c, w) = i]
  BY DEF Packed
<1> HIDE DEF b
<1>2. ASSUME NEW d \in Cells(w) PROVE b[Pack(d, w)] = f[d]
  <2>1. \A c \in Cells(w) : Pack(c, w) = Pack(d, w) => c = d
    BY PackApart
  <2>2. (CHOOSE c \in Cells(w) : Pack(c, w) = Pack(d, w)) = d
    BY <2>1
  <2> QED
    BY <1>1, <2>2, PackIn
<1> QED
  BY <1>1, <1>2 DEF Holds, b

LEMMA OverIs ==
  ASSUME NEW f, NEW g
  PROVE  /\ DOMAIN Over(f, g) = DOMAIN f
         /\ \A d \in DOMAIN f : Over(f, g)[d] = IF d \in DOMAIN g THEN g[d] ELSE f[d]
BY DEF Over

\* There is a free file while two are in use.
LEMMA OneIsFree ==
  ASSUME NEW S, NEW a, NEW b, S \subseteq {NoFile, a, b}
  PROVE  Min(File \ S) \in File \ S
<1>1. \E x \in File \ S : \A y \in File \ S : x <= y
  <2>1. File = {1, 2, 3} /\ NoFile = 0
    BY DEF File, NoFile
  <2>2. \E x \in File : x \notin S
    BY <2>1
  <2>3. CASE 1 \notin S
    BY <2>1, <2>3
  <2>4. CASE 1 \in S /\ 2 \notin S
    BY <2>1, <2>4
  <2>5. CASE 1 \in S /\ 2 \in S
    BY <2>1, <2>2, <2>5
  <2> QED
    BY <2>3, <2>4, <2>5
<1>2. Min(File \ S) = CHOOSE x \in File \ S : \A y \in File \ S : x <= y
  BY DEF Min
<1> QED
  BY <1>1, <1>2

-----------------------------------------------------------------------------
(* The steps *)

Parts == ResizeTypes /\ FilesInv /\ LevelInv /\ MappedInv /\ CopyInv /\ SizesInv
Held == ResizeConstants /\ Parts

\* There is the file, with the blocks of the level, and nothing came late.
LEMMA InitHolds == ASSUME ResizeConstants, ResizeInit PROVE Parts
<1>1. cells_x \in Width /\ cells_x \in Nat /\ to \in Width /\ DOMAIN late = {} /\ file = 1 /\ 1 \in File
  BY DEF ResizeConstants, ResizeInit, Width, File
<1>2. DOMAIN data = File /\ data[1] = Packed(cells_x, want) /\ DOMAIN want = Cells(cells_x)
  BY <1>1 DEF ResizeInit, Original
<1>3. mapped \in [Client -> FileOrNone] /\ \A c \in Client : mapped[c] \in {NoFile, file}
  BY <1>1 DEF ResizeInit, FileOrNone
<1>4. ResizeTypes
  BY <1>1, <1>2, <1>3 DEF ResizeInit, ResizeTypes, FileOrNone
<1>5. FilesInv
  BY <1>1, <1>2 DEF ResizeInit, FilesInv, NoFile
<1>6. Holds(data[1], cells_x, want)
  BY <1>1, <1>2, PackedHolds
<1>7. \A c \in Cells(cells_x) : want[c] = Over(want, late)[c]
  BY <1>1, <1>2, OverIs
<1>8. Holds(data[1], cells_x, Over(want, late)) /\ cw.w = cells_x /\ cw.blocks = data[1]
  BY <1>6, <1>7, SameHolds DEF ResizeInit
<1>9. LevelInv
  BY <1>1, <1>8 DEF LevelInv
<1>10. MappedInv /\ CopyInv /\ SizesInv
  BY <1>1, <1>3 DEF ResizeInit, MappedInv, CopyInv, SizesInv, Copying
<1> QED
  BY <1>4, <1>5, <1>9, <1>10 DEF Parts

\* What an edit does to the files
LEMMA EditData ==
  ASSUME Held, NEW c \in Client, NEW cell, Edit(c, cell)
  PROVE  /\ DOMAIN data' = File /\ \A f \in File : f # mapped[c] => data'[f] = data[f]
         /\ mapped[c] \in File /\ file \in File
         /\ Pack(cell, cells_x) \in DOMAIN data[mapped[c]] =>
              data'[mapped[c]] = [data[mapped[c]] EXCEPT ![Pack(cell, cells_x)] = 10 + edits]
<1>1. DOMAIN data = File /\ mapped[c] \in File /\ file \in File
  BY DEF Held, Parts, ResizeTypes, FilesInv, FileOrNone, Edit
<1>2. data' = IF Pack(cell, cells_x) \in DOMAIN data[mapped[c]]
              THEN [data EXCEPT ![mapped[c]][Pack(cell, cells_x)] = 10 + edits] ELSE data
  BY DEF Edit
<1> QED
  BY <1>1, <1>2

\* An edit of somebody with an old file is lost, and does no harm.
LEMMA EditOldHolds ==
  ASSUME Held, NEW c \in Client, NEW cell, Edit(c, cell), mapped[c] # file
  PROVE  Parts'
<1>1. /\ UNCHANGED <<want, late, cells_x, file, cw, loaded, force_unload, mapped, resizer, saver, torn>>
      /\ edits' = edits + 1 /\ dirty_save' = TRUE
  BY DEF Edit
<1>2. /\ DOMAIN data' = File /\ mapped[c] \in File /\ file \in File /\ data'[file] = data[file]
  BY EditData
<1>3. ~Copying /\ file # NoFile
  BY <1>2 DEF Held, Parts, MappedInv, Copying, File, NoFile
<1>4. ResizeTypes'
  BY <1>1, <1>2 DEF Held, Parts, ResizeTypes, resizer
<1>5. FilesInv' /\ LevelInv' /\ MappedInv' /\ SizesInv'
  BY <1>1, <1>2, <1>3 DEF Held, Parts, FilesInv, LevelInv, MappedInv, SizesInv, resizer
<1>6. CopyInv'
  BY <1>1, <1>3 DEF Held, Parts, CopyInv, Copying, resizer
<1> QED
  BY <1>4, <1>5, <1>6 DEF Parts

\* One of somebody with the level's file is in it, and in the new one if it is yet to be copied.
LEMMA EditHolds ==
  ASSUME Held, NEW c \in Client, NEW cell, Edit(c, cell), mapped[c] = file
  PROVE  Parts'
<1> DEFINE v == 10 + edits
           g == Over(want', late')
<1>1. /\ UNCHANGED <<cells_x, file, cw, loaded, force_unload, mapped, resizer, saver, torn>>
      /\ edits' = edits + 1 /\ dirty_save' = TRUE /\ cell \in Cells(cells_x)
  BY DEF Edit
<1>2. /\ DOMAIN data' = File /\ file \in File /\ file # NoFile
      /\ \A f \in File : f # file => data'[f] = data[f]
  <2>1. /\ DOMAIN data' = File /\ file \in File
        /\ \A f \in File : f # mapped[c] => data'[f] = data[f]
    BY EditData
  <2> QED
    BY <2>1 DEF File, NoFile
<1>3. rpc # "sizes" /\ cells_x \in Nat /\ edits \in Nat
  BY DEF Held, Parts, MappedInv, ResizeTypes, Width
<1>4. Holds(data[file], cells_x, Over(want, late))
  BY <1>2, <1>3 DEF Held, Parts, LevelInv
<1>5. data'[file] = [data[file] EXCEPT ![Pack(cell, cells_x)] = v]
  <2>1. Pack(cell, cells_x) \in DOMAIN data[file]
    BY <1>1, <1>3, <1>4, PackIn DEF Held, Holds
  <2> QED
    BY <2>1, EditData
<1>6. DOMAIN want = Cells(cells_x) /\ DOMAIN late \subseteq Cells(cells_x)
  BY DEF Held, Parts, ResizeTypes
<1>7. /\ DOMAIN want' = Cells(cells_x) /\ DOMAIN late' \subseteq Cells(cells_x)
      /\ \A d \in Cells(cells_x) : g[d] = IF d = cell THEN v ELSE Over(want, late)[d]
      /\ Copying => /\ \A d \in todo : d \notin DOMAIN late'
                    /\ \A d \in Cells(cells_x) \ todo : want'[d] = want[d]
      /\ ~Copying => DOMAIN late' = {}
  <2>1. /\ DOMAIN Over(want, late) = Cells(cells_x)
        /\ \A d \in Cells(cells_x) : Over(want, late)[d] = IF d \in DOMAIN late THEN late[d] ELSE want[d]
    BY <1>6, OverIs
  <2>2. DOMAIN want' = Cells(cells_x) =>
          \A d \in Cells(cells_x) : g[d] = IF d \in DOMAIN late' THEN late'[d] ELSE want'[d]
    BY OverIs
  <2>3. (Copying => \A d \in todo : d \notin DOMAIN late) /\ (~Copying => DOMAIN late = {})
    BY DEF Held, Parts, CopyInv
  <2> HIDE DEF g, v
  <2>4. CASE Copying /\ cell \notin todo
    <3>1. late' = PutCell(late, cell, v) /\ want' = want
      BY <2>4 DEF Edit, Copying, v
    <3>2. /\ DOMAIN late' = DOMAIN late \cup {cell}
          /\ \A d \in DOMAIN late' : late'[d] = IF d = cell THEN v ELSE late[d]
      BY <3>1 DEF PutCell
    <3>3. \A d \in Cells(cells_x) : g[d] = IF d = cell THEN v ELSE Over(want, late)[d]
      BY <1>1, <1>6, <2>1, <2>2, <3>1, <3>2
    <3> QED
      BY <1>1, <1>6, <2>3, <2>4, <3>1, <3>2, <3>3
  <2>5. CASE ~(Copying /\ cell \notin todo)
    <3>1. want' = PutCell(want, cell, v) /\ late' = late
      BY <2>5 DEF Edit, Copying, v
    <3>2. cell \notin DOMAIN late
      BY <2>3, <2>5
    <3>3. /\ DOMAIN want' = Cells(cells_x)
          /\ \A d \in Cells(cells_x) : want'[d] = IF d = cell THEN v ELSE want[d]
      BY <1>1, <1>6, <3>1 DEF PutCell
    <3>4. \A d \in Cells(cells_x) : g[d] = IF d = cell THEN v ELSE Over(want, late)[d]
      BY <1>1, <1>6, <2>1, <2>2, <3>1, <3>2, <3>3
    <3> QED
      BY <1>1, <1>6, <2>3, <2>5, <3>1, <3>2, <3>3, <3>4
  <2> QED
    BY <2>4, <2>5
<1>8. Holds(data'[file], cells_x, g)
  <2> HIDE DEF g, v
  <2>1. g[cell] = v /\ \A d \in Cells(cells_x) : d # cell => g[d] = Over(want, late)[d]
    BY <1>1, <1>7
  <2> QED
    BY <1>1, <1>3, <1>4, <1>5, <2>1, PutHolds DEF Held
<1> HIDE DEF v
<1>9. ResizeTypes'
  BY <1>1, <1>2, <1>3, <1>7 DEF Held, Parts, ResizeTypes, resizer
<1>10. FilesInv' /\ MappedInv'
  BY <1>1, <1>2 DEF Held, Parts, FilesInv, MappedInv, resizer
<1>11. LevelInv'
  BY <1>1, <1>8 DEF LevelInv
<1>12. SizesInv'
  BY <1>1, <1>3 DEF Held, Parts, SizesInv, resizer
<1>13. CopyInv'
  <2>1. CASE Copying
    <3>1. /\ file # NoFile /\ source = file /\ tmp \in File \ {file} /\ cells_x # to
          /\ todo \subseteq Cells(cells_x) \cap Cells(to)
          /\ Holds(data[tmp], to, [d \in Cells(to) |-> IF d \in Cells(cells_x) \ todo THEN want[d] ELSE Air])
          /\ rpc = "rename" => todo = {}
      BY <2>1 DEF Held, Parts, CopyInv
    <3>2. data'[tmp] = data[tmp]
      BY <1>2, <3>1
    <3>3. Holds(data'[tmp], to, [d \in Cells(to) |-> IF d \in Cells(cells_x) \ todo THEN want'[d] ELSE Air])
      BY <1>7, <2>1, <3>1, <3>2, SameHolds
    <3> QED
      BY <1>1, <1>7, <2>1, <3>1, <3>3 DEF CopyInv, Copying, resizer
  <2>2. CASE ~Copying
    BY <1>1, <1>7, <2>2 DEF CopyInv, Copying, resizer
  <2> QED
    BY <2>1, <2>2
<1> QED
  BY <1>9, <1>10, <1>11, <1>12, <1>13 DEF Parts

LEMMA LeaveHolds ==
  ASSUME Held, NEW c \in Client, LeaveLevel(c)
  PROVE  Parts'
<1>1. UNCHANGED <<level, resizer, saver, resizeHistory, edits>>
  BY DEF LeaveLevel
<1>2. mapped' \in [Client -> FileOrNone] /\ \A d \in Client : mapped'[d] = NoFile \/ mapped'[d] = mapped[d]
  BY DEF Held, Parts, ResizeTypes, LeaveLevel, FileOrNone
<1>3. ResizeTypes'
  BY <1>1, <1>2 DEF Held, Parts, ResizeTypes, level, resizer, resizeHistory
<1>4. FilesInv' /\ MappedInv'
  BY <1>1, <1>2 DEF Held, Parts, FilesInv, MappedInv, level, resizer, resizeHistory, SizesInv
<1>5. LevelInv' /\ CopyInv' /\ SizesInv'
  BY <1>1 DEF Held, Parts, LevelInv, CopyInv, SizesInv, Copying, level, resizer, resizeHistory
<1> QED
  BY <1>3, <1>4, <1>5 DEF Parts

\* The files are those of the level, or are made of what was saved.
LEMMA OpenedHolds ==
  ASSUME Held, Opened, rpc # "sizes"
  PROVE  /\ cells_x' = cells_x /\ file' \in File /\ DOMAIN data' = File
         /\ file # NoFile => file' = file /\ data' = data
         /\ UNCHANGED <<want, late>> => Holds(data'[file'], cells_x, Over(want, late))
<1>1. /\ DOMAIN data = File /\ file \in FileOrNone /\ mapped \in [Client -> FileOrNone]
      /\ saver \in {NoFile, file}
      /\ file = NoFile => ~dirty_save /\ \A c \in Client : mapped[c] = NoFile
  BY DEF Held, Parts, ResizeTypes, FilesInv
<1>2. CASE file # NoFile
  BY <1>1, <1>2 DEF Held, Parts, Opened, LevelInv, FileOrNone
<1>3. CASE file = NoFile
  <2>1. {file, saver, source, tmp} \cup {mapped[c] : c \in Client} \subseteq {NoFile, source, tmp}
    BY <1>1, <1>3
  <2>2. FreeFile \in File
    BY <2>1, OneIsFree DEF FreeFile
  <2>3. cw.w = cells_x /\ Holds(cw.blocks, cells_x, Over(want, late))
    BY <1>1, <1>3 DEF Held, Parts, LevelInv
  <2>4. cells_x' = cw.w /\ file' = FreeFile /\ data' = [data EXCEPT ![FreeFile] = cw.blocks]
    BY <1>3 DEF Opened
  <2>5. DOMAIN data' = File /\ data'[file'] = cw.blocks
    BY <1>1, <2>2, <2>4
  <2> QED
    BY <1>3, <2>2, <2>3, <2>4, <2>5
<1> QED
  BY <1>2, <1>3

LEMMA EnterHolds ==
  ASSUME Held, NEW c \in Client, Enter(c), ~torn'
  PROVE  Parts'
<1>1. rpc # "sizes" /\ torn' = FALSE /\ mapped[c] = NoFile /\ ~(loaded /\ force_unload)
  BY DEF Held, Parts, ResizeTypes, Enter, InBetween
<1>2. UNCHANGED <<dirty_save, cw, resizer, saver, want, late, edits>>
  BY DEF Enter
<1>3. /\ cells_x' = cells_x /\ file' \in File /\ DOMAIN data' = File
      /\ file # NoFile => file' = file /\ data' = data
      /\ Holds(data'[file'], cells_x, Over(want, late))
  BY <1>1, <1>2, OpenedHolds DEF Enter
<1>4. file' \in FileOrNone /\ file' # NoFile /\ loaded' = TRUE /\ force_unload' = FALSE
  <2>1. force_unload' = (loaded /\ force_unload) /\ loaded' = TRUE
    BY DEF Enter
  <2>2. force_unload' = FALSE
    BY <1>1, <2>1
  <2> QED
    BY <1>3, <2>1, <2>2 DEF FileOrNone, File, NoFile
<1>5. mapped' \in [Client -> FileOrNone] /\ \A d \in Client : mapped'[d] = IF d = c THEN file' ELSE mapped[d]
  BY <1>4 DEF Held, Parts, ResizeTypes, Enter
<1>6. ResizeTypes'
  BY <1>1, <1>2, <1>3, <1>4, <1>5 DEF Held, Parts, ResizeTypes, resizer
<1>7. FilesInv'
  BY <1>2, <1>3, <1>4 DEF Held, Parts, FilesInv
<1>8. LevelInv'
  BY <1>1, <1>2, <1>3 DEF Held, Parts, LevelInv
<1>9. MappedInv'
  <2>1. file = NoFile => \A d \in Client : mapped[d] = NoFile
    BY DEF Held, Parts, FilesInv
  <2>2. rpc \in {"no", "copy", "rename", "failed", "done", "wait"} =>
          \A d \in Client : mapped[d] \in {NoFile, file}
    BY <1>1 DEF Held, Parts, MappedInv
  <2> QED
    BY <1>1, <1>2, <1>3, <1>5, <2>1, <2>2 DEF MappedInv, resizer
<1>10. CopyInv' /\ SizesInv'
  BY <1>1, <1>2, <1>3 DEF Held, Parts, CopyInv, SizesInv, Copying, resizer
<1> QED
  BY <1>6, <1>7, <1>8, <1>9, <1>10 DEF Parts

LEMMA SaverOpensHolds ==
  ASSUME Held, SaverOpens, ~torn'
  PROVE  Parts'
<1>1. rpc # "sizes" /\ torn' = FALSE /\ saver' = file
  BY DEF Held, Parts, ResizeTypes, SaverOpens, InBetween
<1>2. UNCHANGED <<level, mapped, resizer, want, late, edits>>
  BY DEF SaverOpens
<1>3. ResizeTypes'
  BY <1>1, <1>2 DEF Held, Parts, ResizeTypes, level, resizer
<1>4. FilesInv'
  BY <1>1, <1>2 DEF Held, Parts, FilesInv, level
<1>5. LevelInv' /\ MappedInv' /\ CopyInv' /\ SizesInv'
  BY <1>1, <1>2 DEF Held, Parts, LevelInv, MappedInv, CopyInv, SizesInv, Copying, level, resizer
<1> QED
  BY <1>3, <1>4, <1>5 DEF Parts

\* What is saved has the width and the blocks of the level.
LEMMA SaveHolds ==
  ASSUME Held, Save
  PROVE  Parts'
<1>1. UNCHANGED <<cells_x, file, data, loaded, force_unload, mapped, resizer, saver, resizeHistory, edits>>
      /\ dirty_save' = FALSE
  BY DEF Save
<1>2. saver = file /\ file # NoFile /\ rpc # "sizes"
  BY DEF Held, Parts, FilesInv, SizesInv, Save
<1>3. Holds(data[file], cells_x, Over(want, late))
  BY <1>2 DEF Held, Parts, LevelInv
<1> DEFINE b == [i \in Places(cells_x) |-> IF i \in DOMAIN data[saver] THEN data[saver][i] ELSE Air]
<1>4. cw' = [w |-> cells_x, blocks |-> b]
  BY DEF Save
<1>5. /\ DOMAIN b = Places(cells_x)
      /\ \A i \in Places(cells_x) : b[i] = IF i \in DOMAIN data[saver] THEN data[saver][i] ELSE Air
  OBVIOUS
<1> HIDE DEF b
<1>6. cells_x \in Nat
  BY DEF Held, Parts, ResizeTypes, Width
<1>7. Holds(b, cells_x, Over(want, late))
  BY <1>2, <1>3, <1>5, <1>6, PackIn DEF Held, Holds
<1>8. cw'.w = cells_x /\ cw'.blocks = b
  BY <1>4
<1>9. LevelInv'
  BY <1>1, <1>3, <1>7, <1>8 DEF LevelInv, resizeHistory
<1>10. ResizeTypes' /\ FilesInv' /\ MappedInv' /\ CopyInv' /\ SizesInv'
  BY <1>1 DEF Held, Parts, ResizeTypes, FilesInv, MappedInv, CopyInv, SizesInv, Copying, resizer, resizeHistory
<1> QED
  BY <1>9, <1>10 DEF Parts

LEMMA SaverClosesHolds ==
  ASSUME Held, SaverCloses, ~torn'
  PROVE  Parts'
<1>1. UNCHANGED <<cells_x, dirty_save, data, cw, mapped, resizer, want, late, edits>>
      /\ saver' = NoFile /\ NoFile \in FileOrNone
  BY DEF SaverCloses, FileOrNone
<1>2. CASE ~dirty_save /\ \A c \in Client : mapped[c] = NoFile
  <2>1. /\ loaded' = FALSE /\ force_unload' = FALSE /\ file' = NoFile
        /\ torn' = (torn \/ rpc \in {"copy", "rename", "sizes"})
    BY <1>2 DEF SaverCloses
  <2>2. torn' = FALSE /\ rpc \notin {"copy", "rename", "sizes"}
    BY <2>1 DEF Held, Parts, ResizeTypes
  <2>3. ResizeTypes'
    BY <1>1, <2>1, <2>2 DEF Held, Parts, ResizeTypes, resizer
  <2>4. FilesInv'
    BY <1>1, <1>2, <2>1 DEF FilesInv
  <2>5. LevelInv' /\ MappedInv' /\ CopyInv' /\ SizesInv'
    BY <1>1, <1>2, <2>1, <2>2 DEF Held, Parts, LevelInv, MappedInv, CopyInv, SizesInv, Copying, resizer
  <2> QED
    BY <2>3, <2>4, <2>5 DEF Parts
<1>3. CASE ~(~dirty_save /\ \A c \in Client : mapped[c] = NoFile)
  <2>1. UNCHANGED <<loaded, force_unload, file, torn>>
    BY <1>3 DEF SaverCloses
  <2>2. ResizeTypes' /\ FilesInv' /\ LevelInv' /\ MappedInv' /\ CopyInv' /\ SizesInv'
    BY <1>1, <2>1 DEF Held, Parts, ResizeTypes, FilesInv, LevelInv, MappedInv, CopyInv, SizesInv,
                      Copying, resizer
  <2> QED
    BY <2>2 DEF Parts
<1> QED
  BY <1>2, <1>3

\* The new file is not that of the level, and has nothing yet.
LEMMA BeginHolds ==
  ASSUME Held, NEW c \in Client, Begin(c)
  PROVE  Parts'
<1>1. /\ UNCHANGED <<cells_x, dirty_save, file, cw, loaded, force_unload, mapped, to, users_on, saver,
                     resizeHistory, edits>>
      /\ rpc = "no" /\ rpc' = "copy" /\ cells_x # to
      /\ todo' = Cells(cells_x) \cap Cells(to)
  BY DEF Begin
<1>2. /\ file \in File /\ mapped[c] = file /\ source = NoFile /\ tmp = NoFile
      /\ saver \in {NoFile, file} /\ \A d \in Client : mapped[d] \in {NoFile, file}
  BY <1>1 DEF Held, Parts, ResizeTypes, FilesInv, MappedInv, SizesInv, FileOrNone, Begin
<1>3. FreeFile \in File \ {file}
  <2> DEFINE S == {file, saver, source, tmp} \cup {mapped[d] : d \in Client}
  <2>1. S \subseteq {NoFile, file, file} /\ file \in S
    BY <1>2
  <2> HIDE DEF S
  <2>2. Min(File \ S) \in File \ S
    BY <2>1, OneIsFree
  <2> QED
    BY <2>1, <2>2 DEF FreeFile, S
<1> DEFINE b == [i \in Places(to) |-> Air]
           g == [d \in Cells(to) |-> IF d \in Cells(cells_x) \ todo' THEN want[d] ELSE Air]
<1>4. source' = file /\ tmp' = FreeFile /\ data' = [data EXCEPT ![FreeFile] = b]
  BY <1>2 DEF Begin
<1>5. DOMAIN data' = File /\ data'[tmp'] = b /\ data'[file] = data[file] /\ tmp' \in File \ {file}
  BY <1>2, <1>3, <1>4 DEF Held, Parts, ResizeTypes
<1>6. Holds(b, to, g)
  <2>1. DOMAIN b = Places(to) /\ \A i \in Places(to) : b[i] = Air
    OBVIOUS
  <2>2. \A d \in Cells(to) : g[d] = Air
    BY <1>1
  <2> HIDE DEF b, g
  <2>3. to \in Nat
    BY DEF Held, Parts, ResizeTypes, Width
  <2> QED
    BY <2>1, <2>2, <2>3, PackIn DEF Held, Holds
<1> HIDE DEF b
<1>7. file # NoFile /\ source' \in FileOrNone /\ tmp' \in FileOrNone
  BY <1>2, <1>4, <1>5 DEF File, NoFile, FileOrNone
<1>8. ResizeTypes'
  BY <1>1, <1>5, <1>7 DEF Held, Parts, ResizeTypes, resizeHistory
<1>9. FilesInv' /\ LevelInv' /\ MappedInv' /\ SizesInv'
  BY <1>1, <1>2, <1>5 DEF Held, Parts, FilesInv, LevelInv, MappedInv, SizesInv, resizeHistory
<1>10. CopyInv'
  <2>1. DOMAIN late = {}
    BY <1>1 DEF Held, Parts, CopyInv, Copying
  <2>2. Holds(data'[tmp'], to, g)
    BY <1>5, <1>6
  <2> QED
    BY <1>1, <1>4, <1>5, <1>7, <2>1, <2>2 DEF CopyInv, Copying, resizeHistory
<1> QED
  BY <1>8, <1>9, <1>10 DEF Parts

\* A block that is copied is what should be in its cell.
LEMMA CopyHolds ==
  ASSUME Held, Copy
  PROVE  Parts'
<1>1. /\ UNCHANGED <<cells_x, dirty_save, file, cw, loaded, force_unload, mapped, to, source, tmp,
                     users_on, saver, resizeHistory, edits>>
      /\ rpc = "copy"
  BY DEF Copy
<1>2. /\ file # NoFile /\ source = file /\ tmp \in File \ {file} /\ cells_x # to
      /\ todo \subseteq Cells(cells_x) \cap Cells(to) /\ \A c \in todo : c \notin DOMAIN late
      /\ Holds(data[tmp], to, [c \in Cells(to) |-> IF c \in Cells(cells_x) \ todo THEN want[c] ELSE Air])
  BY <1>1 DEF Held, Parts, CopyInv, Copying
<1>3. CASE todo = {}
  <2>1. rpc' = "rename" /\ UNCHANGED <<data, todo>>
    BY <1>3 DEF Copy
  <2>2. ResizeTypes' /\ FilesInv' /\ LevelInv' /\ MappedInv' /\ SizesInv'
    BY <1>1, <2>1 DEF Held, Parts, ResizeTypes, FilesInv, LevelInv, MappedInv, SizesInv, resizeHistory
  <2>3. CopyInv'
    BY <1>1, <1>2, <1>3, <2>1 DEF CopyInv, Copying, resizeHistory
  <2> QED
    BY <2>2, <2>3 DEF Parts
<1>4. CASE todo # {}
  <2>1. PICK cell \in todo : CopyBlock(cell) /\ todo' = todo \ {cell} /\ rpc' = rpc
    BY <1>4 DEF Copy
  <2>2. cell \in Cells(cells_x) /\ cell \in Cells(to) /\ cell \notin DOMAIN late
        /\ cells_x \in Nat /\ to \in Nat /\ DOMAIN want = Cells(cells_x) /\ DOMAIN data = File
    BY <1>2 DEF Held, Parts, ResizeTypes, Width
  <2> DEFINE v == data[source][Pack(cell, cells_x)]
             f == [c \in Cells(to) |-> IF c \in Cells(cells_x) \ todo THEN want[c] ELSE Air]
             g == [c \in Cells(to) |-> IF c \in Cells(cells_x) \ todo' THEN want[c] ELSE Air]
  <2>3. v = want[cell]
    <3>1. Holds(data[file], cells_x, Over(want, late))
      BY <1>1, <1>2 DEF Held, Parts, LevelInv
    <3>2. Over(want, late)[cell] = want[cell]
      BY <2>2, OverIs
    <3> QED
      BY <1>2, <2>2, <3>1, <3>2 DEF Holds
  <2>4. g[cell] = want[cell] /\ \A c \in Cells(to) : c # cell => g[c] = f[c]
    BY <2>1, <2>2
  <2>5. DOMAIN data' = File /\ data'[tmp] = [data[tmp] EXCEPT ![Pack(cell, to)] = v]
        /\ data'[file] = data[file]
    BY <1>2, <2>1, <2>2 DEF CopyBlock
  <2>6. Holds(data[tmp], to, f)
    BY <1>2
  <2> HIDE DEF f, g, v
  <2>7. Holds(data'[tmp], to, g)
    BY <2>2, <2>3, <2>4, <2>5, <2>6, PutHolds DEF Held
  <2>8. ResizeTypes' /\ FilesInv' /\ LevelInv' /\ MappedInv' /\ SizesInv'
    BY <1>1, <2>1, <2>5 DEF Held, Parts, ResizeTypes, FilesInv, LevelInv, MappedInv, SizesInv, resizeHistory
  <2>9. CopyInv'
    BY <1>1, <1>2, <2>1, <2>7 DEF CopyInv, Copying, resizeHistory, g
  <2> QED
    BY <2>8, <2>9 DEF Parts
<1> QED
  BY <1>3, <1>4

\* The new file is the level's, laid out for the size that is not told yet.
LEMMA RenameHolds ==
  ASSUME Held, Rename, ~torn'
  PROVE  Parts'
<1>1. /\ UNCHANGED <<cells_x, dirty_save, data, cw, loaded, force_unload, mapped, to, todo, source,
                     tmp, users_on, saver, want, edits>>
      /\ rpc = "rename" /\ rpc' = "sizes" /\ file' = tmp /\ late' = <<>>
      /\ torn' = (torn \/ saver # NoFile)
  BY DEF Rename
<1>2. torn' = FALSE /\ saver = NoFile
  BY <1>1 DEF Held, Parts, ResizeTypes
<1>3. /\ file # NoFile /\ tmp \in File \ {file} /\ todo = {}
      /\ Holds(data[tmp], to, [c \in Cells(to) |-> IF c \in Cells(cells_x) \ todo THEN want[c] ELSE Air])
  BY <1>1 DEF Held, Parts, CopyInv, Copying
<1>4. tmp \in FileOrNone /\ tmp # NoFile /\ DOMAIN late' = {}
  BY <1>1, <1>3 DEF File, FileOrNone, NoFile
<1>5. ResizeTypes'
  BY <1>1, <1>2, <1>4 DEF Held, Parts, ResizeTypes
<1>6. FilesInv' /\ LevelInv'
  BY <1>1, <1>2, <1>3, <1>4 DEF Held, Parts, FilesInv, LevelInv
<1>7. \A c \in Client : mapped[c] \in {NoFile, file}
  BY <1>1 DEF Held, Parts, MappedInv
<1>8. MappedInv' /\ CopyInv'
  BY <1>1, <1>3, <1>4, <1>7 DEF MappedInv, CopyInv, Copying
<1>9. SizesInv'
  <2>1. Cells(cells_x) \ todo = Cells(cells_x)
    BY <1>3
  <2>2. Holds(data[tmp], to, [c \in Cells(to) |-> IF c \in Cells(cells_x) THEN want[c] ELSE Air])
    BY <1>3, <2>1
  <2> QED
    BY <1>1, <1>2, <1>4, <2>2 DEF SizesInv
<1> QED
  BY <1>5, <1>6, <1>8, <1>9 DEF Parts

\* What came late for the copy is what there is.
LEMMA GivenUp ==
  ASSUME Held, want' = Over(want, late), late' = <<>>
  PROVE  /\ DOMAIN want' = DOMAIN want /\ DOMAIN late' = {}
         /\ DOMAIN want = Cells(cells_x)
         /\ \A c \in Cells(cells_x) : Over(want', late')[c] = Over(want, late)[c]
<1>1. DOMAIN want = Cells(cells_x)
  BY DEF Held, Parts, ResizeTypes
<1>2. DOMAIN want' = DOMAIN want /\ DOMAIN late' = {}
  BY OverIs
<1>3. \A c \in DOMAIN want' : Over(want', late')[c] = want'[c]
  BY <1>2, OverIs
<1> QED
  BY <1>1, <1>2, <1>3

LEMMA RenameFailsHolds ==
  ASSUME Held, RenameFails
  PROVE  Parts'
<1>1. /\ UNCHANGED <<level, mapped, to, todo, users_on, saver, torn, edits>>
      /\ rpc = "rename" /\ rpc' = "failed" /\ source' = NoFile /\ tmp' = NoFile
      /\ want' = Over(want, late) /\ late' = <<>> /\ NoFile \in FileOrNone
  BY DEF RenameFails, FileOrNone
<1>2. /\ DOMAIN want' = DOMAIN want /\ DOMAIN late' = {}
      /\ \A c \in Cells(cells_x) : Over(want', late')[c] = Over(want, late)[c]
  BY <1>1, GivenUp
<1>3. ResizeTypes'
  BY <1>1, <1>2 DEF Held, Parts, ResizeTypes, level
<1>4. FilesInv' /\ MappedInv' /\ CopyInv' /\ SizesInv'
  BY <1>1, <1>2 DEF Held, Parts, FilesInv, MappedInv, CopyInv, SizesInv, Copying, level
<1>5. LevelInv'
  BY <1>1, <1>2, SameHolds DEF Held, Parts, LevelInv, level
<1> QED
  BY <1>3, <1>4, <1>5 DEF Parts

\* Killed before the file was renamed, it has changed nothing; after the new size is told, it
\* leaves those who have an old file where they are.
LEMMA KilledHolds ==
  ASSUME Held, Killed, ~torn'
  PROVE  Parts'
<1>1. /\ UNCHANGED <<level, mapped, to, todo, users_on, saver, edits>>
      /\ rpc \in {"copy", "rename", "sizes", "force", "wait"}
      /\ rpc' = "killed" /\ source' = NoFile /\ tmp' = NoFile /\ late' = <<>>
      /\ torn' = (torn \/ rpc = "sizes") /\ NoFile \in FileOrNone
  BY DEF Killed, FileOrNone
<1>2. torn' = FALSE /\ rpc # "sizes"
  BY <1>1 DEF Held, Parts, ResizeTypes
<1>3. /\ DOMAIN want' = DOMAIN want /\ DOMAIN late' = {}
      /\ \A c \in Cells(cells_x) : Over(want', late')[c] = Over(want, late)[c]
  <2>1. CASE Copying
    <3>1. want' = Over(want, late)
      BY <2>1 DEF Killed, Copying
    <3> QED
      BY <1>1, <3>1, GivenUp
  <2>2. CASE ~Copying
    <3>1. want' = want /\ DOMAIN late = {} /\ DOMAIN late' = {} /\ DOMAIN want = Cells(cells_x)
      BY <1>1, <2>2 DEF Killed, Held, Parts, CopyInv, ResizeTypes, Copying
    <3> QED
      BY <3>1, OverIs
  <2> QED
    BY <2>1, <2>2
<1>4. ResizeTypes'
  BY <1>1, <1>2, <1>3 DEF Held, Parts, ResizeTypes, level
<1>5. FilesInv' /\ MappedInv' /\ CopyInv' /\ SizesInv'
  BY <1>1, <1>3 DEF Held, Parts, FilesInv, MappedInv, CopyInv, SizesInv, Copying, level
<1>6. LevelInv'
  BY <1>1, <1>2, <1>3, SameHolds DEF Held, Parts, LevelInv, level
<1> QED
  BY <1>4, <1>5, <1>6 DEF Parts

\* The size is that of the file again.
LEMMA MarkPropsHolds ==
  ASSUME Held, MarkProps
  PROVE  Parts'
<1> DEFINE g == [c \in Cells(to) |-> IF c \in DOMAIN want THEN want[c] ELSE Air]
<1>1. /\ UNCHANGED <<file, data, cw, loaded, force_unload, mapped, to, todo, source, tmp, users_on,
                     saver, late, torn, edits>>
      /\ rpc = "sizes" /\ rpc' = "force" /\ cells_x' = to /\ dirty_save' = TRUE /\ want' = g
  BY DEF MarkProps
<1>2. DOMAIN late = {} /\ DOMAIN want = Cells(cells_x)
  BY <1>1 DEF Held, Parts, CopyInv, Copying, ResizeTypes
<1>3. file # NoFile /\ Holds(data[file], to, g)
  BY <1>1, <1>2 DEF Held, Parts, SizesInv
<1>4. DOMAIN g = Cells(to)
  OBVIOUS
<1> HIDE DEF g
<1>5. \A c \in Cells(to) : g[c] = Over(want', late')[c]
  BY <1>1, <1>2, <1>4, OverIs
<1>6. Holds(data[file], to, Over(want', late'))
  BY <1>3, <1>5, SameHolds
<1>7. ResizeTypes'
  BY <1>1, <1>2, <1>4 DEF Held, Parts, ResizeTypes
<1>8. LevelInv'
  BY <1>1, <1>6 DEF LevelInv
<1>9. FilesInv' /\ MappedInv' /\ CopyInv' /\ SizesInv'
  BY <1>1, <1>2, <1>3 DEF Held, Parts, FilesInv, MappedInv, CopyInv, SizesInv, Copying
<1> QED
  BY <1>7, <1>8, <1>9 DEF Parts

LEMMA ForceHolds ==
  ASSUME Held, ForceUnload
  PROVE  Parts'
<1>1. /\ UNCHANGED <<cells_x, dirty_save, file, data, cw, loaded, mapped, to, todo, saver, resizeHistory, edits>>
      /\ rpc = "force" /\ NoFile \in FileOrNone
  BY DEF ForceUnload, FileOrNone
<1>2. /\ rpc' \in {"wait", "done"} /\ force_unload' \in BOOLEAN
      /\ source' \in FileOrNone /\ tmp' \in FileOrNone
      /\ rpc' = "wait" => loaded /\ force_unload'
      /\ rpc' = "done" => ~loaded
  BY <1>1 DEF Held, Parts, ResizeTypes, ForceUnload
<1>3. ResizeTypes'
  BY <1>1, <1>2 DEF Held, Parts, ResizeTypes, resizeHistory
<1>4. FilesInv' /\ MappedInv'
  BY <1>1, <1>2 DEF Held, Parts, FilesInv, MappedInv
<1>5. LevelInv' /\ CopyInv' /\ SizesInv'
  BY <1>1, <1>2 DEF Held, Parts, LevelInv, CopyInv, SizesInv, Copying, resizeHistory
<1> QED
  BY <1>3, <1>4, <1>5 DEF Parts

LEMMA ReturnHolds ==
  ASSUME Held, Return
  PROVE  Parts'
<1>1. /\ UNCHANGED <<dirty_save, cw, force_unload, to, todo, source, tmp, users_on, saver, resizeHistory, edits>>
      /\ rpc = "wait" /\ rpc' = "done" /\ ~(loaded /\ force_unload)
  BY DEF Return
<1>2. \A c \in Client : mapped[c] \in {NoFile, file}
  BY <1>1 DEF Held, Parts, MappedInv
<1>3. CASE users_on = {}
  <2>1. UNCHANGED <<cells_x, file, data, loaded, mapped>>
    BY <1>3 DEF Return
  <2>2. ResizeTypes' /\ FilesInv' /\ LevelInv' /\ MappedInv' /\ CopyInv' /\ SizesInv'
    BY <1>1, <1>2, <2>1 DEF Held, Parts, ResizeTypes, FilesInv, LevelInv, MappedInv, CopyInv,
                            SizesInv, Copying, resizeHistory
  <2> QED
    BY <2>2 DEF Parts
<1>4. CASE users_on # {}
  <2>1. /\ Opened /\ loaded' = TRUE
        /\ mapped' = [c \in Client |-> IF c \in users_on THEN file' ELSE mapped[c]]
    BY <1>4 DEF Return
  <2>2. /\ cells_x' = cells_x /\ file' \in File /\ DOMAIN data' = File
        /\ file # NoFile => file' = file /\ data' = data
        /\ Holds(data'[file'], cells_x, Over(want, late))
    BY <1>1, <2>1, OpenedHolds DEF resizeHistory
  <2>3. file' \in FileOrNone /\ file' # NoFile
    BY <2>2 DEF FileOrNone, File, NoFile
  <2>4. file = NoFile => \A d \in Client : mapped[d] = NoFile
    BY DEF Held, Parts, FilesInv
  <2>5. /\ mapped' \in [Client -> FileOrNone]
        /\ \A d \in Client : mapped'[d] \in {NoFile, file'}
    BY <1>2, <2>1, <2>2, <2>3, <2>4 DEF Held, Parts, ResizeTypes
  <2>6. ResizeTypes'
    BY <1>1, <2>1, <2>2, <2>3, <2>5 DEF Held, Parts, ResizeTypes, resizeHistory
  <2>7. FilesInv' /\ MappedInv'
    BY <1>1, <2>1, <2>2, <2>3, <2>5 DEF Held, Parts, FilesInv, MappedInv
  <2>8. LevelInv'
    BY <1>1, <2>2 DEF Held, Parts, LevelInv, resizeHistory
  <2>9. CopyInv' /\ SizesInv'
    BY <1>1, <2>2 DEF Held, Parts, CopyInv, SizesInv, Copying, resizeHistory
  <2> QED
    BY <2>6, <2>7, <2>8, <2>9 DEF Parts
<1> QED
  BY <1>3, <1>4

-----------------------------------------------------------------------------
(* The theorems *)

\* What is torn stays so.
LEMMA TornStays == ASSUME [ResizeNext]_resizeVars, ~torn' PROVE ~torn
BY DEF ResizeNext, resizeVars, resizeHistory, level, resizer, LeaveLevel, Enter, Begin, Edit, SaverOpens, Save, SaverCloses, Copy, Rename,
       RenameFails, MarkProps, ForceUnload, Return, Killed

LEMMA StepHolds == ASSUME Held, [ResizeNext]_resizeVars, ~torn' PROVE Parts'
<1>1. ASSUME NEW c \in Client, LeaveLevel(c) PROVE Parts'
  BY <1>1, LeaveHolds
<1>2. ASSUME NEW c \in Client, Enter(c) PROVE Parts'
  BY <1>2, EnterHolds
<1>3. ASSUME NEW c \in Client, Begin(c) PROVE Parts'
  BY <1>3, BeginHolds
<1>4. ASSUME NEW c \in Client, NEW cell \in Cells(MaxWidth), Edit(c, cell) PROVE Parts'
  BY <1>4, EditHolds, EditOldHolds
<1>5. CASE SaverOpens
  BY <1>5, SaverOpensHolds
<1>6. CASE Save
  BY <1>6, SaveHolds
<1>7. CASE SaverCloses
  BY <1>7, SaverClosesHolds
<1>8. CASE Copy
  BY <1>8, CopyHolds
<1>9. CASE Rename
  BY <1>9, RenameHolds
<1>10. CASE RenameFails
  BY <1>10, RenameFailsHolds
<1>11. CASE MarkProps
  BY <1>11, MarkPropsHolds
<1>12. CASE ForceUnload
  BY <1>12, ForceHolds
<1>13. CASE Return
  BY <1>13, ReturnHolds
<1>14. CASE Killed
  BY <1>14, KilledHolds
<1>15. CASE UNCHANGED resizeVars
  BY <1>15 DEF resizeVars, level, resizer, resizeHistory, Held, Parts, ResizeTypes, FilesInv, LevelInv,
               MappedInv, CopyInv, SizesInv, Copying
<1> QED
  BY <1>1, <1>2, <1>3, <1>4, <1>5, <1>6, <1>7, <1>8, <1>9, <1>10, <1>11, <1>12, <1>13, <1>14, <1>15
     DEF ResizeNext

\* As long as nothing is torn the files hold the level (ResizeIInv), whatever clients, the saver
\* and the resizer do in what order (cmdresizelvl.c, teleport.c, loadsave.c).
THEOREM ResizeInvariant == ASSUME ResizeConstants PROVE ResizeSpec => []ResizeIInv
<1>1. ResizeInit => ResizeIInv
  BY InitHolds DEF Parts, ResizeIInv
<1>2. ResizeIInv /\ [ResizeNext]_resizeVars => ResizeIInv'
  <2>1. ASSUME ResizeIInv, [ResizeNext]_resizeVars, ~torn' PROVE Parts'
    <3>1. Held
      BY <2>1, TornStays DEF ResizeIInv, Held, Parts
    <3> QED
      BY <2>1, <3>1, StepHolds
  <2> QED
    BY <2>1 DEF ResizeIInv, Parts
<1> QED
  BY <1>1, <1>2, PTL DEF ResizeSpec

\* A level that was resized, or was to be and was not, has its blocks where they were, and one
\* size: AsResized, for every size and any number of clients (cmdresizelvl.c).
THEOREM LevelIsAsResized == ASSUME ResizeConstants PROVE ResizeSpec => []AsResized
<1>1. ResizeIInv => AsResized
  <2> SUFFICES ASSUME Parts, rpc \notin {"copy", "rename", "sizes"}
               PROVE  /\ DOMAIN want = Cells(FoundMap.w)
                      /\ \A c \in DOMAIN want : At(FoundMap.blocks, c, FoundMap.w) = Over(want, late)[c]
                      /\ rpc = "done" => FoundMap.w = to
                      /\ rpc = "done" => \A c \in Client : mapped[c] \in {NoFile, file}
    BY DEF ResizeIInv, AsResized, Parts
  <2>1. FoundMap.w = cells_x /\ Holds(FoundMap.blocks, cells_x, Over(want, late))
    BY DEF Parts, LevelInv, FilesInv, FoundMap
  <2>2. DOMAIN want = Cells(cells_x) /\ cells_x \in Nat
    BY DEF Parts, ResizeTypes, Width
  <2>3. \A c \in Cells(cells_x) : At(FoundMap.blocks, c, cells_x) = Over(want, late)[c]
    BY <2>1, <2>2, PackIn DEF Holds, At
  <2> QED
    BY <2>1, <2>2, <2>3 DEF Parts, SizesInv, MappedInv
<1> QED
  BY <1>1, ResizeInvariant, PTL
=============================================================================

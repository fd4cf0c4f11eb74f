------------------------------- MODULE LevelIni -------------------------------
(***************************************************************************)
(* /isave and /iload: what a level is told, written to a settings file and *)
(* read over this or another level (level_ini_fields, ini_struct.c).       *)
(* Like things are modelled by one of them, as in MapFile.                 *)
(***************************************************************************)
EXTENDS IniFile

CONSTANTS
  Saves         \* a bound on the files saved, for TLC

VARIABLES
  lv,           \* level_prop
  ini,          \* the last file saved, and those before it
  saved,        \* history: the level that was written there
  before,       \* history: the level that it was read over; NoLevel when lv is not as read
  nsaves

vars == <<lv, ini, saved, before, nsaves>>

----------------------------------------------------------------------------
(* The fields, each with its section, its name and its kind *)

Row(section, name, kind, key) == [section |-> section, name |-> name, kind |-> kind, key |-> key]

LevelRows == <<
  Row("level", "motd", STR, "motd"), Row("level", "uuid", STR, "uuid"),
  Row("level", "spawn.x", FIXEDP(32, 1), "spawn_x"), Row("level", "spawn.h", FIXEDP(256, 360), "spawn_h"),
  Row("level", "clickdistance", FIXEDP(32, 1), "click_distance"),
  Row("level", "mcgphysicsblocks", NONZERO, "mcg_physics_blocks"),
  Row("level", "hacksflags", INT, "hacks_flags"), Row("level", "texture", STR, "texname"),
  Row("level", "skycolour", INT, "sky_colour"), Row("level", "sideblock", INT, "side_block"),
  Row("level", "sidelevel", KNOWN, "side_level"),
  Row("level", "cloudsspeed", FIXEDP(256, 1), "clouds_speed"),
  Row("level", "weatherfade", FIXEDP(128, 1), "weather_fade"),
  Row("level", "skyboxhorspeed", FIXEDP(1024, 1), "skybox_hor_speed")>>

\* Of one block; what is solid has a shape of 0 and is written as a flag.
BlockRows == <<
  Row("block.7", "defined", BOOL, "defined"), Row("block.7", "nosave", BOOL, "no_save"),
  Row("block.7", "name", STR, "name"), Row("block.7", "transmitslight", BOOL, "transmits_light"),
  Row("block.7", "fullbright", BOOL, "fullbright"), Row("block.7", "shape", BOOL, "sprite"),
  Row("block.7", "speed", FIXEDP(1024, 1), "speed"), Row("block.7", "fallback", BLK, "fallback"),
  Row("block.7", "texture.top", INT, "texture"), Row("block.7", "order", BLK, "order")>>

CuboidRows == <<
  Row("cuboid.0", "defined", BOOL, "defined"), Row("cuboid.0", "label", STR, "name"),
  Row("cuboid.0", "start.x", INT, "start_x"), Row("cuboid.0", "colour", INT, "colour")>>

NullLevel == [
  motd |-> "", uuid |-> "u0", spawn_x |-> 272, spawn_h |-> 0, click_distance |-> 160,
  mcg_physics_blocks |-> 0, hacks_flags |-> 0, texname |-> "", sky_colour |-> -1, side_block |-> 7,
  side_level |-> Unset, clouds_speed |-> 256, weather_fade |-> 128, skybox_hor_speed |-> 0]
NullBlock == [
  defined |-> FALSE, no_save |-> FALSE, name |-> "Wood", transmits_light |-> FALSE,
  fullbright |-> FALSE, sprite |-> FALSE, speed |-> 1024, fallback |-> 7, texture |-> 4, order |-> 7,
  perm |-> 0]
NullCuboid == [defined |-> FALSE, name |-> "", start_x |-> 0, colour |-> -1]

Null == [level |-> NullLevel, block |-> NullBlock, cuboid |-> NullCuboid]
NoLevel == [Null EXCEPT !.level.uuid = ""]

\* What a level may have been told, all at once where it makes no difference
ToldLevel == {
  [motd |-> "Hi", uuid |-> "u1", spawn_x |-> -5, spawn_h |-> 255, click_distance |-> 0,
   mcg_physics_blocks |-> 1, hacks_flags |-> 33, texname |-> "url", sky_colour |-> 16711935,
   side_block |-> 767, side_level |-> -1, clouds_speed |-> -131, weather_fade |-> 641,
   skybox_hor_speed |-> 1023],
  [motd |-> "", uuid |-> "u2", spawn_x |-> 40001, spawn_h |-> 31, click_distance |-> 77,
   mcg_physics_blocks |-> 0, hacks_flags |-> 0, texname |-> "", sky_colour |-> -1,
   side_block |-> 0, side_level |-> 40000, clouds_speed |-> 1, weather_fade |-> 0,
   skybox_hor_speed |-> -17]}
ToldBlock == {
  [defined |-> TRUE, no_save |-> FALSE, name |-> "Lamp", transmits_light |-> TRUE,
   fullbright |-> TRUE, sprite |-> TRUE, speed |-> 1500, fallback |-> 0, texture |-> 511,
   order |-> 65535, perm |-> 0],
  [defined |-> TRUE, no_save |-> TRUE, name |-> "Lava", transmits_light |-> TRUE,
   fullbright |-> FALSE, sprite |-> FALSE, speed |-> 1024, fallback |-> 11, texture |-> 30,
   order |-> 0, perm |-> 3]}

Init ==
  /\ lv = Null /\ saved = Null /\ before = NoLevel
  /\ ini = <<>> /\ nsaves = 0

----------------------------------------------------------------------------
(* Writing and reading *)

\* level_ini_fields: all it writes, which is neither "Defined" nor "NoSave" of what is defined (WC);
\* a permission without a definition is written too, and its "Defined" is a flag that is not set.
LevelFields(l) ==
  LET of(rows, r) == [i \in DOMAIN rows |->
        [section |-> rows[i].section, name |-> rows[i].name, kind |-> rows[i].kind, v |-> r[rows[i].key]]]
      perm == Row("block.7", "permission", BLK, "perm")
  IN of(LevelRows, l.level)
     \o (IF l.block.defined /\ ~l.block.no_save THEN of(SubSeq(BlockRows, 3, Len(BlockRows)), l.block) ELSE <<>>)
     \o (IF l.block.perm # 0 /\ ~l.block.no_save THEN of(<<perm>>, l.block) ELSE <<>>)
     \o (IF l.block.perm # 0 /\ ~l.block.no_save /\ ~l.block.defined
         THEN of(<<BlockRows[1]>>, l.block) ELSE <<>>)
     \o (IF l.cuboid.defined THEN of(Tail(CuboidRows), l.cuboid) ELSE <<>>)

Rows == LevelRows \o BlockRows \o <<Row("block.7", "permission", BLK, "perm")>> \o CuboidRows
Part(section) == CASE section = "level" -> "level" [] section = "block.7" -> "block"
                   [] section = "cuboid.0" -> "cuboid"

\* One item: a block or a cuboid that is spoken of is defined.
ReadLevelItem(l, item) ==
  LET rows == {r \in ToSet(Rows) : r.section = item.section /\ r.name = item.name}
      p == Part(item.section)
      met == IF p = "level" THEN l ELSE [l EXCEPT ![p].defined = TRUE]
  IN IF rows = {} THEN l
     ELSE LET row == CHOOSE r \in rows : TRUE
          IN [met EXCEPT ![p][row.key] = ValueOf(row.kind, item.value)]

----------------------------------------------------------------------------
(* Commands *)

Tell(l) == lv' = l /\ before' = NoLevel /\ UNCHANGED <<ini, saved, nsaves>>

TellLevel(r) == lv.level # r /\ Tell([lv EXCEPT !.level = r])
TellBlock(r) == lv.block # r /\ Tell([lv EXCEPT !.block = r])
TellPermission(perm) == lv.block.perm # perm /\ Tell([lv EXCEPT !.block.perm = perm])
TellCuboid(r) == lv.cuboid # r /\ Tell([lv EXCEPT !.cuboid = r])

\* To a new file: one that is there is not written over.
Isave ==
  /\ nsaves < Saves
  /\ ini' = SaveIni(<<>>, LevelFields(lv))
  /\ saved' = lv /\ before' = NoLevel
  /\ nsaves' = nsaves + 1
  /\ UNCHANGED lv

\* Over the level that is there; or a new one
Iload(l) ==
  /\ ini # <<>>
  /\ lv' = FoldLeft(ReadLevelItem, l, Items(ini))
  /\ before' = l
  /\ UNCHANGED <<ini, saved, nsaves>>

Next ==
  \/ \E r \in ToldLevel : TellLevel(r)
  \/ \E r \in ToldBlock : TellBlock(r)
  \/ \E perm \in {0, 2} : TellPermission(perm)
  \/ TellCuboid([defined |-> TRUE, name |-> "Home", start_x |-> -1, colour |-> 255])
  \/ Isave
  \/ \E l \in {lv, Null} : Iload(l)

Spec == Init /\ [][Next]_vars

----------------------------------------------------------------------------
(* Properties *)

\* What of the level that was saved is said in its file.  Not what is unset or no block; and
\* not that a flag is not set, so that a solid block, say, stays open where the level that is
\* loaded over has it so.  A block with no more than a permission comes back defined.
Said(part, row) ==
  LET v == saved[part][row.key] IN
  /\ ~Skipped(row.kind, v)
  /\ row.kind = BOOL => v
  /\ IF row.name = "permission" THEN v # 0 ELSE part = "level" \/ saved[part].defined
  /\ part = "block" => ~saved.block.no_save

\* A file brings back the level that was saved in it, over whatever level it is read: number by
\* number through decimals and dots, block by block; and what the file does not say is left as
\* it was (level_ini_fields, cmdiload.c).
SavedComesBack ==
  before # NoLevel =>
    \A row \in ToSet(Rows) :
      LET p == Part(row.section)
          key == row.key
      IN IF Said(p, row) THEN lv[p][key] = saved[p][key]
         ELSE \/ lv[p][key] = before[p][key]
              \/ row.name = "defined" /\ saved.block.perm # 0
=============================================================================

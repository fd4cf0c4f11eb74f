------------------------------- MODULE MapFile -------------------------------
(***************************************************************************)
(* A level saved to its .cw file and loaded again, any number of times: a  *)
(* file is a sequence of tags, nested in named compounds; the loader knows *)
(* an item by its name and by the compound it thinks it is in.             *)
(* Like things are modelled by one of them: one colour of six, one cuboid, *)
(* the textures of a block for all that its definition says of it.         *)
(***************************************************************************)
EXTENDS Integers, Sequences, SequencesExt, TLC

CONSTANTS
  Low,          \* 256: the numbers in one byte of a block
  Cell,         \* the cells of the level: 1 .. n
  MaxChanges    \* a bound on the changes made, for TLC

CPELIMIT == 3 * Low
BLOCKMAX == 4 * Low
BlockNo == 0 .. BLOCKMAX - 1
Unset == -2147483647 - 1                       \* INT_MIN
DefaultOrder == 65535                          \* (block_t)-1

VARIABLES
  level,        \* level_prop and level_blocks
  file,         \* the tags of the .cw file
  dirty,        \* dirty_save
  told,         \* history: the level as it was last changed
  changes       \* how often it was

vars == <<level, file, dirty, told, changes>>

----------------------------------------------------------------------------
(* The level, as init_map_null makes it, and what may be set                *)

\* A block's sides: top, left, right, front, back, bottom
Plain == <<1, 1, 1, 1, 1, 1>>
Emulated == <<2, 2, 2, 2, 2, 2>>
Own == <<261, 2, 3, 4, 5, 511>>

\* MCGalaxy's blocks, and those among them that only operators place
IsMCGPhysics(b) == b > CPELIMIT /\ b < CPELIMIT + Low - 1
OpPhysics == {CPELIMIT + 2}

NoDefinition(b) == [defined |-> FALSE, textures |-> Plain, order |-> b, perm |-> 0, no_save |-> FALSE]
Physics(b) ==
  [defined |-> TRUE, textures |-> Emulated, order |-> 0, perm |-> IF b \in OpPhysics THEN 3 ELSE 0,
   no_save |-> TRUE]

\* define_mcg_physics_blocks: those that nobody has defined
WithPhysics(defs) ==
  [b \in BlockNo |-> IF b >= CPELIMIT /\ ~defs[b].defined THEN Physics(b) ELSE defs[b]]

\* After the size: patch_map_nulls has set the spawn point.
Fields == [
  size |-> 16, weather |-> 0, sky |-> -1, side_block |-> 7, side_level |-> Unset,
  side_offset |-> -2, clouds_height |-> Unset, clouds_speed |-> 256, weather_fade |-> 128,
  max_fog |-> 0, exp_fog |-> 0, click_distance |-> 160, hacks_flags |-> 0, hacks_jump |-> -1,
  spawn_x |-> 272, spawn_h |-> 0, physics |-> 0, time_created |-> 0, texname |-> "",
  motd |-> "", software |-> "", theme |-> "", seed |-> "", cuboid |-> <<-1, -1>>]

Null == [fields |-> Fields, uuid |-> 0, def |-> [b \in BlockNo |-> NoDefinition(b)],
         block |-> [c \in Cell |-> 0]]

\* What a level may be told by /set and others, or by where it came from; settings that have
\* nothing to do with each other are told together, so there are three levels of them.
Told == [
  size |-> <<1, 40000, 16>>, weather |-> <<2, 1, 0>>, sky |-> <<0, 255, 16711935>>,
  side_block |-> <<200, 767, 0>>, side_level |-> <<-1, 40000, 0>>, side_offset |-> <<0, 70000, -2>>,
  clouds_height |-> <<-200, 100000, Unset>>, clouds_speed |-> <<-128, 512, 0>>,
  weather_fade |-> <<0, 640, 128>>, max_fog |-> <<200, 4096, 127>>, exp_fog |-> <<1, 0, 1>>,
  click_distance |-> <<32767, 0, -1>>, hacks_flags |-> <<62, 33, 31>>, hacks_jump |-> <<40, -2, 3>>,
  spawn_x |-> <<-5, 40000, 32767>>, spawn_h |-> <<-128, 64, 127>>, physics |-> <<0, 1, 0>>,
  time_created |-> <<100, 1700000000, 0>>, texname |-> <<"url", "url", "">>,
  motd |-> <<"motd", "", "motd">>, software |-> <<"CC", "", "CC">>,
  theme |-> <<"plain", "plain", "plain">>, seed |-> <<"7", "07", "">>,
  cuboid |-> <<<<65280, 1>>, <<-1, 0>>, <<1, -1>>>>]

Blank == [Null EXCEPT !.fields.physics = 0]
MCGalaxy == [Null EXCEPT !.fields.physics = 1, !.def = WithPhysics(Null.def)]

Init ==
  /\ level \in {Blank, MCGalaxy}
  /\ file = <<>> /\ dirty = TRUE
  /\ told = level /\ changes = 0

----------------------------------------------------------------------------
(* Writing (nbtsave.c)                                                      *)

Signed(v, width) == ((v + width \div 2) % width) - width \div 2
Int8(v) == Signed(v, 256)
Int16(v) == Signed(v, 65536)

\* bc_ent_int: the shortest that holds it
AnyInt(v) == IF v \in 0 .. 127 THEN Int8(v) ELSE IF v \in -32768 .. 32767 THEN Int16(v) ELSE v

Item(name, v) == <<[tag |-> "item", name |-> name, v |-> v]>>
Compound(name, tags) == <<[tag |-> "begin", name |-> name]>> \o tags \o <<[tag |-> "end"]>>
Where(c, tags) == IF c THEN tags ELSE <<>>
Known(name, v, encoded) == Where(v # Unset, Item(name, encoded))

SaveSize(f) == Item("X", IF f.size >= 32768 THEN AnyInt(f.size) ELSE Int16(f.size))

SaveGenerator(f) ==
  Where(f.software # "" \/ f.seed # "",
    Compound("MapGenerator",
      Where(f.software # "", Item("Software", f.software))
      \o Item("MapGeneratorName", f.theme)
      \o Where(f.seed # "", Item("Seed", f.seed))))

SaveSpawn(f) ==
  Compound("Spawn", Item("X", Int16(f.spawn_x \div 32)) \o Item("H", Int8(f.spawn_h)))

SaveColour(name, colour) ==
  Compound(name,
    IF colour < 0 THEN Item("R", -1) \o Item("G", -1) \o Item("B", -1)
    ELSE Item("R", Int16(colour \div 65536)) \o Item("G", Int16((colour \div 256) % 256))
           \o Item("B", Int16(colour % 256)))

SaveAppearance(f) ==
  Compound("EnvMapAppearance",
    Item("SideBlock", Int8(f.side_block)) \o Known("SideLevel", f.side_level, Int16(f.side_level))
      \o Item("TextureURL", f.texname))

SaveSetSpawn(f) == Compound("SetSpawn", Item("X", AnyInt(f.spawn_x)) \o Item("H", AnyInt(f.spawn_h)))

\* The numbers behind CloudsSpeed and WeatherFade are fractions, exact as far as we go.
SaveAspect(f) ==
  Compound("EnvMapAspect",
    Item("SideBlock", Int16(f.side_block))
      \o Known("EdgeHeight", f.side_level, f.side_level)
      \o Known("SidesOffset", f.side_offset, f.side_offset)
      \o Known("CloudsHeight", f.clouds_height, f.clouds_height)
      \o Item("CloudsSpeed", f.clouds_speed) \o Item("WeatherFade", f.weather_fade)
      \o Item("ExpFog", Int8(f.exp_fog))
      \o Item("MapProperty0", AnyInt(f.side_block))
      \o Known("MapProperty2", f.side_level, AnyInt(f.side_level))
      \o Known("MapProperty3", f.clouds_height, AnyInt(f.clouds_height))
      \o Item("MapProperty4", AnyInt(f.max_fog)) \o Item("MapProperty5", AnyInt(f.clouds_speed))
      \o Item("MapProperty7", AnyInt(f.weather_fade)) \o Item("MapProperty8", AnyInt(f.exp_fog))
      \o Known("MapProperty9", f.side_offset, AnyInt(f.side_offset)))

Bit(v, b) == (v \div b) % 2

\* The items say what is allowed, the flags what is not; the jump has a flag of its own.
SaveHacks(f) ==
  Where(f.hacks_flags # 0,
    Compound("HackControl",
      Item("Flying", 1 - Bit(f.hacks_flags, 1)) \o Item("NoClip", 1 - Bit(f.hacks_flags, 2))
        \o Item("Speed", 1 - Bit(f.hacks_flags, 4)) \o Item("SpawnControl", 1 - Bit(f.hacks_flags, 8))
        \o Item("ThirdPersonView", 1 - Bit(f.hacks_flags, 16))
        \o Item("JumpHeight", IF Bit(f.hacks_flags, 32) = 1 THEN AnyInt(f.hacks_jump) ELSE -1)))

\* (i+256) % BLOCKMAX for i from 1 on: block 256 is not among them.
SaveId(i) == (i + Low) % BLOCKMAX

\* In the file: top, bottom, left, right, front, back
InFile(t) == <<t[1], t[6], t[2], t[3], t[4], t[5]>>
InMemory(v) == <<v[1], v[3], v[4], v[5], v[6], v[2]>>

SaveDefinition(b, d) ==
  Compound("Block",
    Item("ID2", Int16(b)) \o Item("Textures", InFile(d.textures))
      \o Where(d.order # DefaultOrder, Item("InventoryOrder", AnyInt(d.order))))

SaveDefinitions(def) ==
  LET ids == SelectSeq([i \in 1 .. BLOCKMAX - 1 |-> SaveId(i)],
                       LAMBDA b : def[b].defined /\ ~def[b].no_save)
  IN Where(ids # <<>>,
       Compound("BlockDefinitions", FlattenSeq([i \in DOMAIN ids |-> SaveDefinition(ids[i], def[ids[i]])])))

\* Of all blocks from 1 on that have something to be said of
EachBlock(def, section, has(_), tags(_)) ==
  LET ids == SelectSeq([i \in 1 .. BLOCKMAX - 1 |-> i], has)
  IN Where(ids # <<>>,
       Compound(section, FlattenSeq([i \in DOMAIN ids |-> Compound(section, tags(ids[i]))])))

SaveOrders(def) ==
  EachBlock(def, "InventoryOrder",
    LAMBDA b : def[b].defined /\ def[b].order # DefaultOrder /\ def[b].order # b,
    LAMBDA b : Item("Block", AnyInt(b)) \o Item("Order", AnyInt(def[b].order)))

SavePermissions(def) ==
  EachBlock(def, "SetBlockPermission", LAMBDA b : def[b].perm # 0,
    LAMBDA b : Item("BlockType", AnyInt(b)) \o Item("AllowPlacement", 1 - Bit(def[b].perm, 1))
                 \o Item("AllowDeletion", 1 - Bit(def[b].perm, 2)))

SaveCuboids(f) ==
  LET one(i) ==
        Compound("SelectionCuboid",
          Item("SelectionID", i) \o Item("R", (f.cuboid[i] \div 65536) % 256)
            \o Item("G", (f.cuboid[i] \div 256) % 256) \o Item("B", f.cuboid[i] % 256))
      used == SelectSeq(<<1, 2>>, LAMBDA i : f.cuboid[i] >= 0)
  IN Where(used # <<>>,
       Compound("SelectionCuboid", FlattenSeq([i \in DOMAIN used |-> one(used[i])])))

SaveMetadata(l) ==
  LET f == l.fields IN
  Compound("Metadata", Compound("CPE",
    Where(f.click_distance >= 0,
        Compound("ClickDistance", Item("Distance", Int16(f.click_distance))))
      \o Compound("EnvWeatherType", Item("WeatherType", Int8(f.weather)))
      \o Compound("EnvColors", SaveColour("Sky", f.sky))
      \o SaveAppearance(f) \o SaveSetSpawn(f) \o SaveAspect(f)
      \o Where(f.physics # 0, Compound("MCGalaxy", Item("PhysicsBlocks", 1)))
      \o SaveHacks(f)
      \o SaveDefinitions(l.def) \o SaveOrders(l.def) \o SavePermissions(l.def) \o SaveCuboids(f)
      \o Where(f.motd # "", Compound("Ident", Item("Motd", f.motd)))
      \o Compound("MCCHost",
           Where(f.theme # "" /\ (f.software = "" \/ f.seed # ""), Item("Theme", f.theme))
             \o Where(f.seed # "", Item("Seed", f.seed)))))

\* The low byte, or the fallback of a physics block; the high byte of the blocks below
\* CPELIMIT; that of those beyond, without the physics blocks; and these.
SaveBlocks(block, physics) ==
  LET emulated(b) == physics # 0 /\ IsMCGPhysics(b)
      array(name, value(_)) == Item(name, [c \in Cell |-> value(block[c])])
  IN array("BlockArray", LAMBDA b : IF emulated(b) THEN 0 ELSE b % Low)
     \o Where(\E c \in Cell : block[c] >= Low /\ block[c] < CPELIMIT,
          array("BlockArray2",
            LAMBDA b : IF emulated(b) \/ b >= CPELIMIT THEN 0 ELSE b \div Low))
     \o Where(\E c \in Cell : block[c] >= CPELIMIT /\ ~emulated(block[c]),
          array("BlockArray3",
            LAMBDA b : IF b >= CPELIMIT /\ ~emulated(b) THEN b \div Low ELSE 0))
     \o Where(\E c \in Cell : emulated(block[c]),
          array("BlockArrayPhysics", LAMBDA b : IF IsMCGPhysics(b) THEN b % Low ELSE 0))

SaveMap(l) ==
  Compound("ClassicWorld",
    Item("UUID", l.uuid) \o SaveSize(l.fields) \o SaveGenerator(l.fields)
      \o Where(l.fields.time_created # 0, Item("TimeCreated", AnyInt(l.fields.time_created)))
      \o SaveSpawn(l.fields) \o SaveMetadata(l) \o SaveBlocks(l.block, l.fields.physics))

----------------------------------------------------------------------------
(* Reading (nbtload.c)                                                      *)

\* Where items of a name go that need nothing but to be stored
Stored == {<<"ClickDistance", "Distance", "click_distance">>,
  <<"EnvWeatherType", "WeatherType", "weather">>,
  <<"EnvMapAppearance", "SideBlock", "side_block">>,
  <<"EnvMapAppearance", "SideLevel", "side_level">>,
  <<"EnvMapAppearance", "TextureURL", "texname">>,
  <<"EnvMapAspect", "SideBlock", "side_block">>, <<"EnvMapAspect", "EdgeHeight", "side_level">>,
  <<"EnvMapAspect", "SideOffset", "side_offset">>,
  <<"EnvMapAspect", "CloudsHeight", "clouds_height">>,
  <<"EnvMapAspect", "CloudsSpeed", "clouds_speed">>,
  <<"EnvMapAspect", "WeatherFade", "weather_fade">>, <<"EnvMapAspect", "ExpFog", "exp_fog">>,
  <<"EnvMapAspect", "MapProperty0", "side_block">>,
  <<"EnvMapAspect", "MapProperty2", "side_level">>,
  <<"EnvMapAspect", "MapProperty3", "clouds_height">>,
  <<"EnvMapAspect", "MapProperty4", "max_fog">>,
  <<"EnvMapAspect", "MapProperty5", "clouds_speed">>,
  <<"EnvMapAspect", "MapProperty7", "weather_fade">>,
  <<"EnvMapAspect", "MapProperty8", "exp_fog">>,
  <<"EnvMapAspect", "MapProperty9", "side_offset">>,
  <<"SetSpawn", "X", "spawn_x">>, <<"SetSpawn", "H", "spawn_h">>, <<"Spawn", "H", "spawn_h">>,
  <<"MapGenerator", "Software", "software">>, <<"MapGenerator", "MapGeneratorName", "theme">>,
  <<"MapGenerator", "Seed", "seed">>, <<"MCCHost", "Theme", "theme">>,
  <<"MCCHost", "Seed", "seed">>, <<"Ident", "Motd", "motd">>, <<"", "TimeCreated", "time_created">>}

Put(s, field, v) == [s EXCEPT !.level.fields[field] = v]

\* Root items; a negative size is one of 16 bits.
ReadRoot(s, name, v) ==
  IF name = "X" THEN Put(s, "size", IF v < 0 THEN v % 65536 ELSE v) ELSE s

ReadSpawn(s, name, v) == IF name = "X" THEN Put(s, "spawn_x", v * 32 + 16) ELSE s

Place == [R |-> 65536, G |-> 256, B |-> 1]

\* set_colour: a negative part makes it none; the first part of one makes an end of none.
WithPart(colour, name, v) ==
  IF v < 0 THEN -1
  ELSE LET rest == IF colour < 0 THEN 16777215 ELSE colour
       IN rest + ((v % 256) - ((rest \div Place[name]) % 256)) * Place[name]

Flags == [Flying |-> 1, NoClip |-> 2, Speed |-> 4, SpawnControl |-> 8, ThirdPersonView |-> 16,
          JumpHeight |-> 32]
WithFlag(flags, b, set) == flags + ((IF set THEN 1 ELSE 0) - Bit(flags, b)) * b

ReadHacks(s, name, v) ==
  LET f == s.level.fields
      set == IF name = "JumpHeight" THEN v # -1 ELSE v = 0
      flagged == Put(s, "hacks_flags", WithFlag(f.hacks_flags, Flags[name], set))
  IN IF name = "JumpHeight" /\ set THEN Put(flagged, "hacks_jump", v) ELSE flagged

\* As ReadBlock below, had what was there of the block been left.
ReadBlockKeep(s, name, v) ==
  IF name = "ID2"
  THEN [s EXCEPT !.current_block = v, !.level.def[v].defined = TRUE]
  ELSE IF name = "Textures" THEN [s EXCEPT !.level.def[s.current_block].textures = InMemory(v)]
  ELSE IF name = "InventoryOrder" THEN [s EXCEPT !.level.def[s.current_block].order = v]
  ELSE s

\* A definition begins with its number; an undefined one starts as a standard block, one that
\* is there already is written over, and what the file does not say of it stays.
ReadBlock(s, name, v) ==
  IF name = "ID2"
  THEN [s EXCEPT !.current_block = v,
                 !.level.def[v].defined = TRUE, !.level.def[v].order = DefaultOrder]
  ELSE IF name = "Textures" THEN [s EXCEPT !.level.def[s.current_block].textures = InMemory(v)]
  ELSE IF name = "InventoryOrder" THEN [s EXCEPT !.level.def[s.current_block].order = v]
  ELSE s

ReadOrder(s, name, v) ==
  IF name = "Block" THEN [s EXCEPT !.inventory_block = v]
  ELSE IF name = "Order" /\ s.inventory_block > 0
  THEN [s EXCEPT !.level.def[s.inventory_block].order = v, !.inventory_block = -1]
  ELSE s

ReadPermission(s, name, v) ==
  LET perm == s.level.def[s.permission_block].perm IN
  IF name = "BlockType" THEN [s EXCEPT !.permission_block = v]
  ELSE IF name = "AllowPlacement"
  THEN [s EXCEPT !.level.def[s.permission_block].perm = WithFlag(perm, 1, v = 0)]
  ELSE [s EXCEPT !.level.def[s.permission_block].perm = WithFlag(perm, 2, v = 0)]

ReadCuboid(s, name, v) ==
  IF name = "SelectionID"
  THEN [s EXCEPT !.current_cuboid = v, !.level.fields.cuboid[v] = IF @ < 0 THEN 0 ELSE @]
  ELSE [s EXCEPT !.level.fields.cuboid[s.current_cuboid] = WithPart(@, name, v)]

ReadPhysics(s, v) ==
  [s EXCEPT !.level.fields.physics = v,
            !.level.def = IF v # 0 THEN WithPhysics(@) ELSE @]

\* Of MCGalaxy's blocks, where there is one; a level that has them has all of them.
ReadArrayPhysics(s, v) ==
  LET placed == [s EXCEPT !.level.block = [c \in Cell |-> IF v[c] = 0 THEN @[c] ELSE v[c] + CPELIMIT]]
  IN IF s.level.fields.physics = 0 THEN ReadPhysics(placed, 1) ELSE placed

\* The low bytes, first of all; then high bytes over them, all or where there is one.
ReadBlocks(s, name, v) ==
  LET high(old, c) == (old % Low) + v[c] * Low IN
  CASE name = "BlockArray" -> [s EXCEPT !.level.block = v]
    [] name = "BlockArray2" -> [s EXCEPT !.level.block = [c \in Cell |-> high(@[c], c)]]
    [] name = "BlockArray3" ->
         [s EXCEPT !.level.block = [c \in Cell |-> IF v[c] = 0 THEN @[c] ELSE high(@[c], c)]]
    [] name = "BlockArrayPhysics" -> ReadArrayPhysics(s, v)

Arrays == {"BlockArray", "BlockArray2", "BlockArray3", "BlockArrayPhysics"}

\* The unique number of a level is only looked for among the blocks' definitions.
ReadItem(s, name, v) ==
  LET at == {t \in Stored : t[1] = s.sect /\ t[2] = name} IN
  IF at # {} THEN Put(s, (CHOOSE t \in at : TRUE)[3], v)
  ELSE IF name \in Arrays THEN ReadBlocks(s, name, v)
  ELSE CASE s.sect = "" -> ReadRoot(s, name, v)
         [] s.sect = "Spawn" -> ReadSpawn(s, name, v)
         [] s.sect = "Sky" -> Put(s, "sky", WithPart(s.level.fields.sky, name, v))
         [] s.sect = "HackControl" -> ReadHacks(s, name, v)
         [] s.sect = "Block" -> ReadBlock(s, name, v)
         [] s.sect = "InventoryOrder" -> ReadOrder(s, name, v)
         [] s.sect = "SetBlockPermission" -> ReadPermission(s, name, v)
         [] s.sect = "SelectionCuboid" -> ReadCuboid(s, name, v)
         [] s.sect = "MCGalaxy" -> ReadPhysics(s, v)
         [] OTHER -> s

\* The loader is in no compound again after the end of any, the outer ones included.
ReadElement(s, t) ==
  CASE t.tag = "begin" ->
         [s EXCEPT !.sect = IF s.indent > 0 THEN t.name ELSE @, !.indent = @ + 1]
    [] t.tag = "end" -> [s EXCEPT !.sect = "", !.indent = @ - 1]
    [] t.tag = "item" -> ReadItem(s, t.name, t.v)

\* load_cwfile, from a level of nulls with a number of its own; in pieces of 40 tags, as many
\* as one fold can take.
LoadMap(tags, uuid) ==
  LET start == [level |-> [Null EXCEPT !.uuid = uuid], sect |-> "", indent |-> 0,
                current_block |-> -1, inventory_block |-> -1, permission_block |-> 0,
                current_cuboid |-> -1]
      piece(i) == SubSeq(tags, 40 * i - 39, IF 40 * i > Len(tags) THEN Len(tags) ELSE 40 * i)
      read[i \in Nat] ==
        IF i = 0 THEN start
        ELSE LET s == read[i - 1]
             IN IF s.indent < 0 THEN s ELSE FoldLeft(ReadElement, s, piece(i))
  IN read[(Len(tags) + 39) \div 40].level

----------------------------------------------------------------------------
(* A level's life *)

Change(l) ==
  /\ changes < MaxChanges
  /\ level' = l /\ told' = l
  /\ changes' = changes + 1
  /\ dirty' = TRUE
  /\ UNCHANGED file

SetFields(n) ==
  /\ changes = 0 /\ Told.physics[n] = level.fields.physics     \* as its size, since it was made
  /\ Change([level EXCEPT !.fields = [f \in DOMAIN Fields |-> Told[f][n]]])

SetBlock(c, b) == Change([level EXCEPT !.block[c] = b])

\* cmd_defblk: from a standard block, or on what is there; then with an option of its own
DefineBlock(b, from, order) ==
  LET old == level.def[b]
      new == IF from = "-" /\ old.defined THEN old
             ELSE [NoDefinition(b) EXCEPT !.defined = TRUE]
  IN Change([level EXCEPT !.def[b] = [new EXCEPT !.textures = Own, !.order = order]])

SetPermission(b, perm) == Change([level EXCEPT !.def[b].perm = perm])

Save ==
  /\ dirty
  /\ file' = SaveMap(level)
  /\ dirty' = FALSE
  /\ UNCHANGED <<level, told, changes>>

\* Unloaded when it is saved, and loaded when somebody comes
Load ==
  /\ ~dirty /\ file # <<>>
  /\ level' = LoadMap(file, 1 - level.uuid)
  /\ UNCHANGED <<file, dirty, told, changes>>

Changed == {Low - 1, Low, CPELIMIT, CPELIMIT + 2}

Next ==
  \/ \E n \in 1 .. 3 : SetFields(n)
  \/ \E c \in Cell, b \in Changed : SetBlock(c, b)
  \/ \E b \in Changed, from \in {"-", "std"} : \E order \in {0, b, DefaultOrder} :
       DefineBlock(b, from, order)
  \/ \E b \in Changed, perm \in 1 .. 3 : SetPermission(b, perm)
  \/ Save \/ Load

Spec == Init /\ [][Next]_vars

----------------------------------------------------------------------------
(* Properties *)

\* What a file does not bring back: the definition of block 256, which SaveId leaves out; a
\* reach of -1, for none; a jump without its flag, or of -1 with it; what was said of MCGalaxy's
\* blocks on a level that has them, which are made anew before the file's definitions are read.
FieldLost(f) ==
  \/ f = "click_distance" /\ told.fields[f] < 0
  \/ f \in {"hacks_flags", "hacks_jump"}
       /\ (Bit(told.fields.hacks_flags, 32) = 0 \/ told.fields.hacks_jump = -1)
DefinitionLost(b) == b = Low \/ (told.fields.physics # 0 /\ b >= CPELIMIT)

\* Whatever a level is told, it is still what it was told after it has been saved and loaded,
\* again and again: the items that a later one overrides, the compounds an item is looked for
\* in, and the bytes the blocks are split into come to the same in both directions.
SameAgain ==
  /\ \A f \in DOMAIN Fields : FieldLost(f) \/ level.fields[f] = told.fields[f]
  /\ level.block = told.block
  /\ \A b \in BlockNo \ {0} : ~DefinitionLost(b) =>
       level.def[b] = told.def[b]
=============================================================================

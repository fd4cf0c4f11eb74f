-------------------------------- MODULE Wire --------------------------------
(***************************************************************************)
(* The packets of the protocol, by their length in bytes: the length each  *)
(* send_..._pkt writes, the length process_client_message takes apart, and *)
(* the table msglen, which has to agree with both.  What is negotiated is  *)
(* a set e of extensions.                                                  *)
(***************************************************************************)
EXTENDS Integers, FiniteSets

Byte == 1
Short == 2
Long == 4
Str == 64                                    \* nb_string_write fills up with spaces

\* The assignments f, over those of g
f ++ g == [k \in DOMAIN f \cup DOMAIN g |-> IF k \in DOMAIN f THEN f[k] ELSE g[k]]

When(e, x, a, b) == IF x \in e THEN a ELSE b
Block(e) == When(e, "extendblockno", Short, Byte)
TexId(e) == When(e, "extendtexno", Short, Byte)
EntCoord(e) == When(e, "extentityposn", Long, Short)
Posn(e) == 3 * EntCoord(e) + 2 * Byte

----------------------------------------------------------------------------
(* send_packet.c *)

SentLevel(e) == [
  lvlinit |-> Byte + When(e, "fastmap", Long, 0),
  lvldata |-> Byte + Short + 1024 + Byte,
  lvldone |-> Byte + 3 * Short,
  srvblock |-> Byte + 3 * Short + Block(e)]

SentEntity(e) == [
  spawn |-> 2 * Byte + Str + Posn(e),
  posn |-> 2 * Byte + Posn(e),
  posn1 |-> 7 * Byte,
  posn2 |-> 5 * Byte,
  posn3 |-> 4 * Byte,
  despawn |-> 2 * Byte]

SentSession(e, protocol) == [
  ident |-> 2 * Byte + 2 * Str + (IF protocol >= 6 THEN Byte ELSE 0),
  ping |-> Byte,
  message |-> 2 * Byte + Str,
  discon |-> Byte + Str,
  oper |-> 2 * Byte,
  extinfo |-> Byte + Str + Short,
  extentry |-> Byte + Str + Long,
  custblock |-> 2 * Byte,
  pingpong |-> 2 * Byte + Short]

SentLook(e) == [
  clickdist |-> Byte + Short,
  heldblock |-> Byte + Block(e) + Byte,
  mapcolour |-> 2 * Byte + 3 * Short,
  texurl |-> Byte + Str,
  mapprop |-> 2 * Byte + Long,
  mapappear |-> Byte + Str + 2 * Block(e) + Short + When(e, "envmapappearance2", 2 * Short, 0),
  weather |-> 2 * Byte,
  hackctl |-> 6 * Byte + Short,
  textcolour |-> 6 * Byte,
  setspawn |-> Byte + Posn(e)]

\* name, collide, speed, the textures, light, sound, brightness, shape or coords, draw, fog
BlockDef(e, textures, coords) ==
  Byte + Block(e) + Str + 2 * Byte + textures * TexId(e) + 3 * Byte + coords * Byte + Byte + 4 * Byte

SentBlocks(e) == [
  blockdef |-> BlockDef(e, 3, 1),
  blockdef2 |-> BlockDef(e, 6, 6),
  blockundef |-> Byte + Block(e),
  invorder |-> Byte + 2 * Block(e),
  hotbar |-> Byte + Block(e) + Byte,
  blockperm |-> Byte + Block(e) + 2 * Byte]

SentPlayers(e) == [
  playername |-> Byte + Short + 3 * Str + Byte,
  rmplayer |-> Byte + Short,
  addent |-> 2 * Byte + 2 * Str + Posn(e),
  changemdl |-> 2 * Byte + Str,
  addcuboid |-> 2 * Byte + Str + 10 * Short,
  rmcuboid |-> 2 * Byte]

SentLength(e, protocol) ==
  SentLevel(e) ++ SentEntity(e) ++ SentSession(e, protocol) ++ SentLook(e)
    ++ SentBlocks(e) ++ SentPlayers(e)

----------------------------------------------------------------------------
(* What process_client_message reads of a packet *)

HeldBlock(e) == When(e, "heldblock", Block(e), Byte)

ReadLength(e) == [
  setblock |-> Byte + 3 * Short + Byte + Block(e),
  posn |-> Byte + HeldBlock(e) + Posn(e),
  message |-> 2 * Byte + Str,
  extinfo |-> Byte + Str + Short,
  extentry |-> Byte + Str + Long,
  custblock |-> 2 * Byte,
  playerclk |-> 3 * Byte + 2 * Short + Byte + 3 * Short + Byte,
  pingpong |-> 2 * Byte + Short,
  pluginmsg |-> 2 * Byte + Str]

----------------------------------------------------------------------------
(* The table, and what process_extentry makes of it *)

BaseLength == [
  ident |-> 131, ping |-> 1, lvlinit |-> 1, lvldata |-> 1028, lvldone |-> 7, setblock |-> 9,
  srvblock |-> 8, spawn |-> 74, posn |-> 10, posn1 |-> 7, posn2 |-> 5, posn3 |-> 4,
  despawn |-> 2, message |-> 66, discon |-> 65, oper |-> 2, extinfo |-> 67, extentry |-> 69,
  clickdist |-> 3, custblock |-> 2, heldblock |-> 3, playername |-> 196, rmplayer |-> 3,
  mapcolour |-> 8, addcuboid |-> 86, rmcuboid |-> 2, blockperm |-> 4, changemdl |-> 66,
  mapappear |-> 0, weather |-> 2, hackctl |-> 8, addent |-> 138, playerclk |-> 15,
  blockdef |-> 80, blockundef |-> 2, blockdef2 |-> 88, textcolour |-> 6, texurl |-> 65,
  mapprop |-> 6, pingpong |-> 4, invorder |-> 3, hotbar |-> 3, setspawn |-> 9,
  pluginmsg |-> 66]

ForEntityPosn(e) ==
  [spawn |-> 80, posn |-> 16, addent |-> 144, setspawn |-> 15]

\* As ForBlockNumbers below, had wide textures been forgotten.
ForBlockNumbersOnly(e) ==
  [setblock |-> 10, srvblock |-> 9,
   posn |-> When(e, "extentityposn", 17, 11),
   heldblock |-> 4, blockundef |-> 3, invorder |-> 5, hotbar |-> 4, blockdef |-> 81, blockdef2 |-> 89]

ForBlockNumbers(e) ==
  [setblock |-> 10, srvblock |-> 9,
   posn |-> When(e, "extentityposn", 17, 11),        \* client to server only
   heldblock |-> 4, blockundef |-> 3, invorder |-> 5, hotbar |-> 4,
   blockdef |-> 81 + When(e, "extendtexno", 3, 0),
   blockdef2 |-> 89 + When(e, "extendtexno", 6, 0)]

ForTextures(e) == [blockdef |-> 83, blockdef2 |-> 94]
ForFastMap(e) == [lvlinit |-> 5]

\* As Changes below, had its two halves been exchanged.
ChangesSwapped(e) ==
  When(e, "extentityposn", ForEntityPosn(e), <<>>)
    ++ When(e, "fastmap", ForFastMap(e), <<>>)
    ++ When(e, "extendblockno", ForBlockNumbers(e), When(e, "extendtexno", ForTextures(e), <<>>))

\* The later assignment wins.
Changes(e) ==
  When(e, "extendblockno", ForBlockNumbers(e), When(e, "extendtexno", ForTextures(e), <<>>))
    ++ When(e, "extentityposn", ForEntityPosn(e), <<>>)
    ++ When(e, "fastmap", ForFastMap(e), <<>>)

Adjusted(e, table) == Changes(e) ++ table
=============================================================================

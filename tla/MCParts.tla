------------------------------- MODULE MCParts -------------------------------
(***************************************************************************)
(* Parts of the server that share no state, for TLC: a behaviour is one of *)
(* one part, and the others stay where they began.                         *)
(***************************************************************************)
EXTENDS RobustLock, Handshake, LevelAdmin, AntiSpam, TLC

CONSTANTS
  Parts,                                                  \* those that run
  MaxFrames, MaxPayload, Longest,                         \* Stream
  Low, Cell, MaxChanges,                                  \* MapFile
  Saves,                                                  \* LevelIni
  Session, Listener, MaxSets,                            \* Settings, CmdSet
  MB_STRLEN, MaxUnits                                    \* ChatText

PacketLen == 0 :> 3 @@ 1 :> 1

VARIABLES
  part,
  websocket, cpe_enabled, frames, wire, first, inbuf, translating, outbuf, websocket_buffer,
  mask_value, mask_id, packet_len, rcvdpkt, processed, gone, loose,
  level, file, dirty, told, changes,
  lv, ini, saved, before, nsaves,
  server, textcolour, serverini, reload, unseen, sphase, image, stold, sraced, again, sets,
  perm, commandini, other, unread, cpc, cimage, ctold, craced, older, csets,
  typed, sender, receiver, sent, pending_chat, chat, lines

S == INSTANCE Stream
M == INSTANCE MapFile
I == INSTANCE LevelIni
T == INSTANCE Settings WITH phase <- sphase, told <- stold, raced <- sraced
C == INSTANCE CmdSet WITH pc <- cpc, image <- cimage, told <- ctold, raced <- craced, sets <- csets
X == INSTANCE ChatText

\* What the proofs assume of the constants
ASSUME PartsAssumption == LockConstants /\ HandshakeConstants /\ AdminConstants /\ SpamConstants

streamVars ==
  <<websocket, cpe_enabled, frames, wire, first, inbuf, translating, outbuf, websocket_buffer,
    mask_value, mask_id, packet_len, rcvdpkt, processed, gone, loose>>
mapVars == <<level, file, dirty, told, changes>>
iniVars == <<lv, ini, saved, before, nsaves>>
settingsVars ==
  <<server, textcolour, serverini, reload, unseen, sphase, image, stold, sraced, again, sets>>
cmdsetVars ==
  <<perm, commandini, other, unread, cpc, cimage, ctold, craced, older, csets>>
textVars ==
  <<typed, sender, receiver, sent, pending_chat, chat, lines>>
vars == <<part, lockVars, handshakeVars, streamVars, mapVars, iniVars, settingsVars, cmdsetVars,
          textVars, adminVars, spamVars>>

\* A part that does not run has no state.
Init ==
  /\ part \in Parts
  /\ LockInit /\ (part # "lock" => files = 0)
  /\ HandshakeInit
  /\ AdminInit /\ (part # "admin" => \A l \in Level : cw[l] # None)
  /\ SpamInit /\ (part # "spam" => spam_ban = Min(Bans))
  /\ IF part = "stream" THEN S!Init
     ELSE /\ websocket = "" /\ cpe_enabled = "" /\ frames = "" /\ wire = "" /\ first = ""
          /\ inbuf = "" /\ translating = "" /\ outbuf = "" /\ websocket_buffer = ""
          /\ mask_value = "" /\ mask_id = "" /\ packet_len = "" /\ rcvdpkt = "" /\ processed = ""
          /\ gone = "" /\ loose = ""
  /\ IF part = "map" THEN M!Init
     ELSE /\ level = "" /\ file = "" /\ dirty = "" /\ told = "" /\ changes = ""
  /\ IF part = "ini" THEN I!Init
     ELSE /\ lv = "" /\ ini = "" /\ saved = "" /\ before = "" /\ nsaves = ""
  /\ IF part = "settings" THEN T!Init
     ELSE /\ server = "" /\ textcolour = "" /\ serverini = "" /\ reload = "" /\ unseen = ""
          /\ sphase = "" /\ image = "" /\ stold = "" /\ sraced = "" /\ again = "" /\ sets = ""
  /\ IF part = "cmdset" THEN C!Init
     ELSE /\ perm = "" /\ commandini = "" /\ other = "" /\ unread = "" /\ cpc = "" /\ cimage = ""
          /\ ctold = "" /\ craced = "" /\ older = "" /\ csets = ""
  /\ IF part = "text" THEN X!Init
     ELSE /\ typed = "" /\ sender = "" /\ receiver = "" /\ sent = "" /\ pending_chat = ""
          /\ chat = "" /\ lines = ""

Next ==
  \/ /\ part = "lock" /\ LockNext
     /\ UNCHANGED <<part, handshakeVars, streamVars, mapVars, iniVars, settingsVars, cmdsetVars,
                    textVars, adminVars, spamVars>>
  \/ /\ part = "handshake" /\ HandshakeNext
     /\ UNCHANGED <<part, lockVars, streamVars, mapVars, iniVars, settingsVars, cmdsetVars,
                    textVars, adminVars, spamVars>>
  \/ /\ part = "stream" /\ S!Next
     /\ UNCHANGED <<part, lockVars, handshakeVars, mapVars, iniVars, settingsVars, cmdsetVars,
                    textVars, adminVars, spamVars>>
  \/ /\ part = "map" /\ M!Next
     /\ UNCHANGED <<part, lockVars, handshakeVars, streamVars, iniVars, settingsVars, cmdsetVars,
                    textVars, adminVars, spamVars>>
  \/ /\ part = "ini" /\ I!Next
     /\ UNCHANGED <<part, lockVars, handshakeVars, streamVars, mapVars, settingsVars, cmdsetVars,
                    textVars, adminVars, spamVars>>
  \/ /\ part = "settings" /\ T!Next
     /\ UNCHANGED <<part, lockVars, handshakeVars, streamVars, mapVars, iniVars, cmdsetVars,
                    textVars, adminVars, spamVars>>
  \/ /\ part = "cmdset" /\ C!Next
     /\ UNCHANGED <<part, lockVars, handshakeVars, streamVars, mapVars, iniVars, settingsVars,
                    textVars, adminVars, spamVars>>
  \/ /\ part = "text" /\ X!Next
     /\ UNCHANGED <<part, handshakeVars, streamVars, mapVars, iniVars, settingsVars, cmdsetVars,
                    lockVars, adminVars, spamVars>>
  \/ /\ part = "admin" /\ AdminNext
     /\ UNCHANGED <<part, handshakeVars, streamVars, mapVars, iniVars, settingsVars, cmdsetVars,
                    textVars, lockVars, spamVars>>
  \/ /\ part = "spam" /\ SpamNext
     /\ UNCHANGED <<part, handshakeVars, streamVars, mapVars, iniVars, settingsVars, cmdsetVars,
                    textVars, adminVars, lockVars>>

Spec == Init /\ [][Next]_vars

\* Every variable of every part has its type.
TypeOK ==
  /\ LockTypeOK /\ HandshakeTypeOK /\ AdminTypeOK /\ SpamTypeOK
  /\ part = "stream" => S!TypeOK

\* Packets come out of frames and reads as they were sent, and nobody is put off; see Stream.
PacketsAsSent == part = "stream" => S!PacketsAsSent

\* A level comes back from its file as it was, again and again; see MapFile.
SameAgain == part = "map" => M!SameAgain

\* A settings file brings back the level that was saved in it (ini_struct.c); see LevelIni.
SavedComesBack == part = "ini" => I!SavedComesBack

\* What was set last is what there is, now and later (args.c); see Settings.
SetStays == part = "settings" => T!SetStays

\* A user gets to run what the administrators told (commands.c); see CmdSet.
RunsAsTold == part = "cmdset" => C!RunsAsTold

\* What is said is shown, in its colours, in lines that fit (chat_message.c); see ChatText.
SaidIsShown == part = "text" => X!SaidIsShown
=============================================================================

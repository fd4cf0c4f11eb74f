------------------------------- MODULE Stream -------------------------------
(***************************************************************************)
(* The bytes of one connection: what the client sends arrives in pieces    *)
(* cut anywhere; websocket_translate takes the frames off and              *)
(* remote_received puts the packets together again.  A byte is known by    *)
(* where it comes from: it is byte "at" of the payload, the mask or the    *)
(* length of frame "of"; of the second byte "at" is its value.             *)
(***************************************************************************)
EXTENDS Integers, Sequences, SequencesExt

CONSTANTS
  MaxFrames, MaxPayload,  \* how many frames a client sends, and how much is in each
  Longest,                \* 125: the longest length written into the second byte
  PacketLen               \* msglen, here of two kinds of packets

VARIABLES
  websocket,              \* 0 none, 1 between frames, 2 in a header, 3 in a frame
  cpe_enabled,
  frames,                 \* what the client frames: their payloads' lengths, all masked
  wire,                   \* the bytes on their way
  first,                  \* the first byte of the piece that was read
  inbuf,                  \* what is left of it
  translating,            \* in websocket_translate
  outbuf,                 \* what has been taken out of it
  websocket_buffer,
  mask_value,             \* the frame the mask is of, or 0 if it is not one
  mask_id, packet_len,
  rcvdpkt,                \* rcvdpkt[0 .. in_rcvd-1]
  processed,              \* history: what process_client_message was given
  gone,                   \* "" or why the session ended
  loose                   \* history: the rest of a header came in small pieces

header == <<websocket_buffer, mask_value, mask_id, packet_len>>
received == <<rcvdpkt, processed, gone>>
vars == <<websocket, cpe_enabled, frames, wire, first, inbuf, translating, outbuf, header, received,
          loose>>

----------------------------------------------------------------------------
(* What the client sends (external) *)

Garbage == [kind |-> "?", of |-> 0, at |-> 0]

\* Second byte, and how many bytes say the length: 126 stands for two more
LengthCode(n) == IF n <= Longest THEN n ELSE Longest + 1
LengthBytes(n) == IF n <= Longest THEN 0 ELSE 2
Mask(f) == [i \in 1 .. 4 |-> [kind |-> "mask", of |-> f, at |-> i - 1]]
Header(f, n) ==
  <<[kind |-> "op", of |-> f, at |-> 0], [kind |-> "len", of |-> f, at |-> LengthCode(n)]>>
    \o [i \in 1 .. LengthBytes(n) |-> [kind |-> "long", of |-> f, at |-> IF i = 2 THEN n ELSE 0]]
    \o Mask(f)
Payload(f, n) == [i \in 1 .. n |-> [kind |-> "data", of |-> f, at |-> i - 1]]
Framed(fs) == FlattenSeq([f \in 1 .. Len(fs) |-> Header(f, fs[f]) \o Payload(f, fs[f])])
Sent(fs) == FlattenSeq([f \in 1 .. Len(fs) |-> Payload(f, fs[f])])

Init ==
  /\ websocket \in {0, 1} /\ cpe_enabled \in BOOLEAN
  /\ frames \in UNION {[1 .. k -> 0 .. MaxPayload] : k \in 1 .. MaxFrames}
  /\ wire = IF websocket = 0 THEN Sent(frames) ELSE Framed(frames)
  /\ first = Garbage /\ inbuf = <<>> /\ translating = FALSE /\ outbuf = <<>> /\ websocket_buffer = <<>>
  /\ mask_value = 0 /\ mask_id = 0 /\ packet_len = 0
  /\ rcvdpkt = <<>> /\ processed = <<>>
  /\ gone = "" /\ loose = FALSE

----------------------------------------------------------------------------
(* remote_received *)

\* The packet a byte begins: only the byte itself is looked at.
MsgLen(byte) ==
  IF byte.kind = "data" THEN PacketLen[(byte.of + byte.at) % 2] ELSE 0

\* One byte after the other, with the packets handed on as they are complete: r is what has
\* been received of the current one, done the packets before it.
AddByte(r, byte) ==
  LET pkt == Append(r.part, byte) IN
  IF MsgLen(pkt[1]) > Len(pkt) THEN [r EXCEPT !.part = pkt]
  ELSE [r EXCEPT !.part = <<>>, !.done = Append(@, pkt),
                 !.gone = IF @ = "" /\ MsgLen(pkt[1]) = 0 THEN "unknown packet" ELSE @]

Reassembled(str) == FoldLeft(AddByte, [part |-> rcvdpkt, done |-> processed, gone |-> gone], str)

\* When nothing is pending the first byte is looked at, be there one or not; it is what the
\* piece began with then, a byte of a header, of which the first two are no packet.
NoPacket(byte) == byte.kind \in {"op", "len"}

\* A packet type without a case is passed over, or the end for a client without extensions.
RemoteReceived(str) ==
  IF rcvdpkt = <<>> /\ str # <<>> /\ MsgLen(str[1]) = Len(str)
  THEN processed' = Append(processed, str) /\ UNCHANGED <<rcvdpkt, gone>>
  ELSE IF str = <<>>
  THEN /\ UNCHANGED <<rcvdpkt, processed>>
       /\ \/ rcvdpkt = <<>> /\ ~cpe_enabled /\ gone' = "unexpected packet"
          \/ (rcvdpkt = <<>> /\ NoPacket(first) => cpe_enabled) /\ UNCHANGED gone
  ELSE LET r == Reassembled(str) IN rcvdpkt' = r.part /\ processed' = r.done /\ gone' = r.gone

----------------------------------------------------------------------------
(* do_select: the read *)

\* A piece of the stream, as long as read() makes it
Read(n) ==
  /\ gone = "" /\ ~translating
  /\ first' = wire[1]
  /\ wire' = SubSeq(wire, n + 1, Len(wire))
  /\ \/ /\ websocket = 0
        /\ RemoteReceived(SubSeq(wire, 1, n))
        /\ UNCHANGED <<inbuf, translating>>
     \/ /\ websocket # 0
        /\ inbuf' = SubSeq(wire, 1, n)
        /\ translating' = TRUE
        /\ UNCHANGED received
  /\ UNCHANGED <<frames, outbuf, websocket, header, loose, cpe_enabled>>

\* What the first bytes say of the length of the header, of which l are thought to be there:
\* 8 more are reckoned for 125, where 127 would have them.
HeaderSize(buf, l) ==
  LET masked == IF l >= 2 THEN 6 ELSE 2
      long == IF l >= masked /\ buf[2].at = Longest + 1 THEN masked + 2 ELSE masked
  IN IF l >= long /\ buf[2].at = Longest THEN long + 8 ELSE long

\* As Begin below, had the place in the mask been kept.
BeginAmid(hdr, size) ==
  /\ websocket' = 3
  /\ packet_len' = IF hdr[2].at = Longest + 1
                   THEN IF hdr[4].kind = "long" THEN hdr[4].at ELSE 0
                   ELSE hdr[2].at
  /\ mask_value' = IF SubSeq(hdr, size - 3, size) = Mask(hdr[2].of) THEN hdr[2].of ELSE 0
  /\ UNCHANGED mask_id

\* The header is complete: where the frame begins, its length and its mask
Begin(hdr, size) ==
  /\ websocket' = 3
  /\ packet_len' = IF hdr[2].at = Longest + 1
                   THEN IF hdr[4].kind = "long" THEN hdr[4].at ELSE 0
                   ELSE hdr[2].at
  /\ mask_value' = IF SubSeq(hdr, size - 3, size) = Mask(hdr[2].of) THEN hdr[2].of ELSE 0
  /\ mask_id' = 0

\* case 1: a header at the front of what is left
HeaderHere ==
  /\ translating /\ websocket = 1 /\ inbuf # <<>>
  /\ LET size == HeaderSize(inbuf, Len(inbuf)) IN
     IF Len(inbuf) < size
     THEN /\ websocket_buffer' = inbuf
          /\ inbuf' = <<>>
          /\ websocket' = 2
          /\ UNCHANGED <<mask_value, mask_id, packet_len>>
     ELSE /\ websocket_buffer' = SubSeq(inbuf, 1, size)
          /\ inbuf' = SubSeq(inbuf, size + 1, Len(inbuf))
          /\ Begin(websocket_buffer', size)
  /\ UNCHANGED <<frames, wire, first, translating, outbuf, received, loose, cpe_enabled>>

\* "websocket_buffer is valid up to (l)", which is what has come with this piece
Arrived == Len(inbuf)

\* n bytes further, or back before the piece where there is nothing to be relied on
Skipped(s, n) ==
  IF n >= 0 THEN SubSeq(s, n + 1, Len(s)) ELSE [i \in 1 .. 0 - n |-> Garbage] \o s

\* case 2: the rest of a header
HeaderRest ==
  /\ translating /\ websocket = 2 /\ inbuf # <<>>
  /\ LET both == websocket_buffer \o inbuf
         size == HeaderSize(both, Arrived)
         had == Len(websocket_buffer)
     IN IF Arrived < size
        THEN /\ websocket_buffer' = both
             /\ inbuf' = <<>>
             /\ loose' = TRUE
             /\ UNCHANGED <<websocket, mask_value, mask_id, packet_len>>
        ELSE /\ websocket_buffer' = SubSeq(both, 1, size)
             /\ inbuf' = Skipped(inbuf, size - had)
             /\ Begin(websocket_buffer', size)
             /\ UNCHANGED loose
  /\ UNCHANGED <<frames, wire, first, translating, outbuf, received, cpe_enabled>>

Smaller(a, b) == IF a < b THEN a ELSE b

\* A byte comes out right if it is unmasked with the mask of its frame, at its place
Unmasked(byte, k) ==
  IF byte.kind = "data" /\ byte.of = mask_value /\ (byte.at - k) % 4 = 0 THEN byte ELSE Garbage

InFrame ==
  /\ translating /\ websocket = 3
  /\ inbuf # <<>> \/ packet_len = 0
  /\ LET n == Smaller(Len(inbuf), packet_len) IN
     /\ outbuf' = outbuf \o [i \in 1 .. n |-> Unmasked(inbuf[i], mask_id + i - 1)]
     /\ mask_id' = (mask_id + n) % 4
     /\ packet_len' = packet_len - n
     /\ inbuf' = SubSeq(inbuf, n + 1, Len(inbuf))
     /\ websocket' = IF packet_len = n THEN 1 ELSE 3
  /\ UNCHANGED <<frames, wire, first, translating, websocket_buffer, mask_value, received, loose,
                 cpe_enabled>>

\* The end of websocket_translate: the piece has been used up.
Translated ==
  /\ translating /\ inbuf = <<>>
  /\ websocket = 3 => packet_len > 0
  /\ RemoteReceived(outbuf)
  /\ translating' = FALSE /\ outbuf' = <<>>
  /\ UNCHANGED <<websocket, cpe_enabled, frames, wire, first, inbuf, header, loose>>

Next ==
  \/ \E n \in 1 .. Len(wire) : Read(n)
  \/ HeaderHere \/ HeaderRest \/ InFrame \/ Translated

Spec == Init /\ [][Next]_vars

----------------------------------------------------------------------------
(* Properties *)

TypeOK ==
  /\ websocket \in 0 .. 3 /\ packet_len \in 0 .. MaxPayload /\ mask_id \in 0 .. 3
  /\ mask_value \in 0 .. MaxFrames
  /\ gone \in {"", "unknown packet", "unexpected packet"}
  /\ rcvdpkt # <<>> => Len(rcvdpkt) < MsgLen(rcvdpkt[1])

\* A frame as long as the last length of one byte is misunderstood, and so is a header
\* whose rest arrives in pieces shorter than a header.
Understood == ~loose /\ (websocket = 0 \/ \A f \in 1 .. Len(frames) : frames[f] # Longest)

\* However the stream is cut into reads and frames, the packets handed to
\* process_client_message are those the client sent, whole and in order; when all has been
\* read nothing is missing; and nobody is put off, but for a client without extensions
\* of whose frames a header arrives on its own (requestloop.c:263).
PacketsAsSent ==
  Understood =>
    LET got == FlattenSeq(processed) \o rcvdpkt IN
    /\ IsPrefix(got, Sent(frames))
    /\ \A i \in 1 .. Len(processed) : Len(processed[i]) = MsgLen(processed[i][1])
    /\ wire = <<>> /\ ~translating => got = Sent(frames)
    /\ websocket = 0 \/ cpe_enabled => gone = ""
=============================================================================

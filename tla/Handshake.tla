----------------------------- MODULE Handshake ------------------------------
(***************************************************************************)
(* From the first packet of a client to the completed connection: login,   *)
(* the exchange of extensions (cpe_login.c), and complete_connection, which*)
(* must happen once, with the packet lengths settled.                      *)
(***************************************************************************)
EXTENDS Wire

CONSTANTS
  ClientExt,   \* the extensions a client may name; "unknown" stands for those we lack
  Disabled,    \* ours that are listed as disabled: never enabled, never advertised
  MaxCount,    \* the most entries a client advertises
  MaxLate      \* a bound on what it sends beyond those and unasked, for TLC

\* What the proofs need of them
HandshakeConstants == MaxCount \in Nat /\ MaxLate \in Nat

NoLate == {"extentityposn", "extendtexno", "extendblockno", "fastmap"}

VARIABLES
  phase,                \* "login", "cpe" (cpe_pending), "in" or "gone"
  protocol, cpe_requested,
  enabled,              \* extensions[].enabled: those we have had
  exts,                 \* those whose flags are set
  cpe_pending,          \* 0, or bits 1 and 2 of the exchange
  cpe_extn_remaining,
  customblock_pkt_sent,
  msglen,
  completed,            \* how often complete_connection has run
  toSend, late,         \* client: entries of its list still to be sent; packets beyond or unasked
  owes,                 \* client: CUSTBLOCK it has to answer
  repeated,             \* history: the last of the list was one we had had before
  early                 \* history: it answered CUSTBLOCK before its list had ended

handshakeVars == <<phase, protocol, cpe_requested, enabled, exts, cpe_pending, cpe_extn_remaining,
          customblock_pkt_sent, msglen, completed, toSend, late, owes, repeated, early>>
login == <<protocol, cpe_requested>>
flags == <<enabled, exts>>
client == <<toSend, late, owes, repeated, early>>

HandshakeTypeOK ==
  /\ phase \in {"login", "cpe", "in", "gone"}
  /\ protocol \in 3 .. 7 /\ cpe_requested \in BOOLEAN
  /\ exts \subseteq enabled /\ enabled \subseteq ClientExt \ Disabled
  /\ cpe_pending \in 0 .. 3 /\ cpe_extn_remaining \in -1 .. MaxCount
  /\ customblock_pkt_sent \in BOOLEAN /\ repeated \in BOOLEAN /\ early \in BOOLEAN
  /\ DOMAIN msglen = DOMAIN BaseLength
  /\ completed \in Nat /\ toSend \in -1 .. MaxCount /\ late \in 0 .. MaxLate
  /\ owes \in 0 .. 1

HandshakeInit ==
  /\ phase = "login"
  /\ protocol = 7 /\ cpe_requested = FALSE
  /\ enabled = {} /\ exts = {} /\ cpe_pending = 0 /\ cpe_extn_remaining = 0
  /\ customblock_pkt_sent = FALSE
  /\ msglen = BaseLength
  /\ completed = 0 /\ toSend = -1 /\ late = 0 /\ owes = 0
  /\ repeated = FALSE /\ early = FALSE

----------------------------------------------------------------------------
(* login *)

\* login_peek_packet asks for a byte less of the protocols before 6, which have no user
\* type, and sends away those it does not know, 3 among them.
PeekPacket(p, table) == [table EXCEPT !.ident = IF p < 6 THEN @ - 1 ELSE @]

\* process_connection: who is banned, or no admin where only they are let in, goes too.
Welcome(p, cpe, disabled) ==
  /\ phase' = IF cpe /\ ~disabled THEN "cpe" ELSE "in"
  /\ cpe_pending' = IF cpe /\ ~disabled THEN 1 ELSE 0
  /\ completed' = IF cpe /\ ~disabled THEN 0 ELSE 1
  /\ protocol' = p /\ cpe_requested' = cpe
  /\ msglen' = PeekPacket(p, msglen)

Login(p, cpe, disabled) ==
  /\ phase = "login"
  /\ cpe => p = 7
  /\ p # 3
  /\ Welcome(p, cpe, disabled)
  /\ UNCHANGED <<flags, cpe_extn_remaining, customblock_pkt_sent, client>>

Rejected ==
  /\ phase = "login"
  /\ phase' = "gone"
  /\ UNCHANGED <<login, flags, cpe_pending, cpe_extn_remaining, customblock_pkt_sent, msglen,
                 completed, client>>

----------------------------------------------------------------------------
(* The exchange of extensions *)

\* complete_connection, with pending as cpe_pending and e as the extensions by now
Complete(e, pending) ==
  IF pending # 3
  THEN cpe_pending' = pending /\ UNCHANGED <<phase, completed>>
  ELSE IF "evilbastard" \in e
  THEN cpe_pending' = pending /\ phase' = "gone" /\ UNCHANGED completed
  ELSE cpe_pending' = 0 /\ phase' = "in" /\ completed' = completed + 1

\* As Finished below, had the test of the answer been left to the answer.
FinishedAlone(e, remaining) ==
  IF remaining <= 0 /\ cpe_pending # 0 THEN 3 ELSE cpe_pending

\* The list is complete; without custom blocks there is no answer to wait for.
Finished(e, remaining) ==
  IF remaining <= 0 /\ cpe_pending # 0
  THEN IF "customblocks" \in e /\ cpe_pending < 2 THEN 1 ELSE 3
  ELSE cpe_pending

\* Wide block numbers rule out the old packets for the look of a map.
Settled(e, remaining) ==
  IF remaining = 0 /\ "extendblockno" \in e THEN e \ {"envmapappearance2"} ELSE e

\* process_extentry after the search of the list: e are the flags set by now
Continue(e, remaining) ==
  /\ exts' = Settled(e, remaining)
  /\ customblock_pkt_sent' = (customblock_pkt_sent \/ "customblocks" \in e)
  /\ owes' = IF ~customblock_pkt_sent /\ "customblocks" \in e THEN 1 ELSE owes
  /\ msglen' = Adjusted(Settled(e, remaining), msglen)
  /\ Complete(e, Finished(e, remaining))

\* An advertised number that is not positive is completed at once.  Who is in without a list
\* has answered what nobody asked; the number does not count then.
ExtInfo(count) ==
  /\ toSend = -1 /\ (phase = "cpe" \/ (phase = "in" /\ late > 0))
  /\ toSend' = IF count > 0 THEN count ELSE 0
  /\ cpe_extn_remaining' = IF cpe_pending = 0 THEN 0 ELSE count
  /\ IF cpe_pending # 0 /\ count <= 0 THEN Continue(exts, count)
     ELSE UNCHANGED <<phase, exts, cpe_pending, customblock_pkt_sent, msglen, completed, owes>>
  /\ UNCHANGED <<login, enabled, late, repeated, early>>

\* As Less below, had the number been counted down whatever it is.
LessAlways(n) == n - 1

Less(n) == IF n > 0 THEN n - 1 ELSE n

Enabled(x) == {x} \ (Disabled \cup {"unknown"})

TooLate(x) == x \in NoLate /\ cpe_pending = 0

\* process_extentry: one we have had already is passed over, with all that follows
ExtEntry(x) ==
  /\ phase \in {"cpe", "in"} /\ cpe_requested
  /\ IF toSend > 0 THEN toSend' = toSend - 1 /\ UNCHANGED late
                   ELSE toSend = 0 /\ late < MaxLate /\ late' = late + 1 /\ UNCHANGED toSend
  /\ cpe_extn_remaining' = Less(cpe_extn_remaining)
  /\ repeated' = (x \in enabled)
  /\ enabled' = IF TooLate(x) THEN enabled ELSE enabled \cup Enabled(x)
  /\ \/ /\ x \in enabled
        /\ UNCHANGED <<phase, exts, cpe_pending, customblock_pkt_sent, msglen, completed, owes>>
     \/ /\ x \notin enabled /\ TooLate(x)
        /\ phase' = "gone"
        /\ UNCHANGED <<exts, cpe_pending, customblock_pkt_sent, msglen, completed, owes>>
     \/ /\ x \notin enabled /\ ~TooLate(x)
        /\ Continue(exts \cup Enabled(x), Less(cpe_extn_remaining))
  /\ UNCHANGED <<login, early>>

WithAnswer(pending) == IF pending < 2 THEN pending + 2 ELSE pending

\* The answer: it is asked for in the middle of the list, and may come there, or unasked.
CustBlock ==
  /\ phase = "cpe" \/ (phase = "in" /\ cpe_requested /\ (toSend # -1 \/ late > 0))
  /\ \/ owes > 0 /\ owes' = owes - 1 /\ early' = (early \/ toSend > 0) /\ UNCHANGED late
     \/ owes = 0 /\ late < MaxLate /\ late' = late + 1 /\ UNCHANGED <<owes, early>>
  /\ Complete(exts, WithAnswer(cpe_pending))
  /\ UNCHANGED <<login, flags, cpe_extn_remaining, customblock_pkt_sent, msglen, toSend, repeated>>

\* on_select_timeout: a minute without an end of it
PendingTimeout ==
  /\ phase \in {"cpe", "in"} /\ cpe_pending # 0
  /\ phase' = "gone"
  /\ UNCHANGED <<login, flags, cpe_pending, cpe_extn_remaining, customblock_pkt_sent, msglen,
                 completed, client>>

HandshakeNext ==
  \/ \E p \in 3 .. 7, cpe, disabled \in BOOLEAN : Login(p, cpe, disabled)
  \/ Rejected
  \/ \E count \in -1 .. MaxCount : ExtInfo(count)
  \/ \E x \in ClientExt : ExtEntry(x)
  \/ CustBlock \/ PendingTimeout

HandshakeSpec == HandshakeInit /\ [][HandshakeNext]_handshakeVars

----------------------------------------------------------------------------
(* Properties *)

\* Packets that go both ways with two lengths, that had been given up with wide block
\* numbers, or that the table leaves out.
OneWay(e) ==
  {"mapappear"} \cup (IF "extendblockno" \in e THEN {"posn", "blockperm"} ELSE {})

\* "Message packet sizes, send and receive use the same list" (packet.c:126): once the
\* connection is complete every send function writes as many bytes as the table says,
\* whatever was negotiated and in whatever order.
SendsWhatIsListed ==
  phase = "in" =>
    \A k \in DOMAIN SentLength(exts, protocol) \ OneWay(exts) :
      SentLength(exts, protocol)[k] = msglen[k]

\* Where the stream is cut, by msglen, is where process_client_message stops to read, and
\* this is so from the list's first entry on: one wrong length and nothing after it is
\* understood.  Wide block numbers without HeldBlock are left out: the position is then
\* taken for a byte longer than it is read.
ReadsWhatIsCut ==
  "extendblockno" \notin exts \/ "heldblock" \in exts =>
    \A k \in DOMAIN ReadLength(exts) : ReadLength(exts)[k] = msglen[k]

\* A client that has sent all it advertised, and answered, is let in and only then, and only
\* once, and stays.  But an answer in the middle of the list (early) lets it in at once, and
\* what follows in the list may then be too late and send it away; and a list that ends with
\* an entry it had sent before is passed over together with its end (repeated).  Nothing is
\* said of clients that send more than they advertised or answer unasked (late).
CompletedInTheEnd ==
  late = 0 =>
    /\ completed <= 1
    /\ phase = "in" => completed = 1
    /\ completed = 1 /\ ~early => phase = "in"
    /\ completed = 1 /\ cpe_requested /\ toSend # -1 => owes = 0 /\ (toSend = 0 \/ early)
    /\ toSend = 0 /\ owes = 0 /\ ~repeated => phase # "cpe"

----------------------------------------------------------------------------
(* What is needed to prove them: HandshakeIInv is inductive *)

\* The table has the lengths that go with what is enabled, in whatever order that came.
TableInv == msglen = Adjusted(exts, PeekPacket(protocol, BaseLength))

\* CustomBlocks, once enabled, has been sent for an answer, and stays enabled.
CustomBlocksInv == customblock_pkt_sent <=> "customblocks" \in exts

LoginInv ==
  phase = "login" =>
    /\ exts = {} /\ msglen = BaseLength /\ cpe_pending = 0 /\ cpe_extn_remaining = 0
    /\ completed = 0 /\ toSend = -1 /\ owes = 0

\* The exchange is on: either the list is not at its end, as both sides count it, or the
\* answer is awaited, or the end was passed over.
ExchangeInv ==
  phase = "cpe" =>
    /\ completed = 0 /\ cpe_pending = 1 /\ ~early
    /\ owes = IF customblock_pkt_sent THEN 1 ELSE 0
    /\ toSend = -1 => exts = {}
    /\ toSend > 0 => cpe_extn_remaining = toSend
    /\ toSend = 0 => cpe_extn_remaining <= 0 /\ (repeated \/ owes = 1)

\* Let in: only an answer that was late or unasked can make the exchange pending again.
InInv ==
  phase = "in" =>
    /\ completed >= 1 /\ cpe_pending \in {0, 2}
    /\ late = 0 => /\ completed = 1 /\ cpe_pending = 0 /\ owes = 0
                   /\ toSend <= 0 \/ early

\* Who has answered early or has still to answer has been asked.
AskedInv == early \/ owes = 1 => customblock_pkt_sent

\* Who was let in and is gone answered early.
GoneInv ==
  phase = "gone" /\ late = 0 => completed <= 1 /\ (completed = 1 => early /\ owes = 0)

HandshakeIInv ==
  /\ HandshakeTypeOK /\ TableInv /\ CustomBlocksInv
  /\ LoginInv /\ ExchangeInv /\ InInv /\ AskedInv /\ GoneInv
=============================================================================

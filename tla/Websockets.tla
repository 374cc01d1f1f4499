-------------------------------- MODULE Websockets --------------------------------
(***************************************************************************)
(* A connection of the WebSocket server of the peer chat (websocketify()   *)
(* and make_frame() of src/apps/peer_chat/websocketify.js): the bytes of a *)
(* client arrive in chunks, which are anywhere in a frame, and what the    *)
(* server sends and its pongs are written frame by frame.                  *)
(*                                                                         *)
(* The format of a frame is scaled: a byte of a length or a payload is     *)
(* less than Base, a payload shorter than Short has no extended length,    *)
(* and the wider of the two extended lengths has WideBytes bytes.  The     *)
(* bits of a byte of payload are one bit.                                  *)
(***************************************************************************)
EXTENDS Integers, Sequences, SequencesExt, TLC

CONSTANTS
    Short, Base, WideBytes, MaskLength, \* the format: 126, 256, 8 and 4 in the code
    Uploads,            \* what clients send: sequences of frames
    Downloads,          \* payloads of messages the server sends
    MaxWrites           \* bound on what is written to the socket

VARIABLES
    upload,             \* the frames this client sends
    wire,               \* their bytes that have not arrived
    connection,         \* buffer, payload_fragment (in a sequence, which is empty
                        \* while it is undefined), textual of the handler, and
                        \* what it has done: received messages, written bytes
    sentMessages,       \* history: what was to be written
    socket,             \* "open", "destroyed", "closed", or "crashed" with the server
    closeReason, closes \* the reason on_close() is given, and its calls

websocket == <<upload, wire, connection, sentMessages, socket, closeReason, closes>>

ASSUME FormatAssumption ==
    /\ Short \in 1..126 /\ Base \in 2..256 /\ WideBytes \in {2, 4, 6, 8} /\ MaskLength \in 1..4

-----------------------------------------------------------------------------
(* Frames.  An integer of n bytes has its most significant byte first.     *)
BigEndian(k, n) == [i \in 1..n |-> (k \div Base ^ (n - i)) % Base]
FromBigEndian(bytes) == FoldLeft(LAMBDA k, byte : k * Base + byte, 0, bytes)

LengthBytes(n) ==
    CASE n < Short -> <<n>>
      [] n >= Short /\ n < Base ^ 2 -> <<126>> \o BigEndian(n, 2)
      [] OTHER -> <<127>> \o BigEndian(n \div Base ^ (WideBytes \div 2), WideBytes \div 2)
                         \o BigEndian(n % Base ^ (WideBytes \div 2), WideBytes \div 2)
MakeFrame(opcode, payload) == <<128 + opcode>> \o LengthBytes(Len(payload)) \o payload

TextFrame == 1
BinaryFrame == 2
Continuation == 0
Ping == 9
Pong == 10
Xor(a, b) == (a + b) % 2
Unmask(mask, bytes) == [i \in DOMAIN bytes |-> Xor(bytes[i], mask[1 + ((i - 1) % MaskLength)])]

(* What the buffer begins with: where the mask is, how long the payload.   *)
LengthField(b) == b[2] % 128
MaskStart(b) ==
    CASE LengthField(b) = 126 -> 4
      [] LengthField(b) > 126 -> 2 + WideBytes
      [] OTHER -> 2
PayloadLength(b) == IF LengthField(b) < 126 THEN LengthField(b) ELSE FromBigEndian(SubSeq(b, 3, MaskStart(b)))
PayloadStart(b) == MaskStart(b) + MaskLength
FrameComplete(b) ==
    /\ Len(b) >= 2 /\ Len(b) >= MaskStart(b)
    /\ Len(b) - MaskStart(b) >= MaskLength + PayloadLength(b)

-----------------------------------------------------------------------------
(* A whole frame is taken out of the buffer and handled.  The continuation *)
(* of what was never begun throws (in Buffer.concat), and nothing of the   *)
(* server catches that.                                                    *)
Received(c, textual, payload) == [c EXCEPT !.received = Append(@, <<textual, payload>>)]
OnFrame(c, fin, opcode, payload) ==
    CASE opcode \in {TextFrame, BinaryFrame} ->
            LET t == [c EXCEPT !.textual = (opcode = TextFrame)] IN
            IF fin THEN Received(t, opcode = TextFrame, payload) ELSE [t EXCEPT !.fragment = <<payload>>]
      [] opcode = Continuation /\ c.fragment = <<>> -> [c EXCEPT !.thrown = TRUE]
      [] opcode = Continuation /\ c.fragment # <<>> ->
            LET whole == c.fragment[1] \o payload
                t == [c EXCEPT !.fragment = <<whole>>]
            IN  IF fin THEN Received(t, c.textual, whole) ELSE t
      [] opcode = Ping ->
            IF c.destroyed THEN c
            ELSE [c EXCEPT !.written = @ \o MakeFrame(Pong, payload), !.pongs = Append(@, payload)]
      [] OTHER -> [c EXCEPT !.destroyed = TRUE]
TakeFrame(c) ==
    LET b == c.buffer
        last == PayloadStart(b) + PayloadLength(b)
    IN  OnFrame([c EXCEPT !.buffer = SubSeq(b, last + 1, Len(b))],
                b[1] >= 128, b[1] % 16,
                Unmask(SubSeq(b, MaskStart(b) + 1, PayloadStart(b)), SubSeq(b, PayloadStart(b) + 1, last)))
RECURSIVE ConsumeBuffer(_)
ConsumeBuffer(c) == IF FrameComplete(c.buffer) /\ ~ c.thrown THEN ConsumeBuffer(TakeFrame(c)) ELSE c

-----------------------------------------------------------------------------
(* A chunk of the next n bytes arrives.                                    *)
OnData ==
    /\ socket = "open"
    /\ \E n \in DOMAIN wire :
          /\ wire' = SubSeq(wire, n + 1, Len(wire))
          /\ \E c \in {ConsumeBuffer([connection EXCEPT !.buffer = @ \o SubSeq(wire, 1, n), !.pongs = <<>>])} :
                /\ connection' = c
                /\ sentMessages' = sentMessages \o [i \in DOMAIN c.pongs |-> <<Pong, c.pongs[i]>>]
                /\ socket' = CASE c.thrown -> "crashed"
                               [] c.destroyed /\ ~ c.thrown -> "destroyed"
                               [] OTHER -> socket
    /\ UNCHANGED <<upload, closeReason, closes>>

(* connection.send(): nothing goes out after the socket was destroyed.     *)
WsSend ==
    /\ Len(sentMessages) < MaxWrites
    /\ \E opcode \in {TextFrame, BinaryFrame}, payload \in Downloads :
          /\ socket = "open"
          /\ connection' = [connection EXCEPT !.written = @ \o MakeFrame(opcode, payload)]
          /\ sentMessages' = Append(sentMessages, <<opcode, payload>>)
    /\ UNCHANGED <<upload, wire, socket, closeReason, closes>>
WsClose ==
    /\ socket = "open" /\ socket' = "destroyed"
    /\ connection' = [connection EXCEPT !.destroyed = TRUE]
    /\ UNCHANGED <<upload, wire, sentMessages, closeReason, closes>>

(* The connection is lost: "close" follows "error".                        *)
OnError ==
    /\ socket = "open" /\ socket' = "destroyed" /\ closeReason' = "error"
    /\ connection' = [connection EXCEPT !.destroyed = TRUE]
    /\ UNCHANGED <<upload, wire, sentMessages, closes>>
OnClose ==
    /\ socket = "destroyed" /\ socket' = "closed"
    /\ closes' = Append(closes, closeReason)
    /\ UNCHANGED <<upload, wire, connection, sentMessages, closeReason>>

FrameBytes(f) ==
    LET header == MakeFrame(f.opcode, f.payload)
        n == Len(header) - Len(f.payload)
    IN  <<IF f.fin THEN header[1] ELSE f.opcode, 128 + header[2]>> \o SubSeq(header, 3, n)
        \o f.mask \o Unmask(f.mask, f.payload)
InitWebsocket ==
    /\ upload \in Uploads
    /\ wire = FlattenSeq([i \in DOMAIN upload |-> FrameBytes(upload[i])])
    /\ connection = [buffer |-> <<>>, fragment |-> <<>>, textual |-> FALSE, received |-> <<>>,
                     written |-> <<>>, pongs |-> <<>>, destroyed |-> FALSE, thrown |-> FALSE]
    /\ sentMessages = <<>> /\ socket = "open" /\ closeReason = "none" /\ closes = <<>>
NextWebsocket == OnData \/ WsSend \/ WsClose \/ OnError \/ OnClose
=============================================================================

------------------------------ MODULE WebSocket ------------------------------
(***************************************************************************)
(* One socket of the broker from the first byte on: the event loop reads   *)
(* what has arrived and decodes it piece by piece (WebsocketFrameCodec in  *)
(* broker/websocket.go), the handshake is checked line by line             *)
(* (repo/ws/server.go) and the frames that follow are handled              *)
(* (salmonFrameConn.onReactAfterUpgrade, repo/ws/wsutil/handler.go).       *)
(* The request is any request: its lines are chosen as the loop of Upgrade *)
(* comes to them. The peer sends frames of a given set and TCP cuts the    *)
(* bytes as it likes.                                                      *)
(*                                                                         *)
(* A definition that stands right before another and is used nowhere is a  *)
(* faulty variant of it, for testing that a property notices the fault.    *)
(***************************************************************************)
EXTENDS Frames, FiniteSets

CONSTANTS
    PeerFrames,     \* frames the peer may send, with the form of their length
    Pipelined,      \* those it may send before the answer to its request
    MaxFrames,      \* bound: frames sent
    HeadLen         \* bytes of the request, the blank line included

ASSUME ConstantsAssumption ==
    /\ MaxFrames \in Nat /\ HeadLen \in Nat \ {0}
    /\ Pipelined \subseteq PeerFrames

\* What the fields of a frame can hold.
ASSUME FramesAssumption ==
    \A f \in PeerFrames :
        /\ f.op \in 0..15 /\ f.rsv \in 0..7 /\ f.payload \in Seq(0..255)
        /\ f.fin \in BOOLEAN /\ f.masked \in BOOLEAN /\ f.bad \in BOOLEAN
        /\ f.ext \in {0, 2, 8} /\ Len(f.payload) < Huge
        /\ (f.ext = 0 => Len(f.payload) <= Len7) /\ (f.ext = 2 => Len(f.payload) <= Len16)
        /\ f.bad => f.ext = 8

VARIABLES
    phase,          \* "http", "line", "headers", "reply", "open", "closed"
    seen, lines,    \* headerSeen; all lines read so far
    err,            \* err of Upgrade
    todo,           \* bytes on their way
    buf, reading,   \* inbound buffer; whether the loop goes on reading it
    sent,           \* frames the peer has sent
    handled,        \* what the frames became, in the order they were handled
    async,          \* frames given to AsyncWrite, written by a later task of the loop
    out             \* what the loop has written to the socket

http  == <<seen, lines, err>>
bytes == <<todo, buf, reading>>
vars  == <<phase, http, bytes, sent, handled, async, out>>

Required == {"Host", "Upgrade", "Connection", "SecVersion", "SecKey"}

\* A header line: its key, and whether the value is the one asked for. Host
\* and other keys have no check: no option of DefaultUpgrader is set. A line
\* without a colon cannot be parsed.
Checked == Required \ {"Host"}
HeaderLines == [key : Checked, good : BOOLEAN] \cup [key : {"Host", "other"}, good : {TRUE}]
                                              \cup [key : {"no colon"}, good : {FALSE}]

Init ==
    /\ phase = "http"
    /\ seen = {} /\ lines = {} /\ err = 0
    /\ todo = [i \in 1..HeadLen |-> 0] /\ buf = <<>> /\ reading = FALSE
    /\ sent = <<>> /\ handled = <<>> /\ async = <<>> /\ out = <<>>

(***************************************************************************)
(* The peer and the network                                                *)
(***************************************************************************)
Mask == <<1, 2, 3, 4>>

\* The frame as RFC 6455 lays it out: byte i of the payload is masked with
\* byte i modulo 4 of the mask. bad sets the highest bit of a 64 bit length.
PeerBytes(f) ==
    LET head == HeaderBytes([fin |-> f.fin, rsv |-> f.rsv, op |-> f.op, masked |-> f.masked,
                             length |-> Len(f.payload)], f.ext, Mask)
    IN
    (IF f.bad THEN [head EXCEPT ![3] = 128] ELSE head)
    \o [i \in 1..Len(f.payload) |->
            IF f.masked THEN Xor(f.payload[i], Mask[1 + ((i - 1) % 4)]) ELSE f.payload[i]]

PeerSends(f) ==
    /\ phase = "open" \/ (phase = "http" /\ f \in Pipelined)
    /\ Len(sent) < MaxFrames
    /\ sent' = Append(sent, f)
    /\ todo' = todo \o PeerBytes(f)
    /\ UNCHANGED <<phase, http, buf, reading, handled, async, out>>

\* gnet reads the socket once its callbacks have dealt with the last read.
Arrive(n) ==
    /\ phase # "closed" /\ ~reading
    /\ n \in 1..Len(todo)
    /\ buf' = buf \o SubSeq(todo, 1, n)
    /\ todo' = SubSeq(todo, n + 1, Len(todo))
    /\ reading' = TRUE
    /\ UNCHANGED <<phase, http, sent, handled, async, out>>

\* gnet: the first n bytes go; with n <= 0 the whole buffer goes.
ShiftN(n) == buf' = IF n <= 0 THEN <<>> ELSE SubSeq(buf, n + 1, Len(buf))

StopReading == reading' = FALSE /\ UNCHANGED buf

(***************************************************************************)
(* The handshake                                                           *)
(***************************************************************************)
\* TakeUpgradeHTTPHeader finds the blank line that ends the request.
HeadComplete == Len(buf) >= HeadLen

\* Decode before the upgrade: wait for the whole request.
DecodeRequest ==
    /\ phase = "http" /\ reading
    /\ \/ ~HeadComplete /\ StopReading /\ UNCHANGED phase
       \/ HeadComplete /\ ShiftN(HeadLen) /\ phase' = "line" /\ UNCHANGED reading
    /\ UNCHANGED <<http, todo, sent, handled, async, out>>

\* The request line by what it is parsed to: no HTTP version at its end, one
\* below 1.1, another method than GET, or right.
RequestLines == {"malformed", "version", "method", "right"}

LineErr(l) == CASE l = "version" -> 505 [] l = "method" -> 405 [] OTHER -> 0

\* A malformed line closes the socket without an answer. The token of the URI
\* is checked (Broker) before the rest of the request is.
RequestLine(l) ==
    /\ phase = "line"
    /\ phase' = IF l = "malformed" THEN "closed" ELSE IF LineErr(l) # 0 THEN "reply" ELSE "headers"
    /\ err' = LineErr(l)
    /\ UNCHANGED <<seen, lines, bytes, sent, handled, async, out>>

\* The status that a bad value is answered with; 426 only for the version.
BadLine(l) == IF l.key = "SecVersion" THEN 426 ELSE 400

HeaderLineForgives(l) ==
    /\ phase = "headers"
    /\ lines' = lines \cup {l}
    /\ seen' = seen \cup ({l.key} \cap Required)
    /\ err' = IF l.good \/ l.key = "SecKey" THEN 0 ELSE BadLine(l)
    /\ phase' = IF l.good \/ l.key = "SecKey" THEN "headers" ELSE "reply"
    /\ UNCHANGED <<bytes, sent, handled, async, out>>
\* One turn of the loop over the lines; an error ends it.
HeaderLine(l) ==
    /\ phase = "headers"
    /\ lines' = lines \cup {l}
    /\ seen' = seen \cup ({l.key} \cap Required)
    /\ err' = IF l.good THEN 0 ELSE BadLine(l)
    /\ phase' = IF l.good THEN "headers" ELSE "reply"
    /\ UNCHANGED <<bytes, sent, handled, async, out>>

HeadersEndPlainError ==
    /\ phase = "headers"
    /\ phase' = "reply"
    /\ err' = IF seen = Required THEN 0 ELSE 500
    /\ UNCHANGED <<seen, lines, bytes, sent, handled, async, out>>
\* No more lines: what was not seen is an error.
HeadersEnd ==
    /\ phase = "headers"
    /\ phase' = "reply"
    /\ err' = IF seen = Required THEN 0 ELSE 400
    /\ UNCHANGED <<seen, lines, bytes, sent, handled, async, out>>

\* What stands on the socket: a response with its status, or the bytes of a frame.
Response == <<"status", IF err = 0 THEN 101 ELSE err>>

\* The answer is written; after an error gnet closes the socket.
UpgradeReply ==
    /\ phase = "reply"
    /\ phase' = IF err = 0 THEN "open" ELSE "closed"
    /\ out' = Append(out, Response)
    /\ seen' = {} /\ lines' = {} /\ err' = 0
    /\ UNCHANGED <<bytes, sent, handled, async>>

(***************************************************************************)
(* Frames                                                                  *)
(***************************************************************************)
\* WriteFrame: the bytes of a frame, header and payload.
Written(op, p) == <<"frame", CompileFrame(NewFrame(op, p))>>

NothingToDo == [err |-> FALSE, written |-> <<>>]

\* HandleControlMessage: what it writes and whether it returns an error.
HandlePingHeaderOnly(p) == [err |-> FALSE, written |-> <<Written(OpPong, <<>>)>>]
HandlePing(p) == [err |-> FALSE, written |-> <<Written(OpPong, p)>>]
HandlePong(p) == NothingToDo
HandleClose(p) ==
    LET code == ParseCloseFrameData(p)
        reply == IF CheckCloseFrameData(code, SubSeq(p, 3, Len(p))) THEN SubSeq(p, 1, 2)
                 ELSE PutBigEndian(StatusProtocolError, 2)
    IN [err |-> TRUE, written |-> <<Written(OpClose, reply)>>]

HandleControlMessage(m) ==
    CASE m.op = OpPing -> HandlePing(m.payload)
      [] m.op = OpPong -> HandlePong(m.payload)
      [] m.op = OpClose -> HandleClose(m.payload)

\* Conn.onPing: Conn.Pong hands a ping frame with the payload to AsyncWrite. The
\* frame is built by github.com/gobwas/ws (conn.go:10), of which repo/ws is a
\* copy.
OnPing(p) == <<Written(OpPing, p)>>

\* onReactAfterUpgrade: action and output. With an error nothing is written,
\* also not the answer to a close frame.
OnReactAfterUpgrade(m) ==
    IF m = ReadError THEN [close |-> TRUE, out |-> <<>>, async |-> <<>>]
    ELSE LET r == IF IsControl(m.op) THEN HandleControlMessage(m) ELSE NothingToDo IN
         [close |-> r.err,
          out   |-> IF r.err THEN <<>> ELSE r.written,
          async |-> IF m.op = OpPing THEN OnPing(m.payload) ELSE <<>>]

\* Decode after the upgrade, and React with the frame it returns. gnet goes on
\* decoding until Decode returns no frame or the action is to close.
DecodeFrame ==
    /\ phase = "open" /\ reading
    /\ LET r == ReadFrameFromBytes(buf) IN
       \/ /\ r.err = NeedMoreData
          /\ StopReading
          /\ UNCHANGED <<phase, handled, async, out>>
       \/ /\ r.err = HeaderLengthMSB
          /\ phase' = "closed"
          /\ StopReading
          /\ UNCHANGED <<handled, async, out>>
       \/ /\ r.err = NoError /\ r.frame = <<>>
          /\ ShiftN(r.readoffset)
          /\ reading' = FALSE
          /\ UNCHANGED <<phase, handled, async, out>>
       \/ /\ r.err = NoError /\ r.frame # <<>>
          /\ LET m == ReadClientMessage(r.frame)
                 react == OnReactAfterUpgrade(m)
             IN  /\ handled' = Append(handled, m)
                 /\ out' = out \o react.out
                 /\ async' = async \o react.async
                 /\ phase' = IF react.close THEN "closed" ELSE "open"
                 /\ reading' = ~react.close
          /\ ShiftN(r.readoffset)
    /\ UNCHANGED <<http, todo, sent>>

\* Tasks of the loop run between its events; on a closed socket they do nothing.
AsyncWrite ==
    /\ async # <<>> /\ ~reading
    /\ out' = IF phase = "closed" THEN out ELSE Append(out, Head(async))
    /\ async' = Tail(async)
    /\ UNCHANGED <<phase, http, bytes, sent, handled>>

-----------------------------------------------------------------------------
Handshake ==
    \/ DecodeRequest
    \/ \E l \in RequestLines : RequestLine(l)
    \/ HeadersEnd \/ UpgradeReply

Next ==
    \/ \E f \in PeerFrames : PeerSends(f)
    \/ \E n \in 1..Len(todo) : Arrive(n)
    \/ Handshake
    \/ \E l \in HeaderLines : HeaderLine(l)
    \/ DecodeFrame
    \/ AsyncWrite

Spec == Init /\ [][Next]_vars

(***************************************************************************)
(* Properties                                                              *)
(***************************************************************************)
\* What RFC 6455 lets a client send to a server without extensions, as far as
\* this server takes it (no fragments).
Lawful(f) ==
    /\ f.op \in {OpText, OpBinary, OpClose, OpPing, OpPong}
    /\ f.fin /\ f.rsv = 0 /\ f.masked /\ ~f.bad
    /\ f.op \in {OpClose, OpPing, OpPong} => Len(f.payload) < 126
    /\ f.op = OpText => WellFormed(f.payload)

Expected(f) == IF Lawful(f) THEN [op |-> f.op, payload |-> f.payload] ELSE ReadError
AnyEmpty == \E i \in DOMAIN sent : sent[i].payload = <<>>

\* Type invariant. The buffer holds bytes, and a closed socket is not read.
TypeOK ==
    /\ phase \in {"http", "line", "headers", "reply", "open", "closed"}
    /\ seen \subseteq Required /\ lines \subseteq HeaderLines
    /\ err \in {0, 400, 405, 426, 505}
    /\ todo \in Seq(0..255) /\ buf \in Seq(0..255)
    /\ reading \in BOOLEAN
    /\ sent \in Seq(PeerFrames)
    /\ phase = "closed" /\ handled # <<>> => ~reading

\* The upgrade is granted exactly to the requests that have the five headers,
\* each with the right value wherever it stands and however often (server.go:
\* 419-424, 459-578), and a line that cannot be parsed is never passed over.
HandshakeExact ==
    (phase = "reply" /\ err \notin {405, 505}) =>
        ((err = 0) <=> /\ Required = {l.key : l \in lines} \ {"other"}
                       /\ \A l \in lines : l.good)

\* However TCP cuts the bytes, also when frames come with the request, what
\* is handled is what was sent, frame by frame, and nothing is handled after
\* a frame the protocol forbids or a close frame, unless a frame without
\* payload was among them (read.go:95-125, websocket.go:189-225, 302-349).
FramesInOrder ==
    ~AnyEmpty =>
        /\ Len(handled) <= Len(sent)
        /\ \A i \in DOMAIN handled : handled[i] = Expected(sent[i])
        /\ \A i \in DOMAIN handled :
             (handled[i] = ReadError \/ handled[i].op = OpClose) => (i = Len(handled) /\ phase = "closed")

\* Where the pings are in what was handled, and the pongs in what was written.
PingAt == {i \in DOMAIN handled : handled[i].op = OpPing}
PongAt == {i \in DOMAIN out : out[i][1] = "frame" /\ out[i][2][1] % 16 = OpPong}

\* What a peer reads from the bytes of an unmasked frame.
AsRead(bts) ==
    LET r == ReadHeaderFromBytes(bts)
        from == IF r.offset = 0 THEN 2 ELSE r.offset
    IN  [op |-> r.h.op, length |-> r.length, payload |-> SubSeq(bts, from + 1, Len(bts))]

\* The peer can read the answers: the status of the handshake comes first, there
\* are as many pongs as pings, and the bytes of the n-th pong give back a pong
\* with the payload of the n-th ping (write.go:48-87, frame.go:342).
RepliesReadable ==
    /\ out # <<>> => out[1][1] = "status"
    /\ Cardinality(PongAt) = Cardinality(PingAt)
    /\ \A i \in PongAt, j \in PingAt :
         Cardinality(PongAt \cap 1..i) = Cardinality(PingAt \cap 1..j) =>
             AsRead(out[i][2]) = [op |-> OpPong, length |-> Len(handled[j].payload),
                                  payload |-> handled[j].payload]

\* No frame waits in the buffer for the next one to come: when the loop is idle
\* every frame whose last byte has arrived is handled (websocket.go:208-224).
NoFrameLeftBehind ==
    (phase = "open" /\ ~reading /\ todo = <<>> /\ ~AnyEmpty) => Len(handled) = Len(sent)

\* websocket.go:303 and 305 say of the bytes that the codec hands on that they
\* are always one complete frame; so what is handled is frames that were sent,
\* in their order.
CodecHandsOnWholeFrames ==
    LET full == SelectSeq(sent, LAMBDA f : f.payload # <<>>) IN
    /\ Len(handled) <= Len(full)
    /\ \A i \in DOMAIN handled : handled[i] = Expected(full[i])
=============================================================================

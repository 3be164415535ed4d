------------------------------- MODULE Frames -------------------------------
(***************************************************************************)
(* WebSocket frames as bytes (repo/ws): what the codec takes from the      *)
(* inbound buffer (read.go), the checks of a header (check.go), how a      *)
(* header is laid out (write.go, frame.go), and what one frame read by     *)
(* wsutil.Reader becomes (wsutil/helper.go, reader.go).                    *)
(*                                                                         *)
(* A byte is a number below 256. A frame that is read is a record          *)
(* [fin, rsv, op, masked, length, payload].                                *)
(*                                                                         *)
(* A definition that stands right before another and is used nowhere is a  *)
(* faulty variant of it, for testing that a property notices the fault.    *)
(***************************************************************************)
EXTENDS Integers, SequencesExt, Cipher

OpContinuation == 0
OpText == 1
OpBinary == 2
OpClose == 8
OpPing == 9
OpPong == 10

IsControl(op) == op >= 8
IsReserved(op) == op \in 3..7 \cup 11..15

MaxControlFramePayloadSize == 125
Len7 == 125
Len16 == 65535

\* A length above every buffer: 64 bit lengths are not told apart beyond it.
Huge == 16777216

\* Two or eight bytes.
BigEndian(bts) ==
    LET n == Len(bts) IN
    IF \E i \in 1..(n - 3) : bts[i] # 0 THEN Huge
    ELSE (IF n > 2 THEN 65536 * bts[n - 2] ELSE 0) + 256 * bts[n - 1] + bts[n]

PlaceValue == <<1, 256, 65536, 16777216>>

PutBigEndian(v, width) ==
    [i \in 1..width |-> IF width - i > 3 THEN 0 ELSE (v \div PlaceValue[width - i + 1]) % 256]

(***************************************************************************)
(* Writing                                                                 *)
(***************************************************************************)
\* A header whose length takes ext more bytes (0, 2 or 8).
HeaderBytes(h, ext, mask) ==
    << (IF h.fin THEN 128 ELSE 0) + 16 * h.rsv + h.op,
       (IF h.masked THEN 128 ELSE 0)
         + (IF ext = 0 THEN h.length ELSE IF ext = 2 THEN 126 ELSE 127) >>
    \o PutBigEndian(h.length, ext)
    \o (IF h.masked THEN mask ELSE <<>>)

\* WriteHeader takes the shortest form.
WriteHeader(h, mask) ==
    HeaderBytes(h, IF h.length <= Len7 THEN 0 ELSE IF h.length <= Len16 THEN 2 ELSE 8, mask)

NewFrame(op, p) ==
    [fin |-> TRUE, rsv |-> 0, op |-> op, masked |-> FALSE, length |-> Len(p), payload |-> p]

\* The frames of the server carry no mask.
CompileFrame(f) == WriteHeader(f, <<>>) \o f.payload

(***************************************************************************)
(* Reading                                                                 *)
(***************************************************************************)
NeedMoreData == "need more data"
HeaderLengthMSB == "length msb"
NoError == "none"

\* The exclusive or of two bytes, bit by bit.
XorBit(a, b, k) == k * (((a \div k) + (b \div k)) % 2)
Xor(a, b) ==
    XorBit(a, b, 1) + XorBit(a, b, 2) + XorBit(a, b, 4) + XorBit(a, b, 8)
    + XorBit(a, b, 16) + XorBit(a, b, 32) + XorBit(a, b, 64) + XorBit(a, b, 128)

\* Cipher on a whole payload, the mask given as four bytes.
Unmask(payload, mask) ==
    [i \in 1..Len(payload) |-> Xor(payload[i], mask[1 + KeyIndex(Len(payload), 0, i - 1)])]

Failed(e) == [err |-> e]

\* How many bytes the second byte of a header announces: those of the length,
\* and with the mask.
LengthBytes(b) == IF b % 128 < 126 THEN 0 ELSE IF b % 128 = 126 THEN 2 ELSE 8
ExtraBytes(b) == LengthBytes(b) + (IF b >= 128 THEN 4 ELSE 0)

\* ReadHeaderFromBytes. A header of two bytes is returned with offset 0.
ReadHeaderFromBytes(in) ==
    IF Len(in) < 2 THEN Failed(NeedMoreData)
    ELSE LET len == in[2] % 128
             masked == in[2] >= 128
             ext == LengthBytes(in[2])
             extra == ExtraBytes(in[2])
             h == [fin |-> in[1] >= 128, rsv |-> (in[1] \div 16) % 8, op |-> in[1] % 16,
                   masked |-> masked]
         IN  IF extra = 0 THEN [err |-> NoError, offset |-> 0, length |-> len, mask |-> <<>>, h |-> h]
             ELSE IF Len(in) < extra + 2 THEN Failed(NeedMoreData)
             ELSE IF ext = 8 /\ in[3] >= 128 THEN Failed(HeaderLengthMSB)
             ELSE [err    |-> NoError,
                   offset |-> extra + 2,
                   length |-> IF ext = 0 THEN len ELSE BigEndian(SubSeq(in, 3, 2 + ext)),
                   mask   |-> IF masked THEN SubSeq(in, 3 + ext, 6 + ext) ELSE <<>>,
                   h      |-> h]

FrameIncomplete(r, in) == Len(in) - r.offset < r.length

ReadFrameTakesAll(in) ==
    LET r == ReadHeaderFromBytes(in) IN
    IF r.err # NoError THEN r
    ELSE IF r.length = 0 THEN [err |-> NoError, readoffset |-> 0, frame |-> <<>>]
    ELSE IF FrameIncomplete(r, in) THEN Failed(NeedMoreData)
    ELSE [err |-> NoError, readoffset |-> Len(in), frame |-> SubSeq(in, 1, r.offset + r.length)]
\* ReadFrameFromBytes: how many bytes to shift, and the bytes of the frame. A
\* frame without payload is not returned at all.
ReadFrameFromBytes(in) ==
    LET r == ReadHeaderFromBytes(in) IN
    IF r.err # NoError THEN r
    ELSE IF r.length = 0 THEN [err |-> NoError, readoffset |-> 0, frame |-> <<>>]
    ELSE IF FrameIncomplete(r, in) THEN Failed(NeedMoreData)
    ELSE [err |-> NoError, readoffset |-> r.offset + r.length,
          frame |-> SubSeq(in, 1, r.offset + r.length)]

\* CheckHeader on the server side, no extension negotiated and not within a
\* fragmented message: each frame is read by a Reader of its own.
CheckHeader(h) ==
    /\ ~IsReserved(h.op)
    /\ IsControl(h.op) => (h.length <= MaxControlFramePayloadSize /\ h.fin)
    /\ h.rsv = 0
    /\ h.masked
    /\ h.op # OpContinuation

(***************************************************************************)
(* UTF-8: the automaton of wsutil/utf8.go. Its states are multiples of 12. *)
(***************************************************************************)
Utf8Accept == 0
Utf8Reject == 12

ByteClassNoSurrogates(b) ==
    CASE b < 128 -> 0 [] b \in 128..143 -> 1 [] b \in 144..159 -> 9 [] b \in 160..191 -> 7
      [] b \in {192, 193} \cup 245..255 -> 8 [] b \in 194..223 -> 2
      [] b = 224 -> 10 [] b \in 225..239 -> 3
      [] b = 240 -> 11 [] b \in 241..243 -> 6 [] b = 244 -> 5
ByteClass(b) ==
    CASE b < 128 -> 0 [] b \in 128..143 -> 1 [] b \in 144..159 -> 9 [] b \in 160..191 -> 7
      [] b \in {192, 193} \cup 245..255 -> 8 [] b \in 194..223 -> 2
      [] b = 224 -> 10 [] b \in (225..239) \ {237} -> 3 [] b = 237 -> 4
      [] b = 240 -> 11 [] b \in 241..243 -> 6 [] b = 244 -> 5

\* The pairs of a state and a class that lead on, by the state they lead to;
\* every other one is rejected.
Utf8Table(st, t) ==
    CASE <<st, t>> \in {<<0, 0>>, <<24, 1>>, <<24, 7>>, <<24, 9>>} -> Utf8Accept
      [] <<st, t>> \in {<<0, 2>>, <<36, 1>>, <<36, 7>>, <<36, 9>>, <<48, 7>>, <<60, 1>>, <<60, 9>>} -> 24
      [] <<st, t>> \in {<<0, 3>>, <<72, 7>>, <<72, 9>>, <<84, 1>>, <<84, 7>>, <<84, 9>>, <<96, 1>>} -> 36
      [] <<st, t>> = <<0, 10>> -> 48 [] <<st, t>> = <<0, 4>> -> 60 [] <<st, t>> = <<0, 11>> -> 72
      [] <<st, t>> = <<0, 6>>  -> 84 [] <<st, t>> = <<0, 5>> -> 96
      [] OTHER -> Utf8Reject

\* decode, without the code point, which nobody reads.
Decode(st, b) == Utf8Table(st, ByteClass(b))

\* UTF8Reader over a payload: the state after each byte; and Valid at its end.
Utf8States(p) ==
    LET state[k \in 0..Len(p)] == IF k = 0 THEN Utf8Accept ELSE Decode(state[k - 1], p[k])
    IN  state

ValidUTF8(p) == Utf8States(p)[Len(p)] = Utf8Accept

(***************************************************************************)
(* Reading the bytes of one frame                                          *)
(***************************************************************************)
\* ReadHeader takes the header from a stream: the same fields, the mask, and
\* where the payload begins. An end of the stream is an error.
ReadHeader(bts) ==
    LET r == ReadHeaderFromBytes(bts) IN
    IF r.err # NoError THEN r
    ELSE [err |-> NoError, mask |-> r.mask, from |-> IF r.offset = 0 THEN 2 ELSE r.offset,
          h |-> [fin |-> r.h.fin, rsv |-> r.h.rsv, op |-> r.h.op, masked |-> r.h.masked,
                 length |-> r.length]]

\* Reader.NextFrame for the first frame of a message.
NextFrame(bts) ==
    LET r == ReadHeader(bts) IN
    IF r.err = NoError /\ ~CheckHeader(r.h) THEN Failed("protocol error") ELSE r

\* Reader.Read up to the end of the message: the payload is there, in the clear,
\* and a text is UTF-8. A frame that is not final has no successor in the bytes.
Payload(r, bts) ==
    LET p == SubSeq(bts, r.from + 1, r.from + r.h.length) IN IF r.h.masked THEN Unmask(p, r.mask) ELSE p

WholeMessage(r, bts) ==
    /\ r.h.fin
    /\ Len(bts) >= r.from + r.h.length
    /\ r.h.op = OpText => ValidUTF8(Payload(r, bts))

\* The error of ReadClientMessage, as a message with no operation code.
ReadError == [op |-> -1, payload |-> <<>>]

ReadClientMessage(bts) ==
    LET r == NextFrame(bts) IN
    IF r.err = NoError /\ WholeMessage(r, bts) THEN [op |-> r.h.op, payload |-> Payload(r, bts)]
    ELSE ReadError

(***************************************************************************)
(* Close frames                                                            *)
(***************************************************************************)
StatusProtocolError == 1002

ParseCloseFrameData(p) == IF Len(p) < 2 THEN 0 ELSE 256 * p[1] + p[2]

IsProtocolReserved(code) == code \in {1005, 1006, 1015}
IsProtocolDefined(code) == code \in (1000..1003) \cup (1005..1011) \cup {1015}

\* unicode/utf8.ValidString: the sequence is cut into characters of one to four
\* bytes as RFC 3629 lists them.
Character(c) ==
    LET Rest(k) == \A i \in k..Len(c) : c[i] \in 128..191 IN
    CASE Len(c) = 1 -> c[1] < 128
      [] Len(c) = 2 -> c[1] \in 194..223 /\ Rest(2)
      [] Len(c) = 3 -> /\ c[1] \in 224..239 /\ Rest(2)
                       /\ c[1] = 224 => c[2] >= 160
                       /\ c[1] = 237 => c[2] < 160
      [] Len(c) = 4 -> /\ c[1] \in 240..244 /\ Rest(2)
                       /\ c[1] = 240 => c[2] >= 144
                       /\ c[1] = 244 => c[2] < 144

WholeUpTo(p) ==
    LET whole[k \in 0..Len(p)] ==
            k = 0 \/ \E n \in 1..4 : n <= k /\ Character(SubSeq(p, k - n + 1, k)) /\ whole[k - n]
    IN  whole

WellFormed(p) == WholeUpTo(p)[Len(p)]

CheckCloseFrameData(code, reason) ==
    /\ code > 999
    /\ ~IsProtocolReserved(code)
    /\ code # 1004
    /\ code \in 1000..2999 => IsProtocolDefined(code)
    /\ WellFormed(reason)
=============================================================================

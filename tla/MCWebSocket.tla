----------------------------- MODULE MCWebSocket -----------------------------
(* Instances of WebSocket for TLC: the frames of the peer. *)
EXTENDS WebSocket

Frame(op, ext, payload) ==
    [op |-> op, ext |-> ext, payload |-> payload,
     fin |-> TRUE, rsv |-> 0, masked |-> TRUE, bad |-> FALSE]

Fill(n) == [i \in 1..n |-> 64 + (i % 3)]

Text == Frame(OpText, 0, <<65>>)
EmptyPing == Frame(OpPing, 0, <<>>)

\* Lawful ones: both loops of Cipher, the limit of control frames, each form
\* of the length, a close frame with a code and one whose code is reserved.
Good == {Text, Frame(OpBinary, 0, Fill(9)), Frame(OpPing, 0, Fill(125)), Frame(OpPong, 0, <<66>>),
         Frame(OpBinary, 2, Fill(126)), Frame(OpBinary, 8, <<67>>),
         Frame(OpClose, 0, <<3, 232>>), Frame(OpClose, 0, <<3, 237>>)}
        \cup {Frame(OpText, 0, p) : p \in {<<195, 169>>, <<228, 189, 160>>, <<65, 240, 159, 152, 128>>}}

\* Forbidden ones; texts that are no UTF-8: overlong, a surrogate, cut short,
\* beyond the last character.
Forbidden == {Frame(OpText, 0, p) :
                p \in {<<255>>, <<192, 175>>, <<237, 160, 128>>, <<228, 189>>, <<244, 144, 128, 128>>}} \cup
       { Frame(OpPing, 2, Fill(126)), [Frame(OpBinary, 8, <<67>>) EXCEPT !.bad = TRUE],
        [Text EXCEPT !.masked = FALSE], [Frame(OpText, 0, Fill(3)) EXCEPT !.masked = FALSE],
        [Text EXCEPT !.rsv = 4], Frame(3, 0, <<65>>), Frame(OpContinuation, 0, <<65>>),
        [Text EXCEPT !.fin = FALSE]}

AllFrames == Good \cup Forbidden \cup {EmptyPing}
OnlyText == {Text}
EmptyAndText == {EmptyPing, Text}
=============================================================================

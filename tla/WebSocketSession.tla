------------------------- MODULE WebSocketSession --------------------------
(***************************************************************************)
(* A WebSocket over a socket: WebSocketSession::process_incoming_data,     *)
(* which decodes frames from whatever chunks TCP delivers, and             *)
(* WebSocketConnection, whose run loop feeds it and whose writes may go    *)
(* out in two sends (src/http/websocket).  Another coroutine of the loop   *)
(* may send through the same WebSocket while the session waits for a       *)
(* write.                                                                  *)
(*                                                                         *)
(* A frame is one header unit and at most one payload unit; the payload    *)
(* tells apart what UTF-8 checking does: "a" is a whole character, "h" and *)
(* "t" the halves of one, "x" is malformed.  External: the client, TCP,    *)
(* the application's callbacks, the UTF-8 validator.                       *)
(***************************************************************************)
EXTENDS Naturals, Sequences, SequencesExt

CONSTANTS
    Scripts,           \* what the client may send: sequences of [op, fin, pay, fine]
    MaxChunk,          \* units one receive delivers at most
    max_message_size,  \* in payload units
    MaxCasts           \* frames the other coroutine sends

SessionAssumption == {MaxChunk, max_message_size, MaxCasts} \subseteq Nat

VARIABLES
    echo,              \* no callbacks are registered: messages are echoed in batches
    sent, transit, gone,
    pc, data, consumed, stream_buf_,
    fragment, utf8,    \* fragment_buffer_ with its opcode while in progress; halves open
    batch_out_,
    outq, then,        \* writes the session waits for, and what follows them
    is_closed_, open_, is_open_, closed_fd,
    app,               \* messages handed to the application
    wire,              \* units the client receives
    cast, casts,       \* the other coroutine's write
    overlapped,        \* it wrote while the session was between two sends, or the reverse
    ended              \* the application closed the socket from a callback

vars == <<echo, sent, transit, gone, pc, data, consumed, stream_buf_, fragment, utf8,
          batch_out_, outq, then, is_closed_, open_, is_open_, closed_fd, app, wire, cast,
          casts, overlapped, ended>>

NoFragment == [op |-> "none", parts |-> <<>>]

Size(f) == IF f.pay = "" THEN 0 ELSE 1
Units(i) == IF Size(sent[i]) = 0 THEN <<<<i, 1>>>> ELSE <<<<i, 1>>, <<i, 2>>>>

Init ==
    /\ echo \in BOOLEAN
    /\ sent \in Scripts /\ gone = FALSE
    /\ transit = FlattenSeq([i \in 1..Len(sent) |-> Units(i)])
    /\ pc = "wait" /\ data = <<>> /\ consumed = 0 /\ stream_buf_ = <<>>
    /\ fragment = NoFragment /\ utf8 = FALSE
    /\ batch_out_ = <<>> /\ outq = <<>> /\ then = "frames"
    /\ is_closed_ = FALSE /\ open_ = TRUE /\ is_open_ = TRUE /\ closed_fd = FALSE
    /\ app = <<>> /\ wire = <<>> /\ cast = <<>> /\ casts = 0
    /\ overlapped = FALSE /\ ended = FALSE

-----------------------------------------------------------------------------
\* A frame on its way out: two units of the same label.
Out(kind, n) == <<<<kind, n, 1>>, <<kind, n, 2>>>>

\* utf8_validator_.update and is_valid_end.
Accepts(half, pay) == CASE pay = "x" -> FALSE [] pay = "t" -> half
                        [] pay \in {"a", "h"} -> ~half [] OTHER -> TRUE
Half(half, pay) == IF pay = "h" THEN TRUE ELSE IF pay = "t" THEN FALSE ELSE half

-----------------------------------------------------------------------------
\* The client has sent all it has to say and leaves.
ClientGoes ==
    /\ ~gone /\ transit = <<>>
    /\ gone' = TRUE
    /\ UNCHANGED <<echo, sent, transit, pc, data, consumed, stream_buf_, fragment, utf8,
                   batch_out_, outq, then, is_closed_, open_, is_open_, closed_fd, app, wire,
                   cast, casts, overlapped, ended>>

\* WebSocketConnection::run: the next chunk, copied behind the remainder.
Receive(n) ==
    /\ pc = "wait" /\ is_open_ /\ ~is_closed_
    /\ n \in 1..Len(transit)
    /\ transit' = SubSeq(transit, n + 1, Len(transit))
    /\ data' = SubSeq(transit, 1, n)
    /\ stream_buf_' = IF stream_buf_ = <<>> THEN <<>> ELSE stream_buf_ \o data'
    /\ consumed' = 0 /\ batch_out_' = <<>>
    /\ pc' = "frames"
    /\ UNCHANGED <<echo, sent, gone, fragment, utf8, outq, then, is_closed_, open_, is_open_,
                   closed_fd, app, wire, cast, casts, overlapped, ended>>

input_source == IF stream_buf_ = <<>> THEN data ELSE stream_buf_
remaining == SubSeq(input_source, consumed + 1, Len(input_source))

\* The whole frame is there: parse_frame_header is Complete and so is the payload.
Complete == /\ remaining # <<>>
            /\ Len(remaining) >= 1 + Size(sent[Head(remaining)[1]])

Frame == sent[Head(remaining)[1]]

\* Mutant: the remainder of a chunk that followed a buffered one is kept whole.
Remainder_Whole == IF consumed >= Len(input_source) THEN <<>> ELSE input_source

Remainder == SubSeq(input_source, consumed + 1, Len(input_source))

ChunkDone ==
    /\ pc = "frames" /\ ~Complete
    /\ remaining # <<>> => sent[Head(remaining)[1]].fine = "ok"
    /\ stream_buf_' = Remainder
    /\ outq' = IF batch_out_ # <<>> /\ is_open_ THEN <<batch_out_>> ELSE <<>>
    /\ batch_out_' = <<>> /\ data' = <<>> /\ consumed' = 0
    /\ pc' = "write" /\ then' = "wait"
    /\ UNCHANGED <<echo, sent, transit, gone, fragment, utf8, is_closed_, open_, is_open_,
                   closed_fd, app, wire, cast, casts, overlapped, ended>>

\* ws_.close(code), preceded by what the branch does with the batch.
close(code, first) ==
    /\ outq' = (IF first # <<>> /\ is_open_ THEN <<first>> ELSE <<>>)
               \o (IF open_ /\ is_open_ THEN <<Out("close", code)>> ELSE <<>>)
    /\ open_' = FALSE
    /\ batch_out_' = <<>>
    /\ pc' = "write" /\ then' = "end"

Fail(code, first) ==
    /\ close(code, first)
    /\ is_closed_' = TRUE
    /\ UNCHANGED <<consumed, fragment, utf8, app, ended>>

Consume == consumed' = consumed + 1 + Size(Frame)

\* The message goes to the application, or into the batch of echoes.
Message(m) ==
    /\ app' = Append(app, m)
    /\ IF echo
       THEN /\ batch_out_' = batch_out_ \o Out("echo", Len(app) + 1)
            /\ pc' = "frames" /\ UNCHANGED <<outq, then, open_, ended>>
       ELSE \/ /\ pc' = "frames" /\ UNCHANGED <<outq, then, open_, ended, batch_out_>>
            \/ /\ open_ /\ is_open_
               /\ outq' = <<Out("close", 1000)>> /\ open_' = FALSE /\ ended' = TRUE
               /\ pc' = "write" /\ then' = "callback"
               /\ UNCHANGED batch_out_

\* A header that parse_frame_header rejects, or that announces more than the
\* limits allow, needs no payload; the latter drops the batch.
BadFrame ==
    /\ pc = "frames" /\ remaining # <<>> /\ Frame.fine # "ok"
    /\ IF Frame.fine = "huge" THEN Fail(1009, <<>>) ELSE Fail(1002, batch_out_)

Ping ==
    /\ Complete /\ Frame.fine = "ok" /\ Frame.op = "ping"
    /\ outq' = (IF batch_out_ # <<>> /\ is_open_ THEN <<batch_out_>> ELSE <<>>)
               \o (IF open_ /\ is_open_ THEN <<Out("pong", Head(remaining)[1])>> ELSE <<>>)
    /\ batch_out_' = <<>> /\ pc' = "write" /\ then' = "frames"
    /\ Consume
    /\ UNCHANGED <<is_closed_, open_, fragment, utf8, app, ended>>

Close ==
    /\ Complete /\ Frame.fine = "ok" /\ Frame.op = "close"
    /\ IF Frame.pay = "x" THEN Fail(1002, <<>>) ELSE Fail(1000, batch_out_)

\* Mutant: a continuation does not check the size of the whole message.
TooBig_FrameOnly(f) == Size(f) > max_message_size

TooBig(f) == Len(fragment.parts) + Size(f) > max_message_size

Continuation ==
    /\ Complete /\ Frame.fine = "ok" /\ Frame.op = "cont"
    /\ IF fragment.op = "none" THEN Fail(1002, batch_out_)
       ELSE IF TooBig(Frame) THEN Fail(1009, <<>>)
       ELSE IF fragment.op = "text" /\ ~Accepts(utf8, Frame.pay) THEN Fail(1007, <<>>)
       ELSE IF Frame.fin /\ fragment.op = "text" /\ Half(utf8, Frame.pay) THEN Fail(1007, <<>>)
       ELSE LET whole == fragment.parts \o (IF Size(Frame) = 0 THEN <<>> ELSE <<Frame.pay>>)
            IN  /\ utf8' = Half(utf8, Frame.pay)
                /\ Consume
                /\ IF Frame.fin
                   THEN fragment' = NoFragment /\ Message([op |-> fragment.op, parts |-> whole])
                   ELSE /\ fragment' = [fragment EXCEPT !.parts = whole]
                        /\ UNCHANGED <<app, batch_out_, pc, outq, then, open_, ended>>
                /\ UNCHANGED is_closed_

\* Mutant: a text message may end in the middle of a character.
TextEnds_Anywhere(pay) == TRUE

TextEnds(pay) == ~Half(FALSE, pay)

Data ==
    /\ Complete /\ Frame.fine = "ok" /\ Frame.op \in {"text", "binary"}
    /\ IF Size(Frame) > max_message_size THEN Fail(1009, <<>>)
       ELSE IF fragment.op # "none" THEN Fail(1002, batch_out_)
       ELSE IF Frame.op = "text" /\ ~Accepts(FALSE, Frame.pay) THEN Fail(1007, <<>>)
       ELSE IF Frame.op = "text" /\ Frame.fin /\ ~TextEnds(Frame.pay) THEN Fail(1007, <<>>)
       ELSE LET part == IF Size(Frame) = 0 THEN <<>> ELSE <<Frame.pay>>
            IN  /\ utf8' = Half(FALSE, Frame.pay)
                /\ Consume
                /\ IF Frame.fin
                   THEN Message([op |-> Frame.op, parts |-> part]) /\ UNCHANGED fragment
                   ELSE /\ fragment' = [op |-> Frame.op, parts |-> part]
                        /\ UNCHANGED <<app, batch_out_, pc, outq, then, open_, ended>>
                /\ UNCHANGED is_closed_

Decode ==
    /\ pc = "frames"
    /\ BadFrame \/ Ping \/ Close \/ Continuation \/ Data
    /\ UNCHANGED <<echo, sent, transit, gone, data, stream_buf_, is_open_, closed_fd, wire,
                   cast, casts, overlapped>>

-----------------------------------------------------------------------------
(* Writes: one send, or a partial one and send_all for the rest.            *)

To(units) == IF gone THEN wire ELSE wire \o units

\* A frame is in the middle of its two sends.
Torn(units) == units # <<>> /\ units[1][3] = 2

\* Mutant: what a partial send left is not sent.
Left_Dropped(units, n) == <<>>

Left(units, n) == SubSeq(units, n + 1, Len(units))

Write(n) ==
    /\ pc = "write" /\ outq # <<>>
    /\ n \in 1..Len(Head(outq))
    /\ wire' = To(SubSeq(Head(outq), 1, n))
    /\ LET left == Left(Head(outq), n)
       IN  outq' = IF left = <<>> THEN Tail(outq) ELSE <<left>> \o Tail(outq)
    /\ overlapped' = (overlapped \/ Torn(cast))
    /\ UNCHANGED <<echo, sent, transit, gone, pc, data, consumed, stream_buf_, fragment, utf8,
                   batch_out_, then, is_closed_, open_, is_open_, closed_fd, app, cast, casts,
                   ended>>

Written ==
    /\ pc = "write" /\ outq = <<>>
    /\ pc' = (CASE then = "callback" -> "frames" [] then = "end" -> "close" [] OTHER -> then)
    /\ is_open_' = (is_open_ /\ then \notin {"callback", "end"})
    /\ UNCHANGED <<echo, sent, transit, gone, data, consumed, stream_buf_, fragment, utf8,
                   batch_out_, outq, then, is_closed_, open_, closed_fd, app, wire, cast, casts,
                   overlapped, ended>>

\* Mutant: the end of the client's stream is one more empty chunk.
Leaves_NotAtEof == pc = "close" \/ (pc = "wait" /\ (~is_open_ \/ is_closed_))

Leaves == pc = "close" \/ (pc = "wait" /\ (~is_open_ \/ is_closed_ \/ (gone /\ transit = <<>>)))

\* The run loop leaves when the session or the transport is closed or the
\* client is gone, and closes the descriptor.
Leave ==
    /\ Leaves
    /\ is_open_' = FALSE /\ closed_fd' = TRUE /\ pc' = "gone"
    /\ UNCHANGED <<echo, sent, transit, gone, data, consumed, stream_buf_, fragment, utf8,
                   batch_out_, outq, then, is_closed_, open_, app, wire, cast, casts,
                   overlapped, ended>>

\* The other coroutine: ws.send checks is_open and writes its frame.
Cast ==
    /\ casts < MaxCasts /\ cast = <<>> /\ open_ /\ is_open_
    /\ casts' = casts + 1 /\ cast' = Out("cast", casts + 1)
    /\ UNCHANGED <<echo, sent, transit, gone, pc, data, consumed, stream_buf_, fragment, utf8,
                   batch_out_, outq, then, is_closed_, open_, is_open_, closed_fd, app, wire,
                   overlapped, ended>>

CastWrite(n) ==
    /\ cast # <<>> /\ n \in 1..Len(cast)
    /\ wire' = IF closed_fd THEN wire ELSE To(SubSeq(cast, 1, n))
    /\ cast' = SubSeq(cast, n + 1, Len(cast))
    /\ overlapped' = (overlapped \/ (outq # <<>> /\ Torn(Head(outq))) \/ ~open_)
    /\ UNCHANGED <<echo, sent, transit, gone, pc, data, consumed, stream_buf_, fragment, utf8,
                   batch_out_, outq, then, is_closed_, open_, is_open_, closed_fd, app, casts,
                   ended>>

Rest == /\ pc = "gone" \/ (pc = "wait" /\ transit = <<>>)
        /\ UNCHANGED vars

Next ==
    \/ ClientGoes
    \/ \E n \in 1..MaxChunk : Receive(n)
    \/ Decode \/ ChunkDone
    \/ \E n \in 1..Len(IF outq = <<>> THEN <<>> ELSE Head(outq)) : Write(n)
    \/ Written \/ Leave
    \/ Cast \/ \E n \in 1..2 : CastWrite(n)
    \/ Rest

Work == Decode \/ ChunkDone \/ Written \/ Leave
        \/ \E n \in 1..MaxChunk : Receive(n)
        \/ (outq # <<>> /\ Write(Len(Head(outq))))

Spec == Init /\ [][Next]_vars /\ WF_vars(Work)

-----------------------------------------------------------------------------
(* Properties.                                                             *)

\* The messages of frames s, read one after another with no regard to chunks:
\* what RFC 6455 framing, the size limit and UTF-8 make of them, up to the first
\* frame that must not be accepted.
Decoded ==
    LET step(acc, f) ==
          IF acc.stop \/ f.op \in {"ping", "pong"} THEN acc
          ELSE IF f.op = "close" \/ (f.op = "cont") # (acc.op # "none") THEN [acc EXCEPT !.stop = TRUE]
          ELSE LET op    == IF f.op = "cont" THEN acc.op ELSE f.op
                   parts == acc.parts \o (IF f.pay = "" THEN <<>> ELSE <<f.pay>>)
                   text  == FoldLeft(LAMBDA u, p : IF u = "bad" THEN u
                                       ELSE CASE p = "a" /\ u = "whole" -> "whole"
                                              [] p = "h" /\ u = "whole" -> "half"
                                              [] p = "t" /\ u = "half" -> "whole"
                                              [] OTHER -> "bad", "whole", parts)
               IN  IF Len(parts) > max_message_size \/ (op = "text" /\ text = "bad")
                      \/ (op = "text" /\ f.fin /\ text # "whole")
                   THEN [acc EXCEPT !.stop = TRUE]
                   ELSE IF f.fin THEN [acc EXCEPT !.op = "none", !.parts = <<>>,
                                          !.out = Append(@, [op |-> op, parts |-> parts])]
                   ELSE [acc EXCEPT !.op = op, !.parts = parts]
        fine == SelectInSeq(sent, LAMBDA f : f.fine # "ok")
        good == IF fine = 0 THEN sent ELSE SubSeq(sent, 1, fine - 1)
    IN  FoldLeft(step, [op |-> "none", parts |-> <<>>, out |-> <<>>, stop |-> FALSE], good).out

(* However TCP cuts the stream, the application gets the messages the       *)
(* client's frames spell, in order, each once and whole, and nothing after  *)
(* the first frame that breaks the protocol, a limit or UTF-8; when the     *)
(* session waits for more, it has handed over all there are.                *)
MessagesExact ==
    /\ IsPrefix(app, Decoded)
    /\ pc = "wait" /\ transit = <<>> /\ ~is_closed_ /\ is_open_ => app = Decoded

(* The client can parse what it receives: frames go out whole, one after    *)
(* another, and nothing follows a close frame.  The exception is a second   *)
(* coroutine that writes between the two sends of a frame, or finishes its  *)
(* own after the close: the connection does not serialise its writers.      *)
FramesWhole ==
    ~overlapped =>
        /\ \A i \in 1..Len(wire) :
              IF wire[i][3] = 2 THEN i > 1 /\ wire[i - 1] = <<wire[i][1], wire[i][2], 1>>
              ELSE i > 1 => wire[i - 1][3] = 2
        /\ \A i \in 1..Len(wire) : wire[i][1] = "close" => \A j \in i..Len(wire) : wire[j][1] = "close"

(* A close frame, a broken frame or the client's departure ends in a closed *)
(* descriptor.                                                              *)
SessionOver == is_closed_ \/ gone => closed_fd
SessionsEnd == <>[]SessionOver
=============================================================================

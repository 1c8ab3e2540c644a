-------------------------- MODULE Http2Connection ---------------------------
(***************************************************************************)
(* The server side of one HTTP/2 connection (Http2Connection.cpp and the   *)
(* loop Server::run_h2_loop around it).  One coroutine reads, feeds the    *)
(* session, dispatches the complete requests one after the other and       *)
(* flushes; nghttp2 is modelled by the callbacks it makes.                 *)
(*                                                                         *)
(* A frame travels whole or, when it is long, as a head and a tail that    *)
(* may be read at different times.                                         *)
(***************************************************************************)
EXTENDS Integers, Sequences, SequencesExt, FiniteSets

CONSTANTS
    Streams,        \* stream identifiers, in the order they are opened
    Kinds,          \* what clients use a stream for
    RstLimit        \* rst_burst_limit_

AllKinds == {"get", "post", "sse", "upload", "chat", "cancel", "twice"}

H2Assumption ==
    /\ Streams \subseteq Nat \ {0} /\ IsFiniteSet(Streams)
    /\ Kinds \subseteq AllKinds /\ RstLimit \in Nat

VARIABLES
    kind, sent, got,    \* client: use of a stream, frames sent, messages received
    net,                \* pieces on their way to the server
    alive,              \* whether the client is still there
    place,              \* upgrade, read, scan, frames, dispatch, handler, closed
    chunk,              \* the piece sequence in feed_data
    streams_,           \* id -> Http2Stream
    closed_stream_ids_, max_remote_stream_id_, rst_count_, closed_,
    pending_dispatch_, current,
    outbound,           \* streams whose last frame nghttp2 has to send
    reason              \* why feed_data closed the connection

client == <<kind, sent, got>>
session == <<streams_, closed_stream_ids_, max_remote_stream_id_, rst_count_>>
vars == <<client, net, alive, place, chunk, session, closed_, pending_dispatch_, current, outbound, reason>>

-----------------------------------------------------------------------------
\* the frames of a stream: headers, data, reset; "!" marks END_STREAM
Script(k) ==
    CASE k \in {"get", "sse"} -> <<"H!">>
      [] k = "post" -> <<"H", "D!">>
      [] k \in {"upload", "chat"} -> <<"H", "D", "D!">>
      [] k = "cancel" -> <<"H!", "R">>
      [] k = "twice" -> <<"H!", "H!">>       \* against the protocol
Streaming(k) == k \in {"upload", "chat"}     \* gRPC client and bidirectional streaming
NoStream == 0
\* messages: received and not yet read; on an event stream, events to send
NewStream == [complete |-> FALSE, submitted |-> FALSE, dispatched |-> FALSE,
              grpc_inbound |-> FALSE, messages |-> 0, eof |-> FALSE]
Pieces == [s : Streams, f : {"H", "H!", "D", "D!", "R"}, part : {"whole", "head", "tail"}]
Ends(f) == f \in {"H!", "D!"}

TypeOK ==
    /\ kind \in [Streams -> Kinds] /\ sent \in [Streams -> 0 .. 3] /\ got \in [Streams -> Nat]
    /\ net \in Seq(Pieces) /\ chunk \in Seq(Pieces)
    /\ alive \in BOOLEAN /\ closed_ \in BOOLEAN
    /\ place \in {"upgrade", "read", "scan", "frames", "dispatch", "handler", "closed"}
    /\ DOMAIN streams_ \subseteq Streams
    /\ closed_stream_ids_ \subseteq Streams /\ closed_stream_ids_ \cap DOMAIN streams_ = {}
    /\ max_remote_stream_id_ \in Streams \cup {NoStream}
    /\ rst_count_ \in 0 .. RstLimit + 1
    /\ pending_dispatch_ \in Seq(Streams)
    /\ current \in Streams \cup {NoStream} /\ (place = "handler" => current \in DOMAIN streams_)
    /\ outbound \in Seq(Streams) /\ reason \in {"none", "resets", "headers", "misread"}

First == CHOOSE s \in Streams : \A q \in Streams : s <= q

\* a connection starts with the preface, or with the upgrade of an HTTP/1
\* request that becomes the first stream
Init ==
    /\ kind \in [Streams -> Kinds]
    /\ place \in {"read"} \cup (IF kind[First] = "get" THEN {"upgrade"} ELSE {})
    /\ sent = [s \in Streams |-> IF s = First /\ place = "upgrade" THEN 1 ELSE 0]
    /\ got = [s \in Streams |-> 0]
    /\ net = <<>> /\ alive = TRUE /\ chunk = <<>>
    /\ streams_ = [s \in {} |-> NewStream] /\ closed_stream_ids_ = {}
    /\ max_remote_stream_id_ = NoStream /\ rst_count_ = 0 /\ closed_ = FALSE
    /\ pending_dispatch_ = <<>> /\ current = NoStream /\ outbound = <<>> /\ reason = "none"

-----------------------------------------------------------------------------
(***************************************************************************)
(* The client opens its streams in order; in a chat it sends the next      *)
(* message only when the last has been answered.  One client uses a        *)
(* stream again that is closed.  The frames of a packet are fed without a  *)
(* suspension, so nothing is sent in between.                              *)
(***************************************************************************)
ClientSend(s) ==
    /\ alive /\ place \notin {"frames", "closed"} /\ sent[s] < Len(Script(kind[s]))
    /\ \A q \in Streams : q < s => sent[q] > 0
    /\ kind[s] = "chat" /\ sent[s] = 2 => got[s] >= 1
    /\ kind[s] = "twice" /\ sent[s] = 1 => got[s] >= 1
    /\ LET f == Script(kind[s])[sent[s] + 1]
           whole == <<[s |-> s, f |-> f, part |-> "whole"]>>
           halves == <<[s |-> s, f |-> f, part |-> "head"], [s |-> s, f |-> f, part |-> "tail"]>>
       IN  net' \in {net \o whole} \cup (IF f \in {"D", "D!"} THEN {net \o halves} ELSE {})
    /\ sent' = [sent EXCEPT ![s] = @ + 1]
    /\ UNCHANGED <<kind, got, alive, place, chunk, session, closed_, pending_dispatch_, current, outbound, reason>>

ClientGone ==
    /\ alive /\ place \notin {"frames", "closed"} /\ alive' = FALSE
    /\ UNCHANGED <<client, net, place, chunk, session, closed_, pending_dispatch_, current, outbound, reason>>

(***************************************************************************)
(* run_h2_loop: recv, then feed_data.                                      *)
(***************************************************************************)
Read ==
    /\ place = "read" /\ net # <<>> /\ alive
    /\ \E n \in 1 .. Len(net) : chunk' = SubSeq(net, 1, n) /\ net' = SubSeq(net, n + 1, Len(net))
    /\ place' = "scan"
    /\ UNCHANGED <<client, alive, session, closed_, pending_dispatch_, current, outbound, reason>>

\* Mutant: the loop goes on after the end of the input
ReadEnds_Continues ==
    /\ place = "read" /\ ~alive
    /\ place' = "read"
    /\ UNCHANGED <<client, net, alive, chunk, session, closed_, pending_dispatch_, current, outbound, reason>>

ReadEnds ==
    /\ place = "read" /\ ~alive
    /\ place' = "closed"
    /\ UNCHANGED <<client, net, alive, chunk, session, closed_, pending_dispatch_, current, outbound, reason>>

\* Mutant: a stream identifier is taken for a new one only when it is greater
\* by two than the newest
BadHeaders_OffByOne(p) ==
    /\ p.f \in {"H", "H!"} /\ p.part # "tail"
    /\ \/ p.s \in closed_stream_ids_
       \/ p.s \in DOMAIN streams_ /\ streams_[p.s].complete
       \/ p.s \notin DOMAIN streams_ /\ p.s <= max_remote_stream_id_ + 2

\* the scan of feed_data over a packet that starts with a frame: HEADERS on
\* a stream that is closed, half closed or behind the newest one
BadHeaders(p) ==
    /\ p.f \in {"H", "H!"} /\ p.part # "tail"
    /\ \/ p.s \in closed_stream_ids_
       \/ p.s \in DOMAIN streams_ /\ streams_[p.s].complete
       \/ p.s \notin DOMAIN streams_ /\ p.s <= max_remote_stream_id_

\* what the scan may decide: nothing is known of a packet that starts inside
\* a frame, whose payload is read as a frame header
ScanCloses(packet) ==
    IF packet[1].part = "tail" THEN BOOLEAN
    ELSE {\E i \in DOMAIN packet : BadHeaders(packet[i])}

\* GrpcInboundChannel::push_data and set_eof: a message is taken out of the
\* data, the end of the stream is remembered
PushData(st, f) ==
    [st EXCEPT !.messages = IF f \in {"D", "D!"} THEN @ + 1 ELSE @, !.eof = @ \/ Ends(f)]

\* ReadAwaiter::await_ready
ReadReady(st) == st.messages > 0 \/ st.eof

\* Mutant: on_stream_close keeps the stream
OnStreamClose_NoErase(st, s) == [st EXCEPT !.closed = @ \cup {s}]

\* on_stream_close
OnStreamClose(st, s) ==
    [st EXCEPT !.streams = [x \in DOMAIN st.streams \ {s} |-> st.streams[x]], !.closed = @ \cup {s}]

\* the callbacks on_header, on_data_chunk_recv and on_frame_recv for one
\* complete frame, which nghttp2 does not make for headers and data of a
\* closed stream; st = [streams, closed, top, rsts, pending]
OnFrame(st, p) ==
    LET s == p.s
        old == IF s \in DOMAIN st.streams THEN st.streams[s] ELSE NewStream
        with(v) == [x \in DOMAIN st.streams \cup {s} |-> IF x = s THEN v ELSE st.streams[x]]
        headers == p.f \in {"H", "H!"}
        streaming == old.grpc_inbound \/ (headers /\ Streaming(kind[s]))
        pushed == IF streaming THEN PushData(old, p.f) ELSE old
        updated == [pushed EXCEPT !.grpc_inbound = streaming,
                                  !.messages = IF headers /\ kind[s] = "sse" THEN @ + 1 ELSE @,
                                  !.complete = @ \/ (~old.grpc_inbound /\ Ends(p.f))]
        ready == ~old.grpc_inbound /\ (streaming \/ Ends(p.f))
    IN  IF p.f = "R"
        THEN [OnStreamClose(st, s) EXCEPT !.rsts = @ + 1]
        ELSE IF s \in st.closed THEN st
        ELSE [st EXCEPT !.streams = with(updated),
                        !.top = IF s > @ THEN s ELSE @,
                        !.pending = IF ready THEN Append(@, s) ELSE @]

Complete(packet) == SelectSeq(packet, LAMBDA p : p.part # "head")

\* nghttp2_session_mem_recv starts on the frames that are complete
FeedData ==
    /\ place = "scan" /\ FALSE \in ScanCloses(chunk)
    /\ chunk' = Complete(chunk)
    /\ place' = IF chunk' = <<>> THEN "dispatch" ELSE "frames"
    /\ UNCHANGED <<client, net, alive, session, closed_, pending_dispatch_, current, outbound, reason>>

\* a frame of the packet; too many resets end the connection
FeedFrame ==
    /\ place = "frames"
    /\ \E st \in {OnFrame([streams |-> streams_, closed |-> closed_stream_ids_, top |-> max_remote_stream_id_,
                            rsts |-> rst_count_, pending |-> pending_dispatch_], Head(chunk))} :
           /\ streams_' = st.streams /\ closed_stream_ids_' = st.closed
           /\ max_remote_stream_id_' = st.top
           /\ rst_count_' = IF st.rsts > RstLimit THEN RstLimit + 1 ELSE st.rsts
           /\ pending_dispatch_' = st.pending
    /\ closed_' = (rst_count_' > RstLimit)
    /\ chunk' = IF closed_' THEN <<>> ELSE Tail(chunk)
    /\ place' = IF closed_' THEN "closed" ELSE IF chunk' = <<>> THEN "dispatch" ELSE "frames"
    /\ reason' = IF closed_' THEN "resets" ELSE reason
    /\ UNCHANGED <<client, net, alive, current, outbound>>

\* the scan puts a GOAWAY into outbound_buf_, sets closed_ and flushes, but
\* flush_outbound sends nothing once closed_ is set
ScanFails ==
    /\ place = "scan" /\ TRUE \in ScanCloses(chunk)
    /\ closed_' = TRUE /\ place' = "closed" /\ chunk' = <<>>
    /\ reason' = IF chunk[1].part = "tail" THEN "misread" ELSE "headers"
    /\ UNCHANGED <<client, net, alive, session, pending_dispatch_, current, outbound>>

\* the streams whose data on_data_source_read ends, trailers included
LastFrames == IF closed_ THEN {} ELSE ToSet(outbound)

\* Mutant: the buffer is not emptied after it was sent
FlushOutbound_NotCleared(after, now) ==
    LET ended == LastFrames
    IN  /\ got' = [s \in Streams |->
                      IF alive /\ ~closed_ /\ s \in ended \cup now THEN got[s] + 1 ELSE got[s]]
        /\ streams_' = [s \in DOMAIN after \ ended |-> after[s]]
        /\ closed_stream_ids_' = closed_stream_ids_ \cup ended
        /\ closed_' = (closed_ \/ (~alive /\ ended \cup now # {}))
        /\ outbound' = outbound
        /\ UNCHANGED <<kind, sent, max_remote_stream_id_, rst_count_>>

(***************************************************************************)
(* flush_outbound: the last frames of the streams in outbound go out, and  *)
(* a message of each stream of now; streams that ended close.  It does     *)
(* nothing once the connection is closed.                                  *)
(***************************************************************************)
FlushOutbound(after, now) ==
    LET ended == LastFrames
    IN  /\ got' = [s \in Streams |->
                      IF alive /\ ~closed_ /\ s \in ended \cup now THEN got[s] + 1 ELSE got[s]]
        /\ streams_' = [s \in DOMAIN after \ ended |-> after[s]]
        /\ closed_stream_ids_' = closed_stream_ids_ \cup ended
        /\ closed_' = (closed_ \/ (~alive /\ ended \cup now # {}))
        /\ outbound' = IF closed_ THEN outbound ELSE <<>>
        /\ UNCHANGED <<kind, sent, max_remote_stream_id_, rst_count_>>

(***************************************************************************)
(* upgrade_request: the request is answered before anything is read.       *)
(***************************************************************************)
Upgrade ==
    /\ place = "upgrade"
    /\ got' = IF alive THEN [got EXCEPT ![First] = @ + 1] ELSE got
    /\ closed_' = ~alive
    /\ closed_stream_ids_' = {First}
    /\ place' = IF alive THEN "read" ELSE "closed"
    /\ UNCHANGED <<kind, sent, net, alive, chunk, streams_, max_remote_stream_id_, rst_count_,
                   pending_dispatch_, current, outbound, reason>>

(***************************************************************************)
(* dispatch_pending_requests: the handlers run one after the other.        *)
(***************************************************************************)
NextUp == Head(pending_dispatch_)

Ready(s) ==
    s \notin closed_stream_ids_ /\ s \in DOMAIN streams_ /\ ~streams_[s].submitted /\ ~streams_[s].dispatched

DispatchSkip ==
    /\ place = "dispatch" /\ pending_dispatch_ # <<>> /\ ~Ready(NextUp)
    /\ pending_dispatch_' = Tail(pending_dispatch_)
    /\ UNCHANGED <<client, net, alive, place, chunk, session, closed_, current, outbound, reason>>

DispatchStart ==
    /\ place = "dispatch" /\ pending_dispatch_ # <<>> /\ Ready(NextUp)
    /\ current' = NextUp /\ pending_dispatch_' = Tail(pending_dispatch_)
    /\ streams_' = [streams_ EXCEPT ![NextUp].dispatched = TRUE]
    /\ place' = "handler"
    /\ UNCHANGED <<client, net, alive, chunk, closed_stream_ids_, max_remote_stream_id_, rst_count_,
                   closed_, outbound, reason>>

\* a streaming handler takes a message; a chat answers it and an event stream
\* sends its event at once (push_grpc_frame, push_sse_frame)
HandlerMessage ==
    LET pushes == kind[current] \in {"chat", "sse"}
        after == [streams_ EXCEPT ![current].messages = @ - 1, ![current].submitted = @ \/ pushes]
    IN  /\ place = "handler" /\ streams_[current].messages > 0
        /\ IF pushes THEN FlushOutbound(after, {current})
           ELSE streams_' = after
                /\ UNCHANGED <<client, closed_stream_ids_, max_remote_stream_id_, rst_count_, closed_, outbound>>
        /\ UNCHANGED <<net, alive, place, chunk, pending_dispatch_, current, reason>>

\* submit_response, or the end of the data of a response begun before
SubmitResponse(s) == Append(outbound, s)

\* Mutant: the handler's return does not resume the stream's data
HandlerReturns_NoResume ==
    /\ place = "handler" /\ streams_[current].messages = 0
    /\ streams_[current].grpc_inbound => ReadReady(streams_[current])
    /\ outbound' = IF streams_[current].submitted THEN outbound ELSE Append(outbound, current)
    /\ streams_' = [streams_ EXCEPT ![current].submitted = TRUE]
    /\ place' = "dispatch" /\ current' = NoStream
    /\ UNCHANGED <<client, net, alive, chunk, closed_stream_ids_, max_remote_stream_id_, rst_count_,
                   closed_, pending_dispatch_, reason>>

\* the handler returns and the response, or the end of it, is submitted; a
\* streaming handler reads until its client has ended the stream
HandlerReturns ==
    /\ place = "handler" /\ streams_[current].messages = 0
    /\ streams_[current].grpc_inbound => ReadReady(streams_[current])
    /\ outbound' = SubmitResponse(current)
    /\ streams_' = [streams_ EXCEPT ![current].submitted = TRUE]
    /\ place' = "dispatch" /\ current' = NoStream
    /\ UNCHANGED <<client, net, alive, chunk, closed_stream_ids_, max_remote_stream_id_, rst_count_,
                   closed_, pending_dispatch_, reason>>

\* the flush at the end of feed_data
FeedDataEnds ==
    /\ place = "dispatch" /\ pending_dispatch_ = <<>>
    /\ FlushOutbound(streams_, {})
    /\ place' = IF closed_' THEN "closed" ELSE "read"
    /\ UNCHANGED <<net, alive, chunk, pending_dispatch_, current, reason>>

\* everybody waits for somebody else
Wait == UNCHANGED vars

Server ==
    \/ Upgrade \/ Read \/ ReadEnds \/ FeedData \/ FeedFrame \/ ScanFails
    \/ DispatchSkip \/ DispatchStart \/ HandlerMessage \/ HandlerReturns \/ FeedDataEnds
Next == (\E s \in Streams : ClientSend(s)) \/ ClientGone \/ Server \/ Wait

\* the event loop resumes what can go on; a client sends what it has to send
Spec == Init /\ [][Next]_vars /\ WF_vars(Server) /\ \A s \in Streams : WF_vars(ClientSend(s))

-----------------------------------------------------------------------------
(***************************************************************************)
(* Properties                                                              *)
(***************************************************************************)
\* messages a client expects on a stream, the end of the response included
Expected(s) ==
    CASE kind[s] = "chat" -> 3 [] kind[s] = "sse" -> 2 [] OTHER -> 1

\* No stream is answered more often than its handler answers, whichever
\* frames share a packet (the checks of
\* dispatch_pending_requests).
AnsweredOnce == \A s \in Streams : got[s] <= Expected(s)

\* A client that follows the protocol is never told that it does not: the
\* connection closes only when the client is gone, cancels too often, really
\* uses a closed stream, or a packet starts inside a frame, which the scan of
\* feed_data misreads.
NoFalseClose ==
    closed_ => \/ ~alive \/ reason = "misread"
               \/ reason = "resets" /\ rst_count_ > RstLimit
               \/ reason = "headers" /\ \E s \in Streams : kind[s] = "twice" /\ sent[s] = 2

\* Every request is answered, those of streaming calls included, while the
\* client stays and the connection is not closed for an error: "Incoming
\* HTTP/2 `DATA` chunks are parsed directly into typed messages and resumed
\* into `co_await ctx.read()`" (docs/content/docs/http/grpc.mdx:196).
CallsAnswered ==
    \A s \in Streams : <>(got[s] = Expected(s) \/ kind[s] = "cancel" \/ ~alive \/ closed_)

\* The same of connections without client or bidirectional streaming.
Settled(s) ==
    \/ got[s] = Expected(s) \/ kind[s] = "cancel" \/ ~alive \/ closed_
    \/ \E q \in Streams : Streaming(kind[q])
RequestsAnswered == \A s \in Streams : <>[]Settled(s)

\* The server lets go of a connection whose client is gone (the end of
\* run_h2_loop closes the socket), unless a streaming call waits for data.
LetGo == ~alive /\ (\A q \in Streams : ~Streaming(kind[q])) => place = "closed"
GoneIsClosed == <>[]LetGo
=============================================================================

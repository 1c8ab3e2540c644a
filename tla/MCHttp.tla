------------------------------- MODULE MCHttp -------------------------------
(***************************************************************************)
(* What serves and what sends HTTP requests, in one run: the start and the *)
(* stop of the server, HTTP/1, HTTP/2 and HTTP/3 connections, TLS,         *)
(* WebSocket sessions, the router, the chain a request goes through,       *)
(* static files, the byte scans of the parser, the detached handlers and   *)
(* event streams of the C interface, and the HTTP client with its          *)
(* sessions.  A behaviour is a behaviour of one of them, named by part.    *)
(* The server has variables of its own, and the other parts leave them as  *)
(* they are.  Those share the variables x1 to x23: a part has the first of *)
(* them for its own, in the order of its declaration, and the others are 0.*)
(***************************************************************************)
EXTENDS Server, Sequences

CONSTANTS w1, w2, c1, c2, s1, s2, k1, k2, none

VARIABLES
    part,
    x1, x2, x3, x4, x5, x6, x7, x8, x9, x10, x11, x12,
    x13, x14, x15, x16, x17, x18, x19, x20, x21, x22, x23

SomeRequests == {"get", "head", "post", "chunked", "expect", "close", "file", "sse", "ws", "h2c", "bad", "h2"}
\* Bound: connections with as many requests as there may be make these.
Longest == {"get", "post", "file", "chunked", "bad"}
SomeStreams == {"get", "post", "sse", "upload", "chat", "cancel", "twice"}

\* Frames of a WebSocket client, and the sequences it may send: messages whole
\* and in fragments, with control frames between, a UTF-8 sequence cut between
\* two frames, and one of everything that must be refused.
Frame(op, fin, pay) == [op |-> op, fin |-> fin, pay |-> pay, fine |-> "ok"]
Text == Frame("text", TRUE, "a")
SomeScripts ==
    {<<Text, [Text EXCEPT !.fine = "huge"]>>,
     <<Text, [Text EXCEPT !.fine = "bad"], Text>>,
     <<Text, Frame("ping", TRUE, ""), Text>>,
     <<Frame("text", FALSE, "h"), Frame("ping", TRUE, ""), Frame("cont", TRUE, "t"), Text>>,
     <<Frame("text", FALSE, "h"), Frame("cont", TRUE, ""), Text>>,
     <<Frame("text", FALSE, "h"), Frame("cont", TRUE, "a")>>,
     <<Frame("text", FALSE, "a"), Frame("cont", FALSE, "a"), Frame("cont", TRUE, "a")>>,
     <<Frame("text", FALSE, "a"), Frame("binary", TRUE, "x")>>,
     <<Frame("binary", TRUE, "h"), Frame("cont", TRUE, "a")>>,
     <<Text, Frame("text", TRUE, "h")>>,
     <<Text, Frame("close", TRUE, "a"), Text>>,
     <<Text, Frame("close", TRUE, "x")>>}

\* Prefix of the group and pattern of a route; paths asked for.
SomePatterns ==
    {<< <<>>, <<>> >>, << <<"/">>, <<"a">> >>, << <<"/">>, <<":y">> >>,
     << <<"/">>, <<"/", "a", "b">> >>, << <<"/">>, <<"/", ":x", "/", ":y", "/", ":x">> >>,
     << <<"/", "a">>, <<"/", ":x">> >>, << <<"/", "a">>, <<"b", "/">> >>,
     << <<"/", "a", "/">>, <<"*w">> >>, << <<>>, <<"/", ":x", "/", "b">> >>,
     << <<>>, <<"/", "a", "/", "b", "/", ":y">> >>, << <<>>, <<"/", "*v">> >>,
     << <<>>, <<"/", "a", "/", "*v">> >>}
SomePaths ==
    {<<>>} \cup {<<"/">> \o p : p \in
        {<<>>, <<"a">>, <<"b">>, <<"a", "/">>, <<"a", "b">>, <<"a", "/", "b">>, <<"a", "/", "c">>,
         <<"b", "/", "b">>, <<"a", "/", "/">>, <<"a", "/", "b", "/">>, <<"a", "/", "b", "/", "b">>,
         <<"a", "/", "b", "/", "b", "/", "c">>}}

\* Both sides of every bound the classifications compare with.
SomeBytes == {0, 9, 13, 31, 32, 37, 64, 65, 90, 91, 97, 127, 128, 193}

\* max_redirects, calls, and their methods; 3 is the largest uint8_t here.
SomeCalls == {<<0, 2, {"GET"}>>, <<1, 1, {"GET", "POST", "HEAD"}>>, <<3, 1, {"POST"}>>}
SomeFields ==
    [s \in {s1, s2} |-> IF s = s1 THEN {"GET", "HEAD", "field", "connection"} ELSE {"GET", "field"}]
SomeAnswers == [s \in {s1, s2} |-> IF s = s1 THEN {"body", "file", "events"} ELSE {"body"}]

H1 == INSTANCE Http1Connection WITH
    Kinds <- SomeRequests, MaxRequests <- 3, tls <- x1, pipelined <- x2, kind <- x3,
    tosend <- x4, alive <- x5, first_packet <- x6, req_accum_ <- x7, resp_batch_ <- x8,
    keep_alive <- x9, place <- x10, out <- x11
H2 == INSTANCE Http2Connection WITH
    Streams <- {1, 3}, Kinds <- SomeStreams, RstLimit <- 1, kind <- x1, sent <- x2, got <- x3,
    net <- x4, alive <- x5, place <- x6, chunk <- x7, streams_ <- x8, closed_stream_ids_ <- x9,
    max_remote_stream_id_ <- x10, rst_count_ <- x11, closed_ <- x12, pending_dispatch_ <- x13,
    current <- x14, outbound <- x15, reason <- x16
Ws == INSTANCE WebSocketSession WITH
    Scripts <- SomeScripts, MaxChunk <- 3, max_message_size <- 2, MaxCasts <- 1, echo <- x1,
    sent <- x2, transit <- x3, gone <- x4, pc <- x5, data <- x6, consumed <- x7,
    stream_buf_ <- x8, fragment <- x9, utf8 <- x10, batch_out_ <- x11, outq <- x12, then <- x13,
    is_closed_ <- x14, open_ <- x15, is_open_ <- x16, closed_fd <- x17, app <- x18, wire <- x19,
    cast <- x20, casts <- x21, overlapped <- x22, ended <- x23
Routes == INSTANCE Router WITH
    Patterns <- SomePatterns, Paths <- SomePaths, Methods <- {"GET", "POST"},
    Params <- {":x", ":y"}, Wilds <- {"*v", "*w"}, MaxRoutes <- 3, MAX <- 2, routes <- x1,
    root_ <- x2, static_routes_ <- x3
Chain == INSTANCE Dispatch WITH
    MaxGlobals <- 2, setup <- x1, pc <- x2, at <- x3, log <- x4, calls <- x5, params <- x6,
    res <- x7
Files == INSTANCE StaticFiles WITH
    Workers <- {w1, w2}, Sizes <- {0, 1, 2}, max_cache_file_size <- 1, MaxWrites <- 1,
    MaxRequests <- 2, cache_in_memory <- x1, disk <- x2, cache <- x3, w <- x4, kept <- x5,
    writes <- x6, requests <- x7, blurred <- x8
Scans == INSTANCE SimdString WITH
    W <- 4, MaxLen <- 7, Bytes <- SomeBytes, input <- x1, output <- x2
Client == INSTANCE HttpClient WITH
    Clients <- {c1, c2}, Origins <- {"a", "b"}, Https <- {"b"}, MaxIdle <- 1, MaxPerHost <- 1,
    Width <- 4, Settings <- SomeCalls, MaxFaults <- 1, None <- none, limit_ <- x1, calls <- x2,
    methods <- x3, place <- x4, req <- x5, hops <- x6, conn <- x7, recv_buf <- x8, out <- x9,
    idle_conns_ <- x10, socket <- x11, faults <- x12, asked <- x13, crossed <- x14, odd <- x15
ClientH2 == INSTANCE Http2ClientSession WITH
    MaxBody <- 3, Window <- 2, MaxFaults <- 1, sync <- x1, tls <- x2, body <- x3, pc <- x4,
    res <- x5, held <- x6, closed_ <- x7, complete <- x8, queue <- x9, body_offset <- x10,
    window <- x11, sent <- x12, inbox <- x13, eof <- x14, got <- x15, late <- x16, faults <- x17
ClientH3 == INSTANCE Http3ClientSession WITH
    Credits <- {0, 1, 3}, MaxLosses <- 2, MaxFaults <- 1, sync <- x1, body <- x2, pc <- x3,
    res <- x4, held <- x5, handshake_done_ <- x6, http3_streams_setup_ <- x7,
    request_submitted <- x8, complete <- x9, credit <- x10, opened <- x11, body_offset <- x12,
    flight <- x13, unacked <- x14, server <- x15, inbox <- x16, got <- x17, late <- x18,
    losses <- x19, faults <- x20
Conn == INSTANCE Http3Connection WITH
    Streams <- {s1, s2}, Fields <- SomeFields, Answers <- SomeAnswers, MaxSent <- 3,
    max_body_size <- 1, max_header_count <- 1, rst_burst_limit_ <- 1, MaxFrames <- 2,
    MaxLosses <- 1, None <- none, client <- x1, stream <- x2, pending_dispatch_ <- x3,
    ready <- x4, pc <- x5, cur <- x6, closed_ <- x7, rst_count_ <- x8, flight <- x9, got <- x10,
    called <- x11, wrote <- x12, hurt <- x13, losses <- x14
Quic == INSTANCE QuicServers WITH
    Conns <- {k1, k2}, MaxIds <- 4, Burst <- 2, MaxBursts <- 4, None <- none, server <- x1,
    running_ <- x2, pc <- x3, connections_ <- x4, conn <- x5, scids_ <- x6, first <- x7,
    held <- x8, touched <- x9, left <- x10, drawn <- x11, received <- x12, pruned <- x13,
    undefined <- x14
Async == INSTANCE AsyncHandlers WITH
    setup <- x1, req <- x2, mw <- x3, tok <- x4, mtx <- x5, mpc <- x6, hpc <- x7,
    post_queue_ <- x8, dones <- x9, harm <- x10
Sse == INSTANCE SseChannel WITH
    Senders <- {1, 2}, MaxFrames <- 2, post_queue_ <- x1, is_open <- x2, open_ <- x3,
    pending_frames <- x4, sending <- x5, flush <- x6, sender <- x7, completed <- x8,
    closed <- x9, on_close <- x10, ended <- x11, wire <- x12, posted <- x13, overlapped <- x14
Tls == INSTANCE TlsStream WITH
    MaxMessages <- 2, MaxPushes <- 2, setup <- x1, pc <- x2, ssl <- x3, in_bio_ <- x4,
    out_bio_ <- x5, ktls_tx_ <- x6, rec_seq <- x7, flush <- x8, after <- x9, inbound <- x10,
    peer <- x11, wire <- x12, ok <- x13, pushes <- x14, fd <- x15, met <- x16

ASSUME
    /\ ServerAssumption /\ H1!ConnectionAssumption /\ H2!H2Assumption /\ Ws!SessionAssumption
    /\ Routes!RouterAssumption /\ Chain!DispatchAssumption /\ Files!FilesAssumption
    /\ Scans!ScanAssumption /\ Client!ClientAssumption /\ ClientH2!SessionAssumption
    /\ ClientH3!SessionAssumption /\ Conn!ConnAssumption /\ Quic!ServersAssumption
    /\ Sse!ChannelAssumption /\ Tls!TlsAssumption

-----------------------------------------------------------------------------
(* What follows the first n variables. *)
from23 == vars
from20 == <<x21, x22, x23, from23>>
from17 == <<x18, x19, x20, from20>>
from16 == <<x17, from17>>
from15 == <<x16, from16>>
from14 == <<x15, from15>>
from11 == <<x12, x13, x14, from14>>
from10 == <<x11, from11>>
from8 == <<x9, x10, from10>>
from7 == <<x8, from8>>
from3 == <<x4, x5, x6, x7, from7>>
from2 == <<x3, from3>>
xs == <<x1, x2, x3, x4, x5, x6, x7, x8, x9, x10, x11, x12,
        x13, x14, x15, x16, x17, x18, x19, x20, x21, x22, x23>>
from0 == <<x1, x2, from2>>
all == <<part, from0>>

Idle23 == Init
Idle20 == x21 = 0 /\ x22 = 0 /\ x23 = 0 /\ Idle23
Idle17 == x18 = 0 /\ x19 = 0 /\ x20 = 0 /\ Idle20
Idle16 == x17 = 0 /\ Idle17
Idle15 == x16 = 0 /\ Idle16
Idle14 == x15 = 0 /\ Idle15
Idle11 == x12 = 0 /\ x13 = 0 /\ x14 = 0 /\ Idle14
Idle10 == x11 = 0 /\ Idle11
Idle8 == x9 = 0 /\ x10 = 0 /\ Idle10
Idle7 == x8 = 0 /\ Idle8
Idle3 == x4 = 0 /\ x5 = 0 /\ x6 = 0 /\ x7 = 0 /\ Idle7
Idle2 == x3 = 0 /\ Idle3
Idle0 == x1 = 0 /\ x2 = 0 /\ Idle2

MCInit ==
    \/ part = "server" /\ Idle0
    \/ /\ part = "http1" /\ H1!Init /\ Idle11
       /\ Len(x3) = 3 => \A i \in 1 .. 3 : x3[i] \in Longest
    \/ part = "http2" /\ H2!Init /\ Idle16
    \/ part = "websocket" /\ Ws!Init /\ Idle23
    \/ part = "router" /\ Routes!Init /\ Idle3
    \/ part = "dispatch" /\ Chain!Init /\ Idle7
    \/ part = "files" /\ Files!Init /\ Idle8
    \/ part = "scans" /\ Scans!Init /\ Idle2
    \/ part = "client" /\ Client!Init /\ Idle15
    \/ part = "client2" /\ ClientH2!Init /\ Idle17
    \/ part = "client3" /\ ClientH3!Init /\ Idle20
    \/ part = "http3" /\ Conn!Init /\ Idle14
    \/ part = "quic" /\ Quic!Init /\ Idle14
    \/ part = "async" /\ Async!Init /\ Idle10
    \/ part = "sse" /\ Sse!Init /\ Idle14
    \/ part = "tls" /\ Tls!Init /\ Idle16
\* Bound: methods are interchangeable, so the first route has the first of them.
GetFirst == x1'[1].method = "GET"
MCNext ==
    \/ part = "server" /\ Next /\ UNCHANGED <<part, xs>>
    \/ part = "http1" /\ H1!Next /\ UNCHANGED <<part, from11>>
    \/ part = "http2" /\ H2!Next /\ UNCHANGED <<part, from16>>
    \/ part = "websocket" /\ Ws!Next /\ UNCHANGED <<part, from23>>
    \/ part = "router" /\ Routes!Next /\ GetFirst /\ UNCHANGED <<part, from3>>
    \/ part = "dispatch" /\ Chain!Next /\ UNCHANGED <<part, from7>>
    \/ part = "files" /\ Files!Next /\ UNCHANGED <<part, from8>>
    \/ part = "scans" /\ Scans!Next /\ UNCHANGED <<part, from2>>
    \/ part = "client" /\ Client!Next /\ UNCHANGED <<part, from15>>
    \/ part = "client2" /\ ClientH2!Next /\ UNCHANGED <<part, from17>>
    \/ part = "client3" /\ ClientH3!Next /\ UNCHANGED <<part, from20>>
    \/ part = "http3" /\ Conn!Next /\ UNCHANGED <<part, from14>>
    \/ part = "quic" /\ Quic!Next /\ UNCHANGED <<part, from14>>
    \/ part = "async" /\ Async!Next /\ UNCHANGED <<part, from10>>
    \/ part = "sse" /\ Sse!Next /\ UNCHANGED <<part, from14>>
    \/ part = "tls" /\ Tls!Next /\ UNCHANGED <<part, from16>>

\* The fairness of the parts, process by process: servers and loops run on,
\* peers send what they have to send, and packets sent again arrive.
First ==
    \/ part = "server" /\ Main /\ UNCHANGED <<part, xs>>
    \/ part = "http1" /\ H1!Server /\ UNCHANGED <<part, from11>>
    \/ part = "http2" /\ H2!Server /\ UNCHANGED <<part, from16>>
    \/ part = "websocket" /\ Ws!Work /\ UNCHANGED <<part, from23>>
    \/ part = "client" /\ Client!Runs(c1) /\ UNCHANGED <<part, from15>>
    \/ part = "client2" /\ ClientH2!Session /\ UNCHANGED <<part, from17>>
    \/ part = "client3" /\ ClientH3!Session /\ UNCHANGED <<part, from20>>
    \/ part = "http3" /\ Conn!Loop /\ UNCHANGED <<part, from14>>
    \/ part = "async" /\ Async!LoopStep /\ UNCHANGED <<part, from10>>
    \/ part = "sse" /\ Sse!LoopStep /\ UNCHANGED <<part, from14>>
    \/ part = "tls" /\ Tls!LoopStep /\ UNCHANGED <<part, from16>>
Second ==
    \/ part = "server" /\ StopStep /\ UNCHANGED <<part, xs>>
    \/ part = "http1" /\ H1!Recv /\ UNCHANGED <<part, from11>>
    \/ part = "http2" /\ H2!ClientSend(1) /\ UNCHANGED <<part, from16>>
    \/ part = "client" /\ Client!Runs(c2) /\ UNCHANGED <<part, from15>>
    \/ part = "client2" /\ ClientH2!Tick /\ UNCHANGED <<part, from17>>
    \/ part = "client3" /\ ClientH3!Tick /\ UNCHANGED <<part, from20>>
    \/ part = "http3" /\ Conn!Returns /\ UNCHANGED <<part, from14>>
    \/ part = "async" /\ Async!MwStep /\ UNCHANGED <<part, from10>>
    \/ part = "sse" /\ Sse!WriteStep /\ UNCHANGED <<part, from14>>
    \/ part = "tls" /\ Tls!PeerStep /\ UNCHANGED <<part, from16>>
Third ==
    \/ part = "server" /\ WorkerStep(w1) /\ UNCHANGED <<part, xs>>
    \/ part = "http2" /\ H2!ClientSend(3) /\ UNCHANGED <<part, from16>>
    \/ part = "client" /\ Client!Answer(1) /\ UNCHANGED <<part, from15>>
    \/ part = "client2" /\ ClientH2!Serve /\ UNCHANGED <<part, from17>>
    \/ part = "client3" /\ ClientH3!Serve /\ UNCHANGED <<part, from20>>
    \/ part = "http3" /\ Conn!TimerSends /\ UNCHANGED <<part, from14>>
    \/ part = "async" /\ Async!TokenStep /\ UNCHANGED <<part, from10>>
    \/ part = "sse" /\ Sse!SenderStep(1) /\ UNCHANGED <<part, from14>>
Fourth ==
    \/ part = "server" /\ WorkerStep(w2) /\ UNCHANGED <<part, xs>>
    \/ part = "client" /\ Client!Answer(2) /\ UNCHANGED <<part, from15>>
    \/ part = "client3" /\ ClientH3!Deliver("initial") /\ UNCHANGED <<part, from20>>
    \/ part = "http3" /\ Conn!Deliver(s1) /\ UNCHANGED <<part, from14>>
    \/ part = "sse" /\ Sse!SenderStep(2) /\ UNCHANGED <<part, from14>>
Fifth ==
    \/ part = "client" /\ Client!Answer(3) /\ UNCHANGED <<part, from15>>
    \/ part = "client3" /\ ClientH3!Deliver("request") /\ UNCHANGED <<part, from20>>
    \/ part = "http3" /\ Conn!Deliver(s2) /\ UNCHANGED <<part, from14>>
MCSpec ==
    /\ MCInit /\ [][MCNext]_all
    /\ WF_all(First) /\ WF_all(Second) /\ WF_all(Third) /\ WF_all(Fourth) /\ WF_all(Fifth)

-----------------------------------------------------------------------------
(* Properties *)

\* Responses leave in the order of the requests, one each (Http1Connection).
ResponsesInOrder == part = "http1" => H1!TypeOK /\ H1!ResponsesInOrder
\* No stream is answered too often, no handler called too often, and the answer
\* comes from the layer that ended the chain (Http2Connection, Dispatch);
\* detached handlers and middleware keep to their order (AsyncHandlers).
AnsweredOnce ==
    /\ part = "http2" => H2!TypeOK /\ H2!AnsweredOnce
    /\ part = "dispatch" => Chain!DispatchRight
    /\ part = "async" => Async!Detached
\* A client that follows the protocol is neither refused (Http1Connection) nor
\* disconnected (Http2Connection).
NoFalseRefusal ==
    /\ part = "http1" => H1!OnlyBadRefused
    /\ part = "http2" => H2!NoFalseClose
\* The messages of a WebSocket client arrive whole and once, however they are
\* cut, and so do the frames sent to it (WebSocketSession), the events of a
\* stream (SseChannel) and the records of a TLS connection (TlsStream).
MessagesExact ==
    /\ part = "websocket" => Ws!MessagesExact /\ Ws!FramesWhole
    /\ part = "sse" => Sse!ChannelRight
    /\ part = "tls" => Tls!TlsRight
\* A request finds the route that its patterns say, whatever else is registered
\* (Router), and a vector scan finds what a scan byte by byte finds
\* (SimdString).
LookupsAgree ==
    /\ part = "router" => Routes!RoutesRight
    /\ part = "scans" => Scans!ScansAgree
\* A static file is answered with its current bytes, but for the cases
\* StaticFiles names.
FilesFresh == part = "files" => Files!FilesFresh
\* A server that is stopped comes to its end (Server).  Every request is
\* answered (Http1Connection, Http2Connection, Http3Connection), and the
\* connection of a client that is gone is closed (Http2Connection,
\* WebSocketSession, TlsStream); a detached request ends (AsyncHandlers), an
\* event stream sends what it has (SseChannel), and calls of the client return
\* (HttpClient, Http2ClientSession, Http3ClientSession), but for the cases
\* each module names.
RequestsAnswered ==
    <>[](/\ part = "server" => Stopped
         /\ part = "http1" => \A r \in 1 .. 3 : H1!Settled(r)
         /\ part = "http2" => /\ \A s \in {1, 3} : H2!Settled(s)
                              /\ H2!LetGo
         /\ part = "websocket" => Ws!SessionOver
         /\ part = "async" => Async!Ends
         /\ part = "sse" => Sse!Drained
         /\ part = "tls" => Tls!Over
         /\ part = "http3" => Conn!Served(s1) /\ Conn!Served(s2)
         /\ part = "client" => Client!Ended(c1) /\ Client!Ended(c2)
         /\ part = "client2" => ClientH2!Finished
         /\ part = "client3" => ClientH3!Finished)
\* Who asked gets the whole answer to what they asked, and the body they sent
\* arrives whole, but for the cases each module names (HttpClient,
\* Http2ClientSession, Http3ClientSession, Http3Connection).
AnswersRight ==
    /\ part = "client" => Client!RightResponse
    /\ part = "client2" => ClientH2!BodyWhole /\ ClientH2!WholeAnswer
    /\ part = "client3" => ClientH3!StreamsOnce /\ ClientH3!WholeAnswer
    /\ part = "http3" => Conn!AnswerInOrder
\* A handler sees whole requests, within the limits, of streams that still
\* exist (Http3Connection).
HandledWhole == part = "http3" => Conn!HandledWhole /\ Conn!GoneIsForgotten
\* Every open socket is idle or held once, within the limits of the pool
\* (HttpClient); a datagram reaches the connection its id belongs to, and the
\* receive loop flushes connections that exist, but for the cases QuicServers
\* names.
ConnectionsAccounted ==
    /\ part = "client" => Client!SocketsAccounted
    /\ part = "quic" => Quic!RoutesRight /\ Quic!TouchedAlive
\* Redirects are bounded, and credentials do not follow them to another origin
\* (HttpClient).
RedirectsBounded == part = "client" => Client!RedirectsBounded
=============================================================================

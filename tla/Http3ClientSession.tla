------------------------- MODULE Http3ClientSession -------------------------
(***************************************************************************)
(* One request over HTTP/3, in a session of its own                        *)
(* (src/src/http/client/Http3ClientSession.cpp).  ngtcp2, nghttp3, the     *)
(* network and the server are external: a flight is the packets that carry *)
(* one thing, the handshake or the request; what the server sends is       *)
(* retransmitted by the server until it arrives, in stream order.          *)
(***************************************************************************)
EXTENDS Integers, FiniteSets, SequencesExt

CONSTANTS
    Credits,        \* unidirectional streams the server allows at first
    MaxLosses,      \* bound: flights of the client that are lost
    MaxFaults       \* bound: failures and resets

SessionAssumption == Credits \subseteq 0 .. 3 /\ {MaxLosses, MaxFaults} \subseteq Nat

VARIABLES
    sync, body,             \* execute_sync or execute; the request has a body
    pc, res,                \* where the call is; its Response
    held,                   \* what the session owns
    handshake_done_, http3_streams_setup_, request_submitted, complete,
    credit, opened,         \* uni streams allowed; those opened, in order
    body_offset,            \* chunks of the body handed to nghttp3
    flight, unacked,        \* flights under way; flights the server has not confirmed
    server,                 \* what the server has: flights, and its answer so far
    inbox, got,             \* datagrams to read; frames of the response received
    late, losses, faults

vars == <<sync, body, pc, res, held, handshake_done_, http3_streams_setup_, request_submitted, complete,
          credit, opened, body_offset, flight, unacked, server, inbox, got, late, losses, faults>>
config == <<sync, body>>
h3 == <<handshake_done_, http3_streams_setup_, request_submitted, complete, credit, opened, body_offset, got>>
net == <<flight, unacked, server, inbox>>

Init ==
    /\ sync \in BOOLEAN /\ body \in 0 .. 1
    /\ pc = "init" /\ res = <<>> /\ held = {}
    /\ handshake_done_ = FALSE /\ http3_streams_setup_ = FALSE /\ request_submitted = FALSE
    /\ complete = FALSE /\ credit \in Credits /\ opened = <<>> /\ body_offset = 0
    /\ flight = {} /\ unacked = {} /\ server = [has |-> {}, answered |-> 0] /\ inbox = <<>> /\ got = <<>>
    /\ late = FALSE /\ losses = 0 /\ faults = 0

Fault == faults < MaxFaults /\ faults' = faults + 1
Return(r) == pc' = "drop" /\ res' = r

-----------------------------------------------------------------------------
\* flush_outbound(): new packets, and those ngtcp2 has declared lost.
flush_outbound(what) == flight' = flight \cup what /\ unacked' = unacked \cup what

\* init_quic(), then the first flight.  A step of it may fail, with what was
\* made before it in the session's hands.
Steps == <<"fd", "ctx", "ssl", "quic", "crypto", "h3">>
init_quic ==
    /\ pc = "init"
    /\ \/ /\ held' = Range(Steps) /\ flush_outbound({"initial"}) /\ pc' = "loop"
          /\ UNCHANGED <<res, faults>>
       \/ /\ \E n \in 0 .. 5 : held' = {Steps[i] : i \in 1 .. n}
          /\ Return(<<"502">>) /\ Fault /\ UNCHANGED <<flight, unacked>>
    /\ UNCHANGED <<config, h3, server, inbox, late, losses>>

\* Mutant: the streams count as set up when the first could be opened.
setup_http3_streams_Early(done, allowed) ==
    IF done \/ allowed = 0 THEN [ids |-> opened, done |-> done]
    ELSE [ids |-> opened \o SubSeq(<<"control", "encoder", "decoder">>, 1, allowed), done |-> TRUE]
\* setup_http3_streams(): opens the control and the two QPACK streams.  When
\* the server allows fewer it gives up, and starts over the next time.
setup_http3_streams(done, allowed) ==
    IF done THEN [ids |-> opened, done |-> TRUE]
    ELSE [ids |-> opened \o SubSeq(<<"control", "encoder", "decoder">>, 1, allowed - Len(opened)),
          done |-> allowed - Len(opened) >= 3]

\* Mutant: a stream that is closed without its end does not complete.
Received_End(f) ==
    /\ got' = IF f \in {"head", "data", "end", "reset"} THEN Append(got, f) ELSE got
    /\ complete' = (f = "end")
\* on_recv_header, on_recv_data, on_end_stream and on_stream_close.
Received(f) ==
    /\ got' = IF f \in {"head", "data", "end", "reset"} THEN Append(got, f) ELSE got
    /\ complete' = (f \in {"end", "reset"})

\* on_stream_read(): all of the body at once.
on_stream_read == body

\* process_datagram() of what has come, and the rest of the loop's body: the
\* request is submitted as soon as the streams are set up.
receive ==
    /\ pc = "loop" /\ ~complete /\ inbox # <<>>
    /\ LET f == Head(inbox)
           done == handshake_done_ \/ f = "hello"
           allowed == IF f = "credit" THEN Len(opened) + 3 ELSE credit
           setup == IF done THEN setup_http3_streams(http3_streams_setup_, allowed)
                    ELSE [ids |-> opened, done |-> FALSE]
       IN /\ inbox' = Tail(inbox) /\ Received(f)
          /\ handshake_done_' = done /\ credit' = allowed
          /\ opened' = setup.ids /\ http3_streams_setup_' = setup.done
          /\ request_submitted' = (request_submitted \/ setup.done)
          /\ body_offset' = IF setup.done THEN on_stream_read ELSE body_offset
          /\ flush_outbound(IF setup.done /\ ~request_submitted THEN {"request"} ELSE {})
    /\ UNCHANGED <<config, pc, res, held, server, late, losses, faults>>

\* ngtcp2_conn_handle_expiry() and a flush resend what was lost.  execute_sync()
\* looks at the timer every 50 ms; execute() only when a datagram has come.
handle_expiry ==
    /\ pc = "loop" /\ ~complete /\ (sync \/ inbox # <<>>) /\ unacked \ flight # {}
    /\ flush_outbound(unacked)
    /\ UNCHANGED <<config, pc, res, held, h3, server, inbox, late, losses, faults>>

\* execute_sync() alone looks at the timeout.
timed_out ==
    /\ pc = "loop" /\ ~complete /\ sync /\ late
    /\ Return(<<"504">>)
    /\ UNCHANGED <<config, held, h3, net, late, losses, faults>>
\* execute(): recv() fails, for instance with ECONNREFUSED.
recv_failed ==
    /\ pc = "loop" /\ ~complete /\ ~sync /\ inbox = <<>> /\ Fault
    /\ Return(IF request_submitted THEN got ELSE <<"502">>)
    /\ UNCHANGED <<config, held, h3, net, late, losses>>
finish ==
    /\ pc = "loop" /\ complete
    /\ Return(got)
    /\ UNCHANGED <<config, held, h3, net, late, losses, faults>>
\* Mutant: the UDP socket stays open.
close_Socket ==
    /\ pc = "drop" /\ pc' = "done" /\ held' = held \cap {"fd"}
    /\ UNCHANGED <<config, res, h3, net, late, losses, faults>>
\* The destructor's close().
close ==
    /\ pc = "drop" /\ pc' = "done" /\ held' = {}
    /\ UNCHANGED <<config, res, h3, net, late, losses, faults>>

-----------------------------------------------------------------------------
(* The network, the server and the clock (external) *)

Deliver(f) ==
    /\ f \in flight /\ flight' = flight \ {f} /\ unacked' = unacked \ {f}
    /\ server' = [server EXCEPT !.has = @ \cup {f}]
    /\ inbox' = IF f = "initial" /\ f \notin server.has THEN Append(inbox, "hello") ELSE inbox
    /\ UNCHANGED <<config, pc, res, held, h3, late, losses, faults>>
Lose(f) ==
    /\ f \in flight /\ losses < MaxLosses /\ losses' = losses + 1
    /\ flight' = flight \ {f}
    /\ UNCHANGED <<config, pc, res, held, h3, unacked, server, inbox, late, faults>>
Serve ==
    /\ pc = "loop"
    /\ \/ /\ "request" \in server.has /\ server.answered < 3
          /\ inbox' = Append(inbox, <<"head", "data", "end">>[server.answered + 1])
          /\ server' = [server EXCEPT !.answered = @ + 1]
       \/ /\ handshake_done_ /\ ~http3_streams_setup_ /\ inbox = <<>>
          /\ inbox' = <<"credit">> /\ UNCHANGED server
    /\ UNCHANGED <<config, pc, res, held, h3, flight, unacked, late, losses, faults>>
Resets ==
    /\ pc = "loop" /\ "request" \in server.has /\ server.answered < 3 /\ Fault
    /\ inbox' = Append(inbox, "reset") /\ server' = [server EXCEPT !.answered = 3]
    /\ UNCHANGED <<config, pc, res, held, h3, flight, unacked, late, losses>>
Tick ==
    /\ ~late /\ pc = "loop" /\ late' = TRUE
    /\ UNCHANGED <<config, pc, res, held, h3, net, losses, faults>>

\* execute_sync() and execute().
Session ==
    init_quic \/ receive \/ handle_expiry \/ timed_out \/ finish \/ close
Rest == pc \in {"loop", "done"} /\ UNCHANGED vars

Next ==
    \/ Session \/ recv_failed \/ Serve \/ Resets \/ Tick \/ Rest
    \/ \E f \in {"initial", "request"} : Deliver(f) \/ Lose(f)
\* A datagram that is not lost arrives; the caller runs on and time passes.
Spec ==
    /\ Init /\ [][Next]_vars /\ WF_vars(Session) /\ WF_vars(Serve) /\ WF_vars(Tick)
    /\ \A f \in {"initial", "request"} : WF_vars(Deliver(f))

-----------------------------------------------------------------------------
\* The request goes out after the control and QPACK streams are open, and the
\* control stream is opened once, unless the server allows some of the three
\* streams only: then a later attempt opens a second one
\* (setup_http3_streams).
StreamsOnce ==
    /\ "request" \in unacked \cup server.has =>
          handshake_done_ /\ {"control", "encoder", "decoder"} \subseteq Range(opened)
    /\ Len(SelectSeq(opened, LAMBDA s : s = "control")) > 1 =>
          SubSeq(opened, 1, 3) # <<"control", "encoder", "decoder">>

\* A response is the server's whole answer, unless the stream was reset or
\* reading failed; nothing of the session outlives it (execute, close).
WholeAnswer ==
    /\ pc \in {"drop", "done"} =>
          \/ res \in {<<"502">>, <<"504">>, <<"head", "data", "end">>}
          \/ faults > 0 /\ IsPrefix(SelectSeq(res, LAMBDA f : f # "reset"), <<"head", "data">>)
    /\ pc = "done" => held = {}

\* execute_sync() ends whatever is lost.  execute() ends when none of its
\* flights is lost: it has no timer of its own.
Finished == pc = "done" \/ (~sync /\ losses > 0)
SessionEnds == <>[]Finished
=============================================================================

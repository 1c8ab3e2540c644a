-------------------------- MODULE Http3Connection --------------------------
(***************************************************************************)
(* One HTTP/3 connection of the server (src/http/v3/Http3Connection.cpp).  *)
(* ngtcp2 and nghttp3 turn each datagram into callbacks, which fill the    *)
(* streams and note the complete requests; feed_datagram then dispatches   *)
(* those one after another and flushes what the responses have to say.     *)
(* A handler may suspend: the receive loop waits for it, the timer does    *)
(* not.  QUIC keeps the order of a stream and sends a lost packet again    *)
(* from the memory it was given.                                           *)
(*                                                                         *)
(* External: the two libraries, the client and the network.                *)
(***************************************************************************)
EXTENDS Naturals, Sequences, FiniteSets, SequencesExt

CONSTANTS
    Streams,        \* request streams of the client
    Fields,         \* [s -> header fields the client may send there]
    Answers,        \* [s -> kinds of answer its route gives]
    MaxSent,        \* fields, chunks, trailers and resets the client sends in all
    max_body_size,  \* limits.max_body_size, in chunks
    max_header_count,
    rst_burst_limit_,
    MaxFrames,      \* events of all event streams
    MaxLosses,      \* packets the network loses
    None

ConnAssumption == /\ {MaxSent, MaxFrames, MaxLosses} \subseteq Nat
                  /\ MaxFrames <= 3
                  /\ {max_body_size, max_header_count, rst_burst_limit_} \subseteq Nat

VARIABLES
    client,            \* [s -> what the client sent: phase, frames, chunks]
    stream,            \* streams_: [s -> Http3Stream], Absent when not in it
    pending_dispatch_, ready, pc, cur,
    closed_, rst_count_,
    flight,            \* [s -> parts QUIC has not delivered yet]
    got,               \* [s -> parts the client received]
    called,            \* [s -> body the handler saw, None before]
    wrote,             \* [s -> parts the handler's answer consists of]
    hurt,              \* streams of which a lost packet was no longer intact
    losses

vars == <<client, stream, pending_dispatch_, ready, pc, cur, closed_, rst_count_,
          flight, got, called, wrote, hurt, losses>>

NewStream == [here |-> TRUE, method |-> "GET", seen |-> {}, count |-> 0, body |-> 0,
              headers_received |-> FALSE, error_status |-> "Ok",
              response_submitted |-> FALSE, head |-> FALSE, mode |-> "body",
              buf |-> <<>>, offset |-> 0, eof |-> FALSE, ended |-> FALSE]
Absent == [NewStream EXCEPT !.here = FALSE]

Init ==
    /\ client = [s \in Streams |-> [phase |-> "head", sent |-> 0, chunks |-> 0]]
    /\ stream = [s \in Streams |-> Absent]
    /\ pending_dispatch_ = <<>> /\ ready = <<>> /\ pc = "idle" /\ cur = None
    /\ closed_ = FALSE /\ rst_count_ = 0
    /\ flight = [s \in Streams |-> <<>>]
    /\ got = [s \in Streams |-> <<>>]
    /\ called = [s \in Streams |-> None]
    /\ wrote = [s \in Streams |-> <<>>]
    /\ hurt = {} /\ losses = 0

-----------------------------------------------------------------------------
(* The request side: callbacks of nghttp3 while a datagram is read.        *)

get_or_create_stream(s) == IF stream[s].here THEN stream[s] ELSE NewStream

\* is_prohibited_header, the te check and the fields no request may carry.
is_prohibited_header(f) == f \in {"connection", "te"}

\* The pseudo header a field is, or "regular".
PseudoOf(f) == IF f \in {"GET", "HEAD"} THEN ":method"
               ELSE IF f \in {":path", "long path"} THEN ":path"
               ELSE IF f \in {":scheme", ":authority", "user@"} THEN f ELSE "regular"

\* The field is malformed here: the callback fails and so does the connection.
Malformed(t, f) ==
    \/ is_prohibited_header(f)
    \/ PseudoOf(f) # "regular" /\ "regular" \in t.seen
    \/ PseudoOf(f) # "regular" /\ PseudoOf(f) \in t.seen
    \/ f \in {"user@", "bad length"}

FirstError(t, e) == IF t.error_status = "Ok" THEN e ELSE t.error_status

\* Mutant: the header limits are not looked at.
on_stream_header_NoLimit(t, f) ==
    [t EXCEPT !.headers_received = TRUE, !.seen = @ \cup {PseudoOf(f)},
              !.method = IF f = "HEAD" THEN f ELSE @,
              !.count = @ + (IF f \in {"field", ":authority"} THEN 1 ELSE 0)]

on_stream_header(t, f) ==
    LET counted == IF t.count >= max_header_count THEN FirstError(t, "431")
                                                  ELSE t.error_status
        status  == IF counted # "Ok" THEN counted
                   ELSE IF f = "long path" THEN "414"
                   ELSE IF f = "large length" THEN "413" ELSE "Ok"
    IN  [t EXCEPT !.headers_received = TRUE, !.seen = @ \cup {PseudoOf(f)},
                  !.method = IF f = "HEAD" THEN f ELSE @,
                  !.count = @ + (IF f \in {"field", ":authority", "large length"}
                                 THEN 1 ELSE 0),
                  !.error_status = status]

\* Mutant: a chunk that does not fit is dropped without a word.
on_stream_data_Silent(t) == IF t.body + 1 > max_body_size THEN t
                            ELSE [t EXCEPT !.body = @ + 1]

on_stream_data(t) ==
    IF t.body + 1 > max_body_size
    THEN [t EXCEPT !.error_status = FirstError(t, "413")]
    ELSE [t EXCEPT !.body = @ + 1]

Sent == FoldSet(LAMBDA s, n : client[s].sent + n, 0, Streams)

Reading == pc \in {"idle", "reading"} /\ ~closed_

\* A failed callback: feed_datagram sends CONNECTION_CLOSE and gives up.
Refuse == /\ closed_' = TRUE /\ pc' = "idle"
          /\ UNCHANGED <<stream, pending_dispatch_>>

ReadHeader(s, f) ==
    /\ Reading /\ Sent < MaxSent
    /\ client[s].phase = "head"
    /\ client' = [client EXCEPT ![s].sent = @ + 1]
    /\ LET t == get_or_create_stream(s)
       IN  IF Malformed(t, f) THEN Refuse
           ELSE /\ stream' = [stream EXCEPT ![s] = on_stream_header(t, f)]
                /\ pc' = "reading"
                /\ UNCHANGED <<closed_, pending_dispatch_>>
    /\ UNCHANGED <<ready, cur, rst_count_, flight, got, called, wrote, hurt, losses>>

ReadData(s) ==
    /\ Reading /\ Sent < MaxSent
    /\ client[s].phase \in {"head", "data"} /\ client[s].sent > 0
    /\ client' = [client EXCEPT ![s].phase = "data", ![s].sent = @ + 1, ![s].chunks = @ + 1]
    /\ stream' = [stream EXCEPT ![s] = on_stream_data(get_or_create_stream(s))]
    /\ pc' = "reading"
    /\ UNCHANGED <<closed_, pending_dispatch_, ready, cur, rst_count_, flight, got,
                   called, wrote, hurt, losses>>

\* on_stream_trailer: a trailer joins the fields unchecked (count is that of the
\* header list), a pseudo, connection or framing one fails the connection.
ReadTrailer(s, fine) ==
    /\ Reading /\ Sent < MaxSent
    /\ client[s].phase = "data"
    /\ client' = [client EXCEPT ![s].phase = "trailer", ![s].sent = @ + 1]
    /\ IF ~fine THEN Refuse
       ELSE /\ stream' = [stream EXCEPT ![s] = get_or_create_stream(s)]
            /\ pc' = "reading"
            /\ UNCHANGED <<closed_, pending_dispatch_>>
    /\ UNCHANGED <<ready, cur, rst_count_, flight, got, called, wrote, hurt, losses>>

\* on_stream_end.
ReadEnd(s) ==
    /\ Reading
    /\ client[s].phase \in {"head", "data", "trailer"} /\ client[s].sent > 0
    /\ client' = [client EXCEPT ![s].phase = "done"]
    /\ stream' = [stream EXCEPT ![s] = get_or_create_stream(s)]
    /\ pending_dispatch_' = Append(pending_dispatch_, s)
    /\ pc' = "reading"
    /\ UNCHANGED <<closed_, ready, cur, rst_count_, flight, got, called, wrote, hurt, losses>>

\* Mutant: a reset leaves the stream in the table.
on_stream_close_Kept(s) == stream' = stream

on_stream_close(s) == stream' = [stream EXCEPT ![s] = Absent]

\* The client resets its side of the stream (stream_reset) or asks the server
\* to stop (stream_stop_sending): nghttp3 closes the stream either way.
ReadReset(s, stop) ==
    /\ Reading /\ Sent < MaxSent
    /\ client[s].phase # "gone" /\ client[s].sent > 0
    /\ client' = [client EXCEPT ![s].phase = "gone", ![s].sent = @ + 1]
    /\ on_stream_close(s)
    /\ IF stop THEN UNCHANGED <<rst_count_, closed_>>
       ELSE /\ rst_count_' = rst_count_ + 1
            /\ closed_' = (rst_count_ + 1 > rst_burst_limit_)
    /\ flight' = [flight EXCEPT ![s] = <<>>]
    /\ pc' = "reading"
    /\ UNCHANGED <<pending_dispatch_, ready, cur, got, called, wrote, hurt, losses>>

\* Both sides are done and acknowledged: QUIC closes the stream.
ReadClosed(s) ==
    /\ Reading
    /\ client[s].phase = "done" /\ "end" \in Range(got[s]) /\ stream[s].here
    /\ on_stream_close(s)
    /\ pc' = "reading"
    /\ UNCHANGED <<client, closed_, pending_dispatch_, ready, cur, rst_count_, flight, got,
                   called, wrote, hurt, losses>>

\* The datagram is read: feed_datagram goes on to the complete requests.
ReadDone ==
    /\ pc = "reading"
    /\ IF closed_ THEN pc' = "flush" /\ UNCHANGED <<ready, pending_dispatch_>>
       ELSE pc' = "dispatch" /\ ready' = pending_dispatch_ /\ pending_dispatch_' = <<>>
    /\ UNCHANGED <<client, stream, cur, closed_, rst_count_, flight, got, called, wrote,
                   hurt, losses>>

-----------------------------------------------------------------------------
(* The response side.                                                      *)

\* submit_response: status line, content-length, date and the handler's fields,
\* then the body.  submit_sse_headers is the same without a length.
submit_response(t, parts) ==
    [t EXCEPT !.response_submitted = TRUE, !.head = TRUE, !.buf = parts, !.offset = 0]

submit_sse_headers(t) ==
    [t EXCEPT !.response_submitted = TRUE, !.head = TRUE, !.mode = "sse"]

\* setup_file_response: a HEAD or an empty file has no body; the file is mapped,
\* or read into the body when it cannot be mapped; else the answer is a 404.
setup_file_response(t, parts, outcome) ==
    CASE t.method = "HEAD" \/ parts = <<>> -> submit_response([t EXCEPT !.mode = "file"], <<>>)
      [] outcome = "mapped"  -> submit_response([t EXCEPT !.mode = "file"], parts)
      [] outcome = "read"    -> submit_response(t, parts)
      [] outcome = "missing" -> submit_response(t, <<"Not Found">>)

\* What on_stream_read hands to nghttp3, the end of the stream included.
EndOfBody == <<"end">>

\* Mutant: an event stream waits for more after the handler returned.
on_stream_read_NoEnd(t) ==
    LET rest == SubSeq(t.buf, t.offset + 1, Len(t.buf)) IN
    IF t.mode = "sse" THEN rest
    ELSE IF t.method = "HEAD" THEN EndOfBody ELSE rest \o EndOfBody

on_stream_read(t) ==
    LET rest == SubSeq(t.buf, t.offset + 1, Len(t.buf)) IN
    IF t.mode = "sse" THEN IF t.eof THEN rest \o EndOfBody ELSE rest
    ELSE IF t.method = "HEAD" THEN EndOfBody ELSE rest \o EndOfBody

Parts(t) == (IF t.head THEN <<"head">> ELSE <<>>) \o on_stream_read(t)

\* flush_outbound for the streams S the congestion window lets through (all or
\* none of those that have something to send); a batch
\* the socket does not take (EAGAIN) is a loss like any other.
flush_outbound(S, table, sent) ==
    /\ stream' = [s \in Streams |-> IF s \notin S THEN table[s]
                    ELSE [table[s] EXCEPT !.head = FALSE, !.offset = Len(table[s].buf),
                                          !.ended = Last(Parts(table[s])) = "end"]]
    /\ flight' = [s \in Streams |-> sent[s] \o
                    IF s \notin S THEN <<>>
                    ELSE [i \in 1..Len(Parts(table[s])) |->
                            [part |-> Parts(table[s])[i], kept |-> TRUE]]]

Ready(table) == {s \in Streams : /\ table[s].here /\ table[s].response_submitted
                                 /\ ~table[s].ended /\ Parts(table[s]) # <<>>}

Flush == /\ pc = "flush"
         /\ \E S \in {{}, Ready(stream)} : flush_outbound(S, stream, flight)
         /\ pc' = "idle"
         /\ UNCHANGED <<client, pending_dispatch_, ready, cur, closed_, rst_count_, got,
                        called, wrote, hurt, losses>>

-----------------------------------------------------------------------------
(* dispatch_pending_requests.                                              *)

\* Mutant: a stream that is gone by now is made again.
Skipped_Never(s) == stream[s].here /\ stream[s].response_submitted

Skipped(s) == ~stream[s].here \/ stream[s].response_submitted

Skip == /\ pc = "dispatch" /\ ready # <<>> /\ Skipped(Head(ready))
        /\ ready' = Tail(ready)
        /\ UNCHANGED <<client, stream, pending_dispatch_, pc, cur, closed_, rst_count_,
                       flight, got, called, wrote, hurt, losses>>

\* A request over a limit is answered without its handler.
Answer(s, t, parts) ==
    /\ stream' = [stream EXCEPT ![s] = t]
    /\ wrote' = [wrote EXCEPT ![s] = IF t.method = "HEAD" THEN <<>> ELSE parts]

RefuseRequest ==
    /\ pc = "dispatch" /\ ready # <<>> /\ ~Skipped(Head(ready))
    /\ LET s == Head(ready) IN
       /\ get_or_create_stream(s).error_status # "Ok"
       /\ Answer(s, submit_response(stream[s], <<stream[s].error_status>>),
                 <<stream[s].error_status>>)
    /\ ready' = Tail(ready)
    /\ UNCHANGED <<client, pending_dispatch_, pc, cur, closed_, rst_count_, flight, got,
                   called, hurt, losses>>

\* The handler starts; dispatch_sync runs it to its end in the next step, a
\* coroutine may suspend first.
Call ==
    /\ pc = "dispatch" /\ ready # <<>> /\ ~Skipped(Head(ready))
    /\ LET s == Head(ready) IN
       /\ get_or_create_stream(s).error_status = "Ok"
       /\ called' = [called EXCEPT ![s] = get_or_create_stream(s).body]
       /\ stream' = [stream EXCEPT ![s] = get_or_create_stream(s)]
       /\ cur' = s
    /\ ready' = Tail(ready) /\ pc' = "handler"
    /\ UNCHANGED <<client, pending_dispatch_, closed_, rst_count_, flight, got, wrote, hurt,
                   losses>>

\* Mutant: the buffer is emptied before all of it was handed out.
Reused_Early(t) == [t EXCEPT !.buf = <<>>, !.offset = 0]

\* push_sse_frame empties the buffer once all of it was handed to QUIC.
Reused(t) == IF t.offset >= Len(t.buf) THEN [t EXCEPT !.buf = <<>>, !.offset = 0] ELSE t

Event(n) == <<"event 1", "event 2", "event 3">>[n]

\* The handler sends one event.  The buffer is emptied or grows: what QUIC was
\* given before no longer lies where it was.
push_sse_frame ==
    /\ pc = "handler" /\ "events" \in Answers[cur]
    /\ FoldSet(LAMBDA s, n : Len(wrote[s]) + n, 0, Streams) < MaxFrames
    /\ wrote' = [wrote EXCEPT ![cur] = Append(@, Event(Len(@) + 1))]
    /\ LET t    == IF stream[cur].response_submitted THEN stream[cur]
                   ELSE submit_sse_headers(stream[cur])
           more == [Reused(t) EXCEPT !.buf = Append(@, Event(Len(wrote[cur]) + 1))]
           tab  == [stream EXCEPT ![cur] = more]
           old  == [i \in 1..Len(flight[cur]) |->
                      [flight[cur][i] EXCEPT !.kept = @ /\ flight[cur][i].part \in {"head", "end"}]]
       IN  \E S \in {{}, Ready(tab)} :
               flush_outbound(S, tab, [flight EXCEPT ![cur] = old])
    /\ UNCHANGED <<client, pending_dispatch_, ready, pc, cur, closed_, rst_count_, got,
                   called, hurt, losses>>

\* The handler returns an event stream: end of stream, resume, flush.
ReturnSse ==
    /\ pc = "handler" /\ "events" \in Answers[cur]
    /\ LET t   == IF stream[cur].response_submitted THEN stream[cur]
                  ELSE submit_sse_headers(stream[cur])
           tab == [stream EXCEPT ![cur] = [t EXCEPT !.eof = TRUE]]
       IN  \E S \in {{}, Ready(tab)} : flush_outbound(S, tab, flight)
    /\ pc' = "dispatch" /\ cur' = None
    /\ UNCHANGED <<client, pending_dispatch_, ready, closed_, rst_count_, got, called, wrote,
                   hurt, losses>>

\* The handler returns a body of up to two parts.
ReturnBody(parts) ==
    /\ pc = "handler" /\ "body" \in Answers[cur] /\ ~stream[cur].response_submitted
    /\ Answer(cur, submit_response(stream[cur], parts), parts)
    /\ pc' = "dispatch" /\ cur' = None
    /\ UNCHANGED <<client, pending_dispatch_, ready, closed_, rst_count_, flight, got,
                   called, hurt, losses>>

\* The handler returns a file.
ReturnFile(parts, outcome) ==
    /\ pc = "handler" /\ "file" \in Answers[cur] /\ ~stream[cur].response_submitted
    /\ LET t   == setup_file_response(stream[cur], parts, outcome)
           tab == [stream EXCEPT ![cur] = t]
       IN  /\ \E S \in {{}, Ready(tab)} : flush_outbound(S, tab, flight)
           /\ wrote' = [wrote EXCEPT ![cur] = IF t.method = "HEAD" THEN <<>> ELSE t.buf]
    /\ pc' = "dispatch" /\ cur' = None
    /\ UNCHANGED <<client, pending_dispatch_, ready, closed_, rst_count_, got, called, hurt,
                   losses>>

Dispatched == /\ pc = "dispatch" /\ ready = <<>>
              /\ pc' = "flush"
              /\ UNCHANGED <<client, stream, pending_dispatch_, ready, cur, closed_,
                             rst_count_, flight, got, called, wrote, hurt, losses>>

-----------------------------------------------------------------------------
(* The timer loop runs while the receive loop waits for a datagram or for   *)
(* a handler: handle_expiry flushes, or finds the connection dead.          *)
handle_expiry(S) ==
    /\ pc \in {"idle", "handler"} /\ ~closed_
    /\ flush_outbound(S, stream, flight)
    /\ UNCHANGED <<client, pending_dispatch_, ready, pc, cur, closed_, rst_count_, got,
                   called, wrote, hurt, losses>>

IdleTimeout ==
    /\ pc \in {"idle", "handler"} /\ ~closed_
    /\ closed_' = TRUE
    /\ UNCHANGED <<client, stream, pending_dispatch_, ready, pc, cur, rst_count_, flight,
                   got, called, wrote, hurt, losses>>

Deliver(s) ==
    /\ flight[s] # <<>>
    /\ got' = [got EXCEPT ![s] = @ \o [i \in 1..Len(flight[s]) |-> flight[s][i].part]]
    /\ flight' = [flight EXCEPT ![s] = <<>>]
    /\ UNCHANGED <<client, stream, pending_dispatch_, ready, pc, cur, closed_, rst_count_,
                   called, wrote, hurt, losses>>

\* QUIC sends a lost part again from the memory it was given, which may hold
\* something else by now.
Lose(s) ==
    /\ flight[s] # <<>> /\ losses < MaxLosses
    /\ losses' = losses + 1
    /\ \E p \in IF Head(flight[s]).kept THEN {Head(flight[s]).part}
                ELSE {Head(flight[s]).part, "other bytes"} :
         /\ flight' = [flight EXCEPT ![s] = <<[part |-> p, kept |-> Head(@).kept]>> \o Tail(@)]
         /\ hurt' = IF p = "other bytes" THEN hurt \cup {s} ELSE hurt
    /\ UNCHANGED <<client, stream, pending_dispatch_, ready, pc, cur, closed_, rst_count_,
                   got, called, wrote>>

Stream ==
    \/ \E s \in Streams : \/ \E f \in Fields[s] : ReadHeader(s, f)
                          \/ ReadData(s)
                          \/ \E fine \in BOOLEAN : ReadTrailer(s, fine)
                          \/ ReadEnd(s)
                          \/ \E stop \in BOOLEAN : ReadReset(s, stop)
                          \/ ReadClosed(s)

Loop == ReadDone \/ Skip \/ RefuseRequest \/ Call \/ Dispatched \/ Flush

Bodies == {<<>>, <<"body">>}

Handler ==
    \/ push_sse_frame
    \/ ReturnSse
    \/ \E b \in Bodies : ReturnBody(b)
    \/ \E b \in Bodies, o \in {"mapped", "read", "missing"} : ReturnFile(b, o)

Rest == /\ pc = "idle" /\ (closed_ \/ \A s \in Streams : client[s].phase \in {"done", "gone"})
        /\ UNCHANGED vars

Next ==
    \/ Stream
    \/ Loop
    \/ Handler
    \/ \E S \in {{}, Ready(stream)} : handle_expiry(S)
    \/ IdleTimeout
    \/ \E s \in Streams : Deliver(s) \/ Lose(s)
    \/ Rest

\* The loop runs, handlers return (their events are bounded), the timer ticks
\* every 10 ms, and QUIC delivers what it was given.
Returns == ReturnSse \/ (\E b \in Bodies : ReturnBody(b))
TimerSends == Ready(stream) # {} /\ handle_expiry(Ready(stream))
Spec == /\ Init /\ [][Next]_vars
        /\ WF_vars(Loop) /\ WF_vars(Returns)
        /\ WF_vars(TimerSends)
        /\ \A s \in Streams : WF_vars(Deliver(s))

-----------------------------------------------------------------------------
(* Properties.                                                             *)

(* A handler sees the whole body of a request within the limits, once: one  *)
(* whose header list or body was cut at a limit (on_stream_header,          *)
(* on_stream_data) is answered 431, 413 or 414 instead and never handled.   *)
HandledWhole ==
    \A s \in Streams : called[s] # None =>
        /\ called[s] = client[s].chunks
        /\ client[s].phase \in {"done", "gone"}
        /\ stream[s].here => /\ stream[s].error_status = "Ok"
                             /\ stream[s].count <= max_header_count

(* The client reads, in order and without a gap, the head, the parts of the *)
(* answer and its end, whatever the flushes, the timer and the losses; the  *)
(* one exception is an event stream of which a packet was lost after        *)
(* push_sse_frame had reused the buffer it was sent from.                   *)
AnswerInOrder ==
    \A s \in Streams \ hurt :
        IsPrefix(got[s] \o [i \in 1..Len(flight[s]) |-> flight[s][i].part],
                 <<"head">> \o wrote[s] \o <<"end">>)

(* A stream the client gave up has nothing left in the connection: its id   *)
(* may still wait in pending_dispatch_, but it is not dispatched.           *)
GoneIsForgotten ==
    \A s \in Streams : client[s].phase = "gone" => ~stream[s].here

(* Every complete request of a connection that stays open is answered to    *)
(* the end, unless the client gives the stream up.                          *)
Served(s) == client[s].phase = "done" => closed_ \/ "end" \in Range(got[s])
RequestsServed == \A s \in Streams : <>[]Served(s)
=============================================================================

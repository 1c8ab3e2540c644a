------------------------- MODULE Http2ClientSession -------------------------
(***************************************************************************)
(* One request over HTTP/2: HttpClient makes a session for it and drops    *)
(* the session afterwards (src/src/http/client/Http2ClientSession.cpp).    *)
(* nghttp2, the socket and the server are external.  nghttp2 hands out     *)
(* DATA frames of one chunk while the server's window allows.              *)
(***************************************************************************)
EXTENDS Integers, FiniteSets, SequencesExt

CONSTANTS
    MaxBody,        \* bound: chunks of the request's body
    Window,         \* chunks the server takes before it updates its window
    MaxFaults       \* bound: failures and closes

SessionAssumption == {MaxBody, MaxFaults} \subseteq Nat /\ Window \in Nat \ {0}

VARIABLES
    sync, tls, body,    \* execute_sync or execute; is_https(); chunks of the body
    pc, res,            \* where the call is; its Response
    held,               \* what the session owns: fd_, ssl_ctx_, ssl_, session_
    closed_, complete,  \* flags of the session and of its stream
    queue, body_offset, \* what nghttp2 has to send; chunks read from the body
    window,             \* chunks the window still allows
    sent,               \* frames the server has received, with the number of a chunk
    inbox, eof,         \* frames the server sent; it has closed
    got,                \* frames of the response received so far
    late,               \* the timeout is over
    faults

vars == <<sync, tls, body, pc, res, held, closed_, complete, queue, body_offset, window, sent, inbox,
          eof, got, late, faults>>
config == <<sync, tls, body>>

-----------------------------------------------------------------------------
Init ==
    /\ sync \in BOOLEAN /\ tls \in BOOLEAN /\ body \in 0 .. MaxBody
    /\ pc = "connect" /\ res = <<>> /\ held = {} /\ closed_ = FALSE /\ complete = FALSE
    /\ queue = <<>> /\ body_offset = 0 /\ window = Window
    /\ sent = <<>> /\ inbox = <<>> /\ eof = FALSE /\ got = <<>> /\ late = FALSE /\ faults = 0

Fault == faults < MaxFaults /\ faults' = faults + 1

\* The call ends with r; the session is destroyed in the next step.
Return(r) == pc' = "drop" /\ res' = r

Opens(what, next) ==
    /\ held' = held \cup what /\ pc' = next /\ UNCHANGED <<res, faults>>
OpenFails(what) == held' = held \cup what /\ Return(<<"502">>) /\ Fault

connect_socket ==
    /\ pc = "connect"
    /\ Opens({"fd"}, IF tls THEN "tls" ELSE "session") \/ OpenFails({})
    /\ UNCHANGED <<config, closed_, complete, queue, body_offset, window, sent, inbox, eof, got, late>>
init_tls ==
    /\ pc = "tls"
    /\ Opens({"ctx", "ssl"}, "session") \/ (\E what \in {{}, {"ctx"}, {"ctx", "ssl"}} : OpenFails(what))
    /\ UNCHANGED <<config, closed_, complete, queue, body_offset, window, sent, inbox, eof, got, late>>
init_session ==
    /\ pc = "session"
    /\ Opens({"session"}, "submit") \/ OpenFails({})
    /\ UNCHANGED <<config, closed_, complete, queue, body_offset, window, sent, inbox, eof, got, late>>

\* SETTINGS is queued already; the request's headers end the stream when there
\* is no body.
submit_request ==
    /\ pc = "submit"
    /\ queue' = <<<<"settings", 0>>, <<"headers", 0>>>> \o (IF body = 0 THEN <<<<"end", 0>>>> ELSE <<>>)
    /\ pc' = "flush"
    /\ UNCHANGED <<config, res, held, closed_, complete, body_offset, window, sent, inbox, eof, got, late, faults>>

\* Mutant: the offset is not advanced.
on_data_source_read_Stays(offset) ==
    [frames |-> <<<<"data", offset + 1>>>> \o (IF offset + 1 >= body THEN <<<<"end", 0>>>> ELSE <<>>),
     offset |-> IF offset = 0 /\ body > 1 THEN 0 ELSE offset + 1]
\* Mutant: the last chunk does not end the stream.
on_data_source_read_NoEnd(offset) == [frames |-> <<<<"data", offset + 1>>>>, offset |-> offset + 1]
\* on_data_source_read(): the next chunk, and EOF with the last one.
on_data_source_read(offset) ==
    [frames |-> <<<<"data", offset + 1>>>> \o (IF offset + 1 >= body THEN <<<<"end", 0>>>> ELSE <<>>),
     offset |-> offset + 1]

\* flush_outbound_sync() and _async(): a queued frame, or a chunk of the body,
\* goes out; a failed write marks the session closed.
WantsWrite == queue # <<>> \/ (body_offset < body /\ window > 0)
flush_outbound ==
    /\ pc = "flush" /\ WantsWrite
    /\ \/ /\ queue # <<>>
          /\ sent' = Append(sent, Head(queue)) /\ queue' = Tail(queue)
          /\ UNCHANGED <<pc, closed_, body_offset, window, faults>>
       \/ /\ queue = <<>>
          /\ LET chunk == on_data_source_read(body_offset)
             IN sent' = sent \o chunk.frames /\ body_offset' = chunk.offset
          /\ window' = window - 1
          /\ UNCHANGED <<pc, closed_, queue, faults>>
       \/ /\ Fault /\ closed_' = TRUE /\ pc' = "wait"
          /\ UNCHANGED <<queue, body_offset, window, sent>>
    /\ UNCHANGED <<config, res, held, complete, inbox, eof, got, late>>
Flushed ==
    /\ pc = "flush" /\ ~WantsWrite
    /\ pc' = "wait"
    /\ UNCHANGED <<config, res, held, closed_, complete, queue, body_offset, window, sent, inbox, eof,
                   got, late, faults>>

\* Mutant: the response is taken to be complete with its headers.
Received_Head(f) ==
    /\ got' = IF f = "window" THEN got ELSE Append(got, f)
    /\ complete' = (f # "window")
    /\ window' = IF f = "window" THEN Window ELSE window
\* on_header, on_data_chunk_recv and on_stream_close: the frames of the
\* response are collected; the end of the stream or a reset completes it.
Received(f) ==
    /\ got' = IF f = "window" THEN got ELSE Append(got, f)
    /\ complete' = (f \in {"end", "reset"})
    /\ window' = IF f = "window" THEN Window ELSE window
receive ==
    /\ pc = "wait" /\ ~complete /\ ~closed_ /\ inbox # <<>>
    /\ Received(Head(inbox)) /\ inbox' = Tail(inbox)
    /\ pc' = "flush"
    /\ UNCHANGED <<config, res, held, closed_, queue, body_offset, sent, eof, late, faults>>

\* A read fails, or nghttp2 rejects what was read: the loop is left.
read_failed ==
    /\ pc = "wait" /\ ~complete /\ ~closed_ /\ inbox = <<>> /\ ~eof /\ Fault
    /\ Return(got)
    /\ UNCHANGED <<config, held, closed_, complete, queue, body_offset, window, sent, inbox, eof, got, late>>
\* A read of 0 bytes, a timed-out poll or the end of the stream, starts over.
read_again ==
    /\ pc = "wait" /\ ~complete /\ ~closed_ /\ inbox = <<>> /\ (sync \/ eof)
    /\ UNCHANGED vars

\* Mutant: the timeout is not looked at.
timed_out_Ignored == FALSE /\ UNCHANGED vars
\* execute_sync() alone looks at the timeout.
timed_out ==
    /\ pc = "wait" /\ ~complete /\ ~closed_ /\ sync /\ late
    /\ Return(<<"504">>)
    /\ UNCHANGED <<config, held, closed_, complete, queue, body_offset, window, sent, inbox, eof, got, late, faults>>
\* The stream is complete or the session closed: the response as it is.
finish ==
    /\ pc = "wait" /\ (complete \/ closed_)
    /\ Return(got)
    /\ UNCHANGED <<config, held, closed_, complete, queue, body_offset, window, sent, inbox, eof, got, late, faults>>

\* Mutant: the TLS context is forgotten.
close_Context ==
    /\ pc = "drop" /\ pc' = "done"
    /\ held' = IF closed_ THEN held ELSE held \cap {"ctx"}
    /\ closed_' = TRUE
    /\ UNCHANGED <<config, res, complete, queue, body_offset, window, sent, inbox, eof, got, late, faults>>
\* The destructor's close() returns early when closed_ is set.
close ==
    /\ pc = "drop" /\ pc' = "done"
    /\ held' = IF closed_ THEN held ELSE {}
    /\ closed_' = TRUE
    /\ UNCHANGED <<config, res, complete, queue, body_offset, window, sent, inbox, eof, got, late, faults>>

-----------------------------------------------------------------------------
(* The server and the clock (external) *)

Puts(f) == inbox' = Append(inbox, f)
\* The server updates its window when it is used up, then answers a complete
\* request.
Ended == <<"end", 0>> \in Range(sent)
Answered == Cardinality({i \in DOMAIN inbox : inbox[i] # "window"}) + Len(got)
Listens == pc \in {"flush", "wait"} /\ ~eof /\ ~complete /\ "reset" \notin Range(inbox) /\ Answered < 3
Serve ==
    /\ Listens
    /\ \/ window = 0 /\ ~Ended /\ "window" \notin Range(inbox) /\ Puts("window")
       \/ Ended /\ Puts(<<"head", "data", "end">>[Answered + 1])
    /\ UNCHANGED <<config, pc, res, held, closed_, complete, queue, body_offset, window, sent, eof, got,
                   late, faults>>
\* It resets the stream, or closes.
Misbehave ==
    /\ Listens /\ Fault
    /\ \/ <<"headers", 0>> \in Range(sent) /\ Puts("reset") /\ UNCHANGED eof
       \/ eof' = TRUE /\ UNCHANGED inbox
    /\ UNCHANGED <<config, pc, res, held, closed_, complete, queue, body_offset, window, sent, got, late>>
Tick ==
    /\ ~late /\ pc = "wait" /\ late' = TRUE
    /\ UNCHANGED <<config, pc, res, held, closed_, complete, queue, body_offset, window, sent, inbox, eof,
                   got, faults>>

\* execute_sync() and execute().
Session ==
    \/ connect_socket \/ init_tls \/ init_session \/ submit_request \/ flush_outbound \/ Flushed
    \/ receive \/ timed_out \/ finish \/ close
Rest == pc = "done" /\ UNCHANGED vars
\* A coroutine that waits for a server that stays silent waits on.
Silent == pc = "wait" /\ ~sync /\ UNCHANGED vars

Next == Session \/ read_failed \/ read_again \/ Serve \/ Misbehave \/ Tick \/ Rest \/ Silent
\* The caller runs on, time passes and a server that is asked answers.
Spec == Init /\ [][Next]_vars /\ WF_vars(Session) /\ WF_vars(Tick) /\ WF_vars(Serve)

-----------------------------------------------------------------------------
\* Whatever the window allows at a time, the server gets every chunk of the
\* body once and in order, and the end of the stream after the last one
\* (on_data_source_read, flush_outbound).
BodyWhole ==
    LET data == SelectSeq(sent, LAMBDA f : f[1] = "data")
    IN /\ data = [i \in 1 .. Len(data) |-> <<"data", i>>]
       /\ Ended => Len(data) = body /\ Last(sent)[1] = "end"

\* A response is the server's whole answer, unless the stream was reset or the
\* connection lost: then what had come is returned as if it were whole
\* (execute).  The session's resources are freed, unless a failed write has set
\* closed_ (close).
WholeAnswer ==
    /\ pc \in {"drop", "done"} =>
          \/ res \in {<<"502">>, <<"504">>, <<"head", "data", "end">>}
          \/ faults > 0 /\ IsPrefix(SelectSeq(res, LAMBDA f : f # "reset"), <<"head", "data">>)
    /\ pc = "done" /\ held # {} => faults > 0 /\ "session" \in held

\* execute_sync() ends.  execute() ends when the server goes on answering: it
\* has no timeout, and takes the end of the connection for a short read.
Finished == pc = "done" \/ (~sync /\ eof)
SessionEnds == <>[]Finished
=============================================================================

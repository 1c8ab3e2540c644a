----------------------------- MODULE SseChannel -----------------------------
(***************************************************************************)
(* A stream of server-sent events that other threads write to through the  *)
(* C interface (aegon_sse_impl in src/src/c/internal.h, src/src/c/sse.cpp, *)
(* src/src/http/SseStream.h): every call is posted to the loop, a coroutine*)
(* on the loop writes the frames, and close() or a failed write completes  *)
(* the token of the request (AsyncHandlers).  A frame is <<sender, n>>.    *)
(***************************************************************************)
EXTENDS Integers, SequencesExt

CONSTANTS Senders, MaxFrames    \* threads, and the frames each sends

ChannelAssumption == MaxFrames \in Nat

VARIABLES
    post_queue_,    \* what the loop is to run: frames, "close", "done"
    is_open,        \* aegon_sse_impl::is_open
    open_,          \* SseStream::open_
    pending_frames,
    sending,
    flush,          \* the writing coroutine: off, next, or the frame it writes
    sender,         \* per thread: [n, at]
    completed,      \* calls of aegon_async_complete
    closed,         \* by whom is_open was cleared: nobody, close, error
    on_close,       \* calls of on_close
    ended,          \* the request's coroutine has gone on
    wire,           \* frames the client has
    posted,         \* history: frames in the order they were posted
    overlapped      \* history: the request ended while a frame was being written

vars == <<post_queue_, is_open, open_, pending_frames, sending, flush, sender, completed, closed,
          on_close, ended, wire, posted, overlapped>>

Init ==     \* aegon_sse_create
    /\ post_queue_ = <<>> /\ is_open = TRUE /\ open_ = TRUE /\ pending_frames = <<>> /\ sending = FALSE
    /\ flush = <<"off">> /\ sender = [s \in Senders |-> [n |-> 0, at |-> "idle"]]
    /\ completed = 0 /\ closed = "nobody" /\ on_close = 0 /\ ended = FALSE
    /\ wire = <<>> /\ posted = <<>> /\ overlapped = FALSE

channel == <<open_, pending_frames, sending, flush>>
outcome == <<completed, on_close, ended, wire, overlapped>>

-----------------------------------------------------------------------------
(* Other threads *)

\* aegon_sse_send_event, _data, _comment, _retry: refused when closed.
Checks(s) ==
    /\ sender[s].at = "idle" /\ sender[s].n < MaxFrames
    /\ sender' = [sender EXCEPT ![s] = IF is_open THEN [n |-> @.n + 1, at |-> "post"] ELSE [n |-> MaxFrames, at |-> "idle"]]
    /\ UNCHANGED <<post_queue_, is_open, closed, posted, channel, outcome>>
\* send_frame: the stream may be closed by now.
send_frame(s) ==
    /\ sender[s].at = "post"
    /\ sender' = [sender EXCEPT ![s].at = "idle"]
    /\ post_queue_' = Append(post_queue_, <<s, sender[s].n>>)
    /\ posted' = Append(posted, <<s, sender[s].n>>)
    /\ UNCHANGED <<is_open, closed, channel, outcome>>
\* Mutant: close() does not look whether an error came first.
aegon_sse_close_Always ==
    /\ closed # "close"
    /\ is_open' = FALSE /\ closed' = "close"
    /\ post_queue_' = Append(post_queue_, <<"close">>)
    /\ UNCHANGED <<sender, posted, channel, outcome>>
\* aegon_sse_close
aegon_sse_close ==
    /\ is_open
    /\ is_open' = FALSE /\ closed' = "close"
    /\ post_queue_' = Append(post_queue_, <<"close">>)
    /\ UNCHANGED <<sender, posted, channel, outcome>>

-----------------------------------------------------------------------------
(* The loop *)

IsFrame(p) == Len(p) = 2
Takes(p) == post_queue_ # <<>> /\ Head(post_queue_) = p /\ post_queue_' = Tail(post_queue_)

\* Mutant: a second coroutine is spawned while one writes.
enqueue_and_flush_Spawn ==
    /\ post_queue_ # <<>> /\ IsFrame(Head(post_queue_))
    /\ post_queue_' = Tail(post_queue_)
    /\ IF is_open
       THEN /\ pending_frames' = Append(pending_frames, Head(post_queue_))
            /\ sending' = TRUE /\ flush' = <<"next">>
       ELSE UNCHANGED <<pending_frames, sending, flush>>
    /\ UNCHANGED <<is_open, open_, sender, closed, posted, outcome>>
\* Mutant: the flag is not looked at again.
enqueue_and_flush_Unchecked ==
    /\ post_queue_ # <<>> /\ IsFrame(Head(post_queue_))
    /\ post_queue_' = Tail(post_queue_)
    /\ pending_frames' = Append(pending_frames, Head(post_queue_))
    /\ sending' = TRUE /\ flush' = IF sending THEN flush ELSE <<"next">>
    /\ UNCHANGED <<is_open, open_, sender, closed, posted, outcome>>
enqueue_and_flush ==
    /\ post_queue_ # <<>> /\ IsFrame(Head(post_queue_))
    /\ post_queue_' = Tail(post_queue_)
    /\ IF is_open
       THEN /\ pending_frames' = Append(pending_frames, Head(post_queue_))
            /\ sending' = TRUE /\ flush' = IF sending THEN flush ELSE <<"next">>
       ELSE UNCHANGED <<pending_frames, sending, flush>>
    /\ UNCHANGED <<is_open, open_, sender, closed, posted, outcome>>

\* Mutant: the coroutine leaves and still counts as sending.
FlushNext_Stuck ==
    /\ flush = <<"next">>
    /\ IF pending_frames # <<>> /\ is_open
       THEN /\ flush' = IF open_ THEN Head(pending_frames) ELSE flush
            /\ pending_frames' = Tail(pending_frames) /\ UNCHANGED sending
       ELSE flush' = <<"off">> /\ UNCHANGED <<sending, pending_frames>>
    /\ UNCHANGED <<post_queue_, is_open, open_, sender, closed, posted, outcome>>
\* The coroutine takes a frame to SseStream::send, or leaves.
FlushNext ==
    /\ flush = <<"next">>
    /\ IF pending_frames # <<>> /\ is_open
       THEN /\ flush' = IF open_ THEN Head(pending_frames) ELSE flush
            /\ pending_frames' = Tail(pending_frames) /\ UNCHANGED sending
       ELSE flush' = <<"off">> /\ sending' = FALSE /\ UNCHANGED pending_frames
    /\ UNCHANGED <<post_queue_, is_open, open_, sender, closed, posted, outcome>>
Written ==
    /\ IsFrame(flush)
    /\ wire' = Append(wire, flush) /\ flush' = <<"next">>
    /\ UNCHANGED <<post_queue_, is_open, open_, pending_frames, sending, sender, completed, closed,
                   on_close, ended, posted, overlapped>>
\* The write throws: handle_error, unless close() came first.
handle_error ==
    /\ IsFrame(flush)
    /\ IF is_open
       THEN /\ is_open' = FALSE /\ closed' = "error" /\ open_' = FALSE /\ pending_frames' = <<>>
            /\ on_close' = on_close + 1 /\ completed' = completed + 1
            /\ post_queue_' = Append(post_queue_, <<"done">>)
       ELSE UNCHANGED <<is_open, closed, open_, pending_frames, on_close, completed, post_queue_>>
    /\ flush' = <<"off">> /\ sending' = FALSE
    /\ UNCHANGED <<sender, ended, wire, posted, overlapped>>

\* Mutant: the request is not completed.
Closes_Open ==
    /\ Takes(<<"close">>)
    /\ open_' = FALSE
    /\ UNCHANGED <<completed, is_open, pending_frames, sending, flush, sender, closed, on_close, ended, wire, posted, overlapped>>
\* The lambda of aegon_sse_close; the token is completed at most once.
Closes ==
    /\ post_queue_ # <<>> /\ Head(post_queue_) = <<"close">>
    /\ open_' = FALSE /\ completed' = completed + 1
    /\ post_queue_' = Append(Tail(post_queue_), <<"done">>)
    /\ UNCHANGED <<is_open, pending_frames, sending, flush, sender, closed, on_close, ended, wire, posted, overlapped>>
\* resume_on_loop: the request's coroutine ends the response.
Ends ==
    /\ Takes(<<"done">>)
    /\ ended' = TRUE
    /\ overlapped' = (overlapped \/ IsFrame(flush))
    /\ UNCHANGED <<is_open, channel, sender, completed, closed, on_close, wire, posted>>

LoopStep == enqueue_and_flush \/ FlushNext \/ Closes \/ Ends
WriteStep == Written \/ handle_error
SenderStep(s) == Checks(s) \/ send_frame(s)
Next ==
    \/ LoopStep \/ WriteStep \/ aegon_sse_close \/ \E s \in Senders : SenderStep(s)
    \/ post_queue_ = <<>> /\ flush = <<"off">> /\ UNCHANGED vars     \* the loop is idle

-----------------------------------------------------------------------------
(* Properties *)

(***************************************************************************)
(* The client gets the frames in the order they were posted, each once and *)
(* without a gap, whatever threads send, and none after the response ended *)
(* unless it was being written then.  Frames sent before close() may be    *)
(* dropped.                                                                *)
(***************************************************************************)
FramesInOrder ==
    /\ IsPrefix(wire, posted)
    /\ ended /\ ~overlapped => ~IsFrame(flush)
\* One of close() and a failed write completes the request, once, and on_close
\* tells of the failed write only.
ClosedOnce ==
    /\ completed <= 1 /\ on_close = (IF closed = "error" THEN 1 ELSE 0)
    /\ completed = 1 => ~is_open /\ ~open_
    /\ closed = "error" => pending_frames = <<>>
ChannelRight == FramesInOrder /\ ClosedOnce
\* A frame that was posted is written, or the stream is closed; a closed
\* stream's request ends.
Drained ==
    IF is_open THEN wire = posted /\ \A s \in Senders : sender[s] = [n |-> MaxFrames, at |-> "idle"]
    ELSE ended /\ flush = <<"off">>

=============================================================================

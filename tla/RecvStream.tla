----------------------------- MODULE RecvStream -----------------------------
(***************************************************************************)
(* A multishot receive stream (src/src/core/engine/IoEngine.{h,cpp}), the  *)
(* buffer pool it draws from (src/src/core/BufferPool.{h,cpp}), the engine *)
(* that feeds it and the coroutine that reads it (Server::run_h2_loop,     *)
(* WebSocketConnection::run).                                              *)
(*                                                                         *)
(* Received bytes are numbered chunks, one per buffer.  With epoll the     *)
(* engine takes a buffer from the freelist and calls recv(); with io_uring *)
(* the kernel picks the buffer and posts a CQE the engine dispatches.      *)
(***************************************************************************)
EXTENDS Integers, Sequences

CONSTANTS
    Entries,        \* buffers in the pool (entries_)
    MaxChunks       \* bound: chunks the peer sends

StreamAssumption == Entries \in Nat \ {0} /\ MaxChunks \in Nat

VARIABLES
    backend,    \* the engine: epoll or uring
    websocket,  \* the reader is a WebSocketConnection, which goes on after ENOBUFS
    free,       \* freelist_ (a stack) or the buffer ring the kernel consumes
    pending,    \* io_uring: returned, not yet advanced
    sock,       \* [arrived, taken, eof]: the socket's receive queue
    st,         \* StreamState: [armed, finished, cancelled, waiting]
    backlog, current,
    draining,   \* epoll: the MultishotRecv loop of process_epoll_event is running
    cqes, kernel,   \* io_uring: the completion queue; the multishot is live
    swallow,    \* &st \in cancelled_user_data_
    reader,     \* where the reading coroutine is
    held,       \* the result it works on
    got,        \* history: chunks handed to the reader
    leaked      \* history: buffers dropped with the stream

pool == <<free, pending>>
stream == <<st, backlog, current>>
engine == <<draining, cqes, kernel, swallow>>
task == <<reader, held, got>>
vars == <<pool, sock, stream, engine, task, leaked>>
choice == <<backend, websocket>>

-----------------------------------------------------------------------------
Bids == 0 .. Entries - 1
NoBid == -1
Elements(seq) == {seq[i] : i \in DOMAIN seq}

Data(bid, chunk, more) == [kind |-> "data", bid |-> bid, chunk |-> chunk, more |-> more]
Ended(kind) == [kind |-> kind, bid |-> NoBid, chunk |-> 0, more |-> FALSE]
Results == [kind : {"data"}, bid : Bids, chunk : 1 .. MaxChunks, more : BOOLEAN]
             \cup {Ended(k) : k \in {"eof", "enobufs", "cancelled"}}

TypeOK ==
    /\ backend \in {"epoll", "uring"} /\ websocket \in BOOLEAN
    /\ free \in Seq(Bids) /\ pending \in Seq(Bids)
    /\ sock \in [arrived : 0 .. MaxChunks, taken : 0 .. MaxChunks, eof : BOOLEAN]
    /\ st \in [armed : BOOLEAN, finished : BOOLEAN, cancelled : BOOLEAN, waiting : BOOLEAN]
    /\ backlog \in Seq(Results) /\ cqes \in Seq(Results)
    /\ current \in Results /\ held \in Results
    /\ draining \in BOOLEAN /\ kernel \in BOOLEAN /\ swallow \in BOOLEAN
    /\ reader \in {"next", "wait", "hold", "retry", "stale", "closing", "closed", "gone"}
    /\ got \in Seq(1 .. MaxChunks)
    /\ leaked \subseteq Bids

Init ==
    /\ backend \in {"epoll", "uring"} /\ websocket \in BOOLEAN
    /\ free = [i \in 1 .. Entries |-> i - 1] /\ pending = <<>>
    /\ sock = [arrived |-> 0, taken |-> 0, eof |-> FALSE]
    /\ st = [armed |-> FALSE, finished |-> FALSE, cancelled |-> FALSE, waiting |-> FALSE]
    /\ backlog = <<>> /\ cqes = <<>>
    /\ current = Ended("eof") /\ held = Ended("eof")     \* RecvResult{}: bytes = 0
    /\ draining = FALSE /\ kernel = FALSE /\ swallow = FALSE
    /\ reader = "next" /\ got = <<>> /\ leaked = {}

(***************************************************************************)
(* The buffer pool.                                                        *)
(***************************************************************************)
ReturnBuffer(bid) ==
    IF backend = "uring"
    THEN pending' = Append(pending, bid) /\ UNCHANGED free
    ELSE /\ free' = IF Len(free) < Entries THEN Append(free, bid) ELSE free
         /\ UNCHANGED pending

\* EventLoop::run calls flush_returns() once per iteration.
FlushReturns ==
    /\ backend = "uring" /\ pending # <<>>
    /\ free' = free \o pending /\ pending' = <<>>
    /\ UNCHANGED <<sock, stream, engine, task, leaked>>

(***************************************************************************)
(* The stream.  OnCompletion resumes the reader if it waits and queues the *)
(* result otherwise; Hand is the reader's side of await_resume.            *)
(***************************************************************************)
Hand(r) ==
    /\ held' = r
    /\ got' = IF r.kind = "data" THEN Append(got, r.chunk) ELSE got
    /\ reader' = CASE r.kind = "data" -> "hold"
                   [] r.kind = "enobufs" /\ websocket -> "retry"
                   [] OTHER -> "closing"

\* Mutant: the result is queued although the reader is resumed with it.
OnCompletion_Both(r) ==
    LET done == ~r.more \/ r.kind # "data" IN
    /\ st' = [st EXCEPT !.armed = ~done, !.finished = @ \/ done, !.waiting = FALSE]
    /\ backlog' = Append(backlog, r)
    /\ IF st.waiting THEN current' = r /\ Hand(r)
                     ELSE UNCHANGED <<current, reader, held, got>>

OnCompletion(r) ==
    LET done == ~r.more \/ r.kind # "data" IN
    /\ st' = [st EXCEPT !.armed = ~done, !.finished = @ \/ done, !.waiting = FALSE]
    /\ IF st.waiting
       THEN current' = r /\ Hand(r) /\ UNCHANGED backlog
       ELSE backlog' = Append(backlog, r) /\ UNCHANGED <<current, reader, held, got>>

(***************************************************************************)
(* The peer.                                                               *)
(***************************************************************************)
PeerSend ==
    /\ sock.arrived < MaxChunks /\ ~sock.eof
    /\ sock' = [sock EXCEPT !.arrived = @ + 1]
    /\ UNCHANGED <<pool, stream, engine, task, leaked>>

PeerClose ==
    /\ ~sock.eof
    /\ sock' = [sock EXCEPT !.eof = TRUE]
    /\ UNCHANGED <<pool, stream, engine, task, leaked>>

Readable == sock.taken < sock.arrived \/ sock.eof

(***************************************************************************)
(* epoll: process_epoll_event runs the stream's loop until recv() would    *)
(* block.  Both cancel() and close() take the slot's awaiter away, so the  *)
(* loop ends once the reader has left its own loop.                        *)
(***************************************************************************)
Registered == st.armed /\ ~st.cancelled /\ ~st.finished /\ reader \in {"next", "wait", "hold", "retry"}

EpollEvent ==
    /\ backend = "epoll" /\ ~draining /\ Registered /\ Readable
    /\ draining' = TRUE
    /\ UNCHANGED <<pool, sock, stream, cqes, kernel, swallow, task, leaked>>

\* A buffer is taken before recv() is called, so an empty pool ends the
\* stream even when the socket has nothing to read.
EpollNoBuffer ==
    /\ draining /\ Registered /\ free = <<>>
    /\ draining' = FALSE
    /\ OnCompletion(Ended("enobufs"))
    /\ UNCHANGED <<pool, sock, cqes, kernel, swallow, leaked>>

\* Mutant: recv()'s EAGAIN is taken for data.
EpollRecv_AlwaysData ==
    /\ draining /\ Registered /\ free # <<>>
    /\ free' = SubSeq(free, 1, Len(free) - 1)
    /\ sock' = [sock EXCEPT !.taken = @ + 1]
    /\ OnCompletion(Data(free[Len(free)], sock.taken + 1, TRUE))
    /\ UNCHANGED <<pending, engine, leaked>>

EpollRecv ==
    /\ draining /\ Registered /\ free # <<>> /\ sock.taken < sock.arrived
    /\ free' = SubSeq(free, 1, Len(free) - 1)
    /\ sock' = [sock EXCEPT !.taken = @ + 1]
    /\ OnCompletion(Data(free[Len(free)], sock.taken + 1, TRUE))
    /\ UNCHANGED <<pending, engine, leaked>>

\* Mutant: the buffer taken before recv() is not returned at end of file.
EpollEof_KeepsBuffer ==
    /\ draining /\ Registered /\ free # <<>> /\ sock.taken = sock.arrived /\ sock.eof
    /\ draining' = FALSE
    /\ OnCompletion(Ended("eof"))
    /\ free' = SubSeq(free, 1, Len(free) - 1)
    /\ UNCHANGED <<pending, sock, cqes, kernel, swallow, leaked>>

EpollEof ==
    /\ draining /\ Registered /\ free # <<>> /\ sock.taken = sock.arrived /\ sock.eof
    /\ draining' = FALSE
    /\ OnCompletion(Ended("eof"))
    /\ UNCHANGED <<pool, sock, cqes, kernel, swallow, leaked>>

EpollWouldBlock ==
    /\ draining
    /\ Registered => free # <<>> /\ ~Readable
    /\ draining' = FALSE
    /\ UNCHANGED <<pool, sock, stream, cqes, kernel, swallow, task, leaked>>

(***************************************************************************)
(* io_uring: the kernel posts completions, process_completions dispatches  *)
(* them or swallows those of a cancelled stream.                           *)
(***************************************************************************)
KernelData ==
    /\ kernel /\ free # <<>> /\ sock.taken < sock.arrived
    /\ \E more \in BOOLEAN :
          /\ cqes' = Append(cqes, Data(Head(free), sock.taken + 1, more))
          /\ kernel' = more
    /\ free' = Tail(free)
    /\ sock' = [sock EXCEPT !.taken = @ + 1]
    /\ UNCHANGED <<pending, stream, draining, swallow, task, leaked>>

KernelEnds ==
    /\ kernel /\ Readable
    /\ \E kind \in {"enobufs", "eof"} :
          /\ kind = "enobufs" => free = <<>> /\ sock.taken < sock.arrived
          /\ kind = "eof" => sock.taken = sock.arrived
          /\ cqes' = Append(cqes, Ended(kind))
    /\ kernel' = FALSE
    /\ UNCHANGED <<pool, sock, stream, draining, swallow, task, leaked>>

Dispatch ==
    /\ cqes # <<>> /\ ~swallow
    /\ cqes' = Tail(cqes)
    /\ OnCompletion(Head(cqes))
    /\ UNCHANGED <<pool, sock, draining, kernel, swallow, leaked>>

DropCancelled ==
    /\ cqes # <<>> /\ swallow
    /\ cqes' = Tail(cqes)
    /\ swallow' = Head(cqes).more
    /\ leaked' = leaked \cup ({Head(cqes).bid} \ {NoBid})
    /\ UNCHANGED <<pool, sock, stream, draining, kernel, task>>

(***************************************************************************)
(* The reader.  stream.next() takes from the backlog, reports a finished   *)
(* stream, or suspends, arming the receive the first time.                 *)
(***************************************************************************)
Next_Backlog ==
    /\ reader = "next" /\ backlog # <<>>
    /\ backlog' = Tail(backlog)
    /\ Hand(Head(backlog))
    /\ UNCHANGED <<pool, sock, st, current, engine, leaked>>

\* A finished stream answers with current_result.  Data has been read before,
\* and after ENOBUFS a WebSocketConnection asks again for ever; a stream whose
\* reader is given an old result is followed no further.
Repeats == ~st.cancelled /\ (current.kind = "data" \/ (current.kind = "enobufs" /\ websocket))

Next_Stale ==
    /\ reader = "next" /\ backlog = <<>> /\ (st.finished \/ st.cancelled) /\ Repeats
    /\ reader' = "stale"
    /\ UNCHANGED <<pool, sock, stream, engine, held, got, leaked>>

Next_Finished ==
    /\ reader = "next" /\ backlog = <<>> /\ (st.finished \/ st.cancelled) /\ ~Repeats
    /\ Hand(IF st.cancelled THEN Ended("cancelled") ELSE current)
    /\ UNCHANGED <<pool, sock, stream, engine, leaked>>

\* Mutant: await_suspend forgets to arm the receive.
Arms_Never == FALSE

Arms == ~st.armed

Next_Suspend ==
    /\ reader = "next" /\ backlog = <<>> /\ ~st.finished /\ ~st.cancelled
    /\ st' = [st EXCEPT !.waiting = TRUE, !.armed = @ \/ Arms]
    /\ kernel' = (kernel \/ (backend = "uring" /\ Arms))
    /\ reader' = "wait"
    /\ UNCHANGED <<pool, sock, backlog, current, draining, cqes, swallow, held, got, leaked>>

\* No submission entry is free: the reader is resumed at once.
Next_Busy ==
    /\ backend = "uring"
    /\ reader = "next" /\ backlog = <<>> /\ ~st.finished /\ ~st.cancelled /\ ~st.armed
    /\ Hand(current)
    /\ UNCHANGED <<pool, sock, stream, engine, leaked>>

\* feed_data / process_incoming_data returned; the buffer goes back and the
\* reader reads on, or leaves its loop because the connection failed.
Consumed ==
    /\ reader = "hold"
    /\ ReturnBuffer(held.bid)
    /\ reader' \in {"next", "closing"}
    /\ UNCHANGED <<sock, stream, engine, held, got, leaked>>

\* WebSocketConnection::run waits 100 us after ENOBUFS and tries again.
RetryTimeout ==
    /\ reader = "retry"
    /\ reader' = "next"
    /\ UNCHANGED <<pool, sock, stream, engine, held, got, leaked>>

\* running_ was cleared or the session closed between two reads.
LeaveLoop ==
    /\ reader = "next"
    /\ reader' = "closing"
    /\ UNCHANGED <<pool, sock, stream, engine, held, got, leaked>>

\* Mutant: cancel() does not record the stream among the cancelled ones.
Cancel_Unrecorded ==
    /\ st' = IF st.armed THEN [st EXCEPT !.armed = FALSE, !.cancelled = TRUE, !.finished = TRUE] ELSE st
    /\ cqes' = IF st.armed /\ kernel THEN Append(cqes, Ended("cancelled")) ELSE cqes
    /\ kernel' = FALSE
    /\ swallow' = swallow

\* With io_uring a live request then completes with -ECANCELED.
Cancel ==
    /\ st' = IF st.armed THEN [st EXCEPT !.armed = FALSE, !.cancelled = TRUE, !.finished = TRUE] ELSE st
    /\ cqes' = IF st.armed /\ kernel THEN Append(cqes, Ended("cancelled")) ELSE cqes
    /\ kernel' = (kernel /\ ~st.armed)
    /\ swallow' = (swallow \/ (st.armed /\ backend = "uring"))

\* WebSocketConnection cancels the stream and closes the socket; the HTTP/2
\* loop only closes the socket.
CloseFd ==
    /\ reader = "closing"
    /\ reader' = "closed"
    /\ IF websocket THEN Cancel ELSE UNCHANGED <<st, cqes, kernel, swallow>>
    /\ UNCHANGED <<pool, sock, backlog, current, draining, held, got, leaked>>

\* The coroutine ends: the stream is destroyed with what its backlog holds.
Destroy ==
    /\ reader = "closed"
    /\ reader' = "gone"
    /\ Cancel
    /\ leaked' = leaked \cup (Elements([i \in DOMAIN backlog |-> backlog[i].bid]) \ {NoBid})
    /\ backlog' = <<>>
    /\ UNCHANGED <<pool, sock, current, draining, held, got>>

\* A connection may stay silent, or be over.
Idle == reader \in {"wait", "stale", "gone"} /\ UNCHANGED vars

EngineStep ==
    \/ FlushReturns
    \/ EpollEvent \/ EpollNoBuffer \/ EpollRecv \/ EpollEof \/ EpollWouldBlock
    \/ Dispatch \/ DropCancelled

ReaderStep ==
    \/ Next_Backlog \/ Next_Stale \/ Next_Finished \/ Next_Suspend \/ Next_Busy
    \/ Consumed \/ RetryTimeout \/ CloseFd \/ Destroy

Next ==
    /\ UNCHANGED choice
    /\ \/ PeerSend \/ PeerClose
       \/ KernelData \/ KernelEnds
       \/ EngineStep
       \/ ReaderStep \/ LeaveLoop
       \/ Idle

Spec == Init /\ [][Next]_<<vars, choice>>

\* The event loop keeps running its engine and the coroutines it resumed,
\* and the kernel completes what it can.
FairSpec ==
    /\ Spec
    /\ WF_vars(EngineStep) /\ WF_vars(ReaderStep) /\ WF_vars(KernelData) /\ WF_vars(KernelEnds)

-----------------------------------------------------------------------------
(***************************************************************************)
(* Properties.                                                             *)
(***************************************************************************)
BidsOf(rs) == SelectSeq([i \in DOMAIN rs |-> rs[i].bid], LAMBDA b : b # NoBid)
ChunksOf(rs) == SelectSeq([i \in DOMAIN rs |-> rs[i].chunk], LAMBDA c : c # 0)

\* Where buffers are: in the pool, received and not yet read, or being read.
Whereabouts ==
    free \o pending \o BidsOf(backlog) \o BidsOf(cqes)
      \o (IF reader = "hold" THEN <<held.bid>> ELSE <<>>)

\* Every buffer of the pool is in exactly one place: free, waiting to be
\* published to the kernel, carried by one undelivered result, or held by
\* the reader -- or was dropped with a cancelled stream.  The stream, the
\* engine and the reader pass it on without ever copying it.
BuffersAccounted ==
    /\ TypeOK
    /\ \A i, j \in DOMAIN Whereabouts : Whereabouts[i] = Whereabouts[j] => i = j
    /\ Elements(Whereabouts) \cap leaked = {}
    /\ Elements(Whereabouts) \cup leaked = Bids

\* A completion of a destroyed stream is never dispatched: whatever the kernel
\* still holds for its user_data is recorded as cancelled.
DestroyedIsSwallowed ==
    reader = "gone" /\ (kernel \/ cqes # <<>>) => swallow

\* The reader sees the bytes the peer sent in order, none twice and none
\* skipped, whether a result was handed to a waiting reader or queued, and no
\* result is dispatched to a stream that is gone.
ReadInOrder ==
    /\ DestroyedIsSwallowed
    /\ got = [i \in 1 .. Len(got) |-> i]
    /\ reader \notin {"stale", "closing", "closed", "gone"} =>
          got \o ChunksOf(backlog) \o ChunksOf(cqes) = [i \in 1 .. sock.taken |-> i]

\* What the peer sent reaches the reader unless the reader stops reading, and
\* the peer's close ends the reader: no resumption of the coroutine is lost.
Delivered ==
    /\ Len(got) >= sock.arrived \/ reader \in {"stale", "closing", "closed", "gone"}
    /\ sock.eof => reader \in {"stale", "gone"}
BytesReachReader == <>[]Delivered
=============================================================================

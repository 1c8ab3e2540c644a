----------------------------- MODULE MCRuntime ------------------------------
(***************************************************************************)
(* The event loop, the two engines and a receive stream in one run.  A     *)
(* behaviour is a behaviour of one of them, named by part.  The event loop *)
(* has variables of its own, and the other parts leave them as they are.   *)
(* Those share the variables x1 to x18: a part has the first of them for   *)
(* its own, in the order of its declaration, and the others are 0.         *)
(***************************************************************************)
EXTENDS EventLoop, Integers, TLC

CONSTANTS k1, k2, f1, s1, t1, t2

VARIABLES
    part,
    x1, x2, x3, x4, x5, x6, x7, x8, x9, x10, x11, x12, x13, x14, x15, x16, x17, x18

\* A plain function and one that spawns the second root.
TwoJobs == {[op |-> "call", arg |-> f1], [op |-> "spawn", arg |-> k2]}

Engine == INSTANCE EpollEngine WITH
    Tasks <- {t1, t2}, Fds <- {4}, CancelsFirst <- TRUE, owner <- x1, readable <- x2,
    writable <- x3, in_awaiter <- x4, out_awaiter <- x5, timers_ <- x6, ready_ <- x7,
    posted_ <- x8, due <- x9, jobs <- x10, task <- x11, op <- x12, stream <- x13, data <- x14,
    phase <- x15, events <- x16, outpart <- x17, batch <- x18
Receive == INSTANCE RecvStream WITH
    Entries <- 3, MaxChunks <- 4, backend <- x1, websocket <- x2, free <- x3, pending <- x4,
    sock <- x5, st <- x6, backlog <- x7, current <- x8, draining <- x9, cqes <- x10,
    kernel <- x11, swallow <- x12, reader <- x13, held <- x14, got <- x15, leaked <- x16
\* The second coroutine cancels what the first waits for, or runs beside the
\* accept loop.
UringOps == t1 :> 2 @@ t2 :> 1
Uring == INSTANCE IoUringEngine WITH
    Tasks <- {t1, t2}, Teams <- {{t1, t2}, {t2, "acceptor"}}, Entries <- 2, MaxOps <- UringOps,
    MaxConns <- 2, MaxFails <- 1, team <- x1, sq <- x2, inflight <- x3, cq <- x4,
    cancelled_user_data_ <- x5, posted_completions_ <- x6, efd <- x7, pc <- x8, runner <- x9,
    task <- x10, acceptor <- x11, st <- x12, net <- x13, handled <- x14, running_ <- x15,
    fails <- x16, blame <- x17

ASSUME LoopAssumption /\ Engine!EngineAssumption /\ Receive!StreamAssumption /\ Uring!UringAssumption

-----------------------------------------------------------------------------
xs == <<x1, x2, x3, x4, x5, x6, x7, x8, x9, x10, x11, x12, x13, x14, x15, x16, x17, x18>>
all == <<part, vars, xs>>

Idle ==
    /\ x1 = 0 /\ x2 = 0 /\ x3 = 0 /\ x4 = 0 /\ x5 = 0 /\ x6 = 0 /\ x7 = 0 /\ x8 = 0 /\ x9 = 0
    /\ x10 = 0 /\ x11 = 0 /\ x12 = 0 /\ x13 = 0 /\ x14 = 0 /\ x15 = 0 /\ x16 = 0 /\ x17 = 0
    /\ x18 = 0
MCInit ==
    /\ Init
    /\ \/ part = "loop" /\ Idle
       \/ part = "engine" /\ Engine!Init
       \/ part = "receive" /\ Receive!Init /\ x17 = 0 /\ x18 = 0
       \/ part = "uring" /\ Uring!Init /\ x18 = 0

OfLoop(A) == part = "loop" /\ A /\ UNCHANGED <<part, xs>>
OfEngine(A) == part = "engine" /\ A /\ UNCHANGED <<part, vars>>
OfReceive(A) == part = "receive" /\ A /\ UNCHANGED <<part, vars, x17, x18>>
OfUring(A) == part = "uring" /\ A /\ UNCHANGED <<part, vars, x18>>
MCNext ==
    \/ OfLoop(Next)
    \/ OfEngine(Engine!Next)
    \/ OfReceive(Receive!Next)
    \/ OfUring(Uring!Next)

\* What the actions of RecvStream leave alone: its choice of engine and reader,
\* and what is not its own.
kept == <<part, vars, x1, x2, x17, x18>>

\* The fairness of the parts, process by process.
Runs ==
    \/ OfLoop(OwnerStep)
    \/ OfEngine(Engine!LoopStep)
    \/ part = "receive" /\ Receive!EngineStep /\ UNCHANGED kept
    \/ OfUring(Uring!LoopStep)
Reads == part = "receive" /\ Receive!ReaderStep /\ UNCHANGED kept
KernelData == part = "receive" /\ Receive!KernelData /\ UNCHANGED kept
KernelEnds == part = "receive" /\ Receive!KernelEnds /\ UNCHANGED kept
KernelCompletes == OfUring(Uring!KernelStep)
OthersPost == OfUring(Uring!Others)
MCSpec ==
    /\ MCInit /\ [][MCNext]_all
    /\ WF_all(Runs) /\ WF_all(Reads)
    /\ WF_all(KernelData) /\ WF_all(KernelEnds)
    /\ WF_all(KernelCompletes) /\ WF_all(OthersPost)
    /\ WF_all(OfLoop(StopWake(s1)))
    /\ \A j \in TwoJobs : WF_all(OfLoop(PostWake(j)))
    /\ \A t \in {t1, t2} :
          /\ WF_all(OfEngine(Engine!Submit(t)))
          /\ WF_all(OfEngine(Engine!PostCompletion(t)))
          /\ WF_all(OfEngine(Engine!Deadline(t)))

-----------------------------------------------------------------------------
(* Properties *)

\* A coroutine is resumed once per operation, and by that operation's completion
\* (EpollEngine, IoUringEngine); the accept loop gets each connection once
\* (IoUringEngine).
ResumedOnce ==
    /\ part = "engine" => Engine!TypeOK /\ Engine!ResumedOnce
    /\ part = "uring" => Uring!Exact
\* The buffers of the pool are in one place each, and the reader sees the bytes
\* of the peer in order, none twice and none skipped (RecvStream).
ReadInOrder == part = "receive" => Receive!BuffersAccounted /\ Receive!ReadInOrder
\* What other threads ask of the loop happens: posted functions run, stop()
\* ends run() (EventLoop).  What the peer sends reaches the reader
\* (RecvStream).  Coroutines on the ring end and connections are handled
\* (IoUringEngine).
LoopHeeds ==
    <>[](/\ part = "loop" => Heeded
         /\ part = "receive" => Receive!Delivered
         /\ part = "uring" => Uring!Settled)
\* Operations that do not depend on the peer complete, and so does a receive
\* whose socket has data (EpollEngine).
OperationsComplete ==
    \A t \in {t1, t2} : (part = "engine" /\ Engine!Promised(t)) ~> (part = "engine" /\ ~Engine!Waits(t))
=============================================================================

----------------------------- MODULE EpollEngine -----------------------------
(***************************************************************************)
(* The epoll engine (src/src/core/engine/EpollEngine.cpp) under the event  *)
(* loop that calls it and connection coroutines that use it.               *)
(*                                                                         *)
(* A suspended coroutine is named by its task; the awaiter of its current  *)
(* operation lives in its frame, so a task stands for that awaiter too.    *)
(* What a task waits for is found in one of the engine's places: a slot of *)
(* the fd table, the timer heap, the ready list, the posted queue, or a    *)
(* job of the thread pool.  Coroutines run on the loop's thread, one at a  *)
(* time and only until they suspend; pool jobs run on other threads.       *)
(***************************************************************************)
EXTENDS Integers, FiniteSets, SequencesExt

CONSTANTS
    Tasks,          \* connection coroutines
    Fds,            \* descriptors the kernel hands out, lowest first
    CancelsFirst    \* the reader cancels its stream before it closes the socket

EngineAssumption ==
    /\ IsFiniteSet(Tasks)
    /\ Fds \subseteq Nat /\ IsFiniteSet(Fds)
    /\ CancelsFirst \in BOOLEAN

None == "none"
NoFd == -1

VARIABLES
    owner,      \* fd -> the task that has it open
    readable, writable,     \* fd -> what the kernel would report
    in_awaiter, out_awaiter,    \* slots_: fd -> awaiting task
    timers_, ready_, posted_,
    due,        \* timers whose deadline has passed
    jobs,       \* file operations in the thread pool
    task,       \* task -> idle, run, or wait
    op,         \* task -> the operation it waits for
    stream,     \* task -> fd of its armed multishot receive
    data,       \* tasks whose stream has a backlog
    phase,      \* the loop: wait, events, or process
    events,     \* what epoll_wait returned and is still to be handled
    outpart,    \* the event whose OUT half comes next
    batch       \* the completions process_completions moved out of ready_

timers == <<timers_, due>>
engine == <<in_awaiter, out_awaiter, timers, ready_, posted_, jobs>>
loop == <<phase, events, outpart, batch>>
coros == <<task, op, stream, data>>
sockets == <<owner, readable, writable>>
vars == <<sockets, engine, coros, loop>>

-----------------------------------------------------------------------------
Ops == {"recv", "poll_in", "send", "connect", "timeout", "file", "close", "other", "next"}
Elements(seq) == {seq[i] : i \in DOMAIN seq}
Running == {t \in Tasks : task[t] = "run"}
FdOf(t) == {fd \in Fds : owner[fd] = t}

TypeOK ==
    /\ owner \in [Fds -> Tasks \cup {None}]
    /\ readable \in [Fds -> BOOLEAN] /\ writable \in [Fds -> BOOLEAN]
    /\ in_awaiter \in [Fds -> Tasks \cup {None}] /\ out_awaiter \in [Fds -> Tasks \cup {None}]
    /\ timers_ \subseteq Tasks /\ due \subseteq timers_ /\ jobs \subseteq Tasks
    /\ ready_ \in Seq(Tasks) /\ posted_ \in Seq(Tasks) /\ batch \in Seq(Tasks)
    /\ task \in [Tasks -> {"idle", "run", "wait"}]
    /\ op \in [Tasks -> Ops]
    /\ stream \in [Tasks -> Fds \cup {NoFd}]
    /\ data \subseteq Tasks
    /\ phase \in {"wait", "events", "process"}
    /\ events \subseteq [fd : Fds, in : BOOLEAN, out : BOOLEAN]
    /\ outpart \in Fds \cup {NoFd}
    /\ Cardinality(Running) <= 1

Init ==
    /\ owner = [fd \in Fds |-> None]
    /\ readable = [fd \in Fds |-> FALSE] /\ writable = [fd \in Fds |-> FALSE]
    /\ in_awaiter = [fd \in Fds |-> None] /\ out_awaiter = [fd \in Fds |-> None]
    /\ timers_ = {} /\ due = {} /\ jobs = {} /\ ready_ = <<>> /\ posted_ = <<>> /\ batch = <<>>
    /\ task = [t \in Tasks |-> "idle"] /\ op = [t \in Tasks |-> "other"]
    /\ stream = [t \in Tasks |-> NoFd] /\ data = {}
    /\ phase = "wait" /\ events = {} /\ outpart = NoFd

(***************************************************************************)
(* A running coroutine submits an operation and suspends.  A socket        *)
(* operation is tried at once; EAGAIN leaves an interest in the slot.      *)
(***************************************************************************)
Suspend(t, o) ==
    /\ task[t] = "run"
    /\ task' = [task EXCEPT ![t] = "wait"]
    /\ op' = [op EXCEPT ![t] = o]

\* recv, recvmsg, recv_provided, accept
SubmitRecv(t) ==
    \E fd \in FdOf(t) :
        /\ stream[t] = NoFd
        /\ Suspend(t, "recv")
        /\ IF readable[fd]
           THEN /\ readable' = [readable EXCEPT ![fd] = FALSE]
                /\ ready_' = Append(ready_, t) /\ UNCHANGED in_awaiter
           ELSE /\ in_awaiter' = [in_awaiter EXCEPT ![fd] = t]
                /\ UNCHANGED <<readable, ready_>>
        /\ UNCHANGED <<owner, writable, out_awaiter, timers, posted_, jobs, stream, data, loop>>

\* send, send_zc, splice, and connect when it is in progress
SubmitSend(t) ==
    \E fd \in FdOf(t), o \in {"send", "connect"} :
        /\ Suspend(t, o)
        /\ IF writable[fd] /\ o = "send"
           THEN ready_' = Append(ready_, t) /\ UNCHANGED out_awaiter
           ELSE out_awaiter' = [out_awaiter EXCEPT ![fd] = t] /\ UNCHANGED ready_
        /\ UNCHANGED <<sockets, in_awaiter, timers, posted_, jobs, stream, data, loop>>

\* poll never looks at the socket itself.
SubmitPoll(t) ==
    \E fd \in FdOf(t) :
        /\ stream[t] = NoFd
        /\ Suspend(t, "poll_in")
        /\ in_awaiter' = [in_awaiter EXCEPT ![fd] = t]
        /\ UNCHANGED <<sockets, out_awaiter, timers, ready_, posted_, jobs, stream, data, loop>>

SubmitTimeout(t) ==
    /\ Suspend(t, "timeout")
    /\ timers_' = timers_ \cup {t}
    /\ UNCHANGED <<sockets, in_awaiter, out_awaiter, ready_, posted_, jobs, stream, data, loop, due>>

\* read, write, fsync, fallocate
SubmitFile(t) ==
    /\ Suspend(t, "file")
    /\ jobs' = jobs \cup {t}
    /\ UNCHANGED <<sockets, in_awaiter, out_awaiter, timers, ready_, posted_, stream, data, loop>>

\* shutdown; cancel, which only overwrites the result of a ready completion
SubmitOther(t) ==
    /\ Suspend(t, "other")
    /\ ready_' = Append(ready_, t)
    /\ UNCHANGED <<sockets, in_awaiter, out_awaiter, timers, posted_, jobs, stream, data, loop>>

\* stream.next(): take from the backlog or suspend, arming the first time.
SubmitNext(t) ==
    \E fd \in FdOf(t) :
        \/ /\ t \in data /\ task[t] = "run"
           /\ data' = data \ {t}
           /\ UNCHANGED <<sockets, engine, task, op, stream, loop>>
        \/ /\ t \notin data
           /\ Suspend(t, "next")
           /\ stream' = [stream EXCEPT ![t] = fd]
           /\ in_awaiter' = IF stream[t] = NoFd THEN [in_awaiter EXCEPT ![fd] = t] ELSE in_awaiter
           /\ UNCHANGED <<sockets, out_awaiter, timers, ready_, posted_, jobs, data, loop>>

\* Mutant: close() leaves the slot's awaiters in place.
SubmitClose_KeepSlot(t) ==
    \E fd \in FdOf(t) :
        /\ Suspend(t, "close")
        /\ owner' = [owner EXCEPT ![fd] = None]
        /\ ready_' = Append(ready_, t)
        /\ stream' = IF CancelsFirst THEN [stream EXCEPT ![t] = NoFd] ELSE stream
        /\ UNCHANGED <<readable, writable, in_awaiter, out_awaiter, timers, posted_, jobs, data, loop>>

\* close() forgets both interests and closes the descriptor at once; the
\* coroutine goes on when the completion is processed.
SubmitClose(t) ==
    \E fd \in FdOf(t) :
        /\ Suspend(t, "close")
        /\ owner' = [owner EXCEPT ![fd] = None]
        /\ in_awaiter' = [in_awaiter EXCEPT ![fd] = None]
        /\ out_awaiter' = [out_awaiter EXCEPT ![fd] = None]
        /\ ready_' = Append(ready_, t)
        /\ stream' = IF CancelsFirst THEN [stream EXCEPT ![t] = NoFd] ELSE stream
        /\ UNCHANGED <<readable, writable, timers, posted_, jobs, data, loop>>

\* The coroutine ends.  A stream that is still armed is cancelled now, by
\* removing whatever reads from its descriptor.
Finish(t) ==
    /\ task[t] = "run" /\ FdOf(t) = {}
    /\ task' = [task EXCEPT ![t] = "idle"]
    /\ in_awaiter' = [fd \in Fds |-> IF fd = stream[t] THEN None ELSE in_awaiter[fd]]
    /\ stream' = [stream EXCEPT ![t] = NoFd]
    /\ data' = data \ {t}
    /\ UNCHANGED <<sockets, out_awaiter, timers, ready_, posted_, jobs, op, loop>>
Submit(t) ==
    \/ SubmitRecv(t) \/ SubmitSend(t) \/ SubmitPoll(t) \/ SubmitTimeout(t) \/ SubmitFile(t)
    \/ SubmitOther(t) \/ SubmitNext(t) \/ SubmitClose(t) \/ Finish(t)

(***************************************************************************)
(* The loop: submit_and_wait collects events, handles them in turn and     *)
(* moves expired timers to ready_; process_completions then resumes.       *)
(***************************************************************************)
Happened ==
    {e \in [fd : Fds, in : BOOLEAN, out : BOOLEAN] :
        /\ owner[e.fd] # None
        /\ e.in = (in_awaiter[e.fd] # None /\ readable[e.fd])
        /\ e.out = (out_awaiter[e.fd] # None /\ writable[e.fd])
        /\ e.in \/ e.out}

Wait ==
    /\ phase = "wait" /\ Running = {}
    /\ events' = Happened
    /\ phase' = "events"
    /\ UNCHANGED <<sockets, engine, coros, outpart, batch>>

\* The listening socket's event: accept4 takes the lowest free descriptor and
\* the accept loop spawns a coroutine for it, all inside the event.
Accept(t) ==
    /\ phase = "events" /\ Running = {} /\ outpart = NoFd
    /\ task[t] = "idle"
    /\ \E fd \in Fds :
          /\ owner[fd] = None
          /\ \A lower \in Fds : owner[lower] = None => fd <= lower
          /\ owner' = [owner EXCEPT ![fd] = t]
          /\ readable' = [readable EXCEPT ![fd] = FALSE]
          /\ writable' = [writable EXCEPT ![fd] = FALSE]
    /\ task' = [task EXCEPT ![t] = "run"]
    /\ UNCHANGED <<engine, op, stream, data, loop>>

\* Mutant: the interest is removed and the completion forgotten.
TakeIn_Forget(fd) ==
    /\ ready_' = ready_
    /\ in_awaiter' = [in_awaiter EXCEPT ![fd] = None]

TakeIn(fd) ==
    /\ ready_' = Append(ready_, in_awaiter[fd])
    /\ in_awaiter' = [in_awaiter EXCEPT ![fd] = None]

\* Data for an armed stream: a reader in next() is resumed inside the event.
\* End of file or an error also removes the interest and disarms.
StreamIn(fd, t) ==
    /\ IF task[t] = "wait" /\ op[t] = "next"
       THEN task' = [task EXCEPT ![t] = "run"] /\ UNCHANGED data
       ELSE data' = data \cup {t} /\ UNCHANGED task
    /\ readable' = [readable EXCEPT ![fd] = FALSE]
    /\ \/ UNCHANGED <<stream, in_awaiter>>
       \/ /\ stream' = [stream EXCEPT ![t] = NoFd]
          /\ in_awaiter' = [in_awaiter EXCEPT ![fd] = None]
    /\ UNCHANGED <<op, ready_>>

\* The IN half of an event, for whatever awaits now: a recv may find that it
\* would block, a poll completes without looking.
HandleIn(fd) ==
    LET t == in_awaiter[fd] IN
    IF t = None \/ (~readable[fd] /\ (stream[t] = fd \/ op[t] = "recv"))
    THEN UNCHANGED <<in_awaiter, ready_, readable, coros>>
    ELSE \/ stream[t] = fd /\ StreamIn(fd, t)
         \/ /\ stream[t] # fd
            /\ TakeIn(fd)
            /\ readable' = [readable EXCEPT ![fd] = (op[t] = "poll_in")]
            /\ UNCHANGED coros

HandleEvent ==
    /\ phase = "events" /\ Running = {} /\ outpart = NoFd
    /\ \E e \in events :
          /\ events' = events \ {e}
          /\ outpart' = IF e.out THEN e.fd ELSE NoFd
          /\ IF e.in THEN HandleIn(e.fd) ELSE UNCHANGED <<in_awaiter, ready_, readable, coros>>
    /\ UNCHANGED <<owner, writable, out_awaiter, timers, posted_, jobs, phase, batch>>

\* The OUT half, which runs after whatever the IN half resumed.
HandleOut ==
    /\ outpart # NoFd /\ Running = {}
    /\ outpart' = NoFd
    /\ LET t == out_awaiter[outpart] IN
       IF t = None \/ (op[t] = "send" /\ ~writable[outpart])
       THEN UNCHANGED <<out_awaiter, ready_>>
       ELSE /\ out_awaiter' = [out_awaiter EXCEPT ![outpart] = None]
            /\ ready_' = Append(ready_, t)
    /\ UNCHANGED <<sockets, in_awaiter, timers, posted_, jobs, coros, phase, events, batch>>

EventsDone == phase = "events" /\ Running = {} /\ events = {} /\ outpart = NoFd

\* Mutant: an expired timer stays on the heap.
CheckTimers_NoPop ==
    /\ EventsDone /\ due # {}
    /\ \E order \in SetToSeqs(due) : ready_' = ready_ \o order
    /\ due' = {} /\ UNCHANGED timers_
    /\ UNCHANGED <<sockets, in_awaiter, out_awaiter, posted_, jobs, coros, loop>>

\* Timers whose deadline passed are popped in the order of their deadlines.
CheckTimers ==
    /\ EventsDone /\ due # {}
    /\ \E order \in SetToSeqs(due) : ready_' = ready_ \o order
    /\ timers_' = timers_ \ due /\ due' = {}
    /\ UNCHANGED <<sockets, in_awaiter, out_awaiter, posted_, jobs, coros, loop>>

\* Mutant: what other threads posted is left for later and dropped.
ProcessCompletions_DropPosted ==
    /\ EventsDone /\ due = {}
    /\ phase' = "process"
    /\ batch' = ready_ /\ ready_' = <<>> /\ posted_' = <<>>
    /\ UNCHANGED <<sockets, in_awaiter, out_awaiter, timers, jobs, coros, events, outpart>>

ProcessCompletions ==
    /\ EventsDone /\ due = {}
    /\ phase' = "process"
    /\ batch' = ready_ \o posted_ /\ ready_' = <<>> /\ posted_' = <<>>
    /\ UNCHANGED <<sockets, in_awaiter, out_awaiter, timers, jobs, coros, events, outpart>>

\* Mutant: two threads run process_completions.
Resume_Concurrent ==
    /\ phase = "process" /\ batch # <<>>
    /\ batch' = Tail(batch)
    /\ task' = [task EXCEPT ![Head(batch)] = "run"]
    /\ UNCHANGED <<sockets, engine, op, stream, data, phase, events, outpart>>

\* on_completion resumes the awaiting coroutine.
Resume ==
    /\ phase = "process" /\ Running = {} /\ batch # <<>>
    /\ batch' = Tail(batch)
    /\ task' = [task EXCEPT ![Head(batch)] = "run"]
    /\ UNCHANGED <<sockets, engine, op, stream, data, phase, events, outpart>>

IterationDone ==
    /\ phase = "process" /\ Running = {} /\ batch = <<>>
    /\ phase' = "wait"
    /\ UNCHANGED <<sockets, engine, coros, events, outpart, batch>>

LoopStep ==
    \/ Wait \/ HandleEvent \/ HandleOut \/ CheckTimers \/ ProcessCompletions \/ Resume \/ IterationDone

(***************************************************************************)
(* Other threads and the kernel.                                           *)
(***************************************************************************)
Deadline(t) ==
    /\ t \in timers_ \ due
    /\ due' = due \cup {t}
    /\ UNCHANGED <<sockets, in_awaiter, out_awaiter, timers_, ready_, posted_, jobs, coros, loop>>

PostCompletion(t) ==
    /\ t \in jobs
    /\ jobs' = jobs \ {t}
    /\ posted_' = Append(posted_, t)
    /\ UNCHANGED <<sockets, in_awaiter, out_awaiter, timers, ready_, coros, loop>>

Kernel ==
    /\ \E fd \in Fds :
          /\ owner[fd] # None
          /\ \/ ~readable[fd] /\ readable' = [readable EXCEPT ![fd] = TRUE] /\ UNCHANGED writable
             \/ writable' = [writable EXCEPT ![fd] = ~@] /\ UNCHANGED readable
    /\ UNCHANGED <<owner, engine, coros, loop>>

Next ==
    \/ \E t \in Tasks : Submit(t) \/ Accept(t) \/ Deadline(t) \/ PostCompletion(t)
    \/ LoopStep
    \/ Kernel

Spec == Init /\ [][Next]_vars

\* The loop runs, a running coroutine reaches its next suspension, the pool
\* finishes its jobs and deadlines pass.
FairSpec ==
    /\ Spec
    /\ WF_vars(LoopStep)
    /\ \A t \in Tasks :
          /\ WF_vars(Submit(t)) /\ WF_vars(PostCompletion(t)) /\ WF_vars(Deadline(t))

-----------------------------------------------------------------------------
(***************************************************************************)
(* Properties.                                                             *)
(***************************************************************************)
Occurrences(seq, t) == Cardinality({i \in DOMAIN seq : seq[i] = t})

\* The places from which task t would be resumed.
Completions(t) ==
    Occurrences(ready_, t) + Occurrences(posted_, t) + Occurrences(batch, t)
      + Cardinality({fd \in Fds : in_awaiter[fd] = t /\ (stream[t] = fd => op[t] = "next" /\ task[t] = "wait")})
      + Cardinality({fd \in Fds : out_awaiter[fd] = t})
      + Cardinality({t} \cap timers_) + Cardinality({t} \cap jobs)

\* Only the owner of an open descriptor, or its stream, is in a slot, so a
\* descriptor the kernel hands out again starts with an empty slot.
SlotsOwned ==
    \A fd \in Fds :
        /\ in_awaiter[fd] \in {owner[fd], None}
        /\ out_awaiter[fd] \in {owner[fd], None}

\* "Implements the unified IoEngine interface" (EpollEngine.h:20): a coroutine
\* is resumed once per operation.  While it waits exactly one place of the
\* engine leads back to its awaiter, and none does while it runs or after it
\* ended, also when its descriptor is closed and handed out again.
ResumedOnce ==
    /\ SlotsOwned
    /\ \A t \in Tasks : Completions(t) = (IF task[t] = "wait" THEN 1 ELSE 0)

\* Operations that do not depend on the peer complete, and so does a receive
\* whose socket has data, once the event is handled.
Waits(t) == task[t] = "wait"
Promised(t) ==
    /\ Waits(t)
    /\ \/ op[t] \in {"timeout", "file", "close", "other"}
       \/ op[t] \in {"recv", "next"} /\ \E fd \in FdOf(t) : readable[fd]
OperationsComplete == \A t \in Tasks : Promised(t) ~> ~Waits(t)
=============================================================================

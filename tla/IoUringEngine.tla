--------------------------- MODULE IoUringEngine ----------------------------
(***************************************************************************)
(* The io_uring engine (src/src/core/engine/IoUringEngine.cpp) under the   *)
(* event loop, with coroutines that wait for single operations, zero-copy  *)
(* sends and functions on other threads, that cancel each other's          *)
(* operations, and with the accept loop of the server                      *)
(* (Server::accept_loop) on a multishot accept stream (IoEngine.{h,cpp}).  *)
(*                                                                         *)
(* A queue entry is [ud, op, id, target]: ud is the address of the awaiter *)
(* (user_data).  A coroutine's awaiters follow each other at one address,  *)
(* its name; id tells its operations apart and is no part of the code.     *)
(***************************************************************************)
EXTENDS Integers, FiniteSets, SequencesExt

CONSTANTS
    Tasks,          \* coroutines
    Teams,          \* the sets of participants to look at
    Entries,        \* entries of the submission queue
    MaxOps,         \* operations of each coroutine
    MaxConns,       \* connections that clients open
    MaxFails        \* io_uring_submit and accept failures

Acceptor == "acceptor"
Wake == "wake"
Null == "null"

UringAssumption ==
    /\ Entries \in Nat \ {0} /\ MaxOps \in [Tasks -> Nat] /\ MaxConns \in Nat /\ MaxFails \in Nat
    /\ Teams \subseteq SUBSET (Tasks \cup {Acceptor})

VARIABLES
    team,
    sq,             \* prepared entries
    inflight,       \* entries the kernel has, and jobs that other threads have
    cq,             \* completions: [ud, id, res, more, notif]
    cancelled_user_data_,
    posted_completions_,
    efd,            \* wakeup_fd_ is readable
    pc,             \* the loop: tasks, wait, cqes, posted, or undefined
    runner,         \* the coroutine that runs on the loop's thread
    task,           \* per coroutine: [at, id, op, sent, notified, swallowed]
    acceptor,       \* accept_loop: off, next, wait, resume, done
    st,             \* its StreamState
    net,            \* connections: [arrived, accepted]
    handled,        \* connections that got a handler or were closed
    running_,       \* Server::running_
    fails,
    blame           \* history: which of the known weak spots was met

ring == <<sq, inflight>>
people == <<runner, task, acceptor, st, handled>>
ghosts == <<team, fails, blame>>
vars == <<ring, cq, cancelled_user_data_, posted_completions_, efd, pc, people, net, running_, ghosts>>

Entry(ud, op, id, target) == [ud |-> ud, op |-> op, id |-> id, target |-> target]
Cqe(ud, id, res, more, notif) == [ud |-> ud, id |-> id, res |-> res, more |-> more, notif |-> notif]
Poll == Entry(Wake, "poll", 0, Null)
Stream == [armed |-> FALSE, finished |-> FALSE, cancelled |-> FALSE, backlog |-> <<>>, current |-> -1]

\* What there is of an awaiter in the queues.
Entries_(u) == {e \in Range(sq) \cup inflight : e.ud = u}
Cqes(u) == {c \in Range(cq) : c.ud = u}

Init ==
    /\ team \in Teams
    /\ sq = <<Poll>>        \* arm_wakeup
    /\ inflight = {} /\ cq = <<>> /\ cancelled_user_data_ = {} /\ posted_completions_ = <<>>
    /\ efd = FALSE /\ pc = "tasks" /\ runner = Null
    /\ task = [t \in Tasks |-> [at |-> IF t \in team THEN "new" ELSE "done", id |-> 0, op |-> "none",
                                sent |-> FALSE, notified |-> FALSE, swallowed |-> FALSE]]
    /\ acceptor = IF Acceptor \in team THEN "next" ELSE "off"
    /\ st = Stream /\ net = [arrived |-> 0, accepted |-> 0] /\ handled = {}
    /\ running_ = TRUE /\ fails = 0 /\ blame = {}

-----------------------------------------------------------------------------
(* The submission queue *)

\* Mutant: a full queue is submitted and the entry is then forgotten.
acquire_sqe_Drop(e) ==
    /\ IF Len(sq) < Entries
       THEN sq' = Append(sq, e) /\ UNCHANGED inflight
       ELSE sq' = <<>> /\ inflight' = inflight \cup Range(sq)
    /\ UNCHANGED fails
\* acquire_sqe: an entry, if need be after submitting those there are.
acquire_sqe(e) ==
    /\ IF Len(sq) < Entries
       THEN sq' = Append(sq, e) /\ UNCHANGED inflight
       ELSE sq' = <<e>> /\ inflight' = inflight \cup Range(sq)
    /\ UNCHANGED fails
\* The queue is full and io_uring_submit fails: no entry.
NoEntry ==
    /\ Len(sq) = Entries /\ fails < MaxFails
    /\ fails' = fails + 1 /\ UNCHANGED ring

\* Another coroutine is started by the loop.
Start(t) ==
    /\ pc = "tasks" /\ runner = Null /\ task[t].at = "new"
    /\ runner' = t /\ task' = [task EXCEPT ![t].at = "run"]
    /\ UNCHANGED <<ring, cq, cancelled_user_data_, posted_completions_, efd, pc, acceptor, st, handled, net, running_, ghosts>>

Waits(t, op) ==
    [task EXCEPT ![t] = [@ EXCEPT !.at = "wait", !.id = @ + 1, !.op = op, !.sent = FALSE, !.notified = FALSE]]

\* submit_recv, submit_send, submit_read and the other single operations, and
\* submit_send_zc.  Without an entry the awaiter is resumed with -EBUSY.
Submit(t, op) ==
    /\ runner = t /\ task[t].id < MaxOps[t]
    /\ \/ /\ acquire_sqe(Entry(t, op, task[t].id + 1, Null))
          /\ task' = Waits(t, op) /\ runner' = Null
       \/ /\ NoEntry
          /\ task' = [task EXCEPT ![t].id = @ + 1] /\ UNCHANGED runner
    /\ UNCHANGED <<cq, cancelled_user_data_, posted_completions_, efd, pc, acceptor, st, handled, net, running_, team, blame>>

SubmitSingle(t) == Submit(t, "single")
submit_send_zc(t) == Submit(t, "send_zc")

\* A function on another thread will call post_completion.
Offload(t) ==
    /\ runner = t /\ task[t].id < MaxOps[t]
    /\ inflight' = inflight \cup {Entry(t, "job", task[t].id + 1, Null)}
    /\ task' = Waits(t, "job") /\ runner' = Null
    /\ UNCHANGED <<sq, cq, cancelled_user_data_, posted_completions_, efd, pc, acceptor, st, handled, net, running_, ghosts>>

\* An operation that process_completions will see the completion of.
Cancellable(u) == Cqes(u) # {} \/ \E e \in Entries_(u) : e.op # "job"
\* Mutant: the address is noted although there is no entry for the request.
submit_cancel_First(t, u) ==
    /\ runner = t /\ task[t].id < MaxOps[t] /\ u # t /\ task[u].at # "new"
    /\ cancelled_user_data_' = cancelled_user_data_ \cup {u}
    /\ \/ /\ acquire_sqe(Entry(t, "cancel", task[t].id + 1, u))
          /\ blame' = IF Cancellable(u) THEN blame ELSE blame \cup {"stale"}
          /\ task' = Waits(t, "cancel") /\ runner' = Null
       \/ /\ NoEntry
          /\ task' = [task EXCEPT ![t].id = @ + 1] /\ UNCHANGED <<runner, blame>>
    /\ UNCHANGED <<cq, posted_completions_, efd, pc, acceptor, st, handled, net, running_, team>>
\* submit_cancel: the address is noted, whatever is or will be there.
submit_cancel(t, u) ==
    /\ runner = t /\ task[t].id < MaxOps[t] /\ u # t /\ task[u].at # "new"
    /\ \/ /\ acquire_sqe(Entry(t, "cancel", task[t].id + 1, u))
          /\ cancelled_user_data_' = cancelled_user_data_ \cup {u}
          /\ blame' = IF Cancellable(u) THEN blame ELSE blame \cup {"stale"}
          /\ task' = Waits(t, "cancel") /\ runner' = Null
       \/ /\ NoEntry
          /\ task' = [task EXCEPT ![t].id = @ + 1] /\ UNCHANGED <<runner, blame, cancelled_user_data_>>
    /\ UNCHANGED <<cq, posted_completions_, efd, pc, acceptor, st, handled, net, running_, team>>

Finish(t) ==
    /\ runner = t
    /\ task' = [task EXCEPT ![t].at = "done"] /\ runner' = Null
    /\ UNCHANGED <<ring, cq, cancelled_user_data_, posted_completions_, efd, pc, acceptor, st, handled, net, running_, ghosts>>

-----------------------------------------------------------------------------
(* The loop: submit_and_wait, process_completions *)

EnterWait ==
    /\ pc = "tasks" /\ runner = Null /\ acceptor # "next" /\ \A t \in Tasks : task[t].at # "new"
    /\ \/ sq' = <<>> /\ inflight' = inflight \cup Range(sq) /\ pc' = "wait" /\ UNCHANGED fails
       \/ sq # <<>> /\ fails < MaxFails /\ fails' = fails + 1 /\ pc' = "cqes" /\ UNCHANGED ring
    /\ UNCHANGED <<cq, cancelled_user_data_, posted_completions_, efd, people, net, running_, team, blame>>

LeaveWait ==
    /\ pc = "wait" /\ cq # <<>>
    /\ pc' = "cqes"
    /\ UNCHANGED <<ring, cq, cancelled_user_data_, posted_completions_, efd, people, net, running_, ghosts>>

\* The awaiter of t gets a completion and resumes its coroutine, which is what
\* it should be unless the operation was over.
Resume(t, id) ==
    IF task[t].at = "wait" /\ task[t].id = id
    THEN /\ task' = [task EXCEPT ![t].at = "run"] /\ runner' = t /\ UNCHANGED pc
    ELSE pc' = "undefined" /\ UNCHANGED <<task, runner>>

\* Mutant: the coroutine is resumed although the kernel still reads the buffer.
SendZc_Early(t, c) ==
    IF c.notif THEN UNCHANGED <<task, runner, pc>> ELSE Resume(t, c.id)
\* SendZcAwaiter::on_completion: both the result and the notification, but for
\* an error.
SendZc(t, c) ==
    LET sent == task[t].sent \/ ~c.notif
        notified == task[t].notified \/ c.notif \/ ~c.more
    IN IF task[t].at # "wait" \/ task[t].id # c.id THEN Resume(t, c.id)
       ELSE IF c.res < 0 \/ (sent /\ notified) THEN Resume(t, c.id)
       ELSE task' = [task EXCEPT ![t].sent = sent, ![t].notified = notified] /\ UNCHANGED <<runner, pc>>

\* WakeupAwaiter::on_completion: read, and poll again unless there is no entry.
OnWake ==
    /\ efd' = FALSE
    /\ \/ acquire_sqe(Poll) /\ UNCHANGED blame
       \/ NoEntry /\ blame' = blame \cup {"deaf"}

\* MultishotAcceptStream::StreamState::on_completion
OnAccept(c) ==
    LET over == ~c.more \/ c.res < 0
        s == [st EXCEPT !.armed = ~over, !.finished = @ \/ over]
    IN IF acceptor = "wait"
       THEN st' = [s EXCEPT !.current = c.res] /\ acceptor' = "resume" /\ runner' = Acceptor
       ELSE st' = [s EXCEPT !.backlog = Append(@, c.res)] /\ UNCHANGED <<acceptor, runner>>

\* Mutant: the address is forgotten at the first completion.
Forget_First(c) == cancelled_user_data_ \ {c.ud}
\* A multishot or zero-copy operation has more to come.
Forget(c) == IF ~c.more \/ c.res < 0 THEN cancelled_user_data_ \ {c.ud} ELSE cancelled_user_data_

\* One completion of the queue.
Dispatch ==
    LET c == Head(cq)
    IN /\ pc = "cqes" /\ runner = Null /\ cq # <<>>
       /\ cq' = Tail(cq)
       /\ CASE c.ud = Null ->
                 UNCHANGED <<ring, cancelled_user_data_, efd, pc, people, fails, blame>>
            [] c.ud \in cancelled_user_data_ ->
                 /\ cancelled_user_data_' = Forget(c)
                 /\ task' = IF c.ud \in Tasks THEN [task EXCEPT ![c.ud].swallowed = TRUE] ELSE task
                 /\ blame' = IF c.ud = Acceptor /\ c.res > 0 THEN blame \cup {"dropped"} ELSE blame
                 /\ UNCHANGED <<ring, efd, pc, runner, acceptor, st, handled, fails>>
            [] c.ud = Wake ->
                 OnWake /\ UNCHANGED <<cancelled_user_data_, pc, people>>
            [] c.ud = Acceptor ->
                 /\ IF acceptor = "done" THEN pc' = "undefined" /\ UNCHANGED <<st, acceptor, runner>>
                                          ELSE OnAccept(c) /\ UNCHANGED pc
                 /\ UNCHANGED <<ring, cancelled_user_data_, efd, task, handled, fails, blame>>
            [] OTHER ->
                 /\ IF task[c.ud].op = "send_zc" THEN SendZc(c.ud, c) ELSE Resume(c.ud, c.id)
                 /\ UNCHANGED <<ring, cancelled_user_data_, efd, acceptor, st, handled, fails, blame>>
       /\ UNCHANGED <<posted_completions_, net, running_, team>>

CqesDone ==
    /\ pc = "cqes" /\ runner = Null /\ cq = <<>>
    /\ pc' = "posted"       \* takes posted_mutex_
    /\ UNCHANGED <<ring, cq, cancelled_user_data_, posted_completions_, efd, people, net, running_, ghosts>>

Posted ==
    /\ pc = "posted" /\ runner = Null /\ posted_completions_ # <<>>
    /\ posted_completions_' = Tail(posted_completions_)
    /\ Resume(Head(posted_completions_).ud, Head(posted_completions_).id)
    /\ UNCHANGED <<ring, cq, cancelled_user_data_, efd, acceptor, st, handled, net, running_, ghosts>>
PostedDone ==
    /\ pc = "posted" /\ runner = Null /\ posted_completions_ = <<>>
    /\ pc' = "tasks"
    /\ UNCHANGED <<ring, cq, cancelled_user_data_, posted_completions_, efd, people, net, running_, ghosts>>

\* Mutant: the completion is queued and nobody is woken.
post_completion_Silent(e) ==
    /\ e.op = "job" /\ pc # "posted"
    /\ inflight' = inflight \ {e}
    /\ posted_completions_' = Append(posted_completions_, e)
    /\ UNCHANGED <<sq, efd, cq, cancelled_user_data_, pc, people, net, running_, ghosts>>
\* post_completion on the other thread: under posted_mutex_, then wakeup().
post_completion(e) ==
    /\ e.op = "job" /\ pc # "posted"
    /\ inflight' = inflight \ {e}
    /\ posted_completions_' = Append(posted_completions_, e)
    /\ efd' = TRUE
    /\ UNCHANGED <<sq, cq, cancelled_user_data_, pc, people, net, running_, ghosts>>

-----------------------------------------------------------------------------
(* The accept loop *)

\* Leaving the loop destroys the stream: ~MultishotAcceptStream, cancel(),
\* cancel_multishot_accept, which submits at once.
Leave ==
    /\ acceptor' = "done" /\ runner' = Null
    /\ blame' = IF st.backlog = <<>> THEN blame ELSE blame \cup {"dropped"}
    /\ IF st.armed
       THEN /\ cancelled_user_data_' = cancelled_user_data_ \cup {Acceptor}
            /\ \/ /\ sq' = <<>> /\ UNCHANGED fails
                  /\ inflight' = inflight \cup Range(sq) \cup {Entry(Null, "cancel", 0, Acceptor)}
               \/ NoEntry
            /\ st' = [st EXCEPT !.armed = FALSE, !.cancelled = TRUE, !.finished = TRUE]
       ELSE UNCHANGED <<ring, cancelled_user_data_, st, fails>>

\* Mutant: a result without a connection ends the loop.
Accepted_Ends(res, s) ==
    IF ~running_ \/ res < 0
    THEN Leave /\ handled' = IF res > 0 THEN handled \cup {res} ELSE handled
    ELSE /\ handled' = handled \cup {res} /\ st' = s
         /\ acceptor' = "next" /\ runner' = Acceptor
         /\ blame' = IF res \in handled THEN blame \cup {"again"} ELSE blame
         /\ UNCHANGED <<ring, cancelled_user_data_, fails>>
\* A result of next(): closed when the server stops, handled, or the reason for
\* another stream.  s is the stream after await_resume.
Accepted(res, s) ==
    IF ~running_
    THEN Leave /\ handled' = IF res > 0 THEN handled \cup {res} ELSE handled
    ELSE /\ handled' = IF res > 0 THEN handled \cup {res} ELSE handled
         /\ st' = IF res > 0 THEN s ELSE Stream
         /\ acceptor' = "next" /\ runner' = Acceptor
         /\ blame' = IF res \in handled THEN blame \cup {"again"} ELSE blame
         /\ UNCHANGED <<ring, cancelled_user_data_, fails>>

\* NextAwaiter: what was queued, or again the last result of a finished stream,
\* or the coroutine waits, and a stream that is not armed is armed.
AcceptNext ==
    /\ acceptor = "next" /\ (runner = Acceptor \/ (pc = "tasks" /\ runner = Null))
    /\ IF ~running_ THEN Leave /\ UNCHANGED handled
       ELSE IF st.backlog # <<>> THEN Accepted(Head(st.backlog), [st EXCEPT !.backlog = Tail(@)])
       ELSE IF st.finished THEN Accepted(st.current, st)
       ELSE \/ /\ IF st.armed THEN UNCHANGED <<ring, fails>>
                              ELSE acquire_sqe(Entry(Acceptor, "accept", 0, Null))
               /\ st' = [st EXCEPT !.armed = TRUE]
               /\ acceptor' = "wait" /\ runner' = Null
               /\ UNCHANGED <<cancelled_user_data_, handled, blame>>
            \/ /\ ~st.armed /\ NoEntry
               /\ st' = Stream /\ runner' = Acceptor
               /\ UNCHANGED <<cancelled_user_data_, handled, blame, acceptor>>
    /\ UNCHANGED <<cq, posted_completions_, efd, pc, task, net, running_, team>>
AcceptResume ==
    /\ acceptor = "resume" /\ runner = Acceptor
    /\ Accepted(st.current, st)
    /\ UNCHANGED <<cq, posted_completions_, efd, pc, task, net, running_, team>>

-----------------------------------------------------------------------------
(* The kernel, the clients and the thread that stops the server *)

Completes(e, c) == inflight' = inflight \ {e} /\ cq' = Append(cq, c)
Quiet == UNCHANGED <<sq, cancelled_user_data_, posted_completions_, efd, pc, people, running_, team>>

KernelSingle(e) ==
    /\ e.op = "single"
    /\ Completes(e, Cqe(e.ud, e.id, 1, FALSE, FALSE))   \* its result is the coroutine's affair
    /\ UNCHANGED <<net, fails, blame>> /\ Quiet
\* A send by reference: a result that a notification may follow, also when it
\* is an error.
KernelSend(e) ==
    /\ e.op = "send_zc"
    /\ \E res \in {1, -1}, more \in BOOLEAN :
          /\ cq' = Append(cq, Cqe(e.ud, e.id, res, more, FALSE))
          /\ inflight' = (inflight \ {e}) \cup IF more THEN {[e EXCEPT !.op = "notify"]} ELSE {}
          /\ blame' = IF res < 0 /\ more THEN blame \cup {"error"} ELSE blame
    /\ UNCHANGED <<net, fails>> /\ Quiet
KernelNotify(e) ==
    /\ e.op = "notify"
    /\ Completes(e, Cqe(e.ud, e.id, 0, FALSE, TRUE))
    /\ UNCHANGED <<net, fails, blame>> /\ Quiet
KernelPoll(e) ==
    /\ e.op = "poll" /\ efd
    /\ Completes(e, Cqe(e.ud, e.id, 1, FALSE, FALSE))
    /\ UNCHANGED <<net, fails, blame>> /\ Quiet
\* A connection; the kernel may end the multishot with it (IORING_CQE_F_MORE).
KernelAccept(e) ==
    /\ e.op = "accept" /\ net.accepted < net.arrived
    /\ \E more \in BOOLEAN :
          /\ cq' = Append(cq, Cqe(e.ud, e.id, net.accepted + 1, more, FALSE))
          /\ inflight' = IF more THEN inflight ELSE inflight \ {e}
          /\ blame' = IF more THEN blame ELSE blame \cup {"cutoff"}
    /\ net' = [net EXCEPT !.accepted = @ + 1]
    /\ UNCHANGED fails /\ Quiet
KernelAcceptError(e) ==
    /\ e.op = "accept" /\ fails < MaxFails
    /\ Completes(e, Cqe(e.ud, e.id, -1, FALSE, FALSE))
    /\ fails' = fails + 1
    /\ UNCHANGED <<net, blame>> /\ Quiet
\* A request to cancel: the target ends with -ECANCELED, or there is none.
KernelCancel(e) ==
    /\ e.op = "cancel"
    /\ LET targets == {x \in inflight : x.ud = e.target /\ x.op \in {"single", "send_zc", "accept", "cancel"}}
       IN IF targets = {} THEN Completes(e, Cqe(e.ud, e.id, -1, FALSE, FALSE))
          ELSE \E x \in targets :
                 /\ inflight' = inflight \ {e, x}
                 /\ \E both \in {<<Cqe(x.ud, x.id, -1, FALSE, FALSE), Cqe(e.ud, e.id, 0, FALSE, FALSE)>>,
                                 <<Cqe(e.ud, e.id, 0, FALSE, FALSE), Cqe(x.ud, x.id, -1, FALSE, FALSE)>>} : cq' = cq \o both
    /\ UNCHANGED <<net, fails, blame>> /\ Quiet

Connect ==
    /\ acceptor # "off" /\ net.arrived < MaxConns
    /\ net' = [net EXCEPT !.arrived = @ + 1]
    /\ UNCHANGED <<inflight, cq, fails, blame>> /\ Quiet
\* Server::stop: the flag, and a connection that wakes the accept loop.
Stop ==
    /\ acceptor # "off" /\ running_
    /\ running_' = FALSE /\ net' = [net EXCEPT !.arrived = @ + 1]
    /\ UNCHANGED <<ring, cq, cancelled_user_data_, posted_completions_, efd, pc, people, ghosts>>

KernelStep ==
    \E e \in inflight :
        \/ KernelSingle(e) \/ KernelSend(e) \/ KernelNotify(e) \/ KernelPoll(e)
        \/ KernelAccept(e) \/ KernelCancel(e)
TaskStep ==
    \E t \in Tasks : Start(t) \/ SubmitSingle(t) \/ submit_send_zc(t) \/ Offload(t) \/ Finish(t)
                        \/ \E u \in Tasks : submit_cancel(t, u)
LoopStep ==
    \/ TaskStep \/ AcceptNext \/ AcceptResume
    \/ EnterWait \/ LeaveWait \/ Dispatch \/ CqesDone \/ Posted \/ PostedDone
Others == \E e \in inflight : post_completion(e)
Next ==
    /\ pc # "undefined"
    /\ \/ LoopStep \/ KernelStep \/ Others
       \/ (\E e \in inflight : KernelAcceptError(e)) \/ Connect \/ Stop

-----------------------------------------------------------------------------
(* Properties *)

TypeOK ==
    /\ Len(sq) <= Entries /\ cancelled_user_data_ \subseteq Tasks \cup {Acceptor}
    /\ pc \in {"tasks", "wait", "cqes", "posted", "undefined"}
    /\ runner \in Tasks \cup {Null, Acceptor}
    /\ \A t \in Tasks : (runner = t) = (task[t].at = "run")

\* The completions that are still to come for t.
Owed(t) == Entries_(t) \cup Cqes(t) \cup {p \in Range(posted_completions_) : p.ud = t}
(***************************************************************************)
(* A coroutine that waits is owed a completion, of the operation it waits  *)
(* for, and one that does not wait is owed none, so that a freed awaiter   *)
(* is never called.  Exceptions: the completion was swallowed because      *)
(* somebody cancelled at this address, or a failed zero-copy send was      *)
(* resumed before its notification.                                        *)
(***************************************************************************)
Owes ==
    /\ pc = "undefined" => "error" \in blame
    /\ "error" \notin blame =>
          \A t \in Tasks :
              /\ task[t].at = "wait" /\ ~task[t].swallowed => \E o \in Owed(t) : o.id = task[t].id
              /\ \A o \in Owed(t) : o.id = task[t].id /\ task[t].at = "wait"
\* A completion is swallowed only for an operation that somebody cancelled while
\* it was pending, or because a cancellation came when there was none.
SwallowsCancelled ==
    \A t \in Tasks : (t \in cancelled_user_data_ /\ ~Cancellable(t)) => "stale" \in blame
\* The poll of the wakeup descriptor is somewhere, once, unless there was no
\* entry for it.
WakeArmed ==
    "deaf" \notin blame => Cardinality(Entries_(Wake)) + Cardinality(Cqes(Wake)) = 1
\* An accepted connection is on its way to the accept loop or was handled, once,
\* unless the kernel ended the multishot with a connection or the server stops.
AcceptedOnce ==
    /\ \A n \in 1 .. net.accepted :
          \/ n \in handled
          \/ \E c \in Cqes(Acceptor) : c.res = n
          \/ n \in Range(st.backlog) \/ (acceptor = "resume" /\ st.current = n)
          \/ "dropped" \in blame
    /\ "again" \in blame => "cutoff" \in blame
    /\ "dropped" \in blame => ~running_
Exact == TypeOK /\ Owes /\ SwallowsCancelled /\ WakeArmed /\ AcceptedOnce

\* Coroutines come to an end and connections are handled, but for these cases.
Excused == blame \cap {"deaf", "error", "cutoff"} # {} \/ \E t \in Tasks : task[t].swallowed
Settled ==
    \/ Excused
    \/ /\ \A t \in Tasks : task[t].at = "done"
       /\ acceptor = "off" \/ (~running_ /\ acceptor = "done") \/ (running_ /\ handled = 1 .. net.arrived)

=============================================================================

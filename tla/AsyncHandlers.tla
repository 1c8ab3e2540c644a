--------------------------- MODULE AsyncHandlers ----------------------------
(***************************************************************************)
(* Detached requests of the C interface (src/src/c): a handler that hands  *)
(* its token to another thread, which calls aegon_async_complete, behind a *)
(* middleware that does the same with aegon_async_mw_next and              *)
(* aegon_async_mw_complete, or behind a plain one that calls               *)
(* aegon_next_call.  One request; the loop's thread and a thread for each  *)
(* of the two tokens.                                                      *)
(***************************************************************************)
EXTENDS Integers, Sequences

VARIABLES
    setup,      \* [mw, next, here, detach]: the application's choices
    req,        \* where the request's coroutine is
    mw,         \* aegon_async_mw, its awaiters as functions of "pre" and "post"
    tok,        \* aegon_async
    mtx,        \* aegon_async_mw::mtx is held
    mpc,        \* the thread with the middleware's token
    hpc,        \* the thread with the handler's token
    post_queue_,
    dones,      \* calls of done_fn
    harm        \* history: which of the known weak spots was met

vars == <<setup, req, mw, tok, mtx, mpc, hpc, post_queue_, dones, harm>>

Phases == {"pre", "post"}

Init ==
    /\ setup \in [mw : {"none", "plain", "async"}, next : BOOLEAN, here : BOOLEAN, detach : BOOLEAN]
    /\ req = "begin"
    /\ mw = [called_next |-> FALSE, completed |-> FALSE, downstream_finished |-> FALSE,
             ready |-> [k \in Phases |-> FALSE], suspended |-> [k \in Phases |-> FALSE],
             coro |-> [k \in Phases |-> FALSE], post_now |-> FALSE]
    /\ tok = [created |-> FALSE, completed |-> FALSE, suspended |-> FALSE, coro |-> FALSE, early |-> FALSE]
    /\ mtx = FALSE /\ mpc = "off" /\ hpc = "off" /\ post_queue_ = <<>> /\ dones = 0 /\ harm = {}

\* The callbacks run on the loop's thread, and so does what they call there.
Blocked == setup.here /\ (mpc \notin {"off", "done"} \/ hpc \notin {"off", "done"})
Running(place) == req = place /\ ~Blocked

-----------------------------------------------------------------------------
(* The request on the loop's thread *)

\* wrap_c_async_middleware: the callback has the token; wrap_c_middleware: it
\* may call aegon_next_call.
Begin ==
    /\ Running("begin")
    /\ IF setup.mw = "async" THEN req' = "pre" /\ mpc' = "start"
       ELSE req' = (IF setup.mw = "plain" /\ ~setup.next THEN "end" ELSE "handler") /\ UNCHANGED mpc
    /\ UNCHANGED <<setup, mw, tok, mtx, hpc, post_queue_, dones, harm>>

After(k) == IF k = "pre" THEN "passed" ELSE "end"
Waiting(k) == IF k = "pre" THEN "wait-pre" ELSE "wait-post"

\* pre_awaiter and post_awaiter: await_ready, without the mutex.
AwaitReady(k) ==
    /\ Running(k)
    /\ req' = IF mw.ready[k] THEN After(k) ELSE "suspend-" \o k
    /\ UNCHANGED <<setup, mw, tok, mtx, mpc, hpc, post_queue_, dones, harm>>
\* Mutant: what became ready meanwhile is not looked at again.
AwaitSuspend_Once(k) ==
    /\ Running("suspend-" \o k) /\ ~mtx
    /\ mw' = [mw EXCEPT !.coro[k] = TRUE, !.suspended[k] = TRUE]
    /\ req' = Waiting(k)
    /\ UNCHANGED <<setup, tok, mtx, mpc, hpc, post_queue_, dones, harm>>
\* await_suspend, under the mutex.
AwaitSuspend(k) ==
    /\ Running("suspend-" \o k) /\ ~mtx
    /\ mw' = [mw EXCEPT !.coro[k] = TRUE, !.suspended[k] = TRUE]
    /\ req' = Waiting(k)
    /\ post_queue_' = IF mw.ready[k] THEN Append(post_queue_, k) ELSE post_queue_
    /\ UNCHANGED <<setup, tok, mtx, mpc, hpc, dones, harm>>

\* Mutant: the chain goes on, whether or not next was called.
Passed_Always ==
    /\ Running("passed")
    /\ req' = "handler"
    /\ UNCHANGED <<setup, mw, tok, mtx, mpc, hpc, post_queue_, dones, harm>>
\* The middleware's coroutine after its first wait.
Passed ==
    /\ Running("passed")
    /\ req' = IF mw.called_next THEN "handler" ELSE "end"
    /\ UNCHANGED <<setup, mw, tok, mtx, mpc, hpc, post_queue_, dones, harm>>

\* The handler of aegon_router_add_async, which may call aegon_async_create.
Handler ==
    /\ Running("handler")
    /\ tok' = [tok EXCEPT !.created = setup.detach]
    /\ IF setup.detach THEN req' = "await" /\ hpc' = "start" ELSE req' = "handled" /\ UNCHANGED hpc
    /\ UNCHANGED <<setup, mw, mtx, mpc, post_queue_, dones, harm>>
\* Mutant: a completion before the suspension is not looked for.
Await_Late ==
    /\ Running("await")
    /\ tok' = [tok EXCEPT !.coro = TRUE, !.suspended = TRUE]
    /\ req' = IF setup.mw = "plain" THEN "end" ELSE "wait"
    /\ harm' = IF setup.mw = "plain" THEN harm \cup {"dropped"} ELSE harm
    /\ UNCHANGED <<setup, mw, mtx, mpc, hpc, post_queue_, dones>>
\* aegon_async::awaiter: await_suspend.  aegon_next_call, in a plain middleware,
\* then destroys the task it has resumed.
Await ==
    /\ Running("await")
    /\ tok' = [tok EXCEPT !.coro = TRUE, !.suspended = TRUE, !.early = tok.completed]
    /\ post_queue_' = IF tok.completed THEN Append(post_queue_, "done") ELSE post_queue_
    /\ req' = IF setup.mw = "plain" THEN "end" ELSE "wait"
    /\ harm' = IF setup.mw = "plain" THEN harm \cup {"dropped"} ELSE harm
    /\ UNCHANGED <<setup, mw, mtx, mpc, hpc, dones>>

\* Mutant: the thread in aegon_async_mw_next is not told.
Handled_Silent ==
    /\ Running("handled")
    /\ req' = IF setup.mw = "async" THEN "post" ELSE "end"
    /\ UNCHANGED <<setup, mw, tok, mtx, mpc, hpc, post_queue_, dones, harm>>
\* signal_downstream_done
Handled ==
    /\ Running("handled")
    /\ IF setup.mw = "async"
       THEN req' = "post" /\ mw' = [mw EXCEPT !.downstream_finished = TRUE]
       ELSE req' = "end" /\ UNCHANGED mw
    /\ UNCHANGED <<setup, tok, mtx, mpc, hpc, post_queue_, dones, harm>>

\* A posted function, while the coroutine is suspended or gone.
\* resume_on_loop calls done_fn, whoever else did.
resume_on_loop ==
    /\ post_queue_ # <<>> /\ Head(post_queue_) = "done"
    /\ dones' = dones + 1
    /\ tok' = [tok EXCEPT !.coro = FALSE]
    /\ req' = IF tok.coro /\ req = "wait" THEN "handled" ELSE req
    /\ UNCHANGED mw
\* resume_pre, resume_post
resume_mw ==
    /\ post_queue_ # <<>> /\ Head(post_queue_) \in Phases /\ ~mtx
    /\ LET k == Head(post_queue_)
       IN /\ req' = IF mw.coro[k] THEN After(k) ELSE req
          /\ mw' = [mw EXCEPT !.coro[k] = FALSE]
    /\ UNCHANGED <<tok, dones>>
RunPosted ==
    /\ req \in {"wait-pre", "wait", "wait-post", "end"} /\ ~Blocked
    /\ resume_on_loop \/ resume_mw
    /\ post_queue_' = Tail(post_queue_)
    /\ UNCHANGED <<setup, mtx, mpc, hpc, harm>>

-----------------------------------------------------------------------------
(* The thread with the middleware's token *)

mwframe == <<setup, req, tok, hpc, dones>>

\* aegon_async_mw_next: refused on the loop's thread.
CallsNext ==
    /\ mpc = "start"
    /\ IF setup.next /\ ~setup.here
       THEN mpc' = "next" /\ mw' = [mw EXCEPT !.called_next = TRUE]
       ELSE mpc' = "complete" /\ UNCHANGED mw
    /\ UNCHANGED <<mwframe, mtx, post_queue_, harm>>
\* The mutex, the flag of phase k, and whether the coroutine is suspended.
Ready(k) == [mw EXCEPT !.ready[k] = TRUE, !.post_now = mw.suspended[k]]
NextStores ==
    /\ mpc = "next" /\ ~mtx
    /\ mtx' = TRUE /\ mw' = Ready("pre") /\ mpc' = "next-unlock"
    /\ UNCHANGED <<mwframe, post_queue_, harm>>
NextPosts ==
    /\ mpc = "next-unlock"
    /\ mtx' = FALSE /\ mpc' = "wait"
    /\ post_queue_' = IF mw.post_now THEN Append(post_queue_, "pre") ELSE post_queue_
    /\ UNCHANGED <<mwframe, mw, harm>>
\* Mutant: the wait has no predicate, and a spurious wakeup ends it.
NextReturns_Spurious ==
    /\ mpc = "wait"
    /\ mpc' = "complete"
    /\ UNCHANGED <<mwframe, mw, mtx, post_queue_, harm>>
\* wait_downstream_done
NextReturns ==
    /\ mpc = "wait" /\ mw.downstream_finished
    /\ mpc' = "complete"
    /\ UNCHANGED <<mwframe, mw, mtx, post_queue_, harm>>

\* Mutant: the first phase is completed, whether or not next was called.
Phase_First == "pre"
\* What aegon_async_mw_complete completes.
Phase == IF mw.called_next THEN "post" ELSE "pre"
Completes ==
    /\ mpc = "complete" /\ ~mtx
    /\ mtx' = TRUE /\ mw' = [Ready(Phase) EXCEPT !.completed = TRUE] /\ mpc' = "unlock"
    /\ UNCHANGED <<mwframe, post_queue_, harm>>
\* Mutant: the lambda is not posted.
CompletePosts_Never ==
    /\ mpc = "unlock"
    /\ mtx' = FALSE /\ mpc' = "done"
    /\ harm' = IF req = "end" THEN harm \cup {"unlock"} ELSE harm
    /\ UNCHANGED <<mwframe, mw, post_queue_>>
\* The coroutine may have seen the flag, ended and freed the token by then.
CompletePosts ==
    /\ mpc = "unlock"
    /\ mtx' = FALSE /\ mpc' = "done"
    /\ post_queue_' = IF mw.post_now THEN Append(post_queue_, Phase) ELSE post_queue_
    /\ harm' = IF req = "end" THEN harm \cup {"unlock"} ELSE harm
    /\ UNCHANGED <<mwframe, mw>>

-----------------------------------------------------------------------------
(* The thread with the handler's token: aegon_async_complete *)

CompletesToken ==
    /\ hpc = "start"
    /\ tok' = [tok EXCEPT !.completed = TRUE] /\ hpc' = "lock"
    /\ UNCHANGED <<setup, req, mw, mtx, mpc, post_queue_, dones, harm>>
\* Both sides may find the other's flag, and both post.
PostsToken ==
    /\ hpc = "lock"
    /\ hpc' = "done"
    /\ post_queue_' = IF tok.suspended THEN Append(post_queue_, "done") ELSE post_queue_
    /\ harm' = IF tok.suspended /\ tok.early THEN harm \cup {"both"} ELSE harm
    /\ UNCHANGED <<setup, req, mw, tok, mtx, mpc, dones>>

LoopStep ==
    \/ Begin \/ Passed \/ Handler \/ Await \/ Handled \/ RunPosted
    \/ \E k \in Phases : AwaitReady(k) \/ AwaitSuspend(k)
MwStep == CallsNext \/ NextStores \/ NextPosts \/ NextReturns \/ Completes \/ CompletePosts
TokenStep == CompletesToken \/ PostsToken
\* The loop has nothing to do for this request.
Rest == req \in {"wait-pre", "wait", "wait-post", "end"} /\ post_queue_ = <<>> /\ UNCHANGED vars
Next == LoopStep \/ MwStep \/ TokenStep \/ Rest

Spec == Init /\ [][Next]_vars

-----------------------------------------------------------------------------
(* Properties *)

(***************************************************************************)
(* done_fn is called once, after aegon_async_complete: async.h says "ctx   *)
(* is valid again for this call only", and that the token and the request  *)
(* are recycled when it returns.  The code breaks it: the awaiter can see  *)
(* completed and aegon_async_complete then suspended, and both post.       *)
(***************************************************************************)
DoneOnce == dones <= 1
(***************************************************************************)
(* The order of a detached request: the handler is reached only through    *)
(* next, next returns after the handler's part is done, the handler's part *)
(* is not done before its token is completed, nor the request before the   *)
(* middleware's is, and done_fn is not called twice, but for the race      *)
(* above.  Behind a plain middleware a detached handler is dropped.  The   *)
(* middleware's token is not used after the request's end, but to release  *)
(* its mutex when the coroutine saw the flag before that.                  *)
(***************************************************************************)
Detached ==
    /\ dones > 1 => "both" \in harm
    /\ dones > 0 => tok.completed
    /\ req \in {"handler", "await", "wait", "handled", "wait-post"} /\ setup.mw = "async" => mw.called_next
    /\ mw.downstream_finished /\ tok.created => tok.completed /\ dones > 0
    /\ mpc = "complete" /\ mw.called_next => req \in {"post", "suspend-post", "wait-post"}
    /\ req = "end" /\ "dropped" \notin harm =>
          /\ setup.mw = "async" => mw.completed
          /\ tok.created => tok.completed
    /\ "unlock" \in harm => \E k \in Phases : mw.ready[k] /\ ~mw.suspended[k]
\* The request comes to an end, and so do both threads.
Ends == req = "end" /\ post_queue_ = <<>> /\ mpc \in {"off", "done"} /\ hpc \in {"off", "done"}

=============================================================================

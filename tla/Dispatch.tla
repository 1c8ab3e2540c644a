------------------------------ MODULE Dispatch ------------------------------
(***************************************************************************)
(* One request through Router::dispatch_sync and Router::dispatch: the     *)
(* chain of middleware, the route's handler or the 404/405 fallback, and   *)
(* the boundary that turns exceptions into answers (src/src/http/Router.h, *)
(* Middleware.h, RouteHandler.h).  What the router was given is chosen in  *)
(* Init.  A middleware is one of                                           *)
(*   "around"  awaits next and goes on after it (or is a pre-handler),     *)
(*   "stop"    answers without calling next,                               *)
(*   "dropped" is void(Context&, Next): the task next returns is never     *)
(*             awaited, and a task starts only when it is awaited,         *)
(*   "before"  throws before next,   "after"  throws once next is done.    *)
(***************************************************************************)
EXTENDS Integers, SequencesExt, FiniteSetsExt

CONSTANT MaxGlobals     \* global middlewares of the router

DispatchAssumption == MaxGlobals \in Nat

VARIABLES
    setup,      \* globals, locals, target, kind, handler, error_handler_, fallback, options, grpc
    pc,         \* "sync", "dispatch", "down", "up", "thrown", "done"
    at,         \* layer entered last
    log,        \* layers entered and left, as <<"in", i>> and <<"out", i>>
    calls,      \* times the handler ran
    params,     \* times match bound the path's parameters to the request
    res         \* [by, allow]: who wrote the answer last, and whether Allow is set

vars == <<setup, pc, at, log, calls, params, res>>
Kinds == {"around", "stop", "dropped", "before", "after"}

\* The layers a request passes: global middleware, then the route's own and its
\* handler, or the fallback.
Layers == setup.globals \o (IF setup.target = "route" THEN Append(setup.locals, "handler") ELSE <<"fallback">>)

Init ==
    /\ setup \in {s \in [globals : BoundedSeq(Kinds, MaxGlobals), locals : BoundedSeq(Kinds, 1),
                          target : {"route", "404", "405"}, kind : {"sync", "async"}, handler : {"ok", "throw"},
                          error_handler_ : {"none", "ok", "throw"}, fallback : {"none", "ok", "throw"},
                          options : BOOLEAN, grpc : BOOLEAN] :
                    /\ s.locals # <<>> => s.kind = "async"      \* add_route wraps the chain
                    /\ s.target # "route" => s.locals = <<>> /\ s.kind = "sync" /\ s.handler = "ok"
                    /\ s.target = "route" => s.fallback = "none"
                    /\ s.options => s = [s EXCEPT !.globals = <<>>, !.locals = <<>>, !.target = "404", !.grpc = FALSE]}
    /\ pc = "sync" /\ at = 0 /\ log = <<>> /\ calls = 0 /\ params = 0
    /\ res = [by |-> "none", allow |-> FALSE]

\* ctx.problem, or trailers with grpc-status 13.
Internal == [res EXCEPT !.by = IF setup.grpc THEN "status 13" ELSE "500"]

\* OPTIONS * is answered before anything is matched.
Options ==
    /\ pc = "sync" /\ setup.options
    /\ res' = [res EXCEPT !.by = "options", !.allow = TRUE]
    /\ pc' = "done"
    /\ UNCHANGED <<setup, at, log, calls, params>>

\* Mutant: the fast path does not look at the global middleware.
Inline_Always == setup.target = "route" /\ setup.kind = "sync"
Inline == setup.globals = <<>> /\ setup.target = "route" /\ setup.kind = "sync"
\* dispatch_sync: a plain handler is called in place.
Sync ==
    /\ pc = "sync" /\ ~setup.options /\ Inline
    /\ calls' = calls + 1 /\ params' = params + 1
    /\ CASE setup.handler = "ok" -> res' = [res EXCEPT !.by = "handler"] /\ pc' = "done"
         [] setup.handler # "ok" /\ setup.error_handler_ = "none" -> res' = Internal /\ pc' = "done"
         [] OTHER -> res' = [res EXCEPT !.by = "handler"] /\ pc' = "dispatch"
    /\ UNCHANGED <<setup, at, log>>
\* Everything else is left to dispatch; a match was made unless there is global
\* middleware.
NotSync ==
    /\ pc = "sync" /\ ~setup.options /\ ~Inline
    /\ params' = params + (IF setup.globals = <<>> /\ setup.target = "route" THEN 1 ELSE 0)
    /\ pc' = "dispatch"
    /\ UNCHANGED <<setup, at, log, calls, res>>

\* dispatch matches again.
Begin ==
    /\ pc = "dispatch"
    /\ params' = params + (IF setup.target = "route" THEN 1 ELSE 0)
    /\ pc' = "down"
    /\ UNCHANGED <<setup, at, log, calls, res>>

Enter(kind) == pc = "down" /\ Layers[at + 1] = kind /\ at' = at + 1

\* Mutant: after a middleware that answered the chain goes on.
Continues_Always(kind) == kind # "before"
\* Whether the rest of the chain runs.
Continues(kind) == kind \in {"around", "after"}
Middleware ==
    /\ \E kind \in Kinds :
          /\ Enter(kind)
          /\ res' = IF kind = "stop" THEN [res EXCEPT !.by = "middleware"] ELSE res
          /\ pc' = IF kind = "before" THEN "thrown" ELSE IF Continues(kind) THEN "down" ELSE "up"
    /\ log' = Append(log, <<"in", at + 1>>)
    /\ UNCHANGED <<setup, calls, params>>

Handler ==
    /\ Enter("handler")
    /\ calls' = calls + 1
    /\ res' = [res EXCEPT !.by = "handler"]
    /\ pc' = IF setup.handler = "throw" THEN "thrown" ELSE "up"
    /\ log' = Append(log, <<"in", at + 1>>)
    /\ UNCHANGED <<setup, params>>

\* The 404 and 405 answers; what a custom one throws is caught here.
Fallback ==
    /\ Enter("fallback")
    /\ res' = [by |-> IF setup.fallback = "ok" THEN "fallback" ELSE setup.target,
               allow |-> setup.target = "405"]
    /\ pc' = "up"
    /\ log' = Append(log, <<"in", at + 1>>)
    /\ UNCHANGED <<setup, calls, params>>

\* Back through the layers that are being awaited.
Unwind ==
    /\ pc = "up"
    /\ log' = IF at = 0 THEN log ELSE Append(log, <<"out", at>>)
    /\ at' = IF at = 0 THEN 0 ELSE at - 1
    /\ pc' = IF at = 0 THEN "done" ELSE IF at > 1 /\ Layers[at - 1] = "after" THEN "thrown" ELSE "up"
    /\ UNCHANGED <<setup, calls, params, res>>

\* Mutant: what a custom error handler throws leaves the answer as it was.
Custom_Silent == IF setup.error_handler_ = "ok" THEN [res EXCEPT !.by = "error handler"] ELSE res
Custom == IF setup.error_handler_ = "ok" THEN [res EXCEPT !.by = "error handler"] ELSE Internal
\* The boundary of dispatch.
Caught ==
    /\ pc = "thrown"
    /\ res' = IF setup.error_handler_ = "none" THEN Internal ELSE Custom
    /\ pc' = "done"
    /\ UNCHANGED <<setup, at, log, calls, params>>

Rest == pc = "done" /\ UNCHANGED vars
Next == Options \/ Sync \/ NotSync \/ Begin \/ Middleware \/ Handler \/ Fallback \/ Unwind \/ Caught \/ Rest
Spec == Init /\ [][Next]_vars

-----------------------------------------------------------------------------
(* The answer, from the layers alone *)
Blocks(kind) == kind \in {"stop", "dropped", "before"}
Reached == {i \in DOMAIN Layers : \A j \in 1 .. i - 1 : ~Blocks(Layers[j])}
Deepest == Max(Reached)
Throws ==
    \/ Layers[Deepest] = "before" \/ (Layers[Deepest] = "handler" /\ setup.handler = "throw")
    \/ \E i \in Reached : Layers[i] = "after"
Answer ==
    CASE setup.options -> "options"
      [] ~setup.options /\ Throws ->
           IF setup.error_handler_ = "ok" THEN "error handler" ELSE IF setup.grpc THEN "status 13" ELSE "500"
      [] OTHER -> CASE Layers[Deepest] = "stop" -> "middleware"
                    [] Layers[Deepest] = "dropped" -> "none"
                    [] Layers[Deepest] = "handler" -> "handler"
                    [] OTHER -> IF setup.fallback = "ok" THEN "fallback" ELSE setup.target
\* A plain handler that throws under a custom error handler is started again.
Again == Inline /\ setup.handler = "throw" /\ setup.error_handler_ # "none"

(***************************************************************************)
(* The answer of a request comes from the layer that ended the chain, or   *)
(* from the exception boundary when something threw, custom or not; every  *)
(* 405 carries Allow.  Exactly the layers before the one that stopped the  *)
(* chain are entered, outermost first, and left innermost first.  The      *)
(* handler runs at most once: a plain handler that throws while a custom   *)
(* error handler is set is the one that dispatch calls a second time.      *)
(***************************************************************************)
DispatchRight ==
    /\ pc = "done" =>
          /\ res.by = Answer
          /\ (res.by = "405" => res.allow)
          /\ (~setup.options /\ log # <<>>) =>
                /\ {e[2] : e \in {x \in Range(log) : x[1] = "in"}} = Reached
                /\ \A i, j \in DOMAIN log : (i < j /\ log[i][1] = log[j][1]) =>
                      IF log[i][1] = "in" THEN log[i][2] < log[j][2] ELSE log[i][2] > log[j][2]
    /\ calls <= IF Again THEN 2 ELSE 1

=============================================================================

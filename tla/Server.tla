------------------------------- MODULE Server -------------------------------
(***************************************************************************)
(* Starting and stopping the HTTP server (Server::run, run_event_loop,     *)
(* accept_loop and stop).  run() starts one thread per worker; each binds  *)
(* its listener, builds an event loop, registers it, spawns the accept     *)
(* loop and runs.  stop() is called by another thread, at any time.        *)
(***************************************************************************)
EXTENDS Integers, FiniteSets, TLAPS

CONSTANTS
    Workers,
    MaxConns        \* bound: connections per worker

Nobody == "nobody"

ServerAssumption == MaxConns \in Nat /\ IsFiniteSet(Workers) /\ Nobody \notin Workers

VARIABLES
    running_,           \* Server::running_
    main,               \* run(): start, hooks, join, done
    place,              \* worker: none, bind, register, locked, spawn, enter, loop, guard, erase, out, left
    listening,          \* workers whose listen socket is open
    loops,              \* workers whose EventLoop exists
    active_loops_,      \* the loops stop() reaches
    loop_running,       \* EventLoop::running_
    accepting,          \* the accept loop: none, armed, done
    conns,              \* connection tasks
    loops_mutex_,       \* its owner
    stop,               \* stop(): none, pulse, lock, hooks, done
    pulsed,             \* workers with the connection of stop() in their backlog
    lost                \* history: workers that were entering their loop at stop()

worker == <<place, listening, loops, active_loops_, loop_running, accepting, conns>>
vars == <<running_, main, worker, loops_mutex_, stop, pulsed, lost>>

TypeOK ==
    /\ running_ \in BOOLEAN /\ main \in {"start", "hooks", "join", "done"}
    /\ place \in [Workers -> {"none", "bind", "register", "locked", "spawn", "enter", "loop", "guard", "erase", "out", "left"}]
    /\ listening \subseteq Workers /\ loops \subseteq Workers /\ active_loops_ \subseteq Workers
    /\ loop_running \in [Workers -> BOOLEAN]
    /\ accepting \in [Workers -> {"none", "armed", "done"}]
    /\ conns \in [Workers -> 0 .. MaxConns]
    /\ loops_mutex_ \in Workers \cup {Nobody}
    /\ \A w \in Workers : place[w] \in {"locked", "erase"} <=> loops_mutex_ = w
    /\ stop \in {"none", "pulse", "lock", "hooks", "done"}
    /\ pulsed \subseteq Workers /\ lost \subseteq Workers

Init ==
    /\ running_ = FALSE /\ main = "start"
    /\ place = [w \in Workers |-> "none"]
    /\ listening = {} /\ loops = {} /\ active_loops_ = {}
    /\ loop_running = [w \in Workers |-> FALSE]
    /\ accepting = [w \in Workers |-> "none"] /\ conns = [w \in Workers |-> 0]
    /\ loops_mutex_ = Nobody /\ stop = "none" /\ pulsed = {} /\ lost = {}

-----------------------------------------------------------------------------
(***************************************************************************)
(* run(threads)                                                            *)
(***************************************************************************)
Run ==
    /\ main = "start"
    /\ running_' = TRUE /\ main' = "hooks"
    /\ UNCHANGED <<worker, loops_mutex_, stop, pulsed, lost>>

\* the startup hooks have run; the workers start
StartWorkers ==
    /\ main = "hooks"
    /\ main' = "join" /\ place' = [w \in Workers |-> "bind"]
    /\ UNCHANGED <<running_, listening, loops, active_loops_, loop_running, accepting, conns,
                   loops_mutex_, stop, pulsed, lost>>

Join ==
    /\ main = "join" /\ \A w \in Workers : place[w] \in {"out", "left"}
    /\ main' = "done"
    /\ UNCHANGED <<running_, worker, loops_mutex_, stop, pulsed, lost>>

(***************************************************************************)
(* run_event_loop                                                          *)
(***************************************************************************)
At(w, p) == place[w] = p
Go(w, p) == place' = [place EXCEPT ![w] = p]

\* create_listen_socket and the constructor of the loop, or an exception
Bind(w) ==
    /\ At(w, "bind")
    /\ \/ Go(w, "register") /\ listening' = listening \cup {w} /\ loops' = loops \cup {w}
       \/ Go(w, "out") /\ UNCHANGED <<listening, loops>>
    /\ UNCHANGED <<running_, main, active_loops_, loop_running, accepting, conns,
                   loops_mutex_, stop, pulsed, lost>>

Lock(w) ==
    /\ At(w, "register") /\ loops_mutex_ = Nobody
    /\ loops_mutex_' = w /\ Go(w, "locked")
    /\ UNCHANGED <<running_, main, listening, loops, active_loops_, loop_running, accepting, conns,
                   stop, pulsed, lost>>

\* a server that was stopped meanwhile ends the worker, its socket left open
Register(w) ==
    /\ At(w, "locked")
    /\ IF running_
       THEN active_loops_' = active_loops_ \cup {w} /\ Go(w, "spawn") /\ UNCHANGED loops
       ELSE loops' = loops \ {w} /\ Go(w, "left") /\ UNCHANGED active_loops_
    /\ loops_mutex_' = Nobody
    /\ UNCHANGED <<running_, main, listening, loop_running, accepting, conns, stop, pulsed, lost>>

\* spawn(accept_loop(...)) runs it up to its first suspension
Spawn(w) ==
    /\ At(w, "spawn")
    /\ accepting' = [accepting EXCEPT ![w] = IF running_ THEN "armed" ELSE "done"]
    /\ Go(w, "enter")
    /\ UNCHANGED <<running_, main, listening, loops, active_loops_, loop_running, conns,
                   loops_mutex_, stop, pulsed, lost>>

\* EventLoop::run() sets its own running_
EnterLoop(w) ==
    /\ At(w, "enter")
    /\ loop_running' = [loop_running EXCEPT ![w] = TRUE] /\ Go(w, "loop")
    /\ UNCHANGED <<running_, main, listening, loops, active_loops_, accepting, conns,
                   loops_mutex_, stop, pulsed, lost>>

\* accept_loop: a connection is served, or closed when the server stops
Accept(w) ==
    /\ At(w, "loop") /\ loop_running[w] /\ accepting[w] = "armed"
    /\ IF running_
       THEN conns[w] < MaxConns /\ conns' = [conns EXCEPT ![w] = @ + 1] /\ UNCHANGED accepting
       ELSE accepting' = [accepting EXCEPT ![w] = "done"] /\ UNCHANGED conns
    /\ UNCHANGED <<running_, main, place, listening, loops, active_loops_, loop_running,
                   loops_mutex_, stop, pulsed, lost>>

\* the connection stop() made
AcceptPulse(w) == w \in pulsed /\ Accept(w)

ConnectionEnds(w) ==
    /\ At(w, "loop") /\ conns[w] > 0
    /\ conns' = [conns EXCEPT ![w] = @ - 1]
    /\ UNCHANGED <<running_, main, place, listening, loops, active_loops_, loop_running, accepting,
                   loops_mutex_, stop, pulsed, lost>>

\* Mutant: the loop is destroyed before it is taken from active_loops_
LoopExits_DestroysFirst(w) ==
    /\ At(w, "loop") /\ (~loop_running[w] \/ (accepting[w] = "done" /\ conns[w] = 0))
    /\ listening' = listening \ {w} /\ Go(w, "guard")
    /\ loops' = loops \ {w}
    /\ UNCHANGED <<running_, main, active_loops_, loop_running, accepting, conns,
                   loops_mutex_, stop, pulsed, lost>>

\* Mutant: the listen socket is not closed
LoopExits_KeepsSocket(w) ==
    /\ At(w, "loop") /\ (~loop_running[w] \/ (accepting[w] = "done" /\ conns[w] = 0))
    /\ Go(w, "guard")
    /\ UNCHANGED <<running_, main, listening, loops, active_loops_, loop_running, accepting, conns,
                   loops_mutex_, stop, pulsed, lost>>

\* EventLoop::run() returns when stopped or without tasks; the listener closes
LoopExits(w) ==
    /\ At(w, "loop") /\ (~loop_running[w] \/ (accepting[w] = "done" /\ conns[w] = 0))
    /\ listening' = listening \ {w} /\ Go(w, "guard")
    /\ UNCHANGED <<running_, main, loops, active_loops_, loop_running, accepting, conns,
                   loops_mutex_, stop, pulsed, lost>>

\* Mutant: the destructor of LoopGuard goes on without the lock
LoopGuardLock_NoOwner(w) ==
    /\ At(w, "guard")
    /\ Go(w, "erase")
    /\ UNCHANGED <<running_, main, listening, loops, active_loops_, loop_running, accepting, conns, loops_mutex_,
                   stop, pulsed, lost>>

\* ~LoopGuard: the lock, then the erasure; the loop is destroyed after it
LoopGuardLock(w) ==
    /\ At(w, "guard") /\ loops_mutex_ = Nobody
    /\ loops_mutex_' = w /\ Go(w, "erase")
    /\ UNCHANGED <<running_, main, listening, loops, active_loops_, loop_running, accepting, conns,
                   stop, pulsed, lost>>

\* Mutant: the mutex is not released
LoopGuardErase_NoUnlock(w) ==
    /\ At(w, "erase")
    /\ active_loops_' = active_loops_ \ {w} /\ loops' = loops \ {w}
    /\ Go(w, "out")
    /\ UNCHANGED <<running_, main, listening, loop_running, accepting, conns, loops_mutex_, stop, pulsed, lost>>

LoopGuardErase(w) ==
    /\ At(w, "erase")
    /\ active_loops_' = active_loops_ \ {w} /\ loops' = loops \ {w}
    /\ loops_mutex_' = Nobody /\ Go(w, "out")
    /\ UNCHANGED <<running_, main, listening, loop_running, accepting, conns, stop, pulsed, lost>>

(***************************************************************************)
(* stop()                                                                  *)
(***************************************************************************)
Stop ==
    /\ stop = "none" /\ main # "start"
    /\ running_' = FALSE /\ stop' = "pulse"
    /\ UNCHANGED <<main, worker, loops_mutex_, pulsed, lost>>

\* the kernel gives the connection to one of the listeners of the port
StopPulse ==
    /\ stop = "pulse" /\ stop' = "lock"
    /\ pulsed' \in (IF listening = {} THEN {{}} ELSE {{w} : w \in listening})
    /\ UNCHANGED <<running_, main, worker, loops_mutex_, lost>>

\* Mutant: the loops are not told to stop
StopLoops_PulseOnly ==
    /\ stop = "lock" /\ loops_mutex_ = Nobody
    /\ stop' = "hooks"
    /\ UNCHANGED <<running_, main, worker, loops_mutex_, pulsed, lost>>

StopLoops ==
    /\ stop = "lock" /\ loops_mutex_ = Nobody
    /\ loop_running' = [w \in Workers |-> loop_running[w] /\ w \notin active_loops_]
    /\ lost' = {w \in active_loops_ : place[w] = "enter"}
    /\ stop' = "hooks"
    /\ UNCHANGED <<running_, main, place, listening, loops, active_loops_, accepting, conns,
                   loops_mutex_, pulsed>>

\* the shutdown hooks run
StopReturns ==
    /\ stop = "hooks" /\ stop' = "done"
    /\ UNCHANGED <<running_, main, worker, loops_mutex_, pulsed, lost>>

Idle == UNCHANGED vars

WorkerStep(w) ==
    \/ Bind(w) \/ Lock(w) \/ Register(w) \/ Spawn(w) \/ EnterLoop(w)
    \/ AcceptPulse(w) \/ LoopExits(w) \/ LoopGuardLock(w) \/ LoopGuardErase(w)
Main == Run \/ StartWorkers \/ Join
StopStep == StopPulse \/ StopLoops \/ StopReturns
Next == Main \/ Stop \/ StopStep \/ Idle
        \/ \E w \in Workers : WorkerStep(w) \/ Accept(w) \/ ConnectionEnds(w)

\* threads run; nobody need connect, and no connection need end
Spec ==
    /\ Init /\ [][Next]_vars /\ WF_vars(Main) /\ WF_vars(StopStep)
    /\ \A w \in Workers : WF_vars(WorkerStep(w))

-----------------------------------------------------------------------------
(***************************************************************************)
(* Properties                                                              *)
(***************************************************************************)
\* stop() walks over active_loops_: at any time it may, every loop in it
\* still exists, and loops_mutex_ is held by the one worker that is between
\* its lock and its unlock (TypeOK).  A worker whose loop has ended has closed
\* its listen socket.
NothingDangles ==
    /\ TypeOK
    /\ active_loops_ \subseteq loops
    /\ \A w \in Workers : place[w] = "out" => w \notin listening

\* What a call of stop() comes to: it has returned, every worker has ended and
\* run() has returned ("Shutdown Complete",
\* docs/content/docs/http/server.mdx:268), unless stop() met a worker between
\* the start of its accept loop and EventLoop::run(), which undoes it.
Stopped == stop # "none" => stop = "done" /\ (main = "done" \/ lost # {})

-----------------------------------------------------------------------------
(***************************************************************************)
(* NothingDangles holds for any number of workers and connections.         *)
(***************************************************************************)
Inside == {"spawn", "enter", "loop", "guard", "erase"}
Built == Inside \cup {"register", "locked"}
Closed == {"none", "bind", "guard", "erase", "out"}

\* The type invariant and NothingDangles, with what makes them inductive: a
\* loop is in active_loops_ only while its worker is between registration and
\* the erasure of LoopGuard, it exists from the constructor to that erasure,
\* its listen socket is open only in between, and no worker has started
\* before run() starts the threads.
IInv ==
    /\ TypeOK
    /\ NothingDangles
    /\ \A w \in active_loops_ : place[w] \in Inside
    /\ \A w \in Workers : place[w] \in Built => w \in loops
    /\ \A w \in Workers : place[w] \in Closed => w \notin listening
    /\ main \in {"start", "hooks"} => \A w \in Workers : place[w] = "none"

USE DEF Inside, Built, Closed

LEMMA InvInit ==
    ASSUME ServerAssumption, Init
    PROVE  IInv
<1>1. conns \in [Workers -> 0 .. MaxConns] /\ loops_mutex_ \notin Workers
  BY DEF ServerAssumption, Init
<1>2. TypeOK
  BY <1>1, Zenon DEF Init, TypeOK
<1> QED
  BY <1>2, Zenon DEF Init, IInv, NothingDangles

\* What a worker's step through run_event_loop preserves.
LEMMA InvWorker ==
    ASSUME ServerAssumption, IInv, NEW w \in Workers, WorkerStep(w) \/ Accept(w) \/ ConnectionEnds(w)
    PROVE  IInv'
<1> USE DEF ServerAssumption, IInv, TypeOK, NothingDangles, At, Go
<1>1. CASE Bind(w)
  BY <1>1 DEF Bind
<1>2. CASE Lock(w)
  BY <1>2, Zenon DEF Lock
<1>3. CASE Register(w)
  BY <1>3 DEF Register
<1>4. CASE Spawn(w)
  BY <1>4, Zenon DEF Spawn
<1>5. CASE EnterLoop(w)
  BY <1>5, Zenon DEF EnterLoop
<1>6. CASE Accept(w)
  BY <1>6 DEF Accept
<1>7. CASE LoopExits(w)
  BY <1>7, Zenon DEF LoopExits
<1>8. CASE LoopGuardLock(w)
  BY <1>8 DEF LoopGuardLock
<1>9. CASE LoopGuardErase(w)
  BY <1>9, Zenon DEF LoopGuardErase
<1>10. CASE ConnectionEnds(w)
  BY <1>10 DEF ConnectionEnds
<1> QED
  BY <1>1, <1>2, <1>3, <1>4, <1>5, <1>6, <1>7, <1>8, <1>9, <1>10, Zenon
     DEF WorkerStep, AcceptPulse

\* What run() and stop() preserve.
LEMMA InvMain ==
    ASSUME ServerAssumption, IInv, Main \/ Stop \/ StopStep \/ UNCHANGED vars
    PROVE  IInv'
<1> USE DEF ServerAssumption, IInv, TypeOK, NothingDangles, worker
<1>1. CASE Run
  BY <1>1, Zenon DEF Run
<1>2. CASE StartWorkers
  BY <1>2, Zenon DEF StartWorkers
<1>3. CASE Join
  BY <1>3, Zenon DEF Join
<1>4. CASE Stop
  BY <1>4, Zenon DEF Stop
<1>5. CASE StopPulse
  BY <1>5 DEF StopPulse
<1>6. CASE StopLoops
  BY <1>6, Zenon DEF StopLoops
<1>7. CASE StopReturns
  BY <1>7, Zenon DEF StopReturns
<1>8. CASE UNCHANGED vars
  BY <1>8, Zenon DEF vars
<1> QED
  BY <1>1, <1>2, <1>3, <1>4, <1>5, <1>6, <1>7, <1>8, Zenon DEF Main, StopStep

\* Whenever stop() walks over active_loops_, every loop in it exists, and a
\* worker that has left run_event_loop has closed its listen socket
\* (LoopGuard, run_event_loop and stop() of Server.cpp).
THEOREM StopReachesLiveLoops ==
    ASSUME ServerAssumption
    PROVE  Spec => []NothingDangles
<1>1. Init => IInv
  BY InvInit, Zenon
<1>2. IInv /\ [Next]_vars => IInv'
  BY InvWorker, InvMain, Zenon DEF Next, Idle
<1>3. IInv => NothingDangles
  BY Zenon DEF IInv
<1> QED
  BY <1>1, <1>2, <1>3, PTL DEF Spec
=============================================================================

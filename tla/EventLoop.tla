------------------------------ MODULE EventLoop ------------------------------
(***************************************************************************)
(* The per-thread event loop of src/src/core/EventLoop.{h,cpp} and the     *)
(* root coroutines (src/src/core/Task.h) it owns.                          *)
(*                                                                         *)
(* One owner thread runs run() and the destructor; any thread may call     *)
(* post() and stop().  The engine is reduced to what the loop uses of it:  *)
(* operations in the kernel, completions that are ready, and the wakeup    *)
(* descriptor, which stays readable until submit_and_wait() consumes it.   *)
(***************************************************************************)
EXTENDS Naturals, Sequences, TLAPS

CONSTANTS
    Roots,          \* root coroutines
    Spawned,        \* the roots spawned before run() is called
    Jobs,           \* functions other threads post: [op, arg]
    Stoppers,       \* threads that call stop()
    MaxSuspends,    \* bound: suspensions of one coroutine
    MaxRuns         \* bound: calls of run()

LoopAssumption ==
    /\ Spawned \subseteq Roots
    /\ MaxSuspends \in Nat /\ MaxRuns \in Nat
    /\ \A j \in Jobs : /\ j.op \in {"call", "spawn", "stop"}
                       /\ j.op = "spawn" => j.arg \in Roots

VARIABLES
    running_,
    tasks_,         \* roots; their order in the vector decides nothing
    post_queue_,
    poster,         \* [Jobs -> place of the thread that posts it]
    stopper,        \* [Stoppers -> place of the thread that calls stop()]
    pc, at,         \* the owner's step, and which part of the code it is in
    local,          \* local_queue of drain_post_queue
    batch,          \* the completions process_completions moved out
    coro,           \* [Roots -> state of the coroutine]
    suspends,
    inflight, ready, wakefd,
    ran,            \* history: jobs that were run
    runs

engineVars == <<inflight, ready, wakefd>>
ownerVars == <<pc, at, local, batch, runs>>
coroVars == <<coro, suspends, tasks_>>
callerVars == <<poster, stopper>>
vars == <<running_, post_queue_, engineVars, ownerVars, coroVars, callerVars, ran>>

-----------------------------------------------------------------------------
Resume(k) == [op |-> "resume", arg |-> k]
Fns == Jobs \cup {Resume(k) : k \in Roots}
Elements(seq) == {seq[i] : i \in DOMAIN seq}
Pcs == {"out", "test", "swap", "call", "wait", "take", "resume", "erase", "store", "gone"}

TypeOK ==
    /\ running_ \in BOOLEAN /\ wakefd \in BOOLEAN
    /\ tasks_ \subseteq Roots
    /\ post_queue_ \in Seq(Fns) /\ local \in Seq(Fns)
    /\ poster \in [Jobs -> {"new", "pushed", "done"}]
    /\ stopper \in [Stoppers -> {"idle", "wake", "done"}]
    /\ pc \in Pcs /\ at \in {"top", "body", "final", "dtor"}
    /\ batch \in Seq(Roots) /\ ready \in Seq(Roots)
    /\ coro \in [Roots -> {"new", "io", "yield", "done", "destroyed"}]
    /\ suspends \in [Roots -> 0 .. MaxSuspends]
    /\ inflight \subseteq Roots
    /\ ran \subseteq Jobs
    /\ runs \in 0 .. MaxRuns

(***************************************************************************)
(* Resuming a coroutine runs it to its next suspension: it finishes (or    *)
(* throws, which the promise keeps), starts an I/O operation, or yields by *)
(* posting its own resumption.  YieldAwaiter posts only inside run();      *)
(* elsewhere current() is null and the coroutine just goes on.             *)
(***************************************************************************)
InRun == pc \notin {"out", "gone"} /\ at # "dtor"

RunCoro(k) ==
    \/ /\ coro' = [coro EXCEPT ![k] = "done"]
       /\ UNCHANGED suspends
       /\ UNCHANGED <<post_queue_, engineVars>>
    \/ /\ suspends[k] < MaxSuspends
       /\ coro' = [coro EXCEPT ![k] = "io"]
       /\ suspends' = [suspends EXCEPT ![k] = @ + 1]
       /\ inflight' = inflight \cup {k}
       /\ UNCHANGED <<post_queue_, ready, wakefd>>
    \/ /\ suspends[k] < MaxSuspends /\ InRun
       /\ coro' = [coro EXCEPT ![k] = "yield"]
       /\ suspends' = [suspends EXCEPT ![k] = @ + 1]
       /\ post_queue_' = Append(post_queue_, Resume(k))
       /\ wakefd' = TRUE
       /\ UNCHANGED <<ready, inflight>>

\* spawn(): run to the first suspension, own the coroutine if it is not done.
SpawnRoot(k) ==
    /\ coro[k] = "new"
    /\ RunCoro(k)
    /\ tasks_' = IF coro'[k] = "done" THEN tasks_ ELSE tasks_ \cup {k}

Init ==
    /\ running_ = FALSE
    /\ tasks_ = {} /\ post_queue_ = <<>> /\ local = <<>> /\ batch = <<>>
    /\ poster = [j \in Jobs |-> "new"]
    /\ stopper = [s \in Stoppers |-> "idle"]
    /\ pc = "out" /\ at = "top"
    /\ coro = [k \in Roots |-> "new"]
    /\ suspends = [k \in Roots |-> 0]
    /\ inflight = {} /\ ready = <<>> /\ wakefd = FALSE
    /\ ran = {} /\ runs = 0

Spawn(k) ==
    /\ pc = "out" /\ k \in Spawned
    /\ SpawnRoot(k)
    /\ UNCHANGED <<running_, ownerVars, callerVars, ran>>

(***************************************************************************)
(* run(), one step per statement that another thread can interleave with.  *)
(***************************************************************************)
RunStart ==
    /\ pc = "out" /\ runs < MaxRuns
    /\ running_' = TRUE
    /\ pc' = "test" /\ runs' = runs + 1
    /\ UNCHANGED <<post_queue_, engineVars, at, local, batch, coroVars, callerVars, ran>>

\* The loop condition: both outcomes drain the post queue next.
Test ==
    /\ pc = "test"
    /\ pc' = "swap"
    /\ at' = IF running_ THEN "top" ELSE "final"
    /\ UNCHANGED <<running_, post_queue_, engineVars, local, batch, runs, coroVars, callerVars, ran>>

DrainSwap ==
    /\ pc = "swap"
    /\ local' = post_queue_ /\ post_queue_' = <<>>
    /\ pc' = "call"
    /\ UNCHANGED <<running_, engineVars, at, batch, runs, coroVars, callerVars, ran>>

DrainDone ==
    /\ pc = "call" /\ local = <<>>
    /\ pc' = CASE at = "top" -> (IF tasks_ = {} THEN "swap" ELSE "wait")
               [] at = "body" -> "erase"
               [] at \in {"final", "dtor"} -> "take"
    /\ at' = IF at = "top" /\ tasks_ = {} THEN "final" ELSE at
    /\ UNCHANGED <<running_, post_queue_, engineVars, local, batch, runs, coroVars, callerVars, ran>>

\* One function of local_queue; its exceptions are caught and reported.
CallFn ==
    /\ pc = "call" /\ local # <<>>
    /\ local' = Tail(local)
    /\ LET fn == Head(local) IN
       /\ ran' = IF fn \in Jobs THEN ran \cup {fn} ELSE ran
       /\ \/ /\ fn.op = "call"
             /\ UNCHANGED <<running_, post_queue_, engineVars, coroVars>>
          \/ /\ fn.op = "stop"
             /\ running_' = FALSE /\ wakefd' = TRUE
             /\ UNCHANGED <<post_queue_, inflight, ready, coroVars>>
          \/ /\ fn.op = "spawn"
             /\ SpawnRoot(fn.arg)
             /\ UNCHANGED <<running_>>
          \/ /\ fn.op = "resume"
             /\ RunCoro(fn.arg)
             /\ UNCHANGED <<running_, tasks_>>
    /\ UNCHANGED <<pc, at, batch, runs, callerVars>>

\* submit_and_wait(1) returns once something is ready or the loop was woken.
Wait ==
    /\ pc = "wait"
    /\ ready # <<>> \/ wakefd
    /\ wakefd' = FALSE
    /\ pc' = "take" /\ at' = "body"
    /\ UNCHANGED <<running_, post_queue_, inflight, ready, local, batch, runs, coroVars, callerVars, ran>>

ProcessTake ==
    /\ pc = "take"
    /\ batch' = ready /\ ready' = <<>>
    /\ pc' = "resume"
    /\ UNCHANGED <<running_, post_queue_, inflight, wakefd, at, local, runs, coroVars, callerVars, ran>>

ProcessOne ==
    /\ pc = "resume" /\ batch # <<>>
    /\ batch' = Tail(batch)
    /\ RunCoro(Head(batch))
    /\ UNCHANGED <<running_, pc, at, local, runs, tasks_, callerVars, ran>>

ProcessDone ==
    /\ pc = "resume" /\ batch = <<>>
    /\ \/ /\ at = "body"
          /\ pc' = "swap" /\ UNCHANGED <<coroVars, post_queue_, inflight>>
       \/ /\ at = "final"
          /\ pc' = "store" /\ UNCHANGED <<coroVars, post_queue_, inflight>>
       \/ /\ at = "dtor"      \* tasks_.clear() destroys the frames
          /\ pc' = "gone"
          /\ tasks_' = {} /\ post_queue_' = <<>> /\ inflight' = {}
          /\ coro' = [k \in Roots |-> IF coro[k] \in {"io", "yield"} THEN "destroyed" ELSE coro[k]]
          /\ UNCHANGED suspends
    /\ UNCHANGED <<running_, ready, wakefd, at, local, batch, runs, callerVars, ran>>

\* Mutant: a root that is only waiting for its posted resumption is erased too.
Erase_Yielded ==
    /\ pc = "erase"
    /\ tasks_' = {k \in tasks_ : coro[k] = "io"}
    /\ IF tasks_' = {} THEN pc' = "swap" /\ at' = "final" ELSE pc' = "test" /\ UNCHANGED at
    /\ UNCHANGED <<running_, post_queue_, engineVars, local, batch, runs, coro, suspends, callerVars, ran>>

Erase ==
    /\ pc = "erase"
    /\ tasks_' = {k \in tasks_ : coro[k] # "done"}
    /\ IF tasks_' = {} THEN pc' = "swap" /\ at' = "final" ELSE pc' = "test" /\ UNCHANGED at
    /\ UNCHANGED <<running_, post_queue_, engineVars, local, batch, runs, coro, suspends, callerVars, ran>>

Store ==
    /\ pc = "store"
    /\ running_' = FALSE
    /\ pc' = "out" /\ at' = "top"
    /\ UNCHANGED <<post_queue_, engineVars, local, batch, runs, coroVars, callerVars, ran>>

\* Mutant: the destructor does not drain the post queue.
Destroy_NoDrain ==
    /\ pc = "out"
    /\ \A j \in Jobs : poster[j] # "pushed"
    /\ \A s \in Stoppers : stopper[s] # "wake"
    /\ running_' = FALSE /\ wakefd' = TRUE
    /\ pc' = "take" /\ at' = "dtor"
    /\ UNCHANGED <<post_queue_, inflight, ready, local, batch, runs, coroVars, callerVars, ran>>

\* The destructor: stop(), drain, process, clear.  Nobody else is inside the loop.
Destroy ==
    /\ pc = "out"
    /\ \A j \in Jobs : poster[j] # "pushed"
    /\ \A s \in Stoppers : stopper[s] # "wake"
    /\ running_' = FALSE /\ wakefd' = TRUE
    /\ pc' = "swap" /\ at' = "dtor"
    /\ UNCHANGED <<post_queue_, inflight, ready, local, batch, runs, coroVars, callerVars, ran>>

(***************************************************************************)
(* The kernel and the other threads.                                       *)
(***************************************************************************)
IoDone(k) ==
    /\ k \in inflight
    /\ inflight' = inflight \ {k}
    /\ ready' = Append(ready, k)
    /\ UNCHANGED <<running_, post_queue_, wakefd, ownerVars, coroVars, callerVars, ran>>

Usable == pc # "gone" /\ ~(at = "dtor")

\* Mutant: an empty function is queued like any other.
PostPush_Empty(j) ==
    /\ poster[j] = "new" /\ Usable
    /\ post_queue_' = Append(post_queue_, [op |-> "empty", arg |-> j])
    /\ poster' = [poster EXCEPT ![j] = "pushed"]
    /\ UNCHANGED <<running_, engineVars, ownerVars, coroVars, stopper, ran>>

PostPush(j) ==
    /\ poster[j] = "new" /\ Usable
    /\ post_queue_' = Append(post_queue_, j)
    /\ poster' = [poster EXCEPT ![j] = "pushed"]
    /\ UNCHANGED <<running_, engineVars, ownerVars, coroVars, stopper, ran>>

\* Mutant: post() relies on the loop polling.
PostWake_None(j) ==
    /\ poster[j] = "pushed"
    /\ poster' = [poster EXCEPT ![j] = "done"]
    /\ UNCHANGED <<running_, post_queue_, engineVars, ownerVars, coroVars, stopper, ran>>

PostWake(j) ==
    /\ poster[j] = "pushed"
    /\ wakefd' = TRUE
    /\ poster' = [poster EXCEPT ![j] = "done"]
    /\ UNCHANGED <<running_, post_queue_, inflight, ready, ownerVars, coroVars, stopper, ran>>

StopStore(s) ==
    /\ stopper[s] = "idle" /\ Usable
    /\ running_' = FALSE
    /\ stopper' = [stopper EXCEPT ![s] = "wake"]
    /\ UNCHANGED <<post_queue_, engineVars, ownerVars, coroVars, poster, ran>>

\* Mutant: stop() does not wake the loop.
StopWake_None(s) ==
    /\ stopper[s] = "wake"
    /\ stopper' = [stopper EXCEPT ![s] = "done"]
    /\ UNCHANGED <<running_, post_queue_, engineVars, ownerVars, coroVars, poster, ran>>

StopWake(s) ==
    /\ stopper[s] = "wake"
    /\ wakefd' = TRUE
    /\ stopper' = [stopper EXCEPT ![s] = "done"]
    /\ UNCHANGED <<running_, post_queue_, inflight, ready, ownerVars, coroVars, poster, ran>>

-----------------------------------------------------------------------------
OwnerStep == \/ Test \/ DrainSwap \/ DrainDone \/ CallFn \/ Wait \/ ProcessTake
             \/ ProcessOne \/ ProcessDone \/ Erase \/ Store

Next == \/ OwnerStep \/ RunStart \/ Destroy
        \/ \E k \in Roots : Spawn(k) \/ IoDone(k)
        \/ \E j \in Jobs : PostPush(j) \/ PostWake(j)
        \/ \E s \in Stoppers : StopStore(s) \/ StopWake(s)

\* The owner inside run() and the callers inside post() and stop() keep going;
\* the kernel need not complete an operation.
Fairness == /\ WF_vars(OwnerStep)
            /\ \A j \in Jobs : WF_vars(PostWake(j))
            /\ \A s \in Stoppers : WF_vars(StopWake(s))

Spec == Init /\ [][Next]_vars
FairSpec == Spec /\ Fairness

-----------------------------------------------------------------------------
Distinct(seq) == \A i, j \in DOMAIN seq : seq[i] = seq[j] => i = j
Completed == Elements(ready) \cup Elements(batch)
Posted(queue) == {k \in Roots : Resume(k) \in Elements(queue)}

\* The coroutines that wait for I/O are those with an operation in the kernel or
\* a completion that is not processed, one of them and once.
IoOnce ==
    /\ {k \in Roots : coro[k] = "io"} = inflight \cup Completed
    /\ inflight \cap Completed = {} /\ Elements(ready) \cap Elements(batch) = {}
    /\ Distinct(ready) /\ Distinct(batch)
\* Those that yielded are those whose resumption is in a queue, once.
YieldOnce ==
    /\ {k \in Roots : coro[k] = "yield"} = Posted(post_queue_) \cup Posted(local)
    /\ Elements(post_queue_) \cap Elements(local) = {}
    /\ Distinct(post_queue_) /\ Distinct(local)
Owned == {k \in Roots : coro[k] \in {"io", "yield"}} \subseteq tasks_

\* A suspended root has one party that resumes it (the kernel, a completion or a
\* posted function), no frame is resumed twice or after it finished, and tasks_
\* owns the frame until then.
OneWaker == TypeOK /\ (pc # "gone" => IoOnce /\ YieldOnce /\ Owned)

\* Whatever other threads posted before the destructor has been run when the
\* loop is gone, also after run() drained for the last time.
DrainedAtEnd == pc = "gone" => \A j \in Jobs : poster[j] = "done" => j \in ran

\* A posted function is run while run() is active: no wakeup is lost between the
\* drain and the wait.  A stop() that run() can see makes run() return, also
\* when the loop sleeps.
Heeded ==
    /\ \A j \in Jobs : poster[j] = "new" \/ j \in ran \/ pc = "out"
    /\ running_ \/ ~InRun

-----------------------------------------------------------------------------
(***************************************************************************)
(* OneWaker and DrainedAtEnd hold for any roots, jobs and stoppers.        *)
(***************************************************************************)
\* Where the owner is decides which of its queues hold something, and what the
\* destructor has behind it: local_queue lives inside drain_post_queue, the
\* batch inside process_completions, and once the destructor has swapped the
\* post queue out nothing is pushed.
Control ==
    /\ local # <<>> => pc = "call"
    /\ batch # <<>> => pc = "resume"
    /\ at = "dtor" => /\ pc \in {"swap", "call", "take", "resume", "gone"}
                      /\ pc # "swap" => post_queue_ = <<>>
    /\ pc = "gone" => at = "dtor"
    /\ pc \in {"take", "resume"} => at # "top"

\* A posted function is in one of the queues, once, until it has run.
JobsAccounted ==
    \A j \in Jobs :
        /\ poster[j] = "new" => /\ j \notin Elements(post_queue_)
                               /\ j \notin Elements(local)
        /\ poster[j] # "new" => j \in ran \cup Elements(post_queue_) \cup Elements(local)

IInv == OneWaker /\ Control /\ JobsAccounted

LEMMA Appended ==
    ASSUME NEW S, NEW q \in Seq(S), NEW e \in S
    PROVE  /\ Append(q, e) \in Seq(S)
           /\ Elements(Append(q, e)) = Elements(q) \cup {e}
           /\ Distinct(q) /\ e \notin Elements(q) => Distinct(Append(q, e))
<1>1. /\ Append(q, e) \in Seq(S)
      /\ DOMAIN q = 1 .. Len(q) /\ Len(q) \in Nat
      /\ DOMAIN Append(q, e) = 1 .. Len(q) + 1
      /\ \A i \in 1 .. Len(q) : Append(q, e)[i] = q[i]
      /\ Append(q, e)[Len(q) + 1] = e
  OBVIOUS
<1>2. \A i \in 1 .. Len(q) + 1 : i \in 1 .. Len(q) \/ i = Len(q) + 1
  BY <1>1
<1>3. Elements(Append(q, e)) = Elements(q) \cup {e}
  BY <1>1, <1>2 DEF Elements
<1>4. ASSUME Distinct(q), e \notin Elements(q)
      PROVE  Distinct(Append(q, e))
  BY <1>1, <1>2, <1>4, Zenon DEF Distinct, Elements
<1> QED
  BY <1>1, <1>3, <1>4, Zenon

LEMMA Taken ==
    ASSUME NEW S, NEW q \in Seq(S), q # <<>>
    PROVE  /\ Tail(q) \in Seq(S) /\ Head(q) \in S
           /\ Elements(q) = Elements(Tail(q)) \cup {Head(q)}
           /\ Distinct(q) => Distinct(Tail(q)) /\ Head(q) \notin Elements(Tail(q))
<1>1. /\ Tail(q) \in Seq(S) /\ Head(q) \in S /\ Head(q) = q[1]
      /\ DOMAIN q = 1 .. Len(q) /\ Len(q) \in Nat \ {0}
      /\ DOMAIN Tail(q) = 1 .. Len(q) - 1
      /\ \A i \in 1 .. Len(q) - 1 : Tail(q)[i] = q[i + 1]
  OBVIOUS
<1>2. \A i \in 1 .. Len(q) : i = 1 \/ (i - 1 \in 1 .. Len(q) - 1 /\ q[i] = Tail(q)[i - 1])
  BY <1>1
<1>3. Elements(q) = Elements(Tail(q)) \cup {Head(q)}
  <2>1. \A i \in 1 .. Len(q) - 1 : i + 1 \in DOMAIN q
    BY <1>1
  <2>2. Elements(Tail(q)) \cup {Head(q)} \subseteq Elements(q)
    BY <1>1, <2>1 DEF Elements
  <2>3. ASSUME NEW i \in DOMAIN q
        PROVE  q[i] \in Elements(Tail(q)) \cup {Head(q)}
    <3>1. CASE i = 1
      BY <1>1, <3>1, Zenon
    <3>2. CASE i # 1
      BY <1>1, <1>2, <3>2, Zenon DEF Elements
    <3> QED
      BY <3>1, <3>2, Zenon
  <2> QED
    BY <2>2, <2>3, Zenon DEF Elements
<1>4. ASSUME Distinct(q)
      PROVE  Distinct(Tail(q)) /\ Head(q) \notin Elements(Tail(q))
  <2>1. \A i \in 1 .. Len(q) - 1 : i + 1 \in DOMAIN q /\ i + 1 # 1
    BY <1>1
  <2>2. Head(q) \notin Elements(Tail(q))
    BY <1>1, <1>4, <2>1 DEF Distinct, Elements
  <2>3. Distinct(Tail(q))
    BY <1>1, <1>4, <2>1 DEF Distinct
  <2> QED
    BY <2>2, <2>3, Zenon
<1> QED
  BY <1>1, <1>3, <1>4, Zenon

LEMMA Nothing ==
    /\ Elements(<<>>) = {} /\ Distinct(<<>>)
    /\ \A S : <<>> \in Seq(S)
  BY DEF Elements, Distinct

LEMMA Resumptions ==
    ASSUME LoopAssumption
    PROVE  /\ \A k \in Roots : Resume(k) \in Fns /\ Resume(k) \notin Jobs
           /\ \A k, l \in Roots : Resume(k) = Resume(l) => k = l
           /\ \A k \in Roots : Resume(k).op = "resume" /\ Resume(k).arg = k
  BY Zenon DEF LoopAssumption, Resume, Fns

\* What resuming k, which nothing else resumes, comes to.
Resumed(k) ==
    /\ coro' \in [Roots -> {"new", "io", "yield", "done", "destroyed"}]
    /\ coro'[k] \in {"io", "yield", "done"}
    /\ \A l \in Roots \ {k} : coro'[l] = coro[l]
    /\ suspends' \in [Roots -> 0 .. MaxSuspends]
    /\ inflight' = inflight \cup (IF coro'[k] = "io" THEN {k} ELSE {})
    /\ ready' = ready /\ wakefd' \in BOOLEAN
    /\ post_queue_' \in Seq(Fns)
    /\ Elements(post_queue_') =
           Elements(post_queue_) \cup (IF coro'[k] = "yield" THEN {Resume(k)} ELSE {})
    /\ Distinct(post_queue_) => Distinct(post_queue_')
    /\ at = "dtor" => post_queue_' = post_queue_

LEMMA Ran ==
    ASSUME LoopAssumption, TypeOK, NEW k \in Roots, RunCoro(k),
           Resume(k) \notin Elements(post_queue_)
    PROVE  Resumed(k)
<1> USE DEF TypeOK, LoopAssumption, Resumed
<1>1. CASE coro' = [coro EXCEPT ![k] = "done"] /\ UNCHANGED <<suspends, post_queue_, engineVars>>
  BY <1>1, Zenon DEF engineVars
<1>2. CASE /\ suspends[k] < MaxSuspends
           /\ coro' = [coro EXCEPT ![k] = "io"]
           /\ suspends' = [suspends EXCEPT ![k] = @ + 1]
           /\ inflight' = inflight \cup {k}
           /\ UNCHANGED <<post_queue_, ready, wakefd>>
  BY <1>2
<1>3. CASE /\ suspends[k] < MaxSuspends /\ InRun
           /\ coro' = [coro EXCEPT ![k] = "yield"]
           /\ suspends' = [suspends EXCEPT ![k] = @ + 1]
           /\ post_queue_' = Append(post_queue_, Resume(k))
           /\ wakefd' = TRUE
           /\ UNCHANGED <<ready, inflight>>
  <2>1. /\ post_queue_' \in Seq(Fns)
        /\ Elements(post_queue_') = Elements(post_queue_) \cup {Resume(k)}
        /\ Distinct(post_queue_) => Distinct(post_queue_')
    BY <1>3, Appended, Resumptions
  <2> QED
    BY <1>3, <2>1 DEF InRun
<1> QED
  BY <1>1, <1>2, <1>3, Zenon DEF RunCoro

LEMMA InvInit ==
    ASSUME LoopAssumption, Init
    PROVE  IInv
<1>1. /\ suspends \in [Roots -> 0 .. MaxSuspends] /\ runs \in 0 .. MaxRuns
      /\ post_queue_ \in Seq(Fns) /\ local \in Seq(Fns)
      /\ batch \in Seq(Roots) /\ ready \in Seq(Roots)
  BY DEF Init, LoopAssumption
<1>2. TypeOK
  BY <1>1, Zenon DEF Init, TypeOK, Pcs
<1>3. IoOnce /\ YieldOnce /\ Owned
  BY Nothing, Zenon DEF Init, IoOnce, YieldOnce, Owned, Completed, Posted
<1> QED
  BY <1>2, <1>3, Nothing, Zenon DEF IInv, OneWaker, Init, Control, JobsAccounted

\* What a function of local_queue and a completion preserve.
LEMMA InvResume ==
    ASSUME LoopAssumption, IInv, CallFn \/ ProcessOne
    PROVE  IInv'
<1> USE DEF IInv, OneWaker
<1>1. CASE ProcessOne
  <2> DEFINE k == Head(batch)
  <2>0. /\ pc = "resume" /\ batch # <<>> /\ batch' = Tail(batch) /\ RunCoro(k)
        /\ UNCHANGED <<running_, pc, at, local, runs, tasks_, poster, stopper, ran>>
    BY <1>1, Zenon DEF ProcessOne, callerVars
  <2>1. /\ k \in Roots /\ batch' \in Seq(Roots) /\ Elements(batch) = Elements(batch') \cup {k}
        /\ Distinct(batch') /\ k \notin Elements(batch')
    BY <2>0, Taken, Zenon DEF TypeOK, IoOnce
  <2>2. /\ coro[k] = "io" /\ k \notin inflight /\ k \notin Elements(ready) /\ k \in tasks_
        /\ Resume(k) \notin Elements(post_queue_) /\ Resume(k) \notin Elements(local)
    BY <2>0, <2>1, Zenon DEF IoOnce, YieldOnce, Owned, Completed, Posted
  <2>3. Resumed(k)
    BY <2>0, <2>1, <2>2, Ran, Zenon
  <2> HIDE DEF k
  <2>4. TypeOK'
    <3>1. inflight' \subseteq Roots
      BY <2>1, <2>3, Zenon DEF Resumed, TypeOK
    <3> QED
      BY <2>0, <2>1, <2>3, <3>1, Zenon DEF TypeOK, Resumed
  <2>5. IoOnce'
    <3>1. {l \in Roots : coro'[l] = "io"} = inflight' \cup Completed'
      BY <2>0, <2>1, <2>2, <2>3 DEF TypeOK, IoOnce, Completed, Resumed
    <3>2. inflight' \cap Completed' = {} /\ Elements(ready') \cap Elements(batch') = {}
      BY <2>0, <2>1, <2>2, <2>3 DEF IoOnce, Completed, Resumed
    <3> QED
      BY <2>0, <2>1, <2>3, <3>1, <3>2, Zenon DEF IoOnce, Resumed
  <2>6. YieldOnce'
    BY <2>0, <2>1, <2>2, <2>3, Resumptions DEF TypeOK, YieldOnce, Posted, Resumed
  <2>7. Owned'
    BY <2>0, <2>1, <2>2, <2>3, Zenon DEF TypeOK, Owned, Resumed
  <2>8. Control'
    BY <2>0, <2>1, <2>3, Zenon DEF TypeOK, Control, Resumed
  <2>9. JobsAccounted'
    BY <2>0, <2>1, <2>3, Resumptions, Zenon DEF JobsAccounted, Resumed
  <2> QED
    BY <2>4, <2>5, <2>6, <2>7, <2>8, <2>9, Zenon
<1>2. CASE CallFn
  <2> DEFINE fn == Head(local)
  <2>0. /\ pc = "call" /\ local # <<>> /\ local' = Tail(local) /\ batch = <<>>
        /\ ran' = IF fn \in Jobs THEN ran \cup {fn} ELSE ran
        /\ UNCHANGED <<pc, at, batch, runs, poster, stopper>>
    BY <1>2, Zenon DEF CallFn, callerVars, Control
  <2>1. /\ fn \in Fns /\ local' \in Seq(Fns) /\ Elements(local) = Elements(local') \cup {fn}
        /\ Distinct(local') /\ fn \notin Elements(local') /\ fn \notin Elements(post_queue_)
    BY <2>0, Taken, Zenon DEF TypeOK, YieldOnce
  <2>2. CASE fn.op \in {"call", "stop"} /\ running_' \in BOOLEAN /\ wakefd' \in BOOLEAN
             /\ UNCHANGED <<post_queue_, inflight, ready, coro, suspends, tasks_>>
    <3>1. fn \in Jobs /\ \A k \in Roots : Resume(k) # fn
      BY <2>1, <2>2, Resumptions, Zenon DEF Fns
    <3> HIDE DEF fn
    <3>2. TypeOK'
      BY <2>0, <2>1, <2>2, <3>1, Zenon DEF TypeOK
    <3>3. IoOnce' /\ Owned'
      BY <2>0, <2>2, Zenon DEF IoOnce, Completed, Owned
    <3>4. YieldOnce'
      BY <2>0, <2>1, <2>2, <3>1, Zenon DEF YieldOnce, Posted
    <3>5. Control' /\ JobsAccounted'
      BY <2>0, <2>1, <2>2, <3>1, Zenon DEF Control, JobsAccounted
    <3> QED
      BY <3>2, <3>3, <3>4, <3>5, Zenon
  <2>3. CASE fn.op = "spawn" /\ SpawnRoot(fn.arg) /\ UNCHANGED running_
    <3> DEFINE k == fn.arg
    <3>1. fn \in Jobs /\ (\A l \in Roots : Resume(l) # fn) /\ k \in Roots
      BY <2>1, <2>3, Resumptions, Zenon DEF Fns, LoopAssumption
    <3>2. /\ coro[k] = "new" /\ RunCoro(k)
          /\ tasks_' = IF coro'[k] = "done" THEN tasks_ ELSE tasks_ \cup {k}
      BY <2>3, Zenon DEF SpawnRoot
    <3>3. /\ k \notin inflight \cup Completed
          /\ Resume(k) \notin Elements(post_queue_) /\ Resume(k) \notin Elements(local)
      BY <2>0, <3>1, <3>2, Zenon DEF IoOnce, YieldOnce, Posted
    <3>4. Resumed(k)
      BY <3>1, <3>2, <3>3, Ran, Zenon
    <3> HIDE DEF fn, k
    <3>5. TypeOK'
      BY <2>0, <2>1, <2>3, <3>1, <3>2, <3>4, Zenon DEF TypeOK, Resumed
    <3>6. IoOnce'
      BY <2>0, <3>1, <3>2, <3>3, <3>4 DEF TypeOK, IoOnce, Completed, Resumed
    <3>7. YieldOnce'
      <4>1. {l \in Roots : coro'[l] = "yield"} = Posted(post_queue_') \cup Posted(local')
        BY <2>0, <2>1, <3>1, <3>2, <3>3, <3>4, Resumptions DEF TypeOK, YieldOnce, Posted, Resumed
      <4>2. Elements(post_queue_') \cap Elements(local') = {}
        BY <2>0, <2>1, <3>3, <3>4, Zenon DEF YieldOnce, Resumed
      <4> QED
        BY <2>0, <2>1, <3>4, <4>1, <4>2, Zenon DEF YieldOnce, Posted, Resumed
    <3>8. Owned'
      BY <2>0, <3>1, <3>2, <3>3, <3>4, Zenon DEF TypeOK, Owned, Resumed
    <3>9. Control' /\ JobsAccounted'
      BY <2>0, <2>1, <3>1, <3>4, Resumptions DEF TypeOK, Control, JobsAccounted, Resumed
    <3> QED
      BY <3>5, <3>6, <3>7, <3>8, <3>9, Zenon
  <2>4. CASE fn.op = "resume" /\ RunCoro(fn.arg) /\ UNCHANGED <<running_, tasks_>>
    <3>1. PICK k \in Roots : fn = Resume(k)
      BY <2>1, <2>4, Zenon DEF Fns, LoopAssumption
    <3>2. fn \notin Jobs /\ RunCoro(k)
      BY <2>4, <3>1, Resumptions
    <3>3. /\ coro[k] = "yield" /\ k \notin inflight \cup Completed /\ k \in tasks_
          /\ Resume(k) \notin Elements(post_queue_) /\ Resume(k) \notin Elements(local')
      BY <2>0, <2>1, <3>1, Zenon DEF IoOnce, YieldOnce, Posted, Owned
    <3>4. Resumed(k)
      BY <3>2, <3>3, Ran, Zenon
    <3> HIDE DEF fn
    <3>5. TypeOK'
      BY <2>0, <2>1, <2>4, <3>2, <3>4, Zenon DEF TypeOK, Resumed
    <3>6. IoOnce'
      BY <2>0, <3>3, <3>4 DEF TypeOK, IoOnce, Completed, Resumed
    <3>7. YieldOnce'
      <4>1. {l \in Roots : coro'[l] = "yield"} = Posted(post_queue_') \cup Posted(local')
        BY <2>0, <2>1, <3>1, <3>3, <3>4, Resumptions DEF TypeOK, YieldOnce, Posted, Resumed
      <4>2. Elements(post_queue_') \cap Elements(local') = {}
        BY <2>0, <2>1, <3>3, <3>4, Zenon DEF YieldOnce, Resumed
      <4> QED
        BY <2>0, <2>1, <3>4, <4>1, <4>2, Zenon DEF YieldOnce, Posted, Resumed
    <3>8. Owned'
      BY <2>0, <2>4, <3>3, <3>4, Zenon DEF TypeOK, Owned, Resumed
    <3>9. Control' /\ JobsAccounted'
      BY <2>0, <2>1, <3>2, <3>4, Resumptions DEF TypeOK, Control, JobsAccounted, Resumed
    <3> QED
      BY <3>5, <3>6, <3>7, <3>8, <3>9, Zenon
  <2> QED
    BY <1>2, <2>2, <2>3, <2>4, Zenon DEF CallFn, engineVars, coroVars, TypeOK
<1> QED
  BY <1>1, <1>2, Zenon

\* What the other steps of the owner preserve.
LEMMA InvOwner ==
    ASSUME LoopAssumption, IInv,
           \/ Test \/ DrainSwap \/ DrainDone \/ Wait \/ ProcessTake \/ ProcessDone
           \/ Erase \/ Store \/ RunStart \/ Destroy
    PROVE  IInv'
<1> USE DEF IInv, OneWaker, engineVars, ownerVars, coroVars, callerVars, Pcs
<1>1. CASE DrainSwap
  <2>0. local = <<>> /\ Elements(local) = {}
    BY <1>1, Nothing, Zenon DEF DrainSwap, Control
  <2>1. TypeOK' /\ IoOnce' /\ Owned'
    BY <1>1 DEF DrainSwap, TypeOK, IoOnce, Completed, Owned
  <2>2. YieldOnce'
    BY <1>1, <2>0, Nothing, Zenon DEF DrainSwap, YieldOnce, Posted
  <2>3. Control' /\ JobsAccounted'
    BY <1>1, <2>0, Nothing, Zenon DEF DrainSwap, Control, JobsAccounted
  <2> QED
    BY <2>1, <2>2, <2>3, Zenon
<1>2. CASE ProcessTake
  <2>0. batch = <<>> /\ Elements(batch) = {}
    BY <1>2, Nothing, Zenon DEF ProcessTake, Control
  <2>1. TypeOK' /\ YieldOnce' /\ Owned'
    BY <1>2 DEF ProcessTake, TypeOK, YieldOnce, Posted, Owned
  <2>2. IoOnce'
    BY <1>2, <2>0, Nothing, Zenon DEF ProcessTake, IoOnce, Completed
  <2>3. Control' /\ JobsAccounted'
    BY <1>2, Zenon DEF ProcessTake, Control, JobsAccounted
  <2> QED
    BY <2>1, <2>2, <2>3, Zenon
<1>3. CASE ProcessDone /\ at = "dtor"
  <2>0. /\ pc = "resume" /\ batch = <<>> /\ local = <<>> /\ post_queue_ = <<>> /\ pc' = "gone"
        /\ tasks_' = {} /\ post_queue_' = <<>> /\ inflight' = {}
        /\ coro' = [k \in Roots |-> IF coro[k] \in {"io", "yield"} THEN "destroyed" ELSE coro[k]]
        /\ UNCHANGED <<suspends, running_, ready, wakefd, at, local, batch, runs, poster, stopper, ran>>
    BY <1>3, Zenon DEF ProcessDone, Control
  <2>1. TypeOK'
    BY <2>0, Zenon DEF TypeOK
  <2>2. Control' /\ JobsAccounted'
    BY <1>3, <2>0, Nothing, Zenon DEF Control, JobsAccounted
  <2> QED
    BY <2>0, <2>1, <2>2, Zenon
<1>4. CASE Erase
  <2>0. /\ pc = "erase" /\ tasks_' = {k \in tasks_ : coro[k] # "done"}
        /\ pc' \in {"swap", "test"} /\ at' \in {at, "final"}
        /\ UNCHANGED <<running_, post_queue_, inflight, ready, wakefd, local, batch, runs, coro,
                       suspends, poster, stopper, ran>>
    BY <1>4, Zenon DEF Erase
  <2>1. TypeOK' /\ IoOnce' /\ YieldOnce' /\ Owned'
    BY <2>0, Zenon DEF TypeOK, IoOnce, Completed, YieldOnce, Posted, Owned
  <2>2. Control' /\ JobsAccounted'
    BY <2>0, Zenon DEF Control, JobsAccounted
  <2> QED
    BY <2>1, <2>2, Zenon
<1>5. CASE Test \/ DrainDone \/ Wait \/ (ProcessDone /\ at # "dtor") \/ Store \/ RunStart \/ Destroy
  <2>0. /\ UNCHANGED <<post_queue_, inflight, ready, local, batch, coroVars, callerVars, ran>>
        /\ pc # "gone" /\ local = <<>> /\ batch = <<>> /\ pc' \in Pcs \ {"gone"}
        /\ running_' \in BOOLEAN /\ wakefd' \in BOOLEAN /\ runs' \in 0 .. MaxRuns
        /\ at' \in {"top", "body", "final", "dtor"}
    <3>1. CASE Test
      BY <3>1, Zenon DEF Test, Control, TypeOK
    <3>2. CASE DrainDone
      BY <3>2, Zenon DEF DrainDone, Control, TypeOK
    <3>3. CASE Wait
      BY <3>3, Zenon DEF Wait, Control, TypeOK
    <3>4. CASE ProcessDone /\ at # "dtor"
      BY <3>4, Zenon DEF ProcessDone, Control, TypeOK
    <3>5. CASE Store
      BY <3>5, Zenon DEF Store, Control, TypeOK
    <3>6. CASE RunStart
      BY <3>6 DEF RunStart, Control, TypeOK, LoopAssumption
    <3>7. CASE Destroy
      BY <3>7, Zenon DEF Destroy, Control, TypeOK
    <3> QED
      BY <1>5, <3>1, <3>2, <3>3, <3>4, <3>5, <3>6, <3>7, Zenon
  <2>1. TypeOK' /\ IoOnce' /\ YieldOnce' /\ Owned' /\ JobsAccounted'
    BY <2>0, Zenon DEF TypeOK, IoOnce, Completed, YieldOnce, Posted, Owned, JobsAccounted
  <2>2. Control'
    BY <1>5, <2>0, Zenon
       DEF Control, TypeOK, Test, DrainDone, Wait, ProcessDone, Store, RunStart, Destroy
  <2> QED
    BY <2>1, <2>2, Zenon
<1> QED
  BY <1>1, <1>2, <1>3, <1>4, <1>5, Zenon

\* What spawn(), the kernel and the other threads preserve.
LEMMA InvOthers ==
    ASSUME LoopAssumption, IInv,
           \/ \E k \in Roots : Spawn(k) \/ IoDone(k)
           \/ \E j \in Jobs : PostPush(j) \/ PostWake(j)
           \/ \E s \in Stoppers : StopStore(s) \/ StopWake(s)
    PROVE  IInv'
<1> USE DEF IInv, OneWaker, engineVars, ownerVars, coroVars, callerVars
<1>1. ASSUME NEW k \in Roots, Spawn(k)
      PROVE  IInv'
  <2>0. /\ pc = "out" /\ coro[k] = "new" /\ RunCoro(k)
        /\ tasks_' = IF coro'[k] = "done" THEN tasks_ ELSE tasks_ \cup {k}
        /\ UNCHANGED <<running_, pc, at, local, batch, runs, poster, stopper, ran>>
    BY <1>1, Zenon DEF Spawn, SpawnRoot
  <2>1. /\ k \notin inflight \cup Completed
        /\ Resume(k) \notin Elements(post_queue_) /\ Resume(k) \notin Elements(local)
    BY <2>0, Zenon DEF IoOnce, YieldOnce, Posted
  <2>2. Resumed(k)
    BY <2>0, <2>1, Ran, Zenon
  <2>3. TypeOK'
    BY <2>0, <2>2, Zenon DEF TypeOK, Resumed
  <2>4. IoOnce'
    BY <2>0, <2>1, <2>2 DEF TypeOK, IoOnce, Completed, Resumed
  <2>5. YieldOnce'
    BY <2>0, <2>1, <2>2, Resumptions DEF TypeOK, YieldOnce, Posted, Resumed
  <2>6. Owned'
    BY <2>0, <2>2, Zenon DEF TypeOK, Owned, Resumed
  <2>7. Control' /\ JobsAccounted'
    BY <2>0, <2>2, Resumptions, Zenon DEF TypeOK, Control, JobsAccounted, Resumed
  <2> QED
    BY <2>3, <2>4, <2>5, <2>6, <2>7, Zenon
<1>2. ASSUME NEW k \in Roots, IoDone(k)
      PROVE  IInv'
  <2>0. /\ k \in inflight /\ inflight' = inflight \ {k} /\ ready' = Append(ready, k)
        /\ UNCHANGED <<running_, post_queue_, wakefd, pc, at, local, batch, runs, coro, suspends,
                       tasks_, poster, stopper, ran>>
    BY <1>2, Zenon DEF IoDone
  <2>1. /\ ready' \in Seq(Roots) /\ Elements(ready') = Elements(ready) \cup {k}
        /\ Distinct(ready) /\ k \notin Elements(ready) => Distinct(ready')
    BY <2>0, Appended DEF TypeOK
  <2>2. TypeOK' /\ Control' /\ JobsAccounted'
    BY <2>0, <2>1, Zenon DEF TypeOK, Control, JobsAccounted
  <2>3. ASSUME pc # "gone"
        PROVE  IoOnce' /\ YieldOnce' /\ Owned'
    <3>1. k \notin Elements(ready) /\ k \notin Elements(batch)
      BY <2>0, <2>3, Zenon DEF IoOnce, Completed
    <3>2. inflight' \cup Completed' = inflight \cup Completed
      BY <2>0, <2>1, Zenon DEF Completed
    <3>3. inflight' \cap Completed' = {} /\ Elements(ready') \cap Elements(batch') = {}
      BY <2>0, <2>1, <2>3, <3>1, Zenon DEF IoOnce, Completed
    <3>4. IoOnce'
      BY <2>0, <2>1, <2>3, <3>1, <3>2, <3>3, Zenon DEF IoOnce
    <3> QED
      BY <2>0, <2>3, <3>4, Zenon DEF YieldOnce, Posted, Owned
  <2> QED
    BY <2>0, <2>2, <2>3, Zenon
<1>3. ASSUME NEW j \in Jobs, PostPush(j)
      PROVE  IInv'
  <2>0. /\ poster[j] = "new" /\ pc # "gone" /\ at # "dtor" /\ post_queue_' = Append(post_queue_, j)
        /\ poster' = [poster EXCEPT ![j] = "pushed"]
        /\ UNCHANGED <<running_, inflight, ready, wakefd, pc, at, local, batch, runs, coro, suspends,
                       tasks_, stopper, ran>>
    BY <1>3, Zenon DEF PostPush, Usable
  <2>1. /\ j \in Fns /\ j \notin Elements(post_queue_) /\ j \notin Elements(local)
        /\ \A k \in Roots : Resume(k) # j
    BY <2>0, Resumptions, Zenon DEF Fns, JobsAccounted
  <2>2. /\ post_queue_' \in Seq(Fns) /\ Elements(post_queue_') = Elements(post_queue_) \cup {j}
        /\ Distinct(post_queue_) => Distinct(post_queue_')
    BY <2>0, <2>1, Appended DEF TypeOK
  <2>3. TypeOK' /\ IoOnce' /\ Owned'
    BY <2>0, <2>2, Zenon DEF TypeOK, IoOnce, Completed, Owned
  <2>4. YieldOnce'
    BY <2>0, <2>1, <2>2, Zenon DEF YieldOnce, Posted
  <2>5. Control' /\ JobsAccounted'
    BY <2>0, <2>2, Zenon DEF TypeOK, Control, JobsAccounted
  <2> QED
    BY <2>3, <2>4, <2>5, Zenon
<1>4. ASSUME NEW j \in Jobs, PostWake(j)
      PROVE  IInv'
  BY <1>4
     DEF PostWake, TypeOK, IoOnce, YieldOnce, Owned, Completed, Posted, Control, JobsAccounted
<1>5. ASSUME NEW s \in Stoppers, StopStore(s) \/ StopWake(s)
      PROVE  IInv'
  <2>1. TypeOK'
    BY <1>5, Zenon DEF StopStore, StopWake, TypeOK
  <2>2. UNCHANGED <<post_queue_, inflight, ready, pc, at, local, batch, coro, tasks_, poster, ran>>
    BY <1>5, Zenon DEF StopStore, StopWake
  <2> QED
    BY <2>1, <2>2, Zenon DEF IoOnce, YieldOnce, Owned, Completed, Posted, Control, JobsAccounted
<1> QED
  BY <1>1, <1>2, <1>3, <1>4, <1>5, Zenon

LEMMA InvStep ==
    ASSUME LoopAssumption, IInv, [Next]_vars
    PROVE  IInv'
<1>1. CASE UNCHANGED vars
  BY <1>1, Zenon
     DEF vars, engineVars, ownerVars, coroVars, callerVars, IInv, OneWaker, TypeOK, IoOnce,
              YieldOnce, Owned, Completed, Posted, Control, JobsAccounted
<1> QED
  BY <1>1, InvResume, InvOwner, InvOthers, Zenon DEF Next, OwnerStep

\* Every suspended root has one party that will resume it and is owned until
\* then, whatever spawn(), post(), stop(), yields, completions and the
\* destructor do and in whatever order (EventLoop.cpp).
THEOREM AlwaysOneWaker ==
    ASSUME LoopAssumption
    PROVE  Spec => []OneWaker
<1>1. Init => IInv
  BY InvInit, Zenon
<1>2. IInv /\ [Next]_vars => IInv'
  BY InvStep, Zenon
<1>3. IInv => OneWaker
  BY Zenon DEF IInv
<1> QED
  BY <1>1, <1>2, <1>3, PTL DEF Spec

\* What was posted to the loop before its destructor has run when it is gone
\* (~EventLoop drains the post queue).
THEOREM PostsDrained ==
    ASSUME LoopAssumption
    PROVE  Spec => []DrainedAtEnd
<1>1. Init => IInv
  BY InvInit, Zenon
<1>2. IInv /\ [Next]_vars => IInv'
  BY InvStep, Zenon
<1>3. IInv => DrainedAtEnd
  BY Nothing, Zenon DEF IInv, Control, JobsAccounted, DrainedAtEnd
<1> QED
  BY <1>1, <1>2, <1>3, PTL DEF Spec
=============================================================================

----------------------------- MODULE ThreadPool -----------------------------
(***************************************************************************)
(* The worker pool of src/src/core/ThreadPool.{h,cpp}.                     *)
(*                                                                         *)
(* mutex_ guards tasks_; cv_ is the set of workers blocked in cv_.wait.    *)
(* running_ is an atomic that stop() clears WITHOUT taking mutex_, so      *)
(* every read of it is a step of its own, taken while other threads may be *)
(* between two steps.  A thread's place in its method is pc[thread] and    *)
(* the task it carries is arg[thread].                                     *)
(***************************************************************************)
EXTENDS Naturals, Sequences, TLAPS

CONSTANTS
    Workers,    \* the threads of workers_
    Clients,    \* threads that call post() and dispatch()
    Stoppers,   \* calls of stop(), the destructor's included
    Tasks,      \* the callables handed to the pool, each at most once
    None

Threads == Workers \cup Clients \cup Stoppers

ASSUME ThreadsDisjoint ==
    /\ Workers \cap Clients = {}
    /\ (Workers \cup Clients) \cap Stoppers = {}
    /\ None \notin Threads \cup Tasks
    /\ Workers # {}

VARIABLES
    running_,
    tasks_,
    mutex_,     \* the thread that holds the mutex, or None
    cv_,
    pc,
    arg,
    accepted,   \* history: tasks in the order they entered tasks_
    started,    \* history: tasks in the order workers took them
    finished,   \* tasks whose call returned or threw
    refused     \* [thrown, dropped]: tasks handed over after stop()

vars == <<running_, tasks_, mutex_, cv_, pc, arg, accepted, started, finished, refused>>

-----------------------------------------------------------------------------
WorkerPc  == {"loop", "block", "wait", "run", "exited"}
ClientPc  == {"idle", "post", "dispatch", "pushing", "notify"}
StopperPc == {"idle", "notify", "join", "joined", "returned"}

TypeOK ==
    /\ running_ \in BOOLEAN
    /\ tasks_ \in Seq(Tasks)
    /\ mutex_ \in Threads \cup {None}
    /\ cv_ \subseteq Workers
    /\ pc \in [Threads -> WorkerPc \cup ClientPc \cup StopperPc]
    /\ \A w \in Workers : pc[w] \in WorkerPc
    /\ \A c \in Clients : pc[c] \in ClientPc
    /\ \A s \in Stoppers : pc[s] \in StopperPc
    /\ arg \in [Threads -> Tasks \cup {None}]
    /\ accepted \in Seq(Tasks)
    /\ started \in Seq(Tasks)
    /\ finished \subseteq Tasks
    /\ refused \in [thrown : SUBSET Tasks, dropped : SUBSET Tasks]

Init ==
    /\ running_ = TRUE
    /\ tasks_ = <<>>
    /\ mutex_ = None
    /\ cv_ = {}
    /\ pc = [th \in Threads |-> IF th \in Workers THEN "loop" ELSE "idle"]
    /\ arg = [th \in Threads |-> None]
    /\ accepted = <<>>
    /\ started = <<>>
    /\ finished = {}
    /\ refused = [thrown |-> {}, dropped |-> {}]

Goto(th, label) == pc' = [pc EXCEPT ![th] = label]

(***************************************************************************)
(* The worker's loop.  At "loop" the worker takes the mutex and evaluates  *)
(* the predicate of cv_.wait.  When that is false it holds the mutex and   *)
(* has not yet blocked; stop() may run in the gap before WorkerBlock.      *)
(***************************************************************************)
WorkerTake(w) ==
    /\ pc[w] = "loop" /\ mutex_ = None
    /\ tasks_ # <<>>
    /\ arg' = [arg EXCEPT ![w] = Head(tasks_)]
    /\ tasks_' = Tail(tasks_)
    /\ started' = Append(started, Head(tasks_))
    /\ Goto(w, "run")
    /\ UNCHANGED <<running_, mutex_, cv_, accepted, finished, refused>>

\* Mutant: the worker leaves as soon as it sees the stop flag.
WorkerExit_NoDrain(w) ==
    /\ pc[w] = "loop" /\ mutex_ = None
    /\ ~running_
    /\ Goto(w, "exited")
    /\ UNCHANGED <<running_, tasks_, mutex_, cv_, arg, accepted, started, finished, refused>>

WorkerExit(w) ==
    /\ pc[w] = "loop" /\ mutex_ = None
    /\ ~running_ /\ tasks_ = <<>>
    /\ Goto(w, "exited")
    /\ UNCHANGED <<running_, tasks_, mutex_, cv_, arg, accepted, started, finished, refused>>

WorkerTestFalse(w) ==
    /\ pc[w] = "loop" /\ mutex_ = None
    /\ running_ /\ tasks_ = <<>>
    /\ mutex_' = w
    /\ Goto(w, "block")
    /\ UNCHANGED <<running_, tasks_, cv_, arg, accepted, started, finished, refused>>

WorkerBlock(w) ==
    /\ pc[w] = "block"
    /\ mutex_' = None
    /\ cv_' = cv_ \cup {w}
    /\ Goto(w, "wait")
    /\ UNCHANGED <<running_, tasks_, arg, accepted, started, finished, refused>>

\* The C++ standard lets a wait return without a notification.
SpuriousWakeup(w) ==
    /\ w \in cv_
    /\ cv_' = cv_ \ {w}
    /\ Goto(w, "loop")
    /\ UNCHANGED <<running_, tasks_, mutex_, arg, accepted, started, finished, refused>>

\* The call of task(): an exception is swallowed, so both ends look alike.
WorkerRun(w) ==
    /\ pc[w] = "run"
    /\ finished' = finished \cup {arg[w]}
    /\ arg' = [arg EXCEPT ![w] = None]
    /\ Goto(w, "loop")
    /\ UNCHANGED <<running_, tasks_, mutex_, cv_, accepted, started, refused>>

(***************************************************************************)
(* post() and dispatch().                                                  *)
(***************************************************************************)
Given == {arg[th] : th \in Threads} \cup finished \cup refused.thrown \cup refused.dropped
           \cup {tasks_[i] : i \in DOMAIN tasks_}

Call(c, t, method) ==
    /\ pc[c] = "idle"
    /\ t \notin Given
    /\ arg' = [arg EXCEPT ![c] = t]
    /\ Goto(c, method)
    /\ UNCHANGED <<running_, tasks_, mutex_, cv_, accepted, started, finished, refused>>

\* Mutant: running_ is tested before the mutex is taken.
Admit_Unlocked(c) ==
    /\ pc[c] \in {"post", "dispatch"}
    /\ running_
    /\ Goto(c, "pushing")
    /\ UNCHANGED <<running_, tasks_, mutex_, cv_, arg, accepted, started, finished, refused>>

Admit(c) ==
    /\ pc[c] \in {"post", "dispatch"} /\ mutex_ = None
    /\ running_
    /\ mutex_' = c
    /\ Goto(c, "pushing")
    /\ UNCHANGED <<running_, tasks_, cv_, arg, accepted, started, finished, refused>>

Refuse(c) ==
    /\ pc[c] \in {"post", "dispatch"} /\ mutex_ = None
    /\ ~running_
    /\ refused' = IF pc[c] = "dispatch"
                  THEN [refused EXCEPT !.thrown = @ \cup {arg[c]}]
                  ELSE [refused EXCEPT !.dropped = @ \cup {arg[c]}]
    /\ arg' = [arg EXCEPT ![c] = None]
    /\ Goto(c, "idle")
    /\ UNCHANGED <<running_, tasks_, mutex_, cv_, accepted, started, finished>>

\* Mutant: the new task jumps the queue.
Push_Front(c) ==
    /\ pc[c] = "pushing"
    /\ tasks_' = <<arg[c]>> \o tasks_
    /\ accepted' = Append(accepted, arg[c])
    /\ arg' = [arg EXCEPT ![c] = None]
    /\ mutex_' = None
    /\ Goto(c, "notify")
    /\ UNCHANGED <<running_, cv_, started, finished, refused>>

Push(c) ==
    /\ pc[c] = "pushing"
    /\ tasks_' = Append(tasks_, arg[c])
    /\ accepted' = Append(accepted, arg[c])
    /\ arg' = [arg EXCEPT ![c] = None]
    /\ mutex_' = None
    /\ Goto(c, "notify")
    /\ UNCHANGED <<running_, cv_, started, finished, refused>>

\* Mutant: the notification is forgotten.
NotifyOne_Lost(c) ==
    /\ pc[c] = "notify"
    /\ Goto(c, "idle")
    /\ UNCHANGED <<running_, tasks_, mutex_, cv_, arg, accepted, started, finished, refused>>

\* Mutant: a woken worker takes a task without testing the predicate again.
NotifyOne_NoRetest(c) ==
    /\ pc[c] = "notify"
    /\ \E w \in cv_ :
          /\ cv_' = cv_ \ {w}
          /\ pc' = [pc EXCEPT ![c] = "idle", ![w] = "run"]
    /\ UNCHANGED <<running_, tasks_, mutex_, arg, accepted, started, finished, refused>>

NotifyOne(c) ==
    /\ pc[c] = "notify"
    /\ \/ /\ cv_ = {}
          /\ UNCHANGED cv_
          /\ Goto(c, "idle")
       \/ \E w \in cv_ :
             /\ cv_' = cv_ \ {w}
             /\ pc' = [pc EXCEPT ![c] = "idle", ![w] = "loop"]
    /\ UNCHANGED <<running_, tasks_, mutex_, arg, accepted, started, finished, refused>>

(***************************************************************************)
(* stop(): compare_exchange, notify_all, join.  A call that loses the      *)
(* exchange returns at once.                                               *)
(***************************************************************************)
StopExchange(s) ==
    /\ pc[s] = "idle"
    /\ running_' = FALSE
    /\ Goto(s, IF running_ THEN "notify" ELSE "returned")
    /\ UNCHANGED <<tasks_, mutex_, cv_, arg, accepted, started, finished, refused>>

StopNotifyAll(s) ==
    /\ pc[s] = "notify"
    /\ cv_' = {}
    /\ pc' = [th \in Threads |-> IF th \in cv_ THEN "loop"
                                 ELSE IF th = s THEN "join" ELSE pc[th]]
    /\ UNCHANGED <<running_, tasks_, mutex_, arg, accepted, started, finished, refused>>

StopJoin(s) ==
    /\ pc[s] = "join"
    /\ \A w \in Workers : pc[w] = "exited"
    /\ Goto(s, "joined")
    /\ UNCHANGED <<running_, tasks_, mutex_, cv_, arg, accepted, started, finished, refused>>

-----------------------------------------------------------------------------
WorkerStep(w) == \/ WorkerTake(w) \/ WorkerExit(w) \/ WorkerTestFalse(w)
                 \/ WorkerBlock(w) \/ WorkerRun(w)
ClientStep(c) == Admit(c) \/ Refuse(c) \/ Push(c) \/ NotifyOne(c)
StopperStep(s) == StopNotifyAll(s) \/ StopJoin(s)

Next == \/ \E w \in Workers : WorkerStep(w) \/ SpuriousWakeup(w)
        \/ \E c \in Clients : \/ ClientStep(c)
                              \/ \E t \in Tasks, m \in {"post", "dispatch"} : Call(c, t, m)
        \/ \E s \in Stoppers : StopExchange(s) \/ StopperStep(s)

\* A thread inside the pool's code keeps running; nobody is obliged to call it.
Fairness == /\ \A w \in Workers : WF_vars(WorkerStep(w))
            /\ \A c \in Clients : WF_vars(ClientStep(c))
            /\ \A s \in Stoppers : WF_vars(StopperStep(s))

Spec == Init /\ [][Next]_vars
FairSpec == Spec /\ Fairness

-----------------------------------------------------------------------------
(***************************************************************************)
(* Properties                                                              *)
(***************************************************************************)
Elements(seq) == {seq[i] : i \in DOMAIN seq}

\* Tasks leave tasks_ in the order they were accepted, and none is lost or
\* duplicated on the way (the queue handling of post, dispatch and the loop).
FifoNoLoss == accepted = started \o tasks_

\* The mutex is held exactly by the thread that is between its test of running_
\* and the step that depends on it.
MutexHeld == \A th \in Threads :
    mutex_ = th <=> pc[th] \in {"block", "pushing"}

\* Once a worker has left its loop nothing is queued and no call of post() or
\* dispatch() that read running_ as true is still about to push.
ExitedQuiet ==
    (\E w \in Workers : pc[w] = "exited") =>
        /\ ~running_
        /\ tasks_ = <<>>
        /\ \A c \in Clients : pc[c] # "pushing"

\* The workers blocked in cv_.wait are the ones a notification can reach.
CvWaits == \A w \in Workers : w \in cv_ <=> pc[w] = "wait"

\* Every task taken from the queue has been run or is carried by one worker.
StartedAccounted ==
    \A t \in Tasks : t \in Elements(started) <=>
        t \in finished \/ \E w \in Workers : pc[w] = "run" /\ arg[w] = t

\* stop() has returned from its joins only if every worker has left its loop.
JoinedExited ==
    \A s \in Stoppers : pc[s] = "joined" => \A w \in Workers : pc[w] = "exited"

\* A call that is between accepting a task and pushing it carries that task,
\* and so does a worker that runs one.
Carries == \A th \in Threads :
    pc[th] \in {"post", "dispatch", "pushing", "run"} => arg[th] \in Tasks

\* Who holds the mutex, whom a notification reaches and where every accepted
\* task is, over all steps of post(), dispatch(), stop() and the workers: tasks
\* keep their order and none is stranded when a worker leaves.  Inductive.
IInv == /\ TypeOK
        /\ MutexHeld
        /\ CvWaits
        /\ FifoNoLoss
        /\ ExitedQuiet
        /\ StartedAccounted
        /\ JoinedExited
        /\ Carries

\* When the stop() that won the exchange has joined the workers, every task that
\* post() or dispatch() accepted has been run, although running_ is cleared
\* without the mutex.
StopDrains ==
    \A s \in Stoppers : pc[s] = "joined" => Elements(accepted) = finished

\* An accepted task is eventually run, whatever stop() does meanwhile.
AcceptedRuns == \A t \in Tasks : (t \in Elements(accepted)) ~> (t \in finished)

\* stop() "waits for active workers to complete" (ThreadPool.h:60) and so returns
\* once they have nothing left to do.
StopReturns == \A s \in Stoppers : (pc[s] = "join") ~> (pc[s] = "joined")

-----------------------------------------------------------------------------
(***************************************************************************)
(* Proofs, for any number of workers, callers, stop() calls and tasks.     *)
(***************************************************************************)
\* Moving the head of a queue to the end of a sequence in front of it keeps the
\* concatenation (the pop of the worker loop).
LEMMA ConcatMoveHead ==
    ASSUME NEW S, NEW a \in Seq(S), NEW b \in Seq(S), b # <<>>
    PROVE  Append(a, Head(b)) \o Tail(b) = a \o b
OBVIOUS

\* A task added to the queue is added to what was accepted.
LEMMA ConcatAppend ==
    ASSUME NEW a \in Seq(Tasks), NEW b \in Seq(Tasks), NEW e \in Tasks
    PROVE  Append(a \o b, e) = a \o Append(b, e)
OBVIOUS

\* The elements after an Append.
LEMMA AppendElements ==
    ASSUME NEW S, NEW seq \in Seq(S), NEW e \in S
    PROVE  Elements(Append(seq, e)) = Elements(seq) \cup {e}
<1>1. DOMAIN Append(seq, e) = 1 .. Len(seq) + 1 /\ DOMAIN seq = 1 .. Len(seq) /\ Len(seq) \in Nat
  OBVIOUS
<1>2. \A i \in 1 .. Len(seq) : Append(seq, e)[i] = seq[i]
  OBVIOUS
<1>3. Append(seq, e)[Len(seq) + 1] = e
  OBVIOUS
<1> QED
  BY <1>1, <1>2, <1>3 DEF Elements

\* The initial pool satisfies the strengthening.
LEMMA InitIInv == Init => IInv
<1> SUFFICES ASSUME Init PROVE IInv
  BY Zenon
<1>1. TypeOK
  BY ThreadsDisjoint DEF Init, TypeOK, WorkerPc, ClientPc, StopperPc, Threads
<1>2. MutexHeld /\ CvWaits /\ ExitedQuiet /\ JoinedExited /\ Carries
  BY ThreadsDisjoint, Zenon
     DEF Init, MutexHeld, CvWaits, ExitedQuiet, JoinedExited, Carries, Threads
<1>3. FifoNoLoss
  BY DEF Init, FifoNoLoss
<1>4. StartedAccounted
  BY DEF Init, StartedAccounted, Elements, Threads, WorkerPc
<1> QED
  BY <1>1, <1>2, <1>3, <1>4, Zenon DEF IInv

\* Every step of the pool preserves the strengthening.
LEMMA NextIInv == IInv /\ [Next]_vars => IInv'
<1> SUFFICES ASSUME IInv, [Next]_vars PROVE IInv'
  BY Zenon
<1> USE ThreadsDisjoint DEF Threads, IInv, Goto
<1>1. ASSUME NEW w \in Workers, WorkerTake(w) PROVE IInv'
  <2> USE <1>1 DEF WorkerTake
  <2>1. TypeOK'
    BY DEF TypeOK, WorkerPc, ClientPc, StopperPc, Carries, CvWaits
  <2>2. MutexHeld'
    BY Zenon DEF TypeOK, WorkerPc, ClientPc, StopperPc, MutexHeld, CvWaits
  <2>3. CvWaits'
    BY Zenon DEF TypeOK, WorkerPc, ClientPc, StopperPc, CvWaits
  <2>4. FifoNoLoss'
    BY ConcatMoveHead DEF TypeOK, FifoNoLoss
  <2>5. ExitedQuiet'
    BY Zenon DEF TypeOK, WorkerPc, ClientPc, StopperPc, ExitedQuiet, MutexHeld
  <2>6. StartedAccounted'
    BY AppendElements DEF TypeOK, WorkerPc, ClientPc, StopperPc, StartedAccounted, Carries
  <2>7. JoinedExited'
    BY Zenon DEF TypeOK, WorkerPc, ClientPc, StopperPc, JoinedExited, CvWaits
  <2>8. Carries'
    BY DEF TypeOK, WorkerPc, ClientPc, StopperPc, Carries, CvWaits
  <2> QED
    BY <2>1, <2>2, <2>3, <2>4, <2>5, <2>6, <2>7, <2>8, Zenon
<1>2. ASSUME NEW w \in Workers, WorkerExit(w) PROVE IInv'
  <2> USE <1>2 DEF WorkerExit
  <2>1. TypeOK'
    BY Zenon DEF TypeOK, WorkerPc, ClientPc, StopperPc, Carries, CvWaits
  <2>2. MutexHeld'
    BY Zenon DEF TypeOK, WorkerPc, ClientPc, StopperPc, MutexHeld, CvWaits
  <2>3. CvWaits'
    BY Zenon DEF TypeOK, WorkerPc, ClientPc, StopperPc, CvWaits
  <2>4. FifoNoLoss'
    BY Zenon DEF TypeOK, WorkerPc, ClientPc, StopperPc, FifoNoLoss
  <2>5. ExitedQuiet'
    BY Zenon DEF TypeOK, WorkerPc, ClientPc, StopperPc, ExitedQuiet, MutexHeld
  <2>6. StartedAccounted'
    BY Zenon
       DEF TypeOK, WorkerPc, ClientPc, StopperPc, StartedAccounted, Carries, CvWaits, ExitedQuiet
  <2>7. JoinedExited'
    BY Zenon DEF TypeOK, WorkerPc, ClientPc, StopperPc, JoinedExited, CvWaits
  <2>8. Carries'
    BY Zenon DEF TypeOK, WorkerPc, ClientPc, StopperPc, Carries, CvWaits
  <2> QED
    BY <2>1, <2>2, <2>3, <2>4, <2>5, <2>6, <2>7, <2>8, Zenon
<1>3. ASSUME NEW w \in Workers, WorkerTestFalse(w) PROVE IInv'
  <2> USE <1>3 DEF WorkerTestFalse
  <2>1. TypeOK'
    BY Zenon DEF TypeOK, WorkerPc, ClientPc, StopperPc, Carries, CvWaits
  <2>2. MutexHeld'
    BY Zenon DEF TypeOK, WorkerPc, ClientPc, StopperPc, MutexHeld, CvWaits
  <2>3. CvWaits'
    BY Zenon DEF TypeOK, WorkerPc, ClientPc, StopperPc, CvWaits
  <2>4. FifoNoLoss'
    BY Zenon DEF TypeOK, WorkerPc, ClientPc, StopperPc, FifoNoLoss
  <2>5. ExitedQuiet'
    BY Zenon DEF TypeOK, WorkerPc, ClientPc, StopperPc, ExitedQuiet, MutexHeld
  <2>6. StartedAccounted'
    BY Zenon
       DEF TypeOK, WorkerPc, ClientPc, StopperPc, StartedAccounted, Carries, CvWaits, ExitedQuiet
  <2>7. JoinedExited'
    BY Zenon DEF TypeOK, WorkerPc, ClientPc, StopperPc, JoinedExited, CvWaits
  <2>8. Carries'
    BY Zenon DEF TypeOK, WorkerPc, ClientPc, StopperPc, Carries, CvWaits
  <2> QED
    BY <2>1, <2>2, <2>3, <2>4, <2>5, <2>6, <2>7, <2>8, Zenon
<1>4. ASSUME NEW w \in Workers, WorkerBlock(w) PROVE IInv'
  <2> USE <1>4 DEF WorkerBlock
  <2>1. TypeOK'
    BY Zenon DEF TypeOK, WorkerPc, ClientPc, StopperPc, Carries, CvWaits
  <2>2. MutexHeld'
    BY DEF TypeOK, WorkerPc, ClientPc, StopperPc, MutexHeld, CvWaits
  <2>3. CvWaits'
    BY Zenon DEF TypeOK, WorkerPc, ClientPc, StopperPc, CvWaits
  <2>4. FifoNoLoss'
    BY Zenon DEF TypeOK, WorkerPc, ClientPc, StopperPc, FifoNoLoss
  <2>5. ExitedQuiet'
    BY Zenon DEF TypeOK, WorkerPc, ClientPc, StopperPc, ExitedQuiet, MutexHeld
  <2>6. StartedAccounted'
    BY Zenon
       DEF TypeOK, WorkerPc, ClientPc, StopperPc, StartedAccounted, Carries, CvWaits, ExitedQuiet
  <2>7. JoinedExited'
    BY Zenon DEF TypeOK, WorkerPc, ClientPc, StopperPc, JoinedExited, CvWaits
  <2>8. Carries'
    BY Zenon DEF TypeOK, WorkerPc, ClientPc, StopperPc, Carries, CvWaits
  <2> QED
    BY <2>1, <2>2, <2>3, <2>4, <2>5, <2>6, <2>7, <2>8, Zenon
<1>5. ASSUME NEW w \in Workers, WorkerRun(w) PROVE IInv'
  <2> USE <1>5 DEF WorkerRun
  <2>1. TypeOK'
    BY DEF TypeOK, WorkerPc, ClientPc, StopperPc, Carries, CvWaits
  <2>2. MutexHeld'
    BY Zenon DEF TypeOK, WorkerPc, ClientPc, StopperPc, MutexHeld, CvWaits
  <2>3. CvWaits'
    BY Zenon DEF TypeOK, WorkerPc, ClientPc, StopperPc, CvWaits
  <2>4. FifoNoLoss'
    BY Zenon DEF TypeOK, WorkerPc, ClientPc, StopperPc, FifoNoLoss
  <2>5. ExitedQuiet'
    BY Zenon DEF TypeOK, WorkerPc, ClientPc, StopperPc, ExitedQuiet, MutexHeld
  <2>6. StartedAccounted'
    BY Zenon
       DEF TypeOK, WorkerPc, ClientPc, StopperPc, StartedAccounted, Carries, CvWaits, ExitedQuiet
  <2>7. JoinedExited'
    BY Zenon DEF TypeOK, WorkerPc, ClientPc, StopperPc, JoinedExited, CvWaits
  <2>8. Carries'
    BY Zenon DEF TypeOK, WorkerPc, ClientPc, StopperPc, Carries, CvWaits
  <2> QED
    BY <2>1, <2>2, <2>3, <2>4, <2>5, <2>6, <2>7, <2>8, Zenon
<1>6. ASSUME NEW w \in Workers, SpuriousWakeup(w) PROVE IInv'
  <2> USE <1>6 DEF SpuriousWakeup
  <2>1. TypeOK'
    BY Zenon DEF TypeOK, WorkerPc, ClientPc, StopperPc, Carries, CvWaits
  <2>2. MutexHeld'
    BY Zenon DEF TypeOK, WorkerPc, ClientPc, StopperPc, MutexHeld, CvWaits
  <2>3. CvWaits'
    BY Zenon DEF TypeOK, WorkerPc, ClientPc, StopperPc, CvWaits
  <2>4. FifoNoLoss'
    BY Zenon DEF TypeOK, WorkerPc, ClientPc, StopperPc, FifoNoLoss
  <2>5. ExitedQuiet'
    BY Zenon DEF TypeOK, WorkerPc, ClientPc, StopperPc, ExitedQuiet, MutexHeld
  <2>6. StartedAccounted'
    BY Zenon
       DEF TypeOK, WorkerPc, ClientPc, StopperPc, StartedAccounted, Carries, CvWaits, ExitedQuiet
  <2>7. JoinedExited'
    BY Zenon DEF TypeOK, WorkerPc, ClientPc, StopperPc, JoinedExited, CvWaits
  <2>8. Carries'
    BY Zenon DEF TypeOK, WorkerPc, ClientPc, StopperPc, Carries, CvWaits
  <2> QED
    BY <2>1, <2>2, <2>3, <2>4, <2>5, <2>6, <2>7, <2>8, Zenon
<1>7. ASSUME NEW c \in Clients, Admit(c) PROVE IInv'
  <2> USE <1>7 DEF Admit
  <2>1. TypeOK'
    BY Zenon DEF TypeOK, WorkerPc, ClientPc, StopperPc, Carries, CvWaits
  <2>2. MutexHeld'
    BY Zenon DEF TypeOK, WorkerPc, ClientPc, StopperPc, MutexHeld, CvWaits
  <2>3. CvWaits'
    BY Zenon DEF TypeOK, WorkerPc, ClientPc, StopperPc, CvWaits
  <2>4. FifoNoLoss'
    BY Zenon DEF TypeOK, WorkerPc, ClientPc, StopperPc, FifoNoLoss
  <2>5. ExitedQuiet'
    BY Zenon DEF TypeOK, WorkerPc, ClientPc, StopperPc, ExitedQuiet, MutexHeld
  <2>6. StartedAccounted'
    BY Zenon
       DEF TypeOK, WorkerPc, ClientPc, StopperPc, StartedAccounted, Carries, CvWaits, ExitedQuiet
  <2>7. JoinedExited'
    BY Zenon DEF TypeOK, WorkerPc, ClientPc, StopperPc, JoinedExited, CvWaits
  <2>8. Carries'
    BY Zenon DEF TypeOK, WorkerPc, ClientPc, StopperPc, Carries, CvWaits
  <2> QED
    BY <2>1, <2>2, <2>3, <2>4, <2>5, <2>6, <2>7, <2>8, Zenon
<1>8. ASSUME NEW c \in Clients, Refuse(c) PROVE IInv'
  <2> USE <1>8 DEF Refuse
  <2>1. TypeOK'
    <3>1. arg[c] \in Tasks
      BY Zenon DEF TypeOK, Carries, ClientPc
    <3>2. refused' \in [thrown : SUBSET Tasks, dropped : SUBSET Tasks]
      BY <3>1, Zenon DEF TypeOK
    <3>3. /\ pc' \in [Threads -> WorkerPc \cup ClientPc \cup StopperPc]
          /\ \A w \in Workers : pc'[w] \in WorkerPc
          /\ \A d \in Clients : pc'[d] \in ClientPc
          /\ \A s \in Stoppers : pc'[s] \in StopperPc
          /\ arg' \in [Threads -> Tasks \cup {None}]
      BY Zenon DEF TypeOK, WorkerPc, ClientPc, StopperPc
    <3>4. UNCHANGED <<running_, tasks_, mutex_, cv_, accepted, started, finished>>
      BY Zenon
    <3> HIDE <1>8 DEF Refuse
    <3> QED
      BY <3>2, <3>3, <3>4, Zenon DEF TypeOK
  <2>2. MutexHeld'
    BY Zenon DEF TypeOK, WorkerPc, ClientPc, StopperPc, MutexHeld, CvWaits
  <2>3. CvWaits'
    BY Zenon DEF TypeOK, WorkerPc, ClientPc, StopperPc, CvWaits
  <2>4. FifoNoLoss'
    BY Zenon DEF TypeOK, WorkerPc, ClientPc, StopperPc, FifoNoLoss
  <2>5. ExitedQuiet'
    BY Zenon DEF TypeOK, WorkerPc, ClientPc, StopperPc, ExitedQuiet, MutexHeld
  <2>6. StartedAccounted'
    BY Zenon
       DEF TypeOK, WorkerPc, ClientPc, StopperPc, StartedAccounted, Carries, CvWaits, ExitedQuiet
  <2>7. JoinedExited'
    BY Zenon DEF TypeOK, WorkerPc, ClientPc, StopperPc, JoinedExited, CvWaits
  <2>8. Carries'
    BY Zenon DEF TypeOK, WorkerPc, ClientPc, StopperPc, Carries, CvWaits
  <2> QED
    BY <2>1, <2>2, <2>3, <2>4, <2>5, <2>6, <2>7, <2>8, Zenon
<1>9. ASSUME NEW c \in Clients, Push(c) PROVE IInv'
  <2> USE <1>9 DEF Push
  <2>1. TypeOK'
    BY DEF TypeOK, WorkerPc, ClientPc, StopperPc, Carries, CvWaits
  <2>2. MutexHeld'
    BY DEF TypeOK, WorkerPc, ClientPc, StopperPc, MutexHeld, CvWaits
  <2>3. CvWaits'
    BY Zenon DEF TypeOK, WorkerPc, ClientPc, StopperPc, CvWaits
  <2>4. FifoNoLoss'
    <3>1. arg[c] \in Tasks
      BY Zenon DEF TypeOK, Carries, ClientPc
    <3>2. started \in Seq(Tasks) /\ tasks_ \in Seq(Tasks) /\ accepted = started \o tasks_
      BY Zenon DEF TypeOK, FifoNoLoss
    <3>3. /\ tasks_' = Append(tasks_, arg[c]) /\ accepted' = Append(accepted, arg[c])
          /\ started' = started
      BY Zenon
    <3>4. Append(started \o tasks_, arg[c]) = started \o Append(tasks_, arg[c])
      BY <3>1, <3>2, ConcatAppend, Zenon
    <3> QED
      BY <3>2, <3>3, <3>4, Zenon DEF FifoNoLoss
  <2>5. ExitedQuiet'
    BY Zenon DEF TypeOK, WorkerPc, ClientPc, StopperPc, ExitedQuiet, MutexHeld
  <2>6. StartedAccounted'
    BY Zenon
       DEF TypeOK, WorkerPc, ClientPc, StopperPc, StartedAccounted, Carries, CvWaits, ExitedQuiet
  <2>7. JoinedExited'
    BY Zenon DEF TypeOK, WorkerPc, ClientPc, StopperPc, JoinedExited, CvWaits
  <2>8. Carries'
    BY Zenon DEF TypeOK, WorkerPc, ClientPc, StopperPc, Carries, CvWaits
  <2> QED
    BY <2>1, <2>2, <2>3, <2>4, <2>5, <2>6, <2>7, <2>8, Zenon
<1>10. ASSUME NEW c \in Clients, NotifyOne(c) PROVE IInv'
  <2> USE <1>10 DEF NotifyOne
  <2>1. TypeOK'
    BY DEF TypeOK, WorkerPc, ClientPc, StopperPc, Carries, CvWaits
  <2>2. MutexHeld'
    BY DEF TypeOK, WorkerPc, ClientPc, StopperPc, MutexHeld, CvWaits
  <2>3. CvWaits'
    BY DEF TypeOK, WorkerPc, ClientPc, StopperPc, CvWaits
  <2>4. FifoNoLoss'
    BY Zenon DEF TypeOK, WorkerPc, ClientPc, StopperPc, FifoNoLoss
  <2>5. ExitedQuiet'
    BY SMTT(30) DEF TypeOK, WorkerPc, ClientPc, StopperPc, ExitedQuiet, MutexHeld
  <2>6. StartedAccounted'
    BY DEF TypeOK, WorkerPc, ClientPc, StopperPc, StartedAccounted, Carries, CvWaits, ExitedQuiet
  <2>7. JoinedExited'
    BY ZenonT(30) DEF TypeOK, WorkerPc, ClientPc, StopperPc, JoinedExited, CvWaits
  <2>8. Carries'
    BY DEF TypeOK, WorkerPc, ClientPc, StopperPc, Carries, CvWaits
  <2> QED
    BY <2>1, <2>2, <2>3, <2>4, <2>5, <2>6, <2>7, <2>8, Zenon
<1>11. ASSUME NEW s \in Stoppers, StopExchange(s) PROVE IInv'
  <2> USE <1>11 DEF StopExchange
  <2>1. TypeOK'
    <3>1. /\ pc' \in [Threads -> WorkerPc \cup ClientPc \cup StopperPc]
          /\ \A w \in Workers : pc'[w] \in WorkerPc
          /\ \A c \in Clients : pc'[c] \in ClientPc
          /\ \A r \in Stoppers : pc'[r] \in StopperPc
      BY DEF TypeOK, WorkerPc, ClientPc, StopperPc
    <3>2. running_' \in BOOLEAN /\ UNCHANGED <<tasks_, mutex_, cv_, arg, accepted, started, finished, refused>>
      BY Zenon
    <3> HIDE <1>11 DEF StopExchange
    <3> QED
      BY <3>1, <3>2, Zenon DEF TypeOK
  <2>2. MutexHeld'
    BY Zenon DEF TypeOK, WorkerPc, ClientPc, StopperPc, MutexHeld, CvWaits
  <2>3. CvWaits'
    BY Zenon DEF TypeOK, WorkerPc, ClientPc, StopperPc, CvWaits
  <2>4. FifoNoLoss'
    BY Zenon DEF TypeOK, WorkerPc, ClientPc, StopperPc, FifoNoLoss
  <2>5. ExitedQuiet'
    BY Zenon DEF TypeOK, WorkerPc, ClientPc, StopperPc, ExitedQuiet, MutexHeld
  <2>6. StartedAccounted'
    BY Zenon
       DEF TypeOK, WorkerPc, ClientPc, StopperPc, StartedAccounted, Carries, CvWaits, ExitedQuiet
  <2>7. JoinedExited'
    BY Zenon DEF TypeOK, WorkerPc, ClientPc, StopperPc, JoinedExited, CvWaits
  <2>8. Carries'
    BY Zenon DEF TypeOK, WorkerPc, ClientPc, StopperPc, Carries, CvWaits
  <2> QED
    BY <2>1, <2>2, <2>3, <2>4, <2>5, <2>6, <2>7, <2>8, Zenon
<1>12. ASSUME NEW s \in Stoppers, StopNotifyAll(s) PROVE IInv'
  <2> USE <1>12 DEF StopNotifyAll
  <2>1. TypeOK'
    BY DEF TypeOK, WorkerPc, ClientPc, StopperPc, Carries, CvWaits
  <2>2. MutexHeld'
    BY Zenon DEF TypeOK, WorkerPc, ClientPc, StopperPc, MutexHeld, CvWaits
  <2>3. CvWaits'
    BY Zenon DEF TypeOK, WorkerPc, ClientPc, StopperPc, CvWaits
  <2>4. FifoNoLoss'
    BY Zenon DEF TypeOK, WorkerPc, ClientPc, StopperPc, FifoNoLoss
  <2>5. ExitedQuiet'
    BY Zenon DEF TypeOK, WorkerPc, ClientPc, StopperPc, ExitedQuiet, MutexHeld
  <2>6. StartedAccounted'
    BY Zenon
       DEF TypeOK, WorkerPc, ClientPc, StopperPc, StartedAccounted, Carries, CvWaits, ExitedQuiet
  <2>7. JoinedExited'
    BY Zenon DEF TypeOK, WorkerPc, ClientPc, StopperPc, JoinedExited, CvWaits
  <2>8. Carries'
    BY Zenon DEF TypeOK, WorkerPc, ClientPc, StopperPc, Carries, CvWaits
  <2> QED
    BY <2>1, <2>2, <2>3, <2>4, <2>5, <2>6, <2>7, <2>8, Zenon
<1>13. ASSUME NEW s \in Stoppers, StopJoin(s) PROVE IInv'
  <2> USE <1>13 DEF StopJoin
  <2>1. TypeOK'
    BY Zenon DEF TypeOK, WorkerPc, ClientPc, StopperPc, Carries, CvWaits
  <2>2. MutexHeld'
    BY Zenon DEF TypeOK, WorkerPc, ClientPc, StopperPc, MutexHeld, CvWaits
  <2>3. CvWaits'
    BY Zenon DEF TypeOK, WorkerPc, ClientPc, StopperPc, CvWaits
  <2>4. FifoNoLoss'
    BY Zenon DEF TypeOK, WorkerPc, ClientPc, StopperPc, FifoNoLoss
  <2>5. ExitedQuiet'
    BY Zenon DEF TypeOK, WorkerPc, ClientPc, StopperPc, ExitedQuiet, MutexHeld
  <2>6. StartedAccounted'
    BY Zenon
       DEF TypeOK, WorkerPc, ClientPc, StopperPc, StartedAccounted, Carries, CvWaits, ExitedQuiet
  <2>7. JoinedExited'
    BY Zenon DEF TypeOK, WorkerPc, ClientPc, StopperPc, JoinedExited, CvWaits
  <2>8. Carries'
    BY Zenon DEF TypeOK, WorkerPc, ClientPc, StopperPc, Carries, CvWaits
  <2> QED
    BY <2>1, <2>2, <2>3, <2>4, <2>5, <2>6, <2>7, <2>8, Zenon
<1>14. ASSUME NEW c \in Clients, NEW t \in Tasks, NEW m \in {"post", "dispatch"}, Call(c, t, m) PROVE IInv'
  <2> USE <1>14 DEF Call
  <2>1. TypeOK'
    BY DEF TypeOK, WorkerPc, ClientPc, StopperPc, Carries, CvWaits
  <2>2. MutexHeld'
    BY Zenon DEF TypeOK, WorkerPc, ClientPc, StopperPc, MutexHeld, CvWaits
  <2>3. CvWaits'
    BY Zenon DEF TypeOK, WorkerPc, ClientPc, StopperPc, CvWaits
  <2>4. FifoNoLoss'
    BY Zenon DEF TypeOK, WorkerPc, ClientPc, StopperPc, FifoNoLoss
  <2>5. ExitedQuiet'
    BY Zenon DEF TypeOK, WorkerPc, ClientPc, StopperPc, ExitedQuiet, MutexHeld
  <2>6. StartedAccounted'
    BY DEF TypeOK, WorkerPc, ClientPc, StopperPc, StartedAccounted, Carries, CvWaits, ExitedQuiet
  <2>7. JoinedExited'
    BY Zenon DEF TypeOK, WorkerPc, ClientPc, StopperPc, JoinedExited, CvWaits
  <2>8. Carries'
    BY Zenon DEF TypeOK, WorkerPc, ClientPc, StopperPc, Carries, CvWaits
  <2> QED
    BY <2>1, <2>2, <2>3, <2>4, <2>5, <2>6, <2>7, <2>8, Zenon
<1>15. ASSUME UNCHANGED vars PROVE IInv'
  BY <1>15, Zenon
     DEF vars, TypeOK, WorkerPc, ClientPc, StopperPc, MutexHeld, CvWaits, FifoNoLoss,
         ExitedQuiet, StartedAccounted, JoinedExited, Carries
<1> QED
  BY <1>1, <1>2, <1>3, <1>4, <1>5, <1>6, <1>7, <1>8, <1>9, <1>10, <1>11, <1>12, <1>13, <1>14, <1>15, Zenon DEF Next, WorkerStep, ClientStep, StopperStep

\* The strengthening holds throughout every behaviour.
THEOREM PoolInvariant == Spec => []IInv
  BY InitIInv, NextIInv, PTL DEF Spec

\* Type correctness of the pool's state.
THEOREM TypeCorrect == Spec => []TypeOK
<1>1. IInv => TypeOK
  BY Zenon DEF IInv
<1> QED
  BY <1>1, PoolInvariant, PTL

\* post, dispatch and the worker loop neither lose, duplicate nor reorder tasks.
THEOREM QueueIsFifo == Spec => []FifoNoLoss
<1>1. IInv => FifoNoLoss
  BY Zenon DEF IInv
<1> QED
  BY <1>1, PoolInvariant, PTL

\* No task is pushed after a worker has left, although stop() clears running_
\* without the mutex.
THEOREM NothingStranded == Spec => []ExitedQuiet
<1>1. IInv => ExitedQuiet
  BY Zenon DEF IInv
<1> QED
  BY <1>1, PoolInvariant, PTL

\* A stop() that has joined the workers leaves no accepted task unrun.
THEOREM StopRunsEverything == Spec => []StopDrains
<1>1. IInv => StopDrains
  <2> SUFFICES ASSUME IInv, NEW s \in Stoppers, pc[s] = "joined"
               PROVE  Elements(accepted) = finished
    BY Zenon DEF StopDrains
  <2>1. \A w \in Workers : pc[w] = "exited"
    BY Zenon DEF IInv, JoinedExited
  <2>2. tasks_ = <<>>
    BY <2>1, ThreadsDisjoint, Zenon DEF IInv, ExitedQuiet
  <2>3. accepted = started
    BY <2>2 DEF IInv, TypeOK, FifoNoLoss
  <2>4. \A t \in Tasks : t \in Elements(started) <=> t \in finished
    BY <2>1, Zenon DEF IInv, StartedAccounted
  <2>5. Elements(started) \subseteq Tasks
    BY DEF IInv, TypeOK, Elements
  <2>6. finished \subseteq Tasks
    BY Zenon DEF IInv, TypeOK
  <2> QED
    BY <2>3, <2>4, <2>5, <2>6, Zenon
<1> QED
  BY <1>1, PoolInvariant, PTL
=============================================================================

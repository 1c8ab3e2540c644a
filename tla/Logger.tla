------------------------------- MODULE Logger -------------------------------
(***************************************************************************)
(* The logger (src/src/log/Logger.cpp) and its asynchronous queue          *)
(* (src/src/log/AsyncQueue.h): threads that dispatch records, threads that *)
(* configure, flush and shut down, and the queue's worker.                 *)
(*                                                                         *)
(* Records are numbered in the order the logger accepts them.  A sink that *)
(* stays attached stands for the destinations; each change of the sink     *)
(* list starts a new era.  AsyncQueue::mutex_ is only held for the length  *)
(* of a step; g_state_mutex is held across steps and is a variable.        *)
(***************************************************************************)
EXTENDS Integers, Sequences, TLAPS

CONSTANTS
    Producers,      \* threads that call dispatch
    Admins,         \* threads that call init, set_sinks, flush, shutdown
    MaxRecords,     \* bound: records dispatched
    MaxEras,        \* bound: changes of the sink list
    MaxQueueSize,   \* max_queue_size_
    Errors          \* the records of level Error and above

None == "none"

ASSUME LoggerAssumption ==
    /\ None \notin Producers \cup Admins
    /\ MaxRecords \in Nat /\ MaxEras \in Nat /\ MaxQueueSize \in Nat
    /\ Errors \subseteq 1 .. MaxRecords

VARIABLES
    g_state_mutex, g_async_queue, g_sinks,
    running_, flush_requested_, incoming_, sinks_,
    worker, local_batch, local_sinks, was_flush_requested,
    pc,         \* thread -> where it is
    arg,        \* thread -> the record it writes
    signalled,  \* cv_flush_done_ was notified with the predicate true
    count, eraOf,   \* records accepted, and the era each was dispatched in
    written, unflushed, dropped,
    owed        \* history: what the last flush() and stop() to return promised

queue == <<g_async_queue, running_, flush_requested_, incoming_, sinks_>>
work == <<worker, local_batch, local_sinks, was_flush_requested>>
records == <<count, eraOf>>
output == <<written, unflushed>>
vars == <<g_state_mutex, g_sinks, queue, work, pc, arg, signalled, records, output, dropped, owed>>

-----------------------------------------------------------------------------
Ids == 1 .. MaxRecords
Eras == 0 .. MaxEras
Threads == Producers \cup Admins
Elements(seq) == {seq[i] : i \in DOMAIN seq}

TypeOK ==
    /\ g_state_mutex \in Threads \cup {None}
    /\ g_async_queue \in BOOLEAN /\ g_sinks \in Eras
    /\ running_ \in BOOLEAN /\ flush_requested_ \in BOOLEAN
    /\ incoming_ \in Seq(Ids) /\ local_batch \in Seq(Ids)
    /\ sinks_ \in Eras /\ local_sinks \in Eras
    /\ worker \in {"none", "wait", "write", "notify"}
    /\ was_flush_requested \in BOOLEAN
    /\ pc \in [Threads -> {"idle", "sync", "flushing", "joining"}]
    /\ arg \in [Threads -> 0 .. MaxRecords]
    /\ signalled \in BOOLEAN
    /\ count \in 0 .. MaxRecords /\ eraOf \in [Ids -> Eras]
    /\ written \in Seq(Ids) /\ unflushed \subseteq Ids /\ dropped \subseteq Ids
    /\ owed \in [flush : SUBSET Ids, stop : SUBSET Ids]
    /\ g_async_queue \/ worker = "none"

Init ==
    /\ g_state_mutex = None /\ g_async_queue = FALSE /\ g_sinks = 0
    /\ running_ = FALSE /\ flush_requested_ = FALSE /\ incoming_ = <<>> /\ sinks_ = 0
    /\ worker = "none" /\ local_batch = <<>> /\ local_sinks = 0 /\ was_flush_requested = FALSE
    /\ pc = [t \in Threads |-> "idle"] /\ arg = [t \in Threads |-> 0]
    /\ signalled = FALSE
    /\ count = 0 /\ eraOf = [r \in Ids |-> 0]
    /\ written = <<>> /\ unflushed = {} /\ dropped = {}
    /\ owed = [flush |-> {}, stop |-> {}]

(***************************************************************************)
(* dispatch.                                                               *)
(***************************************************************************)
\* Mutant: overflow is tested after the record was added.
Overflowing_Late == Len(incoming_) > MaxQueueSize

Overflowing == Len(incoming_) >= MaxQueueSize

\* AsyncQueue::push drops the oldest quarter of a full queue.
Push(r) ==
    LET kept == IF Overflowing THEN SubSeq(incoming_, (MaxQueueSize \div 4) + 1, Len(incoming_))
                               ELSE incoming_
    IN  /\ incoming_' = Append(kept, r)
        /\ dropped' = dropped \cup (Elements(incoming_) \ Elements(kept))

\* Mutant: dispatch does not take g_state_mutex.
MayDispatch_NoLock == TRUE

MayDispatch == g_state_mutex = None

\* Under g_state_mutex: push to the queue, or take a snapshot of the sinks
\* and write outside the lock.
Dispatch(p) ==
    /\ pc[p] = "idle" /\ count < MaxRecords
    /\ MayDispatch
    /\ count' = count + 1
    /\ eraOf' = [eraOf EXCEPT ![count + 1] = g_sinks]
    /\ IF g_async_queue
       THEN Push(count + 1) /\ UNCHANGED <<pc, arg>>
       ELSE /\ pc' = [pc EXCEPT ![p] = "sync"] /\ arg' = [arg EXCEPT ![p] = count + 1]
            /\ UNCHANGED <<incoming_, dropped>>
    /\ UNCHANGED <<g_state_mutex, g_async_queue, g_sinks, running_, flush_requested_, sinks_,
                   work, signalled, output, owed>>

WriteSync(p) ==
    /\ pc[p] = "sync"
    /\ written' = Append(written, arg[p])
    /\ unflushed' = IF arg[p] \in Errors THEN {} ELSE unflushed \cup {arg[p]}
    /\ pc' = [pc EXCEPT ![p] = "idle"] /\ arg' = [arg EXCEPT ![p] = 0]
    /\ UNCHANGED <<g_state_mutex, g_sinks, queue, work, signalled, records, dropped, owed>>

(***************************************************************************)
(* init, set_sinks (add_sink, clear_sinks), flush, shutdown.               *)
(***************************************************************************)
Free(a) == pc[a] = "idle" /\ g_state_mutex = None

InitAsync(a) ==
    /\ Free(a)
    /\ IF g_async_queue
       THEN sinks_' = g_sinks /\ UNCHANGED <<g_async_queue, running_, flush_requested_, incoming_, worker>>
       ELSE /\ g_async_queue' = TRUE /\ running_' = TRUE /\ flush_requested_' = FALSE
            /\ incoming_' = <<>> /\ sinks_' = g_sinks /\ worker' = "wait"
    /\ UNCHANGED <<g_state_mutex, g_sinks, local_batch, local_sinks, was_flush_requested, pc, arg,
                   signalled, records, output, dropped, owed>>

SetSinks(a) ==
    /\ Free(a) /\ g_sinks < MaxEras
    /\ g_sinks' = g_sinks + 1
    /\ sinks_' = IF g_async_queue THEN g_sinks + 1 ELSE sinks_
    /\ UNCHANGED <<g_state_mutex, g_async_queue, running_, flush_requested_, incoming_, work, pc, arg,
                   signalled, records, output, dropped, owed>>

\* Records whose dispatch() has returned.
Dispatched == (1 .. count) \ {arg[p] : p \in {q \in Producers : pc[q] = "sync"}}

FlushSinks == unflushed' = {}

Flush(a) ==
    /\ Free(a)
    /\ IF g_async_queue
       THEN /\ g_state_mutex' = a /\ pc' = [pc EXCEPT ![a] = "flushing"]
            /\ flush_requested_' = TRUE /\ signalled' = FALSE
            /\ UNCHANGED <<unflushed, owed>>
       ELSE /\ FlushSinks /\ owed' = [owed EXCEPT !.flush = Dispatched]
            /\ UNCHANGED <<g_state_mutex, pc, flush_requested_, signalled>>
    /\ UNCHANGED <<g_async_queue, g_sinks, running_, incoming_, sinks_, work, arg, records, written, dropped>>

\* cv_flush_done_.wait returns with its predicate true: it was notified, or
\* woke spuriously and then promises nothing.
FlushReturn(a) ==
    /\ pc[a] = "flushing"
    /\ incoming_ = <<>> /\ ~flush_requested_
    /\ FlushSinks
    /\ owed' = IF signalled THEN [owed EXCEPT !.flush = Dispatched] ELSE owed
    /\ g_state_mutex' = None /\ pc' = [pc EXCEPT ![a] = "idle"] /\ signalled' = FALSE
    /\ UNCHANGED <<g_sinks, queue, work, arg, records, written, dropped>>

\* shutdown(), or init() with async = false: AsyncQueue::stop.
Shutdown(a) ==
    /\ Free(a)
    /\ IF g_async_queue
       THEN /\ running_' = FALSE
            /\ g_state_mutex' = a /\ pc' = [pc EXCEPT ![a] = "joining"]
            /\ UNCHANGED <<unflushed, owed>>
       ELSE /\ FlushSinks /\ owed' = [owed EXCEPT !.stop = Dispatched]
            /\ UNCHANGED <<running_, g_state_mutex, pc>>
    /\ UNCHANGED <<g_async_queue, g_sinks, flush_requested_, incoming_, sinks_, work, arg, signalled,
                   records, written, dropped>>

\* Mutant: the worker is not joined.
ShutdownReturn_NoJoin(a) ==
    /\ pc[a] = "joining"
    /\ FlushSinks
    /\ g_async_queue' = FALSE
    /\ owed' = [owed EXCEPT !.stop = Dispatched]
    /\ g_state_mutex' = None /\ pc' = [pc EXCEPT ![a] = "idle"]
    /\ UNCHANGED <<g_sinks, running_, flush_requested_, incoming_, sinks_, work, arg, signalled,
                   records, written, dropped>>
ShutdownReturn(a) ==
    /\ pc[a] = "joining" /\ worker = "none"
    /\ FlushSinks
    /\ g_async_queue' = FALSE
    /\ owed' = [owed EXCEPT !.stop = Dispatched]
    /\ g_state_mutex' = None /\ pc' = [pc EXCEPT ![a] = "idle"]
    /\ UNCHANGED <<g_sinks, running_, flush_requested_, incoming_, sinks_, work, arg, signalled,
                   records, written, dropped>>
(***************************************************************************)
(* worker_loop.                                                            *)
(***************************************************************************)
Awake == ~running_ \/ incoming_ # <<>> \/ flush_requested_

\* Mutant: the worker leaves as soon as running_ is cleared.
Quits_Early == ~running_

Quits == ~running_ /\ incoming_ = <<>>

WorkerExit ==
    /\ worker = "wait" /\ Quits
    /\ worker' = "none"
    /\ UNCHANGED <<g_state_mutex, g_sinks, queue, local_batch, local_sinks, was_flush_requested,
                   pc, arg, signalled, records, output, dropped, owed>>

\* Mutant: the sinks are the ones of the worker's previous batch.
Snapshot_Stale == local_sinks

Snapshot == sinks_

\* Mutant: the batch is copied, not swapped out.
WorkerTake_Copy ==
    /\ worker = "wait" /\ Awake /\ ~Quits
    /\ worker' = "write"
    /\ local_batch' = incoming_ /\ UNCHANGED incoming_
    /\ local_sinks' = Snapshot
    /\ was_flush_requested' = flush_requested_ /\ flush_requested_' = FALSE
    /\ UNCHANGED <<g_state_mutex, g_async_queue, g_sinks, running_, sinks_, pc, arg, signalled,
                   records, output, dropped, owed>>

\* Mutant: a flush is acknowledged when the batch is taken.
WorkerTake_Acknowledge ==
    /\ worker = "wait" /\ Awake /\ ~Quits
    /\ worker' = "write"
    /\ local_batch' = incoming_ /\ incoming_' = <<>>
    /\ local_sinks' = Snapshot
    /\ was_flush_requested' = flush_requested_ /\ flush_requested_' = FALSE
    /\ signalled' = flush_requested_
    /\ UNCHANGED <<g_state_mutex, g_async_queue, g_sinks, running_, sinks_, pc, arg,
                   records, output, dropped, owed>>

\* wait_for ends, with or without the timeout, and the batch is swapped out.
WorkerTake ==
    /\ worker = "wait" /\ Awake /\ ~Quits
    /\ worker' = "write"
    /\ local_batch' = incoming_ /\ incoming_' = <<>>
    /\ local_sinks' = Snapshot
    /\ was_flush_requested' = flush_requested_ /\ flush_requested_' = FALSE
    /\ UNCHANGED <<g_state_mutex, g_async_queue, g_sinks, running_, sinks_, pc, arg, signalled,
                   records, output, dropped, owed>>

WorkerWrite ==
    /\ worker = "write" /\ local_batch # <<>>
    /\ written' = Append(written, Head(local_batch))
    /\ unflushed' = unflushed \cup {Head(local_batch)}
    /\ local_batch' = Tail(local_batch)
    /\ UNCHANGED <<g_state_mutex, g_sinks, queue, worker, local_sinks, was_flush_requested, pc, arg, signalled,
                   records, dropped, owed>>

\* has_error is about this batch: its errors are the unflushed ones.
NeedsFlush == was_flush_requested \/ unflushed \cap Errors # {}

WorkerFlush ==
    /\ worker = "write" /\ local_batch = <<>>
    /\ IF NeedsFlush THEN FlushSinks ELSE UNCHANGED unflushed
    /\ worker' = IF was_flush_requested THEN "notify" ELSE "wait"
    /\ UNCHANGED <<g_state_mutex, g_sinks, queue, local_batch, local_sinks, was_flush_requested,
                   pc, arg, signalled, records, written, dropped, owed>>

\* A flusher that is notified and finds its predicate false waits again.
WorkerNotify ==
    /\ worker = "notify"
    /\ signalled' = (incoming_ = <<>> /\ ~flush_requested_)
    /\ worker' = "wait"
    /\ UNCHANGED <<g_state_mutex, g_sinks, queue, local_batch, local_sinks, was_flush_requested,
                   pc, arg, records, output, dropped, owed>>

\* wait_for times out with nothing to do.
WorkerTimeout == worker = "wait" /\ ~Awake /\ UNCHANGED vars

Worker == WorkerExit \/ WorkerTake \/ WorkerWrite \/ WorkerFlush \/ WorkerNotify

Next ==
    \/ \E p \in Producers : Dispatch(p) \/ WriteSync(p)
    \/ \E a \in Admins :
          \/ InitAsync(a) \/ SetSinks(a) \/ Flush(a) \/ FlushReturn(a)
          \/ Shutdown(a) \/ ShutdownReturn(a)
    \/ Worker \/ WorkerTimeout

Spec == Init /\ [][Next]_vars

Woken(a) == signalled /\ FlushReturn(a)

\* Threads that hold a lock or run are scheduled; nobody is forced to log, and
\* spurious wakeups are not counted on.
FairSpec ==
    /\ Spec
    /\ WF_vars(Worker)
    /\ \A p \in Producers : WF_vars(WriteSync(p))
    /\ \A a \in Admins :
          WF_vars(Woken(a)) /\ WF_vars(ShutdownReturn(a))

-----------------------------------------------------------------------------
(***************************************************************************)
(* Properties.                                                             *)
(***************************************************************************)
Settled == (Elements(written) \ unflushed) \cup dropped

\* "Flushes all buffered log messages to their destinations." (Logger.h:76):
\* when flush() returns because the worker notified it, every record whose
\* dispatch() had returned is written and flushed, or an overflow dropped it.
\* "Flushes and shuts down background logging threads." (Logger.h:81): the
\* same for shutdown(), which joins a worker that may be writing.
CallsSettle == owed.flush \cup owed.stop \subseteq Settled

Distinct(seq) == \A i, j \in DOMAIN seq : seq[i] = seq[j] => i = j

\* Nothing is written twice, and every accepted record is written, dropped,
\* or still on its way: in a synchronous dispatch, the queue or the worker.
\* "Bounded queue prevents memory exhaustion" (docs/content/docs/services/
\* logging.mdx:96), of a max_queue_size that has a quarter to drop.  The
\* worker, which copies the sink list with the batch, never writes to a list
\* older than the one in force at the dispatch.
RecordsAccounted ==
    LET line == written \o local_batch \o incoming_ IN
    /\ TypeOK
    /\ Distinct(line)
    /\ 1 .. count = Elements(line) \cup dropped \cup ((1 .. count) \ Dispatched)
    /\ Elements(line) \cap dropped = {}
    /\ MaxQueueSize >= 4 => Len(incoming_) <= MaxQueueSize
    /\ \A i \in DOMAIN local_batch : local_sinks >= eraOf[local_batch[i]]

\* flush() returns: its request is not overtaken by records pushed meanwhile.
Flushing(a) == pc[a] = "flushing"
IdleAdmin(a) == pc[a] = "idle"
FlushReturns == \A a \in Admins : Flushing(a) ~> IdleAdmin(a)

-----------------------------------------------------------------------------
(***************************************************************************)
(* Proofs, for any threads, records, changes of the sinks and queue size.  *)
(*                                                                         *)
(* The invariant adds who holds g_state_mutex and in which mode, where the *)
(* worker can be with which batch, that a record is in one place only, and *)
(* that a notification a flusher has not read yet is still true.           *)
(***************************************************************************)
\* flush() and shutdown() keep g_state_mutex, and the queue exists meanwhile;
\* a queue that was told to stop is being joined.
Locked ==
    /\ \A t \in Threads : pc[t] \in {"flushing", "joining"} => g_state_mutex = t /\ g_async_queue
    /\ g_async_queue /\ ~running_ =>
          g_state_mutex \in Threads /\ pc[g_state_mutex] = "joining"
    /\ g_async_queue /\ worker = "none" => ~running_

\* Only a worker that writes has a batch, and one that left saw an empty queue.
Batched ==
    /\ worker # "write" => local_batch = <<>>
    /\ worker = "none" => incoming_ = <<>>

Syncing == {p \in Producers : pc[p] = "sync"}

\* A record is in one place: written, in the batch, in the queue, dropped, or in
\* a synchronous dispatch.
OnePlace ==
    /\ Distinct(written) /\ Distinct(local_batch) /\ Distinct(incoming_)
    /\ Elements(written) \cap Elements(local_batch) = {}
    /\ Elements(written) \cap Elements(incoming_) = {}
    /\ Elements(local_batch) \cap Elements(incoming_) = {}
    /\ dropped \cap (Elements(written) \cup Elements(local_batch) \cup Elements(incoming_)) = {}
    /\ \A p \in Syncing :
        /\ arg[p] \notin Elements(written) \cup Elements(local_batch) \cup Elements(incoming_)
        /\ arg[p] \notin dropped
        /\ \A q \in Syncing : q # p => arg[q] # arg[p]
    /\ 1 .. count = Elements(written) \cup Elements(local_batch) \cup Elements(incoming_)
                    \cup dropped \cup {arg[p] : p \in Syncing}

Bounded == MaxQueueSize >= 4 => Len(incoming_) <= MaxQueueSize

\* The queue has the current list of sinks; no record is younger than that list.
SinksFresh ==
    /\ g_async_queue => sinks_ = g_sinks
    /\ \A r \in 1 .. count : eraOf[r] <= g_sinks
    /\ \A r \in Elements(local_batch) : eraOf[r] <= local_sinks

\* While a flusher has a notification, nothing is queued.
Acknowledged ==
    signalled /\ (\E t \in Threads : pc[t] = "flushing") =>
        incoming_ = <<>> /\ local_batch = <<>> /\ ~flush_requested_

IInv == /\ TypeOK /\ Locked /\ Batched /\ OnePlace /\ Bounded /\ SinksFresh /\ Acknowledged
        /\ CallsSettle

-----------------------------------------------------------------------------
\* Sequences.
LEMMA EmptyElements == Elements(<<>>) = {} /\ Distinct(<<>>)
BY DEF Elements, Distinct

LEMMA AppendElements ==
    ASSUME NEW s \in Seq(Ids), NEW e \in Ids
    PROVE  /\ Append(s, e) \in Seq(Ids) /\ Len(Append(s, e)) = Len(s) + 1
           /\ Elements(Append(s, e)) = Elements(s) \cup {e}
           /\ Distinct(s) /\ e \notin Elements(s) => Distinct(Append(s, e))
<1>1. /\ DOMAIN Append(s, e) = 1 .. Len(s) + 1 /\ DOMAIN s = 1 .. Len(s) /\ Len(s) \in Nat
      /\ \A i \in 1 .. Len(s) : Append(s, e)[i] = s[i]
      /\ Append(s, e)[Len(s) + 1] = e
  OBVIOUS
<1>2. Append(s, e) \in Seq(Ids) /\ Len(Append(s, e)) = Len(s) + 1
  OBVIOUS
<1>3. Elements(Append(s, e)) = Elements(s) \cup {e}
  BY <1>1 DEF Elements
<1>4. ASSUME Distinct(s), e \notin Elements(s)
      PROVE  Distinct(Append(s, e))
  BY <1>1, <1>4 DEF Distinct, Elements
<1> QED  BY <1>2, <1>3, <1>4, Zenon

LEMMA TailElements ==
    ASSUME NEW s \in Seq(Ids), s # <<>>, Distinct(s)
    PROVE  /\ Head(s) \in Elements(s) /\ Head(s) \in Ids /\ Tail(s) \in Seq(Ids)
           /\ Distinct(Tail(s)) /\ Elements(Tail(s)) = Elements(s) \ {Head(s)}
<1>1. /\ DOMAIN s = 1 .. Len(s) /\ Len(s) \in Nat \ {0} /\ Head(s) = s[1] /\ Head(s) \in Ids
      /\ Tail(s) \in Seq(Ids) /\ DOMAIN Tail(s) = 1 .. Len(s) - 1
      /\ \A i \in 1 .. Len(s) - 1 : Tail(s)[i] = s[i + 1]
  OBVIOUS
<1>2. Distinct(Tail(s))
  BY <1>1 DEF Distinct
<1>3. Head(s) \in Elements(s)
  BY <1>1 DEF Elements
<1>4. Elements(Tail(s)) \subseteq Elements(s) \ {Head(s)}
  BY <1>1 DEF Distinct, Elements
<1>5. ASSUME NEW e \in Elements(s) \ {Head(s)}
      PROVE  e \in Elements(Tail(s))
  <2>1. PICK i \in DOMAIN s : s[i] = e
    BY <1>5, Zenon DEF Elements
  <2>2. i # 1
    BY <2>1, <1>1, <1>5, Zenon
  <2>3. i - 1 \in DOMAIN Tail(s) /\ Tail(s)[i - 1] = e
    BY <2>1, <2>2, <1>1
  <2> QED  BY <2>3, Zenon DEF Elements
<1> QED  BY <1>1, <1>2, <1>3, <1>4, <1>5, Zenon

LEMMA SuffixElements ==
    ASSUME NEW s \in Seq(Ids), NEW n \in 0 .. Len(s), Distinct(s)
    PROVE  LET rest == SubSeq(s, n + 1, Len(s)) IN
           /\ rest \in Seq(Ids) /\ Len(rest) = Len(s) - n
           /\ Distinct(rest) /\ Elements(rest) \subseteq Elements(s)
<1> DEFINE rest == SubSeq(s, n + 1, Len(s))
<1>1. /\ DOMAIN s = 1 .. Len(s) /\ Len(s) \in Nat /\ rest \in Seq(Ids) /\ Len(rest) = Len(s) - n
      /\ DOMAIN rest = 1 .. Len(s) - n
      /\ \A i \in 1 .. Len(s) - n : rest[i] = s[i + n]
  OBVIOUS
<1> HIDE DEF rest
<1>2. Distinct(rest)
  <2> SUFFICES ASSUME NEW i \in DOMAIN rest, NEW j \in DOMAIN rest, rest[i] = rest[j]
               PROVE  i = j
    BY Zenon DEF Distinct
  <2>1. i + n \in DOMAIN s /\ j + n \in DOMAIN s /\ s[i + n] = s[j + n]
    BY <1>1
  <2>2. i + n = j + n
    BY <2>1, Zenon DEF Distinct
  <2> QED  BY <1>1, <2>2
<1>3. Elements(rest) \subseteq Elements(s)
  BY <1>1 DEF Elements
<1> QED  BY <1>1, <1>2, <1>3, Zenon DEF rest

LEMMA JoinedElements ==
    ASSUME NEW a \in Seq(Ids), NEW b \in Seq(Ids)
    PROVE  /\ a \o b \in Seq(Ids)
           /\ Elements(a \o b) = Elements(a) \cup Elements(b)
           /\ Distinct(a) /\ Distinct(b) /\ Elements(a) \cap Elements(b) = {} => Distinct(a \o b)
<1>1. /\ DOMAIN (a \o b) = 1 .. Len(a) + Len(b) /\ a \o b \in Seq(Ids)
      /\ DOMAIN a = 1 .. Len(a) /\ DOMAIN b = 1 .. Len(b) /\ Len(a) \in Nat /\ Len(b) \in Nat
      /\ \A i \in 1 .. Len(a) + Len(b) : (a \o b)[i] = IF i <= Len(a) THEN a[i] ELSE b[i - Len(a)]
  OBVIOUS
<1>2. Elements(a \o b) \subseteq Elements(a) \cup Elements(b)
  BY <1>1 DEF Elements
<1>3. Elements(a) \subseteq Elements(a \o b)
  BY <1>1 DEF Elements
<1>4. ASSUME NEW i \in DOMAIN b
      PROVE  b[i] \in Elements(a \o b)
  <2>1. i + Len(a) \in DOMAIN (a \o b) /\ (a \o b)[i + Len(a)] = b[i]
    BY <1>1, <1>4
  <2> QED  BY <2>1, Zenon DEF Elements
<1>5. ASSUME Distinct(a), Distinct(b), Elements(a) \cap Elements(b) = {}
      PROVE  Distinct(a \o b)
  <2> SUFFICES ASSUME NEW i \in DOMAIN (a \o b), NEW j \in DOMAIN (a \o b), (a \o b)[i] = (a \o b)[j]
               PROVE  i = j
    BY Zenon DEF Distinct
  <2>1. CASE i <= Len(a) /\ j <= Len(a)
    BY <2>1, <1>1, <1>5 DEF Distinct
  <2>2. CASE ~(i <= Len(a)) /\ ~(j <= Len(a))
    BY <2>2, <1>1, <1>5 DEF Distinct
  <2>3. CASE i <= Len(a) /\ ~(j <= Len(a))
    <3>1. i \in DOMAIN a /\ j - Len(a) \in DOMAIN b /\ a[i] = b[j - Len(a)]
      BY <2>3, <1>1
    <3> QED  BY <3>1, <1>5, Zenon DEF Elements
  <2>4. CASE ~(i <= Len(a)) /\ j <= Len(a)
    <3>1. j \in DOMAIN a /\ i - Len(a) \in DOMAIN b /\ a[j] = b[i - Len(a)]
      BY <2>4, <1>1
    <3> QED  BY <3>1, <1>5, Zenon DEF Elements
  <2> QED  BY <2>1, <2>2, <2>3, <2>4, Zenon
<1>6. Elements(b) \subseteq Elements(a \o b)
  BY <1>4, Zenon DEF Elements
<1> QED  BY <1>1, <1>2, <1>3, <1>5, <1>6, Zenon

-----------------------------------------------------------------------------
\* What push() leaves of the queue before it adds the record.
LEMMA Pushed ==
    ASSUME IInv, NEW r \in Ids, Push(r)
    PROVE  \E kept \in Seq(Ids) :
            /\ incoming_' = Append(kept, r)
            /\ dropped' = dropped \cup (Elements(incoming_) \ Elements(kept))
            /\ Distinct(kept) /\ Elements(kept) \subseteq Elements(incoming_)
            /\ MaxQueueSize >= 4 => Len(kept) + 1 <= MaxQueueSize
<1> DEFINE n == MaxQueueSize \div 4
           rest == SubSeq(incoming_, n + 1, Len(incoming_))
<1>1. /\ incoming_ \in Seq(Ids) /\ Distinct(incoming_) /\ Len(incoming_) \in Nat
      /\ MaxQueueSize \in Nat /\ (MaxQueueSize >= 4 => Len(incoming_) <= MaxQueueSize)
  <2>1. incoming_ \in Seq(Ids) /\ Distinct(incoming_)
    BY Zenon DEF IInv, TypeOK, OnePlace
  <2> QED  BY <2>1, LoggerAssumption DEF IInv, Bounded
<1>2. n \in Nat /\ n <= MaxQueueSize /\ (MaxQueueSize >= 4 => n >= 1)
  BY <1>1
<1>3. CASE Overflowing
  <2>1. incoming_' = Append(rest, r) /\ dropped' = dropped \cup (Elements(incoming_) \ Elements(rest))
    BY <1>3, Zenon DEF Push
  <2>2. n \in 0 .. Len(incoming_) /\ (MaxQueueSize >= 4 => Len(incoming_) - n + 1 <= MaxQueueSize)
    BY <1>1, <1>2, <1>3 DEF Overflowing
  <2>3. /\ rest \in Seq(Ids) /\ Len(rest) = Len(incoming_) - n
        /\ Distinct(rest) /\ Elements(rest) \subseteq Elements(incoming_)
    BY <1>1, <2>2, SuffixElements, Zenon
  <2> HIDE DEF n, rest
  <2> QED  BY <2>1, <2>2, <2>3, Zenon
<1>4. CASE ~Overflowing
  <2>1. /\ incoming_' = Append(incoming_, r)
        /\ dropped' = dropped \cup (Elements(incoming_) \ Elements(incoming_))
    BY <1>4, Zenon DEF Push
  <2>2. Len(incoming_) + 1 <= MaxQueueSize
    BY <1>1, <1>4 DEF Overflowing
  <2> QED  BY <2>1, <2>2, <1>1, Zenon
<1> QED  BY <1>3, <1>4, Zenon

\* The number of the record that dispatch() accepts.
LEMMA Numbered ==
    ASSUME IInv, count < MaxRecords
    PROVE  count \in Nat /\ count + 1 \in Ids /\ count + 1 \in 0 .. MaxRecords /\ count + 1 \notin 1 .. count
           /\ 1 .. count + 1 = (1 .. count) \cup {count + 1} /\ 1 .. count \subseteq Ids
<1>1. count \in 0 .. MaxRecords
  BY Zenon DEF IInv, TypeOK
<1> QED  BY <1>1, LoggerAssumption DEF Ids

LEMMA TypeStep ==
    ASSUME IInv, [Next]_vars
    PROVE  TypeOK'
<1>0. TypeOK
  BY Zenon DEF IInv
<1>1. ASSUME NEW p \in Producers, Dispatch(p)
      PROVE  TypeOK'
  <2>1. count + 1 \in Ids /\ count + 1 \in 0 .. MaxRecords
    BY <1>1, Numbered, Zenon DEF Dispatch
  <2>2. eraOf' \in [Ids -> Eras] /\ p \in Threads
    BY <1>0, <1>1, Zenon DEF Dispatch, TypeOK, Threads
  <2>3. CASE g_async_queue
    <3>1. incoming_' \in Seq(Ids) /\ dropped' \subseteq Ids
      <4>1. Push(count + 1)
        BY <1>1, <2>3, Zenon DEF Dispatch
      <4>2. PICK kept \in Seq(Ids) : /\ incoming_' = Append(kept, count + 1)
                                     /\ dropped' = dropped \cup (Elements(incoming_) \ Elements(kept))
        BY <4>1, <2>1, Pushed, Zenon
      <4>3. Elements(incoming_) \subseteq Ids
        BY <1>0 DEF TypeOK, Elements
      <4> QED  BY <4>2, <4>3, <2>1, <1>0, AppendElements, Zenon DEF TypeOK
    <3> QED  BY <3>1, <2>1, <2>2, <2>3, <1>0, <1>1, Zenon DEF Dispatch, TypeOK, work, output
  <2>4. CASE ~g_async_queue
    BY <2>1, <2>2, <2>4, <1>0, <1>1, Zenon DEF Dispatch, TypeOK, work, output
  <2> QED  BY <2>3, <2>4, Zenon
<1>2. ASSUME NEW p \in Producers, WriteSync(p)
      PROVE  TypeOK'
  <2>1. p \in Threads /\ p \in Syncing /\ arg[p] \in Ids /\ 0 \in 0 .. MaxRecords
    <3>1. p \in Threads /\ p \in Syncing
      BY <1>2, Zenon DEF WriteSync, Threads, Syncing
    <3>2. arg[p] \in 1 .. count /\ count \in 0 .. MaxRecords
      BY <3>1, <1>0, Zenon DEF IInv, OnePlace, TypeOK
    <3> QED  BY <3>1, <3>2, LoggerAssumption DEF Ids
  <2>2. written' \in Seq(Ids)
    BY <2>1, <1>0, <1>2, AppendElements, Zenon DEF WriteSync, TypeOK
  <2> QED  BY <2>1, <2>2, <1>0, <1>2, Zenon DEF WriteSync, TypeOK, queue, work, records
<1>3. ASSUME NEW a \in Admins, InitAsync(a)
      PROVE  TypeOK'
  <2>1. <<>> \in Seq(Ids)
    OBVIOUS
  <2> QED  BY <2>1, <1>0, <1>3, Zenon DEF InitAsync, TypeOK, records, output
<1>4. ASSUME NEW a \in Admins, SetSinks(a)
      PROVE  TypeOK'
  <2>1. g_sinks + 1 \in Eras
    BY <1>0, <1>4, LoggerAssumption DEF SetSinks, TypeOK, Eras
  <2> QED  BY <2>1, <1>0, <1>4, Zenon DEF SetSinks, TypeOK, work, records, output
<1>5. Dispatched \subseteq Ids
  <2>1. count \in 0 .. MaxRecords
    BY <1>0, Zenon DEF TypeOK
  <2> QED  BY <2>1, LoggerAssumption DEF Dispatched, Ids
<1>6. ASSUME NEW a \in Admins, Flush(a) \/ FlushReturn(a) \/ Shutdown(a) \/ ShutdownReturn(a)
      PROVE  TypeOK'
  <2>1. a \in Threads
    BY Zenon DEF Threads
  <2>2. CASE Flush(a)
    BY <2>1, <2>2, <1>0, <1>5, Zenon DEF Flush, FlushSinks, TypeOK, work, records
  <2>3. CASE FlushReturn(a)
    BY <2>1, <2>3, <1>0, <1>5, Zenon DEF FlushReturn, FlushSinks, TypeOK, queue, work, records
  <2>4. CASE Shutdown(a)
    BY <2>1, <2>4, <1>0, <1>5, Zenon DEF Shutdown, FlushSinks, TypeOK, work, records
  <2>5. CASE ShutdownReturn(a)
    BY <2>1, <2>5, <1>0, <1>5, Zenon DEF ShutdownReturn, FlushSinks, TypeOK, work, records
  <2> QED  BY <1>6, <2>2, <2>3, <2>4, <2>5, Zenon
<1>7. CASE WorkerExit \/ WorkerFlush \/ WorkerNotify \/ UNCHANGED vars
  BY <1>0, <1>7, Zenon DEF WorkerExit, WorkerFlush, WorkerNotify, FlushSinks, TypeOK, queue, work,
     records, output, vars
<1>8. CASE WorkerTake
  <2>1. <<>> \in Seq(Ids)
    OBVIOUS
  <2> QED  BY <2>1, <1>0, <1>8, Zenon DEF WorkerTake, Snapshot, TypeOK, records, output
<1>9. CASE WorkerWrite
  <2>1. /\ Head(local_batch) \in Ids /\ Tail(local_batch) \in Seq(Ids)
    BY <1>0, <1>9, TailElements, Zenon DEF WorkerWrite, TypeOK, IInv, OnePlace
  <2>2. written' \in Seq(Ids)
    BY <2>1, <1>0, <1>9, AppendElements, Zenon DEF WorkerWrite, TypeOK
  <2> QED  BY <2>1, <2>2, <1>0, <1>9, Zenon DEF WorkerWrite, TypeOK, queue, records
<1> QED
  BY <1>1, <1>2, <1>3, <1>4, <1>6, <1>7, <1>8, <1>9, Zenon DEF Next, Worker, WorkerTimeout

LEMMA LockedStep ==
    ASSUME IInv, [Next]_vars
    PROVE  Locked'
<1>0. TypeOK /\ Locked /\ None \notin Threads
  BY LoggerAssumption, Zenon DEF IInv, Threads
<1>1. ASSUME NEW p \in Producers, Dispatch(p) \/ WriteSync(p)
      PROVE  Locked'
  <2>1. p \in Threads
    BY Zenon DEF Threads
  <2>2. CASE Dispatch(p)
    BY <2>1, <2>2, <1>0, Zenon DEF Dispatch, MayDispatch, TypeOK, Locked, work
  <2>3. CASE WriteSync(p)
    BY <2>1, <2>3, <1>0, Zenon DEF WriteSync, TypeOK, Locked, queue, work
  <2> QED  BY <2>2, <2>3, <1>1, Zenon
<1>2. ASSUME NEW a \in Admins, InitAsync(a) \/ SetSinks(a)
      PROVE  Locked'
  <2>1. CASE InitAsync(a)
    BY <2>1, <1>0, Zenon DEF InitAsync, Free, TypeOK, Locked
  <2>2. CASE SetSinks(a)
    BY <2>2, <1>0, Zenon DEF SetSinks, Locked, work
  <2> QED  BY <2>1, <2>2, <1>2, Zenon
<1>3. ASSUME NEW a \in Admins, Flush(a) \/ Shutdown(a)
      PROVE  Locked'
  <2>1. a \in Threads
    BY Zenon DEF Threads
  <2>2. CASE Flush(a)
    BY <2>1, <2>2, <1>0, Zenon DEF Flush, Free, TypeOK, Locked, work
  <2>3. CASE Shutdown(a)
    BY <2>1, <2>3, <1>0, Zenon DEF Shutdown, Free, TypeOK, Locked, work
  <2> QED  BY <2>2, <2>3, <1>3, Zenon
<1>4. ASSUME NEW a \in Admins, FlushReturn(a) \/ ShutdownReturn(a)
      PROVE  Locked'
  <2>1. a \in Threads
    BY Zenon DEF Threads
  <2>2. CASE FlushReturn(a)
    BY <2>1, <2>2, <1>0, Zenon DEF FlushReturn, TypeOK, Locked, queue, work
  <2>3. CASE ShutdownReturn(a)
    BY <2>1, <2>3, <1>0, Zenon DEF ShutdownReturn, TypeOK, Locked, work
  <2> QED  BY <2>2, <2>3, <1>4, Zenon
<1>5. CASE WorkerExit
  BY <1>0, <1>5, Zenon DEF WorkerExit, Quits, Locked, queue
<1>6. CASE WorkerTake
  BY <1>0, <1>6, Zenon DEF WorkerTake, Locked
<1>7. CASE WorkerWrite \/ WorkerFlush \/ WorkerNotify \/ UNCHANGED vars
  <2>1. UNCHANGED <<pc, g_state_mutex, g_async_queue, running_>>
    BY <1>7, Zenon DEF WorkerWrite, WorkerFlush, WorkerNotify, queue, vars
  <2>2. worker' = "none" => worker = "none"
    BY <1>7, Zenon DEF WorkerWrite, WorkerFlush, WorkerNotify, work, vars
  <2> QED  BY <2>1, <2>2, <1>0, Zenon DEF Locked
<1> QED
  BY <1>1, <1>2, <1>3, <1>4, <1>5, <1>6, <1>7, Zenon DEF Next, Worker, WorkerTimeout

LEMMA BatchedStep ==
    ASSUME IInv, [Next]_vars
    PROVE  Batched'
<1>0. TypeOK /\ Locked /\ Batched /\ None \notin Threads
  BY LoggerAssumption, Zenon DEF IInv, Threads
<1>1. ASSUME NEW p \in Producers, Dispatch(p)
      PROVE  Batched'
  <2>1. g_async_queue => worker # "none"
    BY <1>0, <1>1, Zenon DEF Dispatch, MayDispatch, Locked
  <2> QED  BY <2>1, <1>0, <1>1, Zenon DEF Dispatch, Batched, work
<1>2. ASSUME NEW p \in Producers, WriteSync(p)
      PROVE  Batched'
  BY <1>0, <1>2, Zenon DEF WriteSync, Batched, queue, work
<1>3. ASSUME NEW a \in Admins, InitAsync(a) \/ SetSinks(a) \/ Flush(a) \/ Shutdown(a) \/ FlushReturn(a)
             \/ ShutdownReturn(a)
      PROVE  Batched'
  <2>1. CASE InitAsync(a)
    BY <2>1, <1>0, Zenon DEF InitAsync, TypeOK, Batched
  <2>2. CASE SetSinks(a) \/ Flush(a) \/ Shutdown(a) \/ FlushReturn(a) \/ ShutdownReturn(a)
    BY <2>2, <1>0, Zenon
       DEF SetSinks, Flush, Shutdown, FlushReturn, ShutdownReturn, Batched, queue, work
  <2> QED  BY <2>1, <2>2, <1>3, Zenon
<1>4. CASE WorkerExit
  BY <1>0, <1>4, Zenon DEF WorkerExit, Quits, Batched, queue
<1>5. CASE WorkerTake \/ WorkerWrite \/ WorkerFlush \/ WorkerNotify
  BY <1>0, <1>5, Zenon DEF WorkerTake, WorkerWrite, WorkerFlush, WorkerNotify, Batched, queue
<1>6. CASE UNCHANGED vars
  BY <1>0, <1>6, Zenon DEF Batched, vars, queue, work
<1> QED
  BY <1>1, <1>2, <1>3, <1>4, <1>5, <1>6, Zenon DEF Next, Worker, WorkerTimeout

LEMMA OnePlaceStep ==
    ASSUME IInv, [Next]_vars
    PROVE  OnePlace'
<1>0. TypeOK /\ OnePlace
  BY Zenon DEF IInv
<1>1. ASSUME UNCHANGED <<written, local_batch, incoming_, dropped, count, arg>>, Syncing' = Syncing
      PROVE  OnePlace'
  BY <1>0, <1>1, Zenon DEF OnePlace
<1>2. ASSUME NEW p \in Producers, Dispatch(p)
      PROVE  OnePlace'
  <2>1. /\ count + 1 \in Ids /\ count + 1 \notin 1 .. count /\ count' = count + 1
        /\ 1 .. count' = (1 .. count) \cup {count + 1}
    BY <1>2, Numbered, Zenon DEF Dispatch
  <2>2. /\ count + 1 \notin Elements(written) /\ count + 1 \notin Elements(local_batch)
        /\ count + 1 \notin Elements(incoming_) /\ count + 1 \notin dropped
        /\ \A q \in Syncing : arg[q] # count + 1
    BY <2>1, <1>0, Zenon DEF OnePlace
  <2>3. UNCHANGED <<written, local_batch>>
    BY <1>2, Zenon DEF Dispatch, work, output
  <2>4. CASE g_async_queue
    <3>1. Push(count + 1) /\ arg' = arg /\ Syncing' = Syncing
      BY <1>2, <2>4, Zenon DEF Dispatch, Syncing
    <3>2. PICK kept \in Seq(Ids) :
            /\ incoming_' = Append(kept, count + 1)
            /\ dropped' = dropped \cup (Elements(incoming_) \ Elements(kept))
            /\ Distinct(kept) /\ Elements(kept) \subseteq Elements(incoming_)
      BY <3>1, <2>1, Pushed, Zenon
    <3>3. Elements(incoming_') = Elements(kept) \cup {count + 1} /\ Distinct(incoming_')
      BY <3>2, <2>1, <2>2, AppendElements, Zenon
    <3>4. 1 .. count' = Elements(written) \cup Elements(local_batch) \cup Elements(incoming_')
                        \cup dropped' \cup {arg[q] : q \in Syncing}
      BY <3>2, <3>3, <2>1, <1>0 DEF OnePlace
    <3>5. /\ Elements(written) \cap Elements(incoming_') = {}
          /\ Elements(local_batch) \cap Elements(incoming_') = {}
          /\ dropped' \cap (Elements(written) \cup Elements(local_batch) \cup Elements(incoming_')) = {}
      BY <3>2, <3>3, <2>2, <1>0, ZenonT(40) DEF OnePlace
    <3>6. \A q \in Syncing :
            /\ arg[q] \notin Elements(written) \cup Elements(local_batch) \cup Elements(incoming_')
            /\ arg[q] \notin dropped'
      BY <3>2, <3>3, <2>2, <1>0, ZenonT(40) DEF OnePlace
    <3> QED  BY <3>1, <3>3, <3>4, <3>5, <3>6, <2>3, <1>0, Zenon DEF OnePlace
  <2>5. CASE ~g_async_queue
    <3>1. /\ UNCHANGED <<incoming_, dropped>> /\ p \in Threads
          /\ pc[p] = "idle" /\ pc' = [pc EXCEPT ![p] = "sync"] /\ arg' = [arg EXCEPT ![p] = count + 1]
          /\ DOMAIN pc = Threads /\ DOMAIN arg = Threads
      BY <1>0, <1>2, <2>5, Zenon DEF Dispatch, TypeOK, Threads
    <3>2. p \notin Syncing /\ Syncing' = Syncing \cup {p} /\ arg'[p] = count + 1
      BY <3>1 DEF Syncing
    <3>3. \A q \in Syncing : arg'[q] = arg[q] /\ q # p
      BY <3>1, <3>2, Zenon DEF Syncing, Threads
    <3>4. {arg'[q] : q \in Syncing'} = {arg[q] : q \in Syncing} \cup {count + 1}
      BY <3>2, <3>3
    <3>5. 1 .. count' = Elements(written) \cup Elements(local_batch) \cup Elements(incoming_)
                        \cup dropped \cup {arg'[q] : q \in Syncing'}
      BY <3>4, <2>1, <1>0, Zenon DEF OnePlace
    <3>6. \A q \in Syncing' :
            /\ arg'[q] \notin Elements(written) \cup Elements(local_batch) \cup Elements(incoming_)
            /\ arg'[q] \notin dropped
            /\ \A r \in Syncing' : r # q => arg'[r] # arg'[q]
      BY <3>2, <3>3, <2>2, <1>0, ZenonT(40) DEF OnePlace
    <3> QED  BY <3>1, <3>5, <3>6, <2>3, <1>0, Zenon DEF OnePlace
  <2> QED  BY <2>4, <2>5, Zenon
<1>3. ASSUME NEW p \in Producers, WriteSync(p)
      PROVE  OnePlace'
  <2>1. /\ UNCHANGED <<local_batch, incoming_, dropped, count>>
        /\ p \in Threads /\ p \in Syncing /\ written' = Append(written, arg[p])
        /\ pc' = [pc EXCEPT ![p] = "idle"] /\ arg' = [arg EXCEPT ![p] = 0]
        /\ DOMAIN pc = Threads /\ DOMAIN arg = Threads
    BY <1>0, <1>3, Zenon DEF WriteSync, TypeOK, Threads, Syncing, queue, work, records
  <2>2. Syncing' = Syncing \ {p} /\ \A q \in Syncing \ {p} : arg'[q] = arg[q]
    BY <2>1 DEF Syncing, Threads
  <2>3. {arg[q] : q \in Syncing} = {arg'[q] : q \in Syncing'} \cup {arg[p]}
    BY <2>1, <2>2
  <2>4. arg[p] \in Ids
    <3>1. arg[p] \in 1 .. count /\ count \in 0 .. MaxRecords
      BY <2>1, <1>0, Zenon DEF OnePlace, TypeOK
    <3> QED  BY <3>1, LoggerAssumption DEF Ids
  <2>5. Elements(written') = Elements(written) \cup {arg[p]} /\ Distinct(written')
    BY <2>1, <2>4, <1>0, AppendElements, Zenon DEF OnePlace, TypeOK
  <2>6. 1 .. count = Elements(written') \cup Elements(local_batch) \cup Elements(incoming_)
                     \cup dropped \cup {arg'[q] : q \in Syncing'}
    BY <2>3, <2>5, <1>0, Zenon DEF OnePlace
  <2>7. \A q \in Syncing' :
            /\ arg'[q] \notin Elements(written') \cup Elements(local_batch) \cup Elements(incoming_)
            /\ arg'[q] \notin dropped
            /\ \A r \in Syncing' : r # q => arg'[r] # arg'[q]
    BY <2>1, <2>2, <2>5, <1>0, Zenon DEF OnePlace
  <2>8. /\ Elements(written') \cap Elements(local_batch) = {}
        /\ Elements(written') \cap Elements(incoming_) = {}
        /\ dropped \cap (Elements(written') \cup Elements(local_batch) \cup Elements(incoming_)) = {}
    BY <2>1, <2>5, <1>0, Zenon DEF OnePlace
  <2>9. /\ UNCHANGED <<local_batch, incoming_, dropped, count>>
        /\ Distinct(local_batch) /\ Distinct(incoming_)
        /\ Elements(local_batch) \cap Elements(incoming_) = {}
    BY <2>1, <1>0, Zenon DEF OnePlace
  <2> QED  BY <2>5, <2>6, <2>7, <2>8, <2>9, Zenon DEF OnePlace
<1>4. ASSUME NEW a \in Admins, InitAsync(a) \/ SetSinks(a)
      PROVE  OnePlace'
  <2>1. CASE InitAsync(a)
    <3>1. incoming_' = incoming_
      BY <2>1, <1>0, Zenon DEF InitAsync, IInv, Batched, TypeOK
    <3> QED  BY <3>1, <2>1, <1>1, Zenon DEF InitAsync, Syncing, records, output
  <2>2. CASE SetSinks(a)
    BY <2>2, <1>1, Zenon DEF SetSinks, Syncing, work, records, output
  <2> QED  BY <2>1, <2>2, <1>4, Zenon
<1>5. ASSUME NEW a \in Admins, Flush(a) \/ Shutdown(a) \/ FlushReturn(a) \/ ShutdownReturn(a)
      PROVE  OnePlace'
  <2>1. UNCHANGED <<written, local_batch, incoming_, dropped, count, arg>>
    BY <1>5, Zenon DEF Flush, Shutdown, FlushReturn, ShutdownReturn, queue, work, records
  <2>2. /\ \A t \in Threads : pc[t] = "sync" <=> pc'[t] = "sync"
    BY <1>0, <1>5, Zenon DEF Flush, Shutdown, FlushReturn, ShutdownReturn, Free, TypeOK
  <2>3. Syncing' = Syncing
    BY <2>2, Zenon DEF Syncing, Threads
  <2> QED  BY <2>1, <2>3, <1>1, Zenon
<1>6. CASE WorkerExit \/ WorkerFlush \/ WorkerNotify \/ UNCHANGED vars
  BY <1>1, <1>6, Zenon DEF WorkerExit, WorkerFlush, WorkerNotify, Syncing, queue, work, records,
     output, vars
<1>7. CASE WorkerTake
  <2>1. /\ local_batch' = incoming_ /\ incoming_' = <<>> /\ local_batch = <<>>
        /\ UNCHANGED <<written, dropped, count, arg>> /\ Syncing' = Syncing
    BY <1>7, Zenon DEF WorkerTake, IInv, Batched, Syncing, records, output
  <2> QED  BY <2>1, <1>0, EmptyElements, Zenon DEF OnePlace
<1>8. CASE WorkerWrite
  <2>1. /\ local_batch # <<>> /\ local_batch' = Tail(local_batch)
        /\ written' = Append(written, Head(local_batch))
        /\ UNCHANGED <<incoming_, dropped, count, arg>> /\ Syncing' = Syncing
    BY <1>8, Zenon DEF WorkerWrite, Syncing, queue, records
  <2>2. /\ Head(local_batch) \in Elements(local_batch) /\ Head(local_batch) \in Ids
        /\ Distinct(local_batch') /\ Elements(local_batch') = Elements(local_batch) \ {Head(local_batch)}
    BY <2>1, <1>0, TailElements, Zenon DEF OnePlace, TypeOK
  <2>3. Elements(written') = Elements(written) \cup {Head(local_batch)} /\ Distinct(written')
    BY <2>1, <2>2, <1>0, AppendElements, Zenon DEF OnePlace, TypeOK
  <2>4. Elements(written') \cup Elements(local_batch') = Elements(written) \cup Elements(local_batch)
    BY <2>2, <2>3, Zenon
  <2>5. /\ Elements(written') \cap Elements(local_batch') = {}
        /\ Elements(written') \cap Elements(incoming_) = {}
        /\ Elements(local_batch') \cap Elements(incoming_) = {}
    BY <2>2, <2>3, <1>0, Zenon DEF OnePlace
  <2>6. /\ dropped \cap (Elements(written') \cup Elements(local_batch') \cup Elements(incoming_)) = {}
        /\ \A p \in Syncing :
              /\ arg[p] \notin Elements(written') \cup Elements(local_batch') \cup Elements(incoming_)
              /\ arg[p] \notin dropped
              /\ \A q \in Syncing : q # p => arg[q] # arg[p]
        /\ Distinct(incoming_)
        /\ 1 .. count = Elements(written') \cup Elements(local_batch') \cup Elements(incoming_)
                        \cup dropped \cup {arg[p] : p \in Syncing}
    BY <2>4, <1>0, Zenon DEF OnePlace
  <2>7. UNCHANGED <<incoming_, dropped, count, arg>> /\ Syncing' = Syncing
    BY <2>1, Zenon
  <2> QED  BY <2>2, <2>3, <2>5, <2>6, <2>7, Zenon DEF OnePlace
<1> QED
  BY <1>2, <1>3, <1>4, <1>5, <1>6, <1>7, <1>8, Zenon DEF Next, Worker, WorkerTimeout

LEMMA BoundedStep ==
    ASSUME IInv, [Next]_vars
    PROVE  Bounded'
<1>0. Bounded
  BY Zenon DEF IInv
<1>1. ASSUME NEW p \in Producers, Dispatch(p)
      PROVE  Bounded'
  <2>1. count + 1 \in Ids
    BY <1>1, Numbered, Zenon DEF Dispatch
  <2>2. CASE g_async_queue
    <3>1. Push(count + 1)
      BY <1>1, <2>2, Zenon DEF Dispatch
    <3>2. PICK kept \in Seq(Ids) : /\ incoming_' = Append(kept, count + 1)
                                   /\ MaxQueueSize >= 4 => Len(kept) + 1 <= MaxQueueSize
      BY <3>1, <2>1, Pushed, Zenon
    <3>3. Len(incoming_') = Len(kept) + 1
      BY <3>2, <2>1, AppendElements, Zenon
    <3> QED  BY <3>2, <3>3, Zenon DEF Bounded
  <2>3. CASE ~g_async_queue
    BY <2>3, <1>0, <1>1, Zenon DEF Dispatch, Bounded
  <2> QED  BY <2>2, <2>3, Zenon
<1>2. ASSUME incoming_' = <<>>
      PROVE  Bounded'
  BY <1>2, LoggerAssumption DEF Bounded
<1>3. ASSUME NEW a \in Admins, InitAsync(a)
      PROVE  Bounded'
  BY <1>0, <1>2, <1>3, Zenon DEF InitAsync, Bounded
<1>4. CASE WorkerTake
  BY <1>2, <1>4, Zenon DEF WorkerTake
<1>5. CASE \/ \E p \in Producers : WriteSync(p)
           \/ \E a \in Admins : SetSinks(a) \/ Flush(a) \/ Shutdown(a) \/ FlushReturn(a) \/ ShutdownReturn(a)
           \/ WorkerExit \/ WorkerWrite \/ WorkerFlush \/ WorkerNotify \/ UNCHANGED vars
  <2>1. incoming_' = incoming_
    BY <1>5, Zenon
       DEF WriteSync, SetSinks, Flush, Shutdown, FlushReturn, ShutdownReturn, WorkerExit,
       WorkerWrite, WorkerFlush, WorkerNotify, queue, vars
  <2> QED  BY <2>1, <1>0, Zenon DEF Bounded
<1> QED
  BY <1>1, <1>3, <1>4, <1>5, Zenon DEF Next, Worker, WorkerTimeout

LEMMA SinksFreshStep ==
    ASSUME IInv, [Next]_vars
    PROVE  SinksFresh'
<1>0. TypeOK /\ SinksFresh /\ g_sinks \in Int /\ MaxEras \in Nat
  BY LoggerAssumption DEF IInv, TypeOK, Eras
<1>1. ASSUME UNCHANGED <<g_async_queue, sinks_, g_sinks, eraOf, count, local_sinks>>,
             Elements(local_batch') \subseteq Elements(local_batch)
      PROVE  SinksFresh'
  BY <1>0, <1>1, Zenon DEF SinksFresh
<1>2. ASSUME NEW p \in Producers, Dispatch(p)
      PROVE  SinksFresh'
  <2>1. /\ UNCHANGED <<g_async_queue, sinks_, g_sinks, local_sinks, local_batch>>
        /\ eraOf' = [eraOf EXCEPT ![count + 1] = g_sinks] /\ count' = count + 1
    BY <1>2, Zenon DEF Dispatch, work
  <2>2. /\ count + 1 \notin 1 .. count /\ 1 .. count' = (1 .. count) \cup {count + 1}
        /\ count + 1 \in Ids /\ 1 .. count \subseteq Ids
    BY <2>1, <1>2, Numbered, Zenon DEF Dispatch
  <2>3. (\A r \in 1 .. count : eraOf'[r] = eraOf[r]) /\ eraOf'[count + 1] = g_sinks
    BY <2>1, <2>2, <1>0, Zenon DEF TypeOK
  <2>4. Elements(local_batch) \subseteq 1 .. count
    BY Zenon DEF IInv, OnePlace
  <2>5. g_sinks <= g_sinks
    BY <1>0
  <2> QED  BY <2>1, <2>2, <2>3, <2>4, <2>5, <1>0, Zenon DEF SinksFresh
<1>3. ASSUME NEW a \in Admins, InitAsync(a)
      PROVE  SinksFresh'
  BY <1>0, <1>3, Zenon DEF InitAsync, SinksFresh, records
<1>4. ASSUME NEW a \in Admins, SetSinks(a)
      PROVE  SinksFresh'
  <2>1. /\ UNCHANGED <<g_async_queue, eraOf, count, local_sinks, local_batch>>
        /\ g_sinks' = g_sinks + 1 /\ (g_async_queue => sinks_' = g_sinks + 1)
    BY <1>4, Zenon DEF SetSinks, work, records
  <2>2. ASSUME NEW r \in 1 .. count
        PROVE  eraOf[r] <= g_sinks + 1
    <3>1. count \in 0 .. MaxRecords /\ eraOf \in [Ids -> Eras] /\ eraOf[r] <= g_sinks
      BY <2>2, <1>0, Zenon DEF TypeOK, SinksFresh
    <3>2. r \in Ids
      BY <3>1, <2>2, LoggerAssumption DEF Ids
    <3>3. eraOf[r] \in Eras
      BY <3>1, <3>2, Zenon
    <3> QED  BY <3>1, <3>3, <1>0 DEF Eras
  <2> QED  BY <2>1, <2>2, <1>0, Zenon DEF SinksFresh
<1>5. CASE \/ \E p \in Producers : WriteSync(p)
           \/ \E a \in Admins : Flush(a) \/ Shutdown(a) \/ FlushReturn(a)
           \/ WorkerExit \/ WorkerFlush \/ WorkerNotify \/ UNCHANGED vars
  <2>1. UNCHANGED <<g_async_queue, sinks_, g_sinks, eraOf, count, local_sinks, local_batch>>
    BY <1>5, Zenon
       DEF WriteSync, Flush, Shutdown, FlushReturn, WorkerExit, WorkerFlush, WorkerNotify,
       queue, work, records, vars
  <2> QED  BY <2>1, <1>1, Zenon
<1>6. ASSUME NEW a \in Admins, ShutdownReturn(a)
      PROVE  SinksFresh'
  BY <1>0, <1>6, Zenon DEF ShutdownReturn, SinksFresh, work, records
<1>7. CASE WorkerTake
  <2>1. /\ UNCHANGED <<g_async_queue, sinks_, g_sinks, eraOf, count>>
        /\ local_batch' = incoming_ /\ local_sinks' = sinks_ /\ g_async_queue
    BY <1>0, <1>7, Zenon DEF WorkerTake, Snapshot, TypeOK, records
  <2>2. Elements(incoming_) \subseteq 1 .. count
    BY Zenon DEF IInv, OnePlace
  <2> QED  BY <2>1, <2>2, <1>0, Zenon DEF SinksFresh
<1>8. CASE WorkerWrite
  <2>1. UNCHANGED <<g_async_queue, sinks_, g_sinks, eraOf, count, local_sinks>>
    BY <1>8, Zenon DEF WorkerWrite, queue, records
  <2>2. Elements(local_batch') \subseteq Elements(local_batch)
    BY <1>0, <1>8, TailElements, Zenon DEF WorkerWrite, IInv, OnePlace, TypeOK
  <2> QED  BY <2>1, <2>2, <1>1, Zenon
<1> QED
  BY <1>2, <1>3, <1>4, <1>5, <1>6, <1>7, <1>8, Zenon DEF Next, Worker, WorkerTimeout

LEMMA AcknowledgedStep ==
    ASSUME IInv, [Next]_vars
    PROVE  Acknowledged'
<1>0. TypeOK /\ Locked /\ Batched /\ Acknowledged /\ None \notin Threads
  BY LoggerAssumption, Zenon DEF IInv, Threads
<1>1. ASSUME UNCHANGED <<signalled, incoming_, local_batch, flush_requested_>>,
             \A t \in Threads : pc'[t] = "flushing" => pc[t] = "flushing"
      PROVE  Acknowledged'
  BY <1>0, <1>1, Zenon DEF Acknowledged
<1>2. ASSUME g_state_mutex = None
      PROVE  \A t \in Threads : pc[t] # "flushing"
  BY <1>0, <1>2, Zenon DEF Locked
<1>3. ASSUME NEW p \in Producers, Dispatch(p)
      PROVE  Acknowledged'
  <2>1. \A t \in Threads : pc'[t] # "flushing"
    BY <1>0, <1>2, <1>3, Zenon DEF Dispatch, MayDispatch, TypeOK
  <2> QED  BY <2>1, Zenon DEF Acknowledged
<1>4. ASSUME NEW a \in Admins, InitAsync(a) \/ SetSinks(a) \/ Shutdown(a)
      PROVE  Acknowledged'
  <2>1. \A t \in Threads : pc'[t] # "flushing"
    BY <1>0, <1>2, <1>4, Zenon DEF InitAsync, SetSinks, Shutdown, Free, TypeOK
  <2> QED  BY <2>1, Zenon DEF Acknowledged
<1>5. ASSUME NEW a \in Admins, Flush(a)
      PROVE  Acknowledged'
  <2>1. CASE g_async_queue
    BY <2>1, <1>5, Zenon DEF Flush, Acknowledged
  <2>2. CASE ~g_async_queue
    BY <2>2, <1>1, <1>5, Zenon DEF Flush, work
  <2> QED  BY <2>1, <2>2, Zenon
<1>6. ASSUME NEW a \in Admins, FlushReturn(a)
      PROVE  Acknowledged'
  BY <1>6, Zenon DEF FlushReturn, Acknowledged
<1>7. CASE (\E p \in Producers : WriteSync(p)) \/ (\E a \in Admins : ShutdownReturn(a))
  <2>1. \A t \in Threads : pc'[t] = "flushing" => pc[t] = "flushing"
    BY <1>0, <1>7, Zenon DEF WriteSync, ShutdownReturn, TypeOK
  <2> QED  BY <2>1, <1>1, <1>7, Zenon DEF WriteSync, ShutdownReturn, queue, work
<1>8. CASE WorkerExit \/ WorkerFlush \/ UNCHANGED vars
  BY <1>1, <1>8, Zenon DEF WorkerExit, WorkerFlush, queue, work, vars
<1>9. CASE WorkerTake
  BY <1>0, <1>9, Zenon DEF WorkerTake, Acknowledged
<1>10. CASE WorkerWrite
  BY <1>0, <1>10, Zenon DEF WorkerWrite, Acknowledged, queue
<1>11. CASE WorkerNotify
  BY <1>0, <1>11, Zenon DEF WorkerNotify, Batched, Acknowledged, queue
<1> QED
  BY <1>3, <1>4, <1>5, <1>6, <1>7, <1>8, <1>9, <1>10, <1>11, Zenon DEF Next, Worker, WorkerTimeout

\* With nothing queued, a record that was dispatched is written or was dropped.
LEMMA NothingQueued ==
    ASSUME IInv, incoming_ = <<>>, local_batch = <<>>
    PROVE  Dispatched \subseteq Elements(written) \cup dropped
<1>1. 1 .. count = Elements(written) \cup dropped \cup {arg[p] : p \in Syncing}
  BY EmptyElements, Zenon DEF IInv, OnePlace
<1> QED  BY <1>1, Zenon DEF Dispatched, Syncing

LEMMA SettleStep ==
    ASSUME IInv, [Next]_vars
    PROVE  CallsSettle'
<1>0. TypeOK /\ CallsSettle /\ Batched /\ owed \in [flush : SUBSET Ids, stop : SUBSET Ids]
  BY Zenon DEF IInv, TypeOK
<1>1. ASSUME owed' = owed, Settled \subseteq Settled'
      PROVE  CallsSettle'
  BY <1>0, <1>1, Zenon DEF CallsSettle
<1>2. ASSUME owed' = owed, UNCHANGED written, unflushed' \subseteq unflushed, dropped \subseteq dropped'
      PROVE  CallsSettle'
  <2>1. Settled \subseteq Settled'
    BY <1>2, Zenon DEF Settled
  <2> QED  BY <2>1, <1>1, <1>2, Zenon
<1>3. ASSUME UNCHANGED <<written, dropped>>, FlushSinks, incoming_ = <<>>, local_batch = <<>>,
             \/ owed' = [owed EXCEPT !.flush = Dispatched]
             \/ owed' = [owed EXCEPT !.stop = Dispatched]
      PROVE  CallsSettle'
  <2>1. Settled' = Elements(written) \cup dropped /\ Settled \subseteq Settled'
    BY <1>3, Zenon DEF Settled, FlushSinks
  <2>2. Dispatched \subseteq Settled'
    BY <2>1, <1>3, NothingQueued, Zenon
  <2>3. owed'.flush \cup owed'.stop \subseteq Dispatched \cup owed.flush \cup owed.stop
    BY <1>0, <1>3
  <2> QED  BY <2>1, <2>2, <2>3, <1>0, Zenon DEF CallsSettle
<1>4. ASSUME NEW p \in Producers, Dispatch(p)
      PROVE  CallsSettle'
  <2>1. dropped \subseteq dropped'
    BY <1>4, Zenon DEF Dispatch, Push
  <2> QED  BY <2>1, <1>2, <1>4, Zenon DEF Dispatch, output
<1>5. ASSUME NEW e \in Ids, e \notin Elements(written), written' = Append(written, e),
             unflushed' \subseteq unflushed \cup {e}, UNCHANGED <<dropped, owed>>
      PROVE  CallsSettle'
  <2>1. Elements(written') = Elements(written) \cup {e}
    BY <1>0, <1>5, AppendElements, Zenon DEF TypeOK
  <2>2. Settled \subseteq Settled'
    BY <2>1, <1>5, Zenon DEF Settled
  <2> QED  BY <2>2, <1>1, <1>5, Zenon
<1>6. ASSUME NEW p \in Producers, WriteSync(p)
      PROVE  CallsSettle'
  <2>1. arg[p] \notin Elements(written) /\ arg[p] \in 1 .. count /\ count \in 0 .. MaxRecords
    BY <1>0, <1>6, Zenon DEF WriteSync, Syncing, IInv, OnePlace, TypeOK
  <2>2. arg[p] \in Ids
    BY <2>1, LoggerAssumption DEF Ids
  <2> QED  BY <2>1, <2>2, <1>5, <1>6, Zenon DEF WriteSync
<1>7. CASE WorkerWrite
  <2>1. Head(local_batch) \in Elements(local_batch) /\ Head(local_batch) \in Ids
    BY <1>0, <1>7, TailElements, Zenon DEF WorkerWrite, IInv, OnePlace, TypeOK
  <2>2. Head(local_batch) \notin Elements(written)
    BY <2>1, Zenon DEF IInv, OnePlace
  <2> QED  BY <2>1, <2>2, <1>5, <1>7, Zenon DEF WorkerWrite
<1>8. ASSUME NEW a \in Admins, Flush(a) \/ Shutdown(a)
      PROVE  CallsSettle'
  <2>1. UNCHANGED <<written, dropped>>
    BY <1>8, Zenon DEF Flush, Shutdown
  <2>2. CASE g_async_queue
    BY <2>1, <2>2, <1>2, <1>8, Zenon DEF Flush, Shutdown
  <2>3. CASE ~g_async_queue
    <3>1. incoming_ = <<>> /\ local_batch = <<>>
      BY <2>3, <1>0, Zenon DEF TypeOK, Batched
    <3> QED  BY <3>1, <2>1, <2>3, <1>3, <1>8, Zenon DEF Flush, Shutdown
  <2> QED  BY <2>2, <2>3, Zenon
<1>9. ASSUME NEW a \in Admins, FlushReturn(a)
      PROVE  CallsSettle'
  <2>1. UNCHANGED <<written, dropped>> /\ FlushSinks
    BY <1>9, Zenon DEF FlushReturn
  <2>2. CASE signalled
    <3>1. incoming_ = <<>> /\ local_batch = <<>>
      BY <2>2, <1>9, Zenon DEF FlushReturn, Threads, IInv, Acknowledged
    <3> QED  BY <3>1, <2>1, <2>2, <1>3, <1>9, Zenon DEF FlushReturn
  <2>3. CASE ~signalled
    BY <2>1, <2>3, <1>2, <1>9, Zenon DEF FlushReturn, FlushSinks
  <2> QED  BY <2>2, <2>3, Zenon
<1>10. ASSUME NEW a \in Admins, ShutdownReturn(a)
       PROVE  CallsSettle'
  <2>1. incoming_ = <<>> /\ local_batch = <<>>
    BY <1>0, <1>10, Zenon DEF ShutdownReturn, Batched
  <2> QED  BY <2>1, <1>3, <1>10, Zenon DEF ShutdownReturn
<1>11. CASE \/ \E a \in Admins : InitAsync(a) \/ SetSinks(a)
            \/ WorkerExit \/ WorkerTake \/ WorkerFlush \/ WorkerNotify \/ UNCHANGED vars
  <2>1. UNCHANGED <<written, dropped, owed>> /\ unflushed' \subseteq unflushed
    BY <1>11, Zenon DEF InitAsync, SetSinks, WorkerExit, WorkerTake, WorkerFlush, WorkerNotify,
       FlushSinks, output, vars
  <2> QED  BY <2>1, <1>2, Zenon
<1> QED
  BY <1>4, <1>6, <1>7, <1>8, <1>9, <1>10, <1>11, Zenon DEF Next, Worker, WorkerTimeout

LEMMA InvInit == Init => IInv
<1> SUFFICES ASSUME Init PROVE IInv
  OBVIOUS
<1>1. /\ 0 \in 0 .. MaxRecords /\ 0 \in Eras /\ <<>> \in Seq(Ids) /\ 1 .. 0 = {}
      /\ (MaxQueueSize >= 4 => Len(<<>>) <= MaxQueueSize)
  BY LoggerAssumption DEF Eras
<1>2. TypeOK
  BY <1>1, Zenon DEF Init, TypeOK
<1>3. Locked /\ Batched /\ Acknowledged
  BY Zenon DEF Init, Locked, Batched, Acknowledged
<1>4. Syncing = {}
  BY Zenon DEF Init, Syncing, Threads
<1>5. OnePlace
  <2>1. Elements(written) = {} /\ Elements(local_batch) = {} /\ Elements(incoming_) = {}
        /\ Distinct(written) /\ Distinct(local_batch) /\ Distinct(incoming_)
    BY EmptyElements, Zenon DEF Init
  <2>2. dropped = {} /\ 1 .. count = {}
    BY <1>1, Zenon DEF Init
  <2> QED  BY <1>4, <2>1, <2>2, Zenon DEF OnePlace
<1>6. Bounded /\ SinksFresh /\ CallsSettle
  BY <1>1, EmptyElements, Zenon DEF Init, Bounded, SinksFresh, CallsSettle, Settled
<1> QED  BY <1>2, <1>3, <1>5, <1>6, Zenon DEF IInv

LEMMA InvStep ==
    ASSUME IInv, [Next]_vars
    PROVE  IInv'
BY TypeStep, LockedStep, BatchedStep, OnePlaceStep, BoundedStep, SinksFreshStep, AcknowledgedStep,
   SettleStep, Zenon DEF IInv

\* flush() and shutdown() keep what Logger.h says of them: whatever threads log,
\* change the sinks and stop the queue meanwhile, a record whose dispatch() had
\* returned is on its destination, or an overflow dropped it.
THEOREM AlwaysCallsSettle == Spec => []CallsSettle
<1>1. IInv => CallsSettle
  BY Zenon DEF IInv
<1> QED  BY <1>1, InvInit, InvStep, PTL DEF Spec

\* The logger loses no record without counting it as dropped, writes none twice,
\* keeps its queue within a max_queue_size of 4 or more, and writes to no list of
\* sinks that had been replaced when the record was dispatched.
THEOREM AlwaysRecordsAccounted == Spec => []RecordsAccounted
<1>1. ASSUME IInv
      PROVE  RecordsAccounted
  <2> DEFINE front == written \o local_batch
             line == front \o incoming_
  <2>1. TypeOK /\ OnePlace /\ Bounded /\ SinksFresh
    BY <1>1, Zenon DEF IInv
  <2>2. /\ front \in Seq(Ids) /\ Elements(front) = Elements(written) \cup Elements(local_batch)
        /\ Distinct(front)
    BY <2>1, JoinedElements, Zenon DEF TypeOK, OnePlace
  <2> HIDE DEF front
  <2>3. Elements(front) \cap Elements(incoming_) = {} /\ Distinct(incoming_)
    BY <2>1, <2>2, Zenon DEF OnePlace
  <2>4. /\ Elements(line) = Elements(front) \cup Elements(incoming_)
        /\ Distinct(line)
    BY <2>1, <2>2, <2>3, JoinedElements, Zenon DEF TypeOK
  <2> HIDE DEF line
  <2>5. 1 .. count = Elements(line) \cup dropped \cup {arg[p] : p \in Syncing}
    BY <2>1, <2>2, <2>4, Zenon DEF OnePlace
  <2>6. (1 .. count) \ Dispatched = (1 .. count) \cap {arg[p] : p \in Syncing}
    BY Zenon DEF Dispatched, Syncing
  <2>7. 1 .. count = Elements(line) \cup dropped \cup ((1 .. count) \ Dispatched)
    BY <2>5, <2>6, Zenon
  <2>8. Elements(line) \cap dropped = {}
    BY <2>1, <2>2, <2>4, Zenon DEF OnePlace
  <2>9. \A i \in DOMAIN local_batch : local_sinks >= eraOf[local_batch[i]]
    <3> SUFFICES ASSUME NEW i \in DOMAIN local_batch
                 PROVE  local_sinks >= eraOf[local_batch[i]]
      BY Zenon
    <3>1. local_batch[i] \in Elements(local_batch)
      BY Zenon DEF Elements
    <3>2. eraOf[local_batch[i]] <= local_sinks
      BY <3>1, <2>1, Zenon DEF SinksFresh
    <3>3. local_batch[i] \in Ids
      BY <2>1 DEF TypeOK
    <3>4. eraOf[local_batch[i]] \in Eras /\ local_sinks \in Eras
      BY <3>3, <2>1, Zenon DEF TypeOK
    <3> QED  BY <3>2, <3>4, LoggerAssumption DEF Eras
  <2>10. MaxQueueSize >= 4 => Len(incoming_) <= MaxQueueSize
    BY <2>1, Zenon DEF Bounded
  <2> QED  BY <2>1, <2>4, <2>7, <2>8, <2>9, <2>10, Zenon DEF RecordsAccounted, line, front
<1> QED  BY <1>1, InvInit, InvStep, PTL DEF Spec

=============================================================================

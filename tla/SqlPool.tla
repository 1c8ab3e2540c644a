------------------------------- MODULE SqlPool ------------------------------
(***************************************************************************)
(* SQL through PerCoreConnectionPool: the coroutines of one worker thread  *)
(* run statements and transactions of SqlDatabaseClient on the connections *)
(* of their thread, which are leased one by one, or shared when the        *)
(* PostgreSQL driver pipelines (src/src/data/orm/sql).                     *)
(*                                                                         *)
(* A message is the ith statement of a coroutine; what a statement writes  *)
(* is the mark of its coroutine.  A reply stands for the three items libpq *)
(* hands out for a statement and its sync: a result, a null and a sync.    *)
(***************************************************************************)
EXTENDS Integers, FiniteSets, Sequences, Functions

CONSTANTS
    Clients,        \* coroutines
    MaxCapacity,    \* bound: connections per thread
    MaxBreaks,      \* bound: connections the server closes
    MaxWaits        \* bound: flushes that find the socket full

SqlAssumption ==
    /\ IsFiniteSet(Clients)
    /\ MaxCapacity \in Nat \ {0} /\ MaxBreaks \in Nat /\ MaxWaits \in Nat

VARIABLES
    pipelined, capacity_, \* how the pool was made
    kind,           \* client -> what it does: auto, commit or rollback
    place, at,      \* client -> where it is, and at which statement
    conn,           \* client -> the connection of its guard, also when it is over
    total_spawned, available,
    all_connections,
    made,           \* connections opened so far, numbered from 1
    dead, bad,      \* connections the server closed; those libpq knows of
    unsent,         \* conn -> statements in libpq's output buffer
    wire,           \* conn -> statements on their way to the server
    session,        \* conn -> the server's side: [open, marks]
    replies,        \* conn -> replies in the socket
    inbuf,          \* conn -> replies in libpq's input buffer
    in_flight_,     \* conn -> coroutines that wait for a result
    reader_running_,
    committed,      \* marks in the database
    waited,         \* history: connections on which a flush found the socket full
    misled          \* history: coroutines that were given the result of another

made_as == <<pipelined, capacity_, kind>>
client == <<place, at, conn>>
pool == <<total_spawned, available, all_connections, made>>
libpq == <<bad, unsent, inbuf, in_flight_, reader_running_>>
server == <<dead, wire, session, replies, committed>>
vars == <<made_as, client, pool, libpq, server, waited, misled>>

-----------------------------------------------------------------------------
Conns == 1 .. MaxCapacity + MaxBreaks
None == 0
Message == [c : Clients, i : 1 .. 3]

\* What the calls of SqlDatabaseClient send: one statement, or transaction()
\* around a block that returns or throws.
Script(c) ==
    CASE kind[c] = "auto" -> <<"write">>
      [] kind[c] = "commit" -> <<"begin", "write", "commit">>
      [] kind[c] = "rollback" -> <<"begin", "write", "rollback">>

TypeOK ==
    /\ pipelined \in BOOLEAN /\ capacity_ \in 1 .. MaxCapacity
    /\ kind \in [Clients -> {"auto", "commit", "rollback"}]
    /\ place \in [Clients -> {"idle", "run", "flush", "wait", "done", "failed"}]
    /\ at \in [Clients -> 1 .. 4] /\ conn \in [Clients -> Conns \cup {None}]
    /\ total_spawned \in Int /\ made \in 0 .. MaxCapacity + MaxBreaks
    /\ available \in Seq(Conns) /\ all_connections \in Seq(Conns)
    /\ bad \subseteq dead /\ dead \subseteq 1 .. made
    /\ unsent \in [Conns -> Seq(Message)] /\ wire \in [Conns -> Seq(Message)]
    /\ replies \in [Conns -> Seq(Message)] /\ inbuf \in [Conns -> Seq(Message)]
    /\ in_flight_ \in [Conns -> Seq(Clients)]
    /\ session \in [Conns -> [open : BOOLEAN, marks : SUBSET Clients]]
    /\ reader_running_ \subseteq Conns /\ waited \subseteq Conns
    /\ committed \subseteq Clients /\ misled \subseteq Clients

Fresh == [open |-> FALSE, marks |-> {}]
Empty == [k \in Conns |-> <<>>]

Init ==
    /\ pipelined \in BOOLEAN /\ capacity_ \in 1 .. MaxCapacity
    /\ kind \in [Clients -> {"auto", "commit", "rollback"}]
    /\ place = [c \in Clients |-> "idle"] /\ at = [c \in Clients |-> 1]
    /\ conn = [c \in Clients |-> None]
    /\ total_spawned = 0 /\ available = <<>> /\ all_connections = <<>> /\ made = 0
    /\ dead = {} /\ bad = {} /\ unsent = Empty /\ wire = Empty
    /\ session = [k \in Conns |-> Fresh]
    /\ replies = Empty /\ inbuf = Empty /\ in_flight_ = Empty /\ reader_running_ = {}
    /\ committed = {} /\ waited = {} /\ misled = {}

-----------------------------------------------------------------------------
(***************************************************************************)
(* The server (external): the statements of a connection take effect in    *)
(* the order in which they arrive; outside a transaction at once.  Closing *)
(* the connection ends its transaction, and loses what is on its way.      *)
(***************************************************************************)
Text(m) == Script(m.c)[m.i]

Executed(s, m) ==
    CASE Text(m) = "begin" -> [open |-> TRUE, marks |-> s.marks]
      [] Text(m) = "write" -> [open |-> s.open, marks |-> IF s.open THEN s.marks \cup {m.c} ELSE {}]
      [] OTHER -> Fresh

NowCommitted(s, m) ==
    CASE Text(m) = "write" /\ ~s.open -> {m.c}
      [] Text(m) = "commit" -> s.marks
      [] OTHER -> {}

Execute(k, m) ==
    /\ session' = [session EXCEPT ![k] = Executed(@, m)]
    /\ committed' = committed \cup NowCommitted(session[k], m)

Serve(k) ==
    /\ wire[k] # <<>>
    /\ wire' = [wire EXCEPT ![k] = Tail(@)]
    /\ Execute(k, Head(wire[k]))
    /\ replies' = [replies EXCEPT ![k] = Append(@, Head(wire[k]))]
    /\ UNCHANGED <<made_as, client, pool, libpq, dead, waited, misled>>

Break(k) ==
    /\ k <= made /\ k \notin dead /\ Cardinality(dead) < MaxBreaks
    /\ dead' = dead \cup {k}
    /\ session' = [session EXCEPT ![k] = Fresh]
    /\ wire' = [wire EXCEPT ![k] = <<>>]
    /\ UNCHANGED <<made_as, client, pool, libpq, replies, committed, waited, misled>>

-----------------------------------------------------------------------------
(***************************************************************************)
(* acquire(): a shared connection when the pool pipelines, else a lease.   *)
(* The factory throws when the server cannot be reached.                   *)
(***************************************************************************)
Starts(c, k) ==
    /\ place' = [place EXCEPT ![c] = "run"]
    /\ conn' = [conn EXCEPT ![c] = k]

Fails(c) == place' = [place EXCEPT ![c] = "failed"] /\ conn' = conn

Busier(j, k) == Len(in_flight_[j]) > Len(in_flight_[k])

\* The first of the connections with the fewest waiters.
LeastLoaded(n) ==
    {k \in 1 .. n : \A j \in 1 .. n :
        j # k => Busier(j, k) \/ (k < j /\ ~Busier(k, j))}

\* The first acquire opens all connections; when the factory throws at the
\* n+1st, the first n stay, and no later acquire opens more unless n is 0.
AcquireShared(c) ==
    /\ pipelined /\ place[c] = "idle"
    /\ \E n \in IF all_connections = <<>> THEN 0 .. capacity_ ELSE {Len(all_connections)} :
        /\ all_connections' = [i \in 1 .. n |-> i] /\ made' = n /\ total_spawned' = n
        /\ IF all_connections = <<>> /\ n < capacity_
           THEN Fails(c)
           ELSE \E k \in LeastLoaded(n) : Starts(c, k)
    /\ UNCHANGED <<made_as, at, available, libpq, server, waited, misled>>

\* The valid connection given back last; the invalid ones above it go.
LastValid == {i \in 1 .. Len(available) :
                 \A j \in i .. Len(available) : (available[j] \notin bad) <=> (j = i)}

\* Mutant: a connection is opened whatever the number of those leased out.
AcquireLease_Uncapped(c) ==
    /\ ~pipelined /\ place[c] = "idle"
    /\ IF available # <<>>
       THEN /\ Starts(c, available[Len(available)])
            /\ available' = SubSeq(available, 1, Len(available) - 1)
            /\ UNCHANGED <<total_spawned, made>>
       ELSE /\ made + 1 \in Conns
            /\ Starts(c, made + 1) /\ made' = made + 1
            /\ total_spawned' = total_spawned + 1 /\ UNCHANGED available
    /\ UNCHANGED <<made_as, at, all_connections, libpq, server, waited, misled>>

AcquireLease(c) ==
    /\ ~pipelined /\ place[c] = "idle"
    /\ \/ \E i \in LastValid :
            /\ Starts(c, available[i])
            /\ available' = SubSeq(available, 1, i - 1)
            /\ total_spawned' = total_spawned - (Len(available) - i)
            /\ UNCHANGED made
       \/ /\ LastValid = {}
          /\ available' = <<>>
          /\ LET left == total_spawned - Len(available) IN
             \/ /\ left < capacity_ /\ made + 1 \in Conns
                /\ Starts(c, made + 1) /\ made' = made + 1 /\ total_spawned' = left + 1
             \/ Fails(c) /\ total_spawned' = left /\ made' = made
    /\ UNCHANGED <<made_as, at, all_connections, libpq, server, waited, misled>>

\* Mutant: a connection that broke is not taken off the count.
Release_Kept(k, invalid) ==
    /\ available' = IF k \in invalid \/ Len(available) >= capacity_
                    THEN available ELSE Append(available, k)
    /\ UNCHANGED total_spawned

Release(k, invalid) ==
    IF k \notin invalid /\ Len(available) < capacity_
    THEN available' = Append(available, k) /\ UNCHANGED total_spawned
    ELSE UNCHANGED available /\ total_spawned' = total_spawned - 1

-----------------------------------------------------------------------------
(***************************************************************************)
(* execute(), query() and the statements of transaction().  Between two    *)
(* statements the block may await anything: the coroutine is at "run".     *)
(***************************************************************************)
Mine(c) == [c |-> c, i |-> at[c]]

Continues(c) ==
    /\ at' = [at EXCEPT ![c] = @ + 1]
    /\ place' = [place EXCEPT ![c] = IF at[c] = Len(Script(c)) THEN "done" ELSE "run"]

\* Mutant: transaction() gives the connection back without rolling back.
Blocking_NoRollback(c) ==
    LET k == conn[c] IN
    /\ ~pipelined /\ place[c] = "run" /\ k \notin dead
    /\ IF Text(Mine(c)) = "rollback" THEN UNCHANGED <<session, committed>>
                                     ELSE Execute(k, Mine(c))
    /\ Continues(c)
    /\ IF at[c] = Len(Script(c)) THEN Release(k, bad)
                                 ELSE UNCHANGED <<available, total_spawned>>
    /\ UNCHANGED <<made_as, conn, all_connections, made, libpq, dead, wire, replies,
                   waited, misled>>

\* Without pipelining a statement blocks the thread until it is answered.
Blocking(c) ==
    LET k == conn[c] IN
    /\ ~pipelined /\ place[c] = "run" /\ k \notin dead
    /\ Execute(k, Mine(c))
    /\ Continues(c)
    /\ IF at[c] = Len(Script(c)) THEN Release(k, bad)
                                 ELSE UNCHANGED <<available, total_spawned>>
    /\ UNCHANGED <<made_as, conn, all_connections, made, libpq, dead, wire, replies,
                   waited, misled>>

\* On a closed connection it throws, and so does the rollback that follows.
BlockingFails(c) ==
    LET k == conn[c] IN
    /\ ~pipelined /\ place[c] = "run" /\ k \in dead
    /\ bad' = bad \cup {k}
    /\ Fails(c)
    /\ Release(k, bad')
    /\ UNCHANGED <<made_as, at, all_connections, made, unsent, inbuf, in_flight_,
                   reader_running_, server, waited, misled>>

\* PQflush hands the first n statements of the buffer to the socket.
Flush(k, buffer, n) ==
    /\ unsent' = [unsent EXCEPT ![k] = SubSeq(buffer, n + 1, Len(buffer))]
    /\ wire' = [wire EXCEPT ![k] = IF k \in dead THEN <<>> ELSE @ \o SubSeq(buffer, 1, n)]

\* PipelineAwaiter: only what is flushed joins the queue of waiters.
Enqueue(c) ==
    /\ in_flight_' = [in_flight_ EXCEPT ![conn[c]] = Append(@, c)]
    /\ place' = [place EXCEPT ![c] = "wait"]

\* Mutant: the reader is not started.
EnsureReader_Never(k) == UNCHANGED reader_running_

EnsureReader(k) == reader_running_' = reader_running_ \cup {k}

SendFlushed(c) ==
    LET k == conn[c] buffer == Append(unsent[k], Mine(c)) IN
    /\ pipelined /\ place[c] = "run" /\ k \notin bad
    /\ EnsureReader(k)
    /\ Flush(k, buffer, Len(buffer)) /\ Enqueue(c)
    /\ UNCHANGED <<made_as, at, conn, pool, bad, inbuf, dead, session, replies,
                   committed, waited, misled>>

\* The socket is full: the coroutine waits for POLLOUT, and is no waiter yet.
SendWaits(c) ==
    LET k == conn[c] buffer == Append(unsent[k], Mine(c)) IN
    /\ pipelined /\ place[c] = "run" /\ k \notin dead
    /\ Cardinality({d \in Clients : place[d] = "flush"}) < MaxWaits
    /\ EnsureReader(k)
    /\ \E n \in 0 .. Len(unsent[k]) : Flush(k, buffer, n)
    /\ place' = [place EXCEPT ![c] = "flush"]
    /\ waited' = waited \cup {k}
    /\ UNCHANGED <<made_as, at, conn, pool, bad, inbuf, in_flight_, dead, session,
                   replies, committed, misled>>

FlushAgain(c) ==
    LET k == conn[c] IN
    /\ place[c] = "flush"
    /\ Flush(k, unsent[k], Len(unsent[k])) /\ Enqueue(c)
    /\ UNCHANGED <<made_as, at, conn, pool, bad, inbuf, reader_running_, dead,
                   session, replies, committed, waited, misled>>

\* Once libpq knows that the connection is gone, PQsendQueryParams fails.
SendFails(c) ==
    /\ pipelined /\ place[c] = "run" /\ conn[c] \in bad
    /\ Fails(c)
    /\ UNCHANGED <<made_as, at, pool, libpq, server, waited, misled>>

-----------------------------------------------------------------------------
(***************************************************************************)
(* run_reader(), from one POLLIN to the next.  Everything in the socket    *)
(* goes to libpq; the loop then passes the sync of an earlier statement    *)
(* and one result, and leaves at the null that follows this result, with   *)
(* the results of later statements still in the buffer.                    *)
(***************************************************************************)
\* Mutant: the result goes to the coroutine that sent last.
Deliver_Newest(k, reply) ==
    IF in_flight_[k] = <<>>
    THEN UNCHANGED <<at, place, in_flight_, misled>>
    ELSE LET q == in_flight_[k] c == q[Len(q)] IN
         /\ in_flight_' = [in_flight_ EXCEPT ![k] = SubSeq(q, 1, Len(q) - 1)]
         /\ Continues(c)
         /\ misled' = IF reply = Mine(c) THEN misled ELSE misled \cup {c}

\* With no waiter the result is dropped.
Deliver(k, reply) ==
    IF in_flight_[k] = <<>>
    THEN UNCHANGED <<at, place, in_flight_, misled>>
    ELSE LET c == Head(in_flight_[k]) IN
         /\ in_flight_' = [in_flight_ EXCEPT ![k] = Tail(@)]
         /\ Continues(c)
         /\ misled' = IF reply = Mine(c) THEN misled ELSE misled \cup {c}

Reader(k) ==
    LET input == inbuf[k] \o replies[k] IN
    /\ k \in reader_running_ /\ replies[k] # <<>>
    /\ inbuf' = [inbuf EXCEPT ![k] = Tail(input)]
    /\ replies' = [replies EXCEPT ![k] = <<>>]
    /\ Deliver(k, Head(input))
    /\ UNCHANGED <<made_as, conn, pool, bad, unsent, reader_running_, dead, wire,
                   session, committed, waited>>

\* PQconsumeInput fails: the reader ends, and its waiters stay where they are.
ReaderEnds(k) ==
    /\ k \in reader_running_ /\ k \in dead /\ replies[k] = <<>>
    /\ reader_running_' = reader_running_ \ {k}
    /\ bad' = bad \cup {k}
    /\ UNCHANGED <<made_as, client, pool, unsent, inbuf, in_flight_, server, waited,
                   misled>>

-----------------------------------------------------------------------------
Over(c) == place[c] \in {"done", "failed"}

\* Whatever is left to do is waiting for an event that does not come.
Rest ==
    /\ \A c \in Clients : Over(c) \/ place[c] = "wait"
    /\ UNCHANGED vars

Call(c) ==
    \/ AcquireShared(c) \/ AcquireLease(c) \/ Blocking(c) \/ BlockingFails(c)
    \/ SendFlushed(c) \/ SendFails(c) \/ FlushAgain(c)

Next ==
    \/ \E c \in Clients : Call(c) \/ SendWaits(c)
    \/ \E k \in Conns : Serve(k) \/ Break(k) \/ Reader(k) \/ ReaderEnds(k)
    \/ Rest

\* The loop runs what is ready, the sockets carry what is sent, and the server
\* answers.  Nothing has to break, or to find its socket full.
Fairness ==
    /\ \A c \in Clients : WF_vars(Call(c))
    /\ \A k \in Conns : WF_vars(Serve(k) \/ Reader(k) \/ ReaderEnds(k))

Spec == Init /\ [][Next]_vars /\ Fairness

-----------------------------------------------------------------------------
(***************************************************************************)
(* Properties.                                                             *)
(***************************************************************************)
Holding(c) == place[c] \in {"run", "flush", "wait"}
Leased == {c \in Clients : ~pipelined /\ Holding(c)}

\* No connection is leased twice, or idle and leased.
Exclusive ==
    /\ IsInjective(available)
    /\ \A c \in Leased :
        /\ conn[c] \notin Range(available)
        /\ \A d \in Leased : d # c => conn[d] # conn[c]

\* The count that acquire() compares with capacity_ is the number of open
\* connections, idle or leased, or shared, and stays within the capacity also
\* when connections break; no connection is leased twice, or idle and leased.
PoolAccounted ==
    /\ TypeOK /\ Exclusive
    /\ total_spawned \in 0 .. capacity_
    /\ total_spawned = Len(available) + Cardinality(Leased) + Len(all_connections)

\* A coroutine that the driver resumes with a result has the result of its own
\* statement, unless a flush on that connection once found the socket full:
\* then a later sender may have joined in_flight_ first.
OwnResult == \A c \in misled : conn[c] \in waited

Exact(c) ==
    place[c] = "done" => (c \in committed <=> kind[c] # "rollback")

\* A statement or transaction that returned is in the database, and one that
\* rolled back is not; on a pipelined connection, if no other coroutine used it.
TransactionsExact ==
    \A c \in Clients :
        (~pipelined \/ \A d \in Clients \ {c} : conn[d] # conn[c]) => Exact(c)

\* transactions.mdx: a transaction runs in an isolated boundary, so a block that
\* throws leaves nothing behind, whatever other coroutines of its thread do.
RollbackIsExact == \A c \in Clients : kind[c] = "rollback" => Exact(c)

\* Every call ends, unless its connection broke, or a flush on it found the
\* socket full, or results of the connection lie in libpq's buffer where the
\* reader left them until more input arrives.
Ended(c) ==
    \/ Over(c)
    \/ conn[c] \in dead \cup waited
    \/ conn[c] # None /\ inbuf[conn[c]] # <<>>
=============================================================================

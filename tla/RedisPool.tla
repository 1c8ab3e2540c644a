------------------------------ MODULE RedisPool -----------------------------
(***************************************************************************)
(* Redis through RedisConnectionPool: the coroutines of one worker thread  *)
(* run single commands, pipelines and MULTI/EXEC transactions on pooled    *)
(* connections, against one server or the master that Sentinel names       *)
(* (src/src/data/redis).                                                   *)
(*                                                                         *)
(* A request is the ith command of a coroutine.  Connecting, with AUTH and *)
(* SELECT, is one step: nobody else sees the connection.  A reply is on    *)
(* the socket or in read_buffer_.                                          *)
(***************************************************************************)
EXTENDS Integers, FiniteSets, SequencesExt

CONSTANTS
    Clients,        \* coroutines
    MaxSize,        \* max_size_: connections a pool keeps
    MaxBreaks,      \* bound: connections the server closes, and failovers
    MaxRefusals     \* bound: writes the server refuses

PoolAssumption == IsFiniteSet(Clients) /\ {MaxSize, MaxBreaks, MaxRefusals} \subseteq Nat

VARIABLES
    mode_, kind,    \* how the client was made; client -> what it does
    place, at,      \* client -> where it is, and at which command
    attempt,        \* client -> how often execute() has asked a pool
    conn, lease,    \* client -> the connection of its guard and the guard's pool
    got,            \* client -> the replies it has read
    standalone_pool_, \* the pool of the client, 0 before the first discovery
    connections_,   \* idle connections of that pool
    node,           \* pool -> the server it was made for
    fd_,            \* connections that are open on this side
    up,             \* connections that are open on the server's side
    wire, replies,  \* connection -> requests and replies under way
    multi,          \* connection -> queued writes of an open MULTI, or NoMulti
    master,         \* the server that is master
    applied,        \* writes in the order the server ran them
    breaks, refusals,
    dangling        \* history: a guard outlived its pool

config == <<mode_, kind>>
coroutine == <<place, at, attempt, conn, lease, got>>
pool == <<standalone_pool_, connections_, node>>
sockets == <<fd_, up, wire, replies, multi>>
server == <<master, applied, breaks, refusals>>
vars == <<config, coroutine, pool, sockets, server, dangling>>

-----------------------------------------------------------------------------
Conns == 1 .. Cardinality(Clients) + MaxSize
Pools == 1 .. 2 * Cardinality(Clients) + 1
None == 0
NoMulti == [open |-> FALSE, queue |-> <<>>]

\* What a call sends.  RedisTransaction sends DISCARD, the last command of
\* "exec", only when a queued command was refused.
Script(c) ==
    CASE kind[c] = "command" -> <<"write">>
      [] kind[c] = "pipeline" -> <<"write", "write">>
      [] kind[c] = "exec" -> <<"multi", "write", "write", "exec", "discard">>
      [] kind[c] = "discard" -> <<"multi", "discard">>
      [] kind[c] = "dropped" -> <<"multi">>
Over(c) == Len(Script(c)) + 1
\* RedisPipeline::execute hands all its commands to execute_pipeline at once.
Batch(c) == IF kind[c] = "pipeline" THEN Len(Script(c)) ELSE 1

Init ==
    /\ mode_ \in {"standalone", "sentinel"}
    /\ kind \in [Clients -> {"command", "pipeline", "exec", "discard", "dropped"}]
    /\ place = [c \in Clients |-> "start"] /\ at = [c \in Clients |-> 1]
    /\ attempt = [c \in Clients |-> 1]
    /\ conn = [c \in Clients |-> None] /\ lease = [c \in Clients |-> None]
    /\ got = [c \in Clients |-> <<>>]
    /\ standalone_pool_ = IF mode_ = "standalone" THEN 1 ELSE None
    /\ connections_ = <<>> /\ node = [p \in Pools |-> 1]
    /\ fd_ = {} /\ up = {}
    /\ wire = [n \in Conns |-> <<>>] /\ replies = [n \in Conns |-> <<>>]
    /\ multi = [n \in Conns |-> NoMulti]
    /\ master = 1 /\ applied = <<>> /\ breaks = 0 /\ refusals = 0
    /\ dangling = FALSE

Unused == Conns \ (Range(connections_) \cup Range(conn))

-----------------------------------------------------------------------------
(* RedisConnectionPool and its guard *)

\* A fresh socket: nothing under way, no MULTI.  read_buffer_ is cleared too.
Reset(n) ==
    /\ wire' = [wire EXCEPT ![n] = <<>>]
    /\ replies' = [replies EXCEPT ![n] = <<>>]
    /\ multi' = [multi EXCEPT ![n] = NoMulti]

Close(n) == fd_' = fd_ \ {n} /\ up' = up \ {n} /\ Reset(n)

\* connect(): closes, then opens; it fails when the server is no longer master.
Connect(n, p) ==
    /\ fd_' = IF node[p] = master THEN fd_ \cup {n} ELSE fd_ \ {n}
    /\ up' = IF node[p] = master THEN up \cup {n} ELSE up \ {n}
    /\ Reset(n)

\* acquire(): the connection given back last, or a new one that connects.  A
\* guard is returned even when connecting failed.
Acquire(c) ==
    /\ place[c] = "start" /\ standalone_pool_ # None
    /\ IF connections_ # <<>>
         THEN /\ conn' = [conn EXCEPT ![c] = Last(connections_)]
              /\ connections_' = Front(connections_)
              /\ UNCHANGED sockets
         ELSE LET n == CHOOSE n \in Unused : \A m \in Unused : n <= m
              IN conn' = [conn EXCEPT ![c] = n] /\ Connect(n, standalone_pool_)
                 /\ UNCHANGED connections_
    /\ lease' = [lease EXCEPT ![c] = standalone_pool_]
    /\ place' = [place EXCEPT ![c] = "held"] /\ at' = [at EXCEPT ![c] = 1]
    /\ got' = [got EXCEPT ![c] = <<>>]
    /\ UNCHANGED <<config, attempt, standalone_pool_, node, server, dangling>>

\* Mutant: keeps a connection whatever its state.
Release_Any(c) ==
    /\ connections_' = IF Len(connections_) < MaxSize /\ lease[c] = standalone_pool_
                         THEN Append(connections_, conn[c]) ELSE connections_
    /\ dangling' = (dangling \/ lease[c] # standalone_pool_)
\* Mutant: the bound is checked too late.
Release_OneMore(c) ==
    /\ connections_' = IF Len(connections_) <= MaxSize /\ conn[c] \in fd_' /\ lease[c] = standalone_pool_
                         THEN Append(connections_, conn[c]) ELSE connections_
    /\ dangling' = (dangling \/ lease[c] # standalone_pool_)
\* release(): an open connection goes back while there is room, in whatever
\* state the server has it.  A pool that was replaced is gone.
Release(c) ==
    /\ connections_' = IF Len(connections_) < MaxSize /\ conn[c] \in fd_' /\ lease[c] = standalone_pool_
                         THEN Append(connections_, conn[c]) ELSE connections_
    /\ dangling' = (dangling \/ lease[c] # standalone_pool_)

-----------------------------------------------------------------------------
(* RedisConnection *)

Failure == [t |-> "error"]

\* Mutant: a refused command leaves the transaction open.
Continues_NoDiscard(c, i, r) ==
    IF r = Failure /\ kind[c] = "exec" THEN Over(c)
    ELSE IF kind[c] = "exec" /\ i = 4 THEN Over(c) ELSE i + 1
\* Mutant: a pipeline stops at its first error.
Continues_AtError(c, i, r) ==
    IF r = Failure \/ (kind[c] = "exec" /\ i = 4) THEN Over(c) ELSE i + 1
\* The next command after reply r to command i: begin() and exec() give up at
\* the first error, exec() after a DISCARD; its EXEC is the last otherwise.
Continues(c, i, r) ==
    CASE Script(c)[i] = "multi" /\ r = Failure -> Over(c)
      [] kind[c] = "exec" /\ i \in {2, 3} /\ r = Failure -> 5
      [] kind[c] = "exec" /\ i = 4 -> Over(c)
      [] OTHER -> i + 1

\* Mutant: also with a single server.
Retries_Always(c, rs) == kind[c] = "command" /\ attempt[c] = 1 /\ Last(rs) = Failure
\* execute() asks Sentinel for the master and tries once more when the answer
\* is an error.
Retries(c, rs) ==
    mode_ = "sentinel" /\ kind[c] = "command" /\ attempt[c] = 1 /\ Last(rs) = Failure

\* Coroutine c has read the replies rs in all and goes on with command i.
Proceed(c, rs, i) ==
    /\ got' = [got EXCEPT ![c] = rs]
    /\ at' = [at EXCEPT ![c] = i]
    /\ IF i = Over(c)
         THEN /\ place' = [place EXCEPT ![c] = IF Retries(c, rs) THEN "discover" ELSE "over"]
              /\ conn' = [conn EXCEPT ![c] = None] /\ Release(c)
         ELSE /\ place' = [place EXCEPT ![c] = IF kind[c] = "pipeline" THEN "sent" ELSE "held"]
              /\ UNCHANGED <<conn, connections_, dangling>>
    /\ UNCHANGED <<config, attempt, lease, standalone_pool_, node>>

\* execute() and execute_pipeline() connect first when they must, and send; a
\* pipeline sends all its commands.
Send(c) ==
    /\ place[c] = "held" /\ conn[c] \in fd_ /\ conn[c] \in up
    /\ wire' = [wire EXCEPT ![conn[c]] = @ \o
           [j \in 1 .. Batch(c) |-> <<c, at[c] + j - 1>>]]
    /\ place' = [place EXCEPT ![c] = "sent"]
    /\ UNCHANGED <<config, at, attempt, conn, lease, got, pool, fd_, up, replies, multi, server, dangling>>

\* A closed connection is opened again before the command, without the MULTI
\* that was sent on it.
Reconnect(c) ==
    /\ place[c] = "held" /\ conn[c] \notin fd_ /\ node[lease[c]] = master
    /\ Connect(conn[c], lease[c])
    /\ UNCHANGED <<config, coroutine, pool, server, dangling>>

\* No connection, or a send that fails: the answers are errors.
SendFails(c) ==
    /\ place[c] = "held"
    /\ \/ conn[c] \notin fd_ /\ node[lease[c]] # master /\ UNCHANGED sockets
       \/ conn[c] \in fd_ /\ conn[c] \notin up /\ Close(conn[c])
    /\ Proceed(c, got[c] \o [j \in 1 .. Batch(c) |-> Failure], Continues(c, at[c] + Batch(c) - 1, Failure))
    /\ UNCHANGED server

\* read_response(): the first reply that is there.
Read(c) ==
    /\ place[c] = "sent" /\ replies[conn[c]] # <<>>
    /\ replies' = [replies EXCEPT ![conn[c]] = Tail(@)]
    /\ UNCHANGED <<fd_, up, wire, multi, server>>
    /\ LET r == Head(replies[conn[c]])
       IN Proceed(c, Append(got[c], r), Continues(c, at[c], r))

\* read_response() at the end of the stream: closes and answers an error, to
\* each command of a pipeline that is still without a reply.
ReadFails(c) ==
    /\ place[c] = "sent" /\ replies[conn[c]] = <<>> /\ conn[c] \notin up
    /\ Close(conn[c])
    /\ Proceed(c, Append(got[c], Failure), Continues(c, at[c], Failure))
    /\ UNCHANGED server

-----------------------------------------------------------------------------
(* RedisClient with Sentinel *)

\* discover_master(): answered by a Sentinel that knows the master, or by none.
\* The new pool replaces the old one, whose idle connections close.
Discover(c) ==
    /\ \/ place[c] = "discover"
       \/ place[c] = "start" /\ standalone_pool_ = None
    /\ \/ \E p \in Pools :
            /\ p = 1 + (IF standalone_pool_ = None THEN 0 ELSE standalone_pool_)
            /\ standalone_pool_' = p /\ node' = [node EXCEPT ![p] = master]
            /\ connections_' = <<>>
            /\ fd_' = fd_ \ Range(connections_) /\ up' = up \ Range(connections_)
            /\ place' = [place EXCEPT ![c] = "start"]
       \/ /\ place' = [place EXCEPT ![c] = "over"]
          /\ UNCHANGED <<pool, fd_, up>>
    /\ attempt' = [attempt EXCEPT ![c] = IF place[c] = "discover" THEN 2 ELSE @]
    /\ UNCHANGED <<config, at, conn, lease, got, wire, replies, multi, server, dangling>>

-----------------------------------------------------------------------------
(* The servers, from how the code uses them *)

\* The reply to request r on connection n, and the state it leaves.
Answer(n, reply, queued, writes) ==
    /\ wire' = [wire EXCEPT ![n] = Tail(@)]
    /\ replies' = [replies EXCEPT ![n] = Append(@, reply)]
    /\ multi' = [multi EXCEPT ![n] = queued]
    /\ applied' = applied \o writes
    /\ UNCHANGED <<config, coroutine, pool, fd_, up, master, breaks, dangling>>

Serve(n) ==
    /\ n \in up /\ wire[n] # <<>>
    /\ LET r == Head(wire[n])
           text == Script(r[1])[r[2]]
           open == multi[n].open
       IN \/ /\ \/ text = "multi" /\ open
                \/ text \in {"exec", "discard"} /\ ~open
             /\ Answer(n, Failure, multi[n], <<>>) /\ UNCHANGED refusals
          \/ text = "multi" /\ ~open /\ Answer(n, [t |-> "ok", r |-> r], [NoMulti EXCEPT !.open = TRUE], <<>>) /\ UNCHANGED refusals
          \/ text = "discard" /\ open /\ Answer(n, [t |-> "ok", r |-> r], NoMulti, <<>>) /\ UNCHANGED refusals
          \/ /\ text = "exec" /\ open
             /\ Answer(n, [t |-> "array", r |-> r], NoMulti, multi[n].queue) /\ UNCHANGED refusals
          \/ /\ text = "write" /\ open
             /\ Answer(n, [t |-> "queued", r |-> r], [multi[n] EXCEPT !.queue = Append(@, r)], <<>>) /\ UNCHANGED refusals
          \/ /\ text = "write" /\ ~open
             /\ Answer(n, [t |-> "value", r |-> r], NoMulti, <<r>>) /\ UNCHANGED refusals
          \/ /\ text = "write" /\ refusals < MaxRefusals /\ refusals' = refusals + 1
             /\ Answer(n, Failure, multi[n], <<>>)

\* The server closes a connection; replies on their way arrive or are lost.
Break(n) ==
    /\ n \in up /\ breaks < MaxBreaks
    /\ breaks' = breaks + 1
    /\ up' = up \ {n}
    /\ wire' = [wire EXCEPT ![n] = <<>>] /\ multi' = [multi EXCEPT ![n] = NoMulti]
    /\ \E kept \in {replies[n], <<>>} : replies' = [replies EXCEPT ![n] = kept]
    /\ UNCHANGED <<config, coroutine, pool, fd_, master, applied, refusals, dangling>>

\* A replica becomes master: the old one closes its connections.
Failover ==
    /\ mode_ = "sentinel" /\ master = 1 /\ breaks < MaxBreaks
    /\ master' = 2 /\ breaks' = breaks + 1
    /\ up' = {}
    /\ wire' = [n \in Conns |-> <<>>] /\ replies' = [n \in Conns |-> <<>>]
    /\ multi' = [n \in Conns |-> NoMulti]
    /\ UNCHANGED <<config, coroutine, pool, fd_, applied, refusals, dangling>>

Rest == (\A c \in Clients : place[c] = "over") /\ UNCHANGED vars

Runs(c) == Acquire(c) \/ Send(c) \/ Reconnect(c) \/ SendFails(c) \/ Read(c) \/ ReadFails(c) \/ Discover(c)
Next ==
    \/ \E c \in Clients : Runs(c)
    \/ \E n \in Conns : Serve(n) \/ Break(n)
    \/ Failover \/ Rest
Spec ==
    /\ Init /\ [][Next]_vars
    /\ \A c \in Clients : WF_vars(Runs(c))
    /\ \A n \in Conns : WF_vars(Serve(n))

-----------------------------------------------------------------------------
\* No two coroutines, and no coroutine and the pool, hold a connection, the pool
\* keeps at most max_size_, all of them open, and nothing is under way on an
\* idle one, so that its next user reads no reply that is not its own.
PoolAccounted ==
    /\ \A c, d \in Clients : c # d /\ conn[c] # None => conn[c] # conn[d]
    /\ Range(conn) \cap Range(connections_) = {}
    /\ IsInjective(connections_) /\ Len(connections_) <= MaxSize
    /\ \A n \in Range(connections_) : n \in fd_ /\ wire[n] = <<>> /\ replies[n] = <<>>

\* Every reply a coroutine reads, but for an error, answers a command of its
\* own, and the replies come in the order of the commands.
OwnAnswer ==
    \A c \in Clients : \A i \in DOMAIN got[c] :
        LET r == got[c][i]
        IN r # Failure => r.r[1] = c /\ r.r[2] >= i /\ (kind[c] # "exec" => r.r[2] = i)

\* How often the server has run request r.
Executions(r) == Cardinality({i \in DOMAIN applied : applied[i] = r})
\* Transactions are all or nothing and uninterrupted; a write whose answer is
\* not an error has run, unless a transaction was dropped, which gives its
\* connection back inside the MULTI; and a request runs twice only when execute()
\* repeats it after a failover or a lost answer.
WritesExact ==
    /\ \A c \in Clients : kind[c] = "exec" =>
          /\ \A i \in DOMAIN applied : applied[i] = <<c, 2>> =>
                i < Len(applied) /\ applied[i + 1] = <<c, 3>>
          /\ Executions(<<c, 2>>) = Executions(<<c, 3>>)
    /\ \A c \in Clients : \A i \in DOMAIN got[c] :
          /\ kind[c] \in {"command", "pipeline"} /\ got[c][i] # Failure
                => Executions(<<c, i>>) > 0 \/ \E d \in Clients : kind[d] = "dropped"
          /\ got[c][i].t = "array" => Executions(<<c, 2>>) > 0
    /\ \A c \in Clients, i \in 1 .. 3 : Executions(<<c, i>>) <= attempt[c]

\* A guard's pool is there when it gives its connection back, unless Sentinel
\* had another coroutine of the client replace the pool in the meantime.
GuardsSafe == dangling => mode_ = "sentinel" /\ \E c \in Clients : attempt[c] = 2

\* Every call returns.
Ended(c) == place[c] = "over"
CallsEnd == \A c \in Clients : <>Ended(c)
=============================================================================

---------------------------- MODULE QuicServers ----------------------------
(***************************************************************************)
(* The two UDP front ends that route QUIC datagrams to connections by      *)
(* connection id: Http3Server (src/http/v3/Http3Server.cpp), whose receive *)
(* loop drains bursts and flushes the connections it touched afterwards,   *)
(* and the stand-alone QuicServer (src/net/quic/QuicServer.cpp).  Each has *)
(* a receive loop and a timer loop on one event loop.                      *)
(*                                                                         *)
(* A connection is what feed_datagram and handle_expiry make of it: it may *)
(* announce or retire an id, close, or suspend in a handler.  External:    *)
(* ngtcp2, the clients and the network.                                    *)
(***************************************************************************)
EXTENDS Naturals, FiniteSets, FiniteSetsExt

CONSTANTS
    Conns,     \* connection objects
    MaxIds,    \* connection ids in all, drawn at random: no two are the same
    Burst,     \* BURST_BATCH
    MaxBursts, \* datagrams received in all
    None

ServersAssumption == {MaxIds, Burst, MaxBursts} \subseteq Nat

Ids == 1..MaxIds

VARIABLES
    server,        \* "http3" or "quic"
    running_, pc,
    connections_,  \* [id -> connection or None]
    conn,          \* [c -> "none", "open", "closed"]
    scids_,        \* [c -> ids it announced to its client]
    first,         \* [c -> the ids of init: <<the client's choice, its own>>]
    held,          \* the connection dispatch_datagram_internal keeps alive
    touched,       \* raw pointers the receive loop will flush
    left,          \* datagrams of the burst still to dispatch
    drawn,         \* ids drawn so far
    received,      \* datagrams received so far
    pruned,        \* connections pruned while a handler was suspended
    undefined      \* a container was changed while the timer iterated over it

vars == <<server, running_, pc, connections_, conn, scids_, first, held, touched, left,
          drawn, received, pruned, undefined>>

Init ==
    /\ server \in {"http3", "quic"}
    /\ running_ = TRUE /\ pc = "wait"
    /\ connections_ = [i \in Ids |-> None]
    /\ conn = [c \in Conns |-> "none"]
    /\ scids_ = [c \in Conns |-> {}]
    /\ first = [c \in Conns |-> <<0, 0>>]
    /\ held = None /\ touched = {} /\ left = 0 /\ drawn = 0 /\ received = 0
    /\ pruned = {} /\ undefined = FALSE

Registered(c) == \E i \in Ids : connections_[i] = c

\* The callbacks of QuicServer capture a shared_ptr of the connection itself.
Alive(c) == Registered(c) \/ held = c \/ (server = "quic" /\ conn[c] # "none")

-----------------------------------------------------------------------------
(* What one call into a connection may do to the map, after it left table:  *)
(* nothing, announce a fresh id (add_source_conn_id and the callback), or   *)
(* retire one (remove_source_conn_id and the callback).                     *)

add_source_conn_id(c, table, n) ==
    /\ n < MaxIds
    /\ drawn' = n + 1
    /\ scids_' = [scids_ EXCEPT ![c] = @ \cup {n + 1}]
    /\ connections_' = [table EXCEPT ![n + 1] = c]

\* Mutant: a retired id stays in the map.
remove_source_conn_id_Kept(c, table, n) ==
    \E i \in scids_[c] :
        /\ scids_' = [scids_ EXCEPT ![c] = @ \ {i}]
        /\ connections_' = table
        /\ drawn' = n

remove_source_conn_id(c, table, n) ==
    \E i \in scids_[c] :
        /\ scids_' = [scids_ EXCEPT ![c] = @ \ {i}]
        /\ connections_' = [table EXCEPT ![i] = None]
        /\ drawn' = n

NoCallback(table, n) == /\ connections_' = table /\ drawn' = n
                        /\ UNCHANGED scids_

Callback(c, table, n) ==
    add_source_conn_id(c, table, n) \/ remove_source_conn_id(c, table, n)

\* feed_datagram: callbacks, and the connection stays open or ends.
feed_datagram(c, table, n, end) ==
    /\ conn' = [conn EXCEPT ![c] = end]
    /\ NoCallback(table, n) \/ Callback(c, table, n)

-----------------------------------------------------------------------------
(* Http3Server: one datagram to id i, with a long header or a short one.    *)

\* The connection found, or the one made for a long header and mapped under the
\* client's id and its own.
Fresh == {c \in Conns : conn[c] = "none"}

Unknown(i, long) == connections_[i] = None /\ ~(long /\ Fresh # {} /\ drawn < MaxIds)

\* Mutant: only the client's own choice of id is entered in the map.
MappedNew_DcidOnly(i, own, c) == [connections_ EXCEPT ![i] = c]

MappedNew(i, own, c) == [connections_ EXCEPT ![i] = c, ![own] = c]

Init_(i, c) ==
    /\ c \in Fresh /\ drawn < MaxIds
    /\ first' = [first EXCEPT ![c] = <<i, drawn + 1>>]
    /\ scids_' = [scids_ EXCEPT ![c] = {drawn + 1}]
    /\ connections_' = MappedNew(i, drawn + 1, c)
    /\ drawn' = drawn + 1

\* dispatch_datagram_internal up to the await: held keeps the connection.
dispatch_datagram_internal(i, long) ==
    \/ /\ connections_[i] # None
       /\ held' = connections_[i]
       /\ \E end \in {conn[connections_[i]], "closed"} :
             feed_datagram(connections_[i], connections_, drawn, end)
       /\ UNCHANGED first
    \/ /\ connections_[i] = None /\ long
       /\ \E c \in Fresh : /\ Init_(i, c) /\ held' = c
                           /\ conn' = [conn EXCEPT ![c] = "open"]
    \/ /\ Unknown(i, long)
       /\ held' = None
       /\ UNCHANGED <<connections_, conn, scids_, first, drawn>>

\* Ids a client can address: drawn by the server, or its own fresh choice.
Receive(i, long) ==
    /\ server = "http3" /\ running_ /\ received < MaxBursts
    /\ \/ pc = "wait" /\ UNCHANGED left
       \/ pc = "burst" /\ left > 0 /\ left' = left - 1
    /\ received' = received + 1
    /\ dispatch_datagram_internal(i, long)
    /\ pc' = "fed"
    /\ UNCHANGED <<server, running_, touched, pruned, undefined>>

\* The await returns, at once or after the handler's suspension: the shared_ptr
\* goes, its raw pointer is recorded.
record_touched ==
    /\ pc = "fed"
    /\ touched' = IF held = None THEN touched ELSE touched \cup {held}
    /\ held' = None
    /\ pc' = "burst"
    /\ UNCHANGED <<server, running_, connections_, conn, scids_, first, left, drawn, received,
                   pruned, undefined>>

recvmmsg(n) ==
    /\ pc = "burst" /\ left = 0 /\ n \in 1..Burst
    /\ left' = n
    /\ UNCHANGED <<server, running_, pc, connections_, conn, scids_, first, held, touched,
                   drawn, received, pruned, undefined>>

\* flush_touched looks at every connection it recorded and flushes the open ones.
flush_touched ==
    /\ pc = "burst" /\ left = 0
    /\ NoCallback(connections_, drawn)
       \/ \E c \in touched : conn[c] = "open" /\ Callback(c, connections_, drawn)
    /\ touched' = {} /\ pruned' = {}
    /\ pc' = "wait"
    /\ UNCHANGED <<server, running_, conn, first, held, left, received, undefined>>

-----------------------------------------------------------------------------
(* The timer: check_expiries, then prune_connections.  A callback during    *)
(* the iteration changes the map under it.                                  *)

\* Mutant: a connection that expired is erased at once, open or not.
prune_connections_All(table, cs) == [i \in Ids |-> IF table[i] \in DOMAIN cs THEN None ELSE table[i]]

prune_connections(table, cs) ==
    [i \in Ids |-> IF table[i] # None /\ cs[table[i]] = "closed" THEN None ELSE table[i]]

run_timer_loop ==
    /\ running_ /\ pc \in {"wait", "fed"}
    /\ server = "http3"
    /\ \E c \in Conns, end \in {"open", "closed"} :
         /\ Registered(c) /\ conn[c] = "open"
         /\ conn' = [conn EXCEPT ![c] = end]
         /\ LET table == prune_connections(connections_, conn')
            IN  /\ \/ NoCallback(table, drawn) /\ UNCHANGED undefined
                   \/ end = "open" /\ Callback(c, table, drawn) /\ undefined' = TRUE
                /\ pruned' = IF pc = "fed" THEN pruned \cup {k \in touched \cup ({held} \ {None}) :
                                                         conn'[k] = "closed"}
                             ELSE pruned
    /\ UNCHANGED <<server, running_, pc, first, held, touched, left, received>>

stop ==
    /\ running_ /\ pc = "wait"
    /\ running_' = FALSE /\ pc' = "stopped"
    /\ connections_' = [i \in Ids |-> None]
    /\ UNCHANGED <<server, conn, scids_, first, held, touched, left, drawn, received, pruned,
                   undefined>>

-----------------------------------------------------------------------------
(* QuicServer: no coroutine between lookup and use.  A short header that    *)
(* finds no connection also makes one, under the id it carries; the id the  *)
(* connection draws for itself is not announced to the map.                 *)
dispatch_datagram(i, long) ==
    /\ server = "quic" /\ running_ /\ pc = "wait" /\ received < MaxBursts
    /\ received' = received + 1
    /\ \/ /\ connections_[i] # None
          /\ \E end \in {conn[connections_[i]], "closed"} :
                feed_datagram(connections_[i], connections_, drawn, end)
          /\ UNCHANGED first
       \/ /\ connections_[i] = None
          /\ \E c \in Fresh :
               /\ drawn < MaxIds
               /\ first' = [first EXCEPT ![c] = <<i, drawn + 1>>]
               /\ scids_' = [scids_ EXCEPT ![c] = {drawn + 1}]
               /\ connections_' = [connections_ EXCEPT ![i] = c]
               /\ drawn' = drawn + 1
               /\ conn' = [conn EXCEPT ![c] = "open"]
    /\ UNCHANGED <<server, running_, pc, held, touched, left, pruned, undefined>>

\* The timer erases closed connections as it goes and ticks the others.
quic_timer_loop ==
    /\ running_ /\ pc = "wait" /\ server = "quic"
    /\ \E c \in Conns :
         /\ Registered(c)
         /\ LET table == prune_connections(connections_, conn)
            IN  \/ NoCallback(table, drawn) /\ UNCHANGED undefined
                \/ conn[c] = "open" /\ Callback(c, table, drawn) /\ undefined' = TRUE
    /\ UNCHANGED <<server, running_, pc, conn, first, held, touched, left, received, pruned>>

\* A client's own choice of id is fresh: it is drawn before the datagram goes.
Choose ==
    /\ running_ /\ pc = "wait" /\ drawn < MaxIds
    /\ drawn' = drawn + 1
    /\ UNCHANGED <<server, running_, pc, connections_, conn, scids_, first, held, touched,
                   left, received, pruned, undefined>>

Rest == /\ pc = "stopped" \/ received = MaxBursts
        /\ UNCHANGED vars

Next ==
    \/ Choose
    \/ \E i \in 1..drawn, long \in BOOLEAN : Receive(i, long) \/ dispatch_datagram(i, long)
    \/ record_touched \/ \E n \in 1..Burst : recvmmsg(n)
    \/ flush_touched
    \/ run_timer_loop \/ quic_timer_loop
    \/ stop
    \/ Rest

Spec == Init /\ [][Next]_vars

-----------------------------------------------------------------------------
(* Properties.                                                             *)

(* The map leads where it should, through creation, announcements,          *)
(* retirements, pruning and bursts: an id leads to the connection that was  *)
(* made for it or drew it, and every id an open registered connection drew  *)
(* and has not retired leads to it.  QuicServer never enters the id a       *)
(* connection drew in init, the one exception.  Nothing is claimed once the *)
(* timer's iteration was disturbed by a callback.                           *)
RoutesRight ==
    ~undefined =>
        /\ \A i \in Ids : connections_[i] # None =>
               i \in scids_[connections_[i]] \cup {first[connections_[i]][1]}
        /\ \A c \in Conns : Registered(c) /\ conn[c] = "open" /\ running_ =>
               \A i \in scids_[c] :
                   connections_[i] = c \/ (server = "quic" /\ i = first[c][2])

(* The receive loop flushes through raw pointers after the shared_ptr is    *)
(* gone: what it recorded is still alive, unless the timer pruned it while  *)
(* its own handler or another one of the burst was suspended.              *)
TouchedAlive ==
    \A c \in touched : Alive(c) \/ c \in pruned
=============================================================================

---------------------------- MODULE SqlPoolProofs ---------------------------
(***************************************************************************)
(* The properties of SqlPool, for any number of coroutines and connections.*)
(***************************************************************************)
EXTENDS SqlPool, TLAPS

\* Where a coroutine can be, with which connection and statement.
Places(c) ==
    /\ conn[c] \in 0 .. made
    /\ place[c] = "idle" => conn[c] = None
    /\ Holding(c) => conn[c] # None
    /\ place[c] = "idle" \/ Holding(c) => at[c] <= Len(Script(c))
    /\ place[c] = "done" => at[c] = Len(Script(c)) + 1
    /\ place[c] \in {"flush", "wait"} => pipelined
    /\ place[c] = "flush" => conn[c] \in waited

\* Which connections there are.
Opened ==
    /\ \A i \in DOMAIN available : available[i] \in 1 .. made
    /\ IF pipelined THEN available = <<>> /\ all_connections = [i \in 1 .. made |-> i]
                    ELSE all_connections = <<>>

Placed == (\A c \in Clients : Places(c)) /\ Opened

\* The coroutines of in_flight_ wait on that connection, each of them once.
WaitingAt(k) ==
    /\ IsInjective(in_flight_[k])
    /\ \A i \in DOMAIN in_flight_[k] :
        place[in_flight_[k][i]] = "wait" /\ conn[in_flight_[k][i]] = k

Waiting == \A k \in Conns : WaitingAt(k)

\* The statements of a connection that were sent and whose results the reader
\* has not passed on, in order.
Behind(k) == (inbuf[k] \o replies[k]) \o wire[k]

\* As long as no flush found the socket full, they are those of the coroutines in
\* in_flight_; of a connection that broke the last ones are lost.
AlignedAt(k) ==
    /\ unsent[k] = <<>>
    /\ Len(Behind(k)) <= Len(in_flight_[k])
    /\ k \notin dead => Len(Behind(k)) = Len(in_flight_[k])
    /\ \A i \in 1 .. Len(Behind(k)) : Behind(k)[i] = Mine(in_flight_[k][i])

Aligned ==
    /\ \A k \in dead : wire[k] = <<>>
    /\ \A k \in Conns \ waited : AlignedAt(k)

IInv == TypeOK /\ Exclusive /\ Placed /\ Waiting /\ Aligned /\ OwnResult

-----------------------------------------------------------------------------
(***************************************************************************)
(* Sequences.                                                              *)
(***************************************************************************)
LEMMA Joined ==
    ASSUME NEW T, NEW s \in Seq(T), NEW t \in Seq(T)
    PROVE  /\ s \o t \in Seq(T) /\ Len(s \o t) = Len(s) + Len(t)
           /\ \A i \in 1 .. Len(s) + Len(t) :
                (s \o t)[i] = IF i <= Len(s) THEN s[i] ELSE t[i - Len(s)]
OBVIOUS

LEMMA Regrouped ==
    ASSUME NEW T, NEW s \in Seq(T), NEW t \in Seq(T), NEW u \in Seq(T)
    PROVE  (s \o t) \o u = s \o (t \o u)
OBVIOUS

LEMMA JoinedEmpty ==
    ASSUME NEW T, NEW s \in Seq(T)
    PROVE  s \o <<>> = s /\ <<>> \o s = s
OBVIOUS

LEMMA JoinedOne ==
    ASSUME NEW T, NEW s \in Seq(T), NEW e \in T
    PROVE  Append(s, e) = s \o <<e>>
OBVIOUS

LEMMA HeadAndTail ==
    ASSUME NEW T, NEW s \in Seq(T), s # <<>>
    PROVE  /\ Head(s) = s[1] /\ Head(s) \in T
           /\ Tail(s) \in Seq(T) /\ Len(Tail(s)) = Len(s) - 1
           /\ \A i \in 1 .. Len(s) - 1 : Tail(s)[i] = s[i + 1]
OBVIOUS

LEMMA Sliced ==
    ASSUME NEW T, NEW s \in Seq(T), NEW m \in 1 .. Len(s) + 1, NEW n \in m - 1 .. Len(s)
    PROVE  /\ SubSeq(s, m, n) \in Seq(T) /\ Len(SubSeq(s, m, n)) = n - m + 1
           /\ \A i \in 1 .. n - m + 1 : SubSeq(s, m, n)[i] = s[m + i - 1]
OBVIOUS

LEMMA SlicedWhole ==
    ASSUME NEW T, NEW s \in Seq(T)
    PROVE  SubSeq(s, 1, Len(s)) = s /\ SubSeq(s, Len(s) + 1, Len(s)) = <<>>
OBVIOUS

LEMMA SameItems ==
    ASSUME NEW T, NEW s \in Seq(T), NEW t \in Seq(T), Len(s) = Len(t),
           \A i \in 1 .. Len(s) : s[i] = t[i]
    PROVE  s = t
OBVIOUS

-----------------------------------------------------------------------------
(***************************************************************************)
(* Operators of the model.                                                 *)
(***************************************************************************)
\* Connections are numbered from 1.
LEMMA Numbered ==
    ASSUME SqlAssumption
    PROVE  Conns \subseteq Nat \ {0} /\ MaxCapacity + MaxBreaks \in Nat
BY DEF SqlAssumption, Conns

\* A script has one statement or three.
LEMMA Scripts ==
    ASSUME NEW c \in Clients, kind \in [Clients -> {"auto", "commit", "rollback"}]
    PROVE  /\ kind[c] = "auto" => Script(c) = <<"write">>
           /\ kind[c] = "commit" => Script(c) = <<"begin", "write", "commit">>
           /\ kind[c] = "rollback" => Script(c) = <<"begin", "write", "rollback">>
           /\ Len(Script(c)) \in {1, 3}
           /\ Len(Script(c)) = 1 <=> kind[c] = "auto"
<1>1. CASE kind[c] = "auto"
  BY <1>1, Zenon DEF Script
<1>2. CASE kind[c] = "commit"
  BY <1>2 DEF Script
<1>3. CASE kind[c] = "rollback"
  BY <1>3 DEF Script
<1> QED  BY <1>1, <1>2, <1>3, Zenon

\* Which connections a pool has, in either mode.
LEMMA Mode ==
    ASSUME SqlAssumption, IInv
    PROVE  /\ made \in Nat
           /\ pipelined => available = <<>> /\ Len(all_connections) = made
           /\ ~pipelined => all_connections = <<>>
<1>1. made \in Nat
  BY Numbered DEF IInv, TypeOK
<1> QED  BY <1>1 DEF IInv, Placed, Opened

\* A coroutine that holds a connection has a statement left, on that connection.
LEMMA Holds ==
    ASSUME SqlAssumption, IInv, NEW c \in Clients, Holding(c)
    PROVE  /\ conn[c] \in Conns /\ conn[c] \in 1 .. made
           /\ at[c] \in 1 .. Len(Script(c)) /\ Len(Script(c)) \in {1, 3}
           /\ Mine(c) \in Message
<1>1. conn[c] \in 0 .. made /\ conn[c] # None /\ at[c] <= Len(Script(c)) /\ TypeOK
  BY Zenon DEF IInv, Placed, Places
<1>2. Len(Script(c)) \in {1, 3}
  BY <1>1, Scripts, Zenon DEF TypeOK
<1>3. made \in Nat /\ conn[c] \in Conns /\ at[c] \in 1 .. 4
  BY <1>1, Numbered DEF TypeOK, SqlAssumption, None
<1>4. at[c] \in 1 .. 3 /\ at[c] \in 1 .. Len(Script(c)) /\ conn[c] \in 1 .. made
  <2>1. conn[c] \in 1 .. made
    BY <1>1, <1>3 DEF None
  <2>2. CASE Len(Script(c)) = 1
    BY <1>1, <1>3, <2>1, <2>2
  <2>3. CASE Len(Script(c)) = 3
    BY <1>1, <1>3, <2>1, <2>3
  <2> QED  BY <1>2, <2>2, <2>3, Zenon
<1>5. Mine(c) \in Message
  BY <1>4, Zenon DEF Mine, Message
<1> QED  BY <1>2, <1>3, <1>4, <1>5, Zenon

\* The first of the coroutines that wait for a result.
LEMMA FirstWaiter ==
    ASSUME TypeOK, NEW k \in Conns, in_flight_[k] # <<>>
    PROVE  /\ in_flight_[k][1] \in Clients /\ 1 \in DOMAIN in_flight_[k]
           /\ Head(in_flight_[k]) = in_flight_[k][1]
<1>1. in_flight_[k] \in Seq(Clients)
  BY Zenon DEF TypeOK
<1> QED  BY <1>1

\* What a flush of the first n statements leaves.
LEMMA Flushed ==
    ASSUME TypeOK, NEW k \in Conns, NEW buffer \in Seq(Message), NEW n \in 0 .. Len(buffer),
           Flush(k, buffer, n)
    PROVE  /\ unsent' \in [Conns -> Seq(Message)] /\ wire' \in [Conns -> Seq(Message)]
           /\ \A j \in Conns \ {k} : unsent'[j] = unsent[j] /\ wire'[j] = wire[j]
           /\ k \in dead => wire'[k] = <<>>
           /\ k \notin dead => wire'[k] = wire[k] \o SubSeq(buffer, 1, n)
           /\ unsent'[k] = SubSeq(buffer, n + 1, Len(buffer))
           /\ n = Len(buffer) => /\ unsent'[k] = <<>>
                                 /\ k \notin dead => wire'[k] = wire[k] \o buffer
<1>1. SubSeq(buffer, n + 1, Len(buffer)) \in Seq(Message) /\ SubSeq(buffer, 1, n) \in Seq(Message)
  BY Sliced
<1>2. n = Len(buffer) => SubSeq(buffer, n + 1, Len(buffer)) = <<>> /\ SubSeq(buffer, 1, n) = buffer
  BY SlicedWhole, Zenon
<1>3. wire[k] \in Seq(Message) /\ wire[k] \o SubSeq(buffer, 1, n) \in Seq(Message) /\ <<>> \in Seq(Message)
  BY <1>1, Joined DEF TypeOK
<1> QED  BY <1>1, <1>2, <1>3, Zenon DEF Flush, TypeOK

\* A statement leaves a session, and commits marks of its own session only.
LEMMA Executes ==
    ASSUME TypeOK, NEW k \in Conns, NEW m \in Message, Execute(k, m)
    PROVE  /\ session' \in [Conns -> [open : BOOLEAN, marks : SUBSET Clients]]
           /\ \A j \in Conns \ {k} : session'[j] = session[j]
           /\ session'[k] = Executed(session[k], m)
           /\ committed' = committed \cup NowCommitted(session[k], m)
           /\ committed' \subseteq Clients
           /\ session'[k].marks \subseteq session[k].marks \cup {m.c}
           /\ NowCommitted(session[k], m) \subseteq session[k].marks \cup {m.c}
<1>1. session[k] \in [open : BOOLEAN, marks : SUBSET Clients] /\ m.c \in Clients
  BY Zenon DEF TypeOK, Message
<1>2. /\ Executed(session[k], m) \in [open : BOOLEAN, marks : SUBSET Clients]
      /\ Executed(session[k], m).marks \subseteq session[k].marks \cup {m.c}
  <2>1. CASE Text(m) = "begin"
    BY <2>1, <1>1, Zenon DEF Executed
  <2>2. CASE Text(m) = "write" /\ session[k].open
    BY <2>2, <1>1, Zenon DEF Executed
  <2>3. CASE Text(m) = "write" /\ ~session[k].open
    BY <2>3, <1>1, Zenon DEF Executed
  <2>4. CASE ~(Text(m) \in {"begin", "write"})
    BY <2>4, <1>1, Zenon DEF Executed, Fresh
  <2> QED  BY <2>1, <2>2, <2>3, <2>4, Zenon
<1>3. NowCommitted(session[k], m) \subseteq session[k].marks \cup {m.c}
  <2>1. CASE Text(m) = "write" /\ ~session[k].open
    BY <2>1, <1>1, Zenon DEF NowCommitted
  <2>2. CASE Text(m) = "commit"
    BY <2>2, <1>1, Zenon DEF NowCommitted
  <2>3. CASE ~(Text(m) = "write" /\ ~session[k].open) /\ Text(m) # "commit"
    BY <2>3, <1>1, Zenon DEF NowCommitted
  <2> QED  BY <2>1, <2>2, <2>3, Zenon
<1>4. session' = [session EXCEPT ![k] = Executed(session[k], m)]
  BY Zenon DEF Execute
<1> QED  BY <1>1, <1>2, <1>3, <1>4 DEF TypeOK, Execute

\* A coroutine that has its result goes on with its script.
LEMMA Goes ==
    ASSUME SqlAssumption, IInv, NEW c \in Clients, Holding(c), Continues(c)
    PROVE  /\ at' \in [Clients -> 1 .. 4]
           /\ place' \in [Clients -> {"idle", "run", "flush", "wait", "done", "failed"}]
           /\ \A d \in Clients \ {c} : at'[d] = at[d] /\ place'[d] = place[d]
           /\ at'[c] = at[c] + 1
           /\ at[c] = Len(Script(c)) => place'[c] = "done"
           /\ at[c] # Len(Script(c)) => place'[c] = "run"
<1>1. at[c] + 1 \in 1 .. 4
  <2>1. at[c] \in 1 .. 3
    BY Holds, Zenon DEF Mine, Message
  <2> QED  BY <2>1
<1> QED  BY <1>1, Zenon DEF IInv, TypeOK, Continues

-----------------------------------------------------------------------------
(***************************************************************************)
(* Every step keeps the types.                                             *)
(***************************************************************************)
\* A lease that ends puts its connection back or destroys it.
LEMMA Returned ==
    ASSUME TypeOK, NEW k \in Conns, NEW invalid, Release(k, invalid)
    PROVE  available' \in Seq(Conns) /\ total_spawned' \in Int
<1>1. available \in Seq(Conns) /\ total_spawned \in Int
  BY Zenon DEF TypeOK
<1>2. Append(available, k) \in Seq(Conns) /\ total_spawned - 1 \in Int
  BY <1>1
<1> QED  BY <1>1, <1>2, Zenon DEF Release

LEMMA TypeStep ==
    ASSUME SqlAssumption, IInv, [Next]_vars
    PROVE  TypeOK'
<1>0. TypeOK
  BY Zenon DEF IInv
<1>1. ASSUME NEW c \in Clients, AcquireShared(c)
      PROVE  TypeOK'
  <2>1. PICK n \in IF all_connections = <<>> THEN 0 .. capacity_ ELSE {Len(all_connections)} :
            /\ all_connections' = [i \in 1 .. n |-> i] /\ made' = n /\ total_spawned' = n
            /\ Fails(c) \/ \E k \in LeastLoaded(n) : Starts(c, k)
    BY <1>1, Zenon DEF AcquireShared
  <2>2. n \in 0 .. MaxCapacity + MaxBreaks /\ made <= n
    <3>1. pipelined /\ made = Len(all_connections)
      BY <1>1, Mode, Zenon DEF AcquireShared
    <3> QED  BY <3>1, <2>1, <1>0, Numbered DEF TypeOK, SqlAssumption
  <2>3. [i \in 1 .. n |-> i] \in Seq(Conns) /\ LeastLoaded(n) \subseteq Conns
    BY <2>2, Numbered DEF Conns, LeastLoaded
  <2>4. place' \in [Clients -> {"idle", "run", "flush", "wait", "done", "failed"}]
        /\ conn' \in [Clients -> Conns \cup {None}]
    <3>1. CASE Fails(c)
      BY <3>1, <1>0, Zenon DEF Fails, TypeOK
    <3>2. CASE \E k \in LeastLoaded(n) : Starts(c, k)
      <4>1. PICK k \in Conns : Starts(c, k)
        BY <3>2, <2>3, Zenon
      <4> QED  BY <4>1, <1>0, Zenon DEF Starts, TypeOK
    <3> QED  BY <3>1, <3>2, <2>1, Zenon
  <2>5. dead \subseteq 1 .. n
    BY <2>2, <1>0, Numbered DEF TypeOK
  <2>6. made' \in 0 .. MaxCapacity + MaxBreaks /\ dead \subseteq 1 .. made' /\ total_spawned' \in Int
        /\ all_connections' \in Seq(Conns)
    BY <2>1, <2>2, <2>3, <2>5
  <2>7. UNCHANGED <<made_as, at, available, libpq, server, waited, misled>>
    BY <1>1, Zenon DEF AcquireShared
  <2> QED  BY <1>0, <2>4, <2>6, <2>7, Zenon DEF TypeOK, made_as, libpq, server
<1>2. ASSUME NEW c \in Clients, AcquireLease(c)
      PROVE  TypeOK'
  <2>0. /\ UNCHANGED <<made_as, at, all_connections, libpq, server, waited, misled>>
        /\ Len(available) \in Int /\ <<>> \in Seq(Conns)
    BY <1>0, <1>2 DEF AcquireLease, TypeOK
  <2>1. CASE LastValid # {}
    <3>1. PICK i \in LastValid : /\ Starts(c, available[i])
                                 /\ available' = SubSeq(available, 1, i - 1)
                                 /\ total_spawned' = total_spawned - (Len(available) - i)
                                 /\ UNCHANGED made
      BY <1>2, <2>1, Zenon DEF AcquireLease
    <3>2. i \in 1 .. Len(available) /\ available[i] \in Conns /\ total_spawned' \in Int
      BY <3>1, <2>0, <1>0 DEF LastValid, TypeOK
    <3>3. available' \in Seq(Conns)
      BY <3>1, <3>2, <1>0, Sliced DEF TypeOK
    <3> QED  BY <3>1, <3>2, <3>3, <2>0, <1>0, Zenon DEF TypeOK, Starts, made_as, libpq, server
  <2>2. CASE LastValid = {}
    <3>1. available' = <<>>
      BY <2>2, <1>2, Zenon DEF AcquireLease
    <3>2. CASE /\ made + 1 \in Conns /\ Starts(c, made + 1) /\ made' = made + 1
               /\ total_spawned' = total_spawned - Len(available) + 1
      <4>1. made' \in 0 .. MaxCapacity + MaxBreaks /\ dead \subseteq 1 .. made' /\ total_spawned' \in Int
        BY <3>2, <2>0, <1>0, Numbered DEF TypeOK, Conns
      <4>2. /\ place' \in [Clients -> {"idle", "run", "flush", "wait", "done", "failed"}]
            /\ conn' \in [Clients -> Conns \cup {None}]
        BY <3>2, <1>0, Zenon DEF TypeOK, Starts
      <4> QED  BY <4>1, <4>2, <3>1, <2>0, <1>0, Zenon DEF TypeOK, made_as, libpq, server
    <3>3. CASE Fails(c) /\ total_spawned' = total_spawned - Len(available) /\ made' = made
      BY <3>1, <3>3, <2>0, <1>0 DEF TypeOK, Fails, made_as, libpq, server
    <3> QED  BY <3>2, <3>3, <2>2, <1>2, Zenon DEF AcquireLease
  <2> QED  BY <2>1, <2>2, Zenon
<1>3. ASSUME NEW c \in Clients, Blocking(c)
      PROVE  TypeOK'
  <2>1. Holding(c) /\ Execute(conn[c], Mine(c)) /\ Continues(c)
    BY <1>3, Zenon DEF Blocking, Holding
  <2>2. conn[c] \in Conns /\ Mine(c) \in Message
    BY <2>1, Holds, Zenon
  <2>3. /\ session' \in [Conns -> [open : BOOLEAN, marks : SUBSET Clients]]
        /\ committed' \subseteq Clients
    BY <2>1, <2>2, <1>0, Executes, Zenon
  <2>4. available' \in Seq(Conns) /\ total_spawned' \in Int
    <3>1. CASE Release(conn[c], bad)
      BY <3>1, <1>0, <2>2, Returned
    <3>2. CASE UNCHANGED <<available, total_spawned>>
      BY <3>2, <1>0, Zenon DEF TypeOK
    <3> QED  BY <1>3, <3>1, <3>2, Zenon DEF Blocking
  <2> QED  BY <1>0, <1>3, <2>1, <2>3, <2>4, Goes, Zenon
              DEF Blocking, TypeOK, made_as, client, pool, libpq, server
<1>4. ASSUME NEW c \in Clients, BlockingFails(c)
      PROVE  TypeOK'
  <2>1. Holding(c)
    BY <1>4, Zenon DEF BlockingFails, Holding
  <2>2. conn[c] \in Conns
    BY <2>1, Holds, Zenon
  <2>3. available' \in Seq(Conns) /\ total_spawned' \in Int
    BY <2>2, <1>0, <1>4 DEF BlockingFails, Release, TypeOK
  <2> QED  BY <1>0, <1>4, <2>3, Zenon
              DEF BlockingFails, Fails, TypeOK, made_as, client, pool, libpq, server
<1>5. ASSUME NEW c \in Clients, SendFlushed(c)
      PROVE  TypeOK'
  <2> DEFINE buffer == Append(unsent[conn[c]], Mine(c))
  <2>1. Holding(c)
    BY <1>5, Zenon DEF SendFlushed, Holding
  <2>2. conn[c] \in Conns /\ Mine(c) \in Message
    BY <2>1, Holds, Zenon
  <2>3. buffer \in Seq(Message) /\ Len(buffer) \in 0 .. Len(buffer)
    BY <2>2, <1>0 DEF TypeOK
  <2>4. Flush(conn[c], buffer, Len(buffer)) /\ Enqueue(c)
    BY <1>5, Zenon DEF SendFlushed
  <2>5. unsent' \in [Conns -> Seq(Message)] /\ wire' \in [Conns -> Seq(Message)]
    <3> HIDE DEF buffer
    <3> QED  BY <2>2, <2>3, <2>4, <1>0, Flushed, Zenon
  <2>6. /\ in_flight_' \in [Conns -> Seq(Clients)]
        /\ place' \in [Clients -> {"idle", "run", "flush", "wait", "done", "failed"}]
    BY <2>2, <2>4, <1>0 DEF Enqueue, TypeOK
  <2> QED  BY <1>0, <1>5, <2>2, <2>5, <2>6, Zenon
              DEF SendFlushed, EnsureReader, TypeOK, made_as, client, pool, libpq, server
<1>6. ASSUME NEW c \in Clients, SendFails(c)
      PROVE  TypeOK'
  BY <1>0, <1>6, Zenon DEF SendFails, Fails, TypeOK, made_as, client, pool, libpq, server
<1>7. ASSUME NEW c \in Clients, FlushAgain(c)
      PROVE  TypeOK'
  <2>1. Holding(c)
    BY <1>7, Zenon DEF FlushAgain, Holding
  <2>2. conn[c] \in Conns
    BY <2>1, Holds, Zenon
  <2>3. unsent[conn[c]] \in Seq(Message) /\ Len(unsent[conn[c]]) \in 0 .. Len(unsent[conn[c]])
    BY <2>2, <1>0 DEF TypeOK
  <2>4. Flush(conn[c], unsent[conn[c]], Len(unsent[conn[c]])) /\ Enqueue(c)
    BY <1>7, Zenon DEF FlushAgain
  <2>5. unsent' \in [Conns -> Seq(Message)] /\ wire' \in [Conns -> Seq(Message)]
    BY <2>2, <2>3, <2>4, <1>0, Flushed, Zenon
  <2>6. /\ in_flight_' \in [Conns -> Seq(Clients)]
        /\ place' \in [Clients -> {"idle", "run", "flush", "wait", "done", "failed"}]
    BY <2>2, <2>4, <1>0 DEF Enqueue, TypeOK
  <2> QED  BY <1>0, <1>7, <2>2, <2>5, <2>6, Zenon
              DEF FlushAgain, TypeOK, made_as, client, pool, libpq, server
<1>8. ASSUME NEW c \in Clients, SendWaits(c)
      PROVE  TypeOK'
  <2> DEFINE buffer == Append(unsent[conn[c]], Mine(c))
  <2>1. Holding(c)
    BY <1>8, Zenon DEF SendWaits, Holding
  <2>2. conn[c] \in Conns /\ Mine(c) \in Message
    BY <2>1, Holds, Zenon
  <2>3. PICK n \in 0 .. Len(unsent[conn[c]]) : Flush(conn[c], buffer, n)
    BY <1>8, Zenon DEF SendWaits
  <2>4. buffer \in Seq(Message) /\ n \in 0 .. Len(buffer)
    BY <2>2, <2>3, <1>0 DEF TypeOK
  <2>5. unsent' \in [Conns -> Seq(Message)] /\ wire' \in [Conns -> Seq(Message)]
    <3> HIDE DEF buffer
    <3> QED  BY <2>2, <2>3, <2>4, <1>0, Flushed, Zenon
  <2> QED  BY <1>0, <1>8, <2>2, <2>5, Zenon
              DEF SendWaits, EnsureReader, TypeOK, made_as, client, pool, libpq, server
<1>9. ASSUME NEW k \in Conns, Serve(k)
      PROVE  TypeOK'
  <2>1. wire[k] \in Seq(Message) /\ wire[k] # <<>> /\ Execute(k, Head(wire[k]))
    BY <1>0, <1>9, Zenon DEF Serve, TypeOK
  <2>2. Head(wire[k]) \in Message /\ Tail(wire[k]) \in Seq(Message)
    BY <2>1, HeadAndTail, Zenon
  <2>3. /\ session' \in [Conns -> [open : BOOLEAN, marks : SUBSET Clients]]
        /\ committed' \subseteq Clients
    BY <2>1, <2>2, <1>0, Executes, Zenon
  <2>4. wire' \in [Conns -> Seq(Message)] /\ replies' \in [Conns -> Seq(Message)]
    BY <2>2, <1>0, <1>9 DEF Serve, TypeOK
  <2> QED  BY <1>0, <1>9, <2>3, <2>4, Zenon
              DEF Serve, TypeOK, made_as, client, pool, libpq, server
<1>10. ASSUME NEW k \in Conns, Break(k)
      PROVE  TypeOK'
  <2>1. Fresh \in [open : BOOLEAN, marks : SUBSET Clients] /\ <<>> \in Seq(Message) /\ k \in 1 .. made
    BY <1>10, Numbered DEF Fresh, Break
  <2> QED  BY <1>0, <2>1, <1>10, Zenon DEF Break, TypeOK, made_as, client, pool, libpq, server
<1>11. ASSUME NEW k \in Conns, Reader(k)
      PROVE  TypeOK'
  <2> DEFINE input == inbuf[k] \o replies[k]
  <2>1. input \in Seq(Message) /\ input # <<>> /\ Deliver(k, Head(input))
    BY <1>0, <1>11, Joined DEF Reader, TypeOK
  <2>2. Tail(input) \in Seq(Message) /\ <<>> \in Seq(Message)
    BY <2>1, HeadAndTail
  <2>3. inbuf' \in [Conns -> Seq(Message)] /\ replies' \in [Conns -> Seq(Message)]
    BY <2>2, <1>0, <1>11, Zenon DEF Reader, TypeOK
  <2>4. /\ at' \in [Clients -> 1 .. 4] /\ misled' \subseteq Clients
        /\ place' \in [Clients -> {"idle", "run", "flush", "wait", "done", "failed"}]
        /\ in_flight_' \in [Conns -> Seq(Clients)]
    <3>1. CASE in_flight_[k] = <<>>
      BY <3>1, <2>1, <1>0, Zenon DEF Deliver, TypeOK
    <3>2. CASE in_flight_[k] # <<>>
      <4>1. /\ Head(in_flight_[k]) \in Clients /\ Tail(in_flight_[k]) \in Seq(Clients)
            /\ Head(in_flight_[k]) = in_flight_[k][1] /\ 1 \in DOMAIN in_flight_[k]
        BY <3>2, <1>0 DEF TypeOK
      <4>2. Holding(Head(in_flight_[k])) /\ Continues(Head(in_flight_[k]))
        BY <3>2, <4>1, <2>1 DEF Deliver, IInv, Waiting, WaitingAt, Holding
      <4>3. /\ at' \in [Clients -> 1 .. 4]
            /\ place' \in [Clients -> {"idle", "run", "flush", "wait", "done", "failed"}]
        BY <4>1, <4>2, Goes, Zenon
      <4>4. in_flight_' = [in_flight_ EXCEPT ![k] = Tail(in_flight_[k])]
            /\ misled' \subseteq misled \cup {Head(in_flight_[k])}
        BY <3>2, <2>1, Zenon DEF Deliver
      <4> QED  BY <4>1, <4>3, <4>4, <1>0, Zenon DEF TypeOK
    <3> QED  BY <3>1, <3>2, Zenon
  <2> QED  BY <1>0, <1>11, <2>3, <2>4, Zenon
              DEF Reader, TypeOK, made_as, client, pool, libpq, server
<1>12. ASSUME NEW k \in Conns, ReaderEnds(k)
      PROVE  TypeOK'
  BY <1>0, <1>12, Zenon DEF ReaderEnds, TypeOK, made_as, client, pool, libpq, server
<1>13. ASSUME UNCHANGED vars
       PROVE  TypeOK'
  BY <1>0, <1>13, Zenon DEF TypeOK, made_as, client, pool, libpq, server, vars
<1> QED
  BY <1>1, <1>2, <1>3, <1>4, <1>5, <1>6, <1>7, <1>8, <1>9, <1>10, <1>11, <1>12, <1>13, Zenon
     DEF Next, Call, Rest

-----------------------------------------------------------------------------
(***************************************************************************)
(* Every step keeps the leases exclusive.                                  *)
(***************************************************************************)
\* A coroutine takes a connection that is not idle and that nobody leases.
LEMMA LeaseAdded ==
    ASSUME TypeOK, Exclusive, NEW c \in Clients, NEW k, Starts(c, k), UNCHANGED pipelined,
           IsInjective(available'), Range(available') \subseteq Range(available),
           k \notin Range(available'), \A d \in Leased : conn[d] # k
    PROVE  Exclusive'
<1>1. /\ Leased' \subseteq Leased \cup {c}
      /\ conn'[c] = k /\ \A d \in Leased \ {c} : d \in Clients /\ conn'[d] = conn[d]
  BY Zenon DEF Starts, TypeOK, Leased, Holding
<1> QED  BY <1>1, Zenon DEF Exclusive

\* A coroutine gives its connection back, to the idle ones or to nobody.
LEMMA LeaseEnded ==
    ASSUME TypeOK, Exclusive, NEW c \in Leased, UNCHANGED <<pipelined, conn>>,
           place' = [place EXCEPT ![c] = place'[c]], ~(place'[c] \in {"run", "flush", "wait"}),
           NEW invalid, Release(conn[c], invalid)
    PROVE  Exclusive' /\ Leased' = Leased \ {c}
<1>1. Leased' = Leased \ {c}
  BY Zenon DEF Leased, Holding, TypeOK
<1>2. /\ IsInjective(available) /\ available \in Seq(Conns) /\ conn[c] \notin Range(available)
      /\ \A d \in Leased : /\ conn[d] \notin Range(available)
                           /\ \A e \in Leased : e # d => conn[e] # conn[d]
  BY Zenon DEF Exclusive, TypeOK
<1>3. CASE available' = Append(available, conn[c])
  <2>1. /\ DOMAIN available = 1 .. Len(available) /\ DOMAIN available' = 1 .. Len(available) + 1
        /\ \A i \in 1 .. Len(available) : available'[i] = available[i]
        /\ available'[Len(available) + 1] = conn[c] /\ Len(available) \in Nat
    BY <1>2, <1>3
  <2>2. Range(available') = Range(available) \cup {conn[c]}
    BY <2>1 DEF Range
  <2>3. IsInjective(available')
    BY <2>1, <1>2 DEF IsInjective, Range
  <2> QED  BY <2>2, <2>3, <1>1, <1>2, Zenon DEF Exclusive
<1>4. CASE available' = available
  BY <1>1, <1>2, <1>4, Zenon DEF Exclusive
<1> QED  BY <1>1, <1>3, <1>4, Zenon DEF Release

LEMMA ExclusiveStep ==
    ASSUME SqlAssumption, IInv, [Next]_vars
    PROVE  Exclusive'
<1>0. TypeOK /\ Exclusive
  BY Zenon DEF IInv
<1>1. ASSUME UNCHANGED <<available, conn>>, Leased' \subseteq Leased
      PROVE  Exclusive'
  BY <1>0, <1>1, Zenon DEF Exclusive
<1>2. ASSUME NEW c \in Clients, AcquireShared(c)
      PROVE  Exclusive'
  <2>1. Leased' = {} /\ available' = available
    BY <1>2, Zenon DEF AcquireShared, Leased, made_as
  <2> QED  BY <2>1, <1>0, Zenon DEF Exclusive
<1>3. ASSUME NEW c \in Clients, AcquireLease(c)
      PROVE  Exclusive'
  <2>0. /\ UNCHANGED pipelined /\ available \in Seq(Conns) /\ Len(available) \in Nat
        /\ DOMAIN available = 1 .. Len(available)
        /\ IsInjective(available) /\ \A d \in Leased : conn[d] \notin Range(available)
    BY <1>0, <1>3 DEF AcquireLease, made_as, TypeOK, Exclusive
  <2>1. CASE LastValid # {}
    <3>1. PICK i \in LastValid : Starts(c, available[i]) /\ available' = SubSeq(available, 1, i - 1)
      BY <1>3, <2>1, Zenon DEF AcquireLease
    <3>2. i \in 1 .. Len(available)
      BY <3>1, Zenon DEF LastValid
    <3>3. /\ available' \in Seq(Conns) /\ Len(available') = i - 1
          /\ \A j \in 1 .. i - 1 : available'[j] = available[j]
      BY <3>1, <3>2, <2>0, Sliced
    <3>4. DOMAIN available' = 1 .. i - 1
      BY <3>3
    <3>5. /\ IsInjective(available') /\ Range(available') \subseteq Range(available)
          /\ available[i] \notin Range(available') /\ available[i] \in Range(available)
      BY <3>2, <3>3, <3>4, <2>0 DEF IsInjective, Range
    <3>6. \A d \in Leased : conn[d] # available[i]
      BY <3>5, <2>0, Zenon
    <3> QED  BY <3>1, <3>5, <3>6, <2>0, <1>0, LeaseAdded, Zenon
  <2>2. CASE LastValid = {}
    <3>1. available' = <<>> /\ IsInjective(available') /\ Range(available') = {}
      BY <2>2, <1>3 DEF AcquireLease, IsInjective, Range
    <3>2. CASE Fails(c)
      <4>1. Leased' \subseteq Leased /\ conn' = conn
        BY <3>2, <2>0, <1>0, Zenon DEF Leased, Holding, Fails, TypeOK
      <4> QED  BY <4>1, <3>1, <1>0, Zenon DEF Exclusive
    <3>3. CASE Starts(c, made + 1)
      <4>1. \A d \in Leased : conn[d] # made + 1
        <5>1. made \in Nat /\ \A d \in Leased : conn[d] \in 0 .. made
          BY Mode, Zenon DEF IInv, Placed, Places, Leased
        <5> QED  BY <5>1
      <4> QED  BY <4>1, <3>1, <3>3, <2>0, <1>0, LeaseAdded, Zenon
    <3> QED  BY <3>2, <3>3, <2>2, <1>3, Zenon DEF AcquireLease
  <2> QED  BY <2>1, <2>2, Zenon
<1>4. ASSUME NEW c \in Clients, Blocking(c)
      PROVE  Exclusive'
  <2>0. c \in Leased /\ UNCHANGED <<pipelined, conn>> /\ Continues(c)
    BY <1>4, Zenon DEF Blocking, Leased, Holding, made_as
  <2>1. CASE at[c] = Len(Script(c))
    <3>1. place' = [place EXCEPT ![c] = place'[c]] /\ place'[c] = "done" /\ Release(conn[c], bad)
      BY <2>0, <2>1, <1>0, <1>4, Zenon DEF Blocking, Continues, TypeOK
    <3> QED  BY <3>1, <2>0, <1>0, LeaseEnded, Zenon
  <2>2. CASE at[c] # Len(Script(c))
    <3>1. Leased' \subseteq Leased /\ available' = available
      BY <2>0, <2>2, <1>0, <1>4, Zenon DEF Blocking, Leased, Holding, Continues, TypeOK
    <3> QED  BY <3>1, <2>0, <1>1, Zenon
  <2> QED  BY <2>1, <2>2, Zenon
<1>5. ASSUME NEW c \in Clients, BlockingFails(c)
      PROVE  Exclusive'
  <2>1. /\ c \in Leased /\ UNCHANGED <<pipelined, conn>> /\ Release(conn[c], bad')
        /\ place' = [place EXCEPT ![c] = place'[c]] /\ place'[c] = "failed"
    BY <1>0, <1>5, Zenon DEF BlockingFails, Leased, Holding, Fails, TypeOK, made_as
  <2> QED  BY <2>1, <1>0, LeaseEnded, Zenon
<1>6. ASSUME NEW c \in Clients, SendFlushed(c) \/ SendFails(c) \/ FlushAgain(c) \/ SendWaits(c)
      PROVE  Exclusive'
  <2>1. UNCHANGED <<pipelined, available, conn>>
    BY <1>6, Zenon DEF SendFlushed, SendFails, FlushAgain, SendWaits, Fails, made_as, pool
  <2>2. pipelined
    BY <1>6, Zenon DEF SendFlushed, SendFails, FlushAgain, SendWaits, IInv, Placed, Places
  <2> QED  BY <2>1, <2>2, <1>1, Zenon DEF Leased
<1>7. ASSUME NEW k \in Conns, Serve(k) \/ Break(k) \/ ReaderEnds(k)
      PROVE  Exclusive'
  BY <1>1, <1>7, Zenon DEF Serve, Break, ReaderEnds, made_as, client, pool, Leased, Holding
<1>8. ASSUME NEW k \in Conns, Reader(k)
      PROVE  Exclusive'
  <2>0. UNCHANGED <<pipelined, available, conn>>
    BY <1>8, Zenon DEF Reader, Deliver, made_as, pool
  <2>1. CASE in_flight_[k] = <<>>
    <3>1. place' = place
      BY <2>1, <1>8, Zenon DEF Reader, Deliver
    <3> QED  BY <3>1, <2>0, <1>1, Zenon DEF Leased, Holding
  <2>2. CASE in_flight_[k] # <<>>
    <3>1. in_flight_[k][1] \in Clients /\ 1 \in DOMAIN in_flight_[k]
      BY <2>2, <1>0, FirstWaiter, Zenon
    <3>2. pipelined
      BY <3>1, Zenon DEF IInv, Waiting, WaitingAt, Placed, Places
    <3> QED  BY <3>2, <2>0, <1>1, Zenon DEF Leased
  <2> QED  BY <2>1, <2>2, Zenon
<1>9. ASSUME UNCHANGED vars
      PROVE  Exclusive'
  BY <1>1, <1>9, Zenon DEF vars, made_as, client, pool, Leased, Holding
<1> QED
  BY <1>2, <1>3, <1>4, <1>5, <1>6, <1>7, <1>8, <1>9, Zenon DEF Next, Call, Rest


-----------------------------------------------------------------------------
(***************************************************************************)
(* Every step leaves the coroutines and connections where they can be.     *)
(***************************************************************************)
\* A coroutine that a step does not touch.
LEMMA Untouched ==
    ASSUME NEW c \in Clients, Places(c), UNCHANGED <<pipelined, kind>>,
           made \in Nat, made' \in Nat, made <= made', waited \subseteq waited',
           place'[c] = place[c], at'[c] = at[c], conn'[c] = conn[c]
    PROVE  Places(c)'
<1>1. Script(c)' = Script(c)
  BY Zenon DEF Script
<1> QED  BY <1>1 DEF Places, Holding, None

LEMMA PlacedStep ==
    ASSUME SqlAssumption, IInv, [Next]_vars
    PROVE  Placed'
<1>0. /\ TypeOK /\ TypeOK' /\ Opened /\ \A c \in Clients : Places(c)
      /\ made \in Nat /\ made' \in Nat /\ made <= made
  <2>1. TypeOK /\ TypeOK' /\ Opened /\ \A c \in Clients : Places(c)
    BY TypeStep, Zenon DEF IInv, Placed
  <2>2. made \in 0 .. MaxCapacity + MaxBreaks /\ made' \in 0 .. MaxCapacity + MaxBreaks
    BY <2>1, Zenon DEF TypeOK
  <2> QED  BY <2>1, <2>2, Numbered DEF SqlAssumption
<1>1. UNCHANGED <<pipelined, kind>> /\ \A c \in Clients : Script(c)' = Script(c)
  BY Zenon
     DEF Next, Call, Rest, AcquireShared, AcquireLease, Blocking, BlockingFails, SendFlushed,
         SendFails, FlushAgain, SendWaits, Serve, Break, Reader, ReaderEnds, Script, made_as, client, pool, libpq, server, vars
<1>2. ASSUME UNCHANGED <<place, at, conn, made, available, all_connections, waited>>
      PROVE  Placed'
  <2>1. Opened'
    BY <1>0, <1>1, <1>2, Zenon DEF Opened
  <2> QED  BY <2>1, <1>0, <1>1, <1>2, Untouched, Zenon DEF Placed
<1>3. ASSUME NEW c \in Clients, AcquireShared(c)
      PROVE  Placed'
  <2>1. PICK n \in IF all_connections = <<>> THEN 0 .. capacity_ ELSE {Len(all_connections)} :
            /\ all_connections' = [i \in 1 .. n |-> i] /\ made' = n
            /\ Fails(c) \/ \E k \in LeastLoaded(n) : Starts(c, k)
    BY <1>3, Zenon DEF AcquireShared
  <2>2. made <= n /\ n \in Nat /\ n <= MaxCapacity + MaxBreaks
    <3>1. pipelined /\ made = Len(all_connections)
      BY <1>3, Mode, Zenon DEF AcquireShared
    <3>2. CASE all_connections = <<>>
      BY <3>1, <3>2, <2>1, <1>0, Numbered DEF TypeOK, SqlAssumption
    <3>3. CASE all_connections # <<>>
      BY <3>1, <3>3, <2>1, <1>0, Numbered DEF TypeOK, SqlAssumption
    <3> QED  BY <3>2, <3>3, Zenon
  <2>3. Opened'
    BY <2>1, <1>0, <1>1, <1>3 DEF AcquireShared, Opened
  <2>4. \A d \in Clients \ {c} : place'[d] = place[d] /\ at'[d] = at[d] /\ conn'[d] = conn[d]
    BY <2>1, <1>0, <1>3 DEF AcquireShared, Starts, Fails, TypeOK
  <2>5. \A d \in Clients \ {c} : Places(d)'
    BY <2>1, <2>2, <2>4, <1>0, <1>1, <1>3, Untouched, Zenon DEF AcquireShared
  <2>6. at'[c] = at[c] /\ at[c] <= Len(Script(c))' /\ conn[c] = 0
    BY <1>0, <1>1, <1>3, Zenon DEF AcquireShared, Places, None
  <2>7. CASE Fails(c)
    <3>1. place'[c] = "failed" /\ conn'[c] = 0
      BY <2>1, <2>6, <2>7, <1>0, Zenon DEF Fails, TypeOK
    <3>2. Places(c)'
      BY <3>1, <1>0 DEF Places, Holding, None
    <3> QED  BY <3>2, <2>3, <2>5, Zenon DEF Placed
  <2>8. CASE \E k \in LeastLoaded(n) : Starts(c, k)
    <3>1. place'[c] = "run" /\ conn'[c] \in 1 .. made'
      BY <2>1, <2>8, <1>0, Zenon DEF LeastLoaded, Starts, TypeOK
    <3>2. Places(c)'
      BY <3>1, <2>6, <1>0 DEF Places, Holding, None
    <3> QED  BY <3>2, <2>3, <2>5, Zenon DEF Placed
  <2> QED  BY <2>1, <2>7, <2>8, Zenon
<1>4. ASSUME NEW c \in Clients, AcquireLease(c)
      PROVE  Placed'
  <2>1. /\ ~pipelined /\ at' = at /\ waited' = waited /\ all_connections' = all_connections
        /\ conn[c] = 0 /\ at[c] <= Len(Script(c))' /\ all_connections = <<>>
    BY <1>0, <1>1, <1>4, Zenon DEF AcquireLease, Places, None, Opened
  <2>2. CASE LastValid # {}
    <3>1. PICK i \in LastValid : /\ Starts(c, available[i])
                                 /\ available' = SubSeq(available, 1, i - 1)
                                 /\ made' = made
      BY <1>4, <2>2, Zenon DEF AcquireLease
    <3>2. i \in 1 .. Len(available) /\ available[i] \in 1 .. made
      <4>1. DOMAIN available = 1 .. Len(available)
        BY <1>0 DEF TypeOK
      <4>2. i \in 1 .. Len(available)
        BY <3>1, Zenon DEF LastValid
      <4> QED  BY <4>1, <4>2, <1>0, Zenon DEF Opened
    <3>3. \A j \in DOMAIN available' : available'[j] \in 1 .. made
      <4>1. \A j \in 1 .. i - 1 : available[j] \in 1 .. made
        <5>1. DOMAIN available = 1 .. Len(available) /\ Len(available) \in Nat
          BY <1>0 DEF TypeOK
        <5>2. \A j \in 1 .. i - 1 : j \in 1 .. Len(available)
          BY <3>2, <5>1
        <5> QED  BY <5>1, <5>2, <1>0, Zenon DEF Opened
      <4> QED  BY <4>1, <3>1, <3>2, Sliced
    <3>4. Opened'
      BY <3>1, <3>3, <2>1, <1>1, Zenon DEF Opened
    <3>5. \A d \in Clients \ {c} : place'[d] = place[d] /\ conn'[d] = conn[d]
      BY <3>1, <1>0, Zenon DEF Starts, TypeOK
    <3>6. \A d \in Clients \ {c} : Places(d)'
      BY <3>1, <3>5, <2>1, <1>0, <1>1, Untouched, Zenon
    <3>7. place'[c] = "run" /\ conn'[c] \in 1 .. made' /\ at'[c] = at[c]
      BY <3>1, <3>2, <2>1, <1>0, Zenon DEF Starts, TypeOK
    <3>8. Places(c)'
      BY <3>7, <2>1, <1>0 DEF Places, Holding, None
    <3> QED  BY <3>4, <3>6, <3>8, Zenon DEF Placed
  <2>3. CASE LastValid = {}
    <3>1. /\ available' = <<>>
          /\ \/ Starts(c, made + 1) /\ made' = made + 1
             \/ Fails(c) /\ made' = made
      BY <2>3, <1>4, Zenon DEF AcquireLease
    <3>2. Opened'
      BY <3>1, <2>1, <1>1 DEF Opened
    <3>3. \A d \in Clients \ {c} : place'[d] = place[d] /\ conn'[d] = conn[d]
      BY <3>1, <1>0 DEF Starts, Fails, TypeOK
    <3>4. made <= made'
      BY <3>1, <1>0
    <3>5. \A d \in Clients \ {c} : Places(d)'
      BY <3>3, <3>4, <2>1, <1>0, <1>1, Untouched, Zenon
    <3>6. at'[c] = at[c] /\ \/ place'[c] = "run" /\ conn'[c] \in 1 .. made'
                            \/ place'[c] = "failed" /\ conn'[c] = 0
      BY <3>1, <2>1, <1>0 DEF Starts, Fails, TypeOK
    <3>7. Places(c)'
      BY <3>6, <2>1, <1>0 DEF Places, Holding, None
    <3> QED  BY <3>2, <3>5, <3>7, Zenon DEF Placed
  <2> QED  BY <2>2, <2>3, Zenon
<1>5. ASSUME NEW c \in Clients, Holding(c), Continues(c),
             UNCHANGED <<conn, made, waited>>, Opened'
      PROVE  Placed'
  <2>1. /\ \A d \in Clients \ {c} : at'[d] = at[d] /\ place'[d] = place[d]
        /\ at'[c] = at[c] + 1
        /\ at[c] = Len(Script(c)) => place'[c] = "done"
        /\ at[c] # Len(Script(c)) => place'[c] = "run"
    BY <1>5, Goes, Zenon
  <2>2. \A d \in Clients \ {c} : Places(d)'
    BY <2>1, <1>0, <1>1, <1>5, Untouched, Zenon
  <2>3. /\ at[c] \in 1 .. Len(Script(c)) /\ Len(Script(c)) \in {1, 3}
        /\ conn'[c] \in 1 .. made'
    BY <1>5, Holds, Zenon
  <2>4. at[c] # Len(Script(c)) => at[c] + 1 <= Len(Script(c))
    BY <2>3
  <2>5. Places(c)'
    <3>1. CASE at[c] = Len(Script(c))
      BY <3>1, <2>1, <2>3, <1>0, <1>1 DEF Places, Holding, None
    <3>2. CASE at[c] # Len(Script(c))
      BY <3>2, <2>1, <2>3, <2>4, <1>0, <1>1 DEF Places, Holding, None
    <3> QED  BY <3>1, <3>2, Zenon
  <2> QED  BY <2>2, <2>5, <1>5, Zenon DEF Placed
<1>6. ASSUME NEW c \in Clients, Blocking(c)
      PROVE  Placed'
  <2>1. /\ Holding(c) /\ Continues(c) /\ UNCHANGED <<conn, made, waited, all_connections>>
        /\ ~pipelined /\ available \in Seq(Conns)
    BY <1>0, <1>6, Zenon DEF Blocking, Holding, TypeOK
  <2>2. conn[c] \in 1 .. made /\ conn[c] \in Conns
    BY <2>1, Holds, Zenon
  <2>3. available' = available \/ available' = Append(available, conn[c])
    BY <1>6, Zenon DEF Blocking, Release
  <2>4. \A i \in DOMAIN available' : available'[i] \in 1 .. made
    BY <2>1, <2>2, <2>3, <1>0 DEF Opened
  <2>5. Opened'
    BY <2>1, <2>4, <1>0, <1>1, Zenon DEF Opened
  <2> QED  BY <2>1, <2>5, <1>5, Zenon
<1>7. ASSUME NEW c \in Clients, BlockingFails(c)
      PROVE  Placed'
  <2>1. /\ Holding(c) /\ UNCHANGED <<at, conn, made, waited, all_connections>>
        /\ ~pipelined /\ available \in Seq(Conns) /\ Fails(c)
    BY <1>0, <1>7, Zenon DEF BlockingFails, Fails, Holding, TypeOK
  <2>2. conn[c] \in 1 .. made /\ conn[c] \in Conns
    BY <2>1, Holds, Zenon
  <2>3. available' = available \/ available' = Append(available, conn[c])
    BY <1>7, Zenon DEF BlockingFails, Release
  <2>4. \A i \in DOMAIN available' : available'[i] \in 1 .. made
    BY <2>1, <2>2, <2>3, <1>0 DEF Opened
  <2>5. Opened'
    BY <2>1, <2>4, <1>0, <1>1, Zenon DEF Opened
  <2>6. place'[c] = "failed" /\ \A d \in Clients \ {c} : place'[d] = place[d]
    BY <2>1, <1>0, Zenon DEF Fails, TypeOK
  <2>7. \A d \in Clients \ {c} : Places(d)'
    BY <2>1, <2>6, <1>0, <1>1, Untouched, Zenon
  <2>8. Places(c)'
    BY <2>1, <2>2, <2>6, <1>0, Zenon DEF Places, Holding, None
  <2> QED  BY <2>5, <2>7, <2>8, Zenon DEF Placed
<1>8. ASSUME NEW c \in Clients, SendFlushed(c) \/ SendFails(c) \/ FlushAgain(c) \/ SendWaits(c)
      PROVE  Placed'
  <2>1. /\ UNCHANGED <<at, conn, made, available, all_connections>>
        /\ pipelined /\ Holding(c) /\ waited \subseteq waited'
        /\ \/ place' = [place EXCEPT ![c] = "wait"]
           \/ place' = [place EXCEPT ![c] = "failed"]
           \/ place' = [place EXCEPT ![c] = "flush"] /\ conn[c] \in waited'
    BY <1>0, <1>8, Zenon
       DEF SendFlushed, SendFails, FlushAgain, SendWaits, Enqueue, Fails, Holding, Places,
           made_as, client, pool, libpq, server
  <2>2. Opened'
    BY <2>1, <1>0, <1>1, Zenon DEF Opened
  <2>3. \A d \in Clients \ {c} : place'[d] = place[d]
    BY <2>1, <1>0 DEF TypeOK
  <2>4. \A d \in Clients \ {c} : Places(d)'
    BY <2>1, <2>3, <1>0, <1>1, Untouched, Zenon
  <2>5. \/ place'[c] = "wait" \/ place'[c] = "failed"
        \/ place'[c] = "flush" /\ conn[c] \in waited'
    BY <2>1, <1>0, Zenon DEF TypeOK
  <2>6. Places(c)'
    BY <2>1, <2>5, <1>0, <1>1, Zenon DEF Places, Holding, None
  <2> QED  BY <2>2, <2>4, <2>6, Zenon DEF Placed
<1>9. ASSUME NEW k \in Conns, Serve(k) \/ Break(k) \/ ReaderEnds(k)
      PROVE  Placed'
  BY <1>2, <1>9, Zenon DEF Serve, Break, ReaderEnds, made_as, client, pool, libpq, server
<1>10. ASSUME NEW k \in Conns, Reader(k)
       PROVE  Placed'
  <2>1. CASE in_flight_[k] = <<>>
    BY <2>1, <1>2, <1>10, Zenon DEF Reader, Deliver, made_as, client, pool, libpq, server
  <2>2. CASE in_flight_[k] # <<>>
    <3>1. /\ in_flight_[k][1] \in Clients /\ 1 \in DOMAIN in_flight_[k]
          /\ Head(in_flight_[k]) = in_flight_[k][1]
      BY <2>2, <1>0, FirstWaiter, Zenon
    <3>2. Holding(in_flight_[k][1]) /\ Continues(in_flight_[k][1])
      BY <2>2, <3>1, <1>10, Zenon DEF IInv, Waiting, WaitingAt, Holding, Reader, Deliver
    <3>3. UNCHANGED <<conn, made, waited>> /\ Opened'
      BY <1>0, <1>1, <1>10 DEF Reader, Opened, made_as, client, pool, libpq, server
    <3> QED  BY <3>1, <3>2, <3>3, <1>5, Zenon
  <2> QED  BY <2>1, <2>2, Zenon
<1> QED
  BY <1>2, <1>3, <1>4, <1>6, <1>7, <1>8, <1>9, <1>10, Zenon
     DEF Next, Call, Rest, made_as, client, pool, libpq, server, vars

-----------------------------------------------------------------------------
(***************************************************************************)
(* Every step keeps the queue of waiters.                                  *)
(***************************************************************************)
\* A step that takes nobody out of "wait", and leaves the queue.
LEMMA QueueKept ==
    ASSUME TypeOK, NEW k \in Conns, WaitingAt(k), in_flight_'[k] = in_flight_[k],
           \A c \in Clients : place[c] = "wait" => place'[c] = "wait" /\ conn'[c] = conn[c]
    PROVE  WaitingAt(k)'
<1>1. \A i \in DOMAIN in_flight_[k] : in_flight_[k][i] \in Clients
  BY DEF TypeOK
<1> QED  BY <1>1, Zenon DEF WaitingAt

\* The coroutine that joins the queue is not in it.
LEMMA QueueJoined ==
    ASSUME SqlAssumption, IInv, NEW c \in Clients, Holding(c), place[c] # "wait", Enqueue(c),
           conn' = conn
    PROVE  Waiting'
<1>0. TypeOK /\ conn[c] \in Conns /\ Waiting
  BY Holds, Zenon DEF IInv
<1>1. /\ \A d \in Clients \ {c} : place'[d] = place[d]
      /\ place'[c] = "wait"
      /\ \A k \in Conns \ {conn[c]} : in_flight_'[k] = in_flight_[k]
      /\ in_flight_'[conn[c]] = Append(in_flight_[conn[c]], c)
  BY <1>0, Zenon DEF Enqueue, TypeOK
<1>2. \A k \in Conns \ {conn[c]} : WaitingAt(k)'
  BY <1>0, <1>1, QueueKept, Zenon DEF Waiting
<1>3. WaitingAt(conn[c])'
  <2> DEFINE q == in_flight_[conn[c]]
             r == in_flight_'[conn[c]]
  <2>1. /\ Len(q) \in Nat /\ DOMAIN q = 1 .. Len(q) /\ DOMAIN r = 1 .. Len(q) + 1
        /\ \A i \in 1 .. Len(q) : r[i] = q[i] /\ q[i] \in Clients
        /\ r[Len(q) + 1] = c
    BY <1>0, <1>1 DEF TypeOK
  <2>2. /\ \A i, j \in 1 .. Len(q) : q[i] = q[j] => i = j
        /\ \A i \in 1 .. Len(q) : place[q[i]] = "wait" /\ conn[q[i]] = conn[c]
    BY <1>0, <2>1 DEF Waiting, WaitingAt, IsInjective
  <2> HIDE DEF q, r
  <2>3. \A i \in DOMAIN r : i # Len(q) + 1 => i \in 1 .. Len(q)
    BY <2>1
  <2>4. \A i \in DOMAIN r : place'[r[i]] = "wait" /\ conn[r[i]] = conn[c]
    BY <2>1, <2>2, <2>3, <1>1
  <2>5. \A i, j \in DOMAIN r : r[i] = r[j] => i = j
    BY <2>1, <2>2, <2>3, <1>1, SMTT(30)
  <2> QED  BY <2>4, <2>5, Zenon DEF WaitingAt, IsInjective, r
<1> QED  BY <1>2, <1>3, Zenon DEF Waiting

\* What the reader does to the queue and its first coroutine.
Delivered(k) ==
    LET c == in_flight_[k][1] IN
    /\ c \in Clients /\ conn[c] = k /\ place[c] = "wait" /\ Continues(c) /\ Holding(c)
    /\ \A d \in Clients \ {c} : at'[d] = at[d] /\ place'[d] = place[d]
    /\ \A j \in Conns \ {k} : in_flight_'[j] = in_flight_[j]
    /\ Len(in_flight_'[k]) = Len(in_flight_[k]) - 1
    /\ DOMAIN in_flight_'[k] = 1 .. Len(in_flight_[k]) - 1
    /\ \A i \in 1 .. Len(in_flight_[k]) - 1 :
            in_flight_'[k][i] = in_flight_[k][i + 1] /\ in_flight_[k][i + 1] # c
    /\ misled' \subseteq misled \cup {c}
    /\ Head(inbuf[k] \o replies[k]) = Mine(c) => misled' = misled

LEMMA ReaderDelivers ==
    ASSUME SqlAssumption, IInv, NEW k \in Conns, Reader(k), in_flight_[k] # <<>>
    PROVE  Delivered(k)
<1> DEFINE q == in_flight_[k]
           c == q[1]
<1>0. TypeOK /\ WaitingAt(k)
  BY Zenon DEF IInv, Waiting
<1>1. /\ q \in Seq(Clients) /\ q # <<>> /\ Len(q) \in Nat /\ DOMAIN q = 1 .. Len(q) /\ 1 \in DOMAIN q
      /\ c \in Clients /\ Head(q) = c
  BY <1>0 DEF TypeOK
<1>2. /\ Continues(c) /\ in_flight_' = [in_flight_ EXCEPT ![k] = Tail(q)]
      /\ misled' = IF Head(inbuf[k] \o replies[k]) = Mine(c) THEN misled ELSE misled \cup {c}
  BY <1>1, Zenon DEF Reader, Deliver
<1>3. conn[c] = k /\ place[c] = "wait" /\ Holding(c)
  BY <1>0, <1>1, Zenon DEF WaitingAt, Holding
<1>4. \A d \in Clients \ {c} : at'[d] = at[d] /\ place'[d] = place[d]
  BY <1>1, <1>2, <1>3, Goes, Zenon
<1>5. /\ in_flight_'[k] = Tail(q) /\ \A j \in Conns \ {k} : in_flight_'[j] = in_flight_[j]
      /\ Tail(q) \in Seq(Clients) /\ Len(Tail(q)) = Len(q) - 1
      /\ \A i \in 1 .. Len(q) - 1 : Tail(q)[i] = q[i + 1]
  BY <1>0, <1>1, <1>2, HeadAndTail, Zenon DEF TypeOK
<1>6. DOMAIN Tail(q) = 1 .. Len(q) - 1
  BY <1>5
<1>7. \A i \in 1 .. Len(q) - 1 : q[i + 1] # c
  <2>1. \A i, j \in 1 .. Len(q) : q[i] = q[j] => i = j
    BY <1>0, <1>1, Zenon DEF WaitingAt, IsInjective
  <2> QED  BY <2>1, <1>1
<1> HIDE DEF q
<1>8. /\ Len(in_flight_'[k]) = Len(q) - 1 /\ DOMAIN in_flight_'[k] = 1 .. Len(q) - 1
      /\ \A i \in 1 .. Len(q) - 1 : in_flight_'[k][i] = q[i + 1] /\ q[i + 1] # c
  BY <1>5, <1>6, <1>7, Zenon
<1>9. /\ misled' \subseteq misled \cup {c}
      /\ Head(inbuf[k] \o replies[k]) = Mine(c) => misled' = misled
  BY <1>2, Zenon
<1> QED  BY <1>1, <1>2, <1>3, <1>4, <1>5, <1>8, <1>9, Zenon DEF q, Delivered

LEMMA WaitingStep ==
    ASSUME SqlAssumption, IInv, [Next]_vars
    PROVE  Waiting'
<1>0. TypeOK /\ Waiting
  BY Zenon DEF IInv
<1>1. ASSUME in_flight_' = in_flight_,
             \A c \in Clients : place[c] = "wait" => place'[c] = "wait" /\ conn'[c] = conn[c]
      PROVE  Waiting'
  BY <1>0, <1>1, QueueKept, Zenon DEF Waiting
<1>2. ASSUME NEW c \in Clients, AcquireShared(c) \/ AcquireLease(c)
      PROVE  Waiting'
  <2>1. /\ place[c] = "idle" /\ in_flight_' = in_flight_
        /\ \A d \in Clients \ {c} : place'[d] = place[d] /\ conn'[d] = conn[d]
    BY <1>0, <1>2, Zenon
       DEF AcquireShared, AcquireLease, Starts, Fails, TypeOK, made_as, client, pool, libpq,
           server
  <2> QED  BY <1>1, <2>1, Zenon
<1>3. ASSUME NEW c \in Clients,
             Blocking(c) \/ BlockingFails(c) \/ SendFails(c) \/ SendWaits(c)
      PROVE  Waiting'
  <2>1. /\ place[c] = "run" /\ in_flight_' = in_flight_ /\ conn' = conn
        /\ \A d \in Clients \ {c} : place'[d] = place[d]
    BY <1>0, <1>3, Zenon
       DEF Blocking, Continues, BlockingFails, SendFails, Fails, SendWaits, TypeOK, made_as,
           client, pool, libpq, server
  <2> QED  BY <1>1, <2>1, Zenon
<1>4. ASSUME NEW c \in Clients, SendFlushed(c) \/ FlushAgain(c)
      PROVE  Waiting'
  <2>1. Holding(c) /\ place[c] # "wait" /\ Enqueue(c) /\ conn' = conn
    BY <1>4, Zenon DEF SendFlushed, FlushAgain, Holding
  <2> QED  BY <2>1, QueueJoined, Zenon
<1>5. ASSUME NEW k \in Conns, Serve(k) \/ Break(k) \/ ReaderEnds(k)
      PROVE  Waiting'
  BY <1>1, <1>5, Zenon DEF Serve, Break, ReaderEnds, made_as, client, pool, libpq, server
<1>6. ASSUME NEW k \in Conns, Reader(k)
      PROVE  Waiting'
  <2>1. CASE in_flight_[k] = <<>>
    BY <2>1, <1>1, <1>6, Zenon DEF Reader, Deliver
  <2>2. CASE in_flight_[k] # <<>>
    <3> DEFINE q == in_flight_[k]
               r == in_flight_'[k]
               c == q[1]
    <3>0. conn' = conn
      BY <1>6, Zenon DEF Reader
    <3>1. /\ c \in Clients /\ conn[c] = k
          /\ \A d \in Clients \ {c} : place'[d] = place[d]
          /\ \A j \in Conns \ {k} : in_flight_'[j] = in_flight_[j]
          /\ DOMAIN r = 1 .. Len(q) - 1
          /\ \A i \in 1 .. Len(q) - 1 : r[i] = q[i + 1] /\ q[i + 1] # c
      <4>1. Delivered(k)
        BY <2>2, <1>6, ReaderDelivers, Zenon
      <4> QED  BY <4>1, Zenon DEF Delivered
    <3>2. ASSUME NEW j \in Conns \ {k}
          PROVE  WaitingAt(j)'
      <4>1. /\ WaitingAt(j) /\ in_flight_'[j] = in_flight_[j]
            /\ \A i \in DOMAIN in_flight_[j] : in_flight_[j][i] \in Clients
        BY <3>1, <1>0 DEF Waiting, TypeOK
      <4>2. \A i \in DOMAIN in_flight_[j] : in_flight_[j][i] # c
        BY <3>1, <4>1 DEF WaitingAt
      <4> HIDE DEF c
      <4> QED  BY <3>0, <3>1, <4>1, <4>2 DEF WaitingAt
    <3>3. WaitingAt(k)'
      <4>1. /\ Len(q) \in Nat /\ DOMAIN q = 1 .. Len(q) /\ WaitingAt(k)
            /\ \A i \in 1 .. Len(q) : q[i] \in Clients
        BY <1>0 DEF TypeOK, Waiting
      <4>2. /\ \A i, j \in 1 .. Len(q) : q[i] = q[j] => i = j
            /\ \A i \in 1 .. Len(q) : place[q[i]] = "wait" /\ conn[q[i]] = k
        BY <4>1, Zenon DEF WaitingAt, IsInjective
      <4> HIDE DEF q, r, c
      <4>3. /\ \A i, j \in DOMAIN r : r[i] = r[j] => i = j
            /\ \A i \in DOMAIN r : place'[r[i]] = "wait" /\ conn[r[i]] = k
        <5>1. \A i \in DOMAIN r : i \in 1 .. Len(q) - 1 /\ i + 1 \in 1 .. Len(q) /\ r[i] = q[i + 1]
          BY <3>1, <4>1
        <5>2. \A i, j \in DOMAIN r : r[i] = r[j] => i = j
          BY <5>1, <4>1, <4>2
        <5>3. \A i \in DOMAIN r : r[i] \in Clients \ {c} /\ place[r[i]] = "wait" /\ conn[r[i]] = k
          BY <5>1, <3>1, <4>1, <4>2
        <5> QED  BY <5>2, <5>3, <3>1, Zenon
      <4> QED  BY <3>0, <4>3, Zenon DEF WaitingAt, IsInjective, r
    <3> QED  BY <3>2, <3>3, Zenon DEF Waiting
  <2> QED  BY <2>1, <2>2, Zenon
<1> QED
  BY <1>1, <1>2, <1>3, <1>4, <1>5, <1>6, Zenon
     DEF Next, Call, Rest, made_as, client, pool, libpq, server, vars

-----------------------------------------------------------------------------
(***************************************************************************)
(* Every step keeps the statements in the order of their waiters.          *)
(***************************************************************************)
\* A sender adds a statement to the wire.
LEMMA Sent ==
    ASSUME NEW a \in Seq(Message), NEW b \in Seq(Message), NEW w \in Seq(Message), NEW m \in Message
    PROVE  (a \o b) \o (w \o <<m>>) = Append((a \o b) \o w, m)
OBVIOUS

\* The server moves the first statement on the wire to the replies.
LEMMA Served ==
    ASSUME NEW a \in Seq(Message), NEW b \in Seq(Message), NEW w \in Seq(Message), w # <<>>
    PROVE  (a \o Append(b, Head(w))) \o Tail(w) = (a \o b) \o w
BY SMTT(30)

\* r is q without its first element.
Shifted(q, r) ==
    /\ q \in Seq(Message) /\ r \in Seq(Message) /\ Len(q) >= 1 /\ Len(r) = Len(q) - 1
    /\ \A i \in 1 .. Len(r) : r[i] = q[i + 1]

\* The reader moves the replies to the buffer, and takes the first reply.
LEMMA Consumed ==
    ASSUME NEW a \in Seq(Message), NEW b \in Seq(Message), NEW w \in Seq(Message), b # <<>>
    PROVE  /\ Shifted((a \o b) \o w, (Tail(a \o b) \o <<>>) \o w)
           /\ Head(a \o b) = ((a \o b) \o w)[1]
BY DEF Shifted

\* A connection whose queues a step leaves alone.
LEMMA OrderKept ==
    ASSUME TypeOK, NEW k \in Conns, AlignedAt(k), unsent'[k] = unsent[k], Behind(k)' = Behind(k),
           in_flight_'[k] = in_flight_[k], k \in dead => k \in dead',
           \A i \in DOMAIN in_flight_[k] : at'[in_flight_[k][i]] = at[in_flight_[k][i]]
    PROVE  AlignedAt(k)'
<1>1. DOMAIN in_flight_[k] = 1 .. Len(in_flight_[k]) /\ Len(in_flight_[k]) \in Nat
  BY DEF TypeOK
<1>2. \A i \in 1 .. Len(Behind(k)) : i \in DOMAIN in_flight_[k]
  <2>1. Behind(k) \in Seq(Message)
    BY Joined, Zenon DEF Behind, TypeOK
  <2>2. Len(Behind(k)) \in Nat
    BY <2>1
  <2> QED  BY <1>1, <2>2 DEF AlignedAt
<1>3. \A i \in 1 .. Len(Behind(k)) : Mine(in_flight_[k][i])' = Mine(in_flight_[k][i])
  BY <1>2, Zenon DEF Mine
<1> QED  BY <1>3, Zenon DEF AlignedAt, Mine

LEMMA AlignedStep ==
    ASSUME SqlAssumption, IInv, [Next]_vars
    PROVE  Aligned'
<1>0. TypeOK /\ Waiting /\ Aligned
  BY Zenon DEF IInv
<1>1. \A k \in Conns : /\ DOMAIN in_flight_[k] = 1 .. Len(in_flight_[k]) /\ Len(in_flight_[k]) \in Nat
                       /\ \A i \in DOMAIN in_flight_[k] : in_flight_[k][i] \in Clients
  BY <1>0 DEF TypeOK
<1>2. ASSUME UNCHANGED <<unsent, wire, replies, inbuf, in_flight_, dead, waited>>,
             \A c \in Clients : place[c] = "wait" => at'[c] = at[c]
      PROVE  Aligned'
  <2>1. ASSUME NEW k \in Conns \ waited'
        PROVE  AlignedAt(k)'
    <3>1. \A i \in DOMAIN in_flight_[k] : at'[in_flight_[k][i]] = at[in_flight_[k][i]]
      BY <1>0, <1>1, <1>2, Zenon DEF Waiting, WaitingAt
    <3>2. Behind(k)' = Behind(k)
      BY <1>2, Zenon DEF Behind
    <3> QED  BY <1>0, <1>2, <3>1, <3>2, OrderKept, Zenon DEF Aligned
  <2> QED  BY <2>1, <1>0, <1>2, Zenon DEF Aligned
<1>3. ASSUME NEW c \in Clients,
             \/ AcquireShared(c) \/ AcquireLease(c) \/ Blocking(c) \/ BlockingFails(c) \/ SendFails(c)
      PROVE  Aligned'
  <2>1. UNCHANGED <<unsent, wire, replies, inbuf, in_flight_, dead, waited>>
    BY <1>3, Zenon
       DEF AcquireShared, AcquireLease, Blocking, BlockingFails, SendFails, made_as, client,
           pool, libpq, server
  <2>2. place[c] # "wait" /\ \A d \in Clients \ {c} : at'[d] = at[d]
    BY <1>0, <1>3, Zenon
       DEF AcquireShared, AcquireLease, Blocking, BlockingFails, SendFails, Continues, TypeOK
  <2> QED  BY <1>2, <2>1, <2>2, Zenon
<1>4. ASSUME NEW c \in Clients, Holding(c), conn[c] \in waited', dead' = dead, at' = at,
             UNCHANGED <<replies, inbuf>>, conn[c] \in dead => wire'[conn[c]] = <<>>,
             \A k \in Conns \ {conn[c]} : /\ unsent'[k] = unsent[k] /\ wire'[k] = wire[k]
                                          /\ in_flight_'[k] = in_flight_[k],
             waited \subseteq waited'
      PROVE  Aligned'
  <2>1. ASSUME NEW k \in Conns \ waited'
        PROVE  AlignedAt(k)'
    <3>1. k # conn[c]
      BY <1>4, Zenon
    <3>2. Behind(k)' = Behind(k)
      BY <1>4, <3>1, Zenon DEF Behind
    <3> QED  BY <1>0, <1>4, <3>1, <3>2, OrderKept, Zenon DEF Aligned
  <2>2. \A k \in dead' : wire'[k] = <<>>
    <3>1. dead \subseteq Conns
      BY <1>0, Numbered DEF TypeOK, Conns, SqlAssumption
    <3> QED  BY <3>1, <1>0, <1>4, Zenon DEF Aligned
  <2> QED  BY <2>1, <2>2, Zenon DEF Aligned
<1>5. ASSUME NEW c \in Clients, FlushAgain(c)
      PROVE  Aligned'
  <2>1. Holding(c) /\ conn[c] \in waited' /\ UNCHANGED <<dead, at, replies, inbuf, waited>> /\ Enqueue(c)
        /\ Flush(conn[c], unsent[conn[c]], Len(unsent[conn[c]]))
    BY <1>5, Zenon DEF FlushAgain, Holding, IInv, Placed, Places
  <2>2. conn[c] \in Conns
    BY <2>1, Holds, Zenon
  <2>3. unsent[conn[c]] \in Seq(Message) /\ Len(unsent[conn[c]]) \in 0 .. Len(unsent[conn[c]])
    BY <2>2, <1>0 DEF TypeOK
  <2>4. /\ conn[c] \in dead => wire'[conn[c]] = <<>>
        /\ \A k \in Conns \ {conn[c]} : unsent'[k] = unsent[k] /\ wire'[k] = wire[k]
    BY <2>1, <2>2, <2>3, <1>0, Flushed, Zenon
  <2>5. \A k \in Conns \ {conn[c]} : in_flight_'[k] = in_flight_[k]
    BY <2>1, <1>0, Zenon DEF Enqueue, TypeOK
  <2> QED  BY <2>1, <2>4, <2>5, <1>4, Zenon
<1>6. ASSUME NEW c \in Clients, SendWaits(c)
      PROVE  Aligned'
  <2> DEFINE buffer == Append(unsent[conn[c]], Mine(c))
  <2>1. Holding(c) /\ conn[c] \in waited' /\ UNCHANGED <<dead, at, replies, inbuf, in_flight_>>
        /\ waited \subseteq waited'
    BY <1>6, Zenon DEF SendWaits, Holding
  <2>2. conn[c] \in Conns /\ Mine(c) \in Message
    BY <2>1, Holds, Zenon
  <2>3. PICK n \in 0 .. Len(unsent[conn[c]]) : Flush(conn[c], buffer, n)
    BY <1>6, Zenon DEF SendWaits
  <2>4. buffer \in Seq(Message) /\ n \in 0 .. Len(buffer)
    BY <2>2, <2>3, <1>0 DEF TypeOK
  <2>5. /\ conn[c] \in dead => wire'[conn[c]] = <<>>
        /\ \A k \in Conns \ {conn[c]} : unsent'[k] = unsent[k] /\ wire'[k] = wire[k]
    <3> HIDE DEF buffer
    <3> QED  BY <2>2, <2>3, <2>4, <1>0, Flushed, Zenon
  <2> QED  BY <2>1, <2>5, <1>4, Zenon
<1>7. ASSUME NEW c \in Clients, SendFlushed(c)
      PROVE  Aligned'
  <2>0. Holding(c)
    BY <1>7, Zenon DEF SendFlushed, Holding
  <2>2. PICK k \in Conns : k = conn[c] /\ Mine(c) \in Message
    BY <2>0, Holds, Zenon
  <2> DEFINE buffer == Append(unsent[k], Mine(c))
  <2>1. Holding(c) /\ UNCHANGED <<dead, at, replies, inbuf, waited>> /\ Enqueue(c)
        /\ Flush(k, buffer, Len(buffer))
    BY <1>7, <2>0, <2>2, Zenon DEF SendFlushed
  <2>3. buffer \in Seq(Message) /\ Len(buffer) \in 0 .. Len(buffer)
    BY <2>2, <1>0 DEF TypeOK
  <2>4. /\ unsent'[k] = <<>>
        /\ k \in dead => wire'[k] = <<>>
        /\ k \notin dead => wire'[k] = wire[k] \o buffer
        /\ \A j \in Conns \ {k} : unsent'[j] = unsent[j] /\ wire'[j] = wire[j]
    <3> HIDE DEF buffer
    <3> QED  BY <2>1, <2>2, <2>3, <1>0, Flushed, Zenon
  <2>5. /\ \A j \in Conns \ {k} : in_flight_'[j] = in_flight_[j]
        /\ in_flight_'[k] = Append(in_flight_[k], c)
    BY <2>1, <2>2, <1>0, Zenon DEF Enqueue, TypeOK
  <2>6. CASE k \in waited
    BY <2>1, <2>2, <2>4, <2>5, <2>6, <1>4, Zenon
  <2>7. CASE k \notin waited
    <3>1. ASSUME NEW j \in Conns \ waited', j # k
          PROVE  AlignedAt(j)'
      <4>1. Behind(j)' = Behind(j)
        BY <2>1, <2>4, <3>1, Zenon DEF Behind
      <4> QED  BY <1>0, <2>1, <2>4, <2>5, <3>1, <4>1, OrderKept, Zenon DEF Aligned
    <3>2. AlignedAt(k) /\ unsent[k] = <<>>
      BY <2>2, <2>7, <1>0, Zenon DEF Aligned, AlignedAt
    <3>3. /\ wire[k] \in Seq(Message) /\ Behind(k) \in Seq(Message) /\ Len(Behind(k)) \in Nat
          /\ in_flight_[k] \in Seq(Clients) /\ inbuf[k] \o replies[k] \in Seq(Message)
      <4>1. wire[k] \in Seq(Message) /\ inbuf[k] \in Seq(Message) /\ replies[k] \in Seq(Message)
            /\ in_flight_[k] \in Seq(Clients)
        BY <2>2, <1>0, Zenon DEF TypeOK
      <4>2. inbuf[k] \o replies[k] \in Seq(Message)
        BY <4>1, Joined, Zenon
      <4>3. Behind(k) \in Seq(Message)
        BY <4>1, <4>2, Joined, Zenon DEF Behind
      <4> QED  BY <4>1, <4>2, <4>3
    <3>4. /\ Len(in_flight_'[k]) = Len(in_flight_[k]) + 1 /\ in_flight_'[k][Len(in_flight_[k]) + 1] = c
          /\ \A i \in 1 .. Len(in_flight_[k]) : in_flight_'[k][i] = in_flight_[k][i]
          /\ Len(in_flight_[k]) \in Nat
      BY <2>5, <3>3
    <3>5. CASE k \in dead
      <4>1. Behind(k)' = Behind(k)
        BY <3>5, <2>1, <2>4, <1>0, Zenon DEF Behind, Aligned
      <4>2. Len(Behind(k)) <= Len(in_flight_[k])
            /\ \A i \in 1 .. Len(Behind(k)) : Behind(k)[i] = Mine(in_flight_[k][i])
        BY <3>2, Zenon DEF AlignedAt
      <4>3. \A i \in 1 .. Len(Behind(k)) : i \in 1 .. Len(in_flight_[k])
        BY <3>3, <3>4, <4>2
      <4>4. \A i \in 1 .. Len(Behind(k)) : Behind(k)[i] = [c |-> in_flight_'[k][i], i |-> at'[in_flight_'[k][i]]]
        BY <2>1, <3>4, <4>2, <4>3, Zenon DEF Mine
      <4>5. Len(Behind(k)) <= Len(in_flight_'[k])
        BY <3>3, <3>4, <4>2
      <4>6. AlignedAt(k)'
        BY <4>1, <4>4, <4>5, <2>1, <2>4, <3>5, Zenon DEF AlignedAt, Mine
      <4>7. \A j \in dead' : wire'[j] = <<>>
        <5>1. dead \subseteq Conns
          BY <1>0, Numbered DEF TypeOK, Conns, SqlAssumption
        <5> QED  BY <5>1, <2>1, <2>4, <1>0, Zenon DEF Aligned
      <4> QED  BY <3>1, <4>6, <4>7, Zenon DEF Aligned
    <3>6. CASE k \notin dead
      <4>1. buffer = <<Mine(c)>>
        BY <3>2, <2>2
      <4>2. Behind(k)' = Append(Behind(k), Mine(c))
        <5>1. Behind(k)' = (inbuf[k] \o replies[k]) \o (wire[k] \o <<Mine(c)>>)
          BY <3>6, <4>1, <2>1, <2>4, Zenon DEF Behind
        <5>2. PICK a \in Seq(Message), b \in Seq(Message), w \in Seq(Message), m \in Message :
                  a = inbuf[k] /\ b = replies[k] /\ w = wire[k] /\ m = Mine(c)
          BY <1>0, <2>2, Zenon DEF TypeOK
        <5>3. (a \o b) \o (w \o <<m>>) = Append((a \o b) \o w, m)
          BY Sent, Zenon
        <5> QED  BY <5>1, <5>2, <5>3, Zenon DEF Behind
      <4>3. /\ Len(Behind(k)) = Len(in_flight_[k])
            /\ \A i \in 1 .. Len(Behind(k)) : Behind(k)[i] = Mine(in_flight_[k][i])
        BY <3>2, <3>6, Zenon DEF AlignedAt
      <4>4. /\ Len(Append(Behind(k), Mine(c))) = Len(Behind(k)) + 1
            /\ \A i \in 1 .. Len(Behind(k)) : Append(Behind(k), Mine(c))[i] = Behind(k)[i]
            /\ Append(Behind(k), Mine(c))[Len(Behind(k)) + 1] = Mine(c)
        BY <3>3, <2>2
      <4>5. \A i \in 1 .. Len(Behind(k)) + 1 :
                Append(Behind(k), Mine(c))[i] = [c |-> in_flight_'[k][i], i |-> at'[in_flight_'[k][i]]]
        BY <2>1, <3>3, <3>4, <4>3, <4>4 DEF Mine
      <4>6. AlignedAt(k)'
        <5>1. Len(Behind(k)') = Len(Behind(k)) + 1
          BY <4>2, <4>4, Zenon
        <5>2. Len(Behind(k)') = Len(in_flight_'[k]) /\ Len(Behind(k)') <= Len(in_flight_'[k])
          BY <5>1, <4>3, <3>4
        <5>3. \A i \in 1 .. Len(Behind(k)') : Behind(k)'[i] = Mine(in_flight_[k][i])'
          BY <5>1, <4>2, <4>5, Zenon DEF Mine
        <5>4. unsent'[k] = <<>>
          BY <2>4, Zenon
        <5> QED  BY <5>2, <5>3, <5>4, Zenon DEF AlignedAt
      <4>7. \A j \in dead' : wire'[j] = <<>>
        <5>1. dead \subseteq Conns
          BY <1>0, Numbered DEF TypeOK, Conns, SqlAssumption
        <5> QED  BY <5>1, <3>6, <2>1, <2>4, <1>0, Zenon DEF Aligned
      <4> QED  BY <3>1, <4>6, <4>7, Zenon DEF Aligned
    <3> QED  BY <3>5, <3>6, Zenon
  <2> QED  BY <2>6, <2>7, Zenon
<1>8. ASSUME NEW k \in Conns, Serve(k)
      PROVE  Aligned'
  <2>1. /\ UNCHANGED <<unsent, inbuf, in_flight_, dead, waited, at>> /\ wire[k] # <<>>
        /\ wire' = [wire EXCEPT ![k] = Tail(wire[k])]
        /\ replies' = [replies EXCEPT ![k] = Append(replies[k], Head(wire[k]))]
    BY <1>8, Zenon DEF Serve, made_as, client, pool, libpq, server
  <2>2. ASSUME NEW j \in Conns
        PROVE  Behind(j)' = Behind(j)
    <3>1. CASE j = k
      <4>1. wire[k] \in Seq(Message) /\ inbuf[k] \in Seq(Message) /\ replies[k] \in Seq(Message)
        BY <1>0, Zenon DEF TypeOK
      <4>2. Behind(k)' = (inbuf[k] \o Append(replies[k], Head(wire[k]))) \o Tail(wire[k])
        BY <2>1, <1>0, Zenon DEF Behind, TypeOK
      <4>3. (inbuf[k] \o Append(replies[k], Head(wire[k]))) \o Tail(wire[k])
                = (inbuf[k] \o replies[k]) \o wire[k]
        BY <4>1, <2>1, Served, Zenon
      <4> QED  BY <3>1, <4>2, <4>3, Zenon DEF Behind
    <3>2. CASE j # k
      BY <3>2, <2>1, <1>0, Zenon DEF Behind, TypeOK
    <3> QED  BY <3>1, <3>2, Zenon
  <2>3. \A j \in Conns \ waited' : AlignedAt(j)'
    BY <2>1, <2>2, <1>0, OrderKept, Zenon DEF Aligned
  <2>4. \A j \in dead' : wire'[j] = <<>>
    <3>1. k \notin dead /\ dead \subseteq Conns
      BY <2>1, <1>0, Numbered DEF Aligned, TypeOK, Conns, SqlAssumption
    <3> QED  BY <3>1, <2>1, <1>0, Zenon DEF Aligned, TypeOK
  <2> QED  BY <2>3, <2>4, Zenon DEF Aligned
<1>9. ASSUME NEW k \in Conns, Break(k)
      PROVE  Aligned'
  <2>1. /\ UNCHANGED <<unsent, inbuf, replies, in_flight_, waited, at>>
        /\ wire' = [wire EXCEPT ![k] = <<>>] /\ dead' = dead \cup {k}
    BY <1>9, Zenon DEF Break, made_as, client, pool, libpq, server
  <2>2. \A j \in dead' : wire'[j] = <<>>
    <3>1. dead \subseteq Conns
      BY <1>0, Numbered DEF TypeOK, Conns, SqlAssumption
    <3> QED  BY <3>1, <2>1, <1>0 DEF Aligned, TypeOK
  <2>3. ASSUME NEW j \in Conns \ waited', j # k
        PROVE  AlignedAt(j)'
    <3>1. Behind(j)' = Behind(j)
      BY <2>1, <2>3, <1>0, Zenon DEF Behind, TypeOK
    <3> QED  BY <1>0, <2>1, <2>3, <3>1, OrderKept, Zenon DEF Aligned
  <2>4. ASSUME k \notin waited'
        PROVE  AlignedAt(k)'
    <3> DEFINE ab == inbuf[k] \o replies[k]
    <3>1. ab \in Seq(Message) /\ wire[k] \in Seq(Message) /\ wire'[k] = <<>>
      BY <2>1, <1>0, Joined, Zenon DEF TypeOK
    <3>2. Behind(k)' = ab \o <<>> /\ Behind(k) = ab \o wire[k]
      BY <2>1, <3>1, Zenon DEF Behind
    <3> HIDE DEF ab
    <3>3. Behind(k)' = ab
      BY <3>1, <3>2, JoinedEmpty, Zenon
    <3>4. /\ Len(ab) <= Len(Behind(k)) /\ Len(Behind(k)) \in Nat /\ Len(ab) \in Nat
          /\ \A i \in 1 .. Len(ab) : ab[i] = Behind(k)[i]
      BY <3>1, <3>2, Joined
    <3>5. AlignedAt(k) /\ k \in dead'
      BY <2>1, <2>4, <1>0, Zenon DEF Aligned
    <3>6. \A i \in 1 .. Len(ab) : ab[i] = Mine(in_flight_[k][i])
      BY <3>4, <3>5 DEF AlignedAt
    <3>7. Len(ab) <= Len(in_flight_[k]) /\ unsent[k] = <<>>
      BY <3>4, <3>5, <1>1 DEF AlignedAt
    <3> QED  BY <2>1, <3>3, <3>5, <3>6, <3>7, Zenon DEF AlignedAt, Mine
  <2> QED  BY <2>1, <2>2, <2>3, <2>4, Zenon DEF Aligned
<1>10. ASSUME NEW k \in Conns, Reader(k)
       PROVE  Aligned'
  <2> DEFINE q == Behind(k)
             r == (Tail(inbuf[k] \o replies[k]) \o <<>>) \o wire[k]
  <2>1. /\ UNCHANGED <<unsent, wire, dead, waited>> /\ replies[k] # <<>>
        /\ inbuf' = [inbuf EXCEPT ![k] = Tail(inbuf[k] \o replies[k])]
        /\ replies' = [replies EXCEPT ![k] = <<>>]
    BY <1>10, Zenon DEF Reader
  <2>2. wire[k] \in Seq(Message) /\ inbuf[k] \in Seq(Message) /\ replies[k] \in Seq(Message)
    BY <1>0, Zenon DEF TypeOK
  <2>3. Behind(k)' = r
    BY <2>1, <1>0, Zenon DEF Behind, TypeOK
  <2>4. /\ Len(q) >= 1 /\ Len(q) \in Nat /\ Len(r) = Len(q) - 1
        /\ \A i \in 1 .. Len(r) : r[i] = q[i + 1]
    <3>1. q = (inbuf[k] \o replies[k]) \o wire[k]
      BY Zenon DEF Behind
    <3> HIDE DEF q, r
    <3>2. /\ q \in Seq(Message) /\ Len(q) >= 1 /\ Len(r) = Len(q) - 1
          /\ \A i \in 1 .. Len(r) : r[i] = q[i + 1]
      <4>1. PICK a \in Seq(Message), b \in Seq(Message), w \in Seq(Message) :
                a = inbuf[k] /\ b = replies[k] /\ w = wire[k]
        BY <2>2, Zenon
      <4>2. Shifted((a \o b) \o w, (Tail(a \o b) \o <<>>) \o w)
        BY <4>1, <2>1, Consumed, Zenon
      <4>3. Shifted(q, r)
        BY <4>1, <4>2, <3>1, Zenon DEF r
      <4> QED  BY <4>3, Zenon DEF Shifted
    <3> QED  BY <3>2
  <2>5. CASE in_flight_[k] = <<>>
    <3>1. k \in waited
      <4>1. Len(in_flight_[k]) = 0
        BY <2>5
      <4> QED  BY <2>4, <4>1, <1>0 DEF Aligned, AlignedAt
    <3>2. UNCHANGED <<in_flight_, at>>
      BY <2>5, <1>10, Zenon DEF Reader, Deliver
    <3>3. ASSUME NEW j \in Conns \ waited'
          PROVE  AlignedAt(j)'
      <4>1. j # k
        BY <3>1, <2>1, Zenon
      <4>2. Behind(j)' = Behind(j)
        BY <4>1, <2>1, <1>0, Zenon DEF Behind, TypeOK
      <4> QED  BY <4>1, <4>2, <3>2, <2>1, <1>0, OrderKept, Zenon DEF Aligned
    <3> QED  BY <3>3, <2>1, <1>0, Zenon DEF Aligned
  <2>6. CASE in_flight_[k] # <<>>
    <3> DEFINE p == in_flight_[k]
    <3>1. Delivered(k)
      BY <2>6, <1>10, ReaderDelivers, Zenon
    <3>2. ASSUME NEW j \in Conns \ waited', j # k
          PROVE  AlignedAt(j)'
      <4>1. Behind(j)' = Behind(j)
        BY <3>2, <2>1, <1>0, Zenon DEF Behind, TypeOK
      <4>2. \A i \in DOMAIN in_flight_[j] : in_flight_[j][i] \in Clients \ {p[1]}
        <5>1. \A i \in DOMAIN in_flight_[j] : conn[in_flight_[j][i]] = j
          BY <1>0, Zenon DEF Waiting, WaitingAt
        <5>2. conn[p[1]] = k
          BY <3>1, Zenon DEF Delivered
        <5> HIDE DEF p
        <5> QED  BY <5>1, <5>2, <3>2, <1>1, Zenon
      <4>3. /\ \A i \in DOMAIN in_flight_[j] : at'[in_flight_[j][i]] = at[in_flight_[j][i]]
            /\ in_flight_'[j] = in_flight_[j]
        BY <4>2, <3>1, <3>2, Zenon DEF Delivered
      <4> QED  BY <4>1, <4>3, <3>2, <2>1, <1>0, OrderKept, Zenon DEF Aligned
    <3>3. ASSUME k \notin waited
          PROVE  AlignedAt(k)'
      <4>1. /\ unsent[k] = <<>> /\ Len(q) <= Len(p) /\ Len(p) \in Nat
            /\ k \notin dead => Len(q) = Len(p)
            /\ \A i \in 1 .. Len(q) : q[i] = Mine(p[i])
        BY <3>3, <1>0, <1>1, Zenon DEF Aligned, AlignedAt
      <4>2. /\ Len(in_flight_'[k]) = Len(p) - 1
            /\ \A i \in 1 .. Len(p) - 1 : in_flight_'[k][i] = p[i + 1] /\ p[i + 1] # p[1]
            /\ \A d \in Clients \ {p[1]} : at'[d] = at[d]
        BY <3>1, Zenon DEF Delivered
      <4>3. \A i \in 1 .. Len(p) : p[i] \in Clients
        BY <1>1, Zenon
      <4> HIDE DEF p, q, r
      <4>4. ASSUME NEW i \in 1 .. Len(r)
            PROVE  r[i] = [c |-> in_flight_'[k][i], i |-> at'[in_flight_'[k][i]]]
        <5>1. i \in 1 .. Len(p) - 1 /\ i + 1 \in 1 .. Len(q) /\ i + 1 \in 1 .. Len(p)
          BY <4>1, <4>4, <2>4
        <5>2. r[i] = Mine(p[i + 1]) /\ in_flight_'[k][i] = p[i + 1] /\ p[i + 1] \in Clients \ {p[1]}
          BY <5>1, <4>1, <4>2, <4>3, <4>4, <2>4, Zenon
        <5> QED  BY <5>2, <4>2, Zenon DEF Mine
      <4>5. Len(r) <= Len(in_flight_'[k]) /\ (k \notin dead => Len(r) = Len(in_flight_'[k]))
        BY <4>1, <4>2, <2>4
      <4> QED  BY <4>1, <4>4, <4>5, <2>1, <2>3, Zenon DEF AlignedAt, Mine
    <3> QED  BY <3>2, <3>3, <2>1, <1>0, Zenon DEF Aligned
  <2> QED  BY <2>5, <2>6, Zenon
<1>11. ASSUME NEW k \in Conns, ReaderEnds(k)
       PROVE  Aligned'
  BY <1>2, <1>11, Zenon DEF ReaderEnds, made_as, client, pool, libpq, server
<1>12. ASSUME UNCHANGED vars
       PROVE  Aligned'
  BY <1>2, <1>12, Zenon DEF made_as, client, pool, libpq, server, vars
<1> QED
  BY <1>3, <1>5, <1>6, <1>7, <1>8, <1>9, <1>10, <1>11, <1>12, Zenon DEF Next, Call, Rest

-----------------------------------------------------------------------------
(***************************************************************************)
(* The results that the reader delivers.                                   *)
(***************************************************************************)
LEMMA OwnStep ==
    ASSUME SqlAssumption, IInv, [Next]_vars
    PROVE  OwnResult'
<1>0. TypeOK /\ Aligned /\ OwnResult
  BY Zenon DEF IInv
<1>1. ASSUME misled' = misled, waited \subseteq waited', conn' = conn
      PROVE  OwnResult'
  BY <1>0, <1>1, Zenon DEF OwnResult
<1>2. ASSUME NEW c \in Clients, AcquireShared(c) \/ AcquireLease(c)
      PROVE  OwnResult'
  <2>1. /\ place[c] = "idle" /\ misled' = misled /\ waited' = waited
        /\ \A d \in Clients \ {c} : conn'[d] = conn[d]
    BY <1>0, <1>2, Zenon DEF AcquireShared, AcquireLease, Starts, Fails, TypeOK
  <2>2. conn[c] = None
    BY <2>1, Zenon DEF IInv, Placed, Places
  <2>3. None \notin waited
    BY <1>0, Numbered, Zenon DEF TypeOK, None
  <2> QED  BY <2>1, <2>2, <2>3, <1>0, Zenon DEF OwnResult, TypeOK
<1>3. ASSUME NEW c \in Clients, \/ Blocking(c) \/ BlockingFails(c) \/ SendFlushed(c)
                                \/ SendFails(c) \/ FlushAgain(c) \/ SendWaits(c)
      PROVE  OwnResult'
  BY <1>1, <1>3, Zenon
     DEF Blocking, BlockingFails, SendFlushed, SendFails, FlushAgain, SendWaits, Fails
<1>4. ASSUME NEW k \in Conns, Serve(k) \/ Break(k) \/ ReaderEnds(k)
      PROVE  OwnResult'
  BY <1>1, <1>4, Zenon DEF Serve, Break, ReaderEnds, made_as, client, pool, libpq, server
<1>5. ASSUME NEW k \in Conns, Reader(k)
      PROVE  OwnResult'
  <2>0. waited' = waited /\ conn' = conn
    BY <1>5, Zenon DEF Reader
  <2>1. CASE in_flight_[k] = <<>>
    BY <2>0, <2>1, <1>1, <1>5, Zenon DEF Reader, Deliver
  <2>2. CASE in_flight_[k] # <<>>
    <3>1. Delivered(k)
      BY <2>2, <1>5, ReaderDelivers, Zenon
    <3>2. CASE k \in waited
      BY <2>0, <3>1, <3>2, <1>0, Zenon DEF Delivered, OwnResult
    <3>3. CASE k \notin waited
      <4>1. PICK a \in Seq(Message), b \in Seq(Message), w \in Seq(Message) :
                a = inbuf[k] /\ b = replies[k] /\ w = wire[k]
        BY <1>0, Zenon DEF TypeOK
      <4>2. b # <<>>
        BY <4>1, <1>5, Zenon DEF Reader
      <4>3. /\ Shifted((a \o b) \o w, (Tail(a \o b) \o <<>>) \o w)
            /\ Head(a \o b) = ((a \o b) \o w)[1]
        BY <4>2, Consumed, Zenon
      <4>4. Behind(k) = (a \o b) \o w
        BY <4>1, Zenon DEF Behind
      <4>5. Len(Behind(k)) \in Nat /\ Len(Behind(k)) >= 1
        BY <4>3, <4>4 DEF Shifted
      <4>6. Behind(k)[1] = Mine(in_flight_[k][1])
        BY <4>5, <3>3, <1>0 DEF Aligned, AlignedAt
      <4>7. misled' = misled
        BY <4>1, <4>3, <4>4, <4>6, <3>1, Zenon DEF Delivered
      <4> QED  BY <4>7, <2>0, <1>1, Zenon
    <3> QED  BY <3>2, <3>3, Zenon
  <2> QED  BY <2>1, <2>2, Zenon
<1> QED
  BY <1>1, <1>2, <1>3, <1>4, <1>5, Zenon
     DEF Next, Call, Rest, made_as, client, pool, libpq, server, vars

LEMMA InvInit ==
    ASSUME SqlAssumption, Init
    PROVE  IInv
<1>0. /\ MaxCapacity \in Nat \ {0} /\ MaxCapacity + MaxBreaks \in Nat /\ 0 \in 0 .. MaxCapacity + MaxBreaks
      /\ 0 \in 0 .. capacity_ /\ capacity_ \in Nat /\ <<>> \in Seq(Conns) /\ <<>> \in Seq(Message)
      /\ <<>> \in Seq(Clients) /\ 1 \in 1 .. 4
  BY Numbered DEF SqlAssumption, Init
<1>1. TypeOK
  <2>1. session \in [Conns -> [open : BOOLEAN, marks : SUBSET Clients]]
    BY Zenon DEF Init, Fresh
  <2>2. /\ unsent \in [Conns -> Seq(Message)] /\ wire \in [Conns -> Seq(Message)]
        /\ replies \in [Conns -> Seq(Message)] /\ inbuf \in [Conns -> Seq(Message)]
        /\ in_flight_ \in [Conns -> Seq(Clients)]
    BY <1>0, Zenon DEF Init, Empty
  <2> QED  BY <1>0, <2>1, <2>2 DEF Init, TypeOK, None
<1>2. Exclusive
  BY DEF Init, Exclusive, IsInjective, Leased, Holding
<1>3. Placed
  <2>1. ASSUME NEW c \in Clients
        PROVE  Places(c)
    <3>1. Len(Script(c)) \in {1, 3}
      BY Scripts, Zenon DEF Init
    <3>2. conn[c] = 0 /\ 0 \in 0 .. 0 /\ made = 0 /\ place[c] = "idle" /\ at[c] = 1
      BY DEF Init, None
    <3>3. 1 <= Len(Script(c))
      BY <3>1
    <3> QED  BY <3>2, <3>3, Zenon DEF Places, Holding, None
  <2>2. [i \in 1 .. 0 |-> i] = <<>>
    OBVIOUS
  <2> QED  BY <2>1, <2>2, Zenon DEF Placed, Opened, Init
<1>4. Waiting
  BY DEF Init, Empty, Waiting, WaitingAt, IsInjective
<1>5. Aligned
  <2>1. ASSUME NEW k \in Conns
        PROVE  Behind(k) = <<>> /\ unsent[k] = <<>> /\ in_flight_[k] = <<>> /\ Len(<<>>) = 0
    BY DEF Init, Empty, Behind
  <2> QED  BY <2>1 DEF Aligned, AlignedAt, Init
<1>6. OwnResult
  BY Zenon DEF Init, OwnResult
<1> QED  BY <1>1, <1>2, <1>3, <1>4, <1>5, <1>6, Zenon DEF IInv

LEMMA InvStep ==
    ASSUME SqlAssumption, IInv, [Next]_vars
    PROVE  IInv'
BY TypeStep, ExclusiveStep, PlacedStep, WaitingStep, AlignedStep, OwnStep, Zenon DEF IInv

\* A coroutine on a pipelined connection is resumed with its own result, unless a
\* flush found the socket of that connection full.
THEOREM AlwaysOwnResult ==
    ASSUME SqlAssumption
    PROVE  Spec => []OwnResult
<1>1. Init => IInv
  BY InvInit, Zenon
<1>2. IInv /\ [Next]_vars => IInv'
  BY InvStep, Zenon
<1>3. IInv => OwnResult
  BY Zenon DEF IInv
<1> QED  BY <1>1, <1>2, <1>3, PTL DEF Spec

-----------------------------------------------------------------------------
(***************************************************************************)
(* Transactions: what the server and the sockets hold for a coroutine that *)
(* has its connection for itself.                                          *)
(***************************************************************************)
Users(k) == {d \in Clients : conn[d] = k}
Statements(k) == [c : Users(k), i : 1 .. 3]
Alone(c) == conn[c] # None /\ Users(conn[c]) = {c}

\* The session after n statements of c.
After(c, n) ==
    IF kind[c] = "auto" \/ n \in {0, 3} THEN Fresh
    ELSE [open |-> TRUE, marks |-> IF n = 1 THEN {} ELSE {c}]

\* The first n statements of c, and no more, have taken effect.
Counts(c, n) == c \in committed <=> kind[c] # "rollback" /\ n = Len(Script(c))
Through(c, k, n) == Counts(c, n) /\ (k \notin dead => session[k] = After(c, n))

Begun(c) == conn[c] = None => at[c] = 1 /\ c \notin committed

\* A leased connection: only its holder has a session there.
Vacant(k) ==
    /\ wire[k] = <<>> /\ replies[k] = <<>>
    /\ k \in dead \/ (\A c \in Clients : Holding(c) => conn[c] # k) => session[k] = Fresh

Followed(c) ==
    /\ Counts(c, at[c] - 1)
    /\ Holding(c) => Through(c, conn[c], at[c] - 1)

\* A shared connection carries the statements and the marks of its users.
Still(k) == unsent[k] = <<>> /\ wire[k] = <<>> /\ replies[k] = <<>> /\ in_flight_[k] = <<>>

Carried(k) ==
    /\ session[k].marks \subseteq Users(k)
    /\ unsent[k] \in Seq(Statements(k)) /\ wire[k] \in Seq(Statements(k))
    /\ Users(k) = {} => Still(k) /\ inbuf[k] = <<>> /\ session[k] = Fresh

\* Where the one statement can be that the only user c of k has there.
Resting(c, k) ==
    place[c] \in {"run", "done", "failed"} /\ Still(k) /\ Through(c, k, at[c] - 1)

Buffered(c, k) ==
    /\ place[c] = "flush" /\ in_flight_[k] = <<>>
    /\ unsent[k] = <<Mine(c)>> /\ wire[k] = <<>> /\ replies[k] = <<>>
    /\ Through(c, k, at[c] - 1)

Travelling(c, k) ==
    /\ place[c] = "wait" /\ in_flight_[k] = <<c>>
    /\ unsent[k] = <<>> /\ wire[k] = <<Mine(c)>> /\ replies[k] = <<>>
    /\ Through(c, k, at[c] - 1)

Replied(c, k) ==
    /\ place[c] = "wait" /\ in_flight_[k] = <<c>>
    /\ unsent[k] = <<>> /\ wire[k] = <<>> /\ replies[k] = <<Mine(c)>>
    /\ Through(c, k, at[c])

Lost(c, k) ==
    /\ place[c] = "wait" /\ in_flight_[k] = <<c>> /\ k \in dead
    /\ unsent[k] = <<>> /\ wire[k] = <<>> /\ replies[k] = <<>>
    /\ Through(c, k, at[c] - 1)

Single(c, k) ==
    /\ inbuf[k] = <<>>
    /\ \/ Resting(c, k) \/ Buffered(c, k) \/ Travelling(c, k) \/ Replied(c, k) \/ Lost(c, k)

FInv ==
    /\ IInv
    /\ \A c \in Clients : Begun(c)
    /\ ~pipelined => (\A k \in Conns : Vacant(k)) /\ \A c \in Clients : Followed(c)
    /\ pipelined => /\ \A k \in Conns : Carried(k)
                    /\ \A c \in Clients : Alone(c) => Single(c, conn[c])

\* The next statement of a coroutine, executed in its session.
LEMMA Statement ==
    ASSUME TypeOK, NEW c \in Clients, at[c] \in 1 .. Len(Script(c)),
           NEW s, s = After(c, at[c] - 1)
    PROVE  /\ Executed(s, Mine(c)) = After(c, at[c])
           /\ NowCommitted(s, Mine(c)) =
                IF at[c] = Len(Script(c)) /\ kind[c] # "rollback" THEN {c} ELSE {}
<1>0. Mine(c).c = c /\ Mine(c).i = at[c] /\ kind \in [Clients -> {"auto", "commit", "rollback"}]
  BY Zenon DEF Mine, TypeOK
<1>1. CASE kind[c] = "auto"
  <2>0. Script(c) = <<"write">>
    BY <1>0, <1>1, Scripts, Zenon
  <2>1. Len(Script(c)) = 1 /\ at[c] = 1 /\ Script(c)[1] = "write"
    BY <2>0
  <2>2. Text(Mine(c)) = "write" /\ s = Fresh /\ After(c, at[c]) = Fresh
    BY <1>0, <1>1, <2>1, Zenon DEF Text, After
  <2>3. s.open = FALSE /\ Fresh = [open |-> FALSE, marks |-> {}]
    BY <2>2 DEF Fresh
  <2>4. Executed(s, Mine(c)) = Fresh /\ NowCommitted(s, Mine(c)) = {c}
    BY <1>0, <2>2, <2>3, Zenon DEF Executed, NowCommitted
  <2> QED  BY <1>1, <2>1, <2>2, <2>4, Zenon
<1>2. CASE kind[c] # "auto"
  <2>0. /\ kind[c] \in {"commit", "rollback"} /\ Script(c) = <<"begin", "write", kind[c]>>
    BY <1>0, <1>2, Scripts, Zenon
  <2>1. /\ Len(Script(c)) = 3 /\ Script(c)[1] = "begin" /\ Script(c)[2] = "write"
        /\ Script(c)[3] = kind[c] /\ at[c] \in {1, 2, 3}
    BY <2>0
  <2>2. CASE at[c] = 1
    <3>1. After(c, at[c] - 1) = Fresh /\ After(c, at[c]) = [open |-> TRUE, marks |-> {}]
      BY <1>2, <2>2 DEF After
    <3>2. Text(Mine(c)) = "begin"
      BY <1>0, <2>1, <2>2, Zenon DEF Text
    <3>3. s.marks = {}
      BY <3>1 DEF Fresh
    <3>4. Executed(s, Mine(c)) = [open |-> TRUE, marks |-> {}] /\ NowCommitted(s, Mine(c)) = {}
      BY <3>2, <3>3, Zenon DEF Executed, NowCommitted
    <3>5. at[c] # Len(Script(c))
      BY <2>1, <2>2
    <3> QED  BY <3>1, <3>4, <3>5, Zenon
  <2>3. CASE at[c] = 2
    <3>1. /\ After(c, at[c] - 1) = [open |-> TRUE, marks |-> {}]
          /\ After(c, at[c]) = [open |-> TRUE, marks |-> {c}]
      BY <1>2, <2>3 DEF After
    <3>2. Text(Mine(c)) = "write"
      BY <1>0, <2>1, <2>3, Zenon DEF Text
    <3>3. s.open = TRUE /\ s.marks = {} /\ {} \cup {c} = {c}
      BY <3>1
    <3>4. Executed(s, Mine(c)) = [open |-> TRUE, marks |-> {c}] /\ NowCommitted(s, Mine(c)) = {}
      BY <1>0, <3>2, <3>3, Zenon DEF Executed, NowCommitted
    <3>5. at[c] # Len(Script(c))
      BY <2>1, <2>3
    <3> QED  BY <3>1, <3>4, <3>5, Zenon
  <2>4. CASE at[c] = 3
    <3>1. After(c, at[c] - 1) = [open |-> TRUE, marks |-> {c}] /\ After(c, at[c]) = Fresh
      BY <1>2, <2>4 DEF After
    <3>2. Text(Mine(c)) = kind[c] /\ s.marks = {c}
      <4>1. s.marks = {c}
        BY <3>1
      <4> QED  BY <4>1, <1>0, <2>1, <2>4, Zenon DEF Text
    <3>3. Executed(s, Mine(c)) = Fresh
      BY <2>0, <3>2, Zenon DEF Executed
    <3>4. NowCommitted(s, Mine(c)) = IF kind[c] # "rollback" THEN {c} ELSE {}
      BY <2>0, <3>2, Zenon DEF NowCommitted
    <3> QED  BY <2>1, <2>4, <3>1, <3>3, <3>4, Zenon
  <2> QED  BY <2>1, <2>2, <2>3, <2>4, Zenon
<1> QED  BY <1>1, <1>2, Zenon

\* The server executes the next statement of c on its connection.
LEMMA Advances ==
    ASSUME SqlAssumption, IInv, NEW c \in Clients, Holding(c), conn[c] \notin dead,
           Through(c, conn[c], at[c] - 1), Execute(conn[c], Mine(c)), UNCHANGED <<kind, dead>>
    PROVE  /\ session'[conn[c]] = After(c, at[c])
           /\ c \in committed' <=> kind[c] # "rollback" /\ at[c] = Len(Script(c))
           /\ \A d \in Clients \ {c} : d \in committed' <=> d \in committed
<1>1. /\ TypeOK /\ conn[c] \in Conns /\ at[c] \in 1 .. Len(Script(c)) /\ Len(Script(c)) \in {1, 3}
      /\ Mine(c) \in Message
  BY Holds, Zenon DEF IInv
<1>2. at[c] - 1 # Len(Script(c))
  BY <1>1
<1>3. session[conn[c]] = After(c, at[c] - 1) /\ c \notin committed
  BY <1>2, Zenon DEF Through, Counts
<1>4. /\ Executed(session[conn[c]], Mine(c)) = After(c, at[c])
      /\ NowCommitted(session[conn[c]], Mine(c)) =
            IF at[c] = Len(Script(c)) /\ kind[c] # "rollback" THEN {c} ELSE {}
  BY <1>1, <1>3, Statement, Zenon
<1>5. /\ session'[conn[c]] = Executed(session[conn[c]], Mine(c))
      /\ committed' = committed \cup NowCommitted(session[conn[c]], Mine(c))
  BY <1>1, Executes, Zenon
<1> QED  BY <1>3, <1>4, <1>5, Zenon

-----------------------------------------------------------------------------
(***************************************************************************)
(* Every step keeps what holds of leased connections.                      *)
(***************************************************************************)
\* A coroutine that a step does not touch.
LEMMA FollowedKept ==
    ASSUME NEW c \in Clients, Followed(c), UNCHANGED kind, at'[c] = at[c],
           c \in committed' <=> c \in committed, Holding(c)' => Holding(c),
           Holding(c) => /\ conn'[c] = conn[c] /\ (conn[c] \in dead => conn[c] \in dead')
                         /\ conn[c] \in dead' \/ session'[conn[c]] = session[conn[c]]
    PROVE  Followed(c)'
<1>1. Script(c)' = Script(c) /\ \A n : After(c, n)' = After(c, n)
  BY Zenon DEF Script, After, Fresh
<1>2. Counts(c, at[c] - 1)'
  BY <1>1, Zenon DEF Followed, Counts
<1>3. ASSUME Holding(c)'
      PROVE  Through(c, conn[c], at[c] - 1)'
  <2>1. PICK k, n : k = conn[c] /\ n = at[c] - 1
    BY Zenon
  <2>2. conn[c] \notin dead' => session'[k] = After(c, n)'
    BY <1>1, <1>3, <2>1, Zenon DEF Followed, Through
  <2>3. k = conn'[c] /\ n = at'[c] - 1
    BY <1>3, <2>1, Zenon
  <2> QED  BY <1>2, <2>1, <2>2, <2>3, Zenon DEF Through
<1> QED  BY <1>2, <1>3, Zenon DEF Followed

LEMMA LeasesStep ==
    ASSUME SqlAssumption, FInv, ~pipelined, [Next]_vars
    PROVE  (\A k \in Conns : Vacant(k)') /\ \A c \in Clients : Followed(c)'
<1>0. /\ IInv /\ TypeOK /\ \A k \in Conns : Vacant(k)
      /\ \A c \in Clients : Followed(c) /\ Begun(c) /\ Places(c)
  BY Zenon DEF FInv, IInv, Placed
<1>1. ASSUME NEW c \in Clients, AcquireLease(c)
      PROVE  (\A k \in Conns : Vacant(k)') /\ \A d \in Clients : Followed(d)'
  <2>0. /\ place[c] = "idle" /\ ~Holding(c) /\ at[c] = 1
        /\ UNCHANGED <<pipelined, kind, at, dead, wire, session, replies, committed>>
    BY <1>0, <1>1, Zenon DEF AcquireLease, Holding, made_as, server, Places, Begun
  <2>1. \A d \in Clients \ {c} : (Holding(d)' <=> Holding(d)) /\ conn'[d] = conn[d]
    BY <1>0, <1>1, Zenon DEF AcquireLease, Starts, Fails, TypeOK, Holding
  <2>2. \A k \in Conns : Vacant(k)'
    BY <2>0, <2>1, <1>0, Zenon DEF Vacant, Fresh
  <2>3. \A d \in Clients \ {c} : Followed(d)'
    BY <2>0, <2>1, <1>0, FollowedKept, Zenon
  <2>4. Followed(c)'
    <3>1. CASE ~Holding(c)'
      BY <3>1, <2>0, <1>0, FollowedKept, Zenon
    <3>2. CASE Holding(c)'
      <4>1. IInv' /\ Exclusive'
        BY <1>0, InvStep, Zenon DEF IInv
      <4>2. conn'[c] \in Conns /\ c \in Leased'
        <5>1. /\ conn' \in [Clients -> Conns \cup {None}] /\ conn'[c] # None
          BY <4>1, <3>2, Zenon DEF IInv, TypeOK, Placed, Places
        <5> QED  BY <5>1, <2>0, <3>2, Zenon DEF Leased
      <4>3. \A d \in Clients : Holding(d) => conn[d] # conn'[c]
        <5>1. \A d \in Clients : Holding(d) => d \in Leased' /\ d # c
          BY <2>0, <2>1, Zenon DEF Leased
        <5> QED  BY <4>1, <4>2, <5>1, <2>1, Zenon DEF Exclusive
      <4>4. session'[conn'[c]] = Fresh
        BY <4>2, <4>3, <2>0, <1>0, Zenon DEF Vacant
      <4>5. at'[c] - 1 = 0 /\ at[c] - 1 = 0
        BY <2>0
      <4>6. After(c, 0)' = Fresh /\ Script(c)' = Script(c) /\ Fresh' = Fresh
        BY <2>0, Zenon DEF After, Script, Fresh
      <4>7. Counts(c, 0)
        BY <1>0, <4>5, Zenon DEF Followed
      <4> QED  BY <4>4, <4>5, <4>6, <4>7, <2>0, Zenon DEF Followed, Through, Counts
    <3> QED  BY <3>1, <3>2, Zenon
  <2> QED  BY <2>2, <2>3, <2>4, Zenon
<1>2. ASSUME NEW c \in Clients, Blocking(c)
      PROVE  (\A k \in Conns : Vacant(k)') /\ \A d \in Clients : Followed(d)'
  <2>0. /\ place[c] = "run" /\ Holding(c) /\ conn[c] \notin dead /\ Execute(conn[c], Mine(c))
        /\ Continues(c) /\ UNCHANGED <<pipelined, kind, conn, dead, wire, replies>>
    BY <1>2, Zenon DEF Blocking, Holding, made_as
  <2>1. /\ conn[c] \in Conns /\ Mine(c) \in Message /\ Len(Script(c)) \in {1, 3}
        /\ at[c] \in 1 .. Len(Script(c))
    BY <2>0, <1>0, Holds, Zenon
  <2>2. /\ session'[conn[c]] = After(c, at[c])
        /\ c \in committed' <=> kind[c] # "rollback" /\ at[c] = Len(Script(c))
        /\ \A d \in Clients \ {c} : d \in committed' <=> d \in committed
    BY <2>0, <1>0, Advances, Zenon DEF Followed
  <2>3. \A j \in Conns \ {conn[c]} : session'[j] = session[j]
    BY <2>0, <2>1, <1>0, Executes, Zenon
  <2>4. /\ \A d \in Clients \ {c} : at'[d] = at[d] /\ place'[d] = place[d]
        /\ at'[c] = at[c] + 1 /\ (at[c] # Len(Script(c)) => place'[c] = "run")
    BY <2>0, <1>0, Goes, Zenon
  <2>5. at'[c] - 1 = at[c]
    BY <2>1, <2>4
  <2>6. Script(c)' = Script(c) /\ (\A n : After(c, n)' = After(c, n)) /\ Fresh' = Fresh
    BY <2>0, Zenon DEF Script, After, Fresh
  <2>7. Followed(c)'
    BY <2>0, <2>2, <2>5, <2>6, Zenon DEF Followed, Through, Counts
  <2>8. \A d \in Clients \ {c} : Followed(d)'
    <3>1. \A d \in Clients \ {c} : Holding(d) => conn[d] \in Conns \ {conn[c]}
      <4>1. Exclusive /\ c \in Leased
        BY <2>0, <1>0, Zenon DEF IInv, Leased
      <4>2. \A d \in Clients : Holding(d) => conn[d] \in Conns /\ d \in Leased
        BY <1>0, Holds, Zenon DEF Leased
      <4> QED  BY <4>1, <4>2, Zenon DEF Exclusive
    <3>2. \A d \in Clients \ {c} : Holding(d)' <=> Holding(d)
      BY <2>4, Zenon DEF Holding
    <3> QED  BY <3>1, <3>2, <2>0, <2>2, <2>3, <2>4, <1>0, FollowedKept, Zenon
  <2>9. \A k \in Conns : Vacant(k)'
    <3>1. \A k \in Conns \ {conn[c]} : Vacant(k)'
      <4>1. \A d \in Clients \ {c} : Holding(d)' <=> Holding(d)
        BY <2>4, Zenon DEF Holding
      <4> QED  BY <4>1, <2>0, <2>3, <2>6, <1>0, Zenon DEF Vacant
    <3>2. ASSUME NEW k \in Conns, k = conn[c]
          PROVE  Vacant(k)'
      <4>1. CASE at[c] = Len(Script(c))
        <5>1. After(c, at[c]) = Fresh
          <6>1. Len(Script(c)) = 1 <=> kind[c] = "auto"
            BY <1>0, Scripts, Zenon DEF TypeOK
          <6> QED  BY <6>1, <4>1, <2>1, Zenon DEF After
        <5> QED  BY <5>1, <2>0, <2>2, <2>6, <3>2, <1>0, Zenon DEF Vacant
      <4>2. CASE at[c] # Len(Script(c))
        <5>1. Holding(c)' /\ conn'[c] = conn[c]
          BY <4>2, <2>0, <2>4, Zenon DEF Holding
        <5> QED  BY <5>1, <2>0, <3>2, <1>0, Zenon DEF Vacant
      <4> QED  BY <4>1, <4>2, Zenon
    <3> QED  BY <3>1, <3>2, Zenon
  <2> QED  BY <2>7, <2>8, <2>9, Zenon
<1>3. ASSUME NEW c \in Clients, BlockingFails(c)
      PROVE  (\A k \in Conns : Vacant(k)') /\ \A d \in Clients : Followed(d)'
  <2>0. /\ Holding(c) /\ conn[c] \in dead /\ UNCHANGED <<kind, conn, at>>
        /\ UNCHANGED <<dead, wire, session, replies, committed>>
    BY <1>3, Zenon DEF BlockingFails, Fails, Holding, made_as, server
  <2>1. (\A d \in Clients \ {c} : place'[d] = place[d]) /\ place'[c] = "failed"
    BY <1>0, <1>3, Zenon DEF BlockingFails, Fails, TypeOK
  <2>2. (\A d \in Clients \ {c} : Holding(d)' <=> Holding(d)) /\ ~Holding(c)'
    BY <2>1, Zenon DEF Holding
  <2>3. \A d \in Clients : Followed(d)'
    BY <2>0, <2>2, <1>0, FollowedKept, Zenon
  <2>4. \A k \in Conns : Vacant(k)'
    BY <2>0, <2>2, <1>0, Zenon DEF Vacant, Fresh
  <2> QED  BY <2>3, <2>4, Zenon
<1>4. ASSUME NEW j \in Conns, Break(j)
      PROVE  (\A k \in Conns : Vacant(k)') /\ \A d \in Clients : Followed(d)'
  <2>0. /\ dead' = dead \cup {j} /\ session'[j] = Fresh /\ wire'[j] = <<>>
        /\ \A k \in Conns \ {j} : session'[k] = session[k] /\ wire'[k] = wire[k]
        /\ UNCHANGED <<kind, place, at, conn, replies, committed>>
    BY <1>0, <1>4, Zenon DEF Break, TypeOK, made_as, client
  <2>1. \A d \in Clients : Holding(d)' <=> Holding(d)
    BY <2>0, Zenon DEF Holding
  <2>2. \A k \in Conns : Vacant(k)'
    BY <2>0, <2>1, <1>0, Zenon DEF Vacant, Fresh
  <2>3. \A d \in Clients : Holding(d) => conn[d] \in Conns
    BY <1>0, Holds, Zenon
  <2>4. \A d \in Clients : Followed(d)'
    BY <2>0, <2>1, <2>3, <1>0, FollowedKept, Zenon
  <2> QED  BY <2>2, <2>4, Zenon
<1>5. ASSUME UNCHANGED <<kind, place, at, conn, dead, wire, session, replies, committed>>
      PROVE  (\A k \in Conns : Vacant(k)') /\ \A d \in Clients : Followed(d)'
  <2>1. \A d \in Clients : Holding(d)' <=> Holding(d)
    BY <1>5, Zenon DEF Holding
  <2>2. \A k \in Conns : Vacant(k)'
    BY <2>1, <1>0, <1>5, Zenon DEF Vacant, Fresh
  <2>3. \A d \in Clients : Followed(d)'
    BY <2>1, <1>0, <1>5, FollowedKept, Zenon
  <2> QED  BY <2>2, <2>3, Zenon
<1>6. ASSUME NEW k \in Conns
      PROVE  ~Serve(k) /\ ~Reader(k)
  BY <1>0, <1>6, Zenon DEF Vacant, Serve, Reader
<1>7. ASSUME NEW c \in Clients
      PROVE  /\ ~AcquireShared(c) /\ ~SendFlushed(c) /\ ~SendFails(c) /\ ~FlushAgain(c)
             /\ ~SendWaits(c)
  BY <1>0, <1>7, Zenon DEF AcquireShared, SendFlushed, SendFails, FlushAgain, SendWaits, Places
<1>8. ASSUME NEW k \in Conns, ReaderEnds(k)
      PROVE  UNCHANGED <<kind, place, at, conn, dead, wire, session, replies, committed>>
  BY <1>8, Zenon DEF ReaderEnds, made_as, client, server
<1>9. ASSUME UNCHANGED vars
      PROVE  UNCHANGED <<kind, place, at, conn, dead, wire, session, replies, committed>>
  BY <1>9, Zenon DEF vars, made_as, client, server
<1> QED
  BY <1>1, <1>2, <1>3, <1>4, <1>5, <1>6, <1>7, <1>8, <1>9, Zenon DEF Next, Call, Rest

-----------------------------------------------------------------------------
(***************************************************************************)
(* Every step keeps what holds of shared connections.                      *)
(***************************************************************************)
LEMMA Widened ==
    ASSUME NEW S, NEW T, S \subseteq T, NEW s \in Seq(S)
    PROVE  s \in Seq(T)
OBVIOUS

\* A connection to which a step brings nothing of a coroutine that is no user.
LEMMA CarriedKept ==
    ASSUME NEW k \in Conns, Carried(k), Users(k) \subseteq Users(k)',
           session'[k].marks \subseteq Users(k)',
           unsent'[k] \in Seq(Statements(k)), wire'[k] \in Seq(Statements(k)),
           Users(k) = {} => /\ unsent'[k] = unsent[k] /\ wire'[k] = wire[k] /\ replies'[k] = replies[k]
                            /\ inbuf'[k] = inbuf[k] /\ in_flight_'[k] = in_flight_[k]
                            /\ session'[k] = session[k]
    PROVE  Carried(k)'
<1>1. Statements(k) \subseteq Statements(k)'
  BY Zenon DEF Statements
<1>2. unsent'[k] \in Seq(Statements(k)') /\ wire'[k] \in Seq(Statements(k)')
  BY <1>1, Widened
<1>3. Users(k)' = {} => Users(k) = {}
  BY Zenon
<1> QED  BY <1>2, <1>3, Zenon DEF Carried, Still, Fresh

\* A coroutine keeps the connection of its guard.
LEMMA UsersGrow ==
    ASSUME SqlAssumption, IInv, [Next]_vars, NEW k \in Conns
    PROVE  Users(k) \subseteq Users(k)'
<1>0. TypeOK /\ None \notin Conns /\ \A c \in Clients : Places(c)
  BY Numbered, Zenon DEF IInv, Placed, None
<1>1. ASSUME NEW c \in Clients, AcquireShared(c) \/ AcquireLease(c)
      PROVE  Users(k) \subseteq Users(k)'
  <2>1. place[c] = "idle" /\ \A d \in Clients \ {c} : conn'[d] = conn[d]
    BY <1>0, <1>1, Zenon DEF AcquireShared, AcquireLease, Starts, Fails, TypeOK
  <2>2. conn[c] = None
    BY <2>1, <1>0, Zenon DEF Places
  <2> QED  BY <2>1, <2>2, <1>0, Zenon DEF Users
<1>2. ASSUME conn' = conn
      PROVE  Users(k) \subseteq Users(k)'
  BY <1>2, Zenon DEF Users
<1> QED
  BY <1>1, <1>2, Zenon
     DEF Next, Call, Rest, vars, client, Blocking, BlockingFails, SendFlushed, SendWaits,
         FlushAgain, SendFails, Fails, Serve, Break, Reader, ReaderEnds

LEMMA CarriedStep ==
    ASSUME SqlAssumption, FInv, pipelined, [Next]_vars, NEW k \in Conns
    PROVE  Carried(k)'
<1>0. /\ IInv /\ TypeOK /\ Carried(k) /\ Users(k) \subseteq Users(k)'
      /\ \A c \in Clients : Places(c)
  BY UsersGrow, Zenon DEF FInv, IInv, Placed
<1>1. ASSUME UNCHANGED <<unsent, wire, replies, inbuf, in_flight_, session>>
      PROVE  Carried(k)'
  <2>1. /\ session[k].marks \subseteq Users(k)
        /\ unsent[k] \in Seq(Statements(k)) /\ wire[k] \in Seq(Statements(k))
    BY <1>0, Zenon DEF Carried
  <2> QED  BY <2>1, <1>0, <1>1, CarriedKept, Zenon
<1>2. ASSUME NEW c \in Clients, SendFlushed(c) \/ SendWaits(c) \/ FlushAgain(c)
      PROVE  Carried(k)'
  <2>0. /\ Holding(c) /\ session' = session /\ replies' = replies /\ inbuf' = inbuf
    BY <1>2, Zenon DEF SendFlushed, SendWaits, FlushAgain, Holding
  <2>1. conn[c] \in Conns /\ Mine(c) \in Message
    BY <2>0, <1>0, Holds, Zenon
  <2>2. PICK buffer \in {unsent[conn[c]], Append(unsent[conn[c]], Mine(c))} :
            \E n \in 0 .. Len(buffer) : Flush(conn[c], buffer, n)
    <3> DEFINE u == unsent[conn[c]]
               v == Append(u, Mine(c))
    <3>1. u \in Seq(Message)
      BY <2>1, <1>0, Zenon DEF TypeOK
    <3>2. Len(u) \in 0 .. Len(u) /\ Len(v) \in 0 .. Len(v) /\ \A m \in 0 .. Len(u) : m \in 0 .. Len(v)
      BY <2>1, <3>1
    <3>3. CASE SendFlushed(c)
      <4>1. Flush(conn[c], v, Len(v))
        BY <3>3, Zenon DEF SendFlushed
      <4> QED  BY <4>1, <3>2, Zenon
    <3>4. CASE SendWaits(c)
      <4>1. PICK m \in 0 .. Len(u) : Flush(conn[c], v, m)
        BY <3>4, Zenon DEF SendWaits
      <4> QED  BY <4>1, <3>2, Zenon
    <3>5. CASE FlushAgain(c)
      <4>1. Flush(conn[c], u, Len(u))
        BY <3>5, Zenon DEF FlushAgain
      <4> QED  BY <4>1, <3>2, Zenon
    <3> QED  BY <3>3, <3>4, <3>5, <1>2, Zenon
  <2>3. PICK n \in 0 .. Len(buffer) : Flush(conn[c], buffer, n)
    BY <2>2, Zenon
  <2>4. CASE k = conn[c]
    <3>1. c \in Users(k) /\ Mine(c) \in Statements(k)
      BY <2>1, <2>4, Zenon DEF Users, Statements, Mine, Message
    <3>2. PICK u \in Seq(Statements(k)), w \in Seq(Statements(k)) : u = unsent[k] /\ w = wire[k]
      BY <1>0, Zenon DEF Carried
    <3>3. Append(u, Mine(c)) \in Seq(Statements(k))
      BY <3>1, <3>2
    <3>4. buffer \in Seq(Statements(k))
      BY <3>2, <3>3, <2>2, <2>4, Zenon
    <3>5. /\ SubSeq(buffer, n + 1, Len(buffer)) \in Seq(Statements(k))
          /\ w \o SubSeq(buffer, 1, n) \in Seq(Statements(k)) /\ <<>> \in Seq(Statements(k))
      <4>1. n \in 0 .. Len(buffer)
        BY <2>3, Zenon
      <4> QED  BY <4>1, <3>2, <3>4
    <3>6. unsent'[k] \in Seq(Statements(k)) /\ wire'[k] \in Seq(Statements(k))
      BY <3>2, <3>5, <2>3, <2>4, <1>0, Zenon DEF Flush, TypeOK
    <3> QED  BY <3>1, <3>6, <2>0, <1>0, CarriedKept, Zenon DEF Carried
  <2>5. CASE k # conn[c]
    <3>1. unsent'[k] = unsent[k] /\ wire'[k] = wire[k]
      BY <2>3, <2>5, <1>0, Zenon DEF Flush, TypeOK
    <3>2. in_flight_'[k] = in_flight_[k]
      BY <2>5, <1>0, <1>2, Zenon DEF SendFlushed, SendWaits, FlushAgain, Enqueue, TypeOK
    <3> QED  BY <3>1, <3>2, <2>0, <1>0, CarriedKept, Zenon DEF Carried
  <2> QED  BY <2>4, <2>5, Zenon
<1>3. ASSUME NEW j \in Conns, Serve(j)
      PROVE  Carried(k)'
  <2>0. /\ UNCHANGED <<unsent, inbuf, in_flight_>> /\ wire[j] # <<>> /\ Execute(j, Head(wire[j]))
        /\ \A i \in Conns \ {j} : wire'[i] = wire[i] /\ replies'[i] = replies[i]
        /\ wire'[j] = Tail(wire[j])
    BY <1>0, <1>3, Zenon DEF Serve, libpq, TypeOK
  <2>1. Head(wire[j]) \in Message
    <3>1. PICK w \in Seq(Message) : w = wire[j]
      BY <1>0, Zenon DEF TypeOK
    <3>2. Head(w) \in Message
      BY <3>1, <2>0
    <3> QED  BY <3>1, <3>2, Zenon
  <2>2. /\ \A i \in Conns \ {j} : session'[i] = session[i]
        /\ session'[j].marks \subseteq session[j].marks \cup {Head(wire[j]).c}
    BY <2>0, <2>1, <1>0, Executes, Zenon
  <2>3. CASE k = j
    <3>1. PICK w \in Seq(Statements(k)) : w = wire[k]
      BY <1>0, Zenon DEF Carried
    <3>2. Tail(w) \in Seq(Statements(k)) /\ Head(w) \in Statements(k)
      BY <3>1, <2>0, <2>3
    <3>3. Head(w).c \in Users(k)
      BY <3>2, Zenon DEF Statements
    <3> QED  BY <3>1, <3>2, <3>3, <2>0, <2>2, <2>3, <1>0, CarriedKept, Zenon DEF Carried
  <2>4. CASE k # j
    BY <2>0, <2>2, <2>4, <1>0, CarriedKept, Zenon DEF Carried
  <2> QED  BY <2>3, <2>4, Zenon
<1>4. ASSUME NEW j \in Conns, Break(j)
      PROVE  Carried(k)'
  <2>0. /\ UNCHANGED <<unsent, inbuf, in_flight_, replies>>
        /\ \A i \in Conns \ {j} : wire'[i] = wire[i] /\ session'[i] = session[i]
        /\ wire'[j] = <<>> /\ session'[j] = Fresh
    BY <1>0, <1>4, Zenon DEF Break, libpq, TypeOK
  <2>1. <<>> \in Seq(Statements(k)) /\ Fresh.marks = {}
    BY DEF Fresh
  <2>2. CASE k = j
    BY <2>0, <2>1, <2>2, <1>0, CarriedKept, Zenon DEF Carried, Still
  <2>3. CASE k # j
    BY <2>0, <2>3, <1>0, CarriedKept, Zenon DEF Carried
  <2> QED  BY <2>2, <2>3, Zenon
<1>5. ASSUME NEW j \in Conns, Reader(j)
      PROVE  Carried(k)'
  <2>0. /\ UNCHANGED <<unsent, wire, session>> /\ replies[j] # <<>>
        /\ \A i \in Conns \ {j} : /\ inbuf'[i] = inbuf[i] /\ replies'[i] = replies[i]
                                  /\ in_flight_'[i] = in_flight_[i]
    BY <1>0, <1>5, Zenon DEF Reader, Deliver, TypeOK
  <2>1. Users(k) = {} => k # j
    BY <2>0, <1>0, Zenon DEF Carried, Still
  <2> QED  BY <2>0, <2>1, <1>0, CarriedKept, Zenon DEF Carried
<1> QED
  BY <1>1, <1>2, <1>3, <1>4, <1>5, Zenon
     DEF Next, Call, Rest, vars, libpq, server, AcquireShared, AcquireLease, Blocking, BlockingFails,
         SendFails, ReaderEnds

\* What a statement that the server executes on j commits is of the users of j.
LEMMA CommitsOwn ==
    ASSUME SqlAssumption, IInv, NEW j \in Conns, Carried(j), Serve(j)
    PROVE  \A d \in Clients \ Users(j) : d \in committed' <=> d \in committed
<1>0. TypeOK /\ wire[j] # <<>> /\ Execute(j, Head(wire[j])) /\ session[j].marks \subseteq Users(j)
  BY Zenon DEF IInv, Serve, Carried
<1>1. PICK w \in Seq(Message) : w = wire[j]
  BY <1>0, Zenon DEF TypeOK
<1>2. PICK v \in Seq(Statements(j)) : v = wire[j]
  BY Zenon DEF Carried
<1>3. Head(w) \in Message
  BY <1>0, <1>1
<1>4. Head(v) \in Statements(j)
  BY <1>0, <1>2
<1>5. Head(wire[j]) \in Message /\ Head(wire[j]).c \in Users(j)
  BY <1>1, <1>2, <1>3, <1>4, Zenon DEF Statements
<1>6. /\ committed' = committed \cup NowCommitted(session[j], Head(wire[j]))
      /\ NowCommitted(session[j], Head(wire[j])) \subseteq session[j].marks \cup {Head(wire[j]).c}
  BY <1>0, <1>5, Executes, Zenon
<1> QED  BY <1>0, <1>5, <1>6, Zenon

\* A step that does not touch the only user of a connection.
LEMMA SingleKept ==
    ASSUME NEW c \in Clients, NEW k \in Conns, Single(c, k), UNCHANGED kind,
           place'[c] = place[c], at'[c] = at[c], c \in committed' <=> c \in committed,
           unsent'[k] = unsent[k], wire'[k] = wire[k], replies'[k] = replies[k],
           inbuf'[k] = inbuf[k], in_flight_'[k] = in_flight_[k],
           k \in dead => k \in dead', session'[k] = session[k]
    PROVE  Single(c, k)'
<1>1. Script(c)' = Script(c) /\ (\A n : After(c, n)' = After(c, n)) /\ Mine(c)' = Mine(c)
  BY Zenon DEF Script, After, Fresh, Mine
<1>2. \A n : Through(c, k, n) => Through(c, k, n)'
  BY <1>1, Zenon DEF Through, Counts
<1>3. ASSUME Resting(c, k)
      PROVE  Single(c, k)'
  <2>1. Resting(c, k)'
    BY <1>2, <1>3, Zenon DEF Resting, Still
  <2> QED  BY <2>1, Zenon DEF Single
<1>4. ASSUME Buffered(c, k)
      PROVE  Single(c, k)'
  <2>1. Buffered(c, k)'
    BY <1>1, <1>2, <1>4, Zenon DEF Buffered
  <2> QED  BY <2>1, Zenon DEF Single
<1>5. ASSUME Travelling(c, k)
      PROVE  Single(c, k)'
  <2>1. Travelling(c, k)'
    BY <1>1, <1>2, <1>5, Zenon DEF Travelling
  <2> QED  BY <2>1, Zenon DEF Single
<1>6. ASSUME Replied(c, k)
      PROVE  Single(c, k)'
  <2>1. Replied(c, k)'
    BY <1>1, <1>2, <1>6, Zenon DEF Replied
  <2> QED  BY <2>1, Zenon DEF Single
<1>7. ASSUME Lost(c, k)
      PROVE  Single(c, k)'
  <2>1. Lost(c, k)'
    BY <1>1, <1>2, <1>7, Zenon DEF Lost
  <2> QED  BY <2>1, Zenon DEF Single
<1> QED  BY <1>3, <1>4, <1>5, <1>6, <1>7, Zenon DEF Single

\* Flushing a buffer of one statement.
LEMMA OneStatement ==
    ASSUME NEW m \in Message
    PROVE  /\ <<m>> \in Seq(Message) /\ Append(<<>>, m) = <<m>> /\ Len(<<m>>) = 1 /\ Len(<<>>) = 0
           /\ SubSeq(<<m>>, 1, 1) = <<m>> /\ <<>> \o SubSeq(<<m>>, 1, 0) = <<>>
           /\ 0 + 1 = 1 /\ \A n \in 0 .. 0 : n = 0
<1>1. <<m>> \in Seq(Message) /\ Append(<<>>, m) = <<m>> /\ Len(<<m>>) = 1 /\ Len(<<>>) = 0
  OBVIOUS
<1>2. SubSeq(<<m>>, 1, 1) = <<m>>
  BY <1>1, SlicedWhole, Zenon
<1>3. \A s \in Seq(Message) : s \o SubSeq(s, 1, 0) = s /\ SubSeq(s, 1, 0) = <<>>
  OBVIOUS
<1>4. SubSeq(<<m>>, 1, 0) = <<>>
  BY <1>1, <1>3, Zenon
<1>5. <<>> \o <<>> = <<>> /\ 0 + 1 = 1 /\ \A n \in 0 .. 0 : n = 0
  OBVIOUS
<1> QED  BY <1>1, <1>2, <1>4, <1>5, Zenon

\* The only user of a connection joins the waiters with its statement.
LEMMA Sending ==
    ASSUME TypeOK, NEW c \in Clients, NEW k \in Conns, conn[c] = k, Mine(c) \in Message,
           in_flight_[k] = <<>>, wire[k] = <<>>, replies[k] = <<>>, inbuf[k] = <<>>,
           Through(c, k, at[c] - 1), Flush(k, <<Mine(c)>>, 1), Enqueue(c),
           UNCHANGED <<kind, at, replies, inbuf, session, committed, dead>>
    PROVE  Single(c, k)'
<1>1. /\ <<Mine(c)>> \in Seq(Message) /\ 1 \in 0 .. Len(<<Mine(c)>>) /\ 1 = Len(<<Mine(c)>>)
      /\ <<>> \o <<Mine(c)>> = <<Mine(c)>> /\ Append(<<>>, c) = <<c>>
  OBVIOUS
<1>2. /\ unsent'[k] = <<>>
      /\ k \in dead => wire'[k] = <<>>
      /\ k \notin dead => wire'[k] = <<Mine(c)>>
  BY <1>1, Flushed, Zenon
<1>3. in_flight_'[k] = <<c>> /\ place'[c] = "wait"
  BY <1>1, Zenon DEF Enqueue, TypeOK
<1>4. Mine(c)' = Mine(c) /\ Through(c, k, at[c] - 1)' /\ at'[c] = at[c]
  BY Zenon DEF Mine, Through, Counts, After, Script, Fresh
<1>5. CASE k \in dead
  BY <1>2, <1>3, <1>4, <1>5, Zenon DEF Single, Lost
<1>6. CASE k \notin dead
  BY <1>2, <1>3, <1>4, <1>6, Zenon DEF Single, Travelling
<1> QED  BY <1>5, <1>6, Zenon

\* The calls of the only user.
LEMMA SingleCalls ==
    ASSUME SqlAssumption, IInv, pipelined, NEW c \in Clients, NEW k \in Conns, conn[c] = k,
           Single(c, k), SendFlushed(c) \/ SendWaits(c) \/ FlushAgain(c) \/ SendFails(c)
    PROVE  Single(c, k)'
<1>0. /\ TypeOK /\ Mine(c) \in Message /\ inbuf[k] = <<>>
      /\ UNCHANGED <<kind, at, replies, inbuf, session, committed, dead>>
  <2>1. Holding(c)
    BY Zenon DEF SendFlushed, SendWaits, FlushAgain, SendFails, Holding
  <2>2. Mine(c) \in Message
    BY <2>1, Holds, Zenon
  <2> QED
    BY <2>2, Zenon
       DEF IInv, Single, SendFlushed, SendWaits, FlushAgain, SendFails, made_as, libpq, server
<1>1. /\ Append(<<>>, Mine(c)) = <<Mine(c)>> /\ Len(<<Mine(c)>>) = 1 /\ Len(<<>>) = 0
      /\ SubSeq(<<Mine(c)>>, 1, 1) = <<Mine(c)>> /\ <<>> \o SubSeq(<<Mine(c)>>, 1, 0) = <<>>
      /\ 0 + 1 = 1 /\ \A n \in 0 .. 0 : n = 0
  BY <1>0, OneStatement, Zenon
<1>2. Mine(c)' = Mine(c) /\ at'[c] = at[c] /\ \A n : Through(c, k, n)' <=> Through(c, k, n)
  BY <1>0, Zenon DEF Mine, Through, Counts, After, Script, Fresh
<1>3. place[c] = "run" => Resting(c, k)
  BY Zenon DEF Single, Buffered, Travelling, Replied, Lost
<1>4. CASE SendFlushed(c)
  <2>1. Resting(c, k) /\ Flush(k, Append(unsent[k], Mine(c)), Len(Append(unsent[k], Mine(c)))) /\ Enqueue(c)
    BY <1>3, <1>4, Zenon DEF SendFlushed
  <2>2. Flush(k, <<Mine(c)>>, 1)
    BY <1>1, <2>1, Zenon DEF Resting, Still
  <2> QED  BY <2>1, <2>2, <1>0, Sending, Zenon DEF Resting, Still
<1>5. CASE FlushAgain(c)
  <2>1. place[c] = "flush" /\ Flush(k, unsent[k], Len(unsent[k])) /\ Enqueue(c)
    BY <1>5, Zenon DEF FlushAgain
  <2>2. Buffered(c, k)
    BY <2>1, Zenon DEF Single, Resting, Travelling, Replied, Lost
  <2>3. Flush(k, <<Mine(c)>>, 1)
    BY <1>1, <2>1, <2>2, Zenon DEF Buffered
  <2> QED  BY <2>1, <2>2, <2>3, <1>0, Sending, Zenon DEF Buffered
<1>6. CASE SendWaits(c)
  <2>1. /\ Resting(c, k) /\ k \notin dead /\ place' = [place EXCEPT ![c] = "flush"]
        /\ in_flight_' = in_flight_
        /\ \E n \in 0 .. Len(unsent[k]) : Flush(k, Append(unsent[k], Mine(c)), n)
    BY <1>3, <1>6, Zenon DEF SendWaits
  <2>2. unsent[k] = <<>> /\ wire[k] = <<>>
    BY <2>1, Zenon DEF Resting, Still
  <2>3. Flush(k, <<Mine(c)>>, 0)
    BY <1>1, <2>1, <2>2, Zenon
  <2>4. /\ unsent'[k] = SubSeq(<<Mine(c)>>, 0 + 1, Len(<<Mine(c)>>))
        /\ wire'[k] = wire[k] \o SubSeq(<<Mine(c)>>, 1, 0) /\ place'[c] = "flush"
    BY <2>1, <2>3, <1>0, Zenon DEF Flush, TypeOK
  <2>5. unsent'[k] = <<Mine(c)>> /\ wire'[k] = <<>>
    BY <2>2, <2>4, <1>1, Zenon
  <2>6. Buffered(c, k)'
    BY <2>1, <2>4, <2>5, <1>0, <1>2, Zenon DEF Buffered, Resting, Still
  <2> QED  BY <2>6, <1>0, Zenon DEF Single
<1>7. CASE SendFails(c)
  <2>1. Resting(c, k) /\ place'[c] = "failed" /\ UNCHANGED <<unsent, wire, in_flight_>>
    BY <1>0, <1>3, <1>7, Zenon DEF SendFails, Fails, libpq, server, TypeOK
  <2>2. Resting(c, k)'
    BY <2>1, <1>0, <1>2, Zenon DEF Resting, Still
  <2> QED  BY <2>2, <1>0, Zenon DEF Single
<1> QED  BY <1>4, <1>5, <1>6, <1>7, Zenon

\* The server executes the statement of the only user.
LEMMA SingleServed ==
    ASSUME SqlAssumption, IInv, pipelined, NEW c \in Clients, NEW k \in Conns, conn[c] = k,
           Single(c, k), Serve(k)
    PROVE  Single(c, k)'
<1>0. /\ TypeOK /\ wire[k] # <<>> /\ Execute(k, Head(wire[k])) /\ inbuf[k] = <<>>
      /\ UNCHANGED <<kind, place, at, conn, unsent, inbuf, in_flight_, dead>>
      /\ wire'[k] = Tail(wire[k]) /\ replies'[k] = Append(replies[k], Head(wire[k]))
      /\ k \notin dead
  BY Zenon DEF IInv, Serve, Single, TypeOK, made_as, client, libpq, Aligned
<1>1. Travelling(c, k)
  BY <1>0, Zenon DEF Single, Resting, Still, Buffered, Replied, Lost
<1>2. Head(<<Mine(c)>>) = Mine(c) /\ Tail(<<Mine(c)>>) = <<>> /\ Append(<<>>, Mine(c)) = <<Mine(c)>>
  OBVIOUS
<1>3. Holding(c) /\ Execute(k, Mine(c)) /\ wire'[k] = <<>> /\ replies'[k] = <<Mine(c)>>
  BY <1>0, <1>1, <1>2, Zenon DEF Travelling, Holding
<1>4. /\ session'[k] = After(c, at[c])
      /\ c \in committed' <=> kind[c] # "rollback" /\ at[c] = Len(Script(c))
  BY <1>0, <1>1, <1>3, Advances, Zenon DEF Travelling
<1>5. Mine(c)' = Mine(c) /\ Through(c, k, at[c])' /\ at'[c] = at[c]
  BY <1>0, <1>4, Zenon DEF Mine, Through, Counts, After, Script, Fresh
<1>6. Replied(c, k)'
  BY <1>0, <1>1, <1>3, <1>5, Zenon DEF Replied, Travelling
<1> QED  BY <1>0, <1>6, Zenon DEF Single

\* The connection breaks: a statement on the wire is lost.
LEMMA SingleBreaks ==
    ASSUME TypeOK, NEW c \in Clients, NEW k \in Conns, conn[c] = k, Single(c, k), Break(k)
    PROVE  Single(c, k)'
<1>0. /\ k \in dead' /\ wire'[k] = <<>>
      /\ UNCHANGED <<kind, place, at, unsent, inbuf, in_flight_, replies, committed>>
  BY Zenon DEF Break, TypeOK, made_as, client, libpq
<1>1. Mine(c)' = Mine(c) /\ (\A n : Through(c, k, n) => Through(c, k, n)') /\ at'[c] = at[c]
  BY <1>0, Zenon DEF Mine, Through, Counts, After, Script, Fresh
<1>2. CASE Resting(c, k)
  <2>1. Resting(c, k)'
    BY <1>0, <1>1, <1>2, Zenon DEF Resting, Still
  <2> QED  BY <2>1, <1>0, Zenon DEF Single
<1>3. CASE Buffered(c, k)
  <2>1. Buffered(c, k)'
    BY <1>0, <1>1, <1>3, Zenon DEF Buffered
  <2> QED  BY <2>1, <1>0, Zenon DEF Single
<1>4. CASE Travelling(c, k) \/ Lost(c, k)
  <2>1. Lost(c, k)'
    BY <1>0, <1>1, <1>4, Zenon DEF Travelling, Lost
  <2> QED  BY <2>1, <1>0, Zenon DEF Single
<1>5. CASE Replied(c, k)
  <2>1. Replied(c, k)'
    BY <1>0, <1>1, <1>5, Zenon DEF Replied
  <2> QED  BY <2>1, <1>0, Zenon DEF Single
<1> QED  BY <1>2, <1>3, <1>4, <1>5, Zenon DEF Single

\* The reader hands the result over.
LEMMA SingleRead ==
    ASSUME SqlAssumption, IInv, pipelined, NEW c \in Clients, NEW k \in Conns, conn[c] = k,
           Single(c, k), Reader(k)
    PROVE  Single(c, k)'
<1>0. /\ TypeOK /\ replies[k] # <<>> /\ inbuf[k] = <<>>
      /\ UNCHANGED <<kind, conn, unsent, wire, session, committed, dead>>
      /\ inbuf'[k] = Tail(inbuf[k] \o replies[k]) /\ replies'[k] = <<>>
  BY Zenon DEF IInv, Reader, Single, TypeOK, made_as
<1>1. Replied(c, k)
  BY <1>0, Zenon DEF Single, Resting, Still, Buffered, Travelling, Lost
<1>2. /\ Tail(<<>> \o <<Mine(c)>>) = <<>> /\ <<c>> # <<>> /\ Head(<<c>>) = c /\ Tail(<<c>>) = <<>>
  OBVIOUS
<1>3. inbuf'[k] = <<>>
  BY <1>0, <1>1, <1>2, Zenon DEF Replied
<1>4. Continues(c) /\ in_flight_'[k] = <<>> /\ Holding(c)
  <2>1. in_flight_[k] = <<c>> /\ in_flight_[k] # <<>> /\ Head(in_flight_[k]) = c
    BY <1>1, <1>2, Zenon DEF Replied
  <2>2. Continues(c) /\ in_flight_' = [in_flight_ EXCEPT ![k] = Tail(in_flight_[k])]
    BY <2>1, Zenon DEF Reader, Deliver
  <2> QED  BY <2>1, <2>2, <1>0, <1>1, <1>2, Zenon DEF Replied, TypeOK, Holding
<1>5. at'[c] = at[c] + 1 /\ place'[c] \in {"run", "done"} /\ at[c] \in 1 .. Len(Script(c))
      /\ Len(Script(c)) \in {1, 3}
  BY <1>4, Goes, Holds, Zenon
<1>6. at'[c] - 1 = at[c]
  BY <1>5
<1>7. PICK n : n = at[c] /\ Through(c, k, n)
  BY <1>1, Zenon DEF Replied
<1>8. Through(c, k, n)'
  BY <1>0, <1>7, Zenon DEF Through, Counts, After, Script, Fresh
<1>9. Through(c, k, at[c] - 1)'
  BY <1>6, <1>7, <1>8, Zenon DEF Through, Counts, After
<1>10. Resting(c, k)'
  BY <1>0, <1>1, <1>4, <1>5, <1>9, Zenon DEF Resting, Still, Replied
<1> QED  BY <1>3, <1>10, Zenon DEF Single

\* Every step of anyone.
LEMMA SingleStep ==
    ASSUME SqlAssumption, FInv, pipelined, [Next]_vars, NEW c \in Clients, NEW k \in Conns,
           conn[c] = k, Users(k) = {c}, Single(c, k)
    PROVE  Single(c, k)'
<1>0. /\ IInv /\ TypeOK /\ \A d \in Clients : Places(d)
      /\ \A d \in Clients \ {c} : conn[d] # k
      /\ \A j \in Conns : Carried(j) /\ WaitingAt(j)
  BY Zenon DEF FInv, IInv, Placed, Users, Waiting
<1>1. ASSUME UNCHANGED <<kind, unsent, wire, replies, inbuf, in_flight_, dead, session, committed>>,
             place'[c] = place[c], at'[c] = at[c]
      PROVE  Single(c, k)'
  BY <1>1, SingleKept, Zenon
<1>2. ASSUME NEW d \in Clients, AcquireShared(d)
      PROVE  Single(c, k)'
  <2>1. place[d] = "idle" /\ \A e \in Clients \ {d} : place'[e] = place[e]
    BY <1>0, <1>2, Zenon DEF AcquireShared, Starts, Fails, TypeOK
  <2>2. d # c
    BY <2>1, <1>0, Numbered, Zenon DEF Places, None
  <2> QED  BY <2>1, <2>2, <1>1, <1>2, Zenon DEF AcquireShared, made_as, libpq, server
<1>3. ASSUME NEW d \in Clients, SendFlushed(d) \/ SendWaits(d) \/ FlushAgain(d) \/ SendFails(d)
      PROVE  Single(c, k)'
  <2>1. CASE d = c
    BY <2>1, <1>0, <1>3, SingleCalls, Zenon
  <2>2. CASE d # c
    <3>1. place'[c] = place[c] /\ conn[d] # k
      BY <2>2, <1>0, <1>3, Zenon
         DEF SendFlushed, SendWaits, FlushAgain, SendFails, Enqueue, Fails, TypeOK
    <3>2. UNCHANGED <<kind, at, replies, inbuf, dead, session, committed>>
      BY <1>3, Zenon
         DEF SendFlushed, SendWaits, FlushAgain, SendFails, made_as, libpq, server
    <3>3. unsent'[k] = unsent[k] /\ wire'[k] = wire[k] /\ in_flight_'[k] = in_flight_[k]
      <4>1. CASE SendFlushed(d)
        BY <4>1, <3>1, <1>0, Zenon DEF SendFlushed, Flush, Enqueue, TypeOK
      <4>2. CASE SendWaits(d)
        BY <4>2, <3>1, <1>0, Zenon DEF SendWaits, Flush, TypeOK
      <4>3. CASE FlushAgain(d)
        BY <4>3, <3>1, <1>0, Zenon DEF FlushAgain, Flush, Enqueue, TypeOK
      <4>4. CASE SendFails(d)
        BY <4>4, Zenon DEF SendFails, libpq, server
      <4> QED  BY <4>1, <4>2, <4>3, <4>4, <1>3, Zenon
    <3> QED  BY <3>1, <3>2, <3>3, SingleKept, Zenon
  <2> QED  BY <2>1, <2>2, Zenon
<1>4. ASSUME NEW j \in Conns, Serve(j)
      PROVE  Single(c, k)'
  <2>1. CASE j = k
    BY <2>1, <1>0, <1>4, SingleServed, Zenon
  <2>2. CASE j # k
    <3>1. c \in committed' <=> c \in committed
      <4>1. c \in Clients \ Users(j)
        BY <2>2, Zenon DEF Users
      <4> QED  BY <4>1, <1>0, <1>4, CommitsOwn, Zenon
    <3>2. /\ UNCHANGED <<kind, place, at, unsent, inbuf, in_flight_, dead>>
          /\ wire'[k] = wire[k] /\ replies'[k] = replies[k] /\ session'[k] = session[k]
      BY <2>2, <1>0, <1>4, Zenon DEF Serve, Execute, TypeOK, made_as, client, libpq
    <3> QED  BY <3>1, <3>2, SingleKept, Zenon
  <2> QED  BY <2>1, <2>2, Zenon
<1>5. ASSUME NEW j \in Conns, Break(j)
      PROVE  Single(c, k)'
  <2>1. CASE j = k
    BY <2>1, <1>0, <1>5, SingleBreaks, Zenon
  <2>2. CASE j # k
    <3>1. /\ UNCHANGED <<kind, place, at, unsent, inbuf, in_flight_, replies, committed>>
          /\ wire'[k] = wire[k] /\ session'[k] = session[k] /\ (k \in dead => k \in dead')
      BY <2>2, <1>0, <1>5, Zenon DEF Break, TypeOK, made_as, client, libpq
    <3> QED  BY <3>1, SingleKept, Zenon
  <2> QED  BY <2>1, <2>2, Zenon
<1>6. ASSUME NEW j \in Conns, Reader(j)
      PROVE  Single(c, k)'
  <2>1. CASE j = k
    BY <2>1, <1>0, <1>6, SingleRead, Zenon
  <2>2. CASE j # k
    <3>1. /\ UNCHANGED <<kind, unsent, wire, session, committed, dead>>
          /\ inbuf'[k] = inbuf[k] /\ replies'[k] = replies[k] /\ in_flight_'[k] = in_flight_[k]
      BY <2>2, <1>0, <1>6, Zenon DEF Reader, Deliver, TypeOK, made_as
    <3>2. place'[c] = place[c] /\ at'[c] = at[c]
      <4>1. CASE in_flight_[j] = <<>>
        BY <4>1, <1>6, Zenon DEF Reader, Deliver
      <4>2. CASE in_flight_[j] # <<>>
        <5>1. Delivered(j)
          BY <4>2, <1>0, <1>6, ReaderDelivers, Zenon
        <5> QED  BY <5>1, <2>2, Zenon DEF Delivered
      <4> QED  BY <4>1, <4>2, Zenon
    <3> QED  BY <3>1, <3>2, SingleKept, Zenon
  <2> QED  BY <2>1, <2>2, Zenon
<1>7. ASSUME NEW j \in Conns, ReaderEnds(j)
      PROVE  Single(c, k)'
  BY <1>1, <1>7, Zenon DEF ReaderEnds, made_as, client, server
<1>8. ASSUME UNCHANGED vars
      PROVE  Single(c, k)'
  BY <1>1, <1>8, Zenon DEF vars, made_as, client, libpq, server
<1>9. ASSUME NEW d \in Clients
      PROVE  ~AcquireLease(d) /\ ~Blocking(d) /\ ~BlockingFails(d)
  BY Zenon DEF AcquireLease, Blocking, BlockingFails
<1> QED
  BY <1>2, <1>3, <1>4, <1>5, <1>6, <1>7, <1>8, <1>9, Zenon DEF Next, Call, Rest

\* What holds of a coroutine without a connection.
LEMMA BegunStep ==
    ASSUME SqlAssumption, FInv, [Next]_vars, NEW d \in Clients
    PROVE  Begun(d)'
<1>0. /\ IInv /\ TypeOK /\ Begun(d) /\ None \notin Conns
      /\ \A c \in Clients : Places(c)
  BY Numbered, Zenon DEF FInv, IInv, Placed, None
<1>1. ASSUME at'[d] = at[d], d \in committed' <=> d \in committed, conn'[d] = None => conn[d] = None
      PROVE  Begun(d)'
  BY <1>0, <1>1, Zenon DEF Begun
<1>2. ASSUME NEW c \in Clients, AcquireShared(c) \/ AcquireLease(c)
      PROVE  Begun(d)'
  <2>1. /\ place[c] = "idle" /\ UNCHANGED <<at, committed>>
        /\ \A e \in Clients \ {c} : conn'[e] = conn[e]
    BY <1>0, <1>2, Zenon DEF AcquireShared, AcquireLease, Starts, Fails, TypeOK, server
  <2>2. conn[c] = None
    BY <2>1, <1>0, Zenon DEF Places
  <2> QED  BY <2>1, <2>2, <1>1, Zenon
<1>3. ASSUME NEW c \in Clients, Blocking(c)
      PROVE  Begun(d)'
  <2>0. /\ ~pipelined /\ Holding(c) /\ conn[c] \notin dead /\ Execute(conn[c], Mine(c))
        /\ Continues(c) /\ UNCHANGED <<kind, dead>> /\ conn' = conn
    BY <1>3, Zenon DEF Blocking, Holding, made_as
  <2>1. CASE d = c
    <3>1. conn'[d] # None
      BY <2>0, <2>1, <1>0, Zenon DEF Places
    <3> QED  BY <3>1, Zenon DEF Begun
  <2>2. CASE d # c
    <3>1. d \in committed' <=> d \in committed
      BY <2>0, <2>2, <1>0, Advances, Zenon DEF FInv, Followed
    <3>2. at'[d] = at[d]
      BY <2>0, <2>2, <1>0, Goes, Zenon
    <3> QED  BY <3>1, <3>2, <2>0, <1>1, Zenon
  <2> QED  BY <2>1, <2>2, Zenon
<1>4. ASSUME NEW k \in Conns, Serve(k)
      PROVE  Begun(d)'
  <2>0. UNCHANGED <<at, conn>> /\ wire[k] # <<>>
    BY <1>4, Zenon DEF Serve, client
  <2>1. CASE d \in Users(k)
    <3>1. conn'[d] # None
      BY <2>0, <2>1, <1>0, Zenon DEF Users
    <3> QED  BY <3>1, Zenon DEF Begun
  <2>2. CASE d \notin Users(k)
    <3>1. Carried(k)
      BY <2>0, <1>0, Zenon DEF FInv, Vacant
    <3>2. d \in committed' <=> d \in committed
      BY <2>2, <3>1, <1>0, <1>4, CommitsOwn, Zenon
    <3> QED  BY <3>2, <2>0, <1>1, Zenon
  <2> QED  BY <2>1, <2>2, Zenon
<1>5. ASSUME NEW k \in Conns, Reader(k)
      PROVE  Begun(d)'
  <2>0. UNCHANGED <<conn, committed>>
    BY <1>5, Zenon DEF Reader
  <2>1. CASE in_flight_[k] = <<>>
    BY <2>0, <2>1, <1>1, <1>5, Zenon DEF Reader, Deliver
  <2>2. CASE in_flight_[k] # <<>>
    <3>1. Delivered(k)
      BY <2>2, <1>0, <1>5, ReaderDelivers, Zenon
    <3>2. d # in_flight_[k][1] => at'[d] = at[d]
      BY <3>1, Zenon DEF Delivered
    <3>3. d = in_flight_[k][1] => conn[d] # None
      <4>1. conn[in_flight_[k][1]] = k
        BY <3>1, Zenon DEF Delivered
      <4> QED  BY <4>1, <1>0, <1>5, Zenon
    <3> QED  BY <3>2, <3>3, <2>0, <1>1, Zenon DEF Begun
  <2> QED  BY <2>1, <2>2, Zenon
<1>6. ASSUME UNCHANGED <<at, conn, committed>>
      PROVE  Begun(d)'
  BY <1>1, <1>6, Zenon
<1> QED
  BY <1>2, <1>3, <1>4, <1>5, <1>6, Zenon
     DEF Next, Call, Rest, vars, client, server, BlockingFails, SendFlushed, SendWaits,
         FlushAgain, SendFails, Fails, Break, ReaderEnds

\* The only user of a shared connection has been that, or has just been given it.
LEMMA SharedStep ==
    ASSUME SqlAssumption, FInv, pipelined, [Next]_vars, NEW c \in Clients, Alone(c)'
    PROVE  Single(c, conn[c])'
<1>0. IInv /\ TypeOK /\ IInv' /\ conn' \in [Clients -> Conns \cup {None}]
  BY InvStep, Zenon DEF FInv, IInv, TypeOK
<1>1. PICK k \in Conns : conn'[c] = k
  BY <1>0, Zenon DEF Alone
<1>2. Users(k)' = {c}
  BY <1>1, Zenon DEF Alone, Users
<1>3. Users(k) \subseteq {c} /\ Carried(k)
  BY <1>0, <1>2, UsersGrow, Zenon DEF FInv
<1>4. CASE c \in Users(k)
  <2>1. conn[c] = k /\ Users(k) = {c} /\ k # None
    BY <1>3, <1>4, Numbered, Zenon DEF Users, None
  <2>2. Single(c, k)
    BY <2>1, Zenon DEF FInv, Alone
  <2>3. Single(c, k)'
    BY <2>1, <2>2, SingleStep, Zenon
  <2> QED  BY <2>3, <1>1, Zenon
<1>5. CASE c \notin Users(k)
  <2>1. Users(k) = {} /\ conn'[c] # conn[c]
    BY <1>1, <1>3, <1>5, Zenon DEF Users
  <2>2. /\ place[c] = "idle" /\ place'[c] = "run"
        /\ UNCHANGED <<kind, at, unsent, wire, replies, inbuf, in_flight_, dead, session, committed>>
    <3>1. ASSUME NEW d \in Clients, AcquireShared(d)
          PROVE  /\ place[c] = "idle" /\ place'[c] = "run"
                 /\ UNCHANGED <<kind, at, unsent, wire, replies, inbuf, in_flight_, dead, session, committed>>
      <4>1. d = c /\ ~Fails(d)
        BY <3>1, <2>1, <1>0, Zenon DEF AcquireShared, Starts, Fails, TypeOK
      <4> QED
        BY <3>1, <4>1, <1>0, Zenon DEF AcquireShared, Starts, TypeOK, made_as, libpq, server
    <3> QED
      BY <3>1, <2>1, Zenon
         DEF Next, Call, Rest, vars, client, AcquireLease, Blocking, BlockingFails, SendFlushed,
             SendWaits, FlushAgain, SendFails, Fails, Serve, Break, Reader, ReaderEnds
  <2>3. conn[c] = None /\ at[c] = 1 /\ at'[c] = 1 /\ c \notin committed /\ Len(Script(c)) \in {1, 3}
    BY <2>2, <1>0, Scripts, Zenon DEF FInv, IInv, Placed, Places, Begun, TypeOK
  <2>4. at'[c] - 1 = 0 /\ 0 # Len(Script(c))
    <3>1. at'[c] = 1 /\ Len(Script(c)) \in {1, 3}
      BY <2>3, Zenon
    <3> QED  BY <3>1
  <2>5. Still(k) /\ inbuf[k] = <<>> /\ session[k] = Fresh
    BY <2>1, <1>3, Zenon DEF Carried
  <2>6. Script(c)' = Script(c) /\ After(c, 0)' = Fresh
    BY <2>2, Zenon DEF Script, After, Fresh
  <2>7. Through(c, k, at[c] - 1)'
    BY <2>2, <2>3, <2>4, <2>5, <2>6, Zenon DEF Through, Counts
  <2>8. Resting(c, k)'
    BY <2>2, <2>5, <2>7, Zenon DEF Resting, Still
  <2> QED  BY <2>2, <2>5, <2>8, <1>1, Zenon DEF Single
<1> QED  BY <1>4, <1>5, Zenon

-----------------------------------------------------------------------------
\* A statement or transaction that returned is in the database, and one that
\* rolled back is not; on a shared connection, if no other coroutine used it.
THEOREM AlwaysTransactionsExact ==
    ASSUME SqlAssumption
    PROVE  Spec => []TransactionsExact
<1>1. Init => FInv
  <2> SUFFICES ASSUME Init
               PROVE  FInv
    OBVIOUS
  <2>1. IInv /\ TypeOK
    BY InvInit, Zenon DEF IInv
  <2>2. ASSUME NEW c \in Clients
        PROVE  /\ at[c] = 1 /\ c \notin committed /\ ~Holding(c) /\ conn[c] = None
               /\ Len(Script(c)) \in {1, 3}
    BY <2>1, <2>2, Scripts, Zenon DEF Init, Holding, TypeOK
  <2>3. ASSUME NEW c \in Clients
        PROVE  Begun(c) /\ Followed(c) /\ ~Alone(c)
    <3>0. at[c] = 1 /\ Len(Script(c)) \in {1, 3}
      BY <2>2, <2>3, Zenon
    <3>1. at[c] - 1 # Len(Script(c))
      BY <3>0
    <3> QED  BY <3>1, <2>2, <2>3, Zenon DEF Begun, Followed, Counts, Alone
  <2>4. ASSUME NEW k \in Conns
        PROVE  Vacant(k) /\ Carried(k)
    <3>1. <<>> \in Seq(Statements(k)) /\ Fresh.marks = {}
      BY DEF Fresh
    <3>2. /\ session[k] = Fresh /\ unsent[k] = <<>> /\ wire[k] = <<>> /\ replies[k] = <<>>
          /\ inbuf[k] = <<>> /\ in_flight_[k] = <<>>
      BY <2>4, Zenon DEF Init, Empty
    <3> QED  BY <3>1, <3>2, Zenon DEF Vacant, Carried, Still
  <2> QED  BY <2>1, <2>3, <2>4, Zenon DEF FInv
<1>2. FInv /\ [Next]_vars => FInv'
  <2> SUFFICES ASSUME FInv, [Next]_vars
               PROVE  FInv'
    OBVIOUS
  <2>1. IInv' /\ pipelined' = pipelined
    <3>1. IInv'
      BY InvStep, Zenon DEF FInv
    <3>2. pipelined' = pipelined
      BY Zenon
         DEF Next, Call, Rest, vars, made_as, AcquireShared, AcquireLease, Blocking,
             BlockingFails, SendFlushed, SendWaits, FlushAgain, SendFails, Serve, Break, Reader,
             ReaderEnds
    <3> QED  BY <3>1, <3>2, Zenon
  <2>2. \A c \in Clients : Begun(c)'
    BY BegunStep, Zenon
  <2>3. CASE pipelined
    <3>1. \A k \in Conns : Carried(k)'
      BY <2>3, CarriedStep, Zenon
    <3>2. \A c \in Clients : Alone(c)' => Single(c, conn[c])'
      BY <2>3, SharedStep, Zenon
    <3> QED  BY <3>1, <3>2, <2>1, <2>2, <2>3, Zenon DEF FInv
  <2>4. CASE ~pipelined
    BY <2>1, <2>2, <2>4, LeasesStep, Zenon DEF FInv
  <2> QED  BY <2>3, <2>4, Zenon
<1>3. FInv => TransactionsExact
  <2> SUFFICES ASSUME FInv, NEW c \in Clients, place[c] = "done",
                      ~pipelined \/ \A d \in Clients \ {c} : conn[d] # conn[c]
               PROVE  c \in committed <=> kind[c] # "rollback"
    BY Zenon DEF TransactionsExact, Exact
  <2>1. at[c] = Len(Script(c)) + 1 /\ Len(Script(c)) \in {1, 3}
    BY Scripts, Zenon DEF FInv, IInv, TypeOK, Placed, Places
  <2>2. at[c] # 1 /\ at[c] - 1 = Len(Script(c))
    BY <2>1
  <2>3. Counts(c, at[c] - 1)
    <3>1. CASE ~pipelined
      BY <3>1, Zenon DEF FInv, Followed
    <3>2. CASE pipelined
      <4>1. Alone(c)
        BY <3>2, <2>2, Zenon DEF FInv, Begun, Alone, Users
      <4>2. Single(c, conn[c])
        BY <4>1, <3>2, Zenon DEF FInv
      <4>3. Resting(c, conn[c])
        BY <4>2, Zenon DEF Single, Buffered, Travelling, Replied, Lost
      <4> QED  BY <4>3, Zenon DEF Resting, Through
    <3> QED  BY <3>1, <3>2, Zenon
  <2> QED  BY <2>2, <2>3, Zenon DEF Counts
<1> QED  BY <1>1, <1>2, <1>3, PTL DEF Spec

=============================================================================

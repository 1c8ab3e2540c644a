---------------------------- MODULE SqlPoolCount ----------------------------
(***************************************************************************)
(* The count of SqlPool's connections is exact and within the capacity.    *)
(***************************************************************************)
EXTENDS SqlPoolProofs, FiniteSetTheorems

CInv == IInv /\ PoolAccounted

\* What the invariant says of the count, in either mode.
LEMMA Counted ==
    ASSUME SqlAssumption, CInv
    PROVE  /\ IsFiniteSet(Leased) /\ Cardinality(Leased) \in Nat /\ Len(available) \in Nat
           /\ total_spawned \in 0 .. capacity_ /\ capacity_ \in Nat
           /\ pipelined => total_spawned = Len(all_connections)
           /\ ~pipelined => total_spawned = Len(available) + Cardinality(Leased)
<1>1. Leased \subseteq Clients /\ IsFiniteSet(Clients)
  BY Zenon DEF Leased, SqlAssumption
<1>2. IsFiniteSet(Leased)
  BY <1>1, FS_Subset, Zenon
<1>3. Cardinality(Leased) \in Nat
  BY <1>2, FS_CardinalityType, Zenon
<1>4. /\ total_spawned \in 0 .. capacity_ /\ capacity_ \in 1 .. MaxCapacity /\ available \in Seq(Conns)
      /\ total_spawned = Len(available) + Cardinality(Leased) + Len(all_connections)
  BY Zenon DEF CInv, PoolAccounted, TypeOK
<1>5. Len(available) \in Nat /\ capacity_ \in Nat /\ total_spawned \in Nat
  BY <1>4 DEF SqlAssumption
<1>6. ASSUME pipelined
      PROVE  total_spawned = Len(all_connections)
  <2>1. made \in Nat /\ available = <<>> /\ Len(all_connections) = made
    BY <1>6, Mode, Zenon DEF CInv
  <2>2. Leased = {}
    BY <1>6, Zenon DEF Leased
  <2>3. Cardinality(Leased) = 0
    BY <2>2, FS_EmptySet, Zenon
  <2> QED  BY <1>4, <2>1, <2>3
<1>7. ASSUME ~pipelined
      PROVE  total_spawned = Len(available) + Cardinality(Leased)
  <2>1. all_connections = <<>>
    BY <1>7, Mode, Zenon DEF CInv
  <2> QED  BY <1>3, <1>4, <1>5, <2>1
<1> QED  BY <1>2, <1>3, <1>4, <1>5, <1>6, <1>7, Zenon

\* The count of a pool without pipelining, and of one with it.
LEMMA Leases ==
    ASSUME SqlAssumption, TypeOK', Exclusive', all_connections' = <<>>,
           total_spawned' \in 0 .. capacity_', IsFiniteSet(Leased'),
           total_spawned' = Len(available') + Cardinality(Leased')
    PROVE  PoolAccounted'
<1>1. Len(all_connections') = 0 /\ Len(available') \in Nat
  BY DEF TypeOK
<1>2. Cardinality(Leased') \in Nat
  BY FS_CardinalityType, Zenon
<1>3. total_spawned' = Len(available') + Cardinality(Leased') + Len(all_connections')
  BY <1>1, <1>2
<1> QED  BY <1>3, Zenon DEF PoolAccounted

LEMMA Shared ==
    ASSUME TypeOK', Exclusive', pipelined', available' = <<>>,
           total_spawned' = Len(all_connections'), total_spawned' \in 0 .. capacity_'
    PROVE  PoolAccounted'
<1>1. Leased' = {}
  BY Zenon DEF Leased
<1>2. Cardinality(Leased') = 0
  BY <1>1, FS_EmptySet, Zenon
<1>3. Len(available') = 0 /\ Len(all_connections') \in Nat
  BY DEF TypeOK
<1>4. total_spawned' = Len(available') + Cardinality(Leased') + Len(all_connections')
  BY <1>2, <1>3
<1> QED  BY <1>4, Zenon DEF PoolAccounted

LEMMA CountStep ==
    ASSUME SqlAssumption, CInv, [Next]_vars
    PROVE  PoolAccounted'
<1>0. TypeOK /\ IInv /\ TypeOK' /\ Exclusive'
  <2>1. IInv
    BY Zenon DEF CInv
  <2> QED  BY <2>1, TypeStep, ExclusiveStep, Zenon DEF IInv
<1>1. ASSUME UNCHANGED <<capacity_, total_spawned, available, all_connections>>, Leased' = Leased
      PROVE  PoolAccounted'
  BY <1>0, <1>1, Zenon DEF CInv, PoolAccounted
<1>2. ASSUME pipelined, UNCHANGED <<pipelined, capacity_, total_spawned, available, all_connections>>
      PROVE  PoolAccounted'
  <2>1. Leased' = Leased
    BY <1>2, Zenon DEF Leased
  <2> QED  BY <1>1, <1>2, <2>1, Zenon
<1>3. ASSUME NEW c \in Clients, AcquireShared(c)
      PROVE  PoolAccounted'
  <2>1. PICK n \in IF all_connections = <<>> THEN 0 .. capacity_ ELSE {Len(all_connections)} :
            all_connections' = [i \in 1 .. n |-> i] /\ total_spawned' = n
    BY <1>3, Zenon DEF AcquireShared
  <2>2. pipelined /\ pipelined' /\ capacity_' = capacity_ /\ available' = <<>>
    BY <1>0, <1>3, Mode, Zenon DEF AcquireShared, made_as
  <2>3. n \in 0 .. capacity_ /\ capacity_ \in Nat
    BY <2>1, <2>2, Counted
  <2>4. Len(all_connections') = n
    BY <2>1, <2>3
  <2> QED  BY <2>1, <2>2, <2>3, <2>4, <1>0, Shared, Zenon
<1>4. ASSUME NEW c \in Clients, AcquireLease(c)
      PROVE  PoolAccounted'
  <2>0. /\ ~pipelined /\ pipelined' = pipelined /\ place[c] = "idle" /\ all_connections' = <<>>
        /\ capacity_' = capacity_
    BY <1>0, <1>4, Mode, Zenon DEF AcquireLease, made_as
  <2>1. /\ IsFiniteSet(Leased) /\ Cardinality(Leased) \in Nat /\ Len(available) \in Nat
        /\ capacity_ \in Nat /\ total_spawned \in 0 .. capacity_
        /\ total_spawned = Len(available) + Cardinality(Leased)
    BY <2>0, Counted, Zenon
  <2>2. ASSUME NEW k, Starts(c, k)
        PROVE  IsFiniteSet(Leased') /\ Cardinality(Leased') = Cardinality(Leased) + 1
    <3>1. place' = [place EXCEPT ![c] = "run"] /\ DOMAIN place = Clients
      BY <2>2, <1>0, Zenon DEF Starts, TypeOK
    <3>2. c \notin Leased /\ Leased' = Leased \cup {c}
      BY <3>1, <2>0 DEF Leased, Holding
    <3> QED  BY <3>2, <2>1, FS_AddElement, Zenon
  <2>3. CASE LastValid # {}
    <3>1. PICK i \in LastValid : /\ Starts(c, available[i])
                                 /\ available' = SubSeq(available, 1, i - 1)
                                 /\ total_spawned' = total_spawned - (Len(available) - i)
      BY <1>4, <2>3, Zenon DEF AcquireLease
    <3>2. i \in 1 .. Len(available) /\ available \in Seq(Conns)
      BY <3>1, <1>0, Zenon DEF LastValid, TypeOK
    <3>3. Len(available') = i - 1
      BY <3>1, <3>2, Sliced
    <3>4. IsFiniteSet(Leased') /\ Cardinality(Leased') = Cardinality(Leased) + 1
      BY <2>2, <3>1, Zenon
    <3>5. total_spawned' = total_spawned - (Len(available) - i) /\ capacity_' = capacity_
      BY <2>0, <3>1, Zenon
    <3>6. total_spawned' \in 0 .. capacity_' /\ total_spawned' = Len(available') + Cardinality(Leased')
      BY <2>1, <3>2, <3>3, <3>4, <3>5
    <3> QED  BY <3>4, <3>6, <2>0, <1>0, Leases, Zenon
  <2>4. CASE Fails(c) /\ available' = <<>> /\ total_spawned' = total_spawned - Len(available)
    <3>1. Leased' = Leased
      BY <2>0, <2>4, <1>0, Zenon DEF Leased, Holding, Fails, TypeOK
    <3>2. total_spawned' \in 0 .. capacity_' /\ total_spawned' = Len(available') + Cardinality(Leased')
      BY <2>0, <2>1, <2>4, <3>1
    <3> QED  BY <3>1, <3>2, <2>0, <2>1, <1>0, Leases, Zenon
  <2>5. CASE /\ Starts(c, made + 1) /\ available' = <<>>
             /\ total_spawned - Len(available) < capacity_
             /\ total_spawned' = total_spawned - Len(available) + 1
    <3>1. IsFiniteSet(Leased') /\ Cardinality(Leased') = Cardinality(Leased) + 1
      BY <2>2, <2>5, Zenon
    <3>2. total_spawned' \in 0 .. capacity_' /\ total_spawned' = Len(available') + Cardinality(Leased')
      BY <2>0, <2>1, <2>5, <3>1
    <3> QED  BY <3>1, <3>2, <2>0, <1>0, Leases, Zenon
  <2> QED  BY <2>3, <2>4, <2>5, <1>4, Zenon DEF AcquireLease
<1>5. ASSUME NEW c \in Leased, UNCHANGED <<pipelined, capacity_, conn, all_connections>>,
             place' = [place EXCEPT ![c] = place'[c]], ~(place'[c] \in {"run", "flush", "wait"}),
             NEW invalid, Release(conn[c], invalid)
      PROVE  PoolAccounted'
  <2>1. Leased' = Leased \ {c} /\ c \in Clients /\ Holding(c) /\ ~pipelined
    BY <1>0, <1>5, LeaseEnded, Zenon DEF IInv, Leased
  <2>2. /\ IsFiniteSet(Leased) /\ Cardinality(Leased) \in Nat /\ Len(available) \in Nat
        /\ capacity_ \in Nat /\ total_spawned \in 0 .. capacity_
        /\ total_spawned = Len(available) + Cardinality(Leased)
    BY <2>1, Counted, Zenon
  <2>3. IsFiniteSet(Leased') /\ Cardinality(Leased') = Cardinality(Leased) - 1
    BY <2>1, <2>2, FS_RemoveElement, Zenon
  <2>4. Cardinality(Leased') \in Nat
    BY <2>3, FS_CardinalityType, Zenon
  <2>5. all_connections' = <<>>
    BY <2>1, <1>0, <1>5, Mode, Zenon
  <2>6. CASE available' = Append(available, conn[c]) /\ total_spawned' = total_spawned
    <3>1. available \in Seq(Conns) /\ conn[c] \in Conns
      BY <2>1, <1>0, Holds, Zenon DEF TypeOK
    <3>2. Len(available') = Len(available) + 1
      BY <3>1, <2>6
    <3>3. total_spawned' \in 0 .. capacity_' /\ total_spawned' = Len(available') + Cardinality(Leased')
      BY <2>2, <2>3, <2>6, <3>2, <1>5
    <3> QED  BY <3>3, <2>3, <2>5, <1>0, Leases, Zenon
  <2>7. CASE available' = available /\ total_spawned' = total_spawned - 1
    <3>1. total_spawned' \in 0 .. capacity_' /\ total_spawned' = Len(available') + Cardinality(Leased')
      BY <2>2, <2>3, <2>4, <2>7, <1>5
    <3> QED  BY <3>1, <2>3, <2>5, <1>0, Leases, Zenon
  <2> QED  BY <2>6, <2>7, <1>5, Zenon DEF Release
<1>6. ASSUME NEW c \in Clients, Blocking(c)
      PROVE  PoolAccounted'
  <2>0. /\ c \in Leased /\ Continues(c)
        /\ UNCHANGED <<pipelined, capacity_, conn, all_connections>>
    BY <1>6, Zenon DEF Blocking, Leased, Holding, made_as
  <2>1. CASE at[c] = Len(Script(c))
    <3>1. place' = [place EXCEPT ![c] = place'[c]] /\ place'[c] = "done" /\ Release(conn[c], bad)
      BY <2>0, <2>1, <1>0, <1>6, Zenon DEF Blocking, Continues, TypeOK
    <3> QED  BY <3>1, <2>0, <1>5, Zenon
  <2>2. CASE at[c] # Len(Script(c))
    <3>1. Leased' = Leased /\ UNCHANGED <<total_spawned, available>>
      BY <2>0, <2>2, <1>0, <1>6, Zenon DEF Blocking, Leased, Holding, Continues, TypeOK
    <3> QED  BY <3>1, <2>0, <1>1, Zenon
  <2> QED  BY <2>1, <2>2, Zenon
<1>7. ASSUME NEW c \in Clients, BlockingFails(c)
      PROVE  PoolAccounted'
  <2>1. /\ c \in Leased /\ UNCHANGED <<pipelined, capacity_, conn, all_connections>>
        /\ place' = [place EXCEPT ![c] = place'[c]] /\ place'[c] = "failed"
        /\ Release(conn[c], bad')
    BY <1>0, <1>7, Zenon DEF BlockingFails, Leased, Holding, Fails, TypeOK, made_as
  <2> QED  BY <2>1, <1>5, Zenon
<1>8. ASSUME NEW c \in Clients, SendFlushed(c) \/ SendFails(c) \/ FlushAgain(c) \/ SendWaits(c)
      PROVE  PoolAccounted'
  <2>1. UNCHANGED <<pipelined, capacity_, total_spawned, available, all_connections>>
    BY <1>8, Zenon DEF SendFlushed, SendFails, FlushAgain, SendWaits, Fails, made_as, pool
  <2>2. pipelined
    BY <1>0, <1>8, Zenon DEF SendFlushed, SendFails, FlushAgain, SendWaits, IInv, Placed, Places
  <2> QED  BY <2>1, <2>2, <1>2, Zenon
<1>9. ASSUME NEW k \in Conns, Serve(k) \/ Break(k) \/ ReaderEnds(k)
      PROVE  PoolAccounted'
  <2>1. UNCHANGED <<made_as, client, pool>>
    BY <1>9, Zenon DEF Serve, Break, ReaderEnds
  <2> QED  BY <1>1, <2>1, Zenon DEF made_as, client, pool, Leased, Holding
<1>10. ASSUME NEW k \in Conns, Reader(k)
       PROVE  PoolAccounted'
  <2>0. UNCHANGED <<pipelined, capacity_, total_spawned, available, all_connections>>
    BY <1>10, Zenon DEF Reader, Deliver, made_as, pool
  <2>1. CASE in_flight_[k] = <<>>
    <3>1. place' = place
      BY <2>1, <1>10, Zenon DEF Reader, Deliver
    <3> QED  BY <3>1, <2>0, <1>1, Zenon DEF Leased, Holding
  <2>2. CASE in_flight_[k] # <<>>
    <3>1. in_flight_[k][1] \in Clients /\ 1 \in DOMAIN in_flight_[k]
      BY <2>2, <1>0, FirstWaiter, Zenon
    <3>2. pipelined
      BY <3>1, <1>0, Zenon DEF IInv, Waiting, WaitingAt, Placed, Places
    <3> QED  BY <3>2, <2>0, <1>2, Zenon
  <2> QED  BY <2>1, <2>2, Zenon
<1>11. ASSUME UNCHANGED vars
       PROVE  PoolAccounted'
  BY <1>1, <1>11, Zenon DEF vars, made_as, client, pool, Leased, Holding
<1> QED
  BY <1>3, <1>4, <1>6, <1>7, <1>8, <1>9, <1>10, <1>11, Zenon DEF Next, Call, Rest

\* acquire() never has more connections open than capacity_, whatever number of
\* coroutines leases them and however they break, and the count it compares is
\* exact; no two coroutines lease the same connection.
THEOREM AlwaysPoolAccounted ==
    ASSUME SqlAssumption
    PROVE  Spec => []PoolAccounted
<1>1. ASSUME Init
      PROVE  CInv
  <2>1. IInv
    BY <1>1, InvInit, Zenon
  <2>2. Leased = {} /\ available = <<>> /\ all_connections = <<>> /\ total_spawned = 0
    BY <1>1, Zenon DEF Init, Leased, Holding
  <2>3. Cardinality(Leased) = 0
    BY <2>2, FS_EmptySet, Zenon
  <2>4. total_spawned \in 0 .. capacity_
    BY <2>1, <2>2 DEF IInv, TypeOK
  <2>5. total_spawned = Len(available) + Cardinality(Leased) + Len(all_connections)
    BY <2>2, <2>3
  <2> QED  BY <2>1, <2>4, <2>5, Zenon DEF CInv, PoolAccounted, IInv
<1>2. ASSUME CInv, [Next]_vars
      PROVE  CInv'
  BY <1>2, InvStep, CountStep, Zenon DEF CInv
<1>3. CInv => PoolAccounted
  BY Zenon DEF CInv
<1> QED  BY <1>1, <1>2, <1>3, PTL DEF Spec

=============================================================================

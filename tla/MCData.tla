------------------------------- MODULE MCData -------------------------------
(***************************************************************************)
(* The data components in one run.  A behaviour is a behaviour of one of   *)
(* them, named by part.  The SQL pool has variables of its own, and the    *)
(* other parts leave them as they are.  Those share the variables x1 to    *)
(* x23: a part has the first of them for its own, in the order of its      *)
(* declaration, and the others are 0.                                      *)
(***************************************************************************)
EXTENDS SqlPool

CONSTANTS c1, c2, n1, n2, n3, h1, h2, none

VARIABLES
    part,
    x1, x2, x3, x4, x5, x6, x7, x8, x9, x10, x11, x12,
    x13, x14, x15, x16, x17, x18, x19, x20, x21, x22, x23

\* Cache mode, what a write does to the cache, versions, and the query.
Schemas == {<<"StrictEpoch", "EvictOnWrite", TRUE, "any">>,
            <<"StrictEpoch", "UpdateOnWrite", FALSE, "equal">>,
            <<"Partitioned", "UpdateOnWrite", TRUE, "equal">>,
            <<"PredicateAware", "EvictOnWrite", FALSE, "equal">>,
            <<"PredicateAware", "EvictOnWrite", TRUE, "any">>,
            <<"TtlOnly", "EvictOnWrite", FALSE, "equal">>}

Redis == INSTANCE RedisPool WITH
    Clients <- {c1, c2}, MaxSize <- 1, MaxBreaks <- 1, MaxRefusals <- 1, mode_ <- x1,
    kind <- x2, place <- x3, at <- x4, attempt <- x5, conn <- x6, lease <- x7, got <- x8,
    standalone_pool_ <- x9, connections_ <- x10, node <- x11, fd_ <- x12, up <- x13,
    wire <- x14, replies <- x15, multi <- x16, master <- x17, applied <- x18, breaks <- x19,
    refusals <- x20, dangling <- x21
Cluster == INSTANCE RedisCluster WITH
    Clients <- {c1, c2}, Nodes <- {n1, n2, n3}, Seed <- n1, None <- none, MaxMoves <- 1,
    slots_ <- x1, kind <- x2, place <- x3, target <- x4, asking <- x5, answer <- x6,
    first <- x7, owner <- x8, import <- x9, left <- x10, moves <- x11, disturbed <- x12
Lock == INSTANCE RedisLock WITH
    Clients <- {c1, c2}, MaxRetries <- 1, MaxCalls <- 2, MaxLosses <- 1, MaxLapses <- 1,
    place <- x1, token <- x2, attempts <- x3, locked_ <- x4, answer <- x5, holder <- x6,
    cached <- x7, losses <- x8, lapses <- x9, lapsed <- x10, orphaned <- x11
Subscriber == INSTANCE RedisSubscriber WITH
    Channels <- {h1, h2}, MaxCalls <- 3, MaxMessages <- 3, MaxBreaks <- 1, place <- x1,
    connected <- x2, calls <- x3, request <- x4, channels <- x5, stream <- x6, published <- x7,
    breaks <- x8, delivered <- x9, swallowed <- x10, missed <- x11
Orm == INSTANCE OrmCache WITH
    Clients <- {c1, c2}, Ids <- {1, 2}, Cols <- {"a", "b"}, QueryCol <- "a", None <- none,
    MaxCalls <- 3, MaxWrites <- 2, MaxFaults <- 1, Settings <- Schemas, mode_ <- x1,
    sync_ <- x2, versioned_ <- x3, where <- x4, db <- x5, committed <- x6, cached_ <- x7,
    aliases_ <- x8, epochs_ <- x9, lists_ <- x10, at <- x11, arg <- x12, new <- x13, ids <- x14,
    rows <- x15, epoch <- x16, ops <- x17, calls <- x18, writes <- x19, faults <- x20,
    mixed <- x21, late <- x22, skipped <- x23
Uuid == INSTANCE UUIDGenerator WITH
    Threads <- {"t1", "t2"}, ReseedAt <- 5, VecReseedAt <- 3, SeedDraws <- 2, CounterMod <- 3,
    Batches <- {0, 2, 5}, MaxClock <- 2, MaxIds <- 5, MaxV7 <- 3, tier <- x1, clock <- x2, thread <- x3,
    issued4 <- x4, issued7 <- x5
Related == INSTANCE Relations WITH
    Parents <- {"p1", "p2"}, MaxOps <- 4, MaxFaults <- 1, MaxOthers <- 1, kind <- x1,
    saved <- x2, targets <- x3, table <- x4, next <- x5, obj <- x6, setting <- x7, apart <- x8,
    orphans <- x9, count <- x10

ASSUME
    /\ SqlAssumption /\ Redis!PoolAssumption /\ Cluster!ClusterAssumption /\ Lock!LockAssumption
    /\ Subscriber!SubscriberAssumption /\ Orm!CacheAssumption /\ Uuid!GeneratorAssumption

-----------------------------------------------------------------------------
(* What follows the first n variables. *)
from23 == vars
from21 == <<x22, x23, from23>>
from12 == <<x13, x14, x15, x16, x17, x18, x19, x20, x21, from21>>
from11 == <<x12, from12>>
from10 == <<x11, from11>>
from5 == <<x6, x7, x8, x9, x10, from10>>
xs == <<x1, x2, x3, x4, x5, x6, x7, x8, x9, x10, x11, x12,
        x13, x14, x15, x16, x17, x18, x19, x20, x21, x22, x23>>
all == <<part, x1, x2, x3, x4, x5, from5>>

\* One of the pools, where the part is another.
Idle23 ==
    Init /\ ~pipelined /\ capacity_ = 1 /\ kind = [c \in Clients |-> "auto"]
Idle21 == x22 = 0 /\ x23 = 0 /\ Idle23
Idle12 == x13 = 0 /\ x14 = 0 /\ x15 = 0 /\ x16 = 0 /\ x17 = 0 /\ x18 = 0 /\ x19 = 0 /\ x20 = 0 /\ x21 = 0 /\ Idle21
Idle11 == x12 = 0 /\ Idle12
Idle10 == x11 = 0 /\ Idle11
Idle5 == x6 = 0 /\ x7 = 0 /\ x8 = 0 /\ x9 = 0 /\ x10 = 0 /\ Idle10
Idle0 == x1 = 0 /\ x2 = 0 /\ x3 = 0 /\ x4 = 0 /\ x5 = 0 /\ x6 = 0 /\ x7 = 0 /\ x8 = 0 /\ x9 = 0 /\ x10 = 0
         /\ x11 = 0 /\ x12 = 0 /\ x13 = 0 /\ x14 = 0 /\ x15 = 0 /\ x16 = 0 /\ x17 = 0 /\ x18 = 0 /\ x19 = 0 /\ x20 = 0
         /\ x21 = 0 /\ x22 = 0 /\ x23 = 0

MCInit ==
    \/ part = "sql" /\ Init /\ Idle0
    \/ part = "redis" /\ Redis!Init /\ Idle21
    \/ part = "cluster" /\ Cluster!Init /\ Idle12
    \/ part = "lock" /\ Lock!Init /\ Idle11
    \/ part = "subscriber" /\ Subscriber!Init /\ Idle11
    \/ part = "orm" /\ Orm!Init /\ Idle23
    \/ part = "uuid" /\ Uuid!Init /\ Idle5
    \/ part = "relations" /\ Related!Init /\ Idle10
MCNext ==
    \/ part = "sql" /\ Next /\ UNCHANGED <<part, xs>>
    \/ part = "redis" /\ Redis!Next /\ UNCHANGED <<part, from21>>
    \/ part = "cluster" /\ Cluster!Next /\ UNCHANGED <<part, from12>>
    \/ part = "lock" /\ Lock!Next /\ UNCHANGED <<part, from11>>
    \/ part = "subscriber" /\ Subscriber!Next /\ UNCHANGED <<part, from11>>
    \/ part = "orm" /\ Orm!Next /\ UNCHANGED <<part, from23>>
    \/ part = "uuid" /\ Uuid!Next /\ UNCHANGED <<part, from5>>
    \/ part = "relations" /\ Related!Next /\ UNCHANGED <<part, from10>>

\* The fairness of SqlPool and of RedisPool; the other parts are about safety
\* only.
Runs(c) ==
    \/ part = "sql" /\ Call(c) /\ UNCHANGED <<part, xs>>
    \/ part = "redis" /\ Redis!Runs(c) /\ UNCHANGED <<part, from21>>
Serves(k) ==
    \/ part = "sql" /\ (Serve(k) \/ Reader(k) \/ ReaderEnds(k)) /\ UNCHANGED <<part, xs>>
    \/ part = "redis" /\ Redis!Serve(k) /\ UNCHANGED <<part, from21>>
MCSpec ==
    /\ MCInit /\ [][MCNext]_all
    /\ \A c \in {c1, c2} : WF_all(Runs(c))
    /\ \A k \in 1 .. 3 : WF_all(Serves(k))

-----------------------------------------------------------------------------
(* Properties *)

\* Redis connections are counted, kept and leased right, a coroutine gets the
\* answer to its own command and its transaction takes effect as often as it was
\* told, but for the cases RedisPool names.  Redirects have their reason, a lock
\* has one holder, and messages are delivered once and in order (RedisCluster,
\* RedisLock, RedisSubscriber).
RedisServices ==
    /\ part = "redis" => /\ Redis!PoolAccounted /\ Redis!GuardsSafe
                         /\ Redis!OwnAnswer /\ Redis!WritesExact
    /\ part = "cluster" => Cluster!RedirectsExplained
    /\ part = "lock" => Lock!LocksExclude /\ Lock!IInv
    /\ part = "subscriber" => Subscriber!MessagesAccounted
\* What is kept in the cache and in the objects is what the database has, but
\* for the cases each module names (OrmCache, Relations).
CacheCoherent ==
    /\ part = "orm" => Orm!CacheCoherent
    /\ part = "relations" => Related!RelationsAgree
\* Identifiers differ, and those of version 7 grow (UUIDGenerator).
IdsDistinct == part = "uuid" => Uuid!IdsDistinct /\ Uuid!V7InOrder
\* Every call ends, but for those whose connection is lost under them or whose
\* result is read already (SqlPool, RedisPool).
CallsEnd ==
    <>[](\A c \in {c1, c2} :
           /\ part = "sql" => Ended(c)
           /\ part = "redis" => Redis!Ended(c))
=============================================================================

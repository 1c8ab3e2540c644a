------------------------------ MODULE MemStore ------------------------------
(***************************************************************************)
(* The in-process key-value store (src/src/data/memory/MemStore.cpp) and   *)
(* the coroutines that use it (MemStoreCacheBackend::run_op): requests are *)
(* queued, a dedicated thread drains them in batches, answers through an   *)
(* eventfd, evicts the least recently used entry and sweeps expired ones.  *)
(*                                                                         *)
(* A value is the number incr() would parse (0 for text) with a version,   *)
(* which numbers the writes of a run so that values can be told apart.     *)
(***************************************************************************)
EXTENDS Integers, Sequences, SequencesExt, FiniteSets

CONSTANTS
    Clients, Keys,
    Lists,          \* bound: the key lists mget and del_many are called with
    MaxEntries,     \* cfg_.max_entries
    MaxOps,         \* bound: requests submitted
    MaxTime         \* bound: clock ticks; a TTL is one tick

StoreAssumption ==
    /\ IsFiniteSet(Keys) /\ Lists \subseteq Seq(Keys)
    /\ MaxEntries \in Nat \ {0} /\ MaxOps \in Nat /\ MaxTime \in Nat

VARIABLES
    queue_, stop_flag_,
    thread, batch, last,    \* thread_loop: where it is, its batch, the last one
    store_, lru_list_,
    now,
    client,     \* idle, or polling its eventfd
    req,        \* client -> its MemRequest
    notified,   \* clients whose eventfd is readable
    ops, version,
    acked,      \* history: key -> newest version an answered write left behind
    used        \* history: all keys, the latest used first

vars == <<queue_, stop_flag_, thread, batch, last, store_, lru_list_, now, client, req, notified, ops, version, acked, used>>

-----------------------------------------------------------------------------
Never == MaxTime + 2
Nothing == [val |-> 0, ver |-> 0, exp |-> 0]       \* std::nullopt
Entries == [val : 0 .. MaxOps, ver : 1 .. MaxOps, exp : 0 .. Never]
Elements(seq) == {seq[i] : i \in DOMAIN seq}
KeyLists == {<<k>> : k \in Keys} \cup Lists
Requests ==
    [op : {"get", "set", "del", "incr", "mget", "del_many"}, keys : KeyLists \cup {<<>>},
     ttl : BOOLEAN, floor : 0 .. MaxOps, result : Entries \cup {Nothing}]

NoRequest == [op |-> "get", keys |-> <<>>, ttl |-> FALSE, floor |-> 0, result |-> Nothing]

TypeOK ==
    /\ queue_ \in Seq(Clients) /\ batch \in Seq(Clients)
    /\ stop_flag_ \in BOOLEAN
    /\ thread \in {"wait", "last", "process", "exited"} /\ last \in BOOLEAN
    /\ DOMAIN store_ \subseteq Keys /\ \A k \in DOMAIN store_ : store_[k] \in Entries
    /\ lru_list_ \in Seq(Keys)
    /\ now \in 0 .. MaxTime
    /\ client \in [Clients -> {"idle", "polling"}]
    /\ req \in [Clients -> Requests]
    /\ notified \subseteq Clients
    /\ ops \in 0 .. MaxOps /\ version \in 0 .. MaxOps
    /\ acked \in [Keys -> 0 .. MaxOps]
    /\ used \in Seq(Keys)

Init ==
    /\ queue_ = <<>> /\ stop_flag_ = FALSE
    /\ thread = "wait" /\ batch = <<>> /\ last = FALSE
    /\ store_ = [k \in {} |-> Nothing] /\ lru_list_ = <<>>
    /\ now = 0
    /\ client = [c \in Clients |-> "idle"]
    /\ req = [c \in Clients |-> NoRequest]
    /\ notified = {}
    /\ ops = 0 /\ version = 0
    /\ acked = [k \in Keys |-> 0] /\ used = <<>>

(***************************************************************************)
(* The map with its recency list, as a pair s = [kv, lru].                 *)
(***************************************************************************)
Expired(e) == now >= e.exp
Without(seq, k) == SelectSeq(seq, LAMBDA x : x # k)
Put(kv, k, e) == [x \in DOMAIN kv \cup {k} |-> IF x = k THEN e ELSE kv[x]]
Erase(s, k) == [kv |-> [x \in DOMAIN s.kv \ {k} |-> s.kv[x]], lru |-> Without(s.lru, k)]
Touch(s, k) == [s EXCEPT !.lru = <<k>> \o Without(s.lru, k)]

\* Mutant: the newest entry is evicted.
EvictLru_Newest(s) == IF s.lru = <<>> THEN s ELSE Erase(s, Head(s.lru))

EvictLru(s) == IF s.lru = <<>> THEN s ELSE Erase(s, s.lru[Len(s.lru)])

\* Mutant: the capacity test is off by one.
AtCapacity_Over(s) == Cardinality(DOMAIN s.kv) > MaxEntries

AtCapacity(s) == Cardinality(DOMAIN s.kv) >= MaxEntries

Emplace(s, k, e) ==
    LET room == IF AtCapacity(s) THEN EvictLru(s) ELSE s
    IN  [kv |-> Put(room.kv, k, e), lru |-> <<k>> \o room.lru]

\* Mutant: looking a key up creates it.
DoGet_Insert(s, k) ==
    IF k \notin DOMAIN s.kv THEN [kv |-> Put(s.kv, k, Nothing), lru |-> <<k>> \o s.lru]
    ELSE IF Expired(s.kv[k]) THEN Erase(s, k) ELSE Touch(s, k)

DoGet(s, k) ==
    IF k \notin DOMAIN s.kv THEN s
    ELSE IF Expired(s.kv[k]) THEN Erase(s, k) ELSE Touch(s, k)

\* Mutant: updating an entry leaves its old place in the list behind.
DoSet_NoErase(s, k, e) ==
    IF k \in DOMAIN s.kv
    THEN [kv |-> Put(s.kv, k, e), lru |-> <<k>> \o s.lru]
    ELSE Emplace(s, k, e)

\* Mutant: an entry that exists is touched and keeps its value.
DoSet_KeepValue(s, k, e) == IF k \in DOMAIN s.kv THEN Touch(s, k) ELSE Emplace(s, k, e)

DoSet(s, k, e) ==
    IF k \in DOMAIN s.kv
    THEN [Touch(s, k) EXCEPT !.kv = Put(s.kv, k, e)]
    ELSE Emplace(s, k, e)

DoDel(s, k) == IF k \in DOMAIN s.kv THEN Erase(s, k) ELSE s

\* An entry that is not a number counts as 0; an expired one starts again.
DoIncr(s, k, ver) ==
    IF k \in DOMAIN s.kv /\ ~Expired(s.kv[k])
    THEN [Touch(s, k) EXCEPT !.kv[k] = [@ EXCEPT !.val = @ + 1, !.ver = ver]]
    ELSE LET s1 == DoDel(s, k)
         IN  Emplace(s1, k, [val |-> 1, ver |-> ver, exp |-> Never])

Found(s, k) == IF k \in DOMAIN s.kv /\ ~Expired(s.kv[k]) THEN s.kv[k] ELSE Nothing

(***************************************************************************)
(* A coroutine submits its request and polls the eventfd.                  *)
(***************************************************************************)
Max2(a, b) == IF a >= b THEN a ELSE b

Submit(c) ==
    /\ client[c] = "idle" /\ ops < MaxOps
    /\ \E op \in {"get", "set", "del", "incr", "mget", "del_many"}, ks \in KeyLists, ttl \in BOOLEAN :
          /\ op \in {"mget", "del_many"} <=> ks \in Lists
          /\ ttl => op = "set"
          /\ req' = [req EXCEPT ![c] =
                       [op |-> op, keys |-> ks, ttl |-> ttl, result |-> Nothing,
                        floor |-> IF op = "get" THEN acked[ks[1]] ELSE 0]]
    /\ client' = [client EXCEPT ![c] = "polling"]
    /\ queue_' = Append(queue_, c)
    /\ ops' = ops + 1
    /\ UNCHANGED <<stop_flag_, thread, batch, last, store_, lru_list_, now, notified, version, acked, used>>

\* The poll returns: the result is read, and the request's frame is gone.
Answered(c) ==
    /\ client[c] = "polling" /\ c \in notified
    /\ client' = [client EXCEPT ![c] = "idle"]
    /\ notified' = notified \ {c}
    /\ req' = [req EXCEPT ![c] = NoRequest]
    /\ acked' = [k \in Keys |-> IF k \in Elements(req[c].keys) /\ req[c].op \in {"set", "incr"}
                                THEN Max2(acked[k], req[c].result.ver) ELSE acked[k]]
    /\ UNCHANGED <<queue_, stop_flag_, thread, batch, last, store_, lru_list_, now, ops, version, used>>

Stop ==
    /\ ~stop_flag_
    /\ stop_flag_' = TRUE
    /\ UNCHANGED <<queue_, thread, batch, last, store_, lru_list_, now, client, req, notified, ops, version, acked, used>>
(***************************************************************************)
(* thread_loop.                                                            *)
(***************************************************************************)
store == [kv |-> store_, lru |-> lru_list_]

Leaves == stop_flag_ /\ queue_ = <<>>

\* wait_for ended (a request, a stop or the sweep interval): swap or leave.
Drain ==
    /\ thread = "wait"
    /\ IF Leaves
       THEN thread' = "last" /\ UNCHANGED <<queue_, batch>>
       ELSE thread' = "process" /\ batch' = queue_ /\ queue_' = <<>>
    /\ UNCHANGED <<stop_flag_, last, store_, lru_list_, now, client, req, notified, ops, version, acked, used>>

\* Mutant: nothing is drained after the loop.
LastDrain_None ==
    /\ thread = "last"
    /\ thread' = "exited" /\ last' = TRUE
    /\ UNCHANGED <<queue_, batch, stop_flag_, store_, lru_list_, now, client, req, notified, ops, version, acked, used>>

\* What was submitted between the break and the last swap is still answered.
LastDrain ==
    /\ thread = "last"
    /\ thread' = "process" /\ last' = TRUE
    /\ batch' = queue_ /\ queue_' = <<>>
    /\ UNCHANGED <<stop_flag_, store_, lru_list_, now, client, req, notified, ops, version, acked, used>>

Apply(r) ==
    LET k == r.keys[1]
        e == [val |-> 0, ver |-> version + 1, exp |-> IF r.ttl THEN now + 1 ELSE Never]
    IN  CASE r.op \in {"get", "mget"} -> FoldLeft(DoGet, store, r.keys)
          [] r.op \in {"del", "del_many"} -> FoldLeft(DoDel, store, r.keys)
          [] r.op = "set" -> DoSet(store, k, e)
          [] r.op = "incr" -> DoIncr(store, k, version + 1)

Writes(r) == r.op \in {"set", "incr"}

\* The reads of req after the write to notify_fd change nothing.
Process ==
    /\ thread = "process" /\ batch # <<>>
    /\ LET c == Head(batch)
           r == req[c]
           s == Apply(r)
       IN  /\ store_' = s.kv /\ lru_list_' = s.lru
           /\ req' = [req EXCEPT ![c].result =
                         IF Writes(r) THEN [s.kv[r.keys[1]] EXCEPT !.ver = version + 1]
                                      ELSE Found(store, r.keys[1])]
           /\ version' = version + (IF Writes(r) THEN 1 ELSE 0)
           /\ notified' = notified \cup {c}
           /\ used' = Reverse(r.keys) \o SelectSeq(used, LAMBDA k : k \notin Elements(r.keys))
    /\ batch' = Tail(batch)
    /\ UNCHANGED <<queue_, stop_flag_, thread, last, now, client, ops, acked>>

SweepExpired(s) ==
    LET live == {k \in DOMAIN s.kv : ~Expired(s.kv[k])}
    IN  [kv |-> [k \in live |-> s.kv[k]], lru |-> SelectSeq(s.lru, LAMBDA k : k \in live)]

\* After a batch, and if the interval has passed.
BatchDone ==
    /\ thread = "process" /\ batch = <<>>
    /\ IF last
       THEN thread' = "exited" /\ UNCHANGED <<store_, lru_list_>>
       ELSE /\ thread' = "wait"
            /\ \E s \in {store, SweepExpired(store)} : store_' = s.kv /\ lru_list_' = s.lru
    /\ UNCHANGED <<queue_, stop_flag_, last, batch, now, client, req, notified, ops, version, acked, used>>

Clock ==
    /\ now < MaxTime
    /\ now' = now + 1
    /\ UNCHANGED <<queue_, stop_flag_, last, thread, batch, store_, lru_list_, client, req, notified, ops, version, acked, used>>

Done == thread = "exited" /\ UNCHANGED vars

Thread == Drain \/ LastDrain \/ Process \/ BatchDone

Next ==
    \/ \E c \in Clients : Submit(c) \/ Answered(c)
    \/ Stop \/ Clock \/ Thread \/ Done

Spec == Init /\ [][Next]_vars

\* The thread runs, and the event loops resume coroutines whose eventfd fired.
FairSpec == Spec /\ WF_vars(Thread) /\ \A c \in Clients : WF_vars(Answered(c))

-----------------------------------------------------------------------------
(***************************************************************************)
(* Properties.                                                             *)
(***************************************************************************)
\* The recency list and the map hold the same keys, each once: no operation,
\* eviction or sweep leaves an iterator or a list node behind.  "Maximum
\* number of entries before LRU eviction kicks in." (MemStore.h:28)
ListMatchesMap ==
    /\ Elements(lru_list_) = DOMAIN store_
    /\ Cardinality(DOMAIN store_) <= MaxEntries
    /\ \A i, j \in DOMAIN lru_list_ : lru_list_[i] = lru_list_[j] => i = j

\* What an insertion pushes out is the entry that was used least recently.
LeastRecentStep ==
    \A k \in DOMAIN store_ \ DOMAIN store_' :
        thread = "process" /\ batch # <<>> /\ k \notin Elements(req[Head(batch)].keys)
          => \A i, j \in DOMAIN used : used[i] = k /\ used[j] \in DOMAIN store_ => j <= i
EvictsLeastRecent == [][LeastRecentStep]_vars

\* A get submitted after a write was answered does not see an older value:
\* it finds that value, a newer one, or nothing (deleted, expired, evicted).
NoStaleRead ==
    \A c \in Clients :
        client[c] = "polling" /\ c \in notified /\ req[c].op = "get"
          => req[c].result = Nothing \/ req[c].result.ver >= req[c].floor

\* "Gracefully stop: signals the thread, drains remaining requests, joins."
\* (MemStore.h:110): a request that is in the queue before the thread's last
\* drain is answered.
Polling(c) == client[c] = "polling"
Owed(c) == Polling(c) /\ thread # "exited" /\ ~last
RequestsAnswered == \A c \in Clients : Owed(c) ~> ~Polling(c)
=============================================================================

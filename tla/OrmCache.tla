------------------------------ MODULE OrmCache ------------------------------
(***************************************************************************)
(* The entity and query cache of the SQL client (SqlDatabaseClient.h,      *)
(* Transaction.h, OrmCache.cpp): one table, cached by id, with a unique    *)
(* column that is also the column of the cached query, and a cache         *)
(* backend whose every operation is awaited, so that the calls of several  *)
(* coroutines interleave at each of them.                                  *)
(*                                                                         *)
(* An entity is its key, its version and its column. The database is       *)
(* external: it serialises writers and refuses a duplicate column value.   *)
(* An update is of an entity that some earlier read returned.              *)
(***************************************************************************)
EXTENDS Naturals, Sequences

CONSTANTS
    Clients,
    Ids,           \* primary keys, numbers above 0
    Cols,          \* values of the unique column; the query is for QueryCol
    QueryCol,
    None,
    MaxCalls,      \* calls in all
    MaxWrites,     \* of which writes
    Settings,      \* tuples of mode, sync, versioned, where: the schemas and queries
    MaxFaults      \* cache operations that fail while a write is flushed

VARIABLES
    mode_, sync_, versioned_, where,   \* cache_config(), has_version(), the query
    db,            \* the committed rows
    committed,     \* every entity that ever was a committed row
    cached_, aliases_, epochs_, lists_,  \* the keys :id:, :<col>:, :epoch and :q:
    at,            \* of each client: its place in its call
    arg,           \* the value it looks up, in find_by_unique
    new,           \* the uncommitted row of its transaction
    ids,           \* keys: the list it read, or those it has still to store
    rows,          \* the rows its query returned
    epoch,         \* the epoch in its query_key
    ops,           \* deferred_cache_ops_
    calls, writes, faults,
    mixed,         \* keys whose entry was stored from an entity that is not the row
    late,          \* keys whose entry was stored when the row had already changed
    skipped        \* a committed write's operations were lost

vars == <<mode_, sync_, versioned_, where, db, committed, cached_, aliases_, epochs_, lists_,
          at, arg, new, ids, rows, epoch, ops, calls, writes, faults, mixed, late, skipped>>
setting == <<mode_, sync_, versioned_, where>>
ghosts == <<mixed, late, skipped>>
reading == <<arg, ids, rows, epoch>>
store == <<cached_, aliases_, epochs_, lists_>>

Modes == {"StrictEpoch", "Partitioned", "PredicateAware", "TtlOnly"}
CacheAssumption ==
    /\ Settings \subseteq Modes \X {"EvictOnWrite", "UpdateOnWrite"} \X BOOLEAN \X {"equal", "any"}
    /\ QueryCol \in Cols /\ 1 \in Ids
Keys == Cols \cup {"table"}
Entity(i, v, c) == [id |-> i, ver |-> v, col |-> c]

Init ==
    /\ \E s \in Settings : mode_ = s[1] /\ sync_ = s[2] /\ versioned_ = s[3] /\ where = s[4]
    /\ db = [i \in Ids |-> IF i = 1 THEN Entity(i, 1, QueryCol) ELSE None]
    /\ committed = {db[i] : i \in Ids} \ {None}
    /\ cached_ = [i \in Ids |-> None] /\ aliases_ = [c \in Cols |-> None]
    /\ epochs_ = [k \in Keys |-> 0] /\ lists_ = [e \in 0 .. MaxWrites |-> None]
    /\ at = [c \in Clients |-> "idle"]
    /\ arg = [c \in Clients |-> None]
    /\ new = [c \in Clients |-> None]
    /\ ids = [c \in Clients |-> {}] /\ rows = [c \in Clients |-> {}] /\ epoch = [c \in Clients |-> 0]
    /\ ops = [c \in Clients |-> <<>>]
    /\ calls = 0 /\ writes = 0 /\ faults = 0
    /\ mixed = {} /\ late = {} /\ skipped = FALSE

Go(c, p) == at' = [at EXCEPT ![c] = p]
Return(c) ==
    /\ Go(c, "idle")
    /\ arg' = [arg EXCEPT ![c] = None] /\ ids' = [ids EXCEPT ![c] = {}]
    /\ rows' = [rows EXCEPT ![c] = {}] /\ epoch' = [epoch EXCEPT ![c] = 0]

-----------------------------------------------------------------------------
(* The operations a write defers, in the order they are flushed.           *)

Del(t, k) == [type |-> "Del", table |-> t, key |-> k, value |-> None, const |-> FALSE]
Incr(k) == [type |-> "Incr", table |-> "epoch", key |-> k, value |-> None, const |-> FALSE]
\* `const`: the entity at hand is not the row that was written.
Set(t, e, shown) == [type |-> "Set", table |-> t, key |-> e.id, value |-> shown, const |-> shown # e]

\* The epochs that a change of an entity with this column value moves.
Invalidates(e) ==
    CASE mode_ = "StrictEpoch" -> <<Incr("table")>>
      [] mode_ \in {"Partitioned", "PredicateAware"} -> <<Incr(e.col)>>
      [] OTHER -> <<>>

\* Mutant: only an insert invalidates the queries, as the enumeration's comment says.
record_update_cache_NoEpoch(e, shown) == <<Del("id", e.id), Del("col", e.col)>>

\* Mutant: an updated entity is left in the cache.
record_update_cache_Kept(e, shown) == <<Del("col", e.col)>> \o Invalidates(e)

record_insert_cache(e, shown) == Invalidates(e) \o <<Set("id", e, shown)>>
record_update_cache(e, shown) ==
    <<IF sync_ = "UpdateOnWrite" THEN Set("id", e, shown) ELSE Del("id", e.id), Del("col", e.col)>>
        \o Invalidates(e)
\* The epoch that PredicateAware moves for a delete is that of the key, which
\* no query of this model has in its predicates.
record_delete_cache(i) ==
    <<Del("id", i)>> \o (IF mode_ = "StrictEpoch" THEN <<Incr("table")>> ELSE <<>>)

-----------------------------------------------------------------------------
(* The reads.                                                              *)

Start(c) ==
    /\ at[c] = "idle" /\ calls < MaxCalls
    /\ calls' = calls + 1
    /\ \/ \E i \in Ids : ids' = [ids EXCEPT ![c] = {i}] /\ Go(c, "get_id") /\ UNCHANGED arg
       \/ \E v \in Cols : arg' = [arg EXCEPT ![c] = v] /\ Go(c, "get_alias") /\ UNCHANGED ids
       \/ Go(c, "get_epoch") /\ UNCHANGED <<arg, ids>>
    /\ UNCHANGED <<setting, db, committed, store, rows, epoch, new, ops, writes, faults, ghosts>>

\* find_by_id: the entry, if there is one. Inside find_by_unique the key is
\* the one the alias named.
GetId(c) ==
    /\ at[c] = "get_id"
    /\ \E i \in ids[c] :
          IF cached_[i] # None THEN Return(c) ELSE Go(c, "sql_id") /\ UNCHANGED reading
    /\ UNCHANGED <<setting, db, committed, store, new, ops, calls, writes, faults, ghosts>>

\* find_by_unique: the alias names a key; without one the database is asked.
GetAlias(c) ==
    /\ at[c] = "get_alias"
    /\ IF aliases_[arg[c]] # None
         THEN ids' = [ids EXCEPT ![c] = {aliases_[arg[c]]}] /\ Go(c, "get_id")
         ELSE UNCHANGED ids /\ Go(c, "sql_unique")
    /\ UNCHANGED <<setting, db, committed, store, new, arg, rows, epoch, ops, calls, writes, faults, ghosts>>

Having(v) == {db[i] : i \in {j \in Ids : db[j] # None /\ db[j].col = v}}

\* The statement of find_by_id. No row: find_by_unique then asks for its value.
SqlById(c) ==
    /\ at[c] = "sql_id"
    /\ LET r == {db[i] : i \in ids[c]} \ {None}
       IN IF r # {} THEN rows' = [rows EXCEPT ![c] = r] /\ Go(c, "set_id") /\ UNCHANGED <<arg, ids, epoch>>
          ELSE IF arg[c] # None
                 THEN ids' = [ids EXCEPT ![c] = {}] /\ Go(c, "sql_unique") /\ UNCHANGED <<arg, rows, epoch>>
                 ELSE Return(c)
    /\ UNCHANGED <<setting, db, committed, store, new, ops, calls, writes, faults, ghosts>>

SqlByUnique(c) ==
    /\ at[c] = "sql_unique"
    /\ LET r == Having(arg[c])
       IN IF r = {} THEN Return(c)
          ELSE rows' = [rows EXCEPT ![c] = r] /\ Go(c, "set_id") /\ UNCHANGED <<arg, ids, epoch>>
    /\ UNCHANGED <<setting, db, committed, store, new, ops, calls, writes, faults, ghosts>>

\* An entry is stored; `late` and `mixed` remember what it was worth then.
Stores(i, e, const) ==
    /\ cached_' = [cached_ EXCEPT ![i] = e]
    /\ late' = IF e # db[i] THEN late \cup {i} ELSE late \ {i}
    /\ mixed' = IF const THEN mixed \cup {i} ELSE mixed \ {i}

SetId(c) ==
    /\ at[c] = "set_id"
    /\ \E e \in rows[c] : Stores(e.id, e, FALSE)
    /\ Go(c, "set_alias")
    /\ UNCHANGED <<setting, db, committed, aliases_, epochs_, lists_, new, reading, ops, calls, writes, faults, skipped>>

SetAlias(c) ==
    /\ at[c] = "set_alias"
    /\ \E e \in rows[c] : aliases_' = [aliases_ EXCEPT ![e.col] = e.id]
    /\ Return(c)
    /\ UNCHANGED <<setting, db, committed, cached_, epochs_, lists_, new, ops, calls, writes, faults, ghosts>>

-----------------------------------------------------------------------------
(* fetch_all.                                                              *)

\* The epoch in the key of the query's list: the partition's or the
\* predicate's if the query has one, the table's otherwise.
EpochKey ==
    IF mode_ \in {"Partitioned", "PredicateAware"} /\ where = "equal" THEN QueryCol ELSE "table"
Matching == {i \in Ids : db[i] # None /\ (where = "equal" => db[i].col = QueryCol)}

GetEpoch(c) ==
    /\ at[c] = "get_epoch"
    /\ epoch' = [epoch EXCEPT ![c] = IF mode_ = "TtlOnly" THEN 0 ELSE epochs_[EpochKey]]
    /\ Go(c, "get_list")
    /\ UNCHANGED <<setting, db, committed, store, new, arg, ids, rows, ops, calls, writes, faults, ghosts>>

GetList(c) ==
    /\ at[c] = "get_list"
    /\ LET l == lists_[epoch[c]]
       IN IF l = None THEN Go(c, "sql_all") /\ UNCHANGED reading
          ELSE IF l = {} THEN Return(c)
          ELSE ids' = [ids EXCEPT ![c] = l] /\ Go(c, "mget") /\ UNCHANGED <<arg, rows, epoch>>
    /\ UNCHANGED <<setting, db, committed, store, new, ops, calls, writes, faults, ghosts>>

\* One entity missing sends the whole query to the database.
MGet(c) ==
    /\ at[c] = "mget"
    /\ IF \A i \in ids[c] : cached_[i] # None
         THEN Return(c)
         ELSE Go(c, "sql_all") /\ UNCHANGED reading
    /\ UNCHANGED <<setting, db, committed, store, new, ops, calls, writes, faults, ghosts>>

SqlAll(c) ==
    /\ at[c] = "sql_all"
    /\ rows' = [rows EXCEPT ![c] = {db[i] : i \in Matching}]
    /\ ids' = [ids EXCEPT ![c] = Matching]
    /\ Go(c, "set_all")
    /\ UNCHANGED <<setting, db, committed, store, new, arg, epoch, ops, calls, writes, faults, ghosts>>

\* The entities one after the other, then the list of their keys.
SetAll(c) ==
    /\ at[c] = "set_all" /\ ids[c] # {}
    /\ LET i == CHOOSE i \in ids[c] : \A j \in ids[c] : i <= j
       IN /\ \E e \in rows[c] : e.id = i /\ Stores(i, e, FALSE)
          /\ ids' = [ids EXCEPT ![c] = @ \ {i}]
    /\ UNCHANGED <<setting, db, committed, aliases_, epochs_, lists_, new, at, arg, rows, epoch, ops, calls, writes, faults,
                   skipped>>

\* Mutant: the list is stored under the epoch of the moment.
SetList_Late(c) ==
    /\ at[c] = "set_all" /\ ids[c] = {}
    /\ lists_' = [lists_ EXCEPT ![epochs_[EpochKey]] = {e.id : e \in rows[c]}]
    /\ Return(c)
    /\ UNCHANGED <<setting, db, committed, cached_, aliases_, epochs_, new, ops, calls, writes, faults, ghosts>>

SetList(c) ==
    /\ at[c] = "set_all" /\ ids[c] = {}
    /\ lists_' = [lists_ EXCEPT ![epoch[c]] = {e.id : e \in rows[c]}]
    /\ Return(c)
    /\ UNCHANGED <<setting, db, committed, cached_, aliases_, epochs_, new, ops, calls, writes, faults, ghosts>>

-----------------------------------------------------------------------------
(* The writes: one statement by itself, or in a transaction.               *)

Writing == \E d \in Clients : at[d] = "finish"
Free(v, i) == v \notin {db[j].col : j \in {k \in Ids \ {i} : db[k] # None}}

\* The committed row, in an autocommitted statement or at a commit.
Commits(i, e) ==
    /\ db' = [db EXCEPT ![i] = e]
    /\ committed' = committed \cup ({e} \ {None})

\* The statement ran: by itself it is committed at once, in a transaction
\* it waits for the block to end.
Executes(c, i, e, deferred) ==
    /\ ops' = [ops EXCEPT ![c] = deferred] /\ writes' = writes + 1
    /\ \/ Commits(i, e) /\ Go(c, "flush") /\ UNCHANGED new
       \/ new' = [new EXCEPT ![c] = [id |-> i, row |-> e]] /\ Go(c, "finish") /\ UNCHANGED <<db, committed>>

Writes(c) == at[c] = "idle" /\ calls < MaxCalls /\ ~Writing /\ writes < MaxWrites

\* insert_get_id: through a const reference the entity keeps no key, and it
\* is that entity the cache is given.
insert_get_id(c, i, v, const) ==
    LET row == Entity(i, 1, v)
    IN Executes(c, i, row, record_insert_cache(row, IF const THEN Entity(0, 1, v) ELSE row))

Insert(c) ==
    /\ Writes(c)
    /\ \E i \in Ids, v \in Cols, const \in BOOLEAN :
          db[i] = None /\ Free(v, i) /\ insert_get_id(c, i, v, const)
    /\ calls' = calls + 1
    /\ UNCHANGED <<setting, store, reading, faults, ghosts>>

\* update_entity_impl: with a version the row must still have the entity's,
\* and the row's is increased; the entity's only without const.
update_entity_impl(c, e, v, const) ==
    IF e.id \in Ids /\ db[e.id] # None /\ (versioned_ => db[e.id].ver = e.ver) /\ Free(v, e.id)
      THEN LET row == Entity(e.id, IF versioned_ THEN e.ver + 1 ELSE e.ver, v)
               shown == IF const THEN Entity(e.id, e.ver, v) ELSE row
           IN Executes(c, e.id, row, record_update_cache(row, shown))
      ELSE UNCHANGED <<db, committed, at, new, ops, writes>>

Update(c) ==
    /\ Writes(c)
    /\ \E e \in committed \cup ({cached_[i] : i \in Ids} \ {None}), v \in Cols, const \in BOOLEAN :
          update_entity_impl(c, e, v, const)
    /\ calls' = calls + 1
    /\ UNCHANGED <<setting, store, reading, faults, ghosts>>

delete_by_id(c, i) == db[i] # None /\ Executes(c, i, None, record_delete_cache(i))

Delete(c) ==
    /\ Writes(c)
    /\ \E i \in Ids : delete_by_id(c, i)
    /\ calls' = calls + 1
    /\ UNCHANGED <<setting, store, reading, faults, ghosts>>

\* Mutant: the buffered operations are flushed after a rollback too.
Finish_FlushAlways(c) ==
    /\ at[c] = "finish"
    /\ \/ Commits(new[c].id, new[c].row) /\ Go(c, "flush") /\ UNCHANGED <<ops, skipped>>
       \/ UNCHANGED <<db, committed, ops, skipped>> /\ Go(c, "flush")
    /\ new' = [new EXCEPT ![c] = None]
    /\ UNCHANGED <<setting, store, reading, calls, writes, faults, mixed, late>>

\* transaction(): the block ended, threw, or committed by itself, which leaves
\* the buffered operations unflushed.
Finish(c) ==
    /\ at[c] = "finish"
    /\ \/ Commits(new[c].id, new[c].row) /\ Go(c, "flush") /\ UNCHANGED <<ops, skipped>>
       \/ UNCHANGED <<db, committed, skipped>> /\ ops' = [ops EXCEPT ![c] = <<>>] /\ Go(c, "idle")
       \/ Commits(new[c].id, new[c].row) /\ ops' = [ops EXCEPT ![c] = <<>>] /\ skipped' = TRUE /\ Go(c, "idle")
    /\ new' = [new EXCEPT ![c] = None]
    /\ UNCHANGED <<setting, store, reading, calls, writes, faults, mixed, late>>

\* flush_deferred_cache: one operation, awaited.
Applies(op) ==
    CASE op.type = "Incr" -> /\ epochs_' = [epochs_ EXCEPT ![op.key] = @ + 1]
                             /\ UNCHANGED <<cached_, aliases_, late, mixed>>
      [] op.type = "Set" -> Stores(op.key, op.value, op.const) /\ UNCHANGED <<epochs_, aliases_>>
      [] op.type = "Del" /\ op.table = "id" -> /\ cached_' = [cached_ EXCEPT ![op.key] = None]
                                               /\ late' = late \ {op.key} /\ mixed' = mixed \ {op.key}
                                               /\ UNCHANGED <<epochs_, aliases_>>
      [] OTHER -> /\ aliases_' = [aliases_ EXCEPT ![op.key] = None]
                  /\ UNCHANGED <<epochs_, cached_, late, mixed>>

flush_deferred_cache(c) ==
    /\ at[c] = "flush" /\ ops[c] # <<>>
    /\ Applies(Head(ops[c]))
    /\ ops' = [ops EXCEPT ![c] = Tail(@)]
    /\ IF Len(ops[c]) = 1 THEN Go(c, "idle") ELSE UNCHANGED at
    /\ UNCHANGED <<setting, db, committed, lists_, new, reading, calls, writes, faults, skipped>>

Flushed(c) ==
    /\ at[c] = "flush" /\ ops[c] = <<>> /\ Go(c, "idle")
    /\ UNCHANGED <<setting, db, committed, store, new, reading, ops, calls, writes, faults, ghosts>>

\* A cache operation fails: its error leaves the rest of them undone.
CacheFails(c) ==
    /\ at[c] = "flush" /\ ops[c] # <<>> /\ faults < MaxFaults
    /\ faults' = faults + 1 /\ skipped' = TRUE
    /\ ops' = [ops EXCEPT ![c] = <<>>] /\ Go(c, "idle")
    /\ UNCHANGED <<setting, db, committed, store, new, reading, calls, writes, mixed, late>>

Rest == (\A c \in Clients : at[c] = "idle") /\ UNCHANGED vars

Reads(c) ==
    \/ GetId(c) \/ GetAlias(c) \/ SqlById(c) \/ SqlByUnique(c) \/ SetId(c) \/ SetAlias(c)
    \/ GetEpoch(c) \/ GetList(c) \/ MGet(c) \/ SqlAll(c) \/ SetAll(c) \/ SetList(c)

Next ==
    \/ \E c \in Clients : \/ Start(c) \/ Reads(c) \/ Insert(c) \/ Update(c) \/ Delete(c)
                          \/ Finish(c) \/ flush_deferred_cache(c) \/ Flushed(c) \/ CacheFails(c)
    \/ Rest

Spec == Init /\ [][Next]_vars

-----------------------------------------------------------------------------
(* Properties.                                                             *)

\* A write is settled when its operations have been flushed.
Settled == \A c \in Clients : at[c] # "flush"

\* Every mutation reaches the cache: once the writes in progress have been
\* flushed, an entry that is not the committed row was already outdated when
\* it was stored, by a read that overlapped the write or by a flush that came
\* late, or the operations of a write were lost.
EntriesCurrent ==
    Settled /\ ~skipped => \A i \in Ids : cached_[i] \in {None, db[i]} \/ i \in late

\* The cache holds nothing that was never committed, whatever transactions
\* are rolled back; the exception is what a const entity leaves in it.
OnlyCommitted ==
    \A i \in Ids : cached_[i] \in committed \cup {None} \/ i \in mixed

\* The list kept under the current epoch lacks no row of the query, and under
\* StrictEpoch has no other. The query must have the epoch its mode moves.
Tracked == mode_ = "StrictEpoch" \/ (mode_ # "TtlOnly" /\ where = "equal")
ListsCurrent ==
    Settled /\ ~skipped /\ Tracked =>
        LET l == lists_[epochs_[EpochKey]]
        IN l # None => Matching \subseteq l /\ (mode_ = "StrictEpoch" => l = Matching)

CacheCoherent == EntriesCurrent /\ OnlyCommitted /\ ListsCurrent
=============================================================================

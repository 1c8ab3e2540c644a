----------------------------- MODULE Relations ------------------------------
(***************************************************************************)
(* HasOne and HasMany (src/src/data/orm/sql/Relations.h): what an entity   *)
(* holds of its related rows, and the statements the descriptors of        *)
(* TableRelations.h send.  Of the three kinds, "one" and "many" keep the   *)
(* parent's key in the child's row and "through" has a junction table; the *)
(* table is the sequence of <<parent, child>> in the order of the inserts, *)
(* and of each parent the program holds at most one object.  Statements    *)
(* may fail, and another session may write between any two of them.        *)
(***************************************************************************)
EXTENDS Integers, SequencesExt, FiniteSetsExt

CONSTANTS
    Parents,      \* keys of the parent rows
    MaxOps,       \* operations of the program
    MaxFaults,    \* statements that fail
    MaxOthers     \* writes of another session

VARIABLES
    kind,         \* which of the three relations this is
    saved,        \* the parents that have a row
    targets,      \* the children that have a row, of "through"
    table,        \* the rows that relate the two
    next,         \* the next key the database draws
    obj,          \* what the program holds of each parent
    setting,      \* the HasOne::set that has deleted and not yet inserted
    apart,        \* why an object may differ from its rows
    orphans,      \* keys a rolled back insert_tree left in an object
    count         \* operations, faults and writes so far

vars == <<kind, saved, targets, table, next, obj, setting, apart, orphans, count>>

Blank == [held |-> FALSE, loader |-> FALSE, loaded |-> FALSE, data |-> <<>>]
Hydrated == [Blank EXCEPT !.held = TRUE, !.loader = TRUE]

\* The children of p, in the order of the table.
Rows(p) == LET mine == SelectSeq(table, LAMBDA r : r[1] = p) IN [i \in DOMAIN mine |-> mine[i][2]]
FirstOf(s) == IF s = <<>> THEN <<>> ELSE <<s[1]>>
Without(s, c) == SelectSeq(s, LAMBDA x : x # c)

Spend(what) == count' = [count EXCEPT ![what] = @ + 1]
Operation == count.ops < MaxOps /\ setting = <<>> /\ Spend("ops")
Fault == count.faults < MaxFaults /\ setting = <<>> /\ Spend("faults")
\* The objects an operation can be called on.
Usable(p) == p \in saved /\ obj[p].held /\ obj[p].loader

-----------------------------------------------------------------------------
(* Reading *)

\* map_row and init_relations: an object with its loaders and no data.
init_relations(p) ==
    /\ Operation
    /\ p \in saved
    /\ obj' = [obj EXCEPT ![p] = Hydrated]
    /\ apart' = [apart EXCEPT ![p] = {}]
    /\ UNCHANGED <<kind, saved, targets, table, next, setting, orphans>>

\* The lazy loaders: the first row, all rows, and through the junction table
\* the rows whose child exists.
LoadOne(p) == FirstOf(Rows(p))
LoadMany(p) == Rows(p)
LoadThrough(p) == SelectSeq(Rows(p), LAMBDA c : c \in targets)

\* HasOne::load, HasMany::load: once.
Load(p) ==
    /\ Operation
    /\ Usable(p) /\ ~obj[p].loaded
    /\ obj' = [obj EXCEPT ![p].loaded = TRUE,
                          ![p].data = CASE kind = "one" -> LoadOne(p)
                                         [] kind = "many" -> LoadMany(p)
                                         [] kind = "through" -> LoadThrough(p)]
    /\ apart' = [apart EXCEPT ![p] = {}]
    /\ UNCHANGED <<kind, saved, targets, table, next, setting, orphans>>

\* The scoped eager loaders over the rows of one parent; limit 0 is none.  A
\* HasOne is emptied and takes the last row, or the first under a limit; a
\* HasMany is appended to while it is under the limit.
IncludeOne(p, data, limit) ==
    FoldLeft(LAMBDA d, c : IF limit = 0 \/ d = <<>> THEN <<c>> ELSE d, <<>>, Rows(p))
IncludeMany(p, data, limit) ==
    FoldLeft(LAMBDA d, c : IF limit = 0 \/ Len(d) < limit THEN Append(d, c) ELSE d, data, Rows(p))
IncludeThrough(p, data, limit) ==
    FoldLeft(LAMBDA d, c : IF c \in targets /\ (limit = 0 \/ Len(d) < limit) THEN Append(d, c) ELSE d, data, Rows(p))
Included(p, data, limit) ==
    CASE kind = "one" -> IncludeOne(p, data, limit)
      [] kind = "many" -> IncludeMany(p, data, limit)
      [] kind = "through" -> IncludeThrough(p, data, limit)

\* fetch_all with the relation included, once or by mistake twice: fresh
\* objects of all the parents, and one statement for each include.
eager_load_includes(limit, twice) ==
    /\ Operation
    /\ LET once(p) == Included(p, <<>>, limit)
           data(p) == IF twice THEN Included(p, once(p), limit) ELSE once(p)
       IN obj' = [p \in Parents |-> IF p \in saved THEN [Hydrated EXCEPT !.loaded = TRUE, !.data = data(p)]
                                    ELSE obj[p]]
    /\ apart' = [p \in Parents |-> IF p \notin saved THEN apart[p]
                                   ELSE (IF limit > 0 THEN {"limit"} ELSE {}) \cup (IF twice THEN {"twice"} ELSE {})]
    /\ UNCHANGED <<kind, saved, targets, table, next, setting, orphans>>

\* HasOne::reset and the HasMany::clear that only empties the object.
reset(p) ==
    /\ Operation
    /\ Usable(p) /\ obj[p].loaded
    /\ obj' = [obj EXCEPT ![p].loaded = FALSE, ![p].data = <<>>]
    /\ apart' = [apart EXCEPT ![p] = {}]
    /\ UNCHANGED <<kind, saved, targets, table, next, setting, orphans>>

-----------------------------------------------------------------------------
(* Writing *)

\* An object that was not loaded and now counts as loaded hides the rows it
\* did not hold.
Hiding(p) == IF ~obj[p].loaded /\ obj[p].data # Rows(p) THEN {"hidden"} ELSE {}

\* Mutant: the object is changed before the statement.
add_Early(p, ok) ==
    /\ kind = "many" /\ Usable(p)
    /\ IF ok THEN Operation ELSE Fault
    /\ table' = IF ok THEN Append(table, <<p, next>>) ELSE table
    /\ next' = IF ok THEN next + 1 ELSE next
    /\ obj' = [obj EXCEPT ![p].data = Append(@, next), ![p].loaded = TRUE]
    /\ apart' = [apart EXCEPT ![p] = @ \cup Hiding(p)]
    /\ UNCHANGED <<kind, saved, targets, setting, orphans>>
\* HasMany::add: the child's row, then the object.
add(p, ok) ==
    /\ kind = "many" /\ Usable(p)
    /\ IF ok THEN Operation ELSE Fault
    /\ table' = IF ok THEN Append(table, <<p, next>>) ELSE table
    /\ next' = IF ok THEN next + 1 ELSE next
    /\ obj' = IF ok THEN [obj EXCEPT ![p].data = Append(@, next), ![p].loaded = TRUE] ELSE obj
    /\ apart' = IF ok THEN [apart EXCEPT ![p] = @ \cup Hiding(p)] ELSE apart
    /\ UNCHANGED <<kind, saved, targets, setting, orphans>>

\* Mutant: by the child's key alone.
Deleted_AnyParent(p, c) == SelectSeq(table, LAMBDA r : r[2] # c)
\* DELETE ... WHERE the parent's key AND the child's.
Deleted(p, c) == SelectSeq(table, LAMBDA r : r # <<p, c>>)

\* HasMany::remove: the object follows only when a row went.
remove(p, c) ==
    /\ Operation
    /\ kind = "many" /\ Usable(p)
    /\ table' = Deleted(p, c)
    /\ obj' = IF table' # table THEN [obj EXCEPT ![p].data = Without(@, c)] ELSE obj
    /\ UNCHANGED <<kind, saved, targets, next, setting, apart, orphans>>
\* HasMany::detach: every junction row of the two.
detach(p, c) ==
    /\ Operation
    /\ kind = "through" /\ Usable(p)
    /\ table' = Deleted(p, c)
    /\ obj' = IF table' # table THEN [obj EXCEPT ![p].data = Without(@, c)] ELSE obj
    /\ UNCHANGED <<kind, saved, targets, next, setting, apart, orphans>>

\* HasMany::attach: a junction row, another one where there is one already.
attach(p, c) ==
    /\ Operation
    /\ kind = "through" /\ Usable(p)
    /\ table' = Append(table, <<p, c>>)
    /\ obj' = [obj EXCEPT ![p].data = Append(@, c), ![p].loaded = TRUE]
    /\ apart' = [apart EXCEPT ![p] = @ \cup Hiding(p)]
    /\ UNCHANGED <<kind, saved, targets, next, setting, orphans>>

\* Mutant: the old row stays.
Cleared_Not(p) == table
\* DELETE ... WHERE the parent's key.
Cleared(p) == SelectSeq(table, LAMBDA r : r[1] # p)

\* HasOne::set: deletes, and inserts in a statement of its own.
set(p) ==
    /\ Operation
    /\ kind = "one" /\ Usable(p)
    /\ table' = Cleared(p)
    /\ setting' = <<p>>
    /\ UNCHANGED <<kind, saved, targets, next, obj, apart, orphans>>

insert_entity ==
    /\ setting # <<>>
    /\ LET p == setting[1]
       IN /\ table' = Append(table, <<p, next>>)
          /\ obj' = [obj EXCEPT ![p].data = <<next>>, ![p].loaded = TRUE]
    /\ next' = next + 1
    /\ setting' = <<>>
    /\ UNCHANGED <<kind, saved, targets, apart, orphans, count>>

\* The insert fails: the exception leaves the object as it was.
insert_failed ==
    /\ setting # <<>> /\ count.faults < MaxFaults /\ Spend("faults")
    /\ apart' = [apart EXCEPT ![setting[1]] = @ \cup {"lost"}]
    /\ setting' = <<>>
    /\ UNCHANGED <<kind, saved, targets, table, next, obj, orphans>>

\* HasOne::clear.
clear(p) ==
    /\ Operation
    /\ kind = "one" /\ Usable(p)
    /\ table' = Cleared(p)
    /\ obj' = [obj EXCEPT ![p].data = <<>>, ![p].loaded = TRUE]
    /\ apart' = [apart EXCEPT ![p] = {}]
    /\ UNCHANGED <<kind, saved, targets, next, setting, orphans>>

-----------------------------------------------------------------------------
(* Trees *)

\* The application puts a new entity together; a child without a row has
\* the key 0.
build(p, data) ==
    /\ Operation
    /\ p \notin saved /\ ~obj[p].held
    /\ kind = "one" => Len(data) <= 1
    /\ kind # "through" => \A i \in DOMAIN data : data[i] = 0
    /\ obj' = [obj EXCEPT ![p] = [Blank EXCEPT !.held = TRUE, !.data = data]]
    /\ UNCHANGED <<kind, saved, targets, table, next, setting, apart, orphans>>

\* The tree inserters over the first n children: which of them get a row and
\* a key.  A child of a junction table that has a key counts as inserted.
InsertOwned(p, n) == 1 .. n
InsertTargets(p, n) == {i \in 1 .. n : obj[p].data[i] = 0}
Insert(p, n) ==
    LET d == obj[p].data
        drawn == IF kind = "through" THEN InsertTargets(p, n) ELSE InsertOwned(p, n)
        key(i) == next + Cardinality({j \in drawn : j < i})
    IN [data |-> [i \in DOMAIN d |-> IF i \in drawn THEN key(i) ELSE d[i]],
        keys |-> {key(i) : i \in drawn}]

\* Mutant: what was inserted before the failure stays.
Rolled_Kept(p, n) == table \o [i \in 1 .. n |-> <<p, Insert(p, n).data[i]>>]
\* SqlDatabaseClient::insert_tree runs in a transaction.
Rolled(p, n) == table

\* insert_tree: the parent, then its children one after the other.  A failure
\* undoes the rows; the keys stay in the object.
insert_tree(p) ==
    /\ Operation
    /\ obj[p].held /\ p \notin saved
    /\ LET n == Len(obj[p].data)
           ins == Insert(p, n)
       IN /\ table' = table \o [i \in 1 .. n |-> <<p, ins.data[i]>>]
          /\ obj' = [obj EXCEPT ![p].data = ins.data, ![p].loader = TRUE]
          /\ targets' = IF kind = "through" THEN targets \cup ins.keys ELSE targets
          /\ next' = next + Cardinality(ins.keys)
    /\ saved' = saved \cup {p}
    /\ UNCHANGED <<kind, setting, apart, orphans>>

insert_tree_failed(p) ==
    /\ Fault
    /\ obj[p].held /\ p \notin saved
    /\ \E n \in 0 .. Len(obj[p].data) :
         LET ins == Insert(p, n)
         IN /\ obj' = [obj EXCEPT ![p].data = ins.data, ![p].loader = TRUE]
            /\ table' = Rolled(p, n)
            /\ next' = next + Cardinality(ins.keys)
            /\ orphans' = orphans \cup ins.keys
    /\ UNCHANGED <<kind, saved, targets, setting, apart>>

-----------------------------------------------------------------------------
(* Another session *)

Other ==
    /\ count.others < MaxOthers /\ Spend("others")
    /\ \E p \in saved :
         /\ \/ /\ table' = Append(table, <<p, IF kind = "through" THEN 1 ELSE next>>)
               /\ next' = next + 1
            \/ /\ Rows(p) # <<>>
               /\ table' = SelectSeq(table, LAMBDA r : r # <<p, Rows(p)[1]>>)
               /\ UNCHANGED next
         /\ apart' = [apart EXCEPT ![p] = @ \cup {"other"}]
    /\ UNCHANGED <<kind, saved, targets, obj, setting, orphans>>

-----------------------------------------------------------------------------

Init ==
    /\ kind \in {"one", "many", "through"}
    /\ \E p \in Parents : saved = {p}
    /\ targets = {1}
    /\ table = [i \in 1 .. (IF kind = "one" THEN 0 ELSE 1) |-> <<CHOOSE p \in saved : TRUE, 1>>]
    /\ next = 2
    /\ obj = [p \in Parents |-> Blank]
    /\ setting = <<>>
    /\ apart = [p \in Parents |-> {}]
    /\ orphans = {}
    /\ count = [ops |-> 0, faults |-> 0, others |-> 0]

Rest == UNCHANGED vars

Next ==
    \/ \E p \in Parents : \/ init_relations(p) \/ Load(p) \/ reset(p) \/ set(p) \/ clear(p)
                          \/ insert_tree(p) \/ insert_tree_failed(p)
                          \/ \E ok \in BOOLEAN : add(p, ok)
                          \/ \E c \in 1 .. next : remove(p, c) \/ detach(p, c)
                          \/ \E c \in targets : attach(p, c)
                          \/ \E n \in 0 .. 2 : \E d \in [1 .. n -> 0 .. 1] : build(p, d)
    \/ \E limit \in 0 .. 1, twice \in BOOLEAN : eager_load_includes(limit, twice)
    \/ insert_entity \/ insert_failed
    \/ Other
    \/ Rest

-----------------------------------------------------------------------------
(* Properties *)

\* The same children, each as often.
SameChildren(s, t) ==
    \A c \in ToSet(s) \cup ToSet(t) :
        Cardinality({i \in DOMAIN s : s[i] = c}) = Cardinality({i \in DOMAIN t : t[i] = c})

\* An object that counts as loaded holds exactly its rows (one of them for a
\* HasOne: load takes the first and include the last), but for the keys of a
\* tree that was rolled back and unless another session wrote, it was
\* included twice or under a limit, it took a first child without being
\* loaded (Relations.h:252, 294) or the second statement of HasOne::set
\* failed (TableRelations.h:79).
ObjectsMirrorRows ==
    LET kept(s) == SelectSeq(s, LAMBDA c : c \notin orphans)
    IN \A p \in saved : (obj[p].loaded /\ apart[p] = {} /\ setting # <<p>>) =>
        IF kind = "one" THEN (obj[p].data = <<>>) = (Rows(p) = <<>>) /\ ToSet(obj[p].data) \subseteq ToSet(Rows(p))
        ELSE SameChildren(kept(obj[p].data), kept(Rows(p)))

\* A parent has at most one row of a HasOne, a tree that was not inserted left
\* nothing, and a junction row names a child that exists unless the child's
\* key is left from a tree that was rolled back (TableRelations.h:564).
RowsSound ==
    /\ count.others = 0 =>
         /\ kind = "one" => \A p \in Parents : Len(Rows(p)) <= 1
         /\ \A p \in Parents \ saved : Rows(p) = <<>>
    /\ kind = "through" => \A i \in DOMAIN table : table[i][2] \in targets \cup orphans

\* Objects and rows agree: ObjectsMirrorRows and RowsSound, for HasOne,
\* HasMany and junction tables.
RelationsAgree == ObjectsMirrorRows /\ RowsSound
=============================================================================

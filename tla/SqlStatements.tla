--------------------------- MODULE SqlStatements ----------------------------
(***************************************************************************)
(* The statements the SQL builders write: conditions, placeholders and     *)
(* bound values, projections and the rows read back, pages, inserts and    *)
(* junction columns (src/src/data/orm/sql).  A compiled statement is the   *)
(* sequence of its fragments in the order of the text; a placeholder is    *)
(* the number in $n, or 0 for a question mark.  The database is a small    *)
(* table with a child table, and evaluates the text as SQL does: AND binds *)
(* tighter than OR, $n is the n-th value, and the question marks take the  *)
(* values in order.                                                        *)
(***************************************************************************)
EXTENDS Integers, SequencesExt, FiniteSetsExt

CONSTANTS
    MaxConds,     \* conditions of a builder
    MaxRows,      \* rows of a table that is paged
    MaxParams,    \* values of a statement, 65535 or 32766
    Columns,      \* the columns of the schema, in order
    Children      \* rows of the child table

VARIABLES built, result

vars == <<built, result>>

Vals == 1 .. 2
Nothing == [t |-> "nothing"]

-----------------------------------------------------------------------------
(* WhereClauseBuilder and SelectBuilder: what a builder collects *)

Condition(conj, op, values) == [conj |-> conj, op |-> op, values |-> values, child |-> <<>>]
Add(b, cond) == [b EXCEPT !.conds = Append(@, cond)]
Builder(kind, dialect) ==
    [t |-> kind, dialect |-> dialect, sets |-> <<>>, conds |-> <<>>, havings |-> <<>>]

\* WhereClauseBuilder, each with its or_ form.  LIKE goes through where.
where(b, conj, value) == Add(b, Condition(conj, "Eq", <<value>>))
where_in(b, conj, list) == Add(b, Condition(conj, "In", list))
where_not_in(b, conj, list) == Add(b, Condition(conj, "NotIn", list))
where_null(b, conj) == Add(b, Condition(conj, "IsNull", <<>>))
where_between(b, conj, low, high) == Add(b, Condition(conj, "Between", <<low, high>>))

\* SelectBuilder: the conditions of the child builder under a custom compiler.
where_has(b, child) == Add(b, [Condition("And", "Exists", <<>>) EXCEPT !.child = child])
where_doesnt_have(b, child) == Add(b, [Condition("And", "NotExists", <<>>) EXCEPT !.child = child])
having(b, value) == [b EXCEPT !.havings = Append(@, Condition("And", "Eq", <<value>>))]
\* UpdateBuilder.
set(b, value) == [b EXCEPT !.sets = Append(@, value)]

-----------------------------------------------------------------------------
(* Compilation *)

\* DialectTraits::format_placeholder.
format_placeholder(dialect, idx) == IF dialect = "PostgreSQL" THEN idx ELSE 0

\* A part of the text and its values, appended to what there is: the next
\* placeholder is one after the last value.
Bind(acc, dialect, frag, values) ==
    [text |-> Append(acc.text, [frag EXCEPT !.holes =
                 [j \in 1 .. Len(values) |-> format_placeholder(dialect, acc.idx + j - 1)]]),
     params |-> acc.params \o values, idx |-> acc.idx + Len(values)]
Fragment(conj, op) == [conj |-> conj, op |-> op, holes |-> <<>>, body |-> <<>>]
NoText == [text |-> <<>>, params |-> <<>>, idx |-> 1]

\* Mutant: an empty list still writes its operator.
Operator_Kept(cond) == cond.op
\* An empty list is written as a constant.
Operator(cond) ==
    CASE cond.op = "In" /\ cond.values = <<>> -> "1 = 0"
      [] cond.op = "NotIn" /\ cond.values = <<>> -> "1 = 1"
      [] OTHER -> cond.op

\* compile_conditions over plain conditions.
CompilePlain(acc, dialect, conds) ==
    FoldLeft(LAMBDA a, c : Bind(a, dialect, Fragment(c.conj, Operator(c)), c.values), acc, conds)

\* Mutant: no parentheses round the conditions of the child.
Enclosed_Bare(text) == text
\* The conditions of the child stand in parentheses.
Enclosed(text) == IF text = <<>> THEN <<>> ELSE <<[Fragment("And", "Group") EXCEPT !.body = text]>>

\* Mutant: the subquery counts its placeholders from one.
SubAcc_Fresh(acc) == [NoText EXCEPT !.params = acc.params]
\* The subquery goes on with the counter and the values of the statement.
SubAcc(acc) == [acc EXCEPT !.text = <<>>]
\* exists_builder: EXISTS (SELECT 1 ... WHERE fk = pk AND (...)).
exists_builder(acc, dialect, cond) ==
    LET sub == CompilePlain(SubAcc(acc), dialect, cond.child)
        frag == [Fragment(cond.conj, cond.op) EXCEPT !.body = <<Fragment("And", "Joined")>> \o Enclosed(sub.text)]
    IN [text |-> Append(acc.text, frag), params |-> sub.params, idx |-> sub.idx]

\* compile_condition and compile_conditions.
compile_conditions(acc, dialect, conds) ==
    FoldLeft(LAMBDA a, c : IF c.op \in {"Exists", "NotExists"} THEN exists_builder(a, dialect, c)
                           ELSE CompilePlain(a, dialect, <<c>>), acc, conds)

\* Mutant: the conditions count from one again.
AfterSets_Fresh(acc) == [acc EXCEPT !.text = <<>>, !.idx = 1]
AfterSets(acc) == [acc EXCEPT !.text = <<>>]

\* WHERE and HAVING after what there is, with one counter.
Clauses(b, sets) ==
    LET where_ == compile_conditions(AfterSets(sets), b.dialect, b.conds)
        having_ == compile_conditions([where_ EXCEPT !.text = <<>>], b.dialect, b.havings)
    IN [t |-> "sql", sets |-> sets.text, where |-> where_.text, having |-> having_.text,
        params |-> having_.params]
compile_select_query_impl(b) == Clauses(b, NoText)
compile_count_query_impl(b) == Clauses(b, NoText)
compile_aggregate_query_impl(b) == Clauses(b, NoText)
\* UpdateBuilder::to_sql: no assignments, no statement.
UpdateSql(b) ==
    IF b.sets = <<>> THEN Nothing
    ELSE Clauses(b, FoldLeft(LAMBDA a, v : Bind(a, b.dialect, Fragment("And", "Set"), <<v>>), NoText, b.sets))
\* DeleteBuilder::to_sql.
DeleteSql(b) == Clauses(b, NoText)

-----------------------------------------------------------------------------
(* TableDef: inserts, rows read back; Transaction: pages, junction tables *)

\* build_insert_sql: the entities one after the other, the columns the
\* database numbers left out; too many values are an error.
build_insert_sql(dialect, entities) ==
    LET n == Len(FlattenSeq(entities))
    IN IF entities = <<>> \/ n > MaxParams THEN Nothing
       ELSE LET out == FoldLeft(LAMBDA a, e : Bind(a, dialect, Fragment("And", "Row"), e), NoText, entities)
            IN [t |-> "sql", sets |-> out.text, where |-> <<>>, having |-> <<>>, params |-> out.params]

\* map_row: the i-th column of the row goes into the i-th column of the
\* schema, whatever was selected.
map_row(row) == [c \in ToSet(Columns) |->
    LET i == CHOOSE k \in DOMAIN Columns : Columns[k] = c
    IN IF i <= Len(row) THEN row[i] ELSE "default"]

\* Mutant: counts a last page that is not full as none.
Pages_Down(total, per_page) == total \div per_page
Pages(total, per_page) == IF total = 0 THEN 0 ELSE (total + per_page - 1) \div per_page
\* paginate: the items at the offset, and what the page says about the rest.
paginate(rows, page0, per_page0) ==
    LET per_page == IF per_page0 = 0 THEN 20 ELSE per_page0
        page == IF page0 = 0 THEN 1 ELSE page0
        from == (page - 1) * per_page
        total == Len(rows)
    IN [t |-> "page", items |-> SubSeq(rows, from + 1, Min({total, from + per_page})),
        current_page |-> page, per_page |-> per_page, total_pages |-> Pages(total, per_page),
        has_next |-> page < Pages(total, per_page), has_prev |-> page > 1 /\ Pages(total, per_page) > 0]

Reserved == {"id", "created_at"}
\* The first two columns that are neither numbered by the database nor named
\* like housekeeping, or else the first two not numbered.
JunctionColumns(columns) ==
    LET own == SelectSeq(columns, LAMBDA c : ~c.auto)
        candidates == SelectSeq(own, LAMBDA c : c.name \notin Reserved)
    IN CASE Len(candidates) >= 2 -> <<candidates[1], candidates[2]>>
         [] Len(candidates) < 2 /\ Len(own) >= 2 -> <<own[1], own[2]>>
         [] OTHER -> <<>>
\* The columns a junction row is inserted into, and is deleted by.
link(columns) == JunctionColumns(columns)
unlink(columns) == JunctionColumns(columns)

-----------------------------------------------------------------------------
(* A program that builds a statement and sends it *)

ChildConds == {<<>>, <<Condition("And", "In", <<2, 1>>)>>,
               <<Condition("And", "Eq", <<1>>), Condition("Or", "IsNull", <<>>)>>,
               <<Condition("And", "In", <<>>), Condition("Or", "Neq", <<2>>)>>}
Lists == {<<>>, <<2, 1>>}
Grow(b) ==
    \/ \E conj \in {"And", "Or"} :
         \/ \E v \in Vals : built' = where(b, conj, v)
         \/ \E list \in Lists : built' = where_in(b, conj, list)
         \/ \E list \in Lists : built' = where_not_in(b, conj, list)
         \/ built' = where_null(b, conj)
         \/ built' = where_between(b, conj, 1, 2)
    \/ b.t = "Select" /\ \E c \in ChildConds : built' = where_has(b, c)
    \/ b.t = "Select" /\ \E c \in ChildConds : built' = where_doesnt_have(b, c)
    \/ b.t = "Select" /\ b.havings = <<>> /\ built' = having(b, 1)
    \/ b.t = "Update" /\ Len(b.sets) < 2 /\ \E v \in Vals : built' = set(b, v)

Build ==
    /\ built.t \in {"Select", "Update", "Delete"}
    /\ result = <<>>
    /\ Len(built.conds) + Len(built.sets) + Len(built.havings) < MaxConds
    /\ Grow(built)
    /\ UNCHANGED result

Made(r) == result' = <<r>>
Send ==
    /\ result = <<>>
    /\ \/ built.t = "Select" /\ \/ Made(compile_select_query_impl(built))
                                \/ Made(compile_count_query_impl(built))
                                \/ Made(compile_aggregate_query_impl(built))
       \/ built.t = "Update" /\ Made(UpdateSql(built))
       \/ built.t = "Delete" /\ Made(DeleteSql(built))
       \/ built.t = "Insert" /\ Made(build_insert_sql(built.dialect, built.entities))
       \/ built.t = "page" /\ Made(paginate(built.rows, built.page, built.per_page))
       \/ built.t = "project" /\ Made(map_row(built.columns))
       \/ built.t = "link" /\ Made(<<link(built.columns), unlink(built.columns)>>)
    /\ UNCHANGED built

Rest == result # <<>> /\ UNCHANGED vars

Init ==
    /\ \/ \E k \in {"Select", "Update", "Delete"}, d \in {"PostgreSQL", "SQLite"} : built = Builder(k, d)
       \/ \E d \in {"PostgreSQL", "SQLite"}, n \in 0 .. 3 : \E e \in [1 .. n -> [1 .. 2 -> Vals]] :
            built = [t |-> "Insert", dialect |-> d, entities |-> e]
       \/ \E n, page \in 0 .. MaxRows, per \in 0 .. 3 :
            built = [t |-> "page", rows |-> [i \in 1 .. n |-> i], page |-> page, per_page |-> per]
       \/ \E n \in 0 .. Len(Columns) : \E c \in [1 .. n -> ToSet(Columns)] :
            IsInjective(c) /\ built = [t |-> "project", columns |-> c]
       \/ \E n \in 0 .. 4 : \E c \in [1 .. n -> [name : {"id", "a", "b", "created_at"}, auto : BOOLEAN]] :
            /\ \A i, j \in 1 .. n : c[i].name = c[j].name => i = j
            /\ \A i \in 1 .. n : c[i].auto => c[i].name = "id"
            /\ built = [t |-> "link", columns |-> c]
    /\ result = <<>>

Next == Build \/ Send \/ Rest

-----------------------------------------------------------------------------
(* The database *)

RECURSIVE Holes(_)
\* The placeholders of a text, in order.
Holes(text) == FlattenSeq([i \in DOMAIN text |-> text[i].holes \o Holes(text[i].body)])

\* The values the placeholders take.
Bound(r) ==
    LET holes == Holes(r.sets) \o Holes(r.where) \o Holes(r.having)
    IN [k \in DOMAIN holes |-> LET n == IF holes[k] = 0 THEN k ELSE holes[k]
                               IN IF n \in DOMAIN r.params THEN r.params[n] ELSE 0]

\* A comparison with NULL, here 0, is never true.
Compare(op, x, v) ==
    CASE op = "Eq" -> x # 0 /\ x = v[1]
      [] op = "Neq" -> x # 0 /\ x # v[1]
      [] op = "In" -> x # 0 /\ x \in ToSet(v)
      [] op = "NotIn" -> v = <<>> \/ (x # 0 /\ x \notin ToSet(v))
      [] op = "IsNull" -> x = 0
      [] op = "Between" -> x # 0 /\ v[1] <= x /\ x <= v[2]
      [] op = "1 = 0" -> FALSE
      [] op = "1 = 1" -> TRUE

\* AND binds tighter than OR: some run of conditions between two ORs holds.
Some(n, Or(_), Term(_)) ==
    LET starts == {1} \cup {i \in 2 .. n : Or(i)}
    IN n = 0 \/ \E i \in starts : \A j \in i .. n : (\A k \in i + 1 .. j : k \notin starts) => Term(j)

RECURSIVE Holds(_, _, _, _)
\* The text, with the values v in its order, of a row and the row of the child.
Holds(text, v, row, child) ==
    LET before(i) == Len(Holes(SubSeq(text, 1, i - 1)))
        own(i) == SubSeq(v, before(i) + 1, before(i) + Len(text[i].holes))
        inner(i) == SubSeq(v, before(i) + 1, Len(v))
        exists(i) == \E c \in Children : Holds(text[i].body, inner(i), row, c)
        term(i) == CASE text[i].op = "Exists" -> exists(i)
                     [] text[i].op = "NotExists" -> ~exists(i)
                     [] text[i].op = "Joined" -> child.fk = row.id
                     [] text[i].op = "Group" -> Holds(text[i].body, inner(i), row, child)
                     [] OTHER -> Compare(text[i].op, IF child.fk = 0 THEN row.a ELSE child.a, own(i))
    IN Some(Len(text), LAMBDA i : text[i].conj = "Or", term)

\* What the conditions of a builder ask for, with their own values.
Asked(conds, x) == Some(Len(conds), LAMBDA i : conds[i].conj = "Or", LAMBDA i : Compare(conds[i].op, x, conds[i].values))
AskedOf(conds, row) ==
    LET has(c) == \E ch \in Children : ch.fk = row.id /\ Asked(c.child, ch.a)
    IN Some(Len(conds), LAMBDA i : conds[i].conj = "Or",
            LAMBDA i : CASE conds[i].op = "Exists" -> has(conds[i])
                         [] conds[i].op = "NotExists" -> ~has(conds[i])
                         [] OTHER -> Compare(conds[i].op, row.a, conds[i].values))

RECURSIVE Parses(_)
\* A list in parentheses has at least one element.
Parses(text) == \A i \in DOMAIN text :
    (text[i].op \in {"In", "NotIn"} => text[i].holes # <<>>) /\ Parses(text[i].body)

-----------------------------------------------------------------------------
(* Properties *)

\* The rows a statement names are the rows its builder asked for, in both
\* dialects: every placeholder takes its own value, through SET, WHERE, the
\* subqueries of related rows and HAVING (compile_conditions,
\* exists_builder and the to_sql of each builder).
StatementRight(b, r) ==
    LET v == Bound(r)
        n == Len(Holes(r.sets))
        m == Len(Holes(r.where))
    IN /\ Parses(r.where) /\ Len(v) = Len(r.params)
       /\ SubSeq(v, 1, n) = (IF b.t = "Insert" THEN FlattenSeq(b.entities) ELSE b.sets)
       /\ b.t # "Insert" =>
            /\ \A row \in [id : 1 .. 2, a : 0 .. 2] :
                Holds(r.where, SubSeq(v, n + 1, n + m), row, [fk |-> 0, a |-> 0]) = AskedOf(b.conds, row)
            /\ SubSeq(v, n + m + 1, Len(v)) = FlattenSeq([i \in DOMAIN b.havings |-> b.havings[i].values])

\* The pages of a list put together are the list, and has_next and has_prev
\* say whether a page with items follows or precedes (Transaction::paginate).
PageRight(b, r) ==
    LET per == r.per_page
    IN /\ FlattenSeq([p \in 1 .. r.total_pages |-> paginate(b.rows, p, per).items]) = b.rows
       /\ r.has_next = (paginate(b.rows, r.current_page + 1, per).items # <<>>)
       /\ r.items # <<>> => r.has_prev = (r.items[1] # 1)

\* Statements name the rows their builders asked for, pages cover the list,
\* and link and unlink take the same two different columns the database does
\* not number.  A projection is read back right only when it is a first part of
\* the schema's columns: map_row goes by position (Table.h:628).
StatementsRight ==
    result # <<>> =>
        LET r == result[1]
        IN CASE built.t = "page" -> PageRight(built, r)
             [] built.t = "project" ->
                  IsPrefix(built.columns, Columns) => \A c \in ToSet(Columns) :
                      r[c] = (IF c \in ToSet(built.columns) THEN c ELSE "default")
             [] built.t = "link" ->
                  LET own == SelectSeq(built.columns, LAMBDA c : ~c.auto)
                  IN /\ r[1] = r[2]
                     /\ (r[1] = <<>>) = (Len(own) < 2)
                     /\ r[1] # <<>> => r[1][1] # r[1][2] /\ ToSet(r[1]) \subseteq ToSet(own)
             [] OTHER -> r # Nothing => StatementRight(built, r)
=============================================================================

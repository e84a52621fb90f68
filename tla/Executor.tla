------------------------------ MODULE Executor ------------------------------
(***************************************************************************)
(* The Executor of a storage process: how INSERT, UPDATE, DELETE and       *)
(* SELECT statements are evaluated over the rows of the table, with the    *)
(* Interner that gives the texts of statements their ids.                  *)
(*                                                                         *)
(* The table is what module Table shows it to be: rows named by record     *)
(* ids, an index per INDEXED column that finds what a scan finds, and      *)
(* changes row by row.  A statement is one action, as the process serves   *)
(* one request at a time; interning is a part of it, even of a SELECT, and *)
(* what was interned before a statement failed stays interned.  Module     *)
(* QueryPath says where statements come from, and how CREATE TABLE makes   *)
(* the schema.                                                             *)
(***************************************************************************)
EXTENDS SqlValue, SequencesExt, FiniteSetsExt

CONSTANTS Absent, \* "no row has this id", not a row
          MaxId   \* bound: record ids are 0 .. MaxId-1

VARIABLES schema, \* the Schema of the table
          rows,   \* the table's rows, by record id
          count,  \* Schema::RecordIdCount
          pool,   \* the Interner
          reply   \* the answer to the last statement

Columns == schema.columns     \* column names in order
ColumnSet == schema.names     \* the set of them
ColumnType == schema.type     \* the type of each, "int" or "string"
Indexed == schema.indexed     \* columns declared INDEXED
NotNull == schema.notNull     \* columns that hold no NULL
Default == schema.default     \* the DEFAULT literals, a function on some columns

Ids == 0 .. MaxId - 1
Live(rs) == {id \in DOMAIN rs : rs[id] # Absent}

NoWhere == [kind |-> "none"]
Error == [status |-> "error", result |-> <<>>]
Success(result) == [status |-> "success", result |-> result]
NoReply == [status |-> "none", result |-> <<>>]
-----------------------------------------------------------------------------
(* Expressions are of kind "literal", "column" or, in a select list,       *)
(* "aggregate".                                                            *)

\* ExpressionValue, with the pool it leaves.
Operand(e, row, p) ==
    IF e.kind = "literal"
    THEN [value |-> LiteralValue(e.literal, p), pool |-> LiteralPool(e.literal, p)]
    ELSE [value |-> IF e.name \in ColumnSet THEN row[e.name] ELSE Thrown, pool |-> p]

(* Conditions.  Their evaluation yields a truth and the pool it leaves. *)

\* The texts decide, in CompareStrings.
CompareStrings(x, op, y, p) == CompareValues(IntValue(View(p, x.n)), op, IntValue(View(p, y.n)))

CompareTexts(x, op, y, p) ==
    IF IsString(x) /\ IsString(y) THEN CompareStrings(x, op, y, p) ELSE CompareValues(x, op, y)

CompareIds(x, op, y, p) == CompareValues(x, op, y)

\* Both operands are evaluated, left first, then compared.
Comparison(left, op, right, row, p, Compare(_, _, _, _)) ==
    LET x == Operand(left, row, p)
        y == IF x.value = Thrown THEN x ELSE Operand(right, row, x.pool)
    IN  [truth |-> IF y.value = Thrown THEN "throws" ELSE Compare(x.value, op, y.value, y.pool),
         pool  |-> y.pool]

\* The second side is evaluated whatever the first one is, unless that throws.
Connected(first, second, Connective(_, _)) ==
    [truth |-> Connective(first.truth, second.truth), pool |-> second.pool]

Combine(first, Second(_), Connective(_, _)) ==
    IF first.truth = "throws" THEN first ELSE Connected(first, Second(first.pool), Connective)

\* The pattern is the set of the texts that match it.
Like(e, pattern, row, p) ==
    LET x == Operand(e, row, p)
    IN  [truth |-> IF IsNull(x.value) THEN "UNKNOWN"
                   ELSE IF IsString(x.value) THEN Truth(View(x.pool, x.value.n) \in pattern)
                   ELSE "throws",
         pool  |-> x.pool]

RECURSIVE EvaluateCondition(_, _, _)
EvaluateCondition(c, row, p) ==
    CASE c.kind = "comparison" -> Comparison(c.left, c.op, c.right, row, p, CompareTexts)
      [] c.kind = "between" ->
            Combine(Comparison(c.value, ">=", c.lower, row, p, CompareIds),
                    LAMBDA q : Comparison(c.value, "<=", c.upper, row, q, CompareIds),
                    SqlAnd)
      [] c.kind = "like" -> Like(c.value, c.pattern, row, p)
      [] c.kind = "and" -> Combine(EvaluateCondition(c.left, row, p),
                                   LAMBDA q : EvaluateCondition(c.right, row, q), SqlAnd)
      [] c.kind = "or" -> Combine(EvaluateCondition(c.left, row, p),
                                  LAMBDA q : EvaluateCondition(c.right, row, q), SqlOr)
-----------------------------------------------------------------------------
(* Which rows to look at.  A plan is [kind, ids, pool]: rows found in an   *)
(* index, "scan" if no index serves, or "throws".                          *)

Plan(kind, ids, p) == [kind |-> kind, ids |-> ids, pool |-> p]

\* find_by_index, by IndexSet::Find: no index is used for NULL or for a value
\* of another type.
FindByIndex(rs, c, x, p) ==
    IF x = Thrown \/ c \notin ColumnSet THEN Plan("throws", {}, p)
    ELSE IF c \in Indexed /\ x.type = ColumnType[c]
    THEN Plan("found", {id \in Live(rs) : rs[id][c] = x}, p)
    ELSE Plan("scan", {}, p)

\* The literal is interned even if the column has no index.
Lookup(rs, column, value, p) ==
    IF column.kind = "column" /\ value.kind = "literal"
    THEN FindByIndex(rs, column.name, LiteralValue(value.literal, p), LiteralPool(value.literal, p))
    ELSE Plan("scan", {}, p)

OrElse(plan, Second(_)) == IF plan.kind = "scan" THEN Second(plan.pool) ELSE plan

RECURSIVE IndexedRecords(_, _, _)
IndexedRecords(rs, c, p) ==
    CASE c.kind = "and" ->
            OrElse(IndexedRecords(rs, c.left, p), LAMBDA q : IndexedRecords(rs, c.right, q))
      [] c.kind = "comparison" /\ c.op = "==" ->
            OrElse(Lookup(rs, c.left, c.right, p), LAMBDA q : Lookup(rs, c.right, c.left, q))
      [] OTHER -> Plan("scan", {}, p)

RecordsFor(rs, where, p) == OrElse(IndexedRecords(rs, where, p), LAMBDA q : Plan("scan", Live(rs), q))

InOrder(ids) == SetToSortSeq(ids, LAMBDA i, j : i < j)

Visit(found, id, e) ==
    IF found.failed THEN found
    ELSE [failed |-> e.truth = "throws",
          ids    |-> found.ids \union (IF e.truth = "TRUE" THEN {id} ELSE {}),
          pool   |-> e.pool]

\* The rows of a plan for which the condition is TRUE, in the order of their ids.
Filter(rs, where, plan) ==
    FoldLeft(LAMBDA found, id : Visit(found, id, EvaluateCondition(where, rs[id], found.pool)),
             [failed |-> plan.kind = "throws", ids |-> {}, pool |-> plan.pool],
             InOrder(plan.ids))

MatchingRecords(rs, where, p) ==
    IF where = NoWhere THEN [failed |-> FALSE, ids |-> Live(rs), pool |-> p]
    ELSE Filter(rs, where, RecordsFor(rs, where, p))
-----------------------------------------------------------------------------
(* The table's part: validation of a row, one row at a time. *)

\* validate_record: NOT_NULL, the types, and no other row with the value of an
\* INDEXED column.
Valid(rs, id, row) ==
    \A c \in ColumnSet :
        /\ IF IsNull(row[c]) THEN c \notin NotNull ELSE row[c].type = ColumnType[c]
        /\ c \in Indexed => \A other \in Live(rs) \ {id} : rs[other][c] # row[c]

\* make_record, with the pool it leaves: the columns that the statement does not
\* name get their defaults, or NULL where there is none.
DefaultsPool(missing, p) ==
    FoldLeft(LAMBDA q, c : IF c \in missing \intersect DOMAIN Default
                           THEN LiteralPool(Default[c], q) ELSE q,
             p, Columns)

\* The last of two values for a column counts.
Given(columns, values, c) == values[Max({i \in DOMAIN columns : columns[i] = c})]

MakeRecord(columns, values, p) ==
    LET names == IF columns = <<>> THEN Columns ELSE columns
        missing == ColumnSet \ ToSet(names)
        q == DefaultsPool(missing, p)
    IN  IF Len(names) # Len(values) \/ ~(ToSet(names) \subseteq ColumnSet)
        THEN [failed |-> TRUE, row |-> Absent, pool |-> p]
        ELSE [failed |-> FALSE,
              row    |-> [c \in ColumnSet |->
                            IF c \notin missing THEN Given(names, values, c)
                            ELSE IF c \in DOMAIN Default THEN LiteralValue(Default[c], q)
                            ELSE Null],
              pool   |-> q]

\* The literals of one row, then of all rows: the first that throws ends it.
Values(literals, p) ==
    FoldLeft(LAMBDA got, l :
                 IF got.failed THEN got
                 ELSE [failed |-> LiteralValue(l, got.pool) = Thrown,
                       values |-> Append(got.values, LiteralValue(l, got.pool)),
                       pool   |-> LiteralPool(l, got.pool)],
             [failed |-> FALSE, values |-> <<>>, pool |-> p], literals)

AllValues(lines, p) ==
    FoldLeft(LAMBDA got, line :
                 IF got.failed THEN got
                 ELSE LET more == Values(line, got.pool)
                      IN  [more EXCEPT !.values = Append(got.values, more.values)],
             [failed |-> FALSE, values |-> <<>>, pool |-> p], lines)

\* insert_multiple: the rows before one that is refused stay inserted.
InsertMultiple(table, columns, lines) ==
    FoldLeft(LAMBDA t, values :
                 LET made == MakeRecord(columns, values, t.pool)
                 IN  IF t.failed THEN t
                     ELSE IF made.failed \/ ~Valid(t.rows, t.count, made.row)
                     THEN [t EXCEPT !.failed = TRUE, !.pool = made.pool]
                     ELSE [failed |-> FALSE, rows |-> [t.rows EXCEPT ![t.count] = made.row],
                           count |-> t.count + 1, pool |-> made.pool],
             table, lines)

\* The new version of a row; an assignment sees those before it.
Assign(row, assignments, p) ==
    FoldLeft(LAMBDA made, a :
                 LET x == Operand(a.expression, made.row, made.pool)
                 IN  IF made.failed THEN made
                     ELSE IF a.column \notin ColumnSet THEN [made EXCEPT !.failed = TRUE]
                     ELSE IF x.value = Thrown THEN [made EXCEPT !.failed = TRUE]
                     ELSE [failed |-> FALSE, row |-> [made.row EXCEPT ![a.column] = x.value],
                           pool |-> x.pool],
             [failed |-> FALSE, row |-> row, pool |-> p], assignments)

\* All new versions, before any is written.
Changed(rs, ids, assignments, p) ==
    FoldLeft(LAMBDA all, id :
                 LET made == Assign(rs[id], assignments, all.pool)
                 IN  IF all.failed THEN all
                     ELSE [failed |-> made.failed, new |-> id :> made.row @@ all.new,
                           pool |-> made.pool],
             [failed |-> FALSE, new |-> <<>>, pool |-> p], InOrder(ids))

\* Mutant: validates the new rows against the old ones, then writes them all.
UpdateMultipleValidatedFirst(rs, ids, new) ==
    [failed |-> \E id \in ids : ~Valid(rs, id, new[id]),
     rows   |-> [id \in Ids |-> IF id \in ids /\ Valid(rs, id, new[id]) THEN new[id] ELSE rs[id]]]

\* update_multiple: a row that is refused stays as it is, the others change.
UpdateMultiple(rs, ids, new) ==
    FoldLeft(LAMBDA t, id :
                 IF Valid(t.rows, id, new[id])
                 THEN [t EXCEPT !.rows[id] = new[id]]
                 ELSE [t EXCEPT !.failed = TRUE],
             [failed |-> FALSE, rows |-> rs], InOrder(ids))
-----------------------------------------------------------------------------
(* What a SELECT shows.  The list <<>> stands for *.                       *)

\* JsonValue
Shown(x, p) == IF IsString(x) THEN StringValue(View(p, x.n)) ELSE x

HasAggregate(list) == \E item \in ToSet(list) : item.kind = "aggregate"

\* ColumnName and ResultName: an alias may be given to an item.
NameOf(item) ==
    CASE "alias" \in DOMAIN item -> <<item.alias>>
      [] "alias" \notin DOMAIN item /\ item.kind = "column" -> <<item.name>>
      [] "alias" \notin DOMAIN item /\ item.kind = "aggregate" -> <<item.function, item.name>>

\* A JSON object with a member for each item: of two with one name the last stays.
Object(items, ValueOf(_)) ==
    FoldLeft(LAMBDA object, item : (NameOf(item) :> ValueOf(item)) @@ object, <<>>, items)

Items(list) ==
    IF list = <<>> THEN [i \in DOMAIN Columns |-> [kind |-> "column", name |-> Columns[i]]] ELSE list

IsColumn(item) == item.kind = "column" /\ item.name \in ColumnSet

SelectRows(rs, ids, list, p) ==
    IF ids # {} /\ ~(\A item \in ToSet(list) : IsColumn(item)) THEN Error
    ELSE Success([id \in ids |->
                    Object(Items(list), LAMBDA item : Shown(rs[id][item.name], p))])

NotNullIds(rs, ids, c) == {id \in ids : ~IsNull(rs[id][c])}

SumOf(rs, ids, c) == MapThenSumSet(LAMBDA id : rs[id][c].n, ids)

\* An average is kept as the sum and the count that are divided.
Aggregate(rs, ids, item) ==
    LET of == NotNullIds(rs, ids, item.name) IN
    CASE item.function = "COUNT" -> IntValue(Cardinality(of))
      [] item.function = "SUM" -> IntValue(SumOf(rs, of, item.name))
      [] item.function = "AVG" /\ of = {} -> Null
      [] item.function = "AVG" /\ of # {} ->
            [type |-> "ratio", n |-> SumOf(rs, of, item.name), of |-> Cardinality(of)]

AggregateFails(rs, ids, item) ==
    \/ item.kind # "aggregate"
    \/ item.name \notin ColumnSet
    \/ /\ item.function \in {"SUM", "AVG"}
       /\ \E id \in NotNullIds(rs, ids, item.name) : rs[id][item.name].type # "int"

AggregateSelect(rs, ids, list) ==
    IF \E item \in ToSet(list) : AggregateFails(rs, ids, item) THEN Error
    ELSE Success(Object(list, LAMBDA item : Aggregate(rs, ids, item)))
-----------------------------------------------------------------------------
(* Statements.  What an operation needs is worked out before it and given to it. *)

Affected(n) == Success([affected |-> n])

Fail(p) ==
    /\ reply' = Error
    /\ pool' = p
    /\ UNCHANGED <<schema, rows, count>>

\* done is what InsertMultiple leaves of the rows that were read.
Insert(total, done) ==
    /\ reply' = IF done.failed THEN Error ELSE Affected(total)
    /\ rows' = done.rows
    /\ count' = done.count
    /\ pool' = done.pool
    /\ UNCHANGED schema

\* All literals are read before the first row is inserted.
InsertRead(columns, read) ==
    \/ read.failed /\ Fail(read.pool)
    \/ /\ ~read.failed
       /\ Insert(Len(read.values),
                 InsertMultiple([failed |-> FALSE, rows |-> rows, count |-> count, pool |-> read.pool],
                                columns, read.values))

Write(ids, p, done) ==
    /\ reply' = IF done.failed THEN Error ELSE Affected(Cardinality(ids))
    /\ rows' = done.rows
    /\ pool' = p
    /\ UNCHANGED <<schema, count>>

\* Mutant: assignments take effect at once, also those of a row before one that throws.
UpdateAsItGoes(found, changed) ==
    LET done == UpdateMultiple(rows, DOMAIN changed.new, changed.new)
    IN  Write(found.ids, changed.pool, [done EXCEPT !.failed = @ \/ changed.failed])

\* Nothing is written before every new version has been computed.
Update(found, changed) ==
    \/ changed.failed /\ Fail(changed.pool)
    \/ ~changed.failed /\ Write(found.ids, changed.pool, UpdateMultiple(rows, found.ids, changed.new))

Delete(found) ==
    /\ reply' = Affected(Cardinality(found.ids))
    /\ rows' = [id \in Ids |-> IF id \in found.ids THEN Absent ELSE rows[id]]
    /\ pool' = found.pool
    /\ UNCHANGED <<schema, count>>

Select(list, found) ==
    /\ reply' = IF HasAggregate(list) THEN AggregateSelect(rows, found.ids, list)
                ELSE SelectRows(rows, found.ids, list, found.pool)
    /\ pool' = found.pool
    /\ UNCHANGED <<schema, rows, count>>

\* What a statement does with the rows that match its condition.
ExecuteOn(s, found) ==
    \/ found.failed /\ Fail(found.pool)
    \/ /\ ~found.failed
       /\ \/ s.verb = "update" /\ Update(found, Changed(rows, found.ids, s.assignments, found.pool))
          \/ s.verb = "delete" /\ Delete(found)
          \/ s.verb = "select" /\ Select(s.list, found)

\* Executor::Execute
Execute(s) ==
    \/ /\ s.verb = "insert"
       /\ count + Len(s.rows) <= MaxId
       /\ InsertRead(s.columns, AllValues(s.rows, pool))
    \/ s.verb # "insert" /\ ExecuteOn(s, MatchingRecords(rows, s.where, pool))
=============================================================================

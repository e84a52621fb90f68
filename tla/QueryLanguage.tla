--------------------------- MODULE QueryLanguage ---------------------------
(***************************************************************************)
(* What the statements of QuasarDB mean: a table of texts and numbers that *)
(* is created and dropped, no StringIds, no indexes and no order in which  *)
(* rows are looked at.  A statement for others, the server's own handlers  *)
(* or the journal, means that they are handed what the client asked for.   *)
(*                                                                         *)
(* Truth is a number: 0 false, 1 unknown, 2 true, so that AND is the       *)
(* least and OR the greatest of two.  A text is the number of its place in *)
(* the order of texts.                                                     *)
(***************************************************************************)
EXTENDS Naturals, Sequences, SequencesExt, FiniteSetsExt

CONSTANTS Absent, MaxInt, MaxId,
          Statements \* what clients ask, a sequence

VARIABLES schema,  \* what is known of the columns
          rows,    \* the rows by record id, Absent where there is none
          count,   \* the next record id
          request, \* the number of the last statement, 0 when it has been answered
          reply    \* the answer to it

vars == <<schema, rows, count, request, reply>>

Names == schema.names
ColumnType == schema.type
Indexed == schema.indexed
NotNull == schema.notNull
Default == schema.default

Ids == 0 .. MaxId - 1
Live(rs) == {id \in Ids : rs[id] # Absent}
Null == [type |-> "null", n |-> 0]

Error == [status |-> "error", result |-> <<>>]
Success(result) == [status |-> "success", result |-> result]
HandedOver(s) == [status |-> "handed over", result |-> s]
NoRequest == 0
NoReply == [status |-> "none", result |-> <<>>]
-----------------------------------------------------------------------------
(* Conditions *)

ValueOf(e, row) == IF e.kind = "literal" THEN e.literal ELSE row[e.name]

Relates(op, m, n) ==
    CASE op = "==" -> m = n [] op = "!=" -> m # n
      [] op = "<" -> m < n [] op = "<=" -> m <= n
      [] op = ">" -> m > n [] op = ">=" -> m >= n

Compare(op, x, y) ==
    IF Null \in {x, y} THEN 1 ELSE IF Relates(op, x.n, y.n) THEN 2 ELSE 0

RECURSIVE Truth(_, _)
Truth(c, row) ==
    CASE c.kind = "none" -> 2
      [] c.kind = "comparison" -> Compare(c.op, ValueOf(c.left, row), ValueOf(c.right, row))
      [] c.kind = "between" ->
            Min({Compare(">=", ValueOf(c.value, row), ValueOf(c.lower, row)),
                 Compare("<=", ValueOf(c.value, row), ValueOf(c.upper, row))})
      [] c.kind = "like" -> IF ValueOf(c.value, row) = Null THEN 1
                            ELSE IF ValueOf(c.value, row).n \in c.pattern THEN 2 ELSE 0
      [] c.kind = "and" -> Min({Truth(c.left, row), Truth(c.right, row)})
      [] c.kind = "or" -> Max({Truth(c.left, row), Truth(c.right, row)})

(* Which conditions have a meaning. *)

TypeOf(e) == IF e.kind = "literal" THEN e.literal.type
             ELSE IF e.name \in Names THEN ColumnType[e.name] ELSE "unknown"
Comparable(es) ==
    /\ \A e \in es : TypeOf(e) # "unknown"
    /\ Cardinality({TypeOf(e) : e \in es} \ {"null"}) <= 1

RECURSIVE WellTyped(_)
WellTyped(c) ==
    CASE c.kind = "none" -> TRUE
      [] c.kind = "comparison" -> Comparable({c.left, c.right})
      [] c.kind = "between" -> Comparable({c.value, c.lower, c.upper})
      [] c.kind = "like" -> TypeOf(c.value) = "string"
      [] c.kind \in {"and", "or"} -> WellTyped(c.left) /\ WellTyped(c.right)

\* An interval of texts is one of StringIds in the code, which means nothing.
RECURSIVE Meaningful(_)
Meaningful(c) ==
    CASE c.kind = "between" -> TypeOf(c.value) # "string"
      [] c.kind \in {"and", "or"} -> Meaningful(c.left) /\ Meaningful(c.right)
      [] OTHER -> TRUE

\* The rows a statement is about; an ill-typed condition may have been
\* evaluated without a clash of types, and nobody knows what it selects.
Selected(c) ==
    IF WellTyped(c) /\ Meaningful(c)
    THEN {{id \in Live(rows) : Truth(c, rows[id]) = 2}}
    ELSE SUBSET Live(rows)
-----------------------------------------------------------------------------
(* Rows *)

WellFormed(row) ==
    \A c \in Names : IF row[c] = Null THEN c \notin NotNull ELSE row[c].type = ColumnType[c]

Clashes(row, rs, others) == \E id \in Live(rs) \intersect others, c \in Indexed : rs[id][c] = row[c]

Unique(rs) == \A id \in Live(rs) : ~Clashes(rs[id], rs, Ids \ {id})

RowOf(columns, line) ==
    [c \in Names |-> IF \E i \in DOMAIN columns : columns[i] = c
                     THEN line[CHOOSE i \in DOMAIN columns : columns[i] = c]
                     ELSE IF c \in DOMAIN Default THEN Default[c]
                     ELSE Null]

\* Assignments take effect from left to right.
Assigned(row, assignments) ==
    FoldLeft(LAMBDA r, a : [r EXCEPT ![a.column] = ValueOf(a.expression, r)], row, assignments)

Assignable(assignments) ==
    \A a \in ToSet(assignments) :
        a.column \in Names /\ TypeOf(a.expression) # "unknown"
-----------------------------------------------------------------------------
(* The columns of a table.  An indexed column holds no NULL. *)

SchemaOf(columns) ==
    LET named(P(_)) == {c.name : c \in {d \in ToSet(columns) : P(d)}}
        column(name) == CHOOSE c \in ToSet(columns) : c.name = name
    IN  [columns |-> [i \in DOMAIN columns |-> columns[i].name],
         names   |-> named(LAMBDA c : TRUE),
         type    |-> [n \in named(LAMBDA c : TRUE) |-> column(n).type],
         indexed |-> named(LAMBDA c : c.indexed),
         notNull |-> named(LAMBDA c : c.notNull \/ c.indexed),
         default |-> [n \in named(LAMBDA c : c.default.type # "none") |-> column(n).default]]
NoTable == SchemaOf(<<>>)
Exists == schema # NoTable

\* Names differ, and a default is a value of its column.
IsDefinition(columns) ==
    /\ IsInjective([i \in DOMAIN columns |-> columns[i].name])
    /\ \A c \in ToSet(columns) :
         \/ c.default.type = "none"
         \/ c.default.type = "null" /\ ~c.notNull /\ ~c.indexed
         \/ c.default.type = c.type /\ (c.type = "int" => c.default.n <= MaxInt)
-----------------------------------------------------------------------------
(* Statements.  The request is kept with the reply that answers it. *)

Init ==
    /\ schema = NoTable
    /\ rows = [id \in Ids |-> Absent]
    /\ count = 0
    /\ request = NoRequest
    /\ reply = NoReply

\* Fails without a change, and only for a reason to be seen in the request.
Fails(reason) == reason /\ reply' = Error /\ UNCHANGED <<schema, rows, count>>

Affects(n) == reply' = Success([affected |-> n])

RECURSIVE Operands(_)
Operands(c) ==
    CASE c.kind = "none" -> {}
      [] c.kind = "comparison" -> {c.left, c.right}
      [] c.kind = "between" -> {c.value, c.lower, c.upper}
      [] c.kind = "like" -> {c.value}
      [] c.kind \in {"and", "or"} -> Operands(c.left) \union Operands(c.right)

InRange(literal) == literal.type = "int" => literal.n <= MaxInt
AllInRange(es) == \A e \in es : e.kind = "literal" => InRange(e.literal)

PermissionNames == {"READ", "WRITE", "CREATE", "DELETE"}

\* The digits of a year, a month, a day, an hour, a minute, a second and a
\* millisecond.
IsTimestamp(time) == [i \in DOMAIN time |-> time[i].digits] = <<4, 2, 2, 2, 2, 2, 3>>

\* Whether a statement is one, whatever the table is: every number can be stored,
\* changes say which rows they are about, and INSERTs give each of their columns
\* one value in each line.
IsLegal(s) ==
    CASE s.verb = "create table" -> IsDefinition(s.columns)
      [] s.verb = "revert" -> IsTimestamp(s.time)
      [] s.verb \in {"grant", "revoke"} -> ToSet(s.permissions) \subseteq PermissionNames
      [] s.verb \in {"drop table", "create database", "drop database", "use", "create user"} -> TRUE
      [] s.verb = "insert" ->
            /\ IsInjective(s.columns)
            /\ \A line \in ToSet(s.rows) : /\ Len(line) = Len(s.columns)
                                          /\ \A literal \in ToSet(line) : InRange(literal)
      [] s.verb = "update" ->
            /\ s.where.kind # "none"
            /\ AllInRange(Operands(s.where) \union {a.expression : a \in ToSet(s.assignments)})
      [] s.verb = "delete" -> s.where.kind # "none" /\ AllInRange(Operands(s.where))
      [] s.verb = "select" -> AllInRange(Operands(s.where) \union ToSet(s.list))

\* The rows are inserted in their order, all of them or those before the first
\* that does not fit.
Insert(statement) ==
    LET new(i) == RowOf(statement.columns, statement.rows[i])
        total == Len(statement.rows)
        put(n) == /\ count' = count + n
                  /\ rows' = [id \in Ids |-> IF id \in count .. count + n - 1
                                             THEN new(id - count + 1) ELSE rows[id]]
                  /\ \A i \in 1 .. n : WellFormed(new(i))
                  /\ Unique(rows')
                  /\ UNCHANGED schema
        known == ToSet(statement.columns) \subseteq Names
    IN  \/ Fails(~known)
        \/ known /\ put(total) /\ Affects(total)
        \/ /\ known
           /\ \E n \in 0 .. total - 1 :
                 put(n) /\ (~WellFormed(new(n + 1)) \/ Clashes(new(n + 1), rows', Ids))
           /\ reply' = Error

\* All the selected rows take their new versions, or all but those whose new
\* version does not fit among the old or the new rows.
Update(assignments, c) ==
    \/ Fails(~WellTyped(c))
    \/ \E chosen \in Selected(c) :
       LET new(id) == Assigned(rows[id], assignments)
           unfit(id) == \/ ~WellFormed(new(id))
                        \/ Clashes(new(id), rows, Ids \ {id})
                        \/ Clashes(new(id), rows', Ids \ {id})
       IN  \/ Fails(chosen # {} /\ ~Assignable(assignments))
           \/ /\ chosen = {} \/ Assignable(assignments)
              /\ \E done \in SUBSET chosen :
                    /\ rows' = [id \in Ids |-> IF id \in done THEN new(id) ELSE rows[id]]
                    /\ \A id \in done : WellFormed(new(id))
                    /\ \A id \in chosen \ done : unfit(id)
                    /\ IF done = chosen THEN Affects(Cardinality(chosen)) ELSE reply' = Error
              /\ Unique(rows')
              /\ UNCHANGED <<schema, count>>

Delete(c) ==
    \/ Fails(~WellTyped(c))
    \/ \E chosen \in Selected(c) :
         /\ rows' = [id \in Ids |-> IF id \in chosen THEN Absent ELSE rows[id]]
         /\ Affects(Cardinality(chosen))
         /\ UNCHANGED <<schema, count>>

IsPlain(list) == \A item \in ToSet(list) : item.kind # "aggregate"
Selectable(list) == \A item \in ToSet(list) : item.kind # "literal" /\ item.name \in Names

NotNullOf(chosen, c) == {id \in chosen : rows[id][c] # Null}

\* A list is of columns or of aggregates; text can be counted only.
Answerable(list, chosen) ==
    IF IsPlain(list) THEN chosen = {} \/ Selectable(list)
    ELSE /\ Selectable(list)
         /\ \A item \in ToSet(list) :
               /\ item.kind = "aggregate"
               /\ \/ item.function = "COUNT"
                  \/ ColumnType[item.name] = "int"
                  \/ NotNullOf(chosen, item.name) = {}

Aggregated(chosen, item) ==
    LET of == NotNullOf(chosen, item.name)
        total == MapThenSumSet(LAMBDA id : rows[id][item.name].n, of)
    IN  CASE item.function = "COUNT" -> [type |-> "int", n |-> Cardinality(of)]
          [] item.function = "SUM" -> [type |-> "int", n |-> total]
          [] item.function = "AVG" ->
                IF of = {} THEN Null ELSE [type |-> "ratio", n |-> total, of |-> Cardinality(of)]

\* What an item is called in the answer, and the one that a name stands for.
Called(item) == IF "alias" \in DOMAIN item THEN <<item.alias>>
                ELSE IF item.kind = "aggregate" THEN <<item.function, item.name>> ELSE <<item.name>>
Meant(list, n) == list[Max({i \in DOMAIN list : Called(list[i]) = n})]

Answer(list, chosen) ==
    LET names == {Called(item) : item \in ToSet(list)}
    IN  IF list = <<>> THEN [id \in chosen |-> [n \in {<<c>> : c \in Names} |-> rows[id][n[1]]]]
        ELSE IF IsPlain(list) THEN [id \in chosen |-> [n \in names |-> rows[id][Meant(list, n).name]]]
        ELSE [n \in names |-> Aggregated(chosen, Meant(list, n))]

Select(list, c) ==
    \/ Fails(~WellTyped(c))
    \/ \E chosen \in Selected(c) :
         /\ reply' = IF Answerable(list, chosen) THEN Success(Answer(list, chosen)) ELSE Error
         /\ UNCHANGED <<schema, rows, count>>

CreateTable(columns) ==
    \/ Fails(Exists)
    \/ /\ ~Exists
       /\ schema' = SchemaOf(columns)
       /\ Affects(0)
       /\ UNCHANGED <<rows, count>>

DropTable ==
    /\ schema' = NoTable
    /\ rows' = [id \in Ids |-> Absent]
    /\ count' = 0
    /\ Affects(0)

HandOver(s) == reply' = HandedOver(s) /\ UNCHANGED <<schema, rows, count>>

OnTable(s) ==
    \/ s.verb = "insert" /\ Insert(s)
    \/ s.verb = "update" /\ Update(s.assignments, s.where)
    \/ s.verb = "delete" /\ Delete(s.where)
    \/ s.verb = "select" /\ Select(s.list, s.where)
    \/ s.verb = "drop table" /\ DropTable
    \/ s.verb = "revert" /\ HandOver(s)

Execute(s) ==
    \/ s.verb = "create table" /\ CreateTable(s.columns)
    \/ /\ s.verb \in {"create database", "drop database", "use", "create user", "grant", "revoke"}
       /\ HandOver(s)
    \/ /\ s.verb \in {"insert", "update", "delete", "select", "drop table", "revert"}
       /\ Fails(~Exists) \/ (Exists /\ OnTable(s))

Ask ==
    /\ request = NoRequest
    /\ request' \in DOMAIN Statements
    /\ LET s == Statements[request']
       IN  \/ Fails(~IsLegal(s))
           \/ IsLegal(s) /\ Execute(s)

\* The client has its reply; the next statement may come.
Respond ==
    /\ request # NoRequest
    /\ request' = NoRequest
    /\ reply' = NoReply
    /\ UNCHANGED <<schema, rows, count>>

Next ==
    \/ Ask
    \/ Respond

Spec == Init /\ [][Next]_vars
=============================================================================

-------------------------------- MODULE Ast --------------------------------
(***************************************************************************)
(* How a statement travels from the server to a storage process:           *)
(* SerializeAst and DeserializeAst.  A JSON object is a record; a text, a  *)
(* number and the name of a table are one value on both sides.  Statements *)
(* that the server executes itself are never sent.                         *)
(***************************************************************************)
EXTENDS SqlValue, SequencesExt, TLC

(* Literals.  SerializeAst takes an integer with std::stoi, which throws   *)
(* when it is out of range; then nothing is sent.                          *)

InRange(literal) == literal.type = "int" => literal.n <= MaxInt

LiteralsIn(e) == IF e.kind = "literal" THEN {e.literal} ELSE {}

RECURSIVE ConditionLiterals(_)
ConditionLiterals(c) ==
    CASE c.kind = "none" -> {}
      [] c.kind = "comparison" -> LiteralsIn(c.left) \union LiteralsIn(c.right)
      [] c.kind = "between" -> LiteralsIn(c.value) \union LiteralsIn(c.lower) \union LiteralsIn(c.upper)
      [] c.kind = "like" -> LiteralsIn(c.value)
      [] c.kind \in {"and", "or"} -> ConditionLiterals(c.left) \union ConditionLiterals(c.right)

Literals(s) ==
    CASE s.verb = "insert" -> UNION {ToSet(line) : line \in ToSet(s.rows)}
      [] s.verb = "create table" -> {c.default : c \in ToSet(s.columns)}
      [] s.verb \in {"drop table", "revert"} -> {}
      [] s.verb = "update" -> ConditionLiterals(s.where)
                              \union UNION {LiteralsIn(a.expression) : a \in ToSet(s.assignments)}
      [] s.verb = "delete" -> ConditionLiterals(s.where)
      [] s.verb = "select" -> ConditionLiterals(s.where) \union UNION {LiteralsIn(e) : e \in ToSet(s.list)}

Serializable(s) == \A literal \in Literals(s) : InRange(literal)
-----------------------------------------------------------------------------
(* To JSON *)

LiteralToJson(literal) ==
    [node_type |-> "Literal", data_type |-> literal.type, value |-> literal.n]

ExpressionToJson(e) ==
    CASE e.kind = "column" -> [node_type |-> "Identifier", value |-> e.name]
      [] e.kind = "literal" -> LiteralToJson(e.literal)
      [] e.kind = "aggregate" -> [node_type |-> "AggregateFunction", function |-> e.function,
                                  argument |-> [node_type |-> "Identifier", value |-> e.name]]

ComparisonOperatorName(op) == IF op = "==" THEN "=" ELSE op

Binary(op, left, right) ==
    [node_type |-> "BinaryExpression", operator |-> op, left |-> left, right |-> right]

RECURSIVE ConditionToJson(_)
ConditionToJson(c) ==
    CASE c.kind = "comparison" ->
            Binary(ComparisonOperatorName(c.op), ExpressionToJson(c.left), ExpressionToJson(c.right))
      [] c.kind = "like" ->
            Binary("LIKE", ExpressionToJson(c.value), LiteralToJson([type |-> "string", n |-> c.pattern]))
      [] c.kind = "between" ->
            [node_type |-> "BetweenExpression", value |-> ExpressionToJson(c.value),
             lower |-> ExpressionToJson(c.lower), upper |-> ExpressionToJson(c.upper)]
      [] c.kind = "and" -> Binary("AND", ConditionToJson(c.left), ConditionToJson(c.right))
      [] c.kind = "or" -> Binary("OR", ConditionToJson(c.left), ConditionToJson(c.right))

\* No member where_clause stands for no WHERE.
WhereToJson(where) == IF where.kind = "none" THEN <<>> ELSE [where_clause |-> ConditionToJson(where)]

\* A member of JSON that is there only when its value is.
If(given, member) == IF given THEN member ELSE <<>>

SelectItemToJson(item) ==
    If("alias" \in DOMAIN item, [alias |-> item.alias]) @@ ExpressionToJson(item)

Projections(list) ==
    IF list = <<>> THEN <<[node_type |-> "Wildcard"]>>
    ELSE [i \in DOMAIN list |-> SelectItemToJson(list[i])]

ColumnToJson(c) ==
    [name |-> c.name, data_type |-> c.type,
     modifiers |-> If(c.indexed, <<"INDEXED">>) \o If(c.notNull, <<"NOT_NULL">>)]
    @@ If(c.default.type # "none", [default_value |-> LiteralToJson(c.default)])

SerializeAst(s) ==
    CASE s.verb = "create table" ->
            [node_type |-> "CreateTableStatement", table |-> s.table,
             columns |-> [i \in DOMAIN s.columns |-> ColumnToJson(s.columns[i])]]
      [] s.verb = "drop table" -> [node_type |-> "DropTableStatement", table |-> s.table]
      [] s.verb = "revert" ->
            [node_type |-> "RevertStatement", table |-> s.table, target_timestamp |-> s.time]
      [] s.verb = "insert" ->
            [node_type |-> "InsertStatement", table |-> s.table, columns |-> s.columns,
             values |-> [i \in DOMAIN s.rows |->
                            [j \in DOMAIN s.rows[i] |-> LiteralToJson(s.rows[i][j])]]]
      [] s.verb = "update" ->
            [node_type |-> "UpdateStatement", table |-> s.table,
             assignments |-> [i \in DOMAIN s.assignments |->
                                 [column |-> s.assignments[i].column,
                                  value  |-> ExpressionToJson(s.assignments[i].expression)]]]
            @@ WhereToJson(s.where)
      [] s.verb = "delete" ->
            [node_type |-> "DeleteStatement", table |-> s.table] @@ WhereToJson(s.where)
      [] s.verb = "select" ->
            [node_type |-> "SelectStatement", table |-> s.table, projections |-> Projections(s.list)]
            @@ WhereToJson(s.where)
-----------------------------------------------------------------------------
(* From JSON *)

LiteralFromJson(json) == [type |-> json.data_type, n |-> json.value]

ExpressionFromJson(json) ==
    CASE json.node_type = "Identifier" -> [kind |-> "column", name |-> json.value]
      [] json.node_type = "AggregateFunction" ->
            [kind |-> "aggregate", function |-> json.function, name |-> json.argument.value]
      [] OTHER -> [kind |-> "literal", literal |-> LiteralFromJson(json)]

ComparisonOperatorFromName(name) ==
    IF name \in {"=", "=="} THEN "=="
    ELSE IF name \in {"!=", "<", ">", "<="} THEN name
    ELSE ">="

RECURSIVE ConditionFromJson(_)
ConditionFromJson(json) ==
    IF json.node_type = "BetweenExpression"
    THEN [kind |-> "between", value |-> ExpressionFromJson(json.value),
          lower |-> ExpressionFromJson(json.lower), upper |-> ExpressionFromJson(json.upper)]
    ELSE CASE json.operator \in {"AND", "OR"} ->
                [kind |-> IF json.operator = "AND" THEN "and" ELSE "or",
                 left |-> ConditionFromJson(json.left), right |-> ConditionFromJson(json.right)]
           [] json.operator = "LIKE" ->
                [kind |-> "like", value |-> ExpressionFromJson(json.left), pattern |-> json.right.value]
           [] OTHER ->
                [kind |-> "comparison", op |-> ComparisonOperatorFromName(json.operator),
                 left |-> ExpressionFromJson(json.left), right |-> ExpressionFromJson(json.right)]

WhereFromJson(json) ==
    IF "where_clause" \in DOMAIN json THEN ConditionFromJson(json.where_clause) ELSE [kind |-> "none"]

SelectItemFromJson(json) ==
    If("alias" \in DOMAIN json, [alias |-> json.alias]) @@ ExpressionFromJson(json)

\* A Wildcard among the projections means all columns.
ListFromJson(projections) ==
    IF \E p \in ToSet(projections) : p.node_type = "Wildcard" THEN <<>>
    ELSE [i \in DOMAIN projections |-> SelectItemFromJson(projections[i])]

ColumnFromJson(json) ==
    [name |-> json.name, type |-> json.data_type,
     notNull |-> "NOT_NULL" \in ToSet(json.modifiers), indexed |-> "INDEXED" \in ToSet(json.modifiers),
     default |-> IF "default_value" \in DOMAIN json THEN LiteralFromJson(json.default_value)
                 ELSE [type |-> "none", n |-> 0]]

DeserializeAst(json) ==
    CASE json.node_type = "CreateTableStatement" ->
            [verb |-> "create table", table |-> json.table,
             columns |-> [i \in DOMAIN json.columns |-> ColumnFromJson(json.columns[i])]]
      [] json.node_type = "DropTableStatement" -> [verb |-> "drop table", table |-> json.table]
      [] json.node_type = "RevertStatement" ->
            [verb |-> "revert", table |-> json.table, time |-> json.target_timestamp]
      [] json.node_type = "InsertStatement" ->
            [verb |-> "insert", table |-> json.table, columns |-> json.columns,
             rows |-> [i \in DOMAIN json.values |->
                          [j \in DOMAIN json.values[i] |-> LiteralFromJson(json.values[i][j])]]]
      [] json.node_type = "UpdateStatement" ->
            [verb |-> "update", table |-> json.table, where |-> WhereFromJson(json),
             assignments |-> [i \in DOMAIN json.assignments |->
                                 [column     |-> json.assignments[i].column,
                                  expression |-> ExpressionFromJson(json.assignments[i].value)]]]
      [] json.node_type = "DeleteStatement" ->
            [verb |-> "delete", table |-> json.table, where |-> WhereFromJson(json)]
      [] json.node_type = "SelectStatement" ->
            [verb |-> "select", table |-> json.table, where |-> WhereFromJson(json),
             list |-> ListFromJson(json.projections)]
=============================================================================

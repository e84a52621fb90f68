----------------------------- MODULE QueryText -----------------------------
(***************************************************************************)
(* How a client writes a statement down, as a sequence of tokens: the      *)
(* language that the server's Parser has to understand.  AND binds closer  *)
(* than OR; where that is not what is meant, there are parentheses.        *)
(***************************************************************************)
EXTENDS Naturals, Sequences, SequencesExt

LOCAL Keyword(w) == <<[type |-> "keyword", value |-> w]>>
LOCAL Name(n) == <<[type |-> "identifier", value |-> n]>>
LOCAL Operator(op) == <<[type |-> "operator", value |-> op]>>
LOCAL Punctuation(s) == <<[type |-> "punctuation", value |-> s]>>

LOCAL InParentheses(text) == Punctuation("(") \o text \o Punctuation(")")

LOCAL WithCommas(texts) ==
    FoldLeft(LAMBDA all, text : all \o Punctuation(",") \o text, Head(texts), Tail(texts))

LOCAL Listed(items, Write(_)) == WithCommas([i \in DOMAIN items |-> Write(items[i])])

LiteralText(l) ==
    IF l.type = "null" THEN Keyword("NULL") ELSE <<[type |-> l.type, value |-> l.n, digits |-> 1]>>

ExpressionText(e) ==
    CASE e.kind = "column" -> Name(e.name)
      [] e.kind = "literal" -> LiteralText(e.literal)
      [] e.kind = "aggregate" -> Keyword(e.function) \o InParentheses(Name(e.name))

RECURSIVE ConditionText(_)
ConditionText(c) ==
    LET factor(d) == IF d.kind = "or" THEN InParentheses(ConditionText(d)) ELSE ConditionText(d)
    IN  CASE c.kind = "comparison" ->
                ExpressionText(c.left) \o Operator(c.op) \o ExpressionText(c.right)
          [] c.kind = "between" ->
                ExpressionText(c.value) \o Keyword("BETWEEN") \o ExpressionText(c.lower)
                \o Keyword("AND") \o ExpressionText(c.upper)
          [] c.kind = "like" ->
                ExpressionText(c.value) \o Keyword("LIKE") \o <<[type |-> "string", value |-> c.pattern]>>
          [] c.kind = "and" -> factor(c.left) \o Keyword("AND") \o factor(c.right)
          [] c.kind = "or" -> ConditionText(c.left) \o Keyword("OR") \o ConditionText(c.right)

WhereText(c) == IF c.kind = "none" THEN <<>> ELSE Keyword("WHERE") \o ConditionText(c)

\* The table is named with its database, or without it, and a semicolon may end
\* a statement.
Qualified == Name("db") \o Punctuation(".") \o Name("t")

LOCAL Named(table) == Name(table.database) \o Punctuation(".") \o Name(table.table)

LOCAL Optional(given, text) == IF given THEN text ELSE <<>>

ColumnText(c) ==
    Name(c.name) \o Keyword(IF c.type = "int" THEN "INT" ELSE "STRING")
    \o Optional(c.notNull, Keyword("NOT_NULL")) \o Optional(c.indexed, Keyword("INDEXED"))
    \o Optional(c.default.type # "none", Keyword("DEFAULT") \o LiteralText(c.default))

ItemText(item) ==
    ExpressionText(item) \o (IF "alias" \in DOMAIN item THEN Keyword("AS") \o Name(item.alias) ELSE <<>>)

\* All the tables of one database need not be written as db.*
ScopeText(scope) ==
    LET part(name) == IF name = "*" THEN Operator("*") ELSE Name(name)
    IN  part(scope.database)
        \o Optional(scope.database = "*" \/ scope.table # "*", Punctuation(".") \o part(scope.table))

TimeText(time) ==
    LET part(i) == <<[type |-> "int", value |-> time[i].n, digits |-> time[i].digits]>>
    IN  part(1) \o Punctuation(".") \o part(2) \o Punctuation(".") \o part(3) \o Punctuation("-")
        \o part(4) \o Punctuation(":") \o part(5) \o Punctuation(":") \o part(6)
        \o Punctuation(".") \o part(7)

RightsText(s, verb, preposition) ==
    Keyword(verb) \o Listed(s.permissions, Keyword) \o Keyword("ON") \o ScopeText(s.scope)
    \o Keyword(preposition) \o Name(s.name)

Text(s) ==
    CASE s.verb = "create table" ->
            Keyword("CREATE") \o Keyword("TABLE") \o Qualified
            \o InParentheses(Listed(s.columns, ColumnText))
      [] s.verb = "drop table" -> Keyword("DROP") \o Keyword("TABLE") \o Name("t")
      [] s.verb = "create database" -> Keyword("CREATE") \o Keyword("DATABASE") \o Name(s.database)
      [] s.verb = "drop database" -> Keyword("DROP") \o Keyword("DATABASE") \o Name(s.database)
      [] s.verb = "use" -> Keyword("USE") \o Name(s.database) \o Punctuation(";")
      [] s.verb = "create user" ->
            Keyword("CREATE") \o Keyword("USER") \o Name(s.name) \o Keyword("PASSWORD")
            \o <<[type |-> "string", value |-> s.password]>>
      [] s.verb = "grant" -> RightsText(s, "GRANT", "TO")
      [] s.verb = "revoke" -> RightsText(s, "REVOKE", "FROM")
      [] s.verb = "revert" -> Keyword("REVERT") \o Named(s.table) \o TimeText(s.time)
      [] s.verb = "insert" ->
            Keyword("INSERT") \o Keyword("INTO") \o Qualified \o InParentheses(Listed(s.columns, Name))
            \o Keyword("VALUE")
            \o Listed(s.rows, LAMBDA line : InParentheses(Listed(line, LiteralText)))
      [] s.verb = "update" ->
            Keyword("UPDATE") \o Name("t") \o Keyword("SET")
            \o Listed(s.assignments,
                      LAMBDA a : Name(a.column) \o Operator("=") \o ExpressionText(a.expression))
            \o WhereText(s.where)
      [] s.verb = "delete" ->
            Keyword("DELETE") \o Keyword("FROM") \o Name("t") \o WhereText(s.where) \o Punctuation(";")
      [] s.verb = "select" ->
            Keyword("SELECT")
            \o (IF s.list = <<>> THEN Operator("*") ELSE Listed(s.list, ItemText))
            \o Keyword("FROM") \o Qualified \o WhereText(s.where)
=============================================================================

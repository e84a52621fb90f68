------------------------------- MODULE Parser -------------------------------
(***************************************************************************)
(* The Parser and the Analyzer of the Entrypoint server: from a sequence   *)
(* of tokens to a statement.                                               *)
(*                                                                         *)
(* A token is [type, value], the value of a literal being its number, or   *)
(* the place of its text in the order of texts; a number also has the      *)
(* count of its digits.  The class moves a position over its tokens and    *)
(* throws ParseError; here a parse is what was read and the tokens that    *)
(* are left, or Failed.                                                    *)
(***************************************************************************)
EXTENDS Naturals, Sequences, SequencesExt

Parsed(node, rest) == [ok |-> TRUE, node |-> node, rest |-> rest]
Failed == [ok |-> FALSE]
Then(parse, Continue(_, _)) == IF parse.ok THEN Continue(parse.node, parse.rest) ELSE Failed

HasType(ts, type) == ts # <<>> /\ Head(ts).type = type
Match(ts, type, value) == HasType(ts, type) /\ Head(ts).value = value

Expect(ts, type, value) == IF Match(ts, type, value) THEN Parsed(value, Tail(ts)) ELSE Failed

Skip(ts, sign) == IF Match(ts, "punctuation", sign) THEN Tail(ts) ELSE ts

\* The keywords or signs of a fixed phrase, one after another.
ExpectAll(ts, phrase) ==
    FoldLeft(LAMBDA parse, token :
                 Then(parse, LAMBDA n, rest : Expect(rest, token.type, token.value)),
             Parsed("", ts), phrase)

Word(w) == [type |-> "keyword", value |-> w]
Sign(s) == [type |-> "punctuation", value |-> s]
-----------------------------------------------------------------------------
ParseIdentifier(ts) ==
    IF HasType(ts, "identifier") THEN Parsed(Head(ts).value, Tail(ts)) ELSE Failed

ParseTableRef(ts) ==
    Then(ParseIdentifier(ts), LAMBDA first, rest :
         IF Match(rest, "punctuation", ".")
         THEN Then(ParseIdentifier(Tail(rest)), LAMBDA second, end :
                   Parsed([database |-> first, table |-> second], end))
         ELSE Parsed([database |-> "", table |-> first], rest))

ParseLiteral(ts) ==
    IF HasType(ts, "string") \/ HasType(ts, "int")
    THEN Parsed([type |-> Head(ts).type, n |-> Head(ts).value], Tail(ts))
    ELSE IF Match(ts, "keyword", "NULL") THEN Parsed([type |-> "null", n |-> 0], Tail(ts))
    ELSE Failed

\* An expression is of kind "column", "literal" or "aggregate".
ParseValue(ts) ==
    IF HasType(ts, "identifier")
    THEN Then(ParseIdentifier(ts), LAMBDA name, rest : Parsed([kind |-> "column", name |-> name], rest))
    ELSE Then(ParseLiteral(ts), LAMBDA l, rest : Parsed([kind |-> "literal", literal |-> l], rest))

ParseExpression(ts) ==
    IF \E f \in {"SUM", "COUNT", "AVG"} : Match(ts, "keyword", f)
    THEN Then(ExpectAll(Tail(ts), <<Sign("(")>>), LAMBDA open, arg :
         Then(ParseIdentifier(arg), LAMBDA name, close :
         Then(ExpectAll(close, <<Sign(")")>>), LAMBDA n, rest :
              Parsed([kind |-> "aggregate", function |-> Head(ts).value, name |-> name], rest))))
    ELSE ParseValue(ts)
-----------------------------------------------------------------------------
(* Conditions.  AND binds closer than OR, and both group to the left. *)

Operators == {"==", "!=", "<", ">", "<=", ">="}

\* What may follow the first value of a predicate.
ParseBetween(value, ts) ==
    Then(ParseValue(ts), LAMBDA lower, and :
    Then(ExpectAll(and, <<Word("AND")>>), LAMBDA n, next :
    Then(ParseValue(next), LAMBDA upper, rest :
         Parsed([kind |-> "between", value |-> value, lower |-> lower, upper |-> upper], rest))))

ParseLike(value, ts) ==
    IF HasType(ts, "string")
    THEN Parsed([kind |-> "like", value |-> value, pattern |-> Head(ts).value], Tail(ts))
    ELSE Failed

ParseComparison(value, op, ts) ==
    Then(ParseValue(ts), LAMBDA right, rest :
         IF op \in Operators
         THEN Parsed([kind |-> "comparison", left |-> value, op |-> op, right |-> right], rest)
         ELSE Failed)

RECURSIVE ParseOrCondition(_), MoreOr(_, _), ParseAndCondition(_), MoreAnd(_, _), ParsePredicate(_)

ParsePredicate(ts) ==
    IF Match(ts, "punctuation", "(")
    THEN Then(ParseOrCondition(Tail(ts)), LAMBDA condition, close :
         Then(ExpectAll(close, <<Sign(")")>>), LAMBDA n, rest : Parsed(condition, rest)))
    ELSE Then(ParseValue(ts), LAMBDA value, rest :
         IF Match(rest, "keyword", "BETWEEN") THEN ParseBetween(value, Tail(rest))
         ELSE IF Match(rest, "keyword", "LIKE") THEN ParseLike(value, Tail(rest))
         ELSE IF HasType(rest, "operator") THEN ParseComparison(value, Head(rest).value, Tail(rest))
         ELSE Failed)

MoreAnd(left, ts) ==
    IF ~Match(ts, "keyword", "AND") THEN Parsed(left, ts)
    ELSE Then(ParsePredicate(Tail(ts)), LAMBDA right, rest :
              MoreAnd([kind |-> "and", left |-> left, right |-> right], rest))

ParseAndCondition(ts) == Then(ParsePredicate(ts), LAMBDA first, rest : MoreAnd(first, rest))

MoreOr(left, ts) ==
    IF ~Match(ts, "keyword", "OR") THEN Parsed(left, ts)
    ELSE Then(ParseAndCondition(Tail(ts)), LAMBDA right, rest :
              MoreOr([kind |-> "or", left |-> left, right |-> right], rest))

ParseOrCondition(ts) == Then(ParseAndCondition(ts), LAMBDA first, rest : MoreOr(first, rest))

ParseCondition(ts) == ParseOrCondition(ts)

\* A WHERE that must be there, and what is built of it.
ParseWhere(ts, Build(_)) ==
    Then(ExpectAll(ts, <<Word("WHERE")>>), LAMBDA n, condition :
    Then(ParseCondition(condition), LAMBDA where, rest : Parsed(Build(where), rest)))
-----------------------------------------------------------------------------
(* Statements *)

\* One or more items with commas between them; there are fewer items than tokens.
ParseList(ts, ParseItem(_)) ==
    FoldLeft(LAMBDA parse, token :
                 Then(parse, LAMBDA items, next :
                     IF ~Match(next, "punctuation", ",") THEN parse
                     ELSE Then(ParseItem(Tail(next)), LAMBDA item, rest :
                               Parsed(Append(items, item), rest))),
             Then(ParseItem(ts), LAMBDA first, rest : Parsed(<<first>>, rest)),
             ts)

ParseGroup(ts, ParseItem(_)) ==
    Then(ExpectAll(ts, <<Sign("(")>>), LAMBDA n, inner :
    Then(ParseList(inner, ParseItem), LAMBDA items, close :
    Then(ExpectAll(close, <<Sign(")")>>), LAMBDA m, rest : Parsed(items, rest))))

\* A modifier that may be there: whether it is, and what follows.
Modifier(ts, word) ==
    IF Match(ts, "keyword", word) THEN Parsed(TRUE, Tail(ts)) ELSE Parsed(FALSE, ts)

NoDefault == [type |-> "none", n |-> 0]

ParseDefault(ts) ==
    IF Match(ts, "keyword", "DEFAULT") THEN ParseLiteral(Tail(ts)) ELSE Parsed(NoDefault, ts)

ParseColumnType(ts) ==
    CASE Match(ts, "keyword", "INT") -> Parsed("int", Tail(ts))
      [] Match(ts, "keyword", "STRING") -> Parsed("string", Tail(ts))
      [] OTHER -> Failed

ParseColumnDefinition(ts) ==
    Then(ParseIdentifier(ts), LAMBDA name, type :
    Then(ParseColumnType(type), LAMBDA columnType, modifiers :
    Then(Modifier(modifiers, "NOT_NULL"), LAMBDA notNull, next :
    Then(Modifier(next, "INDEXED"), LAMBDA indexed, last :
    Then(ParseDefault(last), LAMBDA default, rest :
         Parsed([name |-> name, type |-> columnType, notNull |-> notNull, indexed |-> indexed,
                 default |-> default], rest))))))

ParseCreateTable(ts) ==
    Then(ParseTableRef(ts), LAMBDA table, group :
    Then(ParseGroup(group, ParseColumnDefinition), LAMBDA columns, rest :
         Parsed([verb |-> "create table", table |-> table, columns |-> columns], rest)))

ParseCreateUser(ts) ==
    Then(ParseIdentifier(ts), LAMBDA name, phrase :
    Then(ExpectAll(phrase, <<Word("PASSWORD")>>), LAMBDA n, password :
         IF HasType(password, "string")
         THEN Parsed([verb |-> "create user", name |-> name, password |-> Head(password).value],
                     Tail(password))
         ELSE Failed))

\* What is built of a name that must follow.
ParseNamed(ts, Build(_)) ==
    Then(ParseIdentifier(ts), LAMBDA name, rest : Parsed(Build(name), rest))

ParseCreateStatement(ts) ==
    LET rest == Tail(Tail(ts)) IN
    CASE Match(Tail(ts), "keyword", "DATABASE") ->
            ParseNamed(rest, LAMBDA name : [verb |-> "create database", database |-> name])
      [] Match(Tail(ts), "keyword", "USER") -> ParseCreateUser(rest)
      [] Match(Tail(ts), "keyword", "TABLE") -> ParseCreateTable(rest)
      [] OTHER -> Failed

ParseDropStatement(ts) ==
    LET rest == Tail(Tail(ts)) IN
    CASE Match(Tail(ts), "keyword", "DATABASE") ->
            ParseNamed(rest, LAMBDA name : [verb |-> "drop database", database |-> name])
      [] Match(Tail(ts), "keyword", "TABLE") ->
            Then(ParseTableRef(rest), LAMBDA table, end :
                 Parsed([verb |-> "drop table", table |-> table], end))
      [] OTHER -> Failed

ParseUseStatement(ts) ==
    ParseNamed(Tail(ts), LAMBDA name : [verb |-> "use", database |-> name])

PermissionWords == {"READ", "WRITE", "CREATE", "DELETE"}

ParsePermission(ts) ==
    IF \E p \in PermissionWords : Match(ts, "keyword", p) THEN Parsed(Head(ts).value, Tail(ts))
    ELSE Failed

ParseScopePart(ts) ==
    IF Match(ts, "operator", "*") THEN Parsed("*", Tail(ts)) ELSE ParseIdentifier(ts)

\* One name is that of a database, with all its tables.
ParseAccessScope(ts) ==
    Then(ParseScopePart(ts), LAMBDA first, rest :
         IF Match(rest, "punctuation", ".")
         THEN Then(ParseScopePart(Tail(rest)), LAMBDA second, end :
                   Parsed([database |-> first, table |-> second], end))
         ELSE Parsed([database |-> first, table |-> "*"], rest))

\* GRANT ... TO and REVOKE ... FROM
ParseRightsStatement(ts, verb, preposition) ==
    Then(ParseList(Tail(ts), ParsePermission), LAMBDA permissions, on :
    Then(ExpectAll(on, <<Word("ON")>>), LAMBDA n, where :
    Then(ParseAccessScope(where), LAMBDA scope, to :
    Then(ExpectAll(to, <<Word(preposition)>>), LAMBDA m, name :
         ParseNamed(name, LAMBDA user :
             [verb |-> verb, permissions |-> permissions, scope |-> scope, name |-> user])))))

ParseTimestampPart(ts, length) ==
    IF HasType(ts, "int") /\ Head(ts).digits = length
    THEN Parsed([n |-> Head(ts).value, digits |-> length], Tail(ts))
    ELSE Failed

\* The length of each part, and the sign before it.
TimestampParts == << <<4, "">>, <<2, ".">>, <<2, ".">>, <<2, "-">>, <<2, ":">>, <<2, ":">>, <<3, ".">> >>

ParseTimestamp(ts) ==
    FoldLeft(LAMBDA parse, part :
                 Then(parse, LAMBDA parts, sign :
                 Then(IF part[2] = "" THEN Parsed("", sign) ELSE ExpectAll(sign, <<Sign(part[2])>>),
                      LAMBDA n, number :
                 Then(ParseTimestampPart(number, part[1]), LAMBDA value, rest :
                      Parsed(Append(parts, value), rest)))),
             Parsed(<<>>, ts), TimestampParts)

ParseRevertStatement(ts) ==
    Then(ParseTableRef(Tail(ts)), LAMBDA table, time :
    Then(ParseTimestamp(time), LAMBDA stamp, rest :
         Parsed([verb |-> "revert", table |-> table, time |-> stamp], rest)))

\* A comma is skipped before every line, the first one included.
ParseInsertStatement(ts) ==
    Then(ExpectAll(ts, <<Word("INSERT"), Word("INTO")>>), LAMBDA n, into :
    Then(ParseTableRef(into), LAMBDA table, group :
    Then(ParseGroup(group, ParseIdentifier), LAMBDA columns, value :
    Then(ExpectAll(value, <<Word("VALUE")>>), LAMBDA m, lines :
    Then(ParseList(Skip(lines, ","), LAMBDA line : ParseGroup(line, ParseLiteral)), LAMBDA rows_, rest :
         Parsed([verb |-> "insert", table |-> table, columns |-> columns, rows |-> rows_], rest))))))

ParseAssignment(ts) ==
    Then(ParseIdentifier(ts), LAMBDA column, op :
    Then(Expect(op, "operator", "="), LAMBDA n, value :
    Then(ParseValue(value), LAMBDA expression, rest :
         Parsed([column |-> column, expression |-> expression], rest))))

ParseUpdateStatement(ts) ==
    Then(ExpectAll(ts, <<Word("UPDATE")>>), LAMBDA n, ref :
    Then(ParseTableRef(ref), LAMBDA table, set :
    Then(ExpectAll(set, <<Word("SET")>>), LAMBDA m, list :
    Then(ParseList(list, ParseAssignment), LAMBDA assignments, rest :
         ParseWhere(rest, LAMBDA where :
             [verb |-> "update", table |-> table, assignments |-> assignments, where |-> where])))))

ParseDeleteStatement(ts) ==
    Then(ExpectAll(ts, <<Word("DELETE"), Word("FROM")>>), LAMBDA n, ref :
    Then(ParseTableRef(ref), LAMBDA table, rest :
         ParseWhere(rest, LAMBDA where : [verb |-> "delete", table |-> table, where |-> where])))

ParseSelectItem(ts) ==
    Then(ParseExpression(ts), LAMBDA e, rest :
         IF Match(rest, "keyword", "AS")
         THEN ParseNamed(Tail(rest), LAMBDA alias : [alias |-> alias] @@ e)
         ELSE Parsed(e, rest))

\* No WHERE is [kind |-> "none"]; the list <<>> stands for *.
ParseSelectStatement(ts) ==
    Then(ExpectAll(ts, <<Word("SELECT")>>), LAMBDA n, projections :
    Then(IF Match(projections, "operator", "*") THEN Parsed(<<>>, Tail(projections))
         ELSE ParseList(projections, ParseSelectItem), LAMBDA list, from :
    Then(ExpectAll(from, <<Word("FROM")>>), LAMBDA m, ref :
    Then(ParseTableRef(ref), LAMBDA table, rest :
         LET select(where) == [verb |-> "select", list |-> list, table |-> table, where |-> where]
         IN  IF Match(rest, "keyword", "WHERE") THEN ParseWhere(rest, select)
             ELSE Parsed(select([kind |-> "none"]), rest)))))

ParseStatement(ts) ==
    LET parse ==
            CASE Match(ts, "keyword", "CREATE") -> ParseCreateStatement(ts)
              [] Match(ts, "keyword", "DROP") -> ParseDropStatement(ts)
              [] Match(ts, "keyword", "USE") -> ParseUseStatement(ts)
              [] Match(ts, "keyword", "GRANT") -> ParseRightsStatement(ts, "grant", "TO")
              [] Match(ts, "keyword", "REVOKE") -> ParseRightsStatement(ts, "revoke", "FROM")
              [] Match(ts, "keyword", "REVERT") -> ParseRevertStatement(ts)
              [] Match(ts, "keyword", "INSERT") -> ParseInsertStatement(ts)
              [] Match(ts, "keyword", "UPDATE") -> ParseUpdateStatement(ts)
              [] Match(ts, "keyword", "DELETE") -> ParseDeleteStatement(ts)
              [] Match(ts, "keyword", "SELECT") -> ParseSelectStatement(ts)
              [] OTHER -> Failed
    IN  Then(parse, LAMBDA statement, rest :
             IF Skip(rest, ";") = <<>> THEN Parsed(statement, <<>>) ELSE Failed)
-----------------------------------------------------------------------------
(* The Analyzer *)

ValidateCreateTable(create) ==
    /\ IsInjective([i \in DOMAIN create.columns |-> create.columns[i].name])
    /\ \A c \in ToSet(create.columns) :
         c.default.type \in {"none", c.type} \union (IF c.notNull THEN {} ELSE {"null"})

ValidateInsert(insert) ==
    /\ IsInjective(insert.columns)
    /\ \A line \in ToSet(insert.rows) : Len(line) = Len(insert.columns)

ValidateStatement(statement) ==
    CASE statement.verb = "create table" -> ValidateCreateTable(statement)
      [] statement.verb = "insert" -> ValidateInsert(statement)
      [] OTHER -> TRUE
=============================================================================

----------------------------- MODULE QueryPath -----------------------------
(***************************************************************************)
(* A statement about one table on its way through the system: the server   *)
(* parses and validates it and serializes it, the storage process of the   *)
(* table deserializes and executes it, and the client has its reply.       *)
(*                                                                         *)
(* The storage process serves one request at a time, so a statement is one *)
(* action; which statements of several clients come first is open, and     *)
(* what they do to each other's CREATE and DROP is the subject of module   *)
(* Cluster.  Of a statement that another part of the system executes, the  *)
(* handlers of the server (modules Server and Cluster) or the journal      *)
(* (module Table), the reply here is the statement as that part is handed  *)
(* it.                                                                     *)
(***************************************************************************)
EXTENDS Executor, Parser, Ast, QueryText

CONSTANT Statements \* what clients mean by what they write, numbered: a sequence

VARIABLE request \* the statement that reply answers, 0 for none

vars == <<schema, rows, count, pool, reply, request>>

NoRequest == 0

NotSent == [verb |-> "none"]

\* The statements that the server executes itself.
IsServers(s) == s.verb \in {"create database", "drop database", "use", "create user", "grant", "revoke"}

\* What becomes of a parsed statement.  Nothing is thrown before it is on its way.
Sent(parse) ==
    CASE ~parse.ok \/ (parse.ok /\ ~ValidateStatement(parse.node)) -> NotSent
      [] OTHER -> IF IsServers(parse.node) THEN parse.node
                  ELSE IF Serializable(parse.node) THEN DeserializeAst(SerializeAst(parse.node))
                  ELSE NotSent

Received == [s \in DOMAIN Statements |-> Sent(ParseStatement(Text(Statements[s])))]
-----------------------------------------------------------------------------
(* CREATE TABLE and DROP TABLE *)

\* The constructor of Column makes INDEXED columns NOT_NULL, and throws when NULL
\* is the default of such a column.
IsNotNull(c) == c.notNull \/ c.indexed
DefaultIsValid(c) == c.default.type \in {"none", c.type} \union (IF IsNotNull(c) THEN {} ELSE {"null"})

ToSchema(columns) ==
    LET names == [i \in DOMAIN columns |-> columns[i].name]
        named(P(_)) == {columns[i].name : i \in {j \in DOMAIN columns : P(columns[j])}}
        place(name) == CHOOSE i \in DOMAIN columns : names[i] = name
    IN  [columns |-> names,
         names   |-> ToSet(names),
         type    |-> [n \in ToSet(names) |-> columns[place(n)].type],
         indexed |-> named(LAMBDA c : c.indexed),
         notNull |-> named(IsNotNull),
         default |-> [n \in named(LAMBDA c : c.default.type # "none") |-> columns[place(n)].default]]

NoSchema == ToSchema(<<>>)
HasTable == schema # NoSchema

CreateTable(statement) ==
    /\ ~HasTable
    /\ \A c \in ToSet(statement.columns) : DefaultIsValid(c)
    /\ schema' = ToSchema(statement.columns)
    /\ reply' = Affected(0)
    /\ UNCHANGED <<rows, count, pool>>

\* The files of the table go, that of the Interner among them, and the process.
DropTable ==
    /\ schema' = NoSchema
    /\ rows' = [id \in Ids |-> Absent]
    /\ count' = 0
    /\ pool' = <<>>
    /\ reply' = Affected(0)

HandOver(statement) ==
    /\ reply' = [status |-> "handed over", result |-> statement]
    /\ UNCHANGED <<schema, rows, count, pool>>
-----------------------------------------------------------------------------
Init ==
    /\ schema = NoSchema
    /\ rows = [id \in Ids |-> Absent]
    /\ count = 0
    /\ pool = <<>>
    /\ reply = NoReply
    /\ request = NoRequest

\* ExecuteAst, for a statement that the server has sent.
Serve(s, statement) ==
    /\ request = NoRequest
    /\ \/ statement.verb = "create table" /\ CreateTable(statement)
       \/ statement.verb = "drop table" /\ HasTable /\ DropTable
       \/ IsServers(statement) /\ HandOver(statement)
       \/ statement.verb = "revert" /\ HasTable /\ HandOver(statement)
       \/ /\ statement.verb \in {"insert", "update", "delete", "select"}
          /\ HasTable /\ Execute(statement)
    /\ request' = s

\* An exception in HandleExecute ends in Process, one in ExecuteAst there; a table
\* that the catalog does not have is answered by the router.
Refused(statement) ==
    \/ statement = NotSent
    \/ /\ statement.verb = "create table"
       /\ HasTable \/ \E c \in ToSet(statement.columns) : ~DefaultIsValid(c)
    \/ statement.verb # "create table" /\ ~IsServers(statement) /\ ~HasTable

Refuse(s, statement) ==
    /\ request = NoRequest
    /\ Refused(statement)
    /\ reply' = Error
    /\ request' = s
    /\ UNCHANGED <<schema, rows, count, pool>>

Ask(s, statement) == Serve(s, statement) \/ Refuse(s, statement)

\* The reply is sent before the next request is read.
Respond ==
    /\ request # NoRequest
    /\ request' = NoRequest
    /\ reply' = NoReply
    /\ UNCHANGED <<schema, rows, count, pool>>

Next ==
    \/ \E s \in DOMAIN Statements : Ask(s, Received[s])
    \/ Respond

Spec == Init /\ [][Next]_vars
-----------------------------------------------------------------------------
(* Properties *)

\* The values a column can hold: a StringId is one that has a text.
ValuesOf(c) ==
    (IF ColumnType[c] = "int" THEN {IntValue(i) : i \in 0 .. MaxInt}
     ELSE {StringValue(id) : id \in StringIds(pool)})
    \union (IF c \in NotNull THEN {} ELSE {Null})

\* Rows hold values of their columns, the values of an INDEXED column differ, and
\* no two StringIds have the same text.
TypeOK ==
    /\ count \in 0 .. MaxId
    /\ reply.status \in {"success", "error", "handed over", "none"}
    /\ ColumnType \in [ColumnSet -> {"int", "string"}]
    /\ Indexed \subseteq NotNull /\ NotNull \subseteq ColumnSet
    /\ \A c \in DOMAIN Default : Default[c].type = ColumnType[c] \/ (IsNull(Default[c]) /\ c \notin NotNull)
    /\ IsInjective(pool)
    /\ \A id \in Live(rows) : id < count /\ \A c \in ColumnSet : rows[id][c] \in ValuesOf(c)
    /\ \A c \in Indexed, i, j \in Live(rows) : rows[i][c] = rows[j][c] => i = j

\* The statements mean what module QueryLanguage says of texts and numbers: no
\* definition of a table, no answer and no change depends on the tokens and the
\* JSON between client and table, on ids, on an index, or on the order in which
\* rows are visited and strings were first seen (BETWEEN over strings apart), and
\* what is handed over is what the client wrote.
Texts == [id \in Ids |-> IF rows[id] = Absent THEN Absent
                         ELSE [c \in ColumnSet |-> Shown(rows[id][c], pool)]]

Language == INSTANCE QueryLanguage WITH rows <- Texts

ImplementsQueryLanguage == Language!Spec
=============================================================================

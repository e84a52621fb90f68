----------------------------- MODULE MCQueryPath -----------------------------
(* QueryPath for TLC.  A table has a STRING column k with an index and a plain *)
(* INT column v, or a column v with an index only.                             *)
EXTENDS QueryPath

CONSTANT absent

Number(i) == [type |-> "int", n |-> i]
Str(t) == [type |-> "string", n |-> t]

Lit(l) == [kind |-> "literal", literal |-> l]
Col(c) == [kind |-> "column", name |-> c]

Column(name, type) ==
    [name |-> name, type |-> type, notNull |-> FALSE, indexed |-> FALSE, default |-> NoDefault]
K == [Column("k", "string") EXCEPT !.indexed = TRUE]
V == [Column("v", "int") EXCEPT !.default = Number(1)]

MCDefinitions ==
    {<<K, V>>, <<[V EXCEPT !.notNull = TRUE, !.indexed = TRUE, !.default = NoDefault]>>,
     \* refused
     <<K, V, K>>, <<[K EXCEPT !.default = Null]>>,
     <<V, [Column("w", "int") EXCEPT !.notNull = TRUE, !.default = Null]>>,
     <<[V EXCEPT !.default = Str(1)]>>, <<[K EXCEPT !.default = Number(1)]>>,
     <<[V EXCEPT !.default = Number(9)]>>}

Part(n, digits) == [n |-> n, digits |-> digits]
MCTimes ==
    {<<Part(2025, 4), Part(1, 2), Part(2, 2), Part(3, 2), Part(4, 2), Part(5, 2), Part(ms, digits)>> :
        ms \in {6}, digits \in {3, 2}}

Rights(verb, permissions, database, table) ==
    [verb |-> verb, permissions |-> permissions, scope |-> [database |-> database, table |-> table],
     name |-> "ann"]

MCOthers ==
    {[verb |-> verb, database |-> "db"] : verb \in {"create database", "drop database", "use"}}
    \union {[verb |-> "revert", table |-> [database |-> "db", table |-> "t"], time |-> time] :
               time \in MCTimes}
    \union {[verb |-> "create user", name |-> "ann", password |-> "secret"],
            [verb |-> "drop table"],
            Rights("grant", <<"READ", "WRITE">>, "db", "t"), Rights("grant", <<"CREATE">>, "*", "*"),
            Rights("revoke", <<"DELETE", "READ">>, "db", "*"), Rights("grant", <<"DROP">>, "db", "t")}

Cmp(left, op, right) == [kind |-> "comparison", left |-> left, op |-> op, right |-> right]
Between(x, lower, upper) == [kind |-> "between", value |-> x, lower |-> lower, upper |-> upper]
Matches(x, pattern) == [kind |-> "like", value |-> x, pattern |-> pattern]
And(l, r) == [kind |-> "and", left |-> l, right |-> r]
Or(l, r) == [kind |-> "or", left |-> l, right |-> r]

Ops == {"==", "!=", "<", ">", "<=", ">="}

MCConditions ==
    {NoWhere}
    \union {Cmp(Col("k"), op, Lit(Str(2))) : op \in Ops}
    \union {Cmp(Lit(Number(1)), op, Col("v")) : op \in Ops}
    \union {Cmp(Col("k"), "==", Lit(Str(t))) : t \in {1, 3}}
    \union {Cmp(Col("v"), "==", Lit(Null)), Cmp(Col("k"), "==", Lit(Number(1))),
            Cmp(Col("v"), "<", Lit(Number(9))), Cmp(Col("w"), "==", Lit(Number(1))),
            Between(Col("v"), Lit(Number(1)), Lit(Number(1))), Between(Col("k"), Lit(Str(1)), Lit(Str(3))),
            Between(Col("v"), Lit(Number(2)), Lit(Number(1))),
            Matches(Col("k"), {1, 3}), Matches(Col("v"), {1}),
            And(Between(Col("v"), Lit(Number(0)), Lit(Number(1))), Cmp(Col("k"), "!=", Lit(Str(2)))),
            And(Cmp(Col("v"), ">=", Lit(Number(1))), Cmp(Col("k"), "==", Lit(Str(1)))),
            And(Cmp(Lit(Str(2)), "==", Col("k")), Cmp(Col("v"), "!=", Lit(Number(1)))),
            Or(Cmp(Col("k"), "==", Lit(Str(1))), Cmp(Col("v"), "==", Lit(Number(2)))),
            Or(Cmp(Col("k"), "==", Lit(Str(3))), Cmp(Col("v"), "==", Lit(Str(1)))),
            Or(Cmp(Col("k"), "==", Lit(Str(3))),
               And(Cmp(Col("v"), ">", Lit(Number(1))), Cmp(Col("k"), "!=", Lit(Str(1))))),
            And(Or(Cmp(Col("v"), "<", Lit(Number(2))), Matches(Col("k"), {2})),
                Cmp(Lit(Str(1)), "==", Col("k")))}

MCInserts ==
    {[columns |-> <<"k", "v">>, rows |-> <<<<Str(t), l>>>>] : t \in 1 .. 3, l \in {Number(2), Null}}
    \union {[columns |-> <<"k">>, rows |-> <<<<Str(t)>>, <<Str(u)>>>>] : t, u \in 1 .. 2}
    \union {[columns |-> <<"v", "k">>, rows |-> <<<<Number(1), Str(2)>>, <<Number(9), Str(1)>>>>],
            [columns |-> <<"v">>, rows |-> <<<<Number(1)>>>>],
            [columns |-> <<"v", "k">>, rows |-> <<<<Number(1), Str(3)>>, <<Str(2)>>>>],
            [columns |-> <<"k", "v", "k">>, rows |-> <<<<Str(1), Null, Str(2)>>>>],
            [columns |-> <<"k", "w">>, rows |-> <<<<Str(3), Null>>>>],
            [columns |-> <<"v", "k">>, rows |-> <<<<Str(3), Str(1)>>>>]}

Set(c, e) == [column |-> c, expression |-> e]
MCAssignments ==
    {<<Set("k", Lit(Str(3)))>>, <<Set("v", Lit(Null))>>, <<Set("v", Lit(Number(9)))>>,
            <<Set("k", Col("v"))>>, <<Set("v", Lit(Number(2))), Set("w", Lit(Number(1)))>>,
            <<Set("v", Lit(Number(1))), Set("v", Col("v"))>>}

Of(f, c) == [kind |-> "aggregate", function |-> f, name |-> c]
MCSelections ==
    {<<Col("v")>>, <<Col("w")>>, <<Lit(Number(1))>>, <<Of("COUNT", "v"), Of("SUM", "v")>>,
     <<Of("AVG", "v")>>, <<[alias |-> "v"] @@ Col("k"), [alias |-> "k"] @@ Col("v"), Col("k")>>,
     <<[alias |-> "n"] @@ Of("COUNT", "k"), [alias |-> "n"] @@ Of("SUM", "v")>>, <<Of("SUM", "k")>>, <<Of("COUNT", "k"), Col("v")>>}

InSomeOrder(set) == FoldSet(LAMBDA x, all : Append(all, x), <<>>, set)

\* Some conditions are for statements of every form, the others for SELECT *,
\* DELETE and two UPDATEs.
MCFewConditions ==
    {NoWhere, Cmp(Col("k"), "==", Lit(Str(1))), Cmp(Col("k"), "!=", Lit(Str(2))),
     Cmp(Lit(Number(1)), "<=", Col("v")), Cmp(Col("w"), "==", Lit(Number(1)))}

ForEach(conditions, forms, Statement(_, _)) ==
    LET clauses == InSomeOrder(conditions)
        variants == InSomeOrder(forms)
    IN  FlattenSeq([i \in DOMAIN variants |->
                       [j \in DOMAIN clauses |-> Statement(variants[i], clauses[j])]])

CreateOf(columns) == [verb |-> "create table", columns |-> columns]
InsertOf(i) == [verb |-> "insert", columns |-> i.columns, rows |-> i.rows]
UpdateOf(a, c) == [verb |-> "update", assignments |-> a, where |-> c]
SelectOf(l, c) == [verb |-> "select", list |-> l, where |-> c]
DeleteOf(v, c) == [verb |-> v, where |-> c]

MCStatements ==
    InSomeOrder({CreateOf(columns) : columns \in MCDefinitions})
    \o InSomeOrder(MCOthers)
    \o InSomeOrder({InsertOf(i) : i \in MCInserts})
    \o ForEach(MCConditions, {"delete"}, DeleteOf)
    \o ForEach(MCConditions, {<<>>}, SelectOf)
    \o ForEach(MCFewConditions, MCSelections, SelectOf)
    \o ForEach(MCConditions, {<<Set("k", Lit(Str(1)))>>, <<Set("v", Lit(Number(2)))>>}, UpdateOf)
    \o ForEach(MCFewConditions, MCAssignments, UpdateOf)
=============================================================================

------------------------------ MODULE MCServer ------------------------------
(* The server with two connections, a superuser and a user, one database. *)
EXTENDS Server, TLC

CONSTANTS root, ann, shop, items, star, nobody, none, c1, c2

OnShop == [user |-> ann, database |-> shop, table |-> items]
OnAll == [user |-> root, database |-> star, table |-> star]

\* The first start, and a later one.
SetUp == [accounts |-> [names |-> {Account(root), Account(ann)}, rules |-> <<>>],
          rules |-> [names |-> {}, rules |-> <<[scope |-> OnShop, permissions |-> {"READ"}],
                                               [scope |-> OnAll, permissions |-> Permissions]>>],
          databases |-> [names |-> {Database(shop)}, rules |-> <<>>]]
MCStores == {[f \in Files |-> NoContent], SetUp}

OnTable(kind, database) == [kind |-> kind, database |-> database, table |-> items]
OnRule(kind, permissions) == [kind |-> kind, name |-> ann, database |-> shop, table |-> items,
                              permissions |-> permissions]
\* One of the four is enough for a setup to stop before it.
MCAllPermissions == <<"CREATE">>

\* The connections are alike.
Symmetry == Permutations(Threads)

MCStatements == {
    [kind |-> "create user", name |-> ann],
    OnRule("grant", <<"READ", "WRITE">>), OnRule("revoke", <<"READ">>),
    [kind |-> "use", database |-> shop],
    [kind |-> "create database", database |-> shop], [kind |-> "drop database", database |-> shop],
    OnTable("select", none), OnTable("insert", shop), OnTable("select aggregate", shop),
    OnTable("create table", shop)}
=============================================================================

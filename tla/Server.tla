------------------------------- MODULE Server -------------------------------
(***************************************************************************)
(* The Entrypoint's Application with its clients: the command line clients *)
(* connect, set up the first account or log in, and send queries; a thread *)
(* per connection authenticates each, checks the right to it, and executes *)
(* it on the accounts, the rules or the router, or as a background task    *)
(* that the client polls.  The server may be killed and started again.     *)
(*                                                                         *)
(* A client waits for the answer to each request, so a connection has one  *)
(* request under way.  Authentication is on (no --no-auth).  Router::Route *)
(* is module Cluster, the parser module Parser, the pool behind the tasks  *)
(* module TaskProcessor.                                                   *)
(***************************************************************************)
EXTENDS JsonFiles

CONSTANTS Nobody,      \* no user
          NoDatabase,  \* no database named or selected
          Statements,  \* the statements that clients send
          AllPermissions, \* what GrantAll grants, one after the other
          Stores,      \* what the files may hold when the server is first started
          MaxRequests, \* bound: connections, setups and queries
          MaxAttempts, \* max_attempts of PollTask
          MaxKills     \* bound: kills of the server

\* A statement as the parser hands it over.
StatementType ==
    [kind : {"create user"}, name : Users]
    \union [kind : {"use", "create database", "drop database"}, database : Databases]
    \union [kind : {"grant", "revoke"}, name : Users, database : Databases \union {Star},
            table : Tables \union {Star}, permissions : Seq(Permissions)]
    \union [kind : {"select", "select aggregate", "insert", "update", "delete", "revert",
                    "create table", "drop table"},
            database : Databases \union {NoDatabase}, table : Tables]

ASSUME ServerAssumption ==
    /\ Nobody \notin Users
    /\ NoDatabase \notin Databases \union {Star}
    /\ Statements \subseteq StatementType
    /\ AllPermissions \in Seq(Permissions)
    /\ \A store \in Stores : IsStore(store)
    /\ MaxAttempts \in Nat \ {0} /\ {MaxRequests, MaxKills} \subseteq Nat

VARIABLES
    phase,   \* where the client is in Run
    token,   \* token_ of the client: the user it was issued to, while it is valid
    poll,    \* the task the client polls, and how often it has
    session, \* Session::database of the connection
    request, \* what the thread of the connection is executing
    tasks,   \* the background tasks, by id
    requests, \* auxiliary: connections, setups and queries
    kills    \* auxiliary: kills

clientVars == <<phase, token, poll>>
threadVars == <<session, request, tasks>>
counters == <<requests, kills>>
vars == <<fileVars, clientVars, threadVars, counters>>

Clients == Threads
NoPoll == [task |-> 0, attempts |-> 0]
NoStatement == [kind |-> "none"]
NoRequest == [at |-> "none", user |-> Nobody, statement |-> NoStatement, left |-> <<>>, barred |-> {}]
Request(at, user, q, left, barred) ==
    [at |-> at, user |-> user, statement |-> q, left |-> left, barred |-> barred]
Idle(c) == phase[c] = "ready" /\ request[c] = NoRequest

Init ==
    /\ \E store \in Stores : FilesInit(store)
    /\ phase = [c \in Clients |-> "gone"]
    /\ token = [c \in Clients |-> Nobody]
    /\ poll = [c \in Clients |-> NoPoll]
    /\ session = [c \in Clients |-> NoDatabase]
    /\ request = [c \in Clients |-> NoRequest]
    /\ tasks = <<>>
    /\ requests = 0
    /\ kills = 0
-----------------------------------------------------------------------------
(* Rights *)

\* PermissionFor
PermissionFor(kind) ==
    CASE kind \in {"insert", "update", "delete", "revert"} -> "WRITE"
      [] kind \in {"create database", "create table"} -> "CREATE"
      [] kind \in {"drop database", "drop table"} -> "DELETE"
      [] OTHER -> "READ"

\* IsLongRunning: REVERT, and SELECT with an aggregate.
IsLongRunning(q) == q.kind \in {"revert", "select aggregate"}

IsSecurity(q) == q.kind \in {"create user", "grant", "revoke"}
IsUse(q) == q.kind = "use"

\* The permissions any of which allows a user p on a table or a scope: matches
\* in CheckPermission.
RightsFor(user, database, table, p) ==
    {Right(scope, p) : scope \in [user : {user, Star}, database : {database, Star},
                                  table : {table, Star}]}

\* CheckAccess and HandleSecurityStatement: what the statement needs.
RightsToRun(user, q) ==
    CASE IsUse(q) -> {}
      [] q.kind = "create user" -> RightsFor(user, Star, Star, "CREATE")
      [] q.kind \in {"grant", "revoke"} -> RightsFor(user, q.database, q.table, "CREATE")
      [] q.kind \in {"create database", "drop database"} ->
            RightsFor(user, q.database, Star, PermissionFor(q.kind))
      [] OTHER -> RightsFor(user, q.database, q.table, PermissionFor(q.kind))

CheckPermission(rights) == rights \intersect Held(memory["rules"]) # {}

HasAccount(u) == Account(u) \in memory["accounts"].names
HasDatabase(d) == Database(d) \in memory["databases"].names
NoAccounts == memory["accounts"].names = {}
-----------------------------------------------------------------------------
(* The client *)

\* Run and PrepareSession: connects and sends the handshake, whose answer says
\* whether the first account is still to be created.
Connect(c) ==
    /\ phase[c] = "gone" /\ requests < MaxRequests
    /\ requests' = requests + 1
    /\ phase' = [phase EXCEPT ![c] = IF NoAccounts THEN "setup" ELSE "login"]
    /\ UNCHANGED <<fileVars, token, poll, threadVars, kills>>

\* HandleLoginResponse, and what the client does next.
LoggedIn(c, u) ==
    /\ token' = [token EXCEPT ![c] = u]
    /\ phase' = [phase EXCEPT ![c] = "ready"]

Refused(c) ==
    /\ phase' = [phase EXCEPT ![c] = IF @ = "ready" THEN "ready" ELSE "gone"]
    /\ session' = [session EXCEPT ![c] = IF phase[c] = "ready" THEN @ ELSE NoDatabase]
    /\ UNCHANGED token

\* LoginInteractively or the command LOGIN, with a password that is right or not.
Login(c, u, right) ==
    /\ phase[c] = "login" \/ Idle(c)
    /\ IF right /\ HasAccount(u)
       THEN LoggedIn(c, u) /\ UNCHANGED session
       ELSE Refused(c)
    /\ UNCHANGED <<fileVars, poll, request, tasks, counters>>

\* CreateSuperuserInteractively; the server looks whether there are accounts,
\* then hashes the password.
CreateSuperuser(c, u) ==
    /\ phase[c] = "setup" /\ request[c] = NoRequest /\ requests < MaxRequests
    /\ requests' = requests + 1
    /\ IF NoAccounts
       THEN /\ request' = [request EXCEPT ![c] =
                  Request("account", u, [kind |-> "setup", name |-> u, database |-> Star,
                                         table |-> Star], AllPermissions, {})]
            /\ UNCHANGED <<phase, token, session>>
       ELSE Refused(c) /\ UNCHANGED request
    /\ UNCHANGED <<fileVars, poll, tasks, kills>>

\* LOGOUT forgets the token and asks for another login.
Logout(c) ==
    /\ Idle(c)
    /\ token' = [token EXCEPT ![c] = Nobody]
    /\ phase' = [phase EXCEPT ![c] = "login"]
    /\ UNCHANGED <<fileVars, poll, threadVars, counters>>

\* EXIT ends the client; its token and its session go with it.
Exit(c) ==
    /\ Idle(c)
    /\ phase' = [phase EXCEPT ![c] = "gone"]
    /\ token' = [token EXCEPT ![c] = Nobody]
    /\ session' = [session EXCEPT ![c] = NoDatabase]
    /\ UNCHANGED <<fileVars, poll, request, tasks, counters>>

\* The time to live of the token is over.  Nobody looks at it again while a
\* request is executed.
TokenExpires(c) ==
    /\ token[c] # Nobody /\ request[c] = NoRequest
    /\ token' = [token EXCEPT ![c] = Nobody]
    /\ UNCHANGED <<fileVars, phase, poll, threadVars, counters>>
-----------------------------------------------------------------------------
(* Process and HandleExecute *)

\* The permissions that a request made now must not rely on.
Barred(rights) == {x \in rights : x \notin asked \union doubtful /\ ~BeingSaved(x)}

\* ApplyDatabase
Qualified(c, q) == IF "database" \in DOMAIN q /\ q.database = NoDatabase
                   THEN [q EXCEPT !.database = session[c]] ELSE q

\* A request arrives, is authenticated and parsed; an error is answered at once.
Query(c, q) ==
    LET statement == Qualified(c, q)
        named == "database" \in DOMAIN q => statement.database # NoDatabase
    IN  /\ Idle(c) /\ requests < MaxRequests
        /\ requests' = requests + 1
        /\ request' = IF HasAccount(token[c]) /\ named
                      THEN [request EXCEPT ![c] =
                              Request("authorise", token[c], statement,
                                      IF q.kind \in {"grant", "revoke"} THEN q.permissions ELSE <<>>,
                                      Barred(RightsToRun(token[c], statement)))]
                      ELSE request
        /\ UNCHANGED <<fileVars, clientVars, session, tasks, kills>>

Answer(c) == request' = [request EXCEPT ![c] = NoRequest]
Go(c, at) == request' = [request EXCEPT ![c].at = at]

Authorising(c) == request[c].at = "authorise"
\* Mutant: does not compare the user of a rule.
AllowedToSomebody(c) == \E u \in Users : CheckPermission(RightsToRun(u, request[c].statement))
Allowed(c) == CheckPermission(RightsToRun(request[c].user, request[c].statement))

\* USE needs no permission.
UseDatabase(c) ==
    LET q == request[c].statement IN
    /\ Authorising(c) /\ IsUse(q)
    /\ session' = [session EXCEPT ![c] = IF HasDatabase(q.database) THEN q.database ELSE @]
    /\ Answer(c)
    /\ UNCHANGED <<fileVars, clientVars, tasks, counters>>

Deny(c) ==
    /\ Authorising(c) /\ ~IsUse(request[c].statement) /\ ~Allowed(c)
    /\ Answer(c)
    /\ UNCHANGED <<fileVars, clientVars, session, tasks, counters>>

AllowCreateUser(c) ==
    LET q == request[c].statement IN
    /\ Authorising(c) /\ q.kind = "create user" /\ Allowed(c)
    /\ IF HasAccount(q.name) THEN Answer(c) ELSE Go(c, "account")
    /\ UNCHANGED <<fileVars, clientVars, session, tasks, counters>>

AllowUpdateRules(c) ==
    LET q == request[c].statement IN
    /\ Authorising(c) /\ q.kind \in {"grant", "revoke"} /\ Allowed(c)
    /\ IF HasAccount(q.name) THEN Go(c, "rules") ELSE Answer(c)
    /\ UNCHANGED <<fileVars, clientVars, session, tasks, counters>>

AllowRoute(c) ==
    LET q == request[c].statement IN
    /\ Authorising(c) /\ ~IsSecurity(q) /\ ~IsUse(q) /\ ~IsLongRunning(q) /\ Allowed(c)
    /\ Go(c, "route")
    /\ UNCHANGED <<fileVars, clientVars, session, tasks, counters>>

\* tasks_.Submit; the client starts to poll.
Submit(c) ==
    LET q == request[c].statement IN
    /\ Authorising(c) /\ IsLongRunning(q) /\ Allowed(c)
    /\ tasks' = Append(tasks, [user |-> request[c].user, statement |-> q,
                               barred |-> request[c].barred, done |-> FALSE])
    /\ Answer(c)
    /\ phase' = [phase EXCEPT ![c] = "polling"]
    /\ poll' = [poll EXCEPT ![c] = [task |-> Len(tasks) + 1, attempts |-> 0]]
    /\ UNCHANGED <<fileVars, token, session, counters>>

(* What is allowed is done. *)

\* The password is hashed; the account comes into being.
InsertAccount(c) ==
    /\ request[c].at = "account"
    /\ CreateAccount(c, request[c].statement.name)
    /\ Go(c, "saving")
    /\ UNCHANGED <<clientVars, session, tasks, counters>>

\* One permission after the other, each with a save of its own.
UpdateRule(c) ==
    LET q == request[c].statement
        scope == [user |-> q.name, database |-> q.database, table |-> q.table]
        p == Head(request[c].left)
        without(barred) == IF q.kind = "revoke" THEN barred ELSE barred \ {Right(scope, p)}
    IN  /\ request[c].at = "rules" /\ request[c].left # <<>> /\ saving[c] = NoSave
        /\ IF q.kind = "revoke" THEN RevokePermission(c, scope, p) ELSE GrantPermission(c, scope, p)
        /\ request' = [d \in Threads |-> [request[d] EXCEPT
                          !.left = IF d = c THEN Tail(@) ELSE @,
                          !.barred = without(@)]]
        /\ tasks' = [t \in DOMAIN tasks |-> [tasks[t] EXCEPT !.barred = without(@)]]
        /\ UNCHANGED <<clientVars, session, counters>>

\* GRANT and REVOKE answer success, whatever became of the saves.
RulesUpdated(c) ==
    /\ request[c].at = "rules" /\ request[c].left = <<>> /\ saving[c] = NoSave
    /\ Answer(c)
    /\ IF request[c].statement.kind = "setup" THEN LoggedIn(c, request[c].user)
       ELSE UNCHANGED <<phase, token>>
    /\ UNCHANGED <<fileVars, poll, session, tasks, counters>>

\* Route, with what it does to the file of the databases.
Route(c) ==
    LET q == request[c].statement
        exists == HasDatabase(q.database)
    IN  /\ request[c].at = "route"
        /\ CASE q.kind = "create database" /\ ~exists ->
                  CreateDatabase(c, q.database) /\ Go(c, "saving")
             [] q.kind = "drop database" /\ exists ->
                  DropDatabase(c, q.database) /\ Go(c, "saving")
             [] q.kind \in {"create table", "drop table"} /\ exists ->
                  \/ UpdateTables(c) /\ Go(c, "saving")
                  \/ Answer(c) /\ UNCHANGED fileVars
             [] OTHER -> Answer(c) /\ UNCHANGED fileVars
        /\ UNCHANGED <<clientVars, session, tasks, counters>>

\* What a thread does when its Save has returned.  A table that could not be
\* made is dropped from the catalog again.
Continue(c, success) ==
    LET kind == request[c].statement.kind IN
    /\ CASE kind = "setup" /\ request[c].at = "saving" ->
              IF success THEN Go(c, "rules") /\ UNCHANGED <<phase, token, session>>
              ELSE Answer(c) /\ Refused(c)
         [] kind = "create table" ->
              (Answer(c) \/ Go(c, "route")) /\ UNCHANGED <<phase, token, session>>
         [] kind \in {"create user", "create database", "drop database", "drop table"} ->
              Answer(c) /\ UNCHANGED <<phase, token, session>>
         [] OTHER -> UNCHANGED <<request, phase, token, session>>
    /\ UNCHANGED <<poll, tasks, counters>>

SaveGoesOn(c) ==
    /\ Open(c) \/ Write(c) \/ WriteIsLost(c) \/ WriteFails(c) \/ RenameFails(c)
    /\ UNCHANGED <<clientVars, threadVars, counters>>
SaveSucceeds(c) == Rename(c) /\ Continue(c, TRUE)
SaveFails(c) == (OpenFails(c) \/ GiveUp(c)) /\ Continue(c, FALSE)

(* Background tasks *)

RunTask(t) ==
    /\ ~tasks[t].done
    /\ tasks' = [tasks EXCEPT ![t].done = TRUE]
    /\ UNCHANGED <<fileVars, clientVars, session, request, counters>>

\* Mutant: polls once more than max_attempts.
AgainTooOften(c) == HasAccount(token[c]) /\ ~tasks[poll[c].task].done /\ poll[c].attempts < MaxAttempts

\* HandleCheckTask and PollTask: until the answer is an error or the result, or
\* the client has asked often enough.
Again(c) == HasAccount(token[c]) /\ ~tasks[poll[c].task].done /\ poll[c].attempts + 1 < MaxAttempts

PollTask(c) ==
    LET again == Again(c)
    IN  /\ phase[c] = "polling"
        /\ poll' = IF again THEN [poll EXCEPT ![c].attempts = @ + 1] ELSE [poll EXCEPT ![c] = NoPoll]
        /\ phase' = [phase EXCEPT ![c] = IF again THEN "polling" ELSE "ready"]
        /\ UNCHANGED <<fileVars, token, threadVars, counters>>

\* The server is killed and started again.  A client that was logging in gives
\* up; the others get nothing but errors, until they EXIT.
Kill ==
    /\ kills < MaxKills
    /\ kills' = kills + 1
    /\ Reload
    /\ phase' = [c \in Clients |-> "gone"]
    /\ token' = [c \in Clients |-> Nobody]
    /\ poll' = [c \in Clients |-> NoPoll]
    /\ session' = [c \in Clients |-> NoDatabase]
    /\ request' = [c \in Clients |-> NoRequest]
    /\ tasks' = <<>>
    /\ UNCHANGED requests
-----------------------------------------------------------------------------
ClientStep(c) ==
    \/ Connect(c) \/ Logout(c) \/ Exit(c) \/ TokenExpires(c) \/ PollTask(c)
    \/ \E u \in Users : CreateSuperuser(c, u)
    \/ \E u \in Users, right \in BOOLEAN : Login(c, u, right)
    \/ \E q \in Statements : Query(c, q)

Process(c) ==
    \/ UseDatabase(c) \/ Deny(c) \/ AllowCreateUser(c) \/ AllowUpdateRules(c) \/ AllowRoute(c)
    \/ Submit(c) \/ InsertAccount(c) \/ UpdateRule(c) \/ RulesUpdated(c) \/ Route(c)
    \/ SaveGoesOn(c) \/ SaveSucceeds(c) \/ SaveFails(c)

Next ==
    \/ \E c \in Clients : ClientStep(c) \/ Process(c)
    \/ \E t \in DOMAIN tasks : RunTask(t)
    \/ Kill

Spec == Init /\ [][Next]_vars
-----------------------------------------------------------------------------
(* Properties *)

\* Every variable has its type.
TypeOK ==
    /\ FilesTypeOK
    /\ phase \in [Clients -> {"gone", "setup", "login", "ready", "polling"}]
    /\ token \in [Clients -> Users \union {Nobody}]
    /\ poll \in [Clients -> [task : 0 .. Len(tasks), attempts : 0 .. MaxAttempts - 1]]
    /\ session \in [Clients -> Databases \union {NoDatabase}]
    /\ \A c \in Clients :
         /\ request[c].at \in {"none", "authorise", "account", "rules", "route", "saving"}
         /\ request[c].user \in Users \union {Nobody}
         /\ request[c].barred \subseteq Items
         /\ saving[c] # NoSave => request[c].at \in {"saving", "rules"}
    /\ \A t \in DOMAIN tasks : tasks[t].user \in Users /\ tasks[t].done \in BOOLEAN
    /\ requests \in 0 .. MaxRequests /\ kills \in 0 .. MaxKills

\* A request that was let through, to be executed at once or in the background,
\* has a permission that was not revoked already when the request arrived:
\* neither a token from before, nor a selected database, nor a restart brings a
\* permission back, as long as no update of the rules that was overlapped has
\* been undone (JsonFiles).  docs/API.md: "RBAC checks happen in Entrypoint before
\* execute_ast is sent to Storage".
AdmittedMay(user, q, barred) == q.kind = "setup" \/ RightsToRun(user, q) \ barred # {}

AdmittedWasAllowed == ~misplaced =>
    /\ \A c \in Clients : request[c].at \in {"account", "rules", "route", "saving"} =>
          AdmittedMay(request[c].user, request[c].statement, request[c].barred)
    /\ \A t \in DOMAIN tasks : AdmittedMay(tasks[t].user, tasks[t].statement, tasks[t].barred)
=============================================================================

# QuasarDB: a verification project

This directory holds TLA+ models of QuasarDB, the TLC configurations that check
them on small instances, and proofs, checked by TLAPS, of what holds of the
storage engine and its trees, of the server's requests and files, its background
tasks, its storage processes, its counters and its log for every instance. The code is the reference: every
definition of a model translates lines of `src/`, which `PROJECT.json` names under
`map`.

    cd tla
    tlc -workers 2 -config MCTable.cfg MCTable     # a run
    tlapm TableProofs.tla                          # the proofs, one module at a time:
                                                   # TableProofs, BStarPlusTreeProofs,
                                                   # ServerProofs, TaskProofs, ClusterProofs,
                                                   # TelemetryProofs, LoggerProofs, QueueLemmas

## 1. The system and its parts

QuasarDB is a database in C++20. A command line **client** talks JSON over TCP to
the **Entrypoint server**, which runs one thread for each client and one
**storage process** (`qdb-storage`) for each table. A storage process serves one
connection at a time, in one thread, from the files of its shard directory.

| part | state it keeps | operations | talks to |
|---|---|---|---|
| Table (`storage/table.cpp`, `page.cpp`, `schema.cpp`) | data pages, schema with `RecordIdCount`, id tree | create, open, close, drop, insert, update, delete, revert, scan, lookup | Journal, IndexSet, B*+ tree |
| Journal (`journal.cpp`) | undo tracks in the `.jnl` file, position in memory | write_track, revert_last, truncate_to_last | Table |
| IndexSet (`index_set.cpp`) | one tree for each INDEXED column | Insert, Remove, Update, Find, HasDuplicate | B*+ tree |
| B*+ tree (`b_star_plus_tree.h`, `node.h`) | pages of a file: root, leaf chain, reusable pages | search, insert, remove, update | Pager |
| Pager, Record, Serializer, Value, Column, Interner | file pages, bytes of a row, interned strings | read, write, encode, decode, intern | Table |
| Executor (`executor.cpp`) | none | evaluates conditions, chooses index or scan, SELECT, aggregates | Table |
| Storage application (`storage/application.cpp`) | the open table | one request at a time: CREATE/DROP TABLE, statements, shutdown | Table, Executor, server |
| ThreadPool (`core/thread_pool.cpp`) | queue, `stopped_`, workers | Submit, Stop, Run | TaskProcessor |
| TaskProcessor (`server/task_processor.cpp`) | results of background statements | Submit, Get, Cancel, Stop | ThreadPool, Router |
| Logger (`server/logger.cpp`) | queue, `pending_writes_`, current file and its size | LogQuery, WriteLoop, Flush, destructor | client threads |
| Telemetry (`server/telemetry.cpp`) | atomic counters, rolling windows | RecordRequest, OutputLoop, getters | client threads |
| Catalog (`server/catalog.cpp`) | databases and tables in `catalog.json` | create and drop of both | Router |
| Registry (`server/registry.cpp`) | nodes, ports, child processes | CreateNode, UpdateNode, RestartNode, DropNode, GetNodes | Router, Monitor, storage processes |
| Router (`server/router.cpp`) | none | Route, SendToStorage | Catalog, Registry, storage processes |
| Monitor (`server/monitor.cpp`) | `missed_heartbeats_` | ProbeOnce in a loop | Registry, storage processes |
| Server application (`server/application.cpp`) | sessions | login, query, check_task, telemetry | all of the server |
| AccountStore, JwtHandler, RBACManager | accounts and rules, in JSON files | create, authenticate, check, grant, revoke | server application |
| Lexer, Parser, AST, Analyzer | none | text to statement, statement to JSON and back | server application, Executor |
| Client (`apps/client`) | token, running tasks | read, send, poll, render | server |
| Core (`libs/core`: sockets, Request, Response, JsonFile) | sockets | transport, JSON | both sides |

What is hard about it:

* **REVERT** undoes the journal backwards through a table whose ids, pages, id
  tree and indexes must all come back to a former state, over any number of
  changes, reverts and restarts; `assert` is compiled in by default, so a wrong
  state ends the process.
* **The tree** rebalances two or three nodes at a time with limits that must
  leave no gap, and uses deleted pages again.
* **Client threads hold no lock** over a statement: CREATE TABLE and DROP TABLE
  are several calls of catalog, registry and network, and other clients, the
  monitor and dying processes come in between.
* **Condition variables**: the pool and the logger are notified outside the
  mutex, and both are stopped while they work.
* **Atomic counters** are moved one by one while others add to them.
* Processes are killed, not only closed; starting one may fail; answers are lost.
* **Accounts, rules and catalog** are changed in memory first and then saved as a
  whole through one `.tmp` file, without a lock; each store undoes a change that
  could not be saved in its own way.
* **A permission is checked once**, when a request comes; the statement may run much
  later, in the background, while permissions, databases and accounts change.

What makes each component correct is listed with its module below; the hazards,
each at its line and with the properties that watch it, are in `PROJECT.json`.

## 2. The modules

    VersionedTable  <--implements--  Table  <--  TableProofs     (storage)
                                       |
                                       | calls its trees as
                                       v
                                   Dictionary
                                       ^
                                       | implements
                                  BStarPlusTree  <--  BStarPlusTreeProofs

    QueryLanguage  <--implements--  QueryPath       (server and storage)
                          |            |  |  |
                      QueryText     Parser Ast Executor  -->  SqlValue

    TaskBoard  <--implements--  TaskProcessor  <--  TaskProofs           (server)
                                  |                   |
                              ThreadPool          QueueLemmas
                                                      |
    AccessLog  <--implements--  Logger  <--------  LoggerProofs
    Telemetry  <--  TelemetryProofs
    Registry  <--  Cluster  <--  ClusterProofs
    JsonFiles  <--  Server  <--  ServerProofs       (client, server, core)

### Table, VersionedTable, TableProofs

`Table` is one shard: journal, pages, id tree, column indexes, the id counter in
memory and in the schema file. `InsertRecord`, `UpdateRecord` and `DeleteRecord`
are whole calls of `Table::insert_record` etc., with validation, page choice,
every index, the id tree, the journal track and the schema save; `BeginRevert`,
`RevertDeletion`, `RevertUpdate`, `RevertInsertion` and `EndRevert` are
`Table::revert`, one action for each turn of its loop. `CreateTable`,
`DropTable`, `Close`, `Kill` and `Reopen` are the life of the process; `Tick` is
the clock. A statement of several rows is several of these actions, since that is
what the code makes of it: a failing row leaves the earlier ones. Rows are
functions from columns to values, records have no bytes, a page has room for
`PageCapacity` cells. A tree is a map from a key to
the sequence of its addresses, of which an update or remove takes the first, as the
multimap of the code does.

`Dictionary` is where `Table` and its trees meet: each key leads to one value, which
an insert gives to a key that has none, and an update, a remove or a move (a remove
and an insert, in `IndexSet::Update`) changes for a key that has one.
`TreesAreDictionaries` says which change makes which of these calls, with which key:
a row that is added, also by the undo of a DELETE, is inserted under its id and its
values of the INDEXED columns, which no tree has; one that is replaced is updated
under its id and, in each index, moved from its old value to its new one; one that
goes is removed under each; and no call touches another key.
`ImplementsDictionary` says that the pages of a B*+ tree answer such calls, as long as its height is 1 or 2. What lies between the two is the
merge of the last two leaves that fails (run `btree_merge`): there the assertion ends
the process in the middle of a call of `Table`, and `Table` has no such step.

`hist` and `frozen` are auxiliary: the version before each journal track, and
the version in which a REVERT began. No action reads them.

`VersionedTable` is what the table promises: rows by id, the next id, and the log
of earlier versions. `Revert` goes back to the version before the first change
that is not older than the given time. It knows no pages, trees or positions.
`Table` implements it under a mapping that lets a REVERT take effect at its end.

`TableProofs` has the lemmas about pages, trees and indexes, the invariants and
the refinement; see section 4.

### BStarPlusTree

The tree with its pages, as `Node` and `BStarPlusTree` leave them after each call:
room and minimum of leaves and internal nodes are computed from the page's room
as in the code, and every redistribution (two leaves, three leaves), split (1 to
2, 2 to 3) and merge (3 to 2, 2 to 1) is an operator from the file before to the
file after. `file.ok` turns FALSE where the code throws or an assertion fails, and
the model stops there. It also stops at the split of an internal root, which makes
a tree of height 3: what it makes is checked, and no operation goes on from it. In
trees of height 1 and 2 an internal node is the root, so the stack of parents that
`findLeaf` returns has one entry, and nothing has to be recursive.

`contents` is auxiliary: the key and value that were last written and not removed.
The tree of the code is a multimap; `Table` and `IndexSet` give it each key once
(only unique columns are indexed: `HasDuplicate`), and so does the model: that
they do is `TreesAreDictionaries`. `SearchResults`, what a search finds for each key,
is what the tree shows of itself as a `Dictionary`.

### SqlValue, Executor, Parser, Ast, QueryPath, QueryLanguage

`QueryPath` follows a statement from the client's tokens to the reply. `Parser` is
the recursive descent of the server's class, for every statement of the grammar,
with the Analyzer's checks; `Ast` is `SerializeAst` and `DeserializeAst` of the
statements that are sent to a shard; `Executor` is `Executor::Execute` for INSERT,
UPDATE, DELETE and SELECT: which rows an index finds, how a condition is
evaluated row by row, what is interned on the way, what a failure leaves behind.
`SqlValue` has three-valued truth, comparison and the Interner. The storage
process's `CreateTable` and `DropTable` make and remove the table, with the
defaults and the attributes that `ToSchema` and `Column` accept. What is done
elsewhere is handed over: REVERT to the table, users and rights to `Server`,
databases to `Cluster`. The table below is what `Table` is shown to be, so its
pages, trees and journal do not come back here. Texts are numbers in their order;
ids of strings are places in the order of first mention; a LIKE pattern is the set
of texts that it matches. Statements that are refused (`Refuse`) and those that
are served (`Serve`) are the two actions, and `Respond` sends the reply.

`QueryLanguage` is what a statement means: truth is 0, 1 or 2, AND the least and OR
the greatest, rows hold texts, there are no ids and no index, an INSERT puts in all
its rows or those before the first that does not fit, an UPDATE changes all
selected rows or all but those that do not fit. An ill-typed condition may fail or
select anything, since the code finds out only if it compares the values.
`QueryText` writes a statement down as a client does. `QueryText` and
`QueryLanguage` are specification, the others translate code. Conditions are
recursive, so these modules are for TLC.

### ThreadPool, TaskProcessor, TaskBoard

`ThreadPool` splits `Submit`, `Stop` and `Run` at the mutex: `Enqueue` and
`NotifyOne` are two steps, as are `SetStopped` and `NotifyAll`; a worker is
looking, asleep in the wait, running or gone, and may wake spuriously.
`TaskProcessor` extends it with the table of results under its own mutex: the
entry is made before the task is queued, the lambda of `Submit` marks it running,
calls the handler (which returns or throws) and stores the outcome; `Cancel` and
`Stop` come at any moment. `given` is auxiliary: what the handler gave for a task,
one result for each call.

`TaskBoard` is what a client sees: a task is taken in or turned away, the handler
is asked once for a task that was taken in, a reply is what it gave and is final
(an error may still turn into "cancelled"), and the board closes when all that it
took in is answered. It has no threads, queue or mutex; `check_task`'s replies, the
tasks that `Submit` accepted or refused, and how far `Stop` is are its state under
the mapping of `TaskProcessor`. `TaskProofs` has the theorems about both; `QueueLemmas`,
which it shares with `LoggerProofs`, says what joins and leaves a queue.

### Logger, AccessLog

`LogQuery`, `WriteLoop`, `Flush` and the destructor, split at each access to
`pending_writes_` and `running_`, which the mutex does not guard. The writer
evaluates the predicate of its wait and goes to sleep in two steps, with the
mutex held. A file may fail to open. Lines have sizes of
their own: a file below its limit takes a whole line more. A file is what this run of
the server put into it; lines of an earlier one, to which a file that is opened is
appended, are not counted by the code either.

`AccessLog` is what it promises: queries wait in the order in which they were
logged, each is written once, into a file that is below its limit, or dropped when no
file could be opened, a file is closed when it has reached the limit (so without its
last line it is below), and neither `Flush` nor the
destructor returns while a query waits. Under the mapping a line that the writer has
taken from the queue still waits until it is in the file. `LoggerProofs` has the
theorems.

### Telemetry

Every access to an atomic is a step: five in `RecordRequest`, one for each counter
in `OutputLoop`. The output thread is a member that is declared, and so started,
before `running_`: `EnterLoop` may read no value. A sum, of durations or of a
window's slots, is the cardinality of a set of units, which needs no recursion;
`forgotten` is auxiliary, what the windows have overwritten. `TelemetryProofs` has
the theorems.

### Registry, Cluster

`Registry` has nodes, their processes, the ports and the shard directories. Each
of its operations runs under `nodes_mutex_` and is one action; a process that is
started may fail. `Cluster` adds the catalog, the clients and the monitor: a
client's statement is the list of the calls `Router::Route` still has to make,
and each call is an action; `SendToStorage` is three (look the node up, connect
and send, receive). `ProbeOnce` works on a copy of the nodes. A process may crash
at any moment, also between its work and its answer. There is one database.

`deadRounds` is auxiliary: the rounds of the monitor that began since a node has
lost its process. With it, that a dead node is restarted in time is an invariant
and needs no fairness: if the monitor goes on, the node comes back. `alone` and `torn`
are auxiliary too: no statement has begun while another was under way, and the
answer to a CREATE or DROP TABLE whose work was done has been lost, or a DROP
DATABASE has not reached a shard.

### JsonFiles, Server

`JsonFiles` has accounts, access rules and databases in memory, in their files and
in the `.tmp` files between. The rules are a vector, as in `rbac.cpp`, which is
searched from its front (`Find`). `Update` is a change in memory with the call of
`JsonFile::Save`, which has taken its copy of the whole store by then. `Open`,
`Write` and `Rename` are the steps of `Save`: opening empties the `.tmp` file, also
while another thread is between its write and its rename; a stream writes into
whatever its file has become since (the `.tmp` file, the file itself once another
thread has renamed it, or nothing), over what is there; a rename takes the `.tmp`
file whoever wrote it. Opening, writing and renaming may fail, and what is in the
buffer may be lost at the close, which `Save` does not see (`WriteIsLost`). `Fail`
undoes the change the way the store does it: `CreateAccount` erases the account;
`GrantPermission` works through the iterator it took before the save, which may
lead to another rule by then, past the end, or, when `push_back` has moved the
vector, nowhere; `RevokePermission` puts an erased rule back, empty, at its former
position, or gives the first rule for the scope its former permissions; the catalog
undoes nothing. Saves of several threads overlap.

`Server` is `Application` with its clients: `Connect` to `Exit` are the client's
`Run`, `PrepareSession` and `LoginInteractively`; `Query` is the arrival of a
request in `Process`, authenticated and parsed; then `HandleExecute` goes by steps
through the check of the permission (`AllowCreateUser`, `AllowUpdateRules`,
`AllowRoute`, `Submit`, or `Deny`) and what it allows, with the saves in between. A
GRANT of several permissions saves once for each; the setup of the first account
saves the account and then grants. `Submit` leaves a background task that the
client polls `MaxAttempts` times. `Kill` ends the server at any step and starts it
again from its files.

`asked`, `doubtful`, `unsure`, `misplaced` and the `barred` of a request are
auxiliary: what the last request about an item wanted, which items are in doubt
(their last update failed, overlapped another one of the file, or was cut off), the
files in which saves have overlapped since one was alone, whether an update of the
rules has been undone that was not alone, and the permissions that were gone when a
request arrived. No guard reads them.

## 3. What the runs check

Times are for two workers.

| run | configuration | what it asks |
|---|---|---|
| `table` | two columns (one INDEXED), two values, four rows (one of which NOT_NULL refuses), two ids, times 0 and 1, pages of two cells, five cells written | `IdsCoherent`, `IndexesCoherent`: pages, id tree, indexes and counter agree. `RevertAssertionsHold`: no `assert` of `Table::revert` fails. `IndexAgreesWithScan`: the executor may choose either. `JournalReplaysHistory`: undoing from the end gives every former version. `RevertReachesItsTime`, `RevertEnds`. `ImplementsVersionedTable`. `TreesAreDictionaries`: each change inserts, moves, updates or removes in every tree the keys of its own row, which are not there or there as the call needs it. |
| `table_killed` | the same, and the process may be killed after a REVERT | expected violation of `RevertAssertionsHold` |
| `btree` | eight keys, two values, leaves of three entries, internal nodes of three keys | `CheckIntegrity` (the code's own check), `OnlyMergesFail`, `SearchFindsAll`, `NoPageIsLost` |
| `btree_high` | eleven keys | expected violation of `CheckIntegrity` |
| `btree_merge` | twelve keys, leaves of ten entries | expected violation of `NeverFails` |
| `query` | a STRING column (INDEXED) and an INT column with a DEFAULT, or one INDEXED column alone, six definitions that are refused, three texts, numbers up to 2, two ids, some two hundred statements | `ImplementsQueryLanguage`: tokens, JSON, ids, indexes and the order of rows leave no trace in answers and changes, aliases name what they stand for, and statements about users, rights and databases come out of the parser as they were meant |
| `tasks` | three tasks, two workers | `NobodySleepsInVain`, `StopDrains`, `StopReturns` of the pool; `RepliesTellTruth`, `EveryTaskEnds` of what check_task replies; `ImplementsTaskBoard` of both together: each accepted task is run once, final replies are final |
| `logger` | three entries with lines of one, two and three bytes, files closed at two bytes | `FlushKeepsItsPromise`, `NothingLeftBehind`, `EveryEntryEnds`, `FlushReturns`; `ImplementsAccessLog`: one order, no line twice, no line after a file's limit, nobody returns too early |
| `telemetry` | three requests, two of which fail, windows of one, two and three seconds, three seconds | `SecondsAddUp`: no request is lost between two seconds or in both, and a window forgets no second before it is full |
| `cluster` | two tables, two clients, three statements, one crash, one failing start | `ShardsKeepToThemselves`, `NoOrphans` (so one process for each shard), `StatementsAreWhole` for statements one after the other, with crashes and failing starts, `DeadNodesAreRestarted` |
| `cluster_race` | one table, two clients | expected violation of `CatalogedIsUsable` |
| `server` | two connections, two users, one database with one table, first start or a later one with two rules, four requests, two failing calls of the file system, one kill | `FilesAreAsAsked`: memory and files hold what was last asked for, except what is in doubt. `AdmittedWasAllowed`: nobody gets past the check on a permission that was revoked before the request came. Of the rules neither says anything once an overlapped update of them has been undone |

**Bounds.** Each is a CONSTANT named in its module. For `table`: two ids make an id
that is given back by a REVERT and one that is not; a page of two cells with five
cells makes an update that moves to a new page; two times make changes before,
in and after the millisecond of a REVERT, and several changes within one. What
these bounds leave open, the theorems close. For `btree`: a tree of eight keys has
up to four leaves, so that each underflow (left edge, middle, right edge) meets
each outcome (borrow from a neighbour, redistribute three, merge three, merge the
last two), and the root goes from leaf to internal node and back; eleven keys
are the fewest whose internal root overflows, and with leaves of three entries the
last two always fit, so that `btree_merge` needs larger ones. For `query`: two rows are enough for
an UPDATE or INSERT that is refused half-way and for one row that blocks another;
three texts come in every order of first mention; every comparison, BETWEEN, LIKE,
AND in OR, OR in AND, NULL, a wrong type, an unknown column, a number out of range,
a missing WHERE, a wrong number of values and a column named twice is among the
statements. For `tasks`: a task running, one
queued and one being submitted, with one worker busy and one asleep. For
`logger`: files below the limit by a byte, just at it, and above it by one or two,
each with a line before or after it; an entry in a full file, one in the next, one on its way. For
`cluster`: DROP and CREATE of one name in two threads while another table has a
statement under way, with the monitor between; the crash may hit any of the
processes at any step. For `server`: four requests are a connection, a GRANT or
REVOKE or CREATE USER of one client and a request of the other that overlaps it,
or a setup by both; the later start has a rule in front of the superuser's, which
a REVOKE erases, so that places in the vector move; GRANT names two permissions, so
that a failure or a kill falls between its saves; two failures undo both of two
overlapping updates. A setup grants one permission (`AllPermissions` is a constant
of the module), before which it may stop. Runs over whole life cycles stop at their bounds, so
deadlock is checked in `table`, `btree` and `query` only, where the system never stops.

**Fairness.** `Table`: the loop of REVERT goes on (one thread that waits for
nothing). `TaskProcessor`: threads inside `Submit`, `Stop` and workers go on, a
handler returns or throws, spurious wakeups are not required. `Logger`: threads
inside a call go on; a thread that wants the mutex gets it if it is free again and
again (strong fairness on `Push`, since the writer takes it repeatedly); nobody
has to begin a call. `Cluster`
and `Server` are checked for safety only: a storage process that hangs stops
whoever waits for it, for ever, so the code justifies no fairness there.

### What the expected violations show

* `table_killed`: REVERT moves the journal position, in memory, and cuts the file
  only at the next write or close. A process that is killed in between reopens
  with the position at the end of the file and undoes tracks twice: an assertion
  fails. (`Registry` stops processes with `SIGKILL`-like termination, so this is
  every restart after a REVERT.)
* `btree_high`: the first split of an internal root hands on one key less than
  it takes away, and a child slot that was never set. A table meets this after
  about a hundred thousand rows.
* `btree_merge`: a leaf underflows with less than two thirds of the room, and its
  only neighbour lends with more than half; between the two lie pairs that are too
  full for one leaf and too empty to lend. The code asserts before the merge that
  they fit (`b_star_plus_tree.h:660`), and without assertions throws. With the
  pages of 4096 bytes of the code this needs a table of a few hundred rows, some of
  which are deleted again.
* `cluster_race`: DROP TABLE removes the catalog record before the node; a CREATE
  TABLE of the same name in between adopts the old node, which the DROP then
  removes.

### Known disagreements that have no run

They came up while modelling, the models contain the steps, and no property
forbids them:

* Journal tracks are stamped with the local time (`journal.cpp:17`): when
  daylight saving time ends REVERT may stop too early. The model's clock is
  never set back.
* `telemetry.cpp:69-78`: the error rate divides by the rate read at the start of a
  tick, not by the drained count, and can exceed 1; `current_rps` is the
  unfinished second's count when it is not zero, while `docs/API.md:197` says the
  last full second; the output thread may leave its loop at once (`telemetry.h:59`).
* A storage process that dies between creating a table and answering leaves files
  that every later CREATE TABLE of the name meets (`router.cpp:61`).
* `missed_heartbeats_` outlives its node (`monitor.cpp:69`), so that a node that is
  new under the name of a dropped one may be restarted, alive, before its third
  miss; a CREATE TABLE whose answer is under way then loses it, although no process
  has died. `StatementsAreWhole` counts this as a lost answer (`torn`).
* The destructor of `Logger` notifies without the mutex (`logger.cpp:16-17`), so the
  notification may fall between the writer's predicate and its sleep and the
  destructor waits for ever. `Logger` has the step; nothing in the repository says
  that the destructor returns.
* The size of a log file is counted from 0 although the file is opened to append
  (`logger.cpp:82,90`), and a server that starts again on the same day begins with the
  same file (`logger.h:52`): what its former life left there is not counted against
  `max_file_size_`. `AccessLog` speaks of the lines of one run.
* A record that fits in no page is refused only when it is written
  (`table.cpp:330-332`): an INSERT has then written its track and taken an id
  (`table.cpp:100-103`), an UPDATE has deleted the old cell (`table.cpp:169-172`),
  and a later REVERT meets a track whose change was not made. `Table` counts cells, not bytes, so
  that every record fits; this is the one way out of its statements that it lacks.
* A LIKE pattern that is no regular expression is found out when the first row is
  looked at (`executor.cpp:126`), and answered with an error. `QueryPath` has valid
  patterns only.
* `mergeInternal3to2` calls `set_next` (`b_star_plus_tree.h:852`), which throws for
  an internal node (`node.h:206`); it takes a tree of height 3 to come there.
* A restarted server hands out ports from 9001 on again while the storage
  processes of its former life listen there (`registry.cpp:43`).
* BETWEEN over strings compares StringIds (`executor.cpp:110`), that is the order in
  which strings were first mentioned, while `<=` and `>=` compare texts;
  `docs/GRAMMAR.md:183` calls it a closed interval. `QueryLanguage` gives it no
  meaning.
* An unknown column in `WHERE w == 1` is an error in an empty table too, since the
  index is asked; in `WHERE w < 1` it is one only when a row is looked at.
* `docs/API.md:98` says the first account gets all permissions. The account is saved
  before its permissions are (`application.cpp:216-224`): a server that is killed
  in between has an account, so that no setup follows, and nobody who may do
  anything. `Server` has the step; `FilesAreAsAsked` counts the permissions that
  were being granted as in doubt.
* `JsonFile::Save` tests the stream before the `ofstream` is closed, so a write that
  fails only when the buffer is flushed is renamed into place
  (`json_file.cpp:38-44`); `Load` of a file that does not parse starts empty.
* Two threads that save one file share its `.tmp` file (`json_file.cpp:30-33`). One
  truncates it while the other is between its write and its rename, or both write
  into it: an empty or garbled file may be renamed into place, and a server killed
  then starts without accounts or rules. `FilesAreAsAsked` says nothing of the file
  until a save has been alone with it (`unsure`).
* A GRANT that cannot be saved follows an iterator from before the save
  (`rbac.cpp:55-60`). When another thread's REVOKE has erased a rule meanwhile, it
  takes the permission from a rule that nobody updated, or drops the last one. A
  REVOKE that cannot be saved puts its erased rule back by position, empty
  (`rbac.cpp:85-86`), beside one of the same scope that a GRANT may have pushed
  meanwhile; a later REVOKE then edits the first of the two, and the permission
  stays. Both are steps of `JsonFiles`; without `misplaced`, which ends what the
  properties say of the rules, the first makes `FilesAreAsAsked` false, and the
  second, with six requests, `AdmittedWasAllowed`.
* INSERT takes a comma before its first line (`parser.cpp:465`).
* `docs/ARCHITECTURE.md:198` says CREATE and DROP DATABASE change only the
  catalog; `router.cpp` also drops the shards of a dropped database.

## 4. What is proved

Each module of proofs has one inductive invariant, found with TLC first, and a lemma
for each action that preserves it; the listed theorems follow from the invariant.
The assumptions are the named ones of the modules: bounds are natural numbers, the
sets of tables, entries and so on are what their module says of them.

### The storage engine (`TableProofs`)

`TableProofs` proves, for every set of columns, values and rows, every choice of
INDEXED and NOT_NULL columns and every bound, from the three named assumptions
of `Table` (rows are well typed; INDEXED columns are NOT_NULL, which
`Column::Column` enforces; bounds are natural numbers):

| theorem | says |
|---|---|
| `Invariant` | `Spec => []IInv`, the inductive invariant |
| `TypeCorrect`, `IdsAlwaysCoherent`, `IndexesAlwaysCoherent`, `JournalAlwaysReplaysHistory` | its conjuncts that the run `table` checks |
| `RevertNeverAborts` | the assertions of `Table::revert` hold |
| `LookupIsScan` | a lookup finds what a scan finds |
| `RevertAlwaysReachesItsTime` | REVERT undoes every change that is not older than its time |
| `Implementation` | every behaviour of `Table` is one of `VersionedTable` |
| `TreesAreAlwaysDictionaries` | each change calls the id tree and every index under the keys of its own row, as `Dictionary` allows |

The properties themselves are not inductive: that the assertion of a REVERT's
next turn holds depends on every track below the position. `IInv` therefore adds
`HistoryUndoable` (each version in the history is well formed, and each track can
be undone in the version after it: an undone INSERT's id is the last one
given, an undone DELETE's key is free), `TimesOrdered` (the journal is in time
order, so stopping at the first older track stops at the right place),
`RevertUnderWay` (a REVERT has come from the frozen version to the one before the
last undone track) and `FilesSettled` (counter and position are what the files
say when the process is down). The proof that a step preserves `IInv` has a lemma
for each action; those of the three row operations and the three undo actions
share lemmas about writing and marking cells, which show that pages, id tree and indexes change together. The refinement uses the same
lemmas: a row operation is the abstract one, the turns of a REVERT stutter, its
end is the abstract Revert.

`TreesAreAlwaysDictionaries` is the condition that the theorems about the trees
below rest on. `remove` and `update` of the code take the first entry of a key,
`insert` adds a second one without a word, and `Table::revert` inserts without
asking `HasDuplicate`: that the key of an undone DELETE is free again, also when
another row has had it meanwhile, follows from `HistoryUndoable`. A step that writes
a record (`WrittenCalls`) inserts its id and its key in each index when there is no
such record, and else updates the id and moves the keys; one that erases it
(`ErasedCalls`) removes them.

### The trees (`BStarPlusTreeProofs`)

For every set of keys (integers) and values, every number of keys, and any room in
the pages, from 4 entries and 3 keys upwards (a page of 4096 bytes has room for
far more): `TreeInvariant`, and of trees of height 2 or less `IntegrityIsKept`,
`SearchIsRight`, `PagesAreKept`, `OnlyTheLastMergeFails`, `TreeTypeCorrect` and
`TreeIsADictionary` (`ImplementsDictionary`, an action property: a call changes
what a search finds for its own key, in the way of `Dictionary`, and for no other).
Together with `TreesAreAlwaysDictionaries` this is why `Table` may take a tree for
a map.

The height is a hypothesis of these six, since they do not hold without it: the
split of an internal root makes a tree that has lost a child (run `btree_high`).
It is no restriction on what happens before. With the code's pages a tree of
height 2 has about five hundred leaves; the theorems cover every sequence of
operations until the root has more children than fit in it.

`TreeInv` says that the file is empty and so is `contents`, or that the root is
`High`, or that there are leaves L and separators K with `Whole(file, L, K, X)`,
where X is the set of entries of `contents`. `Whole` is made of `Tree` (the root is
the one leaf or has the children L and the keys K, all other pages are deleted,
the entries ascend from leaf to leaf, and `K[i]` is above what is in the first i
leaves and not above the rest), `Chained` (`next` leads along L), `Sized` (how
full a leaf is, by the number of leaves: one entry when it is alone, half of the
most when there are two, the minimum otherwise) and `file.ok`, or `Stuck`: two
leaves that do not fit into one. `Sized` is what makes it inductive. The
constructors, redistributions and merges assert or throw when a node runs over or
under; that they do not follows from how full their leaves were before, and these
limits differ for one, two and more leaves. It is also where the proof fails for
`NeverFails`: two leaves may hold more than one has room for and neither may lend,
which is `btree_merge`.

An operation is split the way the code is. Moving entries between neighbours keeps
`Ordered` and everything held (`ShareLeaves`); each of the six handlers
(`RedistributeTwo`, `RedistributeThree`, `SplitRootLeaf`, `SplitLeaves`,
`MergeLeaves`, `MergeIntoRoot`) maps a tree to a tree with the sizes it says;
`OverflowHandled` and `UnderflowHandled` choose among them as the code does;
`InsertedStored`, `UpdatedStored` and `RemovedStored` add `findLeaf` and the change
in the leaf.

### The server's requests and files (`ServerProofs`)

For every number of clients, users, databases, tables, requests, failing calls of
the file system and kills: `ServerInvariant`, `ServerTypeCorrect`, `FilesAreAlwaysAsAsked` and
`AdmittedWasAlwaysAllowed`, from the assumption about names and bounds of
`JsonFiles` and `Server`.

That memory and file are as asked depends on the saves under way, which overlap.
`FilesInv` therefore adds that an update which overlaps another one of its file is
known to (`OverlapsAreRaced`), so that its item is in doubt and its file unsure; that
one which does not saves what is in memory, finds the `.tmp` file as it left it, and
can be undone where it took its place (`AloneIsCurrent` with `UndoFits`: the iterator
of a GRANT still leads to the rule it found or pushed, no rule for the scope of an
erased one has come, the rule of another REVOKE has lost its permission and nothing
else); and that a vector has one rule for each scope (`RulesAreUnique`). The last
two hold until an update is undone that was not alone, which is why the theorems
end there. An edit of the vector is proved to change the item it is about and no
other (`RuleEditFits`), and its undoing to change no item that is not in doubt
(`UndoneIsHarmless`). `ServerInv` adds the state of each
request (`RequestsFit`), and `BarredIsGone`: a permission that was gone when a
request came, and that nobody grants since, is not in memory. From it, the check in
`HandleExecute` lets nobody past; that of a background task comes before it is
queued.

### Background tasks (`TaskProofs`)

For every number of tasks and workers: `NobodyEverSleepsInVain`,
`EachTaskAlwaysOnce`, `StopAlwaysDrains`, `RepliesAlwaysTellTruth`,
`RepliesAlwaysSettle` (an action property), `TasksTypeCorrect`, and
`TaskBoardImplemented`, the refinement. `TaskInv` adds `GoneIsDrained` (a worker
leaves a stopped pool only, whose queue is and stays empty: this is why nothing is
lost at the end), `ResultsFit` (what the handler has given for a task, by the place
where the task is), `EntriesFit` (an entry that is answered by the handler has the
answer it gave, and is answered once its worker has stored it) and `CallsFit` (the
table knows every task that the pool knows). The refinement maps the step in which a
handler returns to the board's Handle, the store to Answer or, after a
cancellation, to nothing, and the return of `Stop` to Drain, for which `StopDrains`
and `EntriesFit` are needed; notifications, sleep and the start of
a task are steps that no client sees.

### Storage processes (`ClusterProofs`)

For every number of tables, clients, statements, ports, processes, failing starts
and crashes: `ShardsAlwaysKeepToThemselves`, `NeverAnyOrphans`,
`DeadNodesAreAlwaysRestarted`, `StatementsAreAlwaysWhole`, `ClusterTypeCorrect`,
`RegistryTypeCorrect`, and `RequestsAlwaysReachTheirShard`, which no run states: a
client connects to a port that it copied without a lock, and by then the node may
be gone. The argument is that a port is never given twice (`PortsAreOwn`), so that
what was looked up stays its table's, whether the node lives or not (`LookedUp`),
and that a process replaces the one before in its directory, so that the table in
its memory is that in its files (`FilesAreOwn`). A second invariant, `MonitorInv`,
rests on the first: the ports the monitor has copied are still those of their
tables, so who answers is the node's own process; and each round since a node has
lost its process has been counted in `missed_heartbeats_`, or is about to be, or has
led to the restart that comes next (`DeadAreCounted`).

That statements one after the other are whole needs to know how far each is.
`StatementInv` says, as long as nothing has overlapped and no answer that matters
was lost, that the tables no statement is about agree in catalog, registry and
directory, and that the one that is under way has done exactly the calls that its
list does not hold any more (`Halfway`): a CREATE TABLE, for instance, is in the
catalog from the start, has a node once "register" has left its list and files once
the storage process has done its work; after a failure its list holds the calls
that take the node and the catalog's record away.

### The counters (`TelemetryProofs`)

For every set of requests, failures, durations and sizes of the windows:
`TelemetryInvariant`, `SecondsAlwaysAddUp`, `TelemetryTypeCorrect`. `SumsInv` is a
balance for each counter: what a window holds, what it has overwritten and what the
current second has add up to the requests that have come past the step that counts
them. Since threads stop between two counters, and the output thread between two
windows, the balances speak of different sets of requests (`Past`) and of windows
that have not had their value of this second (`Pending`). `WindowsInv` adds that a
window that is not full has overwritten nothing (`Fresh`).

### The access log (`LoggerProofs`)

For every finite set of queries, all sizes of their lines and every limit of a file: `LoggerTypeCorrect`,
`FlushAlwaysKeepsItsPromise`, `RotationAlwaysKeepsLimit`, `NothingEverLeftBehind`,
`AccessLogImplemented` (the refinement), `NoWakeupIsLost` and `FlushIsNeverStranded`.
The argument is `PendingIsExact`: `pending_writes_` is the number of entries
that are counted, queued or in the writer's hand, although it is counted up before
the push and down after the write; `PlacesFit` says where each entry is, `FilesFit`
that the counted size is that of the file's lines and below the limit before a line is
written, and `LivesFit` that the writer leaves
only when nobody can log any more and nothing is outstanding. In the refinement a
push is the abstract Log, and a write or a failure to open the end of the waiting;
that Flush finds nobody waiting when it reads zero is `PendingIsExact` again.

`NoWakeupIsLost` and `FlushIsNeverStranded` are the safety that the liveness
properties of the run rest on: the writer does not sleep on a queue whose callers
have all notified it, although they do so without the mutex, and while Flush polls a
count above zero somebody is on the way to bring it down.

### Only model-checked

* Liveness (`RevertEnds`, `EveryTaskEnds`, `StopReturns`, `EveryEntryEnds`,
  `FlushReturns`), which TLAPS does not reach. What keeps the threads from waiting
  for each other is proved: `NobodyEverSleepsInVain`, `NoWakeupIsLost`,
  `FlushIsNeverStranded`.
* The modules of `QueryPath` (`TypeOK`, `ImplementsQueryLanguage`): conditions are
  recursive, and so are the operators that parse, evaluate and print them.

Some statements have a proof and no run of their own. What `RepliesAlwaysSettle`,
`EachTaskAlwaysOnce` and `RotationAlwaysKeepsLimit` say, the runs ask with
`ImplementsTaskBoard`, `StopDrains` and `ImplementsAccessLog`. `TreeIsADictionary`
compares all searches before and after each call, which takes TLC too long on trees
of eight keys.

## 5. What is not modelled

* Writes inside one operation: a kill comes between two operations, or two turns of
  a REVERT. The code has no log of what it is about to write, and promises nothing
  for a process that is killed inside an insert, inside a split of the tree or
  inside `AppendToDisk` of the Interner, so there is no property to state.
* Trees of height 3 and more, with the rebalancing of internal nodes: the step to
  height 3 already breaks them.
* Bytes: Serializer, Record and Pager; the Interner's file; the Lexer.
* The JSON of statements that the server executes itself, which is never sent.
* Password hashes and token signatures: a password is right or wrong, a token is
  valid for its user until it expires.
* Data races on the unsynchronised JSON trees of catalog, accounts and rules, whose
  outcome is undefined: changes in memory are atomic here, the search of a rule and
  its edit included.
* A storage process that hangs: sockets have no timeout, and whoever waits for it
  waits for ever.
* A server that is restarted among the storage processes of its former life:
  `Server` is restarted, `Cluster` is not.
* The registry with `auto_start_storage_` off (`registry.cpp:67,114`), where processes
  are started by hand and none is restarted.
* Why a storage process refuses a CREATE TABLE: `Registry` refuses one when a table is
  there. One whose schema the process refuses takes the same way back.
* The client's reader and renderer, and the transport.

## 6. Plan

1. (done, proved) `VersionedTable`, `Table`: runs, invariant and refinement.
2. (done, proved) `ThreadPool`, `TaskProcessor` with `TaskBoard`, `Logger` with
   `AccessLog`, `Telemetry`.
3. (done, proved) `Registry`, `Cluster`.
4. (done, proved up to height 2) `BStarPlusTree`; `Dictionary` between it and `Table`.
5. (done, model-checked) `SqlValue`, `Executor`, `Parser`, `Ast`, `QueryPath` against
   `QueryLanguage`.
6. (done, proved) `JsonFiles`, `Server`.
7. If the code gets a recovery: `Table` at the granularity of writes, with crashes
   inside an operation, and `Cluster` with a restart of the server.
8. If the split of internal nodes is mended: the tree at height 3.
9. A proof that a part of `QueryPath` that is not recursive, the Interner or the
   comparisons of `SqlValue`, is what `QueryLanguage` says.

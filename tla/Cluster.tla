------------------------------- MODULE Cluster -------------------------------
(***************************************************************************)
(* The Entrypoint server: client threads that route statements, the        *)
(* Catalog, the Registry with its storage processes, and the Monitor that  *)
(* pings and restarts them.                                                *)
(*                                                                         *)
(* Router::Route holds no lock: a client's statement is a list of steps,   *)
(* each a call of the catalog, of the registry or of the network, and the  *)
(* steps of other clients, of the monitor and crashes come in between.     *)
(* There is one database; naming another would only multiply the tables.   *)
(***************************************************************************)
EXTENDS Registry

CONSTANTS Clients,
          DeadThreshold, \* dead_threshold_ of the monitor
          MaxStatements, \* bound: CREATE and DROP statements
          MaxCrashes     \* bound: storage processes that die of themselves

ASSUME ClusterAssumption == DeadThreshold \in Nat \ {0} /\ {MaxStatements, MaxCrashes} \subseteq Nat

VARIABLES
    hasDatabase, \* Catalog: whether the database is in catalog.json
    catalog,     \* Catalog: its tables
    kind,        \* the kind of statement a client runs
    todo,        \* the steps of it that are left, the first being under way
    exchange,    \* how far the SendToStorage under way is
    probe,       \* the nodes that ProbeOnce has still to ping, as copied
    verdict,     \* what ProbeOnce is about to do to the node it has pinged
    missed,      \* missed_heartbeats_
    statements,  \* auxiliary: statements begun
    alone,       \* auxiliary: no statement has begun while another was under way
    torn,        \* auxiliary: a CREATE or DROP TABLE has lost the answer of its
                 \* shard, or a DROP DATABASE has not reached one
    deadRounds,  \* auxiliary: the rounds of ProbeOnce begun since the node has
                 \* lost its process, and since it was last to be restarted
    crashes      \* auxiliary: crashes so far

catalogVars == <<hasDatabase, catalog>>
clientVars == <<kind, todo, exchange, statements, alone, torn>>
monitorVars == <<probe, verdict, missed, deadRounds>>
vars == <<registryVars, catalogVars, clientVars, monitorVars, crashes>>

NoExchange == [at |-> "lookup", port |-> 0, pid |-> 0, success |-> FALSE]
NoVerdict == [do |-> "nothing", id |-> NoTable]

Idle(c) == todo[c] = <<>>
Step(do, id) == [do |-> do, id |-> id]

Init ==
    /\ RegistryInit
    /\ hasDatabase = FALSE
    /\ catalog = {}
    /\ kind = [c \in Clients |-> "query"]
    /\ todo = [c \in Clients |-> <<>>]
    /\ exchange = [c \in Clients |-> NoExchange]
    /\ probe = {}
    /\ verdict = NoVerdict
    /\ missed = [id \in Tables |-> 0]
    /\ statements = 0
    /\ alone = TRUE
    /\ torn = FALSE
    /\ deadRounds = [id \in Tables |-> 0]
    /\ crashes = 0
-----------------------------------------------------------------------------
(* The beginning of a statement, up to the first call after the catalog *)

CreateDatabase(c) ==
    /\ Idle(c) /\ ~hasDatabase
    /\ hasDatabase' = TRUE
    /\ UNCHANGED <<registryVars, catalog, clientVars, monitorVars, crashes>>

Begin(c, k, steps) ==
    /\ Idle(c) /\ statements < MaxStatements
    /\ kind' = [kind EXCEPT ![c] = k]
    /\ todo' = [todo EXCEPT ![c] = steps]
    /\ exchange' = [exchange EXCEPT ![c] = NoExchange]
    /\ statements' = statements + 1
    /\ alone' = (alone /\ \A d \in Clients : Idle(d))
    /\ UNCHANGED <<registryVars, torn, monitorVars, crashes>>

BeginCreateTable(c, id) ==
    /\ hasDatabase /\ id \notin catalog
    /\ Begin(c, "create", <<Step("register", id), Step("send", id)>>)
    /\ catalog' = catalog \union {id}
    /\ UNCHANGED hasDatabase

BeginDropTable(c, id) ==
    /\ id \in catalog
    /\ Begin(c, "drop", <<Step("send", id)>>)
    /\ UNCHANGED catalogVars

\* Any other statement on a table.
BeginQuery(c, id) ==
    /\ id \in catalog
    /\ Begin(c, "query", <<Step("send", id)>>)
    /\ UNCHANGED catalogVars

\* The tables are dropped one by one, whatever the shards answer.
DropDatabase(c) ==
    /\ hasDatabase
    /\ LET tables == SetToSeq(catalog)
       IN  Begin(c, "dropDatabase", [i \in 1 .. Len(tables) |-> Step("send", tables[i])])
    /\ hasDatabase' = FALSE
    /\ catalog' = {}

(* The steps of a statement *)

Doing(c, do, id) == ~Idle(c) /\ Head(todo[c]) = Step(do, id)
Done(c) == todo' = [todo EXCEPT ![c] = Tail(@)]

\* CREATE TABLE: no storage process, no table.
Register(c, id, works) ==
    /\ Doing(c, "register", id)
    /\ CreateNode(id, works)
    /\ IF nodes'[id] = NoNode
       THEN todo' = [todo EXCEPT ![c] = <<Step("uncatalog", id)>>]
       ELSE Done(c)
    /\ deadRounds' = IF HasNode(id) THEN deadRounds ELSE [deadRounds EXCEPT ![id] = 0]
    /\ UNCHANGED <<catalogVars, kind, exchange, statements, alone, torn, probe, verdict, missed,
                   crashes>>

\* Mutant: leaves the node of a dropped table.
RemainingKeepsNode(c, id, success) ==
    CASE kind[c] = "create" ->
            IF success THEN <<>> ELSE <<Step("unregister", id), Step("uncatalog", id)>>
      [] kind[c] = "drop" -> IF success THEN <<Step("uncatalog", id)>> ELSE <<>>
      [] kind[c] = "query" -> <<>>
      [] kind[c] = "dropDatabase" -> <<Step("unregister", id)>> \o Tail(todo[c])

\* What a statement has left to do when its shard has answered.
Remaining(c, id, success) ==
    CASE kind[c] = "create" ->
            IF success THEN <<>> ELSE <<Step("unregister", id), Step("uncatalog", id)>>
      [] kind[c] = "drop" ->
            IF success THEN <<Step("uncatalog", id), Step("unregister", id)>> ELSE <<>>
      [] kind[c] = "query" -> <<>>
      [] kind[c] = "dropDatabase" -> <<Step("unregister", id)>> \o Tail(todo[c])

\* A statement of one of these kinds is torn by what has happened.
Tears(c, kinds) == torn' = (torn \/ kind[c] \in kinds)

Answered(c, id, success) ==
    /\ todo' = [todo EXCEPT ![c] = Remaining(c, id, success)]
    /\ exchange' = [exchange EXCEPT ![c] = NoExchange]
    /\ UNCHANGED <<registryVars, catalogVars, kind, statements, alone, monitorVars, crashes>>

LookUp(c, id) ==
    /\ Doing(c, "send", id) /\ exchange[c].at = "lookup"
    /\ HasNode(id) /\ nodes[id].state # "down"
    /\ exchange' = [exchange EXCEPT ![c].at = "connect", ![c].port = nodes[id].port]
    /\ UNCHANGED <<registryVars, catalogVars, kind, todo, statements, alone, torn, monitorVars,
                   crashes>>

NoSuchNode(c, id) ==
    /\ Doing(c, "send", id) /\ exchange[c].at = "lookup"
    /\ ~HasNode(id) \/ nodes[id].state = "down"
    /\ Answered(c, id, FALSE) /\ Tears(c, {"dropDatabase"})

\* Connect, send, and what the storage process does; p is the one that listens
\* on the port that was looked up.
Request(c, id, p) ==
    LET statement == IF kind[c] = "dropDatabase" THEN "drop" ELSE kind[c] IN
    /\ Doing(c, "send", id) /\ exchange[c].at = "connect"
    /\ p \in Listening(procs, exchange[c].port)
    /\ Serve(p, statement, id)
    /\ exchange' = [exchange EXCEPT ![c].at = "receive", ![c].pid = p,
                                    ![c].success = Accepts(p, statement, id)]
    /\ UNCHANGED <<catalogVars, kind, todo, statements, alone, torn, monitorVars,
                   crashes>>

CannotConnect(c, id) ==
    /\ Doing(c, "send", id) /\ exchange[c].at = "connect"
    /\ Listening(procs, exchange[c].port) = {}
    /\ Answered(c, id, FALSE) /\ Tears(c, {"dropDatabase"})

Receive(c, id) ==
    /\ Doing(c, "send", id) /\ exchange[c].at = "receive"
    /\ Answered(c, id, exchange[c].success) /\ UNCHANGED torn

\* The process has died before its answer was out.
LoseAnswer(c, id) ==
    /\ Doing(c, "send", id) /\ exchange[c].at = "receive"
    /\ ~procs[exchange[c].pid].alive
    /\ Answered(c, id, FALSE) /\ Tears(c, {"create", "drop"})

Uncatalog(c, id) ==
    /\ Doing(c, "uncatalog", id)
    /\ catalog' = catalog \ {id}
    /\ Done(c)
    /\ UNCHANGED <<registryVars, hasDatabase, kind, exchange, statements, alone, torn, monitorVars,
                   crashes>>

Unregister(c, id) ==
    /\ Doing(c, "unregister", id)
    /\ DropNode(id)
    /\ Done(c)
    /\ deadRounds' = [deadRounds EXCEPT ![id] = 0]
    /\ UNCHANGED <<catalogVars, kind, exchange, statements, alone, torn, probe, verdict, missed,
                   crashes>>

(* Monitor::ProbeOnce *)

LiveNode(id) == \E p \in Pids : procs[p].alive /\ procs[p].dir = id

\* GetNodes copies the nodes.
BeginProbe ==
    /\ probe = {} /\ verdict = NoVerdict
    /\ probe' = {[id |-> id, port |-> nodes[id].port] : id \in {i \in Tables : HasNode(i)}}
    /\ probe' # {}
    /\ deadRounds' = [id \in Tables |-> IF HasNode(id) /\ ~LiveNode(id) THEN deadRounds[id] + 1
                                       ELSE deadRounds[id]]
    /\ UNCHANGED <<registryVars, catalogVars, clientVars, verdict, missed, crashes>>

\* The node answers.
Pong(x) ==
    /\ verdict = NoVerdict /\ x \in probe
    /\ Listening(procs, x.port) # {}
    /\ missed' = [missed EXCEPT ![x.id] = 0]
    /\ verdict' = [do |-> "markUp", id |-> x.id]
    /\ probe' = probe \ {x}
    /\ UNCHANGED <<registryVars, catalogVars, clientVars, deadRounds, crashes>>

\* Mutant: never has enough of misses.
NoPongEver(x) ==
    /\ verdict = NoVerdict /\ x \in probe
    /\ Listening(procs, x.port) = {}
    /\ UNCHANGED <<missed, verdict>>
    /\ probe' = probe \ {x}
    /\ UNCHANGED <<registryVars, catalogVars, clientVars, deadRounds, crashes>>

\* Mutant: does not start counting anew.
NoPongCountsOn(x) ==
    LET dead == missed[x.id] + 1 >= DeadThreshold IN
    /\ verdict = NoVerdict /\ x \in probe
    /\ Listening(procs, x.port) = {}
    /\ missed' = [missed EXCEPT ![x.id] = @ + 1]
    /\ verdict' = IF dead THEN [do |-> "restart", id |-> x.id] ELSE NoVerdict
    /\ probe' = probe \ {x}
    /\ UNCHANGED <<registryVars, catalogVars, clientVars, deadRounds, crashes>>

\* It does not; enough misses make it a case for a restart.
NoPong(x) ==
    LET dead == missed[x.id] + 1 >= DeadThreshold IN
    /\ verdict = NoVerdict /\ x \in probe
    /\ Listening(procs, x.port) = {}
    /\ missed' = [missed EXCEPT ![x.id] = IF dead THEN 0 ELSE @ + 1]
    /\ verdict' = IF dead THEN [do |-> "restart", id |-> x.id] ELSE NoVerdict
    /\ probe' = probe \ {x}
    /\ UNCHANGED <<registryVars, catalogVars, clientVars, deadRounds, crashes>>

MarkUp(id) ==
    /\ verdict = [do |-> "markUp", id |-> id]
    /\ UpdateNode(id, "up")
    /\ verdict' = NoVerdict
    /\ UNCHANGED <<catalogVars, clientVars, probe, missed, deadRounds, crashes>>

Restart(id, works) ==
    /\ verdict = [do |-> "restart", id |-> id]
    /\ RestartNode(id, works)
    /\ verdict' = IF HasNode(id) /\ works THEN NoVerdict ELSE [do |-> "markDown", id |-> id]
    /\ deadRounds' = [deadRounds EXCEPT ![id] = 0]
    /\ UNCHANGED <<catalogVars, clientVars, probe, missed, crashes>>

MarkDown(id) ==
    /\ verdict = [do |-> "markDown", id |-> id]
    /\ UpdateNode(id, "down")
    /\ verdict' = NoVerdict
    /\ UNCHANGED <<catalogVars, clientVars, probe, missed, deadRounds, crashes>>

StorageCrash(p) ==
    /\ crashes < MaxCrashes
    /\ Crash(p)
    /\ crashes' = crashes + 1
    /\ UNCHANGED <<catalogVars, clientVars, monitorVars>>
-----------------------------------------------------------------------------
BeginStatement(c) ==
    \/ CreateDatabase(c) \/ DropDatabase(c)
    \/ \E id \in Tables : BeginCreateTable(c, id) \/ BeginDropTable(c, id) \/ BeginQuery(c, id)

Route(c) == \E id \in Tables :
    \/ \E works \in BOOLEAN : Register(c, id, works)
    \/ LookUp(c, id) \/ NoSuchNode(c, id)
    \/ \E p \in Pids : Request(c, id, p)
    \/ CannotConnect(c, id) \/ Receive(c, id) \/ LoseAnswer(c, id)
    \/ Uncatalog(c, id) \/ Unregister(c, id)

ProbeOnce ==
    \/ BeginProbe
    \/ \E x \in probe : Pong(x) \/ NoPong(x)
    \/ \E id \in Tables : MarkUp(id) \/ MarkDown(id)
    \/ \E id \in Tables, works \in BOOLEAN : Restart(id, works)

Next ==
    \/ \E c \in Clients : BeginStatement(c) \/ Route(c)
    \/ ProbeOnce
    \/ \E p \in Pids : StorageCrash(p)

Spec == Init /\ [][Next]_vars

-----------------------------------------------------------------------------
(* Properties *)

\* Every variable has its type.
TypeOK ==
    /\ RegistryTypeOK
    /\ hasDatabase \in BOOLEAN
    /\ catalog \subseteq Tables
    /\ kind \in [Clients -> {"create", "drop", "query", "dropDatabase"}]
    /\ todo \in [Clients -> Seq([do : {"register", "send", "uncatalog", "unregister"}, id : Tables])]
    /\ exchange \in [Clients -> [at : {"lookup", "connect", "receive"}, port : 0 .. MaxPorts,
                                 pid : 0 .. MaxProcesses, success : BOOLEAN]]
    /\ probe \subseteq [id : Tables, port : 1 .. MaxPorts]
    /\ verdict \in [do : {"markUp", "restart", "markDown"}, id : Tables] \union {NoVerdict}
    /\ missed \in [Tables -> 0 .. DeadThreshold - 1]
    /\ statements \in 0 .. MaxStatements
    /\ alone \in BOOLEAN /\ torn \in BOOLEAN
    /\ deadRounds \in [Tables -> Nat]
    /\ crashes \in 0 .. MaxCrashes

\* While no statement is under way, a table of the catalog has a node, and its
\* files are in its shard directory: it can be used, and it can be dropped.
\* docs/report.tex: "Registry links the catalog's record with a Storage
\* process".
CatalogedIsUsable ==
    (\A c \in Clients : Idle(c)) =>
        \A id \in catalog : HasNode(id) /\ files[id] = id

\* The statements of the clients, one at a time, leave the catalog, the registry
\* and the shard directories in agreement, whether they succeed or fail half-way,
\* and also if processes do not start, crash or are restarted meanwhile: what is
\* in the catalog is usable, and what is not has no node and has left no files,
\* so that it can be created again.  Only two things break it: that a shard did
\* its part of a CREATE or DROP TABLE and its answer was lost, and that a DROP
\* DATABASE did not reach a shard.
\* docs/ARCHITECTURE.md: "DROP TABLE removes the record from the catalog, cleans
\* the files of the shard and stops its process".
StatementsAreWhole ==
    alone /\ ~torn /\ (\A c \in Clients : Idle(c)) =>
        /\ CatalogedIsUsable
        /\ \A id \in Tables \ catalog : ~HasNode(id) /\ files[id] = NoTable

\* The monitor starts a new process for a node that has lost its process within
\* DeadThreshold rounds, whatever the clients do to that node and to others
\* while it pings the ports it has copied.
DeadNodesAreRestarted == \A id \in Tables : deadRounds[id] <= DeadThreshold
=============================================================================

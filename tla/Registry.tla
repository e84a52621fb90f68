------------------------------ MODULE Registry ------------------------------
(***************************************************************************)
(* The server's Registry of storage nodes, the qdb-storage processes it    *)
(* starts and stops, and the shard directories they work in.               *)
(*                                                                         *)
(* Every operation holds nodes_mutex_ from beginning to end, also while it *)
(* waits for a process to start or to exit, so each is one action.  A      *)
(* process opens the table it finds in its directory; it exits if another  *)
(* one listens on its port.  Tables are identified by TableKey.            *)
(***************************************************************************)
EXTENDS Naturals, Sequences, FiniteSets, SequencesExt

CONSTANTS Tables,
          NoTable,      \* no table: an empty directory, a process without table_
          MaxPorts,     \* bound: nodes created in one life of the server
          MaxProcesses, \* bound: processes ever started
          MaxFailures   \* bound: starts that fail

ASSUME RegistryAssumption ==
    /\ NoTable \notin Tables
    /\ {MaxPorts, MaxProcesses, MaxFailures} \subseteq Nat

VARIABLES
    nodes,     \* nodes_
    nextPort,  \* next_port_
    processes, \* processes_: the pid of each node, 0 if there is none
    procs,     \* the processes that were ever started, by pid
    files,     \* the table whose files are in each shard directory
    failures   \* auxiliary: how many starts have failed

registryVars == <<nodes, nextPort, processes, procs, files, failures>>

States == {"unknown", "up", "down"}
NoNode == [port |-> 0, state |-> "down"]
Node == [port : 1 .. MaxPorts, state : States]
Process == [alive : BOOLEAN, dir : Tables, port : 1 .. MaxPorts, table : Tables \union {NoTable}]

Pids == DOMAIN procs
HasNode(id) == nodes[id] # NoNode
Listening(ps, port) == {p \in DOMAIN ps : ps[p].alive /\ ps[p].port = port}

RegistryInit ==
    /\ nodes = [id \in Tables |-> NoNode]
    /\ nextPort = 1
    /\ processes = [id \in Tables |-> 0]
    /\ procs = <<>>
    /\ files = [id \in Tables |-> NoTable]
    /\ failures = 0
-----------------------------------------------------------------------------
\* StopProcessNonSync: the processes after that of the node was killed and
\* waited for.
Stopped(id) ==
    IF processes[id] = 0 THEN procs
    ELSE [procs EXCEPT ![processes[id]].alive = FALSE]

\* StartProcessNonSync, and the constructor and Run of the storage process.
Started(ps, id, port) ==
    Append(ps, [alive |-> Listening(ps, port) = {}, dir |-> id, port |-> port,
                table |-> files[id]])

\* Mutant: starts the new process beside the old one.
ReplaceBesideOld(id, port, works) ==
    /\ procs' = IF works THEN Started(procs, id, port) ELSE procs
    /\ processes' = [processes EXCEPT ![id] = IF works THEN Len(procs) + 1 ELSE 0]

\* The process of the node is replaced by a new one, if that starts.
ReplaceProcess(id, port, works) ==
    /\ procs' = IF works THEN Started(Stopped(id), id, port) ELSE Stopped(id)
    /\ processes' = [processes EXCEPT ![id] = IF works THEN Len(procs) + 1 ELSE 0]

\* works: whether the process can be started and answers in time.
MayStart(works) ==
    /\ Len(procs) < MaxProcesses
    /\ works \/ failures < MaxFailures
    /\ failures' = IF works THEN failures ELSE failures + 1

\* Mutant: takes every node from the same port.
CreateNodeSamePort(id, works) ==
    IF HasNode(id) THEN UNCHANGED registryVars
    ELSE /\ MayStart(works) /\ nextPort <= MaxPorts
         /\ ReplaceProcess(id, nextPort, works)
         /\ nodes' = IF works THEN [nodes EXCEPT ![id] = [port |-> nextPort, state |-> "unknown"]]
                     ELSE nodes
         /\ UNCHANGED <<nextPort, files>>

\* Gives a node if there is one afterwards.
CreateNode(id, works) ==
    IF HasNode(id) THEN UNCHANGED registryVars
    ELSE /\ MayStart(works) /\ nextPort <= MaxPorts
         /\ nextPort' = nextPort + 1
         /\ ReplaceProcess(id, nextPort, works)
         /\ nodes' = IF works THEN [nodes EXCEPT ![id] = [port |-> nextPort, state |-> "unknown"]]
                     ELSE nodes
         /\ UNCHANGED files

UpdateNode(id, state) ==
    /\ nodes' = IF HasNode(id) THEN [nodes EXCEPT ![id].state = state] ELSE nodes
    /\ UNCHANGED <<nextPort, processes, procs, files, failures>>

RestartNode(id, works) ==
    IF ~HasNode(id) THEN UNCHANGED registryVars
    ELSE /\ MayStart(works)
         /\ ReplaceProcess(id, nodes[id].port, works)
         /\ nodes' = [nodes EXCEPT ![id].state = IF works THEN "up" ELSE "down"]
         /\ UNCHANGED <<nextPort, files>>

DropNode(id) ==
    /\ nodes' = [nodes EXCEPT ![id] = NoNode]
    /\ procs' = IF HasNode(id) THEN Stopped(id) ELSE procs
    /\ processes' = IF HasNode(id) THEN [processes EXCEPT ![id] = 0] ELSE processes
    /\ UNCHANGED <<nextPort, files, failures>>

\* A storage process dies of itself.
Crash(p) ==
    /\ procs[p].alive
    /\ procs' = [procs EXCEPT ![p].alive = FALSE]
    /\ UNCHANGED <<nodes, nextPort, processes, files, failures>>
-----------------------------------------------------------------------------
(* The storage process: what Application::ExecuteAst does with a statement. *)

\* Whether the process p says "success" to the statement.
Accepts(p, kind, table) ==
    CASE kind = "create" -> procs[p].table = NoTable
      [] kind = "drop" -> procs[p].table = table
      [] kind = "query" -> procs[p].table # NoTable

\* The table that p and its directory have afterwards.
Serve(p, kind, table) ==
    /\ IF Accepts(p, kind, table) /\ kind \in {"create", "drop"}
       THEN LET new == IF kind = "create" THEN table ELSE NoTable IN
            /\ procs' = [procs EXCEPT ![p].table = new]
            /\ files' = [files EXCEPT ![procs[p].dir] = new]
       ELSE UNCHANGED <<procs, files>>
    /\ UNCHANGED <<nodes, nextPort, processes, failures>>
-----------------------------------------------------------------------------
(* Properties *)

\* Every variable has its type.
RegistryTypeOK ==
    /\ nodes \in [Tables -> Node \union {NoNode}]
    /\ nextPort \in 1 .. MaxPorts + 1
    /\ procs \in Seq(Process)
    /\ processes \in [Tables -> 0 .. Len(procs)]
    /\ files \in [Tables -> Tables \union {NoTable}]
    /\ failures \in 0 .. MaxFailures

\* A shard directory and its process hold the table they were made for, so
\* that a statement sent to a port runs on its own table.
\* docs/ARCHITECTURE.md: "a separate directory of one Storage process and one
\* table".
ShardsKeepToThemselves ==
    /\ \A id \in Tables : files[id] \in {id, NoTable}
    /\ \A p \in Pids : procs[p].alive => procs[p].table = files[procs[p].dir]
    /\ \A id \in Tables, p \in Pids :
         procs[p].alive /\ HasNode(id) /\ procs[p].port = nodes[id].port => procs[p].dir = id

\* Every live process is the one of a registered node: none is left running
\* when its node is dropped, restarted or could not be created.  So no two work
\* in one directory, where they would overwrite each other's pages and journal.
NoOrphans ==
    \A p \in Pids : procs[p].alive => HasNode(procs[p].dir) /\ processes[procs[p].dir] = p
=============================================================================

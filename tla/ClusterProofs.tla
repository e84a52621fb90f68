---------------------------- MODULE ClusterProofs ----------------------------
(***************************************************************************)
(* Theorems about Registry and Cluster: the types, no storage process      *)
(* without its node, no statement on another table's shard, no dead node   *)
(* that the monitor forgets, and statements that are done as a whole, for  *)
(* any number of tables, clients, processes, failing starts and crashes.   *)
(***************************************************************************)
EXTENDS Cluster, FiniteSetTheorems, TLAPS

-----------------------------------------------------------------------------
(* The inductive invariant *)

\* A port is given to one node, and taken by processes in its directory only,
\* also when the node is gone.
PortsAreOwn ==
    /\ \A id \in Tables : HasNode(id) => nodes[id].port < nextPort
    /\ \A p \in Pids : procs[p].port < nextPort
    /\ \A i, j \in Tables : HasNode(i) /\ HasNode(j) /\ nodes[i].port = nodes[j].port => i = j
    /\ \A id \in Tables, p \in Pids :
         HasNode(id) /\ procs[p].port = nodes[id].port => procs[p].dir = id

FilesAreOwn ==
    /\ \A id \in Tables : files[id] \in {id, NoTable}
    /\ \A p \in Pids : procs[p].alive => procs[p].table = files[procs[p].dir]

RegistryInv ==
    /\ RegistryTypeOK
    /\ PortsAreOwn
    /\ FilesAreOwn
    /\ NoOrphans

\* The port belongs to the table, whether there is a node now or not.
PortOf(port, id) ==
    /\ port \in 1 .. MaxPorts /\ port < nextPort
    /\ \A p \in Pids : procs[p].port = port => procs[p].dir = id
    /\ \A i \in Tables : HasNode(i) /\ nodes[i].port = port => i = id

\* A client that is about to connect has looked the port up for its table.
LookedUp(c) ==
    exchange[c].at = "connect" =>
        \E id \in Tables : Doing(c, "send", id) /\ PortOf(exchange[c].port, id)

Kinds == {"create", "drop", "query", "dropDatabase"}
Exchanges == [at : {"lookup", "connect", "receive"}, port : 0 .. MaxPorts, pid : Nat, success : BOOLEAN]

ClientTypes ==
    /\ kind \in [Clients -> Kinds]
    /\ DOMAIN todo = Clients
    /\ exchange \in [Clients -> Exchanges]
    /\ verdict = NoVerdict \/ verdict.id \in Tables
    /\ \A x \in probe : x.id \in Tables

ClusterInv ==
    /\ RegistryInv
    /\ ClientTypes
    /\ \A c \in Clients : LookedUp(c)

\* The monitor has copied ports that are and stay those of their tables.
ProbesFit == \A x \in probe : x.id \in Tables /\ x.port \in 1 .. MaxPorts /\ PortOf(x.port, x.id)

InProbe(id) == \E x \in probe : x.id = id

\* A round that began since the node lost its process has been counted as a
\* miss, is about to be, or has led to the restart that comes next.
DeadAreCounted ==
    /\ missed \in [Tables -> 0 .. DeadThreshold - 1]
    /\ deadRounds \in [Tables -> Nat]
    /\ \A id \in Tables : LiveNode(id) => deadRounds[id] = 0
    /\ \A id \in Tables :
         \/ deadRounds[id] <= missed[id]
         \/ InProbe(id) /\ deadRounds[id] <= missed[id] + 1
         \/ verdict = [do |-> "restart", id |-> id] /\ deadRounds[id] <= DeadThreshold

MonitorInv == ProbesFit /\ DeadAreCounted
-----------------------------------------------------------------------------
(* The registry *)

\* A port remains its table's.
PortsStay ==
    /\ nextPort \in Nat /\ nextPort' >= nextPort
    /\ \A id \in Tables, port \in 1 .. MaxPorts : PortOf(port, id) => PortOf(port, id)'

\* The processes after one was killed.
LEMMA StoppedIs ==
    ASSUME RegistryInv, NEW id \in Tables
    PROVE  /\ Stopped(id) \in Seq(Process) /\ Len(Stopped(id)) = Len(procs)
           /\ DOMAIN Stopped(id) = Pids
           /\ \A p \in Pids : /\ Stopped(id)[p].port = procs[p].port
                              /\ Stopped(id)[p].dir = procs[p].dir
                              /\ Stopped(id)[p].table = procs[p].table
                              /\ Stopped(id)[p].alive <=> procs[p].alive /\ p # processes[id]
<1> USE DEF RegistryInv, RegistryTypeOK
<1>1. /\ DOMAIN procs = 1 .. Len(procs) /\ Len(procs) \in Nat
      /\ \A p \in Pids : procs[p] \in Process
      /\ processes[id] \in 0 .. Len(procs)
  BY DEF Pids
<1>2. CASE processes[id] = 0
  BY <1>1, <1>2 DEF Stopped, Pids
<1>3. CASE processes[id] # 0
  <2> DEFINE x == processes[id]
  <2>1. x \in 1 .. Len(procs)
    BY <1>1, <1>3
  <2>2. Stopped(id) = [procs EXCEPT ![x].alive = FALSE]
    BY <1>3 DEF Stopped
  <2>3. procs[x] \in Process
    BY <1>1, <2>1 DEF Pids
  <2>4. [procs[x] EXCEPT !.alive = FALSE] \in Process
    BY <2>3 DEF Process
  <2> HIDE DEF x
  <2> DEFINE r == [procs EXCEPT ![x] = [procs[x] EXCEPT !.alive = FALSE]]
  <2>5. Stopped(id) = r
    BY <2>2
  <2>6. r \in Seq(Process) /\ Len(r) = Len(procs) /\ DOMAIN r = DOMAIN procs
    BY <1>1, <2>1, <2>4
  <2>7. r[x] = [procs[x] EXCEPT !.alive = FALSE] /\ \A p \in Pids \ {x} : r[p] = procs[p]
    BY <1>1, <2>1 DEF Pids
  <2> HIDE DEF r
  <2>8. /\ r[x].port = procs[x].port /\ r[x].dir = procs[x].dir /\ r[x].table = procs[x].table
        /\ r[x].alive = FALSE
    BY <2>3, <2>7 DEF Process
  <2>9. \A p \in Pids : procs[p].alive \in BOOLEAN
    BY <1>1 DEF Process
  <2> QED BY <2>5, <2>6, <2>7, <2>8, <2>9 DEF Pids, x
<1> QED BY <1>2, <1>3

\* The types that most steps need.
LEMMA RegistryTypes ==
    ASSUME RegistryInv
    PROVE  /\ Len(procs) \in Nat /\ Pids = 1 .. Len(procs) /\ nextPort \in Nat
           /\ \A p \in Pids : procs[p] \in Process
           /\ \A id \in Tables : HasNode(id) => nodes[id] \in Node /\ nodes[id].port \in 1 .. MaxPorts
BY RegistryAssumption DEF RegistryInv, RegistryTypeOK, Pids, HasNode, Node

\* After the process of a node was replaced: nobody else has changed, and who
\* lives in its directory is the new one.
LEMMA ReplacedIs ==
    ASSUME RegistryInv, NEW id \in Tables, NEW port \in 1 .. MaxPorts, NEW works \in BOOLEAN,
           ReplaceProcess(id, port, works)
    PROVE  LET n == Len(procs) + 1 IN
           /\ procs' \in Seq(Process) /\ Pids \subseteq DOMAIN procs'
           /\ processes' \in [Tables -> 0 .. Len(procs')]
           /\ \A p \in Pids : procs'[p].port = procs[p].port /\ procs'[p].dir = procs[p].dir
           /\ \A p \in DOMAIN procs' : p \in Pids \/ (works /\ p = n)
           /\ works => procs'[n].port = port /\ procs'[n].dir = id /\ procs'[n].table = files[id]
           /\ works => processes'[id] = n
           /\ \A i \in Tables \ {id} : processes'[i] = processes[i]
           /\ \A p \in Pids : procs'[p].alive =>
                 procs[p].alive /\ procs[p].dir # id /\ procs'[p].table = procs[p].table
<1> DEFINE n == Len(procs) + 1
           old == Stopped(id)
<1> USE DEF RegistryInv, RegistryTypeOK
<1>1. /\ old \in Seq(Process) /\ Len(old) = Len(procs) /\ DOMAIN old = Pids
      /\ \A p \in Pids : /\ old[p].port = procs[p].port /\ old[p].dir = procs[p].dir
                         /\ old[p].table = procs[p].table
                         /\ old[p].alive <=> procs[p].alive /\ p # processes[id]
  BY StoppedIs
<1>2. Len(procs) \in Nat /\ Pids = 1 .. Len(procs)
  BY DEF Pids
<1>3. \A p \in Pids : old[p].alive => procs[p].alive /\ procs[p].dir # id
  BY <1>1 DEF NoOrphans
<1>4. CASE ~works
  <2>1. procs' = old /\ processes' = [processes EXCEPT ![id] = 0]
    BY <1>4 DEF ReplaceProcess
  <2> HIDE DEF old
  <2>2. processes' \in [Tables -> 0 .. Len(procs')]
    BY <2>1, <1>1, <1>2
  <2> QED BY <2>1, <2>2, <1>1, <1>3, <1>4
<1>5. CASE works
  <2> DEFINE new == [alive |-> Listening(old, port) = {}, dir |-> id, port |-> port,
                     table |-> files[id]]
  <2>1. procs' = Append(old, new) /\ processes' = [processes EXCEPT ![id] = n]
    BY <1>5 DEF ReplaceProcess, Started
  <2>2. new \in Process
    BY DEF Process
  <2>3. new.dir = id /\ new.port = port /\ new.table = files[id]
    OBVIOUS
  <2> HIDE DEF old, new
  <2>4. /\ procs' \in Seq(Process) /\ Len(procs') = n /\ DOMAIN procs' = 1 .. n
        /\ procs'[n] = new /\ \A p \in Pids : procs'[p] = old[p]
    BY <2>1, <2>2, <1>1, <1>2
  <2>5. processes' \in [Tables -> 0 .. Len(procs')]
    BY <2>1, <2>4, <1>2
  <2>6. \A p \in DOMAIN procs' : p \in Pids \/ p = n
    BY <2>4, <1>2
  <2>7. Pids \subseteq DOMAIN procs'
    BY <2>4, <1>2
  <2>8. processes'[id] = n /\ \A i \in Tables \ {id} : processes'[i] = processes[i]
    BY <2>1
  <2> HIDE DEF n
  <2> QED BY <2>3, <2>4, <2>5, <2>6, <2>7, <2>8, <1>1, <1>3, <1>5 DEF n
<1> QED BY <1>4, <1>5

\* A process is started or stopped on a port that is the table's own.
LEMMA ReplaceKeeps ==
    ASSUME RegistryInv, NEW id \in Tables, NEW port \in 1 .. MaxPorts, NEW works \in BOOLEAN,
           ReplaceProcess(id, port, works), UNCHANGED files,
           nodes' \in [Tables -> Node \union {NoNode}], nextPort' \in 1 .. MaxPorts + 1,
           failures' \in 0 .. MaxFailures,
           nextPort' >= nextPort, works => port < nextPort',
           \A p \in Pids : procs[p].port = port => procs[p].dir = id,
           \A i \in Tables : HasNode(i) /\ nodes[i].port = port => i = id,
           \A i \in Tables \ {id} : nodes'[i] = nodes[i],
           works => HasNode(id)',
           HasNode(id)' => nodes'[id].port = port /\ port < nextPort'
    PROVE  RegistryInv'
<1> DEFINE n == Len(procs) + 1
<1> USE DEF RegistryInv, RegistryTypeOK
<1>1. /\ procs' \in Seq(Process) /\ Pids \subseteq DOMAIN procs'
      /\ processes' \in [Tables -> 0 .. Len(procs')]
      /\ \A p \in Pids : procs'[p].port = procs[p].port /\ procs'[p].dir = procs[p].dir
      /\ \A p \in DOMAIN procs' : p \in Pids \/ (works /\ p = n)
      /\ works => procs'[n].port = port /\ procs'[n].dir = id /\ procs'[n].table = files[id]
      /\ works => processes'[id] = n
      /\ \A i \in Tables \ {id} : processes'[i] = processes[i]
      /\ \A p \in Pids : procs'[p].alive =>
            procs[p].alive /\ procs[p].dir # id /\ procs'[p].table = procs[p].table
  BY ReplacedIs
<1>2. Pids' = DOMAIN procs' /\ files' = files
  BY DEF Pids
<1>3. \A p \in Pids : procs[p].port \in 1 .. MaxPorts /\ procs[p].dir \in Tables
  BY RegistryTypes DEF Process
<1>4. \A i \in Tables \ {id} : HasNode(i)' <=> HasNode(i)
  BY DEF HasNode
<1> HIDE DEF n
<1>5. RegistryTypeOK'
  BY <1>1, <1>2
<1>6. PortsAreOwn'
  <2>1. \A i \in Tables : HasNode(i)' => nodes'[i].port < nextPort'
    <3>1. ASSUME NEW i \in Tables \ {id}, HasNode(i)' PROVE nodes'[i].port < nextPort'
      <4>1. nodes'[i].port = nodes[i].port /\ nodes[i].port < nextPort /\ nodes[i].port \in 1 .. MaxPorts
        BY <3>1, <1>4 DEF PortsAreOwn, HasNode, Node
      <4> QED BY <4>1, RegistryAssumption
    <3> QED BY <3>1
  <2>2. \A p \in Pids' : procs'[p].port < nextPort'
    <3>1. ASSUME NEW p \in Pids PROVE procs'[p].port < nextPort'
      <4>1. procs'[p].port = procs[p].port /\ procs[p].port < nextPort /\ procs[p].port \in 1 .. MaxPorts
        BY <1>1, <1>3 DEF PortsAreOwn
      <4> QED BY <4>1, RegistryAssumption
    <3>2. works => procs'[n].port < nextPort'
      BY <1>1
    <3> QED BY <3>1, <3>2, <1>1, <1>2
  <2>3. \A i, j \in Tables : HasNode(i)' /\ HasNode(j)' /\ nodes'[i].port = nodes'[j].port => i = j
    BY <1>4 DEF PortsAreOwn
  <2>4. \A i \in Tables, p \in Pids' :
           HasNode(i)' /\ procs'[p].port = nodes'[i].port => procs'[p].dir = i
    <3>1. ASSUME NEW i \in Tables, HasNode(i)', NEW p \in Pids, procs'[p].port = nodes'[i].port
          PROVE  procs'[p].dir = i
      <4>1. procs'[p].port = procs[p].port /\ procs'[p].dir = procs[p].dir
        BY <1>1
      <4>2. CASE i = id
        BY <3>1, <4>1, <4>2
      <4>3. CASE i # id
        BY <3>1, <4>1, <4>3, <1>4 DEF PortsAreOwn
      <4> QED BY <4>2, <4>3
    <3>2. ASSUME NEW i \in Tables, HasNode(i)', works, procs'[n].port = nodes'[i].port
          PROVE  procs'[n].dir = i
      <4>1. procs'[n].port = port /\ procs'[n].dir = id
        BY <1>1, <3>2
      <4> QED BY <3>2, <4>1, <1>4
    <3> QED BY <3>1, <3>2, <1>1, <1>2
  <2> QED BY <2>1, <2>2, <2>3, <2>4 DEF PortsAreOwn
<1>7. FilesAreOwn'
  <2>1. \A p \in Pids : procs'[p].alive => procs'[p].table = files'[procs'[p].dir]
    BY <1>1, <1>2 DEF FilesAreOwn
  <2>2. works => procs'[n].table = files'[procs'[n].dir]
    BY <1>1, <1>2
  <2>3. \A p \in Pids' : procs'[p].alive => procs'[p].table = files'[procs'[p].dir]
    BY <2>1, <2>2, <1>1, <1>2
  <2> QED BY <2>3, <1>2 DEF FilesAreOwn
<1>8. NoOrphans'
  <2> SUFFICES ASSUME NEW p \in DOMAIN procs', procs'[p].alive
               PROVE  nodes'[procs'[p].dir] # NoNode /\ processes'[procs'[p].dir] = p
    BY <1>2 DEF NoOrphans, HasNode
  <2>1. CASE p \in Pids
    <3>1. procs[p].alive /\ procs[p].dir \in Tables \ {id} /\ procs'[p].dir = procs[p].dir
      BY <1>1, <1>3, <2>1
    <3>2. nodes[procs[p].dir] # NoNode /\ processes[procs[p].dir] = p
      BY <2>1, <3>1 DEF NoOrphans, HasNode
    <3> QED BY <3>1, <3>2, <1>1
  <2>2. CASE works /\ p = n
    BY <1>1, <2>2 DEF HasNode
  <2> QED BY <2>1, <2>2, <1>1
<1> QED BY <1>5, <1>6, <1>7, <1>8

LEMMA CreateNodeKeeps ==
    ASSUME RegistryInv, NEW id \in Tables, NEW works \in BOOLEAN, CreateNode(id, works)
    PROVE  RegistryInv' /\ PortsStay
<1> USE RegistryTypes
<1>1. CASE HasNode(id)
  BY <1>1 DEF CreateNode, registryVars, RegistryInv, RegistryTypeOK, PortsAreOwn, FilesAreOwn,
              NoOrphans, PortsStay, PortOf, HasNode, Pids
<1>2. CASE ~HasNode(id)
  <2>1. /\ ReplaceProcess(id, nextPort, works) /\ nextPort <= MaxPorts /\ nextPort' = nextPort + 1
        /\ nodes' = IF works THEN [nodes EXCEPT ![id] = [port |-> nextPort, state |-> "unknown"]]
                    ELSE nodes
        /\ UNCHANGED files /\ MayStart(works)
    BY <1>2 DEF CreateNode
  <2>2. nextPort \in 1 .. MaxPorts /\ nextPort' \in 1 .. MaxPorts + 1 /\ nextPort' >= nextPort
    BY <2>1, RegistryAssumption DEF RegistryInv, RegistryTypeOK
  <2>3. failures' \in 0 .. MaxFailures
    BY <2>1, RegistryAssumption DEF MayStart, RegistryInv, RegistryTypeOK
  <2>4. /\ nodes' \in [Tables -> Node \union {NoNode}]
        /\ \A i \in Tables \ {id} : nodes'[i] = nodes[i]
        /\ works <=> HasNode(id)'
        /\ HasNode(id)' => nodes'[id].port = nextPort
    BY <1>2, <2>1, <2>2 DEF RegistryInv, RegistryTypeOK, Node, NoNode, States, HasNode
  <2>5. /\ \A p \in Pids : procs[p].port # nextPort
        /\ \A i \in Tables : HasNode(i) => nodes[i].port # nextPort
    BY DEF RegistryInv, PortsAreOwn, Process
  <2>6. RegistryInv'
    BY <2>1, <2>2, <2>3, <2>4, <2>5, ReplaceKeeps
  <2>7. \A p \in Pids' :
           \/ p \in Pids /\ procs'[p].port = procs[p].port /\ procs'[p].dir = procs[p].dir
           \/ procs'[p].port = nextPort
    BY <2>1, <2>2, ReplacedIs DEF Pids
  <2>8. PortsStay
    <3> SUFFICES ASSUME NEW i \in Tables, NEW port \in 1 .. MaxPorts, PortOf(port, i)
                 PROVE  PortOf(port, i)'
      BY <2>2 DEF PortsStay
    <3>1. port < nextPort' /\ port # nextPort
      BY <2>1, RegistryAssumption DEF PortOf
    <3>2. \A p \in Pids' : procs'[p].port = port => procs'[p].dir = i
      BY <2>7, <3>1 DEF PortOf
    <3>3. \A j \in Tables : HasNode(j)' /\ nodes'[j].port = port => j = i
      BY <2>4, <3>1 DEF PortOf, HasNode
    <3> QED BY <3>1, <3>2, <3>3 DEF PortOf
  <2> QED BY <2>6, <2>8
<1> QED BY <1>1, <1>2

LEMMA RestartNodeKeeps ==
    ASSUME RegistryInv, NEW id \in Tables, NEW works \in BOOLEAN, RestartNode(id, works)
    PROVE  RegistryInv' /\ PortsStay
<1> USE RegistryTypes
<1>1. CASE ~HasNode(id)
  BY <1>1 DEF RestartNode, registryVars, RegistryInv, RegistryTypeOK, PortsAreOwn, FilesAreOwn,
              NoOrphans, PortsStay, PortOf, HasNode, Pids
<1>2. CASE HasNode(id)
  <2> DEFINE own == nodes[id].port
  <2>1. /\ ReplaceProcess(id, own, works) /\ nextPort' = nextPort
        /\ nodes' = [nodes EXCEPT ![id].state = IF works THEN "up" ELSE "down"]
        /\ UNCHANGED files /\ MayStart(works)
    BY <1>2 DEF RestartNode
  <2>2. own \in 1 .. MaxPorts /\ own < nextPort
    BY <1>2 DEF RegistryInv, PortsAreOwn
  <2>3. failures' \in 0 .. MaxFailures /\ nextPort' \in 1 .. MaxPorts + 1
    BY <2>1, RegistryAssumption DEF MayStart, RegistryInv, RegistryTypeOK
  <2>4. /\ nodes' \in [Tables -> Node \union {NoNode}]
        /\ \A i \in Tables \ {id} : nodes'[i] = nodes[i]
        /\ HasNode(id)' /\ nodes'[id].port = own
    BY <1>2, <2>1, <2>2 DEF RegistryInv, RegistryTypeOK, Node, NoNode, States, HasNode
  <2>5. /\ \A p \in Pids : procs[p].port = own => procs[p].dir = id
        /\ \A i \in Tables : HasNode(i) /\ nodes[i].port = own => i = id
    BY <1>2 DEF RegistryInv, PortsAreOwn
  <2> HIDE DEF own
  <2>6. RegistryInv'
    BY <2>1, <2>2, <2>3, <2>4, <2>5, ReplaceKeeps
  <2>7. \A p \in Pids' :
           \/ p \in Pids /\ procs'[p].port = procs[p].port /\ procs'[p].dir = procs[p].dir
           \/ procs'[p].port = own /\ procs'[p].dir = id
    <3> DEFINE n == Len(procs) + 1
    <3>1. /\ \A p \in Pids : procs'[p].port = procs[p].port /\ procs'[p].dir = procs[p].dir
          /\ \A p \in DOMAIN procs' : p \in Pids \/ (works /\ p = n)
          /\ works => procs'[n].port = own /\ procs'[n].dir = id
      BY <2>1, <2>2, ReplacedIs
    <3> HIDE DEF n
    <3>2. Pids' = DOMAIN procs'
      BY DEF Pids
    <3>3. ASSUME NEW p \in DOMAIN procs'
          PROVE  \/ p \in Pids /\ procs'[p].port = procs[p].port /\ procs'[p].dir = procs[p].dir
                 \/ procs'[p].port = own /\ procs'[p].dir = id
      BY <3>1
    <3> QED BY <3>3 DEF Pids
  <2>8. PortsStay
    <3> SUFFICES ASSUME NEW i \in Tables, NEW port \in 1 .. MaxPorts, PortOf(port, i)
                 PROVE  PortOf(port, i)'
      BY <2>1 DEF PortsStay
    <3>1. port = own => i = id
      BY <1>2 DEF PortOf, own
    <3>2. \A p \in Pids' : procs'[p].port = port => procs'[p].dir = i
      BY <2>7, <3>1 DEF PortOf
    <3>3. \A j \in Tables : HasNode(j)' /\ nodes'[j].port = port => j = i
      BY <1>2, <2>4, <3>1 DEF PortOf, HasNode, own
    <3> QED BY <2>1, <3>2, <3>3 DEF PortOf
  <2> QED BY <2>6, <2>8
<1> QED BY <1>1, <1>2

LEMMA DropNodeKeeps ==
    ASSUME RegistryInv, NEW id \in Tables, DropNode(id)
    PROVE  RegistryInv' /\ PortsStay
<1> USE RegistryTypes
<1> DEFINE old == Stopped(id)
<1>1. /\ old \in Seq(Process) /\ Len(old) = Len(procs) /\ DOMAIN old = Pids
      /\ \A p \in Pids : /\ old[p].port = procs[p].port /\ old[p].dir = procs[p].dir
                         /\ old[p].table = procs[p].table
                         /\ old[p].alive <=> procs[p].alive /\ p # processes[id]
  BY StoppedIs
<1>2. /\ procs' = IF HasNode(id) THEN old ELSE procs
      /\ processes' = IF HasNode(id) THEN [processes EXCEPT ![id] = 0] ELSE processes
      /\ UNCHANGED <<nextPort, files, failures>>
  BY DEF DropNode
<1> HIDE DEF old
<1>3. /\ procs' \in Seq(Process) /\ Len(procs') = Len(procs) /\ DOMAIN procs' = Pids /\ Pids' = Pids
      /\ \A p \in Pids : /\ procs'[p].port = procs[p].port /\ procs'[p].dir = procs[p].dir
                         /\ procs'[p].table = procs[p].table
                         /\ procs'[p].alive => procs[p].alive /\ procs[p].dir # id
  <2>1. CASE HasNode(id)
    BY <2>1, <1>1, <1>2 DEF Pids, RegistryInv, NoOrphans
  <2>2. CASE ~HasNode(id)
    BY <2>2, <1>2 DEF Pids, RegistryInv, NoOrphans, RegistryTypeOK
  <2> QED BY <2>1, <2>2
<1>4. /\ nodes' \in [Tables -> Node \union {NoNode}] /\ nodes'[id] = NoNode
      /\ \A i \in Tables \ {id} : nodes'[i] = nodes[i]
  BY DEF DropNode, RegistryInv, RegistryTypeOK
<1>5. processes' \in [Tables -> 0 .. Len(procs)] /\ \A i \in Tables \ {id} : processes'[i] = processes[i]
  BY <1>2 DEF RegistryInv, RegistryTypeOK
<1>6. RegistryTypeOK'
  BY <1>2, <1>3, <1>4, <1>5 DEF RegistryInv, RegistryTypeOK
<1>7. \A i \in Tables : HasNode(i)' => HasNode(i) /\ i # id /\ nodes'[i] = nodes[i]
  BY <1>4 DEF HasNode
<1>8. PortsAreOwn'
  BY <1>2, <1>3, <1>7 DEF RegistryInv, PortsAreOwn
<1>9. FilesAreOwn'
  BY <1>2, <1>3 DEF RegistryInv, FilesAreOwn
<1>10. NoOrphans'
  <2> SUFFICES ASSUME NEW p \in Pids, procs'[p].alive
               PROVE  nodes'[procs'[p].dir] # NoNode /\ processes'[procs'[p].dir] = p
    BY <1>3 DEF NoOrphans, HasNode
  <2>1. procs[p].alive /\ procs[p].dir \in Tables \ {id} /\ procs'[p].dir = procs[p].dir
    BY <1>3 DEF Process
  <2>2. nodes[procs[p].dir] # NoNode /\ processes[procs[p].dir] = p
    BY <2>1 DEF RegistryInv, NoOrphans, HasNode
  <2> QED BY <2>1, <2>2, <1>4, <1>5
<1>11. PortsStay
  BY <1>2, <1>3, <1>7 DEF PortsStay, PortOf
<1> QED BY <1>6, <1>8, <1>9, <1>10, <1>11 DEF RegistryInv

LEMMA UpdateNodeKeeps ==
    ASSUME RegistryInv, NEW id \in Tables, NEW state \in States, UpdateNode(id, state)
    PROVE  RegistryInv' /\ PortsStay
<1> USE RegistryTypes
<1>1. UNCHANGED <<nextPort, processes, procs, files, failures>> /\ Pids' = Pids
  BY DEF UpdateNode, Pids
<1>2. /\ nodes' \in [Tables -> Node \union {NoNode}]
      /\ \A i \in Tables : (HasNode(i)' <=> HasNode(i)) /\ nodes'[i].port = nodes[i].port
  BY DEF UpdateNode, RegistryInv, RegistryTypeOK, Node, NoNode, HasNode
<1>3. RegistryTypeOK'
  BY <1>1, <1>2 DEF RegistryInv, RegistryTypeOK
<1>4. PortsAreOwn' /\ FilesAreOwn'
  BY <1>1, <1>2 DEF RegistryInv, PortsAreOwn, FilesAreOwn
<1>5. NoOrphans'
  <2>1. \A p \in Pids : procs[p].alive =>
           procs[p].dir \in Tables /\ nodes'[procs[p].dir] # NoNode /\ processes[procs[p].dir] = p
    BY <1>2 DEF RegistryInv, NoOrphans, HasNode, Process
  <2> QED BY <1>1, <2>1 DEF NoOrphans, HasNode
<1>6. PortsStay
  BY <1>1, <1>2 DEF PortsStay, PortOf
<1> QED BY <1>3, <1>4, <1>5, <1>6 DEF RegistryInv

LEMMA CrashKeeps ==
    ASSUME RegistryInv, NEW x \in Pids, Crash(x)
    PROVE  RegistryInv' /\ PortsStay
<1> USE RegistryTypes
<1>1. UNCHANGED <<nodes, nextPort, processes, files, failures>>
  BY DEF Crash
<1>2. \A i \in Tables : HasNode(i)' <=> HasNode(i)
  BY <1>1 DEF HasNode
<1>3. /\ procs' \in Seq(Process) /\ Len(procs') = Len(procs) /\ Pids' = Pids
      /\ \A p \in Pids : /\ procs'[p].port = procs[p].port /\ procs'[p].dir = procs[p].dir
                         /\ procs'[p].table = procs[p].table
                         /\ procs'[p].alive => procs[p].alive
  <2> DEFINE dead == [procs[x] EXCEPT !.alive = FALSE]
  <2>1. dead \in Process /\ dead.port = procs[x].port /\ dead.dir = procs[x].dir
        /\ dead.table = procs[x].table /\ ~dead.alive
    BY DEF Process
  <2>2. procs' = [procs EXCEPT ![x] = dead]
    BY DEF Crash
  <2> HIDE DEF dead
  <2> QED BY <2>1, <2>2 DEF Pids, RegistryInv, RegistryTypeOK
<1>4. RegistryTypeOK'
  BY <1>1, <1>3 DEF RegistryInv, RegistryTypeOK
<1>5. PortsAreOwn' /\ FilesAreOwn'
  BY <1>1, <1>2, <1>3 DEF RegistryInv, PortsAreOwn, FilesAreOwn
<1>6. NoOrphans'
  BY <1>1, <1>3 DEF RegistryInv, NoOrphans, HasNode
<1>7. PortsStay
  BY <1>1, <1>2, <1>3 DEF PortsStay, PortOf
<1> QED BY <1>4, <1>5, <1>6, <1>7 DEF RegistryInv

\* A process works for its own table, and is the only one in its directory.
LEMMA ServeKeeps ==
    ASSUME RegistryInv, NEW x \in Pids, NEW does, NEW id \in Tables,
           procs[x].alive, procs[x].dir = id, Serve(x, does, id)
    PROVE  RegistryInv' /\ PortsStay
<1> USE RegistryTypes
<1>1. UNCHANGED <<nodes, nextPort, processes, failures>>
  BY DEF Serve
<1>2. \A i \in Tables : HasNode(i)' <=> HasNode(i)
  BY <1>1 DEF HasNode
<1>3. CASE UNCHANGED <<procs, files>>
  BY <1>1, <1>2, <1>3 DEF RegistryInv, RegistryTypeOK, PortsAreOwn, FilesAreOwn, NoOrphans, PortsStay,
                          PortOf, HasNode, Pids
<1>4. ASSUME NEW new \in {id, NoTable}, procs' = [procs EXCEPT ![x].table = new],
             files' = [files EXCEPT ![procs[x].dir] = new]
      PROVE  RegistryInv' /\ PortsStay
  <2> DEFINE served == [procs[x] EXCEPT !.table = new]
  <2>1. served \in Process /\ served.port = procs[x].port /\ served.dir = procs[x].dir
        /\ served.table = new /\ served.alive = procs[x].alive
    BY DEF Process
  <2>2. procs' = [procs EXCEPT ![x] = served]
    BY <1>4
  <2> HIDE DEF served
  <2>3. /\ procs' \in Seq(Process) /\ Len(procs') = Len(procs) /\ Pids' = Pids
        /\ \A p \in Pids : /\ procs'[p].port = procs[p].port /\ procs'[p].dir = procs[p].dir
                           /\ procs'[p].alive = procs[p].alive
                           /\ procs'[p].table = IF p = x THEN new ELSE procs[p].table
    <3>1. procs' \in Seq(Process) /\ Len(procs') = Len(procs) /\ Pids' = Pids
      BY <2>1, <2>2 DEF Pids, RegistryInv, RegistryTypeOK
    <3>2. procs'[x] = served /\ \A p \in Pids \ {x} : procs'[p] = procs[p]
      BY <2>2 DEF Pids
    <3> QED BY <2>1, <3>1, <3>2
  <2>4. /\ files' \in [Tables -> Tables \union {NoTable}] /\ files'[id] = new
        /\ \A i \in Tables \ {id} : files'[i] = files[i]
    BY <1>4 DEF RegistryInv, RegistryTypeOK
  <2>5. RegistryTypeOK'
    BY <1>1, <2>3, <2>4 DEF RegistryInv, RegistryTypeOK
  <2>6. PortsAreOwn' /\ PortsStay
    BY <1>1, <1>2, <2>3 DEF RegistryInv, PortsAreOwn, PortsStay, PortOf
  <2>7. NoOrphans'
    BY <1>1, <2>3 DEF RegistryInv, NoOrphans, HasNode
  <2>8. \A p \in Pids \ {x} : procs[p].alive => procs[p].dir \in Tables \ {id}
    BY DEF RegistryInv, NoOrphans, Process
  <2>9. FilesAreOwn'
    <3>1. \A p \in Pids : procs'[p].alive => procs'[p].table = files'[procs'[p].dir]
      BY <2>3, <2>4, <2>8 DEF RegistryInv, FilesAreOwn
    <3>2. \A i \in Tables : files'[i] \in {i, NoTable}
      BY <2>4 DEF RegistryInv, FilesAreOwn
    <3> QED BY <3>1, <3>2, <2>3 DEF FilesAreOwn
  <2> QED BY <2>5, <2>6, <2>7, <2>9 DEF RegistryInv
<1> QED BY <1>3, <1>4 DEF Serve
-----------------------------------------------------------------------------
(* Clients and monitor *)

LEMMA RegistryStutters ==
    ASSUME RegistryInv, UNCHANGED registryVars
    PROVE  RegistryInv' /\ PortsStay
BY RegistryTypes DEF registryVars, RegistryInv, RegistryTypeOK, PortsAreOwn, FilesAreOwn, NoOrphans,
                     PortsStay, PortOf, HasNode, Pids

\* What a client has looked up stays its table's, as long as it does nothing.
LEMMA LookedUpStays ==
    ASSUME NEW c \in Clients, ClientTypes, LookedUp(c), PortsStay,
           todo'[c] = todo[c], exchange'[c] = exchange[c]
    PROVE  LookedUp(c)'
<1>1. CASE exchange[c].at # "connect"
  BY <1>1 DEF LookedUp
<1>2. CASE exchange[c].at = "connect"
  <2>1. PICK id \in Tables : Doing(c, "send", id) /\ PortOf(exchange[c].port, id)
    BY <1>2 DEF LookedUp
  <2>2. PICK port \in 1 .. MaxPorts : port = exchange[c].port
    BY <2>1 DEF PortOf
  <2>3. PortOf(port, id)'
    BY <2>1, <2>2 DEF PortsStay
  <2>4. exchange'[c].port = port /\ Doing(c, "send", id)'
    BY <2>1, <2>2 DEF Doing, Idle
  <2> QED BY <2>3, <2>4 DEF LookedUp, PortOf
<1> QED BY <1>1, <1>2

\* Nobody but c does anything, and c is not about to connect.
LEMMA ClientMoves ==
    ASSUME ClusterInv, RegistryInv', PortsStay, NEW c \in Clients, ClientTypes',
           \A d \in Clients \ {c} : todo'[d] = todo[d] /\ exchange'[d] = exchange[d],
           exchange'[c].at # "connect"
    PROVE  ClusterInv'
<1>1. \A d \in Clients \ {c} : LookedUp(d)'
  BY LookedUpStays DEF ClusterInv
<1>2. LookedUp(c)'
  BY DEF LookedUp
<1> QED BY <1>1, <1>2 DEF ClusterInv

LEMMA ClientsStay ==
    ASSUME ClusterInv, RegistryInv', PortsStay, UNCHANGED <<kind, todo, exchange>>,
           verdict' = NoVerdict \/ verdict'.id \in Tables,
           \A x \in probe' : x.id \in Tables
    PROVE  ClusterInv'
<1>1. ClientTypes'
  BY DEF ClusterInv, ClientTypes
<1>2. \A d \in Clients : LookedUp(d)'
  BY LookedUpStays DEF ClusterInv
<1> QED BY <1>1, <1>2 DEF ClusterInv

LEMMA ClusterStarts == Init => ClusterInv
<1> SUFFICES ASSUME Init PROVE ClusterInv
  OBVIOUS
<1>1. Pids = {} /\ procs \in Seq(Process) /\ Len(procs) = 0
  BY DEF Init, RegistryInit, Pids
<1>2. RegistryTypeOK
  BY <1>1, RegistryAssumption DEF Init, RegistryInit, RegistryTypeOK
<1>3. PortsAreOwn /\ FilesAreOwn /\ NoOrphans
  BY <1>1 DEF Init, RegistryInit, PortsAreOwn, FilesAreOwn, NoOrphans, HasNode
<1>4. ClientTypes
  BY RegistryAssumption DEF Init, ClientTypes, Kinds, Exchanges, NoExchange
<1>5. \A c \in Clients : LookedUp(c)
  BY DEF Init, NoExchange, LookedUp
<1> QED BY <1>2, <1>3, <1>4, <1>5 DEF ClusterInv, RegistryInv

LEMMA BeginStatementKeeps ==
    ASSUME ClusterInv, NEW c \in Clients, BeginStatement(c)
    PROVE  ClusterInv'
<1> USE DEF ClusterInv
<1>1. RegistryInv' /\ PortsStay
  <2>1. UNCHANGED registryVars
    BY DEF BeginStatement, CreateDatabase, DropDatabase, BeginCreateTable, BeginDropTable, BeginQuery, Begin
  <2> QED BY <2>1, RegistryStutters
<1>2. CASE CreateDatabase(c)
  <2>1. UNCHANGED <<kind, todo, exchange, probe, verdict>>
    BY <1>2 DEF CreateDatabase, clientVars, monitorVars
  <2> QED BY <1>1, <2>1, ClientsStay DEF ClientTypes
<1>3. ASSUME NEW k \in Kinds, NEW steps, Begin(c, k, steps) PROVE ClusterInv'
  <2>1. /\ kind' = [kind EXCEPT ![c] = k] /\ todo' = [todo EXCEPT ![c] = steps]
        /\ exchange' = [exchange EXCEPT ![c] = NoExchange] /\ verdict' = verdict /\ probe' = probe
    BY <1>3 DEF Begin, monitorVars
  <2>2. NoExchange \in Exchanges /\ NoExchange.at # "connect"
    BY RegistryAssumption DEF NoExchange, Exchanges
  <2>3. ClientTypes' /\ exchange'[c] = NoExchange
    BY <2>1, <2>2 DEF ClientTypes
  <2>4. \A d \in Clients \ {c} : todo'[d] = todo[d] /\ exchange'[d] = exchange[d]
    BY <2>1 DEF ClientTypes
  <2> QED BY <1>1, <2>2, <2>3, <2>4, ClientMoves
<1>4. \/ CreateDatabase(c)
      \/ \E k \in Kinds : \E steps : Begin(c, k, steps)
  <2>1. CASE DropDatabase(c)
    BY <2>1 DEF DropDatabase, Kinds
  <2>2. ASSUME NEW id \in Tables, BeginCreateTable(c, id) \/ BeginDropTable(c, id) \/ BeginQuery(c, id)
        PROVE  \E k \in Kinds : \E steps : Begin(c, k, steps)
    BY <2>2 DEF BeginCreateTable, BeginDropTable, BeginQuery, Kinds
  <2> QED BY <2>1, <2>2 DEF BeginStatement
<1> QED BY <1>2, <1>3, <1>4

\* A client has one step under way.
LEMMA OneStep ==
    ASSUME NEW c \in Clients, NEW do, NEW id, NEW other, NEW x,
           Doing(c, do, id), Doing(c, other, x)
    PROVE  do = other /\ id = x
BY DEF Doing, Step

LEMMA NotConnecting ==
    ASSUME ClusterInv, NEW c \in Clients, NEW do, do # "send", NEW id, Doing(c, do, id)
    PROVE  exchange[c].at # "connect"
BY OneStep DEF ClusterInv, LookedUp

\* A step of a statement that leaves the exchange as it is.
LEMMA StepDone ==
    ASSUME ClusterInv, RegistryInv', PortsStay, NEW c \in Clients, NEW rest,
           exchange[c].at # "connect", todo' = [todo EXCEPT ![c] = rest],
           UNCHANGED <<kind, exchange, probe, verdict>>
    PROVE  ClusterInv'
<1>1. ClientTypes' /\ \A d \in Clients \ {c} : todo'[d] = todo[d]
  BY DEF ClusterInv, ClientTypes
<1> QED BY <1>1, ClientMoves

\* The answer of a shard, or none.
LEMMA AnsweredKeeps ==
    ASSUME ClusterInv, NEW c \in Clients, NEW id \in Tables, NEW success, Answered(c, id, success)
    PROVE  ClusterInv'
<1> USE DEF ClusterInv
<1>1. RegistryInv' /\ PortsStay
  BY RegistryStutters DEF Answered
<1>2. /\ todo' = [todo EXCEPT ![c] = Remaining(c, id, success)]
      /\ exchange' = [exchange EXCEPT ![c] = NoExchange] /\ UNCHANGED <<kind, probe, verdict>>
  BY DEF Answered, monitorVars
<1>3. NoExchange \in Exchanges /\ NoExchange.at # "connect"
  BY RegistryAssumption DEF NoExchange, Exchanges
<1>4. ClientTypes' /\ exchange'[c] = NoExchange
  BY <1>2, <1>3 DEF ClientTypes
<1>5. \A d \in Clients \ {c} : todo'[d] = todo[d] /\ exchange'[d] = exchange[d]
  BY <1>2 DEF ClientTypes
<1> QED BY <1>1, <1>3, <1>4, <1>5, ClientMoves

LEMMA RegisterKeeps ==
    ASSUME ClusterInv, NEW c \in Clients, NEW id \in Tables, NEW works \in BOOLEAN,
           Register(c, id, works)
    PROVE  ClusterInv'
<1>1. RegistryInv' /\ PortsStay
  BY CreateNodeKeeps DEF Register, ClusterInv
<1>2. exchange[c].at # "connect"
  BY NotConnecting DEF Register
<1>3. UNCHANGED <<kind, exchange, probe, verdict>>
  BY DEF Register
<1>4. PICK rest : todo' = [todo EXCEPT ![c] = rest]
  <2>1. CASE nodes'[id] = NoNode
    BY <2>1 DEF Register
  <2>2. CASE nodes'[id] # NoNode
    <3>1. todo' = [todo EXCEPT ![c] = Tail(todo[c])]
      BY <2>2 DEF Register, Done
    <3> QED BY <3>1
  <2> QED BY <2>1, <2>2
<1> QED BY <1>1, <1>2, <1>3, <1>4, StepDone

LEMMA UncatalogKeeps ==
    ASSUME ClusterInv, NEW c \in Clients, NEW id \in Tables, Uncatalog(c, id)
    PROVE  ClusterInv'
<1>1. RegistryInv' /\ PortsStay
  BY RegistryStutters DEF Uncatalog, ClusterInv
<1>2. exchange[c].at # "connect"
  BY NotConnecting DEF Uncatalog
<1>3. UNCHANGED <<kind, exchange, probe, verdict>>
  BY DEF Uncatalog, monitorVars
<1>4. todo' = [todo EXCEPT ![c] = Tail(todo[c])]
  BY DEF Uncatalog, Done
<1> QED BY <1>1, <1>2, <1>3, <1>4, StepDone

LEMMA UnregisterKeeps ==
    ASSUME ClusterInv, NEW c \in Clients, NEW id \in Tables, Unregister(c, id)
    PROVE  ClusterInv'
<1>1. RegistryInv' /\ PortsStay
  BY DropNodeKeeps DEF Unregister, ClusterInv
<1>2. exchange[c].at # "connect"
  BY NotConnecting DEF Unregister
<1>3. UNCHANGED <<kind, exchange, probe, verdict>>
  BY DEF Unregister
<1>4. todo' = [todo EXCEPT ![c] = Tail(todo[c])]
  BY DEF Unregister, Done
<1> QED BY <1>1, <1>2, <1>3, <1>4, StepDone

LEMMA LookUpKeeps ==
    ASSUME ClusterInv, NEW c \in Clients, NEW id \in Tables, LookUp(c, id)
    PROVE  ClusterInv'
<1> USE DEF ClusterInv
<1>1. RegistryInv' /\ PortsStay /\ UNCHANGED <<nodes, nextPort, procs>>
  BY RegistryStutters DEF LookUp, registryVars
<1>2. UNCHANGED <<kind, todo, probe, verdict>> /\ Doing(c, "send", id) /\ HasNode(id)
  BY DEF LookUp, monitorVars
<1>3. exchange' = [exchange EXCEPT ![c].at = "connect", ![c].port = nodes[id].port]
  BY DEF LookUp
<1>4. nodes[id].port \in 1 .. MaxPorts /\ PortOf(nodes[id].port, id)
  BY <1>2, RegistryTypes DEF RegistryInv, PortsAreOwn, PortOf
<1>5. /\ exchange' \in [Clients -> Exchanges] /\ exchange'[c].port = nodes[id].port
      /\ \A d \in Clients \ {c} : exchange'[d] = exchange[d]
  <2> DEFINE port == nodes[id].port
             e == [exchange[c] EXCEPT !.at = "connect", !.port = port]
  <2>1. exchange' = [exchange EXCEPT ![c] = e]
    BY <1>3
  <2>2. port \in 0 .. MaxPorts
    BY <1>4, RegistryAssumption
  <2> HIDE DEF port
  <2>3. e \in Exchanges /\ e.port = port
    BY <2>2 DEF ClientTypes, Exchanges
  <2> HIDE DEF e
  <2> QED BY <2>1, <2>3 DEF ClientTypes, port
<1>6. ClientTypes'
  BY <1>2, <1>5 DEF ClientTypes
<1>7. LookedUp(c)'
  <2>1. PortOf(nodes[id].port, id)' /\ Doing(c, "send", id)'
    BY <1>1, <1>2, <1>4 DEF PortOf, Doing, Idle, HasNode, Pids
  <2> QED BY <1>1, <1>5, <2>1 DEF LookedUp
<1>8. \A d \in Clients \ {c} : LookedUp(d)'
  BY <1>1, <1>2, <1>5, LookedUpStays
<1> QED BY <1>1, <1>6, <1>7, <1>8

\* The process that listens on the port works for the table of the statement.
LEMMA RequestFinds ==
    ASSUME ClusterInv, NEW c \in Clients, NEW id \in Tables, NEW p \in Pids, Request(c, id, p)
    PROVE  procs[p].dir = id
<1>1. /\ Doing(c, "send", id) /\ exchange[c].at = "connect"
      /\ procs[p].port = exchange[c].port
  BY DEF Request, Listening
<1>2. PICK x \in Tables : Doing(c, "send", x) /\ PortOf(exchange[c].port, x)
  BY <1>1 DEF ClusterInv, LookedUp
<1>3. x = id
  BY <1>1, <1>2, OneStep
<1> QED BY <1>1, <1>2, <1>3 DEF PortOf

LEMMA RequestKeeps ==
    ASSUME ClusterInv, NEW c \in Clients, NEW id \in Tables, NEW p \in Pids, Request(c, id, p)
    PROVE  ClusterInv'
<1> USE DEF ClusterInv
<1> DEFINE does == IF kind[c] = "dropDatabase" THEN "drop" ELSE kind[c]
<1>1. /\ Doing(c, "send", id) /\ exchange[c].at = "connect"
      /\ procs[p].alive /\ procs[p].port = exchange[c].port
      /\ Serve(p, does, id) /\ UNCHANGED <<kind, todo, probe, verdict>>
  BY DEF Request, Listening, monitorVars
<1>2. procs[p].dir = id
  BY RequestFinds
<1>3. RegistryInv' /\ PortsStay
  BY <1>1, <1>2, ServeKeeps
<1>4. Accepts(p, does, id) \in BOOLEAN
  <2>1. does \in {"create", "drop", "query"}
    BY DEF ClientTypes, Kinds
  <2> QED BY <2>1 DEF Accepts
<1>5. exchange' = [exchange EXCEPT ![c].at = "receive", ![c].pid = p, ![c].success = Accepts(p, does, id)]
  BY DEF Request
<1> HIDE DEF does
<1>6. /\ exchange' \in [Clients -> Exchanges] /\ exchange'[c].at # "connect"
      /\ \A d \in Clients \ {c} : exchange'[d] = exchange[d]
  <2> DEFINE ok == Accepts(p, does, id)
             e == [exchange[c] EXCEPT !.at = "receive", !.pid = p, !.success = ok]
  <2>1. exchange' = [exchange EXCEPT ![c] = e]
    BY <1>5
  <2>2. p \in Nat /\ ok \in BOOLEAN
    BY <1>4, RegistryTypes
  <2> HIDE DEF ok
  <2>3. e \in Exchanges /\ e.at = "receive"
    BY <2>2 DEF ClientTypes, Exchanges
  <2> HIDE DEF e
  <2> QED BY <2>1, <2>3 DEF ClientTypes
<1>7. ClientTypes'
  BY <1>1, <1>6 DEF ClientTypes
<1> QED BY <1>1, <1>3, <1>6, <1>7, ClientMoves

LEMMA RouteKeeps ==
    ASSUME ClusterInv, NEW c \in Clients, Route(c)
    PROVE  ClusterInv'
<1>1. PICK id \in Tables :
         \/ \E works \in BOOLEAN : Register(c, id, works)
         \/ LookUp(c, id) \/ NoSuchNode(c, id)
         \/ \E p \in Pids : Request(c, id, p)
         \/ CannotConnect(c, id) \/ Receive(c, id) \/ LoseAnswer(c, id)
         \/ Uncatalog(c, id) \/ Unregister(c, id)
  BY DEF Route
<1>2. CASE NoSuchNode(c, id) \/ CannotConnect(c, id) \/ Receive(c, id) \/ LoseAnswer(c, id)
  <2>1. \E success : Answered(c, id, success)
    BY <1>2 DEF NoSuchNode, CannotConnect, Receive, LoseAnswer
  <2> QED BY <2>1, AnsweredKeeps
<1> QED BY <1>1, <1>2, RegisterKeeps, LookUpKeeps, RequestKeeps, UncatalogKeeps, UnregisterKeeps

LEMMA ProbeOnceKeeps ==
    ASSUME ClusterInv, ProbeOnce
    PROVE  ClusterInv'
<1>1. UNCHANGED <<kind, todo, exchange>>
  BY DEF ProbeOnce, BeginProbe, Pong, NoPong, MarkUp, MarkDown, Restart, clientVars
<1>2. /\ verdict' = NoVerdict \/ verdict'.id \in Tables
      /\ \A x \in probe' : x.id \in Tables
  <2>1. CASE BeginProbe
    BY <2>1 DEF BeginProbe, ClusterInv, ClientTypes
  <2>2. CASE \E x \in probe : Pong(x) \/ NoPong(x)
    BY <2>2 DEF Pong, NoPong, ClusterInv, ClientTypes
  <2>3. CASE \E id \in Tables : MarkUp(id) \/ MarkDown(id)
    BY <2>3 DEF MarkUp, MarkDown, ClusterInv, ClientTypes
  <2>4. CASE \E id \in Tables, works \in BOOLEAN : Restart(id, works)
    BY <2>4 DEF Restart, ClusterInv, ClientTypes
  <2> QED BY <2>1, <2>2, <2>3, <2>4 DEF ProbeOnce
<1>3. RegistryInv' /\ PortsStay
  <2>1. CASE UNCHANGED registryVars
    BY <2>1, RegistryStutters DEF ClusterInv
  <2>2. ASSUME NEW id \in Tables, MarkUp(id) \/ MarkDown(id) PROVE RegistryInv' /\ PortsStay
    <3>1. UpdateNode(id, "up") \/ UpdateNode(id, "down")
      BY <2>2 DEF MarkUp, MarkDown
    <3> QED BY <3>1, UpdateNodeKeeps DEF ClusterInv, States
  <2>3. ASSUME NEW id \in Tables, NEW works \in BOOLEAN, Restart(id, works)
        PROVE  RegistryInv' /\ PortsStay
    BY <2>3, RestartNodeKeeps DEF Restart, ClusterInv
  <2> QED BY <2>1, <2>2, <2>3 DEF ProbeOnce, BeginProbe, Pong, NoPong
<1> QED BY <1>1, <1>2, <1>3, ClientsStay

LEMMA StorageCrashKeeps ==
    ASSUME ClusterInv, NEW p \in Pids, StorageCrash(p)
    PROVE  ClusterInv'
<1>1. RegistryInv' /\ PortsStay
  BY CrashKeeps DEF StorageCrash, ClusterInv
<1>2. UNCHANGED <<kind, todo, exchange, probe, verdict>>
  BY DEF StorageCrash, clientVars, monitorVars
<1> QED BY <1>1, <1>2, ClientsStay DEF ClusterInv, ClientTypes

LEMMA ClusterStutters ==
    ASSUME ClusterInv, UNCHANGED vars
    PROVE  ClusterInv'
<1>1. RegistryInv' /\ PortsStay
  BY RegistryStutters DEF vars, ClusterInv
<1>2. UNCHANGED <<kind, todo, exchange, probe, verdict>>
  BY DEF vars, clientVars, monitorVars
<1> QED BY <1>1, <1>2, ClientsStay DEF ClusterInv, ClientTypes
-----------------------------------------------------------------------------
(* Theorems *)

\* The registry, the processes, the shard directories and what clients have
\* looked up fit together, whatever clients, monitor and crashes do in between.
THEOREM ClusterInvariant == Spec => []ClusterInv
<1>1. Init => ClusterInv
  BY ClusterStarts
<1>2. ClusterInv /\ [Next]_vars => ClusterInv'
  <2> SUFFICES ASSUME ClusterInv, [Next]_vars PROVE ClusterInv'
    OBVIOUS
  <2>1. CASE \E c \in Clients : BeginStatement(c) \/ Route(c)
    BY <2>1, BeginStatementKeeps, RouteKeeps
  <2>2. CASE ProbeOnce
    BY <2>2, ProbeOnceKeeps
  <2>3. CASE \E p \in Pids : StorageCrash(p)
    BY <2>3, StorageCrashKeeps
  <2>4. CASE UNCHANGED vars
    BY <2>4, ClusterStutters
  <2> QED BY <2>1, <2>2, <2>3, <2>4 DEF Next
<1> QED BY <1>1, <1>2, PTL DEF Spec

\* The registry's variables always have their types.
THEOREM RegistryTypeCorrect == Spec => []RegistryTypeOK
<1>1. ClusterInv => RegistryTypeOK
  BY DEF ClusterInv, RegistryInv
<1> QED BY <1>1, ClusterInvariant, PTL

\* A statement always runs on the shard of its own table: the files there are
\* that table's or none, the live process has what the files have, and nobody
\* else listens on the port of the node, although ports are looked up without
\* a lock and processes are killed, dropped and restarted meanwhile.
THEOREM ShardsAlwaysKeepToThemselves == Spec => []ShardsKeepToThemselves
<1>1. ClusterInv => ShardsKeepToThemselves
  BY DEF ClusterInv, RegistryInv, PortsAreOwn, FilesAreOwn, ShardsKeepToThemselves
<1> QED BY <1>1, ClusterInvariant, PTL

\* No storage process ever outlives its node, and no two work in one directory.
THEOREM NeverAnyOrphans == Spec => []NoOrphans
<1>1. ClusterInv => NoOrphans
  BY DEF ClusterInv, RegistryInv
<1> QED BY <1>1, ClusterInvariant, PTL

RequestsReachTheirShard ==
    \A c \in Clients, id \in Tables, p \in Pids : Request(c, id, p) => procs[p].dir = id

\* The request of a client goes to a process of its own table, although
\* SendToStorage connects to a port it has copied, whose node may have been
\* dropped, restarted or replaced since.
THEOREM RequestsAlwaysReachTheirShard == Spec => [][RequestsReachTheirShard]_vars
<1>1. ClusterInv /\ [Next]_vars => [RequestsReachTheirShard]_vars
  <2> SUFFICES ASSUME ClusterInv PROVE RequestsReachTheirShard
    OBVIOUS
  <2>1. ASSUME NEW c \in Clients, NEW id \in Tables, NEW p \in Pids, Request(c, id, p)
        PROVE  procs[p].dir = id
    BY <2>1, RequestFinds
  <2> QED BY <2>1 DEF RequestsReachTheirShard
<1> QED BY <1>1, ClusterInvariant, PTL DEF Spec
-----------------------------------------------------------------------------
(* The monitor *)

\* Nobody lives that did not live before.
NobodyRises(p) ==
    procs'[p].alive => p \in Pids /\ procs[p].alive /\ procs'[p].dir = procs[p].dir

\* A directory without a process stays without, but for the named table's.
StaysDead(id) == LiveNode(id)' => LiveNode(id)

LEMMA DeadStayDead ==
    ASSUME NEW id, \A p \in DOMAIN procs' : procs'[p].dir = id => NobodyRises(p)
    PROVE  StaysDead(id)
BY DEF NobodyRises, StaysDead, LiveNode, Pids

\* Killing one, or serving a statement, brings nobody to life.
LEMMA KilledIs ==
    ASSUME RegistryInv, NEW id \in Tables, procs' = procs \/ procs' = Stopped(id)
    PROVE  \A p \in DOMAIN procs' : NobodyRises(p)
BY StoppedIs DEF NobodyRises, Pids

LEMMA CrashedIs ==
    ASSUME RegistryInv, NEW p \in Pids, Crash(p)
    PROVE  \A i \in DOMAIN procs' : NobodyRises(i)
<1>1. procs' = [procs EXCEPT ![p] = [procs[p] EXCEPT !.alive = FALSE]] /\ procs[p] \in Process
  BY RegistryTypes DEF Crash
<1> DEFINE dead == [procs[p] EXCEPT !.alive = FALSE]
<1>2. dead.alive = FALSE /\ dead.dir = procs[p].dir
  BY <1>1 DEF Process
<1> HIDE DEF dead
<1>3. DOMAIN procs' = Pids /\ procs'[p] = dead /\ \A i \in Pids \ {p} : procs'[i] = procs[i]
  BY <1>1 DEF Pids, dead
<1> QED BY <1>2, <1>3 DEF NobodyRises

LEMMA ServedIs ==
    ASSUME RegistryInv, NEW x \in Pids, NEW does, NEW id, Serve(x, does, id)
    PROVE  \A p \in DOMAIN procs' : NobodyRises(p)
<1>1. CASE procs' = procs
  BY <1>1 DEF NobodyRises, Pids
<1>2. ASSUME NEW new, procs' = [procs EXCEPT ![x].table = new]
      PROVE  \A p \in DOMAIN procs' : NobodyRises(p)
  <2> DEFINE served == [procs[x] EXCEPT !.table = new]
  <2>1. procs' = [procs EXCEPT ![x] = served]
    BY <1>2
  <2>2. procs[x] \in Process
    BY RegistryTypes
  <2>3. served.alive = procs[x].alive /\ served.dir = procs[x].dir
    BY <2>2 DEF Process
  <2> HIDE DEF served
  <2>4. DOMAIN procs' = Pids /\ procs'[x] = served /\ \A i \in Pids \ {x} : procs'[i] = procs[i]
    BY <2>1 DEF Pids
  <2> QED BY <2>3, <2>4 DEF NobodyRises
<1> QED BY <1>1, <1>2 DEF Serve

\* A process that is started lives in the directory of its node.
LEMMA ReplacedRises ==
    ASSUME RegistryInv, NEW id \in Tables, NEW port \in 1 .. MaxPorts, NEW works \in BOOLEAN,
           ReplaceProcess(id, port, works)
    PROVE  \A i \in Tables \ {id} : StaysDead(i)
BY ReplacedIs, DeadStayDead DEF NobodyRises

\* Only the registration of a new node and the monitor's restart, which count
\* anew, bring a node to life; ports stay with their tables.
LEMMA RegistryMoves ==
    ASSUME ClusterInv, DOMAIN deadRounds = Tables, [Next]_vars
    PROVE  /\ PortsStay
           /\ \A id \in Tables : StaysDead(id) \/ deadRounds'[id] = 0
<1> USE DEF ClusterInv
<1>1. CASE UNCHANGED registryVars
  <2>1. procs' = procs
    BY <1>1 DEF registryVars
  <2>2. \A id \in Tables : StaysDead(id)
    BY <2>1 DEF StaysDead, LiveNode, Pids
  <2> QED BY <1>1, <2>2, RegistryStutters
<1>2. ASSUME NEW c \in Clients, NEW id \in Tables, NEW works \in BOOLEAN, Register(c, id, works)
      PROVE  PortsStay /\ \A i \in Tables : StaysDead(i) \/ deadRounds'[i] = 0
  <2>1. CreateNode(id, works)
    BY <1>2 DEF Register
  <2>2. PortsStay
    BY <2>1, CreateNodeKeeps
  <2>3. CASE HasNode(id)
    <3>1. UNCHANGED registryVars
      BY <2>1, <2>3 DEF CreateNode
    <3> QED BY <3>1, <1>1
  <2>4. CASE ~HasNode(id)
    <3>1. ReplaceProcess(id, nextPort, works) /\ nextPort \in 1 .. MaxPorts
      BY <2>1, <2>4, RegistryAssumption DEF CreateNode, RegistryInv, RegistryTypeOK
    <3>2. deadRounds'[id] = 0
      BY <1>2, <2>4 DEF Register
    <3> QED BY <2>2, <3>1, <3>2, ReplacedRises
  <2> QED BY <2>3, <2>4
<1>3. ASSUME NEW c \in Clients, NEW id \in Tables, Unregister(c, id)
      PROVE  PortsStay /\ \A i \in Tables : StaysDead(i) \/ deadRounds'[i] = 0
  <2>1. DropNode(id)
    BY <1>3 DEF Unregister
  <2>2. procs' = procs \/ procs' = Stopped(id)
    BY <2>1 DEF DropNode
  <2> QED BY <2>1, <2>2, DropNodeKeeps, KilledIs, DeadStayDead
<1>4. ASSUME NEW c \in Clients, NEW id \in Tables, NEW p \in Pids, Request(c, id, p)
      PROVE  PortsStay /\ \A i \in Tables : StaysDead(i) \/ deadRounds'[i] = 0
  <2>1. procs[p].dir = id /\ procs[p].alive
    BY <1>4, RequestFinds DEF Request, Listening
  <2>2. PICK does : Serve(p, does, id)
    BY <1>4 DEF Request
  <2> QED BY <2>1, <2>2, ServeKeeps, ServedIs, DeadStayDead
<1>5. ASSUME NEW id \in Tables, MarkUp(id) \/ MarkDown(id)
      PROVE  PortsStay /\ \A i \in Tables : StaysDead(i) \/ deadRounds'[i] = 0
  <2>1. UpdateNode(id, "up") \/ UpdateNode(id, "down")
    BY <1>5 DEF MarkUp, MarkDown
  <2>2. procs' = procs
    BY <2>1 DEF UpdateNode
  <2> QED BY <2>1, <2>2, UpdateNodeKeeps DEF States, StaysDead, LiveNode, Pids
<1>6. ASSUME NEW id \in Tables, NEW works \in BOOLEAN, Restart(id, works)
      PROVE  PortsStay /\ \A i \in Tables : StaysDead(i) \/ deadRounds'[i] = 0
  <2>1. RestartNode(id, works) /\ deadRounds' = [deadRounds EXCEPT ![id] = 0]
    BY <1>6 DEF Restart
  <2>2. PortsStay
    BY <2>1, RestartNodeKeeps
  <2>3. CASE ~HasNode(id)
    <3>1. UNCHANGED registryVars
      BY <2>1, <2>3 DEF RestartNode
    <3> QED BY <3>1, <1>1
  <2>4. CASE HasNode(id)
    <3>1. ReplaceProcess(id, nodes[id].port, works) /\ nodes[id].port \in 1 .. MaxPorts
      BY <2>1, <2>4, RegistryTypes DEF RestartNode
    <3> QED BY <2>1, <2>2, <3>1, ReplacedRises
  <2> QED BY <2>3, <2>4
<1>7. ASSUME NEW p \in Pids, StorageCrash(p)
      PROVE  PortsStay /\ \A i \in Tables : StaysDead(i) \/ deadRounds'[i] = 0
  <2>1. Crash(p)
    BY <1>7 DEF StorageCrash
  <2> QED BY <2>1, CrashKeeps, CrashedIs, DeadStayDead
<1>8. ASSUME NEW c \in Clients, BeginStatement(c)
      PROVE  UNCHANGED registryVars
  BY <1>8 DEF BeginStatement, CreateDatabase, DropDatabase, BeginCreateTable, BeginDropTable, BeginQuery, Begin
<1>9. ASSUME NEW c \in Clients, NEW id \in Tables,
             LookUp(c, id) \/ NoSuchNode(c, id) \/ CannotConnect(c, id) \/ Receive(c, id)
               \/ LoseAnswer(c, id) \/ Uncatalog(c, id)
      PROVE  UNCHANGED registryVars
  BY <1>9 DEF LookUp, NoSuchNode, CannotConnect, Receive, LoseAnswer, Uncatalog, Answered
<1>10. ASSUME BeginProbe \/ \E x \in probe : Pong(x) \/ NoPong(x)
       PROVE  UNCHANGED registryVars
  BY <1>10 DEF BeginProbe, Pong, NoPong
<1>11. UNCHANGED vars => UNCHANGED registryVars
  BY DEF vars
<1> QED BY <1>1, <1>2, <1>3, <1>4, <1>5, <1>6, <1>7, <1>8, <1>9, <1>10, <1>11 DEF Next, Route, ProbeOnce

LEMMA MonitorStarts == Init => MonitorInv
BY ClusterAssumption DEF Init, RegistryInit, MonitorInv, ProbesFit, DeadAreCounted, LiveNode, Pids

LEMMA ProbesStay ==
    ASSUME MonitorInv, PortsStay, probe' \subseteq probe
    PROVE  ProbesFit'
<1> SUFFICES ASSUME NEW x \in probe
             PROVE  x.id \in Tables /\ x.port \in 1 .. MaxPorts /\ PortOf(x.port, x.id)'
  BY DEF ProbesFit
<1> QED BY DEF MonitorInv, ProbesFit, PortsStay

\* The rounds are counted as before, or anew.
LEMMA CountsStay ==
    ASSUME MonitorInv, \A id \in Tables : StaysDead(id) \/ deadRounds'[id] = 0,
           UNCHANGED <<missed, probe>>, deadRounds' \in [Tables -> Nat],
           \A id \in Tables : deadRounds'[id] \in {0, deadRounds[id]},
           \A id \in Tables : verdict = [do |-> "restart", id |-> id] =>
                                  verdict' = verdict \/ deadRounds'[id] = 0
    PROVE  DeadAreCounted'
<1> USE DEF MonitorInv, DeadAreCounted
<1>1. \A id \in Tables : LiveNode(id)' => deadRounds'[id] = 0
  BY DEF StaysDead
<1>2. ASSUME NEW id \in Tables
      PROVE  \/ deadRounds'[id] <= missed'[id]
             \/ InProbe(id)' /\ deadRounds'[id] <= missed'[id] + 1
             \/ verdict' = [do |-> "restart", id |-> id] /\ deadRounds'[id] <= DeadThreshold
  <2>1. missed[id] \in Nat /\ missed'[id] = missed[id] /\ (InProbe(id)' <=> InProbe(id))
    BY ClusterAssumption DEF InProbe
  <2>2. CASE deadRounds'[id] = 0
    BY <2>1, <2>2
  <2>3. CASE deadRounds'[id] = deadRounds[id] /\ deadRounds[id] # 0
    BY <2>1, <2>3
  <2> QED BY <2>2, <2>3
<1> QED BY <1>1, <1>2

\* A node that does not live is in the copy, and its round is counted.
LEMMA BeginProbeKeeps ==
    ASSUME ClusterInv, MonitorInv, BeginProbe
    PROVE  MonitorInv'
<1> USE DEF MonitorInv, ClusterInv
<1>1. /\ probe = {} /\ verdict = NoVerdict /\ UNCHANGED <<verdict, missed>>
      /\ probe' = {[id |-> id, port |-> nodes[id].port] : id \in {i \in Tables : HasNode(i)}}
      /\ deadRounds' = [id \in Tables |-> IF HasNode(id) /\ ~LiveNode(id) THEN deadRounds[id] + 1
                                          ELSE deadRounds[id]]
      /\ UNCHANGED <<nodes, nextPort, procs>>
  BY DEF BeginProbe, registryVars
<1>2. ProbesFit'
  <2> SUFFICES ASSUME NEW x \in probe'
               PROVE  x.id \in Tables /\ x.port \in 1 .. MaxPorts /\ PortOf(x.port, x.id)'
    BY DEF ProbesFit
  <2>1. PICK id \in Tables : HasNode(id) /\ x = [id |-> id, port |-> nodes[id].port]
    BY <1>1
  <2>2. x.id = id /\ x.port = nodes[id].port /\ x.port \in 1 .. MaxPorts
    BY <2>1, RegistryTypes
  <2>3. PortOf(x.port, id)
    BY <2>1, <2>2 DEF RegistryInv, PortsAreOwn, PortOf
  <2> QED BY <2>2, <2>3, <1>1 DEF PortOf, HasNode, Pids
<1>3. \A id \in Tables : HasNode(id) => InProbe(id)'
  <2> SUFFICES ASSUME NEW id \in Tables, HasNode(id) PROVE \E x \in probe' : x.id = id
    BY DEF InProbe
  <2> DEFINE x == [id |-> id, port |-> nodes[id].port]
  <2>1. x \in probe' /\ x.id = id
    BY <1>1
  <2> QED BY <2>1
<1>4. \A id \in Tables : LiveNode(id)' <=> LiveNode(id)
  BY <1>1 DEF LiveNode, Pids
<1>5. DeadAreCounted'
  <2>1. deadRounds' \in [Tables -> Nat] /\ \A id \in Tables : LiveNode(id)' => deadRounds'[id] = 0
    BY <1>1, <1>4 DEF DeadAreCounted
  <2>2. ASSUME NEW id \in Tables
        PROVE  \/ deadRounds'[id] <= missed'[id]
               \/ InProbe(id)' /\ deadRounds'[id] <= missed'[id] + 1
    <3>1. deadRounds[id] <= missed[id] /\ deadRounds[id] \in Nat /\ missed[id] \in Nat
      <4>1. verdict # [do |-> "restart", id |-> id] /\ ~InProbe(id)
        BY <1>1 DEF NoVerdict, InProbe
      <4> QED BY <4>1, ClusterAssumption DEF DeadAreCounted
    <3> QED BY <3>1, <1>1, <1>3
  <2> QED BY <2>1, <2>2, <1>1 DEF DeadAreCounted
<1> QED BY <1>2, <1>5

\* Who answers is the node's own process, so that nothing was being counted.
LEMMA PongKeeps ==
    ASSUME ClusterInv, MonitorInv, NEW x \in probe, Pong(x), PortsStay
    PROVE  MonitorInv'
<1> USE DEF MonitorInv, ClusterInv
<1>1. /\ verdict = NoVerdict /\ Listening(procs, x.port) # {}
      /\ missed' = [missed EXCEPT ![x.id] = 0] /\ probe' = probe \ {x}
      /\ UNCHANGED <<procs, deadRounds>>
  BY DEF Pong, registryVars
<1>2. ProbesFit'
  BY <1>1, ProbesStay
<1>3. x.id \in Tables /\ LiveNode(x.id)
  BY <1>1 DEF ProbesFit, PortOf, Listening, LiveNode, Pids
<1>4. deadRounds[x.id] = 0
  BY <1>3 DEF DeadAreCounted
<1>5. \A id \in Tables : (LiveNode(id)' <=> LiveNode(id)) /\ (id # x.id => (InProbe(id)' <=> InProbe(id)))
  BY <1>1 DEF LiveNode, Pids, InProbe
<1>6. missed' \in [Tables -> 0 .. DeadThreshold - 1] /\ missed'[x.id] = 0
      /\ \A id \in Tables : id # x.id => missed'[id] = missed[id]
  BY <1>1, <1>3, ClusterAssumption DEF DeadAreCounted
<1>7. ASSUME NEW id \in Tables
      PROVE  \/ deadRounds[id] <= missed'[id]
             \/ InProbe(id)' /\ deadRounds[id] <= missed'[id] + 1
  <2>1. CASE id = x.id
    BY <2>1, <1>4, <1>6
  <2>2. CASE id # x.id
    BY <2>2, <1>1, <1>5, <1>6 DEF DeadAreCounted, NoVerdict
  <2> QED BY <2>1, <2>2
<1>8. DeadAreCounted'
  BY <1>1, <1>5, <1>6, <1>7 DEF DeadAreCounted
<1> QED BY <1>2, <1>8

\* A miss is counted for the round, or the restart comes next.
LEMMA NoPongKeeps ==
    ASSUME ClusterInv, MonitorInv, NEW x \in probe, NoPong(x), PortsStay
    PROVE  MonitorInv'
<1> USE DEF MonitorInv, ClusterInv
<1> DEFINE dead == missed[x.id] + 1 >= DeadThreshold
<1>1. /\ verdict = NoVerdict /\ probe' = probe \ {x}
      /\ missed' = [missed EXCEPT ![x.id] = IF dead THEN 0 ELSE missed[x.id] + 1]
      /\ verdict' = IF dead THEN [do |-> "restart", id |-> x.id] ELSE NoVerdict
      /\ UNCHANGED <<procs, deadRounds>>
  BY DEF NoPong, registryVars
<1>2. ProbesFit'
  BY <1>1, ProbesStay
<1>3. x.id \in Tables /\ missed[x.id] \in 0 .. DeadThreshold - 1 /\ DeadThreshold \in Nat \ {0}
  BY ClusterAssumption DEF ProbesFit, DeadAreCounted
<1>4. /\ missed' \in [Tables -> 0 .. DeadThreshold - 1]
      /\ missed'[x.id] = IF dead THEN 0 ELSE missed[x.id] + 1
      /\ \A id \in Tables : id # x.id => missed'[id] = missed[id]
  <2>1. (IF dead THEN 0 ELSE missed[x.id] + 1) \in 0 .. DeadThreshold - 1
    BY <1>3
  <2> HIDE DEF dead
  <2> QED BY <2>1, <1>1, <1>3 DEF DeadAreCounted
<1>5. \A id \in Tables : (LiveNode(id)' <=> LiveNode(id)) /\ (id # x.id => (InProbe(id)' <=> InProbe(id)))
  BY <1>1 DEF LiveNode, Pids, InProbe
<1>6. \A id \in Tables : /\ deadRounds[id] \in Nat
                         /\ deadRounds[id] <= missed[id] \/ (InProbe(id) /\ deadRounds[id] <= missed[id] + 1)
  BY <1>1 DEF DeadAreCounted, NoVerdict
<1>7. ASSUME NEW id \in Tables
      PROVE  \/ deadRounds[id] <= missed'[id]
             \/ InProbe(id)' /\ deadRounds[id] <= missed'[id] + 1
             \/ verdict' = [do |-> "restart", id |-> id] /\ deadRounds[id] <= DeadThreshold
  <2>1. CASE id # x.id
    BY <2>1, <1>4, <1>5, <1>6
  <2>2. CASE id = x.id
    <3>1. deadRounds[id] <= missed[id] + 1 /\ deadRounds[id] \in Nat
      <4>1. missed[id] \in Nat
        BY <2>2, <1>3
      <4>2. deadRounds[id] \in Nat
        BY <1>6
      <4>3. CASE deadRounds[id] <= missed[id]
        BY <4>1, <4>2, <4>3
      <4>4. CASE InProbe(id) /\ deadRounds[id] <= missed[id] + 1
        BY <4>2, <4>4
      <4> QED BY <4>3, <4>4, <1>6
    <3>2. CASE dead
      BY <3>1, <3>2, <2>2, <1>1, <1>3
    <3>3. CASE ~dead
      BY <3>1, <3>3, <2>2, <1>4
    <3> QED BY <3>2, <3>3
  <2> QED BY <2>1, <2>2
<1> HIDE DEF dead
<1>8. DeadAreCounted'
  BY <1>1, <1>4, <1>5, <1>7 DEF DeadAreCounted
<1> QED BY <1>2, <1>8

LEMMA MonitorKeeps ==
    ASSUME ClusterInv, MonitorInv, [Next]_vars
    PROVE  MonitorInv'
<1>1. PortsStay /\ \A id \in Tables : StaysDead(id) \/ deadRounds'[id] = 0
  BY RegistryMoves DEF MonitorInv, DeadAreCounted
<1>2. CASE BeginProbe
  BY <1>2, BeginProbeKeeps
<1>3. CASE \E x \in probe : Pong(x) \/ NoPong(x)
  BY <1>1, <1>3, PongKeeps, NoPongKeeps
<1>4. ASSUME UNCHANGED <<missed, probe>>, deadRounds' \in [Tables -> Nat],
             \A id \in Tables : deadRounds'[id] \in {0, deadRounds[id]},
             \A id \in Tables : verdict = [do |-> "restart", id |-> id] =>
                                    verdict' = verdict \/ deadRounds'[id] = 0
      PROVE  MonitorInv'
  BY <1>1, <1>4, CountsStay, ProbesStay DEF MonitorInv
<1>5. CASE \/ UNCHANGED monitorVars
           \/ \E c \in Clients, id \in Tables, works \in BOOLEAN : Register(c, id, works)
           \/ \E c \in Clients, id \in Tables : Unregister(c, id)
  <2>1. /\ UNCHANGED <<missed, probe, verdict>> /\ deadRounds' \in [Tables -> Nat]
        /\ \A id \in Tables : deadRounds'[id] \in {0, deadRounds[id]}
    BY <1>5 DEF monitorVars, Register, Unregister, MonitorInv, DeadAreCounted
  <2> QED BY <2>1, <1>4
<1>6. CASE \E id \in Tables : MarkUp(id) \/ MarkDown(id)
  <2>1. UNCHANGED <<missed, probe, deadRounds>> /\ \A id \in Tables : verdict # [do |-> "restart", id |-> id]
    BY <1>6 DEF MarkUp, MarkDown
  <2> QED BY <2>1, <1>4 DEF MonitorInv, DeadAreCounted
<1>7. CASE \E id \in Tables, works \in BOOLEAN : Restart(id, works)
  <2>1. PICK id \in Tables : /\ UNCHANGED <<missed, probe>> /\ deadRounds' = [deadRounds EXCEPT ![id] = 0]
                             /\ verdict = [do |-> "restart", id |-> id]
    BY <1>7 DEF Restart
  <2>2. /\ deadRounds' \in [Tables -> Nat] /\ deadRounds'[id] = 0
        /\ \A i \in Tables : deadRounds'[i] \in {0, deadRounds[i]}
    BY <2>1 DEF MonitorInv, DeadAreCounted
  <2>3. \A i \in Tables : verdict = [do |-> "restart", id |-> i] => i = id
    BY <2>1
  <2> QED BY <2>1, <2>2, <2>3, <1>4
<1>8. ASSUME NEW c \in Clients, BeginStatement(c)
      PROVE  UNCHANGED monitorVars
  BY <1>8 DEF BeginStatement, CreateDatabase, DropDatabase, BeginCreateTable, BeginDropTable, BeginQuery, Begin
<1>9. ASSUME NEW c \in Clients, NEW id \in Tables,
             \/ LookUp(c, id) \/ NoSuchNode(c, id) \/ CannotConnect(c, id) \/ Receive(c, id)
             \/ LoseAnswer(c, id) \/ Uncatalog(c, id) \/ \E p \in Pids : Request(c, id, p)
      PROVE  UNCHANGED monitorVars
  BY <1>9 DEF LookUp, NoSuchNode, CannotConnect, Receive, LoseAnswer, Uncatalog, Answered, Request
<1>10. (\E p \in Pids : StorageCrash(p)) \/ UNCHANGED vars => UNCHANGED monitorVars
  BY DEF StorageCrash, vars
<1> QED BY <1>2, <1>3, <1>5, <1>6, <1>7, <1>8, <1>9, <1>10 DEF Next, Route, ProbeOnce

LEMMA MonitorAlways == Spec => []MonitorInv
<1>1. ClusterInv /\ MonitorInv /\ [Next]_vars => MonitorInv'
  BY MonitorKeeps
<1> QED BY <1>1, MonitorStarts, ClusterInvariant, PTL DEF Spec

\* ProbeOnce starts a new process for a node that has lost its own within
\* DeadThreshold rounds, although it pings ports that it has copied, and clients
\* drop and create nodes while it does.
THEOREM DeadNodesAreAlwaysRestarted == Spec => []DeadNodesAreRestarted
<1>1. MonitorInv => DeadNodesAreRestarted
  <2> SUFFICES ASSUME MonitorInv, NEW id \in Tables PROVE deadRounds[id] <= DeadThreshold
    BY DEF DeadNodesAreRestarted
  <2>1. missed[id] \in 0 .. DeadThreshold - 1 /\ deadRounds[id] \in Nat /\ DeadThreshold \in Nat \ {0}
    BY ClusterAssumption DEF MonitorInv, DeadAreCounted
  <2> QED BY <2>1 DEF MonitorInv, DeadAreCounted
<1> QED BY <1>1, MonitorAlways, PTL
-----------------------------------------------------------------------------
(* The types of all variables *)

Actions == {"register", "send", "uncatalog", "unregister"}
Steps == [do : Actions, id : Tables]

\* Together with ClusterInv and MonitorInv: every variable has its type.  The
\* catalog is finite, so that it has an order in which it can be dropped.
TypesInv ==
    /\ hasDatabase \in BOOLEAN
    /\ catalog \subseteq Tables /\ IsFiniteSet(catalog)
    /\ todo \in [Clients -> Seq(Steps)]
    /\ Len(procs) <= MaxProcesses
    /\ \A c \in Clients : exchange[c].pid \in 0 .. MaxProcesses
    /\ verdict \in [do : {"markUp", "restart", "markDown"}, id : Tables] \union {NoVerdict}
    /\ probe \subseteq [id : Tables, port : 1 .. MaxPorts]
    /\ statements \in 0 .. MaxStatements
    /\ alone \in BOOLEAN /\ torn \in BOOLEAN
    /\ crashes \in 0 .. MaxCrashes

\* SetToSeq lists a finite set without repetition and without omission.
LEMMA ListIs ==
    ASSUME NEW S, IsFiniteSet(S)
    PROVE  LET list == SetToSeq(S) IN
           /\ list \in Seq(S) /\ Len(list) = Cardinality(S)
           /\ \A i, j \in DOMAIN list : list[i] = list[j] => i = j
           /\ \A x \in S : \E i \in DOMAIN list : list[i] = x
<1> DEFINE n == Cardinality(S)
           list == SetToSeq(S)
<1>1. n \in Nat /\ \E f \in [1 .. n -> S] : IsInjective(f)
  BY FS_CardinalityType DEF ExistsBijection, Bijection, Injection
<1>2. list \in [1 .. n -> S] /\ IsInjective(list)
  BY <1>1 DEF SetToSeq
<1> HIDE DEF list
<1>3. list \in Seq(S) /\ Len(list) = n /\ DOMAIN list = 1 .. n
  BY <1>1, <1>2
<1>4. \A i, j \in DOMAIN list : list[i] = list[j] => i = j
  BY <1>2 DEF IsInjective
<1> DEFINE R == {list[i] : i \in 1 .. n}
<1>5. Cardinality(R) = n
  <2>1. list \in Bijection(1 .. n, R)
    BY <1>2, <1>3 DEF Bijection, Injection, Surjection
  <2> QED BY <2>1, <1>1, FS_CountingElements DEF ExistsBijection
<1>6. R \subseteq S
  BY <1>2
<1>7. R = S
  BY <1>5, <1>6, FS_Subset
<1>8. \A x \in S : \E i \in DOMAIN list : list[i] = x
  BY <1>3, <1>7
<1> QED BY <1>3, <1>4, <1>8 DEF list

LEMMA StepIs ==
    ASSUME NEW do \in Actions, NEW id \in Tables
    PROVE  Step(do, id) \in Steps /\ Step(do, id).do = do /\ Step(do, id).id = id
BY DEF Step, Steps

\* The steps of a DROP DATABASE.
LEMMA ListedSteps ==
    ASSUME NEW S, S \subseteq Tables, IsFiniteSet(S)
    PROVE  LET list == SetToSeq(S)
               steps == [i \in 1 .. Len(list) |-> Step("send", list[i])]
           IN  /\ steps \in Seq(Steps)
               /\ \A i \in DOMAIN steps : steps[i].do = "send" /\ steps[i].id \in S
               /\ \A i, j \in DOMAIN steps : steps[i].id = steps[j].id => i = j
               /\ \A x \in S : \E i \in DOMAIN steps : steps[i].id = x
<1> DEFINE list == SetToSeq(S)
           steps == [i \in 1 .. Len(list) |-> Step("send", list[i])]
<1>1. /\ list \in Seq(S)
      /\ \A i, j \in DOMAIN list : list[i] = list[j] => i = j
      /\ \A x \in S : \E i \in DOMAIN list : list[i] = x
  BY ListIs
<1> HIDE DEF list
<1>2. Len(list) \in Nat /\ DOMAIN list = 1 .. Len(list) /\ \A i \in DOMAIN list : list[i] \in S
  BY <1>1
<1>3. \A i \in 1 .. Len(list) : /\ steps[i] \in Steps
                                /\ steps[i].do = "send" /\ steps[i].id = list[i]
  BY <1>2, StepIs DEF Actions
<1>4. steps \in Seq(Steps) /\ DOMAIN steps = 1 .. Len(list)
  BY <1>2, <1>3
<1> HIDE DEF steps
<1>5. \A i \in DOMAIN steps : steps[i].do = "send" /\ steps[i].id \in S
  BY <1>2, <1>3, <1>4
<1>6. \A i, j \in DOMAIN steps : steps[i].id = steps[j].id => i = j
  BY <1>1, <1>2, <1>3, <1>4
<1>7. \A x \in S : \E i \in DOMAIN steps : steps[i].id = x
  BY <1>1, <1>2, <1>3, <1>4
<1> QED BY <1>4, <1>5, <1>6, <1>7 DEF steps, list

\* Starting, killing and serving keep the number of processes in its bound.
LEMMA ProcessesCounted ==
    ASSUME ClusterInv, TypesInv, [Next]_vars
    PROVE  Len(procs') <= MaxProcesses
<1> USE DEF ClusterInv
<1>1. Len(procs) \in Nat /\ procs \in Seq(Process) /\ Len(procs) <= MaxProcesses /\ MaxProcesses \in Nat
  BY RegistryAssumption DEF RegistryInv, RegistryTypeOK, TypesInv
<1>2. CASE procs' = procs
  BY <1>1, <1>2
<1>3. ASSUME NEW id \in Tables, procs' = Stopped(id) PROVE Len(procs') <= MaxProcesses
  BY <1>1, <1>3, StoppedIs
<1>4. ASSUME NEW id \in Tables, NEW port \in 1 .. MaxPorts, NEW works \in BOOLEAN,
             ReplaceProcess(id, port, works), MayStart(works)
      PROVE  Len(procs') <= MaxProcesses
  <2>1. \A p \in DOMAIN procs' : p \in Pids \/ p = Len(procs) + 1
    BY <1>4, ReplacedIs
  <2>2. procs' \in Seq(Process) /\ Pids = 1 .. Len(procs)
    BY <1>4, ReplacedIs, RegistryTypes
  <2>3. Len(procs') \in Nat /\ DOMAIN procs' = 1 .. Len(procs')
    BY <2>2
  <2>4. Len(procs') <= Len(procs) + 1
    <3> DEFINE m == Len(procs')
    <3>1. m = 0 \/ m \in DOMAIN procs'
      BY <2>3
    <3>2. m = 0 \/ m \in 1 .. Len(procs) \/ m = Len(procs) + 1
      BY <2>1, <2>2, <3>1
    <3>3. Len(procs) \in Nat /\ m \in Nat
      BY <1>1, <2>3
    <3> HIDE DEF m
    <3>4. m <= Len(procs) + 1
      BY <3>2, <3>3
    <3> QED BY <3>4 DEF m
  <2> QED BY <1>1, <1>4, <2>3, <2>4 DEF MayStart
<1>5. ASSUME NEW p, NEW new, procs' = [procs EXCEPT ![p] = new] PROVE Len(procs') <= MaxProcesses
  BY <1>1, <1>5
<1>6. ASSUME NEW id \in Tables, NEW works \in BOOLEAN, CreateNode(id, works) \/ RestartNode(id, works)
      PROVE  Len(procs') <= MaxProcesses
  <2>1. procs' = procs \/ \E port \in 1 .. MaxPorts : ReplaceProcess(id, port, works) /\ MayStart(works)
    <3>1. HasNode(id) => nodes[id].port \in 1 .. MaxPorts
      BY RegistryTypes
    <3>2. nextPort \in Nat /\ nextPort >= 1
      BY RegistryAssumption DEF RegistryInv, RegistryTypeOK
    <3>3. CASE CreateNode(id, works)
      BY <3>2, <3>3, RegistryAssumption DEF CreateNode, registryVars
    <3>4. CASE RestartNode(id, works)
      BY <3>1, <3>4 DEF RestartNode, registryVars
    <3> QED BY <1>6, <3>3, <3>4
  <2> QED BY <2>1, <1>2, <1>4
<1>7. CASE \E c \in Clients : BeginStatement(c)
  BY <1>2, <1>7 DEF BeginStatement, CreateDatabase, DropDatabase, BeginCreateTable, BeginDropTable,
                   BeginQuery, Begin, registryVars
<1>8. CASE \E c \in Clients : Route(c)
  <2>0. PICK c \in Clients : Route(c)
    BY <1>8
  <2>1. PICK id \in Tables :
           \/ \E works \in BOOLEAN : CreateNode(id, works)
           \/ \E p \in Pids : Request(c, id, p)
           \/ DropNode(id)
           \/ procs' = procs
    <3>1. PICK id \in Tables :
             \/ \E works \in BOOLEAN : Register(c, id, works)
             \/ LookUp(c, id) \/ NoSuchNode(c, id)
             \/ \E p \in Pids : Request(c, id, p)
             \/ CannotConnect(c, id) \/ Receive(c, id) \/ LoseAnswer(c, id)
             \/ Uncatalog(c, id) \/ Unregister(c, id)
      BY <2>0 DEF Route
    <3>2. CASE LookUp(c, id) \/ NoSuchNode(c, id) \/ CannotConnect(c, id) \/ Receive(c, id)
               \/ LoseAnswer(c, id) \/ Uncatalog(c, id)
      BY <3>2 DEF LookUp, NoSuchNode, CannotConnect, Receive, LoseAnswer, Uncatalog, Answered,
                  registryVars
    <3> QED BY <3>1, <3>2 DEF Register, Unregister
  <2>2. ASSUME NEW p \in Pids, Request(c, id, p) PROVE Len(procs') <= MaxProcesses
    <3>1. procs' = procs \/ \E new : procs' = [procs EXCEPT ![p].table = new]
      BY <2>2 DEF Request, Serve
    <3> QED BY <3>1, <1>2, <1>5
  <2>3. CASE DropNode(id)
    BY <2>3, <1>2, <1>3 DEF DropNode
  <2> QED BY <2>1, <2>2, <2>3, <1>2, <1>6
<1>9. CASE ProbeOnce
  BY <1>2, <1>6, <1>9 DEF ProbeOnce, BeginProbe, Pong, NoPong, MarkUp, MarkDown, Restart, UpdateNode,
                         registryVars
<1>10. CASE \E p \in Pids : StorageCrash(p)
  BY <1>5, <1>10 DEF StorageCrash, Crash
<1>11. CASE UNCHANGED vars
  BY <1>2, <1>11 DEF vars, registryVars
<1> QED BY <1>7, <1>8, <1>9, <1>10, <1>11 DEF Next

\* What is left of a statement is steps again.
LEMMA RemainingIs ==
    ASSUME ClusterInv, TypesInv, NEW c \in Clients, NEW id \in Tables, NEW success, ~Idle(c)
    PROVE  Remaining(c, id, success) \in Seq(Steps) /\ Tail(todo[c]) \in Seq(Steps)
<1>1. todo[c] \in Seq(Steps) /\ todo[c] # <<>> /\ kind[c] \in Kinds
  BY DEF ClusterInv, ClientTypes, TypesInv, Idle
<1>2. Tail(todo[c]) \in Seq(Steps)
  BY <1>1
<1>3. Step("unregister", id) \in Steps /\ Step("uncatalog", id) \in Steps
  BY StepIs DEF Actions
<1>4. <<Step("unregister", id)>> \o Tail(todo[c]) \in Seq(Steps)
  BY <1>2, <1>3
<1> QED BY <1>1, <1>2, <1>3, <1>4 DEF Remaining, Kinds

LEMMA TypesStart == Init => TypesInv
<1> SUFFICES ASSUME Init PROVE TypesInv
  OBVIOUS
<1>1. IsFiniteSet({})
  BY FS_EmptySet
<1>2. Len(procs) <= MaxProcesses /\ 0 \in 0 .. MaxProcesses
  BY RegistryAssumption DEF Init, RegistryInit
<1>3. todo \in [Clients -> Seq(Steps)]
  BY DEF Init
<1>4. \A c \in Clients : exchange[c].pid \in 0 .. MaxProcesses
  BY <1>2 DEF Init, NoExchange
<1>5. /\ hasDatabase \in BOOLEAN /\ alone \in BOOLEAN /\ torn \in BOOLEAN
      /\ catalog = {} /\ verdict = NoVerdict /\ probe = {}
  BY DEF Init
<1>6. statements \in 0 .. MaxStatements /\ crashes \in 0 .. MaxCrashes
  BY ClusterAssumption DEF Init
<1> QED BY <1>1, <1>2, <1>3, <1>4, <1>5, <1>6 DEF TypesInv

\* The variables that only BeginStatement changes.
LEMMA TypesOfSteps ==
    ASSUME TypesInv, UNCHANGED <<hasDatabase, statements, alone, crashes, probe>>, torn' \in BOOLEAN,
           Len(procs') <= MaxProcesses, catalog' \subseteq catalog,
           todo' \in [Clients -> Seq(Steps)],
           \A c \in Clients : exchange'[c].pid \in 0 .. MaxProcesses,
           verdict' \in [do : {"markUp", "restart", "markDown"}, id : Tables] \union {NoVerdict}
    PROVE  TypesInv'
<1>1. IsFiniteSet(catalog')
  BY FS_Subset DEF TypesInv
<1> QED BY <1>1 DEF TypesInv

LEMMA BeginTypes ==
    ASSUME ClusterInv, TypesInv, NEW c \in Clients, BeginStatement(c), Len(procs') <= MaxProcesses
    PROVE  TypesInv'
<1>1. CASE CreateDatabase(c)
  <2>1. /\ UNCHANGED <<todo, exchange, verdict, probe, statements, alone, torn, crashes, catalog>>
        /\ hasDatabase' = TRUE
    BY <1>1 DEF CreateDatabase, clientVars, monitorVars
  <2> QED BY <2>1 DEF TypesInv
<1>2. ASSUME NEW k, NEW steps \in Seq(Steps), Begin(c, k, steps), hasDatabase' \in BOOLEAN,
             catalog' \subseteq Tables, IsFiniteSet(catalog')
      PROVE  TypesInv'
  <2>1. /\ todo' = [todo EXCEPT ![c] = steps] /\ exchange' = [exchange EXCEPT ![c] = NoExchange]
        /\ statements < MaxStatements /\ statements' = statements + 1
        /\ UNCHANGED <<torn, verdict, probe, crashes>>
    BY <1>2 DEF Begin, monitorVars
  <2>2. alone' \in BOOLEAN
    BY <1>2 DEF Begin, TypesInv
  <2>3. statements' \in 0 .. MaxStatements
    BY <2>1, ClusterAssumption DEF TypesInv
  <2>4. todo' \in [Clients -> Seq(Steps)]
    BY <2>1 DEF TypesInv
  <2>5. \A d \in Clients : exchange'[d].pid \in 0 .. MaxProcesses
    BY <2>1, RegistryAssumption DEF TypesInv, NoExchange, ClusterInv, ClientTypes
  <2> QED BY <1>2, <2>1, <2>2, <2>3, <2>4, <2>5 DEF TypesInv
<1>3. CASE DropDatabase(c)
  <2>1. catalog' = {} /\ hasDatabase' = FALSE
    BY <1>3 DEF DropDatabase
  <2> DEFINE list == SetToSeq(catalog)
             steps == [i \in 1 .. Len(list) |-> Step("send", list[i])]
  <2>2. steps \in Seq(Steps)
    BY ListedSteps DEF TypesInv
  <2>3. Begin(c, "dropDatabase", steps)
    BY <1>3 DEF DropDatabase
  <2> HIDE DEF steps
  <2> QED BY <1>2, <2>1, <2>2, <2>3, FS_EmptySet
<1>4. ASSUME NEW id \in Tables, BeginCreateTable(c, id) PROVE TypesInv'
  <2>1. <<Step("register", id), Step("send", id)>> \in Seq(Steps)
    BY StepIs DEF Actions
  <2>2. catalog' = catalog \cup {id} /\ hasDatabase' = hasDatabase
        /\ Begin(c, "create", <<Step("register", id), Step("send", id)>>)
    BY <1>4 DEF BeginCreateTable
  <2>3. IsFiniteSet(catalog') /\ catalog' \subseteq Tables
    BY <2>2, FS_AddElement DEF TypesInv
  <2> QED BY <1>2, <2>1, <2>2, <2>3 DEF TypesInv
<1>5. ASSUME NEW id \in Tables, BeginDropTable(c, id) \/ BeginQuery(c, id) PROVE TypesInv'
  <2>1. <<Step("send", id)>> \in Seq(Steps)
    BY StepIs DEF Actions
  <2>2. UNCHANGED catalogVars /\ \E k : Begin(c, k, <<Step("send", id)>>)
    BY <1>5 DEF BeginDropTable, BeginQuery
  <2> QED BY <1>2, <2>1, <2>2 DEF TypesInv, catalogVars
<1> QED BY <1>1, <1>3, <1>4, <1>5 DEF BeginStatement

LEMMA RouteTypes ==
    ASSUME ClusterInv, TypesInv, NEW c \in Clients, Route(c), Len(procs') <= MaxProcesses
    PROVE  TypesInv'
<1>1. PICK id \in Tables :
         \/ \E works \in BOOLEAN : Register(c, id, works)
         \/ LookUp(c, id) \/ NoSuchNode(c, id)
         \/ \E p \in Pids : Request(c, id, p)
         \/ CannotConnect(c, id) \/ Receive(c, id) \/ LoseAnswer(c, id)
         \/ Uncatalog(c, id) \/ Unregister(c, id)
  BY DEF Route
<1>2. UNCHANGED <<hasDatabase, statements, alone, crashes, verdict, probe>> /\ catalog' \subseteq catalog
  BY <1>1 DEF Register, LookUp, NoSuchNode, Request, CannotConnect, Receive, LoseAnswer, Uncatalog,
              Unregister, Answered, catalogVars, monitorVars
<1>3. torn' \in BOOLEAN
  BY <1>1 DEF Register, LookUp, NoSuchNode, Request, CannotConnect, Receive, LoseAnswer, Uncatalog,
              Unregister, Tears, TypesInv
<1>4. ~Idle(c)
  BY <1>1 DEF Register, LookUp, NoSuchNode, Request, CannotConnect, Receive, LoseAnswer, Uncatalog,
              Unregister, Doing
<1>5. todo' \in [Clients -> Seq(Steps)]
  <2>1. \E rest \in Seq(Steps) : todo' = todo \/ todo' = [todo EXCEPT ![c] = rest]
    <3>1. <<Step("uncatalog", id)>> \in Seq(Steps) /\ <<>> \in Seq(Steps)
      BY StepIs DEF Actions
    <3>2. CASE \E works \in BOOLEAN : Register(c, id, works)
      BY <1>4, <3>1, <3>2, RemainingIs DEF Register, Done
    <3>3. CASE NoSuchNode(c, id) \/ CannotConnect(c, id) \/ Receive(c, id) \/ LoseAnswer(c, id)
      <4>1. PICK success : Answered(c, id, success)
        BY <3>3 DEF NoSuchNode, CannotConnect, Receive, LoseAnswer
      <4> QED BY <1>4, <4>1, RemainingIs DEF Answered
    <3>4. CASE Uncatalog(c, id) \/ Unregister(c, id)
      BY <1>4, <3>4, RemainingIs DEF Uncatalog, Unregister, Done
    <3>5. CASE LookUp(c, id) \/ \E p \in Pids : Request(c, id, p)
      BY <3>1, <3>5 DEF LookUp, Request
    <3> QED BY <1>1, <3>2, <3>3, <3>4, <3>5
  <2> QED BY <2>1 DEF TypesInv
<1>6. \A d \in Clients : exchange'[d].pid \in 0 .. MaxProcesses
  <2>1. ASSUME NEW e, e.pid \in 0 .. MaxProcesses, exchange' = [exchange EXCEPT ![c] = e]
        PROVE  \A d \in Clients : exchange'[d].pid \in 0 .. MaxProcesses
    BY <2>1 DEF TypesInv, ClusterInv, ClientTypes
  <2>2. CASE UNCHANGED exchange
    BY <2>2 DEF TypesInv
  <2>3. CASE exchange' = [exchange EXCEPT ![c] = NoExchange]
    <3>1. NoExchange.pid \in 0 .. MaxProcesses
      BY RegistryAssumption DEF NoExchange
    <3> QED BY <2>1, <2>3, <3>1
  <2>4. CASE LookUp(c, id)
    <3> DEFINE e == [exchange[c] EXCEPT !.at = "connect", !.port = nodes[id].port]
    <3>1. exchange' = [exchange EXCEPT ![c] = e]
      BY <2>4 DEF LookUp
    <3>2. e.pid = exchange[c].pid
      BY DEF ClusterInv, ClientTypes, Exchanges
    <3> HIDE DEF e
    <3> QED BY <2>1, <3>1, <3>2 DEF TypesInv
  <2>5. ASSUME NEW p \in Pids, Request(c, id, p)
        PROVE  \A d \in Clients : exchange'[d].pid \in 0 .. MaxProcesses
    <3> DEFINE ok == Accepts(p, IF kind[c] = "dropDatabase" THEN "drop" ELSE kind[c], id)
               e == [exchange[c] EXCEPT !.at = "receive", !.pid = p, !.success = ok]
    <3>1. exchange' = [exchange EXCEPT ![c] = e]
      BY <2>5 DEF Request
    <3> HIDE DEF ok
    <3>2. e.pid = p
      BY DEF ClusterInv, ClientTypes, Exchanges
    <3>3. p \in 0 .. MaxProcesses
      BY RegistryTypes, RegistryAssumption DEF ClusterInv, TypesInv
    <3> HIDE DEF e
    <3> QED BY <2>1, <3>1, <3>2, <3>3
  <2>6. CASE NoSuchNode(c, id) \/ CannotConnect(c, id) \/ Receive(c, id) \/ LoseAnswer(c, id)
    BY <2>3, <2>6 DEF NoSuchNode, CannotConnect, Receive, LoseAnswer, Answered
  <2>7. CASE (\E works \in BOOLEAN : Register(c, id, works)) \/ Uncatalog(c, id) \/ Unregister(c, id)
    BY <2>2, <2>7 DEF Register, Uncatalog, Unregister
  <2> QED BY <1>1, <2>4, <2>5, <2>6, <2>7
<1> QED BY <1>2, <1>3, <1>5, <1>6, TypesOfSteps DEF TypesInv

\* Every step keeps the types.
LEMMA TypesKept ==
    ASSUME ClusterInv, TypesInv, [Next]_vars
    PROVE  TypesInv'
<1>1. Len(procs') <= MaxProcesses
  BY ProcessesCounted
<1>2. CASE \E c \in Clients : BeginStatement(c) \/ Route(c)
  BY <1>1, <1>2, BeginTypes, RouteTypes
<1>3. CASE ProbeOnce
  <2>1. UNCHANGED <<catalogVars, clientVars, crashes>>
    BY <1>3 DEF ProbeOnce, BeginProbe, Pong, NoPong, MarkUp, MarkDown, Restart
  <2>2. verdict' \in [do : {"markUp", "restart", "markDown"}, id : Tables] \union {NoVerdict}
    <3>1. \A x \in probe : x.id \in Tables
      BY DEF ClusterInv, ClientTypes
    <3> QED BY <1>3, <3>1 DEF ProbeOnce, BeginProbe, Pong, NoPong, MarkUp, MarkDown, Restart, TypesInv
  <2>3. probe' \subseteq [id : Tables, port : 1 .. MaxPorts]
    <3>1. CASE BeginProbe
      <4>1. \A i \in Tables : HasNode(i) => nodes[i].port \in 1 .. MaxPorts
        BY RegistryTypes DEF ClusterInv
      <4> QED BY <3>1, <4>1 DEF BeginProbe
    <3>2. CASE ~BeginProbe
      <4>1. probe' \subseteq probe
        BY <1>3, <3>2 DEF ProbeOnce, Pong, NoPong, MarkUp, MarkDown, Restart
      <4> QED BY <4>1 DEF TypesInv
    <3> QED BY <3>1, <3>2
  <2> QED BY <1>1, <2>1, <2>2, <2>3 DEF TypesInv, catalogVars, clientVars
<1>4. CASE \E p \in Pids : StorageCrash(p)
  <2>1. UNCHANGED <<catalogVars, clientVars, monitorVars>> /\ crashes' = crashes + 1
        /\ crashes < MaxCrashes
    BY <1>4 DEF StorageCrash
  <2>2. crashes' \in 0 .. MaxCrashes
    BY <2>1, ClusterAssumption DEF TypesInv
  <2> QED BY <1>1, <2>1, <2>2 DEF TypesInv, catalogVars, clientVars, monitorVars
<1>5. CASE UNCHANGED vars
  BY <1>1, <1>5 DEF TypesInv, vars, catalogVars, clientVars, monitorVars
<1> QED BY <1>2, <1>3, <1>4, <1>5 DEF Next

LEMMA TypesAlways == Spec => []TypesInv
<1>1. ClusterInv /\ TypesInv /\ [Next]_vars => TypesInv'
  BY TypesKept
<1> QED BY <1>1, TypesStart, ClusterInvariant, PTL DEF Spec

\* Every variable of the cluster always has its type.
THEOREM ClusterTypeCorrect == Spec => []TypeOK
<1>1. ClusterInv /\ MonitorInv /\ TypesInv => TypeOK
  <2> SUFFICES ASSUME ClusterInv, MonitorInv, TypesInv PROVE TypeOK
    OBVIOUS
  <2>1. RegistryTypeOK /\ kind \in [Clients -> Kinds] /\ exchange \in [Clients -> Exchanges]
    BY DEF ClusterInv, RegistryInv, ClientTypes
  <2>2. exchange \in [Clients -> [at : {"lookup", "connect", "receive"}, port : 0 .. MaxPorts,
                                  pid : 0 .. MaxProcesses, success : BOOLEAN]]
    BY <2>1 DEF TypesInv, Exchanges
  <2>3. /\ missed \in [Tables -> 0 .. DeadThreshold - 1] /\ deadRounds \in [Tables -> Nat]
        /\ \A x \in probe : x.id \in Tables /\ x.port \in 1 .. MaxPorts
    BY DEF MonitorInv, DeadAreCounted, ProbesFit
  <2> QED BY <2>1, <2>2, <2>3 DEF TypesInv, Steps, Actions, Kinds, TypeOK
<1> QED BY <1>1, MonitorAlways, TypesAlways, ClusterInvariant, PTL
-----------------------------------------------------------------------------
(* The statements *)

\* The process of the client's shard has done what it was asked.
Served(c) == exchange[c].at = "receive" /\ exchange[c].success

Concerns(c, id) == \E i \in DOMAIN todo[c] : todo[c][i].id = id

\* What is in the catalog is usable, and what is not has left nothing.
Agrees(id) ==
    IF id \in catalog THEN HasNode(id) /\ files[id] = id ELSE ~HasNode(id) /\ files[id] = NoTable

\* How far a CREATE TABLE, DROP TABLE, DROP DATABASE or another statement is, by
\* the steps that are left.
Creating(c, id) ==
    /\ id \in catalog
    /\ \/ /\ todo[c] = <<Step("register", id), Step("send", id)>>
          /\ ~Served(c) /\ ~HasNode(id) /\ files[id] = NoTable
       \/ /\ todo[c] = <<Step("send", id)>>
          /\ HasNode(id) /\ files[id] = IF Served(c) THEN id ELSE NoTable
       \/ /\ todo[c] = <<Step("unregister", id), Step("uncatalog", id)>>
          /\ ~Served(c) /\ files[id] = NoTable
       \/ /\ todo[c] = <<Step("uncatalog", id)>>
          /\ ~Served(c) /\ ~HasNode(id) /\ files[id] = NoTable

Dropping(c, id) ==
    \/ /\ todo[c] = <<Step("send", id)>>
       /\ id \in catalog /\ HasNode(id) /\ files[id] = IF Served(c) THEN NoTable ELSE id
    \/ /\ todo[c] = <<Step("uncatalog", id), Step("unregister", id)>>
       /\ ~Served(c) /\ files[id] = NoTable
    \/ /\ todo[c] = <<Step("unregister", id)>>
       /\ ~Served(c) /\ id \notin catalog /\ files[id] = NoTable

Querying(c, id) == todo[c] = <<Step("send", id)>> /\ Agrees(id)

\* The i-th step of a DROP DATABASE: the shards to come still have their
\* tables, and the one that has been asked has always dropped its table.
Emptying(c, i) ==
    LET id == todo[c][i].id IN
    /\ id \notin catalog
    /\ \A j \in DOMAIN todo[c] : todo[c][j].id = id => j = i
    /\ \/ /\ todo[c][i].do = "send"
          /\ HasNode(id) /\ files[id] = IF i = 1 /\ Served(c) THEN NoTable ELSE id
       \/ /\ todo[c][i].do = "unregister" /\ i = 1
          /\ ~Served(c) /\ files[id] = NoTable

Halfway(c) ==
    \/ kind[c] = "create" /\ \E id \in Tables : Creating(c, id)
    \/ kind[c] = "drop" /\ \E id \in Tables : Dropping(c, id)
    \/ kind[c] = "query" /\ \E id \in Tables : Querying(c, id)
    \/ /\ kind[c] = "dropDatabase"
       /\ \A i \in DOMAIN todo[c] : Emptying(c, i)
       /\ exchange[c].at = "receive" => Served(c)

\* One statement at a time: the tables that it is not about agree, and the rest
\* is as far as the statement is.
Whole ==
    /\ \A c, d \in Clients : Idle(c) \/ Idle(d) \/ c = d
    /\ \A id \in Tables : (\A c \in Clients : ~Concerns(c, id)) => Agrees(id)
    /\ \A c \in Clients : ~Idle(c) => Halfway(c)

StatementInv == alone /\ ~torn => Whole

LEMMA WholeStarts == Init => StatementInv
BY DEF Init, RegistryInit, StatementInv, Whole, Idle, Concerns, Agrees, HasNode

LEMMA StepsAre ==
    ASSUME TypesInv, NEW c \in Clients
    PROVE  /\ todo[c] \in Seq(Steps)
           /\ \A i \in DOMAIN todo[c] : todo[c][i].id \in Tables /\ todo[c][i].do \in Actions
           /\ ~Idle(c) => 1 \in DOMAIN todo[c] /\ Head(todo[c]) = todo[c][1]
<1>1. todo[c] \in Seq(Steps)
  BY DEF TypesInv
<1>2. \A i \in DOMAIN todo[c] : todo[c][i] \in Steps
  BY <1>1
<1> QED BY <1>1, <1>2 DEF Steps, Idle

\* A step that leaves the nodes, the files, the catalog and the statements.
LEMMA HarmlessStep ==
    ASSUME Whole, UNCHANGED <<kind, todo, catalog, files>>,
           \A id \in Tables : HasNode(id)' <=> HasNode(id),
           \A c \in Clients : /\ Served(c)' <=> Served(c)
                              /\ exchange'[c].at = "receive" <=> exchange[c].at = "receive",
           TypesInv
    PROVE  Whole'
<1>1. \A id \in Tables : Agrees(id)' <=> Agrees(id)
  BY DEF Agrees
<1>2. ASSUME NEW c \in Clients, ~Idle(c)' PROVE Halfway(c)'
  <2>1. Halfway(c)
    BY <1>2 DEF Whole, Idle
  <2>2. ASSUME NEW id \in Tables, Creating(c, id) PROVE Creating(c, id)'
    BY <2>2 DEF Creating
  <2>3. ASSUME NEW id \in Tables, Dropping(c, id) PROVE Dropping(c, id)'
    BY <2>3 DEF Dropping
  <2>4. ASSUME NEW id \in Tables, Querying(c, id) PROVE Querying(c, id)'
    BY <1>1, <2>4 DEF Querying
  <2>5. ASSUME NEW i \in DOMAIN todo[c], Emptying(c, i) PROVE Emptying(c, i)'
    <3> DEFINE id == todo[c][i].id
    <3>1. id \in Tables
      BY StepsAre
    <3>2. (HasNode(id)' <=> HasNode(id)) /\ (Served(c)' <=> Served(c)) /\ files'[id] = files[id]
      BY <3>1
    <3>3. todo' = todo /\ catalog' = catalog
      OBVIOUS
    <3>4. todo'[c][i].id = id /\ todo'[c] = todo[c]
      BY <3>3
    <3> QED BY <2>5, <3>2, <3>3, <3>4 DEF Emptying
  <2> QED BY <2>1, <2>2, <2>3, <2>4, <2>5 DEF Halfway
<1>3. \A id \in Tables, c \in Clients : Concerns(c, id)' <=> Concerns(c, id)
  BY DEF Concerns
<1>4. \A c, d \in Clients : (Idle(c) \/ Idle(d) \/ c = d)'
  BY DEF Whole, Idle
<1> QED BY <1>1, <1>2, <1>3, <1>4 DEF Whole

\* A step of a statement that changes what belongs to one of its tables.
LEMMA OwnStep ==
    ASSUME Whole, NEW c \in Clients, NEW id \in Tables,
           \A d \in Clients \ {c} : Idle(d) /\ todo'[d] = todo[d],
           \A x \in Tables \ {id} : /\ HasNode(x)' <=> HasNode(x)
                                    /\ files'[x] = files[x]
                                    /\ x \in catalog' <=> x \in catalog
                                    /\ Concerns(c, x) => Concerns(c, x)',
           Concerns(c, id)' \/ Agrees(id)',
           Idle(c)' \/ Halfway(c)'
    PROVE  Whole'
<1>1. \A d \in Clients \ {c} : Idle(d)'
  BY DEF Idle
<1>2. \A d, e \in Clients : (Idle(d) \/ Idle(e) \/ d = e)'
  BY <1>1
<1>3. ASSUME NEW x \in Tables, \A d \in Clients : ~Concerns(d, x)' PROVE Agrees(x)'
  <2>1. CASE x = id
    BY <1>3, <2>1
  <2>2. CASE x # id
    <3>1. \A d \in Clients : ~Concerns(d, x)
      BY <1>3, <2>2 DEF Concerns
    <3>2. Agrees(x)
      BY <3>1 DEF Whole
    <3> QED BY <2>2, <3>2 DEF Agrees
  <2> QED BY <2>1, <2>2
<1>4. \A d \in Clients : ~Idle(d)' => Halfway(d)'
  BY <1>1
<1> QED BY <1>2, <1>3, <1>4 DEF Whole

\* Where a statement is, by the step under way.
LEMMA AtRegister ==
    ASSUME TypesInv, Whole, NEW c \in Clients, NEW id \in Tables, Doing(c, "register", id)
    PROVE  /\ kind[c] = "create" /\ todo[c] = <<Step("register", id), Step("send", id)>>
           /\ id \in catalog /\ ~Served(c) /\ ~HasNode(id) /\ files[id] = NoTable
<1>1. Halfway(c) /\ todo[c] # <<>> /\ Head(todo[c]).do = "register" /\ Head(todo[c]).id = id
  BY DEF Whole, Doing, Idle, Step
<1>2. ASSUME NEW x \in Tables, Creating(c, x)
      PROVE  /\ todo[c] = <<Step("register", x), Step("send", x)>> /\ x = id
             /\ x \in catalog /\ ~Served(c) /\ ~HasNode(x) /\ files[x] = NoTable
  BY <1>1, <1>2 DEF Creating, Step
<1>3. \A x \in Tables : ~Dropping(c, x) /\ ~Querying(c, x)
  BY <1>1 DEF Dropping, Querying, Step
<1>4. ~\A i \in DOMAIN todo[c] : Emptying(c, i)
  <2>1. 1 \in DOMAIN todo[c] /\ Head(todo[c]) = todo[c][1]
    BY <1>1, StepsAre DEF Idle
  <2> QED BY <1>1, <2>1 DEF Emptying
<1> QED BY <1>1, <1>2, <1>3, <1>4 DEF Halfway

LEMMA AtSend ==
    ASSUME TypesInv, Whole, NEW c \in Clients, NEW id \in Tables, Doing(c, "send", id)
    PROVE  \/ /\ kind[c] = "create" /\ todo[c] = <<Step("send", id)>>
              /\ id \in catalog /\ HasNode(id) /\ files[id] = IF Served(c) THEN id ELSE NoTable
           \/ /\ kind[c] = "drop" /\ todo[c] = <<Step("send", id)>>
              /\ id \in catalog /\ HasNode(id) /\ files[id] = IF Served(c) THEN NoTable ELSE id
           \/ kind[c] = "query" /\ todo[c] = <<Step("send", id)>> /\ Agrees(id)
           \/ /\ kind[c] = "dropDatabase" /\ \A i \in DOMAIN todo[c] : Emptying(c, i)
              /\ exchange[c].at = "receive" => Served(c)
<1>1. Halfway(c) /\ todo[c] # <<>> /\ Head(todo[c]).do = "send" /\ Head(todo[c]).id = id
  BY DEF Whole, Doing, Idle, Step
<1>2. ASSUME NEW x \in Tables, Creating(c, x)
      PROVE  /\ todo[c] = <<Step("send", x)>> /\ x = id
             /\ x \in catalog /\ HasNode(x) /\ files[x] = IF Served(c) THEN x ELSE NoTable
  BY <1>1, <1>2 DEF Creating, Step
<1>3. ASSUME NEW x \in Tables, Dropping(c, x)
      PROVE  /\ todo[c] = <<Step("send", x)>> /\ x = id
             /\ x \in catalog /\ HasNode(x) /\ files[x] = IF Served(c) THEN NoTable ELSE x
  BY <1>1, <1>3 DEF Dropping, Step
<1>4. ASSUME NEW x \in Tables, Querying(c, x)
      PROVE  todo[c] = <<Step("send", x)>> /\ x = id /\ Agrees(x)
  BY <1>1, <1>4 DEF Querying, Step
<1> QED BY <1>1, <1>2, <1>3, <1>4 DEF Halfway

LEMMA AtUncatalog ==
    ASSUME TypesInv, Whole, NEW c \in Clients, NEW id \in Tables, Doing(c, "uncatalog", id)
    PROVE  /\ ~Served(c) /\ files[id] = NoTable
           /\ \/ /\ kind[c] = "create" /\ todo[c] = <<Step("uncatalog", id)>>
                 /\ ~HasNode(id)
              \/ kind[c] = "drop" /\ todo[c] = <<Step("uncatalog", id), Step("unregister", id)>>
<1>1. Halfway(c) /\ todo[c] # <<>> /\ Head(todo[c]).do = "uncatalog" /\ Head(todo[c]).id = id
  BY DEF Whole, Doing, Idle, Step
<1>2. ASSUME NEW x \in Tables, Creating(c, x)
      PROVE  /\ todo[c] = <<Step("uncatalog", x)>> /\ x = id
             /\ ~Served(c) /\ ~HasNode(x) /\ files[x] = NoTable
  BY <1>1, <1>2 DEF Creating, Step
<1>3. ASSUME NEW x \in Tables, Dropping(c, x)
      PROVE  /\ todo[c] = <<Step("uncatalog", x), Step("unregister", x)>> /\ x = id
             /\ ~Served(c) /\ files[x] = NoTable
  BY <1>1, <1>3 DEF Dropping, Step
<1>4. \A x \in Tables : ~Querying(c, x)
  BY <1>1 DEF Querying, Step
<1>5. ~\A i \in DOMAIN todo[c] : Emptying(c, i)
  <2>1. 1 \in DOMAIN todo[c] /\ Head(todo[c]) = todo[c][1]
    BY <1>1, StepsAre DEF Idle
  <2> QED BY <1>1, <2>1 DEF Emptying
<1> QED BY <1>1, <1>2, <1>3, <1>4, <1>5 DEF Halfway

LEMMA AtUnregister ==
    ASSUME TypesInv, Whole, NEW c \in Clients, NEW id \in Tables, Doing(c, "unregister", id)
    PROVE  /\ ~Served(c) /\ files[id] = NoTable
           /\ \/ /\ kind[c] = "create" /\ id \in catalog
                 /\ todo[c] = <<Step("unregister", id), Step("uncatalog", id)>>
              \/ kind[c] = "drop" /\ todo[c] = <<Step("unregister", id)>> /\ id \notin catalog
              \/ /\ kind[c] = "dropDatabase" /\ \A i \in DOMAIN todo[c] : Emptying(c, i)
                 /\ id \notin catalog /\ exchange[c].at # "receive"
<1>1. Halfway(c) /\ todo[c] # <<>> /\ Head(todo[c]).do = "unregister" /\ Head(todo[c]).id = id
  BY DEF Whole, Doing, Idle, Step
<1>2. ASSUME NEW x \in Tables, Creating(c, x)
      PROVE  /\ todo[c] = <<Step("unregister", x), Step("uncatalog", x)>> /\ x = id
             /\ x \in catalog /\ ~Served(c) /\ files[x] = NoTable
  BY <1>1, <1>2 DEF Creating, Step
<1>3. ASSUME NEW x \in Tables, Dropping(c, x)
      PROVE  /\ todo[c] = <<Step("unregister", x)>> /\ x = id
             /\ ~Served(c) /\ x \notin catalog /\ files[x] = NoTable
  BY <1>1, <1>3 DEF Dropping, Step
<1>4. \A x \in Tables : ~Querying(c, x)
  BY <1>1 DEF Querying, Step
<1>5. ASSUME \A i \in DOMAIN todo[c] : Emptying(c, i)
      PROVE  id \notin catalog /\ ~Served(c) /\ files[id] = NoTable
  <2>1. 1 \in DOMAIN todo[c] /\ Head(todo[c]) = todo[c][1]
    BY <1>1, StepsAre DEF Idle
  <2> QED BY <1>1, <1>5, <2>1 DEF Emptying
<1> QED BY <1>1, <1>2, <1>3, <1>4, <1>5 DEF Halfway

LEMMA BeginWhole ==
    ASSUME ClusterInv, TypesInv, StatementInv, NEW c \in Clients, BeginStatement(c), alone', ~torn'
    PROVE  Whole'
<1> USE RegistryAssumption
<1>1. CASE CreateDatabase(c)
  <2>1. UNCHANGED <<registryVars, catalog, clientVars>>
    BY <1>1 DEF CreateDatabase
  <2>2. Whole /\ UNCHANGED <<kind, todo, exchange, catalog, files, nodes>>
    BY <2>1 DEF StatementInv, clientVars, registryVars
  <2> QED BY <2>2, HarmlessStep DEF HasNode, Served
<1>2. ASSUME NEW k, NEW steps, Begin(c, k, steps)
      PROVE  /\ Whole /\ \A d \in Clients : Idle(d)
             /\ \A id \in Tables : Agrees(id)
             /\ UNCHANGED <<files, nodes>>
             /\ kind'[c] = k /\ todo'[c] = steps /\ ~Served(c)' /\ exchange'[c].at # "receive"
             /\ \A d \in Clients \ {c} : todo'[d] = todo[d]
             /\ \A id \in Tables : ~Concerns(c, id)
  <2>1. Whole /\ \A d \in Clients : Idle(d)
    BY <1>2 DEF Begin, StatementInv, TypesInv
  <2>2. \A d \in Clients, id \in Tables : ~Concerns(d, id)
    BY <2>1 DEF Idle, Concerns
  <2>3. \A id \in Tables : Agrees(id)
    BY <2>1, <2>2 DEF Whole
  <2>4. /\ kind'[c] = k /\ todo'[c] = steps /\ exchange'[c] = NoExchange
        /\ \A d \in Clients \ {c} : todo'[d] = todo[d]
    BY <1>2 DEF Begin, ClusterInv, ClientTypes
  <2>5. UNCHANGED <<files, nodes>>
    BY <1>2 DEF Begin, registryVars
  <2>6. NoExchange.at = "lookup"
    BY DEF NoExchange
  <2> QED BY <2>1, <2>2, <2>3, <2>4, <2>5, <2>6 DEF Served
<1>3. ASSUME NEW id \in Tables, BeginCreateTable(c, id) PROVE Whole'
  <2> DEFINE steps == <<Step("register", id), Step("send", id)>>
  <2>1. Begin(c, "create", steps) /\ catalog' = catalog \union {id} /\ id \notin catalog
    BY <1>3 DEF BeginCreateTable
  <2>2. ~HasNode(id) /\ files[id] = NoTable
    BY <1>2, <2>1 DEF Agrees
  <2>3. Creating(c, id)'
    BY <1>2, <2>1, <2>2 DEF Creating, HasNode
  <2>4. Concerns(c, id)'
    <3>1. steps[1].id = id /\ 1 \in DOMAIN steps
      BY DEF Step
    <3> QED BY <1>2, <2>1, <3>1 DEF Concerns
  <2>5. Halfway(c)'
    BY <1>2, <2>1, <2>3 DEF Halfway
  <2>6. \A x \in Tables \ {id} : x \in catalog' <=> x \in catalog
    BY <2>1
  <2>7. \A x \in Tables : (HasNode(x)' <=> HasNode(x)) /\ files'[x] = files[x] /\ ~Concerns(c, x)
    BY <1>2, <2>1 DEF HasNode
  <2>8. Whole /\ \A d \in Clients \ {c} : Idle(d) /\ todo'[d] = todo[d]
    BY <1>2, <2>1
  <2> QED BY <2>4, <2>5, <2>6, <2>7, <2>8, OwnStep
<1>4. ASSUME NEW id \in Tables, BeginDropTable(c, id) \/ BeginQuery(c, id) PROVE Whole'
  <2> DEFINE steps == <<Step("send", id)>>
  <2>1. /\ Begin(c, "drop", steps) \/ Begin(c, "query", steps)
        /\ catalog' = catalog /\ id \in catalog
    BY <1>4 DEF BeginDropTable, BeginQuery, catalogVars
  <2>2. /\ Whole /\ \A d \in Clients : Idle(d)
        /\ \A x \in Tables : Agrees(x)
        /\ UNCHANGED <<files, nodes>>
        /\ kind'[c] \in {"drop", "query"} /\ todo'[c] = steps /\ ~Served(c)'
        /\ \A d \in Clients \ {c} : todo'[d] = todo[d]
        /\ \A x \in Tables : ~Concerns(c, x)
    BY <1>2, <2>1
  <2>3. Agrees(id) /\ HasNode(id) /\ files[id] = id
    BY <2>1, <2>2 DEF Agrees
  <2>4. Dropping(c, id)' /\ Querying(c, id)'
    BY <2>1, <2>2, <2>3 DEF Dropping, Querying, Agrees, HasNode
  <2>5. Halfway(c)'
    BY <2>2, <2>4 DEF Halfway
  <2>6. Concerns(c, id)'
    <3>1. steps[1].id = id /\ 1 \in DOMAIN steps
      BY DEF Step
    <3> QED BY <2>2, <3>1 DEF Concerns
  <2>7. \A x \in Tables : HasNode(x)' <=> HasNode(x)
    BY <2>2 DEF HasNode
  <2> QED BY <2>1, <2>2, <2>5, <2>6, <2>7, OwnStep
<1>5. CASE DropDatabase(c)
  <2> DEFINE list == SetToSeq(catalog)
             steps == [i \in 1 .. Len(list) |-> Step("send", list[i])]
  <2>1. Begin(c, "dropDatabase", steps) /\ catalog' = {}
    BY <1>5 DEF DropDatabase
  <2>2. /\ \A i \in DOMAIN steps : steps[i].do = "send" /\ steps[i].id \in catalog
        /\ \A i, j \in DOMAIN steps : steps[i].id = steps[j].id => i = j
        /\ \A x \in catalog : \E i \in DOMAIN steps : steps[i].id = x
    BY ListedSteps DEF TypesInv
  <2> HIDE DEF steps
  <2>3. /\ \A d \in Clients : Idle(d)
        /\ \A x \in Tables : Agrees(x)
        /\ UNCHANGED <<files, nodes>>
        /\ kind'[c] = "dropDatabase" /\ todo'[c] = steps /\ ~Served(c)' /\ exchange'[c].at # "receive"
        /\ \A d \in Clients \ {c} : todo'[d] = todo[d]
    BY <1>2, <2>1
  <2>4. \A x \in catalog : HasNode(x)' /\ files'[x] = x
    BY <2>3 DEF Agrees, HasNode, TypesInv
  <2>5. ASSUME NEW i \in DOMAIN todo'[c] PROVE Emptying(c, i)'
    BY <2>1, <2>2, <2>3, <2>4 DEF Emptying
  <2>6. Halfway(c)'
    BY <2>3, <2>5 DEF Halfway
  <2>7. \A d \in Clients \ {c} : Idle(d)'
    BY <2>3 DEF Idle
  <2>8. ASSUME NEW x \in Tables, \A d \in Clients : ~Concerns(d, x)' PROVE Agrees(x)'
    <3>1. x \notin catalog
      BY <2>2, <2>3, <2>8 DEF Concerns
    <3> QED BY <2>1, <2>3, <3>1 DEF Agrees, HasNode
  <2> QED BY <2>6, <2>7, <2>8 DEF Whole
<1> QED BY <1>1, <1>3, <1>4, <1>5 DEF BeginStatement

\* Which tables have a node after the registry's operations.
LEMMA CreatedNodes ==
    ASSUME RegistryInv, NEW id \in Tables, NEW works \in BOOLEAN, CreateNode(id, works), ~HasNode(id)
    PROVE  /\ files' = files
           /\ HasNode(id)' <=> works
           /\ nodes'[id] = NoNode <=> ~works
           /\ \A x \in Tables \ {id} : HasNode(x)' <=> HasNode(x)
<1>1. /\ nodes' = IF works THEN [nodes EXCEPT ![id] = [port |-> nextPort, state |-> "unknown"]]
                  ELSE nodes
      /\ files' = files
  BY DEF CreateNode
<1>2. [port |-> nextPort, state |-> "unknown"] # NoNode
  BY RegistryTypes DEF NoNode
<1> QED BY <1>1, <1>2 DEF HasNode, RegistryInv, RegistryTypeOK

LEMMA DroppedNodes ==
    ASSUME RegistryInv, NEW id \in Tables, DropNode(id)
    PROVE  /\ files' = files /\ ~HasNode(id)'
           /\ \A x \in Tables \ {id} : HasNode(x)' <=> HasNode(x)
BY DEF DropNode, HasNode, RegistryInv, RegistryTypeOK

LEMMA KeptNodes ==
    ASSUME RegistryInv, NEW id \in Tables, NEW state,
           UpdateNode(id, state) \/ \E works \in BOOLEAN : RestartNode(id, works)
    PROVE  files' = files /\ \A x \in Tables : HasNode(x)' <=> HasNode(x)
<1>1. ASSUME NEW s, nodes' = [nodes EXCEPT ![id].state = s], HasNode(id)
      PROVE  \A x \in Tables : HasNode(x)' <=> HasNode(x)
  <2> DEFINE node == [nodes[id] EXCEPT !.state = s]
  <2>1. nodes' = [nodes EXCEPT ![id] = node]
    BY <1>1
  <2>2. node.port = nodes[id].port /\ nodes[id].port \in 1 .. MaxPorts
    BY <1>1, RegistryTypes DEF Node
  <2> HIDE DEF node
  <2>3. node # NoNode
    BY <2>2, RegistryAssumption DEF NoNode
  <2> QED BY <1>1, <2>1, <2>3 DEF HasNode, RegistryInv, RegistryTypeOK
<1>2. CASE UpdateNode(id, state)
  BY <1>1, <1>2 DEF UpdateNode, HasNode
<1>3. ASSUME NEW works \in BOOLEAN, RestartNode(id, works)
      PROVE  files' = files /\ \A x \in Tables : HasNode(x)' <=> HasNode(x)
  BY <1>1, <1>3 DEF RestartNode, registryVars, HasNode
<1> QED BY <1>2, <1>3

LEMMA OthersIdle ==
    ASSUME Whole, NEW c \in Clients, NEW do, NEW id, Doing(c, do, id)
    PROVE  ~Idle(c) /\ \A d \in Clients \ {c} : Idle(d)
BY DEF Whole, Doing

\* A statement about one table concerns it alone.
LEMMA OneTable ==
    ASSUME NEW c \in Clients, NEW id \in Tables,
           \/ \E a \in Actions : todo[c] = <<Step(a, id)>>
           \/ \E a, b \in Actions : todo[c] = <<Step(a, id), Step(b, id)>>
    PROVE  \A x : Concerns(c, x) <=> x = id
<1>1. ASSUME NEW a \in Actions, todo[c] = <<Step(a, id)>> PROVE \A x : Concerns(c, x) <=> x = id
  <2>1. DOMAIN todo[c] = {1} /\ todo[c][1].id = id
    BY <1>1 DEF Step
  <2> QED BY <2>1 DEF Concerns
<1>2. ASSUME NEW a \in Actions, NEW b \in Actions, todo[c] = <<Step(a, id), Step(b, id)>>
      PROVE  \A x : Concerns(c, x) <=> x = id
  <2>1. DOMAIN todo[c] = {1, 2} /\ todo[c][1].id = id /\ todo[c][2].id = id
    BY <1>2 DEF Step
  <2> QED BY <2>1 DEF Concerns
<1> QED BY <1>1, <1>2

LEMMA RegisterWhole ==
    ASSUME ClusterInv, TypesInv, Whole, NEW c \in Clients, NEW id \in Tables, NEW works \in BOOLEAN,
           Register(c, id, works)
    PROVE  Whole'
<1>1. Doing(c, "register", id) /\ CreateNode(id, works) /\ UNCHANGED <<catalog, kind, exchange>>
  BY DEF Register, catalogVars
<1>2. /\ kind[c] = "create" /\ todo[c] = <<Step("register", id), Step("send", id)>>
      /\ id \in catalog /\ ~Served(c) /\ ~HasNode(id) /\ files[id] = NoTable
  BY <1>1, AtRegister
<1>3. /\ files' = files
      /\ HasNode(id)' <=> works
      /\ nodes'[id] = NoNode <=> ~works
      /\ \A x \in Tables \ {id} : HasNode(x)' <=> HasNode(x)
  BY <1>1, <1>2, CreatedNodes DEF ClusterInv
<1>4. /\ todo'[c] = IF works THEN <<Step("send", id)>> ELSE <<Step("uncatalog", id)>>
      /\ \A d \in Clients \ {c} : todo'[d] = todo[d]
  BY <1>2, <1>3 DEF Register, Done, TypesInv
<1>5. Creating(c, id)' /\ Halfway(c)'
  <2>1. Creating(c, id)'
    <3>1. id \in catalog' /\ ~Served(c)' /\ files'[id] = NoTable
      BY <1>1, <1>2, <1>3 DEF Served
    <3>2. CASE works
      <4>1. todo'[c] = <<Step("send", id)>> /\ HasNode(id)'
        BY <1>3, <1>4, <3>2
      <4> QED BY <3>1, <4>1 DEF Creating
    <3>3. CASE ~works
      <4>1. todo'[c] = <<Step("uncatalog", id)>> /\ ~HasNode(id)'
        BY <1>3, <1>4, <3>3
      <4> QED BY <3>1, <4>1 DEF Creating
    <3> QED BY <3>2, <3>3
  <2> QED BY <1>1, <1>2, <2>1 DEF Halfway
<1>6. \A x \in Tables \ {id} : ~Concerns(c, x)
  BY <1>2, OneTable DEF Actions
<1>7. Concerns(c, id)'
  BY <1>4 DEF Concerns, Step
<1> QED BY <1>1, <1>3, <1>4, <1>5, <1>6, <1>7, OthersIdle, OwnStep

LEMMA UncatalogWhole ==
    ASSUME ClusterInv, TypesInv, Whole, NEW c \in Clients, NEW id \in Tables, Uncatalog(c, id)
    PROVE  Whole'
<1>1. /\ Doing(c, "uncatalog", id) /\ UNCHANGED <<files, nodes, kind, exchange>>
      /\ catalog' = catalog \ {id}
      /\ todo' = [todo EXCEPT ![c] = Tail(todo[c])]
  BY DEF Uncatalog, Done, registryVars
<1>2. /\ ~Served(c) /\ files[id] = NoTable
      /\ \/ /\ kind[c] = "create" /\ todo[c] = <<Step("uncatalog", id)>> /\ ~HasNode(id)
         \/ kind[c] = "drop" /\ todo[c] = <<Step("uncatalog", id), Step("unregister", id)>>
  BY <1>1, AtUncatalog
<1>3. \A d \in Clients \ {c} : todo'[d] = todo[d]
  BY <1>1 DEF TypesInv
<1>4. \A x \in Tables \ {id} : ~Concerns(c, x)
  BY <1>2, OneTable DEF Actions
<1>5. CASE kind[c] = "create" /\ todo[c] = <<Step("uncatalog", id)>> /\ ~HasNode(id)
  <2>1. Agrees(id)' /\ Idle(c)'
    BY <1>1, <1>2, <1>5 DEF Agrees, Idle, HasNode, TypesInv
  <2>2. \A x \in Tables \ {id} : (HasNode(x)' <=> HasNode(x)) /\ (x \in catalog' <=> x \in catalog)
    BY <1>1 DEF HasNode
  <2> QED BY <1>1, <1>3, <1>4, <2>1, <2>2, OthersIdle, OwnStep
<1>6. CASE kind[c] = "drop" /\ todo[c] = <<Step("uncatalog", id), Step("unregister", id)>>
  <2>1. todo'[c] = <<Step("unregister", id)>>
    BY <1>1, <1>6 DEF TypesInv
  <2>2. Dropping(c, id)' /\ kind'[c] = "drop"
    BY <1>1, <1>2, <1>6, <2>1 DEF Dropping, Served
  <2>3. Halfway(c)'
    BY <2>2 DEF Halfway
  <2>4. Concerns(c, id)'
    BY <2>1 DEF Concerns, Step
  <2>5. \A x \in Tables \ {id} : (HasNode(x)' <=> HasNode(x)) /\ (x \in catalog' <=> x \in catalog)
    BY <1>1 DEF HasNode
  <2> QED BY <1>1, <1>3, <1>4, <2>3, <2>4, <2>5, OthersIdle, OwnStep
<1> QED BY <1>2, <1>5, <1>6

LEMMA TailIs ==
    ASSUME NEW S, NEW s \in Seq(S), s # <<>>
    PROVE  /\ DOMAIN Tail(s) = 1 .. Len(s) - 1 /\ DOMAIN s = 1 .. Len(s) /\ Len(s) \in Nat \ {0}
           /\ \A i \in DOMAIN Tail(s) : i + 1 \in DOMAIN s /\ Tail(s)[i] = s[i + 1]
           /\ \A i \in DOMAIN s : i = 1 \/ i - 1 \in DOMAIN Tail(s)
<1>1. Len(s) \in Nat \ {0} /\ DOMAIN s = 1 .. Len(s)
  OBVIOUS
<1>2. DOMAIN Tail(s) = 1 .. Len(s) - 1
  BY <1>1
<1>3. \A i \in 1 .. Len(s) - 1 : Tail(s)[i] = s[i + 1]
  BY <1>1
<1> QED BY <1>1, <1>2, <1>3

\* DROP DATABASE has dropped the node of a table, and goes on with the next.
LEMMA EmptyingGoesOn ==
    ASSUME ClusterInv, TypesInv, Whole, NEW c \in Clients, NEW id \in Tables,
           Doing(c, "unregister", id), DropNode(id), UNCHANGED <<catalog, kind, exchange>>,
           kind[c] = "dropDatabase", \A i \in DOMAIN todo[c] : Emptying(c, i),
           ~Served(c), exchange[c].at # "receive",
           todo'[c] = Tail(todo[c])
    PROVE  /\ Halfway(c)'
           /\ \A x \in Tables \ {id} : Concerns(c, x) => Concerns(c, x)'
<1>1. /\ todo[c] \in Seq(Steps) /\ todo[c] # <<>> /\ Head(todo[c]) = todo[c][1] /\ 1 \in DOMAIN todo[c]
      /\ \A i \in DOMAIN todo[c] : todo[c][i].id \in Tables
  BY StepsAre DEF Doing, Idle
<1>2. todo[c][1].id = id
  BY <1>1 DEF Doing, Step
<1>3. /\ files' = files /\ ~HasNode(id)'
      /\ \A x \in Tables \ {id} : HasNode(x)' <=> HasNode(x)
  BY DroppedNodes DEF ClusterInv
<1>4. /\ DOMAIN Tail(todo[c]) \subseteq Nat \ {0}
      /\ \A i \in DOMAIN Tail(todo[c]) : i + 1 \in DOMAIN todo[c] /\ Tail(todo[c])[i] = todo[c][i + 1]
      /\ \A i \in DOMAIN todo[c] : i = 1 \/ i - 1 \in DOMAIN Tail(todo[c])
      /\ DOMAIN todo[c] \subseteq Nat
  BY <1>1, TailIs
<1> DEFINE rest == Tail(todo[c])
<1>5. ASSUME NEW i \in DOMAIN rest PROVE Emptying(c, i)'
  <2>1. i \in Nat \ {0} /\ i + 1 \in DOMAIN todo[c] /\ i + 1 # 1 /\ rest[i] = todo[c][i + 1]
    BY <1>4
  <2>7. PICK x \in Tables : x = todo[c][i + 1].id
    BY <1>1, <2>1
  <2>2. /\ x \notin catalog
        /\ todo[c][i + 1].do = "send" /\ HasNode(x) /\ files[x] = x
        /\ \A j \in DOMAIN todo[c] : todo[c][j].id = x => j = i + 1
    BY <2>1, <2>7 DEF Emptying
  <2>3. x # id
    BY <1>1, <1>2, <2>1, <2>2
  <2>4. \A j \in DOMAIN rest : rest[j].id = x => j = i
    BY <1>4, <2>1, <2>2
  <2>5. HasNode(x)' /\ files'[x] = x /\ ~Served(c)' /\ x \notin catalog'
    BY <1>3, <2>2, <2>3 DEF Served
  <2>6. todo'[c][i].id = x /\ todo'[c][i].do = "send"
    BY <2>1, <2>2, <2>7
  <2> QED BY <2>4, <2>5, <2>6 DEF Emptying
<1>6. Halfway(c)'
  BY <1>5 DEF Halfway
<1>7. ASSUME NEW x \in Tables \ {id}, Concerns(c, x) PROVE Concerns(c, x)'
  <2>1. PICK i \in DOMAIN todo[c] : todo[c][i].id = x
    BY <1>7 DEF Concerns
  <2>2. i # 1 /\ i - 1 \in DOMAIN rest
    BY <1>2, <1>4, <2>1
  <2>3. i \in Nat /\ rest[i - 1] = todo[c][(i - 1) + 1]
    BY <1>4, <2>2
  <2>4. rest[i - 1].id = x
    <3>1. (i - 1) + 1 = i
      BY <2>3
    <3>2. rest[i - 1] = todo[c][i]
      BY <2>3, <3>1, Zenon
    <3> QED BY <2>1, <3>2, Zenon
  <2> HIDE DEF rest
  <2>5. \E j \in DOMAIN rest : rest[j].id = x
    BY <2>2, <2>4
  <2> QED BY <2>5 DEF Concerns, rest
<1> QED BY <1>6, <1>7

LEMMA UnregisterWhole ==
    ASSUME ClusterInv, TypesInv, Whole, NEW c \in Clients, NEW id \in Tables, Unregister(c, id)
    PROVE  Whole'
<1>1. /\ Doing(c, "unregister", id) /\ UNCHANGED <<kind, exchange, catalog>> /\ DropNode(id)
      /\ todo' = [todo EXCEPT ![c] = Tail(todo[c])]
  BY DEF Unregister, Done, catalogVars
<1>2. /\ ~Served(c) /\ files[id] = NoTable
      /\ \/ /\ kind[c] = "create" /\ id \in catalog
            /\ todo[c] = <<Step("unregister", id), Step("uncatalog", id)>>
         \/ kind[c] = "drop" /\ todo[c] = <<Step("unregister", id)>> /\ id \notin catalog
         \/ /\ kind[c] = "dropDatabase" /\ \A i \in DOMAIN todo[c] : Emptying(c, i)
            /\ id \notin catalog /\ exchange[c].at # "receive"
  BY <1>1, AtUnregister
<1>3. \A d \in Clients \ {c} : todo'[d] = todo[d]
  BY <1>1 DEF TypesInv
<1>4. /\ files' = files /\ ~HasNode(id)'
      /\ \A x \in Tables \ {id} : HasNode(x)' <=> HasNode(x)
  BY <1>1, DroppedNodes DEF ClusterInv
<1>5. todo'[c] = Tail(todo[c]) /\ ~Served(c)'
  BY <1>1, <1>2 DEF TypesInv, Served
<1>6. CASE /\ kind[c] = "create" /\ id \in catalog
           /\ todo[c] = <<Step("unregister", id), Step("uncatalog", id)>>
  <2>1. todo'[c] = <<Step("uncatalog", id)>>
    BY <1>5, <1>6
  <2>2. Creating(c, id)' /\ kind'[c] = "create"
    BY <1>1, <1>2, <1>4, <1>5, <1>6, <2>1 DEF Creating
  <2>3. Halfway(c)' /\ Concerns(c, id)'
    BY <2>1, <2>2 DEF Halfway, Concerns, Step
  <2>4. \A x \in Tables \ {id} : ~Concerns(c, x)
    BY <1>6, OneTable DEF Actions
  <2> QED BY <1>1, <1>3, <1>4, <2>3, <2>4, OthersIdle, OwnStep
<1>7. CASE kind[c] = "drop" /\ todo[c] = <<Step("unregister", id)>> /\ id \notin catalog
  <2>1. Idle(c)' /\ Agrees(id)'
    BY <1>1, <1>2, <1>4, <1>5, <1>7 DEF Idle, Agrees
  <2>2. \A x \in Tables \ {id} : ~Concerns(c, x)
    BY <1>7, OneTable DEF Actions
  <2> QED BY <1>1, <1>3, <1>4, <2>1, <2>2, OthersIdle, OwnStep
<1>8. CASE /\ kind[c] = "dropDatabase" /\ \A i \in DOMAIN todo[c] : Emptying(c, i)
           /\ id \notin catalog /\ exchange[c].at # "receive"
  <2>1. Agrees(id)'
    BY <1>1, <1>2, <1>4, <1>8 DEF Agrees
  <2>2. Halfway(c)' /\ \A x \in Tables \ {id} : Concerns(c, x) => Concerns(c, x)'
    BY <1>1, <1>2, <1>5, <1>8, EmptyingGoesOn
  <2> QED BY <1>1, <1>3, <1>4, <2>1, <2>2, OthersIdle, OwnStep
<1> QED BY <1>2, <1>6, <1>7, <1>8

LEMMA LookUpWhole ==
    ASSUME ClusterInv, TypesInv, Whole, NEW c \in Clients, NEW id \in Tables, LookUp(c, id)
    PROVE  Whole'
<1>1. /\ UNCHANGED <<kind, todo, catalog, files, nodes>> /\ exchange[c].at = "lookup"
      /\ exchange' = [exchange EXCEPT ![c].at = "connect", ![c].port = nodes[id].port]
  BY DEF LookUp, registryVars, catalogVars
<1> DEFINE e == [exchange[c] EXCEPT !.at = "connect", !.port = nodes[id].port]
<1>2. exchange' = [exchange EXCEPT ![c] = e]
  BY <1>1
<1>3. e.at = "connect"
  BY DEF ClusterInv, ClientTypes, Exchanges
<1> HIDE DEF e
<1>4. exchange'[c].at = "connect" /\ \A d \in Clients \ {c} : exchange'[d] = exchange[d]
  BY <1>2, <1>3 DEF ClusterInv, ClientTypes
<1>5. \A d \in Clients : /\ Served(d)' <=> Served(d)
                         /\ exchange'[d].at = "receive" <=> exchange[d].at = "receive"
  BY <1>1, <1>4 DEF Served
<1> QED BY <1>1, <1>5, HarmlessStep DEF HasNode

\* The monitor, crashes, and doing nothing.
LEMMA OthersWhole ==
    ASSUME ClusterInv, TypesInv, Whole,
           ProbeOnce \/ (\E p \in Pids : StorageCrash(p)) \/ UNCHANGED vars
    PROVE  Whole'
<1>1. UNCHANGED <<kind, todo, catalog, exchange>>
  <2>1. UNCHANGED <<catalogVars, clientVars>>
    BY DEF ProbeOnce, BeginProbe, Pong, NoPong, MarkUp, MarkDown, Restart, StorageCrash, vars
  <2> QED BY <2>1 DEF catalogVars, clientVars
<1>2. files' = files /\ \A x \in Tables : HasNode(x)' <=> HasNode(x)
  <2>1. CASE UNCHANGED <<nodes, files>>
    BY <2>1 DEF HasNode
  <2>2. CASE ProbeOnce
    <3>1. \/ UNCHANGED registryVars
          \/ \E id \in Tables : \/ \E state : UpdateNode(id, state)
                                \/ \E works \in BOOLEAN : RestartNode(id, works)
      BY <2>2 DEF ProbeOnce, BeginProbe, Pong, NoPong, MarkUp, MarkDown, Restart
    <3>2. UNCHANGED registryVars => UNCHANGED <<nodes, files>>
      BY DEF registryVars
    <3> QED BY <2>1, <3>1, <3>2, KeptNodes DEF ClusterInv
  <2> QED BY <2>1, <2>2 DEF StorageCrash, Crash, vars, registryVars
<1> QED BY <1>1, <1>2, HarmlessStep DEF Served

\* A live process has what its directory has, so what it says is what is there.
LEMMA ServedFiles ==
    ASSUME ClusterInv, NEW p \in Pids, NEW id \in Tables, NEW does \in {"create", "drop", "query"},
           procs[p].alive, procs[p].dir = id, Serve(p, does, id)
    PROVE  /\ nodes' = nodes /\ \A x \in Tables \ {id} : files'[x] = files[x]
           /\ does = "create" => /\ Accepts(p, does, id) <=> files[id] = NoTable
                                 /\ files'[id] = IF files[id] = NoTable THEN id ELSE files[id]
           /\ does = "drop" => /\ Accepts(p, does, id) <=> files[id] = id
                               /\ files'[id] = IF files[id] = id THEN NoTable ELSE files[id]
           /\ does = "query" => files'[id] = files[id]
<1>1. procs[p].table = files[id] /\ DOMAIN files = Tables
  BY DEF ClusterInv, RegistryInv, FilesAreOwn, RegistryTypeOK
<1>2. CASE does = "create"
  <2>1. Accepts(p, does, id) <=> files[id] = NoTable
    BY <1>1, <1>2 DEF Accepts
  <2>2. IF files[id] = NoTable THEN files' = [files EXCEPT ![id] = id] ELSE files' = files
    BY <1>2, <2>1 DEF Serve
  <2> QED BY <1>1, <1>2, <2>1, <2>2 DEF Serve
<1>3. CASE does = "drop"
  <2>1. Accepts(p, does, id) <=> files[id] = id
    BY <1>1, <1>3 DEF Accepts
  <2>2. IF files[id] = id THEN files' = [files EXCEPT ![id] = NoTable] ELSE files' = files
    BY <1>3, <2>1 DEF Serve
  <2> QED BY <1>1, <1>3, <2>1, <2>2 DEF Serve
<1>4. CASE does = "query"
  BY <1>4 DEF Serve
<1> QED BY <1>2, <1>3, <1>4

LEMMA RequestWhole ==
    ASSUME ClusterInv, TypesInv, Whole, NEW c \in Clients, NEW id \in Tables, NEW p \in Pids,
           Request(c, id, p)
    PROVE  Whole'
<1> DEFINE does == IF kind[c] = "dropDatabase" THEN "drop" ELSE kind[c]
           ok == Accepts(p, does, id)
<1>1. /\ Doing(c, "send", id) /\ exchange[c].at = "connect" /\ procs[p].alive
      /\ Serve(p, does, id) /\ UNCHANGED <<kind, todo, catalog>>
      /\ exchange' = [exchange EXCEPT ![c].at = "receive", ![c].pid = p, ![c].success = ok]
  BY DEF Request, Listening, catalogVars
<1>2. kind[c] \in Kinds /\ ~Served(c)
  BY <1>1 DEF ClusterInv, ClientTypes, Served
<1>3. procs[p].dir = id
  BY RequestFinds
<1>4. /\ nodes' = nodes /\ \A x \in Tables \ {id} : files'[x] = files[x]
      /\ does = "create" => /\ ok <=> files[id] = NoTable
                            /\ files'[id] = IF files[id] = NoTable THEN id ELSE files[id]
      /\ does = "drop" => /\ ok <=> files[id] = id
                          /\ files'[id] = IF files[id] = id THEN NoTable ELSE files[id]
      /\ does = "query" => files'[id] = files[id]
  <2>1. does \in {"create", "drop", "query"}
    BY <1>2 DEF Kinds
  <2> QED BY <1>1, <1>3, <2>1, ServedFiles
<1>5. /\ exchange'[c].at = "receive" /\ (Served(c)' <=> ok)
      /\ \A d \in Clients \ {c} : todo'[d] = todo[d]
  <2> DEFINE e == [exchange[c] EXCEPT !.at = "receive", !.pid = p, !.success = ok]
  <2>1. exchange' = [exchange EXCEPT ![c] = e]
    BY <1>1
  <2> HIDE DEF ok
  <2>2. e.at = "receive" /\ e.success = ok
    BY DEF ClusterInv, ClientTypes, Exchanges
  <2> HIDE DEF e
  <2>3. exchange'[c] = e
    BY <2>1 DEF ClusterInv, ClientTypes
  <2> QED BY <1>1, <2>2, <2>3 DEF Served
<1>6. Concerns(c, id)' /\ \A x \in Tables : Concerns(c, x) => Concerns(c, x)'
  <2>1. Concerns(c, id)
    BY <1>1, StepsAre DEF Concerns, Doing, Step
  <2> QED BY <1>1, <2>1 DEF Concerns
<1>7. \A x \in Tables : (HasNode(x)' <=> HasNode(x)) /\ (x \in catalog' <=> x \in catalog)
  BY <1>1, <1>4 DEF HasNode
<1>8. Halfway(c)'
  <2>1. CASE /\ kind[c] = "create" /\ todo[c] = <<Step("send", id)>>
             /\ id \in catalog /\ HasNode(id) /\ files[id] = IF Served(c) THEN id ELSE NoTable
    <3>1. ok /\ files'[id] = id
      BY <1>2, <1>4, <2>1
    <3>2. Creating(c, id)'
      BY <1>1, <1>5, <1>7, <2>1, <3>1 DEF Creating
    <3> QED BY <1>1, <2>1, <3>2 DEF Halfway
  <2>2. CASE /\ kind[c] = "drop" /\ todo[c] = <<Step("send", id)>>
             /\ id \in catalog /\ HasNode(id) /\ files[id] = IF Served(c) THEN NoTable ELSE id
    <3>1. ok /\ files'[id] = NoTable
      BY <1>2, <1>4, <2>2
    <3>2. Dropping(c, id)'
      BY <1>1, <1>5, <1>7, <2>2, <3>1 DEF Dropping
    <3> QED BY <1>1, <2>2, <3>2 DEF Halfway
  <2>3. CASE kind[c] = "query" /\ todo[c] = <<Step("send", id)>> /\ Agrees(id)
    <3>1. files'[id] = files[id]
      BY <1>4, <2>3
    <3>2. Querying(c, id)'
      BY <1>1, <1>7, <2>3, <3>1 DEF Querying, Agrees
    <3> QED BY <1>1, <2>3, <3>2 DEF Halfway
  <2>4. CASE kind[c] = "dropDatabase" /\ \A i \in DOMAIN todo[c] : Emptying(c, i)
    <3>1. todo[c][1].id = id /\ todo[c][1].do = "send" /\ 1 \in DOMAIN todo[c]
      BY <1>1, StepsAre DEF Doing, Step
    <3>2. files[id] = id
      BY <1>2, <2>4, <3>1 DEF Emptying
    <3>3. ok /\ files'[id] = NoTable /\ Served(c)'
      BY <1>4, <1>5, <2>4, <3>2
    <3>4. ASSUME NEW i \in DOMAIN todo[c] PROVE Emptying(c, i)'
      <4>1. PICK x \in Tables : x = todo[c][i].id
        BY StepsAre
      <4>2. CASE i = 1
        <5>1. x = id
          BY <3>1, <4>1, <4>2
        <5>2. id \notin catalog /\ HasNode(id) /\ \A j \in DOMAIN todo[c] : todo[c][j].id = id => j = 1
          BY <2>4, <3>1 DEF Emptying
        <5>3. HasNode(id)' /\ id \notin catalog'
          BY <1>7, <5>2
        <5> QED BY <1>1, <3>1, <3>3, <4>2, <5>2, <5>3 DEF Emptying
      <4>3. CASE i # 1
        <5>1. /\ x \notin catalog /\ todo[c][i].do = "send" /\ HasNode(x) /\ files[x] = x
              /\ \A j \in DOMAIN todo[c] : todo[c][j].id = x => j = i
          BY <2>4, <4>1, <4>3 DEF Emptying
        <5>2. x # id
          BY <3>1, <4>3, <5>1
        <5>3. HasNode(x)' /\ x \notin catalog' /\ files'[x] = x
          BY <1>4, <1>7, <5>1, <5>2
        <5> QED BY <1>1, <4>1, <4>3, <5>1, <5>3 DEF Emptying
      <4> QED BY <4>2, <4>3
    <3> QED BY <1>1, <2>4, <3>3, <3>4 DEF Halfway
  <2> QED BY <1>1, <2>1, <2>2, <2>3, <2>4, AtSend
<1> QED BY <1>1, <1>4, <1>5, <1>6, <1>7, <1>8, OthersIdle, OwnStep

\* DROP DATABASE has had its table dropped, and drops the node next.
LEMMA EmptyingAnswered ==
    ASSUME TypesInv, NEW c \in Clients, NEW id \in Tables, Doing(c, "send", id),
           kind[c] = "dropDatabase", \A i \in DOMAIN todo[c] : Emptying(c, i), Served(c),
           UNCHANGED <<kind, catalog, nodes, files>>,
           todo'[c] = <<Step("unregister", id)>> \o Tail(todo[c]),
           exchange'[c] = NoExchange
    PROVE  /\ Halfway(c)'
           /\ \A x \in Tables : Concerns(c, x) => Concerns(c, x)'
<1> DEFINE rest == Tail(todo[c])
           steps == <<Step("unregister", id)>> \o rest
<1>1. /\ todo[c] \in Seq(Steps) /\ todo[c] # <<>> /\ Head(todo[c]) = todo[c][1] /\ 1 \in DOMAIN todo[c]
      /\ \A i \in DOMAIN todo[c] : todo[c][i].id \in Tables
  BY StepsAre DEF Doing, Idle
<1>2. /\ DOMAIN rest = 1 .. Len(todo[c]) - 1 /\ DOMAIN todo[c] = 1 .. Len(todo[c])
      /\ Len(todo[c]) \in Nat \ {0}
      /\ \A i \in DOMAIN rest : rest[i] = todo[c][i + 1]
  BY <1>1, TailIs
<1>3. /\ DOMAIN steps = DOMAIN todo[c] /\ steps[1] = Step("unregister", id)
      /\ \A i \in DOMAIN todo[c] : i # 1 => steps[i] = todo[c][i]
  <2>1. rest \in Seq(Steps) /\ Len(rest) = Len(todo[c]) - 1
    BY <1>1, <1>2
  <2> HIDE DEF rest
  <2>2. /\ Len(steps) = Len(rest) + 1 /\ DOMAIN steps = 1 .. Len(steps)
        /\ steps[1] = Step("unregister", id)
        /\ \A i \in 1 .. Len(steps) : i # 1 => steps[i] = rest[i - 1]
    BY <2>1
  <2>3. DOMAIN steps = DOMAIN todo[c]
    BY <1>2, <2>1, <2>2
  <2>4. ASSUME NEW i \in DOMAIN todo[c], i # 1 PROVE steps[i] = todo[c][i]
    <3>1. i - 1 \in DOMAIN rest /\ (i - 1) + 1 = i /\ i \in 1 .. Len(steps)
      BY <1>2, <2>1, <2>2, <2>4
    <3>2. rest[i - 1] = todo[c][(i - 1) + 1]
      BY <1>2, <3>1
    <3>3. steps[i] = rest[i - 1]
      BY <2>2, <2>4, <3>1
    <3> QED BY <3>1, <3>2, <3>3, Zenon
  <2> QED BY <2>2, <2>3, <2>4
<1> HIDE DEF steps, rest
<1>4. todo'[c] = steps /\ todo[c][1].id = id /\ todo[c][1].do = "send"
  BY <1>1 DEF steps, rest, Doing, Step
<1>5. ~Served(c)' /\ exchange'[c].at # "receive"
  BY DEF Served, NoExchange
<1>6. \A i \in DOMAIN todo[c] : steps[i].id = todo[c][i].id
  BY <1>3, <1>4 DEF Step
<1>7. ASSUME NEW i \in DOMAIN steps PROVE Emptying(c, i)'
  <2>1. PICK x \in Tables : x = todo[c][i].id
    BY <1>1, <1>3
  <2>2. x \notin catalog /\ \A j \in DOMAIN steps : steps[j].id = x => j = i
    BY <1>3, <1>6, <2>1 DEF Emptying
  <2>3. steps[i].id = x
    BY <1>3, <1>6, <2>1
  <2>4. CASE i = 1
    <3>1. files[x] = NoTable
      BY <1>3, <1>4, <2>1, <2>4 DEF Emptying
    <3>2. steps[i].do = "unregister"
      BY <1>3, <2>4 DEF Step
    <3> QED BY <1>4, <1>5, <2>2, <2>3, <2>4, <3>1, <3>2 DEF Emptying
  <2>5. CASE i # 1
    <3>1. todo[c][i].do = "send" /\ HasNode(x) /\ files[x] = x
      BY <1>3, <2>1, <2>5 DEF Emptying
    <3>2. steps[i].do = "send" /\ HasNode(x)'
      BY <1>3, <2>5, <3>1 DEF HasNode
    <3> QED BY <1>4, <1>5, <2>2, <2>3, <2>5, <3>1, <3>2 DEF Emptying
  <2> QED BY <2>4, <2>5
<1>8. Halfway(c)'
  BY <1>4, <1>5, <1>7 DEF Halfway
<1>9. \A x \in Tables : Concerns(c, x) => Concerns(c, x)'
  BY <1>3, <1>4, <1>6 DEF Concerns
<1> QED BY <1>8, <1>9

\* The answer of a shard: a CREATE or DROP TABLE takes it for what the shard
\* did, and a DROP DATABASE takes anything for that.
LEMMA AnsweredWhole ==
    ASSUME ClusterInv, TypesInv, Whole, NEW c \in Clients, NEW id \in Tables, NEW success,
           Doing(c, "send", id), Answered(c, id, success),
           kind[c] \in {"create", "drop"} => (success <=> Served(c)),
           kind[c] = "dropDatabase" => Served(c)
    PROVE  Whole'
<1>1. /\ UNCHANGED <<kind, catalog, nodes, files>>
      /\ todo' = [todo EXCEPT ![c] = Remaining(c, id, success)]
      /\ exchange' = [exchange EXCEPT ![c] = NoExchange]
  BY DEF Answered, registryVars, catalogVars
<1>2. /\ todo'[c] = Remaining(c, id, success) /\ \A d \in Clients \ {c} : todo'[d] = todo[d]
      /\ exchange'[c] = NoExchange /\ ~Served(c)'
  BY <1>1 DEF ClusterInv, ClientTypes, TypesInv, Served, NoExchange
<1>3. \A x \in Tables : (HasNode(x)' <=> HasNode(x)) /\ (x \in catalog' <=> x \in catalog)
  BY <1>1 DEF HasNode
<1>4. CASE /\ kind[c] = "create" /\ todo[c] = <<Step("send", id)>>
           /\ id \in catalog /\ HasNode(id) /\ files[id] = IF Served(c) THEN id ELSE NoTable
  <2>1. \A x \in Tables \ {id} : ~Concerns(c, x)
    BY <1>4, OneTable DEF Actions
  <2>2. CASE success
    <3>1. Idle(c)' /\ Agrees(id)'
      BY <1>1, <1>2, <1>3, <1>4, <2>2 DEF Remaining, Idle, Agrees
    <3> QED BY <1>1, <1>2, <1>3, <2>1, <3>1, OthersIdle, OwnStep
  <2>3. CASE ~success
    <3>1. todo'[c] = <<Step("unregister", id), Step("uncatalog", id)>>
      BY <1>2, <1>4, <2>3 DEF Remaining
    <3>2. Creating(c, id)' /\ kind'[c] = "create"
      BY <1>1, <1>2, <1>4, <2>3, <3>1 DEF Creating
    <3>3. Halfway(c)' /\ Concerns(c, id)'
      BY <3>1, <3>2 DEF Halfway, Concerns, Step
    <3> QED BY <1>1, <1>2, <1>3, <2>1, <3>3, OthersIdle, OwnStep
  <2> QED BY <2>2, <2>3
<1>5. CASE /\ kind[c] = "drop" /\ todo[c] = <<Step("send", id)>>
           /\ id \in catalog /\ HasNode(id) /\ files[id] = IF Served(c) THEN NoTable ELSE id
  <2>1. \A x \in Tables \ {id} : ~Concerns(c, x)
    BY <1>5, OneTable DEF Actions
  <2>2. CASE success
    <3>1. todo'[c] = <<Step("uncatalog", id), Step("unregister", id)>>
      BY <1>2, <1>5, <2>2 DEF Remaining
    <3>2. Dropping(c, id)' /\ kind'[c] = "drop"
      BY <1>1, <1>2, <1>5, <2>2, <3>1 DEF Dropping
    <3>3. Halfway(c)' /\ Concerns(c, id)'
      BY <3>1, <3>2 DEF Halfway, Concerns, Step
    <3> QED BY <1>1, <1>2, <1>3, <2>1, <3>3, OthersIdle, OwnStep
  <2>3. CASE ~success
    <3>1. Idle(c)' /\ Agrees(id)'
      BY <1>1, <1>2, <1>3, <1>5, <2>3 DEF Remaining, Idle, Agrees
    <3> QED BY <1>1, <1>2, <1>3, <2>1, <3>1, OthersIdle, OwnStep
  <2> QED BY <2>2, <2>3
<1>6. CASE kind[c] = "query" /\ todo[c] = <<Step("send", id)>> /\ Agrees(id)
  <2>1. \A x \in Tables \ {id} : ~Concerns(c, x)
    BY <1>6, OneTable DEF Actions
  <2>2. Idle(c)' /\ Agrees(id)'
    BY <1>1, <1>2, <1>3, <1>6 DEF Remaining, Idle, Agrees
  <2> QED BY <1>1, <1>2, <1>3, <2>1, <2>2, OthersIdle, OwnStep
<1>7. CASE kind[c] = "dropDatabase" /\ \A i \in DOMAIN todo[c] : Emptying(c, i)
  <2>1. todo'[c] = <<Step("unregister", id)>> \o Tail(todo[c])
    BY <1>2, <1>7 DEF Remaining
  <2>2. Halfway(c)' /\ \A x \in Tables : Concerns(c, x) => Concerns(c, x)'
    BY <1>1, <1>2, <1>7, <2>1, EmptyingAnswered
  <2>3. Concerns(c, id)
    BY StepsAre DEF Concerns, Doing, Step
  <2> QED BY <1>1, <1>2, <1>3, <2>2, <2>3, OthersIdle, OwnStep
<1> QED BY <1>4, <1>5, <1>6, <1>7, AtSend

LEMMA RouteWhole ==
    ASSUME ClusterInv, TypesInv, Whole, NEW c \in Clients, Route(c), ~torn'
    PROVE  Whole'
<1>1. PICK id \in Tables :
         \/ \E works \in BOOLEAN : Register(c, id, works)
         \/ LookUp(c, id) \/ NoSuchNode(c, id)
         \/ \E p \in Pids : Request(c, id, p)
         \/ CannotConnect(c, id) \/ Receive(c, id) \/ LoseAnswer(c, id)
         \/ Uncatalog(c, id) \/ Unregister(c, id)
  BY DEF Route
<1>2. exchange[c].success \in BOOLEAN
  BY DEF ClusterInv, ClientTypes, Exchanges
<1>3. CASE NoSuchNode(c, id) \/ CannotConnect(c, id)
  <2>1. /\ Doing(c, "send", id) /\ Answered(c, id, FALSE) /\ ~Served(c)
        /\ kind[c] # "dropDatabase"
    <3>1. exchange[c].at # "receive"
      BY <1>3 DEF NoSuchNode, CannotConnect
    <3> QED BY <1>3, <3>1 DEF NoSuchNode, CannotConnect, Tears, Served
  <2> QED BY <2>1, AnsweredWhole
<1>4. CASE Receive(c, id)
  <2>1. /\ Doing(c, "send", id) /\ Answered(c, id, exchange[c].success)
        /\ exchange[c].success <=> Served(c)
    BY <1>2, <1>4 DEF Receive, Served
  <2>2. kind[c] = "dropDatabase" => Served(c)
    BY <1>4, <2>1, AtSend DEF Receive
  <2> QED BY <2>1, <2>2, AnsweredWhole
<1>5. CASE LoseAnswer(c, id)
  <2>1. /\ Doing(c, "send", id) /\ Answered(c, id, FALSE)
        /\ kind[c] \notin {"create", "drop"}
    BY <1>5 DEF LoseAnswer, Tears
  <2>2. kind[c] = "dropDatabase" => Served(c)
    BY <1>5, <2>1, AtSend DEF LoseAnswer
  <2> QED BY <2>1, <2>2, AnsweredWhole
<1> QED BY <1>1, <1>3, <1>4, <1>5, RegisterWhole, LookUpWhole, RequestWhole, UncatalogWhole,
           UnregisterWhole

LEMMA StatementsKept ==
    ASSUME ClusterInv, TypesInv, StatementInv, [Next]_vars
    PROVE  StatementInv'
<1> SUFFICES ASSUME alone', ~torn' PROVE Whole'
  BY DEF StatementInv
<1>1. ASSUME NEW c \in Clients, BeginStatement(c) PROVE Whole'
  BY <1>1, BeginWhole
<1>2. ASSUME ~\E c \in Clients : BeginStatement(c) PROVE alone /\ ~torn
  <2>1. CASE \E c \in Clients : Route(c)
    <3>1. PICK c \in Clients : Route(c)
      BY <2>1
    <3>2. alone' = alone
      BY <3>1 DEF Route, Register, LookUp, NoSuchNode, Request, CannotConnect, Receive, LoseAnswer,
                  Uncatalog, Unregister, Answered
    <3>3. torn' = torn \/ \E kinds : torn' = (torn \/ kind[c] \in kinds)
      BY <3>1 DEF Route, Register, LookUp, NoSuchNode, Request, CannotConnect, Receive, LoseAnswer,
                  Uncatalog, Unregister, Tears
    <3> QED BY <3>2, <3>3 DEF TypesInv
  <2>2. CASE ~\E c \in Clients : Route(c)
    <3>1. UNCHANGED clientVars
      BY <1>2, <2>2 DEF Next, ProbeOnce, BeginProbe, Pong, NoPong, MarkUp, MarkDown, Restart,
                        StorageCrash, vars
    <3> QED BY <3>1 DEF clientVars
  <2> QED BY <2>1, <2>2
<1>3. ASSUME NEW c \in Clients, Route(c), Whole PROVE Whole'
  BY <1>3, RouteWhole
<1> QED BY <1>1, <1>2, <1>3, OthersWhole DEF Next, StatementInv

\* The statements of the clients, one at a time, leave the catalog, the registry
\* and the shard directories in agreement, for any number of them and whatever
\* starts fail, processes die and are restarted meanwhile, unless a shard's
\* answer to a CREATE or DROP TABLE is lost or DROP DATABASE misses a shard.
THEOREM StatementsAreAlwaysWhole == Spec => []StatementsAreWhole
<1>1. Spec => []StatementInv
  <2>1. ClusterInv /\ TypesInv /\ StatementInv /\ [Next]_vars => StatementInv'
    BY StatementsKept
  <2> QED BY <2>1, WholeStarts, TypesAlways, ClusterInvariant, PTL DEF Spec
<1>2. TypesInv /\ StatementInv => StatementsAreWhole
  <2> SUFFICES ASSUME TypesInv, StatementInv, alone, ~torn, \A c \in Clients : Idle(c)
               PROVE  /\ \A id \in catalog : HasNode(id) /\ files[id] = id
                      /\ \A id \in Tables \ catalog : ~HasNode(id) /\ files[id] = NoTable
    BY DEF StatementsAreWhole, CatalogedIsUsable
  <2>1. \A c \in Clients, id \in Tables : ~Concerns(c, id)
    BY DEF Idle, Concerns
  <2>2. \A id \in Tables : Agrees(id)
    BY <2>1 DEF StatementInv, Whole
  <2>3. catalog \subseteq Tables
    BY DEF TypesInv
  <2> QED BY <2>2, <2>3 DEF Agrees
<1> QED BY <1>1, <1>2, TypesAlways, PTL
=============================================================================

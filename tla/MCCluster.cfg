CONSTANTS
    none = none
    t1 = t1
    t2 = t2
    c1 = c1
    c2 = c2
    NoTable = none
    Tables = {t1, t2}
    Clients = {c1, c2}
    MaxPorts = 3
    MaxProcesses = 5
    MaxFailures = 1
    DeadThreshold = 2
    MaxStatements = 3
    MaxCrashes = 1
SPECIFICATION Spec
SYMMETRY Symmetry
\* The bounds are reached.
CHECK_DEADLOCK FALSE
INVARIANTS TypeOK ShardsKeepToThemselves NoOrphans StatementsAreWhole
           DeadNodesAreRestarted

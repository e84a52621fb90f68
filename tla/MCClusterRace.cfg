CONSTANTS
    none = none
    t1 = t1
    t2 = t2
    c1 = c1
    c2 = c2
    NoTable = none
    Tables = {t1}
    Clients = {c1, c2}
    MaxPorts = 2
    MaxProcesses = 4
    MaxFailures = 0
    DeadThreshold = 2
    MaxStatements = 4
    MaxCrashes = 0
SPECIFICATION Spec
\* The bounds are reached.
CHECK_DEADLOCK FALSE
INVARIANTS CatalogedIsUsable

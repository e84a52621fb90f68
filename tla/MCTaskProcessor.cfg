CONSTANTS
    none = none
    t1 = t1
    t2 = t2
    t3 = t3
    w1 = w1
    w2 = w2
    Tasks <- MCTasks
    Workers <- MCWorkers
    NoTask = none
SPECIFICATION FairSpec
\* Every task has its reply and the pool has stopped.
CHECK_DEADLOCK FALSE
INVARIANTS TypeOK NobodySleepsInVain StopDrains RepliesTellTruth
PROPERTIES ImplementsTaskBoard EveryTaskEnds StopReturns

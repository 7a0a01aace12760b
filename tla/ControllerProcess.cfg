\* Three keys for two workers: a key can wait in the queue behind both.  The
\* process may end.
CONSTANTS
    Keys = {k1, k2, k3}
    Workers = {w1, w2}
    NoKey = NoKey
SPECIFICATION ProcessFairSpec
CHECK_DEADLOCK FALSE
INVARIANTS
    ProcessTypeOK
    QueueConsistent
    SingleFlight
    NoForgottenRetry
    NoSleeperIsNeeded
    FoundWhenReconciled
PROPERTIES
    FirstListIsKnown
    ImplementsPendingWork
    EverySourceIsReconciled
    EveryDirtyKeyIsReconciled
    EveryFailureIsRetried
    WorkersExit

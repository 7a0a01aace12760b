\* A source is created, registered, deleted and finalized, under two faults of any kind:
\* the second can meet what the first has left, a stale cache, a conflict, a repeated
\* request.  Two workers are there for the properties that they could break.
CONSTANTS
    Keys = {k1}
    Workers = {w1, w2}
    NoKey = NoKey
    NoSource = NoSource
    NoHook = NoHook
    Projects = {"p"}
    Pathless = {}
    Instance <- OneInstance
    Sinks = {"ref"}
    NamePrefixes <- DistinctNames
    PageSize = 20
    MaxUid = 1
    EditKinds = {}
    MaxEdits = 0
    FaultKinds = {"crash", "relist", "read", "create", "createLost", "service", "gitlab", "gitlabLost", "write", "writeLost"}
    MaxFaults = 2
SPECIFICATION Spec
SYMMETRY Interchangeable
\* The system stops for good when its sources are gone.
CHECK_DEADLOCK FALSE
INVARIANTS
    TypeOK
    NothingUnobserved
    ProtectedHooksAccounted
    SingleFlight
    AtMostOneReceiver
PROPERTIES
    NoSecondHookOnceRecorded
    ImplementsHookLifecycle
    ClearedIDMeansDeleted

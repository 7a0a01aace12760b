\* Progress without resyncs: faults that end in an error are retried.
CONSTANTS
    Keys = {k1}
    Workers = {w1}
    NoKey = NoKey
    NoSource = NoSource
    NoHook = NoHook
    Projects = {"p"}
    Pathless = {}
    Instance <- OneInstance
    Sinks = {"ref"}
    NamePrefixes <- DistinctNames
    PageSize = 20
    MaxUid = 1
    EditKinds = {"touch"}
    MaxEdits = 1
    FaultKinds = {"relist", "gitlab", "gitlabLost"}
    MaxFaults = 1
SPECIFICATION FairSpec
\* The system stops for good when its sources are gone.
CHECK_DEADLOCK FALSE
PROPERTIES
    EventuallyRegistered
    FinalizerAlwaysRemoved

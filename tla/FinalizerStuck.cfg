\* One failed write keeps the finalizer for ever.
CONSTANTS
    Keys = {k1}
    Workers = {w1}
    NoKey = NoKey
    NoSource = NoSource
    NoHook = NoHook
    Projects = {"p"}
    Pathless = {}
    Instance <- OneInstance
    Sinks = {"ref"}
    NamePrefixes <- DistinctNames
    PageSize = 20
    MaxUid = 1
    EditKinds = {}
    MaxEdits = 0
    FaultKinds = {"write"}
    MaxFaults = 1
SPECIFICATION ResyncSpec
\* The system stops for good when its sources are gone.
CHECK_DEADLOCK FALSE
PROPERTIES
    FinalizerAlwaysRemoved

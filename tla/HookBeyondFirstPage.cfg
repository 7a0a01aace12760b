\* A second webhook of the source, left by a crash, fills the first page of hooks.
CONSTANTS
    Keys = {k1}
    Workers = {w1}
    NoKey = NoKey
    NoSource = NoSource
    NoHook = NoHook
    Projects = {"p"}
    Pathless = {}
    Instance <- OneInstance
    Sinks = {"ref"}
    NamePrefixes <- DistinctNames
    PageSize = 1
    MaxUid = 1
    EditKinds = {}
    MaxEdits = 0
    FaultKinds = {"crash"}
    MaxFaults = 1
SPECIFICATION Spec
\* The system stops for good when its sources are gone.
CHECK_DEADLOCK FALSE
PROPERTIES
    ClearedIDMeansDeleted

\* The sink of a registered source is edited.
CONSTANTS
    Keys = {k1}
    Workers = {w1}
    NoKey = NoKey
    NoSource = NoSource
    NoHook = NoHook
    Projects = {"p"}
    Pathless = {}
    Instance <- OneInstance
    Sinks = {"ref", "uri"}
    NamePrefixes <- DistinctNames
    PageSize = 20
    MaxUid = 1
    EditKinds = {"sink"}
    MaxEdits = 1
    FaultKinds = {}
    MaxFaults = 0
SPECIFICATION RegisteredSpec
\* The system stops for good when its sources are gone.
CHECK_DEADLOCK FALSE
INVARIANTS
    SinkURIIsActive

\* A registered source is edited twice: every form of sink, a project URL without a
\* path, a finalizer of another controller, an address that changes.
CONSTANTS
    Keys = {k1}
    Workers = {w1}
    NoKey = NoKey
    NoSource = NoSource
    NoHook = NoHook
    Projects = {"p", "q"}
    Pathless = {"q"}
    Instance <- OneInstance
    Sinks = {"ref", "uri", "empty", "none"}
    NamePrefixes <- DistinctNames
    PageSize = 20
    MaxUid = 1
    EditKinds = {"project", "sink", "foreign", "address"}
    MaxEdits = 2
    FaultKinds = {}
    MaxFaults = 0
SPECIFICATION RegisteredSpec
\* The system stops for good when its sources are gone.
CHECK_DEADLOCK FALSE
INVARIANTS
    ReadyHasASink
PROPERTIES
    ControllerKeepsTheSpec

\* A source is deleted and created again while it is being reconciled.
CONSTANTS
    Keys = {k1}
    Workers = {w1}
    NoKey = NoKey
    NoSource = NoSource
    NoHook = NoHook
    Projects = {"p"}
    Pathless = {}
    Instance <- OneInstance
    Sinks = {"ref"}
    NamePrefixes <- DistinctNames
    PageSize = 20
    MaxUid = 2
    EditKinds = {}
    MaxEdits = 0
    FaultKinds = {}
    MaxFaults = 0
SPECIFICATION Spec
\* The system stops for good when its sources are gone.
CHECK_DEADLOCK FALSE
INVARIANTS
    RecordedHookIsOwn

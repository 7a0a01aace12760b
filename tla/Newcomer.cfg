\* A source is registered next to another one and a hook that is left of its predecessor,
\* where the name of one begins that of the other and their project may have been moved
\* from one GitLab to another.
CONSTANTS
    Keys = {k1, k2}
    Workers = {w1}
    NoKey = NoKey
    NoSource = NoSource
    NoHook = NoHook
    Projects = {"p", "q"}
    Pathless = {}
    Instance <- InstanceEach
    Sinks = {"ref"}
    NamePrefixes <- NestedNames
    PageSize = 20
    MaxUid = 2
    EditKinds = {}
    MaxEdits = 0
    FaultKinds = {}
    MaxFaults = 0
SPECIFICATION NewcomerSpec
\* The system stops for good when its sources are gone.
CHECK_DEADLOCK FALSE
INVARIANTS
    HookReachesReceiver
    RecordedHookIsOwn
PROPERTIES
    OnlyDyingSourcesLoseHooks

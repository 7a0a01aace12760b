\* Progress after a failed read, which takes a resync if the failure comes before
\* the receive adapter exists, and after a change of the secrets, which nobody watches.
CONSTANTS
    Keys = {k1}
    Workers = {w1}
    NoKey = NoKey
    NoSource = NoSource
    NoHook = NoHook
    Projects = {"p"}
    Pathless = {}
    Instance <- OneInstance
    Sinks = {"ref"}
    NamePrefixes <- DistinctNames
    PageSize = 20
    MaxUid = 1
    EditKinds = {"secrets"}
    MaxEdits = 1
    FaultKinds = {"read"}
    MaxFaults = 1
SPECIFICATION ResyncSpec
\* The system stops for good when its sources are gone.
CHECK_DEADLOCK FALSE
PROPERTIES
    EventuallyRegistered
    LostReadinessIsNoticed

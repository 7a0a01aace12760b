\* Two concurrent requests, of one event and its repetition or of a stranger, and
\* one change of the secret.  Handlers share nothing, so that a second event would
\* meet nothing that the repetition does not.
CONSTANTS
    Handlers = {h1, h2}
    Deliveries = {d1}
    Stranger = Stranger
    Specs = {{"push_events", "push_events_branch_filter"}, {"issues_events"},
             {"confidential_issues_events"}, {"merge_requests_events"},
             {"tag_push_events"}, {"note_events"}, {"job_events"}, {"pipeline_events"},
             {"wiki_page_events"}, {"push_events_branch_filter"},
             {"push_events", "issues_events"}}
    Headers = {"", "PushHook", "JobHook"}
    SinkURI = "http://sink"
    Tokens = {"s", "t"}
    Other = "other"
    Empty = ""
    Down = Down
    NoHook = NoHook
    NoEvent = NoEvent
    NoRequest = NoRequest
    MaxAttempts = 2
    MaxRotations = 1
SPECIFICATION Spec
\* Without a secret, and with all requests made, nothing is left to do.
CHECK_DEADLOCK FALSE
INVARIANTS
    TypeOK
    OnlyTheHookIsForwarded
    OnlyRequestedTypes
    AtMostOncePerAttempt
    AcknowledgedMeansOffered

\* Two dependents more than those of GitLabSource.
CONSTANTS
    Dependents = {SecretsProvided, SinkProvided, Third, Fourth}
    Happy = Ready
SPECIFICATION Spec
INVARIANTS
    HappyIffAllTrue
    FailureIsVisible

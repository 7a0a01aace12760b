---------------------- MODULE MCGitLabSourceController ----------------------
(***************************************************************************)
(* GitLabSourceController for TLC.  Besides the empty cluster, runs may    *)
(* begin where sources have been registered and all is quiet, which is the *)
(* state the controller leaves them in when nothing fails.                 *)
(***************************************************************************)
EXTENDS GitLabSourceController, TLC

\* No source's name is a prefix of another's.
DistinctNames == {<<k, k>> : k \in Keys}

\* All projects are in one GitLab, or each in its own.
OneInstance == [project \in Projects |-> "gitlab"]
InstanceEach == [project \in Projects |-> project]

Interchangeable == Permutations(Workers)

\* A numbering of the keys, for the IDs of the webhooks they begin with.
Number == CHOOSE f \in [Keys -> 1..Cardinality(Keys)] :
            \A k, l \in Keys : f[k] = f[l] => k = l

RegisteredSource(k, project, uid) ==
    [uid |-> uid, rv |-> 4, deleting |-> FALSE, finalizers |-> {finalizerName},
     project |-> project, sink |-> "ref",
     status |-> [hookID |-> Number[k], sinkURI |-> "a",
                 conds |-> [t \in Conds!ConditionTypes |-> "True"]]]

\* Its receive adapter and its service were created, and its address is known
\* since the last reconciliation.
NewSource(k, project, uid) ==
    [RegisteredSource(k, project, uid) EXCEPT !.finalizers = {}, !.status.hookID = NoHook]

\* A name begins those of the keys with higher numbers.
NestedNames == {<<k, l>> \in Keys \X Keys : Number[k] <= Number[l]}

\* All sources are of one project, all hooks of another if the project was moved since.
\* Sources in young are yet to get their hook; each has a predecessor of its name, which
\* left its hook behind: the process died before it recorded the hook, and the source
\* was deleted.
InitWith(young, uid, project, registeredAt) ==
    LET settled == Keys \ young
        registered(k) == <<k, IF k \in young THEN uid - 1 ELSE uid>>
    IN  /\ QueueInit
        /\ server = [k \in Keys |-> IF k \in young THEN NewSource(k, project, uid)
                                                  ELSE RegisteredSource(k, project, uid)]
        /\ hooks = {[id |-> Number[k], project |-> registeredAt, owner |-> registered(k),
                     target |-> registered(k)] : k \in Keys}
        /\ hookCount = Cardinality(Keys)
        /\ issuers = [n \in 1..hookCount |-> Instance[registeredAt]]
        /\ revision = [k \in Keys |-> server[k].rv]
        /\ created = [k \in Keys |-> uid]
        /\ watch = [k \in Keys |-> <<>>]
        /\ cache = server
        /\ notified = young
        /\ unseen = [k \in Keys |-> k \in young]
        /\ pc = [w \in Workers |-> "get"]
        /\ held = [w \in Workers |-> NoKey]
        /\ original = Idle
        /\ source = Idle
        /\ failed = [w \in Workers |-> FALSE]
        /\ deployments = {[owner |-> <<k, uid>>, sink |-> "a", n |-> 1] : k \in Keys}
        /\ services = {[owner |-> <<k, uid>>, ingress |-> TRUE] : k \in Keys}
        /\ warned = {}
        /\ protected = {Number[k] : k \in settled}
        /\ secrets = TRUE
        /\ address = "a"
        /\ edits = 0
        /\ faults = 0

RegisteredInit ==
    \E project \in Projects \ Pathless : InitWith({}, 1, project, project)
RegisteredSpec == RegisteredInit /\ [][Next]_vars

\* One source is new, and no name will be used again.  It has the name that begins the
\* others, or the one that begins none; then the project may have been moved, too.
NewcomerInit ==
    LET here == CHOOSE project \in Projects : project \notin Pathless
        numbered(n) == {k \in Keys : Number[k] = n}
    IN  \/ InitWith(numbered(1), MaxUid, here, here)
        \/ \E project \in Projects :
                InitWith(numbered(Cardinality(Keys)), MaxUid, here, project)
NewcomerSpec == NewcomerInit /\ [][Next]_vars
=============================================================================

----------------------- MODULE GitLabSourceController -----------------------
(***************************************************************************)
(* The GitLabSource controller (pkg/reconciler): the API server's copy of  *)
(* each source, the informer's cache that follows it, the work queue and   *)
(* the workers that run Reconcile, together with what Reconcile creates: a *)
(* deployment and a service in the cluster and a webhook in GitLab.        *)
(*                                                                         *)
(* Reconcile is cut where it waits for a server.  A step reads or writes   *)
(* one resource and runs the code up to the next request; objects of the   *)
(* cache are shared with it by pointer, as in the code.                    *)
(***************************************************************************)
EXTENDS WorkQueue, FiniteSets

CONSTANTS
    Workers, NoKey,
    NoSource,           \* the absence of an object
    NoHook,             \* the empty WebhookIDKey
    Projects,           \* project URLs
    Pathless,           \* those of them that have no path
    Instance,           \* of each project URL: the GitLab it leads to
    Sinks,              \* forms of spec.sink and spec.uri in use
    NamePrefixes,       \* <<k, l>> if the name of k is a prefix of the name of l
    PageSize,           \* hooks on the first page of ListProjectHooks
    MaxUid,             \* bound: objects created under one name
    EditKinds, MaxEdits,    \* what users and other controllers do, and how often
    FaultKinds, MaxFaults   \* what can fail, and how often

ASSUME ConstantsAssumption ==
    /\ NoKey \notin Keys
    /\ NoHook \notin Nat
    /\ Pathless \subseteq Projects
    /\ DOMAIN Instance = Projects
    /\ Sinks \subseteq {"ref", "uri", "empty", "none"}
    /\ \A k \in Keys : <<k, k>> \in NamePrefixes
    /\ {PageSize, MaxUid, MaxEdits, MaxFaults} \subseteq Nat

VARIABLES
    server,             \* the API server's GitLabSource of each key
    revision,           \* the last resource version given to the key
    created,            \* the number of objects created under the key
    watch,              \* versions the watch has yet to bring, oldest first
    cache,              \* the informer's object of each key
    notified,           \* keys with a change notification on its way to Enqueue
    unseen,             \* ghost: the cache changed since Reconcile last read it
    pc, held,           \* the workers
    original, source,   \* Reconcile's snapshot of the object and its deep copy
    failed,             \* whether Reconcile is going to return an error
    deployments, services,  \* receive adapters and their public services
    hooks, hookCount,   \* webhooks in GitLab, and the number ever created
    issuers,            \* of each one ever created: the instance of GitLab it is in
    warned,             \* IDs of the hooks named in a FailedFinalize event
    protected,          \* ghost: IDs stored while the finalizer was stored too
    secrets,            \* whether the secrets can be read
    address,            \* where the sink object is addressable, or NoURI
    edits, faults       \* what was spent of the two budgets

apiVars == <<server, revision, created>>
informerVars == <<watch, cache, notified, unseen>>
workerVars == <<pc, held, original, source, failed>>
receiverVars == <<deployments, services>>
gitlabVars == <<hooks, hookCount, issuers>>
accountVars == <<warned, protected>>
environmentVars == <<secrets, address>>
vars == <<apiVars, informerVars, queueVars, workerVars, receiverVars, gitlabVars,
          accountVars, environmentVars, edits, faults>>

Conds == INSTANCE ConditionSet WITH
    Dependents <- {"SecretsProvided", "SinkProvided"}, Happy <- "Ready"

finalizerName == "gitlab-source-controller"
Foreign == "foreign"
Finalizers == {finalizerName, Foreign}

Addresses == {"a", "b"}
NoURI == ""     \* no address, and status.sinkUri before there is one
SinkURIs == Addresses \cup {NoURI, "uri"}
Uids == 1..MaxUid
Owners == Keys \X Uids
\* Hooks are told apart by the order in which they were created.  The ID in a status
\* says less: it is the number of the hook in its own instance of GitLab.
HookIDs == 1..hookCount
HookNumber(id) == Cardinality({n \in 1..id : issuers[n] = issuers[id]})

\* What the API stores of a source, with the hook IDs that can be in its status.
SourceObjects(ids) ==
    [uid : Uids, rv : Nat, deleting : BOOLEAN, finalizers : SUBSET Finalizers,
     project : Projects, sink : Sinks,
     status : [hookID : ids \cup {NoHook}, conds : Conds!Conditions, sinkURI : SinkURIs]]
Versions == SourceObjects(HookIDs) \cup {NoSource}

ASSUME NoSourceAssumption == NoSource \notin SourceObjects(Nat)

Phases == {"get", "lookup", "secrets", "sink", "receiver", "deployment",
           "service", "webhook", "finalize", "deleteWebhook", "status",
           "finalizers", "finish"}

TypeOK ==
    /\ QueueTypeOK
    /\ server \in [Keys -> Versions]
    /\ cache \in [Keys -> Versions]
    /\ revision \in [Keys -> Nat]
    /\ created \in [Keys -> 0..MaxUid]
    /\ watch \in [Keys -> Seq(Versions)]
    /\ notified \subseteq Keys
    /\ unseen \in [Keys -> BOOLEAN]
    /\ pc \in [Workers -> Phases]
    /\ held \in [Workers -> Keys \cup {NoKey}]
    /\ original \in [Workers -> Versions]
    /\ source \in [Workers -> Versions]
    /\ failed \in [Workers -> BOOLEAN]
    /\ deployments \subseteq [owner : Owners, sink : SinkURIs, n : Nat]
    /\ services \subseteq [owner : Owners, ingress : BOOLEAN]
    /\ hookCount \in Nat
    /\ issuers \in Seq({Instance[project] : project \in Projects})
    /\ Len(issuers) = hookCount
    /\ hooks \subseteq [id : HookIDs, project : Projects, owner : Owners, target : Owners]
    /\ warned \subseteq HookIDs
    /\ protected \subseteq HookIDs
    /\ secrets \in BOOLEAN
    /\ address \in Addresses \cup {NoURI}
    /\ edits \in 0..MaxEdits
    /\ faults \in 0..MaxFaults

Idle == [w \in Workers |-> NoSource]

Init ==
    /\ QueueInit
    /\ server = [k \in Keys |-> NoSource]
    /\ revision = [k \in Keys |-> 0]
    /\ created = [k \in Keys |-> 0]
    /\ watch = [k \in Keys |-> <<>>]
    /\ cache = server
    /\ notified = {}
    /\ unseen = [k \in Keys |-> FALSE]
    /\ pc = [w \in Workers |-> "get"]
    /\ held = [w \in Workers |-> NoKey]
    /\ original = Idle
    /\ source = Idle
    /\ failed = [w \in Workers |-> FALSE]
    /\ deployments = {}
    /\ services = {}
    /\ hooks = {}
    /\ hookCount = 0
    /\ issuers = <<>>
    /\ warned = {}
    /\ protected = {}
    /\ secrets = TRUE
    /\ address = "a"
    /\ edits = 0
    /\ faults = 0

-----------------------------------------------------------------------------
(* The API server and the faults of requests *)

Fault(kind) ==
    /\ kind \in FaultKinds
    /\ faults < MaxFaults
    /\ faults' = faults + 1

NoFault == UNCHANGED faults

\* Stores a new version of the object of k and sends it to the watch.  A
\* deleted object without finalizers is gone.
Store(k, object) ==
    LET stored == IF object.deleting /\ object.finalizers = {}
                  THEN NoSource
                  ELSE [object EXCEPT !.rv = revision[k] + 1]
    IN  /\ server' = [server EXCEPT ![k] = stored]
        /\ revision' = [revision EXCEPT ![k] = @ + 1]
        /\ watch' = [watch EXCEPT ![k] = Append(@, stored)]
        /\ protected' = IF stored # NoSource /\ finalizerName \in object.finalizers
                        THEN protected \cup ({object.status.hookID} \ {NoHook})
                        ELSE protected

\* A write that changes nothing makes no new version.
StoreIfChanged(k, object) ==
    IF object = server[k]
    THEN UNCHANGED <<server, revision, watch, protected>>
    ELSE Store(k, object)

\* Optimistic concurrency, by resource version.
Current(k, object) == server[k] # NoSource /\ object.rv = server[k].rv

\* Finalizers may only be removed from an object that is being deleted.
FinalizersAllowed(k, finalizers) ==
    server[k].deleting => finalizers \subseteq server[k].finalizers

-----------------------------------------------------------------------------
(* The informer: reflector, cache and notifications *)

\* Mutant: the handler for updates is not registered.
DeliverAddsOnly(k) ==
    /\ watch[k] # <<>>
    /\ cache' = [cache EXCEPT ![k] = Head(watch[k])]
    /\ watch' = [watch EXCEPT ![k] = Tail(@)]
    /\ notified' = IF cache[k] = NoSource THEN notified \cup {k} ELSE notified
    /\ unseen' = [unseen EXCEPT ![k] = TRUE]
    /\ UNCHANGED <<apiVars, queueVars, workerVars, receiverVars, gitlabVars,
                   accountVars, environmentVars, edits, faults>>

\* The next version reaches the cache, and its handlers will be told.
Deliver(k) ==
    /\ watch[k] # <<>>
    /\ cache' = [cache EXCEPT ![k] = Head(watch[k])]
    /\ watch' = [watch EXCEPT ![k] = Tail(@)]
    /\ notified' = notified \cup {k}
    /\ unseen' = [unseen EXCEPT ![k] = TRUE]
    /\ UNCHANGED <<apiVars, queueVars, workerVars, receiverVars, gitlabVars,
                   accountVars, environmentVars, edits, faults>>

\* The handlers that NewController registers enqueue the key.
Notify(k) ==
    /\ k \in notified
    /\ notified' = notified \ {k}
    /\ Add(k)
    /\ UNCHANGED <<apiVars, watch, cache, unseen, workerVars, receiverVars, gitlabVars,
                   accountVars, environmentVars, edits, faults>>

\* Every resync period the handlers are told of the whole cache again, which may
\* be at any time.  That also stands for a second notification of the same key
\* behind a first one: notified does not count them.
Resync(k) ==
    /\ cache[k] # NoSource
    /\ k \notin notified
    /\ notified' = notified \cup {k}
    /\ UNCHANGED <<apiVars, watch, cache, unseen, queueVars, workerVars, receiverVars,
                   gitlabVars, accountVars, environmentVars, edits, faults>>

\* The watch broke and the reflector lists again: what happened meanwhile
\* reaches the cache as one change of each key, and every object is replaced.
Relist ==
    LET known == {k \in Keys : cache[k] # NoSource \/ server[k] # NoSource}
    IN  /\ Fault("relist")
        /\ watch' = [k \in Keys |-> <<>>]
        /\ cache' = server
        /\ notified' = notified \cup known
        /\ unseen' = [k \in Keys |-> unseen[k] \/ k \in known]
        /\ UNCHANGED <<apiVars, queueVars, workerVars, receiverVars, gitlabVars,
                       accountVars, environmentVars, edits>>

\* The delay of a rate-limited key is over.
RetryDue(k) ==
    /\ AddReady(k)
    /\ UNCHANGED <<apiVars, informerVars, workerVars, receiverVars, gitlabVars,
                   accountVars, environmentVars, edits, faults>>

\* The process dies and another one starts: all that it knows is what it lists.
Restart ==
    /\ QueueReset
    /\ watch' = [k \in Keys |-> <<>>]
    /\ cache' = server
    /\ notified' = {k \in Keys : server[k] # NoSource}
    /\ unseen' = [k \in Keys |-> server[k] # NoSource]
    /\ pc' = [w \in Workers |-> "get"]
    /\ held' = [w \in Workers |-> NoKey]
    /\ original' = Idle
    /\ source' = Idle
    /\ failed' = [w \in Workers |-> FALSE]
    /\ UNCHANGED <<apiVars, receiverVars, gitlabVars, accountVars, environmentVars, edits>>

Crash == Fault("crash") /\ Restart

\* A panic of Reconcile: no worker recovers, so it ends the process.
Panic == NoFault /\ Restart

-----------------------------------------------------------------------------
(* Reconcile, in the workers of the controller *)

\* Goes on to phase with s as the deep copy.
Continue(w, s, phase) ==
    /\ source' = [source EXCEPT ![w] = s]
    /\ pc' = [pc EXCEPT ![w] = phase]
    /\ UNCHANGED <<held, original, failed>>

\* The update that Reconcile attempts once the status is settled.
AfterStatus(w, s) ==
    IF s.finalizers # original[w].finalizers THEN "finalizers" ELSE "finish"

\* reconcile or finalize returns s and an error or nil to Reconcile, which then
\* looks for what differs from its snapshot.
Return(w, s, err) ==
    /\ source' = [source EXCEPT ![w] = s]
    /\ pc' = [pc EXCEPT ![w] =
                IF s.status # original[w].status THEN "status" ELSE AfterStatus(w, s)]
    /\ failed' = [failed EXCEPT ![w] = err]
    /\ UNCHANGED <<held, original>>

\* Reconcile itself returns an error.
Abort(w) ==
    /\ pc' = [pc EXCEPT ![w] = "finish"]
    /\ failed' = [failed EXCEPT ![w] = TRUE]
    /\ UNCHANGED <<held, original, source>>

WithConditions(s, conds) == [s EXCEPT !.status.conds = conds]
WithSink(s, uri, conds) == [s EXCEPT !.status.conds = conds, !.status.sinkURI = uri]
WithHook(s, id) == [s EXCEPT !.status.hookID = id]

Owner(w) == <<held[w], source[w].uid>>

Take(w) ==
    /\ pc[w] = "get"
    /\ \E k \in Keys :
        /\ Get(k)
        /\ held' = [held EXCEPT ![w] = k]
    /\ pc' = [pc EXCEPT ![w] = "lookup"]
    /\ UNCHANGED <<apiVars, informerVars, original, source, failed, receiverVars,
                   gitlabVars, accountVars, environmentVars, edits, faults>>

\* Reads the cache and copies the object.
Lookup(w) ==
    LET object == cache[held[w]]
    IN  /\ pc[w] = "lookup"
        /\ unseen' = [unseen EXCEPT ![held[w]] = FALSE]
        /\ original' = [original EXCEPT ![w] = object]
        /\ source' = [source EXCEPT ![w] = object]
        /\ pc' = [pc EXCEPT ![w] = IF object = NoSource THEN "finish"
                                  ELSE IF object.deleting THEN "finalize"
                                  ELSE "secrets"]
        /\ UNCHANGED <<apiVars, watch, cache, notified, queueVars, held, failed,
                       receiverVars, gitlabVars, accountVars, environmentVars, edits, faults>>

\* What a step of a worker leaves alone until it writes to the API server.
requestFrame == <<apiVars, informerVars, queueVars, accountVars, environmentVars, edits>>

\* Mutant: a missing secret is not recorded in the conditions.
ReadSecretsSilently(w) ==
    LET conds == Conds!InitializeConditions(source[w].status.conds)
    IN  /\ pc[w] = "secrets"
        /\ \/ /\ secrets
              /\ Continue(w, WithConditions(source[w],
                                Conds!MarkTrue(conds, "SecretsProvided")), "sink")
           \/ ~secrets /\ Return(w, WithConditions(source[w], conds), TRUE)
        /\ NoFault
        /\ UNCHANGED <<requestFrame, receiverVars, gitlabVars>>

\* Whether the secret is found, as it is not if the request fails.
secretFrom(found) ==
    \/ NoFault /\ found = secrets
    \/ Fault("read") /\ ~found

\* reconcile: conditions are initialized and both secrets read.
ReadSecrets(w) ==
    LET s == source[w]
        conds == Conds!InitializeConditions(s.status.conds)
        found == WithConditions(s, Conds!MarkTrue(conds, "SecretsProvided"))
        missing == WithConditions(s, Conds!MarkFalse(conds, "SecretsProvided"))
    IN  /\ pc[w] = "secrets"
        /\ \/ secretFrom(TRUE) /\ Continue(w, found, "sink")
           \/ secretFrom(FALSE) /\ Return(w, missing, TRUE)
        /\ UNCHANGED <<requestFrame, receiverVars, gitlabVars>>

\* Mutant: MarkSink takes any URI for a provided sink.
ResolveSinkUnchecked(w) ==
    LET conds == Conds!MarkTrue(source[w].status.conds, "SinkProvided")
        uri == IF source[w].sink = "ref" THEN address
               ELSE IF source[w].sink = "uri" THEN "uri" ELSE NoURI
    IN  /\ pc[w] = "sink"
        /\ NoFault
        /\ Continue(w, WithSink(source[w], uri, conds), "receiver")
        /\ UNCHANGED <<requestFrame, receiverVars, gitlabVars>>

\* Whether the sink object is found and has an address.
getSinkURI(found) ==
    \/ NoFault /\ found = (address # NoURI)
    \/ Fault("read") /\ ~found

\* A sink reference is resolved through its object; a URI is taken as it is;
\* without either, the failure is recorded and reconcile goes on.
ResolveSink(w) ==
    LET s == source[w]
        resolved(uri) == WithSink(s, uri, Conds!MarkTrue(s.status.conds, "SinkProvided"))
        empty == WithSink(s, NoURI, Conds!MarkUnknown(s.status.conds, "SinkProvided"))
        none == WithConditions(s, Conds!MarkFalse(s.status.conds, "SinkProvided"))
    IN  /\ pc[w] = "sink"
        /\ \/ /\ s.sink = "ref"
              /\ \/ getSinkURI(TRUE) /\ Continue(w, resolved(address), "receiver")
                 \/ getSinkURI(FALSE) /\ Return(w, none, TRUE)
           \/ s.sink = "uri" /\ NoFault /\ Continue(w, resolved("uri"), "receiver")
           \/ s.sink = "empty" /\ NoFault /\ Continue(w, empty, "receiver")
           \/ s.sink = "none" /\ NoFault /\ Continue(w, none, "receiver")
        /\ UNCHANGED <<requestFrame, receiverVars, gitlabVars>>

\* The deployments that the source controls, by its UID.
getOwnedReceiver(w) == {d \in deployments : d.owner = Owner(w)}

addFinalizer(s) == [s EXCEPT !.finalizers = @ \cup {finalizerName}]
removeFinalizer(s) == [s EXCEPT !.finalizers = @ \ {finalizerName}]

\* Mutant: the finalizer is not added.
FindReceiverUnprotected(w) ==
    /\ pc[w] = "receiver"
    /\ NoFault
    /\ Continue(w, source[w], IF getOwnedReceiver(w) # {} THEN "webhook" ELSE "deployment")
    /\ UNCHANGED <<requestFrame, receiverVars, gitlabVars>>

\* Only an existing receiver leads on to the finalizer and the webhook.
FindReceiver(w) ==
    LET s == source[w]
        owned == getOwnedReceiver(w) # {}
    IN  /\ pc[w] = "receiver"
        /\ \/ owned /\ NoFault /\ Continue(w, addFinalizer(s), "webhook")
           \/ ~owned /\ NoFault /\ Continue(w, s, "deployment")
           \/ Fault("read") /\ Return(w, s, TRUE)
        /\ UNCHANGED <<requestFrame, receiverVars, gitlabVars>>

\* The n-th deployment of its owner, with the sink of the moment as argument.
NewDeployment(w) ==
    [owner |-> Owner(w), sink |-> source[w].status.sinkURI,
     n |-> 1 + Cardinality(getOwnedReceiver(w))]

CreateDeployment(w) ==
    LET s == source[w]
        createdOne == deployments' = deployments \cup {NewDeployment(w)}
    IN  /\ pc[w] = "deployment"
        /\ \/ NoFault /\ createdOne /\ Continue(w, s, "service")
           \/ Fault("create") /\ UNCHANGED deployments /\ Return(w, s, TRUE)
           \/ Fault("createLost") /\ createdOne /\ Return(w, s, TRUE)
        /\ UNCHANGED <<requestFrame, services, gitlabVars>>

NewService(w) == [owner |-> Owner(w), ingress |-> FALSE]

\* An error of Create is assigned and never looked at.
CreateService(w) ==
    LET s == source[w]
    IN  /\ pc[w] = "service"
        /\ \/ NoFault /\ services' = services \cup {NewService(w)}
           \/ Fault("service") /\ UNCHANGED services
        /\ Return(w, s, FALSE)
        /\ UNCHANGED <<requestFrame, deployments, gitlabVars>>

\* Mutant: every service of the namespace is taken.
CandidatesOfAll(w) == services

\* The services of the namespace whose name begins with the source's name.  The
\* code takes the last of them by name, which has a random suffix.
Candidates(w) == {v \in services : <<held[w], v.owner[1]>> \in NamePrefixes}

ListServicesFails(w) ==
    /\ pc[w] = "webhook"
    /\ Fault("read")
    /\ Return(w, source[w], TRUE)
    /\ UNCHANGED <<requestFrame, receiverVars, gitlabVars>>

\* Ingress[0] of a service that has none, or of the zero Service.
PanicWithoutIngress(w) ==
    /\ pc[w] = "webhook"
    /\ Candidates(w) # {} => \E v \in Candidates(w) : ~v.ingress
    /\ Panic

KeepWebhook(w) ==
    /\ pc[w] = "webhook"
    /\ \E v \in Candidates(w) : v.ingress
    /\ source[w].status.hookID # NoHook
    /\ NoFault
    /\ Return(w, source[w], FALSE)
    /\ UNCHANGED <<requestFrame, receiverVars, gitlabVars>>

\* Path[1:] of a project URL without a path.
PanicOnPathlessProject(w) ==
    /\ \/ /\ pc[w] = "webhook"
          /\ \E v \in Candidates(w) : v.ingress
          /\ source[w].status.hookID = NoHook
       \/ pc[w] = "deleteWebhook"
    /\ source[w].project \in Pathless
    /\ Panic

\* The client adds a hook to the project that points at the service v.
AddProjectHook(w, v) ==
    /\ hookCount' = hookCount + 1
    /\ issuers' = Append(issuers, Instance[source[w].project])
    /\ hooks' = hooks \cup {[id |-> hookCount + 1, project |-> source[w].project,
                            owner |-> Owner(w), target |-> v.owner]}

\* Mutant: a hook that the project already has is taken for the source's.
CreateWebhookUnlessAny(w) ==
    LET s == source[w]
        others == {h \in hooks : h.project = s.project}
    IN  /\ pc[w] = "webhook"
        /\ s.status.hookID = NoHook
        /\ s.project \notin Pathless
        /\ NoFault
        /\ \/ /\ others = {}
              /\ \E v \in Candidates(w) :
                    v.ingress /\ AddProjectHook(w, v)
              /\ Return(w, WithHook(s, hookCount + 1), FALSE)
           \/ /\ UNCHANGED gitlabVars
              /\ \E h \in others : Return(w, WithHook(s, h.id), FALSE)
        /\ UNCHANGED <<requestFrame, receiverVars>>

\* Listing the services and the request to GitLab are one step: nothing that
\* happens in the cluster between them changes what is sent.
CreateWebhook(w) ==
    LET s == source[w]
    IN  /\ pc[w] = "webhook"
        /\ s.status.hookID = NoHook
        /\ s.project \notin Pathless
        /\ \E v \in Candidates(w) :
            /\ v.ingress
            /\ \/ NoFault /\ AddProjectHook(w, v) /\ Return(w, WithHook(s, hookCount + 1), FALSE)
               \/ Fault("gitlab") /\ UNCHANGED gitlabVars /\ Return(w, s, TRUE)
               \/ Fault("gitlabLost") /\ AddProjectHook(w, v) /\ Return(w, s, TRUE)
        /\ UNCHANGED <<requestFrame, receiverVars>>

\* Mutant: whether there is a hook is not asked before the access token is read.
FinalizeUnasked(w) ==
    LET s == removeFinalizer(source[w])
        missing == WithConditions(s, Conds!MarkFalse(s.status.conds, "SecretsProvided"))
    IN  /\ pc[w] = "finalize"
        /\ \/ /\ secretFrom(TRUE)
              /\ UNCHANGED warned
              /\ IF s.status.hookID = NoHook
                 THEN Return(w, s, FALSE)
                 ELSE Continue(w, s, "deleteWebhook")
           \/ /\ secretFrom(FALSE)
              /\ warned' = warned \cup {s.status.hookID}
              /\ Return(w, missing, TRUE)
        /\ UNCHANGED <<apiVars, informerVars, queueVars, protected, environmentVars,
                       edits, receiverVars, gitlabVars>>

\* finalize: the finalizer goes whatever happens next.  Without the access
\* token the failure is recorded in an event.
Finalize(w) ==
    LET s == removeFinalizer(source[w])
        missing == WithConditions(s, Conds!MarkFalse(s.status.conds, "SecretsProvided"))
        giveUp == /\ warned' = warned \cup {s.status.hookID}
                  /\ Return(w, missing, TRUE)
    IN  /\ pc[w] = "finalize"
        /\ \/ /\ s.status.hookID = NoHook
              /\ NoFault
              /\ UNCHANGED warned
              /\ Return(w, s, FALSE)
           \/ /\ s.status.hookID # NoHook
              /\ \/ secretFrom(TRUE) /\ UNCHANGED warned /\ Continue(w, s, "deleteWebhook")
                 \/ secretFrom(FALSE) /\ giveUp
        /\ UNCHANGED <<apiVars, informerVars, queueVars, protected, environmentVars,
                       edits, receiverVars, gitlabVars>>

\* ListProjectHooks returns one page of the hooks of the project.
Pages(project) ==
    LET all == {h \in hooks : h.project = project}
    IN  {page \in SUBSET all :
            Cardinality(page) = IF Cardinality(all) <= PageSize
                                THEN Cardinality(all) ELSE PageSize}

\* Mutant: GitLab's refusal is taken for a success.
DeleteWebhookSilently(w) ==
    LET s == source[w]
    IN  /\ pc[w] = "deleteWebhook"
        /\ s.project \notin Pathless
        /\ \/ /\ NoFault
              /\ hooks' = {h \in hooks : h.id # s.status.hookID}
              /\ Return(w, WithHook(s, NoHook), FALSE)
           \/ Fault("gitlab") /\ UNCHANGED hooks /\ Return(w, WithHook(s, NoHook), FALSE)
        /\ UNCHANGED <<requestFrame, receiverVars, hookCount, issuers>>

\* Mutant: every hook of the project is deleted.
DeleteProjectWebhooks(w) ==
    LET s == source[w]
    IN  /\ pc[w] = "deleteWebhook"
        /\ NoFault
        /\ hooks' = {h \in hooks : h.project # s.project}
        /\ Return(w, WithHook(s, NoHook), FALSE)
        /\ UNCHANGED <<requestFrame, receiverVars, hookCount, issuers>>

\* The client deletes the hook that has the ID, if there is one on the page.
DeleteProjectHook(id, page) ==
    hooks' = hooks \ {h \in page : HookNumber(h.id) = HookNumber(id)}

\* That the hook is not on the page is no error.
DeleteWebhook(w) ==
    LET s == source[w]
        giveUp == /\ warned' = warned \cup {s.status.hookID}
                  /\ Return(w, s, TRUE)
        delete(page) == DeleteProjectHook(s.status.hookID, page)
    IN  /\ pc[w] = "deleteWebhook"
        /\ s.project \notin Pathless
        /\ \E page \in Pages(s.project) :
            \/ /\ NoFault
               /\ delete(page)
               /\ UNCHANGED warned
               /\ Return(w, WithHook(s, NoHook), FALSE)
            \/ Fault("gitlab") /\ UNCHANGED hooks /\ giveUp
            \/ Fault("gitlabLost") /\ delete(page) /\ giveUp
        /\ UNCHANGED <<apiVars, informerVars, queueVars, protected, environmentVars,
                       edits, receiverVars, hookCount, issuers>>

\* Mutant: a copy of the cache's object is changed and sent.
WriteThroughCopy(w, sent, stored, allowed, phase) ==
    LET k == held[w]
        accepted == cache[k] # NoSource /\ Current(k, sent) /\ allowed
    IN  /\ NoFault
        /\ IF accepted
           THEN /\ StoreIfChanged(k, stored)
                /\ pc' = [pc EXCEPT ![w] = phase]
                /\ UNCHANGED <<held, original, source, failed>>
           ELSE Abort(w) /\ UNCHANGED <<server, revision, watch, protected>>
        /\ UNCHANGED <<created, cache, notified, unseen, queueVars, receiverVars,
                       gitlabVars, warned, environmentVars, edits>>

\* updateStatus and update alike: the object found in the cache by name is given
\* the changed field, in place, and sent.  The server makes stored of it if the
\* object is current and allowed.
WriteThroughCache(w, sent, stored, allowed, phase) ==
    LET k == held[w]
        proceed == /\ pc' = [pc EXCEPT ![w] = phase]
                   /\ UNCHANGED <<held, original, source, failed>>
        nothing == UNCHANGED <<server, revision, watch, protected>>
        accepted == Current(k, sent) /\ allowed
    IN  /\ \/ /\ cache[k] = NoSource
              /\ NoFault /\ nothing /\ Abort(w) /\ UNCHANGED cache
           \/ /\ cache[k] # NoSource
              /\ cache[k] = sent
              /\ NoFault /\ nothing /\ proceed /\ UNCHANGED cache
           \/ /\ cache[k] # NoSource
              /\ cache[k] # sent
              /\ cache' = [cache EXCEPT ![k] = sent]
              /\ \/ accepted /\ NoFault /\ StoreIfChanged(k, stored) /\ proceed
                 \/ accepted /\ Fault("writeLost") /\ StoreIfChanged(k, stored) /\ Abort(w)
                 \/ ~accepted /\ NoFault /\ nothing /\ Abort(w)
                 \/ Fault("write") /\ nothing /\ Abort(w)
        /\ UNCHANGED <<created, notified, unseen, queueVars, receiverVars, gitlabVars,
                       warned, environmentVars, edits>>

\* Mutant: the spec of Reconcile's copy is sent along, in a plain update.
UpdateStatusAndSpec(w) ==
    LET k == held[w]
        s == source[w]
        sent == [cache[k] EXCEPT !.status = s.status, !.project = s.project, !.sink = s.sink]
    IN  /\ pc[w] = "status"
        /\ WriteThroughCache(w, sent, sent, TRUE, AfterStatus(w, s))

\* What a PUT to the status subresource makes of the object.
PutStatus(k, sent) == [server[k] EXCEPT !.status = sent.status]

UpdateStatus(w) ==
    LET k == held[w]
        sent == [cache[k] EXCEPT !.status = source[w].status]
    IN  /\ pc[w] = "status"
        /\ WriteThroughCache(w, sent, PutStatus(k, sent), TRUE, AfterStatus(w, source[w]))

\* What a PUT to the resource makes of it.
Put(k, sent) ==
    [sent EXCEPT !.status = server[k].status, !.deleting = server[k].deleting]

UpdateFinalizers(w) ==
    LET k == held[w]
        finalizers == source[w].finalizers
        sent == [cache[k] EXCEPT !.finalizers = finalizers]
    IN  /\ pc[w] = "finalizers"
        /\ WriteThroughCache(w, sent, Put(k, sent), FinalizersAllowed(k, finalizers),
                             "finish")

\* processNextWorkItem settles the key and is Done with it.
Finish(w) ==
    LET k == held[w]
    IN  /\ pc[w] = "finish"
        /\ IF failed[w] THEN AddAfterEffect(k) ELSE UNCHANGED waiting
        /\ DoneEffect(k)
        /\ pc' = [pc EXCEPT ![w] = "get"]
        /\ held' = [held EXCEPT ![w] = NoKey]
        /\ original' = [original EXCEPT ![w] = NoSource]
        /\ source' = [source EXCEPT ![w] = NoSource]
        /\ failed' = [failed EXCEPT ![w] = FALSE]
        /\ UNCHANGED <<apiVars, informerVars, receiverVars, gitlabVars, accountVars,
                       environmentVars, edits, faults>>

ReconcileStep(w) ==
    \/ Lookup(w)
    \/ ReadSecrets(w)
    \/ ResolveSink(w)
    \/ FindReceiver(w)
    \/ CreateDeployment(w)
    \/ CreateService(w)
    \/ ListServicesFails(w)
    \/ PanicWithoutIngress(w)
    \/ KeepWebhook(w)
    \/ PanicOnPathlessProject(w)
    \/ CreateWebhook(w)
    \/ Finalize(w)
    \/ DeleteWebhook(w)
    \/ UpdateStatus(w)
    \/ UpdateFinalizers(w)
    \/ Finish(w)

-----------------------------------------------------------------------------
(* Users, other controllers, the cluster *)

clusterFrame == <<cache, notified, unseen, queueVars, workerVars, gitlabVars, warned, faults>>

CreateSource(k) ==
    /\ server[k] = NoSource
    /\ created[k] < MaxUid
    /\ created' = [created EXCEPT ![k] = @ + 1]
    /\ \E project \in Projects, sink \in Sinks :
        Store(k, [uid |-> created[k] + 1, rv |-> 0, deleting |-> FALSE, finalizers |-> {},
                  project |-> project, sink |-> sink,
                  status |-> [hookID |-> NoHook, conds |-> Conds!NoConditions, sinkURI |-> NoURI]])
    /\ UNCHANGED <<clusterFrame, receiverVars, environmentVars, edits>>

DeleteSource(k) ==
    /\ server[k] # NoSource
    /\ ~server[k].deleting
    /\ Store(k, [server[k] EXCEPT !.deleting = TRUE])
    /\ UNCHANGED <<created, clusterFrame, receiverVars, environmentVars, edits>>

Edit(kind) ==
    /\ kind \in EditKinds
    /\ edits < MaxEdits
    /\ edits' = edits + 1

\* Another writer changes the object of k.  "touch" stands for every field that
\* the controller does not read.
EditSource(k) ==
    /\ server[k] # NoSource
    /\ \/ /\ Edit("touch")
          /\ Store(k, server[k])
       \/ /\ Edit("project")
          /\ \E project \in Projects \ {server[k].project} :
                Store(k, [server[k] EXCEPT !.project = project])
       \/ /\ Edit("sink")
          /\ \E sink \in Sinks \ {server[k].sink} : Store(k, [server[k] EXCEPT !.sink = sink])
       \/ /\ Edit("foreign")
          /\ Foreign \notin server[k].finalizers
          /\ ~server[k].deleting
          /\ Store(k, [server[k] EXCEPT !.finalizers = @ \cup {Foreign}])
    /\ UNCHANGED <<created, clusterFrame, receiverVars, environmentVars>>

\* The other controller is done with its own finalizer.
RemoveForeign(k) ==
    /\ server[k] # NoSource
    /\ Foreign \in server[k].finalizers
    /\ Store(k, [server[k] EXCEPT !.finalizers = @ \ {Foreign}])
    /\ UNCHANGED <<created, clusterFrame, receiverVars, environmentVars, edits>>

EditEnvironment ==
    /\ \/ Edit("secrets") /\ secrets' = ~secrets /\ UNCHANGED address
       \/ /\ Edit("address")
          /\ address' \in (Addresses \cup {NoURI}) \ {address}
          /\ UNCHANGED secrets
    /\ UNCHANGED <<apiVars, watch, clusterFrame, receiverVars, protected>>

\* A load balancer is provisioned for a service.
ProvisionIngress(v) ==
    /\ v \in services
    /\ ~v.ingress
    /\ services' = (services \ {v}) \cup {[v EXCEPT !.ingress = TRUE]}
    /\ UNCHANGED <<apiVars, watch, clusterFrame, deployments, environmentVars, protected, edits>>

Alive(owner) == server[owner[1]] # NoSource /\ server[owner[1]].uid = owner[2]

\* What a source that is gone has owned is collected.
CollectGarbage(owner) ==
    /\ ~Alive(owner)
    /\ \E o \in deployments \cup services : o.owner = owner
    /\ deployments' = {d \in deployments : d.owner # owner}
    /\ services' = {v \in services : v.owner # owner}
    /\ UNCHANGED <<apiVars, watch, clusterFrame, environmentVars, protected, edits>>

-----------------------------------------------------------------------------

InformerStep(k) == Deliver(k) \/ Notify(k) \/ RetryDue(k)

Next ==
    \/ \E k \in Keys :
        \/ InformerStep(k)
        \/ Resync(k)
        \/ CreateSource(k)
        \/ DeleteSource(k)
        \/ EditSource(k)
        \/ RemoveForeign(k)
    \/ \E w \in Workers : Take(w) \/ ReconcileStep(w)
    \/ Relist
    \/ Crash
    \/ EditEnvironment
    \/ \E v \in services : ProvisionIngress(v)
    \/ \E owner \in Owners : CollectGarbage(owner)

Spec == Init /\ [][Next]_vars

\* Goroutines run, requests are answered and the watch brings what happened;
\* the cluster is expected to provision load balancers.  Users owe nothing.
Fairness ==
    /\ \A k \in Keys : WF_vars(Deliver(k)) /\ WF_vars(Notify(k)) /\ WF_vars(RetryDue(k))
    /\ \A w \in Workers : WF_vars(Take(w) \/ ReconcileStep(w))
    /\ WF_vars(\E v \in services : ProvisionIngress(v))

FairSpec == Spec /\ Fairness

\* The informer also resyncs again and again (every ten hours by default).
ResyncSpec == FairSpec /\ \A k \in Keys : WF_vars(Resync(k))

-----------------------------------------------------------------------------
(* Properties *)

Lives(k) == IF server[k] = NoSource THEN FALSE ELSE ~server[k].deleting
Dying(k) == IF server[k] = NoSource THEN FALSE ELSE server[k].deleting
HasFinalizer(k) == IF server[k] = NoSource THEN FALSE ELSE finalizerName \in server[k].finalizers
RecordsHook(k) == IF server[k] = NoSource THEN FALSE ELSE server[k].status.hookID # NoHook
IsReady(k) == IF server[k] = NoSource THEN FALSE ELSE Conds!IsHappy(server[k].status.conds)

\* The versions of a source that are in use: those on the watch and in the hands of
\* workers, with the server's and the cache's.
Active(w) == pc[w] \notin {"get", "lookup", "finish"}
Brought(k) == {watch[k][i] : i \in 1..Len(watch[k])} \ {NoSource}
Snapshots(k) == {source[w] : w \in {v \in Workers : held[v] = k /\ Active(v)}}
Copies(k) == ({server[k], cache[k]} \ {NoSource}) \cup Brought(k) \cup Snapshots(k)

\* No two workers reconcile the same source, though it is enqueued by the
\* informer, by resyncs and by retries alike.
SingleFlight ==
    \A v, w \in Workers : held[v] = held[w] /\ held[v] # NoKey => v = w

\* No change of the cache is forgotten: until Reconcile has read it, there is a
\* notification, a queued key or a worker about to read it.
NothingUnobserved ==
    \A k \in Keys : unseen[k] =>
        \/ k \in notified \cup dirty
        \/ \E w \in Workers : held[w] = k /\ pc[w] = "lookup"

\* reconcile lists deployments and then creates one; it never creates a second
\* for a source that has one, whatever is retried, repeated or restarted.
AtMostOneReceiver ==
    \A d, e \in deployments : d.owner = e.owner => d = e

\* Once the API server has the ID of a source's webhook, reconcile creates no
\* other for it, however late the watch tells the cache of its own write.
NoSecondHookOnceRecorded ==
    [][\A h \in hooks' \ hooks :
        Alive(h.owner) => server[h.owner[1]].status.hookID = NoHook]_vars

\* A webhook whose ID was stored together with the finalizer is not lost sight
\* of: it is deleted, or an object records it, or an event named it.
ProtectedHooksAccounted ==
    \A h \in hooks : h.id \in protected =>
        \/ h.id \in warned
        \/ \E k \in Keys : server[k] # NoSource /\ server[k].status.hookID = h.id

\* The project URL of the source at hand leads to another GitLab than the one that
\* has its hook.
Moved(w) == issuers[source[w].status.hookID] # Instance[source[w].project]

\* No webhook is deleted in GitLab while its source exists and is not being
\* deleted, even if another source of the same project goes.  (Unless that one has
\* moved: in the other GitLab its ID may be the living source's.)
OnlyDyingSourcesLoseHooks ==
    [][\A h \in hooks \ hooks' :
        \/ Alive(h.owner) => server[h.owner[1]].deleting
        \/ \E w \in Workers : pc[w] = "deleteWebhook" /\ Moved(w)]_vars

\* No other source has a name that begins with that of k.
Unambiguous(k) == \A l \in Keys : <<k, l>> \in NamePrefixes => l = k

\* createWebhook finds the service by a prefix of its name.  For a source whose name
\* begins no other, the hook calls a receive adapter of its own, in use and
\* reachable; a hook may miss it only for that of a source with a longer name.
HookReachesReceiver ==
    \A k \in Keys, h \in hooks :
        Lives(k) /\ h.id = server[k].status.hookID =>
            /\ <<k, h.target[1]>> \in NamePrefixes
            /\ Unambiguous(k) =>
                /\ h.target = <<k, server[k].uid>>
                /\ \E v \in services : v.owner = h.target /\ v.ingress
                /\ \E d \in deployments : d.owner = h.target

\* A name is used again only once nobody has a version of the source that had it
\* and its services are collected.
NameRests(k) == Copies(k) = {} /\ \A v \in services : v.owner[1] # k
ReusedAtRest == \A k \in Keys : created'[k] # created[k] => NameRests(k)
NamesRest == [][ReusedAtRest]_vars

\* What the API server has of the source's hook; sources have uids from 1 on.
HookRecord(k) ==
    IF server[k] = NoSource
    THEN [uid |-> 0, deleting |-> FALSE, guarded |-> FALSE, hook |-> NoHook]
    ELSE [uid |-> server[k].uid, deleting |-> server[k].deleting,
          guarded |-> finalizerName \in server[k].finalizers,
          hook |-> server[k].status.hookID]

Lifecycle == INSTANCE HookLifecycle WITH
    record <- [k \in Keys |-> HookRecord(k)], named <- warned

\* From registration to deletion or an event, hooks live as HookLifecycle says, though
\* workers, cache and watch are between GitLab and the API server.
ImplementsHookLifecycle == Lifecycle!Spec

\* What the controller writes is a status or finalizers: however stale its
\* snapshot, it reverts no edit of the spec and no deletion.
ControllerKeepsTheSpec ==
    [][workerVars' # workerVars =>
        \A k \in Keys : server[k] # NoSource /\ server'[k] # NoSource =>
            /\ server'[k].project = server[k].project
            /\ server'[k].sink = server[k].sink
            /\ server'[k].deleting = server[k].deleting]_vars

\* A stored status that names the sink as provided has an address for it, even
\* if the sink was edited away after it had been resolved.
ReadyHasASink ==
    \A k \in Keys :
        (server[k] # NoSource /\ server[k].status.conds["SinkProvided"] = "True") =>
            server[k].status.sinkURI # NoURI

\* What the conditions stand for: the secrets are there and the sink resolves.
Servable(k) ==
    /\ secrets
    /\ IF server[k] = NoSource THEN FALSE
       ELSE \/ server[k].sink = "uri"
            \/ server[k].sink = "ref" /\ address # NoURI

\* A source that stays, with its secrets and sink, gets its webhook, recorded
\* under the finalizer.
EventuallyRegistered ==
    \A k \in Keys :
        Lives(k) ~> (Lives(k) /\ Servable(k) => RecordsHook(k) /\ HasFinalizer(k))

\* "Always remove the finalizer": a deleted source does not stay behind because
\* of this controller, whether or not its webhook could be deleted.
FinalizerAlwaysRemoved == \A k \in Keys : Dying(k) ~> ~(Dying(k) /\ HasFinalizer(k))

\* A source does not stay Ready once its secrets or its sink are gone, although
\* only the source itself is watched.  (Secrets are what the run takes away.)
LostReadinessIsNoticed ==
    \A k \in Keys :
        (Lives(k) /\ ~Servable(k)) ~>
        (Lives(k) /\ IsReady(k) => Servable(k))

-----------------------------------------------------------------------------
(* What comments and documents say of the program and the code does not do *)

\* "Webhook deleted, clear ID".
ClearedIDMeansDeleted ==
    [][\A w \in Workers :
        pc[w] = "deleteWebhook" /\ source'[w] # NoSource /\ source'[w].status.hookID = NoHook
        => \A h \in hooks' : h.id # source[w].status.hookID]_vars

\* Nothing is on its way to Reconcile or inside it.
Settled(k) ==
    /\ watch[k] = <<>>
    /\ k \notin notified \cup dirty \cup processing \cup waiting

\* "WebhookIDKey is the ID of the webhook registered with GitLab", also of a
\* source that was deleted and created again: the hook that its status names was
\* registered for it, not for its predecessor.
RecordedHookIsOwn ==
    \A k \in Keys, h \in hooks :
        Lives(k) /\ server[k].status.hookID = h.id => h.owner = <<k, server[k].uid>>

\* "SinkURI is the current active sink URI that has been configured": once the
\* reconciliations that follow an edit are over, the receive adapter sends there.
SinkURIIsActive ==
    \A k \in Keys, d \in deployments :
        Settled(k) /\ Lives(k) /\ d.owner = <<k, server[k].uid>> =>
            d.sink = server[k].status.sinkURI
=============================================================================

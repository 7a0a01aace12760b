# gitlabsource in TLA+

`gitlabsource` is a Kubernetes controller. A user creates a `GitLabSource`; the
controller starts a *receive adapter* (a deployment with a public service),
registers a webhook of the GitLab project that points at it, and the adapter
forwards GitLab's events to a sink. This directory holds models of the
controller, of its process and of the receive adapter, the TLC runs that check
them and proofs of their central invariants.

## The system

| Component | State | Operations | Interacts with |
|---|---|---|---|
| Reconciler (`pkg/reconciler/gitlabsource.go`) | none of its own; a snapshot and a deep copy of one object per call | `Reconcile`, `reconcile`, `finalize`, `updateStatus`, `update` | lister (shared pointers), API server, GitLab |
| Webhook client (`webhook_client.go`) | hooks in GitLab | `Create`, `Delete` | GitLab |
| Work queue (`client-go/util/workqueue`) | queue, dirty, processing, waiting, the rate limiter's failures, the condition variable | `Add`, `Get`, `Done`, `AddRateLimited`, `Forget`, `ShutDown` | handlers, workers, the waiting loop |
| Controller (`knative.dev/pkg/controller`) | worker goroutines | `Enqueue`, `Run`, `processNextWorkItem`, `handleErr` | queue, reconciler |
| Informer (`client-go/tools/cache`) | cache, pending notifications | watch, list, resync | API server, `Enqueue` |
| Condition manager (`knative.dev/pkg/apis/duck/v1alpha1`) | conditions of a status | `InitializeConditions`, `MarkTrue`, `MarkUnknown`, `MarkFalse` | reconciler |
| Controller process (`cmd/controller`, `sharedmain`, `knative.dev/pkg/injection`, `pkg/client`) | clients, the factory's map of informers, the lister | `SetupInformers`, `NewController`, `StartInformers`, `StartAll` | all of the above |
| Receive adapter (`cmd/receive_adapter`, `pkg/adapter`) | the secret it has read at its start | HTTP handler, `HandleEvent` | GitLab, sink |
| Webhook parsing library (`webhooks.v5/gitlab`) | none | `Parse` | adapter |
| Admission webhook (`cmd/webhook`) | none | `Validate` (returns nil), `SetDefaults` (does nothing) | API server |

What is hard here: the reconciler works on a cache that lags the server, even
behind its own writes; it modifies objects of that cache in place; it creates
things in three places (cluster, GitLab, its own status) with a failure or a
crash possible between any two of them; only the sources are watched; a panic in
`Reconcile` ends the process; and keys are enqueued before there are workers. The
adapter goes on after most errors of `Parse`, answers 200 whether or not the sink
took the event, and is called concurrently and repeatedly for one event.
`PROJECT.json` lists these hazards at their lines.

What makes each component correct: the *queue* loses no key, queues none twice
and hands none to two workers; the *controller* retries what failed and drains
at shutdown; the *informer and queue together* show every change to `Reconcile`;
the *condition manager* keeps Ready and its dependents in agreement; the
*reconciler* creates one receive adapter and one hook per source, loses track of
no hook, reverts no edit, and makes progress; the *process* wires lister, handlers
and reflector to one informer, so that every source is found and reconciled; the
*adapter* forwards what comes from the hook and nothing else, and acknowledges
no event that it has not offered to the sink.

## Modules

| Module | Models | Builds on |
|---|---|---|
| `WorkQueue` | the delaying work queue, one action per method (each holds the mutex) | |
| `PendingWork` | abstract: every request is answered by a later reconciliation, one worker per key | |
| `ControllerImpl` | the workers of `controller.Impl` over the queue, the condition variable they wait on, the rate limiter; `Reconcile` succeeds or fails | `WorkQueue`, refines `PendingWork` |
| `ControllerProcess` | the process from `main` to its exit: injection, construction, informer, workers, panic, shutdown | `ControllerImpl` |
| `ConditionSet` | the methods of the condition manager as operators on conditions | |
| `ConditionManager` | every sequence of those calls | `ConditionSet` |
| `GitLabSourceController` | API server, informer, queue, workers, `Reconcile` cut at each request, cluster and GitLab | `WorkQueue`, `ConditionSet`, refines `HookLifecycle` |
| `HookLifecycle` | abstract: the webhooks as the API server, GitLab and the events show them, from registration to deletion or an event | |
| `MCGitLabSourceController` | the registered initial states and sets for the runs | `GitLabSourceController` |
| `ReceiveAdapter` | the hook, GitLab's requests, the adapter's handlers, the sink | |
| `WorkQueueProofs`, `ControllerProcessProofs` (with those of `ControllerImpl`), `ConditionManagerProofs`, `ReceiveAdapterProofs` | theorems | the module of the same name, and each other |
| `GitLabSourceControllerProofs`, `GitLabSourceObjectsProofs`, `GitLabSourceHooksProofs`, `GitLabSourceReceiversProofs` | theorems about the controller: its scheduling, the copies of a source, the hooks, whose hook it is and what it calls | each on the one before |

### How GitLabSourceController corresponds to the code

A worker's `pc` names the request that `Reconcile` makes next; an action is that
request with its answer and all the code up to the next request.

| `pc` | Action | Code |
|---|---|---|
| `get` | `Take` | `processNextWorkItem`, `WorkQueue.Get` |
| `lookup` | `Lookup` | lister `Get`, `DeepCopy`, deletion timestamp |
| `secrets` | `ReadSecrets` | `InitializeConditions`, both `secretFrom` |
| `sink` | `ResolveSink` | `getSinkURI`, `MarkSink`, `MarkNoSink` |
| `receiver` | `FindReceiver` | `getOwnedReceiver`, `addFinalizer` |
| `deployment` | `CreateDeployment` | `MakeReceiveAdapter`, `Deployments.Create` |
| `service` | `CreateService` | `MakePublicService`, `Services.Create` with its ignored error |
| `webhook` | `CreateWebhook`, `KeepWebhook`, `ListServicesFails`, `PanicWithoutIngress`, `PanicOnPathlessProject` | the service list, `Ingress[0]`, `createWebhook` |
| `finalize` | `Finalize` | `removeFinalizer`, `secretFrom` |
| `deleteWebhook` | `DeleteWebhook`, `PanicOnPathlessProject` | `deleteWebhook`, event `FailedFinalize` |
| `status` | `UpdateStatus` | `updateStatus` |
| `finalizers` | `UpdateFinalizers` | `update` |
| `finish` | `Finish` | `handleErr` or `Forget`, then `Done` |

`original` is what `Reconcile` compares with, `source` its deep copy. The object
that `updateStatus` and `update` look up again is the cache's, and they assign to
it before they send it: `WriteThroughCache` therefore changes `cache` whether or
not the request succeeds. The API server (`Store`, `Current`,
`FinalizersAllowed`) gives each write a new resource version, refuses a stale
one, ignores spec and finalizers in a status update and the status in a plain
update (`config/300-gitlabsource.yaml` declares the subresource), and removes an
object that is being deleted once it has no finalizers. `Restart` is a crash or
a panic: the queue and the snapshots are lost and the cache is listed afresh.

`unseen` and `protected` are ghost variables: the cache changed and no
`Reconcile` has read it; IDs that were stored together with the finalizer.

### How ControllerProcess corresponds to the code

`stage` is the place of `MainWithConfig` in which the main goroutine is:
`SetupInformers` in its three loops (`withClient`, `withInformerFactory`,
`withInformer`), the constructor, the start of the configuration watcher and of
the informer, the wait for its first list, `Run`. `factory`, `registered`,
`lister` and `handled` say which informer each part holds; the code asks
`InformerFor` for one in three packages and is right only because the factory
keeps it. Without `GL_RA_IMAGE` `NewController` returns nil, and `StartAll` panics
on that. `HandleDeltas` stores before it distributes, and `Notify` delivers later:
keys are enqueued from then on, whether or not there are workers. A panic of
`Reconcile` (`Ingress[0]`, `Path[1:]`) meets no `recover` and ends the process with
all its keys (`Panic`).

A worker that finds the queue empty falls asleep (`Wait`, phase `wait`) until it is
signalled. `Add` and `Done` signal once when they append a key, `ShutDown` wakes
everybody; who is woken is a free choice, and a woken worker looks at the queue
again like any other.

### How ReceiveAdapter corresponds to the code

A handler runs in `net/http`'s goroutine and waits only for the sink, so it is cut
in four: the request has arrived (`parse`), `Send` was called (`send`), the sink
took the event (`sent`), `Send` has returned. `NotFound` is the one error that is
looked at; after any other, `HandleEvent` runs with a nil payload, whose type
assertion panics and breaks the connection. GitLab repeats a request that was not answered with 200, at most `MaxAttempts` times and possibly
while the first is being handled. The process has the secret of its start, the
hook that of its creation; `Rotate` changes the secret without telling either.

An event type passes through four tables: `FieldFor` is the switch of
`createWebhook`, from the names of the spec to the fields of `projectHookOptions`;
`FieldOf` is `AddProjectHookOptions` as `Create` fills it in, every option by a
pointer and so none left to GitLab's `Default`; `HeaderOf` is what GitLab sends for
each option; `validEvents` is what the adapter takes.

### Abstractions

- Objects carry what the controller reads: spec fields are the project and the
  form of the sink; `touch` edits stand for all others. Conditions have a value
  and no message, so a change of only the message writes no status.
- Notifications of one key are a set: the handlers enqueue the key and look at
  nothing else, so a second one behind a first is the same as the resync that
  may add it at any time.
- A list followed by a create in GitLab is one step where nothing in between
  could change what is sent; delays are "any time later". A retry count sets nothing
  but the delay, so `failures` says only which keys have one.
- Hooks are told apart by the order of their creation. GitLab's ID is less: the number
  of the hook in its own instance (`issuers`, `HookNumber`), and the project URL chooses
  the instance (`Instance`). `DeleteProjectHook` compares those numbers.
- The ID of a CloudEvent is left out: the adapter passes on what GitLab's header says.
- Lists are not stale: a relist or a restart sees the server's present state.
- Payloads are reduced to whether they have the URL that becomes the source; a body
  that `json.Unmarshal` rejects counts by what it has filled in.
- Random name suffixes are gone; which services share a source's name prefix is
  the constant `NamePrefixes`, and the choice of the last one by name is a free
  choice among them.

## Runs

`CHECK_DEADLOCK FALSE` in the runs of the controller: the system stops for good
once its sources are gone and no more may be created, a process may exit, and an
adapter without a secret serves nobody. In the run of the conditions deadlock is checked.

| Run | Module, cfg | What it shows |
|---|---|---|
| scheduler | `ControllerProcess` | 3 sources, 2 workers, from start-up to exit, a panic of `Reconcile` or a stop: the queue's consistency, one worker per key, no forgotten retry, no worker asleep while it is needed; what is reconciled is found, and not before the whole first list is; the refinement of `PendingWork`; with fairness every source and every dirty key is reconciled, every failure retried, and shutdown ends all workers. Three keys are the fewest where one waits behind two busy workers. |
| conditions | `ConditionManager` | 4 dependents, two more than the code has: Ready is their conjunction, failures stay visible. |
| lifecycle | `MCGitLabSourceController`, `Lifecycle` | A source is created, registered, deleted and finalized, with two faults of any kind at any points: nothing unobserved, protected hooks accounted for, one reconciliation, one receive adapter, no second hook once the ID is stored, no ID cleared of a hook that is there, and the refinement of `HookLifecycle`. One fault suffices to make the cache stale, a write conflict or a request repeat; the second meets what the first has left. Names that are used again are the theorems' matter, and of newcomer and status_of_another. |
| edits | `Edits` | One source and two edits of any kind during reconciliation: no edit is reverted, and a provided sink has an address. Two edits are needed for a sink that is edited away after one edit has started a reconciliation. |
| newcomer | `Newcomer` | A source is registered next to a settled one and to a hook that its predecessor left in the project; either may be deleted. The name of one begins that of the other, the newcomer having the shorter or the longer one; and the project may have been moved from one GitLab to another with the settled source's hook left there. The hook that a source records was registered for it, and calls its own receive adapter unless the source's name begins the other's; hooks of living sources stay. Two sources are enough to confuse one with the other, two hooks of a name to confuse those, two instances to have two hooks with one number. |
| live | `Live` | Without resyncs, a broken watch or one GitLab failure keeps no source from being registered or finalized. |
| resync | `Resync` | With resyncs, one failed read or a change of the secrets is made up for; the run changes no sink. |
| adapter | `ReceiveAdapter` | 2 handlers, one delivery with a repetition, strangers, one change of the secret, a process killed at any time, sources with each of the event types: strangers are kept out, types are those requested, each request reaches the sink at most once and is offered before it is acknowledged. Handlers share nothing but the secret, so a second event meets nothing that the repetition does not. |

`ProtectedHooksAccounted` holds as long as GitLab's page shows the hooks that are
looked for (the proofs' `HookIsListed`), and `FinalizerAlwaysRemoved` as long as no write fails; the runs
below show what happens otherwise. `RecordedHookIsOwn` holds as long as a name is used
again only at rest: nobody, not the cache, the watch or a worker, has a version of
the source that had it, and its services are collected (`NameRests`).
newcomer begins where its names have been used and uses none again.
`HookReachesReceiver` says of a source whose name begins another's only that its hook
calls a receive adapter of such a name: which of them, the random suffixes decide.
`OnlyDyingSourcesLoseHooks` excepts what is deleted on behalf of a source that was moved
to another GitLab (`Moved`); without that exception newcomer violates it.

### Where the code does not do what it says

Each run checks one property, taken from a comment or document, and TLC finds it
violated.

| Run | Property | What happens |
|---|---|---|
| finalizer_stuck | `FinalizerAlwaysRemoved` | One failed write leaves the cached object without the finalizer; no later attempt sends it again. |
| hook_beyond_first_page | `ClearedIDMeansDeleted` | A hook that is not on the first page is not deleted, yet the ID is cleared. An edit of `projectURL` has the same effect. |
| status_of_another | `RecordedHookIsOwn` | A source that was created again gets its predecessor's hook ID and never registers its own. |
| sink_stale | `SinkURIIsActive` | An existing receive adapter is never compared with the spec: after an edit of the sink it keeps sending to the old one, while the status names the new one. |

Smaller divergences that reading the code shows and no run repeats:

- A crash between the creation of the hook and the update of the status leaks a
  hook; so does an answer of GitLab that is lost. The model has both, and
  `ProtectedHooksAccounted` says which hooks are safe.
- A source whose `projectURL` was moved to another GitLab looks there for the ID that
  the first one gave, and deletes whatever hook of that project has it, a living
  source's included.
- The hook of a source `a` may call the receive adapter of a source `ab`
  (`gitlabsource.go:203`): the last service by name wins.
- `Send` has no timeout (`adapter.go:90`): while the sink keeps silent, so does the
  handler, and GitLab repeats the request.
- The error of `Services.Create` is dropped, and the service is only created
  together with the deployment: a source without one panics at every attempt.
- `update` replaces the whole list of finalizers of an object that it has just read
  again: a finalizer that another controller added since the snapshot is lost
  without a conflict.
- The informer's copy is modified despite "Don't modify the informer's copy"
  (`gitlabsource.go:106`, the cause of finalizer_stuck).
- A project URL without a path panics in `getProjectName`, before the finalizer is
  removed.
- Ready is True before there is a receive adapter or a hook, against the comment
  at `gitlab_types.go:94`.
- A source with neither sink nor URI is reconciled without an error, where
  `gitlabsource_test.go:173` expects `sink ref is nil`.
- The CRD offers `job_events` and the hook asks for them, but `validEvents`
  (`cmd/receive_adapter/main.go:38`) has the older name Build Hook: every job event
  is answered with 404. `push_events_branch_filter` is offered and ignored.
- Events whose payload has no URL are answered with 200 and dropped, and `.git` is
  removed anywhere in an SSH URL, not only at its end (`adapter.go:133`).
- Without `GL_RA_IMAGE`, `NewController` returns a nil `Impl` and `StartAll` panics.

## Fairness

`ProcessFairness` and `GitLabSourceController!Fairness` are weak fairness
of goroutines that the code starts and never blocks for good: each worker, the
waiting loop (`RetryDue`), the reflector (`Deliver`) and the listener
(`Notify`). A worker's requests are answered in the end, by an answer or by an
error; a fault never has to happen. `ProvisionIngress` is fair because README.md
asks for a working load balancer. `ResyncSpec` adds the resync that the informer
factory runs every ten hours. In `ControllerProcess` the main goroutine runs too,
through its stages; that the process is stopped or fails is never owed. Users, other
controllers and the garbage collector owe nothing. `ReceiveAdapter` has no fairness and
no liveness: nothing in the code makes `Send` return.

## Proofs

All theorems hold for every value of the constants that satisfies the named
assumptions (`NoKeyAssumption`, `WorkersAssumption`, `HappyAssumption`,
`DependentsAssumption`, `ConstantsAssumption`, `NoSourceAssumption`,
`AdapterAssumption`).

- `ConditionManagerProofs`: `HappyIffAllTrue` and `FailureIsVisible` are inductive
  with the types; neither is alone.
- `WorkQueueProofs`: what `Add`, `Get` and `Done` preserve of `QueueConsistent`.
  The third conjunct, no dirty key is lost, is why `Done` must look at the dirty set.
- `ControllerProcessProofs`: first of `ControllerImpl`, `TypeOK`, `QueueConsistent`,
  `SingleFlight`, `NoForgottenRetry`, `NoSleeperIsNeeded` and the refinement of
  `PendingWork`.
  `SingleFlight` is not inductive: two workers are kept apart because the processing
  set holds what they hold (`HeldIsProcessing`) and the queue holds none of that.
  `NoForgottenRetry` is strengthened to `RetryIsPending`: once a worker has settled a
  failed key, the retry itself must be waiting or dirty. `NoSleeperIsNeeded` counts:
  a step that lengthens the queue by one key wakes one sleeper, and each way out of
  phase `get` takes a key or finds none. Then of the process: its steps do to queue and
  workers only what `ControllerImpl` does (a lemma, true by its construction), so the
  theorems above hold of it (`ProcessKeepsScheduling`). `FoundWhenReconciled` needs `OneInformer`
  (factory, runner, lister and handlers hold the same one from the stage on in which
  each is set), `AnnouncedIsStored` (what was ever enqueued is in its store) and
  `WorkOnlyInRun`. `FirstListIsKnown` adds where each listed source is (`Listed`): in the
  list, among those still to be handled, or in the store.
- `ReceiveAdapterProofs`: the five invariants of the adapter run. A stranger's
  request carries a token that no process has, and a request that has come to `send`
  has been verified; an answer is that of something raised. `AtMostOncePerAttempt` is not inductive: `Counted` adds up what the sink
  took, what handlers may still send and what GitLab has requested, using the
  cardinalities of the sets of handlers.
- `GitLabSourceControllerProofs`: `SingleFlight`, `NothingUnobserved` and
  `AtMostOneReceiver` of `Spec`, under all faults. The thirty actions fall into
  four shapes (outside steps, inner steps of a worker, observed steps of the
  informer, adds to the queue), each proved once. `AtMostOneReceiver` needs
  `AboutToCreateTheFirst`: between the list and the creation nobody else creates,
  since only the holder of the key could.
- `GitLabSourceObjectsProofs`: `TypeOK`, `ReadyHasASink` and
  `ControllerKeepsTheSpec`. `Details` gives the types of all copies of a source (in
  the store, on the watch, in the cache, with the workers), each with `SinkKept`, which
  `ReadyHasASink` asks of the store only: a worker's copy may become the stored
  one. `VersionsInOrder` says that a copy with the last resource version has the
  stored spec and deletion, so a write that passes the check on the version keeps both.
- `GitLabSourceHooksProofs`: `NoSecondHookOnceRecorded`,
  `OnlyDyingSourcesLoseHooks` and, from `[]HookIsListed`, `ProtectedHooksAccounted`
  and `ClearedIDMeansDeleted`.
  Copies of a source age along one line: a worker's snapshot, the cache, the watch,
  the server (`WatchInOrder`, `CopiesAge`), so a status that the server accepts
  is computed from what it has, and a worker whose copy has no hook
  ID is not reconciling a living source that has one recorded (`HooksRemembered`).
  `Accounted` adds that a worker removes the finalizer only after the hook is gone or
  was named in an event.
  `OnlyDyingSourcesLoseHooks` needs that a number identifies a hook within its instance
  (`NumbersIdentify`), so that what is deleted is the hook in the worker's copy unless
  that copy's project is of another instance than its hook.
  `HookIsListed` is the least that is needed of GitLab: while a worker looks
  for a hook of its source, that hook is on the page listed for the project in its
  copy. hook_beyond_first_page violates exactly that, by a full page or an edit of
  `projectURL`.

- `GitLabSourceReceiversProofs`, first part: `RecordedHookIsOwn` and
  `HookReachesReceiver`, from `NamesRest`, for names that begin each other too. Neither
  is inductive, since any copy may become the stored one:
  `OneUid`, `HooksOwn` and `HooksReach` ask the same of all copies. Most steps only pass
  copies on, so it is shown once that a step makes no version with a uid or a hook ID
  that no copy had (`Inherits`) and that receivers stay while their source does
  (`Standing`); what is left is the creation of a source, which needs the rest, and the
  creation of a hook. `ReceiverStays` covers the time in between: the deployment that
  `FindReceiver` has seen is there when the hook is created. A hook that is created
  finds a service of its source because the code panics without one that has an address.
- `GitLabSourceReceiversProofs`, second part: the controller implements
  `HookLifecycle`, from `[]HookIsListed` and `[]NobodyMoved` (no worker looks for a hook in
  another GitLab than the one that gave its ID). Records are read off the API server's
  objects; cache, watch, queue and workers are hidden. Every write, by a user or by a
  worker, stores one object, and the invariants of the hooks say which ID and which
  finalizers it may have. They need one part more, `HooksAgree`: copies of a source
  that has a hook recorded name that hook or none, so a status that was computed from an
  old copy puts no other hook in its place.

Each theorem with a hypothesis has it because a run shows the property violated
without it (hook_beyond_first_page, status_of_another), or because a source that is
moved to another GitLab may delete another's hook there.

Only model-checked: all liveness properties (out of the provers' reach), and what holds
from the registered initial states, while the theorems begin with an empty cluster.

## Not modelled

- The arithmetic of the retry counts and the backoff, and the token bucket: a delay is
  any time.
- The DeltaFIFO's own queue and compression: a watch is ordered by key, a relist is
  one step.
- The admission webhook: `Validate` returns nil, `SetDefaults` is empty, and the
  rest of `cmd/webhook` is certificates and registration in vendored code.
- Scheme registration and generated deep copies: a deep copy is a value here. What
  the program does not call of the generated clients (`Create`, `Delete`, `Patch`,
  filtered factories, fakes).
- Payload formats, the parsing of URLs, configuration maps, logging and metrics,
  and static manifests (of which the status subresource is used).

## Plan

1. The informer's DeltaFIFO and relisting, shown to implement `Deliver` and `Relist`.
2. The theorems from any initial state that satisfies their invariants, so that they
   cover the registered ones of the runs too.

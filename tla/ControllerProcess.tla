------------------------- MODULE ControllerProcess -------------------------
(***************************************************************************)
(* The controller's process, from main to its exit: the clients, the       *)
(* informer factory and the informer that are injected into a context, the *)
(* constructor that takes a lister and hangs its handlers on the informer, *)
(* and only then, once the informer has listed the sources, the workers of *)
(* ControllerImpl.                                                         *)
(*                                                                         *)
(* Informers are numbered in the order in which they are made.  Sources    *)
(* are created here and never deleted: GitLabSourceController has what     *)
(* becomes of them.                                                        *)
(***************************************************************************)
EXTENDS ControllerImpl

VARIABLES
    stage,          \* how far sharedmain.MainWithConfig has come
    imageDefined,   \* is GL_RA_IMAGE in the environment?
    factory,        \* the informer that the factory has in its map, or 0
    registered,     \* the informer that StartInformers is to run, or 0
    lister,         \* the one whose indexer the reconciler reads; 0 without one
    handled,        \* the one that calls Enqueue, or 0
    server,         \* the sources in the cluster
    unpopped,       \* those of the first List that are still to be handled
    store,          \* of each informer: its indexer
    unnotified      \* Adds that were distributed and not yet delivered

wiring == <<imageDefined, factory, registered, lister, handled>>
caches == <<server, unpopped, store, unnotified>>
processVars == <<vars, stage, wiring, caches>>

\* InformerFor is called for withInformer, for the lister and for the handlers.
Informers == 1..3

Stages == {"clients", "factories", "informers", "construct", "config", "list", "sync",
           "run", "exited"}

ProcessTypeOK ==
    /\ TypeOK
    /\ stage \in Stages
    /\ imageDefined \in BOOLEAN
    /\ {factory, registered, lister, handled} \subseteq Informers \cup {0}
    /\ {server, unpopped, unnotified} \subseteq SUBSET Keys
    /\ store \in [Informers -> SUBSET Keys]

ProcessInit ==
    /\ Init
    /\ stage = "clients"
    /\ imageDefined \in BOOLEAN
    /\ factory = 0 /\ registered = 0 /\ lister = 0 /\ handled = 0
    /\ server \in SUBSET Keys
    /\ unpopped = {}
    /\ store = [i \in Informers |-> {}]
    /\ unnotified = {}

-----------------------------------------------------------------------------
(* Starting *)

\* Mutant: the factory forgets its informers.
InformerForgotten(f) == f + 1

\* The informer for GitLabSource of a factory whose map holds f.
InformerFor(f) == IF f = 0 THEN 1 ELSE f

\* Mutant: the lister is given an informer of its own.
ListerOfItsOwn(f) == InformerFor(f) + 1

\* The informer whose indexer Lister() reads.
Lister(f) == InformerFor(f)

\* Clients are injected first ...
withClient ==
    /\ stage = "clients"
    /\ stage' = "factories"
    /\ UNCHANGED <<vars, wiring, caches>>

\* ... which panics if the configuration is not usable.
NewForConfigOrDie ==
    /\ stage = "clients"
    /\ stage' = "exited"
    /\ UNCHANGED <<vars, wiring, caches>>

\* A factory has an empty map.
NewSharedInformerFactory == 0

\* Then the factories, which take the client from the context ...
withInformerFactory ==
    /\ stage = "factories"
    /\ stage' = "informers"
    /\ factory' = NewSharedInformerFactory
    /\ UNCHANGED <<vars, imageDefined, registered, lister, handled, caches>>

\* ... and the informers, which take the factory.
withInformer ==
    /\ stage = "informers"
    /\ stage' = "construct"
    /\ factory' = InformerFor(factory)
    /\ registered' = InformerFor(factory)
    /\ UNCHANGED <<vars, imageDefined, lister, handled, caches>>

SetupInformers == withClient \/ withInformerFactory \/ withInformer

\* The constructor asks for the lister, then for the informer to add handlers to.
\* Without the image it returns nil before; nobody looks at that until StartAll.
NewController ==
    /\ stage = "construct"
    /\ stage' = "config"
    /\ IF imageDefined
       THEN /\ lister' = Lister(factory)
            /\ factory' = InformerFor(InformerFor(factory))
            /\ handled' = factory'
       ELSE UNCHANGED <<lister, handled, factory>>
    /\ UNCHANGED <<vars, imageDefined, registered, caches>>

\* The configuration watcher starts and StartInformers runs the informer ...
StartInformers ==
    /\ stage = "config"
    /\ stage' = "list"
    /\ UNCHANGED <<vars, wiring, caches>>

\* ... which lists the sources; those created later come by its watch.
List ==
    /\ stage = "list"
    /\ stage' = "sync"
    /\ unpopped' = server
    /\ UNCHANGED <<vars, wiring, server, store, unnotified>>

\* The watcher does not start, or the process is told to stop before the first
\* list is in the store: Fatal.
Fail ==
    /\ stage \in {"config", "list", "sync"}
    /\ stage' = "exited"
    /\ UNCHANGED <<vars, wiring, caches>>

\* Mutant: workers start without waiting for the first list.
StartAllAtOnce ==
    /\ stage = "sync"
    /\ stage' = IF lister = 0 THEN "exited" ELSE "run"
    /\ UNCHANGED <<vars, wiring, caches>>

\* WaitForCacheSync has seen the whole list go by.  Run panics on a nil Impl.
StartAll ==
    /\ stage = "sync"
    /\ unpopped = {}
    /\ stage' = IF lister = 0 THEN "exited" ELSE "run"
    /\ UNCHANGED <<vars, wiring, caches>>

-----------------------------------------------------------------------------
(* The informer *)

\* The lister's Get does not answer NotFound.
Found(k) == k \in store[lister]

\* A user creates a source.
Create(k) ==
    /\ stage # "exited"
    /\ server' = server \cup {k}
    /\ server' # server
    /\ UNCHANGED <<vars, stage, wiring, unpopped, store, unnotified>>

\* The object goes into the indexer first, then to the handlers.
HandleDeltas(k) ==
    /\ stage \in {"sync", "run"}
    /\ k \in server \ store[registered]
    /\ store' = [store EXCEPT ![registered] = @ \cup {k}]
    /\ unnotified' = unnotified \cup (IF handled = registered THEN {k} ELSE {})
    /\ unpopped' = unpopped \ {k}
    /\ UNCHANGED <<vars, stage, wiring, server>>

\* The listener's goroutine delivers an Add.
Notify(k) ==
    /\ stage \in {"sync", "run"}
    /\ k \in unnotified
    /\ unnotified' = unnotified \ {k}
    /\ Enqueue(k)
    /\ UNCHANGED <<stage, wiring, server, unpopped, store>>

\* It delivers an update or a resync of a source that it has announced.
NotifyAgain(k) ==
    /\ stage \in {"sync", "run"}
    /\ handled = registered
    /\ k \in store[registered] \ unnotified
    /\ Enqueue(k)
    /\ UNCHANGED <<stage, wiring, caches>>

-----------------------------------------------------------------------------
(* Running *)

Work(w) ==
    /\ stage = "run"
    /\ WorkerStep(w)
    /\ UNCHANGED <<stage, wiring, caches>>

Wake(k) ==
    /\ stage # "exited"
    /\ RetryDue(k)
    /\ UNCHANGED <<stage, wiring, caches>>

\* Reconcile panics: nothing between it and the goroutine's function recovers,
\* and the process is gone with all its keys.
Panic(w) ==
    /\ stage = "run"
    /\ pc[w] = "reconcile"
    /\ stage' = "exited"
    /\ UNCHANGED <<vars, wiring, caches>>

\* The process is told to stop, and Run shuts the queue down.
Terminate ==
    /\ stage = "run"
    /\ Stop
    /\ UNCHANGED <<stage, wiring, caches>>

\* Run returns when its workers have, and with it main.
Return ==
    /\ stage = "run"
    /\ \A w \in Workers : pc[w] = "exited"
    /\ stage' = "exited"
    /\ UNCHANGED <<vars, wiring, caches>>

Startup == SetupInformers \/ NewController \/ StartInformers \/ List \/ StartAll

ProcessNext ==
    \/ Startup
    \/ NewForConfigOrDie
    \/ Fail
    \/ Terminate
    \/ Return
    \/ \E k \in Keys : Create(k) \/ HandleDeltas(k) \/ Notify(k) \/ NotifyAgain(k) \/ Wake(k)
    \/ \E w \in Workers : Work(w) \/ Panic(w)

ProcessSpec == ProcessInit /\ [][ProcessNext]_processVars

\* The main goroutine, the informer's, the workers' and the waiting loop's run;
\* nothing obliges a user to create, an object to change, or the process to stop.
ProcessFairness ==
    /\ WF_processVars(Startup)
    /\ \A k \in Keys : /\ WF_processVars(HandleDeltas(k))
                       /\ WF_processVars(Notify(k))
                       /\ WF_processVars(Wake(k))
    /\ \A w \in Workers : WF_processVars(Work(w))

ProcessFairSpec == ProcessSpec /\ ProcessFairness

-----------------------------------------------------------------------------
(* Properties *)

\* Reconcile takes a source that the lister does not find for deleted and drops
\* it: no source that exists meets that fate, from the first Enqueue on, though
\* handlers, lister and the informer that runs are asked for separately.
FoundWhenReconciled == \A w \in Workers : pc[w] = "reconcile" => Found(held[w])

\* Every source that no informer has seen yet, all those older than the process
\* included, is reconciled unless the process stops or fails first.
EverySourceIsReconciled ==
    \A k \in Keys :
        k \in server \ UNION {store[i] : i \in Informers} ~>
                        \/ shuttingDown
                        \/ stage = "exited"
                        \/ \E w \in Workers : held[w] = k /\ pc[w] = "reconcile"

\* A key enqueued while its worker is busy, or before there are workers, is
\* reconciled afterwards, though workers that wait are woken one at a time, and
\* shutting down drains what is queued (queue.go, ShutDown).  Only a process that
\* ends on its way up or by a panic drops keys.
EveryDirtyKeyIsReconciled ==
    \A k \in Keys : k \in dirty ~> \/ stage = "exited"
                                   \/ \E w \in Workers : held[w] = k /\ k \notin dirty

\* A key whose reconciliation failed is reconciled again, unless the process
\* stops or dies first: AddRateLimited, the waiting loop and Done pass it on
\* without dropping it, even if it is enqueued by an informer meanwhile.
EveryFailureIsRetried ==
    \A k \in Keys :
        k \in failures ~> \/ shuttingDown
                          \/ stage = "exited"
                          \/ \E w \in Workers : held[w] = k /\ pc[w] = "reconcile"

\* ShutDown lets every worker finish and return, those that wait in Get
\* included: Run waits for all of them, unless a panic ends them all.
WorkersExit ==
    shuttingDown ~> stage = "exited" \/ \A w \in Workers : pc[w] = "exited"

\* Whatever the informer lists first is known to the lister before any
\* reconciliation begins, though handlers fill the queue from the first object
\* on: nothing is reconciled against half a list.
FirstListIsKnown ==
    \A k \in Keys :
        [](stage = "list" /\ k \in server =>
            [](\A w \in Workers : pc[w] = "reconcile" => Found(k)))
=============================================================================

--------------------------- MODULE ControllerImpl ---------------------------
(***************************************************************************)
(* The controller.Impl of knative.dev/pkg: workers that take keys from the *)
(* work queue, call Reconcile and settle the key.  Reconcile itself is a   *)
(* black box here that succeeds or fails, with a permanent or a transient  *)
(* error; GitLabSourceController opens that box.                           *)
(*                                                                         *)
(* A worker that finds the queue empty waits on its condition variable,    *)
(* and only a signal makes it look again: the "wait" phase is the list of  *)
(* goroutines that sync.Cond keeps.                                        *)
(***************************************************************************)
EXTENDS WorkQueue, FiniteSets

CONSTANTS Workers,      \* the goroutines Run starts, DefaultThreadsPerController
          NoKey

ASSUME NoKeyAssumption == NoKey \notin Keys
ASSUME WorkersAssumption == IsFiniteSet(Workers)

VARIABLES failures,     \* keys for which the rate limiter counts retries
          pc,           \* where each worker is in processNextWorkItem
          held          \* the key it holds, or NoKey

vars == <<queueVars, failures, pc, held>>

Phases == {"get", "wait", "reconcile", "settled", "exited"}

\* A worker has a key from Get to Done, and none while it waits for one.
TypeOK ==
    /\ QueueTypeOK
    /\ failures \subseteq Keys
    /\ pc \in [Workers -> Phases]
    /\ held \in [Workers -> Keys \cup {NoKey}]
    /\ \A w \in Workers : held[w] = NoKey <=> pc[w] \in {"get", "wait", "exited"}

Init ==
    /\ QueueInit
    /\ failures = {}
    /\ pc = [w \in Workers |-> "get"]
    /\ held = [w \in Workers |-> NoKey]

Waiting(phases) == {w \in Workers : phases[w] = "wait"}

\* Mutant: Add wakes nobody.
SignalNobody(phases) == {phases}

\* Signal wakes one goroutine of those that wait, if any.
Signal(phases) ==
    IF Waiting(phases) = {}
    THEN {phases}
    ELSE {[phases EXCEPT ![w] = "get"] : w \in Waiting(phases)}

Broadcast(phases) ==
    {[w \in Workers |-> IF phases[w] = "wait" THEN "get" ELSE phases[w]]}

\* Mutant: only the first key of an empty queue is worth a signal.
AppendedToNone(phases) ==
    IF queue' = queue \/ queue # <<>> THEN {phases} ELSE Signal(phases)

\* Add and Done signal when they append a key.
Appended(phases) == IF queue' = queue THEN {phases} ELSE Signal(phases)

\* An informer callback calls Enqueue.
Enqueue(k) ==
    /\ Add(k)
    /\ pc' \in Appended(pc)
    /\ UNCHANGED <<failures, held>>

Take(w, k) ==
    /\ pc[w] = "get"
    /\ Get(k)
    /\ pc' = [pc EXCEPT ![w] = "reconcile"]
    /\ held' = [held EXCEPT ![w] = k]
    /\ UNCHANGED failures

\* The loop of Get: the queue is looked at again after each signal.
Wait(w) ==
    /\ pc[w] = "get"
    /\ queue = <<>>
    /\ ~shuttingDown
    /\ pc' = [pc EXCEPT ![w] = "wait"]
    /\ UNCHANGED <<queueVars, failures, held>>

\* Get reports shutdown once the queue is empty, and the worker returns.
Exit(w) ==
    /\ pc[w] = "get"
    /\ queue = <<>>
    /\ shuttingDown
    /\ pc' = [pc EXCEPT ![w] = "exited"]
    /\ UNCHANGED <<queueVars, failures, held>>

\* The rate limiter counts the retries of each key.  A count sets nothing but the
\* delay, so that only which keys have one is kept.
AddRateLimited(k) ==
    /\ failures' = failures \cup {k}
    /\ AddAfter(k)

Forget(k) ==
    /\ failures' = failures \ {k}
    /\ UNCHANGED queueVars

\* Reconcile returned a transient error: handleErr retries the key later.
Retry(w) ==
    /\ pc[w] = "reconcile"
    /\ AddRateLimited(held[w])
    /\ pc' = [pc EXCEPT ![w] = "settled"]
    /\ UNCHANGED held

\* Mutant: processNextWorkItem returns without Done when it forgets the key.
SettleWithoutDone(w) ==
    /\ pc[w] = "reconcile"
    /\ Forget(held[w])
    /\ pc' = [pc EXCEPT ![w] = "get"]
    /\ UNCHANGED held

\* Reconcile succeeded, or failed for good: the retries are forgotten.
Settle(w) ==
    /\ pc[w] = "reconcile"
    /\ Forget(held[w])
    /\ pc' = [pc EXCEPT ![w] = "settled"]
    /\ UNCHANGED held

\* The deferred Done, on every path out of processNextWorkItem.
Release(w) ==
    /\ pc[w] = "settled"
    /\ Done(held[w])
    /\ pc' \in Appended([pc EXCEPT ![w] = "get"])
    /\ held' = [held EXCEPT ![w] = NoKey]
    /\ UNCHANGED failures

RetryDue(k) ==
    /\ AddReady(k)
    /\ pc' \in Appended(pc)
    /\ UNCHANGED <<failures, held>>

\* Mutant: ShutDown wakes one worker.
StopWithSignal ==
    /\ ShutDown
    /\ pc' \in Signal(pc)
    /\ UNCHANGED <<failures, held>>

Stop ==
    /\ ShutDown
    /\ pc' \in Broadcast(pc)
    /\ UNCHANGED <<failures, held>>

WorkerStep(w) ==
    \/ \E k \in Keys : Take(w, k)
    \/ Wait(w)
    \/ Exit(w)
    \/ Retry(w)
    \/ Settle(w)
    \/ Release(w)

Next ==
    \/ \E k \in Keys : Enqueue(k) \/ RetryDue(k)
    \/ \E w \in Workers : WorkerStep(w)
    \/ Stop

Spec == Init /\ [][Next]_vars

-----------------------------------------------------------------------------

\* No two workers reconcile the same key at once, whatever is enqueued or
\* retried meanwhile: Reconcile relies on it, it takes no lock of its own.
SingleFlight ==
    \A v, w \in Workers : held[v] = held[w] /\ held[v] # NoKey => v = w

\* No retry is counted for a key that nothing will ever look at again: its
\* worker still holds it, it is due later, or it is dirty.
NoForgottenRetry ==
    \A k \in Keys :
        k \in failures /\ ~shuttingDown => k \in waiting \cup dirty \cup processing

\* No worker sleeps while it is needed: as long as one waits, there are as many
\* others on their way to the queue as there are keys in it.  One signal per key
\* is enough for that, in whatever order workers wake, take keys and fall asleep.
NoSleeperIsNeeded ==
    Waiting(pc) # {} => Len(queue) <= Cardinality({w \in Workers : pc[w] = "get"})

Scheduling == INSTANCE PendingWork WITH pending <- dirty, active <- held

\* The queue keeps the promise of PendingWork.
ImplementsPendingWork == Scheduling!Spec
=============================================================================

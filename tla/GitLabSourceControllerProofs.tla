-------------------- MODULE GitLabSourceControllerProofs --------------------
(***************************************************************************)
(* What the controller's scheduling guarantees to Reconcile, for any       *)
(* number of sources and workers and under all faults: a source has one    *)
(* reconciliation at a time, every change of the cache is looked at, and   *)
(* list-then-create never creates a second receive adapter.                *)
(***************************************************************************)
EXTENDS GitLabSourceController, WorkQueueProofs

\* The part of TypeOK that the proofs need.
WorkersTyped ==
    /\ pc \in [Workers -> Phases]
    /\ held \in [Workers -> Keys \cup {NoKey}]
    /\ DOMAIN source = Workers
    /\ unseen \in [Keys -> BOOLEAN]
    /\ notified \subseteq Keys

\* The processing set is what the workers hold, each key by one of them.
HeldIsProcessing ==
    /\ \A w \in Workers : held[w] = NoKey <=> pc[w] = "get"
    /\ \A w \in Workers : held[w] # NoKey => held[w] \in processing
    /\ SingleFlight

\* Between the list and the creation of the receive adapter none appears: only
\* the worker itself could create one with this owner.
AboutToCreateTheFirst ==
    \A w \in Workers : pc[w] = "deployment" =>
        \A d \in deployments : d.owner # Owner(w)

\* The queue is never shut down here: the process stops at once instead.
IInv ==
    /\ QueueTypeOK
    /\ ~shuttingDown
    /\ QueueConsistent
    /\ WorkersTyped
    /\ HeldIsProcessing
    /\ NothingUnobserved
    /\ AboutToCreateTheFirst
    /\ AtMostOneReceiver

LEMMA NoKeyIsNoKey == NoKey \notin Keys
BY ConstantsAssumption

-----------------------------------------------------------------------------
(* Steps that leave queue, notifications and the keys held alone *)

schedulingVars == <<queueVars, notified, unseen, held>>

\* Steps of the environment and of the informer that no worker takes part in.
OutsideStep ==
    /\ UNCHANGED <<schedulingVars, pc, source>>
    /\ deployments' \subseteq deployments

\* Phases from which no deployment is created next.
InnerPhases == Phases \ {"get", "lookup", "deployment"}

\* Worker w goes on with what it holds.
Proceeds(w) ==
    /\ UNCHANGED held
    /\ \E phase \in InnerPhases : pc' = [pc EXCEPT ![w] = phase]
    /\ \/ UNCHANGED source
       \/ \E s : source' = [source EXCEPT ![w] = s]

InnerStep(w) ==
    /\ UNCHANGED <<queueVars, notified, unseen>>
    /\ pc[w] \notin {"get", "lookup"}
    /\ Proceeds(w)
    /\ deployments' \subseteq deployments

LEMMA OutsideStepKeeps ==
    ASSUME IInv, OutsideStep PROVE IInv'
<1> USE DEF IInv, OutsideStep, schedulingVars, queueVars
<1>1. (QueueTypeOK /\ ~shuttingDown /\ QueueConsistent)'
    BY DEF QueueTypeOK, QueueConsistent, InQueue
<1>2. (WorkersTyped /\ HeldIsProcessing /\ NothingUnobserved)'
    BY DEF WorkersTyped, HeldIsProcessing, SingleFlight, NothingUnobserved
<1>3. (AboutToCreateTheFirst /\ AtMostOneReceiver)'
    BY DEF AboutToCreateTheFirst, AtMostOneReceiver, Owner
<1> QED BY <1>1, <1>2, <1>3

LEMMA InnerStepKeeps ==
    ASSUME IInv, NEW w \in Workers, InnerStep(w) PROVE IInv'
<1> USE DEF IInv, InnerStep, Proceeds, InnerPhases, queueVars
<1>1. (QueueTypeOK /\ ~shuttingDown /\ QueueConsistent)'
    BY DEF QueueTypeOK, QueueConsistent, InQueue
<1>2. WorkersTyped'
    BY DEF WorkersTyped
<1>3. \A v \in Workers \ {w} : pc'[v] = pc[v] /\ source'[v] = source[v]
    BY DEF WorkersTyped
<1>4. pc'[w] \notin {"get", "lookup", "deployment"}
    BY DEF WorkersTyped
<1>5. HeldIsProcessing'
    BY <1>3, <1>4 DEF HeldIsProcessing, SingleFlight
<1>6. NothingUnobserved'
    BY <1>3 DEF NothingUnobserved
<1>7. (AboutToCreateTheFirst /\ AtMostOneReceiver)'
    BY <1>3, <1>4 DEF AboutToCreateTheFirst, AtMostOneReceiver, Owner
<1> QED BY <1>1, <1>2, <1>5, <1>6, <1>7

-----------------------------------------------------------------------------
(* Which steps those are *)

LEMMA ContinueProceeds ==
    ASSUME NEW w \in Workers, NEW s, NEW phase \in InnerPhases, Continue(w, s, phase)
    PROVE  Proceeds(w)
BY DEF Continue, Proceeds

LEMMA AfterStatusIsInner ==
    ASSUME NEW w \in Workers, NEW s PROVE AfterStatus(w, s) \in {"finalizers", "finish"}
BY DEF AfterStatus

LEMMA ReturnProceeds ==
    ASSUME NEW w \in Workers, NEW s, NEW err, Return(w, s, err)
    PROVE  Proceeds(w)
<1> DEFINE next == IF s.status # original[w].status THEN "status" ELSE AfterStatus(w, s)
<1>1. next \in InnerPhases
    BY AfterStatusIsInner DEF InnerPhases, Phases
<1>2. pc' = [pc EXCEPT ![w] = next]
    BY DEF Return
<1> QED BY <1>1, <1>2 DEF Return, Proceeds

LEMMA AbortProceeds ==
    ASSUME NEW w \in Workers, Abort(w) PROVE Proceeds(w)
BY DEF Abort, Proceeds, InnerPhases, Phases

\* The requests of a reconciliation, except those about the receive adapter.
RequestStep(w) ==
    \/ ReadSecrets(w)
    \/ ResolveSink(w)
    \/ CreateService(w)
    \/ ListServicesFails(w)
    \/ KeepWebhook(w)
    \/ CreateWebhook(w)
    \/ Finalize(w)
    \/ DeleteWebhook(w)
    \/ UpdateStatus(w)
    \/ UpdateFinalizers(w)

LEMMA WriteProceeds ==
    ASSUME NEW w \in Workers, NEW sent, NEW stored, NEW allowed,
           NEW phase \in InnerPhases, WriteThroughCache(w, sent, stored, allowed, phase)
    PROVE  Proceeds(w) /\ UNCHANGED <<queueVars, notified, unseen, deployments>>
<1>1. UNCHANGED <<queueVars, notified, unseen, deployments>>
    BY DEF WriteThroughCache, receiverVars
<1>2. CASE Abort(w)
    BY <1>1, <1>2, AbortProceeds
<1>3. CASE pc' = [pc EXCEPT ![w] = phase] /\ UNCHANGED <<held, original, source, failed>>
    BY <1>1, <1>3 DEF Proceeds
<1> QED BY <1>2, <1>3 DEF WriteThroughCache

LEMMA RequestStepIsInner ==
    ASSUME NEW w \in Workers, RequestStep(w) PROVE InnerStep(w)
<1> USE DEF InnerStep, requestFrame, informerVars, receiverVars
<1> DEFINE Frame == UNCHANGED <<queueVars, notified, unseen, deployments>>
<1>1. {"sink", "receiver", "deleteWebhook", "finish"} \subseteq InnerPhases
    BY DEF InnerPhases, Phases
<1>2. CASE ReadSecrets(w)
    BY <1>1, <1>2, ContinueProceeds, ReturnProceeds DEF ReadSecrets
<1>3. CASE ResolveSink(w)
    BY <1>1, <1>3, ContinueProceeds, ReturnProceeds DEF ResolveSink
<1>4. CASE CreateService(w)
    BY <1>4, ReturnProceeds DEF CreateService
<1>5. CASE ListServicesFails(w)
    BY <1>5, ReturnProceeds DEF ListServicesFails
<1>6. CASE KeepWebhook(w)
    BY <1>6, ReturnProceeds DEF KeepWebhook
<1>7. CASE CreateWebhook(w)
    BY <1>7, ReturnProceeds DEF CreateWebhook
<1>8. CASE Finalize(w)
    BY <1>1, <1>8, ContinueProceeds, ReturnProceeds DEF Finalize
<1>9. CASE DeleteWebhook(w)
    BY <1>9, ReturnProceeds DEF DeleteWebhook
<1>10. CASE UpdateStatus(w)
    <2>1. AfterStatus(w, source[w]) \in InnerPhases
        BY AfterStatusIsInner DEF InnerPhases, Phases
    <2> QED BY <1>10, <2>1, WriteProceeds DEF UpdateStatus
<1>11. CASE UpdateFinalizers(w)
    BY <1>1, <1>11, WriteProceeds DEF UpdateFinalizers
<1> QED BY <1>2, <1>3, <1>4, <1>5, <1>6, <1>7, <1>8, <1>9, <1>10, <1>11 DEF RequestStep

\* What users, other controllers and the cluster do.
EnvironmentStep ==
    \/ \E k \in Keys : CreateSource(k) \/ DeleteSource(k) \/ EditSource(k) \/ RemoveForeign(k)
    \/ EditEnvironment
    \/ \E v \in services : ProvisionIngress(v)
    \/ \E owner \in Owners : CollectGarbage(owner)

LEMMA EnvironmentStepIsOutside == EnvironmentStep => OutsideStep
BY DEF EnvironmentStep, OutsideStep, schedulingVars, clusterFrame, workerVars, receiverVars,
       CreateSource, DeleteSource, EditSource, RemoveForeign, EditEnvironment,
       ProvisionIngress, CollectGarbage

-----------------------------------------------------------------------------
(* The steps that schedule *)

\* The informer changes its cache and is going to tell of all that it changed.
ObservedStep ==
    /\ UNCHANGED <<queueVars, pc, held, source, deployments>>
    /\ notified \subseteq notified'
    /\ notified' \subseteq Keys
    /\ unseen' \in [Keys -> BOOLEAN]
    /\ \A k \in Keys : unseen'[k] => unseen[k] \/ k \in notified'

LEMMA ObservedStepKeeps ==
    ASSUME IInv, ObservedStep PROVE IInv'
<1> USE DEF IInv, ObservedStep, queueVars
<1>1. (QueueTypeOK /\ ~shuttingDown /\ QueueConsistent)'
    BY DEF QueueTypeOK, QueueConsistent, InQueue
<1>2. (WorkersTyped /\ HeldIsProcessing)'
    BY DEF WorkersTyped, HeldIsProcessing, SingleFlight
<1>3. NothingUnobserved'
    BY DEF NothingUnobserved
<1>4. (AboutToCreateTheFirst /\ AtMostOneReceiver)'
    BY DEF AboutToCreateTheFirst, AtMostOneReceiver, Owner
<1> QED BY <1>1, <1>2, <1>3, <1>4

LEMMA InformerStepIsObserved ==
    ASSUME IInv, \/ \E k \in Keys : Deliver(k) \/ Resync(k)
                 \/ Relist
    PROVE  ObservedStep
<1> USE DEF IInv, WorkersTyped, ObservedStep, workerVars, receiverVars
<1>1. ASSUME NEW k \in Keys, Deliver(k) PROVE ObservedStep
    BY <1>1 DEF Deliver
<1>2. ASSUME NEW k \in Keys, Resync(k) PROVE ObservedStep
    BY <1>2 DEF Resync
<1>3. CASE Relist
    BY <1>3 DEF Relist
<1> QED BY <1>1, <1>2, <1>3

\* A key is added, by the informer's notification or at the end of its delay.
LEMMA AddedKeeps ==
    ASSUME IInv, NEW k \in Keys, Enqueued(k), UNCHANGED <<processing, shuttingDown>>,
           waiting' \subseteq waiting, UNCHANGED <<unseen, pc, held, source, deployments>>,
           notified \subseteq notified' \cup {k}, notified' \subseteq notified
    PROVE  IInv'
<1> USE DEF IInv
<1>1. (QueueTypeOK /\ ~shuttingDown)'
    BY EnqueuedKeepsTypes DEF QueueTypeOK
<1>2. QueueConsistent'
    BY EnqueuedKeepsConsistency
<1>3. (WorkersTyped /\ HeldIsProcessing)'
    BY DEF WorkersTyped, HeldIsProcessing, SingleFlight
<1>4. NothingUnobserved'
    BY EnqueuedKeepsTypes DEF NothingUnobserved
<1>5. (AboutToCreateTheFirst /\ AtMostOneReceiver)'
    BY DEF AboutToCreateTheFirst, AtMostOneReceiver, Owner
<1> QED BY <1>1, <1>2, <1>3, <1>4, <1>5

LEMMA NotifyKeeps ==
    ASSUME IInv, NEW k \in Keys, Notify(k) PROVE IInv'
BY AddedKeeps DEF Notify, Add, workerVars, receiverVars

LEMMA RetryDueKeeps ==
    ASSUME IInv, NEW k \in Keys, RetryDue(k) PROVE IInv'
BY AddedKeeps DEF RetryDue, AddReady, informerVars, workerVars, receiverVars

\* Whatever was notified, queued or in the hands of a worker: the next process
\* begins with everything that it lists unseen and notified.
LEMMA RestartKeeps ==
    ASSUME AtMostOneReceiver, Restart PROVE IInv'
<1> USE DEF Restart, QueueReset
<1>1. (QueueTypeOK /\ ~shuttingDown)'
    <2>1. queue' \in Seq(Keys)
        OBVIOUS
    <2> QED BY <2>1 DEF QueueTypeOK
<1>2. QueueConsistent'
    BY DEF QueueConsistent
<1>3. WorkersTyped'
    BY DEF WorkersTyped, Phases, Idle
<1>4. HeldIsProcessing'
    BY DEF HeldIsProcessing, SingleFlight
<1>5. NothingUnobserved'
    BY DEF NothingUnobserved
<1>6. (AboutToCreateTheFirst /\ AtMostOneReceiver)'
    BY DEF AboutToCreateTheFirst, AtMostOneReceiver, receiverVars
<1> QED BY <1>1, <1>2, <1>3, <1>4, <1>5, <1>6 DEF IInv

\* The key leaves the dirty set for a worker that is about to read the cache.
LEMMA TakeKeeps ==
    ASSUME IInv, NEW w \in Workers, Take(w) PROVE IInv'
<1> USE DEF IInv, WorkersTyped
<1> PICK k \in Keys : Get(k) /\ held' = [held EXCEPT ![w] = k]
    BY DEF Take
<1>1. pc[w] = "get" /\ pc' = [pc EXCEPT ![w] = "lookup"]
    BY DEF Take
<1>2. UNCHANGED <<source, deployments, notified, unseen>>
    BY DEF Take, informerVars, receiverVars
<1>3. QueueConsistent' /\ k \notin processing
    BY GetKeepsConsistency
<1>4. (QueueTypeOK /\ ~shuttingDown)'
    BY DEF Get, QueueTypeOK
<1>5. WorkersTyped'
    BY <1>1, <1>2 DEF Phases
<1>6. HeldIsProcessing'
    BY <1>1, <1>3, NoKeyIsNoKey DEF HeldIsProcessing, SingleFlight, Get
<1>7. NothingUnobserved'
    BY <1>1, <1>2 DEF NothingUnobserved, HeldIsProcessing, Get
<1>8. (AboutToCreateTheFirst /\ AtMostOneReceiver)'
    BY <1>1, <1>2 DEF AboutToCreateTheFirst, AtMostOneReceiver, Owner
<1> QED BY <1>3, <1>4, <1>5, <1>6, <1>7, <1>8

LEMMA LookupKeeps ==
    ASSUME IInv, NEW w \in Workers, Lookup(w) PROVE IInv'
<1> USE DEF IInv, WorkersTyped
<1> DEFINE next == IF cache[held[w]] = NoSource THEN "finish"
                   ELSE IF cache[held[w]].deleting THEN "finalize" ELSE "secrets"
<1>1. pc[w] = "lookup" /\ pc' = [pc EXCEPT ![w] = next]
    BY DEF Lookup
<1>2. next \in {"finish", "finalize", "secrets"}
    OBVIOUS
<1> HIDE DEF next
<1>3. UNCHANGED <<queueVars, held, notified, deployments>>
    BY DEF Lookup, receiverVars
<1>4. unseen' = [unseen EXCEPT ![held[w]] = FALSE]
    BY DEF Lookup
<1>5. \E s : source' = [source EXCEPT ![w] = s]
    BY DEF Lookup
<1>6. (QueueTypeOK /\ ~shuttingDown /\ QueueConsistent)'
    BY <1>3 DEF queueVars, QueueTypeOK, QueueConsistent, InQueue
<1>7. WorkersTyped'
    BY <1>1, <1>2, <1>3, <1>4, <1>5 DEF Phases
<1>8. HeldIsProcessing'
    BY <1>1, <1>2, <1>3 DEF queueVars, HeldIsProcessing, SingleFlight
<1>9. NothingUnobserved'
    BY <1>1, <1>3, <1>4 DEF queueVars, NothingUnobserved
<1>10. (AboutToCreateTheFirst /\ AtMostOneReceiver)'
    BY <1>1, <1>2, <1>3, <1>5 DEF AboutToCreateTheFirst, AtMostOneReceiver, Owner
<1> QED BY <1>6, <1>7, <1>8, <1>9, <1>10

LEMMA FinishKeeps ==
    ASSUME IInv, NEW w \in Workers, Finish(w) PROVE IInv'
<1> USE DEF IInv, WorkersTyped
<1>1. /\ pc[w] = "finish"
      /\ pc' = [pc EXCEPT ![w] = "get"]
      /\ held' = [held EXCEPT ![w] = NoKey]
      /\ source' = [source EXCEPT ![w] = NoSource]
    BY DEF Finish
<1>2. UNCHANGED <<notified, unseen, deployments>>
    BY DEF Finish, informerVars, receiverVars
<1>3. DoneEffect(held[w])
    BY DEF Finish
<1>4. held[w] \in Keys /\ held[w] \in processing
    BY <1>1 DEF HeldIsProcessing
<1>5. waiting' \subseteq Keys
    BY <1>4 DEF Finish, AddAfterEffect, QueueTypeOK
<1>6. (QueueTypeOK /\ ~shuttingDown)'
    BY <1>3, <1>4, <1>5 DEF DoneEffect, QueueTypeOK
<1>7. QueueConsistent'
    BY <1>3, <1>4, DoneKeepsConsistency
<1>8. WorkersTyped'
    BY <1>1, <1>2 DEF Phases
<1>9. HeldIsProcessing'
    BY <1>1, <1>3, <1>4, NoKeyIsNoKey DEF HeldIsProcessing, SingleFlight, DoneEffect
<1>10. NothingUnobserved'
    BY <1>1, <1>2, <1>3 DEF NothingUnobserved, DoneEffect
<1>11. (AboutToCreateTheFirst /\ AtMostOneReceiver)'
    BY <1>1, <1>2 DEF AboutToCreateTheFirst, AtMostOneReceiver, Owner
<1> QED BY <1>6, <1>7, <1>8, <1>9, <1>10, <1>11

\* The list finds none of its owner, or the worker does not go to create one.
LEMMA FindReceiverKeeps ==
    ASSUME IInv, NEW w \in Workers, FindReceiver(w) PROVE IInv'
<1>1. CASE InnerStep(w)
    BY <1>1, InnerStepKeeps
<1>2. CASE getOwnedReceiver(w) = {} /\ Continue(w, source[w], "deployment")
    <2> USE DEF IInv, WorkersTyped, FindReceiver, getOwnedReceiver, Continue,
                requestFrame, informerVars, receiverVars, queueVars
    <2>1. pc[w] = "receiver" /\ pc' = [pc EXCEPT ![w] = "deployment"]
        BY <1>2
    <2>2. UNCHANGED <<queueVars, held, notified, unseen, deployments>>
        BY <1>2
    <2>3. source' = [source EXCEPT ![w] = source[w]]
        BY <1>2
    <2>4. (QueueTypeOK /\ ~shuttingDown /\ QueueConsistent)'
        BY <2>2 DEF QueueTypeOK, QueueConsistent, InQueue
    <2>5. WorkersTyped'
        BY <2>1, <2>2, <2>3 DEF Phases
    <2>6. HeldIsProcessing' /\ NothingUnobserved'
        BY <2>1, <2>2 DEF HeldIsProcessing, SingleFlight, NothingUnobserved
    <2>7. (AboutToCreateTheFirst /\ AtMostOneReceiver)'
        BY <1>2, <2>1, <2>2, <2>3 DEF AboutToCreateTheFirst, AtMostOneReceiver, Owner
    <2> QED BY <2>4, <2>5, <2>6, <2>7
<1>3. pc[w] = "receiver" /\ UNCHANGED <<queueVars, notified, unseen, deployments>>
    BY DEF FindReceiver, requestFrame, informerVars, receiverVars
<1>4. CASE Proceeds(w)
    BY <1>1, <1>3, <1>4 DEF InnerStep
<1>5. "webhook" \in InnerPhases
    BY DEF InnerPhases, Phases
<1> QED BY <1>2, <1>4, <1>5, ContinueProceeds, ReturnProceeds DEF FindReceiver

\* The created deployment is the first of its owner, and no other worker is
\* about to create one of the same owner, for it would hold the same key.
LEMMA CreateDeploymentKeeps ==
    ASSUME IInv, NEW w \in Workers, CreateDeployment(w) PROVE IInv'
<1>1. pc[w] = "deployment" /\ UNCHANGED <<queueVars, notified, unseen>>
    BY DEF CreateDeployment, requestFrame, informerVars
<1>2. "service" \in InnerPhases
    BY DEF InnerPhases, Phases
<1>3. Proceeds(w)
    BY <1>2, ContinueProceeds, ReturnProceeds DEF CreateDeployment
<1>4. CASE UNCHANGED deployments
    BY <1>1, <1>3, <1>4, InnerStepKeeps DEF InnerStep
<1>5. CASE deployments' = deployments \cup {NewDeployment(w)}
    <2> USE DEF IInv, WorkersTyped, Proceeds, InnerPhases, queueVars
    <2>1. NewDeployment(w).owner = Owner(w)
        BY DEF NewDeployment
    <2>2. \A v \in Workers \ {w} : pc'[v] = pc[v] /\ held'[v] = held[v] /\ source'[v] = source[v]
        BY <1>3
    <2>3. pc'[w] \notin {"get", "lookup", "deployment"}
        BY <1>3
    <2>4. \A v \in Workers \ {w} : pc[v] = "deployment" => held[v] # held[w]
        BY <1>1 DEF HeldIsProcessing, SingleFlight
    <2>5. AboutToCreateTheFirst'
        BY <1>5, <2>1, <2>2, <2>3, <2>4 DEF AboutToCreateTheFirst, Owner
    <2>6. AtMostOneReceiver'
        BY <1>1, <1>5, <2>1 DEF AtMostOneReceiver, AboutToCreateTheFirst
    <2>7. (QueueTypeOK /\ ~shuttingDown /\ QueueConsistent)'
        BY <1>1 DEF QueueTypeOK, QueueConsistent, InQueue
    <2>8. WorkersTyped'
        BY <1>1, <1>3
    <2>9. HeldIsProcessing'
        BY <1>1, <1>3, <2>2, <2>3 DEF HeldIsProcessing, SingleFlight
    <2>10. NothingUnobserved'
        BY <1>1, <1>3, <2>2 DEF NothingUnobserved
    <2> QED BY <2>5, <2>6, <2>7, <2>8, <2>9, <2>10
<1> QED BY <1>4, <1>5 DEF CreateDeployment

-----------------------------------------------------------------------------
(* The inductive invariant *)

LEMMA IndInvInit == Init => IInv
<1> SUFFICES ASSUME Init PROVE IInv
    OBVIOUS
<1> USE DEF Init, QueueInit
<1>1. QueueTypeOK /\ ~shuttingDown
    <2>1. queue \in Seq(Keys)
        OBVIOUS
    <2> QED BY <2>1 DEF QueueTypeOK
<1>2. QueueConsistent
    BY DEF QueueConsistent
<1>3. WorkersTyped
    BY DEF WorkersTyped, Phases, Idle
<1>4. HeldIsProcessing
    BY DEF HeldIsProcessing, SingleFlight
<1>5. NothingUnobserved /\ AboutToCreateTheFirst /\ AtMostOneReceiver
    BY DEF NothingUnobserved, AboutToCreateTheFirst, AtMostOneReceiver
<1> QED BY <1>1, <1>2, <1>3, <1>4, <1>5 DEF IInv

LEMMA PanicsRestart ==
    ASSUME NEW w \in Workers, PanicWithoutIngress(w) \/ PanicOnPathlessProject(w)
    PROVE  Restart
BY DEF PanicWithoutIngress, PanicOnPathlessProject, Panic

LEMMA ReconcileStepKeeps ==
    ASSUME IInv, NEW w \in Workers, ReconcileStep(w) PROVE IInv'
<1>1. CASE RequestStep(w)
    BY <1>1, RequestStepIsInner, InnerStepKeeps
<1>2. CASE PanicWithoutIngress(w) \/ PanicOnPathlessProject(w)
    BY <1>2, PanicsRestart, RestartKeeps DEF IInv
<1> QED BY <1>1, <1>2, LookupKeeps, FindReceiverKeeps, CreateDeploymentKeeps, FinishKeeps
        DEF ReconcileStep, RequestStep

LEMMA IndInvNext == IInv /\ [Next]_vars => IInv'
<1> SUFFICES ASSUME IInv, [Next]_vars PROVE IInv'
    OBVIOUS
<1>1. CASE EnvironmentStep \/ UNCHANGED vars
    <2>1. OutsideStep
        BY <1>1, EnvironmentStepIsOutside
           DEF vars, OutsideStep, schedulingVars, informerVars, workerVars, receiverVars
    <2> QED BY <2>1, OutsideStepKeeps
<1>2. CASE (\E k \in Keys : Deliver(k) \/ Resync(k)) \/ Relist
    BY <1>2, InformerStepIsObserved, ObservedStepKeeps
<1>3. CASE \E k \in Keys : Notify(k) \/ RetryDue(k)
    BY <1>3, NotifyKeeps, RetryDueKeeps
<1>4. CASE \E w \in Workers : Take(w) \/ ReconcileStep(w)
    BY <1>4, TakeKeeps, ReconcileStepKeeps
<1>5. CASE Crash
    BY <1>5, RestartKeeps DEF Crash, IInv
<1> QED BY <1>1, <1>2, <1>3, <1>4, <1>5 DEF Next, InformerStep, EnvironmentStep

LEMMA Invariance == Spec => []IInv
BY IndInvInit, IndInvNext, PTL DEF Spec

-----------------------------------------------------------------------------
(* The theorems *)

\* SingleFlight: Reconcile runs at most once at a time for each source, for any
\* number of workers and whatever crashes, panics and retries happen.
THEOREM OneReconciliationPerSource == Spec => []SingleFlight
<1>1. IInv => SingleFlight
    BY DEF IInv, HeldIsProcessing
<1> QED BY <1>1, Invariance, PTL

\* NothingUnobserved: from the informer's handlers through the queue to the
\* lister of Reconcile, no change of the cache is dropped.
THEOREM ChangesAreObserved == Spec => []NothingUnobserved
<1>1. IInv => NothingUnobserved
    BY DEF IInv
<1> QED BY <1>1, Invariance, PTL

\* AtMostOneReceiver: getOwnedReceiver and Deployments.Create together never
\* leave a source with two receive adapters.
THEOREM OneReceiver == Spec => []AtMostOneReceiver
<1>1. IInv => AtMostOneReceiver
    BY DEF IInv
<1> QED BY <1>1, Invariance, PTL
=============================================================================

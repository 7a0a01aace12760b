---------------------- MODULE ControllerProcessProofs ----------------------
(***************************************************************************)
(* Scheduling is right for any number of keys and workers, and the queue   *)
(* with its workers implements PendingWork.  All this holds of the process *)
(* too, in which keys are enqueued before there are workers; and its       *)
(* reconciler finds every source it is called for.                         *)
(***************************************************************************)
EXTENDS ControllerProcess, WorkQueueProofs, FiniteSetTheorems

\* The processing set is what the workers hold, each key by one of them.
HeldIsProcessing ==
    /\ \A w \in Workers : held[w] # NoKey => held[w] \in processing
    /\ SingleFlight

\* NoForgottenRetry without the worker that has settled its key: then the
\* retry itself must be due.
RetryIsPending ==
    \A k \in Keys :
        k \in failures /\ ~shuttingDown =>
            \/ k \in waiting \cup dirty
            \/ \E w \in Workers : held[w] = k /\ pc[w] = "reconcile"

IInv == TypeOK /\ QueueConsistent /\ HeldIsProcessing /\ RetryIsPending /\ NoSleeperIsNeeded

-----------------------------------------------------------------------------
(* The condition variable *)

\* The workers on their way to the queue.
Getting(phases) == {w \in Workers : phases[w] = "get"}

LEMMA GettingIsFinite ==
    ASSUME NEW phases
    PROVE  IsFiniteSet(Getting(phases)) /\ Cardinality(Getting(phases)) \in Nat
BY WorkersAssumption, FS_Subset, FS_CardinalityType DEF Getting

\* A worker that starts to look at the queue is one more.
LEMMA OneMoreGetting ==
    ASSUME NEW phases \in [Workers -> Phases], NEW w \in Workers, phases[w] # "get",
           NEW next, next = [phases EXCEPT ![w] = "get"]
    PROVE  Cardinality(Getting(next)) = Cardinality(Getting(phases)) + 1
<1>1. Getting(next) = Getting(phases) \cup {w} /\ w \notin Getting(phases)
    BY DEF Getting
<1> QED BY <1>1, GettingIsFinite, FS_AddElement

\* Signal moves at most one worker, from the condition variable to the queue.
LEMMA SignalWakesOne ==
    ASSUME NEW phases \in [Workers -> Phases], NEW next \in Signal(phases)
    PROVE  /\ next \in [Workers -> Phases]
           /\ \A w \in Workers : \/ next[w] = phases[w]
                                 \/ phases[w] = "wait" /\ next[w] = "get"
           /\ Waiting(next) # {} =>
                Cardinality(Getting(next)) = Cardinality(Getting(phases)) + 1
<1>1. CASE Waiting(phases) = {}
    BY <1>1 DEF Signal
<1>2. CASE Waiting(phases) # {}
    <2>1. PICK w \in Waiting(phases) : next = [phases EXCEPT ![w] = "get"]
        BY <1>2 DEF Signal
    <2>2. w \in Workers /\ phases[w] = "wait" /\ phases[w] # "get"
        BY <2>1 DEF Waiting
    <2>3. Cardinality(Getting(next)) = Cardinality(Getting(phases)) + 1
        BY <2>1, <2>2, OneMoreGetting
    <2>4. next \in [Workers -> Phases]
        BY <2>1, <2>2 DEF Phases
    <2>5. \A v \in Workers : \/ next[v] = phases[v]
                             \/ phases[v] = "wait" /\ next[v] = "get"
        BY <2>1, <2>2
    <2> QED BY <2>3, <2>4, <2>5
<1> QED BY <1>1, <1>2

\* The same of Add and Done, which signal only for a key that they append.
LEMMA AppendedWakesOne ==
    ASSUME NEW phases \in [Workers -> Phases], NEW next \in Appended(phases)
    PROVE  /\ next \in [Workers -> Phases]
           /\ \A w \in Workers : \/ next[w] = phases[w]
                                 \/ phases[w] = "wait" /\ next[w] = "get"
           /\ queue' # queue /\ Waiting(next) # {} =>
                Cardinality(Getting(next)) = Cardinality(Getting(phases)) + 1
           /\ Waiting(next) \subseteq Waiting(phases)
           /\ Getting(phases) \subseteq Getting(next)
BY SignalWakesOne DEF Appended, Waiting, Getting

\* A key that is added keeps sleepers unneeded: it wakes one of them.
LEMMA AddWakes ==
    ASSUME TypeOK, NoSleeperIsNeeded, NEW k \in Keys, Enqueued(k), pc' \in Appended(pc)
    PROVE  NoSleeperIsNeeded'
<1> SUFFICES ASSUME Waiting(pc') # {} PROVE Len(queue') <= Cardinality(Getting(pc'))
    BY DEF NoSleeperIsNeeded, Getting, Waiting
<1>1. pc \in [Workers -> Phases] /\ queue \in Seq(Keys)
    BY DEF TypeOK, QueueTypeOK
<1>2. Waiting(pc) # {}
    BY <1>1, AppendedWakesOne
<1>3. Len(queue) <= Cardinality(Getting(pc)) /\ Len(queue) \in Nat
    BY <1>1, <1>2 DEF NoSleeperIsNeeded, Getting
<1>4. CASE queue' = queue
    BY <1>3, <1>4 DEF Appended
<1>5. CASE queue' # queue
    <2>1. queue' = Append(queue, k)
        BY <1>5 DEF Enqueued
    <2>2. Len(queue') = Len(queue) + 1
        BY <1>1, <2>1
    <2>3. Cardinality(Getting(pc')) = Cardinality(Getting(pc)) + 1
        BY <1>1, <1>5, AppendedWakesOne
    <2> QED BY <1>3, <2>2, <2>3, GettingIsFinite
<1> QED BY <1>4, <1>5

-----------------------------------------------------------------------------
(* The inductive invariant *)

LEMMA IndInvInit == Init => IInv
<1> SUFFICES ASSUME Init PROVE IInv
    OBVIOUS
<1> USE DEF Init, QueueInit
<1>1. TypeOK
    <2>1. QueueTypeOK
        <3>1. queue \in Seq(Keys)
            OBVIOUS
        <3>2. shuttingDown \in BOOLEAN
            OBVIOUS
        <3> QED BY <3>1, <3>2 DEF QueueTypeOK
    <2>2. pc \in [Workers -> Phases] /\ held \in [Workers -> Keys \cup {NoKey}]
        BY DEF Phases
    <2>3. \A w \in Workers : held[w] = NoKey /\ pc[w] = "get"
        OBVIOUS
    <2> QED BY <2>1, <2>2, <2>3 DEF TypeOK
<1>2. QueueConsistent
    BY DEF QueueConsistent
<1>3. HeldIsProcessing
    BY DEF HeldIsProcessing, SingleFlight
<1>4. RetryIsPending /\ NoSleeperIsNeeded
    BY DEF RetryIsPending, NoSleeperIsNeeded, Waiting
<1> QED BY <1>1, <1>2, <1>3, <1>4 DEF IInv

\* What Enqueue and RetryDue have in common: waiting may lose a key that is added.
LEMMA AddStep ==
    ASSUME IInv, NEW k \in Keys, Enqueued(k), pc' \in Appended(pc), waiting' \in SUBSET Keys,
           waiting \subseteq waiting' \cup {k},
           UNCHANGED <<processing, failures, shuttingDown, held>>
    PROVE  IInv'
<1> USE DEF IInv, TypeOK
<1>1. /\ pc' \in [Workers -> Phases]
      /\ \A w \in Workers : pc'[w] = pc[w] \/ (pc[w] = "wait" /\ pc'[w] = "get")
    BY AppendedWakesOne
<1>2. TypeOK'
    <2>1. QueueTypeOK'
        BY EnqueuedKeepsTypes DEF QueueTypeOK
    <2> QED BY <1>1, <2>1
<1>3. QueueConsistent'
    BY EnqueuedKeepsConsistency
<1>4. HeldIsProcessing'
    BY DEF HeldIsProcessing, SingleFlight
<1>5. RetryIsPending'
    BY <1>1, EnqueuedKeepsTypes DEF RetryIsPending
<1>6. NoSleeperIsNeeded'
    BY AddWakes
<1> QED BY <1>2, <1>3, <1>4, <1>5, <1>6

LEMMA EnqueueStep ==
    ASSUME IInv, NEW k \in Keys, Enqueue(k) PROVE IInv'
BY AddStep DEF Enqueue, Add, IInv, TypeOK, QueueTypeOK

LEMMA RetryDueStep ==
    ASSUME IInv, NEW k \in Keys, RetryDue(k) PROVE IInv'
BY AddStep DEF RetryDue, AddReady, IInv, TypeOK, QueueTypeOK

LEMMA TakeStep ==
    ASSUME IInv, NEW w \in Workers, NEW k \in Keys, Take(w, k) PROVE IInv'
<1> USE DEF IInv, TypeOK, Take
<1>1. TypeOK'
    BY NoKeyAssumption DEF QueueTypeOK, Get, Phases
<1>2. QueueConsistent' /\ k \notin processing
    BY GetKeepsConsistency
<1>3. HeldIsProcessing'
    BY <1>2, NoKeyAssumption DEF HeldIsProcessing, SingleFlight, Get
<1>4. RetryIsPending'
    BY DEF RetryIsPending, HeldIsProcessing, Get
<1>5. NoSleeperIsNeeded'
    <2>1. Getting(pc') = Getting(pc) \ {w} /\ w \in Getting(pc)
        BY DEF Getting
    <2>2. Cardinality(Getting(pc')) = Cardinality(Getting(pc)) - 1
        BY <2>1, GettingIsFinite, FS_RemoveElement
    <2>3. Waiting(pc') = Waiting(pc)
        BY DEF Waiting
    <2>4. Len(queue') = Len(queue) - 1 /\ Len(queue) \in Nat
        BY DEF QueueTypeOK, Get
    <2>5. Cardinality(Getting(pc)) \in Nat
        BY GettingIsFinite
    <2>6. Waiting(pc) # {} => Len(queue) <= Cardinality(Getting(pc))
        BY DEF NoSleeperIsNeeded, Getting
    <2>7. Waiting(pc') # {} => Len(queue') <= Cardinality(Getting(pc'))
        <3> HIDE DEF IInv, TypeOK, Take
        <3> QED BY <2>2, <2>3, <2>4, <2>5, <2>6
    <2> QED BY <2>7 DEF NoSleeperIsNeeded, Getting, Waiting
<1> QED BY <1>1, <1>2, <1>3, <1>4, <1>5

\* A worker that falls asleep, or leaves, has seen the queue empty.
LEMMA IdleStep ==
    ASSUME IInv, NEW w \in Workers, Wait(w) \/ Exit(w) PROVE IInv'
<1> USE DEF IInv, TypeOK, Wait, Exit, queueVars
<1>1. TypeOK'
    BY DEF QueueTypeOK, Phases
<1>2. QueueConsistent'
    BY DEF QueueConsistent, InQueue
<1>3. HeldIsProcessing'
    BY DEF HeldIsProcessing, SingleFlight
<1>4. RetryIsPending'
    BY DEF RetryIsPending
<1>5. NoSleeperIsNeeded'
    <2>1. Len(queue') = 0
        OBVIOUS
    <2>2. Cardinality(Getting(pc')) \in Nat
        BY GettingIsFinite
    <2> QED BY <2>1, <2>2 DEF NoSleeperIsNeeded, Getting
<1> QED BY <1>1, <1>2, <1>3, <1>4, <1>5

LEMMA RetryStep ==
    ASSUME IInv, NEW w \in Workers, Retry(w) PROVE IInv'
<1> USE DEF IInv, TypeOK, Retry, AddRateLimited, AddAfter, AddAfterEffect
<1>1. held[w] \in Keys
    OBVIOUS
<1>2. TypeOK'
    BY <1>1 DEF QueueTypeOK, Phases
<1>3. QueueConsistent'
    BY DEF QueueConsistent, InQueue
<1>4. HeldIsProcessing'
    BY DEF HeldIsProcessing, SingleFlight
<1>5. RetryIsPending'
    BY <1>1 DEF RetryIsPending, QueueTypeOK
<1>6. NoSleeperIsNeeded'
    <2>1. Waiting(pc') = Waiting(pc) /\ Getting(pc') = Getting(pc)
        BY DEF Waiting, Getting
    <2> QED BY <2>1 DEF NoSleeperIsNeeded, Getting
<1> QED BY <1>2, <1>3, <1>4, <1>5, <1>6

LEMMA SettleStep ==
    ASSUME IInv, NEW w \in Workers, Settle(w) PROVE IInv'
<1> USE DEF IInv, TypeOK, Settle, Forget, queueVars
<1>1. held[w] \in Keys
    OBVIOUS
<1>2. TypeOK'
    BY <1>1 DEF QueueTypeOK, Phases
<1>3. QueueConsistent'
    BY DEF QueueConsistent, InQueue
<1>4. HeldIsProcessing'
    BY DEF HeldIsProcessing, SingleFlight
<1>5. RetryIsPending'
    BY <1>1 DEF RetryIsPending, QueueTypeOK
<1>6. NoSleeperIsNeeded'
    <2>1. Waiting(pc') = Waiting(pc) /\ Getting(pc') = Getting(pc)
        BY DEF Waiting, Getting
    <2> QED BY <2>1 DEF NoSleeperIsNeeded, Getting
<1> QED BY <1>2, <1>3, <1>4, <1>5, <1>6

LEMMA ReleaseStep ==
    ASSUME IInv, NEW w \in Workers, Release(w) PROVE IInv'
<1> DEFINE free == [pc EXCEPT ![w] = "get"]
<1> USE DEF IInv, TypeOK, Release
<1>1. held[w] \in Keys /\ held[w] \in processing /\ pc[w] = "settled"
    BY DEF HeldIsProcessing
<1>2. free \in [Workers -> Phases] /\ pc' \in Appended(free) /\ free[w] = "get"
    BY DEF Phases
<1>3. /\ pc' \in [Workers -> Phases]
      /\ \A v \in Workers : pc'[v] = free[v] \/ (free[v] = "wait" /\ pc'[v] = "get")
      /\ Waiting(pc') \subseteq Waiting(free)
      /\ Getting(free) \subseteq Getting(pc')
    BY <1>2, AppendedWakesOne
<1>4. QueueTypeOK'
    BY <1>1 DEF QueueTypeOK, Done, DoneEffect
<1>5. TypeOK'
    BY <1>1, <1>2, <1>3, <1>4, NoKeyAssumption
<1>6. QueueConsistent'
    BY <1>1, DoneKeepsConsistency DEF Done
<1>7. HeldIsProcessing'
    BY <1>1, NoKeyAssumption DEF HeldIsProcessing, SingleFlight, Done, DoneEffect
<1>8. RetryIsPending'
    BY <1>1, <1>3 DEF RetryIsPending, Done, DoneEffect
<1>9. NoSleeperIsNeeded'
    <2> SUFFICES ASSUME Waiting(pc') # {} PROVE Len(queue') <= Cardinality(Getting(pc'))
        BY DEF NoSleeperIsNeeded, Getting, Waiting
    <2>1. Waiting(pc) # {} /\ queue \in Seq(Keys)
        BY <1>1, <1>3 DEF Waiting, QueueTypeOK
    <2>2. Len(queue) <= Cardinality(Getting(pc)) /\ Len(queue) \in Nat
        BY <2>1 DEF NoSleeperIsNeeded, Getting
    <2>3. Len(queue') <= Len(queue) + 1 /\ Len(queue') \in Nat
        BY <1>1, <2>1 DEF Done, DoneEffect
    <2>4. Cardinality(Getting(free)) = Cardinality(Getting(pc)) + 1
        BY <1>1, OneMoreGetting
    <2>5. Cardinality(Getting(free)) <= Cardinality(Getting(pc'))
        BY <1>3, GettingIsFinite, FS_Subset
    <2> QED BY <2>2, <2>3, <2>4, <2>5, GettingIsFinite
<1> QED BY <1>5, <1>6, <1>7, <1>8, <1>9

\* Broadcast leaves no sleeper.
LEMMA StopStep ==
    ASSUME IInv, Stop PROVE IInv'
<1> USE DEF IInv, TypeOK, Stop, ShutDown
<1>1. /\ pc' \in [Workers -> Phases]
      /\ \A w \in Workers : pc'[w] = IF pc[w] = "wait" THEN "get" ELSE pc[w]
    BY DEF Broadcast, Phases
<1>2. TypeOK'
    BY <1>1 DEF QueueTypeOK
<1>3. QueueConsistent'
    BY DEF QueueConsistent, InQueue
<1>4. HeldIsProcessing' /\ RetryIsPending'
    BY DEF HeldIsProcessing, SingleFlight, RetryIsPending
<1>5. NoSleeperIsNeeded'
    BY <1>1 DEF NoSleeperIsNeeded, Waiting
<1> QED BY <1>2, <1>3, <1>4, <1>5

LEMMA IndInvNext == IInv /\ [Next]_vars => IInv'
<1> SUFFICES ASSUME IInv, [Next]_vars PROVE IInv'
    OBVIOUS
<1>1. CASE UNCHANGED vars
    BY <1>1 DEF IInv, TypeOK, QueueTypeOK, QueueConsistent, InQueue, HeldIsProcessing,
                SingleFlight, RetryIsPending, NoSleeperIsNeeded, Waiting, vars, queueVars
<1>2. CASE Next
    BY <1>2, EnqueueStep, RetryDueStep, TakeStep, IdleStep, RetryStep, SettleStep,
       ReleaseStep, StopStep DEF Next, WorkerStep
<1> QED BY <1>1, <1>2

LEMMA Invariance == Spec => []IInv
BY IndInvInit, IndInvNext, PTL DEF Spec

\* A retry that is pending keeps its key from being forgotten.
LEMMA PendingIsNotForgotten == IInv => NoForgottenRetry
BY DEF IInv, HeldIsProcessing, RetryIsPending, NoForgottenRetry, TypeOK, QueueTypeOK

-----------------------------------------------------------------------------
(* The theorems *)

\* TypeOK: queue and rate limiter hold keys and nothing else, and a worker has one
\* from Get to the deferred Done, whichever way it returns.
THEOREM TypeCorrect == Spec => []TypeOK
BY Invariance, PTL DEF IInv

\* QueueConsistent: queue, dirty and processing of queue.go never disagree,
\* whatever is added, delayed, failed and done in between.
THEOREM QueueStaysConsistent == Spec => []QueueConsistent
BY Invariance, PTL DEF IInv

\* SingleFlight: no two of the workers that Run starts ever reconcile the same
\* key, for any number of them.
THEOREM OneWorkerPerKey == Spec => []SingleFlight
<1>1. IInv => SingleFlight
    BY DEF IInv, HeldIsProcessing
<1> QED BY <1>1, Invariance, PTL

\* NoForgottenRetry: a key that handleErr has retried is never left to itself
\* before it is forgotten or the queue is shut down.
THEOREM RetriesAreKept == Spec => []NoForgottenRetry
BY Invariance, PendingIsNotForgotten, PTL

\* NoSleeperIsNeeded: the Signal of Add and Done and the loop around Wait in Get
\* lose no wake-up, for any number of workers.
THEOREM SleepersAreNotNeeded == Spec => []NoSleeperIsNeeded
BY Invariance, PTL DEF IInv

-----------------------------------------------------------------------------
(* The refinement of PendingWork *)

\* Every step is a request, a start, a finish or invisible there.
LEMMA StepRefines ==
    ASSUME IInv, [Next]_vars PROVE [Scheduling!Next]_(Scheduling!vars)
<1> USE DEF Scheduling!Next, Scheduling!vars
<1>1. ASSUME NEW k \in Keys, Enqueued(k), UNCHANGED held
      PROVE  Scheduling!Request(k) \/ UNCHANGED <<dirty, held>>
    BY <1>1 DEF Enqueued, Scheduling!Request
<1>2. ASSUME NEW k \in Keys, Enqueue(k) PROVE [Scheduling!Next]_(Scheduling!vars)
    BY <1>1, <1>2 DEF Enqueue, Add
<1>3. ASSUME NEW k \in Keys, RetryDue(k) PROVE [Scheduling!Next]_(Scheduling!vars)
    BY <1>1, <1>3 DEF RetryDue, AddReady
<1>4. ASSUME NEW w \in Workers, NEW k \in Keys, Take(w, k) PROVE Scheduling!Start(w, k)
    <2>1. k \in dirty /\ k \notin processing
        BY <1>4, GetKeepsConsistency DEF IInv, TypeOK, Take
    <2>2. held[w] = NoKey /\ \A v \in Workers : held[v] # k
        BY <1>4, <2>1, NoKeyAssumption DEF IInv, TypeOK, QueueTypeOK, HeldIsProcessing, Take
    <2> QED BY <1>4, <2>1, <2>2 DEF Take, Get, Scheduling!Start
<1>5. ASSUME NEW w \in Workers, Release(w) PROVE Scheduling!Finish(w)
    BY <1>5 DEF IInv, TypeOK, HeldIsProcessing, Release, Done, DoneEffect, Scheduling!Finish
<1>6. ASSUME NEW w \in Workers, Wait(w) \/ Exit(w) \/ Retry(w) \/ Settle(w)
      PROVE  UNCHANGED <<dirty, held>>
    BY <1>6 DEF Wait, Exit, Retry, Settle, queueVars, AddRateLimited, AddAfter, Forget
<1>7. CASE Stop \/ UNCHANGED vars
    BY <1>7 DEF Stop, ShutDown, vars, queueVars
<1> QED BY <1>2, <1>3, <1>4, <1>5, <1>6, <1>7 DEF Next, WorkerStep

\* ImplementsPendingWork: Add, Get and Done implement PendingWork; dirty keys are the
\* pending ones and what the workers hold is what they are active on.
THEOREM Refinement == Spec => ImplementsPendingWork
<1>1. Init => Scheduling!Init
    BY DEF Init, QueueInit, Scheduling!Init
<1>2. IInv /\ [Next]_vars => [Scheduling!Next]_(Scheduling!vars)
    BY StepRefines
<1> QED BY <1>1, <1>2, Invariance, PTL DEF Spec, ImplementsPendingWork, Scheduling!Spec

-----------------------------------------------------------------------------
(* The process *)

\* Once the process has informers they are one and the same: the one that the
\* factory keeps, that runs, that the lister reads and that has the handlers.
OneInformer ==
    /\ stage \in {"clients", "factories", "informers"} => factory = 0
    /\ stage \in {"construct", "config", "list", "sync", "run"} => factory = 1
    /\ factory \in {0, 1}
    /\ registered = factory
    /\ stage = "construct" => lister = 0
    /\ stage = "run" => lister = 1
    /\ lister \in {0, factory}
    /\ handled = lister

\* Whatever has been announced, and not been forgotten, is in its indexer.
AnnouncedIsStored ==
    dirty \cup processing \cup waiting \cup unnotified \subseteq store[1]

\* Workers begin only in Run, and then there is a lister.
WorkOnlyInRun ==
    /\ stage \notin {"run", "exited"} => \A w \in Workers : pc[w] = "get"
    /\ \A w \in Workers : pc[w] # "get" => lister = 1

ProcessInv == IInv /\ ProcessTypeOK /\ OneInformer /\ AnnouncedIsStored /\ WorkOnlyInRun

-----------------------------------------------------------------------------
(* The scheduling of the process *)

\* Every step of the process takes a step of ControllerImpl or leaves it alone.
LEMMA ProcessStep ==
    ASSUME [ProcessNext]_processVars PROVE [Next]_vars
<1>1. CASE Startup \/ NewForConfigOrDie \/ Fail \/ Return \/ UNCHANGED processVars
    BY <1>1 DEF Startup, SetupInformers, withClient, withInformerFactory, withInformer,
                NewForConfigOrDie, NewController, StartInformers, List, StartAll, Fail,
                Return, processVars
<1>2. CASE Terminate
    BY <1>2 DEF Terminate, Next
<1>3. ASSUME NEW k \in Keys,
             Create(k) \/ HandleDeltas(k) \/ Notify(k) \/ NotifyAgain(k) \/ Wake(k)
      PROVE  [Next]_vars
    BY <1>3 DEF Create, HandleDeltas, Notify, NotifyAgain, Wake, Next
<1>4. ASSUME NEW w \in Workers, Work(w) PROVE [Next]_vars
    BY <1>4 DEF Work, Next
<1>5. ASSUME NEW w \in Workers, Panic(w) PROVE [Next]_vars
    BY <1>5 DEF Panic
<1> QED BY <1>1, <1>2, <1>3, <1>4, <1>5 DEF ProcessNext

LEMMA ProcessRefines == ProcessSpec => Spec
<1>1. ProcessInit => Init
    BY DEF ProcessInit
<1> QED BY <1>1, ProcessStep, PTL DEF ProcessSpec, Spec

\* SingleFlight, QueueConsistent, NoForgottenRetry and NoSleeperIsNeeded of the
\* whole process: that keys are enqueued, or retries due, before there are workers
\* changes nothing.
THEOREM ProcessKeepsScheduling ==
    ProcessSpec => [](/\ SingleFlight
                      /\ QueueConsistent
                      /\ NoForgottenRetry
                      /\ NoSleeperIsNeeded)
BY ProcessRefines, OneWorkerPerKey, QueueStaysConsistent, RetriesAreKept,
   SleepersAreNotNeeded, PTL

-----------------------------------------------------------------------------
(* The reconciler finds what it is called for *)

LEMMA ProcessInvInit == ProcessInit => ProcessInv
<1> SUFFICES ASSUME ProcessInit PROVE ProcessInv
    OBVIOUS
<1>1. IInv
    BY IndInvInit DEF ProcessInit
<1>2. ProcessTypeOK
    BY <1>1 DEF IInv, ProcessTypeOK, ProcessInit, Stages, Informers
<1>3. OneInformer /\ AnnouncedIsStored /\ WorkOnlyInRun
    BY DEF ProcessInit, Init, QueueInit, OneInformer, AnnouncedIsStored, WorkOnlyInRun, Informers
<1> QED BY <1>1, <1>2, <1>3 DEF ProcessInv

\* The steps that leave queue and workers alone.
LEMMA StartupStep ==
    ASSUME ProcessInv, IInv', UNCHANGED vars,
           \/ Startup \/ NewForConfigOrDie \/ Fail \/ Return
           \/ \E w \in Workers : Panic(w)
    PROVE  ProcessInv'
<1> USE DEF ProcessInv, OneInformer, Startup, SetupInformers, withClient, withInformerFactory,
        withInformer, NewSharedInformerFactory, NewForConfigOrDie, NewController, StartInformers,
        List, StartAll, Fail, Return, Panic, wiring, caches, vars, queueVars, InformerFor, Lister
<1>1. ProcessTypeOK'
    BY DEF ProcessTypeOK, IInv, Stages, Informers
<1>2. OneInformer'
    BY DEF ProcessTypeOK, Stages
<1>3. AnnouncedIsStored'
    BY DEF AnnouncedIsStored
<1>4. WorkOnlyInRun'
    BY DEF WorkOnlyInRun
<1> QED BY <1>1, <1>2, <1>3, <1>4

\* The steps of users, of the informer and of its listener.
LEMMA InformerStep ==
    ASSUME ProcessInv, IInv', NEW k \in Keys,
           Create(k) \/ HandleDeltas(k) \/ Notify(k) \/ NotifyAgain(k)
    PROVE  ProcessInv'
<1> USE DEF ProcessInv, Create, HandleDeltas, Notify, NotifyAgain, wiring, caches, vars, queueVars
<1>1. store \in [Informers -> SUBSET Keys] /\ 1 \in Informers
    BY DEF ProcessTypeOK, Informers
<1>2. ProcessTypeOK'
    BY DEF ProcessTypeOK, IInv
<1>3. OneInformer'
    BY DEF OneInformer
<1>5. WorkOnlyInRun'
    <2>1. CASE Create(k) \/ HandleDeltas(k)
        BY <2>1 DEF WorkOnlyInRun
    <2>2. CASE Notify(k) \/ NotifyAgain(k)
        <3>1. \A w \in Workers : pc'[w] = pc[w] \/ pc'[w] = "get"
            BY <2>2, AppendedWakesOne DEF Enqueue, IInv, TypeOK
        <3> QED BY <2>2, <3>1 DEF WorkOnlyInRun
    <2> QED BY <2>1, <2>2
<1>4. AnnouncedIsStored'
    <2>1. CASE Create(k) \/ HandleDeltas(k)
        BY <1>1, <2>1 DEF AnnouncedIsStored, OneInformer
    <2>2. CASE Notify(k) \/ NotifyAgain(k)
        <3>1. k \in store[1]
            BY <2>2 DEF AnnouncedIsStored, OneInformer
        <3>2. dirty' \subseteq dirty \cup {k}
            BY <2>2, EnqueuedKeepsTypes DEF Enqueue, Add, IInv, TypeOK
        <3> QED BY <2>2, <3>1, <3>2 DEF AnnouncedIsStored, Enqueue, Add
    <2> QED BY <2>1, <2>2
<1> QED BY <1>2, <1>3, <1>4, <1>5

\* The steps of workers and queue pass on the keys they have.
LEMMA QueueStep ==
    ASSUME ProcessInv, IInv', UNCHANGED <<stage, wiring, caches>>,
           \/ stage = "run" /\ Stop
           \/ \E k \in Keys : RetryDue(k)
           \/ \E w \in Workers : stage = "run" /\ WorkerStep(w)
    PROVE  ProcessInv'
<1> USE DEF ProcessInv, wiring, caches
<1>1. ProcessTypeOK' /\ OneInformer'
    BY DEF ProcessTypeOK, IInv, OneInformer
<1>2. WorkOnlyInRun'
    <2>1. CASE stage = "run"
        BY <2>1 DEF WorkOnlyInRun, OneInformer
    <2>2. ASSUME NEW k \in Keys, RetryDue(k) PROVE WorkOnlyInRun'
        <3>1. \A w \in Workers : pc'[w] = pc[w] \/ pc'[w] = "get"
            BY <2>2, AppendedWakesOne DEF RetryDue, IInv, TypeOK
        <3> QED BY <3>1 DEF WorkOnlyInRun
    <2> QED BY <2>1, <2>2
<1>3. (dirty \cup processing \cup waiting)' \subseteq dirty \cup processing \cup waiting
    <2>1. CASE Stop
        BY <2>1 DEF Stop, ShutDown
    <2>2. ASSUME NEW k \in Keys, RetryDue(k)
          PROVE  (dirty \cup processing \cup waiting)'
                    \subseteq dirty \cup processing \cup waiting
        BY <2>2, EnqueuedKeepsTypes DEF RetryDue, AddReady, IInv, TypeOK
    <2>3. ASSUME NEW w \in Workers, NEW k \in Keys, Take(w, k)
          PROVE  (dirty \cup processing \cup waiting)'
                    \subseteq dirty \cup processing \cup waiting
        <3>1. k \in dirty
            BY <2>3, GetKeepsConsistency DEF Take, IInv, TypeOK
        <3> QED BY <2>3, <3>1 DEF Take, Get
    <2>4. ASSUME NEW w \in Workers, Wait(w) \/ Exit(w) \/ Retry(w) \/ Settle(w) \/ Release(w)
          PROVE  (dirty \cup processing \cup waiting)'
                    \subseteq dirty \cup processing \cup waiting
        <3>1. Retry(w) => held[w] \in processing
            BY DEF IInv, TypeOK, HeldIsProcessing, Retry
        <3> QED BY <2>4, <3>1 DEF Wait, Exit, Retry, Settle, Release, queueVars, AddRateLimited,
                   AddAfter, AddAfterEffect, Forget, Done, DoneEffect
    <2> QED BY <2>1, <2>2, <2>3, <2>4 DEF WorkerStep
<1>4. AnnouncedIsStored'
    BY <1>3 DEF AnnouncedIsStored
<1> QED BY <1>1, <1>2, <1>4

LEMMA ProcessInvNext == ProcessInv /\ [ProcessNext]_processVars => ProcessInv'
<1> SUFFICES ASSUME ProcessInv, [ProcessNext]_processVars PROVE ProcessInv'
    OBVIOUS
<1>1. IInv'
    BY ProcessStep, IndInvNext DEF ProcessInv
<1>2. CASE Startup \/ NewForConfigOrDie \/ Fail \/ Return
    <2>1. UNCHANGED vars
        BY <1>2 DEF Startup, SetupInformers, withClient, withInformerFactory, withInformer,
                    NewForConfigOrDie, NewController, StartInformers, List, StartAll, Fail,
                    Return
    <2> QED BY <1>1, <1>2, <2>1, StartupStep
<1>3. ASSUME NEW k \in Keys, Create(k) \/ HandleDeltas(k) \/ Notify(k) \/ NotifyAgain(k)
      PROVE  ProcessInv'
    BY <1>1, <1>3, InformerStep
<1>4. ASSUME NEW k \in Keys, Wake(k) PROVE ProcessInv'
    BY <1>1, <1>4, QueueStep DEF Wake
<1>5. ASSUME NEW w \in Workers, Work(w) PROVE ProcessInv'
    BY <1>1, <1>5, QueueStep DEF Work
<1>6. CASE Terminate
    BY <1>1, <1>6, QueueStep DEF Terminate
<1>8. ASSUME NEW w \in Workers, Panic(w) PROVE ProcessInv'
    BY <1>1, <1>8, StartupStep DEF Panic
<1>7. CASE UNCHANGED processVars
    BY <1>1, <1>7 DEF ProcessInv, ProcessTypeOK, IInv, OneInformer, AnnouncedIsStored,
       WorkOnlyInRun, processVars, vars, queueVars, wiring, caches
<1> QED BY <1>2, <1>3, <1>4, <1>5, <1>6, <1>7, <1>8 DEF ProcessNext

LEMMA ProcessInvariance == ProcessSpec => []ProcessInv
BY ProcessInvInit, ProcessInvNext, PTL DEF ProcessSpec

\* ProcessTypeOK: how far main has come, the informers that it has wired and what
\* they store, for any set of sources.
THEOREM ProcessTypeCorrect == ProcessSpec => []ProcessTypeOK
BY ProcessInvariance, PTL DEF ProcessInv

\* FoundWhenReconciled: InformerFor gives registration, lister and handlers one
\* informer, and HandleDeltas stores before it notifies.
THEOREM ReconcilerFindsItsSource == ProcessSpec => []FoundWhenReconciled
<1>1. ProcessInv => FoundWhenReconciled
    BY DEF ProcessInv, IInv, TypeOK, HeldIsProcessing, AnnouncedIsStored, WorkOnlyInRun,
           FoundWhenReconciled, Found
<1> QED BY <1>1, ProcessInvariance, PTL

\* Where a source of the first list is, until Run begins: in the list, in what is
\* still to be handled or in the indexer, in which it stays.
Listed(k) ==
    \/ stage = "list" /\ k \in server
    \/ stage = "sync" /\ k \in unpopped \cup store[1]
    \/ stage \in {"run", "exited"} /\ k \in store[1]
    \/ stage = "exited" /\ \A w \in Workers : pc[w] = "get"

LEMMA ListedStep ==
    ASSUME ProcessInv, [ProcessNext]_processVars, NEW k \in Keys, Listed(k)
    PROVE  Listed(k)'
<1> USE DEF Listed, ProcessInv, wiring, caches
<1>1. CASE Startup
    BY <1>1 DEF Startup, SetupInformers, withClient, withInformerFactory, withInformer,
                NewController, StartInformers, List, StartAll
<1>2. CASE NewForConfigOrDie \/ Fail \/ Return
    BY <1>2 DEF NewForConfigOrDie, Fail, Return, WorkOnlyInRun, vars
<1>3. CASE Terminate
    BY <1>3 DEF Terminate
<1>4. ASSUME NEW l \in Keys, Create(l) \/ Notify(l) \/ NotifyAgain(l) \/ Wake(l)
      PROVE  Listed(k)'
    BY <1>4 DEF Create, Notify, NotifyAgain, Wake, vars
<1>5. ASSUME NEW l \in Keys, HandleDeltas(l) PROVE Listed(k)'
    <2>1. store \in [Informers -> SUBSET Keys] /\ registered = 1 /\ 1 \in Informers
        BY <1>5 DEF HandleDeltas, OneInformer, ProcessTypeOK, Informers
    <2>2. store'[1] = store[1] \cup {l} /\ unpopped' = unpopped \ {l} /\ stage' = stage
        BY <1>5, <2>1 DEF HandleDeltas
    <2> QED BY <1>5, <2>2 DEF HandleDeltas
<1>6. ASSUME NEW w \in Workers, Work(w) \/ Panic(w) PROVE Listed(k)'
    BY <1>6 DEF Work, Panic
<1>7. CASE UNCHANGED processVars
    BY <1>7 DEF processVars, vars
<1> QED BY <1>1, <1>2, <1>3, <1>4, <1>5, <1>6, <1>7 DEF ProcessNext

\* FirstListIsKnown: WaitForCacheSync counts the objects of the first list down
\* after each has been stored, and RunInformers returns before StartAll is called.
THEOREM FirstListIsInTheStore == ProcessSpec => FirstListIsKnown
<1> SUFFICES ASSUME NEW k \in Keys
             PROVE  ProcessSpec =>
                        [](stage = "list" /\ k \in server =>
                            [](\A w \in Workers : pc[w] = "reconcile" => Found(k)))
    BY DEF FirstListIsKnown
<1>1. stage = "list" /\ k \in server => Listed(k)
    BY DEF Listed
<1>2. ProcessInv /\ Listed(k) /\ [ProcessNext]_processVars => Listed(k)'
    BY ListedStep
<1>3. ProcessInv /\ Listed(k) => \A w \in Workers : pc[w] = "reconcile" => Found(k)
    BY DEF ProcessInv, Listed, WorkOnlyInRun, Found
<1> QED BY <1>1, <1>2, <1>3, ProcessInvariance, PTL DEF ProcessSpec
=============================================================================

--------------------- MODULE GitLabSourceReceiversProofs ---------------------
(***************************************************************************)
(* Whose hook a source has and what it calls, for any number of sources    *)
(* and workers and under all faults and edits.  If a name rests before it  *)
(* is used again, the hook that a source records is its own, and unless    *)
(* the name begins another, it calls the source's own receive adapter.     *)
(* At the end: all that happens to hooks is as HookLifecycle says.         *)
(***************************************************************************)
EXTENDS GitLabSourceHooksProofs

\* The object that was created last under the name.
Own(k) == <<k, created[k]>>

\* Nobody has a version of a predecessor.
OneUid == \A k \in Keys : \A v \in Copies(k) : v.uid = created[k]

ServicesFit == \A v \in services : v.owner = Own(v.owner[1])

HooksOwn ==
    \A k \in Keys : \A v \in Copies(k), h \in hooks :
        h.id = v.status.hookID => h.owner = Own(k)

\* A source that is there has a deployment; it has a service with an address.
Received(k) == \E d \in deployments : d.owner = Own(k)
Exposed(k) == \E v \in services : v.owner = Own(k) /\ v.ingress

\* Once FindReceiver has seen the deployment, it is there until the source is gone.
ReceiverStays ==
    \A w \in Workers : pc[w] = "webhook" /\ server[held[w]] # NoSource => Received(held[w])

\* HookReachesReceiver for all versions of a source, as any may become the stored one.
HooksReach ==
    \A k \in Keys : \A v \in Copies(k), h \in hooks :
        h.id = v.status.hookID =>
            /\ <<k, h.target[1]>> \in NamePrefixes
            /\ Unambiguous(k) =>
                /\ h.target = Own(k)
                /\ server[k] # NoSource => Received(k) /\ Exposed(k)

Reached == OneUid /\ ServicesFit /\ HooksOwn /\ ReceiverStays /\ HooksReach

RInv == HInv /\ Reached

-----------------------------------------------------------------------------
(* Versions come from versions *)

\* What is known of a source after the step was known before.
Inherits ==
    /\ UNCHANGED created
    /\ \A k \in Keys : server'[k] # NoSource => server[k] # NoSource
    /\ \A k \in Keys : \A v \in Copies(k)' :
        /\ \E u \in Copies(k) : u.uid = v.uid
        /\ v.status.hookID # NoHook => \E u \in Copies(k) : u.status.hookID = v.status.hookID

LEMMA FewerCopiesInherit ==
    ASSUME UNCHANGED <<created, server>>, \A k \in Keys : Copies(k)' \subseteq Copies(k)
    PROVE  Inherits
BY DEF Inherits

LEMMA QuietStepsInherit ==
    ASSUME UNCHANGED <<created, server, cache, watch>>, WorkersKeep
    PROVE  Inherits
<1>1. \A k \in Keys : Brought(k)' = Brought(k) /\ Snapshots(k)' \subseteq Snapshots(k)
    BY SnapshotsOfKeeping DEF Brought
<1> QED BY <1>1, FewerCopiesInherit DEF Copies

LEMMA DeliverInherits ==
    ASSUME HInv, NEW k \in Keys, Deliver(k) PROVE Inherits
<1>1. /\ watch[k] # <<>>
      /\ cache' = [cache EXCEPT ![k] = Head(watch[k])]
      /\ watch' = [watch EXCEPT ![k] = Tail(@)]
      /\ UNCHANGED <<server, created, workerVars>>
    BY DEF Deliver, apiVars
<1>2. /\ watch[k] \in Seq(VersionsUpTo(hookCount))
      /\ DOMAIN watch = Keys /\ DOMAIN cache = Keys
    BY DEF HInv, OInv, Details, ObjectsTyped
<1>3. /\ 1 \in 1..Len(watch[k]) /\ cache'[k] = watch[k][1]
      /\ watch'[k] = Tail(watch[k])
      /\ \A i \in 1..Len(Tail(watch[k])) :
            i + 1 \in 1..Len(watch[k]) /\ Tail(watch[k])[i] = watch[k][i + 1]
    BY <1>1, <1>2
<1>4. /\ Brought(k)' \subseteq Brought(k)
      /\ cache'[k] # NoSource => cache'[k] \in Brought(k)
    BY <1>3 DEF Brought
<1>5. \A l \in Keys \ {k} : Brought(l)' = Brought(l) /\ cache'[l] = cache[l]
    BY <1>1, <1>2 DEF Brought
<1>6. \A l \in Keys : Snapshots(l)' = Snapshots(l)
    BY <1>1 DEF workerVars, Snapshots, Active
<1>7. \A l \in Keys : Copies(l)' \subseteq Copies(l)
    BY <1>1, <1>4, <1>5, <1>6 DEF Copies
<1> QED BY <1>1, <1>7, FewerCopiesInherit

\* The reflector lists again, or a new process does.
LEMMA ListingInherits ==
    ASSUME UNCHANGED <<created, server>>, WorkersKeep,
           cache' = server, watch' = [k \in Keys |-> <<>>]
    PROVE  Inherits
<1>1. \A k \in Keys : Brought(k)' = {}
    <2>1. \A k \in Keys : watch'[k] = <<>>
        OBVIOUS
    <2>2. Len(<<>>) = 0 /\ 1..0 = {}
        OBVIOUS
    <2> QED BY <2>1, <2>2 DEF Brought
<1>2. \A k \in Keys : Snapshots(k)' \subseteq Snapshots(k)
    BY SnapshotsOfKeeping
<1> QED BY <1>1, <1>2, FewerCopiesInherit DEF Copies

LEMMA RelistInherits == ASSUME Relist PROVE Inherits
<1>1. WorkersKeep
    BY DEF Relist, workerVars, WorkersKeep, Active
<1> QED BY <1>1, ListingInherits DEF Relist, apiVars

LEMMA RestartInherits == ASSUME Restart PROVE Inherits
<1>1. WorkersKeep
    BY DEF Restart, WorkersKeep, Active
<1> QED BY <1>1, ListingInherits DEF Restart, apiVars

LEMMA LookupInherits ==
    ASSUME HInv, NEW w \in Workers, Lookup(w) PROVE Inherits
<1>1. UNCHANGED <<server, created, cache, watch, held>>
    BY DEF Lookup, apiVars
<1>2. pc \in [Workers -> Phases] /\ DOMAIN source = Workers
    BY DEF HInv, OInv, IInv, WorkersTyped
<1>3. \A v \in Workers : v # w => source'[v] = source[v] /\ pc'[v] = pc[v]
    BY <1>2 DEF Lookup
<1>4. source'[w] = cache[held[w]] /\ (Active(w)' => cache[held[w]] # NoSource)
    BY <1>2 DEF Lookup, Active
<1>5. ASSUME NEW k \in Keys, NEW v \in Snapshots(k)'
      PROVE  v \in Snapshots(k) \/ (v = cache[k] /\ v # NoSource)
    <2> PICK x \in Workers : v = source'[x] /\ held[x] = k /\ Active(x)'
        BY <1>1, <1>5 DEF Snapshots, Active
    <2>1. CASE x = w
        BY <1>4, <2>1
    <2>2. CASE x # w
        BY <1>3, <2>2 DEF Snapshots, Active
    <2> QED BY <2>1, <2>2
<1>6. \A k \in Keys : Brought(k)' = Brought(k)
    BY <1>1 DEF Brought
<1>7. \A k \in Keys : Copies(k)' \subseteq Copies(k)
    BY <1>1, <1>5, <1>6 DEF Copies
<1> QED BY <1>1, <1>7, FewerCopiesInherit

\* A worker's request leaves the source of its copy as it is, and its hook or none.
LEMMA RequestInherits ==
    ASSUME HInv, NEW w \in Workers, Active(w), ServerFrame, UNCHANGED created,
           NEW s, SameObject(s, source[w]),
           KeepsTheHook(w, s) \/ s.status.hookID = NoHook,
           \/ \E err \in BOOLEAN : Return(w, s, err)
           \/ \E phase \in Phases : Continue(w, s, phase)
    PROVE  Inherits
<1>1. PICK phase \in Phases : Advances(w, s, phase)
    BY ReturnAdvances, ContinueAdvances DEF Phases
<1>2. ASSUME NEW k \in Keys, NEW v \in Copies(k)'
      PROVE  /\ \E u \in Copies(k) : u.uid = v.uid
             /\ v.status.hookID # NoHook =>
                    \E u \in Copies(k) : u.status.hookID = v.status.hookID
    <2>1. v \in Copies(k) \/ (k = held[w] /\ v = s /\ source[w] \in Copies(k))
        BY <1>1, <1>2, CopiesOfAdvance
    <2> QED BY <2>1 DEF SameObject, KeepsTheHook
<1> QED BY <1>2 DEF Inherits, ServerFrame

LEMMA ServingStepInherits ==
    ASSUME HInv, NEW w \in Workers, ServingStep(w) PROVE Inherits
<1>1. Active(w) /\ ServerFrame /\ UNCHANGED created
    BY ServingStepGoesOn, ServesObject
<1>2. PICK s : /\ SameObject(s, source[w])
               /\ KeepsTheHook(w, s)
               /\ \/ \E err \in BOOLEAN : Return(w, s, err)
                  \/ \E phase \in ServingPhases : Continue(w, s, phase)
    BY ServingStepGoesOn
<1>3. \/ \E err \in BOOLEAN : Return(w, s, err)
      \/ \E phase \in Phases : Continue(w, s, phase)
    BY <1>2 DEF ServingPhases, Phases
<1> QED BY <1>1, <1>2, <1>3, RequestInherits

LEMMA FinalizingInherits ==
    ASSUME HInv, NEW w \in Workers, Finalize(w) \/ DeleteWebhook(w) PROVE Inherits
<1> DEFINE s == removeFinalizer(source[w])
           missing == WithConditions(s, Conds!MarkFalse(s.status.conds, "SecretsProvided"))
           cleared == WithHook(source[w], NoHook)
<1>1. pc[w] \in FinalizingPhases
    BY DEF Finalize, DeleteWebhook, FinalizingPhases
<1>2. Active(w) /\ source[w] \in ObjectsUpTo(hookCount) /\ hookCount \in Nat
    BY <1>1, ServesObject
<1>3. s \in ObjectsUpTo(hookCount)
    BY <1>2, FinalizersSet
<1>4. SameObject(s, source[w]) /\ s.status.hookID = source[w].status.hookID
    BY <1>2, CopiesChange
<1>5. SameObject(cleared, source[w]) /\ cleared.status.hookID = NoHook
    BY <1>2, CopiesChange
<1>6. \/ Return(w, s, FALSE) \/ Continue(w, s, "deleteWebhook") \/ Return(w, missing, TRUE)
      \/ Return(w, source[w], TRUE) \/ Return(w, cleared, FALSE)
    BY DEF Finalize, DeleteWebhook
<1>7. ServerFrame /\ UNCHANGED created
    BY DEF Finalize, DeleteWebhook, apiVars, informerVars, ServerFrame
<1> HIDE DEF s, cleared
<1>8. SameObject(missing, s) /\ missing.status.hookID = s.status.hookID
    BY <1>2, <1>3, CopiesChange
<1> HIDE DEF missing
<1>9. \A o \in {s, missing, cleared, source[w]} :
        SameObject(o, source[w]) /\ (KeepsTheHook(w, o) \/ o.status.hookID = NoHook)
    BY <1>4, <1>5, <1>8 DEF SameObject, KeepsTheHook
<1>10. \E o \in {s, missing, cleared, source[w]} :
        \/ \E err \in BOOLEAN : Return(w, o, err)
        \/ \E phase \in Phases : Continue(w, o, phase)
    BY <1>6 DEF Phases
<1> QED BY <1>2, <1>7, <1>9, <1>10, RequestInherits

\* A write puts a version of the object in place of the stored one, with the hook of
\* some copy; the cache's object may have been given that hook before.
LEMMA WriteInherits ==
    ASSUME HInv, NEW k \in Keys, NEW object \in ObjectsUpTo(hookCount), Store(k, object),
           server[k] # NoSource, UNCHANGED created,
           CacheChanges, WorkersKeep,
           object.uid = server[k].uid,
           \E u \in Copies(k) : u.status.hookID = object.status.hookID,
           \A l \in Keys : cache'[l] # NoSource =>
                \E u \in Copies(l) : u.status.hookID = cache'[l].status.hookID
    PROVE  Inherits
<1>1. OInv
    BY DEF HInv
<1>2. ASSUME NEW l \in Keys, server'[l] # NoSource PROVE server[l] # NoSource
    BY <1>1, <1>2, StoreParts
<1>3. ASSUME NEW l \in Keys, NEW v \in Copies(l)'
      PROVE  /\ \E u \in Copies(l) : u.uid = v.uid
             /\ v.status.hookID # NoHook =>
                    \E u \in Copies(l) : u.status.hookID = v.status.hookID
    <2>1. \/ \E u \in Copies(l) : SameObject(v, u) /\ (v = u \/ v = cache'[l])
          \/ l = k /\ v = Stored(k, object) /\ v # NoSource
        BY <1>3, CopiesOfStore
    <2>2. CASE l = k /\ v = Stored(k, object) /\ v # NoSource
        <3>1. v.uid = object.uid /\ v.status = object.status
            BY <1>1, <2>2, StoreParts
        <3>2. server[k] \in Copies(k)
            BY DEF Copies
        <3> QED BY <2>2, <3>1, <3>2
    <2>3. ASSUME NEW u \in Copies(l), SameObject(v, u), v = u \/ v = cache'[l]
          PROVE  /\ u.uid = v.uid
                 /\ \E t \in Copies(l) : t.status.hookID = v.status.hookID
        <3>1. CASE v = u
            BY <3>1
        <3>2. CASE v = cache'[l]
            <4>1. v # NoSource
                <5>1. Snapshots(l)' \subseteq Copies(l)
                    BY SnapshotsOfKeeping DEF Copies
                <5>2. NoSource \notin Copies(l)
                    BY <1>1, CopiesAreObjects, NoSourceIsNoObject
                <5> QED BY <1>3, <5>1, <5>2 DEF Copies, Brought
            <4> QED BY <2>3, <3>2, <4>1 DEF SameObject
        <3> QED BY <2>3, <3>1, <3>2
    <2> QED BY <2>1, <2>2, <2>3
<1> QED BY <1>2, <1>3 DEF Inherits

\* The cache's object was changed in place, and nothing was stored.
LEMMA CacheChangeInherits ==
    ASSUME HInv, UNCHANGED <<created, server, watch>>, CacheChanges, WorkersKeep,
           \A l \in Keys : cache'[l] # NoSource =>
                \E u \in Copies(l) : u.status.hookID = cache'[l].status.hookID
    PROVE  Inherits
<1>1. ASSUME NEW l \in Keys, NEW v \in Copies(l)'
      PROVE  /\ \E u \in Copies(l) : u.uid = v.uid
             /\ \E u \in Copies(l) : u.status.hookID = v.status.hookID
    <2>1. Brought(l)' = Brought(l) /\ Snapshots(l)' \subseteq Snapshots(l)
        BY SnapshotsOfKeeping DEF Brought
    <2>2. v \in Copies(l) \/ (v = cache'[l] /\ v # NoSource)
        BY <1>1, <2>1 DEF Copies
    <2>3. CASE v = cache'[l] /\ v # NoSource
        <3>1. cache[l] # NoSource /\ cache[l].uid = v.uid
            BY <2>3 DEF CacheChanges, SameObject
        <3>2. cache[l] \in Copies(l)
            BY <3>1 DEF Copies
        <3> QED BY <2>3, <3>1, <3>2
    <2> QED BY <2>2, <2>3
<1> QED BY <1>1 DEF Inherits

LEMMA UpdateStatusInherits ==
    ASSUME HInv, NEW w \in Workers, UpdateStatus(w) PROVE Inherits
<1>1. /\ held[w] \in Keys /\ source[w] \in Copies(held[w])
      /\ WorkersKeep /\ CacheChanges /\ UNCHANGED created
    BY UpdateStatusOutcomes
<1>2. ASSUME NEW l \in Keys, cache'[l] # NoSource
      PROVE  \E u \in Copies(l) : u.status.hookID = cache'[l].status.hookID
    <2>1. CASE cache'[l] = cache[l]
        BY <1>2, <2>1 DEF Copies
    <2>2. CASE cache'[l] # cache[l]
        BY <1>1, <2>2, UpdateStatusOutcomes
    <2> QED BY <2>1, <2>2
<1>3. CASE UNCHANGED <<server, watch>>
    BY <1>1, <1>2, <1>3, CacheChangeInherits
<1>4. ASSUME NEW sent, NEW object \in ObjectsUpTo(hookCount), StoresStatus(w, sent, object)
      PROVE  Inherits
    BY <1>1, <1>2, <1>4, WriteInherits DEF StoresStatus
<1> QED BY <1>3, <1>4, UpdateStatusOutcomes

LEMMA UpdateFinalizersInherits ==
    ASSUME HInv, NEW w \in Workers, UpdateFinalizers(w) PROVE Inherits
<1>1. /\ held[w] \in Keys /\ WorkersKeep /\ UNCHANGED created
      /\ CacheChanges /\ CacheKeepsHooks
    BY UpdateFinalizersOutcomes
<1>2. ASSUME NEW l \in Keys, cache'[l] # NoSource
      PROVE  \E u \in Copies(l) : u.status.hookID = cache'[l].status.hookID
    BY <1>1, <1>2 DEF CacheChanges, CacheKeepsHooks, Copies
<1>3. CASE UNCHANGED <<server, watch>>
    BY <1>1, <1>2, <1>3, CacheChangeInherits
<1>4. ASSUME NEW object \in ObjectsUpTo(hookCount), StoresFinalizers(w, object)
      PROVE  Inherits
    <2>1. server[held[w]] \in Copies(held[w])
        BY <1>4 DEF StoresFinalizers, Copies
    <2> QED BY <1>1, <1>2, <1>4, <2>1, WriteInherits DEF StoresFinalizers
<1> QED BY <1>3, <1>4, UpdateFinalizersOutcomes

LEMMA UserWriteInherits ==
    ASSUME HInv, NEW k \in Keys, DeleteSource(k) \/ EditSource(k) \/ RemoveForeign(k)
    PROVE  Inherits
<1>1. PICK object \in ObjectsUpTo(hookCount) : UserWrites(k, object)
    BY UserWritesAre
<1>2. UNCHANGED <<created, cache, workerVars>>
    BY DEF DeleteSource, EditSource, RemoveForeign, clusterFrame
<1>3. CacheChanges /\ WorkersKeep
    BY <1>2 DEF CacheChanges, WorkersKeep, Active, workerVars
<1>4. \A l \in Keys : cache'[l] # NoSource =>
        \E u \in Copies(l) : u.status.hookID = cache'[l].status.hookID
    BY <1>2 DEF Copies
<1>5. server[k] # NoSource /\ server[k] \in Copies(k)
    BY <1>1 DEF UserWrites, Copies
<1> QED BY <1>1, <1>2, <1>3, <1>4, <1>5, WriteInherits DEF UserWrites

\* All steps but those that create a source or a hook.
LEMMA StepInherits ==
    ASSUME HInv, [Next]_vars, \A k \in Keys : ~CreateSource(k),
           \A w \in Workers : ~CreateWebhook(w)
    PROVE  Inherits
<1>1. ASSUME NEW k \in Keys, InformerStep(k) \/ Resync(k) PROVE Inherits
    <2>1. CASE Notify(k) \/ RetryDue(k) \/ Resync(k)
        <3>1. UNCHANGED <<created, server, cache, watch, workerVars>>
            BY <2>1 DEF Notify, RetryDue, Resync, apiVars, informerVars
        <3>2. WorkersKeep
            BY <3>1 DEF WorkersKeep, Active, workerVars
        <3> QED BY <3>1, <3>2, QuietStepsInherit
    <2> QED BY <1>1, <2>1, DeliverInherits DEF InformerStep
<1>2. ASSUME NEW w \in Workers, Take(w) \/ Finish(w) PROVE Inherits
    <2>1. UNCHANGED <<created, server, cache, watch>>
        BY <1>2 DEF Take, Finish, apiVars, informerVars
    <2>2. pc \in [Workers -> Phases] /\ DOMAIN held = Workers /\ DOMAIN source = Workers
          /\ DOMAIN original = Workers
        BY DEF HInv, OInv, IInv, WorkersTyped, Details, WorkersHold
    <2>3. pc'[w] \in {"get", "lookup"}
        BY <1>2, <2>2 DEF Take, Finish
    <2>4. \A v \in Workers \ {w} : UNCHANGED <<pc[v], held[v], original[v], source[v]>>
        BY <1>2, <2>2 DEF Take, Finish
    <2>5. WorkersKeep
        BY <2>3, <2>4 DEF WorkersKeep, Active
    <2> QED BY <2>1, <2>5, QuietStepsInherit
<1>3. ASSUME NEW w \in Workers, ReconcileStep(w) PROVE Inherits
    <2>1. CASE PanicWithoutIngress(w) \/ PanicOnPathlessProject(w)
        BY <2>1, PanicsRestart, RestartInherits
    <2> QED BY <1>2, <1>3, <2>1, LookupInherits, ServingStepInherits, FinalizingInherits,
               UpdateStatusInherits, UpdateFinalizersInherits
            DEF ReconcileStep, ServingStep
<1>4. ASSUME NEW k \in Keys, DeleteSource(k) \/ EditSource(k) \/ RemoveForeign(k)
      PROVE  Inherits
    BY <1>4, UserWriteInherits
<1>5. CASE Relist \/ Crash
    BY <1>5, RelistInherits, RestartInherits DEF Crash
<1>6. CASE \/ EditEnvironment
           \/ \E v \in services : ProvisionIngress(v)
           \/ \E owner \in Owners : CollectGarbage(owner)
           \/ UNCHANGED vars
    <2>1. UNCHANGED <<created, server, cache, watch, workerVars>>
        BY <1>6 DEF EditEnvironment, ProvisionIngress, CollectGarbage, clusterFrame, vars,
                    apiVars, informerVars
    <2>2. WorkersKeep
        BY <2>1 DEF WorkersKeep, Active, workerVars
    <2> QED BY <2>1, <2>2, QuietStepsInherit
<1> QED BY <1>1, <1>2, <1>3, <1>4, <1>5, <1>6 DEF Next

-----------------------------------------------------------------------------
(* Receive adapters outlast their use *)

\* Services are of the sources they were of, receivers stay while their source does,
\* and nobody gets to the webhook without one.
Standing ==
    /\ hooks' \subseteq hooks
    /\ \A v \in services' :
        \/ \E u \in services : u.owner = v.owner
        \/ v.owner[1] \in Keys /\ v.owner = Own(v.owner[1])
    /\ \A k \in Keys : server[k] # NoSource =>
        /\ Received(k) => Received(k)'
        /\ Exposed(k) => Exposed(k)'
    /\ \A w \in Workers : pc'[w] = "webhook" =>
        /\ UNCHANGED held[w]
        /\ pc[w] = "webhook" \/ (held[w] \in Keys /\ Received(held[w]))

\* No worker gets to the webhook.
NoneEnters ==
    \A w \in Workers : pc'[w] = "webhook" => pc[w] = "webhook" /\ UNCHANGED held[w]

LEMMA ReceiversAside ==
    ASSUME UNCHANGED <<created, receiverVars>>, hooks' \subseteq hooks, NoneEnters
    PROVE  Standing
BY DEF receiverVars, Standing, NoneEnters, Received, Exposed, Own

LEMMA WorkersAsideEnterNot == ASSUME UNCHANGED workerVars PROVE NoneEnters
BY DEF workerVars, NoneEnters

LEMMA PhaseEntersNot ==
    ASSUME HInv, NEW w \in Workers, UNCHANGED held, NEW phase, phase # "webhook",
           pc' = [pc EXCEPT ![w] = phase]
    PROVE  NoneEnters
<1>1. pc \in [Workers -> Phases]
    BY DEF HInv, OInv, IInv, WorkersTyped
<1> QED BY <1>1 DEF NoneEnters

LEMMA ReturnEntersNot ==
    ASSUME HInv, NEW w \in Workers, NEW s, NEW err, Return(w, s, err)
    PROVE  NoneEnters
<1> DEFINE next == IF s.status # original[w].status THEN "status" ELSE AfterStatus(w, s)
<1>1. next # "webhook"
    BY DEF AfterStatus
<1>2. pc' = [pc EXCEPT ![w] = next] /\ UNCHANGED held
    BY DEF Return
<1> HIDE DEF next
<1> QED BY <1>1, <1>2, PhaseEntersNot

LEMMA FindReceiverStands ==
    ASSUME HInv, OneUid, NEW w \in Workers, FindReceiver(w) PROVE Standing
<1>1. UNCHANGED <<created, receiverVars, hooks>>
    BY DEF FindReceiver, requestFrame, apiVars, gitlabVars
<1>2. CASE NoneEnters
    BY <1>1, <1>2, ReceiversAside
<1>3. CASE getOwnedReceiver(w) # {} /\ Continue(w, addFinalizer(source[w]), "webhook")
    <2>1. pc[w] = "receiver" /\ pc \in [Workers -> Phases]
        BY DEF FindReceiver, HInv, OInv, IInv, WorkersTyped
    <2>2. held[w] \in Keys /\ source[w].uid = created[held[w]]
        <3>1. Active(w)
            BY <2>1 DEF Active
        <3> QED BY <3>1, SnapshotIsCopy DEF OneUid
    <2>3. Received(held[w])
        BY <1>3, <2>2 DEF getOwnedReceiver, Owner, Own, Received
    <2>4. UNCHANGED held /\ \A v \in Workers \ {w} : pc'[v] = pc[v]
        BY <1>3, <2>1 DEF Continue
    <2> QED BY <1>1, <2>2, <2>3, <2>4 DEF receiverVars, Standing, Received, Exposed, Own
<1> QED BY <1>2, <1>3, ReturnEntersNot, PhaseEntersNot DEF FindReceiver, Continue

LEMMA CreateReceiverStands ==
    ASSUME HInv, OneUid, NEW w \in Workers, CreateDeployment(w) \/ CreateService(w)
    PROVE  Standing
<1>1. UNCHANGED <<created, hooks>>
    BY DEF CreateDeployment, CreateService, requestFrame, apiVars, gitlabVars
<1>2. NoneEnters
    BY ReturnEntersNot, PhaseEntersNot DEF CreateDeployment, CreateService, Continue
<1>3. /\ deployments \subseteq deployments' /\ services \subseteq services'
      /\ services' \subseteq services \cup {NewService(w)}
    BY DEF CreateDeployment, CreateService
<1>4. held[w] \in Keys /\ Owner(w) = Own(held[w])
    <2>1. Active(w)
        BY DEF CreateDeployment, CreateService, Active
    <2> QED BY <2>1, SnapshotIsCopy DEF OneUid, Owner, Own
<1>5. NewService(w).owner = Own(held[w]) /\ Own(held[w])[1] = held[w]
    BY <1>4 DEF NewService, Own
<1> QED BY <1>1, <1>2, <1>3, <1>4, <1>5 DEF Standing, NoneEnters, Received, Exposed, Own

LEMMA ProvisionIngressStands ==
    ASSUME HInv, NEW v \in services, ProvisionIngress(v) PROVE Standing
<1>1. /\ UNCHANGED <<created, hooks, workerVars, deployments>>
      /\ services' = (services \ {v}) \cup {[v EXCEPT !.ingress = TRUE]}
    BY DEF ProvisionIngress, clusterFrame, apiVars, gitlabVars
<1>2. [v EXCEPT !.ingress = TRUE].owner = v.owner /\ [v EXCEPT !.ingress = TRUE].ingress
    BY DEF HInv, OInv, Details, OutsideTyped
<1>3. NoneEnters
    BY <1>1, WorkersAsideEnterNot
<1> QED BY <1>1, <1>2, <1>3 DEF Standing, NoneEnters, Received, Exposed, Own

\* What is collected belongs to nobody who is there.
LEMMA CollectGarbageStands ==
    ASSUME HInv, NEW owner \in Owners, CollectGarbage(owner) PROVE Standing
<1>1. /\ UNCHANGED <<created, hooks, workerVars>>
      /\ ~Alive(owner)
      /\ deployments' = {d \in deployments : d.owner # owner}
      /\ services' = {v \in services : v.owner # owner}
    BY DEF CollectGarbage, clusterFrame, apiVars, gitlabVars
<1>2. \A k \in Keys : server[k] # NoSource => Own(k) # owner
    BY <1>1 DEF Alive, Own, HInv, Tracked, CopiesAge
<1>3. NoneEnters
    BY <1>1, WorkersAsideEnterNot
<1>4. \A k \in Keys : Own(k)' = Own(k)
    BY <1>1 DEF Own
<1> QED BY <1>1, <1>2, <1>3, <1>4 DEF Standing, NoneEnters, Received, Exposed

LEMMA StepStands ==
    ASSUME HInv, OneUid, [Next]_vars, \A k \in Keys : ~CreateSource(k),
           \A w \in Workers : ~CreateWebhook(w)
    PROVE  Standing
<1>1. CASE \/ \E k \in Keys : \/ InformerStep(k) \/ Resync(k)
                              \/ DeleteSource(k) \/ EditSource(k) \/ RemoveForeign(k)
           \/ Relist \/ EditEnvironment \/ UNCHANGED vars
    <2>1. UNCHANGED <<created, receiverVars, hooks, workerVars>>
        BY <1>1 DEF InformerStep, Deliver, Notify, RetryDue, Resync, DeleteSource, EditSource,
                    RemoveForeign, Relist, EditEnvironment, clusterFrame, apiVars, gitlabVars,
                    vars
    <2> QED BY <2>1, WorkersAsideEnterNot, ReceiversAside
<1>2. ASSUME Restart PROVE Standing
    BY <1>2, ReceiversAside DEF Restart, NoneEnters, apiVars, gitlabVars
<1>3. ASSUME NEW w \in Workers, Take(w) \/ Lookup(w) \/ Finish(w) PROVE Standing
    <2>1. UNCHANGED <<created, receiverVars, hooks>>
        BY <1>3 DEF Take, Lookup, Finish, apiVars, gitlabVars
    <2>2. pc \in [Workers -> Phases] /\ DOMAIN held = Workers
        BY DEF HInv, OInv, IInv, WorkersTyped
    <2>3. NoneEnters
        BY <1>3, <2>2 DEF Take, Lookup, Finish, NoneEnters
    <2> QED BY <2>1, <2>3, ReceiversAside
<1>4. ASSUME NEW w \in Workers,
             \/ ReadSecrets(w) \/ ResolveSink(w) \/ ListServicesFails(w) \/ KeepWebhook(w)
             \/ Finalize(w) \/ DeleteWebhook(w)
      PROVE  Standing
    <2>1. UNCHANGED <<created, receiverVars>> /\ hooks' \subseteq hooks
        BY <1>4 DEF ReadSecrets, ResolveSink, ListServicesFails, KeepWebhook, Finalize,
                    DeleteWebhook, DeleteProjectHook, requestFrame, apiVars, gitlabVars
    <2>2. \/ \E s, err : Return(w, s, err)
          \/ \E s : \E phase \in {"sink", "receiver", "deleteWebhook"} : Continue(w, s, phase)
        BY <1>4 DEF ReadSecrets, ResolveSink, ListServicesFails, KeepWebhook, Finalize,
                    DeleteWebhook
    <2>3. NoneEnters
        BY <2>2, ReturnEntersNot, PhaseEntersNot DEF Continue
    <2> QED BY <2>1, <2>3, ReceiversAside
<1>5. ASSUME NEW w \in Workers, UpdateStatus(w) \/ UpdateFinalizers(w) PROVE Standing
    <2>1. UNCHANGED <<created, receiverVars, hooks, held>>
        BY <1>5 DEF UpdateStatus, UpdateFinalizers, WriteThroughCache, Abort, gitlabVars
    <2>2. \E phase \in {"finalizers", "finish"} : pc' = [pc EXCEPT ![w] = phase]
        BY <1>5 DEF UpdateStatus, UpdateFinalizers, WriteThroughCache, Abort, AfterStatus
    <2> QED BY <2>1, <2>2, PhaseEntersNot, ReceiversAside
<1>6. ASSUME NEW w \in Workers, ReconcileStep(w) PROVE Standing
    <2>1. CASE PanicWithoutIngress(w) \/ PanicOnPathlessProject(w)
        BY <1>2, <2>1, PanicsRestart
    <2> QED BY <1>3, <1>4, <1>5, <1>6, <2>1, FindReceiverStands, CreateReceiverStands
            DEF ReconcileStep
<1> QED BY <1>1, <1>2, <1>3, <1>6, ProvisionIngressStands, CollectGarbageStands DEF Next, Crash

-----------------------------------------------------------------------------
(* The inductive invariant *)

LEMMA HookIsNoNoHook ==
    ASSUME HInv, NEW h \in hooks PROVE h.id # NoHook /\ h.id <= hookCount /\ hookCount \in Nat
BY NoHookIsNoID DEF HInv, OInv, Details, OutsideTyped

LEMMA ReachedGoesOn ==
    ASSUME RInv, Inherits, Standing PROVE Reached'
<1> USE DEF RInv, Reached
<1>1. \A k \in Keys : Own(k)' = Own(k)
    BY DEF Inherits, Own
<1>2. OneUid'
    BY DEF Inherits, OneUid
<1>3. ServicesFit'
    BY DEF Standing, Inherits, ServicesFit, Own
<1>4. ASSUME NEW k \in Keys, NEW v \in Copies(k)', NEW h \in hooks', h.id = v.status.hookID
      PROVE  h \in hooks /\ \E u \in Copies(k) : u.status.hookID = h.id
    <2>1. h \in hooks
        BY DEF Standing
    <2> QED BY <1>4, <2>1, HookIsNoNoHook DEF Inherits
<1>5. HooksOwn'
    BY <1>1, <1>4 DEF HooksOwn
<1>6. ASSUME NEW k \in Keys, server'[k] # NoSource
      PROVE  /\ Received(k) => Received(k)'
             /\ Exposed(k) => Exposed(k)'
    BY <1>6 DEF Inherits, Standing
<1>7. ReceiverStays'
    <2> SUFFICES ASSUME NEW w \in Workers, pc'[w] = "webhook", server'[held'[w]] # NoSource
                 PROVE  Received(held[w])' /\ UNCHANGED held[w]
        BY DEF ReceiverStays, Received, Own
    <2>1. UNCHANGED held[w] /\ (pc[w] = "webhook" \/ (held[w] \in Keys /\ Received(held[w])))
        BY DEF Standing
    <2>2. pc[w] = "webhook" => held[w] \in Keys
        BY OwnerIsOwner DEF HInv
    <2>3. server[held[w]] # NoSource
        BY <2>1, <2>2 DEF Inherits
    <2>4. Received(held[w])
        BY <2>1, <2>3 DEF ReceiverStays
    <2>5. Received(held[w])'
        BY <1>6, <2>1, <2>2, <2>4
    <2> QED BY <2>1, <2>5
<1>8. HooksReach'
    BY <1>1, <1>4, <1>6 DEF HooksReach, Inherits, Unambiguous
<1> QED BY <1>2, <1>3, <1>5, <1>7, <1>8

\* The new hook is recorded by its creator alone, and calls the service it has found.
LEMMA AddHookReaches ==
    ASSUME RInv, NEW w \in Workers, pc[w] = "webhook", ServerFrame,
           UNCHANGED <<created, receiverVars>>, source[w].status.hookID = NoHook,
           NEW v \in Candidates(w), v.ingress, AddProjectHook(w, v),
           NEW s \in {source[w], WithHook(source[w], hookCount + 1)},
           NEW err \in BOOLEAN, Return(w, s, err)
    PROVE  Reached'
<1> USE DEF RInv, Reached
<1>1. Active(w) /\ source[w] \in ObjectsUpTo(hookCount) /\ hookCount \in Nat
    BY ServesObject DEF ServingPhases
<1>2. held[w] \in Keys /\ source[w] \in Copies(held[w])
    BY <1>1, SnapshotIsCopy
<1>3. s.uid = source[w].uid /\ (s = source[w] \/ s.status.hookID = hookCount + 1)
    BY <1>1, CopiesChange DEF SameObject
<1>4. ASSUME NEW k \in Keys, NEW u \in Copies(k)'
      PROVE  u \in Copies(k) \/ (k = held[w] /\ u = s)
    <2>1. PICK phase \in Phases : Advances(w, s, phase)
        BY ReturnAdvances DEF Phases
    <2> QED BY <1>1, <1>4, <2>1, CopiesOfAdvance
<1>5. \A k \in Keys : Own(k)' = Own(k) /\ Received(k)' = Received(k) /\ Exposed(k)' = Exposed(k)
    BY DEF Own, Received, Exposed, receiverVars
<1>6. Owner(w) = Own(held[w])
    BY <1>2 DEF OneUid, Owner, Own
<1> DEFINE new == [id |-> hookCount + 1, project |-> source[w].project,
                   owner |-> Owner(w), target |-> v.owner]
<1>7. /\ hooks' = hooks \cup {new}
      /\ new.id = hookCount + 1
      /\ new.owner = Own(held[w])
      /\ new.target = v.owner
    BY <1>6 DEF AddProjectHook
<1> HIDE DEF new
<1>8. OneUid' /\ ServicesFit'
    BY <1>2, <1>3, <1>4, <1>5 DEF OneUid, ServicesFit, receiverVars, Own
<1>9. ASSUME NEW k \in Keys, NEW u \in Copies(k)', NEW h \in hooks', h.id = u.status.hookID
      PROVE  \/ u \in Copies(k) /\ h \in hooks
             \/ k = held[w] /\ h = new
    <2>1. CASE h \in hooks
        <3>1. h.id # hookCount + 1
            BY <2>1, HookIsNoNoHook, <1>1 DEF HInv, OInv, Details, OutsideTyped
        <3> QED BY <1>2, <1>3, <1>4, <1>9, <2>1, <3>1
    <2>2. CASE h = new
        <3>1. \A t \in Copies(k) : t.status.hookID # hookCount + 1
            <4>1. hookCount + 1 \notin 1..hookCount /\ hookCount + 1 # NoHook
                BY <1>1, NoHookIsNoID
            <4> QED BY <4>1, CopiesAreObjects DEF HInv
        <3> QED BY <1>4, <1>7, <1>9, <2>2, <3>1
    <2> QED BY <1>7, <2>1, <2>2
<1>10. HooksOwn'
    BY <1>5, <1>7, <1>9 DEF HooksOwn
<1>11. ReceiverStays'
    <2>1. NoneEnters
        BY ReturnEntersNot
    <2>2. \A x \in Workers : pc[x] = "webhook" => held[x] \in Keys
        BY OwnerIsOwner DEF HInv
    <2> QED BY <1>5, <2>1, <2>2 DEF NoneEnters, ReceiverStays, ServerFrame
<1>12. <<held[w], new.target[1]>> \in NamePrefixes
    BY <1>7 DEF Candidates
<1>13. ASSUME Unambiguous(held[w])
       PROVE  new.target = Own(held[w]) /\ Exposed(held[w])
    <2>1. v \in services /\ v.owner[1] \in Keys
        BY DEF Candidates, HInv, OInv, Details, OutsideTyped, Owners
    <2>2. v.owner[1] = held[w]
        BY <1>13, <2>1 DEF Candidates, Unambiguous
    <2>3. v.owner = Own(held[w])
        BY <2>1, <2>2 DEF ServicesFit
    <2> QED BY <1>7, <2>1, <2>3 DEF Exposed
<1>14. server[held[w]] # NoSource => Received(held[w])
    BY DEF ReceiverStays
<1>15. HooksReach'
    BY <1>5, <1>9, <1>12, <1>13, <1>14 DEF HooksReach, ServerFrame, Unambiguous
<1> QED BY <1>8, <1>10, <1>11, <1>15

LEMMA CreateWebhookReaches ==
    ASSUME RInv, NEW w \in Workers, CreateWebhook(w) PROVE Reached'
<1>1. /\ pc[w] = "webhook" /\ source[w].status.hookID = NoHook
      /\ ServerFrame /\ UNCHANGED <<created, receiverVars>>
    BY DEF CreateWebhook, requestFrame, apiVars, informerVars, accountVars, ServerFrame
<1>2. CASE UNCHANGED gitlabVars /\ Return(w, source[w], TRUE)
    <2>1. Inherits
        <3>1. Active(w) /\ SameObject(source[w], source[w]) /\ KeepsTheHook(w, source[w])
            BY <1>1 DEF Active, SameObject, KeepsTheHook
        <3> QED BY <1>1, <1>2, <3>1, RequestInherits DEF RInv
    <2>2. Standing
        BY <1>1, <1>2, ReturnEntersNot, ReceiversAside DEF gitlabVars, RInv
    <2> QED BY <2>1, <2>2, ReachedGoesOn
<1> QED BY <1>1, <1>2, AddHookReaches DEF CreateWebhook

\* The first version of a source has no hook, and nobody knows another of its name.
LEMMA CreateSourceReaches ==
    ASSUME RInv, NEW k \in Keys, CreateSource(k), NameRests(k) PROVE Reached'
<1> USE DEF RInv, Reached
<1>1. /\ UNCHANGED <<cache, workerVars, receiverVars, hooks>>
      /\ created' = [created EXCEPT ![k] = @ + 1]
      /\ created \in [Keys -> 0..MaxUid]
    BY DEF CreateSource, clusterFrame, gitlabVars, HInv, OInv, Details, OutsideTyped
<1>2. CacheChanges /\ WorkersKeep
    BY <1>1 DEF CacheChanges, WorkersKeep, Active, workerVars
<1>3. PICK object \in ObjectsUpTo(hookCount) :
        Store(k, object) /\ object.uid = created[k] + 1 /\ object.status.hookID = NoHook
    BY CreatedIsObject DEF HInv
<1>4. OInv
    BY DEF HInv
<1>5. \A l \in Keys \ {k} : Own(l)' = Own(l) /\ server'[l] = server[l]
    BY <1>1, <1>3, <1>4, StoreParts DEF Own
<1>6. ASSUME NEW l \in Keys, NEW v \in Copies(l)'
      PROVE  \/ l # k /\ v \in Copies(l)
             \/ l = k /\ v.uid = created'[k] /\ v.status.hookID = NoHook
    <2>1. \/ \E u \in Copies(l) : SameObject(v, u) /\ (v = u \/ v = cache'[l])
          \/ l = k /\ v = Stored(k, object) /\ v # NoSource
        BY <1>2, <1>3, <1>6, CopiesOfStore
    <2>2. CASE l = k
        <3>1. v = Stored(k, object) /\ v # NoSource
            BY <2>1, <2>2 DEF NameRests
        <3> QED BY <1>1, <1>3, <1>4, <2>2, <3>1, StoreParts
    <2>3. CASE l # k
        <3>1. Snapshots(l)' = Snapshots(l)
            BY <1>1 DEF Snapshots, Active, workerVars
        <3>2. Brought(l)' = Brought(l)
            BY <1>3, <1>4, <2>3, StoreParts
        <3> QED BY <1>1, <1>5, <1>6, <2>3, <3>1, <3>2 DEF Copies
    <2> QED BY <2>2, <2>3
<1>7. OneUid'
    BY <1>1, <1>6 DEF OneUid
<1>8. ServicesFit'
    BY <1>1 DEF ServicesFit, NameRests, Own, receiverVars
<1>9. ASSUME NEW l \in Keys, NEW v \in Copies(l)', NEW h \in hooks', h.id = v.status.hookID
      PROVE  l # k /\ v \in Copies(l) /\ h \in hooks
    BY <1>1, <1>6, <1>9, HookIsNoNoHook
<1>10. HooksOwn'
    BY <1>5, <1>9 DEF HooksOwn
<1>11. \A l \in Keys \ {k} : Received(l)' = Received(l) /\ Exposed(l)' = Exposed(l)
    BY <1>1, <1>5 DEF Received, Exposed, receiverVars
<1>12. ReceiverStays'
    <2>1. ASSUME NEW w \in Workers, pc[w] = "webhook" PROVE held[w] \in Keys \ {k}
        <3>1. Active(w)
            BY <2>1 DEF Active
        <3> QED BY <3>1, SnapshotIsCopy DEF NameRests
    <2> QED BY <1>1, <1>5, <1>11, <2>1 DEF ReceiverStays, workerVars
<1>13. HooksReach'
    BY <1>5, <1>9, <1>11 DEF HooksReach, Unambiguous
<1> QED BY <1>7, <1>8, <1>10, <1>12, <1>13

LEMMA ReachedInit == Init => Reached
<1> SUFFICES ASSUME Init PROVE Reached
    OBVIOUS
<1>1. /\ \A k \in Keys : server[k] = NoSource /\ cache[k] = NoSource /\ watch[k] = <<>>
      /\ \A w \in Workers : pc[w] = "get"
      /\ services = {}
    BY DEF Init
<1>2. Len(<<>>) = 0 /\ 1..0 = {}
    OBVIOUS
<1>3. \A k \in Keys : Copies(k) = {}
    BY <1>1, <1>2 DEF Copies, Brought, Snapshots, Active
<1> QED BY <1>1, <1>3 DEF Reached, OneUid, ServicesFit, HooksOwn, ReceiverStays, HooksReach

LEMMA ReachedNext ==
    ASSUME RInv, [Next]_vars, ReusedAtRest PROVE Reached'
<1>1. ASSUME NEW k \in Keys, CreateSource(k) PROVE Reached'
    <2>1. created'[k] # created[k]
        BY <1>1 DEF CreateSource, RInv, HInv, OInv, Details, OutsideTyped
    <2> QED BY <1>1, <2>1, CreateSourceReaches DEF ReusedAtRest
<1>2. CASE \A k \in Keys : ~CreateSource(k)
    <2>1. CASE \A w \in Workers : ~CreateWebhook(w)
        BY <1>2, <2>1, StepInherits, StepStands, ReachedGoesOn DEF RInv, Reached
    <2> QED BY <2>1, CreateWebhookReaches
<1> QED BY <1>1, <1>2

LEMMA ReachedInvariance == Spec /\ NamesRest => []RInv
<1>1. HInv /\ Reached /\ [Next]_vars /\ [ReusedAtRest]_vars => Reached'
    <2> SUFFICES ASSUME HInv, Reached, [Next]_vars, [ReusedAtRest]_vars PROVE Reached'
        OBVIOUS
    <2>1. CASE ReusedAtRest
        BY <2>1, ReachedNext DEF RInv
    <2>2. CASE UNCHANGED vars
        <3>1. ReusedAtRest
            BY <2>2 DEF ReusedAtRest, vars, apiVars
        <3> QED BY <3>1, ReachedNext DEF RInv
    <2> QED BY <2>1, <2>2
<1> QED BY <1>1, ReachedInit, HooksInvariance, PTL DEF Spec, NamesRest, RInv

-----------------------------------------------------------------------------
(* The theorems *)

\* RecordedHookIsOwn: the hook that a source's status names was registered for it and
\* not for a predecessor, if names come to rest before they are used again.  (Run
\* status_of_another shows that they have to.)
THEOREM RecordedHooksAreOwn == Spec /\ NamesRest => []RecordedHookIsOwn
<1>1. RInv => RecordedHookIsOwn
    <2> SUFFICES ASSUME RInv, NEW k \in Keys, NEW h \in hooks, server[k] # NoSource,
                        server[k].status.hookID = h.id
                 PROVE  h.owner = <<k, server[k].uid>>
        BY DEF RecordedHookIsOwn, Lives
    <2>1. server[k] \in Copies(k)
        BY DEF Copies
    <2> QED BY <2>1 DEF RInv, Reached, OneUid, HooksOwn, Own
<1> QED BY <1>1, ReachedInvariance, PTL

LEMMA RecordedHooksReach == RInv => HookReachesReceiver
<1> SUFFICES ASSUME RInv, NEW k \in Keys, NEW h \in hooks, server[k] # NoSource,
                    h.id = server[k].status.hookID
             PROVE  /\ <<k, h.target[1]>> \in NamePrefixes
                    /\ Unambiguous(k) =>
                        /\ h.target = <<k, server[k].uid>>
                        /\ \E v \in services : v.owner = h.target /\ v.ingress
                        /\ \E d \in deployments : d.owner = h.target
    BY DEF HookReachesReceiver, Lives
<1>1. server[k] \in Copies(k) /\ server[k].uid = created[k]
    BY DEF Copies, RInv, Reached, OneUid
<1> QED BY <1>1 DEF RInv, Reached, HooksReach, Received, Exposed, Own

\* HookReachesReceiver: if names come to rest before they are used again, GitLab calls the
\* source's own receive adapter, which is in use and has an address, unless the name of
\* the source begins another; and then it calls that of a source with such a name.
THEOREM HooksReachReceivers == Spec /\ NamesRest => []HookReachesReceiver
<1>1. RInv => HookReachesReceiver
    BY RecordedHooksReach
<1> QED BY <1>1, ReachedInvariance, PTL

-----------------------------------------------------------------------------
(* The refinement of HookLifecycle *)

\* Whoever has a version of a recorded source knows its hook or none.
HooksAgree ==
    \A k \in Keys : Recorded(k) =>
        \A v \in Copies(k) : v.status.hookID \in {NoHook, server[k].status.hookID}

AInv == HInv /\ Accounted /\ HooksAgree

LEMMA AgreementGoesOn ==
    ASSUME HooksAgree, Inherits,
           \A k \in Keys : server'[k] # NoSource =>
                server'[k].status.hookID \in {NoHook, server[k].status.hookID}
    PROVE  HooksAgree'
<1> SUFFICES ASSUME NEW k \in Keys, server'[k] # NoSource, server'[k].status.hookID # NoHook,
                    NEW v \in Copies(k)', v.status.hookID # NoHook
             PROVE  v.status.hookID = server'[k].status.hookID
    BY DEF HooksAgree, Recorded
<1>1. server[k] # NoSource /\ server'[k].status.hookID = server[k].status.hookID
    BY DEF Inherits
<1>2. \E u \in Copies(k) : u.status.hookID = v.status.hookID
    BY DEF Inherits
<1> QED BY <1>1, <1>2 DEF HooksAgree, Recorded

\* A hook is created for a source that has none recorded.
LEMMA CreateWebhookAgrees ==
    ASSUME HInv, HooksAgree, NEW w \in Workers, CreateWebhook(w) PROVE HooksAgree'
<1>1. Active(w) /\ held[w] \in Keys /\ ~Recorded(held[w])
    BY CreatorKnowsOfNone
<1>2. ServerFrame /\ UNCHANGED created
    BY DEF CreateWebhook, requestFrame, apiVars, informerVars, accountVars, ServerFrame
<1>3. PICK s : \E phase \in Phases : Advances(w, s, phase)
    <2>1. \E s : \E err \in BOOLEAN : Return(w, s, err)
        BY DEF CreateWebhook
    <2> QED BY <1>2, <2>1, ReturnAdvances DEF Phases
<1>4. \A k \in Keys : Recorded(k)' => Copies(k)' \subseteq Copies(k) /\ server'[k] = server[k]
    BY <1>1, <1>2, <1>3, CopiesOfAdvance DEF Recorded, ServerFrame
<1> QED BY <1>2, <1>4 DEF HooksAgree, Recorded, ServerFrame

LEMMA CreateSourceAgrees ==
    ASSUME HInv, HooksAgree, NEW k \in Keys, CreateSource(k) PROVE HooksAgree'
<1>1. PICK object \in ObjectsUpTo(hookCount) :
        Store(k, object) /\ object.status.hookID = NoHook
    BY CreatedIsObject DEF HInv
<1>2. ~Recorded(k)'
    <2>1. /\ server'[k] = Stored(k, object)
          /\ Stored(k, object) # NoSource => Stored(k, object).status = object.status
        BY <1>1, StoreParts DEF HInv
    <2> QED BY <1>1, <2>1 DEF Recorded
<1>3. UNCHANGED <<cache, workerVars>>
    BY DEF CreateSource, clusterFrame
<1>4. \A l \in Keys \ {k} : server'[l] = server[l] /\ Brought(l)' = Brought(l)
    BY <1>1, StoreParts DEF HInv
<1>5. \A l \in Keys \ {k} : Copies(l)' = Copies(l)
    BY <1>3, <1>4 DEF Copies, Snapshots, Active, workerVars
<1> QED BY <1>2, <1>4, <1>5 DEF HooksAgree, Recorded

\* The status that is stored is the last word on the hook.
LEMMA UpdateStatusAgrees ==
    ASSUME HInv, HooksAgree, NEW w \in Workers, UpdateStatus(w) PROVE HooksAgree'
<1>1. Inherits
    BY UpdateStatusInherits
<1>2. CASE UNCHANGED server
    BY <1>1, <1>2, AgreementGoesOn
<1>3. ASSUME NEW sent, NEW object \in ObjectsUpTo(hookCount), StoresStatus(w, sent, object)
      PROVE  HooksAgree'
    <2>1. PICK k \in Keys : k = held[w] /\ k = held'[w]
        BY UpdateStatusOutcomes
    <2>2. \A v \in Copies(k)' : v.status.hookID = source[w].status.hookID
        BY <1>3, <2>1, UpdateStatusOutcomes, StatusStoredKeepsHooks DEF UpdateStatus
    <2>3. Recorded(k)' => server'[k] \in Copies(k)'
        BY DEF Recorded, Copies
    <2>4. \A l \in Keys \ {k} : server'[l] = server[l]
        BY <1>3, <2>1, StoreParts DEF StoresStatus, HInv
    <2>5. ASSUME NEW l \in Keys \ {k}, Recorded(l)', NEW v \in Copies(l)'
          PROVE  v.status.hookID \in {NoHook, server'[l].status.hookID}
        BY <1>1, <2>4, <2>5 DEF Inherits, HooksAgree, Recorded
    <2> QED BY <2>2, <2>3, <2>5 DEF HooksAgree
<1> QED BY <1>2, <1>3, UpdateStatusOutcomes

\* All writes to the API server.
WritesOf(k) == CreateSource(k) \/ DeleteSource(k) \/ EditSource(k) \/ RemoveForeign(k)
WritesBy(w) == UpdateStatus(w) \/ UpdateFinalizers(w)

LEMMA NoWriteNoChange ==
    ASSUME [Next]_vars, \A k \in Keys : ~WritesOf(k), \A w \in Workers : ~WritesBy(w)
    PROVE  UNCHANGED server
<1> USE DEF apiVars
<1>1. CASE \E k \in Keys : InformerStep(k) \/ Resync(k)
    BY <1>1 DEF InformerStep, Deliver, Notify, RetryDue, Resync
<1>2. ASSUME NEW w \in Workers, Take(w) \/ ReconcileStep(w) PROVE UNCHANGED server
    BY <1>2, OnlyWritesChangeTheServer DEF Take, WritesBy
<1>3. CASE \/ Relist \/ Crash \/ EditEnvironment
           \/ \E v \in services : ProvisionIngress(v)
           \/ \E owner \in Owners : CollectGarbage(owner)
           \/ UNCHANGED vars
    BY <1>3 DEF Relist, Crash, Restart, EditEnvironment, ProvisionIngress, CollectGarbage, vars
<1> QED BY <1>1, <1>2, <1>3 DEF Next, WritesOf

LEMMA EventsStay == ASSUME [Next]_vars PROVE warned \subseteq warned'
<1> USE DEF accountVars, requestFrame, clusterFrame
<1>1. CASE \E k \in Keys : \/ InformerStep(k) \/ Resync(k)
                           \/ CreateSource(k) \/ DeleteSource(k) \/ EditSource(k)
                           \/ RemoveForeign(k)
    BY <1>1 DEF InformerStep, Deliver, Notify, RetryDue, Resync, CreateSource, DeleteSource,
                EditSource, RemoveForeign
<1>2. ASSUME NEW w \in Workers, Take(w) \/ ReconcileStep(w) PROVE warned \subseteq warned'
    <2>1. CASE PanicWithoutIngress(w) \/ PanicOnPathlessProject(w)
        BY <2>1, PanicsRestart DEF Restart
    <2>2. CASE ServingStep(w) \/ CreateWebhook(w)
        BY <2>2 DEF ServingStep, ReadSecrets, ResolveSink, FindReceiver, CreateDeployment,
                    CreateService, ListServicesFails, KeepWebhook, CreateWebhook
    <2>3. CASE Take(w) \/ Lookup(w) \/ Finish(w)
        BY <2>3 DEF Take, Lookup, Finish
    <2>4. CASE Finalize(w) \/ DeleteWebhook(w)
        BY <2>4 DEF Finalize, DeleteWebhook
    <2>5. CASE UpdateStatus(w) \/ UpdateFinalizers(w)
        BY <2>5, WriteOutcomes DEF UpdateStatus, UpdateFinalizers
    <2> QED BY <1>2, <2>1, <2>2, <2>3, <2>4, <2>5 DEF ReconcileStep, ServingStep
<1>3. CASE \/ Relist \/ Crash \/ EditEnvironment
           \/ \E v \in services : ProvisionIngress(v)
           \/ \E owner \in Owners : CollectGarbage(owner)
           \/ UNCHANGED vars
    BY <1>3 DEF Relist, Crash, Restart, EditEnvironment, ProvisionIngress, CollectGarbage, vars
<1> QED BY <1>1, <1>2, <1>3 DEF Next

LEMMA AgreementNext == ASSUME HInv, HooksAgree, [Next]_vars PROVE HooksAgree'
<1>1. ASSUME NEW k \in Keys, NEW object \in ObjectsUpTo(hookCount), Store(k, object),
             object.status.hookID = server[k].status.hookID, Inherits
      PROVE  HooksAgree'
    <2>1. /\ server'[k] = Stored(k, object)
          /\ Stored(k, object) # NoSource => Stored(k, object).status = object.status
          /\ \A l \in Keys \ {k} : server'[l] = server[l]
        BY <1>1, StoreParts DEF HInv
    <2> QED BY <1>1, <2>1, AgreementGoesOn
<1>2. CASE \E k \in Keys : DeleteSource(k) \/ EditSource(k) \/ RemoveForeign(k)
    BY <1>1, <1>2, UserWritesAre, UserWriteInherits DEF UserWrites
<1>3. ASSUME NEW w \in Workers, UpdateFinalizers(w) PROVE HooksAgree'
    <2>1. CASE UNCHANGED server
        BY <1>3, <2>1, UpdateFinalizersInherits, AgreementGoesOn
    <2> QED BY <1>1, <1>3, <2>1, UpdateFinalizersOutcomes, UpdateFinalizersInherits
            DEF StoresFinalizers
<1>4. ASSUME UNCHANGED server, \A k \in Keys : ~CreateSource(k),
             \A w \in Workers : ~CreateWebhook(w)
      PROVE  HooksAgree'
    BY <1>4, StepInherits, AgreementGoesOn
<1> QED BY <1>2, <1>3, <1>4, CreateSourceAgrees, CreateWebhookAgrees, UpdateStatusAgrees,
           NoWriteNoChange DEF WritesOf, WritesBy

\* The hook of a stored version is that of the last, or the first, or cleared in the end.
HookFollows(k, object) ==
    LET old == server[k].status.hookID
        new == object.status.hookID
    IN  \/ new = old
        \/ old = NoHook /\ \A h \in hooks : h.id = new => h.owner[1] = k
        \/ new = NoHook /\ server[k].deleting /\ Released(old)

\* What a step does to the records, given that it stores one object at most.
LEMMA RecordsOfStore ==
    ASSUME OInv, NEW k \in Keys, NEW object \in ObjectsUpTo(hookCount), Store(k, object)
    PROVE  /\ \A l \in Keys \ {k} : HookRecord(l)' = HookRecord(l)
           /\ LET new == HookRecord(k)'
              IN  /\ ~object.deleting \/ finalizerName \in object.finalizers => new.uid # 0
                  /\ finalizerName \in object.finalizers => new.guarded
                  /\ new.uid # 0 =>
                        new = [uid |-> object.uid, deleting |-> object.deleting,
                               guarded |-> finalizerName \in object.finalizers,
                               hook |-> object.status.hookID]
<1>1. \A l \in Keys \ {k} : server'[l] = server[l]
    BY StoreParts
<1>2. /\ server'[k] = Stored(k, object)
      /\ Stored(k, object) # NoSource =>
            /\ Stored(k, object).uid = object.uid
            /\ Stored(k, object).deleting = object.deleting
            /\ Stored(k, object).status = object.status
            /\ Stored(k, object).finalizers = object.finalizers
      /\ ~object.deleting \/ finalizerName \in object.finalizers => Stored(k, object) # NoSource
    BY StoreParts
<1>3. object.uid # 0
    BY FieldsOfObjects DEF OInv, Details, OutsideTyped, ObjectsUpTo, Uids
<1>4. HookRecord(k)' =
        IF Stored(k, object) = NoSource
        THEN [uid |-> 0, deleting |-> FALSE, guarded |-> FALSE, hook |-> NoHook]
        ELSE [uid |-> object.uid, deleting |-> object.deleting,
              guarded |-> finalizerName \in object.finalizers,
              hook |-> object.status.hookID]
    BY <1>2 DEF HookRecord
<1> QED BY <1>1, <1>2, <1>3, <1>4 DEF HookRecord

LEMMA StoreWritesRecord ==
    ASSUME OInv, NEW k \in Keys, NEW object \in ObjectsUpTo(hookCount), Store(k, object),
           UNCHANGED <<hooks, warned>>
    PROVE  Lifecycle!Write(k)
<1> DEFINE record == [l \in Keys |-> HookRecord(l)]
<1>1. record' = [l \in Keys |-> HookRecord(l)']
    OBVIOUS
<1>2. record' = [record EXCEPT ![k] = record'[k]]
    BY <1>1, RecordsOfStore
<1> QED BY <1>2 DEF Lifecycle!Write

LEMMA StoreWritesSource ==
    ASSUME OInv, NEW k \in Keys, NEW object \in ObjectsUpTo(hookCount), Store(k, object),
           UNCHANGED <<hooks, warned>>,
           server[k] # NoSource, object.uid = server[k].uid,
           server[k].deleting => object.deleting,
           FinalizerStays(k, object), HookFollows(k, object)
    PROVE  Lifecycle!WriteSource(k)
<1> DEFINE old == HookRecord(k)
           new == HookRecord(k)'
<1>1. server[k] \in ObjectsUpTo(hookCount)
    BY CachedIsObject
<1>2. server[k].uid # 0
    BY <1>1, FieldsOfObjects DEF OInv, Details, OutsideTyped, ObjectsUpTo, Uids
<1>3. old = [uid |-> server[k].uid, deleting |-> server[k].deleting,
             guarded |-> finalizerName \in server[k].finalizers,
             hook |-> server[k].status.hookID]
    BY DEF HookRecord
<1>4. /\ finalizerName \in object.finalizers => new.guarded
      /\ new.uid # 0 =>
            new = [uid |-> object.uid, deleting |-> object.deleting,
                   guarded |-> finalizerName \in object.finalizers,
                   hook |-> object.status.hookID]
    BY RecordsOfStore
<1> HIDE DEF old, new
<1>5. old.guarded /\ ~Released(old.hook) => new.guarded
    BY <1>3, <1>4 DEF FinalizerStays
<1>6. new.uid # 0 =>
        /\ new.uid = old.uid
        /\ old.deleting => new.deleting
        /\ \/ new.hook = old.hook
           \/ old.hook = NoHook /\ \A h \in hooks : h.id = new.hook => h.owner[1] = k
           \/ new.hook = NoHook /\ old.deleting /\ Released(old.hook)
    BY <1>3, <1>4 DEF HookFollows
<1>7. Lifecycle!Write(k)
    BY StoreWritesRecord
<1>8. old.uid # 0
    BY <1>2, <1>3
<1> QED BY <1>5, <1>6, <1>7, <1>8
        DEF Lifecycle!WriteSource, Lifecycle!There, Lifecycle!Released, Released, Gone, old, new

LEMMA CreateSourceRefines ==
    ASSUME HInv, NEW k \in Keys, CreateSource(k) PROVE Lifecycle!CreateSource(k)
<1> USE DEF HInv
<1>1. PICK object \in ObjectsUpTo(hookCount) :
        /\ Store(k, object)
        /\ object.status.hookID = NoHook
        /\ ~object.deleting /\ object.finalizers = {}
    BY CreatedIsObject
<1>2. UNCHANGED <<hooks, warned>> /\ server[k] = NoSource
    BY DEF CreateSource, clusterFrame, gitlabVars
<1>3. Lifecycle!Write(k)
    BY <1>1, <1>2, StoreWritesRecord
<1> DEFINE new == HookRecord(k)'
<1>4. /\ new.uid # 0
      /\ new = [uid |-> object.uid, deleting |-> object.deleting,
                guarded |-> finalizerName \in object.finalizers,
                hook |-> object.status.hookID]
    BY <1>1, RecordsOfStore
<1>5. HookRecord(k).uid = 0
    BY <1>2 DEF HookRecord
<1> HIDE DEF new
<1>6. new.hook = NoHook /\ ~new.guarded /\ ~new.deleting
    BY <1>1, <1>4
<1> QED BY <1>3, <1>4, <1>5, <1>6 DEF Lifecycle!CreateSource, Lifecycle!There, new

LEMMA UserWriteRefines ==
    ASSUME HInv, NEW k \in Keys, DeleteSource(k) \/ EditSource(k) \/ RemoveForeign(k)
    PROVE  Lifecycle!WriteSource(k)
<1>1. PICK object \in ObjectsUpTo(hookCount) : UserWrites(k, object)
    BY UserWritesAre
<1>2. UNCHANGED <<hooks, warned>>
    BY DEF DeleteSource, EditSource, RemoveForeign, clusterFrame, gitlabVars
<1> QED BY <1>1, <1>2, StoreWritesSource DEF HInv, UserWrites, FinalizerStays, HookFollows

LEMMA UpdateFinalizersRefines ==
    ASSUME AInv, NEW w \in Workers, UpdateFinalizers(w)
    PROVE  UNCHANGED server \/ \E k \in Keys : Lifecycle!WriteSource(k)
<1> USE DEF AInv
<1>1. ASSUME NEW object \in ObjectsUpTo(hookCount), StoresFinalizers(w, object)
      PROVE  Lifecycle!WriteSource(held[w])
    <2>1. held[w] \in Keys /\ UNCHANGED <<hooks, warned>>
        BY UpdateFinalizersOutcomes
    <2>2. FinalizerStays(held[w], object)
        BY <1>1, FinalizerIsReleased
    <2>3. HookFollows(held[w], object)
        BY <1>1 DEF HookFollows, StoresFinalizers
    <2> QED BY <1>1, <2>1, <2>2, <2>3, StoreWritesSource DEF HInv, StoresFinalizers
<1> QED BY <1>1, UpdateFinalizersOutcomes

LEMMA UpdateStatusRefines ==
    ASSUME AInv, NEW w \in Workers, UpdateStatus(w)
    PROVE  UNCHANGED server \/ \E k \in Keys : Lifecycle!WriteSource(k)
<1> USE DEF AInv, HInv
<1>1. ASSUME NEW sent, NEW object \in ObjectsUpTo(hookCount), StoresStatus(w, sent, object)
      PROVE  Lifecycle!WriteSource(held[w])
    <2> DEFINE k == held[w]
    <2>1. k \in Keys /\ UNCHANGED <<hooks, warned>>
        BY UpdateStatusOutcomes
    <2>2. Active(w) /\ source[w] \in Copies(k)
        BY SnapshotIsCopy DEF UpdateStatus, Active
    <2>3. server[k] # NoSource /\ server[k] \in Copies(k)
        BY <1>1 DEF StoresStatus, Copies
    <2>4. FinalizerStays(k, object)
        BY <1>1 DEF FinalizerStays, StoresStatus
    <2>5. object.status.hookID = source[w].status.hookID
        BY <1>1 DEF StoresStatus
    <2>6. HookFollows(k, object)
        <3>1. CASE ~Recorded(k)
            BY <2>1, <2>2, <2>3, <2>5, <3>1 DEF HookFollows, Recorded, Tracked, HooksBelong
        <3>2. CASE Recorded(k) /\ source[w].status.hookID = NoHook
            <4>1. source[w].deleting /\ source[w].uid = server[k].uid
                BY <2>1, <2>2, <3>2 DEF Tracked, HooksRemembered
            <4>2. source[w].rv <= server[k].rv
                BY <2>1, <2>2, <2>3 DEF Tracked, CopiesAge
            <4>3. server[k].deleting
                BY <2>1, <2>2, <2>3, <4>1, <4>2 DEF Tracked, CopiesAge
            <4>4. Released(server[k].status.hookID)
                BY <2>1, <2>2, <3>2 DEF Accounted, HooksKnown, Recorded, Released
            <4> QED BY <2>5, <3>2, <4>3, <4>4 DEF HookFollows
        <3>3. CASE Recorded(k) /\ source[w].status.hookID # NoHook
            BY <2>1, <2>2, <2>5, <3>3 DEF HookFollows, HooksAgree
        <3> QED BY <3>1, <3>2, <3>3
    <2> QED BY <1>1, <2>1, <2>4, <2>6, StoreWritesSource DEF StoresStatus
<1> QED BY <1>1, UpdateStatusOutcomes

\* A step that writes nothing to the API server leaves all records.
LEMMA RecordsStay ==
    ASSUME UNCHANGED server
    PROVE  UNCHANGED [k \in Keys |-> HookRecord(k)]
BY DEF HookRecord

LEMMA CreateWebhookRefines ==
    ASSUME HInv, NEW w \in Workers, CreateWebhook(w), hooks' # hooks
    PROVE  Lifecycle!Register
<1>1. UNCHANGED <<server, warned>>
    BY DEF CreateWebhook, requestFrame, apiVars, accountVars
<1>2. PICK v \in Candidates(w) : AddProjectHook(w, v)
    BY DEF CreateWebhook, gitlabVars
<1> DEFINE new == [id |-> hookCount + 1, project |-> source[w].project,
                   owner |-> Owner(w), target |-> v.owner]
<1>3. hooks' = hooks \cup {new} /\ new.id = hookCount + 1 /\ new.owner[1] = held[w]
    BY <1>2 DEF AddProjectHook, Owner
<1> HIDE DEF new
<1>4. \A h \in hooks : h.id # new.id
    <2>1. hookCount \in Nat /\ \A h \in hooks : h.id \in 1..hookCount
        BY DEF HInv, OInv, Details, OutsideTyped
    <2> QED BY <1>3, <2>1
<1>5. held[w] \in Keys /\ HookRecord(held[w]).hook = NoHook
    BY CreatorKnowsOfNone DEF Recorded, HookRecord
<1> QED BY <1>1, <1>3, <1>4, <1>5, RecordsStay DEF Lifecycle!Register

LEMMA OtherStepsRefine ==
    ASSUME HInv, NobodyMoved, [Next]_vars, UNCHANGED server,
           \A w \in Workers : CreateWebhook(w) => UNCHANGED hooks
    PROVE  Lifecycle!Unregister
<1>1. hooks' \subseteq hooks
    BY OnlyRequestsChangeHooks DEF DeleteWebhook, DeleteProjectHook
<1>2. ASSUME NEW h \in hooks \ hooks', HookRecord(h.owner[1]).uid = h.owner[2]
      PROVE  HookRecord(h.owner[1]).deleting
    <2>1. h.owner[1] \in Keys /\ h.owner[2] # 0
        BY DEF HInv, OInv, Details, OutsideTyped, Owners, Uids
    <2>2. Alive(h.owner)
        BY <1>2, <2>1 DEF HookRecord, Alive
    <2> QED BY <2>1, <2>2, LostHooksAreOfTheDying DEF HookRecord, Alive
<1>3. \A h \in hooks : h.owner[1] \in Keys
    BY DEF HInv, OInv, Details, OutsideTyped, Owners
<1> QED BY <1>1, <1>2, <1>3, RecordsStay, EventsStay DEF Lifecycle!Unregister, Lifecycle!Alive

LEMMA HooksRefine ==
    ASSUME AInv, NobodyMoved, [Next]_vars PROVE Lifecycle!Next
<1> USE DEF AInv, Lifecycle!Next
<1>1. CASE UNCHANGED server
    BY <1>1, CreateWebhookRefines, OtherStepsRefine
<1>2. CASE \E k \in Keys : WritesOf(k)
    BY <1>2, CreateSourceRefines, UserWriteRefines DEF WritesOf
<1>3. CASE \E w \in Workers : WritesBy(w)
    BY <1>1, <1>3, UpdateStatusRefines, UpdateFinalizersRefines DEF WritesBy
<1> QED BY <1>1, <1>2, <1>3, NoWriteNoChange

\* ImplementsHookLifecycle: as long as GitLab's page shows the hooks that are looked for
\* and no source has moved to another GitLab when its hook is deleted, every write to the
\* API server, registration and deletion is one that HookLifecycle allows, though
\* Reconcile decides on them by snapshots of a cache that lags behind, and requests are
\* lost, refused and repeated.
THEOREM HooksLiveAsPromised ==
    Spec /\ []HookIsListed /\ []NobodyMoved => ImplementsHookLifecycle
<1>1. Init => Lifecycle!Init /\ Accounted /\ HooksAgree
    <2>1. Init => Lifecycle!Init
        BY DEF Init, Lifecycle!Init
    <2>2. Init => HooksAgree
        BY DEF Init, HooksAgree, Recorded
    <2> QED BY <2>1, <2>2, HooksInit
<1>2. AInv /\ HookIsListed /\ [Next]_vars => Accounted' /\ HooksAgree'
    BY HooksNext, AgreementNext DEF AInv
<1>3. AInv /\ NobodyMoved /\ [Next]_vars => [Lifecycle!Next]_(Lifecycle!vars)
    BY HooksRefine
<1> QED BY <1>1, <1>2, <1>3, HooksInvariance, PTL
        DEF Spec, AInv, ImplementsHookLifecycle, Lifecycle!Spec

=============================================================================

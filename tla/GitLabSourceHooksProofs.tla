----------------------- MODULE GitLabSourceHooksProofs -----------------------
(***************************************************************************)
(* What becomes of the webhooks, for any number of sources and workers and *)
(* under all faults and edits: no source that has its hook recorded gets a *)
(* second one, only a source that moved to another GitLab can take a hook  *)
(* from one that lives, and a hook whose ID was stored together with the   *)
(* finalizer is not lost sight of as long as GitLab's list shows the hooks *)
(* that are looked for.                                                    *)
(***************************************************************************)
EXTENDS GitLabSourceObjectsProofs

\* Phases of a worker before it has written anything.
ServingPhases == {"secrets", "sink", "receiver", "deployment", "service", "webhook"}
FinalizingPhases == {"finalize", "deleteWebhook"}

\* A source that has its hook recorded.
Recorded(k) == server[k] # NoSource /\ server[k].status.hookID # NoHook

\* A copy names hooks of its own key, registered for it or for a predecessor.
HooksBelong ==
    \A k \in Keys : \A v \in Copies(k), h \in hooks :
        h.id = v.status.hookID => h.owner[1] = k /\ h.owner[2] <= v.uid

\* An older copy is of the same object or a predecessor, and a deletion is final.
CopiesAge ==
    \A k \in Keys :
        /\ server[k] # NoSource => server[k].rv = revision[k] /\ server[k].uid = created[k]
        /\ \A v \in Copies(k) : v.rv <= revision[k] /\ v.uid <= created[k]
        /\ \A u, v \in Copies(k) : u.rv <= v.rv =>
            /\ u.uid <= v.uid
            /\ u.uid = v.uid /\ u.deleting => v.deleting

\* Snapshots are older than the cache, the cache than what the watch brings, which
\* ends with what the server has.
WatchInOrder ==
    \A k \in Keys :
        /\ watch[k] # <<>> => watch[k][Len(watch[k])] = server[k]
        /\ \A i, j \in 1..Len(watch[k]) :
            i < j /\ watch[k][i] # NoSource /\ watch[k][j] # NoSource =>
                watch[k][i].rv < watch[k][j].rv
        /\ cache[k] # NoSource => \A v \in Brought(k) : cache[k].rv < v.rv
        /\ \A s \in Snapshots(k) :
            /\ cache[k] # NoSource => s.rv <= cache[k].rv
            /\ \A v \in Brought(k) : s.rv <= v.rv

\* Finalizing is for sources that are being deleted, and for no others.
PhasesFit ==
    \A w \in Workers :
        /\ pc[w] \in ServingPhases => ~source[w].deleting
        /\ pc[w] \in FinalizingPhases => source[w].deleting

\* A hook is recorded only in an object that the cache has, and only by the worker.
NewcomersHaveNoHook ==
    \A k \in Keys : Recorded(k) =>
        /\ cache[k] # NoSource => cache[k].uid = server[k].uid
        /\ \A v \in Brought(k) : v.uid = server[k].uid
        /\ \A w \in Workers :
            held[w] = k /\ pc[w] \in ServingPhases \cup FinalizingPhases =>
                source[w].uid = server[k].uid

\* Whoever looks at a recorded source knows of a hook, unless he has given it up.
HooksRemembered ==
    \A k \in Keys : Recorded(k) =>
        \A v \in Copies(k) :
            v.status.hookID = NoHook => v.deleting /\ v.uid = server[k].uid

Gone(id) == \A h \in hooks : h.id # id
Released(id) == id = NoHook \/ id \in warned \/ Gone(id)

\* Whoever looks at a recorded source knows its hook, as long as there is one.
HooksKnown ==
    \A k \in Keys : Recorded(k) =>
        \A v \in Copies(k) :
            v.status.hookID = server[k].status.hookID \/ Gone(server[k].status.hookID)

\* The finalizer is taken away only once the hook is gone or was named in an event.
HooksReleased ==
    \A w \in Workers : Active(w) =>
        LET before == original[w].finalizers
            after == source[w].finalizers
        IN  /\ before \ {finalizerName} = after \ {finalizerName}
            /\ pc[w] \in ServingPhases => before \subseteq after
            /\ pc[w] = "finalizers" => before # after
            /\ pc[w] \in {"status", "finalizers"} /\ ~(before \subseteq after) =>
                /\ Released(source[w].status.hookID)
                /\ server[held[w]] # NoSource => Released(server[held[w]].status.hookID)

\* ProtectedHooksAccounted, with the place where a hook is recorded.
ProtectedHooksStay ==
    \A h \in hooks : h.id \in protected /\ h.id \notin warned =>
        /\ server[h.owner[1]] # NoSource
        /\ server[h.owner[1]].status.hookID = h.id
        /\ finalizerName \in server[h.owner[1]].finalizers

\* A hook that is looked for is on the page that GitLab lists, for which its project
\* must still be the source's.
HookIsListed ==
    \A w \in Workers : pc[w] = "deleteWebhook" =>
        \A page \in Pages(source[w].project), h \in hooks :
            h.id = source[w].status.hookID => h \in page

\* The source whose hook is deleted has not gone to another GitLab since.
NobodyMoved == \A w \in Workers : pc[w] = "deleteWebhook" => ~Moved(w)

Tracked ==
    /\ HooksBelong
    /\ CopiesAge
    /\ WatchInOrder
    /\ PhasesFit
    /\ NewcomersHaveNoHook
    /\ HooksRemembered

Accounted ==
    /\ HooksKnown
    /\ HooksReleased
    /\ ProtectedHooksStay

\* OInv has the types; Accounted needs Tracked, and that GitLab lists what is sought.
HInv == OInv /\ Tracked

LEMMA NoHookIsNoID == NoHook \notin Nat
BY ConstantsAssumption

LEMMA NoSourceIsNoObject ==
    ASSUME hookCount \in Nat PROVE NoSource \notin ObjectsUpTo(hookCount)
<1>1. \A o \in ObjectsUpTo(hookCount) : o \in SourceObjects(Nat)
    BY DEF ObjectsUpTo, StatusesUpTo, SourceObjects
<1> QED BY <1>1, NoSourceAssumption

LEMMA CopiesAreObjects ==
    ASSUME OInv, NEW k \in Keys
    PROVE  /\ Copies(k) \subseteq ObjectsUpTo(hookCount)
           /\ hookCount \in Nat /\ revision[k] \in Nat /\ created[k] \in Nat
           /\ \A v \in Copies(k) :
                /\ v.rv \in Nat /\ v.uid \in Nat
                /\ v.status.hookID \in (1..hookCount) \cup {NoHook}
                /\ v.deleting \in BOOLEAN
<1> USE DEF OInv, Details
<1>1. Brought(k) \subseteq ObjectsUpTo(hookCount)
    <2>1. watch[k] \in Seq(VersionsUpTo(hookCount))
        BY DEF ObjectsTyped
    <2>2. \A i \in 1..Len(watch[k]) : watch[k][i] \in VersionsUpTo(hookCount)
        BY <2>1
    <2> QED BY <2>2 DEF Brought, VersionsUpTo
<1>2. Snapshots(k) \subseteq ObjectsUpTo(hookCount)
    BY DEF Snapshots, Active, WorkersHold
<1>3. Copies(k) \subseteq ObjectsUpTo(hookCount)
    BY <1>1, <1>2, CachedIsObject DEF Copies
<1>4. hookCount \in Nat /\ revision[k] \in Nat /\ created[k] \in Nat
    BY ConstantsAssumption DEF OutsideTyped, ObjectsTyped
<1>5. \A v \in ObjectsUpTo(hookCount) : v.uid \in Nat /\ v.rv \in Nat /\ v.deleting \in BOOLEAN
    BY ConstantsAssumption DEF ObjectsUpTo, Uids
<1>6. \A v \in ObjectsUpTo(hookCount) : v.status.hookID \in (1..hookCount) \cup {NoHook}
    BY <1>4, FieldsOfObjects
<1> QED BY <1>3, <1>4, <1>5, <1>6

-----------------------------------------------------------------------------
(* Steps that make no new version: copies are dropped or passed on *)

OutsideFrame ==
    UNCHANGED <<server, revision, created, protected, hooks, hookCount, warned>>

LEMMA NoNewVersionKeeps ==
    ASSUME OutsideFrame, \A k \in Keys : Copies(k)' \subseteq Copies(k)
    PROVE  /\ HooksBelong => HooksBelong'
           /\ CopiesAge => CopiesAge'
           /\ HooksRemembered => HooksRemembered'
           /\ HooksKnown => HooksKnown'
           /\ ProtectedHooksStay => ProtectedHooksStay'
<1> USE DEF OutsideFrame
<1>1. HooksBelong => HooksBelong'
    BY DEF HooksBelong
<1>2. CopiesAge => CopiesAge'
    BY DEF CopiesAge
<1>3. HooksRemembered => HooksRemembered'
    BY DEF HooksRemembered, Recorded
<1>4. HooksKnown => HooksKnown'
    BY DEF HooksKnown, Recorded, Gone
<1>5. ProtectedHooksStay => ProtectedHooksStay'
    BY DEF ProtectedHooksStay
<1> QED BY <1>1, <1>2, <1>3, <1>4, <1>5

\* Active workers go on as they are, from one write to the other, or drop what they
\* have.
WorkersKeep ==
    \A w \in Workers : Active(w)' =>
        /\ Active(w)
        /\ UNCHANGED <<held[w], original[w], source[w]>>
        /\ \/ pc'[w] = pc[w]
           \/ /\ pc[w] = "status" /\ pc'[w] = "finalizers"
              /\ original[w].finalizers # source[w].finalizers

LEMMA SnapshotsOfKeeping ==
    ASSUME WorkersKeep, NEW k \in Keys PROVE Snapshots(k)' \subseteq Snapshots(k)
BY DEF WorkersKeep, Snapshots

LEMMA WorkersKeepKeeps ==
    ASSUME WorkersKeep, UNCHANGED <<server, hooks, warned>>
    PROVE  /\ PhasesFit => PhasesFit'
           /\ HooksReleased => HooksReleased'
<1>1. PhasesFit => PhasesFit'
    BY DEF WorkersKeep, PhasesFit, Active, ServingPhases, FinalizingPhases
<1>2. HooksReleased => HooksReleased'
    BY DEF WorkersKeep, HooksReleased, Released, Gone, ServingPhases
<1> QED BY <1>1, <1>2

\* Nothing changes hands.
LEMMA QuietStepKeeps ==
    ASSUME OutsideFrame, WorkersKeep, UNCHANGED <<cache, watch>>
    PROVE  (Tracked => Tracked') /\ (Accounted => Accounted')
<1> USE DEF OutsideFrame
<1>1. ASSUME NEW k \in Keys PROVE Brought(k)' = Brought(k) /\ Snapshots(k)' \subseteq Snapshots(k)
    BY SnapshotsOfKeeping DEF Brought
<1>2. \A k \in Keys : Copies(k)' \subseteq Copies(k)
    BY <1>1 DEF Copies
<1>3. WatchInOrder => WatchInOrder'
    BY <1>1 DEF WatchInOrder
<1>4. NewcomersHaveNoHook => NewcomersHaveNoHook'
    BY <1>1 DEF NewcomersHaveNoHook, WorkersKeep, Recorded, Active, ServingPhases,
                FinalizingPhases
<1> QED BY <1>2, <1>3, <1>4, NoNewVersionKeeps, WorkersKeepKeeps DEF Tracked, Accounted

\* Notifications, retries, the environment, and the ends of a reconciliation.
LEMMA QuietStepsKeep ==
    ASSUME HInv,
           \/ \E k \in Keys : Notify(k) \/ RetryDue(k) \/ Resync(k)
           \/ \E w \in Workers : Take(w) \/ Finish(w)
           \/ EditEnvironment
           \/ \E v \in services : ProvisionIngress(v)
           \/ \E owner \in Owners : CollectGarbage(owner)
           \/ UNCHANGED vars
    PROVE  Tracked' /\ (Accounted => Accounted')
<1> USE DEF apiVars, informerVars, gitlabVars, accountVars
<1>1. OutsideFrame /\ UNCHANGED <<cache, watch>>
    BY DEF OutsideFrame, Notify, RetryDue, Resync, Take, Finish, EditEnvironment,
           ProvisionIngress, CollectGarbage, clusterFrame, vars
<1>2. ASSUME UNCHANGED workerVars PROVE WorkersKeep
    BY <1>2 DEF workerVars, WorkersKeep, Active
<1>3. ASSUME NEW w \in Workers, Take(w) \/ Finish(w) PROVE WorkersKeep
    <2>1. pc \in [Workers -> Phases] /\ DOMAIN held = Workers /\ DOMAIN source = Workers
          /\ DOMAIN original = Workers
        BY DEF HInv, OInv, IInv, WorkersTyped, Details, WorkersHold
    <2>2. pc'[w] \in {"get", "lookup"}
        BY <1>3, <2>1 DEF Take, Finish
    <2>3. \A v \in Workers \ {w} : UNCHANGED <<pc[v], held[v], original[v], source[v]>>
        BY <1>3, <2>1 DEF Take, Finish
    <2> QED BY <2>2, <2>3 DEF WorkersKeep, Active
<1>4. WorkersKeep
    BY <1>2, <1>3 DEF Notify, RetryDue, Resync, EditEnvironment, ProvisionIngress,
                      CollectGarbage, clusterFrame, vars
<1> QED BY <1>1, <1>4, QuietStepKeeps DEF HInv

\* The first version on the watch becomes the cache's.
LEMMA DeliverKeeps ==
    ASSUME HInv, NEW k \in Keys, Deliver(k)
    PROVE  Tracked' /\ (Accounted => Accounted')
<1> USE DEF HInv, Tracked
<1>1. /\ watch[k] # <<>>
      /\ cache' = [cache EXCEPT ![k] = Head(watch[k])]
      /\ watch' = [watch EXCEPT ![k] = Tail(@)]
      /\ OutsideFrame
      /\ UNCHANGED workerVars
    BY DEF Deliver, OutsideFrame, apiVars, accountVars, gitlabVars
<1>2. WorkersKeep
    BY <1>1 DEF workerVars, WorkersKeep, Active
<1>3. /\ watch[k] \in Seq(VersionsUpTo(hookCount))
      /\ cache \in [Keys -> VersionsUpTo(hookCount)]
      /\ DOMAIN watch = Keys
    BY DEF OInv, Details, ObjectsTyped
<1>4. /\ Len(watch[k]) \in Nat /\ Len(Tail(watch[k])) = Len(watch[k]) - 1
      /\ 1 \in 1..Len(watch[k]) /\ cache'[k] = watch[k][1]
      /\ \A i \in 1..Len(Tail(watch[k])) :
            i + 1 \in 1..Len(watch[k]) /\ watch'[k][i] = watch[k][i + 1]
      /\ watch'[k] = Tail(watch[k])
    BY <1>1, <1>3
<1>5. \A l \in Keys \ {k} : cache'[l] = cache[l] /\ watch'[l] = watch[l]
    BY <1>1, <1>3
<1>6. \A l \in Keys : Snapshots(l)' = Snapshots(l)
    BY <1>1 DEF workerVars, Snapshots, Active
<1>7. /\ Brought(k)' \subseteq Brought(k)
      /\ cache'[k] # NoSource => cache'[k] \in Brought(k)
    BY <1>4 DEF Brought
<1>8. \A l \in Keys \ {k} : Brought(l)' = Brought(l)
    BY <1>5 DEF Brought
<1>9. \A l \in Keys : Copies(l)' \subseteq Copies(l)
    BY <1>1, <1>5, <1>6, <1>7, <1>8 DEF Copies, OutsideFrame
<1>10. NewcomersHaveNoHook'
    BY <1>1, <1>5, <1>7, <1>8 DEF NewcomersHaveNoHook, Recorded, OutsideFrame, workerVars
<1>11. WatchInOrder'
    <2>1. ASSUME NEW l \in Keys \ {k} PROVE
            /\ watch'[l] = watch[l] /\ cache'[l] = cache[l] /\ server'[l] = server[l]
            /\ Brought(l)' = Brought(l) /\ Snapshots(l)' = Snapshots(l)
        BY <1>1, <1>5, <1>6, <1>8 DEF OutsideFrame
    <2>2. watch'[k] # <<>> => watch'[k][Len(watch'[k])] = server'[k]
        BY <1>1, <1>3, <1>4 DEF WatchInOrder, OutsideFrame
    <2>3. \A i, j \in 1..Len(watch'[k]) :
            i < j /\ watch'[k][i] # NoSource /\ watch'[k][j] # NoSource =>
                watch'[k][i].rv < watch'[k][j].rv
        BY <1>4 DEF WatchInOrder
    <2>4. cache'[k] # NoSource => \A v \in Brought(k)' : cache'[k].rv < v.rv
        <3>1. ASSUME cache'[k] # NoSource, NEW i \in 1..Len(watch'[k]), watch'[k][i] # NoSource
              PROVE  cache'[k].rv < watch'[k][i].rv
            BY <1>4, <3>1 DEF WatchInOrder
        <3> QED BY <3>1 DEF Brought
    <2>5. \A s \in Snapshots(k)' :
            /\ cache'[k] # NoSource => s.rv <= cache'[k].rv
            /\ \A v \in Brought(k)' : s.rv <= v.rv
        BY <1>6, <1>7 DEF WatchInOrder
    <2> QED BY <2>1, <2>2, <2>3, <2>4, <2>5 DEF WatchInOrder
<1> QED BY <1>1, <1>2, <1>9, <1>10, <1>11, NoNewVersionKeeps, WorkersKeepKeeps
        DEF Accounted, OutsideFrame

\* The cache is listed afresh, by the reflector or by a new process.
LEMMA ListingKeepsHooks ==
    ASSUME HInv, OutsideFrame, WorkersKeep, cache' = server, watch' = [k \in Keys |-> <<>>]
    PROVE  Tracked' /\ (Accounted => Accounted')
<1> USE DEF HInv, Tracked, OutsideFrame
<1>1. \A k \in Keys : watch'[k] = <<>> /\ 1..Len(watch'[k]) = {}
    <2>1. Len(<<>>) = 0 /\ 1..0 = {}
        OBVIOUS
    <2> QED BY <2>1
<1>2. \A k \in Keys : Brought(k)' = {}
    BY <1>1 DEF Brought
<1>3. \A k \in Keys : Snapshots(k)' \subseteq Snapshots(k)
    BY SnapshotsOfKeeping
<1>4. \A k \in Keys : Copies(k)' \subseteq Copies(k)
    BY <1>2, <1>3 DEF Copies
<1>5. WatchInOrder'
    <2>1. ASSUME NEW k \in Keys, NEW s \in Snapshots(k)', cache'[k] # NoSource
          PROVE  s.rv <= cache'[k].rv
        <3>1. s \in Copies(k) /\ cache'[k] = server[k]
            BY <1>3 DEF Copies
        <3> QED BY <2>1, <3>1 DEF CopiesAge
    <2> QED BY <1>1, <1>2, <2>1 DEF WatchInOrder
<1>6. NewcomersHaveNoHook'
    BY <1>2 DEF NewcomersHaveNoHook, Recorded, WorkersKeep, Active, ServingPhases,
                FinalizingPhases
<1> QED BY <1>4, <1>5, <1>6, NoNewVersionKeeps, WorkersKeepKeeps DEF Accounted

LEMMA RelistKeeps ==
    ASSUME HInv, Relist PROVE Tracked' /\ (Accounted => Accounted')
<1>1. OutsideFrame
    BY DEF Relist, OutsideFrame, apiVars, gitlabVars, accountVars
<1>2. WorkersKeep
    BY DEF Relist, WorkersKeep, Active, workerVars
<1> QED BY <1>1, <1>2, ListingKeepsHooks DEF Relist

LEMMA RestartKeepsHooks ==
    ASSUME HInv, Restart PROVE Tracked' /\ (Accounted => Accounted')
<1>1. OutsideFrame
    BY DEF Restart, OutsideFrame, apiVars, gitlabVars, accountVars
<1>2. WorkersKeep
    BY DEF Restart, WorkersKeep, Active
<1> QED BY <1>1, <1>2, ListingKeepsHooks DEF Restart

-----------------------------------------------------------------------------
(* Requests: a worker goes on with a changed deep copy *)

Advances(w, s, phase) ==
    /\ source' = [source EXCEPT ![w] = s]
    /\ pc' = [pc EXCEPT ![w] = phase]
    /\ UNCHANGED <<held, original, created>>
    /\ ServerFrame

SameObject(s, t) == s.uid = t.uid /\ s.rv = t.rv /\ s.deleting = t.deleting

\* What is new in GitLab is the hook of this worker's source.
OwnHooksOnly(w) ==
    /\ \A h \in hooks' \ hooks : h.id = hookCount + 1 /\ h.owner = Owner(w)
    /\ warned \subseteq warned'

\* A worker keeps the ID it knows, or has just created the hook, or gave up the one
\* that a source under deletion had.
KeepsTheHook(w, s) == s.status.hookID = source[w].status.hookID
CreatedTheHook(w, s) ==
    s.status.hookID = hookCount + 1 /\ source[w].status.hookID = NoHook /\ ~s.deleting
GaveUpTheHook(w, s) ==
    /\ s.status.hookID = NoHook /\ s.deleting
    /\ Recorded(held[w]) => s.uid = server[held[w]].uid

LEMMA CopiesOfAdvance ==
    ASSUME HInv, NEW w \in Workers, Active(w), NEW s, NEW phase \in Phases,
           Advances(w, s, phase), NEW k \in Keys
    PROVE  /\ Brought(k)' = Brought(k)
           /\ Snapshots(k)' \subseteq Snapshots(k) \cup (IF k = held[w] THEN {s} ELSE {})
           /\ Copies(k)' \subseteq Copies(k) \cup (IF k = held[w] THEN {s} ELSE {})
           /\ k = held[w] => source[w] \in Snapshots(k) /\ source[w] \in Copies(k)
<1>1. DOMAIN source = Workers /\ pc \in [Workers -> Phases]
    BY DEF HInv, OInv, IInv, WorkersTyped
<1>2. Brought(k)' = Brought(k)
    BY DEF Advances, ServerFrame, Brought
<1>3. \A v \in Workers : v # w => source'[v] = source[v] /\ pc'[v] = pc[v]
    BY <1>1 DEF Advances
<1>4. source'[w] = s /\ held' = held
    BY <1>1 DEF Advances
<1>5. Snapshots(k)' \subseteq Snapshots(k) \cup (IF k = held[w] THEN {s} ELSE {})
    BY <1>3, <1>4 DEF Snapshots, Active
<1>6. k = held[w] => source[w] \in Snapshots(k)
    BY DEF Snapshots
<1>7. server' = server /\ cache' = cache
    BY DEF Advances, ServerFrame
<1> QED BY <1>2, <1>5, <1>6, <1>7 DEF Copies

LEMMA AdvanceIsTracked ==
    ASSUME HInv, NEW w \in Workers, Active(w), NEW s, NEW phase \in Phases,
           Advances(w, s, phase), SameObject(s, source[w]), OwnHooksOnly(w),
           phase \in ServingPhases => pc[w] \in ServingPhases,
           phase \in FinalizingPhases => pc[w] \in FinalizingPhases,
           KeepsTheHook(w, s) \/ CreatedTheHook(w, s) \/ GaveUpTheHook(w, s)
    PROVE  Tracked'
<1> USE DEF HInv, Tracked
<1>1. held[w] \in Keys /\ pc \in [Workers -> Phases] /\ DOMAIN source = Workers
    BY OwnerIsOwner DEF Active, OInv, IInv, WorkersTyped
<1>2. UNCHANGED <<server, revision, created, watch, cache, held>>
    BY DEF Advances, ServerFrame
<1>3. source[w] \in Copies(held[w])
    BY <1>1, CopiesOfAdvance
<1>4. ASSUME NEW k \in Keys, NEW v \in Copies(k)'
      PROVE  \E u \in Copies(k) : SameObject(v, u) /\ (v = u \/ (v = s /\ k = held[w]))
    <2>1. CASE v \in Copies(k)
        BY <2>1 DEF SameObject
    <2>2. CASE v \notin Copies(k)
        <3>1. v = s /\ k = held[w]
            BY <1>4, <2>2, CopiesOfAdvance
        <3> QED BY <1>3, <3>1
    <2> QED BY <2>1, <2>2
<1>5. CopiesAge'
    <2>1. ASSUME NEW k \in Keys, NEW v \in Copies(k)' PROVE v.rv <= revision[k] /\ v.uid <= created[k]
        BY <1>4, <2>1 DEF CopiesAge, SameObject
    <2>2. ASSUME NEW k \in Keys, NEW u \in Copies(k)', NEW v \in Copies(k)', u.rv <= v.rv
          PROVE  u.uid <= v.uid /\ (u.uid = v.uid /\ u.deleting => v.deleting)
        <3> PICK t \in Copies(k) : SameObject(u, t)
            BY <1>4
        <3> PICK x \in Copies(k) : SameObject(v, x)
            BY <1>4
        <3> QED BY <2>2 DEF CopiesAge, SameObject
    <2> QED BY <1>2, <2>1, <2>2 DEF CopiesAge
<1>6. HooksBelong'
    <2> SUFFICES ASSUME NEW k \in Keys, NEW v \in Copies(k)', NEW h \in hooks',
                        h.id = v.status.hookID
                 PROVE  h.owner[1] = k /\ h.owner[2] <= v.uid
        BY DEF HooksBelong
    <2>1. hookCount \in Nat /\ \A g \in hooks : g.id \in 1..hookCount
        BY DEF OInv, Details, OutsideTyped
    <2>2. \A u \in Copies(k) : u.status.hookID \in (1..hookCount) \cup {NoHook} /\ u.uid \in Nat
        BY CopiesAreObjects
    <2>3. hookCount + 1 # NoHook /\ \A g \in hooks : g.id # NoHook
        BY <2>1, NoHookIsNoID
    <2>4. h \notin hooks => h.id = hookCount + 1 /\ h.owner = <<held[w], source[w].uid>>
        BY DEF OwnHooksOnly, Owner
    <2>5. PICK u \in Copies(k) : SameObject(v, u) /\ (v = u \/ (v = s /\ k = held[w]))
        BY <1>4
    <2>6. CASE h \in hooks /\ v = u
        BY <2>6 DEF HooksBelong
    <2>7. CASE h \notin hooks /\ v = u
        BY <2>1, <2>2, <2>3, <2>4, <2>7
    <2>8. CASE h \in hooks /\ v = s /\ k = held[w]
        <3>1. s.status.hookID = source[w].status.hookID
            BY <2>1, <2>3, <2>8 DEF KeepsTheHook, CreatedTheHook, GaveUpTheHook
        <3> QED BY <1>3, <2>8, <3>1 DEF HooksBelong, SameObject
    <2>9. CASE h \notin hooks /\ v = s /\ k = held[w]
        <3>1. s.uid = source[w].uid /\ source[w].uid \in Nat
            BY <1>3, <2>2, <2>9 DEF SameObject
        <3> QED BY <2>4, <2>9, <3>1
    <2> QED BY <2>5, <2>6, <2>7, <2>8, <2>9
<1>7. WatchInOrder'
    <2>1. ASSUME NEW k \in Keys, NEW v \in Snapshots(k)'
          PROVE  \E u \in Snapshots(k) : v.rv = u.rv
        BY CopiesOfAdvance DEF SameObject
    <2>2. \A k \in Keys : Brought(k)' = Brought(k)
        BY CopiesOfAdvance
    <2> QED BY <1>2, <2>1, <2>2 DEF WatchInOrder
<1>8. PhasesFit'
    <2>1. \A v \in Workers : v # w => source'[v] = source[v] /\ pc'[v] = pc[v]
        BY <1>1 DEF Advances
    <2>2. source'[w] = s /\ pc'[w] = phase
        BY <1>1 DEF Advances
    <2> QED BY <2>1, <2>2 DEF PhasesFit, SameObject
<1>9. NewcomersHaveNoHook'
    <2>1. \A v \in Workers : v # w => source'[v] = source[v] /\ pc'[v] = pc[v]
        BY <1>1 DEF Advances
    <2>2. source'[w] = s /\ pc'[w] = phase
        BY <1>1 DEF Advances
    <2>3. \A k \in Keys : Brought(k)' = Brought(k)
        BY CopiesOfAdvance
    <2> QED BY <1>2, <2>1, <2>2, <2>3 DEF NewcomersHaveNoHook, SameObject, Recorded
<1>10. HooksRemembered'
    <2> SUFFICES ASSUME NEW k \in Keys, Recorded(k), NEW v \in Copies(k)', v.status.hookID = NoHook
                 PROVE  v.deleting /\ v.uid = server[k].uid
        BY <1>2 DEF HooksRemembered, Recorded
    <2>1. CASE v \in Copies(k)
        BY <2>1 DEF HooksRemembered
    <2>2. CASE v \notin Copies(k)
        <3>1. v = s /\ k = held[w]
            BY <2>2, CopiesOfAdvance
        <3>2. CASE KeepsTheHook(w, s)
            BY <1>3, <3>1, <3>2 DEF KeepsTheHook, HooksRemembered, SameObject
        <3>3. hookCount + 1 # NoHook
            BY NoHookIsNoID DEF OInv, Details, OutsideTyped
        <3> QED BY <3>1, <3>2, <3>3 DEF CreatedTheHook, GaveUpTheHook
    <2> QED BY <2>1, <2>2
<1> QED BY <1>5, <1>6, <1>7, <1>8, <1>9, <1>10

\* The same after the step.
GoneThen(id) == \A h \in hooks' : h.id # id
ReleasedThen(id) == id = NoHook \/ id \in warned' \/ GoneThen(id)

\* What Reconcile makes of the finalizers: it may add its own, or remove it from a
\* source whose hook is released.
FinalizersFit(w, s, phase) ==
    LET before == original[w].finalizers
        after == s.finalizers
    IN  /\ before \ {finalizerName} = after \ {finalizerName}
        /\ phase \in ServingPhases => before \subseteq after
        /\ phase = "finalizers" => before # after
        /\ phase \in {"status", "finalizers"} /\ ~(before \subseteq after) =>
            ReleasedThen(source[w].status.hookID)

\* IDs that have been given and are free of their hook stay so.
LEMMA ReleasedStay ==
    ASSUME OInv, NEW w \in Workers, OwnHooksOnly(w), NEW id \in (1..hookCount) \cup {NoHook}
    PROVE  (Gone(id) => GoneThen(id)) /\ (Released(id) => ReleasedThen(id))
<1>1. hookCount \in Nat /\ id # hookCount + 1
    BY NoHookIsNoID DEF OInv, Details, OutsideTyped
<1>2. Gone(id) => GoneThen(id)
    BY <1>1 DEF Gone, GoneThen, OwnHooksOnly
<1> QED BY <1>2 DEF Released, ReleasedThen, OwnHooksOnly

LEMMA AdvanceIsAccounted ==
    ASSUME HInv, Accounted, NEW w \in Workers, Active(w), NEW s, NEW phase \in Phases,
           Advances(w, s, phase), SameObject(s, source[w]), OwnHooksOnly(w),
           KeepsTheHook(w, s) \/ CreatedTheHook(w, s) \/ GaveUpTheHook(w, s),
           FinalizersFit(w, s, phase),
           CreatedTheHook(w, s) => original[w].finalizers \subseteq s.finalizers,
           GaveUpTheHook(w, s) /\ Recorded(held[w]) => GoneThen(server[held[w]].status.hookID)
    PROVE  Accounted'
<1> USE DEF HInv, Tracked, Accounted
<1>1. held[w] \in Keys /\ pc \in [Workers -> Phases] /\ DOMAIN source = Workers
    BY OwnerIsOwner DEF Active, OInv, IInv, WorkersTyped
<1>2. UNCHANGED <<server, revision, created, watch, cache, held, original, protected>>
    BY DEF Advances, ServerFrame
<1>3. source[w] \in Copies(held[w])
    BY <1>1, CopiesOfAdvance
<1>4. hookCount \in Nat
    BY DEF OInv, Details, OutsideTyped
<1>5. \A v \in Workers : v # w => source'[v] = source[v] /\ pc'[v] = pc[v]
    BY <1>1 DEF Advances
<1>6. source'[w] = s /\ pc'[w] = phase
    BY <1>1 DEF Advances
<1>7. \A k \in Keys : server[k] # NoSource =>
            server[k].status.hookID \in (1..hookCount) \cup {NoHook}
    BY CopiesAreObjects DEF Copies
<1>8. HooksKnown'
    <2> SUFFICES ASSUME NEW k \in Keys, Recorded(k), NEW v \in Copies(k)'
                 PROVE  v.status.hookID = server[k].status.hookID
                        \/ GoneThen(server[k].status.hookID)
        BY <1>2 DEF HooksKnown, Recorded, Gone, GoneThen
    <2>1. server[k].status.hookID \in (1..hookCount) \cup {NoHook}
        BY <1>7 DEF Recorded
    <2>2. \A u \in Copies(k) : u.status.hookID = server[k].status.hookID
                               \/ GoneThen(server[k].status.hookID)
        BY <2>1, ReleasedStay DEF HooksKnown
    <2>3. CASE v \in Copies(k)
        BY <2>2, <2>3
    <2>4. CASE v \notin Copies(k)
        <3>1. v = s /\ k = held[w]
            BY <2>4, CopiesOfAdvance
        <3>2. ~CreatedTheHook(w, s)
            BY <1>3, <3>1 DEF CreatedTheHook, HooksRemembered, SameObject
        <3>3. CASE KeepsTheHook(w, s)
            BY <1>3, <2>2, <3>1, <3>3 DEF KeepsTheHook
        <3> QED BY <3>1, <3>2, <3>3
    <2> QED BY <2>3, <2>4
<1>9. ProtectedHooksStay'
    <2>1. ASSUME NEW h \in hooks', h.id \in protected PROVE h \in hooks
        <3>1. h.id \in 1..hookCount
            BY <2>1 DEF OInv, Details, ObjectsTyped
        <3> QED BY <1>4, <3>1 DEF OwnHooksOnly
    <2> QED BY <1>2, <2>1 DEF ProtectedHooksStay, OwnHooksOnly
<1>10. ASSUME NEW k \in Keys, server[k] # NoSource, NEW v \in Copies(k),
              ReleasedThen(v.status.hookID)
       PROVE  ReleasedThen(server[k].status.hookID)
    <2>1. CASE Recorded(k)
        <3>1. CASE v.status.hookID = server[k].status.hookID
            BY <1>10, <3>1
        <3>2. CASE Gone(server[k].status.hookID)
            BY <1>7, <1>10, <3>2, ReleasedStay DEF ReleasedThen
        <3> QED BY <1>10, <2>1, <3>1, <3>2 DEF HooksKnown
    <2>2. CASE ~Recorded(k)
        BY <1>10, <2>2 DEF Recorded, ReleasedThen
    <2> QED BY <2>1, <2>2
<1>11. HooksReleased'
    <2> SUFFICES ASSUME NEW v \in Workers, Active(v)'
                 PROVE  LET before == original[v].finalizers
                            after == source'[v].finalizers
                        IN  /\ before \ {finalizerName} = after \ {finalizerName}
                            /\ pc'[v] \in ServingPhases => before \subseteq after
                            /\ pc'[v] = "finalizers" => before # after
                            /\ pc'[v] \in {"status", "finalizers"} /\ ~(before \subseteq after) =>
                                /\ ReleasedThen(source'[v].status.hookID)
                                /\ server[held[v]] # NoSource =>
                                        ReleasedThen(server[held[v]].status.hookID)
        BY <1>2 DEF HooksReleased, Released, Gone, ReleasedThen, GoneThen
    <2>1. CASE v # w
        <3>1. source'[v] = source[v] /\ pc'[v] = pc[v] /\ Active(v)
            BY <1>5, <2>1 DEF Active
        <3>2. held[v] \in Keys
            BY <3>1, OwnerIsOwner DEF Active
        <3>3. source[v] \in Copies(held[v])
            BY <3>1 DEF Copies, Snapshots
        <3>4. source[v].status.hookID \in (1..hookCount) \cup {NoHook}
            BY <3>2, <3>3, CopiesAreObjects
        <3>5. Released(source[v].status.hookID) => ReleasedThen(source[v].status.hookID)
            BY <3>4, ReleasedStay
        <3>6. server[held[v]] # NoSource /\ Released(server[held[v]].status.hookID)
                => ReleasedThen(server[held[v]].status.hookID)
            BY <1>7, <3>2, ReleasedStay
        <3> QED BY <3>1, <3>5, <3>6 DEF HooksReleased
    <2>2. CASE v = w
        <3>1. ReleasedThen(source[w].status.hookID) /\ server[held[w]] # NoSource =>
                ReleasedThen(server[held[w]].status.hookID)
            BY <1>1, <1>3, <1>10
        <3>2. ReleasedThen(source[w].status.hookID) /\ ~CreatedTheHook(w, s) =>
                ReleasedThen(s.status.hookID)
            BY DEF KeepsTheHook, GaveUpTheHook, ReleasedThen
        <3> QED BY <1>6, <2>2, <3>1, <3>2 DEF FinalizersFit
    <2> QED BY <2>1, <2>2
<1> QED BY <1>8, <1>9, <1>11

LEMMA ReturnAdvances ==
    ASSUME ServerFrame, UNCHANGED created, NEW w \in Workers, NEW s, NEW err,
           Return(w, s, err)
    PROVE  \E phase \in {"status", "finalizers", "finish"} :
                /\ Advances(w, s, phase)
                /\ phase = "finalizers" => original[w].finalizers # s.finalizers
<1> DEFINE next == IF s.status # original[w].status THEN "status" ELSE AfterStatus(w, s)
<1>1. next \in {"status", "finalizers", "finish"}
    BY AfterStatusIsInner
<1>2. next = "finalizers" => original[w].finalizers # s.finalizers
    BY DEF AfterStatus
<1>3. Advances(w, s, next)
    BY DEF Return, Advances
<1> HIDE DEF next
<1> QED BY <1>1, <1>2, <1>3

LEMMA ContinueAdvances ==
    ASSUME ServerFrame, UNCHANGED created, NEW w \in Workers, NEW s, NEW phase,
           Continue(w, s, phase)
    PROVE  Advances(w, s, phase)
BY DEF Continue, Advances

\* What is left alone by every change that Reconcile makes to its copy.
LEMMA CopiesChange ==
    ASSUME NEW n \in Nat, NEW o \in ObjectsUpTo(n)
    PROVE  /\ \A conds : /\ SameObject(WithConditions(o, conds), o)
                         /\ WithConditions(o, conds).status.hookID = o.status.hookID
                         /\ WithConditions(o, conds).finalizers = o.finalizers
           /\ \A uri, conds : /\ SameObject(WithSink(o, uri, conds), o)
                              /\ WithSink(o, uri, conds).status.hookID = o.status.hookID
                              /\ WithSink(o, uri, conds).finalizers = o.finalizers
           /\ \A id : /\ SameObject(WithHook(o, id), o)
                      /\ WithHook(o, id).status.hookID = id
                      /\ WithHook(o, id).finalizers = o.finalizers
           /\ /\ SameObject(addFinalizer(o), o)
              /\ addFinalizer(o).status = o.status
              /\ addFinalizer(o).finalizers = o.finalizers \cup {finalizerName}
           /\ /\ SameObject(removeFinalizer(o), o)
              /\ removeFinalizer(o).status = o.status
              /\ removeFinalizer(o).finalizers = o.finalizers \ {finalizerName}
BY DEF ObjectsUpTo, StatusesUpTo, SameObject, WithConditions, WithSink, WithHook,
       addFinalizer, removeFinalizer

\* A step of reconcile before the webhook is created: it may add the finalizer.
LEMMA ServingKeeps ==
    ASSUME HInv, NEW w \in Workers, pc[w] \in ServingPhases, ServerFrame,
           UNCHANGED <<created, hooks, hookCount, warned>>,
           NEW s, SameObject(s, source[w]), KeepsTheHook(w, s),
           \/ s.finalizers = source[w].finalizers
           \/ s.finalizers = source[w].finalizers \cup {finalizerName},
           \/ \E err \in BOOLEAN : Return(w, s, err)
           \/ \E phase \in ServingPhases : Continue(w, s, phase)
    PROVE  Tracked' /\ (Accounted => Accounted')
<1>1. Active(w)
    BY DEF Active, ServingPhases
<1>2. OwnHooksOnly(w)
    BY DEF OwnHooksOnly
<1>3. \E phase \in ServingPhases \cup {"status", "finalizers", "finish"} :
        /\ Advances(w, s, phase)
        /\ phase = "finalizers" => original[w].finalizers # s.finalizers
    <2>1. CASE \E err \in BOOLEAN : Return(w, s, err)
        BY <2>1, ReturnAdvances
    <2>2. CASE \E phase \in ServingPhases : Continue(w, s, phase)
        <3> PICK phase \in ServingPhases : Continue(w, s, phase)
            BY <2>2
        <3>1. phase # "finalizers"
            BY DEF ServingPhases
        <3> QED BY <3>1, ContinueAdvances
    <2> QED BY <2>1, <2>2
<1>4. PICK phase \in ServingPhases \cup {"status", "finalizers", "finish"} :
        /\ Advances(w, s, phase)
        /\ phase = "finalizers" => original[w].finalizers # s.finalizers
    BY <1>3
<1>5. phase \in Phases /\ phase \notin FinalizingPhases
    BY DEF Phases, ServingPhases, FinalizingPhases
<1>6. Tracked'
    BY <1>1, <1>2, <1>4, <1>5, AdvanceIsTracked
<1>7. ASSUME Accounted PROVE FinalizersFit(w, s, phase)
    BY <1>1, <1>4, <1>7 DEF FinalizersFit, Accounted, HooksReleased
<1>8. ~CreatedTheHook(w, s) /\ (GaveUpTheHook(w, s) => source[w].status.hookID = NoHook)
    BY NoHookIsNoID DEF CreatedTheHook, GaveUpTheHook, KeepsTheHook, HInv, OInv, Details, OutsideTyped
<1>9. ASSUME Accounted, GaveUpTheHook(w, s), Recorded(held[w])
      PROVE  GoneThen(server[held[w]].status.hookID)
    <2>1. source[w] \in Copies(held[w]) /\ held[w] \in Keys
        BY <1>1, OwnerIsOwner DEF Copies, Snapshots, Active, HInv
    <2>2. Gone(server[held[w]].status.hookID)
        BY <1>8, <1>9, <2>1 DEF Accounted, HooksKnown, Recorded
    <2> QED BY <2>2 DEF Gone, GoneThen
<1>10. Accounted => Accounted'
    BY <1>1, <1>2, <1>4, <1>5, <1>7, <1>8, <1>9, AdvanceIsAccounted
<1> QED BY <1>6, <1>10

LEMMA ServesObject ==
    ASSUME HInv, NEW w \in Workers, pc[w] \in ServingPhases \cup FinalizingPhases
    PROVE  Active(w) /\ source[w] \in ObjectsUpTo(hookCount) /\ hookCount \in Nat
BY DEF HInv, OInv, Details, OutsideTyped, WorkersHold, ServingPhases, FinalizingPhases, Active

\* A request that leaves its copy alone, or sets conditions, the sink or the finalizer.
ServingStep(w) ==
    \/ ReadSecrets(w)
    \/ ResolveSink(w)
    \/ FindReceiver(w)
    \/ CreateDeployment(w)
    \/ CreateService(w)
    \/ ListServicesFails(w)
    \/ KeepWebhook(w)

LEMMA ServingStepGoesOn ==
    ASSUME HInv, NEW w \in Workers, ServingStep(w)
    PROVE  /\ pc[w] \in ServingPhases
           /\ ServerFrame /\ UNCHANGED <<created, hooks, hookCount, warned>>
           /\ \E s : /\ SameObject(s, source[w])
                    /\ KeepsTheHook(w, s)
                    /\ \/ s.finalizers = source[w].finalizers
                       \/ s.finalizers = source[w].finalizers \cup {finalizerName}
                    /\ \/ \E err \in BOOLEAN : Return(w, s, err)
                       \/ \E phase \in ServingPhases : Continue(w, s, phase)
<1>1. pc[w] \in ServingPhases
    BY DEF ServingStep, ReadSecrets, ResolveSink, FindReceiver, CreateDeployment, CreateService,
           ListServicesFails, KeepWebhook, ServingPhases
<1>2. source[w] \in ObjectsUpTo(hookCount) /\ hookCount \in Nat
    BY <1>1, ServesObject
<1>3. ServerFrame /\ UNCHANGED <<created, hooks, hookCount, warned>>
    BY DEF ServingStep, ReadSecrets, ResolveSink, FindReceiver, CreateDeployment, CreateService,
           ListServicesFails, KeepWebhook, requestFrame, apiVars, informerVars, accountVars,
           gitlabVars, ServerFrame
<1> DEFINE Fits(s) ==
        /\ SameObject(s, source[w])
        /\ KeepsTheHook(w, s)
        /\ \/ s.finalizers = source[w].finalizers
           \/ s.finalizers = source[w].finalizers \cup {finalizerName}
<1>4. Fits(source[w])
    BY DEF SameObject, KeepsTheHook
<1>5. Fits(addFinalizer(source[w]))
    BY <1>2, CopiesChange DEF KeepsTheHook
<1>6. \A conds : Fits(WithConditions(source[w], conds))
    BY <1>2, CopiesChange DEF KeepsTheHook
<1>7. \A uri, conds : Fits(WithSink(source[w], uri, conds))
    BY <1>2, CopiesChange DEF KeepsTheHook
<1> HIDE DEF Fits
<1>8. \E s : /\ Fits(s)
             /\ \/ \E err \in BOOLEAN : Return(w, s, err)
                \/ \E phase \in ServingPhases : Continue(w, s, phase)
    <2> USE DEF ServingPhases
    <2>1. CASE ReadSecrets(w)
        BY <1>6, <2>1 DEF ReadSecrets
    <2>2. CASE ResolveSink(w)
        BY <1>6, <1>7, <2>2 DEF ResolveSink
    <2>3. CASE FindReceiver(w)
        BY <1>4, <1>5, <2>3 DEF FindReceiver
    <2>4. CASE CreateDeployment(w) \/ CreateService(w) \/ ListServicesFails(w) \/ KeepWebhook(w)
        BY <1>4, <2>4 DEF CreateDeployment, CreateService, ListServicesFails, KeepWebhook
    <2> QED BY <2>1, <2>2, <2>3, <2>4 DEF ServingStep
<1> QED BY <1>1, <1>3, <1>8 DEF Fits

LEMMA ServingStepKeepsHooks ==
    ASSUME HInv, NEW w \in Workers, ServingStep(w)
    PROVE  Tracked' /\ (Accounted => Accounted')
BY ServingStepGoesOn, ServingKeeps

\* A hook is created only for a source that the worker sees without one.
LEMMA CreateWebhookKeepsHooks ==
    ASSUME HInv, NEW w \in Workers, CreateWebhook(w)
    PROVE  Tracked' /\ (Accounted => Accounted')
<1>1. pc[w] = "webhook" /\ pc[w] \in ServingPhases /\ pc[w] \notin FinalizingPhases
    BY DEF CreateWebhook, ServingPhases, FinalizingPhases
<1>2. Active(w) /\ source[w] \in ObjectsUpTo(hookCount) /\ hookCount \in Nat
    BY <1>1, ServesObject
<1>3. ServerFrame /\ UNCHANGED <<created, warned>>
    BY DEF CreateWebhook, requestFrame, apiVars, informerVars, accountVars, ServerFrame
<1>4. CASE UNCHANGED gitlabVars /\ Return(w, source[w], TRUE)
    BY <1>1, <1>3, <1>4, ServingKeeps DEF gitlabVars, SameObject, KeepsTheHook
<1>5. ASSUME NEW v \in Candidates(w), AddProjectHook(w, v),
             NEW s \in {source[w], WithHook(source[w], hookCount + 1)},
             NEW err \in BOOLEAN, Return(w, s, err)
      PROVE  Tracked' /\ (Accounted => Accounted')
    <2>1. OwnHooksOnly(w)
        BY <1>3, <1>5 DEF AddProjectHook, OwnHooksOnly
    <2>2. SameObject(s, source[w]) /\ s.finalizers = source[w].finalizers
        BY <1>2, CopiesChange DEF SameObject
    <2>3. KeepsTheHook(w, s) \/ CreatedTheHook(w, s)
        <3>1. CASE s = source[w]
            BY <3>1 DEF KeepsTheHook
        <3>2. CASE s = WithHook(source[w], hookCount + 1)
            <4>1. s.status.hookID = hookCount + 1
                BY <1>2, <3>2, CopiesChange
            <4>2. ~source[w].deleting /\ source[w].status.hookID = NoHook
                BY <1>1 DEF HInv, Tracked, PhasesFit, CreateWebhook
            <4> QED BY <2>2, <4>1, <4>2 DEF CreatedTheHook, SameObject
        <3> QED BY <3>1, <3>2
    <2>4. PICK phase \in {"status", "finalizers", "finish"} :
            /\ Advances(w, s, phase)
            /\ phase = "finalizers" => original[w].finalizers # s.finalizers
        BY <1>3, <1>5, ReturnAdvances
    <2>5. phase \in Phases /\ phase \notin ServingPhases /\ phase \notin FinalizingPhases
        BY DEF Phases, ServingPhases, FinalizingPhases
    <2>6. Tracked'
        BY <1>2, <2>1, <2>2, <2>3, <2>4, <2>5, AdvanceIsTracked
    <2>7. ASSUME Accounted
          PROVE  FinalizersFit(w, s, phase) /\ original[w].finalizers \subseteq s.finalizers
        BY <1>1, <1>2, <2>2, <2>4, <2>5, <2>7 DEF FinalizersFit, Accounted, HooksReleased
    <2>8. GaveUpTheHook(w, s) => FALSE
        BY <1>1, <2>2 DEF GaveUpTheHook, SameObject, HInv, Tracked, PhasesFit
    <2>9. Accounted => Accounted'
        BY <1>2, <2>1, <2>2, <2>3, <2>4, <2>5, <2>7, <2>8, AdvanceIsAccounted
    <2> QED BY <2>6, <2>9
<1> QED BY <1>4, <1>5 DEF CreateWebhook

\* A step of finalize, which returns once the hook is released, if it ever does.
LEMMA FinalizingKeeps ==
    ASSUME HInv, NEW w \in Workers, pc[w] \in FinalizingPhases, ServerFrame,
           UNCHANGED created, hooks' \subseteq hooks, warned \subseteq warned',
           NEW s, SameObject(s, source[w]), KeepsTheHook(w, s) \/ GaveUpTheHook(w, s),
           s.finalizers \ {finalizerName} = source[w].finalizers \ {finalizerName},
           NEW sought,
           \/ /\ \E err \in BOOLEAN : Return(w, s, err)
              /\ sought => ReleasedThen(source[w].status.hookID)
           \/ Continue(w, s, "deleteWebhook"),
           KeepsTheHook(w, s) \/ (sought => GoneThen(source[w].status.hookID))
    PROVE  Tracked' /\ (Accounted /\ sought => Accounted')
<1>1. Active(w) /\ held[w] \in Keys
    BY OwnerIsOwner DEF Active, FinalizingPhases, HInv
<1>2. OwnHooksOnly(w)
    BY DEF OwnHooksOnly
<1>3. \E phase \in {"deleteWebhook", "status", "finalizers", "finish"} :
        /\ Advances(w, s, phase)
        /\ phase = "finalizers" => original[w].finalizers # s.finalizers
        /\ phase # "deleteWebhook" /\ sought => ReleasedThen(source[w].status.hookID)
    <2>1. CASE Continue(w, s, "deleteWebhook")
        BY <2>1, ContinueAdvances
    <2>2. ASSUME NEW err \in BOOLEAN, Return(w, s, err),
                 sought => ReleasedThen(source[w].status.hookID)
          PROVE  \E phase \in {"deleteWebhook", "status", "finalizers", "finish"} :
                    /\ Advances(w, s, phase)
                    /\ phase = "finalizers" => original[w].finalizers # s.finalizers
                    /\ phase # "deleteWebhook" /\ sought => ReleasedThen(source[w].status.hookID)
        BY <2>2, ReturnAdvances
    <2> QED BY <2>1, <2>2
<1>4. PICK phase \in {"deleteWebhook", "status", "finalizers", "finish"} :
        /\ Advances(w, s, phase)
        /\ phase = "finalizers" => original[w].finalizers # s.finalizers
        /\ phase # "deleteWebhook" /\ sought => ReleasedThen(source[w].status.hookID)
    BY <1>3
<1>5. phase \in Phases /\ phase \notin ServingPhases
    BY DEF Phases, ServingPhases
<1>6. Tracked'
    BY <1>1, <1>2, <1>4, <1>5, AdvanceIsTracked
<1>7. ASSUME Accounted, sought PROVE FinalizersFit(w, s, phase)
    <2>1. original[w].finalizers \ {finalizerName} = source[w].finalizers \ {finalizerName}
        BY <1>1, <1>7 DEF Accounted, HooksReleased
    <2> QED BY <1>4, <1>5, <1>7, <2>1 DEF FinalizersFit
<1>8. CreatedTheHook(w, s) => FALSE
    BY DEF CreatedTheHook, SameObject, HInv, Tracked, PhasesFit
<1>9. ASSUME Accounted, sought, GaveUpTheHook(w, s), Recorded(held[w])
      PROVE  GoneThen(server[held[w]].status.hookID)
    <2>1. source[w] \in Copies(held[w])
        BY <1>1 DEF Copies, Snapshots
    <2>2. CASE Gone(server[held[w]].status.hookID)
        BY <2>2 DEF Gone, GoneThen
    <2>3. CASE source[w].status.hookID = server[held[w]].status.hookID
        <3>1. ~KeepsTheHook(w, s)
            BY <1>9, <2>3 DEF KeepsTheHook, GaveUpTheHook, Recorded
        <3> QED BY <1>9, <2>3, <3>1
    <2> QED BY <1>1, <1>9, <2>1, <2>2, <2>3 DEF Accounted, HooksKnown
<1>10. Accounted /\ sought => Accounted'
    BY <1>1, <1>2, <1>4, <1>5, <1>7, <1>8, <1>9, AdvanceIsAccounted
<1> QED BY <1>6, <1>10

LEMMA FinalizeKeepsHooks ==
    ASSUME HInv, NEW w \in Workers, Finalize(w)
    PROVE  Tracked' /\ (Accounted => Accounted')
<1> DEFINE s == removeFinalizer(source[w])
           missing == WithConditions(s, Conds!MarkFalse(s.status.conds, "SecretsProvided"))
<1>1. pc[w] \in FinalizingPhases
    BY DEF Finalize, FinalizingPhases
<1>2. source[w] \in ObjectsUpTo(hookCount) /\ hookCount \in Nat
    BY <1>1, ServesObject
<1>3. s \in ObjectsUpTo(hookCount)
    BY <1>2, FinalizersSet
<1>4. /\ SameObject(s, source[w]) /\ s.status.hookID = source[w].status.hookID
      /\ s.finalizers \ {finalizerName} = source[w].finalizers \ {finalizerName}
    BY <1>2, CopiesChange
<1> HIDE DEF s
<1>5. /\ SameObject(missing, s) /\ missing.status.hookID = s.status.hookID
      /\ missing.finalizers = s.finalizers
    BY <1>2, <1>3, CopiesChange
<1>6. ServerFrame /\ UNCHANGED <<created, hooks>>
    BY DEF Finalize, apiVars, informerVars, gitlabVars, ServerFrame
<1>7. warned \subseteq warned'
    BY DEF Finalize
<1>8. \/ Return(w, s, FALSE) /\ s.status.hookID = NoHook
      \/ Continue(w, s, "deleteWebhook")
      \/ Return(w, missing, TRUE) /\ s.status.hookID \in warned'
    BY DEF Finalize, s
<1> HIDE DEF missing
<1>9. SameObject(missing, source[w])
    BY <1>4, <1>5 DEF SameObject
<1>10. \E o \in {s, missing} :
            \/ /\ \E err \in BOOLEAN : Return(w, o, err)
               /\ ReleasedThen(source[w].status.hookID)
            \/ Continue(w, o, "deleteWebhook")
    BY <1>4, <1>8 DEF ReleasedThen
<1>11. PICK o \in {s, missing} :
            \/ /\ \E err \in BOOLEAN : Return(w, o, err)
               /\ TRUE => ReleasedThen(source[w].status.hookID)
            \/ Continue(w, o, "deleteWebhook")
    BY <1>10
<1>12. /\ SameObject(o, source[w])
       /\ KeepsTheHook(w, o)
       /\ o.finalizers \ {finalizerName} = source[w].finalizers \ {finalizerName}
    BY <1>4, <1>5, <1>9 DEF KeepsTheHook
<1>13. Tracked' /\ (Accounted /\ TRUE => Accounted')
    BY <1>1, <1>6, <1>7, <1>11, <1>12, FinalizingKeeps
<1> QED BY <1>13

\* The client finds the hook if GitLab lists it: then it is gone, whatever the answer.
LEMMA DeleteWebhookKeepsHooks ==
    ASSUME HInv, NEW w \in Workers, DeleteWebhook(w)
    PROVE  Tracked' /\ (Accounted /\ HookIsListed => Accounted')
<1>1. pc[w] = "deleteWebhook" /\ pc[w] \in FinalizingPhases
    BY DEF DeleteWebhook, FinalizingPhases
<1>2. Active(w) /\ source[w] \in ObjectsUpTo(hookCount) /\ hookCount \in Nat
    BY <1>1, ServesObject
<1>3. ServerFrame /\ UNCHANGED created
    BY DEF DeleteWebhook, apiVars, informerVars, ServerFrame
<1>4. hooks' \subseteq hooks /\ warned \subseteq warned'
    BY DEF DeleteWebhook, DeleteProjectHook
<1> DEFINE s == WithHook(source[w], NoHook)
<1>5. /\ SameObject(s, source[w]) /\ s.status.hookID = NoHook
      /\ s.finalizers = source[w].finalizers
    BY <1>2, CopiesChange
<1> HIDE DEF s
<1>6. GaveUpTheHook(w, s)
    <2>1. source[w].deleting
        BY <1>1 DEF HInv, Tracked, PhasesFit
    <2>2. held[w] \in Keys
        BY <1>2, OwnerIsOwner DEF Active, HInv
    <2>3. Recorded(held[w]) => source[w].uid = server[held[w]].uid
        BY <1>1, <2>2 DEF HInv, Tracked, NewcomersHaveNoHook
    <2> QED BY <1>5, <2>1, <2>3 DEF GaveUpTheHook, SameObject
<1>7. SameObject(source[w], source[w]) /\ KeepsTheHook(w, source[w])
    BY DEF SameObject, KeepsTheHook
<1>8. CASE Return(w, source[w], TRUE) /\ source[w].status.hookID \in warned'
    <2>1. \E err \in BOOLEAN : Return(w, source[w], err)
        BY <1>8
    <2>2. TRUE => ReleasedThen(source[w].status.hookID)
        BY <1>8 DEF ReleasedThen
    <2>3. Tracked' /\ (Accounted /\ TRUE => Accounted')
        BY <1>1, <1>3, <1>4, <1>7, <2>1, <2>2, FinalizingKeeps
    <2> QED BY <2>3
<1>9. CASE /\ Return(w, s, FALSE)
           /\ \E page \in Pages(source[w].project) :
                hooks' = hooks \ {h \in page :
                                HookNumber(h.id) = HookNumber(source[w].status.hookID)}
    <2>1. HookIsListed => GoneThen(source[w].status.hookID)
        BY <1>1, <1>9 DEF HookIsListed, GoneThen
    <2>2. \E err \in BOOLEAN : Return(w, s, err)
        BY <1>9
    <2>3. HookIsListed => ReleasedThen(source[w].status.hookID)
        BY <2>1 DEF ReleasedThen
    <2> QED BY <1>1, <1>3, <1>4, <1>5, <1>6, <2>1, <2>2, <2>3, FinalizingKeeps
<1>10. \/ Return(w, source[w], TRUE) /\ source[w].status.hookID \in warned'
       \/ /\ Return(w, s, FALSE)
          /\ \E page \in Pages(source[w].project) :
                hooks' = hooks \ {h \in page :
                                HookNumber(h.id) = HookNumber(source[w].status.hookID)}
    BY DEF DeleteWebhook, DeleteProjectHook, s
<1> QED BY <1>8, <1>9, <1>10

\* Reconcile begins with what the cache has.
LEMMA LookupKeepsHooks ==
    ASSUME HInv, NEW w \in Workers, Lookup(w)
    PROVE  Tracked' /\ (Accounted => Accounted')
<1> USE DEF HInv, Tracked
<1> DEFINE k == held[w]
<1>1. held[w] \in Keys
    BY DEF Lookup, OInv, IInv, WorkersTyped, HeldIsProcessing
<1>2. OutsideFrame /\ UNCHANGED <<cache, watch, held>>
    BY DEF Lookup, OutsideFrame, apiVars, gitlabVars, accountVars
<1>3. pc \in [Workers -> Phases] /\ DOMAIN source = Workers /\ DOMAIN original = Workers
    BY DEF OInv, IInv, WorkersTyped, Details, WorkersHold
<1>4. \A v \in Workers : v # w => UNCHANGED <<pc[v], source[v], original[v]>>
    BY <1>3 DEF Lookup
<1>5. /\ source'[w] = cache[k] /\ original'[w] = cache[k]
      /\ pc'[w] = IF cache[k] = NoSource THEN "finish"
                  ELSE IF cache[k].deleting THEN "finalize" ELSE "secrets"
    BY <1>3 DEF Lookup
<1>6. Active(w)' => cache[k] # NoSource
    BY <1>5 DEF Active
<1>7. ASSUME NEW l \in Keys
      PROVE  /\ Brought(l)' = Brought(l)
             /\ \A s \in Snapshots(l)' :
                    s \in Snapshots(l) \/ (l = k /\ s = cache[k] /\ cache[k] # NoSource)
    BY <1>2, <1>4, <1>5, <1>6 DEF Brought, Snapshots, Active
<1>8. \A l \in Keys : Copies(l)' \subseteq Copies(l)
    BY <1>2, <1>7 DEF Copies, OutsideFrame
<1>9. WatchInOrder'
    <2>1. ASSUME NEW l \in Keys, NEW s \in Snapshots(l)'
          PROVE  /\ cache[l] # NoSource => s.rv <= cache[l].rv
                 /\ \A v \in Brought(l) : s.rv <= v.rv
        <3>1. CASE s \in Snapshots(l)
            BY <3>1 DEF WatchInOrder
        <3>2. CASE l = k /\ s = cache[k] /\ cache[k] # NoSource
            <4>1. cache[l].rv \in Nat /\ \A v \in Brought(l) : v.rv \in Nat
                BY <3>2, CopiesAreObjects DEF Copies
            <4> QED BY <3>2, <4>1 DEF WatchInOrder
        <3> QED BY <1>7, <3>1, <3>2
    <2> QED BY <1>2, <1>7, <2>1 DEF WatchInOrder, OutsideFrame
<1>10. PhasesFit'
    BY <1>4, <1>5, <1>6 DEF PhasesFit, ServingPhases, FinalizingPhases
<1>11. NewcomersHaveNoHook'
    BY <1>1, <1>2, <1>4, <1>5, <1>7 DEF NewcomersHaveNoHook, Recorded, OutsideFrame,
        ServingPhases, FinalizingPhases
<1>12. HooksReleased => HooksReleased'
    <2> SUFFICES ASSUME HooksReleased PROVE HooksReleased'
        OBVIOUS
    <2>1. pc'[w] \notin {"status", "finalizers"}
        BY <1>5
    <2>2. original'[w] = source'[w]
        BY <1>5
    <2>3. \A v \in Workers : v # w => (Active(v)' <=> Active(v))
        BY <1>4 DEF Active
    <2> QED BY <1>2, <1>4, <2>1, <2>2, <2>3 DEF HooksReleased, Released, Gone, OutsideFrame
<1> QED BY <1>2, <1>8, <1>9, <1>10, <1>11, <1>12, NoNewVersionKeeps DEF Accounted

-----------------------------------------------------------------------------
(* New versions *)

\* What Store makes of the object.
Stored(k, object) ==
    IF object.deleting /\ object.finalizers = {}
    THEN NoSource
    ELSE [object EXCEPT !.rv = revision[k] + 1]

LEMMA StoreParts ==
    ASSUME OInv, NEW k \in Keys, NEW object \in ObjectsUpTo(hookCount), Store(k, object)
    PROVE  /\ server' = [server EXCEPT ![k] = Stored(k, object)]
           /\ server'[k] = Stored(k, object)
           /\ \A l \in Keys \ {k} : UNCHANGED <<server[l], watch[l], revision[l]>>
           /\ revision'[k] = revision[k] + 1
           /\ watch'[k] = Append(watch[k], Stored(k, object))
           /\ Brought(k)' = Brought(k) \cup ({Stored(k, object)} \ {NoSource})
           /\ \A l \in Keys \ {k} : Brought(l)' = Brought(l)
           /\ Stored(k, object) # NoSource =>
                /\ SameObject([Stored(k, object) EXCEPT !.rv = object.rv], object)
                /\ Stored(k, object).uid = object.uid
                /\ Stored(k, object).deleting = object.deleting
                /\ Stored(k, object).rv = revision[k] + 1
                /\ Stored(k, object).status = object.status
                /\ Stored(k, object).finalizers = object.finalizers
           /\ ~object.deleting \/ finalizerName \in object.finalizers => Stored(k, object) # NoSource
<1> USE DEF OInv, Details, ObjectsTyped
<1>1. /\ server' = [server EXCEPT ![k] = Stored(k, object)]
      /\ revision' = [revision EXCEPT ![k] = @ + 1]
      /\ watch' = [watch EXCEPT ![k] = Append(@, Stored(k, object))]
    BY DEF Store, Stored
<1>2. hookCount \in Nat /\ revision[k] \in Nat /\ watch[k] \in Seq(VersionsUpTo(hookCount))
    BY DEF OutsideTyped
<1>3. Stored(k, object) \in VersionsUpTo(hookCount)
    <2>1. revision[k] + 1 \in Nat
        BY <1>2
    <2>2. [object EXCEPT !.rv = revision[k] + 1] \in ObjectsUpTo(hookCount)
        BY <1>2, <2>1, SpecEdited
    <2> QED BY <2>2 DEF Stored, VersionsUpTo
<1>4. Stored(k, object) # NoSource => Stored(k, object) = [object EXCEPT !.rv = revision[k] + 1]
    BY DEF Stored
<1>5. ~object.deleting \/ finalizerName \in object.finalizers => Stored(k, object) # NoSource
    <2>1. revision[k] + 1 \in Nat
        BY <1>2
    <2>2. [object EXCEPT !.rv = revision[k] + 1] \in ObjectsUpTo(hookCount)
        BY <1>2, <2>1, SpecEdited
    <2> QED BY <1>2, <2>2, NoSourceIsNoObject DEF Stored
<1>6. Stored(k, object) # NoSource =>
        /\ SameObject([Stored(k, object) EXCEPT !.rv = object.rv], object)
        /\ Stored(k, object).uid = object.uid
        /\ Stored(k, object).deleting = object.deleting
        /\ Stored(k, object).rv = revision[k] + 1
        /\ Stored(k, object).status = object.status
        /\ Stored(k, object).finalizers = object.finalizers
    BY <1>4 DEF SameObject, ObjectsUpTo
<1> DEFINE stored == Stored(k, object)
<1> HIDE DEF stored
<1>7. watch'[k] = Append(watch[k], stored)
    BY <1>1 DEF stored
<1>8. Brought(k)' = Brought(k) \cup ({stored} \ {NoSource})
    <2>1. /\ Len(watch[k]) \in Nat /\ Len(watch'[k]) = Len(watch[k]) + 1
          /\ \A i \in 1..Len(watch[k]) : watch'[k][i] = watch[k][i]
          /\ watch'[k][Len(watch[k]) + 1] = stored
        BY <1>2, <1>3, <1>7 DEF stored
    <2>2. 1..Len(watch'[k]) = 1..Len(watch[k]) \cup {Len(watch[k]) + 1}
        BY <2>1
    <2> QED BY <2>1, <2>2 DEF Brought
<1>9. \A l \in Keys \ {k} : UNCHANGED <<server[l], watch[l], revision[l]>>
    BY <1>1
<1>10. \A l \in Keys \ {k} : Brought(l)' = Brought(l)
    BY <1>9 DEF Brought
<1> QED BY <1>1, <1>2, <1>5, <1>6, <1>7, <1>8, <1>9, <1>10 DEF stored

\* The object takes the place of what is stored, or is new under its key.
Replaces(k, object) ==
    /\ Store(k, object)
    /\ created' = [created EXCEPT ![k] = object.uid]
    /\ created[k] <= object.uid
    /\ \A u \in Copies(k) : u.uid = object.uid /\ u.deleting => object.deleting

\* The cache's objects may have been changed in place.
CacheChanges ==
    \A k \in Keys :
        \/ cache'[k] = cache[k]
        \/ cache[k] # NoSource /\ cache'[k] # NoSource /\ SameObject(cache'[k], cache[k])

LEMMA CopiesOfStore ==
    ASSUME HInv, NEW k \in Keys, NEW object \in ObjectsUpTo(hookCount), Store(k, object),
           CacheChanges, WorkersKeep, NEW l \in Keys, NEW v \in Copies(l)'
    PROVE  \/ \E u \in Copies(l) : SameObject(v, u) /\ (v = u \/ v = cache'[l])
           \/ l = k /\ v = Stored(k, object) /\ v # NoSource
<1>0. OInv
    BY DEF HInv
<1>1. CASE v = cache'[l] /\ v # NoSource
    <2>1. cache[l] # NoSource /\ (cache'[l] = cache[l] \/ SameObject(cache'[l], cache[l]))
        BY <1>1 DEF CacheChanges
    <2>2. cache[l] \in Copies(l)
        BY <2>1 DEF Copies
    <2> QED BY <1>1, <2>1, <2>2 DEF SameObject
<1>2. CASE v \in Snapshots(l)'
    <2>1. v \in Copies(l)
        BY <1>2, SnapshotsOfKeeping DEF Copies
    <2> QED BY <2>1 DEF SameObject
<1>3. CASE v = server'[l] /\ v # NoSource
    <2>1. CASE l = k
        BY <1>0, <1>3, <2>1, StoreParts
    <2>2. CASE l # k
        <3>1. v \in Copies(l)
            BY <1>0, <1>3, <2>2, StoreParts DEF Copies
        <3> QED BY <3>1 DEF SameObject
    <2> QED BY <2>1, <2>2
<1>4. CASE v \in Brought(l)'
    <2>1. CASE l = k
        <3>1. Brought(k)' = Brought(k) \cup ({Stored(k, object)} \ {NoSource})
            BY <1>0, StoreParts
        <3> QED BY <1>4, <2>1, <3>1 DEF Copies, SameObject
    <2>2. CASE l # k
        <3>1. \A m \in Keys \ {k} : Brought(m)' = Brought(m)
            BY <1>0, StoreParts
        <3>2. v \in Brought(l)
            BY <1>4, <2>2, <3>1
        <3> QED BY <3>2 DEF Copies, SameObject
    <2> QED BY <2>1, <2>2
<1> QED BY <1>1, <1>2, <1>3, <1>4 DEF Copies

LEMMA StoreKeepsTheOrder ==
    ASSUME HInv, NEW k \in Keys, NEW object \in ObjectsUpTo(hookCount), Replaces(k, object),
           CacheChanges, WorkersKeep
    PROVE  CopiesAge' /\ WatchInOrder'
<1> USE DEF HInv, Tracked
<1>1. Store(k, object)
    BY DEF Replaces
<1>2. object.uid \in Nat /\ revision[k] \in Nat /\ created[k] \in Nat
    <2>1. object.uid \in Uids
        BY FieldsOfObjects DEF OInv, Details, OutsideTyped
    <2> QED BY <2>1, CopiesAreObjects, ConstantsAssumption DEF Uids
<1>3. created'[k] = object.uid /\ \A l \in Keys \ {k} : created'[l] = created[l]
    BY DEF Replaces, OInv, Details, OutsideTyped
<1> DEFINE stored == Stored(k, object)
<1>4. stored # NoSource =>
            /\ stored.rv = revision[k] + 1 /\ stored.uid = object.uid
            /\ stored.deleting = object.deleting
    BY <1>1, StoreParts
<1>5. /\ server'[k] = stored /\ revision'[k] = revision[k] + 1
      /\ \A l \in Keys \ {k} : server'[l] = server[l] /\ revision'[l] = revision[l]
    BY <1>1, StoreParts
<1>6. ASSUME NEW l \in Keys, NEW v \in Copies(l)'
      PROVE  (\E u \in Copies(l) : SameObject(v, u)) \/ (l = k /\ v = stored /\ v # NoSource)
    BY <1>1, CopiesOfStore
<1>7. CopiesAge'
    <2>1. ASSUME NEW l \in Keys, server'[l] # NoSource
          PROVE  server'[l].rv = revision'[l] /\ server'[l].uid = created'[l]
        BY <1>3, <1>4, <1>5, <2>1 DEF CopiesAge
    <2>2. ASSUME NEW l \in Keys, NEW v \in Copies(l)' PROVE v.rv <= revision'[l] /\ v.uid <= created'[l]
        <3>1. CASE l = k /\ v = stored /\ v # NoSource
            BY <1>2, <1>3, <1>4, <1>5, <3>1
        <3>2. ASSUME NEW u \in Copies(l), SameObject(v, u)
              PROVE  v.rv <= revision'[l] /\ v.uid <= created'[l]
            <4>1. u.rv <= revision[l] /\ u.uid <= created[l] /\ u.rv \in Nat /\ u.uid \in Nat
                BY CopiesAreObjects DEF CopiesAge
            <4> QED BY <1>2, <1>3, <1>5, <3>2, <4>1 DEF SameObject, Replaces
        <3> QED BY <1>6, <3>1, <3>2
    <2>3. ASSUME NEW l \in Keys, NEW u \in Copies(l)', NEW v \in Copies(l)', u.rv <= v.rv
          PROVE  u.uid <= v.uid /\ (u.uid = v.uid /\ u.deleting => v.deleting)
        <3>1. ASSUME NEW t \in Copies(l), SameObject(u, t), NEW x \in Copies(l), SameObject(v, x)
              PROVE  u.uid <= v.uid /\ (u.uid = v.uid /\ u.deleting => v.deleting)
            BY <2>3, <3>1 DEF CopiesAge, SameObject
        <3>2. ASSUME NEW t \in Copies(l), SameObject(u, t), l = k, v = stored, v # NoSource
              PROVE  u.uid <= v.uid /\ (u.uid = v.uid /\ u.deleting => v.deleting)
            <4>1. t.uid <= created[k] /\ t.uid \in Nat
                BY <3>2, CopiesAreObjects DEF CopiesAge
            <4> QED BY <1>2, <1>4, <3>2, <4>1 DEF SameObject, Replaces
        <3>3. ASSUME l = k, u = stored, u # NoSource, NEW x \in Copies(l), SameObject(v, x)
              PROVE  FALSE
            <4>1. x.rv <= revision[k] /\ x.rv \in Nat
                BY <3>3, CopiesAreObjects DEF CopiesAge
            <4> QED BY <1>2, <1>4, <2>3, <3>3, <4>1 DEF SameObject
        <3>4. CASE u = stored /\ v = stored /\ u # NoSource
            BY <1>2, <1>4, <3>4
        <3> QED BY <1>6, <3>1, <3>2, <3>3, <3>4
    <2> HIDE DEF stored
    <2> QED BY <2>1, <2>2, <2>3 DEF CopiesAge
<1>8. WatchInOrder'
    <2>1. \A l \in Keys : watch[l] \in Seq(VersionsUpTo(hookCount))
        BY DEF OInv, Details, ObjectsTyped
    <2>2. /\ watch'[k] = Append(watch[k], stored)
          /\ Brought(k)' = Brought(k) \cup ({stored} \ {NoSource})
          /\ \A l \in Keys \ {k} : watch'[l] = watch[l] /\ Brought(l)' = Brought(l)
        BY <1>1, StoreParts
    <2>3. \A l \in Keys : Snapshots(l)' \subseteq Snapshots(l)
        BY SnapshotsOfKeeping
    <2>4. \A v \in Copies(k) : v.rv <= revision[k] /\ v.rv \in Nat
        BY CopiesAreObjects DEF CopiesAge
    <2> HIDE DEF stored
    <2>5. stored \in VersionsUpTo(hookCount)
        <3>1. revision[k] + 1 \in Nat /\ hookCount \in Nat
            BY <1>2 DEF OInv, Details, OutsideTyped
        <3>2. [object EXCEPT !.rv = revision[k] + 1] \in ObjectsUpTo(hookCount)
            BY <3>1, SpecEdited
        <3> QED BY <3>2 DEF stored, Stored, VersionsUpTo
    <2>6. /\ Len(watch[k]) \in Nat /\ Len(watch'[k]) = Len(watch[k]) + 1
          /\ \A i \in 1..Len(watch[k]) : watch'[k][i] = watch[k][i]
          /\ watch'[k][Len(watch[k]) + 1] = stored
        BY <2>1, <2>2, <2>5
    <2>7. \A l \in Keys : watch'[l] # <<>> => watch'[l][Len(watch'[l])] = server'[l]
        BY <1>5, <2>2, <2>6 DEF WatchInOrder
    <2>8. ASSUME NEW i \in 1..Len(watch'[k]), NEW j \in 1..Len(watch'[k]), i < j,
                 watch'[k][i] # NoSource, watch'[k][j] # NoSource
          PROVE  watch'[k][i].rv < watch'[k][j].rv
        <3>1. i \in 1..Len(watch[k]) /\ watch'[k][i] = watch[k][i]
            BY <2>6, <2>8
        <3>2. CASE j \in 1..Len(watch[k])
            BY <2>6, <2>8, <3>1, <3>2 DEF WatchInOrder
        <3>3. CASE j \notin 1..Len(watch[k])
            <4>1. watch'[k][j] = stored
                BY <2>6, <3>3
            <4>2. watch[k][i] \in Copies(k)
                BY <2>8, <3>1 DEF Copies, Brought
            <4> QED BY <1>2, <1>4, <2>4, <2>8, <3>1, <4>1, <4>2
        <3> QED BY <3>2, <3>3
    <2>9. ASSUME NEW l \in Keys, cache'[l] # NoSource
          PROVE  /\ cache[l] # NoSource /\ cache'[l].rv = cache[l].rv
                 /\ cache[l] \in Copies(l)
        BY <2>9 DEF CacheChanges, SameObject, Copies
    <2>10. \A l \in Keys : cache'[l] # NoSource => \A v \in Brought(l)' : cache'[l].rv < v.rv
        BY <1>2, <1>4, <2>2, <2>4, <2>9 DEF WatchInOrder
    <2>11. ASSUME NEW l \in Keys, NEW s \in Snapshots(l)'
           PROVE  /\ cache'[l] # NoSource => s.rv <= cache'[l].rv
                  /\ \A v \in Brought(l)' : s.rv <= v.rv
        <3>1. s \in Snapshots(l) /\ s \in Copies(l)
            BY <2>3 DEF Copies
        <3> QED BY <1>2, <1>4, <2>2, <2>4, <2>9, <3>1 DEF WatchInOrder
    <2>12. \A l \in Keys : \A i, j \in 1..Len(watch'[l]) :
                i < j /\ watch'[l][i] # NoSource /\ watch'[l][j] # NoSource =>
                    watch'[l][i].rv < watch'[l][j].rv
        BY <2>2, <2>8 DEF WatchInOrder
    <2> QED BY <2>7, <2>10, <2>11, <2>12 DEF WatchInOrder
<1> QED BY <1>7, <1>8

CacheKeepsHooks ==
    \A k \in Keys : cache'[k] # NoSource => cache'[k].status.hookID = cache[k].status.hookID

\* Another version of the same object, with the hook of the last; or a new object.
EditsObject(k, object) ==
    /\ server[k] # NoSource
    /\ object.uid = server[k].uid
    /\ object.status.hookID = server[k].status.hookID

\* The finalizer of a source stays as long as its hook is there and in no event.
FinalizerStays(k, object) ==
    server[k] # NoSource /\ finalizerName \in server[k].finalizers
        /\ ~Released(server[k].status.hookID)
    => finalizerName \in object.finalizers

LEMMA StoreKeepsHooks ==
    ASSUME HInv, NEW k \in Keys, NEW object \in ObjectsUpTo(hookCount), Replaces(k, object),
           CacheChanges, CacheKeepsHooks, WorkersKeep, UNCHANGED <<hooks, hookCount, warned>>,
           \/ EditsObject(k, object)
           \/ server[k] = NoSource /\ object.status.hookID = NoHook
    PROVE  Tracked' /\ (Accounted /\ FinalizerStays(k, object) => Accounted')
<1> USE DEF HInv, Tracked
<1>1. Store(k, object)
    BY DEF Replaces
<1>2. CopiesAge' /\ WatchInOrder'
    BY StoreKeepsTheOrder
<1> DEFINE stored == Stored(k, object)
<1>3. stored # NoSource =>
            stored.uid = object.uid /\ stored.status = object.status
            /\ stored.finalizers = object.finalizers
    BY <1>1, StoreParts
<1>4. server'[k] = stored /\ \A l \in Keys \ {k} : server'[l] = server[l]
    BY <1>1, StoreParts
<1>5. finalizerName \in object.finalizers => stored # NoSource
    BY <1>1, StoreParts
<1>6. ASSUME NEW l \in Keys, NEW v \in Copies(l)'
      PROVE  \/ \E u \in Copies(l) : SameObject(v, u) /\ v.status.hookID = u.status.hookID
             \/ l = k /\ v = stored /\ v # NoSource
    <2>1. CASE v = cache'[l] /\ v # NoSource
        <3>1. cache[l] # NoSource /\ (cache'[l] = cache[l] \/ SameObject(cache'[l], cache[l]))
            BY <2>1 DEF CacheChanges
        <3>2. cache[l] \in Copies(l) /\ v.status.hookID = cache[l].status.hookID
            BY <2>1, <3>1 DEF Copies, CacheKeepsHooks
        <3> QED BY <2>1, <3>1, <3>2 DEF SameObject
    <2>2. CASE ~(v = cache'[l] /\ v # NoSource)
        <3>1. CASE \E u \in Copies(l) : SameObject(v, u) /\ v = u
            BY <3>1
        <3>2. v = NoSource => v \in Snapshots(l)'
            BY DEF Copies, Brought
        <3>3. ASSUME v \in Snapshots(l)'
              PROVE  \E u \in Copies(l) : SameObject(v, u) /\ v = u
            BY <3>3, SnapshotsOfKeeping DEF Copies, SameObject
        <3> QED BY <1>1, <2>2, <3>1, <3>2, <3>3, CopiesOfStore
    <2> QED BY <2>1, <2>2
<1> HIDE DEF stored
<1>7. \A g \in hooks : g.id # NoHook
    BY NoHookIsNoID DEF OInv, Details, OutsideTyped
<1>8. HooksBelong'
    <2> SUFFICES ASSUME NEW l \in Keys, NEW v \in Copies(l)', NEW h \in hooks,
                        h.id = v.status.hookID
                 PROVE  h.owner[1] = l /\ h.owner[2] <= v.uid
        BY DEF HooksBelong
    <2>1. CASE \E u \in Copies(l) : SameObject(v, u) /\ v.status.hookID = u.status.hookID
        BY <2>1 DEF HooksBelong, SameObject
    <2>2. CASE l = k /\ v = stored /\ v # NoSource
        <3>1. EditsObject(k, object)
            BY <1>3, <1>7, <2>2
        <3>2. server[k] \in Copies(k)
            BY <3>1 DEF EditsObject, Copies
        <3> QED BY <1>3, <2>2, <3>1, <3>2 DEF HooksBelong, EditsObject
    <2> QED BY <1>6, <2>1, <2>2
<1>9. PhasesFit'
    BY DEF WorkersKeep, PhasesFit, Active, ServingPhases, FinalizingPhases
<1>10. ASSUME NEW l \in Keys, Recorded(l)'
       PROVE  /\ Recorded(l)
              /\ server'[l].uid = server[l].uid
              /\ server'[l].status.hookID = server[l].status.hookID
    BY <1>3, <1>4, <1>10 DEF Recorded, EditsObject
<1>11. NewcomersHaveNoHook'
    <2> SUFFICES ASSUME NEW l \in Keys, Recorded(l)'
                 PROVE  /\ cache'[l] # NoSource => cache'[l].uid = server'[l].uid
                        /\ \A v \in Brought(l)' : v.uid = server'[l].uid
                        /\ \A w \in Workers :
                            held'[w] = l /\ pc'[w] \in ServingPhases \cup FinalizingPhases =>
                                source'[w].uid = server'[l].uid
        BY DEF NewcomersHaveNoHook
    <2>1. Recorded(l) /\ server'[l].uid = server[l].uid
        BY <1>10
    <2>2. cache'[l] # NoSource => cache'[l].uid = server'[l].uid
        BY <2>1 DEF NewcomersHaveNoHook, CacheChanges, SameObject
    <2>3. \A v \in Brought(l)' : v.uid = server'[l].uid
        <3>1. CASE l # k
            <4>1. l \in Keys \ {k}
                BY <3>1
            <4>2. Brought(l)' = Brought(l)
                BY <1>1, <4>1, StoreParts
            <4> QED BY <2>1, <4>2 DEF NewcomersHaveNoHook
        <3>2. CASE l = k
            <4>1. Brought(k)' = Brought(k) \cup ({stored} \ {NoSource})
                BY <1>1, StoreParts DEF stored
            <4> QED BY <1>4, <2>1, <3>2, <4>1 DEF NewcomersHaveNoHook
        <3> QED BY <3>1, <3>2
    <2>4. ASSUME NEW w \in Workers, held'[w] = l, pc'[w] \in ServingPhases \cup FinalizingPhases
          PROVE  source'[w].uid = server'[l].uid
        <3>1. Active(w)'
            BY <2>4 DEF Active, ServingPhases, FinalizingPhases
        <3>2. UNCHANGED <<pc[w], held[w], source[w]>>
            BY <2>4, <3>1 DEF WorkersKeep, ServingPhases, FinalizingPhases
        <3> QED BY <2>1, <2>4, <3>2 DEF NewcomersHaveNoHook
    <2> QED BY <2>2, <2>3, <2>4
<1>12. HooksRemembered'
    <2> SUFFICES ASSUME NEW l \in Keys, Recorded(l)', NEW v \in Copies(l)',
                        v.status.hookID = NoHook
                 PROVE  v.deleting /\ v.uid = server'[l].uid
        BY DEF HooksRemembered
    <2>1. CASE \E u \in Copies(l) : SameObject(v, u) /\ v.status.hookID = u.status.hookID
        BY <1>10, <2>1 DEF HooksRemembered, SameObject
    <2>2. CASE l = k /\ v = stored /\ v # NoSource
        BY <1>4, <2>2 DEF Recorded
    <2> QED BY <1>6, <2>1, <2>2
<1>13. HooksKnown => HooksKnown'
    <2> SUFFICES ASSUME HooksKnown, NEW l \in Keys, Recorded(l)', NEW v \in Copies(l)'
                 PROVE  v.status.hookID = server'[l].status.hookID
                        \/ Gone(server'[l].status.hookID)
        BY DEF HooksKnown, Gone
    <2>1. CASE \E u \in Copies(l) : SameObject(v, u) /\ v.status.hookID = u.status.hookID
        BY <1>10, <2>1 DEF HooksKnown
    <2>2. CASE l = k /\ v = stored /\ v # NoSource
        BY <1>4, <2>2
    <2> QED BY <1>6, <2>1, <2>2
<1>14. HooksReleased => HooksReleased'
    <2> SUFFICES ASSUME HooksReleased PROVE HooksReleased'
        OBVIOUS
    <2>1. ASSUME NEW w \in Workers, Active(w)'
          PROVE  /\ Active(w)
                 /\ UNCHANGED <<held[w], original[w], source[w]>>
                 /\ \/ pc'[w] = pc[w]
                    \/ /\ pc[w] = "status" /\ pc'[w] = "finalizers"
                       /\ original[w].finalizers # source[w].finalizers
        BY <2>1 DEF WorkersKeep
    <2>2. ASSUME NEW l \in Keys, server'[l] # NoSource
          PROVE  \/ Released(server'[l].status.hookID)
                 \/ /\ server[l] # NoSource
                    /\ server'[l].status.hookID = server[l].status.hookID
        BY <1>3, <1>4, <2>2 DEF EditsObject, Released
    <2>3. \A w \in Workers : Active(w) => held[w] \in Keys
        BY OwnerIsOwner DEF Active
    <2> QED BY <2>1, <2>2, <2>3 DEF HooksReleased, Released, Gone, ServingPhases
<1>15. ASSUME Accounted, FinalizerStays(k, object) PROVE ProtectedHooksStay'
    <2> SUFFICES ASSUME NEW h \in hooks, h.id \in protected', h.id \notin warned
                 PROVE  /\ server'[h.owner[1]] # NoSource
                        /\ server'[h.owner[1]].status.hookID = h.id
                        /\ finalizerName \in server'[h.owner[1]].finalizers
        BY DEF ProtectedHooksStay
    <2>1. h.owner[1] \in Keys
        BY DEF OInv, Details, OutsideTyped, Owners
    <2>2. CASE h.id \in protected /\ h.owner[1] # k
        BY <1>4, <1>15, <2>1, <2>2 DEF Accounted, ProtectedHooksStay
    <2>3. CASE h.id \in protected /\ h.owner[1] = k
        <3>1. /\ server[k] # NoSource /\ server[k].status.hookID = h.id
              /\ finalizerName \in server[k].finalizers
            BY <1>15, <2>3 DEF Accounted, ProtectedHooksStay
        <3>2. ~Released(h.id)
            BY <1>7 DEF Released, Gone
        <3>3. finalizerName \in object.finalizers
            BY <1>15, <3>1, <3>2 DEF FinalizerStays
        <3>4. EditsObject(k, object)
            BY <3>1
        <3> QED BY <1>3, <1>4, <1>5, <2>3, <3>1, <3>3, <3>4 DEF EditsObject, stored
    <2>4. CASE h.id \notin protected
        <3>1. /\ finalizerName \in object.finalizers /\ h.id = object.status.hookID
            BY <1>1, <2>4 DEF Store
        <3>2. EditsObject(k, object) /\ server[k] \in Copies(k)
            BY <1>7, <3>1 DEF EditsObject, Copies
        <3>3. h.owner[1] = k
            BY <3>1, <3>2 DEF HooksBelong, EditsObject
        <3> QED BY <1>3, <1>4, <1>5, <3>1, <3>3 DEF stored
    <2> QED BY <2>2, <2>3, <2>4
<1> QED BY <1>2, <1>8, <1>9, <1>11, <1>12, <1>13, <1>14, <1>15 DEF Accounted

\* Another version of the object: a deletion is final, only the controller takes away
\* its finalizer.
UserWrites(k, object) ==
    /\ server[k] # NoSource
    /\ Store(k, object)
    /\ object.uid = server[k].uid
    /\ object.status = server[k].status
    /\ server[k].deleting => object.deleting
    /\ finalizerName \in server[k].finalizers => finalizerName \in object.finalizers

LEMMA UserWritesAre ==
    ASSUME HInv, NEW k \in Keys, DeleteSource(k) \/ EditSource(k) \/ RemoveForeign(k)
    PROVE  \E object \in ObjectsUpTo(hookCount) : UserWrites(k, object)
<1>1. /\ server[k] # NoSource /\ server[k] \in ObjectsUpTo(hookCount)
      /\ hookCount \in Nat
    BY CachedIsObject DEF DeleteSource, EditSource, RemoveForeign, HInv, OInv, Details,
                          OutsideTyped
<1>2. server[k].finalizers \in SUBSET Finalizers /\ Foreign \in Finalizers
    BY <1>1, FieldsOfObjects DEF Finalizers
<1>3. /\ [server[k] EXCEPT !.finalizers = @ \cup {Foreign}] \in ObjectsUpTo(hookCount)
      /\ [server[k] EXCEPT !.finalizers = @ \ {Foreign}] \in ObjectsUpTo(hookCount)
    BY <1>1, <1>2, FinalizersSet
<1> DEFINE Same(object) ==
        /\ object \in ObjectsUpTo(hookCount)
        /\ object.uid = server[k].uid
        /\ object.status = server[k].status
        /\ server[k].deleting => object.deleting
        /\ finalizerName \in server[k].finalizers => finalizerName \in object.finalizers
<1>4. Same(server[k]) /\ Same([server[k] EXCEPT !.deleting = TRUE])
    BY <1>1, SpecEdited DEF ObjectsUpTo
<1>5. /\ \A project \in Projects : Same([server[k] EXCEPT !.project = project])
      /\ \A sink \in Sinks : Same([server[k] EXCEPT !.sink = sink])
    BY <1>1, SpecEdited DEF ObjectsUpTo
<1>6. /\ Same([server[k] EXCEPT !.finalizers = @ \cup {Foreign}])
      /\ Same([server[k] EXCEPT !.finalizers = @ \ {Foreign}])
    BY <1>1, <1>3 DEF ObjectsUpTo, finalizerName, Foreign
<1>7. \E object : Same(object) /\ Store(k, object)
    <2> HIDE DEF Same
    <2> QED BY <1>4, <1>5, <1>6 DEF DeleteSource, EditSource, RemoveForeign
<1> QED BY <1>1, <1>7 DEF UserWrites

\* What users and other controllers do keeps the hook, the finalizer and a deletion.
LEMMA UserStoresKeepHooks ==
    ASSUME HInv, NEW k \in Keys,
           CreateSource(k) \/ DeleteSource(k) \/ EditSource(k) \/ RemoveForeign(k)
    PROVE  Tracked' /\ (Accounted => Accounted')
<1> USE DEF HInv, Tracked
<1>1. UNCHANGED <<cache, pc, held, original, source, hooks, hookCount, warned>>
    BY DEF CreateSource, DeleteSource, EditSource, RemoveForeign, clusterFrame, workerVars,
           gitlabVars
<1>2. WorkersKeep /\ CacheChanges /\ CacheKeepsHooks
    BY <1>1 DEF WorkersKeep, Active, CacheChanges, CacheKeepsHooks
<1>3. /\ hookCount \in Nat /\ created \in [Keys -> 0..MaxUid]
      /\ revision[k] \in Nat
      /\ \A v \in Copies(k) : v.uid <= created[k] /\ v.rv <= revision[k] /\ v.uid \in Nat
    BY CopiesAreObjects DEF OInv, Details, OutsideTyped, CopiesAge
<1>4. CASE CreateSource(k)
    <2>1. PICK object \in ObjectsUpTo(hookCount) :
            /\ Store(k, object)
            /\ object.uid = created[k] + 1
            /\ object.status.hookID = NoHook
        BY <1>4, CreatedIsObject
    <2>2. server[k] = NoSource /\ created' = [created EXCEPT ![k] = @ + 1]
        BY <1>4 DEF CreateSource
    <2>3. Replaces(k, object)
        BY <1>3, <2>1, <2>2 DEF Replaces
    <2>4. FinalizerStays(k, object)
        BY <2>2 DEF FinalizerStays
    <2> QED BY <1>1, <1>2, <2>1, <2>2, <2>3, <2>4, StoreKeepsHooks
<1>5. CASE DeleteSource(k) \/ EditSource(k) \/ RemoveForeign(k)
    <2>1. PICK object \in ObjectsUpTo(hookCount) : UserWrites(k, object)
        BY <1>5, UserWritesAre
    <2>2. server[k] # NoSource /\ Store(k, object)
        BY <2>1 DEF UserWrites
    <2>3. server[k] \in Copies(k) /\ server[k].uid = created[k] /\ server[k].rv = revision[k]
        BY <2>2 DEF Copies, CopiesAge
    <2>4. created' = [created EXCEPT ![k] = object.uid]
        BY <1>3, <1>5, <2>1, <2>3 DEF UserWrites, DeleteSource, EditSource, RemoveForeign
    <2>5. \A u \in Copies(k) : u.uid = object.uid /\ u.deleting => object.deleting
        BY <1>3, <2>1, <2>3 DEF UserWrites, CopiesAge
    <2>6. Replaces(k, object)
        BY <1>3, <2>1, <2>3, <2>4, <2>5 DEF UserWrites, Replaces
    <2>7. EditsObject(k, object) /\ FinalizerStays(k, object)
        BY <2>1 DEF UserWrites, EditsObject, FinalizerStays
    <2> QED BY <1>1, <1>2, <2>6, <2>7, StoreKeepsHooks
<1> QED BY <1>4, <1>5

-----------------------------------------------------------------------------
(* The controller's writes *)

LEMMA CurrentIsLatest ==
    ASSUME HInv, NEW k \in Keys, cache[k] # NoSource, server[k] # NoSource,
           cache[k].rv = server[k].rv
    PROVE  /\ Brought(k) = {}
           /\ SameObject(cache[k], server[k])
           /\ server[k].rv = revision[k] /\ server[k].uid = created[k]
<1> USE DEF HInv, Tracked
<1>1. watch[k] \in Seq(VersionsUpTo(hookCount))
    BY DEF OInv, Details, ObjectsTyped
<1>2. server[k] \in Copies(k) /\ cache[k] \in Copies(k)
    BY DEF Copies
<1>3. server[k].rv \in Nat
    BY <1>2, CopiesAreObjects
<1>4. watch[k] = <<>>
    <2> SUFFICES ASSUME watch[k] # <<>> PROVE FALSE
        OBVIOUS
    <2>1. Len(watch[k]) \in 1..Len(watch[k]) /\ watch[k][Len(watch[k])] = server[k]
        BY <1>1 DEF WatchInOrder
    <2>2. server[k] \in Brought(k)
        BY <2>1 DEF Brought
    <2> QED BY <1>3, <2>2 DEF WatchInOrder
<1>5. Brought(k) = {}
    <2>1. Len(<<>>) = 0 /\ 1..0 = {}
        OBVIOUS
    <2> QED BY <1>4, <2>1 DEF Brought
<1>6. SameObject(cache[k], server[k])
    <2>1. cache[k].rv <= server[k].rv /\ server[k].rv <= cache[k].rv
        BY <1>3
    <2>2. cache[k].uid <= server[k].uid /\ server[k].uid <= cache[k].uid
        BY <1>2, <2>1 DEF CopiesAge
    <2>3. cache[k].uid = server[k].uid
        BY <1>2, <2>2, CopiesAreObjects
    <2>4. cache[k].deleting = server[k].deleting
        BY <1>2, <2>1, <2>3, CopiesAreObjects DEF CopiesAge
    <2> QED BY <2>3, <2>4 DEF SameObject
<1> QED BY <1>5, <1>6 DEF CopiesAge

\* The cache's object has been given the status of a snapshot, or keeps its own.
CacheLearns ==
    \A k \in Keys : cache'[k] # NoSource =>
        \E u \in Copies(k) :
            u.rv <= cache'[k].rv /\ u.status.hookID = cache'[k].status.hookID

LEMMA CacheChangeKeeps ==
    ASSUME HInv, OutsideFrame, UNCHANGED watch, CacheChanges, CacheLearns, WorkersKeep
    PROVE  Tracked' /\ (Accounted => Accounted')
<1> USE DEF HInv, Tracked, OutsideFrame
<1>1. ASSUME NEW k \in Keys
      PROVE  Brought(k)' = Brought(k) /\ Snapshots(k)' \subseteq Snapshots(k)
    BY SnapshotsOfKeeping DEF Brought
<1>2. ASSUME NEW k \in Keys, NEW v \in Copies(k)'
      PROVE  v \in Copies(k) \/ (v = cache'[k] /\ v # NoSource)
    BY <1>1 DEF Copies
<1>3. ASSUME NEW k \in Keys, cache'[k] # NoSource
      PROVE  /\ cache[k] \in Copies(k) /\ cache[k] # NoSource
             /\ SameObject(cache'[k], cache[k])
    BY <1>3 DEF CacheChanges, SameObject, Copies
<1>4. ASSUME NEW k \in Keys, NEW v \in Copies(k)'
      PROVE  \E u \in Copies(k) : SameObject(v, u)
    BY <1>2, <1>3 DEF SameObject
<1>5. ASSUME NEW k \in Keys, NEW v \in Copies(k)'
      PROVE  \E u \in Copies(k) :
                /\ u.status.hookID = v.status.hookID
                /\ u.uid <= v.uid
                /\ u.uid = v.uid /\ u.deleting => v.deleting
    <2>1. CASE v \in Copies(k)
        BY <2>1, CopiesAreObjects
    <2>2. CASE v = cache'[k] /\ v # NoSource
        <3> PICK u \in Copies(k) : u.rv <= cache'[k].rv /\ u.status.hookID = cache'[k].status.hookID
            BY <2>2 DEF CacheLearns
        <3>1. /\ cache[k] \in Copies(k) /\ SameObject(cache'[k], cache[k])
            BY <1>3, <2>2
        <3> QED BY <2>2, <3>1 DEF CopiesAge, SameObject
    <2> QED BY <1>2, <2>1, <2>2
<1>6. HooksBelong'
    <2> SUFFICES ASSUME NEW k \in Keys, NEW v \in Copies(k)', NEW h \in hooks,
                        h.id = v.status.hookID
                 PROVE  h.owner[1] = k /\ h.owner[2] <= v.uid
        BY DEF HooksBelong
    <2> PICK u \in Copies(k) : u.status.hookID = v.status.hookID /\ u.uid <= v.uid
        BY <1>5
    <2>1. h.owner[1] = k /\ h.owner[2] <= u.uid
        BY DEF HooksBelong
    <2>2. u.uid \in Nat /\ v.uid \in Nat /\ h.owner[2] \in Nat
        <3>1. \E x \in Copies(k) : SameObject(v, x)
            BY <1>4
        <3>2. u.uid \in Nat /\ v.uid \in Nat
            BY <3>1, CopiesAreObjects DEF SameObject
        <3>3. h.owner \in Owners
            BY DEF OInv, Details, OutsideTyped
        <3> QED BY <3>2, <3>3, ConstantsAssumption DEF Owners, Uids
    <2> QED BY <2>1, <2>2
<1>7. CopiesAge'
    <2>1. \A k \in Keys : \A v \in Copies(k)' : v.rv <= revision[k] /\ v.uid <= created[k]
        BY <1>4 DEF CopiesAge, SameObject
    <2>2. ASSUME NEW k \in Keys, NEW u \in Copies(k)', NEW v \in Copies(k)', u.rv <= v.rv
          PROVE  u.uid <= v.uid /\ (u.uid = v.uid /\ u.deleting => v.deleting)
        <3> PICK t \in Copies(k) : SameObject(u, t)
            BY <1>4
        <3> PICK x \in Copies(k) : SameObject(v, x)
            BY <1>4
        <3> QED BY <2>2 DEF CopiesAge, SameObject
    <2> QED BY <2>1, <2>2 DEF CopiesAge
<1>8. WatchInOrder'
    BY <1>1, <1>3 DEF WatchInOrder, SameObject
<1>9. NewcomersHaveNoHook'
    <2>1. \A k \in Keys : Recorded(k) /\ cache'[k] # NoSource => cache'[k].uid = server[k].uid
        BY <1>3 DEF NewcomersHaveNoHook, SameObject
    <2>2. ASSUME NEW w \in Workers, pc'[w] \in ServingPhases \cup FinalizingPhases
          PROVE  UNCHANGED <<pc[w], held[w], source[w]>>
        BY <2>2 DEF WorkersKeep, Active, ServingPhases, FinalizingPhases
    <2> QED BY <1>1, <2>1, <2>2 DEF NewcomersHaveNoHook, Recorded
<1>10. HooksRemembered'
    <2> SUFFICES ASSUME NEW k \in Keys, Recorded(k), NEW v \in Copies(k)',
                        v.status.hookID = NoHook
                 PROVE  v.deleting /\ v.uid = server[k].uid
        BY DEF HooksRemembered, Recorded
    <2>1. CASE v \in Copies(k)
        BY <2>1 DEF HooksRemembered
    <2>2. CASE v = cache'[k] /\ v # NoSource
        <3>1. v.uid = server[k].uid
            BY <1>3, <2>2 DEF NewcomersHaveNoHook, SameObject
        <3> QED BY <1>5, <3>1 DEF HooksRemembered
    <2> QED BY <1>2, <2>1, <2>2
<1>11. HooksKnown => HooksKnown'
    BY <1>5 DEF HooksKnown, Recorded, Gone
<1>12. ProtectedHooksStay => ProtectedHooksStay'
    BY DEF ProtectedHooksStay
<1> QED BY <1>6, <1>7, <1>8, <1>9, <1>10, <1>11, <1>12, WorkersKeepKeeps DEF Accounted

\* A writer goes on to the second write or to the end.
LEMMA WriterKeeps ==
    ASSUME HInv, NEW w \in Workers, NEW sent, NEW stored, NEW allowed, NEW phase,
           \/ pc[w] = "status" /\ phase = AfterStatus(w, source[w])
           \/ pc[w] = "finalizers" /\ phase = "finish",
           WriteThroughCache(w, sent, stored, allowed, phase)
    PROVE  WorkersKeep /\ UNCHANGED <<held, original, source>>
<1>1. pc \in [Workers -> Phases]
    BY DEF HInv, OInv, IInv, WorkersTyped
<1>2. UNCHANGED <<held, original, source>>
    BY DEF WriteThroughCache, Abort
<1>3. pc' = [pc EXCEPT ![w] = "finish"] \/ pc' = [pc EXCEPT ![w] = phase]
    BY DEF WriteThroughCache, Abort
<1> QED BY <1>1, <1>2, <1>3 DEF WorkersKeep, Active, AfterStatus

\* The outcomes of a write, as far as they matter here.
LEMMA WriteOutcomes ==
    ASSUME NEW w \in Workers, NEW sent, NEW stored, NEW allowed, NEW phase,
           WriteThroughCache(w, sent, stored, allowed, phase)
    PROVE  /\ UNCHANGED <<created, hooks, hookCount, warned>>
           /\ WriteCaches(w, sent)
           /\ \/ UNCHANGED <<server, revision, watch, protected>>
              \/ /\ cache[held[w]] # NoSource
                 /\ Current(held[w], sent)
                 /\ cache' = [cache EXCEPT ![held[w]] = sent]
                 /\ Store(held[w], stored)
<1>1. UNCHANGED <<created, hooks, hookCount, warned>>
    BY DEF WriteThroughCache, gitlabVars
<1>2. WriteCaches(w, sent)
    BY DEF WriteThroughCache, WriteCaches
<1>3. \/ UNCHANGED <<server, revision, watch, protected>>
      \/ /\ cache[held[w]] # NoSource
         /\ Current(held[w], sent)
         /\ cache' = [cache EXCEPT ![held[w]] = sent]
         /\ Store(held[w], stored)
    BY DEF WriteThroughCache, StoreIfChanged
<1> QED BY <1>1, <1>2, <1>3

LEMMA CacheGiven ==
    ASSUME HInv, NEW w \in Workers, held[w] \in Keys, NEW sent, WriteCaches(w, sent),
           cache[held[w]] # NoSource => sent # NoSource /\ SameObject(sent, cache[held[w]])
    PROVE  /\ CacheChanges
           /\ \A k \in Keys : cache'[k] # cache[k] =>
                k = held[w] /\ cache'[k] = sent /\ cache[k] # NoSource
<1>1. cache \in [Keys -> VersionsUpTo(hookCount)]
    BY DEF HInv, OInv, Details, ObjectsTyped
<1> QED BY <1>1 DEF WriteCaches, CacheChanges

\* What w has removed from the finalizers, or added, is stored with the rest of the
\* object that the server has.
StoresFinalizers(w, object) ==
    LET k == held[w]
    IN  /\ server[k] # NoSource
        /\ Store(k, object)
        /\ object.uid = server[k].uid /\ object.deleting = server[k].deleting
        /\ object.status = server[k].status
        /\ object.finalizers = source[w].finalizers

LEMMA UpdateFinalizersOutcomes ==
    ASSUME HInv, NEW w \in Workers, UpdateFinalizers(w)
    PROVE  /\ held[w] \in Keys /\ WorkersKeep
           /\ UNCHANGED <<held, original, source, created, hooks, hookCount, warned>>
           /\ CacheChanges /\ CacheKeepsHooks
           /\ \/ UNCHANGED <<server, revision, watch, protected>>
              \/ \E object \in ObjectsUpTo(hookCount) : StoresFinalizers(w, object)
<1> DEFINE k == held[w]
           sent == [cache[k] EXCEPT !.finalizers = source[w].finalizers]
<1>1. pc[w] = "finalizers" /\ held[w] \in Keys /\ hookCount \in Nat
    BY OwnerIsOwner DEF UpdateFinalizers, HInv, OInv, Details, OutsideTyped
<1>2. source[w].finalizers \in SUBSET Finalizers
    BY <1>1, FieldsOfObjects DEF HInv, OInv, Details, WorkersHold
<1>3. ASSUME cache[k] # NoSource
      PROVE  /\ sent \in ObjectsUpTo(hookCount)
             /\ sent # NoSource
             /\ SameObject(sent, cache[k])
             /\ sent.status = cache[k].status
             /\ sent.finalizers = source[w].finalizers
    <2>1. cache[k] \in ObjectsUpTo(hookCount)
        BY <1>1, <1>3, CachedIsObject DEF HInv
    <2>2. sent \in ObjectsUpTo(hookCount)
        BY <1>1, <1>2, <2>1, FinalizersSet
    <2>3. sent # NoSource
        BY <1>1, <2>2, NoSourceIsNoObject
    <2> QED BY <2>1, <2>2, <2>3 DEF ObjectsUpTo, SameObject
<1>4. WriteThroughCache(w, sent, Put(k, sent), FinalizersAllowed(k, source[w].finalizers), "finish")
    BY DEF UpdateFinalizers
<1> HIDE DEF sent
<1>5. WorkersKeep /\ UNCHANGED <<held, original, source>>
    BY <1>1, <1>4, WriterKeeps
<1>6. /\ UNCHANGED <<created, hooks, hookCount, warned>>
      /\ WriteCaches(w, sent)
      /\ \/ UNCHANGED <<server, revision, watch, protected>>
         \/ cache[k] # NoSource /\ Current(k, sent) /\ Store(k, Put(k, sent))
    BY <1>4, WriteOutcomes
<1>7. /\ CacheChanges
      /\ \A l \in Keys : cache'[l] # cache[l] =>
            l = k /\ cache'[l] = sent /\ cache[l] # NoSource
    BY <1>1, <1>3, <1>6, CacheGiven
<1>8. CacheKeepsHooks
    BY <1>3, <1>7 DEF CacheKeepsHooks
<1>9. ASSUME cache[k] # NoSource, Current(k, sent), Store(k, Put(k, sent))
      PROVE  \E object \in ObjectsUpTo(hookCount) : StoresFinalizers(w, object)
    <2>1. server[k] # NoSource /\ cache[k].rv = server[k].rv
        BY <1>3, <1>9 DEF Current, SameObject
    <2>2. SameObject(cache[k], server[k])
        BY <1>1, <1>9, <2>1, CurrentIsLatest
    <2>3. server[k] \in ObjectsUpTo(hookCount)
        BY <1>1, <2>1, CachedIsObject DEF HInv
    <2> DEFINE object == Put(k, sent)
    <2>4. object \in ObjectsUpTo(hookCount)
        BY <1>1, <1>3, <1>9, <2>3, StatusSet DEF Put
    <2>5. /\ object.uid = sent.uid /\ object.status = server[k].status
          /\ object.deleting = server[k].deleting /\ object.finalizers = sent.finalizers
        BY <1>3, <1>9 DEF Put, ObjectsUpTo
    <2>6. object.uid = server[k].uid
        BY <1>3, <1>9, <2>2, <2>5 DEF SameObject
    <2>7. Store(k, object)
        BY <1>9
    <2> HIDE DEF object
    <2> QED BY <1>3, <1>9, <2>1, <2>4, <2>5, <2>6, <2>7 DEF StoresFinalizers
<1> QED BY <1>1, <1>5, <1>6, <1>7, <1>8, <1>9

\* Nor does the controller take its finalizer away before the hook is released.
LEMMA FinalizerIsReleased ==
    ASSUME HInv, Accounted, NEW w \in Workers, UpdateFinalizers(w), NEW object,
           StoresFinalizers(w, object)
    PROVE  FinalizerStays(held[w], object)
<1> SUFFICES ASSUME finalizerName \in server[held[w]].finalizers,
                    ~Released(server[held[w]].status.hookID)
             PROVE  finalizerName \in source[w].finalizers
    BY DEF FinalizerStays, StoresFinalizers
<1> DEFINE before == original[w].finalizers
           after == source[w].finalizers
<1>1. pc[w] = "finalizers" /\ Active(w)
    BY DEF UpdateFinalizers, Active
<1>2. before \ {finalizerName} = after \ {finalizerName} /\ before # after
    BY <1>1 DEF Accounted, HooksReleased
<1>3. before \subseteq after
    BY <1>1 DEF Accounted, HooksReleased, StoresFinalizers
<1> QED BY <1>2, <1>3

LEMMA UpdateFinalizersKeepsHooks ==
    ASSUME HInv, NEW w \in Workers, UpdateFinalizers(w)
    PROVE  Tracked' /\ (Accounted => Accounted')
<1> DEFINE k == held[w]
<1>1. /\ k \in Keys /\ WorkersKeep /\ CacheChanges /\ CacheKeepsHooks
      /\ UNCHANGED <<held, original, source, created, hooks, hookCount, warned>>
    BY UpdateFinalizersOutcomes
<1>2. CASE UNCHANGED <<server, revision, watch, protected>>
    <2>1. CacheLearns
        <3> SUFFICES ASSUME NEW l \in Keys, cache'[l] # NoSource
                     PROVE  \E u \in Copies(l) :
                                /\ u.rv <= cache'[l].rv
                                /\ u.status.hookID = cache'[l].status.hookID
            BY DEF CacheLearns
        <3>1. cache[l] \in Copies(l) /\ cache'[l].rv = cache[l].rv
            BY <1>1 DEF CacheChanges, SameObject, Copies
        <3>2. cache[l].rv \in Nat
            BY <3>1, CopiesAreObjects DEF HInv
        <3> QED BY <1>1, <3>1, <3>2 DEF CacheKeepsHooks
    <2> QED BY <1>1, <1>2, <2>1, CacheChangeKeeps DEF OutsideFrame
<1>3. CASE \E object \in ObjectsUpTo(hookCount) : StoresFinalizers(w, object)
    <2> PICK object \in ObjectsUpTo(hookCount) : StoresFinalizers(w, object)
        BY <1>3
    <2>1. server[k] # NoSource /\ server[k] \in Copies(k)
        BY DEF Copies, StoresFinalizers
    <2>2. object.uid = server[k].uid /\ object.deleting = server[k].deleting
        BY DEF StoresFinalizers
    <2>3. server[k].uid = created[k] /\ server[k].rv = revision[k]
        BY <1>1, <2>1 DEF HInv, Tracked, CopiesAge
    <2>4. \A u \in Copies(k) : u.uid = object.uid /\ u.deleting => object.deleting
        BY <1>1, <2>1, <2>2, <2>3 DEF HInv, Tracked, CopiesAge
    <2>5. created' = [created EXCEPT ![k] = object.uid] /\ created[k] <= object.uid
        <3>1. created \in [Keys -> 0..MaxUid] /\ created[k] \in Nat
            BY <1>1, ConstantsAssumption DEF HInv, OInv, Details, OutsideTyped
        <3> QED BY <1>1, <2>2, <2>3, <3>1
    <2>6. Replaces(k, object)
        BY <2>4, <2>5 DEF Replaces, StoresFinalizers
    <2>7. EditsObject(k, object)
        BY <2>1, <2>2 DEF EditsObject, StoresFinalizers
    <2> QED BY <1>1, <2>6, <2>7, FinalizerIsReleased, StoreKeepsHooks
<1> QED BY <1>2, <1>3, UpdateFinalizersOutcomes

\* The status that w has come to is sent with the cache's object, and stored.
StoresStatus(w, sent, object) ==
    LET k == held[w]
    IN  /\ server[k] # NoSource /\ cache[k] # NoSource /\ cache[k].rv = server[k].rv
        /\ SameObject(sent, cache[k])
        /\ sent.status = source[w].status
        /\ cache' = [cache EXCEPT ![k] = sent]
        /\ Store(k, object)
        /\ object.uid = server[k].uid /\ object.deleting = server[k].deleting
        /\ object.status = source[w].status
        /\ object.finalizers = server[k].finalizers

\* A status is written only where the snapshot is the last word: nothing is on its way
\* to the cache, and no other worker has the source.
LEMMA StatusStoredKeepsHooks ==
    ASSUME HInv, NEW w \in Workers, pc[w] = "status", WorkersKeep, CacheChanges,
           UNCHANGED <<held, source, original, created, hooks, hookCount, warned>>,
           NEW sent, NEW object \in ObjectsUpTo(hookCount), StoresStatus(w, sent, object)
    PROVE  /\ Tracked' /\ (Accounted => Accounted')
           /\ \A v \in Copies(held[w])' : v.status.hookID = source[w].status.hookID
<1> USE DEF HInv, Tracked, StoresStatus
<1> DEFINE k == held[w]
           id == source[w].status.hookID
           stored == Stored(k, object)
<1>1. Active(w) /\ held[w] \in Keys /\ held[w] # NoKey
    BY OwnerIsOwner, ConstantsAssumption DEF Active
<1>2. /\ SameObject(cache[k], server[k]) /\ Brought(k) = {}
      /\ server[k].rv = revision[k] /\ server[k].uid = created[k]
    BY <1>1, CurrentIsLatest
<1>3. server[k] \in Copies(k) /\ cache[k] \in Copies(k) /\ source[w] \in Snapshots(k)
      /\ source[w] \in Copies(k)
    BY <1>1 DEF Copies, Snapshots
<1>4. Replaces(k, object)
    <2>1. \A u \in Copies(k) : u.uid = object.uid /\ u.deleting => object.deleting
        BY <1>1, <1>2, <1>3 DEF CopiesAge
    <2>2. created \in [Keys -> 0..MaxUid] /\ created[k] \in Nat
        BY <1>1, ConstantsAssumption DEF OInv, Details, OutsideTyped
    <2> QED BY <1>1, <1>2, <2>1, <2>2 DEF Replaces
<1>5. CopiesAge' /\ WatchInOrder'
    BY <1>1, <1>4, StoreKeepsTheOrder
<1>6. /\ server'[k] = stored
      /\ \A l \in Keys \ {k} : server'[l] = server[l] /\ Brought(l)' = Brought(l)
      /\ Brought(k)' \subseteq {stored} \ {NoSource}
      /\ stored # NoSource =>
            stored.uid = object.uid /\ stored.status = object.status
            /\ stored.finalizers = object.finalizers
      /\ finalizerName \in object.finalizers => stored # NoSource
    BY <1>1, <1>2, StoreParts
<1>7. DOMAIN cache = Keys
    BY DEF OInv, Details, ObjectsTyped
<1>8. cache'[k] = sent /\ \A l \in Keys \ {k} : cache'[l] = cache[l]
    BY <1>1, <1>7
<1>9. \A v \in Workers : held[v] = k => v = w
    BY <1>1 DEF OInv, IInv, HeldIsProcessing, SingleFlight
<1>10. \A l \in Keys : Snapshots(l)' \subseteq Snapshots(l)
    BY SnapshotsOfKeeping
<1>11. Snapshots(k) \subseteq {source[w]}
    BY <1>9 DEF Snapshots
<1> HIDE DEF stored
<1>12. ASSUME NEW v \in Copies(k)'
       PROVE  v \in {sent, source[w]} \/ (v = stored /\ v # NoSource)
    BY <1>1, <1>6, <1>8, <1>10, <1>11 DEF Copies
<1>13. \A l \in Keys \ {k} : Copies(l)' \subseteq Copies(l)
    BY <1>6, <1>8, <1>10 DEF Copies
<1>14. \A v \in Copies(k)' : v.status.hookID = id
    BY <1>6, <1>12
<1>15. source[w].uid <= cache[k].uid
    BY <1>1, <1>3 DEF WatchInOrder, CopiesAge
<1>16. \A v \in Copies(k)' : source[w].uid <= v.uid
    <2>1. source[w].uid \in Nat
        BY <1>1, <1>3, CopiesAreObjects
    <2> QED BY <1>2, <1>6, <1>12, <1>15, <2>1 DEF SameObject
<1>17. HooksBelong'
    <2>1. \A h \in hooks : h.id = id => h.owner[1] = k /\ h.owner[2] <= source[w].uid
        BY <1>1, <1>3 DEF HooksBelong
    <2>2. \A h \in hooks : h.owner[2] \in Nat
        BY ConstantsAssumption DEF OInv, Details, OutsideTyped, Owners, Uids
    <2>3. source[w].uid \in Nat
        BY <1>1, <1>3, CopiesAreObjects
    <2>4. \A v \in Copies(k)' : v.uid \in Nat
        BY <1>2, <1>3, <1>6, <1>12, <1>1, CopiesAreObjects DEF SameObject
    <2>5. \A v \in Copies(k)', h \in hooks :
            h.id = v.status.hookID => h.owner[1] = k /\ h.owner[2] <= v.uid
        BY <1>14, <1>16, <2>1, <2>2, <2>3, <2>4
    <2>6. \A l \in Keys \ {k} : \A v \in Copies(l)', h \in hooks :
            h.id = v.status.hookID => h.owner[1] = l /\ h.owner[2] <= v.uid
        BY <1>13 DEF HooksBelong
    <2> QED BY <2>5, <2>6 DEF HooksBelong
<1>18. PhasesFit'
    BY DEF WorkersKeep, PhasesFit, Active, ServingPhases, FinalizingPhases
<1>19. NewcomersHaveNoHook'
    <2>1. cache'[k].uid = server[k].uid /\ \A v \in Brought(k)' : v.uid = server[k].uid
        BY <1>2, <1>6, <1>8 DEF SameObject
    <2>2. \A v \in Workers : pc'[v] \in ServingPhases \cup FinalizingPhases => v # w
        BY <1>1 DEF WorkersKeep, Active, ServingPhases, FinalizingPhases
    <2>3. ASSUME NEW v \in Workers, pc'[v] \in ServingPhases \cup FinalizingPhases
          PROVE  UNCHANGED <<pc[v], held[v], source[v]>>
        BY <2>3 DEF WorkersKeep, Active, ServingPhases, FinalizingPhases
    <2>4. Recorded(k)' => server'[k].uid = server[k].uid
        BY <1>6 DEF Recorded
    <2>5. \A l \in Keys \ {k} : Recorded(l)' => Recorded(l) /\ server'[l] = server[l]
        BY <1>6 DEF Recorded
    <2> QED BY <1>6, <1>8, <1>9, <2>1, <2>2, <2>3, <2>4, <2>5 DEF NewcomersHaveNoHook
<1>20. HooksRemembered'
    <2>1. Recorded(k)' => id # NoHook
        BY <1>6 DEF Recorded
    <2>2. \A l \in Keys \ {k} : Recorded(l)' => Recorded(l) /\ server'[l] = server[l]
        BY <1>6 DEF Recorded
    <2>3. ASSUME NEW l \in Keys, Recorded(l)', NEW v \in Copies(l)', v.status.hookID = NoHook
          PROVE  v.deleting /\ v.uid = server'[l].uid
        <3>1. l # k
            BY <1>14, <2>1, <2>3
        <3> QED BY <1>13, <2>2, <2>3, <3>1 DEF HooksRemembered
    <2> QED BY <2>3 DEF HooksRemembered
<1>21. HooksKnown => HooksKnown'
    <2> SUFFICES ASSUME HooksKnown, NEW l \in Keys, Recorded(l)', NEW v \in Copies(l)'
                 PROVE  v.status.hookID = server'[l].status.hookID
                        \/ Gone(server'[l].status.hookID)
        BY DEF HooksKnown, Gone
    <2>1. CASE l = k
        <3>1. server'[k].status.hookID = id
            BY <1>6, <2>1 DEF Recorded
        <3> QED BY <1>14, <2>1, <3>1
    <2>2. CASE l # k
        <3>1. v \in Copies(l) /\ server'[l] = server[l]
            BY <1>6, <1>13, <2>2
        <3> QED BY <3>1 DEF HooksKnown, Recorded
    <2> QED BY <2>1, <2>2
<1>22. HooksReleased => HooksReleased'
    <2> SUFFICES ASSUME HooksReleased PROVE HooksReleased'
        OBVIOUS
    <2>1. ASSUME NEW v \in Workers, Active(v)'
          PROVE  /\ Active(v)
                 /\ UNCHANGED <<held[v], original[v], source[v]>>
                 /\ \/ pc'[v] = pc[v]
                    \/ /\ pc[v] = "status" /\ pc'[v] = "finalizers"
                       /\ original[v].finalizers # source[v].finalizers
        BY <2>1 DEF WorkersKeep
    <2>2. server'[k] # NoSource => server'[k].status.hookID = id
        BY <1>6
    <2>3. \A v \in Workers : Active(v) => held[v] \in Keys
        BY OwnerIsOwner DEF Active
    <2>4. \A v \in Workers : Active(v) /\ v # w => server'[held[v]] = server[held[v]]
        BY <1>6, <1>9, <2>3
    <2> QED BY <2>1, <2>2, <2>4 DEF HooksReleased, Released, Gone, ServingPhases
<1>23. ASSUME Accounted PROVE ProtectedHooksStay'
    <2> SUFFICES ASSUME NEW h \in hooks, h.id \in protected', h.id \notin warned
                 PROVE  /\ server'[h.owner[1]] # NoSource
                        /\ server'[h.owner[1]].status.hookID = h.id
                        /\ finalizerName \in server'[h.owner[1]].finalizers
        BY DEF ProtectedHooksStay
    <2>1. h.owner[1] \in Keys
        BY DEF OInv, Details, OutsideTyped, Owners
    <2>2. CASE h.id \in protected /\ h.owner[1] # k
        BY <1>6, <1>23, <2>1, <2>2 DEF Accounted, ProtectedHooksStay
    <2>3. CASE h.id \in protected /\ h.owner[1] = k
        <3>1. server[k].status.hookID = h.id /\ finalizerName \in server[k].finalizers
            BY <1>23, <2>3 DEF Accounted, ProtectedHooksStay
        <3>2. h.id # NoHook
            BY NoHookIsNoID DEF OInv, Details, OutsideTyped
        <3>3. id = h.id
            BY <1>1, <1>3, <1>23, <3>1, <3>2 DEF Accounted, HooksKnown, Recorded, Gone
        <3> QED BY <1>6, <2>3, <3>1, <3>3
    <2>4. CASE h.id \notin protected
        <3>1. finalizerName \in object.finalizers /\ h.id = id
            BY <2>4 DEF Store
        <3>2. h.owner[1] = k
            BY <1>1, <1>3, <3>1 DEF HooksBelong
        <3> QED BY <1>6, <3>1, <3>2
    <2> QED BY <2>2, <2>3, <2>4
<1> QED BY <1>5, <1>14, <1>17, <1>18, <1>19, <1>20, <1>21, <1>22, <1>23 DEF Accounted

LEMMA UpdateStatusOutcomes ==
    ASSUME HInv, NEW w \in Workers, UpdateStatus(w)
    PROVE  /\ held[w] \in Keys /\ source[w] \in Copies(held[w]) /\ WorkersKeep
           /\ UNCHANGED <<held, original, source, created, hooks, hookCount, warned>>
           /\ CacheChanges
           /\ \A l \in Keys : cache'[l] # cache[l] =>
                l = held[w] /\ cache'[l].status = source[w].status
           /\ \/ UNCHANGED <<server, revision, watch, protected>>
              \/ \E sent, object \in ObjectsUpTo(hookCount) : StoresStatus(w, sent, object)
<1> DEFINE k == held[w]
           sent == [cache[k] EXCEPT !.status = source[w].status]
<1>1. pc[w] = "status" /\ held[w] \in Keys /\ hookCount \in Nat /\ Active(w)
    BY OwnerIsOwner DEF UpdateStatus, HInv, OInv, Details, OutsideTyped, Active
<1>2. source[w] \in ObjectsUpTo(hookCount) /\ source[w] \in Copies(k)
    BY <1>1 DEF HInv, OInv, Details, WorkersHold, Copies, Snapshots
<1>3. ASSUME cache[k] # NoSource
      PROVE  /\ sent \in ObjectsUpTo(hookCount)
             /\ sent # NoSource
             /\ SameObject(sent, cache[k])
             /\ sent.status = source[w].status
    <2>1. cache[k] \in ObjectsUpTo(hookCount)
        BY <1>1, <1>3, CachedIsObject DEF HInv
    <2>2. sent \in ObjectsUpTo(hookCount)
        BY <1>1, <1>2, <2>1, StatusSet
    <2>3. sent # NoSource
        BY <1>1, <2>2, NoSourceIsNoObject
    <2> QED BY <2>1, <2>2, <2>3 DEF ObjectsUpTo, SameObject
<1>4. WriteThroughCache(w, sent, PutStatus(k, sent), TRUE, AfterStatus(w, source[w]))
    BY DEF UpdateStatus
<1> HIDE DEF sent
<1>5. WorkersKeep /\ UNCHANGED <<held, original, source>>
    BY <1>1, <1>4, WriterKeeps
<1>6. /\ UNCHANGED <<created, hooks, hookCount, warned>>
      /\ WriteCaches(w, sent)
      /\ \/ UNCHANGED <<server, revision, watch, protected>>
         \/ /\ cache[k] # NoSource
            /\ Current(k, sent)
            /\ cache' = [cache EXCEPT ![k] = sent]
            /\ Store(k, PutStatus(k, sent))
    BY <1>4, WriteOutcomes
<1>7. /\ CacheChanges
      /\ \A l \in Keys : cache'[l] # cache[l] =>
            l = k /\ cache'[l] = sent /\ cache[l] # NoSource
    BY <1>1, <1>3, <1>6, CacheGiven
<1>8. ASSUME cache[k] # NoSource, Current(k, sent),
             cache' = [cache EXCEPT ![k] = sent], Store(k, PutStatus(k, sent))
      PROVE  \E object \in ObjectsUpTo(hookCount) : StoresStatus(w, sent, object)
    <2>1. server[k] # NoSource /\ cache[k].rv = server[k].rv
        BY <1>3, <1>8 DEF Current, SameObject
    <2>2. server[k] \in ObjectsUpTo(hookCount)
        BY <1>1, <2>1, CachedIsObject DEF HInv
    <2> DEFINE object == PutStatus(k, sent)
    <2>3. object \in ObjectsUpTo(hookCount)
        BY <1>1, <1>3, <1>8, <2>2, StatusSet DEF PutStatus
    <2>4. /\ object.uid = server[k].uid /\ object.status = sent.status
          /\ object.deleting = server[k].deleting /\ object.finalizers = server[k].finalizers
        BY <2>2 DEF PutStatus, ObjectsUpTo
    <2>5. Store(k, object)
        BY <1>8
    <2> HIDE DEF object
    <2> QED BY <1>3, <1>8, <2>1, <2>3, <2>4, <2>5 DEF StoresStatus
<1>9. cache[k] # NoSource => sent \in ObjectsUpTo(hookCount)
    BY <1>3
<1> QED BY <1>1, <1>2, <1>3, <1>5, <1>6, <1>7, <1>8, <1>9

LEMMA UpdateStatusKeepsHooks ==
    ASSUME HInv, NEW w \in Workers, UpdateStatus(w)
    PROVE  Tracked' /\ (Accounted => Accounted')
<1>1. /\ WorkersKeep /\ CacheChanges
      /\ UNCHANGED <<held, original, source, created, hooks, hookCount, warned>>
    BY UpdateStatusOutcomes
<1>2. pc[w] = "status" /\ held[w] \in Keys /\ source[w] \in Copies(held[w])
    BY UpdateStatusOutcomes DEF UpdateStatus
<1>3. CASE UNCHANGED <<server, revision, watch, protected>>
    <2>1. CacheLearns
        <3> SUFFICES ASSUME NEW l \in Keys, cache'[l] # NoSource
                     PROVE  \E u \in Copies(l) :
                                /\ u.rv <= cache'[l].rv
                                /\ u.status.hookID = cache'[l].status.hookID
            BY DEF CacheLearns
        <3>1. cache[l] \in Copies(l) /\ cache'[l].rv = cache[l].rv /\ cache[l] # NoSource
            BY <1>1 DEF CacheChanges, SameObject, Copies
        <3>2. CASE cache'[l] = cache[l]
            <4>1. cache[l].rv \in Nat
                BY <3>1, CopiesAreObjects DEF HInv
            <4> QED BY <3>1, <3>2, <4>1
        <3>3. CASE cache'[l] # cache[l]
            <4>1. l = held[w] /\ cache'[l].status = source[w].status
                BY <3>3, UpdateStatusOutcomes
            <4>2. source[w] \in Snapshots(l)
                BY <1>2, <4>1 DEF Snapshots, Active
            <4>3. source[w].rv <= cache[l].rv
                BY <3>1, <4>2 DEF HInv, Tracked, WatchInOrder
            <4> QED BY <1>2, <3>1, <4>1, <4>3
        <3> QED BY <3>2, <3>3
    <2> QED BY <1>1, <1>3, <2>1, CacheChangeKeeps DEF OutsideFrame
<1>4. CASE \E sent, object \in ObjectsUpTo(hookCount) : StoresStatus(w, sent, object)
    BY <1>1, <1>2, <1>4, StatusStoredKeepsHooks
<1> QED BY <1>3, <1>4, UpdateStatusOutcomes

-----------------------------------------------------------------------------
(* The inductive invariant *)

LEMMA HooksInit == Init => Tracked /\ Accounted
<1> SUFFICES ASSUME Init PROVE Tracked /\ Accounted
    OBVIOUS
<1>1. /\ \A k \in Keys : server[k] = NoSource /\ cache[k] = NoSource /\ watch[k] = <<>>
      /\ \A w \in Workers : pc[w] = "get"
      /\ hooks = {}
    BY DEF Init
<1>2. Len(<<>>) = 0 /\ 1..0 = {}
    OBVIOUS
<1>3. \A k \in Keys : Brought(k) = {}
    BY <1>1, <1>2 DEF Brought
<1>4. \A w \in Workers : ~Active(w) /\ pc[w] \notin ServingPhases \cup FinalizingPhases
    BY <1>1 DEF Active, ServingPhases, FinalizingPhases
<1>5. \A k \in Keys : Snapshots(k) = {}
    BY <1>4 DEF Snapshots
<1>6. \A k \in Keys : Copies(k) = {} /\ ~Recorded(k)
    BY <1>1, <1>3, <1>5 DEF Copies, Recorded
<1>7. HooksBelong /\ CopiesAge
    BY <1>1, <1>6 DEF HooksBelong, CopiesAge
<1>8. WatchInOrder
    BY <1>1, <1>2, <1>5 DEF WatchInOrder
<1>9. PhasesFit /\ NewcomersHaveNoHook /\ HooksRemembered
    BY <1>4, <1>6 DEF PhasesFit, NewcomersHaveNoHook, HooksRemembered
<1>10. HooksKnown /\ HooksReleased /\ ProtectedHooksStay
    BY <1>1, <1>4, <1>6 DEF HooksKnown, HooksReleased, ProtectedHooksStay
<1> QED BY <1>7, <1>8, <1>9, <1>10 DEF Tracked, Accounted

LEMMA HooksNext ==
    ASSUME HInv, [Next]_vars PROVE Tracked' /\ (Accounted /\ HookIsListed => Accounted')
<1>1. CASE \E k \in Keys : \/ InformerStep(k) \/ Resync(k)
                           \/ CreateSource(k) \/ DeleteSource(k) \/ EditSource(k)
                           \/ RemoveForeign(k)
    BY <1>1, DeliverKeeps, QuietStepsKeep, UserStoresKeepHooks DEF InformerStep
<1>2. CASE \E w \in Workers : ReconcileStep(w)
    <2> PICK w \in Workers : ReconcileStep(w)
        BY <1>2
    <2>1. CASE PanicWithoutIngress(w) \/ PanicOnPathlessProject(w)
        BY <2>1, PanicsRestart, RestartKeepsHooks
    <2>2. CASE Finish(w)
        BY <2>2, QuietStepsKeep
    <2> QED BY <2>1, <2>2, LookupKeepsHooks, ServingStepKeepsHooks, CreateWebhookKeepsHooks,
               FinalizeKeepsHooks, DeleteWebhookKeepsHooks, UpdateStatusKeepsHooks,
               UpdateFinalizersKeepsHooks
            DEF ReconcileStep, ServingStep
<1>3. CASE \E w \in Workers : Take(w)
    BY <1>3, QuietStepsKeep
<1>4. CASE Relist \/ Crash
    BY <1>4, RelistKeeps, RestartKeepsHooks DEF Crash
<1>5. CASE \/ EditEnvironment
           \/ \E v \in services : ProvisionIngress(v)
           \/ \E owner \in Owners : CollectGarbage(owner)
           \/ UNCHANGED vars
    BY <1>5, QuietStepsKeep
<1> QED BY <1>1, <1>2, <1>3, <1>4, <1>5 DEF Next

LEMMA HooksInvariance == Spec => []HInv
<1>1. Init => Tracked
    BY HooksInit
<1>2. OInv /\ Tracked /\ [Next]_vars => Tracked'
    BY HooksNext DEF HInv
<1> QED BY <1>1, <1>2, ObjectsInvariance, PTL DEF Spec, HInv

-----------------------------------------------------------------------------
(* The theorems *)

LEMMA OnlyRequestsChangeHooks ==
    ASSUME [Next]_vars, \A w \in Workers : ~CreateWebhook(w) /\ ~DeleteWebhook(w)
    PROVE  UNCHANGED hooks
<1> USE DEF gitlabVars
<1>1. CASE \E k \in Keys : \/ InformerStep(k) \/ Resync(k)
                           \/ CreateSource(k) \/ DeleteSource(k) \/ EditSource(k)
                           \/ RemoveForeign(k)
    BY <1>1 DEF InformerStep, Deliver, Notify, RetryDue, Resync, CreateSource, DeleteSource,
                EditSource, RemoveForeign, clusterFrame
<1>2. ASSUME NEW w \in Workers, ReconcileStep(w) PROVE UNCHANGED hooks
    <2>1. CASE PanicWithoutIngress(w) \/ PanicOnPathlessProject(w)
        BY <2>1, PanicsRestart DEF Restart
    <2>2. CASE ServingStep(w)
        BY <2>2 DEF ServingStep, ReadSecrets, ResolveSink, FindReceiver, CreateDeployment,
                    CreateService, ListServicesFails, KeepWebhook
    <2>3. CASE Lookup(w) \/ Finalize(w) \/ Finish(w)
        BY <2>3 DEF Lookup, Finalize, Finish
    <2>4. CASE UpdateStatus(w) \/ UpdateFinalizers(w)
        BY <2>4, WriteOutcomes DEF UpdateStatus, UpdateFinalizers
    <2> QED BY <1>2, <2>1, <2>2, <2>3, <2>4 DEF ReconcileStep, ServingStep
<1>3. CASE \/ \E w \in Workers : Take(w)
           \/ Relist \/ Crash \/ EditEnvironment
           \/ \E v \in services : ProvisionIngress(v)
           \/ \E owner \in Owners : CollectGarbage(owner)
           \/ UNCHANGED vars
    BY <1>3 DEF Take, Relist, Crash, Restart, EditEnvironment, ProvisionIngress,
                CollectGarbage, clusterFrame, vars
<1> QED BY <1>1, <1>2, <1>3 DEF Next

LEMMA SnapshotIsCopy ==
    ASSUME HInv, NEW w \in Workers, Active(w)
    PROVE  held[w] \in Keys /\ source[w] \in Copies(held[w])
BY OwnerIsOwner DEF HInv, Active, Copies, Snapshots

\* Who creates a hook knows of none, and neither does the API server.
LEMMA CreatorKnowsOfNone ==
    ASSUME HInv, NEW w \in Workers, CreateWebhook(w)
    PROVE  Active(w) /\ held[w] \in Keys /\ ~Recorded(held[w])
<1>1. pc[w] = "webhook" /\ source[w].status.hookID = NoHook
    BY DEF CreateWebhook
<1>2. Active(w) /\ ~source[w].deleting
    BY <1>1 DEF Active, HInv, Tracked, PhasesFit, ServingPhases
<1>3. held[w] \in Keys /\ source[w] \in Copies(held[w])
    BY <1>2, SnapshotIsCopy
<1>4. ~Recorded(held[w])
    BY <1>1, <1>2, <1>3 DEF HInv, Tracked, HooksRemembered
<1> QED BY <1>2, <1>3, <1>4

LEMMA NewHooksAreFirst ==
    ASSUME HInv, [Next]_vars, NEW h \in hooks' \ hooks, Alive(h.owner)
    PROVE  server[h.owner[1]].status.hookID = NoHook
<1>1. \E w \in Workers : CreateWebhook(w)
    BY OnlyRequestsChangeHooks DEF DeleteWebhook, DeleteProjectHook
<1> PICK w \in Workers : CreateWebhook(w)
    BY <1>1
<1>2. h.owner = Owner(w)
    <2>1. \E v \in Candidates(w) : AddProjectHook(w, v) \/ UNCHANGED hooks
        BY DEF CreateWebhook, gitlabVars
    <2>2. \E v \in Candidates(w) :
            h = [id |-> hookCount + 1, project |-> source[w].project,
                 owner |-> Owner(w), target |-> v.owner]
        BY <2>1 DEF AddProjectHook
    <2> QED BY <2>2
<1> QED BY <1>2, CreatorKnowsOfNone DEF Alive, Owner, Recorded

\* NoSecondHookOnceRecorded: the cache may lag behind the controller's own write,
\* workers may retry, and the process may restart, yet reconcile creates no hook for a
\* source that the API server has one recorded for.
THEOREM NoSecondHook == Spec => NoSecondHookOnceRecorded
<1>1. HInv /\ [Next]_vars =>
        [\A h \in hooks' \ hooks :
            Alive(h.owner) => server[h.owner[1]].status.hookID = NoHook]_vars
    BY NewHooksAreFirst
<1> QED BY <1>1, HooksInvariance, PTL DEF Spec, NoSecondHookOnceRecorded

\* Of two hooks of one instance of GitLab the later has the larger number.
LEMMA NumbersGrow ==
    ASSUME hookCount \in Nat, NEW m \in 1..hookCount, NEW n \in 1..hookCount, m < n,
           issuers[m] = issuers[n]
    PROVE  HookNumber(m) # HookNumber(n)
<1> DEFINE upTo(i) == {j \in 1..i : issuers[j] = issuers[i]}
<1>1. IsFiniteSet(upTo(n))
    <2>1. IsFiniteSet(1..n) /\ upTo(n) \in SUBSET (1..n)
        BY FS_Interval
    <2> QED BY <2>1, FS_Subset
<1>2. upTo(m) \in SUBSET upTo(n) /\ n \in upTo(n) /\ n \notin upTo(m)
    OBVIOUS
<1> HIDE DEF upTo
<1>3. Cardinality(upTo(m)) # Cardinality(upTo(n))
    BY <1>1, <1>2, FS_Subset
<1> QED BY <1>3 DEF HookNumber, upTo

\* An instance of GitLab gives no ID twice.
LEMMA NumbersIdentify ==
    ASSUME hookCount \in Nat, NEW m \in 1..hookCount, NEW n \in 1..hookCount,
           issuers[m] = issuers[n], HookNumber(m) = HookNumber(n)
    PROVE  m = n
<1>1. m < n \/ n < m \/ m = n
    OBVIOUS
<1> QED BY <1>1, NumbersGrow

\* The hook that is deleted is the one that was looked for, if the project URL still
\* leads to the instance that gave its ID.
LEMMA DeletedIsLookedFor ==
    ASSUME HInv, NEW w \in Workers, DeleteWebhook(w), ~Moved(w), NEW h \in hooks \ hooks'
    PROVE  pc[w] = "deleteWebhook" /\ h.id = source[w].status.hookID
<1> DEFINE id == source[w].status.hookID
<1>1. pc[w] = "deleteWebhook" /\ source[w] \in ObjectsUpTo(hookCount) /\ id # NoHook
    BY DEF DeleteWebhook, HInv, OInv, Details, WorkersHold
<1>2. id \in 1..hookCount /\ h.id \in 1..hookCount /\ hookCount \in Nat
    BY <1>1, FieldsOfObjects DEF HInv, OInv, Details, OutsideTyped
<1>3. h.project = source[w].project /\ HookNumber(h.id) = HookNumber(id)
    BY DEF DeleteWebhook, DeleteProjectHook, Pages
<1>4. issuers[h.id] = issuers[id]
    BY <1>3 DEF HInv, OInv, Details, OutsideTyped, Moved
<1> QED BY <1>1, <1>2, <1>3, <1>4, NumbersIdentify

\* Who deletes a hook finalizes its owner or a successor, and a deletion is final.
LEMMA LostHooksAreOfTheDying ==
    ASSUME HInv, [Next]_vars, NEW h \in hooks \ hooks', Alive(h.owner), NobodyMoved
    PROVE  server[h.owner[1]].deleting
<1>1. \E w \in Workers : DeleteWebhook(w)
    BY OnlyRequestsChangeHooks DEF CreateWebhook, AddProjectHook, gitlabVars
<1> PICK w \in Workers : DeleteWebhook(w)
    BY <1>1
<1>2. pc[w] = "deleteWebhook" /\ h.id = source[w].status.hookID
    BY DeletedIsLookedFor DEF DeleteWebhook, NobodyMoved
<1>3. Active(w) /\ source[w].deleting
    BY <1>2 DEF Active, HInv, Tracked, PhasesFit, FinalizingPhases
<1>4. held[w] \in Keys /\ source[w] \in Copies(held[w])
    BY <1>3, SnapshotIsCopy
<1>5. h.owner[1] = held[w] /\ h.owner[2] <= source[w].uid
    BY <1>2, <1>4 DEF HInv, Tracked, HooksBelong
<1>6. server[held[w]] # NoSource /\ server[held[w]].uid = h.owner[2]
    BY <1>5 DEF Alive
<1>7. server[held[w]] \in Copies(held[w]) /\ source[w].rv <= server[held[w]].rv
    BY <1>4, <1>6 DEF HInv, Tracked, CopiesAge, Copies
<1>8. source[w].uid = server[held[w]].uid
    <2>1. source[w].uid \in Nat /\ server[held[w]].uid \in Nat
        BY <1>4, <1>7, CopiesAreObjects DEF HInv
    <2>2. source[w].uid <= server[held[w]].uid
        BY <1>4, <1>7 DEF HInv, Tracked, CopiesAge
    <2> QED BY <1>5, <1>6, <2>1, <2>2
<1> QED BY <1>3, <1>4, <1>5, <1>7, <1>8 DEF HInv, Tracked, CopiesAge

\* OnlyDyingSourcesLoseHooks: what deleteWebhook removes belongs to the source that is
\* finalized or to a predecessor of it, and its deletion is not undone.  IDs may repeat
\* from one GitLab to the next; the exception is a source whose project has moved to
\* another one since its hook was created.
THEOREM LivingSourcesKeepHooks == Spec => OnlyDyingSourcesLoseHooks
<1>1. HInv /\ [Next]_vars =>
        [\A h \in hooks \ hooks' :
            \/ Alive(h.owner) => server[h.owner[1]].deleting
            \/ \E w \in Workers : pc[w] = "deleteWebhook" /\ Moved(w)]_vars
    BY LostHooksAreOfTheDying DEF NobodyMoved
<1> QED BY <1>1, HooksInvariance, PTL DEF Spec, OnlyDyingSourcesLoseHooks

\* ProtectedHooksAccounted: as long as GitLab's page shows the hooks that are looked for,
\* no hook whose ID was stored with the finalizer is left behind unnamed, whatever
\* is lost, refused, retried or restarted.
THEOREM NoHookLeftBehind == Spec /\ []HookIsListed => []ProtectedHooksAccounted
<1>1. Init => Accounted
    BY HooksInit
<1>2. HInv /\ Accounted /\ HookIsListed /\ [Next]_vars => Accounted'
    BY HooksNext
<1>3. HInv /\ Accounted => ProtectedHooksAccounted
    <2> SUFFICES ASSUME HInv, Accounted, NEW h \in hooks, h.id \in protected, h.id \notin warned
                 PROVE  \E k \in Keys : server[k] # NoSource /\ server[k].status.hookID = h.id
        BY DEF ProtectedHooksAccounted
    <2>1. h.owner[1] \in Keys
        BY DEF HInv, OInv, Details, OutsideTyped, Owners
    <2> QED BY <2>1 DEF Accounted, ProtectedHooksStay
<1> QED BY <1>1, <1>2, <1>3, HooksInvariance, PTL DEF Spec

\* While one worker finalizes its source, the steps of the others leave its copy.
LEMMA CopyIsKept ==
    ASSUME HInv, [Next]_vars, NEW w \in Workers, pc[w] = "deleteWebhook", ~DeleteWebhook(w)
    PROVE  source'[w] = source[w] \/ source'[w] = NoSource
<1> USE DEF HInv, OInv
<1>1. DOMAIN source = Workers
    BY DEF IInv, WorkersTyped
<1>2. CASE \/ \E k \in Keys : \/ InformerStep(k) \/ Resync(k)
                              \/ CreateSource(k) \/ DeleteSource(k) \/ EditSource(k)
                              \/ RemoveForeign(k)
           \/ Relist \/ EditEnvironment
           \/ \E v \in services : ProvisionIngress(v)
           \/ \E owner \in Owners : CollectGarbage(owner)
           \/ UNCHANGED vars
    BY <1>2 DEF InformerStep, Deliver, Notify, RetryDue, Resync, CreateSource, DeleteSource,
                EditSource, RemoveForeign, Relist, EditEnvironment, ProvisionIngress,
                CollectGarbage, clusterFrame, workerVars, vars
<1>3. ASSUME Restart PROVE source'[w] = NoSource
    BY <1>3 DEF Restart, Idle
<1>4. ASSUME NEW x \in Workers, Take(x) \/ ReconcileStep(x)
      PROVE  source'[w] = source[w] \/ source'[w] = NoSource
    <2>1. CASE PanicWithoutIngress(x) \/ PanicOnPathlessProject(x)
        BY <1>3, <2>1, PanicsRestart
    <2>2. CASE x = w /\ ~PanicOnPathlessProject(x)
        BY <1>4, <2>2 DEF Take, ReconcileStep, Lookup, ReadSecrets, ResolveSink, FindReceiver,
            CreateDeployment, CreateService, ListServicesFails, PanicWithoutIngress,
            KeepWebhook, CreateWebhook, Finalize, UpdateStatus, UpdateFinalizers, Finish
    <2>3. CASE x # w
        <3>1. CASE Take(x) \/ UpdateStatus(x) \/ UpdateFinalizers(x)
            BY <3>1 DEF Take, UpdateStatus, UpdateFinalizers, WriteThroughCache, Abort
        <3>2. CASE Lookup(x) \/ Finish(x)
            BY <1>1, <2>3, <3>2 DEF Lookup, Finish
        <3>3. CASE ServingStep(x) \/ CreateWebhook(x) \/ Finalize(x) \/ DeleteWebhook(x)
            <4>1. \E s : \/ \E err : Return(x, s, err)
                         \/ \E phase : Continue(x, s, phase)
                BY <3>3 DEF ServingStep, ReadSecrets, ResolveSink, FindReceiver,
                    CreateDeployment, CreateService, ListServicesFails, KeepWebhook,
                    CreateWebhook, Finalize, DeleteWebhook
            <4> QED BY <1>1, <2>3, <4>1 DEF Return, Continue
        <3> QED BY <1>4, <2>1, <3>1, <3>2, <3>3 DEF ReconcileStep, ServingStep
    <2> QED BY <2>1, <2>2, <2>3
<1> QED BY <1>2, <1>3, <1>4 DEF Next, Crash

\* ClearedIDMeansDeleted: an ID is cleared after the hook was deleted, as long as GitLab's
\* page shows the hooks that are looked for.  (Run hook_beyond_first_page shows that it
\* has to.)
THEOREM ClearedIsDeleted == Spec /\ []HookIsListed => ClearedIDMeansDeleted
<1>1. ASSUME HInv, HookIsListed, [Next]_vars, NEW w \in Workers, pc[w] = "deleteWebhook",
             source'[w] # NoSource, source'[w].status.hookID = NoHook
      PROVE  GoneThen(source[w].status.hookID)
    <2>1. source[w].status.hookID # NoHook
        BY <1>1 DEF HInv, OInv, Details, WorkersHold
    <2>2. DeleteWebhook(w)
        BY <1>1, <2>1, CopyIsKept
    <2>3. source[w] \in ObjectsUpTo(hookCount) /\ DOMAIN source = Workers
        BY <1>1 DEF HInv, OInv, Details, WorkersHold
    <2>4. ~Return(w, source[w], TRUE)
        BY <1>1, <2>1, <2>3 DEF Return
    <2>5. \E page \in Pages(source[w].project) : DeleteProjectHook(source[w].status.hookID, page)
        BY <2>2, <2>4 DEF DeleteWebhook
    <2> QED BY <1>1, <2>5 DEF DeleteProjectHook, HookIsListed, GoneThen
<1>2. HInv /\ HookIsListed /\ [Next]_vars =>
        [\A w \in Workers :
            pc[w] = "deleteWebhook" /\ source'[w] # NoSource /\ source'[w].status.hookID = NoHook
            => \A h \in hooks' : h.id # source[w].status.hookID]_vars
    BY <1>1 DEF GoneThen
<1> QED BY <1>2, HooksInvariance, PTL DEF Spec, ClearedIDMeansDeleted

=============================================================================

---------------------- MODULE GitLabSourceObjectsProofs ----------------------
(***************************************************************************)
(* What the controller knows and writes of a source, for any number of     *)
(* sources and workers and under all faults: the types of all copies of    *)
(* it, that none names a sink as provided without an address, and that the *)
(* controller's writes revert no edit of the spec.                         *)
(***************************************************************************)
EXTENDS GitLabSourceControllerProofs, FiniteSetTheorems

\* A status that names the sink as provided has its URI.
SinkKept(status) == status.conds["SinkProvided"] = "True" => status.sinkURI # NoURI

\* Statuses, objects and versions while n hooks have been created.
StatusesUpTo(n) == [hookID : (1..n) \cup {NoHook}, conds : Conds!Conditions,
                    sinkURI : SinkURIs]
ObjectsUpTo(n) ==
    {o \in [uid : Uids, rv : Nat, deleting : BOOLEAN, finalizers : SUBSET Finalizers,
            project : Projects, sink : Sinks, status : StatusesUpTo(n)] :
        SinkKept(o.status)}
VersionsUpTo(n) == ObjectsUpTo(n) \cup {NoSource}

LEMMA ObjectsGrow ==
    ASSUME NEW m \in Nat, NEW n \in Nat, m <= n
    PROVE  ObjectsUpTo(m) \subseteq ObjectsUpTo(n) /\ VersionsUpTo(m) \subseteq VersionsUpTo(n)
<1>1. ASSUME NEW o \in ObjectsUpTo(m) PROVE o \in ObjectsUpTo(n)
    BY DEF ObjectsUpTo, StatusesUpTo
<1> QED BY <1>1 DEF VersionsUpTo

LEMMA VersionsAreVersions == VersionsUpTo(hookCount) \subseteq Versions
BY DEF VersionsUpTo, ObjectsUpTo, StatusesUpTo, Versions, SourceObjects, HookIDs

-----------------------------------------------------------------------------
(* Conditions *)

LEMMA ConditionTypesOfSources ==
    /\ "SinkProvided" \in Conds!ConditionTypes
    /\ "SecretsProvided" \in Conds!ConditionTypes
    /\ "Ready" \in Conds!ConditionTypes
BY DEF Conds!ConditionTypes

\* The methods of the manager return conditions, and leave that of the sink alone
\* unless it is theirs to set; what is True stays so at initialization.
LEMMA Initialized ==
    ASSUME NEW c \in Conds!Conditions
    PROVE  /\ Conds!InitializeConditions(c) \in Conds!Conditions
           /\ Conds!InitializeConditions(c)["SinkProvided"] = "True"
                => c["SinkProvided"] = "True"
BY ConditionTypesOfSources
   DEF Conds!InitializeConditions, Conds!Conditions, Conds!ConditionValues

LEMMA MarkedTrue ==
    ASSUME NEW c \in Conds!Conditions, NEW t \in {"SinkProvided", "SecretsProvided"}
    PROVE  /\ Conds!MarkTrue(c, t) \in Conds!Conditions
           /\ t = "SecretsProvided" => Conds!MarkTrue(c, t)["SinkProvided"] = c["SinkProvided"]
<1> USE ConditionTypesOfSources DEF Conds!Conditions, Conds!ConditionValues
<1> DEFINE marked == [c EXCEPT ![t] = "True"]
<1>1. marked \in Conds!Conditions /\ [marked EXCEPT !["Ready"] = "True"] \in Conds!Conditions
    OBVIOUS
<1>2. t = "SecretsProvided" =>
        /\ marked["SinkProvided"] = c["SinkProvided"]
        /\ [marked EXCEPT !["Ready"] = "True"]["SinkProvided"] = c["SinkProvided"]
    OBVIOUS
<1>3. \/ Conds!MarkTrue(c, t) = marked
      \/ Conds!MarkTrue(c, t) = [marked EXCEPT !["Ready"] = "True"]
    BY DEF Conds!MarkTrue
<1> QED BY <1>1, <1>2, <1>3

LEMMA MarkedUnknown ==
    ASSUME NEW c \in Conds!Conditions, NEW t \in {"SinkProvided", "SecretsProvided"}
    PROVE  /\ Conds!MarkUnknown(c, t) \in Conds!Conditions
           /\ t = "SinkProvided" => Conds!MarkUnknown(c, t)["SinkProvided"] # "True"
BY ConditionTypesOfSources DEF Conds!MarkUnknown, Conds!Conditions, Conds!ConditionValues

LEMMA MarkedFalse ==
    ASSUME NEW c \in Conds!Conditions, NEW t \in {"SinkProvided", "SecretsProvided"}
    PROVE  /\ Conds!MarkFalse(c, t) \in Conds!Conditions
           /\ Conds!MarkFalse(c, t)["SinkProvided"] = "True" => c["SinkProvided"] = "True"
BY ConditionTypesOfSources DEF Conds!MarkFalse, Conds!Conditions, Conds!ConditionValues

-----------------------------------------------------------------------------
(* What is done to an object *)

LEMMA ConditionsSet ==
    ASSUME NEW n \in Nat, NEW o \in ObjectsUpTo(n), NEW c \in Conds!Conditions,
           c["SinkProvided"] = "True" => o.status.conds["SinkProvided"] = "True"
    PROVE  WithConditions(o, c) \in ObjectsUpTo(n)
BY DEF WithConditions, ObjectsUpTo, StatusesUpTo, SinkKept

LEMMA SinkSet ==
    ASSUME NEW n \in Nat, NEW o \in ObjectsUpTo(n), NEW c \in Conds!Conditions,
           NEW uri \in SinkURIs, c["SinkProvided"] = "True" => uri # NoURI
    PROVE  WithSink(o, uri, c) \in ObjectsUpTo(n)
BY DEF WithSink, ObjectsUpTo, StatusesUpTo, SinkKept

LEMMA HookSet ==
    ASSUME NEW n \in Nat, NEW o \in ObjectsUpTo(n), NEW id \in (1..n) \cup {NoHook}
    PROVE  WithHook(o, id) \in ObjectsUpTo(n)
BY DEF WithHook, ObjectsUpTo, StatusesUpTo, SinkKept

LEMMA FinalizersSet ==
    ASSUME NEW n \in Nat, NEW o \in ObjectsUpTo(n)
    PROVE  /\ addFinalizer(o) \in ObjectsUpTo(n)
           /\ removeFinalizer(o) \in ObjectsUpTo(n)
           /\ \A finalizers \in SUBSET Finalizers :
                [o EXCEPT !.finalizers = finalizers] \in ObjectsUpTo(n)
BY DEF addFinalizer, removeFinalizer, ObjectsUpTo, Finalizers

LEMMA StatusSet ==
    ASSUME NEW n \in Nat, NEW o \in ObjectsUpTo(n), NEW p \in ObjectsUpTo(n)
    PROVE  /\ [o EXCEPT !.status = p.status] \in ObjectsUpTo(n)
           /\ [o EXCEPT !.status = p.status, !.deleting = p.deleting] \in ObjectsUpTo(n)
BY DEF ObjectsUpTo

LEMMA SpecEdited ==
    ASSUME NEW n \in Nat, NEW o \in ObjectsUpTo(n)
    PROVE  /\ [o EXCEPT !.deleting = TRUE] \in ObjectsUpTo(n)
           /\ \A rv \in Nat : [o EXCEPT !.rv = rv] \in ObjectsUpTo(n)
           /\ \A project \in Projects : [o EXCEPT !.project = project] \in ObjectsUpTo(n)
           /\ \A sink \in Sinks : [o EXCEPT !.sink = sink] \in ObjectsUpTo(n)
BY DEF ObjectsUpTo

LEMMA FieldsOfObjects ==
    ASSUME NEW n \in Nat, NEW o \in ObjectsUpTo(n)
    PROVE  /\ o.uid \in Uids
           /\ o.rv \in Nat
           /\ o.finalizers \in SUBSET Finalizers
           /\ o.project \in Projects
           /\ o.sink \in Sinks
           /\ o.status.hookID \in (1..n) \cup {NoHook}
           /\ o.status.conds \in Conds!Conditions
           /\ o.status.sinkURI \in SinkURIs
           /\ SinkKept(o.status)
BY DEF ObjectsUpTo, StatusesUpTo

-----------------------------------------------------------------------------
(* The invariant *)

ObjectsTyped ==
    /\ server \in [Keys -> VersionsUpTo(hookCount)]
    /\ cache \in [Keys -> VersionsUpTo(hookCount)]
    /\ watch \in [Keys -> Seq(VersionsUpTo(hookCount))]
    /\ revision \in [Keys -> Nat]
    /\ protected \subseteq 1..hookCount

\* A worker has an object in every phase in which it looks at one.
WorkersHold ==
    /\ original \in [Workers -> VersionsUpTo(hookCount)]
    /\ source \in [Workers -> VersionsUpTo(hookCount)]
    /\ failed \in [Workers -> BOOLEAN]
    /\ \A w \in Workers :
        pc[w] \notin {"get", "lookup", "finish"} => source[w] \in ObjectsUpTo(hookCount)
    /\ \A w \in Workers :
        pc[w] = "deleteWebhook" => source[w].status.hookID # NoHook

\* GitLab has every hook in the instance that its project leads to.
OutsideTyped ==
    /\ created \in [Keys -> 0..MaxUid]
    /\ deployments \subseteq [owner : Owners, sink : SinkURIs, n : Nat]
    /\ services \subseteq [owner : Owners, ingress : BOOLEAN]
    /\ hookCount \in Nat
    /\ issuers \in Seq({Instance[project] : project \in Projects})
    /\ Len(issuers) = hookCount
    /\ hooks \subseteq [id : 1..hookCount, project : Projects, owner : Owners, target : Owners]
    /\ \A h \in hooks : issuers[h.id] = Instance[h.project]
    /\ warned \subseteq 1..hookCount
    /\ secrets \in BOOLEAN
    /\ address \in Addresses \cup {NoURI}
    /\ edits \in 0..MaxEdits
    /\ faults \in 0..MaxFaults

\* A version is older than r, the last, or has the spec of what is stored then.
Follows(v, r, stored) ==
    v # NoSource =>
        /\ v.rv <= r
        /\ v.rv = r /\ stored # NoSource => v.project = stored.project /\ v.sink = stored.sink

VersionsInOrder ==
    \A k \in Keys :
        /\ server[k] # NoSource => server[k].rv = revision[k]
        /\ Follows(cache[k], revision[k], server[k])
        /\ \A i \in 1..Len(watch[k]) : Follows(watch[k][i], revision[k], server[k])

Details == ObjectsTyped /\ WorkersHold /\ OutsideTyped /\ VersionsInOrder

OInv == IInv /\ Details

LEMMA ServerFollowsItself ==
    ASSUME OInv, NEW k \in Keys PROVE Follows(server[k], revision[k], server[k])
BY DEF OInv, Details, ObjectsTyped, VersionsInOrder, Follows

-----------------------------------------------------------------------------
(* The API server *)

\* A write of a well-formed object keeps the server's side in order: what is older
\* stays older, and the cache may have been given its new fields before.
LEMMA StoreKeeps ==
    ASSUME OInv, NEW k \in Keys, NEW object \in ObjectsUpTo(hookCount), Store(k, object),
           UNCHANGED hookCount, cache' \in [Keys -> VersionsUpTo(hookCount)],
           \A l \in Keys : Follows(cache'[l], revision[l], server[l])
    PROVE  (ObjectsTyped /\ VersionsInOrder)'
<1> USE DEF OInv, Details, ObjectsTyped, OutsideTyped
<1> DEFINE stored == IF object.deleting /\ object.finalizers = {}
                     THEN NoSource
                     ELSE [object EXCEPT !.rv = revision[k] + 1]
<1>1. /\ server' = [server EXCEPT ![k] = stored]
      /\ revision' = [revision EXCEPT ![k] = @ + 1]
      /\ watch' = [watch EXCEPT ![k] = Append(@, stored)]
      /\ protected' \subseteq protected \cup ({object.status.hookID} \ {NoHook})
    BY DEF Store
<1>2. stored \in VersionsUpTo(hookCount)
    <2>1. revision[k] + 1 \in Nat
        OBVIOUS
    <2>2. [object EXCEPT !.rv = revision[k] + 1] \in ObjectsUpTo(hookCount)
        BY <2>1, SpecEdited
    <2> QED BY <2>2 DEF VersionsUpTo
<1>3. stored # NoSource => stored.rv = revision[k] + 1
    BY DEF ObjectsUpTo
<1> HIDE DEF stored
<1>4. object.status.hookID \in (1..hookCount) \cup {NoHook}
    BY FieldsOfObjects
<1>5. ObjectsTyped'
    BY <1>1, <1>2, <1>4
<1>6. ASSUME NEW l \in Keys, NEW v \in VersionsUpTo(hookCount),
             Follows(v, revision[l], server[l])
      PROVE  Follows(v, revision'[l], server'[l])
    <2>1. v # NoSource => v.rv \in Nat
        BY FieldsOfObjects DEF VersionsUpTo
    <2>2. CASE l = k
        BY <1>1, <1>6, <2>1, <2>2 DEF Follows
    <2>3. CASE l # k
        BY <1>1, <1>6, <2>3
    <2> QED BY <2>2, <2>3
<1>7. \A l \in Keys : server'[l] # NoSource => server'[l].rv = revision'[l]
    BY <1>1, <1>3 DEF VersionsInOrder
<1>8. \A l \in Keys : Follows(cache'[l], revision'[l], server'[l])
    BY <1>6
<1>9. ASSUME NEW l \in Keys, NEW i \in 1..Len(watch'[l])
      PROVE  Follows(watch'[l][i], revision'[l], server'[l])
    <2>1. CASE l # k \/ i <= Len(watch[k])
        <3>1. i \in 1..Len(watch[l]) /\ watch'[l][i] = watch[l][i]
            BY <1>1, <1>2, <2>1
        <3>2. watch[l][i] \in VersionsUpTo(hookCount)
            BY <3>1
        <3>3. Follows(watch[l][i], revision[l], server[l])
            BY <3>1 DEF VersionsInOrder
        <3> QED BY <1>6, <3>1, <3>2, <3>3
    <2>2. CASE l = k /\ ~(i <= Len(watch[k]))
        <3>1. watch'[l][i] = stored /\ server'[l] = stored
            BY <1>1, <1>2, <2>2
        <3>2. stored # NoSource => stored.rv = revision'[l] /\ revision'[l] \in Nat
            BY <1>1, <1>3, <2>2
        <3> QED BY <3>1, <3>2 DEF Follows
    <2> QED BY <2>1, <2>2
<1> QED BY <1>5, <1>7, <1>8, <1>9 DEF VersionsInOrder

LEMMA FaultsAreBounded ==
    ASSUME OutsideTyped, NoFault \/ \E kind \in FaultKinds : Fault(kind)
    PROVE  faults' \in 0..MaxFaults
BY ConstantsAssumption DEF OutsideTyped, NoFault, Fault

-----------------------------------------------------------------------------
(* Workers *)

\* What the API server and the informer have is left alone.
ServerFrame == UNCHANGED <<server, revision, watch, cache, protected>>

LEMMA ServerFrameKeeps ==
    ASSUME OInv, ServerFrame, hookCount' \in Nat, hookCount <= hookCount'
    PROVE  (ObjectsTyped /\ VersionsInOrder)'
<1> USE DEF OInv, Details, ServerFrame
<1>1. hookCount \in Nat
    BY DEF OutsideTyped
<1>2. VersionsUpTo(hookCount) \subseteq VersionsUpTo(hookCount')
    BY <1>1, ObjectsGrow
<1>3. 1..hookCount \subseteq 1..hookCount'
    BY <1>1
<1>4. \A k \in Keys : watch[k] \in Seq(VersionsUpTo(hookCount'))
    BY <1>2 DEF ObjectsTyped
<1>5. ObjectsTyped'
    BY <1>2, <1>3, <1>4 DEF ObjectsTyped
<1>6. VersionsInOrder'
    BY DEF VersionsInOrder
<1> QED BY <1>5, <1>6

\* Worker w goes on in phase with s, or with what it has to the end.
Holds(w, s, phase) ==
    /\ source' = [source EXCEPT ![w] = s]
    /\ pc' = [pc EXCEPT ![w] = phase]
    /\ UNCHANGED original
    /\ failed' \in [Workers -> BOOLEAN]

LEMMA HoldsKeeps ==
    ASSUME OInv, NEW w \in Workers, hookCount' \in Nat, hookCount <= hookCount',
           NEW s \in ObjectsUpTo(hookCount'), NEW phase \in Phases,
           phase = "deleteWebhook" => s.status.hookID # NoHook,
           Holds(w, s, phase)
    PROVE  WorkersHold'
<1> USE DEF OInv, Details, WorkersHold, Holds
<1>1. hookCount \in Nat /\ pc \in [Workers -> Phases]
    BY DEF OutsideTyped, IInv, WorkersTyped
<1>2. /\ VersionsUpTo(hookCount) \subseteq VersionsUpTo(hookCount')
      /\ ObjectsUpTo(hookCount) \subseteq ObjectsUpTo(hookCount')
    BY <1>1, ObjectsGrow
<1>3. s \in VersionsUpTo(hookCount')
    BY DEF VersionsUpTo
<1> QED BY <1>1, <1>2, <1>3

LEMMA ContinueHolds ==
    ASSUME OInv, NEW w \in Workers, NEW s, NEW phase, Continue(w, s, phase)
    PROVE  Holds(w, s, phase)
BY DEF OInv, Details, WorkersHold, Continue, Holds

LEMMA ReturnHolds ==
    ASSUME OInv, NEW w \in Workers, NEW s, NEW err \in BOOLEAN, Return(w, s, err)
    PROVE  \E phase \in {"status", "finalizers", "finish"} : Holds(w, s, phase)
<1> DEFINE next == IF s.status # original[w].status THEN "status" ELSE AfterStatus(w, s)
<1>1. next \in {"status", "finalizers", "finish"}
    BY AfterStatusIsInner
<1>2. Holds(w, s, next)
    BY DEF OInv, Details, WorkersHold, Return, Holds
<1> QED BY <1>1, <1>2

\* The two ways in which a step of reconcile or finalize ends.
LEMMA StepKeeps ==
    ASSUME OInv, NEW w \in Workers, hookCount' \in Nat, hookCount <= hookCount', ServerFrame,
           OutsideTyped', NEW s \in ObjectsUpTo(hookCount'),
           \/ \E err \in BOOLEAN : Return(w, s, err)
           \/ \E phase \in Phases :
                /\ Continue(w, s, phase)
                /\ phase = "deleteWebhook" => s.status.hookID # NoHook
    PROVE  Details'
<1>1. WorkersHold'
    <2>1. CASE \E err \in BOOLEAN : Return(w, s, err)
        <3> PICK phase \in {"status", "finalizers", "finish"} : Holds(w, s, phase)
            BY <2>1, ReturnHolds
        <3> QED BY HoldsKeeps DEF Phases
    <2>2. CASE ~ \E err \in BOOLEAN : Return(w, s, err)
        BY <2>2, ContinueHolds, HoldsKeeps
    <2> QED BY <2>1, <2>2
<1> QED BY <1>1, ServerFrameKeeps DEF Details

\* A step that changes nothing outside the worker but the budget of faults.
Quiet ==
    /\ ServerFrame
    /\ UNCHANGED <<created, receiverVars, gitlabVars, warned, environmentVars, edits>>
    /\ NoFault \/ \E kind \in FaultKinds : Fault(kind)

LEMMA QuietKeeps ==
    ASSUME OInv, Quiet PROVE OutsideTyped' /\ hookCount' = hookCount /\ hookCount \in Nat
<1> USE DEF OInv, Details, Quiet, receiverVars, gitlabVars, environmentVars
<1>1. OutsideTyped /\ faults' \in 0..MaxFaults
    BY FaultsAreBounded
<1> QED BY <1>1 DEF OutsideTyped

LEMMA RequestFrameKeeps ==
    ASSUME UNCHANGED <<requestFrame, receiverVars, gitlabVars>>,
           NoFault \/ \E kind \in FaultKinds : Fault(kind)
    PROVE  Quiet
BY DEF requestFrame, apiVars, informerVars, accountVars, Quiet, ServerFrame

LEMMA ReadSecretsKeeps ==
    ASSUME OInv, NEW w \in Workers, ReadSecrets(w) PROVE Details'
<1> USE DEF OInv, Details, WorkersHold
<1> DEFINE s == source[w]
           conds == Conds!InitializeConditions(s.status.conds)
           found == WithConditions(s, Conds!MarkTrue(conds, "SecretsProvided"))
           missing == WithConditions(s, Conds!MarkFalse(conds, "SecretsProvided"))
<1>1. s \in ObjectsUpTo(hookCount) /\ hookCount \in Nat
    BY DEF ReadSecrets, OutsideTyped
<1>2. s.status.conds \in Conds!Conditions
    BY <1>1, FieldsOfObjects
<1>3. /\ conds \in Conds!Conditions
      /\ conds["SinkProvided"] = "True" => s.status.conds["SinkProvided"] = "True"
    BY <1>2, Initialized
<1> HIDE DEF conds
<1>4. found \in ObjectsUpTo(hookCount) /\ missing \in ObjectsUpTo(hookCount)
    BY <1>1, <1>3, MarkedTrue, MarkedFalse, ConditionsSet
<1>5. Quiet
    BY RequestFrameKeeps DEF ReadSecrets, secretFrom, Fault
<1>6. Continue(w, found, "sink") \/ Return(w, missing, TRUE)
    BY DEF ReadSecrets, conds
<1> HIDE DEF found, missing
<1>7. \E o \in ObjectsUpTo(hookCount) :
        \/ \E err \in BOOLEAN : Return(w, o, err)
        \/ Continue(w, o, "sink")
    BY <1>4, <1>6
<1> QED BY <1>1, <1>5, <1>7, QuietKeeps, StepKeeps DEF Quiet, Phases

LEMMA ResolveSinkKeeps ==
    ASSUME OInv, NEW w \in Workers, ResolveSink(w) PROVE Details'
<1> USE DEF OInv, Details, WorkersHold
<1> DEFINE s == source[w]
           resolved(uri) == WithSink(s, uri, Conds!MarkTrue(s.status.conds, "SinkProvided"))
           empty == WithSink(s, NoURI, Conds!MarkUnknown(s.status.conds, "SinkProvided"))
           none == WithConditions(s, Conds!MarkFalse(s.status.conds, "SinkProvided"))
<1>1. s \in ObjectsUpTo(hookCount) /\ hookCount \in Nat
    BY DEF ResolveSink, OutsideTyped
<1>2. s.status.conds \in Conds!Conditions
    BY <1>1, FieldsOfObjects
<1>3. \A uri \in SinkURIs : uri # NoURI => resolved(uri) \in ObjectsUpTo(hookCount)
    BY <1>1, <1>2, MarkedTrue, SinkSet
<1>4. empty \in ObjectsUpTo(hookCount) /\ none \in ObjectsUpTo(hookCount)
    BY <1>1, <1>2, MarkedUnknown, MarkedFalse, SinkSet, ConditionsSet DEF SinkURIs
<1>5. Quiet
    BY RequestFrameKeeps DEF ResolveSink, getSinkURI, Fault
<1>6. "uri" \in SinkURIs /\ "uri" # NoURI
    BY DEF SinkURIs, NoURI
<1>7. getSinkURI(TRUE) => address \in SinkURIs /\ address # NoURI
    BY DEF getSinkURI, OutsideTyped, SinkURIs
<1>8. \E o \in ObjectsUpTo(hookCount) :
        \/ \E err \in BOOLEAN : Return(w, o, err)
        \/ Continue(w, o, "receiver")
    BY <1>3, <1>4, <1>6, <1>7 DEF ResolveSink
<1> QED BY <1>1, <1>5, <1>8, QuietKeeps, StepKeeps DEF Quiet, Phases

LEMMA FindReceiverKeepsDetails ==
    ASSUME OInv, NEW w \in Workers, FindReceiver(w) PROVE Details'
<1> USE DEF OInv, Details, WorkersHold
<1>1. source[w] \in ObjectsUpTo(hookCount) /\ hookCount \in Nat
    BY DEF FindReceiver, OutsideTyped
<1>2. addFinalizer(source[w]) \in ObjectsUpTo(hookCount)
    BY <1>1, FinalizersSet
<1>3. Quiet
    BY RequestFrameKeeps DEF FindReceiver, Fault
<1>4. \E o \in ObjectsUpTo(hookCount) :
        \/ \E err \in BOOLEAN : Return(w, o, err)
        \/ \E phase \in {"webhook", "deployment"} : Continue(w, o, phase)
    BY <1>1, <1>2 DEF FindReceiver
<1> QED BY <1>1, <1>3, <1>4, QuietKeeps, StepKeeps DEF Quiet, Phases

LEMMA OwnerIsOwner ==
    ASSUME OInv, NEW w \in Workers, pc[w] \notin {"get", "lookup", "finish"}
    PROVE  held[w] \in Keys /\ Owner(w) \in Owners
<1>1. held[w] \in Keys
    BY DEF OInv, IInv, WorkersTyped, HeldIsProcessing
<1>2. source[w].uid \in Uids
    BY FieldsOfObjects DEF OInv, Details, WorkersHold, OutsideTyped
<1> QED BY <1>1, <1>2 DEF Owner, Owners

\* The list was empty, and is still: the deployment is the first of its owner.
LEMMA NewDeploymentIsDeployment ==
    ASSUME OInv, NEW w \in Workers, pc[w] = "deployment"
    PROVE  NewDeployment(w) \in [owner : Owners, sink : SinkURIs, n : Nat]
<1>1. getOwnedReceiver(w) = {}
    BY DEF OInv, IInv, AboutToCreateTheFirst, getOwnedReceiver
<1>2. Cardinality(getOwnedReceiver(w)) = 0
    BY <1>1, FS_EmptySet
<1>3. source[w].status.sinkURI \in SinkURIs
    BY FieldsOfObjects DEF OInv, Details, WorkersHold, OutsideTyped
<1>4. Owner(w) \in Owners
    BY OwnerIsOwner
<1> QED BY <1>2, <1>3, <1>4 DEF NewDeployment

LEMMA CreateDeploymentKeepsDetails ==
    ASSUME OInv, NEW w \in Workers, CreateDeployment(w) PROVE Details'
<1> USE DEF OInv, Details
<1>1. pc[w] = "deployment" /\ source[w] \in ObjectsUpTo(hookCount) /\ hookCount \in Nat
    BY DEF CreateDeployment, OutsideTyped, WorkersHold
<1>2. ServerFrame /\ hookCount' = hookCount
    BY DEF CreateDeployment, requestFrame, apiVars, informerVars, accountVars, gitlabVars,
           ServerFrame
<1>3. deployments' \subseteq deployments \cup {NewDeployment(w)}
    BY DEF CreateDeployment
<1>4. NewDeployment(w) \in [owner : Owners, sink : SinkURIs, n : Nat]
    BY <1>1, NewDeploymentIsDeployment
<1>5. faults' \in 0..MaxFaults
    BY FaultsAreBounded DEF CreateDeployment, Fault
<1>6. UNCHANGED <<created, services, hooks, issuers, warned, secrets, address, edits>>
    BY DEF CreateDeployment, requestFrame, apiVars, accountVars, environmentVars, gitlabVars
<1>7. OutsideTyped'
    BY <1>2, <1>3, <1>4, <1>5, <1>6 DEF OutsideTyped
<1>8. (\E err \in BOOLEAN : Return(w, source[w], err)) \/ Continue(w, source[w], "service")
    BY DEF CreateDeployment
<1> QED BY <1>1, <1>2, <1>7, <1>8, StepKeeps DEF Phases

LEMMA CreateServiceKeeps ==
    ASSUME OInv, NEW w \in Workers, CreateService(w) PROVE Details'
<1> USE DEF OInv, Details
<1>1. pc[w] = "service" /\ source[w] \in ObjectsUpTo(hookCount) /\ hookCount \in Nat
    BY DEF CreateService, OutsideTyped, WorkersHold
<1>2. ServerFrame /\ hookCount' = hookCount
    BY DEF CreateService, requestFrame, apiVars, informerVars, accountVars, gitlabVars,
           ServerFrame
<1>3. services' \subseteq services \cup {NewService(w)}
    BY DEF CreateService
<1>4. NewService(w) \in [owner : Owners, ingress : BOOLEAN]
    BY <1>1, OwnerIsOwner DEF NewService
<1>5. faults' \in 0..MaxFaults
    BY FaultsAreBounded DEF CreateService, Fault
<1>6. UNCHANGED <<created, deployments, hooks, issuers, warned, secrets, address, edits>>
    BY DEF CreateService, requestFrame, apiVars, accountVars, environmentVars, gitlabVars
<1>7. OutsideTyped'
    BY <1>2, <1>3, <1>4, <1>5, <1>6 DEF OutsideTyped
<1>8. \E err \in BOOLEAN : Return(w, source[w], err)
    BY DEF CreateService
<1> QED BY <1>1, <1>2, <1>7, <1>8, StepKeeps

LEMMA WebhookUntouchedKeeps ==
    ASSUME OInv, NEW w \in Workers, ListServicesFails(w) \/ KeepWebhook(w) PROVE Details'
<1> USE DEF OInv, Details
<1>1. source[w] \in ObjectsUpTo(hookCount) /\ hookCount \in Nat
    BY DEF ListServicesFails, KeepWebhook, OutsideTyped, WorkersHold
<1>2. Quiet
    BY RequestFrameKeeps DEF ListServicesFails, KeepWebhook, Fault
<1>3. \E err \in BOOLEAN : Return(w, source[w], err)
    BY DEF ListServicesFails, KeepWebhook
<1> QED BY <1>1, <1>2, <1>3, QuietKeeps, StepKeeps DEF Quiet

\* The new hook has the next ID, whether or not the answer arrives.
LEMMA CreateWebhookKeeps ==
    ASSUME OInv, NEW w \in Workers, CreateWebhook(w) PROVE Details'
<1> USE DEF OInv, Details
<1>1. pc[w] = "webhook" /\ source[w] \in ObjectsUpTo(hookCount) /\ hookCount \in Nat
    BY DEF CreateWebhook, OutsideTyped, WorkersHold
<1>2. ServerFrame
    BY DEF CreateWebhook, requestFrame, apiVars, informerVars, accountVars, ServerFrame
<1>3. faults' \in 0..MaxFaults
    BY FaultsAreBounded DEF CreateWebhook, Fault
<1>4. UNCHANGED <<created, deployments, services, warned, secrets, address, edits>>
    BY DEF CreateWebhook, requestFrame, apiVars, accountVars, environmentVars, receiverVars
<1>5. CASE UNCHANGED gitlabVars /\ Return(w, source[w], TRUE)
    <2>1. OutsideTyped' /\ hookCount' = hookCount
        BY <1>3, <1>4, <1>5 DEF OutsideTyped, gitlabVars
    <2>2. \E err \in BOOLEAN : Return(w, source[w], err)
        BY <1>5
    <2> QED BY <1>1, <1>2, <2>1, <2>2, StepKeeps
<1>6. ASSUME NEW v \in Candidates(w), AddProjectHook(w, v) PROVE OutsideTyped'
    <2>1. v.owner \in Owners /\ Owner(w) \in Owners
        BY <1>1, OwnerIsOwner DEF Candidates, OutsideTyped
    <2>2. source[w].project \in Projects
        BY <1>1, FieldsOfObjects
    <2>3. hookCount' = hookCount + 1
        BY <1>6 DEF AddProjectHook
    <2>4. hooks' \subseteq [id : 1..hookCount', project : Projects, owner : Owners, target : Owners]
        BY <1>1, <1>6, <2>1, <2>2, <2>3 DEF AddProjectHook, OutsideTyped
    <2>5. /\ issuers' \in Seq({Instance[project] : project \in Projects})
          /\ Len(issuers') = hookCount'
          /\ issuers'[hookCount + 1] = Instance[source[w].project]
          /\ \A n \in 1..hookCount : issuers'[n] = issuers[n]
        BY <1>1, <1>6, <2>2, <2>3 DEF AddProjectHook, OutsideTyped
    <2>6. \A h \in hooks' : issuers'[h.id] = Instance[h.project]
        BY <1>1, <1>6, <2>5 DEF AddProjectHook, OutsideTyped
    <2> QED BY <1>1, <1>3, <1>4, <2>3, <2>4, <2>5, <2>6 DEF OutsideTyped
<1>7. ASSUME NEW v \in Candidates(w), AddProjectHook(w, v),
             Return(w, WithHook(source[w], hookCount + 1), FALSE) \/ Return(w, source[w], TRUE)
      PROVE  Details'
    <2>1. hookCount' = hookCount + 1 /\ hookCount' \in Nat /\ hookCount <= hookCount'
        BY <1>1, <1>7 DEF AddProjectHook
    <2>2. source[w] \in ObjectsUpTo(hookCount')
        BY <1>1, <2>1, ObjectsGrow
    <2>3. WithHook(source[w], hookCount + 1) \in ObjectsUpTo(hookCount')
        BY <1>1, <2>1, <2>2, HookSet
    <2> QED BY <1>2, <1>6, <1>7, <2>1, <2>2, <2>3, StepKeeps
<1> QED BY <1>5, <1>7 DEF CreateWebhook

\* Only an ID that is there is looked up, deleted or named in an event.
LEMMA FinalizeKeeps ==
    ASSUME OInv, NEW w \in Workers, Finalize(w) PROVE Details'
<1> USE DEF OInv, Details
<1> DEFINE s == removeFinalizer(source[w])
           missing == WithConditions(s, Conds!MarkFalse(s.status.conds, "SecretsProvided"))
<1>1. pc[w] = "finalize" /\ source[w] \in ObjectsUpTo(hookCount) /\ hookCount \in Nat
    BY DEF Finalize, OutsideTyped, WorkersHold
<1>2. s \in ObjectsUpTo(hookCount)
    BY <1>1, FinalizersSet
<1>3. missing \in ObjectsUpTo(hookCount)
    BY <1>1, <1>2, FieldsOfObjects, MarkedFalse, ConditionsSet
<1>4. ServerFrame /\ hookCount' = hookCount
    BY DEF Finalize, apiVars, informerVars, gitlabVars, ServerFrame
<1>5. faults' \in 0..MaxFaults
    BY FaultsAreBounded DEF Finalize, secretFrom, Fault
<1>6. UNCHANGED <<created, deployments, services, hooks, issuers, secrets, address, edits>>
    BY DEF Finalize, apiVars, receiverVars, gitlabVars, environmentVars
<1>7. warned' \subseteq 1..hookCount
    <2>1. s.status.hookID \in (1..hookCount) \cup {NoHook}
        BY <1>1, <1>2, FieldsOfObjects
    <2>2. \/ UNCHANGED warned
          \/ s.status.hookID # NoHook /\ warned' = warned \cup {s.status.hookID}
        BY DEF Finalize
    <2> HIDE DEF s
    <2> QED BY <2>1, <2>2 DEF OutsideTyped
<1>8. OutsideTyped'
    BY <1>4, <1>5, <1>6, <1>7 DEF OutsideTyped
<1>9. \E o \in ObjectsUpTo(hookCount) :
        \/ \E err \in BOOLEAN : Return(w, o, err)
        \/ Continue(w, o, "deleteWebhook") /\ o.status.hookID # NoHook
    BY <1>2, <1>3 DEF Finalize
<1> QED BY <1>1, <1>4, <1>8, <1>9, StepKeeps DEF Phases

LEMMA DeleteWebhookKeeps ==
    ASSUME OInv, NEW w \in Workers, DeleteWebhook(w) PROVE Details'
<1> USE DEF OInv, Details
<1>1. /\ source[w] \in ObjectsUpTo(hookCount)
      /\ source[w].status.hookID # NoHook
      /\ hookCount \in Nat
    BY DEF DeleteWebhook, OutsideTyped, WorkersHold
<1>2. WithHook(source[w], NoHook) \in ObjectsUpTo(hookCount)
    BY <1>1, HookSet
<1>3. ServerFrame /\ hookCount' = hookCount
    BY DEF DeleteWebhook, apiVars, informerVars, ServerFrame
<1>4. faults' \in 0..MaxFaults
    BY FaultsAreBounded DEF DeleteWebhook, Fault
<1>5. UNCHANGED <<created, deployments, services, secrets, address, edits>>
    BY DEF DeleteWebhook, apiVars, receiverVars, environmentVars
<1>6. hooks' \subseteq hooks /\ UNCHANGED issuers
    BY DEF DeleteWebhook, DeleteProjectHook
<1>7. warned' \subseteq 1..hookCount
    <2>1. source[w].status.hookID \in 1..hookCount
        BY <1>1, FieldsOfObjects
    <2> QED BY <2>1 DEF DeleteWebhook, OutsideTyped
<1>8. OutsideTyped'
    BY <1>3, <1>4, <1>5, <1>6, <1>7 DEF OutsideTyped
<1>9. \E o \in ObjectsUpTo(hookCount), err \in BOOLEAN : Return(w, o, err)
    BY <1>1, <1>2 DEF DeleteWebhook
<1> QED BY <1>1, <1>3, <1>8, <1>9, StepKeeps

-----------------------------------------------------------------------------
(* Writes *)

\* A write may store what the server makes of the request if that is current.
WriteStores(w, sent, stored) ==
    \/ UNCHANGED <<server, revision, watch, protected>>
    \/ Current(held[w], sent) /\ StoreIfChanged(held[w], stored)

\* The cache's object may have been given the new field.
WriteCaches(w, sent) ==
    \/ UNCHANGED cache
    \/ cache[held[w]] # NoSource /\ cache' = [cache EXCEPT ![held[w]] = sent]

LEMMA WriteParts ==
    ASSUME NEW w \in Workers, NEW sent, NEW stored, NEW allowed, NEW phase,
           WriteThroughCache(w, sent, stored, allowed, phase)
    PROVE  /\ WriteStores(w, sent, stored)
           /\ WriteCaches(w, sent)
           /\ NoFault \/ \E kind \in FaultKinds : Fault(kind)
           /\ Abort(w) \/ (pc' = [pc EXCEPT ![w] = phase] /\ UNCHANGED <<original, source, failed>>)
<1>1. WriteStores(w, sent, stored)
    BY DEF WriteThroughCache, WriteStores
<1>2. WriteCaches(w, sent)
    BY DEF WriteThroughCache, WriteCaches
<1>3. NoFault \/ \E kind \in FaultKinds : Fault(kind)
    BY DEF WriteThroughCache, Fault
<1>4. Abort(w) \/ (pc' = [pc EXCEPT ![w] = phase] /\ UNCHANGED <<original, source, failed>>)
    BY DEF WriteThroughCache
<1> QED BY <1>1, <1>2, <1>3, <1>4

LEMMA WriteKeeps ==
    ASSUME OInv, NEW w \in Workers, held[w] \in Keys,
           pc[w] \notin {"get", "lookup", "finish"},
           NEW sent, NEW stored, NEW allowed, NEW phase \in {"finalizers", "finish"},
           WriteThroughCache(w, sent, stored, allowed, phase),
           cache[held[w]] # NoSource =>
                /\ sent \in ObjectsUpTo(hookCount)
                /\ sent.rv = cache[held[w]].rv
                /\ sent.project = cache[held[w]].project
                /\ sent.sink = cache[held[w]].sink,
           Current(held[w], sent) /\ cache[held[w]] # NoSource
                => stored \in ObjectsUpTo(hookCount)
    PROVE  Details'
<1> USE DEF OInv, Details
<1> DEFINE k == held[w]
<1>1. UNCHANGED <<created, deployments, services, hooks, hookCount, issuers, warned, secrets,
                  address, edits>>
    BY DEF WriteThroughCache, receiverVars, gitlabVars, environmentVars
<1>2. OutsideTyped' /\ hookCount \in Nat
    BY <1>1, WriteParts, FaultsAreBounded DEF OutsideTyped
<1>3. WorkersHold'
    <2>1. pc \in [Workers -> Phases]
        BY DEF IInv, WorkersTyped
    <2>2. source[w] \in ObjectsUpTo(hookCount)
        BY DEF WorkersHold
    <2>3. CASE Abort(w)
        BY <1>1, <2>1, <2>3 DEF Abort, WorkersHold
    <2>4. CASE pc' = [pc EXCEPT ![w] = phase] /\ UNCHANGED <<original, source, failed>>
        BY <1>1, <2>1, <2>2, <2>4 DEF WorkersHold
    <2> QED BY <2>3, <2>4, WriteParts
<1>4. WriteCaches(w, sent) /\ WriteStores(w, sent, stored)
    BY WriteParts
<1>5. cache' \in [Keys -> VersionsUpTo(hookCount)]
    BY <1>4 DEF WriteCaches, ObjectsTyped, VersionsUpTo
<1>6. \A l \in Keys : Follows(cache'[l], revision[l], server[l])
    <2>1. \A l \in Keys : Follows(cache[l], revision[l], server[l])
        BY DEF VersionsInOrder
    <2>2. CASE UNCHANGED cache
        BY <2>1, <2>2
    <2>3. CASE cache[k] # NoSource /\ cache' = [cache EXCEPT ![k] = sent]
        <3>1. Follows(cache[k], revision[k], server[k])
            BY <2>1
        <3>2. Follows(sent, revision[k], server[k])
            BY <2>3, <3>1 DEF Follows
        <3> QED BY <2>1, <2>3, <3>2 DEF ObjectsTyped
    <2> QED BY <1>4, <2>2, <2>3 DEF WriteCaches
<1>7. ASSUME UNCHANGED <<server, revision, watch, protected>>
      PROVE  (ObjectsTyped /\ VersionsInOrder)'
    <2>1. ObjectsTyped'
        BY <1>1, <1>5, <1>7 DEF ObjectsTyped
    <2>2. VersionsInOrder'
        BY <1>6, <1>7 DEF VersionsInOrder
    <2> QED BY <2>1, <2>2
<1>8. ASSUME Store(k, stored), Current(k, sent), cache[k] # NoSource
      PROVE  (ObjectsTyped /\ VersionsInOrder)'
    BY <1>1, <1>5, <1>6, <1>8, StoreKeeps
<1>9. \/ UNCHANGED <<server, revision, watch, protected>>
      \/ Store(k, stored) /\ Current(k, sent) /\ cache[k] # NoSource
    BY DEF WriteThroughCache, StoreIfChanged
<1> QED BY <1>2, <1>3, <1>7, <1>8, <1>9

LEMMA CachedIsObject ==
    ASSUME OInv, NEW k \in Keys
    PROVE  /\ cache[k] # NoSource => cache[k] \in ObjectsUpTo(hookCount)
           /\ server[k] # NoSource => server[k] \in ObjectsUpTo(hookCount)
BY DEF OInv, Details, ObjectsTyped, VersionsUpTo

LEMMA UpdateStatusKeeps ==
    ASSUME OInv, NEW w \in Workers, UpdateStatus(w) PROVE Details'
<1> DEFINE k == held[w]
           sent == [cache[k] EXCEPT !.status = source[w].status]
<1>1. pc[w] = "status" /\ held[w] \in Keys /\ hookCount \in Nat
    BY OwnerIsOwner DEF UpdateStatus, OInv, Details, OutsideTyped
<1>2. source[w] \in ObjectsUpTo(hookCount)
    BY <1>1 DEF OInv, Details, WorkersHold
<1>3. ASSUME cache[k] # NoSource
      PROVE  /\ sent \in ObjectsUpTo(hookCount)
             /\ sent.rv = cache[k].rv
             /\ sent.project = cache[k].project
             /\ sent.sink = cache[k].sink
    <2>1. cache[k] \in ObjectsUpTo(hookCount)
        BY <1>1, <1>3, CachedIsObject
    <2>2. sent \in ObjectsUpTo(hookCount)
        BY <1>1, <1>2, <2>1, StatusSet
    <2> QED BY <2>1, <2>2 DEF ObjectsUpTo
<1>4. ASSUME cache[k] # NoSource, Current(k, sent)
      PROVE  PutStatus(k, sent) \in ObjectsUpTo(hookCount)
    <2>1. server[k] \in ObjectsUpTo(hookCount)
        BY <1>1, <1>4, CachedIsObject DEF Current
    <2> QED BY <1>1, <1>3, <1>4, <2>1, StatusSet DEF PutStatus
<1>5. AfterStatus(w, source[w]) \in {"finalizers", "finish"}
    BY AfterStatusIsInner
<1>6. WriteThroughCache(w, sent, PutStatus(k, sent), TRUE, AfterStatus(w, source[w]))
    BY DEF UpdateStatus
<1> QED BY <1>1, <1>3, <1>4, <1>5, <1>6, WriteKeeps

LEMMA UpdateFinalizersKeeps ==
    ASSUME OInv, NEW w \in Workers, UpdateFinalizers(w) PROVE Details'
<1> DEFINE k == held[w]
           sent == [cache[k] EXCEPT !.finalizers = source[w].finalizers]
<1>1. pc[w] = "finalizers" /\ held[w] \in Keys /\ hookCount \in Nat
    BY OwnerIsOwner DEF UpdateFinalizers, OInv, Details, OutsideTyped
<1>2. source[w] \in ObjectsUpTo(hookCount)
    BY <1>1 DEF OInv, Details, WorkersHold
<1>3. ASSUME cache[k] # NoSource
      PROVE  /\ sent \in ObjectsUpTo(hookCount)
             /\ sent.rv = cache[k].rv
             /\ sent.project = cache[k].project
             /\ sent.sink = cache[k].sink
    <2>1. cache[k] \in ObjectsUpTo(hookCount)
        BY <1>1, <1>3, CachedIsObject
    <2>2. source[w].finalizers \in SUBSET Finalizers
        BY <1>1, <1>2, FieldsOfObjects
    <2>3. sent \in ObjectsUpTo(hookCount)
        BY <1>1, <2>1, <2>2, FinalizersSet
    <2> QED BY <2>1, <2>3 DEF ObjectsUpTo
<1>4. ASSUME cache[k] # NoSource, Current(k, sent)
      PROVE  Put(k, sent) \in ObjectsUpTo(hookCount)
    <2>1. server[k] \in ObjectsUpTo(hookCount)
        BY <1>1, <1>4, CachedIsObject DEF Current
    <2> QED BY <1>1, <1>3, <1>4, <2>1, StatusSet DEF Put
<1>5. WriteThroughCache(w, sent, Put(k, sent), FinalizersAllowed(k, source[w].finalizers),
                        "finish")
    BY DEF UpdateFinalizers
<1> QED BY <1>1, <1>3, <1>4, <1>5, WriteKeeps

-----------------------------------------------------------------------------
(* The other steps *)

LEMMA TakeKeepsDetails ==
    ASSUME OInv, NEW w \in Workers, Take(w) PROVE Details'
<1> USE DEF OInv, Details
<1>1. pc' = [pc EXCEPT ![w] = "lookup"] /\ UNCHANGED <<original, source, failed, hookCount>>
    BY DEF Take, gitlabVars
<1>2. WorkersHold'
    BY <1>1 DEF WorkersHold, IInv, WorkersTyped
<1>3. OutsideTyped' /\ ServerFrame /\ hookCount \in Nat
    BY DEF Take, OutsideTyped, apiVars, informerVars, receiverVars, gitlabVars, accountVars,
           environmentVars, ServerFrame
<1> QED BY <1>1, <1>2, <1>3, ServerFrameKeeps

LEMMA LookupKeepsDetails ==
    ASSUME OInv, NEW w \in Workers, Lookup(w) PROVE Details'
<1> USE DEF OInv, Details
<1> DEFINE object == cache[held[w]]
           next == IF object = NoSource THEN "finish"
                   ELSE IF object.deleting THEN "finalize" ELSE "secrets"
<1>1. /\ pc' = [pc EXCEPT ![w] = next]
      /\ original' = [original EXCEPT ![w] = object]
      /\ source' = [source EXCEPT ![w] = object]
      /\ UNCHANGED <<failed, hookCount>>
    BY DEF Lookup, gitlabVars
<1>2. object \in VersionsUpTo(hookCount)
    BY DEF Lookup, IInv, WorkersTyped, HeldIsProcessing, ObjectsTyped
<1>3. next = "finish" \/ (next \in {"finalize", "secrets"} /\ object \in ObjectsUpTo(hookCount))
    BY <1>2 DEF VersionsUpTo
<1> HIDE DEF next, object
<1>4. WorkersHold'
    BY <1>1, <1>2, <1>3 DEF WorkersHold, IInv, WorkersTyped
<1>5. OutsideTyped' /\ ServerFrame /\ hookCount \in Nat
    BY DEF Lookup, OutsideTyped, apiVars, receiverVars, gitlabVars, accountVars,
           environmentVars, ServerFrame
<1> QED BY <1>1, <1>4, <1>5, ServerFrameKeeps

LEMMA FinishKeepsDetails ==
    ASSUME OInv, NEW w \in Workers, Finish(w) PROVE Details'
<1> USE DEF OInv, Details
<1>1. /\ pc' = [pc EXCEPT ![w] = "get"]
      /\ original' = [original EXCEPT ![w] = NoSource]
      /\ source' = [source EXCEPT ![w] = NoSource]
      /\ failed' = [failed EXCEPT ![w] = FALSE]
      /\ UNCHANGED hookCount
    BY DEF Finish, gitlabVars
<1>2. NoSource \in VersionsUpTo(hookCount)
    BY DEF VersionsUpTo
<1>3. WorkersHold'
    BY <1>1, <1>2 DEF WorkersHold, IInv, WorkersTyped
<1>4. OutsideTyped' /\ ServerFrame /\ hookCount \in Nat
    BY DEF Finish, OutsideTyped, apiVars, informerVars, receiverVars, gitlabVars, accountVars,
           environmentVars, ServerFrame
<1> QED BY <1>1, <1>3, <1>4, ServerFrameKeeps

\* The cache is what the server has, and the watch begins anew.
LEMMA ListingKeeps ==
    ASSUME OInv, cache' = server, watch' = [k \in Keys |-> <<>>],
           UNCHANGED <<server, revision, protected, hookCount>>
    PROVE  (ObjectsTyped /\ VersionsInOrder)'
<1> USE DEF OInv, Details
<1>1. \A k \in Keys : watch'[k] = <<>>
    OBVIOUS
<1>2. ObjectsTyped'
    <2>1. watch' \in [Keys -> Seq(VersionsUpTo(hookCount))]
        OBVIOUS
    <2> QED BY <2>1 DEF ObjectsTyped
<1>3. VersionsInOrder'
    BY <1>1, ServerFollowsItself DEF VersionsInOrder
<1> QED BY <1>2, <1>3

LEMMA RestartKeepsDetails ==
    ASSUME OInv, Restart, faults' \in 0..MaxFaults PROVE Details'
<1> USE DEF OInv, Details
<1>1. (ObjectsTyped /\ VersionsInOrder)'
    BY ListingKeeps DEF Restart, apiVars, accountVars, gitlabVars
<1>2. OutsideTyped'
    BY DEF Restart, OutsideTyped, apiVars, receiverVars, gitlabVars, accountVars,
           environmentVars
<1>3. WorkersHold'
    BY DEF Restart, WorkersHold, Idle, VersionsUpTo
<1> QED BY <1>1, <1>2, <1>3

\* No worker takes part.
LEMMA WorkersAside ==
    ASSUME OInv, UNCHANGED <<workerVars, hookCount>> PROVE WorkersHold'
BY DEF OInv, Details, WorkersHold, workerVars

LEMMA InformerKeeps ==
    ASSUME OInv, \/ \E k \in Keys : InformerStep(k) \/ Resync(k)
                 \/ Relist
    PROVE  Details'
<1> USE DEF OInv, Details
<1>1. ASSUME NEW k \in Keys, Deliver(k) PROVE Details'
    <2>1. /\ cache' = [cache EXCEPT ![k] = Head(watch[k])]
          /\ watch' = [watch EXCEPT ![k] = Tail(@)]
          /\ watch[k] # <<>>
          /\ UNCHANGED <<server, revision, protected, workerVars, hookCount>>
        BY <1>1 DEF Deliver, apiVars, accountVars, gitlabVars
    <2>2. watch[k] \in Seq(VersionsUpTo(hookCount))
        BY DEF ObjectsTyped
    <2>3. /\ Head(watch[k]) = watch[k][1] /\ 1 \in 1..Len(watch[k])
          /\ Head(watch[k]) \in VersionsUpTo(hookCount)
          /\ Tail(watch[k]) \in Seq(VersionsUpTo(hookCount))
          /\ \A i \in 1..Len(Tail(watch[k])) :
                i + 1 \in 1..Len(watch[k]) /\ Tail(watch[k])[i] = watch[k][i + 1]
        BY <2>1, <2>2
    <2>4. ObjectsTyped'
        BY <2>1, <2>3 DEF ObjectsTyped
    <2>5. VersionsInOrder'
        BY <2>1, <2>3 DEF VersionsInOrder, ObjectsTyped
    <2>6. OutsideTyped'
        BY <1>1 DEF Deliver, OutsideTyped, apiVars, receiverVars, gitlabVars, accountVars,
                    environmentVars
    <2> QED BY <2>1, <2>4, <2>5, <2>6, WorkersAside
<1>2. ASSUME NEW k \in Keys, Notify(k) \/ RetryDue(k) \/ Resync(k) PROVE Details'
    <2>1. ServerFrame /\ OutsideTyped' /\ UNCHANGED <<workerVars, hookCount>>
        BY <1>2 DEF Notify, RetryDue, Resync, OutsideTyped, apiVars, informerVars,
                    receiverVars, gitlabVars, accountVars, environmentVars, ServerFrame
    <2> QED BY <2>1, WorkersAside, ServerFrameKeeps DEF OutsideTyped
<1>3. CASE Relist
    <2>1. (ObjectsTyped /\ VersionsInOrder)'
        BY <1>3, ListingKeeps DEF Relist, apiVars, accountVars, gitlabVars
    <2>2. faults' \in 0..MaxFaults
        BY <1>3, FaultsAreBounded DEF Relist, Fault
    <2>3. OutsideTyped' /\ UNCHANGED <<workerVars, hookCount>>
        BY <1>3, <2>2 DEF Relist, OutsideTyped, apiVars, receiverVars, gitlabVars,
                          accountVars, environmentVars
    <2> QED BY <2>1, <2>3, WorkersAside
<1> QED BY <1>1, <1>2, <1>3 DEF InformerStep

-----------------------------------------------------------------------------
(* Users, other controllers, the cluster *)

\* A user's write of a well-formed object.
LEMMA UserStoreKeeps ==
    ASSUME OInv, NEW k \in Keys, NEW object \in ObjectsUpTo(hookCount), Store(k, object),
           UNCHANGED clusterFrame, OutsideTyped'
    PROVE  Details'
<1>1. UNCHANGED <<cache, hookCount, workerVars>>
    BY DEF clusterFrame, gitlabVars
<1>2. cache' \in [Keys -> VersionsUpTo(hookCount)]
    BY <1>1 DEF OInv, Details, ObjectsTyped
<1>3. \A l \in Keys : Follows(cache'[l], revision[l], server[l])
    BY <1>1 DEF OInv, Details, VersionsInOrder
<1> QED BY <1>1, <1>2, <1>3, StoreKeeps, WorkersAside DEF Details

LEMMA CreatedIsObject ==
    ASSUME OInv, NEW k \in Keys, CreateSource(k)
    PROVE  \E object \in ObjectsUpTo(hookCount) :
                /\ Store(k, object)
                /\ object.uid = created[k] + 1
                /\ object.status.hookID = NoHook
                /\ ~object.deleting /\ object.finalizers = {}
<1> DEFINE Object(project, sink) ==
        [uid |-> created[k] + 1, rv |-> 0, deleting |-> FALSE, finalizers |-> {},
         project |-> project, sink |-> sink,
         status |-> [hookID |-> NoHook, conds |-> Conds!NoConditions, sinkURI |-> NoURI]]
<1>1. /\ Conds!NoConditions \in Conds!Conditions
      /\ Conds!NoConditions["SinkProvided"] # "True"
    BY ConditionTypesOfSources DEF Conds!NoConditions, Conds!Conditions, Conds!ConditionValues
<1>2. created[k] + 1 \in Uids
    BY ConstantsAssumption DEF CreateSource, Uids, OInv, Details, OutsideTyped
<1>3. ASSUME NEW project \in Projects, NEW sink \in Sinks
      PROVE  /\ Object(project, sink) \in ObjectsUpTo(hookCount)
             /\ Object(project, sink).uid = created[k] + 1
             /\ Object(project, sink).status.hookID = NoHook
             /\ ~Object(project, sink).deleting
             /\ Object(project, sink).finalizers = {}
    BY <1>1, <1>2 DEF ObjectsUpTo, StatusesUpTo, SinkKept, SinkURIs
<1>4. \E project \in Projects, sink \in Sinks : Store(k, Object(project, sink))
    BY DEF CreateSource
<1> HIDE DEF Object
<1> QED BY <1>3, <1>4

LEMMA CreateSourceKeeps ==
    ASSUME OInv, NEW k \in Keys, CreateSource(k) PROVE Details'
<1>1. OutsideTyped'
    BY ConstantsAssumption
       DEF OInv, Details, CreateSource, OutsideTyped, clusterFrame, receiverVars, gitlabVars,
           environmentVars
<1>2. UNCHANGED clusterFrame
    BY DEF CreateSource
<1> QED BY <1>1, <1>2, CreatedIsObject, UserStoreKeeps

\* What an edit, a deletion or the removal of a finalizer makes of the object.
LEMMA ChangeKeeps ==
    ASSUME OInv, NEW k \in Keys, DeleteSource(k) \/ EditSource(k) \/ RemoveForeign(k)
    PROVE  Details'
<1>1. server[k] \in ObjectsUpTo(hookCount) /\ hookCount \in Nat
    BY CachedIsObject
       DEF DeleteSource, EditSource, RemoveForeign, OInv, Details, OutsideTyped
<1>2. OutsideTyped' /\ UNCHANGED clusterFrame
    BY ConstantsAssumption
       DEF OInv, Details, DeleteSource, EditSource, RemoveForeign, Edit, OutsideTyped,
           clusterFrame, receiverVars, gitlabVars, environmentVars
<1>3. server[k].finalizers \in SUBSET Finalizers /\ Foreign \in Finalizers
    BY <1>1, FieldsOfObjects DEF Finalizers
<1>4. /\ [server[k] EXCEPT !.finalizers = @ \cup {Foreign}] \in ObjectsUpTo(hookCount)
      /\ [server[k] EXCEPT !.finalizers = @ \ {Foreign}] \in ObjectsUpTo(hookCount)
    BY <1>1, <1>3, FinalizersSet
<1>5. \E object \in ObjectsUpTo(hookCount) : Store(k, object)
    BY <1>1, <1>4, SpecEdited DEF DeleteSource, EditSource, RemoveForeign
<1> QED BY <1>2, <1>5, UserStoreKeeps

LEMMA ClusterKeeps ==
    ASSUME OInv, \/ EditEnvironment
                 \/ \E v \in services : ProvisionIngress(v)
                 \/ \E owner \in Owners : CollectGarbage(owner)
    PROVE  Details'
<1> USE DEF OInv, Details
<1>1. ServerFrame /\ UNCHANGED <<workerVars, hookCount>>
    BY DEF EditEnvironment, ProvisionIngress, CollectGarbage, clusterFrame, apiVars,
           gitlabVars, ServerFrame
<1>2. CASE EditEnvironment
    <2>1. edits' \in 0..MaxEdits
        BY <1>2, ConstantsAssumption DEF EditEnvironment, Edit, OutsideTyped
    <2>2. secrets' \in BOOLEAN /\ address' \in Addresses \cup {NoURI}
        BY <1>2 DEF EditEnvironment, OutsideTyped
    <2>3. UNCHANGED <<created, deployments, services, hooks, issuers, warned, faults>>
        BY <1>2 DEF EditEnvironment, clusterFrame, apiVars, receiverVars, gitlabVars
    <2>4. OutsideTyped'
        BY <1>1, <2>1, <2>2, <2>3 DEF OutsideTyped
    <2> QED BY <1>1, <2>4, WorkersAside, ServerFrameKeeps DEF OutsideTyped
<1>3. CASE \E v \in services : ProvisionIngress(v)
    <2>1. OutsideTyped'
        BY <1>3 DEF ProvisionIngress, OutsideTyped, clusterFrame, apiVars, gitlabVars,
                    environmentVars
    <2> QED BY <1>1, <2>1, WorkersAside, ServerFrameKeeps DEF OutsideTyped
<1>4. CASE \E owner \in Owners : CollectGarbage(owner)
    <2>1. OutsideTyped'
        BY <1>4 DEF CollectGarbage, OutsideTyped, clusterFrame, apiVars, gitlabVars,
                    environmentVars
    <2> QED BY <1>1, <2>1, WorkersAside, ServerFrameKeeps DEF OutsideTyped
<1> QED BY <1>2, <1>3, <1>4

-----------------------------------------------------------------------------
(* The inductive invariant *)

LEMMA DetailsInit == Init => Details
<1> SUFFICES ASSUME Init PROVE Details
    OBVIOUS
<1> USE DEF Init, VersionsUpTo
<1>1. ObjectsTyped
    <2>1. watch \in [Keys -> Seq(VersionsUpTo(hookCount))]
        OBVIOUS
    <2> QED BY <2>1 DEF ObjectsTyped
<1>2. WorkersHold
    BY DEF WorkersHold, Idle
<1>3. OutsideTyped
    BY ConstantsAssumption DEF OutsideTyped, Addresses
<1>4. VersionsInOrder
    <2>1. ASSUME NEW k \in Keys
          PROVE  watch[k] = <<>> /\ server[k] = NoSource /\ cache[k] = NoSource
        OBVIOUS
    <2> HIDE DEF Init
    <2>2. Len(<<>>) = 0 /\ 1..0 = {}
        OBVIOUS
    <2> QED BY <2>1, <2>2 DEF VersionsInOrder, Follows
<1> QED BY <1>1, <1>2, <1>3, <1>4 DEF Details

LEMMA ReconcileStepKeepsDetails ==
    ASSUME OInv, NEW w \in Workers, ReconcileStep(w) PROVE Details'
<1>1. CASE PanicWithoutIngress(w) \/ PanicOnPathlessProject(w)
    <2>1. faults' = faults
        BY <1>1 DEF PanicWithoutIngress, PanicOnPathlessProject, Panic, NoFault
    <2> QED BY <1>1, <2>1, PanicsRestart, RestartKeepsDetails DEF OInv, Details, OutsideTyped
<1> QED BY <1>1, LookupKeepsDetails, ReadSecretsKeeps, ResolveSinkKeeps,
           FindReceiverKeepsDetails, CreateDeploymentKeepsDetails, CreateServiceKeeps,
           WebhookUntouchedKeeps, CreateWebhookKeeps, FinalizeKeeps, DeleteWebhookKeeps,
           UpdateStatusKeeps, UpdateFinalizersKeeps, FinishKeepsDetails
        DEF ReconcileStep

LEMMA DetailsNext == OInv /\ [Next]_vars => Details'
<1> SUFFICES ASSUME OInv, [Next]_vars PROVE Details'
    OBVIOUS
<1>1. CASE Crash
    BY <1>1, RestartKeepsDetails, FaultsAreBounded DEF Crash, Fault, OInv, Details
<1>2. CASE \E w \in Workers : Take(w) \/ ReconcileStep(w)
    BY <1>2, TakeKeepsDetails, ReconcileStepKeepsDetails
<1>3. CASE \/ \E k \in Keys : InformerStep(k) \/ Resync(k)
           \/ Relist
    BY <1>3, InformerKeeps
<1>4. CASE \E k \in Keys : CreateSource(k) \/ DeleteSource(k) \/ EditSource(k) \/ RemoveForeign(k)
    BY <1>4, CreateSourceKeeps, ChangeKeeps
<1>5. CASE \/ EditEnvironment
           \/ \E v \in services : ProvisionIngress(v)
           \/ \E owner \in Owners : CollectGarbage(owner)
    BY <1>5, ClusterKeeps
<1>6. CASE UNCHANGED vars
    <2>1. ServerFrame /\ OutsideTyped' /\ UNCHANGED <<workerVars, hookCount>>
        BY <1>6 DEF vars, OInv, Details, OutsideTyped, apiVars, informerVars, receiverVars,
                    gitlabVars, accountVars, environmentVars, ServerFrame
    <2> QED BY <2>1, WorkersAside, ServerFrameKeeps DEF OInv, Details, OutsideTyped
<1> QED BY <1>1, <1>2, <1>3, <1>4, <1>5, <1>6 DEF Next

LEMMA ObjectsInvariance == Spec => []OInv
<1>1. Init => OInv
    BY IndInvInit, DetailsInit DEF OInv
<1>2. OInv /\ [Next]_vars => OInv'
    BY IndInvNext, DetailsNext DEF OInv
<1> QED BY <1>1, <1>2, PTL DEF Spec

-----------------------------------------------------------------------------
(* The theorems *)

\* TypeOK: the types of all copies of the sources and of what is created for them;
\* above all, an event names and a deletion looks for an ID that GitLab has given.
THEOREM TypeCorrect == Spec => []TypeOK
<1>1. OInv => TypeOK
    BY VersionsAreVersions
       DEF OInv, Details, IInv, WorkersTyped, ObjectsTyped, WorkersHold, OutsideTyped,
           TypeOK, HookIDs
<1> QED BY <1>1, ObjectsInvariance, PTL

\* ReadyHasASink: whatever is edited, lost or stale, no stored status names the
\* sink as provided without an address for it.
THEOREM ProvidedSinkHasURI == Spec => []ReadyHasASink
<1>1. OInv => ReadyHasASink
    BY DEF OInv, Details, ObjectsTyped, VersionsUpTo, ObjectsUpTo, SinkKept, ReadyHasASink
<1> QED BY <1>1, ObjectsInvariance, PTL

\* A request of a worker other than the two writes, or the end of the process.
LEMMA OnlyWritesChangeTheServer ==
    ASSUME NEW w \in Workers, ReconcileStep(w), ~UpdateStatus(w), ~UpdateFinalizers(w)
    PROVE  UNCHANGED server
<1> USE DEF requestFrame, apiVars
<1>1. CASE PanicWithoutIngress(w) \/ PanicOnPathlessProject(w)
    BY <1>1, PanicsRestart DEF Restart
<1>2. CASE Lookup(w) \/ ReadSecrets(w) \/ ResolveSink(w) \/ FindReceiver(w)
    BY <1>2 DEF Lookup, ReadSecrets, ResolveSink, FindReceiver
<1>3. CASE CreateDeployment(w) \/ CreateService(w) \/ ListServicesFails(w) \/ KeepWebhook(w)
    BY <1>3 DEF CreateDeployment, CreateService, ListServicesFails, KeepWebhook
<1>4. CASE CreateWebhook(w) \/ Finalize(w) \/ DeleteWebhook(w) \/ Finish(w)
    BY <1>4 DEF CreateWebhook, Finalize, DeleteWebhook, Finish
<1> QED BY <1>1, <1>2, <1>3, <1>4 DEF ReconcileStep

SpecIsKept ==
    \A k \in Keys : server[k] # NoSource /\ server'[k] # NoSource =>
        /\ server'[k].project = server[k].project
        /\ server'[k].sink = server[k].sink
        /\ server'[k].deleting = server[k].deleting

LEMMA StoreKeepsTheSpec ==
    ASSUME OInv, NEW k \in Keys, NEW object \in ObjectsUpTo(hookCount),
           StoreIfChanged(k, object),
           object.project = server[k].project,
           object.sink = server[k].sink,
           object.deleting = server[k].deleting
    PROVE  SpecIsKept
<1>1. CASE UNCHANGED server
    BY <1>1 DEF SpecIsKept
<1>2. CASE Store(k, object)
    <2> DEFINE stored == IF object.deleting /\ object.finalizers = {}
                         THEN NoSource
                         ELSE [object EXCEPT !.rv = revision[k] + 1]
    <2>1. server' = [server EXCEPT ![k] = stored]
        BY <1>2 DEF Store
    <2>2. stored # NoSource =>
            /\ stored.project = object.project
            /\ stored.sink = object.sink
            /\ stored.deleting = object.deleting
        BY DEF ObjectsUpTo
    <2> HIDE DEF stored
    <2> QED BY <2>1, <2>2 DEF SpecIsKept, OInv, Details, ObjectsTyped
<1> QED BY <1>1, <1>2 DEF StoreIfChanged

\* The status subresource ignores the rest of what is sent.
LEMMA UpdateStatusKeepsTheSpec ==
    ASSUME OInv, NEW w \in Workers, UpdateStatus(w) PROVE SpecIsKept
<1> DEFINE k == held[w]
           sent == [cache[k] EXCEPT !.status = source[w].status]
<1>1. held[w] \in Keys /\ hookCount \in Nat /\ source[w] \in ObjectsUpTo(hookCount)
    BY OwnerIsOwner DEF UpdateStatus, OInv, Details, OutsideTyped, WorkersHold
<1>2. \/ UNCHANGED server
      \/ cache[k] # NoSource /\ Current(k, sent) /\ StoreIfChanged(k, PutStatus(k, sent))
    BY DEF UpdateStatus, WriteThroughCache
<1>3. CASE UNCHANGED server
    BY <1>3 DEF SpecIsKept
<1>4. CASE cache[k] # NoSource /\ Current(k, sent) /\ StoreIfChanged(k, PutStatus(k, sent))
    <2>1. server[k] \in ObjectsUpTo(hookCount) /\ cache[k] \in ObjectsUpTo(hookCount)
        BY <1>1, <1>4, CachedIsObject DEF Current
    <2>2. PutStatus(k, sent) \in ObjectsUpTo(hookCount)
        BY <1>1, <2>1, StatusSet DEF PutStatus
    <2>3. /\ PutStatus(k, sent).project = server[k].project
          /\ PutStatus(k, sent).sink = server[k].sink
          /\ PutStatus(k, sent).deleting = server[k].deleting
        BY <2>1 DEF PutStatus, ObjectsUpTo
    <2> QED BY <1>1, <1>4, <2>2, <2>3, StoreKeepsTheSpec
<1> QED BY <1>2, <1>3, <1>4

\* A plain update sends the spec of the cache along, which is the server's if the
\* resource version is.
LEMMA UpdateFinalizersKeepsTheSpec ==
    ASSUME OInv, NEW w \in Workers, UpdateFinalizers(w) PROVE SpecIsKept
<1> DEFINE k == held[w]
           sent == [cache[k] EXCEPT !.finalizers = source[w].finalizers]
<1>1. held[w] \in Keys /\ hookCount \in Nat /\ source[w] \in ObjectsUpTo(hookCount)
    BY OwnerIsOwner DEF UpdateFinalizers, OInv, Details, OutsideTyped, WorkersHold
<1>2. \/ UNCHANGED server
      \/ cache[k] # NoSource /\ Current(k, sent) /\ StoreIfChanged(k, Put(k, sent))
    BY DEF UpdateFinalizers, WriteThroughCache
<1>3. CASE UNCHANGED server
    BY <1>3 DEF SpecIsKept
<1>4. CASE cache[k] # NoSource /\ Current(k, sent) /\ StoreIfChanged(k, Put(k, sent))
    <2>1. server[k] \in ObjectsUpTo(hookCount) /\ cache[k] \in ObjectsUpTo(hookCount)
        BY <1>1, <1>4, CachedIsObject DEF Current
    <2>2. source[w].finalizers \in SUBSET Finalizers
        BY <1>1, FieldsOfObjects
    <2>3. sent \in ObjectsUpTo(hookCount)
        BY <1>1, <2>1, <2>2, FinalizersSet
    <2>4. Put(k, sent) \in ObjectsUpTo(hookCount)
        BY <1>1, <2>1, <2>3, StatusSet DEF Put
    <2>5. sent.rv = cache[k].rv /\ sent.project = cache[k].project /\ sent.sink = cache[k].sink
        BY <2>1 DEF ObjectsUpTo
    <2>6. cache[k].project = server[k].project /\ cache[k].sink = server[k].sink
        BY <1>1, <1>4, <2>5 DEF Current, OInv, Details, VersionsInOrder, Follows
    <2>7. /\ Put(k, sent).project = sent.project
          /\ Put(k, sent).sink = sent.sink
          /\ Put(k, sent).deleting = server[k].deleting
        BY <2>3 DEF Put, ObjectsUpTo
    <2> QED BY <1>1, <1>4, <2>4, <2>5, <2>6, <2>7, StoreKeepsTheSpec
<1> QED BY <1>2, <1>3, <1>4

LEMMA WorkersKeepTheSpec ==
    OInv /\ [Next]_vars => (workerVars' # workerVars => SpecIsKept)
<1> SUFFICES ASSUME OInv, [Next]_vars, workerVars' # workerVars PROVE SpecIsKept
    OBVIOUS
<1>1. CASE Crash \/ \E w \in Workers : Take(w)
    BY <1>1 DEF Crash, Restart, Take, apiVars, SpecIsKept
<1>2. ASSUME NEW w \in Workers, ReconcileStep(w) PROVE SpecIsKept
    BY <1>2, OnlyWritesChangeTheServer, UpdateStatusKeepsTheSpec, UpdateFinalizersKeepsTheSpec
       DEF SpecIsKept
<1>3. ASSUME NEW k \in Keys, InformerStep(k) \/ Resync(k) PROVE FALSE
    BY <1>3 DEF InformerStep, Deliver, Notify, RetryDue, Resync
<1>4. ASSUME NEW k \in Keys,
             CreateSource(k) \/ DeleteSource(k) \/ EditSource(k) \/ RemoveForeign(k)
      PROVE  FALSE
    BY <1>4 DEF CreateSource, DeleteSource, EditSource, RemoveForeign, clusterFrame
<1>5. CASE \/ Relist
           \/ EditEnvironment
           \/ \E v \in services : ProvisionIngress(v)
           \/ \E owner \in Owners : CollectGarbage(owner)
    BY <1>5 DEF Relist, EditEnvironment, ProvisionIngress, CollectGarbage, clusterFrame
<1>6. CASE UNCHANGED vars
    BY <1>6 DEF vars
<1> QED BY <1>1, <1>2, <1>3, <1>4, <1>5, <1>6 DEF Next

\* ControllerKeepsTheSpec: updateStatus and update write through a cache that lags,
\* and yet no write of the controller reverts an edit or a deletion.
THEOREM WritesKeepTheSpec == Spec => ControllerKeepsTheSpec
<1>1. OInv /\ [Next]_vars =>
        [workerVars' # workerVars =>
            \A k \in Keys : server[k] # NoSource /\ server'[k] # NoSource =>
                /\ server'[k].project = server[k].project
                /\ server'[k].sink = server[k].sink
                /\ server'[k].deleting = server[k].deleting]_vars
    BY WorkersKeepTheSpec DEF SpecIsKept
<1> QED BY <1>1, ObjectsInvariance, PTL DEF Spec, ControllerKeepsTheSpec

=============================================================================

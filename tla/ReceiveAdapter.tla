--------------------------- MODULE ReceiveAdapter ---------------------------
(***************************************************************************)
(* The delivery of events: the hook that createWebhook registers, GitLab's *)
(* requests for the project's events, and the receive adapter that turns   *)
(* them into CloudEvents and sends them to the sink.                       *)
(*                                                                         *)
(* net/http runs each request in a goroutine of its own.  A goroutine      *)
(* waits only for the sink, so its steps are cut there; a panic ends it    *)
(* and the connection, not the process.  Of a body the model keeps what    *)
(* json.Unmarshal makes of it: a payload with the URL that the adapter     *)
(* looks for, or one without, whether or not Unmarshal reports an error.   *)
(***************************************************************************)
EXTENDS Naturals, Sequences

CONSTANTS
    Handlers,       \* goroutines that run the handler
    Deliveries,     \* events of the project for which the hook is called
    Stranger,       \* the origin of requests that the hook does not make
    Specs,          \* the values that spec.eventTypes may have
    Headers,        \* event headers that strangers use
    SinkURI,        \* the argument --sink of the deployment
    Tokens,         \* values of the secret token, without the empty one
    Other,          \* the token that strangers send, or Empty
    Empty,          \* the empty string
    Down, NoHook, NoEvent, NoRequest,
    MaxAttempts,    \* bound: requests that GitLab makes for one delivery
    MaxRotations    \* bound: changes of the secret

ASSUME AdapterAssumption ==
    /\ Stranger \notin Deliveries
    /\ Tokens \cap {Empty, Other, Down} = {}
    /\ MaxAttempts \in Nat /\ MaxRotations \in Nat

VARIABLES
    eventTypes,     \* spec.eventTypes
    secret,         \* the value of the secret token in the cluster
    hook,           \* what GitLab knows of the hook: event types and token
    token,          \* the secret that the running process has read, or Down
    pc, request,    \* the handlers and what they serve
    raised,         \* of each delivery: event header and body
    attempts,       \* requests made for each delivery
    answers,        \* what GitLab was answered
    offered,        \* ghost: attempts for which Send was called
    received,       \* types of the CloudEvents that the sink took, of each origin
    rotations

clusterVars == <<eventTypes, secret, rotations>>
handlerVars == <<pc, request>>
gitlabVars == <<hook, raised, attempts>>
outcomeVars == <<answers, offered, received>>
vars == <<clusterVars, token, handlerVars, gitlabVars, outcomeVars>>

-----------------------------------------------------------------------------
(* Event types *)

\* The X-Gitlab-Event header, written without its blanks, of what GitLab sends
\* for each option of a hook.
HeaderOf ==
    [push_events |-> "PushHook", tag_push_events |-> "TagPushHook",
     issues_events |-> "IssueHook",
     confidential_issues_events |-> "ConfidentialIssueHook",
     note_events |-> "NoteHook", merge_requests_events |-> "MergeRequestHook",
     wiki_page_events |-> "WikiPageHook", pipeline_events |-> "PipelineHook",
     job_events |-> "JobHook"]

\* The switch of createWebhook: the field of projectHookOptions that an event
\* type of the spec sets.  It has no case for push_events_branch_filter.
FieldFor ==
    [push_events |-> "PushEvents", issues_events |-> "IssuesEvents",
     confidential_issues_events |-> "ConfidentialIssuesEvents",
     merge_requests_events |-> "MergeRequestsEvents",
     tag_push_events |-> "TagPushEvents", pipeline_events |-> "PipelineEvents",
     wiki_page_events |-> "WikiPageEvents", job_events |-> "JobEvents",
     note_events |-> "NoteEvents"]

projectHookOptions(types) == {FieldFor[e] : e \in types \cap DOMAIN FieldFor}

\* The field that Create gives for each option of the API, switched on or off.
FieldOf ==
    [push_events |-> "PushEvents", issues_events |-> "IssuesEvents",
     confidential_issues_events |-> "ConfidentialIssuesEvents",
     merge_requests_events |-> "MergeRequestsEvents",
     tag_push_events |-> "TagPushEvents", note_events |-> "NoteEvents",
     job_events |-> "JobEvents", pipeline_events |-> "PipelineEvents",
     wiki_page_events |-> "WikiPageEvents"]

\* Mutant: only what is switched on is given.
GivenIfSet(fields) == {o \in DOMAIN FieldOf : FieldOf[o] \in fields}

\* AddProjectHookOptions has a pointer to every field, so that none is left to
\* GitLab.
Given(fields) == DOMAIN FieldOf

\* What GitLab switches on if it is not told.
Default == {"push_events"}

\* The options that the hook has in the end.
HookOptions(types) ==
    LET fields == projectHookOptions(types)
    IN  {o \in DOMAIN HeaderOf :
            IF o \in Given(fields) THEN FieldOf[o] \in fields ELSE o \in Default}

\* What the adapter parses, and likewise what sourceFromGitLabEvent knows.
validEvents ==
    {HeaderOf[e] : e \in DOMAIN HeaderOf \ {"job_events"}} \cup {"BuildHook"}

-----------------------------------------------------------------------------

Events == Headers \cup {HeaderOf[e] : e \in DOMAIN HeaderOf}
Bodies == {"empty", "noURL", "url"}
Requests == [origin : Deliveries \cup {Stranger}, attempt : 0..MaxAttempts,
             method : {"GET", "POST"}, token : Tokens \cup {Empty, Other},
             event : Events, body : Bodies]
Happenings == [event : Events, body : Bodies]
Attempts == (Deliveries \cup {Stranger}) \X (0..MaxAttempts)
Codes == {"ok", "notFound", "broken"}

TypeOK ==
    /\ eventTypes \in Specs
    /\ secret \in Tokens \cup {Empty}
    /\ hook = NoHook \/ hook \in [options : SUBSET DOMAIN HeaderOf, token : Tokens \cup {Empty}]
    /\ token \in Tokens \cup {Down}
    /\ pc \in [Handlers -> {"idle", "parse", "send", "sent"}]
    /\ request \in [Handlers -> Requests \cup {NoRequest}]
    /\ \A h \in Handlers : pc[h] # "idle" => request[h] \in Requests
    /\ raised \in [Deliveries -> Happenings \cup {NoEvent}]
    /\ attempts \in [Deliveries -> 0..MaxAttempts]
    /\ answers \subseteq [delivery : Deliveries, attempt : 1..MaxAttempts, code : Codes]
    /\ offered \subseteq Attempts
    /\ received \in [Deliveries \cup {Stranger} -> Seq(Events)]
    /\ rotations \in 0..MaxRotations

Init ==
    /\ eventTypes \in Specs
    /\ secret \in Tokens
    /\ hook = NoHook
    /\ token = Down
    /\ pc = [h \in Handlers |-> "idle"]
    /\ request = [h \in Handlers |-> NoRequest]
    /\ raised = [d \in Deliveries |-> NoEvent]
    /\ attempts = [d \in Deliveries |-> 0]
    /\ answers = {}
    /\ offered = {}
    /\ received = [o \in Deliveries \cup {Stranger} |-> <<>>]
    /\ rotations = 0

-----------------------------------------------------------------------------
(* The cluster and GitLab *)

\* Mutant: main does not look at the secret.
mainUnchecked ==
    /\ token = Down
    /\ token' = secret
    /\ UNCHANGED <<clusterVars, handlerVars, gitlabVars, outcomeVars>>

\* A process of the adapter starts with the secret of that moment in its
\* environment; without one, or without a sink, it exits at once.
main ==
    /\ token = Down
    /\ SinkURI # Empty
    /\ secret # Empty
    /\ token' = secret
    /\ UNCHANGED <<clusterVars, handlerVars, gitlabVars, outcomeVars>>

Answered(r, code) ==
    {[delivery |-> o, attempt |-> r.attempt, code |-> code] : o \in {r.origin} \ {Stranger}}

\* The process is killed: connections break.
Kill ==
    /\ token # Down
    /\ token' = Down
    /\ pc' = [h \in Handlers |-> "idle"]
    /\ request' = [h \in Handlers |-> NoRequest]
    /\ answers' = answers \cup
            UNION {Answered(request[h], "broken") : h \in {g \in Handlers : pc[g] # "idle"}}
    /\ UNCHANGED <<clusterVars, gitlabVars, offered, received>>

\* A user changes the secret; neither the process nor the hook is told.
Rotate ==
    /\ rotations < MaxRotations
    /\ rotations' = rotations + 1
    /\ secret' \in (Tokens \cup {Empty}) \ {secret}
    /\ UNCHANGED <<eventTypes, token, handlerVars, gitlabVars, outcomeVars>>

\* The controller registers the hook, once, with the secret of that moment.
CreateWebhook ==
    /\ hook = NoHook
    /\ hook' = [options |-> HookOptions(eventTypes), token |-> secret]
    /\ UNCHANGED <<clusterVars, token, handlerVars, raised, attempts, outcomeVars>>

\* Something happens in the project that the hook is to be called for.
Raise(d) ==
    /\ hook # NoHook
    /\ raised[d] = NoEvent
    /\ \E e \in hook.options, body \in {"noURL", "url"} :
        raised' = [raised EXCEPT ![d] = [event |-> HeaderOf[e], body |-> body]]
    /\ UNCHANGED <<clusterVars, token, handlerVars, hook, attempts, outcomeVars>>

\* GitLab makes a request, or makes it again since it broke or took too long.
Attempt(d) ==
    /\ raised[d] # NoEvent
    /\ attempts[d] < MaxAttempts
    /\ \A a \in answers : ~(a.delivery = d /\ a.code = "ok")
    /\ attempts' = [attempts EXCEPT ![d] = @ + 1]
    /\ UNCHANGED <<clusterVars, token, hook, raised, offered, received>>

Serve(h, r) ==
    /\ token # Down
    /\ pc[h] = "idle"
    /\ pc' = [pc EXCEPT ![h] = "parse"]
    /\ request' = [request EXCEPT ![h] = r]

Deliver(h, d) ==
    /\ Attempt(d)
    /\ Serve(h, [origin |-> d, attempt |-> attempts[d] + 1, method |-> "POST",
                 token |-> hook.token, event |-> raised[d].event, body |-> raised[d].body])
    /\ UNCHANGED answers

DeliverInVain(d) ==
    /\ token = Down
    /\ Attempt(d)
    /\ answers' = answers \cup {[delivery |-> d, attempt |-> attempts[d] + 1, code |-> "broken"]}
    /\ UNCHANGED handlerVars

\* Somebody else makes a request: a probe, a crawler, a hook of another project.
OtherRequest(h) ==
    /\ \E e \in Headers, m \in {"GET", "POST"}, b \in {"empty", "url"} :
        /\ m = "GET" => b = "empty"
        /\ Serve(h, [origin |-> Stranger, attempt |-> 0, method |-> m, token |-> Other,
                     event |-> e, body |-> b])
    /\ UNCHANGED <<clusterVars, token, gitlabVars, outcomeVars>>

-----------------------------------------------------------------------------
(* The handler *)

\* Parse has verified the request and read its body.
Verified(r) ==
    /\ r.method = "POST"
    /\ token = Empty \/ r.token = token
    /\ r.event # Empty
    /\ r.body # "empty"

\* The one error of Parse that the handler looks at.
ErrEventNotFound(r) == Verified(r) /\ r.event \notin validEvents

\* What Parse returns besides its error: nil unless it came to unmarshalling.
Parse(r) == IF Verified(r) THEN r.body ELSE "nil"

\* Mutant: type assertions that check for success.
sourceChecked(event, payload) ==
    IF event \in validEvents /\ payload = "url" THEN "source" ELSE "none"

\* The type assertion on a nil payload panics, for the events it has a case for.
sourceFromGitLabEvent(event, payload) ==
    IF event \notin validEvents THEN "none"
    ELSE IF payload = "nil" THEN "panic"
    ELSE IF payload = "url" THEN "source" ELSE "none"

Respond(h, code) ==
    /\ pc' = [pc EXCEPT ![h] = "idle"]
    /\ request' = [request EXCEPT ![h] = NoRequest]
    /\ answers' = answers \cup Answered(request[h], code)
    /\ UNCHANGED <<clusterVars, token, gitlabVars, offered, received>>

NotFound(h) ==
    /\ pc[h] = "parse"
    /\ ErrEventNotFound(request[h])
    /\ Respond(h, "notFound")

\* HandleEvent, up to Send, its own errors being logged and answered with 200.
HandleEvent(h) ==
    LET r == request[h]
        source == sourceFromGitLabEvent(r.event, Parse(r))
    IN  /\ pc[h] = "parse"
        /\ ~ErrEventNotFound(r)
        /\ \/ source = "panic" /\ Respond(h, "broken")
           \/ source = "none" /\ Respond(h, "ok")
           \/ /\ source = "source"
              /\ pc' = [pc EXCEPT ![h] = "send"]
              /\ offered' = offered \cup {<<r.origin, r.attempt>>}
              /\ UNCHANGED <<clusterVars, token, gitlabVars, request, answers, received>>

\* The sink takes the event.
SinkTakes(h) ==
    LET r == request[h]
    IN  /\ pc[h] = "send"
        /\ pc' = [pc EXCEPT ![h] = "sent"]
        /\ received' = [received EXCEPT ![r.origin] = Append(@, r.event)]
        /\ UNCHANGED <<clusterVars, token, gitlabVars, request, answers, offered>>

\* Mutant: an event is sent again if the sink's answer is lost.
SendTwice(h) ==
    \/ pc[h] \in {"send", "sent"} /\ Respond(h, "ok")
    \/ /\ pc[h] = "sent"
       /\ pc' = [pc EXCEPT ![h] = "send"]
       /\ UNCHANGED <<clusterVars, token, gitlabVars, request, outcomeVars>>

\* Send returns, with an error if the sink did not take the event or its answer
\* was lost; an error is logged and answered with 200 like success.  It has no
\* timeout: nothing obliges it to return.
SendReturns(h) ==
    /\ pc[h] \in {"send", "sent"}
    /\ Respond(h, "ok")

Handle(h) == NotFound(h) \/ HandleEvent(h) \/ SinkTakes(h) \/ SendReturns(h)

Next ==
    \/ main
    \/ Kill
    \/ Rotate
    \/ CreateWebhook
    \/ \E d \in Deliveries : Raise(d) \/ DeliverInVain(d)
    \/ \E h \in Handlers : Handle(h) \/ OtherRequest(h) \/ \E d \in Deliveries : Deliver(h, d)

Spec == Init /\ [][Next]_vars

-----------------------------------------------------------------------------
(* Properties *)

\* The handler goes on after most errors of Parse, a wrong token included; yet
\* nothing that came without the secret reaches the sink.
OnlyTheHookIsForwarded == received[Stranger] = <<>>

\* The sink receives events of the types that the source asks for and no others,
\* and the hook asks for all of those that GitLab has an option for, though the
\* same type has a name in the spec, one in projectHookOptions, one in the API and
\* one in requests.
OnlyRequestedTypes ==
    /\ \A d \in Deliveries : \A i \in 1..Len(received[d]) :
        \E e \in eventTypes \cap DOMAIN HeaderOf : received[d][i] = HeaderOf[e]
    /\ hook # NoHook => eventTypes \cap DOMAIN HeaderOf \subseteq hook.options

\* Whatever is lost or broken, the adapter itself repeats nothing: the sink
\* takes an event at most once for each request of GitLab.
AtMostOncePerAttempt == \A d \in Deliveries : Len(received[d]) <= attempts[d]

\* GitLab takes 200 for "delivered" and forgets the event.  Of an event that the
\* adapter supports and that names its source, it hears 200 only if the sink was
\* offered it; after a change of the secret it hears of the rejection, if only
\* because the nil payload panics.
AcknowledgedMeansOffered ==
    \A a \in answers :
        /\ a.code = "ok"
        /\ raised[a.delivery].event \in validEvents
        /\ raised[a.delivery].body = "url"
        => <<a.delivery, a.attempt>> \in offered
=============================================================================

------------------------ MODULE ReceiveAdapterProofs ------------------------
(***************************************************************************)
(* What the receive adapter forwards and acknowledges, for any number of   *)
(* handlers, deliveries and attempts.                                      *)
(***************************************************************************)
EXTENDS ReceiveAdapter, FiniteSetTheorems, TLAPS

\* What a handler serves is what GitLab raised, or has the stranger's token.
Genuine(r) ==
    IF r.origin = Stranger THEN r.token = Other
    ELSE /\ raised[r.origin] # NoEvent
         /\ r.event = raised[r.origin].event
         /\ r.body = raised[r.origin].body
         /\ r.attempt # 0

RequestsAreGenuine == \A h \in Handlers : pc[h] # "idle" => Genuine(request[h])

\* A handler that has come to Send has verified its request and is on record.
SendersAreVerified ==
    \A h \in Handlers :
        pc[h] \in {"send", "sent"} =>
            /\ request[h].origin # Stranger
            /\ <<request[h].origin, request[h].attempt>> \in offered

\* What the sink has is what GitLab raised.
EventsAreGenuine ==
    \A d \in Deliveries : \A i \in 1..Len(received[d]) :
        /\ raised[d] # NoEvent
        /\ received[d][i] = raised[d].event

\* GitLab raises events of the types that createWebhook has asked for.
RaisedAreRequested ==
    /\ hook # NoHook => hook.options = HookOptions(eventTypes)
    /\ \A d \in Deliveries : raised[d] # NoEvent =>
            /\ hook # NoHook
            /\ \E e \in HookOptions(eventTypes) : raised[d].event = HeaderOf[e]

AnswersAreGenuine == \A a \in answers : raised[a.delivery] # NoEvent

DownIsIdle == token = Down => \A h \in Handlers : pc[h] = "idle"

IInv ==
    /\ TypeOK
    /\ RequestsAreGenuine
    /\ SendersAreVerified
    /\ EventsAreGenuine
    /\ RaisedAreRequested
    /\ AnswersAreGenuine
    /\ DownIsIdle
    /\ OnlyTheHookIsForwarded
    /\ AcknowledgedMeansOffered

\* What the proofs need of AdapterAssumption, by parts.
LEMMA Bounds == MaxAttempts \in Nat /\ MaxRotations \in Nat
BY AdapterAssumption

LEMMA StrangerIsNoDelivery == Stranger \notin Deliveries
BY AdapterAssumption

LEMMA TokensAreSecret == Empty \notin Tokens /\ Other \notin Tokens /\ Down \notin Tokens
BY AdapterAssumption

LEMMA HooksAreEvents ==
    ASSUME NEW types
    PROVE  /\ HookOptions(types) \subseteq DOMAIN HeaderOf
           /\ \A e \in HookOptions(types) : HeaderOf[e] \in Events
BY DEF HookOptions, Events

\* Spec, projectHookOptions and API, each with names of its own, mean the same:
\* an event type switches on the option of its name and no other does.
LEMMA OptionsAreTypes ==
    ASSUME NEW types PROVE HookOptions(types) = types \cap DOMAIN HeaderOf
<1>1. DOMAIN HeaderOf = DOMAIN FieldOf /\ DOMAIN FieldOf = DOMAIN FieldFor
    BY DEF HeaderOf, FieldOf, FieldFor
<1>2. \A e, o \in DOMAIN FieldOf : FieldFor[e] = FieldOf[o] <=> e = o
    BY DEF FieldOf, FieldFor
<1>3. ASSUME NEW o \in DOMAIN FieldOf
      PROVE  FieldOf[o] \in projectHookOptions(types) <=> o \in types
    BY <1>1, <1>2 DEF projectHookOptions
<1> QED BY <1>1, <1>3 DEF HookOptions, Given

LEMMA IndInvInit == Init => IInv
<1> SUFFICES ASSUME Init PROVE IInv
    OBVIOUS
<1>1. TypeOK
    <2>1. received \in [Deliveries \cup {Stranger} -> Seq(Events)]
        BY DEF Init
    <2> QED BY <2>1, Bounds DEF Init, TypeOK
<1>2. RequestsAreGenuine /\ SendersAreVerified /\ DownIsIdle
    BY DEF Init, RequestsAreGenuine, SendersAreVerified, DownIsIdle
<1>3. EventsAreGenuine /\ RaisedAreRequested /\ OnlyTheHookIsForwarded
    BY DEF Init, EventsAreGenuine, RaisedAreRequested, OnlyTheHookIsForwarded
<1>4. AnswersAreGenuine /\ AcknowledgedMeansOffered
    BY DEF Init, AnswersAreGenuine, AcknowledgedMeansOffered
<1> QED BY <1>1, <1>2, <1>3, <1>4 DEF IInv

-----------------------------------------------------------------------------
(* The cluster and GitLab *)

\* A response adds one answer about a request that is genuine, or none.
LEMMA AnsweredIsGenuine ==
    ASSUME TypeOK, NEW r \in Requests, Genuine(r), NEW code \in Codes
    PROVE  /\ \A a \in Answered(r, code) :
                /\ a.delivery = r.origin
                /\ a.attempt = r.attempt
                /\ a.code = code
                /\ r.origin # Stranger
           /\ Answered(r, code) \subseteq
                [delivery : Deliveries, attempt : 1..MaxAttempts, code : Codes]
BY StrangerIsNoDelivery, Bounds DEF Answered, Requests, Genuine

LEMMA ProcessStep ==
    ASSUME IInv, main \/ Rotate PROVE IInv'
<1> USE DEF IInv, main, Rotate, clusterVars, handlerVars, gitlabVars, outcomeVars
<1>1. TypeOK'
    <2>1. /\ secret' \in Tokens \cup {Empty}
          /\ token' \in Tokens \cup {Down}
        BY DEF TypeOK
    <2>2. rotations' \in 0..MaxRotations
        BY Bounds DEF TypeOK
    <2> QED BY <2>1, <2>2 DEF TypeOK
<1>2. RequestsAreGenuine' /\ SendersAreVerified'
    BY DEF RequestsAreGenuine, SendersAreVerified, Genuine
<1>3. DownIsIdle'
    BY TokensAreSecret DEF DownIsIdle, TypeOK
<1>4. /\ EventsAreGenuine' /\ RaisedAreRequested' /\ AnswersAreGenuine'
      /\ OnlyTheHookIsForwarded' /\ AcknowledgedMeansOffered'
    BY DEF EventsAreGenuine, RaisedAreRequested, AnswersAreGenuine, OnlyTheHookIsForwarded,
           AcknowledgedMeansOffered
<1> QED BY <1>1, <1>2, <1>3, <1>4

LEMMA KillStep ==
    ASSUME IInv, Kill PROVE IInv'
<1> USE DEF IInv, Kill, clusterVars, handlerVars, gitlabVars, outcomeVars
<1>1. \A a \in answers' : \/ a \in answers
                          \/ \E h \in Handlers : /\ pc[h] # "idle"
                                                 /\ a \in Answered(request[h], "broken")
    OBVIOUS
<1>2. ASSUME NEW h \in Handlers, pc[h] # "idle", NEW a \in Answered(request[h], "broken")
      PROVE  /\ a \in [delivery : Deliveries, attempt : 1..MaxAttempts, code : Codes]
             /\ a.code = "broken"
             /\ raised[a.delivery] # NoEvent
    <2>1. request[h] \in Requests /\ Genuine(request[h]) /\ "broken" \in Codes
        BY <1>2 DEF TypeOK, RequestsAreGenuine, Codes
    <2> QED BY <1>2, <2>1, AnsweredIsGenuine DEF Genuine
<1>3. TypeOK'
    BY <1>1, <1>2 DEF TypeOK
<1>4. RequestsAreGenuine' /\ SendersAreVerified' /\ DownIsIdle'
    BY DEF RequestsAreGenuine, SendersAreVerified, DownIsIdle
<1>5. EventsAreGenuine' /\ RaisedAreRequested' /\ OnlyTheHookIsForwarded'
    BY DEF EventsAreGenuine, RaisedAreRequested, OnlyTheHookIsForwarded
<1>6. AnswersAreGenuine' /\ AcknowledgedMeansOffered'
    BY <1>1, <1>2 DEF AnswersAreGenuine, AcknowledgedMeansOffered
<1> QED BY <1>3, <1>4, <1>5, <1>6

LEMMA CreateWebhookStep ==
    ASSUME IInv, CreateWebhook PROVE IInv'
<1> USE DEF IInv, CreateWebhook, clusterVars, handlerVars, gitlabVars, outcomeVars
<1>1. TypeOK'
    BY HooksAreEvents DEF TypeOK
<1>2. RequestsAreGenuine' /\ SendersAreVerified' /\ DownIsIdle'
    BY DEF RequestsAreGenuine, SendersAreVerified, Genuine, DownIsIdle
<1>3. /\ EventsAreGenuine' /\ RaisedAreRequested' /\ AnswersAreGenuine'
      /\ OnlyTheHookIsForwarded' /\ AcknowledgedMeansOffered'
    BY DEF EventsAreGenuine, RaisedAreRequested, AnswersAreGenuine, OnlyTheHookIsForwarded,
           AcknowledgedMeansOffered
<1> QED BY <1>1, <1>2, <1>3

\* Raising an event changes nothing that is already being delivered.
LEMMA RaiseStep ==
    ASSUME IInv, NEW d \in Deliveries, Raise(d) PROVE IInv'
<1> USE DEF IInv, clusterVars, handlerVars, gitlabVars, outcomeVars
<1>1. PICK e \in hook.options, body \in {"noURL", "url"} :
        raised' = [raised EXCEPT ![d] = [event |-> HeaderOf[e], body |-> body]]
    BY DEF Raise
<1>2. e \in HookOptions(eventTypes) /\ HeaderOf[e] \in Events
    BY HooksAreEvents DEF Raise, RaisedAreRequested
<1>3. raised[d] = NoEvent /\ \A c \in Deliveries \ {d} : raised'[c] = raised[c]
    BY <1>1 DEF Raise, TypeOK
<1>4. TypeOK'
    BY <1>1, <1>2 DEF TypeOK, Raise, Happenings, Bodies
<1>5. RequestsAreGenuine'
    <2> SUFFICES ASSUME NEW h \in Handlers, pc[h] # "idle" PROVE Genuine(request[h])'
        BY DEF RequestsAreGenuine, Raise
    <2>1. Genuine(request[h]) /\ request[h].origin \in Deliveries \cup {Stranger}
        BY DEF RequestsAreGenuine, TypeOK, Requests
    <2> QED BY <1>3, <2>1 DEF Genuine, Raise
<1>6. SendersAreVerified' /\ DownIsIdle' /\ OnlyTheHookIsForwarded'
    BY DEF SendersAreVerified, DownIsIdle, OnlyTheHookIsForwarded, Raise
<1>7. EventsAreGenuine'
    BY <1>3 DEF EventsAreGenuine, Raise
<1>8. RaisedAreRequested'
    BY <1>1, <1>2, <1>3 DEF RaisedAreRequested, Raise, TypeOK
<1>9. AnswersAreGenuine' /\ AcknowledgedMeansOffered'
    BY <1>3 DEF AnswersAreGenuine, AcknowledgedMeansOffered, Raise, TypeOK
<1> QED BY <1>4, <1>5, <1>6, <1>7, <1>8, <1>9

\* GitLab's next attempt at a delivery has a number of its own.
LEMMA NextAttempt ==
    ASSUME TypeOK, NEW d \in Deliveries, Attempt(d)
    PROVE  /\ raised[d] \in Happenings
           /\ attempts[d] + 1 \in 1..MaxAttempts
           /\ attempts' \in [Deliveries -> 0..MaxAttempts]
<1>1. attempts[d] \in 0..MaxAttempts /\ raised[d] \in Happenings \cup {NoEvent}
    BY DEF TypeOK
<1>2. raised[d] # NoEvent /\ attempts[d] < MaxAttempts
    BY DEF Attempt
<1>3. attempts' = [attempts EXCEPT ![d] = attempts[d] + 1]
    BY DEF Attempt
<1>4. attempts[d] + 1 \in 1..MaxAttempts /\ attempts[d] + 1 \in 0..MaxAttempts
    BY <1>1, <1>2, Bounds
<1>5. attempts' \in [Deliveries -> 0..MaxAttempts]
    BY <1>3, <1>4 DEF TypeOK
<1> QED BY <1>1, <1>2, <1>4, <1>5

LEMMA DeliverInVainStep ==
    ASSUME IInv, NEW d \in Deliveries, DeliverInVain(d) PROVE IInv'
<1> USE DEF IInv, clusterVars, handlerVars, gitlabVars, outcomeVars
<1>1. attempts[d] + 1 \in 1..MaxAttempts /\ attempts' \in [Deliveries -> 0..MaxAttempts]
    BY NextAttempt DEF DeliverInVain
<1> USE DEF DeliverInVain, Attempt
<1>2. TypeOK'
    <2>1. answers' \subseteq [delivery : Deliveries, attempt : 1..MaxAttempts, code : Codes]
        BY <1>1 DEF TypeOK, Codes
    <2> QED BY <1>1, <2>1 DEF TypeOK
<1>3. RequestsAreGenuine' /\ SendersAreVerified' /\ DownIsIdle'
    BY DEF RequestsAreGenuine, SendersAreVerified, Genuine, DownIsIdle
<1>4. EventsAreGenuine' /\ RaisedAreRequested' /\ OnlyTheHookIsForwarded'
    BY DEF EventsAreGenuine, RaisedAreRequested, OnlyTheHookIsForwarded
<1>5. AnswersAreGenuine' /\ AcknowledgedMeansOffered'
    BY DEF AnswersAreGenuine, AcknowledgedMeansOffered
<1> QED BY <1>2, <1>3, <1>4, <1>5

-----------------------------------------------------------------------------
(* Requests and the handler *)

\* A handler takes on a request that is genuine.
LEMMA ServeStep ==
    ASSUME IInv, NEW h \in Handlers, NEW r \in Requests, Genuine(r), Serve(h, r),
           attempts' \in [Deliveries -> 0..MaxAttempts],
           UNCHANGED <<clusterVars, token, hook, raised, outcomeVars>>
    PROVE  IInv'
<1> USE DEF IInv, Serve, clusterVars, outcomeVars
<1>1. /\ pc' \in [Handlers -> {"idle", "parse", "send", "sent"}]
      /\ request' \in [Handlers -> Requests \cup {NoRequest}]
      /\ \A g \in Handlers \ {h} : pc'[g] = pc[g] /\ request'[g] = request[g]
      /\ pc'[h] = "parse" /\ request'[h] = r
    BY DEF TypeOK
<1>2. TypeOK'
    BY <1>1 DEF TypeOK
<1>3. RequestsAreGenuine'
    <2> SUFFICES ASSUME NEW g \in Handlers, pc'[g] # "idle" PROVE Genuine(request[g])'
        BY DEF RequestsAreGenuine
    <2>1. Genuine(request'[g])
        BY <1>1 DEF RequestsAreGenuine
    <2> QED BY <2>1 DEF Genuine
<1>4. SendersAreVerified'
    BY <1>1 DEF SendersAreVerified
<1>5. DownIsIdle'
    BY <1>1 DEF DownIsIdle
<1>6. /\ EventsAreGenuine' /\ RaisedAreRequested' /\ AnswersAreGenuine'
      /\ OnlyTheHookIsForwarded' /\ AcknowledgedMeansOffered'
    BY DEF EventsAreGenuine, RaisedAreRequested, AnswersAreGenuine, OnlyTheHookIsForwarded,
           AcknowledgedMeansOffered
<1> QED BY <1>2, <1>3, <1>4, <1>5, <1>6

LEMMA DeliverStep ==
    ASSUME IInv, NEW h \in Handlers, NEW d \in Deliveries, Deliver(h, d) PROVE IInv'
<1> DEFINE r == [origin |-> d, attempt |-> attempts[d] + 1, method |-> "POST",
                 token |-> hook.token, event |-> raised[d].event, body |-> raised[d].body]
<1>1. Serve(h, r) /\ Attempt(d) /\ UNCHANGED answers
    BY DEF Deliver
<1>2. TypeOK
    BY DEF IInv
<1>3. attempts[d] + 1 \in 1..MaxAttempts /\ attempts' \in [Deliveries -> 0..MaxAttempts]
      /\ raised[d] \in Happenings /\ raised[d] # NoEvent
    BY <1>1, <1>2, NextAttempt DEF Attempt
<1>4. hook.token \in Tokens \cup {Empty}
    BY <1>2, <1>3 DEF TypeOK, IInv, RaisedAreRequested
<1>5. r \in Requests
    BY <1>3, <1>4 DEF Requests, Happenings
<1>6. Genuine(r)
    BY <1>3, StrangerIsNoDelivery DEF Genuine
<1>7. UNCHANGED <<clusterVars, token, hook, raised, outcomeVars>>
    BY <1>1 DEF Attempt, outcomeVars
<1> QED BY <1>1, <1>3, <1>5, <1>6, <1>7, ServeStep

LEMMA OtherRequestStep ==
    ASSUME IInv, NEW h \in Handlers, OtherRequest(h) PROVE IInv'
<1>1. PICK e \in Headers, m \in {"GET", "POST"}, b \in {"empty", "url"} :
        Serve(h, [origin |-> Stranger, attempt |-> 0, method |-> m, token |-> Other,
                  event |-> e, body |-> b])
    BY DEF OtherRequest
<1> DEFINE r == [origin |-> Stranger, attempt |-> 0, method |-> m, token |-> Other,
                 event |-> e, body |-> b]
<1>2. r \in Requests
    BY Bounds DEF Requests, Events, Bodies
<1>3. Genuine(r)
    BY DEF Genuine
<1>4. /\ attempts' \in [Deliveries -> 0..MaxAttempts]
      /\ UNCHANGED <<clusterVars, token, hook, raised, outcomeVars>>
    BY DEF OtherRequest, gitlabVars, IInv, TypeOK
<1> QED BY <1>1, <1>2, <1>3, <1>4, ServeStep

\* A handler ends with an answer; 200 needs an excuse or an offer.
LEMMA RespondStep ==
    ASSUME IInv, NEW h \in Handlers, pc[h] # "idle", NEW code \in Codes, Respond(h, code),
           /\ code = "ok"
           /\ request[h].event \in validEvents
           /\ request[h].body = "url"
           => request[h].origin = Stranger
              \/ <<request[h].origin, request[h].attempt>> \in offered
    PROVE  IInv'
<1> USE DEF IInv, Respond, clusterVars, gitlabVars
<1>1. request[h] \in Requests /\ Genuine(request[h])
    BY DEF TypeOK, RequestsAreGenuine
<1>2. /\ pc' \in [Handlers -> {"idle", "parse", "send", "sent"}]
      /\ request' \in [Handlers -> Requests \cup {NoRequest}]
      /\ \A g \in Handlers \ {h} : pc'[g] = pc[g] /\ request'[g] = request[g]
      /\ pc'[h] = "idle"
    BY DEF TypeOK
<1>3. \A a \in answers' : a \in answers \/ a \in Answered(request[h], code)
    OBVIOUS
<1>4. ASSUME NEW a \in Answered(request[h], code)
      PROVE  /\ a \in [delivery : Deliveries, attempt : 1..MaxAttempts, code : Codes]
             /\ a.code = code /\ a.attempt = request[h].attempt
             /\ a.delivery = request[h].origin /\ a.delivery # Stranger
             /\ raised[a.delivery] # NoEvent
             /\ raised[a.delivery].event = request[h].event
             /\ raised[a.delivery].body = request[h].body
    BY <1>1, AnsweredIsGenuine DEF Genuine
<1>5. TypeOK'
    BY <1>2, <1>3, <1>4 DEF TypeOK
<1>6. RequestsAreGenuine'
    BY <1>2 DEF RequestsAreGenuine, Genuine
<1>7. SendersAreVerified' /\ DownIsIdle'
    BY <1>2 DEF SendersAreVerified, DownIsIdle
<1>8. EventsAreGenuine' /\ RaisedAreRequested' /\ OnlyTheHookIsForwarded'
    BY DEF EventsAreGenuine, RaisedAreRequested, OnlyTheHookIsForwarded
<1>9. AnswersAreGenuine' /\ AcknowledgedMeansOffered'
    BY <1>3, <1>4 DEF AnswersAreGenuine, AcknowledgedMeansOffered
<1> QED BY <1>5, <1>6, <1>7, <1>8, <1>9

LEMMA NotFoundStep ==
    ASSUME IInv, NEW h \in Handlers, NotFound(h) PROVE IInv'
BY RespondStep DEF NotFound, Codes

\* A stranger's request is not verified: it does not have the process's secret.
LEMMA StrangersAreNotVerified ==
    ASSUME IInv, NEW h \in Handlers, pc[h] # "idle", Verified(request[h])
    PROVE  request[h].origin # Stranger
<1>1. token \in Tokens
    BY DEF IInv, TypeOK, DownIsIdle
<1>2. request[h].token = token
    BY <1>1, TokensAreSecret DEF Verified
<1> QED BY <1>1, <1>2, TokensAreSecret DEF IInv, RequestsAreGenuine, Genuine

LEMMA HandleEventStep ==
    ASSUME IInv, NEW h \in Handlers, HandleEvent(h) PROVE IInv'
<1> DEFINE r == request[h]
           source == sourceFromGitLabEvent(r.event, Parse(r))
<1>1. pc[h] = "parse" /\ r \in Requests /\ r.body \in Bodies
    BY DEF HandleEvent, IInv, TypeOK, Requests
<1>2. CASE source = "panic" /\ Respond(h, "broken")
    BY <1>1, <1>2, RespondStep DEF Codes
<1>3. CASE source = "none" /\ Respond(h, "ok")
    <2>1. ~(r.event \in validEvents /\ r.body = "url")
        BY <1>3 DEF sourceFromGitLabEvent, Parse
    <2> QED BY <1>1, <1>3, <2>1, RespondStep DEF Codes
<1>4. CASE /\ source = "source"
           /\ pc' = [pc EXCEPT ![h] = "send"]
           /\ offered' = offered \cup {<<r.origin, r.attempt>>}
           /\ UNCHANGED <<clusterVars, token, gitlabVars, request, answers, received>>
    <2> USE DEF IInv, clusterVars, gitlabVars
    <2>1. r.origin # Stranger
        <3>1. Verified(r)
            BY <1>4 DEF sourceFromGitLabEvent, Parse
        <3> QED BY <1>1, <3>1, StrangersAreNotVerified
    <2>2. /\ pc' \in [Handlers -> {"idle", "parse", "send", "sent"}]
          /\ \A g \in Handlers \ {h} : pc'[g] = pc[g]
        BY <1>4 DEF TypeOK
    <2>3. TypeOK'
        <3>1. offered' \subseteq Attempts
            BY <1>1, <1>4 DEF TypeOK, Attempts, Requests
        <3> QED BY <1>1, <1>4, <2>2, <3>1 DEF TypeOK
    <2>4. RequestsAreGenuine' /\ DownIsIdle'
        BY <1>1, <1>4, <2>2 DEF RequestsAreGenuine, Genuine, DownIsIdle
    <2>5. SendersAreVerified'
        BY <1>4, <2>1, <2>2 DEF SendersAreVerified
    <2>6. /\ EventsAreGenuine' /\ RaisedAreRequested' /\ AnswersAreGenuine'
          /\ OnlyTheHookIsForwarded' /\ AcknowledgedMeansOffered'
        BY <1>4 DEF EventsAreGenuine, RaisedAreRequested, AnswersAreGenuine,
                    OnlyTheHookIsForwarded, AcknowledgedMeansOffered
    <2> QED BY <2>3, <2>4, <2>5, <2>6
<1> QED BY <1>2, <1>3, <1>4 DEF HandleEvent

LEMMA AppendKeepsType ==
    ASSUME NEW S, NEW s \in Seq(S), NEW x \in S PROVE Append(s, x) \in Seq(S)
OBVIOUS

LEMMA SinkTakesStep ==
    ASSUME IInv, NEW h \in Handlers, SinkTakes(h) PROVE IInv'
<1> USE DEF IInv, SinkTakes, clusterVars, gitlabVars
<1> DEFINE r == request[h]
           e == r.event
<1>1. /\ pc[h] = "send" /\ r \in Requests /\ Genuine(r)
      /\ r.origin \in Deliveries /\ <<r.origin, r.attempt>> \in offered
    BY DEF TypeOK, RequestsAreGenuine, SendersAreVerified, Requests
<1>2. /\ pc' \in [Handlers -> {"idle", "parse", "send", "sent"}]
      /\ \A g \in Handlers \ {h} : pc'[g] = pc[g]
    BY DEF TypeOK
<1>3. e \in Events
    BY <1>1 DEF Requests
<1>4. received \in [Deliveries \cup {Stranger} -> Seq(Events)]
    BY DEF TypeOK
<1>5. received' = [received EXCEPT ![r.origin] = Append(@, e)]
    OBVIOUS
<1>6. TypeOK'
    <2>1. Append(received[r.origin], e) \in Seq(Events)
        <3>1. received[r.origin] \in Seq(Events)
            BY <1>1, <1>4
        <3> QED BY <1>3, <3>1, AppendKeepsType
    <2>2. received' \in [Deliveries \cup {Stranger} -> Seq(Events)]
        BY <1>4, <1>5, <2>1
    <2> QED BY <1>1, <1>2, <2>2 DEF TypeOK
<1>7. RequestsAreGenuine' /\ DownIsIdle' /\ SendersAreVerified'
    BY <1>1, <1>2 DEF RequestsAreGenuine, Genuine, DownIsIdle, SendersAreVerified
<1>8. EventsAreGenuine'
    <2> SUFFICES ASSUME NEW d \in Deliveries, NEW i \in 1..Len(received'[d])
                 PROVE  /\ raised[d] # NoEvent
                        /\ received'[d][i] = raised[d].event
        BY DEF EventsAreGenuine
    <2>1. CASE d # r.origin
        BY <1>4, <1>5, <2>1 DEF EventsAreGenuine
    <2>2. CASE d = r.origin
        <3>1. /\ received'[d] = Append(received[d], e)
              /\ received[d] \in Seq(Events)
            BY <1>4, <1>5, <2>2
        <3>2. CASE i \in 1..Len(received[d])
            <4>1. received'[d][i] = received[d][i]
                BY <3>1, <3>2
            <4> QED BY <3>2, <4>1 DEF EventsAreGenuine
        <3>3. CASE i = Len(received[d]) + 1
            <4>1. received'[d][i] = e
                BY <3>1, <3>3
            <4>2. d # Stranger
                BY StrangerIsNoDelivery
            <4> QED BY <1>1, <2>2, <4>1, <4>2 DEF Genuine
        <3> QED BY <3>1, <3>2, <3>3
    <2> QED BY <2>1, <2>2
<1>9. OnlyTheHookIsForwarded'
    BY <1>1, <1>4, <1>5, StrangerIsNoDelivery DEF OnlyTheHookIsForwarded
<1>10. RaisedAreRequested' /\ AnswersAreGenuine' /\ AcknowledgedMeansOffered'
    BY DEF RaisedAreRequested, AnswersAreGenuine, AcknowledgedMeansOffered
<1> QED BY <1>6, <1>7, <1>8, <1>9, <1>10

LEMMA SendReturnsStep ==
    ASSUME IInv, NEW h \in Handlers, SendReturns(h) PROVE IInv'
BY RespondStep DEF SendReturns, Codes, IInv, SendersAreVerified

LEMMA IndInvNext == IInv /\ [Next]_vars => IInv'
<1> SUFFICES ASSUME IInv, [Next]_vars PROVE IInv'
    OBVIOUS
<1>1. CASE UNCHANGED vars
    BY <1>1 DEF vars, clusterVars, handlerVars, gitlabVars, outcomeVars, IInv, TypeOK,
       RequestsAreGenuine, Genuine, SendersAreVerified, EventsAreGenuine, RaisedAreRequested,
       AnswersAreGenuine, DownIsIdle, OnlyTheHookIsForwarded, AcknowledgedMeansOffered
<1>2. CASE Next
    BY <1>2, ProcessStep, KillStep, CreateWebhookStep, RaiseStep, DeliverInVainStep,
       OtherRequestStep, DeliverStep, NotFoundStep, HandleEventStep, SinkTakesStep,
       SendReturnsStep DEF Next, Handle
<1> QED BY <1>1, <1>2

LEMMA Invariance == Spec => []IInv
BY IndInvInit, IndInvNext, PTL DEF Spec

-----------------------------------------------------------------------------
(* Counting *)

\* The handlers that may yet give the sink an event of d.
InFlight(d) ==
    {h \in Handlers : pc[h] \in {"parse", "send"} /\ request[h].origin = d}

\* What the sink has of d and what is in flight was attempted, each on its own.
CountedFor(d) ==
    /\ IsFiniteSet(InFlight(d))
    /\ Len(received[d]) + Cardinality(InFlight(d)) <= attempts[d]

Counted == \A d \in Deliveries : CountedFor(d)

LEMMA CountedInit == Init => Counted
<1> SUFFICES ASSUME Init, NEW d \in Deliveries PROVE CountedFor(d)
    BY DEF Counted
<1>1. InFlight(d) = {}
    BY DEF Init, InFlight
<1>2. Len(received[d]) = 0 /\ attempts[d] = 0
    BY DEF Init
<1> QED BY <1>1, <1>2, FS_EmptySet DEF CountedFor

\* Fewer in flight, nothing new at the sink.
LEMMA FewerInFlight ==
    ASSUME TypeOK, TypeOK', NEW d \in Deliveries, CountedFor(d),
           InFlight(d)' \subseteq InFlight(d), received'[d] = received[d],
           attempts'[d] >= attempts[d]
    PROVE  CountedFor(d)'
<1>1. /\ IsFiniteSet(InFlight(d)')
      /\ Cardinality(InFlight(d)') <= Cardinality(InFlight(d))
      /\ Cardinality(InFlight(d)') \in Nat /\ Cardinality(InFlight(d)) \in Nat
    BY FS_Subset, FS_CardinalityType DEF CountedFor
<1>2. Len(received[d]) \in Nat /\ attempts[d] \in Nat /\ attempts'[d] \in Nat
    BY Bounds DEF TypeOK
<1> QED BY <1>1, <1>2 DEF CountedFor

LEMMA DeliverCounts ==
    ASSUME TypeOK, TypeOK', Counted, NEW h \in Handlers, NEW c \in Deliveries, Deliver(h, c)
    PROVE  Counted'
<1> SUFFICES ASSUME NEW d \in Deliveries PROVE CountedFor(d)'
    BY DEF Counted
<1>1. /\ pc[h] = "idle" /\ pc'[h] = "parse" /\ request'[h].origin = c
      /\ \A g \in Handlers \ {h} : pc'[g] = pc[g] /\ request'[g] = request[g]
      /\ attempts' = [attempts EXCEPT ![c] = @ + 1]
      /\ UNCHANGED received
    BY DEF Deliver, Serve, Attempt, TypeOK
<1>2. /\ CountedFor(d) /\ attempts[d] \in Nat /\ attempts'[d] \in Nat
      /\ Len(received[d]) \in Nat
    BY Bounds DEF Counted, TypeOK
<1>3. CASE d # c
    <2>1. InFlight(d)' \subseteq InFlight(d)
        BY <1>1, <1>3 DEF InFlight
    <2>2. attempts'[d] = attempts[d]
        BY <1>1, <1>3 DEF TypeOK
    <2> QED BY <1>1, <1>2, <2>1, <2>2, FewerInFlight
<1>4. CASE d = c
    <2>1. InFlight(d)' = InFlight(d) \cup {h} /\ h \notin InFlight(d)
        BY <1>1, <1>4 DEF InFlight
    <2>2. attempts'[d] = attempts[d] + 1
        BY <1>1, <1>4 DEF TypeOK
    <2>3. /\ IsFiniteSet(InFlight(d)')
          /\ Cardinality(InFlight(d)') = Cardinality(InFlight(d)) + 1
          /\ Cardinality(InFlight(d)) \in Nat
        BY <1>2, <2>1, FS_AddElement, FS_CardinalityType DEF CountedFor
    <2> QED BY <1>1, <1>2, <2>2, <2>3 DEF CountedFor
<1> QED BY <1>3, <1>4

LEMMA SinkTakesCounts ==
    ASSUME TypeOK, TypeOK', Counted, NEW h \in Handlers, SinkTakes(h)
    PROVE  Counted'
<1> SUFFICES ASSUME NEW d \in Deliveries PROVE CountedFor(d)'
    BY DEF Counted
<1> DEFINE e == request[h].event
<1>1. /\ pc[h] = "send" /\ pc'[h] = "sent"
      /\ \A g \in Handlers \ {h} : pc'[g] = pc[g]
      /\ received' = [received EXCEPT ![request[h].origin] = Append(@, e)]
      /\ UNCHANGED <<request, attempts>>
    BY DEF SinkTakes, TypeOK, gitlabVars
<1>2. /\ CountedFor(d) /\ attempts[d] \in Nat
      /\ received \in [Deliveries \cup {Stranger} -> Seq(Events)]
    <2>1. CountedFor(d)
        BY DEF Counted
    <2>2. attempts[d] \in Nat
        BY Bounds DEF TypeOK
    <2> QED BY <2>1, <2>2 DEF TypeOK
<1>3. CASE request[h].origin # d
    <2>1. InFlight(d)' \subseteq InFlight(d)
        BY <1>1, <1>3 DEF InFlight
    <2>2. received'[d] = received[d]
        BY <1>1, <1>2, <1>3
    <2>3. attempts'[d] >= attempts[d]
        BY <1>1, <1>2
    <2> HIDE DEF e
    <2> QED BY <1>2, <2>1, <2>2, <2>3, FewerInFlight
<1>4. CASE request[h].origin = d
    <2>1. InFlight(d)' = InFlight(d) \ {h} /\ h \in InFlight(d)
        BY <1>1, <1>4 DEF InFlight
    <2>2. Len(received'[d]) = Len(received[d]) + 1 /\ Len(received[d]) \in Nat
        <3>1. received'[d] = Append(received[d], e)
            BY <1>1, <1>2, <1>4
        <3>2. received[d] \in Seq(Events)
            BY <1>2
        <3> QED BY <3>1, <3>2
    <2>3. /\ IsFiniteSet(InFlight(d)')
          /\ Cardinality(InFlight(d)') = Cardinality(InFlight(d)) - 1
          /\ Cardinality(InFlight(d)) \in Nat
        BY <1>2, <2>1, FS_RemoveElement, FS_CardinalityType DEF CountedFor
    <2> QED BY <1>1, <1>2, <2>2, <2>3 DEF CountedFor
<1> QED BY <1>3, <1>4

LEMMA CountedNext == IInv /\ IInv' /\ Counted /\ [Next]_vars => Counted'
<1> SUFFICES ASSUME IInv, IInv', Counted, [Next]_vars PROVE Counted'
    OBVIOUS
<1> USE DEF IInv, clusterVars, handlerVars, gitlabVars, outcomeVars
<1>1. CASE \E h \in Handlers : SinkTakes(h) \/ \E d \in Deliveries : Deliver(h, d)
    BY <1>1, DeliverCounts, SinkTakesCounts
<1>2. ASSUME \/ main \/ Kill \/ Rotate \/ CreateWebhook \/ UNCHANGED vars
             \/ \E d \in Deliveries : Raise(d)
             \/ \E h \in Handlers : NotFound(h) \/ HandleEvent(h) \/ SendReturns(h)
             \/ \E h \in Handlers : OtherRequest(h)
             \/ \E d \in Deliveries : DeliverInVain(d),
             NEW d \in Deliveries
      PROVE  InFlight(d)' \subseteq InFlight(d) /\ attempts'[d] >= attempts[d]
             /\ UNCHANGED received
    <2>1. attempts \in [Deliveries -> 0..MaxAttempts] /\ attempts[d] \in Nat
        BY Bounds DEF TypeOK
    <2>2. CASE main \/ Rotate \/ CreateWebhook \/ UNCHANGED vars \/ \E c \in Deliveries : Raise(c)
        BY <2>1, <2>2 DEF main, Rotate, CreateWebhook, Raise, vars, InFlight
    <2>3. CASE Kill
        BY <2>1, <2>3 DEF Kill, InFlight
    <2>4. ASSUME NEW h \in Handlers, NotFound(h) \/ HandleEvent(h) \/ SendReturns(h)
          PROVE  InFlight(d)' \subseteq InFlight(d) /\ UNCHANGED <<attempts, received>>
        BY <2>4 DEF NotFound, HandleEvent, SendReturns, Respond, InFlight, TypeOK
    <2>5. ASSUME NEW h \in Handlers, OtherRequest(h)
          PROVE  InFlight(d)' \subseteq InFlight(d) /\ UNCHANGED <<attempts, received>>
        BY <2>5, StrangerIsNoDelivery DEF OtherRequest, Serve, InFlight, TypeOK
    <2>6. ASSUME NEW c \in Deliveries, DeliverInVain(c)
          PROVE  InFlight(d)' \subseteq InFlight(d) /\ attempts'[d] >= attempts[d]
                 /\ UNCHANGED received
        BY <2>1, <2>6 DEF DeliverInVain, Attempt, InFlight
    <2> QED BY <1>2, <2>1, <2>2, <2>3, <2>4, <2>5, <2>6
<1>3. CASE ~\E h \in Handlers : SinkTakes(h) \/ \E d \in Deliveries : Deliver(h, d)
    BY <1>2, <1>3, FewerInFlight DEF Counted, Next, Handle
<1> QED BY <1>1, <1>3

-----------------------------------------------------------------------------
(* The theorems *)

\* TypeOK: what handlers, GitLab and sink hold, for any number of handlers,
\* deliveries, attempts and rotations of the secret.
THEOREM TypeCorrect == Spec => []TypeOK
BY Invariance, PTL DEF IInv

\* OnlyTheHookIsForwarded: a request without the secret never becomes an event at
\* the sink, although the handler goes on after Parse has rejected it.
THEOREM StrangersAreKeptOut == Spec => []OnlyTheHookIsForwarded
BY Invariance, PTL DEF IInv

\* AcknowledgedMeansOffered: the handler answers 200 to a supported event with a
\* source only after Send was called for it.
THEOREM NothingIsAcknowledgedUnseen == Spec => []AcknowledgedMeansOffered
BY Invariance, PTL DEF IInv

\* OnlyRequestedTypes: the switch of createWebhook, the options of Create, GitLab's
\* headers and what the adapter forwards agree on spec.eventTypes, whatever it is.
THEOREM TypesAreRequested == Spec => []OnlyRequestedTypes
<1>1. IInv => OnlyRequestedTypes
    <2> SUFFICES ASSUME IInv PROVE OnlyRequestedTypes
        OBVIOUS
    <2>1. HookOptions(eventTypes) = eventTypes \cap DOMAIN HeaderOf
        BY OptionsAreTypes
    <2> QED BY <2>1 DEF IInv, EventsAreGenuine, RaisedAreRequested, OnlyRequestedTypes
<1> QED BY <1>1, Invariance, PTL

\* AtMostOncePerAttempt: HandleEvent calls Send once and SendReturns never goes
\* back, so that a sink which takes events again and again was asked again.
THEOREM SinkTakesAtMostOnce == Spec => []AtMostOncePerAttempt
<1>1. Spec => []Counted
    BY Invariance, CountedInit, CountedNext, PTL DEF Spec
<1>2. IInv /\ Counted => AtMostOncePerAttempt
    <2> SUFFICES ASSUME IInv, Counted, NEW d \in Deliveries
                 PROVE  Len(received[d]) <= attempts[d]
        BY DEF AtMostOncePerAttempt
    <2>1. Len(received[d]) \in Nat /\ attempts[d] \in Nat
        BY Bounds DEF IInv, TypeOK
    <2>2. Cardinality(InFlight(d)) \in Nat
        BY FS_CardinalityType DEF Counted, CountedFor
    <2> QED BY <2>1, <2>2 DEF Counted, CountedFor
<1> QED BY <1>1, <1>2, Invariance, PTL
=============================================================================

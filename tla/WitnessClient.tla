----------------------------- MODULE WitnessClient -----------------------------
(***************************************************************************)
(* WitnessClient and verify_publish (src/src/validation/witness.rs): one   *)
(* witness, shared by several callers, and the task that stores what its   *)
(* connection brings.  The rumqttc clients are queues of requests that     *)
(* their event loops drain; the broker forwards what the publisher sends,  *)
(* in order, once it has processed the subscribe of the witness.  A        *)
(* message is told from its copies by its number, which the code cannot    *)
(* see: it compares topics and payloads.                                   *)
(***************************************************************************)
EXTENDS Naturals, Sequences, FiniteSets

CONSTANTS
    Callers,       \* tasks that share the witness and the publisher
    Verifiers,     \* those that call verify_publish
    Watchers,      \* those that call the other functions
    Topics, Payloads,
    PayloadsOf,    \* those a caller publishes and waits for
    QoS,           \* message::QoS, or a part of it
    Counts,        \* the counts callers wait for
    QueueLimit,    \* capacity of the queues of AsyncClient::new (10)
    MaxPublishes,  \* bound on the messages published
    MaxFaults      \* bound on the tasks that end and connections that break

ASSUME ConstantsAssumption ==
    /\ IsFiniteSet(Callers) /\ Verifiers \subseteq Callers /\ Watchers \subseteq Callers
    /\ PayloadsOf \in [Callers -> SUBSET Payloads]
    /\ QoS \subseteq {"AtMostOnce", "AtLeastOnce", "ExactlyOnce"}
    /\ Counts \subseteq Nat \ {0}
    /\ QueueLimit \in Nat \ {0} /\ MaxPublishes \in Nat /\ MaxFaults \in Nat

\* A message in the publisher's queue, with the level of QoS on the wire and the one
\* asked for, and what arrives at the witness of it; the other fields of
\* CapturedMessage are never compared.
Message == [id : 1..MaxPublishes, topic : Topics, payload : Payloads, qos : 0..2, asked : QoS]
CapturedMessage == [id : 1..MaxPublishes, topic : Topics, payload : Payloads]

\* What a wait looks for: so many messages of these topics with these payloads.
Want == [topics : SUBSET Topics, payloads : SUBSET Payloads, count : Nat]
Nothing == [topics |-> {}, payloads |-> {}, count |-> 0]

\* Points outside of a call: what the last one answered, ok before the first.
AtRest == {"ok", "err"}

\* In the loops that wait.
Waiting == {"looking", "checking", "sleeping"}

Points == AtRest \cup {"subscribing"} \cup {"publishing"} \cup Waiting

VARIABLES
    (* The witness. *)
    captured,           \* everything ever pushed on received_messages
    cleared,            \* how much of it the clears have removed
    subscribed_topics,
    looping,            \* its event loop runs
    requests,           \* the topics in the queue of its client
    (* The publisher and the broker. *)
    polled,             \* somebody polls the event loop of the publisher
    outbox,             \* messages in its queue
    published,          \* how many were put there
    breaks,             \* how often its connection broke
    routed,             \* topics the broker forwards to the witness
    transit,            \* messages on their way to it
    serving,            \* the broker is there
    (* The callers. *)
    pc,
    wanted,             \* what its call is about
    verifying,          \* the message of its verify_publish, 0 in other waits
    (* Not in the code, for the properties. *)
    since,              \* Len(captured) at its last clear
    woke                \* Len(captured) when it was about to look

witness == <<captured, cleared, subscribed_topics, looping, requests>>
network == <<polled, outbox, published, breaks, routed, transit, serving>>
callers == <<pc, wanted, verifying>>
history == <<since, woke>>
vars == <<witness, network, callers, history>>

TypeOK ==
    /\ captured \in Seq(CapturedMessage)
    /\ cleared \in 0..Len(captured)
    /\ subscribed_topics \subseteq Topics
    /\ looping \in BOOLEAN
    /\ requests \in Seq(Topics) /\ Len(requests) <= QueueLimit
    /\ polled \in BOOLEAN
    /\ outbox \in Seq(Message) /\ Len(outbox) <= QueueLimit
    /\ published \in 0..MaxPublishes /\ breaks \in 0..MaxFaults
    /\ routed \subseteq Topics
    /\ transit \in Seq(CapturedMessage)
    /\ serving \in BOOLEAN
    /\ pc \in [Callers -> Points]
    /\ wanted \in [Callers -> Want]
    /\ verifying \in [Callers -> 0..MaxPublishes]
    /\ since \in [Callers -> 0..Len(captured)]
    /\ woke \in [Callers -> 0..Len(captured)]

Init ==
    /\ captured = <<>> /\ cleared = 0
    /\ subscribed_topics = {}
    /\ looping = TRUE
    /\ requests = <<>>
    /\ polled = TRUE /\ outbox = <<>> /\ published = 0 /\ breaks = 0
    /\ routed = {} /\ transit = <<>> /\ serving = TRUE
    /\ pc = [c \in Callers |-> "ok"]
    /\ wanted = [c \in Callers |-> Nothing]
    /\ verifying = [c \in Callers |-> 0]
    /\ since = [c \in Callers |-> 0]
    /\ woke = [c \in Callers |-> 0]

--------------------------------------------------------------------------------
(* What is captured, and what a wait is satisfied with. *)

\* The places of what get_messages returned when n messages had been captured.
get_messages(n) == (cleared + 1)..n

Fits(w, k) == captured[k].topic \in w.topics /\ captured[k].payload \in w.payloads

\* What get_messages, or get_messages_for_topic, returned holds what w asks for.
Satisfied(w, n) == Cardinality({k \in get_messages(n) : Fits(w, k)}) >= w.count

wait_for_message_count == {[topics |-> Topics, payloads |-> Payloads, count |-> n] : n \in Counts}
wait_for_messages ==
    {[topics |-> {t}, payloads |-> Payloads, count |-> n] : t \in Topics, n \in Counts}
wait_for_payload(c) ==
    {[topics |-> {t}, payloads |-> {p}, count |-> 1] : t \in Topics, p \in PayloadsOf[c]}

Goto(c, p) == pc' = [pc EXCEPT ![c] = p]

\* A call about w begins.
Begin(c, p, w) ==
    /\ pc[c] \in AtRest
    /\ Goto(c, p)
    /\ wanted' = [wanted EXCEPT ![c] = w]
    /\ UNCHANGED verifying

\* It ends, and its locals are gone.
Return(c, answer) ==
    /\ Goto(c, answer)
    /\ wanted' = [wanted EXCEPT ![c] = Nothing]
    /\ verifying' = [verifying EXCEPT ![c] = 0]
    /\ since' = [since EXCEPT ![c] = 0]
    /\ woke' = [woke EXCEPT ![c] = 0]

--------------------------------------------------------------------------------
(* subscribe *)

Subscribe(c) ==
    /\ \E t \in Topics : Begin(c, "subscribing", [Nothing EXCEPT !.topics = {t}])
    /\ UNCHANGED <<witness, network, history>>

\* A request put in a queue of any length.
EnqueueUnbounded(c) ==
    /\ pc[c] = "subscribing"
    /\ looping
    /\ \E t \in wanted[c].topics : requests' = Append(requests, t)
    /\ subscribed_topics' = subscribed_topics \cup wanted[c].topics
    /\ Return(c, "ok")
    /\ UNCHANGED <<captured, cleared, looping, network>>

\* client.subscribe waits for room in the queue, not for the broker.
Enqueue(c) ==
    /\ pc[c] = "subscribing"
    /\ looping /\ Len(requests) < QueueLimit
    /\ \E t \in wanted[c].topics : requests' = Append(requests, t)
    /\ subscribed_topics' = subscribed_topics \cup wanted[c].topics
    /\ Return(c, "ok")
    /\ UNCHANGED <<captured, cleared, looping, network>>

\* It fails when the event loop, which holds the other end, is gone.
SubscribeFails(c) ==
    /\ pc[c] = "subscribing"
    /\ ~looping
    /\ Return(c, "err")
    /\ UNCHANGED <<witness, network>>

--------------------------------------------------------------------------------
(* clear, verify_message_received, and the loops that wait *)

Clear(c) ==
    /\ pc[c] \in AtRest
    /\ cleared' = Len(captured)
    /\ UNCHANGED <<captured, subscribed_topics, looping, requests, network, callers, history>>

\* One look, answered at once.
VerifyMessageReceived(c) ==
    /\ pc[c] \in AtRest
    /\ \E w \in wait_for_payload(c) :
        Goto(c, IF Satisfied(w, Len(captured)) THEN "ok" ELSE "err")
    /\ UNCHANGED <<witness, network, wanted, verifying, history>>

Wait(c) ==
    /\ \E w \in wait_for_message_count \cup wait_for_messages \cup wait_for_payload(c) :
        Begin(c, "looking", w)
    /\ woke' = [woke EXCEPT ![c] = Len(captured)]
    /\ UNCHANGED <<witness, network, since>>

\* The time is looked at first.
LookWithinTime(c) ==
    /\ pc[c] = "looking"
    /\ \/ Return(c, "err")
       \/ Satisfied(wanted[c], Len(captured)) /\ Return(c, "ok")
       \/ /\ ~Satisfied(wanted[c], Len(captured))
          /\ Goto(c, "checking") /\ UNCHANGED <<wanted, verifying, history>>
    /\ UNCHANGED <<witness, network>>

Look(c) ==
    /\ pc[c] = "looking"
    /\ \/ Satisfied(wanted[c], Len(captured)) /\ Return(c, "ok")
       \/ /\ ~Satisfied(wanted[c], Len(captured))
          /\ Goto(c, "checking") /\ UNCHANGED <<wanted, verifying, history>>
    /\ UNCHANGED <<witness, network>>

\* After the look, "start.elapsed() > timeout_duration" or not.
Sleep(c) ==
    /\ pc[c] = "checking"
    /\ Goto(c, "sleeping")
    /\ UNCHANGED <<witness, network, wanted, verifying, history>>

\* A loop that begins to count anew in every round.
TimesOutNever(c) == Sleep(c)

TimesOut(c) ==
    /\ pc[c] = "checking"
    /\ Return(c, "err")
    /\ UNCHANGED <<witness, network>>

Wake(c) ==
    /\ pc[c] = "sleeping"
    /\ Goto(c, "looking")
    /\ woke' = [woke EXCEPT ![c] = Len(captured)]
    /\ UNCHANGED <<witness, network, wanted, verifying, since>>

--------------------------------------------------------------------------------
(* verify_publish *)

\* The level of a QoS on the wire, two of them mixed up.
RumqttcQoSMixedUp(qos) ==
    CASE qos = "AtMostOnce" -> 1
      [] qos = "AtLeastOnce" -> 0
      [] qos = "ExactlyOnce" -> 2

RumqttcQoS(qos) ==
    CASE qos = "AtMostOnce" -> 0
      [] qos = "AtLeastOnce" -> 1
      [] qos = "ExactlyOnce" -> 2

\* A verification that trusts the record to be empty.
VerifyPublishWithoutClear(c) ==
    /\ published + Cardinality({d \in Callers : pc[d] = "publishing"}) < MaxPublishes
    /\ \E w \in wait_for_payload(c) : Begin(c, "publishing", w)
    /\ since' = [since EXCEPT ![c] = Len(captured)]
    /\ UNCHANGED <<witness, network, woke>>

\* It begins with a clear.
VerifyPublish(c) ==
    /\ published + Cardinality({d \in Callers : pc[d] = "publishing"}) < MaxPublishes
    /\ \E w \in wait_for_payload(c) : Begin(c, "publishing", w)
    /\ cleared' = Len(captured)
    /\ since' = [since EXCEPT ![c] = Len(captured)]
    /\ UNCHANGED <<captured, subscribed_topics, looping, requests, network, woke>>

\* publisher.publish waits for room in the queue, outside of the timeout; then
\* wait_for_payload begins, inside it.
Publish(c) ==
    /\ pc[c] = "publishing"
    /\ polled /\ Len(outbox) < QueueLimit
    /\ \E t \in wanted[c].topics, p \in wanted[c].payloads, qos \in QoS :
        outbox' = Append(outbox, [id |-> published + 1, topic |-> t, payload |-> p,
                                  qos |-> RumqttcQoS(qos), asked |-> qos])
    /\ published' = published + 1
    /\ verifying' = [verifying EXCEPT ![c] = published + 1]
    /\ woke' = [woke EXCEPT ![c] = Len(captured)]
    /\ Goto(c, "looking")
    /\ UNCHANGED <<witness, polled, breaks, routed, transit, serving,
                   wanted, since>>

PublishFails(c) ==
    /\ pc[c] = "publishing"
    /\ ~polled
    /\ Return(c, "err")
    /\ UNCHANGED <<witness, network>>

\* Both timeouts last five seconds and the outer one begins first: it may be
\* over in a sleep, and then ends the call without another look.
OuterTimeout(c) ==
    /\ pc[c] = "sleeping"
    /\ verifying[c] # 0
    /\ Return(c, "err")
    /\ UNCHANGED <<witness, network>>

--------------------------------------------------------------------------------
(* The task of the witness. *)

\* One more thing may fail.  (A witness that follows its broker is not counted.)
MayFail ==
    breaks + Cardinality({n \in 1..3 : \/ n = 1 /\ ~serving
                                       \/ n = 2 /\ ~polled
                                       \/ n = 3 /\ ~looping /\ serving}) < MaxFaults

\* It sends the next subscribe; the broker forwards the topic from then on.
SendSubscribe ==
    /\ looping /\ serving /\ requests # <<>>
    /\ requests' = Tail(requests)
    /\ routed' = routed \cup {Head(requests)}
    /\ UNCHANGED <<captured, cleared, subscribed_topics, looping, polled, outbox, published,
                   breaks, transit, serving, callers, history>>

\* It stores the next message.
Capture ==
    /\ looping /\ transit # <<>>
    /\ captured' = Append(captured, Head(transit))
    /\ transit' = Tail(transit)
    /\ UNCHANGED <<cleared, subscribed_topics, looping, requests, polled, outbox, published,
                   breaks, routed, serving, callers, history>>

\* Any error ends the task for good, which drops the connection and the queue.
EventLoopFails ==
    /\ looping
    /\ ~serving \/ MayFail
    /\ looping' = FALSE
    /\ requests' = <<>> /\ transit' = <<>> /\ routed' = {}
    /\ UNCHANGED <<captured, cleared, subscribed_topics, polled, outbox, published, breaks,
                   serving, callers, history>>

--------------------------------------------------------------------------------
(* The publisher's event loop, polled again after errors, and the broker. *)

Forward(m) ==
    transit' = IF m.topic \in routed
               THEN Append(transit, [id |-> m.id, topic |-> m.topic, payload |-> m.payload])
               ELSE transit

\* The first message of the queue arrives.
PublisherPolls ==
    /\ polled /\ serving /\ outbox # <<>>
    /\ Forward(Head(outbox))
    /\ outbox' = Tail(outbox)
    /\ UNCHANGED <<witness, polled, published, breaks, routed, serving, callers, history>>

\* The connection breaks under it: at QoS 0 the message is lost, at QoS 1 it has
\* arrived and is sent again, since the broker's answer has not.
PublisherReconnects ==
    /\ polled /\ serving /\ outbox # <<>> /\ MayFail
    /\ \/ Head(outbox).qos = 0 /\ outbox' = Tail(outbox) /\ UNCHANGED transit
       \/ Head(outbox).qos = 1 /\ Forward(Head(outbox)) /\ UNCHANGED outbox
    /\ breaks' = breaks + 1
    /\ UNCHANGED <<witness, polled, published, routed, serving, callers, history>>

PublisherDropped ==
    /\ polled /\ MayFail
    /\ polled' = FALSE
    /\ outbox' = <<>>
    /\ UNCHANGED <<witness, published, breaks, routed, transit, serving, callers, history>>

BrokerStops ==
    /\ serving /\ MayFail
    /\ serving' = FALSE
    /\ UNCHANGED <<witness, polled, outbox, published, breaks, routed, transit, callers, history>>

\* The steps of a call that has begun.
Continue(c) ==
    \/ Enqueue(c) \/ SubscribeFails(c)
    \/ Look(c) \/ TimesOut(c) \/ Sleep(c) \/ Wake(c)
    \/ Publish(c) \/ PublishFails(c) \/ OuterTimeout(c)

Call(c) ==
    \/ c \in Watchers /\ (Subscribe(c) \/ Clear(c) \/ VerifyMessageReceived(c) \/ Wait(c))
    \/ c \in Verifiers /\ VerifyPublish(c)

Next ==
    \/ \E c \in Callers : Call(c) \/ Continue(c)
    \/ SendSubscribe \/ Capture \/ EventLoopFails
    \/ PublisherPolls \/ PublisherReconnects \/ PublisherDropped \/ BrokerStops

Spec == Init /\ [][Next]_vars

\* Callers and event loops are tasks the runtime polls when they are woken, a
\* sleep ends, and a loop that comes to its check over and over finds the time
\* over.  When the broker is gone the event loop of the witness fails, after the
\* keep alive time at the latest (witness.rs:82).
FairSpec ==
    /\ Spec
    /\ WF_vars(SendSubscribe) /\ WF_vars(Capture) /\ WF_vars(PublisherPolls)
    /\ WF_vars(~serving /\ EventLoopFails)
    /\ \A c \in Callers : WF_vars(Continue(c)) /\ SF_vars(TimesOut(c))

--------------------------------------------------------------------------------
(* Properties. *)

\* verify_publish answers Ok only for a message captured after its own clear
\* (witness.rs:303, 319-326): one of its topic and payload that was on its way
\* when it began, or was published since, and none that it was to forget.
OkIsSinceClear ==
    [][\A c \in Callers : (verifying[c] # 0 /\ pc'[c] = "ok") =>
        \E k \in (since[c] + 1)..Len(captured) : Fits(wanted[c], k)]_vars

\* A wait that times out, nested timeouts or not, did not miss what was captured
\* before its last wake-up (witness.rs:181-195, 319-323), unless another caller
\* has cleared it.
TimeoutHasALook ==
    [][\A c \in Callers : (pc[c] \in Waiting /\ pc'[c] = "err") =>
        ~Satisfied(wanted[c], woke[c])]_vars

\* Every call ends as long as the broker is there, full queues or not, and the
\* waits do even when nothing ever arrives, the event loop being dead
\* (witness.rs:111-114, 187, 319).
EveryCallReturns ==
    \A c \in Callers :
        pc[c] \notin AtRest ~> pc[c] \in AtRest \/ (pc[c] = "publishing" /\ ~serving)

\* A message to be published at least once, to a topic the broker forwards by then,
\* is captured, whatever its connection does, unless one of the three tasks on its
\* way ends (witness.rs:92-110, 306-316).
PublishedIsCaptured ==
    \A id \in 1..MaxPublishes :
        (\E n \in DOMAIN outbox :
            outbox[n].id = id /\ outbox[n].asked # "AtMostOnce" /\ outbox[n].topic \in routed)
        ~> \/ \E n \in DOMAIN captured : captured[n].id = id
           \/ ~(looping /\ polled /\ serving)
================================================================================

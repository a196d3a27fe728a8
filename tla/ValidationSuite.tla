---------------------------- MODULE ValidationSuite ----------------------------
(***************************************************************************)
(* run_full_pubsub_validation_suite (src/src/validation/mod.rs) run by one *)
(* caller on a MockClient, while other callers hold clones of the client.  *)
(* The suite's subscribes and unsubscribes are the calls of MockClient;    *)
(* its publishes go to published_messages, the publishing half of the      *)
(* client, which only records them.                                        *)
(***************************************************************************)
EXTENDS MockClient

CONSTANTS
    Suite,                    \* the caller that runs the suite
    TestTopic, CycleTopic,    \* "test/topic" and "test/subscribe"
    TestChannel, CycleChannel,\* the channels of its two subscribing tests
    Capacity,                 \* the messages such a channel keeps for its receiver
    OthersRecorded            \* bound on the others' messages in the record

ASSUME SuiteAssumption ==
    /\ Suite \in Callers \ Deliverers
    /\ {TestTopic, CycleTopic} \subseteq Filters /\ TestTopic # CycleTopic
    /\ {TestChannel, CycleChannel} \subseteq Channels /\ TestChannel # CycleChannel
    /\ Topics \cup {CycleTopic} \subseteq Seq(STRING)
    /\ \A n \in DOMAIN CycleTopic : CycleTopic[n] \notin {"+", "#"}
    /\ Capacity \in Nat \ {0} /\ OthersRecorded \in Nat
    /\ MaxSubscribes + 1 < IdLimit   \* no subscribe reaches the end of the id type

VARIABLES
    published_messages,    \* who published what, since it was last cleared
    at,                    \* the step the suite is at, or how it ended
    published,             \* number of messages the suite has published
    sub_id                 \* the id its last subscribe returned

suite == <<published_messages, at, published, sub_id>>
suiteVars == <<vars, suite>>

SuiteChannels == {TestChannel, CycleChannel}

\* The steps that publish, with the step that follows each.
Publishes == [publish_qos0 |-> "publish_qos1", publish_qos1 |-> "publish_qos2",
              publish_qos2 |-> "publish_nowait", publish_nowait |-> "subscribe",
              cycle_publish |-> "cycle_receive"]

\* The steps that subscribe: with which filter and channel, and what follows.
Subscribes == [subscribe |-> [topic |-> TestTopic, tx |-> TestChannel, next |-> "check_id"],
               cycle_subscribe |-> [topic |-> CycleTopic, tx |-> CycleChannel,
                                    next |-> "cycle_publish"]]

Failures == {"bad_id", "mismatch", "timed_out", "closed", "lagged"}
Steps == DOMAIN Publishes \cup DOMAIN Subscribes \cup Failures \cup
         {"check_id", "unsubscribe", "cycle_receive", "cycle_unsubscribe", "cycle_return", "ok"}

SuiteInit ==
    /\ Init
    /\ published_messages = <<>>
    /\ at = "publish_qos0"
    /\ published = 0
    /\ sub_id = 0

--------------------------------------------------------------------------------
(* The publishing half of MockClient: each call is one push, and a clear. *)

\* The newest first.
PublishByInFront(c, n) ==
    published_messages' = <<[by |-> c, number |-> n]>> \o published_messages

PublishBy(c, n) ==
    published_messages' = Append(published_messages, [by |-> c, number |-> n])

\* Messages of the other callers in the record.
RecordedOfOthers == {n \in DOMAIN published_messages : published_messages[n].by # Suite}

\* Another caller publishes or clears the record.
OthersPublish ==
    /\ \E c \in Callers \ {Suite} :
        \/ Cardinality(RecordedOfOthers) < OthersRecorded /\ PublishBy(c, 1)
        \/ published_messages # <<>> /\ published_messages' = <<>>
    /\ UNCHANGED <<vars, at, published, sub_id>>

\* A publish that may be tried again although it succeeded.
SuitePublishesAgain ==
    /\ at \in DOMAIN Publishes
    /\ PublishBy(Suite, published + 1)
    /\ published' = published + 1
    /\ at' \in {at, Publishes[at]}
    /\ UNCHANGED <<vars, sub_id>>

\* MockClient::publish always answers Ok, and gives the message to no subscriber.
SuitePublishes ==
    /\ at \in DOMAIN Publishes
    /\ PublishBy(Suite, published + 1)
    /\ published' = published + 1
    /\ at' = Publishes[at]
    /\ UNCHANGED <<vars, sub_id>>

--------------------------------------------------------------------------------
(* The subscribing tests. *)

\* A part of the call that is not its last step, with the suite's arguments.
SuiteSubscribes ==
    /\ at \in DOMAIN Subscribes
    /\ \/ LockToRegister(Suite)
       \/ /\ Register(Suite)
          /\ LET s == pushed'[Len(pushed')]
             IN  s.topic = Subscribes[at].topic /\ s.tx = Subscribes[at].tx
       \/ LockToReplay(Suite)
       \/ ReplayOne(Suite)
    /\ UNCHANGED suite

\* subscribe returns the id.
SuiteSubscribed ==
    /\ at \in DOMAIN Subscribes
    /\ ReplayDone(Suite)
    /\ sub_id' = pushed[subscription[Suite]].id
    /\ at' = Subscribes[at].next
    /\ UNCHANGED <<published_messages, published>>

\* test_subscribe looks at the id and returns, which drops the receiver of a
\* subscription that is still in the list.
CheckId ==
    /\ at = "check_id"
    /\ at' = IF sub_id <= 0 THEN "bad_id" ELSE "unsubscribe"
    /\ receivers' = receivers \ {TestChannel}
    /\ UNCHANGED <<client, callers, log, answers, published_messages, published, sub_id>>

SuiteUnsubscribesFrom(topic) ==
    /\ Unsubscribe(Suite)
    /\ subscriptions' = {i \in subscriptions : pushed[i].topic # topic}
    /\ UNCHANGED <<published_messages, published, sub_id>>

TestUnsubscribe ==
    at = "unsubscribe" /\ at' = "cycle_subscribe" /\ SuiteUnsubscribesFrom(TestTopic)

--------------------------------------------------------------------------------
(* test_subscribe_receive_unsubscribe after its publish. *)

\* The receiver given up with the first message, before the unsubscribe.
CycleReceivesAndHangsUp ==
    /\ at = "cycle_receive"
    /\ log[CycleChannel] # <<>>
    /\ at' = "cycle_unsubscribe"
    /\ receivers' = receivers \ {CycleChannel}
    /\ UNCHANGED <<client, callers, log, answers, published_messages, published, sub_id>>

\* The first message of the channel: its id and topic are compared, nothing else.
CycleReceives ==
    /\ at = "cycle_receive"
    /\ log[CycleChannel] # <<>> /\ Len(log[CycleChannel]) <= Capacity
    /\ LET first == Head(log[CycleChannel])
           expected == first.subscription_id = sub_id /\ first.message.topic = CycleTopic
       IN  \/ expected /\ at' = "cycle_unsubscribe" /\ UNCHANGED receivers
           \/ ~expected /\ at' = "mismatch" /\ receivers' = receivers \ {CycleChannel}
    /\ UNCHANGED <<client, callers, log, answers, published_messages, published, sub_id>>

\* Five seconds without a message, or the only sender dropped with its
\* subscription: Err, and the early return leaves the subscription behind.
CycleHearsNothing ==
    /\ at = "cycle_receive"
    /\ log[CycleChannel] = <<>>
    /\ at' = IF \E i \in subscriptions : pushed[i].tx = CycleChannel
             THEN "timed_out" ELSE "closed"
    /\ receivers' = receivers \ {CycleChannel}
    /\ UNCHANGED <<client, callers, log, answers, published_messages, published, sub_id>>

\* More messages than the channel keeps: recv answers Lagged, and again the early
\* return leaves the subscription behind.
CycleLags ==
    /\ at = "cycle_receive"
    /\ Len(log[CycleChannel]) > Capacity
    /\ at' = "lagged"
    /\ receivers' = receivers \ {CycleChannel}
    /\ UNCHANGED <<client, callers, log, answers, published_messages, published, sub_id>>

\* The unsubscribe that forgets nobody: the filter of another test.
CycleUnsubscribeElsewhere ==
    at = "cycle_unsubscribe" /\ at' = "cycle_return" /\ SuiteUnsubscribesFrom(TestTopic)

CycleUnsubscribe ==
    at = "cycle_unsubscribe" /\ at' = "cycle_return" /\ SuiteUnsubscribesFrom(CycleTopic)

CycleReturn ==
    /\ at = "cycle_return"
    /\ at' = "ok"
    /\ receivers' = receivers \ {CycleChannel}
    /\ UNCHANGED <<client, callers, log, answers, published_messages, published, sub_id>>

--------------------------------------------------------------------------------
SuiteStep ==
    \/ SuitePublishes \/ SuiteSubscribes \/ SuiteSubscribed \/ CheckId \/ TestUnsubscribe
    \/ CycleReceives \/ CycleHearsNothing \/ CycleLags \/ CycleUnsubscribe \/ CycleReturn

\* The other callers: any call of theirs, with channels of their own.
OthersStep ==
    /\ \E c \in Callers \ {Suite} : Call(c) \/ Continue(c)
    /\ pushed' # pushed => pushed'[Len(pushed')].tx \notin SuiteChannels
    /\ UNCHANGED suite

OthersDropReceiver ==
    DropReceiver /\ SuiteChannels \cap receivers \subseteq receivers' /\ UNCHANGED suite

SuiteNext == SuiteStep \/ OthersStep \/ OthersPublish \/ OthersDropReceiver

SuiteSpec == SuiteInit /\ [][SuiteNext]_suiteVars
--------------------------------------------------------------------------------
(* Properties. *)

SuiteTypeOK ==
    /\ TypeOK
    /\ published_messages \in Seq([by : Callers, number : Nat])
    /\ at \in Steps
    /\ published \in 0..5
    /\ sub_id \in SubscriptionIds

\* The checks of the id (mod.rs:150, 203) and of the topic (mod.rs:211) never
\* fail on MockClient, whatever the other callers do: their messages, retained
\* ones, subscriptions with the same filter and unsubscribes included.  What
\* makes the suite fail is silence, or more messages than its channel keeps.
ChecksNeverFail == at \notin {"bad_id", "mismatch"}

\* A suite that ends with Ok has no subscription left in the list.
OkLeavesNothing ==
    at = "ok" => \A i \in subscriptions : pushed[i].tx \notin SuiteChannels

\* What the record holds of the suite is the end of what the suite published, in
\* order and without a gap: the number of a message and those of the suite's
\* messages behind it add up to all it published.  Other callers can only have
\* the record cleared as a whole.
RecordKeepsOrder ==
    \A n \in DOMAIN published_messages :
        published_messages[n].by = Suite =>
            published_messages[n].number
                + Cardinality({k \in DOMAIN published_messages :
                                  k > n /\ published_messages[k].by = Suite}) = published

\* A subscriber with a live receiver is skipped only because of a subscription
\* without one in front of it, and the suite is what leaves such a subscription
\* in the list when everybody else keeps their receivers: between test_subscribe
\* and test_unsubscribe, or after a failed cycle.
OnlySuiteBreaksDelivery ==
    [][\A r \in received' \ received :
        ~r.ok => \/ at \in {"unsubscribe", "timed_out", "lagged"}
                 \/ \E i \in r.audience : pushed[i].tx \notin SuiteChannels \cup receivers]_suiteVars

\* "Full pub/sub validation suite failed" must not happen on a new MockClient
\* (src/src/mock/test_validation.rs:57-62).
SuitePasses == at \notin Failures
================================================================================

------------------------- MODULE ValidationSuiteProofs -------------------------
(***************************************************************************)
(* Proofs about the validation suite on a MockClient that it shares with   *)
(* any number of other callers.                                            *)
(***************************************************************************)
EXTENDS ValidationSuite, MockDeliveryProofs

\* What the proofs about the client say of a state of the suite as well.
ClientInv == IInv /\ PayloadInv /\ EntryInv /\ Len(pushed) <= MaxSubscribes

BeforeSubscribe == {"publish_qos0", "publish_qos1", "publish_qos2", "publish_nowait"}
WithTestSubscription == {"subscribe", "check_id", "bad_id", "unsubscribe"}
WithCycleSubscription == {"cycle_subscribe", "cycle_publish", "cycle_receive", "cycle_unsubscribe",
                          "mismatch", "timed_out", "lagged"}

\* What the suite has published at each step, and where its calls are.
ProgressInv ==
    /\ published_messages \in Seq([by : Callers, number : Nat])
    /\ at \in Steps
    /\ published \in 0..5
    /\ at \in BeforeSubscribe => published < 4
    /\ at \in {"publish_qos0", "publish_qos1", "publish_qos2"} => published < 3
    /\ at \in {"publish_qos0", "publish_qos1"} => published < 2
    /\ at = "publish_qos0" => published < 1
    /\ at \in WithTestSubscription \cup {"cycle_subscribe", "cycle_publish"} => published < 5
    /\ sub_id \in SubscriptionIds
    /\ at \in {"check_id", "bad_id"} => sub_id > 0
    /\ at # "bad_id"
    /\ pc[Suite] \in {"idle", "to_take_id", "to_replay", "replaying"}
    /\ pc[Suite] # "idle" => at \in DOMAIN Subscribes

\* The subscription a subscribe of the suite has pushed already.
UnderSubscribe(i) == pc[Suite] \in {"to_replay", "replaying"} /\ subscription[Suite] = i

\* The subscriptions with the two channels of the suite are its own: one each,
\* in the list between its subscribe and its unsubscribe.
OwnInv ==
    /\ \A i \in DOMAIN pushed : pushed[i].tx = TestChannel =>
        /\ at \notin BeforeSubscribe
        /\ at = "subscribe" => UnderSubscribe(i)
        /\ pushed[i].topic = TestTopic
        /\ i \in subscriptions => at \in WithTestSubscription
    /\ \A i \in DOMAIN pushed : pushed[i].tx = CycleChannel =>
        /\ at \notin BeforeSubscribe \cup WithTestSubscription
        /\ at = "cycle_subscribe" => UnderSubscribe(i)
        /\ at \in {"cycle_publish", "cycle_receive"} => pushed[i].id = sub_id
        /\ pushed[i].topic = CycleTopic
        /\ i \in subscriptions => at \in WithCycleSubscription

\* The suite keeps its receivers until the test that made them ends.
HearsInv ==
    /\ at \in BeforeSubscribe \cup {"subscribe", "check_id"} => TestChannel \in receivers
    /\ at \notin {"mismatch", "timed_out", "closed", "lagged", "ok"} => CycleChannel \in receivers
    /\ at # "mismatch"

SuiteInv == ClientInv /\ ProgressInv /\ OwnInv /\ HearsInv

--------------------------------------------------------------------------------
(* What the steps mean for the client. *)

\* A filter without wildcards matches the topic that it is.
LEMMA LiteralMatches ==
    ASSUME NEW topic \in Topics, topic_matches(CycleTopic, topic)
    PROVE  topic = CycleTopic
<1>1. CycleTopic \in Seq(STRING) /\ topic \in Seq(STRING)
    BY SuiteAssumption
<1>2. \A n \in 1..Len(CycleTopic) : CycleTopic[n] \notin {"+", "#"}
    BY <1>1, SuiteAssumption
<1>3. Len(CycleTopic) = Len(topic) /\ Covers(CycleTopic, topic, Len(CycleTopic))
    BY <1>2 DEF topic_matches
<1>4. \A n \in 1..Len(CycleTopic) : CycleTopic[n] = topic[n]
    BY <1>2, <1>3 DEF Covers
<1>5. QED
    BY <1>1, <1>3, <1>4

\* A step of the suite is one of the client, or takes at most a receiver away.
ReceiversOnly ==
    receivers' \subseteq receivers /\ UNCHANGED <<client, callers, log, answers>>

LEMMA SuiteStepsClient == [SuiteNext]_suiteVars => [Next]_vars \/ ReceiversOnly
<1> SUFFICES ASSUME [SuiteNext]_suiteVars PROVE [Next]_vars \/ ReceiversOnly
    OBVIOUS
<1>1. Suite \in Callers
    BY SuiteAssumption
<1>2. CASE SuitePublishes \/ OthersPublish \/ UNCHANGED suiteVars
    BY <1>2 DEF SuitePublishes, OthersPublish, suiteVars
<1>3. CASE SuiteSubscribes \/ SuiteSubscribed
    BY <1>1, <1>3 DEF SuiteSubscribes, SuiteSubscribed, Next, Call, Continue
<1>4. CASE CheckId \/ CycleReceives \/ CycleHearsNothing \/ CycleLags \/ CycleReturn
    BY <1>4 DEF CheckId, CycleReceives, CycleHearsNothing, CycleLags, CycleReturn, ReceiversOnly
<1>5. CASE TestUnsubscribe \/ CycleUnsubscribe
    BY <1>1, <1>5 DEF TestUnsubscribe, CycleUnsubscribe, SuiteUnsubscribesFrom, Next, Call
<1>6. CASE OthersStep \/ OthersDropReceiver
    BY <1>6 DEF OthersStep, OthersDropReceiver, Next
<1>7. QED
    BY <1>2, <1>3, <1>4, <1>5, <1>6 DEF SuiteNext, SuiteStep

\* What holds of the client alone holds of it when the suite runs on it.
LEMMA NextClientInv == ClientInv /\ [SuiteNext]_suiteVars => ClientInv'
<1> SUFFICES ASSUME ClientInv, [SuiteNext]_suiteVars PROVE ClientInv'
    OBVIOUS
<1>1. CASE [Next]_vars
    BY <1>1, NextIInv, NextPayloadInv, NextEntryInv, NextBound DEF ClientInv
<1>2. CASE ReceiversOnly
    <2> USE <1>2 DEF ReceiversOnly, client, callers, answers
    <2>1. IInv'
        BY DEF ClientInv, IInv, TypeOK, LockInv, LocalInv, IdInv, PoisonInv, StoreInv, Audience,
            RetainedFor, Free
    <2>2. PayloadInv' /\ EntryInv' /\ Len(pushed') <= MaxSubscribes
        BY DEF ClientInv, PayloadInv, EntryInv
    <2>3. QED
        BY <2>1, <2>2 DEF ClientInv
<1>3. QED
    BY <1>1, <1>2, SuiteStepsClient

\* A call of another caller leaves the suite's own call alone.
LEMMA OthersLeaveSuite ==
    ASSUME ClientInv, OthersStep
    PROVE  /\ pc'[Suite] = pc[Suite] /\ subscription'[Suite] = subscription[Suite]
           /\ UNCHANGED <<suite, receivers>>
           /\ \A i \in DOMAIN pushed' :
                \/ i \in DOMAIN pushed /\ pushed'[i] = pushed[i]
                   /\ (i \in subscriptions' => i \in subscriptions)
                \/ pushed'[i].tx \notin SuiteChannels
<1>0. /\ Suite \in Callers
      /\ pc \in [Callers -> Points] /\ subscription \in [Callers -> Nat]
      /\ pushed \in Seq(Subscription)
    BY SuiteAssumption DEF ClientInv, IInv, TypeOK
<1>1. PICK c \in Callers \ {Suite} : Call(c) \/ Continue(c)
    BY DEF OthersStep
<1>2. pushed' # pushed => pushed'[Len(pushed')].tx \notin SuiteChannels
    BY DEF OthersStep
<1> USE DEF client, callers, channels, answers
<1>3. pc'[Suite] = pc[Suite] /\ subscription'[Suite] = subscription[Suite] /\ UNCHANGED receivers
    <2>1. CASE Call(c)
        BY <1>0, <2>1 DEF Call, SimulateReceive, LockToRegister, Unsubscribe, ClearRetained, Goto
    <2>2. CASE Continue(c)
        BY <1>0, <2>2 DEF Continue, LockToDeliver, DeliverNext, DeliverFail, DeliverDone, Register,
            OverflowPanic, LockToReplay, ReplayOne, ReplayDone, PanicOnPoison, Return, Goto
    <2>3. QED
        BY <1>1, <2>1, <2>2
<1>4. ASSUME NEW i \in DOMAIN pushed'
      PROVE  \/ i \in DOMAIN pushed /\ pushed'[i] = pushed[i]
                /\ (i \in subscriptions' => i \in subscriptions)
             \/ pushed'[i].tx \notin SuiteChannels
    <2>1. CASE Register(c)
        <3>1. PICK topic \in Filters, tx \in Channels :
                pushed' = Append(pushed, [topic |-> topic, id |-> next_sub_id, tx |-> tx])
            BY <2>1 DEF Register
        <3>2. [topic |-> topic, id |-> next_sub_id, tx |-> tx] \in Subscription
            BY DEF ClientInv, IInv, TypeOK, Subscription
        <3>3. /\ Len(pushed') = Len(pushed) + 1 /\ Len(pushed) \in Nat
              /\ DOMAIN pushed' = 1..(Len(pushed) + 1) /\ DOMAIN pushed = 1..Len(pushed)
              /\ \A k \in 1..Len(pushed) : pushed'[k] = pushed[k]
            BY <1>0, <3>1, <3>2
        <3>4. subscriptions' = subscriptions \cup {Len(pushed) + 1}
            BY <2>1 DEF Register
        <3>5. CASE i = Len(pushed) + 1
            <4>1. pushed' # pushed
                BY <3>3
            <4>2. QED
                BY <1>2, <3>3, <3>5, <4>1
        <3>6. CASE i # Len(pushed) + 1
            BY <3>3, <3>4, <3>6
        <3>7. QED
            BY <3>5, <3>6
    <2>2. CASE ~Register(c)
        <3>1. UNCHANGED pushed /\ subscriptions' \subseteq subscriptions
            <4>1. CASE Call(c)
                BY <4>1 DEF Call, SimulateReceive, LockToRegister, Unsubscribe, ClearRetained
            <4>2. CASE Continue(c)
                BY <2>2, <4>2 DEF Continue, LockToDeliver, DeliverNext, DeliverFail, DeliverDone,
                    OverflowPanic, LockToReplay, ReplayOne, ReplayDone, PanicOnPoison
            <4>3. QED
                BY <1>1, <4>1, <4>2
        <3>2. QED
            BY <3>1
    <2>3. QED
        BY <2>1, <2>2
<1>5. QED
    BY <1>3, <1>4 DEF OthersStep

--------------------------------------------------------------------------------
(* The steps of the suite. *)

\* What comes after each step that publishes.
LEMMA PublishSteps ==
    ASSUME at \in DOMAIN Publishes
    PROVE  \/ at = "publish_qos0" /\ Publishes[at] = "publish_qos1"
           \/ at = "publish_qos1" /\ Publishes[at] = "publish_qos2"
           \/ at = "publish_qos2" /\ Publishes[at] = "publish_nowait"
           \/ at = "publish_nowait" /\ Publishes[at] = "subscribe"
           \/ at = "cycle_publish" /\ Publishes[at] = "cycle_receive"
BY DEF Publishes

\* The arguments of each step that subscribes, and what comes after it.
LEMMA SubscribeSteps ==
    ASSUME at \in DOMAIN Subscribes
    PROVE  \/ /\ at = "subscribe" /\ Subscribes[at].next = "check_id"
              /\ Subscribes[at].topic = TestTopic /\ Subscribes[at].tx = TestChannel
           \/ /\ at = "cycle_subscribe" /\ Subscribes[at].next = "cycle_publish"
              /\ Subscribes[at].topic = CycleTopic /\ Subscribes[at].tx = CycleChannel
BY DEF Subscribes

\* Of the steps, subscribe and cycle_subscribe alone are those of a call.
LEMMA CallSteps == DOMAIN Subscribes = {"subscribe", "cycle_subscribe"}
BY DEF Subscribes

LEMMA StepNames ==
    Steps = {"publish_qos0", "publish_qos1", "publish_qos2", "publish_nowait", "cycle_publish",
             "subscribe", "cycle_subscribe", "bad_id", "mismatch", "timed_out", "closed", "lagged",
             "check_id", "unsubscribe", "cycle_receive", "cycle_unsubscribe", "cycle_return", "ok"}
BY DEF Steps, Publishes, Subscribes, Failures

\* One publish more in the record.
LEMMA RecordGrows ==
    ASSUME published_messages \in Seq([by : Callers, number : Nat]),
           NEW c \in Callers, NEW n \in Nat, PublishBy(c, n)
    PROVE  /\ published_messages' \in Seq([by : Callers, number : Nat])
           /\ DOMAIN published_messages = 1..Len(published_messages)
           /\ Len(published_messages) \in Nat
           /\ DOMAIN published_messages' = 1..(Len(published_messages) + 1)
           /\ published_messages'[Len(published_messages) + 1] = [by |-> c, number |-> n]
           /\ \A k \in DOMAIN published_messages :
                published_messages'[k] = published_messages[k]
<1>1. PICK new : new = [by |-> c, number |-> n]
    OBVIOUS
<1>2. PICK Messages : Messages = [by : Callers, number : Nat]
    OBVIOUS
<1>3. new \in Messages
    BY <1>1, <1>2
<1>4. published_messages' = Append(published_messages, new)
    BY <1>1 DEF PublishBy
<1>5. published_messages \in Seq(Messages)
    BY <1>2
<1>6. /\ published_messages' \in Seq(Messages)
      /\ DOMAIN published_messages = 1..Len(published_messages)
      /\ Len(published_messages) \in Nat
      /\ DOMAIN published_messages' = 1..(Len(published_messages) + 1)
      /\ published_messages'[Len(published_messages) + 1] = new
      /\ \A k \in DOMAIN published_messages : published_messages'[k] = published_messages[k]
    BY ONLY <1>3, <1>4, <1>5
<1>7. QED
    BY <1>1, <1>2, <1>6

\* What the others do keeps what the suite relies on.
LEMMA OthersSuiteInv ==
    ASSUME SuiteInv, OthersStep \/ OthersPublish \/ OthersDropReceiver \/ UNCHANGED suiteVars
    PROVE  ProgressInv' /\ OwnInv' /\ HearsInv'
<1> USE SuiteAssumption DEF SuiteInv, client, callers, channels, answers, suite
<1>1. CASE OthersStep
    <2>1. /\ pc'[Suite] = pc[Suite] /\ subscription'[Suite] = subscription[Suite]
          /\ UNCHANGED <<published_messages, at, published, sub_id, receivers>>
          /\ \A i \in DOMAIN pushed' :
                \/ i \in DOMAIN pushed /\ pushed'[i] = pushed[i]
                   /\ (i \in subscriptions' => i \in subscriptions)
                \/ pushed'[i].tx \notin SuiteChannels
        BY <1>1, OthersLeaveSuite
    <2>2. ProgressInv' /\ HearsInv'
        BY <2>1 DEF ProgressInv, HearsInv
    <2>3. OwnInv'
        BY <2>1 DEF OwnInv, UnderSubscribe, SuiteChannels
    <2>4. QED
        BY <2>2, <2>3
<1>2. CASE OthersPublish
    <2>1. published_messages' \in Seq([by : Callers, number : Nat])
        <3>1. PICK c \in Callers : PublishBy(c, 1) \/ published_messages' = <<>>
            BY <1>2 DEF OthersPublish
        <3>2. CASE PublishBy(c, 1)
            BY <3>2, RecordGrows DEF ProgressInv
        <3>3. CASE published_messages' = <<>>
            BY <3>3
        <3>4. QED
            BY <3>1, <3>2, <3>3
    <2>2. QED
        BY <1>2, <2>1 DEF OthersPublish, vars, ProgressInv, OwnInv, UnderSubscribe, HearsInv
<1>3. CASE OthersDropReceiver
    <2>1. /\ UNCHANGED <<pushed, subscriptions, pc, subscription, published_messages, at, published,
                         sub_id>>
          /\ SuiteChannels \cap receivers \subseteq receivers'
        BY <1>3 DEF OthersDropReceiver, DropReceiver
    <2>2. QED
        BY <2>1 DEF ProgressInv, OwnInv, UnderSubscribe, HearsInv, SuiteChannels
<1>4. CASE UNCHANGED suiteVars
    BY <1>4 DEF suiteVars, vars, ProgressInv, OwnInv, UnderSubscribe, HearsInv
<1>5. QED
    BY <1>1, <1>2, <1>3, <1>4

\* The subscription that the suite pushes is the first on its channel.
LEMMA SubscribesSuiteInv ==
    ASSUME SuiteInv, SuiteSubscribes
    PROVE  ProgressInv' /\ OwnInv' /\ HearsInv'
<1> USE SuiteAssumption DEF client, callers, channels, answers, suite
<1>1. /\ UNCHANGED <<published_messages, at, published, sub_id>>
      /\ \/ /\ at = "subscribe"
            /\ Subscribes[at].topic = TestTopic /\ Subscribes[at].tx = TestChannel
         \/ /\ at = "cycle_subscribe"
            /\ Subscribes[at].topic = CycleTopic /\ Subscribes[at].tx = CycleChannel
    BY SubscribeSteps DEF SuiteSubscribes
<1>2. /\ pc \in [Callers -> Points] /\ subscription \in [Callers -> Nat]
      /\ pushed \in Seq(Subscription) /\ subscriptions \subseteq DOMAIN pushed
    BY DEF SuiteInv, ClientInv, IInv, TypeOK
<1>3. CASE Register(Suite) /\ LET s == pushed'[Len(pushed')]
                              IN  s.topic = Subscribes[at].topic /\ s.tx = Subscribes[at].tx
    <2>1. PICK topic \in Filters, tx \in Channels :
            pushed' = Append(pushed, [topic |-> topic, id |-> next_sub_id, tx |-> tx])
        BY <1>3 DEF Register
    <2>2. [topic |-> topic, id |-> next_sub_id, tx |-> tx] \in Subscription
        BY DEF SuiteInv, ClientInv, IInv, TypeOK, Subscription
    <2>3. /\ Len(pushed') = Len(pushed) + 1 /\ Len(pushed) \in Nat
          /\ DOMAIN pushed' = 1..(Len(pushed) + 1) /\ DOMAIN pushed = 1..Len(pushed)
          /\ \A k \in 1..Len(pushed) : pushed'[k] = pushed[k]
        BY <1>2, <2>1, <2>2
    <2>4. /\ subscriptions' = subscriptions \cup {Len(pushed) + 1}
          /\ pc[Suite] = "to_take_id" /\ pc'[Suite] = "to_replay"
          /\ subscription'[Suite] = Len(pushed) + 1
          /\ UNCHANGED receivers
        BY <1>2, <1>3 DEF Register, Goto
    <2>5. /\ pushed'[Len(pushed) + 1].topic = Subscribes[at].topic
          /\ pushed'[Len(pushed) + 1].tx = Subscribes[at].tx
        BY <1>3, <2>3
    <2>6. ProgressInv' /\ HearsInv'
        BY <1>1, <2>4, CallSteps DEF SuiteInv, ProgressInv, HearsInv
    <2>7. \A i \in DOMAIN pushed : pushed[i].tx # Subscribes[at].tx
        BY <1>1, <2>4 DEF SuiteInv, OwnInv, UnderSubscribe
    <2>8. ASSUME NEW i \in DOMAIN pushed', i # Len(pushed) + 1
          PROVE  /\ i \in DOMAIN pushed /\ pushed'[i] = pushed[i]
                 /\ i \in subscriptions' => i \in subscriptions
        BY <2>3, <2>4, <2>8
    <2>9. OwnInv'
        <3>1. CASE at = "subscribe"
            BY <1>1, <2>3, <2>4, <2>5, <2>7, <2>8, <3>1
               DEF SuiteInv, OwnInv, UnderSubscribe, BeforeSubscribe, WithTestSubscription
        <3>2. CASE at = "cycle_subscribe"
            BY <1>1, <2>3, <2>4, <2>5, <2>7, <2>8, <3>2
               DEF SuiteInv, OwnInv, UnderSubscribe, BeforeSubscribe, WithTestSubscription,
                   WithCycleSubscription
        <3>3. QED
            BY <1>1, <3>1, <3>2
    <2>10. QED
        BY <2>6, <2>9
<1>4. CASE LockToRegister(Suite) \/ LockToReplay(Suite) \/ ReplayOne(Suite)
    <2>1. /\ UNCHANGED <<pushed, subscriptions, subscription, receivers>>
          /\ pc'[Suite] \in {"to_take_id", "replaying"}
          /\ pc[Suite] \in {"to_replay", "replaying"} => pc'[Suite] = "replaying"
        BY <1>2, <1>4 DEF LockToRegister, LockToReplay, ReplayOne, Goto
    <2>2. QED
        BY <1>1, <2>1, CallSteps DEF SuiteInv, ProgressInv, OwnInv, UnderSubscribe, HearsInv
<1>5. QED
    BY <1>3, <1>4 DEF SuiteSubscribes

\* A publish changes nothing but the record.
LEMMA PublishesSuiteInv ==
    ASSUME SuiteInv, SuitePublishes
    PROVE  ProgressInv' /\ OwnInv' /\ HearsInv'
<1>1. /\ PublishBy(Suite, published + 1)
      /\ published' = published + 1 /\ at' = Publishes[at]
      /\ UNCHANGED <<pushed, subscriptions, pc, subscription, receivers, sub_id>>
    BY DEF SuitePublishes, vars, client, callers, channels
<1>2. /\ published_messages \in Seq([by : Callers, number : Nat])
      /\ Suite \in Callers /\ published + 1 \in Nat
    BY SuiteAssumption DEF SuiteInv, ProgressInv
<1>3. published_messages' \in Seq([by : Callers, number : Nat])
    BY <1>1, <1>2, RecordGrows
<1>4. \/ at = "publish_qos0" /\ at' = "publish_qos1"
      \/ at = "publish_qos1" /\ at' = "publish_qos2"
      \/ at = "publish_qos2" /\ at' = "publish_nowait"
      \/ at = "publish_nowait" /\ at' = "subscribe"
      \/ at = "cycle_publish" /\ at' = "cycle_receive"
    BY <1>1, PublishSteps DEF SuitePublishes
<1>5. ProgressInv'
    BY <1>1, <1>3, <1>4, StepNames, CallSteps
       DEF SuiteInv, ProgressInv, BeforeSubscribe, WithTestSubscription
<1>6. OwnInv'
    BY <1>1, <1>4
       DEF SuiteInv, OwnInv, UnderSubscribe, BeforeSubscribe, WithTestSubscription,
           WithCycleSubscription
<1>7. HearsInv'
    BY <1>1, <1>4 DEF SuiteInv, HearsInv, BeforeSubscribe
<1>8. QED
    BY <1>5, <1>6, <1>7

\* subscribe returns the id of the subscription it pushed, which is not 0.
LEMMA SubscribedSuiteInv ==
    ASSUME SuiteInv, SuiteSubscribed
    PROVE  ProgressInv' /\ OwnInv' /\ HearsInv'
<1>1. /\ Suite \in Callers /\ pc \in [Callers -> Points]
      /\ pushed \in Seq(Subscription) /\ subscriptions \subseteq DOMAIN pushed
      /\ Len(pushed) <= MaxSubscribes /\ MaxSubscribes \in Nat
      /\ MaxSubscribes + 1 < IdLimit /\ IdLimit \in Nat
    BY SuiteAssumption, ConstantsAssumption DEF SuiteInv, ClientInv, IInv, TypeOK
<1>2. /\ pc[Suite] = "replaying" /\ pc'[Suite] = "idle"
      /\ sub_id' = pushed[subscription[Suite]].id
      /\ UNCHANGED <<pushed, subscriptions, receivers, published_messages, published>>
    BY <1>1 DEF SuiteSubscribed, ReplayDone, Return, Goto, client, channels
<1>3. subscription[Suite] \in DOMAIN pushed /\ subscription[Suite] \in 1..Len(pushed)
    BY <1>1, <1>2 DEF SuiteInv, ClientInv, IInv, LocalInv
<1>4. sub_id' = subscription[Suite] /\ sub_id' > 0 /\ sub_id' \in SubscriptionIds
    <2>1. subscription[Suite] < IdLimit
        BY <1>1, <1>3
    <2>2. pushed[subscription[Suite]].id = subscription[Suite]
        BY <1>3, <2>1 DEF SuiteInv, ClientInv, IInv, IdInv
    <2>3. QED
        BY <1>1, <1>2, <1>3, <2>1, <2>2 DEF SubscriptionIds
<1>5. \/ at = "subscribe" /\ at' = "check_id"
      \/ at = "cycle_subscribe" /\ at' = "cycle_publish"
    BY SubscribeSteps DEF SuiteSubscribed
<1>6. ProgressInv'
    BY <1>2, <1>4, <1>5, StepNames
       DEF SuiteInv, ProgressInv, BeforeSubscribe, WithTestSubscription
<1>7. OwnInv'
    BY <1>2, <1>5
       DEF SuiteInv, OwnInv, UnderSubscribe, BeforeSubscribe, WithTestSubscription,
           WithCycleSubscription
<1>8. HearsInv'
    BY <1>2, <1>5 DEF SuiteInv, HearsInv, BeforeSubscribe
<1>9. QED
    BY <1>6, <1>7, <1>8

\* An unsubscribe leaves no subscription of the test it ends in the list.
LEMMA UnsubscribesSuiteInv ==
    ASSUME SuiteInv, TestUnsubscribe \/ CycleUnsubscribe
    PROVE  ProgressInv' /\ OwnInv' /\ HearsInv'
<1>1. /\ UNCHANGED <<pushed, pc, subscription, receivers, published_messages, published, sub_id>>
      /\ \/ /\ at = "unsubscribe" /\ at' = "cycle_subscribe"
            /\ subscriptions' = {i \in subscriptions : pushed[i].topic # TestTopic}
         \/ /\ at = "cycle_unsubscribe" /\ at' = "cycle_return"
            /\ subscriptions' = {i \in subscriptions : pushed[i].topic # CycleTopic}
    BY DEF TestUnsubscribe, CycleUnsubscribe, SuiteUnsubscribesFrom, Unsubscribe, callers, channels
<1>2. subscriptions \subseteq DOMAIN pushed
    BY DEF SuiteInv, ClientInv, IInv, TypeOK
<1>3. ProgressInv'
    BY <1>1, StepNames, CallSteps
       DEF SuiteInv, ProgressInv, BeforeSubscribe, WithTestSubscription
<1>4. OwnInv'
    BY <1>1, <1>2
       DEF SuiteInv, OwnInv, UnderSubscribe, BeforeSubscribe, WithTestSubscription,
           WithCycleSubscription
<1>5. HearsInv'
    BY <1>1 DEF SuiteInv, HearsInv, BeforeSubscribe
<1>6. QED
    BY <1>3, <1>4, <1>5

\* The first message on the channel of the cycle is one for its subscription.
LEMMA CycleHearsItsOwn ==
    ASSUME SuiteInv, at = "cycle_receive", log[CycleChannel] # <<>>
    PROVE  /\ Head(log[CycleChannel]).subscription_id = sub_id
           /\ Head(log[CycleChannel]).message.topic = CycleTopic
<1>1. CycleChannel \in Channels /\ log[CycleChannel] \in Seq(Entry)
    BY SuiteAssumption DEF SuiteInv, ClientInv, IInv, TypeOK
<1>2. PICK sent \in Seq(Entry) : sent = log[CycleChannel]
    BY <1>1
<1>3. 1 \in DOMAIN sent /\ Head(sent) = sent[1] /\ sent[1] \in Entry
    BY <1>2
<1>4. PICK i \in DOMAIN pushed : /\ pushed[i].tx = CycleChannel
                                 /\ pushed[i].id = sent[1].subscription_id
                                 /\ topic_matches(pushed[i].topic, sent[1].message.topic)
    BY <1>1, <1>2, <1>3 DEF SuiteInv, ClientInv, EntryInv
<1>5. pushed[i].id = sub_id /\ pushed[i].topic = CycleTopic
    BY <1>4 DEF SuiteInv, OwnInv
<1>6. sent[1].message.topic \in Topics
    BY <1>3 DEF Entry, Message
<1>7. QED
    BY <1>2, <1>3, <1>4, <1>5, <1>6, LiteralMatches

\* The steps that look at what they have and may drop a receiver.
LEMMA ChecksSuiteInv ==
    ASSUME SuiteInv, CheckId \/ CycleReceives \/ CycleHearsNothing \/ CycleLags \/ CycleReturn
    PROVE  ProgressInv' /\ OwnInv' /\ HearsInv'
<1>1. UNCHANGED <<pushed, subscriptions, pc, subscription, published_messages, published, sub_id>>
    BY DEF CheckId, CycleReceives, CycleHearsNothing, CycleLags, CycleReturn, client, callers
<1>2. \/ /\ at = "check_id" /\ at' = "unsubscribe"
         /\ receivers' = receivers \ {TestChannel}
      \/ at = "cycle_receive" /\ at' = "cycle_unsubscribe" /\ UNCHANGED receivers
      \/ at = "cycle_receive" /\ at' \in {"timed_out", "lagged"}
      \/ /\ at = "cycle_receive" /\ at' = "closed"
         /\ \A i \in subscriptions : pushed[i].tx # CycleChannel
      \/ at = "cycle_return" /\ at' = "ok"
    <2>1. CASE CheckId
        <3>1. at = "check_id" /\ sub_id \in Int /\ sub_id > 0
            BY <2>1, ConstantsAssumption DEF CheckId, SuiteInv, ProgressInv, SubscriptionIds
        <3>2. QED
            BY <2>1, <3>1 DEF CheckId
    <2>2. CASE CycleReceives
        BY <2>2, CycleHearsItsOwn DEF CycleReceives
    <2>3. CASE CycleHearsNothing \/ CycleLags
        BY <2>3 DEF CycleHearsNothing, CycleLags
    <2>4. CASE CycleReturn
        BY <2>4 DEF CycleReturn
    <2>5. QED
        BY <2>1, <2>2, <2>3, <2>4
<1>3. ProgressInv'
    BY <1>1, <1>2, StepNames, CallSteps
       DEF SuiteInv, ProgressInv, BeforeSubscribe, WithTestSubscription
<1>4. OwnInv'
    BY <1>1, <1>2
       DEF SuiteInv, OwnInv, UnderSubscribe, BeforeSubscribe, WithTestSubscription,
           WithCycleSubscription
<1>5. HearsInv'
    BY <1>2, SuiteAssumption DEF SuiteInv, HearsInv, BeforeSubscribe
<1>6. QED
    BY <1>3, <1>4, <1>5

--------------------------------------------------------------------------------
LEMMA InitSuiteInv == SuiteInit => SuiteInv
<1> SUFFICES ASSUME SuiteInit PROVE SuiteInv
    OBVIOUS
<1>1. Init
    BY DEF SuiteInit
<1>2. ClientInv
    BY <1>1, InitIInv, InitPayloadInv, InitEntryInv, ConstantsAssumption DEF ClientInv, Init
<1>3. ProgressInv
    <2>1. pc[Suite] = "idle"
        BY <1>1, SuiteAssumption DEF Init
    <2>2. 0 \in SubscriptionIds
        BY ConstantsAssumption DEF SubscriptionIds
    <2>3. QED
        BY <2>1, <2>2, StepNames
           DEF SuiteInit, ProgressInv, BeforeSubscribe, WithTestSubscription
<1>4. OwnInv /\ HearsInv
    BY <1>1, SuiteAssumption DEF Init, SuiteInit, OwnInv, HearsInv
<1>5. QED
    BY <1>2, <1>3, <1>4 DEF SuiteInv

LEMMA NextSuiteInv == SuiteInv /\ [SuiteNext]_suiteVars => SuiteInv'
<1> SUFFICES ASSUME SuiteInv, [SuiteNext]_suiteVars PROVE SuiteInv'
    OBVIOUS
<1>1. ClientInv'
    BY NextClientInv DEF SuiteInv
<1>2. ProgressInv' /\ OwnInv' /\ HearsInv'
    BY OthersSuiteInv, SubscribesSuiteInv, PublishesSuiteInv, SubscribedSuiteInv,
       UnsubscribesSuiteInv, ChecksSuiteInv DEF SuiteNext, SuiteStep
<1>3. QED
    BY <1>1, <1>2 DEF SuiteInv

LEMMA SuiteInductive == SuiteSpec => []SuiteInv
BY InitSuiteInv, NextSuiteInv, PTL DEF SuiteSpec

--------------------------------------------------------------------------------
(* The theorems. *)

\* Type correctness of the suite and of the client it runs on; the suite
\* publishes at most five messages.
THEOREM SuiteTypeCorrect == SuiteSpec => []SuiteTypeOK
<1>1. SuiteInv => SuiteTypeOK
    BY DEF SuiteInv, ClientInv, IInv, ProgressInv, SuiteTypeOK
<1>2. QED
    BY <1>1, SuiteInductive, PTL

\* Neither the check of the id in test_subscribe (mod.rs:150) nor those of id and
\* topic in test_subscribe_receive_unsubscribe (mod.rs:203-211) ever fail on
\* MockClient, whatever other callers send, retain, subscribe to and unsubscribe
\* from meanwhile.
THEOREM IdAndTopicChecksHold == SuiteSpec => []ChecksNeverFail
<1>1. SuiteInv => ChecksNeverFail
    BY DEF SuiteInv, ProgressInv, HearsInv, ChecksNeverFail
<1>2. QED
    BY <1>1, SuiteInductive, PTL

\* Both tests take their subscription out of the list before the suite answers
\* Ok (mod.rs:170, 222).
THEOREM OkMeansCleanedUp == SuiteSpec => []OkLeavesNothing
<1>1. SuiteInv => OkLeavesNothing
    <2> SUFFICES ASSUME SuiteInv, at = "ok", NEW i \in subscriptions
                 PROVE  pushed[i].tx \notin SuiteChannels
        BY DEF OkLeavesNothing
    <2>1. i \in DOMAIN pushed
        BY DEF SuiteInv, ClientInv, IInv, TypeOK
    <2>2. QED
        BY <2>1 DEF SuiteInv, OwnInv, WithTestSubscription, WithCycleSubscription, SuiteChannels
<1>2. QED
    BY <1>1, SuiteInductive, PTL

\* A new answer that is an error comes from a send that failed.
LEMMA ErrorsAreFailedSends ==
    ASSUME SuiteInv, [SuiteNext]_suiteVars, NEW r \in received' \ received, ~r.ok
    PROVE  \E i \in subscriptions : i \in r.audience /\ pushed[i].tx \notin receivers
<1> USE DEF client, callers, channels, answers
<1>1. \E c \in Callers : DeliverFail(c)
    <2>1. received' # received
        OBVIOUS
    <2>2. \A c \in Callers : DeliverDone(c) => \A s \in received' \ received : s.ok
        BY DEF DeliverDone, Answered
    <2>3. CASE UNCHANGED suiteVars \/ SuitePublishes \/ OthersPublish
        BY <2>1, <2>3 DEF suiteVars, vars, SuitePublishes, OthersPublish
    <2>4. CASE SuiteSubscribes \/ SuiteSubscribed
        BY <2>1, <2>4 DEF SuiteSubscribes, SuiteSubscribed, LockToRegister, Register, LockToReplay,
            ReplayOne, ReplayDone
    <2>5. CASE CheckId \/ TestUnsubscribe \/ CycleReceives \/ CycleHearsNothing \/ CycleLags
               \/ CycleUnsubscribe \/ CycleReturn \/ OthersDropReceiver
        BY <2>1, <2>5 DEF CheckId, TestUnsubscribe, CycleReceives, CycleHearsNothing, CycleLags,
            CycleUnsubscribe, CycleReturn, OthersDropReceiver, DropReceiver,
            SuiteUnsubscribesFrom, Unsubscribe
    <2>6. CASE OthersStep
        <3>1. PICK c \in Callers : Call(c) \/ Continue(c)
            BY <2>6 DEF OthersStep
        <3>2. CASE Call(c)
            BY <2>1, <3>2 DEF Call, SimulateReceive, LockToRegister, Unsubscribe, ClearRetained
        <3>3. CASE Continue(c)
            BY <2>1, <2>2, <3>3 DEF Continue, LockToDeliver, DeliverNext, Register, OverflowPanic,
                LockToReplay, ReplayOne, ReplayDone, PanicOnPoison
        <3>4. QED
            BY <3>1, <3>2, <3>3
    <2>7. QED
        BY <2>3, <2>4, <2>5, <2>6 DEF SuiteNext, SuiteStep
<1>2. PICK c \in Callers : DeliverFail(c)
    BY <1>1
<1>3. r.audience = Audience(message[c])
    BY <1>2 DEF DeliverFail, Answered
<1>4. PICK i \in pending[c] : ~HasReceiver(i)
    BY <1>2 DEF DeliverFail
<1>5. i \in Audience(message[c])
    BY <1>2, <1>4 DEF DeliverFail, SuiteInv, ClientInv, IInv, LocalInv
<1>6. QED
    BY <1>3, <1>4, <1>5 DEF Audience, HasReceiver

\* While everybody else keeps their receivers, a simulate_receive fails
\* (client.rs:86-88) only in two situations of the suite: the receiver of
\* test_subscribe is gone and its subscription is not (mod.rs:142-156), or the
\* cycle failed and left its subscription behind (mod.rs:199-222).
THEOREM SuiteAloneBreaksDelivery == SuiteSpec => OnlySuiteBreaksDelivery
<1> DEFINE Culprit(r) ==
        ~r.ok => \/ at \in {"unsubscribe", "timed_out", "lagged"}
                 \/ \E i \in r.audience : pushed[i].tx \notin SuiteChannels \cup receivers
<1>1. SuiteInv /\ [SuiteNext]_suiteVars => \A r \in received' \ received : Culprit(r)
    <2> SUFFICES ASSUME SuiteInv, [SuiteNext]_suiteVars, NEW r \in received' \ received, ~r.ok
                 PROVE  \/ at \in {"unsubscribe", "timed_out", "lagged"}
                        \/ \E i \in r.audience : pushed[i].tx \notin SuiteChannels \cup receivers
        OBVIOUS
    <2>1. PICK i \in subscriptions : i \in r.audience /\ pushed[i].tx \notin receivers
        BY ErrorsAreFailedSends
    <2>2. i \in DOMAIN pushed
        BY DEF SuiteInv, ClientInv, IInv, TypeOK
    <2>3. CASE pushed[i].tx = TestChannel
        BY <2>1, <2>2, <2>3
           DEF SuiteInv, OwnInv, HearsInv, ProgressInv, WithTestSubscription, BeforeSubscribe
    <2>4. CASE pushed[i].tx = CycleChannel
        BY <2>1, <2>2, <2>4
           DEF SuiteInv, OwnInv, HearsInv, WithCycleSubscription
    <2>5. CASE pushed[i].tx \notin SuiteChannels
        BY <2>1, <2>5
    <2>6. QED
        BY <2>3, <2>4, <2>5 DEF SuiteChannels
<1>2. QED
    BY <1>1, SuiteInductive, PTL DEF SuiteSpec, OnlySuiteBreaksDelivery

--------------------------------------------------------------------------------
(* The record of the published messages. *)

\* The messages of the suite behind the n-th of the record.
SuiteAfter(n) == {k \in DOMAIN published_messages : k > n /\ published_messages[k].by = Suite}

\* They can be counted.
LEMMA SuiteAfterFinite ==
    ASSUME ProgressInv, NEW n \in DOMAIN published_messages
    PROVE  IsFiniteSet(SuiteAfter(n)) /\ Cardinality(SuiteAfter(n)) \in Nat
<1>1. DOMAIN published_messages = 1..Len(published_messages) /\ Len(published_messages) \in Nat
    <2>1. PICK Messages : published_messages \in Seq(Messages)
        BY DEF ProgressInv
    <2>2. QED
        BY <2>1
<1>2. IsFiniteSet(DOMAIN published_messages)
    BY <1>1, FS_Interval
<1>3. SuiteAfter(n) \subseteq DOMAIN published_messages
    BY DEF SuiteAfter
<1>4. IsFiniteSet(SuiteAfter(n))
    BY <1>2, <1>3, FS_Subset
<1>5. QED
    BY <1>4, FS_CardinalityType

\* A publish puts one message behind all the others.
LEMMA PublishRecord ==
    ASSUME ProgressInv, RecordKeepsOrder, NEW c \in Callers, NEW m \in Nat, PublishBy(c, m),
           IF c = Suite THEN m = published + 1 /\ published' = m ELSE published' = published
    PROVE  RecordKeepsOrder'
<1>1. /\ DOMAIN published_messages = 1..Len(published_messages)
      /\ Len(published_messages) \in Nat
      /\ DOMAIN published_messages' = 1..(Len(published_messages) + 1)
      /\ published_messages'[Len(published_messages) + 1] = [by |-> c, number |-> m]
      /\ \A k \in DOMAIN published_messages : published_messages'[k] = published_messages[k]
    BY RecordGrows DEF ProgressInv
<1>2. PICK last \in Nat \ {0} : last = Len(published_messages) + 1
    BY <1>1
<1>3. /\ DOMAIN published_messages = 1..(last - 1) /\ DOMAIN published_messages' = 1..last
      /\ published_messages'[last].by = c /\ published_messages'[last].number = m
    BY <1>1, <1>2
<1> SUFFICES ASSUME NEW n \in DOMAIN published_messages', published_messages'[n].by = Suite
             PROVE  published_messages'[n].number + Cardinality(SuiteAfter(n)') = published'
    BY DEF RecordKeepsOrder, SuiteAfter
<1>4. published \in Nat
    BY DEF ProgressInv
<1>5. CASE n = last
    <2>1. SuiteAfter(n)' = {}
        BY <1>3, <1>5 DEF SuiteAfter
    <2>2. c = Suite /\ published_messages'[n].number = m
        BY <1>3, <1>5
    <2>3. QED
        BY <1>4, <2>1, <2>2, FS_EmptySet
<1>6. CASE n # last
    <2>1. /\ n \in DOMAIN published_messages /\ n < last
          /\ published_messages'[n] = published_messages[n]
        BY <1>1, <1>3, <1>6
    <2>2. published_messages[n].number + Cardinality(SuiteAfter(n)) = published
        BY <2>1 DEF RecordKeepsOrder, SuiteAfter
    <2>3. IsFiniteSet(SuiteAfter(n)) /\ Cardinality(SuiteAfter(n)) \in Nat
        BY <2>1, SuiteAfterFinite
    <2>4. published_messages[n].number \in Nat
        <3>1. PICK Messages : Messages = [by : Callers, number : Nat]
            OBVIOUS
        <3>2. published_messages \in Seq(Messages)
            BY <3>1 DEF ProgressInv
        <3>3. published_messages[n] \in Messages
            BY ONLY <2>1, <3>2
        <3>4. QED
            BY <3>1, <3>3
    <2>5. CASE c = Suite
        <3>1. SuiteAfter(n)' = SuiteAfter(n) \cup {last} /\ last \notin SuiteAfter(n)
            BY <1>1, <1>3, <2>1, <2>5 DEF SuiteAfter
        <3>2. Cardinality(SuiteAfter(n)') = Cardinality(SuiteAfter(n)) + 1
            BY <2>3, <3>1, FS_AddElement
        <3>3. QED
            BY <1>4, <2>1, <2>2, <2>3, <2>4, <2>5, <3>2
    <2>6. CASE c # Suite
        <3>1. SuiteAfter(n)' = SuiteAfter(n)
            BY <1>1, <1>3, <2>1, <2>6 DEF SuiteAfter
        <3>2. QED
            BY <2>1, <2>2, <2>6, <3>1
    <2>7. QED
        BY <2>5, <2>6
<1>7. QED
    BY <1>5, <1>6

\* publish, publish_nowait and clear_published_messages (client.rs) keep the
\* record in the order of the calls: what is left of the suite's messages is the
\* end of what it published, without a gap, whoever else publishes or clears.
THEOREM RecordIsInOrder == SuiteSpec => []RecordKeepsOrder
<1>1. SuiteInit => RecordKeepsOrder
    BY DEF SuiteInit, RecordKeepsOrder
<1>2. SuiteInv /\ RecordKeepsOrder /\ [SuiteNext]_suiteVars => RecordKeepsOrder'
    <2> SUFFICES ASSUME SuiteInv, RecordKeepsOrder, [SuiteNext]_suiteVars
                 PROVE  RecordKeepsOrder'
        OBVIOUS
    <2>1. CASE UNCHANGED <<published_messages, published>>
        BY <2>1 DEF RecordKeepsOrder
    <2>2. CASE SuitePublishes
        <3>1. /\ Suite \in Callers /\ published + 1 \in Nat
              /\ PublishBy(Suite, published + 1) /\ published' = published + 1
            BY <2>2, SuiteAssumption DEF SuitePublishes, SuiteInv, ProgressInv
        <3>2. QED
            BY <3>1, PublishRecord DEF SuiteInv
    <2>3. CASE OthersPublish
        <3>1. /\ published' = published
              /\ \E c \in Callers \ {Suite} : PublishBy(c, 1) \/ published_messages' = <<>>
            BY <2>3 DEF OthersPublish
        <3>2. PICK c \in Callers \ {Suite} : PublishBy(c, 1) \/ published_messages' = <<>>
            BY <3>1
        <3>3. CASE PublishBy(c, 1)
            BY <3>1, <3>3, PublishRecord DEF SuiteInv
        <3>4. CASE published_messages' = <<>>
            BY <3>4 DEF RecordKeepsOrder
        <3>5. QED
            BY <3>2, <3>3, <3>4
    <2>4. QED
        BY <2>1, <2>2, <2>3 DEF SuiteNext, SuiteStep, SuiteSubscribes, SuiteSubscribed, CheckId,
            TestUnsubscribe, CycleReceives, CycleHearsNothing, CycleLags, CycleUnsubscribe, CycleReturn,
            SuiteUnsubscribesFrom, OthersStep, OthersDropReceiver, suite, suiteVars
<1>3. QED
    BY <1>1, <1>2, SuiteInductive, PTL DEF SuiteSpec

================================================================================

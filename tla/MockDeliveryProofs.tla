--------------------------- MODULE MockDeliveryProofs ---------------------------
(***************************************************************************)
(* Proofs of what MockClient promises of a single message: who gets it,    *)
(* how often, and what a subscriber that comes late ends up with; for any  *)
(* number of callers, channels, topics, filters and messages.              *)
(***************************************************************************)
EXTENDS MockClientProofs, FiniteSetTheorems, WellFoundedInduction

\* A message lives in one place at a time: in one simulate_receive that is
\* under way, or in the answer of the one that is over.
PayloadInv ==
    /\ \A c \in Callers : message[c] # NoMessage =>
        /\ pc[c] \in {"to_deliver", "delivering"}
        /\ message[c].payload \in used
        /\ \A d \in Callers : message[d] = message[c] => d = c
        /\ \A r \in received : r.message # message[c]
    /\ \A t \in Topics : retained_messages[t] # NoMessage => retained_messages[t].payload \in used
    /\ \A r, s \in received : r.message = s.message => r = s
    /\ \A r \in received : r.message.payload \in used
    /\ \A ch \in Channels : \A n \in DOMAIN log[ch] : log[ch][n].message.payload \in used

\* What is on a channel was sent for a subscription with this channel, this id
\* and a filter that matches.
EntryInv ==
    \A ch \in Channels : \A n \in DOMAIN log[ch] :
        \E i \in DOMAIN pushed : /\ pushed[i].tx = ch
                                 /\ pushed[i].id = log[ch][n].subscription_id
                                 /\ topic_matches(pushed[i].topic, log[ch][n].message.topic)

--------------------------------------------------------------------------------
(* How the two sequences of the client grow. *)

\* A send for a subscription of the Vec adds one entry to its channel.
LEMMA SendsAppends ==
    ASSUME TypeOK, NEW m \in Message, NEW i \in subscriptions, NEW replay \in BOOLEAN,
           Sends(m, i, replay)
    PROVE  /\ i \in DOMAIN pushed /\ pushed[i].tx \in Channels
           /\ DOMAIN log[pushed[i].tx] = 1..Len(log[pushed[i].tx])
           /\ Len(log[pushed[i].tx]) \in Nat
           /\ DOMAIN log'[pushed[i].tx] = 1..(Len(log[pushed[i].tx]) + 1)
           /\ log'[pushed[i].tx][Len(log[pushed[i].tx]) + 1]
                = [message |-> m, subscription_id |-> pushed[i].id, replay |-> replay]
           /\ \A n \in DOMAIN log[pushed[i].tx] : log'[pushed[i].tx][n] = log[pushed[i].tx][n]
           /\ \A ch \in Channels : ch # pushed[i].tx => log'[ch] = log[ch]
<1> DEFINE tx == pushed[i].tx
           e == [message |-> m, subscription_id |-> pushed[i].id, replay |-> replay]
<1>1. pushed[i] \in Subscription /\ i \in DOMAIN pushed
    BY DEF TypeOK
<1>2. e \in Entry /\ tx \in Channels
    BY <1>1 DEF Entry, Subscription
<1>3. log[tx] \in Seq(Entry) /\ log'[tx] = Append(log[tx], e)
    BY <1>2 DEF TypeOK, Sends
<1>4. \A ch \in Channels : ch # tx => log'[ch] = log[ch]
    BY DEF TypeOK, Sends
<1>5. /\ DOMAIN log[tx] = 1..Len(log[tx]) /\ Len(log[tx]) \in Nat
      /\ DOMAIN log'[tx] = 1..(Len(log[tx]) + 1)
      /\ log'[tx][Len(log[tx]) + 1] = e
      /\ \A n \in DOMAIN log[tx] : log'[tx][n] = log[tx][n]
    <2> HIDE DEF e, tx
    <2>1. QED
        BY <1>2, <1>3
<1>6. QED
    BY <1>1, <1>2, <1>4, <1>5

\* What a step that sends does: it sends one message, for a subscription whose
\* filter matches, and leaves the lists of subscriptions and answers alone.
SendsOne(m, i, replay) ==
    /\ topic_matches(pushed[i].topic, m.topic)
    /\ Sends(m, i, replay)
    /\ UNCHANGED <<client, pc, message, subscription, receivers, answers>>

\* If it had a payload that is in use, every entry still has.
LEMMA SendsPayload ==
    ASSUME IInv, PayloadInv, NEW m \in Message, NEW i \in subscriptions, NEW replay \in BOOLEAN,
           SendsOne(m, i, replay), m.payload \in used
    PROVE  \A ch \in Channels : \A n \in DOMAIN log'[ch] : log'[ch][n].message.payload \in used
<1> SUFFICES ASSUME NEW ch \in Channels, NEW n \in DOMAIN log'[ch]
             PROVE  log'[ch][n].message.payload \in used
    OBVIOUS
<1>1. Sends(m, i, replay) /\ TypeOK
    BY DEF SendsOne, IInv
<1> DEFINE tx == pushed[i].tx
<1>2. /\ DOMAIN log[tx] = 1..Len(log[tx]) /\ Len(log[tx]) \in Nat
      /\ DOMAIN log'[tx] = 1..(Len(log[tx]) + 1)
      /\ log'[tx][Len(log[tx]) + 1]
            = [message |-> m, subscription_id |-> pushed[i].id, replay |-> replay]
      /\ \A k \in DOMAIN log[tx] : log'[tx][k] = log[tx][k]
      /\ ch # tx => log'[ch] = log[ch]
    BY <1>1, SendsAppends
<1>3. log'[tx][Len(log[tx]) + 1].message = m
    BY <1>2
<1> HIDE DEF tx
<1>4. QED
    BY <1>2, <1>3 DEF PayloadInv

LEMMA DeliverNextSends ==
    ASSUME IInv, NEW c \in Callers, DeliverNext(c)
    PROVE  \E i \in pending[c] :
               /\ message[c] \in Message /\ i \in subscriptions
               /\ Upcoming(c, i) /\ HasReceiver(i)
               /\ SendsOne(message[c], i, FALSE)
               /\ pending' = [pending EXCEPT ![c] = @ \ {i}]
BY DEF DeliverNext, IInv, LocalInv, Audience, SendsOne, client, answers

LEMMA ReplayOneSends ==
    ASSUME IInv, NEW c \in Callers, ReplayOne(c)
    PROVE  \E t \in to_replay[c] :
               /\ retained_messages[t] \in Message /\ retained_messages[t].topic = t
               /\ subscription[c] \in subscriptions
               /\ to_replay' = [to_replay EXCEPT ![c] = @ \ {t}]
               /\ UNCHANGED pending
               /\ \/ SendsOne(retained_messages[t], subscription[c], TRUE)
                  \/ ~HasReceiver(subscription[c]) /\ UNCHANGED log
<1>1. PICK t \in to_replay[c] :
        /\ \/ /\ HasReceiver(subscription[c])
              /\ Sends(retained_messages[t], subscription[c], TRUE)
           \/ ~HasReceiver(subscription[c]) /\ UNCHANGED log
        /\ to_replay' = [to_replay EXCEPT ![c] = @ \ {t}]
    BY DEF ReplayOne
<1>2. t \in RetainedFor(subscription[c]) /\ subscription[c] \in subscriptions
    BY <1>1 DEF IInv, LocalInv, ReplayOne
<1>3. retained_messages[t] \in Message /\ retained_messages[t].topic = t
      /\ topic_matches(pushed[subscription[c]].topic, t)
    BY <1>2 DEF RetainedFor, IInv, TypeOK, StoreInv
<1>4. QED
    BY <1>1, <1>2, <1>3 DEF ReplayOne, SendsOne, client, answers

\* No other step touches a channel.
LEMMA OthersSendNothing ==
    ASSUME [Next]_vars, \A c \in Callers : ~DeliverNext(c) /\ ~ReplayOne(c)
    PROVE  UNCHANGED log
BY DEF Next, Call, Continue, SimulateReceive, LockToRegister, Unsubscribe, ClearRetained,
    LockToDeliver, DeliverFail, DeliverDone, Register, OverflowPanic, LockToReplay, ReplayDone,
    PanicOnPoison, DropReceiver, vars, client, callers, channels, answers

\* The step leaves the channels alone or sends one message.
LEMMA LogStep ==
    ASSUME IInv, [Next]_vars
    PROVE  \/ UNCHANGED log
           \/ \E m \in Message, i \in subscriptions, replay \in BOOLEAN : SendsOne(m, i, replay)
BY DeliverNextSends, ReplayOneSends, OthersSendNothing

\* Once pushed, a subscription keeps its place, filter, id and channel.
LEMMA PushedStays ==
    ASSUME IInv, [Next]_vars
    PROVE  \A i \in DOMAIN pushed : i \in DOMAIN pushed' /\ pushed'[i] = pushed[i]
<1> USE DEF client, callers, channels, answers
<1>1. ASSUME NEW c \in Callers, Register(c)
      PROVE  \A i \in DOMAIN pushed : i \in DOMAIN pushed' /\ pushed'[i] = pushed[i]
    <2>1. PICK topic \in Filters, tx \in Channels :
            pushed' = Append(pushed, [topic |-> topic, id |-> next_sub_id, tx |-> tx])
        BY <1>1 DEF Register
    <2>2. pushed \in Seq(Subscription)
          /\ [topic |-> topic, id |-> next_sub_id, tx |-> tx] \in Subscription
        BY DEF IInv, TypeOK, Subscription
    <2>3. QED
        BY <2>1, <2>2
<1>2. CASE \A c \in Callers : ~Register(c)
    <2>1. UNCHANGED pushed
        BY <1>2 DEF Next, Call, Continue, SimulateReceive, LockToRegister, Unsubscribe,
            ClearRetained, LockToDeliver, DeliverNext, DeliverFail, DeliverDone, OverflowPanic,
            LockToReplay, ReplayOne, ReplayDone, PanicOnPoison, DropReceiver, vars
    <2>2. QED
        BY <2>1
<1>3. QED
    BY <1>1, <1>2

\* A subscribe begins only below the bound, and alone.
LEMMA NextBound ==
    ASSUME IInv, Len(pushed) <= MaxSubscribes, [Next]_vars
    PROVE  Len(pushed') <= MaxSubscribes
<1>1. ASSUME NEW c \in Callers, Register(c) PROVE Len(pushed') <= MaxSubscribes
    <2>1. Len(pushed) < MaxSubscribes /\ Len(pushed) \in Nat
        BY <1>1 DEF Register, IInv, LocalInv, TypeOK
    <2>2. Len(pushed') = Len(pushed) + 1
        BY <1>1 DEF Register, IInv, TypeOK
    <2>3. QED
        BY <2>1, <2>2, ConstantsAssumption
<1>2. CASE \A c \in Callers : ~Register(c)
    <2>1. UNCHANGED pushed
        BY <1>2 DEF Next, Call, Continue, SimulateReceive, LockToRegister, Unsubscribe,
            ClearRetained, LockToDeliver, DeliverNext, DeliverFail, DeliverDone, OverflowPanic,
            LockToReplay, ReplayOne, ReplayDone, PanicOnPoison, DropReceiver, vars, client
    <2>2. QED
        BY <2>1
<1>3. QED
    BY <1>1, <1>2

\* Once on a channel, an entry keeps its place.
LEMMA LogStays ==
    ASSUME IInv, [Next]_vars
    PROVE  \A ch \in Channels : \A n \in DOMAIN log[ch] :
               n \in DOMAIN log'[ch] /\ log'[ch][n] = log[ch][n]
<1>1. CASE UNCHANGED log
    BY <1>1
<1>2. ASSUME NEW m \in Message, NEW i \in subscriptions, NEW replay \in BOOLEAN,
             SendsOne(m, i, replay)
      PROVE  \A ch \in Channels : \A n \in DOMAIN log[ch] :
                 n \in DOMAIN log'[ch] /\ log'[ch][n] = log[ch][n]
    <2>1. Sends(m, i, replay) /\ TypeOK
        BY <1>2 DEF SendsOne, IInv
    <2>2. ASSUME NEW ch \in Channels, NEW n \in DOMAIN log[ch]
          PROVE  n \in DOMAIN log'[ch] /\ log'[ch][n] = log[ch][n]
        <3> DEFINE tx == pushed[i].tx
        <3>1. /\ DOMAIN log[tx] = 1..Len(log[tx]) /\ Len(log[tx]) \in Nat
              /\ DOMAIN log'[tx] = 1..(Len(log[tx]) + 1)
              /\ \A k \in DOMAIN log[tx] : log'[tx][k] = log[tx][k]
              /\ ch # tx => log'[ch] = log[ch]
            BY <2>1, SendsAppends
        <3> HIDE DEF tx
        <3>2. QED
            BY <3>1
    <2>3. QED
        BY <2>2
<1>3. QED
    BY <1>1, <1>2, LogStep

\* A receiver that is gone does not come back.
LEMMA ReceiversShrink == ASSUME [Next]_vars PROVE receivers' \subseteq receivers
BY DEF Next, Call, Continue, SimulateReceive, LockToRegister, Unsubscribe, ClearRetained,
    LockToDeliver, DeliverNext, DeliverFail, DeliverDone, Register, OverflowPanic, LockToReplay,
    ReplayOne, ReplayDone, PanicOnPoison, DropReceiver, vars, client, callers, channels, answers

\* Once a subscription has been sent a message, it has been.
LEMMA GotStays ==
    ASSUME IInv, [Next]_vars, NEW i \in DOMAIN pushed, NEW m, Got(i, m)
    PROVE  Got(i, m)'
<1>1. pushed[i] \in Subscription
    BY DEF IInv, TypeOK
<1>2. i \in DOMAIN pushed' /\ pushed'[i] = pushed[i]
    BY PushedStays
<1>3. QED
    BY <1>1, <1>2, LogStays DEF Got, Subscription

--------------------------------------------------------------------------------
(* A message is in one place at a time. *)

LEMMA InitPayloadInv == Init => PayloadInv
BY DEF Init, PayloadInv

\* A caller that returns and answers nothing forgets its message.
LEMMA ReturnPayloadInv ==
    ASSUME TypeOK, PayloadInv, NEW c \in Callers, Return(c),
           UNCHANGED <<retained_messages, log, used, received>>
    PROVE  PayloadInv'
BY DEF PayloadInv, Return, Goto, TypeOK

LEMMA NextPayloadInv == IInv /\ PayloadInv /\ [Next]_vars => PayloadInv'
<1> SUFFICES ASSUME IInv, PayloadInv, [Next]_vars PROVE PayloadInv'
    OBVIOUS
<1>0. TypeOK
    BY DEF IInv
<1> USE <1>0 DEF client, callers, channels, answers
<1>1. ASSUME NEW c \in Callers, SimulateReceive(c) PROVE PayloadInv'
    <2>1. PICK m \in Message :
            /\ m.payload \notin used
            /\ used' = used \cup {m.payload}
            /\ message' = [message EXCEPT ![c] = m]
            /\ \/ retained_messages' = [retained_messages EXCEPT ![m.topic] = m]
               \/ UNCHANGED retained_messages
        BY <1>1 DEF SimulateReceive
    <2>2. pc' = [pc EXCEPT ![c] = "to_deliver"] /\ UNCHANGED <<log, received>>
        BY <1>1 DEF SimulateReceive, Goto
    <2>3. \A d \in Callers : message[d] # m /\ \A r \in received : r.message # m
        BY <2>1, NoMessageAssumption DEF PayloadInv
    <2>4. \A t \in Topics : retained_messages'[t] # NoMessage
                                => retained_messages'[t].payload \in used'
        BY <2>1 DEF PayloadInv, TypeOK
    <2>5. QED
        BY <2>1, <2>2, <2>3, <2>4 DEF PayloadInv, TypeOK
<1>2. ASSUME NEW c \in Callers, DeliverNext(c) PROVE PayloadInv'
    <2>1. PICK i \in pending[c] : message[c] \in Message /\ i \in subscriptions
                                  /\ SendsOne(message[c], i, FALSE)
        BY <1>2, DeliverNextSends
    <2>2. message[c].payload \in used
        BY <2>1, NoMessageAssumption DEF PayloadInv
    <2>3. \A ch \in Channels : \A n \in DOMAIN log'[ch] : log'[ch][n].message.payload \in used
        BY <2>1, <2>2, SendsPayload
    <2>4. QED
        BY <2>1, <2>3 DEF PayloadInv, SendsOne
<1>3. ASSUME NEW c \in Callers, ReplayOne(c) PROVE PayloadInv'
    <2>1. PICK t \in to_replay[c] :
            /\ retained_messages[t] \in Message /\ subscription[c] \in subscriptions
            /\ \/ SendsOne(retained_messages[t], subscription[c], TRUE)
               \/ UNCHANGED log
        BY <1>3, ReplayOneSends
    <2>2. retained_messages[t].payload \in used
        BY <1>3, <2>1, NoMessageAssumption DEF PayloadInv, TypeOK
    <2>3. \A ch \in Channels : \A n \in DOMAIN log'[ch] : log'[ch][n].message.payload \in used
        BY <2>1, <2>2, SendsPayload DEF PayloadInv
    <2>4. QED
        BY <1>3, <2>3 DEF PayloadInv, ReplayOne
<1>4. ASSUME NEW c \in Callers, DeliverFail(c) \/ DeliverDone(c) PROVE PayloadInv'
    <2>1. PICK ok \in BOOLEAN : Answered(c, ok, Audience(message[c]))
        BY <1>4 DEF DeliverFail, DeliverDone
    <2>2. /\ Return(c) /\ pc[c] = "delivering"
          /\ UNCHANGED <<retained_messages, log, used>>
        BY <1>4 DEF DeliverFail, DeliverDone
    <2>3. message[c] # NoMessage
        BY <2>2, NoMessageAssumption DEF IInv, LocalInv
    <2>4. PICK a : a.message = message[c] /\ received' = received \cup {a}
        BY <2>1 DEF Answered
    <2>5. /\ \A r, s \in received' : r.message = s.message => r = s
          /\ \A r \in received' : r.message.payload \in used
        BY <2>3, <2>4 DEF PayloadInv
    <2>6. \A d \in Callers : message'[d] # NoMessage => d # c /\ message'[d] = message[d] /\ pc'[d] = pc[d]
        BY <2>2 DEF Return, Goto, TypeOK
    <2>7. \A d \in Callers : message'[d] # NoMessage => \A r \in received' : r.message # message'[d]
        BY <2>4, <2>6 DEF PayloadInv
    <2>8. QED
        BY <2>2, <2>5, <2>6, <2>7 DEF PayloadInv
<1>5. ASSUME NEW c \in Callers, OverflowPanic(c) \/ ReplayDone(c) \/ PanicOnPoison(c)
      PROVE  PayloadInv'
    BY <1>5, ReturnPayloadInv DEF OverflowPanic, ReplayDone, PanicOnPoison
<1>6. ASSUME NEW c \in Callers,
             \/ LockToRegister(c) \/ Register(c) \/ LockToReplay(c) \/ Unsubscribe(c)
             \/ LockToDeliver(c)
      PROVE  PayloadInv'
    <2>1. UNCHANGED <<message, retained_messages, log, used, received>>
        BY <1>6 DEF LockToRegister, Register, LockToReplay, Unsubscribe, LockToDeliver
    <2>2. \A d \in Callers : pc[d] \in {"to_deliver", "delivering"}
                                => pc'[d] \in {"to_deliver", "delivering"}
        BY <1>6 DEF LockToRegister, Register, LockToReplay, Unsubscribe, LockToDeliver, Goto, TypeOK
    <2>3. QED
        BY <2>1, <2>2 DEF PayloadInv
<1>7. ASSUME NEW c \in Callers, ClearRetained(c) PROVE PayloadInv'
    BY <1>7 DEF ClearRetained, PayloadInv
<1>8. CASE DropReceiver \/ UNCHANGED vars
    BY <1>8 DEF DropReceiver, vars, PayloadInv
<1>9. QED
    BY <1>1, <1>2, <1>3, <1>4, <1>5, <1>6, <1>7, <1>8 DEF Next, Call, Continue

--------------------------------------------------------------------------------
(* What is on a channel belongs to a subscription. *)

LEMMA InitEntryInv == Init => EntryInv
BY DEF Init, EntryInv

LEMMA NextEntryInv == IInv /\ EntryInv /\ [Next]_vars => EntryInv'
<1> SUFFICES ASSUME IInv, EntryInv, [Next]_vars, NEW ch \in Channels, NEW n \in DOMAIN log'[ch]
             PROVE  \E i \in DOMAIN pushed' :
                        /\ pushed'[i].tx = ch
                        /\ pushed'[i].id = log'[ch][n].subscription_id
                        /\ topic_matches(pushed'[i].topic, log'[ch][n].message.topic)
    BY DEF EntryInv
<1>1. CASE n \in DOMAIN log[ch]
    <2>1. log'[ch][n] = log[ch][n]
        BY <1>1, LogStays
    <2>2. QED
        BY <1>1, <2>1, PushedStays DEF EntryInv
<1>2. CASE n \notin DOMAIN log[ch]
    <2>1. PICK m \in Message, i \in subscriptions, replay \in BOOLEAN : SendsOne(m, i, replay)
        BY <1>2, LogStep
    <2>2. /\ Sends(m, i, replay) /\ TypeOK /\ topic_matches(pushed[i].topic, m.topic)
          /\ UNCHANGED pushed
        BY <2>1 DEF SendsOne, IInv, client
    <2> DEFINE tx == pushed[i].tx
    <2>3. /\ i \in DOMAIN pushed
          /\ DOMAIN log[tx] = 1..Len(log[tx]) /\ Len(log[tx]) \in Nat
          /\ DOMAIN log'[tx] = 1..(Len(log[tx]) + 1)
          /\ log'[tx][Len(log[tx]) + 1]
                = [message |-> m, subscription_id |-> pushed[i].id, replay |-> replay]
          /\ ch # tx => log'[ch] = log[ch]
        BY <2>2, SendsAppends
    <2>4. ch = tx
        BY <1>2, <2>3
    <2>5. n = Len(log[tx]) + 1
        BY <1>2, <2>3, <2>4
    <2>6. QED
        BY <2>2, <2>3, <2>4, <2>5
<1>3. QED
    BY <1>1, <1>2

--------------------------------------------------------------------------------
(* Why a subscription has not got the retained message of a topic yet. *)

\* The subscribe that made it will come to the topic.
AwaitsReplay(i, t) ==
    \E c \in Callers : /\ subscription[c] = i
                       /\ \/ pc[c] = "to_replay"
                          \/ pc[c] = "replaying" /\ t \in to_replay[c]

\* The simulate_receive that stored it will come to the subscription.
AwaitsDelivery(i, m) ==
    \E c \in Callers : /\ message[c] = m
                       /\ \/ pc[c] = "to_deliver"
                          \/ pc[c] = "delivering" /\ i \in pending[c]

\* The simulate_receive that stored it has ended, and not with Ok.
GivenUp(m) ==
    /\ \A c \in Callers : message[c] # m
    /\ \A r \in received : r.message = m => ~r.ok

Unsettled(i, t) ==
    \/ AwaitsReplay(i, t)
    \/ AwaitsDelivery(i, retained_messages[t])
    \/ GivenUp(retained_messages[t])

\* A subscription of the Vec with a receiver that should have the retained
\* message of topic t.
Entitled(i, t) ==
    /\ i \in subscriptions
    /\ retained_messages[t] # NoMessage
    /\ topic_matches(pushed[i].topic, t)
    /\ HasReceiver(i)

\* A reason for not having it, once there, holds until the message is sent; and
\* a new message, or a new subscription, begins with a reason.
LEMMA UnsettledStays ==
    ASSUME IInv, PayloadInv, [Next]_vars, NEW i \in Nat, NEW t \in Topics,
           Entitled(i, t)',
           Entitled(i, t) /\ UNCHANGED retained_messages[t] => Unsettled(i, t)
    PROVE  \/ Unsettled(i, t)'
           \/ /\ Entitled(i, t) /\ UNCHANGED retained_messages[t]
              /\ \E replay \in BOOLEAN : SendsOne(retained_messages[t], i, replay)
<1>0. /\ subscriptions \subseteq DOMAIN pushed
      /\ retained_messages \in [Topics -> Message \cup {NoMessage}]
      /\ pc \in [Callers -> Points]
      /\ message \in [Callers -> Message \cup {NoMessage}]
      /\ pending \in [Callers -> SUBSET Nat]
      /\ subscription \in [Callers -> Nat]
      /\ to_replay \in [Callers -> SUBSET Topics]
      /\ \A d \in Callers : pc[d] \in {"to_deliver", "delivering"} => message[d] # NoMessage
    BY NoMessageAssumption DEF IInv, TypeOK, LocalInv
<1> USE <1>0 DEF client, callers, channels, answers
\* Where neither the list nor the store changes, there is a reason to begin with.
<1>1. ASSUME UNCHANGED <<pushed, subscriptions, retained_messages>>
      PROVE  Entitled(i, t) /\ UNCHANGED retained_messages[t] /\ Unsettled(i, t)
    <2>1. Entitled(i, t)
        BY <1>1, ReceiversShrink DEF Entitled, HasReceiver
    <2>2. QED
        BY <1>1, <2>1
<1>2. ASSUME NEW c \in Callers, SimulateReceive(c) PROVE Unsettled(i, t)'
    <2>1. PICK m \in Message :
            /\ m.payload \notin used
            /\ message' = [message EXCEPT ![c] = m]
            /\ \/ retained_messages' = [retained_messages EXCEPT ![m.topic] = m]
               \/ UNCHANGED retained_messages
        BY <1>2 DEF SimulateReceive
    <2>2. /\ pc[c] = "idle" /\ pc' = [pc EXCEPT ![c] = "to_deliver"]
          /\ UNCHANGED <<pushed, subscriptions, pending, subscription, to_replay, receivers, received>>
        BY <1>2 DEF SimulateReceive, Goto
    <2>3. CASE retained_messages'[t] = m
        BY <2>1, <2>2, <2>3 DEF Unsettled, AwaitsDelivery
    <2>4. CASE retained_messages'[t] # m
        <3>1. retained_messages'[t] = retained_messages[t]
            BY <2>1, <2>4
        <3>2. Entitled(i, t) /\ Unsettled(i, t)
            BY <2>2, <3>1 DEF Entitled, HasReceiver
        <3>3. AwaitsReplay(i, t) => AwaitsReplay(i, t)'
            BY <2>2 DEF AwaitsReplay
        <3>4. AwaitsDelivery(i, retained_messages[t]) => AwaitsDelivery(i, retained_messages[t])'
            BY <2>1, <2>2, <3>1 DEF AwaitsDelivery
        <3>5. GivenUp(retained_messages[t]) => GivenUp(retained_messages[t])'
            BY <2>1, <2>2, <2>4, <3>1 DEF GivenUp
        <3>6. QED
            BY <3>1, <3>2, <3>3, <3>4, <3>5 DEF Unsettled
    <2>5. QED
        BY <2>3, <2>4
<1>3. ASSUME NEW c \in Callers, LockToDeliver(c) PROVE Unsettled(i, t)'
    <2>1. /\ pc[c] = "to_deliver" /\ pc' = [pc EXCEPT ![c] = "delivering"]
          /\ pending' = [pending EXCEPT ![c] = Audience(message[c])]
          /\ UNCHANGED <<pushed, subscriptions, retained_messages, message, subscription, to_replay,
                         received>>
        BY <1>3 DEF LockToDeliver, Goto
    <2>2. Entitled(i, t) /\ Unsettled(i, t)
        BY <1>1, <2>1
    <2>3. message[c] = retained_messages[t] => i \in Audience(message[c])
        BY <2>2 DEF Entitled, Audience, IInv, StoreInv
    <2>4. AwaitsReplay(i, t) => AwaitsReplay(i, t)'
        BY <2>1 DEF AwaitsReplay
    <2>5. AwaitsDelivery(i, retained_messages[t]) => AwaitsDelivery(i, retained_messages[t])'
        BY <2>1, <2>3 DEF AwaitsDelivery
    <2>6. GivenUp(retained_messages[t]) => GivenUp(retained_messages[t])'
        BY <2>1 DEF GivenUp
    <2>7. QED
        BY <2>2, <2>4, <2>5, <2>6 DEF Unsettled
<1>4. ASSUME NEW c \in Callers, DeliverNext(c)
      PROVE  \/ Unsettled(i, t)'
             \/ /\ Entitled(i, t) /\ UNCHANGED retained_messages[t]
                /\ \E replay \in BOOLEAN : SendsOne(retained_messages[t], i, replay)
    <2>1. PICK j \in pending[c] :
            /\ message[c] \in Message /\ j \in subscriptions
            /\ SendsOne(message[c], j, FALSE)
            /\ pending' = [pending EXCEPT ![c] = @ \ {j}]
        BY <1>4, DeliverNextSends
    <2>2. UNCHANGED <<pushed, subscriptions, retained_messages, pc, message, subscription, to_replay,
                      received>>
        BY <1>4 DEF DeliverNext
    <2>3. Entitled(i, t) /\ UNCHANGED retained_messages[t] /\ Unsettled(i, t)
        BY <1>1, <2>2
    <2>4. AwaitsReplay(i, t) => AwaitsReplay(i, t)'
        BY <2>2 DEF AwaitsReplay
    <2>5. GivenUp(retained_messages[t]) => GivenUp(retained_messages[t])'
        BY <2>2 DEF GivenUp
    <2>6. CASE i # j \/ message[c] # retained_messages[t]
        <3>1. AwaitsDelivery(i, retained_messages[t]) => AwaitsDelivery(i, retained_messages[t])'
            BY <2>1, <2>2, <2>6 DEF AwaitsDelivery
        <3>2. QED
            BY <2>2, <2>3, <2>4, <2>5, <3>1 DEF Unsettled
    <2>7. CASE i = j /\ message[c] = retained_messages[t]
        BY <2>1, <2>3, <2>7
    <2>8. QED
        BY <2>6, <2>7
<1>5. ASSUME NEW c \in Callers, DeliverFail(c) \/ DeliverDone(c) PROVE Unsettled(i, t)'
    <2>1. /\ Return(c) /\ pc[c] = "delivering"
          /\ UNCHANGED <<pushed, subscriptions, retained_messages>>
        BY <1>5 DEF DeliverFail, DeliverDone
    <2>2. Entitled(i, t) /\ Unsettled(i, t)
        BY <1>1, <2>1
    <2> PICK ok \in BOOLEAN : Answered(c, ok, Audience(message[c])) /\ (ok => pending[c] = {})
        BY <1>5 DEF DeliverFail, DeliverDone
    <2> DEFINE a == [message |-> message[c], ok |-> ok, count |-> sent_count[c],
                     audience |-> Audience(message[c])]
    <2>3. /\ a.message = message[c] /\ received' = received \cup {a}
          /\ a.ok \in BOOLEAN /\ (a.ok => pending[c] = {})
        BY DEF Answered
    <2> HIDE DEF a
    <2>4. AwaitsReplay(i, t) => AwaitsReplay(i, t)'
        BY <2>1 DEF AwaitsReplay, Return, Goto
    <2>5. CASE message[c] = retained_messages[t] /\ a.ok
        <3>1. ~AwaitsDelivery(i, retained_messages[t]) /\ ~GivenUp(retained_messages[t])
            BY <1>0, <2>1, <2>3, <2>5 DEF AwaitsDelivery, GivenUp, PayloadInv
        <3>2. QED
            BY <2>2, <2>4, <3>1 DEF Unsettled
    <2>6. CASE message[c] = retained_messages[t] /\ ~a.ok
        <3>1. GivenUp(retained_messages[t])'
            BY <1>0, <2>1, <2>3, <2>6 DEF GivenUp, PayloadInv, Return
        <3>2. QED
            BY <3>1 DEF Unsettled
    <2>7. CASE message[c] # retained_messages[t]
        <3>1. AwaitsDelivery(i, retained_messages[t]) => AwaitsDelivery(i, retained_messages[t])'
            BY <2>1, <2>7 DEF AwaitsDelivery, Return, Goto
        <3>2. GivenUp(retained_messages[t]) => GivenUp(retained_messages[t])'
            BY <2>1, <2>3, <2>7, <2>2 DEF GivenUp, Return, Entitled
        <3>3. QED
            BY <2>1, <2>2, <2>4, <3>1, <3>2 DEF Unsettled
    <2>8. QED
        BY <2>3, <2>5, <2>6, <2>7
<1>6. ASSUME NEW c \in Callers, LockToRegister(c) PROVE Unsettled(i, t)'
    <2>1. /\ pc[c] = "idle" /\ pc' = [pc EXCEPT ![c] = "to_take_id"]
          /\ UNCHANGED <<pushed, subscriptions, retained_messages, message, pending, subscription,
                         to_replay, received>>
        BY <1>6 DEF LockToRegister, Goto
    <2>2. Unsettled(i, t)
        BY <1>1, <2>1
    <2>3. QED
        BY <2>1, <2>2 DEF Unsettled, AwaitsReplay, AwaitsDelivery, GivenUp
<1>7. ASSUME NEW c \in Callers, Register(c) PROVE Unsettled(i, t)'
    <2>1. /\ pc[c] = "to_take_id" /\ pc' = [pc EXCEPT ![c] = "to_replay"]
          /\ subscription' = [subscription EXCEPT ![c] = Len(pushed) + 1]
          /\ subscriptions' = subscriptions \cup {Len(pushed) + 1}
          /\ UNCHANGED <<retained_messages, message, pending, to_replay, receivers, received>>
        BY <1>7 DEF Register, Goto
    <2>2. CASE i = Len(pushed) + 1
        BY <2>1, <2>2 DEF Unsettled, AwaitsReplay
    <2>3. CASE i # Len(pushed) + 1
        <3>1. i \in subscriptions /\ i \in DOMAIN pushed
            BY <2>1, <2>3 DEF Entitled
        <3>2. Entitled(i, t)
            BY <2>1, <3>1, PushedStays DEF Entitled, HasReceiver
        <3>3. Unsettled(i, t)
            BY <2>1, <3>2
        <3>4. QED
            BY <2>1, <3>3 DEF Unsettled, AwaitsReplay, AwaitsDelivery, GivenUp
    <2>4. QED
        BY <2>2, <2>3
<1>8. ASSUME NEW c \in Callers, OverflowPanic(c) \/ ReplayDone(c) PROVE Unsettled(i, t)'
    <2>1. /\ Return(c) /\ UNCHANGED <<pushed, subscriptions, retained_messages, received>>
          /\ pc[c] \in {"to_take_id", "replaying"}
          /\ pc[c] = "replaying" => to_replay[c] = {}
        BY <1>8 DEF OverflowPanic, ReplayDone
    <2>2. Unsettled(i, t)
        BY <1>1, <2>1
    <2>3. AwaitsReplay(i, t) => AwaitsReplay(i, t)'
        BY <2>1 DEF AwaitsReplay, Return, Goto
    <2>4. AwaitsDelivery(i, retained_messages[t]) => AwaitsDelivery(i, retained_messages[t])'
        BY <2>1 DEF AwaitsDelivery, Return, Goto
    <2>5. GivenUp(retained_messages[t]) => GivenUp(retained_messages[t])'
        BY <1>1, <2>1 DEF GivenUp, Return, Entitled
    <2>6. QED
        BY <2>2, <2>3, <2>4, <2>5 DEF Unsettled
<1>9. ASSUME NEW c \in Callers, LockToReplay(c) PROVE Unsettled(i, t)'
    <2>1. /\ pc[c] = "to_replay" /\ pc' = [pc EXCEPT ![c] = "replaying"]
          /\ to_replay' = [to_replay EXCEPT ![c] = RetainedFor(subscription[c])]
          /\ UNCHANGED <<pushed, subscriptions, retained_messages, message, pending, subscription,
                         received>>
        BY <1>9 DEF LockToReplay, Goto
    <2>2. Entitled(i, t) /\ Unsettled(i, t)
        BY <1>1, <2>1
    <2>3. subscription[c] = i => t \in RetainedFor(subscription[c])
        BY <2>2 DEF Entitled, RetainedFor
    <2>4. AwaitsReplay(i, t) => AwaitsReplay(i, t)'
        BY <2>1, <2>3 DEF AwaitsReplay
    <2>5. QED
        BY <2>1, <2>2, <2>4 DEF Unsettled, AwaitsDelivery, GivenUp
<1>10. ASSUME NEW c \in Callers, ReplayOne(c)
       PROVE  \/ Unsettled(i, t)'
              \/ /\ Entitled(i, t) /\ UNCHANGED retained_messages[t]
                 /\ \E replay \in BOOLEAN : SendsOne(retained_messages[t], i, replay)
    <2>1. PICK u \in to_replay[c] :
            /\ to_replay' = [to_replay EXCEPT ![c] = @ \ {u}]
            /\ \/ SendsOne(retained_messages[u], subscription[c], TRUE)
               \/ ~HasReceiver(subscription[c])
        BY <1>10, ReplayOneSends
    <2>2. UNCHANGED <<pushed, subscriptions, retained_messages, pc, message, pending, subscription,
                      received>>
        BY <1>10 DEF ReplayOne
    <2>3. Entitled(i, t) /\ UNCHANGED retained_messages[t] /\ Unsettled(i, t)
        BY <1>1, <2>2
    <2>4. CASE subscription[c] = i /\ u = t
        BY <2>1, <2>3, <2>4 DEF Entitled
    <2>5. CASE subscription[c] # i \/ u # t
        <3>1. AwaitsReplay(i, t) => AwaitsReplay(i, t)'
            BY <2>1, <2>2, <2>5 DEF AwaitsReplay
        <3>2. QED
            BY <2>2, <2>3, <3>1 DEF Unsettled, AwaitsDelivery, GivenUp
    <2>6. QED
        BY <2>4, <2>5
<1>11. ASSUME NEW c \in Callers, Unsubscribe(c) PROVE Unsettled(i, t)'
    <2>1. /\ subscriptions' \subseteq subscriptions
          /\ UNCHANGED <<pushed, retained_messages, callers, receivers, received>>
        BY <1>11 DEF Unsubscribe
    <2>2. Unsettled(i, t)
        BY <2>1 DEF Entitled, HasReceiver
    <2>3. QED
        BY <2>1, <2>2 DEF Unsettled, AwaitsReplay, AwaitsDelivery, GivenUp
<1>12. ASSUME NEW c \in Callers, ClearRetained(c) PROVE FALSE
    BY <1>12 DEF ClearRetained, Entitled
<1>13. ASSUME NEW c \in Callers, PanicOnPoison(c) PROVE Unsettled(i, t)'
    <2>1. /\ Return(c) /\ UNCHANGED <<pushed, subscriptions, retained_messages, received>>
        BY <1>13 DEF PanicOnPoison
    <2>2. pc[c] = "to_deliver"
        BY <1>13 DEF PanicOnPoison, Wanted, TypeOK, Points, IInv, PoisonInv, Free, PointsHolding
    <2>3. Entitled(i, t) /\ Unsettled(i, t)
        BY <1>1, <2>1
    <2>4. AwaitsReplay(i, t) => AwaitsReplay(i, t)'
        BY <2>1, <2>2 DEF AwaitsReplay, Return, Goto
    <2>5. CASE message[c] = retained_messages[t]
        <3>1. GivenUp(retained_messages[t])'
            BY <1>0, <2>1, <2>2, <2>5 DEF GivenUp, PayloadInv, Return
        <3>2. QED
            BY <3>1 DEF Unsettled
    <2>6. CASE message[c] # retained_messages[t]
        <3>1. AwaitsDelivery(i, retained_messages[t]) => AwaitsDelivery(i, retained_messages[t])'
            BY <2>1, <2>6 DEF AwaitsDelivery, Return, Goto
        <3>2. GivenUp(retained_messages[t]) => GivenUp(retained_messages[t])'
            BY <2>1, <2>3 DEF GivenUp, Return, Entitled
        <3>3. QED
            BY <2>3, <2>4, <3>1, <3>2 DEF Unsettled
    <2>7. QED
        BY <2>5, <2>6
<1>14. CASE DropReceiver \/ UNCHANGED vars
    <2>1. UNCHANGED <<pushed, subscriptions, retained_messages, callers, received>>
        BY <1>14 DEF DropReceiver, vars
    <2>2. Unsettled(i, t)
        BY <1>1, <2>1
    <2>3. QED
        BY <2>1, <2>2 DEF Unsettled, AwaitsReplay, AwaitsDelivery, GivenUp
<1>15. QED
    BY <1>2, <1>3, <1>4, <1>5, <1>6, <1>7, <1>8, <1>9, <1>10, <1>11, <1>12, <1>13, <1>14
       DEF Next, Call, Continue

--------------------------------------------------------------------------------
(* The retained message reaches every subscription, early or late. *)

\* Whoever is entitled to a retained message has got it, or there is a reason.
RetainedInv ==
    \A i \in Nat, t \in Topics :
        Entitled(i, t) => Got(i, retained_messages[t]) \/ Unsettled(i, t)

LEMMA SendsGot ==
    ASSUME IInv, NEW m \in Message, NEW i \in subscriptions, NEW replay \in BOOLEAN,
           SendsOne(m, i, replay)
    PROVE  Got(i, m)'
<1>1. Sends(m, i, replay) /\ TypeOK /\ UNCHANGED pushed
    BY DEF SendsOne, IInv, client
<1> DEFINE tx == pushed[i].tx
<1>2. /\ Len(log[tx]) \in Nat
      /\ DOMAIN log'[tx] = 1..(Len(log[tx]) + 1)
      /\ log'[tx][Len(log[tx]) + 1]
            = [message |-> m, subscription_id |-> pushed[i].id, replay |-> replay]
    BY <1>1, SendsAppends
<1>3. Len(log[tx]) + 1 \in DOMAIN log'[tx]
    BY <1>2
<1>4. QED
    BY <1>1, <1>2, <1>3 DEF Got

LEMMA NextRetainedInv == IInv /\ PayloadInv /\ RetainedInv /\ [Next]_vars => RetainedInv'
<1> SUFFICES ASSUME IInv, PayloadInv, RetainedInv, [Next]_vars, NEW i \in Nat, NEW t \in Topics,
                    Entitled(i, t)'
             PROVE  Got(i, retained_messages[t])' \/ Unsettled(i, t)'
    BY DEF RetainedInv
<1>1. CASE Entitled(i, t) /\ UNCHANGED retained_messages[t] /\ Got(i, retained_messages[t])
    <2>1. i \in DOMAIN pushed
        BY <1>1 DEF Entitled, IInv, TypeOK
    <2> DEFINE m == retained_messages[t]
    <2>2. Got(i, m) /\ m' = m
        BY <1>1
    <2> HIDE DEF m
    <2>3. \A x : Got(i, x) => Got(i, x)'
        BY <2>1, GotStays
    <2>4. QED
        BY <1>1, <2>3 DEF Got
<1>2. CASE Entitled(i, t) /\ UNCHANGED retained_messages[t] => Unsettled(i, t)
    <2>1. CASE /\ Entitled(i, t) /\ UNCHANGED retained_messages[t]
               /\ \E replay \in BOOLEAN : SendsOne(retained_messages[t], i, replay)
        <3>1. i \in subscriptions /\ retained_messages[t] \in Message
            BY <2>1 DEF Entitled, IInv, TypeOK
        <3>2. PICK replay \in BOOLEAN : SendsOne(retained_messages[t], i, replay)
            BY <2>1
        <3>3. \A m \in Message : SendsOne(m, i, replay) => Got(i, m)'
            BY <3>1, SendsGot
        <3>4. QED
            BY <2>1, <3>1, <3>2, <3>3 DEF Got
    <2>2. QED
        BY <1>2, <2>1, UnsettledStays
<1>3. QED
    BY <1>1, <1>2 DEF RetainedInv

LEMMA PayloadInductive == Spec => [](IInv /\ PayloadInv)
<1>1. Init => IInv /\ PayloadInv
    BY InitIInv, InitPayloadInv
<1>2. IInv /\ PayloadInv /\ [Next]_vars => (IInv /\ PayloadInv)'
    BY NextIInv, NextPayloadInv
<1>3. QED
    BY <1>1, <1>2, PTL DEF Spec

\* A subscription whose subscribe is over and that still has a receiver has been
\* sent the retained message of every topic its filter matches, once the
\* simulate_receive that stored it has answered Ok: the message is stored before
\* the list is locked, and a subscription is pushed before the store is read
\* (client.rs:76-81, 157-172).
THEOREM RetainedReaches == Spec => []RetainedReachesEverySubscriber
<1>1. Init => RetainedInv
    BY DEF Init, RetainedInv, Entitled
<1>2. IInv /\ PayloadInv /\ RetainedInv => RetainedReachesEverySubscriber
    <2> SUFFICES ASSUME IInv, PayloadInv, RetainedInv,
                        NEW r \in received, NEW i \in subscriptions,
                        r.ok, retained_messages[r.message.topic] = r.message,
                        topic_matches(pushed[i].topic, r.message.topic), HasReceiver(i),
                        \A c \in Callers : subscription[c] # i
                 PROVE  Got(i, r.message)
        BY DEF RetainedReachesEverySubscriber
    <2>1. r.message \in Message /\ r.message.topic \in Topics /\ i \in Nat
        BY DEF IInv, TypeOK, Outcome, Message
    <2>2. Entitled(i, r.message.topic)
        BY <2>1, NoMessageAssumption DEF Entitled
    <2>3. ~Unsettled(i, r.message.topic)
        BY <2>1, NoMessageAssumption DEF Unsettled, AwaitsReplay, AwaitsDelivery, GivenUp, PayloadInv
    <2>4. QED
        BY <2>1, <2>2, <2>3 DEF RetainedInv
<1>3. QED
    BY <1>1, <1>2, NextRetainedInv, PayloadInductive, PTL DEF Spec

--------------------------------------------------------------------------------
(* With one deliverer, the last retained message is the one in the store. *)

\* A set of places has a last one.
LEMMA LastExists ==
    ASSUME NEW k \in Nat, NEW S \in SUBSET (1..k), S # {}
    PROVE  \E x \in S : \A y \in S : y <= x
<1> DEFINE T == {k - x : x \in S}
<1>1. \A x \in S : x \in Nat /\ k - x \in Nat
    OBVIOUS
<1>2. T \subseteq Nat /\ T # {}
    BY <1>1
<1>3. PICK z \in T : \A y \in T : ~(<<y, z>> \in OpToRel(<, Nat))
    BY <1>2, NatLessThanWellFounded, WFMin
<1>4. \A y \in T : ~(y < z)
    BY <1>2, <1>3 DEF OpToRel
<1>5. PICK x \in S : z = k - x
    OBVIOUS
<1>6. ASSUME NEW y \in S PROVE y <= x
    <2>1. k - y \in T /\ ~(k - y < z)
        BY <1>4
    <2> HIDE DEF T
    <2>2. QED
        BY <1>1, <1>5, <2>1
<1>7. QED
    BY <1>6

OneDeliverer == \A c, d \in Deliverers : c = d

\* What a simulate_receive under way has stored is still in the store, unless
\* somebody cleared it; and only retained messages are in the store.
StoredInv ==
    /\ \A c \in Callers : message[c] # NoMessage =>
        /\ c \in Deliverers
        /\ message[c].retain => retained_messages[message[c].topic] \in {message[c], NoMessage}
    /\ \A t \in Topics : retained_messages[t] # NoMessage => retained_messages[t].retain

\* Subscription i was sent m, and from there on its channel has no other
\* retained message of the topic.
Latest(i, m) ==
    LET sent == log[pushed[i].tx]
    IN  \E n \in DOMAIN sent :
            /\ sent[n].message = m
            /\ sent[n].subscription_id = pushed[i].id
            /\ \A k \in DOMAIN sent :
                n <= k /\ sent[k].message.retain /\ sent[k].message.topic = m.topic
                    => sent[k].message = m

LatestInv ==
    \A i \in Nat, t \in Topics :
        Entitled(i, t) => Latest(i, retained_messages[t]) \/ Unsettled(i, t)

LEMMA NextStoredInv == OneDeliverer /\ IInv /\ StoredInv /\ [Next]_vars => StoredInv'
<1> SUFFICES ASSUME OneDeliverer, IInv, StoredInv, [Next]_vars PROVE StoredInv'
    OBVIOUS
<1>0. /\ retained_messages \in [Topics -> Message \cup {NoMessage}]
      /\ message \in [Callers -> Message \cup {NoMessage}]
      /\ \A m \in Message : m.topic \in Topics
    BY DEF IInv, TypeOK, Message
<1> USE <1>0, NoMessageAssumption DEF client, callers, channels, answers
<1>1. ASSUME NEW c \in Callers, SimulateReceive(c) PROVE StoredInv'
    <2>1. PICK m \in Message :
            /\ message' = [message EXCEPT ![c] = m]
            /\ \/ m.retain /\ retained_messages' = [retained_messages EXCEPT ![m.topic] = m]
               \/ ~m.retain /\ UNCHANGED retained_messages
        BY <1>1 DEF SimulateReceive
    <2>2. c \in Deliverers
        BY <1>1 DEF SimulateReceive
    <2>3. \A d \in Callers : message'[d] # NoMessage => d = c /\ message'[d] = m
        BY <2>1, <2>2 DEF StoredInv, OneDeliverer
    <2>4. \A t \in Topics : retained_messages'[t] # NoMessage => retained_messages'[t].retain
        BY <2>1 DEF StoredInv
    <2>5. m.retain => retained_messages'[m.topic] = m
        BY <2>1
    <2>6. QED
        BY <2>2, <2>3, <2>4, <2>5 DEF StoredInv
<1>2. ASSUME NEW c \in Callers, ClearRetained(c) PROVE StoredInv'
    <2>1. /\ UNCHANGED message
          /\ \A t \in Topics : retained_messages'[t] = NoMessage
        BY <1>2 DEF ClearRetained
    <2>2. QED
        BY <2>1 DEF StoredInv
<1>3. ASSUME NEW c \in Callers, UNCHANGED retained_messages,
             message' = [message EXCEPT ![c] = NoMessage]
      PROVE  StoredInv'
    BY <1>3 DEF StoredInv
<1>4. ASSUME UNCHANGED <<message, retained_messages>> PROVE StoredInv'
    BY <1>4 DEF StoredInv
<1>5. ASSUME NEW c \in Callers,
             \/ DeliverFail(c) \/ DeliverDone(c) \/ OverflowPanic(c) \/ ReplayDone(c)
             \/ PanicOnPoison(c)
      PROVE  StoredInv'
    BY <1>3, <1>5 DEF DeliverFail, DeliverDone, OverflowPanic, ReplayDone, PanicOnPoison, Return
<1>6. ASSUME NEW c \in Callers,
             \/ LockToDeliver(c) \/ DeliverNext(c) \/ LockToRegister(c) \/ Register(c)
             \/ LockToReplay(c) \/ ReplayOne(c) \/ Unsubscribe(c)
      PROVE  StoredInv'
    BY <1>4, <1>6 DEF LockToDeliver, DeliverNext, LockToRegister, Register, LockToReplay, ReplayOne,
        Unsubscribe
<1>7. CASE DropReceiver \/ UNCHANGED vars
    BY <1>4, <1>7 DEF DropReceiver, vars
<1>8. QED
    BY <1>1, <1>2, <1>5, <1>6, <1>7 DEF Next, Call, Continue

\* A retained message that is sent while the store has one of its topic is that
\* one.
LEMMA LogStepStored ==
    ASSUME IInv, StoredInv, [Next]_vars
    PROVE  \/ UNCHANGED log
           \/ \E m \in Message, i \in subscriptions, replay \in BOOLEAN :
                /\ SendsOne(m, i, replay)
                /\ m.retain => retained_messages[m.topic] \in {m, NoMessage}
<1>1. ASSUME NEW c \in Callers, DeliverNext(c)
      PROVE  \E m \in Message, i \in subscriptions, replay \in BOOLEAN :
                /\ SendsOne(m, i, replay)
                /\ m.retain => retained_messages[m.topic] \in {m, NoMessage}
    <2>1. PICK i \in pending[c] : message[c] \in Message /\ i \in subscriptions
                                  /\ SendsOne(message[c], i, FALSE)
        BY <1>1, DeliverNextSends
    <2>2. message[c].retain => retained_messages[message[c].topic] \in {message[c], NoMessage}
        BY <2>1, NoMessageAssumption DEF StoredInv
    <2>3. QED
        BY <2>1, <2>2
<1>2. ASSUME NEW c \in Callers, ReplayOne(c)
      PROVE  \/ UNCHANGED log
             \/ \E m \in Message, i \in subscriptions, replay \in BOOLEAN :
                  /\ SendsOne(m, i, replay)
                  /\ m.retain => retained_messages[m.topic] \in {m, NoMessage}
    BY <1>2, ReplayOneSends
<1>3. QED
    BY <1>1, <1>2, OthersSendNothing

LEMMA SendsLatest ==
    ASSUME IInv, NEW m \in Message, NEW i \in subscriptions, NEW replay \in BOOLEAN,
           SendsOne(m, i, replay)
    PROVE  Latest(i, m)'
<1>1. Sends(m, i, replay) /\ TypeOK /\ UNCHANGED pushed
    BY DEF SendsOne, IInv, client
<1> DEFINE tx == pushed[i].tx
<1>2. /\ Len(log[tx]) \in Nat
      /\ DOMAIN log'[tx] = 1..(Len(log[tx]) + 1)
      /\ log'[tx][Len(log[tx]) + 1]
            = [message |-> m, subscription_id |-> pushed[i].id, replay |-> replay]
    BY <1>1, SendsAppends
<1>3. /\ Len(log[tx]) + 1 \in DOMAIN log'[tx]
      /\ log'[tx][Len(log[tx]) + 1].message = m
      /\ log'[tx][Len(log[tx]) + 1].subscription_id = pushed[i].id
      /\ \A k \in DOMAIN log'[tx] : Len(log[tx]) + 1 <= k => k = Len(log[tx]) + 1
    BY <1>2
<1> HIDE DEF tx
<1>4. QED
    BY <1>1, <1>3 DEF Latest, tx

\* Nothing sent while m is in the store takes its place.
LEMMA LatestStays ==
    ASSUME IInv, StoredInv, [Next]_vars, NEW i \in subscriptions, NEW m \in Message,
           retained_messages[m.topic] = m, Latest(i, m)
    PROVE  Latest(i, m)'
<1> DEFINE tx == pushed[i].tx
<1>0. /\ pushed[i] \in Subscription /\ i \in DOMAIN pushed /\ pushed'[i] = pushed[i]
      /\ DOMAIN log[tx] \subseteq DOMAIN log'[tx]
      /\ \A n \in DOMAIN log[tx] : log'[tx][n] = log[tx][n]
    <2>1. pushed[i] \in Subscription /\ i \in DOMAIN pushed
        BY DEF IInv, TypeOK
    <2>2. QED
        BY <2>1, PushedStays, LogStays DEF Subscription
<1>1. \A k \in DOMAIN log'[tx] :
        (/\ k \notin DOMAIN log[tx]
         /\ log'[tx][k].message.retain /\ log'[tx][k].message.topic = m.topic)
        => log'[tx][k].message = m
    <2>1. CASE UNCHANGED log
        BY <2>1
    <2>2. ASSUME NEW x \in Message, NEW j \in subscriptions, NEW replay \in BOOLEAN,
                 SendsOne(x, j, replay), x.retain => retained_messages[x.topic] \in {x, NoMessage},
                 NEW k \in DOMAIN log'[tx], k \notin DOMAIN log[tx],
                 log'[tx][k].message.retain, log'[tx][k].message.topic = m.topic
          PROVE  log'[tx][k].message = m
        <3>1. Sends(x, j, replay) /\ TypeOK
            BY <2>2 DEF SendsOne, IInv
        <3>2. /\ DOMAIN log[pushed[j].tx] = 1..Len(log[pushed[j].tx])
              /\ Len(log[pushed[j].tx]) \in Nat
              /\ DOMAIN log'[pushed[j].tx] = 1..(Len(log[pushed[j].tx]) + 1)
              /\ log'[pushed[j].tx][Len(log[pushed[j].tx]) + 1]
                    = [message |-> x, subscription_id |-> pushed[j].id, replay |-> replay]
              /\ tx # pushed[j].tx => log'[tx] = log[tx]
            BY <1>0, <3>1, SendsAppends DEF Subscription
        <3>3. tx = pushed[j].tx
            BY <2>2, <3>2
        <3>4. k = Len(log[tx]) + 1
            BY <2>2, <3>2, <3>3
        <3>5. log'[tx][k].message = x
            BY <3>2, <3>3, <3>4
        <3>6. QED
            BY <2>2, <3>5, NoMessageAssumption
    <2>3. QED
        BY <2>1, <2>2, LogStepStored
<1>2. PICK n \in DOMAIN log[tx] :
        /\ log[tx][n].message = m
        /\ log[tx][n].subscription_id = pushed[i].id
        /\ \A k \in DOMAIN log[tx] :
            n <= k /\ log[tx][k].message.retain /\ log[tx][k].message.topic = m.topic
                => log[tx][k].message = m
    BY DEF Latest
<1> HIDE DEF tx
<1>3. /\ n \in DOMAIN log'[tx] /\ log'[tx][n].message = m
      /\ log'[tx][n].subscription_id = pushed[i].id
      /\ \A k \in DOMAIN log'[tx] :
            n <= k /\ log'[tx][k].message.retain /\ log'[tx][k].message.topic = m.topic
                => log'[tx][k].message = m
    BY <1>0, <1>1, <1>2
<1>4. QED
    BY <1>0, <1>3 DEF Latest, tx

LEMMA NextLatestInv ==
    IInv /\ PayloadInv /\ StoredInv /\ LatestInv /\ [Next]_vars => LatestInv'
<1> SUFFICES ASSUME IInv, PayloadInv, StoredInv, LatestInv, [Next]_vars,
                    NEW i \in Nat, NEW t \in Topics, Entitled(i, t)'
             PROVE  Latest(i, retained_messages[t])' \/ Unsettled(i, t)'
    BY DEF LatestInv
<1>1. Entitled(i, t) => /\ i \in subscriptions /\ retained_messages[t] \in Message
                        /\ retained_messages[t].topic = t
    BY DEF Entitled, IInv, TypeOK, StoreInv
<1>2. CASE Entitled(i, t) /\ UNCHANGED retained_messages[t] /\ Latest(i, retained_messages[t])
    <2>1. \A m \in Message : retained_messages[m.topic] = m /\ Latest(i, m) => Latest(i, m)'
        BY <1>1, <1>2, LatestStays
    <2>2. QED
        BY <1>1, <1>2, <2>1 DEF Latest
<1>3. CASE Entitled(i, t) /\ UNCHANGED retained_messages[t] => Unsettled(i, t)
    <2>1. CASE /\ Entitled(i, t) /\ UNCHANGED retained_messages[t]
               /\ \E replay \in BOOLEAN : SendsOne(retained_messages[t], i, replay)
        <3>1. PICK replay \in BOOLEAN : SendsOne(retained_messages[t], i, replay)
            BY <2>1
        <3>2. \A m \in Message : SendsOne(m, i, replay) => Latest(i, m)'
            BY <1>1, <2>1, SendsLatest
        <3>3. QED
            BY <1>1, <2>1, <3>1, <3>2 DEF Latest
    <2>2. QED
        BY <1>3, <2>1, UnsettledStays
<1>4. QED
    BY <1>2, <1>3 DEF LatestInv

LEMMA LatestInductive ==
    ASSUME OneDeliverer
    PROVE  Spec => [](IInv /\ PayloadInv /\ StoredInv /\ LatestInv)
<1>1. Init => StoredInv /\ LatestInv
    BY DEF Init, StoredInv, LatestInv, Entitled
<1>2. IInv /\ StoredInv /\ [Next]_vars => StoredInv'
    BY NextStoredInv
<1>3. QED
    BY <1>1, <1>2, NextLatestInv, PayloadInductive, PTL DEF Spec

\* Where nobody has a reason to wait, the subscription's latest message is that
\* of the store.
LEMMA SettledLatest ==
    ASSUME IInv, PayloadInv, LatestInv, NEW r \in received, NEW i \in subscriptions,
           r.ok, retained_messages[r.message.topic] = r.message,
           topic_matches(pushed[i].topic, r.message.topic), HasReceiver(i),
           \A c \in Callers : subscription[c] # i
    PROVE  r.message \in Message /\ Latest(i, r.message)
<1>1. r.message \in Message /\ r.message.topic \in Topics /\ i \in Nat
    BY DEF IInv, TypeOK, Outcome, Message
<1>2. Entitled(i, r.message.topic)
    BY <1>1, NoMessageAssumption DEF Entitled
<1>3. ~Unsettled(i, r.message.topic)
    BY <1>1, NoMessageAssumption DEF Unsettled, AwaitsReplay, AwaitsDelivery, GivenUp, PayloadInv
<1>4. QED
    BY <1>1, <1>2, <1>3 DEF LatestInv

\* As long as one caller delivers, the retained message a subscription was sent
\* last is the one in the store, so that it makes no difference when it
\* subscribed (client.rs:76-91, 164-172).
THEOREM LastSeenIsStored ==
    ASSUME OneDeliverer
    PROVE  Spec => []LastSeenIsRetained
<1>1. IInv /\ PayloadInv /\ StoredInv /\ LatestInv => LastSeenIsRetained
    <2> SUFFICES ASSUME IInv, PayloadInv, LatestInv,
                        NEW r \in received, NEW i \in subscriptions,
                        r.ok, r.message.retain, retained_messages[r.message.topic] = r.message,
                        topic_matches(pushed[i].topic, r.message.topic), HasReceiver(i),
                        \A c \in Callers : subscription[c] # i
                 PROVE  LastSeen(i, r.message.topic) = r.message
        BY DEF LastSeenIsRetained
    <2> DEFINE m == r.message
               sent == log[pushed[i].tx]
               seen == {n \in DOMAIN sent : /\ sent[n].subscription_id = pushed[i].id
                                            /\ sent[n].message.retain
                                            /\ sent[n].message.topic = m.topic}
               last == CHOOSE n \in seen : \A k \in seen : k <= n
    <2>1. m \in Message /\ Latest(i, m)
        BY SettledLatest
    <2>2. sent \in Seq(Entry)
        <3>1. pushed[i] \in Subscription
            BY DEF IInv, TypeOK
        <3>2. QED
            BY <3>1 DEF IInv, TypeOK, Subscription
    <2>3. PICK n \in DOMAIN sent :
            /\ sent[n].message = m
            /\ sent[n].subscription_id = pushed[i].id
            /\ \A k \in DOMAIN sent :
                n <= k /\ sent[k].message.retain /\ sent[k].message.topic = m.topic
                    => sent[k].message = m
        BY <2>1 DEF Latest
    <2>4. n \in seen
        BY <2>3
    <2>5. Len(sent) \in Nat /\ DOMAIN sent = 1..Len(sent)
        BY <2>2
    <2>6. seen \in SUBSET (1..Len(sent)) /\ seen # {}
        BY <2>4, <2>5
    <2> HIDE DEF seen, sent
    <2>7. \E x \in seen : \A k \in seen : k <= x
        BY <2>5, <2>6, LastExists
    <2>8. last \in seen /\ \A k \in seen : k <= last
        BY <2>7
    <2>9. last \in DOMAIN sent /\ n <= last
        BY <2>4, <2>5, <2>6, <2>8
    <2>10. sent[last].message = m
        BY <2>3, <2>8, <2>9 DEF seen
    <2>11. LastSeen(i, m.topic) = IF seen = {} THEN NoMessage ELSE sent[last].message
        BY DEF LastSeen, seen, sent
    <2>12. QED
        BY <2>6, <2>10, <2>11
<1>2. QED
    BY <1>1, LatestInductive, PTL

--------------------------------------------------------------------------------
(* The answer of simulate_receive tells who received the message. *)

\* Subscription i was sent m by simulate_receive.
HasCopy(i, m) ==
    \E n \in DOMAIN log[pushed[i].tx] :
        LET e == log[pushed[i].tx][n]
        IN  e.message = m /\ ~e.replay /\ e.subscription_id = pushed[i].id

\* The n copies of m went to the subscriptions in reached, one to each, and to
\* no other of the audience.
Told(m, n, audience, reached) ==
    /\ IsFiniteSet(LiveCopies(m)) /\ Cardinality(LiveCopies(m)) = n
    /\ IsFiniteSet(reached) /\ Cardinality(reached) = n
    /\ audience \subseteq DOMAIN pushed
    /\ reached = {i \in audience : HasCopy(i, m)}

\* At every point of the loop the subscriptions in front of the next one have
\* their copies, and what was answered keeps being true.
OutcomeInv ==
    /\ Len(pushed) <= MaxSubscribes
    /\ \A c \in Callers :
        /\ pc[c] = "idle" => sent_count[c] = 0
        /\ pc[c] = "to_deliver" => sent_count[c] = 0 /\ LiveCopies(message[c]) = {}
        /\ pc[c] = "delivering" =>
            /\ Told(message[c], sent_count[c], Audience(message[c]),
                    Audience(message[c]) \ pending[c])
            /\ \A i \in Audience(message[c]) \ pending[c], j \in pending[c] : i < j
    /\ \A r \in received :
        \E reached \in SUBSET r.audience :
            /\ Told(r.message, r.count, r.audience, reached)
            /\ r.ok => reached = r.audience
            /\ ~r.ok => \E dead \in r.audience \ reached :
                            /\ reached = {i \in r.audience : i < dead}
                            /\ ~HasReceiver(dead)

LEMMA LiveCopiesElements ==
    ASSUME NEW m, NEW ch, NEW n
    PROVE  <<ch, n>> \in LiveCopies(m)
                <=> /\ ch \in Channels /\ n \in DOMAIN log[ch]
                    /\ log[ch][n].message = m /\ ~log[ch][n].replay
BY DEF LiveCopies

LEMMA LiveCopiesArePairs ==
    ASSUME NEW m, NEW x \in LiveCopies(m)
    PROVE  \E ch \in Channels : \E n \in DOMAIN log[ch] :
                x = <<ch, n>> /\ log[ch][n].message = m /\ ~log[ch][n].replay
BY DEF LiveCopies

\* The copies of a message that is not being delivered stay the same.
LEMMA CopiesStay ==
    ASSUME IInv, [Next]_vars, NEW m, \A c \in Callers : DeliverNext(c) => message[c] # m
    PROVE  /\ LiveCopies(m)' = LiveCopies(m)
           /\ \A i \in DOMAIN pushed : HasCopy(i, m)' <=> HasCopy(i, m)
<1>1. /\ \A i \in DOMAIN pushed : i \in DOMAIN pushed' /\ pushed'[i] = pushed[i]
      /\ \A ch \in Channels : \A n \in DOMAIN log[ch] :
             n \in DOMAIN log'[ch] /\ log'[ch][n] = log[ch][n]
    BY PushedStays, LogStays
<1>2. \A i \in DOMAIN pushed : pushed[i].tx \in Channels
    <2>1. \A i \in DOMAIN pushed : pushed[i] \in Subscription
        BY DEF IInv, TypeOK
    <2>2. QED
        BY <2>1 DEF Subscription
<1>3. \A ch \in Channels : \A n \in DOMAIN log'[ch] :
        n \notin DOMAIN log[ch] => log'[ch][n].message # m \/ log'[ch][n].replay
    <2>1. ASSUME NEW x \in Message, NEW i \in subscriptions, NEW replay \in BOOLEAN,
                 SendsOne(x, i, replay), x # m \/ replay,
                 NEW ch \in Channels, NEW n \in DOMAIN log'[ch], n \notin DOMAIN log[ch]
          PROVE  log'[ch][n].message # m \/ log'[ch][n].replay
        <3>1. Sends(x, i, replay) /\ TypeOK
            BY <2>1 DEF SendsOne, IInv
        <3> DEFINE tx == pushed[i].tx
        <3>2. /\ DOMAIN log[tx] = 1..Len(log[tx]) /\ Len(log[tx]) \in Nat
              /\ DOMAIN log'[tx] = 1..(Len(log[tx]) + 1)
              /\ log'[tx][Len(log[tx]) + 1]
                    = [message |-> x, subscription_id |-> pushed[i].id, replay |-> replay]
              /\ ch # tx => log'[ch] = log[ch]
            BY <3>1, SendsAppends
        <3>3. ch = tx
            BY <2>1, <3>2
        <3>4. n = Len(log[tx]) + 1
            BY <2>1, <3>2, <3>3
        <3>5. log'[ch][n].message = x /\ log'[ch][n].replay = replay
            BY <3>2, <3>3, <3>4
        <3>6. QED
            BY <2>1, <3>5
    <2>2. ASSUME NEW c \in Callers, DeliverNext(c)
          PROVE  \E x \in Message, i \in subscriptions, replay \in BOOLEAN :
                    SendsOne(x, i, replay) /\ (x # m \/ replay)
        BY <2>2, DeliverNextSends
    <2>3. ASSUME NEW c \in Callers, ReplayOne(c), log' # log
          PROVE  \E x \in Message, i \in subscriptions, replay \in BOOLEAN :
                    SendsOne(x, i, replay) /\ (x # m \/ replay)
        BY <2>3, ReplayOneSends
    <2>4. CASE UNCHANGED log
        BY <2>4
    <2>5. QED
        BY <2>1, <2>2, <2>3, <2>4, OthersSendNothing
<1>4. \A ch \in Channels : \A n :
        (/\ n \in DOMAIN log'[ch] /\ log'[ch][n].message = m /\ ~log'[ch][n].replay)
        <=> (/\ n \in DOMAIN log[ch] /\ log[ch][n].message = m /\ ~log[ch][n].replay)
    BY <1>1, <1>3
<1>5. LiveCopies(m)' = LiveCopies(m)
    BY <1>4 DEF LiveCopies
<1>6. \A i \in DOMAIN pushed : HasCopy(i, m)' <=> HasCopy(i, m)
    BY <1>1, <1>2, <1>3 DEF HasCopy
<1>7. QED
    BY <1>5, <1>6

LEMMA ToldStays ==
    ASSUME IInv, [Next]_vars, NEW m, \A c \in Callers : DeliverNext(c) => message[c] # m,
           NEW n, NEW audience, NEW reached, Told(m, n, audience, reached)
    PROVE  Told(m, n, audience, reached)'
<1>1. LiveCopies(m)' = LiveCopies(m) /\ \A i \in DOMAIN pushed : HasCopy(i, m)' <=> HasCopy(i, m)
    BY CopiesStay
<1>2. DOMAIN pushed \subseteq DOMAIN pushed'
    BY PushedStays
<1>3. QED
    BY <1>1, <1>2 DEF Told

\* While a caller delivers, it holds the list: nobody else sends, and the list
\* and what the caller has in hand change by its own steps alone.
LEMMA DeliveringAlone ==
    ASSUME IInv, [Next]_vars, NEW c \in Callers, pc[c] = "delivering", pc'[c] = "delivering",
           ~DeliverNext(c)
    PROVE  /\ UNCHANGED <<pushed, subscriptions, message[c], pending[c], sent_count[c]>>
           /\ \A d \in Callers : ~DeliverNext(d)
<1>0. /\ pc \in [Callers -> Points] /\ message \in [Callers -> Message \cup {NoMessage}]
      /\ pending \in [Callers -> SUBSET Nat] /\ sent_count \in [Callers -> Nat]
      /\ \A d \in Callers : d # c => pc[d] \in {"idle", "to_deliver"}
      /\ ~Acquires("subscriptions")
    BY DEF IInv, TypeOK, LockInv, Locks, PointsHolding, Points, Acquires, Free
<1> USE <1>0 DEF client, callers, channels, answers
<1>1. \A d \in Callers : ~DeliverNext(d)
    BY DEF DeliverNext
<1>2. ASSUME NEW d \in Callers, Call(d)
      PROVE  UNCHANGED <<pushed, subscriptions, message[c], pending[c], sent_count[c]>>
    BY <1>2 DEF Call, SimulateReceive, LockToRegister, Unsubscribe, ClearRetained
<1>3. ASSUME NEW d \in Callers, Continue(d)
      PROVE  UNCHANGED <<pushed, subscriptions, message[c], pending[c], sent_count[c]>>
    <2>1. CASE d = c
        BY <1>1, <1>3, <2>1 DEF Continue, LockToDeliver, DeliverFail, DeliverDone, Register,
            OverflowPanic, LockToReplay, ReplayOne, ReplayDone, PanicOnPoison, Return, Goto, Wanted
    <2>2. CASE d # c
        BY <1>1, <1>3, <2>2 DEF Continue, LockToDeliver, DeliverFail, DeliverDone, Register,
            OverflowPanic, LockToReplay, ReplayOne, ReplayDone, PanicOnPoison, Return
    <2>3. QED
        BY <2>1, <2>2
<1>4. CASE DropReceiver \/ UNCHANGED vars
    BY <1>1, <1>4 DEF DropReceiver, vars
<1>5. QED
    BY <1>1, <1>2, <1>3, <1>4 DEF Next

\* No two subscriptions have the same id.
LEMMA OwnIds ==
    ASSUME OverflowChecks \/ MaxSubscribes <= IdLimit, IInv, Len(pushed) <= MaxSubscribes,
           NEW i \in DOMAIN pushed, NEW j \in DOMAIN pushed, pushed[i].id = pushed[j].id
    PROVE  i = j
<1>1. Len(pushed) \in Nat /\ IdLimit \in Nat /\ MaxSubscribes \in Nat
    BY ConstantsAssumption DEF IInv, TypeOK
<1>2. i \in 1..Len(pushed) /\ j \in 1..Len(pushed)
    BY DEF IInv, TypeOK
<1>3. IdsUnique
    BY IInvIdsUnique
<1>4. ~(i < j) /\ ~(j < i)
    BY <1>1, <1>2, <1>3 DEF IdsUnique
<1>5. QED
    BY <1>2, <1>4

\* The next subscription of the loop gets the copy that is sent for it, and no
\* other subscription does.
LEMMA DeliverNextTold ==
    ASSUME OverflowChecks \/ MaxSubscribes <= IdLimit, IInv, OutcomeInv, [Next]_vars,
           NEW c \in Callers, DeliverNext(c)
    PROVE  /\ Told(message[c], sent_count[c], Audience(message[c]),
                   Audience(message[c]) \ pending[c])'
           /\ \A i \in Audience(message[c])' \ pending'[c], j \in pending'[c] : i < j
<1> PICK m : m = message[c]
    OBVIOUS
<1> PICK sent : sent = sent_count[c]
    OBVIOUS
<1> PICK audience : audience = Audience(m)
    OBVIOUS
<1> PICK reached : reached = audience \ pending[c]
    OBVIOUS
<1>1. PICK i \in pending[c] :
        /\ m \in Message /\ i \in subscriptions /\ Upcoming(c, i)
        /\ SendsOne(m, i, FALSE)
        /\ pending' = [pending EXCEPT ![c] = @ \ {i}]
    BY DeliverNextSends
<1>2. /\ Sends(m, i, FALSE) /\ TypeOK
      /\ UNCHANGED <<pushed, subscriptions, message, pc>>
      /\ sent_count' = [sent_count EXCEPT ![c] = @ + 1]
      /\ pc[c] = "delivering"
    BY <1>1 DEF SendsOne, IInv, client, DeliverNext
<1>3. /\ Told(m, sent, audience, reached)
      /\ \A k \in reached, j \in pending[c] : k < j
    BY <1>2 DEF OutcomeInv
<1>4. pending[c] \subseteq audience /\ pending[c] \subseteq Nat /\ sent_count[c] \in Nat
    BY <1>2 DEF IInv, LocalInv, TypeOK
<1>5. Audience(message[c])' = audience /\ pending'[c] = pending[c] \ {i}
    BY <1>1, <1>2 DEF Audience, TypeOK
<1>6. audience \ pending'[c] = reached \cup {i} /\ i \notin reached /\ i \in audience
    BY <1>1, <1>4, <1>5
<1> PICK tx : tx = pushed[i].tx
    OBVIOUS
<1> PICK place : place = Len(log[tx]) + 1
    OBVIOUS
<1>7. /\ i \in DOMAIN pushed /\ tx \in Channels
      /\ DOMAIN log[tx] = 1..Len(log[tx]) /\ Len(log[tx]) \in Nat
      /\ DOMAIN log'[tx] = 1..place
      /\ log'[tx][place] = [message |-> m, subscription_id |-> pushed[i].id, replay |-> FALSE]
      /\ \A n \in DOMAIN log[tx] : log'[tx][n] = log[tx][n]
      /\ \A ch \in Channels : ch # tx => log'[ch] = log[ch]
    BY <1>1, <1>2, SendsAppends
<1>8. /\ log'[tx][place].message = m /\ ~log'[tx][place].replay
      /\ log'[tx][place].subscription_id = pushed[i].id
      /\ place \notin DOMAIN log[tx]
      /\ DOMAIN log'[tx] = DOMAIN log[tx] \cup {place}
    BY <1>7
<1>9. /\ LiveCopies(m)' = LiveCopies(m) \cup {<<tx, place>>}
      /\ <<tx, place>> \notin LiveCopies(m)
    <2>1. \A ch \in Channels : \A n :
            (/\ n \in DOMAIN log'[ch] /\ log'[ch][n].message = m /\ ~log'[ch][n].replay)
            <=> \/ n \in DOMAIN log[ch] /\ log[ch][n].message = m /\ ~log[ch][n].replay
                \/ ch = tx /\ n = place
        BY <1>7, <1>8
    <2>2. <<tx, place>> \notin LiveCopies(m)
        BY <1>8, LiveCopiesElements
    <2>3. \A x : x \in LiveCopies(m)' <=> x \in LiveCopies(m) \/ x = <<tx, place>>
        BY <1>7, <2>1 DEF LiveCopies
    <2>4. QED
        BY <2>2, <2>3
<1>10. \A j \in audience : HasCopy(j, m)' <=> HasCopy(j, m) \/ j = i
    <2> SUFFICES ASSUME NEW j \in audience PROVE HasCopy(j, m)' <=> HasCopy(j, m) \/ j = i
        OBVIOUS
    <2>1. j \in DOMAIN pushed /\ pushed'[j] = pushed[j] /\ pushed[j] \in Subscription
        BY <1>2 DEF Audience, TypeOK
    <2>2. pushed[j].tx \in Channels
        BY <2>1 DEF Subscription
    <2>3. CASE pushed[j].tx # tx
        BY <1>7, <2>1, <2>2, <2>3 DEF HasCopy
    <2>4. CASE pushed[j].tx = tx
        <3>1. /\ HasCopy(j, m) <=> \E n \in DOMAIN log[tx] :
                    /\ log[tx][n].message = m /\ ~log[tx][n].replay
                    /\ log[tx][n].subscription_id = pushed[j].id
              /\ HasCopy(j, m)' <=> \E n \in DOMAIN log'[tx] :
                    /\ log'[tx][n].message = m /\ ~log'[tx][n].replay
                    /\ log'[tx][n].subscription_id = pushed[j].id
            BY <2>1, <2>4 DEF HasCopy
        <3>2. HasCopy(j, m)' <=> HasCopy(j, m) \/ pushed[j].id = pushed[i].id
            BY ONLY <1>7, <1>8, <3>1
        <3>3. pushed[j].id = pushed[i].id => j = i
            BY <1>7, <2>1, OwnIds DEF OutcomeInv
        <3>4. QED
            BY <3>2, <3>3
    <2>5. QED
        BY <2>3, <2>4
<1>11. /\ IsFiniteSet(LiveCopies(m)') /\ Cardinality(LiveCopies(m)') = sent + 1
       /\ IsFiniteSet(reached \cup {i}) /\ Cardinality(reached \cup {i}) = sent + 1
    <2>1. /\ IsFiniteSet(LiveCopies(m)) /\ Cardinality(LiveCopies(m)) = sent
          /\ IsFiniteSet(reached) /\ Cardinality(reached) = sent
        BY <1>3 DEF Told
    <2>2. /\ IsFiniteSet(LiveCopies(m) \cup {<<tx, place>>})
          /\ Cardinality(LiveCopies(m) \cup {<<tx, place>>}) = Cardinality(LiveCopies(m)) + 1
        BY <1>9, <2>1, FS_AddElement
    <2>3. /\ IsFiniteSet(reached \cup {i})
          /\ Cardinality(reached \cup {i}) = Cardinality(reached) + 1
        BY <1>6, <2>1, FS_AddElement
    <2>4. QED
        BY <1>9, <2>1, <2>2, <2>3
<1>12. reached \cup {i} = {j \in audience : HasCopy(j, m)'}
    BY <1>3, <1>6, <1>10 DEF Told
<1>13. audience \subseteq DOMAIN pushed
    BY <1>3 DEF Told
<1>14. sent_count'[c] = sent + 1 /\ message'[c] = m
    BY <1>2 DEF TypeOK
<1>15. Told(message[c], sent_count[c], Audience(message[c]), Audience(message[c]) \ pending[c])'
    <2>1. Told(m, sent + 1, audience, reached \cup {i})'
        BY <1>2, <1>11, <1>12, <1>13 DEF Told
    <2>2. QED
        BY <1>5, <1>6, <1>14, <2>1
<1>16. \A k \in audience \ pending'[c], j \in pending'[c] : k < j
    <2>1. \A j \in pending[c] : i <= j
        BY <1>1 DEF Upcoming
    <2>2. \A k \in reached \cup {i}, j \in pending[c] \ {i} : k < j
        BY <1>1, <1>3, <1>4, <2>1
    <2>3. QED
        BY <1>5, <1>6, <2>2
<1>17. QED
    BY <1>5, <1>15, <1>16

\* What a step does to the part of a caller in a simulate_receive.
LEMMA CallerMoves ==
    ASSUME IInv, [Next]_vars, NEW c \in Callers
    PROVE  \/ SimulateReceive(c) \/ LockToDeliver(c) \/ DeliverNext(c)
           \/ UNCHANGED <<pc[c], message[c], pending[c], sent_count[c]>>
           \/ pc'[c] = "idle" /\ sent_count'[c] = 0
           \/ pc'[c] \in {"to_take_id", "to_replay", "replaying"}
<1>0. /\ pc \in [Callers -> Points] /\ message \in [Callers -> Message \cup {NoMessage}]
      /\ pending \in [Callers -> SUBSET Nat] /\ sent_count \in [Callers -> Nat]
    BY DEF IInv, TypeOK
<1> USE <1>0 DEF client, callers, channels, answers, Goto
<1> DEFINE Moves == \/ SimulateReceive(c) \/ LockToDeliver(c) \/ DeliverNext(c)
                    \/ UNCHANGED <<pc[c], message[c], pending[c], sent_count[c]>>
                    \/ pc'[c] = "idle" /\ sent_count'[c] = 0
                    \/ pc'[c] \in {"to_take_id", "to_replay", "replaying"}
<1>1. ASSUME NEW d \in Callers, SimulateReceive(d) \/ LockToDeliver(d) \/ DeliverNext(d) PROVE Moves
    <2>1. CASE d = c
        BY <1>1, <2>1
    <2>2. CASE d # c
        BY <1>1, <2>2 DEF SimulateReceive, LockToDeliver, DeliverNext
    <2>3. QED
        BY <2>1, <2>2
<1>2. ASSUME NEW d \in Callers,
             LockToRegister(d) \/ Register(d) \/ LockToReplay(d) \/ ReplayOne(d)
      PROVE  Moves
    BY <1>2 DEF LockToRegister, Register, LockToReplay, ReplayOne
<1>3. ASSUME NEW d \in Callers, Return(d) PROVE Moves
    BY <1>3 DEF Return
<1>4. ASSUME NEW d \in Callers, Unsubscribe(d) \/ ClearRetained(d) PROVE Moves
    BY <1>4 DEF Unsubscribe, ClearRetained
<1>5. CASE DropReceiver \/ UNCHANGED vars
    BY <1>5 DEF DropReceiver, vars
<1> HIDE DEF Moves
<1>6. ASSUME NEW d \in Callers, Call(d) \/ Continue(d) PROVE Moves
    BY <1>1, <1>2, <1>3, <1>4, <1>6 DEF Call, Continue, DeliverFail, DeliverDone, OverflowPanic,
        ReplayDone, PanicOnPoison
<1>7. QED
    BY <1>5, <1>6 DEF Next, Moves

LEMMA NextOutcomeCallers ==
    ASSUME OverflowChecks \/ MaxSubscribes <= IdLimit, IInv, PayloadInv, OutcomeInv, [Next]_vars,
           NEW c \in Callers
    PROVE  /\ pc'[c] = "idle" => sent_count'[c] = 0
           /\ pc'[c] = "to_deliver" => sent_count'[c] = 0 /\ LiveCopies(message[c])' = {}
           /\ pc'[c] = "delivering" =>
                /\ Told(message[c], sent_count[c], Audience(message[c]),
                        Audience(message[c]) \ pending[c])'
                /\ \A i \in Audience(message[c])' \ pending'[c], j \in pending'[c] : i < j
<1>0. /\ pc \in [Callers -> Points] /\ message \in [Callers -> Message \cup {NoMessage}]
      /\ pending \in [Callers -> SUBSET Nat] /\ sent_count \in [Callers -> Nat]
    BY DEF IInv, TypeOK
<1> PICK m : m = message[c]
    OBVIOUS
<1>1. CASE SimulateReceive(c)
    <2>1. PICK x \in Message : x.payload \notin used /\ message' = [message EXCEPT ![c] = x]
        BY <1>1 DEF SimulateReceive
    <2>2. /\ pc[c] = "idle" /\ pc'[c] = "to_deliver"
          /\ UNCHANGED <<log, sent_count>>
        BY <1>0, <1>1 DEF SimulateReceive, Goto, channels
    <2>3. \A ch \in Channels : \A n \in DOMAIN log[ch] : log[ch][n].message # x
        BY <2>1 DEF PayloadInv
    <2>4. LiveCopies(x)' = {}
        BY <2>2, <2>3 DEF LiveCopies
    <2>5. message'[c] = x
        BY <1>0, <2>1
    <2>6. LiveCopies(message[c])' = {}
        BY <2>4, <2>5 DEF LiveCopies
    <2>7. QED
        BY <2>2, <2>6 DEF OutcomeInv
<1>2. CASE LockToDeliver(c)
    <2>1. /\ pc[c] = "to_deliver" /\ pc'[c] = "delivering"
          /\ UNCHANGED <<pushed, subscriptions, message, sent_count, log>>
          /\ pending'[c] = Audience(m)
        BY <1>0, <1>2 DEF LockToDeliver, Goto, client, channels
    <2>2. LiveCopies(m) = {} /\ sent_count[c] = 0
        BY <2>1 DEF OutcomeInv
    <2>3. \A i \in Audience(m) : ~HasCopy(i, m) /\ i \in DOMAIN pushed
        <3>1. ASSUME NEW i \in Audience(m) PROVE ~HasCopy(i, m) /\ i \in DOMAIN pushed
            <4>1. i \in DOMAIN pushed /\ pushed[i] \in Subscription
                BY DEF Audience, IInv, TypeOK
            <4>2. pushed[i].tx \in Channels
                BY <4>1 DEF Subscription
            <4>3. ASSUME NEW n \in DOMAIN log[pushed[i].tx]
                  PROVE  ~(log[pushed[i].tx][n].message = m /\ ~log[pushed[i].tx][n].replay)
                <5>1. <<pushed[i].tx, n>> \notin LiveCopies(m)
                    BY <2>2
                <5>2. QED
                    BY <4>2, <5>1, LiveCopiesElements
            <4>4. QED
                BY <4>1, <4>3 DEF HasCopy
        <3>2. QED
            BY <3>1
    <2>4. Told(m, 0, Audience(m), {})
        BY <2>2, <2>3, FS_EmptySet DEF Told
    <2>5. \A c1 \in Callers : ~DeliverNext(c1) \/ message[c1] # m
        BY <1>2, <2>1 DEF LockToDeliver, DeliverNext, PayloadInv, IInv, LocalInv, LockInv,
            Acquires, Free, PointsHolding
    <2> PICK audience : audience = Audience(m)
        OBVIOUS
    <2>6. Told(m, 0, audience, {})'
        BY <2>4, <2>5, ToldStays
    <2>7. Audience(message[c])' = audience /\ message'[c] = m /\ sent_count'[c] = 0
        BY <2>1, <2>2 DEF Audience
    <2>8. Audience(message[c])' \ pending'[c] = {}
        BY <2>1, <2>7
    <2>9. QED
        BY <2>1, <2>6, <2>7, <2>8
<1>3. CASE DeliverNext(c)
    <2>1. pc'[c] = "delivering"
        BY <1>3 DEF DeliverNext
    <2>2. QED
        BY <1>3, <2>1, DeliverNextTold
<1>4. CASE UNCHANGED <<pc[c], message[c], pending[c], sent_count[c]>> /\ ~DeliverNext(c)
    <2>1. CASE pc[c] = "to_deliver"
        <3>1. \A d \in Callers : DeliverNext(d) => message[d] # m
            BY <1>4, <2>1, NoMessageAssumption DEF PayloadInv, IInv, LocalInv
        <3>2. LiveCopies(m)' = {}
            BY <2>1, <3>1, CopiesStay DEF OutcomeInv
        <3>3. message'[c] = m
            BY <1>4
        <3>4. LiveCopies(message[c])' = {}
            BY <3>2, <3>3 DEF LiveCopies
        <3>5. QED
            BY <1>4, <2>1, <3>4 DEF OutcomeInv
    <2>2. CASE pc[c] = "delivering"
        <3>1. /\ UNCHANGED <<pushed, subscriptions, message[c], pending[c], sent_count[c]>>
              /\ \A d \in Callers : ~DeliverNext(d)
            BY <1>4, <2>2, DeliveringAlone
        <3> PICK audience, reached, n :
                audience = Audience(m) /\ reached = audience \ pending[c] /\ n = sent_count[c]
            OBVIOUS
        <3>2. /\ Told(m, n, audience, reached)
              /\ \A i \in reached, j \in pending[c] : i < j
            BY <2>2 DEF OutcomeInv
        <3>3. Told(m, n, audience, reached)'
            BY <3>1, <3>2, ToldStays
        <3>4. /\ Audience(message[c])' = audience /\ message'[c] = m /\ sent_count'[c] = n
              /\ pending'[c] = pending[c]
            BY <3>1 DEF Audience
        <3>5. QED
            BY <2>2, <1>4, <3>2, <3>3, <3>4
    <2>3. CASE pc[c] \notin {"to_deliver", "delivering"}
        BY <1>4, <2>3 DEF OutcomeInv
    <2>4. QED
        BY <2>1, <2>2, <2>3
<1>5. QED
    BY <1>1, <1>2, <1>3, <1>4, CallerMoves

LEMMA NextOutcomeReceived ==
    ASSUME IInv, PayloadInv, OutcomeInv, [Next]_vars, NEW r \in received'
    PROVE  \E reached \in SUBSET r.audience :
               /\ Told(r.message, r.count, r.audience, reached)'
               /\ r.ok => reached = r.audience
               /\ ~r.ok => \E dead \in r.audience \ reached :
                               /\ reached = {i \in r.audience : i < dead}
                               /\ ~HasReceiver(dead)'
<1>1. CASE r \in received
    <2>1. PICK reached \in SUBSET r.audience :
            /\ Told(r.message, r.count, r.audience, reached)
            /\ r.ok => reached = r.audience
            /\ ~r.ok => \E dead \in r.audience \ reached :
                            /\ reached = {i \in r.audience : i < dead}
                            /\ ~HasReceiver(dead)
        BY <1>1 DEF OutcomeInv
    <2>2. \A c \in Callers : DeliverNext(c) => message[c] # r.message
        BY <1>1, NoMessageAssumption DEF DeliverNext, PayloadInv, IInv, LocalInv
    <2>3. Told(r.message, r.count, r.audience, reached)'
        BY <2>1, <2>2, ToldStays
    <2>4. ASSUME NEW dead \in r.audience, ~HasReceiver(dead) PROVE ~HasReceiver(dead)'
        <3>1. dead \in DOMAIN pushed
            BY <2>1, <2>4 DEF Told
        <3>2. QED
            BY <2>4, <3>1, PushedStays, ReceiversShrink DEF HasReceiver
    <2>5. QED
        BY <2>1, <2>3, <2>4
<1>2. CASE r \notin received
    <2>1. PICK c \in Callers : DeliverFail(c) \/ DeliverDone(c)
        BY <1>2 DEF Next, Call, Continue, SimulateReceive, LockToRegister, Unsubscribe,
            ClearRetained, LockToDeliver, DeliverNext, Register, OverflowPanic, LockToReplay,
            ReplayOne, ReplayDone, PanicOnPoison, DropReceiver, vars, answers
    <2> DEFINE reached == Audience(message[c]) \ pending[c]
    <2>2. PICK ok \in BOOLEAN :
            /\ Answered(c, ok, Audience(message[c]))
            /\ ok => pending[c] = {}
            /\ ~ok => \E i \in pending[c] : Upcoming(c, i) /\ ~HasReceiver(i)
        BY <2>1 DEF DeliverFail, DeliverDone
    <2>3. r = [message |-> message[c], ok |-> ok, count |-> sent_count[c],
               audience |-> Audience(message[c])]
        BY <1>2, <2>2 DEF Answered
    <2>4. r.message = message[c] /\ r.ok = ok /\ r.count = sent_count[c]
          /\ r.audience = Audience(message[c])
        BY <2>3
    <2>5. pc[c] = "delivering" /\ UNCHANGED <<pushed, log, receivers>>
        BY <2>1 DEF DeliverFail, DeliverDone, client, channels
    <2>6. /\ Told(r.message, r.count, r.audience, reached)
          /\ \A i \in reached, j \in pending[c] : i < j
        BY <2>4, <2>5 DEF OutcomeInv
    <2>7. pending[c] \subseteq r.audience /\ pending[c] \subseteq Nat /\ r.audience \subseteq Nat
        BY <2>4, <2>5 DEF IInv, LocalInv, TypeOK, Audience
    <2> PICK got : got = reached
        OBVIOUS
    <2>8. Told(r.message, r.count, r.audience, got)'
        BY <2>5, <2>6 DEF Told, LiveCopies, HasCopy
    <2>9. ok => got = r.audience
        BY <2>2, <2>4
    <2>10. ASSUME ~ok PROVE \E dead \in r.audience \ got : /\ got = {i \in r.audience : i < dead}
                                                         /\ ~HasReceiver(dead)'
        <3>1. PICK dead \in pending[c] : Upcoming(c, dead) /\ ~HasReceiver(dead)
            BY <2>2, <2>10
        <3>2. got = {i \in r.audience : i < dead}
            BY <2>4, <2>6, <2>7, <3>1 DEF Upcoming
        <3>3. ~HasReceiver(dead)' /\ dead \in r.audience \ got
            BY <2>5, <2>7, <3>1 DEF HasReceiver
        <3>4. QED
            BY <3>2, <3>3
    <2>11. QED
        BY <2>4, <2>8, <2>9, <2>10
<1>3. QED
    BY <1>1, <1>2

LEMMA NextOutcomeInv ==
    ASSUME OverflowChecks \/ MaxSubscribes <= IdLimit
    PROVE  IInv /\ PayloadInv /\ OutcomeInv /\ [Next]_vars => OutcomeInv'
<1> SUFFICES ASSUME IInv, PayloadInv, OutcomeInv, [Next]_vars PROVE OutcomeInv'
    OBVIOUS
<1>1. Len(pushed') <= MaxSubscribes
    BY NextBound DEF OutcomeInv
<1>2. QED
    BY <1>1, NextOutcomeCallers, NextOutcomeReceived DEF OutcomeInv

\* The answer of simulate_receive is the number of copies of the message, none of
\* them outside its audience and no two for the same subscription; Ok says that
\* everybody in the audience got one, Err that exactly those in front of a
\* subscription without receiver did (client.rs:67-91).  As everywhere, an id is
\* a subscription's own only as long as the counter does not go round.
THEOREM OutcomeTells ==
    ASSUME OverflowChecks \/ MaxSubscribes <= IdLimit
    PROVE  Spec => []OutcomeTellsWhoReceived
<1>1. Init => OutcomeInv
    BY ConstantsAssumption DEF Init, OutcomeInv
<1>2. IInv /\ OutcomeInv => OutcomeTellsWhoReceived
    <2> SUFFICES ASSUME IInv, OutcomeInv, NEW r \in received
                 PROVE  /\ Cardinality(LiveCopies(r.message)) = r.count
                        /\ Cardinality(Reached(r)) = r.count
                        /\ r.ok => Reached(r) = r.audience
                        /\ ~r.ok => \E dead \in r.audience \ Reached(r) :
                                        /\ Reached(r) = {i \in r.audience : i < dead}
                                        /\ ~HasReceiver(dead)
        BY DEF OutcomeTellsWhoReceived
    <2>1. PICK reached \in SUBSET r.audience :
            /\ Told(r.message, r.count, r.audience, reached)
            /\ r.ok => reached = r.audience
            /\ ~r.ok => \E dead \in r.audience \ reached :
                            /\ reached = {i \in r.audience : i < dead}
                            /\ ~HasReceiver(dead)
        BY DEF OutcomeInv
    <2>2. ASSUME NEW i \in r.audience
          PROVE  HasCopy(i, r.message) <=> \E copy \in LiveCopies(r.message) :
                    /\ copy[1] = pushed[i].tx
                    /\ log[copy[1]][copy[2]].subscription_id = pushed[i].id
        <3>1. pushed[i].tx \in Channels
            <4>1. pushed[i] \in Subscription
                BY <2>1, <2>2 DEF Told, IInv, TypeOK
            <4>2. QED
                BY <4>1 DEF Subscription
        <3>2. ASSUME HasCopy(i, r.message)
              PROVE  \E copy \in LiveCopies(r.message) :
                        /\ copy[1] = pushed[i].tx
                        /\ log[copy[1]][copy[2]].subscription_id = pushed[i].id
            <4>1. PICK n \in DOMAIN log[pushed[i].tx] :
                    LET e == log[pushed[i].tx][n]
                    IN  e.message = r.message /\ ~e.replay /\ e.subscription_id = pushed[i].id
                BY <3>2 DEF HasCopy
            <4>2. <<pushed[i].tx, n>> \in LiveCopies(r.message)
                BY <3>1, <4>1, LiveCopiesElements
            <4>3. QED
                BY <4>1, <4>2
        <3>3. ASSUME NEW copy \in LiveCopies(r.message), copy[1] = pushed[i].tx,
                     log[copy[1]][copy[2]].subscription_id = pushed[i].id
              PROVE  HasCopy(i, r.message)
            BY <3>3, LiveCopiesArePairs DEF HasCopy
        <3>4. QED
            BY <3>2, <3>3
    <2>3. Reached(r) = reached
        BY <2>1, <2>2 DEF Reached, Told
    <2>4. QED
        BY <2>1, <2>3 DEF Told
<1>3. IInv /\ PayloadInv /\ OutcomeInv /\ [Next]_vars => OutcomeInv'
    BY NextOutcomeInv
<1>4. QED
    BY <1>1, <1>2, <1>3, PayloadInductive, PTL DEF Spec

================================================================================

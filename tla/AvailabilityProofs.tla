--------------------------- MODULE AvailabilityProofs ---------------------------
(***************************************************************************)
(* Proof that who has read a channel to the end knows what the store of    *)
(* retained messages says of the clients it asked about, for any capacity  *)
(* of the channels, any number of subscriptions and any order of messages. *)
(***************************************************************************)
EXTENDS Availability, MockDeliveryProofs

\* Availability messages are retained ones, on their way and on the channels.
RetainFlagInv ==
    /\ \A c \in Callers : message[c] \in GenericAvailability \cup {NoMessage}
    /\ \A ch \in Channels : \A n \in DOMAIN log[ch] : log[ch][n].message \in GenericAvailability

\* Message n of a channel has been read, and nothing of its topic after it.
LastRead(ch, n) ==
    /\ n \in 1..position[ch]
    /\ \A k \in 1..position[ch] :
        log[ch][k].message.topic = log[ch][n].message.topic => k <= n

\* A reader has not read more than was sent, and its conclusion about a topic
\* is that of the last message it has read of it, unless it has lost that one.
ReaderInv ==
    /\ position \in [Channels -> Nat]
    /\ lost \in [Channels -> Nat]
    /\ conclusion \in [Channels -> [AvailabilityTopics -> {"unknown", "online", "offline"}]]
    /\ \A ch \in Channels : position[ch] <= Len(log[ch])
    /\ \A ch \in Channels : \A n \in Nat :
        (/\ LastRead(ch, n) /\ n > lost[ch]
         /\ log[ch][n].message.topic \in AvailabilityTopics)
        => conclusion[ch][log[ch][n].message.topic] = Conclusion(log[ch][n].message)

--------------------------------------------------------------------------------
LEMMA InitReaders == AvailabilityInit => RetainFlagInv /\ ReaderInv
<1> SUFFICES ASSUME AvailabilityInit PROVE RetainFlagInv /\ ReaderInv
    OBVIOUS
<1>1. RetainFlagInv
    BY DEF AvailabilityInit, Init, RetainFlagInv
<1>2. ReaderInv
    BY DEF AvailabilityInit, Init, ReaderInv, LastRead
<1>3. QED
    BY <1>1, <1>2

\* A step of the specification is a step of the client or leaves it alone.
LEMMA ReadersAddNothing == [AvailabilityNext]_<<vars, readers>> => [Next]_vars
BY DEF AvailabilityNext, ClientStep, Lagged, Receive

\* What is on a channel is there to stay, in the same place.
LEMMA PrefixStays ==
    ASSUME IInv, [Next]_vars, NEW ch \in Channels
    PROVE  /\ Len(log[ch]) \in Nat /\ DOMAIN log[ch] = 1..Len(log[ch])
           /\ Len(log'[ch]) \in Nat /\ DOMAIN log'[ch] = 1..Len(log'[ch])
           /\ Len(log[ch]) <= Len(log'[ch])
           /\ \A n \in 1..Len(log[ch]) : log'[ch][n] = log[ch][n]
<1>1. log[ch] \in Seq(Entry)
    BY DEF IInv, TypeOK
<1>2. log'[ch] \in Seq(Entry)
    BY NextIInv DEF IInv, TypeOK
<1>3. \A n \in DOMAIN log[ch] : n \in DOMAIN log'[ch] /\ log'[ch][n] = log[ch][n]
    BY LogStays
<1>4. QED
    BY <1>1, <1>2, <1>3

LEMMA NextRetainFlagInv ==
    IInv /\ StoredInv /\ RetainFlagInv /\ [AvailabilityNext]_<<vars, readers>> => RetainFlagInv'
<1> SUFFICES ASSUME IInv, StoredInv, RetainFlagInv, [AvailabilityNext]_<<vars, readers>>
             PROVE  RetainFlagInv'
    OBVIOUS
<1>1. [Next]_vars
    BY ReadersAddNothing
<1>2. \A c \in Callers : message'[c] \in GenericAvailability \cup {NoMessage}
    <2>1. CASE ClientStep
        BY <2>1 DEF ClientStep
    <2>2. CASE UNCHANGED message
        BY <2>2 DEF RetainFlagInv
    <2>3. QED
        BY <2>1, <2>2 DEF AvailabilityNext, Lagged, Receive, vars, callers
<1>3. ASSUME NEW m \in GenericAvailability, NEW i \in subscriptions, NEW replay \in BOOLEAN,
             SendsOne(m, i, replay), NEW ch \in Channels, NEW n \in DOMAIN log'[ch]
      PROVE  log'[ch][n].message \in GenericAvailability
    <2>1. Sends(m, i, replay) /\ TypeOK /\ m \in Message
        BY <1>3 DEF SendsOne, IInv, GenericAvailability
    <2> DEFINE tx == pushed[i].tx
    <2>2. /\ DOMAIN log[tx] = 1..Len(log[tx]) /\ Len(log[tx]) \in Nat
          /\ DOMAIN log'[tx] = 1..(Len(log[tx]) + 1)
          /\ log'[tx][Len(log[tx]) + 1]
                = [message |-> m, subscription_id |-> pushed[i].id, replay |-> replay]
          /\ \A k \in DOMAIN log[tx] : log'[tx][k] = log[tx][k]
          /\ ch # tx => log'[ch] = log[ch]
        BY <2>1, SendsAppends
    <2>3. log'[tx][Len(log[tx]) + 1].message = m
        BY <2>2
    <2> HIDE DEF tx
    <2>4. QED
        BY <1>3, <2>2, <2>3 DEF RetainFlagInv
<1>4. \A ch \in Channels : \A n \in DOMAIN log'[ch] : log'[ch][n].message \in GenericAvailability
    <2>1. CASE UNCHANGED log
        BY <2>1 DEF RetainFlagInv
    <2>2. ASSUME NEW c \in Callers, DeliverNext(c)
          PROVE  \E m \in GenericAvailability, i \in subscriptions, replay \in BOOLEAN :
                    SendsOne(m, i, replay)
        <3>1. PICK i \in pending[c] : message[c] \in Message /\ i \in subscriptions
                                      /\ SendsOne(message[c], i, FALSE)
            BY <2>2, DeliverNextSends
        <3>2. message[c] \in GenericAvailability
            BY <3>1, NoMessageAssumption DEF RetainFlagInv
        <3>3. QED
            BY <3>1, <3>2
    <2>3. ASSUME NEW c \in Callers, ReplayOne(c), log' # log
          PROVE  \E m \in GenericAvailability, i \in subscriptions, replay \in BOOLEAN :
                    SendsOne(m, i, replay)
        <3>1. PICK t \in to_replay[c] :
                /\ retained_messages[t] \in Message /\ subscription[c] \in subscriptions
                /\ t \in Topics
                /\ SendsOne(retained_messages[t], subscription[c], TRUE)
            BY <2>3, ReplayOneSends DEF IInv, TypeOK
        <3>2. retained_messages[t] \in GenericAvailability
            BY <3>1, NoMessageAssumption DEF StoredInv, GenericAvailability
        <3>3. QED
            BY <3>1, <3>2
    <2>4. QED
        BY <1>1, <1>3, <2>1, <2>2, <2>3, OthersSendNothing
<1>5. QED
    BY <1>2, <1>4 DEF RetainFlagInv

LEMMA NextReaderInv ==
    IInv /\ RetainFlagInv /\ ReaderInv /\ [AvailabilityNext]_<<vars, readers>> => ReaderInv'
<1> SUFFICES ASSUME IInv, RetainFlagInv, ReaderInv, [AvailabilityNext]_<<vars, readers>>
             PROVE  ReaderInv'
    OBVIOUS
<1>1. [Next]_vars
    BY ReadersAddNothing
<1>2. ASSUME NEW ch \in Channels
      PROVE  /\ Len(log[ch]) \in Nat /\ DOMAIN log[ch] = 1..Len(log[ch])
             /\ Len(log[ch]) <= Len(log'[ch])
             /\ \A n \in 1..Len(log[ch]) : log'[ch][n] = log[ch][n]
             /\ Len(log'[ch]) \in Nat
    BY <1>1, <1>2, PrefixStays
<1>3. CASE UNCHANGED readers
    <2>1. UNCHANGED <<position, lost, conclusion>>
        BY <1>3 DEF readers
    <2>2. ASSUME NEW ch \in Channels
          PROVE  position'[ch] <= Len(log'[ch])
        BY <1>2, <2>1 DEF ReaderInv
    <2>3. ASSUME NEW ch \in Channels, NEW n \in Nat, LastRead(ch, n)'
          PROVE  log'[ch][n] = log[ch][n] /\ LastRead(ch, n)
        <3>1. \A k \in 1..position[ch] : log'[ch][k] = log[ch][k]
            BY <1>2 DEF ReaderInv
        <3>2. QED
            BY <2>1, <2>3, <3>1 DEF LastRead
    <2>4. QED
        BY <2>1, <2>2, <2>3 DEF ReaderInv, Conclusion, client_is_online
<1>4. ASSUME NEW c \in Channels, Lagged(c) PROVE ReaderInv'
    <2>1. /\ UNCHANGED <<log, conclusion>>
          /\ Len(log[c]) - position[c] > Capacity
          /\ position' = [position EXCEPT ![c] = Len(log[c]) - Capacity]
          /\ lost' = [lost EXCEPT ![c] = Len(log[c]) - Capacity]
        BY <1>4 DEF Lagged, vars, channels
    <2>2. /\ Len(log[c]) - Capacity \in Nat
          /\ Len(log[c]) - Capacity <= Len(log[c])
        BY <1>2, <2>1, AvailabilityAssumption DEF ReaderInv
    <2>3. ASSUME NEW n \in Nat, LastRead(c, n)' PROVE ~(n > lost'[c])
        BY <2>1, <2>2, <2>3 DEF LastRead, ReaderInv
    <2>4. ASSUME NEW ch \in Channels, ch # c, NEW n \in Nat, LastRead(ch, n)' PROVE LastRead(ch, n)
        BY <2>1, <2>4 DEF LastRead, ReaderInv
    <2>5. QED
        BY <2>1, <2>2, <2>3, <2>4 DEF ReaderInv, Conclusion, client_is_online
<1>5. ASSUME NEW c \in Channels, Receive(c) PROVE ReaderInv'
    <2> DEFINE p == position[c] + 1
               m == log[c][p].message
    <2>1. /\ UNCHANGED <<log, lost>>
          /\ Len(log[c]) - position[c] \in 1..Capacity
          /\ position' = [position EXCEPT ![c] = p]
          /\ conclusion' = [conclusion EXCEPT ![c] =
               [t \in AvailabilityTopics |-> IF t = m.topic THEN Conclusion(m) ELSE @[t]]]
        BY <1>5 DEF Receive, vars, channels
    <2>2. p \in Nat /\ p \in 1..Len(log[c])
        BY <1>2, <2>1, AvailabilityAssumption DEF ReaderInv
    <2>3. Conclusion(m) \in {"online", "offline"}
        BY DEF Conclusion
    <2> HIDE DEF m
    <2>4. /\ position' \in [Channels -> Nat]
          /\ lost' \in [Channels -> Nat]
          /\ conclusion' \in [Channels -> [AvailabilityTopics -> {"unknown", "online", "offline"}]]
          /\ \A ch \in Channels : position'[ch] <= Len(log'[ch])
        BY <1>2, <2>1, <2>2, <2>3 DEF ReaderInv
    <2>5. ASSUME NEW ch \in Channels, ch # c, NEW n \in Nat, LastRead(ch, n)'
          PROVE  LastRead(ch, n) /\ conclusion'[ch] = conclusion[ch]
        BY <2>1, <2>5 DEF LastRead, ReaderInv
    <2>6. ASSUME NEW n \in Nat, LastRead(c, n)', n > lost'[c],
                 log[c][n].message.topic \in AvailabilityTopics
          PROVE  conclusion'[c][log[c][n].message.topic] = Conclusion(log[c][n].message)
        <3>1. position'[c] = p /\ n \in 1..p
              /\ \A k \in 1..p : log[c][k].message.topic = log[c][n].message.topic => k <= n
            BY <2>1, <2>2, <2>6 DEF LastRead, ReaderInv
        <3>2. CASE n = p
            <4>1. conclusion'[c][m.topic] = Conclusion(m)
                BY <2>1, <2>6, <3>2 DEF ReaderInv, m
            <4>2. QED
                BY <3>2, <4>1 DEF m
        <3>3. CASE n # p
            <4>1. m.topic # log[c][n].message.topic
                BY <2>2, <3>1, <3>3 DEF m
            <4>2. LastRead(c, n)
                BY <2>2, <3>1, <3>3 DEF LastRead, ReaderInv
            <4>3. conclusion[c][log[c][n].message.topic] = Conclusion(log[c][n].message)
                BY <2>1, <2>6, <4>2 DEF ReaderInv
            <4>4. QED
                BY <2>1, <2>6, <4>1, <4>3 DEF ReaderInv
        <3>4. QED
            BY <3>2, <3>3
    <2>7. ASSUME NEW ch \in Channels, NEW n \in Nat, LastRead(ch, n)', n > lost'[ch],
                 log[ch][n].message.topic \in AvailabilityTopics
          PROVE  conclusion'[ch][log[ch][n].message.topic] = Conclusion(log[ch][n].message)
        <3>1. CASE ch = c
            BY <2>6, <2>7, <3>1
        <3>2. CASE ch # c
            BY <2>1, <2>5, <2>7, <3>2 DEF ReaderInv
        <3>3. QED
            BY <3>1, <3>2
    <2>8. QED
        BY <2>1, <2>4, <2>7 DEF ReaderInv, Conclusion, client_is_online
<1>6. QED
    BY <1>3, <1>4, <1>5 DEF AvailabilityNext, ClientStep

--------------------------------------------------------------------------------
\* With one deliverer, a program that has read its channel to the end knows of a
\* client it subscribed to what the retained store says of it, however often it
\* subscribed, unless the message it would know it from was lost to a burst
\* (client.rs:76-91, 164-172; concrete.rs).
THEOREM CaughtUpReadersKnow ==
    ASSUME OneDeliverer
    PROVE  AvailabilitySpec => []CaughtUpKnows
<1>1. AvailabilitySpec => Spec
    BY ReadersAddNothing, PTL DEF AvailabilitySpec, AvailabilityInit, Spec
<1>2. ASSUME IInv, PayloadInv, StoredInv, LatestInv, RetainFlagInv, ReaderInv
      PROVE  CaughtUpKnows
    <2> SUFFICES ASSUME NEW r \in received, NEW i \in subscriptions,
                        r.ok, r.message.topic \in AvailabilityTopics,
                        retained_messages[r.message.topic] = r.message,
                        topic_matches(pushed[i].topic, r.message.topic), HasReceiver(i),
                        \A c \in Callers : subscription[c] # i,
                        position[pushed[i].tx] = Len(log[pushed[i].tx]),
                        LastPlace(pushed[i].tx, r.message.topic) > lost[pushed[i].tx]
                 PROVE  conclusion[pushed[i].tx][r.message.topic]
                            = IF r.message.payload \in OnlinePayloads THEN "online" ELSE "offline"
        BY DEF CaughtUpKnows
    <2> DEFINE m == r.message
               t == m.topic
               ch == pushed[i].tx
               sent == log[ch]
               places == {n \in DOMAIN sent : sent[n].message.topic = t}
               last == LastPlace(ch, t)
    <2>1. m \in Message /\ Latest(i, m)
        BY <1>2, SettledLatest
    <2>2. ch \in Channels /\ sent \in Seq(Entry)
        <3>1. pushed[i] \in Subscription
            BY <1>2 DEF IInv, TypeOK
        <3>2. QED
            BY <1>2, <3>1 DEF IInv, TypeOK, Subscription
    <2>3. PICK n \in DOMAIN sent :
            /\ sent[n].message = m
            /\ \A k \in DOMAIN sent :
                n <= k /\ sent[k].message.retain /\ sent[k].message.topic = t => sent[k].message = m
        BY <2>1 DEF Latest
    <2>4. Len(sent) \in Nat /\ DOMAIN sent = 1..Len(sent)
        BY <2>2
    <2>5. n \in places /\ places \in SUBSET (1..Len(sent))
        BY <2>3, <2>4
    <2>6. last = CHOOSE x \in places \cup {0} : \A k \in places : k <= x
        BY DEF LastPlace
    <2> HIDE DEF places
    <2>7. \E x \in places : \A k \in places : k <= x
        BY <2>4, <2>5, LastExists
    <2>8. last \in places \cup {0} /\ \A k \in places : k <= last
        BY <2>6, <2>7
    <2> HIDE DEF last
    <2>9. last \in places /\ n <= last
        BY <2>4, <2>5, <2>8
    <2>10. last \in DOMAIN sent /\ sent[last].message.topic = t
        BY <2>9 DEF places
    <2>11. sent[last].message.retain
        BY <1>2, <2>2, <2>10 DEF RetainFlagInv, GenericAvailability
    <2>12. sent[last].message = m
        BY <2>3, <2>9, <2>10, <2>11
    <2>13. LastRead(ch, last)
        BY <2>4, <2>8, <2>10 DEF LastRead, places
    <2>14. last > lost[ch] /\ last \in Nat
        BY <2>4, <2>10 DEF last
    <2>15. conclusion[ch][t] = Conclusion(m)
        BY <1>2, <2>2, <2>10, <2>12, <2>13, <2>14 DEF ReaderInv
    <2>16. QED
        BY <2>15 DEF Conclusion, client_is_online
<1>3. AvailabilitySpec => [](IInv /\ PayloadInv /\ StoredInv /\ LatestInv)
    BY <1>1, LatestInductive, PTL
<1>4. AvailabilitySpec => [](RetainFlagInv /\ ReaderInv)
    BY <1>3, InitReaders, NextRetainFlagInv, NextReaderInv, PTL DEF AvailabilitySpec
<1>5. QED
    BY <1>2, <1>3, <1>4, PTL
================================================================================

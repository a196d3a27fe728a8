------------------------------ MODULE Availability ------------------------------
(***************************************************************************)
(* Availability messages (src/src/availability_trait.rs and concrete.rs)   *)
(* on their way through the client of MockClient to a program that reads   *)
(* the channel it subscribed with and draws its conclusions.  A tokio      *)
(* broadcast channel keeps its last Capacity messages: a receiver that     *)
(* falls behind is told that it lagged and goes on with the oldest left.   *)
(***************************************************************************)
EXTENDS MockClient

CONSTANTS
    Capacity,            \* of every channel
    AvailabilityTopics,  \* "system/{client_id}" of each client
    OnlinePayloads       \* the payloads with a true boolean at the JSON path

ASSUME AvailabilityAssumption ==
    /\ Capacity \in Nat \ {0}
    /\ AvailabilityTopics \subseteq Topics
    /\ OnlinePayloads \subseteq Payloads

VARIABLES
    position,    \* how far the receiver of a channel has come in its log
    lost,        \* up to where it may have missed messages
    conclusion   \* what client_is_online said of the last message, per topic

readers == <<position, lost, conclusion>>

AvailabilityInit ==
    /\ Init
    /\ position = [ch \in Channels |-> 0]
    /\ lost = [ch \in Channels |-> 0]
    /\ conclusion = [ch \in Channels |-> [t \in AvailabilityTopics |-> "unknown"]]

\* Any boolean at the path will do.
client_is_online_if_any(m) == m.payload \in Payloads

\* Everything that is not such JSON is offline, too.
client_is_online(m) == m.payload \in OnlinePayloads

Conclusion(m) == IF client_is_online(m) THEN "online" ELSE "offline"

\* GenericAvailability sets the retain flag of both its messages.
GenericAvailability == {m \in Message : m.topic \in AvailabilityTopics => m.retain}

\* A step of the client, whose messages of these topics come from the helper.
ClientStep ==
    /\ Next
    /\ \A c \in Callers : message'[c] \in GenericAvailability \cup {NoMessage}
    /\ UNCHANGED readers

\* recv: the messages that made room for newer ones are gone.
Lagged(ch) ==
    /\ ch \in receivers
    /\ Len(log[ch]) - position[ch] > Capacity
    /\ position' = [position EXCEPT ![ch] = Len(log[ch]) - Capacity]
    /\ lost' = [lost EXCEPT ![ch] = Len(log[ch]) - Capacity]
    /\ UNCHANGED <<vars, conclusion>>

\* recv: the oldest message left.
Receive(ch) ==
    /\ ch \in receivers
    /\ Len(log[ch]) - position[ch] \in 1..Capacity
    /\ position' = [position EXCEPT ![ch] = @ + 1]
    /\ LET m == log[ch][position[ch] + 1].message
       IN  conclusion' = [conclusion EXCEPT ![ch] =
               [t \in AvailabilityTopics |-> IF t = m.topic THEN Conclusion(m) ELSE @[t]]]
    /\ UNCHANGED <<vars, lost>>

AvailabilityNext == ClientStep \/ \E ch \in Channels : Lagged(ch) \/ Receive(ch)

AvailabilitySpec == AvailabilityInit /\ [][AvailabilityNext]_<<vars, readers>>

--------------------------------------------------------------------------------
(* Properties. *)

\* Where the last message of topic t is in the log of channel ch, 0 if nowhere.
LastPlace(ch, t) ==
    LET places == {n \in DOMAIN log[ch] : log[ch][n].message.topic = t}
    IN  CHOOSE n \in places \cup {0} : \A k \in places : k <= n

\* A program that has read its channel to the end knows what the store of
\* retained messages says of a client it subscribed to, however often it
\* subscribed and whatever the order of online and offline, unless the message
\* it would know it from was lost to a burst (client.rs:76-91, 164-172): it
\* never takes a client for online that was last heard of as offline.
CaughtUpKnows ==
    \A r \in received, i \in subscriptions :
        LET t == r.message.topic
            ch == pushed[i].tx
        IN  (/\ r.ok /\ t \in AvailabilityTopics
             /\ retained_messages[t] = r.message
             /\ topic_matches(pushed[i].topic, t)
             /\ HasReceiver(i)
             /\ \A c \in Callers : subscription[c] # i
             /\ position[ch] = Len(log[ch])
             /\ LastPlace(ch, t) > lost[ch])
            => conclusion[ch][t] = IF r.message.payload \in OnlinePayloads
                                   THEN "online" ELSE "offline"
================================================================================

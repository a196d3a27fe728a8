----------------------------- MODULE PubSubContract -----------------------------
(***************************************************************************)
(* What the trait Mqtt5PubSub promises a caller about subscriptions        *)
(* (lib.rs:101-113), without saying how a client does it: subscribe        *)
(* returns an id that no other subscription has and that every message     *)
(* received on the subscription carries; a message is received only on a   *)
(* subscription that is active and whose filter matches its topic;         *)
(* unsubscribe ends every subscription made with that very filter.  What   *)
(* is promised about delivery is who may receive a message and with which  *)
(* id: the trait does not say that a message is never lost or repeated.    *)
(***************************************************************************)
EXTENDS TopicFilter

CONSTANTS
    Topics,            \* topics of messages: sequences of levels
    Filters,           \* topic filters of subscriptions: sequences of levels
    Payloads,          \* what tells two messages of a topic apart
    Channels,          \* the broadcast channels subscribers receive on
    SubscriptionIds    \* the values of the type u32

VARIABLES
    active,      \* the subscriptions in force
    issued,      \* every id a subscribe has returned
    delivered    \* per channel, everything sent on it, in order

vars == <<active, issued, delivered>>

Message == [topic : Topics, retain : BOOLEAN, payload : Payloads]
Subscription == [topic : Filters, id : SubscriptionIds, tx : Channels]

\* A message as a subscriber gets it: with the id of the subscription, and
\* (which the message itself does not show) whether subscribe replayed it.
Entry == [message : Message, subscription_id : SubscriptionIds, replay : BOOLEAN]

Init ==
    /\ active = {}
    /\ issued = {}
    /\ delivered = [ch \in Channels |-> <<>>]

--------------------------------------------------------------------------------
Subscribe ==
    \E s \in Subscription :
        /\ s.id \notin issued
        /\ active' = active \cup {s}
        /\ issued' = issued \cup {s.id}
        /\ UNCHANGED delivered

Unsubscribe ==
    \E topic \in Filters :
        /\ active' = {s \in active : s.topic # topic}
        /\ UNCHANGED <<issued, delivered>>

Deliver ==
    \E s \in active, e \in Entry :
        /\ e.subscription_id = s.id
        /\ Matches(s.topic, e.message.topic)
        /\ delivered' = [delivered EXCEPT ![s.tx] = Append(@, e)]
        /\ UNCHANGED <<active, issued>>

Next == Subscribe \/ Unsubscribe \/ Deliver

Spec == Init /\ [][Next]_vars
================================================================================

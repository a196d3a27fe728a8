------------------------------- MODULE MockClient -------------------------------
(***************************************************************************)
(* The subscribing half of MockClient (src/src/mock/client.rs): its shared *)
(* state behind three mutexes, and the calls simulate_receive, subscribe,  *)
(* unsubscribe and clear_retained_messages made at once by several callers *)
(* that hold clones of the client.                                         *)
(*                                                                         *)
(* A critical section that takes one lock and gives it back is one step.   *)
(* simulate_receive gives the lock of the retained store back before it    *)
(* takes the lock of the list, and subscribe takes all three in turn, so   *)
(* these two calls have a program point between any two of their locks and *)
(* in front of every send.  A guard lives until the end of its scope: the  *)
(* locks a call holds follow from the point it is at.                      *)
(***************************************************************************)
EXTENDS TopicFilter, FiniteSets

CONSTANTS
    Callers,          \* tasks or threads, each with a clone of the client
    Deliverers,       \* the callers that call simulate_receive
    Channels,         \* broadcast channels given to subscribe
    Topics, Filters,  \* sequences of levels
    Payloads,         \* one for each simulate_receive: bounds their number
    IdLimit,          \* the number of values of a u32, 2^32
    OverflowChecks,   \* TRUE: built with overflow-checks, "+=" panics
    MaxSubscribes,    \* bound on the number of subscribe calls
    NoMessage

ASSUME ConstantsAssumption ==
    /\ Deliverers \subseteq Callers
    /\ IdLimit \in Nat /\ IdLimit > 1
    /\ OverflowChecks \in BOOLEAN
    /\ MaxSubscribes \in Nat

Message == [topic : Topics, retain : BOOLEAN, payload : Payloads]

ASSUME NoMessageAssumption == NoMessage \notin Message

SubscriptionIds == 0..(IdLimit - 1)
Subscription == [topic : Filters, id : SubscriptionIds, tx : Channels]

\* A message as it is sent: subscription_id set, and, which the code does not
\* record, whether subscribe sent it from the retained store.
Entry == [message : Message, subscription_id : SubscriptionIds, replay : BOOLEAN]

Locks == {"subscriptions", "next_sub_id", "retained_messages"}

Points == {"idle",
           "to_deliver", "delivering",                  \* in simulate_receive
           "to_take_id", "to_replay", "replaying"}      \* in subscribe

VARIABLES
    (* The fields of the client. *)
    pushed,             \* every subscription ever pushed on the Vec, in order
    subscriptions,      \* the places in pushed of those still in the Vec
    next_sub_id,
    retained_messages,  \* per topic, its retained message or NoMessage
    poisoned,           \* the mutexes whose holder panicked
    (* The callers. *)
    pc,                 \* the program point a caller has reached
    message,            \* the message of its simulate_receive
    pending,            \* the subscriptions its loop has not come to
    sent_count,
    subscription,       \* the place of the subscription its subscribe made
    to_replay,          \* the retained topics its loop has not come to
    (* The channels. *)
    log,                \* everything sent on a channel, in order
    receivers,          \* the channels that have a receiver
    (* What the calls answered, for the properties. *)
    used,               \* payloads of the messages received so far
    received            \* message, outcome and audience of simulate_receives

client == <<pushed, subscriptions, next_sub_id, retained_messages, poisoned>>
callers == <<pc, message, pending, sent_count, subscription, to_replay>>
channels == <<log, receivers>>
answers == <<used, received>>
vars == <<client, callers, channels, answers>>

Outcome == [message : Message, ok : BOOLEAN, count : Nat, audience : SUBSET Nat]

TypeOK ==
    /\ pushed \in Seq(Subscription)
    /\ subscriptions \subseteq DOMAIN pushed
    /\ next_sub_id \in SubscriptionIds
    /\ retained_messages \in [Topics -> Message \cup {NoMessage}]
    /\ poisoned \subseteq Locks
    /\ pc \in [Callers -> Points]
    /\ message \in [Callers -> Message \cup {NoMessage}]
    /\ pending \in [Callers -> SUBSET Nat]
    /\ sent_count \in [Callers -> Nat]
    /\ subscription \in [Callers -> Nat]
    /\ to_replay \in [Callers -> SUBSET Topics]
    /\ log \in [Channels -> Seq(Entry)]
    /\ receivers \subseteq Channels
    /\ used \subseteq Payloads
    /\ received \subseteq Outcome

Init ==
    /\ pushed = <<>>
    /\ subscriptions = {}
    /\ next_sub_id = 1
    /\ retained_messages = [t \in Topics |-> NoMessage]
    /\ poisoned = {}
    /\ pc = [c \in Callers |-> "idle"]
    /\ message = [c \in Callers |-> NoMessage]
    /\ pending = [c \in Callers |-> {}]
    /\ sent_count = [c \in Callers |-> 0]
    /\ subscription = [c \in Callers |-> 0]
    /\ to_replay = [c \in Callers |-> {}]
    /\ log = [ch \in Channels |-> <<>>]
    /\ receivers = Channels
    /\ used = {}
    /\ received = {}

--------------------------------------------------------------------------------
(* Locks. *)

\* simulate_receive without the inner scope: the guard of the retained store
\* lives on while the list is locked.
PointsHoldingWideScope(l) ==
    CASE l = "subscriptions" -> {"delivering", "to_take_id", "to_replay", "replaying"}
      [] l = "next_sub_id" -> {"to_replay", "replaying"}
      [] l = "retained_messages" -> {"replaying", "to_deliver", "delivering"}

\* simulate_receive that copies the list and gives the lock back for the loop.
PointsHoldingSnapshot(l) ==
    CASE l = "subscriptions" -> {"to_take_id", "to_replay", "replaying"}
      [] l = "next_sub_id" -> {"to_replay", "replaying"}
      [] l = "retained_messages" -> {"replaying"}

\* The points at which a caller holds the lock l: the lock is taken on the way
\* to the first of them and its guard dropped on leaving the last.
PointsHolding(l) ==
    CASE l = "subscriptions" -> {"delivering", "to_take_id", "to_replay", "replaying"}
      [] l = "next_sub_id" -> {"to_replay", "replaying"}
      [] l = "retained_messages" -> {"replaying"}

\* The lock a caller at point p is about to take, none at the other points.
Wanted(p) ==
    CASE p = "to_deliver" -> {"subscriptions"}
      [] p = "to_take_id" -> {"next_sub_id"}
      [] p = "to_replay" -> {"retained_messages"}
      [] OTHER -> {}

Free(l) == \A c \in Callers : pc[c] \notin PointsHolding(l)

\* A mutex that knows no poisoning.
AcquiresUnpoisoned(l) == Free(l)

\* lock().unwrap() returns a guard: nobody holds the mutex and nobody panicked
\* while holding it.
Acquires(l) == Free(l) /\ l \notin poisoned

Goto(c, p) == pc' = [pc EXCEPT ![c] = p]

\* A caller drops its locals and its guards.
Return(c) ==
    /\ Goto(c, "idle")
    /\ message' = [message EXCEPT ![c] = NoMessage]
    /\ pending' = [pending EXCEPT ![c] = {}]
    /\ sent_count' = [sent_count EXCEPT ![c] = 0]
    /\ subscription' = [subscription EXCEPT ![c] = 0]
    /\ to_replay' = [to_replay EXCEPT ![c] = {}]

Answered(c, ok, audience) ==
    received' = received \cup
        {[message |-> message[c], ok |-> ok, count |-> sent_count[c], audience |-> audience]}

\* tx.send: it fails when the channel has no receiver, and then sends nothing.
Sends(m, i, replay) ==
    LET s == pushed[i]
        e == [message |-> m, subscription_id |-> s.id, replay |-> replay]
    IN  log' = [log EXCEPT ![s.tx] = Append(@, e)]
HasReceiver(i) == pushed[i].tx \in receivers

--------------------------------------------------------------------------------
(* simulate_receive *)

\* retained.entry(topic).or_insert(message): the first message stays.
SimulateReceiveKeepingFirst(c) ==
    /\ c \in Deliverers
    /\ pc[c] = "idle"
    /\ \E m \in Message :
        /\ m.payload \notin used
        /\ used' = used \cup {m.payload}
        /\ message' = [message EXCEPT ![c] = m]
        /\ m.retain => Acquires("retained_messages")
        /\ retained_messages' = [retained_messages EXCEPT
               ![m.topic] = IF m.retain /\ @ = NoMessage THEN m ELSE @]
    /\ Goto(c, "to_deliver")
    /\ UNCHANGED <<pushed, subscriptions, next_sub_id, poisoned, pending,
                   sent_count, subscription, to_replay, channels, received>>

\* The call begins with a message nobody received before and, when its retain
\* flag is set, stores it in a critical section of its own.
SimulateReceive(c) ==
    /\ c \in Deliverers
    /\ pc[c] = "idle"
    /\ \E m \in Message :
        /\ m.payload \notin used
        /\ used' = used \cup {m.payload}
        /\ message' = [message EXCEPT ![c] = m]
        /\ \/ /\ m.retain
              /\ Acquires("retained_messages")
              /\ retained_messages' = [retained_messages EXCEPT ![m.topic] = m]
           \/ ~m.retain /\ UNCHANGED retained_messages
    /\ Goto(c, "to_deliver")
    /\ UNCHANGED <<pushed, subscriptions, next_sub_id, poisoned, pending,
                   sent_count, subscription, to_replay, channels, received>>

\* The subscriptions in the Vec whose filter matches the topic of m.
Audience(m) == {i \in subscriptions : topic_matches(pushed[i].topic, m.topic)}

\* It locks the list and starts the loop over it.
LockToDeliver(c) ==
    /\ pc[c] = "to_deliver"
    /\ Acquires("subscriptions")
    /\ pending' = [pending EXCEPT ![c] = Audience(message[c])]
    /\ Goto(c, "delivering")
    /\ UNCHANGED <<client, message, sent_count, subscription, to_replay, channels, answers>>

\* The next subscription in the order of the Vec.
Upcoming(c, i) == i \in pending[c] /\ \A j \in pending[c] : i <= j

DeliverNext(c) ==
    /\ pc[c] = "delivering"
    /\ \E i \in pending[c] :
        /\ Upcoming(c, i)
        /\ HasReceiver(i)
        /\ Sends(message[c], i, FALSE)
        /\ pending' = [pending EXCEPT ![c] = @ \ {i}]
    /\ sent_count' = [sent_count EXCEPT ![c] = @ + 1]
    /\ UNCHANGED <<client, pc, message, subscription, to_replay, receivers, answers>>

\* A failing send is ignored, as subscribe does.
DeliverFailIgnored(c) ==
    /\ pc[c] = "delivering"
    /\ \E i \in pending[c] :
        /\ Upcoming(c, i) /\ ~HasReceiver(i)
        /\ pending' = [pending EXCEPT ![c] = @ \ {i}]
    /\ UNCHANGED <<client, pc, message, sent_count, subscription, to_replay, channels, answers>>

\* A failing send is tried again until somebody receives.
DeliverFailRetried(c) ==
    /\ pc[c] = "delivering"
    /\ \E i \in pending[c] : Upcoming(c, i) /\ ~HasReceiver(i)
    /\ UNCHANGED vars

\* The first failing send ends the call with Err: "?" returns from the loop.
DeliverFail(c) ==
    /\ pc[c] = "delivering"
    /\ \E i \in pending[c] : Upcoming(c, i) /\ ~HasReceiver(i)
    /\ Answered(c, FALSE, Audience(message[c]))
    /\ Return(c)
    /\ UNCHANGED <<client, channels, used>>

DeliverDone(c) ==
    /\ pc[c] = "delivering"
    /\ pending[c] = {}
    /\ Answered(c, TRUE, Audience(message[c]))
    /\ Return(c)
    /\ UNCHANGED <<client, channels, used>>

--------------------------------------------------------------------------------
(* subscribe *)

LockToRegister(c) ==
    /\ pc[c] = "idle"
    /\ Acquires("subscriptions")
    /\ Len(pushed) < MaxSubscribes
    /\ Goto(c, "to_take_id")
    /\ UNCHANGED <<client, message, pending, sent_count, subscription, to_replay,
                   channels, answers>>

\* An off-by-one at the end of the type.
AtIdLimitLate == next_sub_id = IdLimit

\* "*next_id += 1" would overflow.
AtIdLimit == next_sub_id = IdLimit - 1

\* A counter that stays at the end of the type.
NextIdSaturating == IF AtIdLimit THEN next_sub_id ELSE next_sub_id + 1

\* The counter wraps when overflow is not checked.
NextId == IF AtIdLimit THEN 0 ELSE next_sub_id + 1

\* The id is the length of the list: free again after an unsubscribe.
RegisterByLength(c) ==
    /\ pc[c] = "to_take_id"
    /\ Acquires("next_sub_id")
    /\ ~(OverflowChecks /\ AtIdLimit)
    /\ \E topic \in Filters, tx \in Channels :
        pushed' = Append(pushed, [topic |-> topic, id |-> Cardinality(subscriptions), tx |-> tx])
    /\ subscriptions' = subscriptions \cup {Len(pushed) + 1}
    /\ next_sub_id' = NextId
    /\ subscription' = [subscription EXCEPT ![c] = Len(pushed) + 1]
    /\ Goto(c, "to_replay")
    /\ UNCHANGED <<retained_messages, poisoned, message, pending, sent_count,
                   to_replay, channels, answers>>

\* It takes an id, increments the counter and pushes the subscription.
Register(c) ==
    /\ pc[c] = "to_take_id"
    /\ Acquires("next_sub_id")
    /\ ~(OverflowChecks /\ AtIdLimit)
    /\ \E topic \in Filters, tx \in Channels :
        pushed' = Append(pushed, [topic |-> topic, id |-> next_sub_id, tx |-> tx])
    /\ subscriptions' = subscriptions \cup {Len(pushed) + 1}
    /\ next_sub_id' = NextId
    /\ subscription' = [subscription EXCEPT ![c] = Len(pushed) + 1]
    /\ Goto(c, "to_replay")
    /\ UNCHANGED <<retained_messages, poisoned, message, pending, sent_count,
                   to_replay, channels, answers>>

\* With overflow checks the increment panics instead, under both locks.
OverflowPanic(c) ==
    /\ pc[c] = "to_take_id"
    /\ Acquires("next_sub_id")
    /\ OverflowChecks /\ AtIdLimit
    /\ poisoned' = poisoned \cup {"subscriptions", "next_sub_id"}
    /\ Return(c)
    /\ UNCHANGED <<pushed, subscriptions, next_sub_id, retained_messages, channels, answers>>

\* retained.get(&topic): the filter taken for a topic.
RetainedForExactly(i) ==
    {t \in Topics : retained_messages[t] # NoMessage /\ pushed[i].topic = t}

RetainedFor(i) ==
    {t \in Topics : retained_messages[t] # NoMessage /\ topic_matches(pushed[i].topic, t)}

LockToReplay(c) ==
    /\ pc[c] = "to_replay"
    /\ Acquires("retained_messages")
    /\ to_replay' = [to_replay EXCEPT ![c] = RetainedFor(subscription[c])]
    /\ Goto(c, "replaying")
    /\ UNCHANGED <<client, message, pending, sent_count, subscription, channels, answers>>

\* One retained message, in the arbitrary order of the HashMap; the result of
\* the send is ignored.
ReplayOne(c) ==
    /\ pc[c] = "replaying"
    /\ \E t \in to_replay[c] :
        /\ \/ /\ HasReceiver(subscription[c])
              /\ Sends(retained_messages[t], subscription[c], TRUE)
           \/ ~HasReceiver(subscription[c]) /\ UNCHANGED log
        /\ to_replay' = [to_replay EXCEPT ![c] = @ \ {t}]
    /\ UNCHANGED <<client, pc, message, pending, sent_count, subscription, receivers, answers>>

ReplayDone(c) ==
    /\ pc[c] = "replaying"
    /\ to_replay[c] = {}
    /\ Return(c)
    /\ UNCHANGED <<client, channels, answers>>

--------------------------------------------------------------------------------
(* unsubscribe, clear_retained_messages, panics, receivers *)

\* Every subscription made with this very filter goes, whoever made it.
Unsubscribe(c) ==
    /\ pc[c] = "idle"
    /\ Acquires("subscriptions")
    /\ \E topic \in Filters :
        subscriptions' = {i \in subscriptions : pushed[i].topic # topic}
    /\ UNCHANGED <<pushed, next_sub_id, retained_messages, poisoned, callers, channels, answers>>

ClearRetained(c) ==
    /\ pc[c] = "idle"
    /\ Acquires("retained_messages")
    /\ retained_messages' = [t \in Topics |-> NoMessage]
    /\ UNCHANGED <<pushed, subscriptions, next_sub_id, poisoned, callers, channels, answers>>

\* lock().unwrap() on a poisoned mutex panics; the guards held until then are
\* dropped by the unwinding and poison their mutexes.  (A call whose first lock
\* is poisoned changes nothing at all and is not a step.)
PanicOnPoison(c) ==
    /\ \E l \in Wanted(pc[c]) : Free(l) /\ l \in poisoned
    /\ poisoned' = poisoned \cup {l \in Locks : pc[c] \in PointsHolding(l)}
    /\ Return(c)
    /\ UNCHANGED <<pushed, subscriptions, next_sub_id, retained_messages, channels, answers>>

\* A subscriber drops the last receiver of its channel.  That it later takes a
\* new one from a Sender it kept is left out: that one sees later messages only.
DropReceiver ==
    /\ \E ch \in receivers : receivers' = receivers \ {ch}
    /\ UNCHANGED <<client, callers, log, answers>>

\* The steps of a call that has begun.
Continue(c) ==
    \/ LockToDeliver(c) \/ DeliverNext(c) \/ DeliverFail(c) \/ DeliverDone(c)
    \/ Register(c) \/ OverflowPanic(c) \/ LockToReplay(c) \/ ReplayOne(c) \/ ReplayDone(c)
    \/ PanicOnPoison(c)

Call(c) ==
    SimulateReceive(c) \/ LockToRegister(c) \/ Unsubscribe(c) \/ ClearRetained(c)

Next == (\E c \in Callers : Call(c) \/ Continue(c)) \/ DropReceiver

Spec == Init /\ [][Next]_vars

\* A thread inside a call goes on running.
FairSpec == Spec /\ \A c \in Callers : WF_vars(Continue(c))
--------------------------------------------------------------------------------
(* Properties. *)

\* The copies of m that its simulate_receive sent, by channel and place.
LiveCopies(m) ==
    UNION {{<<ch, n>> : n \in {k \in DOMAIN log[ch] : log[ch][k].message = m
                                                     /\ ~log[ch][k].replay}} : ch \in Channels}

\* Subscription i has been sent m, by simulate_receive or by its subscribe.
Got(i, m) ==
    \E n \in DOMAIN log[pushed[i].tx] :
        LET e == log[pushed[i].tx][n]
        IN  e.message = m /\ e.subscription_id = pushed[i].id

Reached(r) ==
    {i \in r.audience : \E copy \in LiveCopies(r.message) :
        /\ copy[1] = pushed[i].tx
        /\ log[copy[1]][copy[2]].subscription_id = pushed[i].id}

\* "Returns the number of subscriptions that received the message"
\* (client.rs:68-69), whatever other calls did meanwhile: no subscription got
\* two copies and none outside the list did; Ok means that every matching one
\* got its copy, and Err that exactly those in front of a subscription without
\* receiver did (client.rs:84-91).
OutcomeTellsWhoReceived ==
    \A r \in received :
        /\ Cardinality(LiveCopies(r.message)) = r.count
        /\ Cardinality(Reached(r)) = r.count
        /\ r.ok => Reached(r) = r.audience
        /\ ~r.ok => \E dead \in r.audience \ Reached(r) :
                        /\ Reached(r) = {i \in r.audience : i < dead}
                        /\ ~HasReceiver(dead)

\* A retained message is stored before the list is locked, and a subscription
\* is pushed before the store is read (client.rs:76-81, 157-166): however the
\* two calls interleave, a subscription whose subscribe is over has been sent
\* the retained message of every topic it matches.
RetainedReachesEverySubscriber ==
    \A r \in received, i \in subscriptions :
        (/\ r.ok /\ r.message.retain
         /\ retained_messages[r.message.topic] = r.message
         /\ topic_matches(pushed[i].topic, r.message.topic)
         /\ HasReceiver(i)
         /\ \A c \in Callers : subscription[c] # i)
        => Got(i, r.message)

\* What subscription i was sent last among the retained messages of topic t.
LastSeen(i, t) ==
    LET sent == log[pushed[i].tx]
        seen == {n \in DOMAIN sent : /\ sent[n].subscription_id = pushed[i].id
                                     /\ sent[n].message.retain
                                     /\ sent[n].message.topic = t}
        last == CHOOSE n \in seen : \A k \in seen : k <= n
    IN  IF seen = {} THEN NoMessage ELSE sent[last].message

\* With one deliverer, the last retained message a subscription was sent is
\* the one in the store, as soon as the call that stored it has answered Ok:
\* subscribing late or early makes no difference to the value a subscriber ends
\* up with.  (Two deliverers may store and deliver in different orders.)
LastSeenIsRetained ==
    \A r \in received, i \in subscriptions :
        (/\ r.ok /\ r.message.retain
         /\ retained_messages[r.message.topic] = r.message
         /\ topic_matches(pushed[i].topic, r.message.topic)
         /\ HasReceiver(i)
         /\ \A c \in Callers : subscription[c] # i)
        => LastSeen(i, r.message.topic) = r.message

\* A build with overflow checks never gives an id twice.  One without gives it
\* again when the counter has gone round, and no sooner: the subscribes in between
\* have used up every other id of the type, whatever was unsubscribed meanwhile
\* (client.rs:158-160).
IdsUnique ==
    \A i, j \in DOMAIN pushed :
        i < j /\ pushed[i].id = pushed[j].id => ~OverflowChecks /\ j - i >= IdLimit

\* The lock a caller waits for is held by another.
Blocked(c) == \E l \in Wanted(pc[c]) : ~Free(l)

\* The locks are taken in an order that leaves no circle of waiting callers
\* (client.rs:76-81, 157-164): while some call is under way, one of them runs.
SomeoneCanProceed ==
    (\E c \in Callers : pc[c] # "idle")
        => \E c \in Callers : pc[c] # "idle" /\ ~Blocked(c)

\* Once a subscribe has panicked at the id limit (client.rs:160) the client is
\* of no more use: nothing is registered, removed or sent any more, not even
\* the messages of calls that were waiting for the list.
PanicFreezesDelivery ==
    [][poisoned # {} => UNCHANGED <<pushed, subscriptions, log>>]_vars

\* "This will send the message through any registered subscription senders
\* that match the given topic" (client.rs:67-68): each of them with a receiver
\* gets the message.
EveryLiveSubscriberReached ==
    \A r \in received : \A i \in r.audience : HasReceiver(i) => i \in Reached(r)

\* A call that has begun comes to an end, by returning or by panicking.
EveryCallReturns == \A c \in Callers : pc[c] # "idle" ~> pc[c] = "idle"

\* The client implements the contract of the trait.
Contract == INSTANCE PubSubContract WITH
    active <- {pushed[i] : i \in subscriptions},
    issued <- {pushed[i].id : i \in DOMAIN pushed},
    delivered <- log

\* Every step of the client is a step the contract of the trait allows, or
\* changes nothing the contract speaks of: what a subscriber receives carries
\* the id of an active subscription with a matching filter (lib.rs:101-113).
ContractSpec == Contract!Spec
================================================================================

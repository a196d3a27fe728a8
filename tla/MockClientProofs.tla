---------------------------- MODULE MockClientProofs ----------------------------
(***************************************************************************)
(* Proofs about MockClient, for any number of callers, channels, topics,   *)
(* filters and messages, and any number of values of the id type.          *)
(***************************************************************************)
EXTENDS MockClient, TopicFilterProofs

\* At most one caller is at a point that holds a lock.
LockInv ==
    \A l \in Locks, c, d \in Callers :
        pc[c] \in PointsHolding(l) /\ pc[d] \in PointsHolding(l) => c = d

\* What the local variables of a call hold at each point.
LocalInv ==
    \A c \in Callers :
        /\ pc[c] \in {"to_deliver", "delivering"} => message[c] \in Message
        /\ pc[c] = "delivering" => pending[c] \subseteq Audience(message[c])
        /\ pc[c] = "to_take_id" => Len(pushed) < MaxSubscribes
        /\ pc[c] \in {"to_replay", "replaying"} => subscription[c] \in subscriptions
        /\ pc[c] = "replaying" => to_replay[c] \subseteq RetainedFor(subscription[c])

\* The first IdLimit subscriptions have the ids 1, 2, ..., IdLimit - 1, 0; with
\* overflow checks the last two of them are never made.  Of those made since the
\* counter was last where it is, each id is as far behind the counter as its
\* subscription is from the end of the list, so that no two have the same.
IdInv ==
    /\ \A i \in DOMAIN pushed : /\ i < IdLimit => pushed[i].id = i
                                /\ i = IdLimit => pushed[i].id = 0
    /\ Len(pushed) + 1 < IdLimit => next_sub_id = Len(pushed) + 1
    /\ Len(pushed) + 1 = IdLimit => next_sub_id = 0
    /\ OverflowChecks => Len(pushed) + 1 < IdLimit
    /\ \A i \in DOMAIN pushed :
           Len(pushed) + 1 - i < IdLimit =>
               next_sub_id - pushed[i].id \in {Len(pushed) + 1 - i, Len(pushed) + 1 - i - IdLimit}
    /\ \A i, j \in DOMAIN pushed :
           i < j /\ j - i < IdLimit => pushed[i].id # pushed[j].id

\* The only panic under a lock poisons the list and the counter together, and
\* leaves nobody behind who holds the list.
PoisonInv ==
    /\ poisoned \in {{}, {"subscriptions", "next_sub_id"}}
    /\ poisoned # {} => Free("subscriptions")

\* The retained store keeps a message under its own topic.
StoreInv ==
    \A t \in Topics : retained_messages[t] # NoMessage => retained_messages[t].topic = t

IInv == TypeOK /\ LockInv /\ LocalInv /\ IdInv /\ PoisonInv /\ StoreInv

--------------------------------------------------------------------------------
LEMMA InitIInv == Init => IInv
<1> SUFFICES ASSUME Init PROVE IInv
    OBVIOUS
<1> USE ConstantsAssumption
<1>1. TypeOK
    BY DEF Init, TypeOK, SubscriptionIds, Points
<1>2. LockInv /\ LocalInv /\ PoisonInv
    BY DEF Init, LockInv, LocalInv, PoisonInv, PointsHolding, Free, Locks
<1>3. IdInv /\ StoreInv
    BY DEF Init, IdInv, StoreInv
<1>4. QED
    BY <1>1, <1>2, <1>3 DEF IInv

\* An entry sent for a subscription of the Vec is a well-formed one.
LEMMA SendsType ==
    ASSUME TypeOK, NEW m \in Message, NEW i \in subscriptions, NEW replay \in BOOLEAN,
           Sends(m, i, replay)
    PROVE  log' \in [Channels -> Seq(Entry)]
<1>1. pushed[i] \in Subscription
    BY DEF TypeOK
<1> DEFINE e == [message |-> m, subscription_id |-> pushed[i].id, replay |-> replay]
<1>2. e \in Entry /\ pushed[i].tx \in Channels
    BY <1>1 DEF Entry, Subscription
<1>3. QED
    BY <1>2 DEF TypeOK, Sends

\* A caller that goes to a point while nobody holds the locks of that point
\* which it does not hold itself keeps the locks exclusive.
LEMMA MoveLockInv ==
    ASSUME TypeOK, LockInv, NEW c \in Callers, NEW p \in Points, Goto(c, p),
           \A l \in Locks : p \in PointsHolding(l) => Free(l) \/ pc[c] \in PointsHolding(l)
    PROVE  LockInv'
BY DEF TypeOK, LockInv, Goto, Free, PointsHolding, Locks

\* A caller that returns without panicking holds nothing new.
LEMMA ReturnPoisonInv ==
    ASSUME TypeOK, PoisonInv, NEW c \in Callers, Return(c), UNCHANGED poisoned
    PROVE  PoisonInv'
BY DEF TypeOK, PoisonInv, Return, Goto, Free, PointsHolding

\* A caller that returns disturbs nothing of the other callers.
LEMMA ReturnIInv ==
    ASSUME IInv, NEW c \in Callers, Return(c),
           UNCHANGED <<pushed, subscriptions, next_sub_id, retained_messages, log, receivers, used>>,
           received' \subseteq Outcome, PoisonInv'
    PROVE  IInv'
<1>1. TypeOK'
    BY DEF IInv, TypeOK, PoisonInv, Return, Goto, Points, Locks
<1>2. LockInv'
    BY MoveLockInv DEF IInv, Return, PointsHolding, Points, Locks
<1>3. LocalInv'
    BY DEF IInv, TypeOK, LocalInv, Return, Goto, Audience, RetainedFor
<1>4. IdInv' /\ StoreInv'
    BY DEF IInv, IdInv, StoreInv
<1>5. QED
    BY <1>1, <1>2, <1>3, <1>4 DEF IInv

LEMMA NextIInv == IInv /\ [Next]_vars => IInv'
<1> SUFFICES ASSUME IInv, [Next]_vars PROVE IInv'
    OBVIOUS
<1> USE DEF IInv, client, callers, channels, answers
<1>1. ASSUME NEW c \in Callers, SimulateReceive(c) PROVE IInv'
    <2> USE <1>1 DEF SimulateReceive
    <2> PICK m \in Message :
            /\ used' = used \cup {m.payload}
            /\ message' = [message EXCEPT ![c] = m]
            /\ \/ retained_messages' = [retained_messages EXCEPT ![m.topic] = m]
               \/ UNCHANGED retained_messages
        OBVIOUS
    <2>1. TypeOK'
        <3>1. m.topic \in Topics /\ m.payload \in Payloads
            BY DEF Message
        <3>2. retained_messages' \in [Topics -> Message \cup {NoMessage}]
            BY <3>1 DEF TypeOK
        <3>3. QED
            BY <3>1, <3>2 DEF TypeOK, Goto, Points
    <2>2. LockInv'
        BY MoveLockInv DEF PointsHolding, Points, Locks
    <2>3. LocalInv'
        \* Nobody is replaying when the retained store changes.
        <3>1. retained_messages' = retained_messages \/ \A d \in Callers : pc[d] # "replaying"
            BY DEF Acquires, Free, PointsHolding
        <3>2. QED
            BY <3>1 DEF TypeOK, LocalInv, Goto, Audience, RetainedFor
    <2>4. StoreInv'
        BY DEF TypeOK, StoreInv
    <2>5. IdInv' /\ PoisonInv'
        BY DEF TypeOK, IdInv, PoisonInv, Free, Goto, PointsHolding
    <2>6. QED
        BY <2>1, <2>2, <2>3, <2>4, <2>5
<1>2. ASSUME NEW c \in Callers, LockToDeliver(c) PROVE IInv'
    <2> USE <1>2 DEF LockToDeliver
    <2>1. TypeOK'
        <3>1. Audience(message[c]) \in SUBSET Nat
            BY DEF TypeOK, Audience
        <3>2. QED
            BY <3>1 DEF TypeOK, Goto, Points
    <2>2. LockInv'
        BY MoveLockInv DEF Acquires, PointsHolding, Points, Locks
    <2>3. LocalInv'
        BY DEF TypeOK, LocalInv, Goto, Audience, RetainedFor
    <2>4. IdInv' /\ PoisonInv' /\ StoreInv'
        BY DEF TypeOK, IdInv, PoisonInv, StoreInv, Acquires
    <2>5. QED
        BY <2>1, <2>2, <2>3, <2>4
<1>3. ASSUME NEW c \in Callers, DeliverNext(c) PROVE IInv'
    <2> USE <1>3 DEF DeliverNext
    <2>1. TypeOK'
        <3>1. log' \in [Channels -> Seq(Entry)]
            BY SendsType DEF LocalInv, Audience
        <3>2. QED
            BY <3>1 DEF TypeOK
    <2>2. LockInv' /\ LocalInv' /\ IdInv' /\ PoisonInv' /\ StoreInv'
        BY DEF TypeOK, LockInv, LocalInv, IdInv, PoisonInv, StoreInv, Audience, RetainedFor, Free
    <2>3. QED
        BY <2>1, <2>2
<1>4. ASSUME NEW c \in Callers, DeliverFail(c) \/ DeliverDone(c) PROVE IInv'
    <2>0. pc[c] = "delivering" /\ Return(c) /\ UNCHANGED <<client, channels, used>>
        BY <1>4 DEF DeliverFail, DeliverDone
    <2>1. /\ message[c] \in Message
          /\ sent_count[c] \in Nat
          /\ Audience(message[c]) \subseteq Nat
        BY <2>0 DEF TypeOK, LocalInv, Audience
    <2>2. \A ok \in BOOLEAN : Answered(c, ok, Audience(message[c])) => received' \subseteq Outcome
        BY <2>1 DEF Answered, Outcome, TypeOK
    <2>3. received' \subseteq Outcome
        BY <1>4, <2>2 DEF DeliverFail, DeliverDone
    <2>4. PoisonInv'
        BY <2>0, ReturnPoisonInv
    <2> HIDE DEF IInv
    <2>5. QED
        BY <2>0, <2>3, <2>4, ReturnIInv
<1>5. ASSUME NEW c \in Callers, LockToRegister(c) PROVE IInv'
    <2> USE <1>5 DEF LockToRegister
    <2>1. TypeOK'
        BY DEF TypeOK, Goto, Points
    <2>2. LockInv'
        BY MoveLockInv DEF Acquires, PointsHolding, Points, Locks
    <2>3. LocalInv' /\ IdInv' /\ PoisonInv' /\ StoreInv'
        BY DEF TypeOK, LocalInv, Goto, Audience, RetainedFor, IdInv, PoisonInv, StoreInv, Acquires
    <2>4. QED
        BY <2>1, <2>2, <2>3
<1>6. ASSUME NEW c \in Callers, Register(c) PROVE IInv'
    <2> USE <1>6, ConstantsAssumption DEF Register
    <2> PICK topic \in Filters, tx \in Channels :
            pushed' = Append(pushed, [topic |-> topic, id |-> next_sub_id, tx |-> tx])
        OBVIOUS
    <2>1. /\ pushed' \in Seq(Subscription)
          /\ Len(pushed') = Len(pushed) + 1
          /\ \A i \in DOMAIN pushed : pushed'[i] = pushed[i]
          /\ pushed'[Len(pushed) + 1].id = next_sub_id
          /\ DOMAIN pushed = 1..Len(pushed) /\ Len(pushed) \in Nat
          /\ DOMAIN pushed' = 1..(Len(pushed) + 1)
        <3>1. [topic |-> topic, id |-> next_sub_id, tx |-> tx] \in Subscription
            BY DEF TypeOK, Subscription
        <3>2. QED
            BY <3>1 DEF TypeOK
    <2>2. TypeOK'
        <3>1. next_sub_id' \in SubscriptionIds
            BY DEF TypeOK, SubscriptionIds, AtIdLimit, NextId
        <3>2. QED
            BY <2>1, <3>1 DEF TypeOK, Goto, Points
    <2>3. LockInv'
        BY MoveLockInv DEF Acquires, PointsHolding, Points, Locks
    <2>4. LocalInv'
        \* Nobody else holds the list.
        <3>1. \A d \in Callers \ {c} : pc[d] \in {"idle", "to_deliver"}
            BY DEF TypeOK, LockInv, Points, PointsHolding, Locks
        <3>2. QED
            BY <3>1 DEF TypeOK, LocalInv, Goto
    <2>5. IdInv'
        <3>1. /\ next_sub_id \in 0..(IdLimit - 1)
              /\ next_sub_id' = IF next_sub_id = IdLimit - 1 THEN 0 ELSE next_sub_id + 1
              /\ \A i \in DOMAIN pushed : pushed[i].id \in 0..(IdLimit - 1)
            <4>1. next_sub_id \in 0..(IdLimit - 1)
                BY DEF TypeOK, SubscriptionIds
            <4>2. next_sub_id' = IF next_sub_id = IdLimit - 1 THEN 0 ELSE next_sub_id + 1
                BY DEF AtIdLimit, NextId
            <4>3. ASSUME NEW i \in DOMAIN pushed PROVE pushed[i].id \in 0..(IdLimit - 1)
                <5>1. pushed[i] \in Subscription
                    BY DEF TypeOK
                <5>2. QED
                    BY <5>1 DEF Subscription, SubscriptionIds
            <4>4. QED
                BY <4>1, <4>2, <4>3
        <3>2. /\ \A i \in DOMAIN pushed' : /\ i < IdLimit => pushed'[i].id = i
                                          /\ i = IdLimit => pushed'[i].id = 0
              /\ Len(pushed') + 1 < IdLimit => next_sub_id' = Len(pushed') + 1
              /\ Len(pushed') + 1 = IdLimit => next_sub_id' = 0
              /\ OverflowChecks' => Len(pushed') + 1 < IdLimit
            BY <2>1, <3>1 DEF IdInv, AtIdLimit
        <3>3. ASSUME NEW i \in DOMAIN pushed', Len(pushed') + 1 - i < IdLimit
              PROVE  next_sub_id' - pushed'[i].id
                         \in {Len(pushed') + 1 - i, Len(pushed') + 1 - i - IdLimit}
            <4>1. CASE i = Len(pushed) + 1
                BY <2>1, <3>1, <4>1
            <4>2. CASE i \in DOMAIN pushed
                <5>1. next_sub_id - pushed[i].id
                          \in {Len(pushed) + 1 - i, Len(pushed) + 1 - i - IdLimit}
                    BY <2>1, <3>3, <4>2 DEF IdInv
                <5>2. QED
                    BY <2>1, <3>1, <3>3, <4>2, <5>1
            <4>3. QED
                BY <2>1, <4>1, <4>2
        <3>4. ASSUME NEW i \in DOMAIN pushed', NEW j \in DOMAIN pushed', i < j, j - i < IdLimit
              PROVE  pushed'[i].id # pushed'[j].id
            <4>1. CASE j = Len(pushed) + 1
                <5>1. next_sub_id - pushed[i].id
                          \in {Len(pushed) + 1 - i, Len(pushed) + 1 - i - IdLimit}
                    BY <2>1, <3>4, <4>1 DEF IdInv
                <5>2. QED
                    BY <2>1, <3>1, <3>4, <4>1, <5>1
            <4>2. CASE j \in DOMAIN pushed
                BY <2>1, <3>4, <4>2 DEF IdInv
            <4>3. QED
                BY <2>1, <4>1, <4>2
        <3>5. QED
            BY <3>2, <3>3, <3>4 DEF IdInv
    <2>6. PoisonInv' /\ StoreInv'
        BY DEF TypeOK, PoisonInv, StoreInv, Acquires, Free, PointsHolding
    <2>7. QED
        BY <2>2, <2>3, <2>4, <2>5, <2>6
<1>7. ASSUME NEW c \in Callers, OverflowPanic(c) PROVE IInv'
    <2>1. poisoned' = {"subscriptions", "next_sub_id"}
        BY <1>7 DEF OverflowPanic, PoisonInv
    <2>2. Return(c) /\ pc[c] = "to_take_id"
          /\ UNCHANGED <<pushed, subscriptions, next_sub_id, retained_messages, channels, answers>>
        BY <1>7 DEF OverflowPanic
    \* Nobody else holds the list, and c drops its guard.
    <2>3. PoisonInv'
        BY <2>1, <2>2 DEF TypeOK, PoisonInv, LockInv, Return, Goto, Free, PointsHolding, Locks
    <2>4. received' \subseteq Outcome
        BY <2>2 DEF TypeOK
    <2> HIDE DEF IInv
    <2>5. QED
        BY <2>2, <2>3, <2>4, ReturnIInv
<1>8. ASSUME NEW c \in Callers, LockToReplay(c) PROVE IInv'
    <2> USE <1>8 DEF LockToReplay
    <2>1. TypeOK'
        BY DEF TypeOK, Goto, Points, RetainedFor
    <2>2. LockInv'
        BY MoveLockInv DEF Acquires, PointsHolding, Points, Locks
    <2>3. LocalInv' /\ IdInv' /\ PoisonInv' /\ StoreInv'
        BY DEF TypeOK, LocalInv, Goto, Audience, RetainedFor, IdInv, PoisonInv, StoreInv, Free,
               PointsHolding
    <2>4. QED
        BY <2>1, <2>2, <2>3
<1>9. ASSUME NEW c \in Callers, ReplayOne(c) PROVE IInv'
    <2> USE <1>9 DEF ReplayOne
    <2>1. TypeOK'
        <3>1. \A t \in to_replay[c] : retained_messages[t] \in Message
            BY DEF TypeOK, LocalInv, RetainedFor
        <3>2. log' \in [Channels -> Seq(Entry)]
            BY <3>1, SendsType DEF LocalInv, TypeOK
        <3>3. QED
            BY <3>2 DEF TypeOK
    <2>2. LockInv' /\ LocalInv' /\ IdInv' /\ PoisonInv' /\ StoreInv'
        BY DEF TypeOK, LockInv, LocalInv, IdInv, PoisonInv, StoreInv, Audience, RetainedFor, Free
    <2>3. QED
        BY <2>1, <2>2
<1>10. ASSUME NEW c \in Callers, ReplayDone(c) PROVE IInv'
    <2>1. Return(c) /\ UNCHANGED <<client, channels, answers>>
        BY <1>10 DEF ReplayDone
    <2>2. received' \subseteq Outcome /\ PoisonInv'
        BY <2>1, ReturnPoisonInv DEF TypeOK
    <2> HIDE DEF IInv
    <2>3. QED
        BY <2>1, <2>2, ReturnIInv
<1>11. ASSUME NEW c \in Callers, Unsubscribe(c) PROVE IInv'
    <2> USE <1>11 DEF Unsubscribe
    <2>1. \A d \in Callers : pc[d] \in {"idle", "to_deliver"}
        BY DEF TypeOK, Points, Acquires, Free, PointsHolding
    <2>2. TypeOK' /\ LockInv' /\ LocalInv' /\ IdInv' /\ PoisonInv' /\ StoreInv'
        BY <2>1 DEF TypeOK, LockInv, LocalInv, IdInv, PoisonInv, StoreInv, Free
    <2>3. QED
        BY <2>2
<1>12. ASSUME NEW c \in Callers, ClearRetained(c) PROVE IInv'
    <2> USE <1>12 DEF ClearRetained
    <2>1. \A d \in Callers : pc[d] # "replaying"
        BY DEF Acquires, Free, PointsHolding
    <2>2. TypeOK' /\ LockInv' /\ LocalInv' /\ IdInv' /\ PoisonInv' /\ StoreInv'
        BY <2>1 DEF TypeOK, LockInv, LocalInv, IdInv, PoisonInv, StoreInv, Audience, Free
    <2>3. QED
        BY <2>2
<1>13. ASSUME NEW c \in Callers, PanicOnPoison(c) PROVE IInv'
    \* The poisoned lock is that of the list or of the counter; who waits for
    \* the counter holds the list, which nobody does then.
    <2>1. pc[c] = "to_deliver"
        BY <1>13 DEF PanicOnPoison, Wanted, TypeOK, Points, PoisonInv, Free, PointsHolding
    <2>2. poisoned' = poisoned
        BY <1>13, <2>1 DEF PanicOnPoison, PointsHolding, Locks
    <2>3. Return(c)
          /\ UNCHANGED <<pushed, subscriptions, next_sub_id, retained_messages, channels, answers>>
        BY <1>13 DEF PanicOnPoison
    <2>4. received' \subseteq Outcome /\ PoisonInv'
        BY <2>2, <2>3, ReturnPoisonInv DEF TypeOK
    <2> HIDE DEF IInv
    <2>5. QED
        BY <2>3, <2>4, ReturnIInv
<1>14. CASE DropReceiver
    BY <1>14 DEF DropReceiver, TypeOK, LockInv, LocalInv, IdInv, PoisonInv, StoreInv, Audience,
                 RetainedFor, Free
<1>15. CASE UNCHANGED vars
    BY <1>15 DEF vars, TypeOK, LockInv, LocalInv, IdInv, PoisonInv, StoreInv, Audience,
                 RetainedFor, Free
<1>16. QED
    BY <1>1, <1>2, <1>3, <1>4, <1>5, <1>6, <1>7, <1>8, <1>9, <1>10, <1>11, <1>12, <1>13,
       <1>14, <1>15 DEF Next, Call, Continue

LEMMA Inductive == Spec => []IInv
BY InitIInv, NextIInv, PTL DEF Spec

--------------------------------------------------------------------------------
\* Every variable keeps its type, whatever the callers do.
THEOREM TypeCorrect == Spec => []TypeOK
<1>1. IInv => TypeOK
    BY DEF IInv
<1>2. QED
    BY Inductive, <1>1, PTL

LEMMA IInvIdsUnique == IInv => IdsUnique
<1> SUFFICES ASSUME IInv,
                    NEW i \in DOMAIN pushed, NEW j \in DOMAIN pushed,
                    i < j, pushed[i].id = pushed[j].id
             PROVE  ~OverflowChecks /\ j - i >= IdLimit
    BY DEF IdsUnique
<1>1. /\ i \in 1..Len(pushed) /\ j \in 1..Len(pushed)
      /\ Len(pushed) \in Nat /\ IdLimit \in Nat
    BY ConstantsAssumption DEF IInv, TypeOK, IdInv
<1>2. j - i >= IdLimit
    BY <1>1 DEF IInv, IdInv
<1>3. QED
    BY <1>1, <1>2 DEF IInv, IdInv

\* However many values the id type has: with overflow checks a subscription's id is
\* its own, without them until all the other ids have been given (client.rs:158-160).
THEOREM IdsAreUnique == Spec => []IdsUnique
BY Inductive, IInvIdsUnique, PTL

\* No deadlock of any number of callers on the three mutexes: among the calls
\* under way the one that has gone furthest in the order retained store, id
\* counter, list is not blocked (client.rs:76-81, 157-164).
THEOREM NoDeadlock == Spec => []SomeoneCanProceed
<1>1. TypeOK => SomeoneCanProceed
    <2> SUFFICES ASSUME TypeOK, NEW b \in Callers, pc[b] # "idle"
                 PROVE  \E c \in Callers : pc[c] # "idle" /\ ~Blocked(c)
        BY DEF SomeoneCanProceed
    <2> USE DEF Blocked, Wanted, Free, PointsHolding
    <2>1. CASE \E c \in Callers : pc[c] \in {"replaying", "delivering"}
        BY <2>1
    <2>2. CASE /\ \A c \in Callers : pc[c] # "replaying"
               /\ \E c \in Callers : pc[c] = "to_replay"
        BY <2>2
    <2>3. CASE /\ \A c \in Callers : pc[c] \notin {"replaying", "to_replay"}
               /\ \E c \in Callers : pc[c] = "to_take_id"
        BY <2>3
    <2>4. CASE \A c \in Callers : pc[c] \in {"idle", "to_deliver"}
        BY <2>4
    <2>5. QED
        BY <2>1, <2>2, <2>3, <2>4 DEF TypeOK, Points
<1>2. QED
    BY TypeCorrect, <1>1, PTL

\* After the panic at the id limit nothing is registered, removed or sent.
THEOREM PanicIsFinal == Spec => PanicFreezesDelivery
<1>1. IInv /\ [Next]_vars => [poisoned # {} => UNCHANGED <<pushed, subscriptions, log>>]_vars
    <2> SUFFICES ASSUME IInv, Next, poisoned # {}
                 PROVE  UNCHANGED <<pushed, subscriptions, log>>
        OBVIOUS
    <2>1. /\ \A c \in Callers : pc[c] \notin {"delivering", "to_take_id", "to_replay", "replaying"}
          /\ ~Acquires("subscriptions")
        BY DEF IInv, PoisonInv, Free, PointsHolding, Acquires
    <2>2. ASSUME NEW c \in Callers, Call(c)
          PROVE  UNCHANGED <<pushed, subscriptions, log>>
        BY <2>1, <2>2 DEF Call, SimulateReceive, LockToRegister, Unsubscribe, ClearRetained, channels
    <2>3. ASSUME NEW c \in Callers, Continue(c)
          PROVE  UNCHANGED <<pushed, subscriptions, log>>
        BY <2>1, <2>3 DEF Continue, LockToDeliver, DeliverNext, DeliverFail, DeliverDone, Register,
            OverflowPanic, LockToReplay, ReplayOne, ReplayDone, PanicOnPoison, client, channels
    <2>4. CASE DropReceiver
        BY <2>4 DEF DropReceiver, client
    <2>5. QED
        BY <2>2, <2>3, <2>4 DEF Next
<1>2. QED
    BY Inductive, <1>1, PTL DEF Spec, PanicFreezesDelivery

--------------------------------------------------------------------------------
(* The client implements the contract of the trait. *)

\* Filters as the doc comment of topic_matches requires them (client.rs:110).
DocumentedFilters ==
    /\ Filters \subseteq Seq(STRING)
    /\ \A f \in Filters : WellFormed(f)

\* The id a subscribe takes is one no subscription has had.
LEMMA FreshId ==
    ASSUME IInv, OverflowChecks \/ MaxSubscribes <= IdLimit,
           NEW c \in Callers, Register(c)
    PROVE  \A i \in DOMAIN pushed : pushed[i].id # next_sub_id
<1>1. /\ Len(pushed) \in Nat /\ DOMAIN pushed = 1..Len(pushed)
      /\ IdLimit \in Nat /\ MaxSubscribes \in Nat
      /\ Len(pushed) + 1 <= IdLimit
    BY ConstantsAssumption DEF IInv, TypeOK, LocalInv, IdInv, Register
<1>2. QED
    BY <1>1 DEF IInv, IdInv

\* A send for a subscription of the Vec whose filter matches is a delivery.
LEMMA SendsIsDeliver ==
    ASSUME DocumentedFilters, TypeOK,
           NEW m \in Message, NEW i \in subscriptions, NEW replay \in BOOLEAN,
           topic_matches(pushed[i].topic, m.topic), Sends(m, i, replay),
           UNCHANGED <<pushed, subscriptions>>
    PROVE  Contract!Deliver
<1> DEFINE e == [message |-> m, subscription_id |-> pushed[i].id, replay |-> replay]
<1>1. pushed[i] \in {pushed[k] : k \in subscriptions} /\ pushed[i] \in Subscription
    BY DEF TypeOK
<1>2. e \in Contract!Entry /\ e.subscription_id = pushed[i].id /\ e.message = m
    BY <1>1 DEF Contract!Entry, Contract!Message, Message, Subscription
<1>3. Contract!Matches(pushed[i].topic, m.topic)
    <2>1. Matches(pushed[i].topic, m.topic)
        BY <1>1, WellFormedAnswer DEF DocumentedFilters, Subscription
    <2>2. QED
        BY <2>1 DEF Contract!Matches, Contract!Covers, Matches, Covers
<1>4. log' = [log EXCEPT ![pushed[i].tx] = Append(@, e)]
    BY DEF Sends
<1>5. QED
    BY <1>1, <1>2, <1>3, <1>4 DEF Contract!Deliver

LEMMA InitContract == Init => Contract!Init
BY DEF Init, Contract!Init

LEMMA NextContract ==
    ASSUME DocumentedFilters, OverflowChecks \/ MaxSubscribes <= IdLimit
    PROVE  IInv /\ [Next]_vars => [Contract!Next]_(Contract!vars)
<1> SUFFICES ASSUME IInv, [Next]_vars PROVE [Contract!Next]_(Contract!vars)
    OBVIOUS
<1> USE DEF client, callers, channels, answers
<1>1. ASSUME UNCHANGED <<pushed, subscriptions, log>> PROVE UNCHANGED Contract!vars
    BY <1>1 DEF Contract!vars
<1>2. ASSUME NEW c \in Callers, DeliverNext(c) PROVE Contract!Deliver
    <2>1. PICK i \in pending[c] : Sends(message[c], i, FALSE)
        BY <1>2 DEF DeliverNext
    <2>2. message[c] \in Message /\ i \in Audience(message[c])
        BY <1>2, <2>1 DEF DeliverNext, IInv, LocalInv
    <2>3. QED
        BY <1>2, <2>1, <2>2, SendsIsDeliver DEF DeliverNext, Audience, IInv
<1>3. ASSUME NEW c \in Callers, ReplayOne(c) PROVE Contract!Deliver \/ UNCHANGED Contract!vars
    <2>1. PICK t \in to_replay[c] :
            Sends(retained_messages[t], subscription[c], TRUE) \/ UNCHANGED log
        BY <1>3 DEF ReplayOne
    <2>2. /\ subscription[c] \in subscriptions
          /\ t \in RetainedFor(subscription[c])
        BY <1>3, <2>1 DEF ReplayOne, IInv, LocalInv
    <2>3. retained_messages[t] \in Message /\ retained_messages[t].topic = t
        BY <2>2 DEF RetainedFor, IInv, TypeOK, StoreInv
    <2>4. QED
        BY <1>1, <1>3, <2>1, <2>2, <2>3, SendsIsDeliver DEF ReplayOne, RetainedFor, IInv
<1>4. ASSUME NEW c \in Callers, Register(c) PROVE Contract!Subscribe
    <2>1. PICK topic \in Filters, tx \in Channels :
            pushed' = Append(pushed, [topic |-> topic, id |-> next_sub_id, tx |-> tx])
        BY <1>4 DEF Register
    <2> DEFINE s == [topic |-> topic, id |-> next_sub_id, tx |-> tx]
    <2>2. s \in Contract!Subscription /\ s.id = next_sub_id
        BY DEF IInv, TypeOK, Contract!Subscription
    <2>3. /\ DOMAIN pushed = 1..Len(pushed) /\ Len(pushed) \in Nat
          /\ DOMAIN pushed' = DOMAIN pushed \cup {Len(pushed) + 1}
          /\ \A i \in DOMAIN pushed : pushed'[i] = pushed[i]
          /\ pushed'[Len(pushed) + 1] = s
        BY <2>1 DEF IInv, TypeOK
    <2>4. {pushed'[i] : i \in subscriptions'} = {pushed[i] : i \in subscriptions} \cup {s}
        BY <1>4, <2>3 DEF Register, IInv, TypeOK
    <2>5. {pushed'[i].id : i \in DOMAIN pushed'} = {pushed[i].id : i \in DOMAIN pushed} \cup {s.id}
        BY <2>3
    <2>6. s.id \notin {pushed[i].id : i \in DOMAIN pushed}
        BY <1>4, <2>2, FreshId
    <2>7. QED
        BY <1>4, <2>2, <2>4, <2>5, <2>6 DEF Register, Contract!Subscribe
<1>5. ASSUME NEW c \in Callers, Unsubscribe(c) PROVE Contract!Unsubscribe
    <2>1. PICK topic \in Filters : subscriptions' = {i \in subscriptions : pushed[i].topic # topic}
        BY <1>5 DEF Unsubscribe
    <2>2. {pushed'[i] : i \in subscriptions'}
            = {s \in {pushed[i] : i \in subscriptions} : s.topic # topic}
        BY <1>5, <2>1 DEF Unsubscribe
    <2>3. QED
        BY <1>5, <2>2 DEF Unsubscribe, Contract!Unsubscribe
<1>6. ASSUME NEW c \in Callers,
             \/ SimulateReceive(c) \/ LockToRegister(c) \/ ClearRetained(c) \/ LockToDeliver(c)
             \/ DeliverFail(c) \/ DeliverDone(c) \/ OverflowPanic(c) \/ LockToReplay(c)
             \/ ReplayDone(c) \/ PanicOnPoison(c)
      PROVE  UNCHANGED <<pushed, subscriptions, log>>
    BY <1>6 DEF SimulateReceive, LockToRegister, ClearRetained, LockToDeliver, DeliverFail,
        DeliverDone, OverflowPanic, LockToReplay, ReplayDone, PanicOnPoison
<1>7. CASE DropReceiver \/ UNCHANGED vars
    BY <1>1, <1>7 DEF DropReceiver, vars
<1>8. QED
    BY <1>1, <1>2, <1>3, <1>4, <1>5, <1>6, <1>7 DEF Next, Call, Continue, Contract!Next

\* The client implements the contract of the trait (lib.rs:101-113) for filters
\* with "#" at most at their end, as long as the id counter cannot go round: with
\* overflow checks always, without them up to IdLimit subscribes.
THEOREM ImplementsContract ==
    ASSUME DocumentedFilters, OverflowChecks \/ MaxSubscribes <= IdLimit
    PROVE  Spec => ContractSpec
<1>1. IInv /\ [Next]_vars => [Contract!Next]_(Contract!vars)
    BY NextContract
<1>2. QED
    BY InitContract, Inductive, <1>1, PTL DEF Spec, ContractSpec, Contract!Spec
================================================================================

-------------------------- MODULE WitnessClientProofs --------------------------
(***************************************************************************)
(* Proofs about WitnessClient, for any number of callers, any values and   *)
(* queues of any length: the type invariant, and what the answers of the   *)
(* waits and of verify_publish mean.                                       *)
(***************************************************************************)
EXTENDS WitnessClient, FiniteSetTheorems, TLAPS

publishing == {d \in Callers : pc[d] = "publishing"}

\* Every verification that has begun may publish its message.
BudgetInv == published + Cardinality(publishing) <= MaxPublishes

\* What a caller cleared before its verification stays cleared.
SinceInv == \A c \in Callers : since[c] <= cleared

\* What a caller's locals hold at its point: a verification waits for one message,
\* and a wait that has looked found nothing among what was captured before.
Local(c) ==
    /\ pc[c] = "publishing" => wanted[c].count = 1
    /\ verifying[c] # 0 => pc[c] \in Waiting /\ wanted[c].count = 1
    /\ pc[c] \in {"checking", "sleeping"} => ~Satisfied(wanted[c], woke[c])

LocalInv == \A c \in Callers : Local(c)

IInv == TypeOK /\ BudgetInv /\ SinceInv /\ LocalInv

\* Satisfied as an operator of constants: what a record cl of which was cleared
\* holds of w in its first n places.
Places(cap, cl, w, n) ==
    {k \in (cl + 1)..n : cap[k].topic \in w.topics /\ cap[k].payload \in w.payloads}
Found(cap, cl, w, n) == Cardinality(Places(cap, cl, w, n)) >= w.count

--------------------------------------------------------------------------------
(* Counting. *)

\* Fewer places do not satisfy a wait that more places did not.
LEMMA FewerPlaces ==
    ASSUME NEW m \in Nat, NEW n \in Nat, NEW A \in SUBSET (m..n), NEW B \in SUBSET A,
           NEW k \in Nat, ~(Cardinality(A) >= k)
    PROVE  ~(Cardinality(B) >= k)
<1>1. IsFiniteSet(A)
  <2>1. IsFiniteSet(m..n)
      BY FS_Interval
  <2>2. QED
      BY <2>1, FS_Subset
<1>2. Cardinality(B) <= Cardinality(A) /\ IsFiniteSet(B)
    BY <1>1, FS_Subset
<1>3. Cardinality(A) \in Nat /\ Cardinality(B) \in Nat
    BY <1>1, <1>2, FS_CardinalityType
<1>4. QED
    BY <1>2, <1>3

\* A record that grows at its end and is cleared does not come to hold what a
\* wait looks for among the places it had.
LEMMA NoMoreFound ==
    ASSUME NEW w \in Want, NEW cl \in Nat, NEW cl2 \in Nat, cl <= cl2,
           NEW n \in Nat, NEW n2 \in Nat, n2 <= n,
           NEW cap, NEW cap2, \A k \in 1..n2 : cap2[k] = cap[k],
           ~Found(cap, cl, w, n)
    PROVE  ~Found(cap2, cl2, w, n2)
<1>1. w.count \in Nat /\ cl + 1 \in Nat
    BY DEF Want
<1>2. Places(cap, cl, w, n) \in SUBSET ((cl + 1)..n)
    BY DEF Places
<1>3. Places(cap2, cl2, w, n2) \in SUBSET Places(cap, cl, w, n)
    BY DEF Places
<1>4. QED
    BY <1>1, <1>2, <1>3, FewerPlaces DEF Found

LEMMA SatisfiedIsFound ==
    \A w, n : Satisfied(w, n) <=> Found(captured, cleared, w, n)
BY DEF Satisfied, get_messages, Fits, Found, Places

\* One more fault stays within the bound.
LEMMA FaultsBounded ==
    ASSUME TypeOK, MayFail
    PROVE  breaks + 1 \in 0..MaxFaults
<1> DEFINE down == {n \in 1..3 : \/ n = 1 /\ ~serving
                                 \/ n = 2 /\ ~polled
                                 \/ n = 3 /\ ~looping /\ serving}
<1>1. IsFiniteSet(down)
  <2>1. down \in SUBSET Nat /\ \A n \in down : n <= 3
      OBVIOUS
  <2> HIDE DEF down
  <2>2. QED
      BY <2>1, FS_BoundedSetOfNaturals
<1>2. Cardinality(down) \in Nat
    BY <1>1, FS_CardinalityType
<1>3. breaks + Cardinality(down) < MaxFaults
    BY DEF MayFail
<1> HIDE DEF down
<1>4. QED
    BY <1>2, <1>3, ConstantsAssumption DEF TypeOK

--------------------------------------------------------------------------------
(* The type invariant. *)

LEMMA WantsTyped ==
    /\ Nothing \in Want
    /\ wait_for_message_count \cup wait_for_messages \subseteq Want
    /\ \A c \in Callers : \A w \in wait_for_payload(c) : w \in Want /\ w.count = 1
BY ConstantsAssumption
   DEF Nothing, Want, wait_for_message_count, wait_for_messages, wait_for_payload

LEMMA InitTypeOK == Init => TypeOK
<1> SUFFICES ASSUME Init PROVE TypeOK
    OBVIOUS
<1>1. \A c \in Callers : Nothing \in Want
    BY WantsTyped
<1>2. QED
    BY <1>1, ConstantsAssumption DEF Init, TypeOK, Points, AtRest

\* The calling half of the state keeps its type when a call ends.
LEMMA ReturnTyped ==
    ASSUME TypeOK, NEW c \in Callers, NEW answer \in AtRest, Return(c, answer),
           captured' = captured
    PROVE  /\ pc' \in [Callers -> Points]
           /\ wanted' \in [Callers -> Want]
           /\ verifying' \in [Callers -> 0..MaxPublishes]
           /\ since' \in [Callers -> 0..Len(captured')]
           /\ woke' \in [Callers -> 0..Len(captured')]
<1>1. Len(captured) \in Nat
    BY DEF TypeOK
<1>2. QED
    BY <1>1, WantsTyped, ConstantsAssumption DEF Return, Goto, TypeOK, Points

LEMMA NextTypeOK == TypeOK /\ BudgetInv /\ [Next]_vars => TypeOK'
<1> SUFFICES ASSUME TypeOK, BudgetInv, [Next]_vars PROVE TypeOK'
    OBVIOUS
<1> USE ConstantsAssumption
<1>a. Len(captured) \in Nat /\ published \in Nat
    BY DEF TypeOK
<1>1. ASSUME NEW c \in Callers, Subscribe(c) PROVE TypeOK'
  <2>1. PICK t \in Topics : Begin(c, "subscribing", [Nothing EXCEPT !.topics = {t}])
      BY <1>1 DEF Subscribe
  <2>2. [Nothing EXCEPT !.topics = {t}] \in Want
      BY DEF Nothing, Want
  <2>3. pc' \in [Callers -> Points] /\ wanted' \in [Callers -> Want]
      BY <2>1, <2>2 DEF Begin, Goto, TypeOK, Points
  <2>4. QED
      BY <1>1, <2>1, <2>3 DEF Subscribe, Begin, TypeOK, witness, network, history
<1>2. ASSUME NEW c \in Callers, Enqueue(c) PROVE TypeOK'
  <2>1. wanted[c].topics \subseteq Topics
      BY DEF TypeOK, Want
  <2>2. Len(requests) < QueueLimit /\ \E t \in wanted[c].topics : requests' = Append(requests, t)
      BY <1>2 DEF Enqueue
  <2>3. requests' \in Seq(Topics) /\ Len(requests') <= QueueLimit
      BY <2>1, <2>2 DEF TypeOK
  <2>4. captured' = captured /\ Return(c, "ok") /\ UNCHANGED <<cleared, looping, network>>
      BY <1>2 DEF Enqueue
  <2>5. subscribed_topics' \subseteq Topics
      BY <1>2, <2>1 DEF Enqueue, TypeOK
  <2>6. QED
      BY <2>3, <2>4, <2>5, ReturnTyped DEF TypeOK, network, AtRest
<1>3. ASSUME NEW c \in Callers, NEW answer \in AtRest, Return(c, answer),
             UNCHANGED <<witness, network>>
      PROVE  TypeOK'
    BY <1>3, ReturnTyped DEF TypeOK, witness, network
<1>4. ASSUME NEW c \in Callers, Clear(c) PROVE TypeOK'
    BY <1>4, <1>a DEF Clear, TypeOK, network, callers, history
<1>5. ASSUME NEW c \in Callers, NEW p \in Points, Goto(c, p),
             woke' = woke \/ woke' = [woke EXCEPT ![c] = Len(captured)],
             UNCHANGED <<witness, network, wanted, verifying, since>>
      PROVE  TypeOK'
  <2>1. woke' \in [Callers -> 0..Len(captured)]
    <3>1. CASE woke' = woke
        BY <3>1 DEF TypeOK
    <3>2. CASE woke' = [woke EXCEPT ![c] = Len(captured)]
        BY <3>2, <1>a DEF TypeOK
    <3>3. QED
        BY <1>5, <3>1, <3>2
  <2>2. pc' \in [Callers -> Points]
      BY <1>5 DEF Goto, TypeOK
  <2>3. QED
      BY <1>5, <2>1, <2>2 DEF TypeOK, witness, network
<1>6. ASSUME NEW c \in Callers, Wait(c) PROVE TypeOK'
  <2>1. PICK w \in Want : Begin(c, "looking", w)
      BY <1>6, WantsTyped DEF Wait
  <2>2. pc' \in [Callers -> Points] /\ wanted' \in [Callers -> Want]
      BY <2>1 DEF Begin, Goto, TypeOK, Points, Waiting
  <2>3. woke' \in [Callers -> 0..Len(captured)]
      BY <1>6, <1>a DEF Wait, TypeOK
  <2>4. QED
      BY <1>6, <2>1, <2>2, <2>3 DEF Wait, Begin, TypeOK, witness, network
<1>7. ASSUME NEW c \in Callers, VerifyPublish(c) PROVE TypeOK'
  <2>1. PICK w \in Want : Begin(c, "publishing", w)
      BY <1>7, WantsTyped DEF VerifyPublish
  <2>2. pc' \in [Callers -> Points] /\ wanted' \in [Callers -> Want]
      BY <2>1 DEF Begin, Goto, TypeOK, Points
  <2>3. since' \in [Callers -> 0..Len(captured)]
      BY <1>7, <1>a DEF VerifyPublish, TypeOK
  <2>4. QED
      BY <1>7, <2>1, <2>2, <2>3, <1>a DEF VerifyPublish, Begin, TypeOK, network
<1>8. ASSUME NEW c \in Callers, Publish(c) PROVE TypeOK'
  <2>1. published + 1 \in 1..MaxPublishes
    <3>1. c \in publishing
        BY <1>8 DEF Publish, publishing
    <3>2. IsFiniteSet(publishing)
        BY FS_Subset DEF publishing
    <3>3. Cardinality(publishing) \in Nat /\ Cardinality(publishing) # 0
        BY <3>1, <3>2, FS_CardinalityType, FS_EmptySet
    <3>4. QED
        BY <3>3, <1>a DEF BudgetInv
  <2>2. PICK t \in wanted[c].topics, p \in wanted[c].payloads, qos \in QoS :
            outbox' = Append(outbox, [id |-> published + 1, topic |-> t, payload |-> p,
                                      qos |-> RumqttcQoS(qos), asked |-> qos])
      BY <1>8 DEF Publish
  <2>3. RumqttcQoS(qos) \in 0..2
      BY DEF RumqttcQoS
  <2>4. t \in Topics /\ p \in Payloads
      BY DEF TypeOK, Want
  <2>5. outbox' \in Seq(Message) /\ Len(outbox') <= QueueLimit
      BY <1>8, <2>1, <2>2, <2>3, <2>4 DEF Publish, TypeOK, Message
  <2>6. pc' \in [Callers -> Points]
      BY <1>8 DEF Publish, Goto, TypeOK, Points, Waiting
  <2>7. /\ verifying' \in [Callers -> 0..MaxPublishes]
        /\ woke' \in [Callers -> 0..Len(captured)]
      BY <1>8, <2>1, <1>a DEF Publish, TypeOK
  <2>8. QED
      BY <1>8, <2>1, <2>5, <2>6, <2>7 DEF Publish, TypeOK, witness
<1>9. CASE SendSubscribe
    BY <1>9 DEF SendSubscribe, TypeOK, callers, history
<1>10. CASE Capture
  <2>1. captured' \in Seq(CapturedMessage) /\ Len(captured') = Len(captured) + 1
      BY <1>10 DEF Capture, TypeOK
  <2>2. /\ cleared' \in 0..Len(captured')
        /\ since' \in [Callers -> 0..Len(captured')]
        /\ woke' \in [Callers -> 0..Len(captured')]
      BY <1>10, <2>1, <1>a DEF Capture, TypeOK, history
  <2>3. transit' \in Seq(CapturedMessage)
      BY <1>10 DEF Capture, TypeOK
  <2>4. QED
      BY <1>10, <2>1, <2>2, <2>3 DEF Capture, TypeOK, callers
<1>b. \A S : <<>> \in Seq(S) /\ Len(<<>>) <= QueueLimit
    OBVIOUS
<1>11. CASE EventLoopFails
  <2>1. /\ requests' \in Seq(Topics) /\ Len(requests') <= QueueLimit
        /\ transit' \in Seq(CapturedMessage)
        /\ routed' \subseteq Topics
      BY <1>11, <1>b DEF EventLoopFails
  <2>2. QED
      BY <1>11, <2>1 DEF EventLoopFails, TypeOK, callers, history
<1>12. ASSUME outbox # <<>>, Forward(Head(outbox)) PROVE transit' \in Seq(CapturedMessage)
  <2>1. Head(outbox) \in Message
      BY <1>12 DEF TypeOK
  <2>2. [id |-> Head(outbox).id, topic |-> Head(outbox).topic,
         payload |-> Head(outbox).payload] \in CapturedMessage
      BY <2>1 DEF Message, CapturedMessage
  <2>3. QED
      BY <1>12, <2>2 DEF Forward, TypeOK
<1>13. CASE PublisherPolls
    BY <1>13, <1>12 DEF PublisherPolls, TypeOK, witness, callers, history
<1>14. CASE PublisherReconnects
  <2>1. breaks' \in 0..MaxFaults
      BY <1>14, FaultsBounded DEF PublisherReconnects
  <2>2. transit' \in Seq(CapturedMessage)
      BY <1>14, <1>12 DEF PublisherReconnects, TypeOK
  <2>3. outbox' \in Seq(Message) /\ Len(outbox') <= QueueLimit
    <3>1. \A q \in Seq(Message) :
              q # <<>> => Tail(q) \in Seq(Message) /\ Len(Tail(q)) <= Len(q)
        OBVIOUS
    <3>2. outbox # <<>> /\ (outbox' = Tail(outbox) \/ outbox' = outbox)
        BY <1>14 DEF PublisherReconnects
    <3>3. Len(outbox) \in Nat /\ Len(outbox) <= QueueLimit /\ outbox \in Seq(Message)
        BY DEF TypeOK
    <3>4. CASE outbox' = Tail(outbox)
      <4>1. /\ Tail(outbox) \in Seq(Message) /\ Len(Tail(outbox)) <= Len(outbox)
            /\ Len(Tail(outbox)) \in Nat
          BY <3>1, <3>2, <3>3
      <4>2. QED
          BY <3>4, <3>3, <4>1
    <3>5. QED
        BY <3>2, <3>3, <3>4
  <2>4. QED
      BY <1>14, <2>1, <2>2, <2>3 DEF PublisherReconnects, TypeOK, witness, callers, history
<1>15. CASE PublisherDropped
  <2>1. outbox' \in Seq(Message) /\ Len(outbox') <= QueueLimit /\ polled' \in BOOLEAN
      BY <1>15, <1>b DEF PublisherDropped
  <2>2. QED
      BY <1>15, <2>1 DEF PublisherDropped, TypeOK, witness, callers, history
<1>16. CASE BrokerStops
    BY <1>16 DEF BrokerStops, TypeOK, witness, callers, history
<1>17. CASE UNCHANGED vars
    BY <1>17 DEF vars, TypeOK, witness, network, callers, history
<1>18. ASSUME NEW c \in Callers,
              SubscribeFails(c) \/ Look(c) \/ TimesOut(c) \/ Sleep(c) \/ Wake(c)
                \/ PublishFails(c) \/ OuterTimeout(c) \/ VerifyMessageReceived(c)
       PROVE  TypeOK'
    BY <1>18, <1>3, <1>5
       DEF SubscribeFails, Look, TimesOut, Sleep, Wake, PublishFails, OuterTimeout,
           VerifyMessageReceived, Points, AtRest, Waiting, history
<1>19. QED
    BY <1>1, <1>2, <1>4, <1>6, <1>7, <1>8, <1>9, <1>10, <1>11, <1>13, <1>14, <1>15, <1>16,
       <1>17, <1>18 DEF Next, Call, Continue

--------------------------------------------------------------------------------
(* The other parts of the invariant. *)

LEMMA BudgetStep ==
    ASSUME IInv, [Next]_vars
    PROVE  BudgetInv'
<1> USE ConstantsAssumption DEF IInv
<1>1. IsFiniteSet(publishing) /\ Cardinality(publishing) \in Nat
  <2>1. publishing \in SUBSET Callers
      BY DEF publishing
  <2>2. IsFiniteSet(publishing)
      BY <2>1, FS_Subset
  <2>3. QED
      BY <2>2, FS_CardinalityType
<1>2. published \in Nat /\ pc \in [Callers -> Points]
    BY DEF TypeOK
<1>3. ASSUME publishing' \subseteq publishing, published' = published PROVE BudgetInv'
  <2>1. Cardinality(publishing') <= Cardinality(publishing) /\ IsFiniteSet(publishing')
      BY <1>1, <1>3, FS_Subset
  <2>2. Cardinality(publishing') \in Nat
      BY <2>1, FS_CardinalityType
  <2>3. QED
      BY <1>1, <1>2, <1>3, <2>1, <2>2 DEF BudgetInv
<1>4. ASSUME NEW c \in Callers, VerifyPublish(c) PROVE BudgetInv'
  <2>1. publishing' = publishing \cup {c} /\ c \notin publishing /\ published' = published
      BY <1>2, <1>4 DEF VerifyPublish, Begin, Goto, publishing, AtRest, network
  <2>2. Cardinality(publishing') = Cardinality(publishing) + 1
      BY <1>1, <2>1, FS_AddElement
  <2>3. published + Cardinality(publishing) < MaxPublishes
      BY <1>4 DEF VerifyPublish, publishing
  <2>4. QED
      BY <1>1, <1>2, <2>1, <2>2, <2>3 DEF BudgetInv
<1>5. ASSUME NEW c \in Callers, Publish(c) PROVE BudgetInv'
  <2>1. publishing' = publishing \ {c} /\ c \in publishing /\ published' = published + 1
      BY <1>2, <1>5 DEF Publish, Goto, publishing
  <2>2. Cardinality(publishing') = Cardinality(publishing) - 1
      BY <1>1, <2>1, FS_RemoveElement
  <2>3. QED
      BY <1>1, <1>2, <2>1, <2>2 DEF BudgetInv
<1>6. ASSUME NEW c \in Callers,
             \/ Subscribe(c) \/ Clear(c) \/ VerifyMessageReceived(c) \/ Wait(c)
             \/ Enqueue(c) \/ SubscribeFails(c) \/ PublishFails(c)
      PROVE  BudgetInv'
  <2>1. publishing' \subseteq publishing /\ published' = published
      BY <1>2, <1>6
         DEF Subscribe, Clear, VerifyMessageReceived, Wait, Enqueue, SubscribeFails,
             PublishFails, Begin, Return, Goto, publishing, network, callers
  <2>2. QED
      BY <2>1, <1>3
<1>7. ASSUME NEW c \in Callers,
             Look(c) \/ TimesOut(c) \/ Sleep(c) \/ Wake(c) \/ OuterTimeout(c)
      PROVE  BudgetInv'
  <2>1. publishing' \subseteq publishing /\ published' = published
      BY <1>2, <1>7
         DEF Look, TimesOut, Sleep, Wake, OuterTimeout, Return, Goto, publishing, network
  <2>2. QED
      BY <2>1, <1>3
<1>8. ASSUME UNCHANGED <<published, pc>> PROVE BudgetInv'
  <2>1. publishing' = publishing
      BY <1>8 DEF publishing
  <2>2. QED
      BY <1>8, <2>1, <1>3
<1>9. CASE \/ SendSubscribe \/ Capture \/ EventLoopFails \/ PublisherPolls
           \/ PublisherReconnects \/ PublisherDropped \/ BrokerStops \/ UNCHANGED vars
    BY <1>8, <1>9
       DEF SendSubscribe, Capture, EventLoopFails, PublisherPolls, PublisherReconnects,
           PublisherDropped, BrokerStops, vars, network, callers
<1>10. QED
    BY <1>4, <1>5, <1>6, <1>7, <1>9 DEF Next, Call, Continue

\* The record only grows, and what is cleared stays so.
LEMMA RecordGrows ==
    ASSUME TypeOK, [Next]_vars
    PROVE  /\ cleared \in Nat /\ cleared' \in Nat /\ cleared <= cleared'
           /\ \A k \in 1..Len(captured) : captured'[k] = captured[k]
<1>1. cleared \in Nat /\ Len(captured) \in Nat /\ cleared <= Len(captured)
    BY DEF TypeOK
<1>2. CASE captured' = captured /\ (cleared' = cleared \/ cleared' = Len(captured))
    BY <1>1, <1>2
<1>3. CASE Capture
  <2>1. \A m : \A k \in 1..Len(captured) : Append(captured, m)[k] = captured[k]
      BY DEF TypeOK
  <2>2. QED
      BY <1>1, <1>3, <2>1 DEF Capture
<1>4. ASSUME NEW c \in Callers, Call(c) \/ Continue(c)
      PROVE  captured' = captured /\ (cleared' = cleared \/ cleared' = Len(captured))
    BY <1>4
       DEF Call, Continue, Subscribe, Clear, VerifyMessageReceived, Wait, VerifyPublish,
           Enqueue, SubscribeFails, Look, TimesOut, Sleep, Wake, Publish, PublishFails,
           OuterTimeout, witness
<1>5. QED
    BY <1>2, <1>3, <1>4
       DEF Next, SendSubscribe, EventLoopFails, PublisherPolls, PublisherReconnects,
           PublisherDropped, BrokerStops, vars, witness

LEMMA SinceStep ==
    ASSUME IInv, [Next]_vars
    PROVE  SinceInv'
<1>1. /\ cleared \in Nat /\ cleared' \in Nat /\ cleared <= cleared'
      /\ since \in [Callers -> Nat]
    BY RecordGrows DEF IInv, TypeOK
<1>2. CASE UNCHANGED since
    BY <1>1, <1>2 DEF IInv, SinceInv
<1>3. ASSUME NEW c \in Callers, NEW answer, Return(c, answer) PROVE SinceInv'
    BY <1>1, <1>3 DEF Return, IInv, SinceInv
<1>4. ASSUME NEW c \in Callers, VerifyPublish(c) PROVE SinceInv'
    BY <1>1, <1>4 DEF VerifyPublish, IInv, SinceInv
<1>5. ASSUME NEW c \in Callers,
             Call(c) \/ Continue(c), ~VerifyPublish(c),
             ~\E answer : Return(c, answer)
      PROVE  UNCHANGED since
    BY <1>5
       DEF Call, Continue, Subscribe, Clear, VerifyMessageReceived, Wait,
           Enqueue, SubscribeFails, Look, TimesOut, Sleep, Wake, Publish, PublishFails,
           OuterTimeout, history
<1>6. QED
    BY <1>2, <1>3, <1>4, <1>5
       DEF Next, SendSubscribe, Capture, EventLoopFails, PublisherPolls,
           PublisherReconnects, PublisherDropped, BrokerStops, vars, history

\* What other callers and the tasks do leaves the locals of a caller as they were,
\* and what they mean.
LEMMA LocalKept ==
    ASSUME IInv, [Next]_vars, NEW d \in Callers,
           pc'[d] = pc[d], wanted'[d] = wanted[d],
           verifying'[d] = verifying[d], woke'[d] = woke[d]
    PROVE  Local(d)'
<1>1. Local(d) /\ wanted[d] \in Want /\ woke[d] \in 0..Len(captured) /\ Len(captured) \in Nat
    BY DEF IInv, LocalInv, TypeOK
<1>2. CASE pc[d] \in {"checking", "sleeping"}
  <2>1. ~Found(captured, cleared, wanted[d], woke[d])
      BY <1>1, <1>2, SatisfiedIsFound DEF Local
  <2>2. ~Found(captured', cleared', wanted[d], woke[d])
    <3>1. /\ cleared \in Nat /\ cleared' \in Nat /\ cleared <= cleared'
          /\ \A k \in 1..Len(captured) : captured'[k] = captured[k]
        BY RecordGrows DEF IInv
    <3>2. woke[d] \in Nat /\ woke[d] <= woke[d] /\ wanted[d] \in Want
        BY <1>1
    <3>3. \A k \in 1..woke[d] : captured'[k] = captured[k]
        BY <1>1, <3>1
    <3>4. QED
        BY ONLY <2>1, <3>1, <3>2, <3>3, NoMoreFound, Zenon
  <2>3. ~Found(captured', cleared', wanted'[d], woke'[d])
      BY <2>2
  <2>4. Satisfied(wanted[d], woke[d])' <=> Found(captured', cleared', wanted'[d], woke'[d])
      BY DEF Satisfied, get_messages, Fits, Found, Places
  <2>5. QED
      BY <1>1, <2>3, <2>4 DEF Local
<1>3. CASE pc[d] \notin {"checking", "sleeping"}
    BY <1>1, <1>3 DEF Local
<1>4. QED
    BY <1>2, <1>3

\* A step of one caller is none of another.
LEMMA OthersKept ==
    ASSUME TypeOK, NEW c \in Callers, Call(c) \/ Continue(c), NEW d \in Callers \ {c}
    PROVE  /\ pc'[d] = pc[d] /\ wanted'[d] = wanted[d]
           /\ verifying'[d] = verifying[d] /\ woke'[d] = woke[d]
<1> USE DEF TypeOK, Begin, Return, Goto, callers, history
<1>1. CASE Subscribe(c) \/ Clear(c) \/ VerifyMessageReceived(c) \/ Wait(c) \/ VerifyPublish(c)
    BY <1>1 DEF Subscribe, Clear, VerifyMessageReceived, Wait, VerifyPublish
<1>2. CASE Enqueue(c) \/ SubscribeFails(c) \/ Publish(c) \/ PublishFails(c)
    BY <1>2 DEF Enqueue, SubscribeFails, Publish, PublishFails
<1>3. CASE Look(c) \/ TimesOut(c) \/ Sleep(c) \/ Wake(c) \/ OuterTimeout(c)
    BY <1>3 DEF Look, TimesOut, Sleep, Wake, OuterTimeout
<1>4. QED
    BY <1>1, <1>2, <1>3 DEF Call, Continue

LEMMA LocalStep ==
    ASSUME IInv, [Next]_vars
    PROVE  LocalInv'
<1>1. SUFFICES ASSUME NEW c \in Callers PROVE Local(c)'
    BY DEF LocalInv
<1>2. /\ Local(c) /\ pc \in [Callers -> Points] /\ wanted \in [Callers -> Want]
      /\ verifying \in [Callers -> 0..MaxPublishes] /\ woke \in [Callers -> 0..Len(captured)]
      /\ Len(captured) \in Nat /\ cleared \in Nat
    BY DEF IInv, LocalInv, TypeOK
<1>3. CASE UNCHANGED <<callers, history>>
    BY <1>3, LocalKept DEF callers, history
<1>4. ASSUME NEW d \in Callers \ {c}, Call(d) \/ Continue(d) PROVE Local(c)'
    BY <1>4, OthersKept, LocalKept DEF IInv
<1>5. ASSUME NEW answer \in AtRest, Return(c, answer) PROVE Local(c)'
    BY <1>2, <1>5 DEF Return, Goto, Local, AtRest
<1>6. CASE Subscribe(c)
    BY <1>2, <1>6 DEF Subscribe, Begin, Goto, Local, AtRest, Waiting
<1>7. CASE VerifyMessageReceived(c)
    BY <1>2, <1>7 DEF VerifyMessageReceived, Goto, Local, AtRest, Waiting
<1>8. CASE Wait(c)
    BY <1>2, <1>8 DEF Wait, Begin, Goto, Local, AtRest, Waiting
<1>9. CASE VerifyPublish(c)
  <2>1. PICK w \in wait_for_payload(c) : Begin(c, "publishing", w)
      BY <1>9 DEF VerifyPublish
  <2>2. w.count = 1
      BY <2>1, WantsTyped
  <2>3. QED
      BY <1>2, <2>1, <2>2 DEF Begin, Goto, Local, AtRest, Waiting
<1>10. CASE Publish(c)
    BY <1>2, <1>10 DEF Publish, Goto, Local, Waiting
<1>11. CASE Look(c)
  <2>1. CASE Return(c, "ok")
      BY <2>1, <1>5 DEF AtRest
  <2>2. CASE ~Satisfied(wanted[c], Len(captured)) /\ Goto(c, "checking")
               /\ UNCHANGED <<wanted, verifying, history>>
    <3>1. ~Found(captured, cleared, wanted[c], Len(captured))
        BY <2>2, SatisfiedIsFound
    <3>2. captured' = captured /\ cleared' = cleared
        BY <1>11 DEF Look, witness
    <3>3. ~Found(captured, cleared, wanted[c], woke[c])
      <4>1. /\ cleared \in Nat /\ cleared <= cleared /\ wanted[c] \in Want
            /\ woke[c] \in Nat /\ Len(captured) \in Nat /\ woke[c] <= Len(captured)
            /\ \A k \in 1..woke[c] : captured[k] = captured[k]
          BY <1>2
      <4>2. QED
          BY ONLY <3>1, <4>1, NoMoreFound, Zenon
    <3>4. ~Found(captured', cleared', wanted'[c], woke'[c])
        BY <2>2, <3>2, <3>3 DEF history
    <3>5. Satisfied(wanted[c], woke[c])' <=> Found(captured', cleared', wanted'[c], woke'[c])
        BY DEF Satisfied, get_messages, Fits, Found, Places
    <3>6. QED
        BY <1>2, <1>11, <2>2, <3>4, <3>5 DEF Look, Goto, Local, Waiting
  <2>3. QED
      BY <1>11, <2>1, <2>2 DEF Look
<1>12. CASE Sleep(c)
  <2>1. ~Found(captured, cleared, wanted[c], woke[c])
      BY <1>2, <1>12, SatisfiedIsFound DEF Sleep, Local
  <2>2. ~Found(captured', cleared', wanted'[c], woke'[c])
      BY <1>12, <2>1 DEF Sleep, witness, history
  <2>3. Satisfied(wanted[c], woke[c])' <=> Found(captured', cleared', wanted'[c], woke'[c])
      BY DEF Satisfied, get_messages, Fits, Found, Places
  <2>4. QED
      BY <1>2, <1>12, <2>2, <2>3 DEF Sleep, Goto, Local, Waiting
<1>13. CASE Wake(c)
    BY <1>2, <1>13 DEF Wake, Goto, Local, Waiting
<1>14. CASE Clear(c)
    BY <1>3, <1>14 DEF Clear
<1>15. CASE Enqueue(c) \/ SubscribeFails(c) \/ PublishFails(c) \/ TimesOut(c) \/ OuterTimeout(c)
    BY <1>5, <1>15 DEF Enqueue, SubscribeFails, PublishFails, TimesOut, OuterTimeout, AtRest
<1>16. ASSUME Call(c) \/ Continue(c) PROVE Local(c)'
    BY <1>6, <1>7, <1>8, <1>9, <1>10, <1>11, <1>12, <1>13, <1>14, <1>15, <1>16
       DEF Call, Continue
<1>17. ASSUME NEW d \in Callers, Call(d) \/ Continue(d) PROVE Local(c)'
    BY <1>4, <1>16, <1>17
<1>18. QED
    BY <1>3, <1>17
       DEF Next, SendSubscribe, Capture, EventLoopFails, PublisherPolls,
           PublisherReconnects, PublisherDropped, BrokerStops, vars

LEMMA InitIInv == Init => IInv
<1> SUFFICES ASSUME Init PROVE IInv
    OBVIOUS
<1>1. BudgetInv
  <2>1. publishing = {}
      BY DEF Init, publishing
  <2>2. QED
      BY <2>1, FS_EmptySet, ConstantsAssumption DEF Init, BudgetInv
<1>2. SinceInv /\ LocalInv
    BY DEF Init, SinceInv, LocalInv, Local
<1>3. QED
    BY <1>1, <1>2, InitTypeOK DEF IInv

LEMMA Invariance == Spec => []IInv
<1>1. IInv /\ [Next]_vars => IInv'
    BY NextTypeOK, BudgetStep, SinceStep, LocalStep DEF IInv
<1>2. QED
    BY InitIInv, <1>1, PTL DEF Spec

--------------------------------------------------------------------------------
(* The theorems. *)

\* Every variable keeps its type; the queues keep to their capacity and no more is
\* published than may be, however calls, failures and arrivals interleave
\* (witness.rs:85, 146-149, 312-316).
THEOREM TypeCorrect == Spec => []TypeOK
<1>1. IInv => TypeOK
    BY DEF IInv
<1>2. QED
    BY Invariance, <1>1, PTL

\* The ways out of a loop that waits.
LEMMA WaitingMoves ==
    ASSUME TypeOK, [Next]_vars, NEW c \in Callers, pc[c] \in Waiting, pc'[c] # pc[c]
    PROVE  Look(c) \/ TimesOut(c) \/ Sleep(c) \/ Wake(c) \/ OuterTimeout(c)
<1>1. PICK d \in Callers : Call(d) \/ Continue(d)
    BY DEF Next, SendSubscribe, Capture, EventLoopFails, PublisherPolls,
           PublisherReconnects, PublisherDropped, BrokerStops, vars, callers
<1>2. d = c
    BY <1>1, OthersKept
<1>3. QED
    BY <1>1, <1>2
       DEF Call, Continue, Subscribe, Clear, VerifyMessageReceived, Wait, VerifyPublish,
           Enqueue, SubscribeFails, Publish, PublishFails, Begin, Waiting, AtRest

\* verify_publish answers Ok only for a message captured after its own clear, with
\* any number of verifications, clears and late copies around it (witness.rs:303,
\* 319-326).
THEOREM VerifiedSinceClear == Spec => OkIsSinceClear
<1> DEFINE Step == \A c \in Callers : (verifying[c] # 0 /\ pc'[c] = "ok") =>
                       \E k \in (since[c] + 1)..Len(captured) : Fits(wanted[c], k)
<1>1. IInv /\ [Next]_vars => Step
  <2> SUFFICES ASSUME IInv, [Next]_vars, NEW c \in Callers, verifying[c] # 0, pc'[c] = "ok"
               PROVE  \E k \in (since[c] + 1)..Len(captured) : Fits(wanted[c], k)
      OBVIOUS
  <2>1. pc[c] \in Waiting /\ wanted[c].count = 1 /\ pc \in [Callers -> Points]
      BY DEF IInv, LocalInv, Local, TypeOK
  <2>2. Look(c) \/ TimesOut(c) \/ Sleep(c) \/ Wake(c) \/ OuterTimeout(c)
      BY <2>1, WaitingMoves DEF IInv, Waiting
  <2>3. Satisfied(wanted[c], Len(captured))
      BY <2>1, <2>2 DEF Look, TimesOut, Sleep, Wake, OuterTimeout, Return, Goto
  <2>4. Places(captured, cleared, wanted[c], Len(captured)) # {}
    <3>1. Cardinality(Places(captured, cleared, wanted[c], Len(captured))) >= 1
        BY <2>1, <2>3, SatisfiedIsFound DEF Found
    <3>2. QED
        BY ONLY <3>1, FS_EmptySet
  <2>5. since[c] \in Nat /\ cleared \in Nat /\ since[c] <= cleared /\ Len(captured) \in Nat
      BY DEF IInv, SinceInv, TypeOK
  <2>6. QED
      BY <2>4, <2>5 DEF Places, Fits
<1>2. QED
    BY Invariance, <1>1, PTL DEF Spec, OkIsSinceClear

\* A wait that times out, nested timeouts or not, did not miss what was captured
\* before its last wake-up (witness.rs:181-195, 319-323).
THEOREM TimeoutsMissNothing == Spec => TimeoutHasALook
<1> DEFINE Step == \A c \in Callers : (pc[c] \in Waiting /\ pc'[c] = "err") =>
                       ~Satisfied(wanted[c], woke[c])
<1>1. IInv /\ [Next]_vars => Step
  <2> SUFFICES ASSUME IInv, [Next]_vars, NEW c \in Callers, pc[c] \in Waiting, pc'[c] = "err"
               PROVE  ~Satisfied(wanted[c], woke[c])
      OBVIOUS
  <2>1. Look(c) \/ TimesOut(c) \/ Sleep(c) \/ Wake(c) \/ OuterTimeout(c)
      BY WaitingMoves DEF IInv, Waiting
  <2>2. pc[c] \in {"checking", "sleeping"}
      BY <2>1 DEF Look, TimesOut, Sleep, Wake, OuterTimeout, Return, Goto, IInv, TypeOK
  <2>3. QED
      BY <2>2 DEF IInv, LocalInv, Local
<1>2. QED
    BY Invariance, <1>1, PTL DEF Spec, TimeoutHasALook
================================================================================

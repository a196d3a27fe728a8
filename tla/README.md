# Verification of stinger-mqtt-trait

The crate defines the trait `Mqtt5PubSub` (`src/src/lib.rs`), a client that
implements it in memory (`src/src/mock/client.rs`), and tools that test
implementations against a broker (`src/src/validation/`). This directory holds
TLA+ models of these parts, configurations that check them with TLC, and proofs
checked by TLAPS. Paths are relative to the directory above `src/`.

    tlc -workers 2 -config mock_race.cfg MCMockClient     # a run
    tlapm MockClientProofs.tla                            # the proofs of a module

`PROJECT.json` lists the runs, the theorems, for every definition the lines it
translates, for every checked property a mutant of the code that breaks it, the
hazards of the code and what covers them.

## 1. Inventory

| component | state | operations | interacts with |
|---|---|---|---|
| trait `Mqtt5PubSub` (`src/src/lib.rs`) | none | what `subscribe`, `unsubscribe`, the publishing calls and `get_state` promise | implemented by `MockClient`, exercised by the suite |
| `MockClient` (`src/src/mock/client.rs`) | the list of subscriptions, the id counter, the store of retained messages, the record of published messages; each behind its own `Arc<Mutex<..>>`, shared by clones | `simulate_receive`, `subscribe`, `unsubscribe`, `clear_retained_messages`; `publish`, `publish_noblock`, `publish_nowait`, `clear_published_messages` | tokio broadcast channels given by the subscribers |
| `topic_matches` (same file, 105-131) | two iterators | one loop | called by both loops of the client |
| validation suite (`src/src/validation/mod.rs`) | the id and the receiver of its current test | eight tests in a fixed order | any implementation of the trait |
| `TestBroker` (`src/src/validation/broker.rs`) | a child process and a configuration; outside the handle: one configuration file for all brokers of the machine, socket files, ports | `start`, `stop`, `drop` | rumqttd, the file system |
| `WitnessClient` (`src/src/validation/witness.rs`) | captured messages behind a mutex, the topics subscribed to (written and never read), a background task that owns the connection | `subscribe`, three waiting functions, `verify_message_received`, `clear`, getters; `verify_publish`, which uses a witness and a publisher | two rumqttc clients (bounded queues of requests and event loops), a broker |
| `MqttMessage` and builder (`src/src/message.rs`) | the fields set so far | setters, `object_payload`, `build` | all |
| availability (`src/src/availability_trait.rs`, `src/src/concrete.rs`) | an online and an offline message of one topic | getters, `client_is_online` | handed out by `MockClient::get_availability_helper` (client.rs:213); its user publishes the messages and reads those of others |

What is hard:

- **Three mutexes, taken in different orders.** `simulate_receive` takes the
  retained store, gives it back and takes the list; `subscribe` nests list,
  counter and store. Only the inner scope at client.rs:75-79 keeps them apart,
  and only the order "store, then list" keeps a subscriber from falling into the
  gap between a stored and a delivered message.
- **Partial failure.** `?` on the first failing send (client.rs:87) leaves the
  loop after the message was stored and sent to some.
- **The end of the id type.** `*next_id += 1` at `u32::MAX` panics while two
  locks are held, or wraps, depending on the build.
- **Other people's messages.** Clones share everything; the suite takes the first
  message of its subscription for its own and leaves early on errors.
- **One configuration file for all brokers**, written before and read after a
  process starts, with a fixed sleep and a cancellation point between; socket
  files that outlive processes; clean-up that runs twice.
- **A background task and wall-clock timeouts** in the witness. `subscribe` and
  `publish` answer when a request is queued; the task ends silently on the first
  error; the waits poll, with two nested timeouts of the same length in
  `verify_publish`, whose own `publish` is outside of both; every verification
  clears the messages of every other.
- **Channels that lose messages.** A broadcast channel overwrites the oldest
  message of a slow receiver while `send` answers `Ok`, also during the replay of
  retained messages.

What makes each component correct:

- *topic matching*: its answer is the one its documentation defines, for filters
  and topics of different lengths and with wildcards anywhere.
- *the client*: a received message carries the id of a subscription in force
  whose filter matches; ids are not given twice; the answer of
  `simulate_receive` says who got the message; no retained message falls between
  a delivery and a subscribe; no deadlock; calls end; a panic stops everything.
- *the suite*: its checks do not fail because of others, and it leaves nothing
  behind.
- *the broker handles*: processes listen where they were told to, nothing is left
  after stop or drop, nobody's socket file is taken away.
- *the witness*: Ok and a timeout of a verification mean what they say, calls end,
  and what the broker forwards is captured.
- *availability*: a client last heard of as offline is not taken for online.

## 2. Modules

    TopicFilter ── TopicMatches ── TopicMatchesProofs         (with TopicFilterProofs)
         ├── TopicFilterProofs
         ├── PubSubContract      what the trait promises
         │         ▲ implemented by
         └── MockClient ── MCMockClient
                  ├── MockClientProofs ── MockDeliveryProofs  (with TopicFilterProofs)
                  ├── Availability ── MCAvailability
                  │         └── AvailabilityProofs        (with MockDeliveryProofs)
                  └── ValidationSuite ── MCValidationSuite
                            └── ValidationSuiteProofs     (with MockDeliveryProofs)

    TestBroker ── MCTestBroker
         └── TestBrokerProofs

    WitnessClient ── MCWitnessClient
         └── WitnessClientProofs

**TopicFilter** defines, without a loop, when a topic matches a filter: `Matches` by
the doc comment (client.rs:105-111), which says that `#` must be the last character,
and `topic_matches` as the function answers, which stops at the first `#` wherever it
is. They differ on filters with a `#` inside: the function lets `#/a` match `b`
(client.rs:117) and `subscribe` accepts such a filter (client.rs:150-161). They agree on
filters that are `WellFormed`, with no `#` before the last level (`TopicFilterProofs`).
The contract is written with the first, the client with the second. A filter or topic
is a sequence of levels, never empty, as `split('/')` gives it.

**TopicMatches** is `topic_matches`, an action per arm of its loop; the iterators
are the numbers of levels consumed. A level that was read and differs is lost, as
in the code, which does no harm because the call returns.

**PubSubContract** is the abstract specification: the subscriptions in force, the
ids ever issued, what was sent on each channel; `Subscribe`, `Unsubscribe`,
`Deliver` (lib.rs:101-113). It says who may receive a message and with which id,
not that every message arrives: the trait does not say so either.

**MockClient** is the subscribing half of the client.

| model | code |
|---|---|
| `pushed`, `subscriptions` | the `Vec` of `(filter, id, sender)`; `pushed` keeps removed ones too, `subscriptions` holds the places of those still there |
| `next_sub_id`, `retained_messages` | the fields of that name |
| `pc`, `message`, `pending`, `sent_count`, `subscription`, `to_replay` | per caller, where it is in its call and its locals |
| `log`, `receivers` | what was sent on a channel; the channels with a receiver |
| `poisoned` | mutexes whose holder panicked |
| `used`, `received` | history: messages received so far, what the calls answered |
| `SimulateReceive`, `LockToDeliver`, `DeliverNext`, `DeliverFail`, `DeliverDone` | `simulate_receive` |
| `LockToRegister`, `Register`, `OverflowPanic`, `LockToReplay`, `ReplayOne`, `ReplayDone` | `subscribe` |
| `Unsubscribe`, `ClearRetained` | one critical section each |
| `PanicOnPoison` | `lock().unwrap()` on a poisoned mutex, with the unwinding |
| `DropReceiver` | a subscriber drops its last receiver (external) |

A critical section that takes one lock and gives it back is one step. There is a
step between any two locks of a call and one for every send, because receivers
go away without any lock of the client. No variable says who holds a lock:
`PointsHolding(l)` gives the program points inside the scope of the guard, and a
lock is free when no caller is at such a point. Iterating the `HashMap` of
retained messages is in any order; iterating the `Vec` is in order.

**ValidationSuite** extends `MockClient` with the record of published messages
and runs the suite as one of its callers; the parts of its subscribes and
unsubscribes are the actions of `MockClient`, so other callers interleave with
them. A test that returns drops its receiver. The five-second timeout may elapse
whenever there is no message in the channel. A channel of the suite keeps `Capacity`
messages (10 in the code, which tokio rounds up to 16): when others have sent more by
the time of the `recv`, it answers `Lagged` (`CycleLags`). The end of the id type is out of reach
(`SuiteAssumption`): a suite that panics is the business of `mock_overflow`.

**TestBroker** has an action per system call of `start`, `stop` and `drop`: the
check for a socket file, its removal, the truncation and the write of the
configuration (`fs::write` is both, and a process may read between them), the
spawn, the sleep, the kill and wait, the clean-up (once in `stop`, once in
`drop`). `Cancel` is the future of `start` dropped at its only await. What rumqttd
does, `ReadConfig` and `Bind`, is external: it reads its file some time after the
spawn and ends without a configuration or when its socket file or port is taken.
"In turn" (`StartsOverlap = FALSE`) means that no two tasks are inside `start` at once
and that a process left by a cancelled start has read its configuration before the next
start begins. Handles live side by side then, with equal paths too: `start` does not
look whose socket file it removes.

**Availability** composes `MockClient` with the programs that read its channels.
A channel is a tokio broadcast channel of `Capacity` messages over the `log` of
`MockClient`: `position` is how far its receiver has come, `Lagged` the `recv`
that reports lost messages and moves on to the oldest left, `Receive` one that
returns a message. The messages of the availability topics are those of
`GenericAvailability`: retained, one topic per client, a payload that says online
or offline. The reader keeps what `client_is_online` said of the last message of
each topic.

**WitnessClient** has one witness, one publisher and any number of callers.

| model | code |
|---|---|
| `captured`, `cleared` | `received_messages`: everything ever pushed, and how much of it the clears removed; the `Vec` is the part after `cleared` |
| `requests`, `looping` | the queue of the witness's `AsyncClient` and its spawned task |
| `outbox`, `polled` | the queue of the publisher and whoever polls its event loop |
| `routed`, `transit`, `serving` | the broker: what it forwards to the witness, what is on the way, whether it is there |
| `pc`, `wanted`, `verifying` | per caller, where it is in its call, what the call is about, which message its `verify_publish` sent |
| `since`, `woke` | history: how much was captured at the clear of its verification and at its last wake-up |
| `Subscribe`, `Enqueue`, `SubscribeFails` | `subscribe` |
| `Wait`, `Look`, `Sleep`, `TimesOut`, `Wake` | the three loops, which differ in what they look for |
| `VerifyPublish`, `Publish`, `PublishFails`, `OuterTimeout` | `verify_publish`; its wait is the loop above |
| `Clear`, `VerifyMessageReceived` | one critical section each |
| `Capture`, `EventLoopFails` | the two arms of the task |
| `SendSubscribe`, `PublisherPolls`, `PublisherReconnects`, `PublisherDropped`, `BrokerStops` | rumqttc and the broker (external) |

Each look at the messages is one critical section; there is a step between a
look, the comparison of the clock and the sleep. The clock is abstracted: any
check may find the time over, and the outer timeout may fire in any sleep. A
message carries a number that only the properties use, so that a copy can be told
from the message the verification sent. When the connection of the publisher
breaks, the message in flight is lost at QoS 0 and sent again at QoS 1. The
witness does not reconnect: its task ends at the first error and drops the queue.

## 3. Runs

| run | instance | states | what it shows |
|---|---|---|---|
| `topic_matches` | levels a, b, +, #; lengths 1-3 | 17 874 | for filters with `#` at most at the end, the loop decides the documented rules |
| `topic_exact` | same | violation | the mock's README says wildcards are not supported |
| `mock_race` | 2 deliverers, 1 subscriber, 2 channels, 1 topic, 2 filters, 2 subscribes, an id type of 2 values without overflow checks | 188 569 | outcomes, no gap for retained messages, no deadlock, ids, the contract |
| `mock_order` | 1 deliverer, 2 subscribers, 2 topics (one of availability), 2 messages, filters with each wildcard, a channel of capacity 1 | 719 850 | what a subscriber saw last is what the store holds; what a reader of a lossy channel concludes |
| `mock_overflow` | 3 callers, an id type of 4 values, 5 subscribes | 37 148 | ids, the panic, poisoning, every call ends |
| `mock_dead_receiver` | 1 deliverer, 1 subscriber | violation | a dead subscriber hides a live one behind it |
| `suite_shared` | suite and one other caller | 3 759 389 | the suite on a shared client |
| `suite_mock` | suite alone | violation | the suite cannot pass on the mock |
| `broker_in_turn` | 4 tasks, 2 socket paths (one used twice), 1 port | 81 524 | brokers keep apart, Ok of start is a broker that listens, nothing is left |
| `broker_parallel` | 2 tasks with paths of their own | violation | they share a configuration file |
| `broker_same_path` | 2 tasks with one path, in turn | violation | a start takes the socket file of a running broker away |
| `witness` | 2 callers that both verify, one also waits, subscribes and clears; 1 topic, 2 payloads, queues of 1, 2 messages, 1 fault | 172 677 | what verifications mean, every call ends, what must arrive |

The properties and why they could fail:

- `AnswerIsMatches`: the four arms end at different times; a `#` that needs a
  level, or a `+` that does not look for the end, breaks it. It speaks of filters with
  `#` at most at their end, for which the doc comment defines an answer.
- `OutcomeTellsWhoReceived`: count, channels and audience agree although
  receivers disappear during the loop; `Err` names a subscription without receiver.
- `RetainedReachesEverySubscriber`: however store, delivery and subscribe
  interleave, a finished subscription has been sent the retained message.
- `LastSeenIsRetained`: with one deliverer the last value seen is the stored one, as
  soon as `simulate_receive` has answered Ok, even while the next call is under way.
  With two deliverers it is false, since they may store in one order and deliver
  in the other: this is why the run has one, and the comment says so.
- `ContractSpec`: refinement of `PubSubContract`; a delivery loop on a snapshot of
  the list would send to a subscription that is gone.
- `IdsUnique`: with overflow checks no id is given twice; without them an id comes again
  only after at least `IdLimit` subscribes, whatever was unsubscribed. That it does come
  again, perhaps beside a subscription that still has it, is what such a build does.
- `PanicFreezesDelivery`, `SomeoneCanProceed`, `EveryCallReturns`: the
  id limit, the poisoning that follows and the locks.
- `ChecksNeverFail`, `OkLeavesNothing`, `RecordKeepsOrder`,
  `OnlySuiteBreaksDelivery`: the suite among other users of the client.
  The record is in order if the number of each message of the suite and the count of
  those behind it add up to what the suite has published.
  `test_subscribe` drops its receiver while its subscription is still in the list,
  and a failed cycle leaves one behind for good: in between, other deliveries fail. These
  windows are in the code; `OnlySuiteBreaksDelivery` permits them and says that there is
  no other.
- `CaughtUpKnows`: a reader that has emptied its channel agrees with the store about
  every availability topic it subscribed to, unless the message it would know it
  from was lost to a burst. It relates the store, the replay, live delivery and the
  loss of old messages; a reader that took any boolean for online breaks it.
- `ListensOnItsTransport`, `StopLeavesNothing`, `OnlyCancelLeaks`: the broker handles.
  The last exempts the cancelled start, which does leave its process behind.
- `OkMeansListening`: `start` answers Ok without a look at its process, which ends when
  its path is taken. Because `start` removes what it finds there first, and only a
  process of a cancelled start can come in between, Ok still means a process that
  listens on the path it was asked for. This holds of Unix sockets: when a TCP port
  is taken, the process ends and the answer is Ok all the same. And it says that the
  process listens, not that its socket file is still there: another start or clean-up
  on the same path takes it away (`SocketStaysUntilStop`, refuted).
- `OkIsSinceClear`: `verify_publish` answers Ok only for a message captured after
  its own clear. It may be a late copy of an earlier message with the same payload,
  or the message of another verification: that is what the code promises, and no more.
- `TimeoutHasALook`: a wait that ends in a timeout did not miss a message captured
  before its last wake-up, although the outer timeout ends the call without a look,
  unless another caller removed the message: two verifications on one witness do
  that to each other.
- `EveryCallReturns` (of the witness): waits end even when the event loop is dead. The
  exception in the property is real: the `publish` of `verify_publish` waits outside of
  the timeout, so that with a full queue and no broker it never ends.
- `PublishedIsCaptured`: a message above QoS 0 on a topic the broker forwards by then
  is captured, through a lost connection of the publisher. A message published after
  `subscribe` answered, but before the broker has processed it, is not covered: the
  sample at `src/src/validation/README.md:172-184`, which publishes right after
  `subscribe`, can miss its message.

Five statements of the repository are refuted:

1. `src/src/mock/README.md:131` says wildcards are not supported; `topic_matches`
   supports both (`topic_exact`).
2. `src/src/mock/client.rs:67-68` says that a message goes to any registered
   sender that matches; the loop stops at the first one without receiver
   (`mock_dead_receiver`).
3. `src/src/mock/test_validation.rs:57-62` expects the suite to pass on a new
   mock. `publish` gives nothing to subscribers, so the last test times out
   (`suite_mock`). No `mod` compiles that file, so nobody sees it fail.
4. `src/src/validation/README.md:137` says that Unix sockets isolate tests that run
   in parallel. Each gets a socket of its own, but the configuration file is one
   (`broker_parallel`).
5. The same line says that sockets are cleaned up when the broker stops. A start on
   the path of a running broker removes its file long before (broker.rs:119-121), and
   so does the second clean-up of a stopped one (219-222) with the file of its
   successor (`broker_same_path`). `/tmp/test_mqtt.sock` is such a path, used at
   broker.rs:248 and `src/src/validation/examples.rs:122`.

### Bounds

`Payloads` bounds the calls of `simulate_receive` (a message is received once, so
copies can be told apart), `MaxSubscribes` the subscribes; the other calls are
unbounded. Two callers of each kind are enough for every pair of calls to
interleave, two subscriptions for a loop with a failure in front of a live
receiver and for two subscriptions on one channel, two messages for a store
that is overwritten, or cleared and filled again, with one that says online and one
that says offline in `mock_order`. `IdLimit = 4` puts the end of the id type within
reach of three subscribes, where the build panics; in `mock_race` the build does not,
and the second subscribe takes the counter round to 0, as many subscribes as the
refinement allows. Elsewhere the end is out of reach. Filters of three levels cover every
pair of neighbouring arms of the loop, and the proof covers all lengths. In
`suite_shared` the other caller has at most two messages in the record at a time
(`OthersRecorded`; `publish` has no such limit, and no property counts them) and
receives one; `Capacity = 1` makes a retained message that is replayed and
delivered too a lag. In `mock_order` a capacity of 1 makes any second message a loss
for a reader that has not yet come. In `witness` one caller publishes a payload that
the other uses too, and one of its own, so that verifications can and cannot be
mistaken for each other; `QueueLimit = 1` (10 in the code) makes a second request
wait; `MaxPublishes` bounds the messages and with it the loops that would otherwise go
on; `MaxFaults = 1` lets each of the four faults happen, and the end of the witness's
task follow a broker that stops. The roles (`Verifiers`, `Watchers`) keep the instance
small: the second caller makes every call, the first only verifies. Callers of a kind and
payloads that say the same are symmetric in `mock_race` and `mock_order`, channels in
`mock_race`; neither has a liveness property. Deadlock is checked everywhere but
in the broker runs, where every task starts one broker and then is done, and in
`witness`, where a verification that waits for room in a queue whose broker is gone
stays there.

### Fairness

`FairSpec` is weak fairness of `Continue(c)`, the steps of a call that has begun:
a thread inside a call is not suspended, since the calls contain no `await`. No
fairness is assumed of new calls, of `DropReceiver` or of the choice among waiting
callers: a std mutex is not fair, but a step that waits for a lock competes only
with calls whose number is bounded by `Payloads` and `MaxSubscribes`, and with
`Unsubscribe` and `ClearRetained`, each a single step that leaves the lock free.

In `witness`, a step of a call (`Continue`) is a task the runtime polls once it is
woken, hence weak fairness for it. `TimesOut` is strongly fair: the loop comes back
to its check every 50 ms and the clock goes on, so a check that is reached over and
over finds the time over (witness.rs:187). `SendSubscribe`, `Capture` and
`PublisherPolls` are weakly fair because the event loops are polled in loops of their
own (witness.rs:92, `src/src/validation/README.md:161-166`). The task of the witness
ends once the broker is gone because of the keep-alive (witness.rs:82). No fault is
fair, and no new call is.

## 4. Proofs

| module | theorem | shows, for all values of the constants |
|---|---|---|
| `TopicMatchesProofs` | `AnswerCorrect`, `TypeCorrect` | for filters with `#` at most at the end, the loop decides the documented rules, at any length |
| `TopicFilterProofs` | (`WellFormedAnswer`, a lemma) | on these filters `topic_matches` and `Matches` agree |
| `MockClientProofs` | `TypeCorrect` | the type invariant |
| | `IdsAreUnique` | ids, and when a counter that wraps gives one again |
| | `NoDeadlock` | any number of callers never wait in a circle |
| | `PanicIsFinal` | after a panic nothing is registered, removed or sent |
| | `ImplementsContract` | refinement of `PubSubContract`, if all filters are well formed (`DocumentedFilters`) and `OverflowChecks \/ MaxSubscribes <= IdLimit` |
| `MockDeliveryProofs` | `RetainedReaches` | no retained message falls between a delivery and a subscribe, without any assumption |
| | `LastSeenIsStored` | what a subscriber was sent last is what the store holds, with one deliverer (`OneDeliverer`) |
| | `OutcomeTells` | what the answers of `simulate_receive` say, if `OverflowChecks \/ MaxSubscribes <= IdLimit` |
| `AvailabilityProofs` | `CaughtUpReadersKnow` | a reader of a channel of any capacity that has read everything agrees with the store, with one deliverer |
| `ValidationSuiteProofs` | `SuiteTypeCorrect` | types of the suite and of its client |
| | `IdAndTopicChecksHold`, `OkMeansCleanedUp` | the suite among any number of other callers |
| | `SuiteAloneBreaksDelivery` | when it breaks the deliveries of others: between its subscribing test and the unsubscribe, or after a failed cycle |
| | `RecordIsInOrder` | the record of published messages |
| `TestBrokerProofs` | `TypeCorrect`, `OnlyCancelledStartsLeak` | without any assumption on the callers |
| | `BrokersAreApart`, `NothingIsLeft`, `OkIsABroker` | if starts do not overlap and the timeout suffices (`InTurn`) |
| `WitnessClientProofs` | `TypeCorrect` | the type invariant, with the bounds of both queues |
| | `VerifiedSinceClear`, `TimeoutsMissNothing` | what Ok and a timeout mean, for any number of callers |

*TopicMatches.* The invariant says that what both iterators have consumed is
matched by `Covers`, so that at each return the answer is `topic_matches`, for every
filter (`LoopAnswers`). On well-formed filters this is the documented rule, because the
first `#` is the last level (`WellFormedAnswer`).

*MockClient.* `IInv` has six parts. `LockInv`: two callers are never at points that
hold the same lock; without it the refinement fails, because `unsubscribe` could
come between the look at the list and a send. `LocalInv`: what a caller's locals
hold at its point, e.g. a pending subscription is in the list and matches. `IdInv`:
the i-th subscription has id i up to the limit, and beyond it the counter is as far
ahead of the id of each recent subscription, modulo `IdLimit`, as the end of the list is
of the subscription; uniqueness alone is not inductive, the counter has to be tied to
the length. `PoisonInv`: the list and the counter are
poisoned together and nobody is left holding the list, which is why nothing happens
afterwards. `StoreInv`: a retained message is filed under its own topic, needed for
the replay to match. No deadlock follows from the program points alone: a caller
that holds the store waits for nothing, one that holds the counter waits only for
the store, and so on. The refinement maps each step of a call to a contract step or
a stutter; the condition on the counter is what `issued` needs, the one on filters what the
contract's `Matches` needs.

*What a single message does (MockDeliveryProofs).* `PayloadInv` says where a message can
be: in one call under way or in one answer, because it is received once. For
`RetainedReaches` the statement alone is not inductive, since it speaks of finished calls
only. `RetainedInv` says of every subscription with a receiver and every message in the
store that it has been sent the message or that there is still a reason why not
(`Unsettled`): its subscribe will replay it (`AwaitsReplay`), the call that stored it
will come to the subscription (`AwaitsDelivery`), or that call ended in an error or a
panic (`GivenUp`). The lemma `UnsettledStays` is the heart of it: a new message and a new
subscription begin with a reason, because the message is stored before the list is
locked and the subscription pushed before the store is read, and a reason ends only in a
send. `LastSeenIsStored` uses the same lemma with "it was sent last among the retained
messages of its topic" (`Latest`) in place of "it was sent". That needs one deliverer
(`StoredInv`: nobody overwrites what is being delivered); with two it is false.
`OutcomeTells` rests on `Told`, which says of a call in its loop that its copies, its
count and the part of the audience it has passed have the same number, one of each for
every send, and of an answer what the property says. It needs unique ids, which is the
assumption; that nobody else changes the list meanwhile is `LockInv`, and that no later
call touches the copies of a message is `PayloadInv`.

*Availability.* Steps of readers leave the client alone and steps of the client leave
readers alone, so `LastSeenIsStored` holds of the composition. `ReaderInv` ties the
conclusion of a reader to the last message it has read of a topic, unless that one was
lost; when the reader is at the end of its channel, this is the message that the store
holds.

*ValidationSuite.* `SuiteInv` is the invariant of the client and three more parts.
`ProgressInv`: how much has been published at each step, and that a call of the suite on
the client is under way only at the two subscribing steps. `OwnInv`: at each step, which
subscriptions with the channels of the suite exist, which of them are in the list, and
that the one of the cycle has the id that `subscribe` returned. `HearsInv`: where the suite
still has its receivers. The checks hold because an entry on a channel was sent for a
subscription with its id and a matching filter (`EntryInv`), the suite has one
subscription on that channel, and a filter without wildcards matches itself only
(`LiteralMatches`). An error of `simulate_receive` comes from a subscription in the list
without receiver; `OwnInv` and `HearsInv` leave the step in front of the unsubscribe and
the two failures of the cycle, silence and a lag, for that.

*TestBroker.* `LifeInv` gives the process of a task at each of its points. For
callers that start in turn, `ExclusionInv` (one task inside start), `ConfigInv` (from
the write until the process has read it, the file holds the configuration of that
task; a process that has not bound yet belongs to a start) and `BoundInv` (a process is
bound to its own transport only, its port until it dies, its socket file until its
handle is gone) give the first two theorems. `OkIsABroker` needs `FreePathInv` besides:
from the removal of the stale socket to the bind, the path of a task is free and its
process has not died for want of it, unless a cancelled start has the same path
(`Contested`). It is kept because whoever binds that path meanwhile is a process that
has not bound yet, thus of a start, thus of a cancelled one, there being one start at a
time (`BindIsContested`); starts and clean-ups of live handles on the same path only
make it freer. `OwnedInv` is what the timeout has to provide.

*WitnessClient.* The two action properties need an invariant of four parts.
`BudgetInv` counts the verifications that have still to publish, without which the
numbers of messages would leave their type. `SinceInv`: a caller's own clear is never
undone. `LocalInv`: a verification is inside its wait and waits for one message, and a
caller past its look, asleep or about to compare the clock, found nothing among what
had been captured at its last wake-up. The last part is kept by the steps of others because the
record only grows at its end and clears only take away (`RecordGrows`,
`NoMoreFound`); it is what lets the outer timeout end a sleep without another look.

Assumptions are those named in the modules (`LevelsAssumption`,
`ConstantsAssumption`, `NoMessageAssumption`, `TransportAssumption`, `SuiteAssumption`
and those of `Availability` and `WitnessClient`) and the conditions in the table; TLC
evaluates the former in the runs. `SuiteAssumption` says that the topic of the cycle,
"test/subscribe", has no wildcard (mod.rs:175) and that the suite's two subscribes are not
those at the end of the id type. `OneDeliverer` is not a fact about the code but what its
users have to see to: with two deliverers `LastSeenIsRetained` fails.

**Model-checked only.** `EveryCallReturns` (of the client and of the witness) and
`PublishedIsCaptured`: liveness is out of the prover's reach. Every other property of a
passing run is the statement of a theorem. The invariants used in the proofs were
checked by TLC on the instances of the runs before they were proved.

## 5. What is not modelled

- In `MockClient`: a channel that has lost its last receiver and gets one again, by
  `Sender::subscribe` on a sender the subscriber kept. Such a receiver sees only what is
  sent after it was made; what the properties say of a channel with a receiver is about
  one that has had it all along.
- The message builder (`src/src/message.rs`). `object_payload` sets the content type
  too, so the order of calls decides it; but the builder is a record filled in by one
  owner, nothing in the repository reads the content type or promises anything of
  the order, and a model would repeat the assignments.
- In `WitnessClient`: client ids made of the clock (two witnesses created in one clock
  tick would share one), wildcards in its subscriptions, the handshake of QoS 2 and
  the QoS of the subscription (nothing is sent again to a witness that never
  reconnects); timestamps and flags of captured messages, which no function compares.
- Of availability: the republish interval, which is always `None`, and the JSON path,
  of which only the verdict on a payload is kept; a last will, which no code of the
  repository registers.
- The answers of the publishing calls, which depend on the QoS alone, and the
  connection state of the mock, which is constant.
- In `TestBroker`: failures of `create_dir_all`, of the write, of kill and of wait;
  brokers that end by themselves after binding.
- In the suite: the client id test and errors returned by the client, which
  `MockClient` never returns.
- `src/src/validation/examples.rs` and `src/src/mock/test_validation.rs` are in no
  module tree; `src/examples/mock_usage.rs` only uses the library.

## 6. Plan

In order of importance; the first nine are done.

1. `TopicFilter`, `TopicMatches` and the proof that the loop is right.
2. `PubSubContract` and `MockClient`, with the runs on races, order and overflow.
3. `MockClientProofs`: types, ids, locks, panic, refinement.
4. `ValidationSuite`, composed with `MockClient`.
5. `TestBroker` and its proofs.
6. `WitnessClient` with its faults, and the proofs of its safety properties.
7. `Availability`, composed with `MockClient` over channels that lose messages.
8. Brokers on shared and separate paths, in turn and overlapping, and the proof of what
   Ok of `start` means.
9. Proofs of what a message does in the client (`RetainedReachesEverySubscriber`,
   `OutcomeTellsWhoReceived`, `LastSeenIsRetained`), of the readers of availability and of
   the suite.
10. A broker started by `TestBroker` as the broker of `WitnessClient`, so that a
    verification meets the clean-up of another test.

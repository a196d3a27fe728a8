\* A subscriber without receiver stands in front of one that has a receiver.
CONSTANTS
    Callers = {d1, s1}
    Deliverers = {d1}
    Channels = {ch1, ch2}
    Topics <- OneTopic
    Filters <- LiteralFilter
    Payloads = {m1}
    IdLimit = 8
    OverflowChecks = TRUE
    MaxSubscribes = 2
    NoMessage = NoMessage
SPECIFICATION Spec
INVARIANTS
    EveryLiveSubscriberReached

\* One deliverer, two subscribers, a channel that loses messages: what a
\* subscriber ends up with, and what it concludes of the availability of a client.
CONSTANTS
    Callers = {d1, s1, s2}
    Deliverers = {d1}
    Channels = {ch1}
    Topics <- TwoTopics
    Filters <- Wildcards
    Payloads = {m1, m2}
    IdLimit = 8
    OverflowChecks = TRUE
    MaxSubscribes = 2
    NoMessage = NoMessage
    Capacity = 1
    AvailabilityTopics <- SystemTopic
    OnlinePayloads = {m1}
SYMMETRY Interchangeable
SPECIFICATION AvailabilitySpec
INVARIANTS
    LastSeenIsRetained
    CaughtUpKnows

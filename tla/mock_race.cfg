\* Two deliverers and a subscriber race, in a build without overflow checks whose
\* id counter goes round at the second subscribe.
CONSTANTS
    Callers = {d1, d2, s1}
    Deliverers = {d1, d2}
    Channels = {ch1, ch2}
    Topics <- OneTopic
    Filters <- LiteralAndAll
    Payloads = {m1, m2}
    IdLimit = 2
    OverflowChecks = FALSE
    MaxSubscribes = 2
    NoMessage = NoMessage
SYMMETRY Interchangeable
SPECIFICATION Spec
INVARIANTS
    OutcomeTellsWhoReceived
    RetainedReachesEverySubscriber
    SomeoneCanProceed
    IdsUnique
PROPERTIES
    ContractSpec

\* The id counter of a build with overflow checks reaches its limit; calls end,
\* by a panic if need be.
CONSTANTS
    Callers = {d1, s1, s2}
    Deliverers = {d1}
    Channels = {ch1}
    Topics <- OneTopic
    Filters <- LiteralFilter
    Payloads = {m1, m2}
    IdLimit = 4
    OverflowChecks = TRUE
    MaxSubscribes = 5
    NoMessage = NoMessage
SPECIFICATION FairSpec
INVARIANTS
    TypeOK
    IdsUnique
PROPERTIES
    PanicFreezesDelivery
    EveryCallReturns

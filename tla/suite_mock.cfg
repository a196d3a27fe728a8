\* The suite alone on a new MockClient, as in test_validation.rs.
CONSTANTS
    Callers = {v}
    Deliverers = {}
    Channels = {test_tx, cycle_tx}
    Topics <- BothTopics
    Filters <- BothTopics
    Payloads = {}
    IdLimit = 8
    OverflowChecks = TRUE
    MaxSubscribes = 2
    NoMessage = NoMessage
    Suite = v
    TestTopic <- MCTestTopic
    CycleTopic <- MCCycleTopic
    TestChannel = test_tx
    CycleChannel = cycle_tx
    Capacity = 1
    OthersRecorded = 1
SPECIFICATION SuiteSpec
INVARIANT
    SuitePasses

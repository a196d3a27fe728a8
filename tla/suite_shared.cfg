\* The suite runs while another caller delivers to and uses a clone of the client.
CONSTANTS
    Callers = {v, d1}
    Deliverers = {d1}
    Channels = {test_tx, cycle_tx, ch1}
    Topics <- BothTopics
    Filters <- BothTopics
    Payloads = {m1}
    IdLimit = 8
    OverflowChecks = TRUE
    MaxSubscribes = 3
    NoMessage = NoMessage
    Suite = v
    TestTopic <- MCTestTopic
    CycleTopic <- MCCycleTopic
    TestChannel = test_tx
    CycleChannel = cycle_tx
    Capacity = 1
    OthersRecorded = 2
SPECIFICATION SuiteSpec
INVARIANTS
    SuiteTypeOK
    ChecksNeverFail
    OkLeavesNothing
    RecordKeepsOrder
PROPERTIES
    OnlySuiteBreaksDelivery

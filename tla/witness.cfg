\* Two callers share a witness: verifications, waits, subscribes and clears race.
CONSTANTS
    Callers = {a, b}
    Verifiers = {a, b}
    Watchers = {b}
    a = a
    b = b
    p1 = p1
    p2 = p2
    PayloadsOf <- Overlapping
    Topics = {t1}
    Payloads = {p1, p2}
    QoS = {"AtMostOnce", "AtLeastOnce"}
    Counts = {2}
    QueueLimit = 1
    MaxPublishes = 2
    MaxFaults = 1
SPECIFICATION FairSpec
CHECK_DEADLOCK FALSE
INVARIANTS
    TypeOK
PROPERTIES
    OkIsSinceClear
    TimeoutHasALook
    EveryCallReturns
    PublishedIsCaptured

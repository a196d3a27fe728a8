\* Brokers are started one after the other, and live side by side,
\* two of them with the same socket path.
CONSTANTS
    t1 = t1
    t2 = t2
    t3 = t3
    t4 = t4
    path1 = path1
    path2 = path2
    port1 = port1
    Tasks = {t1, t2, t3, t4}
    SocketPaths = {path1, path2}
    Ports = {port1}
    TransportOf <- Mixed
    StartsOverlap = FALSE
    TimeoutSuffices = TRUE
    Nobody = Nobody
    NoTransport = NoTransport
SPECIFICATION Spec
CHECK_DEADLOCK FALSE
INVARIANTS
    TypeOK
    OnlyCancelLeaks
    ListensOnItsTransport
    
    OkMeansListening

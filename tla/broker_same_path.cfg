\* Two tests start brokers with the same socket path, one after the other.
CONSTANTS
    t1 = t1
    t2 = t2
    t3 = t3
    t4 = t4
    path1 = path1
    path2 = path2
    port1 = port1
    Tasks = {t1, t2}
    SocketPaths = {path1, path2}
    Ports = {}
    TransportOf <- Same
    StartsOverlap = FALSE
    TimeoutSuffices = TRUE
    Nobody = Nobody
    NoTransport = NoTransport
SPECIFICATION Spec
CHECK_DEADLOCK FALSE
INVARIANT
    SocketStaysUntilStop

CONSTANTS
    t1 = t1  t2 = t2  q1 = q1  q2 = q2  r1 = r1
    Connections = {t1, t2}
    Datagrams = {q1, q2}
    ApiRequests = {r1}
    MAX_TCP_CONNECTIONS = 1
    MAX_CONCURRENT = 1
    DRAIN_TIMEOUT = 1
    SHUTDOWN_TIMEOUT = 2
SPECIFICATION FairServerSpec
INVARIANTS CountsExact CountedConnectionsServed
PROPERTIES  ShutdownEnds
CHECK_DEADLOCK FALSE

CONSTANTS
    q1 = q1  q2 = q2  q3 = q3  c1 = c1  d1 = d1
    Queries = {q1, q2}
    Clients = {c1}
    Domains = {d1}
    Types = {"A", "AAAA", "none"}
    Nodes <- TwoNodes
    Ttls = {0, 5}
    TTL_MIN_SECS = 1
    TTL_MAX_SECS = 3
    TTL_DEFAULT_SECS = 2
    None = None
    MaxChanges = 2
    MaxClock = 3
SPECIFICATION HandlerSpec
INVARIANTS PolicyHolds  AgeBounded
SYMMETRY QuerySymmetry
CHECK_DEADLOCK FALSE

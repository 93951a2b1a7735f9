CONSTANTS
    u1 = u1  w1 = w1  w2 = w2  s1 = s1  s2 = s2
    Upstreams = {u1}
    Strategies = {s1, s2}
    NetStates = {"fast", "slow", "refused"}
    SeedRows <- Seeds
    Workers = {w1, w2}
    Main = main
    Api = api
    Fallback = fallback
    NoRow = NoRow
    MaxRequests = 2
    MaxNetChanges = 1
SPECIFICATION Spec
INVARIANTS PoolFollowsTable  
SYMMETRY Symmetry
CHECK_DEADLOCK FALSE

CONSTANTS
    r1 = r1  i1 = i1  i2 = i2  d1 = d1  d2 = d2  a1 = a1  w1 = w1  w2 = w2
    Rules = {r1}
    RewriteIds = {}
    Domains = {}
    Answers = {}
    Configured <- AllOff
    Bodies <- NoBodies
    Workers = {w1}
    Cleanup = cleanup
    NoRow = NoRow
    MaxClock = 1
    MaxRequests = 2
SPECIFICATION FairSpec
PROPERTY ExpiredRulesEvicted
CHECK_DEADLOCK FALSE

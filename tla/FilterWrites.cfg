CONSTANTS
    r1 = r1  i1 = i1  i2 = i2  d1 = d1  d2 = d2  a1 = a1  w1 = w1  w2 = w2
    Rules = {}
    RewriteIds = {i1, i2}
    Domains = {d1, d2}
    Answers = {a1}
    Configured <- OnOrOff
    Bodies <- SettingsBodies
    Workers = {w1, w2}
    Cleanup = cleanup
    NoRow = NoRow
    MaxClock = 0
    MaxRequests = 2
SPECIFICATION Spec
INVARIANTS RulesFollowTables RewritesFollowTables
SYMMETRY WorkerSymmetry
CHECK_DEADLOCK FALSE

CONSTANTS
    p1 = p1  p2 = p2  q1 = q1  n1 = n1
    Requests = {p1, p2}
    Queries = {q1}
    Health = health
    Networks = {n1}
    Client <- FromN1
    Bodies <- FewBodies
    Invalid = Invalid
    None = None
SPECIFICATION FairSettingsSpec
INVARIANTS AclFollowsTable
PROPERTIES QueriesEnd ReloadsGetIn
CHECK_DEADLOCK FALSE

SPECIFICATION Spec
CHECK_DEADLOCK FALSE
SYMMETRY Symmetry
CONSTANTS
    Tasks = {t1, t2, t3, t4}
    Ips = {"ip1"}
    Users = {"admin", "bob"}
    Admin = "admin"
    Passwords = {"admin", "pw"}
    Bootstrap = "admin"
    Roles = {"super_admin", "read_only"}
    Requests <- MCRequests
    MAX_LOGIN_FAILURES = 2
    FAILURE_WINDOW = 1
    jwt_expiry_hours = 3
    MAX_EXPIRY_HOURS = 1
    WS_TICKET_TTL = 1
    Leeway = 1
    MaxClock = 3
    None = None
INVARIANT TypeOK
INVARIANT FailuresBounded
 
INVARIANT TicketsOpenOnce
INVARIANT SerialKeepsSuperAdmin

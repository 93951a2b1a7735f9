------------------------------ MODULE Accounts ------------------------------
(***************************************************************************)
(* User accounts of the management API: login with its failure counter per *)
(* address, the tokens it issues, logout, password and role changes, and   *)
(* the one-time tickets that open the WebSocket of the query log.          *)
(* Requests run concurrently; every SQL statement and every access to the  *)
(* maps login_attempts and token_blacklist is a step of its own, unless    *)
(* nothing another request does can come between.                          *)
(*                                                                         *)
(* A password is a value compared for equality (argon2 is external), and a *)
(* token is the claims it carries.  Time is counted in units in which the  *)
(* failure window and the lifetimes of tokens are small numbers.           *)
(***************************************************************************)
EXTENDS Integers, FiniteSets

CONSTANTS
    Tasks,               \* requests; each is served at most once
    Ips,
    Users,               \* user names; the first admin is one of them
    Admin,               \* the user seed_admin creates
    Passwords,
    Bootstrap,           \* the password seed_admin gives
    Roles,
    Requests,            \* what a request may ask
    MAX_LOGIN_FAILURES, FAILURE_WINDOW,
    jwt_expiry_hours,    \* from the configuration file
    MAX_EXPIRY_HOURS,    \* 168
    WS_TICKET_TTL,
    Leeway,              \* what jsonwebtoken's Validation tolerates after exp
    MaxClock,            \* bound on time
    None

User == [role : Roles, password : Passwords]

\* The bodies of the handlers; a ticket is asked for with the token alone.
Request ==
    [op : {"login"}, ip : Ips, user : Users, password : Passwords]
        \cup [op : {"role"}, user : Users, role : Roles]
        \cup [op : {"create"}, user : Users, role : Roles, password : Passwords]
        \cup [op : {"password"}, user : Users, current : Passwords, new : Passwords]
        \cup [op : {"ticket"}, session : {None}]

ASSUME AccountAssumption ==
    /\ Requests \subseteq Request /\ None \notin User
    /\ Admin \in Users /\ Bootstrap \in Passwords
    /\ Roles \subseteq {"super_admin", "admin", "operator", "read_only"}
    /\ "super_admin" \in Roles
    /\ MAX_LOGIN_FAILURES \in Nat \ {0} /\ FAILURE_WINDOW \in Nat
    /\ jwt_expiry_hours \in Nat /\ MAX_EXPIRY_HOURS \in Nat
    /\ WS_TICKET_TTL \in Nat \ {0} /\ Leeway \in Nat /\ MaxClock \in Nat

VARIABLES
    users,           \* the table users: role and password, or None
    login_attempts,  \* per address: failures and start of the window, or None
    tokens,          \* per login task: the claims of the token it issued, or None
    token_blacklist, \* jtis that were logged out
    ws_tickets,      \* per ticket, named by the task that got it: when issued, or None
    request, pc,     \* per task: its request and the step it is at
    row,             \* per task: the row of users it has read, or None
    clock,
    \* History, read by no action of the program:
    peak,            \* per address: most logins past the rate limit at one time
    admitted,        \* jti and time of every request an extractor let through
    logged_out,      \* per jti: when its logout was answered, or None
    opened,          \* ticket, number and time of every WebSocket that was accepted
    overlap          \* a role was written between another's count and write

local == <<request, pc, row>>
ws == <<ws_tickets, opened>>
history == <<peak, admitted, logged_out, overlap>>
vars == <<users, login_attempts, tokens, token_blacklist, local, clock, history, ws>>

Claims == [sub : Users, role : Roles, iat : 0..MaxClock]

\* A password change is for the user of the token, whoever that is.
OfSession(r, u) == IF r.op = "password" THEN [r EXCEPT !.user = u] ELSE r
Tickets == {[op |-> "ticket", session |-> jti] : jti \in Tasks}
Asked == Requests \cup {OfSession(r, u) : r \in Requests, u \in Users} \cup Tickets

Attempts == [count : Nat, window_start : 0..MaxClock]

\* The types of the tables, the maps and the requests; a token is issued by a
\* login that was answered.
TypeOK ==
    /\ users \in [Users -> User \cup {None}]
    /\ login_attempts \in [Ips -> Attempts \cup {None}]
    /\ tokens \in [Tasks -> Claims \cup {None}]
    /\ token_blacklist \subseteq Tasks
    /\ request \in [Tasks -> Asked \cup {None}]
    /\ pc \in [Tasks -> {"idle", "check", "read", "verify", "count", "write", "done", "rejected"}]
    /\ row \in [Tasks -> User \cup {None}]
    /\ clock \in 0..MaxClock
    /\ peak \in [Ips -> Nat]
    /\ admitted \subseteq Tasks \X (0..MaxClock)
    /\ logged_out \in [Tasks -> (0..MaxClock) \cup {None}]
    /\ overlap \in BOOLEAN
    /\ ws_tickets \in [Tasks -> (0..MaxClock) \cup {None}]
    /\ opened \subseteq Tasks \X Nat \X (0..MaxClock)
    /\ \A t \in Tasks : tokens[t] # None => pc[t] = "done" /\ request[t].op = "login"

\* seed_admin has run on an empty table.
Init ==
    /\ users = [u \in Users |-> IF u = Admin
                                THEN [role |-> "super_admin", password |-> Bootstrap] ELSE None]
    /\ login_attempts = [ip \in Ips |-> None]
    /\ tokens = [t \in Tasks |-> None]
    /\ token_blacklist = {}
    /\ request = [t \in Tasks |-> None]
    /\ pc = [t \in Tasks |-> "idle"]
    /\ row = [t \in Tasks |-> None]
    /\ clock = 0
    /\ peak = [ip \in Ips |-> 0]
    /\ admitted = {} /\ logged_out = [t \in Tasks |-> None] /\ overlap = FALSE
    /\ ws_tickets = [t \in Tasks |-> None] /\ opened = {}

Goto(t, label) == pc' = [pc EXCEPT ![t] = label]

-----------------------------------------------------------------------------
(* login *)

Elapsed(start) == clock - start > FAILURE_WINDOW

BeginLogin(t, r) ==
    /\ pc[t] = "idle" /\ r.op = "login"
    /\ request' = [request EXCEPT ![t] = r]
    /\ Goto(t, "check")
    /\ UNCHANGED <<users, login_attempts, tokens, token_blacklist, row, clock, history, ws>>

\* Mutant of TooMany: one failure more is tolerated.
TooMany_OffByOne(entry) == ~Elapsed(entry.window_start) /\ entry.count > MAX_LOGIN_FAILURES

TooMany(entry) == ~Elapsed(entry.window_start) /\ entry.count >= MAX_LOGIN_FAILURES

InFlight(ip) ==
    {t \in Tasks : pc[t] \in {"read", "verify"} /\ request[t].op = "login" /\ request[t].ip = ip}

\* The rate limit: a window that has passed starts again at zero failures.
CheckRate(t) ==
    LET ip == request[t].ip
        entry == login_attempts[ip]
    IN  /\ pc[t] = "check"
        /\ Goto(t, IF entry # None /\ TooMany(entry) THEN "rejected" ELSE "read")
        /\ login_attempts' = IF entry # None /\ Elapsed(entry.window_start)
                             THEN [login_attempts EXCEPT ![ip] = [count |-> 0, window_start |-> clock]]
                             ELSE login_attempts
        /\ peak' = [peak EXCEPT ![ip] =
                       IF pc'[t] = "read" /\ Cardinality(InFlight(ip)) >= @ THEN @ + 1 ELSE @]
        /\ UNCHANGED <<users, tokens, token_blacklist, request, row, clock,
                       admitted, logged_out, overlap, ws>>

ReadLogin(t) ==
    /\ pc[t] = "read" /\ request[t].op = "login"
    /\ row' = [row EXCEPT ![t] = users[request[t].user]]
    /\ Goto(t, "verify")
    /\ UNCHANGED <<users, login_attempts, tokens, token_blacklist, request, clock, history, ws>>

Recorded(entry) ==
    IF entry = None \/ Elapsed(entry.window_start)
    THEN [count |-> 1, window_start |-> clock]
    ELSE [entry EXCEPT !.count = @ + 1]

Matches(t) == row[t] # None /\ row[t].password = request[t].password

\* An unknown user or a wrong password.
record_login_failure(t) ==
    /\ pc[t] = "verify"
    /\ ~Matches(t)
    /\ login_attempts' = [login_attempts EXCEPT ![request[t].ip] = Recorded(@)]
    /\ Goto(t, "rejected")
    /\ UNCHANGED <<users, tokens, token_blacklist, request, row, clock, history, ws>>

\* Mutant of IssueToken: the token is made before the password is compared.
IssueToken_Early(t) ==
    /\ pc[t] = "read" /\ request[t].op = "login" /\ users[request[t].user] # None
    /\ tokens' = [tokens EXCEPT ![t] =
                    [sub |-> request[t].user, role |-> users[request[t].user].role, iat |-> clock]]
    /\ Goto(t, "verify")
    /\ UNCHANGED <<users, login_attempts, token_blacklist, request, row, clock, history, ws>>

\* The counter of the address is dropped, and a token issued for the role that
\* was read.
IssueToken(t) ==
    /\ pc[t] = "verify"
    /\ Matches(t)
    /\ login_attempts' = [login_attempts EXCEPT ![request[t].ip] = None]
    /\ tokens' = [tokens EXCEPT ![t] =
                    [sub |-> request[t].user, role |-> row[t].role, iat |-> clock]]
    /\ Goto(t, "done")
    /\ UNCHANGED <<users, token_blacklist, request, row, clock, history, ws>>

-----------------------------------------------------------------------------
(* Requests with a token *)

\* Mutant of ExpiryHours: the configured value is taken as it is.
ExpiryHours_Uncapped == jwt_expiry_hours

ExpiryHours == IF jwt_expiry_hours < MAX_EXPIRY_HOURS THEN jwt_expiry_hours ELSE MAX_EXPIRY_HOURS

\* jwt::verify: the signature is the server's and exp is not passed.
Verifies(jti) ==
    /\ tokens[jti] # None
    /\ clock <= tokens[jti].iat + ExpiryHours + Leeway

\* The extractors AuthUser and AdminUser; the role is the token's.
AuthUser(jti) == Verifies(jti) /\ jti \notin token_blacklist
AdminUser(jti) == AuthUser(jti) /\ tokens[jti].role \in {"admin", "super_admin"}

Lets(jti, op) == IF op = "password" THEN AuthUser(jti) ELSE AdminUser(jti)

BeginWithToken(t, r, jti) ==
    /\ pc[t] = "idle" /\ r.op \in {"role", "create", "password"}
    /\ Lets(jti, r.op)
    /\ request' = [request EXCEPT ![t] = OfSession(r, tokens[jti].sub)]
    /\ admitted' = admitted \cup {<<jti, clock>>}
    /\ Goto(t, IF r.op = "create" THEN "write" ELSE "read")
    /\ UNCHANGED <<users, login_attempts, tokens, token_blacklist, row, clock, peak, logged_out, overlap, ws>>

\* A valid token is blacklisted; anything else is answered the same way.
logout(jti) ==
    /\ Verifies(jti) /\ logged_out[jti] = None
    /\ token_blacklist' = token_blacklist \cup {jti}
    /\ logged_out' = [logged_out EXCEPT ![jti] = clock]
    /\ UNCHANGED <<users, login_attempts, tokens, local, clock, peak, admitted, overlap, ws>>

\* users.rs create: a name that exists, when looked up or when inserted, is an
\* error.
Create(t) ==
    LET r == request[t]
    IN  /\ pc[t] = "write" /\ r.op = "create"
        /\ IF users[r.user] = None
           THEN /\ users' = [users EXCEPT ![r.user] = [role |-> r.role, password |-> r.password]]
                /\ Goto(t, "done")
           ELSE Goto(t, "rejected") /\ UNCHANGED users
        /\ UNCHANGED <<login_attempts, tokens, token_blacklist, request, row, clock, history, ws>>

\* change_password: the current password is compared with the row that was
\* read, and the new one is written without looking again.
ReadPassword(t) ==
    LET found == users[request[t].user]
    IN  /\ pc[t] = "read" /\ request[t].op = "password"
        /\ row' = [row EXCEPT ![t] = found]
        /\ Goto(t, IF found # None /\ found.password = request[t].current
                   THEN "write" ELSE "rejected")
        /\ UNCHANGED <<users, login_attempts, tokens, token_blacklist, request, clock, history, ws>>

WritePassword(t) ==
    /\ pc[t] = "write" /\ request[t].op = "password"
    /\ users' = [users EXCEPT ![request[t].user].password = request[t].new]
    /\ Goto(t, "done")
    /\ UNCHANGED <<login_attempts, tokens, token_blacklist, request, row, clock, history, ws>>

-----------------------------------------------------------------------------
(* Tickets for the WebSocket; the task of api/mod.rs that cleans up stale    *)
(* ones works on a clone of the map, which is empty, and changes nothing.    *)

Fresh(issued_at) == clock - issued_at < WS_TICKET_TTL

\* Expired tickets are evicted, and a new one is kept for the session's user.
issue_ticket(t, r, jti) ==
    /\ pc[t] = "idle" /\ r.op = "ticket"
    /\ AuthUser(jti)
    /\ request' = [request EXCEPT ![t] = [r EXCEPT !.session = jti]]
    /\ admitted' = admitted \cup {<<jti, clock>>}
    /\ ws_tickets' = [k \in Tasks |->
                        IF k = t THEN clock
                        ELSE IF ws_tickets[k] # None /\ Fresh(ws_tickets[k])
                        THEN ws_tickets[k] ELSE None]
    /\ Goto(t, "done")
    /\ UNCHANGED <<users, login_attempts, tokens, token_blacklist, row, clock, peak,
                   logged_out, overlap, opened>>

Uses(k) == {o \in opened : o[1] = k}
Opens(k) == opened' = opened \cup {<<k, Cardinality(Uses(k)) + 1, clock>>}

\* Mutant of query_log_ws: the ticket is looked up and left in the map.
query_log_ws_Get(k) ==
    /\ ws_tickets[k] # None /\ Cardinality(Uses(k)) < 2
    /\ IF Fresh(ws_tickets[k]) THEN Opens(k) ELSE UNCHANGED opened
    /\ UNCHANGED <<users, login_attempts, tokens, token_blacklist, local, clock, history,
                   ws_tickets>>

\* The ticket is removed whether or not it is still good.
query_log_ws(k) ==
    /\ ws_tickets[k] # None
    /\ ws_tickets' = [ws_tickets EXCEPT ![k] = None]
    /\ IF Fresh(ws_tickets[k]) THEN Opens(k) ELSE UNCHANGED opened
    /\ UNCHANGED <<users, login_attempts, tokens, token_blacklist, local, clock, history>>

-----------------------------------------------------------------------------
(* update_role *)

SuperAdmins == {u \in Users : users[u] # None /\ users[u].role = "super_admin"}

ReadRole(t) ==
    LET found == users[request[t].user]
    IN  /\ pc[t] = "read" /\ request[t].op = "role"
        /\ row' = [row EXCEPT ![t] = found]
        /\ Goto(t, IF found = None THEN "rejected"
                   ELSE IF found.role = "super_admin" /\ request[t].role # "super_admin"
                   THEN "count" ELSE "write")
        /\ UNCHANGED <<users, login_attempts, tokens, token_blacklist, request, clock, history, ws>>

\* Mutant of CountSuperAdmins: the one to be demoted is counted as remaining.
CountSuperAdmins_OffByOne(t) ==
    /\ pc[t] = "count"
    /\ Goto(t, IF Cardinality(SuperAdmins) < 1 THEN "rejected" ELSE "write")
    /\ UNCHANGED <<users, login_attempts, tokens, token_blacklist, request, row, clock, history, ws>>

CountSuperAdmins(t) ==
    /\ pc[t] = "count"
    /\ Goto(t, IF Cardinality(SuperAdmins) <= 1 THEN "rejected" ELSE "write")
    /\ UNCHANGED <<users, login_attempts, tokens, token_blacklist, request, row, clock, history, ws>>

\* Another request is between the row it read and the role it will write.
Underway(t) ==
    \E k \in Tasks \ {t} : pc[k] \in {"count", "write"} /\ request[k].op = "role"

WriteRole(t) ==
    /\ pc[t] = "write" /\ request[t].op = "role"
    /\ users' = [users EXCEPT ![request[t].user].role = request[t].role]
    /\ overlap' = (overlap \/ Underway(t))
    /\ Goto(t, "done")
    /\ UNCHANGED <<login_attempts, tokens, token_blacklist, request, row, clock, peak, admitted, logged_out, ws>>

-----------------------------------------------------------------------------

\* A statement fails or the connection goes away.
Abort(t) ==
    /\ pc[t] \in {"read", "count", "write"}
    /\ Goto(t, "rejected")
    /\ UNCHANGED <<users, login_attempts, tokens, token_blacklist, request, row, clock, history, ws>>

Tick ==
    /\ clock < MaxClock
    /\ clock' = clock + 1
    /\ UNCHANGED <<users, login_attempts, tokens, token_blacklist, local, history, ws>>

Serve(t) ==
    \/ CheckRate(t) \/ ReadLogin(t) \/ record_login_failure(t) \/ IssueToken(t)
    \/ Create(t) \/ ReadPassword(t) \/ WritePassword(t)
    \/ ReadRole(t) \/ CountSuperAdmins(t) \/ WriteRole(t) \/ Abort(t)

Next ==
    \/ \E t \in Tasks : Serve(t)
    \/ \E t \in Tasks, r \in Requests : BeginLogin(t, r)
    \/ \E t, jti \in Tasks, r \in Requests : BeginWithToken(t, r, jti)
    \/ \E jti \in Tasks : logout(jti)
    \/ \E t, jti \in Tasks, r \in Requests : issue_ticket(t, r, jti)
    \/ \E k \in Tasks : query_log_ws(k)
    \/ Tick

Spec == Init /\ [][Next]_vars

-----------------------------------------------------------------------------
(* Properties *)

\* Logins in flight have passed the rate limit and are not counted yet: the
\* failures of an address within a window exceed the limit by at most the
\* logins that were in flight beside the one that reached it, and not at all
\* when logins come one after the other.
FailuresBounded ==
    \A ip \in Ips : login_attempts[ip] # None =>
        login_attempts[ip].count < MAX_LOGIN_FAILURES + peak[ip]

\* A request gets past the extractor only with a token that lives at most 168
\* hours (and the tolerance) and, once a logout with it was answered, no more.
AdmittedSessionsLive ==
    \A a \in admitted :
        /\ a[2] <= tokens[a[1]].iat + MAX_EXPIRY_HOURS + Leeway
        /\ logged_out[a[1]] # None => a[2] <= logged_out[a[1]]

\* "ticket is consumed on use": a ticket opens one WebSocket, however many requests
\* present it, and less than WS_TICKET_TTL after its session was last good for one: a
\* logout cuts off the tickets it left behind by then.
TicketsOpenOnce ==
    \A o \in opened :
        LET ended == logged_out[request[o[1]].session]
        IN o[2] = 1 /\ (ended # None => o[3] < ended + WS_TICKET_TTL)

\* update_role's check keeps one super_admin as long as no other role is being
\* written between the check and the write.
SerialKeepsSuperAdmin == overlap \/ SuperAdmins # {}

\* "Cannot change role: at least one super_admin must remain"
OneSuperAdminRemains == SuperAdmins # {}
=============================================================================

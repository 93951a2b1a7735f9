--------------------------- MODULE AccountsProofs ---------------------------
(***************************************************************************)
(* Proofs about Accounts, for any number of requests, addresses, users,    *)
(* passwords and roles, and any limits.                                    *)
(***************************************************************************)
EXTENDS Accounts, FiniteSetTheorems, TLAPS

\* A request as it is served: a ticket belongs to the session it was asked with.
Served == Request \cup [op : {"ticket"}, session : Tasks]

Places == {"idle", "check", "read", "verify", "count", "write", "done", "rejected"}

\* Which requests come by which step, and that a row once read stays in the table.
TaskOK(t) ==
    /\ pc[t] # "idle" => request[t] \in Served
    /\ pc[t] \in {"check", "verify"} => request[t].op = "login"
    /\ pc[t] = "read" => request[t].op \in {"login", "role", "password"}
    /\ pc[t] = "count" => request[t].op = "role"
    /\ pc[t] = "write" => request[t].op \in {"create", "role", "password"}
    /\ pc[t] \in {"count", "write"} /\ request[t].op # "create" => users[request[t].user] # None

\* A ticket in the map has been issued and opened nothing yet.
TicketOK(k) ==
    ws_tickets[k] # None =>
        pc[k] = "done" /\ request[k] \in [op : {"ticket"}, session : Tasks] /\ Uses(k) = {}

OpenedOK(o) ==
    pc[o[1]] = "done" /\ request[o[1]] \in [op : {"ticket"}, session : Tasks] /\ o[2] = 1

Begun == {t \in Tasks : pc[t] # "idle"}
Registered == {u \in Users : users[u] # None}

TypeInv ==
    /\ TypeOK
    /\ IsFiniteSet(Begun) /\ IsFiniteSet(Registered)
    /\ \A t \in Tasks : TaskOK(t) /\ TicketOK(t)
    /\ \A o \in opened : OpenedOK(o)

-----------------------------------------------------------------------------
(* The constants and the requests *)

LEMMA Limits ==
    /\ MAX_LOGIN_FAILURES \in Nat /\ MAX_LOGIN_FAILURES > 0 /\ MaxClock \in Nat
    /\ WS_TICKET_TTL \in Nat /\ WS_TICKET_TTL > 0 /\ Leeway \in Nat
BY AccountAssumption

LEMMA ExpiryCapped ==
    /\ ExpiryHours \in Nat /\ MAX_EXPIRY_HOURS \in Nat /\ ExpiryHours <= MAX_EXPIRY_HOURS
BY AccountAssumption DEF ExpiryHours

LEMMA NoneNoUser == None \notin User
BY AccountAssumption

LEMMA ClockType ==
    ASSUME TypeInv
    PROVE  clock \in 0..MaxClock /\ clock \in Nat
<1>1. clock \in 0..MaxClock
    BY DEF TypeInv, TypeOK
<1> QED
    BY <1>1, Limits

LEMMA TicketsType ==
    ASSUME TypeInv
    PROVE  ws_tickets \in [Tasks -> (0..MaxClock) \cup {None}]
BY DEF TypeInv, TypeOK

LEMMA TaskTypes ==
    ASSUME TypeInv
    PROVE  pc \in [Tasks -> Places] /\ request \in [Tasks -> Asked \cup {None}]
BY DEF TypeInv, TypeOK, Places

LEMMA ServedTypes ==
    ASSUME NEW r \in Served
    PROVE  /\ r.op \in {"login", "role", "create", "password", "ticket"}
           /\ r.op = "login" => r.ip \in Ips /\ r.user \in Users
           /\ r.op = "role" => r.user \in Users /\ r.role \in Roles
           /\ r.op = "create" => r.user \in Users /\ r.role \in Roles /\ r.password \in Passwords
           /\ r.op = "password" => r.user \in Users /\ r.new \in Passwords
BY DEF Served, Request

LEMMA OfSessionType ==
    ASSUME NEW r \in Requests, NEW u \in Users
    PROVE  OfSession(r, u) \in Request /\ OfSession(r, u).op = r.op
<1>1. r \in Request
    BY AccountAssumption
<1>2. CASE r.op = "password"
  <2>1. r \in [op : {"password"}, user : Users, current : Passwords, new : Passwords]
    BY <1>1, <1>2 DEF Request
  <2>2. [r EXCEPT !.user = u] \in [op : {"password"}, user : Users, current : Passwords, new : Passwords]
    BY <2>1
  <2>3. OfSession(r, u) = [r EXCEPT !.user = u]
    BY <1>2 DEF OfSession
  <2> QED
    BY <1>2, <2>2, <2>3 DEF Request
<1>3. CASE r.op # "password"
    BY <1>1, <1>3 DEF OfSession
<1> QED
    BY <1>2, <1>3

LEMMA TicketType ==
    ASSUME NEW r \in Requests, r.op = "ticket", NEW jti \in Tasks
    PROVE  /\ [r EXCEPT !.session = jti] \in [op : {"ticket"}, session : Tasks]
           /\ [r EXCEPT !.session = jti] \in Tickets
           /\ [r EXCEPT !.session = jti].session = jti
<1>1. r \in [op : {"ticket"}, session : {None}]
    BY AccountAssumption DEF Request
<1>2. [r EXCEPT !.session = jti] = [op |-> "ticket", session |-> jti]
    BY <1>1
<1> QED
    BY <1>2 DEF Tickets

-----------------------------------------------------------------------------
(* The types *)

LEMMA InitTypeInv == Init => TypeInv
<1> SUFFICES ASSUME Init PROVE TypeInv
    OBVIOUS
<1>1. [role |-> "super_admin", password |-> Bootstrap] \in User
    BY AccountAssumption DEF User
<1>2. users \in [Users -> User \cup {None}]
    BY <1>1 DEF Init
<1>3. \A t \in Tasks : pc[t] = "idle" /\ tokens[t] = None /\ ws_tickets[t] = None
    BY DEF Init
<1>4. TypeOK
  <2>0. overlap \in BOOLEAN
    BY Zenon DEF Init
  <2>1. clock \in 0..MaxClock
    BY AccountAssumption DEF Init
  <2>2. login_attempts \in [Ips -> Attempts \cup {None}] /\ peak \in [Ips -> Nat]
    BY DEF Init
  <2>3. /\ tokens \in [Tasks -> Claims \cup {None}] /\ token_blacklist \subseteq Tasks
        /\ request \in [Tasks -> Asked \cup {None}] /\ row \in [Tasks -> User \cup {None}]
        /\ pc \in [Tasks -> Places]
    BY DEF Init, Places
  <2>4. /\ admitted \subseteq Tasks \X (0..MaxClock) /\ logged_out \in [Tasks -> (0..MaxClock) \cup {None}]
        /\ ws_tickets \in [Tasks -> (0..MaxClock) \cup {None}] /\ opened \subseteq Tasks \X Nat \X (0..MaxClock)
    BY DEF Init
  <2> QED
    BY <1>2, <1>3, <2>0, <2>1, <2>2, <2>3, <2>4 DEF TypeOK, Places
<1>5. Begun = {} /\ Registered \subseteq {Admin}
    BY <1>3 DEF Begun, Registered, Init
<1>6. IsFiniteSet(Begun) /\ IsFiniteSet(Registered)
    BY <1>5, FS_EmptySet, FS_Singleton, FS_Subset, Zenon
<1> QED
    BY <1>3, <1>4, <1>6 DEF TypeInv, TaskOK, TicketOK, Init

\* Rows are added and rewritten, never removed.
UsersKept ==
    /\ users' \in [Users -> User \cup {None}]
    /\ IsFiniteSet(Registered')
    /\ \A u \in Users : users[u] # None => users'[u] # None

LEMMA UsersSame ==
    ASSUME TypeInv, users' = users
    PROVE  UsersKept
BY DEF TypeInv, TypeOK, UsersKept, Registered

LEMMA UsersWritten ==
    ASSUME TypeInv, NEW u \in Users, NEW r \in User, users' = [users EXCEPT ![u] = r]
    PROVE  UsersKept
<1>1. users' \in [Users -> User \cup {None}]
    BY DEF TypeInv, TypeOK
<1>2. \A v \in Users : users[v] # None => users'[v] # None
    BY NoneNoUser DEF TypeInv, TypeOK
<1>3. Registered' \subseteq Registered \cup {u}
    BY DEF Registered, TypeInv, TypeOK
<1>4. IsFiniteSet(Registered \cup {u})
    BY FS_AddElement DEF TypeInv
<1> QED
    BY <1>1, <1>2, <1>3, <1>4, FS_Subset, Zenon DEF UsersKept

\* A task that has begun goes on; what it was asked stays.
Moves(t, label) ==
    /\ pc[t] \in {"check", "read", "verify", "count", "write"}
    /\ Goto(t, label)
    /\ UNCHANGED <<token_blacklist, request, clock, admitted, logged_out, ws>>

LEMMA MoveStep ==
    ASSUME TypeInv, NEW t \in Tasks, NEW label \in Places \ {"idle", "check"}, Moves(t, label), UsersKept,
           login_attempts' \in [Ips -> Attempts \cup {None}],
           peak' \in [Ips -> Nat], overlap' \in BOOLEAN, row' \in [Tasks -> User \cup {None}],
           TaskOK(t)',
           \/ tokens' = tokens
           \/ label = "done" /\ request[t].op = "login" /\ \E c \in Claims : tokens' = [tokens EXCEPT ![t] = c]
    PROVE  TypeInv'
<1>1. /\ pc' \in [Tasks -> Places] /\ pc' = [pc EXCEPT ![t] = label] /\ pc[t] \notin {"idle", "done"}
      /\ UNCHANGED <<token_blacklist, request, clock, admitted, logged_out, ws_tickets, opened>>
    BY DEF Moves, Goto, ws, TypeInv, TypeOK, Places
<1>2. \A s \in Tasks \ {t} : pc'[s] = pc[s]
    BY <1>1, Zenon
<1>3. tokens' \in [Tasks -> Claims \cup {None}]
    BY Zenon DEF TypeInv, TypeOK
<1>4. \A s \in Tasks : tokens'[s] # None => pc'[s] = "done" /\ request'[s].op = "login"
    BY <1>1, <1>2 DEF TypeInv, TypeOK
<1>5. TypeOK'
    BY <1>1, <1>3, <1>4, Zenon DEF TypeInv, TypeOK, Places, UsersKept
<1>6. Begun' = Begun
    BY <1>1, <1>2, Zenon DEF Begun, Places
<1>7. ASSUME NEW s \in Tasks PROVE TaskOK(s)' /\ TicketOK(s)'
  <2>1. TicketOK(s)'
    BY <1>1, <1>2 DEF TypeInv, TicketOK, Uses
  <2>2. CASE s # t
    <3>1. TaskOK(s) /\ pc'[s] = pc[s] /\ request'[s] = request[s]
      BY <1>1, <1>2, <2>2, Zenon DEF TypeInv
    <3>2. ASSUME pc[s] \in {"count", "write"}, request[s].op # "create" PROVE users'[request[s].user] # None
      BY <3>1, <3>2, ServedTypes, Zenon DEF TaskOK, UsersKept
    <3> QED
      BY <2>1, <3>1, <3>2 DEF TaskOK
  <2> QED
    BY <2>1, <2>2, Zenon
<1>8. \A o \in opened' : OpenedOK(o)'
    BY <1>1, <1>2 DEF TypeInv, OpenedOK
<1> QED
    BY <1>5, <1>6, <1>7, <1>8, Zenon DEF TypeInv, UsersKept

-----------------------------------------------------------------------------
(* login *)

\* What the steps of a login do to the state the others share.
LEMMA CheckRateEffect ==
    ASSUME TypeInv, NEW t \in Tasks, CheckRate(t)
    PROVE  /\ request[t] \in Served /\ request[t].op = "login" /\ request[t].ip \in Ips
           /\ \E label \in {"rejected", "read"} : Moves(t, label) /\ pc'[t] = label
           /\ login_attempts' \in [Ips -> Attempts \cup {None}]
           /\ peak' \in [Ips -> Nat]
           /\ UNCHANGED <<users, tokens, row, overlap>>
<1>1. pc[t] = "check" /\ request[t] \in Served /\ request[t].op = "login" /\ request[t].ip \in Ips
    BY ServedTypes DEF CheckRate, TypeInv, TaskOK
<1>2. \E label \in {"rejected", "read"} : Moves(t, label) /\ pc'[t] = label
    BY <1>1, Zenon DEF CheckRate, Moves, Goto, TypeInv, TypeOK
<1>3. [count |-> 0, window_start |-> clock] \in Attempts
    BY Zenon DEF Attempts, TypeInv, TypeOK
<1>4. login_attempts' \in [Ips -> Attempts \cup {None}]
    BY <1>1, <1>3, Zenon DEF CheckRate, TypeInv, TypeOK
<1>5. peak' \in [Ips -> Nat]
  <2>1. \E n \in {peak[request[t].ip], peak[request[t].ip] + 1} : peak' = [peak EXCEPT ![request[t].ip] = n]
    BY <1>1, Zenon DEF CheckRate
  <2> QED
    BY <1>1, <2>1 DEF TypeInv, TypeOK
<1> QED
    BY <1>1, <1>2, <1>4, <1>5, Zenon DEF CheckRate

LEMMA CheckRateType ==
    ASSUME TypeInv, NEW t \in Tasks, CheckRate(t)
    PROVE  TypeInv'
<1>1. PICK label \in {"rejected", "read"} : Moves(t, label) /\ pc'[t] = label
    BY CheckRateEffect
<1>2. label \in Places \ {"idle", "check"}
    BY Zenon DEF Places
<1>3. UsersKept /\ row' \in [Tasks -> User \cup {None}] /\ overlap' \in BOOLEAN
    BY CheckRateEffect, UsersSame, Zenon DEF TypeInv, TypeOK
<1>4. TaskOK(t)'
    BY <1>1, CheckRateEffect DEF TaskOK, Moves
<1> QED
    BY <1>1, <1>2, <1>3, <1>4, CheckRateEffect, MoveStep, Zenon

LEMMA ReadLoginType ==
    ASSUME TypeInv, NEW t \in Tasks, ReadLogin(t)
    PROVE  TypeInv'
<1>1. pc[t] = "read" /\ request[t] \in Served /\ request[t].op = "login" /\ request[t].user \in Users
    BY ServedTypes, Zenon DEF ReadLogin, TypeInv, TaskOK
<1>2. Moves(t, "verify") /\ pc'[t] = "verify"
    BY <1>1, Zenon DEF ReadLogin, Moves, Goto, history, TypeInv, TypeOK
<1>3. /\ row' \in [Tasks -> User \cup {None}] /\ login_attempts' \in [Ips -> Attempts \cup {None}]
      /\ peak' \in [Ips -> Nat] /\ overlap' \in BOOLEAN /\ tokens' = tokens
    BY <1>1 DEF ReadLogin, history, TypeInv, TypeOK
<1>4. UsersKept
    BY UsersSame, Zenon DEF ReadLogin
<1>5. TaskOK(t)'
    BY <1>1, <1>2 DEF TaskOK, Moves
<1>6. "verify" \in Places \ {"idle", "check"}
    BY DEF Places
<1> QED
    BY <1>2, <1>3, <1>4, <1>5, <1>6, MoveStep, Zenon

LEMMA RecordedType ==
    ASSUME TypeInv, NEW entry \in Attempts \cup {None}
    PROVE  Recorded(entry) \in Attempts
<1>1. clock \in 0..MaxClock
    BY DEF TypeInv, TypeOK
<1>2. CASE entry = None \/ Elapsed(entry.window_start)
    BY <1>1, <1>2 DEF Recorded, Attempts
<1>3. CASE ~(entry = None \/ Elapsed(entry.window_start))
  <2>1. entry \in Attempts /\ Recorded(entry) = [entry EXCEPT !.count = @ + 1]
    BY <1>3 DEF Recorded
  <2> QED
    BY <2>1 DEF Attempts
<1> QED
    BY <1>2, <1>3

LEMMA RecordType ==
    ASSUME TypeInv, NEW t \in Tasks, record_login_failure(t)
    PROVE  TypeInv'
<1>1. pc[t] = "verify" /\ request[t] \in Served /\ request[t].op = "login" /\ request[t].ip \in Ips
    BY ServedTypes DEF record_login_failure, TypeInv, TaskOK
<1>2. Moves(t, "rejected") /\ pc'[t] = "rejected"
    BY <1>1, Zenon DEF record_login_failure, Moves, Goto, history, TypeInv, TypeOK
<1>3. login_attempts' \in [Ips -> Attempts \cup {None}]
  <2>1. Recorded(login_attempts[request[t].ip]) \in Attempts
    BY <1>1, RecordedType, Zenon DEF TypeInv, TypeOK
  <2> QED
    BY <1>1, <2>1, Zenon DEF record_login_failure, TypeInv, TypeOK
<1>4. /\ row' \in [Tasks -> User \cup {None}]
      /\ peak' \in [Ips -> Nat] /\ overlap' \in BOOLEAN /\ tokens' = tokens
    BY DEF record_login_failure, history, TypeInv, TypeOK
<1>5. UsersKept
    BY UsersSame, Zenon DEF record_login_failure
<1>6. TaskOK(t)' /\ "rejected" \in Places \ {"idle", "check"}
    BY <1>1, <1>2 DEF TaskOK, Moves, Places
<1> QED
    BY <1>2, <1>3, <1>4, <1>5, <1>6, MoveStep, Zenon

LEMMA IssueType ==
    ASSUME TypeInv, NEW t \in Tasks, IssueToken(t)
    PROVE  TypeInv'
<1>1. pc[t] = "verify" /\ request[t] \in Served /\ request[t].op = "login" /\ request[t].user \in Users
    BY ServedTypes, Zenon DEF IssueToken, TypeInv, TaskOK
<1>2. Moves(t, "done") /\ pc'[t] = "done"
    BY <1>1 DEF IssueToken, Moves, Goto, history, TypeInv, TypeOK
<1>3. \E c \in Claims : tokens' = [tokens EXCEPT ![t] = c]
  <2>1. row[t] \in User /\ clock \in 0..MaxClock
    BY Zenon DEF IssueToken, Matches, TypeInv, TypeOK
  <2>2. [sub |-> request[t].user, role |-> row[t].role, iat |-> clock] \in Claims
    BY <1>1, <2>1 DEF Claims, User
  <2> QED
    BY <2>2, Zenon DEF IssueToken
<1>4. /\ row' \in [Tasks -> User \cup {None}] /\ login_attempts' \in [Ips -> Attempts \cup {None}]
      /\ peak' \in [Ips -> Nat] /\ overlap' \in BOOLEAN
    BY Zenon DEF IssueToken, history, TypeInv, TypeOK
<1>5. UsersKept
    BY UsersSame DEF IssueToken
<1>6. TaskOK(t)' /\ "done" \in Places \ {"idle", "check"}
    BY <1>1, <1>2 DEF TaskOK, Moves, Places
<1> QED
    BY <1>1, <1>2, <1>3, <1>4, <1>5, <1>6, MoveStep, Zenon

-----------------------------------------------------------------------------
(* Requests with a token *)

\* A task begins: it was idle, and has no token and no ticket.
Begins(t) ==
    /\ pc[t] = "idle" /\ pc' = [pc EXCEPT ![t] = pc'[t]]
    /\ request' = [request EXCEPT ![t] = request'[t]]
    /\ UNCHANGED <<users, login_attempts, tokens, token_blacklist, row, clock, peak, logged_out, overlap, opened>>

LEMMA BeginStep ==
    ASSUME TypeInv, NEW t \in Tasks, Begins(t), pc'[t] \in Places \ {"idle"},
           request'[t] \in Asked, TaskOK(t)', TicketOK(t)',
           admitted' \subseteq Tasks \X (0..MaxClock),
           ws_tickets' \in [Tasks -> (0..MaxClock) \cup {None}],
           \A k \in Tasks \ {t} : ws_tickets'[k] # None => ws_tickets'[k] = ws_tickets[k]
    PROVE  TypeInv'
<1>1. pc' \in [Tasks -> Places] /\ request' \in [Tasks -> Asked \cup {None}]
    BY DEF Begins, TypeInv, TypeOK, Places
<1>2. \A s \in Tasks \ {t} : pc'[s] = pc[s] /\ request'[s] = request[s]
    BY DEF Begins, TypeInv, TypeOK
<1>3. UNCHANGED <<users, login_attempts, tokens, token_blacklist, row, clock, peak, logged_out, overlap, opened>>
    BY DEF Begins
<1>4. tokens[t] = None
    BY Zenon DEF Begins, TypeInv, TypeOK
<1>5. TypeOK'
    BY <1>1, <1>2, <1>3, <1>4 DEF TypeInv, TypeOK, Places
<1>6. IsFiniteSet(Begun') /\ IsFiniteSet(Registered')
  <2>1. Begun' \subseteq Begun \cup {t}
    BY <1>2, Zenon DEF Begun
  <2>2. IsFiniteSet(Begun \cup {t})
    BY FS_AddElement DEF TypeInv
  <2>3. IsFiniteSet(Begun')
    BY <2>1, <2>2, FS_Subset
  <2> QED
    BY <1>3, <2>3, Zenon DEF Registered, TypeInv
<1>7. ASSUME NEW s \in Tasks, s # t PROVE TaskOK(s)' /\ TicketOK(s)'
  <2>1. TaskOK(s) /\ TicketOK(s) /\ pc'[s] = pc[s] /\ request'[s] = request[s]
    BY <1>2, <1>7, Zenon DEF TypeInv
  <2>2. TaskOK(s)'
    BY <1>3, <2>1, Zenon DEF TaskOK
  <2>3. TicketOK(s)'
    BY <1>3, <1>7, <2>1, Zenon DEF TicketOK, Uses
  <2> QED
    BY <2>2, <2>3
<1>8. \A o \in opened' : OpenedOK(o)'
  <2> SUFFICES ASSUME NEW o \in opened PROVE OpenedOK(o)'
    BY <1>3, Zenon
  <2>1. o[1] \in Tasks /\ OpenedOK(o)
    BY DEF TypeInv, TypeOK
  <2>2. o[1] # t
    BY <2>1 DEF OpenedOK, Begins
  <2> QED
    BY <1>2, <2>1, <2>2 DEF OpenedOK
<1> QED
    BY <1>5, <1>6, <1>7, <1>8, Zenon DEF TypeInv

LEMMA BeginLoginType ==
    ASSUME TypeInv, NEW t \in Tasks, NEW r \in Requests, BeginLogin(t, r)
    PROVE  TypeInv'
<1>1. Begins(t) /\ pc'[t] = "check" /\ request'[t] = r /\ r.op = "login" /\ UNCHANGED <<admitted, ws_tickets>>
    BY DEF BeginLogin, Begins, Goto, history, ws, TypeInv, TypeOK
<1>2. r \in Served /\ r \in Asked
    BY AccountAssumption DEF Served, Asked
<1>3. TaskOK(t)'
    BY <1>1, <1>2, Zenon DEF TaskOK
<1>4. ws_tickets[t] = None
    BY DEF TypeInv, TicketOK, BeginLogin
<1>5. TicketOK(t)'
    BY <1>1, <1>4, Zenon DEF TicketOK
<1>6. /\ admitted' \subseteq Tasks \X (0..MaxClock) /\ ws_tickets' \in [Tasks -> (0..MaxClock) \cup {None}]
      /\ pc'[t] \in Places \ {"idle"}
    BY <1>1, Zenon DEF TypeInv, TypeOK, Places
<1> QED
    BY <1>1, <1>2, <1>3, <1>5, <1>6, BeginStep, Zenon

\* Who the extractors let through holds a token.
LEMMA LetThrough ==
    ASSUME TypeInv, NEW jti \in Tasks, NEW op, Lets(jti, op) \/ AuthUser(jti)
    PROVE  /\ tokens[jti] \in Claims /\ tokens[jti] # None /\ jti \notin token_blacklist
           /\ clock <= tokens[jti].iat + ExpiryHours + Leeway
BY Zenon DEF Lets, AdminUser, AuthUser, Verifies, TypeInv, TypeOK

LEMMA WithTokenType ==
    ASSUME TypeInv, NEW t \in Tasks, NEW r \in Requests, NEW jti \in Tasks, BeginWithToken(t, r, jti)
    PROVE  TypeInv'
<1>1. /\ Begins(t) /\ pc'[t] = (IF r.op = "create" THEN "write" ELSE "read")
      /\ request'[t] = OfSession(r, tokens[jti].sub) /\ r.op \in {"role", "create", "password"}
      /\ admitted' = admitted \cup {<<jti, clock>>} /\ ws_tickets' = ws_tickets
    BY ZenonT(30) DEF BeginWithToken, Begins, Goto, ws, TypeInv, TypeOK
<1>2. tokens[jti].sub \in Users
    BY LetThrough, Zenon DEF BeginWithToken, Claims
<1>3. request'[t] \in Served /\ request'[t] \in Asked /\ request'[t].op = r.op
    BY <1>1, <1>2, OfSessionType DEF Served, Asked
<1>4. TaskOK(t)'
    BY <1>1, <1>3, Zenon DEF TaskOK
<1>5. ws_tickets[t] = None
    BY DEF TypeInv, TicketOK, BeginWithToken
<1>6. TicketOK(t)'
    BY <1>1, <1>5 DEF TicketOK
<1>7. /\ admitted' \subseteq Tasks \X (0..MaxClock) /\ ws_tickets' \in [Tasks -> (0..MaxClock) \cup {None}]
      /\ pc'[t] \in Places \ {"idle"}
  <2>1. admitted \subseteq Tasks \X (0..MaxClock)
    BY DEF TypeInv, TypeOK
  <2>2. admitted' \subseteq Tasks \X (0..MaxClock)
    BY <1>1, <2>1, ClockType
  <2> QED
    BY <1>1, <2>2, TicketsType, Zenon DEF Places
<1> QED
    BY <1>1, <1>3, <1>4, <1>6, <1>7, BeginStep

LEMMA IssueTicketType ==
    ASSUME TypeInv, NEW t \in Tasks, NEW r \in Requests, NEW jti \in Tasks, issue_ticket(t, r, jti)
    PROVE  TypeInv'
<1>1. /\ Begins(t) /\ pc'[t] = "done" /\ request'[t] = [r EXCEPT !.session = jti] /\ r.op = "ticket"
      /\ admitted' = admitted \cup {<<jti, clock>>}
    BY DEF issue_ticket, Begins, Goto, TypeInv, TypeOK
<1>2. request'[t] \in [op : {"ticket"}, session : Tasks] /\ request'[t] \in Served /\ request'[t] \in Asked
    BY <1>1, TicketType DEF Served, Asked
<1>3. TaskOK(t)'
    BY <1>1, <1>2 DEF TaskOK
<1>4. Uses(t)' = {}
    BY <1>1 DEF Uses, Begins, TypeInv, OpenedOK
<1>5. TicketOK(t)'
    BY <1>1, <1>2, <1>4, Zenon DEF TicketOK
<1>6. /\ admitted' \subseteq Tasks \X (0..MaxClock) /\ pc'[t] \in Places \ {"idle"}
      /\ ws_tickets' \in [Tasks -> (0..MaxClock) \cup {None}]
      /\ \A k \in Tasks \ {t} : ws_tickets'[k] # None => ws_tickets'[k] = ws_tickets[k]
    BY <1>1 DEF issue_ticket, TypeInv, TypeOK, Places
<1> QED
    BY <1>1, <1>2, <1>3, <1>5, <1>6, BeginStep, Zenon

\* What a logout, a use of a ticket and time leave alone.
Rests ==
    UNCHANGED <<users, login_attempts, tokens, request, pc, row, peak, admitted, overlap>>

LEMMA RestStep ==
    ASSUME TypeInv, Rests, clock' \in 0..MaxClock, token_blacklist' \subseteq Tasks,
           logged_out' \in [Tasks -> (0..MaxClock) \cup {None}],
           ws_tickets' \in [Tasks -> (0..MaxClock) \cup {None}],
           opened' \subseteq Tasks \X Nat \X (0..MaxClock),
           \A k \in Tasks : TicketOK(k)', \A o \in opened' : OpenedOK(o)'
    PROVE  TypeInv'
<1>1. TypeOK'
    BY DEF Rests, TypeInv, TypeOK
<1>2. \A t \in Tasks : TaskOK(t)'
    BY Zenon DEF Rests, TypeInv, TaskOK
<1>3. Begun' = Begun /\ Registered' = Registered
    BY DEF Rests, Begun, Registered
<1> QED
    BY <1>1, <1>2, <1>3, Zenon DEF TypeInv

LEMMA LogoutType ==
    ASSUME TypeInv, NEW jti \in Tasks, logout(jti)
    PROVE  TypeInv'
<1>1. Rests /\ UNCHANGED <<clock, ws_tickets, opened>>
    BY Zenon DEF logout, Rests, local, ws
<1>2. /\ clock' \in 0..MaxClock /\ token_blacklist' \subseteq Tasks
      /\ logged_out' \in [Tasks -> (0..MaxClock) \cup {None}]
      /\ ws_tickets' \in [Tasks -> (0..MaxClock) \cup {None}]
      /\ opened' \subseteq Tasks \X Nat \X (0..MaxClock)
    BY <1>1, Zenon DEF logout, TypeInv, TypeOK
<1>3. (\A k \in Tasks : TicketOK(k)') /\ \A o \in opened' : OpenedOK(o)'
    BY <1>1 DEF TypeInv, TicketOK, OpenedOK, Uses, Rests
<1> QED
    BY <1>1, <1>2, <1>3, RestStep

LEMMA TickType ==
    ASSUME TypeInv, Tick
    PROVE  TypeInv'
<1>1. Rests /\ UNCHANGED <<token_blacklist, logged_out, ws_tickets, opened>>
    BY DEF Tick, Rests, local, ws, history
<1>2. clock' \in 0..MaxClock
    BY ClockType, Limits DEF Tick
<1>3. /\ token_blacklist' \subseteq Tasks
      /\ logged_out' \in [Tasks -> (0..MaxClock) \cup {None}]
      /\ ws_tickets' \in [Tasks -> (0..MaxClock) \cup {None}]
      /\ opened' \subseteq Tasks \X Nat \X (0..MaxClock)
    BY <1>1, Zenon DEF TypeInv, TypeOK
<1>4. (\A k \in Tasks : TicketOK(k)') /\ \A o \in opened' : OpenedOK(o)'
    BY <1>1, Zenon DEF TypeInv, TicketOK, OpenedOK, Uses, Rests
<1> QED
    BY <1>1, <1>2, <1>3, <1>4, RestStep

\* The first use of a ticket is its only one: the number it gets is 1.
LEMMA UseEffect ==
    ASSUME TypeInv, NEW k \in Tasks, query_log_ws(k)
    PROVE  /\ Rests /\ UNCHANGED <<clock, token_blacklist, logged_out>>
           /\ ws_tickets' = [ws_tickets EXCEPT ![k] = None] /\ ws_tickets[k] # None
           /\ pc[k] = "done" /\ request[k] \in [op : {"ticket"}, session : Tasks]
           /\ \/ opened' = opened
              \/ opened' = opened \cup {<<k, 1, clock>>} /\ Fresh(ws_tickets[k])
<1>1. Rests /\ UNCHANGED <<clock, token_blacklist, logged_out>>
    BY Zenon DEF query_log_ws, Rests, local, history
<1>2. ws_tickets[k] # None /\ Uses(k) = {} /\ pc[k] = "done" /\ request[k] \in [op : {"ticket"}, session : Tasks]
    BY DEF query_log_ws, TypeInv, TicketOK
<1>3. Cardinality(Uses(k)) + 1 = 1
    BY <1>2, FS_EmptySet
<1>4. opened' = opened \/ (opened' = opened \cup {<<k, 1, clock>>} /\ Fresh(ws_tickets[k]))
    BY <1>3 DEF query_log_ws, Opens
<1> QED
    BY <1>1, <1>2, <1>4 DEF query_log_ws

LEMMA UseType ==
    ASSUME TypeInv, NEW k \in Tasks, query_log_ws(k)
    PROVE  TypeInv'
<1>1. /\ clock' \in 0..MaxClock /\ token_blacklist' \subseteq Tasks
      /\ logged_out' \in [Tasks -> (0..MaxClock) \cup {None}]
      /\ ws_tickets' \in [Tasks -> (0..MaxClock) \cup {None}]
    BY UseEffect, Zenon DEF TypeInv, TypeOK
<1>2. opened \subseteq Tasks \X Nat \X (0..MaxClock) /\ <<k, 1, clock>> \in Tasks \X Nat \X (0..MaxClock)
    BY Zenon DEF TypeInv, TypeOK
<1>3. opened' \subseteq Tasks \X Nat \X (0..MaxClock)
    BY <1>2, UseEffect
<1>4. opened' \subseteq opened \cup {<<k, 1, clock>>}
    BY UseEffect
<1>5. ASSUME NEW s \in Tasks PROVE TicketOK(s)'
  <2>1. CASE s = k
    BY <2>1, UseEffect, TicketsType DEF TicketOK
  <2>2. CASE s # k
    <3>1. TicketOK(s) /\ ws_tickets'[s] = ws_tickets[s]
      BY <2>2, UseEffect, TicketsType DEF TypeInv
    <3>2. Uses(s)' \subseteq Uses(s)
      BY <1>4, <2>2 DEF Uses
    <3> QED
      BY <3>1, <3>2, UseEffect, Zenon DEF TicketOK, Rests
  <2> QED
    BY <2>1, <2>2, Zenon
<1>6. ASSUME NEW o \in opened' PROVE OpenedOK(o)'
  <2>1. CASE o \in opened
    BY <2>1, UseEffect, Zenon DEF TypeInv, OpenedOK, Rests
  <2>2. CASE o = <<k, 1, clock>>
    BY <2>2, UseEffect, Zenon DEF OpenedOK, Rests
  <2> QED
    BY <1>4, <2>1, <2>2, Zenon
<1> QED
    BY <1>1, <1>3, <1>5, <1>6, UseEffect, RestStep, Zenon

-----------------------------------------------------------------------------
(* Steps of the user handlers *)

\* What these steps have in common; they write no role.
LEMMA UserStep ==
    ASSUME TypeInv, NEW t \in Tasks, NEW label \in Places \ {"idle", "check"}, Moves(t, label), UsersKept,
           UNCHANGED <<login_attempts, peak, tokens>>, overlap' \in BOOLEAN,
           row' \in [Tasks -> User \cup {None}], TaskOK(t)'
    PROVE  TypeInv'
<1>1. login_attempts' \in [Ips -> Attempts \cup {None}] /\ peak' \in [Ips -> Nat]
    BY DEF TypeInv, TypeOK
<1> QED
    BY <1>1, MoveStep, Zenon

LEMMA CreateType ==
    ASSUME TypeInv, NEW t \in Tasks, Create(t)
    PROVE  TypeInv'
<1>1. /\ pc[t] = "write" /\ request[t] \in Served /\ request[t].user \in Users
      /\ request[t].role \in Roles /\ request[t].password \in Passwords
    BY ServedTypes, Zenon DEF Create, TypeInv, TaskOK
<1>2. PICK label \in {"done", "rejected"} : Moves(t, label) /\ pc'[t] = label
    BY <1>1, Zenon DEF Create, Moves, Goto, history, TypeInv, TypeOK
<1>3. UsersKept
  <2>1. [role |-> request[t].role, password |-> request[t].password] \in User
    BY <1>1, Zenon DEF User
  <2> QED
    BY <1>1, <2>1, UsersSame, UsersWritten DEF Create
<1>4. UNCHANGED <<login_attempts, peak, tokens, row, overlap, request>>
    BY Zenon DEF Create, history
<1>5. row' \in [Tasks -> User \cup {None}] /\ overlap' \in BOOLEAN
    BY <1>4, Zenon DEF TypeInv, TypeOK
<1>6. TaskOK(t)' /\ label \in Places \ {"idle", "check"}
    BY <1>1, <1>2, <1>4, Zenon DEF TaskOK, Places
<1> QED
    BY <1>2, <1>3, <1>4, <1>5, <1>6, UserStep

LEMMA ReadPasswordType ==
    ASSUME TypeInv, NEW t \in Tasks, ReadPassword(t)
    PROVE  TypeInv'
<1>1. pc[t] = "read" /\ request[t] \in Served /\ request[t].op = "password" /\ request[t].user \in Users
    BY ServedTypes DEF ReadPassword, TypeInv, TaskOK
<1>2. PICK label \in {"write", "rejected"} :
          Moves(t, label) /\ pc'[t] = label /\ (label = "write" => users[request[t].user] # None)
    BY <1>1, Zenon DEF ReadPassword, Moves, Goto, history, TypeInv, TypeOK
<1>3. UsersKept
    BY UsersSame, Zenon DEF ReadPassword
<1>4. UNCHANGED <<users, login_attempts, peak, tokens, overlap, request>>
    BY Zenon DEF ReadPassword, history
<1>5. row' \in [Tasks -> User \cup {None}] /\ overlap' \in BOOLEAN
    BY <1>1, <1>4, Zenon DEF ReadPassword, TypeInv, TypeOK
<1>6. TaskOK(t)' /\ label \in Places \ {"idle", "check"}
    BY <1>1, <1>2, <1>4 DEF TaskOK, Places
<1> QED
    BY <1>2, <1>3, <1>4, <1>5, <1>6, UserStep, Zenon

LEMMA WritePasswordType ==
    ASSUME TypeInv, NEW t \in Tasks, WritePassword(t)
    PROVE  TypeInv'
<1>1. /\ pc[t] = "write" /\ request[t] \in Served /\ request[t].user \in Users
      /\ request[t].new \in Passwords /\ users[request[t].user] # None
    BY ServedTypes DEF WritePassword, TypeInv, TaskOK
<1>2. Moves(t, "done") /\ pc'[t] = "done"
    BY <1>1 DEF WritePassword, Moves, Goto, history, TypeInv, TypeOK
<1>3. UsersKept
  <2>1. users[request[t].user] \in User
    BY <1>1 DEF TypeInv, TypeOK
  <2>2. [users[request[t].user] EXCEPT !.password = request[t].new] \in User
    BY <1>1, <2>1, Zenon DEF User
  <2>3. users' = [users EXCEPT ![request[t].user] = [users[request[t].user] EXCEPT !.password = request[t].new]]
    BY <1>1 DEF WritePassword, TypeInv, TypeOK
  <2> QED
    BY <1>1, <2>2, <2>3, UsersWritten, ZenonT(30)
<1>4. UNCHANGED <<login_attempts, peak, tokens, row, overlap, request>>
    BY Zenon DEF WritePassword, history
<1>5. row' \in [Tasks -> User \cup {None}] /\ overlap' \in BOOLEAN
    BY <1>4, Zenon DEF TypeInv, TypeOK
<1>6. TaskOK(t)' /\ "done" \in Places \ {"idle", "check"}
    BY <1>1, <1>2, <1>4 DEF TaskOK, Places
<1> QED
    BY <1>2, <1>3, <1>4, <1>5, <1>6, UserStep, Zenon

LEMMA ReadRoleEffect ==
    ASSUME TypeInv, NEW t \in Tasks, ReadRole(t)
    PROVE  /\ request[t] \in Served /\ request[t].op = "role" /\ request[t].user \in Users /\ pc[t] = "read"
           /\ UNCHANGED <<users, login_attempts, peak, tokens, overlap, request>>
           /\ \/ Moves(t, "rejected") /\ pc'[t] = "rejected"
              \/ Moves(t, "count") /\ pc'[t] = "count" /\ users[request[t].user] # None
              \/ /\ Moves(t, "write") /\ pc'[t] = "write" /\ users[request[t].user] # None
                 /\ request[t].role = "super_admin" \/ users[request[t].user].role # "super_admin"
<1>1. pc[t] = "read" /\ request[t] \in Served /\ request[t].op = "role" /\ request[t].user \in Users
    BY ServedTypes DEF ReadRole, TypeInv, TaskOK
<1>2. UNCHANGED <<users, login_attempts, peak, tokens, overlap, request>>
    BY Zenon DEF ReadRole, history
<1>3. UNCHANGED <<token_blacklist, request, clock, admitted, logged_out, ws>>
    BY Zenon DEF ReadRole, history
<1>4. CASE users[request[t].user] = None
    BY <1>1, <1>2, <1>3, <1>4, Zenon DEF ReadRole, Moves, Goto, TypeInv, TypeOK
<1>5. CASE users[request[t].user] # None /\ users[request[t].user].role = "super_admin" /\ request[t].role # "super_admin"
    BY <1>1, <1>2, <1>3, <1>5 DEF ReadRole, Moves, Goto, TypeInv, TypeOK
<1>6. CASE users[request[t].user] # None /\ ~(users[request[t].user].role = "super_admin" /\ request[t].role # "super_admin")
    BY <1>1, <1>2, <1>3, <1>6, ZenonT(30) DEF ReadRole, Moves, Goto, TypeInv, TypeOK
<1> QED
    BY <1>4, <1>5, <1>6, Zenon

LEMMA ReadRoleType ==
    ASSUME TypeInv, NEW t \in Tasks, ReadRole(t)
    PROVE  TypeInv'
<1>1. PICK label \in {"rejected", "count", "write"} :
          Moves(t, label) /\ pc'[t] = label /\ (label # "rejected" => users[request[t].user] # None)
    BY ReadRoleEffect, Zenon
<1>2. UsersKept
    BY ReadRoleEffect, UsersSame
<1>3. row' \in [Tasks -> User \cup {None}] /\ overlap' \in BOOLEAN
    BY ReadRoleEffect, Zenon DEF ReadRole, TypeInv, TypeOK
<1>4. TaskOK(t)' /\ label \in Places \ {"idle", "check"}
    BY <1>1, ReadRoleEffect, Zenon DEF TaskOK, Places
<1> QED
    BY <1>1, <1>2, <1>3, <1>4, ReadRoleEffect, UserStep, Zenon

LEMMA CountType ==
    ASSUME TypeInv, NEW t \in Tasks, CountSuperAdmins(t)
    PROVE  TypeInv'
<1>1. pc[t] = "count" /\ request[t] \in Served /\ request[t].op = "role" /\ users[request[t].user] # None
    BY Zenon DEF CountSuperAdmins, TypeInv, TaskOK
<1>2. UNCHANGED <<users, login_attempts, peak, tokens, overlap, request, row>>
    BY DEF CountSuperAdmins, history
<1>3. PICK label \in {"rejected", "write"} : Moves(t, label) /\ pc'[t] = label
    BY <1>1, Zenon DEF CountSuperAdmins, Moves, Goto, history, TypeInv, TypeOK
<1>4. row' \in [Tasks -> User \cup {None}] /\ overlap' \in BOOLEAN
    BY <1>2, Zenon DEF TypeInv, TypeOK
<1>5. TaskOK(t)' /\ label \in Places \ {"idle", "check"}
    BY <1>1, <1>2, <1>3, Zenon DEF TaskOK, Places
<1> QED
    BY <1>2, <1>3, <1>4, <1>5, UsersSame, UserStep

LEMMA WriteRoleEffect ==
    ASSUME TypeInv, NEW t \in Tasks, WriteRole(t)
    PROVE  /\ pc[t] = "write" /\ request[t] \in Served /\ request[t].op = "role" /\ request[t].user \in Users
           /\ users[request[t].user] \in User
           /\ [users[request[t].user] EXCEPT !.role = request[t].role] \in User
           /\ users' = [users EXCEPT ![request[t].user] =
                           [users[request[t].user] EXCEPT !.role = request[t].role]]
           /\ UNCHANGED <<login_attempts, peak, tokens, request, row>>
           /\ Moves(t, "done") /\ pc'[t] = "done"
<1>1. /\ pc[t] = "write" /\ request[t] \in Served /\ request[t].op = "role" /\ request[t].user \in Users
      /\ request[t].role \in Roles /\ users[request[t].user] # None
    BY ServedTypes, Zenon DEF WriteRole, TypeInv, TaskOK
<1>2. users[request[t].user] \in User
    BY <1>1, Zenon DEF TypeInv, TypeOK
<1>3. [users[request[t].user] EXCEPT !.role = request[t].role] \in User
    BY <1>1, <1>2, Zenon DEF User
<1>4. users' = [users EXCEPT ![request[t].user] = [users[request[t].user] EXCEPT !.role = request[t].role]]
    BY <1>1, Zenon DEF WriteRole, TypeInv, TypeOK
<1>5. Moves(t, "done") /\ pc'[t] = "done"
    BY <1>1 DEF WriteRole, Moves, Goto, TypeInv, TypeOK
<1> QED
    BY <1>1, <1>2, <1>3, <1>4, <1>5 DEF WriteRole

LEMMA WriteRoleType ==
    ASSUME TypeInv, NEW t \in Tasks, WriteRole(t)
    PROVE  TypeInv'
<1>1. UsersKept
  <2> DEFINE u == request[t].user
             r == [users[u] EXCEPT !.role = request[t].role]
  <2>1. u \in Users /\ r \in User /\ users' = [users EXCEPT ![u] = r]
    BY WriteRoleEffect
  <2> HIDE DEF u, r
  <2> QED
    BY <2>1, UsersWritten, Zenon
<1>2. overlap' \in BOOLEAN
    BY DEF WriteRole
<1>3. row' \in [Tasks -> User \cup {None}]
    BY WriteRoleEffect, Zenon DEF TypeInv, TypeOK
<1>4. TaskOK(t)' /\ "done" \in Places \ {"idle", "check"}
    BY WriteRoleEffect, Zenon DEF TaskOK, Places
<1> QED
    BY <1>1, <1>2, <1>3, <1>4, WriteRoleEffect, UserStep, Zenon

LEMMA AbortType ==
    ASSUME TypeInv, NEW t \in Tasks, Abort(t)
    PROVE  TypeInv'
<1>1. UNCHANGED <<users, login_attempts, peak, tokens, overlap, request, row>>
    BY Zenon DEF Abort, history
<1>2. Moves(t, "rejected") /\ pc'[t] = "rejected"
    BY Zenon DEF Abort, Moves, Goto, history, TypeInv, TypeOK
<1>3. row' \in [Tasks -> User \cup {None}] /\ overlap' \in BOOLEAN
    BY <1>1, Zenon DEF TypeInv, TypeOK
<1>4. TaskOK(t)' /\ "rejected" \in Places \ {"idle", "check"}
    BY <1>1, <1>2 DEF TaskOK, Places, Moves, TypeInv
<1> QED
    BY <1>1, <1>2, <1>3, <1>4, UsersSame, UserStep, Zenon

LEMMA NextTypeInv == TypeInv /\ [Next]_vars => TypeInv'
<1> SUFFICES ASSUME TypeInv, [Next]_vars PROVE TypeInv'
    OBVIOUS
<1>1. ASSUME NEW t \in Tasks, Serve(t) PROVE TypeInv'
    BY <1>1, CheckRateType, ReadLoginType, RecordType, IssueType, CreateType, ReadPasswordType, WritePasswordType,
       ReadRoleType, CountType, WriteRoleType, AbortType, Zenon DEF Serve
<1>2. CASE UNCHANGED vars
  <2>1. Rests /\ UNCHANGED <<token_blacklist, logged_out, ws_tickets, opened, clock>>
    BY <1>2, Zenon DEF vars, Rests, local, ws, history
  <2>2. /\ clock' \in 0..MaxClock /\ token_blacklist' \subseteq Tasks
        /\ logged_out' \in [Tasks -> (0..MaxClock) \cup {None}]
        /\ ws_tickets' \in [Tasks -> (0..MaxClock) \cup {None}]
        /\ opened' \subseteq Tasks \X Nat \X (0..MaxClock)
    BY <2>1, Zenon DEF TypeInv, TypeOK
  <2>3. (\A k \in Tasks : TicketOK(k)') /\ \A o \in opened' : OpenedOK(o)'
    BY <2>1 DEF TypeInv, TicketOK, OpenedOK, Uses, Rests
  <2> QED
    BY <2>1, <2>2, <2>3, RestStep
<1> QED
    BY <1>1, <1>2, BeginLoginType, WithTokenType, LogoutType, IssueTicketType, UseType, TickType DEF Next

LEMMA SpecTypeInv == Spec => []TypeInv
BY InitTypeInv, NextTypeInv, PTL DEF Spec

\* The tables, the maps and the requests keep their types, however many requests
\* are served beside each other (auth.rs, users.rs, ws.rs).
THEOREM TypeCorrect == Spec => []TypeOK
<1>1. TypeInv => TypeOK
    BY DEF TypeInv
<1> QED
    BY <1>1, SpecTypeInv, PTL

-----------------------------------------------------------------------------
(* The rate limit *)

\* Logins past the check are at most as many as the peak says, and the failures
\* they would still add are accounted for.
RateOK(ip) ==
    /\ Cardinality(InFlight(ip)) <= peak[ip]
    /\ login_attempts[ip] # None =>
           login_attempts[ip].count + Cardinality(InFlight(ip)) < MAX_LOGIN_FAILURES + peak[ip]

RateInv == TypeInv /\ \A ip \in Ips : RateOK(ip)

LEMMA InFlightFinite ==
    ASSUME TypeInv, NEW ip \in Ips
    PROVE  IsFiniteSet(InFlight(ip)) /\ Cardinality(InFlight(ip)) \in Nat
<1>1. InFlight(ip) \subseteq Begun
    BY DEF InFlight, Begun
<1>2. IsFiniteSet(InFlight(ip))
    BY <1>1, FS_Subset DEF TypeInv
<1> QED
    BY <1>2, FS_CardinalityType

\* A step that lets nobody past the check and records no failure.
LEMMA RateKept ==
    ASSUME RateInv, NEW ip \in Ips, InFlight(ip)' \subseteq InFlight(ip),
           login_attempts'[ip] \in {login_attempts[ip], None}, peak'[ip] = peak[ip]
    PROVE  RateOK(ip)'
<1>1. IsFiniteSet(InFlight(ip)) /\ Cardinality(InFlight(ip)) \in Nat
    BY InFlightFinite DEF RateInv
<1>2. Cardinality(InFlight(ip)') \in Nat /\ Cardinality(InFlight(ip)') <= Cardinality(InFlight(ip))
    BY <1>1, FS_Subset, FS_CardinalityType, Zenon
<1>3. peak[ip] \in Nat /\ RateOK(ip)
    BY Zenon DEF RateInv, TypeInv, TypeOK
<1>4. CASE login_attempts'[ip] = None
    BY <1>1, <1>2, <1>3, <1>4 DEF RateOK
<1>5. CASE login_attempts'[ip] = login_attempts[ip] /\ login_attempts[ip] # None
  <2>1. login_attempts[ip].count \in Nat
    BY <1>5 DEF RateInv, TypeInv, TypeOK, Attempts
  <2> QED
    BY <1>1, <1>2, <1>3, <1>5, <2>1, Limits DEF RateOK
<1> QED
    BY <1>4, <1>5

LEMMA CheckRateOK ==
    ASSUME RateInv, NEW t \in Tasks, CheckRate(t), NEW ip \in Ips
    PROVE  RateOK(ip)'
<1>0. TypeInv
    BY DEF RateInv
<1>1. request[t].ip \in Ips /\ request' = request /\ pc[t] = "check" /\ request[t].op = "login"
    BY <1>0, CheckRateEffect, ZenonT(30) DEF CheckRate
<1>2. \A s \in Tasks \ {t} : pc'[s] = pc[s]
    BY <1>0, ZenonT(30) DEF CheckRate, Goto, TypeInv, TypeOK
<1>3. CASE ip # request[t].ip
  <2>1. InFlight(ip)' \subseteq InFlight(ip)
    BY <1>1, <1>2, <1>3 DEF InFlight
  <2>2. login_attempts'[ip] = login_attempts[ip] /\ peak'[ip] = peak[ip]
    BY <1>0, <1>1, <1>3, Zenon DEF CheckRate, TypeInv, TypeOK
  <2> QED
    BY <2>1, <2>2, RateKept, Zenon
<1>4. CASE ip = request[t].ip
  <2> DEFINE entry == login_attempts[ip]
             n == Cardinality(InFlight(ip))
  <2>0. n \in Nat /\ IsFiniteSet(InFlight(ip)) /\ peak[ip] \in Nat /\ entry \in Attempts \cup {None}
    BY <1>0, InFlightFinite, Zenon DEF TypeInv, TypeOK
  <2>1. CASE entry # None /\ TooMany(entry)
    <3>1. pc'[t] = "rejected" /\ login_attempts' = login_attempts
      BY <1>0, <1>4, <2>1 DEF CheckRate, Goto, TypeInv, TypeOK, TooMany
    <3>2. peak'[ip] = peak[ip]
      BY <1>0, <1>4, <3>1, Zenon DEF CheckRate, TypeInv, TypeOK
    <3>3. InFlight(ip)' \subseteq InFlight(ip)
      BY <1>1, <1>2, <3>1, Zenon DEF InFlight
    <3> QED
      BY <3>1, <3>2, <3>3, RateKept, Zenon
  <2>2. CASE ~(entry # None /\ TooMany(entry))
    <3>1. pc'[t] = "read"
      BY <1>0, <1>4, <2>2, Zenon DEF CheckRate, Goto, TypeInv, TypeOK
    <3>2. InFlight(ip)' = InFlight(ip) \cup {t} /\ t \notin InFlight(ip)
      BY <1>1, <1>2, <1>4, <3>1 DEF InFlight
    <3>3. Cardinality(InFlight(ip)') = n + 1
      BY <2>0, <3>2, FS_AddElement, Zenon
    <3>4. peak'[ip] = IF n >= peak[ip] THEN peak[ip] + 1 ELSE peak[ip]
      BY <1>0, <1>4, <3>1, Zenon DEF CheckRate, TypeInv, TypeOK
    <3>5. n + 1 <= peak'[ip] /\ peak'[ip] \in Nat
      <4>1. n <= peak[ip]
        BY DEF RateInv, RateOK
      <4>2. n \in Nat /\ peak[ip] \in Nat
        BY <2>0
      <4> HIDE DEF n
      <4>3. CASE n >= peak[ip]
        BY <3>4, <4>1, <4>2, <4>3
      <4>4. CASE ~(n >= peak[ip])
        BY <3>4, <4>2, <4>4
      <4> QED
        BY <4>3, <4>4
    <3>6. ASSUME login_attempts'[ip] # None
          PROVE  login_attempts'[ip].count \in Nat /\ login_attempts'[ip].count < MAX_LOGIN_FAILURES
      <4>1. CASE entry # None /\ Elapsed(entry.window_start)
        <5>1. login_attempts'[ip] = [count |-> 0, window_start |-> clock]
          BY <1>0, <1>4, <4>1, Zenon DEF CheckRate, TypeInv, TypeOK
        <5> QED
          BY <5>1, Limits
      <4>2. CASE ~(entry # None /\ Elapsed(entry.window_start))
        <5>1. login_attempts'[ip] = entry
          BY <1>4, <4>2, Zenon DEF CheckRate
        <5>2. entry \in Attempts /\ ~(entry.count >= MAX_LOGIN_FAILURES)
          BY <2>0, <2>2, <3>6, <4>2, <5>1, Zenon DEF TooMany
        <5> QED
          BY <5>1, <5>2, Limits DEF Attempts
      <4> QED
        BY <4>1, <4>2
    <3>7. Cardinality(InFlight(ip)') \in Nat /\ Cardinality(InFlight(ip)') <= peak'[ip] /\ peak'[ip] \in Nat
      BY <2>0, <3>3, <3>5
    <3>8. ASSUME login_attempts'[ip] # None
          PROVE  login_attempts'[ip].count + Cardinality(InFlight(ip)') < MAX_LOGIN_FAILURES + peak'[ip]
      <4>1. login_attempts'[ip].count \in Nat /\ login_attempts'[ip].count < MAX_LOGIN_FAILURES
        BY <3>6, <3>8, Zenon
      <4> QED
        BY <3>7, <4>1, Limits
    <3> QED
      BY <3>7, <3>8 DEF RateOK
  <2> QED
    BY <2>1, <2>2
<1> QED
    BY <1>3, <1>4

LEMMA RecordOK ==
    ASSUME RateInv, NEW t \in Tasks, record_login_failure(t), NEW ip \in Ips
    PROVE  RateOK(ip)'
<1>0. TypeInv
    BY DEF RateInv
<1>1. /\ request[t].ip \in Ips /\ request' = request /\ pc[t] = "verify" /\ request[t].op = "login"
      /\ pc'[t] = "rejected" /\ \A s \in Tasks \ {t} : pc'[s] = pc[s]
    BY <1>0, ServedTypes, Zenon DEF record_login_failure, Goto, TypeInv, TypeOK, TaskOK
<1>2. InFlight(ip)' = InFlight(ip) \ {t}
    BY <1>1 DEF InFlight
<1>3. peak'[ip] = peak[ip]
    BY Zenon DEF record_login_failure, history
<1>4. CASE ip # request[t].ip
  <2>1. login_attempts'[ip] = login_attempts[ip]
    BY <1>0, <1>4, Zenon DEF record_login_failure, TypeInv, TypeOK
  <2> QED
    BY <1>2, <1>3, <2>1, RateKept
<1>5. CASE ip = request[t].ip
  <2> DEFINE entry == login_attempts[ip]
             n == Cardinality(InFlight(ip))
  <2>0. n \in Nat /\ IsFiniteSet(InFlight(ip)) /\ peak[ip] \in Nat /\ entry \in Attempts \cup {None} /\ RateOK(ip)
    BY <1>0, InFlightFinite, Zenon DEF RateInv, TypeInv, TypeOK
  <2>1. t \in InFlight(ip)
    BY <1>1, <1>5 DEF InFlight
  <2>2. Cardinality(InFlight(ip)') = n - 1
    BY <1>2, <2>0, <2>1, FS_RemoveElement, ZenonT(30)
  <2>3. login_attempts'[ip] = Recorded(entry)
    BY <1>0, <1>1, <1>5, ZenonT(30) DEF record_login_failure, TypeInv, TypeOK
  <2>4. n <= peak[ip] /\ (entry # None => entry.count + n < MAX_LOGIN_FAILURES + peak[ip])
    BY <2>0, Zenon DEF RateOK
  <2>5. CASE entry = None \/ Elapsed(entry.window_start)
    <3>1. login_attempts'[ip].count = 1
      BY <2>3, <2>5 DEF Recorded
    <3>2. n \in Nat /\ peak[ip] \in Nat
      BY <2>0
    <3>3. Cardinality(InFlight(ip)') <= peak'[ip]
      <4> HIDE DEF n, entry
      <4> QED
        BY <1>3, <2>2, <2>4, <3>2
    <3>4. login_attempts'[ip].count + Cardinality(InFlight(ip)') < MAX_LOGIN_FAILURES + peak'[ip]
      <4> HIDE DEF n, entry
      <4> QED
        BY <1>3, <2>2, <2>4, <3>1, <3>2, Limits
    <3> QED
      BY <3>3, <3>4 DEF RateOK
  <2>6. CASE ~(entry = None \/ Elapsed(entry.window_start))
    <3>1. entry \in Attempts /\ login_attempts'[ip] = [entry EXCEPT !.count = @ + 1]
      BY <2>0, <2>3, <2>6 DEF Recorded
    <3>2. login_attempts'[ip].count = entry.count + 1 /\ entry.count \in Nat
      BY <3>1, Zenon DEF Attempts
    <3>3. n \in Nat /\ peak[ip] \in Nat /\ entry.count + n < MAX_LOGIN_FAILURES + peak[ip] /\ n <= peak[ip]
      BY <2>0, <2>4, <2>6, Zenon
    <3> HIDE DEF n, entry
    <3> QED
      BY <1>3, <2>2, <3>2, <3>3, Limits DEF RateOK
  <2> QED
    BY <2>5, <2>6
<1> QED
    BY <1>4, <1>5

LEMMA RateElsewhere ==
    ASSUME RateInv, NEW ip \in Ips,
           \/ \E t \in Tasks : \/ ReadLogin(t) \/ IssueToken(t) \/ Create(t) \/ ReadPassword(t) \/ WritePassword(t)
                               \/ ReadRole(t) \/ CountSuperAdmins(t) \/ WriteRole(t) \/ Abort(t)
           \/ \E t \in Tasks, r \in Requests : BeginLogin(t, r)
           \/ \E t, jti \in Tasks, r \in Requests : BeginWithToken(t, r, jti) \/ issue_ticket(t, r, jti)
           \/ \E k \in Tasks : logout(k) \/ query_log_ws(k)
           \/ Tick \/ UNCHANGED vars
    PROVE  RateOK(ip)'
<1>0. TypeInv
    BY DEF RateInv
<1>1. ASSUME NEW t \in Tasks, ReadLogin(t) \/ IssueToken(t) PROVE RateOK(ip)'
  <2>1. InFlight(ip)' \subseteq InFlight(ip)
    BY <1>0, <1>1, ZenonT(30) DEF InFlight, ReadLogin, IssueToken, Goto, TypeInv, TypeOK
  <2>2. login_attempts'[ip] \in {login_attempts[ip], None} /\ peak'[ip] = peak[ip]
    BY <1>0, <1>1, ZenonT(30) DEF ReadLogin, IssueToken, history, TypeInv, TypeOK
  <2> QED
    BY <2>1, <2>2, RateKept, ZenonT(30)
<1>2. ASSUME NEW t \in Tasks, \/ Create(t) \/ ReadPassword(t) \/ WritePassword(t)
                              \/ ReadRole(t) \/ CountSuperAdmins(t) \/ WriteRole(t) \/ Abort(t)
      PROVE  RateOK(ip)'
  <2>1. /\ request' = request /\ pc' = [pc EXCEPT ![t] = pc'[t]]
        /\ pc'[t] \in {"done", "rejected", "write", "count"} /\ UNCHANGED <<login_attempts, peak>>
    BY <1>0, <1>2, ZenonT(30) DEF Create, ReadPassword, WritePassword, ReadRole, CountSuperAdmins, WriteRole,
       Abort, Goto, history,
       TypeInv, TypeOK
  <2>2. InFlight(ip)' \subseteq InFlight(ip)
    BY <1>0, <2>1, ZenonT(30) DEF InFlight, TypeInv, TypeOK
  <2> QED
    BY <2>1, <2>2, RateKept, ZenonT(30)
<1>3. ASSUME NEW t \in Tasks, NEW r \in Requests, BeginLogin(t, r) PROVE RateOK(ip)'
  <2>1. /\ pc' = [pc EXCEPT ![t] = "check"] /\ request' = [request EXCEPT ![t] = r]
        /\ UNCHANGED <<login_attempts, peak>>
    BY <1>3 DEF BeginLogin, Goto, history
  <2>2. InFlight(ip)' \subseteq InFlight(ip)
    BY <1>0, <2>1, ZenonT(30) DEF InFlight, TypeInv, TypeOK
  <2> QED
    BY <2>1, <2>2, RateKept, Zenon
<1>4. ASSUME NEW t \in Tasks, NEW jti \in Tasks, NEW r \in Requests, BeginWithToken(t, r, jti) PROVE RateOK(ip)'
  <2>1. tokens[jti].sub \in Users
    BY <1>0, <1>4, LetThrough, ZenonT(30) DEF BeginWithToken, Claims
  <2>2. OfSession(r, tokens[jti].sub).op # "login"
    BY <1>4, <2>1, OfSessionType, ZenonT(30) DEF BeginWithToken
  <2>3. /\ \A s \in Tasks \ {t} : pc'[s] = pc[s] /\ request'[s] = request[s]
        /\ request'[t] = OfSession(r, tokens[jti].sub) /\ UNCHANGED <<login_attempts, peak>>
    BY <1>0, <1>4, ZenonT(30) DEF BeginWithToken, Goto, TypeInv, TypeOK
  <2>4. InFlight(ip)' \subseteq InFlight(ip)
    BY <2>2, <2>3, ZenonT(30) DEF InFlight
  <2> QED
    BY <2>3, <2>4, RateKept, ZenonT(30)
<1>5. ASSUME NEW t \in Tasks, NEW jti \in Tasks, NEW r \in Requests, issue_ticket(t, r, jti) PROVE RateOK(ip)'
  <2>1. /\ \A s \in Tasks \ {t} : pc'[s] = pc[s] /\ request'[s] = request[s]
        /\ pc'[t] = "done" /\ UNCHANGED <<login_attempts, peak>>
    BY <1>0, <1>5 DEF issue_ticket, Goto, TypeInv, TypeOK
  <2>2. InFlight(ip)' \subseteq InFlight(ip)
    BY <2>1, ZenonT(30) DEF InFlight
  <2> QED
    BY <2>1, <2>2, RateKept, Zenon
<1>6. ASSUME UNCHANGED <<login_attempts, peak, pc, request>> PROVE RateOK(ip)'
  <2>1. InFlight(ip)' \subseteq InFlight(ip)
    BY <1>6, Zenon DEF InFlight
  <2> QED
    BY <1>6, <2>1, RateKept, ZenonT(30)
<1>7. ASSUME NEW k \in Tasks, logout(k) \/ query_log_ws(k) PROVE RateOK(ip)'
    BY <1>6, <1>7, Zenon DEF logout, query_log_ws, local, history
<1>8. CASE Tick \/ UNCHANGED vars
    BY <1>6, <1>8 DEF Tick, vars, local, history
<1> QED
    BY <1>1, <1>2, <1>3, <1>4, <1>5, <1>7, <1>8, Zenon

LEMMA NextRate == RateInv /\ [Next]_vars => RateInv'
<1> SUFFICES ASSUME RateInv, [Next]_vars PROVE RateInv'
    OBVIOUS
<1>1. TypeInv'
    BY NextTypeInv, Zenon DEF RateInv
<1>2. ASSUME NEW ip \in Ips PROVE RateOK(ip)'
    BY CheckRateOK, RecordOK, RateElsewhere DEF Next, Serve
<1> QED
    BY <1>1, <1>2 DEF RateInv

\* For any number of logins beside each other: the failures counted for an
\* address stay below the limit plus the most logins that were ever past the
\* check and not yet judged (login, record_login_failure).
THEOREM RateCorrect == Spec => []FailuresBounded
<1>1. Init => RateInv
  <2> SUFFICES ASSUME Init PROVE RateInv
    OBVIOUS
  <2>1. ASSUME NEW ip \in Ips PROVE RateOK(ip)
    <3>1. InFlight(ip) = {} /\ login_attempts[ip] = None /\ peak[ip] = 0
      BY Zenon DEF Init, InFlight
    <3> QED
      BY <3>1, FS_EmptySet DEF RateOK
  <2> QED
    BY <2>1, InitTypeInv, Zenon DEF RateInv
<1>2. RateInv => FailuresBounded
  <2> SUFFICES ASSUME RateInv, NEW ip \in Ips, login_attempts[ip] # None
               PROVE  login_attempts[ip].count < MAX_LOGIN_FAILURES + peak[ip]
    BY Zenon DEF FailuresBounded
  <2>1. Cardinality(InFlight(ip)) \in Nat /\ peak[ip] \in Nat /\ login_attempts[ip].count \in Nat
    BY InFlightFinite, Zenon DEF RateInv, TypeInv, TypeOK, Attempts
  <2> QED
    BY <2>1, Limits DEF RateInv, RateOK
<1> QED
    BY <1>1, <1>2, NextRate, PTL DEF Spec

-----------------------------------------------------------------------------
(* Sessions and tickets *)

\* Every admission was made with a token while it was good.
AdmissionOK(a) ==
    /\ tokens[a[1]] # None /\ a[2] <= clock
    /\ a[2] <= tokens[a[1]].iat + ExpiryHours + Leeway
    /\ logged_out[a[1]] # None => a[2] <= logged_out[a[1]]

\* A session that was logged out is on the blacklist.
LogoutOK(j) == logged_out[j] # None => j \in token_blacklist /\ logged_out[j] <= clock

\* A ticket is not younger than the end of its session.
IssuedOK(k) ==
    ws_tickets[k] # None =>
        /\ ws_tickets[k] <= clock
        /\ logged_out[request[k].session] # None => ws_tickets[k] <= logged_out[request[k].session]

OpeningOK(o) ==
    /\ o[3] <= clock
    /\ logged_out[request[o[1]].session] # None => o[3] < logged_out[request[o[1]].session] + WS_TICKET_TTL

SessionInv ==
    /\ TypeInv
    /\ \A a \in admitted : AdmissionOK(a)
    /\ \A t \in Tasks : LogoutOK(t) /\ IssuedOK(t)
    /\ \A o \in opened : OpeningOK(o)

\* What the state of a ticket and of an admission is made of.
LEMMA SessionTypes ==
    ASSUME TypeInv
    PROVE  /\ clock \in Nat
           /\ \A a \in admitted : a[1] \in Tasks /\ a[2] \in Nat
           /\ \A t \in Tasks : /\ logged_out[t] # None => logged_out[t] \in Nat
                               /\ ws_tickets[t] # None => ws_tickets[t] \in Nat /\ request[t].session \in Tasks
                               /\ tokens[t] # None => tokens[t].iat \in Nat
           /\ \A o \in opened : o[1] \in Tasks /\ o[3] \in Nat /\ request[o[1]].session \in Tasks
<1>1. clock \in Nat
    BY ClockType
<1>2. \A a \in admitted : a[1] \in Tasks /\ a[2] \in Nat
  <2>1. admitted \subseteq Tasks \X (0..MaxClock)
    BY Zenon DEF TypeInv, TypeOK
  <2> QED
    BY <2>1, Limits
<1>3. ASSUME NEW t \in Tasks
      PROVE  /\ logged_out[t] # None => logged_out[t] \in Nat
             /\ ws_tickets[t] # None => ws_tickets[t] \in Nat /\ request[t].session \in Tasks
             /\ tokens[t] # None => tokens[t].iat \in Nat
  <2>1. logged_out[t] # None => logged_out[t] \in Nat
    <3>1. logged_out \in [Tasks -> (0..MaxClock) \cup {None}]
      BY DEF TypeInv, TypeOK
    <3> QED
      BY <3>1, Limits
  <2>2. ws_tickets[t] # None => ws_tickets[t] \in Nat
    BY TicketsType, Limits
  <2>3. ws_tickets[t] # None => request[t].session \in Tasks
    BY Zenon DEF TypeInv, TicketOK
  <2>4. tokens[t] # None => tokens[t].iat \in Nat
    <3>1. tokens \in [Tasks -> Claims \cup {None}]
      BY DEF TypeInv, TypeOK
    <3> QED
      BY <3>1, Limits DEF Claims
  <2> QED
    BY <2>1, <2>2, <2>3, <2>4
<1>4. \A o \in opened : o[1] \in Tasks /\ o[3] \in Nat
  <2>1. opened \subseteq Tasks \X Nat \X (0..MaxClock)
    BY DEF TypeInv, TypeOK
  <2> QED
    BY <2>1, Limits
<1>5. \A o \in opened : request[o[1]].session \in Tasks
    BY DEF TypeInv, OpenedOK
<1> QED
    BY <1>1, <1>2, <1>3, <1>4, <1>5

\* Tokens are not touched again, and a request that is done keeps its session.
Lasting ==
    /\ clock' \in Nat /\ clock <= clock'
    /\ \A t \in Tasks : tokens[t] # None => tokens'[t] = tokens[t]
    /\ \A t \in Tasks : pc[t] = "done" => request'[t] = request[t]

LEMMA ServeLasting ==
    ASSUME TypeInv, NEW t \in Tasks, Serve(t)
    PROVE  Lasting /\ UNCHANGED <<clock, token_blacklist, admitted, logged_out, ws_tickets, opened>>
<1>1. UNCHANGED <<clock, request, token_blacklist, admitted, logged_out, ws_tickets, opened>>
    BY DEF Serve, CheckRate, ReadLogin, record_login_failure, IssueToken, Create, ReadPassword, WritePassword,
       ReadRole,
       CountSuperAdmins, WriteRole, Abort, history, ws
<1>2. clock' = clock /\ clock \in Nat /\ request' = request
    BY <1>1, ClockType, Zenon
<1>3. \A s \in Tasks : tokens[s] # None => tokens'[s] = tokens[s]
  <2>1. CASE IssueToken(t)
    <3>1. tokens[t] = None /\ \A s \in Tasks \ {t} : tokens'[s] = tokens[s]
      BY <2>1 DEF IssueToken, TypeInv, TypeOK
    <3> QED
      BY <3>1, Zenon
  <2>2. CASE tokens' = tokens
    BY <2>2, Zenon
  <2> QED
    BY <2>1, <2>2 DEF Serve, CheckRate, ReadLogin, record_login_failure, Create, ReadPassword, WritePassword,
       ReadRole, CountSuperAdmins, WriteRole, Abort
<1>4. Lasting
    BY <1>2, <1>3 DEF Lasting
<1> QED
    BY <1>1, <1>4, Zenon

LEMMA BeginLasting ==
    ASSUME TypeInv, NEW t \in Tasks, Begins(t)
    PROVE  Lasting
<1>1. clock' = clock /\ tokens' = tokens
    BY DEF Begins
<1>2. \A s \in Tasks \ {t} : request'[s] = request[s]
    BY TaskTypes, Zenon DEF Begins
<1>3. \A s \in Tasks : pc[s] = "done" => request'[s] = request[s]
    BY <1>2 DEF Begins
<1>4. clock' \in Nat /\ clock <= clock'
    BY <1>1, ClockType
<1> QED
    BY <1>1, <1>3, <1>4, Zenon DEF Lasting

LEMMA RestLasting ==
    ASSUME TypeInv, Rests, clock' \in Nat, clock <= clock'
    PROVE  Lasting
BY Zenon DEF Rests, Lasting

LEMMA SessionKept ==
    ASSUME SessionInv, TypeInv', Lasting, token_blacklist \subseteq token_blacklist'
    PROVE  /\ \A a \in admitted : logged_out'[a[1]] = logged_out[a[1]] => AdmissionOK(a)'
           /\ \A t \in Tasks : logged_out'[t] = logged_out[t] => LogoutOK(t)'
           /\ logged_out' = logged_out =>
                  /\ \A t \in Tasks : ws_tickets'[t] = ws_tickets[t] => IssuedOK(t)'
                  /\ \A o \in opened : OpeningOK(o)'
<1>0. TypeInv
    BY Zenon DEF SessionInv
<1>1. ASSUME NEW a \in admitted, logged_out'[a[1]] = logged_out[a[1]] PROVE AdmissionOK(a)'
  <2>1. AdmissionOK(a) /\ a[1] \in Tasks /\ a[2] \in Nat /\ clock \in Nat
    BY <1>0, SessionTypes, Zenon DEF SessionInv
  <2>2. tokens'[a[1]] = tokens[a[1]]
    BY <2>1, Zenon DEF AdmissionOK, Lasting
  <2>3. a[2] <= clock'
    BY <2>1 DEF AdmissionOK, Lasting
  <2>4. ExpiryHours' = ExpiryHours
    BY DEF ExpiryHours
  <2> QED
    BY <1>1, <2>1, <2>2, <2>3, <2>4, Zenon DEF AdmissionOK
<1>2. ASSUME NEW t \in Tasks, logged_out'[t] = logged_out[t] PROVE LogoutOK(t)'
  <2>1. LogoutOK(t) /\ clock \in Nat /\ (logged_out[t] # None => logged_out[t] \in Nat)
    BY <1>0, SessionTypes, Zenon DEF SessionInv
  <2> QED
    BY <1>2, <2>1 DEF LogoutOK, Lasting
<1>3. ASSUME NEW t \in Tasks, ws_tickets'[t] = ws_tickets[t], logged_out' = logged_out PROVE IssuedOK(t)'
  <2>1. IssuedOK(t) /\ clock \in Nat /\ (ws_tickets[t] # None => ws_tickets[t] \in Nat)
    BY <1>0, SessionTypes, Zenon DEF SessionInv
  <2>2. ws_tickets[t] # None => request'[t] = request[t]
    BY <1>0, Zenon DEF TypeInv, TicketOK, Lasting
  <2> QED
    BY <1>3, <2>1, <2>2 DEF IssuedOK, Lasting
<1>4. ASSUME NEW o \in opened, logged_out' = logged_out PROVE OpeningOK(o)'
  <2>1. OpeningOK(o) /\ clock \in Nat /\ o[1] \in Tasks /\ o[3] \in Nat
    BY <1>0, SessionTypes, Zenon DEF SessionInv
  <2>2. request'[o[1]] = request[o[1]]
    BY <1>0, <2>1, Zenon DEF TypeInv, OpenedOK, Lasting
  <2>3. clock' \in Nat /\ clock <= clock'
    BY Zenon DEF Lasting
  <2>4. o[3] <= clock'
    BY <2>1, <2>3 DEF OpeningOK
  <2> QED
    BY <1>4, <2>1, <2>2, <2>4, Zenon DEF OpeningOK
<1> QED
    BY <1>1, <1>2, <1>3, <1>4

\* A step that admits nobody, ends no session and uses no ticket.
LEMMA SessionSame ==
    ASSUME SessionInv, TypeInv', Lasting, UNCHANGED <<token_blacklist, admitted, logged_out, ws_tickets, opened>>
    PROVE  SessionInv'
BY SessionKept, Zenon DEF SessionInv

\* A token that an extractor lets through now.
LEMMA Admission ==
    ASSUME SessionInv, TypeInv', Lasting, NEW jti \in Tasks, NEW op, Lets(jti, op) \/ AuthUser(jti),
           UNCHANGED <<clock, token_blacklist, logged_out>>
    PROVE  AdmissionOK(<<jti, clock>>)' /\ logged_out[jti] = None
<1>0. TypeInv
    BY Zenon DEF SessionInv
<1>1. tokens[jti] # None /\ jti \notin token_blacklist /\ clock <= tokens[jti].iat + ExpiryHours + Leeway
    BY <1>0, LetThrough, Zenon
<1>2. tokens'[jti] = tokens[jti] /\ clock' = clock /\ ExpiryHours' = ExpiryHours
    BY <1>1 DEF Lasting, ExpiryHours
<1>3. logged_out[jti] = None
    BY <1>1, Zenon DEF SessionInv, LogoutOK
<1>4. clock \in Nat
    BY <1>0, ClockType
<1>5. logged_out'[jti] = None
    BY <1>3, Zenon
<1>6. tokens'[jti] # None /\ clock <= clock' /\ clock <= tokens'[jti].iat + ExpiryHours' + Leeway
    BY <1>1, <1>2, <1>4
<1>7. <<jti, clock>>[1] = jti /\ <<jti, clock>>[2] = clock
    OBVIOUS
<1> QED
    BY <1>3, <1>5, <1>6, <1>7 DEF AdmissionOK

LEMMA WithTokenSession ==
    ASSUME SessionInv, TypeInv', NEW t \in Tasks, NEW r \in Requests, NEW jti \in Tasks, BeginWithToken(t, r, jti)
    PROVE  SessionInv'
<1>0. TypeInv
    BY Zenon DEF SessionInv
<1>1. /\ Begins(t) /\ Lets(jti, r.op) /\ admitted' = admitted \cup {<<jti, clock>>}
      /\ UNCHANGED <<clock, token_blacklist, logged_out, ws_tickets, opened>>
    BY <1>0, TaskTypes DEF BeginWithToken, Begins, Goto, ws
<1>2. Lasting
    BY <1>0, <1>1, BeginLasting, Zenon
<1>3. AdmissionOK(<<jti, clock>>)'
    BY <1>1, <1>2, Admission
<1>4. \A a \in admitted' : AdmissionOK(a)'
    BY <1>1, <1>2, <1>3, SessionKept, Zenon
<1> QED
    BY <1>1, <1>2, <1>4, SessionKept, Zenon DEF SessionInv

LEMMA IssueTicketSession ==
    ASSUME SessionInv, TypeInv', NEW t \in Tasks, NEW r \in Requests, NEW jti \in Tasks, issue_ticket(t, r, jti)
    PROVE  SessionInv'
<1>0. TypeInv
    BY DEF SessionInv
<1>1. /\ Begins(t) /\ AuthUser(jti) /\ r.op = "ticket" /\ admitted' = admitted \cup {<<jti, clock>>}
      /\ request'[t] = [r EXCEPT !.session = jti]
      /\ UNCHANGED <<clock, token_blacklist, logged_out, opened>>
    BY <1>0 DEF issue_ticket, Begins, Goto, TypeInv, TypeOK
<1>2. Lasting
    BY <1>0, <1>1, BeginLasting
<1>3. AdmissionOK(<<jti, clock>>)' /\ logged_out[jti] = None
    BY <1>1, <1>2, Admission, Zenon
<1>4. \A a \in admitted' : AdmissionOK(a)'
    BY <1>1, <1>2, <1>3, SessionKept, Zenon
<1>5. ASSUME NEW k \in Tasks PROVE IssuedOK(k)'
  <2>1. CASE k = t
    <3>1. request'[t].session = jti /\ ws_tickets'[t] = clock
      BY <1>1, TicketType DEF issue_ticket
    <3>2. clock \in Nat
      BY <1>0, SessionTypes
    <3>3. logged_out'[jti] = None /\ clock' = clock
      BY <1>1, <1>3
    <3> QED
      BY <2>1, <3>1, <3>2, <3>3 DEF IssuedOK
  <2>2. CASE k # t /\ ws_tickets'[k] = ws_tickets[k]
    BY <1>1, <1>2, <2>2, SessionKept, Zenon
  <2>3. CASE k # t /\ ws_tickets'[k] = None
    BY <2>3, Zenon DEF IssuedOK
  <2> QED
    BY <2>1, <2>2, <2>3, Zenon DEF issue_ticket
<1> QED
    BY <1>1, <1>2, <1>4, <1>5, SessionKept, Zenon DEF SessionInv

\* What ends now ends after every admission with it, every ticket and every use.
LEMMA LogoutSession ==
    ASSUME SessionInv, TypeInv', NEW jti \in Tasks, logout(jti)
    PROVE  SessionInv'
<1>0. TypeInv /\ clock \in Nat
    BY SessionTypes, ZenonT(30) DEF SessionInv
<1>1. /\ Rests /\ UNCHANGED <<clock, ws_tickets, opened>> /\ token_blacklist' = token_blacklist \cup {jti}
      /\ logged_out' = [logged_out EXCEPT ![jti] = clock] /\ logged_out \in [Tasks -> (0..MaxClock) \cup {None}]
    BY <1>0, Zenon DEF logout, Rests, local, ws, TypeInv, TypeOK
<1>2. logged_out'[jti] = clock /\ \A j \in Tasks \ {jti} : logged_out'[j] = logged_out[j]
    BY <1>1
<1>3. Lasting
    BY <1>0, <1>1, RestLasting
<1>4. ASSUME NEW a \in admitted PROVE AdmissionOK(a)'
  <2>1. a[1] \in Tasks /\ a[2] \in Nat /\ AdmissionOK(a)
    BY <1>0, SessionTypes DEF SessionInv
  <2>2. CASE a[1] # jti
    BY <1>1, <1>2, <1>3, <2>1, <2>2, SessionKept, Zenon
  <2>3. CASE a[1] = jti
    <3>1. UNCHANGED <<tokens, ExpiryHours>>
      BY <1>1 DEF Rests, ExpiryHours
    <3> QED
      BY <1>1, <1>2, <2>1, <2>3, <3>1, Zenon DEF AdmissionOK
  <2> QED
    BY <2>2, <2>3, Zenon
<1>5. ASSUME NEW t \in Tasks PROVE LogoutOK(t)' /\ IssuedOK(t)'
  <2>1. LogoutOK(t)'
    <3>1. CASE t # jti
      BY <1>1, <1>2, <1>3, <3>1, SessionKept, Zenon
    <3>2. CASE t = jti
      BY <1>0, <1>1, <1>2, <3>2 DEF LogoutOK
    <3> QED
      BY <3>1, <3>2, Zenon
  <2>2. IssuedOK(t) /\ (ws_tickets[t] # None => ws_tickets[t] \in Nat /\ request[t].session \in Tasks)
    BY <1>0, SessionTypes, Zenon DEF SessionInv
  <2>3. IssuedOK(t)'
    BY <1>0, <1>1, <1>2, <2>2, Zenon DEF IssuedOK, Rests
  <2> QED
    BY <2>1, <2>3
<1>6. ASSUME NEW o \in opened PROVE OpeningOK(o)'
  <2>1. OpeningOK(o) /\ o[3] \in Nat /\ request[o[1]].session \in Tasks
    BY <1>0, SessionTypes, Zenon DEF SessionInv
  <2>2. o[3] < clock + WS_TICKET_TTL
    BY <1>0, <2>1, Limits DEF OpeningOK
  <2> QED
    BY <1>0, <1>1, <1>2, <2>1, <2>2, Zenon DEF OpeningOK, Rests
<1> QED
    BY <1>1, <1>4, <1>5, <1>6 DEF SessionInv, Rests

LEMMA UseSession ==
    ASSUME SessionInv, TypeInv', NEW k \in Tasks, query_log_ws(k)
    PROVE  SessionInv'
<1>0. TypeInv /\ clock \in Nat
    BY SessionTypes, Zenon DEF SessionInv
<1>1. Lasting /\ UNCHANGED <<clock, token_blacklist, logged_out, admitted>>
  <2>1. Rests /\ UNCHANGED <<clock, token_blacklist, logged_out, admitted>>
    BY <1>0, UseEffect, Zenon DEF Rests
  <2> QED
    BY <1>0, <2>1, RestLasting
<1>2. ASSUME NEW t \in Tasks PROVE IssuedOK(t)'
  <2>1. CASE t = k
    BY <1>0, <2>1, UseEffect, TicketsType, Zenon DEF IssuedOK
  <2>2. CASE t # k
    <3>1. ws_tickets'[t] = ws_tickets[t]
      BY <1>0, <2>2, UseEffect, TicketsType, Zenon
    <3> QED
      BY <1>1, <3>1, SessionKept, Zenon
  <2> QED
    BY <2>1, <2>2, Zenon
<1>3. ASSUME NEW o \in opened' PROVE OpeningOK(o)'
  <2>1. CASE o \in opened
    BY <1>1, <2>1, SessionKept, Zenon
  <2>2. CASE o \notin opened
    <3>1. o = <<k, 1, clock>> /\ Fresh(ws_tickets[k]) /\ request' = request
      BY <1>0, <2>2, UseEffect DEF Rests
    <3>2. IssuedOK(k) /\ ws_tickets[k] # None /\ ws_tickets[k] \in Nat /\ request[k].session \in Tasks
      BY <1>0, UseEffect, SessionTypes, Zenon DEF SessionInv
    <3>3. clock < ws_tickets[k] + WS_TICKET_TTL
      BY <1>0, <3>1, <3>2, Limits DEF Fresh
    <3>4. logged_out[request[k].session] # None =>
              logged_out[request[k].session] \in Nat /\ clock < logged_out[request[k].session] + WS_TICKET_TTL
      <4> SUFFICES ASSUME logged_out[request[k].session] # None
                   PROVE  /\ logged_out[request[k].session] \in Nat
                          /\ clock < logged_out[request[k].session] + WS_TICKET_TTL
        BY Zenon
      <4>1. logged_out[request[k].session] \in Nat
        BY <1>0, <3>2, SessionTypes, Zenon
      <4>2. ws_tickets[k] <= logged_out[request[k].session]
        <5>1. ws_tickets[k] # None /\ IssuedOK(k)
          BY <3>2, Zenon
        <5> QED
          BY <5>1, Zenon DEF IssuedOK
      <4>3. ws_tickets[k] \in Nat /\ clock \in Nat
        BY <1>0, <3>2, ClockType, Zenon
      <4>4. \A x, y, z, w \in Nat : x < y + w /\ y <= z => x < z + w
        OBVIOUS
      <4> QED
        BY <3>3, <4>1, <4>2, <4>3, <4>4, Limits, Zenon
    <3> QED
      BY <1>0, <1>1, <3>1, <3>4 DEF OpeningOK
  <2> QED
    BY <2>1, <2>2
<1> QED
    BY <1>1, <1>2, <1>3, SessionKept, ZenonT(30) DEF SessionInv

LEMMA NextSession == SessionInv /\ [Next]_vars => SessionInv'
<1> SUFFICES ASSUME SessionInv, [Next]_vars PROVE SessionInv'
    OBVIOUS
<1>0. TypeInv /\ TypeInv'
    BY NextTypeInv DEF SessionInv
<1>1. ASSUME NEW t \in Tasks, Serve(t) PROVE SessionInv'
  <2>1. Lasting /\ UNCHANGED <<token_blacklist, admitted, logged_out, ws_tickets, opened>>
    BY <1>0, <1>1, ServeLasting
  <2> QED
    BY <1>0, <2>1, SessionSame
<1>2. ASSUME NEW t \in Tasks, NEW r \in Requests, BeginLogin(t, r) PROVE SessionInv'
  <2>1. Begins(t) /\ UNCHANGED <<token_blacklist, admitted, logged_out, ws_tickets, opened>>
    BY <1>0, <1>2, ZenonT(30) DEF BeginLogin, Begins, Goto, history, ws, TypeInv, TypeOK
  <2> QED
    BY <1>0, <2>1, BeginLasting, SessionSame
<1>3. CASE Tick \/ UNCHANGED vars
  <2>1. Rests /\ UNCHANGED <<token_blacklist, admitted, logged_out, ws_tickets, opened>>
    BY <1>3 DEF Tick, vars, Rests, local, ws, history
  <2>2. clock' \in Nat /\ clock <= clock'
    BY <1>0, <1>3, SessionTypes DEF Tick, vars
  <2> QED
    BY <1>0, <2>1, <2>2, RestLasting, SessionSame
<1> QED
    BY <1>0, <1>1, <1>2, <1>3, WithTokenSession, IssueTicketSession, LogoutSession, UseSession, Zenon DEF Next

LEMMA SpecSession == Spec => []SessionInv
<1>1. Init => SessionInv
    BY InitTypeInv, Zenon DEF Init, SessionInv, LogoutOK, IssuedOK
<1> QED
    BY <1>1, NextSession, PTL DEF Spec

\* For any expiry in the configuration file: no request gets past the extractors
\* with a token older than 168 hours and the tolerance, or after a logout with it
\* was answered (AuthUser, logout).
THEOREM SessionsCorrect == Spec => []AdmittedSessionsLive
<1>1. SessionInv => AdmittedSessionsLive
  <2> SUFFICES ASSUME SessionInv, NEW a \in admitted
               PROVE  /\ a[2] <= tokens[a[1]].iat + MAX_EXPIRY_HOURS + Leeway
                      /\ logged_out[a[1]] # None => a[2] <= logged_out[a[1]]
    BY DEF AdmittedSessionsLive
  <2>1. a[1] \in Tasks /\ a[2] \in Nat /\ tokens[a[1]].iat \in Nat
    BY SessionTypes DEF SessionInv, AdmissionOK
  <2>2. AdmissionOK(a)
    BY DEF SessionInv
  <2> QED
    BY <2>1, <2>2, ExpiryCapped, Limits DEF AdmissionOK
<1> QED
    BY <1>1, SpecSession, PTL

\* A ticket opens one WebSocket, and none once WS_TICKET_TTL has passed since the
\* logout of its session (issue_ticket, query_log_ws).
THEOREM TicketsCorrect == Spec => []TicketsOpenOnce
<1>1. SessionInv => TicketsOpenOnce
    BY DEF SessionInv, TypeInv, OpenedOK, OpeningOK, TicketsOpenOnce
<1> QED
    BY <1>1, SpecSession, PTL

-----------------------------------------------------------------------------
(* The last super_admin *)

\* Whoever is about to write a role leaves a super_admin behind.
Safe(t) == request[t].role = "super_admin" \/ \E u \in SuperAdmins : u # request[t].user

RoleInv ==
    /\ TypeInv
    /\ ~overlap => /\ SuperAdmins # {}
                   /\ \A t \in Tasks : pc[t] = "write" /\ request[t].op = "role" => Safe(t)

\* A step that demotes nobody and lets nobody go on to write a role.
LEMMA RoleKept ==
    ASSUME RoleInv, TypeInv', overlap' = overlap, SuperAdmins \subseteq SuperAdmins',
           \A t \in Tasks : (pc'[t] = "write" /\ request'[t].op = "role") =>
               Safe(t)' \/ (pc[t] = "write" /\ request'[t] = request[t])
    PROVE  RoleInv'
BY DEF RoleInv, Safe

LEMMA SuperAdminsSame ==
    ASSUME users' = users
    PROVE  SuperAdmins' = SuperAdmins
BY DEF SuperAdmins

LEMMA CountLeavesOne ==
    ASSUME TypeInv, NEW u, ~(Cardinality(SuperAdmins) <= 1)
    PROVE  \E v \in SuperAdmins : v # u
<1> SUFFICES ASSUME SuperAdmins \subseteq {u} PROVE FALSE
    OBVIOUS
<1>1. Cardinality({u}) = 1 /\ IsFiniteSet({u})
    BY FS_Singleton, Zenon
<1>2. Cardinality(SuperAdmins) <= 1
    BY <1>1, FS_Subset
<1> QED
    BY <1>2

LEMMA ServeRole ==
    ASSUME RoleInv, TypeInv', NEW t \in Tasks, Serve(t)
    PROVE  RoleInv'
<1>0. TypeInv
    BY Zenon DEF RoleInv
<1>1. request' = request /\ \A s \in Tasks \ {t} : pc'[s] = pc[s]
    BY <1>0, Zenon DEF Serve, CheckRate, ReadLogin, record_login_failure, IssueToken, Create, ReadPassword,
       WritePassword,
       ReadRole, CountSuperAdmins, WriteRole, Abort, Goto, TypeInv, TypeOK
<1>2. ASSUME SuperAdmins \subseteq SuperAdmins', overlap' = overlap,
             (pc'[t] = "write" /\ request[t].op = "role") => Safe(t)'
      PROVE  RoleInv'
    BY <1>1, <1>2, RoleKept, Zenon
<1>3. CASE CheckRate(t) \/ ReadLogin(t) \/ record_login_failure(t) \/ IssueToken(t) \/ Abort(t)
  <2>1. users' = users /\ overlap' = overlap /\ pc'[t] # "write"
    BY <1>0, <1>3, Zenon DEF CheckRate, ReadLogin, record_login_failure, IssueToken, Abort, Goto, history,
       TypeInv, TypeOK
  <2> QED
    BY <1>2, <2>1, SuperAdminsSame
<1>4. CASE Create(t)
  <2>1. overlap' = overlap /\ pc'[t] # "write"
    BY <1>0, <1>4, ZenonT(30) DEF Create, Goto, history, TypeInv, TypeOK
  <2>2. \A u \in Users : users[u] # None => users'[u] = users[u]
    BY <1>0, <1>4, Zenon DEF Create, TypeInv, TypeOK
  <2>3. SuperAdmins \subseteq SuperAdmins'
    BY <2>2 DEF SuperAdmins
  <2> QED
    BY <1>2, <2>1, <2>3, Zenon
<1>5. CASE ReadPassword(t)
  <2>1. users' = users /\ overlap' = overlap /\ request[t].op = "password"
    BY <1>5 DEF ReadPassword, history
  <2> QED
    BY <1>2, <2>1, SuperAdminsSame, Zenon
<1>6. CASE WritePassword(t)
  <2>1. overlap' = overlap /\ pc'[t] # "write"
    BY <1>0, <1>6, Zenon DEF WritePassword, Goto, history, TypeInv, TypeOK
  <2>2. ASSUME NEW u \in SuperAdmins PROVE u \in SuperAdmins'
    <3>1. u \in Users /\ users[u] \in User /\ users[u].role = "super_admin"
      BY <1>0, Zenon DEF SuperAdmins, TypeInv, TypeOK
    <3>2. users'[u] = users[u] \/ users'[u] = [users[u] EXCEPT !.password = request[t].new]
      BY <1>0, <1>6, <3>1, Zenon DEF WritePassword, TypeInv, TypeOK
    <3>3. users'[u].role = "super_admin"
      BY <3>1, <3>2 DEF User
    <3>4. users'[u] # None
      <4>1. request[t].new \in Passwords \/ users'[u] = users[u]
        BY <1>0, <1>6, ServedTypes, Zenon DEF WritePassword, TypeInv, TaskOK
      <4>2. users'[u] \in User
        BY <3>1, <3>2, <4>1 DEF User
      <4> QED
        BY <4>2, NoneNoUser, Zenon
    <3> QED
      BY <3>1, <3>3, <3>4 DEF SuperAdmins
  <2> QED
    BY <1>2, <2>1, <2>2, Zenon
<1>7. CASE ReadRole(t)
  <2>1. users' = users /\ overlap' = overlap /\ request[t].user \in Users
    BY <1>0, <1>7, ReadRoleEffect
  <2>2. SuperAdmins' = SuperAdmins
    BY <2>1, SuperAdminsSame, Zenon
  <2>3. CASE overlap
    BY <2>1, <2>3, Zenon DEF RoleInv
  <2>4. CASE ~overlap
    <3>1. SuperAdmins # {}
      BY <2>4, Zenon DEF RoleInv
    <3>2. ASSUME pc'[t] = "write" PROVE Safe(t)'
      <4>1. request[t].role = "super_admin" \/ users[request[t].user].role # "super_admin"
        BY <1>0, <1>7, <3>2, ReadRoleEffect, Zenon
      <4>2. users[request[t].user].role # "super_admin" => request[t].user \notin SuperAdmins
        BY Zenon DEF SuperAdmins
      <4> QED
        BY <1>1, <2>2, <3>1, <4>1, <4>2, Zenon DEF Safe
    <3> QED
      BY <1>2, <2>1, <2>2, <3>2, Zenon
  <2> QED
    BY <2>3, <2>4, Zenon
<1>8. CASE CountSuperAdmins(t)
  <2>1. users' = users /\ overlap' = overlap
    BY <1>8 DEF CountSuperAdmins, history
  <2>2. SuperAdmins' = SuperAdmins
    BY <2>1, SuperAdminsSame, Zenon
  <2>3. ASSUME pc'[t] = "write" PROVE Safe(t)'
    <3>1. ~(Cardinality(SuperAdmins) <= 1)
      BY <1>0, <1>8, <2>3, Zenon DEF CountSuperAdmins, Goto, TypeInv, TypeOK
    <3>2. \E v \in SuperAdmins : v # request[t].user
      BY <1>0, <3>1, CountLeavesOne
    <3> QED
      BY <1>1, <2>2, <3>2, Zenon DEF Safe
  <2> QED
    BY <1>2, <2>1, <2>2, <2>3, Zenon
<1>9. CASE WriteRole(t)
  <2> SUFFICES ASSUME ~overlap'
               PROVE  /\ SuperAdmins' # {}
                      /\ \A s \in Tasks : pc'[s] = "write" /\ request'[s].op = "role" => Safe(s)'
    BY DEF RoleInv
  <2>1. ~overlap /\ ~Underway(t)
    BY <1>9, Zenon DEF WriteRole
  <2>2. \A s \in Tasks : ~(pc'[s] = "write" /\ request'[s].op = "role")
    BY <1>0, <1>1, <1>9, <2>1, WriteRoleEffect, Zenon DEF Underway
  <2>3. Safe(t) /\ request[t].user \in Users /\ users[request[t].user] \in User
    BY <1>0, <1>9, <2>1, WriteRoleEffect, Zenon DEF RoleInv
  <2>4. CASE request[t].role = "super_admin"
    <3>1. users'[request[t].user] = [users[request[t].user] EXCEPT !.role = request[t].role]
      BY <1>0, <1>9, <2>3, WriteRoleEffect, Zenon DEF TypeInv, TypeOK
    <3>2. users'[request[t].user].role = "super_admin" /\ users'[request[t].user] \in User
      BY <1>0, <1>9, <2>3, <2>4, <3>1, WriteRoleEffect, Zenon DEF User
    <3>3. request[t].user \in SuperAdmins'
      BY <2>3, <3>2, NoneNoUser, Zenon DEF SuperAdmins
    <3> QED
      BY <2>2, <3>3, Zenon
  <2>5. CASE \E u \in SuperAdmins : u # request[t].user
    <3>1. PICK u \in SuperAdmins : u # request[t].user
      BY <2>5
    <3>2. u \in Users /\ users'[u] = users[u]
      BY <1>0, <1>9, <3>1, WriteRoleEffect, Zenon DEF SuperAdmins, TypeInv, TypeOK
    <3> QED
      BY <2>2, <3>1, <3>2, Zenon DEF SuperAdmins
  <2> QED
    BY <2>3, <2>4, <2>5, Zenon DEF Safe
<1> QED
    BY <1>3, <1>4, <1>5, <1>6, <1>7, <1>8, <1>9 DEF Serve

LEMMA NextRole == RoleInv /\ [Next]_vars => RoleInv'
<1> SUFFICES ASSUME RoleInv, [Next]_vars PROVE RoleInv'
    OBVIOUS
<1>0. TypeInv /\ TypeInv'
    BY NextTypeInv, Zenon DEF RoleInv
<1>1. ASSUME NEW t \in Tasks, Begins(t), pc'[t] = "write" => request'[t].op # "role" PROVE RoleInv'
  <2>1. users' = users /\ overlap' = overlap /\ \A s \in Tasks \ {t} : pc'[s] = pc[s] /\ request'[s] = request[s]
    BY <1>0, <1>1, Zenon DEF Begins, TypeInv, TypeOK
  <2> QED
    BY <1>0, <1>1, <2>1, SuperAdminsSame, RoleKept, Zenon
<1>2. ASSUME NEW t \in Tasks, NEW r \in Requests, BeginLogin(t, r) PROVE RoleInv'
  <2>1. Begins(t) /\ pc'[t] = "check"
    BY <1>0, <1>2, Zenon DEF BeginLogin, Begins, Goto, history, ws, TypeInv, TypeOK
  <2> QED
    BY <1>1, <2>1
<1>3. ASSUME NEW t \in Tasks, NEW jti \in Tasks, NEW r \in Requests, BeginWithToken(t, r, jti) PROVE RoleInv'
  <2>1. tokens[jti].sub \in Users
    BY <1>0, <1>3, LetThrough, Zenon DEF BeginWithToken, Claims
  <2>2. /\ Begins(t) /\ pc'[t] = (IF r.op = "create" THEN "write" ELSE "read")
        /\ request'[t] = OfSession(r, tokens[jti].sub)
    BY <1>0, <1>3, TaskTypes DEF BeginWithToken, Begins, Goto, ws
  <2>3. pc'[t] = "write" => request'[t].op = "create"
    BY <2>1, <2>2, OfSessionType, Zenon
  <2> QED
    BY <1>1, <2>2, <2>3
<1>4. ASSUME NEW t \in Tasks, NEW jti \in Tasks, NEW r \in Requests, issue_ticket(t, r, jti) PROVE RoleInv'
  <2>1. Begins(t) /\ pc'[t] = "done"
    BY <1>0, <1>4 DEF issue_ticket, Begins, Goto, TypeInv, TypeOK
  <2> QED
    BY <1>1, <2>1, Zenon
<1>5. ASSUME UNCHANGED <<users, overlap, pc, request>> PROVE RoleInv'
    BY <1>0, <1>5, SuperAdminsSame, RoleKept, Zenon
<1>6. ASSUME NEW k \in Tasks, logout(k) \/ query_log_ws(k) PROVE RoleInv'
    BY <1>5, <1>6, Zenon DEF logout, query_log_ws, local, history
<1>7. CASE Tick \/ UNCHANGED vars
    BY <1>5, <1>7, Zenon DEF Tick, vars, local, history
<1> QED
    BY <1>0, <1>2, <1>3, <1>4, <1>6, <1>7, ServeRole DEF Next

\* However many role changes are asked for: as long as none is written between the
\* row another has read and its write, some super_admin remains (update_role).
THEOREM RolesCorrect == Spec => []SerialKeepsSuperAdmin
<1>1. Init => RoleInv
  <2> SUFFICES ASSUME Init PROVE RoleInv
    OBVIOUS
  <2>0. Admin \in Users /\ Bootstrap \in Passwords /\ "super_admin" \in Roles
    BY AccountAssumption, Zenon
  <2>1. users[Admin] = [role |-> "super_admin", password |-> Bootstrap]
    <3>1. users = [u \in Users |-> IF u = Admin THEN [role |-> "super_admin", password |-> Bootstrap] ELSE None]
      BY DEF Init
    <3> DEFINE root == [role |-> "super_admin", password |-> Bootstrap]
    <3>2. users = [u \in Users |-> IF u = Admin THEN root ELSE None]
      BY <3>1
    <3>3. users[Admin] = root
      <4> HIDE DEF root
      <4> QED
        BY <2>0, <3>2, Zenon
    <3> QED
      BY <3>3, Zenon
  <2>2. users[Admin] \in User /\ users[Admin].role = "super_admin"
    BY <2>0, <2>1 DEF User
  <2>3. Admin \in SuperAdmins
    BY <2>0, <2>2, NoneNoUser, Zenon DEF SuperAdmins
  <2>4. \A t \in Tasks : pc[t] = "idle"
    BY DEF Init
  <2> QED
    BY <2>3, <2>4, InitTypeInv, Zenon DEF RoleInv
<1>2. RoleInv => SerialKeepsSuperAdmin
    BY Zenon DEF RoleInv, SerialKeepsSuperAdmin
<1> QED
    BY <1>1, <1>2, NextRole, PTL DEF Spec
=============================================================================

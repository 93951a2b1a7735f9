---------------------------- MODULE DnsSettings ----------------------------
(***************************************************************************)
(* The two values of the DNS handler that sit behind a lock, and who takes *)
(* the locks: the access lists (acl) and the upstream pool.                *)
(*                                                                         *)
(* settings::update_dns stores the two access lists as two rows and then   *)
(* replaces the handler's ACL; a new strategy makes it replace the pool.   *)
(* The settings it stores before these are FilterEngine's subject.         *)
(* A query asks the ACL, and holds the pool's read lock while an upstream  *)
(* is asked; so does the health task of main.rs while it probes, before it *)
(* reloads the pool.  The health task of api/mod.rs, which takes the write *)
(* lock for every latency it measured, is one more writer, and left out.   *)
(*                                                                         *)
(* tokio's RwLock (external) serves its waiters in the order they came.    *)
(* No guard of the ACL, and no write guard of the pool, lives across an    *)
(* await: their critical sections are single steps.  What the pool holds   *)
(* is left to UpstreamHealth, what a query is answered to DnsHandler.      *)
(***************************************************************************)
EXTENDS Sequences

CONSTANTS
    Requests,   \* PUT /settings/dns requests served at the same time
    Queries,    \* queries served at the same time; one after another each
    Health,     \* run_upstream_health_check_task
    Networks,   \* client networks; a list is a set of them
    Client,     \* the network of each query's client
    Bodies,     \* what a request may ask for
    Invalid,    \* an entry validate_cidrs refuses
    None        \* a field the body leaves out

Keys == {"allowed", "denied"}
Lists == SUBSET Networks
Acl == [Keys -> Lists]
Body == [allowed : Lists \cup {{Invalid}, None}, denied : Lists \cup {{Invalid}, None},
         strategy : {None, "known", "unknown"}]
Processes == Requests \cup Queries \cup {Health}

ASSUME SettingsAssumption ==
    /\ Invalid \notin Networks /\ \A l \in Lists : l # None
    /\ Client \in [Queries -> Networks]
    /\ Bodies \subseteq Body

VARIABLES
    acl_table,  \* settings: acl_allowed_networks and acl_denied_networks
    acl,        \* the handler's ACL
    place,      \* where each process is
    req,        \* per request: its body and the lists it is about to store
    queue,      \* who waits for the lock of upstream_pool, first come first
    readers,    \* who holds its read guard
    disturbed   \* history: an ACL update overlapped another or stopped halfway, and
                \* no undisturbed update and no restart came after it

acl_vars == <<acl_table, acl, req, disturbed>>
lock_vars == <<queue, readers>>
settings_vars == <<acl_vars, place, lock_vars>>

AclPlaces == {"read_allowed", "read_denied", "write_allowed", "write_denied", "reload"}
Waiting == {"wait_read", "wait_write"}
Places == {"idle", "strategy", "reading"} \cup AclPlaces \cup Waiting
Req == [body : Body, new : [Keys -> Lists \cup {{Invalid}}], alone : BOOLEAN]

NoBody == [allowed |-> None, denied |-> None, strategy |-> None]
NoReq == [body |-> NoBody, new |-> [k \in Keys |-> {}], alone |-> TRUE]

\* The types of the table, the ACL, every update and the lock; only valid lists
\* are ever stored or used.
SettingsTypeOK ==
    /\ acl_table \in Acl /\ acl \in Acl
    /\ place \in [Processes -> Places]
    /\ req \in [Requests -> Req]
    /\ readers \subseteq Processes
    /\ disturbed \in BOOLEAN

SettingsInit ==
    /\ acl_table = [k \in Keys |-> {}] /\ acl = acl_table
    /\ place = [p \in Processes |-> "idle"]
    /\ req = [p \in Requests |-> NoReq]
    /\ queue = <<>> /\ readers = {}
    /\ disturbed = FALSE

Moves(p, from, to) == place[p] = from /\ place' = [place EXCEPT ![p] = to]

-----------------------------------------------------------------------------
(* The lock of upstream_pool *)

\* Mutant of Admitted: readers do not queue behind a writer.
Admitted_ReadersFirst(p) ==
    IF place[p] = "wait_read" THEN TRUE ELSE readers = {} /\ Head(queue) = p

\* The first in line gets in when the guards that are out allow it.
Admitted(p) == Head(queue) = p /\ (place[p] = "wait_write" => readers = {})

WithoutWaiter(p) == SelectSeq(queue, LAMBDA q : q # p)

\* p goes from a place to the end of the line.
Queues(p, from, to) ==
    /\ Moves(p, from, to)
    /\ queue' = Append(queue, p)

EnterRead(p) ==
    /\ Moves(p, "wait_read", "reading") /\ Admitted(p)
    /\ queue' = WithoutWaiter(p)
    /\ readers' = readers \cup {p}
    /\ UNCHANGED acl_vars

\* The write guard is taken, the pool replaced, the guard dropped.
\* It is the last thing every writer does.
ReplacePool(p) ==
    /\ Moves(p, "wait_write", "idle") /\ Admitted(p)
    /\ queue' = WithoutWaiter(p)
    /\ UNCHANGED <<acl_vars, readers>>

-----------------------------------------------------------------------------
(* DNS queries *)

\* Acl::is_allowed for a client of network n: the denied list comes first, an
\* empty allowed list lets everyone else in.
is_allowed(a, n) == n \notin a["denied"] /\ (a["allowed"] = {} \/ n \in a["allowed"])

\* A query that is let in, and that neither the rules nor the cache answer.
Ask(q) ==
    /\ is_allowed(acl, Client[q])
    /\ Queues(q, "idle", "wait_read")
    /\ UNCHANGED <<acl_vars, readers>>

\* resolve returns, with an answer or after its last timeout.
Answered(q) ==
    /\ Moves(q, "reading", "idle")
    /\ readers' = readers \ {q}
    /\ UNCHANGED <<acl_vars, queue>>

\* The client of a query over HTTPS goes away, and its handler is dropped.
Dropped(q) ==
    /\ place[q] \in {"wait_read", "reading"}
    /\ place' = [place EXCEPT ![q] = "idle"]
    /\ queue' = WithoutWaiter(q)
    /\ readers' = readers \ {q}
    /\ UNCHANGED acl_vars

-----------------------------------------------------------------------------
(* The health task *)

HealthTick == Queues(Health, "idle", "wait_read") /\ UNCHANGED <<acl_vars, readers>>

\* Mutant of ProbesEnd: the guard lives on through the reload.
ProbesEnd_KeepsGuard ==
    \/ /\ Moves(Health, "reading", "idle")
       /\ readers' = readers \ {Health}
       /\ UNCHANGED <<acl_vars, queue>>
    \/ /\ Queues(Health, "reading", "wait_write")
       /\ UNCHANGED <<acl_vars, readers>>

\* Every probe has answered or timed out; a change of status calls for a reload.
ProbesEnd ==
    /\ \/ Moves(Health, "reading", "idle") /\ UNCHANGED queue
       \/ Queues(Health, "reading", "wait_write")
    /\ readers' = readers \ {Health}
    /\ UNCHANGED acl_vars

-----------------------------------------------------------------------------
(* settings::update_dns *)

InAcl == {p \in Requests : place[p] \in AclPlaces}
HasAcl(body) == body.allowed # None \/ body.denied # None

\* The body names a list, and every ACL update under way has company; or it goes
\* straight to the strategy.
Begin(p, body) ==
    /\ Moves(p, "idle", IF HasAcl(body) THEN "read_allowed" ELSE "strategy")
    /\ req' = [q \in Requests |->
                  IF q = p
                  THEN [NoReq EXCEPT !.body = body, !.alone = (InAcl = {})]
                  ELSE [req[q] EXCEPT !.alone = @ /\ ~(q \in InAcl /\ HasAcl(body))]]
    /\ UNCHANGED <<acl_table, acl, lock_vars, disturbed>>

\* What update_dns will store for list k: the body's, or else the one it reads.
NewValue(p, k) == IF req[p].body[k] = None THEN acl_table[k] ELSE req[p].body[k]

ReadList(p, k, from, to) ==
    /\ Moves(p, from, to)
    /\ req' = [req EXCEPT ![p].new[k] = NewValue(p, k)]
    /\ UNCHANGED <<acl_table, acl, lock_vars, disturbed>>

Finish(p) ==
    /\ place' = [place EXCEPT ![p] = "idle"]
    /\ req' = [req EXCEPT ![p] = NoReq]

Valid(p) == \A k \in Keys : Invalid \notin req[p].new[k]

\* validate_cidrs comes before the first write.
Refuse(p) ==
    /\ place[p] = "write_allowed" /\ ~Valid(p)
    /\ Finish(p)
    /\ UNCHANGED <<acl_table, acl, lock_vars, disturbed>>

WriteList(p, k, from, to) ==
    /\ Valid(p)
    /\ Moves(p, from, to)
    /\ acl_table' = [acl_table EXCEPT ![k] = req[p].new[k]]
    /\ UNCHANGED <<acl, req, lock_vars, disturbed>>

AfterAcl(p) ==
    IF req[p].body.strategy = None
    THEN Finish(p)
    ELSE /\ place' = [place EXCEPT ![p] = "strategy"]
         /\ req' = [req EXCEPT ![p] = [NoReq EXCEPT !.body.strategy = req[p].body.strategy]]

\* Mutant of reload_acl: lists the body leaves out count as empty.
reload_acl_BodyOnly(p) ==
    /\ place[p] = "reload"
    /\ acl' = [k \in Keys |-> IF req[p].body[k] = None THEN {} ELSE req[p].body[k]]
    /\ disturbed' = ~req[p].alone
    /\ AfterAcl(p)
    /\ UNCHANGED <<acl_table, lock_vars>>

\* The handler gets the lists that were just stored, not a fresh reading of them.
reload_acl(p) ==
    /\ place[p] = "reload"
    /\ acl' = req[p].new
    /\ disturbed' = ~req[p].alone
    /\ AfterAcl(p)
    /\ UNCHANGED <<acl_table, lock_vars>>

\* A known strategy is stored, the upstreams are listed and the new pool waits
\* for the lock; an unknown one is refused, after all that went before.
WriteStrategy(p) ==
    /\ IF req[p].body.strategy = "known"
       THEN /\ Queues(p, "strategy", "wait_write")
            /\ req' = [req EXCEPT ![p] = NoReq]
       ELSE place[p] = "strategy" /\ Finish(p) /\ UNCHANGED queue
    /\ UNCHANGED <<acl_table, acl, readers, disturbed>>

\* A failed statement, or a client that goes away: the handler ends where it is.
Stop(p) ==
    /\ place[p] # "idle"
    /\ Finish(p)
    /\ queue' = WithoutWaiter(p)
    /\ disturbed' = (disturbed \/ place[p] \in {"write_denied", "reload"})
    /\ UNCHANGED <<acl_table, acl, readers>>

update_dns(p) ==
    \/ ReadList(p, "allowed", "read_allowed", "read_denied")
    \/ ReadList(p, "denied", "read_denied", "write_allowed")
    \/ Refuse(p)
    \/ WriteList(p, "allowed", "write_allowed", "write_denied")
    \/ WriteList(p, "denied", "write_denied", "reload")
    \/ reload_acl(p)
    \/ WriteStrategy(p)

\* DnsHandler::new reads both lists back.
Restart ==
    /\ acl' = acl_table
    /\ place' = [p \in Processes |-> "idle"]
    /\ req' = [p \in Requests |-> NoReq]
    /\ queue' = <<>> /\ readers' = {}
    /\ disturbed' = FALSE
    /\ UNCHANGED acl_table

-----------------------------------------------------------------------------
Writers == Requests \cup {Health}

SettingsNext ==
    \/ \E q \in Queries : Ask(q) \/ EnterRead(q) \/ Answered(q) \/ Dropped(q)
    \/ HealthTick \/ EnterRead(Health) \/ ProbesEnd
    \/ \E p \in Writers : ReplacePool(p)
    \/ \E p \in Requests, body \in Bodies : Begin(p, body)
    \/ \E p \in Requests : update_dns(p) \/ Stop(p)
    \/ Restart

SettingsSpec == SettingsInit /\ [][SettingsNext]_settings_vars

\* tokio polls every task that can go on, and wakes the waiter a lock admits; a
\* lookup and a probe are bounded by their timeouts.  Nobody has to ask, to
\* update, to stop or to restart anything.
Fairness ==
    /\ \A q \in Queries : WF_settings_vars(EnterRead(q) \/ Answered(q))
    /\ WF_settings_vars(EnterRead(Health) \/ ProbesEnd)
    /\ \A p \in Writers : WF_settings_vars(ReplacePool(p))

FairSettingsSpec == SettingsSpec /\ Fairness

-----------------------------------------------------------------------------
(* Properties *)

AtRest == InAcl = {}

\* The clients the handler lets in are those the stored lists let in, unless
\* updates overlapped or one stopped between its writes; the next update that
\* has the table to itself, or a restart, ends that.
AclFollowsTable ==
    (AtRest /\ ~disturbed) => \A n \in Networks : is_allowed(acl, n) = is_allowed(acl_table, n)

\* Whatever reloads, probes and other queries wait for the pool or hold it, a
\* query that asked for it is over one day: handler.rs:333 awaits the upstream
\* with the guard in hand.
QueriesEnd == \A q \in Queries : place[q] # "idle" ~> place[q] = "idle"

\* Whoever has a new pool to store gets the write lock, however
\* many queries keep coming, and whichever waiters give up.
ReloadsGetIn == \A p \in Writers : place[p] = "wait_write" ~> place[p] # "wait_write"

\* "Hot-reload ACL in DNS handler": once every update is answered the handler
\* uses what is stored, if none of them failed.
AclHotReloaded == AtRest => acl = acl_table

\* "Read current values to apply partial updates": an update that leaves a list
\* out does not change it.
PartialUpdateKeepsOther ==
    [][\A p \in Requests :
          (place[p] = "write_allowed" /\ place'[p] = "write_denied" /\ req[p].body.allowed = None)
          => acl_table'["allowed"] = acl_table["allowed"]]_settings_vars

\* "upstream_strategy must be one of": a body that is refused has changed nothing.
RefusedBodyHarmless ==
    [][\A p \in Requests :
          (place[p] = "reload" /\ place'[p] = "strategy") => req[p].body.strategy # "unknown"]_settings_vars
=============================================================================

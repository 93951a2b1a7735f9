--------------------------- MODULE UpstreamHealth ---------------------------
(***************************************************************************)
(* The health of the upstream DNS servers: the table dns_upstreams, the    *)
(* pool the DNS handler resolves with, and everything that writes either.  *)
(*                                                                         *)
(* Two background tasks probe the upstreams every 30 seconds.  The one in  *)
(* main.rs probes the nodes of the pool, writes health_status and rebuilds *)
(* the pool when a status changed.  The one in api/mod.rs probes the rows  *)
(* of the table and writes health_status, and never rebuilds the pool.     *)
(* They do not agree on what healthy means either: see PoolProbe and       *)
(* RowProbe.  The handlers of the management API change rows and rebuild   *)
(* the pool.                                                               *)
(*                                                                         *)
(* Left out: addresses that do not parse, which keep a row out of the pool *)
(* for good, and the latencies.                                            *)
(***************************************************************************)
EXTENDS Naturals, FiniteSets

CONSTANTS
    Upstreams,     \* ids of dns_upstreams
    Strategies,    \* values of the setting upstream_strategy
    NetStates,     \* what the network does to an upstream, of those below
    SeedRows,      \* rows a fresh or upgraded database may hold
    Workers,       \* API requests served at the same time
    Main,          \* run_upstream_health_check_task in main.rs
    Api,           \* the health check task of api::serve
    Fallback,      \* the id of the built-in Cloudflare/Google node
    NoRow,         \* "no such row"
    MaxRequests,   \* bound on the API requests of a behaviour
    MaxNetChanges  \* bound on the changes of the network

Procs == Workers \cup {Main, Api}

(***************************************************************************)
(* fast: answers within health_check_timeout milliseconds.  slow: later,   *)
(* but within as many seconds.  refused: fails at once.  down: silent.     *)
(***************************************************************************)
AllNetStates == {"fast", "slow", "refused", "down"}

Statuses == {"unknown", "healthy", "degraded"}
Rows == [is_active : BOOLEAN, health_check_enabled : BOOLEAN,
         failover_enabled : BOOLEAN, health_status : Statuses]

Nodes == [id : Upstreams \cup {Fallback}, health_check_enabled : BOOLEAN]
Pools == [nodes : SUBSET Nodes, strategy : Strategies]

ASSUME UpstreamAssumption ==
    /\ Main # Api /\ Main \notin Workers /\ Api \notin Workers
    /\ NetStates \subseteq AllNetStates
    /\ SeedRows \subseteq Rows
    /\ NoRow \notin Rows
    /\ Fallback \notin Upstreams
    /\ MaxRequests \in Nat /\ MaxNetChanges \in Nat

VARIABLES
    net,            \* [Upstreams -> NetStates]
    dns_upstreams,  \* [Upstreams -> Rows \cup {NoRow}]
    strategy,       \* the setting upstream_strategy
    pool,           \* the pool behind the handler's lock
    pc,             \* where each process is
    row_id,         \* per process: the upstream it works on
    row_read,       \* per worker: the row read by upstreams::update
    listed,         \* per process: the rows its last list returned
    results,        \* Main: probe results not yet written
    needs_reload,   \* Main's local flag
    rows,           \* Api: upstreams not yet probed in this round
    success,        \* per process: outcome of the probe it has just made
    new_pool,       \* per process: the pool its reload has built
    requests, changes,
    \* History, read by no action of the program:
    owes,           \* processes that will rebuild the pool for their write
    tainted,        \* processes whose reload was overtaken by a write
    stale           \* the pool is known not to follow the table

table == <<dns_upstreams, strategy>>
main_vars == <<results, needs_reload>>
history == <<owes, tainted, stale>>
vars == <<net, table, pool, pc, row_id, row_read, listed, main_vars, rows, success,
          new_pool, requests, changes, history>>

Reloading == {"list", "strategy", "swap"}
Locations == Reloading \cup {"idle", "listing", "update", "probe", "write",
                             "update_row", "test", "test_write"}

-----------------------------------------------------------------------------
(***************************************************************************)
(* UpstreamPool::new: active rows that are not degraded; with none left,   *)
(* the fallback node, which is never probed.                               *)
(***************************************************************************)
Eligible(r) == r # NoRow /\ r.is_active /\ r.health_status # "degraded"

\* Mutant of NodesOf: the fallback node is left out.
NodesOf_NoFallback(table_rows) ==
    {[id |-> u, health_check_enabled |-> table_rows[u].health_check_enabled] :
        u \in {v \in Upstreams : Eligible(table_rows[v])}}

NodesOf(table_rows) ==
    LET own == {[id |-> u, health_check_enabled |-> table_rows[u].health_check_enabled] :
                   u \in {v \in Upstreams : Eligible(table_rows[v])}}
    IN  IF own = {} THEN {[id |-> Fallback, health_check_enabled |-> FALSE]} ELSE own

NewPool(table_rows, s) == [nodes |-> NodesOf(table_rows), strategy |-> s]

DesiredPool == NewPool(dns_upstreams, strategy)

(***************************************************************************)
(* UpstreamPool::health_check_all: an upstream is healthy if resolve()     *)
(* returns in time, and DnsResolver::resolve turns a lookup error into a   *)
(* SERVFAIL answer.  health_check_timeout counts as milliseconds.          *)
(***************************************************************************)
\* Mutant of PoolProbe: a timeout of 0 is taken as it is, and only a refusal is in time.
PoolProbe_Zero(u) == net[u] = "refused"

PoolProbe(u) == net[u] \in {"fast", "refused"}

(***************************************************************************)
(* check_upstream_connectivity: a lookup error is a failure;               *)
(* health_check_timeout counts as seconds.                                 *)
(***************************************************************************)
RowProbe(u) == net[u] \in {"fast", "slow"}

StatusOf(ok) == IF ok THEN "healthy" ELSE "degraded"

WithStatus(u, status) ==
    IF dns_upstreams[u] = NoRow THEN dns_upstreams
    ELSE [dns_upstreams EXCEPT ![u].health_status = status]

-----------------------------------------------------------------------------
\* Reloads that have read the table, or the setting, are overtaken by a write.
OvertakenBy(new_rows, s) ==
    IF NewPool(new_rows, s) = DesiredPool THEN tainted
    ELSE tainted \cup {p \in Procs : \/ pc[p] = "swap"
                                     \/ pc[p] = "strategy" /\ s = strategy}

\* A write after which p rebuilds the pool ...
OwedWrite(p, new_rows, s) ==
    /\ dns_upstreams' = new_rows
    /\ strategy' = s
    /\ owes' = owes \cup {p}
    /\ tainted' = OvertakenBy(new_rows, s)
    /\ stale' = stale

\* ... and one after which nobody does.
SilentWrite(new_rows) ==
    /\ dns_upstreams' = new_rows
    /\ tainted' = OvertakenBy(new_rows, strategy)
    /\ stale' = (stale \/ (NewPool(new_rows, strategy) # DesiredPool
                           /\ owes \subseteq tainted'))
    /\ UNCHANGED <<strategy, owes>>

Nothing == [u \in Upstreams |-> NoRow]

Goto(p, place) == pc' = [pc EXCEPT ![p] = place]

-----------------------------------------------------------------------------
(***************************************************************************)
(* DnsHandler::reload_upstreams.                                           *)
(***************************************************************************)
ReloadList(p) ==
    /\ pc[p] = "list"
    /\ listed' = [listed EXCEPT ![p] = dns_upstreams]
    /\ Goto(p, "strategy")
    /\ UNCHANGED <<net, table, pool, row_id, row_read, main_vars, rows, success,
                   new_pool, requests, changes, history>>

\* Mutant of ReloadStrategy: the strategy in force is kept.
ReloadStrategy_Kept(p) ==
    /\ pc[p] = "strategy"
    /\ new_pool' = [new_pool EXCEPT ![p] = NewPool(listed[p], pool.strategy)]
    /\ Goto(p, "swap")
    /\ UNCHANGED <<net, table, pool, row_id, row_read, listed, main_vars, rows,
                   success, requests, changes, history>>

ReloadStrategy(p) ==
    /\ pc[p] = "strategy"
    /\ new_pool' = [new_pool EXCEPT ![p] = NewPool(listed[p], strategy)]
    /\ Goto(p, "swap")
    /\ UNCHANGED <<net, table, pool, row_id, row_read, listed, main_vars, rows,
                   success, requests, changes, history>>

\* What is left of p's round when it returns to idle.
Reset(p) ==
    /\ Goto(p, "idle")
    /\ listed' = [listed EXCEPT ![p] = Nothing]
    /\ new_pool' = [new_pool EXCEPT ![p] = NoRow]

ReloadSwap(p) ==
    /\ pc[p] = "swap"
    /\ pool' = new_pool[p]
    /\ stale' = (p \in tainted)
    /\ owes' = owes \ {p}
    /\ tainted' = tainted \ {p}
    /\ Reset(p)
    /\ UNCHANGED <<net, table, row_id, row_read, main_vars, rows, success, requests, changes>>

\* A statement of the reload fails, or the client of a handler disconnects.
ReloadFails(p) ==
    /\ pc[p] \in {"list", "strategy"}
    /\ stale' = (stale \/ p \in owes)
    /\ owes' = owes \ {p}
    /\ tainted' = tainted \ {p}
    /\ Reset(p)
    /\ UNCHANGED <<net, table, pool, row_id, row_read, main_vars, rows, success,
                   requests, changes>>

Reload(p) == ReloadList(p) \/ ReloadStrategy(p) \/ ReloadSwap(p)

-----------------------------------------------------------------------------
(***************************************************************************)
(* run_upstream_health_check_task.                                         *)
(***************************************************************************)
Probed == {n.id : n \in {m \in pool.nodes : m.health_check_enabled}}

MainProbe ==
    /\ pc[Main] = "idle"
    /\ Probed # {}
    /\ results' = {[id |-> u, is_healthy |-> PoolProbe(u)] : u \in Probed}
    /\ Goto(Main, "listing")
    /\ UNCHANGED <<net, table, pool, row_id, row_read, listed, needs_reload, rows, success,
                   new_pool, requests, changes, history>>

MainList ==
    /\ pc[Main] = "listing"
    /\ listed' = [listed EXCEPT ![Main] = dns_upstreams]
    /\ needs_reload' = FALSE
    /\ Goto(Main, "update")
    /\ UNCHANGED <<net, table, pool, row_id, row_read, results, rows, success, new_pool,
                   requests, changes, history>>

MainListFails ==
    /\ pc[Main] = "listing"
    /\ results' = {}
    /\ Goto(Main, "idle")
    /\ UNCHANGED <<net, table, pool, row_id, row_read, listed, needs_reload, rows, success,
                   new_pool, requests, changes, history>>

\* A change against the rows listed, of an upstream with failover_enabled.
FailsOver(r) ==
    /\ listed[Main][r.id] # NoRow
    /\ listed[Main][r.id].health_status # StatusOf(r.is_healthy)
    /\ listed[Main][r.id].failover_enabled

MainUpdate(r) ==
    /\ pc[Main] = "update"
    /\ r \in results
    /\ results' = results \ {r}
    /\ needs_reload' = (needs_reload \/ FailsOver(r))
    /\ IF needs_reload'
       THEN OwedWrite(Main, WithStatus(r.id, StatusOf(r.is_healthy)), strategy)
       ELSE SilentWrite(WithStatus(r.id, StatusOf(r.is_healthy)))
    /\ UNCHANGED <<net, pool, pc, row_id, row_read, listed, rows, success, new_pool,
                   requests, changes>>

\* The UPDATE fails: the task goes on with the next result.
MainUpdateFails(r) ==
    /\ pc[Main] = "update"
    /\ r \in results
    /\ results' = results \ {r}
    /\ UNCHANGED <<net, table, pool, pc, row_id, row_read, listed, needs_reload, rows,
                   success, new_pool, requests, changes, history>>

MainRoundEnds ==
    /\ pc[Main] = "update"
    /\ results = {}
    /\ needs_reload' = FALSE
    /\ listed' = [listed EXCEPT ![Main] = Nothing]
    /\ Goto(Main, IF needs_reload THEN "list" ELSE "idle")
    /\ UNCHANGED <<net, table, pool, row_id, row_read, results, rows, success, new_pool,
                   requests, changes, history>>

-----------------------------------------------------------------------------
(***************************************************************************)
(* The health check task of api::serve.  Every row it selects is due: the  *)
(* text of a TIMESTAMP column has no offset, so it is no RFC 3339 time and *)
(* the check falls back on "due".                                          *)
(***************************************************************************)
ApiList ==
    /\ pc[Api] = "idle"
    /\ rows' = {u \in Upstreams : /\ dns_upstreams[u] # NoRow
                                  /\ dns_upstreams[u].is_active
                                  /\ dns_upstreams[u].health_check_enabled}
    /\ rows' # {}
    /\ Goto(Api, "probe")
    /\ UNCHANGED <<net, table, pool, row_id, row_read, listed, main_vars, success, new_pool,
                   requests, changes, history>>

ApiProbe(u) ==
    /\ pc[Api] = "probe"
    /\ u \in rows
    /\ row_id' = [row_id EXCEPT ![Api] = u]
    /\ success' = [success EXCEPT ![Api] = RowProbe(u)]
    /\ Goto(Api, "write")
    /\ UNCHANGED <<net, table, pool, row_read, listed, main_vars, rows, new_pool,
                   requests, changes, history>>

ApiNext == Goto(Api, IF rows' = {} THEN "idle" ELSE "probe")

ApiWrite ==
    /\ pc[Api] = "write"
    /\ rows' = rows \ {row_id[Api]}
    /\ SilentWrite(WithStatus(row_id[Api], StatusOf(success[Api])))
    /\ ApiNext
    /\ row_id' = [row_id EXCEPT ![Api] = NoRow]
    /\ success' = [success EXCEPT ![Api] = FALSE]
    /\ UNCHANGED <<net, pool, row_read, listed, main_vars, new_pool, requests, changes>>

ApiWriteFails ==
    /\ pc[Api] = "write"
    /\ rows' = rows \ {row_id[Api]}
    /\ ApiNext
    /\ row_id' = [row_id EXCEPT ![Api] = NoRow]
    /\ success' = [success EXCEPT ![Api] = FALSE]
    /\ UNCHANGED <<net, table, pool, row_read, listed, main_vars, new_pool,
                   requests, changes, history>>

-----------------------------------------------------------------------------
(***************************************************************************)
(* api/handlers/upstreams.rs, and the strategy part of settings.rs.        *)
(***************************************************************************)
Request(p) ==
    /\ pc[p] = "idle"
    /\ requests < MaxRequests
    /\ requests' = requests + 1

WriteAndReload(p, new_rows, s) ==
    /\ OwedWrite(p, new_rows, s)
    /\ Goto(p, "list")
    /\ UNCHANGED <<net, pool, listed, main_vars, rows, success, new_pool, changes>>

Create(p, u) ==
    /\ Request(p)
    /\ dns_upstreams[u] = NoRow
    /\ WriteAndReload(p, [dns_upstreams EXCEPT
                             ![u] = [is_active |-> TRUE, health_check_enabled |-> TRUE,
                                     failover_enabled |-> TRUE, health_status |-> "unknown"]],
                      strategy)
    /\ UNCHANGED <<row_id, row_read>>

Delete(p, u) ==
    /\ Request(p)
    /\ dns_upstreams[u] # NoRow
    /\ WriteAndReload(p, [dns_upstreams EXCEPT ![u] = NoRow], strategy)
    /\ UNCHANGED <<row_id, row_read>>

UpdateStrategy(p, s) ==
    /\ Request(p)
    /\ WriteAndReload(p, dns_upstreams, s)
    /\ UNCHANGED <<row_id, row_read>>

ReadForUpdate(p, u) ==
    /\ Request(p)
    /\ dns_upstreams[u] # NoRow
    /\ row_id' = [row_id EXCEPT ![p] = u]
    /\ row_read' = [row_read EXCEPT ![p] = dns_upstreams[u]]
    /\ Goto(p, "update_row")
    /\ UNCHANGED <<net, table, pool, listed, main_vars, rows, success, new_pool, changes, history>>

(***************************************************************************)
(* update writes every column but health_status, those the body leaves out *)
(* from the row it read.  Here the body sets one of the three flags.       *)
(***************************************************************************)
Update(p, flag, value) ==
    LET u == row_id[p]
        set == [row_read[p] EXCEPT ![flag] = value]
    IN  /\ pc[p] = "update_row"
        /\ WriteAndReload(p, IF dns_upstreams[u] = NoRow THEN dns_upstreams
                             ELSE [dns_upstreams EXCEPT
                                      ![u] = [set EXCEPT !.health_status =
                                                 dns_upstreams[u].health_status]],
                          strategy)
        /\ row_id' = [row_id EXCEPT ![p] = NoRow]
        /\ row_read' = [row_read EXCEPT ![p] = NoRow]
        /\ UNCHANGED requests

\* test probes the row's first address and stores the outcome, if it can.
Test(p, u) ==
    /\ Request(p)
    /\ dns_upstreams[u] # NoRow
    /\ row_id' = [row_id EXCEPT ![p] = u]
    /\ Goto(p, "test")
    /\ UNCHANGED <<net, table, pool, row_read, listed, main_vars, rows, success, new_pool,
                   changes, history>>

TestProbe(p) ==
    /\ pc[p] = "test"
    /\ success' = [success EXCEPT ![p] = RowProbe(row_id[p])]
    /\ Goto(p, "test_write")
    /\ UNCHANGED <<net, table, pool, row_id, row_read, listed, main_vars, rows, new_pool,
                   requests, changes, history>>

TestWrite(p) ==
    /\ pc[p] = "test_write"
    /\ SilentWrite(WithStatus(row_id[p], StatusOf(success[p])))
    /\ Goto(p, "idle")
    /\ row_id' = [row_id EXCEPT ![p] = NoRow]
    /\ success' = [success EXCEPT ![p] = FALSE]
    /\ UNCHANGED <<net, pool, row_read, listed, main_vars, rows, new_pool, requests, changes>>

\* The statement fails, or the client disconnects.
Abandon(p) ==
    /\ pc[p] \in {"update_row", "test", "test_write"}
    /\ Goto(p, "idle")
    /\ row_id' = [row_id EXCEPT ![p] = NoRow]
    /\ row_read' = [row_read EXCEPT ![p] = NoRow]
    /\ success' = [success EXCEPT ![p] = FALSE]
    /\ UNCHANGED <<net, table, pool, listed, main_vars, rows, new_pool, requests, changes,
                   history>>

-----------------------------------------------------------------------------
NetChange(u, state) ==
    /\ changes < MaxNetChanges
    /\ net[u] # state
    /\ net' = [net EXCEPT ![u] = state]
    /\ changes' = changes + 1
    /\ UNCHANGED <<table, pool, pc, row_id, row_read, listed, main_vars, rows, success,
                   new_pool, requests, history>>

Init ==
    /\ net \in [Upstreams -> NetStates]
    /\ dns_upstreams \in [Upstreams -> SeedRows \cup {NoRow}]
    /\ strategy \in Strategies
    /\ pool = DesiredPool
    /\ pc = [p \in Procs |-> "idle"]
    /\ row_id = [p \in Procs |-> NoRow]
    /\ row_read = [p \in Procs |-> NoRow]
    /\ listed = [p \in Procs |-> Nothing]
    /\ results = {}
    /\ needs_reload = FALSE
    /\ rows = {}
    /\ success = [p \in Procs |-> FALSE]
    /\ new_pool = [p \in Procs |-> NoRow]
    /\ requests = 0 /\ changes = 0
    /\ owes = {} /\ tainted = {} /\ stale = FALSE

Handler(p) ==
    \/ \E u \in Upstreams : Create(p, u) \/ Delete(p, u) \/ ReadForUpdate(p, u) \/ Test(p, u)
    \/ \E flag \in {"is_active", "health_check_enabled", "failover_enabled"},
         value \in BOOLEAN : Update(p, flag, value)
    \/ \E s \in Strategies : UpdateStrategy(p, s)
    \/ TestProbe(p) \/ TestWrite(p) \/ Abandon(p)

MainStep ==
    \/ MainProbe \/ MainList \/ MainListFails \/ MainRoundEnds
    \/ \E r \in results : MainUpdate(r) \/ MainUpdateFails(r)

ApiStep ==
    \/ ApiList \/ ApiWrite \/ ApiWriteFails
    \/ \E u \in Upstreams : ApiProbe(u)

Next ==
    \/ MainStep
    \/ ApiStep
    \/ \E p \in Workers : Handler(p)
    \/ \E p \in Workers \cup {Main} : Reload(p) \/ ReloadFails(p)
    \/ \E u \in Upstreams, state \in NetStates : NetChange(u, state)

Spec == Init /\ [][Next]_vars

(***************************************************************************)
(* Both tasks tick for ever, and the database does not refuse every one of *)
(* their statements.  Nothing is assumed of the API handlers.              *)
(***************************************************************************)
MainFairness ==
    /\ WF_vars(MainProbe) /\ SF_vars(MainList) /\ WF_vars(MainRoundEnds)
    /\ SF_vars(\E r \in results : MainUpdate(r))
    /\ SF_vars(ReloadList(Main)) /\ SF_vars(ReloadStrategy(Main)) /\ WF_vars(ReloadSwap(Main))

ApiFairness ==
    /\ WF_vars(ApiList) /\ SF_vars(ApiWrite)
    /\ \A u \in Upstreams : SF_vars(ApiProbe(u))

FairSpec == Spec /\ MainFairness /\ ApiFairness

-----------------------------------------------------------------------------
\* The types of the table, of the pool and of the locals of the health check tasks,
\* the handlers and their reloads.
TypeOK ==
    /\ net \in [Upstreams -> NetStates]
    /\ dns_upstreams \in [Upstreams -> Rows \cup {NoRow}]
    /\ strategy \in Strategies
    /\ pool \in Pools
    /\ pc \in [Procs -> Locations]
    /\ row_id \in [Procs -> Upstreams \cup {NoRow}]
    /\ row_read \in [Procs -> Rows \cup {NoRow}]
    /\ listed \in [Procs -> [Upstreams -> Rows \cup {NoRow}]]
    /\ results \in SUBSET [id : Upstreams, is_healthy : BOOLEAN]
    /\ needs_reload \in BOOLEAN
    /\ rows \in SUBSET Upstreams
    /\ success \in [Procs -> BOOLEAN]
    /\ new_pool \in [Procs -> Pools \cup {NoRow}]
    /\ requests \in 0 .. MaxRequests
    /\ changes \in 0 .. MaxNetChanges
    /\ owes \in SUBSET Procs /\ tainted \in SUBSET Procs /\ stale \in BOOLEAN

(***************************************************************************)
(* The pool queries are resolved with is the one the table and the setting *)
(* call for, unless a reload that will make it so is on its way, or its    *)
(* last swap was overtaken by a write, or since then a reload failed or a  *)
(* task stored a status without a reload to follow (reload_upstreams in    *)
(* handler.rs and its callers).                                            *)
(***************************************************************************)
PoolFollowsTable ==
    \/ pool = DesiredPool
    \/ stale
    \/ \E p \in owes : p \notin tainted

(***************************************************************************)
(* Queries always find a node, and the fallback only where every row is    *)
(* inactive or degraded: the swap of a reload replaces the whole pool, and *)
(* UpstreamPool::new never leaves it empty.                                *)
(***************************************************************************)
PoolNeverEmpty ==
    /\ pool.nodes # {}
    /\ \A n \in pool.nodes : n.id = Fallback => pool.nodes = {n}

(***************************************************************************)
(* health_check_timeout counts as milliseconds in one probe and as seconds *)
(* in the other, and results are written late: an upstream that has always *)
(* answered within the shorter of the two is never marked degraded, by     *)
(* either task or by test, and never leaves the pool for the fallback.     *)
(***************************************************************************)
FastStaysInPool ==
    \A u \in Upstreams :
        (changes = 0 /\ net[u] = "fast") =>
            /\ dns_upstreams[u] # NoRow => dns_upstreams[u].health_status # "degraded"
            /\ (pool = DesiredPool /\ dns_upstreams[u] # NoRow /\ dns_upstreams[u].is_active)
                  => \E n \in pool.nodes : n.id = u

(***************************************************************************)
(* docs/devops/deployment-review.md:293-294, automatic failover of the     *)
(* upstream servers is implemented; main.rs:214, "if status changed and    *)
(* failover_enabled, reload pool": an upstream that stays down for ever,   *)
(* with its checks and failover enabled, leaves the pool for good.         *)
(***************************************************************************)
DownUpstreamLeavesPool ==
    \A u \in Upstreams :
        <>[](/\ net[u] = "down" /\ dns_upstreams[u] # NoRow
             /\ dns_upstreams[u].is_active
             /\ dns_upstreams[u].health_check_enabled /\ dns_upstreams[u].failover_enabled)
            => <>[](\A n \in pool.nodes : n.id # u)

(***************************************************************************)
(* main.rs:227-230, "Upstream {} recovered": an upstream that answers for  *)
(* ever, with its checks enabled, comes back to the pool for good.         *)
(***************************************************************************)
RecoveredUpstreamReturns ==
    \A u \in Upstreams :
        <>[](/\ net[u] = "fast" /\ dns_upstreams[u] # NoRow
             /\ dns_upstreams[u].is_active
             /\ dns_upstreams[u].health_check_enabled /\ dns_upstreams[u].failover_enabled)
            => <>[](\E n \in pool.nodes : n.id = u)

(***************************************************************************)
(* Migration 002, "health_check_timeout BIGINT NOT NULL DEFAULT 5,         *)
(* -- seconds": an upstream that has always answered within that many      *)
(* seconds is not marked degraded.                                         *)
(***************************************************************************)
InTimeIsNotDegraded ==
    \A u \in Upstreams :
        changes = 0 /\ net[u] = "slow" /\ dns_upstreams[u] # NoRow
            => dns_upstreams[u].health_status # "degraded"

=============================================================================

------------------------ MODULE UpstreamHealthProofs ------------------------
(***************************************************************************)
(* Proofs about UpstreamHealth, for any upstreams, strategies, workers and *)
(* numbers of requests and network changes; and, below, about the access   *)
(* lists of DnsSettings, for any requests, queries and networks.           *)
(***************************************************************************)
EXTENDS UpstreamHealth, DnsSettings, TLAPS

(***************************************************************************)
(* What UpstreamPool::new makes of any table: nodes there are, the         *)
(* fallback is alone when it is there, and it is never probed.             *)
(***************************************************************************)
GoodPool(p) ==
    /\ p \in Pools
    /\ p.nodes # {}
    /\ \A n \in p.nodes : n.id = Fallback => p.nodes = {n}
    /\ \A n \in p.nodes : n.health_check_enabled => n.id \in Upstreams

(***************************************************************************)
(* What a process holds at the points where it goes on to use it: the row  *)
(* it works on, the row update has read, the pool a reload has built.      *)
(***************************************************************************)
ControlOK ==
    /\ GoodPool(pool)
    /\ \A p \in Procs :
          /\ pc[p] \in {"write", "update_row", "test", "test_write"} => row_id[p] \in Upstreams
          /\ pc[p] = "update_row" => row_read[p] \in Rows
          /\ pc[p] = "swap" => GoodPool(new_pool[p])

TypeInv == TypeOK /\ ControlOK

Tables == [Upstreams -> Rows \cup {NoRow}]

LEMMA ProcsMembers == Main \in Procs /\ Api \in Procs /\ Workers \subseteq Procs
BY DEF Procs

LEMMA NewPoolGood ==
    ASSUME NEW t \in Tables, NEW s \in Strategies
    PROVE  GoodPool(NewPool(t, s))
<1> DEFINE eligible == {v \in Upstreams : Eligible(t[v])}
           node(u) == [id |-> u, health_check_enabled |-> t[u].health_check_enabled]
           own == {node(u) : u \in eligible}
           fallback == [id |-> Fallback, health_check_enabled |-> FALSE]
<1>1. \A u \in eligible : t[u] \in Rows
    BY DEF Eligible, Tables
<1>2. \A u \in eligible : node(u) \in Nodes /\ node(u).id = u
    BY <1>1 DEF Nodes, Rows
<1>3. own \subseteq Nodes /\ \A n \in own : n.id \in Upstreams
    BY <1>2
<1>4. fallback \in Nodes /\ fallback.id = Fallback /\ ~fallback.health_check_enabled
    BY DEF Nodes
<1>5. NodesOf(t) = IF own = {} THEN {fallback} ELSE own
    BY DEF NodesOf
<1>6. /\ NodesOf(t) \subseteq Nodes /\ NodesOf(t) # {}
      /\ \A n \in NodesOf(t) : n.id = Fallback => NodesOf(t) = {n}
      /\ \A n \in NodesOf(t) : n.health_check_enabled => n.id \in Upstreams
    <2> HIDE DEF own, fallback
    <2> QED
        BY <1>3, <1>4, <1>5, UpstreamAssumption
<1> HIDE DEF own, fallback
<1> QED
    BY <1>6 DEF GoodPool, NewPool, Pools

LEMMA WithStatusType ==
    ASSUME TypeOK, NEW u \in Upstreams, NEW ok \in BOOLEAN
    PROVE  WithStatus(u, StatusOf(ok)) \in Tables
<1>1. StatusOf(ok) \in Statuses
    BY DEF StatusOf, Statuses
<1>2. CASE dns_upstreams[u] = NoRow
    BY <1>2 DEF WithStatus, TypeOK, Tables
<1>3. CASE dns_upstreams[u] # NoRow
    <2>1. dns_upstreams[u] \in Rows
        BY <1>3 DEF TypeOK
    <2>2. [dns_upstreams[u] EXCEPT !.health_status = StatusOf(ok)] \in Rows
        BY <1>1, <2>1 DEF Rows
    <2> QED
        BY <1>3, <2>2 DEF WithStatus, TypeOK, Tables
<1> QED
    BY <1>2, <1>3

LEMMA OwedWriteType ==
    ASSUME TypeOK, NEW p \in Procs, NEW t \in Tables, NEW s \in Strategies,
           OwedWrite(p, t, s)
    PROVE  /\ dns_upstreams' \in [Upstreams -> Rows \cup {NoRow}] /\ strategy' \in Strategies
           /\ owes' \in SUBSET Procs /\ tainted' \in SUBSET Procs /\ stale' \in BOOLEAN
BY DEF OwedWrite, OvertakenBy, TypeOK, Tables

LEMMA SilentWriteType ==
    ASSUME TypeOK, NEW t \in Tables, SilentWrite(t)
    PROVE  /\ dns_upstreams' \in [Upstreams -> Rows \cup {NoRow}] /\ strategy' \in Strategies
           /\ owes' \in SUBSET Procs /\ tainted' \in SUBSET Procs /\ stale' \in BOOLEAN
BY DEF SilentWrite, OvertakenBy, TypeOK, Tables

LEMMA ResetType ==
    ASSUME TypeOK, NEW p \in Procs, Reset(p)
    PROVE  /\ pc' \in [Procs -> Locations]
           /\ listed' \in [Procs -> Tables]
           /\ new_pool' \in [Procs -> Pools \cup {NoRow}]
           /\ \A q \in Procs : pc'[q] = IF q = p THEN "idle" ELSE pc[q]
           /\ \A q \in Procs : q # p => new_pool'[q] = new_pool[q]
<1>1. Nothing \in Tables
    BY DEF Nothing, Tables
<1> QED
    BY <1>1 DEF Reset, Goto, TypeOK, Tables, Locations

LEMMA InitTypeInv == Init => TypeInv
<1> SUFFICES ASSUME Init PROVE TypeInv
    OBVIOUS
<1>1. dns_upstreams \in Tables /\ Nothing \in Tables
    BY UpstreamAssumption DEF Init, Tables, Nothing
<1>2. GoodPool(pool)
    BY <1>1, NewPoolGood DEF Init, DesiredPool
<1>3. /\ pc \in [Procs -> Locations] /\ row_id \in [Procs -> Upstreams \cup {NoRow}]
      /\ row_read \in [Procs -> Rows \cup {NoRow}] /\ listed \in [Procs -> Tables]
      /\ success \in [Procs -> BOOLEAN] /\ new_pool \in [Procs -> Pools \cup {NoRow}]
    BY <1>1 DEF Init, Locations
<1>4. requests \in 0 .. MaxRequests /\ changes \in 0 .. MaxNetChanges
    BY UpstreamAssumption DEF Init
<1>5. /\ net \in [Upstreams -> NetStates] /\ strategy \in Strategies
      /\ results \in SUBSET [id : Upstreams, is_healthy : BOOLEAN]
      /\ needs_reload \in BOOLEAN /\ rows \in SUBSET Upstreams
      /\ owes \in SUBSET Procs /\ tainted \in SUBSET Procs /\ stale \in BOOLEAN
    BY Zenon DEF Init
<1>6. TypeOK
    BY <1>1, <1>2, <1>3, <1>4, <1>5 DEF TypeOK, Tables, GoodPool
<1>7. ControlOK
    BY <1>2 DEF Init, ControlOK
<1> QED
    BY <1>6, <1>7 DEF TypeInv

(***************************************************************************)
(* Every step keeps the types.                                             *)
(***************************************************************************)
LEMMA ReloadType ==
    ASSUME TypeInv, NEW p \in Procs, Reload(p) \/ ReloadFails(p)
    PROVE  TypeInv'
<1>a. TypeOK /\ ControlOK
    BY DEF TypeInv
<1>1. CASE ReloadList(p)
    <2>1. TypeOK'
        BY <1>a, <1>1, Zenon DEF ReloadList, Goto, TypeOK, Locations, Reloading, table, main_vars, history
    <2>2. ControlOK'
        BY <1>a, <1>1 DEF ReloadList, Goto, TypeOK, ControlOK, GoodPool
    <2> QED
        BY <2>1, <2>2 DEF TypeInv
<1>2. CASE ReloadStrategy(p)
    <2>1. GoodPool(NewPool(listed[p], strategy))
        BY <1>a, NewPoolGood DEF TypeOK, Tables
    <2>2. TypeOK'
        BY <1>a, <1>2, <2>1, Zenon
           DEF ReloadStrategy, Goto, TypeOK, Locations, Reloading, table, main_vars, history, GoodPool
    <2>3. ControlOK'
        BY <1>a, <1>2, <2>1 DEF ReloadStrategy, Goto, TypeOK, ControlOK, GoodPool
    <2> QED
        BY <2>2, <2>3 DEF TypeInv
<1>3. CASE ReloadSwap(p)
    <2>1. GoodPool(new_pool[p])
        BY <1>a, <1>3 DEF ReloadSwap, ControlOK
    <2>2. Reset(p)
        BY <1>3, Zenon DEF ReloadSwap
    <2>3. TypeOK'
        BY <1>a, <1>3, <2>1, <2>2, ResetType
           DEF ReloadSwap, TypeOK, Tables, table, main_vars, GoodPool
    <2>4. ControlOK'
        BY <1>a, <1>3, <2>1, <2>2, ResetType DEF ReloadSwap, ControlOK, GoodPool
    <2> QED
        BY <2>3, <2>4 DEF TypeInv
<1>4. CASE ReloadFails(p)
    <2>1. Reset(p)
        BY <1>4, Zenon DEF ReloadFails
    <2>2. TypeOK'
        BY <1>a, <1>4, <2>1, ResetType, Zenon DEF ReloadFails, TypeOK, Tables, table, main_vars
    <2>3. ControlOK'
        BY <1>a, <1>4, <2>1, ResetType DEF ReloadFails, ControlOK, GoodPool
    <2> QED
        BY <2>2, <2>3 DEF TypeInv
<1> QED
    BY <1>1, <1>2, <1>3, <1>4 DEF Reload

LEMMA MainType ==
    ASSUME TypeInv, MainStep
    PROVE  TypeInv'
<1>a. TypeOK /\ ControlOK /\ Main \in Procs
    BY ProcsMembers DEF TypeInv
<1>1. CASE MainProbe
    <2>1. Probed \subseteq Upstreams
        BY <1>a DEF Probed, ControlOK, GoodPool
    <2>2. \A u \in Probed : PoolProbe(u) \in BOOLEAN
        BY DEF PoolProbe
    <2>3. results' \in SUBSET [id : Upstreams, is_healthy : BOOLEAN]
        BY <1>1, <2>1, <2>2 DEF MainProbe
    <2>4. TypeOK'
        BY <1>a, <1>1, <2>3, Zenon DEF MainProbe, Goto, TypeOK, Locations, table, history
    <2>5. ControlOK'
        BY <1>a, <1>1 DEF MainProbe, Goto, TypeOK, ControlOK, GoodPool
    <2> QED
        BY <2>4, <2>5, Zenon DEF TypeInv
<1>2. CASE MainList \/ MainListFails
    <2>1. TypeOK'
        <3>1. CASE MainList
            BY <1>a, <3>1, Zenon DEF MainList, Goto, TypeOK, Locations, table, history
        <3>2. CASE MainListFails
            BY <1>a, <3>2, Zenon DEF MainListFails, Goto, TypeOK, Locations, table, history
        <3> QED
            BY <1>2, <3>1, <3>2
    <2>2. ControlOK'
        BY <1>a, <1>2 DEF MainList, MainListFails, Goto, TypeOK, ControlOK, GoodPool
    <2> QED
        BY <2>1, <2>2 DEF TypeInv
<1>3. ASSUME NEW r \in results, MainUpdate(r) PROVE TypeInv'
    <2>1. r.id \in Upstreams /\ r.is_healthy \in BOOLEAN
        BY <1>a, <1>3 DEF TypeOK
    <2>2. WithStatus(r.id, StatusOf(r.is_healthy)) \in Tables
        BY <1>a, <2>1, WithStatusType
    <2>3. /\ dns_upstreams' \in [Upstreams -> Rows \cup {NoRow}] /\ strategy' \in Strategies
          /\ owes' \in SUBSET Procs /\ tainted' \in SUBSET Procs /\ stale' \in BOOLEAN
        <3>1. strategy \in Strategies
            BY <1>a, Zenon DEF TypeOK
        <3> QED
            BY <1>a, <1>3, <2>2, <3>1, OwedWriteType, SilentWriteType DEF MainUpdate
    <2>4. needs_reload' \in BOOLEAN
        BY <1>a, <1>3 DEF MainUpdate, FailsOver, TypeOK
    <2>5. TypeOK'
        BY <1>a, <1>3, <2>3, <2>4, Zenon DEF MainUpdate, TypeOK
    <2>6. ControlOK'
        BY <1>a, <1>3, Zenon DEF MainUpdate, ControlOK, GoodPool
    <2> QED
        BY <2>5, <2>6 DEF TypeInv
<1>4. ASSUME NEW r \in results, MainUpdateFails(r) PROVE TypeInv'
    BY <1>a, <1>4 DEF MainUpdateFails, TypeInv, TypeOK, ControlOK, GoodPool, table, history
<1>5. CASE MainRoundEnds
    <2>1. Nothing \in Tables
        BY DEF Nothing, Tables
    <2>2. TypeOK'
        BY <1>a, <1>5, <2>1, Zenon
           DEF MainRoundEnds, Goto, TypeOK, Tables, Locations, Reloading, table, history
    <2>3. ControlOK'
        BY <1>a, <1>5 DEF MainRoundEnds, Goto, TypeOK, ControlOK, GoodPool
    <2> QED
        BY <2>2, <2>3 DEF TypeInv
<1> QED
    BY <1>1, <1>2, <1>3, <1>4, <1>5 DEF MainStep

LEMMA ApiType ==
    ASSUME TypeInv, ApiStep
    PROVE  TypeInv'
<1>a. TypeOK /\ ControlOK /\ Api \in Procs
    BY ProcsMembers DEF TypeInv
<1>1. CASE ApiList
    <2>1. TypeOK'
        BY <1>a, <1>1, Zenon DEF ApiList, Goto, TypeOK, Locations, table, main_vars, history
    <2>2. ControlOK'
        BY <1>a, <1>1 DEF ApiList, Goto, TypeOK, ControlOK, GoodPool
    <2> QED
        BY <2>1, <2>2 DEF TypeInv
<1>2. ASSUME NEW u \in Upstreams, ApiProbe(u) PROVE TypeInv'
    <2>1. RowProbe(u) \in BOOLEAN
        BY DEF RowProbe
    <2>2. TypeOK'
        BY <1>a, <1>2, <2>1 DEF ApiProbe, Goto, TypeOK, Locations, table, main_vars, history
    <2>3. ControlOK'
        BY <1>a, <1>2, Zenon DEF ApiProbe, Goto, TypeOK, ControlOK, GoodPool
    <2> QED
        BY <2>2, <2>3 DEF TypeInv
<1>3. CASE ApiWrite
    <2>1. row_id[Api] \in Upstreams /\ success[Api] \in BOOLEAN
        BY <1>a, <1>3, Zenon DEF ApiWrite, TypeOK, ControlOK
    <2>2. WithStatus(row_id[Api], StatusOf(success[Api])) \in Tables
        BY <1>a, <2>1, WithStatusType
    <2>3. /\ dns_upstreams' \in [Upstreams -> Rows \cup {NoRow}] /\ strategy' \in Strategies
          /\ owes' \in SUBSET Procs /\ tainted' \in SUBSET Procs /\ stale' \in BOOLEAN
        BY <1>a, <1>3, <2>2, SilentWriteType DEF ApiWrite
    <2>4. TypeOK'
        BY <1>a, <1>3, <2>3, Zenon
           DEF ApiWrite, ApiNext, Goto, TypeOK, Locations, main_vars
    <2>5. ControlOK'
        BY <1>a, <1>3 DEF ApiWrite, ApiNext, Goto, TypeOK, ControlOK, GoodPool
    <2> QED
        BY <2>4, <2>5 DEF TypeInv
<1>4. CASE ApiWriteFails
    <2>1. TypeOK'
        BY <1>a, <1>4, Zenon
           DEF ApiWriteFails, ApiNext, Goto, TypeOK, Locations, table, main_vars, history
    <2>2. ControlOK'
        BY <1>a, <1>4, Zenon DEF ApiWriteFails, ApiNext, Goto, TypeOK, ControlOK, GoodPool
    <2> QED
        BY <2>1, <2>2 DEF TypeInv
<1> QED
    BY <1>1, <1>2, <1>3, <1>4 DEF ApiStep

LEMMA WriteAndReloadType ==
    ASSUME TypeInv, NEW p \in Procs, NEW t \in Tables, NEW s \in Strategies,
           WriteAndReload(p, t, s), requests' \in 0 .. MaxRequests,
           row_id' \in [Procs -> Upstreams \cup {NoRow}],
           row_read' \in [Procs -> Rows \cup {NoRow}],
           \A q \in Procs : q # p => row_id'[q] = row_id[q] /\ row_read'[q] = row_read[q]
    PROVE  TypeInv'
<1>a. TypeOK /\ ControlOK
    BY Zenon DEF TypeInv
<1>1. TypeOK'
    BY <1>a, OwedWriteType, Zenon DEF WriteAndReload, Goto, TypeOK, Locations, Reloading, main_vars
<1>2. ControlOK'
    BY <1>a DEF WriteAndReload, Goto, TypeOK, ControlOK, GoodPool
<1> QED
    BY <1>1, <1>2 DEF TypeInv

LEMMA RequestType ==
    ASSUME TypeOK, NEW p \in Procs, Request(p)
    PROVE  requests' \in 0 .. MaxRequests /\ pc[p] = "idle"
BY UpstreamAssumption DEF Request, TypeOK

LEMMA UpdatedType ==
    ASSUME TypeInv, NEW p \in Procs, pc[p] = "update_row",
           NEW flag \in {"is_active", "health_check_enabled", "failover_enabled"},
           NEW value \in BOOLEAN
    PROVE  (IF dns_upstreams[row_id[p]] = NoRow THEN dns_upstreams
            ELSE [dns_upstreams EXCEPT
                     ![row_id[p]] = [[row_read[p] EXCEPT ![flag] = value] EXCEPT
                                        !.health_status = dns_upstreams[row_id[p]].health_status]])
           \in Tables
<1> DEFINE u == row_id[p]
           set == [row_read[p] EXCEPT ![flag] = value]
<1>1. u \in Upstreams /\ row_read[p] \in Rows /\ dns_upstreams \in Tables
    BY DEF TypeInv, TypeOK, ControlOK, Tables
<1>2. set \in Rows
    <2>1. CASE flag = "is_active"
        BY <1>1, <2>1 DEF Rows
    <2>2. CASE flag = "health_check_enabled"
        BY <1>1, <2>2 DEF Rows
    <2>3. CASE flag = "failover_enabled"
        BY <1>1, <2>3 DEF Rows
    <2> QED
        BY <2>1, <2>2, <2>3
<1>3. CASE dns_upstreams[u] # NoRow
    <2>1. dns_upstreams[u].health_status \in Statuses
        BY <1>1, <1>3 DEF Tables, Rows
    <2> HIDE DEF set
    <2>2. [set EXCEPT !.health_status = dns_upstreams[u].health_status] \in Rows
        BY <1>2, <2>1 DEF Rows
    <2>3. [dns_upstreams EXCEPT
              ![u] = [set EXCEPT !.health_status = dns_upstreams[u].health_status]] \in Tables
        BY <1>1, <2>2 DEF Tables
    <2> QED
        BY <1>3, <2>3, Zenon DEF set
<1> QED
    BY <1>1, <1>3, Zenon

LEMMA HandlerType ==
    ASSUME TypeInv, NEW p \in Workers, Handler(p)
    PROVE  TypeInv'
<1>a. TypeOK /\ ControlOK /\ p \in Procs /\ dns_upstreams \in Tables /\ strategy \in Strategies
    BY ProcsMembers DEF TypeInv, TypeOK, Tables
<1>b. /\ row_id \in [Procs -> Upstreams \cup {NoRow}]
      /\ row_read \in [Procs -> Rows \cup {NoRow}]
    BY <1>a, Zenon DEF TypeOK
<1>1. ASSUME NEW u \in Upstreams, Create(p, u) PROVE TypeInv'
    <2> DEFINE row == [is_active |-> TRUE, health_check_enabled |-> TRUE,
                       failover_enabled |-> TRUE, health_status |-> "unknown"]
    <2>1. row \in Rows
        BY DEF Rows, Statuses
    <2>2. WriteAndReload(p, [dns_upstreams EXCEPT ![u] = row], strategy)
        BY <1>1 DEF Create
    <2> HIDE DEF row
    <2>3. [dns_upstreams EXCEPT ![u] = row] \in Tables
        BY <1>a, <2>1, Zenon DEF Tables
    <2> QED
        BY <1>1, <1>a, <1>b, <2>2, <2>3, RequestType, WriteAndReloadType, Zenon DEF Create
<1>2. ASSUME NEW u \in Upstreams, Delete(p, u) PROVE TypeInv'
    <2>1. [dns_upstreams EXCEPT ![u] = NoRow] \in Tables
        BY <1>a DEF Tables
    <2> QED
        BY <1>2, <1>a, <1>b, <2>1, RequestType, WriteAndReloadType DEF Delete
<1>3. ASSUME NEW s \in Strategies, UpdateStrategy(p, s) PROVE TypeInv'
    BY <1>3, <1>a, <1>b, RequestType, WriteAndReloadType DEF UpdateStrategy
<1>4. ASSUME NEW u \in Upstreams, ReadForUpdate(p, u) PROVE TypeInv'
    <2>1. dns_upstreams[u] \in Rows
        BY <1>a, <1>4, Zenon DEF ReadForUpdate, Tables
    <2>2. TypeOK'
        BY <1>4, <1>a, <2>1, RequestType, Zenon
           DEF ReadForUpdate, Goto, TypeOK, Locations, table, main_vars, history
    <2>3. ControlOK'
        BY <1>4, <1>a, <2>1, Zenon DEF ReadForUpdate, Goto, TypeOK, ControlOK, GoodPool
    <2> QED
        BY <2>2, <2>3 DEF TypeInv
<1>5. ASSUME NEW flag \in {"is_active", "health_check_enabled", "failover_enabled"},
             NEW value \in BOOLEAN, Update(p, flag, value)
      PROVE  TypeInv'
    <2> DEFINE u == row_id[p]
               set == [row_read[p] EXCEPT ![flag] = value]
               t == IF dns_upstreams[u] = NoRow THEN dns_upstreams
                    ELSE [dns_upstreams EXCEPT
                             ![u] = [set EXCEPT !.health_status = dns_upstreams[u].health_status]]
    <2>1. pc[p] = "update_row" /\ WriteAndReload(p, t, strategy)
        BY <1>5, Zenon DEF Update
    <2>2. t \in Tables
        BY <1>a, <2>1, UpdatedType, Zenon
    <2>3. /\ row_id' \in [Procs -> Upstreams \cup {NoRow}]
          /\ row_read' \in [Procs -> Rows \cup {NoRow}]
          /\ requests' \in 0 .. MaxRequests
          /\ \A q \in Procs : q # p => row_id'[q] = row_id[q] /\ row_read'[q] = row_read[q]
        BY <1>5, <1>a, <1>b, Zenon DEF Update, TypeOK
    <2> HIDE DEF t
    <2> QED
        BY <1>a, <2>1, <2>2, <2>3, WriteAndReloadType
<1>6. ASSUME NEW u \in Upstreams, Test(p, u) PROVE TypeInv'
    <2>1. TypeOK'
        BY <1>6, <1>a, RequestType
           DEF Test, Goto, TypeOK, Locations, table, main_vars, history
    <2>2. ControlOK'
        BY <1>6, <1>a, Zenon DEF Test, Goto, TypeOK, ControlOK, GoodPool
    <2> QED
        BY <2>1, <2>2 DEF TypeInv
<1>7. CASE TestProbe(p)
    <2>1. RowProbe(row_id[p]) \in BOOLEAN
        BY DEF RowProbe
    <2>2. TypeOK'
        BY <1>7, <1>a, <2>1 DEF TestProbe, Goto, TypeOK, Locations, table, main_vars, history
    <2>3. ControlOK'
        BY <1>7, <1>a, Zenon DEF TestProbe, Goto, TypeOK, ControlOK, GoodPool
    <2> QED
        BY <2>2, <2>3 DEF TypeInv
<1>8. CASE TestWrite(p)
    <2>1. row_id[p] \in Upstreams /\ success[p] \in BOOLEAN
        BY <1>8, <1>a, Zenon DEF TestWrite, TypeOK, ControlOK
    <2>2. WithStatus(row_id[p], StatusOf(success[p])) \in Tables
        BY <1>a, <2>1, WithStatusType, Zenon
    <2>3. /\ dns_upstreams' \in [Upstreams -> Rows \cup {NoRow}] /\ strategy' \in Strategies
          /\ owes' \in SUBSET Procs /\ tainted' \in SUBSET Procs /\ stale' \in BOOLEAN
        BY <1>8, <1>a, <2>2, SilentWriteType, Zenon DEF TestWrite
    <2>4. TypeOK'
        BY <1>8, <1>a, <2>3 DEF TestWrite, Goto, TypeOK, Locations, main_vars
    <2>5. ControlOK'
        BY <1>8, <1>a, Zenon DEF TestWrite, Goto, TypeOK, ControlOK, GoodPool
    <2> QED
        BY <2>4, <2>5 DEF TypeInv
<1>9. CASE Abandon(p)
    <2>1. TypeOK'
        BY <1>9, <1>a DEF Abandon, Goto, TypeOK, Locations, table, main_vars, history
    <2>2. ControlOK'
        BY <1>9, <1>a, Zenon DEF Abandon, Goto, TypeOK, ControlOK, GoodPool
    <2> QED
        BY <2>1, <2>2 DEF TypeInv
<1> QED
    BY <1>1, <1>2, <1>3, <1>4, <1>5, <1>6, <1>7, <1>8, <1>9, Zenon DEF Handler

LEMMA NextTypeInv ==
    ASSUME TypeInv, [Next]_vars
    PROVE  TypeInv'
<1>1. ASSUME NEW u \in Upstreams, NEW state \in NetStates, NetChange(u, state)
      PROVE  TypeInv'
    <2>1. UNCHANGED <<dns_upstreams, strategy, pool, pc, row_id, row_read, listed, results,
                      needs_reload, rows, success, new_pool, requests, owes, tainted, stale>>
        BY <1>1 DEF NetChange, table, main_vars, history
    <2>2. net' \in [Upstreams -> NetStates]
        BY <1>1, Zenon DEF NetChange, TypeInv, TypeOK
    <2>3. changes' \in 0 .. MaxNetChanges
        BY <1>1, UpstreamAssumption DEF NetChange, TypeInv, TypeOK
    <2>4. TypeOK'
        BY <2>1, <2>2, <2>3, Zenon DEF TypeInv, TypeOK
    <2>5. ControlOK'
        BY <2>1, Zenon DEF TypeInv, ControlOK, GoodPool
    <2> QED
        BY <2>4, <2>5 DEF TypeInv
<1>2. CASE UNCHANGED vars
    BY <1>2 DEF vars, TypeInv, TypeOK, ControlOK, GoodPool, table, main_vars, history
<1>3. \A p \in Workers \cup {Main} : p \in Procs
    BY ProcsMembers
<1> QED
    BY <1>1, <1>2, <1>3, MainType, ApiType, HandlerType, ReloadType DEF Next

LEMMA SpecTypeInv == Spec => []TypeInv
<1> QED
    BY InitTypeInv, NextTypeInv, PTL DEF Spec

(***************************************************************************)
(* The table, the pool and every task and handler hold values of their     *)
(* types throughout: in particular the health check of main never probes   *)
(* the fallback node.                                                      *)
(***************************************************************************)
THEOREM TypeCorrect == Spec => []TypeOK
<1>1. TypeInv => TypeOK
    BY Zenon DEF TypeInv
<1> QED
    BY <1>1, SpecTypeInv, PTL

(***************************************************************************)
(* Whatever is in the table and whoever reloads, queries find a node, and  *)
(* the fallback only where no row qualifies.                               *)
(***************************************************************************)
THEOREM NeverEmpty == Spec => []PoolNeverEmpty
<1>1. TypeInv => PoolNeverEmpty
    BY DEF TypeInv, ControlOK, GoodPool, PoolNeverEmpty
<1> QED
    BY <1>1, SpecTypeInv, PTL

-----------------------------------------------------------------------------
(***************************************************************************)
(* PoolFollowsTable is not inductive: that a swap installs the right pool  *)
(* rests on what the reload has read.  ReadSoFar says what that is for a   *)
(* reload no write has overtaken; OwesOK says that a debt is held only on  *)
(* the way to a swap, and that only a reload that has read is overtaken.   *)
(***************************************************************************)
OwesOK ==
    /\ \A p \in owes :
          pc[p] \in Reloading \/ (p = Main /\ pc[p] = "update" /\ needs_reload)
    /\ \A p \in tainted : pc[p] \in {"strategy", "swap"}

ReadSoFar(p) ==
    p \notin tainted =>
        /\ pc[p] = "strategy" => NodesOf(listed[p]) = NodesOf(dns_upstreams)
        /\ pc[p] = "swap" => new_pool[p] = DesiredPool

Reads == \A p \in Procs : ReadSoFar(p)

PoolInv == OwesOK /\ Reads /\ PoolFollowsTable

LEMMA InitPoolInv == Init => PoolInv
BY Zenon DEF Init, PoolInv, OwesOK, Reads, ReadSoFar, PoolFollowsTable

\* A write: a reload that has read what it changes is overtaken, the others
\* have read nothing of it.
LEMMA WriteKeepsReads ==
    ASSUME TypeInv, PoolInv, NEW t \in Tables, NEW s \in Strategies,
           t = dns_upstreams \/ s = strategy,
           dns_upstreams' = t, strategy' = s, tainted' = OvertakenBy(t, s),
           NEW q \in Procs, pc'[q] = pc[q], listed'[q] = listed[q], new_pool'[q] = new_pool[q]
    PROVE  ReadSoFar(q)'
<1>1. DesiredPool' = NewPool(t, s)
    BY DEF DesiredPool
<1>2. ReadSoFar(q)
    BY Zenon DEF PoolInv, Reads
<1>3. CASE NewPool(t, s) = DesiredPool
    <2>1. NodesOf(t) = NodesOf(dns_upstreams)
        BY <1>3, Zenon DEF NewPool, DesiredPool
    <2> QED
        BY <1>1, <1>2, <1>3, <2>1, Zenon DEF ReadSoFar, OvertakenBy
<1>4. CASE NewPool(t, s) # DesiredPool /\ s = strategy
    BY <1>4, Zenon DEF ReadSoFar, OvertakenBy
<1>5. CASE NewPool(t, s) # DesiredPool /\ t = dns_upstreams
    BY <1>2, <1>5 DEF ReadSoFar, OvertakenBy
<1> QED
    BY <1>3, <1>4, <1>5, Zenon

LEMMA OvertakenAreReading ==
    ASSUME PoolInv, NEW t, NEW s
    PROVE  /\ tainted \subseteq OvertakenBy(t, s)
           /\ \A p \in OvertakenBy(t, s) : pc[p] \in {"strategy", "swap"}
BY DEF OvertakenBy, PoolInv, OwesOK

\* A write with a reload of p to follow, on its way there or beginning it.
LEMMA OwedWriteInv ==
    ASSUME TypeInv, PoolInv, NEW p \in Procs, NEW t \in Tables, NEW s \in Strategies,
           t = dns_upstreams \/ s = strategy, OwedWrite(p, t, s),
           pc[p] \notin Reloading, UNCHANGED <<pool, listed, new_pool>>,
           \/ pc' = [pc EXCEPT ![p] = "list"] /\ UNCHANGED needs_reload
           \/ p = Main /\ pc[p] = "update" /\ pc' = pc /\ needs_reload'
    PROVE  PoolInv'
<1>a. pc \in [Procs -> Locations] /\ owes \subseteq Procs /\ tainted \subseteq Procs
    BY DEF TypeInv, TypeOK
<1>b. /\ tainted' = OvertakenBy(t, s) /\ owes' = owes \cup {p} /\ stale' = stale
      /\ dns_upstreams' = t /\ strategy' = s
    BY DEF OwedWrite
<1>1. \A q \in Procs : q # p => pc'[q] = pc[q]
    BY <1>a
<1>2. p \notin tainted'
    BY <1>b, OvertakenAreReading DEF Reloading
<1>3. OwesOK'
    <2>1. \A q \in owes' :
             pc'[q] \in Reloading \/ (q = Main /\ pc'[q] = "update" /\ needs_reload')
        BY <1>a, <1>b, <1>1 DEF PoolInv, OwesOK, Reloading
    <2>2. \A q \in tainted' : pc'[q] \in {"strategy", "swap"}
        <3>1. tainted' \subseteq Procs
            BY <1>a, <1>b DEF OvertakenBy
        <3> QED
            BY <1>b, <1>1, <1>2, <3>1, OvertakenAreReading, Zenon
    <2> QED
        BY <2>1, <2>2, Zenon DEF OwesOK
<1>4. ReadSoFar(p)'
    BY <1>a, Zenon DEF ReadSoFar, Reloading
<1>5. \A q \in Procs : q # p => ReadSoFar(q)'
    BY <1>b, <1>1, WriteKeepsReads
<1>6. PoolFollowsTable'
    BY <1>b, <1>2 DEF PoolFollowsTable
<1> QED
    BY <1>3, <1>4, <1>5, <1>6, Zenon DEF PoolInv, Reads

\* A write with no reload to follow, by a process that is not reloading.
LEMMA SilentWriteInv ==
    ASSUME TypeInv, PoolInv, NEW p \in Procs, NEW t \in Tables, SilentWrite(t),
           pc[p] \notin Reloading, UNCHANGED <<pool, listed, new_pool, needs_reload>>,
           \/ pc' = pc
           \/ /\ p # Main
              /\ \E to \in Locations \ Reloading : pc' = [pc EXCEPT ![p] = to]
    PROVE  PoolInv'
<1>a. /\ pc \in [Procs -> Locations] /\ owes \subseteq Procs /\ tainted \subseteq Procs
      /\ strategy \in Strategies
    BY Zenon DEF TypeInv, TypeOK
<1>b. /\ tainted' = OvertakenBy(t, strategy) /\ owes' = owes
      /\ dns_upstreams' = t /\ strategy' = strategy
      /\ stale' = (stale \/ (NewPool(t, strategy) # DesiredPool /\ owes \subseteq tainted'))
    BY DEF SilentWrite
<1>1. /\ \A q \in Procs : q # p => pc'[q] = pc[q]
      /\ pc'[p] \notin Reloading
    BY <1>a, Zenon
<1>2. p \notin tainted' /\ tainted' \subseteq Procs
    BY <1>a, <1>b, OvertakenAreReading DEF Reloading, OvertakenBy
<1>3. OwesOK'
    <2>1. \A q \in owes :
             pc'[q] \in Reloading \/ (q = Main /\ pc'[q] = "update" /\ needs_reload')
        BY <1>a, <1>1 DEF PoolInv, OwesOK
    <2>2. \A q \in tainted' : pc'[q] \in {"strategy", "swap"}
        BY <1>b, <1>1, <1>2, OvertakenAreReading
    <2> QED
        BY <1>b, <2>1, <2>2 DEF OwesOK
<1>4. ReadSoFar(p)'
    BY <1>1, Zenon DEF ReadSoFar, Reloading
<1>5. \A q \in Procs : q # p => ReadSoFar(q)'
    BY <1>a, <1>b, <1>1, WriteKeepsReads
<1>6. PoolFollowsTable'
    <2>1. DesiredPool' = NewPool(t, strategy)
        BY <1>b DEF DesiredPool
    <2>2. CASE NewPool(t, strategy) = DesiredPool
        BY <1>b, <2>1, <2>2, Zenon DEF PoolInv, PoolFollowsTable, OvertakenBy
    <2>3. CASE NewPool(t, strategy) # DesiredPool
        BY <1>b, <2>3, Zenon DEF PoolFollowsTable
    <2> QED
        BY <2>2, <2>3
<1> QED
    BY <1>3, <1>4, <1>5, <1>6, Zenon DEF PoolInv, Reads

\* A step that writes nothing the invariant is about, outside a reload.
LEMMA QuietInv ==
    ASSUME TypeInv, PoolInv, NEW p \in Procs, UNCHANGED <<table, pool, new_pool, history>>,
           pc[p] \notin Reloading,
           \/ pc' = pc
           \/ \E to \in Locations \ Reloading : pc' = [pc EXCEPT ![p] = to],
           p \notin owes' \/ (pc' = pc /\ UNCHANGED needs_reload),
           p = Main \/ UNCHANGED needs_reload,
           \A q \in Procs : q # p => listed'[q] = listed[q]
    PROVE  PoolInv'
<1>a. pc \in [Procs -> Locations] /\ owes \subseteq Procs /\ tainted \subseteq Procs
    BY DEF TypeInv, TypeOK
<1>b. /\ owes' = owes /\ tainted' = tainted /\ stale' = stale /\ pool' = pool
      /\ new_pool' = new_pool /\ dns_upstreams' = dns_upstreams /\ strategy' = strategy
    BY Zenon DEF table, history
<1>1. /\ \A q \in Procs : q # p => pc'[q] = pc[q]
      /\ pc'[p] \notin Reloading
    BY <1>a, Zenon
<1>2. p \notin tainted
    BY Zenon DEF PoolInv, OwesOK, Reloading
<1>3. OwesOK'
    BY <1>a, <1>b, <1>1, <1>2 DEF PoolInv, OwesOK
<1>4. Reads'
    BY <1>b, <1>1 DEF PoolInv, Reads, ReadSoFar, DesiredPool, Reloading
<1>5. PoolFollowsTable'
    BY <1>b DEF PoolInv, PoolFollowsTable, DesiredPool
<1> QED
    BY <1>3, <1>4, <1>5, Zenon DEF PoolInv

LEMMA ReloadPoolInv ==
    ASSUME TypeInv, PoolInv, NEW p \in Procs, Reload(p) \/ ReloadFails(p)
    PROVE  PoolInv'
<1>a. /\ pc \in [Procs -> Locations] /\ owes \subseteq Procs /\ tainted \subseteq Procs
      /\ listed \in [Procs -> Tables] /\ new_pool \in [Procs -> Pools \cup {NoRow}]
    BY DEF TypeInv, TypeOK, Tables
<1>1. CASE ReloadList(p)
    <2>1. /\ pc[p] = "list" /\ pc'[p] = "strategy" /\ listed'[p] = dns_upstreams
          /\ \A q \in Procs : q # p => pc'[q] = pc[q] /\ listed'[q] = listed[q]
          /\ UNCHANGED <<dns_upstreams, strategy, pool, new_pool, owes, tainted, stale,
                         needs_reload>>
        BY <1>1, <1>a, Zenon DEF ReloadList, Goto, table, main_vars, history
    <2>2. OwesOK'
        BY <1>a, <2>1 DEF PoolInv, OwesOK, Reloading
    <2>3. Reads'
        BY <2>1, ZenonT(30) DEF PoolInv, Reads, ReadSoFar, DesiredPool
    <2>4. PoolFollowsTable'
        BY <2>1, Zenon DEF PoolInv, PoolFollowsTable, DesiredPool
    <2> QED
        BY <2>2, <2>3, <2>4 DEF PoolInv
<1>2. CASE ReloadStrategy(p)
    <2>1. /\ pc[p] = "strategy" /\ pc'[p] = "swap"
          /\ new_pool'[p] = NewPool(listed[p], strategy)
          /\ \A q \in Procs : q # p => pc'[q] = pc[q] /\ new_pool'[q] = new_pool[q]
          /\ UNCHANGED <<dns_upstreams, strategy, pool, listed, owes, tainted, stale,
                         needs_reload>>
        BY <1>2, <1>a DEF ReloadStrategy, Goto, table, main_vars, history
    <2>2. OwesOK'
        BY <1>a, <2>1, ZenonT(30) DEF PoolInv, OwesOK, Reloading
    <2>3. Reads'
        <3>1. p \notin tainted => new_pool'[p] = DesiredPool
            BY <2>1, Zenon DEF PoolInv, Reads, ReadSoFar, DesiredPool, NewPool
        <3> QED
            BY <2>1, <3>1, Zenon DEF PoolInv, Reads, ReadSoFar, DesiredPool
    <2>4. PoolFollowsTable'
        BY <2>1 DEF PoolInv, PoolFollowsTable, DesiredPool
    <2> QED
        BY <2>2, <2>3, <2>4 DEF PoolInv
<1>3. CASE ReloadSwap(p)
    <2>1. /\ pc[p] = "swap" /\ pc'[p] = "idle" /\ pool' = new_pool[p]
          /\ stale' = (p \in tainted) /\ owes' = owes \ {p} /\ tainted' = tainted \ {p}
          /\ \A q \in Procs : q # p => /\ pc'[q] = pc[q] /\ listed'[q] = listed[q]
                                       /\ new_pool'[q] = new_pool[q]
          /\ UNCHANGED <<dns_upstreams, strategy, needs_reload>>
        BY <1>3, <1>a, Zenon DEF ReloadSwap, Reset, Goto, table, main_vars
    <2>2. OwesOK'
        BY <1>a, <2>1 DEF PoolInv, OwesOK, Reloading
    <2>3. Reads'
        BY <2>1, Zenon DEF PoolInv, Reads, ReadSoFar, DesiredPool
    <2>4. PoolFollowsTable'
        BY <2>1, Zenon DEF PoolInv, Reads, ReadSoFar, PoolFollowsTable, DesiredPool
    <2> QED
        BY <2>2, <2>3, <2>4 DEF PoolInv
<1>4. CASE ReloadFails(p)
    <2>1. /\ pc'[p] = "idle" /\ stale' = (stale \/ p \in owes)
          /\ owes' = owes \ {p} /\ tainted' = tainted \ {p}
          /\ \A q \in Procs : q # p => /\ pc'[q] = pc[q] /\ listed'[q] = listed[q]
                                       /\ new_pool'[q] = new_pool[q]
          /\ UNCHANGED <<dns_upstreams, strategy, pool, needs_reload>>
        BY <1>4, <1>a DEF ReloadFails, Reset, Goto, table, main_vars
    <2>2. OwesOK'
        BY <1>a, <2>1, Zenon DEF PoolInv, OwesOK, Reloading
    <2>3. Reads'
        BY <2>1 DEF PoolInv, Reads, ReadSoFar, DesiredPool
    <2>4. PoolFollowsTable'
        BY <2>1, Zenon DEF PoolInv, PoolFollowsTable, DesiredPool
    <2> QED
        BY <2>2, <2>3, <2>4 DEF PoolInv
<1> QED
    BY <1>1, <1>2, <1>3, <1>4, Zenon DEF Reload

LEMMA MainPoolInv ==
    ASSUME TypeInv, PoolInv, MainStep
    PROVE  PoolInv'
<1>a. /\ TypeOK /\ Main \in Procs /\ pc \in [Procs -> Locations]
      /\ listed \in [Procs -> Tables] /\ strategy \in Strategies /\ owes \subseteq Procs
    BY ProcsMembers DEF TypeInv, TypeOK, Tables
<1>b. {"idle", "listing", "update"} \subseteq Locations \ Reloading
    BY DEF Locations, Reloading
<1>1. CASE MainProbe \/ MainList \/ MainListFails
    <2>1. /\ pc[Main] \in {"idle", "listing"}
          /\ \E to \in {"idle", "listing", "update"} : pc' = [pc EXCEPT ![Main] = to]
          /\ \A q \in Procs : q # Main => listed'[q] = listed[q]
          /\ UNCHANGED <<table, pool, new_pool, history>>
        BY <1>1, <1>a, Zenon DEF MainProbe, MainList, MainListFails, Goto
    <2>2. Main \notin owes'
        BY <2>1 DEF PoolInv, OwesOK, Reloading, history
    <2> QED
        BY <1>a, <1>b, <2>1, <2>2, QuietInv, Zenon
<1>2. ASSUME NEW r \in results, MainUpdate(r) PROVE PoolInv'
    <2> DEFINE t == WithStatus(r.id, StatusOf(r.is_healthy))
    <2>1. r.id \in Upstreams /\ r.is_healthy \in BOOLEAN
        BY <1>2, <1>a DEF TypeOK
    <2>2. t \in Tables
        BY <1>a, <2>1, WithStatusType, Zenon
    <2>3. /\ pc[Main] = "update" /\ pc' = pc /\ UNCHANGED <<pool, listed, new_pool>>
          /\ pc[Main] \notin Reloading
        BY <1>2, <1>b DEF MainUpdate
    <2>4. needs_reload \in BOOLEAN /\ needs_reload' = (needs_reload \/ FailsOver(r))
        BY <1>2, <1>a, Zenon DEF MainUpdate, TypeOK
    <2>5. CASE needs_reload'
        <3>1. OwedWrite(Main, t, strategy)
            BY <1>2, <2>5, Zenon DEF MainUpdate
        <3> HIDE DEF t
        <3> QED
            BY <1>a, <2>2, <2>3, <2>5, <3>1, OwedWriteInv, Zenon
    <2>6. CASE ~needs_reload'
        <3>1. SilentWrite(t)
            BY <1>2, <2>6 DEF MainUpdate
        <3>2. needs_reload' = needs_reload
            BY <2>4, <2>6, Zenon DEF FailsOver
        <3> HIDE DEF t
        <3> QED
            BY <1>a, <2>2, <2>3, <3>1, <3>2, SilentWriteInv, Zenon
    <2> QED
        BY <2>5, <2>6, Zenon
<1>3. ASSUME NEW r \in results, MainUpdateFails(r) PROVE PoolInv'
    <2>1. /\ pc[Main] = "update" /\ pc' = pc
          /\ UNCHANGED <<table, pool, new_pool, history, listed, needs_reload>>
        BY <1>3 DEF MainUpdateFails
    <2> QED
        BY <1>a, <1>b, <2>1, QuietInv, Zenon
<1>4. CASE MainRoundEnds /\ needs_reload
    <2>1. /\ pc[Main] = "update" /\ pc' = [pc EXCEPT ![Main] = "list"]
          /\ \A q \in Procs : q # Main => pc'[q] = pc[q] /\ listed'[q] = listed[q]
          /\ UNCHANGED <<dns_upstreams, strategy, pool, new_pool, owes, tainted, stale>>
        BY <1>4, <1>a DEF MainRoundEnds, Goto, table, history
    <2>2. pc'[Main] = "list"
        BY <1>a, <2>1, Zenon
    <2>3. OwesOK'
        BY <1>a, <2>1, <2>2, Zenon DEF TypeOK, PoolInv, OwesOK, Reloading
    <2>4. Reads'
        BY <2>1, <2>2, Zenon DEF PoolInv, Reads, ReadSoFar, DesiredPool
    <2>5. PoolFollowsTable'
        BY <2>1 DEF PoolInv, PoolFollowsTable, DesiredPool
    <2> QED
        BY <2>3, <2>4, <2>5, Zenon DEF PoolInv
<1>5. CASE MainRoundEnds /\ ~needs_reload
    <2>1. /\ pc[Main] = "update" /\ pc' = [pc EXCEPT ![Main] = "idle"]
          /\ \A q \in Procs : q # Main => listed'[q] = listed[q]
          /\ UNCHANGED <<table, pool, new_pool, history>>
        BY <1>5, <1>a, Zenon DEF MainRoundEnds, Goto
    <2>2. Main \notin owes'
        BY <1>5, <2>1 DEF PoolInv, OwesOK, Reloading, history
    <2> QED
        BY <1>a, <1>b, <2>1, <2>2, QuietInv, Zenon
<1> QED
    BY <1>1, <1>2, <1>3, <1>4, <1>5, Zenon DEF MainStep

LEMMA ApiPoolInv ==
    ASSUME TypeInv, PoolInv, ApiStep
    PROVE  PoolInv'
<1>a. TypeOK /\ Api \in Procs /\ Api # Main
    BY ProcsMembers, UpstreamAssumption DEF TypeInv
<1>b. {"idle", "probe", "write"} \subseteq Locations \ Reloading
    BY DEF Locations, Reloading
<1>1. CASE ApiList \/ (\E u \in Upstreams : ApiProbe(u)) \/ ApiWriteFails
    <2>1. /\ pc[Api] \in {"idle", "probe", "write"}
          /\ \E to \in {"idle", "probe", "write"} : pc' = [pc EXCEPT ![Api] = to]
          /\ UNCHANGED <<table, pool, new_pool, history, listed, needs_reload>>
        BY <1>1, Zenon DEF ApiList, ApiProbe, ApiWriteFails, ApiNext, Goto, main_vars
    <2>2. Api \notin owes'
        BY <1>a, <2>1 DEF PoolInv, OwesOK, Reloading, history
    <2> QED
        BY <1>a, <1>b, <2>1, <2>2, QuietInv, Zenon
<1>2. CASE ApiWrite
    <2> DEFINE t == WithStatus(row_id[Api], StatusOf(success[Api]))
    <2>1. row_id[Api] \in Upstreams /\ success[Api] \in BOOLEAN
        BY <1>a, <1>2, Zenon DEF ApiWrite, TypeInv, TypeOK, ControlOK
    <2>2. t \in Tables
        BY <1>a, <2>1, WithStatusType
    <2>3. /\ SilentWrite(t) /\ pc[Api] = "write"
          /\ \E to \in {"idle", "probe"} : pc' = [pc EXCEPT ![Api] = to]
          /\ UNCHANGED <<pool, listed, new_pool, needs_reload>>
        BY <1>2, Zenon DEF ApiWrite, ApiNext, Goto, main_vars
    <2> HIDE DEF t
    <2> QED
        BY <1>a, <1>b, <2>2, <2>3, SilentWriteInv, Zenon
<1> QED
    BY <1>1, <1>2 DEF ApiStep

LEMMA HandlerPoolInv ==
    ASSUME TypeInv, PoolInv, NEW p \in Workers, Handler(p)
    PROVE  PoolInv'
<1>a. /\ TypeOK /\ p \in Procs /\ p # Main
      /\ dns_upstreams \in Tables /\ strategy \in Strategies
    BY ProcsMembers, UpstreamAssumption DEF TypeInv, TypeOK, Tables
<1>b. {"idle", "update_row", "test", "test_write"} \subseteq Locations \ Reloading
    BY DEF Locations, Reloading
<1>c. ASSUME NEW t \in Tables, NEW s \in Strategies, t = dns_upstreams \/ s = strategy,
             WriteAndReload(p, t, s), pc[p] \in {"idle", "update_row"}
      PROVE  PoolInv'
    BY <1>a, <1>b, <1>c, OwedWriteInv, Zenon DEF WriteAndReload, Goto, main_vars
<1>1. ASSUME NEW u \in Upstreams, Create(p, u) PROVE PoolInv'
    <2> DEFINE row == [is_active |-> TRUE, health_check_enabled |-> TRUE,
                       failover_enabled |-> TRUE, health_status |-> "unknown"]
    <2>1. row \in Rows
        BY DEF Rows, Statuses
    <2>2. WriteAndReload(p, [dns_upstreams EXCEPT ![u] = row], strategy) /\ pc[p] = "idle"
        BY <1>1 DEF Create, Request
    <2> HIDE DEF row
    <2>3. [dns_upstreams EXCEPT ![u] = row] \in Tables
        BY <1>a, <2>1, Zenon DEF Tables
    <2> QED
        BY <1>a, <1>c, <2>2, <2>3, Zenon
<1>2. ASSUME NEW u \in Upstreams, Delete(p, u) PROVE PoolInv'
    <2>1. [dns_upstreams EXCEPT ![u] = NoRow] \in Tables
        BY <1>a, Zenon DEF Tables
    <2> QED
        BY <1>2, <1>a, <1>c, <2>1 DEF Delete, Request
<1>3. ASSUME NEW s \in Strategies, UpdateStrategy(p, s) PROVE PoolInv'
    BY <1>3, <1>a, <1>c DEF UpdateStrategy, Request
<1>4. ASSUME NEW flag \in {"is_active", "health_check_enabled", "failover_enabled"},
             NEW value \in BOOLEAN, Update(p, flag, value)
      PROVE  PoolInv'
    <2> DEFINE u == row_id[p]
               set == [row_read[p] EXCEPT ![flag] = value]
               t == IF dns_upstreams[u] = NoRow THEN dns_upstreams
                    ELSE [dns_upstreams EXCEPT
                             ![u] = [set EXCEPT !.health_status = dns_upstreams[u].health_status]]
    <2>1. pc[p] = "update_row" /\ WriteAndReload(p, t, strategy)
        BY <1>4, Zenon DEF Update
    <2>2. t \in Tables
        BY <1>a, <2>1, UpdatedType, Zenon
    <2> HIDE DEF t
    <2> QED
        BY <1>a, <1>c, <2>1, <2>2
<1>5. CASE (\E u \in Upstreams : ReadForUpdate(p, u) \/ Test(p, u))
           \/ TestProbe(p) \/ Abandon(p)
    <2>1. /\ pc[p] \in {"idle", "update_row", "test", "test_write"}
          /\ \E to \in {"idle", "update_row", "test", "test_write"} :
                pc' = [pc EXCEPT ![p] = to]
          /\ UNCHANGED <<table, pool, new_pool, history, listed, needs_reload>>
        BY <1>5 DEF ReadForUpdate, Test, TestProbe, Abandon, Request, Goto, main_vars
    <2>2. p \notin owes'
        BY <1>a, <2>1 DEF PoolInv, OwesOK, Reloading, history
    <2> QED
        BY <1>a, <1>b, <2>1, <2>2, QuietInv, Zenon
<1>6. CASE TestWrite(p)
    <2> DEFINE t == WithStatus(row_id[p], StatusOf(success[p]))
    <2>1. row_id[p] \in Upstreams /\ success[p] \in BOOLEAN
        BY <1>6, <1>a, Zenon DEF TestWrite, TypeInv, TypeOK, ControlOK
    <2>2. t \in Tables
        BY <1>a, <2>1, WithStatusType, Zenon
    <2>3. /\ SilentWrite(t) /\ pc[p] = "test_write" /\ pc' = [pc EXCEPT ![p] = "idle"]
          /\ UNCHANGED <<pool, listed, new_pool, needs_reload>>
        BY <1>6 DEF TestWrite, Goto, main_vars
    <2> HIDE DEF t
    <2> QED
        BY <1>a, <1>b, <2>2, <2>3, SilentWriteInv, ZenonT(30)
<1> QED
    BY <1>1, <1>2, <1>3, <1>4, <1>5, <1>6, Zenon DEF Handler

LEMMA NextPoolInv ==
    ASSUME TypeInv, PoolInv, [Next]_vars
    PROVE  PoolInv'
<1>1. CASE (\E u \in Upstreams, state \in NetStates : NetChange(u, state)) \/ UNCHANGED vars
    <2>1. UNCHANGED <<dns_upstreams, strategy, pool, pc, listed, needs_reload, new_pool,
                      owes, tainted, stale>>
        BY <1>1 DEF NetChange, vars, table, main_vars, history
    <2>2. OwesOK'
        BY <2>1 DEF PoolInv, OwesOK
    <2>3. Reads'
        BY <2>1, Zenon DEF PoolInv, Reads, ReadSoFar, DesiredPool
    <2>4. PoolFollowsTable'
        BY <2>1 DEF PoolInv, PoolFollowsTable, DesiredPool
    <2> QED
        BY <2>2, <2>3, <2>4, Zenon DEF PoolInv
<1>2. \A p \in Workers \cup {Main} : p \in Procs
    BY ProcsMembers
<1> QED
    BY <1>1, <1>2, MainPoolInv, ApiPoolInv, HandlerPoolInv, ReloadPoolInv DEF Next

(***************************************************************************)
(* For any number of upstreams and of concurrent requests: the pool in     *)
(* force is the one the table and the setting call for, unless a reload    *)
(* that will make it so is on its way, or a write overtook the last swap,  *)
(* a reload failed, or a status was stored without one.                    *)
(***************************************************************************)
THEOREM PoolCorrect == Spec => []PoolFollowsTable
<1>1. TypeInv /\ PoolInv /\ [Next]_vars => PoolInv'
    BY NextPoolInv
<1>2. PoolInv => PoolFollowsTable
    BY Zenon DEF PoolInv
<1> QED
    BY <1>1, <1>2, SpecTypeInv, InitPoolInv, PTL DEF Spec

-----------------------------------------------------------------------------
(***************************************************************************)
(* An upstream that has always been fast, and what the tasks and handlers  *)
(* have found out about it and not yet written.                            *)
(***************************************************************************)
FoundFast(u) ==
    /\ dns_upstreams[u] # NoRow => dns_upstreams[u].health_status # "degraded"
    /\ \A r \in results : r.id = u => r.is_healthy
    /\ \A p \in Procs : pc[p] \in {"write", "test_write"} /\ row_id[p] = u => success[p]

FastInv == \A u \in Upstreams : changes = 0 /\ net[u] = "fast" => FoundFast(u)

LEMMA InitFastInv ==
    ASSUME \A r \in SeedRows : r.health_status # "degraded", Init
    PROVE  FastInv
BY DEF Init, FastInv, FoundFast

\* Writing what a probe found keeps a fast upstream from being degraded.
LEMMA StatusWriteFast ==
    ASSUME TypeOK, NEW v \in Upstreams, NEW ok \in BOOLEAN, NEW u \in Upstreams,
           u = v => ok, dns_upstreams' = WithStatus(v, StatusOf(ok)),
           dns_upstreams[u] # NoRow => dns_upstreams[u].health_status # "degraded"
    PROVE  dns_upstreams'[u] # NoRow => dns_upstreams'[u].health_status # "degraded"
<1>1. CASE dns_upstreams[v] = NoRow \/ u # v
    BY <1>1 DEF WithStatus, TypeOK
<1>2. CASE dns_upstreams[v] # NoRow /\ u = v
    <2>1. dns_upstreams[v] \in Rows
        BY <1>2, Zenon DEF TypeOK
    <2>2. dns_upstreams'[u] = [dns_upstreams[v] EXCEPT !.health_status = "healthy"]
        BY <1>2, Zenon DEF WithStatus, StatusOf, TypeOK
    <2> QED
        BY <2>1, <2>2 DEF Rows
<1> QED
    BY <1>1, <1>2, Zenon

\* A write that is not a probe's leaves health_status alone or sets "unknown".
LEMMA OtherWriteFast ==
    ASSUME TypeInv, FastInv, NEW p \in Procs,
           \A u \in Upstreams :
              dns_upstreams'[u] = NoRow
              \/ (dns_upstreams[u] # NoRow
                  /\ dns_upstreams'[u].health_status = dns_upstreams[u].health_status)
              \/ dns_upstreams'[u].health_status = "unknown",
           pc'[p] \notin {"write", "test_write"},
           \A q \in Procs : q # p => pc'[q] = pc[q] /\ row_id'[q] = row_id[q],
           results' \subseteq results, UNCHANGED <<net, changes, success>>
    PROVE  FastInv'
BY DEF FastInv, FoundFast

\* A step of one process p: what it stores and what it found are right.
LEMMA StepFast ==
    ASSUME FastInv, NEW p \in Procs, UNCHANGED <<net, changes>>, results' \subseteq results,
           \A u \in Upstreams : changes = 0 /\ net[u] = "fast" =>
              /\ dns_upstreams'[u] # NoRow => dns_upstreams'[u].health_status # "degraded"
              /\ pc'[p] \in {"write", "test_write"} /\ row_id'[p] = u => success'[p],
           \A q \in Procs : q # p =>
              pc'[q] = pc[q] /\ row_id'[q] = row_id[q] /\ success'[q] = success[q]
    PROVE  FastInv'
<1> SUFFICES ASSUME NEW u \in Upstreams, changes = 0, net[u] = "fast"
             PROVE  FoundFast(u)'
    BY Zenon DEF FastInv
<1>1. FoundFast(u)
    BY Zenon DEF FastInv
<1>2. \A r \in results' : r.id = u => r.is_healthy
    BY <1>1, Zenon DEF FoundFast
<1>3. ASSUME NEW q \in Procs, pc'[q] \in {"write", "test_write"}, row_id'[q] = u
      PROVE  success'[q]
    <2>1. CASE q = p
        BY <1>3, <2>1, Zenon
    <2>2. CASE q # p
        BY <1>1, <1>3, <2>2 DEF FoundFast
    <2> QED
        BY <2>1, <2>2, Zenon
<1> QED
    BY <1>2, <1>3, Zenon DEF FoundFast

LEMMA NextFastInv ==
    ASSUME TypeInv, FastInv, [Next]_vars
    PROVE  FastInv'
<1>a. /\ TypeOK /\ ControlOK /\ pc \in [Procs -> Locations] /\ dns_upstreams \in Tables
      /\ row_id \in [Procs -> Upstreams \cup {NoRow}] /\ success \in [Procs -> BOOLEAN]
      /\ changes \in Nat
    BY UpstreamAssumption DEF TypeInv, TypeOK, Tables
<1>b. Main \in Procs /\ Api \in Procs /\ \A p \in Workers : p \in Procs /\ p # Main
    BY ProcsMembers, UpstreamAssumption, Zenon
<1>1. ASSUME NEW p \in Procs, Reload(p) \/ ReloadFails(p) PROVE FastInv'
    <2>1. /\ UNCHANGED <<dns_upstreams, results, row_id, net, changes, success>>
          /\ \E to \in {"idle", "strategy", "swap"} : pc' = [pc EXCEPT ![p] = to]
        BY <1>1 DEF Reload, ReloadList, ReloadStrategy, ReloadSwap, ReloadFails, Reset, Goto,
                    table, main_vars
    <2> QED
        BY <1>a, <2>1, Zenon DEF FastInv, FoundFast
<1>2. CASE MainProbe
    <2>1. /\ results' = {[id |-> u, is_healthy |-> PoolProbe(u)] : u \in Probed}
          /\ UNCHANGED <<dns_upstreams, row_id, net, changes, success>>
          /\ pc' = [pc EXCEPT ![Main] = "listing"]
        BY <1>2, Zenon DEF MainProbe, Goto, table
    <2>2. ASSUME NEW r \in results', net[r.id] = "fast" PROVE r.is_healthy
        <3>1. PICK u \in Probed : r = [id |-> u, is_healthy |-> PoolProbe(u)]
            BY <2>1, Zenon
        <3>2. r.id = u /\ r.is_healthy = PoolProbe(u)
            BY <3>1, Zenon
        <3> QED
            BY <2>2, <3>2, Zenon DEF PoolProbe
    <2> QED
        BY <1>a, <1>b, <2>1, <2>2, ZenonT(30) DEF FastInv, FoundFast
<1>3. CASE MainList \/ MainListFails \/ MainRoundEnds
    <2>1. /\ UNCHANGED <<dns_upstreams, row_id, net, changes, success>>
          /\ results' \subseteq results
          /\ \E to \in {"idle", "update", "list"} : pc' = [pc EXCEPT ![Main] = to]
        BY <1>3 DEF MainList, MainListFails, MainRoundEnds, Goto, table
    <2> QED
        BY <1>a, <1>b, <2>1, Zenon DEF FastInv, FoundFast
<1>4. ASSUME NEW r \in results, MainUpdate(r) PROVE FastInv'
    <2>1. r.id \in Upstreams /\ r.is_healthy \in BOOLEAN
        BY <1>4, <1>a DEF TypeOK
    <2>2. /\ dns_upstreams' = WithStatus(r.id, StatusOf(r.is_healthy))
          /\ results' \subseteq results
          /\ UNCHANGED <<row_id, net, changes, success, pc>>
        BY <1>4, Zenon DEF MainUpdate, OwedWrite, SilentWrite
    <2>3. ASSUME NEW u \in Upstreams, changes = 0, net[u] = "fast"
          PROVE  dns_upstreams'[u] # NoRow => dns_upstreams'[u].health_status # "degraded"
        <3>1. u = r.id => r.is_healthy
            BY <2>3, Zenon DEF FastInv, FoundFast
        <3> QED
            BY <1>a, <2>1, <2>2, <2>3, <3>1, StatusWriteFast DEF FastInv, FoundFast
    <2> QED
        BY <2>2, <2>3, Zenon DEF FastInv, FoundFast
<1>5. ASSUME NEW r \in results, MainUpdateFails(r) PROVE FastInv'
    BY <1>5, Zenon DEF MainUpdateFails, FastInv, FoundFast, table
<1>6. CASE ApiList \/ ApiWriteFails
    <2>1. /\ UNCHANGED <<dns_upstreams, results, net, changes>>
          /\ \E to \in {"idle", "probe"} : pc' = [pc EXCEPT ![Api] = to]
          /\ \A q \in Procs : q # Api => row_id'[q] = row_id[q] /\ success'[q] = success[q]
        BY <1>6, <1>a DEF ApiList, ApiWriteFails, ApiNext, Goto, table, main_vars
    <2>2. pc'[Api] \in {"idle", "probe"} /\ \A q \in Procs : q # Api => pc'[q] = pc[q]
        BY <1>a, <1>b, <2>1, Zenon
    <2> QED
        BY <2>1, <2>2 DEF FastInv, FoundFast
<1>7. ASSUME NEW v \in Upstreams, ApiProbe(v) PROVE FastInv'
    <2>1. /\ UNCHANGED <<dns_upstreams, results, net, changes>>
          /\ pc' = [pc EXCEPT ![Api] = "write"]
          /\ row_id'[Api] = v /\ success'[Api] = RowProbe(v)
          /\ \A q \in Procs : q # Api => row_id'[q] = row_id[q] /\ success'[q] = success[q]
        BY <1>7, <1>a, <1>b DEF ApiProbe, Goto, table, main_vars
    <2>2. net[v] = "fast" => RowProbe(v)
        BY Zenon DEF RowProbe
    <2>3. \A q \in Procs : q # Api => pc'[q] = pc[q]
        BY <1>a, <1>b, <2>1
    <2>4. \A u \in Upstreams : changes = 0 /\ net[u] = "fast" =>
             /\ dns_upstreams'[u] # NoRow => dns_upstreams'[u].health_status # "degraded"
             /\ pc'[Api] \in {"write", "test_write"} /\ row_id'[Api] = u => success'[Api]
        BY <2>1, <2>2, Zenon DEF FastInv, FoundFast
    <2> QED
        BY <1>b, <2>1, <2>3, <2>4, StepFast, Zenon
<1>8. ASSUME NEW p \in Procs, pc[p] \in {"write", "test_write"},
             dns_upstreams' = WithStatus(row_id[p], StatusOf(success[p])),
             \E to \in {"idle", "probe"} : pc' = [pc EXCEPT ![p] = to],
             \A q \in Procs : q # p => row_id'[q] = row_id[q] /\ success'[q] = success[q],
             UNCHANGED <<results, net, changes>>
      PROVE  FastInv'
    <2>1. row_id[p] \in Upstreams /\ success[p] \in BOOLEAN
        BY <1>8, <1>a, Zenon DEF ControlOK
    <2>2. ASSUME NEW u \in Upstreams, changes = 0, net[u] = "fast"
          PROVE  dns_upstreams'[u] # NoRow => dns_upstreams'[u].health_status # "degraded"
        <3>1. u = row_id[p] => success[p]
            BY <1>8, <2>2, ZenonT(30) DEF FastInv, FoundFast
        <3> QED
            BY <1>a, <1>8, <2>1, <2>2, <3>1, StatusWriteFast, Zenon DEF FastInv, FoundFast
    <2>3. pc'[p] \in {"idle", "probe"} /\ \A q \in Procs : q # p => pc'[q] = pc[q]
        BY <1>a, <1>8, ZenonT(30)
    <2> QED
        BY <1>8, <2>2, <2>3, StepFast, Zenon
<1>9. CASE ApiWrite
    <2>1. /\ pc[Api] = "write"
          /\ dns_upstreams' = WithStatus(row_id[Api], StatusOf(success[Api]))
          /\ \E to \in {"idle", "probe"} : pc' = [pc EXCEPT ![Api] = to]
          /\ \A q \in Procs : q # Api => row_id'[q] = row_id[q] /\ success'[q] = success[q]
          /\ UNCHANGED <<results, net, changes>>
        BY <1>9, <1>a, Zenon DEF ApiWrite, SilentWrite, ApiNext, Goto, main_vars
    <2> QED
        BY <1>b, <1>8, <2>1, Zenon
<1>10. ASSUME NEW p \in Workers, Handler(p) PROVE FastInv'
    <2>a. p \in Procs
        BY <1>b
    <2>b. ASSUME NEW t, NEW s, WriteAndReload(p, t, s),
                 \A q \in Procs : q # p => row_id'[q] = row_id[q],
                 \A u \in Upstreams :
                     t[u] = NoRow
                     \/ (dns_upstreams[u] # NoRow
                         /\ t[u].health_status = dns_upstreams[u].health_status)
                     \/ t[u].health_status = "unknown"
          PROVE  FastInv'
        <3>1. /\ dns_upstreams' = t /\ pc' = [pc EXCEPT ![p] = "list"]
              /\ UNCHANGED <<net, changes, success, results>>
            BY <2>b, Zenon DEF WriteAndReload, OwedWrite, Goto, main_vars
        <3> QED
            BY <1>a, <2>a, <2>b, <3>1, OtherWriteFast, Zenon
    <2>1. ASSUME NEW v \in Upstreams, Create(p, v) PROVE FastInv'
        <3> DEFINE row == [is_active |-> TRUE, health_check_enabled |-> TRUE,
                           failover_enabled |-> TRUE, health_status |-> "unknown"]
        <3>1. WriteAndReload(p, [dns_upstreams EXCEPT ![v] = row], strategy) /\ row_id' = row_id
            BY <2>1 DEF Create
        <3>2. row.health_status = "unknown"
            OBVIOUS
        <3> HIDE DEF row
        <3> DEFINE t == [dns_upstreams EXCEPT ![v] = row]
        <3>3. \A u \in Upstreams :
                 t[u] = NoRow
                 \/ (dns_upstreams[u] # NoRow
                     /\ t[u].health_status = dns_upstreams[u].health_status)
                 \/ t[u].health_status = "unknown"
            BY <1>a, <3>2, Zenon DEF Tables
        <3> HIDE DEF t
        <3> QED
            BY <2>b, <3>1, <3>3, ZenonT(30) DEF t
    <2>2. ASSUME NEW v \in Upstreams, Delete(p, v) PROVE FastInv'
        <3> DEFINE t == [dns_upstreams EXCEPT ![v] = NoRow]
        <3>1. WriteAndReload(p, t, strategy) /\ row_id' = row_id
            BY <2>2 DEF Delete
        <3>2. \A u \in Upstreams : t[u] = NoRow \/ t[u] = dns_upstreams[u]
            BY <1>a, Zenon DEF Tables
        <3> HIDE DEF t
        <3> QED
            BY <2>b, <3>1, <3>2
    <2>3. ASSUME NEW s \in Strategies, UpdateStrategy(p, s) PROVE FastInv'
        BY <1>a, <2>b, <2>3 DEF UpdateStrategy
    <2>4. ASSUME NEW flag \in {"is_active", "health_check_enabled", "failover_enabled"},
                 NEW value \in BOOLEAN, Update(p, flag, value)
          PROVE  FastInv'
        <3> DEFINE v == row_id[p]
                   set == [row_read[p] EXCEPT ![flag] = value]
                   new == [set EXCEPT !.health_status = dns_upstreams[v].health_status]
                   t == IF dns_upstreams[v] = NoRow THEN dns_upstreams
                        ELSE [dns_upstreams EXCEPT ![v] = new]
        <3>1. /\ pc[p] = "update_row" /\ WriteAndReload(p, t, strategy)
              /\ \A q \in Procs : q # p => row_id'[q] = row_id[q]
            BY <2>4, <1>a, Zenon DEF Update
        <3>2. v \in Upstreams /\ row_read[p] \in Rows
            BY <1>a, <2>a, <3>1, Zenon DEF ControlOK
        <3>3. new.health_status = dns_upstreams[v].health_status
            <4>1. CASE flag = "is_active"
                BY <3>2, <4>1 DEF Rows
            <4>2. CASE flag = "health_check_enabled"
                BY <3>2, <4>2 DEF Rows
            <4>3. CASE flag = "failover_enabled"
                BY <3>2, <4>3, Zenon DEF Rows
            <4> QED
                BY <4>1, <4>2, <4>3
        <3> HIDE DEF new
        <3>4. \A u \in Upstreams :
                 t[u] = NoRow
                 \/ (dns_upstreams[u] # NoRow
                     /\ t[u].health_status = dns_upstreams[u].health_status)
            BY <1>a, <3>2, <3>3 DEF Tables
        <3> HIDE DEF t
        <3> QED
            BY <2>b, <3>1, <3>4, Zenon
    <2>5. CASE (\E u \in Upstreams : ReadForUpdate(p, u) \/ Test(p, u)) \/ Abandon(p)
        <3>1. /\ UNCHANGED <<dns_upstreams, results, net, changes>>
              /\ \E to \in {"idle", "update_row", "test"} : pc' = [pc EXCEPT ![p] = to]
              /\ \A q \in Procs : q # p => row_id'[q] = row_id[q] /\ success'[q] = success[q]
            BY <2>5, <1>a, ZenonT(30) DEF ReadForUpdate, Test, Abandon, Request, Goto, table, main_vars
        <3>2. pc'[p] \in {"idle", "update_row", "test"} /\ \A q \in Procs : q # p => pc'[q] = pc[q]
            BY <1>a, <2>a, <3>1, ZenonT(30)
        <3>3. \A u \in Upstreams : changes = 0 /\ net[u] = "fast" =>
                 (dns_upstreams'[u] # NoRow => dns_upstreams'[u].health_status # "degraded")
            BY <3>1, ZenonT(30) DEF FastInv, FoundFast
        <3> QED
            BY <2>a, <3>1, <3>2, <3>3, StepFast, ZenonT(30)
    <2>6. CASE TestProbe(p)
        <3>1. /\ UNCHANGED <<dns_upstreams, results, net, changes, row_id>>
              /\ pc' = [pc EXCEPT ![p] = "test_write"]
              /\ success'[p] = RowProbe(row_id[p])
              /\ \A q \in Procs : q # p => success'[q] = success[q]
            BY <2>6, <1>a, <2>a DEF TestProbe, Goto, table, main_vars
        <3>2. net[row_id[p]] = "fast" => RowProbe(row_id[p])
            BY DEF RowProbe
        <3> QED
            BY <1>a, <2>a, <3>1, <3>2, Zenon DEF FastInv, FoundFast
    <2>7. CASE TestWrite(p)
        <3>1. /\ pc[p] = "test_write"
              /\ dns_upstreams' = WithStatus(row_id[p], StatusOf(success[p]))
              /\ pc' = [pc EXCEPT ![p] = "idle"]
              /\ \A q \in Procs : q # p => row_id'[q] = row_id[q] /\ success'[q] = success[q]
              /\ UNCHANGED <<results, net, changes>>
            BY <2>7, <1>a DEF TestWrite, SilentWrite, Goto, main_vars
        <3> QED
            BY <2>a, <1>8, <3>1, Zenon
    <2> QED
        BY <1>10, <2>1, <2>2, <2>3, <2>4, <2>5, <2>6, <2>7, Zenon DEF Handler
<1>11. ASSUME NEW u \in Upstreams, NEW state \in NetStates, NetChange(u, state) PROVE FastInv'
    BY <1>a, <1>11 DEF NetChange, FastInv
<1>12. CASE UNCHANGED vars
    BY <1>12, Zenon DEF vars, FastInv, FoundFast, table, main_vars
<1> QED
    BY <1>1, <1>2, <1>3, <1>4, <1>5, <1>6, <1>7, <1>9, <1>10, <1>11, <1>12, <1>b, Zenon
       DEF Next, MainStep, ApiStep

LEMMA FastOK ==
    ASSUME TypeInv, FastInv
    PROVE  FastStaysInPool
<1> SUFFICES ASSUME NEW u \in Upstreams, changes = 0, net[u] = "fast",
                    pool = DesiredPool, dns_upstreams[u] # NoRow, dns_upstreams[u].is_active
             PROVE  \E n \in pool.nodes : n.id = u
    BY DEF FastStaysInPool, FastInv, FoundFast
<1> DEFINE node == [id |-> u, health_check_enabled |-> dns_upstreams[u].health_check_enabled]
<1>1. Eligible(dns_upstreams[u])
    BY Zenon DEF Eligible, FastInv, FoundFast
<1>2. node \in NodesOf(dns_upstreams)
    BY <1>1, Zenon DEF NodesOf
<1>3. node.id = u /\ node \in pool.nodes
    BY <1>2 DEF DesiredPool, NewPool
<1> QED
    BY <1>3, Zenon

(***************************************************************************)
(* Where no row starts out degraded: neither health check nor test ever    *)
(* degrades an upstream that has always answered within the shorter        *)
(* timeout, whatever requests and reloads run beside them.                 *)
(***************************************************************************)
THEOREM FastCorrect ==
    ASSUME \A r \in SeedRows : r.health_status # "degraded"
    PROVE  Spec => []FastStaysInPool
<1>1. Init => FastInv
    BY InitFastInv
<1>2. TypeInv /\ FastInv /\ [Next]_vars => FastInv'
    BY NextFastInv
<1>3. TypeInv /\ FastInv => FastStaysInPool
    BY FastOK
<1> QED
    BY <1>1, <1>2, <1>3, SpecTypeInv, PTL DEF Spec

-----------------------------------------------------------------------------
(* The access lists; the lock of the pool plays no part in these proofs *)

\* Lists that are about to be stored or used have been validated.
SettingsTypeInv ==
    /\ SettingsTypeOK
    /\ \A p \in Requests : place[p] \in {"write_denied", "reload"} => Valid(p)

LEMMA NoReqType ==
    NoReq \in Req /\ NoReq.alone
<1>1. NoBody \in Body
    BY DEF NoBody, Body
<1>2. [k \in Keys |-> {}] \in [Keys -> Lists \cup {{Invalid}}]
    BY DEF Lists
<1> QED
    BY <1>1, <1>2, Zenon DEF NoReq, Req

LEMMA FieldTypes ==
    ASSUME NEW r \in Req
    PROVE  /\ r.body \in Body /\ r.new \in [Keys -> Lists \cup {{Invalid}}] /\ r.alone \in BOOLEAN
           /\ \A k \in Keys : r.body[k] \in Lists \cup {{Invalid}, None}
           /\ r.body.strategy \in {None, "known", "unknown"}
BY Zenon DEF Req, Body, Keys

\* A validated update holds two lists that can be stored.
LEMMA ValidLists ==
    ASSUME SettingsTypeInv, NEW p \in Requests, Valid(p)
    PROVE  req[p].new \in Acl
<1>1. req[p].new \in [Keys -> Lists \cup {{Invalid}}]
    BY FieldTypes, Zenon DEF SettingsTypeInv, SettingsTypeOK
<1>2. \A k \in Keys : req[p].new[k] \in Lists
    BY <1>1 DEF Valid
<1> QED
    BY <1>1, <1>2, Zenon DEF Acl

LEMMA SettingsInitTypeInv == SettingsInit => SettingsTypeInv
<1> SUFFICES ASSUME SettingsInit PROVE SettingsTypeInv
    OBVIOUS
<1>1. acl_table \in Acl /\ acl \in Acl
    BY DEF SettingsInit, Acl, Lists
<1>2. req \in [Requests -> Req]
    BY NoReqType DEF SettingsInit
<1>3. \A p \in Requests : place[p] = "idle"
    BY DEF SettingsInit, Processes
<1> QED
    BY <1>1, <1>2, <1>3, Zenon DEF SettingsInit, SettingsTypeInv, SettingsTypeOK, Places

-----------------------------------------------------------------------------
(* The steps *)

\* A process takes its turn at the lock: nothing here changes.
LockStep(p) ==
    /\ UNCHANGED acl_vars /\ readers' \subseteq Processes
    /\ place[p] \notin AclPlaces /\ place'[p] \in {"idle", "reading"} \cup Waiting
    /\ place' = [place EXCEPT ![p] = place'[p]]

LEMMA LockSteps ==
    ASSUME SettingsTypeInv
    PROVE  /\ \A q \in Queries : Ask(q) \/ EnterRead(q) \/ Answered(q) \/ Dropped(q) => LockStep(q)
           /\ HealthTick \/ EnterRead(Health) \/ ProbesEnd => LockStep(Health)
           /\ \A p \in Writers : ReplacePool(p) => LockStep(p)
<1>1. Queries \subseteq Processes /\ Health \in Processes /\ Writers \subseteq Processes
    BY Zenon DEF Processes, Writers
<1>2. ASSUME NEW q \in Queries, Ask(q) \/ EnterRead(q) \/ Answered(q) \/ Dropped(q) PROVE LockStep(q)
    BY <1>1, <1>2, Zenon DEF Ask, EnterRead, Answered, Dropped, Queues, Moves, LockStep, AclPlaces, Waiting,
       SettingsTypeInv, SettingsTypeOK
<1>3. ASSUME HealthTick \/ EnterRead(Health) \/ ProbesEnd PROVE LockStep(Health)
    BY <1>1, <1>3 DEF HealthTick, EnterRead, ProbesEnd, Queues, Moves, LockStep, AclPlaces, Waiting,
       SettingsTypeInv, SettingsTypeOK
<1>4. ASSUME NEW p \in Writers, ReplacePool(p) PROVE LockStep(p)
    BY <1>1, <1>4, Zenon DEF ReplacePool, Moves, LockStep, AclPlaces, Waiting, SettingsTypeInv, SettingsTypeOK
<1> QED
    BY <1>2, <1>3, <1>4

LEMMA LockType ==
    ASSUME SettingsTypeInv, NEW p \in Processes, LockStep(p)
    PROVE  /\ SettingsTypeInv' /\ InAcl' = InAcl
           /\ \A r \in Requests : place'[r] \in AclPlaces \/ place[r] \in AclPlaces => place'[r] = place[r]
<1>1. SettingsTypeOK'
    BY Zenon DEF LockStep, SettingsTypeInv, SettingsTypeOK, acl_vars, Places
<1>2. \A r \in Requests : place'[r] \in AclPlaces \/ place[r] \in AclPlaces => place'[r] = place[r]
    BY Zenon DEF LockStep, SettingsTypeInv, SettingsTypeOK, AclPlaces, Waiting, Processes
<1>3. \A r \in Requests : Valid(r)' = Valid(r)
    BY Zenon DEF LockStep, acl_vars, Valid
<1>4. InAcl' = InAcl
  <2>1. \A r \in Requests : place'[r] \in AclPlaces <=> place[r] \in AclPlaces
    BY <1>2, Zenon
  <2> QED
    BY <2>1, Zenon DEF InAcl
<1>5. \A r \in Requests : place'[r] \in {"write_denied", "reload"} => Valid(r)'
  <2>1. \A r \in Requests : place'[r] \in {"write_denied", "reload"} => place[r] \in {"write_denied", "reload"}
    BY <1>2 DEF AclPlaces
  <2> QED
    BY <1>3, <2>1, Zenon DEF SettingsTypeInv
<1> QED
    BY <1>1, <1>2, <1>4, <1>5, Zenon DEF SettingsTypeInv

\* A step of one request.
Keep(p) ==
    /\ UNCHANGED readers
    /\ \A q \in Requests \ {p} : place'[q] = place[q] /\ req'[q] = req[q]

LEMMA BeginType ==
    ASSUME SettingsTypeInv, NEW p \in Requests, NEW body \in Bodies, Begin(p, body)
    PROVE  /\ SettingsTypeInv'
           /\ place[p] = "idle" /\ (place'[p] \in AclPlaces <=> HasAcl(body)) /\ place'[p] \in {"read_allowed", "strategy"}
           /\ \A q \in Requests \ {p} : place'[q] = place[q]
           /\ req'[p].alone <=> InAcl = {}
           /\ \A q \in Requests \ {p} : /\ req'[q].new = req[q].new
                                        /\ req'[q].alone => req[q].alone /\ ~(q \in InAcl /\ HasAcl(body))
<1>1. body \in Body /\ p \in Processes
    BY SettingsAssumption DEF Processes
<1>2. /\ [NoReq EXCEPT !.body = body, !.alone = (InAcl = {})] \in Req
      /\ [NoReq EXCEPT !.body = body, !.alone = (InAcl = {})].alone <=> InAcl = {}
    BY <1>1, NoReqType, Zenon DEF Req
<1>3. ASSUME NEW q \in Requests \ {p}
      PROVE  /\ req'[q] \in Req /\ req'[q].new = req[q].new
             /\ req'[q].alone <=> req[q].alone /\ ~(q \in InAcl /\ HasAcl(body))
  <2>1. req[q] \in Req
    BY DEF SettingsTypeInv, SettingsTypeOK
  <2>2. req'[q] = [req[q] EXCEPT !.alone = @ /\ ~(q \in InAcl /\ HasAcl(body))]
    BY <1>3, Zenon DEF Begin
  <2> QED
    BY <2>1, <2>2, ZenonT(30) DEF Req
<1>4. req'[p] = [NoReq EXCEPT !.body = body, !.alone = (InAcl = {})]
    BY Zenon DEF Begin
<1>5. req' \in [Requests -> Req]
  <2>1. \A q \in Requests : req'[q] \in Req
    BY <1>2, <1>3, <1>4
  <2>2. req' = [q \in Requests |-> req'[q]]
    BY ZenonT(30) DEF Begin
  <2> QED
    BY <2>1, <2>2
<1>6. /\ place' \in [Processes -> Places] /\ place'[p] \in {"read_allowed", "strategy"} /\ place[p] = "idle"
      /\ place'[p] \in AclPlaces <=> HasAcl(body)
      /\ \A q \in Requests \ {p} : place'[q] = place[q]
    BY <1>1, ZenonT(30) DEF Begin, Moves, Places, AclPlaces, SettingsTypeInv, SettingsTypeOK, Processes
<1>7. SettingsTypeOK'
    BY <1>5, <1>6, Zenon DEF Begin, lock_vars, SettingsTypeInv, SettingsTypeOK
<1>8. \A q \in Requests : place'[q] \in {"write_denied", "reload"} => Valid(q)'
    BY <1>3, <1>6 DEF Valid, SettingsTypeInv
<1> QED
    BY <1>2, <1>3, <1>4, <1>6, <1>7, <1>8 DEF SettingsTypeInv

LEMMA ReadType ==
    ASSUME SettingsTypeInv, NEW p \in Requests, NEW k \in Keys,
           NEW from \in {"read_allowed", "read_denied"}, NEW to \in {"read_denied", "write_allowed"},
           ReadList(p, k, from, to)
    PROVE  SettingsTypeInv' /\ Keep(p) /\ place'[p] = to /\ req'[p].alone = req[p].alone
<1>1. p \in Processes /\ req[p] \in Req
    BY DEF Processes, SettingsTypeInv, SettingsTypeOK
<1>2. NewValue(p, k) \in Lists \cup {{Invalid}}
    BY <1>1, FieldTypes, Zenon DEF NewValue, SettingsTypeInv, SettingsTypeOK, Acl
<1>3. /\ req' \in [Requests -> Req] /\ \A q \in Requests \ {p} : req'[q] = req[q]
      /\ req'[p].alone = req[p].alone
  <2>1. req' = [req EXCEPT ![p] = [req[p] EXCEPT !.new = [req[p].new EXCEPT ![k] = NewValue(p, k)]]]
    BY DEF ReadList
  <2>2. [req[p].new EXCEPT ![k] = NewValue(p, k)] \in [Keys -> Lists \cup {{Invalid}}]
    BY <1>1, <1>2, FieldTypes, Zenon
  <2> DEFINE r == [req[p] EXCEPT !.new = [req[p].new EXCEPT ![k] = NewValue(p, k)]]
  <2>3. r \in Req /\ r.alone = req[p].alone
    BY <1>1, <2>2 DEF Req
  <2> HIDE DEF r
  <2>4. req' = [req EXCEPT ![p] = r]
    BY <2>1 DEF r
  <2> QED
    BY <2>3, <2>4 DEF SettingsTypeInv, SettingsTypeOK
<1>4. /\ place' \in [Processes -> Places] /\ place'[p] = to /\ \A q \in Requests \ {p} : place'[q] = place[q]
    BY <1>1 DEF ReadList, Moves, Places, AclPlaces, SettingsTypeInv, SettingsTypeOK, Processes
<1>5. SettingsTypeOK' /\ Keep(p)
    BY <1>3, <1>4, Zenon DEF ReadList, lock_vars, SettingsTypeInv, SettingsTypeOK, Keep
<1>6. \A q \in Requests : place'[q] \in {"write_denied", "reload"} => Valid(q)'
    BY <1>3, <1>4, Zenon DEF Valid, SettingsTypeInv
<1> QED
    BY <1>3, <1>4, <1>5, <1>6, Zenon DEF SettingsTypeInv

LEMMA WriteType ==
    ASSUME SettingsTypeInv, NEW p \in Requests, NEW k \in Keys,
           NEW from \in {"write_allowed", "write_denied"}, NEW to \in {"write_denied", "reload"},
           WriteList(p, k, from, to)
    PROVE  SettingsTypeInv' /\ Keep(p) /\ place'[p] = to
<1>1. p \in Processes /\ req[p].new \in Acl
    BY ValidLists, Zenon DEF Processes, WriteList
<1>2. acl_table' \in Acl
    BY <1>1, Zenon DEF WriteList, SettingsTypeInv, SettingsTypeOK, Acl
<1>3. /\ place' \in [Processes -> Places] /\ place'[p] = to /\ \A q \in Requests \ {p} : place'[q] = place[q]
    BY <1>1, Zenon DEF WriteList, Moves, Places, AclPlaces, SettingsTypeInv, SettingsTypeOK, Processes
<1>4. SettingsTypeOK' /\ Keep(p)
    BY <1>2, <1>3 DEF WriteList, lock_vars, SettingsTypeInv, SettingsTypeOK, Keep
<1>5. \A q \in Requests : place'[q] \in {"write_denied", "reload"} => Valid(q)'
    BY <1>3, Zenon DEF Valid, SettingsTypeInv, WriteList
<1> QED
    BY <1>3, <1>4, <1>5 DEF SettingsTypeInv

\* The request leaves the part of update_dns that deals with the lists.
LEMMA LeaveType ==
    ASSUME SettingsTypeInv, NEW p \in Requests, acl_table' = acl_table, acl' \in Acl, disturbed' \in BOOLEAN, readers' = readers,
           NEW to \in {"idle", "strategy", "wait_write"}, place' = [place EXCEPT ![p] = to],
           NEW r \in Req, req' = [req EXCEPT ![p] = r]
    PROVE  SettingsTypeInv' /\ Keep(p) /\ place'[p] = to
<1>1. p \in Processes
    BY Zenon DEF Processes
<1>2. /\ place' \in [Processes -> Places] /\ place'[p] = to /\ \A q \in Requests \ {p} : place'[q] = place[q]
    BY <1>1, Zenon DEF Places, Waiting, SettingsTypeInv, SettingsTypeOK, Processes
<1>3. req' \in [Requests -> Req] /\ \A q \in Requests \ {p} : req'[q] = req[q]
    BY DEF SettingsTypeInv, SettingsTypeOK
<1>4. SettingsTypeOK' /\ Keep(p)
    BY <1>2, <1>3, Zenon DEF SettingsTypeInv, SettingsTypeOK, Keep
<1>5. \A q \in Requests : place'[q] \in {"write_denied", "reload"} => Valid(q)'
    BY <1>2, <1>3, Zenon DEF Valid, SettingsTypeInv
<1> QED
    BY <1>2, <1>4, <1>5 DEF SettingsTypeInv

\* The steps that leave it, and what they set.
LEMMA Leaves ==
    ASSUME SettingsTypeInv, NEW p \in Requests, Refuse(p) \/ reload_acl(p) \/ WriteStrategy(p) \/ Stop(p)
    PROVE  SettingsTypeInv' /\ Keep(p) /\ place'[p] \in {"idle", "strategy", "wait_write"} /\ acl_table' = acl_table
<1>1. NoReq \in Req
    BY NoReqType
<1>2. CASE Refuse(p)
    BY <1>1, <1>2, LeaveType, Zenon DEF Refuse, Finish, lock_vars, SettingsTypeInv, SettingsTypeOK
<1>3. CASE reload_acl(p)
  <2>1. acl' \in Acl /\ disturbed' \in BOOLEAN /\ acl_table' = acl_table /\ readers' = readers
    <3>1. acl' = req[p].new /\ Valid(p) /\ disturbed' = ~req[p].alone
      BY <1>3, Zenon DEF reload_acl, SettingsTypeInv
    <3>2. acl' \in Acl
      BY <3>1, ValidLists
    <3> QED
      BY <1>3, <3>1, <3>2, Zenon DEF reload_acl, lock_vars
  <2>2. [NoReq EXCEPT !.body.strategy = req[p].body.strategy] \in Req
    <3>1. req[p].body.strategy \in {None, "known", "unknown"} /\ NoReq.body \in Body
      BY <1>1, FieldTypes, Zenon DEF SettingsTypeInv, SettingsTypeOK
    <3>2. [NoReq.body EXCEPT !.strategy = req[p].body.strategy] \in Body
      BY <3>1 DEF Body
    <3> QED
      BY <1>1, <3>2 DEF Req
  <2>3. CASE Finish(p)
    BY <1>1, <2>1, <2>3, LeaveType, Zenon DEF Finish
  <2>4. CASE /\ place' = [place EXCEPT ![p] = "strategy"]
             /\ req' = [req EXCEPT ![p] = [NoReq EXCEPT !.body.strategy = req[p].body.strategy]]
    BY <2>1, <2>2, <2>4, LeaveType, Zenon
  <2> QED
    BY <1>3, <2>3, <2>4 DEF reload_acl, AfterAcl
<1>4. CASE WriteStrategy(p)
    BY <1>1, <1>4, LeaveType, Zenon DEF WriteStrategy, Finish, Queues, Moves, SettingsTypeInv, SettingsTypeOK
<1>5. CASE Stop(p)
    BY <1>1, <1>5, LeaveType, Zenon DEF Stop, Finish, SettingsTypeInv, SettingsTypeOK
<1> QED
    BY <1>2, <1>3, <1>4, <1>5

-----------------------------------------------------------------------------
(* The access lists *)

\* Besides the types: an update that is alone has the table to itself; so long
\* as nothing disturbed the lists, the handler has the stored ones or an update is
\* on its way to it; and what an update that is alone has written is still there.
Alone == \A p, q \in InAcl : req[p].alone => q = p
OnItsWay == disturbed \/ acl = acl_table \/ \E p \in Requests : place[p] \in {"write_denied", "reload"}
Written(p) ==
    /\ place[p] = "write_denied" => acl_table["allowed"] = req[p].new["allowed"]
    /\ place[p] = "reload" => acl_table = req[p].new
AclInv == SettingsTypeInv /\ Alone /\ OnItsWay /\ \A p \in Requests : req[p].alone => Written(p)

LEMMA InitAclInv == SettingsInit => AclInv
<1> SUFFICES ASSUME SettingsInit PROVE AclInv
    OBVIOUS
<1>1. \A p \in Requests : place[p] = "idle"
    BY DEF SettingsInit, Processes
<1>2. InAcl = {}
    BY <1>1 DEF InAcl, AclPlaces
<1> QED
    BY <1>1, <1>2, SettingsInitTypeInv, Zenon DEF AclInv, Alone, OnItsWay, Written, SettingsInit

LEMMA LockAcl ==
    ASSUME AclInv, NEW p \in Processes, LockStep(p)
    PROVE  AclInv'
<1>1. /\ SettingsTypeInv' /\ InAcl' = InAcl
      /\ \A r \in Requests : place'[r] \in AclPlaces \/ place[r] \in AclPlaces => place'[r] = place[r]
    BY LockType DEF AclInv
<1>2. req' = req /\ acl_table' = acl_table /\ acl' = acl /\ disturbed' = disturbed
    BY DEF LockStep, acl_vars
<1>3. Alone'
    BY <1>1, <1>2, Zenon DEF AclInv, Alone
<1>4. \A r \in Requests, at \in AclPlaces : place'[r] = at <=> place[r] = at
    BY <1>1
<1>5. "write_denied" \in AclPlaces /\ "reload" \in AclPlaces
    BY Zenon DEF AclPlaces
<1>6. OnItsWay'
    BY <1>2, <1>4, <1>5, Zenon DEF AclInv, OnItsWay
<1>7. \A r \in Requests : req'[r].alone => Written(r)'
    BY <1>2, <1>4, <1>5, Zenon DEF AclInv, Written
<1> QED
    BY <1>1, <1>3, <1>6, <1>7, Zenon DEF AclInv

LEMMA BeginAcl ==
    ASSUME AclInv, NEW p \in Requests, NEW body \in Bodies, Begin(p, body)
    PROVE  AclInv'
<1>1. /\ SettingsTypeInv'
      /\ place[p] = "idle" /\ (place'[p] \in AclPlaces <=> HasAcl(body)) /\ place'[p] \in {"read_allowed", "strategy"}
      /\ \A q \in Requests \ {p} : place'[q] = place[q]
      /\ req'[p].alone <=> InAcl = {}
      /\ \A q \in Requests \ {p} : /\ req'[q].new = req[q].new
                                   /\ req'[q].alone => req[q].alone /\ ~(q \in InAcl /\ HasAcl(body))
    BY BeginType, ZenonT(30) DEF AclInv
<1>2. acl_table' = acl_table /\ acl' = acl /\ disturbed' = disturbed
    BY ZenonT(30) DEF Begin
<1>3. \A q \in Requests \ {p} : q \in InAcl' <=> q \in InAcl
    BY <1>1, Zenon DEF InAcl
<1>4. p \in InAcl' <=> HasAcl(body)
    BY <1>1 DEF InAcl
<1>5. Alone'
  <2> SUFFICES ASSUME NEW a \in InAcl', NEW b \in InAcl', req'[a].alone PROVE b = a
    BY Zenon DEF Alone
  <2>1. a \in Requests /\ b \in Requests
    BY DEF InAcl
  <2>2. CASE a = p
    BY <1>1, <1>3, <2>1, <2>2, Zenon
  <2>3. CASE a # p /\ b = p
    BY <1>1, <1>3, <1>4, <2>1, <2>3, Zenon
  <2>4. CASE a # p /\ b # p
    BY <1>1, <1>3, <2>1, <2>4 DEF AclInv, Alone
  <2> QED
    BY <2>2, <2>3, <2>4
<1>6. OnItsWay'
    BY <1>1, <1>2, ZenonT(30) DEF AclInv, OnItsWay
<1>7. \A r \in Requests : req'[r].alone => Written(r)'
    BY <1>1, <1>2, ZenonT(30) DEF AclInv, Written
<1> QED
    BY <1>1, <1>5, <1>6, <1>7 DEF AclInv

\* A step of a request that is or was in the lists' part leaves Alone as it is.
LEMMA KeepAlone ==
    ASSUME AclInv, NEW p \in Requests, Keep(p),
           \/ place'[p] \notin AclPlaces
           \/ place[p] \in AclPlaces /\ req'[p].alone = req[p].alone
    PROVE  Alone'
<1>1. InAcl' \subseteq InAcl
    BY DEF InAcl, Keep
<1>2. \A q \in InAcl' : req'[q].alone = req[q].alone
    BY Zenon DEF InAcl, Keep
<1> QED
    BY <1>1, <1>2, Zenon DEF AclInv, Alone

LEMMA ReadAcl ==
    ASSUME AclInv, NEW p \in Requests, NEW k \in Keys,
           NEW from \in {"read_allowed", "read_denied"}, NEW to \in {"read_denied", "write_allowed"},
           ReadList(p, k, from, to)
    PROVE  AclInv'
<1>1. SettingsTypeInv' /\ Keep(p) /\ place'[p] = to /\ req'[p].alone = req[p].alone
    BY ReadType, Zenon DEF AclInv
<1>2. acl_table' = acl_table /\ acl' = acl /\ disturbed' = disturbed /\ place[p] = from
    BY DEF ReadList, Moves
<1>3. Alone'
    BY <1>1, <1>2, KeepAlone, Zenon DEF AclPlaces
<1>4. OnItsWay'
    BY <1>1, <1>2 DEF AclInv, OnItsWay, Keep
<1>5. \A r \in Requests : req'[r].alone => Written(r)'
    BY <1>1, <1>2, Zenon DEF AclInv, Written, Keep
<1> QED
    BY <1>1, <1>3, <1>4, <1>5 DEF AclInv

LEMMA WriteAcl ==
    ASSUME AclInv, NEW p \in Requests,
           \/ WriteList(p, "allowed", "write_allowed", "write_denied")
           \/ WriteList(p, "denied", "write_denied", "reload")
    PROVE  AclInv'
<1>1. SettingsTypeInv' /\ Keep(p) /\ place'[p] \in {"write_denied", "reload"} /\ place[p] \in {"write_allowed", "write_denied"}
    BY WriteType, ZenonT(30) DEF AclInv, Keys, WriteList, Moves
<1>2. req' = req
    BY Zenon DEF WriteList
<1>3. Alone'
    BY <1>1, <1>2, KeepAlone DEF AclPlaces
<1>4. OnItsWay'
    BY <1>1, Zenon DEF OnItsWay
<1>5. ASSUME NEW r \in Requests, r # p, req[r].alone PROVE Written(r)'
  <2>1. p \in InAcl
    BY <1>1 DEF InAcl, AclPlaces
  <2>2. r \notin InAcl
    BY <1>5, <2>1, Zenon DEF AclInv, Alone
  <2>3. place'[r] \notin AclPlaces
    BY <1>1, <1>5, <2>2, Zenon DEF Keep, InAcl
  <2> QED
    BY <2>3, Zenon DEF Written, AclPlaces
<1>6. ASSUME req[p].alone PROVE Written(p)'
  <2>1. acl_table \in [Keys -> Lists] /\ req[p].new \in [Keys -> Lists \cup {{Invalid}}] /\ p \in Processes /\ place \in [Processes -> Places]
    BY FieldTypes, ZenonT(30) DEF AclInv, SettingsTypeInv, SettingsTypeOK, Acl, Processes
  <2>2. CASE WriteList(p, "allowed", "write_allowed", "write_denied")
    BY <1>2, <2>1, <2>2, Zenon DEF Written, WriteList, Moves, Keys
  <2>3. CASE WriteList(p, "denied", "write_denied", "reload")
    <3>1. place'[p] = "reload" /\ acl_table' = [acl_table EXCEPT !["denied"] = req[p].new["denied"]]
      BY <2>1, <2>3 DEF WriteList, Moves
    <3>2. acl_table["allowed"] = req[p].new["allowed"]
      BY <1>6, <2>3, Zenon DEF AclInv, Written, WriteList, Moves
    <3>3. acl_table' = req[p].new
      BY <2>1, <3>1, <3>2, ZenonT(30) DEF Keys
    <3> QED
      BY <1>2, <3>1, <3>3, Zenon DEF Written
  <2> QED
    BY <2>2, <2>3
<1> QED
    BY <1>1, <1>2, <1>3, <1>4, <1>5, <1>6 DEF AclInv

LEMMA LeaveAcl ==
    ASSUME AclInv, NEW p \in Requests, Refuse(p) \/ reload_acl(p) \/ WriteStrategy(p) \/ Stop(p)
    PROVE  AclInv'
<1>1. SettingsTypeInv' /\ Keep(p) /\ place'[p] \in {"idle", "strategy", "wait_write"} /\ acl_table' = acl_table
    BY Leaves, Zenon DEF AclInv
<1>2. Alone'
    BY <1>1, KeepAlone DEF AclPlaces
<1>3. \A r \in Requests : req'[r].alone => Written(r)'
    BY <1>1, Zenon DEF AclInv, Written, Keep
<1>4. OnItsWay'
  <2>1. CASE reload_acl(p)
    <3>1. acl' = req[p].new /\ disturbed' = ~req[p].alone /\ place[p] = "reload"
      BY <2>1, Zenon DEF reload_acl
    <3>2. req[p].alone => acl_table = req[p].new
      BY <3>1 DEF AclInv, Written
    <3> QED
      BY <1>1, <3>1, <3>2, Zenon DEF OnItsWay
  <2>2. CASE Stop(p)
    <3>1. acl' = acl /\ disturbed' = (disturbed \/ place[p] \in {"write_denied", "reload"})
      BY <2>2 DEF Stop
    <3> QED
      BY <1>1, <3>1, Zenon DEF AclInv, OnItsWay, Keep
  <2>3. CASE Refuse(p) \/ WriteStrategy(p)
    <3>1. acl' = acl /\ disturbed' = disturbed /\ place[p] \in {"write_allowed", "strategy"}
      BY <2>3, ZenonT(30) DEF Refuse, WriteStrategy, Queues, Moves
    <3> QED
      BY <1>1, <3>1, ZenonT(30) DEF AclInv, OnItsWay, Keep
  <2> QED
    BY <2>1, <2>2, <2>3
<1> QED
    BY <1>1, <1>2, <1>3, <1>4, Zenon DEF AclInv

LEMMA RestartAcl ==
    ASSUME AclInv, Restart
    PROVE  AclInv'
<1>1. place' = [p \in Processes |-> "idle"] /\ req' = [p \in Requests |-> NoReq] /\ readers' = {}
      /\ acl' = acl_table /\ acl_table' = acl_table /\ disturbed' = FALSE
    BY DEF Restart
<1>2. \A p \in Requests : place'[p] = "idle"
    BY <1>1 DEF Processes
<1>3. SettingsTypeOK'
    BY <1>1, NoReqType, Zenon DEF AclInv, SettingsTypeInv, SettingsTypeOK, Places
<1>4. SettingsTypeInv'
    BY <1>2, <1>3 DEF SettingsTypeInv
<1>5. InAcl' = {}
    BY <1>2 DEF InAcl, AclPlaces
<1>6. Alone' /\ OnItsWay' /\ \A p \in Requests : Written(p)'
    BY <1>1, <1>2, <1>5, Zenon DEF Alone, OnItsWay, Written
<1> QED
    BY <1>4, <1>6, Zenon DEF AclInv

LEMMA NextAcl ==
    AclInv /\ [SettingsNext]_settings_vars => AclInv'
<1> SUFFICES ASSUME AclInv, [SettingsNext]_settings_vars PROVE AclInv'
    OBVIOUS
<1>1. ASSUME NEW p \in Processes, LockStep(p) PROVE AclInv'
    BY <1>1, LockAcl
<1>2. Queries \subseteq Processes /\ Health \in Processes /\ Writers \subseteq Processes
    BY DEF Processes, Writers
<1>3. SettingsTypeInv
    BY Zenon DEF AclInv
<1>4. ASSUME NEW q \in Queries, Ask(q) \/ EnterRead(q) \/ Answered(q) \/ Dropped(q) PROVE AclInv'
    BY <1>1, <1>2, <1>3, <1>4, LockSteps, Zenon
<1>5. CASE HealthTick \/ EnterRead(Health) \/ ProbesEnd
    BY <1>1, <1>2, <1>3, <1>5, LockSteps, Zenon
<1>6. ASSUME NEW p \in Writers, ReplacePool(p) PROVE AclInv'
    BY <1>1, <1>2, <1>3, <1>6, LockSteps, Zenon
<1>7. ASSUME NEW p \in Requests, NEW body \in Bodies, Begin(p, body) PROVE AclInv'
    BY <1>7, BeginAcl, Zenon
<1>8. ASSUME NEW p \in Requests, update_dns(p) \/ Stop(p) PROVE AclInv'
  <2>1. CASE ReadList(p, "allowed", "read_allowed", "read_denied")
    BY <2>1, ReadAcl, Zenon DEF Keys
  <2>2. CASE ReadList(p, "denied", "read_denied", "write_allowed")
    BY <2>2, ReadAcl DEF Keys
  <2>3. CASE WriteList(p, "allowed", "write_allowed", "write_denied") \/ WriteList(p, "denied", "write_denied", "reload")
    BY <2>3, WriteAcl, Zenon
  <2>4. CASE Refuse(p) \/ reload_acl(p) \/ WriteStrategy(p) \/ Stop(p)
    BY <2>4, LeaveAcl
  <2> QED
    BY <1>8, <2>1, <2>2, <2>3, <2>4, Zenon DEF update_dns
<1>9. CASE Restart
    BY <1>9, RestartAcl
<1>10. CASE UNCHANGED settings_vars
  <2>1. UNCHANGED <<acl_table, acl, req, disturbed, place, queue, readers>>
    BY <1>10, Zenon DEF settings_vars, acl_vars, lock_vars
  <2>2. SettingsTypeInv'
    BY <1>3, <2>1, Zenon DEF SettingsTypeInv, SettingsTypeOK, Valid
  <2>3. Alone' /\ OnItsWay' /\ \A p \in Requests : req'[p].alone => Written(p)'
    BY <2>1 DEF AclInv, Alone, InAcl, OnItsWay, Written
  <2> QED
    BY <2>2, <2>3, Zenon DEF AclInv
<1> QED
    BY <1>4, <1>5, <1>6, <1>7, <1>8, <1>9, <1>10, Zenon DEF SettingsNext

\* The types of DnsSettings: whatever bodies come in, only lists that
\* validate_cidrs accepted are stored or put in force (settings.rs).
THEOREM SettingsTypeCorrect == SettingsSpec => []SettingsTypeOK
<1>1. AclInv => SettingsTypeOK
    BY DEF AclInv, SettingsTypeInv
<1> QED
    BY <1>1, InitAclInv, NextAcl, PTL DEF SettingsSpec

\* The access lists in force let in whom the stored ones let in, unless updates
\* overlapped or one stopped between its writes (update_dns, reload_acl).
THEOREM AclCorrect == SettingsSpec => []AclFollowsTable
<1>1. AclInv => AclFollowsTable
  <2> SUFFICES ASSUME AclInv, AtRest, ~disturbed
               PROVE  acl = acl_table
    BY DEF AclFollowsTable
  <2> QED
    BY DEF AclInv, OnItsWay, AtRest, InAcl, AclPlaces
<1> QED
    BY <1>1, InitAclInv, NextAcl, PTL DEF SettingsSpec
=============================================================================

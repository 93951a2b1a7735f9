----------------------------- MODULE DnsServer -----------------------------
(***************************************************************************)
(* The DNS server over UDP and TCP (dns::server::run) and how the process  *)
(* stops: main, the shutdown signal, the drain of the DNS server and the   *)
(* graceful shutdown of the management API.                                *)
(*                                                                         *)
(* Every await and every atomic operation that another thread can observe  *)
(* is a step of its own: the permit is taken before the connection counter *)
(* is raised, and the counter is lowered before the permit is returned.    *)
(* What a query is answered is left to DnsHandler.                         *)
(***************************************************************************)
EXTENDS Naturals, FiniteSets

CONSTANTS
    Connections,          \* TCP connections clients may open
    Datagrams,            \* UDP queries clients may send
    ApiRequests,          \* requests of the management API
    MAX_TCP_CONNECTIONS,  \* 256 in the code
    MAX_CONCURRENT,       \* the UDP limit, at least 512 in the code
    DRAIN_TIMEOUT,        \* seconds the server waits for TCP, 5 in the code
    SHUTDOWN_TIMEOUT      \* seconds main waits for the servers, 30

ASSUME ServerAssumption ==
    /\ IsFiniteSet(Connections) /\ IsFiniteSet(Datagrams)
    /\ MAX_TCP_CONNECTIONS \in Nat \ {0} /\ MAX_CONCURRENT \in Nat \ {0}
    /\ DRAIN_TIMEOUT \in Nat /\ SHUTDOWN_TIMEOUT \in Nat
    /\ DRAIN_TIMEOUT < SHUTDOWN_TIMEOUT

VARIABLES
    main,            \* where main is
    waited,          \* seconds main has waited for the servers
    server,          \* where dns::server::run is
    drained,         \* seconds run has waited for connections
    api,             \* where api::serve is
    http,            \* API requests being served
    signalled,       \* tasks that hold the shutdown signal in their receiver
    tcp_loop, udp_loop,
    local_shutdown,  \* run has sent its own shutdown to both loops
    conn,            \* state of each TCP connection
    tcp_sem,         \* permits left
    active_tcp_connections,
    query,           \* state of each UDP query
    udp_sem,         \* permits left
    \* History, read by no action of the program:
    counted_first,   \* connections counted when the drain began
    drain_timed_out, \* the drain gave up
    forced,          \* main did not wait for the servers
    cut              \* protocols over which a query was being handled at the end

main_vars == <<main, waited>>
api_vars == <<api, http>>
tcp_vars == <<tcp_loop, conn, tcp_sem, active_tcp_connections>>
udp_vars == <<udp_loop, query, udp_sem>>
server_history == <<counted_first, drain_timed_out, forced, cut>>
server_vars == <<main_vars, server, drained, api_vars, signalled, tcp_vars, udp_vars,
                local_shutdown, server_history>>

Tasks == {"dns", "api"}

\* queued: in the listener's backlog.  permitted: holds a permit, not counted.
\* leaving: no longer counted, permit not returned yet.
ConnStates == {"idle", "queued", "permitted", "length", "body", "handling", "leaving",
               "closed", "refused"}
Counted == {"length", "body", "handling"}
Holding == {"permitted", "leaving"} \cup Counted
\* done: answered, or dropped for want of a permit.
QueryStates == {"idle", "handling", "done"}

In(states) == {c \in Connections : conn[c] \in states}
Handled == {q \in Datagrams : query[q] = "handling"}

\* The types of the state of main, the servers, every connection and every query;
\* no semaphore is overdrawn.
ServerTypeOK ==
    /\ main \in {"serving", "waiting", "closing", "exited"}
    /\ waited \in 0..SHUTDOWN_TIMEOUT
    /\ server \in {"starting", "serving", "draining", "done"}
    /\ drained \in 0..DRAIN_TIMEOUT
    /\ api \in {"starting", "serving", "draining", "done"}
    /\ http \subseteq ApiRequests
    /\ signalled \subseteq Tasks
    /\ tcp_loop \in {"none", "select", "stopped"} /\ udp_loop \in {"none", "select", "stopped"}
    /\ local_shutdown \in BOOLEAN
    /\ conn \in [Connections -> ConnStates]
    /\ tcp_sem \in 0..MAX_TCP_CONNECTIONS
    /\ active_tcp_connections \in 0..MAX_TCP_CONNECTIONS
    /\ query \in [Datagrams -> QueryStates]
    /\ udp_sem \in 0..MAX_CONCURRENT
    /\ counted_first \subseteq Connections
    /\ drain_timed_out \in BOOLEAN /\ forced \in BOOLEAN
    /\ cut \subseteq {"tcp", "udp"}

ServerInit ==
    /\ main = "serving" /\ waited = 0
    /\ server = "starting" /\ drained = 0
    /\ api = "starting" /\ http = {}
    /\ signalled = {}
    /\ tcp_loop = "none" /\ udp_loop = "none" /\ local_shutdown = FALSE
    /\ conn = [c \in Connections |-> "idle"]
    /\ tcp_sem = MAX_TCP_CONNECTIONS /\ active_tcp_connections = 0
    /\ query = [q \in Datagrams |-> "idle"]
    /\ udp_sem = MAX_CONCURRENT
    /\ counted_first = {} /\ drain_timed_out = FALSE /\ forced = FALSE /\ cut = {}

Running == main # "exited"

-----------------------------------------------------------------------------
(* dns::server::run *)

\* It subscribes to the shutdown signal when its task is first polled, binds
\* both sockets and spawns the loops.
Start ==
    /\ Running /\ server = "starting"
    /\ server' = "serving"
    /\ tcp_loop' = "select" /\ udp_loop' = "select"
    /\ UNCHANGED <<main_vars, drained, api_vars, signalled, conn, tcp_sem,
                   active_tcp_connections, query, udp_sem, local_shutdown, server_history>>

\* A bind fails: the error is logged and the task ends.
StartFails ==
    /\ Running /\ server = "starting"
    /\ server' = "done"
    /\ UNCHANGED <<main_vars, drained, api_vars, signalled, tcp_vars, udp_vars,
                   local_shutdown, server_history>>

\* The signal arrives: run tells its loops and starts to drain.
ReceiveSignal ==
    /\ Running /\ server = "serving" /\ "dns" \in signalled
    /\ server' = "draining"
    /\ signalled' = signalled \ {"dns"}
    /\ local_shutdown' = TRUE
    /\ counted_first' = In(Counted)
    /\ UNCHANGED <<main_vars, drained, api_vars, tcp_vars, udp_vars, drain_timed_out,
                   forced, cut>>

\* Mutant of DrainEnds: it ends with one connection left.
DrainEnds_Early ==
    /\ Running /\ server = "draining"
    /\ active_tcp_connections <= 1 \/ drained >= DRAIN_TIMEOUT
    /\ drain_timed_out' = (active_tcp_connections > 1)
    /\ server' = "done" /\ drained' = 0
    /\ UNCHANGED <<main_vars, api_vars, signalled, tcp_vars, udp_vars, local_shutdown,
                   counted_first, forced, cut>>

\* One turn of the drain loop that leaves it; otherwise run sleeps (Elapse).
DrainEnds ==
    /\ Running /\ server = "draining"
    /\ active_tcp_connections = 0 \/ drained >= DRAIN_TIMEOUT
    /\ drain_timed_out' = (active_tcp_connections # 0)
    /\ server' = "done" /\ drained' = 0
    /\ UNCHANGED <<main_vars, api_vars, signalled, tcp_vars, udp_vars, local_shutdown,
                   counted_first, forced, cut>>

-----------------------------------------------------------------------------
(* TCP *)

TcpStep == UNCHANGED <<main_vars, server, drained, api_vars, signalled, udp_vars,
                       local_shutdown, server_history>>

\* A client connects while the listener is open.
Connect(c) ==
    /\ Running /\ tcp_loop = "select" /\ conn[c] = "idle"
    /\ conn' = [conn EXCEPT ![c] = "queued"]
    /\ UNCHANGED <<tcp_loop, tcp_sem, active_tcp_connections>> /\ TcpStep

\* The accept loop handles one connection at a time: it takes a permit and
\* then raises the counter, before it selects again.
AcceptIdle == \A c \in Connections : conn[c] # "permitted"

\* accept() and try_acquire_owned(): no permit, and the connection is closed.
Accept(c) ==
    /\ Running /\ tcp_loop = "select" /\ AcceptIdle /\ conn[c] = "queued"
    /\ IF tcp_sem > 0
       THEN tcp_sem' = tcp_sem - 1 /\ conn' = [conn EXCEPT ![c] = "permitted"]
       ELSE conn' = [conn EXCEPT ![c] = "refused"] /\ UNCHANGED tcp_sem
    /\ UNCHANGED <<tcp_loop, active_tcp_connections>> /\ TcpStep

\* fetch_add(1), and the connection's own task is spawned.
Track(c) ==
    /\ Running /\ conn[c] = "permitted"
    /\ active_tcp_connections' = active_tcp_connections + 1
    /\ conn' = [conn EXCEPT ![c] = "length"]
    /\ UNCHANGED <<tcp_loop, tcp_sem>> /\ TcpStep

\* Every way out of the connection's task lowers the counter.
Leave(c) ==
    /\ active_tcp_connections' = active_tcp_connections - 1
    /\ conn' = [conn EXCEPT ![c] = "leaving"]
    /\ UNCHANGED <<tcp_loop, tcp_sem>> /\ TcpStep

\* The length prefix arrives.
ReadLength(c) ==
    /\ Running /\ conn[c] = "length"
    /\ conn' = [conn EXCEPT ![c] = "body"]
    /\ UNCHANGED <<tcp_loop, tcp_sem, active_tcp_connections>> /\ TcpStep

\* Five seconds pass, the length is zero, or the read fails: a failed read is
\* not told apart from a good one and leaves the zeros of the buffer.
NoLength(c) == Running /\ conn[c] = "length" /\ Leave(c)

\* The message arrives, or the client closes in the middle of it.
ReadBody(c) ==
    /\ Running /\ conn[c] = "body"
    /\ conn' = [conn EXCEPT ![c] = "handling"]
    /\ UNCHANGED <<tcp_loop, tcp_sem, active_tcp_connections>> /\ TcpStep

\* Mutants of BodyTimeout: it waits for the next message instead; this way out
\* forgets the counter.
BodyTimeout_Again(c) ==
    /\ Running /\ conn[c] = "body"
    /\ conn' = [conn EXCEPT ![c] = "length"]
    /\ UNCHANGED <<tcp_loop, tcp_sem, active_tcp_connections>> /\ TcpStep

BodyTimeout_Uncounted(c) ==
    /\ Running /\ conn[c] = "body"
    /\ conn' = [conn EXCEPT ![c] = "leaving"]
    /\ UNCHANGED <<tcp_loop, tcp_sem, active_tcp_connections>> /\ TcpStep

BodyTimeout(c) == Running /\ conn[c] = "body" /\ Leave(c)

\* h.handle and the writes, whatever they answer; one message per connection.
Respond(c) == Running /\ conn[c] = "handling" /\ Leave(c)

\* The task ends and drops its permit.
ReturnPermit(c) ==
    /\ Running /\ conn[c] = "leaving"
    /\ tcp_sem' = tcp_sem + 1
    /\ conn' = [conn EXCEPT ![c] = "closed"]
    /\ UNCHANGED <<tcp_loop, active_tcp_connections>> /\ TcpStep

\* The accept loop receives the local shutdown: the listener is dropped, and
\* with it the connections nobody accepted.
StopTcp ==
    /\ Running /\ tcp_loop = "select" /\ local_shutdown /\ AcceptIdle
    /\ tcp_loop' = "stopped"
    /\ conn' = [c \in Connections |-> IF conn[c] = "queued" THEN "refused" ELSE conn[c]]
    /\ UNCHANGED <<tcp_sem, active_tcp_connections>> /\ TcpStep

-----------------------------------------------------------------------------
(* UDP *)

UdpStep == UNCHANGED <<main_vars, server, drained, api_vars, signalled, tcp_vars,
                       local_shutdown, server_history>>

\* recv_from and try_acquire_owned(): without a permit the query is dropped.
Receive(q) ==
    /\ Running /\ udp_loop = "select" /\ query[q] = "idle"
    /\ IF udp_sem > 0
       THEN udp_sem' = udp_sem - 1 /\ query' = [query EXCEPT ![q] = "handling"]
       ELSE query' = [query EXCEPT ![q] = "done"] /\ UNCHANGED udp_sem
    /\ UNCHANGED udp_loop /\ UdpStep

\* handle_bytes and send_to; the task ends and drops its permit.
Answer(q) ==
    /\ Running /\ query[q] = "handling"
    /\ udp_sem' = udp_sem + 1
    /\ query' = [query EXCEPT ![q] = "done"]
    /\ UNCHANGED udp_loop /\ UdpStep

StopUdp ==
    /\ Running /\ udp_loop = "select" /\ local_shutdown
    /\ udp_loop' = "stopped"
    /\ UNCHANGED <<query, udp_sem>> /\ UdpStep

-----------------------------------------------------------------------------
(* api::serve: axum accepts until the signal, then waits for its requests *)

ApiStep == UNCHANGED <<main_vars, server, drained, tcp_vars, udp_vars, local_shutdown,
                       server_history>>

\* bind, then subscribe; when bind fails the task ends.
ApiStart ==
    /\ Running /\ api = "starting"
    /\ api' \in {"serving", "done"}
    /\ UNCHANGED <<http, signalled>> /\ ApiStep

ApiRequest(r) ==
    /\ Running /\ api = "serving" /\ r \notin http
    /\ http' = http \cup {r}
    /\ UNCHANGED <<api, signalled>> /\ ApiStep

ApiResponse(r) ==
    /\ Running /\ r \in http
    /\ http' = http \ {r}
    /\ UNCHANGED <<api, signalled>> /\ ApiStep

ApiSignal ==
    /\ Running /\ api = "serving" /\ "api" \in signalled
    /\ api' = "draining"
    /\ signalled' = signalled \ {"api"}
    /\ UNCHANGED http /\ ApiStep

ApiEnds ==
    /\ Running /\ api = "draining" /\ http = {}
    /\ api' = "done"
    /\ UNCHANGED <<http, signalled>> /\ ApiStep

-----------------------------------------------------------------------------
(* main *)

MainStep == UNCHANGED <<server, drained, api_vars, tcp_vars, udp_vars, local_shutdown,
                        counted_first, drain_timed_out, cut>>

\* A termination signal; ShutdownSignal::initiate reaches the tasks that have
\* subscribed by now, and only those.
Subscribed == {t \in Tasks : IF t = "dns" THEN server = "serving" ELSE api = "serving"}

Initiate ==
    /\ main = "serving"
    /\ main' = "waiting"
    /\ signalled' = Subscribed
    /\ UNCHANGED <<waited, forced>> /\ MainStep

\* Both servers have ended.
Joined ==
    /\ main = "waiting" /\ server = "done" /\ api = "done"
    /\ main' = "closing" /\ waited' = 0
    /\ UNCHANGED <<signalled, forced>> /\ MainStep

\* Mutant of TimedOut: main waits for the servers without a limit.
TimedOut_Never == FALSE

\* Thirty seconds have passed, or Ctrl-C was pressed again.
TimedOut == main = "waiting" /\ waited >= SHUTDOWN_TIMEOUT
CtrlC == main = "waiting"

ForceExit(why) ==
    /\ why
    /\ main' = "closing" /\ waited' = 0 /\ forced' = TRUE
    /\ UNCHANGED signalled /\ MainStep

\* The pool is closed, main returns, and the runtime drops every task and what
\* it was doing.
Exit ==
    /\ main = "closing"
    /\ main' = "exited"
    /\ cut' = {k \in {"tcp", "udp"} : IF k = "tcp" THEN In({"handling"}) # {} ELSE Handled # {}}
    /\ signalled' = {} /\ server' = "done" /\ drained' = 0
    /\ api' = "done" /\ http' = {}
    /\ tcp_loop' = "stopped" /\ udp_loop' = "stopped"
    /\ conn' = [c \in Connections |-> "closed"]
    /\ tcp_sem' = MAX_TCP_CONNECTIONS /\ active_tcp_connections' = 0
    /\ query' = [q \in Datagrams |-> "done"]
    /\ udp_sem' = MAX_CONCURRENT
    /\ counted_first' = {}
    /\ UNCHANGED <<waited, local_shutdown, drain_timed_out, forced>>

\* A second passes for whoever waits.
Elapse ==
    /\ \/ main = "waiting" /\ waited < SHUTDOWN_TIMEOUT
       \/ Running /\ server = "draining" /\ drained < DRAIN_TIMEOUT
    /\ waited' = IF main = "waiting" /\ waited < SHUTDOWN_TIMEOUT THEN waited + 1 ELSE waited
    /\ drained' = IF server = "draining" /\ drained < DRAIN_TIMEOUT THEN drained + 1 ELSE drained
    /\ UNCHANGED <<main, server, api_vars, signalled, tcp_vars, udp_vars, local_shutdown,
                   server_history>>

-----------------------------------------------------------------------------
ConnectionTask(c) ==
    \/ ReadLength(c) \/ NoLength(c) \/ ReadBody(c) \/ BodyTimeout(c) \/ Respond(c)
    \/ ReturnPermit(c)

\* The steps of one task follow one another, so fairness for the task is
\* fairness for each of them.
ServerTask == Start \/ StartFails \/ ReceiveSignal \/ DrainEnds
ApiTask == ApiStart \/ ApiSignal \/ ApiEnds
MainTask == Joined \/ ForceExit(TimedOut) \/ Exit

ServerNext ==
    \/ ServerTask \/ ApiTask \/ MainTask
    \/ \E c \in Connections : Connect(c) \/ Accept(c) \/ Track(c) \/ ConnectionTask(c)
    \/ StopTcp
    \/ \E q \in Datagrams : Receive(q) \/ Answer(q)
    \/ StopUdp
    \/ \E r \in ApiRequests : ApiRequest(r) \/ ApiResponse(r)
    \/ Initiate \/ ForceExit(CtrlC)
    \/ Elapse

ServerSpec == ServerInit /\ [][ServerNext]_server_vars

\* tokio polls every ready task, timers fire, reads are bounded by their
\* timeout and a query is answered or fails; nobody has to connect, to stop
\* the process, to start a task before the process stops, or to press Ctrl-C.
ServerFairness ==
    /\ WF_server_vars(ServerTask) /\ WF_server_vars(ApiTask) /\ WF_server_vars(MainTask) /\ WF_server_vars(Elapse)
    /\ \A c \in Connections : WF_server_vars(Track(c) \/ ConnectionTask(c))
    /\ WF_server_vars(StopTcp) /\ WF_server_vars(StopUdp)
    /\ \A q \in Datagrams : WF_server_vars(Answer(q))
    /\ \A r \in ApiRequests : WF_server_vars(ApiResponse(r))

FairServerSpec == ServerSpec /\ ServerFairness

-----------------------------------------------------------------------------
(* Properties *)

\* Whatever way a connection's task ends, and however the steps of several
\* interleave, the counter the drain waits on is the number of connections
\* being served, no permit of either semaphore is lost or made up, and neither
\* limit is passed.
CountsExact ==
    /\ active_tcp_connections = Cardinality(In(Counted))
    /\ tcp_sem + Cardinality(In(Holding)) = MAX_TCP_CONNECTIONS /\ tcp_sem >= 0
    /\ udp_sem + Cardinality(Handled) = MAX_CONCURRENT /\ udp_sem >= 0

\* A connection that was counted when the drain began has been served when run
\* returns, unless the drain gave up after DRAIN_TIMEOUT seconds.
CountedConnectionsServed ==
    (server = "done" /\ ~drain_timed_out) => counted_first \cap In(Counted) = {}

\* A connection cannot keep its permit: a server at its limit accepts again.
PermitsComeBack == tcp_sem = 0 ~> (tcp_sem > 0 \/ ~Running)

\* The process ends once it was told to, also when a task missed the signal or
\* a client never closes its connection.
ShutdownEnds == main = "waiting" ~> main = "exited"

\* "The shutdown initiator sends a signal; all listeners stop their work": once
\* main waits for it, a DNS server that still serves has been told to stop.
SignalNotMissed == (main = "waiting" /\ server = "serving") => "dns" \in signalled

\* "servers should stop accepting new connections and wait for in-flight
\* requests to complete": for TCP, when no timeout and no Ctrl-C interferes.
TcpRequestsComplete ==
    (main = "exited" /\ ~forced /\ ~drain_timed_out) => "tcp" \notin cut

\* The same for the queries over UDP.
UdpRequestsComplete == (main = "exited" /\ ~forced) => "udp" \notin cut
=============================================================================

--------------------------- MODULE QueryLogWriter ---------------------------
(***************************************************************************)
(* The query log: DnsHandler::log_query offers an entry to a bounded       *)
(* channel, the background task query_log_writer::run collects entries in  *)
(* a batch, counts the blocked ones per client, and writes the batch in    *)
(* one transaction.  The end of main decides what becomes of the rest.     *)
(*                                                                         *)
(* An entry keeps its client and whether it was blocked.  Time advances in *)
(* whole seconds, the unit in which the code compares durations.           *)
(***************************************************************************)
EXTENDS Naturals, Sequences, FiniteSets

CONSTANTS
    ClientIps,         \* client addresses
    Statuses,          \* values of QueryLogEntry.status; "blocked" is one
    CHANNEL_CAPACITY,  \* 32768 in the code
    BATCH_SIZE,        \* 500 in the code
    THRESHOLD,         \* blocked queries that raise an alert, 50 in the code
    WINDOW,            \* age in seconds a count may reach, 60 in the code
    STALE,             \* age in seconds at which a count is dropped, 120
    NoCount,           \* "no count for this client"
    MaxEntries,        \* bound on the queries logged
    MaxSeconds         \* bound on time

ASSUME QueryLogAssumption ==
    /\ "blocked" \in Statuses
    /\ CHANNEL_CAPACITY \in Nat \ {0} /\ BATCH_SIZE \in Nat \ {0}
    /\ THRESHOLD \in Nat /\ THRESHOLD > 1
    /\ WINDOW \in Nat /\ STALE \in Nat
    /\ MaxEntries \in Nat /\ MaxSeconds \in Nat
    /\ NoCount \notin [n : Nat, first : Nat]

VARIABLES
    logged,        \* how many entries log_query has offered
    channel,       \* the mpsc channel
    senders,       \* some DnsHandler still holds the sending half
    batch,         \* the writer's Vec
    block_counts,  \* per client: (block_count, first_block_time)
    at,            \* where the writer is
    then,          \* what follows the flush in progress
    query_log,     \* the table, in insertion order
    pool_open,     \* db_pool has not been closed
    main,          \* where main is
    seconds,       \* the time
    \* History, read by no action of the program:
    alerts,        \* the alerts raised
    blocks,        \* the blocked entries the writer has counted
    flush_failed   \* some flush failed while the pool was open

writer == <<batch, at, then>>
history == <<alerts, blocks, flush_failed>>
vars == <<logged, channel, senders, writer, block_counts, query_log, pool_open, main,
          seconds, history>>

QueryLogEntry == [id : 1..MaxEntries, client_ip : ClientIps, status : Statuses]
Moment == [id : 1..MaxEntries, client_ip : ClientIps, time : 0..MaxSeconds]

\* The types of the channel, the writer and main; the channel and the batch keep
\* their capacities.
TypeOK ==
    /\ logged \in 0..MaxEntries
    /\ channel \in Seq(QueryLogEntry) /\ Len(channel) <= CHANNEL_CAPACITY
    /\ senders \in BOOLEAN
    /\ batch \in Seq(QueryLogEntry) /\ Len(batch) <= BATCH_SIZE
    /\ at \in {"select", "begin", "commit", "returned"}
    /\ then \in {"loop", "prune", "return"}
    /\ block_counts \in [ClientIps -> [n : Nat, first : 0..MaxSeconds] \cup {NoCount}]
    /\ query_log \in Seq(QueryLogEntry)
    /\ pool_open \in BOOLEAN
    /\ main \in {"serving", "stopping", "closing", "exited"}
    /\ seconds \in 0..MaxSeconds
    /\ alerts \subseteq Moment /\ blocks \subseteq Moment
    /\ flush_failed \in BOOLEAN

Init ==
    /\ logged = 0
    /\ channel = <<>> /\ senders = TRUE
    /\ batch = <<>> /\ at = "select" /\ then = "loop"
    /\ block_counts = [c \in ClientIps |-> NoCount]
    /\ query_log = <<>>
    /\ pool_open = TRUE /\ main = "serving"
    /\ seconds = 0
    /\ alerts = {} /\ blocks = {} /\ flush_failed = FALSE

Running == main # "exited"

-----------------------------------------------------------------------------
(* The DNS handlers *)

\* DnsHandler::log_query: try_send never waits; a full channel drops the entry.
\* A handler may log as long as it lives, also while the server is stopping.
HasRoom == Len(channel) < CHANNEL_CAPACITY

log_query(c, s) ==
    /\ Running /\ senders
    /\ logged < MaxEntries
    /\ logged' = logged + 1
    /\ channel' = IF HasRoom /\ at # "returned"
                  THEN Append(channel, [id |-> logged + 1, client_ip |-> c, status |-> s])
                  ELSE channel
    /\ UNCHANGED <<senders, writer, block_counts, query_log, pool_open, main, seconds,
                   history>>

-----------------------------------------------------------------------------
(* The writer task *)

\* The count after a blocked entry: it starts afresh when older than WINDOW,
\* and a count that starts afresh does not test the threshold.
\* Mutant of Expired: a count never starts afresh.
Expired_Never(c) == FALSE

Expired(c) == block_counts[c] # NoCount /\ seconds - block_counts[c].first > WINDOW

Counted(c) ==
    IF block_counts[c] = NoCount \/ Expired(c)
    THEN [n |-> 1, first |-> seconds]
    ELSE [block_counts[c] EXCEPT !.n = @ + 1]

\* Mutant of RaisesAlert: every block above the threshold is reported.
RaisesAlert_Above(c) == ~Expired(c) /\ Counted(c).n >= THRESHOLD

RaisesAlert(c) == ~Expired(c) /\ Counted(c).n = THRESHOLD

\* An entry arrives: it is counted if blocked, pushed, and a full batch is
\* flushed before the next select.
Receive ==
    /\ Running /\ at = "select" /\ channel # <<>>
    /\ LET e == Head(channel)
           moment == [id |-> e.id, client_ip |-> e.client_ip, time |-> seconds]
       IN  /\ channel' = Tail(channel)
           /\ batch' = Append(batch, e)
           /\ IF e.status = "blocked"
              THEN /\ block_counts' = [block_counts EXCEPT ![e.client_ip] = Counted(e.client_ip)]
                   /\ alerts' = alerts \cup (IF RaisesAlert(e.client_ip) THEN {moment} ELSE {})
                   /\ blocks' = blocks \cup {moment}
              ELSE UNCHANGED <<block_counts, alerts, blocks>>
    /\ at' = IF Len(batch') >= BATCH_SIZE THEN "begin" ELSE "select"
    /\ then' = "loop"
    /\ UNCHANGED <<logged, senders, query_log, pool_open, main, seconds, flush_failed>>

\* The channel is closed and empty: the remainder is flushed and run returns.
ReceiveNone ==
    /\ Running /\ at = "select" /\ channel = <<>> /\ ~senders
    /\ at' = IF batch # <<>> THEN "begin" ELSE "returned"
    /\ then' = "return"
    /\ UNCHANGED <<logged, channel, senders, batch, block_counts, query_log, pool_open,
                   main, seconds, history>>

\* block_counts.retain of the tick, at the time the flush has ended.
Pruned ==
    [c \in ClientIps |->
        IF block_counts[c] # NoCount /\ seconds - block_counts[c].first >= STALE
        THEN NoCount ELSE block_counts[c]]

\* Mutant of TickerTick: it only prunes.
TickerTick_OnlyPrunes ==
    /\ Running /\ at = "select"
    /\ block_counts' = Pruned
    /\ UNCHANGED <<logged, channel, senders, writer, query_log, pool_open, main, seconds,
                   history>>

\* The ticker fires: flush what there is, then prune.
TickerTick ==
    /\ Running /\ at = "select"
    /\ IF batch # <<>>
       THEN at' = "begin" /\ then' = "prune" /\ UNCHANGED block_counts
       ELSE block_counts' = Pruned /\ UNCHANGED <<at, then>>
    /\ UNCHANGED <<logged, channel, senders, batch, query_log, pool_open, main, seconds,
                   history>>

\* flush ends, whatever write_batch answered: the batch is cleared.
FlushEnds ==
    /\ batch' = <<>>
    /\ at' = IF then = "return" THEN "returned" ELSE "select"
    /\ block_counts' = IF then = "prune" THEN Pruned ELSE block_counts
    /\ UNCHANGED <<logged, channel, senders, then, pool_open, main, seconds, alerts, blocks>>

\* db.begin() takes a connection, which a closed pool refuses.
Begin ==
    /\ Running /\ at = "begin" /\ pool_open
    /\ at' = "commit"
    /\ UNCHANGED <<logged, channel, senders, batch, then, block_counts, query_log,
                   pool_open, main, seconds, history>>

BeginRefused ==
    /\ Running /\ at = "begin" /\ ~pool_open
    /\ FlushEnds
    /\ UNCHANGED <<query_log, flush_failed>>

\* The inserts and the commit of write_batch: all of the batch or nothing.
Commit ==
    /\ Running /\ at = "commit"
    /\ query_log' = query_log \o batch
    /\ FlushEnds
    /\ UNCHANGED flush_failed

\* Mutant of FlushFails: a batch that failed is written again.
FlushFails_Retries ==
    /\ Running
    /\ \/ at = "begin" /\ pool_open /\ UNCHANGED query_log
       \/ at = "commit" /\ UNCHANGED query_log
       \/ at = "commit" /\ query_log' = query_log \o batch
    /\ flush_failed' = TRUE
    /\ at' = "begin"
    /\ UNCHANGED <<logged, channel, senders, batch, then, block_counts, pool_open, main,
                   seconds, alerts, blocks>>

\* write_batch answers an error.  When only the answer to the commit is lost
\* the rows are in the table all the same.
FlushFails ==
    /\ Running
    /\ \/ at = "begin" /\ pool_open /\ UNCHANGED query_log
       \/ at = "commit" /\ UNCHANGED query_log
       \/ at = "commit" /\ query_log' = query_log \o batch
    /\ flush_failed' = TRUE
    /\ FlushEnds

-----------------------------------------------------------------------------
(* main, from the termination signal on *)

Initiate ==
    /\ main = "serving"
    /\ main' = "stopping"
    /\ UNCHANGED <<logged, channel, senders, writer, block_counts, query_log, pool_open,
                   seconds, history>>

\* The last task that holds the DnsHandler ends; nothing orders this with main.
DropHandlers ==
    /\ main \in {"stopping", "closing"} /\ senders
    /\ senders' = FALSE
    /\ UNCHANGED <<logged, channel, writer, block_counts, query_log, pool_open, main,
                   seconds, history>>

\* The servers have ended, or 30 seconds have passed: db_pool.close() begins.
ClosePool ==
    /\ main = "stopping"
    /\ main' = "closing" /\ pool_open' = FALSE
    /\ UNCHANGED <<logged, channel, senders, writer, block_counts, query_log, seconds,
                   history>>

\* close() returns once every connection is back; main returns, the runtime
\* is dropped, and with it the writer wherever it is.
Exit ==
    /\ main = "closing" /\ at # "commit"
    /\ main' = "exited"
    /\ UNCHANGED <<logged, channel, senders, writer, block_counts, query_log, pool_open,
                   seconds, history>>

SecondPasses ==
    /\ Running /\ seconds < MaxSeconds
    /\ seconds' = seconds + 1
    /\ UNCHANGED <<logged, channel, senders, writer, block_counts, query_log, pool_open,
                   main, history>>

Writer == Receive \/ ReceiveNone \/ TickerTick \/ Begin \/ BeginRefused \/ Commit \/ FlushFails

Shutdown == Initiate \/ DropHandlers \/ ClosePool \/ Exit

Next ==
    \/ \E c \in ClientIps, s \in Statuses : log_query(c, s)
    \/ Writer
    \/ Shutdown
    \/ SecondPasses

Spec == Init /\ [][Next]_vars

\* tokio polls a ready task, the ticker fires for ever, select! picks a ready
\* branch at random, and a statement of the database ends one way or the other.
WriterFairness ==
    /\ WF_vars(Receive) /\ WF_vars(ReceiveNone) /\ SF_vars(TickerTick)
    /\ WF_vars(Begin \/ BeginRefused \/ Commit \/ FlushFails)

FairSpec == Spec /\ WriterFairness

-----------------------------------------------------------------------------
(* Properties *)

Log == INSTANCE LossyLog
       WITH MaxBatch <- BATCH_SIZE, pending <- batch \o channel, stored <- query_log

\* The channel, the writer and its failing flushes together keep the promise of
\* LossyLog: no entry is stored twice or out of order, batches are atomic and
\* bounded, and an entry dropped by try_send never reaches the table.
KeepsLogPromise == Log!Spec

BlocksOf(c, from, to) == {b \in blocks : b.client_ip = c /\ from <= b.time /\ b.time <= to}

\* "Client {} triggered 50 blocked queries within a minute": when an alert is
\* raised the client really had that many blocked entries in the last WINDOW
\* seconds, across resets, prunes and failed flushes.
AlertJustified ==
    \A a \in alerts :
        Cardinality({b \in BlocksOf(a.client_ip, 0, a.time) :
                         b.id <= a.id /\ a.time - b.time <= WINDOW}) >= THRESHOLD

\* No blocked entry is used for two alerts: a client that stays above the
\* threshold is reported once per count, never once per query.
AlertsPaidFor ==
    \A c \in ClientIps :
        THRESHOLD * Cardinality({a \in alerts : a.client_ip = c})
            <= Cardinality(BlocksOf(c, 0, seconds))

InFlight(i) == \E k \in 1..Len(batch \o channel) : (batch \o channel)[k].id = i

\* An accepted entry never waits for ever, in the channel or in a batch that
\* does not fill: it is stored or given up, unless the process ends first.
EntriesSettle ==
    \A i \in 1..MaxEntries : InFlight(i) ~> (~InFlight(i) \/ ~Running)

\* "Channel closed (process shutting down) - flush remainder": after a shutdown
\* during which the database answered, nothing accepted is left behind.
RemainderFlushed ==
    (main = "exited" /\ ~flush_failed) =>
        \A i \in 1..logged : ~InFlight(i)

\* "Trigger alert if threshold exceeded (e.g., 50 blocks in 60s)": a client with
\* THRESHOLD blocked entries within WINDOW seconds has an alert in that span.
BurstAlerted ==
    \A b \in blocks :
        LET burst == {x \in BlocksOf(b.client_ip, 0, b.time) :
                          x.id <= b.id /\ b.time - x.time <= WINDOW}
        IN  Cardinality(burst) >= THRESHOLD
            => \E a \in alerts : a.client_ip = b.client_ip /\ b.time - a.time <= WINDOW
=============================================================================

--------------------------- MODULE QueryLogReads ---------------------------
(***************************************************************************)
(* The query_log table and the requests that read it, while the writer     *)
(* adds rows, the rotation task of main.rs and bulk_delete remove some and *)
(* time passes.  A request reads the table in several statements, a client *)
(* that pages through it in several requests: no transaction and no lock   *)
(* spans two of them.                                                      *)
(*                                                                         *)
(* Readers leave the table alone, so one at a time is enough.  The clock   *)
(* counts hours; an entry is at most one hour old when it is written.      *)
(***************************************************************************)
EXTENDS LogFilters, FiniteSets, FiniteSetsExt, Functions

CONSTANTS
    Entries,    \* what the writer may write: status, question, elapsed_ns
    Wants,      \* what a list request may ask for: status, ranged (a time_range), limit
    Cursors,    \* the first cursor of a client that pages by cursor
    FilterSets, \* the filters a request may carry
    HOURS,      \* the window get_stats is asked for
    RETENTION,  \* retention_days, in hours
    MIN_POINTS, \* hours of history get_anomalies wants (24)
    MaxRows,    \* bound: rows ever written
    MaxClock,   \* bound: the last hour
    MaxAlerts,  \* bound: alerts ever stored
    None

\* The limit is the one after clamp(1, 1000).
ASSUME ReadsAssumption ==
    /\ Wants \subseteq [status : {None, "blocked", "allowed", "cached"}, ranged : BOOLEAN,
                       limit : 1..1000]
    /\ HOURS \in Nat \ {0} /\ RETENTION \in Nat \ {0} /\ MIN_POINTS \in Nat
    /\ Cursors \subseteq Int
    /\ MaxRows \in Nat /\ MaxClock \in Nat /\ MaxAlerts \in Nat

\* The filters of a request are JSON, elapsed times are integers.
ASSUME FilterAssumption ==
    /\ \A filters \in FilterSets :
          /\ filters \in Seq({filters[i] : i \in 1..Len(filters)})
          /\ \A i \in 1..Len(filters) :
                /\ IsJson(filters[i].value)
                /\ \A j \in 1..Len(filters[i].value.items) : IsJson(filters[i].value.items[j])
    /\ \A e \in Entries : e.elapsed_ns \in Int
    /\ NS_PER_MS \in Nat

VARIABLES
    clock,
    query_log,  \* [id -> row], the rows in the table
    next_id,    \* the BIGSERIAL sequence of the id column
    alerts,     \* anomaly alerts: the hour each was created
    reader      \* the request, or the client paging, with its history

vars == <<clock, query_log, next_id, alerts, reader>>

Ids == DOMAIN query_log
Rows == {[time |-> t, status |-> e.status, question |-> e.question,
          elapsed_ns |-> e.elapsed_ns] : t \in 0..MaxClock, e \in Entries}

Idle == [kind |-> "idle"]

Init ==
    /\ clock = 0
    /\ query_log = <<>>
    /\ next_id = 1
    /\ alerts = <<>>
    /\ reader = Idle
-----------------------------------------------------------------------------
(***************************************************************************)
(* WHERE clauses                                                           *)
(***************************************************************************)
\* list: a status, and a time_range whose cutoff is computed anew for every page.
Matches(row, now, want) ==
    /\ want.status # None => row.status = want.status
    /\ want.ranged => row.time >= now - HOURS

Matching(table, now, want) == {id \in DOMAIN table : Matches(table[id], now, want)}

\* get_stats: the requested window, and the one of the same length before it.
Window(table, now) == {id \in DOMAIN table : table[id].time >= now - HOURS}
Yesterday(table, now) ==
    {id \in DOMAIN table : /\ table[id].time >= now - 2 * HOURS
                           /\ table[id].time < now - HOURS}
Total(table, now) == Cardinality(Window(table, now))
\* Mutant of Blocked: the window is left out.
Blocked_EverSince(table, now) ==
    Cardinality({id \in DOMAIN table : table[id].status = "blocked"})
Blocked(table, now) ==
    Cardinality({id \in Window(table, now) : table[id].status = "blocked"})
Cached(table, now) ==
    Cardinality({id \in Window(table, now) : table[id].status = "cached"})
YesterdayTotal(table, now) == Cardinality(Yesterday(table, now))
-----------------------------------------------------------------------------
(***************************************************************************)
(* The table changes.  Follow keeps the reader's history: which of the     *)
(* rows it should see have stayed, whether one was lost to it, how many    *)
(* rows entered and left the window of the statistics.                     *)
(***************************************************************************)
Follow(table, now) ==
    CASE reader.kind = "cursor" ->
            [reader EXCEPT !.stay = @ \cap Matching(table, now, reader.want)]
      [] reader.kind = "offset" ->
            LET before == Matching(query_log, clock, reader.want)
                after == Matching(table, now, reader.want)
            IN [reader EXCEPT !.stay = @ \cap after, !.lost = @ \/ ~(before \subseteq after)]
      [] reader.kind = "stats" ->
            [reader EXCEPT
                !.came = @ + Cardinality(DOMAIN table \ Ids),
                !.left = @ + Cardinality(Window(query_log, clock) \ Window(table, now))]
      [] OTHER -> reader

Change(table) ==
    /\ query_log' = table
    /\ reader' = Follow(table, clock)
    /\ UNCHANGED <<clock, alerts>>

\* Mutant of Insert: the sequence does not advance.
Insert_IdKept(e, t) ==
    /\ next_id <= MaxRows
    /\ t \in {clock, clock - 1} \cap Nat
    /\ LET row == [time |-> t, status |-> e.status, question |-> e.question,
                   elapsed_ns |-> e.elapsed_ns]
       IN Change([id \in Ids \cup {next_id} |-> IF id = next_id THEN row ELSE query_log[id]])
    /\ UNCHANGED next_id

\* The batch writer's INSERT; the only writer, so ids appear in order.
Insert(e, t) ==
    /\ next_id <= MaxRows
    /\ t \in {clock, clock - 1} \cap Nat
    /\ LET row == [time |-> t, status |-> e.status, question |-> e.question,
                   elapsed_ns |-> e.elapsed_ns]
       IN Change([id \in Ids \cup {next_id} |-> IF id = next_id THEN row ELSE query_log[id]])
    /\ next_id' = next_id + 1

Without(ids) == [id \in Ids \ ids |-> query_log[id]]

bulk_delete(ids) ==
    /\ ids # {}
    /\ Change(Without(ids))
    /\ UNCHANGED next_id

\* run_query_log_rotation_task, at a tick of its interval
Rotate ==
    /\ \E id \in Ids : query_log[id].time < clock - RETENTION
    /\ Change(Without({id \in Ids : query_log[id].time < clock - RETENTION}))
    /\ UNCHANGED next_id

Tick ==
    /\ clock < MaxClock
    /\ clock' = clock + 1
    /\ reader' = Follow(query_log, clock + 1)
    /\ UNCHANGED <<query_log, next_id, alerts>>
-----------------------------------------------------------------------------
(***************************************************************************)
(* list, in cursor mode and in offset mode, asked page after page          *)
(***************************************************************************)
\* The table, the clock and the alerts are only read.
ReadOnly == UNCHANGED <<clock, query_log, next_id, alerts>>

\* list refuses every status but these two.
Listable(want) == want.status \in {None, "blocked", "allowed"}

Below(cursor, ids) == {id \in ids : id < cursor}

StartCursor(want, cursor) ==
    /\ reader = Idle
    /\ Listable(want)
    /\ reader' = [kind |-> "cursor", want |-> want, cursor |-> cursor, more |-> TRUE,
                  seen |-> <<>>,
                  stay |-> Below(cursor, Matching(query_log, clock, want))]
    /\ ReadOnly

\* The orders in which rows may be returned.
Listings(ids) == Injection(1..Cardinality(ids), ids)
\* ORDER BY id DESC LIMIT limit + 1, cut back to limit rows
Descending(ids) ==
    CHOOSE s \in Listings(ids) : \A i, j \in 1..Len(s) : i < j => s[i] > s[j]
Fetched(cursor, want) ==
    LET ids == Descending(Below(cursor, Matching(query_log, clock, want)))
    IN SubSeq(ids, 1, Min({Len(ids), want.limit + 1}))
Truncated(rows, want) == SubSeq(rows, 1, Min({Len(rows), want.limit}))
\* Mutant of NextCursor: the row fetched beyond the limit.
NextCursor_Fetched(rows, want) == rows[Len(rows)]
NextCursor(rows, want) == LET cut == Truncated(rows, want) IN cut[Len(cut)]

CursorPage ==
    /\ reader.kind = "cursor" /\ reader.more
    /\ LET rows == Fetched(reader.cursor, reader.want)
           has_more == Len(rows) > reader.want.limit
       IN reader' = [reader EXCEPT
                        !.seen = @ \o Truncated(rows, reader.want),
                        !.more = has_more,
                        !.cursor = IF has_more THEN NextCursor(rows, reader.want) ELSE @]
    /\ ReadOnly

StartOffset(want) ==
    /\ reader = Idle
    /\ Listable(want)
    /\ reader' = [kind |-> "offset", want |-> want, offset |-> 0, returned |-> 0,
                  place |-> "rows", seen |-> {}, lost |-> FALSE, tied |-> FALSE,
                  stay |-> Matching(query_log, clock, want)]
    /\ ReadOnly

\* ORDER BY time DESC leaves the order of rows of the same time to the database.
Orders(ids) ==
    {s \in Listings(ids) : \A i, j \in 1..Len(s) :
        i < j => query_log[s[i]].time >= query_log[s[j]].time}
Tied(ids) == \E a, b \in ids : a # b /\ query_log[a].time = query_log[b].time

\* Mutant of Page: limit and offset are bound in the wrong order.
Page_Swapped(order, limit, offset) == SubSeq(order, limit + 1, Min({Len(order), limit + offset}))

Page(order, limit, offset) == SubSeq(order, offset + 1, Min({Len(order), offset + limit}))

OffsetRows ==
    /\ reader.kind = "offset" /\ reader.place = "rows"
    /\ LET ids == Matching(query_log, clock, reader.want)
       IN \E order \in Orders(ids) :
             LET page == Page(order, reader.want.limit, reader.offset)
             IN reader' = [reader EXCEPT
                              !.seen = @ \cup Range(page), !.returned = Len(page),
                              !.tied = @ \/ Tied(ids), !.place = "count"]
    /\ ReadOnly

\* COUNT(*) in a statement of its own; the client goes on while rows are left.
OffsetCount ==
    /\ reader.kind = "offset" /\ reader.place = "count"
    /\ LET total == Cardinality(Matching(query_log, clock, reader.want))
           next == reader.offset + reader.returned
       IN reader' = [reader EXCEPT
                        !.offset = next,
                        !.place = IF reader.returned > 0 /\ next < total
                                  THEN "rows" ELSE "done"]
    /\ ReadOnly
-----------------------------------------------------------------------------
(***************************************************************************)
(* dashboard::get_stats, one statement after another                       *)
(***************************************************************************)
get_stats ==
    /\ reader = Idle
    /\ reader' = [kind |-> "stats", place |-> "blocked", came |-> 0, left |-> 0,
                  total |-> Total(query_log, clock), blocked |-> 0, cached |-> 0,
                  yesterday |-> 0,
                  first |-> [others |-> Cardinality({id \in Window(query_log, clock) :
                                 query_log[id].status \notin {"blocked", "cached"}}),
                             yesterday |-> Cardinality(Yesterday(query_log, clock))]]
    /\ ReadOnly

Statement(place, next, field, value) ==
    /\ reader.kind = "stats" /\ reader.place = place
    /\ reader' = [reader EXCEPT !.place = next, ![field] = value]
    /\ ReadOnly

StatsBlocked == Statement("blocked", "cached", "blocked", Blocked(query_log, clock))
StatsCached == Statement("cached", "yesterday", "cached", Cached(query_log, clock))
StatsYesterday ==
    Statement("yesterday", "done", "yesterday", YesterdayTotal(query_log, clock))

allowed(r) == r.total - r.blocked - r.cached
-----------------------------------------------------------------------------
(***************************************************************************)
(* insights::get_anomalies, for one client: the counts of the hours that   *)
(* have rows, the count of the current hour, and an alert when it exceeds  *)
(* mean + 2 * stddev (both sides times the number of hours, squared).      *)
(***************************************************************************)
CountAt(h) == Cardinality({id \in Ids : query_log[id].time = h})

get_anomalies ==
    /\ reader = Idle
    /\ Len(alerts) < MaxAlerts
    /\ LET hours == {h \in 0..(clock - 1) : CountAt(h) > 0}
       IN reader' = [kind |-> "anomalies", place |-> "current", n |-> Cardinality(hours),
                     sum |-> MapThenSumSet(CountAt, hours),
                     sq_sum |-> MapThenSumSet(LAMBDA h : CountAt(h) * CountAt(h), hours)]
    /\ ReadOnly

Anomalous(r, current) ==
    LET above == r.n * current - r.sum
    IN /\ r.n >= MIN_POINTS
       /\ above > 0
       /\ above * above > 4 * (r.n * r.sq_sum - r.sum * r.sum)

AnomalyCurrent ==
    /\ reader.kind = "anomalies" /\ reader.place = "current"
    /\ reader' = IF Anomalous(reader, CountAt(clock))
                 THEN [reader EXCEPT !.place = "alert"] ELSE Idle
    /\ ReadOnly

\* The cool-down query compares created_at, a TEXT column, with a timestamp: PostgreSQL
\* refuses it and unwrap_or(0) takes its place.
existing == 0

AnomalyAlert ==
    /\ reader.kind = "anomalies" /\ reader.place = "alert"
    /\ alerts' = IF existing = 0 THEN Append(alerts, clock) ELSE alerts
    /\ reader' = Idle
    /\ UNCHANGED <<clock, query_log, next_id>>
-----------------------------------------------------------------------------
(***************************************************************************)
(* Requests with filters: one statement decides the answer                 *)
(***************************************************************************)
Answer(answer, meant, plain) ==
    /\ reader = Idle
    /\ reader' = [kind |-> "answered", answer |-> answer, meant |-> meant, plain |-> plain]
    /\ ReadOnly

\* A time_range is appended as `NOW() + -1 hours::interval', which does not parse.
export(filters, ranged) ==
    Answer(IF ranged THEN Error ELSE Select(query_log, ExportConditions(filters)),
           Meant(query_log, filters, Exportable), Plain(filters))

\* The rows of each value of a column: their number, or 0 for the sum, a numeric no
\* i64 holds.
Groups(ids, column, metric) ==
    {<<v, IF metric = "count"
          THEN Cardinality({id \in ids : query_log[id][column] = v}) ELSE 0>> :
        v \in {query_log[id][column] : id \in ids}}
MeantGroups(ids, column, metric) ==
    {<<v, LET group == {id \in ids : query_log[id][column] = v}
          IN IF metric = "count" THEN Cardinality(group)
             ELSE MapThenSumSet(LAMBDA id : query_log[id].elapsed_ns, group)>> :
        v \in {query_log[id][column] : id \in ids}}

\* With group_by: the placeholders are numbered, the conditions always joined by AND.
aggregate(filters, metric) ==
    LET ids == IF Accepted(filters)
               THEN Select(query_log, BuilderConditions(filters)) ELSE Error
    IN Answer(IF ids = Error THEN Error ELSE Groups(ids, "status", metric),
              MeantGroups(Meant(query_log, filters, Known), "status", metric),
              Plain(filters) /\ metric = "count")

\* Without group_by, and in the count of list_advanced and list_advanced_post that comes
\* before the rows, the `?' are sent as they are: any condition is a syntax error.
Unnumbered(filters) ==
    IF Accepted(filters) /\ BuilderConditions(filters) = <<>> THEN Ids ELSE Error

list_advanced(filters) ==
    Answer(Unnumbered(filters), Meant(query_log, filters, Known), Plain(filters))

aggregate_all(filters) ==
    LET ids == Unnumbered(filters)
    IN Answer(IF ids = Error THEN Error ELSE Cardinality(ids),
              Cardinality(Meant(query_log, filters, Known)), Plain(filters))

\* The same handler, with the filters in the body of the request.
list_advanced_post(filters) == list_advanced(filters)

\* top binds the two ends of its time range as TEXT; suggest its one end.
top(column) ==
    LET range == parse_relative_time(Str("24h"))
        ids == Select(query_log, <<Condition("time", "BETWEEN", range)>>)
    IN Answer(IF ids = Error THEN Error ELSE Groups(ids, column, "count"),
              MeantGroups(Ids, column, "count"), TRUE)

suggest(prefix) ==
    Answer(Select(query_log, <<Condition("question", "LIKE", <<Str(prefix)>>),
                               Condition("time", ">=", <<Str("")>>)>>),
           Meant(query_log, <<Filter("question", "like", Str(prefix))>>, Known), TRUE)

\* The client has its answer.
Close ==
    /\ \/ reader.kind = "answered"
       \/ reader.kind = "cursor" /\ ~reader.more
       \/ reader.kind \in {"offset", "stats"} /\ reader.place = "done"
    /\ reader' = Idle
    /\ ReadOnly
-----------------------------------------------------------------------------
Log ==
    \/ \E e \in Entries, t \in 0..MaxClock : Insert(e, t)
    \/ \E ids \in SUBSET Ids : bulk_delete(ids)
    \/ Rotate
    \/ Tick

List ==
    \/ \E want \in Wants, cursor \in Cursors : StartCursor(want, cursor)
    \/ CursorPage
    \/ \E want \in Wants : StartOffset(want)
    \/ OffsetRows
    \/ OffsetCount

Counts ==
    \/ get_stats \/ StatsBlocked \/ StatsCached \/ StatsYesterday
    \/ get_anomalies \/ AnomalyCurrent \/ AnomalyAlert

Filtered ==
    \/ \E fs \in FilterSets, ranged \in BOOLEAN : export(fs, ranged)
    \/ \E fs \in FilterSets, metric \in {"count", "sum_elapsed_ms"} : aggregate(fs, metric)
    \/ \E fs \in FilterSets :
          list_advanced(fs) \/ list_advanced_post(fs) \/ aggregate_all(fs)
    \/ top("question")
    \/ \E prefix \in DOMAIN Holding : suggest(prefix)

Next == Log \/ List \/ Counts \/ Filtered \/ Close

Spec == Init /\ [][Next]_vars
-----------------------------------------------------------------------------
\* The variables keep their types: ids below the sequence, rows and alerts of the past.
TypeOK ==
    /\ clock \in 0..MaxClock
    /\ next_id \in 1..(MaxRows + 1)
    /\ Ids \subseteq 1..(next_id - 1)
    /\ \A id \in Ids : query_log[id] \in Rows /\ query_log[id].time <= clock
    /\ Len(alerts) <= MaxAlerts
    /\ \A i \in 1..Len(alerts) : alerts[i] <= clock
    /\ reader.kind \in {"idle", "cursor", "offset", "stats", "anomalies", "answered"}

\* A client that follows next_cursor to the end has got every row below its first
\* cursor that matched all along, none of them twice, in descending order, whatever was
\* written, deleted or rotated away between its pages (query_log::list, cursor mode).
CursorWalkComplete ==
    reader.kind = "cursor" =>
        /\ \A i \in 1..(Len(reader.seen) - 1) : reader.seen[i] > reader.seen[i + 1]
        /\ ~reader.more => reader.stay \subseteq Range(reader.seen)

\* A client that pages by offset to the end misses a row that matched all along only if
\* a matching row went away between its pages, or rows of the same time were ordered
\* differently on two of them; rows written meanwhile hide none (list, offset mode).
OffsetMissesOnlyByLoss ==
    (reader.kind = "offset" /\ reader.place = "done" /\ ~reader.lost /\ ~reader.tied) =>
        reader.stay \subseteq reader.seen

\* The counts of get_stats come from different moments.  allowed differs from the number
\* of allowed rows its first statement saw by at most the rows written meanwhile (one
\* way) and the rows that left the window (the other way), and no row is counted for
\* yesterday unless it was there before, left the window or came late.
StatsDriftBounded ==
    (reader.kind = "stats" /\ reader.place = "done") =>
        /\ reader.first.others - reader.came <= allowed(reader)
        /\ allowed(reader) <= reader.first.others + reader.left
        /\ reader.yesterday <= reader.first.yesterday + reader.left + reader.came

\* A request with filters fails or answers with what its supported filters say: the
\* flat sequence of bound values never drifts against the numbered placeholders, and a
\* value that cannot be bound fails the statement.  (Fractions and products beyond i64
\* apart: see AnswersAlwaysMeant.)
AnswersMeant ==
    (reader.kind = "answered" /\ reader.plain) => reader.answer \in {Error, reader.meant}
-----------------------------------------------------------------------------
(***************************************************************************)
(* What comments of the repository say and the code does not keep          *)
(***************************************************************************)
\* "1小时冷却，避免重复告警": one alert per hour of cool-down (insights.rs, 326).
AlertCoolDown == \A i, j \in 1..Len(alerts) : i # j => alerts[i] # alerts[j]

\* "Execute count query first to get total matching records" (query_log_advanced.rs,
\* 405): a request with filters is answered.
FiltersAnswered == reader.kind = "answered" => reader.answer # Error

\* A fraction is compared as 0 by export, elapsed_ms wraps, and a sum is reported as 0
\* ("sum_elapsed_ms", query_log_advanced.rs, 63).
AnswersAlwaysMeant == reader.kind = "answered" => reader.answer \in {Error, reader.meant}

\* allowed is a number of queries (dashboard.rs, 44).
AllowedNotNegative ==
    (reader.kind = "stats" /\ reader.place = "done") => allowed(reader) >= 0
=============================================================================

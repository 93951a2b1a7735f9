----------------------------- MODULE LogFilters -----------------------------
(***************************************************************************)
(* How the query log API turns the filters of a request into one SQL       *)
(* statement: query_log.rs (export) and query_log_advanced.rs (the         *)
(* QueryBuilder).  Each supported filter becomes a condition with some `?' *)
(* placeholders; the values to bind are kept in one flat sequence; the     *)
(* placeholders are numbered over the whole text; values that are neither  *)
(* strings nor numbers are not bound.  PostgreSQL (external) answers with  *)
(* the rows that satisfy the conditions, or with an error.                 *)
(*                                                                         *)
(* A row has a status, a question, an elapsed time and a time.  The other  *)
(* text columns (qtype, upstream, client_ip, reason, ...) are compared as  *)
(* these two are.                                                          *)
(***************************************************************************)
EXTENDS Integers, Sequences

CONSTANTS
    Holding,    \* [text -> set of texts that contain it]: what LIKE '%text%' matches
    NS_PER_MS,  \* nanoseconds in a millisecond (1_000_000)
    I64,        \* the integers of i64 are -I64 .. I64 - 1
    Error       \* the answer of a request that failed

\* A JSON value; a fraction is halfway between n and n + 1.
Json(json, text, n, items) == [json |-> json, text |-> text, n |-> n, items |-> items]
Str(text) == Json("string", text, 0, <<>>)
Num(n) == Json("number", "", n, <<>>)
Fraction(n) == Json("fraction", "", n, <<>>)
Arr(items) == Json("array", "", 0, items)
Null == Json("null", "", 0, <<>>)

\* What serde_json makes of a value; the values of an array are such values too.
IsJson(v) ==
    /\ v \in {Str(v.text), Num(v.n), Fraction(v.n), Arr(v.items), Null}
    /\ v.n \in Int
    /\ v.items \in Seq({v.items[j] : j \in 1..Len(v.items)})

Filter(field, operator, value) == [field |-> field, operator |-> operator, value |-> value]

Cmp(operator) ==
    CASE operator = "gt" -> ">" [] operator = "lt" -> "<" [] operator = "gte" -> ">="
      [] operator = "lte" -> "<=" [] operator = "eq" -> "="

\* value.as_str().unwrap_or("") and n.as_i64().unwrap_or(0)
AsText(value) == IF value.json = "string" THEN value.text ELSE ""
AsI64(value) == IF value.json = "number" THEN value.n ELSE 0

Condition(column, cmp, values) == [column |-> column, cmp |-> cmp, values |-> values]

\* What a loop gathers that adds a sequence, here mostly of one element, at every turn.
Flat(parts) ==
    LET upto[i \in 0..Len(parts)] == IF i = 0 THEN <<>> ELSE upto[i - 1] \o parts[i]
    IN upto[Len(parts)]
-----------------------------------------------------------------------------
(***************************************************************************)
(* export: a condition for each filter it supports, the others skipped     *)
(***************************************************************************)
Exportable(f) ==
    \/ f.field = "status" /\ f.operator = "eq"
    \/ f.field = "question" /\ f.operator = "like"
    \/ f.field = "elapsed_ns" /\ f.operator \in {"gt", "lt", "eq"}

build_filter_condition(f) ==
    IF f.operator = "like"
    THEN Condition(f.field, "LIKE", <<Str(AsText(f.value))>>)
    ELSE Condition(f.field, Cmp(f.operator), <<f.value>>)

ExportConditions(filters) ==
    Flat([i \in 1..Len(filters) |->
             IF Exportable(filters[i]) THEN <<build_filter_condition(filters[i])>> ELSE <<>>])

(***************************************************************************)
(* QueryBuilder: a filter is skipped, refused or made into a condition     *)
(***************************************************************************)
Known(f) ==
    \/ f.field = "time" /\ f.operator \in {"between", "gt", "lt", "gte", "lte", "relative"}
    \/ f.field = "question" /\ f.operator = "like"
    \/ f.field = "status" /\ f.operator \in {"eq", "in"}
    \/ f.field \in {"elapsed_ms", "elapsed_ns"}
          /\ f.operator \in {"gt", "lt", "gte", "lte", "eq"}

\* A shape add_filter answers with a validation error.
Misshapen(f) ==
    \/ f.operator = "between" /\ ~(f.value.json = "array" /\ Len(f.value.items) = 2)
    \/ f.operator = "relative" /\ f.value.json # "string"
    \/ f.operator = "in" /\ f.value.json # "array"
    \/ f.field \in {"elapsed_ms", "elapsed_ns"} /\ f.value.json # "number"

\* An i64 multiplication that wraps, as it does in a release build.
Wrapped(n) == ((n + I64) % (2 * I64)) - I64

\* Mutant of Nanoseconds: the milliseconds are compared as they are.
Nanoseconds_Ms(ms) == ms

Nanoseconds(ms) == Wrapped(ms * NS_PER_MS)

\* Both ends of the range, formatted as text.
parse_relative_time(duration) == <<duration, duration>>

add_filter(f) ==
    CASE f.operator = "between" -> Condition(f.field, "BETWEEN", f.value.items)
      [] f.operator = "relative" -> Condition(f.field, "BETWEEN", parse_relative_time(f.value))
      [] f.operator = "in" -> Condition(f.field, "IN", f.value.items)
      [] f.operator = "like" -> Condition(f.field, "LIKE", <<Str(AsText(f.value))>>)
      [] f.field = "elapsed_ms" ->
            Condition("elapsed_ns", Cmp(f.operator), <<Num(Nanoseconds(f.value.n))>>)
      [] OTHER -> Condition(f.field, Cmp(f.operator), <<f.value>>)

Accepted(filters) == \A i \in 1..Len(filters) : Known(filters[i]) => ~Misshapen(filters[i])

BuilderConditions(filters) ==
    Flat([i \in 1..Len(filters) |->
             IF Known(filters[i]) THEN <<add_filter(filters[i])>> ELSE <<>>])
-----------------------------------------------------------------------------
(***************************************************************************)
(* From conditions to an answer                                            *)
(***************************************************************************)
bindings(conditions) == Flat([i \in 1..Len(conditions) |-> conditions[i].values])

\* Only strings and numbers are bound; the type of a parameter is the type bound.
Scalar(value) == value.json \in {"string", "number", "fraction"}
Bound(values) == Flat([i \in 1..Len(values) |-> IF Scalar(values[i]) THEN <<values[i]>> ELSE <<>>])
ParamType(value) == IF value.json = "string" THEN "TEXT" ELSE "INT8"

\* The number pg_numbered gives the j-th placeholder of the i-th condition.
pg_numbered(conditions, i, j) == Len(bindings(SubSeq(conditions, 1, i - 1))) + j

\* No operator of PostgreSQL compares a timestamptz with a TEXT or an INT8.
ColumnType(column) ==
    CASE column \in {"status", "question"} -> "TEXT" [] column = "elapsed_ns" -> "INT8"
      [] column = "time" -> "TIMESTAMPTZ"

Compare(a, cmp, b) ==
    CASE cmp = ">" -> a > b [] cmp = "<" -> a < b [] cmp = ">=" -> a >= b
      [] cmp = "<=" -> a <= b [] cmp = "=" -> a = b

\* One condition for one row, given the parameters its placeholders name.
Satisfies(row, condition, args) ==
    CASE condition.cmp = "LIKE" -> row[condition.column] \in Holding[args[1].text]
      [] condition.cmp = "IN" ->
            \E j \in 1..Len(args) : row[condition.column] = args[j].text
      [] condition.cmp = "=" /\ condition.column = "status" -> row.status = args[1].text
      [] condition.column = "elapsed_ns" ->
            Compare(row.elapsed_ns, condition.cmp, AsI64(args[1]))

\* The statement prepares and runs: as many parameters as placeholders, no empty IN
\* list, and every comparison between values of one type.
Runs(conditions, params) ==
    /\ Len(params) = Len(bindings(conditions))
    /\ \A i \in 1..Len(conditions) :
          /\ conditions[i].values # <<>>
          /\ \A j \in 1..Len(conditions[i].values) :
                ParamType(params[pg_numbered(conditions, i, j)])
                    = ColumnType(conditions[i].column)

Args(conditions, params, i) ==
    [j \in 1..Len(conditions[i].values) |-> params[pg_numbered(conditions, i, j)]]

\* The rows of the table that satisfy every condition.
Select(table, conditions) ==
    LET params == Bound(bindings(conditions))
    IN IF Runs(conditions, params)
       THEN {id \in DOMAIN table :
                \A i \in 1..Len(conditions) :
                    Satisfies(table[id], conditions[i], Args(conditions, params, i))}
       ELSE Error
-----------------------------------------------------------------------------
(***************************************************************************)
(* What the filters of a request say, condition by condition and without   *)
(* any SQL: the reference the answers are compared with                    *)
(***************************************************************************)
\* Twice a number, so that fractions are integers too.
Twice(value) == IF value.json = "fraction" THEN 2 * value.n + 1 ELSE 2 * value.n

Says(row, f) ==
    CASE f.operator = "in" ->
            \E j \in 1..Len(f.value.items) : Str(row.status) = f.value.items[j]
      [] f.operator = "eq" /\ f.field = "status" -> Str(row.status) = f.value
      [] f.field = "question" -> row.question \in Holding[AsText(f.value)]
      [] f.field = "elapsed_ns" -> Compare(2 * row.elapsed_ns, Cmp(f.operator), Twice(f.value))
      [] f.field = "elapsed_ms" ->
            Compare(2 * row.elapsed_ns, Cmp(f.operator), NS_PER_MS * Twice(f.value))
      [] f.field = "time" -> TRUE

Meant(table, filters, Supported(_)) ==
    {id \in DOMAIN table :
        \A i \in 1..Len(filters) : Supported(filters[i]) => Says(table[id], filters[i])}

\* No fraction and no product beyond i64: the values the conversion keeps.
Plain(filters) ==
    \A i \in 1..Len(filters) :
        /\ filters[i].value.json # "fraction"
        /\ filters[i].field = "elapsed_ms" => Wrapped(filters[i].value.n * NS_PER_MS)
                                              = filters[i].value.n * NS_PER_MS
=============================================================================

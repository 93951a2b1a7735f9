-------------------------- MODULE MCQueryLogReads --------------------------
(***************************************************************************)
(* A small instance of QueryLogReads for TLC.                              *)
(***************************************************************************)
EXTENDS QueryLogReads

Entry(status, question, elapsed_ns) ==
    [status |-> status, question |-> question, elapsed_ns |-> elapsed_ns]

\* A millisecond has four nanoseconds here, and an i64 four bits.
FewEntries == {Entry("blocked", "ads", 1), Entry("cached", "ads", 0), Entry("allowed", "www", 5)}
TextsHolding == [t \in {"", "ads", "www"} |-> IF t = "" THEN {"ads", "www"} ELSE {t}]

Want(status, ranged, limit) == [status |-> status, ranged |-> ranged, limit |-> limit]
FewWants ==
    {Want(None, FALSE, 1), Want(None, FALSE, 2), Want("blocked", TRUE, 1), Want("cached", FALSE, 1)}

BlockedOrCached == Filter("status", "in", Arr(<<Str("blocked"), Str("cached")>>))
SlowNs(value) == Filter("elapsed_ns", "gt", value)
Ads == Filter("question", "like", Str("ads"))

FewFilterSets ==
    {<<>>, <<Filter("client", "eq", Null)>>, <<Filter("status", "eq", Str("blocked"))>>,
     <<Filter("status", "eq", Num(1))>>, <<Filter("status", "eq", Null), Ads>>,
     <<BlockedOrCached, SlowNs(Num(0))>>, <<Ads, SlowNs(Num(0)), BlockedOrCached>>,
     <<Filter("status", "in", Arr(<<>>))>>, <<Filter("status", "in", Str("blocked"))>>,
     <<Filter("status", "in", Arr(<<Str("blocked"), Null>>)), Ads>>,
     <<SlowNs(Fraction(1)), Ads>>, <<SlowNs(Null), Ads>>,
     <<Filter("elapsed_ms", "gte", Num(1)), Filter("question", "like", Null)>>,
     <<Filter("elapsed_ms", "gt", Num(2))>>,
     <<Filter("time", "relative", Str("24h"))>>, <<Filter("time", "between", Arr(<<Str("a")>>))>>}
=============================================================================

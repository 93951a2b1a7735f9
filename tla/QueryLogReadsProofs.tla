------------------------ MODULE QueryLogReadsProofs ------------------------
(***************************************************************************)
(* Proofs about QueryLogReads, for any entries, wants, cursors, windows    *)
(* and bounds: the types, and what a client is told that reads the log in  *)
(* several statements while it changes.  The answers of requests with      *)
(* filters are in QueryLogAnswersProofs.                                   *)
(***************************************************************************)
EXTENDS QueryLogReads, SequenceTheorems, FiniteSetTheorems, TLAPS

-----------------------------------------------------------------------------
(* Types *)

CursorReader ==
    [kind : {"cursor"}, want : Wants, cursor : Int, more : BOOLEAN, seen : Seq(Nat), stay : SUBSET Nat]

OffsetReader ==
    [kind : {"offset"}, want : Wants, offset : Nat, returned : Nat, place : {"rows", "count", "done"},
     seen : SUBSET Nat, lost : BOOLEAN, tied : BOOLEAN, stay : SUBSET Nat]

StatsReader ==
    [kind : {"stats"}, place : {"blocked", "cached", "yesterday", "done"}, came : Nat, left : Nat,
     total : Nat, blocked : Nat, cached : Nat, yesterday : Nat,
     first : [others : Nat, yesterday : Nat]]

OtherKinds == {"idle", "anomalies", "answered"}

\* What the reader holds, by its kind.
ReaderOK ==
    \/ reader.kind \in OtherKinds
    \/ reader \in CursorReader
    \/ reader \in OffsetReader
    \/ reader \in StatsReader

TableOK ==
    /\ clock \in 0..MaxClock
    /\ next_id \in 1..(MaxRows + 1)
    /\ Ids \subseteq 1..(next_id - 1)
    /\ \A id \in Ids : query_log[id] \in Rows /\ query_log[id].time <= clock

\* A check that may store an alert has found room for it.
AlertsOK ==
    /\ alerts \in Seq(Nat) /\ Len(alerts) <= MaxAlerts
    /\ \A i \in 1..Len(alerts) : alerts[i] <= clock
    /\ reader.kind = "anomalies" =>
          /\ Len(alerts) < MaxAlerts
          /\ reader = [field \in {"kind", "place", "n", "sum", "sq_sum"} |-> reader[field]]

\* What a step that changes the table or the time does.
Moves ==
    /\ clock' \in {clock, clock + 1} /\ alerts' = alerts
    /\ reader' = Follow(query_log', clock')
    /\ \A id \in DOMAIN query_log \cap DOMAIN query_log' : query_log'[id] = query_log[id]

LEMMA Limits ==
    /\ HOURS \in Nat /\ HOURS > 0 /\ MaxRows \in Nat /\ MaxClock \in Nat /\ MaxAlerts \in Nat
    /\ Cursors \subseteq Int
BY ReadsAssumption

LEMMA WantLimit ==
    ASSUME NEW want \in Wants
    PROVE  want.limit \in Nat /\ want.limit >= 1
<1>1. want.limit \in 1..1000
    BY ReadsAssumption
<1> QED
    BY <1>1

LEMMA TableTypes ==
    ASSUME TableOK
    PROVE  /\ clock \in Nat /\ next_id \in Nat /\ Ids \subseteq Nat /\ IsFiniteSet(Ids)
           /\ \A id \in Ids : query_log[id].time \in Nat /\ id < next_id
<1>1. clock \in Nat /\ next_id \in Nat
    BY Limits DEF TableOK
<1>2. Ids \subseteq 1..(next_id - 1)
    BY DEF TableOK
<1>3. IsFiniteSet(1..(next_id - 1))
    BY <1>1, FS_Interval
<1>4. IsFiniteSet(Ids)
    BY <1>2, <1>3, FS_Subset, Zenon
<1>5. ASSUME NEW id \in Ids PROVE query_log[id].time \in Nat
  <2>1. query_log[id] \in Rows
    BY DEF TableOK
  <2>2. PICK t \in 0..MaxClock, e \in Entries :
            query_log[id] = [time |-> t, status |-> e.status, question |-> e.question, elapsed_ns |-> e.elapsed_ns]
    BY <2>1 DEF Rows
  <2> QED
    BY <2>2, Limits
<1> QED
    BY <1>1, <1>2, <1>4, <1>5

LEMMA InsertMoves ==
    ASSUME TableOK, NEW e \in Entries, NEW t \in 0..MaxClock, Insert(e, t)
    PROVE  TableOK' /\ Moves
<1> DEFINE row == [time |-> t, status |-> e.status, question |-> e.question, elapsed_ns |-> e.elapsed_ns]
<1>1. /\ next_id <= MaxRows /\ t \in {clock, clock - 1} /\ next_id' = next_id + 1
      /\ query_log' = [id \in Ids \cup {next_id} |-> IF id = next_id THEN row ELSE query_log[id]]
      /\ reader' = Follow(query_log', clock) /\ UNCHANGED <<clock, alerts>>
    BY DEF Insert, Change
<1>2. row \in Rows /\ row.time = t
    BY DEF Rows
<1> HIDE DEF row
<1>3. clock \in Nat /\ next_id \in Nat /\ t <= clock
    BY <1>1, TableTypes
<1>4. next_id \notin Ids
    BY <1>3, TableTypes
<1>5. /\ DOMAIN query_log' = Ids \cup {next_id} /\ query_log'[next_id] = row
      /\ \A id \in Ids : query_log'[id] = query_log[id]
    BY <1>1, <1>4
<1>6. Ids' = Ids \cup {next_id}
    BY <1>5 DEF Ids
<1>7. Ids' \subseteq 1..(next_id' - 1) /\ next_id' \in 1..(MaxRows + 1)
  <2>1. Ids \subseteq 1..(next_id - 1) /\ next_id \in 1..(MaxRows + 1)
    BY DEF TableOK
  <2> QED
    BY <1>1, <1>3, <1>6, <2>1, Limits
<1>8. \A id \in Ids' : query_log'[id] \in Rows /\ query_log'[id].time <= clock'
    BY <1>1, <1>2, <1>3, <1>5, <1>6 DEF TableOK
<1>9. TableOK'
    BY <1>1, <1>7, <1>8, Zenon DEF TableOK
<1> QED
    BY <1>1, <1>5, <1>9 DEF Moves, Ids

LEMMA WithoutMoves ==
    ASSUME TableOK, NEW gone, Change(Without(gone)), next_id' = next_id
    PROVE  TableOK' /\ Moves
<1>1. /\ query_log' = [id \in Ids \ gone |-> query_log[id]]
      /\ reader' = Follow(query_log', clock) /\ UNCHANGED <<clock, alerts>>
    BY DEF Change, Without
<1>2. DOMAIN query_log' = Ids \ gone /\ \A id \in Ids \ gone : query_log'[id] = query_log[id]
    BY <1>1
<1>3. TableOK'
    BY <1>1, <1>2 DEF TableOK, Ids
<1> QED
    BY <1>1, <1>2, <1>3 DEF Moves

LEMMA LogMoves ==
    ASSUME TableOK, Log
    PROVE  TableOK' /\ Moves
<1>1. ASSUME NEW e \in Entries, NEW t \in 0..MaxClock, Insert(e, t) PROVE TableOK' /\ Moves
    BY <1>1, InsertMoves
<1>2. ASSUME NEW ids \in SUBSET Ids, bulk_delete(ids) PROVE TableOK' /\ Moves
    BY <1>2, WithoutMoves DEF bulk_delete
<1>3. CASE Rotate
    BY <1>3, WithoutMoves DEF Rotate
<1>4. CASE Tick
  <2>1. /\ clock < MaxClock /\ clock' = clock + 1 /\ reader' = Follow(query_log', clock')
        /\ UNCHANGED <<query_log, next_id, alerts>>
    BY <1>4 DEF Tick
  <2>2. clock' \in 0..MaxClock
    BY <2>1, TableTypes, Limits
  <2>3. \A id \in Ids : query_log[id].time <= clock'
    BY <2>1, TableTypes DEF TableOK
  <2>4. TableOK'
    BY <2>1, <2>2, <2>3 DEF TableOK, Ids
  <2> QED
    BY <2>1, <2>4 DEF Moves
<1> QED
    BY <1>1, <1>2, <1>3, <1>4 DEF Log

LEMMA PartsFinite ==
    ASSUME TableOK, NEW S \in SUBSET Ids
    PROVE  IsFiniteSet(S) /\ Cardinality(S) \in Nat
BY TableTypes, FS_Subset, FS_CardinalityType

LEMMA MovesReader ==
    ASSUME TableOK, TableOK', ReaderOK, Moves
    PROVE  ReaderOK' /\ reader'.kind = reader.kind
<1>0. reader' = Follow(query_log', clock')
    BY DEF Moves
<1>1. CASE reader.kind \in OtherKinds
  <2>1. reader' = reader
    BY <1>0, <1>1 DEF Follow, OtherKinds
  <2> QED
    BY <1>1, <2>1 DEF ReaderOK
<1>2. CASE reader \in CursorReader
  <2>1. reader' = [reader EXCEPT !.stay = @ \cap Matching(query_log', clock', reader.want)]
    BY <1>0, <1>2 DEF Follow, CursorReader
  <2>2. reader' \in CursorReader
    BY <1>2, <2>1, Zenon DEF CursorReader
  <2> QED
    BY <1>2, <2>2 DEF ReaderOK, CursorReader
<1>3. CASE reader \in OffsetReader
  <2> DEFINE before == Matching(query_log, clock, reader.want)
             after == Matching(query_log', clock', reader.want)
  <2>1. reader' = [reader EXCEPT !.stay = @ \cap after, !.lost = @ \/ ~(before \subseteq after)]
    BY <1>0, <1>3 DEF Follow, OffsetReader
  <2> HIDE DEF before, after
  <2>2. reader' \in OffsetReader
    BY <1>3, <2>1, Zenon DEF OffsetReader
  <2> QED
    BY <1>3, <2>2 DEF ReaderOK, OffsetReader
<1>4. CASE reader \in StatsReader
  <2> DEFINE c == Cardinality(DOMAIN query_log' \ Ids)
             l == Cardinality(Window(query_log, clock) \ Window(query_log', clock'))
  <2>1. reader' = [reader EXCEPT !.came = @ + c, !.left = @ + l]
    BY <1>0, <1>4 DEF Follow, StatsReader
  <2>2. c \in Nat
    <3>1. DOMAIN query_log' \subseteq 1..(next_id' - 1) /\ next_id' \in Int
      BY Limits DEF TableOK, Ids
    <3>2. IsFiniteSet(1..(next_id' - 1))
      BY <3>1, FS_Interval
    <3>3. IsFiniteSet(DOMAIN query_log')
      BY <3>1, <3>2, FS_Subset
    <3> QED
      BY <3>3, FS_Difference, FS_CardinalityType, Zenon
  <2>3. l \in Nat
    <3>1. Window(query_log, clock) \ Window(query_log', clock') \in SUBSET Ids
      BY DEF Window, Ids
    <3> QED
      BY <3>1, PartsFinite
  <2> HIDE DEF c, l
  <2>4. reader' \in StatsReader
    <3> DEFINE x == reader.came + c
               y == reader.left + l
    <3>1. x \in Nat /\ y \in Nat
      BY <1>4, <2>2, <2>3 DEF StatsReader
    <3>2. reader' = [reader EXCEPT !.came = x, !.left = y]
      BY <1>4, <2>1 DEF StatsReader
    <3> HIDE DEF x, y
    <3> QED
      BY <1>4, <3>1, <3>2, Zenon DEF StatsReader
  <2> QED
    BY <1>4, <2>4 DEF ReaderOK, StatsReader
<1>5. reader.kind \in OtherKinds \/ reader \in CursorReader \/ reader \in OffsetReader \/ reader \in StatsReader
    BY DEF ReaderOK
<1> QED
    BY <1>1, <1>2, <1>3, <1>4, <1>5, Zenon

-----------------------------------------------------------------------------
(* Rows in order *)

LEMMA MinOfTwo ==
    ASSUME NEW a \in Int, NEW b \in Int
    PROVE  Min({a, b}) = IF a <= b THEN a ELSE b
<1>1. \E x \in {a, b} : \A y \in {a, b} : x =< y
    OBVIOUS
<1>2. Min({a, b}) \in {a, b} /\ \A y \in {a, b} : Min({a, b}) =< y
    BY <1>1 DEF Min
<1> QED
    BY <1>2

LEMMA SetOfSeq ==
    ASSUME NEW S, NEW s \in Seq(S)
    PROVE  Range(s) = {s[i] : i \in 1..Len(s)} /\ Range(s) \subseteq S
BY LenProperties, ElementOfSeq DEF Range

\* A sequence that lists the elements of S once misses none.
LEMMA Enumeration ==
    ASSUME NEW S, IsFiniteSet(S), NEW s \in Listings(S)
    PROVE  /\ s \in Seq(S) /\ Len(s) = Cardinality(S) /\ Len(s) \in Nat
           /\ \A i, j \in 1..Len(s) : i # j => s[i] # s[j]
           /\ \A x \in S : \E i \in 1..Len(s) : s[i] = x
<1> DEFINE n == Cardinality(S)
<1>1. n \in Nat
    BY FS_CardinalityType
<1>2. s \in [1..n -> S] /\ \A i, j \in 1..n : i # j => s[i] # s[j]
    BY DEF Listings, Injection, IsInjective
<1> HIDE DEF n
<1>3. s \in Seq(S) /\ Len(s) = n
    BY <1>1, <1>2
<1>4. s \in Injection(1..n, S)
    BY <1>2 DEF Injection, IsInjective
<1>5. Cardinality(1..n) = n
    BY <1>1, FS_Interval
<1>6. s \in Surjection(1..n, S)
    BY <1>4, <1>5, FS_Injection DEF n
<1>7. \A x \in S : \E i \in 1..n : s[i] = x
    BY <1>6 DEF Surjection
<1> QED
    BY <1>1, <1>2, <1>3, <1>7 DEF n

\* Integers can be listed in descending order: x in the place after all larger ones.
LEMMA Descends ==
    ASSUME NEW S \in SUBSET Int, IsFiniteSet(S)
    PROVE  /\ Descending(S) \in Listings(S)
           /\ \A i, j \in 1..Len(Descending(S)) : i < j => Descending(S)[i] > Descending(S)[j]
<1> DEFINE n == Cardinality(S)
           Above(x) == {y \in S : y > x}
           r == [x \in S |-> Cardinality(Above(x)) + 1]
           s == [i \in 1..n |-> CHOOSE x \in S : r[x] = i]
<1>0. n \in Nat
    BY FS_CardinalityType
<1>1. ASSUME NEW x \in S
      PROVE  IsFiniteSet(Above(x)) /\ Cardinality(Above(x)) \in Nat /\ Cardinality(Above(x)) + 1 \in 1..n
  <2>1. IsFiniteSet(S \ {x}) /\ Cardinality(S \ {x}) = n - 1
    BY FS_RemoveElement
  <2>2. Above(x) \in SUBSET (S \ {x})
    OBVIOUS
  <2> HIDE DEF Above, n
  <2>3. IsFiniteSet(Above(x)) /\ Cardinality(Above(x)) <= n - 1
    BY <2>1, <2>2, FS_Subset
  <2>4. Cardinality(Above(x)) \in Nat
    BY <2>3, FS_CardinalityType
  <2> QED
    BY <1>0, <2>3, <2>4
<1>2. ASSUME NEW x \in S, NEW y \in S, x < y
      PROVE  r[y] < r[x]
  <2>0. x \in Int /\ y \in Int /\ y > x /\ ~(y > y) /\ \A z \in S : z > y => z > x
    BY <1>2
  <2>1. Above(y) \cup {y} \in SUBSET Above(x) /\ y \notin Above(y)
    BY <2>0, Zenon
  <2>4. /\ IsFiniteSet(Above(y)) /\ IsFiniteSet(Above(x))
        /\ Cardinality(Above(y)) \in Nat /\ Cardinality(Above(x)) \in Nat
    BY <1>1
  <2>5. r[y] = Cardinality(Above(y)) + 1 /\ r[x] = Cardinality(Above(x)) + 1
    OBVIOUS
  <2> HIDE DEF Above, r
  <2>2. Cardinality(Above(y) \cup {y}) = Cardinality(Above(y)) + 1
    BY <2>1, <2>4, FS_AddElement, Zenon
  <2>3. Cardinality(Above(y) \cup {y}) <= Cardinality(Above(x))
    BY <2>1, <2>4, FS_Subset
  <2> QED
    BY <2>2, <2>3, <2>4, <2>5
<1>3. r \in [S -> 1..n]
    BY <1>1
<1> HIDE DEF r, n, Above
<1>4. \A x, y \in S : r[x] = r[y] => x = y
  <2> SUFFICES ASSUME NEW x \in S, NEW y \in S, r[x] = r[y], x # y PROVE FALSE
    OBVIOUS
  <2>1. x < y \/ y < x
    OBVIOUS
  <2>2. r[x] \in Int /\ r[y] \in Int
    BY <1>3
  <2> QED
    BY <1>2, <2>1, <2>2
<1>5. \A i \in 1..n : \E x \in S : r[x] = i
  <2>1. r \in Injection(S, 1..n)
    BY <1>3, <1>4 DEF Injection, IsInjective
  <2>2. IsFiniteSet(1..n) /\ Cardinality(1..n) = n
    BY <1>0, FS_Interval
  <2>3. r \in Surjection(S, 1..n)
    BY <2>1, <2>2, FS_Injection DEF n
  <2> QED
    BY <2>3 DEF Surjection
<1>6. ASSUME NEW i \in 1..n PROVE s[i] \in S /\ r[s[i]] = i
    BY <1>5
<1>7. s \in [1..n -> S]
    BY <1>6
<1> HIDE DEF s
<1>8. s \in Listings(S)
  <2>1. \A i, j \in 1..n : i # j => s[i] # s[j]
    BY <1>6
  <2> QED
    BY <1>7, <2>1 DEF Listings, Injection, IsInjective, n
<1>9. Len(s) = n
    BY <1>0, <1>7
<1>10. ASSUME NEW i \in 1..n, NEW j \in 1..n, i < j PROVE s[i] > s[j]
  <2>1. s[i] \in Int /\ s[j] \in Int /\ s[i] \in S /\ s[j] \in S /\ r[s[i]] = i /\ r[s[j]] = j
    BY <1>6, Zenon
  <2>2. ~(s[i] < s[j])
    BY <1>2, <1>10, <2>1
  <2>3. s[i] # s[j]
    BY <1>10, <2>1
  <2> QED
    BY <2>1, <2>2, <2>3
<1>11. \E q \in Listings(S) : \A i, j \in 1..Len(q) : i < j => q[i] > q[j]
    BY <1>8, <1>9, <1>10
<1> QED
    BY <1>11, Zenon DEF Descending

\* The first rows of a sequence.
LEMMA Prefix ==
    ASSUME NEW S, NEW s \in Seq(S), NEW n \in Nat, n <= Len(s)
    PROVE  /\ SubSeq(s, 1, n) \in Seq(S) /\ Len(SubSeq(s, 1, n)) = n
           /\ \A i \in 1..n : SubSeq(s, 1, n)[i] = s[i]
<1>0. Len(s) \in Nat
    BY LenProperties
<1>1. \A i \in 1..n : s[i] \in S
    BY <1>0, ElementOfSeq
<1>2. /\ SubSeq(s, 1, n) \in Seq(S) /\ Len(SubSeq(s, 1, n)) = IF 1 <= n THEN n - 1 + 1 ELSE 0
      /\ \A i \in 1..(n - 1 + 1) : SubSeq(s, 1, n)[i] = s[1 + i - 1]
    BY <1>1, SubSeqProperties
<1>3. n - 1 + 1 = n /\ \A i \in 1..n : 1 + i - 1 = i
    OBVIOUS
<1> QED
    BY <1>2, <1>3

LEMMA SetOfConcat ==
    ASSUME NEW S, NEW s \in Seq(S), NEW t \in Seq(S)
    PROVE  Range(s) \cup Range(t) \subseteq Range(s \o t)
<1>1. /\ s \o t \in Seq(S) /\ Len(s \o t) = Len(s) + Len(t) /\ Len(s) \in Nat /\ Len(t) \in Nat
      /\ \A i \in 1..(Len(s) + Len(t)) : (s \o t)[i] = IF i <= Len(s) THEN s[i] ELSE t[i - Len(s)]
    BY ConcatProperties, LenProperties
<1>2. /\ Range(s) = {s[i] : i \in 1..Len(s)} /\ Range(t) = {t[i] : i \in 1..Len(t)}
      /\ Range(s \o t) = {(s \o t)[i] : i \in 1..Len(s \o t)}
    BY <1>1, SetOfSeq, Zenon
<1>3. ASSUME NEW i \in 1..Len(s) PROVE i \in 1..Len(s \o t) /\ (s \o t)[i] = s[i]
    BY <1>1
<1>4. ASSUME NEW i \in 1..Len(t) PROVE Len(s) + i \in 1..Len(s \o t) /\ (s \o t)[Len(s) + i] = t[i]
  <2>1. Len(s) + i \in 1..(Len(s) + Len(t)) /\ ~(Len(s) + i <= Len(s)) /\ (Len(s) + i) - Len(s) = i
    BY <1>1
  <2> QED
    BY <1>1, <2>1
<1> QED
    BY <1>2, <1>3, <1>4, Zenon

-----------------------------------------------------------------------------
(* A page by cursor *)

\* What a page holds: the largest matching ids below the cursor, in descending order;
\* when there are more, the others lie below the next cursor.
LEMMA CursorRows ==
    ASSUME TableOK, NEW want \in Wants, NEW cursor \in Int,
           NEW S, S = Below(cursor, Matching(query_log, clock, want)),
           NEW rows, rows = Fetched(cursor, want), NEW cut, cut = Truncated(rows, want)
    PROVE  /\ cut \in Seq(Nat) /\ Len(rows) \in Nat
           /\ \A i, j \in 1..Len(cut) : i < j => cut[i] > cut[j]
           /\ \A i \in 1..Len(cut) : cut[i] < cursor
           /\ Len(rows) > want.limit =>
                  /\ Len(cut) >= 1 /\ NextCursor(rows, want) = cut[Len(cut)]
                  /\ \A x \in S : x \in Range(cut) \/ x < NextCursor(rows, want)
           /\ ~(Len(rows) > want.limit) => S \subseteq Range(cut)
<1> DEFINE ids == Descending(S)
           lim == want.limit
<1>0. lim \in Nat /\ lim >= 1
    BY WantLimit
<1>1. S \in SUBSET Ids /\ (\A x \in S : x < cursor) /\ S \in SUBSET Nat /\ S \in SUBSET Int /\ IsFiniteSet(S)
  <2>1. S \in SUBSET Ids /\ \A x \in S : x < cursor
    BY DEF Below, Matching, Ids
  <2> QED
    BY <2>1, TableTypes, PartsFinite
<1>2. ids \in Listings(S) /\ \A i, j \in 1..Len(ids) : i < j => ids[i] > ids[j]
    BY <1>1, Descends
<1> HIDE DEF ids
<1>3. /\ ids \in Seq(S) /\ Len(ids) \in Nat /\ \A x \in S : \E i \in 1..Len(ids) : ids[i] = x
    BY <1>1, <1>2, Enumeration
<1>4. \A i \in 1..Len(ids) : ids[i] \in S
    BY <1>3, ElementOfSeq
<1> DEFINE m == Min({Len(ids), lim + 1})
           k == Min({Len(rows), lim})
<1> HIDE DEF lim
<1>5. m = (IF Len(ids) <= lim + 1 THEN Len(ids) ELSE lim + 1) /\ m \in Nat /\ m <= Len(ids)
  <2>1. m = IF Len(ids) <= lim + 1 THEN Len(ids) ELSE lim + 1
    BY <1>0, <1>3, MinOfTwo
  <2> HIDE DEF m
  <2> QED
    BY <1>0, <1>3, <2>1
<1>6. rows = SubSeq(ids, 1, m)
    BY DEF Fetched, ids, lim
<1> HIDE DEF m
<1>7. rows \in Seq(S) /\ Len(rows) = m /\ \A i \in 1..m : rows[i] = ids[i]
    BY <1>3, <1>5, <1>6, Prefix
<1>8. k = (IF m <= lim THEN m ELSE lim) /\ k \in Nat /\ k <= m
  <2>1. k = IF m <= lim THEN m ELSE lim
    BY <1>0, <1>5, <1>7, MinOfTwo
  <2> HIDE DEF k
  <2> QED
    BY <1>0, <1>5, <2>1
<1>9. cut = SubSeq(rows, 1, k)
    BY DEF Truncated, lim
<1> HIDE DEF k
<1>10. cut \in Seq(S) /\ Len(cut) = k /\ \A i \in 1..k : cut[i] = rows[i]
    BY <1>7, <1>8, <1>9, Prefix
<1>11. k <= Len(ids) /\ \A i \in 1..k : i \in 1..Len(ids) /\ cut[i] = ids[i]
  <2>1. k <= Len(ids) /\ \A i \in 1..k : i \in 1..m /\ i \in 1..Len(ids)
    <3>1. Len(ids) \in Nat /\ m \in Nat /\ k \in Nat /\ m <= Len(ids) /\ k <= m
      BY <1>3, <1>5, <1>8
    <3> QED
      BY <3>1
  <2> QED
    BY <1>7, <1>10, <2>1
<1>12. cut \in Seq(Nat)
    BY <1>1, <1>10, SeqMonotonic
<1>13. \A i, j \in 1..Len(cut) : i < j => cut[i] > cut[j]
    BY <1>2, <1>10, <1>11
<1>14. \A i \in 1..Len(cut) : cut[i] < cursor
    BY <1>1, <1>4, <1>10, <1>11, Zenon
<1>15. Range(cut) = {cut[i] : i \in 1..k}
    BY <1>10, SetOfSeq
<1>16. ASSUME Len(rows) > lim
       PROVE  /\ Len(cut) >= 1 /\ NextCursor(rows, want) = cut[Len(cut)]
              /\ \A x \in S : x \in Range(cut) \/ x < NextCursor(rows, want)
  <2>1. k = lim /\ k \in 1..Len(ids)
    BY <1>0, <1>3, <1>5, <1>7, <1>8, <1>16
  <2>2. NextCursor(rows, want) = cut[Len(cut)]
    BY DEF NextCursor
  <2>3. NextCursor(rows, want) = ids[k]
    BY <1>0, <1>10, <1>11, <2>1, <2>2
  <2>4. ASSUME NEW x \in S PROVE x \in Range(cut) \/ x < ids[k]
    <3>1. PICK i \in 1..Len(ids) : ids[i] = x
      BY <1>3
    <3>2. CASE i <= k
      <4>1. i \in 1..k
        BY <1>3, <2>1, <3>2
      <4> QED
        BY <1>11, <1>15, <3>1, <4>1
    <3>3. CASE k < i
      <4>1. ids[k] > ids[i] /\ ids[k] \in Int /\ ids[i] \in Int
        BY <1>1, <1>2, <1>4, <2>1, <3>3, Zenon
      <4> QED
        BY <3>1, <4>1, Zenon
    <3> QED
      BY <1>3, <2>1, <3>2, <3>3
  <2> QED
    BY <1>0, <1>10, <2>1, <2>2, <2>3, <2>4, Zenon
<1>17. ASSUME ~(Len(rows) > lim) PROVE S \subseteq Range(cut)
  <2>1. k = Len(ids)
    BY <1>0, <1>3, <1>5, <1>7, <1>8, <1>17
  <2> QED
    BY <1>3, <1>11, <1>15, <2>1, Zenon
<1> QED
    BY <1>5, <1>7, <1>12, <1>13, <1>14, <1>16, <1>17, Zenon DEF lim

\* The walk so far: what was seen is descending and not below the cursor, and what has
\* matched all along is seen or still below it.
CursorOK ==
    reader.kind = "cursor" =>
        /\ reader.stay \subseteq Matching(query_log, clock, reader.want)
        /\ \A i, j \in 1..Len(reader.seen) : i < j => reader.seen[i] > reader.seen[j]
        /\ reader.more =>
              /\ \A i \in 1..Len(reader.seen) : reader.seen[i] >= reader.cursor
              /\ \A id \in reader.stay : id \in Range(reader.seen) \/ id < reader.cursor
        /\ ~reader.more => reader.stay \subseteq Range(reader.seen)

LEMMA CursorPageOK ==
    ASSUME TableOK, ReaderOK, CursorOK, CursorPage
    PROVE  reader' \in CursorReader /\ CursorOK'
<1> DEFINE want == reader.want
           cursor == reader.cursor
           seen == reader.seen
           rows == Fetched(cursor, want)
           cut == Truncated(rows, want)
           has_more == Len(rows) > want.limit
           S == Below(cursor, Matching(query_log, clock, want))
<1>1. reader \in CursorReader /\ reader.more
    BY DEF CursorPage, ReaderOK, OtherKinds, OffsetReader, StatsReader
<1>2. want \in Wants /\ cursor \in Int /\ seen \in Seq(Nat) /\ reader.stay \in SUBSET Nat
    BY <1>1 DEF CursorReader
<1>3. /\ reader' = [reader EXCEPT !.seen = seen \o cut, !.more = has_more,
                                  !.cursor = IF has_more THEN NextCursor(rows, want) ELSE cursor]
      /\ UNCHANGED <<clock, query_log>>
    BY Zenon DEF CursorPage, ReadOnly
<1>4. /\ cut \in Seq(Nat) /\ Len(rows) \in Nat
      /\ \A i, j \in 1..Len(cut) : i < j => cut[i] > cut[j]
      /\ \A i \in 1..Len(cut) : cut[i] < cursor
      /\ has_more =>
             /\ Len(cut) >= 1 /\ NextCursor(rows, want) = cut[Len(cut)]
             /\ \A x \in S : x \in Range(cut) \/ x < NextCursor(rows, want)
      /\ ~has_more => S \subseteq Range(cut)
  <2> HIDE DEF rows, cut, S, want, cursor
  <2> QED
    BY <1>2, CursorRows, Zenon DEF rows, cut, S
<1> DEFINE next == IF has_more THEN NextCursor(rows, want) ELSE cursor
<1> HIDE DEF rows, cut, S
<1>5. Len(cut) \in Nat /\ Len(seen) \in Nat
    BY <1>2, <1>4, LenProperties, Zenon
<1>6. /\ seen \o cut \in Seq(Nat) /\ Len(seen \o cut) = Len(seen) + Len(cut)
      /\ \A i \in 1..(Len(seen) + Len(cut)) : (seen \o cut)[i] = IF i <= Len(seen) THEN seen[i] ELSE cut[i - Len(seen)]
    BY <1>2, <1>4, ConcatProperties, Zenon
<1>7. next \in Int
    BY <1>2, <1>4, <1>5, ElementOfSeq
<1>8. has_more \in BOOLEAN
    OBVIOUS
<1> DEFINE all == seen \o cut
<1>9. /\ reader' \in CursorReader /\ reader'.kind = "cursor" /\ reader'.seen = all /\ reader'.more = has_more
      /\ reader'.cursor = next /\ reader'.want = want /\ reader'.stay = reader.stay
  <2> HIDE DEF next, has_more, all
  <2>1. reader' = [reader EXCEPT !.seen = all, !.more = has_more, !.cursor = next]
    BY <1>3 DEF next, has_more, all
  <2>2. all \in Seq(Nat)
    BY <1>6 DEF all
  <2> HIDE DEF want, seen, cursor
  <2>3. reader' \in CursorReader
    BY <1>1, <1>7, <1>8, <2>1, <2>2, Zenon DEF CursorReader
  <2> QED
    BY <1>1, <2>1, <2>3 DEF CursorReader, want
<1>10. /\ reader.stay \subseteq Matching(query_log, clock, want)
       /\ \A i, j \in 1..Len(seen) : i < j => seen[i] > seen[j]
       /\ \A i \in 1..Len(seen) : seen[i] >= cursor
       /\ \A id \in reader.stay : id \in Range(seen) \/ id < cursor
    BY <1>1 DEF CursorOK, CursorReader
<1>11. \A i \in 1..Len(seen) : seen[i] \in Nat
    BY <1>2, ElementOfSeq, Zenon
<1>12. \A i \in 1..Len(cut) : cut[i] \in Nat
    BY <1>4, ElementOfSeq, Zenon
<1> HIDE DEF seen, cursor, want, next, has_more
<1>13. ASSUME NEW i \in 1..Len(all)
       PROVE  \/ i \in 1..Len(seen) /\ all[i] = seen[i]
              \/ ~(i <= Len(seen)) /\ i - Len(seen) \in 1..Len(cut) /\ all[i] = cut[i - Len(seen)]
    BY <1>5, <1>6
<1>14. ASSUME NEW i \in 1..Len(all), NEW j \in 1..Len(all), i < j
       PROVE  all[i] > all[j]
  <2>1. CASE i \in 1..Len(seen) /\ j \in 1..Len(seen)
    BY <1>5, <1>10, <1>13, <1>14, <2>1
  <2>2. CASE i \in 1..Len(seen) /\ ~(j <= Len(seen))
    <3>1. all[i] = seen[i] /\ seen[i] >= cursor /\ seen[i] \in Nat
      BY <1>5, <1>10, <1>11, <1>13, <2>2
    <3>2. j - Len(seen) \in 1..Len(cut) /\ all[j] = cut[j - Len(seen)]
      BY <1>5, <1>13, <2>2
    <3>3. all[j] < cursor /\ all[j] \in Nat
      BY <1>4, <1>12, <3>2, Zenon
    <3> QED
      BY <1>2, <3>1, <3>3
  <2>3. CASE ~(i <= Len(seen))
    <3>1. i - Len(seen) \in 1..Len(cut) /\ all[i] = cut[i - Len(seen)]
      BY <1>5, <1>13, <2>3
    <3>2. j - Len(seen) \in 1..Len(cut) /\ all[j] = cut[j - Len(seen)]
      BY <1>5, <1>6, <1>13, <1>14, <2>3
    <3>3. i - Len(seen) < j - Len(seen)
      BY <1>5, <1>6, <1>14
    <3> QED
      BY <1>4, <3>1, <3>2, <3>3, Zenon
  <2> QED
    BY <1>5, <1>6, <2>1, <2>2, <2>3
<1>15. Range(seen) \cup Range(cut) \subseteq Range(all)
    BY <1>2, <1>4, SetOfConcat
<1>16. \A id \in reader.stay : id \in Range(seen) \/ id \in S
    BY <1>10 DEF S, Below
<1>17. CASE has_more
  <2>1. next = cut[Len(cut)] /\ Len(cut) \in 1..Len(cut) /\ next < cursor
    BY <1>4, <1>5, <1>17 DEF next
  <2>2. ASSUME NEW i \in 1..Len(all) PROVE all[i] >= next
    <3>1. CASE i \in 1..Len(seen) /\ all[i] = seen[i]
      BY <1>2, <1>7, <1>10, <1>11, <2>1, <3>1
    <3>2. CASE i - Len(seen) \in 1..Len(cut) /\ all[i] = cut[i - Len(seen)]
      <4> DEFINE j == i - Len(seen)
      <4>1. j \in 1..Len(cut) /\ all[i] = cut[j]
        BY <3>2
      <4> HIDE DEF j
      <4>2. j = Len(cut) \/ j < Len(cut)
        BY <1>5, <4>1
      <4>3. j < Len(cut) => cut[j] > cut[Len(cut)]
        BY <1>4, <2>1, <4>1, Zenon
      <4> QED
        BY <1>12, <2>1, <4>1, <4>2, <4>3
    <3> QED
      BY <1>13, <3>1, <3>2, Zenon
  <2>3. \A id \in reader.stay : id \in Range(all) \/ id < next
    BY <1>4, <1>15, <1>16, <1>17, Zenon DEF next
  <2> QED
    BY <1>3, <1>9, <1>10, <1>14, <1>17, <2>2, <2>3, Zenon DEF CursorOK
<1>18. CASE ~has_more
  <2>1. reader.stay \subseteq Range(all)
    BY <1>4, <1>15, <1>16, <1>18, Zenon
  <2> QED
    BY <1>3, <1>9, <1>10, <1>14, <1>18, <2>1, Zenon DEF CursorOK
<1> QED
    BY <1>9, <1>17, <1>18

LEMMA CursorMoves ==
    ASSUME CursorOK, Moves, ReaderOK, reader.kind = "cursor"
    PROVE  CursorOK'
<1>1. reader \in CursorReader
    BY DEF ReaderOK, OtherKinds, OffsetReader, StatsReader
<1>2. reader' = [reader EXCEPT !.stay = @ \cap Matching(query_log', clock', reader.want)]
    BY DEF Moves, Follow
<1>3. /\ reader'.stay = reader.stay \cap Matching(query_log', clock', reader.want)
      /\ reader'.want = reader.want /\ reader'.seen = reader.seen /\ reader'.more = reader.more
      /\ reader'.cursor = reader.cursor
    BY <1>1, <1>2, Zenon DEF CursorReader
<1> QED
    BY <1>3 DEF CursorOK

-----------------------------------------------------------------------------
(* The statistics *)

LEMMA Covered ==
    ASSUME NEW A, NEW B, NEW C, IsFiniteSet(B), IsFiniteSet(C), A \subseteq B \cup C
    PROVE  /\ IsFiniteSet(A) /\ Cardinality(A) \in Nat /\ Cardinality(B) \in Nat /\ Cardinality(C) \in Nat
           /\ Cardinality(A) <= Cardinality(B) + Cardinality(C)
<1>1. /\ IsFiniteSet(B \cup C) /\ IsFiniteSet(B \cap C)
      /\ Cardinality(B \cup C) = Cardinality(B) + Cardinality(C) - Cardinality(B \cap C)
    BY FS_Union, FS_Intersection
<1>2. IsFiniteSet(A) /\ Cardinality(A) <= Cardinality(B \cup C)
    BY <1>1, FS_Subset
<1>3. /\ Cardinality(A) \in Nat /\ Cardinality(B) \in Nat /\ Cardinality(C) \in Nat
      /\ Cardinality(B \cap C) \in Nat
    BY <1>1, <1>2, FS_CardinalityType
<1> QED
    BY <1>1, <1>2, <1>3

LEMMA Parted ==
    ASSUME NEW A, NEW B, NEW C, IsFiniteSet(A), A = B \cup C, B \cap C = {}
    PROVE  /\ Cardinality(A) = Cardinality(B) + Cardinality(C)
           /\ Cardinality(B) \in Nat /\ Cardinality(C) \in Nat
<1>1. IsFiniteSet(B) /\ IsFiniteSet(C)
    BY FS_Subset
<1>2. Cardinality(B \cup C) = Cardinality(B) + Cardinality(C) - Cardinality(B \cap C)
    BY <1>1, FS_Union, Zenon
<1>3. Cardinality({}) = 0
    BY FS_EmptySet
<1>4. Cardinality(B) \in Nat /\ Cardinality(C) \in Nat
    BY <1>1, FS_CardinalityType
<1>5. Cardinality(B \cap C) = 0
    BY <1>3
<1>6. Cardinality(A) = Cardinality(B \cup C)
    OBVIOUS
<1> QED
    BY <1>2, <1>4, <1>5, <1>6

\* The rows of the window that have one of the statuses.
Having(table, now, statuses) == {id \in Window(table, now) : table[id].status \in statuses}

\* The blocked and the cached rows: counted already, or what a count would find now.
CountedNow ==
    CASE reader.place = "blocked" -> Cardinality(Having(query_log, clock, {"blocked", "cached"}))
      [] reader.place = "cached" -> reader.blocked + Cardinality(Having(query_log, clock, {"cached"}))
      [] OTHER -> reader.blocked + reader.cached

YesterdayNow == IF reader.place = "done" THEN reader.yesterday ELSE Cardinality(Yesterday(query_log, clock))

\* What was not among the others of the first statement is what the later ones find, but
\* for the rows that came and that left.
StatsOK ==
    reader.kind = "stats" =>
        /\ reader.total - reader.first.others - reader.left <= CountedNow
        /\ CountedNow <= reader.total - reader.first.others + reader.came
        /\ YesterdayNow <= reader.first.yesterday + reader.left + reader.came

LEMMA HavingFinite ==
    ASSUME TableOK, NEW statuses
    PROVE  /\ IsFiniteSet(Having(query_log, clock, statuses))
           /\ Cardinality(Having(query_log, clock, statuses)) \in Nat
<1>1. Having(query_log, clock, statuses) \in SUBSET Ids
    BY DEF Having, Window, Ids
<1> QED
    BY <1>1, PartsFinite

LEMMA YesterdayFinite ==
    ASSUME TableOK
    PROVE  IsFiniteSet(Yesterday(query_log, clock)) /\ Cardinality(Yesterday(query_log, clock)) \in Nat
<1>1. Yesterday(query_log, clock) \in SUBSET Ids
    BY DEF Yesterday, Ids
<1> QED
    BY <1>1, PartsFinite

\* What time and the writer do to the rows the statistics count.
LEMMA WindowMoves ==
    ASSUME TableOK, TableOK', Moves
    PROVE  /\ \A X : Having(query_log', clock', X) \subseteq Having(query_log, clock, X) \cup (DOMAIN query_log' \ Ids)
           /\ \A X : Having(query_log, clock, X)
                        \subseteq Having(query_log', clock', X) \cup (Window(query_log, clock) \ Window(query_log', clock'))
           /\ Yesterday(query_log', clock')
                 \subseteq Yesterday(query_log, clock)
                     \cup ((Window(query_log, clock) \ Window(query_log', clock')) \cup (DOMAIN query_log' \ Ids))
<1>1. clock \in Nat /\ clock' \in {clock, clock + 1} /\ HOURS \in Nat
    BY TableTypes, Limits DEF Moves
<1>2. \A id \in Ids \cap DOMAIN query_log' : query_log'[id] = query_log[id]
    BY DEF Moves, Ids
<1>3. \A id \in Ids : query_log[id].time \in Nat
    BY TableTypes
<1>4. ASSUME NEW X, NEW id \in Having(query_log', clock', X), id \in Ids
      PROVE  id \in Having(query_log, clock, X)
  <2>1. /\ id \in DOMAIN query_log' /\ query_log'[id].time >= clock' - HOURS
        /\ query_log'[id].status \in X
    BY DEF Having, Window
  <2>2. query_log[id].time >= clock' - HOURS /\ query_log[id].status \in X
    BY <1>2, <1>4, <2>1
  <2>3. query_log[id].time >= clock - HOURS
    BY <1>1, <1>3, <1>4, <2>2
  <2> QED
    BY <1>4, <2>2, <2>3, Zenon DEF Having, Window, Ids
<1>5. ASSUME NEW X, NEW id \in Having(query_log, clock, X), id \in Window(query_log', clock')
      PROVE  id \in Having(query_log', clock', X)
  <2>1. id \in Ids /\ id \in DOMAIN query_log' /\ query_log[id].status \in X
    BY <1>5 DEF Having, Window, Ids
  <2> QED
    BY <1>2, <1>5, <2>1 DEF Having
<1>6. ASSUME NEW id \in Yesterday(query_log', clock'), id \in Ids
      PROVE  id \in Yesterday(query_log, clock) \/ id \in Window(query_log, clock) \ Window(query_log', clock')
  <2>1. /\ id \in DOMAIN query_log' /\ query_log'[id].time >= clock' - 2 * HOURS
        /\ query_log'[id].time < clock' - HOURS
    BY DEF Yesterday
  <2>2. query_log'[id] = query_log[id]
    BY <1>2, <1>6, <2>1
  <2> DEFINE t == query_log[id].time
  <2>3. t \in Nat /\ t >= clock' - 2 * HOURS /\ t < clock' - HOURS
    BY <1>3, <1>6, <2>1, <2>2, Zenon
  <2>4. id \notin Window(query_log', clock')
    BY <1>1, <2>2, <2>3 DEF Window
  <2>5. t >= clock - 2 * HOURS /\ (t < clock - HOURS \/ t >= clock - HOURS)
    <3> DEFINE h == 2 * HOURS
    <3>1. t \in Nat /\ h \in Nat /\ t >= clock' - h
      BY <1>1, <2>3
    <3> HIDE DEF t, h
    <3>2. t >= clock - h
      <4>1. clock \in Nat /\ (clock' = clock \/ clock' = clock + 1)
        BY <1>1
      <4>2. CASE clock' = clock
        BY <3>1, <4>2
      <4>3. CASE clock' = clock + 1
        BY <3>1, <4>1, <4>3
      <4> QED
        BY <4>1, <4>2, <4>3
    <3> QED
      BY <1>1, <2>3, <3>2 DEF h
  <2> QED
    BY <1>6, <2>4, <2>5 DEF Yesterday, Window, Ids
<1> QED
  <2>1. \A X : Having(query_log', clock', X) \subseteq DOMAIN query_log'
    BY DEF Having, Window
  <2>2. \A X : Having(query_log, clock, X) \subseteq Window(query_log, clock)
    BY DEF Having
  <2>3. Yesterday(query_log', clock') \subseteq DOMAIN query_log'
    BY DEF Yesterday
  <2> QED
    BY <1>4, <1>5, <1>6, <2>1, <2>2, <2>3, Zenon

LEMMA StatsMoves ==
    ASSUME TableOK, TableOK', Moves, StatsOK, ReaderOK, reader.kind = "stats"
    PROVE  StatsOK'
<1> DEFINE came == DOMAIN query_log' \ Ids
           left == Window(query_log, clock) \ Window(query_log', clock')
           c == Cardinality(came)
           l == Cardinality(left)
           H(X) == Cardinality(Having(query_log, clock, X))
           HP(X) == Cardinality(Having(query_log', clock', X))
           Y == Cardinality(Yesterday(query_log, clock))
           YP == Cardinality(Yesterday(query_log', clock'))
<1>1. reader \in StatsReader
    BY DEF ReaderOK, OtherKinds, CursorReader, OffsetReader
<1>2. reader' = [reader EXCEPT !.came = @ + c, !.left = @ + l]
    BY DEF Moves, Follow
<1>3. IsFiniteSet(DOMAIN query_log')
  <2>1. DOMAIN query_log' \subseteq 1..(next_id' - 1) /\ next_id' \in Int
    BY Limits DEF TableOK, Ids
  <2>2. IsFiniteSet(1..(next_id' - 1))
    BY <2>1, FS_Interval
  <2> QED
    BY <2>1, <2>2, FS_Subset
<1>4. IsFiniteSet(came) /\ c \in Nat
    BY <1>3, FS_Difference, FS_CardinalityType, Zenon
<1>5. IsFiniteSet(left) /\ l \in Nat
  <2>1. left \in SUBSET Ids
    BY DEF Window, Ids
  <2> QED
    BY <2>1, PartsFinite
<1>6. ASSUME NEW X
      PROVE  H(X) \in Nat /\ HP(X) \in Nat /\ HP(X) <= H(X) + c /\ H(X) <= HP(X) + l
  <2>1. IsFiniteSet(Having(query_log, clock, X)) /\ H(X) \in Nat
    BY HavingFinite
  <2>2. Having(query_log', clock', X) \subseteq Having(query_log, clock, X) \cup came
    BY WindowMoves
  <2>3. Having(query_log, clock, X) \subseteq Having(query_log', clock', X) \cup left
    BY WindowMoves
  <2>4. IsFiniteSet(Having(query_log', clock', X)) /\ HP(X) \in Nat /\ HP(X) <= H(X) + c
    <3> HIDE DEF came
    <3> QED
      BY <1>4, <2>1, <2>2, Covered, Zenon
  <2>5. H(X) <= HP(X) + l
    <3> HIDE DEF left
    <3> QED
      BY <1>5, <2>3, <2>4, Covered, Zenon
  <2> QED
    BY <2>1, <2>4, <2>5
<1>7. Y \in Nat /\ YP \in Nat /\ YP <= Y + l + c
  <2>1. IsFiniteSet(Yesterday(query_log, clock)) /\ Y \in Nat
    BY YesterdayFinite
  <2>2. Yesterday(query_log', clock') \subseteq Yesterday(query_log, clock) \cup (left \cup came)
    BY WindowMoves, Zenon
  <2> HIDE DEF left, came
  <2>3. IsFiniteSet(left \cup came)
    BY <1>4, <1>5, FS_Union, Zenon
  <2>4. Cardinality(left \cup came) <= l + c /\ Cardinality(left \cup came) \in Nat
    BY <1>4, <1>5, Covered, Zenon
  <2>5. YP \in Nat /\ YP <= Y + Cardinality(left \cup came)
    BY <2>1, <2>2, <2>3, Covered
  <2> HIDE DEF l, c, Y, YP
  <2> QED
    BY <1>4, <1>5, <2>1, <2>4, <2>5
<1> HIDE DEF came, left, c, l
<1>8. /\ reader'.place = reader.place /\ reader'.blocked = reader.blocked /\ reader'.cached = reader.cached
      /\ reader'.total = reader.total /\ reader'.first = reader.first /\ reader'.yesterday = reader.yesterday
      /\ reader'.came = reader.came + c /\ reader'.left = reader.left + l
    BY <1>1, <1>2 DEF StatsReader
<1>9. /\ reader.blocked \in Nat /\ reader.cached \in Nat /\ reader.total \in Nat /\ reader.yesterday \in Nat
      /\ reader.came \in Nat /\ reader.left \in Nat
      /\ reader.first.others \in Nat /\ reader.first.yesterday \in Nat
    BY <1>1 DEF StatsReader
<1>10. /\ reader.total - reader.first.others - reader.left <= CountedNow
       /\ CountedNow <= reader.total - reader.first.others + reader.came
       /\ YesterdayNow <= reader.first.yesterday + reader.left + reader.came
    BY DEF StatsOK
<1>11. /\ CountedNow \in Nat /\ CountedNow' \in Nat
       /\ CountedNow' <= CountedNow + c /\ CountedNow <= CountedNow' + l
  <2>1. CASE reader.place = "blocked"
    <3>1. /\ CountedNow = H({"blocked", "cached"})
          /\ CountedNow' = HP({"blocked", "cached"})
      BY <1>8, <2>1, Zenon DEF CountedNow
    <3> QED
      BY <1>6, <3>1
  <2>2. CASE reader.place = "cached"
    <3>1. CountedNow = reader.blocked + H({"cached"}) /\ CountedNow' = reader.blocked + HP({"cached"})
      BY <1>8, <2>2, Zenon DEF CountedNow
    <3>2. /\ H({"cached"}) \in Nat /\ HP({"cached"}) \in Nat
          /\ HP({"cached"}) <= H({"cached"}) + c /\ H({"cached"}) <= HP({"cached"}) + l
      BY <1>6, Zenon
    <3> HIDE DEF H, HP
    <3> QED
      BY <1>4, <1>5, <1>9, <3>1, <3>2
  <2>3. CASE reader.place \notin {"blocked", "cached"}
    <3>1. CountedNow = reader.blocked + reader.cached /\ CountedNow' = reader.blocked + reader.cached
      BY <1>8, <2>3 DEF CountedNow
    <3> QED
      BY <1>4, <1>5, <1>9, <3>1
  <2> QED
    BY <2>1, <2>2, <2>3, Zenon
<1>12. YesterdayNow \in Nat /\ YesterdayNow' \in Nat /\ YesterdayNow' <= YesterdayNow + l + c
  <2>1. CASE reader.place = "done"
    <3>1. YesterdayNow = reader.yesterday /\ YesterdayNow' = reader.yesterday
      BY <1>8, <2>1, Zenon DEF YesterdayNow
    <3> QED
      BY <1>4, <1>5, <1>9, <3>1
  <2>2. CASE reader.place # "done"
    <3>1. YesterdayNow = Y /\ YesterdayNow' = YP
      BY <1>8, <2>2, Zenon DEF YesterdayNow
    <3> QED
      BY <1>7, <3>1, Zenon
  <2> QED
    BY <2>1, <2>2
<1> QED
  <2>1. /\ reader'.total - reader'.first.others - reader'.left <= CountedNow'
        /\ CountedNow' <= reader'.total - reader'.first.others + reader'.came
        /\ YesterdayNow' <= reader'.first.yesterday + reader'.left + reader'.came
    <3> DEFINE total == reader.total
               others == reader.first.others
               lf == reader.left
               cm == reader.came
               n == CountedNow
               np == CountedNow'
    <3>1. total \in Nat /\ others \in Nat /\ lf \in Nat /\ cm \in Nat /\ n \in Nat /\ np \in Nat
      BY <1>9, <1>11
    <3>2. total - others - lf <= n /\ n <= total - others + cm /\ np <= n + c /\ n <= np + l
      BY <1>10, <1>11
    <3>3. reader'.total = total /\ reader'.first.others = others /\ reader'.left = lf + l /\ reader'.came = cm + c
      BY <1>8
    <3>4. YesterdayNow' <= reader.first.yesterday + (lf + l) + (cm + c)
      BY <1>4, <1>5, <1>9, <1>10, <1>12
    <3> HIDE DEF total, others, lf, cm, n, np
    <3>5. total - others - (lf + l) <= np /\ np <= total - others + (cm + c)
      BY <1>4, <1>5, <3>1, <3>2
    <3> QED
      BY <1>8, <3>3, <3>4, <3>5 DEF np
  <2> QED
    BY <2>1 DEF StatsOK

LEMMA GetStatsOK ==
    ASSUME TableOK, get_stats
    PROVE  reader' \in StatsReader /\ StatsOK'
<1> DEFINE W == Window(query_log, clock)
           O == {id \in W : query_log[id].status \notin {"blocked", "cached"}}
           B == Having(query_log, clock, {"blocked", "cached"})
           y == Cardinality(Yesterday(query_log, clock))
<1>1. /\ reader' = [kind |-> "stats", place |-> "blocked", came |-> 0, left |-> 0,
                    total |-> Cardinality(W), blocked |-> 0, cached |-> 0, yesterday |-> 0,
                    first |-> [others |-> Cardinality(O), yesterday |-> y]]
      /\ UNCHANGED <<clock, query_log>>
    BY DEF get_stats, ReadOnly, Total
<1>2. W = B \cup O /\ B \cap O = {}
    BY DEF Having
<1>3. IsFiniteSet(W) /\ Cardinality(W) \in Nat
  <2>1. W \in SUBSET Ids
    BY DEF Window, Ids
  <2> QED
    BY <2>1, PartsFinite
<1>4. y \in Nat
    BY YesterdayFinite
<1> HIDE DEF W, O, B, y
<1>5. Cardinality(W) = Cardinality(B) + Cardinality(O) /\ Cardinality(B) \in Nat /\ Cardinality(O) \in Nat
    BY <1>2, <1>3, Parted
<1>6. reader' \in StatsReader
    BY <1>1, <1>3, <1>4, <1>5, Zenon DEF StatsReader
<1>7. /\ reader'.place = "blocked" /\ reader'.total = Cardinality(W) /\ reader'.left = 0 /\ reader'.came = 0
      /\ reader'.first.others = Cardinality(O) /\ reader'.first.yesterday = y
    BY <1>1
<1>8. CountedNow' = Cardinality(B) /\ YesterdayNow' = y
    BY <1>1, <1>7 DEF CountedNow, YesterdayNow, B, y
<1> QED
    BY <1>4, <1>5, <1>6, <1>7, <1>8 DEF StatsOK

LEMMA StatementOK ==
    ASSUME TableOK, ReaderOK, StatsOK, StatsBlocked \/ StatsCached \/ StatsYesterday
    PROVE  reader' \in StatsReader /\ StatsOK'
<1>1. reader \in StatsReader /\ reader.kind = "stats"
    BY DEF StatsBlocked, StatsCached, StatsYesterday, Statement, ReaderOK, OtherKinds, CursorReader, OffsetReader
<1>2. UNCHANGED <<clock, query_log>>
    BY DEF StatsBlocked, StatsCached, StatsYesterday, Statement, ReadOnly
<1>3. /\ reader.total - reader.first.others - reader.left <= CountedNow
      /\ CountedNow <= reader.total - reader.first.others + reader.came
      /\ YesterdayNow <= reader.first.yesterday + reader.left + reader.came
    BY <1>1, Zenon DEF StatsOK
<1>4. ASSUME /\ reader'.total = reader.total /\ reader'.first = reader.first /\ reader'.came = reader.came
             /\ reader'.left = reader.left
             /\ CountedNow' = CountedNow /\ YesterdayNow' = YesterdayNow
      PROVE  StatsOK'
    BY <1>3, <1>4 DEF StatsOK
<1>5. CASE StatsBlocked
  <2> DEFINE B == Having(query_log, clock, {"blocked", "cached"})
             C == Having(query_log, clock, {"cached"})
             b == Blocked(query_log, clock)
             D == {id \in Window(query_log, clock) : query_log[id].status = "blocked"}
  <2>1. reader.place = "blocked" /\ reader' = [reader EXCEPT !.place = "cached", !.blocked = b]
    BY <1>5, Zenon DEF StatsBlocked, Statement
  <2>2. B = D \cup C /\ D \cap C = {}
    BY Zenon DEF Having
  <2>3. IsFiniteSet(B) /\ b = Cardinality(D)
    BY HavingFinite DEF Blocked
  <2> HIDE DEF B, C, D, b
  <2>4. Cardinality(B) = b + Cardinality(C) /\ b \in Nat
    <3>1. IsFiniteSet(B)
      BY <2>3
    <3>2. Cardinality(B) = Cardinality(D) + Cardinality(C) /\ Cardinality(D) \in Nat
      BY <2>2, <3>1, Parted
    <3> QED
      BY <2>3, <3>2
  <2>5. reader' \in StatsReader
    BY <1>1, <2>1, <2>4, Zenon DEF StatsReader
  <2>6. /\ reader'.total = reader.total /\ reader'.first = reader.first /\ reader'.came = reader.came
        /\ reader'.left = reader.left /\ reader'.place = "cached" /\ reader'.blocked = b
    BY <1>1, <2>1 DEF StatsReader
  <2>7. CountedNow' = CountedNow
    BY <1>2, <2>1, <2>4, <2>6, Zenon DEF CountedNow, B, C
  <2>8. YesterdayNow' = YesterdayNow
    BY <1>2, <2>1, <2>6, Zenon DEF YesterdayNow
  <2> QED
    BY <1>4, <2>5, <2>6, <2>7, <2>8, Zenon
<1>6. CASE StatsCached
  <2> DEFINE n == Cached(query_log, clock)
  <2>1. reader.place = "cached" /\ reader' = [reader EXCEPT !.place = "yesterday", !.cached = n]
    BY <1>6, Zenon DEF StatsCached, Statement
  <2>2. n = Cardinality(Having(query_log, clock, {"cached"}))
    BY DEF Cached, Having
  <2>3. n \in Nat
    BY <2>2, HavingFinite
  <2> HIDE DEF n
  <2>4. reader' \in StatsReader
    BY <1>1, <2>1, <2>3, Zenon DEF StatsReader
  <2>5. /\ reader'.total = reader.total /\ reader'.first = reader.first /\ reader'.came = reader.came
        /\ reader'.left = reader.left /\ reader'.place = "yesterday" /\ reader'.blocked = reader.blocked
        /\ reader'.cached = n
    BY <1>1, <2>1 DEF StatsReader
  <2>6. CountedNow' = CountedNow
    BY <2>1, <2>2, <2>5 DEF CountedNow
  <2>7. YesterdayNow' = YesterdayNow
    BY <1>2, <2>1, <2>5, Zenon DEF YesterdayNow
  <2> QED
    BY <1>4, <2>4, <2>5, <2>6, <2>7, Zenon
<1>7. CASE StatsYesterday
  <2> DEFINE y == YesterdayTotal(query_log, clock)
  <2>1. reader.place = "yesterday" /\ reader' = [reader EXCEPT !.place = "done", !.yesterday = y]
    BY <1>7, Zenon DEF StatsYesterday, Statement
  <2>2. y = Cardinality(Yesterday(query_log, clock)) /\ y \in Nat
    BY YesterdayFinite DEF YesterdayTotal
  <2> HIDE DEF y
  <2>3. reader' \in StatsReader
    BY <1>1, <2>1, <2>2, Zenon DEF StatsReader
  <2>4. /\ reader'.total = reader.total /\ reader'.first = reader.first /\ reader'.came = reader.came
        /\ reader'.left = reader.left /\ reader'.place = "done" /\ reader'.blocked = reader.blocked
        /\ reader'.cached = reader.cached /\ reader'.yesterday = y
    BY <1>1, <2>1 DEF StatsReader
  <2>5. CountedNow' = CountedNow /\ YesterdayNow' = YesterdayNow
    BY <2>1, <2>2, <2>4 DEF CountedNow, YesterdayNow
  <2> QED
    BY <1>4, <2>3, <2>4, <2>5, Zenon
<1> QED
    BY <1>5, <1>6, <1>7

-----------------------------------------------------------------------------
(* Pages by offset *)

\* The rows that come before a row in the order of the pages.
Before(table, ids, id) == {b \in ids : table[b].time > table[id].time}

OffsetOK ==
    reader.kind = "offset" =>
        LET ids == Matching(query_log, clock, reader.want)
            missed == reader.stay \ reader.seen
        IN /\ reader.stay \subseteq ids
           /\ (~reader.lost /\ ~reader.tied) =>
                 /\ reader.place = "rows" =>
                       \A id \in missed : Cardinality(Before(query_log, ids, id)) >= reader.offset
                 /\ reader.place = "count" =>
                       /\ \A id \in missed :
                             Cardinality(Before(query_log, ids, id)) >= reader.offset + reader.returned
                       /\ reader.returned = 0 => missed = {}
                 /\ reader.place = "done" => missed = {}

\* Without ties, the row in place p has p - 1 rows before it.
LEMMA PlaceInOrder ==
    ASSUME TableOK, NEW ids \in SUBSET Ids, ~Tied(ids), NEW order \in Orders(ids),
           NEW p \in 1..Len(order)
    PROVE  Cardinality(Before(query_log, ids, order[p])) = p - 1
<1> DEFINE B == Before(query_log, ids, order[p])
           f == [i \in 1..(p - 1) |-> order[i]]
<1>1. order \in Listings(ids) /\ IsFiniteSet(ids)
    BY PartsFinite DEF Orders
<1>2. /\ order \in Seq(ids) /\ Len(order) \in Nat
      /\ \A i, j \in 1..Len(order) : i # j => order[i] # order[j]
      /\ \A x \in ids : \E i \in 1..Len(order) : order[i] = x
    BY <1>1, Enumeration
<1>3. \A i \in 1..Len(order) : order[i] \in ids
    BY <1>2, ElementOfSeq, Zenon
<1>4. \A i, j \in 1..Len(order) : i < j => query_log[order[i]].time >= query_log[order[j]].time
    BY DEF Orders
<1>5. \A x \in ids : query_log[x].time \in Nat
    BY TableTypes
<1>6. p \in Nat /\ p - 1 \in Nat /\ \A i \in 1..(p - 1) : i \in 1..Len(order) /\ i < p
    BY <1>2
<1>7. ASSUME NEW i \in 1..(p - 1) PROVE order[i] \in B
  <2>1. i \in 1..Len(order) /\ i < p /\ i # p
    BY <1>6
  <2>2. query_log[order[i]].time # query_log[order[p]].time
    BY <1>2, <1>3, <2>1, Zenon DEF Tied
  <2>3. query_log[order[i]].time > query_log[order[p]].time
    BY <1>3, <1>4, <1>5, <2>1, <2>2
  <2> QED
    BY <1>3, <2>1, <2>3 DEF Before
<1>8. ASSUME NEW b \in B PROVE \E i \in 1..(p - 1) : order[i] = b
  <2>1. b \in ids /\ query_log[b].time > query_log[order[p]].time
    BY DEF Before
  <2>2. PICK i \in 1..Len(order) : order[i] = b
    BY <1>2, <2>1, Zenon
  <2>3. ~(p < i)
    BY <1>3, <1>4, <1>5, <2>1, <2>2
  <2>4. i # p
    BY <1>3, <1>5, <2>1, <2>2
  <2>5. i \in 1..(p - 1)
    BY <1>2, <2>3, <2>4
  <2> QED
    BY <2>2, <2>5
<1>9. \A i, j \in 1..(p - 1) : i # j => order[i] # order[j]
    BY <1>2, <1>6
<1> HIDE DEF B
<1>10. f \in [1..(p - 1) -> B]
    BY <1>7
<1>11. f \in Bijection(1..(p - 1), B)
    BY <1>8, <1>9, <1>10 DEF Bijection, Injection, Surjection, IsInjective
<1>12. ExistsBijection(1..(p - 1), B)
    BY <1>11 DEF ExistsBijection
<1>13. Cardinality(B) = p - 1
    BY <1>6, <1>12, FS_CountingElements
<1> QED
    BY <1>13, Zenon DEF B

LEMMA BeforeFinite ==
    ASSUME TableOK, NEW ids \in SUBSET Ids, NEW id
    PROVE  IsFiniteSet(Before(query_log, ids, id)) /\ Cardinality(Before(query_log, ids, id)) \in Nat
<1>1. Before(query_log, ids, id) \in SUBSET Ids
    BY DEF Before
<1> QED
    BY <1>1, PartsFinite

LEMMA IsOffsetReader ==
    ASSUME ReaderOK, reader.kind = "offset"
    PROVE  reader \in OffsetReader
BY Zenon DEF ReaderOK, OtherKinds, CursorReader, StatsReader

LEMMA OffsetMoves ==
    ASSUME TableOK, TableOK', Moves, OffsetOK, ReaderOK, reader.kind = "offset"
    PROVE  OffsetOK'
<1> DEFINE ids == Matching(query_log, clock, reader.want)
           after == Matching(query_log', clock', reader.want)
           Bef(id) == Cardinality(Before(query_log, ids, id))
           BefP(id) == Cardinality(Before(query_log', after, id))
           off == reader.offset
           ret == reader.returned
<1>1. reader \in OffsetReader
    BY IsOffsetReader
<1>2. reader' = [reader EXCEPT !.stay = @ \cap after, !.lost = @ \/ ~(ids \subseteq after)]
    BY DEF Moves, Follow
<1>3. /\ reader'.want = reader.want /\ reader'.stay = reader.stay \cap after /\ reader'.seen = reader.seen
      /\ reader'.place = reader.place /\ reader'.offset = off /\ reader'.returned = ret
      /\ reader'.tied = reader.tied /\ reader'.lost = (reader.lost \/ ~(ids \subseteq after))
  <2> HIDE DEF ids, after
  <2> QED
    BY <1>1, <1>2 DEF OffsetReader
<1>4. off \in Nat /\ ret \in Nat
    BY <1>1, Zenon DEF OffsetReader
<1>5. reader.stay \subseteq ids
    BY DEF OffsetOK
<1>6. ids \in SUBSET Ids
    BY Zenon DEF Matching, Ids
<1>7. ASSUME ids \subseteq after, NEW id \in reader.stay
      PROVE  Bef(id) \in Nat /\ BefP(id) \in Nat /\ Bef(id) <= BefP(id)
  <2>1. \A x \in ids : query_log'[x] = query_log[x]
    BY <1>7 DEF Moves, Matching
  <2>2. id \in ids
    BY <1>5, Zenon
  <2>3. Before(query_log, ids, id) \subseteq Before(query_log', after, id)
    BY <1>7, <2>1, <2>2 DEF Before
  <2>4. IsFiniteSet(Before(query_log', after, id))
    <3>1. Before(query_log', after, id) \subseteq DOMAIN query_log'
      BY DEF Before, Matching
    <3>2. DOMAIN query_log' \subseteq 1..(next_id' - 1) /\ next_id' \in Int
      BY Limits DEF TableOK, Ids
    <3>3. IsFiniteSet(1..(next_id' - 1))
      BY <3>2, FS_Interval
    <3> HIDE DEF after
    <3>4. Before(query_log', after, id) \subseteq 1..(next_id' - 1)
      BY <3>1, <3>2, Zenon
    <3> QED
      BY <3>3, <3>4, FS_Subset, Zenon
  <2>5. Bef(id) <= BefP(id)
    BY <2>3, <2>4, FS_Subset, Zenon
  <2>6. Bef(id) \in Nat
    BY <1>6, BeforeFinite
  <2>7. BefP(id) \in Nat
    BY <2>4, FS_CardinalityType, Zenon
  <2> QED
    BY <2>5, <2>6, <2>7, Zenon
<1> HIDE DEF off, ret
<1>8. ASSUME ~reader'.lost, ~reader'.tied
      PROVE  /\ ids \subseteq after /\ ~reader.lost /\ ~reader.tied
             /\ reader'.stay \ reader'.seen \subseteq reader.stay \ reader.seen
             /\ reader.place = "rows" => \A id \in reader.stay \ reader.seen : Bef(id) >= off
             /\ reader.place = "count" => /\ \A id \in reader.stay \ reader.seen : Bef(id) >= off + ret
                                          /\ ret = 0 => reader.stay \ reader.seen = {}
             /\ reader.place = "done" => reader.stay \ reader.seen = {}
  <2>1. ids \subseteq after /\ ~reader.lost /\ ~reader.tied
    <3> HIDE DEF ids, after
    <3> QED
      BY <1>3, <1>8, Zenon
  <2>2. reader'.stay \ reader'.seen \subseteq reader.stay \ reader.seen
    BY <1>3
  <2> QED
    BY <2>1, <2>2 DEF OffsetOK, off, ret
<1>9. ASSUME ~reader'.lost, ~reader'.tied, NEW n \in Nat,
             \A id \in reader.stay \ reader.seen : Bef(id) >= n
      PROVE  \A id \in reader'.stay \ reader'.seen : BefP(id) >= n
  <2>1. ids \subseteq after /\ reader'.stay \ reader'.seen \subseteq reader.stay \ reader.seen
    BY <1>8, <1>9
  <2> SUFFICES ASSUME NEW id \in reader'.stay \ reader'.seen PROVE BefP(id) >= n
    OBVIOUS
  <2>2. id \in reader.stay /\ Bef(id) >= n
    BY <1>9, <2>1, Zenon
  <2>3. Bef(id) \in Nat /\ BefP(id) \in Nat /\ Bef(id) <= BefP(id)
    BY <1>7, <2>1, <2>2
  <2> HIDE DEF Bef, BefP
  <2> QED
    BY <2>2, <2>3
<1>10. off + ret \in Nat
    BY <1>4
<1>11. reader'.stay \subseteq after
    BY <1>3, Zenon
<1>12. ASSUME ~reader'.lost, ~reader'.tied
       PROVE  /\ reader'.place = "rows" => \A id \in reader'.stay \ reader'.seen : BefP(id) >= off
              /\ reader'.place = "count" => /\ \A id \in reader'.stay \ reader'.seen : BefP(id) >= off + ret
                                            /\ ret = 0 => reader'.stay \ reader'.seen = {}
              /\ reader'.place = "done" => reader'.stay \ reader'.seen = {}
  <2>1. reader'.place = reader.place
    BY <1>3
  <2>2. CASE reader.place = "rows"
    <3>1. \A id \in reader.stay \ reader.seen : Bef(id) >= off
      BY <1>8, <1>12, <2>2, Zenon
    <3> HIDE DEF Bef, BefP
    <3>2. \A id \in reader'.stay \ reader'.seen : BefP(id) >= off
      BY <1>4, <1>9, <1>12, <3>1
    <3> QED
      BY <2>1, <2>2, <3>2, Zenon
  <2>3. CASE reader.place = "count"
    <3>1. /\ \A id \in reader.stay \ reader.seen : Bef(id) >= off + ret
          /\ ret = 0 => reader'.stay \ reader'.seen = {}
      BY <1>8, <1>12, <2>3
    <3> HIDE DEF Bef, BefP
    <3>2. \A id \in reader'.stay \ reader'.seen : BefP(id) >= off + ret
      BY <1>9, <1>10, <1>12, <3>1, Zenon
    <3> QED
      BY <2>1, <2>3, <3>1, <3>2, Zenon
  <2>4. CASE reader.place = "done"
    BY <1>8, <1>12, <2>1, <2>4, Zenon
  <2>5. reader.place \in {"rows", "count", "done"}
    BY <1>1 DEF OffsetReader
  <2> QED
    BY <2>2, <2>3, <2>4, <2>5, Zenon
<1> QED
    BY <1>3, <1>11, <1>12 DEF OffsetOK

LEMMA StartOffsetOK ==
    ASSUME TableOK, NEW want \in Wants, StartOffset(want)
    PROVE  reader' \in OffsetReader /\ OffsetOK'
<1> DEFINE ids == Matching(query_log, clock, want)
<1>1. /\ reader' = [kind |-> "offset", want |-> want, offset |-> 0, returned |-> 0,
                    place |-> "rows", seen |-> {}, lost |-> FALSE, tied |-> FALSE, stay |-> ids]
      /\ UNCHANGED <<clock, query_log>>
    BY DEF StartOffset, ReadOnly
<1>2. ids \in SUBSET Ids
    BY DEF Matching, Ids
<1>3. ids \in SUBSET Nat
    BY <1>2, TableTypes, Zenon
<1>4. \A id \in ids : Cardinality(Before(query_log, ids, id)) >= 0
  <2>1. \A id \in ids : Cardinality(Before(query_log, ids, id)) \in Nat
    BY <1>2, BeforeFinite, Zenon
  <2> QED
    BY <2>1
<1>5. reader' \in OffsetReader
    BY <1>1, <1>3, Zenon DEF OffsetReader
<1> QED
    BY <1>1, <1>4, <1>5, Zenon DEF OffsetOK

\* The rows of a page: those in the places offset + 1 to offset + limit.
LEMMA PageRows ==
    ASSUME NEW S, NEW order \in Seq(S), NEW limit \in Nat, NEW offset \in Nat,
           NEW page, page = Page(order, limit, offset)
    PROVE  /\ page \in Seq(S) /\ Len(page) \in Nat
           /\ offset >= Len(order) => Len(page) = 0
           /\ \A p \in 1..Len(order) : (p > offset /\ order[p] \notin Range(page)) => p > offset + limit
           /\ offset + limit < Len(order) => Len(page) = limit
           /\ (offset < Len(order) /\ limit >= 1) => Len(page) >= 1
<1> DEFINE n == Len(order)
           m == Min({n, offset + limit})
<1>1. n \in Nat /\ offset + limit \in Nat
    BY LenProperties
<1>2. m = IF n <= offset + limit THEN n ELSE offset + limit
    BY <1>1, MinOfTwo
<1> HIDE DEF m
<1>3. m \in Nat /\ m <= n /\ m <= offset + limit
    BY <1>1, <1>2
<1>4. page = SubSeq(order, offset + 1, m)
    BY DEF Page, m
<1>5. \A i \in (offset + 1)..m : order[i] \in S
  <2>1. \A i \in (offset + 1)..m : i \in 1..n
    BY <1>1, <1>3
  <2> QED
    BY <2>1, ElementOfSeq
<1>6. /\ page \in Seq(S)
      /\ Len(page) = (IF offset + 1 <= m THEN m - (offset + 1) + 1 ELSE 0)
      /\ \A i \in 1..(m - (offset + 1) + 1) : page[i] = order[(offset + 1) + i - 1]
    BY <1>3, <1>4, <1>5, SubSeqProperties
<1>7. Len(page) = (IF offset < m THEN m - offset ELSE 0)
    BY <1>3, <1>6
<1>8. ASSUME NEW p \in 1..n, p > offset, order[p] \notin Range(page)
      PROVE  p > offset + limit
  <2>1. SUFFICES ASSUME p <= m PROVE FALSE
    BY <1>1, <1>2, <1>3
  <2> DEFINE i == p - offset
  <2>2. i \in 1..(m - (offset + 1) + 1) /\ i \in 1..Len(page) /\ (offset + 1) + i - 1 = p
    BY <1>1, <1>3, <1>7, <1>8, <2>1
  <2> HIDE DEF i
  <2>3. page[i] = order[p]
    BY <1>6, <2>2, Zenon
  <2>4. page[i] \in Range(page)
    BY <1>6, <2>2, SetOfSeq
  <2> QED
    BY <1>8, <2>3, <2>4
<1>9. Len(page) \in Nat
    BY <1>3, <1>7
<1> HIDE DEF n
<1>10. n = Len(order)
    BY DEF n
<1>11. /\ offset >= n => Len(page) = 0
       /\ offset + limit < n => Len(page) = limit
       /\ (offset < n /\ limit >= 1) => Len(page) >= 1
  <2>1. offset >= n => Len(page) = 0
    BY <1>1, <1>3, <1>7
  <2>2. offset + limit < n => Len(page) = limit
    BY <1>1, <1>2, <1>7
  <2>3. (offset < n /\ limit >= 1) => Len(page) >= 1
    BY <1>1, <1>2, <1>3, <1>7
  <2> QED
    BY <2>1, <2>2, <2>3, Zenon
<1> QED
    BY <1>6, <1>8, <1>9, <1>10, <1>11, Zenon

LEMMA OffsetRowsOK ==
    ASSUME TableOK, ReaderOK, OffsetOK, OffsetRows
    PROVE  reader' \in OffsetReader /\ OffsetOK'
<1> DEFINE ids == Matching(query_log, clock, reader.want)
           lim == reader.want.limit
           off == reader.offset
<1>1. reader \in OffsetReader /\ reader.kind = "offset" /\ reader.place = "rows"
    BY IsOffsetReader DEF OffsetRows
<1>2. PICK order \in Orders(ids) :
          LET page == Page(order, lim, off)
          IN reader' = [reader EXCEPT
                           !.seen = @ \cup Range(page), !.returned = Len(page),
                           !.tied = @ \/ Tied(ids), !.place = "count"]
    BY Zenon DEF OffsetRows
<1> DEFINE page == Page(order, lim, off)
           n == Len(order)
           ret == Len(page)
<1>3. UNCHANGED <<clock, query_log>>
    BY DEF OffsetRows, ReadOnly
<1>4. ids \in SUBSET Ids
    BY DEF Matching, Ids
<1>5. IsFiniteSet(ids) /\ ids \in SUBSET Nat
    BY <1>4, PartsFinite, TableTypes, Zenon
<1>6. lim \in Nat /\ lim >= 1 /\ off \in Nat
  <2>1. reader.want \in Wants /\ off \in Nat
    BY <1>1 DEF OffsetReader
  <2> QED
    BY <2>1, WantLimit
<1>7. order \in Listings(ids)
    BY DEF Orders
<1>8. order \in Seq(ids) /\ n \in Nat /\ \A x \in ids : \E i \in 1..n : order[i] = x
    BY <1>5, <1>7, Enumeration
<1> HIDE DEF lim
<1>9. /\ page \in Seq(ids) /\ ret \in Nat
      /\ \A p \in 1..n : (p > off /\ order[p] \notin Range(page)) => p > off + lim
      /\ off + lim < n => ret = lim
      /\ (off < n /\ lim >= 1) => ret >= 1
  <2> HIDE DEF ids, off, page
  <2> QED
    BY <1>6, <1>8, PageRows, Zenon DEF page
<1>10. Range(page) \in SUBSET Nat
  <2> HIDE DEF page
  <2> QED
    BY <1>5, <1>9, SetOfSeq
<1>11. reader' = [reader EXCEPT !.seen = @ \cup Range(page), !.returned = ret,
                                !.tied = @ \/ Tied(ids), !.place = "count"]
    BY <1>2 DEF lim
<1>12. Tied(ids) \in BOOLEAN
    BY DEF Tied
<1> HIDE DEF page, ret
<1>13. reader' \in OffsetReader
    BY <1>1, <1>9, <1>10, <1>11, <1>12, ZenonT(30) DEF OffsetReader
<1>14. /\ reader'.want = reader.want /\ reader'.stay = reader.stay /\ reader'.seen = reader.seen \cup Range(page)
       /\ reader'.returned = ret /\ reader'.tied = (reader.tied \/ Tied(ids)) /\ reader'.lost = reader.lost
       /\ reader'.place = "count" /\ reader'.offset = off
    BY <1>1, <1>11, Zenon DEF OffsetReader
<1>15. reader.stay \subseteq ids
    BY <1>1, Zenon DEF OffsetOK
<1>16. ASSUME ~reader.lost, ~reader.tied, ~Tied(ids), NEW id \in reader.stay \ (reader.seen \cup Range(page))
       PROVE  Cardinality(Before(query_log, ids, id)) >= off + ret /\ ret # 0
  <2>1. Cardinality(Before(query_log, ids, id)) >= off
    BY <1>1, <1>16, Zenon DEF OffsetOK
  <2>2. PICK p \in 1..n : order[p] = id
    BY <1>8, <1>15, <1>16, Zenon
  <2>3. Cardinality(Before(query_log, ids, id)) = p - 1
    <3> HIDE DEF ids
    <3> QED
      BY <1>4, <1>16, <2>2, PlaceInOrder, Zenon
  <2>4. p \in Nat /\ p <= n /\ p > off
    BY <1>6, <1>8, <2>1, <2>3
  <2>5. p > off + lim
    BY <1>9, <1>16, <2>2, <2>4
  <2>6. off + lim < n
    BY <1>6, <1>8, <2>4, <2>5
  <2>7. ret = lim
    BY <1>9, <2>6
  <2> QED
    BY <1>6, <2>3, <2>4, <2>5, <2>7
<1>17. (~reader'.lost /\ ~reader'.tied) =>
           /\ \A id \in reader'.stay \ reader'.seen : Cardinality(Before(query_log, ids, id)) >= off + ret
           /\ ret = 0 => reader'.stay \ reader'.seen = {}
    BY <1>14, <1>16, Zenon
<1> QED
    BY <1>3, <1>13, <1>14, <1>15, <1>17, Zenon DEF OffsetOK

LEMMA OffsetCountOK ==
    ASSUME TableOK, ReaderOK, OffsetOK, OffsetCount
    PROVE  reader' \in OffsetReader /\ OffsetOK'
<1> DEFINE ids == Matching(query_log, clock, reader.want)
           total == Cardinality(ids)
           off == reader.offset
           ret == reader.returned
           next == off + ret
           place == IF ret > 0 /\ next < total THEN "rows" ELSE "done"
<1>1. reader \in OffsetReader /\ reader.kind = "offset" /\ reader.place = "count"
    BY IsOffsetReader DEF OffsetCount
<1>2. reader' = [reader EXCEPT !.offset = next, !.place = place] /\ UNCHANGED <<clock, query_log>>
    BY DEF OffsetCount, ReadOnly
<1>3. off \in Nat /\ ret \in Nat
    BY <1>1 DEF OffsetReader
<1>4. next \in Nat
    BY <1>3
<1>5. place \in {"rows", "count", "done"}
    OBVIOUS
<1>6. ids \in SUBSET Ids
    BY DEF Matching, Ids
<1>7. IsFiniteSet(ids) /\ total \in Nat
    BY <1>6, PartsFinite
<1>8. reader' \in OffsetReader
  <2> HIDE DEF next, place
  <2> QED
    BY <1>1, <1>2, <1>4, <1>5, Zenon DEF OffsetReader
<1>9. /\ reader'.want = reader.want /\ reader'.stay = reader.stay /\ reader'.seen = reader.seen
      /\ reader'.tied = reader.tied /\ reader'.lost = reader.lost
      /\ reader'.place = place /\ reader'.offset = next
  <2> HIDE DEF next, place
  <2> QED
    BY <1>1, <1>2, Zenon DEF OffsetReader
<1>10. reader.stay \subseteq ids
    BY <1>1, Zenon DEF OffsetOK
<1>11. ASSUME ~reader.lost, ~reader.tied
       PROVE  /\ \A id \in reader.stay \ reader.seen : Cardinality(Before(query_log, ids, id)) >= next
              /\ ret = 0 => reader.stay \ reader.seen = {}
    BY <1>1, <1>11, Zenon DEF OffsetOK
<1>12. ASSUME NEW id \in reader.stay
       PROVE  Cardinality(Before(query_log, ids, id)) \in Nat /\ Cardinality(Before(query_log, ids, id)) < total
  <2> DEFINE B == Before(query_log, ids, id)
  <2>1. id \in ids /\ query_log[id].time \in Nat
    BY <1>6, <1>10, TableTypes, Zenon
  <2>2. B \subseteq ids \ {id}
    BY <2>1 DEF Before
  <2>3. IsFiniteSet(ids \ {id}) /\ Cardinality(ids \ {id}) = total - 1
    BY <1>7, <2>1, FS_RemoveElement, Zenon
  <2>4. Cardinality(B) <= total - 1
    <3> HIDE DEF B
    <3> QED
      BY <2>2, <2>3, FS_Subset
  <2>5. Cardinality(B) \in Nat
    BY <1>6, BeforeFinite, Zenon
  <2> HIDE DEF B, total
  <2>6. Cardinality(B) < total
    BY <1>7, <2>4, <2>5
  <2> QED
    BY <2>5, <2>6, Zenon DEF B
<1>13. ASSUME ~reader.lost, ~reader.tied, place = "done"
       PROVE  reader.stay \ reader.seen = {}
  <2>1. CASE ret = 0
    BY <1>11, <1>13, <2>1, Zenon
  <2>2. CASE ret # 0
    <3>1. ~(next < total)
      BY <1>3, <1>13, <2>2
    <3>2. SUFFICES ASSUME NEW id \in reader.stay \ reader.seen PROVE FALSE
      BY Zenon
    <3>3. Cardinality(Before(query_log, ids, id)) >= next
      BY <1>11, <1>13, Zenon
    <3>4. Cardinality(Before(query_log, ids, id)) \in Nat /\ Cardinality(Before(query_log, ids, id)) < total
      BY <1>12
    <3> HIDE DEF next, total, ids
    <3> QED
      BY <1>4, <1>7, <3>1, <3>3, <3>4
  <2> QED
    BY <2>1, <2>2, Zenon
<1>14. place # "count"
    BY Zenon
<1> HIDE DEF next, place
<1> QED
    BY <1>2, <1>8, <1>9, <1>10, <1>11, <1>13, <1>14 DEF OffsetOK

-----------------------------------------------------------------------------
(* The invariant, step by step *)

ReadsInv == TableOK /\ AlertsOK /\ ReaderOK /\ CursorOK /\ StatsOK /\ OffsetOK

LEMMA StartCursorOK ==
    ASSUME TableOK, NEW want \in Wants, NEW cursor \in Cursors, StartCursor(want, cursor)
    PROVE  reader' \in CursorReader /\ CursorOK'
<1> DEFINE S == Below(cursor, Matching(query_log, clock, want))
<1>1. /\ reader' = [kind |-> "cursor", want |-> want, cursor |-> cursor, more |-> TRUE, seen |-> <<>>, stay |-> S]
      /\ UNCHANGED <<clock, query_log>>
    BY DEF StartCursor, ReadOnly
<1>2. S \subseteq Matching(query_log, clock, want) /\ S \in SUBSET Ids /\ \A id \in S : id < cursor
    BY Zenon DEF Below, Matching, Ids
<1>3. S \in SUBSET Nat /\ cursor \in Int
    BY <1>2, TableTypes, Limits, Zenon
<1> HIDE DEF S
<1>4. reader' \in CursorReader
    BY <1>1, <1>3 DEF CursorReader
<1>5. Len(<<>>) = 0
    OBVIOUS
<1>6. 1..0 = {}
    OBVIOUS
<1> QED
    BY <1>1, <1>2, <1>4, <1>5, <1>6, Zenon DEF CursorOK

\* A step of the log.
LEMMA LogInv ==
    ASSUME ReadsInv, Log
    PROVE  ReadsInv'
<1>1. TableOK /\ AlertsOK /\ ReaderOK /\ CursorOK /\ StatsOK /\ OffsetOK
    BY DEF ReadsInv
<1>2. TableOK' /\ Moves
    BY <1>1, LogMoves, Zenon
<1>3. ReaderOK' /\ reader'.kind = reader.kind
    BY <1>1, <1>2, MovesReader, Zenon
<1>4. AlertsOK'
  <2>1. alerts' = alerts /\ clock' \in {clock, clock + 1} /\ clock \in Nat
    BY <1>1, <1>2, TableTypes, Zenon DEF Moves
  <2>2. \A i \in 1..Len(alerts) : alerts[i] \in Nat /\ alerts[i] <= clock
    BY <1>1, ElementOfSeq, Zenon DEF AlertsOK
  <2>3. \A i \in 1..Len(alerts) : alerts[i] <= clock'
    BY <2>1, <2>2
  <2>4. reader.kind = "anomalies" => reader' = reader
    BY <1>2, Zenon DEF Moves, Follow
  <2> QED
    BY <1>1, <1>3, <2>1, <2>3, <2>4, Zenon DEF AlertsOK
<1>5. CursorOK'
  <2>1. CASE reader.kind = "cursor"
    BY <1>1, <1>2, <2>1, CursorMoves, Zenon
  <2> QED
    BY <1>3, <2>1 DEF CursorOK
<1>6. StatsOK'
  <2>1. CASE reader.kind = "stats"
    BY <1>1, <1>2, <2>1, StatsMoves, Zenon
  <2> QED
    BY <1>3, <2>1 DEF StatsOK
<1>7. OffsetOK'
  <2>1. CASE reader.kind = "offset"
    BY <1>1, <1>2, <2>1, OffsetMoves, Zenon
  <2> QED
    BY <1>3, <2>1 DEF OffsetOK
<1> QED
    BY <1>2, <1>3, <1>4, <1>5, <1>6, <1>7, Zenon DEF ReadsInv

\* A step that only reads.
LEMMA ReadOnlyKeeps ==
    ASSUME ReadsInv, ReadOnly, reader'.kind # "anomalies"
    PROVE  TableOK' /\ AlertsOK'
<1>1. TableOK'
    BY Zenon DEF ReadsInv, TableOK, Ids, ReadOnly
<1> QED
    BY <1>1 DEF ReadsInv, AlertsOK, ReadOnly

LEMMA OtherKeeps ==
    ASSUME reader'.kind \in OtherKinds
    PROVE  ReaderOK' /\ CursorOK' /\ StatsOK' /\ OffsetOK'
BY DEF ReaderOK, CursorOK, StatsOK, OffsetOK, OtherKinds

LEMMA ListInv ==
    ASSUME ReadsInv, List
    PROVE  ReadsInv'
<1>1. TableOK /\ ReaderOK /\ CursorOK /\ OffsetOK
    BY DEF ReadsInv
<1>2. ReadOnly
    BY Zenon DEF List, StartCursor, CursorPage, StartOffset, OffsetRows, OffsetCount
<1>3. \/ reader' \in CursorReader /\ CursorOK'
      \/ reader' \in OffsetReader /\ OffsetOK'
  <2>1. ASSUME NEW want \in Wants, NEW cursor \in Cursors, StartCursor(want, cursor)
        PROVE  reader' \in CursorReader /\ CursorOK'
    BY <1>1, <2>1, StartCursorOK
  <2>2. CASE CursorPage
    BY <1>1, <2>2, CursorPageOK
  <2>3. ASSUME NEW want \in Wants, StartOffset(want) PROVE reader' \in OffsetReader /\ OffsetOK'
    BY <1>1, <2>3, StartOffsetOK
  <2>4. CASE OffsetRows
    BY <1>1, <2>4, OffsetRowsOK
  <2>5. CASE OffsetCount
    BY <1>1, <2>5, OffsetCountOK
  <2> QED
    BY <2>1, <2>2, <2>3, <2>4, <2>5, Zenon DEF List
<1>4. CASE reader' \in CursorReader /\ CursorOK'
  <2>1. reader'.kind = "cursor"
    BY <1>4 DEF CursorReader
  <2>2. TableOK' /\ AlertsOK'
    BY <1>2, <2>1, ReadOnlyKeeps, Zenon
  <2>3. ReaderOK'
    BY <1>4, Zenon DEF ReaderOK
  <2>4. StatsOK' /\ OffsetOK'
    BY <2>1 DEF StatsOK, OffsetOK
  <2> QED
    BY <1>4, <2>2, <2>3, <2>4, Zenon DEF ReadsInv
<1>5. CASE reader' \in OffsetReader /\ OffsetOK'
  <2>1. reader'.kind = "offset"
    BY <1>5 DEF OffsetReader
  <2>2. TableOK' /\ AlertsOK'
    BY <1>2, <2>1, ReadOnlyKeeps
  <2>3. ReaderOK'
    BY <1>5, Zenon DEF ReaderOK
  <2>4. StatsOK' /\ CursorOK'
    BY <2>1 DEF StatsOK, CursorOK
  <2> QED
    BY <1>5, <2>2, <2>3, <2>4, Zenon DEF ReadsInv
<1> QED
    BY <1>3, <1>4, <1>5, Zenon

LEMMA CountsInv ==
    ASSUME ReadsInv, Counts
    PROVE  ReadsInv'
<1>1. TableOK /\ AlertsOK /\ ReaderOK /\ StatsOK
    BY DEF ReadsInv
<1>2. ASSUME reader' \in StatsReader, StatsOK', ReadOnly PROVE ReadsInv'
  <2>1. reader'.kind = "stats"
    BY <1>2 DEF StatsReader
  <2>2. TableOK' /\ AlertsOK'
    BY <1>2, <2>1, ReadOnlyKeeps
  <2>3. ReaderOK'
    BY <1>2, Zenon DEF ReaderOK
  <2>4. CursorOK' /\ OffsetOK'
    BY <2>1 DEF CursorOK, OffsetOK
  <2> QED
    BY <1>2, <2>2, <2>3, <2>4, Zenon DEF ReadsInv
<1>3. CASE get_stats
  <2>1. ReadOnly
    BY <1>3 DEF get_stats
  <2> QED
    BY <1>1, <1>2, <1>3, <2>1, GetStatsOK, Zenon
<1>4. CASE StatsBlocked \/ StatsCached \/ StatsYesterday
  <2>1. ReadOnly
    BY <1>4 DEF StatsBlocked, StatsCached, StatsYesterday, Statement
  <2> QED
    BY <1>1, <1>2, <1>4, <2>1, StatementOK, Zenon
<1>5. ASSUME reader'.kind \in OtherKinds, TableOK', AlertsOK' PROVE ReadsInv'
    BY <1>5, OtherKeeps DEF ReadsInv
<1>6. CASE get_anomalies
  <2>1. ReadOnly /\ reader'.kind = "anomalies" /\ Len(alerts) < MaxAlerts
    BY <1>6, Zenon DEF get_anomalies
  <2>2. TableOK'
    BY <1>1, <2>1 DEF TableOK, Ids, ReadOnly
  <2>3. reader' = [field \in {"kind", "place", "n", "sum", "sq_sum"} |-> reader'[field]]
    BY <1>6, Zenon DEF get_anomalies
  <2>4. AlertsOK'
    BY <1>1, <2>1, <2>3 DEF AlertsOK, ReadOnly
  <2> QED
    BY <1>5, <2>1, <2>2, <2>4 DEF OtherKinds
<1>7. CASE AnomalyCurrent
  <2>1. reader.kind = "anomalies" /\ ReadOnly
    BY <1>7 DEF AnomalyCurrent
  <2>2. reader' = [reader EXCEPT !.place = "alert"] \/ reader' = Idle
    BY <1>7, Zenon DEF AnomalyCurrent
  <2>3. /\ reader'.kind \in {"anomalies", "idle"}
        /\ reader'.kind = "anomalies" =>
              reader' = [field \in {"kind", "place", "n", "sum", "sq_sum"} |-> reader'[field]]
    <3>1. reader = [field \in {"kind", "place", "n", "sum", "sq_sum"} |-> reader[field]]
      BY <1>1, <2>1, Zenon DEF AlertsOK
    <3>2. CASE reader' = [reader EXCEPT !.place = "alert"]
      BY <2>1, <3>1, <3>2, Zenon
    <3>3. CASE reader' = Idle
      BY <3>3, Zenon DEF Idle
    <3> QED
      BY <2>2, <3>2, <3>3, Zenon
  <2>4. TableOK'
    BY <1>1, <2>1, Zenon DEF TableOK, Ids, ReadOnly
  <2>5. AlertsOK'
    BY <1>1, <2>1, <2>3 DEF AlertsOK, ReadOnly
  <2> QED
    BY <1>5, <2>3, <2>4, <2>5, Zenon DEF OtherKinds
<1>8. CASE AnomalyAlert
  <2>1. /\ reader.kind = "anomalies" /\ alerts' = Append(alerts, clock) /\ reader' = Idle
        /\ UNCHANGED <<clock, query_log, next_id>>
    BY <1>8 DEF AnomalyAlert, existing
  <2>2. alerts \in Seq(Nat) /\ Len(alerts) < MaxAlerts /\ \A i \in 1..Len(alerts) : alerts[i] <= clock
    BY <1>1, <2>1, Zenon DEF AlertsOK
  <2>3. clock \in Nat /\ Len(alerts) \in Nat
    BY <1>1, <2>2, TableTypes, LenProperties, Zenon
  <2>4. /\ alerts' \in Seq(Nat) /\ Len(alerts') = Len(alerts) + 1 /\ alerts'[Len(alerts) + 1] = clock
        /\ \A i \in 1..Len(alerts) : alerts'[i] = alerts[i]
    BY <2>1, <2>2, <2>3, AppendProperties
  <2>5. Len(alerts') <= MaxAlerts
    BY <2>2, <2>3, <2>4, Limits
  <2>6. \A i \in 1..Len(alerts') : alerts'[i] <= clock'
    <3>1. \A i \in 1..(Len(alerts) + 1) : i \in 1..Len(alerts) \/ i = Len(alerts) + 1
      BY <2>3
    <3>2. clock <= clock
      BY <2>3
    <3> QED
      BY <2>1, <2>2, <2>4, <3>1, <3>2, Zenon
  <2>7. TableOK'
    BY <1>1, <2>1 DEF TableOK, Ids
  <2>8. reader'.kind = "idle"
    BY <2>1 DEF Idle
  <2>9. AlertsOK'
    BY <2>4, <2>5, <2>6, <2>8, Zenon DEF AlertsOK
  <2> QED
    BY <1>5, <2>7, <2>8, <2>9, Zenon DEF OtherKinds
<1> QED
    BY <1>3, <1>4, <1>6, <1>7, <1>8, Zenon DEF Counts

LEMMA FilteredInv ==
    ASSUME ReadsInv, Filtered
    PROVE  ReadsInv'
<1>1. ASSUME NEW answer, NEW meant, NEW plain, Answer(answer, meant, plain) PROVE ReadsInv'
  <2>1. reader'.kind = "answered" /\ ReadOnly
    BY <1>1 DEF Answer
  <2>2. TableOK' /\ AlertsOK'
    BY <2>1, ReadOnlyKeeps
  <2> QED
    BY <2>1, <2>2, OtherKeeps, Zenon DEF ReadsInv, OtherKinds
<1>2. ASSUME NEW fs, NEW ranged, export(fs, ranged) PROVE ReadsInv'
    BY <1>1, <1>2 DEF export
<1>3. ASSUME NEW fs, NEW metric, aggregate(fs, metric) PROVE ReadsInv'
    BY <1>1, <1>3 DEF aggregate
<1>4. ASSUME NEW fs, list_advanced(fs) \/ list_advanced_post(fs) PROVE ReadsInv'
    BY <1>1, <1>4 DEF list_advanced, list_advanced_post
<1>5. ASSUME NEW fs, aggregate_all(fs) PROVE ReadsInv'
    BY <1>1, <1>5 DEF aggregate_all
<1>6. ASSUME top("question") PROVE ReadsInv'
    BY <1>1, <1>6, Zenon DEF top
<1>7. ASSUME NEW prefix, suggest(prefix) PROVE ReadsInv'
    BY <1>1, <1>7, Zenon DEF suggest
<1> QED
    BY <1>2, <1>3, <1>4, <1>5, <1>6, <1>7, Zenon DEF Filtered

LEMMA CloseInv ==
    ASSUME ReadsInv, Close
    PROVE  ReadsInv'
<1>1. reader'.kind = "idle" /\ ReadOnly
    BY DEF Close, Idle
<1>2. TableOK' /\ AlertsOK'
    BY <1>1, ReadOnlyKeeps, Zenon
<1> QED
    BY <1>1, <1>2, OtherKeeps DEF ReadsInv, OtherKinds

LEMMA InitInv == Init => ReadsInv
<1> SUFFICES ASSUME Init PROVE ReadsInv
    OBVIOUS
<1>1. clock = 0 /\ query_log = <<>> /\ next_id = 1 /\ alerts = <<>> /\ reader.kind = "idle"
    BY DEF Init, Idle
<1>2. Ids = {}
    BY <1>1 DEF Ids
<1>3. TableOK
    BY <1>1, <1>2, Limits DEF TableOK
<1>4. AlertsOK
    BY <1>1, Limits DEF AlertsOK
<1> QED
    BY <1>1, <1>3, <1>4, Zenon DEF ReadsInv, ReaderOK, CursorOK, StatsOK, OffsetOK, OtherKinds

LEMMA StutterInv ==
    ASSUME ReadsInv, UNCHANGED vars
    PROVE  ReadsInv'
<1>1. UNCHANGED <<clock, query_log, next_id, alerts, reader>>
    BY DEF vars
<1>2. TableOK' /\ AlertsOK'
    BY <1>1, Zenon DEF ReadsInv, TableOK, AlertsOK, Ids
<1>3. ReaderOK' /\ CursorOK' /\ OffsetOK'
    BY <1>1 DEF ReadsInv, ReaderOK, CursorOK, OffsetOK
<1>4. StatsOK'
    BY <1>1 DEF ReadsInv, StatsOK, CountedNow, YesterdayNow
<1> QED
    BY <1>2, <1>3, <1>4, Zenon DEF ReadsInv

LEMMA Invariance == Spec => []ReadsInv
<1>1. Init => ReadsInv
    BY InitInv
<1>2. ReadsInv /\ [Next]_vars => ReadsInv'
    BY LogInv, ListInv, CountsInv, FilteredInv, CloseInv, StutterInv, Zenon DEF Next
<1> QED
    BY <1>1, <1>2, PTL DEF Spec

-----------------------------------------------------------------------------
(* What a client is told *)

\* Ids stay below the sequence, rows and alerts belong to the past, and get_anomalies,
\* which checks for room once, never stores more alerts than there is room for.
THEOREM TypeCorrect == Spec => []TypeOK
<1>1. ReadsInv => TypeOK
  <2> SUFFICES ASSUME ReadsInv PROVE TypeOK
    BY Zenon
  <2>1. reader.kind \in {"idle", "cursor", "offset", "stats", "anomalies", "answered"}
    BY Zenon DEF ReadsInv, ReaderOK, OtherKinds, CursorReader, OffsetReader, StatsReader
  <2> QED
    BY <2>1 DEF ReadsInv, TableOK, AlertsOK, TypeOK
<1> QED
    BY <1>1, Invariance, PTL

\* Paging by cursor returns every row that matched all along, once and in descending
\* order, whatever is written, deleted or rotated away meanwhile: for every limit, every
\* first cursor and any number of rows.
THEOREM CursorCorrect == Spec => []CursorWalkComplete
<1>1. ReadsInv => CursorWalkComplete
  <2> SUFFICES ASSUME ReadsInv, reader.kind = "cursor"
               PROVE  /\ \A i \in 1..(Len(reader.seen) - 1) : reader.seen[i] > reader.seen[i + 1]
                      /\ ~reader.more => reader.stay \subseteq Range(reader.seen)
    BY Zenon DEF CursorWalkComplete
  <2>1. /\ \A i, j \in 1..Len(reader.seen) : i < j => reader.seen[i] > reader.seen[j]
        /\ ~reader.more => reader.stay \subseteq Range(reader.seen)
    BY DEF ReadsInv, CursorOK
  <2>2. reader.seen \in Seq(Nat)
    BY DEF ReadsInv, ReaderOK, OtherKinds, CursorReader, OffsetReader, StatsReader
  <2>3. Len(reader.seen) \in Nat
    BY <2>2, LenProperties
  <2>4. \A i \in 1..(Len(reader.seen) - 1) : i \in 1..Len(reader.seen) /\ i + 1 \in 1..Len(reader.seen) /\ i < i + 1
    BY <2>3
  <2> QED
    BY <2>1, <2>4, Zenon
<1> QED
    BY <1>1, Invariance, PTL

\* Paging by offset misses a row that matched all along only when a matching row went
\* away meanwhile or rows of one time were ordered by chance: each row missed has at
\* least offset rows before it, and new rows only add to those.
THEOREM OffsetCorrect == Spec => []OffsetMissesOnlyByLoss
<1>1. ReadsInv => OffsetMissesOnlyByLoss
  <2> SUFFICES ASSUME ReadsInv, reader.kind = "offset", reader.place = "done", ~reader.lost, ~reader.tied
               PROVE  reader.stay \subseteq reader.seen
    BY Zenon DEF OffsetMissesOnlyByLoss
  <2>1. reader.stay \ reader.seen = {}
    BY Zenon DEF ReadsInv, OffsetOK
  <2> QED
    BY <2>1
<1> QED
    BY <1>1, Invariance, PTL

\* The counts get_stats takes at four moments add up but for the rows that came and the
\* rows that left in between.
THEOREM StatsCorrect == Spec => []StatsDriftBounded
<1>1. ReadsInv => StatsDriftBounded
  <2> SUFFICES ASSUME ReadsInv, reader.kind = "stats", reader.place = "done"
               PROVE  /\ reader.first.others - reader.came <= allowed(reader)
                      /\ allowed(reader) <= reader.first.others + reader.left
                      /\ reader.yesterday <= reader.first.yesterday + reader.left + reader.came
    BY DEF StatsDriftBounded
  <2>1. reader \in StatsReader
    BY DEF ReadsInv, ReaderOK, OtherKinds, CursorReader, OffsetReader
  <2>2. CountedNow = reader.blocked + reader.cached /\ YesterdayNow = reader.yesterday
    BY Zenon DEF CountedNow, YesterdayNow
  <2>3. /\ reader.total - reader.first.others - reader.left <= reader.blocked + reader.cached
        /\ reader.blocked + reader.cached <= reader.total - reader.first.others + reader.came
        /\ reader.yesterday <= reader.first.yesterday + reader.left + reader.came
    BY <2>2 DEF ReadsInv, StatsOK
  <2>4. /\ reader.total \in Nat /\ reader.first.others \in Nat /\ reader.left \in Nat /\ reader.came \in Nat
        /\ reader.blocked \in Nat /\ reader.cached \in Nat
    BY <2>1 DEF StatsReader
  <2>5. allowed(reader) = reader.total - reader.blocked - reader.cached
    BY DEF allowed
  <2> QED
    BY <2>3, <2>4, <2>5
<1> QED
    BY <1>1, Invariance, PTL
=============================================================================

----------------------- MODULE QueryLogAnswersProofs ------------------------
(***************************************************************************)
(* Proofs about LogFilters and the requests of QueryLogReads that carry    *)
(* filters, for any filters, any number of them and any rows: a statement  *)
(* with numbered placeholders fails or selects the rows its filters speak  *)
(* of.  The conditions and the values to bind are built by loops, so the   *)
(* proofs need induction over the turns of a loop.  It is done with the    *)
(* least turn at which a claim fails.                                      *)
(***************************************************************************)
EXTENDS QueryLogReads, SequenceTheorems, WellFoundedInduction, TLAPS

-----------------------------------------------------------------------------
(* Induction over the turns of a loop, from the least number of a set *)

\* Every set of naturals that is not empty has a least one.
LEMMA NatMin ==
    ASSUME NEW T, T \subseteq Nat, T # {}
    PROVE  \E x \in T : \A y \in T : x <= y
<1> DEFINE R == OpToRel(<, Nat)
<1>1. IsWellFoundedOn(R, Nat)
    BY NatLessThanWellFounded, Zenon
<1>2. \A x, y \in Nat : <<y, x>> \in R <=> y < x
    BY DEF OpToRel
<1> HIDE DEF R
<1>3. \E x \in T : \A y \in T : ~(<<y, x>> \in R)
    BY <1>1, WFMin, Zenon
<1>4. PICK x \in T : \A y \in T : ~(<<y, x>> \in R)
    BY <1>3
<1>5. \A y \in T : y \in Nat /\ x \in Nat /\ ~(y < x)
    BY <1>2, <1>4, Zenon
<1>6. \A y \in T : x <= y
    BY <1>5
<1> QED
    BY <1>4, <1>6

\* Induction up to n, the claim given as the set where it holds.
LEMMA Induction ==
    ASSUME NEW n \in Nat, NEW S, 0 \in S, \A i \in 0..(n-1) : i \in S => i + 1 \in S
    PROVE  \A i \in 0..n : i \in S
<1> DEFINE T == {i \in 0..n : i \notin S}
<1> SUFFICES ASSUME T # {} PROVE FALSE
    OBVIOUS
<1>0. T \subseteq Nat
    OBVIOUS
<1>1. PICK x \in T : \A y \in T : x <= y
  <2> HIDE DEF T
  <2> QED
    BY <1>0, NatMin, Zenon
<1>2. x # 0 /\ x - 1 \in 0..(n-1) /\ x - 1 \notin T
    BY <1>1
<1> QED
    BY <1>1, <1>2

\* g[i] is what has been gathered after i turns, up to n.
Adds(parts, n, g) ==
    g[0] = <<>> /\ \A i \in 1..n : g[i] = g[i - 1] \o parts[i]

\* One loop, two ways to write it down: they agree as far as both go.
LEMMA AddsUnique ==
    ASSUME NEW n \in Nat, NEW parts, NEW g, NEW h, Adds(parts, n, g), Adds(parts, n, h)
    PROVE  \A i \in 0..n : g[i] = h[i]
<1> DEFINE S == {i \in 0..n : g[i] = h[i]}
<1>1. 0 \in S
    BY DEF Adds
<1>2. ASSUME NEW i \in 0..(n - 1), i \in S PROVE i + 1 \in S
  <2>1. i + 1 \in 1..n /\ i + 1 \in 0..n /\ (i + 1) - 1 = i
    OBVIOUS
  <2>2. g[i + 1] = g[i] \o parts[i + 1] /\ h[i + 1] = h[i] \o parts[i + 1]
    BY <2>1, Zenon DEF Adds
  <2> QED
    BY <1>2, <2>1, <2>2, Zenon
<1>3. \A i \in 0..n : i \in S
  <2> HIDE DEF S
  <2> QED
    BY <1>1, <1>2, Induction
<1> QED
    BY <1>3

\* One turn more.
LEMMA AddsOneMore ==
    ASSUME NEW V, NEW n \in Nat, NEW parts, parts[n + 1] \in Seq(V), NEW g \in [0..n -> Seq(V)], Adds(parts, n, g)
    PROVE  \E h \in [0..(n + 1) -> Seq(V)] : Adds(parts, n + 1, h)
<1> DEFINE h == [i \in 0..(n + 1) |-> IF i = n + 1 THEN g[n] \o parts[n + 1] ELSE g[i]]
<1>1. n \in 0..n /\ g[n] \o parts[n + 1] \in Seq(V)
    OBVIOUS
<1>2. h \in [0..(n + 1) -> Seq(V)]
    BY <1>1
<1>3. h[n + 1] = g[n] \o parts[n + 1] /\ \A i \in 0..n : h[i] = g[i]
    OBVIOUS
<1> HIDE DEF h
<1>4. h[0] = <<>>
    BY <1>3 DEF Adds
<1>5. ASSUME NEW i \in 1..(n + 1) PROVE h[i] = h[i - 1] \o parts[i]
  <2>1. CASE i = n + 1
    <3>1. i - 1 = n
      BY <2>1
    <3> QED
      BY <1>1, <1>3, <2>1, <3>1, Zenon
  <2>2. CASE i # n + 1
    <3>1. i \in 1..n /\ i \in 0..n /\ i - 1 \in 0..n
      BY <2>2
    <3>2. g[i] = g[i - 1] \o parts[i]
      BY <3>1, Zenon DEF Adds
    <3> QED
      BY <1>3, <3>1, <3>2, Zenon
  <2> QED
    BY <2>1, <2>2, Zenon
<1>6. Adds(parts, n + 1, h)
    BY <1>4, <1>5, Zenon DEF Adds
<1> QED
    BY <1>2, <1>6

\* The loop can be written down to its end.
LEMMA AddsExists ==
    ASSUME NEW V, NEW parts \in Seq(Seq(V))
    PROVE  \E g \in [0..Len(parts) -> Seq(V)] : Adds(parts, Len(parts), g)
<1> DEFINE N == Len(parts)
           S == {n \in 0..N : \E g \in [0..n -> Seq(V)] : Adds(parts, n, g)}
<1>0. N \in Nat /\ \A i \in 1..N : parts[i] \in Seq(V)
    OBVIOUS
<1>1. 0 \in S
  <2> DEFINE g == [i \in 0..0 |-> <<>>]
  <2>1. g \in [0..0 -> Seq(V)] /\ g[0] = <<>>
    OBVIOUS
  <2> HIDE DEF g
  <2>2. Adds(parts, 0, g)
    BY <2>1 DEF Adds
  <2>3. 0 \in 0..N
    BY <1>0
  <2> QED
    BY <2>1, <2>2, <2>3
<1>2. ASSUME NEW n \in 0..(N - 1), n \in S PROVE n + 1 \in S
  <2>1. PICK g \in [0..n -> Seq(V)] : Adds(parts, n, g)
    BY <1>2
  <2>2. n \in Nat /\ n + 1 \in 1..N /\ n + 1 \in 0..N
    BY <1>0
  <2>3. parts[n + 1] \in Seq(V)
    BY <1>0, <2>2
  <2> QED
    BY <2>1, <2>2, <2>3, AddsOneMore, Zenon
<1>3. \A i \in 0..N : i \in S
  <2> HIDE DEF S, N
  <2> QED
    BY <1>0, <1>1, <1>2, Induction, Zenon
<1>4. N \in 0..N
    BY <1>0
<1> QED
    BY <1>3, <1>4, Zenon

\* Flat, defined by recursion, is the end of it.
LEMMA FlatAdds ==
    ASSUME NEW V, NEW parts \in Seq(Seq(V)), NEW g \in [0..Len(parts) -> Seq(V)], Adds(parts, Len(parts), g)
    PROVE  Flat(parts) = g[Len(parts)]
<1> DEFINE N == Len(parts)
           Rec(f) == f = [i \in 0..N |-> IF i = 0 THEN <<>> ELSE f[i - 1] \o parts[i]]
<1>0. N \in Nat /\ N \in 0..N
    OBVIOUS
<1>2. Rec(g)
  <2>1. ASSUME NEW i \in 0..N PROVE g[i] = IF i = 0 THEN <<>> ELSE g[i - 1] \o parts[i]
    <3>1. CASE i = 0
      BY <3>1 DEF Adds
    <3>2. CASE i # 0
      <4>1. i \in 1..N
        BY <1>0, <3>2
      <4> QED
        BY <3>2, <4>1, Zenon DEF Adds
    <3> QED
      BY <3>1, <3>2, Zenon
  <2> QED
    BY <2>1, Zenon
<1> DEFINE upto == CHOOSE f : Rec(f)
<1>3. Rec(upto)
  <2> HIDE DEF Rec
  <2> QED
    BY <1>2
<1>4. Flat(parts) = upto[N]
    BY DEF Flat
<1>5. Adds(parts, N, upto)
  <2> HIDE DEF upto
  <2>1. \A i \in 0..N : upto[i] = IF i = 0 THEN <<>> ELSE upto[i - 1] \o parts[i]
    BY <1>3, Zenon
  <2>2. upto[0] = <<>>
    BY <1>0, <2>1
  <2>3. ASSUME NEW i \in 1..N PROVE upto[i] = upto[i - 1] \o parts[i]
    <3>1. i \in 0..N /\ i # 0
      BY <1>0
    <3> QED
      BY <2>1, <3>1, Zenon
  <2> QED
    BY <2>2, <2>3, Zenon DEF Adds
<1>6. \A i \in 0..N : upto[i] = g[i]
  <2> HIDE DEF upto, N
  <2> QED
    BY <1>0, <1>5, AddsUnique DEF N
<1> QED
    BY <1>0, <1>4, <1>6, Zenon

\* What each turn of the loop leaves.
LEMMA FlatSteps ==
    ASSUME NEW V, NEW parts \in Seq(Seq(V))
    PROVE  \E g :
               /\ g \in [0..Len(parts) -> Seq(V)] /\ Adds(parts, Len(parts), g)
               /\ Flat(parts) = g[Len(parts)]
               /\ \A k \in 0..Len(parts) : Flat(SubSeq(parts, 1, k)) = g[k]
<1> DEFINE N == Len(parts)
<1>0. N \in Nat
    OBVIOUS
<1>1. PICK g : g \in [0..N -> Seq(V)] /\ Adds(parts, N, g)
    BY AddsExists
<1>2. Flat(parts) = g[N]
    BY <1>1, FlatAdds
<1>3. ASSUME NEW k \in 0..N PROVE Flat(SubSeq(parts, 1, k)) = g[k]
  <2> DEFINE q == SubSeq(parts, 1, k)
  <2>1. q \in Seq(Seq(V)) /\ Len(q) = k /\ \A i \in 1..k : q[i] = parts[i]
    BY <1>0
  <2> HIDE DEF q
  <2>2. PICK h : h \in [0..k -> Seq(V)] /\ Adds(q, k, h)
    BY <2>1, AddsExists, Zenon
  <2>3. Flat(q) = h[k]
    BY <2>1, <2>2, FlatAdds, Zenon
  <2>4. k \in Nat /\ Adds(parts, k, g)
    <3>1. k \in Nat /\ \A i \in 1..k : i \in 1..N
      BY <1>0
    <3> QED
      BY <1>1, <3>1, Zenon DEF Adds
  <2>5. \A i \in 0..k : h[i] = g[i]
    <3>1. Adds(parts, k, h)
      BY <2>1, <2>2, Zenon DEF Adds
    <3> QED
      BY <2>4, <3>1, AddsUnique
  <2>6. k \in 0..k
    BY <2>4
  <2> QED
    BY <2>3, <2>5, <2>6 DEF q
<1> QED
    BY <1>1, <1>2, <1>3

-----------------------------------------------------------------------------
(* What a loop gathers *)

\* One turn.
LEMMA AddsAt ==
    ASSUME NEW parts, NEW n, NEW g, Adds(parts, n, g), NEW m \in 1..n
    PROVE  g[m] = g[m - 1] \o parts[m]
BY Zenon DEF Adds

\* c is s followed by t.
Joined(s, t, c) == c = s \o t

\* c is the sum of a and b.
Sum2(a, b, c) == a \in Nat /\ b \in Nat /\ c = a + b

\* Where the elements of two sequences are once they are joined.
LEMMA ConcatAt ==
    ASSUME NEW V, NEW s, NEW t, NEW c, s \in Seq(V), t \in Seq(V), Joined(s, t, c)
    PROVE  /\ Len(s) \in Nat /\ Len(t) \in Nat /\ Len(c) = Len(s) + Len(t)
           /\ \A x \in 1..Len(s) : x \in 1..Len(c) /\ c[x] = s[x]
           /\ \A j \in 1..Len(t) : Len(s) + j \in 1..Len(c) /\ c[Len(s) + j] = t[j]
           /\ \A x \in 1..Len(c) : x \notin 1..Len(s) => x - Len(s) \in 1..Len(t) /\ c[x] = t[x - Len(s)]
BY ConcatProperties, LenProperties DEF Joined

\* g[i] is what the loop over parts has gathered after i turns.
Gathers(V, parts, g) ==
    /\ parts \in Seq(Seq(V))
    /\ g \in [0..Len(parts) -> Seq(V)]
    /\ Adds(parts, Len(parts), g)

\* What a turn of the loop does to what was gathered before.
LEMMA StepIs ==
    ASSUME NEW V, NEW parts, NEW g, Gathers(V, parts, g), NEW m \in 1..Len(parts)
    PROVE  g[m - 1] \in Seq(V) /\ parts[m] \in Seq(V) /\ g[m] \in Seq(V) /\ Joined(g[m - 1], parts[m], g[m])
<1>1. Len(parts) \in Nat
    BY LenProperties DEF Gathers
<1>2. m - 1 \in 0..Len(parts) /\ m \in 0..Len(parts)
    BY <1>1
<1>3. g[m - 1] \in Seq(V) /\ g[m] \in Seq(V)
    BY <1>2, Zenon DEF Gathers
<1>4. parts[m] \in Seq(V)
    BY ElementOfSeq DEF Gathers
<1>5. Joined(g[m - 1], parts[m], g[m])
    BY AddsAt, Zenon DEF Gathers, Joined
<1> QED
    BY <1>3, <1>4, <1>5

\* How many there are after a turn.
LEMMA StepLen ==
    ASSUME NEW V, NEW parts, NEW g, Gathers(V, parts, g), NEW m \in 1..Len(parts)
    PROVE  Sum2(Len(g[m - 1]), Len(parts[m]), Len(g[m]))
<1> DEFINE s == g[m - 1]
           t == parts[m]
           c == g[m]
<1>1. s \in Seq(V) /\ t \in Seq(V) /\ c \in Seq(V) /\ Joined(s, t, c)
    BY StepIs
<1> HIDE DEF s, t, c
<1>2. Sum2(Len(s), Len(t), Len(c))
    BY <1>1, ConcatAt DEF Sum2
<1> QED
    BY <1>1, <1>2 DEF s, t, c

\* What was gathered before a turn stays where it was.
LEMMA StepKeeps ==
    ASSUME NEW V, NEW parts, NEW g, Gathers(V, parts, g), NEW m \in 1..Len(parts)
    PROVE  \A x \in 1..Len(g[m - 1]) : x \in 1..Len(g[m]) /\ g[m][x] = g[m - 1][x]
<1> DEFINE s == g[m - 1]
           t == parts[m]
           c == g[m]
<1>1. s \in Seq(V) /\ t \in Seq(V) /\ c \in Seq(V) /\ Joined(s, t, c)
    BY StepIs
<1> HIDE DEF s, t, c
<1>2. \A x \in 1..Len(s) : x \in 1..Len(c) /\ c[x] = s[x]
    BY <1>1, ConcatAt
<1> QED
    BY <1>1, <1>2 DEF s, t, c

\* What a turn adds follows it.
LEMMA StepAdds ==
    ASSUME NEW V, NEW parts, NEW g, Gathers(V, parts, g), NEW m \in 1..Len(parts)
    PROVE  \A j \in 1..Len(parts[m]) : Len(g[m - 1]) + j \in 1..Len(g[m]) /\ g[m][Len(g[m - 1]) + j] = parts[m][j]
<1> DEFINE s == g[m - 1]
           t == parts[m]
           c == g[m]
<1>1. s \in Seq(V) /\ t \in Seq(V) /\ c \in Seq(V) /\ Joined(s, t, c)
    BY StepIs
<1> HIDE DEF s, t, c
<1>2. \A j \in 1..Len(t) : Len(s) + j \in 1..Len(c) /\ c[Len(s) + j] = t[j]
    BY <1>1, ConcatAt
<1> QED
    BY <1>1, <1>2 DEF s, t, c

\* There is nothing else.
LEMMA StepFrom ==
    ASSUME NEW V, NEW parts, NEW g, Gathers(V, parts, g), NEW m \in 1..Len(parts)
    PROVE  \A x \in 1..Len(g[m]) : x \notin 1..Len(g[m - 1]) => x - Len(g[m - 1]) \in 1..Len(parts[m]) /\ g[m][x] = parts[m][x - Len(g[m - 1])]
<1> DEFINE s == g[m - 1]
           t == parts[m]
           c == g[m]
<1>1. s \in Seq(V) /\ t \in Seq(V) /\ c \in Seq(V) /\ Joined(s, t, c)
    BY StepIs
<1> HIDE DEF s, t, c
<1>2. \A x \in 1..Len(c) : x \notin 1..Len(s) => x - Len(s) \in 1..Len(t) /\ c[x] = t[x - Len(s)]
    BY <1>1, ConcatAt
<1> QED
    BY <1>1, <1>2, Zenon DEF s, t, c

\* What was gathered stays: position, value and count.
LEMMA StepsKept ==
    ASSUME NEW V, NEW parts, NEW g, Gathers(V, parts, g), NEW k \in 0..Len(parts)
    PROVE  \A m \in 0..Len(parts) : k <= m =>
               \A x \in 1..Len(g[k]) : x \in 1..Len(g[m]) /\ g[m][x] = g[k][x]
<1> DEFINE Kept(m) == k <= m => \A x \in 1..Len(g[k]) : x \in 1..Len(g[m]) /\ g[m][x] = g[k][x]
           S == {m \in 0..Len(parts) : Kept(m)}
<1>0. Len(parts) \in Nat
    BY LenProperties DEF Gathers
<1>1. 0 \in S
    BY <1>0
<1>2. ASSUME NEW m \in 0..(Len(parts) - 1), m \in S PROVE m + 1 \in S
  <2> DEFINE q == m + 1
  <2>0. q \in 1..Len(parts) /\ q \in 0..Len(parts) /\ q - 1 = m
    BY <1>0
  <2> SUFFICES Kept(q)
    BY <2>0, Zenon
  <2> HIDE DEF q
  <2>1. CASE k = q
    BY <2>1
  <2>2. CASE k <= m
    <3>0. q \in 1..Len(parts)
      BY <2>0
    <3>1. \A x \in 1..Len(g[q - 1]) : x \in 1..Len(g[q]) /\ g[q][x] = g[q - 1][x]
      BY <3>0, StepKeeps
    <3>2. \A x \in 1..Len(g[m]) : x \in 1..Len(g[q]) /\ g[q][x] = g[m][x]
      BY <2>0, <3>1
    <3>3. \A x \in 1..Len(g[k]) : x \in 1..Len(g[m]) /\ g[m][x] = g[k][x]
      BY <1>2, <2>2, Zenon
    <3> QED
      BY <3>2, <3>3
  <2> QED
    BY <2>0, <2>1, <2>2, <1>0
<1>3. \A m \in 0..Len(parts) : m \in S
  <2> HIDE DEF S
  <2> QED
    BY <1>0, <1>1, <1>2, Induction, Zenon
<1> QED
    BY <1>3

\* The loop has such a history, and Flat is its end.
LEMMA FlatGathers ==
    ASSUME NEW V, NEW parts, parts \in Seq(Seq(V))
    PROVE  /\ Len(parts) \in Nat /\ Flat(parts) \in Seq(V)
           /\ \E g : /\ Gathers(V, parts, g)
                     /\ g[0] = <<>>
                     /\ Flat(parts) = g[Len(parts)]
                     /\ \A k \in 0..Len(parts) : Flat(SubSeq(parts, 1, k)) = g[k]
<1>1. PICK g : /\ g \in [0..Len(parts) -> Seq(V)] /\ Adds(parts, Len(parts), g)
               /\ Flat(parts) = g[Len(parts)]
               /\ \A k \in 0..Len(parts) : Flat(SubSeq(parts, 1, k)) = g[k]
    BY FlatSteps
<1>2. Gathers(V, parts, g) /\ g[0] = <<>>
    BY <1>1 DEF Gathers, Adds
<1>3. Len(parts) \in Nat /\ Len(parts) \in 0..Len(parts)
    BY LenProperties
<1>4. Flat(parts) \in Seq(V)
    BY <1>1, <1>3
<1> QED
    BY <1>1, <1>2, <1>3, <1>4, Zenon

\* What was added at one turn is found in the result behind all that was added before.
LEMMA FlatPlaces ==
    ASSUME NEW V, NEW parts, parts \in Seq(Seq(V)), NEW i \in 1..Len(parts), NEW j \in 1..Len(parts[i])
    PROVE  /\ Len(Flat(SubSeq(parts, 1, i - 1))) + j \in 1..Len(Flat(parts))
           /\ Flat(parts)[Len(Flat(SubSeq(parts, 1, i - 1))) + j] = parts[i][j]
<1>1. PICK g : /\ Gathers(V, parts, g) /\ Flat(parts) = g[Len(parts)]
               /\ \A k \in 0..Len(parts) : Flat(SubSeq(parts, 1, k)) = g[k]
    BY FlatGathers
<1>2. Len(parts) \in Nat
    BY FlatGathers
<1>3. i - 1 \in 0..Len(parts) /\ i \in 0..Len(parts) /\ Len(parts) \in 0..Len(parts) /\ i <= Len(parts)
    BY <1>2
<1>4. Flat(SubSeq(parts, 1, i - 1)) = g[i - 1]
    BY <1>1, <1>3, Zenon
<1> DEFINE p == Len(g[i - 1]) + j
<1>5. p \in 1..Len(g[i]) /\ g[i][p] = parts[i][j]
    BY <1>1, StepAdds
<1> HIDE DEF p
<1>6. p \in 1..Len(g[Len(parts)]) /\ g[Len(parts)][p] = g[i][p]
  <2>1. Gathers(V, parts, g)
    BY <1>1
  <2>2. \A m \in 0..Len(parts) : i <= m =>
            \A x \in 1..Len(g[i]) : x \in 1..Len(g[m]) /\ g[m][x] = g[i][x]
    BY <2>1, <1>3, StepsKept
  <2> QED
    BY <1>3, <1>5, <2>2, Zenon
<1>7. p \in 1..Len(Flat(parts)) /\ Flat(parts)[p] = parts[i][j]
    BY <1>1, <1>5, <1>6
<1> QED
    BY <1>4, <1>7, Zenon DEF p

\* And every element of the result was added at some turn.
Added(parts, e) == \E i \in 1..Len(parts) : \E j \in 1..Len(parts[i]) : e = parts[i][j]

LEMMA FlatSources ==
    ASSUME NEW V, NEW parts, parts \in Seq(Seq(V)), NEW y \in 1..Len(Flat(parts))
    PROVE  Added(parts, Flat(parts)[y])
<1>1. PICK g : Gathers(V, parts, g) /\ g[0] = <<>> /\ Flat(parts) = g[Len(parts)]
    BY FlatGathers
<1>2. Len(parts) \in Nat
    BY FlatGathers
<1> DEFINE From(m) == \A x \in 1..Len(g[m]) :
                          \E i \in 1..Len(parts) : \E j \in 1..Len(parts[i]) : g[m][x] = parts[i][j]
           S == {m \in 0..Len(parts) : From(m)}
<1>3. 0 \in S
  <2>1. Len(g[0]) = 0
    BY <1>1
  <2> QED
    BY <1>2, <2>1
<1>4. ASSUME NEW m \in 0..(Len(parts) - 1), m \in S PROVE m + 1 \in S
  <2> DEFINE q == m + 1
  <2>1. q \in 1..Len(parts) /\ q \in 0..Len(parts) /\ q - 1 = m
    BY <1>2
  <2> SUFFICES ASSUME NEW x \in 1..Len(g[q])
               PROVE  \E i \in 1..Len(parts) : \E j \in 1..Len(parts[i]) : g[q][x] = parts[i][j]
    BY <2>1
  <2> HIDE DEF q
  <2>2. CASE x \in 1..Len(g[m])
    <3>0. \A z \in 1..Len(g[q - 1]) : z \in 1..Len(g[q]) /\ g[q][z] = g[q - 1][z]
      <4>1. Gathers(V, parts, g) /\ q \in 1..Len(parts)
        BY <1>1, <2>1
      <4> QED
        BY <4>1, StepKeeps
    <3>1. g[q][x] = g[m][x]
      BY <2>1, <2>2, <3>0, Zenon
    <3>2. \E i \in 1..Len(parts) : \E j \in 1..Len(parts[i]) : g[m][x] = parts[i][j]
      BY <1>4, <2>2, Zenon
    <3> QED
      BY <3>1, <3>2, Zenon
  <2>3. CASE x \notin 1..Len(g[m])
    <3>1. x \notin 1..Len(g[q - 1])
      BY <2>1, <2>3, Zenon
    <3>2. x - Len(g[q - 1]) \in 1..Len(parts[q]) /\ g[q][x] = parts[q][x - Len(g[q - 1])]
      <4>1. Gathers(V, parts, g) /\ q \in 1..Len(parts)
        BY <1>1, <2>1
      <4>2. \A z \in 1..Len(g[q]) : z \notin 1..Len(g[q - 1]) =>
                z - Len(g[q - 1]) \in 1..Len(parts[q]) /\ g[q][z] = parts[q][z - Len(g[q - 1])]
        BY <4>1, StepFrom
      <4> QED
        BY <3>1, <4>2, Zenon
    <3> QED
      BY <2>1, <3>2, Zenon
  <2> QED
    BY <2>2, <2>3
<1>5. \A m \in 0..Len(parts) : m \in S
  <2> HIDE DEF S
  <2> QED
    BY <1>2, <1>3, <1>4, Induction, Zenon
<1>6. Len(parts) \in 0..Len(parts)
    BY <1>2
<1>7. From(Len(parts))
    BY <1>5, <1>6, Zenon
<1>8. \E i \in 1..Len(parts) : \E j \in 1..Len(parts[i]) : Flat(parts)[y] = parts[i][j]
    BY <1>1, <1>7, Zenon
<1> QED
    BY <1>8 DEF Added

\* Nothing gathered: nothing was added at any turn.
LEMMA FlatEmpty ==
    ASSUME NEW V, NEW parts, parts \in Seq(Seq(V)), Flat(parts) = <<>>, NEW i \in 1..Len(parts)
    PROVE  parts[i] = <<>>
<1>1. parts[i] \in Seq(V)
    BY ElementOfSeq
<1>2. Len(Flat(parts)) = 0
    OBVIOUS
<1>3. ~(1 \in 1..Len(parts[i]))
  <2> SUFFICES ASSUME 1 \in 1..Len(parts[i]) PROVE FALSE
    OBVIOUS
  <2>1. Len(Flat(SubSeq(parts, 1, i - 1))) + 1 \in 1..Len(Flat(parts))
    BY FlatPlaces
  <2> QED
    BY <1>2, <2>1
<1> DEFINE t == parts[i]
<1>4. t \in Seq(V) /\ ~(1 \in 1..Len(t))
    BY <1>1, <1>3
<1> HIDE DEF t
<1>5. Len(t) \in Nat /\ Len(t) = 0
    BY <1>4, LenProperties
<1>6. t = <<>>
    BY <1>4, <1>5, EmptySeq
<1> QED
    BY <1>6 DEF t

\* A count that starts at nothing, grows by at most one at a turn and is the number of
\* turns at the end is the number of turns all along.
LEMMA TightCount ==
    ASSUME NEW N \in Nat, NEW L, L[0] = 0, L[N] = N,
           \A m \in 1..N : L[m - 1] \in Nat /\ L[m] \in Nat /\ L[m] <= L[m - 1] + 1,
           NEW n \in 0..N
    PROVE  L[n] = n
<1> DEFINE Near(m) == L[m] \in Nat /\ (m <= n => L[m] <= m) /\ (n <= m => L[m] <= L[n] + (m - n))
           S == {m \in 0..N : Near(m)}
<1>1. L[n] \in Nat
    BY n \in 1..N \/ n = 0
<1>2. 0 \in S
    BY <1>1
<1>3. ASSUME NEW m \in 0..(N - 1), m \in S PROVE m + 1 \in S
  <2> DEFINE q == m + 1
  <2>1. q \in 1..N /\ q \in 0..N /\ q - 1 = m
    OBVIOUS
  <2>2. L[q - 1] \in Nat /\ L[q] \in Nat /\ L[q] <= L[q - 1] + 1
    BY <2>1
  <2>3. L[m] \in Nat /\ L[q] \in Nat /\ L[q] <= L[m] + 1
    BY <2>1, <2>2
  <2>4. Near(m)
    BY <1>3
  <2>5. Near(q)
    <3>1. CASE q = n
      BY <1>1, <2>3, <2>4, <3>1
    <3>2. CASE q < n
      BY <1>1, <2>3, <2>4, <3>2
    <3>3. CASE q > n
      BY <1>1, <2>3, <2>4, <3>3
    <3> QED
      BY <3>1, <3>2, <3>3
  <2> QED
    BY <2>1, <2>5
<1>4. \A m \in 0..N : m \in S
  <2> HIDE DEF S
  <2> QED
    BY <1>2, <1>3, Induction, Zenon
<1>5. Near(n) /\ Near(N)
    BY <1>4
<1> QED
    BY <1>1, <1>5

\* The counts of a loop.
LEMMA GatherCounts ==
    ASSUME NEW V, NEW parts, NEW g, Gathers(V, parts, g), NEW L, L = [n \in 0..Len(parts) |-> Len(g[n])],
           NEW m \in 1..Len(parts)
    PROVE  Sum2(L[m - 1], Len(parts[m]), L[m])
<1>1. Len(parts) \in Nat
    BY LenProperties DEF Gathers
<1>2. Sum2(Len(g[m - 1]), Len(parts[m]), Len(g[m]))
    BY StepLen
<1>3. m - 1 \in 0..Len(parts) /\ m \in 0..Len(parts)
    BY <1>1
<1>4. L[m - 1] = Len(g[m - 1]) /\ L[m] = Len(g[m])
    BY <1>3
<1> QED
    BY <1>2, <1>4

\* At most one at a turn, and as many as turns: exactly one at every turn, in order.
LEMMA FlatSame ==
    ASSUME NEW V, NEW parts, parts \in Seq(Seq(V)), Len(Flat(parts)) = Len(parts),
           \A i \in 1..Len(parts) : Len(parts[i]) <= 1,
           NEW k \in 1..Len(parts)
    PROVE  Len(parts[k]) = 1 /\ Flat(parts)[k] = parts[k][1]
<1>1. PICK g : /\ Gathers(V, parts, g) /\ g[0] = <<>> /\ Flat(parts) = g[Len(parts)]
               /\ \A n \in 0..Len(parts) : Flat(SubSeq(parts, 1, n)) = g[n]
    BY FlatGathers
<1> DEFINE N == Len(parts)
           L == [m \in 0..Len(parts) |-> Len(g[m])]
<1>2. N \in Nat /\ k - 1 \in 0..N /\ k \in 0..N /\ k \in 1..N
    BY FlatGathers
<1>3. L[0] = 0 /\ L[N] = N
    BY <1>1, <1>2
<1>4. \A n \in 0..N : L[n] = Len(Flat(SubSeq(parts, 1, n)))
    BY <1>1, Zenon
<1>5. \A m \in 1..N : Sum2(L[m - 1], Len(parts[m]), L[m])
  <2>1. Gathers(V, parts, g)
    BY <1>1
  <2> HIDE DEF L
  <2>2. L = [m \in 0..Len(parts) |-> Len(g[m])]
    BY DEF L
  <2> QED
    BY <2>1, <2>2, GatherCounts, Zenon
<1> HIDE DEF L
<1>6. \A m \in 1..N : L[m - 1] \in Nat /\ L[m] \in Nat /\ L[m] <= L[m - 1] + 1
  <2> SUFFICES ASSUME NEW m \in 1..N
               PROVE  L[m - 1] \in Nat /\ L[m] \in Nat /\ L[m] <= L[m - 1] + 1
    OBVIOUS
  <2> DEFINE d == Len(parts[m])
  <2>1. d <= 1
    OBVIOUS
  <2>2. Sum2(L[m - 1], d, L[m])
    BY <1>5
  <2> HIDE DEF d
  <2> QED
    BY <2>1, <2>2 DEF Sum2
<1>7. L[k - 1] = k - 1 /\ L[k] = k
  <2> HIDE DEF N
  <2> QED
    BY <1>2, <1>3, <1>6, TightCount, Zenon
<1>8. Len(Flat(SubSeq(parts, 1, k - 1))) + 1 = k
  <2>1. Len(Flat(SubSeq(parts, 1, k - 1))) = L[k - 1]
    BY <1>2, <1>4
  <2> QED
    BY <1>2, <1>7, <2>1
<1>9. Len(parts[k]) = 1
  <2> DEFINE d == Len(parts[k])
  <2>1. Sum2(L[k - 1], d, L[k])
    BY <1>5
  <2> HIDE DEF d
  <2>2. d = 1
    BY <1>2, <1>7, <2>1 DEF Sum2
  <2> QED
    BY <2>2 DEF d
<1>10. Flat(parts)[k] = parts[k][1]
  <2>1. 1 \in 1..Len(parts[k])
    BY <1>9
  <2>2. Flat(parts)[Len(Flat(SubSeq(parts, 1, k - 1))) + 1] = parts[k][1]
    BY <2>1, FlatPlaces
  <2> QED
    BY <1>8, <2>2
<1> QED
    BY <1>9, <1>10

-----------------------------------------------------------------------------
(* The values bound for a list of conditions *)

\* The elements of a sequence.
Elems(s) == {s[i] : i \in 1..Len(s)}

LEMMA SeqWider ==
    ASSUME NEW s, s \in Seq(Elems(s)), NEW B, \A i \in 1..Len(s) : s[i] \in B
    PROVE  s \in Seq(B) /\ Len(s) \in Nat /\ s = [i \in 1..Len(s) |-> s[i]]
<1>1. Len(s) \in Nat /\ DOMAIN s = 1..Len(s) /\ s = [i \in 1..Len(s) |-> s[i]]
    BY LenProperties
<1>2. [i \in 1..Len(s) |-> s[i]] \in Seq(B)
    BY <1>1, IsASeq
<1> QED
    BY <1>1, <1>2

\* The parts a list of conditions contributes to the bindings.
ValuesOf(conds) == [i \in 1..Len(conds) |-> conds[i].values]
AllValues(conds) == UNION {Elems(conds[i].values) : i \in 1..Len(conds)}

\* A list of conditions, each with a sequence of values.
Conditions(conds) ==
    /\ conds \in Seq(Elems(conds))
    /\ \A i \in 1..Len(conds) : conds[i].values \in Seq(Elems(conds[i].values))

LEMMA ValueParts ==
    ASSUME NEW conds, Conditions(conds)
    PROVE  /\ ValuesOf(conds) \in Seq(Seq(AllValues(conds)))
           /\ Len(ValuesOf(conds)) = Len(conds) /\ Len(conds) \in Nat
           /\ bindings(conds) = Flat(ValuesOf(conds))
<1>1. Len(conds) \in Nat
    BY LenProperties DEF Conditions
<1>2. ASSUME NEW i \in 1..Len(conds) PROVE conds[i].values \in Seq(AllValues(conds))
  <2> DEFINE v == conds[i].values
  <2>1. v \in Seq(Elems(v))
    BY Zenon DEF Conditions
  <2>2. \A j \in 1..Len(v) : v[j] \in AllValues(conds)
    BY DEF AllValues, Elems
  <2> HIDE DEF v
  <2>3. v \in Seq(AllValues(conds))
    BY <2>1, <2>2, SeqWider, Zenon
  <2> QED
    BY <2>3 DEF v
<1>3. ValuesOf(conds) \in Seq(Seq(AllValues(conds))) /\ Len(ValuesOf(conds)) = Len(conds)
    BY <1>1, <1>2, IsASeq DEF ValuesOf
<1> QED
    BY <1>1, <1>3 DEF bindings, ValuesOf

\* The bindings before a condition are those of the conditions before it.
LEMMA BindingsBefore ==
    ASSUME NEW conds, Conditions(conds), NEW i \in 1..Len(conds)
    PROVE  bindings(SubSeq(conds, 1, i - 1)) = Flat(SubSeq(ValuesOf(conds), 1, i - 1))
<1> DEFINE before == SubSeq(conds, 1, i - 1)
           n == i - 1
<1>1. Len(conds) \in Nat /\ Len(ValuesOf(conds)) = Len(conds)
    BY ValueParts
<1>2. n \in 0..Len(conds)
    BY <1>1
<1>3. before = [x \in 1..n |-> conds[x]] /\ Len(before) = n
    BY <1>1, <1>2, SubSeqProperties DEF Conditions
<1>4. SubSeq(ValuesOf(conds), 1, i - 1) = [x \in 1..n |-> ValuesOf(conds)[x]]
    BY <1>1, <1>2, SubSeqProperties, ValueParts
<1>5. \A x \in 1..n : x \in 1..Len(conds) /\ ValuesOf(conds)[x] = conds[x].values /\ before[x] = conds[x]
    BY <1>1, <1>2, <1>3 DEF ValuesOf
<1>6. [x \in 1..Len(before) |-> before[x].values] = SubSeq(ValuesOf(conds), 1, i - 1)
    BY <1>3, <1>4, <1>5
<1> QED
    BY <1>6, Zenon DEF bindings

\* What is bound, when as many values are bound as there are values: the values, each a
\* string or a number.
LEMMA AllBound ==
    ASSUME NEW J, NEW B, B \in Seq(J), Len(Bound(B)) = Len(B), NEW k \in 1..Len(B)
    PROVE  Scalar(B[k]) /\ Bound(B)[k] = B[k]
<1> DEFINE parts == [i \in 1..Len(B) |-> IF Scalar(B[i]) THEN <<B[i]>> ELSE <<>>]
<1>1. Len(B) \in Nat /\ \A i \in 1..Len(B) : B[i] \in J
    BY LenProperties, ElementOfSeq
<1>2. \A i \in 1..Len(B) : /\ parts[i] \in Seq(J) /\ Len(parts[i]) <= 1
                           /\ Len(parts[i]) = 1 => Scalar(B[i]) /\ parts[i][1] = B[i]
  <2> SUFFICES ASSUME NEW i \in 1..Len(B)
               PROVE  /\ parts[i] \in Seq(J) /\ Len(parts[i]) <= 1
                      /\ Len(parts[i]) = 1 => Scalar(B[i]) /\ parts[i][1] = B[i]
    OBVIOUS
  <2>1. CASE Scalar(B[i])
    <3>1. parts[i] = <<B[i]>>
      BY <2>1
    <3>2. B[i] \in J
      BY <1>1
    <3> HIDE DEF parts
    <3> QED
      BY <2>1, <3>1, <3>2
  <2>2. CASE ~Scalar(B[i])
    <3>1. parts[i] = <<>>
      BY <2>2
    <3> HIDE DEF parts
    <3> QED
      BY <3>1
  <2> QED
    BY <2>1, <2>2
<1>3. parts \in Seq(Seq(J)) /\ Len(parts) = Len(B)
    BY <1>1, <1>2
<1>4. Bound(B) = Flat(parts)
    BY Zenon DEF Bound
<1> HIDE DEF parts
<1>5. \A i \in 1..Len(parts) : Len(parts[i]) <= 1
    BY <1>2, <1>3, Zenon
<1>6. Len(Flat(parts)) = Len(parts) /\ k \in 1..Len(parts)
    BY <1>3, <1>4
<1>7. Len(parts[k]) = 1 /\ Flat(parts)[k] = parts[k][1]
    BY <1>3, <1>5, <1>6, FlatSame, Zenon
<1> QED
    BY <1>2, <1>4, <1>7

\* A condition whose values are of the type of its column.
WellTyped(c) ==
    /\ c.values # <<>>
    /\ \A j \in 1..Len(c.values) :
          Scalar(c.values[j]) /\ ParamType(c.values[j]) = ColumnType(c.column)

\* The statement of export and of the QueryBuilder: when it runs, the placeholders of a
\* condition name that condition's values.
LEMMA OwnValues ==
    ASSUME NEW conds, Conditions(conds), Runs(conds, Bound(bindings(conds))), NEW i \in 1..Len(conds)
    PROVE  /\ WellTyped(conds[i])
           /\ Args(conds, Bound(bindings(conds)), i) = conds[i].values
<1> DEFINE parts == ValuesOf(conds)
           J == AllValues(conds)
           B == bindings(conds)
           params == Bound(bindings(conds))
           v == conds[i].values
<1>1. parts \in Seq(Seq(J)) /\ Len(parts) = Len(conds) /\ Len(conds) \in Nat /\ B = Flat(parts)
    BY ValueParts
<1>2. parts[i] = v
    BY DEF ValuesOf
<1>3. B \in Seq(J)
  <2> HIDE DEF parts, J, B
  <2> QED
    BY <1>1, FlatGathers
<1>4. Len(params) = Len(B)
    BY Zenon DEF Runs
<1>5. \A k \in 1..Len(B) : Scalar(B[k]) /\ params[k] = B[k]
  <2> HIDE DEF J, B
  <2> QED
    BY <1>3, <1>4, AllBound, Zenon DEF B
<1>6. \A j \in 1..Len(v) : /\ pg_numbered(conds, i, j) \in 1..Len(B)
                           /\ B[pg_numbered(conds, i, j)] = v[j]
  <2> SUFFICES ASSUME NEW j \in 1..Len(v)
               PROVE  /\ pg_numbered(conds, i, j) \in 1..Len(B)
                      /\ B[pg_numbered(conds, i, j)] = v[j]
    BY Zenon
  <2>1. pg_numbered(conds, i, j) = Len(Flat(SubSeq(parts, 1, i - 1))) + j
    BY BindingsBefore, Zenon DEF pg_numbered
  <2>2. i \in 1..Len(parts) /\ j \in 1..Len(parts[i])
    BY <1>1, <1>2, Zenon
  <2> HIDE DEF parts, J, B, v
  <2>3. /\ Len(Flat(SubSeq(parts, 1, i - 1))) + j \in 1..Len(Flat(parts))
        /\ Flat(parts)[Len(Flat(SubSeq(parts, 1, i - 1))) + j] = parts[i][j]
    <3>1. parts \in Seq(Seq(J))
      BY <1>1, Zenon
    <3> QED
      BY <3>1, <2>2, FlatPlaces
  <2> QED
    BY <1>1, <1>2, <2>1, <2>3, Zenon
<1>7. \A j \in 1..Len(v) : params[pg_numbered(conds, i, j)] = v[j] /\ Scalar(v[j])
  <2> HIDE DEF params, B, v
  <2> QED
    BY <1>5, <1>6, Zenon
<1>8. v # <<>> /\ \A j \in 1..Len(v) : ParamType(params[pg_numbered(conds, i, j)]) = ColumnType(conds[i].column)
    BY Zenon DEF Runs
<1>9. WellTyped(conds[i])
    BY <1>7, <1>8 DEF WellTyped
<1>10. v = [j \in 1..Len(v) |-> v[j]]
  <2>1. v \in Seq(Elems(v))
    BY DEF Conditions
  <2>2. \A j \in 1..Len(v) : v[j] \in Elems(v)
    BY Zenon DEF Elems
  <2> HIDE DEF v
  <2> QED
    BY <2>1, <2>2, SeqWider
<1>11. Args(conds, params, i) = [j \in 1..Len(v) |-> v[j]]
    BY <1>7 DEF Args
<1> QED
    BY <1>9, <1>10, <1>11

-----------------------------------------------------------------------------
(* What the condition of a filter says of a row *)

\* A filter of a request, its value with the shape of JSON.
IsFilter(f) ==
    /\ IsJson(f.value)
    /\ \A j \in 1..Len(f.value.items) : IsJson(f.value.items[j])

\* No fraction and no product beyond i64, for one filter.
PlainFilter(f) ==
    /\ f.value.json # "fraction"
    /\ f.field = "elapsed_ms" => Wrapped(f.value.n * NS_PER_MS) = f.value.n * NS_PER_MS

LEMMA JsonKinds ==
    ASSUME NEW v, IsJson(v)
    PROVE  /\ v.n \in Int /\ v.items \in Seq(Elems(v.items))
           /\ v.json = "string" => v = Str(v.text)
           /\ Scalar(v) /\ ParamType(v) = "TEXT" => v.json = "string"
           /\ Scalar(v) /\ ParamType(v) = "INT8" /\ v.json # "fraction" => v.json = "number"
<1>1. v.n \in Int /\ v.items \in Seq(Elems(v.items))
    BY DEF IsJson, Elems
<1>2. v.json = "string" => v = Str(v.text)
  <2>1. v = Str(v.text) \/ v = Num(v.n) \/ v = Fraction(v.n) \/ v = Arr(v.items) \/ v = Null
    BY DEF IsJson
  <2>2. /\ Num(v.n).json = "number" /\ Fraction(v.n).json = "fraction"
        /\ Arr(v.items).json = "array" /\ Null.json = "null"
    BY DEF Num, Fraction, Arr, Null, Json
  <2> QED
    BY <2>1, <2>2
<1> QED
    BY <1>1, <1>2 DEF Scalar, ParamType

LEMMA StrSame ==
    ASSUME NEW a, NEW b
    PROVE  (Str(a) = Str(b)) <=> (a = b) /\ Str(a).text = a
BY DEF Str, Json

LEMMA CompareTwice ==
    ASSUME NEW a \in Int, NEW b \in Int, NEW op \in {"gt", "lt", "gte", "lte", "eq"}
    PROVE  Compare(a, Cmp(op), b) <=> Compare(2 * a, Cmp(op), 2 * b)
<1>1. CASE op = "gt"
    BY <1>1 DEF Compare, Cmp
<1>2. CASE op = "lt"
    BY <1>2 DEF Compare, Cmp
<1>3. CASE op = "gte"
    BY <1>3 DEF Compare, Cmp
<1>4. CASE op = "lte"
    BY <1>4 DEF Compare, Cmp
<1>5. CASE op = "eq"
    BY <1>5 DEF Compare, Cmp
<1> QED
    BY <1>1, <1>2, <1>3, <1>4, <1>5

\* A status compared with a string.
LEMMA StatusSays ==
    ASSUME NEW row, NEW f, IsFilter(f), f.field = "status", f.operator = "eq",
           WellTyped(Condition(f.field, Cmp(f.operator), <<f.value>>))
    PROVE  Satisfies(row, Condition(f.field, Cmp(f.operator), <<f.value>>), <<f.value>>) <=> Says(row, f)
<1> DEFINE v == f.value
           c == Condition("status", "=", <<v>>)
<1>1. Condition(f.field, Cmp(f.operator), <<f.value>>) = c
    BY DEF Cmp
<1>2. c.values = <<v>> /\ c.column = "status" /\ c.cmp = "="
    BY DEF Condition
<1>3. Scalar(v) /\ ParamType(v) = "TEXT"
    BY <1>1, <1>2 DEF WellTyped, ColumnType
<1>4. v = Str(v.text)
    BY <1>3, JsonKinds DEF IsFilter
<1>5. Satisfies(row, c, <<v>>) <=> row.status = v.text
    BY <1>2, Zenon DEF Satisfies
<1>6. Says(row, f) <=> Str(row.status) = v
    BY Zenon DEF Says
<1> HIDE DEF v, c
<1> QED
    BY <1>1, <1>4, <1>5, <1>6, StrSame DEF v

\* A status compared with a list of strings.
LEMMA StatusInSays ==
    ASSUME NEW row, NEW f, IsFilter(f), f.field = "status", f.operator = "in",
           WellTyped(Condition("status", "IN", f.value.items))
    PROVE  Satisfies(row, Condition("status", "IN", f.value.items), f.value.items) <=> Says(row, f)
<1> DEFINE items == f.value.items
           c == Condition("status", "IN", items)
<1>1. c.values = items /\ c.column = "status" /\ c.cmp = "IN"
    BY Zenon DEF Condition
<1>2. \A j \in 1..Len(items) : Scalar(items[j]) /\ ParamType(items[j]) = "TEXT"
    BY <1>1, Zenon DEF WellTyped, ColumnType
<1>3. \A j \in 1..Len(items) : items[j] = Str(items[j].text)
    BY <1>2, JsonKinds DEF IsFilter
<1>4. Satisfies(row, c, items) <=> \E j \in 1..Len(items) : row.status = items[j].text
    BY <1>1, Zenon DEF Satisfies
<1>5. Says(row, f) <=> \E j \in 1..Len(items) : Str(row.status) = items[j]
    BY DEF Says
<1> HIDE DEF items, c
<1>6. \A j \in 1..Len(items) : row.status = items[j].text <=> Str(row.status) = items[j]
    BY <1>3, StrSame, Zenon
<1> QED
    BY <1>4, <1>5, <1>6 DEF items, c

\* A name that contains a text.
LEMMA QuestionSays ==
    ASSUME NEW row, NEW f, f.field = "question", f.operator = "like"
    PROVE  Satisfies(row, Condition(f.field, "LIKE", <<Str(AsText(f.value))>>), <<Str(AsText(f.value))>>)
               <=> Says(row, f)
<1> DEFINE t == AsText(f.value)
           c == Condition("question", "LIKE", <<Str(t)>>)
<1>1. c.column = "question" /\ c.cmp = "LIKE"
    BY DEF Condition
<1>2. Satisfies(row, c, <<Str(t)>>) <=> row.question \in Holding[Str(t).text]
    BY <1>1, Zenon DEF Satisfies
<1>3. Says(row, f) <=> row.question \in Holding[t]
    BY DEF Says
<1> HIDE DEF t, c
<1>4. Str(t).text = t
    BY StrSame, Zenon
<1> QED
    BY <1>2, <1>3, <1>4, Zenon DEF t, c

\* An elapsed time compared with a number of nanoseconds.
LEMMA ElapsedSays ==
    ASSUME NEW row, row.elapsed_ns \in Int, NEW f, IsFilter(f), PlainFilter(f), f.field = "elapsed_ns",
           f.operator \in {"gt", "lt", "gte", "lte", "eq"},
           WellTyped(Condition(f.field, Cmp(f.operator), <<f.value>>))
    PROVE  Satisfies(row, Condition(f.field, Cmp(f.operator), <<f.value>>), <<f.value>>) <=> Says(row, f)
<1> DEFINE v == f.value
           op == f.operator
           c == Condition("elapsed_ns", Cmp(op), <<v>>)
<1>1. c.values = <<v>> /\ c.column = "elapsed_ns" /\ c.cmp = Cmp(op)
    BY DEF Condition
<1>2. Scalar(v) /\ ParamType(v) = "INT8"
    BY <1>1 DEF WellTyped, ColumnType
<1>3. v.json = "number" /\ v.n \in Int
    BY <1>2, JsonKinds DEF IsFilter, PlainFilter
<1>4. Cmp(op) # "LIKE" /\ Cmp(op) # "IN"
    BY DEF Cmp
<1>5. Satisfies(row, c, <<v>>) <=> Compare(row.elapsed_ns, Cmp(op), AsI64(v))
    BY <1>1, <1>4, Zenon DEF Satisfies
<1>6. Says(row, f) <=> Compare(2 * row.elapsed_ns, Cmp(op), Twice(v))
    BY Zenon DEF Says
<1>7. AsI64(v) = v.n /\ Twice(v) = 2 * v.n
    BY <1>3 DEF AsI64, Twice
<1> HIDE DEF v, c
<1>8. Compare(row.elapsed_ns, Cmp(op), v.n) <=> Compare(2 * row.elapsed_ns, Cmp(op), 2 * v.n)
    BY <1>3, CompareTwice, Zenon
<1> QED
    BY <1>5, <1>6, <1>7, <1>8, Zenon DEF v, c

\* An elapsed time compared with a number of milliseconds, converted.
LEMMA MillisSays ==
    ASSUME NEW row, row.elapsed_ns \in Int, NEW f, IsFilter(f), PlainFilter(f), f.field = "elapsed_ms",
           f.operator \in {"gt", "lt", "gte", "lte", "eq"}, ~Misshapen(f), NS_PER_MS \in Nat
    PROVE  Satisfies(row, Condition("elapsed_ns", Cmp(f.operator), <<Num(Nanoseconds(f.value.n))>>),
                     <<Num(Nanoseconds(f.value.n))>>) <=> Says(row, f)
<1> DEFINE ms == f.value.n
           ns == ms * NS_PER_MS
           v == Num(Nanoseconds(ms))
           op == f.operator
           c == Condition("elapsed_ns", Cmp(op), <<v>>)
<1>1. c.column = "elapsed_ns" /\ c.cmp = Cmp(op)
    BY Zenon DEF Condition
<1>2. f.value.json = "number" /\ ms \in Int
    BY JsonKinds DEF IsFilter, Misshapen
<1>3. v = Num(ns)
    BY DEF PlainFilter, Nanoseconds
<1>4. Cmp(op) # "LIKE" /\ Cmp(op) # "IN"
    BY DEF Cmp
<1>5. Satisfies(row, c, <<v>>) <=> Compare(row.elapsed_ns, Cmp(op), AsI64(v))
    BY <1>1, <1>4, Zenon DEF Satisfies
<1>6. Says(row, f) <=> Compare(2 * row.elapsed_ns, Cmp(op), NS_PER_MS * (2 * ms))
    BY <1>2 DEF Says, Twice
<1>7. AsI64(Num(ns)) = ns
    BY DEF AsI64, Num, Json
<1>8. NS_PER_MS * (2 * ms) = 2 * ns /\ ns \in Int
    BY <1>2
<1> HIDE DEF v, c, ns, ms
<1>9. Compare(row.elapsed_ns, Cmp(op), ns) <=> Compare(2 * row.elapsed_ns, Cmp(op), 2 * ns)
    BY <1>8, CompareTwice, Zenon
<1> QED
    BY <1>3, <1>5, <1>6, <1>7, <1>8, <1>9, Zenon DEF v, c, ms

-----------------------------------------------------------------------------
(* From the filters of a request to the rows selected *)

\* The conditions a loop over the filters makes: at most one for a filter, with the
\* values it is compared with.
Makes(C, parts) ==
    /\ parts \in Seq(Seq(C))
    /\ \A i \in 1..Len(parts) : Len(parts[i]) <= 1
    /\ \A c \in C : c.values \in Seq(Elems(c.values))

LEMMA MadeConditions ==
    ASSUME NEW C, NEW parts, Makes(C, parts)
    PROVE  Conditions(Flat(parts))
<1> DEFINE conds == Flat(parts)
<1>1. conds \in Seq(C)
    BY FlatGathers DEF Makes
<1> HIDE DEF conds
<1>2. Len(conds) \in Nat /\ \A i \in 1..Len(conds) : conds[i] \in C
    BY <1>1, LenProperties, ElementOfSeq
<1>3. conds = [i \in 1..Len(conds) |-> conds[i]]
    BY <1>1, LenProperties
<1>4. [i \in 1..Len(conds) |-> conds[i]] \in Seq(Elems(conds))
    BY <1>2 DEF Elems
<1>5. conds \in Seq(Elems(conds))
    BY <1>3, <1>4
<1>6. \A i \in 1..Len(conds) : conds[i].values \in Seq(Elems(conds[i].values))
    BY <1>2, Zenon DEF Makes
<1> QED
    BY <1>5, <1>6 DEF Conditions, conds

\* A row is selected if it satisfies the condition of every filter that has one.
Selected(row, parts) ==
    \A i \in 1..Len(parts) :
        Len(parts[i]) = 1 => Satisfies(row, parts[i][1], parts[i][1].values)

LEMMA MadeOne ==
    ASSUME NEW C, NEW parts, Makes(C, parts), NEW i \in 1..Len(parts), Len(parts[i]) = 1
    PROVE  \E y \in 1..Len(Flat(parts)) : Flat(parts)[y] = parts[i][1]
<1>1. parts \in Seq(Seq(C)) /\ 1 \in 1..Len(parts[i])
    BY DEF Makes
<1>2. /\ Len(Flat(SubSeq(parts, 1, i - 1))) + 1 \in 1..Len(Flat(parts))
      /\ Flat(parts)[Len(Flat(SubSeq(parts, 1, i - 1))) + 1] = parts[i][1]
    BY <1>1, FlatPlaces
<1> QED
    BY <1>2

LEMMA MadeBy ==
    ASSUME NEW C, NEW parts, Makes(C, parts), NEW y \in 1..Len(Flat(parts))
    PROVE  \E i \in 1..Len(parts) : Len(parts[i]) = 1 /\ Flat(parts)[y] = parts[i][1]
<1>1. parts \in Seq(Seq(C))
    BY DEF Makes
<1>2. PICK i \in 1..Len(parts) : \E j \in 1..Len(parts[i]) : Flat(parts)[y] = parts[i][j]
  <2>1. Added(parts, Flat(parts)[y])
    BY <1>1, FlatSources
  <2> QED
    BY <2>1 DEF Added
<1>3. PICK j \in 1..Len(parts[i]) : Flat(parts)[y] = parts[i][j]
    BY <1>2
<1>4. parts[i] \in Seq(C)
    BY <1>1, ElementOfSeq
<1>5. Len(parts[i]) \in Nat /\ Len(parts[i]) <= 1
    BY <1>4, LenProperties DEF Makes
<1>6. j = 1 /\ Len(parts[i]) = 1
  <2> DEFINE n == Len(parts[i])
  <2>1. n \in Nat /\ n <= 1 /\ j \in 1..n
    BY <1>5
  <2> HIDE DEF n
  <2>2. j = 1 /\ n = 1
    BY <2>1
  <2> QED
    BY <2>2 DEF n
<1> QED
    BY <1>3, <1>6

LEMMA SelectSays ==
    ASSUME NEW C, NEW parts, Makes(C, parts), NEW table, Select(table, Flat(parts)) # Error
    PROVE  /\ Select(table, Flat(parts)) = {id \in DOMAIN table : Selected(table[id], parts)}
           /\ \A i \in 1..Len(parts) : Len(parts[i]) = 1 => WellTyped(parts[i][1])
<1> DEFINE conds == Flat(parts)
           params == Bound(bindings(conds))
           Sat(id, y) == Satisfies(table[id], conds[y], conds[y].values)
<1>1. Conditions(conds)
    BY MadeConditions
<1>2. Runs(conds, params)
    BY Zenon DEF Select
<1>3. Select(table, conds) = {id \in DOMAIN table :
          \A y \in 1..Len(conds) : Satisfies(table[id], conds[y], Args(conds, params, y))}
    BY <1>2, Zenon DEF Select
<1>4. \A y \in 1..Len(conds) : WellTyped(conds[y]) /\ Args(conds, params, y) = conds[y].values
  <2> HIDE DEF conds
  <2> QED
    BY <1>1, <1>2, OwnValues, Zenon
<1>5. \A i \in 1..Len(parts) : Len(parts[i]) = 1 => \E y \in 1..Len(conds) : conds[y] = parts[i][1]
    BY MadeOne
<1>6. \A y \in 1..Len(conds) : \E i \in 1..Len(parts) : Len(parts[i]) = 1 /\ conds[y] = parts[i][1]
    BY MadeBy
<1> HIDE DEF conds, params
<1>7. \A i \in 1..Len(parts) : Len(parts[i]) = 1 => WellTyped(parts[i][1])
    BY <1>4, <1>5, Zenon
<1>8. \A id \in DOMAIN table :
          (\A y \in 1..Len(conds) : Satisfies(table[id], conds[y], Args(conds, params, y)))
              <=> Selected(table[id], parts)
  <2> SUFFICES ASSUME NEW id \in DOMAIN table
               PROVE  (\A y \in 1..Len(conds) : Satisfies(table[id], conds[y], Args(conds, params, y)))
                          <=> Selected(table[id], parts)
    OBVIOUS
  <2>1. (\A y \in 1..Len(conds) : Satisfies(table[id], conds[y], Args(conds, params, y)))
            <=> (\A y \in 1..Len(conds) : Satisfies(table[id], conds[y], conds[y].values))
    BY <1>4, Zenon
  <2>2. (\A y \in 1..Len(conds) : Satisfies(table[id], conds[y], conds[y].values))
            => Selected(table[id], parts)
    BY <1>5, Zenon DEF Selected
  <2>3. Selected(table[id], parts)
            => (\A y \in 1..Len(conds) : Satisfies(table[id], conds[y], conds[y].values))
    BY <1>6, Zenon DEF Selected
  <2> QED
    BY <2>1, <2>2, <2>3, Zenon
<1>9. Select(table, conds) = {id \in DOMAIN table : Selected(table[id], parts)}
    BY <1>3, <1>8
<1> QED
    BY <1>7, <1>9 DEF conds

\* The filters of a request: a sequence of them.
Filters(filters) ==
    /\ filters \in Seq(Elems(filters))
    /\ \A i \in 1..Len(filters) : IsFilter(filters[i])

LEMMA OneValue ==
    ASSUME NEW v
    PROVE  <<v>> \in Seq(Elems(<<v>>))
BY DEF Elems

\* One condition, or none.
LEMMA OneOrNone ==
    ASSUME NEW C, NEW c, NEW p, p \in BOOLEAN, p => c \in C, NEW part, part = IF p THEN <<c>> ELSE <<>>
    PROVE  part \in Seq(C) /\ Len(part) <= 1 /\ (Len(part) = 1 <=> p) /\ (p => part[1] = c)
<1>1. CASE p
    BY <1>1
<1>2. CASE ~p
    BY <1>2
<1> QED
    BY <1>1, <1>2

\* export: the condition of a filter selects the rows the filter speaks of.
LEMMA ExportSays ==
    ASSUME NEW row, row.elapsed_ns \in Int, NEW f, IsFilter(f), PlainFilter(f), Exportable(f),
           WellTyped(build_filter_condition(f))
    PROVE  Satisfies(row, build_filter_condition(f), build_filter_condition(f).values) <=> Says(row, f)
<1>1. CASE f.field = "question" /\ f.operator = "like"
  <2> DEFINE s == <<Str(AsText(f.value))>>
  <2>1. build_filter_condition(f) = Condition(f.field, "LIKE", s)
    BY <1>1 DEF build_filter_condition
  <2>2. Condition(f.field, "LIKE", s).values = s
    BY DEF Condition
  <2> QED
    BY <1>1, <2>1, <2>2, QuestionSays, Zenon
<1>2. CASE f.operator # "like"
  <2> DEFINE s == <<f.value>>
             c == Condition(f.field, Cmp(f.operator), s)
  <2>1. build_filter_condition(f) = c
    BY <1>2 DEF build_filter_condition
  <2>2. c.values = s
    BY Zenon DEF Condition
  <2>3. CASE f.field = "status" /\ f.operator = "eq"
    BY <2>1, <2>2, <2>3, StatusSays, Zenon
  <2>4. CASE f.field = "elapsed_ns" /\ f.operator \in {"gt", "lt", "eq"}
    BY <2>1, <2>2, <2>4, ElapsedSays, Zenon
  <2> QED
    BY <1>2, <2>3, <2>4, Zenon DEF Exportable
<1> QED
    BY <1>1, <1>2, Zenon DEF Exportable

LEMMA BuildValues ==
    ASSUME NEW f
    PROVE  build_filter_condition(f).values \in Seq(Elems(build_filter_condition(f).values))
<1>1. PICK v : build_filter_condition(f).values = <<v>>
    BY DEF build_filter_condition, Condition
<1> QED
    BY <1>1, OneValue, Zenon

ExportParts(filters) ==
    [i \in 1..Len(filters) |->
        IF Exportable(filters[i]) THEN <<build_filter_condition(filters[i])>> ELSE <<>>]

LEMMA ExportMakes ==
    ASSUME NEW filters, Filters(filters)
    PROVE  /\ Makes({build_filter_condition(filters[i]) : i \in 1..Len(filters)}, ExportParts(filters))
           /\ Len(ExportParts(filters)) = Len(filters)
           /\ \A i \in 1..Len(filters) :
                 /\ Len(ExportParts(filters)[i]) = 1 <=> Exportable(filters[i])
                 /\ Exportable(filters[i]) => ExportParts(filters)[i][1] = build_filter_condition(filters[i])
<1> DEFINE C == {build_filter_condition(filters[i]) : i \in 1..Len(filters)}
           parts == ExportParts(filters)
<1>1. Len(filters) \in Nat
    BY LenProperties DEF Filters
<1>2. \A i \in 1..Len(filters) :
          parts[i] = IF Exportable(filters[i]) THEN <<build_filter_condition(filters[i])>> ELSE <<>>
    BY Zenon DEF ExportParts
<1>3. \A i \in 1..Len(filters) :
          /\ parts[i] \in Seq(C) /\ Len(parts[i]) <= 1
          /\ Len(parts[i]) = 1 <=> Exportable(filters[i])
          /\ Exportable(filters[i]) => parts[i][1] = build_filter_condition(filters[i])
  <2> SUFFICES ASSUME NEW i \in 1..Len(filters)
               PROVE  /\ parts[i] \in Seq(C) /\ Len(parts[i]) <= 1
                      /\ Len(parts[i]) = 1 <=> Exportable(filters[i])
                      /\ Exportable(filters[i]) => parts[i][1] = build_filter_condition(filters[i])
    BY Zenon
  <2> DEFINE c == build_filter_condition(filters[i])
             p == Exportable(filters[i])
             part == parts[i]
  <2>1. c \in C /\ p \in BOOLEAN /\ part = IF p THEN <<c>> ELSE <<>>
    BY <1>2, Zenon DEF Exportable
  <2> HIDE DEF c, p, part, C
  <2>2. part \in Seq(C) /\ Len(part) <= 1 /\ (Len(part) = 1 <=> p) /\ (p => part[1] = c)
    BY <2>1, OneOrNone, Zenon
  <2> QED
    BY <2>2 DEF c, p, part
<1>4. parts = [i \in 1..Len(filters) |-> parts[i]]
    BY DEF ExportParts
<1>5. \A c \in C : c.values \in Seq(Elems(c.values))
    BY BuildValues, Zenon
<1> HIDE DEF C, parts
<1>6. parts \in Seq(Seq(C)) /\ Len(parts) = Len(filters)
    BY <1>1, <1>3, <1>4
<1>7. Makes(C, parts)
    BY <1>3, <1>5, <1>6, Zenon DEF Makes
<1> QED
    BY <1>3, <1>6, <1>7, Zenon DEF C, parts

\* A request to export fails, or answers with the rows its filters speak of.
LEMMA ExportMeant ==
    ASSUME NEW filters, Filters(filters), \A i \in 1..Len(filters) : PlainFilter(filters[i]),
           NEW table, \A id \in DOMAIN table : table[id].elapsed_ns \in Int
    PROVE  Select(table, ExportConditions(filters)) \in {Error, Meant(table, filters, Exportable)}
<1> DEFINE C == {build_filter_condition(filters[i]) : i \in 1..Len(filters)}
           parts == ExportParts(filters)
<1>1. /\ Makes(C, parts) /\ Len(parts) = Len(filters)
      /\ \A i \in 1..Len(filters) :
            /\ Len(parts[i]) = 1 <=> Exportable(filters[i])
            /\ Exportable(filters[i]) => parts[i][1] = build_filter_condition(filters[i])
    BY ExportMakes, Zenon
<1>2. ExportConditions(filters) = Flat(parts)
    BY Zenon DEF ExportConditions, ExportParts
<1> HIDE DEF C, parts
<1> SUFFICES ASSUME Select(table, Flat(parts)) # Error
             PROVE  Select(table, Flat(parts)) = Meant(table, filters, Exportable)
    BY <1>2, Zenon
<1>3. /\ Select(table, Flat(parts)) = {id \in DOMAIN table : Selected(table[id], parts)}
      /\ \A i \in 1..Len(parts) : Len(parts[i]) = 1 => WellTyped(parts[i][1])
  <2>1. Makes(C, parts)
    BY <1>1, Zenon
  <2> QED
    BY <2>1, SelectSays, Zenon
<1>4. ASSUME NEW id \in DOMAIN table
      PROVE  Selected(table[id], parts)
                 <=> \A i \in 1..Len(filters) : Exportable(filters[i]) => Says(table[id], filters[i])
  <2>1. ASSUME NEW i \in 1..Len(filters), Exportable(filters[i])
        PROVE  Satisfies(table[id], parts[i][1], parts[i][1].values) <=> Says(table[id], filters[i])
    <3> DEFINE row == table[id]
               f == filters[i]
               c == build_filter_condition(filters[i])
    <3>1. parts[i][1] = c /\ WellTyped(c)
      BY <1>1, <1>3, <2>1, Zenon
    <3>2. row.elapsed_ns \in Int /\ IsFilter(f) /\ PlainFilter(f) /\ Exportable(f) /\ WellTyped(build_filter_condition(f))
      BY <2>1, <3>1 DEF Filters
    <3> HIDE DEF row, f
    <3>3. Satisfies(row, build_filter_condition(f), build_filter_condition(f).values) <=> Says(row, f)
      BY <3>2, ExportSays, Zenon
    <3> QED
      BY <3>1, <3>3, Zenon DEF row, f
  <2> QED
    BY <1>1, <2>1 DEF Selected
<1> QED
    BY <1>3, <1>4 DEF Meant

\* The QueryBuilder: the condition of each kind of filter.
LEMMA AddedCondition ==
    ASSUME NEW f, Known(f)
    PROVE  /\ f.operator = "between" => add_filter(f) = Condition(f.field, "BETWEEN", f.value.items)
           /\ f.operator = "relative" => add_filter(f) = Condition(f.field, "BETWEEN", <<f.value, f.value>>)
           /\ f.operator = "in" => add_filter(f) = Condition("status", "IN", f.value.items) /\ f.field = "status"
           /\ f.operator = "like" => add_filter(f) = Condition(f.field, "LIKE", <<Str(AsText(f.value))>>)
           /\ f.field = "elapsed_ms" =>
                 add_filter(f) = Condition("elapsed_ns", Cmp(f.operator), <<Num(Nanoseconds(f.value.n))>>)
           /\ f.operator \notin {"between", "relative", "in", "like"} /\ f.field # "elapsed_ms" =>
                 add_filter(f) = Condition(f.field, Cmp(f.operator), <<f.value>>)
<1>1. f.operator = "between" => add_filter(f) = Condition(f.field, "BETWEEN", f.value.items)
    BY DEF Known, add_filter
<1>2. f.operator = "relative" => add_filter(f) = Condition(f.field, "BETWEEN", <<f.value, f.value>>)
    BY DEF Known, add_filter, parse_relative_time
<1>3. f.operator = "in" => add_filter(f) = Condition("status", "IN", f.value.items) /\ f.field = "status"
    BY DEF Known, add_filter
<1>4. f.operator = "like" => add_filter(f) = Condition(f.field, "LIKE", <<Str(AsText(f.value))>>)
    BY DEF Known, add_filter
<1>5. f.field = "elapsed_ms" =>
          add_filter(f) = Condition("elapsed_ns", Cmp(f.operator), <<Num(Nanoseconds(f.value.n))>>)
    BY DEF Known, add_filter
<1>6. f.operator \notin {"between", "relative", "in", "like"} /\ f.field # "elapsed_ms" =>
          add_filter(f) = Condition(f.field, Cmp(f.operator), <<f.value>>)
    BY DEF Known, add_filter
<1> QED
    BY <1>1, <1>2, <1>3, <1>4, <1>5, <1>6, Zenon

LEMMA AddedValues ==
    ASSUME NEW f, Known(f), IsFilter(f)
    PROVE  add_filter(f).values \in Seq(Elems(add_filter(f).values))
<1>1. CASE f.operator \in {"between", "in"}
  <2>1. add_filter(f).values = f.value.items
    BY <1>1, AddedCondition DEF Condition
  <2> QED
    BY <2>1, JsonKinds, Zenon DEF IsFilter
<1>2. CASE f.operator = "relative"
  <2>1. add_filter(f).values = <<f.value, f.value>>
    BY <1>2, AddedCondition DEF Condition
  <2> QED
    BY <2>1 DEF Elems
<1>3. CASE f.operator \notin {"between", "in", "relative"}
  <2>1. PICK v : add_filter(f).values = <<v>>
    BY <1>3, AddedCondition DEF Condition
  <2> QED
    BY <2>1, OneValue, Zenon
<1> QED
    BY <1>1, <1>2, <1>3, Zenon

\* No value that is bound has the type of the time column.
LEMMA TimeFails ==
    ASSUME NEW c, c.column = "time", c.values \in Seq(Elems(c.values))
    PROVE  ~WellTyped(c)
<1> SUFFICES ASSUME WellTyped(c) PROVE FALSE
    OBVIOUS
<1> DEFINE s == c.values
<1>1. s # <<>> /\ s \in Seq(Elems(s))
    BY DEF WellTyped
<1>2. ColumnType(c.column) = "TIMESTAMPTZ"
    BY DEF ColumnType
<1>3. \A j \in 1..Len(s) : ParamType(s[j]) = "TIMESTAMPTZ"
    BY <1>2 DEF WellTyped
<1> HIDE DEF s
<1>4. 1 \in 1..Len(s)
    BY <1>1, EmptySeq
<1>5. ParamType(s[1]) = "TIMESTAMPTZ"
    BY <1>3, <1>4, Zenon
<1> QED
    BY <1>5 DEF ParamType

\* The QueryBuilder: the condition of a filter selects the rows the filter speaks of.
LEMMA BuilderSays ==
    ASSUME NEW row, row.elapsed_ns \in Int, NEW f, IsFilter(f), PlainFilter(f), Known(f), ~Misshapen(f),
           NS_PER_MS \in Nat, WellTyped(add_filter(f))
    PROVE  Satisfies(row, add_filter(f), add_filter(f).values) <=> Says(row, f)
<1> DEFINE Plainly == Condition(f.field, Cmp(f.operator), <<f.value>>)
<1>0. Plainly.values = <<f.value>>
    BY DEF Condition
<1>1. CASE f.field = "time"
  <2>1. add_filter(f).column = "time"
    <3>1. \E cmp, values : add_filter(f) = Condition("time", cmp, values)
      BY <1>1, AddedCondition, Zenon DEF Known
    <3> QED
      BY <3>1 DEF Condition
  <2>2. add_filter(f).values \in Seq(Elems(add_filter(f).values))
    BY AddedValues
  <2> QED
    BY <2>1, <2>2, TimeFails, Zenon
<1>2. CASE f.field = "question"
  <2> DEFINE s == <<Str(AsText(f.value))>>
  <2>1. f.operator = "like" /\ add_filter(f) = Condition(f.field, "LIKE", s)
    BY <1>2, AddedCondition, Zenon DEF Known
  <2>2. Condition(f.field, "LIKE", s).values = s
    BY Zenon DEF Condition
  <2> QED
    BY <1>2, <2>1, <2>2, QuestionSays, Zenon
<1>3. CASE f.field = "status" /\ f.operator = "eq"
  <2>1. add_filter(f) = Plainly
    BY <1>3, AddedCondition, Zenon
  <2> QED
    BY <1>0, <1>3, <2>1, StatusSays
<1>4. CASE f.field = "status" /\ f.operator = "in"
  <2>1. add_filter(f) = Condition("status", "IN", f.value.items)
    BY <1>4, AddedCondition, Zenon
  <2>2. Condition("status", "IN", f.value.items).values = f.value.items
    BY Zenon DEF Condition
  <2> QED
    BY <1>4, <2>1, <2>2, StatusInSays, Zenon
<1>5. CASE f.field = "elapsed_ns"
  <2>1. f.operator \in {"gt", "lt", "gte", "lte", "eq"}
    BY <1>5 DEF Known
  <2>2. add_filter(f) = Plainly
    BY <1>5, <2>1, AddedCondition, Zenon
  <2> QED
    BY <1>0, <1>5, <2>1, <2>2, ElapsedSays, Zenon
<1>6. CASE f.field = "elapsed_ms"
  <2> DEFINE s == <<Num(Nanoseconds(f.value.n))>>
  <2>1. f.operator \in {"gt", "lt", "gte", "lte", "eq"}
    BY <1>6 DEF Known
  <2>2. add_filter(f) = Condition("elapsed_ns", Cmp(f.operator), s)
    BY <1>6, AddedCondition, Zenon
  <2>3. Condition("elapsed_ns", Cmp(f.operator), s).values = s
    BY Zenon DEF Condition
  <2> QED
    BY <1>6, <2>1, <2>2, <2>3, MillisSays, Zenon
<1> QED
    BY <1>1, <1>2, <1>3, <1>4, <1>5, <1>6, Zenon DEF Known

BuilderParts(filters) ==
    [i \in 1..Len(filters) |-> IF Known(filters[i]) THEN <<add_filter(filters[i])>> ELSE <<>>]
BuilderMade(filters) ==
    {add_filter(filters[i]) : i \in {n \in 1..Len(filters) : Known(filters[n])}}

LEMMA BuilderMakes ==
    ASSUME NEW filters, Filters(filters)
    PROVE  /\ Makes(BuilderMade(filters), BuilderParts(filters))
           /\ Len(BuilderParts(filters)) = Len(filters)
           /\ \A i \in 1..Len(filters) :
                 /\ Len(BuilderParts(filters)[i]) = 1 <=> Known(filters[i])
                 /\ Known(filters[i]) => BuilderParts(filters)[i][1] = add_filter(filters[i])
<1> DEFINE C == BuilderMade(filters)
           parts == BuilderParts(filters)
<1>1. Len(filters) \in Nat
    BY LenProperties DEF Filters
<1>2. \A i \in 1..Len(filters) :
          parts[i] = IF Known(filters[i]) THEN <<add_filter(filters[i])>> ELSE <<>>
    BY DEF BuilderParts
<1>3. \A i \in 1..Len(filters) :
          /\ parts[i] \in Seq(C) /\ Len(parts[i]) <= 1
          /\ Len(parts[i]) = 1 <=> Known(filters[i])
          /\ Known(filters[i]) => parts[i][1] = add_filter(filters[i])
  <2> SUFFICES ASSUME NEW i \in 1..Len(filters)
               PROVE  /\ parts[i] \in Seq(C) /\ Len(parts[i]) <= 1
                      /\ Len(parts[i]) = 1 <=> Known(filters[i])
                      /\ Known(filters[i]) => parts[i][1] = add_filter(filters[i])
    BY Zenon
  <2> DEFINE c == add_filter(filters[i])
             p == Known(filters[i])
             part == parts[i]
  <2>1. p \in BOOLEAN /\ part = IF p THEN <<c>> ELSE <<>>
    BY <1>2 DEF Known
  <2>2. p => c \in C
    BY DEF BuilderMade
  <2> HIDE DEF c, p, part, C
  <2>3. part \in Seq(C) /\ Len(part) <= 1 /\ (Len(part) = 1 <=> p) /\ (p => part[1] = c)
    BY <2>1, <2>2, OneOrNone
  <2> QED
    BY <2>3 DEF c, p, part
<1>4. parts = [i \in 1..Len(filters) |-> parts[i]]
    BY DEF BuilderParts
<1>5. \A c \in C : c.values \in Seq(Elems(c.values))
  <2> SUFFICES ASSUME NEW i \in 1..Len(filters), Known(filters[i])
               PROVE  add_filter(filters[i]).values \in Seq(Elems(add_filter(filters[i]).values))
    BY Zenon DEF BuilderMade
  <2> QED
    BY AddedValues DEF Filters
<1> HIDE DEF C, parts
<1>6. parts \in Seq(Seq(C)) /\ Len(parts) = Len(filters)
    BY <1>1, <1>3, <1>4
<1>7. Makes(C, parts)
    BY <1>3, <1>5, <1>6 DEF Makes
<1> QED
    BY <1>3, <1>6, <1>7, Zenon DEF C, parts

\* What the QueryBuilder's statement selects, with numbered placeholders.
LEMMA BuilderMeant ==
    ASSUME NEW filters, Filters(filters), \A i \in 1..Len(filters) : PlainFilter(filters[i]),
           Accepted(filters), NS_PER_MS \in Nat,
           NEW table, \A id \in DOMAIN table : table[id].elapsed_ns \in Int
    PROVE  Select(table, BuilderConditions(filters)) \in {Error, Meant(table, filters, Known)}
<1> DEFINE C == BuilderMade(filters)
           parts == BuilderParts(filters)
<1>1. /\ Makes(C, parts) /\ Len(parts) = Len(filters)
      /\ \A i \in 1..Len(filters) :
            /\ Len(parts[i]) = 1 <=> Known(filters[i])
            /\ Known(filters[i]) => parts[i][1] = add_filter(filters[i])
    BY BuilderMakes
<1>2. BuilderConditions(filters) = Flat(parts)
    BY Zenon DEF BuilderConditions, BuilderParts
<1> HIDE DEF C, parts
<1> SUFFICES ASSUME Select(table, Flat(parts)) # Error
             PROVE  Select(table, Flat(parts)) = Meant(table, filters, Known)
    BY <1>2, Zenon
<1>3. /\ Select(table, Flat(parts)) = {id \in DOMAIN table : Selected(table[id], parts)}
      /\ \A i \in 1..Len(parts) : Len(parts[i]) = 1 => WellTyped(parts[i][1])
  <2>1. Makes(C, parts)
    BY <1>1, Zenon
  <2> QED
    BY <2>1, SelectSays, Zenon
<1>4. ASSUME NEW id \in DOMAIN table
      PROVE  Selected(table[id], parts)
                 <=> \A i \in 1..Len(filters) : Known(filters[i]) => Says(table[id], filters[i])
  <2>1. ASSUME NEW i \in 1..Len(filters), Known(filters[i])
        PROVE  Satisfies(table[id], parts[i][1], parts[i][1].values) <=> Says(table[id], filters[i])
    <3> DEFINE row == table[id]
               f == filters[i]
               c == add_filter(filters[i])
    <3>1. parts[i][1] = c /\ WellTyped(c)
      BY <1>1, <1>3, <2>1, Zenon
    <3>2. row.elapsed_ns \in Int /\ IsFilter(f) /\ PlainFilter(f) /\ Known(f) /\ WellTyped(add_filter(f)) /\ ~Misshapen(f)
      BY <2>1, <3>1, Zenon DEF Filters, Accepted
    <3> HIDE DEF row, f
    <3>3. Satisfies(row, add_filter(f), add_filter(f).values) <=> Says(row, f)
      BY <3>2, BuilderSays
    <3> QED
      BY <3>1, <3>3, Zenon DEF row, f
  <2> QED
    BY <1>1, <2>1, Zenon DEF Selected
<1> QED
    BY <1>3, <1>4, Zenon DEF Meant

\* Without any condition, no filter of the request was one the QueryBuilder knows.
LEMMA NothingBuilt ==
    ASSUME NEW filters, Filters(filters), BuilderConditions(filters) = <<>>, NEW table
    PROVE  Meant(table, filters, Known) = DOMAIN table
<1> DEFINE C == BuilderMade(filters)
           parts == BuilderParts(filters)
<1>1. /\ Makes(C, parts) /\ Len(parts) = Len(filters)
      /\ \A i \in 1..Len(filters) : Len(parts[i]) = 1 <=> Known(filters[i])
    BY BuilderMakes
<1>2. Flat(parts) = <<>>
    BY DEF BuilderConditions, BuilderParts
<1> HIDE DEF C, parts
<1>3. parts \in Seq(Seq(C))
    BY <1>1 DEF Makes
<1>4. \A i \in 1..Len(parts) : parts[i] = <<>>
    BY <1>2, <1>3, FlatEmpty, Zenon
<1>5. \A i \in 1..Len(filters) : ~Known(filters[i])
  <2> SUFFICES ASSUME NEW i \in 1..Len(filters) PROVE Len(parts[i]) # 1
    BY <1>1
  <2>1. parts[i] = <<>>
    BY <1>1, <1>4
  <2> QED
    BY <2>1
<1> QED
    BY <1>5, Zenon DEF Meant

\* A condition on the time makes the statement fail.
LEMMA TimeErrors ==
    ASSUME NEW conds, Conditions(conds), NEW i \in 1..Len(conds), conds[i].column = "time", NEW table
    PROVE  Select(table, conds) = Error
<1> SUFFICES ASSUME Select(table, conds) # Error PROVE FALSE
    OBVIOUS
<1>1. Runs(conds, Bound(bindings(conds)))
    BY Zenon DEF Select
<1>2. WellTyped(conds[i])
    BY <1>1, OwnValues
<1>3. conds[i].values \in Seq(Elems(conds[i].values))
    BY DEF Conditions
<1> QED
    BY <1>2, <1>3, TimeFails

-----------------------------------------------------------------------------
(* The answers of requests with filters *)

HasKind == "kind" \in DOMAIN reader
RowsElapsed == \A id \in DOMAIN query_log : query_log[id].elapsed_ns \in Int

\* An answer is what its filters mean; the rows and the reader are what a request needs.
AnswersInv == HasKind /\ RowsElapsed /\ AnswersMeant

LEMMA GroupsCounted ==
    ASSUME NEW ids, NEW column
    PROVE  Groups(ids, column, "count") = MeantGroups(ids, column, "count")
BY DEF Groups, MeantGroups

LEMMA RequestFilters ==
    ASSUME NEW fs \in FilterSets
    PROVE  Filters(fs) /\ (Plain(fs) => \A i \in 1..Len(fs) : PlainFilter(fs[i])) /\ NS_PER_MS \in Nat
<1>1. Filters(fs)
    BY FilterAssumption, Zenon DEF Filters, IsFilter, Elems
<1>2. Plain(fs) => \A i \in 1..Len(fs) : PlainFilter(fs[i])
    BY DEF Plain, PlainFilter
<1> QED
    BY <1>1, <1>2, FilterAssumption, Zenon

LEMMA AnswerMeant ==
    ASSUME NEW answer, NEW meant, NEW plain, Answer(answer, meant, plain), plain => answer \in {Error, meant}
    PROVE  AnswersMeant'
BY DEF Answer, AnswersMeant

LEMMA UnnumberedMeant ==
    ASSUME NEW fs \in FilterSets
    PROVE  Unnumbered(fs) = Error \/ Unnumbered(fs) = Meant(query_log, fs, Known)
<1>1. CASE BuilderConditions(fs) = <<>>
  <2>1. Meant(query_log, fs, Known) = Ids
    BY <1>1, RequestFilters, NothingBuilt, Zenon DEF Ids
  <2> QED
    BY <2>1 DEF Unnumbered
<1>2. CASE BuilderConditions(fs) # <<>>
    BY <1>2 DEF Unnumbered
<1> QED
    BY <1>1, <1>2

\* top: its only condition is on the time.
LEMMA TopFails ==
    ASSUME NEW c, c.column = "time", c.values \in Seq(Elems(c.values)), NEW table
    PROVE  Select(table, <<c>>) = Error
<1> DEFINE conds == <<c>>
<1>1. Len(conds) = 1 /\ conds[1] = c /\ 1 \in 1..Len(conds)
    OBVIOUS
<1>2. conds \in Seq(Elems(conds))
    BY OneValue
<1> HIDE DEF conds
<1>3. \A i \in 1..Len(conds) : i = 1
    BY <1>1
<1>4. Conditions(conds)
    BY <1>1, <1>2, <1>3, Zenon DEF Conditions
<1>5. Select(table, conds) = Error
    BY <1>1, <1>4, TimeErrors, Zenon
<1> QED
    BY <1>5 DEF conds

\* suggest: its second condition is.
LEMMA SuggestFails ==
    ASSUME NEW b, b.values \in Seq(Elems(b.values)), NEW c, c.column = "time", c.values \in Seq(Elems(c.values)),
           NEW table
    PROVE  Select(table, <<b, c>>) = Error
<1> DEFINE conds == <<b, c>>
<1>1. Len(conds) = 2 /\ conds[1] = b /\ conds[2] = c /\ 2 \in 1..Len(conds)
    OBVIOUS
<1>2. conds \in Seq(Elems(conds))
    BY DEF Elems
<1> HIDE DEF conds
<1>3. \A i \in 1..Len(conds) : i = 1 \/ i = 2
    BY <1>1
<1>4. Conditions(conds)
    BY <1>1, <1>2, <1>3, Zenon DEF Conditions
<1>5. Select(table, conds) = Error
    BY <1>1, <1>4, TimeErrors, Zenon
<1> QED
    BY <1>5 DEF conds

LEMMA FilteredAnswers ==
    ASSUME AnswersInv, Filtered
    PROVE  AnswersInv'
<1>0. \A id \in DOMAIN query_log : query_log[id].elapsed_ns \in Int
    BY DEF AnswersInv, RowsElapsed
<1>1. ASSUME NEW fs \in FilterSets, NEW ranged, export(fs, ranged) PROVE AnswersMeant'
  <2> DEFINE answer == IF ranged THEN Error ELSE Select(query_log, ExportConditions(fs))
             meant == Meant(query_log, fs, Exportable)
  <2>1. Answer(answer, meant, Plain(fs))
    BY <1>1 DEF export
  <2>2. Plain(fs) => answer \in {Error, meant}
    <3>1. Plain(fs) => Select(query_log, ExportConditions(fs)) \in {Error, meant}
      BY <1>0, RequestFilters, ExportMeant, Zenon
    <3> QED
      BY <3>1
  <2> HIDE DEF answer, meant
  <2> QED
    BY <2>1, <2>2, AnswerMeant, Zenon
<1>2. ASSUME NEW fs \in FilterSets, NEW metric, aggregate(fs, metric) PROVE AnswersMeant'
  <2> DEFINE ids == IF Accepted(fs) THEN Select(query_log, BuilderConditions(fs)) ELSE Error
             rows == Meant(query_log, fs, Known)
             answer == IF ids = Error THEN Error ELSE Groups(ids, "status", metric)
             meant == MeantGroups(rows, "status", metric)
             plain == Plain(fs) /\ metric = "count"
  <2>1. Answer(answer, meant, plain)
    BY <1>2 DEF aggregate
  <2>2. Plain(fs) => ids \in {Error, rows}
    <3>1. Plain(fs) /\ Accepted(fs) => Select(query_log, BuilderConditions(fs)) \in {Error, rows}
      BY <1>0, RequestFilters, BuilderMeant, Zenon
    <3> QED
      BY <3>1, Zenon
  <2> HIDE DEF ids, rows
  <2>3. plain => answer \in {Error, meant}
    BY <2>2, GroupsCounted, Zenon
  <2> HIDE DEF answer, meant, plain
  <2> QED
    BY <2>1, <2>3, AnswerMeant, Zenon
<1>3. ASSUME NEW fs \in FilterSets, list_advanced(fs) \/ list_advanced_post(fs) PROVE AnswersMeant'
  <2>1. Answer(Unnumbered(fs), Meant(query_log, fs, Known), Plain(fs))
    BY <1>3 DEF list_advanced, list_advanced_post
  <2>2. Unnumbered(fs) \in {Error, Meant(query_log, fs, Known)}
    BY UnnumberedMeant
  <2> QED
    BY <2>1, <2>2, AnswerMeant, Zenon
<1>4. ASSUME NEW fs \in FilterSets, aggregate_all(fs) PROVE AnswersMeant'
  <2> DEFINE ids == Unnumbered(fs)
             rows == Meant(query_log, fs, Known)
             answer == IF ids = Error THEN Error ELSE Cardinality(ids)
  <2>1. Answer(answer, Cardinality(rows), Plain(fs))
    BY <1>4 DEF aggregate_all
  <2>2. ids = Error \/ ids = rows
    BY UnnumberedMeant
  <2> HIDE DEF ids, rows
  <2>3. answer \in {Error, Cardinality(rows)}
    BY <2>2, Zenon
  <2> HIDE DEF answer
  <2> QED
    BY <2>1, <2>3, AnswerMeant, Zenon
<1>5. ASSUME top("question") PROVE AnswersMeant'
  <2> DEFINE d == Str("24h")
             c == Condition("time", "BETWEEN", <<d, d>>)
             ids == Select(query_log, <<c>>)
             answer == IF ids = Error THEN Error ELSE Groups(ids, "question", "count")
             meant == MeantGroups(Ids, "question", "count")
  <2>1. Answer(answer, meant, TRUE)
    BY <1>5, Zenon DEF top, parse_relative_time
  <2>2. <<d, d>> \in Seq(Elems(<<d, d>>))
    <3> HIDE DEF d
    <3> QED
      BY DEF Elems
  <2>3. c.column = "time" /\ c.values \in Seq(Elems(c.values))
    <3>1. c.column = "time" /\ c.values = <<d, d>>
      BY DEF Condition
    <3> HIDE DEF c, d
    <3> QED
      BY <2>2, <3>1
  <2>4. ids = Error
    <3> HIDE DEF c
    <3> QED
      BY <2>3, TopFails
  <2> HIDE DEF ids, meant
  <2>5. answer = Error
    BY <2>4
  <2> HIDE DEF answer
  <2> QED
    BY <2>1, <2>5 DEF Answer, AnswersMeant
<1>6. ASSUME NEW prefix, suggest(prefix) PROVE AnswersMeant'
  <2> DEFINE u == Str(prefix)
             w == Str("")
             b == Condition("question", "LIKE", <<u>>)
             c == Condition("time", ">=", <<w>>)
             answer == Select(query_log, <<b, c>>)
             meant == Meant(query_log, <<Filter("question", "like", Str(prefix))>>, Known)
  <2>1. Answer(answer, meant, TRUE)
    BY <1>6, Zenon DEF suggest
  <2>2. <<u>> \in Seq(Elems(<<u>>)) /\ <<w>> \in Seq(Elems(<<w>>))
    <3> HIDE DEF u, w
    <3> QED
      BY OneValue
  <2>3. b.values = <<u>> /\ c.values = <<w>> /\ c.column = "time"
    <3> HIDE DEF u, w
    <3> QED
      BY DEF Condition
  <2>4. answer = Error
    <3>1. /\ b.values \in Seq(Elems(b.values)) /\ c.column = "time"
          /\ c.values \in Seq(Elems(c.values))
      <4> HIDE DEF b, c, u, w
      <4> QED
        BY <2>2, <2>3
    <3> HIDE DEF b, c
    <3> QED
      BY <3>1, SuggestFails
  <2> HIDE DEF answer, meant
  <2> QED
    BY <2>1, <2>4 DEF Answer, AnswersMeant
<1>7. \E answer, meant, plain : Answer(answer, meant, plain)
    BY Zenon DEF Filtered, export, aggregate, list_advanced, list_advanced_post, aggregate_all, top, suggest
<1>8. HasKind' /\ RowsElapsed'
    BY <1>7 DEF Answer, HasKind, ReadOnly, AnswersInv, RowsElapsed
<1>9. AnswersMeant'
    BY <1>1, <1>2, <1>3, <1>4, <1>5, <1>6, Zenon DEF Filtered
<1> QED
    BY <1>8, <1>9 DEF AnswersInv

\* The history a client carries keeps its kind, and an answer stays as it is.
LEMMA FollowKeeps ==
    ASSUME HasKind, NEW table, NEW now
    PROVE  /\ "kind" \in DOMAIN Follow(table, now)
           /\ Follow(table, now).kind = "answered" => Follow(table, now) = reader
<1> DEFINE r == Follow(table, now)
<1>1. CASE reader.kind = "cursor"
  <2>1. PICK stay : r = [reader EXCEPT !.stay = stay]
    BY <1>1 DEF Follow
  <2> QED
    BY <1>1, <2>1 DEF HasKind
<1>2. CASE reader.kind = "offset"
  <2>1. PICK stay, lost : r = [reader EXCEPT !.stay = stay, !.lost = lost]
    BY <1>2, Zenon DEF Follow
  <2> QED
    BY <1>2, <2>1, Zenon DEF HasKind
<1>3. CASE reader.kind = "stats"
  <2>1. PICK came, left : r = [reader EXCEPT !.came = came, !.left = left]
    BY <1>3, Zenon DEF Follow
  <2> QED
    BY <1>3, <2>1, Zenon DEF HasKind
<1>4. CASE reader.kind \notin {"cursor", "offset", "stats"}
  <2>1. r = reader
    BY <1>4, Zenon DEF Follow
  <2> QED
    BY <2>1 DEF HasKind
<1> QED
    BY <1>1, <1>2, <1>3, <1>4, Zenon

LEMMA ChangeKeeps ==
    ASSUME AnswersInv, NEW table, Change(table), \A id \in DOMAIN table : table[id].elapsed_ns \in Int
    PROVE  AnswersInv'
<1>1. query_log' = table /\ reader' = Follow(table, clock)
    BY DEF Change
<1>2. RowsElapsed'
    BY <1>1, Zenon DEF RowsElapsed
<1>3. HasKind' /\ (reader'.kind = "answered" => reader' = reader)
    BY <1>1, FollowKeeps, Zenon DEF AnswersInv, HasKind
<1> QED
    BY <1>2, <1>3, Zenon DEF AnswersInv, AnswersMeant

LEMMA WithoutKeeps ==
    ASSUME AnswersInv, NEW ids, Change(Without(ids))
    PROVE  AnswersInv'
<1>1. \A id \in DOMAIN Without(ids) : Without(ids)[id].elapsed_ns \in Int
    BY DEF Without, Ids, AnswersInv, RowsElapsed
<1> QED
    BY <1>1, ChangeKeeps

LEMMA LogKeeps ==
    ASSUME AnswersInv, Log
    PROVE  AnswersInv'
<1>1. ASSUME NEW e \in Entries, NEW t, Insert(e, t) PROVE AnswersInv'
  <2> DEFINE row == [time |-> t, status |-> e.status, question |-> e.question, elapsed_ns |-> e.elapsed_ns]
             table == [id \in Ids \cup {next_id} |-> IF id = next_id THEN row ELSE query_log[id]]
  <2>1. Change(table)
    BY <1>1, Zenon DEF Insert
  <2>2. row.elapsed_ns \in Int
    BY FilterAssumption, Zenon
  <2> HIDE DEF row
  <2>3. \A id \in DOMAIN table : table[id].elapsed_ns \in Int
    BY <2>2 DEF Ids, AnswersInv, RowsElapsed
  <2> HIDE DEF table
  <2> QED
    BY <2>1, <2>3, ChangeKeeps, Zenon
<1>2. ASSUME NEW ids, bulk_delete(ids) PROVE AnswersInv'
    BY <1>2, WithoutKeeps, Zenon DEF bulk_delete
<1>3. CASE Rotate
    BY <1>3, WithoutKeeps, Zenon DEF Rotate
<1>4. CASE Tick
  <2>1. query_log' = query_log /\ reader' = Follow(query_log, clock + 1)
    BY <1>4 DEF Tick
  <2>2. HasKind' /\ (reader'.kind = "answered" => reader' = reader)
    BY <2>1, FollowKeeps DEF AnswersInv, HasKind
  <2> QED
    BY <2>1, <2>2, Zenon DEF AnswersInv, RowsElapsed, AnswersMeant
<1> QED
    BY <1>1, <1>2, <1>3, <1>4, Zenon DEF Log

\* A step of another request gives no answer.
LEMMA OthersAnswer ==
    ASSUME HasKind, List \/ Counts \/ Close
    PROVE  HasKind' /\ reader'.kind # "answered" /\ query_log' = query_log
<1>1. ASSUME NEW want, NEW cursor, StartCursor(want, cursor) PROVE HasKind' /\ reader'.kind = "cursor" /\ ReadOnly
    BY <1>1, Zenon DEF StartCursor, HasKind
<1>2. ASSUME NEW want, StartOffset(want) PROVE HasKind' /\ reader'.kind = "offset" /\ ReadOnly
    BY <1>2 DEF StartOffset, HasKind
<1>3. CASE CursorPage
  <2>1. PICK seen, more, cursor : reader' = [reader EXCEPT !.seen = seen, !.more = more, !.cursor = cursor]
    BY <1>3, Zenon DEF CursorPage
  <2>2. reader.kind = "cursor" /\ query_log' = query_log
    BY <1>3 DEF CursorPage, ReadOnly
  <2> QED
    BY <2>1, <2>2, Zenon DEF HasKind
<1>4. CASE OffsetRows
  <2>1. PICK page, tied :
            reader' = [reader EXCEPT !.seen = @ \cup Range(page), !.returned = Len(page),
                                     !.tied = @ \/ tied, !.place = "count"]
    BY <1>4, Zenon DEF OffsetRows
  <2>2. reader.kind = "offset" /\ query_log' = query_log
    BY <1>4 DEF OffsetRows, ReadOnly
  <2> QED
    BY <2>1, <2>2, Zenon DEF HasKind
<1>5. CASE OffsetCount
  <2>1. PICK offset, place : reader' = [reader EXCEPT !.offset = offset, !.place = place]
    BY <1>5, Zenon DEF OffsetCount
  <2>2. reader.kind = "offset" /\ query_log' = query_log
    BY <1>5, Zenon DEF OffsetCount, ReadOnly
  <2> QED
    BY <2>1, <2>2, Zenon DEF HasKind
<1>6. CASE get_stats
    BY <1>6 DEF get_stats, HasKind, ReadOnly
<1>7. ASSUME NEW place, NEW next, NEW field \in {"blocked", "cached", "yesterday"}, NEW value,
             Statement(place, next, field, value)
      PROVE  HasKind' /\ reader'.kind # "answered" /\ query_log' = query_log
    BY <1>7 DEF Statement, HasKind, ReadOnly
<1>8. CASE get_anomalies
  <2>1. ReadOnly /\ reader'.kind = "anomalies" /\ HasKind'
    BY <1>8, Zenon DEF get_anomalies, HasKind
  <2> QED
    BY <2>1 DEF ReadOnly
<1>9. CASE AnomalyCurrent
    BY <1>9, Zenon DEF AnomalyCurrent, Idle, HasKind, ReadOnly
<1>10. CASE AnomalyAlert \/ Close
    BY <1>10 DEF AnomalyAlert, Close, Idle, HasKind, ReadOnly
<1>11. CASE List
    BY <1>1, <1>2, <1>3, <1>4, <1>5, <1>11, Zenon DEF List, ReadOnly
<1>12. CASE Counts
    BY <1>6, <1>7, <1>8, <1>9, <1>10, <1>12, Zenon DEF Counts, StatsBlocked, StatsCached, StatsYesterday
<1> QED
    BY <1>10, <1>11, <1>12, Zenon

\* A request with filters fails or answers with the rows its filters speak of, for any
\* number of filters and any rows: the values that are bound stay in step with the
\* numbered placeholders of the statement (query_log::export and the QueryBuilder).
THEOREM AnswersCorrect == Spec => []AnswersMeant
<1>1. Init => AnswersInv
    BY DEF Init, Idle, AnswersInv, HasKind, RowsElapsed, AnswersMeant
<1>2. AnswersInv /\ [Next]_vars => AnswersInv'
  <2> SUFFICES ASSUME AnswersInv, [Next]_vars PROVE AnswersInv'
    OBVIOUS
  <2>1. CASE Filtered
    BY <2>1, FilteredAnswers
  <2>2. CASE Log
    BY <2>2, LogKeeps, Zenon
  <2>3. CASE List \/ Counts \/ Close
    BY <2>3, OthersAnswer, Zenon DEF AnswersInv, RowsElapsed, AnswersMeant
  <2>4. CASE UNCHANGED vars
    BY <2>4 DEF vars, AnswersInv, HasKind, RowsElapsed, AnswersMeant
  <2> QED
    BY <2>1, <2>2, <2>3, <2>4 DEF Next
<1> QED
    BY <1>1, <1>2, PTL DEF Spec, AnswersInv
=============================================================================

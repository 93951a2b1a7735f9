------------------------------ MODULE LossyLog ------------------------------
(***************************************************************************)
(* What the query log promises to whoever reads the table query_log:       *)
(* entries reach the table in the order in which they were accepted, none  *)
(* twice, in all-or-nothing batches of at most MaxBatch, and an entry that *)
(* was turned away never appears.  It does not promise that an accepted    *)
(* entry reaches the table: the oldest entries may be discarded instead.   *)
(***************************************************************************)
EXTENDS Naturals, Sequences

CONSTANTS
    ClientIps, Statuses,  \* who asked, and what became of the query
    MaxBatch              \* the largest batch that is written at once

VARIABLES
    logged,   \* how many entries have been offered
    pending,  \* accepted and not yet decided, oldest first
    stored    \* the table, in insertion order

vars == <<logged, pending, stored>>

Entries == [id : Nat, client_ip : ClientIps, status : Statuses]

Init == logged = 0 /\ pending = <<>> /\ stored = <<>>

Accept(e) ==
    /\ e.id = logged + 1
    /\ logged' = logged + 1
    /\ pending' = Append(pending, e)
    /\ UNCHANGED stored

Reject ==
    /\ logged' = logged + 1
    /\ UNCHANGED <<pending, stored>>

\* The oldest n entries are decided: TLC evaluates both halves with SubSeq.
Oldest(n) == SubSeq(pending, 1, n)
Younger(n) == SubSeq(pending, n + 1, Len(pending))

Persist(n) ==
    /\ pending' = Younger(n)
    /\ stored' = stored \o Oldest(n)
    /\ UNCHANGED logged

Discard(n) ==
    /\ pending' = Younger(n)
    /\ UNCHANGED <<logged, stored>>

Next ==
    \/ \E c \in ClientIps, s \in Statuses :
           Accept([id |-> logged + 1, client_ip |-> c, status |-> s])
    \/ Reject
    \/ \E n \in 1..MaxBatch : n <= Len(pending) /\ (Persist(n) \/ Discard(n))

Spec == Init /\ [][Next]_vars
=============================================================================

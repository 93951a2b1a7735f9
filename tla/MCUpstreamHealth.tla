-------------------------- MODULE MCUpstreamHealth --------------------------
(***************************************************************************)
(* Small instances of UpstreamHealth for TLC.                              *)
(***************************************************************************)
EXTENDS UpstreamHealth, TLC

CONSTANTS u1, w1, w2, s1, s2

Seeded(status) ==
    [is_active |-> TRUE, health_check_enabled |-> TRUE, failover_enabled |-> TRUE,
     health_status |-> status]

\* The rows migration 002 seeds.
Seeds == {Seeded("healthy")}

\* Requests are alike, and so are strategies, which are only stored and copied.
Symmetry == Permutations({w1, w2}) \cup Permutations({s1, s2})
=============================================================================

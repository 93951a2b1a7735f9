-------------------------- MODULE MCQueryLogWriter --------------------------
(***************************************************************************)
(* Small instances of QueryLogWriter for TLC.                              *)
(***************************************************************************)
EXTENDS QueryLogWriter, TLC

CONSTANTS c1, c2

ClientSymmetry == Permutations({c1, c2})
=============================================================================

---------------------------- MODULE MCDnsHandler ----------------------------
(***************************************************************************)
(* Small instances of DnsHandler for TLC.                                  *)
(***************************************************************************)
EXTENDS DnsHandler, TLC

CONSTANTS q1, q2, q3, c1, d1

OneNode == <<"u1">>
TwoNodes == <<"u1", "u2">>

QuerySymmetry == Permutations({q1, q2, q3})
=============================================================================

---------------------------- MODULE MCDnsServer ----------------------------
(***************************************************************************)
(* A small instance of DnsServer for TLC: two connections and two queries  *)
(* for one permit each, so that both limits are met.                       *)
(***************************************************************************)
EXTENDS DnsServer

CONSTANTS t1, t2, q1, q2, r1
=============================================================================

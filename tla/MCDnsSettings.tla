--------------------------- MODULE MCDnsSettings ---------------------------
(***************************************************************************)
(* A small instance of DnsSettings for TLC.                                *)
(***************************************************************************)
EXTENDS DnsSettings

CONSTANTS p1, p2, q1, n1

FromN1 == [q \in Queries |-> n1]

Asks(allowed, denied, strategy) ==
    [allowed |-> allowed, denied |-> denied, strategy |-> strategy]

\* One list, the other, a list that is refused, and both kinds of strategy.
FewBodies ==
    {Asks({n1}, None, None), Asks(None, {n1}, "unknown"), Asks({Invalid}, {}, None),
     Asks({}, None, "known"), Asks(None, None, "known")}
=============================================================================

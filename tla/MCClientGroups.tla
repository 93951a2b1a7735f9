--------------------------- MODULE MCClientGroups ---------------------------
(* Two groups, two clients, a custom rule, and concurrent requests drawn     *)
(* from the lists below.                                                     *)
EXTENDS ClientGroups, TLC

Symmetry == Permutations(Handlers)

Custom == <<"r1", "custom_rule">>
Unknown == <<"r1", "filter">>
MCRules == {Custom, Unknown}

Move(from, to) == [op |-> "move", from |-> from, to |-> to, items |-> <<"c1">>]

\* Batches of two members in either order, moves, bindings of a rule and of an
\* unknown type, and the deletion of the group they are for.
MCRequests ==
    {[op |-> "add", group |-> "g1", items |-> <<"c1", "c2">>],
     [op |-> "add", group |-> "g1", items |-> <<"c2", "c1">>],
     [op |-> "remove", group |-> "g1", items |-> <<"c1", "c2">>],
     Move("g1", "g2"), Move(None, "g1"), Move("g1", None),
     [op |-> "bind", group |-> "g1", items |-> <<Custom, Unknown>>],
     [op |-> "bind", group |-> "g1", items |-> <<Custom>>],
     [op |-> "unbind", group |-> "g1", items |-> <<Custom>>],
     [op |-> "delete", group |-> "g1"]}
=============================================================================

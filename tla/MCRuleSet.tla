----------------------------- MODULE MCRuleSet -----------------------------
(***************************************************************************)
(* Small instances of RuleSet for TLC.                                     *)
(***************************************************************************)
EXTENDS RuleSet

Labels == {"ad-1", "ad-2", "x", "com"}

\* Every domain of one to three labels.
AllDomains == UNION {[1..n -> Labels] : n \in 1..3}

Ad == {"ad-1", "ad-2"}  \* what the label ad-* matches

Line(form, name) == [form |-> form, name |-> name]

\* One line of every form, on names that overlap.
AllForms ==
    {Line("adguard", <<"x", "com">>), Line("allow", <<"ad-1", "com">>),
     Line("allow_plain", <<"x", "com">>), Line("leading_dot", <<"ad-2", "com">>),
     Line("hosts", <<"x", "local">>), Line("hosts", <<"ad-1", "x", "com">>),
     Line("star", <<"com">>), Line("plain", <<"com">>), Line("plain", <<"ad-2", "x", "com">>),
     Line("plain", <<"bad_label", "com">>),
     Line("wildcard", <<Ad, {"com"}>>), Line("wildcard", <<Labels, {"x"}>>),
     Line("wildcard", <<Ad>>), Line("wildcard", <<{"x"}, Ad>>),
     Line("allow_wildcard", <<Labels, {"x"}, {"com"}>>),
     Line("block_all", <<"*">>), Line("comment", <<"x">>), Line("regex", <<"x">>)}

StarLines == {Line("star", <<"x", "com">>)}
AllowLines == {Line("allow_plain", <<"x", "com">>), Line("allow", <<"x", "com">>)}
WildcardLines == {Line("wildcard", <<Ad, {"com"}>>), Line("wildcard", <<{"x"}, Ad>>)}
=============================================================================

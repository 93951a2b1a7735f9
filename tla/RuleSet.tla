------------------------------ MODULE RuleSet ------------------------------
(***************************************************************************)
(* The AdGuard-style rule set a reload of the filter engine builds and     *)
(* publishes (dns/rules.rs): lines are parsed one by one into two domain   *)
(* sets and two pattern lists, build compiles the patterns, and a lookup   *)
(* walks up the labels of a domain.                                        *)
(*                                                                         *)
(* A domain is a sequence of labels, most specific first.  A wildcard      *)
(* pattern is a sequence of sets of labels: {l} for the literal label l,   *)
(* and for a label with a star the labels it matches.  A line is its form  *)
(* and its name; the characters that make a form are left out.             *)
(***************************************************************************)
EXTENDS Naturals, Sequences, FiniteSets

CONSTANTS
    Lines,       \* rule lines: [form, name] as below
    Domains,     \* domains that are looked up
    BadLabels,   \* labels is_valid_domain refuses
    RegexLimit,  \* how many patterns RegexSet::new can compile
    MaxLines,    \* bound: different lines offered to one rule set
    NotBuilt     \* the value None of a compiled set

PlainForms == {"adguard", "allow", "allow_plain", "leading_dot", "hosts", "star", "plain"}
WildcardForms == {"wildcard", "allow_wildcard"}
OtherForms == {"block_all", "comment", "regex"}

ASSUME RuleSetAssumption ==
    /\ \A l \in Lines : l.form \in PlainForms \cup WildcardForms \cup OtherForms
    /\ \A l \in Lines :
          /\ l.name \in IF l.form \in WildcardForms THEN Seq(SUBSET STRING) ELSE Seq(STRING)
          /\ l.name # <<>>
    /\ Domains \subseteq Seq(STRING)
    /\ RegexLimit \in Nat /\ MaxLines \in Nat

VARIABLES
    blocked, allowed,           \* the two AHashSets
    wildcard_blocked_patterns, wildcard_allowed_patterns,
    wildcard_blocked_set, wildcard_allowed_set,  \* compiled, or NotBuilt
    block_all,
    \* History, read by no action of the program:
    offered,                    \* lines add_rule was called with
    accepted,                   \* lines for which it returned true
    built                       \* build was called after the last add_rule

patterns == <<wildcard_blocked_patterns, wildcard_allowed_patterns>>
compiled == <<wildcard_blocked_set, wildcard_allowed_set>>
line_history == <<offered, accepted, built>>
rule_set_vars == <<blocked, allowed, patterns, compiled, block_all, line_history>>

RuleSetInit ==
    /\ blocked = {} /\ allowed = {}
    /\ wildcard_blocked_patterns = {} /\ wildcard_allowed_patterns = {}
    /\ wildcard_blocked_set = NotBuilt /\ wildcard_allowed_set = NotBuilt
    /\ block_all = FALSE
    /\ offered = {} /\ accepted = {} /\ built = FALSE

-----------------------------------------------------------------------------
(* Parsing *)

\* A dot, or localhost, and labels of letters, digits and inner hyphens.
is_valid_domain(d) ==
    /\ Len(d) > 1 \/ d = <<"localhost">>
    /\ \A i \in DOMAIN d : d[i] \notin BadLabels

\* A hosts line is skipped for localhost and for names under .local.
parse_hosts_line(d) == is_valid_domain(d) /\ d # <<"localhost">> /\ d[Len(d)] # "local"

\* What a line of each form adds.  *.name is not validated; @@name without bars
\* is no AdGuard domain and is refused; a wildcard needs a dot.
Blocks(l) ==
    \/ l.form \in {"adguard", "leading_dot", "plain"} /\ is_valid_domain(l.name)
    \/ l.form = "hosts" /\ parse_hosts_line(l.name)
    \/ l.form = "star"
Allows(l) == l.form = "allow" /\ is_valid_domain(l.name)
BlocksPattern(l) == l.form = "wildcard" /\ Len(l.name) > 1
AllowsPattern(l) == l.form = "allow_wildcard" /\ Len(l.name) > 1
BlocksAll(l) == l.form = "block_all"

Accepts(l) ==
    Blocks(l) \/ Allows(l) \/ BlocksPattern(l) \/ AllowsPattern(l) \/ BlocksAll(l)

\* Mutant of add_rule: a new pattern keeps the compiled sets.
add_rule_KeepsCompiled(l) ==
    /\ blocked' = IF Blocks(l) THEN blocked \cup {l.name} ELSE blocked
    /\ allowed' = IF Allows(l) THEN allowed \cup {l.name} ELSE allowed
    /\ wildcard_blocked_patterns' =
          wildcard_blocked_patterns \cup (IF BlocksPattern(l) THEN {l.name} ELSE {})
    /\ wildcard_allowed_patterns' =
          wildcard_allowed_patterns \cup (IF AllowsPattern(l) THEN {l.name} ELSE {})
    /\ block_all' = (block_all \/ BlocksAll(l))
    /\ offered' = offered \cup {l}
    /\ accepted' = IF Accepts(l) THEN accepted \cup {l} ELSE accepted
    /\ built' = FALSE
    /\ UNCHANGED compiled

\* A new pattern discards the compiled set of its kind.
add_rule(l) ==
    /\ blocked' = IF Blocks(l) THEN blocked \cup {l.name} ELSE blocked
    /\ allowed' = IF Allows(l) THEN allowed \cup {l.name} ELSE allowed
    /\ IF BlocksPattern(l)
       THEN /\ wildcard_blocked_patterns' = wildcard_blocked_patterns \cup {l.name}
            /\ wildcard_blocked_set' = NotBuilt
       ELSE UNCHANGED <<wildcard_blocked_patterns, wildcard_blocked_set>>
    /\ IF AllowsPattern(l)
       THEN /\ wildcard_allowed_patterns' = wildcard_allowed_patterns \cup {l.name}
            /\ wildcard_allowed_set' = NotBuilt
       ELSE UNCHANGED <<wildcard_allowed_patterns, wildcard_allowed_set>>
    /\ block_all' = (block_all \/ BlocksAll(l))
    /\ offered' = offered \cup {l}
    /\ accepted' = IF Accepts(l) THEN accepted \cup {l} ELSE accepted
    /\ built' = FALSE

\* RegexSet::new compiles all patterns or none; an error leaves None.
Compiled(ps) == IF ps = {} \/ Cardinality(ps) > RegexLimit THEN NotBuilt ELSE ps

build ==
    /\ wildcard_blocked_set' = Compiled(wildcard_blocked_patterns)
    /\ wildcard_allowed_set' = Compiled(wildcard_allowed_patterns)
    /\ built' = TRUE
    /\ UNCHANGED <<blocked, allowed, patterns, block_all, offered, accepted>>

RuleSetNext ==
    \/ \E l \in Lines : Cardinality(offered \cup {l}) <= MaxLines /\ add_rule(l)
    \/ build

RuleSetSpec == RuleSetInit /\ [][RuleSetNext]_rule_set_vars

-----------------------------------------------------------------------------
(* Lookup *)

\* The walk to the parent domains: d with its first n labels cut off.
Parent(d, n) == SubSeq(d, n + 1, Len(d))

\* Mutant of matches_set: parent domains are not tried.
matches_set_Exact(d, set) == d \in set

matches_set(d, set) == \E n \in 0..(Len(d) - 1) : Parent(d, n) \in set

\* ^pattern$: as many labels, each matched.
IsMatch(p, d) == Len(p) = Len(d) /\ \A i \in DOMAIN p : d[i] \in p[i]

matches_wildcard_set(d, set) ==
    /\ set # NotBuilt
    /\ \E n \in 0..(Len(d) - 1) : \E p \in set : IsMatch(p, Parent(d, n))

match_domain(d) ==
    IF matches_set(d, allowed) \/ matches_wildcard_set(d, wildcard_allowed_set) THEN "Allowed"
    ELSE IF block_all \/ matches_set(d, blocked) \/ matches_wildcard_set(d, wildcard_blocked_set)
    THEN "Blocked"
    ELSE "None"

-----------------------------------------------------------------------------
(* Properties *)

\* The meaning the head of dns/rules.rs gives a line: it speaks of a domain and
\* everything below it.
Below(d, name) ==
    \E k \in 0..Len(d) :
        k + Len(name) = Len(d) /\ \A i \in DOMAIN name : d[k + i] = name[i]

BelowPattern(d, p) ==
    \E k \in 0..Len(d) :
        k + Len(p) = Len(d) /\ \A i \in DOMAIN p : d[k + i] \in p[i]

Speaks(l, d) ==
    CASE l.form \in WildcardForms -> BelowPattern(d, l.name)
      [] l.form = "block_all" -> TRUE
      [] OTHER -> Below(d, l.name)

Allowing == {"allow", "allow_plain", "allow_wildcard"}

Ready(set, ps) == set # NotBuilt \/ ps = {}

\* The accepted lines but for the wildcards of a kind that is not compiled,
\* because build was not called or RegexSet::new refused the patterns.
Effective ==
    {l \in accepted :
        /\ l.form = "wildcard" => wildcard_blocked_set # NotBuilt
        /\ l.form = "allow_wildcard" => wildcard_allowed_set # NotBuilt}

Verdict(d) ==
    IF \E l \in Effective : l.form \in Allowing /\ Speaks(l, d) THEN "Allowed"
    ELSE IF \E l \in Effective : l.form \notin Allowing /\ Speaks(l, d) THEN "Blocked"
    ELSE "None"

\* The sets and compiled patterns answer as the accepted lines say, whatever the
\* order in which lines were added and builds were made; patterns that do not
\* compile cost the wildcards of their kind and no other line.
MatchesLines == \A d \in Domains : match_domain(d) = Verdict(d)

\* "Subsequent add_rule() calls after build() will clear the compiled sets": a
\* lookup never uses a compiled set that misses a pattern.
CompiledIsCurrent ==
    /\ wildcard_blocked_set \in {NotBuilt, wildcard_blocked_patterns}
    /\ wildcard_allowed_set \in {NotBuilt, wildcard_allowed_patterns}

\* "*.example.com - wildcard subdomain block": it does not block example.com.
StarSparesItsDomain ==
    \A l \in accepted :
        l.form = "star" =>
            (match_domain(l.name) = "Blocked" =>
                 \E m \in accepted \ {l} : Speaks(m, l.name))

\* "Allowlist: @@||domain^ or @@domain": both exempt a valid domain.
PlainAllowAccepted ==
    \A l \in offered :
        (l.form = "allow_plain" /\ is_valid_domain(l.name)) => l \in accepted

\* "Compile all accumulated wildcard patterns": after build no accepted wildcard
\* is without effect.
WildcardsEffective ==
    built => /\ Ready(wildcard_blocked_set, wildcard_blocked_patterns)
             /\ Ready(wildcard_allowed_set, wildcard_allowed_patterns)
=============================================================================

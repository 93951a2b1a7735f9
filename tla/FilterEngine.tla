---------------------------- MODULE FilterEngine ----------------------------
(***************************************************************************)
(* The filter engine of the DNS server (dns/filter.rs) and everything that *)
(* makes it reload: the rule, rewrite and settings handlers of the         *)
(* management API and the task that watches for expired rules.             *)
(*                                                                         *)
(* A handler commits its change to PostgreSQL and then calls reload(),     *)
(* which reads the tables one statement at a time, builds a rule set and a *)
(* rewrite map and stores them one after the other.  Nothing serialises    *)
(* two reloads.  Between two statements any other process may run; a       *)
(* statement may fail; a handler whose HTTP client goes away is dropped at *)
(* the statement it is waiting for.                                        *)
(***************************************************************************)
EXTENDS Naturals, Sequences

CONSTANTS
    Rules,        \* ids of the user rows of custom_rules
    RewriteIds,   \* ids of the rows of dns_rewrites
    Domains,      \* domains a rewrite may name
    Answers,      \* addresses a rewrite may answer with
    Configured,   \* settings the server may start with
    Bodies,       \* settings updates a client may send, as sequences
    Workers,      \* API requests served at the same time
    Cleanup,      \* the task run_expired_rules_cleanup_task
    NoRow,        \* "no such row in dns_rewrites"
    MaxClock,     \* bound on the clock
    MaxRequests   \* bound on the requests of a behaviour

Procs == Workers \cup {Cleanup}

Settings == {"safe_search_enabled",
             "parental_control_enabled", "parental_control_level"}

(***************************************************************************)
(* expires_at of a row: an instant, or NULL, which no clock reaches.       *)
(***************************************************************************)
NoExpiry == MaxClock + 1
Expiries == 0 .. NoExpiry

RuleRows == [row : {"none", "on", "off"}, expires_at : Expiries]
RewriteRows == [domain : Domains, answer : Answers]
Writes == [key : Settings, value : BOOLEAN]

RuleSets == [custom : SUBSET Rules, parental : BOOLEAN]
RewriteMaps == [custom : SUBSET (Domains \X Answers), safe : BOOLEAN]

ASSUME ConstantsAssumption ==
    /\ Cleanup \notin Workers
    /\ MaxClock \in Nat
    /\ MaxRequests \in Nat
    /\ Configured \subseteq [Settings -> BOOLEAN]
    /\ Bodies \subseteq Seq(Writes)
    /\ NoRow \notin RewriteRows

Kinds == {"rules", "rewrites"}

VARIABLES
    clock,
    custom_rules,  \* [Rules -> RuleRows]
    dns_rewrites,  \* [RewriteIds -> RewriteRows \cup {NoRow}]
    settings,      \* [Settings -> BOOLEAN]; a level other than none is TRUE
    rules,         \* ArcSwap<RuleSet> of the engine
    rewrites,      \* ArcSwap<HashMap> of the engine
    pc,            \* where each process is
    now_rfc3339,   \* per process: the clock its reload started at
    new_rules,     \* per process: the rule set its reload is building
    new_rewrites,  \* per process: the rewrite map its reload is building
    rule_read,     \* per process: row read by rules::update
    rewrite_read,  \* per process: id of the row read by rewrites::update
    todo,          \* per process: settings update_dns has yet to write
    requests,      \* requests received so far
    \* History, read by no action of the program:
    owes,          \* per process: what its committed write changed
    tainted,       \* per process: what changed, or was misread, under its reload
    stale,         \* kinds whose stored value is known not to be the latest
    removing,      \* per process: domains whose rewrite it has just deleted
    removed        \* domains whose rewrite was deleted, and the client told so

db == <<clock, custom_rules, dns_rewrites, settings>>
engine == <<rules, rewrites>>
reload_vars == <<now_rfc3339, new_rules, new_rewrites>>
handler_vars == <<rule_read, rewrite_read, todo>>
history == <<owes, tainted, stale, removing, removed>>
vars == <<db, engine, pc, reload_vars, handler_vars, requests, history>>

Reloading == {"rules", "rewrites", "safe", "parental", "level",
              "store_rules", "store_rewrites"}
Locations == Reloading \cup {"idle", "update_rule", "update_rewrite", "setting"}

-----------------------------------------------------------------------------
(***************************************************************************)
(* What the tables say the engine should hold.                             *)
(***************************************************************************)
Active(r, now) ==
    custom_rules[r].row = "on" /\ custom_rules[r].expires_at > now

ActiveRules(now) == {r \in Rules : Active(r, now)}

RewritePairs ==
    {<<dns_rewrites[i].domain, dns_rewrites[i].answer>> :
        i \in {j \in RewriteIds : dns_rewrites[j] # NoRow}}

ParentalOn == settings["parental_control_enabled"]
              /\ settings["parental_control_level"]

DesiredRules == [custom |-> ActiveRules(clock), parental |-> ParentalOn]
DesiredRewrites == [custom |-> RewritePairs,
                    safe |-> settings["safe_search_enabled"]]

-----------------------------------------------------------------------------
(***************************************************************************)
(* What a reload in progress reads may no longer be what it should store.  *)
(***************************************************************************)
Overtake(k) ==
    tainted' = [q \in Procs |->
                   IF pc[q] \in Reloading THEN tainted[q] \cup {k} ELSE tainted[q]]

\* p commits a change of kind k: it owes a reload, and overtakes the others.
Commit(p, k) ==
    /\ owes' = [owes EXCEPT ![p] = @ \cup {k}]
    /\ Overtake(k)

\* p leaves its reload without storing: what it owes stays undone.
GiveUp(p) ==
    /\ stale' = stale \cup owes[p]
    /\ owes' = [owes EXCEPT ![p] = {}]
    /\ tainted' = [tainted EXCEPT ![p] = {}]
    /\ removing' = [removing EXCEPT ![p] = {}]

(***************************************************************************)
(* reload() begins: it takes the time and counts the rows.  Its local      *)
(* values are gone when it returns.                                        *)
(***************************************************************************)
BeginReload(p) ==
    /\ pc' = [pc EXCEPT ![p] = "rules"]
    /\ now_rfc3339' = [now_rfc3339 EXCEPT ![p] = clock]
    /\ UNCHANGED <<new_rules, new_rewrites>>

NoRules == [custom |-> {}, parental |-> FALSE]
NoRewrites == [custom |-> {}, safe |-> FALSE]

EndReload(p) ==
    /\ now_rfc3339' = [now_rfc3339 EXCEPT ![p] = 0]
    /\ new_rules' = [new_rules EXCEPT ![p] = NoRules]
    /\ new_rewrites' = [new_rewrites EXCEPT ![p] = NoRewrites]

\* update_dns goes on to its next setting after a reload; all others return.
AfterReload(p) ==
    IF todo[p] = <<>> THEN "idle" ELSE "setting"

\* A request that commits its change with its only statement, then reloads.
Request(p) ==
    /\ pc[p] = "idle"
    /\ requests < MaxRequests
    /\ requests' = requests + 1

-----------------------------------------------------------------------------
(***************************************************************************)
(* api/handlers/rules.rs.  A statement that fails before it commits        *)
(* leaves no trace, so only the committing case is an action.              *)
(***************************************************************************)
WriteRules(p, rows) ==
    /\ custom_rules' = rows
    /\ Commit(p, "rules")
    /\ BeginReload(p)
    /\ UNCHANGED <<clock, dns_rewrites, settings, engine, stale, removing, removed>>

CreateRule(p, r, e) ==
    /\ Request(p)
    /\ custom_rules[r].row = "none"
    /\ WriteRules(p, [custom_rules EXCEPT ![r] = [row |-> "on", expires_at |-> e]])
    /\ UNCHANGED handler_vars

DeleteRule(p, r) ==
    /\ Request(p)
    /\ custom_rules[r].row # "none"
    /\ WriteRules(p, [custom_rules EXCEPT ![r].row = "none"])
    /\ UNCHANGED handler_vars

ToggleRule(p, r, row) ==
    /\ Request(p)
    /\ custom_rules[r].row # "none"
    /\ WriteRules(p, [custom_rules EXCEPT ![r].row = row])
    /\ UNCHANGED handler_vars

\* Ids that name no row are skipped; the reload happens even if all are.
BulkAction(p, ids, row) ==
    /\ Request(p)
    /\ ids # {}
    /\ WriteRules(p, [r \in Rules |->
                         IF r \in ids /\ custom_rules[r].row # "none"
                         THEN [custom_rules[r] EXCEPT !.row = row]
                         ELSE custom_rules[r]])
    /\ UNCHANGED handler_vars

\* One transaction; rules that are there already are skipped.
ImportRules(p, ids) ==
    /\ Request(p)
    /\ \E r \in ids : custom_rules[r].row = "none"
    /\ WriteRules(p, [r \in Rules |->
                         IF r \in ids /\ custom_rules[r].row = "none"
                         THEN [row |-> "on", expires_at |-> NoExpiry]
                         ELSE custom_rules[r]])
    /\ UNCHANGED handler_vars

\* rules::update first reads the row ...
ReadRuleForUpdate(p, r) ==
    /\ Request(p)
    /\ custom_rules[r].row # "none"
    /\ pc' = [pc EXCEPT ![p] = "update_rule"]
    /\ rule_read' = [rule_read EXCEPT ![p] = [id |-> r, row |-> custom_rules[r].row]]
    /\ UNCHANGED <<db, engine, reload_vars, rewrite_read, todo, history>>

\* ... and reloads only if is_enabled differs from what it read.
UpdateRuleStatus(p, row) ==
    LET r == rule_read[p].id
        rows == [custom_rules EXCEPT ![r].row = row]
    IN  /\ pc[p] = "update_rule"
        /\ custom_rules[r].row # "none"
        /\ IF row # rule_read[p].row
           THEN WriteRules(p, rows)
           ELSE /\ custom_rules' = rows
                /\ pc' = [pc EXCEPT ![p] = "idle"]
                /\ IF rows = custom_rules
                   THEN UNCHANGED <<owes, tainted, stale>>
                   ELSE /\ stale' = stale \cup {"rules"}
                        /\ Overtake("rules")
                        /\ UNCHANGED owes
                /\ UNCHANGED <<clock, dns_rewrites, settings, engine, reload_vars,
                               removing, removed>>
        /\ rule_read' = [rule_read EXCEPT ![p] = NoRow]
        /\ UNCHANGED <<rewrite_read, todo, requests>>

\* A body with expires_at (or a new rule text) always reloads, whatever else it sets.
UpdateRuleExpiry(p, row, e) ==
    LET r == rule_read[p].id
    IN  /\ pc[p] = "update_rule"
        /\ custom_rules[r].row # "none"
        /\ WriteRules(p, [custom_rules EXCEPT ![r] = [row |-> row, expires_at |-> e]])
        /\ rule_read' = [rule_read EXCEPT ![p] = NoRow]
        /\ UNCHANGED <<rewrite_read, todo, requests>>

-----------------------------------------------------------------------------
(***************************************************************************)
(* api/handlers/rewrites.rs.  dns_rewrites.domain is UNIQUE.               *)
(***************************************************************************)
WriteRewrites(p, rows) ==
    /\ dns_rewrites' = rows
    /\ Commit(p, "rewrites")
    /\ BeginReload(p)
    /\ UNCHANGED <<clock, custom_rules, settings, engine, stale>>

Free(i, d) ==
    \A j \in RewriteIds \ {i} : dns_rewrites[j] # NoRow => dns_rewrites[j].domain # d

\* Domain d has a rewrite again: its earlier removal no longer counts.
Reinstate(d) ==
    /\ removing' = [q \in Procs |-> removing[q] \ {d}]
    /\ removed' = removed \ {d}

CreateRewrite(p, i, row) ==
    /\ Request(p)
    /\ dns_rewrites[i] = NoRow
    /\ Free(i, row.domain)
    /\ WriteRewrites(p, [dns_rewrites EXCEPT ![i] = row])
    /\ Reinstate(row.domain)
    /\ UNCHANGED handler_vars

\* Mutant of DeleteRewrite: the reload is forgotten.
DeleteRewrite_NoReload(p, i) ==
    /\ Request(p)
    /\ dns_rewrites[i] # NoRow
    /\ dns_rewrites' = [dns_rewrites EXCEPT ![i] = NoRow]
    /\ Overtake("rewrites")
    /\ UNCHANGED <<clock, custom_rules, settings, engine, pc, reload_vars, handler_vars,
                   owes, stale, removing, removed>>

DeleteRewrite(p, i) ==
    /\ Request(p)
    /\ dns_rewrites[i] # NoRow
    /\ WriteRewrites(p, [dns_rewrites EXCEPT ![i] = NoRow])
    /\ removing' = [removing EXCEPT ![p] = {dns_rewrites[i].domain}]
    /\ UNCHANGED <<handler_vars, removed>>

ReadRewriteForUpdate(p, i) ==
    /\ Request(p)
    /\ dns_rewrites[i] # NoRow
    /\ pc' = [pc EXCEPT ![p] = "update_rewrite"]
    /\ rewrite_read' = [rewrite_read EXCEPT ![p] = i]
    /\ UNCHANGED <<db, engine, reload_vars, rule_read, todo, history>>

\* If the row is gone the UPDATE matches nothing and the handler reloads anyway.
UpdateRewrite(p, row) ==
    LET i == rewrite_read[p]
    IN  /\ pc[p] = "update_rewrite"
        /\ IF dns_rewrites[i] = NoRow
           THEN WriteRewrites(p, dns_rewrites) /\ UNCHANGED <<removing, removed>>
           ELSE /\ Free(i, row.domain)
                /\ WriteRewrites(p, [dns_rewrites EXCEPT ![i] = row])
                /\ Reinstate(row.domain)
        /\ rewrite_read' = [rewrite_read EXCEPT ![p] = NoRow]
        /\ UNCHANGED <<rule_read, todo, requests>>

-----------------------------------------------------------------------------
(***************************************************************************)
(* settings::update_dns writes the settings of the body one by one, each   *)
(* followed by a reload of its own whose failure is only logged.           *)
(***************************************************************************)
KindOf(key) == IF key = "safe_search_enabled" THEN "rewrites" ELSE "rules"

UpdateDns(p, body) ==
    /\ Request(p)
    /\ body # <<>>
    /\ pc' = [pc EXCEPT ![p] = "setting"]
    /\ todo' = [todo EXCEPT ![p] = body]
    /\ UNCHANGED <<db, engine, reload_vars, rule_read, rewrite_read, history>>

WriteSetting(p) ==
    LET write == Head(todo[p])
    IN  /\ pc[p] = "setting"
        /\ settings' = [settings EXCEPT ![write.key] = write.value]
        /\ todo' = [todo EXCEPT ![p] = Tail(@)]
        /\ Commit(p, KindOf(write.key))
        /\ BeginReload(p)
        /\ UNCHANGED <<clock, custom_rules, dns_rewrites, engine, rule_read,
                       rewrite_read, requests, stale, removing, removed>>

-----------------------------------------------------------------------------
\* Mutant of CleanupTick: the rules that are enabled are not counted.
CleanupTick_Disabled ==
    /\ pc[Cleanup] = "idle"
    /\ \E r \in Rules : /\ custom_rules[r].row = "off"
                        /\ custom_rules[r].expires_at <= clock
    /\ BeginReload(Cleanup)
    /\ UNCHANGED <<db, engine, handler_vars, requests, history>>

(***************************************************************************)
(* run_expired_rules_cleanup_task: rows that have expired are counted, and *)
(* never deleted.                                                          *)
(***************************************************************************)
CleanupTick ==
    /\ pc[Cleanup] = "idle"
    /\ \E r \in Rules : /\ custom_rules[r].row # "none"
                        /\ custom_rules[r].expires_at <= clock
    /\ BeginReload(Cleanup)
    /\ UNCHANGED <<db, engine, handler_vars, requests, history>>

-----------------------------------------------------------------------------
(***************************************************************************)
(* FilterEngine::reload, one action per statement and per store.           *)
(***************************************************************************)
ReloadStep(p, from, to) ==
    /\ pc[p] = from
    /\ pc' = [pc EXCEPT ![p] = to]
    /\ UNCHANGED <<db, handler_vars, requests>>

ReadRules(p) ==
    /\ ReloadStep(p, "rules", "rewrites")
    /\ new_rules' = [new_rules EXCEPT
                        ![p] = [custom |-> ActiveRules(now_rfc3339[p]), parental |-> FALSE]]
    /\ UNCHANGED <<engine, now_rfc3339, new_rewrites, history>>

ReadRewrites(p) ==
    /\ ReloadStep(p, "rewrites", "safe")
    /\ new_rewrites' = [new_rewrites EXCEPT
                           ![p] = [custom |-> RewritePairs, safe |-> FALSE]]
    /\ UNCHANGED <<engine, now_rfc3339, new_rules, history>>

\* The three settings reads treat an error as "off".
Misread(p, k) ==
    /\ tainted' = [tainted EXCEPT ![p] = @ \cup {k}]
    /\ stale' = stale \cup (owes[p] \cap {k})
    /\ UNCHANGED <<owes, removing, removed>>

ReadSafeSearch(p) ==
    /\ ReloadStep(p, "safe", "parental")
    /\ \/ /\ new_rewrites' = [new_rewrites EXCEPT
                                ![p].safe = settings["safe_search_enabled"]]
          /\ UNCHANGED history
       \/ /\ UNCHANGED new_rewrites
          /\ Misread(p, "rewrites")
    /\ UNCHANGED <<engine, now_rfc3339, new_rules>>

ReadParentalEnabled(p) ==
    /\ \/ /\ ReloadStep(p, "parental", IF settings["parental_control_enabled"]
                                        THEN "level" ELSE "store_rules")
          /\ UNCHANGED history
       \/ /\ ReloadStep(p, "parental", "store_rules")
          /\ Misread(p, "rules")
    /\ UNCHANGED <<engine, reload_vars>>

\* Mutant of ReadParentalLevel: the level none blocks like the others.
ReadParentalLevel_AnyLevel(p) ==
    /\ ReloadStep(p, "level", "store_rules")
    /\ new_rules' = [new_rules EXCEPT ![p].parental = TRUE]
    /\ UNCHANGED <<engine, now_rfc3339, new_rewrites, history>>

ReadParentalLevel(p) ==
    /\ ReloadStep(p, "level", "store_rules")
    /\ \/ /\ new_rules' = [new_rules EXCEPT
                             ![p].parental = settings["parental_control_level"]]
          /\ UNCHANGED history
       \/ /\ UNCHANGED new_rules
          /\ Misread(p, "rules")
    /\ UNCHANGED <<engine, now_rfc3339, new_rewrites>>

Stored(p, k) ==
    stale' = IF k \in tainted[p] THEN stale \cup {k} ELSE stale \ {k}

StoreRules(p) ==
    /\ ReloadStep(p, "store_rules", "store_rewrites")
    /\ rules' = new_rules[p]
    /\ Stored(p, "rules")
    /\ owes' = [owes EXCEPT ![p] = @ \ {"rules"}]
    /\ UNCHANGED <<rewrites, reload_vars, tainted, removing, removed>>

StoreRewrites(p) ==
    /\ ReloadStep(p, "store_rewrites", AfterReload(p))
    /\ rewrites' = new_rewrites[p]
    /\ Stored(p, "rewrites")
    /\ owes' = [owes EXCEPT ![p] = {}]
    /\ tainted' = [tainted EXCEPT ![p] = {}]
    /\ removed' = removed \cup removing[p]
    /\ removing' = [removing EXCEPT ![p] = {}]
    /\ EndReload(p)
    /\ UNCHANGED rules

\* A statement of the reload fails and reload() returns the error.
ReloadFails(p) ==
    /\ \/ pc[p] \in {"rules", "rewrites"}
       \/ pc[p] = "level" /\ settings["parental_control_level"]
    /\ pc' = [pc EXCEPT ![p] = AfterReload(p)]
    /\ GiveUp(p)
    /\ EndReload(p)
    /\ UNCHANGED <<db, engine, handler_vars, requests, removed>>

(***************************************************************************)
(* A handler ends early: its statement fails, or its client disconnects    *)
(* and the HTTP server drops it where it awaits the database.              *)
(***************************************************************************)
Abandon(p) ==
    /\ pc[p] \notin {"idle", "store_rules", "store_rewrites"}
    /\ pc' = [pc EXCEPT ![p] = "idle"]
    /\ todo' = [todo EXCEPT ![p] = <<>>]
    /\ rule_read' = [rule_read EXCEPT ![p] = NoRow]
    /\ rewrite_read' = [rewrite_read EXCEPT ![p] = NoRow]
    /\ GiveUp(p)
    /\ EndReload(p)
    /\ UNCHANGED <<db, engine, requests, removed>>

Tick ==
    /\ clock < MaxClock
    /\ clock' = clock + 1
    /\ IF ActiveRules(clock) = ActiveRules(clock + 1)
       THEN UNCHANGED <<stale, tainted>>
       ELSE /\ stale' = stale \cup {"rules"}
            /\ Overtake("rules")
    /\ UNCHANGED <<custom_rules, dns_rewrites, settings, engine, pc, reload_vars,
                   handler_vars, requests, owes, removing, removed>>

-----------------------------------------------------------------------------
Init ==
    /\ clock = 0
    /\ custom_rules \in [Rules -> {row \in RuleRows : row.row = "none" => row.expires_at = NoExpiry}]
    /\ dns_rewrites \in [RewriteIds -> RewriteRows \cup {NoRow}]
    /\ \A i \in RewriteIds : dns_rewrites[i] # NoRow => Free(i, dns_rewrites[i].domain)
    /\ settings \in Configured
    /\ rules = DesiredRules
    /\ rewrites = DesiredRewrites
    /\ pc = [p \in Procs |-> "idle"]
    /\ now_rfc3339 = [p \in Procs |-> 0]
    /\ new_rules = [p \in Procs |-> NoRules]
    /\ new_rewrites = [p \in Procs |-> NoRewrites]
    /\ rule_read = [p \in Procs |-> NoRow]
    /\ rewrite_read = [p \in Procs |-> NoRow]
    /\ todo = [p \in Procs |-> <<>>]
    /\ requests = 0
    /\ owes = [p \in Procs |-> {}]
    /\ tainted = [p \in Procs |-> {}]
    /\ stale = {}
    /\ removing = [p \in Procs |-> {}]
    /\ removed = {}

Handler(p) ==
    \/ \E r \in Rules, e \in Expiries : CreateRule(p, r, e)
    \/ \E r \in Rules : DeleteRule(p, r)
    \/ \E r \in Rules, row \in {"on", "off"} : ToggleRule(p, r, row)
    \/ \E ids \in SUBSET Rules, row \in {"on", "off", "none"} : BulkAction(p, ids, row)
    \/ \E ids \in SUBSET Rules : ImportRules(p, ids)
    \/ \E r \in Rules : ReadRuleForUpdate(p, r)
    \/ \E row \in {"on", "off"} : UpdateRuleStatus(p, row)
    \/ \E row \in {"on", "off"}, e \in Expiries : UpdateRuleExpiry(p, row, e)
    \/ \E i \in RewriteIds, row \in RewriteRows : CreateRewrite(p, i, row)
    \/ \E i \in RewriteIds : DeleteRewrite(p, i)
    \/ \E i \in RewriteIds : ReadRewriteForUpdate(p, i)
    \/ \E row \in RewriteRows : UpdateRewrite(p, row)
    \/ \E body \in Bodies : UpdateDns(p, body)
    \/ WriteSetting(p)
    \/ Abandon(p)

Reload(p) ==
    \/ ReadRules(p) \/ ReadRewrites(p) \/ ReadSafeSearch(p)
    \/ ReadParentalEnabled(p) \/ ReadParentalLevel(p)
    \/ StoreRules(p) \/ StoreRewrites(p)

Next ==
    \/ \E p \in Workers : Handler(p)
    \/ CleanupTick
    \/ \E p \in Procs : Reload(p) \/ ReloadFails(p)
    \/ Tick

Spec == Init /\ [][Next]_vars

(***************************************************************************)
(* The cleanup task ticks for ever, and the database does not refuse every *)
(* one of its statements.  Nothing is assumed of the API handlers.         *)
(***************************************************************************)
Fairness ==
    /\ WF_vars(CleanupTick)
    /\ SF_vars(ReadRules(Cleanup))
    /\ SF_vars(ReadRewrites(Cleanup))
    /\ SF_vars(ReadSafeSearch(Cleanup))
    /\ SF_vars(ReadParentalEnabled(Cleanup))
    /\ SF_vars(ReadParentalLevel(Cleanup))
    /\ SF_vars(StoreRules(Cleanup))
    /\ SF_vars(StoreRewrites(Cleanup))

FairSpec == Spec /\ Fairness

-----------------------------------------------------------------------------
\* The types of the tables, of what the engine holds and of the locals of every
\* handler and reload (filter.rs, rules.rs, rewrites.rs).
TypeOK ==
    /\ clock \in 0 .. MaxClock
    /\ custom_rules \in [Rules -> RuleRows]
    /\ dns_rewrites \in [RewriteIds -> RewriteRows \cup {NoRow}]
    /\ settings \in [Settings -> BOOLEAN]
    /\ rules \in RuleSets
    /\ rewrites \in RewriteMaps
    /\ pc \in [Procs -> Locations]
    /\ now_rfc3339 \in [Procs -> 0 .. MaxClock]
    /\ new_rules \in [Procs -> RuleSets]
    /\ new_rewrites \in [Procs -> RewriteMaps]
    /\ rule_read \in [Procs -> [id : Rules, row : {"on", "off"}] \cup {NoRow}]
    /\ rewrite_read \in [Procs -> RewriteIds \cup {NoRow}]
    /\ todo \in [Procs -> Seq(Writes)]
    /\ requests \in 0 .. MaxRequests
    /\ owes \in [Procs -> SUBSET Kinds]
    /\ tainted \in [Procs -> SUBSET Kinds]
    /\ stale \in SUBSET Kinds
    /\ removing \in [Procs -> SUBSET Domains]
    /\ removed \in SUBSET Domains

(***************************************************************************)
(* The rule set (the rewrite map) that answers queries is the one the      *)
(* tables call for, unless a reload that will make it so is under way, or  *)
(* the value was stored by a reload that a commit overtook, or since then  *)
(* a reload failed, was abandoned or was skipped, or a rule expired.       *)
(* filter.rs stores whatever its reads returned, so this is exactly as     *)
(* much as its callers may rely on.                                        *)
(***************************************************************************)
RulesFollowTables ==
    \/ rules = DesiredRules
    \/ "rules" \in stale
    \/ \E p \in Procs : "rules" \in owes[p] \ tainted[p]

\* The same for the rewrite map: rows of dns_rewrites and the Safe Search setting.
RewritesFollowTables ==
    \/ rewrites = DesiredRewrites
    \/ "rewrites" \in stale
    \/ \E p \in Procs : "rewrites" \in owes[p] \ tainted[p]

(***************************************************************************)
(* Once an expired rule is seen, it goes: after the last request, no rule  *)
(* set in force holds a rule whose row has expired (main.rs: "check and    *)
(* evict expired custom rules every 60s").  Reloads that were already      *)
(* reading when it expired may bring it back, but not for ever.            *)
(***************************************************************************)
ExpiredRulesEvicted ==
    \A r \in Rules :
        <>[](custom_rules[r].row # "none" /\ custom_rules[r].expires_at <= clock
                => r \notin rules.custom)

(***************************************************************************)
(* rewrites.rs:282, "Hot-reload so the deleted rewrite stops taking effect *)
(* immediately": once a delete has been answered, the map in force has no  *)
(* rewrite for its domain until a new one is created.                      *)
(***************************************************************************)
DeletedRewriteGone ==
    \A pair \in rewrites.custom : pair[1] \notin removed

(***************************************************************************)
(* rules.rs:404, "if the status changed, the filter must be reloaded": an  *)
(* update that changes a row's status goes on to reload.                   *)
(***************************************************************************)
StatusChangeReloads ==
    [][\A p \in Workers :
          pc[p] = "update_rule" /\ pc'[p] = "idle"
              => custom_rules' = custom_rules]_vars

=============================================================================

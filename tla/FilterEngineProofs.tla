------------------------- MODULE FilterEngineProofs -------------------------
(***************************************************************************)
(* Proofs about FilterEngine, for any number of rules, rewrites, workers   *)
(* and requests; and about DnsServer, for any connections, queries,        *)
(* permits and timeouts.                                                   *)
(***************************************************************************)
EXTENDS FilterEngine, DnsServer, TLAPS

(***************************************************************************)
(* What a process holds at the points where it goes on to use it: the row  *)
(* an update has read, the settings update_dns has yet to write.           *)
(***************************************************************************)
ControlOK ==
    \A p \in Procs :
        /\ pc[p] = "update_rule" => rule_read[p] \in [id : Rules, row : {"on", "off"}]
        /\ pc[p] = "update_rewrite" => rewrite_read[p] \in RewriteIds
        /\ pc[p] = "setting" => todo[p] # <<>>

TypeInv == TypeOK /\ ControlOK

LEMMA ProcsMembers == Cleanup \in Procs /\ Workers \subseteq Procs
BY DEF Procs

LEMMA InitTypeInv == Init => TypeInv
<1> SUFFICES ASSUME Init PROVE TypeInv
    OBVIOUS
<1>1. clock \in 0 .. MaxClock /\ requests \in 0 .. MaxRequests
    BY ConstantsAssumption DEF Init
<1>2. custom_rules \in [Rules -> RuleRows]
    BY DEF Init
<1>3. dns_rewrites \in [RewriteIds -> RewriteRows \cup {NoRow}]
    BY DEF Init
<1>4. settings \in [Settings -> BOOLEAN]
    BY ConstantsAssumption DEF Init
<1>5. ParentalOn \in BOOLEAN /\ settings["safe_search_enabled"] \in BOOLEAN
    BY <1>4 DEF ParentalOn, Settings
<1>6. rules \in RuleSets
    BY <1>5 DEF Init, DesiredRules, ActiveRules, RuleSets
<1>7. RewritePairs \subseteq Domains \X Answers
    BY <1>3 DEF RewritePairs, RewriteRows
<1>8. rewrites \in RewriteMaps
    BY <1>5, <1>7 DEF Init, DesiredRewrites, RewriteMaps
<1>9. /\ pc \in [Procs -> Locations]
      /\ now_rfc3339 \in [Procs -> 0 .. MaxClock]
      /\ new_rules \in [Procs -> RuleSets]
      /\ new_rewrites \in [Procs -> RewriteMaps]
    BY ConstantsAssumption
       DEF Init, Locations, NoRules, NoRewrites, RuleSets, RewriteMaps
<1>10. /\ rule_read \in [Procs -> [id : Rules, row : {"on", "off"}] \cup {NoRow}]
       /\ rewrite_read \in [Procs -> RewriteIds \cup {NoRow}]
       /\ todo \in [Procs -> Seq(Writes)]
    BY DEF Init
<1>11. /\ owes \in [Procs -> SUBSET Kinds]
       /\ tainted \in [Procs -> SUBSET Kinds]
       /\ stale \in SUBSET Kinds
       /\ removing \in [Procs -> SUBSET Domains]
       /\ removed \in SUBSET Domains
    BY DEF Init
<1>12. ControlOK
    BY DEF Init, ControlOK
<1> QED
    BY <1>1, <1>2, <1>3, <1>4, <1>6, <1>8, <1>9, <1>10, <1>11, <1>12
       DEF TypeInv, TypeOK

(***************************************************************************)
(* What the steps shared by several actions do to the typed variables.     *)
(***************************************************************************)
LEMMA OvertakeType ==
    ASSUME NEW k \in Kinds, tainted \in [Procs -> SUBSET Kinds], Overtake(k)
    PROVE  tainted' \in [Procs -> SUBSET Kinds]
BY DEF Overtake

LEMMA CommitType ==
    ASSUME TypeOK, NEW p \in Procs, NEW k \in Kinds, Commit(p, k)
    PROVE  /\ owes' \in [Procs -> SUBSET Kinds]
           /\ tainted' \in [Procs -> SUBSET Kinds]
BY OvertakeType DEF Commit, TypeOK

LEMMA GiveUpType ==
    ASSUME TypeOK, NEW p \in Procs, GiveUp(p)
    PROVE  /\ owes' \in [Procs -> SUBSET Kinds]
           /\ tainted' \in [Procs -> SUBSET Kinds]
           /\ stale' \in SUBSET Kinds
           /\ removing' \in [Procs -> SUBSET Domains]
BY DEF GiveUp, TypeOK

LEMMA BeginReloadType ==
    ASSUME TypeInv, NEW p \in Procs, BeginReload(p)
    PROVE  /\ pc' \in [Procs -> Locations]
           /\ now_rfc3339' \in [Procs -> 0 .. MaxClock]
           /\ new_rules' \in [Procs -> RuleSets]
           /\ new_rewrites' \in [Procs -> RewriteMaps]
           /\ \A q \in Procs : pc'[q] = IF q = p THEN "rules" ELSE pc[q]
BY Zenon DEF BeginReload, TypeInv, TypeOK, Locations, Reloading

LEMMA EndReloadType ==
    ASSUME TypeOK, NEW p \in Procs, EndReload(p)
    PROVE  /\ now_rfc3339' \in [Procs -> 0 .. MaxClock]
           /\ new_rules' \in [Procs -> RuleSets]
           /\ new_rewrites' \in [Procs -> RewriteMaps]
BY ConstantsAssumption
   DEF EndReload, TypeOK, NoRules, NoRewrites, RuleSets, RewriteMaps

LEMMA RequestType ==
    ASSUME TypeOK, NEW p \in Procs, Request(p)
    PROVE  requests' \in 0 .. MaxRequests /\ pc[p] = "idle"
BY ConstantsAssumption DEF Request, TypeOK

LEMMA WriteRulesType ==
    ASSUME TypeInv, NEW p \in Procs, NEW rows \in [Rules -> RuleRows],
           WriteRules(p, rows), requests' \in 0 .. MaxRequests,
           rule_read' \in [Procs -> [id : Rules, row : {"on", "off"}] \cup {NoRow}],
           \A q \in Procs \ {p} : rule_read'[q] = rule_read[q],
           UNCHANGED <<rewrite_read, todo>>
    PROVE  TypeInv'
<1>1. /\ owes' \in [Procs -> SUBSET Kinds]
      /\ tainted' \in [Procs -> SUBSET Kinds]
    BY CommitType, Zenon DEF WriteRules, Kinds, TypeInv
<1>2. TypeOK'
    BY <1>1, BeginReloadType, Zenon DEF WriteRules, TypeInv, TypeOK, engine
<1>3. ControlOK'
    BY BeginReloadType, Zenon DEF WriteRules, TypeInv, ControlOK
<1> QED
    BY <1>2, <1>3 DEF TypeInv

LEMMA WriteRewritesType ==
    ASSUME TypeInv, NEW p \in Procs,
           NEW rows \in [RewriteIds -> RewriteRows \cup {NoRow}],
           WriteRewrites(p, rows), requests' \in 0 .. MaxRequests,
           rewrite_read' \in [Procs -> RewriteIds \cup {NoRow}],
           \A q \in Procs \ {p} : rewrite_read'[q] = rewrite_read[q],
           removing' \in [Procs -> SUBSET Domains], removed' \in SUBSET Domains,
           UNCHANGED <<rule_read, todo>>
    PROVE  TypeInv'
<1>1. /\ owes' \in [Procs -> SUBSET Kinds]
      /\ tainted' \in [Procs -> SUBSET Kinds]
    BY CommitType, Zenon DEF WriteRewrites, Kinds, TypeInv
<1>2. TypeOK'
    BY <1>1, BeginReloadType, Zenon DEF WriteRewrites, TypeInv, TypeOK, engine
<1>3. ControlOK'
    BY BeginReloadType, Zenon DEF WriteRewrites, TypeInv, ControlOK
<1> QED
    BY <1>2, <1>3 DEF TypeInv

LEMMA ReinstateType ==
    ASSUME TypeOK, NEW d \in Domains, Reinstate(d)
    PROVE  removing' \in [Procs -> SUBSET Domains] /\ removed' \in SUBSET Domains
BY DEF TypeOK, Reinstate

(***************************************************************************)
(* Every step of a handler keeps the types.                                *)
(***************************************************************************)
LEMMA HandlerType ==
    ASSUME TypeInv, NEW p \in Workers, Handler(p)
    PROVE  TypeInv'
<1> p \in Procs
    BY ProcsMembers
<1>a. TypeOK
    BY DEF TypeInv
<1>b. NoExpiry \in Expiries
    BY ConstantsAssumption DEF NoExpiry, Expiries
<1>1. ASSUME NEW r \in Rules, NEW e \in Expiries, CreateRule(p, r, e) PROVE TypeInv'
    <2>1. [custom_rules EXCEPT ![r] = [row |-> "on", expires_at |-> e]] \in [Rules -> RuleRows]
        BY <1>a DEF TypeOK, RuleRows
    <2> QED
        BY <1>a, <1>1, <2>1, RequestType, WriteRulesType, Zenon DEF CreateRule, handler_vars, TypeOK
<1>2. ASSUME NEW r \in Rules, DeleteRule(p, r) PROVE TypeInv'
    <2>1. [custom_rules EXCEPT ![r].row = "none"] \in [Rules -> RuleRows]
        BY <1>a, Zenon DEF TypeOK, RuleRows
    <2> QED
        BY <1>a, <1>2, <2>1, RequestType, WriteRulesType, Zenon DEF DeleteRule, handler_vars, TypeOK
<1>3. ASSUME NEW r \in Rules, NEW row \in {"on", "off"}, ToggleRule(p, r, row)
      PROVE  TypeInv'
    <2>1. [custom_rules EXCEPT ![r].row = row] \in [Rules -> RuleRows]
        BY <1>a, Zenon DEF TypeOK, RuleRows
    <2> QED
        BY <1>a, <1>3, <2>1, RequestType, WriteRulesType, Zenon DEF ToggleRule, handler_vars, TypeOK
<1>4. ASSUME NEW ids \in SUBSET Rules, NEW row \in {"on", "off", "none"},
             BulkAction(p, ids, row)
      PROVE  TypeInv'
    <2> DEFINE rows == [r \in Rules |->
                         IF r \in ids /\ custom_rules[r].row # "none"
                         THEN [custom_rules[r] EXCEPT !.row = row]
                         ELSE custom_rules[r]]
    <2>1. rows \in [Rules -> RuleRows]
        <3>1. ASSUME NEW r \in Rules
              PROVE  [custom_rules[r] EXCEPT !.row = row] \in RuleRows
            <4>1. custom_rules[r] \in [row : {"none", "on", "off"}, expires_at : Expiries]
                BY <1>a, <3>1 DEF TypeOK, RuleRows
            <4> QED
                BY <4>1 DEF RuleRows
        <3> QED
            BY <1>a, <3>1 DEF TypeOK
    <2>2. WriteRules(p, rows)
        BY <1>4 DEF BulkAction
    <2> HIDE DEF rows
    <2> QED
        BY <1>a, <1>4, <2>1, <2>2, RequestType, WriteRulesType, Zenon
           DEF BulkAction, handler_vars, TypeOK
<1>5. ASSUME NEW ids \in SUBSET Rules, ImportRules(p, ids) PROVE TypeInv'
    <2> DEFINE rows == [r \in Rules |->
                         IF r \in ids /\ custom_rules[r].row = "none"
                         THEN [row |-> "on", expires_at |-> NoExpiry]
                         ELSE custom_rules[r]]
    <2>1. rows \in [Rules -> RuleRows]
        BY <1>a, <1>b DEF TypeOK, RuleRows
    <2>2. WriteRules(p, rows)
        BY <1>5 DEF ImportRules
    <2> HIDE DEF rows
    <2> QED
        BY <1>a, <1>5, <2>1, <2>2, RequestType, WriteRulesType, Zenon
           DEF ImportRules, handler_vars, TypeOK
<1>6. ASSUME NEW r \in Rules, ReadRuleForUpdate(p, r) PROVE TypeInv'
    <2>1. [id |-> r, row |-> custom_rules[r].row] \in [id : Rules, row : {"on", "off"}]
        BY <1>a, <1>6, Zenon DEF ReadRuleForUpdate, TypeOK, RuleRows
    <2>2. TypeOK'
        BY <1>a, <1>6, <2>1, RequestType, Zenon
           DEF ReadRuleForUpdate, TypeOK, Locations, db, engine, reload_vars, history
    <2>3. ControlOK'
        BY <1>a, <1>6, <2>1 DEF ReadRuleForUpdate, TypeInv, TypeOK, ControlOK
    <2> QED
        BY <2>2, <2>3 DEF TypeInv
<1>7. ASSUME NEW row \in {"on", "off"}, UpdateRuleStatus(p, row) PROVE TypeInv'
    <2> DEFINE r == rule_read[p].id
               rows == [custom_rules EXCEPT ![r].row = row]
    <2>1. r \in Rules /\ rule_read[p].row \in {"on", "off"}
        BY <1>7 DEF UpdateRuleStatus, TypeInv, ControlOK
    <2>2. rows \in [Rules -> RuleRows]
        BY <1>a, <2>1, Zenon DEF TypeOK, RuleRows
    <2>3. /\ rule_read' \in [Procs -> [id : Rules, row : {"on", "off"}] \cup {NoRow}]
          /\ \A q \in Procs \ {p} : rule_read'[q] = rule_read[q]
          /\ requests' \in 0 .. MaxRequests
          /\ UNCHANGED <<rewrite_read, todo>>
        BY <1>a, <1>7 DEF UpdateRuleStatus, TypeOK
    <2>4. CASE row # rule_read[p].row
        <3>1. WriteRules(p, rows)
            BY <1>7, <2>4 DEF UpdateRuleStatus
        <3> HIDE DEF rows
        <3> QED
            BY <2>2, <2>3, <3>1, WriteRulesType
    <2>5. CASE ~(row # rule_read[p].row)
        <3>1. /\ custom_rules' = rows
              /\ pc' = [pc EXCEPT ![p] = "idle"]
              /\ UNCHANGED <<clock, dns_rewrites, settings, engine, reload_vars,
                             removing, removed>>
            BY <1>7, <2>5 DEF UpdateRuleStatus
        <3>2. owes' = owes
            BY <1>7, <2>5 DEF UpdateRuleStatus
        <3>3. tainted' \in [Procs -> SUBSET Kinds] /\ stale' \in SUBSET Kinds
            BY <1>a, <1>7, <2>5, OvertakeType, Zenon DEF UpdateRuleStatus, TypeOK, Kinds
        <3> HIDE DEF rows
        <3>4. TypeOK'
            BY <1>a, <2>2, <2>3, <3>1, <3>2, <3>3, Zenon
               DEF TypeOK, Locations, engine, reload_vars
        <3>5. ControlOK'
            BY <1>a, <2>3, <3>1 DEF TypeInv, TypeOK, ControlOK
        <3> QED
            BY <3>4, <3>5 DEF TypeInv
    <2> QED
        BY <2>4, <2>5, Zenon
<1>8. ASSUME NEW row \in {"on", "off"}, NEW e \in Expiries, UpdateRuleExpiry(p, row, e)
      PROVE  TypeInv'
    <2> DEFINE r == rule_read[p].id
               rows == [custom_rules EXCEPT ![r] = [row |-> row, expires_at |-> e]]
    <2>1. r \in Rules
        BY <1>8, Zenon DEF UpdateRuleExpiry, TypeInv, ControlOK
    <2>2. rows \in [Rules -> RuleRows]
        BY <1>a, <2>1, Zenon DEF TypeOK, RuleRows
    <2>3. WriteRules(p, rows)
        BY <1>8 DEF UpdateRuleExpiry
    <2> HIDE DEF rows
    <2> QED
        BY <1>a, <1>8, <2>2, <2>3, WriteRulesType, Zenon DEF UpdateRuleExpiry, TypeOK
<1>9. ASSUME NEW i \in RewriteIds, NEW row \in RewriteRows, CreateRewrite(p, i, row)
      PROVE  TypeInv'
    <2>1. [dns_rewrites EXCEPT ![i] = row] \in [RewriteIds -> RewriteRows \cup {NoRow}]
        BY <1>a DEF TypeOK
    <2>2. row.domain \in Domains
        BY DEF RewriteRows
    <2> QED
        BY <1>a, <1>9, <2>1, <2>2, RequestType, ReinstateType, WriteRewritesType, Zenon
           DEF CreateRewrite, handler_vars, TypeOK
<1>10. ASSUME NEW i \in RewriteIds, DeleteRewrite(p, i) PROVE TypeInv'
    <2>1. [dns_rewrites EXCEPT ![i] = NoRow] \in [RewriteIds -> RewriteRows \cup {NoRow}]
        BY <1>a, Zenon DEF TypeOK
    <2>2. dns_rewrites[i].domain \in Domains
        BY <1>a, <1>10 DEF DeleteRewrite, TypeOK, RewriteRows
    <2>3. removing' \in [Procs -> SUBSET Domains]
        BY <1>a, <1>10, <2>2, Zenon DEF DeleteRewrite, TypeOK
    <2> QED
        BY <1>a, <1>10, <2>1, <2>3, RequestType, WriteRewritesType, Zenon
           DEF DeleteRewrite, handler_vars, TypeOK
<1>11. ASSUME NEW i \in RewriteIds, ReadRewriteForUpdate(p, i) PROVE TypeInv'
    <2>1. TypeOK'
        BY <1>a, <1>11, RequestType, Zenon
           DEF ReadRewriteForUpdate, TypeOK, Locations, db, engine, reload_vars, history
    <2>2. ControlOK'
        BY <1>a, <1>11 DEF ReadRewriteForUpdate, TypeInv, TypeOK, ControlOK
    <2> QED
        BY <2>1, <2>2 DEF TypeInv
<1>12. ASSUME NEW row \in RewriteRows, UpdateRewrite(p, row) PROVE TypeInv'
    <2> DEFINE i == rewrite_read[p]
    <2>1. i \in RewriteIds
        BY <1>12 DEF UpdateRewrite, TypeInv, ControlOK
    <2>2. row.domain \in Domains
        BY Zenon DEF RewriteRows
    <2>3. /\ rewrite_read' \in [Procs -> RewriteIds \cup {NoRow}]
          /\ \A q \in Procs \ {p} : rewrite_read'[q] = rewrite_read[q]
          /\ requests' \in 0 .. MaxRequests
          /\ UNCHANGED <<rule_read, todo>>
        BY <1>a, <1>12 DEF UpdateRewrite, TypeOK
    <2>4. CASE dns_rewrites[i] = NoRow
        BY <1>a, <1>12, <2>3, <2>4, WriteRewritesType, Zenon DEF UpdateRewrite, TypeOK
    <2>5. CASE dns_rewrites[i] # NoRow
        <3>1. [dns_rewrites EXCEPT ![i] = row] \in [RewriteIds -> RewriteRows \cup {NoRow}]
            BY <1>a, <2>1 DEF TypeOK
        <3> QED
            BY <1>a, <1>12, <2>2, <2>3, <2>5, <3>1, ReinstateType, WriteRewritesType, Zenon
               DEF UpdateRewrite
    <2> QED
        BY <2>4, <2>5, Zenon
<1>13. ASSUME NEW body \in Bodies, UpdateDns(p, body) PROVE TypeInv'
    <2>1. body \in Seq(Writes)
        BY ConstantsAssumption, Zenon
    <2>2. TypeOK'
        BY <1>a, <1>13, <2>1, RequestType, Zenon
           DEF UpdateDns, TypeOK, Locations, db, engine, reload_vars, history
    <2>3. ControlOK'
        BY <1>a, <1>13, <2>1 DEF UpdateDns, TypeInv, TypeOK, ControlOK
    <2> QED
        BY <2>2, <2>3 DEF TypeInv
<1>14. ASSUME WriteSetting(p) PROVE TypeInv'
    <2>1. todo[p] \in Seq(Writes) /\ todo[p] # <<>>
        BY <1>a, <1>14 DEF WriteSetting, TypeInv, TypeOK, ControlOK
    <2>2. Head(todo[p]) \in Writes /\ Tail(todo[p]) \in Seq(Writes)
        BY <2>1
    <2>3. settings' \in [Settings -> BOOLEAN] /\ todo' \in [Procs -> Seq(Writes)]
        BY <1>a, <1>14, <2>2 DEF WriteSetting, TypeOK, Writes
    <2>4. owes' \in [Procs -> SUBSET Kinds] /\ tainted' \in [Procs -> SUBSET Kinds]
        BY <1>a, <1>14, CommitType, Zenon DEF WriteSetting, KindOf, Kinds
    <2>5. TypeOK'
        BY <1>a, <1>14, <2>3, <2>4, BeginReloadType, Zenon DEF WriteSetting, TypeOK, engine
    <2>6. ControlOK'
        BY <1>a, <1>14, BeginReloadType, Zenon DEF WriteSetting, TypeInv, TypeOK, ControlOK
    <2> QED
        BY <2>5, <2>6, Zenon DEF TypeInv
<1>15. ASSUME Abandon(p) PROVE TypeInv'
    <2>1. TypeOK'
        BY <1>a, <1>15, GiveUpType, EndReloadType
           DEF Abandon, TypeOK, Locations, db, engine
    <2>2. ControlOK'
        BY <1>a, <1>15, Zenon DEF Abandon, TypeInv, TypeOK, ControlOK
    <2> QED
        BY <2>1, <2>2 DEF TypeInv
<1> QED
    BY <1>1, <1>2, <1>3, <1>4, <1>5, <1>6, <1>7, <1>8, <1>9, <1>10, <1>11, <1>12,
       <1>13, <1>14, <1>15, Zenon DEF Handler

(***************************************************************************)
(* So does every step of a reload, whoever runs it.                        *)
(***************************************************************************)
LEMMA AfterReloadType ==
    ASSUME NEW p \in Procs
    PROVE  AfterReload(p) \in {"idle", "setting"}
           /\ (AfterReload(p) = "setting" => todo[p] # <<>>)
BY Zenon DEF AfterReload

LEMMA MisreadType ==
    ASSUME TypeOK, NEW p \in Procs, NEW k \in Kinds, Misread(p, k)
    PROVE  /\ owes' \in [Procs -> SUBSET Kinds]
           /\ tainted' \in [Procs -> SUBSET Kinds]
           /\ stale' \in SUBSET Kinds
           /\ removing' \in [Procs -> SUBSET Domains]
           /\ removed' \in SUBSET Domains
BY DEF Misread, TypeOK

LEMMA ReloadType ==
    ASSUME TypeInv, NEW p \in Procs, Reload(p) \/ ReloadFails(p)
    PROVE  TypeInv'
<1>a. TypeOK
    BY DEF TypeInv
<1>b. {"rules", "rewrites"} = Kinds
    BY DEF Kinds
<1>1. CASE ReadRules(p)
    <2>1. [custom |-> ActiveRules(now_rfc3339[p]), parental |-> FALSE] \in RuleSets
        BY Zenon DEF ActiveRules, RuleSets
    <2>2. TypeOK'
        BY <1>a, <1>1, <2>1, Zenon
           DEF ReadRules, ReloadStep, TypeOK, Locations, Reloading, db, engine,
               handler_vars, history
    <2>3. ControlOK'
        BY <1>a, <1>1, Zenon DEF ReadRules, ReloadStep, TypeInv, TypeOK, ControlOK, handler_vars
    <2> QED
        BY <2>2, <2>3 DEF TypeInv
<1>2. CASE ReadRewrites(p)
    <2>1. RewritePairs \subseteq Domains \X Answers
        <3>1. dns_rewrites \in [RewriteIds -> RewriteRows \cup {NoRow}]
            BY <1>a DEF TypeOK
        <3>2. ASSUME NEW i \in RewriteIds, dns_rewrites[i] # NoRow
              PROVE  <<dns_rewrites[i].domain, dns_rewrites[i].answer>> \in Domains \X Answers
            BY <3>1, <3>2 DEF RewriteRows
        <3> QED
            BY <3>2 DEF RewritePairs
    <2>2. [custom |-> RewritePairs, safe |-> FALSE] \in RewriteMaps
        BY <2>1, Zenon DEF RewriteMaps
    <2>3. TypeOK'
        BY <1>a, <1>2, <2>2
           DEF ReadRewrites, ReloadStep, TypeOK, Locations, Reloading, db, engine,
               handler_vars, history
    <2>4. ControlOK'
        BY <1>a, <1>2, Zenon
           DEF ReadRewrites, ReloadStep, TypeInv, TypeOK, ControlOK, handler_vars
    <2> QED
        BY <2>3, <2>4 DEF TypeInv
<1>3. CASE ReadSafeSearch(p)
    <2>1. new_rewrites' \in [Procs -> RewriteMaps]
        <3>1. settings["safe_search_enabled"] \in BOOLEAN
            BY <1>a, Zenon DEF TypeOK, Settings
        <3>2. new_rewrites[p] \in [custom : SUBSET (Domains \X Answers), safe : BOOLEAN]
            BY <1>a DEF TypeOK, RewriteMaps
        <3>3. [new_rewrites[p] EXCEPT !.safe = settings["safe_search_enabled"]] \in RewriteMaps
            BY <3>1, <3>2 DEF RewriteMaps
        <3> QED
            BY <1>a, <1>3, <3>3, Zenon DEF ReadSafeSearch, TypeOK
    <2>2. /\ owes' \in [Procs -> SUBSET Kinds]
          /\ tainted' \in [Procs -> SUBSET Kinds]
          /\ stale' \in SUBSET Kinds
          /\ removing' \in [Procs -> SUBSET Domains]
          /\ removed' \in SUBSET Domains
        BY <1>a, <1>b, <1>3, MisreadType, Zenon DEF ReadSafeSearch, TypeOK, history
    <2>3. TypeOK'
        BY <1>a, <1>3, <2>1, <2>2, Zenon
           DEF ReadSafeSearch, ReloadStep, TypeOK, Locations, Reloading, db, engine,
               handler_vars
    <2>4. ControlOK'
        BY <1>a, <1>3
           DEF ReadSafeSearch, ReloadStep, TypeInv, TypeOK, ControlOK, handler_vars
    <2> QED
        BY <2>3, <2>4 DEF TypeInv
<1>4. CASE ReadParentalEnabled(p)
    <2>1. /\ owes' \in [Procs -> SUBSET Kinds]
          /\ tainted' \in [Procs -> SUBSET Kinds]
          /\ stale' \in SUBSET Kinds
          /\ removing' \in [Procs -> SUBSET Domains]
          /\ removed' \in SUBSET Domains
        BY <1>a, <1>b, <1>4, MisreadType, Zenon DEF ReadParentalEnabled, TypeOK, history
    <2>2. /\ \/ pc' = [pc EXCEPT ![p] = "level"]
             \/ pc' = [pc EXCEPT ![p] = "store_rules"]
          /\ UNCHANGED <<db, handler_vars, requests, engine, reload_vars>>
        BY <1>4 DEF ReadParentalEnabled, ReloadStep
    <2>3. TypeOK'
        BY <1>a, <2>1, <2>2, Zenon
           DEF TypeOK, Locations, Reloading, db, engine, handler_vars, reload_vars
    <2>4. ControlOK'
        BY <1>a, <2>2, Zenon DEF TypeInv, TypeOK, ControlOK, handler_vars
    <2> QED
        BY <2>3, <2>4 DEF TypeInv
<1>5. CASE ReadParentalLevel(p)
    <2>1. new_rules' \in [Procs -> RuleSets]
        <3>1. settings["parental_control_level"] \in BOOLEAN
            BY <1>a, Zenon DEF TypeOK, Settings
        <3>2. new_rules[p] \in [custom : SUBSET Rules, parental : BOOLEAN]
            BY <1>a DEF TypeOK, RuleSets
        <3>3. [new_rules[p] EXCEPT !.parental = settings["parental_control_level"]] \in RuleSets
            BY <3>1, <3>2 DEF RuleSets
        <3> QED
            BY <1>a, <1>5, <3>3, Zenon DEF ReadParentalLevel, TypeOK
    <2>2. /\ owes' \in [Procs -> SUBSET Kinds]
          /\ tainted' \in [Procs -> SUBSET Kinds]
          /\ stale' \in SUBSET Kinds
          /\ removing' \in [Procs -> SUBSET Domains]
          /\ removed' \in SUBSET Domains
        BY <1>a, <1>b, <1>5, MisreadType, Zenon DEF ReadParentalLevel, TypeOK, history
    <2>3. TypeOK'
        BY <1>a, <1>5, <2>1, <2>2, Zenon
           DEF ReadParentalLevel, ReloadStep, TypeOK, Locations, Reloading, db, engine,
               handler_vars
    <2>4. ControlOK'
        BY <1>a, <1>5
           DEF ReadParentalLevel, ReloadStep, TypeInv, TypeOK, ControlOK, handler_vars
    <2> QED
        BY <2>3, <2>4 DEF TypeInv
<1>6. CASE StoreRules(p)
    <2>1. TypeOK'
        BY <1>a, <1>b, <1>6, Zenon
           DEF StoreRules, Stored, ReloadStep, TypeOK, Locations, Reloading, db,
               handler_vars, reload_vars
    <2>2. ControlOK'
        BY <1>a, <1>6, Zenon DEF StoreRules, ReloadStep, TypeInv, TypeOK, ControlOK, handler_vars
    <2> QED
        BY <2>1, <2>2 DEF TypeInv
<1>7. CASE StoreRewrites(p)
    <2>1. TypeOK'
        BY <1>a, <1>b, <1>7, AfterReloadType, EndReloadType, Zenon
           DEF StoreRewrites, Stored, ReloadStep, TypeOK, Locations, db, handler_vars
    <2>2. ControlOK'
        BY <1>a, <1>7, AfterReloadType, Zenon
           DEF StoreRewrites, ReloadStep, TypeInv, TypeOK, ControlOK, handler_vars
    <2> QED
        BY <2>1, <2>2 DEF TypeInv
<1>8. CASE ReloadFails(p)
    <2>1. TypeOK'
        BY <1>a, <1>8, AfterReloadType, GiveUpType, EndReloadType, Zenon
           DEF ReloadFails, TypeOK, Locations, db, engine, handler_vars
    <2>2. ControlOK'
        BY <1>a, <1>8, AfterReloadType, Zenon
           DEF ReloadFails, TypeInv, TypeOK, ControlOK, handler_vars
    <2> QED
        BY <2>1, <2>2 DEF TypeInv
<1> QED
    BY <1>1, <1>2, <1>3, <1>4, <1>5, <1>6, <1>7, <1>8 DEF Reload

LEMMA CleanupTickType ==
    ASSUME TypeInv, CleanupTick
    PROVE  TypeInv'
<1>1. TypeOK'
    BY BeginReloadType, ProcsMembers, Zenon
       DEF CleanupTick, TypeInv, TypeOK, db, engine, handler_vars, history
<1>2. ControlOK'
    BY BeginReloadType, ProcsMembers, Zenon DEF CleanupTick, TypeInv, ControlOK, handler_vars
<1> QED
    BY <1>1, <1>2 DEF TypeInv

LEMMA TickType ==
    ASSUME TypeInv, Tick
    PROVE  TypeInv'
<1>1. clock' \in 0 .. MaxClock
    BY ConstantsAssumption DEF Tick, TypeInv, TypeOK
<1>2. tainted' \in [Procs -> SUBSET Kinds] /\ stale' \in SUBSET Kinds
    BY OvertakeType, Zenon DEF Tick, TypeInv, TypeOK, Kinds
<1>3. TypeOK'
    BY <1>1, <1>2, Zenon DEF Tick, TypeInv, TypeOK, engine, reload_vars, handler_vars
<1>4. ControlOK'
    BY DEF Tick, TypeInv, ControlOK, handler_vars
<1> QED
    BY <1>3, <1>4 DEF TypeInv

LEMMA NextTypeInv == TypeInv /\ [Next]_vars => TypeInv'
<1> SUFFICES ASSUME TypeInv, [Next]_vars PROVE TypeInv'
    OBVIOUS
<1>1. CASE Next
    BY <1>1, HandlerType, ReloadType, CleanupTickType, TickType, Zenon DEF Next
<1>2. CASE UNCHANGED vars
    BY <1>2 DEF TypeInv, TypeOK, ControlOK, vars, db, engine, reload_vars,
                handler_vars, history
<1> QED
    BY <1>1, <1>2

(***************************************************************************)
(* The engine, the tables and every handler hold values of their types     *)
(* throughout: in particular a handler that resumes with a row it read, or *)
(* with settings it has yet to write, has them.                            *)
(***************************************************************************)
THEOREM TypeCorrect == Spec => []TypeOK
<1>1. Init => TypeInv
    BY InitTypeInv
<1>2. TypeInv /\ [Next]_vars => TypeInv'
    BY NextTypeInv
<1>3. TypeInv => TypeOK
    BY Zenon DEF TypeInv
<1> QED
    BY <1>1, <1>2, <1>3, PTL DEF Spec

-----------------------------------------------------------------------------
(***************************************************************************)
(* RulesFollowTables is not inductive: that a store leaves the right rule  *)
(* set in force rests on what the reload has read by then.  RuleReads says *)
(* what that is, for a reload no commit has overtaken, at each point of    *)
(* reload(); OwesOK says that a debt is held only on the way to its store. *)
(***************************************************************************)
OwesOK ==
    \A p \in Procs :
        /\ pc[p] \notin Reloading => owes[p] = {} /\ tainted[p] = {}
        /\ pc[p] = "store_rewrites" => "rules" \notin owes[p]

ReadSoFar(p) ==
    "rules" \notin tainted[p] =>
        /\ pc[p] = "rules" => ActiveRules(now_rfc3339[p]) = ActiveRules(clock)
        /\ pc[p] \in {"rewrites", "safe", "parental", "level", "store_rules"}
              => new_rules[p].custom = ActiveRules(clock)
        /\ pc[p] \in {"rewrites", "safe", "parental"} => new_rules[p].parental = FALSE
        /\ pc[p] = "level" => settings["parental_control_enabled"]
        /\ pc[p] = "store_rules" => new_rules[p].parental = ParentalOn

RuleReads == \A p \in Procs : ReadSoFar(p)

RulesInv == OwesOK /\ RuleReads /\ RulesFollowTables

\* A process that does not move keeps what it has read, while the tables and
\* the clock stay.
LEMMA ReadsKept ==
    ASSUME NEW q \in Procs, ReadSoFar(q),
           clock' = clock, custom_rules' = custom_rules, settings' = settings,
           pc'[q] = pc[q], tainted'[q] = tainted[q],
           now_rfc3339'[q] = now_rfc3339[q], new_rules'[q] = new_rules[q]
    PROVE  ReadSoFar(q)'
<1>1. ActiveRules(clock)' = ActiveRules(clock)
    BY Zenon DEF ActiveRules, Active
<1>2. ActiveRules(now_rfc3339[q])' = ActiveRules(now_rfc3339[q])
    BY DEF ActiveRules, Active
<1>3. ParentalOn' = ParentalOn
    BY Zenon DEF ParentalOn
<1> QED
    BY <1>1, <1>2, <1>3 DEF ReadSoFar

LEMMA InitRulesInv == Init => RulesInv
BY DEF Init, RulesInv, OwesOK, RuleReads, ReadSoFar, RulesFollowTables, Reloading

\* p commits a change to the rules and begins its reload.
LEMMA CommitRules ==
    ASSUME TypeInv, RulesInv, NEW p \in Procs, pc[p] \notin Reloading,
           Commit(p, "rules"), BeginReload(p), clock' = clock, stale' = stale
    PROVE  RulesInv'
<1>a. /\ pc \in [Procs -> Locations] /\ owes \in [Procs -> SUBSET Kinds]
      /\ tainted \in [Procs -> SUBSET Kinds]
      /\ now_rfc3339 \in [Procs -> 0 .. MaxClock]
    BY Zenon DEF TypeInv, TypeOK
<1>1. /\ pc'[p] = "rules" /\ owes'[p] = {"rules"} /\ tainted'[p] = {}
      /\ now_rfc3339'[p] = clock'
    BY <1>a, Zenon DEF Commit, Overtake, BeginReload, RulesInv, OwesOK
<1>2. \A q \in Procs \ {p} :
          /\ pc'[q] = pc[q] /\ owes'[q] = owes[q]
          /\ tainted'[q] = IF pc[q] \in Reloading THEN tainted[q] \cup {"rules"} ELSE tainted[q]
    BY <1>a DEF Commit, Overtake, BeginReload
<1>3. OwesOK'
    BY <1>1, <1>2, Zenon DEF RulesInv, OwesOK, Reloading
<1>4. RuleReads'
    BY <1>1, <1>2, Zenon DEF RuleReads, ReadSoFar, Reloading
<1>5. RulesFollowTables'
    BY <1>1 DEF RulesFollowTables
<1> QED
    BY <1>3, <1>4, <1>5, Zenon DEF RulesInv

\* p commits another change and begins its reload.
LEMMA CommitOther ==
    ASSUME TypeInv, RulesInv, NEW p \in Procs, pc[p] \notin Reloading,
           \/ Commit(p, "rewrites")
           \/ UNCHANGED <<owes, tainted>>,
           BeginReload(p), UNCHANGED <<clock, custom_rules, rules, stale>>,
           ParentalOn' = ParentalOn,
           settings'["parental_control_enabled"] = settings["parental_control_enabled"]
    PROVE  RulesInv'
<1>a. /\ pc \in [Procs -> Locations] /\ owes \in [Procs -> SUBSET Kinds]
      /\ tainted \in [Procs -> SUBSET Kinds]
      /\ now_rfc3339 \in [Procs -> 0 .. MaxClock]
    BY DEF TypeInv, TypeOK
<1>1. /\ pc'[p] = "rules" /\ tainted'[p] = {} /\ now_rfc3339'[p] = clock'
    BY <1>a, Zenon DEF Commit, Overtake, BeginReload, RulesInv, OwesOK
<1>2. \A q \in Procs \ {p} :
          /\ pc'[q] = pc[q] /\ owes'[q] = owes[q]
          /\ now_rfc3339'[q] = now_rfc3339[q] /\ new_rules'[q] = new_rules[q]
          /\ tainted'[q] = tainted[q] \/ pc[q] \in Reloading
          /\ "rules" \in tainted'[q] <=> "rules" \in tainted[q]
    BY <1>a DEF Commit, Overtake, BeginReload
<1>3. OwesOK'
    BY <1>1, <1>2, Zenon DEF RulesInv, OwesOK, Reloading
<1>4. RuleReads'
    BY <1>1, <1>2 DEF RulesInv, RuleReads, ReadSoFar, ActiveRules, Active
<1>5. RulesFollowTables'
    <2>1. DesiredRules' = DesiredRules
        BY Zenon DEF DesiredRules, ActiveRules, Active
    <2>2. owes[p] = {}
        BY DEF RulesInv, OwesOK
    <2> QED
        BY <1>2, <2>1, <2>2, Zenon DEF RulesInv, RulesFollowTables
<1> QED
    BY <1>3, <1>4, <1>5 DEF RulesInv

\* p moves between two points outside its reload, and leaves the tables alone.
LEMMA MoveOutside ==
    ASSUME TypeInv, RulesInv, NEW p \in Procs, pc[p] \notin Reloading,
           NEW to \in Locations \ Reloading, pc' = [pc EXCEPT ![p] = to],
           UNCHANGED <<db, engine, reload_vars, owes, tainted, stale>>
    PROVE  RulesInv'
<1>a. pc \in [Procs -> Locations]
    BY DEF TypeInv, TypeOK
<1>1. OwesOK'
    BY <1>a, Zenon DEF RulesInv, OwesOK, Reloading
<1>2. RuleReads'
    BY <1>a, Zenon DEF RulesInv, RuleReads, ReadSoFar, ActiveRules, Active, ParentalOn, db, reload_vars, Reloading
<1>3. RulesFollowTables'
    BY DEF RulesInv, RulesFollowTables, DesiredRules, ActiveRules, Active, ParentalOn, db, engine
<1> QED
    BY <1>1, <1>2, <1>3, Zenon DEF RulesInv

\* p gives up: what it owes stays undone.
LEMMA GiveUpRules ==
    ASSUME TypeInv, RulesInv, NEW p \in Procs, NEW to \in Locations \ Reloading,
           pc' = [pc EXCEPT ![p] = to], GiveUp(p), EndReload(p), UNCHANGED <<db, engine>>
    PROVE  RulesInv'
<1>a. /\ pc \in [Procs -> Locations] /\ owes \in [Procs -> SUBSET Kinds]
      /\ tainted \in [Procs -> SUBSET Kinds]
      /\ now_rfc3339 \in [Procs -> 0 .. MaxClock] /\ new_rules \in [Procs -> RuleSets]
    BY Zenon DEF TypeInv, TypeOK
<1>1. /\ pc'[p] = to /\ owes'[p] = {} /\ tainted'[p] = {}
      /\ \A q \in Procs \ {p} :
            /\ pc'[q] = pc[q] /\ owes'[q] = owes[q] /\ tainted'[q] = tainted[q]
            /\ now_rfc3339'[q] = now_rfc3339[q] /\ new_rules'[q] = new_rules[q]
    BY <1>a DEF GiveUp, EndReload
<1>2. OwesOK'
    BY <1>1, Zenon DEF RulesInv, OwesOK, Reloading
<1>3. RuleReads'
    <2>1. \A q \in Procs \ {p} : ReadSoFar(q)'
        BY <1>1, ReadsKept, Zenon DEF RulesInv, RuleReads, db
    <2>2. ReadSoFar(p)'
        BY <1>1, Zenon DEF ReadSoFar, Reloading
    <2> QED
        BY <2>1, <2>2 DEF RuleReads
<1>4. RulesFollowTables'
    <2>1. DesiredRules' = DesiredRules /\ rules' = rules
        BY DEF DesiredRules, ActiveRules, Active, ParentalOn, db, engine
    <2>2. stale' = stale \cup owes[p]
        BY DEF GiveUp
    <2> QED
        BY <1>1, <2>1, <2>2, Zenon DEF RulesInv, RulesFollowTables
<1> QED
    BY <1>2, <1>3, <1>4, Zenon DEF RulesInv

LEMMA WriteRulesInv ==
    ASSUME TypeInv, RulesInv, NEW p \in Procs, pc[p] \notin Reloading,
           NEW rows, WriteRules(p, rows)
    PROVE  RulesInv'
BY CommitRules DEF WriteRules

LEMMA WriteRewritesKeepsRules ==
    ASSUME TypeInv, RulesInv, NEW p \in Procs, pc[p] \notin Reloading,
           NEW rows, WriteRewrites(p, rows)
    PROVE  RulesInv'
BY CommitOther, Zenon DEF WriteRewrites, ParentalOn, engine

LEMMA HandlerRulesInv ==
    ASSUME TypeInv, RulesInv, NEW p \in Workers, Handler(p)
    PROVE  RulesInv'
<1> p \in Procs
    BY ProcsMembers
<1>a. "idle" \notin Reloading /\ "update_rule" \notin Reloading
      /\ "update_rewrite" \notin Reloading /\ "setting" \notin Reloading
    BY DEF Reloading
<1>b. {"idle", "update_rule", "update_rewrite", "setting"} \subseteq Locations \ Reloading
    BY <1>a DEF Locations
<1>1. ASSUME NEW r \in Rules, NEW e \in Expiries, CreateRule(p, r, e) PROVE RulesInv'
    BY <1>1, <1>a, WriteRulesInv DEF CreateRule, Request
<1>2. ASSUME NEW r \in Rules, DeleteRule(p, r) PROVE RulesInv'
    BY <1>2, <1>a, WriteRulesInv DEF DeleteRule, Request
<1>3. ASSUME NEW r \in Rules, NEW row \in {"on", "off"}, ToggleRule(p, r, row)
      PROVE  RulesInv'
    BY <1>3, <1>a, WriteRulesInv DEF ToggleRule, Request
<1>4. ASSUME NEW ids \in SUBSET Rules, NEW row \in {"on", "off", "none"},
             BulkAction(p, ids, row)
      PROVE  RulesInv'
    BY <1>4, <1>a, WriteRulesInv, Zenon DEF BulkAction, Request
<1>5. ASSUME NEW ids \in SUBSET Rules, ImportRules(p, ids) PROVE RulesInv'
    BY <1>5, <1>a, WriteRulesInv DEF ImportRules, Request
<1>6. ASSUME NEW r \in Rules, ReadRuleForUpdate(p, r) PROVE RulesInv'
    BY <1>6, <1>a, <1>b, MoveOutside, Zenon DEF ReadRuleForUpdate, Request, history
<1>7. ASSUME NEW row \in {"on", "off"}, UpdateRuleStatus(p, row) PROVE RulesInv'
    <2> DEFINE rows == [custom_rules EXCEPT ![rule_read[p].id].row = row]
    <2>1. pc[p] \notin Reloading
        BY <1>7, <1>a, Zenon DEF UpdateRuleStatus
    <2>2. CASE row # rule_read[p].row
        <3>1. WriteRules(p, rows)
            BY <1>7, <2>2 DEF UpdateRuleStatus
        <3> QED
            BY <2>1, <3>1, WriteRulesInv, Zenon
    <2>3. CASE row = rule_read[p].row /\ rows = custom_rules
        <3>1. /\ pc' = [pc EXCEPT ![p] = "idle"]
              /\ UNCHANGED <<db, engine, reload_vars, owes, tainted, stale>>
            BY <1>7, <2>3 DEF UpdateRuleStatus, db
        <3> QED
            BY <1>b, <2>1, <3>1, MoveOutside, Zenon
    <2>4. CASE row = rule_read[p].row /\ rows # custom_rules
        <3>1. /\ pc' = [pc EXCEPT ![p] = "idle"]
              /\ stale' = stale \cup {"rules"} /\ Overtake("rules") /\ owes' = owes
            BY <1>7, <2>4, Zenon DEF UpdateRuleStatus
        <3>2. /\ pc \in [Procs -> Locations] /\ tainted \in [Procs -> SUBSET Kinds]
            BY DEF TypeInv, TypeOK
        <3>3. \A q \in Procs :
                 /\ pc'[q] = IF q = p THEN "idle" ELSE pc[q]
                 /\ tainted'[q] = IF pc[q] \in Reloading
                                  THEN tainted[q] \cup {"rules"} ELSE tainted[q]
            BY <3>1, <3>2 DEF Overtake
        <3>4. OwesOK'
            BY <2>1, <3>1, <3>3, <1>a, Zenon DEF RulesInv, OwesOK
        <3>5. RuleReads'
            BY <3>3, Zenon DEF RuleReads, ReadSoFar, Reloading
        <3>6. RulesFollowTables'
            BY <3>1, Zenon DEF RulesFollowTables
        <3> QED
            BY <3>4, <3>5, <3>6 DEF RulesInv
    <2> QED
        BY <2>2, <2>3, <2>4, Zenon
<1>8. ASSUME NEW row \in {"on", "off"}, NEW e \in Expiries, UpdateRuleExpiry(p, row, e)
      PROVE  RulesInv'
    BY <1>8, <1>a, WriteRulesInv DEF UpdateRuleExpiry
<1>9. ASSUME NEW i \in RewriteIds, NEW row \in RewriteRows, CreateRewrite(p, i, row)
      PROVE  RulesInv'
    BY <1>9, <1>a, WriteRewritesKeepsRules DEF CreateRewrite, Request
<1>10. ASSUME NEW i \in RewriteIds, DeleteRewrite(p, i) PROVE RulesInv'
    BY <1>10, <1>a, WriteRewritesKeepsRules DEF DeleteRewrite, Request
<1>11. ASSUME NEW i \in RewriteIds, ReadRewriteForUpdate(p, i) PROVE RulesInv'
    BY <1>11, <1>a, <1>b, MoveOutside, Zenon DEF ReadRewriteForUpdate, Request, history
<1>12. ASSUME NEW row \in RewriteRows, UpdateRewrite(p, row) PROVE RulesInv'
    BY <1>12, <1>a, WriteRewritesKeepsRules DEF UpdateRewrite
<1>13. ASSUME NEW body \in Bodies, UpdateDns(p, body) PROVE RulesInv'
    BY <1>13, <1>a, <1>b, MoveOutside, Zenon DEF UpdateDns, Request, history
<1>14. ASSUME WriteSetting(p) PROVE RulesInv'
    <2> DEFINE write == Head(todo[p])
    <2>3. pc[p] \notin Reloading /\ Commit(p, KindOf(write.key)) /\ BeginReload(p)
          /\ UNCHANGED <<clock, custom_rules, rules, stale>>
        BY <1>14, <1>a, Zenon DEF WriteSetting, engine
    <2>4. CASE write.key = "safe_search_enabled"
        <3>1. /\ settings'["parental_control_enabled"] = settings["parental_control_enabled"]
              /\ settings'["parental_control_level"] = settings["parental_control_level"]
            BY <1>14, <2>4 DEF WriteSetting, TypeInv, TypeOK, Settings
        <3> QED
            BY <2>3, <2>4, <3>1, CommitOther, Zenon DEF KindOf, ParentalOn
    <2>5. CASE write.key # "safe_search_enabled"
        BY <2>3, <2>5, CommitRules DEF KindOf
    <2> QED
        BY <2>4, <2>5, Zenon
<1>15. ASSUME Abandon(p) PROVE RulesInv'
    BY <1>15, <1>b, GiveUpRules, Zenon DEF Abandon
<1> QED
    BY <1>1, <1>2, <1>3, <1>4, <1>5, <1>6, <1>7, <1>8, <1>9, <1>10, <1>11, <1>12,
       <1>13, <1>14, <1>15, Zenon DEF Handler

(***************************************************************************)
(* The steps of a reload that only read: they leave the tables and what is *)
(* in force alone, so only the reads of the process that took the step are *)
(* at stake.                                                               *)
(***************************************************************************)
LEMMA ReadingStep ==
    ASSUME TypeInv, RulesInv, NEW p \in Procs, NEW to \in Reloading \ {"store_rewrites"},
           pc[p] \in Reloading, pc' = [pc EXCEPT ![p] = to], UNCHANGED <<db, engine>>,
           \/ UNCHANGED <<owes, tainted, stale>>
           \/ \E k \in Kinds : Misread(p, k),
           \A q \in Procs \ {p} : /\ now_rfc3339'[q] = now_rfc3339[q]
                                  /\ new_rules'[q] = new_rules[q],
           "rules" \notin tainted'[p] =>
              /\ to # "rules"
              /\ to \in {"rewrites", "safe", "parental", "level", "store_rules"}
                    => new_rules'[p].custom = ActiveRules(clock)
              /\ to \in {"rewrites", "safe", "parental"} => new_rules'[p].parental = FALSE
              /\ to = "level" => settings["parental_control_enabled"]
              /\ to = "store_rules" => new_rules'[p].parental = ParentalOn
    PROVE  RulesInv'
<1>a. /\ pc \in [Procs -> Locations] /\ tainted \in [Procs -> SUBSET Kinds]
    BY Zenon DEF TypeInv, TypeOK
<1>1. /\ pc'[p] = to
      /\ \A q \in Procs \ {p} : pc'[q] = pc[q] /\ tainted'[q] = tainted[q]
      /\ owes' = owes
      /\ stale \subseteq stale'
      /\ "rules" \in tainted'[p] /\ "rules" \notin tainted[p] /\ "rules" \in owes[p]
            => "rules" \in stale'
    BY <1>a, Zenon DEF Misread
<1>2. OwesOK'
    BY <1>1 DEF RulesInv, OwesOK, Reloading
<1>3. RuleReads'
    <2>1. \A q \in Procs \ {p} : ReadSoFar(q)'
        BY <1>1, ReadsKept, Zenon DEF RulesInv, RuleReads, db
    <2>2. ReadSoFar(p)'
        BY <1>1 DEF ReadSoFar, ActiveRules, Active, ParentalOn, db
    <2> QED
        BY <2>1, <2>2, Zenon DEF RuleReads
<1>4. RulesFollowTables'
    <2>1. DesiredRules' = DesiredRules /\ rules' = rules
        BY Zenon DEF DesiredRules, ActiveRules, Active, ParentalOn, db, engine
    <2> QED
        BY <1>1, <2>1, Zenon DEF RulesInv, RulesFollowTables
<1> QED
    BY <1>2, <1>3, <1>4 DEF RulesInv

LEMMA ReloadRulesInv ==
    ASSUME TypeInv, RulesInv, NEW p \in Procs, Reload(p) \/ ReloadFails(p)
    PROVE  RulesInv'
<1>a. /\ pc \in [Procs -> Locations] /\ owes \in [Procs -> SUBSET Kinds]
      /\ tainted \in [Procs -> SUBSET Kinds]
      /\ now_rfc3339 \in [Procs -> 0 .. MaxClock] /\ new_rules \in [Procs -> RuleSets]
    BY DEF TypeInv, TypeOK
<1>b. "rules" \in Kinds /\ "rewrites" \in Kinds
    BY DEF Kinds
<1>c. {"rules", "rewrites", "safe", "parental", "level", "store_rules"}
         = Reloading \ {"store_rewrites"}
    BY DEF Reloading
<1>1. CASE ReadRules(p)
    <2>1. /\ pc[p] = "rules" /\ pc' = [pc EXCEPT ![p] = "rewrites"]
          /\ UNCHANGED <<db, engine, owes, tainted, stale, now_rfc3339>>
        BY <1>1, Zenon DEF ReadRules, ReloadStep, history
    <2>2. /\ new_rules'[p].custom = ActiveRules(now_rfc3339[p])
          /\ new_rules'[p].parental = FALSE
          /\ \A q \in Procs \ {p} : new_rules'[q] = new_rules[q]
        BY <1>a, <1>1 DEF ReadRules
    <2>3. "rules" \notin tainted[p] => new_rules'[p].custom = ActiveRules(clock)
        BY <2>1, <2>2, Zenon DEF RulesInv, RuleReads, ReadSoFar
    <2> QED
        BY <1>c, <2>1, <2>2, <2>3, ReadingStep, Zenon
<1>2. CASE ReadRewrites(p)
    <2>1. /\ pc[p] = "rewrites" /\ pc' = [pc EXCEPT ![p] = "safe"]
          /\ UNCHANGED <<db, engine, owes, tainted, stale, now_rfc3339, new_rules>>
        BY <1>2, Zenon DEF ReadRewrites, ReloadStep, history
    <2>2. "rules" \notin tainted[p] => /\ new_rules[p].custom = ActiveRules(clock)
                                       /\ new_rules[p].parental = FALSE
        BY <2>1 DEF RulesInv, RuleReads, ReadSoFar
    <2> QED
        BY <1>c, <2>1, <2>2, ReadingStep, Zenon
<1>3. CASE ReadSafeSearch(p)
    <2>1. /\ pc[p] = "safe" /\ pc' = [pc EXCEPT ![p] = "parental"]
          /\ UNCHANGED <<db, engine, now_rfc3339, new_rules>>
          /\ \/ UNCHANGED <<owes, tainted, stale>>
             \/ Misread(p, "rewrites")
        BY <1>3 DEF ReadSafeSearch, ReloadStep, history
    <2>2. "rules" \in tainted[p] => "rules" \in tainted'[p]
        BY <1>a, <2>1, Zenon DEF Misread
    <2>3. "rules" \notin tainted[p] => /\ new_rules[p].custom = ActiveRules(clock)
                                       /\ new_rules[p].parental = FALSE
        BY <2>1, Zenon DEF RulesInv, RuleReads, ReadSoFar
    <2> QED
        BY <1>b, <1>c, <2>1, <2>2, <2>3, ReadingStep, Zenon
<1>4. CASE ReadParentalEnabled(p)
    <2>1. /\ pc[p] = "parental"
          /\ UNCHANGED <<db, engine, now_rfc3339, new_rules>>
        BY <1>4 DEF ReadParentalEnabled, ReloadStep, reload_vars
    <2>2. "rules" \notin tainted[p] => /\ new_rules[p].custom = ActiveRules(clock)
                                       /\ new_rules[p].parental = FALSE
        BY <2>1, Zenon DEF RulesInv, RuleReads, ReadSoFar
    <2>3. CASE /\ pc' = [pc EXCEPT ![p] = "level"] /\ settings["parental_control_enabled"]
               /\ UNCHANGED <<owes, tainted, stale>>
        BY <1>c, <2>1, <2>2, <2>3, ReadingStep, Zenon
    <2>4. CASE /\ pc' = [pc EXCEPT ![p] = "store_rules"]
               /\ ~ settings["parental_control_enabled"]
               /\ UNCHANGED <<owes, tainted, stale>>
        <3>1. ParentalOn = FALSE
            BY <2>4 DEF ParentalOn
        <3> QED
            BY <1>c, <2>1, <2>2, <2>4, <3>1, ReadingStep, Zenon
    <2>5. CASE pc' = [pc EXCEPT ![p] = "store_rules"] /\ Misread(p, "rules")
        <3>1. "rules" \in tainted'[p]
            BY <1>a, <2>5 DEF Misread
        <3> QED
            BY <1>b, <1>c, <2>1, <2>5, <3>1, ReadingStep, Zenon
    <2> QED
        BY <1>4, <2>3, <2>4, <2>5 DEF ReadParentalEnabled, ReloadStep, history
<1>5. CASE ReadParentalLevel(p)
    <2>1. /\ pc[p] = "level" /\ pc' = [pc EXCEPT ![p] = "store_rules"]
          /\ UNCHANGED <<db, engine, now_rfc3339>>
        BY <1>5 DEF ReadParentalLevel, ReloadStep
    <2>2. \A q \in Procs \ {p} : new_rules'[q] = new_rules[q]
        BY <1>a, <1>5 DEF ReadParentalLevel
    <2>3. CASE /\ new_rules' = [new_rules EXCEPT
                                  ![p].parental = settings["parental_control_level"]]
               /\ UNCHANGED <<owes, tainted, stale>>
        <3>1. new_rules[p] \in [custom : SUBSET Rules, parental : BOOLEAN]
            BY <1>a DEF RuleSets
        <3>2. /\ new_rules'[p].custom = new_rules[p].custom
              /\ new_rules'[p].parental = settings["parental_control_level"]
            BY <1>a, <2>3, <3>1, Zenon
        <3>3. "rules" \notin tainted[p] => /\ new_rules[p].custom = ActiveRules(clock)
                                           /\ settings["parental_control_enabled"]
            BY <2>1, Zenon DEF RulesInv, RuleReads, ReadSoFar
        <3>4. settings["parental_control_enabled"] \in BOOLEAN
              /\ settings["parental_control_level"] \in BOOLEAN
            BY DEF TypeInv, TypeOK, Settings
        <3>5. settings["parental_control_enabled"]
                 => settings["parental_control_level"] = ParentalOn
            BY <3>4, Zenon DEF ParentalOn
        <3>6. "rules" \notin tainted[p] => /\ new_rules'[p].custom = ActiveRules(clock)
                                           /\ new_rules'[p].parental = ParentalOn
            BY <3>2, <3>3, <3>5
        <3> QED
            BY <1>c, <2>1, <2>2, <2>3, <3>6, ReadingStep, Zenon
    <2>4. CASE Misread(p, "rules")
        <3>1. "rules" \in tainted'[p]
            BY <1>a, <2>4 DEF Misread
        <3> QED
            BY <1>b, <1>c, <2>1, <2>2, <2>4, <3>1, ReadingStep, Zenon
    <2> QED
        BY <1>5, <2>3, <2>4 DEF ReadParentalLevel, history
<1>6. CASE StoreRules(p)
    <2>1. /\ pc[p] = "store_rules" /\ pc' = [pc EXCEPT ![p] = "store_rewrites"]
          /\ owes' = [owes EXCEPT ![p] = @ \ {"rules"}]
          /\ UNCHANGED <<db, reload_vars, tainted>>
          /\ rules' = new_rules[p]
        BY <1>6, Zenon DEF StoreRules, ReloadStep
    <2>2. OwesOK'
        BY <1>a, <2>1, Zenon DEF RulesInv, OwesOK, Reloading
    <2>3. RuleReads'
        BY <1>a, <2>1 DEF RulesInv, RuleReads, ReadSoFar, ActiveRules, Active, ParentalOn, db, reload_vars
    <2>4. RulesFollowTables'
        <3>1. CASE "rules" \in tainted[p]
            BY <1>6, <3>1, Zenon DEF StoreRules, Stored, RulesFollowTables
        <3>2. CASE "rules" \notin tainted[p]
            <4>1. new_rules[p].custom = ActiveRules(clock) /\ new_rules[p].parental = ParentalOn
                BY <2>1, <3>2, Zenon DEF RulesInv, RuleReads, ReadSoFar
            <4>2. new_rules[p] \in [custom : SUBSET Rules, parental : BOOLEAN]
                BY <1>a DEF RuleSets
            <4>3. new_rules[p] = DesiredRules
                BY <4>1, <4>2, Zenon DEF DesiredRules
            <4>4. DesiredRules' = DesiredRules
                BY <2>1, Zenon DEF DesiredRules, ActiveRules, Active, ParentalOn, db
            <4> QED
                BY <2>1, <4>3, <4>4, Zenon DEF RulesFollowTables
        <3> QED
            BY <3>1, <3>2, Zenon
    <2> QED
        BY <2>2, <2>3, <2>4 DEF RulesInv
<1>7. CASE StoreRewrites(p)
    <2>1. /\ pc[p] = "store_rewrites" /\ pc' = [pc EXCEPT ![p] = AfterReload(p)]
          /\ owes' = [owes EXCEPT ![p] = {}] /\ tainted' = [tainted EXCEPT ![p] = {}]
          /\ UNCHANGED <<db, rules>> /\ EndReload(p)
          /\ "rules" \in stale => "rules" \in stale'
        BY <1>7, Zenon DEF StoreRewrites, ReloadStep, Stored
    <2>2. AfterReload(p) \notin Reloading
        BY AfterReloadType, Zenon DEF Reloading
    <2>3. OwesOK'
        BY <1>a, <2>1, <2>2 DEF RulesInv, OwesOK, Reloading
    <2>4. RuleReads'
        BY <1>a, <2>1, <2>2, Zenon
           DEF EndReload, RulesInv, RuleReads, ReadSoFar, ActiveRules, Active, ParentalOn, db, Reloading
    <2>5. RulesFollowTables'
        <3>1. DesiredRules' = DesiredRules
            BY <2>1 DEF DesiredRules, ActiveRules, Active, ParentalOn, db
        <3>2. "rules" \notin owes[p]
            BY <2>1, Zenon DEF RulesInv, OwesOK
        <3>3. \A q \in Procs : "rules" \in owes[q] \ tainted[q] => "rules" \in owes'[q] \ tainted'[q]
            BY <1>a, <2>1, <3>2
        <3> QED
            BY <2>1, <3>1, <3>3 DEF RulesInv, RulesFollowTables
    <2> QED
        BY <2>3, <2>4, <2>5 DEF RulesInv
<1>8. CASE ReloadFails(p)
    <2>1. AfterReload(p) \in Locations \ Reloading
        BY AfterReloadType DEF Reloading, Locations
    <2> QED
        BY <1>8, <2>1, GiveUpRules, Zenon DEF ReloadFails
<1> QED
    BY <1>1, <1>2, <1>3, <1>4, <1>5, <1>6, <1>7, <1>8, Zenon DEF Reload

LEMMA TickRulesInv ==
    ASSUME TypeInv, RulesInv, Tick
    PROVE  RulesInv'
<1>a. /\ pc \in [Procs -> Locations] /\ tainted \in [Procs -> SUBSET Kinds]
    BY DEF TypeInv, TypeOK
<1>1. /\ UNCHANGED <<custom_rules, settings, rules, pc, now_rfc3339, new_rules, owes>>
      /\ clock' = clock + 1
    BY DEF Tick, engine, reload_vars
<1>2. CASE ActiveRules(clock) = ActiveRules(clock + 1)
    <2>1. UNCHANGED <<stale, tainted>>
        BY <1>2, Zenon DEF Tick
    <2>2. ActiveRules(clock)' = ActiveRules(clock)
        BY <1>1, <1>2, Zenon DEF ActiveRules, Active
    <2>3. OwesOK'
        BY <1>1, <2>1 DEF RulesInv, OwesOK
    <2>4. \A p \in Procs : ActiveRules(now_rfc3339[p])' = ActiveRules(now_rfc3339[p])
        BY <1>1, Zenon DEF ActiveRules, Active
    <2>5. RuleReads'
        BY <1>1, <2>1, <2>2, <2>4, Zenon DEF RulesInv, RuleReads, ReadSoFar, ParentalOn
    <2>6. RulesFollowTables'
        BY <1>1, <2>1, <2>2, Zenon DEF RulesInv, RulesFollowTables, DesiredRules, ParentalOn
    <2> QED
        BY <2>3, <2>5, <2>6 DEF RulesInv
<1>3. CASE ActiveRules(clock) # ActiveRules(clock + 1)
    <2>1. stale' = stale \cup {"rules"} /\ Overtake("rules")
        BY <1>3 DEF Tick
    <2>2. \A q \in Procs : tainted'[q] = IF pc[q] \in Reloading
                                         THEN tainted[q] \cup {"rules"} ELSE tainted[q]
        BY <2>1 DEF Overtake
    <2>3. OwesOK'
        BY <1>1, <2>2, Zenon DEF RulesInv, OwesOK
    <2>4. RuleReads'
        BY <1>1, <2>2, Zenon DEF RuleReads, ReadSoFar, Reloading
    <2>5. RulesFollowTables'
        BY <2>1 DEF RulesFollowTables
    <2> QED
        BY <2>3, <2>4, <2>5 DEF RulesInv
<1> QED
    BY <1>2, <1>3, Zenon

LEMMA NextRulesInv == TypeInv /\ RulesInv /\ [Next]_vars => RulesInv'
<1> SUFFICES ASSUME TypeInv, RulesInv, [Next]_vars PROVE RulesInv'
    BY Zenon
<1>1. CASE CleanupTick
    <2>1. pc[Cleanup] \notin Reloading
        BY <1>1 DEF CleanupTick, Reloading
    <2> QED
        BY <1>1, <2>1, CommitOther, ProcsMembers, Zenon
           DEF CleanupTick, db, engine, history, ParentalOn
<1>2. CASE Next /\ ~ CleanupTick
    BY <1>2, HandlerRulesInv, ReloadRulesInv, TickRulesInv DEF Next
<1>3. CASE UNCHANGED vars
    BY <1>3, Zenon DEF RulesInv, OwesOK, RuleReads, ReadSoFar, RulesFollowTables, DesiredRules, ActiveRules,
                Active, ParentalOn, vars, db, engine, reload_vars, history
<1> QED
    BY <1>1, <1>2, <1>3

(***************************************************************************)
(* However the handlers, their reloads, the cleanup task, failures and     *)
(* disconnects interleave, a rule set in force that is not the one the     *)
(* tables call for has a reload under way that will replace it by the      *)
(* right one, or a cause the specification names: filter.rs never stores   *)
(* a wrong rule set of its own making.                                     *)
(***************************************************************************)
THEOREM RulesCorrect == Spec => []RulesFollowTables
<1>1. Init => TypeInv /\ RulesInv
    BY InitTypeInv, InitRulesInv
<1>2. TypeInv /\ RulesInv /\ [Next]_vars => (TypeInv /\ RulesInv)'
    BY NextTypeInv, NextRulesInv
<1>3. RulesInv => RulesFollowTables
    BY DEF RulesInv
<1> QED
    BY <1>1, <1>2, <1>3, PTL DEF Spec

-----------------------------------------------------------------------------
(***************************************************************************)
(* The same for the rewrite map.  RewriteReads says what a reload that no  *)
(* commit has overtaken has read of it; OwesOK is used as proved above.    *)
(***************************************************************************)
RewritesRead == {"safe", "parental", "level", "store_rules", "store_rewrites"}

RewriteRead(p) ==
    "rewrites" \notin tainted[p] =>
        /\ pc[p] \in RewritesRead => new_rewrites[p].custom = RewritePairs
        /\ pc[p] \in RewritesRead \ {"safe"}
              => new_rewrites[p].safe = settings["safe_search_enabled"]

RewriteReads == \A p \in Procs : RewriteRead(p)

RewritesInv == RewriteReads /\ RewritesFollowTables

LEMMA InitRewritesInv == Init => RewritesInv
BY Zenon DEF Init, RewritesInv, RewriteReads, RewriteRead, RewritesRead, RewritesFollowTables

\* A step of p that leaves the rewrites alone, in the tables and in force.
LEMMA QuietRewrites ==
    ASSUME RewritesInv, NEW p \in Procs, rewrites' = rewrites, dns_rewrites' = dns_rewrites,
           settings'["safe_search_enabled"] = settings["safe_search_enabled"],
           "rewrites" \in stale => "rewrites" \in stale',
           \A q \in Procs \ {p} : /\ pc'[q] = pc[q] /\ new_rewrites'[q] = new_rewrites[q]
                                  /\ "rewrites" \in tainted'[q] <=> "rewrites" \in tainted[q]
                                  /\ "rewrites" \in owes'[q] <=> "rewrites" \in owes[q],
           "rewrites" \in owes[p] \ tainted[p]
              => "rewrites" \in stale' \/ "rewrites" \in owes'[p] \ tainted'[p],
           RewriteRead(p)'
    PROVE  RewritesInv'
<1>1. RewritePairs' = RewritePairs /\ DesiredRewrites' = DesiredRewrites
    BY Zenon DEF RewritePairs, DesiredRewrites
<1>2. \A q \in Procs \ {p} : RewriteRead(q)'
    BY <1>1, Zenon DEF RewritesInv, RewriteReads, RewriteRead
<1>3. RewritesFollowTables'
    BY <1>1 DEF RewritesInv, RewritesFollowTables
<1> QED
    BY <1>2, <1>3, Zenon DEF RewritesInv, RewriteReads

\* p commits a change to the rewrites and begins its reload.
LEMMA CommitRewrites ==
    ASSUME TypeInv, RulesInv, RewritesInv, NEW p \in Procs, pc[p] \notin Reloading,
           Commit(p, "rewrites"), BeginReload(p)
    PROVE  RewritesInv'
<1>a. /\ pc \in [Procs -> Locations] /\ owes \in [Procs -> SUBSET Kinds]
      /\ tainted \in [Procs -> SUBSET Kinds]
    BY Zenon DEF TypeInv, TypeOK
<1>1. pc'[p] = "rules" /\ owes'[p] = {"rewrites"} /\ tainted'[p] = {}
    BY <1>a, Zenon DEF Commit, Overtake, BeginReload, RulesInv, OwesOK
<1>2. \A q \in Procs \ {p} :
          /\ pc'[q] = pc[q]
          /\ tainted'[q] = IF pc[q] \in Reloading THEN tainted[q] \cup {"rewrites"} ELSE tainted[q]
    BY <1>a DEF Commit, Overtake, BeginReload
<1>3. RewriteReads'
    BY <1>1, <1>2, Zenon DEF RewriteReads, RewriteRead, RewritesRead, Reloading
<1>4. RewritesFollowTables'
    BY <1>1 DEF RewritesFollowTables
<1> QED
    BY <1>3, <1>4, Zenon DEF RewritesInv

\* p begins a reload for another change, or for none.
LEMMA BeginsElse ==
    ASSUME TypeInv, RulesInv, RewritesInv, NEW p \in Procs, pc[p] \notin Reloading,
           \/ Commit(p, "rules")
           \/ UNCHANGED <<owes, tainted>>,
           BeginReload(p), UNCHANGED <<dns_rewrites, rewrites, stale>>,
           settings'["safe_search_enabled"] = settings["safe_search_enabled"]
    PROVE  RewritesInv'
<1>a. /\ pc \in [Procs -> Locations] /\ owes \in [Procs -> SUBSET Kinds]
      /\ tainted \in [Procs -> SUBSET Kinds]
    BY DEF TypeInv, TypeOK
<1>1. pc'[p] = "rules" /\ owes[p] = {}
    BY <1>a, Zenon DEF BeginReload, RulesInv, OwesOK
<1>2. \A q \in Procs \ {p} : /\ pc'[q] = pc[q] /\ new_rewrites'[q] = new_rewrites[q]
                             /\ "rewrites" \in tainted'[q] <=> "rewrites" \in tainted[q]
                             /\ "rewrites" \in owes'[q] <=> "rewrites" \in owes[q]
    BY <1>a DEF Commit, Overtake, BeginReload
<1>3. RewriteRead(p)'
    BY <1>1, Zenon DEF RewriteRead, RewritesRead
<1> QED
    BY <1>1, <1>2, <1>3, QuietRewrites, Zenon

\* p leaves its reload, or is outside it, and what it owes stays undone.
LEMMA OutsideRewrites ==
    ASSUME TypeInv, RulesInv, RewritesInv, NEW p \in Procs, NEW to \in Locations \ Reloading,
           pc' = [pc EXCEPT ![p] = to], UNCHANGED <<db, engine>>,
           \/ GiveUp(p) /\ EndReload(p)
           \/ UNCHANGED <<reload_vars, owes, tainted, stale>> /\ pc[p] \notin Reloading
    PROVE  RewritesInv'
<1>a. /\ pc \in [Procs -> Locations] /\ owes \in [Procs -> SUBSET Kinds]
      /\ tainted \in [Procs -> SUBSET Kinds] /\ new_rewrites \in [Procs -> RewriteMaps]
    BY Zenon DEF TypeInv, TypeOK
<1>1. \A q \in Procs \ {p} : /\ pc'[q] = pc[q] /\ new_rewrites'[q] = new_rewrites[q]
                             /\ tainted'[q] = tainted[q] /\ owes'[q] = owes[q]
    BY <1>a DEF GiveUp, EndReload, reload_vars
<1>2. RewriteRead(p)'
    BY <1>a, Zenon DEF RewriteRead, RewritesRead, Reloading
<1>3. "rewrites" \in owes[p] => "rewrites" \in stale'
    BY DEF GiveUp, RulesInv, OwesOK
<1>4. "rewrites" \in stale => "rewrites" \in stale'
    BY Zenon DEF GiveUp
<1> QED
    BY <1>1, <1>2, <1>3, <1>4, QuietRewrites, Zenon DEF db, engine

LEMMA WriteRulesKeepsRewrites ==
    ASSUME TypeInv, RulesInv, RewritesInv, NEW p \in Procs, pc[p] \notin Reloading,
           NEW rows, WriteRules(p, rows)
    PROVE  RewritesInv'
BY BeginsElse DEF WriteRules, engine

LEMMA WriteRewritesInv ==
    ASSUME TypeInv, RulesInv, RewritesInv, NEW p \in Procs, pc[p] \notin Reloading,
           NEW rows, WriteRewrites(p, rows)
    PROVE  RewritesInv'
BY CommitRewrites, Zenon DEF WriteRewrites

LEMMA HandlerRewritesInv ==
    ASSUME TypeInv, RulesInv, RewritesInv, NEW p \in Workers, Handler(p)
    PROVE  RewritesInv'
<1> p \in Procs
    BY ProcsMembers
<1>a. "idle" \notin Reloading /\ "update_rule" \notin Reloading
      /\ "update_rewrite" \notin Reloading /\ "setting" \notin Reloading
    BY DEF Reloading
<1>b. {"idle", "update_rule", "update_rewrite", "setting"} \subseteq Locations \ Reloading
    BY <1>a DEF Locations
<1>1. ASSUME pc[p] \notin Reloading, \E rows : WriteRules(p, rows) PROVE RewritesInv'
    BY <1>1, WriteRulesKeepsRewrites
<1>2. ASSUME pc[p] \notin Reloading, \E rows : WriteRewrites(p, rows) PROVE RewritesInv'
    BY <1>2, WriteRewritesInv
<1>3. CASE \/ \E r \in Rules, e \in Expiries : CreateRule(p, r, e)
           \/ \E r \in Rules : DeleteRule(p, r)
           \/ \E r \in Rules, row \in {"on", "off"} : ToggleRule(p, r, row)
    BY <1>3, <1>1, <1>a, Zenon DEF CreateRule, DeleteRule, ToggleRule, Request
<1>4. CASE \/ \E ids \in SUBSET Rules, row \in {"on", "off", "none"} : BulkAction(p, ids, row)
           \/ \E ids \in SUBSET Rules : ImportRules(p, ids)
           \/ \E row \in {"on", "off"}, e \in Expiries : UpdateRuleExpiry(p, row, e)
    BY <1>4, <1>1, <1>a, Zenon DEF BulkAction, ImportRules, UpdateRuleExpiry, Request
<1>5. CASE \/ \E r \in Rules : ReadRuleForUpdate(p, r)
           \/ \E i \in RewriteIds : ReadRewriteForUpdate(p, i)
           \/ \E body \in Bodies : UpdateDns(p, body)
    <2>1. /\ pc[p] \notin Reloading
          /\ \E to \in {"update_rule", "update_rewrite", "setting"} : pc' = [pc EXCEPT ![p] = to]
          /\ UNCHANGED <<db, engine, reload_vars, owes, tainted, stale>>
        BY <1>5, <1>a DEF ReadRuleForUpdate, ReadRewriteForUpdate, UpdateDns, Request, history
    <2> QED
        BY <1>b, <2>1, OutsideRewrites, Zenon
<1>6. ASSUME NEW row \in {"on", "off"}, UpdateRuleStatus(p, row) PROVE RewritesInv'
    <2> DEFINE rows == [custom_rules EXCEPT ![rule_read[p].id].row = row]
    <2>1. pc[p] \notin Reloading
        BY <1>6, <1>a DEF UpdateRuleStatus
    <2>2. CASE row # rule_read[p].row
        <3>1. WriteRules(p, rows)
            BY <1>6, <2>2 DEF UpdateRuleStatus
        <3> QED
            BY <1>1, <2>1, <3>1, Zenon
    <2>3. CASE row = rule_read[p].row
        <3>1. /\ pc' = [pc EXCEPT ![p] = "idle"] /\ owes' = owes
              /\ UNCHANGED <<dns_rewrites, settings, engine, reload_vars>>
              /\ \/ UNCHANGED <<tainted, stale>>
                 \/ stale' = stale \cup {"rules"} /\ Overtake("rules")
            BY <1>6, <2>3, Zenon DEF UpdateRuleStatus
        <3>2. pc \in [Procs -> Locations] /\ tainted \in [Procs -> SUBSET Kinds]
            BY Zenon DEF TypeInv, TypeOK
        <3>3. \A q \in Procs \ {p} : /\ pc'[q] = pc[q] /\ new_rewrites'[q] = new_rewrites[q]
                                     /\ "rewrites" \in tainted'[q] <=> "rewrites" \in tainted[q]
                                     /\ "rewrites" \in owes'[q] <=> "rewrites" \in owes[q]
            <4>1. UNCHANGED <<new_rewrites, owes>>
                BY <3>1, Zenon DEF reload_vars
            <4>2. \A q \in Procs \ {p} : pc'[q] = pc[q]
                BY <3>1, <3>2
            <4>3. CASE UNCHANGED tainted
                BY <4>1, <4>2, <4>3, Zenon
            <4>4. CASE Overtake("rules")
                <5>1. \A q \in Procs : tainted'[q] = tainted[q] \cup {"rules"} \/ tainted'[q] = tainted[q]
                    BY <4>4, Zenon DEF Overtake
                <5>2. \A q \in Procs : "rewrites" \in tainted'[q] <=> "rewrites" \in tainted[q]
                    BY <5>1
                <5> QED
                    BY <4>1, <4>2, <5>2, Zenon
            <4> QED
                BY <3>1, <4>3, <4>4, Zenon
        <3>4. RewriteRead(p)' /\ owes[p] = {}
            BY <2>1, <3>1, <3>2, Zenon DEF RewriteRead, RewritesRead, RulesInv, OwesOK
        <3>5. "rewrites" \in stale => "rewrites" \in stale'
            BY <3>1
        <3> QED
            BY <3>1, <3>3, <3>4, <3>5, QuietRewrites, Zenon DEF engine
    <2> QED
        BY <2>2, <2>3, Zenon
<1>7. CASE \/ \E i \in RewriteIds, row \in RewriteRows : CreateRewrite(p, i, row)
           \/ \E i \in RewriteIds : DeleteRewrite(p, i)
           \/ \E row \in RewriteRows : UpdateRewrite(p, row)
    BY <1>7, <1>2, <1>a, Zenon DEF CreateRewrite, DeleteRewrite, UpdateRewrite, Request
<1>8. CASE WriteSetting(p)
    <2> DEFINE write == Head(todo[p])
    <2>1. /\ pc[p] \notin Reloading /\ Commit(p, KindOf(write.key)) /\ BeginReload(p)
          /\ UNCHANGED <<dns_rewrites, rewrites, stale>>
        BY <1>8, <1>a, Zenon DEF WriteSetting, engine
    <2>2. CASE write.key = "safe_search_enabled"
        BY <2>1, <2>2, CommitRewrites, Zenon DEF KindOf
    <2>3. CASE write.key # "safe_search_enabled"
        <3>1. settings'["safe_search_enabled"] = settings["safe_search_enabled"]
            BY <1>8, <2>3 DEF WriteSetting, TypeInv, TypeOK, Settings
        <3> QED
            BY <2>1, <2>3, <3>1, BeginsElse, Zenon DEF KindOf
    <2> QED
        BY <2>2, <2>3
<1>9. CASE Abandon(p)
    BY <1>9, <1>b, OutsideRewrites, Zenon DEF Abandon
<1> QED
    BY <1>3, <1>4, <1>5, <1>6, <1>7, <1>8, <1>9, Zenon DEF Handler

\* A step of a reload that stores no rewrites.
LEMMA ReadingRewrites ==
    ASSUME TypeInv, RulesInv, RewritesInv, NEW p \in Procs, NEW to \in Reloading,
           pc' = [pc EXCEPT ![p] = to], UNCHANGED <<db, rewrites>>,
           \/ UNCHANGED <<owes, tainted, stale>>
           \/ \E k \in Kinds : Misread(p, k)
           \/ tainted' = tainted /\ owes' = [owes EXCEPT ![p] = @ \ {"rules"}] /\ Stored(p, "rules"),
           \A q \in Procs \ {p} : new_rewrites'[q] = new_rewrites[q],
           "rewrites" \notin tainted'[p] =>
              /\ to \in RewritesRead => new_rewrites'[p].custom = RewritePairs
              /\ to \in RewritesRead \ {"safe"} => new_rewrites'[p].safe = settings["safe_search_enabled"]
    PROVE  RewritesInv'
<1>a. /\ pc \in [Procs -> Locations] /\ owes \in [Procs -> SUBSET Kinds]
      /\ tainted \in [Procs -> SUBSET Kinds]
    BY Zenon DEF TypeInv, TypeOK
<1>1. \A q \in Procs \ {p} : pc'[q] = pc[q] /\ tainted'[q] = tainted[q] /\ owes'[q] = owes[q]
    BY <1>a, Zenon DEF Misread
<1>2. "rewrites" \in stale => "rewrites" \in stale'
    BY Zenon DEF Misread, Stored
<1>3. "rewrites" \in owes[p] \ tainted[p] => "rewrites" \in stale' \/ "rewrites" \in owes'[p] \ tainted'[p]
    BY <1>a, Zenon DEF Misread
<1>4. RewritePairs' = RewritePairs /\ pc'[p] = to
    BY <1>a DEF RewritePairs, db
<1>5. RewriteRead(p)'
    BY <1>4, Zenon DEF RewriteRead, db
<1> QED
    BY <1>1, <1>2, <1>3, <1>5, QuietRewrites, Zenon DEF db

LEMMA ReloadRewritesInv ==
    ASSUME TypeInv, RulesInv, RewritesInv, NEW p \in Procs, Reload(p) \/ ReloadFails(p)
    PROVE  RewritesInv'
<1>a. /\ pc \in [Procs -> Locations] /\ owes \in [Procs -> SUBSET Kinds]
      /\ tainted \in [Procs -> SUBSET Kinds] /\ new_rewrites \in [Procs -> RewriteMaps]
    BY DEF TypeInv, TypeOK
<1>b. "rules" \in Kinds /\ "rewrites" \in Kinds
    BY DEF Kinds
<1>c. RewriteRead(p)
    BY Zenon DEF RewritesInv, RewriteReads
<1>1. CASE ReadRules(p)
    BY <1>1, ReadingRewrites, Zenon DEF ReadRules, ReloadStep, history, engine, Reloading, RewritesRead
<1>2. CASE ReadRewrites(p)
    <2>1. new_rewrites'[p].custom = RewritePairs /\ \A q \in Procs \ {p} : new_rewrites'[q] = new_rewrites[q]
        BY <1>a, <1>2 DEF ReadRewrites
    <2> QED
        BY <1>2, <2>1, ReadingRewrites, Zenon DEF ReadRewrites, ReloadStep, history, engine, Reloading
<1>3. CASE ReadSafeSearch(p)
    <2>1. /\ pc[p] = "safe" /\ pc' = [pc EXCEPT ![p] = "parental"] /\ UNCHANGED <<db, rewrites>>
          /\ "parental" \in Reloading /\ "safe" \in RewritesRead
        BY <1>3 DEF ReadSafeSearch, ReloadStep, engine, Reloading, RewritesRead
    <2>2. CASE /\ new_rewrites' = [new_rewrites EXCEPT ![p].safe = settings["safe_search_enabled"]]
               /\ UNCHANGED <<owes, tainted, stale>>
        <3>1. new_rewrites[p] \in [custom : SUBSET (Domains \X Answers), safe : BOOLEAN]
            BY <1>a DEF RewriteMaps
        <3>2. /\ new_rewrites'[p].custom = new_rewrites[p].custom
              /\ new_rewrites'[p].safe = settings["safe_search_enabled"]
              /\ \A q \in Procs \ {p} : new_rewrites'[q] = new_rewrites[q]
            BY <1>a, <2>2, <3>1, Zenon
        <3>3. "rewrites" \notin tainted[p] => new_rewrites[p].custom = RewritePairs
            BY <1>c, <2>1 DEF RewriteRead
        <3> QED
            BY <2>1, <2>2, <3>2, <3>3, ReadingRewrites, Zenon
    <2>3. CASE new_rewrites' = new_rewrites /\ Misread(p, "rewrites")
        <3>1. "rewrites" \in tainted'[p]
            BY <1>a, <2>3 DEF Misread
        <3> QED
            BY <1>b, <2>1, <2>3, <3>1, ReadingRewrites, Zenon
    <2> QED
        BY <1>3, <2>2, <2>3 DEF ReadSafeSearch, history
<1>4. ASSUME NEW from \in RewritesRead \ {"safe"}, NEW to \in Reloading,
             pc[p] = from, pc' = [pc EXCEPT ![p] = to], UNCHANGED <<db, rewrites, new_rewrites>>,
             \/ UNCHANGED <<owes, tainted, stale>>
             \/ \E k \in Kinds : Misread(p, k)
             \/ tainted' = tainted /\ owes' = [owes EXCEPT ![p] = @ \ {"rules"}] /\ Stored(p, "rules")
      PROVE  RewritesInv'
    <2>1. "rewrites" \in tainted[p] => "rewrites" \in tainted'[p]
        BY <1>a, <1>4, Zenon DEF Misread
    <2>2. "rewrites" \notin tainted[p] => /\ new_rewrites[p].custom = RewritePairs
                                          /\ new_rewrites[p].safe = settings["safe_search_enabled"]
        BY <1>c, <1>4 DEF RewriteRead
    <2> QED
        BY <1>4, <2>1, <2>2, ReadingRewrites, Zenon
<1>5. CASE ReadParentalEnabled(p)
    <2>1. /\ pc[p] = "parental" /\ UNCHANGED <<db, rewrites, new_rewrites>>
          /\ \E to \in {"level", "store_rules"} : pc' = [pc EXCEPT ![p] = to]
          /\ UNCHANGED <<owes, tainted, stale>> \/ Misread(p, "rules")
        BY <1>5, Zenon DEF ReadParentalEnabled, ReloadStep, engine, reload_vars, history
    <2> QED
        BY <1>4, <1>b, <2>1, Zenon DEF RewritesRead, Reloading
<1>6. CASE ReadParentalLevel(p)
    <2>1. /\ pc[p] = "level" /\ UNCHANGED <<db, rewrites, new_rewrites>>
          /\ pc' = [pc EXCEPT ![p] = "store_rules"]
          /\ UNCHANGED <<owes, tainted, stale>> \/ Misread(p, "rules")
        BY <1>6, Zenon DEF ReadParentalLevel, ReloadStep, engine, history
    <2> QED
        BY <1>4, <1>b, <2>1, Zenon DEF RewritesRead, Reloading
<1>7. CASE StoreRules(p)
    <2>1. /\ pc[p] = "store_rules" /\ UNCHANGED <<db, rewrites, new_rewrites>>
          /\ pc' = [pc EXCEPT ![p] = "store_rewrites"]
          /\ tainted' = tainted /\ owes' = [owes EXCEPT ![p] = @ \ {"rules"}] /\ Stored(p, "rules")
        BY <1>7 DEF StoreRules, ReloadStep, reload_vars
    <2> QED
        BY <1>4, <2>1, Zenon DEF RewritesRead, Reloading
<1>8. CASE StoreRewrites(p)
    <2>1. /\ pc[p] = "store_rewrites" /\ pc' = [pc EXCEPT ![p] = AfterReload(p)]
          /\ owes' = [owes EXCEPT ![p] = {}] /\ tainted' = [tainted EXCEPT ![p] = {}]
          /\ UNCHANGED db /\ EndReload(p) /\ rewrites' = new_rewrites[p] /\ Stored(p, "rewrites")
        BY <1>8, Zenon DEF StoreRewrites, ReloadStep
    <2>2. AfterReload(p) \notin Reloading
        BY AfterReloadType DEF Reloading
    <2>3. RewritePairs' = RewritePairs /\ DesiredRewrites' = DesiredRewrites
        BY <2>1, Zenon DEF RewritePairs, DesiredRewrites, db
    <2>4. RewriteReads'
        <3>1. ASSUME NEW q \in Procs \ {p} PROVE RewriteRead(q)'
            <4>1. pc'[q] = pc[q] /\ tainted'[q] = tainted[q] /\ new_rewrites'[q] = new_rewrites[q]
                BY <1>a, <2>1 DEF EndReload
            <4> QED
                BY <2>1, <2>3, <4>1, Zenon DEF RewritesInv, RewriteReads, RewriteRead, db
        <3>2. RewriteRead(p)'
            BY <1>a, <2>1, <2>2, Zenon DEF RewriteRead, RewritesRead, Reloading
        <3> QED
            BY <3>1, <3>2 DEF RewriteReads
    <2>5. RewritesFollowTables'
        <3>1. CASE "rewrites" \in tainted[p]
            BY <2>1, <3>1 DEF Stored, RewritesFollowTables
        <3>2. CASE "rewrites" \notin tainted[p]
            <4>1. /\ new_rewrites[p].custom = RewritePairs
                  /\ new_rewrites[p].safe = settings["safe_search_enabled"]
                BY <1>c, <2>1, <3>2, Zenon DEF RewriteRead, RewritesRead
            <4>2. new_rewrites[p] \in [custom : SUBSET (Domains \X Answers), safe : BOOLEAN]
                BY <1>a DEF RewriteMaps
            <4>3. new_rewrites[p] = DesiredRewrites
                BY <4>1, <4>2 DEF DesiredRewrites
            <4> QED
                BY <2>1, <2>3, <4>3, Zenon DEF RewritesFollowTables
        <3> QED
            BY <3>1, <3>2, Zenon
    <2> QED
        BY <2>4, <2>5, Zenon DEF RewritesInv
<1>9. CASE ReloadFails(p)
    <2>1. AfterReload(p) \in Locations \ Reloading
        BY AfterReloadType DEF Reloading, Locations
    <2> QED
        BY <1>9, <2>1, OutsideRewrites, Zenon DEF ReloadFails
<1> QED
    BY <1>1, <1>2, <1>3, <1>5, <1>6, <1>7, <1>8, <1>9, Zenon DEF Reload

LEMMA TickRewritesInv ==
    ASSUME TypeInv, RulesInv, RewritesInv, Tick
    PROVE  RewritesInv'
<1>1. /\ UNCHANGED <<dns_rewrites, settings, rewrites, pc, new_rewrites, owes>>
      /\ UNCHANGED <<stale, tainted>> \/ (stale' = stale \cup {"rules"} /\ Overtake("rules"))
    BY Zenon DEF Tick, engine, reload_vars
<1>2. tainted \in [Procs -> SUBSET Kinds]
    BY DEF TypeInv, TypeOK
<1>3. \A q \in Procs : "rewrites" \in tainted'[q] <=> "rewrites" \in tainted[q]
    BY <1>1, <1>2 DEF Overtake
<1>4. RewriteReads'
    BY <1>1, <1>3, Zenon DEF RewritesInv, RewriteReads, RewriteRead, RewritePairs
<1>5. RewritesFollowTables'
    BY <1>1, <1>3 DEF RewritesInv, RewritesFollowTables, DesiredRewrites, RewritePairs
<1> QED
    BY <1>4, <1>5, Zenon DEF RewritesInv

LEMMA NextRewritesInv == TypeInv /\ RulesInv /\ RewritesInv /\ [Next]_vars => RewritesInv'
<1> SUFFICES ASSUME TypeInv, RulesInv, RewritesInv, [Next]_vars PROVE RewritesInv'
    OBVIOUS
<1>1. CASE CleanupTick
    <2>1. pc[Cleanup] \notin Reloading
        BY <1>1, Zenon DEF CleanupTick, Reloading
    <2> QED
        BY <1>1, <2>1, BeginsElse, ProcsMembers, Zenon DEF CleanupTick, db, engine, history
<1>2. CASE Next /\ ~ CleanupTick
    BY <1>2, HandlerRewritesInv, ReloadRewritesInv, TickRewritesInv DEF Next
<1>3. CASE UNCHANGED vars
    BY <1>3, Zenon DEF RewritesInv, RewriteReads, RewriteRead, RewritesFollowTables, DesiredRewrites,
                RewritePairs, vars, db, engine, reload_vars, history
<1> QED
    BY <1>1, <1>2, <1>3

(***************************************************************************)
(* The rewrite map in force is the one of dns_rewrites and of the Safe     *)
(* Search setting, or a reload that makes it so is under way, or one was   *)
(* lost or overtaken: the other half of FilterEngine::reload.              *)
(***************************************************************************)
THEOREM RewritesCorrect == Spec => []RewritesFollowTables
<1>1. Init => TypeInv /\ RulesInv /\ RewritesInv
    BY InitTypeInv, InitRulesInv, InitRewritesInv
<1>2. TypeInv /\ RulesInv /\ RewritesInv /\ [Next]_vars => (TypeInv /\ RulesInv /\ RewritesInv)'
    BY NextTypeInv, NextRulesInv, NextRewritesInv
<1>3. RewritesInv => RewritesFollowTables
    BY Zenon DEF RewritesInv
<1> QED
    BY <1>1, <1>2, <1>3, PTL DEF Spec

-----------------------------------------------------------------------------
(* The DNS server; its counts are numbers of elements of finite sets *)

INSTANCE FiniteSetTheorems

\* The types of what is neither a permit nor a counter.
StateOK ==
    /\ main \in {"serving", "waiting", "closing", "exited"}
    /\ waited \in 0..SHUTDOWN_TIMEOUT
    /\ server \in {"starting", "serving", "draining", "done"}
    /\ drained \in 0..DRAIN_TIMEOUT
    /\ api \in {"starting", "serving", "draining", "done"}
    /\ http \subseteq ApiRequests
    /\ signalled \subseteq Tasks
    /\ tcp_loop \in {"none", "select", "stopped"} /\ udp_loop \in {"none", "select", "stopped"}
    /\ local_shutdown \in BOOLEAN
    /\ conn \in [Connections -> ConnStates]
    /\ query \in [Datagrams -> QueryStates]
    /\ counted_first \subseteq Connections
    /\ drain_timed_out \in BOOLEAN /\ forced \in BOOLEAN
    /\ cut \subseteq {"tcp", "udp"}

\* The counts, which are whole numbers.
CountInv ==
    /\ active_tcp_connections \in Int /\ tcp_sem \in Int /\ udp_sem \in Int
    /\ CountsExact

Inv == StateOK /\ CountInv

LEMMA FiniteParts ==
    ASSUME StateOK, NEW S
    PROVE  IsFiniteSet(In(S)) /\ Cardinality(In(S)) \in Nat
<1>1. In(S) \subseteq Connections
    BY Zenon DEF In
<1> QED
    BY <1>1, ServerAssumption, FS_Subset, FS_CardinalityType

LEMMA FiniteHandled ==
    ASSUME StateOK
    PROVE  IsFiniteSet(Handled) /\ Cardinality(Handled) \in Nat
<1>1. Handled \subseteq Datagrams
    BY Zenon DEF Handled
<1> QED
    BY <1>1, ServerAssumption, FS_Subset, FS_CardinalityType

\* How the number of connections in some states changes with one connection.
D(x, S) == IF x \in S THEN 1 ELSE 0

LEMMA OneMoves ==
    ASSUME StateOK, NEW c \in Connections, NEW b, conn' = [conn EXCEPT ![c] = b], NEW S
    PROVE  Cardinality(In(S))' = Cardinality(In(S)) + D(b, S) - D(conn[c], S)
<1>1. conn'[c] = b /\ \A d \in Connections \ {c} : conn'[d] = conn[d]
    BY Zenon DEF StateOK
<1>2. /\ (conn[c] \in S <=> b \in S) => In(S)' = In(S)
      /\ conn[c] \notin S /\ b \in S => In(S)' = In(S) \cup {c} /\ c \notin In(S)
      /\ conn[c] \in S /\ b \notin S => In(S)' = In(S) \ {c} /\ c \in In(S)
    BY <1>1 DEF In
<1>3. IsFiniteSet(In(S)) /\ Cardinality(In(S)) \in Nat
    BY FiniteParts
<1>4. /\ c \notin In(S) => Cardinality(In(S) \cup {c}) = Cardinality(In(S)) + 1
      /\ c \in In(S) => Cardinality(In(S) \ {c}) = Cardinality(In(S)) - 1
    BY <1>3, FS_AddElement, FS_RemoveElement, Zenon
<1>5. CASE conn[c] \in S <=> b \in S
  <2>1. D(b, S) = D(conn[c], S) /\ D(b, S) \in Int
    BY <1>5 DEF D
  <2>2. Cardinality(In(S))' = Cardinality(In(S))
    BY <1>2, <1>5, Zenon
  <2> QED
    BY <1>3, <2>1, <2>2
<1>6. CASE conn[c] \notin S /\ b \in S
  <2>1. Cardinality(In(S))' = Cardinality(In(S)) + 1
    BY <1>2, <1>4, <1>6, Zenon
  <2> QED
    BY <1>3, <1>6, <2>1 DEF D
<1>7. CASE conn[c] \in S /\ b \notin S
  <2>1. Cardinality(In(S))' = Cardinality(In(S)) - 1
    BY <1>2, <1>4, <1>7, Zenon
  <2> QED
    BY <1>3, <1>7, <2>1 DEF D
<1> QED
    BY <1>5, <1>6, <1>7, Zenon

LEMMA OneQueryMoves ==
    ASSUME StateOK, NEW q \in Datagrams, NEW b, query' = [query EXCEPT ![q] = b]
    PROVE  /\ query[q] # "handling" /\ b # "handling" => Cardinality(Handled)' = Cardinality(Handled)
           /\ query[q] # "handling" /\ b = "handling" => Cardinality(Handled)' = Cardinality(Handled) + 1
           /\ query[q] = "handling" /\ b # "handling" => Cardinality(Handled)' = Cardinality(Handled) - 1
<1>1. query'[q] = b /\ \A d \in Datagrams \ {q} : query'[d] = query[d]
    BY Zenon DEF StateOK
<1>2. /\ query[q] # "handling" /\ b # "handling" => Handled' = Handled
      /\ query[q] # "handling" /\ b = "handling" => Handled' = Handled \cup {q} /\ q \notin Handled
      /\ query[q] = "handling" /\ b # "handling" => Handled' = Handled \ {q} /\ q \in Handled
    BY <1>1 DEF Handled
<1>3. IsFiniteSet(Handled)
    BY FiniteHandled
<1>4. /\ q \notin Handled => Cardinality(Handled \cup {q}) = Cardinality(Handled) + 1
      /\ q \in Handled => Cardinality(Handled \ {q}) = Cardinality(Handled) - 1
    BY <1>3, FS_AddElement, FS_RemoveElement, Zenon
<1> QED
    BY <1>2, <1>4, Zenon

LEMMA InitInv == ServerInit => Inv
<1> SUFFICES ASSUME ServerInit PROVE Inv
    OBVIOUS
<1>1. In(Counted) = {} /\ In(Holding) = {} /\ Handled = {}
    BY DEF ServerInit, In, Counted, Holding, Handled
<1>2. Cardinality({}) = 0
    BY FS_EmptySet, Zenon
<1>3. CountInv
    BY <1>1, <1>2, ServerAssumption DEF CountInv, CountsExact, ServerInit
<1>4. waited \in 0..SHUTDOWN_TIMEOUT /\ drained \in 0..DRAIN_TIMEOUT
    BY ServerAssumption DEF ServerInit
<1>5. StateOK
    BY <1>4, Zenon DEF ServerInit, StateOK, ConnStates, QueryStates
<1> QED
    BY <1>3, <1>5, Zenon DEF Inv

LEMMA InvType == Inv => ServerTypeOK
<1> SUFFICES ASSUME Inv PROVE ServerTypeOK
    OBVIOUS
<1>1. In(Counted) \subseteq In(Holding)
    BY Zenon DEF In, Holding
<1>2. IsFiniteSet(In(Holding)) /\ Cardinality(In(Holding)) \in Nat /\ Cardinality(In(Counted)) \in Nat
      /\ Cardinality(Handled) \in Nat
    BY FiniteParts, FiniteHandled DEF Inv
<1>3. Cardinality(In(Counted)) <= Cardinality(In(Holding))
    BY <1>1, <1>2, FS_Subset, Zenon
<1>4. /\ tcp_sem \in 0..MAX_TCP_CONNECTIONS /\ udp_sem \in 0..MAX_CONCURRENT
      /\ active_tcp_connections \in 0..MAX_TCP_CONNECTIONS
    BY <1>2, <1>3, ServerAssumption DEF Inv, CountInv, CountsExact
<1> QED
    BY <1>4 DEF Inv, StateOK, ServerTypeOK

\* A step of the TCP side on one connection.
LEMMA ConnStep ==
    ASSUME Inv, NEW c \in Connections, NEW b \in ConnStates, conn' = [conn EXCEPT ![c] = b],
           TcpStep, tcp_loop' = tcp_loop, tcp_sem' >= 0,
           active_tcp_connections' = active_tcp_connections + D(b, Counted) - D(conn[c], Counted),
           tcp_sem' = tcp_sem - D(b, Holding) + D(conn[c], Holding)
    PROVE  Inv'
<1>1. StateOK'
    BY DEF Inv, StateOK, TcpStep, main_vars, api_vars, udp_vars, server_history
<1>2. Cardinality(In(Counted))' = Cardinality(In(Counted)) + D(b, Counted) - D(conn[c], Counted)
    BY OneMoves, Zenon DEF Inv
<1>3. Cardinality(In(Holding))' = Cardinality(In(Holding)) + D(b, Holding) - D(conn[c], Holding)
    BY OneMoves, Zenon DEF Inv
<1>4. /\ Cardinality(In(Counted)) \in Nat /\ Cardinality(In(Holding)) \in Nat
      /\ D(b, Counted) \in Int /\ D(conn[c], Counted) \in Int
      /\ D(b, Holding) \in Int /\ D(conn[c], Holding) \in Int
    BY FiniteParts DEF Inv, D
<1>5. Handled' = Handled /\ udp_sem' = udp_sem
    BY Zenon DEF TcpStep, udp_vars, Handled
<1>6. /\ active_tcp_connections' \in Int /\ tcp_sem' \in Int
      /\ active_tcp_connections' = Cardinality(In(Counted))'
      /\ tcp_sem' + Cardinality(In(Holding))' = MAX_TCP_CONNECTIONS
  <2>1. /\ active_tcp_connections \in Int /\ tcp_sem \in Int
        /\ active_tcp_connections = Cardinality(In(Counted))
        /\ tcp_sem + Cardinality(In(Holding)) = MAX_TCP_CONNECTIONS
    BY Zenon DEF Inv, CountInv, CountsExact
  <2> QED
    BY <1>2, <1>3, <1>4, <2>1
<1>7. CountInv'
    BY <1>5, <1>6, Zenon DEF Inv, CountInv, CountsExact
<1> QED
    BY <1>1, <1>7, Zenon DEF Inv

\* Which states are counted, and which hold a permit.
LEMMA Weights ==
    /\ D("idle", Counted) = 0 /\ D("queued", Counted) = 0 /\ D("permitted", Counted) = 0
    /\ D("leaving", Counted) = 0 /\ D("closed", Counted) = 0 /\ D("refused", Counted) = 0
    /\ D("length", Counted) = 1 /\ D("body", Counted) = 1 /\ D("handling", Counted) = 1
    /\ D("idle", Holding) = 0 /\ D("queued", Holding) = 0 /\ D("permitted", Holding) = 1
    /\ D("leaving", Holding) = 1 /\ D("closed", Holding) = 0 /\ D("refused", Holding) = 0
    /\ D("length", Holding) = 1 /\ D("body", Holding) = 1 /\ D("handling", Holding) = 1
BY DEF D, Counted, Holding

LEMMA TcpInv ==
    ASSUME Inv, NEW c \in Connections, Connect(c) \/ Accept(c) \/ Track(c) \/ ConnectionTask(c)
    PROVE  Inv'
<1>0. tcp_sem \in Int /\ tcp_sem >= 0 /\ active_tcp_connections \in Int
    BY DEF Inv, CountInv, CountsExact
<1>1. CASE Connect(c)
  <2>1. /\ conn[c] = "idle" /\ conn' = [conn EXCEPT ![c] = "queued"]
        /\ TcpStep /\ tcp_loop' = tcp_loop
        /\ active_tcp_connections' = active_tcp_connections /\ tcp_sem' = tcp_sem
    BY <1>1, Zenon DEF Connect
  <2>2. "queued" \in ConnStates
    BY DEF ConnStates
  <2>3. /\ D("idle", Counted) = 0 /\ D("idle", Holding) = 0
        /\ D("queued", Counted) = 0 /\ D("queued", Holding) = 0
    BY Weights, Zenon
  <2>4. /\ active_tcp_connections' = active_tcp_connections + D("queued", Counted) - D(conn[c], Counted)
        /\ tcp_sem' = tcp_sem - D("queued", Holding) + D(conn[c], Holding)
        /\ tcp_sem' >= 0
    BY <1>0, <2>1, <2>3
  <2> QED
    BY <2>1, <2>2, <2>4, ConnStep, Zenon
<1>2. CASE Accept(c)
  <2>1. CASE tcp_sem > 0
    <3>1. /\ conn[c] = "queued" /\ conn' = [conn EXCEPT ![c] = "permitted"]
          /\ TcpStep /\ tcp_loop' = tcp_loop
          /\ active_tcp_connections' = active_tcp_connections /\ tcp_sem' = tcp_sem - 1
      BY <1>2, <2>1, Zenon DEF Accept
    <3>2. "permitted" \in ConnStates
      BY DEF ConnStates
    <3>3. /\ D("queued", Counted) = 0 /\ D("queued", Holding) = 0
          /\ D("permitted", Counted) = 0 /\ D("permitted", Holding) = 1
      BY Weights, Zenon
    <3>4. /\ active_tcp_connections' = active_tcp_connections + D("permitted", Counted) - D(conn[c], Counted)
          /\ tcp_sem' = tcp_sem - D("permitted", Holding) + D(conn[c], Holding)
          /\ tcp_sem' >= 0
      BY <1>0, <2>1, <3>1, <3>3
    <3> QED
      BY <3>1, <3>2, <3>4, ConnStep, Zenon
  <2>2. CASE ~(tcp_sem > 0)
    <3>1. /\ conn[c] = "queued" /\ conn' = [conn EXCEPT ![c] = "refused"]
          /\ TcpStep /\ tcp_loop' = tcp_loop
          /\ active_tcp_connections' = active_tcp_connections /\ tcp_sem' = tcp_sem
      BY <1>2, <2>2, Zenon DEF Accept
    <3>2. "refused" \in ConnStates
      BY DEF ConnStates
    <3>3. /\ D("queued", Counted) = 0 /\ D("queued", Holding) = 0
          /\ D("refused", Counted) = 0 /\ D("refused", Holding) = 0
      BY Weights, Zenon
    <3>4. /\ active_tcp_connections' = active_tcp_connections + D("refused", Counted) - D(conn[c], Counted)
          /\ tcp_sem' = tcp_sem - D("refused", Holding) + D(conn[c], Holding)
          /\ tcp_sem' >= 0
      BY <1>0, <3>1, <3>3
    <3> QED
      BY <3>1, <3>2, <3>4, ConnStep, Zenon
  <2> QED
    BY <2>1, <2>2
<1>3. CASE Track(c)
  <2>1. /\ conn[c] = "permitted" /\ conn' = [conn EXCEPT ![c] = "length"]
        /\ TcpStep /\ tcp_loop' = tcp_loop
        /\ active_tcp_connections' = active_tcp_connections + 1 /\ tcp_sem' = tcp_sem
    BY <1>3, Zenon DEF Track
  <2>2. "length" \in ConnStates
    BY DEF ConnStates
  <2>3. /\ D("permitted", Counted) = 0 /\ D("permitted", Holding) = 1
        /\ D("length", Counted) = 1 /\ D("length", Holding) = 1
    BY Weights, Zenon
  <2>4. /\ active_tcp_connections' = active_tcp_connections + D("length", Counted) - D(conn[c], Counted)
        /\ tcp_sem' = tcp_sem - D("length", Holding) + D(conn[c], Holding)
        /\ tcp_sem' >= 0
    BY <1>0, <2>1, <2>3
  <2> QED
    BY <2>1, <2>2, <2>4, ConnStep, Zenon
<1>4. CASE ReadLength(c)
  <2>1. /\ conn[c] = "length" /\ conn' = [conn EXCEPT ![c] = "body"]
        /\ TcpStep /\ tcp_loop' = tcp_loop
        /\ active_tcp_connections' = active_tcp_connections /\ tcp_sem' = tcp_sem
    BY <1>4, Zenon DEF ReadLength
  <2>2. "body" \in ConnStates
    BY DEF ConnStates
  <2>3. /\ D("length", Counted) = 1 /\ D("length", Holding) = 1
        /\ D("body", Counted) = 1 /\ D("body", Holding) = 1
    BY Weights, Zenon
  <2>4. /\ active_tcp_connections' = active_tcp_connections + D("body", Counted) - D(conn[c], Counted)
        /\ tcp_sem' = tcp_sem - D("body", Holding) + D(conn[c], Holding)
        /\ tcp_sem' >= 0
    BY <1>0, <2>1, <2>3
  <2> QED
    BY <2>1, <2>2, <2>4, ConnStep, Zenon
<1>5. CASE ReadBody(c)
  <2>1. /\ conn[c] = "body" /\ conn' = [conn EXCEPT ![c] = "handling"]
        /\ TcpStep /\ tcp_loop' = tcp_loop
        /\ active_tcp_connections' = active_tcp_connections /\ tcp_sem' = tcp_sem
    BY <1>5, Zenon DEF ReadBody
  <2>2. "handling" \in ConnStates
    BY DEF ConnStates
  <2>3. /\ D("body", Counted) = 1 /\ D("body", Holding) = 1
        /\ D("handling", Counted) = 1 /\ D("handling", Holding) = 1
    BY Weights, Zenon
  <2>4. /\ active_tcp_connections' = active_tcp_connections + D("handling", Counted) - D(conn[c], Counted)
        /\ tcp_sem' = tcp_sem - D("handling", Holding) + D(conn[c], Holding)
        /\ tcp_sem' >= 0
    BY <1>0, <2>1, <2>3
  <2> QED
    BY <2>1, <2>2, <2>4, ConnStep, Zenon
<1>6. CASE NoLength(c) \/ BodyTimeout(c) \/ Respond(c)
  <2>1. /\ conn[c] \in {"length", "body", "handling"} /\ conn' = [conn EXCEPT ![c] = "leaving"]
        /\ TcpStep /\ tcp_loop' = tcp_loop
        /\ active_tcp_connections' = active_tcp_connections - 1 /\ tcp_sem' = tcp_sem
    BY <1>6, Zenon DEF NoLength, BodyTimeout, Respond, Leave
  <2>2. "leaving" \in ConnStates
    BY DEF ConnStates
  <2>3. /\ D("length", Counted) = 1 /\ D("length", Holding) = 1
        /\ D("body", Counted) = 1 /\ D("body", Holding) = 1
        /\ D("handling", Counted) = 1 /\ D("handling", Holding) = 1
        /\ D("leaving", Counted) = 0 /\ D("leaving", Holding) = 1
    BY Weights, Zenon
  <2>4. /\ active_tcp_connections' = active_tcp_connections + D("leaving", Counted) - D(conn[c], Counted)
        /\ tcp_sem' = tcp_sem - D("leaving", Holding) + D(conn[c], Holding)
        /\ tcp_sem' >= 0
    BY <1>0, <2>1, <2>3
  <2> QED
    BY <2>1, <2>2, <2>4, ConnStep, Zenon
<1>7. CASE ReturnPermit(c)
  <2>1. /\ conn[c] = "leaving" /\ conn' = [conn EXCEPT ![c] = "closed"]
        /\ TcpStep /\ tcp_loop' = tcp_loop
        /\ active_tcp_connections' = active_tcp_connections /\ tcp_sem' = tcp_sem + 1
    BY <1>7, Zenon DEF ReturnPermit
  <2>2. "closed" \in ConnStates
    BY DEF ConnStates
  <2>3. /\ D("leaving", Counted) = 0 /\ D("leaving", Holding) = 1
        /\ D("closed", Counted) = 0 /\ D("closed", Holding) = 0
    BY Weights, Zenon
  <2>4. /\ active_tcp_connections' = active_tcp_connections + D("closed", Counted) - D(conn[c], Counted)
        /\ tcp_sem' = tcp_sem - D("closed", Holding) + D(conn[c], Holding)
        /\ tcp_sem' >= 0
    BY <1>0, <2>1, <2>3
  <2> QED
    BY <2>1, <2>2, <2>4, ConnStep, Zenon
<1> QED
    BY <1>1, <1>2, <1>3, <1>4, <1>5, <1>6, <1>7, Zenon DEF ConnectionTask

LEMMA StopTcpInv ==
    ASSUME Inv, StopTcp
    PROVE  Inv'
<1>1. \A c \in Connections : conn'[c] = IF conn[c] = "queued" THEN "refused" ELSE conn[c]
    BY Zenon DEF StopTcp
<1>2. In(Counted)' = In(Counted) /\ In(Holding)' = In(Holding) /\ Handled' = Handled
    BY <1>1, Zenon DEF In, Counted, Holding, Handled, StopTcp, TcpStep, udp_vars
<1>3. conn' \in [Connections -> ConnStates]
    BY Zenon DEF StopTcp, Inv, StateOK, ConnStates
<1>4. StateOK'
    BY <1>3, Zenon DEF StopTcp, TcpStep, Inv, StateOK, main_vars, api_vars, udp_vars, server_history
<1>5. CountInv'
    BY <1>2 DEF StopTcp, TcpStep, Inv, CountInv, CountsExact, udp_vars
<1> QED
    BY <1>4, <1>5 DEF Inv

LEMMA UdpInv ==
    ASSUME Inv, NEW q \in Datagrams, Receive(q) \/ Answer(q)
    PROVE  Inv'
<1>1. StateOK'
  <2>1. query' \in [Datagrams -> QueryStates]
    BY Zenon DEF Receive, Answer, Inv, StateOK, QueryStates
  <2>2. UNCHANGED <<udp_loop, main, waited, server, drained, api, http, signalled, tcp_loop, conn,
                    local_shutdown, counted_first, drain_timed_out, forced, cut>>
    BY Zenon DEF Receive, Answer, UdpStep, main_vars, api_vars, tcp_vars, server_history
  <2> QED
    BY <2>1, <2>2 DEF Inv, StateOK
<1>2. In(Counted)' = In(Counted) /\ In(Holding)' = In(Holding)
    BY DEF Receive, Answer, UdpStep, tcp_vars, In
<1>3. Cardinality(Handled) \in Nat
    BY FiniteHandled, Zenon DEF Inv
<1>4. udp_sem' \in Int /\ udp_sem' >= 0 /\ udp_sem' + Cardinality(Handled)' = MAX_CONCURRENT
  <2>0. udp_sem \in Int /\ udp_sem >= 0 /\ udp_sem + Cardinality(Handled) = MAX_CONCURRENT
    BY Zenon DEF Inv, CountInv, CountsExact
  <2>1. CASE Receive(q) /\ udp_sem > 0
    <3>1. Cardinality(Handled)' = Cardinality(Handled) + 1
      BY <2>1, OneQueryMoves, Zenon DEF Receive, Inv
    <3> QED
      BY <1>3, <2>0, <2>1, <3>1 DEF Receive
  <2>2. CASE Receive(q) /\ ~(udp_sem > 0)
    <3>1. Cardinality(Handled)' = Cardinality(Handled)
      BY <2>2, OneQueryMoves, Zenon DEF Receive, Inv
    <3> QED
      BY <1>3, <2>0, <2>2, <3>1, Zenon DEF Receive
  <2>3. CASE Answer(q)
    <3>1. query' = [query EXCEPT ![q] = "done"] /\ query[q] = "handling" /\ StateOK
      BY <2>3 DEF Answer, Inv
    <3>2. Cardinality(Handled)' = Cardinality(Handled) - 1
      BY <3>1, OneQueryMoves, "done" # "handling", Zenon
    <3> QED
      BY <1>3, <2>0, <2>3, <3>2 DEF Answer
  <2> QED
    BY <2>1, <2>2, <2>3, Zenon
<1>5. CountInv'
    BY <1>2, <1>4, Zenon DEF Receive, Answer, UdpStep, tcp_vars, Inv, CountInv, CountsExact
<1> QED
    BY <1>1, <1>5, Zenon DEF Inv

\* The steps that touch neither connections nor queries.
Quiet ==
    \/ ServerTask \/ ApiTask \/ Joined \/ ForceExit(TimedOut) \/ StopUdp
    \/ (\E r \in ApiRequests : ApiRequest(r) \/ ApiResponse(r))
    \/ Initiate \/ ForceExit(CtrlC) \/ Elapse

LEMMA QuietInv ==
    ASSUME Inv, Quiet
    PROVE  Inv' /\ UNCHANGED <<conn, tcp_sem, active_tcp_connections, query, udp_sem>>
<1> DEFINE Kept == UNCHANGED <<conn, tcp_sem, active_tcp_connections, query, udp_sem>>
<1>0. StateOK /\ 0 \in 0..SHUTDOWN_TIMEOUT /\ 0 \in 0..DRAIN_TIMEOUT
    BY ServerAssumption DEF Inv
<1>1. ASSUME Start PROVE StateOK' /\ Kept
    BY <1>0, <1>1, Zenon DEF Start, main_vars, api_vars, server_history, StateOK
<1>2. ASSUME StartFails PROVE StateOK' /\ Kept
    BY <1>0, <1>2, Zenon DEF StartFails, main_vars, api_vars, tcp_vars, udp_vars, server_history, StateOK
<1>3. ASSUME ReceiveSignal PROVE StateOK' /\ Kept
    BY <1>0, <1>3, Zenon DEF ReceiveSignal, main_vars, api_vars, tcp_vars, udp_vars, In, StateOK
<1>4. ASSUME DrainEnds PROVE StateOK' /\ Kept
    BY <1>0, <1>4, Zenon DEF DrainEnds, main_vars, api_vars, tcp_vars, udp_vars, StateOK
<1>5. ASSUME ApiStart PROVE StateOK' /\ Kept
    BY <1>0, <1>5 DEF ApiStart, ApiStep, main_vars, tcp_vars, udp_vars, server_history, StateOK
<1>6. ASSUME ApiSignal PROVE StateOK' /\ Kept
    BY <1>0, <1>6, Zenon DEF ApiSignal, ApiStep, main_vars, tcp_vars, udp_vars, server_history, StateOK
<1>7. ASSUME ApiEnds PROVE StateOK' /\ Kept
    BY <1>0, <1>7, Zenon DEF ApiEnds, ApiStep, main_vars, tcp_vars, udp_vars, server_history, StateOK
<1>8. ASSUME Joined PROVE StateOK' /\ Kept
    BY <1>0, <1>8, Zenon DEF Joined, MainStep, api_vars, tcp_vars, udp_vars, StateOK
<1>9. ASSUME ForceExit(TimedOut) \/ ForceExit(CtrlC) PROVE StateOK' /\ Kept
    BY <1>0, <1>9, ZenonT(30) DEF ForceExit, MainStep, api_vars, tcp_vars, udp_vars, StateOK
<1>10. ASSUME StopUdp PROVE StateOK' /\ Kept
    BY <1>0, <1>10 DEF StopUdp, UdpStep, main_vars, api_vars, tcp_vars, server_history, StateOK
<1>11. ASSUME NEW r \in ApiRequests, ApiRequest(r) \/ ApiResponse(r) PROVE StateOK' /\ Kept
  <2>1. /\ http' \subseteq ApiRequests /\ UNCHANGED <<api, signalled>> /\ ApiStep
    BY <1>0, <1>11 DEF ApiRequest, ApiResponse, StateOK
  <2> QED
    BY <1>0, <2>1 DEF ApiStep, main_vars, tcp_vars, udp_vars, server_history, StateOK
<1>12. ASSUME Initiate PROVE StateOK' /\ Kept
    BY <1>0, <1>12 DEF Initiate, Subscribed, MainStep, api_vars, tcp_vars, udp_vars, StateOK
<1>13. ASSUME Elapse PROVE StateOK' /\ Kept
  <2>1. waited' \in 0..SHUTDOWN_TIMEOUT /\ drained' \in 0..DRAIN_TIMEOUT
    BY <1>0, <1>13, ServerAssumption DEF Elapse, StateOK
  <2> QED
    BY <1>0, <1>13, <2>1 DEF Elapse, api_vars, tcp_vars, udp_vars, server_history, StateOK
<1>14. StateOK' /\ Kept
    BY <1>1, <1>2, <1>3, <1>4, <1>5, <1>6, <1>7, <1>8, <1>9, <1>10, <1>11, <1>12, <1>13, Zenon DEF Quiet,
       ServerTask, ApiTask
<1>15. CountInv'
    BY <1>14, Zenon DEF Inv, CountInv, CountsExact, In, Handled
<1> QED
    BY <1>14, <1>15, Zenon DEF Inv

LEMMA ExitInv ==
    ASSUME Inv, Exit
    PROVE  Inv'
<1>1. In(Counted)' = {} /\ In(Holding)' = {} /\ Handled' = {}
    BY Zenon DEF Exit, In, Counted, Holding, Handled
<1>2. CountInv'
    BY <1>1, FS_EmptySet, ServerAssumption DEF Exit, CountInv, CountsExact
<1>3. 0 \in 0..DRAIN_TIMEOUT /\ "closed" \in ConnStates /\ "done" \in QueryStates
    BY ServerAssumption DEF ConnStates, QueryStates
<1>4. cut' \subseteq {"tcp", "udp"}
    BY Zenon DEF Exit
<1>5. StateOK'
    BY <1>3, <1>4, Zenon DEF Exit, Inv, StateOK
<1> QED
    BY <1>2, <1>5, Zenon DEF Inv

LEMMA StutterInv ==
    ASSUME Inv, UNCHANGED server_vars
    PROVE  Inv'
<1>1. /\ UNCHANGED <<main, waited, server, drained, api, http, signalled, tcp_loop, udp_loop, local_shutdown>>
      /\ UNCHANGED <<conn, tcp_sem, active_tcp_connections, query, udp_sem, counted_first, drain_timed_out, forced, cut>>
    BY DEF server_vars, main_vars, api_vars, tcp_vars, udp_vars, server_history
<1>2. StateOK'
  <2>1. /\ (main \in {"serving", "waiting", "closing", "exited"})'
        /\ (server \in {"starting", "serving", "draining", "done"})'
        /\ (api \in {"starting", "serving", "draining", "done"})'
        /\ (tcp_loop \in {"none", "select", "stopped"} /\ udp_loop \in {"none", "select", "stopped"})'
    BY <1>1, Zenon DEF Inv, StateOK
  <2>2. /\ (waited \in 0..SHUTDOWN_TIMEOUT /\ drained \in 0..DRAIN_TIMEOUT)'
        /\ (http \subseteq ApiRequests /\ signalled \subseteq Tasks /\ local_shutdown \in BOOLEAN)'
    BY <1>1, Zenon DEF Inv, StateOK
  <2>3. /\ (conn \in [Connections -> ConnStates] /\ query \in [Datagrams -> QueryStates])'
        /\ (counted_first \subseteq Connections)'
        /\ (drain_timed_out \in BOOLEAN /\ forced \in BOOLEAN /\ cut \subseteq {"tcp", "udp"})'
    BY <1>1, Zenon DEF Inv, StateOK
  <2> QED
    BY <2>1, <2>2, <2>3, Zenon DEF StateOK
<1>3. CountInv'
    BY <1>1, Zenon DEF Inv, CountInv, CountsExact, In, Handled
<1> QED
    BY <1>2, <1>3, Zenon DEF Inv

LEMMA Invariance == ServerSpec => []Inv
<1>1. Inv /\ [ServerNext]_server_vars => Inv'
  <2> SUFFICES ASSUME Inv, [ServerNext]_server_vars PROVE Inv'
    OBVIOUS
  <2>1. CASE UNCHANGED server_vars
    BY <2>1, StutterInv, Zenon
  <2>2. CASE ServerNext
    BY <2>2, TcpInv, StopTcpInv, UdpInv, QuietInv, ExitInv, Zenon DEF ServerNext, Quiet, MainTask
  <2> QED
    BY <2>1, <2>2
<1> QED
    BY <1>1, InitInv, PTL DEF ServerSpec

\* Every reachable state is well typed: no semaphore is overdrawn and the
\* counter stays within the limit.
THEOREM ServerTypeCorrect == ServerSpec => []ServerTypeOK
BY Invariance, InvType, PTL

\* For any limits and any number of connections and queries: the counter of the
\* drain and both semaphores are exact on every path out of a task.
THEOREM CountsCorrect == ServerSpec => []CountsExact
<1>1. Inv => CountsExact
    BY DEF Inv, CountInv
<1> QED
    BY <1>1, Invariance, PTL

-----------------------------------------------------------------------------
(* The drain *)

\* A connection counted when the drain began is not counted again once it left,
\* and before the drain there is none.
DrainInv ==
    /\ Inv
    /\ \A c \in counted_first : conn[c] \in Counted \cup {"leaving", "closed"}
    /\ server \in {"starting", "serving"} => counted_first = {}
    /\ CountedConnectionsServed

\* Steps after which no counted connection is new, and that leave the drain alone.
LEMMA DrainKept ==
    ASSUME DrainInv, Inv', UNCHANGED <<server, counted_first, drain_timed_out>>,
           \A c \in counted_first : /\ conn'[c] \in Counted \cup {"leaving", "closed"}
                                    /\ conn'[c] \in Counted => conn[c] \in Counted
    PROVE  DrainInv'
<1>1. counted_first' \cap In(Counted)' \subseteq counted_first \cap In(Counted)
    BY Zenon DEF In
<1>2. CountedConnectionsServed'
    BY <1>1, Zenon DEF DrainInv, CountedConnectionsServed
<1>3. \A c \in counted_first' : conn'[c] \in Counted \cup {"leaving", "closed"}
    BY SMT
<1> QED
    BY <1>2, <1>3, Zenon DEF DrainInv

LEMMA ConnKept ==
    ASSUME DrainInv, Inv', UNCHANGED <<server, counted_first, drain_timed_out, conn>>
    PROVE  DrainInv'
BY DrainKept, Zenon DEF DrainInv

\* For any timeouts: run returns before its deadline only when every connection
\* it had counted has been served.
THEOREM DrainCorrect == ServerSpec => []CountedConnectionsServed
<1>1. ServerInit => DrainInv
    BY InitInv, Zenon DEF ServerInit, DrainInv, CountedConnectionsServed
<1>2. DrainInv /\ [ServerNext]_server_vars => DrainInv'
  <2> SUFFICES ASSUME DrainInv, [ServerNext]_server_vars PROVE DrainInv'
    OBVIOUS
  <2>1. CASE UNCHANGED server_vars
    <3>1. Inv' /\ UNCHANGED <<server, counted_first, drain_timed_out, conn>>
      BY <2>1, StutterInv, Zenon DEF DrainInv, server_vars, tcp_vars, server_history
    <3> QED
      BY <3>1, ConnKept, Zenon
  <2>2. ASSUME NEW c \in Connections, Connect(c) \/ Accept(c) \/ Track(c) \/ ConnectionTask(c)
        PROVE  DrainInv'
    <3>1. Inv' /\ UNCHANGED <<server, counted_first, drain_timed_out>>
      BY <2>2, TcpInv, Zenon DEF DrainInv, Connect, Accept, Track, ConnectionTask, ReadLength, NoLength,
         ReadBody, BodyTimeout,
         Respond, ReturnPermit, Leave, TcpStep, server_history
    <3>2. conn \in [Connections -> ConnStates] /\ counted_first \subseteq Connections
      BY Zenon DEF DrainInv, Inv, StateOK
    <3>3. PICK b : conn' = [conn EXCEPT ![c] = b] /\ (b \in Counted => conn[c] \in Counted \cup {"permitted"})
                   /\ (conn[c] \in Counted => b \in Counted \cup {"leaving"})
                   /\ (conn[c] = "leaving" => b = "closed") /\ conn[c] # "closed"
      BY <2>2, Zenon DEF Connect, Accept, Track, ConnectionTask, ReadLength, NoLength, ReadBody,
         BodyTimeout, Respond, ReturnPermit, Leave, Counted
    <3>4. conn'[c] = b /\ \A d \in Connections \ {c} : conn'[d] = conn[d]
      BY <3>2, <3>3, Zenon
    <3>5. \A d \in counted_first : conn[d] \in Counted \cup {"leaving", "closed"}
      BY Zenon DEF DrainInv
    <3>6. \A d \in counted_first : /\ conn'[d] \in Counted \cup {"leaving", "closed"}
                                   /\ conn'[d] \in Counted => conn[d] \in Counted
      BY <3>2, <3>3, <3>4, <3>5, Zenon DEF Counted
    <3> QED
      BY <3>1, <3>6, DrainKept, Zenon
  <2>3. CASE StopTcp
    <3>1. Inv' /\ UNCHANGED <<server, counted_first, drain_timed_out>> /\ counted_first \subseteq Connections
      BY <2>3, StopTcpInv, Zenon DEF DrainInv, StopTcp, TcpStep, server_history, Inv, StateOK
    <3>2. \A c \in counted_first : conn'[c] = conn[c]
      BY <2>3, <3>1 DEF DrainInv, StopTcp, Counted
    <3> QED
      BY <3>1, <3>2, DrainKept, Zenon DEF DrainInv
  <2>4. ASSUME NEW q \in Datagrams, Receive(q) \/ Answer(q) PROVE DrainInv'
    <3>1. Inv' /\ UNCHANGED <<server, counted_first, drain_timed_out, conn>>
      BY <2>4, UdpInv, Zenon DEF DrainInv, Receive, Answer, UdpStep, server_history, tcp_vars
    <3> QED
      BY <3>1, ConnKept, Zenon
  <2>5. CASE Quiet
    <3>1. Inv' /\ conn' = conn
      BY <2>5, QuietInv, Zenon DEF DrainInv
    <3>2. CASE ReceiveSignal
      BY <3>1, <3>2, Zenon DEF DrainInv, ReceiveSignal, In, CountedConnectionsServed
    <3>3. CASE DrainEnds
      <4>1. active_tcp_connections = 0 => In(Counted) = {}
        BY FiniteParts, FS_EmptySet, Zenon DEF DrainInv, Inv, CountInv, CountsExact
      <4> QED
        BY <3>1, <3>3, <4>1, Zenon DEF DrainInv, DrainEnds, In, CountedConnectionsServed
    <3>4. CASE Start \/ StartFails
      BY <3>1, <3>4 DEF DrainInv, Start, StartFails, server_history, CountedConnectionsServed
    <3>5. CASE ~(ReceiveSignal \/ DrainEnds \/ Start \/ StartFails)
      <4>1. UNCHANGED <<server, counted_first, drain_timed_out>>
        BY <2>5, <3>5, Zenon DEF Quiet, ServerTask, ApiTask, ApiStart, ApiSignal, ApiEnds, Joined, ForceExit, StopUdp,
           ApiRequest, ApiResponse, Initiate, Elapse, UdpStep, ApiStep, MainStep, server_history
      <4> QED
        BY <3>1, <4>1, ConnKept, Zenon
    <3> QED
      BY <3>2, <3>3, <3>4, <3>5, Zenon
  <2>6. CASE Exit
    BY <2>6, ExitInv, Zenon DEF DrainInv, Exit, CountedConnectionsServed
  <2> QED
    BY <2>1, <2>2, <2>3, <2>4, <2>5, <2>6, Zenon DEF ServerNext, Quiet, MainTask
<1>3. DrainInv => CountedConnectionsServed
    BY DEF DrainInv
<1> QED
    BY <1>1, <1>2, <1>3, PTL DEF ServerSpec
=============================================================================

----------------------------- MODULE DnsProofs -----------------------------
(***************************************************************************)
(* Proofs about what becomes of a DNS query: DnsHandler, for any queries,  *)
(* clients, domains, upstreams, TTLs and bounds; and QueryLogWriter, for   *)
(* any capacities, thresholds, clients and numbers of entries.             *)
(***************************************************************************)
EXTENDS DnsHandler, QueryLogWriter, TLAPS

-----------------------------------------------------------------------------
(* The handler *)

(***************************************************************************)
(* What a query holds at each of its steps: a question once it is asked,   *)
(* and from the resolver's answer on a response to that question.          *)
(***************************************************************************)
QueryOK(q) ==
    /\ pc[q] # "idle" => asked[q] \in Question
    /\ pc[q] \in {"store", "answered"} =>
           /\ response[q] \in Response
           /\ response[q].id = q
           /\ response[q].about = <<asked[q].domain, asked[q].type>>
    /\ pc[q] = "store" => response[q].from = "upstream"

\* The cache holds answers of upstreams under the question they answer.
EntryOK(k) ==
    cache[k] # None =>
        /\ cache[k].data.about = k
        /\ cache[k].data.from = "upstream"
        /\ cache[k].data.stored_at <= clock

HandlerInv ==
    /\ HandlerTypeOK
    /\ \A q \in Queries : QueryOK(q)
    /\ \A k \in Domains \X Types : EntryOK(k)

Places == {"idle", "acl", "rewrite", "filter", "cache", "resolve", "store", "answered", "failed"}

\* What the proofs below take from the invariant.
LEMMA HandlerLimits ==
    MaxClock \in Nat /\ MaxChanges \in Nat /\ TTL_MAX_SECS \in Nat
BY HandlerAssumption

LEMMA TaskTypes ==
    ASSUME HandlerInv
    PROVE  /\ asked \in [Queries -> Question \cup {None}] /\ pc \in [Queries -> Places]
           /\ response \in [Queries -> Response \cup {None}] /\ steady \subseteq Queries
BY DEF HandlerInv, HandlerTypeOK, Places

LEMMA TimeTypes ==
    ASSUME HandlerInv
    PROVE  clock \in 0..MaxClock /\ clock \in Int /\ changes \in 0..MaxChanges /\ changes \in Int
<1>1. clock \in 0..MaxClock /\ changes \in 0..MaxChanges
    BY DEF HandlerInv, HandlerTypeOK
<1> QED
    BY <1>1, HandlerLimits

LEMMA TableTypes ==
    ASSUME HandlerInv
    PROVE  /\ allowed \subseteq Clients /\ filter_enabled \in [Clients -> BOOLEAN] /\ blocked \subseteq Domains
           /\ rewrites \in [Domains -> Rewrites] /\ up \subseteq {Nodes[i] : i \in DOMAIN Nodes}
BY DEF HandlerInv, HandlerTypeOK

LEMMA CacheTypes ==
    ASSUME HandlerInv
    PROVE  cache \in [Domains \X Types -> Entry \cup {None}] /\ DOMAIN cache = Domains \X Types
<1>1. cache \in [Domains \X Types -> Entry \cup {None}]
    BY Zenon DEF HandlerInv, HandlerTypeOK
<1> QED
    BY <1>1

LEMMA CacheEntry ==
    ASSUME HandlerInv, NEW k \in Domains \X Types, cache[k] # None
    PROVE  /\ cache[k] \in Entry /\ cache[k].data \in Response
           /\ cache[k].data.about = k /\ cache[k].data.from = "upstream"
           /\ cache[k].data.stored_at \in Int /\ cache[k].data.stored_at <= clock
           /\ cache[k].expires_at \in 0..(MaxClock + TTL_MAX_SECS) /\ cache[k].expires_at \in Int
           /\ cache[k].expires_at <= cache[k].data.stored_at + TTL_MAX_SECS
<1>1. cache[k] \in Entry
    BY CacheTypes
<1>2. cache[k].expires_at <= cache[k].data.stored_at + TTL_MAX_SECS
    BY CacheTypes DEF HandlerInv, HandlerTypeOK
<1>3. EntryOK(k)
    BY DEF HandlerInv
<1>4. cache[k].data \in Response /\ cache[k].expires_at \in 0..(MaxClock + TTL_MAX_SECS)
    BY <1>1 DEF Entry
<1>5. cache[k].data.stored_at \in 0..MaxClock
    BY <1>4 DEF Response
<1>6. cache[k].data.stored_at \in Int /\ cache[k].expires_at \in Int
    BY <1>4, <1>5, HandlerLimits
<1> QED
    BY <1>1, <1>2, <1>3, <1>4, <1>6 DEF EntryOK

\* A step of a query leaves the types of the tables alone.
LEMMA KeptTypes ==
    ASSUME HandlerInv, UNCHANGED <<tables, cache, clock, changes>>,
           asked' \in [Queries -> Question \cup {None}], pc' \in [Queries -> Places],
           response' \in [Queries -> Response \cup {None}], steady' \subseteq Queries
    PROVE  HandlerTypeOK'
BY DEF HandlerInv, HandlerTypeOK, tables, Places

LEMMA ClampBounds ==
    ASSUME NEW t \in Ttls \cup {None}
    PROVE  TtlSecs(t) \in Nat /\ TtlSecs(t) <= TTL_MAX_SECS
BY HandlerAssumption DEF TtlSecs, Clamp

LEMMA KeyType ==
    ASSUME HandlerInv, NEW q \in Queries, pc[q] # "idle"
    PROVE  Key(q) \in Domains \X Types /\ Key(q) = <<asked[q].domain, asked[q].type>>
<1>1. asked[q] \in Question
    BY DEF HandlerInv, QueryOK
<1> QED
    BY <1>1 DEF Question, Key

LEMMA ReplyType ==
    ASSUME HandlerInv, NEW q \in Queries, pc[q] # "idle",
           NEW rcode \in {"NOERROR", "NXDOMAIN", "SERVFAIL", "REFUSED"},
           NEW from \in {"acl", "request", "rewrite", "filter", "upstream"}
    PROVE  /\ Reply(q, rcode, from) \in Response
           /\ Reply(q, rcode, from).id = q
           /\ Reply(q, rcode, from).from = from
           /\ Reply(q, rcode, from).about = <<asked[q].domain, asked[q].type>>
<1>1. <<asked[q].domain, asked[q].type>> \in Domains \X Types
    BY KeyType
<1>2. 0 \in 0..MaxClock
    BY HandlerAssumption
<1> QED
    BY <1>1, <1>2 DEF Reply, Response

LEMMA HandlerInitInv == HandlerInit => HandlerInv
<1> SUFFICES ASSUME HandlerInit PROVE HandlerInv
    OBVIOUS
<1>1. \A k \in Domains \X Types : cache[k] = None
    BY DEF HandlerInit
<1>2. clock \in 0..MaxClock /\ changes \in 0..MaxChanges
    BY HandlerAssumption DEF HandlerInit
<1>3. cache \in [Domains \X Types -> Entry \cup {None}]
    BY DEF HandlerInit
<1>4. HandlerTypeOK
    BY <1>1, <1>2, <1>3, Zenon DEF HandlerInit, HandlerTypeOK
<1> QED
    BY <1>1, <1>4 DEF HandlerInv, HandlerInit, QueryOK, EntryOK

\* A query's step leaves the other queries and the tables alone.
OthersKeep(q) ==
    /\ UNCHANGED <<tables, clock, changes>>
    /\ \A p \in Queries \ {q} : asked'[p] = asked[p] /\ pc'[p] = pc[p] /\ response'[p] = response[p]

LEMMA OwnStep ==
    ASSUME HandlerInv, NEW q \in Queries, OthersKeep(q), cache' = cache, HandlerTypeOK', QueryOK(q)'
    PROVE  HandlerInv'
BY DEF HandlerInv, OthersKeep, QueryOK, EntryOK

LEMMA AskStep ==
    ASSUME HandlerInv, NEW q \in Queries, NEW question \in Question, Ask(q, question)
    PROVE  HandlerInv' /\ OthersKeep(q)
<1>1. /\ asked' = [asked EXCEPT ![q] = question] /\ pc' = [pc EXCEPT ![q] = "acl"] /\ steady' = steady \cup {q}
      /\ UNCHANGED <<tables, cache, response, clock, changes>>
    BY DEF Ask
<1>2. HandlerTypeOK'
  <2>1. /\ asked' \in [Queries -> Question \cup {None}] /\ pc' \in [Queries -> Places]
        /\ response' \in [Queries -> Response \cup {None}] /\ steady' \subseteq Queries
    BY <1>1, TaskTypes DEF Places
  <2> QED
    BY <1>1, <2>1, KeptTypes
<1>3. OthersKeep(q)
    BY <1>1, TaskTypes DEF OthersKeep
<1>4. QueryOK(q)'
  <2>1. asked'[q] = question /\ pc'[q] = "acl"
    BY <1>1, TaskTypes
  <2> QED
    BY <2>1 DEF QueryOK
<1> QED
    BY <1>1, <1>2, <1>3, <1>4, OwnStep

\* The query is answered with r, and nothing is cached.
LEMMA AnsweredStep ==
    ASSUME HandlerInv, NEW q \in Queries, pc[q] # "idle", NEW r \in Response, Answered(q, r), cache' = cache,
           r.id = q, r.about = <<asked[q].domain, asked[q].type>>
    PROVE  HandlerInv' /\ OthersKeep(q)
<1>0. /\ response' = [response EXCEPT ![q] = r] /\ pc' = [pc EXCEPT ![q] = "answered"]
      /\ UNCHANGED <<tables, cache, asked, clock, changes, steady>>
    BY DEF Answered
<1>1. HandlerTypeOK'
  <2>1. /\ asked' \in [Queries -> Question \cup {None}] /\ pc' \in [Queries -> Places]
        /\ response' \in [Queries -> Response \cup {None}] /\ steady' \subseteq Queries
    BY <1>0, TaskTypes, Zenon DEF Places
  <2> QED
    BY <1>0, <2>1, KeptTypes, Zenon
<1>2. OthersKeep(q)
    BY <1>0, TaskTypes, Zenon DEF OthersKeep
<1>3. QueryOK(q)'
  <2>1. asked[q] \in Question
    BY DEF HandlerInv, QueryOK
  <2>2. asked'[q] = asked[q] /\ pc'[q] = "answered" /\ response'[q] = r
    BY <1>0, TaskTypes
  <2> QED
    BY <2>1, <2>2, Zenon DEF QueryOK
<1> QED
    BY <1>1, <1>2, <1>3, OwnStep

LEMMA ContinueStep ==
    ASSUME HandlerInv, NEW q \in Queries, pc[q] # "idle", NEW step \in {"rewrite", "filter", "cache"},
           Continue(q, step)
    PROVE  HandlerInv' /\ OthersKeep(q)
<1>0. pc' = [pc EXCEPT ![q] = step] /\ UNCHANGED <<tables, cache, asked, response, clock, changes, steady>>
    BY DEF Continue
<1>1. HandlerTypeOK'
  <2>1. /\ asked' \in [Queries -> Question \cup {None}] /\ pc' \in [Queries -> Places]
        /\ response' \in [Queries -> Response \cup {None}] /\ steady' \subseteq Queries
    BY <1>0, TaskTypes DEF Places
  <2> QED
    BY <1>0, <2>1, KeptTypes
<1>2. OthersKeep(q)
    BY <1>0, TaskTypes DEF OthersKeep
<1>3. QueryOK(q)'
  <2>1. asked[q] \in Question
    BY DEF HandlerInv, QueryOK
  <2>2. asked'[q] = asked[q] /\ pc'[q] \in {"rewrite", "filter", "cache"}
    BY <1>0, TaskTypes
  <2> QED
    BY <2>1, <2>2 DEF QueryOK
<1> QED
    BY <1>0, <1>1, <1>2, <1>3, OwnStep

LEMMA ReplyStep ==
    ASSUME HandlerInv, NEW q \in Queries, pc[q] # "idle", cache' = cache,
           NEW rcode \in {"NOERROR", "NXDOMAIN", "SERVFAIL", "REFUSED"},
           NEW from \in {"acl", "request", "rewrite", "filter", "upstream"},
           Answered(q, Reply(q, rcode, from))
    PROVE  HandlerInv' /\ OthersKeep(q)
<1> DEFINE a == Reply(q, rcode, from)
<1>1. a \in Response /\ a.id = q /\ a.about = <<asked[q].domain, asked[q].type>>
  <2>1. <<asked[q].domain, asked[q].type>> \in Domains \X Types
    BY KeyType
  <2>2. 0 \in 0..MaxClock
    BY HandlerLimits
  <2> QED
    BY <2>1, <2>2, Zenon DEF Reply, Response
<1> HIDE DEF a
<1>2. Answered(q, a)
    BY Zenon DEF a
<1> QED
    BY <1>1, <1>2, AnsweredStep, Zenon

\* A hit: the entry under the key answers this question.
LEMMA HitStep ==
    ASSUME HandlerInv, NEW q \in Queries, pc[q] = "cache", Live(cache[Key(q)]), cache' = cache,
           Answered(q, PatchId(cache[Key(q)].data, q))
    PROVE  HandlerInv' /\ OthersKeep(q) /\ PatchId(cache[Key(q)].data, q).from = "upstream"
<1> DEFINE d == cache[Key(q)].data
<1>1. Key(q) \in Domains \X Types /\ Key(q) = <<asked[q].domain, asked[q].type>>
    BY KeyType
<1>2. cache[Key(q)] # None
    BY Zenon DEF Live
<1>3. d \in Response /\ d.about = Key(q) /\ d.from = "upstream"
    BY <1>1, <1>2, CacheEntry
<1> HIDE DEF d
<1>4. PatchId(d, q) \in Response /\ PatchId(d, q).id = q /\ PatchId(d, q).about = Key(q)
      /\ PatchId(d, q).from = "upstream"
    BY <1>3 DEF PatchId, Response
<1>5. Answered(q, PatchId(d, q))
    BY Zenon DEF d
<1>6. HandlerInv' /\ OthersKeep(q)
    BY <1>1, <1>4, <1>5, AnsweredStep
<1> QED
    BY <1>4, <1>6, Zenon DEF d

LEMMA ResolveStep ==
    ASSUME HandlerInv, NEW q \in Queries, Resolve(q)
    PROVE  HandlerInv' /\ OthersKeep(q)
<1>1. PICK l \in Lookups(Head(nodes_to_try[q])) :
          response' = [response EXCEPT ![q] = [Reply(q, l.rcode, "upstream") EXCEPT !.ttl = l.ttl]]
    BY Zenon DEF Resolve
<1>2. l.rcode \in {"NOERROR", "NXDOMAIN", "SERVFAIL", "REFUSED"} /\ l.ttl \in Ttls \cup {None}
    BY DEF Lookups
<1> DEFINE r == [Reply(q, l.rcode, "upstream") EXCEPT !.ttl = l.ttl]
<1>3. r \in Response /\ r.id = q /\ r.from = "upstream" /\ r.about = <<asked[q].domain, asked[q].type>>
  <2> DEFINE a == Reply(q, l.rcode, "upstream")
  <2>1. a \in Response /\ a.id = q /\ a.from = "upstream" /\ a.about = <<asked[q].domain, asked[q].type>>
    BY <1>2, ReplyType DEF Resolve
  <2> HIDE DEF a
  <2>2. [a EXCEPT !.ttl = l.ttl] \in Response
    BY <1>2, <2>1 DEF Response
  <2>3. /\ [a EXCEPT !.ttl = l.ttl].id = a.id /\ [a EXCEPT !.ttl = l.ttl].from = a.from
        /\ [a EXCEPT !.ttl = l.ttl].about = a.about
    BY <2>1 DEF Response
  <2> QED
    BY <2>1, <2>2, <2>3, Zenon DEF a
<1>4. response' = [response EXCEPT ![q] = r]
    BY <1>1
<1> HIDE DEF r
<1>5. /\ pc[q] = "resolve" /\ pc' = [pc EXCEPT ![q] = "store"]
      /\ UNCHANGED <<tables, cache, asked, clock, changes, steady>>
    BY DEF Resolve
<1>6. HandlerTypeOK'
  <2>1. /\ asked' \in [Queries -> Question \cup {None}] /\ pc' \in [Queries -> Places]
        /\ response' \in [Queries -> Response \cup {None}] /\ steady' \subseteq Queries
    BY <1>5, <1>3, <1>4, TaskTypes DEF Places
  <2> QED
    BY <1>5, <2>1, KeptTypes, Zenon
<1>7. OthersKeep(q)
    BY <1>5, <1>4, TaskTypes, Zenon DEF OthersKeep
<1>8. QueryOK(q)'
  <2>1. asked[q] \in Question
    BY <1>5 DEF HandlerInv, QueryOK
  <2>2. asked'[q] = asked[q] /\ pc'[q] = "store" /\ response'[q] = r
    BY <1>5, <1>4, TaskTypes
  <2> QED
    BY <1>3, <2>1, <2>2, Zenon DEF QueryOK
<1> QED
    BY <1>5, <1>6, <1>7, <1>8, OwnStep

\* Between the miss and the answer of an upstream.
LEMMA TryStep ==
    ASSUME HandlerInv, NEW q \in Queries, pc[q] \in {"cache", "resolve"}, pc' = [pc EXCEPT ![q] = pc'[q]],
           pc'[q] \in {"resolve", "failed"},
           UNCHANGED <<tables, cache, asked, response, clock, changes, steady>>
    PROVE  HandlerInv' /\ OthersKeep(q)
<1>1. HandlerTypeOK'
  <2>1. /\ asked' \in [Queries -> Question \cup {None}] /\ pc' \in [Queries -> Places]
        /\ response' \in [Queries -> Response \cup {None}] /\ steady' \subseteq Queries
    BY TaskTypes DEF Places
  <2> QED
    BY <2>1, KeptTypes
<1>2. OthersKeep(q)
    BY TaskTypes DEF OthersKeep
<1>3. QueryOK(q)'
  <2>1. asked[q] \in Question
    BY DEF HandlerInv, QueryOK
  <2> QED
    BY <2>1, Zenon DEF QueryOK
<1> QED
    BY <1>1, <1>2, <1>3, OwnStep

LEMMA StoreStep ==
    ASSUME HandlerInv, NEW q \in Queries, Store(q)
    PROVE  HandlerInv' /\ OthersKeep(q)
<1> DEFINE k == Key(q)
           r == [response[q] EXCEPT !.stored_at = clock]
           e == ExpiresAt(k, response[q].ttl)
<1>1. k \in Domains \X Types /\ k = <<asked[q].domain, asked[q].type>>
    BY KeyType DEF Store
<1>2. QueryOK(q) /\ pc[q] = "store"
    BY Zenon DEF HandlerInv, Store
<1>3. response[q] \in Response /\ response[q].ttl \in Ttls \cup {None}
    BY <1>2 DEF QueryOK, Response
<1>4. clock \in 0..MaxClock /\ clock \in Int
    BY TimeTypes
<1>5. r \in Response /\ r.about = k /\ r.from = "upstream" /\ r.stored_at = clock
    BY <1>1, <1>2, <1>3, <1>4 DEF QueryOK, Response
<1>6. cache' = [cache EXCEPT ![k] = [data |-> r, expires_at |-> e]]
    BY DEF Store, Inserted
<1>7. /\ Live(cache[k]) => e = cache[k].expires_at
      /\ ~Live(cache[k]) => e = clock + TtlSecs(response[q].ttl)
    BY DEF ExpiresAt
<1> HIDE DEF k, r, e
<1>8. e \in 0..(MaxClock + TTL_MAX_SECS) /\ e <= clock + TTL_MAX_SECS
  <2>1. CASE Live(cache[k])
    <3>1. cache[k] # None
      BY <2>1, Zenon DEF Live
    <3>2. /\ cache[k].expires_at \in 0..(MaxClock + TTL_MAX_SECS) /\ cache[k].expires_at \in Int
          /\ cache[k].data.stored_at \in Int /\ cache[k].data.stored_at <= clock
          /\ cache[k].expires_at <= cache[k].data.stored_at + TTL_MAX_SECS
      BY <1>1, <3>1, CacheEntry
    <3>3. e = cache[k].expires_at
      BY <1>7, <2>1
    <3> QED
      BY <1>4, <3>2, <3>3, HandlerLimits
  <2>2. CASE ~Live(cache[k])
    <3>1. TtlSecs(response[q].ttl) \in Nat /\ TtlSecs(response[q].ttl) <= TTL_MAX_SECS
      BY <1>3, ClampBounds
    <3>2. e = clock + TtlSecs(response[q].ttl)
      BY <1>7, <2>2, Zenon
    <3> QED
      BY <1>4, <3>1, <3>2, HandlerLimits
  <2> QED
    BY <2>1, <2>2
<1>9. cache' \in [Domains \X Types -> Entry \cup {None}]
    BY <1>1, <1>5, <1>8, <1>6, CacheTypes, Zenon DEF Entry
<1>10. \A j \in Domains \X Types :
          cache'[j] # None => /\ cache'[j].expires_at <= cache'[j].data.stored_at + TTL_MAX_SECS
                              /\ cache'[j].data.about = j /\ cache'[j].data.from = "upstream"
                              /\ cache'[j].data.stored_at <= clock
  <2> SUFFICES ASSUME NEW j \in Domains \X Types, cache'[j] # None
               PROVE  /\ cache'[j].expires_at <= cache'[j].data.stored_at + TTL_MAX_SECS
                      /\ cache'[j].data.about = j /\ cache'[j].data.from = "upstream"
                      /\ cache'[j].data.stored_at <= clock
    OBVIOUS
  <2>1. CASE j = k
    <3>1. cache'[j] = [data |-> r, expires_at |-> e]
      BY <1>1, <1>6, <2>1, CacheTypes, Zenon
    <3> QED
      BY <1>4, <1>5, <1>8, <2>1, <3>1
  <2>2. CASE j # k
    <3>1. cache'[j] = cache[j]
      BY <1>6, <2>2, CacheTypes
    <3> QED
      BY <3>1, CacheEntry
  <2> QED
    BY <2>1, <2>2
<1>11. DOMAIN cache' = Domains \X Types
    BY <1>9
<1>12. pc' = [pc EXCEPT ![q] = "answered"] /\ UNCHANGED <<tables, asked, response, clock, changes, steady>>
    BY Zenon DEF Store
<1>13. HandlerTypeOK'
  <2>1. pc' \in [Queries -> Places]
    BY <1>12, TaskTypes DEF Places
  <2>2. \A j \in DOMAIN cache' : cache'[j] # None => cache'[j].expires_at <= cache'[j].data.stored_at + TTL_MAX_SECS
    BY <1>10, <1>11
  <2> QED
    BY <1>9, <1>12, <2>1, <2>2, TaskTypes, TimeTypes, TableTypes, Zenon DEF HandlerTypeOK, tables, Places
<1>14. OthersKeep(q)
    BY <1>12, TaskTypes, Zenon DEF OthersKeep
<1>15. \A p \in Queries : QueryOK(p)'
  <2> SUFFICES ASSUME NEW p \in Queries PROVE QueryOK(p)'
    OBVIOUS
  <2>1. QueryOK(p)
    BY DEF HandlerInv
  <2>2. asked'[p] = asked[p] /\ response'[p] = response[p] /\ pc'[p] = (IF p = q THEN "answered" ELSE pc[p])
    BY <1>12, TaskTypes, Zenon
  <2> QED
    BY <1>2, <2>1, <2>2 DEF QueryOK
<1>16. \A j \in Domains \X Types : EntryOK(j)'
    BY <1>10, <1>12 DEF EntryOK
<1> QED
    BY <1>13, <1>14, <1>15, <1>16, Zenon DEF HandlerInv

LEMMA StepInv ==
    ASSUME HandlerInv, NEW q \in Queries, Step(q)
    PROVE  HandlerInv' /\ OthersKeep(q)
<1>1. CASE CheckAcl(q) \/ CheckRewrite(q) \/ CheckFilter(q)
    BY <1>1, ReplyStep, ContinueStep DEF CheckAcl, CheckRewrite, CheckFilter
<1>2. CASE CheckCache(q)
  <2>1. CASE Live(cache[Key(q)])
    BY <1>2, <2>1, HitStep DEF CheckCache
  <2>2. CASE ~Live(cache[Key(q)])
    BY <1>2, <2>2, TryStep, ZenonT(30) DEF CheckCache, HandlerInv, HandlerTypeOK
  <2> QED
    BY <2>1, <2>2
<1>3. CASE EncodeFails(q)
    BY <1>3, TryStep, ZenonT(30) DEF EncodeFails, HandlerInv, HandlerTypeOK
<1> QED
    BY <1>1, <1>2, <1>3, ResolveStep, StoreStep, Zenon DEF Step

\* What changes under the queries.
Outside ==
    \/ \E c \in Clients : reload_acl(c) \/ UpdateClient(c)
    \/ \E d \in Domains : StoreRules(d) \/ \E w \in Rewrites : StoreRewrites(d, w)
    \/ \E n \in {Nodes[i] : i \in DOMAIN Nodes} : UpstreamChanges(n)
    \/ cache_flush
    \/ Tick

LEMMA OutsideStep ==
    ASSUME HandlerInv, Outside
    PROVE  HandlerInv' /\ UNCHANGED tasks /\ steady' \subseteq steady
<1> DEFINE Tables == /\ allowed' \subseteq Clients /\ filter_enabled' \in [Clients -> BOOLEAN] /\ blocked' \subseteq Domains
                     /\ rewrites' \in [Domains -> Rewrites] /\ up' \subseteq {Nodes[i] : i \in DOMAIN Nodes}
           Rest == /\ UNCHANGED tasks /\ steady' \subseteq steady
                   /\ changes' \in 0..MaxChanges /\ clock' \in 0..MaxClock /\ clock <= clock'
                   /\ cache' = cache \/ cache' = [k \in Domains \X Types |-> None]
<1>0. ASSUME changes < MaxChanges PROVE changes + 1 \in 0..MaxChanges
    BY <1>0, TimeTypes, HandlerLimits
<1>1. ASSUME NEW concerned, Change(concerned) PROVE Rest
  <2>1. changes < MaxChanges /\ changes' = changes + 1 /\ clock' = clock
    BY <1>1 DEF Change
  <2>2. changes' \in 0..MaxChanges
    BY <1>0, <2>1
  <2>3. clock' \in 0..MaxClock /\ clock <= clock'
    BY <2>1, TimeTypes
  <2> QED
    BY <1>1, <2>2, <2>3, Zenon DEF Change
<1>2. ASSUME NEW c \in Clients, reload_acl(c) PROVE Tables /\ Rest
  <2>1. Rest
    BY <1>1, <1>2, Zenon DEF reload_acl
  <2>2. Tables
    BY <1>2, TableTypes DEF reload_acl
  <2> QED
    BY <2>1, <2>2
<1>3. ASSUME NEW c \in Clients, UpdateClient(c) PROVE Tables /\ Rest
  <2>1. Rest
    BY <1>1, <1>3, Zenon DEF UpdateClient
  <2>2. Tables
    BY <1>3, TableTypes DEF UpdateClient
  <2> QED
    BY <2>1, <2>2
<1>4. ASSUME NEW d \in Domains, StoreRules(d) PROVE Tables /\ Rest
  <2>1. Rest
    BY <1>1, <1>4, Zenon DEF StoreRules
  <2>2. Tables
    BY <1>4, TableTypes DEF StoreRules
  <2> QED
    BY <2>1, <2>2
<1>5. ASSUME NEW d \in Domains, NEW w \in Rewrites, StoreRewrites(d, w) PROVE Tables /\ Rest
  <2>1. Rest
    BY <1>1, <1>5, Zenon DEF StoreRewrites
  <2>2. Tables
    BY <1>5, TableTypes DEF StoreRewrites
  <2> QED
    BY <2>1, <2>2
<1>6. ASSUME NEW n \in {Nodes[i] : i \in DOMAIN Nodes}, UpstreamChanges(n) PROVE Tables /\ Rest
  <2>1. Rest
    BY <1>1, <1>6, Zenon DEF UpstreamChanges
  <2>2. Tables
    BY <1>6, TableTypes DEF UpstreamChanges
  <2> QED
    BY <2>1, <2>2
<1>7. ASSUME cache_flush PROVE Tables /\ Rest
  <2>1. Tables
    BY <1>7, TableTypes DEF cache_flush, tables
  <2>2. changes' \in 0..MaxChanges /\ clock' = clock
    BY <1>0, <1>7 DEF cache_flush
  <2>3. clock' \in 0..MaxClock /\ clock <= clock'
    BY <2>2, TimeTypes
  <2> QED
    BY <1>7, <2>1, <2>2, <2>3, Zenon DEF cache_flush
<1>8. ASSUME Tick PROVE Tables /\ Rest
  <2>1. Tables
    BY <1>8, TableTypes DEF Tick, tables
  <2>2. changes' \in 0..MaxChanges /\ clock < MaxClock /\ clock' = clock + 1
    BY <1>8, TimeTypes DEF Tick
  <2>3. clock' \in 0..MaxClock /\ clock <= clock'
    BY <2>2, TimeTypes, HandlerLimits
  <2> QED
    BY <1>8, <2>1, <2>2, <2>3, Zenon DEF Tick
<1>9. Tables /\ Rest
    BY <1>2, <1>3, <1>4, <1>5, <1>6, <1>7, <1>8, Zenon DEF Outside
<1>10. /\ cache' \in [Domains \X Types -> Entry \cup {None}]
       /\ \A k \in Domains \X Types : cache'[k] = cache[k] \/ cache'[k] = None
    BY <1>9, CacheTypes, Zenon
<1>11. \A k \in DOMAIN cache' : cache'[k] # None => cache'[k].expires_at <= cache'[k].data.stored_at + TTL_MAX_SECS
  <2> SUFFICES ASSUME NEW k \in Domains \X Types, cache'[k] # None
               PROVE  cache'[k].expires_at <= cache'[k].data.stored_at + TTL_MAX_SECS
    BY <1>10
  <2>1. cache'[k] = cache[k] /\ cache[k] # None
    BY <1>10, Zenon
  <2> QED
    BY <2>1, CacheEntry
<1>12. UNCHANGED <<asked, pc, response>> /\ steady' \subseteq Queries
    BY <1>9, TaskTypes DEF tasks
<1>13. HandlerTypeOK'
    BY <1>9, <1>11, <1>12, <1>10, TaskTypes, Zenon DEF HandlerTypeOK, Places
<1>14. \A q \in Queries : QueryOK(q)'
    BY <1>12, Zenon DEF HandlerInv, QueryOK
<1>15. \A k \in Domains \X Types : EntryOK(k)'
  <2> SUFFICES ASSUME NEW k \in Domains \X Types, cache'[k] # None PROVE EntryOK(k)'
    BY Zenon DEF EntryOK
  <2>1. cache'[k] = cache[k] /\ cache[k] # None
    BY <1>10
  <2>2. /\ cache[k].data.about = k /\ cache[k].data.from = "upstream"
        /\ cache[k].data.stored_at \in Int /\ cache[k].data.stored_at <= clock
    BY <2>1, CacheEntry
  <2>3. clock \in Int /\ clock' \in Int /\ clock <= clock'
    BY <1>9, TimeTypes, HandlerLimits
  <2>4. cache[k].data.stored_at <= clock'
    BY <2>2, <2>3
  <2> QED
    BY <2>1, <2>2, <2>4, Zenon DEF EntryOK
<1> QED
    BY <1>9, <1>13, <1>14, <1>15, Zenon DEF HandlerInv

LEMMA HandlerInvariance == HandlerSpec => []HandlerInv
<1>1. HandlerInv /\ [HandlerNext]_handler_vars => HandlerInv'
  <2> SUFFICES ASSUME HandlerInv, [HandlerNext]_handler_vars PROVE HandlerInv'
    BY Zenon
  <2>1. CASE UNCHANGED handler_vars
    BY <2>1 DEF handler_vars, tables, tasks, HandlerInv, HandlerTypeOK, QueryOK, EntryOK
  <2> QED
    BY <2>1, AskStep, StepInv, OutsideStep DEF HandlerNext, Outside
<1> QED
    BY <1>1, HandlerInitInv, PTL DEF HandlerSpec

\* Every reachable state is well typed; in particular no entry of the cache
\* outlives the ceiling of the clamp.
THEOREM HandlerTypeCorrect == HandlerSpec => []HandlerTypeOK
<1>1. HandlerInv => HandlerTypeOK
    BY DEF HandlerInv
<1> QED
    BY <1>1, HandlerInvariance, PTL

\* For any number of queries that share the cache: each is answered with its
\* own id and to its own question.
THEOREM AnswersOwn == HandlerSpec => []OwnAnswer
<1>1. HandlerInv => OwnAnswer
    BY Zenon DEF HandlerInv, QueryOK, OwnAnswer
<1> QED
    BY <1>1, HandlerInvariance, PTL

\* For any TTLs and clamp: what the cache serves was stored less than
\* TTL_MAX_SECS ago, however often the entry was replaced.
THEOREM AgeCorrect == HandlerSpec => []AgeBounded
<1>1. HandlerInv => AgeBounded
  <2> SUFFICES ASSUME HandlerInv, NEW k \in DOMAIN cache, Live(cache[k])
               PROVE  clock - cache[k].data.stored_at < TTL_MAX_SECS
    BY DEF AgeBounded
  <2>1. cache[k] # None /\ clock < cache[k].expires_at
    BY DEF Live
  <2>2. k \in Domains \X Types
    BY CacheTypes, Zenon
  <2>3. /\ cache[k].data.stored_at \in Int /\ cache[k].expires_at \in Int
        /\ cache[k].expires_at <= cache[k].data.stored_at + TTL_MAX_SECS
    BY <2>1, <2>2, CacheEntry
  <2>4. clock \in Int /\ TTL_MAX_SECS \in Int
    BY TimeTypes, HandlerLimits
  <2>5. \A c, e, a, t \in Int : c < e /\ e <= a + t => c - a < t
    OBVIOUS
  <2> QED
    BY <2>1, <2>3, <2>4, <2>5, Zenon
<1> QED
    BY <1>1, HandlerInvariance, PTL

-----------------------------------------------------------------------------
(* The order of the handler's checks *)

\* What the checks behind a query have found still holds, as long as no table
\* that concerns the query has changed.
Checked(q) ==
    LET k == asked[q]
    IN  /\ pc[q] # "idle"
        /\ pc[q] \in {"rewrite", "filter", "cache", "resolve", "store"} =>
               k.client \in allowed /\ k.type # "none"
        /\ pc[q] \in {"filter", "cache", "resolve", "store"} => ~Rewritten(k.domain, k.type)
        /\ pc[q] \in {"cache", "resolve", "store"} => k.domain \notin blocked
        /\ pc[q] = "answered" => response[q].from = Responsible(k)

PolicyInv == HandlerInv /\ \A q \in steady : Checked(q)

LEMMA ResponsibleIs ==
    ASSUME NEW k
    PROVE  /\ k.client \notin allowed => Responsible(k) = "acl"
           /\ k.client \in allowed /\ k.type = "none" => Responsible(k) = "request"
           /\ k.client \in allowed /\ k.type # "none" /\ Rewritten(k.domain, k.type) => Responsible(k) = "rewrite"
           /\ k.client \in allowed /\ k.type # "none" /\ ~Rewritten(k.domain, k.type)
                  => Responsible(k) = IF k.domain \in blocked THEN "filter" ELSE "upstream"
<1>1. CASE k.client \notin allowed
    BY <1>1 DEF Responsible
<1>2. CASE k.client \in allowed /\ k.type = "none"
  <2>1. ~Rewritten(k.domain, k.type)
    BY <1>2 DEF Rewritten
  <2> QED
    BY <1>2, <2>1 DEF Responsible
<1>3. CASE k.client \in allowed /\ k.type # "none"
    BY <1>3 DEF Responsible
<1> QED
    BY <1>1, <1>2, <1>3

LEMMA StepPolicy ==
    ASSUME PolicyInv, NEW q \in Queries, Step(q)
    PROVE  PolicyInv'
<1>1. HandlerInv' /\ OthersKeep(q)
    BY StepInv, Zenon DEF PolicyInv
<1>2. steady' = steady /\ asked' = asked /\ steady \subseteq Queries
    BY Zenon DEF Step, CheckAcl, CheckRewrite, CheckFilter, CheckCache, Resolve, EncodeFails, Store, Answered,
       Continue,
       PolicyInv, HandlerInv, HandlerTypeOK
<1>3. ASSUME NEW p \in steady, p # q PROVE Checked(p)'
    BY <1>1, <1>2, <1>3 DEF OthersKeep, Checked, Rewritten, Responsible, PolicyInv, tables
<1>4. ASSUME q \in steady PROVE Checked(q)'
  <2>0. Checked(q) /\ UNCHANGED tables
    BY <1>1, <1>4, Zenon DEF PolicyInv, OthersKeep
  <2> DEFINE k == asked[q]
  <2>1. ASSUME NEW rcode, NEW from, Answered(q, Reply(q, rcode, from)), from = Responsible(k)
        PROVE  Checked(q)'
    <3>1. response'[q].from = from /\ pc'[q] = "answered"
      BY <2>1 DEF Answered, Reply, PolicyInv, HandlerInv, HandlerTypeOK
    <3>2. Responsible(k)' = Responsible(k)
      BY <1>2, <2>0 DEF Responsible, Rewritten, tables
    <3> QED
      BY <1>2, <2>1, <3>1, <3>2, Zenon DEF Checked
  <2>2. CASE CheckAcl(q)
    <3>1. CASE k.client \notin allowed
      BY <2>1, <2>2, <3>1, ResponsibleIs, Zenon DEF CheckAcl
    <3>2. CASE k.client \in allowed /\ k.type = "none"
      BY <2>1, <2>2, <3>2, ResponsibleIs DEF CheckAcl
    <3>3. CASE k.client \in allowed /\ k.type # "none"
      BY <1>2, <2>0, <2>2, <3>3, Zenon DEF CheckAcl, Continue, Checked, tables, PolicyInv, HandlerInv, HandlerTypeOK
    <3> QED
      BY <3>1, <3>2, <3>3, Zenon
  <2>3. CASE CheckRewrite(q)
    <3>1. CASE Rewritten(k.domain, k.type)
      BY <2>0, <2>1, <2>3, <3>1, ResponsibleIs, ZenonT(30) DEF CheckRewrite, Checked
    <3>2. CASE ~Rewritten(k.domain, k.type)
      BY <1>2, <2>0, <2>3, <3>2, Zenon DEF CheckRewrite, Continue, Checked, Rewritten, tables, PolicyInv,
         HandlerInv, HandlerTypeOK
    <3> QED
      BY <3>1, <3>2
  <2>4. CASE CheckFilter(q)
    <3>0. get_client_config(k.client).filter_enabled
      BY DEF get_client_config
    <3>1. CASE k.domain \in blocked
      BY <2>0, <2>1, <2>4, <3>0, <3>1, ResponsibleIs, ZenonT(30) DEF CheckFilter, Checked
    <3>2. CASE k.domain \notin blocked
      BY <1>2, <2>0, <2>4, <3>2, Zenon DEF CheckFilter, Continue, Checked, Rewritten, tables, PolicyInv,
         HandlerInv, HandlerTypeOK
    <3> QED
      BY <3>1, <3>2
  <2>5. ASSUME pc[q] \in {"cache", "resolve", "store"}, pc'[q] = "answered", response'[q].from = "upstream"
        PROVE  Checked(q)'
    <3>1. Responsible(k) = "upstream"
      BY <2>0, <2>5, ResponsibleIs, ZenonT(30) DEF Checked
    <3>2. Responsible(k)' = Responsible(k)
      BY <1>2, <2>0 DEF Responsible, Rewritten, tables
    <3> QED
      BY <1>2, <2>5, <3>1, <3>2 DEF Checked
  <2>6. CASE CheckCache(q) /\ Live(cache[Key(q)])
    <3>1. Answered(q, PatchId(cache[Key(q)].data, q)) /\ cache' = cache /\ pc[q] = "cache"
      BY <2>6 DEF CheckCache
    <3>2. PatchId(cache[Key(q)].data, q).from = "upstream"
      BY <2>6, <3>1, HitStep, Zenon DEF PolicyInv
    <3>3. pc'[q] = "answered" /\ response'[q] = PatchId(cache[Key(q)].data, q)
      BY <3>1 DEF Answered, PolicyInv, HandlerInv, HandlerTypeOK
    <3> QED
      BY <2>5, <3>1, <3>2, <3>3, Zenon
  <2>7. CASE (CheckCache(q) /\ ~Live(cache[Key(q)])) \/ Resolve(q) \/ EncodeFails(q)
    <3>1. pc[q] \in {"cache", "resolve"} /\ pc'[q] \in {"resolve", "store", "failed"}
      BY <2>7 DEF CheckCache, Resolve, EncodeFails, PolicyInv, HandlerInv, HandlerTypeOK
    <3> QED
      BY <1>2, <2>0, <3>1, Zenon DEF Checked, Rewritten, tables
  <2>8. CASE Store(q)
    <3>1. pc[q] = "store" /\ pc'[q] = "answered" /\ response' = response
      BY <2>8, Zenon DEF Store, PolicyInv, HandlerInv, HandlerTypeOK
    <3>2. response[q].from = "upstream"
      BY <3>1 DEF PolicyInv, HandlerInv, QueryOK
    <3> QED
      BY <2>5, <3>1, <3>2, Zenon
  <2> QED
    BY <2>2, <2>3, <2>4, <2>6, <2>7, <2>8 DEF Step
<1> QED
    BY <1>1, <1>2, <1>3, <1>4 DEF PolicyInv

LEMMA OutsidePolicy ==
    ASSUME PolicyInv, Outside
    PROVE  PolicyInv'
<1>1. HandlerInv' /\ UNCHANGED tasks /\ steady' \subseteq steady
    BY OutsideStep DEF PolicyInv
<1>2. ASSUME NEW q \in steady'
      PROVE  /\ asked[q].client \in allowed <=> asked[q].client \in allowed'
             /\ asked[q].domain \in blocked <=> asked[q].domain \in blocked'
             /\ rewrites[asked[q].domain] = rewrites'[asked[q].domain]
  <2>1. q \in Queries /\ asked[q] \in Question
    BY <1>1, ZenonT(30) DEF PolicyInv, Checked, HandlerInv, HandlerTypeOK, QueryOK
  <2>2. ASSUME NEW c \in Clients, reload_acl(c) \/ UpdateClient(c)
        PROVE  asked[q].client # c
    BY <2>1, <2>2, ZenonT(30) DEF reload_acl, UpdateClient, Change, About
  <2>3. ASSUME NEW d \in Domains, StoreRules(d) \/ \E w \in Rewrites : StoreRewrites(d, w)
        PROVE  asked[q].domain # d
    BY <2>1, <2>3, Zenon DEF StoreRules, StoreRewrites, Change, About
  <2>4. asked[q].domain \in Domains
    BY <2>1, Zenon DEF Question
  <2> QED
    BY <2>2, <2>3, <2>4, ZenonT(30) DEF Outside, reload_acl, UpdateClient, StoreRules, StoreRewrites,
       UpstreamChanges, cache_flush,
       Tick, tables, PolicyInv, HandlerInv, HandlerTypeOK
<1>3. ASSUME NEW q \in steady' PROVE Checked(q)'
    BY <1>1, <1>2, <1>3 DEF PolicyInv, Checked, Rewritten, Responsible, tasks
<1> QED
    BY <1>1, <1>3 DEF PolicyInv

\* For any tables and any concurrent changes of them: a query that no change
\* concerns is answered by the part of the handler the tables make responsible,
\* the ACL before the rewrites, those before the rules and these before the
\* cache.
THEOREM PolicyCorrect == HandlerSpec => []PolicyHolds
<1>1. HandlerInit => PolicyInv
    BY HandlerInitInv DEF PolicyInv, HandlerInit
<1>2. PolicyInv /\ [HandlerNext]_handler_vars => PolicyInv'
  <2> SUFFICES ASSUME PolicyInv, [HandlerNext]_handler_vars PROVE PolicyInv'
    BY Zenon
  <2>1. CASE UNCHANGED handler_vars
    BY <2>1 DEF handler_vars, tables, tasks, PolicyInv, HandlerInv, HandlerTypeOK, QueryOK, EntryOK, Checked,
       Rewritten, Responsible
  <2>2. ASSUME NEW q \in Queries, NEW question \in Question, Ask(q, question) PROVE PolicyInv'
    <3>1. HandlerInv' /\ OthersKeep(q)
      BY <2>2, AskStep, Zenon DEF PolicyInv
    <3>2. pc'[q] = "acl" /\ steady' = steady \cup {q} /\ steady \subseteq Queries
      BY <2>2, Zenon DEF Ask, PolicyInv, HandlerInv, HandlerTypeOK
    <3>3. \A p \in steady : p # q => Checked(p)'
      BY <3>1, <3>2 DEF OthersKeep, Checked, Rewritten, Responsible, PolicyInv, tables
    <3>4. Checked(q)'
      BY <3>2, Zenon DEF Checked
    <3> QED
      BY <3>1, <3>2, <3>3, <3>4 DEF PolicyInv
  <2> QED
    BY <2>1, <2>2, StepPolicy, OutsidePolicy, Zenon DEF HandlerNext, Outside
<1>3. PolicyInv => PolicyHolds
    BY DEF PolicyInv, Checked, PolicyHolds
<1> QED
    BY <1>1, <1>2, <1>3, PTL DEF HandlerSpec

-----------------------------------------------------------------------------
(* The query log writer: types, the refinement of LossyLog, the alerts *)

INSTANCE SequenceTheorems
INSTANCE FiniteSetTheorems

(***************************************************************************)
(* Where the writer selects its batch has room; where it flushes the batch *)
(* is not empty, so the abstract log decides at least one entry.           *)
(***************************************************************************)
BatchOK ==
    /\ at = "select" => Len(batch) < BATCH_SIZE
    /\ at \in {"begin", "commit"} => batch # <<>>

Inv == TypeOK /\ BatchOK

(***************************************************************************)
(* What the steps shared by several actions do.                            *)
(***************************************************************************)
LEMMA CountedType ==
    ASSUME TypeOK, NEW c \in ClientIps
    PROVE  Counted(c) \in [n : Nat, first : 0..MaxSeconds]
<1>1. CASE block_counts[c] = NoCount \/ Expired(c)
    BY <1>1 DEF Counted, TypeOK
<1>2. CASE ~(block_counts[c] = NoCount \/ Expired(c))
    <2>1. block_counts[c] \in [n : Nat, first : 0..MaxSeconds]
        BY <1>2, Zenon DEF TypeOK
    <2> QED
        BY <1>2, <2>1 DEF Counted
<1> QED
    BY <1>1, <1>2, Zenon

LEMMA PrunedType ==
    ASSUME TypeOK
    PROVE  Pruned \in [ClientIps -> [n : Nat, first : 0..MaxSeconds] \cup {NoCount}]
BY DEF Pruned, TypeOK

LEMMA FlushEndsInv ==
    ASSUME Inv, FlushEnds, query_log' \in Seq(QueryLogEntry), flush_failed' \in BOOLEAN
    PROVE  Inv'
<1>1. /\ batch' = <<>> /\ batch' \in Seq(QueryLogEntry) /\ Len(batch') = 0
      /\ at' \in {"select", "returned"}
    BY DEF FlushEnds
<1>2. block_counts' \in [ClientIps -> [n : Nat, first : 0..MaxSeconds] \cup {NoCount}]
    BY PrunedType, Zenon DEF FlushEnds, Inv, TypeOK
<1>3. TypeOK'
    BY <1>1, <1>2, QueryLogAssumption DEF FlushEnds, Inv, TypeOK
<1> QED
    BY <1>1, <1>3, QueryLogAssumption DEF Inv, BatchOK

LEMMA InitInv == Init => Inv
<1> SUFFICES ASSUME Init PROVE Inv
    OBVIOUS
<1>1. <<>> \in Seq(QueryLogEntry) /\ Len(<<>>) = 0
    BY EmptySeq
<1>2. block_counts \in [ClientIps -> [n : Nat, first : 0..MaxSeconds] \cup {NoCount}]
    BY DEF Init
<1>3. alerts \subseteq Moment /\ blocks \subseteq Moment
    BY DEF Init
<1>4. /\ channel \in Seq(QueryLogEntry) /\ Len(channel) <= CHANNEL_CAPACITY
      /\ batch \in Seq(QueryLogEntry) /\ Len(batch) <= BATCH_SIZE
      /\ query_log \in Seq(QueryLogEntry)
    BY <1>1, QueryLogAssumption DEF Init
<1>5. logged \in 0..MaxEntries /\ seconds \in 0..MaxSeconds
    BY QueryLogAssumption DEF Init
<1>6. /\ senders \in BOOLEAN /\ pool_open \in BOOLEAN /\ flush_failed \in BOOLEAN
      /\ at \in {"select", "begin", "commit", "returned"}
      /\ then \in {"loop", "prune", "return"}
      /\ main \in {"serving", "stopping", "closing", "exited"}
    BY Zenon DEF Init
<1>7. TypeOK
    BY <1>2, <1>3, <1>4, <1>5, <1>6, Zenon DEF TypeOK
<1> QED
    BY <1>1, <1>7, QueryLogAssumption DEF Init, Inv, BatchOK

(***************************************************************************)
(* Every step keeps the invariant.                                         *)
(***************************************************************************)
LEMMA LogQueryInv ==
    ASSUME Inv, NEW c \in ClientIps, NEW s \in Statuses, log_query(c, s)
    PROVE  Inv'
<1> DEFINE e == [id |-> logged + 1, client_ip |-> c, status |-> s]
<1>1. e \in QueryLogEntry
    BY QueryLogAssumption DEF log_query, Inv, TypeOK, QueryLogEntry
<1>2. channel' \in Seq(QueryLogEntry) /\ Len(channel') <= CHANNEL_CAPACITY
    <2>1. CASE HasRoom /\ at # "returned"
        <3>1. channel' = Append(channel, e)
            BY <2>1 DEF log_query
        <3>2. channel \in Seq(QueryLogEntry) /\ Len(channel) < CHANNEL_CAPACITY
            BY <2>1, Zenon DEF HasRoom, Inv, TypeOK
        <3> HIDE DEF e
        <3> QED
            BY <1>1, <3>1, <3>2, AppendProperties, LenProperties, QueryLogAssumption
    <2>2. CASE ~(HasRoom /\ at # "returned")
        BY <2>2, Zenon DEF log_query, Inv, TypeOK
    <2> QED
        BY <2>1, <2>2, Zenon
<1>3. TypeOK'
    BY <1>2, QueryLogAssumption DEF log_query, Inv, TypeOK, writer, history
<1>4. BatchOK'
    BY DEF log_query, Inv, BatchOK, writer
<1> QED
    BY <1>3, <1>4, Zenon DEF Inv

LEMMA ReceiveInv ==
    ASSUME Inv, Receive
    PROVE  Inv'
<1> DEFINE e == Head(channel)
           moment == [id |-> e.id, client_ip |-> e.client_ip, time |-> seconds]
<1>1. channel \in Seq(QueryLogEntry) /\ channel # <<>> /\ batch \in Seq(QueryLogEntry)
    BY DEF Receive, Inv, TypeOK
<1>2. /\ e \in QueryLogEntry /\ Tail(channel) \in Seq(QueryLogEntry)
      /\ Len(Tail(channel)) <= Len(channel) /\ Len(channel) \in Nat /\ Len(batch) \in Nat
    BY <1>1, HeadTailProperties, LenProperties
<1>3. moment \in Moment /\ e.client_ip \in ClientIps
    BY <1>2, Zenon DEF Inv, TypeOK, QueryLogEntry, Moment
<1>4. /\ channel' = Tail(channel) /\ batch' = Append(batch, e)
      /\ \/ /\ block_counts' = [block_counts EXCEPT ![e.client_ip] = Counted(e.client_ip)]
            /\ alerts' \in {alerts, alerts \cup {moment}}
            /\ blocks' = blocks \cup {moment}
         \/ UNCHANGED <<block_counts, alerts, blocks>>
    BY Zenon DEF Receive
<1>5. Counted(e.client_ip) \in [n : Nat, first : 0..MaxSeconds]
    BY <1>3, CountedType, Zenon DEF Inv
<1>6. /\ batch' \in Seq(QueryLogEntry) /\ batch' # <<>> /\ Len(batch') = Len(batch) + 1
      /\ Len(batch) < BATCH_SIZE
    <2> HIDE DEF e
    <2> QED
        BY <1>1, <1>2, <1>4, AppendProperties DEF Receive, Inv, BatchOK
<1>7. at' = IF Len(batch') >= BATCH_SIZE THEN "begin" ELSE "select"
    BY Zenon DEF Receive
<1>8. /\ then' = "loop"
      /\ UNCHANGED <<logged, senders, query_log, pool_open, main, seconds, flush_failed>>
    BY DEF Receive
<1>9. /\ block_counts' \in [ClientIps -> [n : Nat, first : 0..MaxSeconds] \cup {NoCount}]
      /\ alerts' \subseteq Moment /\ blocks' \subseteq Moment
    <2> HIDE DEF e, moment
    <2> QED
        BY <1>3, <1>4, <1>5, Zenon DEF Inv, TypeOK
<1>10. channel' \in Seq(QueryLogEntry) /\ Len(channel') <= CHANNEL_CAPACITY
    BY <1>2, <1>4, QueryLogAssumption, LenProperties DEF Inv, TypeOK
<1>11. Len(batch') <= BATCH_SIZE
    BY <1>2, <1>6, QueryLogAssumption
<1> HIDE DEF e, moment
<1>12. TypeOK'
    BY <1>6, <1>7, <1>8, <1>9, <1>10, <1>11, Zenon DEF Inv, TypeOK
<1>13. BatchOK'
    BY <1>2, <1>6, <1>7, QueryLogAssumption DEF BatchOK
<1> QED
    BY <1>12, <1>13, Zenon DEF Inv

LEMMA NextInv ==
    ASSUME Inv, [Next]_vars
    PROVE  Inv'
<1>0. TypeOK
    BY DEF Inv
<1>1. ASSUME NEW c \in ClientIps, NEW s \in Statuses, log_query(c, s) PROVE Inv'
    BY <1>1, LogQueryInv
<1>2. CASE Receive
    BY <1>2, ReceiveInv
<1>3. CASE ReceiveNone
    <2>1. TypeOK'
        BY <1>0, <1>3 DEF ReceiveNone, TypeOK, history
    <2>2. BatchOK'
        BY <1>3, Zenon DEF ReceiveNone, BatchOK
    <2> QED
        BY <2>1, <2>2, Zenon DEF Inv
<1>4. CASE TickerTick
    <2>1. block_counts' \in [ClientIps -> [n : Nat, first : 0..MaxSeconds] \cup {NoCount}]
        BY <1>0, <1>4, PrunedType, Zenon DEF TickerTick, TypeOK
    <2>2. TypeOK'
        BY <1>0, <1>4, <2>1, Zenon DEF TickerTick, TypeOK, history
    <2>3. BatchOK'
        BY <1>4, Zenon DEF TickerTick, Inv, BatchOK
    <2> QED
        BY <2>2, <2>3 DEF Inv
<1>5. CASE Begin
    <2>1. TypeOK'
        BY <1>0, <1>5, Zenon DEF Begin, TypeOK, history
    <2>2. BatchOK'
        BY <1>5, Zenon DEF Begin, Inv, BatchOK
    <2> QED
        BY <2>1, <2>2 DEF Inv
<1>6. CASE BeginRefused
    BY <1>0, <1>6, FlushEndsInv DEF BeginRefused, TypeOK
<1>7. CASE Commit
    <2>1. query_log' \in Seq(QueryLogEntry)
        BY <1>0, <1>7, ConcatProperties, Zenon DEF Commit, TypeOK
    <2> QED
        BY <1>0, <1>7, <2>1, FlushEndsInv, Zenon DEF Commit, TypeOK
<1>8. CASE FlushFails
    <2>1. query_log' \in Seq(QueryLogEntry)
        BY <1>0, <1>8, ConcatProperties, Zenon DEF FlushFails, TypeOK
    <2> QED
        BY <1>8, <2>1, FlushEndsInv, Zenon DEF FlushFails
<1>9. CASE Shutdown
    <2>1. TypeOK'
        BY <1>0, <1>9, Zenon
           DEF Shutdown, Initiate, DropHandlers, ClosePool, Exit, TypeOK, writer, history
    <2>2. BatchOK'
        BY <1>9, Zenon DEF Shutdown, Initiate, DropHandlers, ClosePool, Exit, Inv, BatchOK, writer
    <2> QED
        BY <2>1, <2>2 DEF Inv
<1>10. CASE SecondPasses
    <2>1. TypeOK'
        BY <1>0, <1>10, QueryLogAssumption DEF SecondPasses, TypeOK, writer, history
    <2>2. BatchOK'
        BY <1>10, Zenon DEF SecondPasses, Inv, BatchOK, writer
    <2> QED
        BY <2>1, <2>2 DEF Inv
<1>11. CASE UNCHANGED vars
    BY <1>11 DEF Inv, TypeOK, BatchOK, vars, writer, history
<1> QED
    BY <1>1, <1>2, <1>3, <1>4, <1>5, <1>6, <1>7, <1>8, <1>9, <1>10, <1>11, Zenon
       DEF Next, Writer

LEMMA SpecInv == Spec => []Inv
<1> QED
    BY InitInv, NextInv, PTL DEF Spec

\* Every reachable state is well typed: in particular the channel never holds
\* more than CHANNEL_CAPACITY entries and the batch never more than BATCH_SIZE.
THEOREM TypeCorrect == Spec => []TypeOK
<1>1. Inv => TypeOK
    BY Zenon DEF Inv
<1> QED
    BY <1>1, SpecInv, PTL

(***************************************************************************)
(* Refinement.  The pending entries of LossyLog are the batch followed by  *)
(* the channel: accepting appends to the whole, moving an entry from the   *)
(* channel to the batch leaves the whole alone, and the end of a flush     *)
(* decides its first Len(batch) entries.                                   *)
(***************************************************************************)
LEMMA AppendToSecond ==
    ASSUME NEW S, NEW s \in Seq(S), NEW t \in Seq(S), NEW x \in S
    PROVE  s \o Append(t, x) = Append(s \o t, x)
<1>1. Append(t, x) = t \o <<x>> /\ <<x>> \in Seq(S)
    BY AppendIsConcat
<1>2. s \o t \in Seq(S)
    BY ConcatProperties, Zenon
<1>3. Append(s \o t, x) = (s \o t) \o <<x>>
    BY <1>2, AppendIsConcat, Zenon
<1> QED
    BY <1>1, <1>3, ConcatAssociative

LEMMA HeadThenTail ==
    ASSUME NEW S, NEW t \in Seq(S), t # <<>>
    PROVE  <<Head(t)>> \o Tail(t) = t
<1>1. /\ Head(t) \in S /\ Tail(t) \in Seq(S) /\ Len(Tail(t)) = Len(t) - 1
      /\ \A i \in 1 .. Len(Tail(t)) : Tail(t)[i] = t[i + 1]
    BY HeadTailProperties
<1>2. /\ <<Head(t)>> \in Seq(S) /\ Len(<<Head(t)>>) = 1 /\ <<Head(t)>>[1] = Head(t)
      /\ Head(t) = t[1] /\ Len(t) \in Nat \ {0}
    BY <1>1, EmptySeq, LenProperties
<1> DEFINE h == <<Head(t)>>
           u == h \o Tail(t)
<1> HIDE DEF h
<1>3. /\ u \in Seq(S) /\ Len(u) = Len(t)
      /\ \A i \in 1 .. Len(t) : u[i] = IF i <= 1 THEN h[i] ELSE Tail(t)[i - 1]
    BY <1>1, <1>2, ConcatProperties DEF h
<1>4. \A i \in 1 .. Len(t) : u[i] = t[i]
    BY <1>1, <1>2, <1>3 DEF h
<1> HIDE DEF u
<1>5. u = t
    BY <1>3, <1>4, SeqEqual
<1> QED
    BY <1>5, Zenon DEF u, h

LEMMA MoveHead ==
    ASSUME NEW S, NEW s \in Seq(S), NEW t \in Seq(S), t # <<>>
    PROVE  Append(s, Head(t)) \o Tail(t) = s \o t
<1>1. Head(t) \in S /\ Tail(t) \in Seq(S) /\ <<Head(t)>> \in Seq(S)
    BY HeadTailProperties
<1>2. Append(s, Head(t)) = s \o <<Head(t)>>
    BY <1>1, AppendIsConcat, Zenon
<1>3. (s \o <<Head(t)>>) \o Tail(t) = s \o (<<Head(t)>> \o Tail(t))
    BY <1>1, ConcatAssociative
<1> QED
    BY <1>2, <1>3, HeadThenTail, Zenon

LEMMA SplitConcat ==
    ASSUME NEW S, NEW s \in Seq(S), NEW t \in Seq(S)
    PROVE  /\ SubSeq(s \o t, 1, Len(s)) = s
           /\ SubSeq(s \o t, Len(s) + 1, Len(s \o t)) = t
<1> DEFINE u == s \o t
<1>1. /\ u \in Seq(S) /\ Len(u) = Len(s) + Len(t)
      /\ Len(s) \in Nat /\ Len(t) \in Nat
      /\ \A i \in 1 .. Len(s) + Len(t) : u[i] = IF i <= Len(s) THEN s[i] ELSE t[i - Len(s)]
    BY ConcatProperties, LenProperties, Zenon
<1> HIDE DEF u
<1>2. \A i \in 1 .. Len(u) : u[i] \in S
    BY <1>1, ElementOfSeq
<1>3. SubSeq(u, 1, Len(s)) = s
    <2> DEFINE v == SubSeq(u, 1, Len(s))
    <2>1. /\ v \in Seq(S) /\ Len(v) = IF 1 <= Len(s) THEN Len(s) - 1 + 1 ELSE 0
          /\ \A i \in 1 .. Len(s) - 1 + 1 : v[i] = u[1 + i - 1]
        <3>1. \A i \in 1 .. Len(s) : u[i] \in S
            BY <1>1, <1>2
        <3> QED
            BY <1>1, <3>1, SubSeqProperties
    <2> HIDE DEF v
    <2>2. Len(v) = Len(s) /\ \A i \in 1 .. Len(v) : v[i] = s[i]
        BY <1>1, <2>1
    <2>3. v = s
        BY <2>1, <2>2, SeqEqual
    <2> QED
        BY <2>3, Zenon DEF v
<1>4. SubSeq(u, Len(s) + 1, Len(u)) = t
    <2> DEFINE m == Len(s) + 1
               v == SubSeq(u, m, Len(u))
    <2>1. /\ v \in Seq(S) /\ Len(v) = IF m <= Len(u) THEN Len(u) - m + 1 ELSE 0
          /\ \A i \in 1 .. Len(u) - m + 1 : v[i] = u[m + i - 1]
        <3>1. \A i \in m .. Len(u) : u[i] \in S
            BY <1>1, <1>2
        <3>2. m \in Int /\ Len(u) \in Int
            BY <1>1
        <3> HIDE DEF m
        <3> QED
            BY <3>1, <3>2, SubSeqProperties
    <2> HIDE DEF v
    <2>2. Len(v) = Len(t)
        BY <1>1, <2>1
    <2>3. ASSUME NEW i \in 1 .. Len(t) PROVE v[i] = t[i]
        <3>1. v[i] = u[m + i - 1]
            BY <1>1, <2>1, <2>3
        <3>2. u[Len(s) + i] = t[i]
            BY <1>1, <2>3
        <3>3. m + i - 1 = Len(s) + i
            BY <1>1, <2>3
        <3> QED
            BY <3>1, <3>2, <3>3, Zenon
    <2>4. v = t
        BY <2>1, <2>2, <2>3, SeqEqual, Zenon
    <2> QED
        BY <2>4 DEF v
<1> QED
    BY <1>3, <1>4, Zenon DEF u

\* The end of a flush, with or without its rows in the table, is a step of the
\* abstract log.
LEMMA FlushRefines ==
    ASSUME Inv, at \in {"begin", "commit"}, FlushEnds,
           query_log' \in {query_log, query_log \o batch}
    PROVE  Log!Next
<1> DEFINE n == Len(batch)
           pending == batch \o channel
<1>1. /\ batch \in Seq(QueryLogEntry) /\ channel \in Seq(QueryLogEntry) /\ batch # <<>>
      /\ n <= BATCH_SIZE /\ Len(channel) \in Nat
    BY LenProperties DEF Inv, TypeOK, BatchOK
<1>2. n \in 1..BATCH_SIZE
    BY <1>1, EmptySeq, QueryLogAssumption
<1>3. Len(pending) = n + Len(channel)
    BY <1>1, ConcatProperties, Zenon
<1>4. n <= Len(pending)
    BY <1>1, <1>2, <1>3
<1>5. SubSeq(pending, 1, n) = batch /\ SubSeq(pending, n + 1, Len(pending)) = channel
    BY <1>1, SplitConcat, Zenon
<1>6. (batch \o channel)' = channel /\ logged' = logged
    BY <1>1, ConcatEmptySeq DEF FlushEnds
<1>7. Log!Persist(n) \/ Log!Discard(n)
    BY <1>5, <1>6, Zenon DEF Log!Persist, Log!Discard, Log!Oldest, Log!Younger
<1> QED
    BY <1>2, <1>4, <1>7, Zenon DEF Log!Next

LEMMA StepRefines ==
    ASSUME Inv, [Next]_vars
    PROVE  [Log!Next]_(Log!vars)
<1>1. batch \in Seq(QueryLogEntry) /\ channel \in Seq(QueryLogEntry)
    BY Zenon DEF Inv, TypeOK
<1>2. ASSUME NEW c \in ClientIps, NEW s \in Statuses, log_query(c, s)
      PROVE  Log!Next
    <2> DEFINE e == [id |-> logged + 1, client_ip |-> c, status |-> s]
    <2>1. /\ logged' = logged + 1 /\ batch' = batch /\ query_log' = query_log
          /\ channel' \in {channel, Append(channel, e)}
        BY <1>2 DEF log_query, writer
    <2>2. CASE channel' = Append(channel, e)
        <3>1. e \in QueryLogEntry
            BY <1>2, QueryLogAssumption DEF log_query, Inv, TypeOK, QueryLogEntry
        <3>2. (batch \o channel)' = Append(batch \o channel, e)
            <4> HIDE DEF e
            <4> QED
                BY <1>1, <2>1, <2>2, <3>1, AppendToSecond
        <3> QED
            BY <2>1, <3>2, Zenon DEF Log!Next, Log!Accept
    <2>3. CASE channel' = channel
        BY <2>1, <2>3 DEF Log!Next, Log!Reject
    <2> QED
        BY <2>1, <2>2, <2>3, Zenon
<1>3. CASE Receive
    <2>1. /\ channel # <<>> /\ channel' = Tail(channel)
          /\ batch' = Append(batch, Head(channel))
          /\ UNCHANGED <<logged, query_log>>
        BY <1>3 DEF Receive
    <2>2. (batch \o channel)' = batch \o channel
        BY <1>1, <2>1, MoveHead, Zenon
    <2> QED
        BY <2>1, <2>2, Zenon DEF Log!vars
<1>4. CASE BeginRefused \/ Commit \/ FlushFails
    BY <1>4, FlushRefines DEF BeginRefused, Commit, FlushFails
<1>5. CASE ReceiveNone \/ TickerTick \/ Begin
    BY <1>5, Zenon DEF ReceiveNone, TickerTick, Begin, Log!vars
<1>6. CASE Shutdown \/ SecondPasses
    BY <1>6, Zenon DEF Shutdown, Initiate, DropHandlers, ClosePool, Exit, SecondPasses, writer, Log!vars
<1>7. CASE UNCHANGED vars
    BY <1>7 DEF vars, writer, Log!vars
<1> QED
    BY <1>2, <1>3, <1>4, <1>5, <1>6, <1>7, Zenon DEF Next, Writer

LEMMA InitRefines == Init => Log!Init
<1>1. <<>> \o <<>> = <<>>
    BY EmptySeq, ConcatEmptySeq
<1> QED
    BY <1>1 DEF Init, Log!Init

\* The channel, the writer and its failing flushes implement LossyLog: whatever
\* the capacities, no entry is stored twice or out of order, no batch in part,
\* and none that try_send turned away.
THEOREM Refinement == Spec => KeepsLogPromise
<1> QED
    BY SpecInv, InitRefines, StepRefines, PTL DEF Spec, Log!Spec, KeepsLogPromise

(***************************************************************************)
(* Alerts.  Entries leave the channel in the order of their numbers, so a  *)
(* blocked entry is counted under a number above all those counted before; *)
(* nothing is counted in the future; and a count of n that began at time t *)
(* stands for n blocked entries of the client since t.                     *)
(***************************************************************************)
IdsOK ==
    /\ \A i \in 1..Len(channel) : channel[i].id <= logged
    /\ \A i, j \in 1..Len(channel) : i < j => channel[i].id < channel[j].id
    /\ \A b \in blocks : b.id <= logged
    /\ \A b \in blocks, i \in 1..Len(channel) : b.id < channel[i].id

TimesOK == IsFiniteSet(blocks) /\ alerts \subseteq blocks /\ \A b \in blocks : b.time <= seconds

Since(c, from) == {b \in blocks : b.client_ip = c /\ from <= b.time}

CountOK(c) ==
    block_counts[c] # NoCount =>
        /\ block_counts[c].first <= seconds
        /\ block_counts[c].n <= Cardinality(Since(c, block_counts[c].first))

\* The blocked entries that justify alert a.
Reasons(a) ==
    {b \in BlocksOf(a.client_ip, 0, a.time) : b.id <= a.id /\ a.time - b.time <= WINDOW}

AlertInv ==
    /\ Inv /\ IdsOK /\ TimesOK
    /\ \A c \in ClientIps : CountOK(c)
    /\ \A a \in alerts : Cardinality(Reasons(a)) >= THRESHOLD

LEMMA Limits ==
    THRESHOLD \in Nat /\ THRESHOLD > 1 /\ WINDOW \in Nat /\ MaxSeconds \in Nat /\ MaxEntries \in Nat
BY QueryLogAssumption, Zenon

LEMMA CountType ==
    ASSUME TypeOK, NEW c \in ClientIps, block_counts[c] # NoCount
    PROVE  block_counts[c].n \in Nat /\ block_counts[c].first \in Nat
<1>1. block_counts[c] \in [n : Nat, first : 0..MaxSeconds]
    BY DEF TypeOK
<1> QED
    BY <1>1, Limits

LEMMA MomentType ==
    ASSUME TypeOK
    PROVE  /\ seconds \in Nat
           /\ \A b \in blocks : b.id \in Nat /\ b.time \in Nat /\ b.client_ip \in ClientIps
<1>1. seconds \in 0..MaxSeconds /\ blocks \subseteq Moment
    BY Zenon DEF TypeOK
<1> QED
    BY <1>1, Limits DEF Moment

\* What is left of the clients' counts by a step that counts nothing.
Forgets ==
    /\ UNCHANGED <<blocks, alerts>> /\ seconds' \in Nat /\ seconds <= seconds'
    /\ \A c \in ClientIps : block_counts'[c] \in {block_counts[c], NoCount}

\* What a blocked entry with this number and client does to the counts.
Counts(id, c) ==
    LET moment == [id |-> id, client_ip |-> c, time |-> seconds]
    IN  /\ id \in 1..MaxEntries /\ \A b \in blocks : b.id < id
        /\ block_counts' = [block_counts EXCEPT ![c] = Counted(c)]
        /\ alerts' = alerts \cup (IF RaisesAlert(c) THEN {moment} ELSE {})
        /\ blocks' = blocks \cup {moment}
        /\ seconds' = seconds

LEMMA FlushForgets ==
    ASSUME Inv, FlushEnds
    PROVE  Forgets /\ UNCHANGED <<logged, channel>>
<1>1. /\ UNCHANGED <<logged, channel, blocks, alerts>> /\ seconds' = seconds
      /\ block_counts' \in {block_counts, Pruned}
    BY Zenon DEF FlushEnds
<1>2. \A c \in ClientIps : block_counts'[c] \in {block_counts[c], NoCount}
    BY <1>1 DEF Pruned
<1>3. seconds \in Nat
    BY MomentType DEF Inv
<1> QED
    BY <1>1, <1>2, <1>3 DEF Forgets

LEMMA IdleForgets ==
    ASSUME Inv, UNCHANGED <<blocks, alerts, seconds, block_counts>>
    PROVE  Forgets
<1>1. seconds \in Nat
    BY MomentType, Zenon DEF Inv
<1> QED
    BY <1>1 DEF Forgets

\* The numbers when a step leaves the channel and the counted entries alone.
LEMMA IdsSame ==
    ASSUME IdsOK, UNCHANGED <<logged, channel, blocks>>
    PROVE  IdsOK'
BY DEF IdsOK

LEMMA LogQueryIds ==
    ASSUME Inv, IdsOK, NEW c \in ClientIps, NEW s \in Statuses, log_query(c, s)
    PROVE  IdsOK'
<1> DEFINE e == [id |-> logged + 1, client_ip |-> c, status |-> s]
<1>1. logged \in Nat /\ logged' = logged + 1 /\ blocks' = blocks
    BY Limits DEF log_query, history, Inv, TypeOK
<1>2. channel \in Seq(QueryLogEntry) /\ Len(channel) \in Nat /\ e \in QueryLogEntry
    <2>1. channel \in Seq(QueryLogEntry) /\ logged \in 0..MaxEntries /\ logged < MaxEntries
        BY DEF Inv, TypeOK, log_query
    <2>2. logged + 1 \in 1..MaxEntries
        BY <2>1, Limits
    <2> QED
        BY <2>1, <2>2, LenProperties, Zenon DEF QueryLogEntry
<1>3. ASSUME NEW i \in 1..Len(channel) PROVE channel[i].id \in Nat
    <2>1. channel[i] \in QueryLogEntry
        BY <1>2, <1>3, ElementOfSeq, Zenon
    <2> QED
        BY <2>1, Limits DEF QueryLogEntry
<1>4. \A b \in blocks : b.id \in Nat
    BY MomentType, Zenon DEF Inv
<1>5. CASE channel' = channel
    BY <1>1, <1>3, <1>4, <1>5 DEF IdsOK
<1>6. CASE channel' = Append(channel, e)
    <2>1. e.id = logged + 1
        BY Zenon
    <2> HIDE DEF e
    <2>2. /\ Len(channel') = Len(channel) + 1
          /\ \A i \in 1..Len(channel) : channel'[i] = channel[i]
          /\ channel'[Len(channel) + 1] = e
        BY <1>2, <1>6, AppendProperties
    <2>3. ASSUME NEW i \in 1..Len(channel')
          PROVE  (i \in 1..Len(channel) /\ channel'[i] = channel[i]) \/ (i = Len(channel) + 1 /\ channel'[i] = e)
        BY <1>2, <2>2, <2>3
    <2>4. \A i \in 1..Len(channel') : channel'[i].id <= logged'
        BY <1>1, <1>3, <2>1, <2>3 DEF IdsOK
    <2>5. ASSUME NEW i \in 1..Len(channel'), NEW j \in 1..Len(channel'), i < j
          PROVE  channel'[i].id < channel'[j].id
        <3>1. i \in 1..Len(channel) /\ channel'[i] = channel[i]
            BY <1>2, <2>2, <2>5
        <3>2. CASE j \in 1..Len(channel)
            BY <2>2, <2>5, <3>1, <3>2, Zenon DEF IdsOK
        <3>3. CASE j = Len(channel) + 1
            BY <1>1, <1>3, <2>1, <2>2, <3>1, <3>3 DEF IdsOK
        <3> QED
            BY <2>3, <3>2, <3>3, Zenon
    <2>6. \A b \in blocks : b.id <= logged'
        BY <1>1, <1>4 DEF IdsOK
    <2>7. \A b \in blocks, i \in 1..Len(channel') : b.id < channel'[i].id
        BY <1>1, <1>4, <2>1, <2>3 DEF IdsOK
    <2> QED
        BY <1>1, <2>4, <2>5, <2>6, <2>7, Zenon DEF IdsOK
<1> QED
    BY <1>5, <1>6, Zenon DEF log_query

\* The writer takes the head of the channel: it counts the entry or leaves the
\* counts alone.
LEMMA ReceiveIds ==
    ASSUME Inv, IdsOK, Receive
    PROVE  /\ IdsOK'
           /\ \/ Forgets
              \/ \E id \in 1..MaxEntries, c \in ClientIps : Counts(id, c)
<1> DEFINE e == Head(channel)
           moment == [id |-> e.id, client_ip |-> e.client_ip, time |-> seconds]
<1>1. channel \in Seq(QueryLogEntry) /\ channel # <<>>
    BY Zenon DEF Receive, Inv, TypeOK
<1>2. /\ e \in QueryLogEntry /\ e = channel[1] /\ Len(channel) \in Nat /\ Len(channel) >= 1
      /\ Len(Tail(channel)) = Len(channel) - 1
      /\ \A i \in 1..Len(Tail(channel)) : Tail(channel)[i] = channel[i + 1]
    BY <1>1, HeadTailProperties, LenProperties, EmptySeq
<1>3. channel' = Tail(channel) /\ UNCHANGED <<logged, seconds>>
    BY Zenon DEF Receive
<1>4. e.id \in 1..MaxEntries /\ e.client_ip \in ClientIps
    BY <1>2 DEF QueryLogEntry
<1>5. \/ /\ block_counts' = [block_counts EXCEPT ![e.client_ip] = Counted(e.client_ip)]
         /\ alerts' = alerts \cup (IF RaisesAlert(e.client_ip) THEN {moment} ELSE {})
         /\ blocks' = blocks \cup {moment}
      \/ UNCHANGED <<block_counts, alerts, blocks>>
    BY Zenon DEF Receive
<1>6. \A b \in blocks : b.id < e.id
    BY <1>2 DEF IdsOK
<1>7. blocks' \subseteq blocks \cup {moment} /\ moment.id = e.id
    BY <1>5, Zenon
<1>8. e.id <= logged /\ \A i \in 2..Len(channel) : e.id < channel[i].id
    BY <1>2 DEF IdsOK
<1>9. IdsOK'
    <2> HIDE DEF e, moment
    <2>1. Len(channel') = Len(channel) - 1 /\ \A i \in 1..Len(channel') : channel'[i] = channel[i + 1]
        BY <1>2, <1>3, Zenon
    <2>2. \A i \in 1..Len(channel') : i + 1 \in 2..Len(channel) /\ i + 1 \in 1..Len(channel)
        BY <1>2, <2>1
    <2>3. \A i \in 1..Len(channel') : channel'[i].id <= logged'
        BY <1>3, <2>1, <2>2, Zenon DEF IdsOK
    <2>4. \A i, j \in 1..Len(channel') : i < j => channel'[i].id < channel'[j].id
        <3> SUFFICES ASSUME NEW i \in 1..Len(channel'), NEW j \in 1..Len(channel'), i < j
                     PROVE  channel'[i].id < channel'[j].id
            BY Zenon
        <3>1. i + 1 < j + 1
            BY <1>2, <2>1
        <3> QED
            BY <2>1, <2>2, <3>1, Zenon DEF IdsOK
    <2>5. \A b \in blocks' : b.id <= logged'
        BY <1>3, <1>7, <1>8, Zenon DEF IdsOK
    <2>6. \A b \in blocks', i \in 1..Len(channel') : b.id < channel'[i].id
        BY <1>7, <1>8, <2>1, <2>2, Zenon DEF IdsOK
    <2> QED
        BY <2>3, <2>4, <2>5, <2>6, Zenon DEF IdsOK
<1>10. CASE UNCHANGED <<block_counts, alerts, blocks>>
    BY <1>3, <1>9, <1>10, IdleForgets, Zenon
<1>11. CASE ~UNCHANGED <<block_counts, alerts, blocks>>
    <2>1. Counts(e.id, e.client_ip)
        BY <1>3, <1>4, <1>5, <1>6, <1>11, Zenon DEF Counts
    <2> QED
        BY <1>4, <1>9, <2>1, Zenon
<1> QED
    BY <1>10, <1>11, Zenon

\* Every step counts one blocked entry or counts nothing, and keeps the numbers.
LEMMA StepCounts ==
    ASSUME Inv, IdsOK, [Next]_vars
    PROVE  /\ IdsOK'
           /\ \/ Forgets
              \/ \E id \in 1..MaxEntries, c \in ClientIps : Counts(id, c)
<1>1. ASSUME NEW c \in ClientIps, NEW s \in Statuses, log_query(c, s) PROVE IdsOK' /\ Forgets
    <2>1. UNCHANGED <<blocks, alerts, seconds, block_counts>>
        BY <1>1, Zenon DEF log_query, history
    <2> QED
        BY <1>1, <2>1, LogQueryIds, IdleForgets, Zenon
<1>2. CASE Receive
    BY <1>2, ReceiveIds, Zenon
<1>3. CASE BeginRefused \/ Commit \/ FlushFails
    <2>1. FlushEnds
        BY <1>3, Zenon DEF BeginRefused, Commit, FlushFails
    <2>2. Forgets /\ UNCHANGED <<logged, channel, blocks>>
        BY <2>1, FlushForgets, Zenon DEF Forgets
    <2> QED
        BY <2>2, IdsSame, Zenon
<1>4. CASE TickerTick
    <2>1. UNCHANGED <<logged, channel, blocks, alerts>> /\ seconds' = seconds /\ block_counts' \in {block_counts, Pruned}
        BY <1>4, Zenon DEF TickerTick, history
    <2>2. \A c \in ClientIps : block_counts'[c] \in {block_counts[c], NoCount}
        BY <2>1, Zenon DEF Pruned
    <2>3. seconds \in Nat
        BY MomentType, Zenon DEF Inv
    <2>4. Forgets
        BY <2>1, <2>2, <2>3 DEF Forgets
    <2> QED
        BY <2>1, <2>4, IdsSame, Zenon
<1>5. CASE SecondPasses
    <2>1. UNCHANGED <<logged, channel, blocks, alerts, block_counts>> /\ seconds' = seconds + 1
        BY <1>5, Zenon DEF SecondPasses, history
    <2>2. seconds \in Nat
        BY MomentType DEF Inv
    <2>3. Forgets
        BY <2>1, <2>2 DEF Forgets
    <2> QED
        BY <2>1, <2>3, IdsSame, Zenon
<1>6. CASE ReceiveNone \/ Begin \/ Shutdown \/ UNCHANGED vars
    <2>1. UNCHANGED <<logged, channel, blocks, alerts, block_counts, seconds>>
        BY <1>6, Zenon DEF ReceiveNone, Begin, Shutdown, Initiate, DropHandlers, ClosePool, Exit, vars, history
    <2> QED
        BY <2>1, IdsSame, IdleForgets, Zenon
<1> QED
    BY <1>1, <1>2, <1>3, <1>4, <1>5, <1>6, Zenon DEF Next, Writer

(***************************************************************************)
(* The blocked entries of a client pay for its alerts, THRESHOLD for each, *)
(* and those counted since its last alert are left over.                   *)
(***************************************************************************)
AlertsOf(c) == {a \in alerts : a.client_ip = c}

Spare(c) ==
    IF block_counts[c] = NoCount THEN 0
    ELSE IF block_counts[c].n < THRESHOLD THEN block_counts[c].n
    ELSE block_counts[c].n - THRESHOLD

PaidOK(c) == THRESHOLD * Cardinality(AlertsOf(c)) + Spare(c) <= Cardinality(Since(c, 0))

PaidInv == Inv /\ IdsOK /\ TimesOK /\ \A c \in ClientIps : PaidOK(c)

LEMMA SpareType ==
    ASSUME TypeOK, NEW c \in ClientIps
    PROVE  Spare(c) \in Nat
BY CountType, Limits DEF Spare

LEMMA FiniteParts ==
    ASSUME TimesOK, NEW c, NEW f
    PROVE  /\ IsFiniteSet(Since(c, f)) /\ Cardinality(Since(c, f)) \in Nat
           /\ IsFiniteSet(AlertsOf(c)) /\ Cardinality(AlertsOf(c)) \in Nat
<1>1. Since(c, f) \subseteq blocks /\ AlertsOf(c) \subseteq blocks
    BY DEF Since, AlertsOf, TimesOK
<1> QED
    BY <1>1, FS_Subset, FS_CardinalityType, Zenon DEF TimesOK

\* Counting an entry adds it to its client's entries, and to no other's.
LEMMA SinceGrows ==
    ASSUME Inv, TimesOK, NEW id \in 1..MaxEntries, NEW c \in ClientIps, Counts(id, c)
    PROVE  /\ TimesOK'
           /\ \A f \in Nat : f <= seconds =>
                  Cardinality({b \in blocks' : b.client_ip = c /\ f <= b.time}) = Cardinality(Since(c, f)) + 1
           /\ \A d \in ClientIps \ {c}, f \in Nat :
                  {b \in blocks' : b.client_ip = d /\ f <= b.time} = Since(d, f)
<1> DEFINE m == [id |-> id, client_ip |-> c, time |-> seconds]
<1>1. /\ blocks' = blocks \cup {m} /\ alerts' \subseteq alerts \cup {m} /\ seconds' = seconds
      /\ m.id = id /\ m.client_ip = c /\ m.time = seconds
    BY Zenon DEF Counts
<1>2. m \notin blocks
    <2>1. \A b \in blocks : b.id < id /\ b.id \in Nat
        BY MomentType, Zenon DEF Counts, Inv
    <2> QED
        BY <1>1, <2>1
<1>3. seconds \in Nat
    BY MomentType, Zenon DEF Inv
<1> HIDE DEF m
<1>4. TimesOK'
    <2>1. IsFiniteSet(blocks')
        BY <1>1, FS_AddElement, Zenon DEF TimesOK
    <2> QED
        BY <1>1, <1>3, <2>1 DEF TimesOK
<1>5. ASSUME NEW f \in Nat, f <= seconds
      PROVE  Cardinality({b \in blocks' : b.client_ip = c /\ f <= b.time}) = Cardinality(Since(c, f)) + 1
    <2>1. {b \in blocks' : b.client_ip = c /\ f <= b.time} = Since(c, f) \cup {m}
        BY <1>1, <1>5, Zenon DEF Since
    <2>2. m \notin Since(c, f)
        BY <1>2, Zenon DEF Since
    <2>3. IsFiniteSet(Since(c, f))
        BY FiniteParts, Zenon
    <2> QED
        BY <2>1, <2>2, <2>3, FS_AddElement, Zenon
<1>6. ASSUME NEW d \in ClientIps \ {c}, NEW f \in Nat
      PROVE  {b \in blocks' : b.client_ip = d /\ f <= b.time} = Since(d, f)
    BY <1>1 DEF Since
<1> QED
    BY <1>4, <1>5, <1>6, Zenon

LEMMA CountedCases ==
    ASSUME TypeOK, NEW c \in ClientIps
    PROVE  \/ Counted(c).n = 1 /\ Counted(c).first = seconds /\ ~RaisesAlert(c)
           \/ /\ block_counts[c] # NoCount /\ seconds - block_counts[c].first <= WINDOW
              /\ Counted(c).n = block_counts[c].n + 1 /\ Counted(c).first = block_counts[c].first
              /\ RaisesAlert(c) <=> block_counts[c].n + 1 = THRESHOLD
<1>1. seconds \in Nat
    BY MomentType, Zenon
<1>2. CASE block_counts[c] = NoCount \/ Expired(c)
    <2>1. Counted(c) = [n |-> 1, first |-> seconds]
        BY <1>2, Zenon DEF Counted
    <2> QED
        BY <2>1, Limits DEF RaisesAlert
<1>3. CASE block_counts[c] # NoCount /\ ~Expired(c)
    <2>1. Counted(c) = [block_counts[c] EXCEPT !.n = @ + 1] /\ block_counts[c] \in [n : Nat, first : 0..MaxSeconds]
        BY <1>3 DEF Counted, TypeOK
    <2>2. Counted(c).n = block_counts[c].n + 1 /\ Counted(c).first = block_counts[c].first
        BY <2>1, Zenon
    <2>3. block_counts[c].first \in Nat
        BY <1>3, CountType, Zenon
    <2>4. seconds - block_counts[c].first <= WINDOW
        BY <1>1, <1>3, <2>3, Limits DEF Expired
    <2> QED
        BY <1>3, <2>2, <2>4, Zenon DEF RaisesAlert
<1> QED
    BY <1>2, <1>3, Zenon

LEMMA NewCount ==
    ASSUME TypeOK, NEW id \in 1..MaxEntries, NEW c \in ClientIps, Counts(id, c)
    PROVE  /\ block_counts'[c] = Counted(c) /\ block_counts'[c] # NoCount
           /\ \A d \in ClientIps \ {c} : block_counts'[d] = block_counts[d]
<1>1. block_counts' = [block_counts EXCEPT ![c] = Counted(c)]
    BY DEF Counts
<1>2. Counted(c) \in [n : Nat, first : Nat]
    BY CountedType, Limits
<1>3. block_counts \in [ClientIps -> [n : Nat, first : 0..MaxSeconds] \cup {NoCount}]
    BY Zenon DEF TypeOK
<1> QED
    BY <1>1, <1>2, <1>3, QueryLogAssumption, Zenon

LEMMA CountsCountOK ==
    ASSUME AlertInv, NEW id \in 1..MaxEntries, NEW c \in ClientIps, Counts(id, c), NEW d \in ClientIps
    PROVE  CountOK(d)'
<1>0. TypeOK /\ Inv /\ TimesOK /\ CountOK(d) /\ seconds \in Nat /\ seconds' = seconds
    BY MomentType, Zenon DEF AlertInv, Inv, Counts
<1>1. CASE d # c
    <2>1. block_counts'[d] = block_counts[d]
        BY <1>0, <1>1, NewCount, Zenon
    <2>2. block_counts[d] # NoCount => block_counts[d].first \in Nat
        BY <1>0, CountType, Zenon
    <2>3. block_counts[d] # NoCount => Since(d, block_counts[d].first)' = Since(d, block_counts[d].first)
        BY <1>0, <1>1, <2>1, <2>2, SinceGrows DEF Since
    <2> QED
        BY <1>0, <2>1, <2>3, Zenon DEF CountOK
<1>2. CASE d = c
    <2>1. block_counts'[c] = Counted(c)
        BY <1>0, NewCount
    <2> DEFINE f == Counted(c).first
               now == {b \in blocks' : b.client_ip = c /\ f <= b.time}
    <2>2. Since(c, block_counts[c].first)' = now
        BY <2>1, Zenon DEF Since
    <2>3. f \in Nat /\ f <= seconds
        BY <1>0, <1>2, CountedCases, CountType DEF CountOK
    <2>4. Cardinality(now) = Cardinality(Since(c, f)) + 1 /\ Cardinality(Since(c, f)) \in Nat
        BY <1>0, <2>3, SinceGrows, FiniteParts, Zenon
    <2>5. Counted(c).n <= Cardinality(Since(c, f)) + 1
        BY <1>0, <1>2, <2>4, CountedCases, CountType DEF CountOK
    <2> QED
        BY <1>0, <1>2, <2>1, <2>2, <2>3, <2>4, <2>5, Zenon DEF CountOK
<1> QED
    BY <1>1, <1>2, Zenon

LEMMA CountsAlertOK ==
    ASSUME AlertInv, NEW id \in 1..MaxEntries, NEW c \in ClientIps, Counts(id, c), NEW a \in alerts'
    PROVE  Cardinality(Reasons(a)') >= THRESHOLD
<1> DEFINE m == [id |-> id, client_ip |-> c, time |-> seconds]
<1>0. /\ TypeOK /\ Inv /\ TimesOK /\ CountOK(c) /\ TimesOK' /\ seconds \in Nat
      /\ \A b \in blocks : b.id \in Nat /\ b.time \in Nat
    BY MomentType, SinceGrows, Zenon DEF AlertInv, Inv
<1>1. /\ blocks' = blocks \cup {m} /\ m.id = id /\ m.client_ip = c /\ m.time = seconds
      /\ alerts' = alerts \cup (IF RaisesAlert(c) THEN {m} ELSE {}) /\ seconds' = seconds
      /\ \A b \in blocks : b.id < id
    BY Zenon DEF Counts
<1> HIDE DEF m
<1>2. \A b \in blocks' : b.id <= id /\ b.time \in Nat /\ b.time <= seconds
    BY <1>0, <1>1 DEF TimesOK
<1>3. seconds \in Nat
    BY <1>0, Zenon
<1>4. IsFiniteSet(Reasons(a)') /\ Cardinality(Reasons(a)') \in Nat
    <2>1. Reasons(a)' \subseteq blocks'
        BY Zenon DEF Reasons, BlocksOf
    <2> QED
        BY <1>0, <2>1, FS_Subset, FS_CardinalityType, Zenon DEF TimesOK
<1>5. CASE a \in alerts
    <2>1. Reasons(a) \subseteq Reasons(a)'
        BY <1>1, Zenon DEF Reasons, BlocksOf
    <2>2. Cardinality(Reasons(a)) <= Cardinality(Reasons(a)') /\ Cardinality(Reasons(a)) \in Nat
        BY <1>4, <2>1, FS_Subset, FS_CardinalityType, Zenon
    <2>3. Cardinality(Reasons(a)) >= THRESHOLD
        BY <1>5, Zenon DEF AlertInv
    <2> QED
        BY <1>4, <2>2, <2>3, Limits
<1>6. CASE a \notin alerts
    <2>1. RaisesAlert(c) /\ a = m
        BY <1>1, <1>6, Zenon
    <2> DEFINE f == block_counts[c].first
               now == {b \in blocks' : b.client_ip = c /\ f <= b.time}
    <2>2. /\ block_counts[c] # NoCount /\ seconds - f <= WINDOW
          /\ block_counts[c].n + 1 = THRESHOLD
        BY <1>0, <2>1, CountedCases, Zenon
    <2>3. f \in Nat /\ f <= seconds /\ block_counts[c].n \in Nat
        BY <1>0, <2>2, CountType, Zenon DEF CountOK
    <2>4. Cardinality(now) = Cardinality(Since(c, f)) + 1 /\ Cardinality(Since(c, f)) \in Nat
        BY <1>0, <2>3, SinceGrows, FiniteParts, Zenon
    <2>5. block_counts[c].n <= Cardinality(Since(c, f))
        BY <1>0, <2>2 DEF CountOK
    <2>6. now \subseteq Reasons(a)'
        <3> SUFFICES ASSUME NEW b \in blocks', b.client_ip = c, f <= b.time
                     PROVE  b \in Reasons(a)'
            BY ZenonT(30)
        <3> HIDE DEF f, now
        <3>1. b.id <= id /\ b.time \in Nat /\ b.time <= seconds
            BY <1>2, Zenon
        <3>2. seconds - b.time <= WINDOW
            BY <1>3, <2>2, <2>3, <3>1, Limits
        <3>3. 0 <= b.time
            BY <3>1
        <3> QED
            BY <1>1, <2>1, <3>1, <3>2, <3>3, Zenon DEF Reasons, BlocksOf
    <2>7. Cardinality(now) <= Cardinality(Reasons(a)')
        BY <1>4, <2>6, FS_Subset, Zenon
    <2> HIDE DEF f, now
    <2> QED
        BY <1>4, <2>2, <2>3, <2>4, <2>5, <2>7, Limits
<1> QED
    BY <1>5, <1>6, Zenon

LEMMA ForgetsAlert ==
    ASSUME AlertInv, Forgets, Inv', IdsOK'
    PROVE  AlertInv'
<1>0. Inv /\ TypeOK /\ TimesOK /\ seconds \in Nat
    BY MomentType, Zenon DEF AlertInv, Inv
<1>1. blocks' = blocks /\ alerts' = alerts /\ seconds' \in Nat /\ seconds <= seconds'
    BY Zenon DEF Forgets
<1>2. TimesOK'
    BY <1>0, <1>1, MomentType DEF TimesOK
<1>3. ASSUME NEW c \in ClientIps PROVE CountOK(c)'
    <2>1. CASE block_counts'[c] = NoCount
        BY <2>1, Zenon DEF CountOK
    <2>2. CASE block_counts'[c] = block_counts[c] /\ block_counts[c] # NoCount
        <3>1. block_counts[c].first \in Nat /\ block_counts[c].first <= seconds
            BY <1>0, <2>2, CountType, ZenonT(30) DEF AlertInv, CountOK
        <3>2. block_counts[c].n <= Cardinality(Since(c, block_counts[c].first))
            BY <2>2, Zenon DEF AlertInv, CountOK
        <3>3. Since(c, block_counts[c].first)' = Since(c, block_counts[c].first)
            BY <1>1, <2>2, Zenon DEF Since
        <3>4. block_counts'[c].first <= seconds'
            BY <1>0, <1>1, <2>2, <3>1
        <3> QED
            BY <2>2, <3>2, <3>3, <3>4, Zenon DEF CountOK
    <2> QED
        BY <2>1, <2>2 DEF Forgets
<1>4. \A a \in alerts : Reasons(a)' = Reasons(a)
    BY <1>1 DEF Reasons, BlocksOf
<1> QED
    BY <1>1, <1>2, <1>3, <1>4, Zenon DEF AlertInv

LEMMA NextAlert == AlertInv /\ [Next]_vars => AlertInv'
<1> SUFFICES ASSUME AlertInv, [Next]_vars PROVE AlertInv'
    OBVIOUS
<1>0. Inv /\ IdsOK /\ TimesOK
    BY DEF AlertInv
<1>1. Inv' /\ IdsOK'
    BY <1>0, NextInv, StepCounts, Zenon
<1>2. CASE Forgets
    BY <1>1, <1>2, ForgetsAlert, Zenon
<1>3. ASSUME NEW id \in 1..MaxEntries, NEW c \in ClientIps, Counts(id, c) PROVE AlertInv'
    <2>1. TimesOK'
        BY <1>0, <1>3, SinceGrows, Zenon
    <2>2. \A d \in ClientIps : CountOK(d)'
        BY <1>3, CountsCountOK, Zenon
    <2>3. \A a \in alerts' : Cardinality(Reasons(a)') >= THRESHOLD
        BY <1>3, CountsAlertOK, Zenon
    <2> QED
        BY <1>1, <2>1, <2>2, <2>3, Zenon DEF AlertInv
<1> QED
    BY <1>0, <1>2, <1>3, StepCounts, Zenon

LEMMA InitCounts == Init => IdsOK /\ TimesOK
<1> SUFFICES ASSUME Init PROVE IdsOK /\ TimesOK
    OBVIOUS
<1>1. channel = <<>> /\ blocks = {} /\ alerts = {}
    BY DEF Init
<1>2. IsFiniteSet(blocks)
    BY <1>1, FS_EmptySet, Zenon
<1>3. Len(channel) = 0
    BY <1>1, EmptySeq
<1> QED
    BY <1>1, <1>2, <1>3 DEF IdsOK, TimesOK

\* An alert of the writer is always justified: whatever the interleaving of queries,
\* flushes, prunes and time, THRESHOLD blocked entries of the client lie in the
\* WINDOW seconds before it (the block_counts of query_log_writer::run).
THEOREM AlertsCorrect == Spec => []AlertJustified
<1>1. Init => AlertInv
    <2> SUFFICES ASSUME Init PROVE AlertInv
        OBVIOUS
    <2>1. \A c \in ClientIps : block_counts[c] = NoCount
        BY DEF Init
    <2>2. alerts = {}
        BY Zenon DEF Init
    <2> QED
        BY <2>1, <2>2, InitInv, InitCounts, Zenon DEF AlertInv, CountOK
<1>2. AlertInv => AlertJustified
    BY DEF AlertInv, AlertJustified, Reasons
<1> QED
    BY <1>1, <1>2, NextAlert, PTL DEF Spec

LEMMA ForgetsPaid ==
    ASSUME Inv, TimesOK, Forgets, NEW c \in ClientIps, PaidOK(c)
    PROVE  PaidOK(c)'
<1>0. TypeOK
    BY DEF Inv
<1>1. AlertsOf(c)' = AlertsOf(c) /\ Since(c, 0)' = Since(c, 0)
    BY Zenon DEF Forgets, AlertsOf, Since
<1>2. Spare(c)' \in {Spare(c), 0}
    BY Zenon DEF Forgets, Spare
<1>3. CASE Spare(c)' = Spare(c)
    BY <1>1, <1>3 DEF PaidOK
<1>4. CASE Spare(c)' = 0
    <2>1. Spare(c) \in Nat /\ Cardinality(AlertsOf(c)) \in Nat /\ Cardinality(Since(c, 0)) \in Nat
        BY <1>0, SpareType, FiniteParts, Zenon
    <2>2. THRESHOLD * Cardinality(AlertsOf(c)) \in Nat
        BY <2>1, Limits
    <2>3. THRESHOLD * Cardinality(AlertsOf(c)) + Spare(c) <= Cardinality(Since(c, 0))
        BY Zenon DEF PaidOK
    <2>4. THRESHOLD * Cardinality(AlertsOf(c)) + 0 <= Cardinality(Since(c, 0))
        BY <2>1, <2>2, <2>3
    <2> QED
        BY <1>1, <1>4, <2>4, Zenon DEF PaidOK
<1> QED
    BY <1>2, <1>3, <1>4, Zenon

LEMMA CountsPaid ==
    ASSUME Inv, TimesOK, NEW id \in 1..MaxEntries, NEW c \in ClientIps, Counts(id, c),
           NEW d \in ClientIps, PaidOK(d)
    PROVE  PaidOK(d)'
<1> DEFINE m == [id |-> id, client_ip |-> c, time |-> seconds]
<1>0. TypeOK /\ seconds \in Nat
    BY MomentType, Zenon DEF Inv
<1>1. /\ alerts' = alerts \cup (IF RaisesAlert(c) THEN {m} ELSE {})
      /\ m.id = id /\ m.client_ip = c /\ \A b \in blocks : b.id < id /\ b.id \in Nat
    BY <1>0, MomentType, Zenon DEF Counts
<1>2. m \notin alerts
    BY <1>1 DEF TimesOK
<1> HIDE DEF m
<1> DEFINE p == THRESHOLD * Cardinality(AlertsOf(d))
           s == Cardinality(Since(d, 0))
<1>3. /\ Cardinality(AlertsOf(d)) \in Nat /\ IsFiniteSet(AlertsOf(d))
      /\ s \in Nat /\ Spare(d) \in Nat /\ p \in Nat /\ p + Spare(d) <= s
    <2>1. Cardinality(AlertsOf(d)) \in Nat /\ IsFiniteSet(AlertsOf(d)) /\ s \in Nat /\ Spare(d) \in Nat
        BY <1>0, SpareType, FiniteParts, Zenon
    <2>2. p \in Nat
        BY <2>1, Limits
    <2>3. p + Spare(d) <= s
        BY Zenon DEF PaidOK
    <2> QED
        BY <2>1, <2>2, <2>3, Zenon
<1>4. CASE d # c
    <2>1. AlertsOf(d)' = AlertsOf(d)
        BY <1>1, <1>4, Zenon DEF AlertsOf
    <2>2. Since(d, 0)' = Since(d, 0)
        BY <1>4, SinceGrows DEF Since
    <2>3. Spare(d)' = Spare(d)
        BY <1>0, <1>4, NewCount, Zenon DEF Spare
    <2> QED
        BY <2>1, <2>2, <2>3, Zenon DEF PaidOK
<1>5. CASE d = c
    <2> DEFINE n == block_counts'[c].n
    <2>1. Cardinality(Since(d, 0)') = s + 1
        BY <1>0, <1>5, SinceGrows DEF Since
    <2>2. block_counts'[c] = Counted(c) /\ block_counts'[c] # NoCount
        BY <1>0, NewCount, Zenon
    <2>3. Spare(d)' = IF n < THRESHOLD THEN n ELSE n - THRESHOLD
        BY <1>5, <2>2, Zenon DEF Spare
    <2>4. CASE ~RaisesAlert(c)
        <3>1. AlertsOf(d)' = AlertsOf(d)
            BY <1>1, <2>4, Zenon DEF AlertsOf
        <3>2. Spare(d)' \in Nat /\ Spare(d)' <= Spare(d) + 1
            <4>1. CASE n = 1
                <5> HIDE DEF n, p, s
                <5> QED
                    BY <1>3, <2>3, <4>1, Limits
            <4>2. CASE block_counts[c] # NoCount /\ n = block_counts[c].n + 1 /\ n # THRESHOLD
                <5>1. block_counts[c].n \in Nat
                    BY <1>0, <4>2, CountType, Zenon
                <5>2. Spare(d) = IF block_counts[c].n < THRESHOLD THEN block_counts[c].n ELSE block_counts[c].n - THRESHOLD
                    BY <1>5, <4>2, Zenon DEF Spare
                <5> HIDE DEF n
                <5> QED
                    BY <2>3, <4>2, <5>1, <5>2, Limits
            <4> QED
                BY <1>0, <2>2, <2>4, <4>1, <4>2, CountedCases, Zenon
        <3>3. p + Spare(d)' <= s + 1
            <4> HIDE DEF p, s
            <4> QED
                BY <1>3, <3>2
        <3> QED
            BY <2>1, <3>1, <3>3, Zenon DEF PaidOK
    <2>5. CASE RaisesAlert(c)
        <3>1. AlertsOf(d)' = AlertsOf(d) \cup {m} /\ m \notin AlertsOf(d)
            BY <1>1, <1>2, <1>5, <2>5, Zenon DEF AlertsOf
        <3>2. Cardinality(AlertsOf(d)') = Cardinality(AlertsOf(d)) + 1
            BY <1>3, <3>1, FS_AddElement, Zenon
        <3>3. THRESHOLD * Cardinality(AlertsOf(d)') = p + THRESHOLD
            BY <1>3, <3>2, Limits
        <3>4. block_counts[c] # NoCount /\ n = THRESHOLD /\ block_counts[c].n + 1 = THRESHOLD
            BY <1>0, <2>2, <2>5, CountedCases, Zenon
        <3>5. Spare(d)' = 0
            BY <2>3, <3>4, Limits
        <3>6. block_counts[c].n \in Nat
            BY <1>0, <3>4, CountType, Zenon
        <3>7. Spare(d) = THRESHOLD - 1
            <4>1. block_counts[c].n < THRESHOLD /\ block_counts[c].n = THRESHOLD - 1
                BY <3>4, <3>6, Limits
            <4> QED
                BY <1>5, <3>4, <4>1, Zenon DEF Spare
        <3>8. p + THRESHOLD + 0 <= s + 1
            <4> HIDE DEF p, s
            <4> QED
                BY <1>3, <3>7, Limits
        <3> QED
            BY <2>1, <3>3, <3>5, <3>8, Zenon DEF PaidOK
    <2> QED
        BY <2>4, <2>5, Zenon
<1> QED
    BY <1>4, <1>5, Zenon

LEMMA NextPaid == PaidInv /\ [Next]_vars => PaidInv'
<1> SUFFICES ASSUME PaidInv, [Next]_vars PROVE PaidInv'
    OBVIOUS
<1>0. Inv /\ IdsOK /\ TimesOK
    BY DEF PaidInv
<1>1. Inv' /\ IdsOK'
    BY <1>0, NextInv, StepCounts, Zenon
<1>2. CASE Forgets
    <2>1. TimesOK'
        <3>1. seconds \in Nat /\ \A b \in blocks : b.time \in Nat
            BY <1>0, MomentType, Zenon DEF Inv
        <3> QED
            BY <1>0, <1>2, <3>1 DEF Forgets, TimesOK
    <2> QED
        BY <1>0, <1>1, <1>2, <2>1, ForgetsPaid, Zenon DEF PaidInv
<1>3. ASSUME NEW id \in 1..MaxEntries, NEW c \in ClientIps, Counts(id, c) PROVE PaidInv'
    <2>1. TimesOK'
        BY <1>0, <1>3, SinceGrows, Zenon
    <2>2. \A d \in ClientIps : PaidOK(d)'
        BY <1>0, <1>3, CountsPaid, Zenon DEF PaidInv
    <2> QED
        BY <1>1, <2>1, <2>2, Zenon DEF PaidInv
<1> QED
    BY <1>0, <1>2, <1>3, StepCounts, Zenon

\* A blocked entry is used for one alert at most: a client's alerts, THRESHOLD
\* entries each, never outnumber its blocked entries, across resets and prunes.
THEOREM PaidCorrect == Spec => []AlertsPaidFor
<1>1. Init => PaidInv
    <2> SUFFICES ASSUME Init PROVE PaidInv
        OBVIOUS
    <2>1. ASSUME NEW c \in ClientIps PROVE PaidOK(c)
        <3>1. block_counts[c] = NoCount /\ AlertsOf(c) = {} /\ Since(c, 0) = {}
            BY Zenon DEF Init, AlertsOf, Since
        <3>2. Spare(c) = 0 /\ Cardinality(AlertsOf(c)) = 0 /\ Cardinality(Since(c, 0)) = 0
            BY <3>1, FS_EmptySet, Zenon DEF Spare
        <3> QED
            BY <3>2, Limits DEF PaidOK
    <2> QED
        BY <2>1, InitInv, InitCounts, Zenon DEF PaidInv
<1>2. PaidInv => AlertsPaidFor
    <2> SUFFICES ASSUME PaidInv, NEW c \in ClientIps
                 PROVE  THRESHOLD * Cardinality({a \in alerts : a.client_ip = c}) <= Cardinality(BlocksOf(c, 0, seconds))
        BY DEF AlertsPaidFor
    <2>0. TypeOK /\ TimesOK /\ PaidOK(c)
        BY DEF PaidInv, Inv
    <2>1. BlocksOf(c, 0, seconds) = Since(c, 0)
        BY <2>0, MomentType, Zenon DEF BlocksOf, Since, TimesOK
    <2>2. Spare(c) \in Nat /\ Cardinality(AlertsOf(c)) \in Nat /\ Cardinality(Since(c, 0)) \in Nat
        BY <2>0, SpareType, FiniteParts, Zenon
    <2>3. THRESHOLD * Cardinality(AlertsOf(c)) \in Nat
        BY <2>2, Limits
    <2>4. THRESHOLD * Cardinality(AlertsOf(c)) <= Cardinality(Since(c, 0))
        BY <2>0, <2>2, <2>3 DEF PaidOK
    <2> QED
        BY <2>1, <2>4, Zenon DEF AlertsOf
<1> QED
    BY <1>1, <1>2, NextPaid, PTL DEF Spec
=============================================================================

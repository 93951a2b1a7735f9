----------------------------- MODULE DnsHandler -----------------------------
(***************************************************************************)
(* How a DNS query is answered: DnsHandler::handle_internal with the ACL,  *)
(* the client configuration, the two halves of the filter engine, the      *)
(* answer cache and the upstream pool it consults.  Queries run as         *)
(* concurrent tasks; every await is a step, and so is every load of an     *)
(* ArcSwap, since other threads may store between two of them.             *)
(*                                                                         *)
(* The filter engine's tables appear here as what a swap may install (how  *)
(* it gets there is FilterEngine's matter), and the pool as the nodes a    *)
(* query tries.  Answers keep what the properties tell apart: whose        *)
(* request they carry, the response code, where they came from.            *)
(***************************************************************************)
EXTENDS Integers, Sequences, FiniteSets

CONSTANTS
    Queries,    \* query ids; each is asked at most once
    Clients,    \* client addresses
    Domains,
    Types,      \* query types, of those below
    Nodes,      \* the pool, a sequence of upstreams in the order of a try
    Ttls,       \* smallest TTL of the records in an upstream answer
    TTL_MIN_SECS, TTL_MAX_SECS, TTL_DEFAULT_SECS,
    None,       \* no entry, no response, no TTL
    MaxChanges, \* bound on the changes of the tables the handler reads
    MaxClock    \* bound on time

\* The type "none" stands for a message that is no plain query or asks nothing.
ASSUME HandlerAssumption ==
    /\ Types \subseteq {"A", "AAAA", "TXT", "none"}
    /\ Nodes \in Seq(STRING) /\ Nodes # <<>>
    /\ Ttls \subseteq Nat
    /\ TTL_MIN_SECS \in Nat /\ TTL_MAX_SECS \in Nat /\ TTL_DEFAULT_SECS \in Nat
    /\ TTL_MIN_SECS <= TTL_DEFAULT_SECS /\ TTL_DEFAULT_SECS <= TTL_MAX_SECS
    /\ MaxChanges \in Nat /\ MaxClock \in Nat

\* What a rewrite answers with: an address of either family, or a name, as the
\* Safe Search rewrites do.
Rewrites == {"none", "ipv4", "ipv6", "name"}

VARIABLES
    allowed,         \* clients the ACL lets in
    filter_enabled,  \* the column of the table clients, per client
    blocked,         \* domains the current RuleSet blocks
    rewrites,        \* the current rewrite of each domain
    up,              \* upstream nodes that answer
    cache,           \* per domain and type: an entry or None
    asked,           \* per query: client, domain and type, or None
    pc,              \* per query: where its task is
    nodes_to_try,    \* per query: upstreams it has not tried yet
    response,        \* per query: the response it holds, or None
    clock, changes,
    \* History, read by no action of the program:
    steady           \* queries for which no table has changed since they began

tables == <<allowed, filter_enabled, blocked, rewrites, up>>
tasks == <<asked, pc, nodes_to_try, response>>
handler_vars == <<tables, cache, tasks, clock, changes, steady>>

Question == [client : Clients, domain : Domains, type : Types]
Response == [id : Queries, about : Domains \X Types,
             rcode : {"NOERROR", "NXDOMAIN", "SERVFAIL", "REFUSED"},
             from : {"acl", "request", "rewrite", "filter", "upstream"},
             ttl : Ttls \cup {None}, stored_at : 0..MaxClock]
Entry == [data : Response, expires_at : 0..(MaxClock + TTL_MAX_SECS)]

\* The types of the tables, the cache and the state of every query; an entry
\* lives at most the ceiling of the clamp.
HandlerTypeOK ==
    /\ allowed \subseteq Clients
    /\ filter_enabled \in [Clients -> BOOLEAN]
    /\ blocked \subseteq Domains
    /\ rewrites \in [Domains -> Rewrites]
    /\ up \subseteq {Nodes[i] : i \in DOMAIN Nodes}
    /\ cache \in [Domains \X Types -> Entry \cup {None}]
    /\ \A k \in DOMAIN cache :
          cache[k] # None => cache[k].expires_at <= cache[k].data.stored_at + TTL_MAX_SECS
    /\ asked \in [Queries -> Question \cup {None}]
    /\ pc \in [Queries -> {"idle", "acl", "rewrite", "filter", "cache", "resolve", "store",
                           "answered", "failed"}]
    /\ response \in [Queries -> Response \cup {None}]
    /\ clock \in 0..MaxClock /\ changes \in 0..MaxChanges
    /\ steady \subseteq Queries

HandlerInit ==
    /\ allowed \in {Clients, {}}
    /\ filter_enabled \in [Clients -> BOOLEAN]
    /\ blocked \in SUBSET Domains
    /\ rewrites \in [Domains -> Rewrites]
    /\ up = {Nodes[i] : i \in DOMAIN Nodes}
    /\ cache = [k \in Domains \X Types |-> None]
    /\ asked = [q \in Queries |-> None]
    /\ pc = [q \in Queries |-> "idle"]
    /\ nodes_to_try = [q \in Queries |-> <<>>]
    /\ response = [q \in Queries |-> None]
    /\ clock = 0 /\ changes = 0
    /\ steady = {}

-----------------------------------------------------------------------------
(* The answer cache (dns/cache.rs over moka) *)

\* Mutant of Key: the type is no part of the key.
Key_DomainOnly(q) == <<asked[q].domain, CHOOSE t \in Types : TRUE>>

Key(q) == <<asked[q].domain, asked[q].type>>

\* Mutant of Live: an entry is served in the second it expires.
Live_Late(entry) == entry # None /\ clock <= entry.expires_at

Live(entry) == entry # None /\ clock < entry.expires_at

Clamp(t) == IF t < TTL_MIN_SECS THEN TTL_MIN_SECS
            ELSE IF t > TTL_MAX_SECS THEN TTL_MAX_SECS ELSE t

TtlSecs(min_ttl) == Clamp(IF min_ttl = None THEN TTL_DEFAULT_SECS ELSE min_ttl)

\* DnsCacheExpiry defines expire_after_create only: the value that replaces a
\* live entry inherits the time that entry had left.
ExpiresAt(key, min_ttl) ==
    IF Live(cache[key]) THEN cache[key].expires_at ELSE clock + TtlSecs(min_ttl)

Inserted(key, r) ==
    [cache EXCEPT ![key] = [data |-> [r EXCEPT !.stored_at = clock],
                            expires_at |-> ExpiresAt(key, r.ttl)]]

-----------------------------------------------------------------------------
(* handle_internal *)

Answered(q, r) ==
    /\ response' = [response EXCEPT ![q] = r]
    /\ pc' = [pc EXCEPT ![q] = "answered"]
    /\ UNCHANGED <<tables, asked, nodes_to_try, clock, changes, steady>>

Continue(q, step) ==
    /\ pc' = [pc EXCEPT ![q] = step]
    /\ UNCHANGED <<tables, cache, asked, nodes_to_try, response, clock, changes, steady>>

Reply(q, rcode, from) ==
    [id |-> q, about |-> <<asked[q].domain, asked[q].type>>, rcode |-> rcode, from |-> from, ttl |-> None,
     stored_at |-> 0]

\* A message that parses arrives.
Ask(q, question) ==
    /\ pc[q] = "idle"
    /\ asked' = [asked EXCEPT ![q] = question]
    /\ pc' = [pc EXCEPT ![q] = "acl"]
    /\ steady' = steady \cup {q}
    /\ UNCHANGED <<tables, cache, nodes_to_try, response, clock, changes>>

CheckAcl(q) ==
    /\ pc[q] = "acl"
    /\ IF asked[q].client \notin allowed
       THEN Answered(q, Reply(q, "REFUSED", "acl")) /\ UNCHANGED cache
       ELSE IF asked[q].type = "none"
       THEN Answered(q, Reply(q, "SERVFAIL", "request")) /\ UNCHANGED cache
       ELSE Continue(q, "rewrite")

\* resolve_client_config decodes filter_enabled, a BOOLEAN since migration 028,
\* as an i32: any row of clients makes the query fail, and a failed query, like
\* a client without a row, gets ClientConfig::default().
get_client_config(c) == [filter_enabled |-> TRUE]

\* rewrite_response accepts an address of the family that was asked for; with
\* anything else the query goes on as if there were no rewrite.
Rewritten(domain, type) ==
    \/ rewrites[domain] = "ipv4" /\ type = "A"
    \/ rewrites[domain] = "ipv6" /\ type = "AAAA"

CheckRewrite(q) ==
    /\ pc[q] = "rewrite"
    /\ IF Rewritten(asked[q].domain, asked[q].type)
       THEN Answered(q, Reply(q, "NOERROR", "rewrite")) /\ UNCHANGED cache
       ELSE Continue(q, "filter")

\* Mutant of CheckFilter: a cached answer is served before the rules are asked.
CheckFilter_CacheFirst(q) ==
    /\ pc[q] = "filter"
    /\ IF asked[q].domain \in blocked /\ ~Live(cache[Key(q)])
       THEN Answered(q, Reply(q, "NXDOMAIN", "filter")) /\ UNCHANGED cache
       ELSE Continue(q, "cache")

CheckFilter(q) ==
    /\ pc[q] = "filter"
    /\ IF get_client_config(asked[q].client).filter_enabled /\ asked[q].domain \in blocked
       THEN Answered(q, Reply(q, "NXDOMAIN", "filter")) /\ UNCHANGED cache
       ELSE Continue(q, "cache")

\* A hit is the stored message with the id of this request patched in.
PatchId(r, q) == [r EXCEPT !.id = q]

CheckCache(q) ==
    /\ pc[q] = "cache"
    /\ IF Live(cache[Key(q)])
       THEN Answered(q, PatchId(cache[Key(q)].data, q)) /\ UNCHANGED cache
       ELSE /\ pc' = [pc EXCEPT ![q] = "resolve"]
            /\ nodes_to_try' = [nodes_to_try EXCEPT ![q] = Nodes]
            /\ UNCHANGED <<tables, cache, asked, response, clock, changes, steady>>

\* UpstreamPool::resolve stops at the first node whose resolver returns Ok, and
\* DnsResolver::resolve returns Ok for a failed lookup too: the answer is then
\* SERVFAIL.  Names without records keep their response code.
Lookups(n) ==
    IF n \in up
    THEN {[rcode |-> "NOERROR", ttl |-> t] : t \in Ttls} \cup {[rcode |-> "NXDOMAIN", ttl |-> None]}
    ELSE {[rcode |-> "SERVFAIL", ttl |-> None]}

Resolve(q) ==
    /\ pc[q] = "resolve" /\ nodes_to_try[q] # <<>>
    /\ \E l \in Lookups(Head(nodes_to_try[q])) :
           response' = [response EXCEPT ![q] =
               [Reply(q, l.rcode, "upstream") EXCEPT !.ttl = l.ttl]]
    /\ pc' = [pc EXCEPT ![q] = "store"]
    /\ UNCHANGED <<tables, cache, asked, nodes_to_try, clock, changes, steady>>

\* The only error of DnsResolver::resolve, a message that cannot be encoded,
\* sends the query to the next node; after the last one handle fails.
EncodeFails(q) ==
    /\ pc[q] = "resolve" /\ nodes_to_try[q] # <<>>
    /\ nodes_to_try' = [nodes_to_try EXCEPT ![q] = Tail(@)]
    /\ pc' = [pc EXCEPT ![q] = IF Len(nodes_to_try[q]) = 1 THEN "failed" ELSE "resolve"]
    /\ UNCHANGED <<tables, cache, asked, response, clock, changes, steady>>

\* Every answer is cached, whatever its response code.
Store(q) ==
    /\ pc[q] = "store"
    /\ cache' = Inserted(Key(q), response[q])
    /\ pc' = [pc EXCEPT ![q] = "answered"]
    /\ UNCHANGED <<tables, asked, nodes_to_try, response, clock, changes, steady>>

-----------------------------------------------------------------------------
(* What changes under the queries *)

\* A change of a table ends the steadiness of the queries it concerns.
Change(concerned) ==
    /\ changes < MaxChanges
    /\ changes' = changes + 1
    /\ steady' = {q \in steady : asked[q] \notin concerned}
    /\ UNCHANGED <<cache, tasks, clock>>

About(c, d) == {k \in Question : k.client = c \/ k.domain = d}

\* reload_acl installs a new ACL.
reload_acl(c) ==
    /\ allowed' = IF c \in allowed THEN allowed \ {c} ELSE allowed \cup {c}
    /\ Change(About(c, None))
    /\ UNCHANGED <<filter_enabled, blocked, rewrites, up>>

\* FilterEngine::reload stores new rules, and in a second step new rewrites.
StoreRules(d) ==
    /\ blocked' = IF d \in blocked THEN blocked \ {d} ELSE blocked \cup {d}
    /\ Change(About(None, d))
    /\ UNCHANGED <<allowed, filter_enabled, rewrites, up>>

StoreRewrites(d, w) ==
    /\ rewrites[d] # w
    /\ rewrites' = [rewrites EXCEPT ![d] = w]
    /\ Change(About(None, d))
    /\ UNCHANGED <<allowed, filter_enabled, blocked, up>>

\* clients::create, update and delete.
UpdateClient(c) ==
    /\ filter_enabled' = [filter_enabled EXCEPT ![c] = ~@]
    /\ Change(About(c, None))
    /\ UNCHANGED <<allowed, blocked, rewrites, up>>

\* An upstream stops or starts to answer.
UpstreamChanges(n) ==
    /\ up' = IF n \in up THEN up \ {n} ELSE up \cup {n}
    /\ Change({})
    /\ UNCHANGED <<allowed, filter_enabled, blocked, rewrites>>

\* POST /cache/flush
cache_flush ==
    /\ cache' = [k \in Domains \X Types |-> None]
    /\ changes < MaxChanges /\ changes' = changes + 1
    /\ UNCHANGED <<tables, tasks, clock, steady>>

Tick ==
    /\ clock < MaxClock
    /\ clock' = clock + 1
    /\ UNCHANGED <<tables, cache, tasks, changes, steady>>

-----------------------------------------------------------------------------
Step(q) ==
    \/ CheckAcl(q) \/ CheckRewrite(q) \/ CheckFilter(q) \/ CheckCache(q)
    \/ Resolve(q) \/ EncodeFails(q) \/ Store(q)

HandlerNext ==
    \/ \E q \in Queries :
           \/ \E question \in Question : Ask(q, question)
           \/ Step(q)
    \/ \E c \in Clients : reload_acl(c) \/ UpdateClient(c)
    \/ \E d \in Domains : StoreRules(d) \/ \E w \in Rewrites : StoreRewrites(d, w)
    \/ \E n \in {Nodes[i] : i \in DOMAIN Nodes} : UpstreamChanges(n)
    \/ cache_flush
    \/ Tick

HandlerSpec == HandlerInit /\ [][HandlerNext]_handler_vars

-----------------------------------------------------------------------------
(* Properties *)

\* The part of the handler that has to answer the question as the tables are.
Responsible(k) ==
    CASE k.client \notin allowed -> "acl"
      [] k.client \in allowed /\ k.type = "none" -> "request"
      [] k.client \in allowed /\ Rewritten(k.domain, k.type) -> "rewrite"
      [] OTHER -> IF k.domain \in blocked THEN "filter" ELSE "upstream"

\* handle_internal: when the tables that concern a query do not change while it
\* runs, the ACL goes before rewrites, rewrites before rules and rules before
\* the cache - also for a domain whose answer was cached before it was blocked
\* or rewritten.
PolicyHolds ==
    \A q \in steady :
        pc[q] = "answered" => response[q].from = Responsible(asked[q])

\* However queries share the cache, each gets an answer to its own question that
\* carries its own id.
OwnAnswer ==
    \A q \in Queries :
        pc[q] = "answered" => 
            response[q].id = q /\ response[q].about = <<asked[q].domain, asked[q].type>>

\* set_with_ttl's ceiling: nothing is served TTL_MAX_SECS after it was stored,
\* also when the entry has replaced others.
AgeBounded ==
    \A k \in DOMAIN cache :
        Live(cache[k]) => clock - cache[k].data.stored_at < TTL_MAX_SECS

\* "Per-entry expiry policy: each entry expires after its own TTL".
OwnTtl ==
    \A k \in DOMAIN cache :
        Live(cache[k]) =>
            clock - cache[k].data.stored_at < TtlSecs(cache[k].data.ttl)

\* "On failure, falls back to remaining nodes in priority order": a query is not
\* answered SERVFAIL while a node it has not tried would answer.
FallsBack ==
    [][\A q \in Queries :
          (pc[q] = "resolve" /\ pc'[q] = "store" /\ response'[q].rcode = "SERVFAIL")
          => \A i \in DOMAIN nodes_to_try[q] : nodes_to_try[q][i] \notin up]_handler_vars

\* "Safe Search redirect rules (RFC 8484 DNS-level enforcement)": a search engine
\* with a Safe Search rewrite is not answered with its own addresses.
SafeSearchEnforced ==
    \A q \in steady :
        (pc[q] = "answered" /\ asked[q].client \in allowed
         /\ rewrites[asked[q].domain] = "name" /\ asked[q].type \in {"A", "AAAA"})
        => response[q].from = "rewrite"

\* "Whether DNS filtering is enabled for this client": no query of a client whose
\* row disables filtering is blocked.
ClientFilterHonoured ==
    \A q \in steady :
        (pc[q] = "answered" /\ ~filter_enabled[asked[q].client])
        => response[q].from # "filter"
=============================================================================

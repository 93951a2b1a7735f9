---------------------------- MODULE ClientGroups ----------------------------
(***************************************************************************)
(* Groups of clients, their members and the rules bound to them: the       *)
(* handlers of api/handlers/client_groups.rs over the tables of migration  *)
(* 006, which declare no foreign key.  Handlers run concurrently, and      *)
(* every SQL statement whose outcome another handler can change is a step. *)
(* Adding and removing members happens in a transaction; moving members    *)
(* and binding rules does not.                                             *)
(*                                                                         *)
(* A transaction's writes are kept apart until it commits: others neither  *)
(* see them nor write the same row meanwhile (READ COMMITTED with row      *)
(* locks).  The columns name, colour, description and priority are left    *)
(* out, and so is update_group, which writes nothing else.                 *)
(***************************************************************************)
EXTENDS Integers, Sequences, FiniteSets

CONSTANTS
    Handlers,   \* requests; each is served at most once
    Groups,     \* group ids; BIGSERIAL, so a deleted one never returns
    Clients,    \* client ids
    Rules,      \* pairs of a rule id and the table that holds it
    Requests,   \* what a request may ask, see RequestType
    None        \* no target or source group, no request

RequestType ==
    [op : {"add", "remove"}, group : Groups, items : Seq(Clients)]
    \cup [op : {"move"}, from : Groups \cup {None}, to : Groups \cup {None}, items : Seq(Clients)]
    \cup [op : {"bind", "unbind"}, group : Groups, items : Seq(Rules)]
    \cup [op : {"delete"}, group : Groups]

\* A rule names its table in its second component; "filter" is what
\* batch_unbind_rules takes for a missing rule_type, and no table.
ASSUME GroupAssumption ==
    /\ \A rule \in Rules : rule[2] \in {"custom_rule", "rewrite", "filter"}
    /\ \A r \in Requests : r \in RequestType
    /\ None \notin Groups

VARIABLES
    groups,      \* the table client_groups
    clients,     \* the table clients
    rules,       \* the tables custom_rules and dns_rewrites
    memberships, \* the table client_group_memberships
    bindings,    \* the table client_group_rules
    request,     \* per handler: its request, or None
    pc,          \* per handler: the statement it is at
    todo,        \* per handler: items of the request still to be handled
    tx,          \* per handler: memberships its transaction inserts and deletes
    count,       \* per handler: what its answer reports
    \* History, read by no action of the program:
    wrote,       \* per handler: rows it has changed
    created,     \* groups that were created
    raced,       \* groups deleted while a handler had found them existing
    placed       \* clients put into a group and not taken out of their last one
                 \* by a request for it or by a move that could not go on

tables == <<groups, clients, rules, memberships, bindings>>
local == <<request, pc, todo, tx, count>>
history == <<wrote, created, raced, placed>>
vars == <<tables, local, history>>

\* Rules that a table can hold.
Stored == {r \in Rules : r[2] # "filter"}

Member == Clients \X Groups
Binding == Groups \X Rules
NoTx == [ins |-> {}, del |-> {}]
Closed == {"idle", "done", "error"}

\* The types of the tables and of every handler's state; only a handler inside
\* its loop holds rows of a transaction.
TypeOK ==
    /\ groups \subseteq created /\ created \subseteq Groups /\ raced \subseteq Groups
    /\ placed \subseteq Clients
    /\ clients \subseteq Clients /\ rules \subseteq Stored
    /\ memberships \subseteq Member /\ bindings \subseteq Binding
    /\ request \in [Handlers -> Requests \cup {None}]
    /\ pc \in [Handlers -> Closed \cup {"check", "loop", "target", "insert"}]
    /\ todo \in [Handlers -> Seq(Clients) \cup Seq(Rules)]
    /\ tx \in [Handlers -> [ins : SUBSET Member, del : SUBSET Member]]
    /\ count \in [Handlers -> Nat]
    /\ wrote \in [Handlers -> SUBSET (Member \cup Binding)]
    /\ \A h \in Handlers : tx[h] # NoTx => pc[h] \in {"loop", "insert"} /\ request[h].op \in {"add", "remove"}

Init ==
    /\ groups \in SUBSET Groups /\ created = groups
    /\ clients = Clients /\ rules \in {Stored, {}}
    /\ memberships = {} /\ bindings = {}
    /\ request = [h \in Handlers |-> None]
    /\ pc = [h \in Handlers |-> "idle"]
    /\ todo = [h \in Handlers |-> <<>>]
    /\ tx = [h \in Handlers |-> NoTx]
    /\ count = [h \in Handlers |-> 0]
    /\ wrote = [h \in Handlers |-> {}]
    /\ raced = {} /\ placed = {}

-----------------------------------------------------------------------------
(* Steps shared by the handlers *)

Goto(h, label) == pc' = [pc EXCEPT ![h] = label]
Pop(h) == todo' = [todo EXCEPT ![h] = Tail(@)]
Counted(h, n) == count' = [count EXCEPT ![h] = @ + n]
Wrote(h, rows) == wrote' = [wrote EXCEPT ![h] = @ \cup rows]

InLoop(h, op) == pc[h] = "loop" /\ request[h].op = op /\ todo[h] # <<>>
AtEnd(h, ops) == pc[h] = "loop" /\ request[h].op \in ops /\ todo[h] = <<>>

\* Rows another handler's transaction has written and not yet committed.
LockedIns(h) == UNION {tx[k].ins : k \in Handlers \ {h}}
LockedDel(h) == UNION {tx[k].del : k \in Handlers \ {h}}

\* A client that batch_move_clients has taken out and not yet put in.
Moving(h) == pc[h] \in {"target", "insert"} /\ request[h].op = "move"

\* The history after a step that, with reason, takes those clients out.
Placed(out) == placed' = (placed \ out) \cup {m[1] : m \in memberships'}

Items(r) == IF r.op = "delete" THEN <<>> ELSE r.items

\* Every handler but batch_move_clients first looks its group up.
Begin(h, r) ==
    /\ pc[h] = "idle"
    /\ request' = [request EXCEPT ![h] = r]
    /\ todo' = [todo EXCEPT ![h] = Items(r)]
    /\ Goto(h, IF r.op = "move" THEN "loop" ELSE "check")
    /\ UNCHANGED <<tables, tx, count, history>>

CheckGroup(h) ==
    /\ pc[h] = "check"
    /\ Goto(h, IF request[h].group \in groups THEN "loop" ELSE "error")
    /\ UNCHANGED <<tables, request, todo, tx, count, history>>

\* A statement fails or the connection goes away: the handler ends where it is
\* and its transaction, if one is open, is rolled back.
Fail(h) ==
    /\ pc[h] \notin Closed
    /\ Goto(h, "error")
    /\ tx' = [tx EXCEPT ![h] = NoTx]
    /\ UNCHANGED <<tables, request, todo, count, wrote, created, raced>>
    /\ Placed(IF Moving(h) THEN {Head(todo[h])} ELSE {})

Finish(h) ==
    /\ AtEnd(h, {"move", "bind", "unbind"})
    /\ Goto(h, "done")
    /\ UNCHANGED <<tables, request, todo, tx, count, history>>

-----------------------------------------------------------------------------
(* Members *)

Row(h) == <<Head(todo[h]), request[h].group>>

\* Mutant of AddClient: clients that are skipped count as well.
AddClient_CountSkipped(h) ==
    /\ InLoop(h, "add")
    /\ IF Row(h)[1] \notin clients \/ Row(h) \in memberships \cup tx[h].ins
       THEN Pop(h) /\ Counted(h, 1) /\ UNCHANGED pc
       ELSE Goto(h, "insert") /\ UNCHANGED <<todo, count>>
    /\ UNCHANGED <<tables, request, tx, history>>

\* batch_add_clients, one client of the loop: unknown clients and members the
\* transaction sees are skipped.
AddClient(h) ==
    /\ InLoop(h, "add")
    /\ IF Row(h)[1] \notin clients \/ Row(h) \in memberships \cup tx[h].ins
       THEN Pop(h) /\ UNCHANGED pc
       ELSE Goto(h, "insert") /\ UNCHANGED todo
    /\ UNCHANGED <<tables, request, tx, count, history>>

\* Mutant of AddInsert: no transaction, the row is stored at once.
AddInsert_NoTx(h) ==
    /\ pc[h] = "insert" /\ request[h].op = "add"
    /\ IF Row(h) \in memberships
       THEN Goto(h, "error") /\ UNCHANGED <<memberships, todo, count, wrote>>
       ELSE /\ memberships' = memberships \cup {Row(h)}
            /\ Counted(h, 1) /\ Wrote(h, {Row(h)}) /\ Pop(h) /\ Goto(h, "loop")
    /\ Placed({})
    /\ UNCHANGED <<groups, clients, rules, bindings, request, tx, created, raced>>

\* Its INSERT waits for any other transaction that has written the row; a row
\* committed since the SELECT violates UNIQUE(client_id, group_id), and the
\* error rolls the whole batch back.
AddInsert(h) ==
    /\ pc[h] = "insert" /\ request[h].op = "add"
    /\ Row(h) \notin LockedIns(h) \cup LockedDel(h)
    /\ IF Row(h) \in memberships
       THEN /\ Goto(h, "error") /\ tx' = [tx EXCEPT ![h] = NoTx]
            /\ UNCHANGED <<todo, count>>
       ELSE /\ tx' = [tx EXCEPT ![h].ins = @ \cup {Row(h)}]
            /\ Counted(h, 1) /\ Pop(h) /\ Goto(h, "loop")
    /\ UNCHANGED <<tables, request, history>>

\* batch_remove_clients, one client of the loop.
RemoveClient(h) ==
    /\ InLoop(h, "remove")
    /\ Pop(h)
    /\ IF Row(h) \in memberships \ tx[h].del
       THEN /\ Row(h) \notin LockedDel(h)
            /\ tx' = [tx EXCEPT ![h].del = @ \cup {Row(h)}]
            /\ Counted(h, 1)
       ELSE UNCHANGED <<tx, count>>
    /\ UNCHANGED <<tables, request, pc, history>>

\* tx.commit() of batch_add_clients and batch_remove_clients.
Commit(h) ==
    /\ AtEnd(h, {"add", "remove"})
    /\ memberships' = (memberships \ tx[h].del) \cup tx[h].ins
    /\ Wrote(h, tx[h].del \cup tx[h].ins)
    /\ Placed({m[1] : m \in tx[h].del})
    /\ tx' = [tx EXCEPT ![h] = NoTx]
    /\ Goto(h, "done")
    /\ UNCHANGED <<groups, clients, rules, bindings, request, todo, count, created, raced>>

\* Mutant of MoveOut: the DELETE forgets the group.
MoveOut_AnyGroup(h) ==
    LET r == request[h]
        known == Head(todo[h]) \in clients
        rows == {m \in memberships : known /\ r.from # None /\ m[1] = Head(todo[h])}
    IN  /\ InLoop(h, "move")
        /\ rows \cap LockedDel(h) = {}
        /\ memberships' = memberships \ rows /\ Wrote(h, rows)
        /\ IF known /\ r.to # None THEN Goto(h, "target") /\ UNCHANGED <<todo, placed>>
           ELSE /\ Pop(h) /\ UNCHANGED pc
                /\ Placed({m[1] : m \in {x \in rows : x[2] = r.from}})
        /\ UNCHANGED <<groups, clients, rules, bindings, request, tx, count, created, raced>>

\* batch_move_clients, one client: out of the source group, at once.  Without a
\* target the client is done.
MoveOut(h) ==
    LET r == request[h]
        known == Head(todo[h]) \in clients
        rows == {m \in memberships : known /\ m = <<Head(todo[h]), r.from>>}
    IN  /\ InLoop(h, "move")
        /\ rows \cap LockedDel(h) = {}
        /\ memberships' = memberships \ rows /\ Wrote(h, rows)
        /\ IF known /\ r.to # None THEN Goto(h, "target") /\ UNCHANGED <<todo, placed>>
           ELSE Pop(h) /\ UNCHANGED pc /\ Placed({m[1] : m \in rows})
        /\ UNCHANGED <<groups, clients, rules, bindings, request, tx, count, created, raced>>

\* A target that does not exist is passed over without an error.
MoveTarget(h) ==
    /\ pc[h] = "target"
    /\ UNCHANGED <<tables, request, tx, count, wrote, created, raced>>
    /\ IF request[h].to \in groups THEN Goto(h, "insert") /\ UNCHANGED <<todo, placed>>
       ELSE Goto(h, "loop") /\ Pop(h) /\ Placed({Head(todo[h])})

\* INSERT ... ON CONFLICT DO UPDATE: being a member already is no error.
MoveIn(h) ==
    LET row == <<Head(todo[h]), request[h].to>>
    IN  /\ pc[h] = "insert" /\ request[h].op = "move"
        /\ row \notin LockedIns(h) \cup LockedDel(h)
        /\ memberships' = memberships \cup {row}
        /\ Wrote(h, {row}) /\ Counted(h, 1) /\ Pop(h) /\ Goto(h, "loop")
        /\ Placed({})
        /\ UNCHANGED <<groups, clients, rules, bindings, request, tx, created, raced>>

-----------------------------------------------------------------------------
(* Rules *)

Bound(h) == <<request[h].group, Head(todo[h])>>

\* batch_bind_rules, one rule: a rule type that is no table ends the request
\* with an error, what is bound so far stays; a missing rule and one bound
\* already are skipped.
BindRule(h) ==
    /\ InLoop(h, "bind")
    /\ IF Head(todo[h])[2] = "filter" THEN Goto(h, "error") /\ UNCHANGED todo
       ELSE IF Head(todo[h]) \notin rules \/ Bound(h) \in bindings
       THEN Pop(h) /\ UNCHANGED pc
       ELSE Goto(h, "insert") /\ UNCHANGED todo
    /\ UNCHANGED <<tables, request, tx, count, history>>

BindInsert(h) ==
    /\ pc[h] = "insert" /\ request[h].op = "bind"
    /\ IF Bound(h) \in bindings
       THEN Goto(h, "error") /\ UNCHANGED <<bindings, todo, count, wrote>>
       ELSE /\ bindings' = bindings \cup {Bound(h)} /\ Wrote(h, {Bound(h)})
            /\ Counted(h, 1) /\ Pop(h) /\ Goto(h, "loop")
    /\ UNCHANGED <<groups, clients, rules, memberships, request, tx, created, raced, placed>>

\* batch_unbind_rules, one rule: the type of the item is the one the query
\* string gives for all of them.
UnbindRule(h) ==
    /\ InLoop(h, "unbind")
    /\ bindings' = bindings \ {Bound(h)}
    /\ Wrote(h, {Bound(h)} \cap bindings)
    /\ Counted(h, Cardinality({Bound(h)} \cap bindings)) /\ Pop(h)
    /\ UNCHANGED <<groups, clients, rules, memberships, request, pc, tx, created, raced, placed>>

-----------------------------------------------------------------------------
(* Groups, clients and rules come and go *)

create_group(g) ==
    /\ g \notin created
    /\ groups' = groups \cup {g} /\ created' = created \cup {g}
    /\ UNCHANGED <<clients, rules, memberships, bindings, local, wrote, raced, placed>>

\* Handlers that have found the group existing and will still write its rows.
Past(h, g) ==
    \/ pc[h] \in {"loop", "insert"} /\ request[h].op \in {"add", "bind"} /\ request[h].group = g
    \/ pc[h] = "insert" /\ request[h].op = "move" /\ request[h].to = g

\* Mutant of DeleteGroup: the members of the group are left behind.
DeleteGroup_KeepMembers(h) ==
    LET g == request[h].group
    IN  /\ AtEnd(h, {"delete"})
        /\ bindings' = {b \in bindings : b[1] # g}
        /\ groups' = groups \ {g}
        /\ raced' = raced \cup {x \in {g} : \E k \in Handlers : Past(k, x)}
        /\ Goto(h, "done")
        /\ UNCHANGED <<clients, rules, memberships, request, todo, tx, count, wrote, created, placed>>

\* delete_group: the three DELETEs of its transaction.  Rows that another
\* transaction has inserted and not yet committed are not seen.
DeleteGroup(h) ==
    LET g == request[h].group
    IN  /\ AtEnd(h, {"delete"})
        /\ \A m \in LockedDel(h) : m[2] # g
        /\ memberships' = {m \in memberships : m[2] # g}
        /\ Placed({m[1] : m \in {x \in memberships : x[2] = g}})
        /\ bindings' = {b \in bindings : b[1] # g}
        /\ groups' = groups \ {g}
        /\ raced' = raced \cup {x \in {g} : \E k \in Handlers : Past(k, x)}
        /\ Goto(h, "done")
        /\ UNCHANGED <<clients, rules, request, todo, tx, count, wrote, created>>

\* clients.rs delete: the client's memberships stay.
delete_client(c) ==
    /\ c \in clients
    /\ clients' = clients \ {c}
    /\ UNCHANGED <<groups, rules, memberships, bindings, local, history>>

\* rules.rs and rewrites.rs create and delete; a deleted rule's bindings stay.
create_rule(r) ==
    /\ r \notin rules
    /\ rules' = rules \cup {r}
    /\ UNCHANGED <<groups, clients, memberships, bindings, local, history>>

delete_rule(r) ==
    /\ r \in rules
    /\ rules' = rules \ {r}
    /\ UNCHANGED <<groups, clients, memberships, bindings, local, history>>

Serve(h) ==
    \/ CheckGroup(h) \/ Fail(h) \/ Finish(h)
    \/ AddClient(h) \/ AddInsert(h) \/ RemoveClient(h) \/ Commit(h)
    \/ MoveOut(h) \/ MoveTarget(h) \/ MoveIn(h)
    \/ BindRule(h) \/ BindInsert(h) \/ UnbindRule(h) \/ DeleteGroup(h)

Next ==
    \/ \E h \in Handlers : Serve(h) \/ \E r \in Requests : Begin(h, r)
    \/ \E g \in Groups : create_group(g)
    \/ \E c \in Clients : delete_client(c)
    \/ \E r \in Stored : create_rule(r) \/ delete_rule(r)

Spec == Init /\ [][Next]_vars

-----------------------------------------------------------------------------
(* Properties *)

\* Every membership and every binding is of a group that exists, unless the
\* group was deleted while a handler that had found it existing was about to
\* write rows of it (delete_group removes all three kinds of rows at once).
RowsOfLiveGroups ==
    /\ \A m \in memberships : m[2] \in groups \cup raced
    /\ \A b \in bindings : b[1] \in groups \cup raced

\* What added_count, removed_count, bound_count and unbound_count report is the
\* number of rows the request changed, whatever ran beside it.
CountsExact ==
    \A h \in Handlers :
        pc[h] = "done" /\ request[h].op \in {"add", "remove", "bind", "unbind"}
            => count[h] = Cardinality(wrote[h])

\* A batch of members that ends in an error has changed nothing: the comment of
\* batch_add_clients asks for atomicity.
FailedBatchChangesNothing ==
    \A h \in Handlers :
        pc[h] = "error" /\ request[h].op \in {"add", "remove"} => wrote[h] = {}

\* A client loses its last group only by a request that takes it out of that
\* group, or by a move that fails half way or whose target does not exist:
\* between the two statements of batch_move_clients a client is in neither
\* group, and no other handler makes that permanent.
PlacedKeepGroup ==
    \A c \in placed :
        \/ \E m \in memberships : m[1] = c
        \/ \E h \in Handlers : Moving(h) /\ Head(todo[h]) = c

\* delete_group leaves no orphan rows in the database (its comment on the
\* transaction that wraps the three DELETEs).
NoOrphans ==
    /\ \A m \in memberships : m[2] \in groups
    /\ \A b \in bindings : b[1] \in groups

\* "Batch move clients to a group": a client taken out of its source group by a
\* move that reports success is in the target group at some point of the move.
MovedClientsArrive ==
    \A h \in Handlers :
        pc[h] = "done" /\ request[h].op = "move" /\ request[h].to # None
            => \A m \in wrote[h] : <<m[1], request[h].to>> \in wrote[h]

\* resolve_client_config decodes the BOOLEAN column filter_enabled as an i32.
\* With a row in clients the query fails, without one no client matches:
\* either way the result is ClientConfig::default(), without group rules.
group_ruleset(c) == {}

\* A client's configuration holds the custom rules bound to its groups.
GroupRulesApply ==
    \A m \in memberships, b \in bindings :
        m[1] \in clients /\ m[2] = b[1] /\ b[1] \in groups
        /\ b[2] \in rules /\ b[2][2] = "custom_rule"
            => b[2] \in group_ruleset(m[1])
=============================================================================

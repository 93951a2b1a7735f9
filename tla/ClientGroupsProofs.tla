------------------------ MODULE ClientGroupsProofs ------------------------
(***************************************************************************)
(* Proofs about ClientGroups, for any handlers, groups, clients, rules and *)
(* requests.                                                               *)
(***************************************************************************)
EXTENDS ClientGroups, SequenceTheorems, TLAPS

(***************************************************************************)
(* What a handler holds at each statement: a request, the items left of    *)
(* it, and in a transaction only rows of its own group.                    *)
(***************************************************************************)
Holds(h) ==
    LET r == request[h]
    IN  /\ r \in Requests
        /\ r.op \in {"add", "remove", "move"} => todo[h] \in Seq(Clients)
        /\ r.op \in {"bind", "unbind"} => todo[h] \in Seq(Rules)
        /\ pc[h] = "check" => r.op # "move"
        /\ pc[h] = "target" => r.op = "move"
        /\ pc[h] = "insert" => r.op \in {"add", "move", "bind"}
        /\ pc[h] \in {"target", "insert"} => todo[h] # <<>>
        /\ pc[h] \in {"target", "insert"} /\ r.op = "move" => r.to \in Groups

OwnRows(h) ==
    /\ \A m \in tx[h].ins : request[h].op = "add" /\ m[2] = request[h].group
    /\ tx[h].del # {} => request[h].op = "remove"

ControlOK == \A h \in Handlers : (pc[h] # "idle" => Holds(h)) /\ OwnRows(h)

TypeInv == TypeOK /\ ControlOK

LEMMA RequestFields ==
    ASSUME NEW r \in Requests
    PROVE  /\ r.op \in {"add", "remove"} => r.group \in Groups /\ r.items \in Seq(Clients)
           /\ r.op = "move" => /\ r.from \in Groups \cup {None} /\ r.to \in Groups \cup {None}
                               /\ r.items \in Seq(Clients)
           /\ r.op \in {"bind", "unbind"} => r.group \in Groups /\ r.items \in Seq(Rules)
           /\ r.op = "delete" => r.group \in Groups
           /\ r.op \in {"add", "remove", "move", "bind", "unbind", "delete"}
<1>1. r \in RequestType
    BY GroupAssumption
<1> QED
    BY <1>1 DEF RequestType

LEMMA InitTypeInv == Init => TypeInv
<1> SUFFICES ASSUME Init PROVE TypeInv
    OBVIOUS
<1>1. NoTx \in [ins : SUBSET Member, del : SUBSET Member] /\ NoTx.ins = {} /\ NoTx.del = {}
    BY DEF NoTx
<1>2. /\ groups \subseteq created /\ created \subseteq Groups /\ raced \subseteq Groups
      /\ placed \subseteq Clients /\ clients \subseteq Clients /\ rules \subseteq Stored
      /\ memberships \subseteq Member /\ bindings \subseteq Binding
    BY DEF Init
<1>3. /\ request \in [Handlers -> Requests \cup {None}]
      /\ pc \in [Handlers -> Closed \cup {"check", "loop", "target", "insert"}]
      /\ wrote \in [Handlers -> SUBSET (Member \cup Binding)]
      /\ todo \in [Handlers -> Seq(Clients) \cup Seq(Rules)]
      /\ tx \in [Handlers -> [ins : SUBSET Member, del : SUBSET Member]]
    BY <1>1 DEF Init, Closed
<1>4. count \in [Handlers -> Nat]
    BY DEF Init
<1>5. \A h \in Handlers : tx[h] = NoTx /\ pc[h] = "idle"
    BY DEF Init
<1>6. TypeOK
    BY <1>2, <1>3, <1>4, <1>5 DEF TypeOK
<1>7. ControlOK
    BY <1>1, <1>5 DEF ControlOK, OwnRows
<1> QED
    BY <1>6, <1>7 DEF TypeInv

\* The clients that are in a group after a step are clients.
LEMMA PlacedType ==
    ASSUME NEW out, placed \subseteq Clients, memberships' \subseteq Member, Placed(out)
    PROVE  placed' \subseteq Clients
<1>1. \A m \in memberships' : m[1] \in Clients
    BY DEF Member
<1> QED
    BY <1>1 DEF Placed

\* The row of a member a handler is about to write.
LEMMA RowType ==
    ASSUME TypeInv, NEW h \in Handlers, pc[h] \in {"loop", "insert"}, todo[h] # <<>>,
           request[h].op \in {"add", "remove"}
    PROVE  /\ Row(h) \in Member /\ Row(h)[2] = request[h].group
           /\ Tail(todo[h]) \in Seq(Clients)
<1>1. Holds(h)
    BY DEF TypeInv, ControlOK
<1>2. request[h].group \in Groups /\ todo[h] \in Seq(Clients)
    BY <1>1, RequestFields DEF Holds
<1>3. Head(todo[h]) \in Clients /\ Tail(todo[h]) \in Seq(Clients)
    BY <1>2, HeadTailProperties
<1> QED
    BY <1>2, <1>3 DEF Row, Member

LEMMA BoundType ==
    ASSUME TypeInv, NEW h \in Handlers, pc[h] \in {"loop", "insert"}, todo[h] # <<>>,
           request[h].op \in {"bind", "unbind"}
    PROVE  Bound(h) \in Binding /\ Tail(todo[h]) \in Seq(Rules)
<1>1. Holds(h)
    BY DEF TypeInv, ControlOK
<1>2. request[h].group \in Groups /\ todo[h] \in Seq(Rules)
    BY <1>1, RequestFields DEF Holds
<1>3. Head(todo[h]) \in Rules /\ Tail(todo[h]) \in Seq(Rules)
    BY <1>2, HeadTailProperties, Zenon
<1> QED
    BY <1>2, <1>3 DEF Bound, Binding

\* A step of handler h leaves the others' requests, places and transactions alone.
OthersKeep(h) ==
    \A k \in Handlers \ {h} : /\ request'[k] = request[k] /\ pc'[k] = pc[k]
                              /\ todo'[k] = todo[k] /\ tx'[k] = tx[k]

LEMMA OwnStep ==
    ASSUME TypeInv, NEW h \in Handlers, OthersKeep(h), Holds(h)', OwnRows(h)'
    PROVE  ControlOK'
BY DEF TypeInv, ControlOK, OthersKeep, Holds, OwnRows

LEMMA CheckGroupType ==
    ASSUME TypeInv, NEW h \in Handlers, CheckGroup(h)
    PROVE  TypeInv' /\ OthersKeep(h)
<1>1. Holds(h) /\ OwnRows(h)
    BY DEF TypeInv, ControlOK, CheckGroup
<1>2. TypeOK'
    BY <1>1, RequestFields DEF CheckGroup, TypeInv, TypeOK, Goto, tables, history, Closed
<1>3. OthersKeep(h)
    BY Zenon DEF CheckGroup, OthersKeep, TypeInv, TypeOK, Goto
<1>4. Holds(h)' /\ OwnRows(h)'
    BY <1>1, RequestFields, Zenon DEF CheckGroup, Holds, OwnRows, TypeInv, TypeOK, Goto, tables
<1> QED
    BY <1>2, <1>3, <1>4, OwnStep DEF TypeInv

LEMMA FinishType ==
    ASSUME TypeInv, NEW h \in Handlers, Finish(h)
    PROVE  TypeInv' /\ OthersKeep(h)
<1>1. Holds(h) /\ OwnRows(h)
    BY DEF TypeInv, ControlOK, Finish, AtEnd
<1>2. TypeOK'
    BY <1>1 DEF Finish, AtEnd, TypeInv, TypeOK, Goto, tables, history, Closed
<1>3. OthersKeep(h)
    BY Zenon DEF Finish, AtEnd, OthersKeep, TypeInv, TypeOK, Goto
<1>4. Holds(h)' /\ OwnRows(h)'
    BY <1>1 DEF Finish, AtEnd, Holds, OwnRows, TypeInv, TypeOK, Goto, tables
<1> QED
    BY <1>2, <1>3, <1>4, OwnStep DEF TypeInv

LEMMA AddClientType ==
    ASSUME TypeInv, NEW h \in Handlers, AddClient(h)
    PROVE  TypeInv' /\ OthersKeep(h)
<1>1. Holds(h) /\ OwnRows(h)
    BY DEF TypeInv, ControlOK, AddClient, InLoop
<1>0. Tail(todo[h]) \in Seq(Clients)
    BY RowType DEF AddClient, InLoop
<1>2. TypeOK'
    BY <1>1, <1>0, Zenon DEF AddClient, InLoop, Pop, TypeInv, TypeOK, Goto, tables, history, Closed
<1>3. OthersKeep(h)
    BY DEF AddClient, InLoop, Pop, OthersKeep, TypeInv, TypeOK, Goto
<1>4. Holds(h)' /\ OwnRows(h)'
    BY <1>1, <1>0, Zenon DEF AddClient, InLoop, Pop, Holds, OwnRows, TypeInv, TypeOK, Goto, tables
<1> QED
    BY <1>2, <1>3, <1>4, OwnStep DEF TypeInv

LEMMA FailType ==
    ASSUME TypeInv, NEW h \in Handlers, Fail(h)
    PROVE  TypeInv' /\ OthersKeep(h)
<1>1. Holds(h) /\ OwnRows(h)
    BY DEF TypeInv, ControlOK, Fail, Closed
<1>0. placed' \subseteq Clients
    BY PlacedType, Zenon DEF Fail, TypeInv, TypeOK, tables
<1>2. TypeOK'
    BY <1>0, <1>1, Zenon DEF Fail, NoTx, TypeInv, TypeOK, Goto, tables, history, Closed
<1>3. OthersKeep(h)
    BY DEF Fail, NoTx, OthersKeep, TypeInv, TypeOK, Goto
<1>4. Holds(h)' /\ OwnRows(h)'
    BY <1>0, <1>1 DEF Fail, NoTx, Holds, OwnRows, TypeInv, TypeOK, Goto, tables
<1> QED
    BY <1>2, <1>3, <1>4, OwnStep DEF TypeInv

\* What the three assignments to a transaction's rows do.
TxType == [Handlers -> [ins : SUBSET Member, del : SUBSET Member]]

LEMMA TxWrites ==
    ASSUME tx \in TxType, NEW h \in Handlers, NEW row \in Member,
           \/ tx' = [tx EXCEPT ![h] = NoTx] \/ tx' = tx
           \/ tx' = [tx EXCEPT ![h].ins = @ \cup {row}]
           \/ tx' = [tx EXCEPT ![h].del = @ \cup {row}]
    PROVE  /\ tx' \in TxType
           /\ \A k \in Handlers \ {h} : tx'[k] = tx[k]
<1>1. tx[h] \in [ins : SUBSET Member, del : SUBSET Member]
    BY DEF TxType
<1>2. CASE tx' = [tx EXCEPT ![h] = NoTx] \/ tx' = tx
    BY <1>1, <1>2 DEF NoTx, TxType
<1>3. CASE tx' = [tx EXCEPT ![h].ins = @ \cup {row}]
  <2>1. tx[h].ins \cup {row} \in SUBSET Member
    BY <1>1
  <2> QED
    BY <1>1, <1>3, <2>1 DEF TxType
<1>4. CASE tx' = [tx EXCEPT ![h].del = @ \cup {row}]
  <2>1. tx[h].del \cup {row} \in SUBSET Member
    BY <1>1
  <2> QED
    BY <1>1, <1>4, <2>1 DEF TxType
<1> QED
    BY <1>2, <1>3, <1>4

LEMMA TxIns ==
    ASSUME tx \in TxType, NEW h \in Handlers, NEW row,
           tx' = [tx EXCEPT ![h].ins = @ \cup {row}]
    PROVE  tx'[h].ins = tx[h].ins \cup {row} /\ tx'[h].del = tx[h].del
BY DEF TxType
LEMMA TxDel ==
    ASSUME tx \in TxType, NEW h \in Handlers, NEW row,
           tx' = [tx EXCEPT ![h].del = @ \cup {row}]
    PROVE  tx'[h].del = tx[h].del \cup {row} /\ tx'[h].ins = tx[h].ins
BY DEF TxType

LEMMA AddInsertType ==
    ASSUME TypeInv, NEW h \in Handlers, AddInsert(h)
    PROVE  TypeInv' /\ OthersKeep(h)
<1>1. Holds(h) /\ OwnRows(h)
    BY DEF TypeInv, ControlOK, AddInsert
<1>0. /\ Row(h) \in Member /\ Row(h)[2] = request[h].group
      /\ Tail(todo[h]) \in Seq(Clients)
    BY <1>1, RowType DEF Holds, AddInsert
<1>t. tx \in TxType
    BY DEF TypeInv, TypeOK, TxType
<1>n. count' \in [Handlers -> Nat]
  <2>1. count' = count \/ Counted(h, 1)
    BY DEF AddInsert
  <2> QED
    BY <2>1 DEF Counted, TypeInv, TypeOK
<1>x. tx' \in TxType /\ \A k \in Handlers \ {h} : tx'[k] = tx[k]
    BY <1>0, <1>t, TxWrites DEF AddInsert
<1>o. /\ \A m \in tx'[h].ins : m \in tx[h].ins \/ m = Row(h)
      /\ tx'[h].del # {} => tx[h].del # {}
  <2>1. CASE tx' = [tx EXCEPT ![h] = NoTx]
    BY <2>1, <1>t DEF NoTx, TxType
  <2>2. CASE tx' = [tx EXCEPT ![h].ins = @ \cup {Row(h)}]
    BY <2>2, <1>t, TxIns
  <2> QED
    BY <2>1, <2>2 DEF AddInsert
<1>p. /\ pc' \in [Handlers -> Closed \cup {"check", "loop", "target", "insert"}]
      /\ todo' \in [Handlers -> Seq(Clients) \cup Seq(Rules)]
      /\ \A k \in Handlers \ {h} : pc'[k] = pc[k] /\ todo'[k] = todo[k]
      /\ todo'[h] \in {todo[h], Tail(todo[h])}
      /\ pc'[h] \in {"error", "loop"}
  <2>1. (Goto(h, "error") /\ todo' = todo) \/ (Goto(h, "loop") /\ Pop(h))
    BY DEF AddInsert
  <2>2. /\ pc' \in [Handlers -> Closed \cup {"check", "loop", "target", "insert"}]
        /\ pc'[h] \in {"error", "loop"} /\ \A k \in Handlers \ {h} : pc'[k] = pc[k]
    BY <2>1, Zenon DEF Goto, Closed, TypeInv, TypeOK
  <2>3. todo' = todo \/ todo' = [todo EXCEPT ![h] = Tail(todo[h])]
    BY <2>1 DEF Pop
  <2> QED
    BY <1>0, <2>2, <2>3, Zenon DEF TypeInv, TypeOK
<1>e. tx'[h] # NoTx => pc'[h] = "loop"
    BY <1>t DEF AddInsert, Goto, TypeInv, TypeOK, TxType
<1>u. UNCHANGED <<groups, clients, rules, memberships, bindings, request, wrote, created, raced, placed>>
    BY DEF AddInsert, tables, history
<1>a. request[h].op = "add"
    BY DEF AddInsert
<1>2. TypeOK'
    BY <1>n, <1>x, <1>p, <1>e, <1>u, <1>a DEF TypeInv, TypeOK, TxType
<1>3. OthersKeep(h)
    BY <1>p, <1>x, <1>u DEF OthersKeep
<1>4. Holds(h)' /\ OwnRows(h)'
    BY <1>0, <1>1, <1>o, <1>p, <1>u, <1>a, Zenon DEF Holds, OwnRows
<1> QED
    BY <1>2, <1>3, <1>4, OwnStep DEF TypeInv

LEMMA RemoveClientType ==
    ASSUME TypeInv, NEW h \in Handlers, RemoveClient(h)
    PROVE  TypeInv' /\ OthersKeep(h)
<1>1. Holds(h) /\ OwnRows(h)
    BY DEF TypeInv, ControlOK, RemoveClient, InLoop
<1>0. /\ Row(h) \in Member /\ Row(h)[2] = request[h].group
      /\ Tail(todo[h]) \in Seq(Clients)
    BY <1>1, RowType DEF Holds, RemoveClient, InLoop
<1>t. tx \in TxType
    BY DEF TypeInv, TypeOK, TxType
<1>n. count' \in [Handlers -> Nat]
  <2>1. count' = count \/ Counted(h, 1)
    BY DEF RemoveClient
  <2> QED
    BY <2>1 DEF Counted, TypeInv, TypeOK
<1>x. tx' \in TxType /\ \A k \in Handlers \ {h} : tx'[k] = tx[k]
    BY <1>0, <1>t, TxWrites DEF RemoveClient
<1>o. tx'[h].ins = tx[h].ins
    BY <1>t, TxDel, Zenon DEF RemoveClient
<1>p. /\ todo' \in [Handlers -> Seq(Clients) \cup Seq(Rules)]
      /\ \A k \in Handlers \ {h} : todo'[k] = todo[k]
      /\ todo'[h] = Tail(todo[h])
    BY <1>0 DEF RemoveClient, Pop, TypeInv, TypeOK
<1>u. UNCHANGED <<groups, clients, rules, memberships, bindings, request, pc, wrote, created, raced, placed>>
    BY DEF RemoveClient, tables, history
<1>a. request[h].op = "remove" /\ pc[h] = "loop"
    BY Zenon DEF RemoveClient, InLoop
<1>2. TypeOK'
    BY <1>n, <1>x, <1>p, <1>u, <1>a, Zenon DEF TypeInv, TypeOK, TxType
<1>3. OthersKeep(h)
    BY <1>p, <1>x, <1>u, Zenon DEF OthersKeep
<1>4. Holds(h)' /\ OwnRows(h)'
    BY <1>0, <1>1, <1>o, <1>p, <1>u, <1>a, Zenon DEF Holds, OwnRows
<1> QED
    BY <1>2, <1>3, <1>4, OwnStep DEF TypeInv

LEMMA CommitType ==
    ASSUME TypeInv, NEW h \in Handlers, Commit(h)
    PROVE  TypeInv' /\ OthersKeep(h)
<1>1. Holds(h) /\ OwnRows(h)
    BY DEF TypeInv, ControlOK, Commit, AtEnd
<1>0. memberships' \subseteq Member /\ placed' \subseteq Clients
  <2>1. memberships' \subseteq Member
    BY DEF Commit, TypeInv, TypeOK
  <2> QED
    BY <2>1, PlacedType, Zenon DEF Commit, TypeInv, TypeOK
<1>2. TypeOK'
    BY <1>0, <1>1, Zenon DEF Commit, AtEnd, Wrote, NoTx, TypeInv, TypeOK, Goto, tables, history, Closed
<1>3. OthersKeep(h)
    BY Zenon DEF Commit, AtEnd, Wrote, NoTx, OthersKeep, TypeInv, TypeOK, Goto
<1>4. Holds(h)' /\ OwnRows(h)'
    BY <1>0, <1>1, Zenon DEF Commit, AtEnd, Wrote, NoTx, Holds, OwnRows, TypeInv, TypeOK, Goto, tables
<1> QED
    BY <1>2, <1>3, <1>4, OwnStep DEF TypeInv

LEMMA MoveOutType ==
    ASSUME TypeInv, NEW h \in Handlers, MoveOut(h)
    PROVE  TypeInv' /\ OthersKeep(h)
<1>1. Holds(h) /\ OwnRows(h)
    BY Zenon DEF TypeInv, ControlOK, MoveOut, InLoop
<1>i. Head(todo[h]) \in Clients /\ Tail(todo[h]) \in Seq(Clients)
    BY <1>1, HeadTailProperties, Zenon DEF Holds, MoveOut, InLoop
<1>r. request[h].to \in Groups \cup {None}
    BY <1>1, RequestFields DEF Holds, MoveOut, InLoop
<1>0. memberships' \subseteq Member /\ placed' \subseteq Clients
  <2>1. memberships' \subseteq Member
    BY DEF MoveOut, TypeInv, TypeOK
  <2> QED
    BY <2>1, PlacedType, Zenon DEF MoveOut, TypeInv, TypeOK
<1>2. TypeOK'
    BY <1>0, <1>1, <1>i, <1>r, Zenon DEF MoveOut, InLoop, Pop, Wrote, TypeInv, TypeOK, Goto, tables, history, Closed
<1>3. OthersKeep(h)
    BY DEF MoveOut, InLoop, Pop, Wrote, OthersKeep, TypeInv, TypeOK, Goto
<1>4. Holds(h)' /\ OwnRows(h)'
    BY <1>0, <1>1, <1>i, <1>r, Zenon DEF MoveOut, InLoop, Pop, Wrote, Holds, OwnRows, TypeInv, TypeOK, Goto, tables
<1> QED
    BY <1>2, <1>3, <1>4, OwnStep DEF TypeInv

LEMMA MoveTargetType ==
    ASSUME TypeInv, NEW h \in Handlers, MoveTarget(h)
    PROVE  TypeInv' /\ OthersKeep(h)
<1>1. Holds(h) /\ OwnRows(h)
    BY Zenon DEF TypeInv, ControlOK, MoveTarget
<1>i. Head(todo[h]) \in Clients /\ Tail(todo[h]) \in Seq(Clients)
    BY <1>1, HeadTailProperties DEF Holds, MoveTarget
<1>0. placed' \subseteq Clients
    BY PlacedType, Zenon DEF MoveTarget, TypeInv, TypeOK, tables
<1>2. TypeOK'
  <2>1. /\ UNCHANGED <<groups, clients, rules, memberships, bindings, request, tx, count, wrote,
                       created, raced>>
        /\ pc[h] = "target" /\ request[h].op = "move"
        /\ \E to \in {"insert", "loop"} : pc' = [pc EXCEPT ![h] = to]
        /\ todo' = todo \/ todo' = [todo EXCEPT ![h] = Tail(@)]
    BY <1>1 DEF MoveTarget, Pop, Goto, tables, Holds
  <2>2. pc' \in [Handlers -> Closed \cup {"check", "loop", "target", "insert"}]
    BY <2>1 DEF TypeInv, TypeOK
  <2>3. todo' \in [Handlers -> Seq(Clients) \cup Seq(Rules)]
    BY <1>i, <2>1, Zenon DEF TypeInv, TypeOK
  <2>4. \A k \in Handlers : tx'[k] # NoTx => pc'[k] \in {"loop", "insert"} /\ request'[k].op \in {"add", "remove"}
    BY <2>1 DEF TypeInv, TypeOK
  <2> QED
    BY <1>0, <2>1, <2>2, <2>3, <2>4, Zenon DEF TypeInv, TypeOK
<1>3. OthersKeep(h)
    BY DEF MoveTarget, Pop, OthersKeep, TypeInv, TypeOK, Goto
<1>4. Holds(h)' /\ OwnRows(h)'
    BY <1>0, <1>1, <1>i, Zenon DEF MoveTarget, Pop, Holds, OwnRows, TypeInv, TypeOK, Goto, tables
<1> QED
    BY <1>2, <1>3, <1>4, OwnStep DEF TypeInv

LEMMA MoveInType ==
    ASSUME TypeInv, NEW h \in Handlers, MoveIn(h)
    PROVE  TypeInv' /\ OthersKeep(h)
<1>1. Holds(h) /\ OwnRows(h)
    BY DEF TypeInv, ControlOK, MoveIn
<1>i. Head(todo[h]) \in Clients /\ Tail(todo[h]) \in Seq(Clients)
    BY <1>1, HeadTailProperties, Zenon DEF Holds, MoveIn
<1>r. <<Head(todo[h]), request[h].to>> \in Member
    BY <1>1, <1>i DEF Holds, MoveIn, Member
<1>0. memberships' \subseteq Member /\ placed' \subseteq Clients
  <2>1. memberships' \subseteq Member
    BY <1>r, Zenon DEF MoveIn, TypeInv, TypeOK
  <2> QED
    BY <2>1, PlacedType, Zenon DEF MoveIn, TypeInv, TypeOK
<1>2. TypeOK'
    BY <1>0, <1>1, <1>i, <1>r DEF MoveIn, Pop, Wrote, Counted, TypeInv, TypeOK, Goto, tables, history, Closed
<1>3. OthersKeep(h)
    BY DEF MoveIn, Pop, Wrote, Counted, OthersKeep, TypeInv, TypeOK, Goto
<1>4. Holds(h)' /\ OwnRows(h)'
    BY <1>0, <1>1, <1>i, <1>r, Zenon DEF MoveIn, Pop, Wrote, Counted, Holds, OwnRows, TypeInv, TypeOK, Goto, tables
<1> QED
    BY <1>2, <1>3, <1>4, OwnStep DEF TypeInv

LEMMA BindRuleType ==
    ASSUME TypeInv, NEW h \in Handlers, BindRule(h)
    PROVE  TypeInv' /\ OthersKeep(h)
<1>1. Holds(h) /\ OwnRows(h)
    BY DEF TypeInv, ControlOK, BindRule, InLoop
<1>0. Bound(h) \in Binding /\ Tail(todo[h]) \in Seq(Rules)
    BY <1>1, BoundType DEF Holds, BindRule, InLoop
<1>2. TypeOK'
    BY <1>0, <1>1, Zenon DEF BindRule, InLoop, Pop, TypeInv, TypeOK, Goto, tables, history, Closed
<1>3. OthersKeep(h)
    BY DEF BindRule, InLoop, Pop, OthersKeep, TypeInv, TypeOK, Goto
<1>4. Holds(h)' /\ OwnRows(h)'
    BY <1>0, <1>1, Zenon DEF BindRule, InLoop, Pop, Holds, OwnRows, TypeInv, TypeOK, Goto, tables
<1> QED
    BY <1>2, <1>3, <1>4, OwnStep DEF TypeInv

LEMMA BindInsertType ==
    ASSUME TypeInv, NEW h \in Handlers, BindInsert(h)
    PROVE  TypeInv' /\ OthersKeep(h)
<1>1. Holds(h) /\ OwnRows(h)
    BY DEF TypeInv, ControlOK, BindInsert
<1>0. Bound(h) \in Binding /\ Tail(todo[h]) \in Seq(Rules)
    BY <1>1, BoundType DEF Holds, BindInsert
<1>n. count' \in [Handlers -> Nat]
  <2>1. count' = count \/ Counted(h, 1)
    BY DEF BindInsert
  <2> QED
    BY <2>1 DEF Counted, TypeInv, TypeOK
<1>p. /\ pc' \in [Handlers -> Closed \cup {"check", "loop", "target", "insert"}]
      /\ todo' \in [Handlers -> Seq(Clients) \cup Seq(Rules)]
  <2>1. (Goto(h, "error") /\ todo' = todo) \/ (Goto(h, "loop") /\ Pop(h))
    BY DEF BindInsert
  <2> QED
    BY <1>0, <2>1, Zenon DEF Goto, Pop, Closed, TypeInv, TypeOK
<1>w. bindings' \subseteq Binding
    BY <1>0 DEF BindInsert, TypeInv, TypeOK
<1>v. wrote' \in [Handlers -> SUBSET (Member \cup Binding)]
  <2>1. wrote' = wrote \/ Wrote(h, {Bound(h)})
    BY DEF BindInsert
  <2>2. wrote[h] \cup {Bound(h)} \in SUBSET (Member \cup Binding)
    BY <1>0 DEF TypeInv, TypeOK
  <2> QED
    BY <2>1, <2>2, Zenon DEF Wrote, TypeInv, TypeOK
<1>x. tx' = tx /\ tx[h] = NoTx /\ request' = request /\ \A k \in Handlers \ {h} : pc'[k] = pc[k]
    BY Zenon DEF BindInsert, Goto, TypeInv, TypeOK
<1>2. TypeOK'
    BY <1>n, <1>p, <1>v, <1>w, <1>x, Zenon DEF BindInsert, TypeInv, TypeOK
<1>3. OthersKeep(h)
    BY DEF BindInsert, Pop, Wrote, OthersKeep, TypeInv, TypeOK, Goto
<1>4. Holds(h)' /\ OwnRows(h)'
    BY <1>0, <1>1, <1>n, Zenon DEF BindInsert, Pop, Wrote, Holds, OwnRows, TypeInv, TypeOK, Goto, tables
<1> QED
    BY <1>2, <1>3, <1>4, OwnStep DEF TypeInv

INSTANCE FiniteSetTheorems

LEMMA UnbindRuleType ==
    ASSUME TypeInv, NEW h \in Handlers, UnbindRule(h)
    PROVE  TypeInv' /\ OthersKeep(h)
<1>1. Holds(h) /\ OwnRows(h)
    BY Zenon DEF TypeInv, ControlOK, UnbindRule, InLoop
<1>0. Bound(h) \in Binding /\ Tail(todo[h]) \in Seq(Rules)
    BY <1>1, BoundType DEF Holds, UnbindRule, InLoop
<1>c. Cardinality({Bound(h)} \cap bindings) \in Nat
    BY FS_Singleton, FS_Subset, FS_CardinalityType, {Bound(h)} \cap bindings \subseteq {Bound(h)}, Zenon
<1>2. TypeOK'
    BY <1>0, <1>1, <1>c DEF UnbindRule, InLoop, Pop, Counted, Wrote, TypeInv, TypeOK, Goto, tables, history, Closed
<1>3. OthersKeep(h)
    BY DEF UnbindRule, InLoop, Pop, Counted, Wrote, OthersKeep, TypeInv, TypeOK, Goto
<1>4. Holds(h)' /\ OwnRows(h)'
    BY <1>0, <1>1, <1>c, Zenon DEF UnbindRule, InLoop, Pop, Counted, Wrote, Holds, OwnRows, TypeInv, TypeOK,
       Goto, tables
<1> QED
    BY <1>2, <1>3, <1>4, OwnStep DEF TypeInv

LEMMA DeleteGroupType ==
    ASSUME TypeInv, NEW h \in Handlers, DeleteGroup(h)
    PROVE  TypeInv' /\ OthersKeep(h)
<1>1. Holds(h) /\ OwnRows(h)
    BY DEF TypeInv, ControlOK, DeleteGroup, AtEnd
<1>0. memberships' \subseteq Member /\ placed' \subseteq Clients
  <2>1. memberships' \subseteq Member
    BY Zenon DEF DeleteGroup, TypeInv, TypeOK
  <2> QED
    BY <2>1, PlacedType, Zenon DEF DeleteGroup, TypeInv, TypeOK
<1>g. groups' \subseteq created /\ raced' \subseteq Groups
  <2>1. request[h].group \in Groups
    BY <1>1, RequestFields, Zenon DEF Holds, DeleteGroup, AtEnd
  <2> QED
    BY <2>1 DEF DeleteGroup, TypeInv, TypeOK
<1>2. TypeOK'
    BY <1>0, <1>1, <1>g, Zenon DEF DeleteGroup, AtEnd, TypeInv, TypeOK, Goto, tables, history, Closed
<1>3. OthersKeep(h)
    BY Zenon DEF DeleteGroup, AtEnd, OthersKeep, TypeInv, TypeOK, Goto
<1>4. Holds(h)' /\ OwnRows(h)'
    BY <1>0, <1>1, <1>g DEF DeleteGroup, AtEnd, Holds, OwnRows, TypeInv, TypeOK, Goto, tables
<1> QED
    BY <1>2, <1>3, <1>4, OwnStep DEF TypeInv

LEMMA BeginType ==
    ASSUME TypeInv, NEW h \in Handlers, NEW r \in Requests, Begin(h, r)
    PROVE  TypeInv' /\ OthersKeep(h)
<1>1. tx[h] = NoTx /\ pc[h] = "idle"
    BY Zenon DEF Begin, TypeInv, TypeOK
<1>2. Items(r) \in Seq(Clients) \cup Seq(Rules)
    BY RequestFields DEF Items
<1>3. TypeOK'
    BY <1>1, <1>2, Zenon DEF Begin, TypeInv, TypeOK, Goto, tables, history, Closed
<1>4. OthersKeep(h)
    BY Zenon DEF Begin, OthersKeep, TypeInv, TypeOK, Goto
<1>5. Holds(h)' /\ OwnRows(h)'
    BY <1>1, <1>2, RequestFields DEF Begin, Items, Holds, OwnRows, TypeInv, TypeOK, Goto, NoTx
<1> QED
    BY <1>3, <1>4, <1>5, OwnStep, Zenon DEF TypeInv

LEMMA ServeType ==
    ASSUME TypeInv, NEW h \in Handlers, Serve(h)
    PROVE  TypeInv' /\ OthersKeep(h)
BY CheckGroupType, FailType, FinishType, AddClientType, AddInsertType, RemoveClientType,
   CommitType, MoveOutType, MoveTargetType, MoveInType, BindRuleType, BindInsertType,
   UnbindRuleType, DeleteGroupType, Zenon DEF Serve

\* What goes on outside the handlers.
Outside ==
    \/ \E g \in Groups : create_group(g)
    \/ \E c \in Clients : delete_client(c)
    \/ \E r \in Stored : create_rule(r) \/ delete_rule(r)

LEMMA OutsideType ==
    ASSUME TypeInv, Outside
    PROVE  /\ TypeInv' /\ UNCHANGED <<memberships, bindings, local, wrote, raced, placed>>
           /\ groups \subseteq groups'
<1>1. /\ UNCHANGED <<memberships, bindings, local, wrote, raced, placed>>
      /\ groups \subseteq groups' /\ groups' \subseteq created'
      /\ created' \subseteq Groups /\ clients' \subseteq Clients /\ rules' \subseteq Stored
    BY DEF Outside, create_group, delete_client, create_rule, delete_rule, TypeInv, TypeOK, local, history
<1> QED
    BY <1>1, Zenon DEF TypeInv, TypeOK, ControlOK, Holds, OwnRows, local

\* Every reachable state is well typed: a handler past its first statement
\* holds a request of the right kind, and only a batch of members inside its
\* loop holds rows of a transaction.
THEOREM TypeCorrect == Spec => []TypeOK
<1>1. TypeInv /\ [Next]_vars => TypeInv'
  <2> SUFFICES ASSUME TypeInv, [Next]_vars PROVE TypeInv'
    BY Zenon
  <2>1. CASE UNCHANGED vars
    BY <2>1 DEF vars, tables, local, history, TypeInv, TypeOK, ControlOK, Holds, OwnRows
  <2>2. CASE Next
    BY <2>2, BeginType, ServeType, OutsideType DEF Next, Outside
  <2> QED
    BY <2>1, <2>2
<1>2. TypeInv => TypeOK
    BY DEF TypeInv
<1> QED
    BY <1>1, <1>2, InitTypeInv, PTL DEF Spec

-----------------------------------------------------------------------------
(* Rows of groups that are gone *)

\* A handler about to write rows of a group has found it existing: the group is
\* there still, or its deletion was a race.
PastOK == \A h \in Handlers : \A g \in Groups : Past(h, g) => g \in groups \cup raced

GroupInv == TypeInv /\ PastOK /\ RowsOfLiveGroups

\* A step of h that deletes no group and gets no further past the look-up.
LEMMA QuietGroups ==
    ASSUME GroupInv, TypeInv', NEW h \in Handlers, OthersKeep(h),
           groups \cup raced \subseteq (groups \cup raced)',
           \A g \in Groups : Past(h, g)' => Past(h, g) \/ g \in groups,
           \A m \in memberships' : m \in memberships \/ Past(h, m[2]),
           \A b \in bindings' : b \in bindings \/ Past(h, b[1])
    PROVE  GroupInv'
<1>1. PastOK'
  <2> SUFFICES ASSUME NEW k \in Handlers, NEW g \in Groups, Past(k, g)' PROVE g \in (groups \cup raced)'
    BY DEF PastOK
  <2>1. CASE k = h
    BY <2>1, Zenon DEF GroupInv, PastOK
  <2>2. CASE k # h
    BY <2>2 DEF GroupInv, PastOK, OthersKeep, Past
  <2> QED
    BY <2>1, <2>2
<1>2. \A m \in memberships' : m[2] \in Groups
    BY Zenon DEF TypeInv, TypeOK, Member
<1>3. \A b \in bindings' : b[1] \in Groups
    BY Zenon DEF TypeInv, TypeOK, Binding
<1>4. RowsOfLiveGroups'
    BY <1>2, <1>3, Zenon DEF GroupInv, PastOK, RowsOfLiveGroups
<1> QED
    BY <1>1, <1>4 DEF GroupInv

LEMMA ServeGroups ==
    ASSUME GroupInv, NEW h \in Handlers, Serve(h)
    PROVE  GroupInv'
<1>0. TypeInv' /\ OthersKeep(h)
    BY ServeType DEF GroupInv
<1>1. Holds(h) \/ pc[h] = "idle"
    BY Zenon DEF GroupInv, TypeInv, ControlOK
<1>2. CASE CheckGroup(h) \/ Fail(h) \/ Finish(h) \/ AddClient(h) \/ AddInsert(h) \/ RemoveClient(h)
  <2>1. UNCHANGED <<groups, raced, memberships, bindings>>
    BY <1>2, Zenon DEF CheckGroup, Fail, Finish, AddClient, AddInsert, RemoveClient, tables, history
  <2>2. request' = request /\ pc'[h] \in {pc[h], "error", "done", "loop", "insert"}
    BY <1>2 DEF CheckGroup, Fail, Finish, AddClient, AddInsert, RemoveClient, Goto, GroupInv, TypeInv, TypeOK
  <2>3. \A g \in Groups : Past(h, g)' => Past(h, g) \/ g \in groups
    BY <1>1, <1>2, <2>2, Zenon DEF CheckGroup, Fail, Finish, AddClient, AddInsert, RemoveClient, Goto, GroupInv,
       TypeInv,
       TypeOK, Past, Holds, InLoop, AtEnd
  <2> QED
    BY <1>0, <2>1, <2>3, QuietGroups, Zenon
<1>3. CASE Commit(h)
  <2>1. UNCHANGED <<groups, raced, bindings>> /\ pc'[h] = "done"
    BY <1>3, Zenon DEF Commit, Goto, GroupInv, TypeInv, TypeOK
  <2>2. \A m \in tx[h].ins : Past(h, m[2])
    BY <1>3, Zenon DEF Commit, AtEnd, Past, GroupInv, TypeInv, ControlOK, OwnRows
  <2>3. \A m \in memberships' : m \in memberships \/ Past(h, m[2])
    BY <1>3, <2>2 DEF Commit
  <2> QED
    BY <1>0, <2>1, <2>3, QuietGroups, Zenon DEF Past
<1>4. CASE MoveOut(h) \/ MoveTarget(h)
  <2>1. /\ UNCHANGED <<groups, raced, bindings, request>> /\ request[h].op = "move"
        /\ memberships' \subseteq memberships
    BY <1>1, <1>4, Zenon DEF MoveOut, MoveTarget, tables, Holds, InLoop
  <2>2. \A g \in Groups : Past(h, g)' => g \in groups
    BY <1>4, <2>1, Zenon DEF MoveOut, MoveTarget, InLoop, Goto, Past, GroupInv, TypeInv, TypeOK
  <2> QED
    BY <1>0, <2>1, <2>2, QuietGroups, Zenon
<1>5. CASE MoveIn(h)
  <2>1. UNCHANGED <<groups, raced, bindings, request>> /\ pc'[h] = "loop" /\ request[h].op = "move"
    BY <1>5 DEF MoveIn, Goto, GroupInv, TypeInv, TypeOK
  <2>2. \A m \in memberships' : m \in memberships \/ Past(h, m[2])
    <3> DEFINE row == <<Head(todo[h]), request[h].to>>
    <3>1. memberships' = memberships \cup {row} /\ Past(h, request[h].to)
      BY <1>5 DEF MoveIn, Past
    <3>2. row[2] = request[h].to
      BY Zenon
    <3> HIDE DEF row
    <3> QED
      BY <3>1, <3>2, Zenon
  <2> QED
    BY <1>0, <2>1, <2>2, QuietGroups, Zenon DEF Past
<1>6. CASE BindRule(h) \/ BindInsert(h) \/ UnbindRule(h)
  <2>1. UNCHANGED <<groups, raced, memberships, request>>
    BY <1>6, Zenon DEF BindRule, BindInsert, UnbindRule, tables, history
  <2>2. \A g \in Groups : Past(h, g)' => Past(h, g)
    BY <1>6, <2>1, Zenon DEF BindRule, BindInsert, UnbindRule, InLoop, Goto, Past, GroupInv, TypeInv, TypeOK
  <2>3. \A b \in bindings' : b \in bindings \/ Past(h, b[1])
    <3>1. CASE BindInsert(h)
      <4>1. bindings' \subseteq bindings \cup {Bound(h)} /\ Past(h, request[h].group)
        BY <3>1 DEF BindInsert, Past
      <4>2. Bound(h)[1] = request[h].group
        BY Zenon DEF Bound
      <4> QED
        BY <4>1, <4>2, Zenon
    <3>2. CASE BindRule(h) \/ UnbindRule(h)
      BY <3>2, Zenon DEF BindRule, UnbindRule, tables
    <3> QED
      BY <1>6, <3>1, <3>2, Zenon
  <2> QED
    BY <1>0, <2>1, <2>2, <2>3, QuietGroups, Zenon
<1>7. CASE DeleteGroup(h)
  <2> DEFINE d == request[h].group
  <2>1. /\ request' = request /\ pc'[h] = "done"
        /\ \A g : g # d /\ g \in groups \cup raced => g \in (groups \cup raced)'
        /\ \A k \in Handlers : Past(k, d) => d \in raced'
        /\ \A m \in memberships' : m \in memberships /\ m[2] # d
        /\ \A b \in bindings' : b \in bindings /\ b[1] # d
    BY <1>7, Zenon DEF DeleteGroup, Goto, GroupInv, TypeInv, TypeOK
  <2> HIDE DEF d
  <2>2. \A k \in Handlers, g \in Groups : Past(k, g)' => Past(k, g)
    BY <1>0, <2>1, Zenon DEF Past, OthersKeep
  <2>3. PastOK'
    BY <2>1, <2>2, Zenon DEF PastOK, GroupInv
  <2>4. RowsOfLiveGroups'
    BY <2>1 DEF RowsOfLiveGroups, GroupInv
  <2> QED
    BY <1>0, <2>3, <2>4, Zenon DEF GroupInv
<1> QED
    BY <1>2, <1>3, <1>4, <1>5, <1>6, <1>7, Zenon DEF Serve

\* For any requests: rows of a group that does not exist are left only by the
\* race of delete_group with a handler that had found the group existing.
THEOREM LiveGroups == Spec => []RowsOfLiveGroups
<1>1. Init => GroupInv
    BY InitTypeInv DEF Init, GroupInv, PastOK, Past, RowsOfLiveGroups
<1>2. GroupInv /\ [Next]_vars => GroupInv'
  <2> SUFFICES ASSUME GroupInv, [Next]_vars PROVE GroupInv'
    BY Zenon
  <2>1. CASE UNCHANGED vars
    BY <2>1 DEF vars, tables, local, history, GroupInv, TypeInv, TypeOK, ControlOK, Holds, OwnRows,
       PastOK, Past, RowsOfLiveGroups
  <2>2. ASSUME NEW h \in Handlers, NEW r \in Requests, Begin(h, r) PROVE GroupInv'
    <3>1. TypeInv' /\ OthersKeep(h)
      BY <2>2, BeginType DEF GroupInv
    <3>2. UNCHANGED <<groups, raced, memberships, bindings>>
      BY <2>2, Zenon DEF Begin, tables, history
    <3>3. \A g \in Groups : ~Past(h, g)'
      BY <2>2, Zenon DEF Begin, Goto, Past, GroupInv, TypeInv, TypeOK
    <3> QED
      BY <3>1, <3>2, <3>3, QuietGroups, Zenon
  <2>3. CASE Outside
    <3>1. /\ TypeInv' /\ UNCHANGED <<memberships, bindings, local, raced>> /\ groups \subseteq groups'
      BY <2>3, OutsideType DEF GroupInv
    <3> QED
      BY <3>1 DEF local, GroupInv, PastOK, Past, RowsOfLiveGroups
  <2> QED
    BY <2>1, <2>2, <2>3, ServeGroups, Zenon DEF Next, Outside
<1>3. GroupInv => RowsOfLiveGroups
    BY Zenon DEF GroupInv
<1> QED
    BY <1>1, <1>2, <1>3, PTL DEF Spec

-----------------------------------------------------------------------------
(* Batches of members *)

\* Until it commits, a batch of members has changed no row.
NothingYet ==
    \A h \in Handlers :
        pc[h] = "idle" \/ (pc[h] # "done" /\ request[h].op \in {"add", "remove"}) => wrote[h] = {}

LEMMA ServeWrote ==
    ASSUME TypeInv, NothingYet, NEW h \in Handlers, Serve(h)
    PROVE  NothingYet'
<1>0. TypeInv' /\ OthersKeep(h)
    BY ServeType, Zenon
<1>1. \A k \in Handlers \ {h} : wrote'[k] = wrote[k]
    BY Zenon DEF Serve, CheckGroup, Fail, Finish, AddClient, AddInsert, RemoveClient, Commit, MoveOut, MoveTarget,
       MoveIn, BindRule, BindInsert, UnbindRule, DeleteGroup, Wrote, history, TypeInv, TypeOK
<1>2. request' = request /\ pc'[h] # "idle"
    BY Zenon DEF Serve, CheckGroup, Fail, Finish, AddClient, AddInsert, RemoveClient, Commit, MoveOut, MoveTarget,
       MoveIn, BindRule, BindInsert, UnbindRule, DeleteGroup, InLoop, Goto, Closed, TypeInv, TypeOK
<1>3. pc'[h] # "done" /\ request[h].op \in {"add", "remove"} => wrote' = wrote /\ pc[h] # "done"
    BY DEF Serve, CheckGroup, Fail, Finish, AddClient, AddInsert, RemoveClient, Commit, AtEnd, MoveOut, MoveTarget,
       MoveIn, BindRule, BindInsert, UnbindRule, DeleteGroup, InLoop, Goto, Closed, history, TypeInv, TypeOK,
       ControlOK, Holds
<1> QED
    BY <1>0, <1>1, <1>2, <1>3 DEF NothingYet, OthersKeep

\* For any requests: a batch of members that ends in an error has changed
\* nothing, whether a statement failed or a row was there already.
THEOREM BatchAtomic == Spec => []FailedBatchChangesNothing
<1>1. Init => TypeInv /\ NothingYet
    BY InitTypeInv, Zenon DEF Init, NothingYet
<1>2. TypeInv /\ NothingYet /\ [Next]_vars => TypeInv' /\ NothingYet'
  <2> SUFFICES ASSUME TypeInv, NothingYet, [Next]_vars PROVE TypeInv' /\ NothingYet'
    BY Zenon
  <2>1. CASE UNCHANGED vars
    BY <2>1 DEF vars, tables, local, history, TypeInv, TypeOK, ControlOK, Holds, OwnRows, NothingYet
  <2>2. ASSUME NEW h \in Handlers, NEW r \in Requests, Begin(h, r) PROVE TypeInv' /\ NothingYet'
    <3>1. TypeInv' /\ OthersKeep(h)
      BY <2>2, BeginType
    <3>2. wrote' = wrote /\ wrote[h] = {}
      BY <2>2 DEF Begin, history, NothingYet
    <3> QED
      BY <3>1, <3>2, Zenon DEF NothingYet, OthersKeep
  <2>3. CASE Outside
    BY <2>3, OutsideType DEF local, NothingYet
  <2> QED
    BY <2>1, <2>2, <2>3, ServeType, ServeWrote, Zenon DEF Next, Outside
<1>3. NothingYet => FailedBatchChangesNothing
    BY DEF NothingYet, FailedBatchChangesNothing
<1> QED
    BY <1>1, <1>2, <1>3, PTL DEF Spec

-----------------------------------------------------------------------------
(* Clients between two groups *)

\* A client is in a group or on its way into one.
Kept(c) ==
    \/ \E m \in memberships : m[1] = c
    \/ \E h \in Handlers : Moving(h) /\ Head(todo[h]) = c

\* A step of h that takes with reason the clients out, and keeps the others in
\* a group or on their way.
LEMMA PlacedStep ==
    ASSUME TypeInv, PlacedKeepGroup, NEW h \in Handlers, OthersKeep(h),
           placed' \subseteq placed \cup {m[1] : m \in memberships'},
           \A m \in memberships : m[1] \in placed' =>
               (\E n \in memberships' : n[1] = m[1]) \/ (Moving(h)' /\ Head(todo'[h]) = m[1]),
           Moving(h) /\ Head(todo[h]) \in placed' =>
               (\E n \in memberships' : n[1] = Head(todo[h])) \/ (Moving(h)' /\ Head(todo'[h]) = Head(todo[h]))
    PROVE  PlacedKeepGroup'
<1> SUFFICES ASSUME NEW c \in placed' PROVE Kept(c)'
    BY DEF PlacedKeepGroup, Kept
<1>1. CASE \E m \in memberships' : m[1] = c
    BY <1>1, Zenon DEF Kept
<1>2. CASE c \in placed
  <2>1. CASE \E m \in memberships : m[1] = c
    BY <2>1 DEF Kept
  <2>2. ASSUME NEW k \in Handlers, Moving(k), Head(todo[k]) = c PROVE Kept(c)'
    <3>1. CASE k = h
      BY <2>2, <3>1, Zenon DEF Kept
    <3>2. CASE k # h
      BY <2>2, <3>2, Zenon DEF Kept, Moving, OthersKeep
    <3> QED
      BY <3>1, <3>2, Zenon
  <2> QED
    BY <1>2, <2>1, <2>2, Zenon DEF PlacedKeepGroup
<1> QED
    BY <1>1, <1>2, Zenon

LEMMA ServePlaced ==
    ASSUME TypeInv, PlacedKeepGroup, NEW h \in Handlers, Serve(h)
    PROVE  PlacedKeepGroup'
<1>0. TypeInv' /\ OthersKeep(h)
    BY ServeType, Zenon
<1>1. CheckGroup(h) \/ Finish(h) \/ AddClient(h) \/ AddInsert(h) \/ RemoveClient(h) \/ BindRule(h)
      \/ BindInsert(h) \/ UnbindRule(h) => PlacedKeepGroup'
  <2> SUFFICES ASSUME CheckGroup(h) \/ Finish(h) \/ AddClient(h) \/ AddInsert(h) \/ RemoveClient(h) \/ BindRule(h)
                      \/ BindInsert(h) \/ UnbindRule(h)
               PROVE  PlacedKeepGroup'
    BY Zenon
  <2>1. UNCHANGED <<memberships, placed>>
    BY Zenon DEF CheckGroup, Finish, AddClient, AddInsert, RemoveClient, BindRule, BindInsert, UnbindRule,
       tables, history
  <2>2. ~Moving(h)
    BY Zenon DEF CheckGroup, Finish, AddClient, AddInsert, RemoveClient, BindRule, BindInsert, UnbindRule,
       InLoop, AtEnd,
       Moving
  <2> QED
    BY <1>0, <2>1, <2>2, PlacedStep, Zenon
<1>2. CASE Fail(h)
  <2>1. memberships' = memberships
    BY <1>2, Zenon DEF Fail, tables
  <2>2. placed' \subseteq placed \cup {m[1] : m \in memberships'}
    BY <1>2, Zenon DEF Fail, Placed
  <2>3. Moving(h) /\ Head(todo[h]) \in placed' => \E n \in memberships' : n[1] = Head(todo[h])
    BY <1>2 DEF Fail, Placed
  <2> QED
    BY <1>0, <2>1, <2>2, <2>3, PlacedStep, Zenon
<1>3. CASE Commit(h)
  <2>1. placed' \subseteq placed \cup {m[1] : m \in memberships'}
    BY <1>3 DEF Commit, Placed
  <2>2. ASSUME NEW m \in memberships, m[1] \in placed', m \notin memberships'
        PROVE  \E n \in memberships' : n[1] = m[1]
    <3>1. m \in tx[h].del
      BY <1>3, <2>2, Zenon DEF Commit
    <3>2. m[1] \in {x[1] : x \in memberships'}
      BY <1>3, <2>2, <3>1, Zenon DEF Commit, Placed
    <3> QED
      BY <3>2
  <2>3. ~Moving(h)
    BY <1>3 DEF Commit, AtEnd, Moving
  <2> QED
    BY <1>0, <2>1, <2>2, <2>3, PlacedStep, Zenon
<1>4. CASE MoveOut(h)
  <2>1. placed' \subseteq placed \cup {m[1] : m \in memberships'}
    BY <1>4, Zenon DEF MoveOut, Placed
  <2>2. ~Moving(h)
    BY <1>4 DEF MoveOut, InLoop, Moving
  <2>3. ASSUME NEW m \in memberships, m[1] \in placed', m \notin memberships'
        PROVE  (\E n \in memberships' : n[1] = m[1]) \/ (Moving(h)' /\ Head(todo'[h]) = m[1])
    <3>1. m[1] = Head(todo[h])
      BY <1>4, <2>3 DEF MoveOut
    <3>2. CASE Goto(h, "target") /\ UNCHANGED todo
      BY <1>4, <3>1, <3>2, Zenon DEF MoveOut, InLoop, Goto, Moving, TypeInv, TypeOK
    <3>3. CASE ~(Goto(h, "target") /\ UNCHANGED todo)
      BY <1>4, <2>3, <3>3 DEF MoveOut, Placed
    <3> QED
      BY <3>2, <3>3, Zenon
  <2> QED
    BY <1>0, <2>1, <2>2, <2>3, PlacedStep, Zenon
<1>5. CASE MoveTarget(h)
  <2>1. memberships' = memberships /\ placed' \subseteq placed \cup {m[1] : m \in memberships'}
    BY <1>5 DEF MoveTarget, Placed, tables
  <2>2. Moving(h) /\ Head(todo[h]) \in placed' =>
            (\E n \in memberships' : n[1] = Head(todo[h])) \/ (Moving(h)' /\ Head(todo'[h]) = Head(todo[h]))
    <3>1. CASE request[h].to \in groups
      BY <1>5, <3>1, Zenon DEF MoveTarget, Goto, Moving, TypeInv, TypeOK
    <3>2. CASE request[h].to \notin groups
      <4>1. Placed({Head(todo[h])})
        BY <1>5, <3>2, Zenon DEF MoveTarget
      <4> QED
        BY <4>1 DEF Placed
    <3> QED
      BY <3>1, <3>2, Zenon
  <2> QED
    BY <1>0, <2>1, <2>2, PlacedStep, Zenon
<1>6. CASE MoveIn(h)
  <2>1. memberships \subseteq memberships' /\ placed' \subseteq placed \cup {m[1] : m \in memberships'}
    BY <1>6 DEF MoveIn, Placed
  <2>2. \E n \in memberships' : n[1] = Head(todo[h])
    <3> DEFINE row == <<Head(todo[h]), request[h].to>>
    <3>1. row \in memberships'
      BY <1>6 DEF MoveIn
    <3>2. row[1] = Head(todo[h])
      BY Zenon
    <3> HIDE DEF row
    <3> QED
      BY <3>1, <3>2, Zenon
  <2> QED
    BY <1>0, <2>1, <2>2, PlacedStep, Zenon
<1>7. CASE DeleteGroup(h)
  <2>1. placed' \subseteq placed \cup {m[1] : m \in memberships'}
    BY <1>7 DEF DeleteGroup, Placed
  <2>2. ASSUME NEW m \in memberships, m[1] \in placed', m \notin memberships'
        PROVE  \E n \in memberships' : n[1] = m[1]
    <3>1. m \in {x \in memberships : x[2] = request[h].group}
      BY <1>7, <2>2, ZenonT(30) DEF DeleteGroup
    <3>2. m[1] \in {x[1] : x \in memberships'}
      BY <1>7, <2>2, <3>1, ZenonT(30) DEF DeleteGroup, Placed
    <3> QED
      BY <3>2
  <2>3. ~Moving(h)
    BY <1>7, Zenon DEF DeleteGroup, AtEnd, Moving
  <2> QED
    BY <1>0, <2>1, <2>2, <2>3, PlacedStep, Zenon
<1> QED
    BY <1>1, <1>2, <1>3, <1>4, <1>5, <1>6, <1>7, Zenon DEF Serve

\* For any requests: a client put into a group stays in a group or on its way
\* into one until a request takes it out or its move cannot go on.
THEOREM PlacedCorrect == Spec => []PlacedKeepGroup
<1>1. Init => TypeInv /\ PlacedKeepGroup
    BY InitTypeInv DEF Init, PlacedKeepGroup
<1>2. TypeInv /\ PlacedKeepGroup /\ [Next]_vars => TypeInv' /\ PlacedKeepGroup'
  <2> SUFFICES ASSUME TypeInv, PlacedKeepGroup, [Next]_vars PROVE TypeInv' /\ PlacedKeepGroup'
    OBVIOUS
  <2>1. CASE UNCHANGED vars
    BY <2>1, Zenon DEF vars, tables, local, history, TypeInv, TypeOK, ControlOK, Holds, OwnRows,
       PlacedKeepGroup, Moving
  <2>2. ASSUME NEW h \in Handlers, NEW r \in Requests, Begin(h, r) PROVE TypeInv' /\ PlacedKeepGroup'
    <3>1. TypeInv' /\ OthersKeep(h)
      BY <2>2, BeginType
    <3>2. UNCHANGED <<memberships, placed>> /\ ~Moving(h)
      BY <2>2 DEF Begin, tables, history, Moving
    <3> QED
      BY <3>1, <3>2, PlacedStep
  <2>3. CASE Outside
    BY <2>3, OutsideType, Zenon DEF local, PlacedKeepGroup, Moving
  <2> QED
    BY <2>1, <2>2, <2>3, ServeType, ServePlaced DEF Next, Outside
<1> QED
    BY <1>1, <1>2, PTL DEF Spec

-----------------------------------------------------------------------------
(* What the answers count *)

\* The list names nothing twice.
Distinct(s) == \A i, j \in 1..Len(s) : s[i] = s[j] => i = j

\* The rows a handler has changed, those of its open transaction included.
Changed(h) == tx[h].ins \cup tx[h].del \cup wrote[h]

Counting(h) == request[h].op \in {"add", "remove", "bind", "unbind"}

\* The count is that of the rows changed so far.  It stays so because no row is
\* changed twice: an INSERT of a batch is of a row its transaction does not hold,
\* and the rules still to be handled are other rules than those handled.
Tally(h) ==
    /\ pc[h] = "idle" => count[h] = 0
    /\ pc[h] \notin {"idle", "error"} /\ Counting(h) =>
          IsFiniteSet(Changed(h)) /\ count[h] = Cardinality(Changed(h))
    /\ pc[h] = "insert" /\ request[h].op = "add" => Row(h) \notin tx[h].ins
    /\ pc[h] \notin {"idle", "error"} /\ request[h].op \in {"bind", "unbind"} =>
          /\ Distinct(todo[h])
          /\ \A i \in 1..Len(todo[h]) : <<request[h].group, todo[h][i]>> \notin wrote[h]

CountInv == TypeInv /\ NothingYet /\ \A h \in Handlers : Tally(h)

\* A step of h that leaves the others' counts alone.
OthersTally(h) == \A k \in Handlers \ {h} : wrote'[k] = wrote[k] /\ count'[k] = count[k]

LEMMA OwnTally ==
    ASSUME CountInv, TypeInv', NothingYet', NEW h \in Handlers, OthersKeep(h), OthersTally(h), Tally(h)'
    PROVE  CountInv'
<1> SUFFICES ASSUME NEW k \in Handlers PROVE Tally(k)'
    BY DEF CountInv
<1>1. CASE k = h
    BY <1>1
<1>2. CASE k # h
  <2>1. /\ request'[k] = request[k] /\ pc'[k] = pc[k] /\ todo'[k] = todo[k] /\ tx'[k] = tx[k]
        /\ wrote'[k] = wrote[k] /\ count'[k] = count[k]
    BY <1>2, Zenon DEF OthersKeep, OthersTally
  <2>2. Tally(k)
    BY DEF CountInv
  <2> QED
    BY <2>1, <2>2, ZenonT(30) DEF Tally, Counting, Changed, Row
<1> QED
    BY <1>1, <1>2

LEMMA NoTxRows == NoTx.ins = {} /\ NoTx.del = {}
BY DEF NoTx

\* One more row, and one more counted.
LEMMA OneMore ==
    ASSUME NEW S, NEW T, NEW x, NEW n, NEW m, IsFiniteSet(S), n = Cardinality(S),
           T = S \cup {x}, x \notin S, m = n + 1
    PROVE  IsFiniteSet(T) /\ m = Cardinality(T)
BY FS_AddElement

\* The rules left after the first of a list without repetitions.
LEMMA RestOfList ==
    ASSUME NEW s \in Seq(Rules), s # <<>>, Distinct(s)
    PROVE  /\ Distinct(Tail(s))
           /\ \A i \in 1..Len(Tail(s)) : i + 1 \in 1..Len(s) /\ Tail(s)[i] = s[i + 1] /\ Tail(s)[i] # Head(s)
<1>1. /\ Len(s) \in Nat \ {0} /\ Len(Tail(s)) = Len(s) - 1 /\ Head(s) = s[1]
      /\ \A i \in 1..Len(Tail(s)) : Tail(s)[i] = s[i + 1]
    BY HeadTailProperties
<1>2. \A i \in 1..Len(Tail(s)) : i + 1 \in 1..Len(s) /\ i + 1 # 1 /\ 1 \in 1..Len(s)
    BY <1>1
<1> QED
    BY <1>1, <1>2 DEF Distinct

\* A step that neither writes nor counts, and leaves its list or shortens it.
LEMMA QuietTally ==
    ASSUME CountInv, TypeInv', NEW h \in Handlers, UNCHANGED <<request, tx, count, wrote>>,
           pc[h] \notin {"idle", "error"}, pc'[h] # "idle",
           todo'[h] = todo[h] \/ (todo[h] # <<>> /\ todo'[h] = Tail(todo[h])),
           pc'[h] = "insert" /\ request[h].op = "add" => Row(h)' \notin tx[h].ins
    PROVE  Tally(h)'
<1>1. Tally(h) /\ Holds(h)
    BY DEF CountInv, TypeInv, ControlOK
<1>2. Changed(h)' = Changed(h) /\ Counting(h)' = Counting(h)
    BY Zenon DEF Changed, Counting
<1>3. ASSUME request[h].op \in {"bind", "unbind"}
      PROVE  /\ Distinct(todo[h])'
             /\ \A i \in 1..Len(todo'[h]) : <<request[h].group, todo'[h][i]>> \notin wrote[h]
  <2>1. todo[h] \in Seq(Rules) /\ Distinct(todo[h])
    BY <1>1, <1>3, Zenon DEF Tally, Holds
  <2>2. \A i \in 1..Len(todo[h]) : <<request[h].group, todo[h][i]>> \notin wrote[h]
    BY <1>1, <1>3, Zenon DEF Tally
  <2>3. CASE todo'[h] = todo[h]
    BY <2>1, <2>2, <2>3, Zenon DEF Distinct
  <2>4. CASE todo[h] # <<>> /\ todo'[h] = Tail(todo[h])
    <3>1. /\ Distinct(Tail(todo[h]))
          /\ \A i \in 1..Len(Tail(todo[h])) :
                i + 1 \in 1..Len(todo[h]) /\ Tail(todo[h])[i] = todo[h][i + 1]
      BY <2>1, <2>4, RestOfList, Zenon
    <3> QED
      BY <2>2, <2>4, <3>1 DEF Distinct
  <2> QED
    BY <2>3, <2>4, Zenon
<1> QED
    BY <1>1, <1>2, <1>3, Zenon DEF Tally, Counting

LEMMA BatchTally ==
    ASSUME CountInv, NEW h \in Handlers, AddInsert(h) \/ RemoveClient(h) \/ Commit(h), TypeInv'
    PROVE  Tally(h)'
<1>1. Tally(h) /\ Holds(h) /\ OwnRows(h)
    BY Zenon DEF CountInv, TypeInv, ControlOK, AddInsert, RemoveClient, InLoop, Commit, AtEnd
<1>2. /\ tx \in TxType /\ count[h] \in Nat /\ count \in [Handlers -> Nat]
      /\ wrote \in [Handlers -> SUBSET (Member \cup Binding)]
    BY Zenon DEF CountInv, TypeInv, TypeOK, TxType
<1>3. /\ request' = request /\ request[h].op \in {"add", "remove"}
      /\ pc[h] \in {"loop", "insert"} /\ pc'[h] \in {"loop", "error", "done"}
    BY DEF AddInsert, RemoveClient, Commit, AtEnd, InLoop, Goto, CountInv, TypeInv, TypeOK
<1>4. IsFiniteSet(Changed(h)) /\ count[h] = Cardinality(Changed(h)) /\ wrote[h] = {}
    BY <1>1, <1>3, ZenonT(30) DEF Tally, Counting, CountInv, NothingYet
<1>5. pc'[h] # "error" => IsFiniteSet(Changed(h)') /\ count'[h] = Cardinality(Changed(h)')
  <2>1. CASE AddInsert(h)
    <3> SUFFICES ASSUME pc'[h] # "error"
                 PROVE  IsFiniteSet(Changed(h)') /\ count'[h] = Cardinality(Changed(h)')
      OBVIOUS
    <3>1. tx' = [tx EXCEPT ![h].ins = @ \cup {Row(h)}] /\ Counted(h, 1) /\ wrote' = wrote
      BY <2>1 DEF AddInsert, Goto, history, CountInv, TypeInv, TypeOK
    <3>2. Changed(h)' = Changed(h) \cup {Row(h)}
      <4>1. tx'[h].ins = tx[h].ins \cup {Row(h)} /\ tx'[h].del = tx[h].del
        BY <1>2, <3>1, TxIns, Zenon
      <4> QED
        BY <3>1, <4>1 DEF Changed
    <3>3. Row(h) \notin Changed(h)
      BY <1>1, <1>4, <2>1 DEF Changed, Tally, AddInsert, OwnRows
    <3>4. count'[h] = count[h] + 1
      BY <1>2, <3>1, Zenon DEF Counted
    <3> QED
      BY <1>4, <3>2, <3>3, <3>4, OneMore, Zenon
  <2>2. CASE RemoveClient(h)
    <3>0. wrote' = wrote /\ tx[h].ins = {}
      BY <1>1, <2>2, Zenon DEF RemoveClient, InLoop, history, OwnRows
    <3>1. CASE Row(h) \in memberships \ tx[h].del
      <4>1. tx' = [tx EXCEPT ![h].del = @ \cup {Row(h)}] /\ Counted(h, 1)
        BY <2>2, <3>1, Zenon DEF RemoveClient
      <4>2. Changed(h)' = Changed(h) \cup {Row(h)}
        <5>1. tx'[h].del = tx[h].del \cup {Row(h)} /\ tx'[h].ins = tx[h].ins
          BY <1>2, <4>1, TxDel, Zenon
        <5> QED
          BY <3>0, <5>1 DEF Changed
      <4>3. Row(h) \notin Changed(h)
        BY <1>4, <3>0, <3>1, Zenon DEF Changed
      <4>4. count'[h] = count[h] + 1
        BY <1>2, <4>1 DEF Counted
      <4> QED
        BY <1>4, <4>2, <4>3, <4>4, OneMore, Zenon
    <3>2. CASE Row(h) \notin memberships \ tx[h].del
      BY <1>4, <2>2, <3>0, <3>2, Zenon DEF RemoveClient, Changed
    <3> QED
      BY <3>1, <3>2, Zenon
  <2>3. CASE Commit(h)
    <3>1. tx'[h].ins = {} /\ tx'[h].del = {} /\ count' = count
      BY <1>2, <2>3, Zenon DEF Commit, NoTx, TxType
    <3>2. wrote'[h] = wrote[h] \cup tx[h].del \cup tx[h].ins
      BY <1>2, <2>3, Zenon DEF Commit, Wrote
    <3>3. Changed(h)' = Changed(h)
      BY <3>1, <3>2 DEF Changed
    <3> QED
      BY <1>4, <3>1, <3>3
  <2> QED
    BY <2>1, <2>2, <2>3, Zenon
<1> QED
    BY <1>3, <1>5, Zenon DEF Tally, Counting

LEMMA RuleTally ==
    ASSUME CountInv, NEW h \in Handlers, BindInsert(h) \/ UnbindRule(h), TypeInv'
    PROVE  Tally(h)'
<1>1. Tally(h) /\ Holds(h)
    BY Zenon DEF CountInv, TypeInv, ControlOK, BindInsert, UnbindRule, InLoop
<1>2. /\ count[h] \in Nat /\ count \in [Handlers -> Nat] /\ todo \in [Handlers -> Seq(Clients) \cup Seq(Rules)]
      /\ wrote \in [Handlers -> SUBSET (Member \cup Binding)] /\ pc \in [Handlers -> Closed \cup {"check", "loop", "target", "insert"}]
    BY DEF CountInv, TypeInv, TypeOK
<1>3. /\ UNCHANGED <<request, tx>> /\ request[h].op \in {"bind", "unbind"} /\ pc[h] \in {"loop", "insert"}
      /\ pc'[h] \in {"loop", "error"} /\ todo[h] # <<>> /\ todo[h] \in Seq(Rules)
    BY <1>1, <1>2, ZenonT(30) DEF BindInsert, UnbindRule, InLoop, Goto, Holds
<1>4. /\ IsFiniteSet(Changed(h)) /\ count[h] = Cardinality(Changed(h)) /\ Distinct(todo[h])
      /\ \A i \in 1..Len(todo[h]) : <<request[h].group, todo[h][i]>> \notin wrote[h]
    BY <1>1, <1>3, Zenon DEF Tally, Counting
<1>5. tx[h].ins = {} /\ tx[h].del = {}
  <2>1. tx[h] = NoTx
    BY <1>3, ZenonT(30) DEF CountInv, TypeInv, TypeOK
  <2> QED
    BY <2>1, NoTxRows
<1>6. Bound(h) \notin Changed(h)
  <2>0. todo[h] \in Seq(Rules) /\ todo[h] # <<>>
    BY <1>3
  <2>1. 1 \in 1..Len(todo[h]) /\ Head(todo[h]) = todo[h][1]
    <3>1. Len(todo[h]) \in Nat /\ Len(todo[h]) # 0
      BY ONLY <2>0, EmptySeq, LenProperties, Zenon
    <3>2. Head(todo[h]) = todo[h][1]
      BY ONLY <2>0
    <3> QED
      BY ONLY <3>1, <3>2
  <2> QED
    BY <1>4, <1>5, <2>1, Zenon DEF Bound, Changed
<1>7. CASE pc'[h] = "error"
    BY <1>3, <1>7 DEF Tally
<1>8. CASE pc'[h] # "error"
  <2>1. /\ todo'[h] = Tail(todo[h])
        /\ \/ wrote'[h] = wrote[h] \cup {Bound(h)} /\ count'[h] = count[h] + 1
           \/ wrote'[h] = wrote[h] /\ count'[h] = count[h]
    <3>1. CASE BindInsert(h)
      <4>1. Pop(h) /\ Wrote(h, {Bound(h)}) /\ Counted(h, 1)
        BY <1>2, <1>8, <3>1, Zenon DEF BindInsert, Goto
      <4> QED
        BY <1>2, <4>1, Zenon DEF Pop, Wrote, Counted
    <3>2. CASE UnbindRule(h)
      <4>1. /\ Pop(h) /\ Wrote(h, {Bound(h)} \cap bindings)
            /\ Counted(h, Cardinality({Bound(h)} \cap bindings))
        BY <3>2 DEF UnbindRule
      <4>2. CASE Bound(h) \in bindings
        <5>1. {Bound(h)} \cap bindings = {Bound(h)} /\ Cardinality({Bound(h)}) = 1
          BY <4>2, FS_Singleton, Zenon
        <5>2. todo'[h] = Tail(todo[h]) /\ wrote'[h] = wrote[h] \cup {Bound(h)}
          BY <1>2, <4>1, <5>1, Zenon DEF Pop, Wrote
        <5>3. Counted(h, 1)
          BY <4>1, <5>1
        <5>4. count'[h] = count[h] + 1
          BY <1>2, <5>3, Zenon DEF Counted
        <5> QED
          BY <5>2, <5>4
      <4>3. CASE Bound(h) \notin bindings
        <5>1. {Bound(h)} \cap bindings = {} /\ Cardinality({}) = 0
          BY <4>3, FS_EmptySet, Zenon
        <5>2. todo'[h] = Tail(todo[h]) /\ wrote'[h] = wrote[h]
          BY <1>2, <4>1, <5>1, Zenon DEF Pop, Wrote
        <5>3. Counted(h, 0)
          BY <4>1, <5>1, Zenon
        <5>4. count'[h] = count[h]
          BY <1>2, <5>3 DEF Counted
        <5> QED
          BY <5>2, <5>4, Zenon
      <4> QED
        BY <4>2, <4>3, Zenon
    <3> QED
      BY <3>1, <3>2
  <2>2. IsFiniteSet(Changed(h)') /\ count'[h] = Cardinality(Changed(h)')
    <3>1. CASE wrote'[h] = wrote[h] \cup {Bound(h)} /\ count'[h] = count[h] + 1
      <4>1. Changed(h)' = Changed(h) \cup {Bound(h)}
        BY <1>3, <3>1, Zenon DEF Changed
      <4> QED
        BY <1>4, <1>6, <3>1, <4>1, OneMore, Zenon
    <3>2. CASE wrote'[h] = wrote[h] /\ count'[h] = count[h]
      BY <1>3, <1>4, <3>2, Zenon DEF Changed
    <3> QED
      BY <2>1, <3>1, <3>2, Zenon
  <2>3. /\ Distinct(Tail(todo[h]))
        /\ \A i \in 1..Len(Tail(todo[h])) :
              /\ i + 1 \in 1..Len(todo[h]) /\ Tail(todo[h])[i] = todo[h][i + 1]
              /\ Tail(todo[h])[i] # Head(todo[h])
    BY <1>3, <1>4, RestOfList, Zenon
  <2>4. \A i \in 1..Len(Tail(todo[h])) : <<request[h].group, Tail(todo[h])[i]>> \notin wrote'[h]
    <3> SUFFICES ASSUME NEW i \in 1..Len(Tail(todo[h]))
                 PROVE  <<request[h].group, Tail(todo[h])[i]>> \notin wrote'[h]
      BY Zenon
    <3>1. /\ Tail(todo[h])[i] = todo[h][i + 1] /\ Tail(todo[h])[i] # Head(todo[h])
          /\ <<request[h].group, todo[h][i + 1]>> \notin wrote[h]
      BY <1>4, <2>3, Zenon
    <3>2. <<request[h].group, Tail(todo[h])[i]>> # Bound(h)
      BY ONLY <3>1, Zenon DEF Bound
    <3> QED
      BY <2>1, <3>1, <3>2, Zenon
  <2> QED
    BY <1>3, <1>8, <2>1, <2>2, <2>3, <2>4, Zenon DEF Tally, Distinct
<1> QED
    BY <1>7, <1>8, Zenon

LEMMA ServeTally ==
    ASSUME CountInv, NEW h \in Handlers, Serve(h)
    PROVE  CountInv'
<1>0. TypeInv' /\ OthersKeep(h) /\ NothingYet'
    BY ServeType, ServeWrote, Zenon DEF CountInv
<1>1. OthersTally(h)
  <2>1. \A k \in Handlers \ {h} : wrote'[k] = wrote[k]
    BY Zenon DEF Serve, CheckGroup, Fail, Finish, AddClient, AddInsert, RemoveClient, Commit, MoveOut, MoveTarget,
       MoveIn, BindRule, BindInsert, UnbindRule, DeleteGroup, Wrote, history, CountInv, TypeInv, TypeOK
  <2>2. count' = count \/ \E n : Counted(h, n)
    BY Zenon DEF Serve, CheckGroup, Fail, Finish, AddClient, AddInsert, RemoveClient, Commit, MoveOut, MoveTarget,
       MoveIn, BindRule, BindInsert, UnbindRule, DeleteGroup
  <2>3. \A k \in Handlers \ {h} : count'[k] = count[k]
    BY <2>2, Zenon DEF Counted, CountInv, TypeInv, TypeOK
  <2> QED
    BY <2>1, <2>3, Zenon DEF OthersTally
<1>2. CASE CheckGroup(h) \/ Fail(h) \/ Finish(h) \/ DeleteGroup(h)
  <2>1. /\ UNCHANGED <<request, todo, count, wrote>> /\ pc[h] \notin {"idle", "error"}
        /\ pc'[h] \in {"loop", "error", "done"}
    BY <1>2, Zenon DEF CheckGroup, Fail, Finish, DeleteGroup, AtEnd, Closed, Goto, history, CountInv, TypeInv, TypeOK
  <2>2. CASE Fail(h)
    <3>1. pc'[h] = "error"
      BY <2>2 DEF Fail, Goto, CountInv, TypeInv, TypeOK
    <3>2. Tally(h)'
      BY <3>1, Zenon DEF Tally
    <3> QED
      BY <1>0, <1>1, <3>2, OwnTally, Zenon
  <2>3. CASE CheckGroup(h) \/ Finish(h) \/ DeleteGroup(h)
    <3>1. tx' = tx
      BY <2>3, Zenon DEF CheckGroup, Finish, DeleteGroup
    <3> QED
      BY <1>0, <1>1, <2>1, <3>1, QuietTally, OwnTally, Zenon
  <2> QED
    BY <1>2, <2>2, <2>3, Zenon
<1>3. CASE AddClient(h) \/ BindRule(h)
  <2>1. /\ UNCHANGED <<request, tx, count, wrote>> /\ pc[h] = "loop" /\ todo[h] # <<>>
        /\ pc'[h] \in {"loop", "error", "insert"}
        /\ todo'[h] = todo[h] \/ todo'[h] = Tail(todo[h])
    BY <1>3, Zenon DEF AddClient, BindRule, InLoop, Pop, Goto, history, CountInv, TypeInv, TypeOK
  <2>2. ASSUME pc'[h] = "insert", request[h].op = "add" PROVE Row(h)' \notin tx[h].ins
    <3>1. AddClient(h) /\ pc' # pc
      BY <1>3, <2>1, <2>2, Zenon DEF BindRule, InLoop
    <3>2. Row(h) \notin tx[h].ins /\ todo' = todo
      BY <3>1, Zenon DEF AddClient
    <3> QED
      BY <2>1, <3>2 DEF Row
  <2> QED
    BY <1>0, <1>1, <2>1, <2>2, QuietTally, OwnTally, Zenon
<1>4. CASE MoveOut(h) \/ MoveTarget(h) \/ MoveIn(h)
  <2>1. request' = request /\ request[h].op = "move" /\ pc'[h] # "idle"
    BY <1>4, ZenonT(30) DEF MoveOut, MoveTarget, MoveIn, InLoop, Goto, CountInv, TypeInv, TypeOK, ControlOK, Holds
  <2>2. Tally(h)'
    BY <2>1, Zenon DEF Tally, Counting
  <2> QED
    BY <1>0, <1>1, <2>2, OwnTally
<1>5. CASE AddInsert(h) \/ RemoveClient(h) \/ Commit(h)
    BY <1>0, <1>1, <1>5, BatchTally, OwnTally
<1>6. CASE BindInsert(h) \/ UnbindRule(h)
    BY <1>0, <1>1, <1>6, RuleTally, OwnTally
<1> QED
    BY <1>2, <1>3, <1>4, <1>5, <1>6, Zenon DEF Serve

\* A request begins with nothing counted and with its whole list.
LEMMA BeginTally ==
    ASSUME CountInv, NEW h \in Handlers, NEW r \in Requests, Begin(h, r),
           r.op \in {"bind", "unbind"} => Distinct(r.items)
    PROVE  CountInv'
<1>1. TypeInv' /\ OthersKeep(h)
    BY BeginType, Zenon DEF CountInv
<1>2. /\ UNCHANGED <<tx, count, wrote>> /\ pc[h] = "idle" /\ request'[h] = r /\ todo'[h] = Items(r)
      /\ pc'[h] \in {"loop", "check"}
    BY DEF Begin, Goto, history, CountInv, TypeInv, TypeOK
<1>3. NothingYet' /\ OthersTally(h) /\ wrote[h] = {}
    BY <1>1, <1>2, ZenonT(30) DEF CountInv, NothingYet, OthersKeep, OthersTally
<1>4. tx[h] = NoTx /\ count[h] = 0
    BY <1>2, Zenon DEF CountInv, Tally, TypeInv, TypeOK
<1>5. Changed(h)' = {}
    BY <1>2, <1>3, <1>4, NoTxRows, Zenon DEF Changed
<1>6. IsFiniteSet({}) /\ Cardinality({}) = 0
    BY FS_EmptySet
<1>7. r.op \in {"bind", "unbind"} => Items(r) = r.items
    BY Zenon DEF Items
<1>8. Tally(h)'
  <2>1. IsFiniteSet(Changed(h)') /\ count'[h] = Cardinality(Changed(h)')
    BY <1>2, <1>4, <1>5, <1>6, Zenon
  <2>2. request'[h].op \in {"bind", "unbind"} => Distinct(todo'[h])
    BY <1>2, <1>7
  <2>3. wrote'[h] = {} /\ pc'[h] \notin {"idle", "insert"}
    BY <1>2, <1>3, Zenon
  <2> QED
    BY <2>1, <2>2, <2>3, Zenon DEF Tally
<1> QED
    BY <1>1, <1>3, <1>8, OwnTally, Zenon

\* What batch_add_clients, batch_remove_clients, batch_bind_rules and
\* batch_unbind_rules answer is the number of rows they changed, for any requests,
\* as long as no list of rules names a rule twice: then another request can undo
\* the first change of its row, and the second is counted as well.
THEOREM CountsCorrect ==
    ASSUME \A r \in Requests : r.op \in {"bind", "unbind"} => Distinct(r.items)
    PROVE  Spec => []CountsExact
<1>1. Init => CountInv
  <2> SUFFICES ASSUME Init PROVE CountInv
    OBVIOUS
  <2>1. \A h \in Handlers : pc[h] = "idle" /\ count[h] = 0 /\ wrote[h] = {}
    BY Zenon DEF Init
  <2>2. \A h \in Handlers : Tally(h)
    BY <2>1, Zenon DEF Tally
  <2>3. NothingYet
    BY <2>1 DEF NothingYet
  <2> QED
    BY <2>2, <2>3, InitTypeInv DEF CountInv
<1>2. CountInv /\ [Next]_vars => CountInv'
  <2> SUFFICES ASSUME CountInv, [Next]_vars PROVE CountInv'
    OBVIOUS
  <2>1. CASE UNCHANGED vars
    BY <2>1, Zenon DEF vars, tables, local, history, CountInv, TypeInv, TypeOK, ControlOK, Holds, OwnRows, NothingYet,
       Tally, Counting, Changed, Row
  <2>2. CASE Outside
    <3>1. TypeInv' /\ UNCHANGED <<request, pc, todo, tx, count, wrote>>
      BY <2>2, OutsideType DEF CountInv, local
    <3>2. NothingYet'
      BY <3>1 DEF CountInv, NothingYet
    <3>3. \A h \in Handlers : Tally(h)'
      BY <3>1, Zenon DEF CountInv, Tally, Counting, Changed, Row
    <3> QED
      BY <3>1, <3>2, <3>3 DEF CountInv
  <2> QED
    BY <2>1, <2>2, ServeTally, BeginTally DEF Next, Outside
<1>3. CountInv => CountsExact
  <2> SUFFICES ASSUME CountInv, NEW h \in Handlers, pc[h] = "done", Counting(h)
               PROVE  count[h] = Cardinality(wrote[h])
    BY DEF CountsExact, Counting
  <2>1. tx[h] = NoTx
    BY Zenon DEF CountInv, TypeInv, TypeOK
  <2>2. Changed(h) = wrote[h]
    BY <2>1, NoTxRows DEF Changed
  <2> QED
    BY <2>2, Zenon DEF CountInv, Tally
<1> QED
    BY <1>1, <1>2, <1>3, PTL DEF Spec
=============================================================================

------------------------- MODULE FilterListsProofs -------------------------
(***************************************************************************)
(* Proofs about the way of a rule line into a rule set: FilterLists, for   *)
(* any lists, requests, faults and number of downloads; and RuleSet, for   *)
(* any lines, domains and limit of the regular expressions.  The inductive *)
(* invariant ListsInv says what each process knows: what the rows it has   *)
(* seen are, whether anybody else syncs its list, and who is still going   *)
(* to reload.  RuleInv says that the parts of a rule set are what its      *)
(* accepted lines add.                                                     *)
(***************************************************************************)
EXTENDS FilterLists, RuleSet, Integers, TLAPS

\* What holds of a process at the place where it is.
PlacesOK ==
    /\ \A l \in Lists : lists[l] # None => l \in created
    /\ \A p \in Procs :
          /\ job[p].at \in SyncPlaces \cup DeletePlaces \cup {"write"} => job[p].list \in created
          /\ job[p].at = "write" => job[p].row \in ListRow
          /\ job[p].at \in {"begin", "lock", "insert"} => job[p].gen \in 1..MaxDownloads
          /\ job[p].at \in {"lock", "insert", "del_lock"} => \A r \in job[p].sees : r.list = job[p].list
          /\ job[p].todo \subseteq created

\* A sync that is alone is the only one of its list, and has seen all its rules.
AloneOK ==
    \A p \in Procs :
        job[p].alone =>
            /\ job[p].at \in SyncPlaces =>
                  \A q \in Procs : job[q].at \in SyncPlaces /\ job[q].list = job[p].list => q = p
            /\ job[p].at \in {"lock", "insert"} => RowsOf(job[p].list) \subseteq job[p].sees

\* A list no sync of which raced a delete.
UnracedOK ==
    \A l \in Lists \ raced :
        /\ lists[l] = None => RowsOf(l) = {}
        /\ \A p \in Syncing(l) : lists[l] # None /\ Deleting(l) = {}
        /\ \A p \in Deleting(l) : /\ At(p, "del_lock") => RowsOf(l) \subseteq job[p].sees
                                  /\ At(p, "del_list") => RowsOf(l) = {}

\* p will load the rules that are stored now, unless that reload is lost.
Promised(p) ==
    \/ job[p].at \in {"metadata", "del_list", "read"}
    \/ p = Hourly /\ job[p].refreshed /\ job[p].at \in SyncPlaces \cup {"next"}
    \/ job[p].at = "store" /\ job[p].sees = rows

Pending == lags \/ \E p \in Procs : Promised(p)

EngineOK ==
    /\ engine = rows \/ Pending
    /\ \A p \in Procs : (job[p].at = "store" /\ job[p].alone /\ job[p].sees # rows) => Pending

ListsInv ==
    /\ TypeOK /\ PlacesOK
    /\ LastSyncKept
    /\ AloneOK /\ SoleSyncReplaces
    /\ UnracedOK
    /\ EngineOK

-----------------------------------------------------------------------------
(* Jobs *)

LEMMA IdleType ==
    /\ Idle \in Job /\ Idle.at = "idle" /\ Idle.todo = {} /\ Idle.alone /\ ~Idle.refreshed
    /\ Idle.list = None
BY ListsAssumption DEF Idle, Job, Places

LEMMA JobType ==
    ASSUME NEW j \in Job
    PROVE  /\ j.at \in Places /\ j.list \in Lists \cup {None} /\ j.gen \in 0..MaxDownloads
           /\ j.sees \subseteq RuleRow /\ j.row \in ListRow \cup {None} /\ j.alone \in BOOLEAN
           /\ j.todo \subseteq Lists /\ j.refreshed \in BOOLEAN
BY DEF Job

\* What changing some fields of a job makes of it.
LEMMA SetAt ==
    ASSUME NEW j \in Job, NEW at \in Places
    PROVE  LET k == [j EXCEPT !.at = at] IN
           /\ k \in Job /\ k.at = at /\ k.list = j.list /\ k.gen = j.gen /\ k.sees = j.sees
           /\ k.row = j.row /\ k.alone = j.alone /\ k.todo = j.todo /\ k.refreshed = j.refreshed
BY DEF Job

LEMMA SetAlone ==
    ASSUME NEW j \in Job, NEW alone \in BOOLEAN
    PROVE  LET k == [j EXCEPT !.alone = alone] IN
           /\ k \in Job /\ k.at = j.at /\ k.list = j.list /\ k.gen = j.gen /\ k.sees = j.sees
           /\ k.row = j.row /\ k.alone = alone /\ k.todo = j.todo /\ k.refreshed = j.refreshed
BY DEF Job

\* Only p's job changes.
Turn(p) == job' \in [Procs -> Job] /\ \A q \in Procs \ {p} : job'[q] = job[q]

LEMMA TurnTo ==
    ASSUME TypeOK, NEW p \in Procs, NEW j \in Job, job' = [job EXCEPT ![p] = j]
    PROVE  Turn(p) /\ job'[p] = j
BY DEF TypeOK, Turn

LEMMA InitListsInv == Init => ListsInv
<1> SUFFICES ASSUME Init PROVE ListsInv
    OBVIOUS
<1>1. TypeOK
  <2>1. 0 \in 0..MaxDownloads
    BY ListsAssumption
  <2> QED
    BY <2>1, IdleType, Zenon DEF Init, TypeOK
<1>2. \A p \in Procs : job[p] = Idle
    BY DEF Init
<1>3. PlacesOK
    BY <1>2, IdleType DEF Init, PlacesOK, SyncPlaces, DeletePlaces
<1>4. LastSyncKept /\ SoleSyncReplaces
    BY DEF Init, LastSyncKept, SoleSyncReplaces
<1>5. AloneOK
    BY <1>2, IdleType DEF AloneOK, SyncPlaces
<1>6. UnracedOK
    BY <1>2, IdleType DEF Init, UnracedOK, RowsOf, Syncing, Deleting, SyncPlaces, DeletePlaces
<1>7. EngineOK
    BY <1>2, IdleType DEF Init, EngineOK
<1> QED
    BY <1>1, <1>3, <1>4, <1>5, <1>6, <1>7 DEF ListsInv
-----------------------------------------------------------------------------
(* Turns that change no rule *)

\* p is through with the rules: it ends, waits for its write, its reload or its
\* next list.  A list is gone only after the last statement of delete.
Ends(p) ==
    /\ Turn(p) /\ job[p].at # "store" /\ job'[p].at \in {"idle", "write", "read", "next"}
    /\ job'[p].at = "write" => job'[p].list \in created /\ job'[p].row \in ListRow
    /\ job'[p].todo \subseteq created
    /\ Promised(p) => lags' \/ Promised(p)'
    /\ lags' \in {lags, TRUE}
    /\ lists' \in [Lists -> ListRow \cup {None}]
    /\ \A l \in Lists :
          /\ lists[l] = None => lists'[l] = None
          /\ lists'[l] = None /\ lists[l] # None => At(p, "del_list") /\ job[p].list = l
    /\ UNCHANGED <<rows, engine, created, downloads, last, overlapped, raced>>

\* p goes on with its transaction.
Within(p) ==
    /\ Turn(p)
    /\ job'[p].list = job[p].list /\ job'[p].alone = job[p].alone
    /\ job'[p].refreshed = job[p].refreshed /\ job'[p].todo = job[p].todo
    /\ \/ /\ At(p, "fetch") /\ job'[p].at = "begin" /\ job'[p].gen \in 1..MaxDownloads
       \/ /\ At(p, "begin") /\ job'[p].at = "lock"
          /\ job'[p].sees = RowsOf(job[p].list) /\ job'[p].gen = job[p].gen
       \/ /\ At(p, "lock") /\ job'[p].at = "insert"
          /\ job'[p].sees = job[p].sees /\ job'[p].gen = job[p].gen
       \/ /\ At(p, "del_rules") /\ job'[p].at = "del_lock"
          /\ job'[p].sees = RowsOf(job[p].list)
    /\ downloads' \in 0..MaxDownloads
    /\ UNCHANGED <<lists, rows, engine, created, history>>

\* A turn that changes no rule keeps the promise of a reload if p's own is kept.
LEMMA PendingKept ==
    ASSUME TypeOK, NEW p \in Procs, Turn(p), rows' = rows, lags => lags',
           Promised(p) => lags' \/ Promised(p)', Pending
    PROVE  Pending'
<1>1. CASE lags
    BY <1>1 DEF Pending
<1>2. ASSUME NEW q \in Procs, Promised(q), q # p PROVE Pending'
  <2>1. job'[q] = job[q]
    BY <1>2 DEF Turn
  <2>2. Promised(q)'
    BY <1>2, <2>1 DEF Promised
  <2> QED
    BY <2>2 DEF Pending
<1>3. CASE Promised(p)
    BY <1>3 DEF Pending
<1> QED
    BY <1>1, <1>2, <1>3 DEF Pending

LEMMA EndsInv ==
    ASSUME ListsInv, NEW p \in Procs, Ends(p)
    PROVE  ListsInv'
<1>0. TypeOK /\ PlacesOK /\ AloneOK /\ UnracedOK /\ EngineOK /\ LastSyncKept /\ SoleSyncReplaces
    BY DEF ListsInv
<1>1. /\ job' \in [Procs -> Job] /\ \A q \in Procs \ {p} : job'[q] = job[q]
      /\ job'[p].at \in {"idle", "write", "read", "next"}
      /\ UNCHANGED <<rows, engine, created, downloads, last, overlapped, raced>>
      /\ lags' \in {lags, TRUE}
    BY Zenon DEF Ends, Turn
<1>2. TypeOK'
    BY <1>0, <1>1, Zenon DEF Ends, TypeOK
<1>3. PlacesOK'
  <2>1. \A l \in Lists : lists'[l] # None => l \in created'
    BY <1>0, <1>1 DEF Ends, PlacesOK
  <2> QED
    BY <1>0, <1>1, <2>1 DEF Ends, PlacesOK, SyncPlaces, DeletePlaces
<1>4. LastSyncKept'
    BY <1>0, <1>1 DEF LastSyncKept
<1>5. SoleSyncReplaces'
    BY <1>0, <1>1 DEF SoleSyncReplaces, RowsOf
<1>6. \A l : RowsOf(l)' = RowsOf(l)
    BY <1>1 DEF RowsOf
<1>7. job'[p].at \notin SyncPlaces \cup DeletePlaces \cup {"store"}
    BY <1>1, Zenon DEF SyncPlaces, DeletePlaces
<1>8. AloneOK'
    BY <1>0, <1>1, <1>6, <1>7 DEF AloneOK, SyncPlaces
<1>9. UnracedOK'
  <2> SUFFICES ASSUME NEW l \in Lists \ raced
               PROVE  /\ lists'[l] = None => RowsOf(l)' = {}
                      /\ \A q \in Syncing(l)' : lists'[l] # None /\ Deleting(l)' = {}
                      /\ \A q \in Deleting(l)' : /\ At(q, "del_lock")' => RowsOf(l)' \subseteq job'[q].sees
                                                 /\ At(q, "del_list")' => RowsOf(l)' = {}
    BY <1>1 DEF UnracedOK
  <2>1. Syncing(l)' \subseteq Syncing(l) /\ Deleting(l)' \subseteq Deleting(l)
    BY <1>1, <1>7 DEF Syncing, Deleting
  <2>2. \A q \in Deleting(l)' : job'[q] = job[q]
    BY <1>1, <1>7 DEF Deleting
  <2>3. ASSUME lists'[l] = None, lists[l] # None PROVE RowsOf(l) = {} /\ Syncing(l) = {}
    <3>1. At(p, "del_list") /\ job[p].list = l
      BY <2>3 DEF Ends
    <3>2. p \in Deleting(l)
      BY <3>1 DEF Deleting, At, DeletePlaces
    <3> QED
      BY <1>0, <3>1, <3>2, Zenon DEF UnracedOK
  <2>4. lists'[l] = None => RowsOf(l)' = {}
    BY <1>0, <1>6, <2>3, Zenon DEF UnracedOK
  <2>5. ASSUME NEW q \in Syncing(l)' PROVE lists'[l] # None /\ Deleting(l)' = {}
    BY <1>0, <2>1, <2>3, <2>5, Zenon DEF UnracedOK
  <2>6. ASSUME NEW q \in Deleting(l)'
        PROVE  /\ At(q, "del_lock")' => RowsOf(l)' \subseteq job'[q].sees
               /\ At(q, "del_list")' => RowsOf(l)' = {}
    BY <1>0, <1>6, <2>1, <2>2, <2>6, Zenon DEF UnracedOK, At
  <2> QED
    BY <2>4, <2>5, <2>6
<1>10. EngineOK'
  <2>1. lags => lags'
    BY <1>1, Zenon
  <2>2. Pending => Pending'
    BY <1>0, <1>1, <2>1, PendingKept DEF Ends
  <2>3. \A q \in Procs : job'[q].at = "store" => job'[q] = job[q]
    BY <1>1, <1>7, Zenon
  <2> QED
    BY <1>0, <1>1, <2>2, <2>3 DEF EngineOK
<1> QED
    BY <1>2, <1>3, <1>4, <1>5, <1>8, <1>9, <1>10 DEF ListsInv

LEMMA WithinInv ==
    ASSUME ListsInv, NEW p \in Procs, Within(p)
    PROVE  ListsInv'
<1>0. TypeOK /\ PlacesOK /\ AloneOK /\ UnracedOK /\ EngineOK /\ LastSyncKept /\ SoleSyncReplaces
    BY DEF ListsInv
<1>1. /\ job' \in [Procs -> Job] /\ \A q \in Procs \ {p} : job'[q] = job[q]
      /\ UNCHANGED <<lists, rows, engine, created, last, overlapped, raced, lags>>
      /\ downloads' \in 0..MaxDownloads
      /\ job'[p].list = job[p].list /\ job'[p].alone = job[p].alone
      /\ job'[p].refreshed = job[p].refreshed /\ job'[p].todo = job[p].todo
    BY DEF Within, Turn, history
<1>2. TypeOK'
    BY <1>0, <1>1 DEF TypeOK
<1>3. \A l : RowsOf(l)' = RowsOf(l)
    BY <1>1, Zenon DEF RowsOf
<1>4. /\ job'[p].at \in SyncPlaces <=> job[p].at \in SyncPlaces
      /\ job'[p].at \in DeletePlaces <=> job[p].at \in DeletePlaces
      /\ job[p].at \in SyncPlaces \cup DeletePlaces
      /\ job[p].at \notin {"metadata", "del_list", "read", "store", "next"}
      /\ job'[p].at \in {"begin", "lock", "insert", "del_lock"}
    BY Zenon DEF Within, At, SyncPlaces, DeletePlaces
<1>5. job'[p].at \in {"begin", "lock", "insert"} => job'[p].gen \in 1..MaxDownloads
    BY <1>0, Zenon DEF Within, At, PlacesOK
<1>6. job'[p].at \in {"lock", "insert", "del_lock"} => \A r \in job'[p].sees : r.list = job[p].list
    BY <1>0, Zenon DEF Within, At, PlacesOK, RowsOf
<1>7. PlacesOK'
  <2>1. \A q \in Procs \ {p} :
          /\ job'[q].at \in SyncPlaces \cup DeletePlaces \cup {"write"} => job'[q].list \in created
          /\ job'[q].at = "write" => job'[q].row \in ListRow
          /\ job'[q].at \in {"begin", "lock", "insert"} => job'[q].gen \in 1..MaxDownloads
          /\ job'[q].at \in {"lock", "insert", "del_lock"} => \A r \in job'[q].sees : r.list = job'[q].list
          /\ job'[q].todo \subseteq created
    BY <1>0, <1>1 DEF PlacesOK
  <2>2. /\ job'[p].list \in created /\ job'[p].at # "write" /\ job'[p].todo \subseteq created
    BY <1>0, <1>1, <1>4 DEF PlacesOK
  <2> QED
    BY <1>0, <1>1, <1>5, <1>6, <2>1, <2>2, Zenon DEF PlacesOK
<1>8. LastSyncKept'
    BY <1>0, <1>1 DEF LastSyncKept
<1>9. SoleSyncReplaces'
    BY <1>0, <1>1, Zenon DEF SoleSyncReplaces, RowsOf
<1>10. AloneOK'
  <2>1. \A q \in Procs : /\ job'[q].at \in SyncPlaces <=> job[q].at \in SyncPlaces
                         /\ job'[q].list = job[q].list /\ job'[q].alone = job[q].alone
    BY <1>1, <1>4
  <2>2. (job'[p].alone /\ job'[p].at \in {"lock", "insert"}) => RowsOf(job[p].list) \subseteq job'[p].sees
    BY <1>0, <1>1, Zenon DEF Within, At, AloneOK
  <2> QED
    BY <1>0, <1>1, <1>3, <2>1, <2>2 DEF AloneOK
<1>11. UnracedOK'
  <2> SUFFICES ASSUME NEW l \in Lists \ raced
               PROVE  /\ lists'[l] = None => RowsOf(l)' = {}
                      /\ \A q \in Syncing(l)' : lists'[l] # None /\ Deleting(l)' = {}
                      /\ \A q \in Deleting(l)' : /\ At(q, "del_lock")' => RowsOf(l)' \subseteq job'[q].sees
                                                 /\ At(q, "del_list")' => RowsOf(l)' = {}
    BY <1>1, Zenon DEF UnracedOK
  <2>1. \A q \in Procs : /\ job'[q].at \in SyncPlaces <=> job[q].at \in SyncPlaces
                         /\ job'[q].at \in DeletePlaces <=> job[q].at \in DeletePlaces
                         /\ job'[q].list = job[q].list
    BY <1>1, <1>4
  <2>2. Syncing(l)' = Syncing(l) /\ Deleting(l)' = Deleting(l)
    BY <2>1 DEF Syncing, Deleting
  <2>3. ASSUME NEW q \in Deleting(l)
        PROVE  /\ At(q, "del_lock")' => RowsOf(l)' \subseteq job'[q].sees
               /\ At(q, "del_list")' => RowsOf(l)' = {}
    <3>1. CASE q # p
      BY <1>0, <1>1, <1>3, <2>3, <3>1, Zenon DEF UnracedOK, At, Deleting
    <3>2. CASE q = p
      <4>1. job[p].list = l
        BY <2>3, <3>2, Zenon DEF Deleting
      <4> QED
        BY <1>3, <1>4, <3>2, <4>1 DEF Within, At
    <3> QED
      BY <3>1, <3>2, Zenon
  <2> QED
    BY <1>0, <1>1, <1>3, <2>2, <2>3, Zenon DEF UnracedOK
<1>12. EngineOK'
  <2>1. Promised(p) => Promised(p)'
    BY <1>1, <1>4, Zenon DEF Promised
  <2>2. Pending => Pending'
    BY <1>0, <1>1, <2>1, PendingKept, Zenon DEF Within
  <2>3. \A q \in Procs : job'[q].at = "store" => job'[q] = job[q]
    BY <1>1, <1>4, Zenon
  <2> QED
    BY <1>0, <1>1, <2>2, <2>3, Zenon DEF EngineOK
<1> QED
    BY <1>2, <1>7, <1>8, <1>9, <1>10, <1>11, <1>12 DEF ListsInv

\* Going somewhere, or ending, as a turn.
LEMMA GotoTurn ==
    ASSUME TypeOK, NEW p \in Procs, NEW at \in Places, Goto(p, at)
    PROVE  /\ Turn(p) /\ job'[p].at = at /\ job'[p].list = job[p].list /\ job'[p].gen = job[p].gen
           /\ job'[p].sees = job[p].sees /\ job'[p].alone = job[p].alone
           /\ job'[p].todo = job[p].todo /\ job'[p].refreshed = job[p].refreshed
<1>1. job[p] \in Job /\ job' = [job EXCEPT ![p] = [job[p] EXCEPT !.at = at]]
    BY DEF TypeOK, Goto
<1> DEFINE k == [job[p] EXCEPT !.at = at]
<1>2. /\ k \in Job /\ k.at = at /\ k.list = job[p].list /\ k.gen = job[p].gen /\ k.sees = job[p].sees
      /\ k.alone = job[p].alone /\ k.todo = job[p].todo /\ k.refreshed = job[p].refreshed
    BY <1>1, SetAt
<1>3. job' = [job EXCEPT ![p] = k]
    BY <1>1
<1> HIDE DEF k
<1>4. Turn(p) /\ job'[p] = k
    BY <1>2, <1>3, TurnTo, Zenon
<1> QED
    BY <1>2, <1>4

LEMMA FinishTurn ==
    ASSUME TypeOK, NEW p \in Procs, Finish(p)
    PROVE  Turn(p) /\ job'[p].at = "idle" /\ job'[p].todo = {} /\ job'[p].list = None
BY IdleType, TurnTo, Zenon DEF Finish

\* The actions that end a part of a job.
LEMMA EndActions ==
    ASSUME TypeOK, PlacesOK, NEW p \in Procs,
           \/ \E l \in Lists, enabled, url \in BOOLEAN : update(p, l, enabled, url)
           \/ WriteList(p) \/ DeleteList(p) \/ Abandon(p)
           \/ FetchFails(p) \/ TransactionFails(p) \/ UpdateMetadata(p) \/ MetadataFails(p)
           \/ ReloadFails(p)
    PROVE  Ends(p)
<1>0. job[p] \in Job /\ lags \in BOOLEAN /\ lists \in [Lists -> ListRow \cup {None}]
      /\ job[p].todo \subseteq created /\ created \subseteq Lists
    BY DEF TypeOK, PlacesOK
<1>a. {"idle", "write", "read", "next", "metadata"} \subseteq Places
    BY Zenon DEF Places, SyncPlaces
<1>1. ASSUME NEW l \in Lists, NEW enabled \in BOOLEAN, NEW url \in BOOLEAN, update(p, l, enabled, url)
      PROVE  Ends(p)
  <2> DEFINE row == [url |-> lists[l].url \/ url, is_enabled |-> enabled]
             k == [Idle EXCEPT !.at = "write", !.list = l, !.row = row]
  <2>1. lists[l] \in ListRow /\ l \in created
    BY <1>0, <1>1, Zenon DEF update, PlacesOK
  <2>2. row \in ListRow
    BY <1>1 DEF ListRow
  <2>3. job' = [job EXCEPT ![p] = k] /\ At(p, "idle")
    BY <1>1, Zenon DEF update
  <2> HIDE DEF row
  <2>4. k \in Job /\ k.at = "write" /\ k.list = l /\ k.row = row /\ k.todo = {}
    BY <1>a, <2>2, IdleType, Zenon DEF Job
  <2> HIDE DEF k
  <2>5. Turn(p) /\ job'[p] = k
    BY <2>3, <2>4, TurnTo, Zenon
  <2>6. UNCHANGED <<lists, rows, engine, created, downloads, last, overlapped, raced, lags>>
    BY <1>1, Zenon DEF update, history
  <2>7. ~Promised(p)
    BY <2>3, Zenon DEF At, Promised, SyncPlaces
  <2> QED
    BY <1>0, <2>1, <2>2, <2>3, <2>4, <2>5, <2>6, <2>7 DEF Ends, At
<1>2. CASE WriteList(p)
  <2>1. At(p, "write") /\ Goto(p, "read") /\ UNCHANGED <<rows, engine, created, downloads, last, overlapped, raced, lags>>
    BY <1>2 DEF WriteList, history
  <2>2. Turn(p) /\ job'[p].at = "read" /\ job'[p].todo = job[p].todo
    BY <1>a, <2>1, GotoTurn, ZenonT(30)
  <2>3. job[p].list \in Lists /\ job[p].row \in ListRow /\ job[p].row # None
    BY <1>0, <2>1, ListsAssumption, Zenon DEF PlacesOK, At
  <2>4. /\ lists' \in [Lists -> ListRow \cup {None}]
        /\ \A l \in Lists : lists'[l] = None <=> lists[l] = None
    <3>1. CASE lists[job[p].list] = None
      BY <1>0, <1>2, <3>1, Zenon DEF WriteList
    <3>2. CASE lists[job[p].list] # None
      BY <1>0, <1>2, <2>3, <3>2, Zenon DEF WriteList
    <3> QED
      BY <3>1, <3>2
  <2>5. Promised(p)'
    BY <2>2 DEF Promised
  <2> QED
    BY <1>0, <2>1, <2>2, <2>4, <2>5 DEF Ends, At
<1>3. CASE DeleteList(p)
  <2>1. At(p, "del_list") /\ UNCHANGED <<rows, engine, created, downloads, last, overlapped, raced>>
    BY <1>3, Zenon DEF DeleteList
  <2>2. CASE Finish(p) /\ lags' = TRUE /\ UNCHANGED lists
    BY <1>0, <2>1, <2>2, FinishTurn DEF Ends, At
  <2>3. CASE Goto(p, "read") /\ lists' = [lists EXCEPT ![job[p].list] = None] /\ UNCHANGED lags
    <3>1. Turn(p) /\ job'[p].at = "read" /\ job'[p].todo = job[p].todo
      BY <1>a, <2>3, GotoTurn
    <3>2. Promised(p)'
      BY <3>1 DEF Promised
    <3> QED
      BY <1>0, <2>1, <2>3, <3>1, <3>2, ZenonT(30) DEF Ends, At
  <2> QED
    BY <1>3, <2>2, <2>3, Zenon DEF DeleteList
<1>4. CASE Abandon(p) \/ ReloadFails(p)
  <2>1. /\ Finish(p) /\ lags' = TRUE /\ job[p].at # "store"
        /\ UNCHANGED <<lists, rows, engine, created, downloads, last, overlapped, raced>>
    BY <1>4, ZenonT(30) DEF Abandon, ReloadFails, At, DeletePlaces
  <2> QED
    BY <1>0, <2>1, FinishTurn, Zenon DEF Ends
<1>5. CASE FetchFails(p) \/ TransactionFails(p) \/ MetadataFails(p)
  <2>1. /\ SyncFails(p) /\ job[p].at \in SyncPlaces /\ (job[p].at = "metadata" => lags')
        /\ lags' \in {lags, TRUE}
        /\ UNCHANGED <<lists, rows, engine, created, downloads, last, overlapped, raced>>
    BY <1>5, Zenon DEF FetchFails, TransactionFails, MetadataFails, At, SyncPlaces, history
  <2>2. /\ Turn(p) /\ job'[p].at \in {"idle", "next"} /\ job'[p].todo \subseteq created
        /\ p = Hourly => job'[p].at = "next" /\ job'[p].refreshed = job[p].refreshed
    <3>1. CASE p = Hourly
      BY <1>0, <1>a, <2>1, <3>1, GotoTurn, Zenon DEF SyncFails
    <3>2. CASE p # Hourly
      BY <1>0, <1>a, <2>1, <3>2, FinishTurn, Zenon DEF SyncFails
    <3> QED
      BY <3>1, <3>2
  <2>3. Promised(p) => lags' \/ Promised(p)'
    BY <2>1, <2>2, Zenon DEF Promised, SyncPlaces
  <2> QED
    BY <1>0, <2>1, <2>2, <2>3, Zenon DEF Ends, SyncPlaces
<1>6. CASE UpdateMetadata(p)
  <2>1. At(p, "metadata") /\ UNCHANGED <<lists, rows, engine, created, downloads, last, overlapped, raced, lags>>
    BY <1>6, Zenon DEF UpdateMetadata, history
  <2>2. /\ Turn(p) /\ job'[p].todo = job[p].todo
        /\ job'[p].at = "read" \/ (p = Hourly /\ job'[p].at = "next" /\ job'[p].refreshed)
    <3>1. CASE p = Hourly
      <4> DEFINE k == [job[p] EXCEPT !.at = "next", !.refreshed = TRUE]
      <4>1. k \in Job /\ k.at = "next" /\ k.todo = job[p].todo /\ k.refreshed
        BY <1>0, <1>a, Zenon DEF Job
      <4>2. job' = [job EXCEPT ![p] = k]
        BY <1>6, <3>1, Zenon DEF UpdateMetadata
      <4> HIDE DEF k
      <4>3. Turn(p) /\ job'[p] = k
        BY <4>1, <4>2, TurnTo, ZenonT(30)
      <4> QED
        BY <3>1, <4>1, <4>3
    <3>2. CASE p # Hourly
      BY <1>6, <1>a, <3>2, GotoTurn DEF UpdateMetadata
    <3> QED
      BY <3>1, <3>2, Zenon
  <2>3. Promised(p)'
    BY <2>2 DEF Promised
  <2> QED
    BY <1>0, <2>1, <2>2, <2>3 DEF Ends, At
<1> QED
    BY <1>1, <1>2, <1>3, <1>4, <1>5, <1>6, Zenon

LEMMA HourlyEndActions ==
    ASSUME TypeOK, PlacesOK, AutoTick \/ AutoEnds
    PROVE  Ends(Hourly)
<1>0. job[Hourly] \in Job /\ lags \in BOOLEAN /\ lists \in [Lists -> ListRow \cup {None}]
      /\ job[Hourly].todo \subseteq created /\ created \subseteq Lists /\ Hourly \in Procs
    BY DEF TypeOK, PlacesOK, Procs
<1>a. {"idle", "read", "next"} \subseteq Places
    BY Zenon DEF Places
<1>1. CASE AutoTick
  <2>1. PICK due \in SUBSET {l \in Lists : lists[l] # None} :
           job' = [job EXCEPT ![Hourly] = [Idle EXCEPT !.at = "next", !.todo = due]]
    BY <1>1, Zenon DEF AutoTick
  <2> DEFINE k == [Idle EXCEPT !.at = "next", !.todo = due]
  <2>2. k \in Job /\ k.at = "next" /\ k.todo = due
    BY <1>a, IdleType, Zenon DEF Job
  <2>3. job' = [job EXCEPT ![Hourly] = k]
    BY <2>1
  <2> HIDE DEF k
  <2>4. Turn(Hourly) /\ job'[Hourly] = k
    BY <1>0, <2>2, <2>3, TurnTo, ZenonT(30)
  <2>5. due \subseteq created
    BY DEF PlacesOK
  <2>6. At(Hourly, "idle") /\ UNCHANGED <<lists, rows, engine, created, downloads, last, overlapped, raced, lags>>
    BY <1>1, Zenon DEF AutoTick, history
  <2>7. ~Promised(Hourly)
    BY <2>6 DEF At, Promised, SyncPlaces
  <2> QED
    BY <1>0, <2>2, <2>4, <2>5, <2>6, <2>7 DEF Ends, At
<1>2. CASE AutoEnds
  <2>1. At(Hourly, "next") /\ UNCHANGED <<lists, rows, engine, created, downloads, last, overlapped, raced, lags>>
    BY <1>2, Zenon DEF AutoEnds, history
  <2>2. CASE job[Hourly].refreshed
    <3>1. Turn(Hourly) /\ job'[Hourly].at = "read" /\ job'[Hourly].todo = job[Hourly].todo
      BY <1>0, <1>2, <1>a, <2>2, GotoTurn, Zenon DEF AutoEnds
    <3>2. Promised(Hourly)'
      BY <3>1, Zenon DEF Promised
    <3> QED
      BY <1>0, <2>1, <3>1, <3>2, Zenon DEF Ends, At
  <2>3. CASE ~job[Hourly].refreshed
    <3>1. Turn(Hourly) /\ job'[Hourly].at = "idle" /\ job'[Hourly].todo = {}
      BY <1>0, <1>2, <2>3, FinishTurn DEF AutoEnds
    <3>2. ~Promised(Hourly)
      BY <2>1, <2>3 DEF Promised, At
    <3> QED
      BY <1>0, <2>1, <3>1, <3>2, Zenon DEF Ends, At
  <2> QED
    BY <2>2, <2>3
<1> QED
    BY <1>1, <1>2

LEMMA WithinActions ==
    ASSUME TypeOK, NEW p \in Procs,
           \/ fetch_remote_filter(p) \/ LockOldRules(p)
           \/ Snapshot(p, "begin", "lock") \/ Snapshot(p, "del_rules", "del_lock")
    PROVE  Within(p)
<1>0. job[p] \in Job /\ downloads \in 0..MaxDownloads /\ rows \subseteq RuleRow
    BY DEF TypeOK
<1>a. {"begin", "lock", "insert", "del_lock"} \subseteq Places
    BY DEF Places, SyncPlaces, DeletePlaces
<1>1. CASE fetch_remote_filter(p)
  <2> DEFINE k == [job[p] EXCEPT !.at = "begin", !.gen = downloads + 1]
  <2>1. downloads + 1 \in 1..MaxDownloads /\ downloads + 1 \in 0..MaxDownloads
    BY <1>0, <1>1, ListsAssumption DEF fetch_remote_filter
  <2>2. /\ k \in Job /\ k.at = "begin" /\ k.gen = downloads + 1 /\ k.list = job[p].list
        /\ k.alone = job[p].alone /\ k.refreshed = job[p].refreshed /\ k.todo = job[p].todo
    BY <1>0, <1>a, <2>1, Zenon DEF Job
  <2>3. job' = [job EXCEPT ![p] = k]
    BY <1>1, Zenon DEF fetch_remote_filter
  <2> HIDE DEF k
  <2>4. Turn(p) /\ job'[p] = k
    BY <2>2, <2>3, TurnTo, Zenon
  <2> QED
    BY <1>1, <2>1, <2>2, <2>4 DEF fetch_remote_filter, Within
<1>2. CASE LockOldRules(p)
  <2>1. /\ Turn(p) /\ job'[p].at = "insert" /\ job'[p].list = job[p].list /\ job'[p].gen = job[p].gen
        /\ job'[p].sees = job[p].sees /\ job'[p].alone = job[p].alone
        /\ job'[p].todo = job[p].todo /\ job'[p].refreshed = job[p].refreshed
    BY <1>2, <1>a, GotoTurn, Zenon DEF LockOldRules
  <2> QED
    BY <1>0, <1>2, <2>1, Zenon DEF LockOldRules, Within
<1>3. ASSUME NEW to \in {"lock", "del_lock"}, NEW from \in {"begin", "del_rules"}, Snapshot(p, from, to)
      PROVE  /\ Turn(p) /\ job[p].at = from /\ job'[p].at = to /\ job'[p].list = job[p].list
             /\ job'[p].gen = job[p].gen /\ job'[p].sees = RowsOf(job[p].list)
             /\ job'[p].alone = job[p].alone /\ job'[p].todo = job[p].todo
             /\ job'[p].refreshed = job[p].refreshed
             /\ UNCHANGED <<lists, rows, engine, created, downloads, history>>
  <2> DEFINE s == RowsOf(job[p].list)
             k == [job[p] EXCEPT !.at = to, !.sees = s]
  <2>1. s \in SUBSET RuleRow /\ to \in Places
    BY <1>0, <1>a DEF RowsOf
  <2>3. job' = [job EXCEPT ![p] = k]
    BY <1>3, Zenon DEF Snapshot
  <2> HIDE DEF s
  <2>2. /\ k \in Job /\ k.at = to /\ k.list = job[p].list /\ k.gen = job[p].gen
        /\ k.sees = s /\ k.alone = job[p].alone
        /\ k.todo = job[p].todo /\ k.refreshed = job[p].refreshed
    BY <1>0, <2>1, Zenon DEF Job
  <2> HIDE DEF k
  <2>4. Turn(p) /\ job'[p] = k
    BY <2>2, <2>3, TurnTo, Zenon
  <2> QED
    BY <1>3, <2>2, <2>4 DEF Snapshot, At, s
<1>4. CASE Snapshot(p, "begin", "lock")
    BY <1>0, <1>3, <1>4, Zenon DEF Within, At
<1>5. CASE Snapshot(p, "del_rules", "del_lock")
    BY <1>0, <1>3, <1>5 DEF Within, At
<1> QED
    BY <1>1, <1>2, <1>4, <1>5

-----------------------------------------------------------------------------
(* Starting a sync or a delete *)

Starts(p, l) ==
    /\ job' \in [Procs -> Job] /\ job[p].at \in {"idle", "next"}
    /\ job'[p].at = "fetch" /\ job'[p].list = l /\ job'[p].todo \subseteq created
    /\ Promised(p) => Promised(p)'
    /\ job'[p].alone => Syncing(l) = {}
    /\ \A q \in Procs \ {p} :
          /\ job'[q].at = job[q].at /\ job'[q].list = job[q].list /\ job'[q].gen = job[q].gen
          /\ job'[q].sees = job[q].sees /\ job'[q].row = job[q].row /\ job'[q].todo = job[q].todo
          /\ job'[q].refreshed = job[q].refreshed
          /\ job'[q].alone => job[q].alone /\ q \notin Syncing(l)
    /\ created' = created \cup {l}
    /\ lists' \in [Lists -> ListRow \cup {None}] /\ \A k \in Lists \ {l} : lists'[k] = lists[k]
    /\ raced \subseteq raced' /\ raced' \subseteq Lists
    /\ l \notin raced' => lists'[l] # None /\ Deleting(l) = {}
    /\ UNCHANGED <<rows, engine, downloads, last, overlapped, lags>>

LEMMA StartsInv ==
    ASSUME ListsInv, NEW p \in Procs, NEW l \in Lists, Starts(p, l)
    PROVE  ListsInv'
<1>0. TypeOK /\ PlacesOK /\ AloneOK /\ UnracedOK /\ EngineOK /\ LastSyncKept /\ SoleSyncReplaces
    BY Zenon DEF ListsInv
<1>1. UNCHANGED <<rows, engine, downloads, last, overlapped, lags>> /\ created' = created \cup {l}
    BY Zenon DEF Starts
<1>o. /\ \A q \in Procs \ {p} :
            /\ job'[q].at = job[q].at /\ job'[q].list = job[q].list /\ job'[q].gen = job[q].gen
            /\ job'[q].sees = job[q].sees /\ job'[q].row = job[q].row /\ job'[q].todo = job[q].todo
            /\ job'[q].refreshed = job[q].refreshed
            /\ job'[q].alone => job[q].alone /\ q \notin Syncing(l)
      /\ job'[p].at = "fetch" /\ job'[p].list = l /\ job'[p].todo \subseteq created
      /\ job'[p].alone => Syncing(l) = {}
    BY DEF Starts
<1>l. /\ \A k \in Lists \ {l} : lists'[k] = lists[k]
      /\ raced \subseteq raced' /\ raced' \subseteq Lists
      /\ l \notin raced' => lists'[l] # None /\ Deleting(l) = {}
    BY Zenon DEF Starts
<1>2. TypeOK'
    BY <1>0, <1>1, Zenon DEF Starts, TypeOK
<1>3. PlacesOK'
  <2>1. \A k \in Lists : lists'[k] # None => k \in created'
    BY <1>0, <1>1, <1>l, Zenon DEF PlacesOK
  <2>2. \A q \in Procs \ {p} :
          /\ job'[q].at \in SyncPlaces \cup DeletePlaces \cup {"write"} => job'[q].list \in created
          /\ job'[q].at = "write" => job'[q].row \in ListRow
          /\ job'[q].at \in {"begin", "lock", "insert"} => job'[q].gen \in 1..MaxDownloads
          /\ job'[q].at \in {"lock", "insert", "del_lock"} => \A r \in job'[q].sees : r.list = job'[q].list
          /\ job'[q].todo \subseteq created
    BY <1>0, <1>o DEF PlacesOK
  <2> QED
    BY <1>1, <1>o, <2>1, <2>2, Zenon DEF PlacesOK
<1>4. LastSyncKept'
    BY <1>0, <1>1 DEF LastSyncKept
<1>5. SoleSyncReplaces'
    BY <1>0, <1>1 DEF SoleSyncReplaces, RowsOf
<1>6. \A k : RowsOf(k)' = RowsOf(k)
    BY <1>1, Zenon DEF RowsOf
<1>7. /\ job[p].at \notin SyncPlaces \cup DeletePlaces \cup {"store"}
      /\ job'[p].at \in SyncPlaces /\ job'[p].at \notin DeletePlaces \cup {"lock", "insert", "store"}
    BY Zenon DEF Starts, SyncPlaces, DeletePlaces
<1>8. AloneOK'
  <2> SUFFICES ASSUME NEW a \in Procs, job'[a].alone
               PROVE  /\ job'[a].at \in SyncPlaces =>
                           \A q \in Procs : job'[q].at \in SyncPlaces /\ job'[q].list = job'[a].list => q = a
                      /\ job'[a].at \in {"lock", "insert"} => RowsOf(job[a].list)' \subseteq job'[a].sees
    BY DEF AloneOK
  <2>1. CASE a = p
    <3>1. Syncing(l) = {} /\ job'[a].list = l
      BY <1>o, <2>1, Zenon
    <3>2. ASSUME NEW q \in Procs, job'[q].at \in SyncPlaces, job'[q].list = l PROVE q = p
      BY <1>o, <3>1, <3>2 DEF Syncing
    <3> QED
      BY <1>7, <2>1, <3>1, <3>2, Zenon
  <2>2. CASE a # p
    <3>1. /\ job[a].alone /\ a \notin Syncing(l) /\ job'[a].at = job[a].at
          /\ job'[a].list = job[a].list /\ job'[a].sees = job[a].sees
      BY <1>o, <2>2, Zenon
    <3>2. ASSUME job[a].at \in SyncPlaces,
                 NEW q \in Procs, job'[q].at \in SyncPlaces, job'[q].list = job[a].list
          PROVE  q = a
      <4>1. q # p
        BY <1>o, <3>1, <3>2, Zenon DEF Syncing
      <4>2. job[q].at \in SyncPlaces /\ job[q].list = job[a].list
        BY <1>o, <3>2, <4>1, Zenon
      <4> QED
        BY <1>0, <3>1, <3>2, <4>2, Zenon DEF AloneOK
    <3>3. job[a].at \in {"lock", "insert"} => RowsOf(job[a].list) \subseteq job[a].sees
      BY <1>0, <3>1 DEF AloneOK
    <3>4. RowsOf(job[a].list)' = {r \in rows : r.list = job'[a].list}
      BY <1>1, Zenon DEF RowsOf
    <3> QED
      BY <3>1, <3>2, <3>3, <3>4 DEF RowsOf
  <2> QED
    BY <2>1, <2>2
<1>9. UnracedOK'
  <2> SUFFICES ASSUME NEW k \in Lists \ raced'
               PROVE  /\ lists'[k] = None => RowsOf(k)' = {}
                      /\ \A q \in Syncing(k)' : lists'[k] # None /\ Deleting(k)' = {}
                      /\ \A q \in Deleting(k)' : /\ At(q, "del_lock")' => RowsOf(k)' \subseteq job'[q].sees
                                                 /\ At(q, "del_list")' => RowsOf(k)' = {}
    BY DEF UnracedOK
  <2>0. k \in Lists \ raced
    BY <1>l
  <2>1. Deleting(k)' = Deleting(k) /\ \A q \in Deleting(k) : job'[q].at = job[q].at /\ job'[q].sees = job[q].sees
    BY <1>7, <1>o, Zenon DEF Deleting
  <2>2. CASE k = l
    BY <1>0, <1>6, <1>l, <2>0, <2>1, <2>2, Zenon DEF UnracedOK, At
  <2>3. CASE k # l
    <3>1. Syncing(k)' = Syncing(k) /\ lists'[k] = lists[k]
      BY <1>7, <1>l, <1>o, <2>3 DEF Syncing
    <3> QED
      BY <1>0, <1>6, <2>0, <2>1, <3>1, Zenon DEF UnracedOK, At
  <2> QED
    BY <2>2, <2>3, Zenon
<1>10. EngineOK'
  <2>1. \A q \in Procs \ {p} : Promised(q) => Promised(q)'
    BY <1>1, <1>o, Zenon DEF Promised
  <2>2. Promised(p) => Promised(p)'
    BY DEF Starts
  <2>4. Pending => Pending'
    BY <1>1, <2>1, <2>2, Zenon DEF Pending
  <2>3. \A q \in Procs : job'[q].at = "store" =>
           /\ job[q].at = "store" /\ job'[q].sees = job[q].sees /\ (job'[q].alone => job[q].alone)
    BY <1>7, <1>o
  <2> QED
    BY <1>0, <1>1, <2>3, <2>4, Zenon DEF EngineOK
<1> QED
    BY <1>2, <1>3, <1>4, <1>5, <1>8, <1>9, <1>10 DEF ListsInv

\* refresh and the hourly pass.
LEMMA StartSyncStarts ==
    ASSUME TypeOK, PlacesOK, NEW p \in Procs, NEW l \in created,
           At(p, "idle") \/ (p = Hourly /\ At(p, "next")), StartSync(p, l),
           UNCHANGED <<lists, rows, engine, created, downloads, last, overlapped, lags>>
    PROVE  Starts(p, l)
<1>0. job \in [Procs -> Job] /\ created \subseteq Lists /\ lists \in [Lists -> ListRow \cup {None}] /\ raced \subseteq Lists
      /\ job[p].todo \subseteq created
    BY DEF TypeOK, PlacesOK
<1>a. "fetch" \in Places
    BY DEF Places, SyncPlaces
<1> DEFINE b == (Syncing(l) = {})
           t == job[p].todo \ {l}
           k == [job[p] EXCEPT !.at = "fetch", !.list = l, !.gen = 0, !.sees = {}, !.todo = t, !.alone = b]
           m(q) == [job[q] EXCEPT !.alone = FALSE]
<1>1. job' = [q \in Procs |-> IF q = p THEN k ELSE IF q \in Syncing(l) THEN m(q) ELSE job[q]]
    BY Zenon DEF StartSync
<1>2. b \in BOOLEAN /\ (b <=> Syncing(l) = {}) /\ t \subseteq created /\ t \subseteq Lists
      /\ 0 \in 0..MaxDownloads /\ {} \in SUBSET RuleRow /\ job[p] \in Job /\ l \in Lists
  <2>1. b \in BOOLEAN /\ (b <=> Syncing(l) = {})
    OBVIOUS
  <2>2. t \subseteq created /\ t \subseteq Lists
    BY <1>0
  <2>3. 0 \in 0..MaxDownloads
    BY ListsAssumption
  <2> QED
    BY <1>0, <2>1, <2>2, <2>3
<1> HIDE DEF b, t
<1>3. /\ k \in Job /\ k.at = "fetch" /\ k.list = l /\ k.todo = t /\ k.alone = b
      /\ k.refreshed = job[p].refreshed
    BY <1>2, <1>a, Zenon DEF Job
<1>4. \A q \in Procs : /\ m(q) \in Job /\ m(q).at = job[q].at /\ m(q).list = job[q].list /\ m(q).gen = job[q].gen
                       /\ m(q).sees = job[q].sees /\ m(q).row = job[q].row /\ m(q).todo = job[q].todo
                       /\ m(q).refreshed = job[q].refreshed /\ m(q).alone = FALSE
    BY <1>0, SetAlone, Zenon
<1> HIDE DEF k, m
<1>5. job'[p] = k /\ job' \in [Procs -> Job]
    BY <1>0, <1>1, <1>3, <1>4
<1>6. \A q \in Procs \ {p} : job'[q] = IF q \in Syncing(l) THEN m(q) ELSE job[q]
    BY <1>1, Zenon
<1>7. \A q \in Procs \ {p} :
          /\ job'[q].at = job[q].at /\ job'[q].list = job[q].list /\ job'[q].gen = job[q].gen
          /\ job'[q].sees = job[q].sees /\ job'[q].row = job[q].row /\ job'[q].todo = job[q].todo
          /\ job'[q].refreshed = job[q].refreshed
          /\ job'[q].alone => job[q].alone /\ q \notin Syncing(l)
  <2> TAKE q \in Procs \ {p}
  <2>1. CASE q \in Syncing(l)
    <3>1. job'[q] = m(q)
      BY <1>6, <2>1
    <3> QED
      BY <1>4, <3>1
  <2>2. CASE q \notin Syncing(l)
    <3>1. job'[q] = job[q]
      BY <1>6, <2>2, Zenon
    <3> QED
      BY <2>2, <3>1, Zenon
  <2> QED
    BY <2>1, <2>2, Zenon
<1>8. Promised(p) => Promised(p)'
    BY <1>3, <1>5 DEF Promised, At, SyncPlaces
<1>9. raced \subseteq raced' /\ raced' \subseteq Lists /\ (l \notin raced' => lists'[l] # None /\ Deleting(l) = {})
    BY <1>0, Zenon DEF StartSync
<1>10. /\ job'[p].at = "fetch" /\ job'[p].list = l /\ job'[p].todo \subseteq created
       /\ job'[p].alone => Syncing(l) = {}
    BY <1>2, <1>3, <1>5, Zenon
<1>11. job[p].at \in {"idle", "next"} /\ created' = created \cup {l}
    BY DEF At
<1> QED
    BY <1>0, <1>5, <1>7, <1>8, <1>9, <1>10, <1>11, Zenon DEF Starts

LEMMA CreateInv ==
    ASSUME ListsInv, NEW p \in Procs, NEW l \in Lists, NEW row \in ListRow, create(p, l, row)
    PROVE  ListsInv'
<1>0. TypeOK /\ PlacesOK /\ AloneOK /\ UnracedOK /\ EngineOK /\ LastSyncKept /\ SoleSyncReplaces
    BY DEF ListsInv
<1>1. /\ At(p, "idle") /\ l \notin created /\ created' = created \cup {l} /\ lists' = [lists EXCEPT ![l] = row]
      /\ UNCHANGED <<rows, engine, downloads, last, overlapped, raced, lags>> /\ row # None
    BY ListsAssumption DEF create, history
<1>2. lists' \in [Lists -> ListRow \cup {None}] /\ lists'[l] # None /\ \A k \in Lists \ {l} : lists'[k] = lists[k]
    BY <1>0, <1>1, Zenon DEF TypeOK
<1>3. Syncing(l) = {} /\ Deleting(l) = {}
    BY <1>0, <1>1 DEF PlacesOK, Syncing, Deleting
<1>4. CASE row.url
  <2> DEFINE k == [Idle EXCEPT !.at = "fetch", !.list = l]
  <2>1. job' = [job EXCEPT ![p] = k]
    BY <1>4 DEF create
  <2>2. k \in Job /\ k.at = "fetch" /\ k.list = l /\ k.todo = {}
    BY IdleType, Zenon DEF Job, Places, SyncPlaces
  <2> HIDE DEF k
  <2>3. Turn(p) /\ job'[p] = k
    BY <1>0, <2>1, <2>2, TurnTo, ZenonT(30)
  <2>4. ~Promised(p)
    BY <1>1 DEF Promised, At, SyncPlaces
  <2>5. Starts(p, l)
    BY <1>0, <1>1, <1>2, <1>3, <2>2, <2>3, <2>4, Zenon DEF Starts, Turn, At, TypeOK
  <2> QED
    BY <2>5, StartsInv
<1>5. CASE ~row.url
  <2>1. job' = job
    BY <1>5, Zenon DEF create
  <2>2. TypeOK'
    BY <1>0, <1>1, <1>2, <2>1 DEF TypeOK
  <2>3. PlacesOK'
    BY <1>0, <1>1, <1>2, <2>1, ZenonT(30) DEF PlacesOK
  <2>4. LastSyncKept' /\ SoleSyncReplaces' /\ AloneOK' /\ EngineOK'
    BY <1>0, <1>1, <2>1, ZenonT(30)
       DEF LastSyncKept, SoleSyncReplaces, AloneOK, EngineOK, RowsOf, Pending, Promised
  <2>5. UnracedOK'
    <3>1. \A k : Syncing(k)' = Syncing(k) /\ Deleting(k)' = Deleting(k) /\ RowsOf(k)' = RowsOf(k)
      BY <1>1, <2>1, Zenon DEF Syncing, Deleting, RowsOf
    <3>2. \A k \in Lists \ raced : lists'[k] = None => lists[k] = None
      BY <1>2
    <3>3. \A k \in Lists \ raced : lists[k] # None => lists'[k] # None
      BY <1>2
    <3> QED
      BY <1>0, <1>1, <2>1, <3>1, <3>2, <3>3, ZenonT(30) DEF UnracedOK, At
  <2> QED
    BY <2>2, <2>3, <2>4, <2>5 DEF ListsInv
<1> QED
    BY <1>4, <1>5

LEMMA DeleteInv ==
    ASSUME ListsInv, NEW p \in Procs, NEW l \in Lists, delete(p, l)
    PROVE  ListsInv'
<1>0. TypeOK /\ PlacesOK /\ AloneOK /\ UnracedOK /\ EngineOK /\ LastSyncKept /\ SoleSyncReplaces
    BY DEF ListsInv
<1> DEFINE k == [Idle EXCEPT !.at = "del_rules", !.list = l]
<1>1. /\ At(p, "idle") /\ l \in created /\ job' = [job EXCEPT ![p] = k]
      /\ UNCHANGED <<lists, rows, engine, created, downloads, last, overlapped, lags>>
    BY DEF delete
<1>2. k \in Job /\ k.at = "del_rules" /\ k.list = l /\ k.todo = {}
    BY IdleType, Zenon DEF Job, Places, DeletePlaces
<1> HIDE DEF k
<1>3. Turn(p) /\ job'[p] = k
    BY <1>0, <1>1, <1>2, TurnTo, Zenon
<1>4. /\ job' \in [Procs -> Job] /\ \A q \in Procs \ {p} : job'[q] = job[q]
      /\ job'[p].at = "del_rules" /\ job'[p].list = l /\ job'[p].todo = {}
    BY <1>2, <1>3 DEF Turn
<1>5. raced \subseteq raced' /\ raced' \subseteq Lists /\ (l \notin raced' => Syncing(l) = {})
    BY <1>0, Zenon DEF delete, TypeOK
<1>6. TypeOK'
    BY <1>0, <1>1, <1>4, <1>5 DEF TypeOK
<1>7. PlacesOK'
    BY <1>0, <1>1, <1>4, ZenonT(30) DEF PlacesOK
<1>8. LastSyncKept' /\ SoleSyncReplaces'
    BY <1>0, <1>1, Zenon DEF LastSyncKept, SoleSyncReplaces, RowsOf
<1>9. AloneOK'
    BY <1>0, <1>1, <1>4 DEF AloneOK, RowsOf, SyncPlaces
<1>10. UnracedOK'
  <2>1. \A m : RowsOf(m)' = RowsOf(m)
    BY <1>1 DEF RowsOf
  <2>2. \A m \in Lists : Syncing(m)' = Syncing(m)
    BY <1>1, <1>4 DEF Syncing, At, SyncPlaces
  <2>3. \A m \in Lists : Deleting(m)' = IF m = l THEN Deleting(m) \cup {p} ELSE Deleting(m)
    BY <1>1, <1>4, Zenon DEF Deleting, At, DeletePlaces
  <2> SUFFICES ASSUME NEW m \in Lists \ raced'
               PROVE  /\ lists'[m] = None => RowsOf(m)' = {}
                      /\ \A q \in Syncing(m)' : lists'[m] # None /\ Deleting(m)' = {}
                      /\ \A q \in Deleting(m)' : /\ At(q, "del_lock")' => RowsOf(m)' \subseteq job'[q].sees
                                                 /\ At(q, "del_list")' => RowsOf(m)' = {}
    BY Zenon DEF UnracedOK
  <2>4. ASSUME NEW q \in Deleting(m)'
        PROVE  /\ At(q, "del_lock")' => RowsOf(m)' \subseteq job'[q].sees
               /\ At(q, "del_list")' => RowsOf(m)' = {}
    <3>1. CASE q = p
      BY <1>4, <3>1, Zenon DEF At
    <3>2. CASE q # p
      <4>1. q \in Deleting(m) /\ job'[q] = job[q]
        BY <1>4, <2>3, <2>4, <3>2 DEF Deleting
      <4> QED
        BY <1>0, <1>5, <2>1, <4>1, Zenon DEF UnracedOK, At
    <3> QED
      BY <3>1, <3>2, Zenon
  <2> QED
    BY <1>0, <1>1, <1>5, <2>1, <2>2, <2>3, <2>4, ZenonT(30) DEF UnracedOK
<1>11. EngineOK'
  <2>1. ~Promised(p)
    BY <1>1 DEF Promised, At, SyncPlaces
  <2>2. Pending => Pending'
    BY <1>0, <1>1, <1>3, <2>1, PendingKept
  <2> QED
    BY <1>0, <1>1, <1>4, <2>2, Zenon DEF EngineOK
<1> QED
    BY <1>6, <1>7, <1>8, <1>9, <1>10, <1>11 DEF ListsInv

-----------------------------------------------------------------------------
(* Changing the rules *)

LEMMA CommitInv ==
    ASSUME ListsInv, NEW p \in Procs, CommitSync(p)
    PROVE  ListsInv'
<1>0. TypeOK /\ PlacesOK /\ AloneOK /\ UnracedOK /\ EngineOK /\ LastSyncKept /\ SoleSyncReplaces
    BY DEF ListsInv
<1> DEFINE l == job[p].list
           new == [list |-> l, gen |-> job[p].gen]
<1>1. /\ At(p, "insert") /\ Goto(p, "metadata") /\ rows' = (rows \ job[p].sees) \cup {new}
      /\ last' = [last EXCEPT ![l] = job[p].gen] /\ overlapped' = [overlapped EXCEPT ![l] = ~job[p].alone]
      /\ UNCHANGED <<lists, engine, created, downloads, raced, lags>>
    BY Zenon DEF CommitSync, Replaced
<1>2. /\ Turn(p) /\ job'[p].at = "metadata" /\ job'[p].list = l /\ job'[p].alone = job[p].alone
      /\ job'[p].todo = job[p].todo
    BY <1>0, <1>1, GotoTurn, Zenon DEF Places, SyncPlaces
<1>3. /\ l \in Lists /\ l \in created /\ job[p].gen \in 1..MaxDownloads /\ \A r \in job[p].sees : r.list = l
    BY <1>0, <1>1, Zenon DEF At, PlacesOK, SyncPlaces, TypeOK
<1>4. new \in RuleRow /\ new.list = l /\ new.gen = job[p].gen
    BY <1>3 DEF RuleRow
<1>5. TypeOK'
  <2>1. rows' \subseteq RuleRow
    BY <1>0, <1>1, <1>4 DEF TypeOK
  <2>2. last' \in [Lists -> 0..MaxDownloads]
    <3>1. job[p].gen \in 0..MaxDownloads
      BY <1>3, ListsAssumption
    <3> QED
      BY <1>0, <1>1, <3>1, Zenon DEF TypeOK
  <2>3. overlapped' \in [Lists -> BOOLEAN]
    BY <1>0, <1>1, Zenon DEF TypeOK
  <2> QED
    BY <1>0, <1>1, <1>2, <2>1, <2>2, <2>3, Zenon DEF TypeOK, Turn
<1>6. PlacesOK'
    BY <1>0, <1>1, <1>2, <1>3, ZenonT(30) DEF PlacesOK, Turn
<1>7. \A m \in Lists \ {l} : RowsOf(m)' = RowsOf(m)
    BY <1>1, <1>3, <1>4, Zenon DEF RowsOf
<1>8. LastSyncKept'
  <2> SUFFICES ASSUME NEW m \in Lists, last'[m] # 0 PROVE [list |-> m, gen |-> last'[m]] \in rows'
    BY DEF LastSyncKept
  <2>1. CASE m = l
    BY <1>0, <1>1, <2>1 DEF TypeOK
  <2>2. CASE m # l
    <3>1. last'[m] = last[m]
      BY <1>0, <1>1, <2>2, Zenon DEF TypeOK
    <3> DEFINE r == [list |-> m, gen |-> last[m]]
    <3>2. r \in rows
      BY <1>0, <3>1 DEF LastSyncKept
    <3>3. r.list = m
      OBVIOUS
    <3>4. [list |-> m, gen |-> last'[m]] = r
      BY <3>1, Zenon
    <3> HIDE DEF r, new
    <3>5. r \in rows'
      BY <1>1, <1>3, <2>2, <3>2, <3>3
    <3> QED
      BY <3>4, <3>5, Zenon
  <2> QED
    BY <2>1, <2>2
<1>9. SoleSyncReplaces'
  <2> SUFFICES ASSUME NEW m \in Lists, last'[m] # 0, ~overlapped'[m], NEW r \in RowsOf(m)'
               PROVE  r.gen = last'[m]
    BY Zenon DEF SoleSyncReplaces
  <2>1. CASE m = l
    <3>1. last'[m] = job[p].gen /\ job[p].alone
      BY <1>0, <1>1, <1>3, <2>1, ZenonT(30) DEF TypeOK
    <3>2. RowsOf(l) \subseteq job[p].sees
      BY <1>0, <1>1, <3>1 DEF AloneOK, At
    <3>3. r \in rows' /\ r.list = l
      BY <2>1 DEF RowsOf
    <3>4. r = new
      BY <1>1, <3>2, <3>3, ZenonT(30) DEF RowsOf
    <3> QED
      BY <1>4, <3>1, <3>4
  <2>2. CASE m # l
    <3>1. last'[m] = last[m] /\ overlapped'[m] = overlapped[m] /\ r \in RowsOf(m)
      BY <1>0, <1>1, <1>7, <2>2, Zenon DEF TypeOK
    <3> QED
      BY <1>0, <3>1, Zenon DEF SoleSyncReplaces
  <2> QED
    BY <2>1, <2>2
<1>10. /\ job[p].at \in SyncPlaces /\ job'[p].at \in SyncPlaces /\ job'[p].at \notin {"lock", "insert", "store"}
       /\ job[p].at \notin DeletePlaces /\ job'[p].at \notin DeletePlaces
       /\ \A q \in Procs \ {p} : job'[q] = job[q]
    BY <1>1, <1>2, Zenon DEF At, SyncPlaces, DeletePlaces, Turn
<1>11. AloneOK'
  <2> SUFFICES ASSUME NEW a \in Procs, job'[a].alone
               PROVE  /\ job'[a].at \in SyncPlaces =>
                           \A q \in Procs : job'[q].at \in SyncPlaces /\ job'[q].list = job'[a].list => q = a
                      /\ job'[a].at \in {"lock", "insert"} => RowsOf(job[a].list)' \subseteq job'[a].sees
    BY Zenon DEF AloneOK
  <2>1. \A q \in Procs : /\ job'[q].at \in SyncPlaces <=> job[q].at \in SyncPlaces
                         /\ job'[q].list = job[q].list /\ job'[q].alone = job[q].alone
    BY <1>2, <1>10, Zenon
  <2>2. ASSUME job'[a].at \in {"lock", "insert"} PROVE RowsOf(job[a].list)' \subseteq job'[a].sees
    <3>1. a # p /\ job'[a] = job[a] /\ job[a].at \in SyncPlaces
      BY <1>10, <2>2, Zenon DEF SyncPlaces
    <3>2. job[a].list # l /\ RowsOf(job[a].list) \subseteq job[a].sees
      BY <1>0, <1>10, <2>2, <3>1, Zenon DEF AloneOK
    <3>3. job[a].list \in Lists
      BY <1>0, <3>1 DEF PlacesOK, TypeOK
    <3>4. RowsOf(job[a].list)' = {r \in rows' : r.list = job[a].list}
      BY <3>1, Zenon DEF RowsOf
    <3>5. {r \in rows' : r.list = job[a].list} = RowsOf(job[a].list)
      BY <1>1, <1>3, <1>4, <3>2, Zenon DEF RowsOf
    <3> QED
      BY <3>1, <3>2, <3>4, <3>5
  <2> QED
    BY <1>0, <2>1, <2>2, Zenon DEF AloneOK
<1>12. UnracedOK'
  <2> SUFFICES ASSUME NEW m \in Lists \ raced
               PROVE  /\ lists'[m] = None => RowsOf(m)' = {}
                      /\ \A q \in Syncing(m)' : lists'[m] # None /\ Deleting(m)' = {}
                      /\ \A q \in Deleting(m)' : /\ At(q, "del_lock")' => RowsOf(m)' \subseteq job'[q].sees
                                                 /\ At(q, "del_list")' => RowsOf(m)' = {}
    BY <1>1, Zenon DEF UnracedOK
  <2>1. Syncing(m)' = Syncing(m) /\ Deleting(m)' = Deleting(m) /\ \A q \in Deleting(m) : job'[q] = job[q]
    BY <1>2, <1>10 DEF Syncing, Deleting
  <2>2. CASE m = l
    <3>1. p \in Syncing(m)
      BY <1>10, <2>2, Zenon DEF Syncing
    <3> QED
      BY <1>0, <1>1, <2>1, <3>1, Zenon DEF UnracedOK
  <2>3. CASE m # l
    BY <1>0, <1>1, <1>7, <2>1, <2>3, ZenonT(30) DEF UnracedOK, At
  <2> QED
    BY <2>2, <2>3, Zenon
<1>13. EngineOK'
    BY <1>2, Zenon DEF EngineOK, Pending, Promised
<1> QED
    BY <1>5, <1>6, <1>8, <1>9, <1>11, <1>12, <1>13, Zenon DEF ListsInv

LEMMA DeleteRulesInv ==
    ASSUME ListsInv, NEW p \in Procs, DeleteRules(p)
    PROVE  ListsInv'
<1>0. TypeOK /\ PlacesOK /\ AloneOK /\ UnracedOK /\ EngineOK /\ LastSyncKept /\ SoleSyncReplaces
    BY DEF ListsInv
<1>1. /\ At(p, "del_lock") /\ Goto(p, "del_list") /\ rows' = rows \ job[p].sees
      /\ last' = [k \in Lists |-> IF [list |-> k, gen |-> last[k]] \in job[p].sees THEN 0 ELSE last[k]]
      /\ UNCHANGED <<lists, engine, created, downloads, overlapped, raced, lags>>
    BY DEF DeleteRules
<1>2. /\ Turn(p) /\ job'[p].at = "del_list" /\ job'[p].list = job[p].list /\ job'[p].todo = job[p].todo
    BY <1>0, <1>1, GotoTurn DEF Places, DeletePlaces
<1>3. TypeOK'
  <2>1. last' \in [Lists -> 0..MaxDownloads]
    BY <1>0, <1>1, ListsAssumption DEF TypeOK
  <2> QED
    BY <1>0, <1>1, <1>2, <2>1, Zenon DEF TypeOK, Turn
<1>4. PlacesOK'
    BY <1>0, <1>1, <1>2, Zenon DEF PlacesOK, Turn, At, DeletePlaces
<1>5. \A k : RowsOf(k)' \subseteq RowsOf(k)
    BY <1>1 DEF RowsOf
<1>6. LastSyncKept'
    BY <1>0, <1>1, Zenon DEF LastSyncKept
<1>7. SoleSyncReplaces'
    BY <1>0, <1>1, <1>5, Zenon DEF SoleSyncReplaces
<1>8. /\ job[p].at \notin SyncPlaces /\ job'[p].at \notin SyncPlaces
      /\ job[p].at \in DeletePlaces /\ job'[p].at \in DeletePlaces
      /\ \A q \in Procs \ {p} : job'[q] = job[q]
    BY <1>1, <1>2, Zenon DEF At, SyncPlaces, DeletePlaces, Turn
<1>9. AloneOK'
  <2> SUFFICES ASSUME NEW a \in Procs, job'[a].alone
               PROVE  /\ job'[a].at \in SyncPlaces =>
                           \A q \in Procs : job'[q].at \in SyncPlaces /\ job'[q].list = job'[a].list => q = a
                      /\ job'[a].at \in {"lock", "insert"} => RowsOf(job[a].list)' \subseteq job'[a].sees
    BY DEF AloneOK
  <2>1. job'[a].at \in SyncPlaces => job'[a] = job[a]
    BY <1>8, Zenon
  <2>2. ASSUME job'[a].at \in {"lock", "insert"} PROVE RowsOf(job[a].list)' \subseteq job'[a].sees
    <3>1. job'[a] = job[a] /\ RowsOf(job[a].list) \subseteq job[a].sees
      BY <1>0, <2>1, <2>2 DEF AloneOK, SyncPlaces
    <3> QED
      BY <1>1, <3>1, Zenon DEF RowsOf
  <2> QED
    BY <1>0, <1>8, <2>1, <2>2 DEF AloneOK
<1>10. UnracedOK'
  <2> SUFFICES ASSUME NEW m \in Lists \ raced
               PROVE  /\ lists'[m] = None => RowsOf(m)' = {}
                      /\ \A q \in Syncing(m)' : lists'[m] # None /\ Deleting(m)' = {}
                      /\ \A q \in Deleting(m)' : /\ At(q, "del_lock")' => RowsOf(m)' \subseteq job'[q].sees
                                                 /\ At(q, "del_list")' => RowsOf(m)' = {}
    BY <1>1, Zenon DEF UnracedOK
  <2>1. Syncing(m)' = Syncing(m) /\ Deleting(m)' = Deleting(m)
    BY <1>2, <1>8, Zenon DEF Syncing, Deleting
  <2>2. ASSUME NEW q \in Deleting(m)
        PROVE  /\ At(q, "del_lock")' => RowsOf(m)' \subseteq job'[q].sees
               /\ At(q, "del_list")' => RowsOf(m)' = {}
    <3>1. CASE q = p
      <4>1. RowsOf(m) \subseteq job[p].sees
        BY <1>0, <1>1, <2>2, <3>1, ZenonT(30) DEF UnracedOK
      <4>2. RowsOf(m)' = {}
        BY <1>1, <4>1, ZenonT(30) DEF RowsOf
      <4> QED
        BY <1>2, <3>1, <4>2 DEF At
    <3>2. CASE q # p
      <4>1. job'[q] = job[q]
        BY <1>8, <3>2, <2>2, Zenon DEF Deleting
      <4> QED
        BY <1>0, <1>5, <2>2, <4>1, Zenon DEF UnracedOK, At
    <3> QED
      BY <3>1, <3>2, Zenon
  <2> QED
    BY <1>0, <1>1, <1>5, <2>1, <2>2, ZenonT(30) DEF UnracedOK
<1>11. EngineOK'
    BY <1>2, Zenon DEF EngineOK, Pending, Promised
<1> QED
    BY <1>3, <1>4, <1>6, <1>7, <1>9, <1>10, <1>11 DEF ListsInv

-----------------------------------------------------------------------------
(* Reloads and crashes *)

\* A step after which every process that syncs or deletes is where it was, and
\* whose tables and history are the same, leaves all but EngineOK as it is.
LEMMA ReloadKeeps ==
    ASSUME ListsInv, job' \in [Procs -> Job], engine' \subseteq RuleRow, lags' \in BOOLEAN,
           UNCHANGED <<lists, rows, created, downloads, last, overlapped, raced>>,
           \A q \in Procs : job'[q] = job[q] \/
               /\ job'[q].at \in {"idle", "store"} /\ job'[q].todo \subseteq created
    PROVE  TypeOK' /\ PlacesOK' /\ LastSyncKept' /\ AloneOK' /\ SoleSyncReplaces' /\ UnracedOK'
<1>0. TypeOK /\ PlacesOK /\ AloneOK /\ UnracedOK /\ LastSyncKept /\ SoleSyncReplaces
    BY Zenon DEF ListsInv
<1>1. TypeOK'
    BY <1>0 DEF TypeOK
<1>2. \A q \in Procs : job'[q] = job[q] \/ job'[q].at \notin SyncPlaces \cup DeletePlaces \cup {"write"}
    BY Zenon DEF SyncPlaces, DeletePlaces
<1>3. PlacesOK'
    BY <1>0, <1>2, Zenon DEF PlacesOK, SyncPlaces, DeletePlaces
<1>4. LastSyncKept' /\ SoleSyncReplaces'
    BY <1>0, Zenon DEF LastSyncKept, SoleSyncReplaces, RowsOf
<1>5. AloneOK'
    BY <1>0, <1>2 DEF AloneOK, RowsOf, SyncPlaces
<1>6. UnracedOK'
  <2> SUFFICES ASSUME NEW m \in Lists \ raced
               PROVE  /\ lists'[m] = None => RowsOf(m)' = {}
                      /\ \A q \in Syncing(m)' : lists'[m] # None /\ Deleting(m)' = {}
                      /\ \A q \in Deleting(m)' : /\ At(q, "del_lock")' => RowsOf(m)' \subseteq job'[q].sees
                                                 /\ At(q, "del_list")' => RowsOf(m)' = {}
    BY Zenon DEF UnracedOK
  <2>1. Syncing(m)' \subseteq Syncing(m) /\ Deleting(m)' \subseteq Deleting(m) /\ RowsOf(m)' = RowsOf(m)
    BY <1>2, Zenon DEF Syncing, Deleting, RowsOf
  <2>2. \A q \in Deleting(m)' : job'[q] = job[q]
    BY <1>2 DEF Deleting
  <2> QED
    BY <1>0, <2>1, <2>2 DEF UnracedOK, At
<1> QED
    BY <1>1, <1>3, <1>4, <1>5, <1>6, Zenon

LEMMA ReadRulesInv ==
    ASSUME ListsInv, NEW p \in Procs, ReadRules(p)
    PROVE  ListsInv'
<1>0. TypeOK /\ PlacesOK /\ EngineOK /\ job[p] \in Job /\ rows \in SUBSET RuleRow
    BY DEF ListsInv, TypeOK
<1> DEFINE k == [job[p] EXCEPT !.at = "store", !.sees = rows, !.alone = TRUE]
<1>1. /\ job' = [job EXCEPT ![p] = k] /\ UNCHANGED <<lists, rows, engine, created, downloads, last, overlapped, raced, lags>>
    BY Zenon DEF ReadRules, history
<1>2. k \in Job /\ k.at = "store" /\ k.sees = rows /\ k.todo = job[p].todo
    BY <1>0, Zenon DEF Job, Places
<1> HIDE DEF k
<1>3. Turn(p) /\ job'[p] = k
    BY <1>0, <1>1, <1>2, TurnTo, Zenon
<1>4. TypeOK' /\ PlacesOK' /\ LastSyncKept' /\ AloneOK' /\ SoleSyncReplaces' /\ UnracedOK'
  <2>1. job'[p].at \in {"idle", "store"} /\ job'[p].todo \subseteq created
    BY <1>0, <1>2, <1>3, Zenon DEF PlacesOK
  <2>2. \A q \in Procs : job'[q] = job[q] \/ (job'[q].at \in {"idle", "store"} /\ job'[q].todo \subseteq created)
    BY <1>3, <2>1, Zenon DEF Turn
  <2>3. job' \in [Procs -> Job] /\ engine' \subseteq RuleRow /\ lags' \in BOOLEAN
    BY <1>0, <1>1, <1>3, Zenon DEF TypeOK, Turn
  <2> QED
    BY <1>1, <2>2, <2>3, ReloadKeeps, Zenon
<1>5. Promised(p)'
    BY <1>1, <1>2, <1>3, Zenon DEF Promised
<1>6. EngineOK'
    BY <1>5, Zenon DEF EngineOK, Pending
<1> QED
    BY <1>4, <1>6 DEF ListsInv

LEMMA StoreRulesInv ==
    ASSUME ListsInv, NEW p \in Procs, StoreRules(p)
    PROVE  ListsInv'
<1>0. TypeOK /\ PlacesOK /\ EngineOK /\ job \in [Procs -> Job] /\ lags \in BOOLEAN
    BY DEF ListsInv, TypeOK
<1> DEFINE m(q) == [job[q] EXCEPT !.alone = FALSE]
<1>1. /\ At(p, "store") /\ engine' = job[p].sees /\ lags' = (job[p].sees # rows /\ (lags \/ ~job[p].alone))
      /\ job' = [q \in Procs |-> IF q = p THEN Idle ELSE IF At(q, "store") THEN m(q) ELSE job[q]]
      /\ UNCHANGED <<lists, rows, created, downloads, last, overlapped, raced>>
    BY DEF StoreRules
<1>2. \A q \in Procs : /\ m(q) \in Job /\ m(q).at = job[q].at /\ m(q).sees = job[q].sees
                       /\ m(q).todo = job[q].todo /\ m(q).alone = FALSE
    BY <1>0, SetAlone, Zenon
<1> HIDE DEF m
<1>3. /\ job' \in [Procs -> Job] /\ job'[p] = Idle
      /\ \A q \in Procs \ {p} : job'[q] = IF job[q].at = "store" THEN m(q) ELSE job[q]
    BY <1>0, <1>1, <1>2, IdleType, Zenon DEF At
<1>4. TypeOK' /\ PlacesOK' /\ LastSyncKept' /\ AloneOK' /\ SoleSyncReplaces' /\ UnracedOK'
  <2>1. \A q \in Procs : job'[q] = job[q] \/ (job'[q].at \in {"idle", "store"} /\ job'[q].todo \subseteq created)
    BY <1>0, <1>2, <1>3, IdleType, Zenon DEF PlacesOK
  <2>2. engine' \subseteq RuleRow /\ lags' \in BOOLEAN
    BY <1>0, <1>1, JobType, Zenon
  <2> QED
    BY <1>1, <1>3, <2>1, <2>2, ReloadKeeps, Zenon
<1>5. \A q \in Procs \ {p} : Promised(q) => Promised(q)'
  <2> SUFFICES ASSUME NEW q \in Procs \ {p}, Promised(q) PROVE Promised(q)'
    BY Zenon
  <2>1. CASE job[q].at = "store"
    BY <1>1, <1>2, <1>3, <2>1, Zenon DEF Promised, SyncPlaces
  <2>2. CASE job[q].at # "store"
    BY <1>1, <1>3, <2>2, Zenon DEF Promised
  <2> QED
    BY <2>1, <2>2
<1>6. engine' = rows' \/ Pending'
  <2>1. CASE job[p].sees = rows
    BY <1>1, <2>1
  <2>2. CASE job[p].sees # rows /\ (lags \/ ~job[p].alone)
    BY <1>1, <2>2, Zenon DEF Pending
  <2>3. CASE job[p].sees # rows /\ ~lags /\ job[p].alone
    <3>1. PICK q \in Procs : Promised(q)
      BY <1>0, <1>1, <2>3, Zenon DEF EngineOK, Pending, At
    <3>2. q # p
      BY <1>1, <2>3, <3>1, Zenon DEF Promised, At, SyncPlaces
    <3> QED
      BY <1>5, <3>1, <3>2, Zenon DEF Pending
  <2> QED
    BY <2>1, <2>2, <2>3, Zenon
<1>7. \A q \in Procs : job'[q].at = "store" => ~job'[q].alone
    BY <1>2, <1>3, IdleType, Zenon
<1>8. EngineOK'
    BY <1>6, <1>7 DEF EngineOK
<1> QED
    BY <1>4, <1>8 DEF ListsInv

LEMMA CrashInv ==
    ASSUME ListsInv, Crash
    PROVE  ListsInv'
<1>1. /\ job' = [p \in Procs |-> Idle] /\ engine' = rows /\ lags' = FALSE
      /\ UNCHANGED <<lists, rows, created, downloads, last, overlapped, raced>>
    BY Zenon DEF Crash
<1>2. job' \in [Procs -> Job] /\ engine' \subseteq RuleRow /\ \A p \in Procs : job'[p] = Idle
    BY <1>1, IdleType, Zenon DEF ListsInv, TypeOK
<1>3. TypeOK' /\ PlacesOK' /\ LastSyncKept' /\ AloneOK' /\ SoleSyncReplaces' /\ UnracedOK'
  <2>1. \A q \in Procs : job'[q].at \in {"idle", "store"} /\ job'[q].todo \subseteq created
    BY <1>2, IdleType
  <2>2. lags' \in BOOLEAN
    BY <1>1, Zenon
  <2> QED
    BY <1>1, <1>2, <2>1, <2>2, ReloadKeeps, Zenon
<1>4. EngineOK'
    BY <1>1, <1>2, IdleType DEF EngineOK
<1> QED
    BY <1>3, <1>4 DEF ListsInv

-----------------------------------------------------------------------------
(* The theorems *)

LEMMA NextListsInv == ListsInv /\ [Next]_vars => ListsInv'
<1> SUFFICES ASSUME ListsInv, [Next]_vars PROVE ListsInv'
    OBVIOUS
<1>0. TypeOK /\ PlacesOK /\ Tasks \subseteq Procs /\ Hourly \in Procs
    BY DEF ListsInv, Procs
<1>1. ASSUME NEW p \in Tasks, Requested(p) PROVE ListsInv'
  <2>1. PICK l \in Lists :
           \/ \E row \in ListRow : create(p, l, row)
           \/ \E enabled, url \in BOOLEAN : update(p, l, enabled, url)
           \/ delete(p, l)
           \/ refresh(p, l)
    BY <1>1 DEF Requested
  <2>2. CASE \E row \in ListRow : create(p, l, row)
    BY <1>0, <2>2, CreateInv, Zenon
  <2>3. CASE \E enabled, url \in BOOLEAN : update(p, l, enabled, url)
    BY <1>0, <2>3, EndActions, EndsInv, Zenon
  <2>4. CASE delete(p, l)
    BY <1>0, <2>4, DeleteInv
  <2>5. CASE refresh(p, l)
    <3>1. l \in created
      BY <1>0, <2>5, Zenon DEF refresh, PlacesOK
    <3>2. Starts(p, l)
      BY <1>0, <2>5, <3>1, StartSyncStarts DEF refresh
    <3> QED
      BY <1>0, <3>2, StartsInv, Zenon
  <2> QED
    BY <2>1, <2>2, <2>3, <2>4, <2>5, Zenon
<1>2. ASSUME NEW p \in Tasks, HandlerStep(p) PROVE ListsInv'
  <2>1. CASE WriteList(p) \/ DeleteList(p) \/ Abandon(p)
    BY <1>0, <2>1, EndActions, EndsInv
  <2>2. CASE Snapshot(p, "del_rules", "del_lock")
    BY <1>0, <2>2, WithinActions, WithinInv
  <2>3. CASE DeleteRules(p)
    BY <1>0, <2>3, DeleteRulesInv
  <2> QED
    BY <1>2, <2>1, <2>2, <2>3, Zenon DEF HandlerStep
<1>3. ASSUME NEW p \in Procs, SyncStep(p) PROVE ListsInv'
  <2>1. CASE FetchFails(p) \/ TransactionFails(p) \/ UpdateMetadata(p) \/ MetadataFails(p)
    BY <1>0, <2>1, EndActions, EndsInv
  <2>2. CASE fetch_remote_filter(p) \/ Snapshot(p, "begin", "lock") \/ LockOldRules(p)
    BY <1>0, <2>2, WithinActions, WithinInv
  <2>3. CASE CommitSync(p)
    BY <2>3, CommitInv
  <2> QED
    BY <1>3, <2>1, <2>2, <2>3, Zenon DEF SyncStep
<1>4. ASSUME NEW p \in Procs, ReloadStep(p) PROVE ListsInv'
  <2>1. CASE ReloadFails(p)
    BY <1>0, <2>1, EndActions, EndsInv
  <2> QED
    BY <1>4, <2>1, ReadRulesInv, StoreRulesInv, Zenon DEF ReloadStep
<1>5. CASE AutoStep
  <2>1. CASE AutoTick \/ AutoEnds
    BY <1>0, <2>1, HourlyEndActions, EndsInv
  <2>2. ASSUME NEW l \in Lists, AutoNext(l) PROVE ListsInv'
    <3>1. l \in created
      BY <1>0, <2>2, ZenonT(30) DEF AutoNext, PlacesOK
    <3>2. Starts(Hourly, l)
      BY <1>0, <2>2, <3>1, StartSyncStarts, Zenon DEF AutoNext
    <3> QED
      BY <1>0, <2>2, <3>2, StartsInv
  <2> QED
    BY <1>5, <2>1, <2>2 DEF AutoStep
<1>6. CASE Crash
    BY <1>6, CrashInv
<1>7. CASE UNCHANGED vars
  <2>1. UNCHANGED <<lists, rows, engine, job, created, downloads, last, overlapped, raced, lags>>
    BY <1>7 DEF vars, history
  <2>2. TypeOK' /\ PlacesOK' /\ LastSyncKept' /\ AloneOK' /\ SoleSyncReplaces' /\ UnracedOK'
    BY <2>1, ReloadKeeps, ZenonT(30) DEF ListsInv, TypeOK
  <2>3. EngineOK'
    BY <2>1, Zenon DEF ListsInv, EngineOK, Pending, Promised
  <2> QED
    BY <2>2, <2>3 DEF ListsInv
<1> QED
    BY <1>1, <1>2, <1>3, <1>4, <1>5, <1>6, <1>7 DEF Next

\* The types of FilterLists: every row, job and history value stays in its set.
THEOREM TypeCorrect == Spec => []TypeOK
<1>1. ListsInv => TypeOK
    BY DEF ListsInv
<1> QED
    BY <1>1, InitListsInv, NextListsInv, PTL DEF Spec

\* The rules of the download committed last stay stored until delete removes
\* them, whatever fails (the transaction of sync_filter_list).
THEOREM LastKept == Spec => []LastSyncKept
<1>1. ListsInv => LastSyncKept
    BY DEF ListsInv
<1> QED
    BY <1>1, InitListsInv, NextListsInv, PTL DEF Spec

\* A sync that had its list to itself leaves only what it downloaded.
THEOREM SoleReplaces == Spec => []SoleSyncReplaces
<1>1. ListsInv => SoleSyncReplaces
    BY DEF ListsInv
<1> QED
    BY <1>1, InitListsInv, NextListsInv, PTL DEF Spec

\* Rules without their list come only from a sync that raced the delete, which
\* filters::delete does not wait for.
THEOREM OrphansRaced == Spec => []OrphansOnlyByRace
<1>1. ListsInv => OrphansOnlyByRace
    BY Zenon DEF ListsInv, UnracedOK, OrphansOnlyByRace
<1> QED
    BY <1>1, InitListsInv, NextListsInv, PTL DEF Spec

\* At rest the engine has the stored rules, unless a reload was lost or overtaken.
THEOREM EngineLags == Spec => []EngineLagsOnlyByLoss
<1>1. ListsInv => EngineLagsOnlyByLoss
    BY DEF ListsInv, EngineOK, Pending, Promised, EngineLagsOnlyByLoss, AtRest, At, SyncPlaces
<1> QED
    BY <1>1, InitListsInv, NextListsInv, PTL DEF Spec

-----------------------------------------------------------------------------
(* The rule set *)

INSTANCE SequenceTheorems

(***************************************************************************)
(* The two domain sets, the two pattern lists and block_all are what the   *)
(* accepted lines add, each line to the one its form names.                *)
(***************************************************************************)
SetsOK ==
    /\ blocked = {l.name : l \in {x \in accepted : Blocks(x)}}
    /\ allowed = {l.name : l \in {x \in accepted : Allows(x)}}
    /\ wildcard_blocked_patterns = {l.name : l \in {x \in accepted : BlocksPattern(x)}}
    /\ wildcard_allowed_patterns = {l.name : l \in {x \in accepted : AllowsPattern(x)}}
    /\ block_all <=> \E l \in accepted : BlocksAll(l)

RuleInv ==
    /\ accepted \subseteq {l \in Lines : Accepts(l)}
    /\ SetsOK
    /\ CompiledIsCurrent

LEMMA AddRule ==
    ASSUME RuleInv, NEW l \in Lines, add_rule(l)
    PROVE  RuleInv'
<1>1. accepted' = IF Accepts(l) THEN accepted \cup {l} ELSE accepted
    BY DEF add_rule
<1>2. accepted' \subseteq {x \in Lines : Accepts(x)}
    BY <1>1 DEF RuleInv
<1>3. blocked' = {x.name : x \in {y \in accepted' : Blocks(y)}}
  <2>1. blocked = {x.name : x \in {y \in accepted : Blocks(y)}}
    BY DEF RuleInv, SetsOK
  <2>2. blocked' = IF Blocks(l) THEN blocked \cup {l.name} ELSE blocked
    BY Zenon DEF add_rule
  <2> QED
    BY <1>1, <2>1, <2>2, Zenon DEF Accepts
<1>4. allowed' = {x.name : x \in {y \in accepted' : Allows(y)}}
  <2>1. allowed = {x.name : x \in {y \in accepted : Allows(y)}}
    BY Zenon DEF RuleInv, SetsOK
  <2>2. allowed' = IF Allows(l) THEN allowed \cup {l.name} ELSE allowed
    BY DEF add_rule
  <2> QED
    BY <1>1, <2>1, <2>2 DEF Accepts
<1>5. wildcard_blocked_patterns' = {x.name : x \in {y \in accepted' : BlocksPattern(y)}}
  <2>1. wildcard_blocked_patterns = {x.name : x \in {y \in accepted : BlocksPattern(y)}}
    BY Zenon DEF RuleInv, SetsOK
  <2>2. wildcard_blocked_patterns' = IF BlocksPattern(l) THEN wildcard_blocked_patterns \cup {l.name}
                                     ELSE wildcard_blocked_patterns
    BY DEF add_rule
  <2> QED
    BY <1>1, <2>1, <2>2, Zenon DEF Accepts
<1>6. wildcard_allowed_patterns' = {x.name : x \in {y \in accepted' : AllowsPattern(y)}}
  <2>1. wildcard_allowed_patterns = {x.name : x \in {y \in accepted : AllowsPattern(y)}}
    BY Zenon DEF RuleInv, SetsOK
  <2>2. wildcard_allowed_patterns' = IF AllowsPattern(l) THEN wildcard_allowed_patterns \cup {l.name}
                                     ELSE wildcard_allowed_patterns
    BY DEF add_rule
  <2> QED
    BY <1>1, <2>1, <2>2, ZenonT(30) DEF Accepts
<1>7. block_all' <=> \E x \in accepted' : BlocksAll(x)
  <2>1. block_all <=> \E x \in accepted : BlocksAll(x)
    BY DEF RuleInv, SetsOK
  <2>2. block_all' <=> (block_all \/ BlocksAll(l))
    BY Zenon DEF add_rule
  <2> QED
    BY <1>1, <2>1, <2>2, Zenon DEF Accepts
<1>8. SetsOK'
    BY <1>3, <1>4, <1>5, <1>6, <1>7, Zenon DEF SetsOK
<1>9. CompiledIsCurrent'
    BY Zenon DEF RuleInv, CompiledIsCurrent, add_rule
<1> QED
    BY <1>2, <1>8, <1>9, Zenon DEF RuleInv

LEMMA NextRule ==
    RuleInv /\ [RuleSetNext]_rule_set_vars => RuleInv'
<1> SUFFICES ASSUME RuleInv, [RuleSetNext]_rule_set_vars PROVE RuleInv'
    OBVIOUS
<1>1. ASSUME NEW l \in Lines, add_rule(l) PROVE RuleInv'
    BY <1>1, AddRule
<1>2. CASE build
  <2>1. UNCHANGED <<blocked, allowed, wildcard_blocked_patterns, wildcard_allowed_patterns, block_all, accepted>>
    BY <1>2 DEF build, patterns
  <2>2. CompiledIsCurrent'
    BY <1>2, <2>1, Zenon DEF build, Compiled, CompiledIsCurrent
  <2> QED
    BY <2>1, <2>2, Zenon DEF RuleInv, SetsOK
<1>3. CASE UNCHANGED rule_set_vars
    BY <1>3 DEF RuleInv, SetsOK, CompiledIsCurrent, rule_set_vars, patterns, compiled, line_history
<1> QED
    BY <1>1, <1>2, <1>3, Zenon DEF RuleSetNext

LEMMA SpecRule == RuleSetSpec => []RuleInv
<1>1. RuleSetInit => RuleInv
    BY DEF RuleSetInit, RuleInv, SetsOK, CompiledIsCurrent
<1> QED
    BY <1>1, NextRule, PTL DEF RuleSetSpec

\* add_rule and build, in whatever order, never leave a compiled set that misses a
\* pattern: a compiled set is discarded or holds all the patterns of its kind.
THEOREM CompiledCorrect == RuleSetSpec => []CompiledIsCurrent
<1>1. RuleInv => CompiledIsCurrent
    BY DEF RuleInv
<1> QED
    BY <1>1, SpecRule, PTL

(***************************************************************************)
(* The walk to the parents meets a name exactly when the domain lies at or *)
(* below it.                                                               *)
(***************************************************************************)
LEMMA ParentOf ==
    ASSUME NEW d \in Seq(STRING), NEW n \in 0..(Len(d) - 1)
    PROVE  /\ Parent(d, n) \in Seq(STRING) /\ Len(Parent(d, n)) = Len(d) - n
           /\ DOMAIN Parent(d, n) = 1..(Len(d) - n)
           /\ \A i \in 1..(Len(d) - n) : Parent(d, n)[i] = d[n + i]
<1> DEFINE m == n + 1
           p == SubSeq(d, m, Len(d))
<1>0. Len(d) \in Nat /\ n \in Nat /\ n < Len(d)
    BY LenProperties
<1>1. \A i \in m..Len(d) : d[i] \in STRING
    BY <1>0, ElementOfSeq
<1>2. /\ p \in Seq(STRING) /\ Len(p) = IF m <= Len(d) THEN Len(d) - m + 1 ELSE 0
      /\ \A i \in 1..(Len(d) - m + 1) : p[i] = d[m + i - 1]
  <2>1. m \in Int /\ Len(d) \in Int
    BY <1>0
  <2> HIDE DEF m
  <2> QED
    BY <1>1, <2>1, SubSeqProperties
<1> HIDE DEF p
<1>3. Len(p) = Len(d) - n /\ Len(d) - m + 1 = Len(d) - n
    BY <1>0, <1>2
<1>4. DOMAIN p = 1..(Len(d) - n)
    BY <1>2, <1>3, LenProperties, Zenon
<1>5. ASSUME NEW i \in 1..(Len(d) - n) PROVE p[i] = d[n + i]
  <2>1. m + i - 1 = n + i
    BY <1>0
  <2> QED
    BY <1>2, <1>3, <2>1, Zenon
<1> QED
    BY <1>2, <1>3, <1>4, <1>5, Zenon DEF p, Parent

LEMMA WalkMeetsName ==
    ASSUME NEW d \in Seq(STRING), NEW name \in Seq(STRING), name # <<>>
    PROVE  (\E n \in 0..(Len(d) - 1) : Parent(d, n) = name) <=> Below(d, name)
<1>0. Len(d) \in Nat /\ Len(name) \in Nat /\ Len(name) > 0 /\ DOMAIN name = 1..Len(name)
    BY LenProperties, EmptySeq
<1>1. ASSUME NEW n \in 0..(Len(d) - 1), Parent(d, n) = name PROVE Below(d, name)
  <2>1. n \in 0..Len(d) /\ n + Len(name) = Len(d) /\ \A i \in DOMAIN name : d[n + i] = name[i]
    <3>1. Len(name) = Len(d) - n /\ \A i \in 1..(Len(d) - n) : name[i] = d[n + i]
      BY <1>1, ParentOf, Zenon
    <3>2. n \in 0..Len(d) /\ n + Len(name) = Len(d)
      BY <1>0, <3>1
    <3>3. DOMAIN name = 1..(Len(d) - n)
      BY <1>0, <3>1
    <3> QED
      BY <3>1, <3>2, <3>3, Zenon
  <2> QED
    BY <2>1 DEF Below
<1>2. ASSUME NEW k \in 0..Len(d), k + Len(name) = Len(d), \A i \in DOMAIN name : d[k + i] = name[i]
      PROVE  k \in 0..(Len(d) - 1) /\ Parent(d, k) = name
  <2>1. k \in 0..(Len(d) - 1) /\ Len(d) - k = Len(name)
    BY <1>0, <1>2
  <2>2. /\ Parent(d, k) \in Seq(STRING) /\ Len(Parent(d, k)) = Len(name)
        /\ \A i \in 1..Len(name) : Parent(d, k)[i] = d[k + i]
    BY <2>1, ParentOf, Zenon
  <2>3. \A i \in 1..Len(name) : Parent(d, k)[i] = name[i]
    BY <1>0, <1>2, <2>2, Zenon
  <2> QED
    BY <2>1, <2>2, <2>3, SeqEqual, Zenon
<1> QED
    BY <1>1, <1>2 DEF Below

LEMMA WalkMeetsPattern ==
    ASSUME NEW d \in Seq(STRING), NEW p \in Seq(SUBSET STRING), p # <<>>
    PROVE  (\E n \in 0..(Len(d) - 1) : IsMatch(p, Parent(d, n))) <=> BelowPattern(d, p)
<1>0. Len(d) \in Nat /\ Len(p) \in Nat /\ Len(p) > 0 /\ DOMAIN p = 1..Len(p)
    BY LenProperties, EmptySeq
<1>1. ASSUME NEW n \in 0..(Len(d) - 1), IsMatch(p, Parent(d, n)) PROVE BelowPattern(d, p)
  <2>1. Len(Parent(d, n)) = Len(d) - n /\ \A i \in 1..(Len(d) - n) : Parent(d, n)[i] = d[n + i]
    BY ParentOf, Zenon
  <2>2. Len(p) = Len(d) - n /\ \A i \in DOMAIN p : Parent(d, n)[i] \in p[i]
    BY <1>1, <2>1 DEF IsMatch
  <2>3. n \in 0..Len(d) /\ n + Len(p) = Len(d)
    BY <1>0, <2>2
  <2>4. \A i \in DOMAIN p : d[n + i] \in p[i]
    BY <1>0, <2>1, <2>2, Zenon
  <2> QED
    BY <2>3, <2>4, Zenon DEF BelowPattern
<1>2. ASSUME NEW k \in 0..Len(d), k + Len(p) = Len(d), \A i \in DOMAIN p : d[k + i] \in p[i]
      PROVE  k \in 0..(Len(d) - 1) /\ IsMatch(p, Parent(d, k))
  <2>1. k \in 0..(Len(d) - 1) /\ Len(d) - k = Len(p)
    BY <1>0, <1>2
  <2>2. Len(Parent(d, k)) = Len(p) /\ \A i \in 1..Len(p) : Parent(d, k)[i] = d[k + i]
    BY <2>1, ParentOf, Zenon
  <2>3. \A i \in DOMAIN p : Parent(d, k)[i] \in p[i]
    BY <1>0, <1>2, <2>2, Zenon
  <2> QED
    BY <2>1, <2>2, <2>3 DEF IsMatch
<1> QED
    BY <1>1, <1>2 DEF BelowPattern

LEMMA SetMeets ==
    ASSUME NEW d \in Seq(STRING), NEW ls, NEW set, set = {l.name : l \in ls},
           \A l \in ls : l.name \in Seq(STRING) /\ l.name # <<>>
    PROVE  matches_set(d, set) <=> \E l \in ls : Below(d, l.name)
<1>1. matches_set(d, set) <=> \E l \in ls : \E n \in 0..(Len(d) - 1) : Parent(d, n) = l.name
    BY Zenon DEF matches_set
<1>2. \A l \in ls : (\E n \in 0..(Len(d) - 1) : Parent(d, n) = l.name) <=> Below(d, l.name)
    BY WalkMeetsName, Zenon
<1> QED
    BY <1>1, <1>2, Zenon

LEMMA WildcardsMeet ==
    ASSUME NEW d \in Seq(STRING), NEW ls, NEW set, set = {l.name : l \in ls}, set # NotBuilt,
           \A l \in ls : l.name \in Seq(SUBSET STRING) /\ l.name # <<>>
    PROVE  matches_wildcard_set(d, set) <=> \E l \in ls : BelowPattern(d, l.name)
<1>1. matches_wildcard_set(d, set) <=> \E l \in ls : \E n \in 0..(Len(d) - 1) : IsMatch(l.name, Parent(d, n))
    BY Zenon DEF matches_wildcard_set
<1>2. \A l \in ls : (\E n \in 0..(Len(d) - 1) : IsMatch(l.name, Parent(d, n))) <=> BelowPattern(d, l.name)
    BY WalkMeetsPattern
<1> QED
    BY <1>1, <1>2

LEMMA LineNames ==
    ASSUME NEW l \in Lines
    PROVE  /\ l.name # <<>>
           /\ l.form \in WildcardForms => l.name \in Seq(SUBSET STRING)
           /\ l.form \notin WildcardForms => l.name \in Seq(STRING)
BY RuleSetAssumption, Zenon

\* What an accepted line of each form does, and what it says of a domain.
LEMMA AcceptedLine ==
    ASSUME NEW l \in Lines, Accepts(l), NEW d
    PROVE  /\ Blocks(l) => l.form \notin Allowing \cup WildcardForms /\ (Speaks(l, d) <=> Below(d, l.name))
           /\ Allows(l) => l.form = "allow" /\ (Speaks(l, d) <=> Below(d, l.name))
           /\ BlocksPattern(l) => l.form = "wildcard" /\ (Speaks(l, d) <=> BelowPattern(d, l.name))
           /\ AllowsPattern(l) => l.form = "allow_wildcard" /\ (Speaks(l, d) <=> BelowPattern(d, l.name))
           /\ BlocksAll(l) => l.form = "block_all" /\ Speaks(l, d)
           /\ l.form \in Allowing <=> (Allows(l) \/ AllowsPattern(l))
           /\ l.form \notin Allowing <=> (Blocks(l) \/ BlocksPattern(l) \/ BlocksAll(l))
<1>1. CASE Blocks(l)
  <2>1. l.form \in {"adguard", "leading_dot", "plain", "hosts", "star"}
    BY <1>1 DEF Blocks
  <2> QED
    BY <1>1, <2>1 DEF Speaks, WildcardForms, Allowing, Allows, AllowsPattern, BlocksPattern, BlocksAll
<1>2. CASE ~Blocks(l)
    BY <1>2, Zenon DEF Speaks, WildcardForms, Allowing, Accepts, Allows, AllowsPattern, BlocksPattern, BlocksAll
<1> QED
    BY <1>1, <1>2

LEMMA AllowedMatches ==
    ASSUME RuleInv, NEW d \in Domains
    PROVE  (matches_set(d, allowed) \/ matches_wildcard_set(d, wildcard_allowed_set))
               <=> \E l \in Effective : l.form \in Allowing /\ Speaks(l, d)
<1> DEFINE ls == {x \in accepted : Allows(x)}
           ws == {x \in accepted : AllowsPattern(x)}
<1>0. d \in Seq(STRING)
    BY RuleSetAssumption
<1>1. \A l \in accepted : l \in Lines /\ Accepts(l)
    BY DEF RuleInv
<1>2. \A l \in ls : l.name \in Seq(STRING) /\ l.name # <<>>
    BY <1>1, LineNames DEF Allows, WildcardForms
<1>3. \A l \in ws : l.name \in Seq(SUBSET STRING) /\ l.name # <<>>
    BY <1>1, LineNames, Zenon DEF AllowsPattern, WildcardForms
<1>4. allowed = {l.name : l \in ls} /\ wildcard_allowed_patterns = {l.name : l \in ws}
    BY Zenon DEF RuleInv, SetsOK
<1> HIDE DEF ls, ws
<1>5. matches_set(d, allowed) <=> \E l \in ls : Below(d, l.name)
    BY <1>0, <1>2, <1>4, SetMeets, Zenon
<1>6. matches_wildcard_set(d, wildcard_allowed_set)
          <=> wildcard_allowed_set # NotBuilt /\ \E l \in ws : BelowPattern(d, l.name)
  <2>1. CASE wildcard_allowed_set = NotBuilt
    BY <2>1, Zenon DEF matches_wildcard_set
  <2>2. CASE wildcard_allowed_set # NotBuilt
    <3>1. wildcard_allowed_set = {l.name : l \in ws}
      BY <1>4, <2>2 DEF RuleInv, CompiledIsCurrent
    <3> QED
      BY <1>0, <1>3, <2>2, <3>1, WildcardsMeet, Zenon
  <2> QED
    BY <2>1, <2>2
<1>7. \A l \in accepted : (l \in ls <=> Allows(l)) /\ (l \in ws <=> AllowsPattern(l))
    BY DEF ls, ws
<1>8. ls \subseteq accepted /\ ws \subseteq accepted
    BY Zenon DEF ls, ws
<1>9. \A l \in ls : l \in Effective /\ l.form \in Allowing /\ (Speaks(l, d) <=> Below(d, l.name))
    BY <1>1, <1>7, <1>8, AcceptedLine, Zenon DEF Effective
<1>10. \A l \in ws : /\ l.form \in Allowing /\ (Speaks(l, d) <=> BelowPattern(d, l.name))
                     /\ l \in Effective <=> wildcard_allowed_set # NotBuilt
    BY <1>1, <1>7, <1>8, AcceptedLine, Zenon DEF Effective
<1>11. \A l \in Effective : l.form \in Allowing => l \in ls \cup ws
    BY <1>1, <1>7, AcceptedLine, Zenon DEF Effective
<1> QED
    BY <1>5, <1>6, <1>9, <1>10, <1>11, Zenon

LEMMA BlockedMatches ==
    ASSUME RuleInv, NEW d \in Domains
    PROVE  (block_all \/ matches_set(d, blocked) \/ matches_wildcard_set(d, wildcard_blocked_set))
               <=> \E l \in Effective : l.form \notin Allowing /\ Speaks(l, d)
<1> DEFINE ls == {x \in accepted : Blocks(x)}
           ws == {x \in accepted : BlocksPattern(x)}
<1>0. d \in Seq(STRING)
    BY RuleSetAssumption
<1>1. \A l \in accepted : l \in Lines /\ Accepts(l)
    BY DEF RuleInv
<1>2. \A l \in ls : l.name \in Seq(STRING) /\ l.name # <<>>
    BY <1>1, LineNames, Zenon DEF Blocks, WildcardForms
<1>3. \A l \in ws : l.name \in Seq(SUBSET STRING) /\ l.name # <<>>
    BY <1>1, LineNames, Zenon DEF BlocksPattern, WildcardForms
<1>4. blocked = {l.name : l \in ls} /\ wildcard_blocked_patterns = {l.name : l \in ws}
    BY Zenon DEF RuleInv, SetsOK
<1> HIDE DEF ls, ws
<1>5. matches_set(d, blocked) <=> \E l \in ls : Below(d, l.name)
    BY <1>0, <1>2, <1>4, SetMeets
<1>6. matches_wildcard_set(d, wildcard_blocked_set)
          <=> wildcard_blocked_set # NotBuilt /\ \E l \in ws : BelowPattern(d, l.name)
  <2>1. CASE wildcard_blocked_set = NotBuilt
    BY <2>1, Zenon DEF matches_wildcard_set
  <2>2. CASE wildcard_blocked_set # NotBuilt
    <3>1. wildcard_blocked_set = {l.name : l \in ws}
      BY <1>4, <2>2, Zenon DEF RuleInv, CompiledIsCurrent
    <3> QED
      BY <1>0, <1>3, <2>2, <3>1, WildcardsMeet, Zenon
  <2> QED
    BY <2>1, <2>2
<1>7. \A l \in accepted : (l \in ls <=> Blocks(l)) /\ (l \in ws <=> BlocksPattern(l))
    BY DEF ls, ws
<1>8. ls \subseteq accepted /\ ws \subseteq accepted
    BY DEF ls, ws
<1>9. \A l \in ls : l \in Effective /\ l.form \notin Allowing /\ (Speaks(l, d) <=> Below(d, l.name))
    BY <1>1, <1>7, <1>8, AcceptedLine, Zenon DEF Effective, Allowing, WildcardForms
<1>10. \A l \in ws : /\ l.form \notin Allowing /\ (Speaks(l, d) <=> BelowPattern(d, l.name))
                     /\ l \in Effective <=> wildcard_blocked_set # NotBuilt
    BY <1>1, <1>7, <1>8, AcceptedLine, Zenon DEF Effective, Allowing
<1>11. \A l \in Effective : l.form \notin Allowing => l \in ls \cup ws \/ BlocksAll(l)
    BY <1>1, <1>7, AcceptedLine, Zenon DEF Effective
<1>12. \A l \in accepted : BlocksAll(l) => l \in Effective /\ l.form \notin Allowing /\ Speaks(l, d)
    BY <1>1, AcceptedLine DEF Effective, Allowing
<1>13. block_all <=> \E l \in Effective : BlocksAll(l)
    BY <1>12, Zenon DEF RuleInv, SetsOK, Effective
<1>14. \A l \in Effective : BlocksAll(l) => l.form \notin Allowing /\ Speaks(l, d)
    BY <1>12, Zenon DEF Effective
<1> QED
    BY <1>5, <1>6, <1>9, <1>10, <1>11, <1>13, <1>14, Zenon

\* A lookup answers what the accepted lines say of the domain: whatever the lines, the
\* order in which they were added and the builds between them, the sets, the compiled
\* patterns and the walk to the parents (match_domain) give the verdict of the lines,
\* but for the wildcards of a kind that is not compiled.
THEOREM MatchingCorrect == RuleSetSpec => []MatchesLines
<1>1. RuleInv => MatchesLines
    BY AllowedMatches, BlockedMatches DEF MatchesLines, match_domain, Verdict
<1> QED
    BY <1>1, SpecRule, PTL
=============================================================================

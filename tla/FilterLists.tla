---------------------------- MODULE FilterLists ----------------------------
(***************************************************************************)
(* Remote filter lists: the handlers of api/handlers/filters.rs, the       *)
(* download-and-replace of dns/subscription.rs that they and the hourly    *)
(* task of main.rs start, and the reload that follows.                     *)
(*                                                                         *)
(* The rules one download stores are one row [list, gen] of custom_rules;  *)
(* gen numbers the downloads in the order in which they were fetched.      *)
(* Statements run at PostgreSQL's READ COMMITTED: a DELETE removes the     *)
(* rows that were committed when it started, and waits for rows another    *)
(* transaction is deleting.  Parsing and the batches of the INSERT are     *)
(* left out; how concurrent reloads overtake each other is FilterEngine's  *)
(* subject, a reload here only reads and then stores.                      *)
(***************************************************************************)
EXTENDS Naturals, FiniteSets

CONSTANTS
    Lists,         \* ids; an id is used once
    Tasks,         \* requests and the syncs they spawn
    Hourly,        \* the hourly refresh task
    None,          \* no row, no list
    Faults,        \* which failures happen: see FaultKinds
    MaxDownloads   \* bound: downloads in a behaviour

FaultKinds == {"fetch", "transaction", "metadata", "reload", "abandon", "crash"}

ListRow == [url : BOOLEAN, is_enabled : BOOLEAN]

ASSUME ListsAssumption ==
    /\ Hourly \notin Tasks /\ None \notin Lists \cup ListRow
    /\ Faults \subseteq FaultKinds
    /\ MaxDownloads \in Nat

Procs == Tasks \cup {Hourly}

VARIABLES
    lists,       \* filter_lists: [url, is_enabled] or None
    rows,        \* custom_rules with created_by "filter:<list>"
    engine,      \* the rows the published rule set was built from
    job,         \* what each process is doing
    created,     \* the ids handed out
    downloads,   \* downloads so far
    \* History, read by no action of the program:
    last,        \* the last download committed for each list and not deleted
                 \* since, 0 for none
    overlapped,  \* that download's sync shared its life with another of the list
    raced,       \* lists a sync of which ran on during or after their deletion
    lags         \* a reload was lost, or overtaken, and none has made up for it

history == <<last, overlapped, raced, lags>>
vars == <<lists, rows, engine, job, created, downloads, history>>

RuleRow == [list : Lists, gen : 1..MaxDownloads]

SyncPlaces == {"fetch", "begin", "lock", "insert", "metadata"}
DeletePlaces == {"del_rules", "del_lock", "del_list"}
Places == SyncPlaces \cup DeletePlaces \cup {"idle", "write", "read", "store", "next"}

Job == [at : Places, list : Lists \cup {None}, gen : 0..MaxDownloads,
        sees : SUBSET RuleRow, row : ListRow \cup {None}, alone : BOOLEAN,
        todo : SUBSET Lists, refreshed : BOOLEAN]

Idle == [at |-> "idle", list |-> None, gen |-> 0, sees |-> {}, row |-> None,
         alone |-> TRUE, todo |-> {}, refreshed |-> FALSE]

\* The types of the tables and of the state of every handler, sync and reload.
TypeOK ==
    /\ lists \in [Lists -> ListRow \cup {None}]
    /\ rows \subseteq RuleRow /\ engine \subseteq RuleRow
    /\ job \in [Procs -> Job]
    /\ created \subseteq Lists /\ downloads \in 0..MaxDownloads
    /\ last \in [Lists -> 0..MaxDownloads]
    /\ overlapped \in [Lists -> BOOLEAN] /\ raced \subseteq Lists /\ lags \in BOOLEAN

Init ==
    /\ lists = [l \in Lists |-> None]
    /\ rows = {} /\ engine = {}
    /\ job = [p \in Procs |-> Idle]
    /\ created = {} /\ downloads = 0
    /\ last = [l \in Lists |-> 0]
    /\ overlapped = [l \in Lists |-> FALSE]
    /\ raced = {} /\ lags = FALSE

RowsOf(l) == {r \in rows : r.list = l}
Syncing(l) == {p \in Procs : job[p].at \in SyncPlaces /\ job[p].list = l}
Deleting(l) == {p \in Procs : job[p].at \in DeletePlaces /\ job[p].list = l}

At(p, place) == job[p].at = place
Fault(kind) == kind \in Faults
Goto(p, place) == job' = [job EXCEPT ![p].at = place]
Finish(p) == job' = [job EXCEPT ![p] = Idle]

\* The first step of sync_filter_list; every sync of l under way has company.
StartSync(p, l) ==
    /\ job' = [q \in Procs |->
                  IF q = p
                  THEN [job[p] EXCEPT !.at = "fetch", !.list = l, !.gen = 0, !.sees = {},
                                      !.todo = @ \ {l}, !.alone = (Syncing(l) = {})]
                  ELSE IF q \in Syncing(l) THEN [job[q] EXCEPT !.alone = FALSE] ELSE job[q]]
    /\ raced' = IF lists[l] = None \/ Deleting(l) # {} THEN raced \cup {l} ELSE raced

-----------------------------------------------------------------------------
(* Requests *)

\* A new list; with a URL the handler spawns a sync, and needs no reload.
create(p, l, row) ==
    /\ At(p, "idle") /\ l \notin created
    /\ created' = created \cup {l}
    /\ lists' = [lists EXCEPT ![l] = row]
    /\ IF row.url
       THEN job' = [job EXCEPT ![p] = [Idle EXCEPT !.at = "fetch", !.list = l]]
       ELSE UNCHANGED job
    /\ UNCHANGED <<rows, engine, downloads, history>>

\* update reads the row, writes all its columns back and reloads.  A URL can be
\* set but not taken away.
update(p, l, enabled, url) ==
    /\ At(p, "idle") /\ lists[l] # None
    /\ job' = [job EXCEPT ![p] =
                  [Idle EXCEPT !.at = "write", !.list = l,
                               !.row = [url |-> lists[l].url \/ url, is_enabled |-> enabled]]]
    /\ UNCHANGED <<lists, rows, engine, created, downloads, history>>

WriteList(p) ==
    LET l == job[p].list IN
    /\ At(p, "write")
    /\ lists' = IF lists[l] = None THEN lists ELSE [lists EXCEPT ![l] = job[p].row]
    /\ Goto(p, "read")
    /\ UNCHANGED <<rows, engine, created, downloads, history>>

\* delete: the rules, then the list, each a statement of its own.
delete(p, l) ==
    /\ At(p, "idle") /\ l \in created
    /\ job' = [job EXCEPT ![p] = [Idle EXCEPT !.at = "del_rules", !.list = l]]
    /\ raced' = IF Syncing(l) # {} THEN raced \cup {l} ELSE raced
    /\ UNCHANGED <<lists, rows, engine, created, downloads, last, overlapped, lags>>

\* refresh reads the URL and spawns a sync.
refresh(p, l) ==
    /\ At(p, "idle") /\ lists[l] # None /\ lists[l].url
    /\ StartSync(p, l)
    /\ UNCHANGED <<lists, rows, engine, created, downloads, last, overlapped, lags>>

\* A statement DELETE ... WHERE created_by: what it sees, and the wait until no
\* other transaction holds one of those rows.
Snapshot(p, from, to) ==
    /\ At(p, from)
    /\ job' = [job EXCEPT ![p].at = to, ![p].sees = RowsOf(job[p].list)]
    /\ UNCHANGED <<lists, rows, engine, created, downloads, history>>

Locked(p) == \E q \in Procs \ {p} : At(q, "insert") /\ job[q].sees \cap job[p].sees \cap rows # {}

\* Mutant of DeleteRules: the statement matches nothing.
DeleteRules_NoMatch(p) ==
    /\ At(p, "del_lock") /\ ~Locked(p)
    /\ Goto(p, "del_list")
    /\ UNCHANGED <<lists, rows, engine, created, downloads, history>>

DeleteRules(p) ==
    /\ At(p, "del_lock") /\ ~Locked(p)
    /\ rows' = rows \ job[p].sees
    /\ Goto(p, "del_list")
    /\ last' = [l \in Lists |->
                   IF [list |-> l, gen |-> last[l]] \in job[p].sees THEN 0 ELSE last[l]]
    /\ UNCHANGED <<lists, engine, created, downloads, overlapped, raced, lags>>

\* No such list: the handler answers 404 and reloads nothing.
DeleteList(p) ==
    LET l == job[p].list IN
    /\ At(p, "del_list")
    /\ IF lists[l] = None
       THEN Finish(p) /\ lags' = TRUE /\ UNCHANGED lists
       ELSE Goto(p, "read") /\ lists' = [lists EXCEPT ![l] = None] /\ UNCHANGED lags
    /\ UNCHANGED <<rows, engine, created, downloads, last, overlapped, raced>>

-----------------------------------------------------------------------------
(* sync_filter_list *)

\* The hourly pass goes on with its next list, a spawned sync is over.
SyncFails(p) == IF p = Hourly THEN Goto(p, "next") ELSE Finish(p)

fetch_remote_filter(p) ==
    /\ At(p, "fetch") /\ downloads < MaxDownloads
    /\ downloads' = downloads + 1
    /\ job' = [job EXCEPT ![p].at = "begin", ![p].gen = downloads + 1]
    /\ UNCHANGED <<lists, rows, engine, created, history>>

FetchFails(p) ==
    /\ At(p, "fetch")
    /\ Fault("fetch") \/ downloads = MaxDownloads
    /\ SyncFails(p)
    /\ UNCHANGED <<lists, rows, engine, created, downloads, history>>

\* Mutant of LockOldRules: the DELETE commits on its own.
LockOldRules_Autocommit(p) ==
    /\ At(p, "lock") /\ ~Locked(p)
    /\ rows' = rows \ job[p].sees
    /\ Goto(p, "insert")
    /\ UNCHANGED <<lists, engine, created, downloads, history>>

LockOldRules(p) ==
    /\ At(p, "lock") /\ ~Locked(p)
    /\ Goto(p, "insert")
    /\ UNCHANGED <<lists, rows, engine, created, downloads, history>>

\* Mutant of Replaced: the old rules stay.
Replaced_Added(p) == rows \cup {[list |-> job[p].list, gen |-> job[p].gen]}

Replaced(p) == (rows \ job[p].sees) \cup {[list |-> job[p].list, gen |-> job[p].gen]}

CommitSync(p) ==
    LET l == job[p].list IN
    /\ At(p, "insert")
    /\ rows' = Replaced(p)
    /\ Goto(p, "metadata")
    /\ last' = [last EXCEPT ![l] = job[p].gen]
    /\ overlapped' = [overlapped EXCEPT ![l] = ~job[p].alone]
    /\ UNCHANGED <<lists, engine, created, downloads, raced, lags>>

TransactionFails(p) ==
    /\ Fault("transaction") /\ job[p].at \in {"begin", "lock", "insert"}
    /\ SyncFails(p)
    /\ UNCHANGED <<lists, rows, engine, created, downloads, history>>

\* Mutant of UpdateMetadata: the hourly pass forgets that it has to reload.
UpdateMetadata_Forgets(p) ==
    /\ At(p, "metadata")
    /\ Goto(p, IF p = Hourly THEN "next" ELSE "read")
    /\ UNCHANGED <<lists, rows, engine, created, downloads, history>>

\* rule_count and last_updated; then a spawned sync reloads, the hourly pass
\* remembers that it has to.
UpdateMetadata(p) ==
    /\ At(p, "metadata")
    /\ IF p = Hourly
       THEN job' = [job EXCEPT ![p].at = "next", ![p].refreshed = TRUE]
       ELSE Goto(p, "read")
    /\ UNCHANGED <<lists, rows, engine, created, downloads, history>>

MetadataFails(p) ==
    /\ At(p, "metadata") /\ Fault("metadata")
    /\ SyncFails(p)
    /\ lags' = TRUE
    /\ UNCHANGED <<lists, rows, engine, created, downloads, last, overlapped, raced>>

-----------------------------------------------------------------------------
(* run_filter_refresh_task *)

\* The enabled lists with a URL.  Which of them are due is the clock's choice.
AutoTick ==
    /\ At(Hourly, "idle")
    /\ \E due \in SUBSET {l \in Lists : lists[l] # None} :
          /\ due # {} /\ \A l \in due : lists[l].url /\ lists[l].is_enabled
          /\ job' = [job EXCEPT ![Hourly] = [Idle EXCEPT !.at = "next", !.todo = due]]
    /\ UNCHANGED <<lists, rows, engine, created, downloads, history>>

AutoNext(l) ==
    /\ At(Hourly, "next") /\ l \in job[Hourly].todo
    /\ StartSync(Hourly, l)
    /\ UNCHANGED <<lists, rows, engine, created, downloads, last, overlapped, lags>>

AutoEnds ==
    /\ At(Hourly, "next") /\ job[Hourly].todo = {}
    /\ IF job[Hourly].refreshed THEN Goto(Hourly, "read") ELSE Finish(Hourly)
    /\ UNCHANGED <<lists, rows, engine, created, downloads, history>>

-----------------------------------------------------------------------------
(* FilterEngine::reload, which looks at no row of filter_lists *)

ReadRules(p) ==
    /\ At(p, "read")
    /\ job' = [job EXCEPT ![p].at = "store", ![p].sees = rows, ![p].alone = TRUE]
    /\ UNCHANGED <<lists, rows, engine, created, downloads, history>>

StoreRules(p) ==
    /\ At(p, "store")
    /\ engine' = job[p].sees
    /\ job' = [q \in Procs |->
                  IF q = p THEN Idle
                  ELSE IF At(q, "store") THEN [job[q] EXCEPT !.alone = FALSE] ELSE job[q]]
    /\ lags' = (job[p].sees # rows /\ (lags \/ ~job[p].alone))
    /\ UNCHANGED <<lists, rows, created, downloads, last, overlapped, raced>>

ReloadFails(p) ==
    /\ At(p, "read") /\ Fault("reload")
    /\ Finish(p)
    /\ lags' = TRUE
    /\ UNCHANGED <<lists, rows, engine, created, downloads, last, overlapped, raced>>

\* A client that disconnects drops the handler at its next await.
Abandon(p) ==
    /\ Fault("abandon") /\ p # Hourly
    /\ job[p].at \in DeletePlaces \cup {"write"}
    /\ Finish(p)
    /\ lags' = TRUE
    /\ UNCHANGED <<lists, rows, engine, created, downloads, last, overlapped, raced>>

\* The process dies and starts again: transactions roll back, and
\* FilterEngine::new loads what is stored.
Crash ==
    /\ Fault("crash") /\ \E p \in Procs : ~At(p, "idle")
    /\ job' = [p \in Procs |-> Idle]
    /\ engine' = rows /\ lags' = FALSE
    /\ UNCHANGED <<lists, rows, created, downloads, last, overlapped, raced>>

Requested(p) ==
    \E l \in Lists :
        \/ \E row \in ListRow : create(p, l, row)
        \/ \E enabled, url \in BOOLEAN : update(p, l, enabled, url)
        \/ delete(p, l)
        \/ refresh(p, l)

SyncStep(p) ==
    \/ fetch_remote_filter(p) \/ FetchFails(p)
    \/ Snapshot(p, "begin", "lock") \/ LockOldRules(p)
    \/ CommitSync(p) \/ TransactionFails(p)
    \/ UpdateMetadata(p) \/ MetadataFails(p)

HandlerStep(p) ==
    \/ WriteList(p)
    \/ Snapshot(p, "del_rules", "del_lock") \/ DeleteRules(p) \/ DeleteList(p)
    \/ Abandon(p)

ReloadStep(p) == ReadRules(p) \/ StoreRules(p) \/ ReloadFails(p)

AutoStep == AutoTick \/ (\E l \in Lists : AutoNext(l)) \/ AutoEnds

Next ==
    \/ \E p \in Tasks : Requested(p) \/ HandlerStep(p)
    \/ \E p \in Procs : SyncStep(p) \/ ReloadStep(p)
    \/ AutoStep
    \/ Crash

Spec == Init /\ [][Next]_vars

-----------------------------------------------------------------------------
(* Properties *)

\* "Wrap DELETE + INSERT in a transaction so a crash mid-sync never leaves rules
\* empty": whatever fails and whatever runs beside it, the rules of the download
\* that was committed last stay stored until delete removes them.
LastSyncKept ==
    \A l \in Lists :
        last[l] # 0 => [list |-> l, gen |-> last[l]] \in rows

\* A sync that had its list to itself replaces everything stored for it: what is
\* left is that one download, and no newer one was ever stored.
SoleSyncReplaces ==
    \A l \in Lists :
        (last[l] # 0 /\ ~overlapped[l]) => \A r \in RowsOf(l) : r.gen = last[l]

\* delete leaves rules behind only when a sync of the list was under way, or was
\* still to come in the hourly pass.
OrphansOnlyByRace ==
    \A l \in Lists : (lists[l] = None /\ RowsOf(l) # {}) => l \in raced

AtRest == \A p \in Procs : At(p, "idle")

\* At rest the engine answers from the rules that are stored, unless a reload
\* failed, was abandoned or was overtaken by an older one, or an error before it
\* (the metadata update, the 404 of delete) kept it from being made.
EngineLagsOnlyByLoss == AtRest => engine = rows \/ lags

\* "Delete associated rules first": at rest no rule belongs to a deleted list.
NoOrphans == AtRest => \A r \in rows : lists[r.list] # None

\* "Sync a remote filter list: download, parse, and store rules": at rest the
\* rules of a list are those of one download.
OneDownloadStored == AtRest => \A l \in Lists : Cardinality(RowsOf(l)) <= 1

\* "outside the transaction - non-critical metadata": losing that update does
\* not keep the rules of a finished sync from being loaded.
MetadataNotCritical == AtRest => engine = rows
=============================================================================

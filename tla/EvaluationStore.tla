--------------------------- MODULE EvaluationStore ---------------------------
(***************************************************************************)
(* The SQLite index of runs and reviews (store/sqlite.py, store/schema.py) *)
(* and the review files it indexes (review/store.py, review/service.py),   *)
(* used by several processes at once.                                      *)
(*                                                                         *)
(* Every operation opens a connection of its own and migrates the store    *)
(* first.  A write transaction (BEGIN IMMEDIATE) holds SQLite's one write  *)
(* lock and works on its own copy, which COMMIT installs and a crash       *)
(* forgets; a statement outside a transaction reads what is committed at   *)
(* that moment.                                                            *)
(***************************************************************************)
EXTENDS Naturals, Sequences, FiniteSets

CONSTANTS
  Client,        \* processes
  RunId,
  Fingerprint,         \* scenario fingerprints
  Record,        \* what the executions record: see RecordType
  Review,        \* reviews, each a file named after its contents
  CurrentVersion,\* CURRENT_SCHEMA_VERSION of this build
  Stores,        \* the stores a behaviour may begin with: see StoreType
  Operation,     \* the operations asked for: [kind, record, review]
  MaxOperations, \* bound on the operations of a behaviour
  MaxFaults,     \* bound on crashes, expired locks and failed writes
  None

\* key is what index_key compares, all but the time of recording.
RecordType == [run : RunId, key : Nat, prints : SUBSET Fingerprint, at : Nat]
\* version 0 is a file without a schema; applied is the schema_version table.
StoreType ==
  [version : Nat, applied : Seq(Nat), rows : [RunId -> Record \cup {None}],
   prints : [RunId -> SUBSET Fingerprint], reviews : SUBSET Review]
\* What earlier processes left: their transactions committed whole rows, and
\* run ids are numbers because ORDER BY compares them.
Consistent(store) ==
  \A r \in RunId : store.rows[r] # None =>
    store.rows[r].run = r /\ store.prints[r] = store.rows[r].prints
OperationType ==
  [kind : {"record"}, record : Record, review : {None}] \cup
  [kind : {"review"}, record : {None}, review : Review] \cup
  [kind : {"load", "read", "list"}, record : {None}, review : {None}]
ASSUME StoreAssumption ==
  /\ CurrentVersion \in Nat \ {0}
  /\ RunId \subseteq Nat
  /\ Record \subseteq RecordType
  /\ Stores \subseteq StoreType \cup {None}
  /\ \A store \in Stores \ {None} :
       Consistent(store) /\ IsFiniteSet({r \in RunId : store.rows[r] # None})
  /\ Operation \subseteq OperationType
ASSUME NoneAssumption ==
  None \notin Client \cup Record \cup StoreType \cup {"partial", "whole"}

VARIABLES
  db,        \* what is committed, None if there is no file
  lock,      \* the client in a write transaction, or None
  copy,      \* [Client -> the transaction's own copy, or None]
  files,     \* [Review -> None, "partial" or "whole"]
  client,    \* [Client -> state of its operation]
  begun,     \* operations begun
  faults     \* crashes and failures so far

vars == <<db, lock, copy, files, client, begun, faults>>

Idle == [pc |-> "idle", op |-> None, known |-> {}, ids |-> <<>>, row |-> None,
         list |-> <<>>]
EmptyStore ==
  [version |-> 0, applied |-> <<>>, rows |-> [r \in RunId |-> None],
   prints |-> [r \in RunId |-> {}], reviews |-> {}]

Init ==
  /\ db \in Stores
  /\ lock = None
  /\ copy = [c \in Client |-> None]
  /\ files = [v \in Review |-> IF db # None /\ v \in db.reviews THEN "whole" ELSE None]
  /\ client = [c \in Client |-> Idle]
  /\ begun = 0
  /\ faults = 0

Go(c, new) ==
  client' = [client EXCEPT ![c] =
    [f \in DOMAIN @ |-> IF f \in DOMAIN new THEN new[f] ELSE @[f]]]
At(c, where) == Go(c, [pc |-> where])
Finish(c) == client' = [client EXCEPT ![c] = Idle]
Committed == <<db, files>>
Counts == <<begun, faults>>
Indexed == IF db = None THEN {} ELSE {r \in RunId : db.rows[r] # None}

-----------------------------------------------------------------------------
(* An operation begins: a report reads the store as it is, a review is a   *)
(* file before it is indexed, the others open the store.                   *)
Begin(c) ==
  /\ client[c].pc = "idle"
  /\ begun < MaxOperations
  /\ begun' = begun + 1
  /\ \E op \in Operation :
       Go(c, [op |-> op, known |-> Indexed,
              pc |-> CASE op.kind = "read"   -> "checking"
                       [] op.kind = "review" -> "reviewing"
                       [] op.kind = "load"   -> "loading"
                       [] OTHER              -> "opening"])
  /\ UNCHANGED <<Committed, lock, copy, faults>>

\* Seeded fault: the review is indexed when its file is created.
MutCreateReview(c) ==
  LET v == client[c].op.review
  IN /\ client[c].pc = "reviewing"
     /\ IF files[v] = None
        THEN files' = [files EXCEPT ![v] = "partial"] /\ At(c, "opening")
        ELSE Finish(c) /\ UNCHANGED files
     /\ UNCHANGED <<db, lock, copy, Counts>>

(* write_human_review: the file is created under its final name, then      *)
(* filled; one that exists is never overwritten, one that could not be     *)
(* written is unlinked.                                                    *)
CreateReview(c) ==
  LET v == client[c].op.review
  IN /\ client[c].pc = "reviewing"
     /\ IF files[v] = None
        THEN files' = [files EXCEPT ![v] = "partial"] /\ At(c, "filling")
        ELSE Finish(c) /\ UNCHANGED files
     /\ UNCHANGED <<db, lock, copy, Counts>>
FillReview(c) ==
  /\ client[c].pc = "filling"
  /\ files' = [files EXCEPT ![client[c].op.review] = "whole"]
  /\ At(c, "opening")
  /\ UNCHANGED <<db, lock, copy, Counts>>
FillFails(c) ==
  /\ client[c].pc = "filling"
  /\ faults < MaxFaults
  /\ faults' = faults + 1
  /\ files' = [files EXCEPT ![client[c].op.review] = None]
  /\ Finish(c)
  /\ UNCHANGED <<db, lock, copy, begun>>

(* load_reviews_for_run: the directory is listed, then each file is read;  *)
(* one that is not whole, or gone, fails the load of them all.             *)
ListReviews(c) ==
  /\ client[c].pc = "loading"
  /\ Go(c, [pc |-> "reading_reviews", known |-> {v \in Review : files[v] # None}])
  /\ UNCHANGED <<Committed, lock, copy, Counts>>
ReadReview(c) ==
  /\ client[c].pc = "reading_reviews"
  /\ IF client[c].known = {}
     THEN Finish(c)
     ELSE \E v \in client[c].known :
            Go(c, IF files[v] = "whole"
                  THEN [known |-> client[c].known \ {v}]
                  ELSE [pc |-> "unreadable", known |-> {v}])
  /\ UNCHANGED <<Committed, lock, copy, Counts>>
LoadFails(c) ==
  /\ client[c].pc = "unreadable"
  /\ Finish(c)
  /\ UNCHANGED <<Committed, lock, copy, Counts>>

-----------------------------------------------------------------------------
(* _connect: the file is created empty, then the connection is migrated. *)
Open(c) ==
  /\ client[c].pc = "opening"
  /\ db' = IF db = None THEN EmptyStore ELSE db
  /\ At(c, "connecting")
  /\ UNCHANGED <<files, lock, copy, Counts>>

BeginImmediate(c) ==
  /\ lock = None
  /\ lock' = c
  /\ copy' = [copy EXCEPT ![c] = db]
Rollback(c) ==
  /\ lock' = None
  /\ copy' = [copy EXCEPT ![c] = None]
  /\ UNCHANGED db
Commit(c) ==
  /\ db' = copy[c]
  /\ lock' = None
  /\ copy' = [copy EXCEPT ![c] = None]

BeginMigration(c) ==
  /\ client[c].pc = "connecting"
  /\ BeginImmediate(c)
  /\ At(c, "migrating")
  /\ UNCHANGED <<Committed, Counts>>

(* apply_migrations, one missing version after the other. *)
Migrate(c) ==
  LET next == copy[c].version + 1
  IN /\ client[c].pc = "migrating"
     /\ copy[c].version < CurrentVersion
     /\ copy' = [copy EXCEPT ![c].version = next,
                             ![c].applied = Append(@, next)]
     /\ UNCHANGED <<Committed, lock, client, Counts>>
RefuseNewer(c) ==
  /\ client[c].pc = "migrating"
  /\ copy[c].version > CurrentVersion
  /\ Rollback(c)
  /\ Finish(c)
  /\ UNCHANGED <<files, Counts>>
EndMigration(c) ==
  /\ client[c].pc = "migrating"
  /\ copy[c].version = CurrentVersion
  /\ Commit(c)
  /\ At(c, IF client[c].op.kind = "list" THEN "selecting" ELSE "connected")
  /\ UNCHANGED <<files, Counts>>

-----------------------------------------------------------------------------
BeginWrite(c) ==
  /\ client[c].pc = "connected"
  /\ BeginImmediate(c)
  /\ At(c, IF client[c].op.kind = "record" THEN "looking" ELSE "indexing")
  /\ UNCHANGED <<Committed, Counts>>

\* Seeded fault: a run that is there is replaced.
MutLookUp(c) ==
  /\ client[c].pc = "looking"
  /\ At(c, "inserting")
  /\ UNCHANGED <<Committed, lock, copy, Counts>>

(* record_run: an equivalent row is a no-op, another one a conflict. *)
LookUp(c) ==
  LET r == client[c].op.record.run
  IN /\ client[c].pc = "looking"
     /\ IF copy[c].rows[r] = None
        THEN At(c, "inserting") /\ UNCHANGED <<db, lock, copy>>
        ELSE Rollback(c) /\ Finish(c)
     /\ UNCHANGED <<files, Counts>>

\* Seeded fault: the row is committed before its fingerprints.
MutInsertRow(c) ==
  LET d == client[c].op.record
  IN /\ client[c].pc = "inserting"
     /\ copy' = [copy EXCEPT ![c].rows[d.run] = d]
     /\ db' = copy'[c]
     /\ At(c, "fingerprinting")
     /\ UNCHANGED <<files, lock, Counts>>

InsertRow(c) ==
  LET d == client[c].op.record
  IN /\ client[c].pc = "inserting"
     /\ copy' = [copy EXCEPT ![c].rows[d.run] = d]
     /\ At(c, "fingerprinting")
     /\ UNCHANGED <<Committed, lock, Counts>>
InsertPrints(c) ==
  LET d == client[c].op.record
  IN /\ client[c].pc = "fingerprinting"
     /\ copy' = [copy EXCEPT ![c].prints[d.run] = d.prints]
     /\ At(c, "committing")
     /\ UNCHANGED <<Committed, lock, Counts>>
(* record_review: INSERT OR IGNORE. *)
InsertReview(c) ==
  /\ client[c].pc = "indexing"
  /\ copy' = [copy EXCEPT ![c].reviews = @ \cup {client[c].op.review}]
  /\ At(c, "committing")
  /\ UNCHANGED <<Committed, lock, Counts>>
CommitWrite(c) ==
  /\ client[c].pc = "committing"
  /\ Commit(c)
  /\ Finish(c)
  /\ UNCHANGED <<files, Counts>>

-----------------------------------------------------------------------------
(* list_runs_readonly: no file, no schema and a newer schema are errors. *)
Check(c) ==
  /\ client[c].pc = "checking"
  /\ IF db # None /\ db.version \in 1..CurrentVersion
     THEN At(c, "selecting") ELSE Finish(c)
  /\ UNCHANGED <<Committed, lock, copy, Counts>>

Earlier(r, s) == db.rows[r].at < db.rows[s].at
                 \/ (db.rows[r].at = db.rows[s].at /\ r < s)
InRecordedOrder ==
  CHOOSE s \in [1..Cardinality(Indexed) -> Indexed] :
    \A i, j \in DOMAIN s : i < j => Earlier(s[i], s[j])

(* The ids are one statement, and each run is two more (_load_run): its    *)
(* row, then its fingerprints.                                             *)
Select(c) ==
  /\ client[c].pc = "selecting"
  /\ Go(c, [pc |-> "fetching", ids |-> InRecordedOrder])
  /\ UNCHANGED <<Committed, lock, copy, Counts>>
FetchRow(c) ==
  /\ client[c].pc = "fetching"
  /\ IF client[c].ids = <<>>
     THEN At(c, "listed")
     ELSE Go(c, [pc |-> "fetching_prints", row |-> db.rows[Head(client[c].ids)]])
  /\ UNCHANGED <<Committed, lock, copy, Counts>>
FetchPrints(c) ==
  LET r == Head(client[c].ids)
  IN /\ client[c].pc = "fetching_prints"
     /\ Go(c, [pc |-> "fetching", ids |-> Tail(client[c].ids), row |-> None,
               list |-> IF client[c].row = None THEN client[c].list
                        ELSE Append(client[c].list,
                               [row |-> client[c].row, prints |-> db.prints[r]])])
     /\ UNCHANGED <<Committed, lock, copy, Counts>>
EndList(c) ==
  /\ client[c].pc = "listed"
  /\ Finish(c)
  /\ UNCHANGED <<Committed, lock, copy, Counts>>

-----------------------------------------------------------------------------
(* The write lock is not free in time: the operation fails, or only warns. *)
Busy(c) ==
  /\ client[c].pc \in {"connecting", "connected"}
  /\ lock # None
  /\ faults < MaxFaults
  /\ faults' = faults + 1
  /\ Finish(c)
  /\ UNCHANGED <<Committed, lock, copy, begun>>

(* A process is killed; SQLite forgets its transaction. *)
Crash(c) ==
  /\ client[c].pc # "idle"
  /\ faults < MaxFaults
  /\ faults' = faults + 1
  /\ lock' = IF lock = c THEN None ELSE lock
  /\ copy' = [copy EXCEPT ![c] = None]
  /\ Finish(c)
  /\ UNCHANGED <<Committed, begun>>

Next ==
  \E c \in Client :
    \/ Begin(c) \/ CreateReview(c) \/ FillReview(c) \/ FillFails(c)
    \/ ListReviews(c) \/ ReadReview(c) \/ LoadFails(c)
    \/ Open(c) \/ BeginMigration(c) \/ Migrate(c) \/ RefuseNewer(c)
    \/ EndMigration(c) \/ BeginWrite(c) \/ LookUp(c) \/ InsertRow(c)
    \/ InsertPrints(c) \/ InsertReview(c) \/ CommitWrite(c)
    \/ Check(c) \/ Select(c) \/ FetchRow(c) \/ FetchPrints(c) \/ EndList(c)
    \/ Busy(c) \/ Crash(c)

StoreSpec == Init /\ [][Next]_vars

-----------------------------------------------------------------------------
(* What is committed of a run is all of it. *)
Whole(r) ==
  IF db = None \/ db.rows[r] = None THEN None
  ELSE [db.rows[r] EXCEPT !.prints = db.prints[r]]

(* The store implements the write-once index, also for processes that      *)
(* record the same run, that migrate an old store, or that are killed in   *)
(* a transaction: a run appears once, with all its fingerprints, and never *)
(* changes.                                                                *)
Index == INSTANCE RunIndex WITH indexed <- [r \in RunId |-> Whole(r)]
ImplementsRunIndex == Index!Spec

(* A list has every run that was recorded when it was asked for, each      *)
(* whole and once, in the order of their recording times, although it is   *)
(* read statement by statement while others record.                        *)
ListsAreWhole ==
  \A c \in Client : client[c].pc = "listed" =>
    LET list == client[c].list
    IN /\ client[c].known \subseteq {list[i].row.run : i \in DOMAIN list}
       /\ \A i \in DOMAIN list :
            list[i].prints = list[i].row.prints /\ list[i].row = Whole(list[i].row.run)
       /\ \A i, j \in DOMAIN list : i < j => Earlier(list[i].row.run, list[j].row.run)

(* A review that is indexed has its whole file, the authoritative one: no  *)
(* crash or failed write leaves an entry for half a review, and a load that *)
(* meets a partial file meets one whose writer has not come to the index.  *)
IndexedReviewsAreReadable ==
  db # None => \A v \in db.reviews : files[v] = "whole"
=============================================================================

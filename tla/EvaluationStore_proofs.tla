------------------------ MODULE EvaluationStore_proofs ------------------------
(* What the store promises, for any number of processes, runs and reviews. *)
EXTENDS EvaluationStore, FiniteSetTheorems, TLAPS

-----------------------------------------------------------------------------
(* The types.                                                              *)
InTransaction ==
  {"migrating", "looking", "inserting", "fingerprinting", "indexing", "committing"}
Listing == {"selecting", "fetching", "fetching_prints", "listed"}
Loading == {"loading", "reading_reviews", "unreadable"}
Pcs == InTransaction \cup Listing \cup Loading
       \cup {"idle", "checking", "reviewing", "filling", "opening", "connecting",
             "connected"}
ItemType == [row : Record, prints : SUBSET Fingerprint]
ClientType ==
  [pc : Pcs, op : Operation \cup {None}, known : SUBSET (RunId \cup Review),
   ids : Seq(RunId), row : Record \cup {None}, list : Seq(ItemType)]

TypeOK ==
  /\ db \in StoreType \cup {None}
  /\ lock \in Client \cup {None}
  /\ copy \in [Client -> StoreType \cup {None}]
  /\ files \in [Review -> {None, "partial", "whole"}]
  /\ client \in [Client -> ClientType]
  /\ begun \in Nat
  /\ faults \in Nat

(* Which operation is where: a client that does something does an          *)
(* operation of the kind that comes there, and the store it has opened     *)
(* exists.                                                                 *)
Placed(c) ==
  LET pc == client[c].pc
      kind == client[c].op.kind
  IN /\ pc # "idle" => client[c].op \in Operation
     /\ pc \in {"reviewing", "filling", "indexing"} => kind = "review"
     /\ pc \in {"looking", "inserting", "fingerprinting"} => kind = "record"
     /\ pc \in {"connected", "committing"} => kind \in {"record", "review"}
     /\ pc \in {"opening", "connecting", "migrating"} => kind \in {"record", "review", "list"}
     /\ pc \in Listing => kind \in {"read", "list"}
     /\ pc \in Loading => kind = "load"
     /\ pc = "checking" => kind = "read"
Opened(c) ==
  client[c].pc \in InTransaction \cup Listing \cup {"connecting", "connected"} =>
    db # None

(* One transaction at a time, on a copy that differs from what is          *)
(* committed by what its own operation has written so far.                 *)
Owned(c) ==
  /\ lock = c <=> client[c].pc \in InTransaction
  /\ copy[c] # None <=> client[c].pc \in InTransaction
Recording(c) ==
  LET d == client[c].op.record
      recorded == client[c].pc = "committing" /\ client[c].op.kind = "record"
  IN /\ client[c].pc \in {"inserting", "fingerprinting"} \/ recorded =>
          db.rows[d.run] = None
     /\ copy[c].rows = IF client[c].pc = "fingerprinting" \/ recorded
                       THEN [db.rows EXCEPT ![d.run] = d] ELSE db.rows
     /\ copy[c].prints = IF recorded
                         THEN [db.prints EXCEPT ![d.run] = d.prints] ELSE db.prints
     /\ copy[c].reviews \subseteq
          db.reviews \cup (IF client[c].op.kind = "review" THEN {client[c].op.review}
                           ELSE {})
Isolated(c) == client[c].pc \in InTransaction => Recording(c)

(* The rows that are committed are whole, and there are finitely many.     *)
Sound == db # None => Consistent(db) /\ IsFiniteSet(Indexed)

(* A review that is on its way to the index has its whole file, and a file *)
(* that is being filled has one writer.                                    *)
Filed(c) ==
  LET v == client[c].op.review
  IN /\ client[c].pc = "filling" =>
          /\ files[v] = "partial"
          /\ \A d \in Client \ {c} : client[d].pc = "filling" => client[d].op.review # v
     /\ client[c].pc \in {"opening", "connecting", "connected"} \cup InTransaction
        /\ client[c].op.kind = "review" => files[v] = "whole"

(* A list in the making: what is listed and what is still to be fetched    *)
(* are in order, and hold every run that was known when the list began.    *)
Known(c) ==
  client[c].pc \notin {"reading_reviews", "unreadable"} => client[c].known \subseteq Indexed
Listed(c) ==
  LET list == client[c].list
      ids == client[c].ids
  IN client[c].pc \in {"fetching", "fetching_prints", "listed"} =>
     /\ \A i \in 1..Len(list) :
          /\ list[i].row.run \in Indexed
          /\ list[i].row = db.rows[list[i].row.run]
          /\ list[i].prints = list[i].row.prints
     /\ \A i \in 1..Len(ids) : ids[i] \in Indexed
     /\ \A i, j \in 1..Len(list) : i < j => Earlier(list[i].row.run, list[j].row.run)
     /\ \A i, j \in 1..Len(ids) : i < j => Earlier(ids[i], ids[j])
     /\ \A i \in 1..Len(list), j \in 1..Len(ids) : Earlier(list[i].row.run, ids[j])
     /\ \A r \in client[c].known :
          \/ \E i \in 1..Len(list) : list[i].row.run = r
          \/ \E i \in 1..Len(ids) : ids[i] = r
     /\ client[c].pc = "fetching_prints" =>
          ids # <<>> /\ client[c].row = db.rows[ids[1]]
     /\ client[c].pc = "listed" => ids = <<>>
Fresh(c) ==
  client[c].pc \notin {"fetching", "fetching_prints", "listed"} => client[c].list = <<>>

StoreInv ==
  /\ TypeOK
  /\ Sound
  /\ IndexedReviewsAreReadable
  /\ \A c \in Client :
       Placed(c) /\ Opened(c) /\ Owned(c) /\ Isolated(c) /\ Filed(c)
       /\ Known(c) /\ Listed(c) /\ Fresh(c)
-----------------------------------------------------------------------------
(* Facts about the parts.                                                  *)
Fields == {"pc", "op", "known", "ids", "row", "list"}

(* A client moves: the fields that are named change, the others and the    *)
(* other clients stay.                                                     *)
LEMMA GoEffect ==
  ASSUME TypeOK, NEW c \in Client, NEW new, Go(c, new)
  PROVE  /\ DOMAIN client' = Client
         /\ client'[c] = [f \in Fields |-> IF f \in DOMAIN new THEN new[f]
                                           ELSE client[c][f]]
         /\ \A d \in Client \ {c} : client'[d] = client[d]
<1>1. client \in [Client -> ClientType]
  BY DEF TypeOK
<1>2. DOMAIN client[c] = Fields
  BY <1>1 DEF ClientType, Fields
<1> QED
  BY <1>1, <1>2 DEF Go

LEMMA FinishEffect ==
  ASSUME TypeOK, NEW c \in Client, Finish(c)
  PROVE  /\ DOMAIN client' = Client
         /\ client'[c] = Idle
         /\ \A d \in Client \ {c} : client'[d] = client[d]
BY DEF TypeOK, Finish

LEMMA AtEffect ==
  ASSUME TypeOK, NEW c \in Client, NEW where \in Pcs, At(c, where)
  PROVE  /\ DOMAIN client' = Client
         /\ client'[c].pc = where
         /\ client'[c].op = client[c].op
         /\ client'[c].known = client[c].known
         /\ client'[c].ids = client[c].ids
         /\ client'[c].row = client[c].row
         /\ client'[c].list = client[c].list
         /\ \A d \in Client \ {c} : client'[d] = client[d]
         /\ client' \in [Client -> ClientType]
<1>1. Go(c, [pc |-> where])
  BY DEF At
<1>2. /\ client'[c] = [f \in Fields |-> IF f = "pc" THEN where ELSE client[c][f]]
      /\ DOMAIN client' = Client
      /\ \A d \in Client \ {c} : client'[d] = client[d]
  BY <1>1, GoEffect
<1>3. client[c] \in ClientType
  BY DEF TypeOK
<1>4. client'[c] \in ClientType
  BY <1>2, <1>3 DEF ClientType, Fields
<1>5. client' \in [Client -> ClientType]
  BY <1>2, <1>4 DEF TypeOK, Go, At
<1> QED
  BY <1>2, <1>5 DEF Fields

LEMMA IdleType == Idle \in ClientType
BY DEF Idle, ClientType, Pcs

(* What a step of one client may do to what the others see.                *)
StepOf(c) ==
  /\ \A d \in Client \ {c} : client'[d] = client[d] /\ copy'[d] = copy[d]
  /\ \/ lock' = lock
     \/ lock = None /\ lock' = c
     \/ lock = c /\ lock' = None
  /\ \/ db' = db
     \/ db = None /\ db' = EmptyStore
     \/ client[c].pc \in {"migrating", "committing"} /\ db' = copy[c]
  /\ \/ files' = files
     \/ /\ client[c].pc = "reviewing"
        /\ files[client[c].op.review] = None
        /\ files' = [files EXCEPT ![client[c].op.review] = "partial"]
     \/ /\ client[c].pc = "filling"
        /\ \E state \in {None, "whole"} :
             files' = [files EXCEPT ![client[c].op.review] = state]

StepBy(c) ==
  \/ Begin(c) \/ CreateReview(c) \/ FillReview(c) \/ FillFails(c)
  \/ ListReviews(c) \/ ReadReview(c) \/ LoadFails(c)
  \/ Open(c) \/ BeginMigration(c) \/ Migrate(c) \/ RefuseNewer(c)
  \/ EndMigration(c) \/ BeginWrite(c) \/ LookUp(c) \/ InsertRow(c)
  \/ InsertPrints(c) \/ InsertReview(c) \/ CommitWrite(c)
  \/ Check(c) \/ Select(c) \/ FetchRow(c) \/ FetchPrints(c) \/ EndList(c)
  \/ Busy(c) \/ Crash(c)

(* A migration works on a copy of a store.                                 *)
LEMMA CopyIsStore ==
  ASSUME TypeOK, NEW c \in Client, Owned(c), client[c].pc \in InTransaction
  PROVE  copy[c] \in StoreType /\ lock = c
BY DEF TypeOK, Owned

LEMMA Frame ==
  ASSUME TypeOK, NEW c \in Client, Owned(c), StepBy(c)
  PROVE  StepOf(c)
<1>1. ASSUME NEW new, Go(c, new)
      PROVE  \A d \in Client \ {c} : client'[d] = client[d]
  BY <1>1, GoEffect
<1>2. ASSUME NEW where, At(c, where)
      PROVE  \A d \in Client \ {c} : client'[d] = client[d]
  BY <1>1, <1>2 DEF At
<1>3. ASSUME Finish(c)
      PROVE  \A d \in Client \ {c} : client'[d] = client[d]
  BY <1>3, FinishEffect
<1>4. copy \in [Client -> StoreType \cup {None}]
  BY DEF TypeOK
<1> USE DEF StepOf, Committed, Counts
<1>5. CASE Begin(c)
  BY <1>1, <1>5 DEF Begin
<1>6. CASE CreateReview(c)
  BY <1>2, <1>3, <1>6 DEF CreateReview
<1>7. CASE FillReview(c)
  BY <1>2, <1>7 DEF FillReview
<1>8. CASE FillFails(c)
  BY <1>3, <1>8 DEF FillFails
<1>9. CASE ListReviews(c)
  BY <1>1, <1>9 DEF ListReviews
<1>10. CASE ReadReview(c)
  BY <1>1, <1>3, <1>10 DEF ReadReview
<1>11. CASE LoadFails(c)
  BY <1>3, <1>11 DEF LoadFails
<1>12. CASE Open(c)
  BY <1>2, <1>12 DEF Open
<1>13. CASE BeginMigration(c)
  BY <1>2, <1>4, <1>13 DEF BeginMigration, BeginImmediate
<1>14. CASE Migrate(c)
  BY <1>4, <1>14 DEF Migrate
<1>15. CASE RefuseNewer(c)
  BY <1>3, <1>4, <1>15, CopyIsStore DEF RefuseNewer, Rollback, InTransaction
<1>16. CASE EndMigration(c)
  <2>1. \A d \in Client \ {c} : client'[d] = client[d]
    BY <1>2, <1>16 DEF EndMigration
  <2> QED
    BY <2>1, <1>4, <1>16, CopyIsStore DEF EndMigration, Commit, InTransaction
<1>17. CASE BeginWrite(c)
  <2>1. \A d \in Client \ {c} : client'[d] = client[d]
    BY <1>2, <1>17 DEF BeginWrite
  <2> QED
    BY <2>1, <1>4, <1>17 DEF BeginWrite, BeginImmediate
<1>18. CASE LookUp(c)
  BY <1>2, <1>3, <1>4, <1>18, CopyIsStore DEF LookUp, Rollback, InTransaction
<1>19. CASE InsertRow(c)
  BY <1>2, <1>4, <1>19 DEF InsertRow
<1>20. CASE InsertPrints(c)
  BY <1>2, <1>4, <1>20 DEF InsertPrints
<1>21. CASE InsertReview(c)
  BY <1>2, <1>4, <1>21 DEF InsertReview
<1>22. CASE CommitWrite(c)
  BY <1>3, <1>4, <1>22, CopyIsStore DEF CommitWrite, Commit, InTransaction
<1>23. CASE Check(c)
  BY <1>2, <1>3, <1>23 DEF Check
<1>24. CASE Select(c)
  BY <1>1, <1>24 DEF Select
<1>25. CASE FetchRow(c)
  BY <1>1, <1>2, <1>25 DEF FetchRow
<1>26. CASE FetchPrints(c)
  <2>1. \A d \in Client \ {c} : client'[d] = client[d]
    BY <1>1, <1>26 DEF FetchPrints
  <2> QED
    BY <2>1, <1>26 DEF FetchPrints
<1>27. CASE EndList(c)
  BY <1>3, <1>27 DEF EndList
<1>28. CASE Busy(c)
  BY <1>3, <1>28 DEF Busy
<1>29. CASE Crash(c)
  BY <1>3, <1>4, <1>29 DEF Crash
<1> QED
  BY <1>5, <1>6, <1>7, <1>8, <1>9, <1>10, <1>11, <1>12, <1>13, <1>14, <1>15,
     <1>16, <1>17, <1>18, <1>19, <1>20, <1>21, <1>22, <1>23, <1>24, <1>25,
     <1>26, <1>27, <1>28, <1>29 DEF StepBy

(* The operations are of the four kinds, with their arguments.             *)
LEMMA Operations ==
  ASSUME NEW op \in Operation
  PROVE  /\ op.kind \in {"record", "review", "load", "read", "list"}
         /\ op.kind = "record" =>
              /\ op.record \in Record
              /\ op.record \in RecordType
              /\ op.record.run \in RunId
              /\ op.record.prints \in SUBSET Fingerprint
         /\ op.kind = "review" => op.review \in Review
<1>1. op \in OperationType
  BY StoreAssumption
<1>2. op.kind = "record" => op.record \in Record
  BY <1>1 DEF OperationType
<1>3. Record \subseteq RecordType
  BY StoreAssumption
<1> QED
  BY <1>1, <1>2, <1>3 DEF OperationType, RecordType

(* Types are kept.                                                         *)
LEMMA EmptyStoreType == EmptyStore \in StoreType
BY DEF EmptyStore, StoreType

LEMMA CopyTypeStep ==
  ASSUME StoreInv, NEW c \in Client, StepBy(c)
  PROVE  copy' \in [Client -> StoreType \cup {None}]
<1>1. /\ copy \in [Client -> StoreType \cup {None}]
      /\ db \in StoreType \cup {None}
      /\ Owned(c) /\ Placed(c)
  BY DEF StoreInv, TypeOK
<1>2. CASE Migrate(c)
  <2>1. copy[c] \in StoreType
    BY <1>1, <1>2, NoneAssumption DEF Owned, Migrate, InTransaction
  <2>2. copy[c].version + 1 \in Nat /\ Append(copy[c].applied, copy[c].version + 1) \in Seq(Nat)
    BY <2>1 DEF StoreType
  <2>3. [copy[c] EXCEPT !.version = copy[c].version + 1,
                        !.applied = Append(copy[c].applied, copy[c].version + 1)] \in StoreType
    BY <2>1, <2>2 DEF StoreType
  <2>4. copy' = [copy EXCEPT ![c] =
                  [copy[c] EXCEPT !.version = copy[c].version + 1,
                    !.applied = Append(copy[c].applied, copy[c].version + 1)]]
    BY <1>1, <1>2, <2>1 DEF Migrate, StoreType
  <2> QED
    BY <1>1, <2>3, <2>4
<1>3. CASE InsertRow(c) \/ InsertPrints(c) \/ InsertReview(c)
  <2> DEFINE d == client[c].op.record
  <2>1. copy[c] \in StoreType
    BY <1>1, <1>3 DEF Owned, InsertRow, InsertPrints, InsertReview, InTransaction
  <2>2. /\ client[c].op \in Operation
        /\ InsertRow(c) \/ InsertPrints(c) => client[c].op.kind = "record"
        /\ InsertReview(c) => client[c].op.kind = "review"
    BY <1>1, <1>3 DEF Placed, InsertRow, InsertPrints, InsertReview
  <2>3. CASE InsertRow(c)
    <3>1. d \in Record /\ d.run \in RunId
      BY <2>2, <2>3, Operations
    <3>2. [copy[c].rows EXCEPT ![d.run] = d] \in [RunId -> Record \cup {None}]
      BY <2>1, <3>1 DEF StoreType
    <3>3. [copy[c] EXCEPT !.rows = [copy[c].rows EXCEPT ![d.run] = d]] \in StoreType
      BY <2>1, <3>2 DEF StoreType
    <3>4. copy' = [copy EXCEPT ![c] =
                    [copy[c] EXCEPT !.rows = [copy[c].rows EXCEPT ![d.run] = d]]]
      BY <1>1, <2>3 DEF InsertRow
    <3> QED
      BY <1>1, <3>3, <3>4
  <2>4. CASE InsertPrints(c)
    <3>1. d.prints \in SUBSET Fingerprint /\ d.run \in RunId
      BY <2>2, <2>4, Operations
    <3>2. [copy[c].prints EXCEPT ![d.run] = d.prints] \in [RunId -> SUBSET Fingerprint]
      BY <2>1, <3>1 DEF StoreType
    <3>3. [copy[c] EXCEPT !.prints = [copy[c].prints EXCEPT ![d.run] = d.prints]] \in StoreType
      BY <2>1, <3>2 DEF StoreType
    <3>4. copy' = [copy EXCEPT ![c] =
             [copy[c] EXCEPT !.prints = [copy[c].prints EXCEPT ![d.run] = d.prints]]]
      BY <1>1, <2>4 DEF InsertPrints
    <3> QED
      BY <1>1, <3>3, <3>4
  <2>5. CASE InsertReview(c)
    <3>1. client[c].op.review \in Review
      BY <2>2, <2>5, Operations
    <3>2. [copy[c] EXCEPT !.reviews = copy[c].reviews \cup {client[c].op.review}] \in StoreType
      BY <2>1, <3>1 DEF StoreType
    <3>3. copy' = [copy EXCEPT ![c] =
             [copy[c] EXCEPT !.reviews = copy[c].reviews \cup {client[c].op.review}]]
      BY <1>1, <2>5 DEF InsertReview
    <3> QED
      BY <1>1, <3>2, <3>3
  <2> QED
    BY <1>3, <2>3, <2>4, <2>5
<1>4. CASE copy' = copy
  BY <1>1, <1>4
<1>5. CASE copy' = [copy EXCEPT ![c] = None] \/ copy' = [copy EXCEPT ![c] = db]
  BY <1>1, <1>5
<1> QED
  BY <1>2, <1>3, <1>4, <1>5
  DEF StepBy, Begin, CreateReview, FillReview, FillFails, ListReviews, ReadReview,
      LoadFails, Open, BeginMigration, RefuseNewer, EndMigration, BeginWrite, LookUp,
      CommitWrite, Check, Select, FetchRow, FetchPrints, EndList, Busy, Crash,
      BeginImmediate, Rollback, Commit, Counts, Committed

-----------------------------------------------------------------------------
(* The order of a list.                                                    *)

(* A set of numbers that is not empty has a least one.                     *)
LEMMA LeastNumber ==
  ASSUME NEW T \in SUBSET Nat, T # {}
  PROVE  \E n \in T : \A m \in T : n <= m
<1>1. PICK n \in T : \A m \in T : ~(<<m, n>> \in OpToRel(<, Nat))
  BY NatLessThanWellFounded, WFMin
<1>2. \A m \in T : ~(m < n)
  BY <1>1 DEF OpToRel
<1> QED
  BY <1>2

LEMMA RunsAreTimed ==
  ASSUME TypeOK
  PROVE  \A r \in Indexed : /\ r \in Nat
                            /\ r \in RunId
                            /\ db # None
                            /\ db.rows[r] \in Record
                            /\ db.rows[r] \in RecordType
                            /\ db.rows[r].at \in Nat
<1>1. \A r \in Indexed : r \in Nat /\ r \in RunId /\ db # None /\ db.rows[r] \in Record
  BY StoreAssumption DEF TypeOK, Indexed, StoreType
<1> QED
  BY <1>1, StoreAssumption DEF RecordType

(* The runs of the index are strictly and totally ordered by their times   *)
(* of recording, those of one moment by their ids.                         *)
LEMMA EarlierOrder ==
  ASSUME TypeOK, Sound, NEW r \in Indexed, NEW s \in Indexed, NEW t \in Indexed
  PROVE  /\ ~Earlier(r, r)
         /\ Earlier(r, s) /\ Earlier(s, t) => Earlier(r, t)
         /\ r = s \/ Earlier(r, s) \/ Earlier(s, r)
<1>1. \A x \in Indexed : x \in Nat /\ db.rows[x].at \in Nat
  BY RunsAreTimed
<1> QED
  BY <1>1 DEF Earlier

LEMMA EarliestRun ==
  ASSUME TypeOK, Sound, NEW T \in SUBSET Indexed, T # {}
  PROVE  \E r \in T : \A s \in T \ {r} : Earlier(r, s)
<1>1. \A x \in Indexed : x \in Nat /\ db.rows[x].at \in Nat
  BY RunsAreTimed
<1> DEFINE Times == {db.rows[r].at : r \in T}
<1>2. PICK n \in Times : \A m \in Times : n <= m
  <2>1. Times \in SUBSET Nat /\ Times # {}
    BY <1>1
  <2> HIDE DEF Times
  <2> QED
    BY <2>1, LeastNumber
<1> DEFINE First == {r \in T : db.rows[r].at = n}
<1>3. PICK r \in First : \A s \in First : r <= s
  <2>1. First \in SUBSET Nat /\ First # {}
    BY <1>1, <1>2
  <2> HIDE DEF First
  <2> QED
    BY <2>1, LeastNumber
<1>4. ASSUME NEW s \in T \ {r}
      PROVE  Earlier(r, s)
  <2>1. n \in Nat /\ r \in Nat /\ s \in Nat /\ db.rows[s].at \in Nat /\ db.rows[r].at = n
    BY <1>1, <1>2
  <2>2. n <= db.rows[s].at
    BY <1>2
  <2>3. db.rows[s].at = n => r <= s
    BY <1>3
  <2> QED
    BY <2>1, <2>2, <2>3 DEF Earlier
<1> QED
  BY <1>4

(* Any finite set of indexed runs can be put in order: otherwise there is  *)
(* a smallest that cannot, and its earliest run in front of the others in  *)
(* order would put it in order.                                            *)
Ordered(T, n) ==
  \E s \in [1..n -> T] : \A i, j \in 1..n : i < j => Earlier(s[i], s[j])

LEMMA FiniteSetsAreOrdered ==
  ASSUME TypeOK, Sound, NEW T \in SUBSET Indexed, IsFiniteSet(T)
  PROVE  Ordered(T, Cardinality(T))
<1> DEFINE Bad(U) == U \subseteq Indexed /\ IsFiniteSet(U) /\ ~Ordered(U, Cardinality(U))
           Sizes == {n \in Nat : \E U \in SUBSET Indexed : Bad(U) /\ Cardinality(U) = n}
<1>1. SUFFICES ASSUME Bad(T) PROVE FALSE
  OBVIOUS
<1>2. Cardinality(T) \in Sizes
  BY <1>1, FS_CardinalityType
<1>3. PICK n \in Sizes : \A m \in Sizes : n <= m
  <2>1. Sizes \in SUBSET Nat /\ Sizes # {}
    BY <1>2
  <2> HIDE DEF Sizes
  <2> QED
    BY <2>1, LeastNumber
<1>4. PICK U \in SUBSET Indexed : Bad(U) /\ Cardinality(U) = n
  BY <1>3
<1>5. n \in Nat
  BY <1>3
<1>6. U # {}
  <2> SUFFICES ASSUME U = {} PROVE FALSE
    OBVIOUS
  <2>1. n = 0
    BY <1>4, FS_EmptySet
  <2>2. [i \in 1..0 |-> 0] \in [1..0 -> U]
    OBVIOUS
  <2>3. Ordered(U, 0)
    BY <2>2 DEF Ordered
  <2> QED
    BY <1>4, <2>1, <2>3
<1>7. PICK r \in U : \A s \in U \ {r} : Earlier(r, s)
  BY <1>4, <1>6, EarliestRun
<1> DEFINE V == U \ {r}
<1>8. /\ IsFiniteSet(V)
      /\ Cardinality(V) = n - 1
      /\ V \in SUBSET Indexed
  BY <1>4, FS_RemoveElement
<1>9. n - 1 \in Nat /\ n - 1 \notin Sizes
  <2>1. n - 1 \in Nat
    BY <1>8, FS_CardinalityType
  <2> QED
    BY <1>3, <2>1
<1>10. PICK s \in [1..(n - 1) -> V] : \A i, j \in 1..(n - 1) : i < j => Earlier(s[i], s[j])
  BY <1>8, <1>9 DEF Ordered
<1> DEFINE z == [i \in 1..n |-> IF i = 1 THEN r ELSE s[i - 1]]
<1>11. z \in [1..n -> U]
  BY <1>5, <1>10
<1>12. ASSUME NEW i \in 1..n, NEW j \in 1..n, i < j
       PROVE  Earlier(z[i], z[j])
  <2>1. j - 1 \in 1..(n - 1) /\ z[j] = s[j - 1] /\ s[j - 1] \in V
    BY <1>5, <1>10, <1>12
  <2>2. CASE i = 1
    BY <1>7, <2>1, <2>2
  <2>3. CASE i # 1
    <3>1. i - 1 \in 1..(n - 1) /\ z[i] = s[i - 1] /\ i - 1 < j - 1
      BY <1>5, <1>12, <2>3
    <3> QED
      BY <1>10, <2>1, <3>1
  <2> QED
    BY <2>2, <2>3
<1>13. Ordered(U, n)
  BY <1>11, <1>12 DEF Ordered
<1> QED
  BY <1>4, <1>13

(* The list of ids a client selects: every run of the index, in order.     *)
LEMMA SelectedIds ==
  ASSUME TypeOK, Sound, db # None
  PROVE  /\ InRecordedOrder \in Seq(RunId)
         /\ \A i \in 1..Len(InRecordedOrder) : InRecordedOrder[i] \in Indexed
         /\ \A i, j \in 1..Len(InRecordedOrder) :
              i < j => Earlier(InRecordedOrder[i], InRecordedOrder[j])
         /\ \A r \in Indexed : \E i \in 1..Len(InRecordedOrder) : InRecordedOrder[i] = r
<1> DEFINE n == Cardinality(Indexed)
           s == InRecordedOrder
<1>1. IsFiniteSet(Indexed) /\ n \in Nat
  BY FS_CardinalityType DEF Sound
<1>2. \E z \in [1..n -> Indexed] : \A i, j \in DOMAIN z : i < j => Earlier(z[i], z[j])
  <2>1. Ordered(Indexed, n)
    BY <1>1, FiniteSetsAreOrdered
  <2> QED
    BY <2>1 DEF Ordered
<1>3. /\ s \in [1..n -> Indexed]
      /\ \A i, j \in 1..n : i < j => Earlier(s[i], s[j])
  BY <1>2 DEF InRecordedOrder
<1> HIDE DEF s
<1>4. s \in Seq(Indexed) /\ Len(s) = n
  BY <1>1, <1>3
<1>5. Indexed \subseteq RunId
  BY DEF Indexed
<1>6. s \in Injection(1..n, Indexed)
  <2> SUFFICES ASSUME NEW i \in 1..n, NEW j \in 1..n, s[i] = s[j] PROVE i = j
    BY <1>3 DEF Injection, IsInjective
  <2>1. s[i] \in Indexed
    BY <1>3
  <2>2. ~Earlier(s[i], s[i])
    BY <2>1, EarlierOrder
  <2> QED
    BY <1>1, <1>3, <2>2
<1>7. s \in Surjection(1..n, Indexed)
  <2>1. IsFiniteSet(1..n) /\ Cardinality(1..n) = n
    BY <1>1, FS_Interval
  <2> QED
    BY <1>1, <1>6, <2>1, FS_Injection
<1>8. \A r \in Indexed : \E i \in 1..n : s[i] = r
  BY <1>7 DEF Surjection
<1> QED
  BY <1>3, <1>4, <1>5, <1>8 DEF s

-----------------------------------------------------------------------------
(* What each action that changes more of its client than its place makes   *)
(* of it.                                                                  *)
Becomes(c, pc, op, known, ids, row, list) ==
  /\ client' \in [Client -> ClientType]
  /\ client'[c].pc = pc
  /\ client'[c].op = op
  /\ client'[c].known = known
  /\ client'[c].ids = ids
  /\ client'[c].row = row
  /\ client'[c].list = list

(* Sequences: the first element and the rest, and one more at the end.     *)
LEMMA HeadAndTail ==
  ASSUME NEW S, NEW s \in Seq(S), s # <<>>
  PROVE  /\ Head(s) = s[1]
         /\ s[1] \in S
         /\ Tail(s) \in Seq(S)
         /\ Len(s) \in Nat \ {0}
         /\ Len(Tail(s)) = Len(s) - 1
         /\ \A i \in 1..Len(Tail(s)) : Tail(s)[i] = s[i + 1]
OBVIOUS

LEMMA OneMore ==
  ASSUME NEW S, NEW s \in Seq(S), NEW e \in S
  PROVE  /\ Append(s, e) \in Seq(S)
         /\ Len(s) \in Nat
         /\ Len(Append(s, e)) = Len(s) + 1
         /\ \A i \in 1..Len(s) : Append(s, e)[i] = s[i]
         /\ Append(s, e)[Len(s) + 1] = e
OBVIOUS

LEMMA GoBecomes ==
  ASSUME TypeOK, NEW c \in Client, NEW new, Go(c, new),
         NEW pc \in Pcs, NEW op \in Operation \cup {None},
         NEW known \in SUBSET (RunId \cup Review), NEW ids \in Seq(RunId),
         NEW row \in Record \cup {None}, NEW list \in Seq(ItemType),
         [f \in Fields |-> IF f \in DOMAIN new THEN new[f] ELSE client[c][f]]
           = [pc |-> pc, op |-> op, known |-> known, ids |-> ids, row |-> row,
              list |-> list]
  PROVE  Becomes(c, pc, op, known, ids, row, list)
<1>1. client'[c] = [pc |-> pc, op |-> op, known |-> known, ids |-> ids, row |-> row,
                    list |-> list]
  BY GoEffect
<1>2. client'[c] \in ClientType
  BY <1>1 DEF ClientType
<1>3. client' \in [Client -> ClientType]
  BY <1>2 DEF TypeOK, Go
<1> QED
  BY <1>1, <1>3 DEF Becomes

LEMMA AtBecomes ==
  ASSUME TypeOK, NEW c \in Client, NEW where \in Pcs, At(c, where)
  PROVE  Becomes(c, where, client[c].op, client[c].known, client[c].ids,
                 client[c].row, client[c].list)
BY AtEffect DEF Becomes

LEMMA FinishBecomes ==
  ASSUME TypeOK, NEW c \in Client, Finish(c)
  PROVE  Becomes(c, "idle", None, {}, <<>>, None, <<>>)
<1>1. client' \in [Client -> ClientType]
  BY IdleType DEF TypeOK, Finish
<1> QED
  BY <1>1, FinishEffect DEF Becomes, Idle

LEMMA ClientFields ==
  ASSUME TypeOK, NEW c \in Client
  PROVE  /\ client[c] = [pc |-> client[c].pc, op |-> client[c].op,
                         known |-> client[c].known, ids |-> client[c].ids,
                         row |-> client[c].row, list |-> client[c].list]
         /\ client[c].pc \in Pcs
         /\ client[c].op \in Operation \cup {None}
         /\ client[c].known \in SUBSET (RunId \cup Review)
         /\ client[c].ids \in Seq(RunId)
         /\ client[c].row \in Record \cup {None}
         /\ client[c].list \in Seq(ItemType)
BY DEF TypeOK, ClientType

LEMMA BeginEffect ==
  ASSUME TypeOK, NEW c \in Client, Begin(c)
  PROVE  \E op \in Operation, pc \in {"checking", "reviewing", "loading", "opening"} :
           /\ Becomes(c, pc, op, Indexed, client[c].ids, client[c].row, client[c].list)
           /\ pc = "checking" <=> op.kind = "read"
           /\ pc = "reviewing" <=> op.kind = "review"
           /\ pc = "loading" <=> op.kind = "load"
<1>1. PICK op \in Operation :
        Go(c, [op |-> op, known |-> Indexed,
              pc |-> CASE op.kind = "read"   -> "checking"
                       [] op.kind = "review" -> "reviewing"
                       [] op.kind = "load"   -> "loading"
                       [] OTHER              -> "opening"])
  BY DEF Begin
<1> DEFINE pc == CASE op.kind = "read"   -> "checking"
                   [] op.kind = "review" -> "reviewing"
                   [] op.kind = "load"   -> "loading"
                   [] OTHER              -> "opening"
           new == [op |-> op, known |-> Indexed, pc |-> pc]
<1>2. /\ pc = "checking" <=> op.kind = "read"
      /\ pc = "reviewing" <=> op.kind = "review"
      /\ pc = "loading" <=> op.kind = "load"
      /\ pc \in {"checking", "reviewing", "loading", "opening"}
  OBVIOUS
<1>3. Go(c, new)
  BY <1>1
<1>4. Indexed \in SUBSET (RunId \cup Review)
  BY DEF Indexed
<1> HIDE DEF pc
<1>5. pc \in Pcs
  BY <1>2 DEF Pcs, Loading
<1>6. [f \in Fields |-> IF f \in DOMAIN new THEN new[f] ELSE client[c][f]]
        = [pc |-> pc, op |-> op, known |-> Indexed, ids |-> client[c].ids,
           row |-> client[c].row, list |-> client[c].list]
  BY ClientFields DEF Fields
<1> HIDE DEF new
<1>7. Becomes(c, pc, op, Indexed, client[c].ids, client[c].row, client[c].list)
  BY <1>3, <1>4, <1>5, <1>6, ClientFields, GoBecomes, ZenonT(60)
<1> QED
  BY <1>2, <1>7

LEMMA ListReviewsEffect ==
  ASSUME TypeOK, NEW c \in Client, ListReviews(c)
  PROVE  \E known : Becomes(c, "reading_reviews", client[c].op, known, client[c].ids,
                            client[c].row, client[c].list)
<1> DEFINE known == {v \in Review : files[v] # None}
           new == [pc |-> "reading_reviews", known |-> known]
<1>1. Go(c, new)
  BY DEF ListReviews
<1>2. known \in SUBSET (RunId \cup Review) /\ "reading_reviews" \in Pcs
  BY DEF Pcs, Loading
<1> HIDE DEF known
<1>3. [f \in Fields |-> IF f \in DOMAIN new THEN new[f] ELSE client[c][f]]
        = [pc |-> "reading_reviews", op |-> client[c].op, known |-> known,
           ids |-> client[c].ids, row |-> client[c].row, list |-> client[c].list]
  BY ClientFields DEF Fields
<1> HIDE DEF new
<1>4. Becomes(c, "reading_reviews", client[c].op, known, client[c].ids,
              client[c].row, client[c].list)
  BY <1>1, <1>2, <1>3, ClientFields, GoBecomes, ZenonT(60)
<1> QED
  BY <1>4

LEMMA ReadReviewEffect ==
  ASSUME TypeOK, NEW c \in Client, ReadReview(c)
  PROVE  \/ Becomes(c, "idle", None, {}, <<>>, None, <<>>)
         \/ \E known : Becomes(c, "reading_reviews", client[c].op, known, client[c].ids,
                               client[c].row, client[c].list)
         \/ \E known : Becomes(c, "unreadable", client[c].op, known, client[c].ids,
                               client[c].row, client[c].list)
<1>1. CASE client[c].known = {}
  BY <1>1, FinishBecomes DEF ReadReview
<1>2. CASE client[c].known # {}
  <2>1. PICK v \in client[c].known :
          Go(c, IF files[v] = "whole"
                THEN [known |-> client[c].known \ {v}]
                ELSE [pc |-> "unreadable", known |-> {v}])
    BY <1>2 DEF ReadReview
  <2>2. client[c].known \ {v} \in SUBSET (RunId \cup Review)
        /\ {v} \in SUBSET (RunId \cup Review) /\ "unreadable" \in Pcs
    BY <2>1, ClientFields DEF Pcs, Loading
  <2>3. CASE files[v] = "whole"
    <3> DEFINE rest == client[c].known \ {v}
               new == [known |-> rest]
    <3>1. Go(c, new)
      BY <2>1, <2>3
    <3>2. rest \in SUBSET (RunId \cup Review) /\ client[c].pc = "reading_reviews"
      BY <2>2 DEF ReadReview
    <3> HIDE DEF rest
    <3>3. [f \in Fields |-> IF f \in DOMAIN new THEN new[f] ELSE client[c][f]]
            = [pc |-> client[c].pc, op |-> client[c].op, known |-> rest,
               ids |-> client[c].ids, row |-> client[c].row, list |-> client[c].list]
      BY ClientFields DEF Fields
    <3> HIDE DEF new
    <3>4. Becomes(c, client[c].pc, client[c].op, rest, client[c].ids, client[c].row,
                  client[c].list)
      BY <3>1, <3>2, <3>3, ClientFields, GoBecomes, ZenonT(60)
    <3>5. Becomes(c, "reading_reviews", client[c].op, rest, client[c].ids, client[c].row,
                  client[c].list)
      BY <3>2, <3>4
    <3> QED
      BY <3>5
  <2>4. CASE files[v] # "whole"
    <3> DEFINE bad == {v}
               new == [pc |-> "unreadable", known |-> bad]
    <3>1. Go(c, new)
      BY <2>1, <2>4
    <3>2. bad \in SUBSET (RunId \cup Review) /\ "unreadable" \in Pcs
      BY <2>2
    <3> HIDE DEF bad
    <3>3. [f \in Fields |-> IF f \in DOMAIN new THEN new[f] ELSE client[c][f]]
            = [pc |-> "unreadable", op |-> client[c].op, known |-> bad,
               ids |-> client[c].ids, row |-> client[c].row, list |-> client[c].list]
      BY ClientFields DEF Fields
    <3> HIDE DEF new
    <3>4. Becomes(c, "unreadable", client[c].op, bad, client[c].ids, client[c].row,
                  client[c].list)
      BY <3>1, <3>2, <3>3, ClientFields, GoBecomes, ZenonT(60)
    <3> QED
      BY <3>4
  <2> QED
    BY <2>3, <2>4
<1> QED
  BY <1>1, <1>2

LEMMA SelectEffect ==
  ASSUME TypeOK, Sound, db # None, NEW c \in Client, Select(c)
  PROVE  Becomes(c, "fetching", client[c].op, client[c].known, InRecordedOrder,
                 client[c].row, client[c].list)
<1> DEFINE ids == InRecordedOrder
           new == [pc |-> "fetching", ids |-> ids]
<1>1. Go(c, new)
  BY DEF Select
<1>2. ids \in Seq(RunId) /\ "fetching" \in Pcs
  BY SelectedIds DEF Pcs, Listing
<1> HIDE DEF ids
<1>3. [f \in Fields |-> IF f \in DOMAIN new THEN new[f] ELSE client[c][f]]
        = [pc |-> "fetching", op |-> client[c].op, known |-> client[c].known,
           ids |-> ids, row |-> client[c].row, list |-> client[c].list]
  BY ClientFields DEF Fields
<1> HIDE DEF new
<1>4. Becomes(c, "fetching", client[c].op, client[c].known, ids, client[c].row, client[c].list)
  BY <1>1, <1>2, <1>3, ClientFields, GoBecomes, ZenonT(60)
<1> QED
  BY <1>4 DEF ids

LEMMA FetchRowEffect ==
  ASSUME TypeOK, db # None, NEW c \in Client, FetchRow(c)
  PROVE  \/ /\ client[c].ids = <<>>
            /\ Becomes(c, "listed", client[c].op, client[c].known, client[c].ids,
                       client[c].row, client[c].list)
         \/ /\ client[c].ids # <<>>
            /\ Becomes(c, "fetching_prints", client[c].op, client[c].known, client[c].ids,
                       db.rows[client[c].ids[1]], client[c].list)
<1>1. CASE client[c].ids = <<>>
  <2>1. "listed" \in Pcs
    BY DEF Pcs, Listing
  <2> QED
    BY <1>1, <2>1, AtBecomes DEF FetchRow
<1>2. CASE client[c].ids # <<>>
  <2> DEFINE row == db.rows[client[c].ids[1]]
             new == [pc |-> "fetching_prints", row |-> row]
  <2>1. Head(client[c].ids) = client[c].ids[1] /\ client[c].ids[1] \in RunId
    BY <1>2, ClientFields, HeadAndTail
  <2>2. Go(c, new)
    BY <1>2, <2>1 DEF FetchRow
  <2>3. row \in Record \cup {None} /\ "fetching_prints" \in Pcs
    BY <2>1 DEF TypeOK, StoreType, Pcs, Listing
  <2> HIDE DEF row
  <2>4. [f \in Fields |-> IF f \in DOMAIN new THEN new[f] ELSE client[c][f]]
          = [pc |-> "fetching_prints", op |-> client[c].op, known |-> client[c].known,
             ids |-> client[c].ids, row |-> row, list |-> client[c].list]
    BY ClientFields DEF Fields
  <2> HIDE DEF new
  <2>5. Becomes(c, "fetching_prints", client[c].op, client[c].known, client[c].ids, row,
                client[c].list)
    BY <2>2, <2>3, <2>4, ClientFields, GoBecomes, ZenonT(60)
  <2> QED
    BY <1>2, <2>5 DEF row
<1> QED
  BY <1>1, <1>2

LEMMA FetchPrintsEffect ==
  ASSUME TypeOK, db # None, NEW c \in Client, FetchPrints(c), client[c].ids # <<>>,
         client[c].row # None
  PROVE  Becomes(c, "fetching", client[c].op, client[c].known, Tail(client[c].ids), None,
                 Append(client[c].list,
                        [row |-> client[c].row, prints |-> db.prints[client[c].ids[1]]]))
<1> DEFINE ids == Tail(client[c].ids)
           list == Append(client[c].list,
                     [row |-> client[c].row, prints |-> db.prints[client[c].ids[1]]])
           new == [pc |-> "fetching", ids |-> ids, row |-> None, list |-> list]
<1>1. Head(client[c].ids) = client[c].ids[1] /\ client[c].ids[1] \in RunId
  BY ClientFields, HeadAndTail
<1>2. Go(c, new)
  BY <1>1 DEF FetchPrints
<1>3. ids \in Seq(RunId) /\ "fetching" \in Pcs
  BY ClientFields, HeadAndTail DEF Pcs, Listing
<1>4. list \in Seq(ItemType)
  <2>1. db.prints[client[c].ids[1]] \in SUBSET Fingerprint
    BY <1>1 DEF TypeOK, StoreType
  <2>2. client[c].row \in Record
    BY ClientFields
  <2>3. [row |-> client[c].row, prints |-> db.prints[client[c].ids[1]]] \in ItemType
    BY <2>1, <2>2 DEF ItemType
  <2> QED
    BY <2>3, ClientFields, OneMore
<1> HIDE DEF ids, list
<1>5. [f \in Fields |-> IF f \in DOMAIN new THEN new[f] ELSE client[c][f]]
        = [pc |-> "fetching", op |-> client[c].op, known |-> client[c].known,
           ids |-> ids, row |-> None, list |-> list]
  BY ClientFields DEF Fields
<1> HIDE DEF new
<1>6. Becomes(c, "fetching", client[c].op, client[c].known, ids, None, list)
  BY <1>2, <1>3, <1>4, <1>5, ClientFields, GoBecomes
<1> QED
  BY <1>6 DEF ids, list

-----------------------------------------------------------------------------
(* What a step of any client keeps.                                        *)
Own(c) ==
  /\ Placed(c) /\ Opened(c) /\ Owned(c) /\ Isolated(c)
  /\ Filed(c) /\ Known(c) /\ Listed(c) /\ Fresh(c)

LEMMA Unfold ==
  ASSUME StoreInv, NEW c \in Client, StepBy(c)
  PROVE  /\ TypeOK /\ Sound /\ IndexedReviewsAreReadable
         /\ \A d \in Client : Own(d)
         /\ StepOf(c)
<1>1. TypeOK /\ Sound /\ IndexedReviewsAreReadable /\ \A d \in Client : Own(d)
  BY DEF StoreInv, Own
<1> QED
  BY <1>1, Frame DEF Own

(* A row that is committed stays, with its fingerprints.                   *)
RowsStay ==
  /\ db # None => db' # None
  /\ \A r \in Indexed : /\ db'.rows[r] = db.rows[r]
                        /\ db'.prints[r] = db.prints[r]
                        /\ r \in Indexed'

LEMMA RowsStayStep ==
  ASSUME StoreInv, NEW c \in Client, StepBy(c)
  PROVE  RowsStay
<1>1. TypeOK /\ StepOf(c) /\ Owned(c) /\ Isolated(c) /\ Opened(c) /\ Placed(c)
  BY Unfold DEF Own
<1>2. CASE db' = db
  BY <1>2 DEF RowsStay, Indexed
<1>3. CASE db = None /\ db' = EmptyStore
  BY <1>3 DEF RowsStay, Indexed
<1>4. CASE client[c].pc \in {"migrating", "committing"} /\ db' = copy[c]
  <2> DEFINE d == client[c].op.record
             recorded == client[c].pc = "committing" /\ client[c].op.kind = "record"
  <2>1. client[c].pc \in InTransaction /\ db # None
    BY <1>1, <1>4 DEF InTransaction, Opened
  <2>2. db \in StoreType /\ copy[c] \in StoreType
    BY <1>1, <2>1, CopyIsStore DEF TypeOK
  <2>3. /\ recorded => db.rows[d.run] = None
        /\ copy[c].rows = IF recorded THEN [db.rows EXCEPT ![d.run] = d] ELSE db.rows
        /\ copy[c].prints = IF recorded THEN [db.prints EXCEPT ![d.run] = d.prints]
                            ELSE db.prints
    BY <1>1, <1>4, <2>1 DEF Isolated, Recording
  <2> HIDE DEF d, recorded
  <2>4. db' # None
    BY <1>4, <2>2, NoneAssumption
  <2>5. \A r \in Indexed : /\ copy[c].rows[r] = db.rows[r]
                           /\ copy[c].prints[r] = db.prints[r]
                           /\ r \in RunId
                           /\ db.rows[r] # None
    BY <2>1, <2>2, <2>3 DEF Indexed, StoreType
  <2> QED
    BY <1>4, <2>4, <2>5 DEF RowsStay, Indexed
<1> QED
  BY <1>1, <1>2, <1>3, <1>4 DEF StepOf

(* What is committed is whole.                                             *)
LEMMA SoundStep ==
  ASSUME StoreInv, NEW c \in Client, StepBy(c)
  PROVE  Sound'
<1>1. TypeOK /\ Sound /\ StepOf(c) /\ Owned(c) /\ Isolated(c) /\ Opened(c) /\ Placed(c)
  BY Unfold DEF Own
<1>2. CASE db' = db
  BY <1>1, <1>2 DEF Sound, Indexed
<1>3. CASE db = None /\ db' = EmptyStore
  <2>1. EmptyStore # None
    BY EmptyStoreType, NoneAssumption
  <2>2. Indexed' = {}
    BY <1>3, <2>1 DEF Indexed, EmptyStore
  <2>3. Consistent(EmptyStore)
    BY DEF Consistent, EmptyStore
  <2> QED
    BY <1>3, <2>2, <2>3, FS_EmptySet DEF Sound
<1>4. CASE client[c].pc \in {"migrating", "committing"} /\ db' = copy[c]
  <2> DEFINE d == client[c].op.record
             recorded == client[c].pc = "committing" /\ client[c].op.kind = "record"
  <2>1. client[c].pc \in InTransaction /\ db # None
    BY <1>1, <1>4 DEF InTransaction, Opened
  <2>2. db \in StoreType /\ copy[c] \in StoreType /\ copy[c] # None
    BY <1>1, <2>1, CopyIsStore, NoneAssumption DEF TypeOK
  <2>3. /\ copy[c].rows = IF recorded THEN [db.rows EXCEPT ![d.run] = d] ELSE db.rows
        /\ copy[c].prints = IF recorded THEN [db.prints EXCEPT ![d.run] = d.prints]
                            ELSE db.prints
    BY <1>1, <1>4, <2>1 DEF Isolated, Recording
  <2>4. recorded => client[c].op \in Operation
    BY <1>1 DEF Placed
  <2>5. recorded => d.run \in RunId /\ d \in Record
    BY <2>4, Operations
  <2> HIDE DEF d, recorded
  <2>6. Consistent(db) /\ IsFiniteSet(Indexed)
    BY <1>1, <2>1 DEF Sound
  <2>7. Consistent(copy[c])
    BY <2>2, <2>3, <2>5, <2>6 DEF Consistent, StoreType
  <2>8. Indexed' \subseteq Indexed \cup {d.run}
    BY <1>4, <2>1, <2>2, <2>3, <2>5 DEF Indexed, StoreType
  <2>9. IsFiniteSet(Indexed')
    <3>1. IsFiniteSet(Indexed \cup {d.run})
      BY <2>6, FS_AddElement
    <3> QED
      BY <2>8, <3>1, FS_Subset
  <2>10. Consistent(db')
    BY <1>4, <2>7
  <2> QED
    BY <2>9, <2>10 DEF Sound
<1> QED
  BY <1>1, <1>2, <1>3, <1>4 DEF StepOf

(* A file that is whole stays so, and is so before it is indexed.          *)
LEMMA FilesStep ==
  ASSUME StoreInv, NEW c \in Client, StepBy(c)
  PROVE  /\ files' \in [Review -> {None, "partial", "whole"}]
         /\ \A v \in Review : files[v] = "whole" => files'[v] = "whole"
         /\ IndexedReviewsAreReadable'
<1>1. /\ TypeOK /\ IndexedReviewsAreReadable /\ StepOf(c)
      /\ Owned(c) /\ Isolated(c) /\ Opened(c) /\ Placed(c) /\ Filed(c)
  BY Unfold DEF Own
<1>2. /\ files' \in [Review -> {None, "partial", "whole"}]
      /\ \A v \in Review : files[v] = "whole" => files'[v] = "whole"
  BY <1>1, NoneAssumption DEF TypeOK, StepOf, Filed
<1>3. ASSUME NEW v \in db'.reviews, db' # None
      PROVE  files'[v] = "whole"
  <2>1. CASE db' = db
    BY <1>1, <1>2, <1>3, <2>1 DEF IndexedReviewsAreReadable, TypeOK, StoreType
  <2>2. CASE db = None /\ db' = EmptyStore
    BY <1>3, <2>2 DEF EmptyStore
  <2>3. CASE client[c].pc \in {"migrating", "committing"} /\ db' = copy[c]
    <3>1. client[c].pc \in InTransaction /\ db # None
      BY <1>1, <2>3 DEF InTransaction, Opened
    <3>2. db \in StoreType /\ copy[c] \in StoreType
      BY <1>1, <3>1, CopyIsStore DEF TypeOK
    <3>3. copy[c].reviews \subseteq
            db.reviews \cup (IF client[c].op.kind = "review" THEN {client[c].op.review}
                             ELSE {})
      BY <1>1, <3>1 DEF Isolated, Recording
    <3>4. v \in Review
      BY <1>3, <2>3, <3>2 DEF StoreType
    <3>5. files[v] = "whole"
      BY <1>1, <1>3, <2>3, <3>1, <3>3, SMTT(60) DEF Filed, IndexedReviewsAreReadable
    <3> QED
      BY <1>2, <3>4, <3>5
  <2> QED
    BY <1>1, <2>1, <2>2, <2>3 DEF StepOf
<1> QED
  BY <1>2, <1>3 DEF IndexedReviewsAreReadable

(* A client that comes to fill a file has just created it.                 *)
LEMMA NewFilling ==
  ASSUME StoreInv, NEW c \in Client, StepBy(c), client'[c].pc = "filling"
  PROVE  /\ client[c].pc = "reviewing"
         /\ client'[c].op = client[c].op
         /\ files[client[c].op.review] = None
         /\ files' = [files EXCEPT ![client[c].op.review] = "partial"]
<1> USE Unfold
<1>1. CASE Begin(c)
  BY <1>1, BeginEffect DEF Becomes
<1>2. CASE ListReviews(c)
  BY <1>2, ListReviewsEffect DEF Becomes
<1>3. CASE ReadReview(c)
  BY <1>3, ReadReviewEffect DEF Becomes
<1>4. CASE Select(c)
  BY <1>4, SelectEffect DEF Becomes, Own, Opened, Select, Listing
<1>5. CASE FetchRow(c)
  BY <1>5, FetchRowEffect DEF Becomes, Own, Opened, FetchRow, Listing
<1>6. CASE FetchPrints(c)
  <2>1. \E list : Go(c, [pc |-> "fetching", ids |-> Tail(client[c].ids), row |-> None,
                         list |-> list])
    BY <1>6 DEF FetchPrints
  <2>2. PICK list : Go(c, [pc |-> "fetching", ids |-> Tail(client[c].ids), row |-> None,
                           list |-> list])
    BY <2>1
  <2> DEFINE new == [pc |-> "fetching", ids |-> Tail(client[c].ids), row |-> None,
                     list |-> list]
  <2>3. "pc" \in DOMAIN new /\ new["pc"] = "fetching" /\ "pc" \in Fields
    BY DEF Fields
  <2> HIDE DEF new
  <2>4. client'[c] = [f \in Fields |-> IF f \in DOMAIN new THEN new[f] ELSE client[c][f]]
    BY <2>2, GoEffect DEF new
  <2>5. client'[c].pc = "fetching"
    BY <2>3, <2>4
  <2> QED
    BY <2>5
<1>7. CASE CreateReview(c)
  <2>1. "filling" \in Pcs
    BY DEF Pcs
  <2> QED
  BY <1>7, <2>1, AtBecomes, FinishBecomes DEF CreateReview, Becomes
<1>8. ASSUME NEW where \in Pcs \ {"filling"}, At(c, where)
      PROVE  FALSE
  BY <1>8, AtBecomes DEF Becomes
<1>9. ASSUME Finish(c)
      PROVE  FALSE
  BY <1>9, FinishBecomes DEF Becomes
<1>10. CASE Migrate(c)
  BY <1>10 DEF Migrate
<1>11. {"opening", "connecting", "migrating", "selecting", "connected", "looking",
        "indexing", "inserting", "fingerprinting", "committing"} \subseteq Pcs \ {"filling"}
  BY DEF Pcs, InTransaction, Listing
<1> QED
  BY <1>1, <1>2, <1>3, <1>4, <1>5, <1>6, <1>7, <1>8, <1>9, <1>10, <1>11
  DEF StepBy, FillReview, FillFails, LoadFails, Open, BeginMigration, RefuseNewer,
      EndMigration, BeginWrite, LookUp, InsertRow, InsertPrints, InsertReview,
      CommitWrite, Check, EndList, Busy, Crash

(* A list in the making stays right when runs are added to the index.      *)
LEMMA ListStays ==
  ASSUME TypeOK, NEW d \in Client, Listed(d), client'[d] = client[d], RowsStay
  PROVE  Listed(d)'
<1>1. \A r, s \in Indexed : Earlier(r, s) => Earlier(r, s)'
  BY DEF RowsStay, Earlier
<1>2. SUFFICES ASSUME client[d].pc \in {"fetching", "fetching_prints", "listed"}
               PROVE  Listed(d)'
  BY DEF Listed
<1> DEFINE list == client[d].list
           ids == client[d].ids
<1>3. /\ \A i \in 1..Len(list) :
           /\ list[i].row.run \in Indexed
           /\ list[i].row = db.rows[list[i].row.run]
           /\ list[i].prints = list[i].row.prints
      /\ \A i \in 1..Len(ids) : ids[i] \in Indexed
      /\ \A i, j \in 1..Len(list) : i < j => Earlier(list[i].row.run, list[j].row.run)
      /\ \A i, j \in 1..Len(ids) : i < j => Earlier(ids[i], ids[j])
      /\ \A i \in 1..Len(list), j \in 1..Len(ids) : Earlier(list[i].row.run, ids[j])
  BY <1>2 DEF Listed
<1>4. /\ \A r \in client[d].known :
           \/ \E i \in 1..Len(list) : list[i].row.run = r
           \/ \E i \in 1..Len(ids) : ids[i] = r
      /\ client[d].pc = "fetching_prints" =>
           ids # <<>> /\ client[d].row = db.rows[ids[1]]
      /\ client[d].pc = "listed" => ids = <<>>
  BY <1>2 DEF Listed
<1>5. /\ \A i \in 1..Len(list) :
           /\ list[i].row.run \in Indexed'
           /\ list[i].row = db'.rows[list[i].row.run]
           /\ list[i].prints = list[i].row.prints
      /\ \A i \in 1..Len(ids) : ids[i] \in Indexed'
  BY <1>3 DEF RowsStay
<1>6. /\ \A i, j \in 1..Len(list) : i < j => Earlier(list[i].row.run, list[j].row.run)'
      /\ \A i, j \in 1..Len(ids) : i < j => Earlier(ids[i], ids[j])'
      /\ \A i \in 1..Len(list), j \in 1..Len(ids) : Earlier(list[i].row.run, ids[j])'
  <2>1. \A i, j \in 1..Len(list) : i < j => Earlier(list[i].row.run, list[j].row.run)'
    BY <1>1, <1>3
  <2>2. \A i, j \in 1..Len(ids) : i < j => Earlier(ids[i], ids[j])'
    BY <1>1, <1>3
  <2>3. \A i \in 1..Len(list), j \in 1..Len(ids) : Earlier(list[i].row.run, ids[j])'
    BY <1>1, <1>3
  <2> QED
    BY <2>1, <2>2, <2>3
<1>7. client[d].pc = "fetching_prints" => client[d].row = db'.rows[ids[1]]
  <2> SUFFICES ASSUME client[d].pc = "fetching_prints"
               PROVE  client[d].row = db'.rows[ids[1]]
    OBVIOUS
  <2>1. ids[1] \in Indexed
    BY <1>3, <1>4, ClientFields, HeadAndTail
  <2> QED
    BY <1>4, <2>1 DEF RowsStay
<1> QED
  BY <1>4, <1>5, <1>6, <1>7 DEF Listed

(* What the others are about is untouched.                                 *)
LEMMA OthersStep ==
  ASSUME StoreInv, NEW c \in Client, StepBy(c), NEW d \in Client \ {c}
  PROVE  Own(d)'
<1>1. /\ TypeOK /\ StepOf(c) /\ Own(c) /\ Own(d)
      /\ client'[d] = client[d] /\ copy'[d] = copy[d]
  BY Unfold DEF StepOf
<1>2. RowsStay
  BY RowsStayStep
<1>3. client[c].pc \in {"migrating", "committing"} => lock = c
  BY <1>1 DEF Own, Owned, InTransaction
<1>4. Placed(d)'
  BY <1>1 DEF Own, Placed
<1>5. Opened(d)'
  BY <1>1, <1>2 DEF Own, Opened, RowsStay
<1>6. Owned(d)'
  BY <1>1, NoneAssumption DEF Own, Owned, StepOf
<1>7. Isolated(d)'
  <2> SUFFICES ASSUME client[d].pc \in InTransaction
               PROVE  Recording(d)'
    BY <1>1 DEF Isolated
  <2>1. lock = d /\ db # None /\ Recording(d)
    BY <1>1 DEF Own, Owned, Opened, Isolated
  <2>2. db' = db
    BY <1>1, <1>3, <2>1 DEF StepOf
  <2> QED
    BY <1>1, <2>1, <2>2 DEF Recording
<1>8. Filed(d)'
  <2> DEFINE v == client[d].op.review
  <2>1. client[d].pc = "filling" =>
          /\ files'[v] = "partial"
          /\ \A e \in Client \ {d} : client'[e].pc = "filling" => client'[e].op.review # v
    <3> SUFFICES ASSUME client[d].pc = "filling"
                 PROVE  /\ files'[v] = "partial"
                        /\ \A e \in Client \ {d} :
                             client'[e].pc = "filling" => client'[e].op.review # v
      OBVIOUS
    <3>1. /\ files[v] = "partial"
          /\ \A e \in Client \ {d} : client[e].pc = "filling" => client[e].op.review # v
      BY <1>1 DEF Own, Filed
    <3>2. client[c].pc \in {"filling", "reviewing"} =>
            client[c].op \in Operation /\ client[c].op.kind = "review"
      BY <1>1 DEF Own, Placed
    <3>3. v \in Review
      BY <1>1, Operations DEF Own, Placed
    <3>4. files'[v] = "partial"
      BY <1>1, <3>1, <3>3, NoneAssumption DEF StepOf, TypeOK
    <3>5. client'[c].pc = "filling" => client'[c].op.review # v
      BY <1>1, <3>1, NewFilling, NoneAssumption
    <3>6. \A e \in Client \ {c} : client'[e] = client[e]
      BY <1>1 DEF StepOf
    <3> QED
      BY <3>1, <3>4, <3>5, <3>6
  <2>2. (client[d].pc \in {"opening", "connecting", "connected"} \cup InTransaction
         /\ client[d].op.kind = "review") => files'[v] = "whole"
    <3> SUFFICES ASSUME client[d].pc \in
                          {"opening", "connecting", "connected"} \cup InTransaction,
                        client[d].op.kind = "review"
                 PROVE  files'[v] = "whole"
      OBVIOUS
    <3>1. client[d].op \in Operation
      BY <1>1 DEF Own, Placed, InTransaction
    <3>2. v \in Review
      BY <3>1, Operations
    <3>3. files[v] = "whole"
      BY <1>1 DEF Own, Filed
    <3> QED
      BY <3>2, <3>3, FilesStep
  <2> QED
    BY <1>1, <2>1, <2>2 DEF Filed
<1>9. Known(d)'
  BY <1>1, <1>2 DEF Own, Known, RowsStay
<1>10. Listed(d)'
  BY <1>1, <1>2, ListStays DEF Own
<1>11. Fresh(d)'
  BY <1>1 DEF Own, Fresh
<1> QED
  BY <1>4, <1>5, <1>6, <1>7, <1>8, <1>9, <1>10, <1>11 DEF Own

-----------------------------------------------------------------------------
(* What a client's own step keeps.                                         *)

(* A client that has let go of the store.                                  *)
LEMMA IdleOwn ==
  ASSUME TypeOK, NEW c \in Client, Finish(c), lock' # c, copy'[c] = None
  PROVE  Own(c)'
<1>1. Becomes(c, "idle", None, {}, <<>>, None, <<>>)
  BY FinishBecomes
<1> QED
  BY <1>1 DEF Becomes, Own, Placed, Opened, Owned, Isolated, Filed, Known, Listed, Fresh,
     InTransaction, Listing, Loading

LEMMA Outside ==
  ASSUME TypeOK, NEW c \in Client, Owned(c), client[c].pc \notin InTransaction
  PROVE  lock # c /\ copy[c] = None
BY DEF Owned

LEMMA FinishOwn ==
  ASSUME StoreInv, NEW c \in Client, StepBy(c), Finish(c)
  PROVE  Own(c)'
<1>1. TypeOK /\ Owned(c) /\ client[c] \in ClientType
  BY Unfold DEF Own, TypeOK
<1>2. client'[c].pc = "idle"
  BY <1>1, FinishBecomes DEF Becomes
<1>3. SUFFICES lock' # c /\ copy'[c] = None
  BY <1>1, IdleOwn
<1>4. CASE Crash(c)
  BY <1>1, <1>4, NoneAssumption DEF Crash, TypeOK
<1>5. CASE RefuseNewer(c) \/ LookUp(c) \/ CommitWrite(c)
  <2>1. lock = c /\ copy[c] \in StoreType
    BY <1>1, <1>5, CopyIsStore DEF RefuseNewer, LookUp, CommitWrite, InTransaction
  <2>2. CASE RefuseNewer(c)
    BY <1>1, <2>2, NoneAssumption DEF RefuseNewer, Rollback, TypeOK
  <2>3. CASE LookUp(c)
    <3>1. ~At(c, "inserting")
      BY <1>1, <1>2, AtBecomes DEF Becomes, Pcs, InTransaction
    <3> QED
      BY <1>1, <2>3, <3>1, NoneAssumption DEF LookUp, Rollback, TypeOK
  <2>4. CASE CommitWrite(c)
    BY <1>1, <2>4, NoneAssumption DEF CommitWrite, Commit, TypeOK
  <2> QED
    BY <1>5, <2>2, <2>3, <2>4
<1>6. CASE client[c].pc \notin InTransaction /\ lock' = lock /\ copy' = copy
  BY <1>1, <1>6, Outside
<1>7. ASSUME NEW where \in Pcs \ {"idle"}, At(c, where)
      PROVE  FALSE
  BY <1>1, <1>2, <1>7, AtBecomes DEF Becomes
<1>8. {"opening", "connecting", "migrating", "selecting", "connected", "looking",
       "indexing", "inserting", "fingerprinting", "committing"} \subseteq Pcs \ {"idle"}
  BY DEF Pcs, InTransaction, Listing
<1>9. ~Migrate(c)
  <2> SUFFICES ASSUME Migrate(c) PROVE FALSE
    OBVIOUS
  <2>1. client'[c].pc = "migrating"
    BY DEF Migrate
  <2> QED
    BY <1>2, <2>1
<1> QED
  BY <1>4, <1>5, <1>6, <1>7, <1>8, <1>9
  DEF StepBy, Begin, CreateReview, FillReview, FillFails, ListReviews, ReadReview,
      LoadFails, Open, BeginMigration, EndMigration, BeginWrite, InsertRow, InsertPrints,
      InsertReview, Check, Select, FetchRow, FetchPrints, EndList, Busy,
      InTransaction, Committed, Counts

LEMMA BeginOwn ==
  ASSUME StoreInv, NEW c \in Client, StepBy(c), Begin(c)
  PROVE  Own(c)' /\ client' \in [Client -> ClientType]
<1>1. TypeOK /\ Own(c)
  BY Unfold
<1>2. PICK op \in Operation, pc \in {"checking", "reviewing", "loading", "opening"} :
        /\ Becomes(c, pc, op, Indexed, client[c].ids, client[c].row, client[c].list)
        /\ pc = "checking" <=> op.kind = "read"
        /\ pc = "reviewing" <=> op.kind = "review"
        /\ pc = "loading" <=> op.kind = "load"
  BY <1>1, BeginEffect
<1>3. /\ lock' # c /\ copy'[c] = None
      /\ db' = db
  BY <1>1, Outside DEF Begin, Committed, Own, InTransaction
<1>4. op.kind \in {"record", "review", "load", "read", "list"}
  BY Operations
<1>5. Indexed' = Indexed
  BY <1>3 DEF Indexed
<1>6. client[c].list = <<>>
  BY <1>1 DEF Own, Fresh, Begin
<1> QED
  BY <1>2, <1>3, <1>4, <1>5, <1>6
  DEF Becomes, Own, Placed, Opened, Owned, Isolated, Filed, Known, Listed, Fresh,
     InTransaction, Listing, Loading

LEMMA LoadOwn ==
  ASSUME StoreInv, NEW c \in Client, StepBy(c), ListReviews(c) \/ ReadReview(c)
  PROVE  Own(c)' /\ client' \in [Client -> ClientType]
<1>1. TypeOK /\ Own(c)
  BY Unfold
<1>2. lock' # c /\ copy'[c] = None
  BY <1>1, Outside, SMTT(60) DEF ListReviews, ReadReview, Own, InTransaction
<1>3. ASSUME NEW known, NEW pc \in {"reading_reviews", "unreadable"},
             Becomes(c, pc, client[c].op, known, client[c].ids, client[c].row, client[c].list)
      PROVE  Own(c)' /\ client' \in [Client -> ClientType]
  BY <1>1, <1>2, <1>3
  DEF Becomes, Own, Placed, Opened, Owned, Isolated, Filed, Known, Listed, Fresh,
     InTransaction, Listing, Loading, ListReviews, ReadReview
<1>4. CASE ListReviews(c)
  <2>1. PICK known : Becomes(c, "reading_reviews", client[c].op, known, client[c].ids,
                            client[c].row, client[c].list)
    BY <1>1, <1>4, ListReviewsEffect
  <2> QED
    BY <1>3, <2>1
<1>5. CASE ReadReview(c)
  <2>1. CASE Becomes(c, "idle", None, {}, <<>>, None, <<>>)
    BY <1>2, <2>1
    DEF Becomes, Own, Placed, Opened, Owned, Isolated, Filed, Known, Listed, Fresh,
        InTransaction, Listing, Loading
  <2>2. CASE \E known : Becomes(c, "reading_reviews", client[c].op, known, client[c].ids,
                               client[c].row, client[c].list)
    BY <1>3, <2>2
  <2>3. CASE \E known : Becomes(c, "unreadable", client[c].op, known, client[c].ids,
                               client[c].row, client[c].list)
    BY <1>3, <2>3
  <2> QED
    BY <1>1, <1>5, <2>1, <2>2, <2>3, ReadReviewEffect
<1> QED
  BY <1>4, <1>5

(* The file is there before the store is opened.                           *)
LEMMA ReviewOwn ==
  ASSUME StoreInv, NEW c \in Client, StepBy(c), CreateReview(c) \/ FillReview(c), ~Finish(c)
  PROVE  Own(c)' /\ client' \in [Client -> ClientType]
<1>1. TypeOK /\ Own(c) /\ StepOf(c)
  BY Unfold
<1>2. lock' # c /\ copy'[c] = None /\ db' = db /\ Indexed' = Indexed
  BY <1>1, Outside DEF CreateReview, FillReview, Own, InTransaction, Committed, Indexed
<1> DEFINE v == client[c].op.review
<1>3. client[c].op \in Operation /\ client[c].op.kind = "review" /\ v \in Review
  BY <1>1, Operations DEF Own, Placed, CreateReview, FillReview
<1>4. CASE CreateReview(c)
  <2>1. /\ files[v] = None
        /\ files' = [files EXCEPT ![v] = "partial"]
        /\ Becomes(c, "filling", client[c].op, client[c].known, client[c].ids,
                   client[c].row, client[c].list)
    BY <1>1, <1>4, AtBecomes DEF CreateReview, Pcs
  <2>2. \A d \in Client \ {c} : client[d].pc = "filling" => client[d].op.review # v
    BY <1>1, <2>1, Unfold, NoneAssumption DEF Own, Filed
  <2>3. files'[v] = "partial"
    BY <1>1, <1>3, <2>1 DEF TypeOK
  <2>4. Filed(c)'
    BY <1>1, <2>1, <2>2, <2>3 DEF Filed, Becomes, StepOf, InTransaction
  <2> QED
    BY <1>1, <1>2, <1>3, <1>4, <2>1, <2>4
    DEF Becomes, Own, Placed, Opened, Owned, Isolated, Known, Listed, Fresh,
        InTransaction, Listing, Loading, CreateReview
<1>5. CASE FillReview(c)
  <2>1. /\ files' = [files EXCEPT ![v] = "whole"]
        /\ Becomes(c, "opening", client[c].op, client[c].known, client[c].ids,
                   client[c].row, client[c].list)
    BY <1>1, <1>5, AtBecomes DEF FillReview, Pcs
  <2>2. Filed(c)'
    BY <1>1, <1>3, <2>1 DEF Filed, Becomes, TypeOK
  <2> QED
    BY <1>1, <1>2, <1>3, <1>5, <2>1, <2>2
    DEF Becomes, Own, Placed, Opened, Owned, Isolated, Known, Listed, Fresh,
        InTransaction, Listing, Loading, FillReview
<1> QED
  BY <1>4, <1>5

LEMMA OpenOwn ==
  ASSUME StoreInv, NEW c \in Client, StepBy(c), Open(c)
  PROVE  Own(c)' /\ client' \in [Client -> ClientType]
<1>1. TypeOK /\ Own(c) /\ RowsStay
  BY Unfold, RowsStayStep
<1>2. lock' # c /\ copy'[c] = None /\ files' = files /\ db' # None
  BY <1>1, Outside, EmptyStoreType, NoneAssumption DEF Open, Own, InTransaction
<1>3. Becomes(c, "connecting", client[c].op, client[c].known, client[c].ids,
              client[c].row, client[c].list)
  BY <1>1, AtBecomes, SMTT(60) DEF Open, Pcs
<1> QED
  BY <1>1, <1>2, <1>3
  DEF Becomes, Own, Placed, Opened, Owned, Isolated, Filed, Known, Listed, Fresh,
      InTransaction, Listing, Loading, Open, RowsStay

(* A transaction begins with what is committed.                            *)
LEMMA BeginTransactionOwn ==
  ASSUME StoreInv, NEW c \in Client, StepBy(c), BeginMigration(c) \/ BeginWrite(c)
  PROVE  Own(c)' /\ client' \in [Client -> ClientType]
<1>1. TypeOK /\ Own(c) /\ db # None
  BY Unfold DEF Own, Opened, BeginMigration, BeginWrite
<1>2. /\ lock' = c /\ copy'[c] = db /\ files' = files /\ db' = db /\ Indexed' = Indexed
      /\ copy'[c] # None
  BY <1>1 DEF BeginMigration, BeginWrite, BeginImmediate, Committed, Indexed, TypeOK
<1>3. PICK pc \in {"migrating", "looking", "indexing"} :
        /\ Becomes(c, pc, client[c].op, client[c].known, client[c].ids,
                   client[c].row, client[c].list)
        /\ pc = "looking" => client[c].op.kind = "record"
        /\ pc = "indexing" => client[c].op.kind # "record" /\ client[c].pc = "connected"
        /\ pc = "migrating" => client[c].pc = "connecting"
  <2>1. CASE BeginMigration(c)
    BY <1>1, <2>1, AtBecomes DEF BeginMigration, Pcs, InTransaction
  <2>2. CASE BeginWrite(c)
    BY <1>1, <2>2, AtBecomes DEF BeginWrite, Pcs, InTransaction
  <2> QED
    BY <2>1, <2>2
<1>4. Isolated(c)'
  BY <1>1, <1>2, <1>3 DEF Becomes, Isolated, Recording
<1>5. client[c].pc \in {"connecting", "connected"}
  BY DEF BeginMigration, BeginWrite
<1>6. Placed(c)'
  BY <1>1, <1>3, <1>5 DEF Becomes, Own, Placed, Listing, Loading
<1> QED
  BY <1>1, <1>2, <1>3, <1>4, <1>5, <1>6
  DEF Becomes, Own, Opened, Owned, Filed, Known, Listed, Fresh,
      InTransaction, Listing, Loading

LEMMA MigrateOwn ==
  ASSUME StoreInv, NEW c \in Client, StepBy(c), Migrate(c)
  PROVE  Own(c)' /\ client' \in [Client -> ClientType]
<1>1. TypeOK /\ Own(c) /\ client' = client
  BY Unfold DEF Migrate
<1>2. copy[c] \in StoreType /\ lock = c
  BY <1>1, CopyIsStore DEF Own, Migrate, InTransaction
<1>3. /\ db' = db /\ files' = files /\ lock' = lock /\ Indexed' = Indexed
  BY DEF Migrate, Committed, Indexed
<1>4. /\ copy'[c].rows = copy[c].rows
      /\ copy'[c].prints = copy[c].prints
      /\ copy'[c].reviews = copy[c].reviews
  BY <1>1, <1>2 DEF Migrate, TypeOK, StoreType
<1>5. copy'[c] # None
  BY CopyTypeStep, <1>1, <1>2, NoneAssumption, SMTT(60) DEF Migrate, TypeOK, StoreType
<1>6. client[c].pc = "migrating"
  BY DEF Migrate
<1>7. Isolated(c)'
  BY <1>1, <1>3, <1>4, <1>6 DEF Own, Isolated, Recording, InTransaction
<1> QED
  BY <1>1, <1>2, <1>3, <1>5, <1>6, <1>7
  DEF Own, Placed, Opened, Owned, Filed, Known, Listed, Fresh, TypeOK,
      InTransaction, Listing, Loading

LEMMA EndMigrationOwn ==
  ASSUME StoreInv, NEW c \in Client, StepBy(c), EndMigration(c)
  PROVE  Own(c)' /\ client' \in [Client -> ClientType]
<1>1. TypeOK /\ Own(c) /\ RowsStay /\ db # None
  BY Unfold, RowsStayStep DEF Own, Opened, EndMigration, InTransaction
<1>2. copy[c] \in StoreType /\ lock = c
  BY <1>1, CopyIsStore DEF Own, EndMigration, InTransaction
<1>3. /\ lock' # c /\ copy'[c] = None /\ files' = files /\ db' # None
  BY <1>1, <1>2, NoneAssumption DEF EndMigration, Commit, TypeOK, RowsStay
<1>4. PICK pc \in {"selecting", "connected"} :
        /\ Becomes(c, pc, client[c].op, client[c].known, client[c].ids,
                   client[c].row, client[c].list)
        /\ pc = "selecting" <=> client[c].op.kind = "list"
  BY <1>1, AtBecomes DEF EndMigration, Pcs, Listing
<1>5. client[c].list = <<>>
  BY <1>1 DEF Own, Fresh, EndMigration
<1> QED
  BY <1>1, <1>3, <1>4, <1>5
  DEF Becomes, Own, Placed, Opened, Owned, Isolated, Filed, Known, Listed, Fresh,
      InTransaction, Listing, Loading, EndMigration, RowsStay

(* A row and its fingerprints are inserted into the copy.                  *)
LEMMA LookUpOwn ==
  ASSUME StoreInv, NEW c \in Client, StepBy(c), LookUp(c), ~Finish(c)
  PROVE  Own(c)' /\ client' \in [Client -> ClientType]
<1>1. TypeOK /\ Own(c) /\ db # None
  BY Unfold DEF Own, Opened, LookUp, InTransaction
<1>2. /\ copy[c].rows[client[c].op.record.run] = None
      /\ lock' = lock /\ copy' = copy /\ db' = db /\ files' = files /\ Indexed' = Indexed
      /\ Becomes(c, "inserting", client[c].op, client[c].known, client[c].ids,
                 client[c].row, client[c].list)
  BY <1>1, AtBecomes DEF LookUp, Pcs, InTransaction, Indexed
<1>3. client[c].pc = "looking" /\ client[c].op.kind = "record"
  BY <1>1 DEF LookUp, Own, Placed
<1>4. Isolated(c)'
  BY <1>1, <1>2, <1>3 DEF Own, Isolated, Recording, Becomes, InTransaction
<1> QED
  BY <1>1, <1>2, <1>3, <1>4
  DEF Becomes, Own, Placed, Opened, Owned, Filed, Known, Listed, Fresh,
      InTransaction, Listing, Loading

LEMMA InsertRowOwn ==
  ASSUME StoreInv, NEW c \in Client, StepBy(c), InsertRow(c)
  PROVE  Own(c)' /\ client' \in [Client -> ClientType]
<1> DEFINE d == client[c].op.record
<1>1. TypeOK /\ Own(c) /\ client[c].pc = "inserting" /\ client[c].op.kind = "record"
  BY Unfold DEF Own, Placed, InsertRow
<1>2. copy[c] \in StoreType
  BY <1>1, CopyIsStore DEF Own, InTransaction
<1>3. /\ lock' = lock /\ db' = db /\ files' = files /\ Indexed' = Indexed
      /\ copy' = [copy EXCEPT ![c] = [copy[c] EXCEPT !.rows = [copy[c].rows EXCEPT ![d.run] = d]]]
      /\ Becomes(c, "fingerprinting", client[c].op, client[c].known, client[c].ids,
                 client[c].row, client[c].list)
  BY <1>1, AtBecomes DEF InsertRow, Pcs, InTransaction, Indexed, Committed, TypeOK
<1>4. /\ copy'[c].rows = [copy[c].rows EXCEPT ![d.run] = d]
      /\ copy'[c].prints = copy[c].prints
      /\ copy'[c].reviews = copy[c].reviews
  BY <1>1, <1>2, <1>3 DEF TypeOK, StoreType
<1>5. copy'[c] # None
  <2>1. "rows" \in DOMAIN copy[c] /\ copy' \in [Client -> StoreType \cup {None}]
    BY <1>2, CopyTypeStep DEF StoreType
  <2>2. copy'[c] \in StoreType
    <3>1. client[c].op \in Operation
      BY <1>1 DEF Own, Placed
    <3>2. d \in Record /\ d.run \in RunId
      BY <1>1, <3>1, Operations
    <3>3. [copy[c].rows EXCEPT ![d.run] = d] \in [RunId -> Record \cup {None}]
      BY <1>2, <3>2 DEF StoreType
    <3> QED
      BY <1>1, <1>2, <1>3, <3>3 DEF StoreType, TypeOK
  <2> QED
    BY <2>2, NoneAssumption
<1>6. /\ db.rows[d.run] = None
      /\ copy[c].rows = db.rows
      /\ copy[c].prints = db.prints
      /\ copy[c].reviews \subseteq db.reviews
  BY <1>1 DEF Own, Isolated, Recording, InTransaction
<1>7. Isolated(c)'
  BY <1>1, <1>3, <1>4, <1>6 DEF Isolated, Recording, Becomes
<1> QED
  BY <1>1, <1>3, <1>5, <1>7
  DEF Becomes, Own, Placed, Opened, Owned, Filed, Known, Listed, Fresh,
      InTransaction, Listing, Loading

LEMMA InsertPrintsOwn ==
  ASSUME StoreInv, NEW c \in Client, StepBy(c), InsertPrints(c)
  PROVE  Own(c)' /\ client' \in [Client -> ClientType]
<1> DEFINE d == client[c].op.record
<1>1. TypeOK /\ Own(c) /\ client[c].pc = "fingerprinting" /\ client[c].op.kind = "record"
  BY Unfold DEF Own, Placed, InsertPrints
<1>2. copy[c] \in StoreType
  BY <1>1, CopyIsStore DEF Own, InTransaction
<1>3. /\ lock' = lock /\ db' = db /\ files' = files /\ Indexed' = Indexed
      /\ copy' = [copy EXCEPT ![c] =
                   [copy[c] EXCEPT !.prints = [copy[c].prints EXCEPT ![d.run] = d.prints]]]
      /\ Becomes(c, "committing", client[c].op, client[c].known, client[c].ids,
                 client[c].row, client[c].list)
  BY <1>1, AtBecomes DEF InsertPrints, Pcs, InTransaction, Indexed, Committed, TypeOK
<1>4. /\ copy'[c].rows = copy[c].rows
      /\ copy'[c].prints = [copy[c].prints EXCEPT ![d.run] = d.prints]
      /\ copy'[c].reviews = copy[c].reviews
  BY <1>1, <1>2, <1>3 DEF TypeOK, StoreType
<1>5. copy'[c] # None
  <2>1. client[c].op \in Operation
    BY <1>1 DEF Own, Placed
  <2>2. d.prints \in SUBSET Fingerprint /\ d.run \in RunId
    BY <1>1, <2>1, Operations
  <2>3. [copy[c].prints EXCEPT ![d.run] = d.prints] \in [RunId -> SUBSET Fingerprint]
    BY <1>2, <2>2 DEF StoreType
  <2>4. copy'[c] \in StoreType
    BY <1>1, <1>2, <1>3, <2>3 DEF StoreType, TypeOK
  <2> QED
    BY <2>4, NoneAssumption
<1>6. /\ db.rows[d.run] = None
      /\ copy[c].rows = [db.rows EXCEPT ![d.run] = d]
      /\ copy[c].prints = db.prints
      /\ copy[c].reviews \subseteq db.reviews
  BY <1>1 DEF Own, Isolated, Recording, InTransaction
<1>7. Isolated(c)'
  BY <1>1, <1>3, <1>4, <1>6 DEF Isolated, Recording, Becomes
<1> QED
  BY <1>1, <1>3, <1>5, <1>7
  DEF Becomes, Own, Placed, Opened, Owned, Filed, Known, Listed, Fresh,
      InTransaction, Listing, Loading

LEMMA InsertReviewOwn ==
  ASSUME StoreInv, NEW c \in Client, StepBy(c), InsertReview(c)
  PROVE  Own(c)' /\ client' \in [Client -> ClientType]
<1> DEFINE v == client[c].op.review
<1>1. TypeOK /\ Own(c) /\ client[c].pc = "indexing" /\ client[c].op.kind = "review"
  BY Unfold DEF Own, Placed, InsertReview
<1>2. copy[c] \in StoreType
  BY <1>1, CopyIsStore DEF Own, InTransaction
<1>3. /\ lock' = lock /\ db' = db /\ files' = files /\ Indexed' = Indexed
      /\ copy' = [copy EXCEPT ![c] = [copy[c] EXCEPT !.reviews = copy[c].reviews \cup {v}]]
      /\ Becomes(c, "committing", client[c].op, client[c].known, client[c].ids,
                 client[c].row, client[c].list)
  BY <1>1, AtBecomes DEF InsertReview, Pcs, InTransaction, Indexed, Committed, TypeOK
<1>4. /\ copy'[c].rows = copy[c].rows
      /\ copy'[c].prints = copy[c].prints
      /\ copy'[c].reviews = copy[c].reviews \cup {v}
  BY <1>1, <1>2, <1>3 DEF TypeOK, StoreType
<1>5. copy'[c] # None
  <2>1. client[c].op \in Operation
    BY <1>1 DEF Own, Placed
  <2>2. v \in Review
    BY <1>1, <2>1, Operations
  <2>3. copy'[c] \in StoreType
    BY <1>1, <1>2, <1>3, <2>2 DEF StoreType, TypeOK
  <2> QED
    BY <2>3, NoneAssumption
<1>6. /\ copy[c].rows = db.rows
      /\ copy[c].prints = db.prints
      /\ copy[c].reviews \subseteq db.reviews \cup {v}
  BY <1>1 DEF Own, Isolated, Recording, InTransaction
<1>7. Isolated(c)'
  BY <1>1, <1>3, <1>4, <1>6 DEF Isolated, Recording, Becomes
<1> QED
  BY <1>1, <1>3, <1>5, <1>7
  DEF Becomes, Own, Placed, Opened, Owned, Filed, Known, Listed, Fresh,
      InTransaction, Listing, Loading

-----------------------------------------------------------------------------
(* The list.                                                               *)
LEMMA CheckOwn ==
  ASSUME StoreInv, NEW c \in Client, StepBy(c), Check(c), ~Finish(c)
  PROVE  Own(c)' /\ client' \in [Client -> ClientType]
<1>1. TypeOK /\ Own(c)
  BY Unfold
<1>2. /\ lock' # c /\ copy'[c] = None /\ db' = db /\ files' = files /\ Indexed' = Indexed
      /\ db # None
  BY <1>1, Outside DEF Check, Own, InTransaction, Committed, Indexed
<1>3. Becomes(c, "selecting", client[c].op, client[c].known, client[c].ids,
              client[c].row, client[c].list)
  BY <1>1, AtBecomes DEF Check, Pcs, Listing
<1>4. client[c].pc = "checking" /\ client[c].op.kind = "read"
  BY <1>1 DEF Check, Own, Placed
<1> QED
  BY <1>1, <1>2, <1>3, <1>4
  DEF Becomes, Own, Placed, Opened, Owned, Isolated, Filed, Known, Listed, Fresh,
      InTransaction, Listing, Loading

LEMMA SelectOwn ==
  ASSUME StoreInv, NEW c \in Client, StepBy(c), Select(c)
  PROVE  Own(c)' /\ client' \in [Client -> ClientType]
<1> DEFINE ids == InRecordedOrder
<1>1. TypeOK /\ Sound /\ Own(c) /\ db # None
  BY Unfold DEF Own, Opened, Select, Listing
<1>2. /\ lock' # c /\ copy'[c] = None /\ db' = db /\ files' = files /\ Indexed' = Indexed
  BY <1>1, Outside DEF Select, Own, InTransaction, Committed, Indexed, Listing
<1>3. /\ Becomes(c, "fetching", client[c].op, client[c].known, ids,
                 client[c].row, client[c].list)
      /\ client[c].pc = "selecting"
      /\ client[c].list = <<>>
  BY <1>1, SelectEffect DEF Select, Own, Fresh
<1>4. /\ \A i \in 1..Len(ids) : ids[i] \in Indexed
      /\ \A i, j \in 1..Len(ids) : i < j => Earlier(ids[i], ids[j])
      /\ \A r \in Indexed : \E i \in 1..Len(ids) : ids[i] = r
  BY <1>1, SelectedIds
<1>5. client[c].known \subseteq Indexed
  BY <1>1, <1>3 DEF Own, Known
<1> HIDE DEF ids
<1>6. Listed(c)'
  <2>1. \A r, s : Earlier(r, s)' <=> Earlier(r, s)
    BY <1>2 DEF Earlier
  <2> QED
    BY <1>2, <1>3, <1>4, <1>5, <2>1 DEF Listed, Becomes
<1> QED
  BY <1>1, <1>2, <1>3, <1>6
  DEF Becomes, Own, Placed, Opened, Owned, Isolated, Filed, Known, Fresh,
      InTransaction, Listing, Loading

LEMMA FetchRowOwn ==
  ASSUME StoreInv, NEW c \in Client, StepBy(c), FetchRow(c)
  PROVE  Own(c)' /\ client' \in [Client -> ClientType]
<1>1. TypeOK /\ Own(c) /\ db # None /\ client[c].pc = "fetching"
  BY Unfold DEF Own, Opened, FetchRow, Listing
<1>2. /\ lock' # c /\ copy'[c] = None /\ db' = db /\ files' = files /\ Indexed' = Indexed
  BY <1>1, Outside DEF FetchRow, Own, InTransaction, Committed, Indexed
<1>3. \A r, s : Earlier(r, s)' <=> Earlier(r, s)
  BY <1>2 DEF Earlier
<1>4. CASE /\ client[c].ids = <<>>
           /\ Becomes(c, "listed", client[c].op, client[c].known, client[c].ids,
                      client[c].row, client[c].list)
  <2>1. Listed(c)'
    BY <1>1, <1>2, <1>3, <1>4 DEF Listed, Becomes, Own
  <2> QED
    BY <1>1, <1>2, <1>4, <2>1
    DEF Becomes, Own, Placed, Opened, Owned, Isolated, Filed, Known, Fresh,
        InTransaction, Listing, Loading
<1>5. CASE /\ client[c].ids # <<>>
           /\ Becomes(c, "fetching_prints", client[c].op, client[c].known, client[c].ids,
                      db.rows[client[c].ids[1]], client[c].list)
  <2>1. Listed(c)'
    BY <1>1, <1>2, <1>3, <1>5 DEF Listed, Becomes, Own
  <2> QED
    BY <1>1, <1>2, <1>5, <2>1, SMTT(60)
    DEF Becomes, Own, Placed, Opened, Owned, Isolated, Filed, Known, Fresh,
        InTransaction, Listing, Loading
<1> QED
  BY <1>1, <1>4, <1>5, FetchRowEffect

LEMMA FetchPrintsOwn ==
  ASSUME StoreInv, NEW c \in Client, StepBy(c), FetchPrints(c)
  PROVE  Own(c)' /\ client' \in [Client -> ClientType]
<1> DEFINE list == client[c].list
           ids == client[c].ids
           r == ids[1]
           item == [row |-> client[c].row, prints |-> db.prints[r]]
           more == Append(list, item)
           rest == Tail(ids)
<1>1. TypeOK /\ Sound /\ Own(c) /\ db # None /\ client[c].pc = "fetching_prints"
  BY Unfold DEF Own, Opened, FetchPrints, Listing
<1>2. /\ lock' # c /\ copy'[c] = None /\ db' = db /\ files' = files /\ Indexed' = Indexed
  BY <1>1, Outside DEF FetchPrints, Own, InTransaction, Committed, Indexed
<1>3. \A x, y : Earlier(x, y)' <=> Earlier(x, y)
  BY <1>2 DEF Earlier
<1>4. ids \in Seq(RunId) /\ ids # <<>> /\ client[c].row = db.rows[r]
  BY <1>1, ClientFields DEF Own, Listed
<1>5. /\ \A i \in 1..Len(list) :
           /\ list[i].row.run \in Indexed
           /\ list[i].row = db.rows[list[i].row.run]
           /\ list[i].prints = list[i].row.prints
      /\ \A i \in 1..Len(ids) : ids[i] \in Indexed
      /\ \A i, j \in 1..Len(list) : i < j => Earlier(list[i].row.run, list[j].row.run)
      /\ \A i, j \in 1..Len(ids) : i < j => Earlier(ids[i], ids[j])
      /\ \A i \in 1..Len(list), j \in 1..Len(ids) : Earlier(list[i].row.run, ids[j])
  BY <1>1 DEF Own, Listed
<1>6. \A k \in client[c].known :
        \/ \E i \in 1..Len(list) : list[i].row.run = k
        \/ \E i \in 1..Len(ids) : ids[i] = k
  BY <1>1 DEF Own, Listed
<1>7. /\ rest \in Seq(RunId)
      /\ Len(ids) \in Nat \ {0}
      /\ Len(rest) = Len(ids) - 1
      /\ \A i \in 1..Len(rest) : rest[i] = ids[i + 1] /\ i + 1 \in 1..Len(ids)
  BY <1>4, HeadAndTail
<1>8. r \in Indexed
  BY <1>5, <1>7
<1>9. db.rows[r] \in Record /\ db.rows[r] # None /\ db.rows[r].run = r
      /\ db.prints[r] = db.rows[r].prints
  BY <1>1, <1>8, RunsAreTimed, NoneAssumption DEF Sound, Consistent
<1>10. Becomes(c, "fetching", client[c].op, client[c].known, rest, None, more)
  BY <1>1, <1>4, <1>9, FetchPrintsEffect
<1>11. item \in ItemType /\ item.row.run = r /\ item.row = db.rows[r]
       /\ item.prints = item.row.prints
  <2>1. db.prints[r] \in SUBSET Fingerprint
    BY <1>1, <1>8, RunsAreTimed DEF TypeOK, StoreType
  <2> QED
    BY <1>4, <1>9, <2>1 DEF ItemType
<1> HIDE DEF item, rest, list, ids, r
<1>12. /\ Len(list) \in Nat
       /\ Len(more) = Len(list) + 1
       /\ \A i \in 1..Len(list) : more[i] = list[i]
       /\ more[Len(list) + 1] = item
  <2>1. list \in Seq(ItemType)
    BY <1>1, ClientFields DEF list
  <2> QED
    BY <1>11, <2>1, OneMore
<1> HIDE DEF more
<1>13. \A i \in 1..Len(more) : i \in 1..Len(list) \/ (i = Len(list) + 1 /\ more[i] = item)
  BY <1>12
<1>14. \A i \in 1..Len(more) :
          /\ more[i].row.run \in Indexed
          /\ more[i].row = db.rows[more[i].row.run]
          /\ more[i].prints = more[i].row.prints
  BY <1>5, <1>8, <1>11, <1>12, <1>13
<1>15. \A i \in 1..Len(rest) : rest[i] \in Indexed
  BY <1>5, <1>7
<1>16. \A i \in 1..Len(list) : Earlier(list[i].row.run, r)
  BY <1>5, <1>7 DEF r
<1>17. \A i, j \in 1..Len(more) : i < j => Earlier(more[i].row.run, more[j].row.run)
  <2> SUFFICES ASSUME NEW i \in 1..Len(more), NEW j \in 1..Len(more), i < j
               PROVE  Earlier(more[i].row.run, more[j].row.run)
    OBVIOUS
  <2>1. i \in 1..Len(list)
    BY <1>12
  <2>2. CASE j \in 1..Len(list)
    BY <1>5, <1>12, <2>1, <2>2
  <2>3. CASE j = Len(list) + 1
    BY <1>11, <1>12, <1>16, <2>1, <2>3
  <2> QED
    BY <1>13, <2>2, <2>3
<1>18. \A i, j \in 1..Len(rest) : i < j => Earlier(rest[i], rest[j])
  BY <1>5, <1>7
<1>19. \A i \in 1..Len(more), j \in 1..Len(rest) : Earlier(more[i].row.run, rest[j])
  <2> SUFFICES ASSUME NEW i \in 1..Len(more), NEW j \in 1..Len(rest)
               PROVE  Earlier(more[i].row.run, rest[j])
    OBVIOUS
  <2>1. rest[j] = ids[j + 1] /\ j + 1 \in 1..Len(ids) /\ 1 \in 1..Len(ids) /\ 1 < j + 1
    BY <1>7
  <2>2. CASE i \in 1..Len(list)
    BY <1>5, <1>12, <2>1, <2>2
  <2>3. CASE i = Len(list) + 1
    BY <1>5, <1>11, <1>12, <2>1, <2>3 DEF r
  <2> QED
    BY <1>13, <2>2, <2>3
<1>20. \A k \in client[c].known :
         \/ \E i \in 1..Len(more) : more[i].row.run = k
         \/ \E i \in 1..Len(rest) : rest[i] = k
  <2> SUFFICES ASSUME NEW k \in client[c].known
               PROVE  \/ \E i \in 1..Len(more) : more[i].row.run = k
                      \/ \E i \in 1..Len(rest) : rest[i] = k
    OBVIOUS
  <2>1. CASE \E i \in 1..Len(list) : list[i].row.run = k
    <3>1. \A i \in 1..Len(list) : i \in 1..Len(more)
      BY <1>12
    <3> QED
      BY <1>12, <2>1, <3>1
  <2>2. CASE \E i \in 1..Len(ids) : ids[i] = k
    <3>1. PICK i \in 1..Len(ids) : ids[i] = k
      BY <2>2
    <3>2. CASE i = 1
      <4>1. Len(list) + 1 \in 1..Len(more) /\ more[Len(list) + 1].row.run = k
        BY <1>11, <1>12, <3>1, <3>2 DEF r
      <4> QED
        BY <4>1
    <3>3. CASE i # 1
      <4>1. i - 1 \in 1..Len(rest) /\ (i - 1) + 1 = i
        BY <1>7, <3>1, <3>3
      <4>2. rest[i - 1] = k
        BY <1>7, <3>1, <4>1
      <4> QED
        BY <4>1, <4>2
    <3> QED
      BY <3>2, <3>3
  <2> QED
    BY <1>6, <2>1, <2>2
<1>21. Listed(c)'
  BY <1>2, <1>3, <1>10, <1>14, <1>15, <1>17, <1>18, <1>19, <1>20, SMTT(60) DEF Listed, Becomes
<1> QED
  BY <1>1, <1>2, <1>10, <1>21
  DEF Becomes, Own, Placed, Opened, Owned, Isolated, Filed, Known, Fresh,
      InTransaction, Listing, Loading

-----------------------------------------------------------------------------
(* Every action.                                                           *)
LEMMA OwnStep ==
  ASSUME StoreInv, NEW c \in Client, StepBy(c)
  PROVE  Own(c)' /\ client' \in [Client -> ClientType]
<1>1. CASE Finish(c)
  BY <1>1, FinishOwn, FinishBecomes, Unfold DEF Becomes
<1>2. CASE ~Finish(c)
  BY <1>2, BeginOwn, LoadOwn, ReviewOwn, OpenOwn, BeginTransactionOwn, MigrateOwn,
     EndMigrationOwn, LookUpOwn, InsertRowOwn, InsertPrintsOwn, InsertReviewOwn,
     CheckOwn, SelectOwn, FetchRowOwn, FetchPrintsOwn
  DEF StepBy, FillFails, LoadFails, RefuseNewer, CommitWrite, EndList, Busy, Crash
<1> QED
  BY <1>1, <1>2

LEMMA TypeStep ==
  ASSUME StoreInv, NEW c \in Client, StepBy(c)
  PROVE  TypeOK'
<1>1. TypeOK /\ StepOf(c) /\ Own(c)
  BY Unfold
<1>2. db' \in StoreType \cup {None}
  BY <1>1, EmptyStoreType DEF StepOf, TypeOK
<1>3. lock' \in Client \cup {None}
  BY <1>1 DEF StepOf, TypeOK
<1>4. begun' \in Nat /\ faults' \in Nat
  BY <1>1
  DEF TypeOK, StepBy, Begin, CreateReview, FillReview, FillFails, ListReviews, ReadReview,
      LoadFails, Open, BeginMigration, Migrate, RefuseNewer, EndMigration, BeginWrite,
      LookUp, InsertRow, InsertPrints, InsertReview, CommitWrite, Check, Select, FetchRow,
      FetchPrints, EndList, Busy, Crash, Counts
<1>5. copy' \in [Client -> StoreType \cup {None}]
  BY CopyTypeStep
<1>6. files' \in [Review -> {None, "partial", "whole"}]
  BY FilesStep
<1>7. client' \in [Client -> ClientType]
  BY OwnStep
<1> QED
  BY <1>2, <1>3, <1>4, <1>5, <1>6, <1>7 DEF TypeOK

LEMMA InitInv == Init => StoreInv
<1> SUFFICES ASSUME Init PROVE StoreInv
  OBVIOUS
<1>1. db \in StoreType \cup {None}
  BY StoreAssumption DEF Init
<1>2. TypeOK
  BY <1>1, IdleType DEF Init, TypeOK
<1>3. Sound
  BY StoreAssumption DEF Init, Sound, Indexed
<1>4. IndexedReviewsAreReadable
  BY <1>1 DEF Init, IndexedReviewsAreReadable, StoreType
<1>5. ASSUME NEW c \in Client
      PROVE  Own(c)
  <2>1. client[c] = Idle /\ copy[c] = None /\ lock # c
    BY NoneAssumption DEF Init
  <2> QED
    BY <2>1
    DEF Idle, Own, Placed, Opened, Owned, Isolated, Filed, Known, Listed, Fresh,
        InTransaction, Listing, Loading
<1> QED
  BY <1>2, <1>3, <1>4, <1>5 DEF StoreInv, Own

LEMMA StepInv ==
  ASSUME StoreInv, [Next]_vars
  PROVE  StoreInv'
<1>1. CASE vars' = vars
  <2>1. Indexed' = Indexed
    BY <1>1 DEF vars, Indexed
  <2>2. \A r, s : Earlier(r, s)' <=> Earlier(r, s)
    BY <1>1 DEF vars, Earlier
  <2>3. TypeOK' /\ Sound' /\ IndexedReviewsAreReadable'
    BY <1>1, <2>1 DEF vars, StoreInv, TypeOK, Sound, IndexedReviewsAreReadable
  <2>4. ASSUME NEW c \in Client
        PROVE  Own(c)'
    <3>1. Own(c)
      BY DEF StoreInv, Own
    <3>2. Listed(c)'
      BY <1>1, <2>1, <2>2, <3>1 DEF vars, Own, Listed
    <3> QED
      BY <1>1, <2>1, <3>1, <3>2
      DEF vars, Own, Placed, Opened, Owned, Isolated, Recording, Filed, Known, Fresh
  <2> QED
    BY <2>3, <2>4 DEF StoreInv, Own
<1>2. ASSUME NEW c \in Client, StepBy(c)
      PROVE  StoreInv'
  <2>1. \A d \in Client : Own(d)'
    BY <1>2, OwnStep, OthersStep
  <2> QED
    BY <1>2, <2>1, TypeStep, SoundStep, FilesStep DEF StoreInv, Own
<1> QED
  BY <1>1, <1>2 DEF Next, StepBy

-----------------------------------------------------------------------------
(* What is committed of a run is its row.                                  *)
LEMMA WholeIsRow ==
  ASSUME TypeOK, Sound, NEW r \in Indexed
  PROVE  Whole(r) = db.rows[r] /\ Whole(r) \in Record
<1>1. /\ db # None /\ db.rows[r] # None
      /\ db.rows[r] \in Record /\ db.rows[r] \in RecordType
      /\ db.prints[r] = db.rows[r].prints
  BY RunsAreTimed DEF Sound, Consistent, Indexed
<1>2. [db.rows[r] EXCEPT !.prints = db.prints[r]] = db.rows[r]
  BY <1>1 DEF RecordType
<1> QED
  BY <1>1, <1>2 DEF Whole

LEMMA Inductive == StoreSpec => []StoreInv
<1>1. Init => StoreInv
  BY InitInv
<1>2. StoreInv /\ [Next]_vars => StoreInv'
  BY StepInv
<1> QED
  BY <1>1, <1>2, PTL DEF StoreSpec

(* Every state has its type, and there is one transaction at a time.       *)
THEOREM StoreTypeCorrect == StoreSpec => []TypeOK
<1>1. StoreInv => TypeOK
  BY DEF StoreInv
<1> QED
  BY <1>1, Inductive, PTL

(* A review that is indexed has its whole file, for any number of writers, *)
(* failed writes and crashes.                                              *)
THEOREM ReviewsCorrect == StoreSpec => []IndexedReviewsAreReadable
<1>1. StoreInv => IndexedReviewsAreReadable
  BY DEF StoreInv
<1> QED
  BY <1>1, Inductive, PTL

(* A list that is read statement by statement while others record has      *)
(* every run that was there when it began, whole, once and in order.       *)
THEOREM ListsCorrect == StoreSpec => []ListsAreWhole
<1>1. StoreInv => ListsAreWhole
  <2> SUFFICES ASSUME StoreInv, NEW c \in Client, client[c].pc = "listed"
               PROVE  LET list == client[c].list
                      IN /\ client[c].known \subseteq {list[i].row.run : i \in DOMAIN list}
                         /\ \A i \in DOMAIN list :
                              /\ list[i].prints = list[i].row.prints
                              /\ list[i].row = Whole(list[i].row.run)
                         /\ \A i, j \in DOMAIN list :
                              i < j => Earlier(list[i].row.run, list[j].row.run)
    BY DEF ListsAreWhole
  <2> DEFINE list == client[c].list
  <2>1. TypeOK /\ Sound /\ Listed(c) /\ db # None
    BY DEF StoreInv, Opened, Listing
  <2>2. list \in Seq(ItemType)
    BY <2>1, ClientFields
  <2>3. DOMAIN list = 1..Len(list)
    BY <2>2
  <2>4. /\ \A i \in 1..Len(list) :
              /\ list[i].row.run \in Indexed
              /\ list[i].row = db.rows[list[i].row.run]
              /\ list[i].prints = list[i].row.prints
        /\ \A i, j \in 1..Len(list) : i < j => Earlier(list[i].row.run, list[j].row.run)
        /\ client[c].ids = <<>>
        /\ \A r \in client[c].known :
              \/ \E i \in 1..Len(list) : list[i].row.run = r
              \/ \E i \in 1..Len(client[c].ids) : client[c].ids[i] = r
    BY <2>1 DEF Listed
  <2>5. \A r \in Indexed : Whole(r) = db.rows[r]
    BY <2>1, WholeIsRow
  <2>6. client[c].known \subseteq {list[i].row.run : i \in 1..Len(list)}
    BY <2>4
  <2> QED
    BY <2>3, <2>4, <2>5, <2>6, ZenonT(60)
<1> QED
  BY <1>1, Inductive, PTL

-----------------------------------------------------------------------------
(* The refinement.                                                         *)
LEMMA WholeRows ==
  StoreInv => \A r \in RunId : Whole(r) = IF r \in Indexed THEN db.rows[r] ELSE None
BY WholeIsRow DEF StoreInv, Whole, Indexed

(* A step of a client inserts one run in the index or leaves it as it is.  *)
LEMMA IndexStep ==
  ASSUME StoreInv, [Next]_vars
  PROVE  [Index!Next]_([r \in RunId |-> Whole(r)])
<1> DEFINE before == [r \in RunId |-> Whole(r)]
<1>1. CASE vars' = vars
  BY <1>1 DEF vars, Whole
<1>2. ASSUME NEW c \in Client, StepBy(c)
      PROVE  before' = before \/ Index!Next
  <2> DEFINE d == client[c].op.record
             recorded == client[c].pc = "committing" /\ client[c].op.kind = "record"
  <2>1. /\ TypeOK /\ Sound /\ StepOf(c) /\ Own(c) /\ RowsStay
        /\ StoreInv'
    BY <1>2, Unfold, RowsStayStep, StepInv DEF Next, StepBy
  <2>2. \A r \in RunId : Whole(r) = IF r \in Indexed THEN db.rows[r] ELSE None
    BY WholeRows
  <2>3. (StoreInv => \A r \in RunId :
           Whole(r) = IF r \in Indexed THEN db.rows[r] ELSE None)'
    BY WholeRows, PTL
  <2>4. \A r \in RunId : Whole(r)' = IF r \in Indexed' THEN db'.rows[r] ELSE None
    BY <2>1, <2>3
  <2>5. CASE db' = db
    BY <2>5 DEF Whole
  <2>6. CASE db = None /\ db' = EmptyStore
    <3>1. \A r \in RunId : Whole(r)' = None /\ Whole(r) = None
      BY <2>6 DEF Whole, EmptyStore
    <3> QED
      BY <3>1
  <2>7. CASE client[c].pc \in {"migrating", "committing"} /\ db' = copy[c]
    <3>1. client[c].pc \in InTransaction /\ db # None /\ db' # None
      BY <2>1, <2>7 DEF InTransaction, Own, Opened, RowsStay
    <3>2. db \in StoreType /\ copy[c] \in StoreType
      BY <2>1, <3>1, CopyIsStore DEF TypeOK, Own
    <3>3. /\ recorded => db.rows[d.run] = None
          /\ copy[c].rows = IF recorded THEN [db.rows EXCEPT ![d.run] = d] ELSE db.rows
      BY <2>1, <2>7, <3>1 DEF Own, Isolated, Recording
    <3>4. recorded => client[c].op \in Operation
      BY <2>1 DEF Own, Placed
    <3>5. recorded => d \in Record /\ d.run \in RunId
      BY <3>4, Operations
    <3> HIDE DEF d, recorded
    <3>6. \A r \in RunId : Whole(r) = db.rows[r] /\ Whole(r)' = copy[c].rows[r]
      BY <2>2, <2>4, <2>7, <3>1 DEF Indexed
    <3>7. CASE ~recorded
      BY <3>3, <3>6, <3>7
    <3>8. CASE recorded
      <4>1. before[d.run] = None
        BY <3>3, <3>5, <3>6, <3>8
      <4>2. \A r \in RunId : Whole(r)' = IF r = d.run THEN d ELSE Whole(r)
        BY <3>2, <3>3, <3>5, <3>6, <3>8 DEF StoreType
      <4>3. before' = [before EXCEPT ![d.run] = d]
        BY <4>2
      <4> QED
        BY <3>5, <3>8, <4>1, <4>3 DEF Index!Next, Index!Insert
    <3> QED
      BY <3>7, <3>8
  <2> QED
    BY <2>1, <2>5, <2>6, <2>7 DEF StepOf
<1> QED
  BY <1>1, <1>2 DEF Next, StepBy

(* The store implements the write-once index, for any number of processes  *)
(* that open, migrate, record, list and die, and any runs.                 *)
THEOREM IndexCorrect == StoreSpec => ImplementsRunIndex
<1>1. Init => Index!Init
  <2> SUFFICES ASSUME Init PROVE Index!Init
    OBVIOUS
  <2>1. StoreInv
    BY InitInv
  <2>2. \A r \in RunId : Whole(r) \in Record \cup {None}
    BY <2>1, WholeRows, RunsAreTimed DEF StoreInv
  <2> QED
    BY <2>2 DEF Index!Init
<1>2. StoreInv /\ [Next]_vars => [Index!Next]_([r \in RunId |-> Whole(r)])
  BY IndexStep
<1> QED
  BY <1>1, <1>2, Inductive, PTL DEF StoreSpec, ImplementsRunIndex, Index!Spec
=============================================================================

------------------------ MODULE SuiteExecution_proofs ------------------------
(* What a published run promises, for any commands, cases and edits, any   *)
(* number of executions at a time and any schedule of their workers.       *)
EXTENDS SuiteExecution, FiniteSetTheorems, TLAPS

-----------------------------------------------------------------------------
(* The types.                                                              *)
Shrinking == {"searching", "searched", "minimized"}
Reporting == {"resolving", "locating", "reading", "validating", "rendering"}
Writing == {"emitted", "recording", "comparing"}
\* Where a command holds the run directory it reserved.
Holding == {"running", "unwinding", "analyzed"} \cup Writing
Planned == {"prepared", "verified"} \cup Holding
Seen == {"inspected"} \cup Shrinking \cup Planned
Captured == {"bound", "captured"} \cup Seen
Going == {"loading", "begun"} \cup Captured \cup Reporting
Pcs == {"idle"} \cup Ended \cup Going

IndexType == UNION {[collected -> ResultType] : collected \in SUBSET Nat}
ExecType ==
  [pc : Pcs, cmd : CommandType \cup {None}, manifest : ManifestType \cup {None},
   bound : Source \cup {None}, since : Nat, inspected : Source \cup {None},
   cases : Seq(Scenario), work : Seq(WorkType \cup {None}),
   indexed : IndexType,
   span : Nat, written : 0..Len(ArtifactOrder), author : Execution \cup {None}]

TypeOK ==
  /\ tree \in Source
  /\ edits \in Nat
  /\ crashes \in Nat
  /\ exec \in [Execution -> ExecType]
  /\ dirs \in [RunId -> DirType \cup {None}]
  /\ manifests \in [RunId -> ManifestType \cup {None}]
  /\ index \in Seq(RunId)

(* What a command has where it is.  Only shrinks have the ids of shrinks.  *)
ShrinkId == {c.run : c \in {d \in Command : d.kind = "shrink"}}
Placed(e) ==
  LET x == exec[e]
      c == x.cmd
  IN /\ x.pc \in Going =>
          /\ c \in CommandType
          /\ c.kind = "report" <=> x.pc \in Reporting
          /\ c.kind # "report" =>
               c.run \in RunId /\ (c.kind = "shrink" <=> c.run \in ShrinkId)
          /\ c.kind \in {"replay", "shrink", "verify"} =>
               c.from \in RunId /\ (x.pc # "loading" => x.manifest \in ManifestType)
     /\ x.pc = "loading" => c.kind # "test"
     /\ x.pc \in Shrinking => c.kind = "shrink"
     /\ x.pc \in Planned => c.kind # "shrink"
     /\ x.pc = "comparing" => c.kind = "verify"
     /\ x.pc \in Reporting \ {"resolving"} => c.run \in RunId
     /\ x.pc \in Captured => x.bound \in Source
     /\ x.pc \in Seen => x.inspected \in Source
     /\ x.pc \in Planned \cup {"searched", "minimized"} => x.cases \in Suites \ {<<>>}
     /\ x.pc \notin Writing => x.written = 0
     /\ x.pc = "emitted" => x.written < Len(ArtifactOrder)
     /\ x.pc \in {"recording", "comparing"} => x.written = Len(ArtifactOrder)

(* The pool has a place for each case, and what is collected is of its     *)
(* case; all of it is once the source has been compared again.             *)
Conducted(e) ==
  LET x == exec[e]
  IN /\ x.pc \notin Holding => DOMAIN x.work = {}
     /\ x.pc \in Holding =>
          /\ DOMAIN x.work = DOMAIN x.cases
          /\ DOMAIN x.indexed \subseteq DOMAIN x.cases
          /\ \A i \in DOMAIN x.indexed : x.indexed[i].case = x.cases[i]
     /\ x.pc \in Writing \cup {"analyzed"} => DOMAIN x.indexed = DOMAIN x.cases

(* The sources that an execution has seen.  One that is not the source it  *)
(* is bound to is an edit since it was captured, and while the source is   *)
(* as it was, another that reverted it.                                    *)
Sight(e, source) ==
  LET x == exec[e]
  IN \/ x.pc \in Seen /\ source = x.inspected
     \/ x.pc \in Holding /\ \E i \in DOMAIN x.work :
          x.work[i] # None /\ source = x.work[i].source
     \/ x.pc \in Holding /\ \E i \in DOMAIN x.indexed : source = x.indexed[i].source
Counted(e) ==
  LET x == exec[e]
  IN x.pc \in Captured =>
       /\ x.since <= edits
       /\ tree # x.bound => x.since < edits
       /\ \A source \in Source \ {x.bound} : Sight(e, source) =>
            /\ x.since < edits
            /\ tree = x.bound => x.since + 1 < edits
            /\ x.pc \in Writing \cup {"analyzed"} => x.span >= 2

(* Who has which directory, and that a shrink has none.                    *)
Owns(e) ==
  exec[e].pc \in Holding =>
    LET d == dirs[exec[e].cmd.run]
    IN /\ d # None
       /\ d.owner = e
       /\ exec[e].pc \notin Writing => DOMAIN d.files = {}
Held(r) ==
  dirs[r] # None =>
    LET x == exec[dirs[r].owner]
    IN /\ r \notin ShrinkId
       /\ \/ x.pc \in Holding /\ x.cmd.run = r
          \/ x.pc \in {"done", "failed", "crashed", "unreproduced"}

(* What an execution that is writing has written.                          *)
Written(e) ==
  LET x == exec[e]
      files == dirs[x.cmd.run].files
  IN x.pc \in Writing =>
       /\ DOMAIN files \ {"report"} =
            {ArtifactOrder[k] : k \in 1..x.written} \ {"report"}
       /\ \A f \in DOMAIN files \ {"report"} : files[f] = Artifact(e, f)
       /\ manifests[x.cmd.run] = Manifest(e, x.bound, SpecSeen(e), x.cases)

(* A run is recorded last, and what a report has read is a complete run.   *)
Unrecorded(e) ==
  exec[e].pc \in Holding \ {"comparing"} =>
    \A k \in DOMAIN index : index[k] # exec[e].cmd.run
Reads(e) ==
  LET x == exec[e]
      d == dirs[x.cmd.run]
  IN /\ x.pc \in {"reading", "validating", "rendering"} => Complete(x.cmd.run)
     /\ x.pc \in {"validating", "rendering"} =>
          x.author = d.owner /\ x.cases = d.files["suite"].data
     /\ x.pc # "invalid"
Loadable(r) ==
  Complete(r) =>
    /\ dirs[r].files["suite"].data \in Suites \ {<<>>}
    /\ dirs[r].files["evaluations"].data \in Seq(ResultType)

SuiteInv ==
  /\ TypeOK
  /\ \A e \in Execution :
       Placed(e) /\ Conducted(e) /\ Counted(e) /\ Owns(e) /\ Written(e)
       /\ Unrecorded(e) /\ Reads(e)
  /\ \A r \in RunId : Held(r) /\ Loadable(r)
  /\ PublishedRunIsWhole
  /\ OnlyRevertedEditsUnseen
  /\ OnlyCompleteRunsAreKept
-----------------------------------------------------------------------------
(* What Kept keeps.                                                        *)

(* A set of numbers that is not empty has a least one.                     *)
LEMMA LeastNumber ==
  ASSUME NEW T \in SUBSET Nat, T # {}
  PROVE  \E n \in T : \A m \in T : n <= m
<1>1. PICK n \in T : \A m \in T : ~(<<m, n>> \in OpToRel(<, Nat))
  BY NatLessThanWellFounded, WFMin
<1>2. \A m \in T : ~(m < n)
  BY <1>1 DEF OpToRel
<1> QED
  BY <1>2

(* Finitely many numbers can be counted in their order: otherwise there is *)
(* a smallest set that cannot, and without its least number it can.        *)
Ordered(o) == \A j, k \in DOMAIN o : j < k => o[j] < o[k]
Enumerable(I, n) == \E o \in [1..n -> I] : Ordered(o)
LEMMA EnumerationExists ==
  ASSUME NEW I \in SUBSET Nat, IsFiniteSet(I)
  PROVE  Cardinality(I) \in Nat /\ Enumerable(I, Cardinality(I))
<1> DEFINE Bad == {n \in Nat : \E J \in SUBSET Nat :
                     IsFiniteSet(J) /\ Cardinality(J) = n /\ ~Enumerable(J, n)}
<1>1. ASSUME Bad # {}
      PROVE  FALSE
  <2>1. PICK n \in Bad : \A m \in Bad : n <= m
    BY <1>1, LeastNumber
  <2>2. PICK J \in SUBSET Nat : IsFiniteSet(J) /\ Cardinality(J) = n /\ ~Enumerable(J, n)
    BY <2>1
  <2>3. n # 0
    <3>1. SUFFICES ASSUME n = 0 PROVE FALSE
      OBVIOUS
    <3> DEFINE o == [k \in 1..0 |-> 0]
    <3>2. o \in [1..n -> J] /\ Ordered(o)
      BY <3>1 DEF Ordered
    <3> QED
      BY <2>2, <3>2 DEF Enumerable
  <2>4. n \in Nat
    BY <2>1
  <2>5. PICK least \in J : \A i \in J : least <= i
    <3>1. J # {}
      BY <2>2, <2>3, FS_EmptySet
    <3> QED
      BY <3>1, LeastNumber
  <2> DEFINE K == J \ {least}
  <2>6. IsFiniteSet(K) /\ Cardinality(K) = n - 1
    BY <2>2, <2>5, FS_RemoveElement
  <2>7. n - 1 \in Nat /\ ~(n <= n - 1)
    BY <2>3, <2>4
  <2>8. Enumerable(K, n - 1)
    BY <2>1, <2>6, <2>7
  <2>9. PICK o \in [1..(n - 1) -> K] : Ordered(o)
    BY <2>8 DEF Enumerable
  <2> DEFINE p == [k \in 1..n |-> IF k = 1 THEN least ELSE o[k - 1]]
  <2>10. \A k \in 1..n : k # 1 => k - 1 \in 1..(n - 1) /\ o[k - 1] \in K
    BY <2>9, <2>4
  <2>11. p \in [1..n -> J]
    BY <2>5, <2>10
  <2>12. \A j, k \in 1..n : j < k => p[j] < p[k]
    <3> TAKE j, k \in 1..n
    <3> HAVE j < k
    <3>1. k # 1 /\ p[k] = o[k - 1] /\ o[k - 1] \in K
      BY <2>4, <2>10
    <3>2. CASE j = 1
      <4>1. /\ p[j] = least /\ least \in Nat /\ o[k - 1] \in Nat
            /\ least # o[k - 1] /\ least <= o[k - 1]
        BY <3>1, <3>2, <2>5, <2>2
      <4> QED
        BY <3>1, <4>1
    <3>3. CASE j # 1
      <4>1. p[j] = o[j - 1] /\ j - 1 \in DOMAIN o /\ k - 1 \in DOMAIN o /\ j - 1 < k - 1
        BY <3>1, <3>3, <2>10, <2>9, <2>4
      <4> QED
        BY <3>1, <4>1, <2>9 DEF Ordered
    <3> QED
      BY <3>2, <3>3
  <2>13. Ordered(p)
    BY <2>12 DEF Ordered
  <2> QED
    BY <2>2, <2>11, <2>13 DEF Enumerable
<1>2. Cardinality(I) \in Nat
  BY FS_CardinalityType
<1> QED
  BY <1>1, <1>2

(* The order in which the places that are kept are taken goes through each *)
(* of them once.                                                           *)
LEMMA EnumerationOrder ==
  ASSUME NEW I \in SUBSET Nat, IsFiniteSet(I)
  PROVE  LET o == Enumeration(I) IN
         /\ Cardinality(I) \in Nat
         /\ o \in [1..Cardinality(I) -> I]
         /\ Ordered(o)
         /\ \A j, k \in DOMAIN o : o[j] = o[k] => j = k
         /\ \A i \in I : \E k \in DOMAIN o : o[k] = i
<1> DEFINE n == Cardinality(I)
           o == Enumeration(I)
<1>1. n \in Nat /\ \E q \in [1..n -> I] : Ordered(q)
  BY EnumerationExists DEF Enumerable
<1>2. o \in [1..n -> I] /\ \A j, k \in DOMAIN o : j < k => o[j] < o[k]
  BY <1>1 DEF Enumeration, Ordered
<1> HIDE DEF o, n
<1>9. n \in Nat /\ I \subseteq Nat
  BY <1>1
<1>3. \A j, k \in 1..n : o[j] = o[k] => j = k
  <2> TAKE j, k \in 1..n
  <2> HAVE o[j] = o[k]
  <2>1. j \in Nat /\ k \in Nat /\ o[j] \in I /\ o[k] \in I /\ DOMAIN o = 1..n
    BY <1>9, <1>2
  <2>3. o[j] \in Nat /\ o[k] \in Nat
    BY <1>9, <2>1
  <2>2. ~(o[j] < o[k]) /\ ~(o[k] < o[j])
    BY <2>3
  <2> QED
    BY <1>2, <2>1, <2>2
<1>4. o \in Injection(1..n, I)
  BY <1>2, <1>3 DEF Injection, IsInjective
<1>5. Cardinality(1..n) = n /\ n = Cardinality(I)
  BY <1>1, FS_Interval DEF n
<1>6. o \in Surjection(1..n, I)
  BY <1>4, <1>5, FS_Injection
<1>7. /\ n \in Nat
      /\ o \in [1..n -> I]
      /\ Ordered(o)
      /\ \A j, k \in DOMAIN o : o[j] = o[k] => j = k
      /\ \A i \in I : \E k \in DOMAIN o : o[k] = i
  BY <1>1, <1>2, <1>3, <1>6 DEF Surjection, Ordered
<1> QED
  BY <1>7 DEF o, n

(* A finite set of numbers that is not empty has a largest one.            *)
LEMMA LargestNumber ==
  ASSUME NEW T \in SUBSET Nat, IsFiniteSet(T), T # {}
  PROVE  \E n \in T : \A m \in T : m <= n
<1> DEFINE o == Enumeration(T)
           n == Cardinality(T)
<1>1. /\ n \in Nat
      /\ o \in [1..n -> T]
      /\ Ordered(o)
      /\ \A i \in T : \E k \in DOMAIN o : o[k] = i
  BY EnumerationOrder
<1>2. n # 0
  BY FS_EmptySet
<1> HIDE DEF o, n
<1>3. n \in 1..n /\ o[n] \in T
  BY <1>1, <1>2
<1>4. ASSUME NEW m \in T
      PROVE  m <= o[n]
  <2>1. PICK k \in 1..n : o[k] = m
    BY <1>1
  <2>2. k = n \/ k < n
    BY <1>1
  <2>3. k < n => o[k] < o[n]
    BY <1>1, <1>3 DEF Ordered
  <2>4. o[n] \in Nat /\ m \in Nat
    BY <1>3
  <2> QED
    BY <2>1, <2>2, <2>3, <2>4
<1> QED
  BY <1>3, <1>4

LEMMA KeptOrder ==
  ASSUME NEW S, NEW s \in Seq(S), NEW T
  PROVE  LET o == Enumeration(Places(s, T)) IN
         /\ Kept(s, T) \in Seq(S)
         /\ DOMAIN Kept(s, T) = DOMAIN o
         /\ \A k \in DOMAIN o : /\ o[k] \in DOMAIN s
                                /\ s[o[k]] \in T
                                /\ Kept(s, T)[k] = s[o[k]]
         /\ \A j, k \in DOMAIN o : o[j] = o[k] => j = k
         /\ \A i \in DOMAIN s : s[i] \in T => \E k \in DOMAIN o : o[k] = i
<1> DEFINE I == Places(s, T)
           o == Enumeration(I)
           n == Cardinality(I)
<1>1. I \subseteq 1..Len(s) /\ Len(s) \in Nat
  BY DEF Places
<1>2. IsFiniteSet(I)
  <2>1. IsFiniteSet(1..Len(s))
    BY <1>1, FS_Interval
  <2> QED
    BY <1>1, <2>1, FS_Subset
<1>3. /\ n \in Nat
      /\ o \in [1..n -> I]
      /\ \A j, k \in DOMAIN o : o[j] = o[k] => j = k
      /\ \A i \in I : \E k \in DOMAIN o : o[k] = i
  BY <1>1, <1>2, EnumerationOrder
<1> HIDE DEF o, n
<1>4. Kept(s, T) = [k \in DOMAIN o |-> s[o[k]]]
  BY DEF Kept, o
<1>5. \A k \in DOMAIN o : o[k] \in DOMAIN s /\ s[o[k]] \in T /\ s[o[k]] \in S
  BY <1>3 DEF Places
<1>6. Kept(s, T) \in Seq(S)
  BY <1>3, <1>4, <1>5
<1>7. \A i \in DOMAIN s : s[i] \in T => \E k \in DOMAIN o : o[k] = i
  BY <1>3 DEF Places
<1>8. /\ Kept(s, T) \in Seq(S)
      /\ DOMAIN Kept(s, T) = DOMAIN o
      /\ \A k \in DOMAIN o : /\ o[k] \in DOMAIN s
                             /\ s[o[k]] \in T
                             /\ Kept(s, T)[k] = s[o[k]]
      /\ \A j, k \in DOMAIN o : o[j] = o[k] => j = k
      /\ \A i \in DOMAIN s : s[i] \in T => \E k \in DOMAIN o : o[k] = i
  BY <1>3, <1>4, <1>5, <1>6, <1>7
<1> QED
  BY <1>8 DEF o

(* What is kept of a suite is a suite.                                     *)
LEMMA KeptSuite ==
  ASSUME NEW s \in Suites, NEW T
  PROVE  Kept(s, T) \in Suites
<1>1. s \in Seq(Scenario) /\ \A i, j \in DOMAIN s : s[i] = s[j] => i = j
  BY DEF Suites
<1> DEFINE o == Enumeration(Places(s, T))
<1>2. /\ Kept(s, T) \in Seq(Scenario)
      /\ DOMAIN Kept(s, T) = DOMAIN o
      /\ \A k \in DOMAIN o : o[k] \in DOMAIN s /\ Kept(s, T)[k] = s[o[k]]
      /\ \A j, k \in DOMAIN o : o[j] = o[k] => j = k
  BY <1>1, KeptOrder
<1> HIDE DEF o
<1>3. \A j, k \in DOMAIN Kept(s, T) : Kept(s, T)[j] = Kept(s, T)[k] => j = k
  BY <1>1, <1>2
<1> QED
  BY <1>2, <1>3 DEF Suites

(* The canonical runs among the results: of each case at most one, and     *)
(* every result that is a run.                                             *)
LEMMA RunsOfResults ==
  ASSUME NEW results \in Seq(ResultType),
         \A i, j \in DOMAIN results : results[i].case = results[j].case => i = j
  PROVE  LET runs == RunsOf(results) IN
         /\ runs \in Seq(ResultType)
         /\ \A k \in DOMAIN runs : \E i \in DOMAIN results : runs[k] = results[i]
         /\ \A j, k \in DOMAIN runs : runs[j].case = runs[k].case => j = k
         /\ \A i \in DOMAIN results : results[i].kind = "run" =>
              \E k \in DOMAIN runs : runs[k] = results[i]
<1> DEFINE T == {results[i] : i \in {j \in DOMAIN results : results[j].kind # "no_run"}}
           o == Enumeration(Places(results, T))
           runs == RunsOf(results)
<1>1. runs = Kept(results, T)
  BY DEF RunsOf
<1>3. \A i \in DOMAIN results : results[i].kind = "run" => results[i] \in T
  OBVIOUS
<1> HIDE DEF T, runs
<1>2. /\ runs \in Seq(ResultType)
      /\ DOMAIN runs = DOMAIN o
      /\ \A k \in DOMAIN o : o[k] \in DOMAIN results /\ runs[k] = results[o[k]]
      /\ \A j, k \in DOMAIN o : o[j] = o[k] => j = k
      /\ \A i \in DOMAIN results : results[i] \in T => \E k \in DOMAIN o : o[k] = i
  BY <1>1, KeptOrder
<1> HIDE DEF o
<1>4. /\ \A k \in DOMAIN runs : \E i \in DOMAIN results : runs[k] = results[i]
      /\ \A j, k \in DOMAIN runs : runs[j].case = runs[k].case => j = k
      /\ \A i \in DOMAIN results : results[i].kind = "run" =>
           \E k \in DOMAIN runs : runs[k] = results[i]
  BY <1>2, <1>3
<1> QED
  BY <1>2, <1>4 DEF runs

-----------------------------------------------------------------------------
(* What a step does.                                                       *)
Fields == {"pc", "cmd", "manifest", "bound", "since", "inspected", "cases", "work",
           "indexed", "span", "written", "author"}
StepBy(e) == Begin(e) \/ Step(e) \/ CollectRaises(e) \/ Crash(e)

(* An execution moves: the fields that are named change, the others and    *)
(* the other executions stay.                                              *)
LEMMA ExecFields ==
  ASSUME TypeOK, NEW e \in Execution
  PROVE  /\ DOMAIN exec = Execution
         /\ exec = [d \in Execution |-> exec[d]]
         /\ exec[e] \in ExecType
         /\ DOMAIN exec[e] = Fields
BY DEF TypeOK, ExecType, Fields

LEMMA GoEffect ==
  ASSUME TypeOK, NEW e \in Execution, NEW new, Go(e, new)
  PROVE  /\ exec' = [d \in Execution |-> exec'[d]]
         /\ exec'[e] = [f \in Fields |-> IF f \in DOMAIN new THEN new[f] ELSE exec[e][f]]
         /\ \A d \in Execution \ {e} : exec'[d] = exec[d]
BY ExecFields DEF Go

LEMMA AtEffect ==
  ASSUME TypeOK, NEW e \in Execution, NEW where, At(e, where)
  PROVE  /\ exec' = [d \in Execution |-> exec'[d]]
         /\ exec'[e] = [f \in Fields |-> IF f = "pc" THEN where ELSE exec[e][f]]
         /\ \A d \in Execution \ {e} : exec'[d] = exec[d]
<1>1. Go(e, [pc |-> where])
  BY DEF At
<1> QED
  BY <1>1, GoEffect

LEMMA EndEffect ==
  ASSUME TypeOK, NEW e \in Execution, NEW how, End(e, how)
  PROVE  /\ exec' = [d \in Execution |-> exec'[d]]
         /\ exec'[e] = [Idle EXCEPT !.pc = how, !.span = exec[e].span]
         /\ exec'[e].pc = how
         /\ exec'[e].span = exec[e].span
         /\ exec'[e].written = 0
         /\ \A d \in Execution \ {e} : exec'[d] = exec[d]
<1>1. /\ exec' = [d \in Execution |-> exec'[d]]
      /\ exec'[e] = [Idle EXCEPT !.pc = how, !.span = exec[e].span]
      /\ \A d \in Execution \ {e} : exec'[d] = exec[d]
  BY ExecFields DEF End
<1> QED
  BY <1>1 DEF Idle

(* The part of a step that other executions and readers of the disk see.   *)
Reserves(e) ==
  LET r == exec[e].cmd.run
  IN /\ exec[e].pc = "verified"
     /\ dirs[r] = None
     /\ dirs' = [dirs EXCEPT ![r] = [owner |-> e, files |-> <<>>]]
     /\ exec'[e].pc = "running"
     /\ exec'[e].cmd = exec[e].cmd
     /\ UNCHANGED manifests
Releases(e) ==
  LET r == exec[e].cmd.run
  IN /\ exec[e].pc \in {"running", "analyzed"}
     /\ exec'[e].pc = "refused"
     /\ dirs' = Unreserved(e)
     /\ \/ UNCHANGED manifests
        \/ exec[e].pc = "analyzed" /\ manifests' = Emitted(e)
Emits(e) ==
  /\ exec[e].pc = "analyzed"
  /\ exec'[e].pc = "emitted"
  /\ exec'[e].cmd = exec[e].cmd
  /\ manifests' = Emitted(e)
  /\ UNCHANGED dirs
Writes(e) ==
  /\ exec[e].pc = "emitted"
  /\ exec'[e].pc \in {"emitted", "recording"}
  /\ exec'[e].cmd = exec[e].cmd
  /\ dirs' = Put(exec[e].cmd.run, e, ArtifactOrder[exec[e].written + 1])
  /\ UNCHANGED manifests
Reports(e) ==
  /\ exec[e].pc = "rendering"
  /\ exec'[e].pc = "done"
  /\ dirs' = Put(exec[e].cmd.run, e, "report")
  /\ UNCHANGED manifests
Minimizes(e) ==
  LET m == exec[e].manifest
  IN /\ exec[e].pc = "minimized"
     /\ exec'[e].pc = "loading"
     /\ manifests' = [manifests EXCEPT ![exec[e].cmd.run] =
                        Manifest(e, m.source, m.spec, exec[e].cases)]
     /\ UNCHANGED dirs
Leaves(e) ==
  /\ UNCHANGED <<dirs, manifests>>
  /\ exec[e].pc \in Holding =>
       \/ exec'[e].pc \in Holding /\ exec'[e].cmd = exec[e].cmd
       \/ exec'[e].pc \in {"done", "failed", "crashed", "unreproduced"}
  /\ exec[e].pc \notin Holding => exec'[e].pc \notin Holding
Records(e) ==
  /\ exec[e].pc = "recording"
  /\ exec'[e].pc \in {"comparing", "done"}
  /\ index' = Append(index, exec[e].cmd.run)
StepOf(e) ==
  /\ exec' = [d \in Execution |-> exec'[d]]
  /\ \A d \in Execution \ {e} : exec'[d] = exec[d]
  /\ \/ Reserves(e) \/ Releases(e) \/ Emits(e) \/ Writes(e)
     \/ Reports(e) \/ Minimizes(e) \/ Leaves(e)
  /\ UNCHANGED index \/ Records(e)
  /\ exec[e].pc \notin Ended
  /\ exec[e].pc \in Writing => exec'[e].span = exec[e].span
  /\ UNCHANGED <<tree, edits>>
  /\ crashes' \in {crashes, crashes + 1}

LEMMA Frame ==
  ASSUME TypeOK, NEW e \in Execution, Conducted(e), StepBy(e)
  PROVE  StepOf(e)
<1> DEFINE Others == /\ exec' = [d \in Execution |-> exec'[d]]
                     /\ \A d \in Execution \ {e} : exec'[d] = exec[d]
<1>1. ASSUME NEW new, Go(e, new)
      PROVE  /\ Others
             /\ "pc" \in DOMAIN new => exec'[e].pc = new.pc
             /\ "pc" \notin DOMAIN new => exec'[e].pc = exec[e].pc
             /\ "cmd" \notin DOMAIN new => exec'[e].cmd = exec[e].cmd
             /\ "span" \notin DOMAIN new => exec'[e].span = exec[e].span
  <2>1. /\ exec'[e] = [f \in Fields |-> IF f \in DOMAIN new THEN new[f] ELSE exec[e][f]]
        /\ Others
    BY <1>1, GoEffect
  <2>2. "pc" \in Fields /\ "cmd" \in Fields /\ "span" \in Fields
    BY DEF Fields
  <2> QED
    BY <2>1, <2>2
<1>2. ASSUME NEW where, At(e, where)
      PROVE  /\ Others
             /\ exec'[e].pc = where
             /\ exec'[e].cmd = exec[e].cmd
             /\ exec'[e].span = exec[e].span
  <2>1. /\ exec'[e] = [f \in Fields |-> IF f = "pc" THEN where ELSE exec[e][f]]
        /\ Others
    BY <1>2, AtEffect
  <2>2. "pc" \in Fields /\ "cmd" \in Fields /\ "span" \in Fields
    BY DEF Fields
  <2> QED
    BY <2>1, <2>2
<1>3. ASSUME NEW how, End(e, how)
      PROVE  Others /\ exec'[e].pc = how /\ exec'[e].span = exec[e].span
  BY <1>3, EndEffect
<1> HIDE DEF Others
<1> USE DEF Outside, Disk, Leaves, Holding, Writing, Ended
<1>4. CASE Begin(e)
  BY <1>1, <1>4 DEF Begin, StepOf, Others
<1>5. CASE Load(e)
  BY <1>1, <1>3, <1>5 DEF Load, StepOf, Others
<1>6. CASE Capture(e)
  BY <1>1, <1>3, <1>6 DEF Capture, StepOf, Others
<1>7. CASE \E from \in {"bound", "prepared", "searched"},
              to \in {"captured", "verified", "minimized"} : Verify(e, from, to)
  BY <1>2, <1>3, <1>7 DEF Verify, StepOf, Others
<1>8. CASE Inspect(e)
  BY <1>1, <1>3, <1>8 DEF Inspect, StepOf, Others
<1>9. CASE PrepareTest(e)
  <2>1. CASE End(e, "refused")
    BY <1>3, <1>9, <2>1 DEF PrepareTest, StepOf, Others
  <2>2. CASE \E kept : Go(e, [pc |-> "prepared", cases |-> kept])
    <3>1. PICK kept : Go(e, [pc |-> "prepared", cases |-> kept])
      BY <2>2
    <3> QED
      BY <1>1, <1>9, <3>1 DEF PrepareTest, StepOf, Others
  <2> QED
    BY <1>9, <2>1, <2>2 DEF PrepareTest
<1>10. CASE PrepareReplay(e)
  BY <1>1, <1>3, <1>10 DEF PrepareReplay, StepOf, Others
<1>11. CASE PrepareShrink(e)
  BY <1>2, <1>3, <1>11 DEF PrepareShrink, StepOf, Others
<1>12. CASE Reserve(e)
  BY <1>1, <1>3, <1>12 DEF Reserve, StepOf, Others, Reserves
<1>13. CASE StartWorker(e)
  BY <1>1, <1>13 DEF StartWorker, Executing, StepOf, Others
<1>14. CASE WorkerReturns(e)
  <2>1. PICK work : Go(e, [work |-> work])
    BY <1>14 DEF WorkerReturns
  <2>2. exec[e].pc \in Holding
    BY <1>14 DEF WorkerReturns, Working, Conducted
  <2> QED
    BY <1>1, <1>14, <2>1, <2>2 DEF WorkerReturns, StepOf, Others
<1>15. CASE Collect(e)
  BY <1>1, <1>15 DEF Collect, StepOf, Others
<1>16. CASE CollectRaises(e)
  BY <1>2, <1>16 DEF CollectRaises, StepOf, Others
<1>17. CASE Unwind(e)
  BY <1>3, <1>17 DEF Unwind, StepOf, Others
<1>18. CASE VerifyAfterWorkers(e)
  BY <1>1, <1>3, <1>18 DEF VerifyAfterWorkers, StepOf, Others, Releases
<1>19. CASE EmitManifest(e)
  BY <1>2, <1>3, <1>19 DEF EmitManifest, StepOf, Others, Releases, Emits
<1>20. CASE WriteArtifact(e)
  BY <1>1, <1>20 DEF WriteArtifact, StepOf, Others, Writes
<1>21. CASE Record(e)
  BY <1>2, <1>3, <1>21 DEF Record, StepOf, Others, Records
<1>22. CASE Search(e)
  <2>1. CASE End(e, "refused")
    BY <1>3, <1>22, <2>1 DEF Search, StepOf, Others
  <2>2. CASE \E found : Go(e, [pc |-> "searched", cases |-> found])
    <3>1. PICK found : Go(e, [pc |-> "searched", cases |-> found])
      BY <2>2
    <3> QED
      BY <1>1, <1>22, <3>1 DEF Search, StepOf, Others
  <2> QED
    BY <1>22, <2>1, <2>2 DEF Search
<1>23. CASE WriteMinimized(e)
  BY <1>1, <1>3, <1>23 DEF WriteMinimized, StepOf, Others, Minimizes
<1>24. CASE Compare(e)
  BY <1>3, <1>24 DEF Compare, StepOf, Others
<1>25. CASE Resolve(e)
  BY <1>1, <1>2, <1>3, <1>25 DEF Resolve, StepOf, Others
<1>26. CASE Locate(e)
  BY <1>2, <1>3, <1>26 DEF Locate, StepOf, Others
<1>27. CASE ReadSuite(e)
  BY <1>1, <1>27 DEF ReadSuite, StepOf, Others
<1>28. CASE Validate(e)
  BY <1>2, <1>3, <1>28 DEF Validate, StepOf, Others
<1>29. CASE WriteReport(e)
  BY <1>3, <1>29 DEF WriteReport, StepOf, Others, Reports
<1>30. CASE Crash(e)
  BY <1>3, <1>30 DEF Crash, StepOf, Others, Active
<1> QED
  BY <1>4, <1>5, <1>6, <1>7, <1>8, <1>9, <1>10, <1>11, <1>12, <1>13, <1>14, <1>15,
     <1>16, <1>17, <1>18, <1>19, <1>20, <1>21, <1>22, <1>23, <1>24, <1>25, <1>26,
     <1>27, <1>28, <1>29, <1>30
  DEF StepBy, Step, Prepare, VerifyBeforeInspection, VerifyBeforeWorkers, VerifyAfterSearch

-----------------------------------------------------------------------------
(* What is on disk.                                                        *)
LEMMA DirParts ==
  ASSUME TypeOK, NEW r \in RunId, dirs[r] # None
  PROVE  /\ dirs[r] \in DirType
         /\ DOMAIN dirs[r] = {"owner", "files"}
         /\ dirs[r].owner \in Execution
         /\ DOMAIN dirs[r].files \subseteq Artifacts
         /\ dirs[r].files \in [DOMAIN dirs[r].files -> FileType]
<1>1. dirs[r] \in DirType
  BY DEF TypeOK
<1> QED
  BY <1>1 DEF DirType

(* The results in suite order are those of the cases, one for each.        *)
LEMMA Results ==
  ASSUME TypeOK, NEW e \in Execution, Placed(e), Conducted(e),
         exec[e].pc \in Writing \cup {"analyzed"}
  PROVE  LET results == InSuiteOrder(e) IN
         /\ results \in Seq(ResultType)
         /\ DOMAIN results = DOMAIN exec[e].cases
         /\ \A i \in DOMAIN results : /\ results[i].case = exec[e].cases[i]
                                      /\ results[i] = exec[e].indexed[i]
         /\ \A i, j \in DOMAIN results : results[i].case = results[j].case => i = j
<1> DEFINE results == InSuiteOrder(e)
           x == exec[e]
<1>1. /\ x.cases \in Suites \ {<<>>}
      /\ DOMAIN x.indexed = DOMAIN x.cases
      /\ \A i \in DOMAIN x.indexed : x.indexed[i].case = x.cases[i]
  BY DEF Placed, Conducted, Planned, Holding, Writing
<1>2. x \in ExecType
  BY DEF TypeOK
<1>3. PICK collected \in SUBSET Nat : x.indexed \in [collected -> ResultType]
  BY <1>2 DEF ExecType, IndexType
<1>4. \A i \in DOMAIN x.cases : x.indexed[i] \in ResultType
  BY <1>1, <1>3
<1>5. /\ x.cases \in Seq(Scenario)
      /\ \A i, j \in DOMAIN x.cases : x.cases[i] = x.cases[j] => i = j
  BY <1>1 DEF Suites
<1>6. results = [i \in DOMAIN x.cases |-> x.indexed[i]]
  BY DEF InSuiteOrder
<1> HIDE DEF x, results
<1>7. results \in Seq(ResultType) /\ DOMAIN results = DOMAIN x.cases
  BY <1>4, <1>5, <1>6
<1>8. \A i \in DOMAIN results : results[i].case = x.cases[i] /\ results[i] = x.indexed[i]
  BY <1>1, <1>6
<1>9. \A i, j \in DOMAIN results : results[i].case = results[j].case => i = j
  BY <1>5, <1>7, <1>8
<1> QED
  BY <1>7, <1>8, <1>9 DEF results, x

LEMMA ArtifactParts ==
  ASSUME NEW e, NEW f
  PROVE  /\ Artifact(e, f).by = e
         /\ f = "suite" => Artifact(e, f).data = exec[e].cases
         /\ f = "runs" => Artifact(e, f).data = RunsOf(InSuiteOrder(e))
         /\ f = "evaluations" => Artifact(e, f).data = InSuiteOrder(e)
         /\ f = "summary" => Artifact(e, f).data = <<exec[e].bound, exec[e].inspected>>
<1>1. /\ Data(e)["suite"] = exec[e].cases
      /\ Data(e)["runs"] = RunsOf(InSuiteOrder(e))
      /\ Data(e)["evaluations"] = InSuiteOrder(e)
      /\ Data(e)["summary"] = <<exec[e].bound, exec[e].inspected>>
  BY DEF Data
<1> QED
  BY <1>1 DEF Artifact

LEMMA ArtifactType ==
  ASSUME TypeOK, NEW e \in Execution, NEW f,
         f = "report" \/ (Placed(e) /\ Conducted(e) /\ exec[e].pc \in Writing)
  PROVE  Artifact(e, f) \in FileType
<1> DEFINE DataType == Seq(Scenario) \cup Seq(ResultType) \cup (Source \X Source)
<1>1. <<>> \in DataType
  OBVIOUS
<1> DEFINE names == {"suite", "runs", "evaluations", "summary"}
<1>2. ASSUME Placed(e), Conducted(e), exec[e].pc \in Writing, f \in names
      PROVE  Data(e)[f] \in DataType
  <2>1. exec[e].cases \in Seq(Scenario)
    BY DEF TypeOK, ExecType
  <2>2. /\ InSuiteOrder(e) \in Seq(ResultType)
        /\ RunsOf(InSuiteOrder(e)) \in Seq(ResultType)
    BY <1>2, Results, RunsOfResults
  <2>3. exec[e].bound \in Source /\ exec[e].inspected \in Source
    BY <1>2 DEF Placed, Captured, Seen, Planned, Holding
  <2>4. f \in {"suite", "runs", "evaluations", "summary"}
    BY <1>2
  <2>5. Data(e)["suite"] \in DataType
    BY <2>1 DEF Data
  <2>6. Data(e)["runs"] \in DataType
    BY <2>2 DEF Data
  <2>7. Data(e)["evaluations"] \in DataType
    BY <2>2 DEF Data
  <2>8. Data(e)["summary"] \in DataType
    BY <2>3 DEF Data
  <2> QED
    BY <2>4, <2>5, <2>6, <2>7, <2>8
<1> HIDE DEF DataType
<1>3. (IF f \in names THEN Data(e)[f] ELSE <<>>) \in DataType
  BY <1>1, <1>2
<1> QED
  BY <1>3 DEF Artifact, FileType, DataType

LEMMA PutEffect ==
  ASSUME TypeOK, NEW r \in RunId, dirs[r] # None, NEW e \in Execution,
         NEW f \in Artifacts, Artifact(e, f) \in FileType, dirs' = Put(r, e, f)
  PROVE  /\ dirs' \in [RunId -> DirType \cup {None}]
         /\ dirs'[r] # None
         /\ dirs'[r].owner = dirs[r].owner
         /\ DOMAIN dirs'[r].files = DOMAIN dirs[r].files \cup {f}
         /\ dirs'[r].files[f] = Artifact(e, f)
         /\ \A g \in DOMAIN dirs[r].files \ {f} : dirs'[r].files[g] = dirs[r].files[g]
         /\ \A q \in RunId \ {r} : dirs'[q] = dirs[q]
<1> DEFINE old == dirs[r].files
           new == [g \in DOMAIN old \cup {f} |-> IF g = f THEN Artifact(e, f) ELSE old[g]]
<1>1. /\ dirs[r] \in DirType
      /\ DOMAIN dirs[r] = {"owner", "files"}
      /\ DOMAIN old \subseteq Artifacts
      /\ old \in [DOMAIN old -> FileType]
      /\ dirs[r].owner \in Execution
  BY DirParts
<1>2. dirs' = [dirs EXCEPT ![r] = [dirs[r] EXCEPT !.files = new]]
  BY DEF Put, TypeOK
<1>3. new \in [DOMAIN old \cup {f} -> FileType]
  BY <1>1
<1>4. DOMAIN old \cup {f} \in SUBSET Artifacts
  BY <1>1
<1> HIDE DEF new
<1>5. [dirs[r] EXCEPT !.files = new] \in DirType
  BY <1>1, <1>3, <1>4 DEF DirType
<1>6. dirs \in [RunId -> DirType \cup {None}]
  BY DEF TypeOK
<1>7. /\ dirs' \in [RunId -> DirType \cup {None}]
      /\ dirs'[r] = [dirs[r] EXCEPT !.files = new]
      /\ \A q \in RunId \ {r} : dirs'[q] = dirs[q]
  BY <1>2, <1>5, <1>6
<1>8. dirs'[r] # None
  BY <1>5, <1>7, NoneAssumption
<1>9. dirs'[r].owner = dirs[r].owner /\ dirs'[r].files = new
  BY <1>1, <1>7
<1> QED
  BY <1>7, <1>8, <1>9 DEF new

-----------------------------------------------------------------------------
(* What stays of a run directory when another execution moves, and of one  *)
(* that is complete when any does: all but a report that is added.         *)
Stays(r) ==
  /\ dirs'[r] # None
  /\ dirs'[r].owner = dirs[r].owner
  /\ \/ DOMAIN dirs'[r].files = DOMAIN dirs[r].files
     \/ Complete(r) /\ DOMAIN dirs'[r].files = DOMAIN dirs[r].files \cup {"report"}
  /\ \A f \in DOMAIN dirs[r].files \ {"report"} : dirs'[r].files[f] = dirs[r].files[f]
  /\ manifests'[r] = manifests[r]

LEMMA HolderPlaced ==
  ASSUME NEW e, Placed(e), exec[e].pc \in Holding \cup {"verified", "minimized", "rendering"}
  PROVE  /\ exec[e].cmd.run \in RunId
         /\ exec[e].pc \in Holding \cup {"verified"} => exec[e].cmd.run \notin ShrinkId
         /\ exec[e].pc = "minimized" => exec[e].cmd.run \in ShrinkId
BY DEF Placed, Going, Captured, Seen, Planned, Holding, Writing, Shrinking, Reporting

LEMMA UnreservedEffect ==
  ASSUME TypeOK, NEW e \in Execution, Owns(e), exec[e].pc \in {"running", "analyzed"},
         exec[e].cmd.run \in RunId, dirs' = Unreserved(e)
  PROVE  /\ dirs[exec[e].cmd.run].owner = e
         /\ dirs' = [dirs EXCEPT ![exec[e].cmd.run] = None]
BY DEF Owns, Holding, Writing, Unreserved

LEMMA DirStays ==
  ASSUME SuiteInv, NEW e \in Execution, StepOf(e), NEW r \in RunId,
         dirs[r] # None, dirs[r].owner # e
  PROVE  Stays(r)
<1> DEFINE run == exec[e].cmd.run
<1>1. /\ TypeOK /\ Placed(e) /\ Owns(e) /\ Reads(e) /\ Held(r)
      /\ dirs \in [RunId -> DirType \cup {None}]
      /\ manifests \in [RunId -> ManifestType \cup {None}]
  BY DEF SuiteInv, TypeOK
<1>2. CASE Reserves(e)
  <2>1. run \in RunId
    BY <1>1, <1>2, HolderPlaced DEF Reserves
  <2> QED
    BY <1>1, <1>2, <2>1 DEF Reserves, Stays
<1>3. CASE Releases(e)
  <2>1. run \in RunId
    BY <1>1, <1>3, HolderPlaced DEF Releases, Holding
  <2>2. dirs[run].owner = e /\ dirs' = [dirs EXCEPT ![run] = None]
    BY <1>1, <1>3, <2>1, UnreservedEffect DEF Releases
  <2> QED
    BY <1>1, <1>3, <2>1, <2>2 DEF Releases, Stays, Emitted
<1>4. CASE Emits(e)
  <2>1. run \in RunId /\ dirs[run].owner = e
    BY <1>1, <1>4, HolderPlaced, SMTT(60) DEF Emits, Holding, Owns
  <2> QED
    BY <1>1, <1>4, <2>1 DEF Emits, Stays, Emitted
<1>5. CASE Writes(e)
  <2>1. run \in RunId /\ dirs[run].owner = e
    BY <1>1, <1>5, HolderPlaced DEF Writes, Holding, Writing, Owns
  <2> QED
    BY <1>1, <1>5, <2>1 DEF Writes, Stays, Put
<1>6. CASE Reports(e)
  <2>1. run \in RunId /\ Complete(run) /\ dirs[run] # None
    BY <1>1, <1>6, HolderPlaced DEF Reports, Reads, Complete
  <2>2. "report" \in Artifacts
    BY DEF Artifacts, ArtifactOrder
  <2>3. Artifact(e, "report") \in FileType
    BY <1>1, ArtifactType
  <2>4. /\ dirs'[run] # None
        /\ dirs'[run].owner = dirs[run].owner
        /\ DOMAIN dirs'[run].files = DOMAIN dirs[run].files \cup {"report"}
        /\ \A g \in DOMAIN dirs[run].files \ {"report"} :
             dirs'[run].files[g] = dirs[run].files[g]
        /\ \A q \in RunId \ {run} : dirs'[q] = dirs[q]
    BY <1>1, <1>6, <2>1, <2>2, <2>3, PutEffect DEF Reports
  <2>5. manifests' = manifests
    BY <1>6, SMTT(60) DEF Reports
  <2>6. CASE r = run
    BY <2>1, <2>4, <2>5, <2>6 DEF Stays
  <2>7. CASE r # run
    BY <2>4, <2>5, <2>7 DEF Stays
  <2> QED
    BY <2>6, <2>7
<1>7. CASE Minimizes(e)
  <2>1. run \in RunId /\ run # r
    BY <1>1, <1>7, HolderPlaced DEF Minimizes, Held
  <2> QED
    BY <1>1, <1>7, <2>1 DEF Minimizes, Stays
<1>8. CASE Leaves(e)
  BY <1>8 DEF Leaves, Stays
<1> QED
  BY <1>2, <1>3, <1>4, <1>5, <1>6, <1>7, <1>8 DEF StepOf

LEMMA CompleteNames ==
  /\ "summary" \in Required /\ "suite" \in Required /\ "evaluations" \in Required
  /\ "runs" \in Required /\ "report" \notin Required
  /\ Required \subseteq Artifacts
  /\ Len(ArtifactOrder) = 8
  /\ ArtifactOrder[8] = "report"
  /\ \A k \in 1..8 : ArtifactOrder[k] \in Artifacts
  /\ \A k \in 1..8 : ArtifactOrder[k] = "summary" => k = 7
  /\ \A k \in 1..8 : ArtifactOrder[k] = "report" => k = 8
  /\ \A k \in 1..7 : Required \subseteq {ArtifactOrder[j] : j \in 1..k} => k = 7
  /\ \A k \in 7..8 : Required \subseteq {ArtifactOrder[j] : j \in 1..k} \ {"report"}
BY DEF Required, ArtifactOrder, Artifacts

LEMMA PublishedStays ==
  ASSUME SuiteInv, NEW e \in Execution, StepOf(e), NEW r \in RunId, Complete(r)
  PROVE  Stays(r)
<1> DEFINE run == exec[e].cmd.run
<1>1. /\ TypeOK /\ Placed(e) /\ Conducted(e) /\ Owns(e) /\ Written(e) /\ Held(r)
      /\ dirs[r] # None /\ Required \subseteq DOMAIN dirs[r].files
  BY DEF SuiteInv, Complete
<1>2. CASE dirs[r].owner # e
  BY <1>1, <1>2, DirStays
<1>3. CASE dirs[r].owner = e
  <2>1. exec[e].pc \in Holding /\ run = r
    BY <1>1, <1>3 DEF Held, StepOf, Ended
  <2>2. exec[e].pc \in Writing
    <3>1. DOMAIN dirs[r].files # {}
      BY <1>1, CompleteNames
    <3> QED
      BY <1>1, <2>1, <3>1 DEF Owns
  <2>3. CASE Leaves(e)
    BY <1>1, <2>3, SMTT(60) DEF Leaves, Stays
  <2>4. CASE Writes(e)
    <3> DEFINE k == exec[e].written
    <3>1. k \in 0..7
      BY <1>1, <2>4, CompleteNames DEF Placed, Writes, TypeOK, ExecType
    <3>2. DOMAIN dirs[r].files \ {"report"} = {ArtifactOrder[j] : j \in 1..k} \ {"report"}
      BY <1>1, <2>1, <2>2 DEF Written
    <3>3. "summary" \in {ArtifactOrder[j] : j \in 1..k}
      BY <1>1, <3>2, CompleteNames
    <3>4. k = 7
      <4>1. PICK j \in 1..k : ArtifactOrder[j] = "summary"
        BY <3>3
      <4>2. j = 7
        BY <3>1, <4>1, CompleteNames
      <4> QED
        BY <3>1, <4>1, <4>2
    <3>5. dirs' = Put(r, e, "report")
      BY <2>1, <2>4, <3>4, CompleteNames DEF Writes
    <3>6. "report" \in Artifacts /\ Artifact(e, "report") \in FileType
      BY <1>1, ArtifactType DEF Artifacts, ArtifactOrder
    <3>7. /\ dirs'[r] # None
          /\ dirs'[r].owner = dirs[r].owner
          /\ DOMAIN dirs'[r].files = DOMAIN dirs[r].files \cup {"report"}
          /\ \A g \in DOMAIN dirs[r].files \ {"report"} :
               dirs'[r].files[g] = dirs[r].files[g]
      BY <1>1, <3>5, <3>6, PutEffect
    <3> QED
      BY <2>4, <3>7 DEF Stays, Writes
  <2> QED
    BY <2>2, <2>3, <2>4
    DEF StepOf, Reserves, Releases, Emits, Reports, Minimizes, Writing
<1> QED
  BY <1>2, <1>3

LEMMA StaysComplete ==
  ASSUME NEW r, Complete(r), Stays(r)
  PROVE  /\ Complete(r)'
         /\ \A f \in Required : dirs'[r].files[f] = dirs[r].files[f]
         /\ dirs'[r].owner = dirs[r].owner
         /\ manifests'[r] = manifests[r]
<1>1. \A f \in Required : f \in DOMAIN dirs[r].files \ {"report"}
  BY CompleteNames DEF Complete
<1> QED
  BY <1>1 DEF Complete, Stays

-----------------------------------------------------------------------------
(* What a step leaves of the other executions' part of the invariant.      *)
Own(e) ==
  /\ exec[e] \in ExecType
  /\ Placed(e) /\ Conducted(e) /\ Counted(e) /\ Owns(e) /\ Written(e)
  /\ Unrecorded(e) /\ Reads(e)

LEMMA OthersStep ==
  ASSUME SuiteInv, NEW e \in Execution, StepOf(e), NEW d \in Execution \ {e}
  PROVE  Own(d)'
<1>1. /\ TypeOK /\ Placed(d) /\ Conducted(d) /\ Counted(d) /\ Owns(d) /\ Written(d)
      /\ Unrecorded(d) /\ Reads(d) /\ exec[d] \in ExecType
      /\ Owns(e) /\ Placed(e)
  BY DEF SuiteInv, TypeOK
<1>2. exec'[d] = exec[d] /\ tree' = tree /\ edits' = edits
  BY DEF StepOf
<1>3. Placed(d)' /\ Conducted(d)'
  BY <1>1, <1>2 DEF Placed, Conducted
<1>4. Counted(d)'
  <2>1. \A source : Sight(d, source)' <=> Sight(d, source)
    BY <1>2 DEF Sight
  <2> QED
    BY <1>1, <1>2, <2>1 DEF Counted
<1> DEFINE run == exec[d].cmd.run
<1>5. ASSUME exec[d].pc \in Holding
      PROVE  run \in RunId /\ Stays(run)
  BY <1>1, <1>5, HolderPlaced, DirStays, SMTT(60) DEF Owns
<1>6. Owns(d)'
  <2> SUFFICES ASSUME exec[d].pc \in Holding
               PROVE  /\ dirs'[run] # None
                      /\ dirs'[run].owner = d
                      /\ exec[d].pc \notin Writing => DOMAIN dirs'[run].files = {}
    BY <1>2 DEF Owns
  <2>1. Stays(run) /\ dirs[run].owner = d
    BY <1>1, <1>5 DEF Owns
  <2>2. exec[d].pc \notin Writing => DOMAIN dirs[run].files = {} /\ ~Complete(run)
    BY <1>1, CompleteNames, SMTT(60) DEF Owns, Complete
  <2> QED
    BY <2>1, <2>2 DEF Stays
<1>7. Written(d)'
  <2> SUFFICES ASSUME exec[d].pc \in Writing
               PROVE  Written(d)'
    BY <1>2 DEF Written
  <2>1. Stays(run)
    BY <1>5 DEF Holding
  <2>2. \A f : Artifact(d, f)' = Artifact(d, f)
    BY <1>2 DEF Artifact, Data, InSuiteOrder
  <2>3. SpecSeen(d)' = SpecSeen(d)
    BY <1>2, SMTT(60) DEF SpecSeen
  <2>4. DOMAIN dirs'[run].files \ {"report"} = DOMAIN dirs[run].files \ {"report"}
    BY <2>1 DEF Stays
  <2> QED
    BY <1>1, <1>2, <2>1, <2>2, <2>3, <2>4 DEF Written, Stays
<1>8. Unrecorded(d)'
  <2>1. CASE index' = index
    BY <1>1, <1>2, <2>1 DEF Unrecorded
  <2>2. CASE Records(e)
    <3>1. ASSUME exec[d].pc \in Holding
          PROVE  exec[e].cmd.run # run
      BY <1>1, <2>2, <3>1 DEF Owns, Records, Holding, Writing
    <3>2. index \in Seq(RunId) /\ exec[e].cmd.run \in RunId
      BY <1>1, <2>2, HolderPlaced DEF TypeOK, Records, Holding, Writing
    <3>3. \A k \in DOMAIN index' :
            index'[k] = exec[e].cmd.run \/ (k \in DOMAIN index /\ index'[k] = index[k])
      BY <2>2, <3>2 DEF Records
    <3> QED
      BY <1>1, <1>2, <3>1, <3>3 DEF Unrecorded
  <2> QED
    BY <2>1, <2>2 DEF StepOf
<1>9. Reads(d)'
  <2>1. CASE exec[d].pc \in {"reading", "validating", "rendering"}
    <3>1. run \in RunId /\ Complete(run)
      BY <1>1, <2>1 DEF Placed, Reads, Reporting
    <3>2. PICK r \in RunId : r = run
      BY <3>1
    <3>3. Stays(r)
      BY <3>1, <3>2, PublishedStays
    <3>4. /\ Complete(r)'
          /\ \A f \in Required : dirs'[r].files[f] = dirs[r].files[f]
          /\ dirs'[r].owner = dirs[r].owner
      BY <3>1, <3>2, <3>3, StaysComplete
    <3> QED
      BY <1>1, <1>2, <2>1, <3>2, <3>4, CompleteNames DEF Reads, Complete
  <2>2. CASE exec[d].pc \notin {"reading", "validating", "rendering"}
    BY <1>1, <1>2, <2>2 DEF Reads
  <2> QED
    BY <2>1, <2>2
<1> QED
  BY <1>1, <1>2, <1>3, <1>4, <1>6, <1>7, <1>8, <1>9 DEF Own

(* No directory changes hands, and only the one who reserved it and has    *)
(* not published anything gives it up.                                     *)
LEMMA HeldStep ==
  ASSUME SuiteInv, NEW e \in Execution, StepOf(e), NEW r \in RunId
  PROVE  Held(r)'
<1> DEFINE run == exec[e].cmd.run
<1>1. /\ TypeOK /\ Placed(e) /\ Owns(e) /\ Held(r)
      /\ dirs \in [RunId -> DirType \cup {None}]
      /\ exec[e].pc \notin Ended
      /\ \A d \in Execution \ {e} : exec'[d] = exec[d]
  BY DEF SuiteInv, TypeOK, StepOf
<1>2. ShrinkId' = ShrinkId
  BY DEF ShrinkId
<1>3. CASE dirs[r] # None /\ dirs[r].owner # e
  <2>1. dirs'[r] # None /\ dirs'[r].owner = dirs[r].owner
    BY <1>3, DirStays DEF Stays
  <2>2. dirs[r].owner \in Execution
    BY <1>1, <1>3, DirParts
  <2> QED
    BY <1>1, <1>3, <2>1, <2>2 DEF Held
<1>4. CASE dirs[r] # None /\ dirs[r].owner = e
  <2>1. /\ exec[e].pc \in Holding
        /\ run = r
        /\ r \notin ShrinkId
    BY <1>1, <1>4 DEF Held, Ended
  <2>2. CASE Leaves(e)
    <3>1. dirs'[r] = dirs[r]
      BY <2>2 DEF Leaves
    <3>2. \/ exec'[e].pc \in Holding /\ exec'[e].cmd = exec[e].cmd
          \/ exec'[e].pc \in {"done", "failed", "crashed", "unreproduced"}
      BY <2>1, <2>2 DEF Leaves
    <3> QED
      BY <1>4, <2>1, <3>1, <3>2 DEF Held
  <2>3. CASE Releases(e)
    <3>1. dirs'[r] = None
      BY <1>1, <2>1, <2>3, UnreservedEffect DEF Releases
    <3> QED
      BY <3>1 DEF Held
  <2>4. CASE Emits(e)
    BY <1>4, <2>1, <2>4 DEF Held, Emits, Holding, Writing
  <2>5. CASE Writes(e)
    <3>1. dirs'[r].owner = dirs[r].owner
      BY <1>1, <2>1, <2>5, <1>4, DirParts DEF Writes, Put
    <3> QED
      BY <1>4, <2>1, <2>5, <3>1 DEF Held, Writes, Holding, Writing
  <2> QED
    BY <2>1, <2>2, <2>3, <2>4, <2>5, <1>1
    DEF StepOf, Reserves, Reports, Minimizes, Holding, Writing
<1>5. CASE dirs[r] = None
  <2>1. CASE Reserves(e)
    <3>1. run \in RunId /\ run \notin ShrinkId
      BY <1>1, <2>1, HolderPlaced DEF Reserves
    <3>2. CASE r = run
      <4>1. dirs'[r].owner = e
        BY <1>1, <2>1, <3>1, <3>2 DEF Reserves
      <4> QED
        BY <2>1, <3>1, <3>2, <4>1 DEF Reserves, Held, Holding
    <3>3. CASE r # run
      BY <1>1, <1>5, <2>1, <3>1, <3>3 DEF Reserves, Held
    <3> QED
      BY <3>2, <3>3
  <2>2. CASE Writes(e) \/ Reports(e)
    <3>1. run \in RunId /\ dirs[run] # None
      BY <1>1, <2>2, HolderPlaced, SMTT(60)
      DEF Writes, Reports, Owns, Holding, Writing, Complete, Reads, SuiteInv
    <3>2. dirs'[r] = dirs[r]
      BY <1>1, <1>5, <2>2, <3>1 DEF Writes, Reports, Put
    <3> QED
      BY <1>5, <3>2 DEF Held
  <2>3. CASE Releases(e)
    <3>1. run \in RunId
      BY <1>1, <2>3, HolderPlaced DEF Releases, Holding
    <3>2. dirs'[r] = None
      BY <1>1, <1>5, <2>3, <3>1, UnreservedEffect DEF Releases
    <3> QED
      BY <3>2 DEF Held
  <2>4. CASE Emits(e) \/ Minimizes(e) \/ Leaves(e)
    BY <1>5, <2>4 DEF Emits, Minimizes, Leaves, Held
  <2> QED
    BY <2>1, <2>2, <2>3, <2>4 DEF StepOf
<1> QED
  BY <1>3, <1>4, <1>5

-----------------------------------------------------------------------------
(* The run of an execution that has written what is required is whole, and *)
(* of the source it was bound to, or that was edited and edited back.      *)
WholeRun(r) ==
  LET files == dirs[r].files
      results == files["evaluations"].data
  IN /\ \A f \in DOMAIN files \ {"report"} : files[f].by = dirs[r].owner
     /\ [i \in DOMAIN results |-> results[i].case] = files["suite"].data
     /\ files["runs"].data = RunsOf(results)
     /\ manifests[r].cases = files["suite"].data
     /\ manifests[r].source = files["summary"].data[1]
SeenRun(r) ==
  LET files == dirs[r].files
      bound == files["summary"].data[1]
      seen == {files["summary"].data[2]} \cup
              {files["evaluations"].data[i].source :
                 i \in DOMAIN files["evaluations"].data}
  IN seen # {bound} => exec[dirs[r].owner].span >= 2
Published(r) == Complete(r) => Loadable(r) /\ WholeRun(r) /\ SeenRun(r)

LEMMA OwnersRunIsWhole ==
  \A e \in Execution :
    TypeOK /\ Own(e) /\ exec[e].pc \in Writing => Published(exec[e].cmd.run)
<1> SUFFICES ASSUME NEW e \in Execution, TypeOK, Own(e), exec[e].pc \in Writing,
                    Complete(exec[e].cmd.run)
             PROVE  LET r == exec[e].cmd.run IN Loadable(r) /\ WholeRun(r) /\ SeenRun(r)
  BY DEF Published
<1> DEFINE x == exec[e]
           r == x.cmd.run
           files == dirs[r].files
           results == InSuiteOrder(e)
<1>1. /\ Placed(e) /\ Conducted(e) /\ Counted(e) /\ Owns(e) /\ Written(e)
      /\ x \in ExecType
  BY DEF Own
<1>2. /\ results \in Seq(ResultType)
      /\ DOMAIN results = DOMAIN x.cases
      /\ \A i \in DOMAIN results : results[i].case = x.cases[i] /\ results[i] = x.indexed[i]
  BY <1>1, Results
<1>3. /\ dirs[r].owner = e
      /\ \A f \in DOMAIN files \ {"report"} : files[f] = Artifact(e, f)
      /\ manifests[r] = Manifest(e, x.bound, SpecSeen(e), x.cases)
  BY <1>1 DEF Owns, Written, Holding
<1>4. \A f \in Required : f \in DOMAIN files /\ f # "report"
  BY CompleteNames, SMTT(60) DEF Complete
<1>5. /\ files["suite"].data = x.cases
      /\ files["runs"].data = RunsOf(results)
      /\ files["evaluations"].data = results
      /\ files["summary"].data = <<x.bound, x.inspected>>
  <2>1. \A f \in {"suite", "runs", "evaluations", "summary"} : files[f] = Artifact(e, f)
    BY <1>3, <1>4, CompleteNames
  <2> QED
    BY <2>1, ArtifactParts
<1>6. /\ x.cases \in Suites \ {<<>>}
      /\ x.bound \in Source /\ x.inspected \in Source
      /\ x.pc \in Captured /\ x.pc \in Seen /\ x.pc \in Holding
  BY <1>1, SMTT(60) DEF Placed, Planned, Holding, Captured, Seen
<1>7. Loadable(r)
  BY <1>2, <1>5, <1>6 DEF Loadable
<1> HIDE DEF results, files, x
<1>8. [i \in DOMAIN results |-> results[i].case] = x.cases
  <2>1. x.cases = [i \in DOMAIN x.cases |-> x.cases[i]]
    BY <1>6, SMTT(60) DEF Suites
  <2> QED
    BY <1>2, <2>1
<1>9. WholeRun(r)
  <2>1. \A f \in DOMAIN files \ {"report"} : files[f].by = e
    BY <1>3, ArtifactParts
  <2>2. manifests[r].cases = x.cases /\ manifests[r].source = x.bound
    BY <1>3 DEF Manifest
  <2>3. files["summary"].data[1] = x.bound
    BY <1>5
  <2> QED
    BY <1>3, <1>5, <1>8, <2>1, <2>2, <2>3 DEF WholeRun, files
<1>10. SeenRun(r)
  <2> DEFINE seen == {files["summary"].data[2]} \cup
                     {files["evaluations"].data[i].source :
                        i \in DOMAIN files["evaluations"].data}
  <2>0. dirs[r].owner = e /\ files["summary"].data[1] = x.bound
    BY <1>3, <1>5, SMTT(60)
  <2>1. SUFFICES ASSUME seen # {x.bound}
                 PROVE  x.span >= 2
    BY <2>0 DEF SeenRun, files, x
  <2>2. seen = {x.inspected} \cup {results[i].source : i \in DOMAIN results}
    BY <1>5
  <2>3. PICK source \in seen : source # x.bound
    BY <2>1, <2>2
  <2>4. \A i \in DOMAIN results : results[i] = x.indexed[i] /\ i \in DOMAIN x.indexed
                                  /\ results[i].source \in Source
    <3>1. DOMAIN x.indexed = DOMAIN x.cases
      BY <1>1 DEF Conducted, x
    <3>2. \A i \in DOMAIN results : results[i] \in ResultType
      BY <1>2
    <3> QED
      BY <1>2, <3>1, <3>2 DEF ResultType
  <2>5. Sight(e, source) /\ source \in Source
    BY <1>6, <2>2, <2>4 DEF Sight, x
  <2> QED
    BY <1>1, <1>6, <2>3, <2>5 DEF Counted, x
<1> QED
  BY <1>7, <1>9, <1>10 DEF x

LEMMA OwnersRunIsWholeThen ==
  (\A e \in Execution :
     TypeOK /\ Own(e) /\ exec[e].pc \in Writing => Published(exec[e].cmd.run))'
BY OwnersRunIsWhole, PTL

(* A run that is complete stays what it is: from its owner's state while   *)
(* it is written, and untouched afterwards.                                *)
LEMMA PublishedStep ==
  ASSUME SuiteInv, NEW e \in Execution, StepOf(e), TypeOK', Own(e)', NEW r \in RunId
  PROVE  Published(r)'
<1> SUFFICES ASSUME Complete(r)' PROVE Published(r)'
  BY DEF Published
<1>1. /\ TypeOK /\ Held(r) /\ Loadable(r) /\ Placed(e) /\ Owns(e)
      /\ Complete(r) => WholeRun(r) /\ SeenRun(r)
      /\ \A d \in Execution \ {e} : exec'[d] = exec[d]
  BY DEF SuiteInv, PublishedRunIsWhole, OnlyRevertedEditsUnseen, WholeRun, SeenRun, StepOf
<1>2. Held(r)'
  BY HeldStep
<1>3. /\ dirs'[r] # None
      /\ dirs'[r].owner \in Execution
      /\ Required \subseteq DOMAIN dirs'[r].files
  <2>1. dirs'[r] # None /\ Required \subseteq DOMAIN dirs'[r].files
    BY DEF Complete
  <2>2. dirs'[r] \in DirType
    BY <2>1 DEF TypeOK
  <2> QED
    BY <2>1, <2>2 DEF DirType
<1>4. PICK o \in Execution : o = dirs'[r].owner
  BY <1>3
<1>5. Own(o)'
  BY OthersStep
<1>6. CASE exec'[o].pc \in Writing
  <2>1. exec'[o].cmd.run = r
    BY <1>2, <1>3, <1>4, <1>6 DEF Held, Writing
  <2>2. Published(exec[o].cmd.run)'
    BY <1>5, <1>6, OwnersRunIsWholeThen
  <2> QED
    BY <2>1, <2>2, ZenonT(60) DEF Published, Loadable, WholeRun, SeenRun, Complete
<1>7. CASE exec'[o].pc \notin Writing
  <2>1. exec'[o].pc \in {"done", "failed", "crashed", "unreproduced"}
    <3>1. exec'[o].pc \in Holding => exec'[o].cmd.run = r
      BY <1>2, <1>3, <1>4 DEF Held, Holding, Writing
    <3>2. exec'[o].pc \notin Holding
      BY <1>3, <1>4, <1>5, <1>7, <3>1, CompleteNames DEF Own, Owns
    <3> QED
      BY <1>2, <1>3, <1>4, <3>2 DEF Held
  <2>2. Complete(r)
    <3>1. CASE dirs[r] # None /\ dirs[r].owner # e
      BY <1>3, <3>1, DirStays, CompleteNames DEF Stays, Complete
    <3>2. CASE dirs[r] # None /\ dirs[r].owner = e
      <4>1. exec[e].pc \in Holding /\ exec[e].cmd.run = r
        BY <1>1, <3>2 DEF Held, StepOf, Ended
      <4>2. CASE Leaves(e)
        BY <1>3, <4>2 DEF Leaves, Complete
      <4>3. CASE Releases(e)
        BY <1>1, <1>3, <4>1, <4>3, UnreservedEffect DEF Releases, TypeOK
      <4>4. CASE Writes(e)
        <5>1. dirs'[r].owner = dirs[r].owner
          BY <1>1, <4>1, <4>4, <3>2, DirParts DEF Writes, Put, TypeOK
        <5> QED
          BY <1>4, <3>2, <4>4, <5>1, <2>1 DEF Writes
      <4>5. CASE Emits(e)
        BY <1>4, <3>2, <4>5, <2>1 DEF Emits
      <4> QED
        BY <4>1, <4>2, <4>3, <4>4, <4>5
        DEF StepOf, Reserves, Reports, Minimizes, Holding, Writing
    <3>3. CASE dirs[r] = None
      <4>1. (\A q \in RunId : dirs[q] = None => dirs'[q] = None) \/ Reserves(e)
        <5>1. CASE Writes(e) \/ Reports(e)
          <6>1. exec[e].cmd.run \in RunId /\ dirs[exec[e].cmd.run] # None
            BY <1>1, <5>1, HolderPlaced
            DEF Writes, Reports, Owns, Holding, Writing, Complete, Reads, SuiteInv
          <6> QED
            BY <1>1, <5>1, <6>1 DEF Writes, Reports, Put, TypeOK
        <5>2. CASE Releases(e)
          <6>1. exec[e].cmd.run \in RunId
            BY <1>1, <5>2, HolderPlaced DEF Releases, Holding
          <6> QED
            BY <1>1, <5>2, <6>1, UnreservedEffect DEF Releases, TypeOK
        <5> QED
          BY <5>1, <5>2 DEF StepOf, Emits, Minimizes, Leaves
      <4>2. CASE Reserves(e)
        <5>1. exec[e].cmd.run \in RunId
          BY <1>1, <4>2, HolderPlaced DEF Reserves
        <5>2. dirs' = [dirs EXCEPT ![exec[e].cmd.run] = [owner |-> e, files |-> <<>>]]
          BY <4>2 DEF Reserves
        <5>3. r = exec[e].cmd.run
          BY <1>1, <1>3, <3>3, <5>1, <5>2 DEF TypeOK
        <5>4. dirs'[r].files = <<>>
          BY <1>1, <5>2, <5>3 DEF TypeOK
        <5> QED
          BY <1>3, <5>4, CompleteNames
      <4> QED
        BY <1>3, <3>3, <4>1, <4>2
    <3> QED
      BY <3>1, <3>2, <3>3
  <2>3. Stays(r)
    BY <2>2, PublishedStays
  <2>4. /\ \A f \in Required : dirs'[r].files[f] = dirs[r].files[f]
        /\ dirs'[r].owner = dirs[r].owner
        /\ manifests'[r] = manifests[r]
    BY <2>2, <2>3, StaysComplete
  <2>5. exec'[o].span = exec[o].span
    <3>1. CASE o # e
      BY <1>1, <3>1
    <3>2. CASE o = e
      <4>1. exec[e].pc \in Holding /\ exec[e].cmd.run = r
        BY <1>1, <1>4, <2>2, <2>4, <3>2 DEF Held, StepOf, Ended, Complete
      <4>2. DOMAIN dirs[r].files # {}
        BY <2>2, CompleteNames DEF Complete
      <4>3. exec[e].pc \in Writing
        BY <1>1, <4>1, <4>2 DEF Owns
      <4> QED
        BY <3>2, <4>3 DEF StepOf
    <3> QED
      BY <3>1, <3>2
  <2>6. DOMAIN dirs'[r].files \ {"report"} = DOMAIN dirs[r].files \ {"report"}
        /\ \A f \in DOMAIN dirs[r].files \ {"report"} : dirs'[r].files[f] = dirs[r].files[f]
    BY <2>3 DEF Stays
  <2>7. Loadable(r)'
    BY <1>1, <2>2, <2>4, CompleteNames DEF Loadable
  <2>8. WholeRun(r)'
    BY <1>1, <2>2, <2>4, <2>6, CompleteNames, SMTT(60) DEF WholeRun
  <2>9. SeenRun(r)'
    BY <1>1, <1>4, <2>2, <2>4, <2>5, CompleteNames, SMTT(60) DEF SeenRun
  <2> QED
    BY <2>7, <2>8, <2>9 DEF Published
<1> QED
  BY <1>6, <1>7

-----------------------------------------------------------------------------
(* What a step makes of its own execution's part of the invariant.         *)
LEMMA GoFields ==
  ASSUME TypeOK, NEW e \in Execution, NEW new, Go(e, new)
  PROVE  /\ exec'[e].pc = IF "pc" \in DOMAIN new THEN new["pc"] ELSE exec[e].pc
         /\ exec'[e].cmd = IF "cmd" \in DOMAIN new THEN new["cmd"] ELSE exec[e].cmd
         /\ exec'[e].manifest =
              IF "manifest" \in DOMAIN new THEN new["manifest"] ELSE exec[e].manifest
         /\ exec'[e].bound = IF "bound" \in DOMAIN new THEN new["bound"] ELSE exec[e].bound
         /\ exec'[e].since = IF "since" \in DOMAIN new THEN new["since"] ELSE exec[e].since
         /\ exec'[e].inspected =
              IF "inspected" \in DOMAIN new THEN new["inspected"] ELSE exec[e].inspected
         /\ exec'[e].cases = IF "cases" \in DOMAIN new THEN new["cases"] ELSE exec[e].cases
         /\ exec'[e].work = IF "work" \in DOMAIN new THEN new["work"] ELSE exec[e].work
         /\ exec'[e].indexed =
              IF "indexed" \in DOMAIN new THEN new["indexed"] ELSE exec[e].indexed
         /\ exec'[e].span = IF "span" \in DOMAIN new THEN new["span"] ELSE exec[e].span
         /\ exec'[e].written =
              IF "written" \in DOMAIN new THEN new["written"] ELSE exec[e].written
         /\ exec'[e].author =
              IF "author" \in DOMAIN new THEN new["author"] ELSE exec[e].author
         /\ exec'[e] = [f \in Fields |-> exec'[e][f]]
<1>1. exec'[e] = [f \in Fields |-> IF f \in DOMAIN new THEN new[f] ELSE exec[e][f]]
  BY GoEffect
<1> QED
  BY <1>1 DEF Fields

(* Execution e has the field values that an ExecType has.                  *)
FieldsTyped(x) ==
  /\ x.pc \in Pcs
  /\ x.cmd \in CommandType \cup {None}
  /\ x.manifest \in ManifestType \cup {None}
  /\ x.bound \in Source \cup {None}
  /\ x.since \in Nat
  /\ x.inspected \in Source \cup {None}
  /\ x.cases \in Seq(Scenario)
  /\ x.work \in Seq(WorkType \cup {None})
  /\ x.indexed \in IndexType
  /\ x.span \in Nat
  /\ x.written \in 0..Len(ArtifactOrder)
  /\ x.author \in Execution \cup {None}

LEMMA ExecTyped ==
  ASSUME NEW x
  PROVE  /\ x \in ExecType => FieldsTyped(x)
         /\ FieldsTyped(x) /\ x = [f \in Fields |-> x[f]] => x \in ExecType
BY DEF ExecType, FieldsTyped, Fields

(* An execution that neither holds a directory nor reads one.              *)
LEMMA Quiet ==
  ASSUME NEW e \in Execution, FieldsTyped(exec'[e]), exec'[e] = [f \in Fields |-> exec'[e][f]],
         exec'[e].pc \notin Holding \cup {"reading", "validating", "rendering", "invalid"},
         DOMAIN exec'[e].work = {}, Placed(e)', Counted(e)'
  PROVE  Own(e)'
<1>1. exec'[e] \in ExecType
  BY ExecTyped, SMTT(60)
<1>2. Conducted(e)' /\ Owns(e)' /\ Written(e)' /\ Unrecorded(e)' /\ Reads(e)'
  BY DEF Conducted, Owns, Written, Unrecorded, Reads, Holding, Writing
<1> QED
  BY <1>1, <1>2 DEF Own

LEMMA OwnParts ==
  ASSUME SuiteInv, NEW e \in Execution
  PROVE  /\ TypeOK
         /\ exec[e] \in ExecType
         /\ FieldsTyped(exec[e])
         /\ Placed(e) /\ Conducted(e) /\ Counted(e) /\ Owns(e) /\ Written(e)
         /\ Unrecorded(e) /\ Reads(e)
<1>1. exec[e] \in ExecType
  BY DEF SuiteInv, TypeOK
<1> QED
  BY <1>1, ExecTyped DEF SuiteInv

LEMMA EndOwn ==
  ASSUME SuiteInv, NEW e \in Execution, NEW how \in Ended \ {"invalid"}, End(e, how)
  PROVE  Own(e)'
<1>1. /\ exec'[e] = [Idle EXCEPT !.pc = how, !.span = exec[e].span]
      /\ exec[e].span \in Nat
  BY OwnParts, EndEffect DEF FieldsTyped
<1>2. /\ exec'[e] = [f \in Fields |-> exec'[e][f]]
      /\ exec'[e].pc = how /\ exec'[e].span \in Nat /\ exec'[e].written = 0
      /\ exec'[e].cmd = None /\ exec'[e].manifest = None /\ exec'[e].bound = None
      /\ exec'[e].since = 0 /\ exec'[e].inspected = None /\ exec'[e].cases = <<>>
      /\ exec'[e].work = <<>> /\ exec'[e].indexed = <<>> /\ exec'[e].author = None
  BY <1>1 DEF Idle, Fields
<1>3. /\ <<>> \in Seq(Scenario) /\ <<>> \in Seq(WorkType \cup {None})
      /\ <<>> \in IndexType
      /\ DOMAIN <<>> = {}
  <2>1. <<>> \in [{} -> ResultType]
    OBVIOUS
  <2>2. <<>> \in IndexType
    BY <2>1 DEF IndexType
  <2> QED
    BY <2>2
<1>4. 0 \in 0..Len(ArtifactOrder)
  BY CompleteNames
<1>5. FieldsTyped(exec'[e])
  <2>1. how \in Pcs
    BY DEF Pcs
  <2>2. exec'[e].cases \in Seq(Scenario)
    BY <1>2, <1>3
  <2>3. exec'[e].work \in Seq(WorkType \cup {None})
    BY <1>2, <1>3
  <2>4. exec'[e].indexed \in IndexType
    BY <1>2, <1>3
  <2>5. exec'[e].pc \in Pcs
    BY <1>2, <2>1
  <2>6. exec'[e].written \in 0..Len(ArtifactOrder)
    BY <1>2, <1>4
  <2> QED
    BY <1>2, <2>2, <2>3, <2>4, <2>5, <2>6 DEF FieldsTyped
<1>6. Placed(e)' /\ Counted(e)'
  BY <1>2 DEF Placed, Counted, Going, Captured, Seen, Planned, Holding, Writing,
              Shrinking, Reporting, Ended
<1> QED
  BY <1>2, <1>3, <1>5, <1>6, Quiet DEF Ended, Holding, Writing

(* The commands that are given, and that a verification has no shrink's id. *)
LEMMA Commands ==
  /\ \A c \in Command :
       /\ c \in CommandType
       /\ c.kind # "verify"
       /\ c.kind # "report" => c.run \in RunId /\ (c.kind = "shrink" <=> c.run \in ShrinkId)
       /\ c.kind \in {"replay", "shrink"} => c.from \in RunId
  /\ \A r \in RunId : VerifyId[r] \in RunId /\ VerifyId[r] \notin ShrinkId
<1>1. \A c \in Command : c \in CommandType /\ c.kind \in Kinds
  BY CommandAssumption DEF CommandType
<1>2. \A r \in RunId : VerifyId[r] \in RunId
  BY SuiteAssumption
<1> QED
  BY <1>1, <1>2, CommandAssumption DEF ShrinkId, Kinds

LEMMA BeginOwn ==
  ASSUME SuiteInv, NEW e \in Execution, Begin(e)
  PROVE  Own(e)'
<1>1. PICK c \in Command :
        Go(e, [cmd |-> c,
               pc |-> IF c.kind = "test" THEN "begun"
                      ELSE IF c.kind = "report" THEN "resolving" ELSE "loading"])
  BY DEF Begin
<1> DEFINE start == IF c.kind = "test" THEN "begun"
                    ELSE IF c.kind = "report" THEN "resolving" ELSE "loading"
           new == [cmd |-> c, pc |-> start]
<1>2. DOMAIN new = {"cmd", "pc"} /\ new["cmd"] = c /\ new["pc"] = start
  OBVIOUS
<1>3. Go(e, new)
  BY <1>1
<1> HIDE DEF new, start
<1>4. /\ exec'[e] = [f \in Fields |-> exec'[e][f]]
      /\ exec'[e].pc = start /\ exec'[e].cmd = c
      /\ exec'[e].manifest = exec[e].manifest /\ exec'[e].bound = exec[e].bound
      /\ exec'[e].since = exec[e].since /\ exec'[e].inspected = exec[e].inspected
      /\ exec'[e].cases = exec[e].cases /\ exec'[e].work = exec[e].work
      /\ exec'[e].indexed = exec[e].indexed /\ exec'[e].span = exec[e].span
      /\ exec'[e].written = exec[e].written /\ exec'[e].author = exec[e].author
  BY <1>2, <1>3, OwnParts, GoFields
<1>5. /\ FieldsTyped(exec[e]) /\ Placed(e) /\ Conducted(e) /\ exec[e].pc = "idle"
  BY OwnParts DEF Begin
<1>6. /\ start \in {"begun", "resolving", "loading"}
      /\ start = "begun" <=> c.kind = "test"
      /\ start = "resolving" <=> c.kind = "report"
  BY DEF start
<1>7. FieldsTyped(exec'[e])
  BY <1>4, <1>5, <1>6, Commands DEF FieldsTyped, Pcs, Going, Reporting
<1>8. exec[e].written = 0 /\ DOMAIN exec[e].work = {}
  BY <1>5 DEF Placed, Conducted, Holding, Writing
<1>9. /\ exec'[e].cmd \in CommandType
      /\ c.kind # "report" => c.run \in RunId /\ (c.kind = "shrink" <=> c.run \in ShrinkId)
      /\ c.kind \in {"replay", "shrink", "verify"} => c.from \in RunId /\ start = "loading"
      /\ c.kind \in {"test", "replay", "shrink", "report"}
  BY <1>4, <1>6, Commands DEF CommandType, Kinds
<1>10. Placed(e)'
  BY <1>4, <1>6, <1>8, <1>9
  DEF Placed, Going, Captured, Seen, Planned, Holding, Writing, Shrinking,
      Reporting, ShrinkId
<1>11. Counted(e)'
  BY <1>4, <1>6 DEF Counted, Captured, Seen, Planned, Holding, Writing, Shrinking
<1> QED
  BY <1>4, <1>6, <1>7, <1>8, <1>10, <1>11, Quiet DEF Holding, Writing

LEMMA LoadOwn ==
  ASSUME SuiteInv, NEW e \in Execution, Load(e)
  PROVE  Own(e)'
<1> DEFINE c == exec[e].cmd
           m == manifests[c.from]
           new == [pc |-> "begun", manifest |-> m]
<1>1. CASE End(e, "refused")
  BY <1>1, EndOwn DEF Ended
<1>2. CASE ~End(e, "refused")
  <2>1. m # None /\ Go(e, new) /\ exec[e].pc = "loading"
    BY <1>2 DEF Load
  <2>2. DOMAIN new = {"manifest", "pc"} /\ new["manifest"] = m /\ new["pc"] = "begun"
    OBVIOUS
  <2> HIDE DEF new, m
  <2>3. /\ exec'[e] = [f \in Fields |-> exec'[e][f]]
        /\ exec'[e].pc = "begun" /\ exec'[e].cmd = exec[e].cmd
        /\ exec'[e].manifest = m /\ exec'[e].bound = exec[e].bound
        /\ exec'[e].since = exec[e].since /\ exec'[e].inspected = exec[e].inspected
        /\ exec'[e].cases = exec[e].cases /\ exec'[e].work = exec[e].work
        /\ exec'[e].indexed = exec[e].indexed /\ exec'[e].span = exec[e].span
        /\ exec'[e].written = exec[e].written /\ exec'[e].author = exec[e].author
    BY <2>1, <2>2, OwnParts, GoFields
  <2>4. /\ FieldsTyped(exec[e]) /\ Placed(e) /\ Conducted(e)
        /\ manifests \in [RunId -> ManifestType \cup {None}]
    BY OwnParts DEF TypeOK
  <2>5. /\ c \in CommandType /\ c.kind \in Kinds /\ c.kind \notin {"report", "test"}
        /\ c.from \in RunId
    <3>1. c \in CommandType /\ c.kind \notin {"report", "test"}
      BY <2>1, <2>4 DEF Placed, Going, Reporting
    <3> QED
      BY <2>1, <2>4, <3>1 DEF Placed, Going, CommandType, Kinds
  <2>6. m \in ManifestType
    BY <2>1, <2>4, <2>5 DEF m
  <2>7. exec[e].written = 0 /\ DOMAIN exec[e].work = {}
    BY <2>1, <2>4 DEF Placed, Conducted, Holding, Writing
  <2>8. FieldsTyped(exec'[e])
    BY <2>3, <2>4, <2>6 DEF FieldsTyped, Pcs, Going
  <2>9. Placed(e)'
    BY <2>1, <2>3, <2>4, <2>5, <2>6, <2>7
    DEF Placed, Going, Captured, Seen, Planned, Holding, Writing, Shrinking,
        Reporting, ShrinkId
  <2>10. Counted(e)'
    BY <2>3 DEF Counted, Captured, Seen, Planned, Holding, Writing, Shrinking
  <2> QED
    BY <2>3, <2>7, <2>8, <2>9, <2>10, Quiet DEF Holding, Writing
<1> QED
  BY <1>1, <1>2

LEMMA CaptureOwn ==
  ASSUME SuiteInv, NEW e \in Execution, Capture(e)
  PROVE  Own(e)'
<1> DEFINE to == IF exec[e].cmd.kind = "test" THEN "captured" ELSE "bound"
           new == [bound |-> tree, since |-> edits, pc |-> to]
<1>1. CASE End(e, "refused")
  BY <1>1, EndOwn DEF Ended
<1>2. CASE ~End(e, "refused")
  <2>1. Go(e, new) /\ exec[e].pc = "begun" /\ UNCHANGED <<tree, edits>>
    BY <1>2 DEF Capture, Outside
  <2>2. /\ DOMAIN new = {"bound", "since", "pc"}
        /\ new["bound"] = tree /\ new["since"] = edits /\ new["pc"] = to
    OBVIOUS
  <2> HIDE DEF new
  <2>3. /\ exec'[e] = [f \in Fields |-> exec'[e][f]]
        /\ exec'[e].pc = to /\ exec'[e].cmd = exec[e].cmd
        /\ exec'[e].manifest = exec[e].manifest /\ exec'[e].bound = tree
        /\ exec'[e].since = edits /\ exec'[e].inspected = exec[e].inspected
        /\ exec'[e].cases = exec[e].cases /\ exec'[e].work = exec[e].work
        /\ exec'[e].indexed = exec[e].indexed /\ exec'[e].span = exec[e].span
        /\ exec'[e].written = exec[e].written /\ exec'[e].author = exec[e].author
    BY <2>1, <2>2, OwnParts, GoFields
  <2>4. /\ FieldsTyped(exec[e]) /\ Placed(e) /\ Conducted(e)
        /\ tree \in Source /\ edits \in Nat
        /\ to \in {"captured", "bound"}
    BY OwnParts DEF TypeOK
  <2>5. exec[e].written = 0 /\ DOMAIN exec[e].work = {}
    BY <2>1, <2>4 DEF Placed, Conducted, Holding, Writing
  <2>6. FieldsTyped(exec'[e])
    BY <2>3, <2>4 DEF FieldsTyped, Pcs, Going, Captured
  <2>7. Placed(e)'
    BY <2>1, <2>3, <2>4, <2>5
    DEF Placed, Going, Captured, Seen, Planned, Holding, Writing, Shrinking,
        Reporting, ShrinkId
  <2>8. Counted(e)'
    BY <2>1, <2>3, <2>4
    DEF Counted, Sight, Captured, Seen, Planned, Holding, Writing, Shrinking
  <2> QED
    BY <2>3, <2>4, <2>5, <2>6, <2>7, <2>8, Quiet DEF Holding, Writing
<1> QED
  BY <1>1, <1>2

(* Going on to another place, with nothing else changed.                   *)
LEMMA AtFields ==
  ASSUME SuiteInv, NEW e \in Execution, NEW where \in Pcs, At(e, where)
  PROVE  /\ exec'[e] = [f \in Fields |-> exec'[e][f]]
         /\ exec'[e].pc = where
         /\ \A f \in Fields \ {"pc"} : exec'[e][f] = exec[e][f]
         /\ FieldsTyped(exec'[e])
<1>1. exec'[e] = [f \in Fields |-> IF f = "pc" THEN where ELSE exec[e][f]]
  BY OwnParts, AtEffect
<1>2. FieldsTyped(exec[e])
  BY OwnParts
<1>3. /\ exec'[e] = [f \in Fields |-> exec'[e][f]]
      /\ exec'[e].pc = where
      /\ \A f \in Fields \ {"pc"} : exec'[e][f] = exec[e][f]
  BY <1>1 DEF Fields
<1>4. FieldsTyped(exec'[e])
  BY <1>2, <1>3 DEF FieldsTyped, Fields
<1> QED
  BY <1>3, <1>4

LEMMA VerifyOwn ==
  ASSUME SuiteInv, NEW e \in Execution,
         \/ Verify(e, "bound", "captured")
         \/ Verify(e, "prepared", "verified")
         \/ Verify(e, "searched", "minimized")
  PROVE  Own(e)'
<1>1. CASE End(e, "refused")
  BY <1>1, EndOwn DEF Ended
<1>2. CASE ~End(e, "refused")
  <2>1. PICK to \in {"captured", "verified", "minimized"} :
          /\ At(e, to)
          /\ UNCHANGED <<tree, edits>>
          /\ to = "captured" => exec[e].pc = "bound"
          /\ to = "verified" => exec[e].pc = "prepared"
          /\ to = "minimized" => exec[e].pc = "searched"
    BY <1>2 DEF Verify, Outside
  <2>2. to \in Pcs
    BY DEF Pcs, Going, Captured, Seen, Planned, Shrinking
  <2>3. /\ exec'[e] = [f \in Fields |-> exec'[e][f]]
        /\ exec'[e].pc = to
        /\ \A f \in Fields \ {"pc"} : exec'[e][f] = exec[e][f]
        /\ FieldsTyped(exec'[e])
    BY <2>1, <2>2, AtFields
  <2>4. /\ exec'[e].cmd = exec[e].cmd /\ exec'[e].manifest = exec[e].manifest
        /\ exec'[e].bound = exec[e].bound /\ exec'[e].since = exec[e].since
        /\ exec'[e].inspected = exec[e].inspected /\ exec'[e].cases = exec[e].cases
        /\ exec'[e].work = exec[e].work /\ exec'[e].indexed = exec[e].indexed
        /\ exec'[e].written = exec[e].written
    BY <2>3 DEF Fields
  <2>5. Placed(e) /\ Conducted(e) /\ Counted(e)
    BY OwnParts
  <2>6. exec[e].written = 0 /\ DOMAIN exec[e].work = {}
    BY <2>1, <2>5 DEF Placed, Conducted, Holding, Writing
  <2>7. Placed(e)'
    BY <2>1, <2>3, <2>4, <2>5, <2>6
    DEF Placed, Going, Captured, Seen, Planned, Holding, Writing, Shrinking,
        Reporting, ShrinkId
  <2>8. Counted(e)'
    BY <2>1, <2>3, <2>4, <2>5
    DEF Counted, Sight, Captured, Seen, Planned, Holding, Writing, Shrinking
  <2> QED
    BY <2>3, <2>4, <2>6, <2>7, <2>8, Quiet DEF Holding, Writing
<1> QED
  BY <1>1, <1>2

LEMMA InspectOwn ==
  ASSUME SuiteInv, NEW e \in Execution, Inspect(e)
  PROVE  Own(e)'
<1> DEFINE new == [pc |-> "inspected", inspected |-> tree]
<1>1. CASE End(e, "refused")
  BY <1>1, EndOwn DEF Ended
<1>2. CASE ~End(e, "refused")
  <2>1. Go(e, new) /\ exec[e].pc = "captured" /\ UNCHANGED <<tree, edits>>
    BY <1>2 DEF Inspect, Outside
  <2>2. /\ DOMAIN new = {"inspected", "pc"}
        /\ new["inspected"] = tree /\ new["pc"] = "inspected"
    OBVIOUS
  <2> HIDE DEF new
  <2>3. /\ exec'[e] = [f \in Fields |-> exec'[e][f]]
        /\ exec'[e].pc = "inspected" /\ exec'[e].cmd = exec[e].cmd
        /\ exec'[e].manifest = exec[e].manifest /\ exec'[e].bound = exec[e].bound
        /\ exec'[e].since = exec[e].since /\ exec'[e].inspected = tree
        /\ exec'[e].cases = exec[e].cases /\ exec'[e].work = exec[e].work
        /\ exec'[e].indexed = exec[e].indexed /\ exec'[e].span = exec[e].span
        /\ exec'[e].written = exec[e].written /\ exec'[e].author = exec[e].author
    BY <2>1, <2>2, OwnParts, GoFields
  <2>4. /\ FieldsTyped(exec[e]) /\ Placed(e) /\ Conducted(e) /\ Counted(e)
        /\ tree \in Source /\ edits \in Nat
    BY OwnParts DEF TypeOK
  <2>5. exec[e].written = 0 /\ DOMAIN exec[e].work = {}
    BY <2>1, <2>4 DEF Placed, Conducted, Holding, Writing
  <2>6. FieldsTyped(exec'[e])
    BY <2>3, <2>4 DEF FieldsTyped, Pcs, Going, Captured, Seen
  <2>7. Placed(e)'
    BY <2>1, <2>3, <2>4, <2>5
    DEF Placed, Going, Captured, Seen, Planned, Holding, Writing, Shrinking,
        Reporting, ShrinkId
  <2>8. Counted(e)'
    BY <2>1, <2>3, <2>4
    DEF Counted, Sight, Captured, Seen, Planned, Holding, Writing, Shrinking
  <2> QED
    BY <2>3, <2>5, <2>6, <2>7, <2>8, Quiet DEF Holding, Writing
<1> QED
  BY <1>1, <1>2

(* Planning cases, be they selected, a manifest's or a shrunk one.         *)
LEMMA PlanOwn ==
  ASSUME SuiteInv, NEW e \in Execution, NEW s \in Suites \ {<<>>},
         NEW to \in {"prepared", "searched"}, Go(e, [pc |-> to, cases |-> s]),
         to = "prepared" => exec[e].pc = "inspected" /\ exec[e].cmd.kind # "shrink",
         to = "searched" => exec[e].pc = "searching",
         UNCHANGED <<tree, edits>>
  PROVE  Own(e)'
<1> DEFINE new == [pc |-> to, cases |-> s]
<1>1. /\ DOMAIN new = {"cases", "pc"} /\ new["cases"] = s /\ new["pc"] = to
      /\ Go(e, new)
  OBVIOUS
<1> HIDE DEF new
<1>2. /\ exec'[e] = [f \in Fields |-> exec'[e][f]]
      /\ exec'[e].pc = to /\ exec'[e].cmd = exec[e].cmd
      /\ exec'[e].manifest = exec[e].manifest /\ exec'[e].bound = exec[e].bound
      /\ exec'[e].since = exec[e].since /\ exec'[e].inspected = exec[e].inspected
      /\ exec'[e].cases = s /\ exec'[e].work = exec[e].work
      /\ exec'[e].indexed = exec[e].indexed /\ exec'[e].span = exec[e].span
      /\ exec'[e].written = exec[e].written /\ exec'[e].author = exec[e].author
  BY <1>1, OwnParts, GoFields
<1>3. /\ FieldsTyped(exec[e]) /\ Placed(e) /\ Conducted(e) /\ Counted(e)
      /\ s \in Seq(Scenario)
  BY OwnParts DEF Suites
<1>4. exec[e].written = 0 /\ DOMAIN exec[e].work = {}
  BY <1>3 DEF Placed, Conducted, Holding, Writing
<1>5. FieldsTyped(exec'[e])
  BY <1>2, <1>3 DEF FieldsTyped, Pcs, Going, Captured, Seen, Planned, Shrinking
<1>6. Placed(e)'
  BY <1>2, <1>3, <1>4
  DEF Placed, Going, Captured, Seen, Planned, Holding, Writing, Shrinking,
      Reporting, ShrinkId
<1>7. Counted(e)'
  BY <1>2, <1>3
  DEF Counted, Sight, Captured, Seen, Planned, Holding, Writing, Shrinking
<1> QED
  BY <1>2, <1>4, <1>5, <1>6, <1>7, Quiet DEF Holding, Writing

LEMMA PrepareTestOwn ==
  ASSUME SuiteInv, NEW e \in Execution, PrepareTest(e)
  PROVE  Own(e)'
<1> DEFINE valid == CasesThatLint(exec[e].cmd.suite, SpecSeen(e))
<1>1. CASE End(e, "refused")
  BY <1>1, EndOwn DEF Ended
<1>2. CASE ~End(e, "refused")
  <2>1. /\ exec[e].pc = "inspected" /\ exec[e].cmd.kind = "test"
        /\ valid # <<>> /\ UNCHANGED <<tree, edits>>
    BY <1>2 DEF PrepareTest, Outside
  <2>2. PICK kept \in NonemptyParts(valid) \cup {valid} :
          Go(e, [pc |-> "prepared", cases |-> kept])
    BY <1>2 DEF PrepareTest
  <2>3. exec[e].cmd.suite \in Suites
    <3>1. exec[e].cmd \in CommandType
      BY <2>1, OwnParts DEF Placed, Going, Captured, Seen
    <3> QED
      BY <3>1 DEF CommandType
  <2>4. valid \in Suites
    BY <2>3, KeptSuite DEF CasesThatLint
  <2> HIDE DEF valid
  <2>5. kept \in Suites \ {<<>>}
    BY <2>1, <2>2, <2>4, KeptSuite DEF NonemptyParts
  <2> QED
    BY <2>1, <2>2, <2>5, PlanOwn
<1> QED
  BY <1>1, <1>2

LEMMA PrepareReplayOwn ==
  ASSUME SuiteInv, NEW e \in Execution, PrepareReplay(e)
  PROVE  Own(e)'
<1> DEFINE m == exec[e].manifest
<1>1. CASE End(e, "refused")
  BY <1>1, EndOwn DEF Ended
<1>2. CASE ~End(e, "refused")
  <2>1. /\ exec[e].pc = "inspected" /\ exec[e].cmd.kind \in {"replay", "verify"}
        /\ Go(e, [pc |-> "prepared", cases |-> m.cases]) /\ UNCHANGED <<tree, edits>>
    BY <1>2 DEF PrepareReplay, Outside
  <2>2. m \in ManifestType
    BY <2>1, OwnParts DEF Placed, Going, Captured, Seen
  <2>3. m.cases \in Suites \ {<<>>}
    BY <2>2 DEF ManifestType
  <2> QED
    BY <2>1, <2>3, PlanOwn
<1> QED
  BY <1>1, <1>2

LEMMA SearchOwn ==
  ASSUME SuiteInv, NEW e \in Execution, Search(e)
  PROVE  Own(e)'
<1> DEFINE m == exec[e].manifest
<1>1. CASE End(e, "refused")
  BY <1>1, EndOwn DEF Ended
<1>2. CASE ~End(e, "refused")
  <2>1. exec[e].pc = "searching" /\ UNCHANGED <<tree, edits>>
    BY <1>2 DEF Search, Outside
  <2>2. PICK i \in DOMAIN m.cases :
          Go(e, [pc |-> "searched", cases |-> <<Smaller[m.cases[i]]>>])
    BY <1>2 DEF Search
  <2>3. m \in ManifestType
    BY <2>1, OwnParts DEF Placed, Going, Captured, Seen, Shrinking
  <2>4. m.cases \in Seq(Scenario)
    BY <2>3 DEF ManifestType, Suites
  <2>5. Smaller[m.cases[i]] \in Scenario
    BY <2>2, <2>4, SuiteAssumption
  <2>6. PICK c \in Scenario : c = Smaller[m.cases[i]]
    BY <2>5
  <2>7. <<c>> \in Suites \ {<<>>}
    BY DEF Suites
  <2> QED
    BY <2>1, <2>2, <2>6, <2>7, PlanOwn
<1> QED
  BY <1>1, <1>2

LEMMA PrepareShrinkOwn ==
  ASSUME SuiteInv, NEW e \in Execution, PrepareShrink(e)
  PROVE  Own(e)'
<1>1. CASE End(e, "refused")
  BY <1>1, EndOwn DEF Ended
<1>2. CASE ~End(e, "refused")
  <2>1. /\ exec[e].pc = "inspected" /\ exec[e].cmd.kind = "shrink"
        /\ At(e, "searching") /\ UNCHANGED <<tree, edits>>
    BY <1>2 DEF PrepareShrink, Outside
  <2>2. "searching" \in Pcs
    BY DEF Pcs, Going, Captured, Seen, Shrinking
  <2>3. /\ exec'[e] = [f \in Fields |-> exec'[e][f]]
        /\ exec'[e].pc = "searching"
        /\ \A f \in Fields \ {"pc"} : exec'[e][f] = exec[e][f]
        /\ FieldsTyped(exec'[e])
    BY <2>1, <2>2, AtFields
  <2>4. /\ exec'[e].cmd = exec[e].cmd /\ exec'[e].manifest = exec[e].manifest
        /\ exec'[e].bound = exec[e].bound /\ exec'[e].since = exec[e].since
        /\ exec'[e].inspected = exec[e].inspected /\ exec'[e].cases = exec[e].cases
        /\ exec'[e].work = exec[e].work /\ exec'[e].indexed = exec[e].indexed
        /\ exec'[e].written = exec[e].written
    BY <2>3 DEF Fields
  <2>5. Placed(e) /\ Conducted(e) /\ Counted(e)
    BY OwnParts
  <2>6. exec[e].written = 0 /\ DOMAIN exec[e].work = {}
    BY <2>1, <2>5 DEF Placed, Conducted, Holding, Writing
  <2>7. Placed(e)'
    BY <2>1, <2>3, <2>4, <2>5, <2>6
    DEF Placed, Going, Captured, Seen, Planned, Holding, Writing, Shrinking,
        Reporting, ShrinkId
  <2>8. Counted(e)'
    BY <2>1, <2>3, <2>4, <2>5
    DEF Counted, Sight, Captured, Seen, Planned, Holding, Writing, Shrinking
  <2> QED
    BY <2>3, <2>4, <2>6, <2>7, <2>8, Quiet DEF Holding, Writing
<1> QED
  BY <1>1, <1>2

(* The verification of a shrink is an execution of its own.                *)
LEMMA WriteMinimizedOwn ==
  ASSUME SuiteInv, NEW e \in Execution, WriteMinimized(e)
  PROVE  Own(e)'
<1> DEFINE c == exec[e].cmd
           verify == [c EXCEPT !.kind = "verify", !.run = VerifyId[c.run], !.from = c.run]
           new == [pc |-> "loading", cmd |-> verify]
<1>1. CASE End(e, "refused")
  BY <1>1, EndOwn DEF Ended
<1>2. CASE ~End(e, "refused")
  <2>1. Go(e, new) /\ exec[e].pc = "minimized"
    BY <1>2 DEF WriteMinimized
  <2>2. DOMAIN new = {"cmd", "pc"} /\ new["cmd"] = verify /\ new["pc"] = "loading"
    OBVIOUS
  <2>3. /\ FieldsTyped(exec[e]) /\ Placed(e) /\ Conducted(e)
    BY OwnParts
  <2>4. c \in CommandType /\ c.run \in RunId
    BY <2>1, <2>3, HolderPlaced DEF Placed, Going, Captured, Seen, Shrinking
  <2>5. VerifyId[c.run] \in RunId /\ VerifyId[c.run] \notin ShrinkId
    BY <2>4, Commands
  <2>6. /\ verify \in CommandType
        /\ verify.kind = "verify" /\ verify.from = c.run /\ verify.run = VerifyId[c.run]
    BY <2>4, <2>5 DEF CommandType, Kinds
  <2> HIDE DEF new, verify
  <2>7. /\ exec'[e] = [f \in Fields |-> exec'[e][f]]
        /\ exec'[e].pc = "loading" /\ exec'[e].cmd = verify
        /\ exec'[e].manifest = exec[e].manifest /\ exec'[e].bound = exec[e].bound
        /\ exec'[e].since = exec[e].since /\ exec'[e].inspected = exec[e].inspected
        /\ exec'[e].cases = exec[e].cases /\ exec'[e].work = exec[e].work
        /\ exec'[e].indexed = exec[e].indexed /\ exec'[e].span = exec[e].span
        /\ exec'[e].written = exec[e].written /\ exec'[e].author = exec[e].author
    BY <2>1, <2>2, OwnParts, GoFields
  <2>8. exec[e].written = 0 /\ DOMAIN exec[e].work = {}
    BY <2>1, <2>3 DEF Placed, Conducted, Holding, Writing
  <2>9. FieldsTyped(exec'[e])
    BY <2>3, <2>6, <2>7 DEF FieldsTyped, Pcs, Going
  <2>10. Placed(e)'
    BY <2>4, <2>5, <2>6, <2>7, <2>8
    DEF Placed, Going, Captured, Seen, Planned, Holding, Writing, Shrinking,
        Reporting, ShrinkId
  <2>11. Counted(e)'
    BY <2>7 DEF Counted, Captured, Seen, Planned, Holding, Writing, Shrinking
  <2> QED
    BY <2>7, <2>8, <2>9, <2>10, <2>11, Quiet DEF Holding, Writing
<1> QED
  BY <1>1, <1>2

(* Reports: what is resolved is a run id, and what is read is a run that   *)
(* is complete, as its author wrote it.                                    *)
LEMMA ReportingOwn ==
  ASSUME SuiteInv, NEW e \in Execution, exec'[e] = [f \in Fields |-> exec'[e][f]],
         FieldsTyped(exec'[e]), exec[e].pc \in Reporting,
         exec'[e].pc \in Reporting \ {"resolving"},
         exec'[e].cmd \in CommandType, exec'[e].cmd.kind = "report",
         exec'[e].cmd.run \in RunId, exec'[e].work = exec[e].work,
         exec'[e].written = exec[e].written, Reads(e)'
  PROVE  Own(e)'
<1>1. Placed(e) /\ Conducted(e)
  BY OwnParts
<1>2. exec[e].written = 0 /\ DOMAIN exec[e].work = {}
  BY <1>1 DEF Placed, Conducted, Holding, Writing, Reporting
<1>3. Placed(e)'
  BY <1>2 DEF Placed, Going, Captured, Seen, Planned, Holding, Writing, Shrinking, Reporting
<1>4. /\ Conducted(e)' /\ Counted(e)' /\ Owns(e)' /\ Written(e)' /\ Unrecorded(e)'
  BY <1>2 DEF Conducted, Counted, Owns, Written, Unrecorded, Captured, Seen, Planned,
              Holding, Writing, Shrinking, Reporting
<1>5. exec'[e] \in ExecType
  BY ExecTyped
<1> QED
  BY <1>3, <1>4, <1>5 DEF Own

LEMMA ResolveOwn ==
  ASSUME SuiteInv, NEW e \in Execution, Resolve(e)
  PROVE  Own(e)'
<1>1. CASE End(e, "refused")
  BY <1>1, EndOwn DEF Ended
<1>2. CASE ~End(e, "refused")
  <2>1. /\ FieldsTyped(exec[e]) /\ Placed(e) /\ exec[e].pc = "resolving"
        /\ index \in Seq(RunId)
    BY OwnParts DEF Resolve, TypeOK
  <2>2. exec[e].cmd \in CommandType /\ exec[e].cmd.kind = "report"
        /\ exec[e].cmd.run \in RunId \cup {None}
    <3>1. exec[e].cmd \in CommandType /\ exec[e].cmd.kind = "report"
      BY <2>1 DEF Placed, Going, Reporting
    <3> QED
      BY <3>1 DEF CommandType
  <2>3. "locating" \in Pcs /\ exec[e].pc \in Reporting
    BY <2>1 DEF Pcs, Going, Reporting
  <2>4. CASE At(e, "locating") /\ exec[e].cmd.run # None
    <3>1. /\ exec'[e] = [f \in Fields |-> exec'[e][f]]
          /\ exec'[e].pc = "locating"
          /\ \A f \in Fields \ {"pc"} : exec'[e][f] = exec[e][f]
          /\ FieldsTyped(exec'[e])
      BY <2>3, <2>4, AtFields
    <3>2. /\ exec'[e].cmd = exec[e].cmd /\ exec'[e].work = exec[e].work
          /\ exec'[e].written = exec[e].written
      BY <3>1 DEF Fields
    <3>3. Reads(e)'
      BY <3>1 DEF Reads
    <3> QED
      BY <2>2, <2>3, <2>4, <3>1, <3>2, <3>3, ReportingOwn DEF Reporting
  <2>5. CASE \E r \in RunId : Go(e, [pc |-> "locating", cmd |-> [exec[e].cmd EXCEPT !.run = r]])
    <3>1. PICK r \in RunId : Go(e, [pc |-> "locating", cmd |-> [exec[e].cmd EXCEPT !.run = r]])
      BY <2>5
    <3> DEFINE c == [exec[e].cmd EXCEPT !.run = r]
               new == [pc |-> "locating", cmd |-> c]
    <3>2. c \in CommandType /\ c.kind = "report" /\ c.run = r
      BY <2>2 DEF CommandType
    <3>3. /\ DOMAIN new = {"cmd", "pc"} /\ new["cmd"] = c /\ new["pc"] = "locating"
          /\ Go(e, new)
      BY <3>1
    <3> HIDE DEF c, new
    <3>4. /\ exec'[e] = [f \in Fields |-> exec'[e][f]]
          /\ exec'[e].pc = "locating" /\ exec'[e].cmd = c
          /\ exec'[e].manifest = exec[e].manifest /\ exec'[e].bound = exec[e].bound
          /\ exec'[e].since = exec[e].since /\ exec'[e].inspected = exec[e].inspected
          /\ exec'[e].cases = exec[e].cases /\ exec'[e].work = exec[e].work
          /\ exec'[e].indexed = exec[e].indexed /\ exec'[e].span = exec[e].span
          /\ exec'[e].written = exec[e].written /\ exec'[e].author = exec[e].author
      BY <3>3, OwnParts, GoFields
    <3>5. FieldsTyped(exec'[e])
      BY <2>1, <2>3, <3>2, <3>4 DEF FieldsTyped
    <3>6. Reads(e)'
      BY <3>4 DEF Reads
    <3> QED
      BY <2>3, <3>2, <3>4, <3>5, <3>6, ReportingOwn DEF Reporting
  <2> DEFINE complete == {r \in RunId : Complete(r)}
             latest == CHOOSE r \in complete : \A q \in complete : q <= r
  <2>6. complete # {} => latest \in RunId
    <3>1. complete \subseteq RunId /\ complete \in SUBSET Nat /\ IsFiniteSet(complete)
      BY SuiteAssumption, FS_Subset
    <3> QED
      BY <3>1, LargestNumber
  <2>7. index # <<>> => index[Len(index)] \in RunId
    BY <2>1
  <2>8. \/ At(e, "locating") /\ exec[e].cmd.run # None
        \/ /\ index # <<>>
           /\ Go(e, [pc |-> "locating", cmd |-> [exec[e].cmd EXCEPT !.run = index[Len(index)]]])
        \/ /\ complete # {}
           /\ Go(e, [pc |-> "locating", cmd |-> [exec[e].cmd EXCEPT !.run = latest]])
    BY <1>2 DEF Resolve
  <2> HIDE DEF latest, complete
  <2> QED
    BY <2>4, <2>5, <2>6, <2>7, <2>8
<1> QED
  BY <1>1, <1>2

LEMMA LocateOwn ==
  ASSUME SuiteInv, NEW e \in Execution, Locate(e)
  PROVE  Own(e)'
<1>1. CASE End(e, "refused")
  BY <1>1, EndOwn DEF Ended
<1>2. CASE ~End(e, "refused")
  <2>1. /\ exec[e].pc = "locating" /\ Complete(exec[e].cmd.run)
        /\ At(e, "reading") /\ UNCHANGED dirs
    BY <1>2 DEF Locate, Disk
  <2>2. "reading" \in Pcs /\ exec[e].pc \in Reporting
    BY <2>1 DEF Pcs, Going, Reporting
  <2>3. /\ exec'[e] = [f \in Fields |-> exec'[e][f]]
        /\ exec'[e].pc = "reading"
        /\ \A f \in Fields \ {"pc"} : exec'[e][f] = exec[e][f]
        /\ FieldsTyped(exec'[e])
    BY <2>1, <2>2, AtFields
  <2>4. /\ exec'[e].cmd = exec[e].cmd /\ exec'[e].work = exec[e].work
        /\ exec'[e].written = exec[e].written
    BY <2>3 DEF Fields
  <2>5. /\ exec[e].cmd \in CommandType /\ exec[e].cmd.kind = "report"
        /\ exec[e].cmd.run \in RunId
    BY <2>1, OwnParts DEF Placed, Going, Reporting
  <2>6. Reads(e)'
    BY <2>1, <2>3, <2>4 DEF Reads, Complete
  <2> QED
    BY <2>2, <2>3, <2>4, <2>5, <2>6, ReportingOwn DEF Reporting
<1> QED
  BY <1>1, <1>2

(* What is complete is whole.                                              *)
LEMMA CompleteIsWhole ==
  ASSUME SuiteInv, NEW r \in RunId, Complete(r)
  PROVE  /\ Loadable(r) /\ WholeRun(r)
         /\ dirs[r].owner \in Execution
         /\ \A f \in Required : dirs[r].files[f].by = dirs[r].owner
<1>1. TypeOK /\ Loadable(r) /\ WholeRun(r) /\ dirs[r] # None
  BY DEF SuiteInv, PublishedRunIsWhole, WholeRun, Complete
<1>2. dirs[r].owner \in Execution
  BY <1>1, DirParts
<1>3. \A f \in Required : dirs[r].files[f].by = dirs[r].owner
  BY <1>1, CompleteNames DEF WholeRun, Complete
<1> QED
  BY <1>1, <1>2, <1>3

LEMMA ReadSuiteOwn ==
  ASSUME SuiteInv, NEW e \in Execution, ReadSuite(e)
  PROVE  Own(e)'
<1> DEFINE file == dirs[exec[e].cmd.run].files["suite"]
           new == [pc |-> "validating", cases |-> file.data, author |-> file.by]
<1>1. /\ exec[e].pc = "reading" /\ Go(e, new) /\ UNCHANGED dirs
  BY DEF ReadSuite, Disk
<1>2. /\ DOMAIN new = {"cases", "author", "pc"}
      /\ new["cases"] = file.data /\ new["author"] = file.by /\ new["pc"] = "validating"
  OBVIOUS
<1> HIDE DEF new
<1>3. /\ exec'[e] = [f \in Fields |-> exec'[e][f]]
      /\ exec'[e].pc = "validating" /\ exec'[e].cmd = exec[e].cmd
      /\ exec'[e].manifest = exec[e].manifest /\ exec'[e].bound = exec[e].bound
      /\ exec'[e].since = exec[e].since /\ exec'[e].inspected = exec[e].inspected
      /\ exec'[e].cases = file.data /\ exec'[e].work = exec[e].work
      /\ exec'[e].indexed = exec[e].indexed /\ exec'[e].span = exec[e].span
      /\ exec'[e].written = exec[e].written /\ exec'[e].author = file.by
  BY <1>1, <1>2, OwnParts, GoFields
<1>4. /\ FieldsTyped(exec[e]) /\ Placed(e) /\ Reads(e)
      /\ exec[e].cmd \in CommandType /\ exec[e].cmd.kind = "report"
      /\ exec[e].cmd.run \in RunId /\ Complete(exec[e].cmd.run)
  BY <1>1, OwnParts DEF Placed, Reads, Going, Reporting
<1>5. PICK r \in RunId : r = exec[e].cmd.run
  BY <1>4
<1>6. /\ file.data \in Seq(Scenario)
      /\ file.by = dirs[r].owner /\ file.by \in Execution
  BY <1>4, <1>5, CompleteIsWhole, CompleteNames DEF Loadable, Suites
<1>7. FieldsTyped(exec'[e])
  BY <1>3, <1>4, <1>6, SMTT(60) DEF FieldsTyped, Pcs, Going, Reporting
<1>8. Reads(e)'
  BY <1>1, <1>3, <1>4, <1>5, <1>6 DEF Reads, Complete
<1> QED
  BY <1>1, <1>3, <1>4, <1>7, <1>8, ReportingOwn DEF Reporting

LEMMA SameInterval ==
  ASSUME NEW a \in Nat, NEW b \in Nat, 1..a = 1..b
  PROVE  a = b
<1>1. a = 0 \/ a \in 1..b
  OBVIOUS
<1>2. b = 0 \/ b \in 1..a
  OBVIOUS
<1> QED
  BY <1>1, <1>2

(* The binding checks accept a run that is complete: its evaluations are   *)
(* one for each case, and its runs are among them.                         *)
LEMMA CompleteIsBindable ==
  ASSUME SuiteInv, NEW r \in RunId, Complete(r)
  PROVE  LET files == dirs[r].files
         IN Bindable(files["suite"].data, files["evaluations"].data, files["runs"].data)
<1> DEFINE suite == dirs[r].files["suite"].data
           results == dirs[r].files["evaluations"].data
           runs == dirs[r].files["runs"].data
<1>1. /\ suite \in Suites \ {<<>>}
      /\ results \in Seq(ResultType)
      /\ [i \in DOMAIN results |-> results[i].case] = suite
      /\ runs = RunsOf(results)
  BY CompleteIsWhole DEF Loadable, WholeRun
<1> HIDE DEF suite, results, runs
<1>2. /\ suite \in Seq(Scenario) /\ suite # <<>>
      /\ \A i, j \in DOMAIN suite : suite[i] = suite[j] => i = j
      /\ DOMAIN results = DOMAIN suite
      /\ \A i \in DOMAIN results : results[i].case = suite[i]
  BY <1>1 DEF Suites
<1>3. /\ runs \in Seq(ResultType)
      /\ \A k \in DOMAIN runs : \E i \in DOMAIN results : runs[k] = results[i]
      /\ \A j, k \in DOMAIN runs : runs[j].case = runs[k].case => j = k
      /\ \A i \in DOMAIN results : results[i].kind = "run" =>
           \E k \in DOMAIN runs : runs[k] = results[i]
  <2>1. \A i, j \in DOMAIN results : results[i].case = results[j].case => i = j
    BY <1>2
  <2> QED
    BY <1>1, <2>1, RunsOfResults
<1>4. Len(results) = Len(suite)
  <2>1. PICK a \in Nat : a = Len(suite) /\ DOMAIN suite = 1..a
    BY <1>2
  <2>2. PICK b \in Nat : b = Len(results) /\ DOMAIN results = 1..b
    BY <1>1
  <2>3. a = b
    BY <1>2, <2>1, <2>2, SameInterval
  <2> QED
    BY <2>1, <2>2, <2>3
<1>5. CasesOf(results) = {suite[i] : i \in DOMAIN suite}
  BY <1>2 DEF CasesOf
<1>6. CasesOf(runs) \subseteq CasesOf(results)
  BY <1>3 DEF CasesOf
<1>7. Cardinality(CasesOf(runs)) = Len(runs)
  <2>1. PICK n \in Nat : n = Len(runs) /\ DOMAIN runs = 1..n
    BY <1>3
  <2> DEFINE f == [k \in 1..n |-> runs[k].case]
  <2>2. f \in Surjection(1..n, CasesOf(runs))
    BY <2>1 DEF CasesOf, Surjection
  <2>3. f \in Injection(1..n, CasesOf(runs))
    BY <1>3, <2>1 DEF CasesOf, Injection, IsInjective
  <2> HIDE DEF f
  <2>4. IsFiniteSet(1..n) /\ Cardinality(1..n) = n
    BY FS_Interval
  <2>5. Cardinality(CasesOf(runs)) = Cardinality(1..n)
    BY <2>2, <2>3, <2>4, FS_Surjection
  <2> QED
    BY <2>1, <2>4, <2>5
<1>8. Bindable(suite, results, runs)
  BY <1>2, <1>3, <1>4, <1>5, <1>6, <1>7 DEF Bindable
<1> QED
  BY <1>8 DEF suite, results, runs

LEMMA ValidateOwn ==
  ASSUME SuiteInv, NEW e \in Execution, Validate(e)
  PROVE  Own(e)'
<1> DEFINE files == dirs[exec[e].cmd.run].files
<1>1. /\ exec[e].pc = "validating" /\ UNCHANGED dirs
  BY DEF Validate, Disk
<1>2. /\ exec[e].cmd \in CommandType /\ exec[e].cmd.kind = "report"
      /\ exec[e].cmd.run \in RunId /\ Complete(exec[e].cmd.run) /\ Reads(e)
  BY <1>1, OwnParts DEF Placed, Reads, Going, Reporting
<1>3. PICK r \in RunId : r = exec[e].cmd.run
  BY <1>2
<1>4. Bindable(files["suite"].data, files["evaluations"].data, files["runs"].data)
  BY <1>2, <1>3, CompleteIsBindable, SMTT(60)
<1>5. At(e, "rendering")
  BY <1>1, <1>2, <1>4 DEF Validate, Reads
<1>6. "rendering" \in Pcs /\ exec[e].pc \in Reporting
  BY <1>1 DEF Pcs, Going, Reporting
<1>7. /\ exec'[e] = [f \in Fields |-> exec'[e][f]]
      /\ exec'[e].pc = "rendering"
      /\ \A f \in Fields \ {"pc"} : exec'[e][f] = exec[e][f]
      /\ FieldsTyped(exec'[e])
  BY <1>5, <1>6, AtFields
<1>8. /\ exec'[e].cmd = exec[e].cmd /\ exec'[e].work = exec[e].work
      /\ exec'[e].written = exec[e].written /\ exec'[e].author = exec[e].author
      /\ exec'[e].cases = exec[e].cases
  BY <1>7, SMTT(60) DEF Fields
<1>9. Reads(e)'
  BY <1>1, <1>2, <1>7, <1>8 DEF Reads, Complete
<1> QED
  BY <1>2, <1>6, <1>7, <1>8, <1>9, ReportingOwn DEF Reporting

(* Reserving a directory: it was nobody's, so no record of it was made.    *)
LEMMA NewDir ==
  ASSUME NEW e \in Execution
  PROVE  LET d == [owner |-> e, files |-> <<>>] IN
         d \in DirType /\ d # None /\ DOMAIN d.files = {}
<1> DEFINE d == [owner |-> e, files |-> <<>>]
<1>1. <<>> \in [{} -> FileType]
  OBVIOUS
<1>2. d \in DirType
  BY <1>1 DEF DirType
<1>3. DOMAIN <<>> = {}
  OBVIOUS
<1> QED
  BY <1>2, <1>3, NoneAssumption

LEMMA ReserveOwn ==
  ASSUME SuiteInv, NEW e \in Execution, Reserve(e)
  PROVE  Own(e)'
<1> DEFINE x == exec[e]
           work == [i \in DOMAIN x.cases |-> None]
           new == [pc |-> "running", indexed |-> <<>>, work |-> work]
<1>1. CASE End(e, "refused")
  BY <1>1, EndOwn DEF Ended
<1>2. CASE ~End(e, "refused")
  <2>1. /\ x.pc = "verified" /\ Go(e, new)
        /\ dirs[x.cmd.run] = None
        /\ dirs' = [dirs EXCEPT ![x.cmd.run] = [owner |-> e, files |-> <<>>]]
        /\ UNCHANGED <<tree, edits, index>>
    BY <1>2 DEF Reserve, Outside
  <2>2. /\ DOMAIN new = {"pc", "indexed", "work"}
        /\ new["pc"] = "running" /\ new["indexed"] = <<>> /\ new["work"] = work
    OBVIOUS
  <2> HIDE DEF new
  <2>3. /\ exec'[e] = [f \in Fields |-> exec'[e][f]]
        /\ exec'[e].pc = "running" /\ exec'[e].cmd = exec[e].cmd
        /\ exec'[e].manifest = exec[e].manifest /\ exec'[e].bound = exec[e].bound
        /\ exec'[e].since = exec[e].since /\ exec'[e].inspected = exec[e].inspected
        /\ exec'[e].cases = exec[e].cases /\ exec'[e].work = work
        /\ exec'[e].indexed = <<>> /\ exec'[e].span = exec[e].span
        /\ exec'[e].written = exec[e].written /\ exec'[e].author = exec[e].author
    BY <2>1, <2>2, OwnParts, GoFields
  <2>4. /\ TypeOK /\ FieldsTyped(exec[e]) /\ Placed(e) /\ Conducted(e) /\ Counted(e)
        /\ exec[e].written = 0
        /\ exec[e].cmd.run \in RunId
    BY <2>1, OwnParts, HolderPlaced DEF Placed, Writing
  <2>5. /\ work \in Seq(WorkType \cup {None}) /\ DOMAIN work = DOMAIN x.cases
        /\ \A i \in DOMAIN work : work[i] = None
    <3>1. x.cases \in Seq(Scenario)
      BY <2>4 DEF FieldsTyped
    <3> QED
      BY <3>1
  <2>6. <<>> \in IndexType /\ DOMAIN <<>> = {}
    <3>1. <<>> \in [{} -> ResultType] /\ DOMAIN <<>> = {}
      OBVIOUS
    <3> QED
      BY <3>1 DEF IndexType
  <2> HIDE DEF work
  <2>7. exec'[e] \in ExecType
    <3>1. exec'[e].indexed \in IndexType /\ exec'[e].work \in Seq(WorkType \cup {None})
      BY <2>3, <2>5, <2>6
    <3>2. exec'[e].pc \in Pcs
      BY <2>3 DEF Pcs, Going, Captured, Seen, Planned, Holding
    <3> QED
      BY <2>3, <2>4, <3>1, <3>2, ExecTyped DEF FieldsTyped
  <2>8. Placed(e)'
    BY <2>1, <2>3, <2>4
    DEF Placed, Going, Captured, Seen, Planned, Holding, Writing, Shrinking,
        Reporting, ShrinkId
  <2>9. DOMAIN exec'[e].indexed = {}
    BY <2>3, <2>6
  <2>10. Conducted(e)'
    BY <2>3, <2>5, <2>9 DEF Conducted, Holding, Writing
  <2>11. Counted(e)'
    <3>1. \A source : Sight(e, source)' => Sight(e, source)
      BY <2>1, <2>3, <2>5, <2>9 DEF Sight, Seen, Planned, Holding
    <3> QED
      BY <2>1, <2>3, <2>4, <3>1 DEF Counted, Captured, Seen, Planned, Holding, Writing
  <2>12. /\ dirs'[x.cmd.run] # None
         /\ dirs'[x.cmd.run].owner = e
         /\ DOMAIN dirs'[x.cmd.run].files = {}
    BY <2>1, <2>4, NewDir DEF TypeOK
  <2>13. Owns(e)'
    BY <2>3, <2>12 DEF Owns
  <2>14. Unrecorded(e)'
    <3>1. \A k \in DOMAIN index : Complete(index[k])
      BY SMTT(60) DEF SuiteInv, OnlyCompleteRunsAreKept
    <3> QED
      BY <2>1, <2>3, <3>1 DEF Unrecorded, Complete
  <2>15. Written(e)' /\ Reads(e)'
    BY <2>3 DEF Written, Reads, Writing
  <2> QED
    BY <2>7, <2>8, <2>10, <2>11, <2>13, <2>14, <2>15 DEF Own
<1> QED
  BY <1>1, <1>2

(* The pool at work: nothing but the workers and what is collected.        *)
LEMMA PoolOwn ==
  ASSUME SuiteInv, NEW e \in Execution, exec[e].pc \in Holding,
         exec'[e] = [f \in Fields |-> exec'[e][f]],
         \A f \in Fields \ {"pc", "work", "indexed"} : exec'[e][f] = exec[e][f],
         \/ exec'[e].pc = exec[e].pc
         \/ exec[e].pc = "running" /\ exec'[e].pc = "unwinding",
         exec'[e].work \in Seq(WorkType \cup {None}),
         exec'[e].indexed \in IndexType,
         UNCHANGED <<tree, edits, dirs, manifests, index>>,
         Conducted(e)',
         \A source \in Source : Sight(e, source)' => source = tree \/ Sight(e, source),
         exec[e].pc \in Writing \cup {"analyzed"} =>
           /\ exec'[e].indexed = exec[e].indexed
           /\ \A source \in Source : Sight(e, source)' => Sight(e, source)
  PROVE  Own(e)'
<1>1. /\ exec'[e].cmd = exec[e].cmd /\ exec'[e].manifest = exec[e].manifest
      /\ exec'[e].bound = exec[e].bound /\ exec'[e].since = exec[e].since
      /\ exec'[e].inspected = exec[e].inspected /\ exec'[e].cases = exec[e].cases
      /\ exec'[e].span = exec[e].span /\ exec'[e].written = exec[e].written
      /\ exec'[e].author = exec[e].author
  BY DEF Fields
<1>2. /\ TypeOK /\ FieldsTyped(exec[e]) /\ Placed(e) /\ Counted(e) /\ Owns(e) /\ Written(e)
      /\ Unrecorded(e) /\ Reads(e)
  BY OwnParts
<1>3. exec'[e] \in ExecType
  <2>1. exec'[e].pc \in Pcs
    BY <1>2 DEF FieldsTyped, Pcs, Going, Captured, Seen, Planned, Holding
  <2> QED
    BY <1>1, <1>2, <2>1, ExecTyped DEF FieldsTyped
<1>4. Placed(e)'
  BY <1>1, <1>2
  DEF Placed, Going, Captured, Seen, Planned, Holding, Writing, Shrinking,
      Reporting, ShrinkId
<1>5. Counted(e)'
  BY <1>1, <1>2, SMTT(60) DEF Counted, TypeOK, Captured, Seen, Planned, Holding, Writing
<1>6. Owns(e)' /\ Unrecorded(e)' /\ Reads(e)'
  BY <1>1, <1>2, SMTT(60) DEF Owns, Unrecorded, Reads, Holding, Writing
<1>7. Written(e)'
  <2> SUFFICES ASSUME exec[e].pc \in Writing
               PROVE  Written(e)'
    BY DEF Written, Holding, Writing
  <2>1. exec'[e].indexed = exec[e].indexed /\ exec'[e].pc = exec[e].pc
    BY DEF Writing
  <2>2. \A f : Artifact(e, f)' = Artifact(e, f)
    BY <1>1, <2>1 DEF Artifact, Data, InSuiteOrder
  <2>3. SpecSeen(e)' = SpecSeen(e)
    BY <1>1 DEF SpecSeen
  <2> QED
    BY <1>1, <1>2, <2>1, <2>2, <2>3, SMTT(60) DEF Written
<1> QED
  BY <1>3, <1>4, <1>5, <1>6, <1>7 DEF Own

LEMMA GoOnly ==
  ASSUME SuiteInv, NEW e \in Execution, NEW new, Go(e, new),
         NEW name \in Fields, DOMAIN new = {name}
  PROVE  /\ exec'[e] = [f \in Fields |-> exec'[e][f]]
         /\ exec'[e][name] = new[name]
         /\ \A f \in Fields \ {name} : exec'[e][f] = exec[e][f]
<1>1. exec'[e] = [f \in Fields |-> IF f \in DOMAIN new THEN new[f] ELSE exec[e][f]]
  BY OwnParts, GoEffect
<1> QED
  BY <1>1
(* Setting one place of the pool.                                          *)
LEMMA WorkPlace ==
  ASSUME NEW work \in Seq(WorkType \cup {None}), NEW i \in DOMAIN work, NEW w \in WorkType
  PROVE  LET new == [work EXCEPT ![i] = w] IN
         /\ new \in Seq(WorkType \cup {None})
         /\ DOMAIN new = DOMAIN work
         /\ new[i] = w
         /\ \A j \in DOMAIN work \ {i} : new[j] = work[j]
OBVIOUS

LEMMA StartWorkerOwn ==
  ASSUME SuiteInv, NEW e \in Execution, StartWorker(e)
  PROVE  Own(e)'
<1> DEFINE x == exec[e]
           queued == {i \in DOMAIN x.work : x.work[i] = None}
           next == CHOOSE i \in queued : \A j \in queued : i <= j
           w == [source |-> tree, outcome |-> None]
           work == [x.work EXCEPT ![next] = w]
<1>1. /\ x.pc \in Executing /\ queued # {} /\ Go(e, [work |-> work])
      /\ UNCHANGED <<tree, edits, dirs, manifests, index>>
  BY DEF StartWorker, Outside, Disk
<1>2. /\ FieldsTyped(x) /\ Placed(e) /\ Conducted(e) /\ tree \in Source
  BY OwnParts DEF TypeOK
<1>3. x.work \in Seq(WorkType \cup {None})
  BY <1>2 DEF FieldsTyped
<1>4. next \in DOMAIN x.work
  <2>1. queued \subseteq Nat
    BY <1>3
  <2>2. \E i \in queued : \A j \in queued : i <= j
    BY <1>1, <2>1, LeastNumber
  <2> QED
    BY <2>2
<1> HIDE DEF next
<1>5. w \in WorkType
  BY <1>2 DEF WorkType
<1>6. /\ work \in Seq(WorkType \cup {None})
      /\ DOMAIN work = DOMAIN x.work
      /\ work[next] = w
      /\ \A j \in DOMAIN x.work \ {next} : work[j] = x.work[j]
  BY <1>3, <1>4, <1>5, WorkPlace
<1> HIDE DEF work
<1>7. /\ exec'[e] = [f \in Fields |-> exec'[e][f]]
      /\ exec'[e]["work"] = work
      /\ \A f \in Fields \ {"work"} : exec'[e][f] = exec[e][f]
  <2> DEFINE new == [work |-> work]
  <2>1. DOMAIN new = {"work"} /\ new["work"] = work
    OBVIOUS
  <2>2. Go(e, new)
    BY <1>1
  <2>3. "work" \in Fields
    BY DEF Fields
  <2> HIDE DEF new
  <2> QED
    BY <2>1, <2>2, <2>3, GoOnly
<1>8. /\ exec'[e].pc = x.pc /\ exec'[e].cases = x.cases /\ exec'[e].indexed = x.indexed
      /\ exec'[e].inspected = x.inspected /\ exec'[e].work = work
  BY <1>7 DEF Fields
<1>9. x.pc \in Holding /\ x.pc \notin Writing \cup {"analyzed"}
  BY <1>1 DEF Executing, Holding, Writing
<1>10. Conducted(e)'
  BY <1>2, <1>6, <1>8 DEF Conducted
<1>11. ASSUME NEW source, Sight(e, source)'
       PROVE  source = tree \/ Sight(e, source)
  BY <1>6, <1>8, <1>9, <1>11 DEF Sight
<1>12. exec'[e].indexed \in IndexType
  BY <1>2, <1>8 DEF FieldsTyped
<1> QED
  BY <1>1, <1>6, <1>7, <1>8, <1>9, <1>10, <1>11, <1>12, PoolOwn

LEMMA WorkerReturnsOwn ==
  ASSUME SuiteInv, NEW e \in Execution, WorkerReturns(e)
  PROVE  Own(e)'
<1> DEFINE x == exec[e]
<1>1. UNCHANGED <<tree, edits, dirs, manifests, index>>
  BY DEF WorkerReturns, Outside, Disk
<1>2. PICK i \in Working(e), out \in Outcomes :
        Go(e, [work |-> [x.work EXCEPT ![i].outcome = out]])
  BY DEF WorkerReturns, Outcomes
<1>3. /\ FieldsTyped(x) /\ Placed(e) /\ Conducted(e)
  BY OwnParts
<1>4. x.work \in Seq(WorkType \cup {None})
  BY <1>3 DEF FieldsTyped
<1>5. i \in DOMAIN x.work /\ x.work[i] # None
  BY DEF Working
<1>6. x.work[i] \in WorkType
  BY <1>4, <1>5
<1> DEFINE w == [x.work[i] EXCEPT !.outcome = out]
           work == [x.work EXCEPT ![i] = w]
<1>7. w \in WorkType /\ w.source = x.work[i].source
  BY <1>6 DEF WorkType
<1> HIDE DEF w
<1>8. /\ work \in Seq(WorkType \cup {None})
      /\ DOMAIN work = DOMAIN x.work
      /\ work[i] = w
      /\ \A j \in DOMAIN x.work \ {i} : work[j] = x.work[j]
  BY <1>4, <1>5, <1>7, WorkPlace
<1>9. Go(e, [work |-> work])
  BY <1>2 DEF w
<1> HIDE DEF work
<1>10. /\ exec'[e] = [f \in Fields |-> exec'[e][f]]
       /\ exec'[e]["work"] = work
       /\ \A f \in Fields \ {"work"} : exec'[e][f] = exec[e][f]
  <2> DEFINE new == [work |-> work]
  <2>1. DOMAIN new = {"work"} /\ new["work"] = work
    OBVIOUS
  <2>2. Go(e, new)
    BY <1>9
  <2>3. "work" \in Fields
    BY DEF Fields
  <2> HIDE DEF new
  <2> QED
    BY <2>1, <2>2, <2>3, GoOnly
<1>11. /\ exec'[e].pc = x.pc /\ exec'[e].cases = x.cases /\ exec'[e].indexed = x.indexed
       /\ exec'[e].inspected = x.inspected /\ exec'[e].work = work
  BY <1>10 DEF Fields
<1>12. x.pc \in Holding
  BY <1>3, <1>5 DEF Conducted
<1>13. Conducted(e)'
  BY <1>3, <1>8, <1>11, <1>12 DEF Conducted
<1>14. ASSUME NEW source, Sight(e, source)'
       PROVE  Sight(e, source)
  <2>1. \A j \in DOMAIN work :
          work[j] # None => x.work[j] # None /\ work[j].source = x.work[j].source
    BY <1>5, <1>7, <1>8
  <2> QED
    BY <1>8, <1>11, <1>12, <1>14, <2>1 DEF Sight
<1>15. exec'[e].indexed \in IndexType
  BY <1>3, <1>11 DEF FieldsTyped
<1> QED
  BY <1>1, <1>8, <1>10, <1>11, <1>12, <1>13, <1>14, <1>15, PoolOwn

LEMMA CollectOwn ==
  ASSUME SuiteInv, NEW e \in Execution, Collect(e)
  PROVE  Own(e)'
<1> DEFINE x == exec[e]
<1>1. UNCHANGED <<tree, edits, dirs, manifests, index>> /\ x.pc = "running"
  BY DEF Collect, Outside, Disk
<1>2. PICK i \in Uncollected(e) :
        Go(e, [indexed |-> [j \in DOMAIN x.indexed \cup {i} |->
                              IF j = i THEN Result(e, i) ELSE x.indexed[j]]])
  BY DEF Collect
<1> DEFINE indexed == [j \in DOMAIN x.indexed \cup {i} |->
                         IF j = i THEN Result(e, i) ELSE x.indexed[j]]
<1>3. /\ FieldsTyped(x) /\ Placed(e) /\ Conducted(e)
  BY OwnParts
<1>4. x.work \in Seq(WorkType \cup {None}) /\ x.indexed \in IndexType
  BY <1>3 DEF FieldsTyped
<1>5. i \in DOMAIN x.work /\ x.work[i] # None /\ x.work[i].outcome # None
  BY DEF Uncollected
<1>6. x.work[i].source \in Source /\ x.work[i].outcome \in Outcomes
  BY <1>4, <1>5 DEF WorkType
<1>7. DOMAIN x.work = DOMAIN x.cases /\ x.cases[i] \in Scenario
  <2>1. DOMAIN x.work = DOMAIN x.cases
    BY <1>1, <1>3 DEF Conducted, Holding
  <2>2. x.cases \in Seq(Scenario)
    BY <1>3 DEF FieldsTyped
  <2> QED
    BY <1>5, <2>1, <2>2
<1>8. /\ Result(e, i) \in ResultType
      /\ Result(e, i).case = x.cases[i] /\ Result(e, i).source = x.work[i].source
  BY <1>6, <1>7 DEF Result, ResultType
<1>9. indexed \in IndexType
  <2>1. PICK collected \in SUBSET Nat : x.indexed \in [collected -> ResultType]
    BY <1>4 DEF IndexType
  <2>2. i \in Nat
    BY <1>4, <1>5
  <2>3. indexed \in [collected \cup {i} -> ResultType] /\ collected \cup {i} \in SUBSET Nat
    BY <1>8, <2>1, <2>2
  <2> QED
    BY <2>3 DEF IndexType
<1>10. /\ DOMAIN indexed = DOMAIN x.indexed \cup {i}
       /\ \A j \in DOMAIN indexed : indexed[j] = IF j = i THEN Result(e, i) ELSE x.indexed[j]
  OBVIOUS
<1>11. Go(e, [indexed |-> indexed])
  BY <1>2
<1> HIDE DEF indexed
<1>12. /\ exec'[e] = [f \in Fields |-> exec'[e][f]]
       /\ exec'[e]["indexed"] = indexed
       /\ \A f \in Fields \ {"indexed"} : exec'[e][f] = exec[e][f]
  <2> DEFINE new == [indexed |-> indexed]
  <2>1. DOMAIN new = {"indexed"} /\ new["indexed"] = indexed
    OBVIOUS
  <2>2. Go(e, new)
    BY <1>11
  <2>3. "indexed" \in Fields
    BY DEF Fields
  <2> HIDE DEF new
  <2> QED
    BY <2>1, <2>2, <2>3, GoOnly
<1>13. /\ exec'[e].pc = x.pc /\ exec'[e].cases = x.cases /\ exec'[e].indexed = indexed
       /\ exec'[e].inspected = x.inspected /\ exec'[e].work = x.work
  BY <1>12 DEF Fields
<1>14. Conducted(e)'
  BY <1>1, <1>3, <1>5, <1>7, <1>8, <1>10, <1>13 DEF Conducted, Holding, Writing
<1>15. ASSUME NEW source, Sight(e, source)'
       PROVE  Sight(e, source)
  BY <1>1, <1>5, <1>8, <1>10, <1>13, <1>15 DEF Sight, Holding
<1>16. x.pc \in Holding /\ x.pc \notin Writing \cup {"analyzed"}
  BY <1>1 DEF Holding, Writing
<1> QED
  BY <1>1, <1>4, <1>9, <1>12, <1>13, <1>14, <1>15, <1>16, PoolOwn

LEMMA CollectRaisesOwn ==
  ASSUME SuiteInv, NEW e \in Execution, CollectRaises(e)
  PROVE  Own(e)'
<1>1. /\ UNCHANGED <<tree, edits, dirs, manifests, index>>
      /\ exec[e].pc = "running" /\ At(e, "unwinding")
  BY DEF CollectRaises, Disk
<1>2. "unwinding" \in Pcs
  BY DEF Pcs, Going, Captured, Seen, Planned, Holding
<1>3. /\ exec'[e] = [f \in Fields |-> exec'[e][f]]
      /\ exec'[e].pc = "unwinding"
      /\ \A f \in Fields \ {"pc"} : exec'[e][f] = exec[e][f]
  BY <1>1, <1>2, AtFields
<1>4. /\ exec'[e].cases = exec[e].cases /\ exec'[e].indexed = exec[e].indexed
      /\ exec'[e].inspected = exec[e].inspected /\ exec'[e].work = exec[e].work
  BY <1>3 DEF Fields
<1>5. FieldsTyped(exec[e]) /\ Conducted(e)
  BY OwnParts
<1>6. Conducted(e)'
  BY <1>1, <1>3, <1>4, <1>5 DEF Conducted, Holding, Writing
<1>7. ASSUME NEW source, Sight(e, source)'
      PROVE  Sight(e, source)
  BY <1>1, <1>3, <1>4, <1>7 DEF Sight, Holding, Seen, Planned
<1>8. exec[e].pc \in Holding /\ exec[e].pc \notin Writing \cup {"analyzed"}
  BY <1>1 DEF Holding, Writing
<1>9. exec'[e].work \in Seq(WorkType \cup {None}) /\ exec'[e].indexed \in IndexType
  BY <1>4, <1>5 DEF FieldsTyped
<1> QED
  BY <1>1, <1>3, <1>6, <1>7, <1>8, <1>9, PoolOwn


(* The comparison after the workers, the manifest, the artifacts and the   *)
(* record.                                                                 *)
LEMMA VerifyAfterWorkersOwn ==
  ASSUME SuiteInv, NEW e \in Execution, VerifyAfterWorkers(e)
  PROVE  Own(e)'
<1> DEFINE x == exec[e]
           span == edits - x.since
           new == [pc |-> "analyzed", span |-> span]
<1>1. CASE End(e, "refused")
  BY <1>1, EndOwn DEF Ended
<1>2. CASE ~End(e, "refused")
  <2>1. /\ x.pc = "running" /\ DOMAIN x.indexed = DOMAIN x.cases
        /\ tree = x.bound /\ Go(e, new)
        /\ UNCHANGED <<tree, edits, dirs, manifests, index>>
    BY <1>2 DEF VerifyAfterWorkers, Outside
  <2>2. DOMAIN new = {"pc", "span"} /\ new["pc"] = "analyzed" /\ new["span"] = span
    OBVIOUS
  <2> HIDE DEF new
  <2>3. /\ exec'[e] = [f \in Fields |-> exec'[e][f]]
        /\ exec'[e].pc = "analyzed" /\ exec'[e].cmd = x.cmd
        /\ exec'[e].manifest = x.manifest /\ exec'[e].bound = x.bound
        /\ exec'[e].since = x.since /\ exec'[e].inspected = x.inspected
        /\ exec'[e].cases = x.cases /\ exec'[e].work = x.work
        /\ exec'[e].indexed = x.indexed /\ exec'[e].span = span
        /\ exec'[e].written = x.written /\ exec'[e].author = x.author
    BY <2>1, <2>2, OwnParts, GoFields
  <2>4. /\ FieldsTyped(x) /\ Placed(e) /\ Conducted(e) /\ Counted(e) /\ Owns(e)
        /\ Unrecorded(e) /\ edits \in Nat
    BY OwnParts DEF TypeOK
  <2>5. span \in Nat /\ x.since <= edits /\ x.since \in Nat
    <3>1. x.since <= edits /\ x.since \in Nat
      BY <2>1, <2>4 DEF Counted, Captured, Seen, Planned, Holding, FieldsTyped
    <3> QED
      BY <2>4, <3>1
  <2> HIDE DEF span
  <2>6. exec'[e] \in ExecType
    <3>1. exec'[e].pc \in Pcs
      BY <2>3 DEF Pcs, Going, Captured, Seen, Planned, Holding
    <3> QED
      BY <2>3, <2>4, <2>5, <3>1, ExecTyped, SMTT(60) DEF FieldsTyped
  <2>7. Placed(e)'
    BY <2>1, <2>3, <2>4
    DEF Placed, Going, Captured, Seen, Planned, Holding, Writing, Shrinking,
        Reporting, ShrinkId
  <2>8. Conducted(e)'
    BY <2>1, <2>3, <2>4 DEF Conducted, Holding, Writing
  <2>9. Counted(e)'
    <3>1. \A source : Sight(e, source)' => Sight(e, source)
      BY <2>1, <2>3 DEF Sight, Seen, Planned, Holding
    <3>2. \A source \in Source \ {x.bound} : Sight(e, source) =>
            x.since < edits /\ x.since + 1 < edits
      BY <2>1, <2>4 DEF Counted, Captured, Seen, Planned, Holding
    <3>3. x.since + 1 < edits => span >= 2
      BY <2>4, <2>5, SMTT(60) DEF span
    <3> QED
      BY <2>1, <2>3, <2>5, <3>1, <3>2, <3>3 DEF Counted
  <2>10. Owns(e)' /\ Unrecorded(e)' /\ Written(e)' /\ Reads(e)'
    BY <2>1, <2>3, <2>4 DEF Owns, Unrecorded, Written, Reads, Holding, Writing
  <2> QED
    BY <2>6, <2>7, <2>8, <2>9, <2>10 DEF Own
<1> QED
  BY <1>1, <1>2

(* An execution that holds its directory goes on writing: its fields other *)
(* than pc and written stay, so what it has collected and seen does.       *)
LEMMA WritingOwn ==
  ASSUME SuiteInv, NEW e \in Execution, exec[e].pc \in Writing \cup {"analyzed"},
         exec'[e] = [f \in Fields |-> exec'[e][f]],
         \A f \in Fields \ {"pc", "written"} : exec'[e][f] = exec[e][f],
         exec'[e].pc \in Writing,
         exec'[e].written \in 0..Len(ArtifactOrder),
         exec'[e].pc = "emitted" => exec'[e].written < Len(ArtifactOrder),
         exec'[e].pc # "emitted" => exec'[e].written = Len(ArtifactOrder),
         exec'[e].pc = "comparing" => exec[e].cmd.kind = "verify",
         exec'[e].pc # "comparing" => exec[e].pc # "comparing" /\ UNCHANGED index,
         UNCHANGED <<tree, edits>>,
         dirs'[exec[e].cmd.run] # None,
         dirs'[exec[e].cmd.run].owner = e
  PROVE  /\ exec'[e] \in ExecType
         /\ Placed(e)' /\ Conducted(e)' /\ Counted(e)' /\ Owns(e)' /\ Unrecorded(e)'
         /\ Reads(e)'
         /\ exec'[e].cmd = exec[e].cmd /\ exec'[e].bound = exec[e].bound
         /\ exec'[e].cases = exec[e].cases
         /\ SpecSeen(e)' = SpecSeen(e)
         /\ \A f : Artifact(e, f)' = Artifact(e, f)
<1> DEFINE x == exec[e]
<1>1. /\ exec'[e].cmd = x.cmd
      /\ exec'[e].manifest = x.manifest /\ exec'[e].bound = x.bound
      /\ exec'[e].since = x.since /\ exec'[e].inspected = x.inspected
      /\ exec'[e].cases = x.cases /\ exec'[e].work = x.work
      /\ exec'[e].indexed = x.indexed /\ exec'[e].span = x.span
      /\ exec'[e].author = x.author
  BY DEF Fields
<1>2. /\ FieldsTyped(x) /\ Placed(e) /\ Conducted(e) /\ Counted(e) /\ Owns(e)
      /\ Unrecorded(e) /\ Reads(e)
  BY OwnParts
<1>3. exec'[e] \in ExecType
  <2>1. exec'[e].pc \in Pcs
    BY DEF Pcs, Going, Captured, Seen, Planned, Holding
  <2> QED
    BY <1>1, <1>2, <2>1, ExecTyped DEF FieldsTyped
<1>4. Placed(e)'
  BY <1>1, <1>2
  DEF Placed, Going, Captured, Seen, Planned, Holding, Writing, Shrinking,
      Reporting, ShrinkId
<1>5. Conducted(e)'
  BY <1>1, <1>2 DEF Conducted, Holding, Writing
<1>6. Counted(e)'
  <2>1. \A source : Sight(e, source)' => Sight(e, source)
    BY <1>1, SMTT(60) DEF Sight, Seen, Planned, Holding, Writing
  <2> QED
    BY <1>1, <1>2, <2>1 DEF Counted, Captured, Seen, Planned, Holding, Writing
<1>7. Owns(e)' /\ Reads(e)'
  BY <1>1, <1>2 DEF Owns, Reads, Holding, Writing
<1>8. Unrecorded(e)'
  BY <1>1, <1>2 DEF Unrecorded, Holding, Writing
<1>9. SpecSeen(e)' = SpecSeen(e) /\ \A f : Artifact(e, f)' = Artifact(e, f)
  BY <1>1 DEF SpecSeen, Artifact, Data, InSuiteOrder
<1> QED
  BY <1>1, <1>3, <1>4, <1>5, <1>6, <1>7, <1>8, <1>9

LEMMA EmitManifestOwn ==
  ASSUME SuiteInv, NEW e \in Execution, EmitManifest(e)
  PROVE  Own(e)'
<1> DEFINE x == exec[e]
<1>1. CASE End(e, "refused")
  BY <1>1, EndOwn DEF Ended
<1>2. CASE ~End(e, "refused")
  <2>1. /\ x.pc = "analyzed" /\ At(e, "emitted")
        /\ manifests' = Emitted(e)
        /\ UNCHANGED <<tree, edits, dirs, index>>
    BY <1>2 DEF EmitManifest, Outside
  <2>2. "emitted" \in Pcs
    BY DEF Pcs, Going, Captured, Seen, Planned, Holding, Writing
  <2>3. /\ exec'[e] = [f \in Fields |-> exec'[e][f]]
        /\ exec'[e].pc = "emitted"
        /\ \A f \in Fields \ {"pc"} : exec'[e][f] = exec[e][f]
    BY <2>1, <2>2, AtFields
  <2>4. /\ Placed(e) /\ Owns(e) /\ manifests \in [RunId -> ManifestType \cup {None}]
        /\ x.cmd.run \in RunId
    BY <2>1, OwnParts, HolderPlaced DEF TypeOK, Holding
  <2>5. exec'[e].written = x.written /\ x.written = 0
    BY <2>1, <2>3, <2>4 DEF Placed, Writing, Fields
  <2>6. /\ dirs[x.cmd.run] # None /\ dirs[x.cmd.run].owner = e
        /\ DOMAIN dirs[x.cmd.run].files = {}
    BY <2>1, <2>4 DEF Owns, Holding, Writing
  <2>7. /\ exec'[e] \in ExecType
        /\ Placed(e)' /\ Conducted(e)' /\ Counted(e)' /\ Owns(e)' /\ Unrecorded(e)'
        /\ Reads(e)'
        /\ exec'[e].cmd = exec[e].cmd /\ exec'[e].bound = exec[e].bound
        /\ exec'[e].cases = exec[e].cases
        /\ SpecSeen(e)' = SpecSeen(e)
    <3>1. "emitted" \in Writing /\ "emitted" # "comparing" /\ 8 \in Nat
      BY SMTT(60) DEF Writing
    <3> QED
      BY <2>1, <2>3, <2>5, <2>6, <3>1, CompleteNames, WritingOwn
  <2>8. Written(e)'
    <3>1. {ArtifactOrder[k] : k \in 1..0} = {}
      OBVIOUS
    <3>2. manifests'[x.cmd.run] = Manifest(e, x.bound, SpecSeen(e), x.cases)
      BY <2>1, <2>4 DEF Emitted
    <3>3. dirs' = dirs
      BY <2>1
    <3> QED
      BY <2>3, <2>5, <2>6, <2>7, <3>1, <3>2, <3>3 DEF Written, Manifest
  <2> QED
    BY <2>7, <2>8 DEF Own
<1> QED
  BY <1>1, <1>2

LEMMA NextNames ==
  ASSUME NEW k \in 0..7
  PROVE  {ArtifactOrder[j] : j \in 1..(k + 1)} =
           {ArtifactOrder[j] : j \in 1..k} \cup {ArtifactOrder[k + 1]}
<1>1. 1..(k + 1) = (1..k) \cup {k + 1}
  OBVIOUS
<1> QED
  BY <1>1

LEMMA WriteArtifactOwn ==
  ASSUME SuiteInv, NEW e \in Execution, WriteArtifact(e)
  PROVE  Own(e)'
<1> DEFINE x == exec[e]
           k == x.written + 1
           name == ArtifactOrder[k]
           run == x.cmd.run
           to == IF k = Len(ArtifactOrder) THEN "recording" ELSE "emitted"
           new == [written |-> k, pc |-> to]
<1>1. /\ x.pc = "emitted" /\ k <= Len(ArtifactOrder)
      /\ dirs' = Put(run, e, name) /\ Go(e, new)
      /\ UNCHANGED <<tree, edits, manifests, index>>
  BY DEF WriteArtifact, Outside
<1>2. DOMAIN new = {"written", "pc"} /\ new["written"] = k /\ new["pc"] = to
  OBVIOUS
<1>3. /\ TypeOK /\ FieldsTyped(x) /\ Placed(e) /\ Conducted(e) /\ Owns(e) /\ Written(e)
      /\ run \in RunId
  BY <1>1, OwnParts, HolderPlaced DEF Holding, Writing
<1>4. x.written \in 0..7 /\ k \in 1..8
  BY <1>1, <1>3, CompleteNames DEF FieldsTyped
<1> HIDE DEF new
<1>5. /\ exec'[e] = [f \in Fields |-> exec'[e][f]]
      /\ exec'[e].pc = to /\ exec'[e].written = k
      /\ \A f \in Fields \ {"pc", "written"} : exec'[e][f] = x[f]
  <2>1. /\ exec'[e] = [f \in Fields |-> exec'[e][f]]
        /\ exec'[e].pc = to /\ exec'[e].written = k
    BY <1>1, <1>2, <1>3, GoFields
  <2>2. exec'[e] = [f \in Fields |-> IF f \in DOMAIN new THEN new[f] ELSE exec[e][f]]
    BY <1>1, <1>3, GoEffect
  <2> QED
    BY <1>2, <2>1, <2>2
<1>6. Artifact(e, name) \in FileType /\ name \in Artifacts
  BY <1>1, <1>3, <1>4, ArtifactType, CompleteNames DEF Writing
<1>7. dirs[run] # None /\ dirs[run].owner = e
  BY <1>1, <1>3, SMTT(60) DEF Owns, Holding, Writing
<1>8. /\ dirs'[run] # None
      /\ dirs'[run].owner = e
      /\ DOMAIN dirs'[run].files = DOMAIN dirs[run].files \cup {name}
      /\ dirs'[run].files[name] = Artifact(e, name)
      /\ \A g \in DOMAIN dirs[run].files \ {name} :
           dirs'[run].files[g] = dirs[run].files[g]
  BY <1>1, <1>3, <1>6, <1>7, PutEffect, SMTT(60)
<1>9. to \in {"emitted", "recording"} /\ (to = "recording" <=> k = 8)
  BY CompleteNames
<1> HIDE DEF to
<1>10. /\ exec'[e] \in ExecType
       /\ Placed(e)' /\ Conducted(e)' /\ Counted(e)' /\ Owns(e)' /\ Unrecorded(e)'
       /\ Reads(e)'
       /\ exec'[e].cmd = exec[e].cmd /\ exec'[e].bound = exec[e].bound
       /\ exec'[e].cases = exec[e].cases
       /\ SpecSeen(e)' = SpecSeen(e)
       /\ \A f : Artifact(e, f)' = Artifact(e, f)
  <2>1. /\ to \in Writing /\ to # "comparing"
        /\ x.pc \in Writing \cup {"analyzed"} /\ x.pc # "comparing"
    BY <1>1, <1>9 DEF Writing
  <2>2. /\ k \in 0..Len(ArtifactOrder)
        /\ to = "emitted" => k < Len(ArtifactOrder)
        /\ to # "emitted" => k = Len(ArtifactOrder)
    BY <1>4, <1>9, CompleteNames
  <2> QED
    BY <1>1, <1>5, <1>8, <2>1, <2>2, WritingOwn, ZenonT(60)
<1>11. Written(e)'
  <2>1. DOMAIN dirs'[run].files \ {"report"} = {ArtifactOrder[j] : j \in 1..k} \ {"report"}
    <3>1. DOMAIN dirs[run].files \ {"report"} =
            {ArtifactOrder[j] : j \in 1..x.written} \ {"report"}
      BY <1>1, <1>3 DEF Written, Writing
    <3>2. {ArtifactOrder[j] : j \in 1..k} = {ArtifactOrder[j] : j \in 1..x.written} \cup {name}
      BY <1>4, NextNames, SMTT(60)
    <3> QED
      BY <1>8, <3>1, <3>2
  <2>2. \A f \in DOMAIN dirs'[run].files \ {"report"} : dirs'[run].files[f] = Artifact(e, f)
    <3>1. \A f \in DOMAIN dirs[run].files \ {"report"} : dirs[run].files[f] = Artifact(e, f)
      BY <1>1, <1>3 DEF Written, Writing
    <3> QED
      BY <1>8, <3>1
  <2>3. manifests'[run] = Manifest(e, x.bound, SpecSeen(e), x.cases)
    BY <1>1, <1>3 DEF Written, Writing
  <2> HIDE DEF name, k
  <2> QED
    BY <1>5, <1>10, <2>1, <2>2, <2>3, SMTT(60) DEF Written, Manifest
<1> QED
  BY <1>10, <1>11 DEF Own

LEMMA RecordOwn ==
  ASSUME SuiteInv, NEW e \in Execution, Record(e)
  PROVE  Own(e)'
<1> DEFINE x == exec[e]
<1>1. CASE End(e, "done")
  BY <1>1, EndOwn DEF Ended
<1>2. CASE ~End(e, "done")
  <2>1. /\ x.pc = "recording" /\ At(e, "comparing") /\ x.cmd.kind = "verify"
        /\ UNCHANGED <<tree, edits, dirs, manifests>>
    BY <1>2 DEF Record, Outside
  <2>2. "comparing" \in Pcs
    BY DEF Pcs, Going, Captured, Seen, Planned, Holding, Writing
  <2>3. /\ exec'[e] = [f \in Fields |-> exec'[e][f]]
        /\ exec'[e].pc = "comparing"
        /\ \A f \in Fields \ {"pc"} : exec'[e][f] = exec[e][f]
    BY <2>1, <2>2, AtFields
  <2>4. /\ Placed(e) /\ Owns(e) /\ Written(e)
    BY OwnParts
  <2>5. exec'[e].written = x.written /\ x.written = 8
    BY <2>1, <2>3, <2>4, CompleteNames DEF Placed, Fields
  <2>6. dirs[x.cmd.run] # None /\ dirs[x.cmd.run].owner = e
    BY <2>1, <2>4 DEF Owns, Holding, Writing
  <2>7. /\ exec'[e] \in ExecType
        /\ Placed(e)' /\ Conducted(e)' /\ Counted(e)' /\ Owns(e)' /\ Unrecorded(e)'
        /\ Reads(e)'
        /\ exec'[e].cmd = exec[e].cmd /\ exec'[e].bound = exec[e].bound
        /\ exec'[e].cases = exec[e].cases
        /\ SpecSeen(e)' = SpecSeen(e)
        /\ \A f : Artifact(e, f)' = Artifact(e, f)
    <3>1. /\ "comparing" \in Writing /\ "comparing" # "emitted"
          /\ x.pc \in Writing \cup {"analyzed"}
      BY <2>1 DEF Writing
    <3> QED
      BY <2>1, <2>3, <2>5, <2>6, <3>1, CompleteNames, WritingOwn
  <2>8. Written(e)'
    <3>1. dirs' = dirs /\ manifests' = manifests
      BY <2>1
    <3> QED
      BY <2>1, <2>4, <2>5, <2>7, <3>1 DEF Written, Manifest, Writing
  <2> QED
    BY <2>7, <2>8 DEF Own
<1> QED
  BY <1>1, <1>2

LEMMA OwnStep ==
  ASSUME SuiteInv, NEW e \in Execution, StepBy(e)
  PROVE  Own(e)'
<1>1. CASE Begin(e)
  BY <1>1, BeginOwn
<1>2. CASE Load(e) \/ Capture(e)
  BY <1>2, LoadOwn, CaptureOwn
<1>3. CASE VerifyBeforeInspection(e) \/ VerifyBeforeWorkers(e) \/ VerifyAfterSearch(e)
  BY <1>3, VerifyOwn DEF VerifyBeforeInspection, VerifyBeforeWorkers, VerifyAfterSearch
<1>4. CASE Inspect(e) \/ Prepare(e) \/ Search(e) \/ WriteMinimized(e)
  BY <1>4, InspectOwn, PrepareTestOwn, PrepareReplayOwn, PrepareShrinkOwn, SearchOwn,
     WriteMinimizedOwn
  DEF Prepare
<1>5. CASE Reserve(e) \/ StartWorker(e) \/ WorkerReturns(e) \/ Collect(e) \/ CollectRaises(e)
  BY <1>5, ReserveOwn, StartWorkerOwn, WorkerReturnsOwn, CollectOwn, CollectRaisesOwn
<1>6. CASE VerifyAfterWorkers(e) \/ EmitManifest(e) \/ WriteArtifact(e) \/ Record(e)
  BY <1>6, VerifyAfterWorkersOwn, EmitManifestOwn, WriteArtifactOwn, RecordOwn
<1>7. CASE Resolve(e) \/ Locate(e) \/ ReadSuite(e) \/ Validate(e)
  BY <1>7, ResolveOwn, LocateOwn, ReadSuiteOwn, ValidateOwn
<1>8. CASE Unwind(e)
  BY <1>8, EndOwn DEF Unwind, Ended
<1>9. CASE Compare(e)
  BY <1>9, EndOwn DEF Compare, Ended
<1>10. CASE WriteReport(e)
  BY <1>10, EndOwn DEF WriteReport, Ended
<1>11. CASE Crash(e)
  BY <1>11, EndOwn DEF Crash, Ended
<1> QED
  BY <1>1, <1>2, <1>3, <1>4, <1>5, <1>6, <1>7, <1>8, <1>9, <1>10, <1>11 DEF StepBy, Step

-----------------------------------------------------------------------------
(* The types of what is on disk, and the whole invariant.                  *)
LEMMA ManifestTyped ==
  ASSUME NEW e \in Execution, NEW source \in Source, NEW spec \in Spec,
         NEW cases \in Suites \ {<<>>}
  PROVE  Manifest(e, source, spec, cases) \in ManifestType \cup {None}
BY DEF Manifest, ManifestType

LEMMA EmittedTyped ==
  ASSUME SuiteInv, NEW e \in Execution, exec[e].pc = "analyzed"
  PROVE  Emitted(e) \in [RunId -> ManifestType \cup {None}]
<1>1. /\ Placed(e) /\ manifests \in [RunId -> ManifestType \cup {None}]
  BY OwnParts DEF TypeOK
<1>2. /\ exec[e].bound \in Source /\ exec[e].inspected \in Source
      /\ exec[e].cases \in Suites \ {<<>>}
  BY <1>1 DEF Placed, Captured, Seen, Planned, Holding
<1>3. SpecSeen(e) \in Spec
  BY <1>2, SuiteAssumption DEF SpecSeen
<1>4. Manifest(e, exec[e].bound, SpecSeen(e), exec[e].cases) \in ManifestType \cup {None}
  BY <1>2, <1>3, ManifestTyped
<1> QED
  BY <1>1, <1>4 DEF Emitted

LEMMA TypeStep ==
  ASSUME SuiteInv, NEW e \in Execution, StepOf(e), \A d \in Execution : Own(d)'
  PROVE  TypeOK'
<1>1. /\ TypeOK /\ Placed(e) /\ Conducted(e) /\ Owns(e) /\ Reads(e)
      /\ tree \in Source /\ edits \in Nat /\ crashes \in Nat
      /\ dirs \in [RunId -> DirType \cup {None}]
      /\ manifests \in [RunId -> ManifestType \cup {None}]
      /\ index \in Seq(RunId)
  BY OwnParts DEF TypeOK
<1>2. tree' \in Source /\ edits' \in Nat /\ crashes' \in Nat
  BY <1>1 DEF StepOf
<1>3. exec' \in [Execution -> ExecType]
  <2>1. exec' = [d \in Execution |-> exec'[d]]
    BY DEF StepOf
  <2>2. \A d \in Execution : exec'[d] \in ExecType
    BY DEF Own
  <2> QED
    BY <2>1, <2>2
<1> DEFINE run == exec[e].cmd.run
<1>4. dirs' \in [RunId -> DirType \cup {None}]
  <2>1. CASE Reserves(e)
    <3>1. [owner |-> e, files |-> <<>>] \in DirType
      BY NewDir
    <3> QED
      BY <1>1, <2>1, <3>1 DEF Reserves
  <2>2. CASE Releases(e)
    <3>1. run \in RunId
      BY <1>1, <2>2, HolderPlaced DEF Releases, Holding
    <3> QED
      BY <1>1, <2>2, <3>1, UnreservedEffect DEF Releases
  <2>3. CASE Writes(e)
    <3>1. run \in RunId /\ dirs[run] # None
      BY <1>1, <2>3, HolderPlaced DEF Writes, Owns, Holding, Writing
    <3>2. exec[e].written + 1 \in 1..8
      <4>1. exec[e].written \in 0..Len(ArtifactOrder)
        BY OwnParts DEF FieldsTyped
      <4>2. exec[e].written < Len(ArtifactOrder)
        BY <1>1, <2>3 DEF Writes, Placed
      <4> QED
        BY <4>1, <4>2, CompleteNames
    <3>3. ArtifactOrder[exec[e].written + 1] \in Artifacts
      BY <3>2, CompleteNames
    <3>4. Artifact(e, ArtifactOrder[exec[e].written + 1]) \in FileType
      BY <1>1, <2>3, ArtifactType DEF Writes, Writing
    <3> QED
      BY <1>1, <2>3, <3>1, <3>3, <3>4, PutEffect DEF Writes
  <2>4. CASE Reports(e)
    <3>1. run \in RunId /\ dirs[run] # None
      BY <1>1, <2>4, HolderPlaced DEF Reports, Reads, Complete
    <3>2. "report" \in Artifacts /\ Artifact(e, "report") \in FileType
      BY <1>1, ArtifactType DEF Artifacts, ArtifactOrder
    <3> QED
      BY <1>1, <2>4, <3>1, <3>2, PutEffect DEF Reports
  <2> QED
    BY <1>1, <2>1, <2>2, <2>3, <2>4 DEF StepOf, Emits, Minimizes, Leaves
<1>5. manifests' \in [RunId -> ManifestType \cup {None}]
  <2>1. CASE exec[e].pc = "analyzed" /\ manifests' = Emitted(e)
    BY <2>1, EmittedTyped
  <2>2. CASE Minimizes(e)
    <3>1. exec[e].manifest \in ManifestType /\ exec[e].cases \in Suites \ {<<>>}
      BY <1>1, <2>2 DEF Minimizes, Placed, Going, Captured, Seen, Shrinking
    <3>2. exec[e].manifest.source \in Source /\ exec[e].manifest.spec \in Spec
      BY <3>1 DEF ManifestType
    <3>3. Manifest(e, exec[e].manifest.source, exec[e].manifest.spec, exec[e].cases)
            \in ManifestType \cup {None}
      BY <3>1, <3>2, ManifestTyped
    <3> QED
      BY <1>1, <2>2, <3>3 DEF Minimizes
  <2> QED
    BY <1>1, <2>1, <2>2 DEF StepOf, Reserves, Releases, Emits, Writes, Reports, Leaves
<1>6. index' \in Seq(RunId)
  <2>1. CASE Records(e)
    <3>1. run \in RunId
      BY <1>1, <2>1, HolderPlaced DEF Records, Holding, Writing
    <3> QED
      BY <1>1, <2>1, <3>1 DEF Records
  <2> QED
    BY <1>1, <2>1 DEF StepOf
<1> QED
  BY <1>2, <1>3, <1>4, <1>5, <1>6 DEF TypeOK

(* What is recorded is complete, before and after.                         *)
LEMMA RecordedStep ==
  ASSUME SuiteInv, NEW e \in Execution, StepOf(e), TypeOK', \A r \in RunId : Held(r)'
  PROVE  OnlyCompleteRunsAreKept'
<1> DEFINE run == exec[e].cmd.run
<1>1. /\ TypeOK /\ Placed(e) /\ Owns(e) /\ Written(e) /\ Unrecorded(e)
      /\ index \in Seq(RunId)
      /\ \A k \in DOMAIN index : Complete(index[k])
      /\ \A j, k \in DOMAIN index : index[j] = index[k] => j = k
  BY OwnParts DEF SuiteInv, TypeOK, OnlyCompleteRunsAreKept
<1>2. ASSUME NEW d \in Execution, exec'[d].pc = "refused",
             NEW r \in RunId, dirs'[r] # None, dirs'[r].owner = d
      PROVE  FALSE
  BY <1>2 DEF Held, Holding, Writing
<1>3. ASSUME NEW r \in RunId, Complete(r)
      PROVE  Complete(r)'
  BY <1>3, PublishedStays, StaysComplete
<1>4. CASE Records(e)
  <2>1. run \in RunId /\ exec[e].pc = "recording"
    BY <1>1, <1>4, HolderPlaced DEF Records, Holding, Writing
  <2>2. Complete(run)
    <3>1. exec[e].written = 8
      BY <1>1, <2>1, CompleteNames DEF Placed
    <3>2. dirs[run] # None
      BY <1>1, <2>1 DEF Owns, Holding, Writing
    <3>3. DOMAIN dirs[run].files \ {"report"} = {ArtifactOrder[k] : k \in 1..8} \ {"report"}
      BY <1>1, <2>1, <3>1 DEF Written, Writing
    <3>4. Required \subseteq {ArtifactOrder[k] : k \in 1..8} \ {"report"}
      BY CompleteNames
    <3> QED
      BY <3>2, <3>3, <3>4 DEF Complete
  <2>3. \A k \in DOMAIN index : index[k] # run
    BY <1>1, <2>1 DEF Unrecorded, Holding, Writing
  <2>4. /\ index' = Append(index, run)
        /\ DOMAIN index' = DOMAIN index \cup {Len(index) + 1}
        /\ index'[Len(index) + 1] = run
        /\ \A k \in DOMAIN index : index'[k] = index[k] /\ k # Len(index) + 1
    BY <1>1, <1>4, <2>1 DEF Records
  <2>5. \A k \in DOMAIN index' : index'[k] \in RunId /\ Complete(index'[k])
    BY <1>1, <2>1, <2>2, <2>4
  <2>6. ASSUME NEW k \in DOMAIN index'
        PROVE  Complete(index[k])'
    <3>1. PICK r \in RunId : r = index'[k] /\ Complete(r)
      BY <2>5, <2>6
    <3>2. Complete(r)'
      BY <1>3, <3>1
    <3> QED
      BY <3>1, <3>2 DEF Complete
  <2>7. \A j, k \in DOMAIN index' : index'[j] = index'[k] => j = k
    BY <1>1, <2>3, <2>4
  <2> QED
    BY <1>2, <2>6, <2>7 DEF OnlyCompleteRunsAreKept
<1>5. CASE index' = index
  <2>1. ASSUME NEW k \in DOMAIN index
        PROVE  Complete(index[k])'
    <3>1. PICK r \in RunId : r = index[k] /\ Complete(r)
      BY <1>1, <2>1
    <3>2. Complete(r)'
      BY <1>3, <3>1
    <3> QED
      BY <1>5, <3>1, <3>2 DEF Complete
  <2> QED
    BY <1>1, <1>2, <1>5, <2>1 DEF OnlyCompleteRunsAreKept
<1> QED
  BY <1>4, <1>5 DEF StepOf

(* The invariant from its parts, each of its execution or its run.         *)
LEMMA Together ==
  TypeOK /\ (\A e \in Execution : Own(e))
  /\ (\A r \in RunId : Held(r) /\ Published(r)) /\ OnlyCompleteRunsAreKept
  => SuiteInv
<1> SUFFICES ASSUME TypeOK, \A e \in Execution : Own(e),
                    \A r \in RunId : Held(r) /\ Published(r), OnlyCompleteRunsAreKept
             PROVE  SuiteInv
  OBVIOUS
<1>1. \A r \in RunId : Loadable(r)
  BY DEF Published, Loadable
<1>2. PublishedRunIsWhole /\ OnlyRevertedEditsUnseen
  BY DEF Published, PublishedRunIsWhole, OnlyRevertedEditsUnseen, WholeRun, SeenRun
<1> QED
  BY <1>1, <1>2 DEF Own, SuiteInv

LEMMA TogetherThen ==
  TypeOK' /\ (\A e \in Execution : Own(e)')
  /\ (\A r \in RunId : Held(r)' /\ Published(r)') /\ OnlyCompleteRunsAreKept'
  => SuiteInv'
<1>1. (TypeOK /\ (\A e \in Execution : Own(e))
       /\ (\A r \in RunId : Held(r) /\ Published(r)) /\ OnlyCompleteRunsAreKept
       => SuiteInv)'
  BY Together, PTL
<1> QED
  BY <1>1

LEMMA ExecutionStep ==
  ASSUME SuiteInv, NEW e \in Execution, StepBy(e)
  PROVE  SuiteInv'
<1>1. StepOf(e)
  BY OwnParts, Frame
<1>2. \A d \in Execution : Own(d)'
  <2> TAKE d \in Execution
  <2>1. CASE d = e
    BY <2>1, OwnStep
  <2>2. CASE d # e
    BY <1>1, <2>2, OthersStep
  <2> QED
    BY <2>1, <2>2
<1>3. TypeOK'
  BY <1>1, <1>2, TypeStep
<1>4. \A r \in RunId : Held(r)' /\ Published(r)'
  BY <1>1, <1>2, <1>3, HeldStep, PublishedStep
<1>5. OnlyCompleteRunsAreKept'
  BY <1>1, <1>3, <1>4, RecordedStep
<1> QED
  BY <1>2, <1>3, <1>4, <1>5, TogetherThen

(* When no execution moves, only what each has seen is counted anew.       *)
LEMMA NobodyMoves ==
  ASSUME SuiteInv, UNCHANGED <<exec, dirs, manifests, index>>
  PROVE  /\ \A e \in Execution : Counted(e)' => Own(e)'
         /\ \A r \in RunId : Held(r)' /\ Published(r)'
         /\ OnlyCompleteRunsAreKept'
<1>1. exec' = exec /\ dirs' = dirs /\ manifests' = manifests /\ index' = index
  OBVIOUS
<1>2. ASSUME NEW e \in Execution
      PROVE  Counted(e)' => Own(e)'
  <2>1. /\ exec[e] \in ExecType /\ Placed(e) /\ Conducted(e)
        /\ Owns(e) /\ Written(e) /\ Unrecorded(e) /\ Reads(e)
    BY <1>2, OwnParts
  <2>2. Placed(e)' /\ Conducted(e)' /\ Owns(e)' /\ Unrecorded(e)' /\ Reads(e)'
    BY <1>1, <2>1 DEF Placed, Conducted, Owns, Unrecorded, Reads, Complete
  <2>3. Written(e)'
    BY <1>1, <2>1 DEF Written, Artifact, Data, InSuiteOrder, SpecSeen
  <2> QED
    BY <1>1, <2>1, <2>2, <2>3 DEF Own
<1>3. ASSUME NEW r \in RunId
      PROVE  Held(r)' /\ Published(r)'
  <2>1. /\ Held(r) /\ Loadable(r)
        /\ Complete(r) => WholeRun(r) /\ SeenRun(r)
    BY <1>3 DEF SuiteInv, PublishedRunIsWhole, OnlyRevertedEditsUnseen, WholeRun, SeenRun
  <2>2. Held(r)'
    BY <1>1, <2>1 DEF Held
  <2>3. Complete(r)' => Complete(r)
    BY <1>1 DEF Complete
  <2>4. Loadable(r)'
    BY <1>1, <2>1, <2>3 DEF Loadable
  <2>5. WholeRun(r) => WholeRun(r)'
    BY <1>1 DEF WholeRun
  <2>6. SeenRun(r) => SeenRun(r)'
    BY <1>1 DEF SeenRun
  <2> QED
    BY <2>1, <2>2, <2>3, <2>4, <2>5, <2>6 DEF Published
<1>4. OnlyCompleteRunsAreKept'
  BY <1>1 DEF SuiteInv, OnlyCompleteRunsAreKept, Complete
<1> QED
  BY <1>2, <1>3, <1>4

(* An edit is seen by the executions that have captured a source.          *)
LEMMA EditStep ==
  ASSUME SuiteInv, Edit
  PROVE  SuiteInv'
<1>1. /\ tree' \in Source /\ edits' = edits + 1 /\ edits \in Nat
      /\ UNCHANGED <<crashes, exec, dirs, manifests, index>>
      /\ TypeOK
  BY SuiteAssumption DEF Edit, SuiteInv, TypeOK
<1>2. ASSUME NEW e \in Execution
      PROVE  Counted(e)'
  <2>1. FieldsTyped(exec[e]) /\ Counted(e)
    BY <1>2, OwnParts
  <2>2. exec[e].since \in Nat
    BY <2>1 DEF FieldsTyped
  <2>3. \A source : Sight(e, source)' <=> Sight(e, source)
    BY <1>1 DEF Sight
  <2> QED
    BY <1>1, <2>1, <2>2, <2>3 DEF Counted
<1>3. TypeOK'
  BY <1>1 DEF TypeOK
<1> QED
  BY <1>1, <1>2, <1>3, NobodyMoves, TogetherThen

LEMMA InitInv == Init => SuiteInv
<1> SUFFICES ASSUME Init PROVE SuiteInv
  OBVIOUS
<1>1. <<>> \in Seq(Scenario) /\ <<>> \in Seq(WorkType \cup {None}) /\ <<>> \in Seq(RunId)
      /\ DOMAIN <<>> = {}
  OBVIOUS
<1>2. <<>> \in IndexType
  <2>1. <<>> \in [{} -> ResultType]
    OBVIOUS
  <2> QED
    BY <2>1 DEF IndexType
<1>3. FieldsTyped(Idle) /\ Idle = [f \in Fields |-> Idle[f]]
  <2>1. /\ Idle.pc = "idle" /\ Idle.cmd = None /\ Idle.manifest = None /\ Idle.bound = None
        /\ Idle.since = 0 /\ Idle.inspected = None /\ Idle.cases = <<>>
        /\ Idle.work = <<>> /\ Idle.indexed = <<>> /\ Idle.span = 0 /\ Idle.written = 0
        /\ Idle.author = None
        /\ Idle = [f \in Fields |-> Idle[f]]
    BY DEF Idle, Fields
  <2>2. Idle.cases \in Seq(Scenario)
    BY <1>1, <2>1
  <2>3. Idle.work \in Seq(WorkType \cup {None})
    BY <1>1, <2>1
  <2>4. Idle.indexed \in IndexType
    BY <1>2, <2>1
  <2>5. Idle.pc \in Pcs
    BY <2>1 DEF Pcs
  <2>6. Idle.written \in 0..Len(ArtifactOrder)
    BY <2>1, CompleteNames
  <2> QED
    BY <2>1, <2>2, <2>3, <2>4, <2>5, <2>6 DEF FieldsTyped
<1>4. Idle \in ExecType
  BY <1>3, ExecTyped
<1>5. TypeOK
  BY <1>1, <1>4, SuiteAssumption DEF Init, TypeOK
<1>6. ASSUME NEW e \in Execution
      PROVE  Own(e)
  <2>1. exec[e] = Idle
    BY DEF Init
  <2>2. /\ exec[e].pc = "idle" /\ DOMAIN exec[e].work = {} /\ exec[e].written = 0
    BY <1>1, <2>1 DEF Idle
  <2> QED
    BY <1>4, <2>1, <2>2
    DEF Own, Placed, Conducted, Counted, Owns, Written, Unrecorded, Reads, Going, Captured,
        Seen, Planned, Holding, Writing, Shrinking, Reporting
<1>7. \A r \in RunId : Held(r) /\ Published(r)
  BY DEF Init, Held, Published, Complete
<1>8. OnlyCompleteRunsAreKept
  BY <1>1 DEF Init, OnlyCompleteRunsAreKept
<1> QED
  BY <1>5, <1>6, <1>7, <1>8, Together

LEMMA StutterInv ==
  ASSUME SuiteInv, UNCHANGED vars
  PROVE  SuiteInv'
<1>1. UNCHANGED <<tree, edits, crashes, exec, dirs, manifests, index>>
  BY DEF vars
<1>2. ASSUME NEW e \in Execution
      PROVE  Counted(e)'
  <2>1. \A source : Sight(e, source)' <=> Sight(e, source)
    BY <1>1 DEF Sight
  <2> QED
    BY <1>1, <2>1, OwnParts DEF Counted
<1>3. TypeOK'
  BY <1>1 DEF SuiteInv, TypeOK
<1> QED
  BY <1>1, <1>2, <1>3, NobodyMoves, TogetherThen

(* The inductive invariant holds in every reachable state.                 *)
THEOREM SuiteInvariant == SuiteSpec => []SuiteInv
<1>1. Init => SuiteInv
  BY InitInv
<1>2. SuiteInv /\ [Next]_vars => SuiteInv'
  <2> SUFFICES ASSUME SuiteInv, [Next]_vars PROVE SuiteInv'
    OBVIOUS
  <2>1. CASE Edit
    BY <2>1, EditStep
  <2>2. CASE \E e \in Execution : StepBy(e)
    BY <2>2, ExecutionStep
  <2>3. CASE UNCHANGED vars
    BY <2>3, StutterInv
  <2> QED
    BY <2>1, <2>2, <2>3 DEF Next, StepBy
<1> QED
  BY <1>1, <1>2, PTL DEF SuiteSpec

-----------------------------------------------------------------------------
(* Everything an execution keeps and everything on disk is of its type:    *)
(* what a replay loads is a manifest of cases, and what a report reads is  *)
(* a suite and its results (artifacts.py, replay/, report/load.py).        *)
THEOREM SuiteTypeCorrect == SuiteSpec => []TypeOK
<1>1. SuiteInv => TypeOK
  BY DEF SuiteInv
<1> QED
  BY <1>1, SuiteInvariant, PTL

(* A run whose required artifacts are all there is whole and its author's  *)
(* alone: execute_suite and replay_suite write it in the directory that    *)
(* they reserved, from results that are put in suite order, after the      *)
(* replay manifest of the same cases.                                      *)
THEOREM PublishedCorrect == SuiteSpec => []PublishedRunIsWhole
<1>1. SuiteInv => PublishedRunIsWhole
  BY DEF SuiteInv
<1> QED
  BY <1>1, SuiteInvariant, PTL

(* The evidence of a published run is of the source it was bound to, or    *)
(* the source was edited and edited back: what verify_source_snapshot at   *)
(* both ends can promise, for any edits and any schedule of workers.       *)
THEOREM EditsCorrect == SuiteSpec => []OnlyRevertedEditsUnseen
<1>1. SuiteInv => OnlyRevertedEditsUnseen
  BY DEF SuiteInv
<1> QED
  BY <1>1, SuiteInvariant, PTL

(* An execution that is refused leaves no reservation, and the store lists *)
(* complete runs, each once (_remove_empty_run_reservation and             *)
(* _persist_execution).                                                    *)
THEOREM RecordsCorrect == SuiteSpec => []OnlyCompleteRunsAreKept
<1>1. SuiteInv => OnlyCompleteRunsAreKept
  BY DEF SuiteInv
<1> QED
  BY <1>1, SuiteInvariant, PTL

(* The loader's binding checks accept every complete run, and what is      *)
(* rendered is of one execution (_validate_execution_bindings).            *)
THEOREM ReportsCorrect == SuiteSpec => []ReportsAreOfOneRun
<1>1. SuiteInv => ReportsAreOfOneRun
  <2> SUFFICES ASSUME SuiteInv, NEW e \in Execution
               PROVE  /\ exec[e].pc # "invalid"
                      /\ exec[e].pc = "rendering" =>
                           \A f \in Required :
                             dirs[exec[e].cmd.run].files[f].by = exec[e].author
    BY DEF ReportsAreOfOneRun
  <2>1. Reads(e) /\ Placed(e)
    BY OwnParts
  <2>2. CASE exec[e].pc = "rendering"
    <3>1. exec[e].cmd.run \in RunId
      BY <2>1, <2>2, HolderPlaced
    <3>2. PICK r \in RunId : r = exec[e].cmd.run
      BY <3>1
    <3> QED
      BY <2>1, <2>2, <3>2, CompleteIsWhole DEF Reads
  <2> QED
    BY <2>1, <2>2 DEF Reads
<1> QED
  BY <1>1, SuiteInvariant, PTL

(* A published run is never removed and its evidence never changes,        *)
(* whatever other commands begin, fail or are killed.                      *)
THEOREM PublishedStaysCorrect == SuiteSpec => PublishedRunsStay
<1> DEFINE Stay == \A r \in RunId : Complete(r) =>
                     /\ Complete(r)'
                     /\ \A f \in Required : dirs'[r].files[f] = dirs[r].files[f]
<1>1. SuiteInv /\ [Next]_vars => [Stay]_vars
  <2> SUFFICES ASSUME SuiteInv, Next PROVE Stay
    OBVIOUS
  <2>1. CASE Edit
    BY <2>1 DEF Edit, Complete
  <2>2. CASE \E e \in Execution : StepBy(e)
    <3>1. PICK e \in Execution : StepBy(e)
      BY <2>2
    <3>2. StepOf(e)
      BY <3>1, OwnParts, Frame
    <3> QED
      BY <3>2, PublishedStays, StaysComplete
  <2> QED
    BY <2>1, <2>2 DEF Next, StepBy
<1> QED
  BY <1>1, SuiteInvariant, PTL DEF SuiteSpec, PublishedRunsStay
=============================================================================

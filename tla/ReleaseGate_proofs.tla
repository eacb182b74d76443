-------------------------- MODULE ReleaseGate_proofs --------------------------
(* What a passing gate, a comparison of two runs and a selection show, for   *)
(* any suites, observations, caps and limits.                                *)
EXTENDS ReleaseGate, FiniteSetTheorems, FunctionTheorems, NaturalsInduction,
        WellFoundedInduction, TLAPS

-----------------------------------------------------------------------------
(* The runs stored and the gate.                                             *)
Units == UNION {ToSet(s.pool) : s \in Suites}
Case == [unit : Units, seen : Observations]
Run ==
  [cases : {cs \in SUBSET Case : IsFiniteSet(cs)}, spec : {s.spec : s \in Suites},
   of : Suites, excluded : SUBSET {u.id : u \in Units}]

GateTypeOK ==
  /\ suite \in Suites
  /\ runs \in Seq(Run)
  /\ gate = [pc |-> gate.pc, run |-> gate.run, code |-> gate.code,
             against |-> gate.against]
  /\ gate.pc \in {"idle", "executed", "decided"}
  /\ gate.pc # "idle" => gate.run \in DOMAIN runs
  /\ gate.code # None => gate.pc = "decided"

(* The snapshot of a run, whatever runs are stored.                          *)
CasesOf(run) == {CaseRecord(c.unit, c.seen) : c \in run.cases}

-----------------------------------------------------------------------------
(* A passing gate.                                                           *)

LEMMA VerdictType ==
  \A o : CaseVerdict(o) \in {"PASS", "FAIL", "INCONCLUSIVE", "INFRA_ERROR"}
BY DEF CaseVerdict, Verdict

(* A verdict that is not counted is the verdict of no case.                  *)
LEMMA NothingCounted ==
  ASSUME NEW run \in Run, NEW v, ~(Count(run, v) > 0)
  PROVE  \A c \in run.cases : CaseVerdict(c.seen) # v
<1> DEFINE S == {c \in run.cases : CaseVerdict(c.seen) = v}
<1>1. IsFiniteSet(run.cases)
  BY DEF Run
<1>2. IsFiniteSet(S)
  BY <1>1, FS_Subset
<1>3. Cardinality(S) = 0
  BY <1>2, FS_CardinalityType DEF Count
<1>4. S = {}
  BY <1>2, <1>3, FS_EmptySet
<1> QED
  BY <1>4

(* A case is not to be taken for a missing one.                              *)
LEMMA CaseIsSome ==
  ASSUME NEW run \in Run
  PROVE  \A d \in CasesOf(run) : d # None
<1>1. \A c \in run.cases : c.unit \in Units /\ c.seen \in Observations
  BY DEF Run, Case
<1> QED
  BY <1>1, ReleaseGateAssumption DEF CasesOf, Units

(* A comparison has a pair for every case of the head, and pairs it with a   *)
(* case of the same behaviour or the same id, or with none.                  *)
LEMMA EveryCasePaired ==
  ASSUME NEW base, NEW head, NEW d \in head.cases
  PROVE  \E p \in Pairs(base, head) :
           /\ p.new = d
           /\ \/ p.old = None
              \/ p.old \in base.cases /\ (p.old.print = d.print \/ p.old.id = d.id)
<1> DEFINE same == {p \in base.cases \X head.cases : p[1].print = p[2].print}
           olds == base.cases \ {p[1] : p \in same}
           news == head.cases \ {p[2] : p \in same}
           changed == {p \in olds \X news : p[1].id = p[2].id}
           A == {[old |-> p[1], new |-> p[2], changed |-> FALSE] : p \in same}
           B == {[old |-> p[1], new |-> p[2], changed |-> TRUE] : p \in changed}
           C == {[old |-> None, new |-> c, changed |-> FALSE] :
                   c \in news \ {p[2] : p \in changed}}
<1>1. /\ A \subseteq Pairs(base, head)
      /\ B \subseteq Pairs(base, head)
      /\ C \subseteq Pairs(base, head)
  BY DEF Pairs
<1>2. CASE d \notin news
  <2>1. PICK p \in same : p[2] = d
    BY <1>2
  <2>2. [old |-> p[1], new |-> p[2], changed |-> FALSE] \in Pairs(base, head)
    BY <1>1
  <2>3. p[1] \in base.cases /\ p[1].print = d.print
    BY <2>1
  <2> QED
    BY <2>1, <2>2, <2>3
<1>3. CASE \E p \in changed : p[2] = d
  <2>1. PICK p \in changed : p[2] = d
    BY <1>3
  <2>2. [old |-> p[1], new |-> p[2], changed |-> TRUE] \in Pairs(base, head)
    BY <1>1
  <2>3. p[1] \in base.cases /\ p[1].id = d.id
    BY <2>1
  <2> QED
    BY <2>1, <2>2, <2>3
<1>4. CASE d \in news /\ ~\E p \in changed : p[2] = d
  <2>1. d \in news \ {p[2] : p \in changed}
    BY <1>4
  <2>2. [old |-> None, new |-> d, changed |-> FALSE] \in C
    BY <2>1
  <2>3. [old |-> None, new |-> d, changed |-> FALSE] \in Pairs(base, head)
    BY <1>1, <2>2
  <2> QED
    BY <2>3
<1> QED
  BY <1>2, <1>3, <1>4

(* Where a check finds nothing to block, a failure of the head is one of the *)
(* base, with the same identity.                                             *)
LEMMA KnownFailure ==
  ASSUME NEW base, NEW head, CheckCode(Items(base, head)) = 0,
         NEW d \in head.cases, d # None, d.verdict = "FAIL"
  PROVE  \E b \in base.cases :
           /\ b.verdict = "FAIL"
           /\ b.failure = d.failure /\ b.failure # None
           /\ b.print = d.print \/ b.id = d.id
<1>1. PICK p \in Pairs(base, head) :
        /\ p.new = d
        /\ \/ p.old = None
           \/ p.old \in base.cases /\ (p.old.print = d.print \/ p.old.id = d.id)
  BY EveryCasePaired
<1>2. \E i \in Items(base, head) : i.category = Category(p)
  <2> DEFINE i == [pair |-> p, category |-> Category(p),
                   id |-> IF p.new # None THEN p.new.id ELSE p.old.id,
                   print |-> IF p.new # None THEN p.new.print ELSE p.old.print]
  <2>1. i \in Items(base, head)
    BY Zenon DEF Items
  <2>2. i.category = Category(p)
    OBVIOUS
  <2> QED
    BY Zenon, <2>1, <2>2
<1>3. Category(p) \notin Uncertifiable /\ Category(p) \notin Blocking
  BY <1>2 DEF CheckCode
<1>4. Category(p) = FailureCategory(p)
  BY <1>1, <1>3 DEF Category, Is, Uncertifiable
<1>5. Is(p.old, "FAIL")
  BY <1>3, <1>4 DEF FailureCategory, Blocking
<1>6. None \notin {p.old.failure, p.new.failure}
  BY <1>3, <1>4, <1>5 DEF FailureCategory, Uncertifiable
<1>7. p.old.failure = p.new.failure
  BY <1>3, <1>4, <1>5, <1>6 DEF FailureCategory, Blocking
<1> QED
  BY <1>1, <1>5, <1>6, <1>7 DEF Is

(* What PassesAreEarned asks of a run and the baseline it was held against.  *)
Earned(run, base) ==
  /\ Unmet(run) = {}
  /\ \A c \in run.cases :
       \/ CaseVerdict(c.seen) = "PASS"
       \/ /\ CaseVerdict(c.seen) = "FAIL"
          /\ base # None
          /\ base.spec = run.spec
          /\ \E b \in base.cases :
               /\ b.verdict = "FAIL"
               /\ b.failure = Signature(c.seen) /\ b.failure # None
               /\ b.print = c.unit.print \/ b.id = c.unit.id

(* The gate answers 0 for an earned pass only.                               *)
LEMMA GateCodeEarned ==
  ASSUME NEW r, runs[r] \in Run, GateCode(r) = 0
  PROVE  Earned(runs[r], baseline)
<1> DEFINE run == runs[r]
           head == Snapshot(r)
           checked == CheckAnswer(baseline, head)
<1>1. head.spec = run.spec /\ head.cases = CasesOf(run)
  BY DEF Snapshot, CasesOf
<1>2. checked \in {0, 1, 2} /\ Floor(run) \in {0, 3}
  BY DEF CheckAnswer, CheckCode, Floor
<1>3. /\ ~(Count(run, "INFRA_ERROR") > 0)
      /\ baseline = None => ~(Count(run, "FAIL") > 0) /\ Floor(run) = 0
      /\ baseline # None => checked = 0 /\ Floor(run) = 0
  <2> HIDE DEF run, head, checked
  <2>1. GateCode(r) =
          IF Count(run, "INFRA_ERROR") > 0 THEN 2
          ELSE IF baseline = None
               THEN IF Count(run, "FAIL") > 0 THEN 1 ELSE Floor(run)
          ELSE IF checked = 0 THEN Floor(run) ELSE checked
    BY DEF GateCode, run, head, checked
  <2> QED
    BY <1>2, <2>1
<1>4. ~(Count(run, "INCONCLUSIVE") > 0) /\ Unmet(run) = {}
  BY <1>3 DEF Floor
<1>5. \A c \in run.cases : CaseVerdict(c.seen) \in {"PASS", "FAIL"}
  <2>1. \A c \in run.cases : CaseVerdict(c.seen) # "INFRA_ERROR"
    BY <1>3, NothingCounted
  <2>2. \A c \in run.cases : CaseVerdict(c.seen) # "INCONCLUSIVE"
    BY <1>4, NothingCounted
  <2> QED
    BY <2>1, <2>2, VerdictType
<1>6. ASSUME NEW c \in run.cases, CaseVerdict(c.seen) = "FAIL"
      PROVE  /\ baseline # None
             /\ baseline.spec = run.spec
             /\ \E b \in baseline.cases :
                  /\ b.verdict = "FAIL"
                  /\ b.failure = Signature(c.seen) /\ b.failure # None
                  /\ b.print = c.unit.print \/ b.id = c.unit.id
  <2> DEFINE d == CaseRecord(c.unit, c.seen)
  <2>1. baseline # None
    <3>1. baseline = None => \A e \in run.cases : CaseVerdict(e.seen) # "FAIL"
      BY <1>3, NothingCounted
    <3> QED
      BY <1>6, <3>1
  <2>2. /\ baseline.spec = run.spec
        /\ CheckCode(Items(baseline, head)) = 0
    <3>1. ~CheckRefuses(baseline, head) /\ CheckCode(Items(baseline, head)) = 0
      BY <1>3, <2>1 DEF CheckAnswer
    <3> QED
      BY <1>1, <3>1 DEF CheckRefuses
  <2>3. d \in head.cases /\ d \in CasesOf(run)
    BY <1>1 DEF CasesOf
  <2>4. d # None
    BY <2>3, CaseIsSome
  <2>5. d.verdict = "FAIL" /\ d.failure = Signature(c.seen)
        /\ d.print = c.unit.print /\ d.id = c.unit.id
    BY <1>6 DEF CaseRecord
  <2> HIDE DEF d, head
  <2>6. \E b \in baseline.cases :
          /\ b.verdict = "FAIL"
          /\ b.failure = d.failure /\ b.failure # None
          /\ b.print = d.print \/ b.id = d.id
    BY <2>2, <2>3, <2>4, <2>5, KnownFailure
  <2> QED
    BY <2>1, <2>2, <2>5, <2>6
<1> QED
  BY <1>4, <1>5, <1>6 DEF Earned
-----------------------------------------------------------------------------
(* Iterations.  What needs an induction is shown of the least number for     *)
(* which it would not hold.                                                  *)

LEMMA LeastNumber ==
  ASSUME NEW T \in SUBSET Nat, T # {}
  PROVE  \E n \in T : \A m \in T : n <= m
<1>1. PICK n \in T : \A m \in T : ~(<<m, n>> \in OpToRel(<, Nat))
  BY NatLessThanWellFounded, WFMin
<1>2. \A m \in T : ~(m < n)
  BY <1>1 DEF OpToRel
<1> QED
  BY <1>2

(* The iterates of a step st from b.                                         *)
Iterates(g, n, b, st) ==
  g = [k \in 0..n |-> IF k = 0 THEN b ELSE st[<<k, g[k - 1]>>]]

(* There are as many iterates as there are steps.                            *)
LEMMA IterationExists ==
  ASSUME NEW n \in Nat, NEW V, NEW b \in V, NEW st \in [(1..n) \X V -> V]
  PROVE  \E g \in [0..n -> V] : Iterates(g, n, b, st)
<1> DEFINE Partial(g, m) ==
             \A k \in 0..m : g[k] = IF k = 0 THEN b ELSE st[<<k, g[k - 1]>>]
           Bad == {m \in 0..n : ~\E g \in [0..m -> V] : Partial(g, m)}
<1>1. Bad = {}
  <2> SUFFICES ASSUME Bad # {} PROVE FALSE
    OBVIOUS
  <2>1. Bad \in SUBSET Nat
    OBVIOUS
  <2>2. PICK m \in Bad : \A k \in Bad : m <= k
    <3> HIDE DEF Bad
    <3> QED
      BY <2>1, LeastNumber
  <2>3. m \in 0..n /\ ~\E g \in [0..m -> V] : Partial(g, m)
    OBVIOUS
  <2>4. CASE m = 0
    <3> DEFINE g == [k \in 0..0 |-> b]
    <3>1. g \in [0..m -> V] /\ Partial(g, m)
      BY <2>4
    <3> QED
      BY <2>3, <3>1
  <2>5. CASE m # 0
    <3>1. m - 1 \in 0..n /\ m - 1 \notin Bad
      BY <2>2, <2>3, <2>5, SMTT(60)
    <3>2. PICK h \in [0..(m - 1) -> V] : Partial(h, m - 1)
      BY <3>1
    <3> DEFINE g == [k \in 0..m |-> IF k = m THEN st[<<m, h[m - 1]>>] ELSE h[k]]
    <3>3. h[m - 1] \in V /\ m \in 1..n
      BY <2>3, <2>5
    <3>4. st[<<m, h[m - 1]>>] \in V
      BY <3>3
    <3>5. g \in [0..m -> V]
      BY <3>4
    <3>6. ASSUME NEW k \in 0..m
          PROVE  g[k] = IF k = 0 THEN b ELSE st[<<k, g[k - 1]>>]
      <4>1. CASE k = m
        BY <2>3, <2>5, <4>1, SMTT(60)
      <4>2. CASE k # m
        <5>1. k \in 0..(m - 1) /\ g[k] = h[k] /\ (k # 0 => g[k - 1] = h[k - 1])
          BY <2>3, <4>2
        <5>2. h[k] = IF k = 0 THEN b ELSE st[<<k, h[k - 1]>>]
          BY <3>2, <5>1
        <5> HIDE DEF g
        <5> QED
          BY <5>1, <5>2
      <4> QED
        BY <4>1, <4>2
    <3> QED
      BY <2>3, <3>5, <3>6
  <2> QED
    BY <2>4, <2>5
<1>2. PICK g \in [0..n -> V] : Partial(g, n)
  BY <1>1
<1>3. g = [k \in 0..n |-> IF k = 0 THEN b ELSE st[<<k, g[k - 1]>>]]
  BY <1>2
<1> QED
  BY <1>3 DEF Iterates
-----------------------------------------------------------------------------
(* The scan for the candidate that covers most.                              *)

(* The units of a pool: their ids tell them apart.                           *)
UnitsOK(S) ==
  /\ \A u \in S : /\ u # NoUnit
                  /\ u.id \in Nat /\ u.print \in Nat
                  /\ IsFiniteSet(u.dims) /\ u.mandatory \in BOOLEAN
  /\ \A u, v \in S : u.id = v.id => u = v

LEMMA GainType ==
  ASSUME NEW u, IsFiniteSet(u.dims), NEW D
  PROVE  Gain(u, D) \in Nat
<1>1. IsFiniteSet(u.dims \cap D)
  BY FS_Subset
<1> QED
  BY <1>1, FS_CardinalityType DEF Gain

LEMMA PoolUnits ==
  ASSUME NEW pool, PoolOK(pool)
  PROVE  /\ UnitsOK(ToSet(pool))
         /\ Len(pool) \in Nat
         /\ DOMAIN pool = 1..Len(pool)
         /\ \A k \in 1..Len(pool) : pool[k] \in ToSet(pool)
         /\ ToSet(pool) = {pool[k] : k \in 1..Len(pool)}
<1>1. pool \in Seq(ToSet(pool))
  BY DEF PoolOK
<1>2. Len(pool) \in Nat /\ DOMAIN pool = 1..Len(pool)
  BY <1>1
<1>3. ToSet(pool) = {pool[k] : k \in 1..Len(pool)}
  BY <1>2 DEF ToSet
<1>4. \A u, v \in ToSet(pool) : u.id = v.id => u = v
  <2> SUFFICES ASSUME NEW u \in ToSet(pool), NEW v \in ToSet(pool), u.id = v.id
               PROVE  u = v
    OBVIOUS
  <2>1. PICK m \in 1..Len(pool) : pool[m] = u
    BY <1>3
  <2>2. PICK n \in 1..Len(pool) : pool[n] = v
    BY <1>3
  <2>3. m = n
    BY <1>2, <2>1, <2>2 DEF PoolOK
  <2> QED
    BY <2>1, <2>2, <2>3
<1> QED
  BY <1>2, <1>3, <1>4 DEF PoolOK, UnitsOK

(* b covers most of D, of what is left of S; of several the one with the     *)
(* smallest id, and no unit where none covers any.                           *)
IsBest(b, S, chosen, D) ==
  \/ b = NoUnit /\ \A u \in S \ chosen : Gain(u, D) = 0
  \/ /\ b \in S \ chosen
     /\ Gain(b, D) > 0
     /\ \A u \in S \ chosen : u # b =>
          \/ Gain(u, D) < Gain(b, D)
          \/ Gain(u, D) = Gain(b, D) /\ b.id < u.id

LEMMA BestUnique ==
  ASSUME NEW S, UnitsOK(S), NEW chosen, NEW D, NEW a, NEW b,
         IsBest(a, S, chosen, D), IsBest(b, S, chosen, D)
  PROVE  a = b
<1>1. \A u \in S : Gain(u, D) \in Nat /\ u.id \in Nat
  BY GainType DEF UnitsOK
<1> QED
  BY <1>1 DEF IsBest

(* One step of the scan.                                                     *)
Scan(u, best, chosen, D) ==
  IF u \notin chosen /\ Better(u, best, D) THEN u ELSE best

LEMMA ScanBest ==
  ASSUME NEW S, NEW u, UnitsOK(S \cup {u}), NEW chosen, NEW D, NEW b,
         IsBest(b, S, chosen, D)
  PROVE  IsBest(Scan(u, b, chosen, D), S \cup {u}, chosen, D)
<1>1. /\ \A v \in S \cup {u} : Gain(v, D) \in Nat /\ v.id \in Nat /\ v.print \in Nat
      /\ \A v \in S \cup {u} : v # NoUnit
      /\ \A v, w \in S \cup {u} : v.id = w.id => v = w
  BY GainType DEF UnitsOK
<1>2. b = NoUnit \/ b \in S
  BY DEF IsBest
<1>3. CASE u \in chosen
  <2>1. Scan(u, b, chosen, D) = b /\ (S \cup {u}) \ chosen = S \ chosen
    BY <1>3 DEF Scan
  <2> QED
    BY <2>1 DEF IsBest
<1>4. CASE u \notin chosen /\ Better(u, b, D)
  <2>1. Scan(u, b, chosen, D) = u
    BY <1>4 DEF Scan
  <2>2. Gain(u, D) > 0
    BY <1>4 DEF Better
  <2>3. CASE b = NoUnit
    <3>1. \A v \in S \ chosen : Gain(v, D) = 0
      BY <1>1, <2>3 DEF IsBest
    <3> QED
      BY <1>1, <1>4, <2>1, <2>2, <3>1 DEF IsBest
  <2>4. CASE b # NoUnit
    <3>1. /\ b \in S \ chosen
          /\ \A v \in S \ chosen : v # b =>
               \/ Gain(v, D) < Gain(b, D)
               \/ Gain(v, D) = Gain(b, D) /\ b.id < v.id
      BY <2>4 DEF IsBest
    <3>2. \/ Gain(u, D) > Gain(b, D)
          \/ Gain(u, D) = Gain(b, D) /\ (u.id < b.id \/ u.id = b.id)
      BY <1>4, <2>4 DEF Better, Before
    <3>3. ASSUME NEW v \in (S \cup {u}) \ chosen, v # u
          PROVE  \/ Gain(v, D) < Gain(u, D)
                 \/ Gain(v, D) = Gain(u, D) /\ u.id < v.id
      <4>1. v \in S \ chosen /\ v.id # u.id
        BY <1>1, <3>3
      <4>2. CASE v = b
        BY <1>1, <3>2, <4>1, <4>2
      <4>3. CASE v # b
        <5>1. /\ Gain(v, D) \in Nat /\ Gain(u, D) \in Nat /\ Gain(b, D) \in Nat
              /\ v.id \in Nat /\ u.id \in Nat /\ b.id \in Nat
          BY <1>1, <3>1, <4>1
        <5> QED
          BY <3>1, <3>2, <4>1, <4>3, <5>1
      <4> QED
        BY <4>2, <4>3
    <3> QED
      BY <1>4, <2>1, <2>2, <3>3 DEF IsBest
  <2> QED
    BY <2>3, <2>4
<1>5. CASE u \notin chosen /\ ~Better(u, b, D)
  <2>1. Scan(u, b, chosen, D) = b
    BY <1>5 DEF Scan
  <2>2. Gain(u, D) \in Nat
    BY <1>1
  <2>3. CASE b = NoUnit
    <3>1. Gain(u, D) = 0
      BY <1>5, <2>2, <2>3 DEF Better
    <3>2. \A v \in S \ chosen : Gain(v, D) = 0
      BY <1>1, <2>3 DEF IsBest
    <3> QED
      BY <2>1, <2>3, <3>1, <3>2 DEF IsBest
  <2>4. CASE b # NoUnit
    <3>1. /\ b \in S \ chosen /\ Gain(b, D) > 0
          /\ \A v \in S \ chosen : v # b =>
               \/ Gain(v, D) < Gain(b, D)
               \/ Gain(v, D) = Gain(b, D) /\ b.id < v.id
      BY <2>4 DEF IsBest
    <3>2. u # b => \/ Gain(u, D) < Gain(b, D)
                   \/ Gain(u, D) = Gain(b, D) /\ b.id < u.id
      <4>1. Gain(b, D) \in Nat /\ u.id \in Nat /\ b.id \in Nat
        BY <1>1, <3>1
      <4>2. u # b => u.id # b.id
        BY <1>1, <3>1
      <4> QED
        BY <1>5, <2>2, <3>1, <4>1, <4>2 DEF Better, Before
    <3> QED
      BY <2>1, <3>1, <3>2 DEF IsBest
  <2> QED
    BY <2>3, <2>4
<1> QED
  BY <1>3, <1>4, <1>5

(* The scan of a pool.                                                       *)
Scans(g, pool, chosen, D) ==
  g = [k \in 0..Len(pool) |->
         IF k = 0 THEN NoUnit ELSE Scan(pool[k], g[k - 1], chosen, D)]

LEMMA ScanExists ==
  ASSUME NEW pool, PoolOK(pool), NEW chosen, NEW D
  PROVE  \E g : Scans(g, pool, chosen, D)
<1> DEFINE n == Len(pool)
           V == ToSet(pool) \cup {NoUnit}
           st == [x \in (1..n) \X V |-> Scan(pool[x[1]], x[2], chosen, D)]
<1>1. n \in Nat /\ \A k \in 1..n : pool[k] \in ToSet(pool)
  BY PoolUnits
<1>2. st \in [(1..n) \X V -> V]
  BY <1>1 DEF Scan
<1>3. NoUnit \in V
  OBVIOUS
<1>4. PICK g \in [0..n -> V] : Iterates(g, n, NoUnit, st)
  <2> HIDE DEF n, V, st
  <2> QED
    BY <1>1, <1>2, <1>3, IterationExists
<1> DEFINE h == [k \in 0..n |->
                   IF k = 0 THEN NoUnit ELSE Scan(pool[k], g[k - 1], chosen, D)]
           i == [k \in 0..n |-> IF k = 0 THEN NoUnit ELSE st[<<k, g[k - 1]>>]]
<1>5. \A k \in 0..n : h[k] = i[k]
  <2> SUFFICES ASSUME NEW k \in 0..n PROVE h[k] = i[k]
    OBVIOUS
  <2>1. CASE k = 0
    BY <2>1
  <2>2. CASE k # 0
    <3>1. k \in 1..n /\ g[k - 1] \in V
      BY <1>1, <2>2
    <3>2. st[<<k, g[k - 1]>>] = Scan(pool[k], g[k - 1], chosen, D)
      BY <3>1
    <3> HIDE DEF st
    <3> QED
      BY <2>2, <3>2
  <2> QED
    BY <2>1, <2>2
<1>6. h = i
  <2> HIDE DEF st
  <2> QED
    BY <1>5
<1>7. g = i
  BY Zenon, <1>4 DEF Iterates
<1>8. g = h
  BY <1>6, <1>7
<1> QED
  BY Zenon, <1>8 DEF Scans

(* The scan finds the best candidate of the pool.                            *)
LEMMA BestFound ==
  ASSUME NEW pool, PoolOK(pool), NEW chosen, NEW D
  PROVE  IsBest(BestCandidate(pool, chosen, D), ToSet(pool), chosen, D)
<1> DEFINE n == Len(pool)
           g == CHOOSE h : Scans(h, pool, chosen, D)
           Seen(k) == {pool[i] : i \in 1..k}
           Bad == {k \in 0..n : ~IsBest(g[k], Seen(k), chosen, D)}
<1>1. BestCandidate(pool, chosen, D) = g[n]
  BY Zenon DEF BestCandidate, Scans, Scan
<1>2. Scans(g, pool, chosen, D)
  BY ScanExists
<1> HIDE DEF g
<1>3. /\ n \in Nat /\ ToSet(pool) = Seen(n) /\ UnitsOK(ToSet(pool))
      /\ \A k \in 1..n : pool[k] \in ToSet(pool)
  BY PoolUnits
<1>4. \A k \in 0..n : g[k] = IF k = 0 THEN NoUnit
                             ELSE Scan(pool[k], g[k - 1], chosen, D)
  <2> DEFINE h == [k \in 0..n |->
                     IF k = 0 THEN NoUnit ELSE Scan(pool[k], g[k - 1], chosen, D)]
  <2>1. g = h
    BY Zenon, <1>2 DEF Scans
  <2>2. \A k \in 0..n : h[k] = IF k = 0 THEN NoUnit
                               ELSE Scan(pool[k], g[k - 1], chosen, D)
    OBVIOUS
  <2> HIDE DEF h
  <2> QED
    BY <2>1, <2>2
<1>5. Bad = {}
  <2> SUFFICES ASSUME Bad # {} PROVE FALSE
    OBVIOUS
  <2>1. Bad \in SUBSET Nat
    BY <1>3
  <2>2. PICK k \in Bad : \A m \in Bad : k <= m
    <3> HIDE DEF Bad
    <3> QED
      BY <2>1, LeastNumber
  <2>3. k \in 0..n /\ ~IsBest(g[k], Seen(k), chosen, D)
    OBVIOUS
  <2>4. CASE k = 0
    <3>1. g[k] = NoUnit /\ Seen(k) = {}
      BY <1>4, <2>3, <2>4
    <3> HIDE DEF Seen
    <3> QED
      BY <2>3, <3>1 DEF IsBest
  <2>5. CASE k # 0
    <3>1. k - 1 \in 0..n /\ k - 1 \notin Bad /\ k \in 1..n
      <4>1. n \in Nat /\ k \in 0..n
        BY <1>3, <2>3
      <4> HIDE DEF Bad, Seen, n
      <4> QED
        BY <2>2, <2>5, <4>1
    <3>2. IsBest(g[k - 1], Seen(k - 1), chosen, D)
      BY <3>1
    <3>3. Seen(k) = Seen(k - 1) \cup {pool[k]}
      <4>1. 1..k = (1..(k - 1)) \cup {k}
        BY <3>1
      <4> QED
        BY <4>1
    <3>4. UnitsOK(Seen(k - 1) \cup {pool[k]})
      <4>1. Seen(k - 1) \cup {pool[k]} \subseteq ToSet(pool)
        BY <1>3, <3>1
      <4> QED
        BY <1>3, <4>1 DEF UnitsOK
    <3>5. g[k] = Scan(pool[k], g[k - 1], chosen, D)
      BY <1>4, <2>3, <2>5
    <3> HIDE DEF Seen, Bad
    <3>6. IsBest(Scan(pool[k], g[k - 1], chosen, D), Seen(k - 1) \cup {pool[k]},
                 chosen, D)
      BY <3>2, <3>4, ScanBest
    <3> QED
      BY <2>3, <3>3, <3>5, <3>6
  <2> QED
    BY <2>4, <2>5
<1>6. IsBest(g[n], Seen(n), chosen, D)
  <2>1. n \in 0..n
    BY <1>3
  <2> HIDE DEF Seen, n
  <2> QED
    BY <1>5, <2>1
<1> QED
  BY <1>1, <1>3, <1>6

(* It finds the same one whatever the order of the pool.                     *)
LEMMA BestAlike ==
  ASSUME NEW pool, PoolOK(pool), NEW order, PoolOK(order),
         ToSet(order) = ToSet(pool), NEW chosen, NEW D
  PROVE  BestCandidate(order, chosen, D) = BestCandidate(pool, chosen, D)
<1>1. IsBest(BestCandidate(pool, chosen, D), ToSet(pool), chosen, D)
  BY BestFound
<1>2. IsBest(BestCandidate(order, chosen, D), ToSet(pool), chosen, D)
  BY BestFound
<1>3. UnitsOK(ToSet(pool))
  BY PoolUnits
<1> QED
  BY <1>1, <1>2, <1>3, BestUnique
-----------------------------------------------------------------------------
(* The rounds of the greedy set cover.                                       *)

LEMMA PoolSize ==
  ASSUME NEW pool, PoolOK(pool)
  PROVE  IsFiniteSet(ToSet(pool)) /\ Cardinality(ToSet(pool)) = Len(pool)
<1> DEFINE n == Len(pool)
           S == ToSet(pool)
<1>1. /\ n \in Nat /\ DOMAIN pool = 1..n /\ S = {pool[k] : k \in 1..n}
      /\ \A k \in 1..n : pool[k] \in S
  BY PoolUnits
<1>2. pool = [k \in 1..n |-> pool[k]]
  BY <1>1 DEF PoolOK
<1> HIDE DEF n, S
<1>3. pool \in [1..n -> S]
  BY <1>1, <1>2
<1>4. \A j, k \in 1..n : pool[j] = pool[k] => j = k
  BY <1>1 DEF PoolOK
<1>5. pool \in Bijection(1..n, S)
  <2>1. pool \in Injection(1..n, S)
    BY <1>3, <1>4 DEF Injection, IsInjective
  <2>2. pool \in Surjection(1..n, S)
    BY <1>1, <1>3 DEF Surjection
  <2> QED
    BY <2>1, <2>2 DEF Bijection
<1>6. ExistsBijection(1..n, S)
  BY <1>5 DEF ExistsBijection
<1>7. IsFiniteSet(1..n) /\ Cardinality(1..n) = n
  BY <1>1, FS_Interval
<1> QED
  BY <1>6, <1>7, FS_Bijection DEF n, S

(* What holds of the chosen units after k rounds: they hold the mandatory    *)
(* ones and keep to the cap, and where there are fewer than the cap and than *)
(* rounds they cover everything.                                             *)
RoundOK(c, k, pool, cap) ==
  /\ Mandatory(pool) \subseteq c
  /\ c \subseteq ToSet(pool)
  /\ Cardinality(Mandatory(pool)) <= cap => Cardinality(c) <= cap
  /\ \/ Cardinality(c) >= cap
     \/ Cardinality(c) >= k
     \/ Covered(ToSet(pool)) \subseteq Covered(c)

LEMMA RoundAdds ==
  ASSUME NEW pool, PoolOK(pool), NEW cap \in Nat, NEW k \in Nat, NEW c,
         RoundOK(c, k, pool, cap)
  PROVE  RoundOK(Extended(pool, cap, c), k + 1, pool, cap)
<1> DEFINE S == ToSet(pool)
           uncovered == Covered(S) \ Covered(c)
           pick == BestCandidate(pool, c, uncovered)
<1>1. IsBest(pick, S, c, uncovered)
  BY BestFound
<1>2. Extended(pool, cap, c) =
        IF Cardinality(c) < cap /\ pick # NoUnit THEN c \cup {pick} ELSE c
  BY DEF Extended
<1>3. IsFiniteSet(c) /\ Cardinality(c) \in Nat /\ c \subseteq S
  <2>1. IsFiniteSet(S) /\ c \in SUBSET S
    BY PoolSize DEF RoundOK
  <2>2. IsFiniteSet(c)
    BY <2>1, FS_Subset
  <2> QED
    BY <2>1, <2>2, FS_CardinalityType
<1>4. UnitsOK(S)
  BY PoolUnits
<1>5. CASE Cardinality(c) >= cap
  BY <1>2, <1>3, <1>5 DEF RoundOK
<1>6. CASE Cardinality(c) < cap /\ pick # NoUnit
  <2> HIDE DEF pick, uncovered, S
  <2>1. pick \in S \ c
    BY <1>1, <1>6 DEF IsBest
  <2>2. /\ IsFiniteSet(c \cup {pick})
        /\ Cardinality(c \cup {pick}) = Cardinality(c) + 1
    BY <1>3, <2>1, FS_AddElement
  <2>3. Covered(c) \subseteq Covered(c \cup {pick})
    BY DEF Covered
  <2>4. Extended(pool, cap, c) = c \cup {pick}
    BY <1>2, <1>6
  <2>5. /\ Mandatory(pool) \subseteq c \cup {pick}
        /\ c \cup {pick} \subseteq ToSet(pool)
    BY <1>3, <2>1 DEF RoundOK, S
  <2>6. \/ Cardinality(c) + 1 >= cap
        \/ Cardinality(c) + 1 >= k + 1
        \/ Covered(ToSet(pool)) \subseteq Covered(c \cup {pick})
    <3>1. \/ Cardinality(c) >= k
          \/ Covered(ToSet(pool)) \subseteq Covered(c)
      BY <1>3, <1>6 DEF RoundOK
    <3>2. CASE Cardinality(c) >= k
      BY <1>3, <3>2
    <3>3. CASE Covered(ToSet(pool)) \subseteq Covered(c)
      BY <2>3, <3>3
    <3> QED
      BY <3>1, <3>2, <3>3
  <2>7. Cardinality(c) + 1 <= cap
    BY <1>3, <1>6
  <2> QED
    BY <2>2, <2>4, <2>5, <2>6, <2>7 DEF RoundOK
<1>7. CASE Cardinality(c) < cap /\ pick = NoUnit
  <2>1. \A u \in S \ c : Gain(u, uncovered) = 0
    BY <1>1, <1>4, <1>7 DEF IsBest, UnitsOK
  <2>2. \A u \in S \ c : u.dims \cap uncovered = {}
    <3> SUFFICES ASSUME NEW u \in S \ c PROVE u.dims \cap uncovered = {}
      OBVIOUS
    <3>1. IsFiniteSet(u.dims)
      BY <1>4 DEF UnitsOK
    <3>2. IsFiniteSet(u.dims \cap uncovered)
      BY <3>1, FS_Subset
    <3>3. Cardinality(u.dims \cap uncovered) = 0
      BY <2>1 DEF Gain
    <3> QED
      BY <3>2, <3>3, FS_EmptySet
  <2>3. Covered(S) \subseteq Covered(c)
    <3> SUFFICES ASSUME NEW d \in Covered(S), d \notin Covered(c) PROVE FALSE
      OBVIOUS
    <3>1. PICK u \in S : d \in u.dims
      BY DEF Covered
    <3>2. u \notin c
      BY <3>1 DEF Covered
    <3> QED
      BY <2>2, <3>1, <3>2
  <2>4. Extended(pool, cap, c) = c
    BY <1>2, <1>7
  <2> QED
    BY <2>3, <2>4 DEF RoundOK
<1> QED
  BY <1>3, <1>5, <1>6, <1>7

(* The rounds of a pool.                                                     *)
Rounds(g, pool, cap) ==
  g = [k \in 0..Len(pool) |->
         IF k = 0 THEN Mandatory(pool) ELSE Extended(pool, cap, g[k - 1])]

LEMMA RoundsExist ==
  ASSUME NEW pool, PoolOK(pool), NEW cap
  PROVE  \E g : Rounds(g, pool, cap)
<1> DEFINE n == Len(pool)
           V == SUBSET (ToSet(pool) \cup {NoUnit})
           st == [x \in (1..n) \X V |-> Extended(pool, cap, x[2])]
<1>1. n \in Nat
  BY PoolUnits
<1>2. \A c \in V : Extended(pool, cap, c) \in V
  <2> SUFFICES ASSUME NEW c \in V PROVE Extended(pool, cap, c) \in V
    OBVIOUS
  <2> DEFINE D == Covered(ToSet(pool)) \ Covered(c)
             pick == BestCandidate(pool, c, D)
  <2>1. IsBest(pick, ToSet(pool), c, D)
    BY BestFound
  <2>2. Extended(pool, cap, c) =
          IF Cardinality(c) < cap /\ pick # NoUnit THEN c \cup {pick} ELSE c
    BY DEF Extended
  <2> HIDE DEF pick
  <2>3. pick \in ToSet(pool) \cup {NoUnit}
    BY <2>1 DEF IsBest
  <2> QED
    BY <2>2, <2>3
<1>3. st \in [(1..n) \X V -> V]
  <2> HIDE DEF V
  <2> QED
    BY <1>2
<1>4. Mandatory(pool) \in V
  BY DEF Mandatory
<1>5. PICK g \in [0..n -> V] : Iterates(g, n, Mandatory(pool), st)
  <2> HIDE DEF n, V, st
  <2> QED
    BY <1>1, <1>3, <1>4, IterationExists
<1> HIDE DEF V
<1> DEFINE b == Mandatory(pool)
           h == [k \in 0..n |-> IF k = 0 THEN b ELSE Extended(pool, cap, g[k - 1])]
           i == [k \in 0..n |-> IF k = 0 THEN b ELSE st[<<k, g[k - 1]>>]]
<1> HIDE DEF b
<1>6. \A k \in 0..n : h[k] = i[k]
  <2> SUFFICES ASSUME NEW k \in 0..n PROVE h[k] = i[k]
    OBVIOUS
  <2>1. CASE k = 0
    BY <2>1
  <2>2. CASE k # 0
    <3>1. k \in 1..n /\ g[k - 1] \in V
      BY <1>1, <2>2
    <3>2. st[<<k, g[k - 1]>>] = Extended(pool, cap, g[k - 1])
      BY <3>1
    <3> HIDE DEF st
    <3> QED
      BY <2>2, <3>2
  <2> QED
    BY <2>1, <2>2
<1>7. h = i
  <2> HIDE DEF st
  <2> QED
    BY <1>6
<1>8. g = i
  BY Zenon, <1>5 DEF Iterates, b
<1>9. g = h
  BY <1>7, <1>8
<1> QED
  BY Zenon, <1>9 DEF Rounds, b

(* Every round is a step from the one before.                                *)
LEMMA RoundsAre ==
  ASSUME NEW pool, PoolOK(pool), NEW cap, NEW g, Rounds(g, pool, cap)
  PROVE  \A k \in 0..Len(pool) :
           g[k] = IF k = 0 THEN Mandatory(pool) ELSE Extended(pool, cap, g[k - 1])
<1> DEFINE b == Mandatory(pool)
           h == [k \in 0..Len(pool) |->
                   IF k = 0 THEN b ELSE Extended(pool, cap, g[k - 1])]
<1>1. g = h
  BY Zenon DEF Rounds
<1> HIDE DEF b
<1>2. \A k \in 0..Len(pool) :
        h[k] = IF k = 0 THEN b ELSE Extended(pool, cap, g[k - 1])
  OBVIOUS
<1> HIDE DEF h
<1> QED
  BY <1>1, <1>2 DEF b

(* Every round is as RoundOK says.                                           *)
LEMMA RoundsOK ==
  ASSUME NEW pool, PoolOK(pool), NEW cap \in Nat, NEW g, Rounds(g, pool, cap)
  PROVE  \A k \in 0..Len(pool) : RoundOK(g[k], k, pool, cap)
<1> DEFINE n == Len(pool)
           Bad == {k \in 0..n : ~RoundOK(g[k], k, pool, cap)}
<1>1. n \in Nat
  BY PoolUnits
<1>2. \A k \in 0..n :
        g[k] = IF k = 0 THEN Mandatory(pool) ELSE Extended(pool, cap, g[k - 1])
  BY RoundsAre
<1> HIDE DEF n
<1> SUFFICES ASSUME Bad # {} PROVE FALSE
  BY DEF n
<1>3. Bad \in SUBSET Nat
  BY <1>1
<1>4. PICK k \in Bad : \A m \in Bad : k <= m
  <2> HIDE DEF Bad
  <2> QED
    BY <1>3, LeastNumber
<1>5. k \in 0..n /\ ~RoundOK(g[k], k, pool, cap)
  OBVIOUS
<1>6. CASE k = 0
  <2>1. g[k] = Mandatory(pool)
    BY <1>2, <1>5, <1>6
  <2>2. Mandatory(pool) \in SUBSET ToSet(pool)
    BY DEF Mandatory
  <2>3. IsFiniteSet(Mandatory(pool))
    <3>1. IsFiniteSet(ToSet(pool))
      BY PoolSize
    <3> QED
      BY <2>2, <3>1, FS_Subset
  <2>4. Cardinality(Mandatory(pool)) \in Nat
    BY <2>3, FS_CardinalityType
  <2> QED
    BY <1>5, <1>6, <2>1, <2>2, <2>4 DEF RoundOK
<1>7. CASE k # 0
  <2>1. k - 1 \in 0..n /\ k - 1 \notin Bad /\ k - 1 \in Nat
    <3> HIDE DEF Bad
    <3> QED
      BY <1>1, <1>4, <1>5, <1>7
  <2>2. RoundOK(g[k - 1], k - 1, pool, cap)
    BY <2>1
  <2>3. RoundOK(Extended(pool, cap, g[k - 1]), (k - 1) + 1, pool, cap)
    BY <2>1, <2>2, RoundAdds
  <2>4. g[k] = Extended(pool, cap, g[k - 1]) /\ (k - 1) + 1 = k
    BY <1>1, <1>2, <1>5, <1>7
  <2> QED
    BY <1>5, <2>3, <2>4
<1> QED
  BY <1>6, <1>7

(* What is selected is the last of some rounds.                              *)
LEMMA SelectedIs ==
  ASSUME NEW pool, PoolOK(pool), NEW cap
  PROVE  \E g : Rounds(g, pool, cap) /\ Selected(pool, cap) = g[Len(pool)]
<1> DEFINE g == CHOOSE h : Rounds(h, pool, cap)
<1>1. Selected(pool, cap) = g[Len(pool)]
  BY Zenon DEF Selected, Rounds
<1>2. Rounds(g, pool, cap)
  BY RoundsExist
<1> QED
  BY <1>1, <1>2

(* What a run chooses covers all it can or is at its cap, holds every        *)
(* mandatory unit and keeps to the cap.                                      *)
LEMMA ChosenSuffices ==
  ASSUME NEW pool, PoolOK(pool), NEW max \in Nat \cup {NoCap},
         ~Refuses(pool, max)
  PROVE  LET c == Chosen(pool, max)
         IN  /\ Mandatory(pool) \subseteq c
             /\ c \subseteq ToSet(pool)
             /\ Cardinality(c) <= CapOf(pool, max)
             /\ \/ Covered(ToSet(pool)) \subseteq Covered(c)
                \/ Cardinality(c) = CapOf(pool, max)
<1> DEFINE c == Chosen(pool, max)
           cap == CapOf(pool, max)
           S == ToSet(pool)
<1>1. Len(pool) \in Nat /\ IsFiniteSet(S) /\ Cardinality(S) = Len(pool)
  BY PoolUnits, PoolSize
<1>2. cap \in Nat
  BY <1>1 DEF CapOf
<1>3. CASE KeepsAll(pool, max)
  <2>1. c = S /\ Cardinality(S) <= cap
    BY <1>1, <1>3, SelectionAssumption DEF Chosen, KeepsAll, CapOf
  <2> QED
    BY <2>1 DEF Mandatory
<1>4. CASE ~KeepsAll(pool, max)
  <2>1. c = Selected(pool, cap) /\ Cardinality(Mandatory(pool)) <= cap
    <3>1. ~(Cardinality(Mandatory(pool)) > cap)
      BY <1>4 DEF Refuses
    <3>2. IsFiniteSet(Mandatory(pool))
      <4>1. Mandatory(pool) \in SUBSET S
        BY DEF Mandatory
      <4> QED
        BY <1>1, <4>1, FS_Subset
    <3>3. Cardinality(Mandatory(pool)) \in Nat
      BY <3>2, FS_CardinalityType
    <3>4. c = Selected(pool, cap)
      BY <1>4 DEF Chosen
    <3> HIDE DEF cap, c
    <3> QED
      BY <1>2, <3>1, <3>3, <3>4
  <2>2. PICK g : Rounds(g, pool, cap) /\ Selected(pool, cap) = g[Len(pool)]
    BY SelectedIs
  <2> HIDE DEF cap, c, S
  <2>3. \A k \in 0..Len(pool) : RoundOK(g[k], k, pool, cap)
    BY <1>2, <2>2, RoundsOK
  <2>4. RoundOK(c, Len(pool), pool, cap)
    BY <1>1, <2>1, <2>2, <2>3
  <2>5. c \in SUBSET S /\ Mandatory(pool) \subseteq c /\ Cardinality(c) <= cap
    BY <2>1, <2>4 DEF RoundOK, S
  <2>6. IsFiniteSet(c)
    BY <1>1, <2>5, FS_Subset
  <2>7. /\ Cardinality(c) \in Nat
        /\ Cardinality(c) <= Cardinality(S)
        /\ Cardinality(S) = Cardinality(c) => S = c
    BY <1>1, <2>5, <2>6, FS_Subset, FS_CardinalityType
  <2>8. CASE Cardinality(c) >= cap
    <3>1. Cardinality(c) = cap
      BY <1>2, <2>5, <2>7, <2>8
    <3> QED
      BY <2>5, <3>1 DEF c, cap, S
  <2>9. CASE Cardinality(c) >= Len(pool)
    <3>1. S = c
      BY <1>1, <2>7, <2>9
    <3>2. Covered(S) \subseteq Covered(c)
      BY <3>1
    <3> QED
      BY <2>5, <3>2 DEF c, cap, S
  <2>10. CASE Covered(S) \subseteq Covered(c)
    BY <2>5, <2>10 DEF c, cap, S
  <2> QED
    BY <2>4, <2>8, <2>9, <2>10 DEF RoundOK, S
<1> QED
  BY <1>3, <1>4
-----------------------------------------------------------------------------
(* The order of the pool makes no difference.                                *)

LEMMA SelectedAlike ==
  ASSUME NEW pool, PoolOK(pool), NEW order, PoolOK(order),
         ToSet(order) = ToSet(pool), NEW cap
  PROVE  Selected(order, cap) = Selected(pool, cap)
<1> DEFINE n == Len(pool)
<1>1. n \in Nat /\ Len(order) = n
  BY PoolUnits, PoolSize
<1>2. Mandatory(order) = Mandatory(pool)
  BY DEF Mandatory
<1>3. \A c : Extended(order, cap, c) = Extended(pool, cap, c)
  <2> SUFFICES ASSUME NEW c
               PROVE  Extended(order, cap, c) = Extended(pool, cap, c)
    OBVIOUS
  <2> DEFINE D == Covered(ToSet(pool)) \ Covered(c)
  <2>1. BestCandidate(order, c, D) = BestCandidate(pool, c, D)
    BY BestAlike
  <2> QED
    BY <2>1 DEF Extended
<1>4. PICK g : Rounds(g, pool, cap) /\ Selected(pool, cap) = g[Len(pool)]
  BY SelectedIs
<1>5. PICK h : Rounds(h, order, cap) /\ Selected(order, cap) = h[Len(order)]
  BY SelectedIs
<1>6. \A k \in 0..n :
        g[k] = IF k = 0 THEN Mandatory(pool) ELSE Extended(pool, cap, g[k - 1])
  BY <1>4, RoundsAre
<1>7. \A k \in 0..n :
        h[k] = IF k = 0 THEN Mandatory(pool) ELSE Extended(pool, cap, h[k - 1])
  <2>1. \A k \in 0..Len(order) :
          h[k] = IF k = 0 THEN Mandatory(order) ELSE Extended(order, cap, h[k - 1])
    BY <1>5, RoundsAre
  <2> QED
    BY <1>1, <1>2, <1>3, <2>1
<1> HIDE DEF n
<1> DEFINE Bad == {k \in 0..n : g[k] # h[k]}
<1>8. Bad = {}
  <2> SUFFICES ASSUME Bad # {} PROVE FALSE
    OBVIOUS
  <2>1. Bad \in SUBSET Nat
    BY <1>1
  <2>2. PICK k \in Bad : \A m \in Bad : k <= m
    <3> HIDE DEF Bad
    <3> QED
      BY <2>1, LeastNumber
  <2>3. k \in 0..n /\ g[k] # h[k]
    OBVIOUS
  <2>4. k # 0
    BY <1>6, <1>7, <2>3
  <2>5. k - 1 \in 0..n /\ k - 1 \notin Bad
    <3> HIDE DEF Bad
    <3> QED
      BY <1>1, <2>2, <2>3, <2>4
  <2>6. g[k - 1] = h[k - 1]
    BY <2>5
  <2> QED
    BY <1>6, <1>7, <2>3, <2>4, <2>6
<1>9. g[n] = h[n]
  <2>1. n \in 0..n
    BY <1>1
  <2> QED
    BY <1>8, <2>1
<1> QED
  BY <1>1, <1>4, <1>5, <1>9 DEF n

LEMMA ChosenAlike ==
  ASSUME NEW pool, PoolOK(pool), NEW order \in SetToSeqs(ToSet(pool)), NEW max
  PROVE  Chosen(order, max) = Chosen(pool, max)
<1> DEFINE S == ToSet(pool)
           n == Cardinality(S)
<1>1. /\ order \in [1..n -> S]
      /\ \A i, j \in 1..n : i # j => order[i] # order[j]
  BY DEF SetToSeqs
<1>2. IsFiniteSet(S) /\ n = Len(pool) /\ n \in Nat /\ UnitsOK(S)
  BY PoolSize, PoolUnits
<1> HIDE DEF n, S
<1>3. order \in Seq(S) /\ Len(order) = n /\ DOMAIN order = 1..n
  BY <1>1, <1>2
<1>4. IsFiniteSet(1..n) /\ Cardinality(1..n) = Cardinality(S)
  <2>1. n \in Nat
    BY <1>2
  <2>2. IsFiniteSet(1..n) /\ Cardinality(1..n) = n
    BY <2>1, FS_Interval
  <2> QED
    BY <2>2 DEF n
<1>5. order \in Surjection(1..n, S)
  <2>1. order \in Injection(1..n, S)
    BY <1>1 DEF Injection, IsInjective
  <2> QED
    BY <1>2, <1>4, <2>1, FS_Injection
<1>6. ToSet(order) = S
  <2>1. \A x \in S : \E i \in 1..n : order[i] = x
    BY <1>5 DEF Surjection
  <2> QED
    BY <1>1, <1>3, <2>1 DEF ToSet
<1>7. PoolOK(order)
  <2>1. \A i, j \in DOMAIN order : i # j => order[i].id # order[j].id
    BY <1>1, <1>2, <1>3 DEF UnitsOK
  <2> QED
    BY <1>2, <1>3, <1>6, <2>1 DEF PoolOK, UnitsOK
<1>8. KeepsAll(order, max) = KeepsAll(pool, max) /\ CapOf(order, max) = CapOf(pool, max)
  BY <1>2, <1>3 DEF KeepsAll, CapOf
<1>9. Selected(order, CapOf(pool, max)) = Selected(pool, CapOf(pool, max))
  BY <1>6, <1>7, SelectedAlike DEF S
<1> QED
  BY <1>6, <1>8, <1>9 DEF Chosen, S

(* All SelectionIsSufficient asks of what is chosen of a pool.               *)
LEMMA SelectionOK ==
  ASSUME NEW s \in Suites, ~Refuses(s.pool, s.max),
         NEW chosen, chosen = Chosen(s.pool, s.max)
  PROVE  /\ \A u \in ToSet(s.pool) : u.mandatory => u \in chosen
         /\ Cardinality(chosen) <= CapOf(s.pool, s.max)
         /\ \/ Covered(ToSet(s.pool)) \subseteq Covered(chosen)
            \/ Cardinality(chosen) = CapOf(s.pool, s.max)
         /\ \A u \in ToSet(s.pool) \ chosen :
              Reason(s.pool, s.max, chosen, u) = "redundant_coverage"
                <=> u.dims \subseteq Covered(chosen)
         /\ \A order \in SetToSeqs(ToSet(s.pool)) : Chosen(order, s.max) = chosen
<1>1. PoolOK(s.pool) /\ s.max \in Nat \cup {NoCap}
  BY ReleaseGateAssumption
<1>2. /\ Mandatory(s.pool) \subseteq chosen
      /\ Cardinality(chosen) <= CapOf(s.pool, s.max)
      /\ \/ Covered(ToSet(s.pool)) \subseteq Covered(chosen)
         \/ Cardinality(chosen) = CapOf(s.pool, s.max)
  BY <1>1, ChosenSuffices
<1>3. \A u \in ToSet(s.pool) \ chosen :
        Reason(s.pool, s.max, chosen, u) = "redundant_coverage"
          <=> u.dims \subseteq Covered(chosen)
  <2> SUFFICES ASSUME NEW u \in ToSet(s.pool) \ chosen
               PROVE  Reason(s.pool, s.max, chosen, u) = "redundant_coverage"
                        <=> u.dims \subseteq Covered(chosen)
    OBVIOUS
  <2>1. u \notin chosen
    OBVIOUS
  <2>2. CASE u.dims \subseteq Covered(chosen)
    BY <2>1, <2>2 DEF Reason
  <2>3. CASE ~(u.dims \subseteq Covered(chosen))
    BY <2>1, <2>3 DEF Reason
  <2> QED
    BY <2>2, <2>3
<1>4. \A order \in SetToSeqs(ToSet(s.pool)) : Chosen(order, s.max) = chosen
  BY <1>1, ChosenAlike
<1>5. \A u \in ToSet(s.pool) : u.mandatory => u \in chosen
  BY <1>2 DEF Mandatory
<1> QED
  BY <1>2, <1>3, <1>4, <1>5
-----------------------------------------------------------------------------
(* The comparison of two stored runs.                                        *)

(* The cases of a snapshot are none of them missing, and have ids and        *)
(* fingerprints to put them in order.                                        *)
SnapshotOK(snapshot) ==
  \A c \in snapshot.cases : c # None /\ c.id \in Nat /\ c.print \in Nat

LEMMA SnapshotIsOK ==
  ASSUME NEW r, runs[r] \in Run
  PROVE  SnapshotOK(Snapshot(r))
<1> SUFFICES ASSUME NEW c \in runs[r].cases
             PROVE  LET d == CaseRecord(c.unit, c.seen)
                    IN  d # None /\ d.id \in Nat /\ d.print \in Nat
  BY DEF SnapshotOK, Snapshot
<1>1. c.unit \in Units /\ c.seen \in Observations
  BY DEF Run, Case
<1>2. PICK s \in Suites : c.unit \in ToSet(s.pool)
  BY <1>1 DEF Units
<1>3. PoolOK(s.pool) /\ None # CaseRecord(c.unit, c.seen)
  BY <1>1, <1>2, ReleaseGateAssumption
<1>4. c.unit.id \in Nat /\ c.unit.print \in Nat
  BY <1>2, <1>3 DEF PoolOK
<1> QED
  BY <1>3, <1>4 DEF CaseRecord

(* The sides of a pair are cases of the base and of the head; one of them    *)
(* may be missing, not both.                                                 *)
LEMMA PairSides ==
  ASSUME NEW base, NEW head, SnapshotOK(head), NEW p \in Pairs(base, head)
  PROVE  /\ p.new = None \/ p.new \in head.cases
         /\ p.new = None => p.old \in base.cases
<1> DEFINE same == {q \in base.cases \X head.cases : q[1].print = q[2].print}
           olds == base.cases \ {q[1] : q \in same}
           news == head.cases \ {q[2] : q \in same}
           changed == {q \in olds \X news : q[1].id = q[2].id}
           A == {[old |-> q[1], new |-> q[2], changed |-> FALSE] : q \in same}
           B == {[old |-> q[1], new |-> q[2], changed |-> TRUE] : q \in changed}
           C == {[old |-> None, new |-> c, changed |-> FALSE] :
                   c \in news \ {q[2] : q \in changed}}
           D == {[old |-> c, new |-> None, changed |-> FALSE] :
                   c \in olds \ {q[1] : q \in changed}}
<1>1. Pairs(base, head) = A \cup B \cup C \cup D
  BY Zenon DEF Pairs
<1>2. same \subseteq base.cases \X head.cases /\ changed \subseteq olds \X news
  OBVIOUS
<1>3. olds \subseteq base.cases /\ news \subseteq head.cases
  OBVIOUS
<1> HIDE DEF same, olds, news, changed
<1>4. CASE p \in A
  <2>1. PICK q \in same : p = [old |-> q[1], new |-> q[2], changed |-> FALSE]
    BY <1>4
  <2>2. p.old = q[1] /\ p.new = q[2] /\ q[1] \in base.cases /\ q[2] \in head.cases
    BY <1>2, <2>1
  <2> QED
    BY <2>2
<1>5. CASE p \in B
  <2>1. PICK q \in changed : p = [old |-> q[1], new |-> q[2], changed |-> TRUE]
    BY <1>5
  <2>2. p.old = q[1] /\ p.new = q[2] /\ q[1] \in base.cases /\ q[2] \in head.cases
    BY <1>2, <1>3, <2>1
  <2> QED
    BY <2>2
<1>6. CASE p \in C
  <2>1. PICK c \in news : p = [old |-> None, new |-> c, changed |-> FALSE]
    BY <1>6
  <2>2. p.new = c /\ c \in head.cases /\ c # None
    BY <1>3, <2>1 DEF SnapshotOK
  <2> QED
    BY <2>2
<1>7. CASE p \in D
  <2>1. PICK c \in olds : p = [old |-> c, new |-> None, changed |-> FALSE]
    BY <1>7
  <2> QED
    BY <1>3, <2>1
<1> QED
  BY <1>1, <1>4, <1>5, <1>6, <1>7

(* The categories there are, and their ranks.                                *)
Categories ==
  {"new_regression", "changed_failure", "uncertifiable_failure",
   "unchanged_failure", "resolved_failure", "changed_scenario", "new_scenario",
   "removed_scenario", "deselected_scenario", "inconclusive_change",
   "infra_change", "unchanged"}

LEMMA CategoryType == \A p : Category(p) \in Categories
<1> SUFFICES ASSUME NEW p PROVE Category(p) \in Categories
  OBVIOUS
<1>1. FailureCategory(p) \in Categories
  <2>1. CASE ~Is(p.old, "FAIL")
    BY <2>1 DEF FailureCategory, Categories
  <2>2. CASE Is(p.old, "FAIL") /\ None \in {p.old.failure, p.new.failure}
    BY <2>2 DEF FailureCategory, Categories
  <2>3. CASE /\ Is(p.old, "FAIL") /\ None \notin {p.old.failure, p.new.failure}
             /\ p.old.failure # p.new.failure
    BY <2>3 DEF FailureCategory, Categories
  <2>4. CASE /\ Is(p.old, "FAIL") /\ None \notin {p.old.failure, p.new.failure}
             /\ p.old.failure = p.new.failure
    BY <2>4 DEF FailureCategory, Categories
  <2> QED
    BY <2>1, <2>2, <2>3, <2>4
<1>2. {"infra_change", "removed_scenario", "resolved_failure",
       "inconclusive_change", "new_scenario", "changed_scenario", "unchanged"}
        \subseteq Categories
  BY DEF Categories
<1> HIDE DEF Categories
<1> QED
  BY <1>1, <1>2 DEF Category

LEMMA OrderOfCategories ==
  /\ DOMAIN CategoryOrder = 1..12
  /\ CategoryOrder[1] = "new_regression"
  /\ CategoryOrder[2] = "changed_failure"
  /\ CategoryOrder[3] = "uncertifiable_failure"
  /\ CategoryOrder[4] = "unchanged_failure"
  /\ CategoryOrder[5] = "resolved_failure"
  /\ CategoryOrder[6] = "changed_scenario"
  /\ CategoryOrder[7] = "new_scenario"
  /\ CategoryOrder[8] = "removed_scenario"
  /\ CategoryOrder[9] = "deselected_scenario"
  /\ CategoryOrder[10] = "inconclusive_change"
  /\ CategoryOrder[11] = "infra_change"
  /\ CategoryOrder[12] = "unchanged"
BY DEF CategoryOrder

(* The categories that block are the first two.                              *)
LEMMA RankOK ==
  ASSUME NEW i, i.category \in Categories
  PROVE  /\ Rank(i) \in 1..12
         /\ Rank(i) <= 2 <=> i.category \in Blocking
<1>1. \E n \in 1..12 : CategoryOrder[n] = i.category
  BY OrderOfCategories DEF Categories
<1>2. Rank(i) \in 1..12 /\ CategoryOrder[Rank(i)] = i.category
  BY <1>1, OrderOfCategories DEF Rank
<1> DEFINE n == Rank(i)
<1>3. n \in 1..12 /\ CategoryOrder[n] = i.category
  BY <1>2
<1> HIDE DEF n
<1>4. n \in {1, 2} => i.category \in Blocking
  BY <1>3, OrderOfCategories DEF Blocking
<1>5. n \in {3, 4, 5, 6, 7} => i.category \notin Blocking
  BY <1>3, OrderOfCategories DEF Blocking
<1>6. n \in {8, 9, 10, 11, 12} => i.category \notin Blocking
  BY <1>3, OrderOfCategories DEF Blocking
<1>7. n \in {1, 2} \/ n \in {3, 4, 5, 6, 7} \/ n \in {8, 9, 10, 11, 12}
  BY <1>3
<1>8. n <= 2 <=> n \in {1, 2}
  BY <1>3
<1> QED
  BY <1>3, <1>4, <1>5, <1>6, <1>7, <1>8 DEF n

(* An item has a category, an id and a fingerprint.                          *)
ItemOK(i) == i.category \in Categories /\ i.id \in Nat /\ i.print \in Nat

LEMMA ItemsOK ==
  ASSUME NEW base, NEW head, SnapshotOK(base), SnapshotOK(head)
  PROVE  \A i \in Items(base, head) :
           /\ ItemOK(i)
           /\ i = [pair |-> i.pair, category |-> i.category, id |-> i.id,
                   print |-> i.print]
<1> SUFFICES ASSUME NEW i \in Items(base, head)
             PROVE  /\ ItemOK(i)
                    /\ i = [pair |-> i.pair, category |-> i.category, id |-> i.id,
                            print |-> i.print]
  OBVIOUS
<1>1. PICK p \in Pairs(base, head) :
        i = [pair |-> p, category |-> Category(p),
             id |-> IF p.new # None THEN p.new.id ELSE p.old.id,
             print |-> IF p.new # None THEN p.new.print ELSE p.old.print]
  BY Zenon DEF Items
<1>2. /\ p.new = None \/ p.new \in head.cases
      /\ p.new = None => p.old \in base.cases
  BY PairSides
<1>3. /\ i.category = Category(p)
      /\ i.id = IF p.new # None THEN p.new.id ELSE p.old.id
      /\ i.print = IF p.new # None THEN p.new.print ELSE p.old.print
      /\ i = [pair |-> i.pair, category |-> i.category, id |-> i.id,
              print |-> i.print]
  BY <1>1
<1>4. Category(p) \in Categories
  BY CategoryType
<1>5. i.id \in Nat /\ i.print \in Nat
  BY <1>2, <1>3 DEF SnapshotOK
<1> QED
  BY <1>3, <1>4, <1>5 DEF ItemOK

(* Of items some one comes first.                                            *)
LEMMA FirstItem ==
  ASSUME NEW S, S # {}, \A i \in S : ItemOK(i)
  PROVE  \E i \in S : \A j \in S : ~Precedes(j, i) /\ Rank(i) <= Rank(j)
<1>1. \A i \in S : Rank(i) \in 1..12 /\ i.id \in Nat /\ i.print \in Nat
  BY RankOK DEF ItemOK
<1> DEFINE Ranks == {Rank(i) : i \in S}
<1>2. PICK r \in Ranks : \A q \in Ranks : r <= q
  <2>1. Ranks \in SUBSET Nat /\ Ranks # {}
    BY <1>1
  <2> HIDE DEF Ranks
  <2> QED
    BY <2>1, LeastNumber
<1> DEFINE T == {i \in S : Rank(i) = r}
           Prints == {i.print : i \in T}
<1>3. PICK f \in Prints : \A q \in Prints : f <= q
  <2>1. Prints \in SUBSET Nat /\ Prints # {}
    BY <1>1, <1>2
  <2> HIDE DEF Prints
  <2> QED
    BY <2>1, LeastNumber
<1> DEFINE U == {i \in T : i.print = f}
           Ids == {i.id : i \in U}
<1>4. PICK d \in Ids : \A q \in Ids : d <= q
  <2>1. Ids \in SUBSET Nat /\ Ids # {}
    BY <1>1, <1>3
  <2> HIDE DEF Ids
  <2> QED
    BY <2>1, LeastNumber
<1>5. PICK i \in S : Rank(i) = r /\ i.print = f /\ i.id = d
  BY <1>4
<1>6. ASSUME NEW j \in S
      PROVE  ~Precedes(j, i) /\ Rank(i) <= Rank(j)
  <2>1. Rank(i) <= Rank(j)
    BY <1>2, <1>5
  <2>2. Rank(j) = r => f <= j.print
    BY <1>3
  <2>3. Rank(j) = r /\ j.print = f => d <= j.id
    BY <1>4
  <2>4. /\ Rank(i) \in Nat /\ Rank(j) \in Nat /\ i.print \in Nat /\ j.print \in Nat
        /\ i.id \in Nat /\ j.id \in Nat
    BY <1>1
  <2> QED
    BY <1>5, <2>1, <2>2, <2>3, <2>4 DEF Precedes
<1> QED
  BY <1>6

(* If an item blocks, one that is shown does.                                *)
LEMMA BlockingIsVisible ==
  ASSUME NEW S, \A i \in S : ItemOK(i)
  PROVE  (\E i \in S : i.category \in Blocking)
           <=> \E i \in Visible(S) : i.category \in Blocking
<1>1. ASSUME NEW b \in S, b.category \in Blocking
      PROVE  \E i \in Visible(S) : i.category \in Blocking
  <2>1. PICK i \in S : \A j \in S : ~Precedes(j, i) /\ Rank(i) <= Rank(j)
    BY FirstItem
  <2>2. i.category \in Blocking
    <3>1. Rank(b) <= 2 /\ Rank(b) \in 1..12 /\ Rank(i) \in 1..12
      BY <1>1, RankOK DEF ItemOK
    <3>2. Rank(i) <= 2
      BY <2>1, <3>1
    <3> QED
      BY <3>2, RankOK DEF ItemOK
  <2>3. {j \in S : Precedes(j, i)} = {}
    BY <2>1
  <2>4. Cardinality({j \in S : Precedes(j, i)}) < MaxItems
    BY <2>3, FS_EmptySet, ReleaseGateAssumption
  <2> QED
    BY <2>2, <2>4 DEF Visible
<1>2. Visible(S) \subseteq S
  BY DEF Visible
<1> QED
  BY <1>1, <1>2

(* Taking an item for deselected changes neither that it blocks nor that it  *)
(* cannot be certified.                                                      *)
LEMMA DeselectedOK ==
  ASSUME NEW i, NEW head, ItemOK(i),
         i = [pair |-> i.pair, category |-> i.category, id |-> i.id,
              print |-> i.print]
  PROVE  LET d == Deselected(i, head)
         IN  /\ ItemOK(d)
             /\ d.category \in Blocking <=> i.category \in Blocking
             /\ d.category \in Uncertifiable <=> i.category \in Uncertifiable
<1>1. CASE i.category = "removed_scenario" /\ i.id \in runs[head].excluded
  <2> DEFINE d == [i EXCEPT !.category = "deselected_scenario"]
  <2>1. Deselected(i, head) = d
    BY <1>1 DEF Deselected
  <2>2. d.category = "deselected_scenario" /\ d.id = i.id /\ d.print = i.print
    OBVIOUS
  <2> HIDE DEF d
  <2> QED
    BY <1>1, <2>1, <2>2 DEF ItemOK, Categories, Blocking, Uncertifiable
<1>2. CASE ~(i.category = "removed_scenario" /\ i.id \in runs[head].excluded)
  BY <1>2 DEF Deselected
<1> QED
  BY <1>1, <1>2

(* A comparison that compares answers what a baseline check would.           *)
LEMMA RunCodeAgrees ==
  ASSUME NEW b, NEW h, runs[b] \in Run, runs[h] \in Run
  PROVE  RunCode(b, h) = IF Comparable(b, h)
                         THEN CheckCode(Items(Snapshot(b), Snapshot(h))) ELSE 3
<1> DEFINE all == Items(Snapshot(b), Snapshot(h))
           items == RunItems(b, h)
<1>1. \A i \in all :
        /\ ItemOK(i)
        /\ i = [pair |-> i.pair, category |-> i.category, id |-> i.id,
                print |-> i.print]
  BY SnapshotIsOK, ItemsOK
<1>2. items = {Deselected(i, h) : i \in all}
  BY DEF RunItems
<1> HIDE DEF all, items
<1>3. \A i \in all :
        /\ ItemOK(Deselected(i, h))
        /\ Deselected(i, h).category \in Blocking <=> i.category \in Blocking
        /\ Deselected(i, h).category \in Uncertifiable
             <=> i.category \in Uncertifiable
  BY <1>1, DeselectedOK
<1>4. \A i \in items : ItemOK(i)
  BY <1>2, <1>3
<1>5. (\E i \in items : i.category \in Uncertifiable)
        <=> \E i \in all : i.category \in Uncertifiable
  BY <1>2, <1>3
<1>6. (\E i \in items : i.category \in Blocking)
        <=> \E i \in all : i.category \in Blocking
  BY <1>2, <1>3
<1>7. (\E i \in items : i.category \in Blocking)
        <=> \E i \in Visible(items) : i.category \in Blocking
  BY <1>4, BlockingIsVisible
<1>8. RunCode(b, h) =
        IF ~Comparable(b, h) THEN 3
        ELSE IF \E i \in items : i.category \in Uncertifiable THEN 2
        ELSE IF \E i \in Visible(items) : i.category \in Blocking THEN 1
        ELSE 0
  BY Zenon DEF RunCode, items
<1>9. CheckCode(all) =
        IF \E i \in all : i.category \in Uncertifiable THEN 2
        ELSE IF \E i \in all : i.category \in Blocking THEN 1
        ELSE 0
  BY Zenon DEF CheckCode
<1> QED
  BY <1>5, <1>6, <1>7, <1>8, <1>9 DEF all
-----------------------------------------------------------------------------
(* The inductive invariant.                                                  *)

(* A run of a suite that selects holds what was chosen of its pool.          *)
RunsAreSelected ==
  \A r \in DOMAIN runs :
    LET s == runs[r].of
    IN  s.select => /\ ~Refuses(s.pool, s.max)
                    /\ {c.unit : c \in runs[r].cases} = Chosen(s.pool, s.max)

GateInv == GateTypeOK /\ RunsAreSelected /\ PassesAreEarned

LEMMA PassesMean ==
  PassesAreEarned <=> (gate.code = 0 => Earned(runs[gate.run], gate.against))
BY Zenon DEF PassesAreEarned, Earned

LEMMA PassesMeanNext ==
  PassesAreEarned' <=> (gate'.code = 0 => Earned(runs'[gate'.run], gate'.against))
BY Zenon DEF PassesAreEarned, Earned, Unmet

LEMMA InitGate == Init => GateInv
<1> SUFFICES ASSUME Init PROVE GateInv
  OBVIOUS
<1>1. /\ suite \in Suites /\ runs = <<>> /\ gate = NoGate
      /\ runs \in Seq(Run) /\ DOMAIN runs = {}
  BY DEF Init
<1>2. gate.code = None /\ gate.pc = "idle" /\ None # 0
  BY <1>1, ReleaseGateAssumption DEF NoGate
<1>3. GateTypeOK
  BY <1>1, <1>2 DEF GateTypeOK, NoGate
<1>4. RunsAreSelected
  BY <1>1 DEF RunsAreSelected
<1>5. PassesAreEarned
  BY <1>2 DEF PassesAreEarned
<1> QED
  BY <1>3, <1>4, <1>5 DEF GateInv

(* The units that are executed are finitely many units of the pool.          *)
LEMMA ExecutedOK ==
  ASSUME GateTypeOK, ~(suite.select /\ Refuses(suite.pool, suite.max))
  PROVE  IsFiniteSet(Executed) /\ Executed \subseteq Units
<1>1. suite \in Suites
  BY DEF GateTypeOK
<1>2. /\ PoolOK(suite.pool) /\ suite.max \in Nat \cup {NoCap}
      /\ suite.select \in BOOLEAN
  BY <1>1, ReleaseGateAssumption
<1>3. Executed \in SUBSET ToSet(suite.pool)
  <2>1. CASE suite.select
    <3>1. Chosen(suite.pool, suite.max) \subseteq ToSet(suite.pool)
      BY <1>2, <2>1, ChosenSuffices
    <3> QED
      BY <2>1, <3>1 DEF Executed
  <2>2. CASE ~suite.select
    BY <2>2 DEF Executed
  <2> QED
    BY <2>1, <2>2
<1>4. IsFiniteSet(ToSet(suite.pool))
  BY <1>2, PoolSize
<1>5. IsFiniteSet(Executed)
  BY <1>3, <1>4, FS_Subset
<1>6. ToSet(suite.pool) \subseteq Units
  BY <1>1 DEF Units
<1> QED
  BY <1>3, <1>5, <1>6

(* A function has no more values than arguments.                             *)
LEMMA ImageIsFinite ==
  ASSUME NEW S, IsFiniteSet(S), NEW f
  PROVE  IsFiniteSet({f[x] : x \in S})
<1> DEFINE g == [x \in S |-> f[x]]
           T == {f[x] : x \in S}
<1>1. g \in Surjection(S, T)
  BY DEF Surjection
<1> HIDE DEF g, T
<1>2. IsFiniteSet(T)
  BY <1>1, FS_Surjection
<1> QED
  BY <1>2 DEF T

(* An execution adds a run, of the cases that were selected.                 *)
LEMMA ExecutesOK ==
  ASSUME GateTypeOK, RunsAreSelected, Executes
  PROVE  /\ runs' \in Seq(Run)
         /\ DOMAIN runs' = DOMAIN runs \cup {Len(runs) + 1}
         /\ \A r \in DOMAIN runs : runs'[r] = runs[r]
         /\ RunsAreSelected'
<1>1. PICK cases \in Executions :
        runs' = Append(runs, [cases |-> cases, spec |-> suite.spec, of |-> suite,
                              excluded |->
                                {u.id : u \in ToSet(suite.pool) \ Executed}])
  BY DEF Executes
<1> DEFINE run == [cases |-> cases, spec |-> suite.spec, of |-> suite,
                   excluded |-> {u.id : u \in ToSet(suite.pool) \ Executed}]
<1>2. suite \in Suites /\ runs \in Seq(Run)
  BY DEF GateTypeOK
<1>3. ~(suite.select /\ Refuses(suite.pool, suite.max))
  BY DEF Executes
<1>4. IsFiniteSet(Executed) /\ Executed \subseteq Units
  BY <1>3, ExecutedOK
<1>5. PICK o \in [Executed -> Observations] :
        cases = {[unit |-> u, seen |-> o[u]] : u \in Executed}
  BY DEF Executions
<1>6. cases \in SUBSET Case /\ {c.unit : c \in cases} = Executed
  <2> DEFINE X == Executed
             case(u) == [unit |-> u, seen |-> o[u]]
  <2>1. \A u \in X : case(u) \in Case /\ case(u).unit = u
    BY <1>4 DEF Case
  <2>2. cases = {case(u) : u \in X}
    BY <1>5
  <2> HIDE DEF X, case
  <2>3. cases \in SUBSET Case /\ {c.unit : c \in cases} = X
    BY <2>1, <2>2
  <2> QED
    BY <2>3 DEF X
<1>7. IsFiniteSet(cases)
  <2> DEFINE f == [u \in Executed |-> [unit |-> u, seen |-> o[u]]]
  <2>1. cases = {f[u] : u \in Executed}
    BY <1>5
  <2> HIDE DEF f
  <2>2. IsFiniteSet({f[u] : u \in Executed})
    BY <1>4, ImageIsFinite
  <2> QED
    BY <2>1, <2>2
<1>8. {u.id : u \in ToSet(suite.pool) \ Executed} \subseteq {u.id : u \in Units}
  BY <1>2 DEF Units
<1>9. run \in Run
  <2> HIDE DEF Case
  <2> QED
    BY <1>2, <1>6, <1>7, <1>8 DEF Run
<1>10. run.of = suite /\ {c.unit : c \in run.cases} = Executed
  BY <1>6
<1> HIDE DEF run
<1>11. runs' = Append(runs, run)
  BY <1>1 DEF run
<1>12. /\ runs' \in Seq(Run) /\ Len(runs) \in Nat
       /\ DOMAIN runs = 1..Len(runs) /\ DOMAIN runs' = 1..(Len(runs) + 1)
       /\ \A r \in 1..Len(runs) : runs'[r] = runs[r]
       /\ runs'[Len(runs) + 1] = run
       /\ runs' # <<>>
  BY <1>2, <1>9, <1>11
<1>13. RunsAreSelected'
  <2>1. suite.select => Executed = Chosen(suite.pool, suite.max)
    BY DEF Executed
  <2>2. \A r \in DOMAIN runs' :
          LET s == runs'[r].of
          IN  s.select => /\ ~Refuses(s.pool, s.max)
                          /\ {c.unit : c \in runs'[r].cases} = Chosen(s.pool, s.max)
    <3> SUFFICES ASSUME NEW r \in DOMAIN runs', runs'[r].of.select
                 PROVE  /\ ~Refuses(runs'[r].of.pool, runs'[r].of.max)
                        /\ {c.unit : c \in runs'[r].cases} =
                             Chosen(runs'[r].of.pool, runs'[r].of.max)
      OBVIOUS
    <3>1. CASE r = Len(runs) + 1
      <4>1. runs'[r] = run
        BY <1>12, <3>1
      <4> QED
        BY <1>3, <1>10, <2>1, <4>1
    <3>2. CASE r # Len(runs) + 1
      <4>1. r \in DOMAIN runs /\ runs'[r] = runs[r]
        BY <1>12, <3>2
      <4> QED
        BY <4>1 DEF RunsAreSelected
    <3> QED
      BY <3>1, <3>2
  <2> QED
    BY Zenon, <2>2 DEF RunsAreSelected
<1>14. DOMAIN runs' = DOMAIN runs \cup {Len(runs) + 1}
  BY <1>12
<1> QED
  BY <1>12, <1>13, <1>14

LEMMA StepGate == GateInv /\ [Next]_vars => GateInv'
<1> SUFFICES ASSUME GateInv, [Next]_vars PROVE GateInv'
  OBVIOUS
<1>1. /\ GateTypeOK /\ RunsAreSelected
      /\ gate.code = 0 => Earned(runs[gate.run], gate.against)
  BY PassesMean DEF GateInv
<1>2. None # 0
  BY ReleaseGateAssumption
<1>3. gate.code = 0 => gate.run \in DOMAIN runs
  BY <1>1, <1>2 DEF GateTypeOK
<1>4. CASE Change
  <2>1. suite' \in Suites /\ runs' = runs /\ gate' = gate
    BY <1>4 DEF Change
  <2>2. GateTypeOK'
    BY <1>1, <2>1 DEF GateTypeOK
  <2>3. RunsAreSelected'
    BY <1>1, <2>1 DEF RunsAreSelected
  <2>4. PassesAreEarned'
    BY <1>1, <2>1, PassesMeanNext
  <2> QED
    BY <2>2, <2>3, <2>4 DEF GateInv
<1>5. CASE Test
  <2>1. Executes /\ suite' = suite /\ gate' = gate
    BY <1>5 DEF Test
  <2>2. /\ runs' \in Seq(Run)
        /\ DOMAIN runs' = DOMAIN runs \cup {Len(runs) + 1}
        /\ \A r \in DOMAIN runs : runs'[r] = runs[r]
        /\ RunsAreSelected'
    BY <1>1, <2>1, ExecutesOK
  <2>3. GateTypeOK'
    BY <1>1, <2>1, <2>2 DEF GateTypeOK
  <2>4. PassesAreEarned'
    BY <1>1, <1>3, <2>1, <2>2, PassesMeanNext
  <2> QED
    BY <2>2, <2>3, <2>4 DEF GateInv
<1>6. CASE GateExecutes
  <2>1. /\ Executes /\ suite' = suite
        /\ gate' = [NoGate EXCEPT !.pc = "executed", !.run = Len(runs) + 1]
    BY <1>6 DEF GateExecutes
  <2>2. /\ runs' \in Seq(Run)
        /\ DOMAIN runs' = DOMAIN runs \cup {Len(runs) + 1}
        /\ RunsAreSelected'
    BY <1>1, <2>1, ExecutesOK
  <2>3. /\ gate'.pc = "executed" /\ gate'.run = Len(runs) + 1 /\ gate'.code = None
        /\ gate' = [pc |-> gate'.pc, run |-> gate'.run, code |-> gate'.code,
                    against |-> gate'.against]
    BY <2>1 DEF NoGate
  <2>4. GateTypeOK'
    BY <1>1, <2>1, <2>2, <2>3 DEF GateTypeOK
  <2>5. PassesAreEarned'
    BY <1>2, <2>3, PassesMeanNext
  <2> QED
    BY <2>2, <2>4, <2>5 DEF GateInv
<1>7. CASE CreateBaseline
  <2>1. suite' = suite /\ runs' = runs /\ gate' = gate
    BY <1>7 DEF CreateBaseline
  <2>2. GateTypeOK'
    BY <1>1, <2>1 DEF GateTypeOK
  <2>3. RunsAreSelected'
    BY <1>1, <2>1 DEF RunsAreSelected
  <2>4. PassesAreEarned'
    BY <1>1, <2>1, PassesMeanNext
  <2> QED
    BY <2>2, <2>3, <2>4 DEF GateInv
<1>8. CASE GateDecides
  <2>1. /\ gate.pc = "executed" /\ suite' = suite /\ runs' = runs
        /\ gate' = [gate EXCEPT !.pc = "decided", !.code = GateCode(gate.run),
                                !.against = baseline]
    BY <1>8 DEF GateDecides
  <2>2. /\ gate'.pc = "decided" /\ gate'.run = gate.run
        /\ gate'.code = GateCode(gate.run) /\ gate'.against = baseline
        /\ gate' = [pc |-> gate'.pc, run |-> gate'.run, code |-> gate'.code,
                    against |-> gate'.against]
    <3>1. gate = [pc |-> gate.pc, run |-> gate.run, code |-> gate.code,
                  against |-> gate.against]
      BY <1>1 DEF GateTypeOK
    <3> DEFINE c == GateCode(gate.run)
    <3> HIDE DEF c
    <3>2. gate' = [gate EXCEPT !.pc = "decided", !.code = c, !.against = baseline]
      BY <2>1 DEF c
    <3>3. /\ gate'.pc = "decided" /\ gate'.run = gate.run
          /\ gate'.code = c /\ gate'.against = baseline
          /\ gate' = [pc |-> gate'.pc, run |-> gate'.run, code |-> gate'.code,
                      against |-> gate'.against]
      BY <3>1, <3>2
    <3> QED
      BY <3>3 DEF c
  <2>3. gate.run \in DOMAIN runs /\ runs[gate.run] \in Run
    BY <1>1, <2>1 DEF GateTypeOK
  <2>4. GateTypeOK'
    BY <1>1, <2>1, <2>2, <2>3 DEF GateTypeOK
  <2>5. RunsAreSelected'
    BY <1>1, <2>1 DEF RunsAreSelected
  <2>6. PassesAreEarned'
    <3>1. GateCode(gate.run) = 0 => Earned(runs[gate.run], baseline)
      BY <2>3, GateCodeEarned
    <3> QED
      BY <2>1, <2>2, <3>1, PassesMeanNext
  <2> QED
    BY <2>4, <2>5, <2>6 DEF GateInv
<1>9. CASE UNCHANGED vars
  <2>1. suite' = suite /\ runs' = runs /\ gate' = gate
    BY <1>9 DEF vars
  <2>2. GateTypeOK'
    BY <1>1, <2>1 DEF GateTypeOK
  <2>3. RunsAreSelected'
    BY <1>1, <2>1 DEF RunsAreSelected
  <2>4. PassesAreEarned'
    BY <1>1, <2>1, PassesMeanNext
  <2> QED
    BY <2>2, <2>3, <2>4 DEF GateInv
<1> QED
  BY <1>4, <1>5, <1>6, <1>7, <1>8, <1>9 DEF Next

LEMMA GateInvariant == ReleaseGateSpec => []GateInv
BY InitGate, StepGate, PTL DEF ReleaseGateSpec

(* The gate passes a release on evidence only: its own run met every         *)
(* obligation, and each of its cases passed or failed with an identity that  *)
(* the baseline it was compared with holds for the same behaviour or the     *)
(* same case, whatever suite and baseline were written meanwhile (run_gate,  *)
(* check_baseline, gate_exit_code).                                          *)
THEOREM PassesCorrect == ReleaseGateSpec => []PassesAreEarned
<1>1. GateInv => PassesAreEarned
  BY DEF GateInv
<1> QED
  BY <1>1, GateInvariant, PTL

(* A comparison of two stored runs of one specification answers what a check *)
(* of the one against a baseline made of the other does, although it looks   *)
(* for what blocks in the items it shows only; where the check refuses it    *)
(* classifies the cases alike and carries the caveat that the specification  *)
(* has changed; runs with nothing in common are never clean (compare_runs,   *)
(* exit_code, check_baseline).                                               *)
THEOREM ComparisonsCorrect == ReleaseGateSpec => []ComparisonsAgree
<1>1. GateInv => ComparisonsAgree
  <2> SUFFICES ASSUME GateInv, NEW p \in Comparisons
               PROVE  LET base == Snapshot(p[1])
                          head == Snapshot(p[2])
                          code == RunCode(p[1], p[2])
                      IN  /\ ~Comparable(p[1], p[2]) => code = 3
                          /\ Comparable(p[1], p[2]) /\ ~CheckRefuses(base, head) =>
                               code = CheckAnswer(base, head)
                          /\ Comparable(p[1], p[2]) /\ CheckRefuses(base, head) =>
                               SpecChanged(p[1], p[2]) /\ code = CheckCode(Items(base, head))
    BY DEF ComparisonsAgree
  <2> DEFINE base == Snapshot(p[1])
             head == Snapshot(p[2])
  <2>1. /\ p[1] \in DOMAIN runs /\ p[2] \in DOMAIN runs
        /\ Distinct(head)
    BY DEF Comparisons
  <2>2. runs[p[1]] \in Run /\ runs[p[2]] \in Run
    BY <2>1 DEF GateInv, GateTypeOK
  <2>3. RunCode(p[1], p[2]) = IF Comparable(p[1], p[2])
                              THEN CheckCode(Items(base, head)) ELSE 3
    BY <2>2, RunCodeAgrees
  <2>4. base.spec = runs[p[1]].spec /\ head.spec = runs[p[2]].spec
    BY DEF Snapshot
  <2>5. CheckRefuses(base, head) => SpecChanged(p[1], p[2])
    BY <2>1, <2>4 DEF CheckRefuses, SpecChanged
  <2>6. ~CheckRefuses(base, head) =>
          CheckAnswer(base, head) = CheckCode(Items(base, head))
    BY DEF CheckAnswer
  <2> HIDE DEF base, head
  <2>7. /\ ~Comparable(p[1], p[2]) => RunCode(p[1], p[2]) = 3
        /\ Comparable(p[1], p[2]) /\ ~CheckRefuses(base, head) =>
             RunCode(p[1], p[2]) = CheckAnswer(base, head)
        /\ Comparable(p[1], p[2]) /\ CheckRefuses(base, head) =>
             /\ SpecChanged(p[1], p[2])
             /\ RunCode(p[1], p[2]) = CheckCode(Items(base, head))
    BY <2>3, <2>5, <2>6
  <2> QED
    BY <2>7 DEF base, head
<1> QED
  BY <1>1, GateInvariant, PTL

(* What the last run selected covers all its pool could cover or is as much  *)
(* as the cap allows, holds every mandatory case, says truly which of the    *)
(* others are redundant and is the same for every order of the pool          *)
(* (select_units).                                                           *)
THEOREM SelectionCorrect == ReleaseGateSpec => []SelectionIsSufficient
<1>1. GateInv => SelectionIsSufficient
  <2> SUFFICES ASSUME GateInv, runs # <<>>, runs[Len(runs)].of.select
               PROVE  LET run == runs[Len(runs)]
                          s == run.of
                          chosen == {c.unit : c \in run.cases}
                      IN  /\ \A u \in ToSet(s.pool) : u.mandatory => u \in chosen
                          /\ Cardinality(chosen) <= CapOf(s.pool, s.max)
                          /\ \/ Covered(ToSet(s.pool)) \subseteq Covered(chosen)
                             \/ Cardinality(chosen) = CapOf(s.pool, s.max)
                          /\ \A u \in ToSet(s.pool) \ chosen :
                               Reason(s.pool, s.max, chosen, u) = "redundant_coverage"
                                 <=> u.dims \subseteq Covered(chosen)
                          /\ \A order \in SetToSeqs(ToSet(s.pool)) :
                               Chosen(order, s.max) = chosen
    BY Zenon DEF SelectionIsSufficient
  <2> DEFINE r == Len(runs)
             s == runs[r].of
             chosen == {c.unit : c \in runs[r].cases}
  <2>1. runs \in Seq(Run) /\ RunsAreSelected
    BY DEF GateInv, GateTypeOK
  <2>2. r \in DOMAIN runs /\ runs[r] \in Run
    BY <2>1
  <2>3. s \in Suites
    BY <2>2 DEF Run
  <2>4. ~Refuses(s.pool, s.max) /\ chosen = Chosen(s.pool, s.max)
    BY <2>1, <2>2 DEF RunsAreSelected
  <2> HIDE DEF s, chosen, r
  <2>5. /\ \A u \in ToSet(s.pool) : u.mandatory => u \in chosen
        /\ Cardinality(chosen) <= CapOf(s.pool, s.max)
        /\ \/ Covered(ToSet(s.pool)) \subseteq Covered(chosen)
           \/ Cardinality(chosen) = CapOf(s.pool, s.max)
        /\ \A u \in ToSet(s.pool) \ chosen :
             Reason(s.pool, s.max, chosen, u) = "redundant_coverage"
               <=> u.dims \subseteq Covered(chosen)
        /\ \A order \in SetToSeqs(ToSet(s.pool)) : Chosen(order, s.max) = chosen
    BY <2>3, <2>4, SelectionOK
  <2> QED
    BY Zenon, <2>5 DEF r, s, chosen
<1> QED
  BY <1>1, GateInvariant, PTL
=============================================================================

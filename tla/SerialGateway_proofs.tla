------------------------- MODULE SerialGateway_proofs -------------------------
(* What a run of invocations spends, and what its log shows of it.           *)
EXTENDS SerialGateway, TLAPS, FiniteSetTheorems,
        WellFoundedInduction, NaturalsInduction

-----------------------------------------------------------------------------
(* What planning and committing one call preserve, for any fixtures.          *)

(* A fixture that is assigned is one of the scenario's.                     *)
LEMMA ChosenType ==
  ASSUME NEW p, NEW c, NEW now, TakesFixture(p, c, now), ~Ambiguous(p, c, now)
  PROVE  Chosen(p, c) \in Candidates(p, c) /\ Chosen(p, c) \in Fixtures
<1>1. PICK f \in Fixtures : Best(p, c) = {f}
  BY DEF Ambiguous
<1>2. Chosen(p, c) = f
  BY <1>1 DEF Chosen
<1> QED
  BY <1>1, <1>2 DEF Best

(* Charging the budgets keeps a planning state a planning state.            *)
LEMMA ChargedType ==
  ASSUME NEW p \in PlanType, NEW c \in Calls, NEW now \in Nat
  PROVE  Charged(p, c, now) \in PlanType
<1> DEFINE retry == IsRetry(p, c) /\ Verdict(p, c, now) # "retry_budget_exceeded"
           q == [p EXCEPT !.calls = @ + 1,
                          !.index[ToolOf[c]] = @ + 1,
                          !.retries = IF retry THEN @ + 1 ELSE @]
<1>1. ToolOf[c] \in ToolNames
  BY GatewayAssumption
<1>2. q \in PlanType
  <2> HIDE DEF retry
  <2>1. (IF retry THEN p.retries + 1 ELSE p.retries) \in Nat
    BY DEF PlanType
  <2>2. [p.index EXCEPT ![ToolOf[c]] = @ + 1] \in [ToolNames -> Nat]
    BY <1>1 DEF PlanType
  <2>3. p.calls + 1 \in Nat
    BY DEF PlanType
  <2>4. q = [p EXCEPT !.calls = p.calls + 1,
                      !.index = [p.index EXCEPT ![ToolOf[c]] = @ + 1],
                      !.retries = IF retry THEN p.retries + 1 ELSE p.retries]
    BY DEF PlanType
  <2> QED
    BY <2>1, <2>2, <2>3, <2>4 DEF PlanType
<1>3. CASE Verdict(p, c, now) \in OverBudgetCodes
  BY <1>3 DEF Charged
<1>4. CASE Verdict(p, c, now) \notin OverBudgetCodes
  BY <1>2, <1>4 DEF Charged
<1> QED
  BY <1>3, <1>4

(* Planning a call keeps a planning state a planning state.                 *)
LEMMA PlannedType ==
  ASSUME NEW p \in PlanType, NEW c \in Calls, NEW now \in Nat,
         ~Ambiguous(p, c, now)
  PROVE  Planned(p, c, now) \in PlanType
<1> DEFINE q == Charged(p, c, now)
           f == Chosen(p, c)
           granted == Verdict(p, c, now) = "granted"
<1>1. q \in PlanType
  BY ChargedType
<1>2. TakesFixture(p, c, now) => f \in Fixtures /\ f \in FixtureType
  BY ChosenType, GatewayAssumption
<1>3. granted => TakesFixture(p, c, now)
  BY DEF TakesFixture
<1>4. TakesFixture(p, c, now) => f.latency \in Nat /\ f.status \in CallStatuses
  BY <1>2 DEF FixtureType, CallStatuses
<1>5. (IF TakesFixture(p, c, now) /\ ~f.repeat THEN q.used \cup {f} ELSE q.used)
        \in SUBSET Fixtures
  BY <1>1, <1>2 DEF PlanType
<1>6. (IF granted THEN q.simulated + f.latency ELSE q.simulated) \in Nat
  BY <1>1, <1>3, <1>4 DEF PlanType
<1>7. (IF granted THEN f.status ELSE "blocked") \in CallStatuses
  BY <1>3, <1>4 DEF CallStatuses
<1> HIDE DEF q, f, granted
<1>8. [q EXCEPT
         !.used = IF TakesFixture(p, c, now) /\ ~f.repeat THEN @ \cup {f} ELSE @,
         !.simulated = IF granted THEN @ + f.latency ELSE @,
         !.status[c] = IF granted THEN f.status ELSE "blocked"] \in PlanType
  BY <1>1, <1>5, <1>6, <1>7 DEF PlanType
<1> QED
  BY <1>8 DEF Planned, q, f, granted

(* A reservation is well formed: granted exactly when it holds a fixture.   *)
LEMMA ReserveType ==
  ASSUME NEW p \in PlanType, NEW c \in Calls, NEW now \in Nat,
         ~Ambiguous(p, c, now)
  PROVE  Reserve(p, c, now) \in ReservationType
<1>1. Verdict(p, c, now) \in Verdicts
  BY DEF Verdict, Verdicts, OverBudgetCodes
<1>2. Verdict(p, c, now) = "granted" => Chosen(p, c) \in Fixtures
  BY ChosenType DEF TakesFixture
<1>3. p.index[ToolOf[c]] \in Nat
  BY GatewayAssumption DEF PlanType
<1> QED
  BY <1>1, <1>2, <1>3, GatewayAssumption DEF Reserve, ReservationType

(* Committing moves a world to a world.                                     *)
LEMMA WorldAfterType ==
  ASSUME NEW r \in ReservationType, NEW w \in WorldType
  PROVE  WorldAfter(r, w) \in WorldType
<1> SUFFICES ASSUME NEW x \in Paths, Commits(r, w), x \in Touched(r.fixture)
             PROVE  r.fixture.effects[x].after \in Values
  BY DEF WorldAfter, WorldType
<1>1. r.fixture \in FixtureType
  BY GatewayAssumption DEF Commits, ReservationType
<1>2. r.fixture.effects[x] \in EffectType
  BY <1>1 DEF Touched, FixtureType
<1> QED
  BY <1>2 DEF EffectType

(* Committing records an outcome.                                           *)
LEMMA OutcomeTyped ==
  ASSUME NEW r \in ReservationType, NEW w
  PROVE  Outcome(r, w) \in OutcomeType
<1>1. r.verdict = "granted" => r.fixture \in FixtureType
  BY GatewayAssumption DEF ReservationType
<1>2. r.verdict = "granted" => r.fixture.status \in FixtureStatuses
  BY <1>1 DEF FixtureType
<1> QED
  BY <1>2 DEF Outcome, OutcomeType, ReservationType

(* A single-use fixture that planning assigns was unused and becomes used.   *)
LEMMA FreshFixture ==
  ASSUME NEW p \in PlanType, NEW c \in Calls, NEW now \in Nat,
         ~Ambiguous(p, c, now)
  PROVE  /\ p.used \subseteq Planned(p, c, now).used
         /\ Reserve(p, c, now).fixture \in SingleUse =>
              /\ Reserve(p, c, now).fixture \notin p.used
              /\ Reserve(p, c, now).fixture \in Planned(p, c, now).used
<1> DEFINE q == Charged(p, c, now)
           f == Chosen(p, c)
           takes == TakesFixture(p, c, now) /\ ~f.repeat
<1>1. q \in PlanType /\ q.used = p.used
  BY ChargedType DEF Charged, PlanType
<1>2. Planned(p, c, now).used = IF takes THEN q.used \cup {f} ELSE q.used
  BY <1>1 DEF Planned, PlanType
<1>3. ASSUME Reserve(p, c, now).fixture \in SingleUse
      PROVE  Reserve(p, c, now).fixture = f /\ takes /\ f \notin p.used
  <2>1. Verdict(p, c, now) = "granted" /\ Reserve(p, c, now).fixture = f
    BY <1>3, GatewayAssumption DEF Reserve, SingleUse
  <2>2. TakesFixture(p, c, now)
    BY <2>1 DEF TakesFixture
  <2>3. f \in Candidates(p, c)
    BY <2>2, ChosenType
  <2> QED
    BY <1>3, <2>1, <2>2, <2>3 DEF Candidates, SingleUse
<1> QED
  BY <1>1, <1>2, <1>3

-----------------------------------------------------------------------------
(* Sums over finite sets, as MapThenSumSet adds them up.  What needs an       *)
(* induction is shown of the smallest set where it would not hold.           *)

(* Of the subsets of a finite set some one is smallest.                      *)
LEMMA SmallestSet ==
  ASSUME NEW S, IsFiniteSet(S), NEW Bad \in SUBSET (SUBSET S), Bad # {}
  PROVE  \E t \in Bad : \A u \in SUBSET t : u # t => u \notin Bad
<1> DEFINE Sizes == {Cardinality(t) : t \in Bad}
<1>1. \A t \in Bad : IsFiniteSet(t) /\ Cardinality(t) \in Nat
  BY FS_Subset, FS_CardinalityType
<1>2. Sizes \subseteq Nat /\ Sizes # {}
  BY <1>1
<1>3. PICK n \in Sizes : \A m \in Sizes : ~(<<m, n>> \in OpToRel(<, Nat))
  <2> HIDE DEF Sizes
  <2> QED
    BY <1>2, NatLessThanWellFounded, WFMin
<1>4. \A m \in Sizes : ~(m < n)
  BY <1>2, <1>3 DEF OpToRel
<1>5. PICK t \in Bad : Cardinality(t) = n
  OBVIOUS
<1>6. ASSUME NEW u \in SUBSET t, u # t, u \in Bad
      PROVE  FALSE
  <2>1. Cardinality(u) <= Cardinality(t) /\ Cardinality(t) # Cardinality(u)
    BY <1>1, <1>6, FS_Subset
  <2>2. Cardinality(u) \in Sizes
    BY <1>6
  <2> QED
    BY <1>1, <1>4, <1>5, <1>6, <2>1, <2>2
<1> QED
  BY <1>6

First(s) == CHOOSE x \in s : TRUE
Rest(s) == s \ {First(s)}

(* Without its first element a set is a smaller one.                         *)
LEMMA RestSmaller ==
  ASSUME NEW s, s # {}
  PROVE  First(s) \in s /\ Rest(s) \subseteq s /\ Rest(s) # s
BY DEF First, Rest

(* g has the sum of v over every subset of S.                                *)
Sums(g, v, S) ==
  g = [s \in SUBSET S |-> IF s = {} THEN 0 ELSE v[First(s)] + g[Rest(s)]]

(* Two such functions agree where both are defined.                          *)
LEMMA SumsAgree ==
  ASSUME NEW v, NEW S, NEW T, NEW g, NEW h, Sums(g, v, S), Sums(h, v, T),
         NEW s, IsFiniteSet(s), s \subseteq S, s \subseteq T
  PROVE  g[s] = h[s]
<1> DEFINE Bad == {u \in SUBSET s : g[u] # h[u]}
<1> SUFFICES ASSUME Bad # {} PROVE FALSE
  OBVIOUS
<1>1. Bad \in SUBSET (SUBSET s)
  OBVIOUS
<1>2. PICK u \in Bad : \A w \in SUBSET u : w # u => w \notin Bad
  <2> HIDE DEF Bad
  <2> QED
    BY <1>1, SmallestSet
<1>3. u \in SUBSET S /\ u \in SUBSET T
  BY <1>2
<1>4. g[u] = IF u = {} THEN 0 ELSE v[First(u)] + g[Rest(u)]
  BY <1>3 DEF Sums
<1>5. h[u] = IF u = {} THEN 0 ELSE v[First(u)] + h[Rest(u)]
  BY <1>3 DEF Sums
<1>6. u # {}
  BY <1>4, <1>5
<1>7. Rest(u) \in SUBSET u /\ Rest(u) # u
  BY <1>6, RestSmaller
<1>8. g[Rest(u)] = h[Rest(u)]
  BY <1>2, <1>7
<1> QED
  BY <1>4, <1>5, <1>8

(* There is such a function for every finite set.                            *)
LEMMA SumsExist ==
  ASSUME NEW v, NEW S, IsFiniteSet(S)
  PROVE  \E g : Sums(g, v, S)
<1> DEFINE Bad == {t \in SUBSET S : ~\E g : Sums(g, v, t)}
<1> SUFFICES ASSUME Bad # {} PROVE FALSE
  OBVIOUS
<1>1. Bad \in SUBSET (SUBSET S)
  OBVIOUS
<1>2. PICK t \in Bad : \A u \in SUBSET t : u # t => u \notin Bad
  <2> HIDE DEF Bad
  <2> QED
    BY <1>1, SmallestSet
<1> DEFINE sums(u) == CHOOSE g : Sums(g, v, u)
           f == [s \in SUBSET t |->
                   IF s = {} THEN 0 ELSE v[First(s)] + sums(Rest(s))[Rest(s)]]
<1>3. \A s \in SUBSET t : s # {} =>
        /\ Rest(s) \in SUBSET t /\ Rest(s) # t
        /\ IsFiniteSet(Rest(s))
  <2> SUFFICES ASSUME NEW s \in SUBSET t, s # {}
               PROVE  /\ Rest(s) \in SUBSET t /\ Rest(s) # t
                      /\ IsFiniteSet(Rest(s))
    OBVIOUS
  <2>1. Rest(s) \subseteq s /\ Rest(s) # s
    BY RestSmaller
  <2>2. Rest(s) \in SUBSET S
    BY <1>1, <2>1
  <2> QED
    BY <2>1, <2>2, FS_Subset
<1>4. \A s \in SUBSET t : s # {} => Sums(sums(Rest(s)), v, Rest(s))
  <2> SUFFICES ASSUME NEW s \in SUBSET t, s # {}
               PROVE  Sums(sums(Rest(s)), v, Rest(s))
    OBVIOUS
  <2>1. Rest(s) \notin Bad /\ Rest(s) \in SUBSET S
    BY <1>1, <1>2, <1>3
  <2>2. \E g : Sums(g, v, Rest(s))
    BY <2>1
  <2> QED
    BY Zenon, <2>2
<1>5. ASSUME NEW s \in SUBSET t, s # {}
      PROVE  f[Rest(s)] = sums(Rest(s))[Rest(s)]
  <2> DEFINE r == Rest(s)
  <2>1. r \in SUBSET t /\ Sums(sums(r), v, r) /\ IsFiniteSet(r)
    BY <1>3, <1>4, <1>5
  <2>2. sums(r)[r] = IF r = {} THEN 0 ELSE v[First(r)] + sums(r)[Rest(r)]
    <3> DEFINE q == sums(r)
    <3>1. Sums(q, v, r)
      BY <2>1
    <3> HIDE DEF q, r
    <3>2. q[r] = IF r = {} THEN 0 ELSE v[First(r)] + q[Rest(r)]
      BY <3>1 DEF Sums
    <3> QED
      BY <3>2 DEF q
  <2>3. f[r] = IF r = {} THEN 0 ELSE v[First(r)] + sums(Rest(r))[Rest(r)]
    BY <2>1
  <2>4. ASSUME r # {} PROVE sums(r)[Rest(r)] = sums(Rest(r))[Rest(r)]
    <3>1. Sums(sums(Rest(r)), v, Rest(r)) /\ IsFiniteSet(Rest(r))
      BY <1>3, <1>4, <2>1, <2>4
    <3>2. Rest(r) \subseteq r /\ Rest(r) \subseteq Rest(r)
      BY <2>4, RestSmaller
    <3> HIDE DEF r, sums
    <3> QED
      BY <2>1, <3>1, <3>2, SumsAgree
  <2> HIDE DEF r, sums, f
  <2>5. f[r] = sums(r)[r]
    BY <2>2, <2>3, <2>4
  <2> QED
    BY <2>5 DEF r
<1>6. f = [s \in SUBSET t |-> IF s = {} THEN 0 ELSE v[First(s)] + f[Rest(s)]]
  <2> DEFINE h == [s \in SUBSET t |->
                     IF s = {} THEN 0 ELSE v[First(s)] + f[Rest(s)]]
  <2>1. \A s \in SUBSET t : f[s] = h[s]
    <3> HIDE DEF sums
    <3> QED
      BY <1>5
  <2> QED
    BY <2>1
<1>7. Sums(f, v, t)
  <2> HIDE DEF f
  <2> QED
    BY <1>6 DEF Sums
<1> HIDE DEF f
<1> QED
  BY <1>2, <1>7

Sum(v, S) == MapThenSumSet(LAMBDA i : v[i], S)

(* MapThenSumSet adds up what the elements are mapped to.                    *)
LEMMA SumIs ==
  ASSUME NEW v, NEW S, IsFiniteSet(S), NEW g, Sums(g, v, S)
  PROVE  Sum(v, S) = g[S]
<1> DEFINE h == CHOOSE f : Sums(f, v, S)
<1>1. Sum(v, S) = h[S]
  BY Zenon DEF Sum, MapThenSumSet, MapThenFoldSet, Sums, First, Rest
<1>2. Sums(h, v, S)
  BY Zenon
<1> HIDE DEF h
<1> QED
  BY <1>1, <1>2, SumsAgree

(* Nothing adds up to nothing.                                               *)
LEMMA SumEmpty == \A v : Sum(v, {}) = 0
<1> SUFFICES ASSUME NEW v PROVE Sum(v, {}) = 0
  OBVIOUS
<1>1. IsFiniteSet({})
  BY FS_EmptySet
<1>2. PICK g : Sums(g, v, {})
  BY <1>1, SumsExist
<1>3. g[{}] = 0
  BY <1>2 DEF Sums
<1> QED
  BY <1>1, <1>2, <1>3, SumIs

(* A sum begins with its first element.                                      *)
LEMMA SumFirst ==
  ASSUME NEW v, NEW S, IsFiniteSet(S), S # {}
  PROVE  Sum(v, S) = v[First(S)] + Sum(v, Rest(S))
<1>1. Rest(S) \in SUBSET S /\ IsFiniteSet(Rest(S))
  BY RestSmaller, FS_Subset
<1>2. PICK g : Sums(g, v, S)
  BY SumsExist
<1>3. PICK h : Sums(h, v, Rest(S))
  BY <1>1, SumsExist
<1>4. g[Rest(S)] = h[Rest(S)]
  BY <1>1, <1>2, <1>3, SumsAgree
<1>5. g[S] = v[First(S)] + g[Rest(S)]
  BY <1>2 DEF Sums
<1>6. Sum(v, S) = g[S]
  BY <1>2, SumIs
<1>7. Sum(v, Rest(S)) = h[Rest(S)]
  BY <1>1, <1>3, SumIs
<1> QED
  BY <1>4, <1>5, <1>6, <1>7

(* Numbers add up to a number.                                               *)
LEMMA SumType ==
  ASSUME NEW v, NEW S, IsFiniteSet(S), \A x \in S : v[x] \in Nat
  PROVE  Sum(v, S) \in Nat
<1> DEFINE Bad == {t \in SUBSET S : Sum(v, t) \notin Nat}
<1> SUFFICES ASSUME Bad # {} PROVE FALSE
  OBVIOUS
<1>1. Bad \in SUBSET (SUBSET S)
  OBVIOUS
<1>2. PICK t \in Bad : \A u \in SUBSET t : u # t => u \notin Bad
  <2> HIDE DEF Bad
  <2> QED
    BY <1>1, SmallestSet
<1>3. IsFiniteSet(t)
  BY <1>1, FS_Subset
<1>4. t # {}
  <2>1. Sum(v, {}) \in Nat
    BY SumEmpty
  <2>2. Sum(v, t) \notin Nat
    OBVIOUS
  <2> HIDE DEF Bad
  <2> QED
    BY <2>1, <2>2
<1>5. First(t) \in t /\ Rest(t) \in SUBSET t /\ Rest(t) # t
  BY <1>4, RestSmaller
<1>6. Sum(v, Rest(t)) \in Nat
  BY <1>1, <1>2, <1>5
<1>7. Sum(v, t) = v[First(t)] + Sum(v, Rest(t))
  BY <1>3, <1>4, SumFirst
<1> QED
  BY <1>2, <1>5, <1>6, <1>7

(* A sum may be taken in any order: any element may be taken out of it.      *)
LEMMA SumWithout ==
  ASSUME NEW v, NEW S, IsFiniteSet(S), \A x \in S : v[x] \in Nat, NEW x \in S
  PROVE  Sum(v, S) = v[x] + Sum(v, S \ {x})
<1> DEFINE Bad == {t \in SUBSET S :
                     \E y \in t : Sum(v, t) # v[y] + Sum(v, t \ {y})}
<1> SUFFICES ASSUME Bad # {} PROVE FALSE
  OBVIOUS
<1>1. Bad \in SUBSET (SUBSET S)
  OBVIOUS
<1>2. PICK t \in Bad : \A u \in SUBSET t : u # t => u \notin Bad
  <2> HIDE DEF Bad
  <2> QED
    BY <1>1, SmallestSet
<1>3. \A u \in SUBSET t : IsFiniteSet(u)
  BY <1>1, FS_Subset
<1>4. PICK y \in t : Sum(v, t) # v[y] + Sum(v, t \ {y})
  BY <1>2
<1> DEFINE f == First(t)
<1>5. f \in t /\ Sum(v, t) = v[f] + Sum(v, t \ {f})
  BY <1>3, <1>4, SumFirst, RestSmaller DEF Rest
<1>6. f # y
  BY <1>4, <1>5
<1>7. Sum(v, t \ {f}) = v[y] + Sum(v, (t \ {f}) \ {y})
  BY <1>1, <1>2, <1>5, <1>6
<1>8. Sum(v, t \ {y}) = v[f] + Sum(v, (t \ {y}) \ {f})
  BY <1>1, <1>2, <1>5, <1>6
<1>9. (t \ {f}) \ {y} = (t \ {y}) \ {f}
  OBVIOUS
<1>10. Sum(v, (t \ {y}) \ {f}) \in Nat
  <2>1. (t \ {y}) \ {f} \in SUBSET t
    OBVIOUS
  <2>2. \A z \in (t \ {y}) \ {f} : v[z] \in Nat
    BY <1>1
  <2> QED
    BY <1>3, <2>1, <2>2, SumType
<1>11. v[f] \in Nat /\ v[y] \in Nat
  BY <1>1, <1>4, <1>5
<1> QED
  BY <1>4, <1>5, <1>7, <1>8, <1>9, <1>10, <1>11

(* A sum depends on what is added up only.                                   *)
LEMMA SumAlike ==
  ASSUME NEW v, NEW w, NEW S, IsFiniteSet(S), \A x \in S : v[x] = w[x]
  PROVE  Sum(v, S) = Sum(w, S)
<1>1. PICK g : Sums(g, v, S)
  BY SumsExist
<1>2. \A s \in SUBSET S : s # {} => v[First(s)] = w[First(s)]
  BY RestSmaller
<1>3. Sums(g, w, S)
  <2> DEFINE h == [s \in SUBSET S |->
                     IF s = {} THEN 0 ELSE w[First(s)] + g[Rest(s)]]
             k == [s \in SUBSET S |->
                     IF s = {} THEN 0 ELSE v[First(s)] + g[Rest(s)]]
  <2>1. \A s \in SUBSET S : h[s] = k[s]
    BY <1>2
  <2>2. h = k
    BY <2>1
  <2>3. g = k
    BY <1>1 DEF Sums
  <2>4. g = h
    BY <2>2, <2>3
  <2> QED
    BY <2>4 DEF Sums
<1> QED
  BY <1>1, <1>3, SumIs
-----------------------------------------------------------------------------
(* The log.                                                                  *)
Granted(l) == {i \in 1..Len(l) : l[i].verdict = "granted"}
TooSlow(l) == {i \in 1..Len(l) : l[i].verdict = "latency_over_budget"}
Answering(l) == {l[i].fixture : i \in 1..Len(l)}
Latencies(l) == [i \in 1..Len(l) |-> l[i].fixture.latency]

(* The latencies that a log's granted calls add up to.                       *)
Latency(l) == Sum(Latencies(l), Granted(l))

(* A log's entries stay where they are when an outcome is appended.          *)
LEMMA LogGrows ==
  ASSUME NEW O, NEW l \in Seq(O), NEW o
  PROVE  /\ Len(Append(l, o)) = Len(l) + 1
         /\ Append(l, o)[Len(l) + 1] = o
         /\ \A i \in 1..Len(l) : Append(l, o)[i] = l[i]
         /\ 1..(Len(l) + 1) = (1..Len(l)) \cup {Len(l) + 1}
         /\ Len(l) + 1 \notin 1..Len(l)
         /\ Len(l) \in Nat
OBVIOUS

(* A log has finitely many entries of each kind.                             *)
LEMMA LogIsFinite ==
  ASSUME NEW O, NEW l \in Seq(O)
  PROVE  IsFiniteSet(1..Len(l)) /\ IsFiniteSet(Granted(l)) /\ IsFiniteSet(TooSlow(l))
<1>1. IsFiniteSet(1..Len(l))
  BY FS_Interval
<1>2. Granted(l) \in SUBSET (1..Len(l)) /\ TooSlow(l) \in SUBSET (1..Len(l))
  BY DEF Granted, TooSlow
<1> QED
  BY <1>1, <1>2, FS_Subset

(* The sum of SimulatedTimeIsEvidenced is this one.                          *)
LEMMA LatencySum ==
  ASSUME NEW O, NEW l \in Seq(O)
  PROVE  MapThenSumSet(LAMBDA i : l[i].fixture.latency, Granted(l)) = Latency(l)
<1> DEFINE G == Granted(l)
           v == Latencies(l)
           Is(h) == h = [s \in SUBSET G |->
                           IF s = {} THEN 0
                           ELSE l[First(s)].fixture.latency + h[Rest(s)]]
           h == CHOOSE f : Is(f)
<1>1. MapThenSumSet(LAMBDA i : l[i].fixture.latency, G) = h[G]
  BY Zenon DEF MapThenSumSet, MapThenFoldSet, First, Rest
<1>2. IsFiniteSet(G)
  BY LogIsFinite
<1>3. \A s \in SUBSET G : s # {} => v[First(s)] = l[First(s)].fixture.latency
  <2> SUFFICES ASSUME NEW s \in SUBSET G, s # {}
               PROVE  v[First(s)] = l[First(s)].fixture.latency
    OBVIOUS
  <2>1. First(s) \in 1..Len(l)
    BY RestSmaller DEF Granted
  <2> QED
    BY <2>1 DEF Latencies
<1>4. ASSUME NEW f PROVE Is(f) <=> Sums(f, v, G)
  <2> DEFINE a == [s \in SUBSET G |->
                     IF s = {} THEN 0
                     ELSE l[First(s)].fixture.latency + f[Rest(s)]]
             b == [s \in SUBSET G |->
                     IF s = {} THEN 0 ELSE v[First(s)] + f[Rest(s)]]
  <2>1. \A s \in SUBSET G : a[s] = b[s]
    <3> HIDE DEF G, v
    <3> QED
      BY <1>3
  <2>2. a = b
    BY <2>1
  <2> QED
    BY Zenon, <2>2 DEF Sums
<1>5. \E f : Is(f)
  <2> HIDE DEF Is, v, G
  <2> QED
    BY <1>2, <1>4, SumsExist
<1>6. Is(h)
  BY Zenon, <1>5
<1> HIDE DEF Is, h, v, G
<1>7. Sums(h, v, G)
  BY <1>4, <1>6
<1>8. Sum(v, G) = h[G]
  BY <1>2, <1>7, SumIs
<1> QED
  BY <1>1, <1>8 DEF Latency, G, v

(* An outcome that was not granted adds no latency; one that was adds its    *)
(* fixture's.                                                                *)
LEMMA LatencyGrows ==
  ASSUME NEW l \in Seq(OutcomeType), NEW o \in OutcomeType,
         \A i \in Granted(l) : l[i].fixture.latency \in Nat,
         o.verdict = "granted" => o.fixture.latency \in Nat
  PROVE  Latency(Append(l, o)) =
           Latency(l) + (IF o.verdict = "granted" THEN o.fixture.latency ELSE 0)
<1> DEFINE m == Append(l, o)
           n == Len(l) + 1
<1>1. /\ Len(m) = n /\ m[n] = o /\ \A i \in 1..Len(l) : m[i] = l[i]
      /\ 1..n = (1..Len(l)) \cup {n} /\ n \notin 1..Len(l)
  BY LogGrows
<1>2. Granted(m) = IF o.verdict = "granted" THEN Granted(l) \cup {n} ELSE Granted(l)
  <2> HIDE DEF m, n
  <2> QED
    BY <1>1 DEF Granted
<1>3. IsFiniteSet(Granted(l)) /\ IsFiniteSet(Granted(m)) /\ n \notin Granted(l)
  <2>1. IsFiniteSet(Granted(l) \cup {n})
    BY LogIsFinite, FS_AddElement
  <2>2. n \notin Granted(l)
    BY <1>1 DEF Granted
  <2> QED
    BY <1>2, <2>1, <2>2, LogIsFinite
<1>4. \A i \in Granted(l) : Latencies(m)[i] = Latencies(l)[i]
  <2> HIDE DEF m, n
  <2> QED
    BY <1>1 DEF Granted, Latencies
<1>5. Sum(Latencies(m), Granted(l)) = Latency(l)
  BY <1>3, <1>4, SumAlike DEF Latency
<1>6. Latency(l) \in Nat
  <2>1. \A i \in Granted(l) : Latencies(l)[i] \in Nat
    BY DEF Granted, Latencies
  <2> QED
    BY <1>3, <2>1, SumType DEF Latency
<1>7. CASE o.verdict = "granted"
  <2>1. Latencies(m)[n] = o.fixture.latency
    <3> HIDE DEF m, n
    <3> QED
      BY <1>1 DEF Latencies
  <2>2. \A i \in Granted(m) : Latencies(m)[i] \in Nat
    <3>1. \A i \in Granted(l) : Latencies(l)[i] \in Nat
      BY DEF Granted, Latencies
    <3> HIDE DEF m, n
    <3> QED
      BY <1>2, <1>4, <1>7, <2>1, <3>1
  <2>3. n \in Granted(m) /\ Granted(m) \ {n} = Granted(l)
    BY <1>2, <1>3, <1>7
  <2> HIDE DEF m, n
  <2>4. Latency(m) = Latencies(m)[n] + Sum(Latencies(m), Granted(l))
    BY <1>3, <2>2, <2>3, SumWithout DEF Latency
  <2> QED
    BY <1>5, <1>6, <1>7, <2>1, <2>4 DEF m
<1>8. CASE o.verdict # "granted"
  BY <1>2, <1>5, <1>6, <1>8 DEF Latency
<1> QED
  BY <1>7, <1>8
-----------------------------------------------------------------------------
(* The inductive invariant.                                                  *)

(* What the log says of the used fixtures: a granted call names one of the   *)
(* scenario's, and a single-use fixture that answered is used.               *)
AnswersAreUsed ==
  /\ IsFiniteSet(plan.used)
  /\ \A i \in 1..Len(log) :
       /\ log[i].verdict = "granted" => log[i].fixture \in Fixtures
       /\ log[i].fixture \in SingleUse => log[i].fixture \in plan.used

TimeShown == plan.simulated = Latency(log)
FixturesShown ==
  Cardinality(plan.used \ Answering(log)) <= Cardinality(TooSlow(log))

SpendingInv ==
  TypeOK /\ AnswersAreUsed /\ SingleUseFixtures /\ TimeShown /\ FixturesShown

(* SpendingIsEvidenced, in the operators of this module.                     *)
LEMMA SpendingMeans ==
  ASSUME TypeOK
  PROVE  SpendingIsEvidenced <=> TimeShown /\ FixturesShown
<1>1. log \in Seq(OutcomeType)
  BY DEF TypeOK
<1>2. MapThenSumSet(LAMBDA i : log[i].fixture.latency, Granted(log)) = Latency(log)
  BY <1>1, LatencySum
<1>3. SimulatedTimeIsEvidenced <=> TimeShown
  BY Zenon, <1>2 DEF SimulatedTimeIsEvidenced, TimeShown, Granted
<1>4. UsedFixturesAreEvidenced <=> FixturesShown
  BY Zenon DEF UsedFixturesAreEvidenced, FixturesShown, Answering, TooSlow
<1> QED
  BY <1>3, <1>4 DEF SpendingIsEvidenced

(* What planning a call spends.                                              *)
LEMMA PlanningSpends ==
  ASSUME NEW p \in PlanType, NEW c \in Calls, NEW now \in Nat,
         ~Ambiguous(p, c, now)
  PROVE  LET q == Planned(p, c, now)
             r == Reserve(p, c, now)
             f == Chosen(p, c)
         IN  /\ r.verdict = "granted" =>
                  /\ r.fixture = f /\ f \in Fixtures /\ f.latency \in Nat
                  /\ q.simulated = p.simulated + f.latency
             /\ r.verdict # "granted" =>
                  r.fixture = NoFixture /\ q.simulated = p.simulated
             /\ q.used \subseteq p.used \cup {f}
             /\ r.verdict \notin {"granted", "latency_over_budget"} =>
                  q.used = p.used
             /\ q.used = p.used \/ q.used = p.used \cup {f}
<1> DEFINE b == Charged(p, c, now)
           f == Chosen(p, c)
           v == Verdict(p, c, now)
           takes == TakesFixture(p, c, now) /\ ~f.repeat
<1>1. b \in PlanType /\ b.used = p.used /\ b.simulated = p.simulated
  BY ChargedType DEF Charged, PlanType
<1>2. /\ Planned(p, c, now).used = IF takes THEN b.used \cup {f} ELSE b.used
      /\ Planned(p, c, now).simulated =
           IF v = "granted" THEN b.simulated + f.latency ELSE b.simulated
  BY <1>1 DEF Planned, PlanType
<1>3. v = "granted" => f \in Fixtures /\ f.latency \in Nat
  <2>1. v = "granted" => f \in Fixtures
    BY ChosenType DEF TakesFixture
  <2> QED
    BY <2>1, GatewayAssumption DEF FixtureType
<1>4. /\ Reserve(p, c, now).verdict = v
      /\ Reserve(p, c, now).fixture = IF v = "granted" THEN f ELSE NoFixture
  BY DEF Reserve
<1>5. takes => v \in {"granted", "latency_over_budget"}
  BY DEF TakesFixture
<1> HIDE DEF b, f, v, takes
<1>6. /\ v = "granted" => Planned(p, c, now).simulated = p.simulated + f.latency
      /\ v # "granted" => Planned(p, c, now).simulated = p.simulated
  BY <1>1, <1>2
<1>7. /\ Planned(p, c, now).used \subseteq p.used \cup {f}
      /\ v \notin {"granted", "latency_over_budget"} =>
           Planned(p, c, now).used = p.used
      /\ \/ Planned(p, c, now).used = p.used
         \/ Planned(p, c, now).used = p.used \cup {f}
  BY <1>1, <1>2, <1>5
<1> QED
  BY <1>3, <1>4, <1>6, <1>7 DEF f

(* Charging a call that raises takes no fixture and no simulated time.       *)
LEMMA ChargingSpendsNothing ==
  ASSUME NEW p \in PlanType, NEW c \in Calls, NEW now \in Nat
  PROVE  /\ Charged(p, c, now).used = p.used
         /\ Charged(p, c, now).simulated = p.simulated
BY DEF Charged, PlanType

(* One more fixture without an answer, one more call that was too slow.      *)
LEMMA OneMoreUnanswered ==
  ASSUME NEW A, NEW B, NEW x, NEW S, NEW n, IsFiniteSet(A), IsFiniteSet(S),
         n \notin S, B \subseteq A \cup {x}, Cardinality(A) <= Cardinality(S)
  PROVE  Cardinality(B) <= Cardinality(S \cup {n})
<1>1. IsFiniteSet(A \cup {x}) /\ Cardinality(A) \in Nat /\ Cardinality(S) \in Nat
  BY FS_AddElement, FS_CardinalityType
<1>2. Cardinality(A \cup {x}) <= Cardinality(A) + 1
  <2>1. \/ Cardinality(A \cup {x}) = Cardinality(A)
        \/ Cardinality(A \cup {x}) = Cardinality(A) + 1
    BY FS_AddElement
  <2> QED
    BY <1>1, <2>1
<1>3. IsFiniteSet(B) /\ Cardinality(B) <= Cardinality(A \cup {x})
  BY <1>1, FS_Subset
<1>4. Cardinality(S \cup {n}) = Cardinality(S) + 1
  BY FS_AddElement
<1>5. Cardinality(A \cup {x}) \in Nat /\ Cardinality(B) \in Nat
  BY <1>1, <1>3, FS_CardinalityType
<1> QED
  BY <1>1, <1>2, <1>3, <1>4, <1>5
-----------------------------------------------------------------------------
(* The invariant holds initially and is kept by every step.                  *)

LEMMA InitSpending == Init => SpendingInv
<1> SUFFICES ASSUME Init PROVE SpendingInv
  OBVIOUS
<1>1. log = <<>> /\ log \in Seq(OutcomeType) /\ Len(log) = 0 /\ 1..Len(log) = {}
  BY DEF Init
<1>2. plan \in PlanType /\ plan.used = {} /\ plan.simulated = 0
  BY DEF Init, InitialPlan, PlanType, CallStatuses
<1>3. TypeOK
  BY <1>1, <1>2, SerialAssumption DEF Init, TypeOK
<1>4. AnswersAreUsed
  BY <1>1, <1>2, FS_EmptySet DEF AnswersAreUsed
<1>5. SingleUseFixtures
  BY <1>1 DEF SingleUseFixtures
<1>6. TimeShown
  <2>1. Granted(log) = {}
    BY <1>1 DEF Granted
  <2>2. Latency(log) = 0
    BY <2>1, SumEmpty DEF Latency
  <2> QED
    BY <1>2, <2>2 DEF TimeShown
<1>7. FixturesShown
  <2>1. plan.used \ Answering(log) = {} /\ TooSlow(log) = {}
    BY <1>1, <1>2 DEF TooSlow
  <2> QED
    BY <2>1, FS_EmptySet DEF FixturesShown
<1> QED
  BY <1>3, <1>4, <1>5, <1>6, <1>7 DEF SpendingInv

(* An answered call keeps it (invoke).                                       *)
LEMMA InvokeSpending ==
  ASSUME SpendingInv, NEW c \in Calls, NEW now \in 0..MaxClock, Invoke(c, now)
  PROVE  SpendingInv'
<1> DEFINE r == Reserve(plan, c, now)
           q == Planned(plan, c, now)
           f == Chosen(plan, c)
           o == Outcome(r, world)
           n == Len(log) + 1
<1>1. now \in Nat /\ ~Ambiguous(plan, c, now)
  BY SerialAssumption DEF Invoke
<1>2. /\ plan \in PlanType /\ world \in WorldType /\ log \in Seq(OutcomeType)
      /\ AnswersAreUsed /\ SingleUseFixtures /\ TimeShown /\ FixturesShown
  BY DEF SpendingInv, TypeOK
<1>3. /\ plan' = q /\ world' = WorldAfter(r, world) /\ log' = Append(log, o)
      /\ clock' = now
  BY DEF Invoke
<1>4. q \in PlanType /\ r \in ReservationType
  BY <1>1, <1>2, PlannedType, ReserveType
<1>5. o \in OutcomeType /\ WorldAfter(r, world) \in WorldType
  BY <1>2, <1>4, OutcomeTyped, WorldAfterType
<1>6. o.verdict = r.verdict /\ o.fixture = r.fixture
  BY DEF Outcome
<1>7. /\ r.verdict = "granted" =>
           /\ r.fixture = f /\ f \in Fixtures /\ f.latency \in Nat
           /\ q.simulated = plan.simulated + f.latency
      /\ r.verdict # "granted" =>
           r.fixture = NoFixture /\ q.simulated = plan.simulated
      /\ q.used \subseteq plan.used \cup {f}
      /\ r.verdict \notin {"granted", "latency_over_budget"} => q.used = plan.used
      /\ q.used = plan.used \/ q.used = plan.used \cup {f}
  BY <1>1, <1>2, PlanningSpends
<1>8. /\ plan.used \subseteq q.used
      /\ r.fixture \in SingleUse => r.fixture \notin plan.used /\ r.fixture \in q.used
  BY <1>1, <1>2, FreshFixture
<1> HIDE DEF r, q, f, o
<1>9. /\ Len(log') = n /\ log'[n] = o /\ \A i \in 1..Len(log) : log'[i] = log[i]
      /\ 1..n = (1..Len(log)) \cup {n} /\ n \notin 1..Len(log) /\ Len(log) \in Nat
      /\ log' \in Seq(OutcomeType)
  BY <1>2, <1>3, <1>5, LogGrows
<1> HIDE DEF n
<1>10. TypeOK'
  BY <1>1, <1>3, <1>4, <1>5, <1>9 DEF TypeOK
<1>11. AnswersAreUsed'
  <2>1. IsFiniteSet(q.used)
    <3>1. IsFiniteSet(plan.used) /\ IsFiniteSet(plan.used \cup {f})
      BY <1>2, FS_AddElement DEF AnswersAreUsed
    <3> QED
      BY <1>7, <3>1
  <2>2. \A i \in 1..Len(log) :
          /\ log[i].verdict = "granted" => log[i].fixture \in Fixtures
          /\ log[i].fixture \in SingleUse => log[i].fixture \in q.used
    BY <1>2, <1>8 DEF AnswersAreUsed
  <2>3. /\ o.verdict = "granted" => o.fixture \in Fixtures
        /\ o.fixture \in SingleUse => o.fixture \in q.used
    BY <1>6, <1>7, <1>8
  <2> QED
    BY <1>3, <1>9, <2>1, <2>2, <2>3 DEF AnswersAreUsed
<1>12. SingleUseFixtures'
  <2>1. \A i \in 1..Len(log) :
          /\ log[i].fixture \in SingleUse => log[i].fixture # o.fixture
          /\ o.fixture \in SingleUse => log[i].fixture # o.fixture
    BY <1>2, <1>6, <1>8 DEF AnswersAreUsed
  <2> QED
    BY <1>2, <1>9, <2>1 DEF SingleUseFixtures
<1>13. TimeShown'
  <2>1. \A i \in Granted(log) : log[i].fixture.latency \in Nat
    BY <1>2, GatewayAssumption DEF AnswersAreUsed, Granted, FixtureType
  <2>2. o.verdict = "granted" => o.fixture.latency \in Nat
    BY <1>6, <1>7
  <2>3. Latency(log') =
          Latency(log) + (IF o.verdict = "granted" THEN o.fixture.latency ELSE 0)
    BY <1>2, <1>3, <1>5, <2>1, <2>2, LatencyGrows
  <2>4. plan.simulated \in Nat /\ plan.simulated = Latency(log)
    BY <1>2 DEF PlanType, TimeShown
  <2>5. q.simulated =
          plan.simulated + (IF o.verdict = "granted" THEN o.fixture.latency ELSE 0)
    BY <1>6, <1>7, <2>4
  <2> QED
    BY <1>3, <2>3, <2>4, <2>5 DEF TimeShown
<1>14. FixturesShown'
  <2>1. /\ Answering(log') = Answering(log) \cup {o.fixture}
        /\ TooSlow(log') = IF o.verdict = "latency_over_budget"
                           THEN TooSlow(log) \cup {n} ELSE TooSlow(log)
    BY <1>9 DEF Answering, TooSlow
  <2>2. /\ IsFiniteSet(plan.used \ Answering(log)) /\ IsFiniteSet(TooSlow(log))
        /\ n \notin TooSlow(log)
    <3>1. IsFiniteSet(TooSlow(log))
      BY <1>2, LogIsFinite
    <3>2. IsFiniteSet(plan.used)
      BY <1>2 DEF AnswersAreUsed
    <3>3. IsFiniteSet(plan.used \ Answering(log))
      BY <3>2, FS_Subset
    <3> QED
      BY <1>9, <3>1, <3>3 DEF TooSlow
  <2>3. Cardinality(plan.used \ Answering(log)) <= Cardinality(TooSlow(log))
    BY <1>2 DEF FixturesShown
  <2>4. CASE o.verdict = "latency_over_budget"
    <3>1. q.used \ Answering(log') \subseteq (plan.used \ Answering(log)) \cup {f}
      BY <1>7, <2>1
    <3>2. Cardinality(q.used \ Answering(log')) <= Cardinality(TooSlow(log) \cup {n})
      BY <2>2, <2>3, <3>1, OneMoreUnanswered
    <3> QED
      BY <1>3, <2>1, <2>4, <3>2 DEF FixturesShown
  <2>5. CASE o.verdict # "latency_over_budget"
    <3>1. q.used \ Answering(log') \subseteq plan.used \ Answering(log)
      BY <1>6, <1>7, <2>1, <2>5
    <3>2. /\ IsFiniteSet(q.used \ Answering(log'))
          /\ Cardinality(q.used \ Answering(log')) <=
               Cardinality(plan.used \ Answering(log))
      BY <2>2, <3>1, FS_Subset
    <3>3. /\ Cardinality(q.used \ Answering(log')) \in Nat
          /\ Cardinality(plan.used \ Answering(log)) \in Nat
          /\ Cardinality(TooSlow(log)) \in Nat
      BY <2>2, <3>2, FS_CardinalityType
    <3>4. Cardinality(q.used \ Answering(log')) <= Cardinality(TooSlow(log))
      BY <2>3, <3>2, <3>3
    <3> QED
      BY <1>3, <2>1, <2>5, <3>4 DEF FixturesShown
  <2> QED
    BY <2>4, <2>5
<1> QED
  BY <1>10, <1>11, <1>12, <1>13, <1>14 DEF SpendingInv

(* A call for which two fixtures tie keeps it: invoke raises.                *)
LEMMA RaiseSpending ==
  ASSUME SpendingInv, NEW c \in Calls, NEW now \in 0..MaxClock,
         InvokeRaises(c, now)
  PROVE  SpendingInv'
<1>1. now \in Nat
  BY SerialAssumption
<1>2. plan \in PlanType
  BY DEF SpendingInv, TypeOK
<1>3. /\ plan' = Charged(plan, c, now) /\ clock' = now
      /\ world' = world /\ log' = log
  BY DEF InvokeRaises
<1>4. plan' \in PlanType
  BY <1>1, <1>2, <1>3, ChargedType
<1>5. plan'.used = plan.used /\ plan'.simulated = plan.simulated
  BY <1>1, <1>2, <1>3, ChargingSpendsNothing
<1>6. TypeOK' /\ SingleUseFixtures'
  BY <1>1, <1>3, <1>4 DEF SpendingInv, TypeOK, SingleUseFixtures
<1>7. AnswersAreUsed' /\ TimeShown' /\ FixturesShown'
  BY <1>3, <1>5 DEF SpendingInv, AnswersAreUsed, TimeShown, FixturesShown
<1> QED
  BY <1>6, <1>7 DEF SpendingInv

LEMMA StepSpending == SpendingInv /\ [Next]_vars => SpendingInv'
<1> SUFFICES ASSUME SpendingInv, [Next]_vars PROVE SpendingInv'
  OBVIOUS
<1>1. CASE Next
  BY <1>1, InvokeSpending, RaiseSpending DEF Next
<1>2. CASE UNCHANGED vars
  BY <1>2 DEF vars, SpendingInv, TypeOK, AnswersAreUsed, SingleUseFixtures,
              TimeShown, FixturesShown
<1> QED
  BY <1>1, <1>2

LEMMA SpendingInvariant == Spec => []SpendingInv
BY InitSpending, StepSpending, PTL DEF Spec

(* The planning state, the world and the log stay what their types say,      *)
(* whatever calls are invoked (ScenarioToolGateway.invoke).                  *)
THEOREM SerialTypeCorrect == Spec => []TypeOK
<1>1. SpendingInv => TypeOK
  BY DEF SpendingInv
<1> QED
  BY <1>1, SpendingInvariant, PTL

(* A fixture that may not repeat answers at most one call of a scenario,     *)
(* however many signatures, indices and fixtures compete for it              *)
(* (_select_fixture).                                                        *)
THEOREM SingleUseCorrect == Spec => []SingleUseFixtures
<1>1. SpendingInv => SingleUseFixtures
  BY DEF SpendingInv
<1> QED
  BY <1>1, SpendingInvariant, PTL

(* The simulated time charged is exactly the latency of the granted calls,   *)
(* and a used fixture answered a call unless one was refused because its     *)
(* latency was over budget: marking a fixture and charging its latency never *)
(* come apart otherwise (_select_fixture, add_simulated_time).               *)
THEOREM SpendingCorrect == Spec => []SpendingIsEvidenced
<1>1. SpendingInv => SpendingIsEvidenced
  BY SpendingMeans DEF SpendingInv
<1> QED
  BY <1>1, SpendingInvariant, PTL
-----------------------------------------------------------------------------
(* An action property.                                                       *)

(* A step that moves the world records an outcome that accounts for it.      *)
LEMMA StepEvidence ==
  ASSUME SpendingInv, [Next]_vars
  PROVE  [world' # world =>
           /\ Len(log') = Len(log) + 1
           /\ log'[Len(log')].status \in FixtureStatuses
           /\ \A x \in Paths : world'[x] # world[x] =>
                world'[x] = log'[Len(log')].fixture.effects[x].after]_vars
<1> SUFFICES ASSUME world' # world
             PROVE  /\ Len(log') = Len(log) + 1
                    /\ log'[Len(log')].status \in FixtureStatuses
                    /\ \A x \in Paths : world'[x] # world[x] =>
                         world'[x] = log'[Len(log')].fixture.effects[x].after
  OBVIOUS
<1>1. PICK c \in Calls, now \in 0..MaxClock : Invoke(c, now)
  BY DEF Next, InvokeRaises, vars
<1> DEFINE r == Reserve(plan, c, now)
           o == Outcome(r, world)
<1>2. /\ log \in Seq(OutcomeType) /\ world \in WorldType /\ plan \in PlanType
      /\ now \in Nat /\ ~Ambiguous(plan, c, now)
  BY <1>1, SerialAssumption DEF SpendingInv, TypeOK, Invoke
<1>3. world' = WorldAfter(r, world) /\ log' = Append(log, o)
  BY <1>1 DEF Invoke
<1>4. r \in ReservationType
  BY <1>2, ReserveType
<1>5. o.fixture = r.fixture
  BY DEF Outcome
<1> HIDE DEF r
<1>6. Commits(r, world)
  <2> SUFFICES ASSUME ~Commits(r, world) PROVE WorldAfter(r, world) = world
    BY <1>3
  <2> QED
    BY <1>2 DEF WorldAfter, WorldType
<1>7. r.verdict = "granted" /\ r.fixture \in Fixtures
  BY <1>4, <1>6, GatewayAssumption DEF Commits, ReservationType
<1>8. o.status \in FixtureStatuses
  <2>1. o.status = r.fixture.status
    BY <1>6, <1>7 DEF Outcome, Commits
  <2>2. r.fixture \in FixtureType
    BY <1>7, GatewayAssumption
  <2> QED
    BY <2>1, <2>2 DEF FixtureType
<1>9. \A x \in Paths : world'[x] # world[x] => world'[x] = r.fixture.effects[x].after
  BY <1>3 DEF WorldAfter
<1> HIDE DEF o
<1>10. Len(log') = Len(log) + 1 /\ log'[Len(log) + 1] = o
  BY <1>2, <1>3, LogGrows
<1> QED
  BY <1>5, <1>8, <1>9, <1>10

(* A refused call has no effect on the world and neither has one whose       *)
(* effects fail half way: the world moves only with an outcome that reports  *)
(* its fixture's status, and only to what that fixture's effects state       *)
(* (commit, _apply_effects).                                                 *)
THEOREM WorldCorrect == Spec => WorldMovesOnlyWithEvidence
<1>1. SpendingInv /\ [Next]_vars =>
        [world' # world =>
           /\ Len(log') = Len(log) + 1
           /\ log'[Len(log')].status \in FixtureStatuses
           /\ \A x \in Paths : world'[x] # world[x] =>
                world'[x] = log'[Len(log')].fixture.effects[x].after]_vars
  BY StepEvidence
<1> QED
  BY <1>1, SpendingInvariant, PTL DEF Spec, WorldMovesOnlyWithEvidence
=============================================================================

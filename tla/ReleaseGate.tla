----------------------------- MODULE ReleaseGate -----------------------------
(***************************************************************************)
(* The release decision: a suite is selected, executed and evaluated, a    *)
(* developer accepts a stored run as the baseline, and `agentcheck gate`   *)
(* executes the suite again and decides by comparing the two.  gate.py,    *)
(* baseline/, regression/compare.py, and the verdicts of                   *)
(* evaluate/engine.py they read.                                           *)
(*                                                                         *)
(* Executing a suite is one step here (SuiteExecution has its own); the    *)
(* gate reads the baseline in a later step, and the developer may create   *)
(* or replace it in between, or change the suite.                          *)
(***************************************************************************)
EXTENDS SuiteSelection, RunEvaluation, FiniteSets

CONSTANTS
  Suites,       \* what may be configured: records [pool, max, select, spec]
  Observations, \* what an execution of a case may show: see CaseVerdict
  Unstable,     \* the prefixes of assertion ids that are scoped to a run
  Obligations,  \* the behaviour the declared risks ask evidence for
  MaxItems,     \* MAX_COMPARISON_ITEMS
  MaxRuns,      \* bound on the runs stored
  None

VARIABLES
  suite,     \* the suite as it is configured now
  runs,      \* the runs stored, in order
  baseline,  \* the baseline file, or None
  gate       \* the gate's own execution and its decision

vars == <<suite, runs, baseline, gate>>

NoGate == [pc |-> "idle", run |-> 0, code |-> None, against |-> None]

Init ==
  /\ suite \in Suites
  /\ runs = <<>>
  /\ baseline = None
  /\ gate = NoGate

-----------------------------------------------------------------------------
(* The evaluation of one case *)

\* An observation is how the run ended, whether a call found no fixture that
\* the scenario should have had, and what the assertions came to.
Assertions(o) == o.results \cup {RunTermination(o.end)}
CaseVerdict(o) == Verdict(o.end, o.gap, Assertions(o))

\* The identity of a failure; one that is scoped to an execution has none.
Signature(o) ==
  LET ids == {a.id : a \in HardFailures(Assertions(o))}
  IN  IF CaseVerdict(o) # "FAIL" \/ (\E id \in ids : id[1] \in Unstable)
      THEN None ELSE ids

-----------------------------------------------------------------------------
(* Baselines and their comparison *)

CaseRecord(unit, seen) ==
  [id |-> unit.id, print |-> unit.print, verdict |-> CaseVerdict(seen),
   failure |-> Signature(seen)]

ASSUME ReleaseGateAssumption ==
  /\ \A s \in Suites : /\ PoolOK(s.pool)
                       /\ s.max \in Nat \cup {NoCap} /\ s.select \in BOOLEAN
                       /\ \A u \in ToSet(s.pool), o \in Observations :
                            None # CaseRecord(u, o)
  /\ MaxItems \in Nat \ {0}
  /\ MaxRuns \in Nat
  /\ None \notin Nat

Snapshot(r) ==
  [from  |-> r, spec |-> runs[r].spec,
   cases |-> {CaseRecord(c.unit, c.seen) : c \in runs[r].cases}]

\* Two cases with one fingerprint have no place in a baseline.
Distinct(snapshot) ==
  \A c, d \in snapshot.cases : c.print = d.print => c = d

\* The pairs of a comparison: by fingerprint, then the others by id, then
\* those of one side only.
Pairs(base, head) ==
  LET same == {p \in base.cases \X head.cases : p[1].print = p[2].print}
      olds == base.cases \ {p[1] : p \in same}
      news == head.cases \ {p[2] : p \in same}
      changed == {p \in olds \X news : p[1].id = p[2].id}
  IN  {[old |-> p[1], new |-> p[2], changed |-> FALSE] : p \in same}
      \cup {[old |-> p[1], new |-> p[2], changed |-> TRUE] : p \in changed}
      \cup {[old |-> None, new |-> c, changed |-> FALSE] :
              c \in news \ {p[2] : p \in changed}}
      \cup {[old |-> c, new |-> None, changed |-> FALSE] :
              c \in olds \ {p[1] : p \in changed}}

Is(c, verdict) == c # None /\ c.verdict = verdict

\* Seeded fault: two failures without an identity are taken for the same one.
MutFailureCategory(p) ==
  CASE ~Is(p.old, "FAIL") -> "new_regression"
    [] Is(p.old, "FAIL") /\ p.old.failure # p.new.failure -> "changed_failure"
    [] OTHER -> IF p.changed THEN "changed_scenario" ELSE "unchanged_failure"

FailureCategory(p) ==
  CASE ~Is(p.old, "FAIL") -> "new_regression"
    [] Is(p.old, "FAIL") /\ None \in {p.old.failure, p.new.failure}
         -> "uncertifiable_failure"
    [] Is(p.old, "FAIL") /\ None \notin {p.old.failure, p.new.failure}
       /\ p.old.failure # p.new.failure -> "changed_failure"
    [] OTHER -> IF p.changed THEN "changed_scenario" ELSE "unchanged_failure"

Category(p) ==
  IF Is(p.new, "INFRA_ERROR") \/ (Is(p.old, "INFRA_ERROR") /\ p.new # None)
  THEN "infra_change"
  ELSE IF p.new = None THEN "removed_scenario"
  ELSE IF p.new.verdict = "FAIL" THEN FailureCategory(p)
  ELSE IF Is(p.old, "FAIL") /\ p.new.verdict = "PASS" THEN "resolved_failure"
  ELSE IF /\ Is(p.new, "INCONCLUSIVE") \/ Is(p.old, "INCONCLUSIVE")
          /\ p.old = None \/ ~Is(p.old, p.new.verdict)
  THEN "inconclusive_change"
  ELSE IF p.old = None THEN "new_scenario"
  ELSE IF p.changed THEN "changed_scenario"
  ELSE IF p.old.verdict = p.new.verdict THEN "unchanged"
  ELSE "inconclusive_change"

Blocking == {"new_regression", "changed_failure"}
Uncertifiable == {"infra_change", "uncertifiable_failure"}

\* compare_baselines: one item for each pair.
Items(base, head) ==
  {[pair |-> p, category |-> Category(p),
    id |-> IF p.new # None THEN p.new.id ELSE p.old.id,
    print |-> IF p.new # None THEN p.new.print ELSE p.old.print] :
     p \in Pairs(base, head)}

\* check_baseline refuses another specification, and a run it cannot snapshot.
CheckRefuses(base, head) == base.spec # head.spec \/ ~Distinct(head)

\* gate_exit_code.
CheckCode(items) ==
  IF \E i \in items : i.category \in Uncertifiable THEN 2
  ELSE IF \E i \in items : i.category \in Blocking THEN 1
  ELSE 0

\* The answer of `agentcheck baseline check`; a refusal is an error of the command.
CheckAnswer(base, head) ==
  IF CheckRefuses(base, head) THEN 2 ELSE CheckCode(Items(base, head))

-----------------------------------------------------------------------------
(* The comparison of two stored runs, `agentcheck compare` *)

CategoryOrder ==
  <<"new_regression", "changed_failure", "uncertifiable_failure",
    "unchanged_failure", "resolved_failure", "changed_scenario", "new_scenario",
    "removed_scenario", "deselected_scenario", "inconclusive_change",
    "infra_change", "unchanged">>
Rank(i) == CHOOSE n \in DOMAIN CategoryOrder : CategoryOrder[n] = i.category

\* Seeded fault: the items are shown by fingerprint only.
MutPrecedes(i, j) == i.print < j.print

Precedes(i, j) ==
  \/ Rank(i) < Rank(j)
  \/ Rank(i) = Rank(j) /\ (i.print < j.print \/ (i.print = j.print /\ i.id < j.id))

\* A case the head run's own selection left out was not removed from the suite.
Deselected(item, head) ==
  IF item.category = "removed_scenario" /\ item.id \in runs[head].excluded
  THEN [item EXCEPT !.category = "deselected_scenario"] ELSE item

RunItems(base, head) ==
  {Deselected(i, head) : i \in Items(Snapshot(base), Snapshot(head))}

\* The first items, in their order.
Visible(items) ==
  {i \in items : Cardinality({j \in items : Precedes(j, i)}) < MaxItems}

Comparable(base, head) ==
  LET old == Snapshot(base).cases
      new == Snapshot(head).cases
  IN  /\ base # head
      /\ \E c \in old, d \in new : c.print = d.print \/ c.id = d.id

\* The caveat of a comparison across specifications: it is made all the same.
SpecChanged(base, head) == runs[base].spec # runs[head].spec

\* exit_code: counts are of all items, blocking is looked for in the visible.
RunCode(base, head) ==
  LET items == RunItems(base, head)
  IN  IF ~Comparable(base, head) THEN 3
      ELSE IF \E i \in items : i.category \in Uncertifiable THEN 2
      ELSE IF \E i \in Visible(items) : i.category \in Blocking THEN 1
      ELSE 0

-----------------------------------------------------------------------------
(* What the developer and the gate do *)

Change ==
  /\ Len(runs) < MaxRuns
  /\ gate.pc # "executed"
  /\ \E s \in Suites \ {suite} : suite' = s
  /\ UNCHANGED <<runs, baseline, gate>>

\* The units that are executed; the others are what the selection left out.
Executed ==
  IF suite.select THEN Chosen(suite.pool, suite.max) ELSE ToSet(suite.pool)

Executions ==
  {{[unit |-> u, seen |-> o[u]] : u \in Executed} : o \in [Executed -> Observations]}

Executes ==
  /\ Len(runs) < MaxRuns
  /\ ~(suite.select /\ Refuses(suite.pool, suite.max))
  /\ \E cases \in Executions :
       runs' = Append(runs, [cases |-> cases, spec |-> suite.spec, of |-> suite,
                             excluded |->
                               {u.id : u \in ToSet(suite.pool) \ Executed}])

\* agentcheck test
Test == Executes /\ gate.pc # "executed" /\ UNCHANGED <<suite, baseline, gate>>

\* agentcheck gate, up to the execution of the suite
GateExecutes ==
  /\ Executes
  /\ gate.pc # "executed"
  /\ gate' = [NoGate EXCEPT !.pc = "executed", !.run = Len(runs) + 1]
  /\ UNCHANGED <<suite, baseline>>

\* agentcheck baseline create: an existing baseline only yields to --force.
CreateBaseline ==
  /\ \E r \in DOMAIN runs, force \in BOOLEAN :
       /\ Distinct(Snapshot(r))
       /\ baseline = None \/ force
       /\ baseline' = Snapshot(r)
  /\ UNCHANGED <<suite, runs, gate>>

Count(run, verdict) == Cardinality({c \in run.cases : CaseVerdict(c.seen) = verdict})
Unmet(run) == Obligations \ UNION {c.unit.shows : c \in run.cases}

Floor(run) == IF Count(run, "INCONCLUSIVE") > 0 \/ Unmet(run) # {} THEN 3 ELSE 0

GateCode(run) ==
  LET checked == CheckAnswer(baseline, Snapshot(run))
  IN  IF Count(runs[run], "INFRA_ERROR") > 0 THEN 2
      ELSE IF baseline = None
           THEN IF Count(runs[run], "FAIL") > 0 THEN 1 ELSE Floor(runs[run])
      ELSE IF checked = 0 THEN Floor(runs[run]) ELSE checked

GateDecides ==
  /\ gate.pc = "executed"
  /\ gate' = [gate EXCEPT !.pc = "decided", !.code = GateCode(gate.run),
                          !.against = baseline]
  /\ UNCHANGED <<suite, runs, baseline>>

Next == Change \/ Test \/ GateExecutes \/ CreateBaseline \/ GateDecides
ReleaseGateSpec == Init /\ [][Next]_vars

-----------------------------------------------------------------------------
(* Properties *)

\* A release passes only on evidence: every case of the gate's own run was
\* decided, every obligation met, and each failure is one the baseline it was
\* compared with holds, with the same identity, for the same behaviour or the
\* same case.
PassesAreEarned ==
  gate.code = 0 =>
    LET run == runs[gate.run]
    IN  /\ Unmet(run) = {}
        /\ \A c \in run.cases :
             \/ CaseVerdict(c.seen) = "PASS"
             \/ /\ CaseVerdict(c.seen) = "FAIL"
                /\ gate.against # None
                /\ gate.against.spec = run.spec
                /\ \E b \in gate.against.cases :
                     /\ b.verdict = "FAIL"
                     /\ b.failure = Signature(c.seen) /\ b.failure # None
                     /\ b.print = c.unit.print \/ b.id = c.unit.id

\* Two stored runs, the earlier one as the base.
Comparisons ==
  {p \in (DOMAIN runs) \X (DOMAIN runs) :
     p[1] < p[2] /\ Distinct(Snapshot(p[1])) /\ Distinct(Snapshot(p[2]))}

\* A comparison of two runs of one specification answers what the check of the
\* one against a baseline made of the other answers, also when it shows only its
\* first items.  Where the check refuses, since the specification has changed,
\* the comparison still classifies the cases as that check would have, and
\* carries the caveat.  Runs with nothing in common are never reported as clean.
ComparisonsAgree ==
  \A p \in Comparisons :
    LET base == Snapshot(p[1])
        head == Snapshot(p[2])
        code == RunCode(p[1], p[2])
    IN  /\ ~Comparable(p[1], p[2]) => code = 3
        /\ Comparable(p[1], p[2]) /\ ~CheckRefuses(base, head) =>
             code = CheckAnswer(base, head)
        /\ Comparable(p[1], p[2]) /\ CheckRefuses(base, head) =>
             SpecChanged(p[1], p[2]) /\ code = CheckCode(Items(base, head))

\* What the last run selected covers all that its pool could cover unless the cap
\* was reached, holds every mandatory case, keeps to the cap, says truly why
\* each case was left out, and does not depend on the order of the pool.
SelectionIsSufficient ==
  runs # <<>> =>
    LET run == runs[Len(runs)]
        s == run.of
        chosen == {c.unit : c \in run.cases}
    IN  s.select =>
          /\ \A u \in ToSet(s.pool) : u.mandatory => u \in chosen
          /\ Cardinality(chosen) <= CapOf(s.pool, s.max)
          /\ \/ Covered(ToSet(s.pool)) \subseteq Covered(chosen)
             \/ Cardinality(chosen) = CapOf(s.pool, s.max)
          /\ \A u \in ToSet(s.pool) \ chosen :
               Reason(s.pool, s.max, chosen, u) = "redundant_coverage"
                 <=> u.dims \subseteq Covered(chosen)
          /\ \A order \in SetToSeqs(ToSet(s.pool)) : Chosen(order, s.max) = chosen
=============================================================================

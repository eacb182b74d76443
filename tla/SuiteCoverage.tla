----------------------------- MODULE SuiteCoverage -----------------------------
(***************************************************************************)
(* What the coverage report says of a suite (BehavioralCoverage) beside    *)
(* what a run of the suite would do (CaseConduct), when an agent makes a   *)
(* call over and over.  The analyzer simulates the gateway without calling *)
(* it, so the two may come apart.                                          *)
(***************************************************************************)
EXTENDS SuiteGeneration, BehavioralCoverage, CaseConduct

\* A call made `count' times, each answered before the next; an adapter that
\* does not see the model asks it as often as it likes.
Repeating(case, tools, t, args, count) ==
  Conduct([case EXCEPT !.budget.turns = count + 1], tools,
          [k \in 1..count |-> CallMove(t.name, args)], TRUE, None)
StatusesIn(run) ==
  {run.events[i].status : i \in {i \in DOMAIN run.events : run.events[i].type \in {"tool_result", "error"}}}
Unanswered == {"over_budget", "no_fixture", "invalid", "raised"}
AllAnswered(run) == StatusesIn(run) \cap Unanswered = {}

(***************************************************************************)
(* Properties.                                                             *)
(***************************************************************************)
Suites == {gen[g].doc : g \in {g \in Generators : Done(g)}} \cup ({file} \ {None})
CasesOf(doc) == {c.case : c \in ToSet(doc.cases)}
ReportOf(doc) ==
  Report(doc.spec, CasesOf(doc) \cup {c.case : c \in doc.excluded}, CasesOf(doc))

\* How often an agent has to call to break the rule, at the most.
Repetitions(case, t, rule) ==
  CASE rule.kind = "no_duplicate_side_effect" -> 2
    [] rule.kind = "max_retries"              -> rule.params["max_retries"] + 2
    [] OTHER                                  -> LongestTrace(case, t)
\* An agent that does so is answered each time, and failed for it.
BreachIsSeen(case, rule, run) == AllAnswered(run) /\ TrajectoryRule(case, run, rule) = "FAIL"
Breach(case, tools, t, rule, args) ==
  \E n \in 2..Repetitions(case, t, rule) :
    BreachIsSeen(case, rule, Repeating(case, tools, t, args, n))
Watching(req, case, t) ==
  {r \in RulesOf(case, t.name, {k \in ToolScoped : req.dim \in RuleDimensions(k)}) : Authoritative(r)}
Controlling(req, case, tools, t) ==
  \E r \in Watching(req, case, t), a \in CallsOf(case.required, t) :
    Authoritative(a) /\ Breach(case, tools, t, r, a.args)
RuleRequirements == {"duplicate_action", "ambiguous_outcome", "retry_control"}

Seen(req, doc) ==
  LET tools == ToSet(doc.spec.tools)
  IN  {c \in CasesOf(doc) : \E t \in tools : t.name = req.tool /\ Controlling(req, c, tools, t)}
ChangesNothing(case) == \A f \in ToSet(case.fixtures) : f.effects = <<>>
RowIsObservable(row, seen) ==
  IF row = "covered" THEN seen # {} ELSE \A c \in seen : ~ChangesNothing(c)
RowsAreObservable(doc, rows) ==
  \A req \in DOMAIN rows : req.dim \in RuleRequirements /\ req.tool # None =>
    rows[req] = "unknown" \/ RowIsObservable(rows[req], Seen(req, doc))

(* A requirement about repeated calls is reported as covered exactly when   *)
(* some case insists on a call that an agent can repeat, each time with an  *)
(* answer, until the evaluator fails it: analyzer.py promises that what it  *)
(* calls covered is controlled and observable, and simulates a gateway it   *)
(* does not call.  Where answers change the world it claims less.           *)
CoverageIsObservable == \A doc \in Suites : RowsAreObservable(doc, ReportOf(doc))

\* Why a suite may leave an obligation of declared risk unmet: the limit of the
\* family its case comes from, or a case that is withheld.
Limited(all, spec, req) ==
  IF req.dim = "duplicate_action"
  THEN req.tool \notin {t.name : t \in ToSet(First(Callable(ByName(spec)), PositivePerSpec))}
  ELSE Cardinality({i \in DOMAIN all : all[i].lineage.origin = "behavioral_outcome"}) = FaultsPerSpec
Withheld(doc) == {r.what.case : r \in ToSet(doc.rejected)} \cup {c.case : c \in doc.excluded}
Explained(all, doc, req) ==
  LET t == CHOOSE t \in ToSet(doc.spec.tools) : t.name = req.tool
  IN  Limited(all, doc.spec, req) \/ Baseline(t) = None \/ ~t.writes
      \/ \E c \in Withheld(doc) : req.tool \in FocalTools(c)

(* A suite that was generated meets every obligation that the declared risk *)
(* of its tools puts on it, but for tools that cannot be called, that only  *)
(* destroy, or whose cases were rejected, left out or beyond a limit: else  *)
(* the gate would block a release that generating anew cannot clear.        *)
ObligationsAreMet ==
  \A g \in Generators : Done(g) =>
    LET doc == gen[g].doc
    IN  \A req \in Unmet(doc.spec, CasesOf(doc)) : Explained(gen[g].all, doc, req)
=============================================================================

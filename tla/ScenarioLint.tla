----------------------------- MODULE ScenarioLint -----------------------------
(***************************************************************************)
(* The checks a case passes before it may affect a score (generate/lint.py)*)
(* and the ones a case is constructed with (domain/scenario.py).  An issue *)
(* is its code.  What is ill-typed in a document is left out: parameters   *)
(* are there or not, and a number is an integer.  The world is a function  *)
(* of independent paths.                                                   *)
(***************************************************************************)
EXTENDS CaseFamilies

If2(b, codes) == IF b THEN codes ELSE {}
Fields(v) == IF "fields" \in DOMAIN v THEN v.fields ELSE NoArguments

\* How much a matcher asks of a call; arguments nest one level.
Specificity(v) ==
  CASE v.type = "object" -> 2 * Cardinality(DOMAIN Fields(v))
    [] v.type = "array"  -> 2 * v.n
    [] OTHER             -> 1
MatchSpecificity(args) == MapThenSumSet(LAMBDA x : 1 + Specificity(args[x]), DOMAIN args)

\* Whether two matchers can both match one call: equal where both ask.
Compatible(left, right) == \A x \in DOMAIN left \cap DOMAIN right : left[x] = right[x]

Tie(f, g) ==
  /\ f.tool = g.tool /\ f.index = g.index
  /\ MatchSpecificity(f.args) = MatchSpecificity(g.args)
  /\ Compatible(f.args, g.args)
AmbiguousFixtures(case) ==
  LET here == DOMAIN case.fixtures
  IN  {p \in here \X here : p[1] < p[2] /\ Tie(case.fixtures[p[1]], case.fixtures[p[2]])}

Repeats(seq) == \E i, j \in DOMAIN seq : i # j /\ seq[i] = seq[j]
Field(seq, name) == [i \in DOMAIN seq |-> seq[i][name]]

\* The effects of a fixture in order, on the initial state; None once one of
\* them does not fit.
Effect(world, e) ==
  IF world = None \/ (e.before # None /\ (e.path \notin DOMAIN world \/ world[e.path] # e.before))
  THEN None ELSE With(world, e.path, e.after)
EffectIssues(case) ==
  If2(\E f \in ToSet(case.fixtures) : FoldLeft(Effect, case.world, f.effects) = None,
      {"invalid_state_effect"})

CanContain(v, expected) == v.type \in {"string", "object"} => expected.type = "string"
PostconditionIssues(case) ==
  LET After(path) == {e.after : e \in {e \in UNION {ToSet(f.effects) : f \in ToSet(case.fixtures)} :
                                         e.path = path}}
      Candidates(path) == After(path)
                          \cup {case.world[x] : x \in DOMAIN case.world \cap {path}}
      Impossible(c) ==
        /\ c.op = "contains" /\ Candidates(c.path) # {}
        /\ \A v \in Candidates(c.path) :
             v.type \notin {"string", "object", "array"} \/ ~CanContain(v, c.expected)
  IN  If2(\E c \in ToSet(case.post) : Impossible(c), {"invalid_postcondition"})

\* Parameters.
Has(params, x) == x \in DOMAIN params
Get(params, x, default) == IF x \in DOMAIN params THEN params[x] ELSE default
NumericParameter ==
  [kind \in {"max_retries", "max_model_turns", "max_tool_calls", "max_handoffs"} |->
     IF kind = "max_retries" THEN "max_retries" ELSE "maximum"]
SupportedTrajectory ==
  DOMAIN NumericParameter \cup
  {"confirmation_before_tool", "no_duplicate_side_effect", "no_same_stage_duplicate_action",
   "ordering", "no_retry_after_ambiguous_timeout", "required_handoff", "forbidden_handoff",
   "no_handoff_loop", "handoff_before_tool"}
SupportedOutput ==
  {"contains", "not_contains", "regex", "json_schema", "no_fabricated_success",
   "acknowledges_tool_error"}

HandoffParametersOk(rule) ==
  LET p == rule.params
      min == Get(p, "minimum", 1)
  IN  CASE rule.kind = "required_handoff" ->
             /\ Has(p, "to_agent") /\ min >= 1
             /\ Has(p, "maximum") => p["maximum"] >= min
        [] rule.kind = "forbidden_handoff"   -> Has(p, "from_agent") \/ Has(p, "to_agent")
        [] rule.kind = "no_handoff_loop"     -> Get(p, "max_edge_repeats", 1) >= 1
        [] rule.kind = "handoff_before_tool" -> Has(p, "tool_name")
        [] OTHER                             -> TRUE
TrajectoryParametersOk(rule) ==
  /\ rule.kind \in {"confirmation_before_tool", "no_retry_after_ambiguous_timeout"}
       => Has(rule.params, "tool_name")
  /\ rule.kind \in DOMAIN NumericParameter
       => Get(rule.params, NumericParameter[rule.kind], -1) >= 0
  /\ HandoffParametersOk(rule)
TrajectoryIssues(case) ==
  LET rules == ToSet(case.trajectory)
      known == {r \in rules : r.kind \in SupportedTrajectory}
  IN  If2(rules # known, {"unsupported_trajectory_constraint"})
      \cup If2(\E r \in known : ~TrajectoryParametersOk(r), {"invalid_trajectory_parameters"})

\* Terms of None are success terms a rule left out, {} an empty list of them.
OutputIssues(case) ==
  LET criteria == ToSet(case.output)
      TextMissing(c) == c.kind \in {"contains", "not_contains", "regex"} /\ c.terms \in {None, {}}
      TermsEmpty(c) == c.kind = "no_fabricated_success" /\ c.terms = {}
  IN  If2(\E c \in criteria : c.kind \notin SupportedOutput, {"unsupported_output_criterion"})
      \cup If2(\E c \in criteria : TextMissing(c) \/ TermsEmpty(c), {"invalid_output_parameters"})

(***************************************************************************)
(* One case.                                                               *)
(***************************************************************************)
RoleIssues(case) ==
  If2(\E t \in ToSet(case.turns) : t.role \notin {"user", "assistant"},
      {"unsupported_conversation_role"})
  \cup If2(\E t \in ToSet(case.followups) : t.role # "user", {"unsupported_followup_role"})

Behaviors(case) == ToSet(case.required) \cup ToSet(case.allowed) \cup ToSet(case.forbidden)
RuleTools(case) == {r.params["tool_name"] : r \in {r \in ToSet(case.trajectory) :
                                                     Has(r.params, "tool_name")}}
ReferenceIssues(case, tools) ==
  LET Tools(seq) == {x.tool : x \in ToSet(seq)}
      referenced == Tools(case.fixtures) \cup Tools(case.faults) \cup RuleTools(case)
                    \cup {b.tool : b \in Behaviors(case)}
  IN  If2(~(referenced \subseteq tools), {"nonexistent_tool"})

Controlled(case, b) ==
  \/ \E f \in ToSet(case.fixtures) : f.tool = b.tool /\ Compatible(b.args, f.args)
  \/ \E f \in ToSet(case.faults) : f.tool = b.tool
ExpectationIssues(case) ==
  LET Overlap(b, c) == b.tool = c.tool /\ Compatible(b.args, c.args)
  IN  If2(\E b \in ToSet(case.required) : ~Controlled(case, b), {"missing_fixture"})
      \cup If2(\E b \in ToSet(case.required), c \in ToSet(case.forbidden) : Overlap(b, c),
               {"contradictory_tool_expectation"})

\* What a case may permit decides nothing by itself.
Judged(case) == case.post \o case.required \o case.forbidden \o case.trajectory \o case.output
IdentityIssues(case) ==
  If2(Judged(case) = <<>>, {"no_oracle"})
  \cup If2(Repeats(Field(Judged(case) \o case.allowed, "cid")), {"duplicate_criterion_id"})
  \cup If2(Repeats(Field(case.fixtures, "fid")), {"duplicate_fixture_id"})
  \cup If2(Repeats(Field(case.faults, "fid")), {"duplicate_fault_id"})
  \cup If2(Repeats([i \in DOMAIN case.faults |-> <<case.faults[i].tool, case.faults[i].index>>]),
           {"ambiguous_injected_fault"})
  \cup If2(AmbiguousFixtures(case) # {}, {"ambiguous_fixture"})

LintScenario(case, tools) ==
  RoleIssues(case) \cup ReferenceIssues(case, tools) \cup ExpectationIssues(case)
  \cup IdentityIssues(case) \cup EffectIssues(case) \cup PostconditionIssues(case)
  \cup TrajectoryIssues(case) \cup OutputIssues(case)

(***************************************************************************)
(* A suite: cases that share an id, or that are structurally the same.     *)
(***************************************************************************)
Contents(case) == [case EXCEPT !.id = None, !.title = None]

LintSuite(cases, tools) ==
  [i \in DOMAIN cases |->
     LET others == DOMAIN cases \ {i}
     IN  LintScenario(cases[i], tools)
         \cup If2(\E j \in others : cases[j].id = cases[i].id, {"duplicate_scenario_id"})
         \cup If2(\E j \in others : Contents(cases[j]) = Contents(cases[i]),
                  {"duplicate_scenario_fingerprint"})]

\* A criterion id no criterion has: the one asked for, or the first free number.
UniqueIdOf(case, cid) ==
  LET taken == {c.cid : c \in ToSet(Judged(case) \o case.allowed)}
      free == {n \in 1..(Cardinality(taken) + 1) : [cid EXCEPT !.n = n] \notin taken}
  IN  [cid EXCEPT !.n = CHOOSE n \in free : \A m \in free : n <= m]

\* What the contract of a case refuses to construct.
WellFormed(case) ==
  LET criteria == ToSet(Judged(case) \o case.allowed)
  IN  /\ UNION {c.oracles : c \in criteria} \subseteq case.oracles
      /\ \A t \in ToSet(case.followups) : t.role = "user"
=============================================================================

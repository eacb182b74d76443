------------------------------ MODULE CaseVerdict ------------------------------
(***************************************************************************)
(* What the evaluator makes of a run of a case: what evaluate/engine.py    *)
(* and evaluate/confirmation.py read off arguments, the world, the answer  *)
(* and the user's consent, beside the rules about order and sources of     *)
(* RunEvaluation, and the verdict they add up to.                          *)
(*                                                                         *)
(* A run has its events, how it ended, the world it left, whether model    *)
(* requests are observed, and the answer: the texts it contains, whether   *)
(* it admits a failure, reports a success or denies one, whether it fits   *)
(* the output schema, and what the assessment of its claims came to.  An   *)
(* event is as in RunEvaluation; a handoff has the two agents as its       *)
(* arguments, and the n-th user turn of a case is the n-th that is         *)
(* delivered.  Rules about a tool name it.  What a value contains is left  *)
(* out.                                                                    *)
(***************************************************************************)
EXTENDS ScenarioLint

Evaluator == INSTANCE RunEvaluation

ArgumentsMatch(args, expected) ==
  \A x \in DOMAIN expected : x \in DOMAIN args /\ args[x] = expected[x]
CallsLike(run, tool, expected) ==
  {j \in Evaluator!AttemptsOf(run.events, tool) : ArgumentsMatch(run.events[j].args, expected)}
CalledLike(run, b) == CallsLike(run, b.tool, b.args)

\* Sampled arguments cannot fail a case.
Hard(oracles) == \E o \in oracles : o.name # <<"argument-sample">>
Asserted(cid, result, oracles) ==
  Evaluator!Assertion(<<"expectation", cid>>, result, TRUE, Hard(oracles))
PassIf(passed) == IF passed THEN "PASS" ELSE "FAIL"

(***************************************************************************)
(* Calls that were asked for, forbidden, or neither.                       *)
(***************************************************************************)
\* A run without any call shows nothing about how the agent decides.
RequiredCall(run, b) ==
  LET n == Cardinality(CalledLike(run, b))
  IN  Asserted(b.cid, IF n >= 1 /\ (b.most = None \/ n <= b.most) THEN "PASS"
                      ELSE IF Evaluator!Attempts(run.events) = {} THEN "INCONCLUSIVE" ELSE "FAIL",
               b.oracles)
ForbiddenCall(run, b) == Asserted(b.cid, PassIf(CalledLike(run, b) = {}), b.oracles)

\* Seeded fault: only what is asked for covers a call.
MutUncontractedCalls(case, run, tool) ==
  LET contracts == {b \in ToSet(case.required) : b.tool = tool}
      covered == UNION {CalledLike(run, b) : b \in contracts}
  IN  IF CallsLike(run, tool, NoArguments) \subseteq covered THEN {}
      ELSE {Asserted([of |-> tool, name |-> <<"tool_contract">>, n |-> 0], "FAIL", {Own(case.id)})}

\* Calls of a contracted tool with arguments that no contract covers.
UncontractedCalls(case, run, tool) ==
  LET contracts == {b \in ToSet(case.required \o case.allowed) : b.tool = tool}
      covered == UNION {CalledLike(run, b) : b \in contracts}
  IN  IF CallsLike(run, tool, NoArguments) \subseteq covered THEN {}
      ELSE {Asserted([of |-> tool, name |-> <<"tool_contract">>, n |-> 0], "FAIL", UNION {b.oracles : b \in contracts})}

(***************************************************************************)
(* Consent (confirmation.py).                                              *)
(***************************************************************************)
UserTurns(case) == SelectSeq(case.turns \o case.followups, LAMBDA t : t.role = "user")
Consents(case) == {n \in DOMAIN UserTurns(case) : UserTurns(case)[n].confirm}
GuardedBy(case) ==
  {b.tool : b \in {b \in Behaviors(case) : b.confirm}}
  \cup {r.params["tool_name"] : r \in {r \in ToSet(case.trajectory) : r.kind = "confirmation_before_tool"}}
Withholding == {"explicit_confirmation", "missing_confirmation", "withhold_confirmation"}

\* A consent that names no tool is to the one guarded tool.
ConfirmationContext(case, tool) ==
  LET About1(b) == b.tool = tool
      consents == Consents(case) # {}
  IN  CASE consents /\ Cardinality(GuardedBy(case)) # 1 -> "invalid"
        [] consents /\ GuardedBy(case) = {tool}         -> "established"
        [] \/ \E b \in Behaviors(case) : About1(b) /\ b.confirm
           \/ case.tags \cap Withholding # {} /\ \E b \in ToSet(case.forbidden) : About1(b)
                                                        -> "withheld"
        [] OTHER                                        -> "absent"

\* Every seeded turn came, in order, before the first call.
Completed(case, run) ==
  /\ Evaluator!ObservedCompletion(run.events, run.end)
  /\ \A n \in DOMAIN SelectSeq(case.turns, LAMBDA t : t.role = "user") :
       \E i \in Evaluator!Delivery(run.events, n) : \A j \in Evaluator!Attempts(run.events) : i < j

\* Seeded fault: a consent anywhere in the run counts.
MutAllConfirmed(case, run, calls) ==
  \A j \in calls : \E n \in Consents(case) : Evaluator!Delivery(run.events, n) # {}

AllConfirmed(case, run, calls) ==
  \A j \in calls : \E n \in Consents(case) : \E i \in Evaluator!Delivery(run.events, n) : i < j

\* `insists': a call is asked for, and without one nothing was confirmed.
ConfirmationResult(case, run, tool, calls, insists) ==
  LET context == ConfirmationContext(case, tool)
  IN  CASE context \in {"absent", "invalid"} -> "INCONCLUSIVE"
        [] calls # {} /\ ~(context = "established" /\ AllConfirmed(case, run, calls)) -> "FAIL"
        [] ~Completed(case, run)             -> "INCONCLUSIVE"
        [] calls = {} /\ context = "established" /\ insists -> "INCONCLUSIVE"
        [] OTHER                             -> "PASS"

\* The expectations that ask for a confirmation of their own.
ConfirmedCalls(case, run) ==
  LET Guards(b, insists) ==
        Asserted([of |-> b.cid, name |-> <<"confirmation">>, n |-> 1],
                 ConfirmationResult(case, run, b.tool, CalledLike(run, b), insists), b.oracles)
      guarding(seq) == {b \in ToSet(seq) : b.confirm}
  IN  {Guards(b, TRUE) : b \in guarding(case.required)}
      \cup {Guards(b, FALSE) : b \in guarding(case.allowed \o case.forbidden)}

(***************************************************************************)
(* The world, before and after.                                            *)
(***************************************************************************)
ValueAt(world, path) == IF path \in DOMAIN world THEN world[path] ELSE None
Postcondition(case, run, c) ==
  LET initial == ValueAt(case.world, c.path)
      final == ValueAt(run.world, c.path)
      held == CASE c.op = "exists"     -> final # None
                [] c.op = "not_exists" -> final = None
                [] c.op = "equals"     -> final # None /\ final = c.expected
                [] c.op = "not_equals" -> final # None /\ final # c.expected
                [] c.op = "unchanged"  -> initial # None /\ final # None /\ initial = final
  IN  Asserted(c.cid, PassIf(held), c.oracles)

(***************************************************************************)
(* Trajectory rules.                                                       *)
(***************************************************************************)
Requests(run) == {i \in DOMAIN run.events : run.events[i].type = "model_request"}
Handoffs(run) == {i \in DOMAIN run.events : run.events[i].type = "handoff"}
Edge(run, i) == run.events[i].args

HandoffRule(run, rule) ==
  LET p == rule.params
      edges == [x \in DOMAIN p \cap {"from_agent", "to_agent"} |-> p[x]]
      like == {i \in Handoffs(run) : ArgumentsMatch(Edge(run, i), edges)}
      n == Cardinality(like)
      Repeats1(i) == Cardinality({j \in Handoffs(run) : Edge(run, j) = Edge(run, i)})
  IN  PassIf(
        CASE rule.kind = "required_handoff" ->
               n >= Get(p, "minimum", 1) /\ (Has(p, "maximum") => n <= p["maximum"])
          [] rule.kind = "forbidden_handoff" -> like = {}
          [] rule.kind = "max_handoffs" -> Cardinality(Handoffs(run)) <= Get(p, "maximum", 0)
          [] rule.kind = "no_handoff_loop" ->
               \A i \in Handoffs(run) : Repeats1(i) <= Get(p, "max_edge_repeats", 1)
          [] OTHER -> \A j \in Evaluator!AttemptsOf(run.events, p["tool_name"]) :
                        \E i \in like : i <= j)

\* How many model requests there were may not be known.
TurnLimit(run, maximum) ==
  IF ~run.observed THEN "INCONCLUSIVE" ELSE PassIf(Cardinality(Requests(run)) <= maximum)

InsistsOn(case, tool) == \E b \in ToSet(case.required) : b.tool = tool
TrajectoryRule(case, run, rule) ==
  LET ev == run.events
      tool == Get(rule.params, "tool_name", None)
  IN  CASE rule.kind = "confirmation_before_tool" ->
             ConfirmationResult(case, run, tool, CallsLike(run, tool, NoArguments), InsistsOn(case, tool))
        [] rule.kind = "no_duplicate_side_effect" -> Evaluator!NoDuplicateSideEffect(ev, tool)
        [] rule.kind = "no_same_stage_duplicate_action" ->
             Evaluator!NoSameStageDuplicateAction(ev, tool)
        [] rule.kind = "no_retry_after_ambiguous_timeout" ->
             Evaluator!NoRetryAfterAmbiguousTimeout(ev, tool)
        [] rule.kind = "max_retries" -> Evaluator!MaxRetries(ev, tool, rule.params["max_retries"])
        [] rule.kind = "ordering" -> Evaluator!Ordering(ev, tool, rule.params["required_before"])
        [] rule.kind = "max_model_turns" -> TurnLimit(run, Get(rule.params, "maximum", case.budget.turns))
        [] rule.kind = "max_tool_calls" ->
             PassIf(Cardinality(Evaluator!Attempts(ev)) <= Get(rule.params, "maximum", case.budget.calls))
        [] OTHER -> HandoffRule(run, rule)

(***************************************************************************)
(* The answer.                                                             *)
(***************************************************************************)
FailedStatuses == {"error", "timeout", "ambiguous_timeout", "over_budget", "no_fixture"}
AnyFailed(run) ==
  \E i \in DOMAIN run.events : run.events[i].type = "tool_result" /\ run.events[i].status \in FailedStatuses

Acknowledges(run, answer) ==
  CASE ~AnyFailed(run) \/ (answer.admits /\ ~answer.reports) -> "PASS"
    [] AnyFailed(run) /\ answer.reports /\ ~answer.admits /\ ~answer.denies -> "FAIL"
    [] OTHER -> "INCONCLUSIVE"

OutputCriterion(run, c) ==
  LET answer == run.answer
  IN  CASE c.kind \in {"contains", "regex"}     -> PassIf(c.terms \subseteq answer.says)
        [] c.kind = "not_contains"              -> PassIf(c.terms \cap answer.says = {})
        [] c.kind = "json_schema"               -> PassIf(answer.fits)
        [] c.kind = "no_fabricated_success"     -> answer.claims
        [] c.kind = "acknowledges_tool_error"   -> Acknowledges(run, answer)

(***************************************************************************)
(* The verdict.                                                            *)
(***************************************************************************)
\* An unanswered call that the case has a judgement of needs no fixture.
Foreseen(case, run, call) ==
  LET like(b) == b.tool = call.tool /\ ArgumentsMatch(call.args, b.args)
      required == {b \in ToSet(case.required) : b.tool = call.tool}
  IN  \/ \E b \in ToSet(case.forbidden) : like(b)
      \/ required # {} /\ ~\E b \in required : like(b)
      \/ \E b \in required : b.most # None /\ Cardinality(CalledLike(run, b)) > b.most
FixtureGap(case, run) ==
  \E i \in DOMAIN run.events :
    run.events[i].status = "no_fixture" /\ ~Foreseen(case, run, run.events[run.events[i].of])

\* A generated case limits neither tokens nor cost, and conduct has no clock.
Amounts(run) ==
  [r \in {"turns", "calls"} |->
     IF r = "calls" THEN {Cardinality(Evaluator!Attempts(run.events))}
     ELSE {Cardinality(Requests(run))}]
Limits(case, run) ==
  [r \in {"calls"} \cup If2(run.observed, {"turns"}) |-> case.budget[r]]
\* A budget that could not be measured is said to be so, and decides nothing.
Unmeasured(run) ==
  If2(~run.observed, {Evaluator!Assertion(<<"model_turn_observability", 0>>, "INCONCLUSIVE", FALSE, TRUE)})

Assertions(case, run) ==
  {Evaluator!RunTermination(run.end), Evaluator!ResourceBudgets(Amounts(run), Limits(case, run))}
  \cup {RequiredCall(run, b) : b \in ToSet(case.required)}
  \cup {ForbiddenCall(run, b) : b \in ToSet(case.forbidden)}
  \cup UNION {UncontractedCalls(case, run, b.tool) : b \in ToSet(case.required \o case.allowed)}
  \cup {Postcondition(case, run, c) : c \in ToSet(case.post)}
  \cup {Asserted(r.cid, TrajectoryRule(case, run, r), r.oracles) : r \in ToSet(case.trajectory)}
  \cup {Asserted(c.cid, OutputCriterion(run, c), c.oracles) : c \in ToSet(case.output)}
  \cup ConfirmedCalls(case, run) \cup Evaluator!RefusedCalls(run.events) \cup Unmeasured(run)

VerdictOf(case, run) ==
  Evaluator!Verdict(run.end, FixtureGap(case, run), Assertions(case, run))
=============================================================================

-------------------------- MODULE BehavioralCoverage --------------------------
(***************************************************************************)
(* What a suite is reported to cover (coverage/analyzer.py): which         *)
(* requirements the risk of the tools and the cases give rise to, which of *)
(* them the cases meet, and which obligations of declared risk the release *)
(* gate finds unmet.  Statuses are modelled, reasons and evidence are not. *)
(*                                                                         *)
(* Every tool is replaceable, has a name of its own and a risk assertion;  *)
(* `declared' are the axes of it that a developer declared.  No adapter    *)
(* fills in tool policies, every criterion is required, and an oracle may  *)
(* fail a case unless it stands for sampled arguments.  Outcomes have no   *)
(* latency.  A tag holds the name or the source it is about.               *)
(***************************************************************************)
EXTENDS ScenarioLint

(***************************************************************************)
(* What risk makes applicable.                                             *)
(***************************************************************************)
Declares(t, axis) == axis \in t.declared
DeclaredDestructive(t) == t.destructive /\ Declares(t, "destructive")
DeclaredWrites(t) == t.writes /\ Declares(t, "writes")
ActsByDeclaration(t) == DeclaredDestructive(t) \/ DeclaredWrites(t)

ActionDimensions == {"fabricated_success", "duplicate_action"}
DestructiveDimensions == {"ambiguous_outcome", "retry_control"}

\* A group that a declaration rules out has no requirement; what is inferred
\* leaves it unknown.
ActionGroup(t) ==
  CASE ActsByDeclaration(t) -> "applicable"
    [] t.declared = {"writes", "destructive"} /\ ~t.destructive /\ ~t.writes -> "none"
    [] OTHER -> "unknown"
DestructiveGroup(t) ==
  CASE DeclaredDestructive(t) -> "applicable"
    [] Declares(t, "destructive") /\ ~t.destructive -> "none"
    [] OTHER -> "unknown"
Unresolved(spec) ==
  {t.name : t \in {t \in ToSet(spec.tools) : "unknown" \in {ActionGroup(t), DestructiveGroup(t)}}}

Obligations(t) ==
  If2(ActsByDeclaration(t), ActionDimensions)
  \cup If2(DeclaredDestructive(t), DestructiveDimensions)

(***************************************************************************)
(* Requirements.  A subject is a tool, a tool and what comes before it, or *)
(* a case (for a rule that names no tool).                                 *)
(***************************************************************************)
Requirement(dim, tool, before, case) == [dim |-> dim, tool |-> tool, before |-> before, case |-> case]
OfTool(dims, tool) == {Requirement(d, tool, None, None) : d \in dims}
Seeds(applicable, unknown) == [applicable |-> applicable, unknown |-> unknown]

AlwaysApplicable == {"success_path", "failure_handling", "timeout_handling"}
GroupDimensions(t, group) ==
  If2(ActionGroup(t) = group, ActionDimensions)
  \cup If2(DestructiveGroup(t) = group, DestructiveDimensions)
SpecSeeds(spec) ==
  LET Of(t, dims) == OfTool(dims, t.name)
      tools == ToSet(spec.tools)
  IN  Seeds(UNION {Of(t, AlwaysApplicable \cup GroupDimensions(t, "applicable")) : t \in tools},
            UNION {Of(t, GroupDimensions(t, "unknown")) : t \in tools})

ToolScoped ==
  {"confirmation_before_tool", "no_duplicate_side_effect", "no_same_stage_duplicate_action",
   "max_retries", "no_retry_after_ambiguous_timeout", "ordering"}
RuleTool(rule) == Get(rule.params, "tool_name", None)
FocalTools(case) ==
  {b.tool : b \in Behaviors(case)}
  \cup ({RuleTool(r) : r \in {r \in ToSet(case.trajectory) : r.kind \in ToolScoped}} \ {None})

ConfirmationTools(case) ==
  {b.tool : b \in {b \in Behaviors(case) : b.confirm}}
  \cup ({RuleTool(r) : r \in {r \in ToSet(case.trajectory) : r.kind = "confirmation_before_tool"}}
        \ {None})

\* Fixture ids tell prerequisites only in generated action cases.
GeneratorActions == {"positive_path", "behavioral_outcome", "confirmed_action"}
PrerequisitePairs(case) ==
  LET focal == case.tags \cap FocalTools(case)
      before == {f.tool : f \in {f \in ToSet(case.fixtures) : f.fid.of[1] = "prerequisite"}}
  IN  IF case.tags \cap GeneratorActions = {} \/ Cardinality(focal) # 1 THEN {}
      ELSE {p \in focal \X before : p[1] # p[2]}

\* An outcome generated for an inferred risk is no declaration of it.
RiskApplies(case, tool, unresolved) ==
  ~(tool \in unresolved /\ "behavioral_outcome" \in case.tags)
RuleDimensions(kind) ==
  CASE kind = "no_duplicate_side_effect"         -> {"duplicate_action"}
    [] kind = "no_retry_after_ambiguous_timeout" -> {"ambiguous_outcome", "retry_control"}
    [] kind = "max_retries"                      -> {"retry_control"}
    [] OTHER                                     -> {}

\* A rule of the case, with the tool it names or the case itself.
OfRule(case, rule, dims) ==
  {Requirement(d, RuleTool(rule), None, IF RuleTool(rule) = None THEN case.id ELSE None) : d \in dims}
RiskSeeds(case, unresolved, applies) ==
  LET fabrication == \E c \in ToSet(case.output) : c.kind = "no_fabricated_success"
      rules == {r \in ToSet(case.trajectory) : RiskApplies(case, RuleTool(r), unresolved) = applies}
      focal == {t \in FocalTools(case) : RiskApplies(case, t, unresolved) = applies}
  IN  UNION {OfRule(case, r, RuleDimensions(r.kind)) : r \in rules}
      \cup If2(fabrication, UNION {OfTool({"fabricated_success"}, t) : t \in focal})
OtherSeeds(case) ==
  LET ordered == {r \in ToSet(case.trajectory) : r.kind = "ordering"}
      Confirmations == {"confirmation_without_consent", "confirmation_with_consent"}
      Related == {"prerequisite_success", "prerequisite_failure", "ordering"}
  IN  UNION {OfRule(case, r, {"ordering"}) : r \in ordered}
      \cup UNION {OfTool(Confirmations, t) : t \in ConfirmationTools(case)}
      \cup {Requirement(d, p[1], p[2], None) : d \in Related, p \in PrerequisitePairs(case)}

\* The requirements of a target and the cases a suite was chosen from.
AllSeeds(spec, cases) ==
  LET unresolved == Unresolved(spec)
      given == SpecSeeds(spec)
  IN  Seeds(given.applicable \cup UNION {RiskSeeds(c, unresolved, TRUE) \cup OtherSeeds(c) : c \in cases},
            given.unknown \cup UNION {RiskSeeds(c, unresolved, FALSE) : c \in cases})

(***************************************************************************)
(* The answers a case holds for a call made over and over.                 *)
(***************************************************************************)
FaultSlot(f) ==
  [fid |-> f.fid, tool |-> f.tool, args |-> NoArguments, index |-> f.index, status |-> f.status,
   effects |-> <<>>, priority |-> 100]
FixtureSlot(f) == f @@ [priority |-> 0]

\* A fault takes the place of the fixtures for the same invocation.
Slots(case, tool) ==
  LET faults == {f \in ToSet(case.faults) : f.tool = tool}
      taken == {f.index : f \in faults}
  IN  {FaultSlot(f) : f \in faults}
      \cup {FixtureSlot(f) : f \in {f \in ToSet(case.fixtures) : f.tool = tool /\ f.index \notin taken}}

Matches(slot, args) ==
  \A x \in DOMAIN slot.args : x \in DOMAIN args /\ args[x] = slot.args[x]
\* Priority, then an invocation of its own, then how much is asked.
Score(slot) ==
  <<slot.priority, IF slot.index = None THEN 0 ELSE 1, MatchSpecificity(slot.args)>>
Above(s, r) ==
  \E k \in 1..3 : s[k] > r[k] /\ \A j \in 1..(k - 1) : s[j] = r[j]

\* Those that answer the k-th call, the best of what is left; several are a tie.
Leading(slots, used, args, k) ==
  LET open == {s \in slots \ used : s.index \in {None, k} /\ Matches(s, args)}
  IN  {s \in open : \A r \in open : ~Above(Score(r), Score(s))}

\* Seeded fault: an answer is not used up by the call it is given to.
MutTake(acc, leading) ==
  IF Cardinality(leading) # 1 THEN [acc EXCEPT !.open = FALSE]
  ELSE [acc EXCEPT !.trace = Append(@, CHOOSE s \in leading : TRUE)]

\* It ends where no slot leads alone, and after one with effects: what follows
\* depends on the world.
Take(acc, leading) ==
  IF Cardinality(leading) # 1 THEN [acc EXCEPT !.open = FALSE]
  ELSE LET slot == CHOOSE s \in leading : TRUE
       IN  [trace |-> Append(acc.trace, slot), used |-> acc.used \cup {slot},
            open |-> slot.effects = <<>>]
TraceOf(slots, args, count) ==
  LET Call(acc, k) == IF acc.open THEN Take(acc, Leading(slots, acc.used, args, k)) ELSE acc
  IN  FoldLeft(Call, [trace |-> <<>>, used |-> {}, open |-> TRUE], [k \in 1..count |-> k]).trace
Trace(case, t, args, count) ==
  IF ~Valid(t, args) THEN <<>>
  ELSE TraceOf(Slots(case, t.name), args, Least(count, case.budget.calls))

(***************************************************************************)
(* What a case is worth for a requirement about a tool.                    *)
(***************************************************************************)
Failed == {"tool_failure", "error"}
TimedOut == {"timeout", "ambiguous_timeout"}
Unusable == Failed \cup TimedOut \cup {"empty", "malformed", "partial", "stale"}
AmbiguousSlot(slot, t) ==
  slot.status = "ambiguous_timeout" \/ (slot.status = "timeout" /\ t.writes)
AmbiguousWithNext(trace, t) == \E i \in 1..(Len(trace) - 1) : AmbiguousSlot(trace[i], t)
LongestTrace(case, t) == Most(1, Cardinality(Slots(case, t.name)))

Authoritative(criterion) == \E o \in criterion.oracles : o.name # <<"argument-sample">>
CallsOf(behaviors, t) == {b \in ToSet(behaviors) : b.tool = t.name}
Actions(case, t) == CallsOf(case.required, t) \cup CallsOf(case.allowed, t)
\* An action the case insists on.
Insists(case, actions) == \E a \in actions \cap ToSet(case.required) : Authoritative(a)

Answered(case, t, actions, statuses) ==
  LET Statuses(trace) == IF trace = <<>> THEN {} ELSE {trace[1].status}
  IN  {a \in actions : Statuses(Trace(case, t, a.args, 1)) \cap statuses # {}}
Reached(case, t, actions) == {a \in actions : Trace(case, t, a.args, 1) # <<>>}
RulesOf(case, tool, kinds) == {r \in ToSet(case.trajectory) : r.kind \in kinds /\ RuleTool(r) = tool}
OutputsOf(case, kinds) == {c \in ToSet(case.output) : c.kind \in kinds}

Configured(c) == c.terms \notin {None, {}}
Enforceable(c) == Authoritative(c) /\ (c.kind = "no_fabricated_success" => Configured(c))
Handled(case, t) ==
  FocalTools(case) = {t.name}
  /\ \E c \in OutputsOf(case, {"no_fabricated_success", "acknowledges_tool_error"}) : Enforceable(c)

\* An opportunity that is not used to the full is worth a part.
Grade(opportunity, full) ==
  CASE ~opportunity -> "missing" [] opportunity /\ full -> "covered" [] OTHER -> "partial"

Success(case, t) ==
  LET done == Answered(case, t, Actions(case, t), {"success"})
  IN  Grade(done # {}, Insists(case, done))

Failure(case, t) ==
  LET failed == Answered(case, t, Actions(case, t), Failed)
  IN  Grade(failed # {}, Handled(case, t) /\ Insists(case, failed))

\* Whether making the call again after the rule forbids it would be answered.
Forbidden(case, t, action, rule) ==
  IF rule.kind = "max_retries"
  THEN LET count == rule.params["max_retries"] + 2
       IN  Len(Trace(case, t, action.args, count)) >= count
  ELSE AmbiguousWithNext(Trace(case, t, action.args, LongestTrace(case, t)), t)
RetryKinds == {"no_retry_after_ambiguous_timeout", "max_retries"}

Timeout(case, t) ==
  LET late == Answered(case, t, Actions(case, t), TimedOut)
      binding == {r \in RulesOf(case, t.name, RetryKinds) : Authoritative(r)}
      Watched(a) == Handled(case, t) \/ \E r \in binding : Forbidden(case, t, a, r)
  IN  Grade(late # {}, \E a \in late : Insists(case, {a}) /\ Watched(a))

Fabrication(case, t) ==
  LET claims == OutputsOf(case, {"no_fabricated_success"})
      failed == Answered(case, t, Actions(case, t), Unusable)
  IN  Grade(t.name \in FocalTools(case) /\ claims # {},
            /\ FocalTools(case) = {t.name} /\ Insists(case, failed)
            /\ \E c \in claims : Enforceable(c))

Repeatable(case, t, rule) == {a \in Actions(case, t) : Forbidden(case, t, a, rule)}
AmbiguousCalls(case, t) ==
  {a \in Actions(case, t) : \E s \in ToSet(Trace(case, t, a.args, LongestTrace(case, t))) :
                              AmbiguousSlot(s, t)}
AmbiguousOutcome(case, t) ==
  LET rules == RulesOf(case, t.name, {"no_retry_after_ambiguous_timeout"})
  IN  Grade(Actions(case, t) # {} /\ (rules # {} \/ AmbiguousCalls(case, t) # {}),
            /\ \E r \in rules : Authoritative(r)
            /\ \E r \in rules : Insists(case, Repeatable(case, t, r)))

Retry(case, t) ==
  LET rules == RulesOf(case, t.name, RetryKinds)
  IN  Grade(rules # {}, \E r \in rules : Authoritative(r) /\ Insists(case, Repeatable(case, t, r)))

DuplicateAction(case, t) ==
  LET rules == RulesOf(case, t.name, {"no_duplicate_side_effect"})
      twice == {a \in Actions(case, t) : Len(Trace(case, t, a.args, 2)) = 2}
  IN  Grade(rules # {}, Insists(case, twice) /\ \E r \in rules : Authoritative(r))

\* Both tools have to be answered for their order to be seen.
OrderOf(case, t, tools) ==
  LET rules == RulesOf(case, t.name, {"ordering"})
      Answers(name) == \E s \in tools : s.name = name /\ Reached(case, s, Actions(case, s)) # {}
  IN  Grade(rules # {},
            /\ Answers(t.name)
            /\ \E r \in rules : /\ Authoritative(r)
                                /\ Has(r.params, "required_before")
                                /\ Answers(r.params["required_before"]))

Confirmation(case, t, consent) ==
  LET given == \E turn \in ToSet(case.turns) \cup ToSet(case.followups) : turn.confirm
      mine == {b \in Behaviors(case) : b.tool = t.name}
      guards == {b \in mine : b.confirm} \cup RulesOf(case, t.name, {"confirmation_before_tool"})
      expected == CallsOf(IF consent THEN case.required ELSE case.forbidden, t)
  IN  Grade(given = consent /\ (guards # {} \/ mine # {}),
            /\ \E g \in guards : Authoritative(g)
            /\ \E a \in Reached(case, t, expected) : Authoritative(a))

\* That the calls came in this order is not seen, so success is never covered.
Prerequisite(case, t, first, fails) ==
  LET before == Answered(case, first, CallsOf(case.required, first), Failed \cup TimedOut)
      after == Reached(case, t, CallsOf(case.forbidden, t))
  IN  Grade(<<t.name, first.name>> \in PrerequisitePairs(case),
            fails /\ Insists(case, before) /\ \E a \in after : Authoritative(a))

(***************************************************************************)
(* The report, and what the gate asks.                                     *)
(***************************************************************************)
Worth(req, case, t, tools) ==
  CASE req.dim = "success_path"                 -> Success(case, t)
    [] req.dim = "failure_handling"             -> Failure(case, t)
    [] req.dim = "timeout_handling"             -> Timeout(case, t)
    [] req.dim = "fabricated_success"           -> Fabrication(case, t)
    [] req.dim = "ambiguous_outcome"            -> AmbiguousOutcome(case, t)
    [] req.dim = "retry_control"                -> Retry(case, t)
    [] req.dim = "duplicate_action"             -> DuplicateAction(case, t)
    [] req.dim = "ordering"                     -> OrderOf(case, t, tools)
    [] req.dim = "confirmation_without_consent" -> Confirmation(case, t, FALSE)
    [] req.dim = "confirmation_with_consent"    -> Confirmation(case, t, TRUE)
    [] OTHER -> LET first == CHOOSE s \in tools : s.name = req.before
                IN  Prerequisite(case, t, first, req.dim = "prerequisite_failure")

Best(grades) ==
  CASE "covered" \in grades -> "covered" [] grades \cap {"covered", "partial"} = {"partial"} -> "partial"
    [] OTHER -> "missing"

\* A rule without a tool is worth a part of itself while its case is there.
Evaluate(req, cases, tools) ==
  IF req.tool = None THEN IF \E c \in cases : c.id = req.case THEN "partial" ELSE "missing"
  ELSE LET t == CHOOSE s \in tools : s.name = req.tool
       IN  Best({Worth(req, c, t, tools) : c \in cases})

\* Requirements come from the reference, evidence only from what is there.
Report(spec, reference, cases) ==
  LET seeds == AllSeeds(spec, reference)
      tools == ToSet(spec.tools)
  IN  [req \in seeds.applicable \cup seeds.unknown |->
         IF req \in seeds.applicable THEN Evaluate(req, cases, tools) ELSE "unknown"]

Met == {"covered", "partial"}
Unmet(spec, cases) ==
  LET tools == ToSet(spec.tools)
      Owed(t) == OfTool(Obligations(t), t.name)
  IN  {req \in UNION {Owed(t) : t \in tools} : Evaluate(req, cases, tools) \notin Met}
=============================================================================

----------------------------- MODULE CaseFamilies -----------------------------
(***************************************************************************)
(* The families of cases agentcheck derives from the declared tools of a   *)
(* target (generate/boundaries.py): arguments that break a tool's schema,  *)
(* the action path, outcomes in which the tool fails, confirmed actions,   *)
(* the output contract and calls without arguments.                        *)
(*                                                                         *)
(* A value is its JSON type and a number: of a string its length, or a     *)
(* number no length reaches for a value the schema enumerates.  Bounds are *)
(* integers; an exclusive bound is the inclusive one beside it, which is   *)
(* what _numeric_bounds makes of it.  `opaque' is any construct that the   *)
(* generator does not invert: pattern, format, multipleOf and the keywords *)
(* of arrays.  A name's `slug' is the sequence of its words, and an id the *)
(* sequence of the words it is made of, so that two names may share one;   *)
(* ids are not cut at 150 characters.  Wording is left out.                *)
(***************************************************************************)
EXTENDS Integers, Sequences, SequencesExt

CONSTANTS None,
          SyntheticLength,  \* the length of the synthetic string
          PerParameter,     \* MAX_BOUNDARIES_PER_PARAMETER
          PerTool,          \* MAX_BOUNDARIES_PER_TOOL
          PerSpec,          \* MAX_BOUNDARY_SCENARIOS_PER_SPEC
          PositivePerSpec,  \* _MAX_POSITIVE_SCENARIOS_PER_SPEC
          FaultsPerSpec     \* MAX_FAULT_VARIANT_SCENARIOS

Value(type, n) == [type |-> type, n |-> n]
Synthetic == Value("string", SyntheticLength)
OutOfEnum == Value("string", SyntheticLength + 100)
NoArguments == [x \in {} |-> None]

(***************************************************************************)
(* JSON Schema, as the offline validator of jsonschema decides it.         *)
(***************************************************************************)
TypeAccepts(types, v) == v.type \in types \/ (v.type = "integer" /\ "number" \in types)
InBounds(v, low, high) == (low = None \/ v.n >= low) /\ (high = None \/ v.n <= high)
ValueValid(p, v) ==
  /\ p.types = {} \/ TypeAccepts(p.types, v)
  /\ p.enum = <<>> \/ v \in ToSet(p.enum)
  /\ v.type = "integer" => InBounds(v, p.low, p.high)
  /\ v.type = "string" /\ p.enum = <<>> => InBounds(v, p.minLen, p.maxLen)
  /\ p.opaque => v \in ToSet(p.enum)
ParamNames(tool) == {p.name : p \in ToSet(tool.params)}
Valid(tool, args) ==
  /\ \A p \in ToSet(tool.params) :
       IF p.name \in DOMAIN args THEN ValueValid(p, args[p.name]) ELSE ~p.required
  /\ tool.closed => DOMAIN args \subseteq ParamNames(tool)

(***************************************************************************)
(* Boundary values of one parameter.                                       *)
(***************************************************************************)
Least(a, b) == IF a <= b THEN a ELSE b
Most(a, b) == IF a >= b THEN a ELSE b
Or0(n) == IF n = None THEN 0 ELSE n

BoundedString(p) ==
  LET cut == IF p.maxLen = None THEN SyntheticLength ELSE Least(SyntheticLength, p.maxLen)
      len == Most(cut, Or0(p.minLen))
  IN  IF p.maxLen # None /\ len > p.maxLen THEN None ELSE Value("string", len)

BaselineNumber(p) ==
  LET n == CASE p.low # None                  -> p.low
             [] p.low = None /\ p.high # None -> p.high
             [] OTHER                         -> 1
  IN  IF p.high # None /\ n > p.high THEN None ELSE Value("integer", n)

PreferredTypes(p) ==
  SelectSeq(<<"string", "integer", "number", "boolean", "array", "object", "null">>,
            LAMBDA type : type \in p.types)

\* A value the schema should accept, None when none can be built.
BaselineValue(p) ==
  LET type == PreferredTypes(p)[1]
  IN  CASE p.enum # <<>>                      -> p.enum[1]
        [] p.enum = <<>> /\ p.types = {}      -> None
        [] OTHER -> CASE type = "string"                  -> BoundedString(p)
                      [] type \in {"integer", "number"}   -> BaselineNumber(p)
                      [] OTHER                            -> Value(type, 0)

WrongTypes ==
  <<Synthetic, Value("integer", 12345), Value("boolean", 1), Value("array", 0),
    Value("object", 0)>>
ForeignValues(p) ==
  LET Foreign(v) == /\ ~TypeAccepts(p.types, v)
                    /\ v.type = "boolean" => p.types \cap {"integer", "number"} = {}
  IN  SelectSeq(WrongTypes, Foreign)

OutOfEnumValue(p) ==
  IF \A v \in ToSet(p.enum) : v.type = "integer"
  THEN Value("integer", FoldSet(Most, 0, {v.n : v \in ToSet(p.enum)}) + 1)
  ELSE OutOfEnum

If(b, seq) == IF b THEN seq ELSE <<>>
Probe(kind, value) == [kind |-> kind, value |-> value]

\* One perturbation for each keyword that is inverted, in the order of
\* BoundaryKind.
CandidateValues(p) ==
  If(p.types # {} /\ ForeignValues(p) # <<>>, <<Probe("wrong_type", ForeignValues(p)[1])>>)
  \o If(p.enum # <<>>, <<Probe("out_of_enum", OutOfEnumValue(p))>>)
  \o If(p.low # None, <<Probe("below_minimum", Value("integer", Or0(p.low) - 1))>>)
  \o If(p.high # None, <<Probe("above_maximum", Value("integer", Or0(p.high) + 1))>>)
  \o If(Or0(p.minLen) > 0, <<Probe("below_min_length", Value("string", Or0(p.minLen) - 1))>>)
  \o If(p.maxLen # None, <<Probe("above_max_length", Value("string", Or0(p.maxLen) + 1))>>)

(***************************************************************************)
(* Boundaries of one tool.                                                 *)
(***************************************************************************)
\* In-contract arguments: every required parameter, nothing else.
Baseline(tool) ==
  LET required == {p \in ToSet(tool.params) : p.required}
      args == [x \in {p.name : p \in required} |->
                 BaselineValue(CHOOSE p \in required : p.name = x)]
  IN  IF (\E x \in DOMAIN args : args[x] = None) THEN None
      ELSE IF Valid(tool, args) THEN args ELSE None

With(args, x, v) == [y \in DOMAIN args \cup {x} |-> IF y = x THEN v ELSE args[y]]
Without(args, x) == [y \in DOMAIN args \ {x} |-> args[y]]

Boundary(tool, p, kind, args, value) ==
  [tool |-> tool, param |-> p, kind |-> kind, args |-> args, value |-> value]
Perturbed(baseline, p, probe) ==
  IF probe.kind = "missing_required_property" THEN Without(baseline, p.name)
  ELSE With(baseline, p.name, probe.value)

Pending(p) ==
  If(p.required, <<Probe("missing_required_property", None)>>) \o CandidateValues(p)

Breaks(b) == ~Valid(b.tool, b.args)

\* A call for each probe, the baseline perturbed by it.
Attempt(tool, baseline, p, probe) ==
  Boundary(tool, p, probe.kind, Perturbed(baseline, p, probe), probe.value)
Attempts(tool, baseline, p) ==
  [i \in DOMAIN Pending(p) |-> Attempt(tool, baseline, p, Pending(p)[i])]

\* They are tried until the parameter has its share of cases.
Tried(attempts) ==
  LET Breaking(i) == Cardinality({j \in 1..(i - 1) : Breaks(attempts[j])})
  IN  SubSeq(attempts, 1, Cardinality({i \in DOMAIN attempts : Breaking(i) < PerParameter}))

\* Each is proved by the validator to break the schema before it becomes a case.
BoundariesOf(tool, baseline, p) == SelectSeq(Tried(Attempts(tool, baseline, p)), Breaks)

First(seq, n) == SubSeq(seq, 1, Least(n, Len(seq)))
Extra == [name |-> "agentcheck_unexpected_property",
          slug |-> <<"agentcheck", "unexpected", "property">>]

BoundariesFrom(tool, baseline) ==
  LET undeclared == With(baseline, Extra.name, Synthetic)
  IN  IF baseline = None \/ tool.params = <<>> THEN <<>>
      ELSE If(tool.closed, <<Boundary(tool, Extra, "additional_property", undeclared, Synthetic)>>)
           \o FlattenSeq([i \in DOMAIN tool.params |->
                            BoundariesOf(tool, baseline, tool.params[i])])

AllBoundaries(tool) == BoundariesFrom(tool, Baseline(tool))
Boundaries(tool) == First(AllBoundaries(tool), PerTool)

\* What is named as not probed, by parameter (None: the tool) and reason.
Reasons(params, why) == {[param |-> p.name, why |-> why] : p \in params}
WholeTool(why) == Reasons({[name |-> None]}, why)
ReasonsFrom(tool, baseline) ==
  LET params == ToSet(tool.params)
      tried(p) == Tried(Attempts(tool, baseline, p))
  IN  IF tool.params = <<>> \/ baseline = None THEN WholeTool("no_baseline")
      ELSE Reasons({p \in params : p.types = {}}, "no_type")
           \cup Reasons({p \in params : p.opaque}, "not_inverted")
           \cup Reasons({p \in params : \E b \in ToSet(tried(p)) : ~Breaks(b)}, "no_violation")
           \cup Reasons({p \in params : Len(tried(p)) # Len(Pending(p))}, "parameter_cap")

\* Seeded fault: the limit of cases of a tool is not named.
MutUnsupportedReasons(tool) == ReasonsFrom(tool, Baseline(tool))

UnsupportedReasons(tool) ==
  ReasonsFrom(tool, Baseline(tool))
  \cup (IF Len(AllBoundaries(tool)) > PerTool THEN WholeTool("tool_cap") ELSE {})

(***************************************************************************)
(* Scenarios.  An oracle is named by the case or pack it belongs to.       *)
(***************************************************************************)
Turn(role, text, says, confirm) ==
  [role |-> role, text |-> text, says |-> says, confirm |-> confirm]
Oracle(of, name) == [of |-> of, name |-> name]
Fixture(fid, tool, args, index, status) ==
  [fid |-> fid, tool |-> tool, args |-> args, index |-> index, status |-> status,
   effects |-> <<>>]
Behavior(cid, tool, args, oracle) ==
  [cid |-> cid, tool |-> tool, args |-> args, most |-> None, confirm |-> FALSE,
   oracles |-> {oracle}]
Rule(cid, kind, params, oracle) ==
  [cid |-> cid, kind |-> kind, params |-> params, oracles |-> {oracle}]
Criterion(id, name) == [of |-> id, name |-> <<name>>, n |-> 1]
Own(id) == Oracle(id, <<"oracle">>)
About(tool) == [x \in {"tool_name"} |-> tool]

Blank(id, tags) ==
  [id |-> id, title |-> id, turns |-> <<Turn("user", <<"request">>, {}, FALSE)>>, followups |-> <<>>,
   world |-> NoArguments, fixtures |-> <<>>, faults |-> <<>>, required |-> <<>>, allowed |-> <<>>,
   forbidden |-> <<>>, trajectory |-> <<>>, output |-> <<>>, post |-> <<>>,
   budget |-> [turns |-> 4, calls |-> 4, clock |-> None], tags |-> tags,
   oracles |-> {Own(id)}]

Id(family, tool, suffix) == <<family>> \o tool.slug \o suffix

\* Which values a case must not see: an omitted property cannot be matched, so
\* then no call at all is allowed.
BoundaryScenario(b) ==
  LET id == Id("boundary", b.tool, b.param.slug \o <<b.kind>>)
      match == IF b.kind = "missing_required_property" THEN NoArguments
               ELSE [x \in {b.param.name} |-> b.value]
  IN  [Blank(id, {b.tool.name, b.kind, "schema_boundary"}) EXCEPT
        !.fixtures = <<Fixture(Criterion(id, "fixture"), b.tool.name, NoArguments, None, "success")>>,
        !.forbidden = <<Behavior(Criterion(id, "forbidden"), b.tool.name, match,
                                 Own(id))>>]

(***************************************************************************)
(* Action cases: the tool may be called with a complete set of arguments.  *)
(* `opts' is what the developer supplies: representative inputs by tool,   *)
(* the tools with a request of their own, and the tools that come first.   *)
(***************************************************************************)
Supplied(tool, opts) ==
  IF tool.name \in DOMAIN opts.inputs THEN opts.inputs[tool.name] ELSE NoArguments
ActionArguments(baseline, supplied) ==
  [x \in DOMAIN baseline |-> IF x \in DOMAIN supplied THEN supplied[x] ELSE baseline[x]]

PrerequisiteFixtures(tool, opts) ==
  LET others == SelectSeq(opts.prerequisites, LAMBDA t : t.name # tool.name)
  IN  [i \in DOMAIN others |->
         Fixture(Criterion(<<"prerequisite">> \o others[i].slug, "fixture"),
                 others[i].name, NoArguments, None, "success")]

\* Room for exactly the calls and stages the case permits.
ActionBudget(tool, opts, followups) ==
  LET extra == Len(PrerequisiteFixtures(tool, opts))
  IN  [turns |-> 4 + extra + followups, calls |-> 4 + extra, clock |-> None]

\* A request of the developer's own words does not bind the sample arguments.
ArgumentOracle(tool, opts, id) ==
  Oracle(id, IF tool.name \in opts.requests THEN <<"argument-sample">> ELSE <<"oracle">>)

ActionScenario(tool, opts, suffix, source) ==
  LET id == Id("action", tool, suffix)
      bound == ArgumentOracle(tool, opts, id)
  IN  [Blank(id, {tool.name, source, "path:action"}) EXCEPT
        !.fixtures = PrerequisiteFixtures(tool, opts),
        !.allowed = <<Behavior(Criterion(id, "allowed"), tool.name,
                               ActionArguments(Baseline(tool), Supplied(tool, opts)), bound)>>,
        !.budget = ActionBudget(tool, opts, 0),
        !.oracles = @ \cup {bound}]

\* Seeded fault: the rule does not say which tool it is about.
MutOnceOnly(id, tool) ==
  Rule(Criterion(id, "no_duplicate"), "no_duplicate_side_effect", NoArguments, Own(id))

OnceOnly(id, tool) ==
  Rule(Criterion(id, "no_duplicate"), "no_duplicate_side_effect", About(tool.name),
       Own(id))
FocalFixture(id, tool, index, status) ==
  Fixture([of |-> id, name |-> <<"fixture">>, n |-> Or0(index)], tool.name, NoArguments, index, status)

\* Each shape of case is made of the action case it extends, its `base'.
PositiveScenario(tool, base) ==
  [base EXCEPT !.fixtures = <<FocalFixture(base.id, tool, None, "success")>> \o @,
               !.trajectory = <<OnceOnly(base.id, tool)>>]

DegradedFaults == <<"tool_failure", "empty", "malformed", "partial", "stale">>

\* The tool fails, or returns nothing usable: the answer must not report a
\* result the call never produced.
FaultScenario(tool, fault, base) ==
  [base EXCEPT
    !.fixtures = <<FocalFixture(base.id, tool, None, fault)>> \o @,
    !.output = <<[cid |-> Criterion(base.id, "fabrication"), kind |-> "no_fabricated_success",
                  terms |-> None, oracles |-> {Own(base.id)}]>>]

\* The first call times out and may have acted; the second is answered, so
\* that a retry can be seen.
AmbiguousScenario(tool, base) ==
  [base EXCEPT
    !.fixtures = <<FocalFixture(base.id, tool, 1, "ambiguous_timeout"),
                   FocalFixture(base.id, tool, 2, "success")>> \o @,
    !.trajectory = <<Rule(Criterion(base.id, "no_retry"), "no_retry_after_ambiguous_timeout",
                          About(tool.name), Own(base.id))>>]

FaultVariants(tool, opts) ==
  LET faults == DegradedFaults \o If(tool.destructive, <<"ambiguous">>)
      Variant(fault, base) == IF fault = "ambiguous" THEN AmbiguousScenario(tool, base)
                              ELSE FaultScenario(tool, fault, base)
  IN  [i \in DOMAIN faults |->
         Variant(faults[i], ActionScenario(tool, opts, <<faults[i]>>, "behavioral_outcome"))]

\* The focal tool is answered as often as the budget allows any call.
ConfirmedFixtures(id, tool, budget) ==
  [i \in 1..budget.calls |-> FocalFixture(id, tool, i, "success")]

\* The user confirms once the agent has answered.
ConfirmedScenario(tool, budget, base) ==
  [base EXCEPT
    !.followups = <<Turn("user", <<"confirm">>, {}, TRUE)>>,
    !.tags = @ \cup {"explicit_confirmation"},
    !.budget = budget,
    !.fixtures = ConfirmedFixtures(base.id, tool, budget) \o @,
    !.trajectory = <<OnceOnly(base.id, tool)>>]

(***************************************************************************)
(* The families, each with where its cases come from.                      *)
(***************************************************************************)
From(origin, tool, kind) == [origin |-> origin, tool |-> tool, kind |-> kind, parent |-> None]
Candidate(case, lineage) == [case |-> case, lineage |-> lineage]
ByName(spec) == SortSeq(spec.tools, LAMBDA s, t : s.rank < t.rank)
ForEach(seq, Of(_)) == [i \in DOMAIN seq |-> Of(seq[i])]
Callable(tools) == SelectSeq(tools, LAMBDA t : Baseline(t) # None)

BoundaryCandidate(b) ==
  Candidate(BoundaryScenario(b), From("schema_boundary", b.tool.name, b.kind))
BoundaryCases(spec) ==
  ForEach(First(FlattenSeq(ForEach(spec.tools, Boundaries)), PerSpec), BoundaryCandidate)

PositiveCases(spec, opts) ==
  LET Case(t) == PositiveScenario(t, ActionScenario(t, opts, <<>>, "positive_path"))
      Positive(t) == Candidate(Case(t), From("positive_path", t.name, None))
  IN  ForEach(First(Callable(ByName(spec)), PositivePerSpec), Positive)

OutcomeCases(spec, opts) ==
  LET Variants(t) == FaultVariants(t, opts)
      Outcome(case) == Candidate(case, From("behavioral_outcome", None, None))
      risky == SelectSeq(Callable(ByName(spec)), LAMBDA t : t.writes)
  IN  ForEach(First(FlattenSeq(ForEach(risky, Variants)), FaultsPerSpec), Outcome)

ConfirmationCases(spec, opts, guarded) ==
  LET Case(t) == ConfirmedScenario(t, ActionBudget(t, opts, 1),
                                   ActionScenario(t, opts, <<"confirmed">>, "confirmed_action"))
      Confirming(t) == Candidate(Case(t), From("confirmed_action", None, None))
  IN  ForEach(First(SelectSeq(Callable(spec.tools), LAMBDA t : t.name \in guarded), PerSpec),
           Confirming)

OutputCases(spec) ==
  LET id == <<"output", "schema", "conformance">>
      case == [Blank(id, {"output_schema"}) EXCEPT
                !.output = <<[cid |-> Criterion(id, "schema"), kind |-> "json_schema",
                              terms |-> {}, oracles |-> {Own(id)}]>>]
  IN  If(spec.output, <<Candidate(case, From("output_schema", None, None))>>)

ZeroInputScenario(tool) ==
  LET id == <<"zero", "input">> \o tool.slug
  IN  [Blank(id, {tool.name, "zero_input_invocation"}) EXCEPT
        !.fixtures = <<Fixture(Criterion(id, "fixture"), tool.name, NoArguments, None, "success")>>,
        !.required = <<Behavior(Criterion(id, "required"), tool.name, NoArguments,
                                Own(id))>>]

ZeroInputCases(spec) ==
  LET tools == SelectSeq(spec.tools, LAMBDA t : t.params = <<>> /\ Valid(t, NoArguments))
  IN  [i \in DOMAIN tools |->
         Candidate(ZeroInputScenario(tools[i]),
                   From("zero_input_invocation", tools[i].name, None))]
=============================================================================

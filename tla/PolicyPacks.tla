------------------------------ MODULE PolicyPacks ------------------------------
(***************************************************************************)
(* Policy packs (policies/): which packs a run names, what a pack may say, *)
(* the pack derived from the risk of the tools, and how the rules of the   *)
(* packs are attached to a case.                                           *)
(*                                                                         *)
(* A pack is an id and a sequence of rules; a rule has an id, a kind, a    *)
(* tool (None for a rule about the run or the answer), parameters, and the *)
(* success terms a rule about fabrication may declare (None: it declares   *)
(* none).  Whether a pack was declared changes the weight of its oracle    *)
(* only, and every caller declares it.                                     *)
(***************************************************************************)
EXTENDS ScenarioLint

CONSTANTS DerivedPack,      \* derived_tool_risk_v1
          MaxDerivedRules,  \* _MAX_DERIVED_RULES
          Refused           \* a configuration error

RuleOf(id, kind, tool, params) ==
  [rid |-> id, kind |-> kind, tool |-> tool, params |-> params, terms |-> None]
Pack(id, rules) == [pid |-> id, rules |-> rules]

(***************************************************************************)
(* What a pack may say (pack.py).                                          *)
(***************************************************************************)
RunScoped ==
  {"max_tool_calls", "max_model_turns", "required_handoff", "forbidden_handoff",
   "max_handoffs", "no_handoff_loop"}
ToolFree == RunScoped \cup {"no_fabricated_success"}
RequiredParameters(kind) ==
  CASE kind = "ordering"                            -> {"required_before"}
    [] kind = "max_retries"                         -> {"max_retries"}
    [] kind \in {"max_tool_calls", "max_model_turns", "max_handoffs"} -> {"maximum"}
    [] OTHER                                        -> {}
NonNegative == {"max_retries", "maximum", "minimum", "max_edge_repeats"}

ValidRule(rule) ==
  /\ rule.tool = None => rule.kind \in ToolFree
  /\ RequiredParameters(rule.kind) \subseteq DOMAIN rule.params
  /\ \A x \in NonNegative \cap DOMAIN rule.params : rule.params[x] >= 0
  /\ Has(rule.params, "required_before") => rule.params["required_before"] # rule.tool
ValidPack(pack) == pack.rules # <<>> /\ \A rule \in ToSet(pack.rules) : ValidRule(rule)

(***************************************************************************)
(* The pack derived from the risk of the declared tools (derived.py).      *)
(***************************************************************************)
DerivedRules(tool) ==
  LET RiskRule(kind) == RuleOf(<<kind, tool.name>>, kind, tool.name, NoArguments)
  IN  <<RiskRule("no_duplicate_side_effect")>>
      \o If(tool.destructive, <<RiskRule("no_same_stage_duplicate_action"),
                                RiskRule("no_retry_after_ambiguous_timeout"),
                                RiskRule("confirmation_before_tool")>>)

DerivedPackOf(tools) ==
  LET risky == SelectSeq(SortSeq(tools, LAMBDA s, t : s.rank < t.rank), LAMBDA t : t.writes)
      rules == First(FlattenSeq([i \in DOMAIN risky |-> DerivedRules(risky[i])]), MaxDerivedRules)
      honesty == RuleOf(<<"no_fabricated_success">>, "no_fabricated_success", None, NoArguments)
  IN  IF rules = <<>> THEN Refused
      ELSE Pack(DerivedPack, rules \o If(Len(rules) < MaxDerivedRules, <<honesty>>))

(***************************************************************************)
(* Which packs are named, first of a name, and what each is.  `known' are  *)
(* the built-in packs and the documents of the target, by name.            *)
(***************************************************************************)
Distinct(seq) ==
  LET Fresh(kept, x) == IF x \in ToSet(kept) THEN kept ELSE Append(kept, x)
  IN  FoldLeft(Fresh, <<>>, seq)

ResolveOne(name, known, tools) ==
  IF name = DerivedPack THEN DerivedPackOf(tools)
  ELSE IF name \in DOMAIN known /\ ValidPack(known[name]) THEN known[name] ELSE Refused

\* Refused as a whole when one of them is; a pack named twice counts once.
ResolvePacks(configured, extra, known, tools) ==
  LET names == Distinct(configured \o extra)
      packs == [i \in DOMAIN names |-> ResolveOne(names[i], known, tools)]
      Fresh(kept, pack) == IF \E k \in ToSet(kept) : k.pid = pack.pid THEN kept
                           ELSE Append(kept, pack)
  IN  IF Refused \in ToSet(packs) THEN Refused ELSE FoldLeft(Fresh, <<>>, packs)

(***************************************************************************)
(* Attaching rules to a case (loader.py).                                  *)
(***************************************************************************)
\* The tools a case makes a claim about; a fixture is not a claim.
ReferencedTools(case) == {b.tool : b \in Behaviors(case)} \cup RuleTools(case)

PolicyOracle(pack, rule) == Oracle(<<"policy", pack.pid>>, rule.rid)
PolicyCriterion(case, rule) ==
  UniqueIdOf(case, [of |-> case.id, name |-> <<"policy", rule.rid>>, n |-> 1])

\* Parameters in which two rules of one kind on one tool differ.
Discriminating ==
  {"required_before", "max_retries", "maximum", "minimum", "max_edge_repeats", "from_agent",
   "to_agent"}
RuleParameters(rule) ==
  IF rule.tool = None THEN rule.params ELSE With(rule.params, "tool_name", rule.tool)

\* Seeded fault: rules of one kind on one tool are the same rule.
MutSameClaim(criterion, rule) ==
  /\ criterion.kind = rule.kind
  /\ Get(criterion.params, "tool_name", None) = rule.tool

SameClaim(criterion, rule) ==
  /\ criterion.kind = rule.kind
  /\ Get(criterion.params, "tool_name", None) = rule.tool
  /\ \A x \in Discriminating :
       Get(criterion.params, x, None) = Get(RuleParameters(rule), x, None)

FirstIndex(found) ==
  IF found = {} THEN 0 ELSE CHOOSE i \in found : \A j \in found : i <= j

Applies(case, rule) ==
  IF rule.tool = None THEN rule.kind \in RunScoped ELSE rule.tool \in ReferencedTools(case)

ApplyTrajectoryRule(case, pack, rule) ==
  LET oracle == PolicyOracle(pack, rule)
      i == FirstIndex({i \in DOMAIN case.trajectory : SameClaim(case.trajectory[i], rule)})
      judged == [case EXCEPT !.oracles = @ \cup {oracle}]
  IN  IF ~Applies(case, rule) THEN case
      ELSE IF i # 0 THEN [judged EXCEPT !.trajectory[i].oracles = @ \cup {oracle}]
      ELSE [judged EXCEPT !.trajectory =
              Append(@, Rule(PolicyCriterion(case, rule), rule.kind, RuleParameters(rule), oracle))]

\* The terms of a later rule take the place of the ones that are there.
ApplyOutputRule(case, pack, rule) ==
  LET oracle == PolicyOracle(pack, rule)
      i == FirstIndex({i \in DOMAIN case.output : case.output[i].kind = rule.kind})
      judged == [case EXCEPT !.oracles = @ \cup {oracle}]
      fresh == [cid |-> PolicyCriterion(case, rule), kind |-> rule.kind, terms |-> rule.terms,
                oracles |-> {oracle}]
  IN  IF i = 0 THEN [judged EXCEPT !.output = Append(@, fresh)]
      ELSE [judged EXCEPT !.output[i].oracles = @ \cup {oracle},
                          !.output[i].terms = IF rule.terms = None THEN @ ELSE rule.terms]

ApplyPacks(case, packs) ==
  LET Apply(c, of) == IF of[2].kind = "no_fabricated_success" THEN ApplyOutputRule(c, of[1], of[2])
                      ELSE ApplyTrajectoryRule(c, of[1], of[2])
      Rules(pack) == [i \in DOMAIN pack.rules |-> <<pack, pack.rules[i]>>]
  IN  FoldLeft(Apply, case, FlattenSeq([i \in DOMAIN packs |-> Rules(packs[i])]))
=============================================================================

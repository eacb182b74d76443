---------------------------- MODULE SuiteGeneration ----------------------------
(***************************************************************************)
(* `agentcheck generate' (generate_suite of application.py and             *)
(* build_frozen_suite of generate/suite.py), several at a time for one     *)
(* target, and what a run executes of it.  The cases come from             *)
(* CaseFamilies and ScenarioMutations, the checks from ScenarioLint, the   *)
(* rules from PolicyPacks and the choice of what is kept from              *)
(* SuiteSelection.                                                         *)
(*                                                                         *)
(* A generation looks for a suite, builds one of what it finds the target  *)
(* to be, which may have been edited meanwhile, and writes it; between two *)
(* of its steps another one may write the suite.  The file is put in place *)
(* by a link or a rename, in one step.                                     *)
(***************************************************************************)
EXTENDS PolicyPacks, ScenarioMutations, SuiteSelection

CONSTANTS Generators,      \* invocations of `generate'
          Targets,         \* the specs the target is inspected as
          Commands,        \* what a generation may be asked for
          KnownPacks,      \* the packs that can be resolved, by name
          Documents,       \* suites that may be on disk at the start
          RealizedCases    \* max_calls of the realization

ASSUME GenerationAssumption ==
  /\ RealizedCases \in Nat
  /\ \A cmd \in Commands :
       DOMAIN cmd = {"force", "packs", "mutations", "max", "realize", "consent", "opts"}

VARIABLES file,  \* the frozen suite on disk, None when there is none
          gen    \* the generations

vars == <<file, gen>>

DeclaredTools(spec) == {t.name : t \in ToSet(spec.tools)}
Idle == [pc |-> "idle"]

(***************************************************************************)
(* What a generation collects.                                             *)
(***************************************************************************)
GuardedTools(packs) ==
  {r.tool : r \in {r \in UNION {ToSet(p.rules) : p \in ToSet(packs)} :
                     r.kind = "confirmation_before_tool"}}

BuiltInCase(case) == Candidate(case, From("built_in", None, None))
BuiltInCases == ForEach(BuiltInSuite, BuiltInCase)

Candidates(spec, opts, packs) ==
  LET Timed(c) == [c EXCEPT !.case = WallClock(@)]
  IN  ForEach(If(MatchesBuiltIn(DeclaredTools(spec)), BuiltInCases)
              \o BoundaryCases(spec) \o PositiveCases(spec, opts) \o OutcomeCases(spec, opts)
              \o ConfirmationCases(spec, opts, GuardedTools(packs)) \o OutputCases(spec)
              \o ZeroInputCases(spec), Timed)

\* Kept and refused so far; a refusal keeps why.
Sorted(kept, refused) == [kept |-> kept, refused |-> refused]
Keep(s, c) == [s EXCEPT !.kept = Append(@, c)]
Reject(s, c, codes) == [s EXCEPT !.refused = Append(@, [what |-> c, why |-> codes])]
Duplicate == {"duplicate_scenario_fingerprint"}
Prints(cands) == {Contents(c.case) : c \in ToSet(cands)}

AppendUnique(s, c) ==
  IF Contents(c.case) \in Prints(s.kept) THEN Reject(s, c, Duplicate) ELSE Keep(s, c)

\* Of candidates with one id the lineage is the last one's.
LineageById(cands, id) == cands[HighestOf({i \in DOMAIN cands : cands[i].case.id = id})].lineage

\* Kept, or refused for the issues found in it.
Sift(s, c, issues) == IF issues = {} THEN Keep(s, c) ELSE Reject(s, c, issues)

\* Seeded fault: a case with an issue is dropped without a word.
MutLinted(s, issues) == Sorted(At(s.kept, {i \in DOMAIN issues : issues[i] = {}}), s.refused)

\* `issues' are those of the whole suite, case by case.
Linted(s, issues) ==
  LET cands == s.kept
      Rightful(c) == [c EXCEPT !.lineage = LineageById(cands, c.case.id)]
      Sort(acc, i) == Sift(acc, Rightful(cands[i]), issues[i])
  IN  FoldLeft(Sort, Sorted(<<>>, s.refused), [i \in DOMAIN cands |-> i])

\* A mutant is compared with what was collected and checked by itself.
Mutated(s, collected, limit, tools) ==
  LET builtIn == SelectSeq(s.kept, LAMBDA c : c.lineage.origin = "built_in")
      seen(acc) == Prints(collected) \cup Prints(acc.kept)
      Sort(acc, c) == IF Contents(c.case) \in seen(acc) THEN Reject(acc, c, Duplicate)
                      ELSE Sift(acc, c, LintScenario(c.case, tools))
  IN  FoldLeft(Sort, s, BuildWorkflowMutations(Field(builtIn, "case"), limit))

\* Rules are attached to every case, and a case they change is checked again.
Attached(s, packs, tools) ==
  LET Sort(acc, c, d) ==
        IF Contents(d.case) \in Prints(acc.kept) THEN Reject(acc, d, Duplicate)
        ELSE Sift(acc, d, IF d = c THEN {} ELSE LintScenario(d.case, tools))
      Attach(acc, c) == Sort(acc, c, [c EXCEPT !.case = ApplyPacks(@, packs)])
  IN  IF packs = <<>> THEN s ELSE FoldLeft(Attach, Sorted(<<>>, s.refused), s.kept)

(***************************************************************************)
(* What is kept of it.                                                     *)
(***************************************************************************)
MandatoryKinds ==
  {"confirmation_before_tool", "no_retry_after_ambiguous_timeout", "no_duplicate_side_effect",
   "no_same_stage_duplicate_action"}
OfPolicy(oracle) == oracle.of[1] = "policy"
IsMandatory(case) ==
  \E r \in ToSet(case.trajectory) :
    r.kind \in MandatoryKinds /\ \E o \in r.oracles : OfPolicy(o)

Dimensions(c) ==
  LET tools == {f.tool : f \in ToSet(c.case.fixtures)} \cup {b.tool : b \in Behaviors(c.case)}
      Tags(kind, names) == {<<kind, n>> : n \in names \ {None}}
  IN  Tags("tag", c.case.tags)
      \cup Tags("tool", tools \cup {c.lineage.tool}) \cup Tags("kind", {c.lineage.kind})
      \cup Tags("origin", {c.lineage.origin})
      \cup Tags("policy", {o.of[2] : o \in {o \in c.case.oracles : OfPolicy(o)}})

\* Ids and fingerprints are ordered as the cases are.
UnitOf(cands, i) ==
  [id |-> i, print |-> i, dims |-> Dimensions(cands[i]), mandatory |-> IsMandatory(cands[i].case)]
Units(cands) == [i \in DOMAIN cands |-> UnitOf(cands, i)]

Document(spec, packs, cands, refused, excluded, selected) ==
  [spec |-> spec, packs |-> packs, cases |-> cands, rejected |-> refused,
   excluded |-> excluded, selected |-> selected]

\* What the contracts of a frozen suite and of a case refuse to construct.
DocumentOk(doc) ==
  LET cases == Field(doc.cases, "case")
  IN  /\ cases # <<>>
      /\ \A c \in ToSet(cases) : WellFormed(c)
      /\ ~Repeats(Field(cases, "id"))
      /\ ~Repeats([i \in DOMAIN cases |-> Contents(cases[i])])
      /\ doc.selected # None => ToSet(Field(cases, "id")) = doc.selected

\* A case the model words anew keeps all but its title; one whose answer
\* cannot be used keeps that too.
Reworded(c) == [c EXCEPT !.case.title = <<"realized">>]
Realized(cases, done) ==
  [i \in DOMAIN cases |-> IF i \in done THEN Reworded(cases[i]) ELSE cases[i]]

\* Checks, mutants of what passed them, and the rules of the packs, in turn.
LintedUnique(s, tools) == Linted(s, LintSuite(Field(s.kept, "case"), tools))
Mutants(s, all, limit, tools) == IF limit = 0 THEN s ELSE Mutated(s, all, limit, tools)
Prepared(spec, cmd, packs, all) ==
  LET tools == DeclaredTools(spec)
      unique == FoldLeft(AppendUnique, Sorted(<<>>, <<>>), all)
  IN  Attached(Mutants(LintedUnique(unique, tools), all, cmd.mutations, tools), packs, tools)

\* No case left, or more mandatory ones than may be kept: nothing is frozen.
Unfreezable(cases, max) == cases = <<>> \/ (max # NoCap /\ Refuses(Units(cases), max))

SelectedOf(spec, packs, sorted, plan) ==
  LET cases == sorted.kept
      kept == [i \in DOMAIN plan.selected |-> cases[plan.selected[i].id]]
  IN  Document(spec, packs, kept, sorted.refused, {cases[u.id] : u \in plan.excluded},
               {c.case.id : c \in ToSet(kept)})
Frozen(spec, packs, sorted, max) ==
  IF max = NoCap THEN Document(spec, packs, sorted.kept, sorted.refused, {}, None)
  ELSE SelectedOf(spec, packs, sorted, Select(Units(sorted.kept), max))

(***************************************************************************)
(* One generation.                                                         *)
(***************************************************************************)
Init ==
  /\ file \in {None} \cup Documents
  /\ gen = [g \in Generators |-> Idle]

Step(g, state) == gen' = [gen EXCEPT ![g] = state @@ gen[g]]
End(g, how) == gen' = [gen EXCEPT ![g] = [pc |-> how]]

\* Without --force an existing suite ends the command before the target is
\* looked at.
Begin(g, cmd) ==
  /\ gen[g] = Idle
  /\ IF file # None /\ ~cmd.force THEN End(g, "refused")
     ELSE gen' = [gen EXCEPT ![g] = [pc |-> "begun", cmd |-> cmd]]
  /\ UNCHANGED file

\* The titles a model words are nondeterministic, and what it has no calls for
\* stays as it is.
Finish(g, all, doc) ==
  IF DocumentOk(doc) THEN Step(g, [pc |-> "frozen", all |-> all, doc |-> doc])
  ELSE End(g, "invalid")
Freeze(g, all, doc) ==
  \E done \in SUBSET (DOMAIN doc.cases \cap 1..RealizedCases) :
    /\ ~gen[g].cmd.realize => done = {}
    /\ Finish(g, all, [doc EXCEPT !.cases = Realized(@, done)])

(* The target is inspected, its packs resolved, a realization consented to,  *)
(* and the suite built.                                                      *)
FreezeSorted(g, spec, packs, all, sorted) ==
  LET max == gen[g].cmd.max
  IN  IF Unfreezable(sorted.kept, max) THEN End(g, "refused")
      ELSE Freeze(g, all, Frozen(spec, packs, sorted, max))
BuildFrom(g, spec, packs, all) ==
  FreezeSorted(g, spec, packs, all, Prepared(spec, gen[g].cmd, packs, all))
BuildWith(g, spec, packs) ==
  LET cmd == gen[g].cmd
  IN  IF packs = Refused \/ (cmd.realize /\ ~cmd.consent) THEN End(g, "refused")
      ELSE BuildFrom(g, spec, packs, Candidates(spec, cmd.opts, packs))
Build(g, spec) ==
  /\ gen[g].pc = "begun"
  /\ BuildWith(g, spec, ResolvePacks(gen[g].cmd.packs, <<>>, KnownPacks, spec.tools))
  /\ UNCHANGED file

\* Seeded fault: the look at the start decides whether the file is new.
MutWrite(g) ==
  /\ gen[g].pc = "frozen"
  /\ \/ file' = gen[g].doc /\ End(g, "written")
     \/ End(g, "failed") /\ UNCHANGED file

\* Without --force the file is created, and one that has appeared stands.
Write(g) ==
  /\ gen[g].pc = "frozen"
  /\ \/ /\ gen[g].cmd.force \/ file = None
        /\ file' = gen[g].doc
        /\ End(g, "written")
     \/ End(g, "failed") /\ UNCHANGED file

Generate(g) ==
  \/ \E cmd \in Commands : Begin(g, cmd)
  \/ \E spec \in Targets : Build(g, spec)
  \/ Write(g)

Next == \E g \in Generators : Generate(g)

Spec == Init /\ [][Next]_vars

\* What a run of a target executes of a suite that was frozen for it.
Executable(doc) ==
  LET issues == LintSuite(Field(doc.cases, "case"), DeclaredTools(doc.spec))
  IN  At(doc.cases, {i \in DOMAIN issues : issues[i] = {}})

(***************************************************************************)
(* Properties.                                                             *)
(***************************************************************************)
Done(g) == gen[g].pc = "frozen"
\* What packs and wording leave alone tells two cases of one id apart.
Origin(c) == <<c.case.id, c.case.fixtures, c.lineage>>
\* A case rejected for its id has the lineage of the last case of that id.
RejectedIds(refused) == {r.what.case.id : r \in ToSet(refused)}

(* Every case that was derived is in the frozen suite, or among the         *)
(* rejected ones with a reason, or left out by the selection plan, though   *)
(* the steps from one list to the next may each lose a case; a frozen case  *)
(* has the lineage it was derived with, though lineages are looked up by    *)
(* scenario id, which two candidates may share; and a frozen suite can be   *)
(* read back and every case of it executed, though rules are attached after *)
(* the cases were linted (build_frozen_suite).                              *)
FrozenSuitesAreWhole ==
  /\ \A g \in Generators : gen[g].pc # "invalid"
  /\ \A g \in Generators : Done(g) =>
       LET doc == gen[g].doc
           kept == Len(doc.cases) + Cardinality(doc.excluded)
       IN  /\ {c.case.id : c \in ToSet(gen[g].all)} \subseteq
                {c.case.id : c \in ToSet(doc.cases) \cup doc.excluded} \cup RejectedIds(doc.rejected)
           /\ gen[g].cmd.mutations = 0 => kept + Len(doc.rejected) = Len(gen[g].all)
           /\ \A r \in ToSet(doc.rejected) : r.why # {}
           /\ \A c \in ToSet(doc.cases) : c.lineage.origin = "workflow_mutation"
                                          \/ \E d \in ToSet(gen[g].all) : Origin(d) = Origin(c)
           /\ Executable(doc) = doc.cases

(* Every constraint of every declared parameter is probed by a case, named  *)
(* as not probed, or beyond the limit of cases of a suite: the docstring of *)
(* unsupported_boundary_reasons says that silence is never implicit.        *)
ConstraintsAreAccounted ==
  \A g \in Generators : Done(g) =>
    LET spec == gen[g].doc.spec
        probed == {c \in ToSet(gen[g].all) : c.lineage.origin = "schema_boundary"}
        Named(t, p) == \E r \in UnsupportedReasons(t) : r.param \in {None, p.name}
        Probed(t, p, probe) ==
          \E c \in probed : c.lineage.tool = t.name /\ c.lineage.kind = probe.kind
                            /\ c.case.id = Id("boundary", t, p.slug \o <<probe.kind>>)
    IN  Cardinality(probed) >= PerSpec
        \/ \A t \in ToSet(spec.tools) : \A p \in ToSet(t.params) :
             Named(t, p) \/ \A probe \in ToSet(Pending(p)) : Probed(t, p, probe)

(* A rule about a tool is in every frozen case that is about that tool, as  *)
(* the pack states it, on the authority of the pack: a rule that reads as   *)
(* enforced and is not is the failure policies/loader.py guards against.    *)
RulesAreEnforced ==
  \A g \in Generators : Done(g) =>
    \A c \in ToSet(gen[g].doc.cases), pack \in ToSet(gen[g].doc.packs) : \A rule \in ToSet(pack.rules) :
      rule.kind # "no_fabricated_success" /\ (rule.tool = None \/ rule.tool \in ReferencedTools(c.case))
        => \E r \in ToSet(c.case.trajectory) :
             /\ r.kind = rule.kind
             /\ Get(r.params, "tool_name", None) = rule.tool
             /\ \A x \in DOMAIN rule.params : Get(r.params, x, None) = rule.params[x]
             /\ PolicyOracle(pack, rule) \in r.oracles

(* Without --force no generation replaces a suite, not even one that was    *)
(* written after it had looked.                                             *)
UnforcedNeverReplaces ==
  [][file' # file /\ file # None => \E g \in Generators :
       gen[g].pc = "frozen" /\ gen'[g].pc = "written" /\ gen[g].cmd.force]_vars

=============================================================================

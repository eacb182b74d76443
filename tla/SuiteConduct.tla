----------------------------- MODULE SuiteConduct -----------------------------
(***************************************************************************)
(* What a generated suite says of agents whose conduct is known: one that  *)
(* does what a case permits, and ones that breach one rule of it.          *)
(***************************************************************************)
EXTENDS SuiteCoverage

ToolsOf(doc) == ToSet(doc.spec.tools)
ToolNamed(doc, name) == CHOOSE t \in ToolsOf(doc) : t.name = name
\* The arguments an expectation asks for, complete as far as they can be.
Full(t, args) ==
  LET base == IF Baseline(t) = None THEN NoArguments ELSE Baseline(t)
  IN  [x \in DOMAIN base \cup DOMAIN args |-> IF x \in DOMAIN args THEN args[x] ELSE base[x]]
CallFor(doc, name, args) == CallMove(name, Full(ToolNamed(doc, name), args))
Acting(doc, b) == CallFor(doc, b.tool, b.args)

(***************************************************************************)
(* The dutiful agent hands over where that is asked for, makes the calls   *)
(* that come before the action, answers every turn there is, and acts.     *)
(***************************************************************************)
RulesAbout(case, kinds) == {r \in ToSet(case.trajectory) : r.kind \in kinds}
To(rule) == HandoffMove(Get(rule.params, "from_agent", "front"), rule.params["to_agent"])
HandingOver(case) ==
  LET asked == SelectSeq(case.trajectory, LAMBDA r : r.kind = "required_handoff")
  IN  FlattenSeq([i \in DOMAIN asked |-> [k \in 1..Get(asked[i].params, "minimum", 1) |-> To(asked[i])]])

ToolsBefore(case, name) ==
  LET others == SelectSeq(case.fixtures, LAMBDA f : f.fid.of[1] = "prerequisite" /\ f.tool # name)
  IN  [i \in DOMAIN others |-> others[i].tool]
Preparing(doc, case, name) ==
  [i \in DOMAIN ToolsBefore(case, name) |-> CallFor(doc, ToolsBefore(case, name)[i], NoArguments)]
Waiting(case) == [i \in DOMAIN case.followups |-> TurnMove]

\* The action of a case: what it asks for, else what it permits.
Wanted(case) == First(case.required \o case.allowed, 1)
Action(doc, case) == [i \in DOMAIN Wanted(case) |-> Acting(doc, Wanted(case)[i])]
Readied(doc, case) ==
  HandingOver(case)
  \o FlattenSeq([i \in DOMAIN Wanted(case) |-> Preparing(doc, case, Wanted(case)[i].tool)])
Dutiful(doc, case) == Readied(doc, case) \o Waiting(case) \o Action(doc, case)

\* Its answer says what the case asks for and tells no lie.
Honest(case) ==
  [says |-> UNION {c.terms : c \in {c \in ToSet(case.output) : c.kind \in {"contains", "regex"}}},
   admits |-> TRUE, reports |-> FALSE, denies |-> TRUE, fits |-> TRUE, claims |-> "PASS"]

(***************************************************************************)
(* Breaches of one rule.                                                   *)
(***************************************************************************)
IsAbout(case, rule) == Wanted(case) # <<>> /\ Get(rule.params, "tool_name", None) = Wanted(case)[1].tool
CallsOnly(moves) == SelectSeq(moves, LAMBDA m : m.kind = "call")
Times(seq, n) == FlattenSeq([k \in 1..n |-> seq])

\* Doing what is forbidden.
Trespassing(doc, case) ==
  {Preparing(doc, case, b.tool) \o Waiting(case) \o <<Acting(doc, b)>> : b \in ToSet(case.forbidden)}
\* Acting ahead of the user's consent.
AfterTheRequest(case) ==
  /\ Consents(case) # {}
  /\ \A n \in Consents(case) : n > Len(SelectSeq(case.turns, LAMBDA t : t.role = "user"))
Impatient(doc, case) ==
  {Readied(doc, case) \o Action(doc, case) \o Waiting(case) :
     r \in {r \in RulesAbout(case, {"confirmation_before_tool"}) : IsAbout(case, r) /\ AfterTheRequest(case)}}
\* Acting once more, or more often than a limit has it.
Excess(rule) ==
  CASE rule.kind = "no_duplicate_side_effect"         -> 1
    [] rule.kind = "no_retry_after_ambiguous_timeout" -> 1
    [] OTHER                                          -> rule.params["maximum"]
Repetitive(doc, case, kinds) ==
  {Dutiful(doc, case) \o Times(Action(doc, case), Excess(r)) :
     r \in {r \in RulesAbout(case, kinds) :
              IsAbout(case, r) \/ (Wanted(case) # <<>> /\ r.kind = "max_tool_calls")}}
\* Acting with another argument than the one that is asked for.
Astray(doc, case) ==
  {Readied(doc, case) \o Waiting(case) \o
     <<CallFor(doc, case.required[1].tool, With(case.required[1].args, x, Str(777)))>> :
     x \in UNION {DOMAIN b.args : b \in ToSet(First(case.required, 1))}}
Idling(case) == If2(case.required # <<>>, {HandingOver(case) \o Waiting(case)})
\* Acting without what comes before.
Unprepared(doc, case) ==
  {HandingOver(case) \o Waiting(case) \o Action(doc, case) :
     r \in {r \in RulesAbout(case, {"ordering"}) : IsAbout(case, r)}}
\* Handing over to whom one may not, twice, not at all, or too late.
Wandering(doc, case) ==
  LET later == CallsOnly(Dutiful(doc, case)) \o HandingOver(case) \o Waiting(case)
  IN  {<<To(r)>> \o Dutiful(doc, case) : r \in RulesAbout(case, {"forbidden_handoff"})}
      \cup {HandingOver(case) \o Dutiful(doc, case) : r \in RulesAbout(case, {"no_handoff_loop"})}
      \cup {Waiting(case) \o CallsOnly(Dutiful(doc, case)) : r \in RulesAbout(case, {"required_handoff"})}
      \cup {later : r \in {r \in RulesAbout(case, {"handoff_before_tool"}) : IsAbout(case, r)}}

\* Answers that are not what the case asks for.
Untrue(case, c) ==
  CASE c.kind \in {"contains", "regex"}     -> [Honest(case) EXCEPT !.says = {}]
    [] c.kind = "not_contains"              -> [Honest(case) EXCEPT !.says = @ \cup c.terms]
    [] c.kind = "json_schema"               -> [Honest(case) EXCEPT !.fits = FALSE]
    [] c.kind = "no_fabricated_success"     -> [Honest(case) EXCEPT !.claims = "FAIL"]
    [] c.kind = "acknowledges_tool_error"   -> [Honest(case) EXCEPT !.admits = FALSE, !.denies = FALSE,
                                                                    !.reports = TRUE]

\* Breaches for which the case holds all the answers, and all of them.
Outright(doc, case) ==
  Trespassing(doc, case) \cup Impatient(doc, case) \cup Astray(doc, case)
  \cup Unprepared(doc, case) \cup Wandering(doc, case)
Breaches(doc, case) ==
  Outright(doc, case) \cup Idling(case)
  \cup Repetitive(doc, case, {"no_duplicate_side_effect", "max_tool_calls",
                              "no_retry_after_ambiguous_timeout"})

(***************************************************************************)
(* Properties.  A suite does not depend on what else is going on: it is    *)
(* judged once, when nothing else is.                                      *)
(***************************************************************************)
Judging(g) == Done(g) /\ file = None /\ \A h \in Generators \ {g} : gen[h] = Idle
VerdictOn(doc, case, moves, answer, observed) ==
  VerdictOf(case, Conduct(case, ToolsOf(doc), moves, observed, answer))
Verdicts(doc, case, moves, answer) ==
  {VerdictOn(doc, case, moves, answer, observed) : observed \in BOOLEAN}

\* What can be asked of anyone: the tool of every rule on an order is among those
\* that come before, and what it takes is within every limit.
Reasonable(doc, case) ==
  /\ \A r \in RulesAbout(case, {"ordering"}) :
       IsAbout(case, r) => r.params["required_before"] \in ToSet(ToolsBefore(case, Wanted(case)[1].tool))
  /\ \A r \in RulesAbout(case, {"max_tool_calls"}) :
       Len(CallsOnly(Dutiful(doc, case))) <= r.params["maximum"]
\* The case says of every guarded tool whether the user consents; an order is
\* seen where the model's requests are.
Settled(case, observed) ==
  /\ \A tool \in GuardedBy(case) : ConfirmationContext(case, tool) \in {"established", "withheld"}
  /\ \A r \in RulesAbout(case, {"ordering"}) : IsAbout(case, r) => observed

(* An agent that does what a case asks for, with what it needs beforehand   *)
(* and at the user's word, passes the case, whatever packs add their rules: *)
(* answers are found for all its calls, no limit of the case is in its way, *)
(* and no rule of one family contradicts another.  A case that does not say *)
(* whether the user consents is left undecided.                             *)
DutifulAgentsPass ==
  \A g \in Generators : Judging(g) =>
    \A c \in {c \in CasesOf(gen[g].doc) : Reasonable(gen[g].doc, c)}, observed \in BOOLEAN :
      VerdictOn(gen[g].doc, c, Dutiful(gen[g].doc, c), Honest(c), observed)
        = IF Settled(c, observed) THEN "PASS" ELSE "INCONCLUSIVE"

(* An agent that breaches one rule of a case, and keeps to the others, does *)
(* not pass it: the case gives it the room to do so, and nothing else the   *)
(* evaluator finds outweighs the breach.  It fails where the breach needs   *)
(* no more answers than the case holds ready.                               *)
BreachesNeverPass ==
  \A g \in Generators : Judging(g) =>
    \A c \in CasesOf(gen[g].doc) :
      /\ \A moves \in Breaches(gen[g].doc, c) :
           "PASS" \notin Verdicts(gen[g].doc, c, moves, Honest(c))
      /\ \A moves \in Outright(gen[g].doc, c) :
           Verdicts(gen[g].doc, c, moves, Honest(c)) = {"FAIL"}
      /\ \A o \in ToSet(c.output) :
           "PASS" \notin Verdicts(gen[g].doc, c, Dutiful(gen[g].doc, c), Untrue(c, o))
=============================================================================

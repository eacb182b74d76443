----------------------------- MODULE ToolGateway -----------------------------
(***************************************************************************)
(* The rules by which the simulated tool gateway of one scenario answers a *)
(* tool call (agentcheck/runner/tool_gateway.py, runner/budgets.py).       *)
(*                                                                         *)
(* A call is answered in two halves.  PLANNING charges the budgets, gives  *)
(* the call its invocation index, assigns a fixture and fixes the status;  *)
(* COMMITTING applies the fixture's effects to the simulated world and     *)
(* records the outcome.  This module has no variables: it says what each   *)
(* half does to a planning state and to a world.  SerialGateway and        *)
(* ConcurrentDispatch say when the halves happen.                          *)
(***************************************************************************)
EXTENDS Integers, Sequences, FiniteSets

CONSTANTS
  ToolNames,      \* every tool name a model may utter
  Declared,       \* the allowlist, a subset of ToolNames
  Calls,          \* call signatures: a tool name with canonical arguments
  ToolOf,         \* the tool a signature names
  SchemaValid,    \* the signatures whose arguments satisfy the tool's schema
  Fixtures,       \* the scenario's fixtures, records of FixtureType
  Paths, Values,  \* the simulated world: paths and JSON values
  Absent,         \* the value of a path that does not exist
  AnyValue,       \* an effect that states no "before" precondition
  NoEffect,       \* a fixture that leaves a path alone
  NoFixture,      \* the fixture of a refused call
  Unlimited,      \* a budget that is not declared (None in the code)
  MaxToolCalls, MaxRetries, MaxWallTime

FixtureStatuses ==
  {"success", "empty", "error", "timeout", "malformed", "partial", "stale"}

EffectType == [before : Values \cup {AnyValue}, after : Values]

FixtureType ==
  [id : STRING, tool : Declared, matches : SUBSET Calls, index : Nat,
   exact : BOOLEAN, specificity : Nat, repeat : BOOLEAN, priority : Int,
   status : FixtureStatuses, latency : Nat,
   effects : [Paths -> EffectType \cup {NoEffect}]]

LimitType == Nat \cup {Unlimited}

ASSUME GatewayAssumption ==
  /\ Declared \subseteq ToolNames
  /\ ToolOf \in [Calls -> ToolNames]
  /\ SchemaValid \subseteq Calls
  /\ \A f \in Fixtures : f \in FixtureType
  /\ NoFixture \notin Fixtures
  /\ Absent \notin Values /\ AnyValue \notin Values
  /\ MaxToolCalls \in LimitType
  /\ MaxRetries \in LimitType
  /\ MaxWallTime \in LimitType
  /\ Unlimited \notin Nat

-----------------------------------------------------------------------------
(* Planning.                                                               *)

CallStatuses == FixtureStatuses \cup {"blocked", "unseen"}

PlanType ==
  [calls : Nat, retries : Nat, simulated : Nat, index : [ToolNames -> Nat],
   used : SUBSET Fixtures, status : [Calls -> CallStatuses]]

InitialPlan ==
  [calls |-> 0, retries |-> 0, simulated |-> 0,
   index |-> [n \in ToolNames |-> 0], used |-> {},
   status |-> [c \in Calls |-> "unseen"]]

Exceeds(observed, limit) == limit # Unlimited /\ observed > limit

OutOfTime(p, now) == Exceeds(now + p.simulated, MaxWallTime)

OutOfCalls(p) == Exceeds(p.calls + 1, MaxToolCalls)

IsRetry(p, c) == p.status[c] \in {"error", "timeout"}

OutOfRetries(p, c) == IsRetry(p, c) /\ Exceeds(p.retries + 1, MaxRetries)

SingleUse == {f \in Fixtures : ~f.repeat}

(* The fixtures that may still answer the next invocation of c's tool.     *)
Candidates(p, c) ==
  {f \in Fixtures : /\ f.tool = ToolOf[c]
                    /\ f \notin p.used
                    /\ f.index \in {0, p.index[ToolOf[c]] + 1}
                    /\ c \in f.matches}

(* Scores compare lexicographically.                                       *)
Outranks(f, g) ==
  LET Bit(b) == IF b THEN 1 ELSE 0
      score(h) == <<h.priority, Bit(h.index # 0), Bit(h.exact), h.specificity>>
  IN  \E k \in 1..4 : /\ score(f)[k] > score(g)[k]
                      /\ \A j \in 1..(k - 1) : score(f)[j] = score(g)[j]

Best(p, c) ==
  {f \in Candidates(p, c) : \A g \in Candidates(p, c) : ~Outranks(g, f)}

Chosen(p, c) == CHOOSE f \in Best(p, c) : TRUE

OverBudgetCodes == {"wall_time_budget_exceeded", "tool_calls_budget_exceeded"}

(* The first check a call fails, or "granted".  The order is the code's.   *)
Verdict(p, c, now) ==
  IF OutOfTime(p, now) THEN "wall_time_budget_exceeded"
  ELSE IF OutOfCalls(p) THEN "tool_calls_budget_exceeded"
  ELSE IF OutOfRetries(p, c) THEN "retry_budget_exceeded"
  ELSE IF ToolOf[c] \notin Declared THEN "unknown_tool"
  ELSE IF c \notin SchemaValid THEN "invalid_arguments"
  ELSE IF Candidates(p, c) = {} THEN "fixture_not_found"
  ELSE IF Exceeds(now + p.simulated + Chosen(p, c).latency, MaxWallTime)
       THEN "latency_over_budget"
  ELSE "granted"

Verdicts ==
  OverBudgetCodes \cup
  {"retry_budget_exceeded", "unknown_tool", "invalid_arguments",
   "fixture_not_found", "latency_over_budget", "granted"}

(* A fixture is taken before its latency is charged.                       *)
TakesFixture(p, c, now) ==
  Verdict(p, c, now) \in {"latency_over_budget", "granted"}

(* No single best fixture: the gateway raises FixtureDefinitionError.      *)
Ambiguous(p, c, now) ==
  TakesFixture(p, c, now) /\ ~\E f \in Fixtures : Best(p, c) = {f}

(* The budgets and indices a call is charged before anything else.         *)
Charged(p, c, now) ==
  LET v == Verdict(p, c, now) IN
  IF v \in OverBudgetCodes THEN p
  ELSE [p EXCEPT
          !.calls = @ + 1,
          !.index[ToolOf[c]] = @ + 1,
          !.retries = IF IsRetry(p, c) /\ v # "retry_budget_exceeded"
                      THEN @ + 1 ELSE @]

(* Seeded fault: a single-use fixture is not marked as used.               *)
MutPlannedForgets(p, c, now) ==
  LET granted == Verdict(p, c, now) = "granted"
  IN  [Charged(p, c, now) EXCEPT
         !.simulated = IF granted THEN @ + Chosen(p, c).latency ELSE @,
         !.status[c] = IF granted THEN Chosen(p, c).status ELSE "blocked"]

(* Seeded fault: the latency is added before the limit is enforced.        *)
MutPlannedCharges(p, c, now) ==
  LET q == Charged(p, c, now)
      f == Chosen(p, c)
      granted == Verdict(p, c, now) = "granted"
      taken == TakesFixture(p, c, now)
  IN  [q EXCEPT
         !.used = IF taken /\ ~f.repeat THEN @ \cup {f} ELSE @,
         !.simulated = IF taken THEN @ + f.latency ELSE @,
         !.status[c] = IF granted THEN f.status ELSE "blocked"]

(* The planning state _plan_one leaves behind.                             *)
Planned(p, c, now) ==
  LET q == Charged(p, c, now)
      f == Chosen(p, c)
      granted == Verdict(p, c, now) = "granted"
  IN  [q EXCEPT
         !.used = IF TakesFixture(p, c, now) /\ ~f.repeat THEN @ \cup {f} ELSE @,
         !.simulated = IF granted THEN @ + f.latency ELSE @,
         !.status[c] = IF granted THEN f.status ELSE "blocked"]

(* A reservation is either refused or planned (blocked xor planned).       *)
ReservationType ==
  {r \in [call : Calls, verdict : Verdicts,
          fixture : Fixtures \cup {NoFixture}, index : Nat] :
     r.verdict = "granted" <=> r.fixture # NoFixture}

Reserve(p, c, now) ==
  LET granted == Verdict(p, c, now) = "granted" IN
  [call |-> c, verdict |-> Verdict(p, c, now),
   fixture |-> IF granted THEN Chosen(p, c) ELSE NoFixture,
   index |-> IF granted THEN p.index[ToolOf[c]] + 1 ELSE 0]

(* An attempt an adapter refuses, with code, before it reaches the gateway: *)
(* only the tool-call budget is charged.                                   *)
AdapterVerdict(p, code, now) ==
  IF OutOfTime(p, now) THEN "wall_time_budget_exceeded"
  ELSE IF OutOfCalls(p) THEN "tool_calls_budget_exceeded"
  ELSE code

AdapterCharged(p, now) ==
  IF OutOfTime(p, now) \/ OutOfCalls(p) THEN p ELSE [p EXCEPT !.calls = @ + 1]

-----------------------------------------------------------------------------
(* Committing.                                                             *)

WorldType == [Paths -> Values \cup {Absent}]

Touched(f) == {x \in Paths : f.effects[x] # NoEffect}

(* A stated precondition needs an existing, equal value.                   *)
EffectsApply(f, w) ==
  \A x \in Touched(f) : f.effects[x].before \in {AnyValue, w[x]}

Commits(r, w) == r.verdict = "granted" /\ EffectsApply(r.fixture, w)

(* Seeded fault: effects applied before one that raises are kept.          *)
MutWorldPartial(r, w) ==
  [x \in Paths |-> IF /\ r.verdict = "granted" /\ x \in Touched(r.fixture)
                      /\ r.fixture.effects[x].before \in {AnyValue, w[x]}
                   THEN r.fixture.effects[x].after
                   ELSE w[x]]

(* Effects are all applied or, when one raises, all rolled back.           *)
WorldAfter(r, w) ==
  [x \in Paths |-> IF Commits(r, w) /\ x \in Touched(r.fixture)
                   THEN r.fixture.effects[x].after
                   ELSE w[x]]

OutcomeType ==
  [call : Calls, verdict : Verdicts, fixture : Fixtures \cup {NoFixture},
   status : FixtureStatuses \cup {"blocked", "raised"}]

(* "raised": the attempt is recorded and the effect error propagates.      *)
Outcome(r, w) ==
  [call |-> r.call, verdict |-> r.verdict, fixture |-> r.fixture,
   status |-> IF r.verdict # "granted" THEN "blocked"
              ELSE IF EffectsApply(r.fixture, w) THEN r.fixture.status
              ELSE "raised"]

(* Malformed arguments are reported as such while the budget lasts.        *)
AdapterOutcome(p, c, code, now) ==
  LET v == AdapterVerdict(p, code, now) IN
  [call |-> c, verdict |-> v, fixture |-> NoFixture,
   status |-> IF v = "invalid_arguments" THEN "malformed" ELSE "blocked"]
=============================================================================

---------------------------- MODULE SerialGateway ----------------------------
(***************************************************************************)
(* A gateway whose calls are invoked one after the other: every invoke is  *)
(* one planning followed at once by its commit.  It is the path a custom   *)
(* agent's ToolRuntime takes, and it is what plan_batch promises a batch   *)
(* of calls dispatched concurrently will look like.                        *)
(***************************************************************************)
EXTENDS ToolGateway, FiniteSetsExt

CONSTANTS
  InitialWorld,   \* the scenario's initial world state
  MaxClock,       \* bound: real seconds that may elapse
  MaxLog          \* bound: calls made

ASSUME SerialAssumption ==
  /\ InitialWorld \in WorldType
  /\ MaxClock \in Nat
  /\ MaxLog \in Nat

VARIABLES
  plan,     \* budgets, indices, used fixtures, signature statuses
  world,    \* the simulated world
  log,      \* outcomes in the order they were committed
  clock     \* real time elapsed when the last call was planned

vars == <<plan, world, log, clock>>

TypeOK ==
  /\ plan \in PlanType
  /\ world \in WorldType
  /\ log \in Seq(OutcomeType)
  /\ clock \in Nat

Init ==
  /\ plan = InitialPlan
  /\ world = InitialWorld
  /\ log = <<>>
  /\ clock = 0

(* invoke(c) when the clock reads now.                                     *)
Invoke(c, now) ==
  LET r == Reserve(plan, c, now) IN
  /\ Len(log) < MaxLog
  /\ now >= clock
  /\ ~Ambiguous(plan, c, now)
  /\ clock' = now
  /\ plan' = Planned(plan, c, now)
  /\ world' = WorldAfter(r, world)
  /\ log' = Append(log, Outcome(r, world))

(* Ambiguous fixtures: invoke raises out of the planning half.             *)
InvokeRaises(c, now) ==
  /\ Len(log) < MaxLog
  /\ now >= clock
  /\ Ambiguous(plan, c, now)
  /\ clock' = now
  /\ plan' = Charged(plan, c, now)
  /\ UNCHANGED <<world, log>>

Next ==
  \E c \in Calls, now \in 0..MaxClock : Invoke(c, now) \/ InvokeRaises(c, now)

Spec == Init /\ [][Next]_vars

-----------------------------------------------------------------------------
(* A single-use fixture answers at most one call of a scenario, however    *)
(* many signatures, indices and fixtures compete (_select_fixture).        *)
SingleUseFixtures ==
  \A i, j \in 1..Len(log) :
    i # j /\ log[i].fixture \in SingleUse => log[j].fixture # log[i].fixture

(* A call that was refused has no effect on the world, and neither does    *)
(* one whose effects fail half way: the world only moves with an outcome   *)
(* that reports its fixture's status (commit, _apply_effects).             *)
WorldMovesOnlyWithEvidence ==
  [][world' # world =>
       /\ Len(log') = Len(log) + 1
       /\ log'[Len(log')].status \in FixtureStatuses
       /\ \A x \in Paths : world'[x] # world[x] =>
            world'[x] = log'[Len(log')].fixture.effects[x].after]_vars

(* The simulated time charged to the run is exactly the latency of the     *)
(* calls that were granted: a fixture too slow for the time left is        *)
(* refused without being charged (add_simulated_time enforces, then adds). *)
SimulatedTimeIsEvidenced ==
  plan.simulated =
    MapThenSumSet(LAMBDA i : log[i].fixture.latency,
                  {i \in 1..Len(log) : log[i].verdict = "granted"})

(* A single-use fixture is never spent without evidence: but for those     *)
(* whose latency was over budget, every used fixture answered a call       *)
(* (_select_fixture marks it before the latency is charged).               *)
UsedFixturesAreEvidenced ==
  LET answering == {log[i].fixture : i \in 1..Len(log)}
      slow == {i \in 1..Len(log) : log[i].verdict = "latency_over_budget"}
  IN  Cardinality(plan.used \ answering) <= Cardinality(slow)

(* What a call spends, it spends with an outcome that shows it: simulated  *)
(* time exactly, and fixtures but for those that were too slow.            *)
SpendingIsEvidenced == SimulatedTimeIsEvidenced /\ UsedFixturesAreEvidenced

Occurrences(c) == {i \in 1..Len(log) : log[i].call = c}

(* The retry budget as its test states it: calls of one signature that     *)
(* reach a fixture although the last fixture that answered the signature   *)
(* failed are retries, and there are at most MaxRetries of them.           *)
Retried ==
  {i \in 1..Len(log) :
     /\ log[i].verdict = "granted"
     /\ \E k \in Occurrences(log[i].call) :
          /\ k < i
          /\ log[k].status \in {"error", "timeout"}
          /\ \A m \in Occurrences(log[i].call) :
               k < m /\ m < i => log[m].verdict # "granted"}

RetryBudgetExact == ~Exceeds(Cardinality(Retried), MaxRetries)
=============================================================================

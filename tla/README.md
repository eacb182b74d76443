# AgentCheck: a verification project in TLA+

AgentCheck tests tool-using agents. It derives scenarios from the tools of a
target, freezes them into a suite, runs each one in an isolated worker process,
answers the agent's tool calls from the scenario's fixtures over a simulated
world, evaluates what happened, writes replayable artifacts, and lets a release
pass or not. The models here are translated from `agentcheck/` (paths below are
relative to it); tests and documents were read with the code.

## 1. The system

### How the parts interact

```
cli -> application (generate / test / replay / shrink / report)
         | source snapshot, inspection, lint, reservation of runs/<run_id>
         | thread pool, at most max_concurrency
         v
       runner/orchestrator  --- request.json, response.json --->  runner/worker (child process)
         wait, timeout, kill, decide                               network guard, import, run
                                                                        |
                                                   adapters/{openai_agents, pydantic_ai, custom}
                                                                        | plan_batch / commit / invoke
                                                             runner/{launch_barrier, tool_gateway,
                                                                     budgets, world}
         ^
         | CanonicalRun (events)
       evaluate (rules, confirmation, claims) -> replay manifest -> artifacts -> report
         -> store (SQLite, reviews) -> baseline / compare / gate
       generate: tools -> families of cases -> lint -> mutations -> policies -> selection -> frozen suite
       coverage: suite -> requirements, grades, obligations -> gate
       shrink: search over candidate scenarios, each a worker run; manifest; verification replay
```

Interactions are function calls except: the two files between the parent and a
worker; the asyncio tasks of one model response, which share the gateway, the
table of reservations and a barrier; the threads of the pool, which share only
the target's source on disk; commands that run at once and share `runs/` and
the suite files; and processes that open the same store.

### Components

| component | state | hard because | correct when | modelled in |
|---|---|---|---|---|
| Tool gateway, budgets (`runner/tool_gateway.py`, `runner/budgets.py`) | invocation index, used fixtures, last status per signature, counters | planning and committing are separated; refusals at six points leave different traces | a single-use fixture answers once; what is charged is evidenced; the world moves only with an outcome | `ToolGateway`, `SerialGateway` |
| Dispatch of a response (`adapters/openai_agents.py`, `adapters/pydantic_ai.py`, `runner/launch_barrier.py`) | reservation table by call id, barrier events, a task per call | tasks interleave freely; ids are the model's | concurrent dispatch is equivalent to serial invocation and completes | `ConcurrentDispatch` |
| Adapters' runs (`adapters/*.py`, `run`) | stage, turn, budgets, events, termination | three frameworks see different moments of a run; several exits | the record is whole and supports the evaluator's rules | `AdapterRun`; the custom adapter's calls: `SerialGateway` |
| Simulated world (`runner/world.py`) | JSON document | a later effect fails after an earlier one applied | all effects of a fixture or none | flat paths and `set` in `ToolGateway` |
| Worker process, network guard (`runner/orchestrator.py`, `runner/worker.py`) | request and response files, child and its group | arbitrary target code, crashes, timeouts, edits | the value is the worker's; nothing is left running; failures blame the right phase | `WorkerProcess` |
| Suite execution, artifacts, replay (`application.py`, `artifacts.py`, `replay/`) | results by index, run directories, manifests | completion order, edits during a run, crashes between files, several commands | a published run is whole, of one source and final | `SuiteExecution` |
| Shrinker (`shrink/`) | scenario in hand, budgets | executions do not repeat; budgets end it anywhere | published reductions reproduce the failure and are minimal when they say so | `ShrinkSearch` |
| Evaluation and review store (`store/`, `review/`) | SQLite tables, JSON files | several processes, migrations, crashes, unlocked reads | an index of whole runs that never change; an indexed review can be read | `EvaluationStore`, `RunIndex` |
| Evaluation engine (`evaluate/engine.py`, `evaluate/confirmation.py`) | none | order of events, unobserved decisions, precedence of verdicts | an agent that keeps to a case passes, one that breaches it does not | `RunEvaluation`, `CaseVerdict`, `CaseConduct`, `SuiteConduct` |
| Claim assessment (`evaluate/claim*.py`) | claims and their states | claims are taken back and overtaken, evidence comes before, between and after | every verdict is earned by the record | `ClaimEvidence`, `ClaimLifecycle`, `ClaimAssessment` |
| Gate, baseline, regression (`gate.py`, `baseline/`, `regression/`) | baseline file, last run | suite and baseline change between and during runs | a release passes only on evidence | `ReleaseGate` |
| Selection (`generate/selection.py`) | none | cap, ties, mandatory cases | covers what the pool can | `SuiteSelection` |
| Generation, lint, mutations (`generate/`) | suite file | names that collide, caps, rules attached after lint, two generations at once | a frozen suite is complete, coherent and runnable | `CaseFamilies`, `ScenarioLint`, `ScenarioMutations`, `SuiteGeneration` |
| Policies (`policies/`) | none | packs that conflict | a rule is enforced as stated | `PolicyPacks` |
| Behavioral coverage (`coverage/`) | none | it simulates a gateway it does not call | what it calls covered can be observed; obligations can be met | `BehavioralCoverage`, `SuiteCoverage` |
| Inspection and capabilities, fixture packs, reports, CLI and configuration | files or none | - | - | not modelled (section 6) |

The hazards, each at its line with the properties that are about it, are listed
in `PROJECT.json`.

## 2. Modules

| module | models | kind |
|---|---|---|
| `ToolGateway` | the rules of planning and committing, and the budgets they consume, as operators on a planning state and a world | operators |
| `SerialGateway` | calls invoked one after the other: the custom adapter's path, and the abstract specification of a batch | specification |
| `ConcurrentDispatch` | responses, planning hook, tool tasks, reservation table, barrier | specification; implements `SerialGateway` |
| `WorkerProcess` | one call of `_execute_worker` with the child it starts | specification |
| `ShrinkSearch` | the reduction search and `shrink_suite` after it | specification |
| `SuiteExecution` | test, replay, shrink and report, at once, on a target that is edited | specification |
| `RunIndex` | a write-once index of runs | abstract specification |
| `EvaluationStore` | SQLite store and review files, used by several processes | specification; implements `RunIndex` |
| `RunEvaluation` | the evaluator's rules about order and sources of events, budgets, refused calls, verdicts | operators |
| `AdapterRun` | `run()` of the three adapters, judged by `RunEvaluation` | specification |
| `SuiteSelection` | the greedy set cover of `select_units` | operators |
| `ReleaseGate` | runs, baselines, comparisons and the gate; extends `SuiteSelection` and `RunEvaluation` | specification |
| `CaseFamilies` | the families of cases derived from declared tools | operators |
| `ScenarioLint` | what a case must satisfy | operators |
| `PolicyPacks` | packs, the derived pack, attachment of rules | operators |
| `ScenarioMutations` | the built-in account suite and its mutations | operators |
| `SuiteGeneration` | the generate command, several at a time; composes the four above with `SuiteSelection` | specification |
| `BehavioralCoverage` | requirements, grades and obligations of a suite | operators |
| `CaseVerdict` | every assertion of the evaluator about a run of a case, and the verdict; extends `RunEvaluation` | operators |
| `CaseConduct` | an agent's moves through gateway and record to a verdict; instantiates `ToolGateway` | operators |
| `SuiteCoverage` | coverage set beside what a run would do | properties |
| `SuiteConduct` | agents that keep to a case and agents that breach it | properties |
| `ClaimEvidence` | what the record shows about a claim | operators |
| `ClaimLifecycle` | what later statements do to earlier ones | operators |
| `ClaimAssessment` | an agent that calls and speaks, and the verdict on what it said | specification |
| `MCScenario`, `MC*` | constants for TLC | instances |
| `SerialGateway_proofs`, `ConcurrentDispatch_proofs`, `WorkerProcess_proofs`, `ShrinkSearch_proofs`, `SuiteExecution_proofs`, `EvaluationStore_proofs`, `AdapterRun_proofs` | theorems of the specification each is named for | proofs |
| `ReleaseGate_proofs` | theorems of the gate and of the selection it extends | proofs |

Operators named `Mut...`, and a few named for the mistake they make, are seeded
faults: each is a definition of the model as a plausible mistake in the code
would have it. No specification uses them; substituted for the definition that
follows them they show that a property can fail.

### Correspondence with the code

**ToolGateway.** A *planning state* is the record of what `ToolGateway` and
`BudgetTracker` remember: `calls`, `retries`, `simulated` (budget counters),
`index` (`_invocations`), `used` (consumed fixtures) and `status` (last status
by call signature). `Verdict` is the chain of checks of `_plan_one`, in its
order: wall clock, tool calls, retries, unknown tool, schema, fixture, latency.
`Charged` is what is charged before a fixture is looked for, `Planned` the
whole step, `Reserve` the `CallReservation`. `Chosen` is `_select_fixture`:
candidates for the tool, unused, matching index and arguments, compared by
priority, stated index, exactness and specificity; two best ones are
`Ambiguous`, for which the code raises `FixtureDefinitionError` after the call
was charged. `WorldAfter` and `Outcome` are `commit`: effects all applied, or
all rolled back, in which case the attempt is recorded and the error goes on to
the adapter. Arguments are reduced to a *signature* (tool and canonical
arguments); a fixture states which signatures it matches.

**SerialGateway.** `Invoke(c, now)` is `invoke`; `InvokeRaises` the ambiguous
case. Time is an input, never smaller than before.

**ConcurrentDispatch.** `Respond` starts a response; `PlanCall`,
`LeaveUnplanned`, `PlanRaises` and `FinishPlanning` are
`_reserve_tool_calls` with `plan_batch`; `UsageEndsRun` is `add_tokens` or
`add_cost` raising after it, in `on_llm_end`. Per call: `Start` (the attempt
event), then `AnswerMalformed`, or `Claim` (the `pop` from the table) and
`Commit` (`run_in_order`), or `InvokeDirectly`/`DirectRaises` when no
reservation has its id. `RejectUnknown` and `EndRejecting` are the
`ModelBehaviorError` path of undeclared names. Each action is a stretch of code
without an `await`, which the event loop does not interrupt. PydanticAI is the
instance whose responses hold plannable calls only. Real time passes in `Tick`,
between any two steps, planning steps included.

**WorkerProcess.** The child's `child` variable is where `execute_request` is;
a write of the response opens a temporary file, which holds nothing whole until
`Fill`, and renames it (`Rename`). The child may leave at every point of this
and of anything else (`AbruptExit`), hang, raise, or start processes that stay
in its group or leave it, with or without the worker's pipes open (`Held`).
Exit handlers of the target may set the exit status. The parent's steps are
start, wait or timeout, kill, `Clean` and `FinishCapture` (the `finally` of
`_execute_worker`), read and decide, with `Interrupted` for any exception out of
the wait, the kill or the capture; from the wait and the kill it goes through
the same `finally` (`unwinding`). `FinishCapture` joins the threads that drain
the pipes and closes them; the close waits for a thread that still reads, and
`Blocked` says when that is. `EditSource` changes the target until it is
imported. `source` and `loaded` stand for spec ids, which the parent compares
with the one it expects.

**ShrinkSearch.** A scenario is the set of original items kept per dimension.
`Deleting(i)` fixes the item the deletion loop tries next; a candidate is
skipped (invalid, not smaller, lint, secret-shaped: `Unrunnable`), refused or
accepted. Whether it is accepted is not a function of the candidate: models and
workers are not repeatable. `WriteManifest`, `NotWritten` and `Replay` are the
rest of `shrink_suite`.

**SuiteExecution.** An execution is one command; `Command` are the ones given.
The steps of each follow `execute_suite`, `replay_suite`, `shrink_suite` and
the report loader: `Capture`, `Inspect` and the `Verify...` actions compare the
source with the one the command began with, `Prepare...` lints and selects,
`Reserve` creates the run directory, `StartWorker`, `WorkerReturns` and
`Collect` are the pool with at most `MaxConcurrency` workers, collected as they
complete, `InSuiteOrder` the list put back in order, `EmitManifest`,
`WriteArtifact` and `Record` what follows, one file in a step. `Unreserved` is
the cleanup of a refused or failed execution. `Edit` changes the target at any
moment, `Crash` ends a command at any step and leaves its files.

**EvaluationStore.** A process is at a statement of an operation. Each
operation opens and migrates first; `BeginImmediate` takes SQLite's one write
lock, `Commit` installs the transaction's copy, `Busy` is the expired lock,
`Crash` forgets the copy. `Select`, `FetchRow` and `FetchPrints` are the
statements of `list_runs`, outside a transaction. A review is a file first
(created, then filled) and an entry after it.

**AdapterRun.** `Start`, `BeginStage`, `Request`, `Respond`, `Answer`,
`Handoff`, `Undeclared`, `StageReturns`, `Deliver` and the ways to end are the
code between two calls of the framework; an action says which of the three
adapters it is of. `events` is the evidence, `Log` adds to it; `InOrder` lists a
set of calls as the searches at the end of `run()` meet them. The calls of a
response are answered in any order; how they are planned is
`ConcurrentDispatch`. `ToolNames` are the names by which PydanticAI tells a
declared call from an undeclared one (`prepared.tool_names`). `Tick` is the
moment the wall-clock budget is used up; `expired` remembers which event is the
first after it. The run learns of it where it next asks the tracker: for a model
turn, for a call, with a usage. A call that was planned before is answered
(`TooLate`). `latency` is what the evaluator compares with the same limit when
the run has ended. An OpenAI target
may have several agents, and one may call a tool that only another declares
(`adapters/openai_agents.py:1672-1673`), so there the kind of a call does not
follow from its name.

**RunEvaluation, CaseVerdict.** One operator per assertion of the engine, over
a sequence of events; `Verdict` is the classification, in the order of the
code: infrastructure, incomplete evidence, hard failures, inconclusive, pass.

**CaseConduct.** `Conduct` folds an agent's moves over the planning state and
world of `ToolGateway`, with the fixtures the worker hands over (injected
faults first), and gives the record that `CaseVerdict` judges.

**SuiteGeneration and its parts.** A case is a record of what generation
decides: expectations, fixtures, rules, budgets, turns, tags, lineage. Strings
are told apart by numbers, ids are sequences of words, so that two names can
share one. `Look`, `Build` and `Write` of a generation are separate steps;
between them another may write the suite.

**BehavioralCoverage.** The twelve dimensions with their grades
(`covered`, `partial`, ...), the controlled answers the analyzer simulates, and
the obligations of declared risk that the gate blocks on.

**ReleaseGate.** `CheckRefuses` is what `check_baseline` does not compare at all;
`SpecChanged` is the caveat a comparison gives of the same runs instead. A run
holds a set of cases, since ids in a suite are unique
(`generate/suite.py:289`); its snapshot has the verdict and the failure signature of
each; `Items` compares two snapshots by fingerprint, then id; `Visible` are the
items that fewer than `MaxItems` others precede, the head of the sorted list;
`CreateBaseline`, `GateExecutes` and `GateDecides` are separate steps, so that
the baseline and the suite may change in between.

**Claims.** A record is a sequence of calls, results and statements.
`ClaimLifecycle` gives the state of every claim after each statement (active,
retracted, corrected, ambiguous, ...), `ClaimEvidence` the candidates and proofs
for a claim as of a position, `ClaimAssessment` the verdict. History variables
hold what a call really showed and what the agent meant; only properties read
them.

## 3. What is checked

Every run finishes within two minutes or so with two workers.

| run | question | properties |
|---|---|---|
| `serial_gateway` | every sequence of five calls over competing, indexed, reusable and slow fixtures | `SpendingIsEvidenced`, `WorldMovesOnlyWithEvidence` |
| `concurrent_dispatch` | responses with distinct ids, repeated ids, malformed and undeclared calls, every interleaving of their tasks | `CommitsInDecisionOrder`, `SingleUseFixtures`, `AnswersMatchCalls`, `SerialEquivalence` (refinement), `DispatchCompletes` (liveness) |
| `worker_process` | one call of each operation, two versions of the source | `ValueIsOfExpectedTarget`, `NothingSurvives`, `FailureNamesItsPhase`, `CallReturns` (liveness) |
| `shrink_search` | every outcome of every execution of the search | `LocallyMinimal`, `PublishedIsReproduced`, `SearchEnds` (liveness) |
| `suite_execution` | two commands at once on a target that is edited, with a crash | `PublishedRunIsWhole`, `OnlyRevertedEditsUnseen`, `OnlyCompleteRunsAreKept`, `ReportsAreOfOneRun`, `PublishedRunsStay` (action property) |
| `evaluation_store` | two processes on a new, unmigrated, old and newer store | `ListsAreWhole`, `IndexedReviewsAreReadable`, `ImplementsRunIndex` (refinement) |
| `adapter_run` | runs of the three adapters with every kind of response and exit | `CompletedRunsAreWhole`, `DecisionVerdictsAreTrue`, `RetriesAreFound`, `BudgetVerdictsAgree` |
| `release_gate` | runs, baselines, comparisons and gates over suites that change | `PassesAreEarned`, `ComparisonsAgree`, `SelectionIsSufficient` |
| `suite_generation` | generate commands over three targets, and what runs of the suites would show | `FrozenSuitesAreWhole`, `ConstraintsAreAccounted`, `DutifulAgentsPass`, `RulesAreEnforced`, `BreachesNeverPass`, `CoverageIsObservable`, `ObligationsAreMet`, `UnforcedNeverReplaces` (action property) |
| `claim_assessment` | conversations of calls, assertions, withdrawals and confirmations | `VerdictsAreEarned`, `WithdrawalsHitTheirTarget`, `HindsightIsBlind` (action property) |
| `retry_budget` | a finding, below | `RetryBudgetExact` |
| `budget_order` | a finding, below | `BudgetRefusalsInOrder` |

What they show, beyond the properties' own comments:

* Concurrent dispatch of responses with distinct ids *is* a serial gateway seen
  through its commits: same outcomes, same world, same budgets, and planning at
  the time the response arrived.
* With repeated ids every safety property still holds (no sibling's answer, no
  double use), but a rank whose reservation was overwritten is never claimed,
  later ranks wait for ever, and only the worker's timeout ends the scenario.
  `DispatchCompletes` and `SerialEquivalence` are therefore stated for distinct
  ids, the latter also for responses of plannable calls only.
* The exclusive use of a concurrency slot is no deadlock: with two slots for up
  to three calls, tasks start in response order, so the lowest unreleased rank
  always has a slot.
* A complete response of a worker that was killed, or that ended with a
  non-zero status, is not used.
* A call of a worker returns unless a process that left the worker's group keeps
  its pipes open for ever. A run that no process leaves behind, or whose
  processes end, costs its timeout and no more.
* The evaluator and the tracker agree on turns, calls, tokens and cost. They
  need not agree on time: a run that asks for nothing after its time completes, and
  the evaluator fails it. What it asks for after its time is refused.
* A comparison of two runs answers what the check against a baseline of the
  first would, except when the specification has changed: the check then refuses,
  and the comparison answers with a caveat.
* The source is compared before and after the workers, not while they run. What
  this lets through is exactly an edit that is reverted between two checks.
* A crash leaves run directories with some of their artifacts. They are never
  taken for a whole run, and a published run is never changed by another command.
  A shrink that is given the id of an existing run is outside the run: it
  replaces that run's manifest (`application.py:701`).
* The store's list is read statement by statement without a transaction, and
  still has every run recorded when it was asked for: rows are never removed.
* A retry decided after a timeout was seen is always found, by whatever adapter;
  verdicts about decisions need the adapter to observe them.
* A generated case asks for nothing a run cannot give: agents that keep to it
  pass, whatever rules packs add, and an agent that breaches one rule does not.
  Where a case leaves open whether the user consents, or a rule is about an
  order the adapter does not observe, the verdict stays inconclusive, and
  `DutifulAgentsPass` says so.
* The obligations of declared risk can be met by generating anew, except for
  the tools `ObligationsAreMet` names. Those whose declared risk is destructive
  only give rise to obligations no family generates for
  (`coverage/analyzer.py:520-552`), so their release stays blocked until a case
  is written by hand; tools whose names share a slug leave one of them with no
  case of its own.
* The verdict on claims is earned in both directions, also after withdrawals,
  and a later call never changes what an earlier statement was worth. "I sent
  it", without saying how, is ambiguous by design once there is another write.

### Bounds

* Gateway (`MCScenario`): a state-changing tool with two fixtures that compete
  by specificity and depend on each other through the world, two that tie on
  the third invocation (so that planning raises), a read-only tool with a
  reusable failing fixture and a slow one of higher priority, an undeclared
  tool, a call that fails its schema. Every verdict, every status class and
  both kinds of commit occur; budgets of 4 calls, 1 retry and 2 seconds each
  bind before the bound of 5 calls does.
* `ConcurrentDispatch`: `MaxClock` is the number of real seconds that may pass;
  `AllBatches` are the contents of responses. Three calls are the least with
  which ids can collide around a third, and two responses the least for a
  left-over reservation to be found. Two slots make the third task of a response
  wait for one, with both slots held by tasks that wait themselves.
* `ShrinkSearch`: two dimensions with an interaction (fixtures cannot all go
  before a criterion does) make a second sweep find new reductions; budgets of
  14 executions and 7 rounds are such that some runs exhaust one and others not.
* `WorkerProcess` has no counters. The wait may expire at any moment.
* `SuiteExecution`: two executions, both active, two edits (an edit and its
  reversal) and one crash. Two versions of the source look the same to an
  inspection and one does not; one case fails lint in one of them and one cannot
  be serialized. Four run ids leave one for a shrink's verification.
* `EvaluationStore`: four operations and two faults between two processes; two
  records of one run that differ, and two runs recorded out of time order.
* `AdapterRun`: three turns, two tool calls, one scripted follow-up, token and
  cost limits of 2 and 1 units, a usage of one of each or none known; responses
  with calls of each kind, with a repeat, with two handoffs, and with an
  undeclared call of a tool that is declared elsewhere. The wall clock is 1 and
  latencies 1 and 2, within it and over it; the moment it runs out is any. Every
  termination occurs.
* `ReleaseGate`: two runs; six suites in which a case is renamed, changed,
  duplicated, capped out or of another target; six observations, one for each
  verdict and the failures that are not comparable. One visible item makes the
  cap of a comparison bind.
* `SuiteGeneration`: three targets (risky and plain tools, tools that share a
  slug, the account target with the built-in suite), packs that conflict, four
  suites written by hand, two generators, interchangeable. The limits of the
  code are scaled (3 boundaries per parameter, 5 per tool, 10 in a suite, 3
  action paths, 13 faults) so that each of them cuts something off and none
  cuts off everything.
* `ClaimAssessment`: two messages; four conversations: up to three calls before
  one claim, and three sentences around two calls, or about one call with many
  ways to withdraw or confirm.

### Fairness

* `ConcurrentDispatch`: weak fairness of the adapter's own steps and of the
  tasks together: the event loop runs a ready task and the code between two
  awaits terminates. Nothing is assumed of the model or of time.
* `WorkerProcess`: weak fairness of the parent's next step where it is not
  `Blocked` on a pipe that is held. `WaitExpires` is one of its steps: the clock
  of `process.wait(timeout=...)` runs. Nothing is assumed of the child, nor of
  what it leaves behind; that the pipes are let go is a condition of
  `CallReturns`, not of the specification.
* `ShrinkSearch`: weak fairness of the next step: one thread, every execution
  bounded by its worker's timeout, but for a process that holds its output
  (section 6).
* The other specifications state safety only. Their commands may die at any
  point or are asked for by people. Where a behaviour is over when all the
  commands or operations are, deadlock is not checked (`CHECK_DEADLOCK FALSE`).

### Findings

1. `retry_budget`. A call refused for the retry budget stores `BLOCKED` as the
   last status of its signature (`runner/tool_gateway.py:776`), so the next
   identical call is not a retry and reaches the fixture. With no retry
   allowed, the same failing call is answered a second time. The repository's
   test states an exact retry budget but stops at the first refusal.
2. `budget_order`. `docs/concurrent-tool-decisions.md` says budget consumption
   follows the order of the response's calls. Malformed calls are not in the
   batch and consume their unit when their task runs: with one unit left, a
   malformed first call is refused for the budget and a later valid one
   granted.

## 4. What is proved

Every theorem follows from an inductive invariant of its specification, named
in its section. TLC has checked each on the instance above too (`RunInv` with two
model turns instead of three); where a type has a set that TLC cannot enumerate,
its elements were checked one by one. The
properties alone are seldom inductive: they speak of answers and
results, not of how far the steps before them have come.

The provers have no induction over data. Where an argument needs one (sums over
sets, iterated functions, ordered lists), it is by smallest counterexample: of
the sets or numbers for which a concrete statement fails a least one exists
(`SmallestSet`, `LeastNumber`, from the well-foundedness of the numbers), and
the step from the one below refutes it.

### Serial gateway

`SerialGateway_proofs` proves, for every scenario, any fixtures, budgets and
calls, under `GatewayAssumption` and `SerialAssumption`:

| theorem | statement |
|---|---|
| `SerialTypeCorrect` | `Spec => []TypeOK` |
| `SingleUseCorrect` | `Spec => []SingleUseFixtures` |
| `SpendingCorrect` | `Spec => []SpendingIsEvidenced` |
| `WorldCorrect` | `Spec => WorldMovesOnlyWithEvidence` |

The invariant is `SpendingInv`. Its part `AnswersAreUsed` says that the fixture
of every granted call is one of the scenario's and, when it may be used once
only, is used; planning never chooses a used one, hence `SingleUseFixtures`.
`TimeShown` and `FixturesShown` are the two halves of `SpendingIsEvidenced`. The
sum of latencies is `MapThenSumSet` of the community modules, which is defined by
a recursion over subsets; `SumsExist` shows that it is well defined for a finite
set, `SumWithout` that any element may be taken out of it, and `LatencyGrows`
that an outcome adds its own latency and no other.

### Dispatch

`ConcurrentDispatch_proofs` proves, for every set of tools, fixtures, calls,
ids and responses, every budget and every concurrency:

| theorem | statement |
|---|---|
| `TypeCorrect` | `Spec => []TypeOK` |
| `OrderCorrect` | `Spec => []CommitsInDecisionOrder` |
| `AnswersCorrect` | `Spec => []AnswersMatchCalls` |
| `FixturesCorrect` | `Spec => []SingleUseFixtures` |
| `OutcomesCorrect` | `Spec => []OneOutcomePerAnswer` |
| `DrainCorrect` | `Spec => []ReservationsDrained` |
| `SerialCorrect` | `Spec => SerialEquivalence` |

The assumptions are `GatewayAssumption` and `DispatchAssumption`: fixtures are
typed records, the special values are not ordinary ones, and responses are
finite sequences of calls. They say nothing of the ids of a response.

The invariants are conjuncts of one inductive invariant, `IndInv`, which
holds for colliding and mixed responses alike. Why each part is there:

* `PlanInv`: reservations correspond to the plannable calls seen so far, in
  order, and every id in the batch has a last reservation, the one the table
  keeps.
* `PhaseInv`: nothing is claimed, committed or answered before dispatch; a
  response is dispatched only when wholly planned.
* `ClaimInv`: a rank is in the table, held by one waiting task, or committed.
  With repeated ids "one rank, one task" fails for the ranks the table dropped,
  so it is stated for the last rank of an id (`LastOfId`), the only kind that
  can be claimed.
* `OwnerInv`: a reservation in the table has a task that has not claimed yet.
* `BarrierInv`: the open events are exactly those of the committed ranks and of
  the next. With `ClaimInv` this gives `CommitsInDecisionOrder`: a task that
  passes the barrier holds the next rank.
* `HolderInv`: an uncommitted last rank is in the table or held. Once every
  task is done nothing is in the table or held, so every rank is committed:
  `ReservationsDrained`.
* `AnswerInv`: a task that is not done has no answer, which makes the count in
  `OneOutcomePerAnswer` go up by one with each outcome.
* `UsedInv`: a single-use fixture in an outcome or an outstanding reservation
  is in the planning state's used set, so planning cannot choose it again:
  `SingleUseFixtures`.

`SerialCorrect` is the refinement: seen through its commits, the dispatch of
plannable calls under distinct ids implements `SerialGateway`. It needs a second
invariant, `SerialInv`:

* `ChainInv`: each reservation was planned in the planning state the previous
  one left, at a time not before it. The state the serial gateway shows is the
  link of the last commit.
* `CurrentInv`: in such a response nothing else moves the planning state, so a
  new reservation extends the chain.
* `ClaimableInv`: no task finds the table without its reservation, so none
  plans for itself.
* `SizeInv`: the calls fit the bound on the serial gateway's log.

With `CommitsInDecisionOrder` a commit of rank `n` is the next link, hence an
`Invoke` of the serial gateway; every other step stutters.

Both gateway modules begin with the same lemmas about the gateway's operators:
types, and that the fixture of a new reservation was not used and is used
afterwards. They are stated twice because the two specifications have variables
of the same names, so that no module extends both.

### Worker process

`WorkerProcess_proofs` proves, for every set of source versions, operation and
expectation, every conduct of the target and every moment of the timeout, an
edit or an interrupt:

| theorem | statement |
|---|---|
| `ValueCorrect` | `Spec => []ValueIsOfExpectedTarget` |
| `ContainmentCorrect` | `Spec => []ContainedBeforeImport` |
| `CleanupCorrect` | `Spec => []NothingSurvives` |
| `BlameCorrect` | `Spec => []FailureNamesItsPhase` |

The assumption is `SourcesAssumption`: "no expectation" is not a version.

* `PlaceInv`: what the child has done before it is at a given place (request
  read and hidden, guard installed), which gives `ContainedBeforeImport`.
* `DraftInv`: what the pending response says agrees with what the child did, and
  the temporary file holds that response or nothing whole.
* `PhaseInv`: no target code before the phase that imports it.
* `ResponseInv`: the response on disk tells how far the child came. With
  `DraftInv`, a child that is killed before `Rename` leaves the response before
  it, so what is read is never half written and names a phase the child reached.
* `ParentInv`: the parent captures and reads only when the child has exited and
  its group is empty, so nothing it decides on changes afterwards:
  `ValueIsOfExpectedTarget`, `FailureNamesItsPhase`, `NothingSurvives`.

### Shrinker

`ShrinkSearch_proofs` proves, for any number of dimensions and items, any
budgets, any set of unrunnable scenarios and any outcome of every execution:

| theorem | statement |
|---|---|
| `MinimalityCorrect` | `Spec => []LocallyMinimal` |
| `ReproductionCorrect` | `Spec => []InHandReproduced` |
| `PublicationCorrect` | `Spec => []PublishedIsReproduced` |

The assumption is `ShrinkAssumption`: dimensions are distinct, items finite,
protected items are items, and the original scenario is runnable. It does not
say that a scenario fails whenever it failed before.

* `TrialInv`: the items tried are removable items of the dimension in hand.
* `HandInv`: only an accepted deletion changes the scenario in hand, which is a
  `Reduction` and never one that was refused since. A candidate differs from
  what it was made from, so a refusal is never a refusal of the scenario in hand.
* `SweepInv`: while a sweep has reduced nothing, every dimension behind it is
  `Covered`: each single deletion was refused, after the last accepted one. A
  deletion voids that for all dimensions, which is why `progress` must send the
  search round again. A sweep that ends without progress has every dimension
  behind it: `LocallyMinimal`.
* `ManifestInv`: what is replayed is what the search ended with.

### Suite execution

`SuiteExecution_proofs` proves, for any commands, sources, cases and edits, any
number of executions at once and of workers, and a crash at any step:

| theorem | statement |
|---|---|
| `SuiteTypeCorrect` | `SuiteSpec => []TypeOK` |
| `PublishedCorrect` | `SuiteSpec => []PublishedRunIsWhole` |
| `EditsCorrect` | `SuiteSpec => []OnlyRevertedEditsUnseen` |
| `RecordsCorrect` | `SuiteSpec => []OnlyCompleteRunsAreKept` |
| `ReportsCorrect` | `SuiteSpec => []ReportsAreOfOneRun` |
| `PublishedStaysCorrect` | `SuiteSpec => PublishedRunsStay` |

The assumptions are `SuiteAssumption`, `CommandAssumption` and `NoneAssumption`.
The invariant is `SuiteInv`:

* `Owns` and `Held`: the command that holds a run directory is the one that
  reserved it, and no other will ever hold it. This is what keeps two commands
  out of each other's runs, and a published run from change.
* `Written`: a command that writes has written a prefix of the artifacts, each
  what its results and its source say. The last one makes the run complete, so
  a run is complete only when all of them agree: `PublishedRunIsWhole`.
* `Conducted`: what is collected at a place of the pool is of the case at that
  place; `KeptSuite` and `KeptOrder` show that putting the results in order
  gives the suite back.
* `Counted`: a source that was seen and is not the one the command is bound to
  means an edit since; while the tree is as it was, two. With the comparison
  after the workers this is `OnlyRevertedEditsUnseen`.
* `Unrecorded`: a run is listed last, after its last artifact.
* `Reads` and `Loadable`: what a report has read is of a complete run, which
  stays complete and of one author while it is read.
* `Placed`: what a command has where it is.

### Evaluation store

`EvaluationStore_proofs` proves, for any number of processes, runs and reviews,
any operations, lock timeouts and crashes:

| theorem | statement |
|---|---|
| `StoreTypeCorrect` | `StoreSpec => []TypeOK` |
| `ReviewsCorrect` | `StoreSpec => []IndexedReviewsAreReadable` |
| `ListsCorrect` | `StoreSpec => []ListsAreWhole` |
| `IndexCorrect` | `StoreSpec => ImplementsRunIndex` |

The assumptions are `StoreAssumption` and `NoneAssumption`. The invariant is
`StoreInv`:

* `Owned` and `Isolated`: one transaction at a time, on a copy that differs from
  what is committed by what its own operation wrote so far. A commit is
  therefore at most one new row, with its fingerprints, that was not there:
  `ImplementsRunIndex`.
* `Sound`: what is committed is consistent, and finite.
* `Filed`: a review on its way to the index has its whole file.
* `Known`, `Listed` and `Fresh`: what a list holds and what it still has to
  fetch are in order and hold every run that was known when it began. The rows
  a list reads without a transaction never change under it (`RowsStay`).
  That a first `Select` finds an order at all is `FiniteSetsAreOrdered`.
* `Placed` and `Opened`: which operation is where, on a store that exists.

### Adapters' runs

`AdapterRun_proofs` proves, for any conduct of the agent and the framework, any
responses, usages and limits, and any subset of the three adapters:

| theorem | statement |
|---|---|
| `RunTypeCorrect` | `AdapterRunSpec => []TypeOK` |
| `CompletedCorrect` | `AdapterRunSpec => []CompletedRunsAreWhole` |
| `DecisionsCorrect` | `AdapterRunSpec => []DecisionVerdictsAreTrue` |
| `RetriesCorrect` | `AdapterRunSpec => []RetriesAreFound` |
| `BudgetsCorrect` | `AdapterRunSpec => []BudgetVerdictsAgree` |

The assumption is `AdapterAssumption`: the types of the constants, at least one
model turn, and that an unknown usage is no usage. The invariant is `RunInv`.
The properties compare what the evaluator reads in the record of an ended run
with what the run did; `RunInv` says of every moment what is on record already,
and where.

* `PhaseInv` and `EndInv`: what was raised, and which termination it became.
* `StageInv`: each turn delivered is on record once, and the responses from
  `stageStart` on are those of the stage.
* `PairInv`: an attempt is followed at once by its result, unless the run broke
  there. What holds of the place of an attempt holds of its result.
* `ResponseInv` and `AttemptInv`: an attempt lies after its response and before
  the next (`Within`), and between the user turns around its stage (`Staged`).
  That the evaluator may take positions of events for the order of decisions,
  as `DecisionVerdictsAreTrue` and `RetriesAreFound` have it, is this. There is
  one exception, `Placed`: PydanticAI's undeclared calls are recorded when
  their stage is over. It is harmless, because such a call has the name of no
  tool (`KindInv`) and no rule about a tool looks at it.
* `HandoffInv` and `IgnoredInv`: the first handoff of a response is recorded
  after the attempts of the response, the others when the run has ended.
* `WitnessInv`: a call that is `Due` has one event that tells of it, and no
  other call has any. At the end of a run that completed every call is due,
  except the ones the adapter refuses: `CompletedRunsAreWhole`.
* `ClockInv`: after its time a run was given nothing but answers to the calls
  `Planned` before, or it has raised; and a latency over the limit is one the
  tracker's clock has seen too, since it started before. This is the last part
  of `BudgetVerdictsAgree`: a run may complete and be failed for its time.
* `BudgetInv`: what the tracker spent is the sum over the record, up to what it
  raised. An event that raises is beyond the limit in the record too:
  `BudgetVerdictsAgree`. The sum is a recursive function on positions; that
  it does not change when the record grows (`AddsAgree`) is by smallest
  counterexample.

### Gate and selection

`ReleaseGate_proofs` proves, for any suites, observations, caps and limits:

| theorem | statement |
|---|---|
| `PassesCorrect` | `ReleaseGateSpec => []PassesAreEarned` |
| `ComparisonsCorrect` | `ReleaseGateSpec => []ComparisonsAgree` |
| `SelectionCorrect` | `ReleaseGateSpec => []SelectionIsSufficient` |

The assumptions are `SelectionAssumption` and `ReleaseGateAssumption`: a pool is
one that the loader of suites and `select_units` accept (`PoolOK`: unique ids,
finitely many dimensions), and at least one item is shown. The invariant is
`GateInv`: the runs stored are of configured suites, a run of a suite that
selects holds what was chosen of its pool (`RunsAreSelected`), and
`PassesAreEarned` itself. The rest is what the operators give:

* `EveryCasePaired`: a comparison pairs every case of the head, with a case of
  the same behaviour or the same id or with none. `KnownFailure` follows: where
  nothing blocks and nothing is uncertifiable, a failure is one of the
  baseline's, with the same identity.
* `RunCodeAgrees`: over the items of a pair of snapshots, the comparison's answer
  is the check's. It is about runs whose cases have distinct fingerprints: of
  two cases with one the pairing takes the last.
* `BlockingIsVisible`: the categories that block come first in the order of the
  items, so if any item blocks, the first one does, and it is shown. Looking for
  what blocks in the shown items only is no mistake.
* `BestFound` and `BestUnique`: the scan finds the unit that covers most, of
  several the one with the smallest id, which is unique. So the order of the pool
  makes no difference (`ChosenAlike`).
* `RoundAdds` and `RoundsOK`: a round that adds nothing leaves nothing uncovered
  or has reached the cap. After as many rounds as there are units one of the two
  is so (`ChosenSuffices`).

### Only model-checked

Everything under fairness (`DispatchCompletes`, `CallReturns`, `SearchEnds`)
is out of the prover's reach.

The properties of `suite_generation` and `claim_assessment` are
checked on the instances above and not proved. Their models filter, fold,
flatten and sort sequences with operators of the community modules that take an
operator as argument (`SelectSeq`, `FoldLeft`, `SortSeq`), of which the installed
provers know nothing; what they compute for every input would be an induction
over data. Where a model could be written with sets or with a function instead,
it was, as in `SuiteSelection`, `ReleaseGate` and `AdapterRun`. Their two action
properties, `UnforcedNeverReplaces` and `HindsightIsBlind`, are not proved
either. The first is about one action and needs no induction; its proof is left
to do (section 7). The second needs an induction over the statements of a run.

## 5. Limits of the models

* Gateway: parsing of definitions, matching of argument patterns, timestamps
  and generated ids are left out; the effects language is reduced to `set` on
  independent paths, so `delete`, `increment`, `append`, nested pointers, and
  the comparison of preconditions with Python's `!=` (for which `True` is 1)
  are not covered.
* Dispatch: scripted turns, handoffs and budgets of turns, tokens and cost are
  in `AdapterRun`, where the calls of a response run one after the other; the
  two are not composed in one specification. Approvals are left out.
* `NothingSurvives` is about the worker's process group: a descendant that
  starts a session of its own is out of the reach of the code and is `outside`
  in the model. An interrupt is modelled where the code handles it, during the
  wait, the kill and the capture, not between two bytecodes of its own cleanup.
  Payload contracts of the response are left out: both sides are one program. Of
  the capture of the output only how it ends is modelled, not what it retains.
  An `outside` process that writes to a held pipe makes a read return, as if it
  had let go.
* What an execution shows in `ShrinkSearch` is one bit, "fails with the
  signature"; the computation of signatures is left out.
* `SuiteExecution`: the source is one value; which files belong to it and how
  they are hashed is left out. What a worker does is `WorkerProcess`.
* `EvaluationStore`: how a review is bound to a finding, and the screening of
  its text, are left out.
* Generation: wording, the cut of ids at 150 characters, ill-typed parameters,
  the order of fingerprints in ties (cases keep theirs), the search for secrets,
  the byte limit of a suite, and the wording a realization adds are left out.
  Fixtures have one priority, injected faults a higher one. Lint compares the
  matchers of fixtures at the top level while the gateway matches recursively;
  arguments nest one level here, where the two agree.
* Adapters' runs: the tracker starts before `run()` and reads a monotonic clock
  while the latency is from the wall clock; the two are assumed to agree. The
  worker's timeout is the same limit, counted from before the worker starts
  (`runner/orchestrator.py:731`), so a run over its time by its own clock is as a
  rule killed before it is evaluated. `AdapterRun` is without the worker.
* Gate: `SpecChanged` takes the id, the digest and the risk of a specification
  as one value.
* Coverage: answers have no latency, every tool can be replaced and has a name
  of its own and a risk assertion, every criterion is required; reasons,
  evidence, digests and redaction are left out.
* Evaluation: postconditions of the `contains` form are left out, rules about a
  tool name it, and evidence is assumed consistent (`AdapterRun` shows it of
  runs). `CaseConduct` has one call or handoff in a response and treats a
  refusal by the adapter as an answer. Of the budgets `CaseVerdict` judges calls
  and turns: generated cases limit no tokens or cost, and conduct has no clock;
  all five are in `AdapterRun`. Its claims verdict is an input, which
  `ClaimAssessment` computes.
* `DutifulAgentsPass` is about suites a generator or a reasonable author makes:
  an ordering rule has a fixture for its prerequisite, and a limit on calls
  allows for those the case asks for.
* Claims: how sentences are read (`claim_language`'s grammar of clauses and the
  atoms it extracts) is left out, the readings are inputs, and what an agent
  means is what its sentence says. JSON values are texts; copies of a claim
  agree. A call the adapter refused is an attempt on record that the gateway
  did not count, so a fixture that states its invocation no longer fits a later
  call; the model has this, and the verdict of an honest claim is then
  inconclusive.

## 6. Not modelled

* Inspection and capabilities read target objects statically and keep no state;
  what they yield (spec, tools, risk) is an input of the models.
* Fixture packs replace the values of generated fixtures by a user's.
* Reports, the command line and the configuration are rendering and parsing
  around the operations modelled. Loading a report is in `SuiteExecution`.
* The network guard's allowlist and patched functions, the redaction of
  diagnostics and the interpreter probe: only the installation of the guard is
  modelled, in `WorkerProcess`.
* The nested world (`runner/world.py`) beyond flat paths, and the grammar of
  claims.
* `spikes/` holds experiments that the program does not import.

### Observations without a run

Things met while modelling that no run states:

* A worker call need not end with its timeout. `_finish_capture` closes the pipes
  of a worker that is gone (`runner/orchestrator.py:295`), and the close waits
  without a bound for a thread that reads one. A process the target started in a
  session of its own survives the kill of the group and keeps the pipe open.
  `CallReturns` is for this reason stated under `[]<>~Held`; without it, TLC finds
  the call that waits for ever. `tests/agentcheck/test_worker_process.py:118-135`
  asserts that a call ends with its timeout, of a target that leaves nothing
  behind.
* `docs/behavioral-regression.md:52-54` says that blocking and uncertifiable rows
  are ordered first, so that only quiet detail is omitted. `infra_change`, which
  cannot be certified, is the last but one in `regression/compare.py:31-44`: it
  may be omitted while a quiet row is shown. The exit code looks at all items for
  it (`regression/compare.py:110`).
* `docs/behavioral-coverage.md:63-65` says that no oracle proves the order of a
  generated action and its prerequisite, so that the requirement is
  unsupported. The analyzer grades it like any ordering rule
  (`coverage/analyzer.py:922`, `1822`), and the model does: without a rule the
  suite is missing a case, as
  `tests/agentcheck/test_behavioral_coverage.py:743-746` expects. The document
  is behind the code.
* The final output must be the last event for a rule about confirmation
  (`evaluate/confirmation.py:173`), while a handoff beside a response's first
  is recorded after it (`adapters/openai_agents.py:3084`): such runs are
  inconclusive.
* The comment at `policies/loader.py:375-377` calls the parameters a rule adds to
  a criterion additive. They are for the criterion a generator made; where
  another pack has set the same parameter before, the later pack overrides it.
* The validator of packs accepts parameters (`minimum=0`, `max_edge_repeats=0`)
  that lint then rejects in every case they are attached to.
* A rule against retries after an ambiguous timeout counts the calls of one
  response too (`evaluate/engine.py:769-790`), although they were decided
  before the timeout was seen.
* Positive and fault cases of a guarded tool are inconclusive under the derived
  pack: they do not settle consent. The limits of a suite as a whole cut off
  cases silently; only those of a parameter and a tool leave a reason.
* `list_runs_readonly` calls a file of no bytes corrupt, which a process that
  has opened a new store but not yet written to it leaves for a moment.
* A retry budget can be set through the gateway's interface only; no scenario
  sets one.
* A claimed email that was sent through a tool outside the known message actions
  is judged absent (`evaluate/claims.py:148-158`).

## 7. Plan

Done, in this order: the gateway, serial and concurrent dispatch;
`WorkerProcess` and `ShrinkSearch`; the safety proofs of these;
`SuiteExecution`; `EvaluationStore` with `RunIndex`; `AdapterRun`; selection,
gate and baseline; generation, coverage and conduct; claims.

Proved since: `SerialGateway`; the refinements `SerialEquivalence` and
`ImplementsRunIndex`; `SuiteExecution` with `PublishedRunsStay`;
`EvaluationStore`; the gate and the selection; `AdapterRun`, its type invariant
and its four properties.

Theorems to come, by what they are worth:

1. `UnforcedNeverReplaces` of `SuiteGeneration`: the suite file changes only in
   `Write`, of a generation that was forced or found no file.
2. Lemmas about verdicts: `Verdict` passes only without a hard failure and an
   incomplete record; the claims' verdict passes only with a certified claim.

Models to come, where they would add to the properties: the world as a nested
document, effect by effect with rollback, refining the atomic `WorldAfter`; and
`AdapterRun` composed with `ConcurrentDispatch`.

## 8. Running

    tlc -config MCConcurrentDispatch.cfg MCConcurrentDispatch
    tlapm ConcurrentDispatch_proofs.tla

`PROJECT.json` lists the runs, their properties, the seeded fault each property
detects, the lines of source every definition stands for, hazards, findings and
theorems.

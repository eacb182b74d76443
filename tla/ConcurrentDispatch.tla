-------------------------- MODULE ConcurrentDispatch --------------------------
(***************************************************************************)
(* How the OpenAI Agents and PydanticAI adapters run the tool calls of a   *)
(* model response as concurrent asyncio tasks (_reserve_tool_calls,        *)
(* _make_safe_invoker, _invoke_reserved_or_direct, LaunchBarrier).         *)
(*                                                                         *)
(* When a response arrives its plannable calls are planned in the order    *)
(* the model emitted them, before any task exists.  Each task then records *)
(* its attempt, claims its reservation by call id and waits at the barrier *)
(* until every lower rank has been released.                               *)
(***************************************************************************)
EXTENDS ToolGateway

CONSTANTS
  CallIds,
  Responses,      \* the responses a model may give: sequences of ItemType
  InitialWorld,
  MaxConcurrency, \* max_function_tool_concurrency
  MaxResponses,   \* bound: model responses
  MaxBatch,       \* bound: calls in one response
  MaxClock        \* bound: real seconds that may elapse

(* "known": a declared tool with arguments the adapter accepts;            *)
(* "malformed": a declared tool, arguments that fail its schema;           *)
(* "unknown": a name the active agent does not declare.                    *)
ItemType ==
  [id : CallIds, call : Calls, kind : {"known", "malformed", "unknown"}]

ASSUME DispatchAssumption ==
  /\ Responses \subseteq Seq(ItemType)
  /\ \A items \in Responses : Len(items) <= MaxBatch
  /\ InitialWorld \in WorldType
  /\ MaxConcurrency \in Nat \ {0}
  /\ MaxResponses \in Nat /\ MaxBatch \in Nat
  /\ MaxClock \in Nat

VARIABLES
  clock,     \* real time elapsed since the budget tracker was built
  plan,      \* the gateway's planning state
  world,     \* the simulated world
  log,       \* the gateway's outcomes, in commit order
  turns,     \* responses received
  phase,     \* what the adapter's run is doing
  response,  \* the response in hand
  cursor,    \* the next call of the response to look at
  resv,      \* its reservations, in rank order
  pending,   \* capture.pending_reservations: call id -> rank
  opened,    \* the ranks whose barrier event is set
  pc,        \* where the task of each call of the response is
  held,      \* the rank a task has claimed, 0 for none
  answer,    \* what each call's attempt was answered
  commits,   \* history: ranks in the order they were committed
  base       \* history: planning state, SerialClock, log length at its arrival

budgetVars == <<clock, plan>>
responseVars == <<response, turns, base>>
taskVars == <<pc, held, answer>>
barrierVars == <<pending, opened>>
vars == <<clock, plan, world, log, turns, phase, response, cursor, resv,
          pending, opened, pc, held, answer, commits, base>>

Positions == 1..Len(response)

NoAnswer == [call |-> "none"]

NumRunning == Cardinality({i \in Positions : pc[i] \in {"attempted", "waiting"}})

-----------------------------------------------------------------------------
Init ==
  /\ clock = 0
  /\ plan = InitialPlan
  /\ world = InitialWorld
  /\ log = <<>>
  /\ turns = 0
  /\ phase = "model"
  /\ response = <<>>
  /\ cursor = 1
  /\ resv = <<>>
  /\ pending = <<>>
  /\ opened = {}
  /\ pc = <<>>
  /\ held = <<>>
  /\ answer = <<>>
  /\ commits = <<>>
  /\ base = [plan |-> InitialPlan, at |-> 0, logged |-> 0]

(* Real time passes whatever the run is doing.                             *)
Tick ==
  /\ phase # "ended"
  /\ clock < MaxClock
  /\ clock' = clock + 1
  /\ UNCHANGED <<plan, world, log, phase, cursor, resv, commits>>
  /\ UNCHANGED <<responseVars, taskVars, barrierVars>>

(* When the last committed reservation was planned.                        *)
SerialClock == IF commits = <<>> THEN base.at ELSE resv[Len(commits)].at

(* A model response arrives: on_llm_end, _CapturingModel.request.          *)
Respond(items) ==
  /\ phase = "model"
  /\ turns < MaxResponses
  /\ turns' = turns + 1
  /\ phase' = "planning"
  /\ response' = items
  /\ cursor' = 1
  /\ resv' = <<>>
  /\ commits' = <<>>
  /\ base' = [plan |-> plan, at |-> SerialClock, logged |-> Len(log)]
  /\ pc' = [i \in 1..Len(items) |-> "queued"]
  /\ held' = [i \in 1..Len(items) |-> 0]
  /\ answer' = [i \in 1..Len(items) |-> NoAnswer]
  /\ UNCHANGED <<budgetVars, world, log, barrierVars>>

(* The model stops, or another budget ends the run between responses.      *)
Finish ==
  /\ phase = "model"
  /\ phase' = "ended"
  /\ UNCHANGED <<budgetVars, world, log, cursor, resv, commits>>
  /\ UNCHANGED <<responseVars, taskVars, barrierVars>>

Planning(kinds) ==
  /\ phase = "planning"
  /\ cursor \in Positions
  /\ response[cursor].kind \in kinds
  /\ UNCHANGED <<clock, world, log, responseVars, taskVars, barrierVars, commits>>

(* Seeded fault: each call is decided without its siblings.                *)
MutPlanCall ==
  LET c == response[cursor].call IN
  /\ Planning({"known"})
  /\ ~Ambiguous(base.plan, c, clock)
  /\ plan' = Planned(base.plan, c, clock)
  /\ resv' = Append(resv, [pos |-> cursor, res |-> Reserve(base.plan, c, clock),
                           plan |-> plan', at |-> clock])
  /\ cursor' = cursor + 1
  /\ phase' = phase

(* plan_batch plans the next call; its rank is its place in resv.          *)
PlanCall ==
  LET c == response[cursor].call IN
  /\ Planning({"known"})
  /\ ~Ambiguous(plan, c, clock)
  /\ plan' = Planned(plan, c, clock)
  /\ resv' = Append(resv, [pos |-> cursor, res |-> Reserve(plan, c, clock),
                           plan |-> plan', at |-> clock])
  /\ cursor' = cursor + 1
  /\ phase' = phase

(* A FixtureDefinitionError leaves plan_batch and ends the run.            *)
PlanRaises ==
  LET c == response[cursor].call IN
  /\ Planning({"known"})
  /\ Ambiguous(plan, c, clock)
  /\ plan' = Charged(plan, c, clock)
  /\ phase' = "ended"
  /\ UNCHANGED <<cursor, resv>>

(* Malformed arguments and undeclared tools are left unplanned.            *)
LeaveUnplanned ==
  /\ Planning({"malformed", "unknown"})
  /\ cursor' = cursor + 1
  /\ UNCHANGED <<plan, phase, resv>>

IdsOf(rs) == {response[rs[k].pos].id : k \in 1..Len(rs)}

(* Seeded fault: setdefault, the first reservation of an id stays.         *)
MutReservationTable(rs) ==
  [d \in IdsOf(rs) |->
     CHOOSE k \in 1..Len(rs) :
       /\ response[rs[k].pos].id = d
       /\ \A j \in 1..Len(rs) : response[rs[j].pos].id = d => k <= j]

(* A dict built in rank order: the last reservation of an id is the one    *)
(* that stays.                                                             *)
ReservationTable(rs) ==
  [d \in IdsOf(rs) |->
     CHOOSE k \in 1..Len(rs) :
       /\ response[rs[k].pos].id = d
       /\ \A j \in 1..Len(rs) : response[rs[j].pos].id = d => j <= k]

(* The framework gets the response back.  With no plannable call the       *)
(* previous reservations and barrier are left as they were.                *)
FinishPlanning ==
  /\ phase = "planning"
  /\ cursor > Len(response)
  /\ phase' = IF \E i \in Positions : response[i].kind = "unknown"
              THEN "rejecting" ELSE "dispatching"
  /\ pending' = IF resv = <<>> THEN pending ELSE ReservationTable(resv)
  /\ opened' = IF resv = <<>> THEN opened ELSE {1}
  /\ UNCHANGED <<budgetVars, world, log, cursor, resv, commits>>
  /\ UNCHANGED <<responseVars, taskVars>>

(* add_tokens or add_cost finds the response over its budget only after    *)
(* on_llm_end has planned its calls: the run ends without dispatching them.*)
UsageEndsRun ==
  /\ phase = "planning"
  /\ cursor > Len(response)
  /\ phase' = "ended"
  /\ pending' = IF resv = <<>> THEN pending ELSE ReservationTable(resv)
  /\ opened' = IF resv = <<>> THEN opened ELSE {1}
  /\ UNCHANGED <<budgetVars, world, log, cursor, resv, commits>>
  /\ UNCHANGED <<responseVars, taskVars>>

(* The adapter refuses call i itself: a budget may refuse it first.        *)
Refuse(i, code) ==
  /\ plan' = AdapterCharged(plan, clock)
  /\ answer' = [answer EXCEPT
                  ![i] = AdapterOutcome(plan, response[i].call, code, clock)]
  /\ pc' = [pc EXCEPT ![i] = "done"]
  /\ UNCHANGED <<clock, world, log, phase, cursor, resv, commits, held>>
  /\ UNCHANGED <<responseVars, barrierVars>>

(* ModelBehaviorError: every undeclared call is recorded as blocked, in    *)
(* order, and the run ends without dispatching anything.                   *)
RejectUnknown(i) ==
  /\ phase = "rejecting"
  /\ response[i].kind = "unknown"
  /\ pc[i] = "queued"
  /\ \A j \in 1..(i - 1) : response[j].kind = "unknown" => pc[j] = "done"
  /\ Refuse(i, "unknown_tool")

EndRejecting ==
  /\ phase = "rejecting"
  /\ \A i \in Positions : response[i].kind = "unknown" => pc[i] = "done"
  /\ phase' = "ended"
  /\ UNCHANGED <<budgetVars, world, log, cursor, resv, commits>>
  /\ UNCHANGED <<responseVars, taskVars, barrierVars>>

(* The framework starts tasks in response order, MaxConcurrency at a time; *)
(* the invoker records the attempt.                                        *)
Start(i) ==
  /\ phase = "dispatching"
  /\ pc[i] = "queued"
  /\ \A j \in 1..(i - 1) : pc[j] # "queued"
  /\ NumRunning < MaxConcurrency
  /\ pc' = [pc EXCEPT ![i] = "attempted"]
  /\ UNCHANGED <<budgetVars, world, log, phase, cursor, resv, commits>>
  /\ UNCHANGED <<responseVars, barrierVars, held, answer>>

(* The invoker answers malformed arguments without the gateway.            *)
AnswerMalformed(i) ==
  /\ phase = "dispatching"
  /\ pc[i] = "attempted"
  /\ response[i].kind = "malformed"
  /\ Refuse(i, "invalid_arguments")

(* pending_reservations.pop(call_id): claimed at most once.                *)
Claim(i) ==
  /\ phase = "dispatching"
  /\ pc[i] = "attempted"
  /\ response[i].kind = "known"
  /\ response[i].id \in DOMAIN pending
  /\ held' = [held EXCEPT ![i] = pending[response[i].id]]
  /\ pending' = [d \in DOMAIN pending \ {response[i].id} |-> pending[d]]
  /\ pc' = [pc EXCEPT ![i] = "waiting"]
  /\ UNCHANGED <<budgetVars, world, log, phase, cursor, resv, commits>>
  /\ UNCHANGED <<responseVars, opened, answer>>

Answered(i, outcome) ==
  /\ log' = Append(log, outcome)
  /\ answer' = [answer EXCEPT ![i] = outcome]
  /\ pc' = [pc EXCEPT ![i] = IF outcome.status = "raised" THEN "raised" ELSE "done"]

(* Seeded fault: tasks commit as they wake, without the barrier.           *)
MutCommitUnordered(i) ==
  LET r == held[i] IN
  /\ phase = "dispatching"
  /\ pc[i] = "waiting"
  /\ world' = WorldAfter(resv[r].res, world)
  /\ Answered(i, Outcome(resv[r].res, world))
  /\ commits' = Append(commits, r)
  /\ opened' = opened \cup ({r + 1} \cap (1..Len(resv)))
  /\ UNCHANGED <<budgetVars, phase, cursor, resv, pending, held>>
  /\ UNCHANGED responseVars

(* Seeded fault: a refused call returns before it releases the next rank.  *)
MutCommitNoRelease(i) ==
  LET r == held[i] IN
  /\ phase = "dispatching"
  /\ pc[i] = "waiting"
  /\ r \in opened
  /\ world' = WorldAfter(resv[r].res, world)
  /\ Answered(i, Outcome(resv[r].res, world))
  /\ commits' = Append(commits, r)
  /\ opened' = IF resv[r].res.verdict = "granted"
               THEN opened \cup ({r + 1} \cap (1..Len(resv))) ELSE opened
  /\ UNCHANGED <<budgetVars, phase, cursor, resv, pending, held>>
  /\ UNCHANGED responseVars

(* run_in_order: commit at one's turn and release the next rank, whether   *)
(* the commit returned or raised.                                          *)
Commit(i) ==
  LET r == held[i] IN
  /\ phase = "dispatching"
  /\ pc[i] = "waiting"
  /\ r \in opened
  /\ world' = WorldAfter(resv[r].res, world)
  /\ Answered(i, Outcome(resv[r].res, world))
  /\ commits' = Append(commits, r)
  /\ opened' = opened \cup ({r + 1} \cap (1..Len(resv)))
  /\ UNCHANGED <<budgetVars, phase, cursor, resv, pending, held>>
  /\ UNCHANGED responseVars

(* No reservation under this id: the gateway is invoked on the spot.       *)
InvokeDirectly(i) ==
  LET c == response[i].call
      r == Reserve(plan, c, clock)
  IN
  /\ phase = "dispatching"
  /\ pc[i] = "attempted"
  /\ response[i].kind = "known"
  /\ response[i].id \notin DOMAIN pending
  /\ ~Ambiguous(plan, c, clock)
  /\ plan' = Planned(plan, c, clock)
  /\ world' = WorldAfter(r, world)
  /\ Answered(i, Outcome(r, world))
  /\ UNCHANGED <<clock, phase, cursor, resv, commits, held>>
  /\ UNCHANGED <<responseVars, barrierVars>>

(* The same with ambiguous fixtures: the invoker records an error event    *)
(* and lets the FixtureDefinitionError go.                                 *)
DirectRaises(i) ==
  LET c == response[i].call IN
  /\ phase = "dispatching"
  /\ pc[i] = "attempted"
  /\ response[i].kind = "known"
  /\ response[i].id \notin DOMAIN pending
  /\ Ambiguous(plan, c, clock)
  /\ plan' = Charged(plan, c, clock)
  /\ pc' = [pc EXCEPT ![i] = "raised"]
  /\ UNCHANGED <<clock, world, log, phase, cursor, resv, commits, held, answer>>
  /\ UNCHANGED <<responseVars, barrierVars>>

(* Every call is answered: its results go back to the model.               *)
FinishResponse ==
  /\ phase = "dispatching"
  /\ \A i \in Positions : pc[i] = "done"
  /\ phase' = "model"
  /\ UNCHANGED <<budgetVars, world, log, cursor, resv, commits>>
  /\ UNCHANGED <<responseVars, taskVars, barrierVars>>

(* An invoker raised: the framework cancels the other tasks and the run    *)
(* ends as an adapter error.                                               *)
Abort ==
  /\ phase = "dispatching"
  /\ \E i \in Positions : pc[i] = "raised"
  /\ phase' = "ended"
  /\ UNCHANGED <<budgetVars, world, log, cursor, resv, commits>>
  /\ UNCHANGED <<responseVars, taskVars, barrierVars>>

Task(i) ==
  \/ Start(i)
  \/ AnswerMalformed(i)
  \/ Claim(i)
  \/ Commit(i)
  \/ InvokeDirectly(i)
  \/ DirectRaises(i)
  \/ RejectUnknown(i)

Control ==
  PlanCall \/ PlanRaises \/ LeaveUnplanned \/ FinishPlanning
    \/ UsageEndsRun \/ EndRejecting \/ FinishResponse \/ Abort

Next ==
  \/ Tick
  \/ \E items \in Responses : Respond(items)
  \/ Finish
  \/ Control
  \/ \E i \in Positions : Task(i)

(* The event loop runs every ready task and the adapter's own code goes on.*)
Fairness ==
  /\ WF_vars(Control)
  /\ WF_vars(\E i \in Positions : Task(i))

Spec == Init /\ [][Next]_vars
FairSpec == Spec /\ Fairness

-----------------------------------------------------------------------------
Phases == {"model", "planning", "dispatching", "rejecting", "ended"}

TaskStates == {"queued", "attempted", "waiting", "done", "raised"}

RankType == [pos : Nat, res : ReservationType, plan : PlanType, at : Nat]

TypeOK ==
  /\ clock \in Nat /\ turns \in Nat /\ cursor \in Nat
  /\ plan \in PlanType
  /\ world \in WorldType
  /\ log \in Seq(OutcomeType)
  /\ phase \in Phases
  /\ response \in Seq(ItemType)
  /\ resv \in Seq(RankType)
  /\ DOMAIN pending \subseteq CallIds
  /\ \A d \in DOMAIN pending : pending[d] \in Nat
  /\ opened \subseteq Nat
  /\ pc \in [Positions -> TaskStates]
  /\ held \in [Positions -> Nat]
  /\ answer \in [Positions -> OutcomeType \cup {NoAnswer}]
  /\ commits \in Seq(Nat)
  /\ base \in [plan : PlanType, at : Nat, logged : Nat]

(* Whatever order the tasks start, claim and wake in, and even when call   *)
(* ids repeat, reservations are committed in the order they were planned   *)
(* and each at most once (LaunchBarrier.run_in_order).                     *)
CommitsInDecisionOrder ==
  /\ Len(commits) <= Len(resv)
  /\ \A k \in 1..Len(commits) : commits[k] = k

Outstanding ==
  {k \in 1..Len(resv) : \A n \in 1..Len(commits) : commits[n] # k}

(* A single-use fixture answers at most one call: not two calls of a       *)
(* batch, not a planned call and one invoked directly while the plan was   *)
(* outstanding (_select_fixture, plan_batch, invoke).                      *)
SingleUseFixtures ==
  /\ \A i, j \in 1..Len(log) :
       i # j /\ log[i].fixture \in SingleUse => log[j].fixture # log[i].fixture
  /\ \A k, n \in Outstanding :
       k # n /\ resv[k].res.fixture \in SingleUse =>
         resv[n].res.fixture # resv[k].res.fixture
  /\ \A i \in 1..Len(log), k \in Outstanding :
       log[i].fixture \in SingleUse => resv[k].res.fixture # log[i].fixture

(* The answer the model reads for a call is the outcome of that call, not  *)
(* of a sibling whose reservation a task took because the ids collided     *)
(* (_invoke_reserved_or_direct).                                           *)
AnswersMatchCalls ==
  \A i \in Positions :
    answer[i] # NoAnswer => answer[i].call = response[i].call

(* Every answered call of the response that was for the gateway has left   *)
(* exactly one outcome in it, and no other outcome exists: popping the     *)
(* reservation makes it committable at most once.                          *)
OneOutcomePerAnswer ==
  Len(log) - base.logged =
    Cardinality({i \in Positions :
                   response[i].kind = "known" /\ answer[i] # NoAnswer})

(* When a response is finished nothing of its batch is left over: a later  *)
(* response that reuses a call id cannot claim an old reservation, and     *)
(* every budget unit and fixture planning took belongs to an outcome.      *)
ReservationsDrained ==
  phase = "model" => DOMAIN pending = {} /\ Outstanding = {}

(* Between the adapter and the gateway each call of a finished response is *)
(* charged to the tool-call budget once, and a call refused for a budget   *)
(* is not charged (consume_tool_call, _consume_adapter_tool_budget).       *)
CallsChargedOnce ==
  phase = "model" =>
    plan.calls - base.plan.calls =
      Cardinality({i \in Positions : answer[i].verdict \notin OverBudgetCodes})

-----------------------------------------------------------------------------
(* Why the above holds, as an inductive invariant.                         *)

IdOfRank(k) == response[resv[k].pos].id

(* No later reservation of the batch has the same call id.                 *)
LastOfId(k) == \A n \in (k + 1)..Len(resv) : IdOfRank(n) # IdOfRank(k)

(* The reservations are those of the plannable calls seen so far, in the   *)
(* order of the response.                                                  *)
PlanInv ==
  /\ cursor \in 1..(Len(response) + 1)
  /\ \A k \in 1..Len(resv) :
       /\ resv[k].pos \in 1..(cursor - 1)
       /\ response[resv[k].pos].kind = "known"
       /\ resv[k].res.call = response[resv[k].pos].call
  /\ \A i \in 1..(cursor - 1) :
       response[i].kind = "known" => \E k \in 1..Len(resv) : resv[k].pos = i
  /\ \A k \in 1..Len(resv) :
       \E n \in 1..Len(resv) : IdOfRank(n) = IdOfRank(k) /\ LastOfId(n)

(* Before a batch is dispatched nothing is claimed or committed.           *)
PhaseInv ==
  /\ phase \in {"model", "planning"} => DOMAIN pending = {}
  /\ phase = "planning" =>
       commits = <<>> /\ \A i \in Positions : pc[i] = "queued"
  /\ phase = "rejecting" => \A i \in Positions : pc[i] \in {"queued", "done"}
  /\ phase = "dispatching" => cursor = Len(response) + 1

(* A rank is in the table, held by one waiting task, or committed; only    *)
(* the last rank of an id ever leaves the table.                           *)
ClaimInv ==
  /\ \A d \in DOMAIN pending :
       /\ pending[d] \in (Len(commits) + 1)..Len(resv)
       /\ IdOfRank(pending[d]) = d
       /\ LastOfId(pending[d])
  /\ \A i \in Positions : pc[i] = "waiting" =>
       /\ held[i] \in (Len(commits) + 1)..Len(resv)
       /\ IdOfRank(held[i]) = response[i].id
       /\ LastOfId(held[i])
       /\ response[i].id \notin DOMAIN pending
       /\ response[i].kind = "known"
  /\ \A i, j \in Positions :
       /\ pc[i] = "waiting" /\ pc[j] = "waiting"
       /\ response[i].id = response[j].id
       => i = j
  /\ \A k \in 1..Len(commits) : LastOfId(k)

(* Every reservation in the table has a task that will claim it.           *)
OwnerInv ==
  phase = "dispatching" =>
    \A d \in DOMAIN pending : \E i \in Positions :
      /\ response[i].id = d
      /\ response[i].kind = "known"
      /\ pc[i] \in {"queued", "attempted"}

(* A rank still to be committed, if it is the last of its id, can be: it   *)
(* is in the table or a waiting task holds it.                             *)
HolderInv ==
  phase = "dispatching" =>
    \A k \in (Len(commits) + 1)..Len(resv) : LastOfId(k) =>
      \/ \E d \in DOMAIN pending : pending[d] = k
      \/ \E i \in Positions : pc[i] = "waiting" /\ held[i] = k

(* A call is answered when its task is done, not before.                   *)
AnswerInv ==
  \A i \in Positions :
    pc[i] \in {"queued", "attempted", "waiting"} => answer[i] = NoAnswer

(* Every single-use fixture in an outcome or in a reservation is spent.    *)
UsedInv ==
  /\ \A i \in 1..Len(log) :
       log[i].fixture \in SingleUse => log[i].fixture \in plan.used
  /\ \A k \in Outstanding :
       resv[k].res.fixture \in SingleUse => resv[k].res.fixture \in plan.used

(* The barrier has opened exactly the committed ranks and the next one.    *)
BarrierInv ==
  phase = "dispatching" /\ resv # <<>> =>
    opened = (1..(Len(commits) + 1)) \cap (1..Len(resv))

(* What planning, claiming and committing keep at every step of every      *)
(* schedule, from which no reservation is lost, swapped or used twice.     *)
IndInv ==
  /\ TypeOK
  /\ PlanInv
  /\ PhaseInv
  /\ ClaimInv
  /\ OwnerInv
  /\ BarrierInv
  /\ CommitsInDecisionOrder
  /\ AnswersMatchCalls
  /\ HolderInv
  /\ AnswerInv
  /\ UsedInv
  /\ ReservationsDrained
  /\ SingleUseFixtures
  /\ OneOutcomePerAnswer

-----------------------------------------------------------------------------
(* plan_batch decides "budget consumption ... strictly in the order the    *)
(* calls are given" (docs/concurrent-tool-decisions.md): a call refused    *)
(* for the tool-call budget is followed by no call that was admitted.      *)
BudgetRefusalsInOrder ==
  \A i, j \in Positions :
    /\ i < j
    /\ answer[i] # NoAnswer /\ answer[j] # NoAnswer
    /\ answer[i].verdict = "tool_calls_budget_exceeded"
    => answer[j].verdict # "granted"

(* Committing the reservations of a batch in order "reproduces exactly     *)
(* what calling invoke for each call in this same order would have done"   *)
(* (plan_batch): seen through its commits, the dispatch of a response of   *)
(* plannable calls under distinct ids is a serial gateway, whatever        *)
(* responses came before it.  The serial planning state is the one the     *)
(* last committed reservation was planned in.                              *)
SerialPlan == IF commits = <<>> THEN base.plan ELSE resv[Len(commits)].plan

Serial == INSTANCE SerialGateway
            WITH plan <- SerialPlan, clock <- SerialClock,
                 MaxLog <- MaxResponses * MaxBatch

DistinctIds ==
  \A i, j \in Positions : i # j => response[i].id # response[j].id

OnlyPlannable == \A i \in Positions : response[i].kind = "known"

SerialEquivalence ==
  /\ Serial!Init
  /\ [][DistinctIds /\ OnlyPlannable => Serial!Next]_(Serial!vars)

(* Every response whose call ids are distinct is answered in full or ends  *)
(* the run: no task waits at the barrier for a rank that no task holds.    *)
DispatchCompletes ==
  (phase = "dispatching" /\ DistinctIds) ~> (phase \in {"model", "ended"})
=============================================================================

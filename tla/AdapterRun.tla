----------------------------- MODULE AdapterRun ------------------------------
(***************************************************************************)
(* One scenario executed by a framework adapter: run() of the OpenAI       *)
(* Agents, PydanticAI and custom adapters, the stages between the scripted *)
(* user turns, the model turns inside a stage, the budgets that end them   *)
(* and the events that are the evidence of the run.                        *)
(*                                                                         *)
(* The model, the framework and the target are external: a response holds  *)
(* any calls and any usage, and a call is answered or raises.  How the     *)
(* calls of one response are planned and dispatched is ConcurrentDispatch; *)
(* here they run one after the other, in any order.  The text of turns and *)
(* outputs is left out, and so is the event sink, which a worker has none  *)
(* of.                                                                     *)
(***************************************************************************)
EXTENDS RunEvaluation, FiniteSetsExt

CONSTANTS
  Adapters,       \* the adapters a run may use, of AdapterNames
  MaxTurns,       \* the scenario's max_model_turns
  MaxFollowups,   \* bound on the scripted user turns
  MaxToolCalls,   \* the scenario's max_tool_calls
  MaxStageCalls,  \* bound on the tool calls of a custom agent in a stage
  Calls,          \* the sequences of calls a response can hold
  AgentCalls,     \* the calls a custom agent can make
  Usages,         \* the usage a response can report: records, or Unknown
  TokenLimit,     \* the scenario's token_budget
  CostLimit,      \* the scenario's cost_budget_usd, in units
  WallClock,      \* the scenario's wall_clock_seconds
  Latencies,      \* how long a run can take
  ToolNames,      \* the tools of a target that is one agent
  Unknown

AdapterNames == {"openai", "pydantic", "custom"}
\* What a call of a response is to the adapter.
CallKinds == {"declared", "malformed", "undeclared", "handoff"}
CallType == [kind : CallKinds, tool : STRING, args : STRING]
UsageType == [tokens : Nat, cost : Nat] \cup {Unknown}

ASSUME AdapterAssumption ==
  /\ Adapters \subseteq AdapterNames
  /\ MaxTurns \in Nat \ {0}
  /\ {MaxFollowups, MaxToolCalls, MaxStageCalls, TokenLimit, CostLimit} \subseteq Nat
  /\ WallClock \in Nat /\ Latencies \subseteq Nat
  /\ Calls \subseteq Seq(CallType) /\ AgentCalls \subseteq CallType
  /\ Usages \subseteq UsageType
  /\ Unknown \notin [tokens : Nat, cost : Nat]

VARIABLES
  adapter,      \* the adapter of this run
  followups,    \* how many user turns are scripted
  phase,        \* where run() is
  capture,      \* whether the holder has the capture of a run
  events,       \* the events captured
  responses,    \* the model's responses: [event, stage, calls, usage]
  todo,         \* the calls of the last response that are to be run
  spent,        \* what the budget tracker has counted
  expired,      \* the first event after the wall-clock budget was used up, or 0
  allowed,      \* the turns the framework's runner has left in this stage
  stages,       \* stages_executed
  delivered,    \* scripted turns delivered
  stageStart,   \* stage_response_start
  exc,          \* what was raised, or None
  termination,  \* how the run ended, or None
  output,       \* the final output was recorded
  latency       \* the latency recorded when the run ends

control == <<phase, todo, expired, exc>>
stage == <<allowed, stages, delivered, stageStart>>
result == <<termination, output, latency>>
vars == <<adapter, followups, capture, events, responses, spent,
          control, stage, result>>

None == "none"
Terminations ==
  {"completed", "max_model_turns", "max_tool_calls", "token_budget",
   "cost_budget", "wall_clock_timeout", "provider_error", "adapter_error",
   "cancelled"}
Resources == {"model_turns", "tool_calls", "tokens", "cost_usd", "wall_time", "retries"}

\* An event, the event it comes from and the call it is about; `made` says
\* which call of which response that was, and is not in the record.
NoCall == [kind |-> None, tool |-> None, args |-> None]
Event(type, of, call, made, status) ==
  [type |-> type, of |-> of, tool |-> call.tool, args |-> call.args,
   made |-> made, status |-> status]
Plain(type) == Event(type, 0, NoCall, <<>>, None)
EventsOf(type) == {i \in DOMAIN events : events[i].type = type}

Latest(type) == IF EventsOf(type) = {} THEN 0 ELSE Max(EventsOf(type))
CallAt(c) == responses[c[1]].calls[c[2]]
Log(new) == events' = events \o new

\* The calls of a response, of all responses, and what a call is.
Of(r) == {<<r, i>> : i \in DOMAIN responses[r].calls}
AllCalls == UNION {Of(r) : r \in DOMAIN responses}
KindOf(c) == CallAt(c).kind

\* A set of calls as a sequence, in the order the model made them.
Before(c, d) == c[1] < d[1] \/ (c[1] = d[1] /\ c[2] < d[2])
InOrder(calls) ==
  CHOOSE seq \in [1..Cardinality(calls) -> calls] :
    \A j, k \in DOMAIN seq : j < k => Before(seq[j], seq[k])

\* A call is recorded as an attempt, and as what was made of it.  Every attempt
\* takes one of the tool calls of the budget, of which `used' are taken.
Attempted(source, call, made) == Event("tool_attempt", source, call, made, None)
Answered(attempt, used, call, made, status) ==
  Event(IF status = "raised" THEN "error" ELSE "tool_result", attempt, call, made,
        IF status # "raised" /\ used >= MaxToolCalls THEN "over_budget" ELSE status)

CallsUsed == Cardinality(Attempts(events))
Evidence(source, call, made, status) ==
  <<Attempted(source, call, made),
    Answered(Len(events) + 1, CallsUsed, call, made, status)>>

\* The clock is past the wall-clock budget: what is asked for is refused, and
\* so is a call that would have been refused anyway.
Late == expired # 0
Refusal == IF Late THEN "over_budget" ELSE "invalid"

\* Calls that are recorded one after the other, from the latest response.
Blocked(calls) ==
  LET seq == InOrder(calls)
      Call(n) == seq[(n + 1) \div 2]
  IN  [n \in 1..(2 * Cardinality(calls)) |->
         IF n % 2 = 1
         THEN Attempted(Latest("model_response"), CallAt(Call(n)), Call(n))
         ELSE Answered(Len(events) + n - 1, CallsUsed + n \div 2 - 1,
                       CallAt(Call(n)), Call(n), Refusal)]

Phases ==
  {"prepared", "stage", "turn", "requested", "dispatch", "agent", "staged",
   "raised", "closing", "ended", "escaped"}
Raised ==
  Resources \cup {"max_turns_exceeded", "model_behavior", "provider", "cancelled", "error"}
EventTypes ==
  {"user_turn", "model_request", "model_response", "tool_attempt", "tool_result",
   "error", "handoff", "ignored_handoff", "assistant_output", "final_output"}
Statuses == {None, "success", "ambiguous_timeout", "invalid", "over_budget", "raised"}
EventType ==
  [type : EventTypes, of : Nat, tool : STRING \cup {None}, args : STRING \cup {None},
   made : (Nat \X Nat) \cup {<<>>}, status : Statuses]
ResponseType == [event : Nat, stage : Nat, calls : Calls, usage : Usages]

TypeOK ==
  /\ adapter \in Adapters /\ followups \in 0..MaxFollowups /\ phase \in Phases
  /\ capture \in BOOLEAN /\ expired \in Nat /\ output \in BOOLEAN
  /\ events \in Seq(EventType) /\ responses \in Seq(ResponseType)
  /\ todo \subseteq Nat
  /\ spent \in [turns : 0..MaxTurns, tokens : 0..TokenLimit, cost : 0..CostLimit]
  /\ allowed \in 0..MaxTurns
  /\ stages \in 0..(followups + 1) /\ delivered \in 0..followups
  /\ stageStart \in 0..Len(responses)
  /\ exc \in Raised \cup {None} /\ termination \in Terminations \cup {None}
  /\ latency \in Latencies \cup {0}

Init ==
  /\ adapter \in Adapters
  /\ followups \in 0..MaxFollowups
  /\ phase = "prepared" /\ capture = FALSE
  /\ events = <<>> /\ responses = <<>> /\ todo = {}
  /\ spent = [turns |-> 0, tokens |-> 0, cost |-> 0]
  /\ expired = 0
  /\ allowed = 0 /\ stages = 0 /\ delivered = 0 /\ stageStart = 0
  /\ exc = None /\ termination = None /\ output = FALSE /\ latency = 0

-----------------------------------------------------------------------------
(* What can happen anywhere in a run. *)

Running == {"turn", "requested", "dispatch", "agent"}
Fixed == <<adapter, followups>>
Raise(what) == phase' = "raised" /\ exc' = what
Goto(where) == phase' = where /\ exc' = exc

\* The clock passes the wall-clock budget, which the run learns of where it
\* next asks for something.
Tick ==
  /\ phase \notin {"ended", "escaped"} /\ ~Late
  /\ expired' = Len(events) + 1
  /\ UNCHANGED <<Fixed, phase, capture, events, responses, todo, spent, stage, exc, result>>

\* The event loop's task is cancelled at an await.
Cancelled ==
  /\ phase \in Running
  /\ Raise("cancelled")
  /\ UNCHANGED <<Fixed, capture, events, responses, todo, spent, expired, stage, result>>

\* KeyboardInterrupt or SystemExit: no handler, finally drops the capture and
\* there is no CanonicalRun.
Escapes ==
  /\ phase \in Running
  /\ phase' = "escaped" /\ capture' = FALSE
  /\ UNCHANGED <<Fixed, events, responses, todo, spent, expired, stage, exc, result>>

-----------------------------------------------------------------------------
(* run() begins: the target is consumed, the opening turn is an event. *)
Start ==
  /\ phase = "prepared"
  /\ Goto("stage") /\ capture' = TRUE
  /\ allowed' = MaxTurns
  /\ Log(<<Plain("user_turn")>>)
  /\ UNCHANGED <<Fixed, responses, todo, spent, expired, stages, delivered, stageStart, result>>

BeginStage ==
  /\ phase = "stage"
  /\ stages' = stages + 1
  /\ stageStart' = Len(responses)
  /\ Goto(IF adapter = "custom" THEN "agent" ELSE "turn")
  /\ UNCHANGED <<Fixed, capture, events, responses, todo, spent, expired, allowed, delivered, result>>

\* The runner of the OpenAI Agents SDK stops before a turn over its limit.
RunnerStops ==
  /\ phase = "turn" /\ adapter = "openai" /\ allowed = 0
  /\ Raise("max_turns_exceeded")
  /\ UNCHANGED <<Fixed, capture, events, responses, todo, spent, expired, stage, result>>

\* The request is an event before the budget is asked for it.
Request ==
  /\ phase = "turn" /\ (adapter = "openai" => allowed > 0)
  /\ Log(<<Plain("model_request")>>)
  /\ IF Late THEN Raise("wall_time") /\ spent' = spent
     ELSE IF spent.turns = MaxTurns THEN Raise("model_turns") /\ spent' = spent
     ELSE Goto("requested") /\ spent' = [spent EXCEPT !.turns = @ + 1]
  /\ allowed' = IF adapter = "openai" THEN allowed - 1 ELSE allowed
  /\ UNCHANGED <<Fixed, capture, responses, todo, expired, stages, delivered, stageStart, result>>

ModelFails ==
  /\ phase = "requested"
  /\ Raise("provider")
  /\ UNCHANGED <<Fixed, capture, events, responses, todo, spent, expired, stage, result>>

\* Seeded fault: a total that reaches its limit is over it.
MutUsageRaises(u) ==
  IF u = Unknown THEN {None} \cup {what \in {"wall_time"} : Late}
  ELSE IF Late THEN {"wall_time"}
  ELSE IF spent.tokens + u.tokens >= TokenLimit THEN {"tokens"}
  ELSE IF spent.cost + u.cost > CostLimit /\ adapter = "openai" THEN {"cost_usd"}
  ELSE {None}

\* Adding what a response used: the first total over its limit raises, and
\* what came before it stays counted.  A usage reported without its totals is
\* as unknown as one that is not reported, and asks the clock all the same.
UsageRaises(u) ==
  IF u = Unknown THEN {None} \cup {what \in {"wall_time"} : Late}
  ELSE IF Late THEN {"wall_time"}
  ELSE IF spent.tokens + u.tokens > TokenLimit THEN {"tokens"}
  ELSE IF spent.cost + u.cost > CostLimit /\ adapter = "openai" THEN {"cost_usd"}
  ELSE {None}
SpentAfter(u, raises) ==
  [spent EXCEPT
     !.tokens = IF u = Unknown \/ raises \in {"wall_time", "tokens"}
                THEN @ ELSE @ + u.tokens,
     !.cost = IF u = Unknown \/ raises # None \/ adapter # "openai"
              THEN @ ELSE @ + u.cost]

\* The response is recorded and its calls are planned (planning can raise, on
\* ambiguous fixtures); OpenAI counts the usage after the planning, PydanticAI
\* before it.  An undeclared call stops the OpenAI runner before it runs any
\* call of the response; PydanticAI answers it with a retry prompt.  PydanticAI
\* runs one agent and knows a call by its name; of a target with several agents
\* one may call what only another declares.
Respond ==
  /\ phase = "requested"
  /\ \E calls \in Calls, u \in Usages, planRaises \in BOOLEAN :
     \E raises \in UsageRaises(u) :
       LET Has(kind) == \E i \in DOMAIN calls : calls[i].kind = kind
           planned == planRaises /\ Has("declared")
           reached == adapter = "openai" \/ raises = None
           refused == adapter = "openai" /\ planned
       IN
       /\ adapter = "pydantic" =>
            /\ ~Has("handoff")
            /\ \A i \in DOMAIN calls :
                 calls[i].kind = "undeclared" <=> calls[i].tool \notin ToolNames
       /\ responses' = Append(responses,
            [event |-> Len(events) + 1, stage |-> stages, calls |-> calls, usage |-> u])
       /\ Log(<<Event("model_response", Latest("model_request"), NoCall, <<>>, None)>>)
       /\ spent' = IF refused THEN spent ELSE SpentAfter(u, raises)
       /\ IF planned /\ reached THEN Raise("error")
          ELSE IF raises # None THEN Raise(raises)
          ELSE IF Has("undeclared") /\ adapter = "openai" THEN Raise("model_behavior")
          ELSE Goto("dispatch")
       /\ todo' = DOMAIN calls
  /\ UNCHANGED <<Fixed, capture, expired, stage, result>>

-----------------------------------------------------------------------------
(* The calls of a response. *)

This(i) == <<Len(responses), i>>
Kind(i) == CallAt(This(i)).kind
Handoffs(r) == {c \in Of(r) : KindOf(c) = "handoff"}
First(c) == \A d \in Handoffs(c[1]) : c[2] <= d[2]

\* The calls of a response that came too late are planned as refused; a call
\* that was planned in time is answered even if the clock has run out since.
TooLate(r) == Late /\ responses[r].event >= expired

\* A tool call is attempted and answered: with success, with a timeout that
\* leaves its outcome unknown, or refused for a budget.  The OpenAI invoker
\* answers malformed arguments itself.
Answer ==
  /\ phase = "dispatch"
  /\ \E i \in todo, status \in {"success", "ambiguous_timeout", "invalid", "over_budget"} :
       /\ CASE Kind(i) = "malformed" -> status = Refusal /\ adapter = "openai"
            [] Kind(i) = "declared" ->
                 status # "invalid" /\ (TooLate(Len(responses)) => status = "over_budget")
            [] OTHER -> FALSE
       /\ Log(Evidence(Latest("model_response"), CallAt(This(i)), This(i), status))
       /\ todo' = todo \ {i}
  /\ UNCHANGED <<Fixed, phase, capture, responses, spent, expired, stage, exc, result>>

\* The gateway raises: the attempt gets an error event and no result.
AnswerRaises ==
  /\ phase = "dispatch"
  /\ \E i \in todo :
       /\ Kind(i) = "declared"
       /\ Log(Evidence(Latest("model_response"), CallAt(This(i)), This(i), "raised"))
  /\ Raise("error")
  /\ UNCHANGED <<Fixed, capture, responses, todo, spent, expired, stage, result>>

\* PydanticAI answers these itself, out of the adapter's sight.
RetryPrompt ==
  /\ phase = "dispatch" /\ adapter = "pydantic"
  /\ \E i \in todo :
       /\ Kind(i) \in {"malformed", "undeclared"}
       /\ todo' = todo \ {i}
  /\ UNCHANGED <<Fixed, phase, capture, events, responses, spent, expired, stage, exc, result>>

\* ... and gives up when it has done so too often.
RetriesExhausted ==
  /\ phase = "dispatch" /\ adapter = "pydantic"
  /\ \E i \in todo : Kind(i) \in {"malformed", "undeclared"}
  /\ Raise("model_behavior")
  /\ UNCHANGED <<Fixed, capture, events, responses, todo, spent, expired, stage, result>>

\* After the tools, the runner follows the first handoff and drops the others.
Handoff ==
  /\ phase = "dispatch" /\ todo # {}
  /\ \A i \in todo : Kind(i) = "handoff"
  /\ \E c \in Handoffs(Len(responses)) :
       /\ First(c)
       /\ Log(<<Event("handoff", Latest("model_response"), CallAt(c), c, None)>>)
  /\ todo' = {}
  /\ UNCHANGED <<Fixed, phase, capture, responses, spent, expired, stage, exc, result>>

\* Every call is done: the model is asked again.
NextTurn ==
  /\ phase = "dispatch" /\ todo = {} /\ responses[Len(responses)].calls # <<>>
  /\ Goto("turn")
  /\ UNCHANGED <<Fixed, capture, events, responses, todo, spent, expired, stage, result>>

\* The undeclared calls of the responses after one.
Undeclared(from) == {c \in AllCalls : c[1] > from /\ KindOf(c) = "undeclared"}

\* A response without calls ends the stage; PydanticAI's messages are then
\* searched for the undeclared calls of the stage.
StageReturns ==
  /\ phase = "dispatch" /\ responses[Len(responses)].calls = <<>>
  /\ Goto("staged")
  /\ Log(IF adapter = "pydantic" THEN Blocked(Undeclared(stageStart)) ELSE <<>>)
  /\ UNCHANGED <<Fixed, capture, responses, todo, spent, expired, stage, result>>

\* The output does not fit the declared type, though no call is undeclared.
OutputInvalid ==
  /\ phase = "dispatch" /\ responses[Len(responses)].calls = <<>>
  /\ Raise("model_behavior")
  /\ UNCHANGED <<Fixed, capture, events, responses, todo, spent, expired, stage, result>>

-----------------------------------------------------------------------------
(* A custom agent, which runs its own loop inside a stage. *)

StageCalls == {i \in EventsOf("tool_attempt") : i > Latest("user_turn")}
OverCalls == CallsUsed >= MaxToolCalls
AgentEvidence(call, status) ==
  Evidence(Latest("user_turn"), call, <<>>, status)

\* A call is answered, or refused and the agent handles the refusal.
AgentIsAnswered ==
  /\ phase = "agent" /\ Cardinality(StageCalls) < MaxStageCalls
  /\ \E call \in AgentCalls, status \in {"success", "ambiguous_timeout", "invalid", "over_budget"} :
       /\ Late => status = "over_budget"
       /\ Log(AgentEvidence(call, status))
  /\ UNCHANGED <<Fixed, phase, capture, responses, todo, spent, expired, stage, exc, result>>

\* A refused call raises, and the agent lets it through: the cause of the
\* refusal is the budget it was refused for, if it was a budget.
AgentIsRefused ==
  /\ phase = "agent" /\ Cardinality(StageCalls) < MaxStageCalls
  /\ \E call \in AgentCalls, cause \in {"tool_calls", "retries", "wall_time", "error"} :
       /\ IF Late THEN cause = "wall_time"
          ELSE IF OverCalls THEN cause = "tool_calls"
          ELSE cause # "tool_calls"
       /\ Log(AgentEvidence(call, IF cause = "error" THEN "invalid" ELSE "over_budget"))
       /\ Raise(cause)
  /\ UNCHANGED <<Fixed, capture, responses, todo, spent, expired, stage, result>>

\* The gateway itself raises.
AgentCallRaises ==
  /\ phase = "agent" /\ Cardinality(StageCalls) < MaxStageCalls
  /\ \E call \in AgentCalls : Log(AgentEvidence(call, "raised"))
  /\ Raise("error")
  /\ UNCHANGED <<Fixed, capture, responses, todo, spent, expired, stage, result>>

\* The agent raises, or returns what is not a TurnResult.
AgentFails ==
  /\ phase = "agent"
  /\ Raise("error")
  /\ UNCHANGED <<Fixed, capture, events, responses, todo, spent, expired, stage, result>>

AgentReturns ==
  /\ phase = "agent"
  /\ Goto("staged")
  /\ Log(<<Plain("assistant_output")>>)
  /\ UNCHANGED <<Fixed, capture, responses, todo, spent, expired, stage, result>>

-----------------------------------------------------------------------------
(* Between the stages, and the end. *)

\* Turns used are requests seen, and for a custom agent stages.
Used == IF adapter = "custom" THEN stages ELSE Cardinality(EventsOf("model_request"))

Complete ==
  /\ phase = "staged" /\ delivered = followups
  /\ Goto("closing")
  /\ termination' = "completed" /\ output' = TRUE
  /\ Log(<<Plain("final_output")>>)
  /\ UNCHANGED <<Fixed, capture, responses, todo, spent, expired, stage, latency>>

OutOfTurns ==
  /\ phase = "staged" /\ delivered < followups /\ Used >= MaxTurns
  /\ Goto("closing")
  /\ termination' = "max_model_turns"
  /\ Log(<<Plain("error")>>)
  /\ UNCHANGED <<Fixed, capture, responses, todo, spent, expired, stage, output, latency>>

Deliver ==
  /\ phase = "staged" /\ delivered < followups /\ Used < MaxTurns
  /\ Goto("stage")
  /\ delivered' = delivered + 1
  /\ allowed' = MaxTurns - Used
  /\ Log(<<Plain("user_turn")>>)
  /\ UNCHANGED <<Fixed, capture, responses, todo, spent, expired, stages, stageStart, result>>

OfBudget(resource) ==
  CASE resource = "model_turns" -> "max_model_turns"
    [] resource = "tool_calls"  -> "max_tool_calls"
    [] resource = "tokens"      -> "token_budget"
    [] resource = "cost_usd"    -> "cost_budget"
    [] resource = "wall_time"   -> "wall_clock_timeout"
    [] OTHER                    -> "adapter_error"

\* The calls that ended an OpenAI run with model_behavior are recorded as
\* blocked, and the run then counts as completed.
Rejected == IF adapter = "openai" /\ exc = "model_behavior"
            THEN Undeclared(stageStart) ELSE {}

Handle ==
  /\ phase = "raised"
  /\ phase' = "closing"
  /\ termination' =
       CASE exc = "max_turns_exceeded" -> "max_model_turns"
         [] exc = "cancelled"          -> "cancelled"
         [] exc = "model_behavior" ->
              IF Rejected # {} THEN "completed" ELSE "provider_error"
         [] exc = "provider" ->
              IF adapter = "pydantic" THEN "provider_error" ELSE "adapter_error"
         [] OTHER -> OfBudget(exc)
  /\ Log(Blocked(Rejected) \o <<Plain("error")>>)
  /\ UNCHANGED <<Fixed, capture, responses, todo, spent, expired, stage, exc, output, latency>>

IgnoredEvent(c) ==
  Event("ignored_handoff", responses[c[1]].event, CallAt(c), c, None)
Recorded(calls) == [k \in 1..Cardinality(calls) |-> IgnoredEvent(InOrder(calls)[k])]

\* Seeded fault: the handoff that was followed is recorded as ignored too.
MutIgnoredHandoffs == Recorded({c \in AllCalls : KindOf(c) = "handoff"})

\* The handoffs a response had beside its first are recorded as ignored.
IgnoredHandoffs == Recorded({c \in AllCalls : KindOf(c) = "handoff" /\ ~First(c)})

\* finally, and the CanonicalRun is built.  Its latency is the time of run(),
\* the tracker's clock starts earlier and adds the latencies of the fixtures.
Close ==
  /\ phase = "closing"
  /\ Goto("ended") /\ capture' = FALSE
  /\ Log(IF adapter = "openai" THEN IgnoredHandoffs ELSE <<>>)
  /\ latency' \in {l \in Latencies : l > WallClock => Late}
  /\ UNCHANGED <<Fixed, responses, todo, spent, expired, stage, termination, output>>

\* run() is called again, or code of the target that is still there calls a
\* tool: both raise and leave no trace.
CalledAfterwards ==
  /\ phase \in {"ended", "escaped"} /\ ~capture
  /\ UNCHANGED vars

Next ==
  \/ Tick \/ Cancelled \/ Escapes
  \/ Start \/ BeginStage
  \/ RunnerStops \/ Request \/ ModelFails \/ Respond
  \/ Answer \/ AnswerRaises \/ RetryPrompt \/ RetriesExhausted \/ Handoff
  \/ NextTurn \/ StageReturns \/ OutputInvalid
  \/ AgentIsAnswered \/ AgentIsRefused \/ AgentCallRaises \/ AgentFails \/ AgentReturns
  \/ Complete \/ OutOfTurns \/ Deliver \/ Handle \/ Close
  \/ CalledAfterwards

AdapterRunSpec == Init /\ [][Next]_vars

-----------------------------------------------------------------------------
(* Properties. *)

\* The events that are evidence of a call.
Witness(c) ==
  {i \in DOMAIN events :
     /\ events[i].made = c
     /\ events[i].type \in {"tool_attempt", "handoff", "ignored_handoff"}}
Silent(c) == adapter = "pydantic" /\ KindOf(c) = "malformed"
Observed == adapter # "custom"

\* A run that reached its final output delivered every scripted turn, each in a
\* stage of its own, and has exactly one piece of evidence for every call of
\* every response, whichever of the three places records it: the invoker, the
\* search for blocked calls or the one for ignored handoffs.  The calls
\* PydanticAI answers itself for their arguments have none.  A run that counts
\* as completed without an output was stopped by undeclared calls, and has
\* every one of them on record.
CompletedRunsAreWhole ==
  phase = "ended" /\ termination = "completed" =>
    LET undeclared == {c \in Of(Len(responses)) : KindOf(c) = "undeclared"} IN
    IF output
    THEN /\ delivered = followups /\ stages = followups + 1
         /\ Cardinality(EventsOf("user_turn")) = stages
         /\ \A c \in AllCalls :
              Cardinality(Witness(c)) = IF Silent(c) THEN 0 ELSE 1
    ELSE undeclared # {} /\ \A c \in undeclared : Cardinality(Witness(c)) = 1

-----------------------------------------------------------------------------
(* The verdicts of the evaluator on the runs the adapters record. *)

Evaluated == phase = "ended" /\ termination \notin InfraEnds
Tools == {CallAt(c).tool : c \in {d \in AllCalls : KindOf(d) = "declared"}}
\* The calls of a tool that were attempted, as the model made them.
Made(tool) ==
  {c \in AllCalls : /\ CallAt(c).tool = tool
                    /\ \E i \in Witness(c) : events[i].type = "tool_attempt"}
Alike(c, d) == CallAt(c).tool = CallAt(d).tool /\ CallAt(c).args = CallAt(d).args

\* The rules about what the agent knew when it decided a call judge what the
\* model did, not the order in which calls were run and recorded: calls of one
\* response know nothing of each other, a call of a later response knows every
\* result before it, consent counts from the stage that follows it.
ObservedDecisions ==
  \A t \in Tools :
    /\ NoSameStageDuplicateAction(events, t) =
         IF \E c, d \in Made(t) : c # d /\ c[1] = d[1] /\ Alike(c, d)
         THEN "FAIL" ELSE "PASS"
    /\ \A b \in Tools :
         Ordering(events, t, b) =
           IF \A c \in Made(t) :
                \/ \E d \in Made(b) : d[1] < c[1]
                \/ b = t /\ Made(t) = {c}
           THEN "PASS" ELSE "FAIL"
    /\ HandoffBeforeTool(events, t) = "PASS" <=>
         \A c \in Made(t) : \E r \in 1..(c[1] - 1) : Handoffs(r) # {}
    /\ \A n \in 1..(followups + 1) :
         ConfirmationBeforeTool(events, termination, t, "established", n) = "FAIL" <=>
           \E c \in Made(t) : responses[c[1]].stage < n

\* A custom agent's decisions are not observed: no rule about them passes or
\* fails a run in which two calls would have to be told apart.
UnobservedDecisions ==
  \A a, b \in AgentCalls :
    /\ NoSameStageDuplicateAction(events, a.tool) =
         IF NoDuplicateSideEffect(events, a.tool) = "PASS" THEN "PASS" ELSE "INCONCLUSIVE"
    /\ AttemptsOf(events, a.tool) # {} /\ AttemptsOf(events, b.tool) # {} /\ a.tool # b.tool =>
         Ordering(events, a.tool, b.tool) = "INCONCLUSIVE"

\* Verdicts about decisions are true where the adapter sees the decisions, and
\* are not given where it does not.
DecisionVerdictsAreTrue ==
  Evaluated => IF Observed THEN ObservedDecisions ELSE UnobservedDecisions

\* A repeat the agent decided on after it had seen the timeout is always found,
\* and what is reported is a repeat of such a call.
RetriesAreFound ==
  Evaluated /\ Observed =>
    \A t \in Tools :
      LET unknown(c) == \E i \in Witness(c) : Ambiguous(events, i)
          failed == NoRetryAfterAmbiguousTimeout(events, t) = "FAIL"
      IN  /\ (\E c, d \in Made(t) : Alike(c, d) /\ unknown(c) /\ c[1] < d[1]) => failed
          /\ failed => \E c, d \in Made(t) :
               c # d /\ Alike(c, d) /\ unknown(c) /\ c[1] <= d[1]
          /\ NoRetryAfterAmbiguousTimeout(events, t) # "INCONCLUSIVE"

\* What the run reports as used is all of it, also what the tracker refused to
\* count; one response that does not say leaves the total unknown.
Amount(usage, field) == IF usage = Unknown THEN 0 ELSE usage[field]
Sum(field) ==
  LET upTo[r \in 0..Len(responses)] ==
        IF r = 0 THEN 0 ELSE upTo[r - 1] + Amount(responses[r].usage, field)
  IN  upTo[Len(responses)]
Total(field) ==
  IF ~Observed \/ responses = <<>> \/ \E r \in DOMAIN responses : responses[r].usage = Unknown
  THEN {} ELSE {Sum(field)}
Amounts ==
  [model_turns |-> IF Observed THEN {Cardinality(EventsOf("model_request"))} ELSE {0},
   tool_calls  |-> {Cardinality(EventsOf("tool_attempt"))},
   tokens      |-> Total("tokens"),
   cost_usd    |-> Total("cost"),
   wall_clock_seconds |-> {latency}]
Limits ==
  [model_turns |-> MaxTurns, tool_calls |-> MaxToolCalls,
   tokens |-> TokenLimit, cost_usd |-> CostLimit, wall_clock_seconds |-> WallClock]

\* Nothing the run asked for after its time was over was given to it: the model
\* was not asked, its usage not counted, and every call refused but those that
\* had been planned before.
NothingGivenLate ==
  /\ \A i \in EventsOf("model_request") : i < expired
  /\ \A r \in DOMAIN responses : responses[r].usage # Unknown => responses[r].event < expired
  /\ \A i \in EventsOf("tool_result") :
       expired <= i /\ events[i].status # "over_budget" =>
         /\ Observed /\ KindOf(events[i].made) = "declared"
         /\ responses[events[i].made[1]].event < expired

\* The evaluator, which adds up the record, and the tracker, which ended the
\* run, agree on every budget but the clock: a total over its limit did end the
\* run or was refused a call, except for the cost PydanticAI does not count;
\* and what ended the run is over its limit where the record tells.  The
\* tracker reads the clock only when something is asked of it, so a run can
\* complete and be failed for its time: then nothing it asked for afterwards
\* was given to it.
BudgetVerdictsAgree ==
  Evaluated =>
    LET over == Exceeded(Amounts, Limits)
        refused == \E i \in DOMAIN events : events[i].status = "over_budget"
    IN  /\ "model_turns" \in over => termination = "max_model_turns"
        /\ "tool_calls" \in over => refused
        /\ "tokens" \in over => termination = "token_budget"
        /\ "cost_usd" \in over => termination \in {"token_budget", "cost_budget"} \/ adapter = "pydantic"
        /\ "wall_clock_seconds" \in over => NothingGivenLate
        /\ termination = "token_budget" => "tokens" \in over \/ Amounts.tokens = {}
        /\ termination = "cost_budget" => "cost_usd" \in over \/ Amounts.cost_usd = {}
        /\ termination = "max_tool_calls" => "tool_calls" \in over
=============================================================================

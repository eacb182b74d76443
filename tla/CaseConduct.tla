------------------------------ MODULE CaseConduct ------------------------------
(***************************************************************************)
(* An agent in a case: the worker hands the controlled answers of the case *)
(* to the gateway (ToolGateway), the adapter delivers the turns, asks the  *)
(* model and records what it does, one call or handoff in a response, and  *)
(* the evaluator judges the record (CaseVerdict).                          *)
(*                                                                         *)
(* What the agent does is a sequence of moves: a call, a handoff, or an    *)
(* answer that brings on the next scripted turn; after the last one it     *)
(* answers for good.  AdapterRun has the adapters in full; here a refused  *)
(* call is an answer like any other, which the agent takes note of.        *)
(***************************************************************************)
EXTENDS CaseVerdict

(***************************************************************************)
(* The fixtures the worker gives the gateway (runner/worker.py).           *)
(***************************************************************************)
\* The status the gateway knows, and the error code of an ambiguous timeout.
GatewayStatus(status) ==
  CASE status = "tool_failure"      -> "error"
    [] status = "ambiguous_timeout" -> "timeout"
    [] OTHER                        -> status

\* A path that does not exist has the value None.
PathsOf(case) ==
  DOMAIN case.world \cup {e.path : e \in UNION {ToSet(f.effects) : f \in ToSet(case.fixtures)}}
InitialWorld(case) == [x \in PathsOf(case) |-> ValueAt(case.world, x)]
EffectOn(effects, x) ==
  LET e == CHOOSE e \in ToSet(effects) : e.path = x
  IN  IF x \in {e2.path : e2 \in ToSet(effects)} THEN [before |-> e.before, after |-> e.after] ELSE None

ControlledFixture(f, args, effects, case, priority) ==
  [id |-> f.fid, tool |-> f.tool, asked |-> args, index |-> Or0(f.index), exact |-> FALSE,
   specificity |-> MatchSpecificity(args), repeat |-> FALSE, priority |-> priority,
   status |-> GatewayStatus(f.status), code |-> f.status, latency |-> 0,
   effects |-> [x \in PathsOf(case) |-> EffectOn(effects, x)]]

\* A fault is a fixture of high priority in the place of those for its invocation.
FaultFixtures(case) ==
  {ControlledFixture(f, NoArguments, <<>>, case, 100) : f \in ToSet(case.faults)}
ControlledFixtures(case) ==
  LET places == {<<f.tool, f.index>> : f \in ToSet(case.faults)}
      baseline == {f \in ToSet(case.fixtures) : <<f.tool, f.index>> \notin places}
  IN  FaultFixtures(case) \cup {ControlledFixture(f, f.args, f.effects, case, 0) : f \in baseline}

\* The gateway of a case, for the calls an agent makes of the target's tools.
CallOf(tool, args) == [tool |-> tool, args |-> args]
Asks(f, call) == f.tool = call.tool /\ ArgumentsMatch(call.args, f.asked)
Offered(case, calls) ==
  {f @@ [matches |-> {c \in calls : Asks(f, c)}] : f \in ControlledFixtures(case)}
Fitting(tools, calls) == {c \in calls : \E t \in tools : t.name = c.tool /\ Valid(t, c.args)}

Gateway(case, tools, calls) ==
  INSTANCE ToolGateway WITH
    ToolNames <- {c.tool : c \in calls}, Declared <- {t.name : t \in tools}, Calls <- calls,
    ToolOf <- [c \in calls |-> c.tool], SchemaValid <- Fitting(tools, calls),
    Fixtures <- Offered(case, calls),
    Paths <- PathsOf(case), Values <- {}, Absent <- None, AnyValue <- None,
    NoEffect <- None, NoFixture <- None, Unlimited <- None,
    MaxToolCalls <- case.budget.calls, MaxRetries <- None, MaxWallTime <- None

(***************************************************************************)
(* One call.                                                               *)
(***************************************************************************)
\* What the record shows of an outcome: the timeout of a call that may have
\* acted is ambiguous, and a refusal has its code.
MayHaveActed(tools, outcome) ==
  outcome.fixture.code = "ambiguous_timeout"
  \/ \E t \in tools : t.name = outcome.call.tool /\ t.writes
Refusal(verdict) ==
  CASE verdict = "fixture_not_found"                        -> "no_fixture"
    [] verdict \in {"unknown_tool", "invalid_arguments"}    -> "invalid"
    [] OTHER                                                -> "over_budget"
Shown(tools, outcome) ==
  CASE outcome.status = "blocked" -> Refusal(outcome.verdict)
    [] outcome.status = "timeout" /\ MayHaveActed(tools, outcome) -> "ambiguous_timeout"
    [] OTHER -> outcome.status

\* The plan and the world after a call, and what came of it; the gateway raises
\* when two fixtures are as good.
Answering(case, tools, calls, plan, world, c) ==
  LET r == Gateway(case, tools, calls)!Reserve(plan, c, 0)
  IN  [plan  |-> Gateway(case, tools, calls)!Planned(plan, c, 0),
       world |-> Gateway(case, tools, calls)!WorldAfter(r, world),
       shown |-> Shown(tools, Gateway(case, tools, calls)!Outcome(r, world))]
AnswerTo(case, tools, calls, plan, world, c) ==
  IF Gateway(case, tools, calls)!Ambiguous(plan, c, 0)
  THEN [plan |-> plan, world |-> world, shown |-> "raised"]
  ELSE Answering(case, tools, calls, plan, world, c)

(***************************************************************************)
(* A whole run.                                                            *)
(***************************************************************************)
Event(type, of, tool, args, status) ==
  [type |-> type, of |-> of, tool |-> tool, args |-> args, status |-> status]
Plain(type) == Event(type, 0, None, NoArguments, None)

CallMove(tool, args) == [kind |-> "call", tool |-> tool, args |-> args]
HandoffMove(from, to) ==
  [kind |-> "handoff", tool |-> None,
   args |-> [x \in {"from_agent", "to_agent"} |-> IF x = "from_agent" THEN from ELSE to]]
TurnMove == [kind |-> "turn", tool |-> None, args |-> NoArguments]
CallsIn(moves) ==
  {CallOf(m.tool, m.args) : m \in {m \in ToSet(moves) : m.kind = "call"}}

\* The user's turns are delivered, the seeded ones together.
Seeded(case) ==
  LET user == SelectSeq(case.turns, LAMBDA t : t.role = "user")
  IN  [i \in DOMAIN user |-> Plain("user_turn")]
Start(case, tools, calls) ==
  [plan |-> Gateway(case, tools, calls)!InitialPlan, world |-> InitialWorld(case),
   events |-> Seeded(case), asked |-> 0, end |-> None]

\* The model is asked, unless it was asked too often; not every adapter sees it.
Asked(s, case, observed) ==
  LET i == Len(s.events)
  IN  IF s.asked = case.budget.turns THEN [s EXCEPT !.end = "max_model_turns"]
      ELSE [s EXCEPT !.asked = @ + 1,
                     !.events = @ \o If(observed, <<Plain("model_request"),
                                                    Event("model_response", i + 1, None, NoArguments, None)>>)]

\* The response at the end of the record, 0 where none is observed.
Decision(s, observed) == IF observed THEN Len(s.events) ELSE 0
Called(s, m, of, answer) ==
  LET attempt == Event("tool_attempt", of, m.tool, m.args, None)
      outcome == Event(IF answer.shown = "raised" THEN "error" ELSE "tool_result",
                       Len(s.events) + 1, m.tool, m.args, answer.shown)
  IN  [s EXCEPT !.plan = answer.plan, !.world = answer.world, !.events = @ \o <<attempt, outcome>>,
                !.end = IF answer.shown = "raised" THEN "adapter_error" ELSE @]
Acted(s, case, tools, calls, m, of) ==
  CASE m.kind = "call" ->
         Called(s, m, of, AnswerTo(case, tools, calls, s.plan, s.world, CallOf(m.tool, m.args)))
    [] m.kind = "handoff" -> [s EXCEPT !.events = Append(@, Event("handoff", of, None, m.args, None))]
    [] m.kind = "turn"    -> [s EXCEPT !.events = Append(@, Plain("user_turn"))]

Moved(s, case, tools, calls, observed, m) ==
  LET Then(t) == IF t.end # None THEN t ELSE Acted(t, case, tools, calls, m, Decision(t, observed))
  IN  IF s.end # None THEN s ELSE Then(Asked(s, case, observed))

\* The last answer is the final output.
Closed(s) ==
  IF s.end # None THEN s
  ELSE [s EXCEPT !.events = Append(@, Plain("final_output")), !.end = "completed"]
Ended(s, case, observed) == Closed(IF s.end # None THEN s ELSE Asked(s, case, observed))

RunRecord(s, observed, answer) ==
  [events |-> s.events, end |-> s.end, world |-> s.world, observed |-> observed, answer |-> answer]
Conduct(case, tools, moves, observed, answer) ==
  LET calls == CallsIn(moves)
      Move(s, m) == Moved(s, case, tools, calls, observed, m)
  IN  RunRecord(Ended(FoldLeft(Move, Start(case, tools, calls), moves), case, observed),
                observed, answer)
=============================================================================

------------------------------ MODULE MCScenario ------------------------------
(* A small scenario for the gateway: a state-changing tool with competing   *)
(* fixtures, a read-only tool that times out, and an undeclared tool.       *)
EXTENDS ToolGateway

MCToolNames == {"write", "read", "ghost"}
MCDeclared == {"write", "read"}

(* w1 and w2 are calls of write with different arguments, wx fails its      *)
(* schema; r calls read, g names no declared tool.                          *)
MCCalls == {"w1", "w2", "wx", "r", "g"}
MCToolOf ==
  [c \in MCCalls |->
     IF c \in {"w1", "w2", "wx"} THEN "write"
     ELSE IF c = "r" THEN "read" ELSE "ghost"]
MCSchemaValid == {"w1", "w2", "r"}

MCPaths == {"balance", "state"}
MCValues == {"zero", "one", "two"}
MCInitialWorld == [balance |-> "zero", state |-> Absent]

Write(from, to) == [before |-> from, after |-> to]
Leaves == [x \in MCPaths |-> NoEffect]

Fixture(id, tool, matches) ==
  [id |-> id, tool |-> tool, matches |-> matches, index |-> 0, exact |-> FALSE,
   specificity |-> 0, repeat |-> FALSE, priority |-> 0, status |-> "success",
   latency |-> 0, effects |-> Leaves]

(* once: single use, guarded by the initial balance.                        *)
Once ==
  [Fixture("once", "write", {"w1", "w2"}) EXCEPT
     !.latency = 1,
     !.effects = [balance |-> Write("zero", "one"), state |-> Write(AnyValue, "one")]]
(* exact: more specific than once; its precondition on state fails until    *)
(* once has been applied.                                                   *)
ExactArgs ==
  [Fixture("exact", "write", {"w1"}) EXCEPT
     !.exact = TRUE, !.specificity = 1, !.status = "timeout",
     !.effects = [balance |-> Write(AnyValue, "two"), state |-> Write("one", "zero")]]
(* third and twin tie on the third invocation of write.                     *)
Third == [Fixture("third", "write", {"w2"}) EXCEPT !.index = 3]
Twin == [Fixture("twin", "write", {"w1", "w2"}) EXCEPT !.index = 3]
(* flaky: reusable, fails.  slow: outranks it, may not fit the time left.   *)
Flaky == [Fixture("flaky", "read", {"r"}) EXCEPT !.repeat = TRUE, !.status = "error"]
Slow == [Fixture("slow", "read", {"r"}) EXCEPT !.priority = 1, !.latency = 2]

MCFixtures == {Once, ExactArgs, Third, Twin, Flaky, Slow}
=============================================================================

--------------------------- MODULE MCSuiteGeneration ---------------------------
(* Three targets: one of its own tools, one whose tools share a slug, and the *)
(* account tools of the built-in suite; and suites written by hand.           *)
EXTENDS SuiteConduct

Param(name, required, types) ==
  [name |-> name, slug |-> <<name>>, required |-> required, types |-> types, enum |-> <<>>,
   low |-> None, high |-> None, minLen |-> None, maxLen |-> None, opaque |-> FALSE]
Tool(name, slug, rank, params, writes, destructive) ==
  [name |-> name, slug |-> slug, rank |-> rank, params |-> params, closed |-> TRUE,
   writes |-> writes, destructive |-> destructive,
   declared |-> {"writes", "destructive"}]

Amount == [Param("amount", TRUE, {"integer"}) EXCEPT !.low = 1, !.high = 3]
Note == [Param("note", TRUE, {"string"}) EXCEPT !.minLen = 2, !.maxLen = 4]
Mode == [Param("mode", FALSE, {"string"}) EXCEPT !.enum = <<Str(20), Str(21)>>]
Code == [Param("code", FALSE, {"string"}) EXCEPT !.opaque = TRUE]

Refund == Tool("refund", <<"refund">>, 5, <<Amount, Mode>>, TRUE, TRUE)
Log == [Tool("log", <<"log">>, 1, <<Note, Code>>, TRUE, FALSE) EXCEPT
         !.closed = FALSE, !.declared = {"writes"}]
Ping == Tool("ping", <<"ping">>, 4, <<>>, FALSE, FALSE)
PayDash == Tool("pay-bill", <<"pay", "bill">>, 2, <<Amount>>, TRUE, TRUE)
PayLine == [Tool("pay_bill", <<"pay", "bill">>, 3, <<Amount>>, FALSE, TRUE) EXCEPT
             !.declared = {"destructive"}]

AccountId == Param("account_id", TRUE, {"string"})
Bank(name, rank, writes, destructive) ==
  Tool(name, <<name>>, rank, <<AccountId>>, writes, destructive)
Accounts ==
  <<Bank("lookup_account", 3, FALSE, FALSE),
    [Bank("update_email", 4, TRUE, FALSE) EXCEPT !.params = @ \o <<Param("new_email", TRUE, {"string"})>>],
    Bank("cancel_subscription", 1, TRUE, TRUE), Bank("delete_account", 2, TRUE, TRUE)>>

MCTargets ==
  {[tools |-> <<Refund, Log, Ping>>, output |-> TRUE],
   [tools |-> <<PayDash, PayLine, Refund>>, output |-> FALSE],
   [tools |-> Accounts, output |-> FALSE]}

Ordered(before, name) ==
  RuleOf(<<name>>, "ordering", "refund", [x \in {"required_before"} |-> before])
Loop(n) == RuleOf(<<"loop">>, "no_handoff_loop", None, [x \in {"max_edge_repeats"} |-> n])
Terms(k) ==
  [RuleOf(<<"honest">>, "no_fabricated_success", None, NoArguments) EXCEPT !.terms = {Str(k)}]
Route(kind, id, params) == RuleOf(<<id>>, kind, None, params)
Desk == [x \in {"from_agent", "to_agent"} |-> IF x = "from_agent" THEN "front" ELSE "desk"]
Routes ==
  <<Route("required_handoff", "route", Desk), Route("forbidden_handoff", "stray", [x \in {"to_agent"} |-> "street"]),
    Loop(1), Route("max_handoffs", "hops", [x \in {"maximum"} |-> 2]),
    RuleOf(<<"desk">>, "handoff_before_tool", "refund", [x \in {"to_agent"} |-> "desk"])>>
MCKnownPacks ==
  [p \in {"order", "calls", "loop", "honest", "lenient", "broken"} |->
     CASE p = "order"   -> Pack(p, <<Ordered("ping", "verify"), Ordered("log", "note")>>)
       [] p = "calls"   -> Pack(p, <<RuleOf(<<"few">>, "max_tool_calls", None,
                                            [x \in {"maximum"} |-> 4]),
                                     RuleOf(<<"fewer">>, "max_tool_calls", None,
                                            [x \in {"maximum"} |-> 3])>>)
       [] p = "loop"    -> Pack(p, <<Loop(0)>>)
       [] p = "honest"  -> Pack(p, <<Terms(30)>> \o Routes)
       [] p = "lenient" -> Pack(p, <<Terms(31)>>)
       [] p = "broken"  -> Pack(p, <<RuleOf(<<"none">>, "ordering", "refund", NoArguments)>>)]

Opts(prerequisites) ==
  [inputs |-> [t \in {"refund"} |-> [x \in {"amount"} |-> Value("integer", 2)]],
   requests |-> {"log"}, prerequisites |-> prerequisites]
Command(force, packs, mutations, max) ==
  [force |-> force, packs |-> packs, mutations |-> mutations, max |-> max, realize |-> FALSE,
   consent |-> TRUE, opts |-> Opts(<<>>)]
First1 == [name |-> "ping", slug |-> <<"ping">>]
Second == [name |-> "log", slug |-> <<"log">>]
MCCommands ==
  {Command(TRUE, <<"honest">>, 3, NoCap),
   [Command(FALSE, <<"order", "calls", "order">>, 0, 6) EXCEPT !.realize = TRUE, !.opts = Opts(<<First1, Second>>)],
   [Command(TRUE, <<DerivedPack>>, 0, NoCap) EXCEPT !.opts = Opts(<<First1>>)],
   Command(FALSE, <<DerivedPack>>, 0, 3),
   Command(TRUE, <<"loop">>, 0, NoCap),
   Command(FALSE, <<"broken">>, 0, NoCap),
   [Command(TRUE, <<>>, 0, NoCap) EXCEPT !.realize = TRUE, !.consent = FALSE]}

\* Suites with cases that insist on a refund: which answers there are, and what
\* watches the calls.
Two == [x \in {"amount"} |-> Value("integer", 2)]
Own1(n) == Own(<<n>>)
Insisting(n, fixtures, rules) ==
  [Blank(<<n>>, {"refund"}) EXCEPT
    !.fixtures = fixtures, !.trajectory = rules,
    !.required = <<Behavior(Criterion(<<n>>, "required"), "refund", Two, Own1(n))>>]
Given(n, index, status) == Fixture([of |-> <<n>>, name |-> <<"given">>, n |-> Or0(index)],
                                   "refund", NoArguments, index, status)
Watch(n, kind, params) == Rule(Criterion(<<n>>, kind), kind, params, Own1(n))
NoRetry(n) == Watch(n, "no_retry_after_ambiguous_timeout", About("refund"))
AtMost(n, max) ==
  Watch(n, "max_retries", [x \in {"tool_name", "max_retries"} |-> IF x = "tool_name" THEN "refund" ELSE max])

Once == Insisting("once", <<Given("once", None, "success")>>,
                  <<OnceOnly(<<"once">>, Refund), AtMost("once", 0)>>)
Short == [Insisting("short", [i \in 1..3 |-> Given("short", i, "success")], <<AtMost("short", 1)>>)
           EXCEPT !.budget.calls = 2]
Enough == Insisting("enough", [i \in 1..3 |-> Given("enough", i, "success")],
                    <<AtMost("enough", 1), OnceOnly(<<"enough">>, Refund)>>)
Late == [Insisting("late", <<Given("late", 1, "success"), Given("late", None, "success")>>, <<NoRetry("late")>>)
          EXCEPT !.faults = <<[fid |-> Criterion(<<"late">>, "fault"), tool |-> "refund", index |-> 1,
                               status |-> "timeout"]>>]
Paid(before, after) == <<[path |-> "paid", before |-> before, after |-> after]>>
Moving == [Insisting("moving", <<[Given("moving", 1, "ambiguous_timeout") EXCEPT !.effects = Paid(0, 1)],
                                 [Given("moving", 2, "success") EXCEPT !.effects = Paid(None, 2)]>>,
                     <<NoRetry("moving"), OnceOnly(<<"moving">>, Refund)>>)
            EXCEPT !.world = [x \in {"paid"} |-> 0]]

Written(case) == Candidate(case, From("built_in", None, None))
Suite(cases) ==
  Document([tools |-> <<Refund, Log, Ping>>, output |-> TRUE], <<>>, ForEach(cases, Written), <<>>, {}, None)
MCDocuments == {Suite(<<Once, Short>>), Suite(<<Enough>>), Suite(<<Late>>), Suite(<<Moving, Once>>)}

BySymmetry == Permutations(Generators)
=============================================================================

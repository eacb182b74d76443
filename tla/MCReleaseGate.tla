---------------------------- MODULE MCReleaseGate ----------------------------
(* Two runs of a small suite that is changed between them. *)
EXTENDS ReleaseGate

CONSTANTS agent, other, d1, d2, d3, risk

Unit(id, print, dims, mandatory, shows) ==
  [id |-> id, print |-> print, dims |-> dims, mandatory |-> mandatory,
   shows |-> shows]
Suite(pool, max, select, spec) ==
  [pool |-> pool, max |-> max, select |-> select, spec |-> spec]

MCSuites ==
  LET a == Unit(1, 1, {d1, d2}, FALSE, {risk})
      b == Unit(2, 2, {d2, d3}, FALSE, {})
      c == Unit(3, 3, {d3}, TRUE, {})
      d == Unit(4, 3, {d3}, FALSE, {})
      twin == Unit(1, 5, {d2, d3}, FALSE, {})
      \* a's behaviour under b's id, and a with another behaviour
      renamed == Unit(2, 1, {d1, d2}, FALSE, {risk})
      changed == Unit(1, 4, {d1, d2}, FALSE, {})
  IN  {Suite(<<a, b>>, NoCap, FALSE, agent),
       Suite(<<renamed, changed>>, NoCap, FALSE, agent),
       Suite(<<b, c, a>>, 2, TRUE, agent),
       Suite(<<b, twin>>, NoCap, TRUE, agent),
       Suite(<<c, d>>, NoCap, FALSE, agent),
       Suite(<<c, d>>, 1, TRUE, other)}

Seen(end, gap, results) == [end |-> end, gap |-> gap, results |-> results]
MCObservations ==
  {Seen("completed", FALSE, {Assertion(<<"refund", 0>>, "PASS", TRUE, TRUE),
                             Assertion(<<"turns", 0>>, "INCONCLUSIVE", FALSE, TRUE)}),
   Seen("completed", FALSE, {Assertion(<<"refund", 0>>, "FAIL", TRUE, TRUE)}),
   Seen("max_tool_calls", FALSE, {Assertion(<<"refund", 0>>, "FAIL", TRUE, TRUE)}),
   Seen("completed", FALSE, {Assertion(<<"schema", 0>>, "FAIL", TRUE, TRUE)}),
   Seen("completed", FALSE, {Assertion(<<"refund", 0>>, "FAIL", TRUE, FALSE)}),
   Seen("provider_error", FALSE, {})}
=============================================================================

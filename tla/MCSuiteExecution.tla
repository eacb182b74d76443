-------------------------- MODULE MCSuiteExecution --------------------------
(* A run of a suite, a replay of it, a shrink and a report, on a target    *)
(* that is edited while they run.                                          *)
EXTENDS SuiteExecution, TLC

CONSTANTS s1, s2, s3, agent, other, c1, c2, c3, small

\* s1 and s2 look the same to an inspection, s3 does not.
MCSpecOf == (s1 :> agent) @@ (s2 :> agent) @@ (s3 :> other)
\* An edit may be reverted.
MCEdits == (s1 :> {s2, s3}) @@ (s2 :> {s1}) @@ (s3 :> {})
MCClean == (agent :> {c1, c2, c3, small}) @@ (other :> {c1, small})
MCSmaller == [c \in Scenario |-> small]
\* The run of the suite, its replay, the shrink and its verification.
RunA == 1
RunB == 2
RunS == 3
MCVerifyId == [r \in 1..4 |-> 4]

Cmd(kind, run, from, suite, frozen, select) ==
  [kind |-> kind, run |-> run, from |-> from, suite |-> suite,
   frozen |-> frozen, select |-> select]
TestFrozen == Cmd("test", RunA, None, <<c1, c2>>, TRUE, FALSE)
TestSelected == Cmd("test", RunA, None, <<c1, c3>>, FALSE, TRUE)
ReplayA == Cmd("replay", RunB, RunA, <<>>, FALSE, FALSE)
ShrinkA == Cmd("shrink", RunS, RunA, <<>>, FALSE, FALSE)
ReportLatest == Cmd("report", None, None, <<>>, FALSE, FALSE)
MCCommand == {TestFrozen, TestSelected, ReplayA, ShrinkA, ReportLatest}
=============================================================================

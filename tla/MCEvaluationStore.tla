-------------------------- MODULE MCEvaluationStore --------------------------
(* Two processes and a new, an unmigrated, an old and a newer store; two   *)
(* runs, one of them recorded by both with other results.                  *)
EXTENDS EvaluationStore, TLC

CONSTANTS p, q, first, a, b

Rec(run, key, prints, at) == [run |-> run, key |-> key, prints |-> prints, at |-> at]
RunOne == Rec(1, 1, {p, q}, 2)
RunOneAgain == Rec(1, 2, {p}, 1)
RunTwo == Rec(2, 1, {q}, 1)
RunOld == Rec(3, 1, {p}, 0)
MCRecord == {RunOne, RunOneAgain, RunTwo, RunOld}

Op(kind, record, review) == [kind |-> kind, record |-> record, review |-> review]
MCOperation ==
  {Op("record", d, None) : d \in {RunOne, RunOneAgain, RunTwo}} \cup
  {Op("review", None, first), Op("load", None, None),
   Op("read", None, None), Op("list", None, None)}

\* A store of version v with a run of an earlier release in it.
Old(v) ==
  [version |-> v, applied |-> [i \in 1..v |-> i],
   rows |-> [r \in RunId |-> IF r = 3 THEN RunOld ELSE None],
   prints |-> [r \in RunId |-> IF r = 3 THEN {p} ELSE {}], reviews |-> {}]
MCStores == {None, EmptyStore, Old(1), Old(CurrentVersion + 1)}
=============================================================================

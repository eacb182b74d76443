------------------------------ MODULE RunIndex ------------------------------
(***************************************************************************)
(* What the evaluation store promises its users (the EvaluationStore       *)
(* protocol of store/sqlite.py): an index of runs in which a run, once it  *)
(* is there, stays as it was recorded.                                     *)
(***************************************************************************)
CONSTANTS RunId, Record, None

VARIABLE indexed   \* [RunId -> the record of the run, or None]

Init == indexed \in [RunId -> Record \cup {None}]

\* Recording a run that is there changes nothing, with other data it fails.
Insert(run, record) ==
  /\ indexed[run] = None
  /\ indexed' = [indexed EXCEPT ![run] = record]

Next == \E run \in RunId, record \in Record : Insert(run, record)
Spec == Init /\ [][Next]_indexed
=============================================================================

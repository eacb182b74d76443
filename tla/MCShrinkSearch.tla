---------------------------- MODULE MCShrinkSearch ----------------------------
(* ShrinkSearch on a scenario of two turns, three fixtures and two criteria.  *)
EXTENDS ShrinkSearch

MCDims == <<"turns", "fixtures", "criteria">>
MCItems == [turns |-> {1, 2}, fixtures |-> {1, 2, 3}, criteria |-> {1, 2}]
MCProtected == [turns |-> {}, fixtures |-> {}, criteria |-> {1}]
MCMinKeep == [turns |-> 1, fixtures |-> 0, criteria |-> 0]

(* The second criterion needs a fixture: the last fixture can only go in a  *)
(* sweep after the one that deletes the criterion.                          *)
MCUnrunnable == {s \in Scenarios : s.fixtures = {} /\ s.criteria # {1}}
=============================================================================

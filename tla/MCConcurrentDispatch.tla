------------------------- MODULE MCConcurrentDispatch -------------------------
(* ConcurrentDispatch over the scenario of MCScenario.                      *)
EXTENDS ConcurrentDispatch, MCScenario

Item(id, call, kind) == [id |-> id, call |-> call, kind |-> kind]

Ids == <<"id1", "id2", "id3">>

(* Batches of two and three plannable calls under distinct ids.             *)
DistinctBatches ==
  UNION {{[k \in 1..n |-> Item(Ids[k], cs[k], "known")] :
            cs \in [1..n -> {"w1", "w2", "r"}]} : n \in 2..3}

(* A model that uses one id for several calls.                              *)
CollidingBatches ==
  {[k \in 1..3 |-> Item(ids[k], cs[k], "known")] :
     ids \in {<<"id1", "id1", "id2">>, <<"id1", "id2", "id1">>,
              <<"id2", "id1", "id1">>},
     cs \in {<<"w1", "w2", "r">>, <<"w2", "r", "w1">>, <<"r", "w2", "w2">>}}

(* Batches in which the adapter refuses some calls itself.                  *)
MixedItems(id) ==
  {Item(id, "w1", "known"), Item(id, "r", "known"), Item(id, "wx", "malformed"),
   Item(id, "g", "unknown")}
MixedBatches ==
  {<<a, b, c>> : a \in MixedItems("id1"), b \in MixedItems("id2"),
                 c \in MixedItems("id3")}

IrregularBatches == CollidingBatches \cup MixedBatches
AllBatches == DistinctBatches \cup IrregularBatches
=============================================================================

---------------------------- MODULE MCPrefetcher ----------------------------
EXTENDS Prefetcher, TLC

(* One job per iteration, for every layer: the modes that predict at the end of a token. *)
PerIteration == [t \in 0 .. NumLayer |-> IF t = NumLayer THEN <<0, NumLayer>> ELSE <<0, 0>>]
(* build_predict_layer_mapping with interval 1, window 2, one layer from layer 0. *)
PerLayer == [t \in 0 .. NumLayer |->
  CASE t = 0 -> <<0, 1>> [] t = NumLayer -> <<0, 0>>
    [] OTHER -> IF t = 1 THEN <<1, IF NumLayer < 3 THEN NumLayer ELSE 3>>
           ELSE <<t + 1, IF t + 2 > NumLayer THEN NumLayer ELSE t + 2>>]

OneBuffer == [s \in Slot |-> 1]
TwoBuffers == [s \in Slot |-> 2]
PredictOne == [l \in Layer |-> 1]
PredictTwo == [l \in Layer |-> 2]
TwoThenOne == [s \in Slot |-> IF s = 0 THEN 2 ELSE 1]
(* Both ways to split an iteration leave no layer out. *)
ASSUME RangesInOrder == InOrder

ExpertSymmetry == Permutations(ExpertIdx)
=============================================================================

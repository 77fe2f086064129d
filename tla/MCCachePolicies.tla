-------------------------- MODULE MCCachePolicies --------------------------
EXTENDS CachePolicies

(* A job at the end of each iteration predicts every layer. *)
PerIteration == [t \in 0 .. NumLayer |-> IF t = NumLayer THEN <<0, NumLayer>> ELSE <<0, 0>>]
(* Room for two experts that a layer activates and one that is predicted, of the second layer:
   limit_layer_0_num_predict is 0. *)
ThreeBuffers == [s \in Slot |-> 3]
PredictOne == [l \in Layer |-> IF l = 0 THEN 0 ELSE 1]
ExpertSymmetry == Permutations(ExpertIdx)
=============================================================================

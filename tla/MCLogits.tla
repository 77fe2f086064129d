------------------------------ MODULE MCLogits ------------------------------
EXTENDS Logits, PredictMapping

(* Every layer predicts the next two, and the output of an iteration the first one. *)
Meta == [num_layer |-> NumLayer, interval |-> 1, window |-> 2, first_window |-> 1,
         replace_first |-> TRUE]
MappedLayers == Mapping(Meta)
(* The mapping leaves no layer out. *)
ASSUME RangesInOrder == OnceInOrder(PredictRange, NumLayer)

OneBuffer == [s \in Slot |-> 1]
PredictOne == [x \in Layer |-> 1]
=============================================================================

------------------------------ MODULE MCHistory ------------------------------
EXTENDS History, TLC

(* on_one_iter_done: a job at the end of each iteration predicts every layer. *)
PerIteration == [t \in 0 .. NumLayer |-> IF t = NumLayer THEN <<0, NumLayer>> ELSE <<0, 0>>]
TwoBuffers == [s \in Slot |-> 2]
PredictNone == [x \in Layer |-> 0]
ExpertSymmetry == Permutations(ExpertIdx)
=============================================================================

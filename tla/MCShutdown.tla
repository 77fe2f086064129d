---------------------------- MODULE MCShutdown ----------------------------
EXTENDS Shutdown

(* A job at the end of each iteration predicts every layer. *)
PerIteration == [t \in 0 .. NumLayer |-> IF t = NumLayer THEN <<0, NumLayer>> ELSE <<0, 0>>]
OneBuffer == [s \in Slot |-> 1]
PredictOne == [l \in Layer |-> 1]
=============================================================================

--------------------------- MODULE PredictMapping ---------------------------
(***************************************************************************)
(* build_predict_layer_mapping (predictor.cpp): which layers are predicted *)
(* from the logits that enter each layer, or that leave the last one.      *)
(*                                                                         *)
(* m is the part of ModuleMeta it reads: num_layer, interval and window    *)
(* (layer_predict_interval, layer_predict_max_window), first_window        *)
(* (limit_layer_0_window) and replace_first                                *)
(* (layer_predict_replace_first_input_with_last_output).                   *)
(***************************************************************************)
EXTENDS Integers, FiniteSetsExt

(* The first layer may have a window of its own; -1 is no limit. *)
FirstWindow(m) == IF m.first_window # -1 THEN m.first_window ELSE m.window

Window(m, l) == IF l = 0 THEN FirstWindow(m) ELSE m.window

Predicting(m, l) == l \in 0 .. (m.num_layer - 1) /\ l % m.interval = 0

Stop(m, l) == Min({l + Window(m, l), m.num_layer})

(* What the first loop writes into predict_layers[l]: the end of the last prediction. *)
Written(m, l) ==
  IF Predicting(m, l - 1) THEN Stop(m, l - 1)
  ELSE IF Predicting(m, l) /\ l # 0 THEN Stop(m, l - m.interval) ELSE 0

(* Mutation of PredictLayers: the second loop left out. *)
PredictLayersWritten(m, l) == Written(m, l)

(* The second loop: layers between two predictions inherit the end of the last one. *)
PredictLayers(m, l) == Max({Written(m, k) : k \in 0 .. l})

(* The index under which the logits before layer 0 are recorded. *)
FirstInput(m) == IF m.replace_first THEN m.num_layer ELSE 0

(* t -> the layers <<first, stop>> predicted from the logits recorded under index t. *)
Mapping(m) ==
  [t \in 0 .. m.num_layer |->
     IF t = FirstInput(m) THEN <<0, PredictLayers(m, 1)>>
     ELSE IF t \in {0, m.num_layer} THEN <<0, 0>>
     ELSE <<PredictLayers(m, t), PredictLayers(m, t + 1)>>]
-----------------------------------------------------------------------------
(* jobs: the indices under which a job is added in an iteration.  The predictions they ask for, *)
(* in that order, cover the layers of the iteration once and in order, none too late.          *)
EachLayerOnce(m, jobs) ==
  LET r == Mapping(m)
      position(t) == IF t = FirstInput(m) THEN 0 ELSE t
      predicts == {t \in jobs : r[t][1] < r[t][2]}
      stops(T) == {0} \cup {r[t][2] : t \in T}
  IN /\ \A t \in predicts :
          /\ position(t) <= r[t][1]
          /\ r[t][1] = Max(stops({u \in predicts : position(u) < position(t)}))
     /\ Max(stops(predicts)) = m.num_layer

(* Every layer is within the window of some layer that a job is added for. *)
EveryLayerInWindow(m, jobs) ==
  \A x \in 0 .. (m.num_layer - 1) :
    \E l \in jobs : l <= x /\ Predicting(m, l) /\ x < l + Window(m, l)

(* Of the n layers of an iteration, those predicted before logits t are there: none before     *)
(* the first logits, the last output of the iteration before.                                  *)
Reached(n, upto, t) == IF t = n THEN 0 ELSE upto[IF t = 0 THEN n ELSE t - 1]

(* With the ranges r the layers are predicted from the first to the last: upto[t] of them are  *)
(* predicted once the logits t are there.                                                      *)
Covers(r, n, upto) ==
  /\ \A t \in 0 .. n :
       IF r[t][1] < r[t][2]
         THEN r[t][1] = Reached(n, upto, t) /\ r[t][2] = upto[t]
         ELSE upto[t] = Reached(n, upto, t)
  /\ upto[n - 1] = n

OnceInOrder(r, n) == \E upto \in [0 .. n -> 0 .. n] : Covers(r, n, upto)
=============================================================================

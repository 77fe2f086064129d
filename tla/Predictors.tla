----------------------------- MODULE Predictors -----------------------------
(***************************************************************************)
(* One predict job, from the models that load_model_from finds to the      *)
(* layers that PredictWorker asks the scheduler to prefetch, for both      *)
(* predictors and every input mode.  What the network computes is left     *)
(* out; which layer each of its output rows is for is not.  How the job    *)
(* is interleaved with the other threads is in Prefetcher.                 *)
(***************************************************************************)
EXTENDS PredictMapping, Sequences

CONSTANTS
  MaxLayer,    \* bound: the number of layers
  MaxWindow    \* bound: intervals and windows

ASSUME PredictorAssumption == MaxLayer \in Nat \ {0} /\ MaxWindow \in Nat \ {0}

HistoryModes == {"kOneToken", "kDecodeCumsum", "kLastUseDistance", "kWeighedDecodeCumsum"}
LogitsModes == {"kMoeAttnInputLogits", "kMoeLayerLogits"}
InputModes == HistoryModes \cup LogitsModes \cup {"kNoPredict", "kFirstMoeAttnInputLogits"}

(* What a user may set, -1 where nothing is.  Replacing the first input is for kMoeLayerLogits *)
(* only (CHECK of predictor.cpp:40), which is also the only input of SepPredictor.            *)
Options ==
  {o \in [num_layer : 1 .. MaxLayer, interval : 1 .. MaxWindow, window : 1 .. MaxWindow,
          first_window : -1 .. MaxWindow, distance : {-1, 1}, deepseek : BOOLEAN,
          replace_first : BOOLEAN, input_mode : InputModes, sep : BOOLEAN] :
     o.replace_first \/ o.sep => o.input_mode = "kMoeLayerLogits"}

(* Mutation of DefaultDistance: all layers. *)
InfiniteDistance(o) == o.num_layer

DefaultDistance(o) == o.num_layer - 1

(* handle_uninited_configs; distance is max_prefetch_layer_distance. *)
Configured(o) ==
  [o EXCEPT
     !.distance = IF @ # -1 THEN @ ELSE DefaultDistance(o),
     !.first_window = IF @ # -1 THEN @ ELSE IF o.deepseek THEN o.window ELSE 1]

VARIABLES
  options, meta,
  job,     \* [pc, layer, prompt, idx]: input_layer_id, whether the iteration is a prompt, job_idx
  model,   \* predict_models[input_layer_id]
  output,  \* PredictOutput: [start, rows]
  posted   \* the layers of the PrefetchLayerTasks, in order

predictorVars == <<options, meta, job, model, output, posted>>

NoOutput == [start |-> 0, rows |-> 0]
NoModel == [start |-> 0, stop |-> 0, slice_start |-> 0, slice_stop |-> 0]

(* The modes without logits, and the first layer's, have one job, for layer 0. *)
JobLayers(m) == IF m.input_mode \in LogitsModes THEN 0 .. m.num_layer ELSE {0}

InitPredictors ==
  /\ options \in Options /\ meta = Configured(options)
  /\ job \in [pc : {"load"}, layer : JobLayers(meta), prompt : BOOLEAN, idx : {0}]
  /\ model = NoModel /\ output = NoOutput /\ posted = << >>

Wanted(l) == Mapping(meta)[l]
NumOutputLayer == model.slice_stop - model.slice_start

(* Mutation of Sliced: the slice is taken as if the model's output began at layer 0. *)
SlicedFromZero(start, stop) ==
  [start |-> start, stop |-> stop,
   slice_start |-> Wanted(job.layer)[1], slice_stop |-> Wanted(job.layer)[2]]

Sliced(start, stop) ==
  [start |-> start, stop |-> stop,
   slice_start |-> Wanted(job.layer)[1] - start, slice_stop |-> Wanted(job.layer)[2] - start]

(* LegacyPredictor::load_model_from with a directory: the json says which layers a model is  *)
(* for, and they must contain those that the mapping wants.                                   *)
LoadLegacy ==
  /\ ~meta.sep /\ meta.input_mode # "kNoPredict"
  /\ \E start, stop \in 0 .. meta.num_layer :
       /\ start <= stop
       /\ IF Wanted(job.layer)[1] = Wanted(job.layer)[2]
            THEN model' = [NoModel EXCEPT !.start = start, !.stop = stop]
            ELSE /\ start <= Wanted(job.layer)[1] /\ stop >= Wanted(job.layer)[2]
                 /\ model' = Sliced(start, stop)

LoadNothing ==
  /\ ~meta.sep /\ meta.input_mode = "kNoPredict"
  /\ model' = [start |-> 0, stop |-> meta.num_layer,
               slice_start |-> 0, slice_stop |-> meta.num_layer]

(* SepPredictor::load_model_from: enabled_output_layers are those of the mapping. *)
LoadSep == meta.sep /\ model' = Sliced(0, meta.num_layer)

(* A job on logits is added only when layer_predict_enabled; the others always are. *)
Load ==
  /\ job.pc = "load"
  /\ LoadLegacy \/ LoadNothing \/ LoadSep
  /\ job' = [job EXCEPT !.pc =
               IF meta.input_mode \in LogitsModes /\ model'.slice_start = model'.slice_stop
                 THEN "end" ELSE "predict"]
  /\ UNCHANGED <<options, meta, output, posted>>

(* The logits are not recorded for a prompt, nor for a layer between two predictions, nor     *)
(* before layer 0 when the output of the last layer replaces them; then the output is empty.  *)
NoInput ==
  /\ meta.input_mode \in LogitsModes \cup {"kFirstMoeAttnInputLogits"}
  /\ \/ job.prompt
     \/ (job.layer % meta.num_layer) % meta.interval # 0
     \/ meta.replace_first /\ job.layer = 0

(* In two of the modes an output without a prediction begins at layer -1. *)
Unnumbered ==
  \/ meta.input_mode = "kNoPredict"
  \/ meta.input_mode = "kFirstMoeAttnInputLogits" /\ NoInput

(* What predict returns.  Without a prediction the output has no experts. *)
Predicted ==
  IF Unnumbered
    THEN [start |-> -1, rows |-> meta.num_layer]
    ELSE [start |-> model.start, rows |-> model.stop - model.start]

PredictedOneJob == [start |-> model.slice_start + job.idx, rows |-> 1]

PredictOneJob ==
  /\ job.pc = "predict"
  /\ output' = IF meta.sep THEN PredictedOneJob ELSE Predicted
  /\ job' = [job EXCEPT !.pc = "slice"]
  /\ UNCHANGED <<options, meta, model, posted>>

(* prob.slice takes the rows there are. *)
SliceLayer(start, stop) ==
  [start |-> output.start + start,
   rows |-> Max({0, Min({stop, output.rows}) - Min({start, output.rows})})]

(* slice_predict_output_layer; SepPredictor has nothing to slice. *)
SliceOutput ==
  /\ job.pc = "slice"
  /\ IF meta.sep
       THEN output' = output /\ job' = [job EXCEPT !.pc = "post"]
       ELSE /\ output' = SliceLayer(model.slice_start, model.slice_stop)
            /\ job' = [job EXCEPT !.pc =
                         IF output'.start = model.start + model.slice_start THEN "post" ELSE "aborted"]
  /\ UNCHANGED <<options, meta, model, posted>>

NumPredictJobs == IF meta.sep THEN NumOutputLayer ELSE 1

(* The layers of the output are prefetched in order, each when there is budget for it. *)
Post ==
  /\ job.pc = "post"
  /\ posted' = posted \o [i \in 1 .. output.rows |-> output.start + i - 1]
  /\ job' = [job EXCEPT !.idx = job.idx + 1,
                        !.pc = IF job.idx + 1 < NumPredictJobs THEN "predict" ELSE "end"]
  /\ UNCHANGED <<options, meta, model, output>>

NextPredictors == Load \/ PredictOneJob \/ SliceOutput \/ Post
-----------------------------------------------------------------------------
(* The jobs of an iteration ask for each layer once, in order and in time exactly when the    *)
(* windows of their layers leave no layer out.  Then the progress the predict worker posts is,  *)
(* unit by unit, that of the layers the hook runs; otherwise the hook waits forever.  The modes *)
(* with one job ask for the first window and nothing more (worker.cpp:110-134).                 *)
PredictedOnce ==
  job.pc = "load" =>
    (EachLayerOnce(meta, JobLayers(meta)) <=> EveryLayerInWindow(meta, JobLayers(meta)))

(* The hook is served through an iteration: the layers it waits for are asked for, there is an *)
(* initial budget, and the outputs are numbered.  With the window of layer 0 and the distance   *)
(* left to the defaults this needs a second layer, as one layer gets a distance of zero, and    *)
(* either a job for every layer, or one of the models whose layer 0 has the full window, as     *)
(* far as the next prediction: in the modes with one job there is none, and that window must be *)
(* the whole model.  For the other models these modes predict layer 0 only, and the hook waits   *)
(* at layer 1.                                                                                   *)
DefaultsServe ==
  job.pc = "load" /\ options.first_window = -1 /\ options.distance = -1 =>
    ( EachLayerOnce(meta, JobLayers(meta)) /\ meta.distance >= 1 /\ ~Unnumbered
      <=>
      /\ options.num_layer > 1
      /\ options.input_mode # "kNoPredict"
      /\ options.input_mode = "kFirstMoeAttnInputLogits" => ~job.prompt
      /\ \/ options.input_mode \in LogitsModes /\ options.interval = 1
         \/ options.deepseek /\ options.window >= IF options.input_mode \in LogitsModes
                                                    THEN Min({options.interval, options.num_layer})
                                                    ELSE options.num_layer )

(* Whether or not there is a prediction, a job posts exactly the layers the mapping gives it,  *)
(* whatever the models beside it were trained for: the hook counts on a unit of progress per   *)
(* layer.  Only the outputs that begin at layer -1 (predictor.cpp:142 and :177), those of       *)
(* kNoPredict and of a prompt with kFirstMoeAttnInputLogits, end in a CHECK (predictor.cpp:493). *)
JobPostsItsLayers ==
  LET r == Wanted(job.layer)
      numbered == /\ meta.input_mode # "kNoPredict"
                  /\ ~(meta.input_mode = "kFirstMoeAttnInputLogits" /\ job.prompt)
  IN /\ job.pc = "end" => numbered /\ posted = [i \in 1 .. (r[2] - r[1]) |-> r[1] + i - 1]
     /\ job.pc = "aborted" => ~numbered
=============================================================================

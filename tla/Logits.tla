------------------------------- MODULE Logits -------------------------------
(***************************************************************************)
(* The logits that the hooks record and the predict worker reads           *)
(* (LegacyPredictor and SepPredictor with predict_input_mode               *)
(* kMoeLayerLogits), on top of Prefetcher.  There is one host buffer per   *)
(* recording index and no lock: the hook replaces the buffer in every      *)
(* iteration and starts a copy on the compute stream; a job carries        *)
(* the index alone, and reads whatever the buffer holds when its turn      *)
(* comes.  Logits are the number of the iteration they predict for.        *)
(***************************************************************************)
EXTENDS Prefetcher

CONSTANTS
  SepPredictor,  \* one prediction per layer (SepPredictor), or one per job
  ReplaceFirst   \* layer_predict_replace_first_input_with_last_output

ASSUME LogitsAssumption == SepPredictor \in BOOLEAN /\ ReplaceFirst \in BOOLEAN

VARIABLES
  logits_buffer,  \* moe_layer_logits_buffer_list: index -> iteration
  copying,        \* index -> kernels in the stream before the copy into its buffer
  input,          \* the recording index of the job the predict worker is at
  prediction,     \* what the prediction in its hands was made from
  predicted       \* layer -> what its last prefetch task was predicted from

logitsVars == <<logits_buffer, copying, input, prediction, predicted>>
logitsAndVars == <<vars, logitsVars>>

Index == 0 .. NumLayer
Garbage == -1

(* launch_thread asks for a prediction before there are logits.  LegacyPredictor finds none, as *)
(* after a prompt, and predicts nothing (predictor.cpp:205).  SepPredictor converts its tensor,  *)
(* which is undefined, before it asks whether it is empty (predictor.cpp:573); what comes of     *)
(* that is not modelled, and the job goes on like the other's.                                   *)
InitLogits ==
  /\ Init
  /\ logits_buffer = [t \in Index |-> IF t = NumLayer THEN 0 ELSE Garbage]
  /\ copying = [t \in Index |-> 0]
  /\ input = 0 /\ prediction = Garbage
  /\ predicted = [x \in Layer |-> Garbage]

(* A new buffer, and a copy behind what the stream still has to do. *)
Copy(t, iteration) ==
  /\ logits_buffer' = [logits_buffer EXCEPT ![t] = iteration]
  /\ copying' = [copying EXCEPT ![t] = Len(stream)]
  /\ UNCHANGED <<input, prediction, predicted>>

(* An empty buffer, which predicts nothing; no copy, the event stays as it was. *)
Skip(t, iteration) ==
  /\ logits_buffer' = [logits_buffer EXCEPT ![t] = iteration]
  /\ UNCHANGED <<copying, input, prediction, predicted>>

(* record_moe_layer_logits skips the logits of a prompt, and those it has a substitute for. *)
Record(t, iteration) ==
  \/ ~(ReplaceFirst /\ t = 0) /\ Copy(t, iteration)
  \/ Skip(t, iteration)

RecordInput == Record(0, iter)

(* Mutation of RecordOutput: off by one, the index of the layer's input. *)
RecordOutputAsInput == Record(layer, iter)

(* The output of the last layer predicts for the next iteration. *)
RecordOutput == Record(layer + 1, IF layer + 1 = NumLayer THEN iter + 1 ELSE iter)

(* The stream reaches the next copies. *)
CopyLogits ==
  /\ copying' = [t \in Index |-> IF copying[t] > 0 THEN copying[t] - 1 ELSE 0]
  /\ UNCHANGED <<logits_buffer, input, prediction, predicted>>

(* Mutation of LogitsRecorded: no wait for the copy. *)
NoEvent(t) == TRUE

(* cudaEventSynchronize(logits_record_event[t]) returns. *)
LogitsRecorded(t) == copying[t] = 0

Read(t) == IF copying[t] = 0 THEN logits_buffer[t] ELSE Garbage

(* The first prediction of a job waits for the copy. *)
ReadFirst ==
  LET t == Head(predict_jobs)
  IN /\ LogitsRecorded(t)
     /\ input' = t /\ prediction' = Read(t)
     /\ UNCHANGED <<logits_buffer, copying, predicted>>

PredictedFrom ==
  /\ predicted' = [predicted EXCEPT ![pnext] = prediction]
  /\ UNCHANGED <<logits_buffer, copying, input, prediction>>

(* SepPredictor::predict_one_job reads the buffer again for the next layer of the job. *)
ReadNext ==
  /\ prediction' = IF SepPredictor /\ pnext + 1 < pstop THEN Read(input) ELSE prediction
  /\ UNCHANGED <<logits_buffer, copying, input, predicted>>

NextLogits ==
  /\ aborted = "none"
  /\ \/ HookStart /\ RecordInput
     \/ HookLayerDone /\ RecordOutput
     \/ StreamStep /\ CopyLogits
     \/ PredictStart /\ ReadFirst
     \/ PredictLayer /\ PredictedFrom
     \/ PredictLayerDone /\ ReadNext
     \/ /\ HookReportLayer \/ HookReportExpert \/ HookExpertDone \/ Scheduler \/ Fetcher \/ Unlock
        /\ UNCHANGED logitsVars

SpecLogits == InitLogits /\ [][NextLogits]_logitsAndVars
-----------------------------------------------------------------------------
(* What was prefetched for the layer the hook runs was predicted from the logits of this very *)
(* iteration (for the first layers: from the output of the one before), neither from a buffer  *)
(* of an earlier iteration nor from one the stream has not filled yet.                         *)
PredictedForThisIteration ==
  hpc \in {"expert", "wait", "layer_done"} => predicted[layer] = iter

(* The hook never replaces a buffer that a queued or unfinished job has still to read: the     *)
(* prefetch progress it has to take first is all that holds it back.                           *)
NoLogitsOverwritten ==
  [][\A t \in Index : logits_buffer'[t] # logits_buffer[t] =>
       t \notin Queued(predict_jobs) /\ (pnext < pstop => t # input)]_logitsAndVars
=============================================================================

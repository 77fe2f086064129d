------------------------------- MODULE History -------------------------------
(***************************************************************************)
(* The predictors that work from the accesses of the tokens so far         *)
(* (LegacyPredictor with predict_input_mode kOneToken, kDecodeCumsum,      *)
(* kLastUseDistance or kWeighedDecodeCumsum), on top of Prefetcher.  The   *)
(* hook adds the experts of each layer to a buffer, the predict worker     *)
(* clones the buffer when its job begins, and zeroes it in one mode when   *)
(* the job ends; nothing locks the buffer.  What the buffer adds up is     *)
(* abstracted to the iterations whose accesses it holds.                   *)
(***************************************************************************)
EXTENDS Prefetcher

CONSTANTS
  InputModes,         \* the values of metas->predict_input_mode to try
  NumExpertPerToken   \* metas->num_expert_per_token

ASSUME HistoryAssumption ==
  /\ InputModes \subseteq {"kOneToken", "kDecodeCumsum", "kLastUseDistance", "kWeighedDecodeCumsum"}
  /\ NumExpertPerToken \in 1 .. MaxActive

VARIABLES
  predict_input_mode,
  expert_access_buffer,   \* layer -> the iterations whose accesses of the layer it holds
  ending,                 \* the predict worker has still to call end_of_one_token_prediction
  decoded,                \* the iterations that decode one token
  cleared                 \* the iteration that cleared the buffer last

historyVars == <<predict_input_mode, expert_access_buffer, ending, decoded, cleared>>
historyAndVars == <<vars, historyVars>>

InitHistory ==
  /\ Init
  /\ predict_input_mode \in InputModes
  /\ expert_access_buffer = [x \in Layer |-> {}]
  /\ ending = FALSE
  /\ decoded = {} /\ cleared = 0

(* The next iteration is about one token, or about a prompt or a batch. *)
StartIteration ==
  /\ decoded' \in {decoded, decoded \cup {iter}}
  /\ UNCHANGED <<predict_input_mode, expert_access_buffer, ending, cleared>>

(* The gate activates num_expert_per_token experts for one token, and for a prompt at least as *)
(* many.                                                                                       *)
Activated ==
  /\ Len(experts') >= NumExpertPerToken
  /\ iter \in decoded => Len(experts') = NumExpertPerToken

(* add_one_layer *)
AddOneLayer ==
  /\ expert_access_buffer' = [expert_access_buffer EXCEPT ![layer] = @ \cup {iter}]
  /\ UNCHANGED cleared

(* Mutation of OneToken: off by one. *)
FewerThanOneToken == Len(experts) < NumExpertPerToken

(* More experts than one token can activate are taken for a prompt. *)
OneToken == Len(experts) <= NumExpertPerToken

(* start_of_new_sequence *)
StartOfNewSequence ==
  IF predict_input_mode = "kOneToken" THEN UNCHANGED <<expert_access_buffer, cleared>>
  ELSE expert_access_buffer' = [x \in Layer |-> {}] /\ cleared' = iter

(* record_then_predict_and_prefetch, the last thing report_one_layer does. *)
RecordLayer ==
  /\ IF OneToken THEN AddOneLayer
     ELSE IF layer = 0 THEN StartOfNewSequence
     ELSE UNCHANGED <<expert_access_buffer, cleared>>
  /\ UNCHANGED <<predict_input_mode, ending, decoded>>

(* Once the progress of the last layer has been posted, the hook goes on. *)
LayerPredicted ==
  /\ ending' = (pnext' = pstop /\ pstop = NumLayer)
  /\ UNCHANGED <<predict_input_mode, expert_access_buffer, decoded, cleared>>

(* Mutation of Zeroed: no token is forgotten. *)
NotZeroed == expert_access_buffer

Zeroed == [x \in Layer |-> {}]

EndOfOneTokenPrediction ==
  /\ ending /\ ending' = FALSE
  /\ expert_access_buffer' = IF predict_input_mode = "kOneToken" THEN Zeroed
                               ELSE expert_access_buffer
  /\ UNCHANGED <<vars, predict_input_mode, decoded, cleared>>

NextHistory ==
  /\ aborted = "none"
  /\ \/ HookStart /\ StartIteration
     \/ HookReportLayer /\ Activated /\ UNCHANGED historyVars
     \/ HookReportExpert /\ (IF idx = 1 THEN RecordLayer ELSE UNCHANGED historyVars)
     \/ PredictLayerDone /\ LayerPredicted
     \/ EndOfOneTokenPrediction
     \/ ~ending /\ PredictStart /\ UNCHANGED historyVars
     \/ /\ \/ HookExpertDone \/ HookLayerDone \/ Scheduler \/ Fetcher \/ StreamStep \/ Unlock
           \/ PredictLayer
        /\ UNCHANGED historyVars

SpecHistory == InitHistory /\ [][NextHistory]_historyAndVars
-----------------------------------------------------------------------------
(* The step in which a job clones the buffer. *)
Predicts == predict_jobs # << >> /\ predict_jobs' = Tail(predict_jobs)

(* The prediction for an iteration is made from all tokens that were decoded since the buffer  *)
(* was cleared, complete in every layer, and from nothing of the iteration itself, although    *)
(* the hook writes the buffer while the worker clones it at its own time: the job is queued    *)
(* after the last layer of a token, and the hook is held back until it has begun.              *)
WholeTokens ==
  [][Predicts /\ predict_input_mode # "kOneToken" =>
       \A x \in Layer : /\ decoded \cap (cleared .. iter - 1) \subseteq expert_access_buffer[x]
                        /\ expert_access_buffer[x] \subseteq cleared .. (iter - 1)]_historyAndVars

(* With kOneToken a prediction never sees accesses of an earlier token than the last: zeroing  *)
(* the buffer when the last layer has been posted can come late, and then takes accesses of    *)
(* the next token with it, but never leaves any behind.                                        *)
OneTokenAtMost ==
  [][Predicts /\ predict_input_mode = "kOneToken" =>
       \A x \in Layer : expert_access_buffer[x] \subseteq {iter - 1}]_historyAndVars
=============================================================================

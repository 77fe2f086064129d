-------------------------- MODULE PredictionProofs --------------------------
(*****************************************************************************)
(* What the predict worker sees and who is left when it goes: proofs about   *)
(* History, Logits and Shutdown for every number of layers, experts,         *)
(* iterations and buffers.                                                   *)
(*                                                                           *)
(* Each of the three adds variables to Prefetcher and conjoins its own steps *)
(* to Prefetcher's, so the invariants of PrefetcherWindow about the jobs of  *)
(* an iteration hold in them.  HistoryInv says what an access buffer holds   *)
(* while no job is zeroing it, LogitsInv which iteration the logits, the job *)
(* at hand and the layers ahead of the hook belong to, ExitInv in which      *)
(* order the threads have gone.                                              *)
(*****************************************************************************)
EXTENDS History, Logits, Shutdown, PrefetcherWindow

USE DEF hookVars, schedVars, cacheVars, fetchVars, unlockVars, memVars, predictVars

-----------------------------------------------------------------------------
(* History: the accesses of the experts, layer by layer *)

InLayer == hpc \in {"expert", "wait", "layer_done"}

(* The accesses of a layer are added when its first expert has been preempted. *)
Recorded(x) ==
  \/ x < layer
  \/ x = layer /\ (hpc \in {"wait", "layer_done"} \/ (hpc = "expert" /\ idx > 1))

(* An iteration of one token activates what a token activates, in every order. *)
TokenExperts == InLayer /\ iter \in decoded => Len(experts) = NumExpertPerToken

(* What the buffer of a layer holds when it is never zeroed for a token. *)
HistoryKept ==
  \A x \in Layer :
    /\ expert_access_buffer[x] \subseteq cleared .. iter
    /\ iter \in expert_access_buffer[x] => Recorded(x)
    /\ decoded \cap (cleared .. (iter - 1)) \subseteq expert_access_buffer[x]
    /\ iter \in decoded /\ Recorded(x) => iter \in expert_access_buffer[x]

(* What is left of the token before, when it is. *)
TokenZeroed ==
  \A x \in Layer :
    /\ predict_jobs = << >> /\ pnext = NumLayer => expert_access_buffer[x] \subseteq {iter}
    /\ predict_jobs # << >> => expert_access_buffer[x] \subseteq {iter - 1}

HistoryInv ==
  /\ expert_access_buffer \in [Layer -> SUBSET Nat] /\ cleared \in 0 .. iter
  /\ ending \in BOOLEAN
  /\ TokenExperts
  /\ ending => pnext = NumLayer /\ ~(pnext < pstop)
  /\ predict_input_mode # "kOneToken" => HistoryKept
  /\ predict_input_mode = "kOneToken" /\ ~ending => TokenZeroed

LEMMA HistoryFrame ==
  ASSUME HistoryInv, UNCHANGED <<iter, predict_jobs, pnext, pstop, historyVars>>, TokenExperts',
         \A x \in Layer : Recorded(x)' <=> Recorded(x)
  PROVE  HistoryInv'
BY DEF HistoryInv, HistoryKept, TokenZeroed, historyVars

LEMMA HistoryRefinesNext == [NextHistory]_historyAndVars => [Next]_vars
BY DEF NextHistory, historyAndVars, Next, Step, Hook, Predictor, EndOfOneTokenPrediction

LEMMA StartHistory ==
  ASSUME OneJobPerIteration, TypeInv, OneJobInv, HistoryInv, HookStart, StartIteration
  PROVE  HistoryInv'
<1>n. NumLayer \in Nat \ {0} /\ iter \in Nat
  BY ConstantsAssumption DEF TypeInv, TypeOK
<1>1. /\ hpc = "start" /\ hpc' = "layer" /\ layer = 0
      /\ UNCHANGED <<iter, layer, pnext, pstop, predict_input_mode, expert_access_buffer, ending, cleared>>
      /\ decoded' \in {decoded, decoded \cup {iter}}
  BY DEF HookStart, StartIteration, OneJobInv, AtStart
<1>2. predict_jobs' = predict_jobs
  BY <1>n, <1>1 DEF HookStart, JobsAfter, OneJobPerIteration
<1>3. \A x \in Layer : ~Recorded(x)' /\ ~Recorded(x)
  BY <1>n, <1>1 DEF Recorded, Layer
<1>4. TokenExperts'
  BY <1>1 DEF TokenExperts, InLayer
<1>5. decoded' \cap (cleared .. (iter - 1)) \subseteq decoded
  BY <1>n, <1>1
<1>6. HistoryKept => HistoryKept'
  BY <1>1, <1>3, <1>5 DEF HistoryKept
<1>7. TokenZeroed => TokenZeroed'
  BY <1>1, <1>2 DEF TokenZeroed
<1> QED BY <1>1, <1>4, <1>6, <1>7 DEF HistoryInv

LEMMA RecordHistory ==
  ASSUME TypeInv, OneJobInv, HistoryInv, HookReportExpert, idx = 1, RecordLayer
  PROVE  HistoryInv'
<1>n. /\ NumLayer \in Nat \ {0} /\ iter \in Nat /\ layer \in Layer /\ layer \in Nat
      /\ prefetch_layer_progress \in Nat /\ Len(experts) \in Nat /\ cleared \in 0 .. iter
      /\ expert_access_buffer \in [Layer -> SUBSET Nat]
  <2>1. NumLayer \in Nat \ {0} /\ iter \in Nat /\ layer \in Layer /\ layer \in Nat
        /\ prefetch_layer_progress \in Nat
    BY ConstantsAssumption DEF TypeInv, TypeOK, Layer
  <2>2. Len(experts) \in Nat
    BY DEF TypeInv, TypeOK
  <2> QED BY <2>1, <2>2 DEF HistoryInv
<1>1. /\ hpc = "expert" /\ hpc' = "wait"
      /\ UNCHANGED <<iter, layer, experts, idx, predict_jobs, pnext, pstop, predict_input_mode, ending,
                     decoded>>
  BY DEF HookReportExpert, RecordLayer
<1>2. /\ iter \in decoded => Len(experts) = NumExpertPerToken
      /\ TokenExperts'
  BY <1>1 DEF HistoryInv, TokenExperts, InLayer
<1>3. predict_jobs = << >>
  BY <1>n, <1>1 DEF OneJobInv, Ahead
<1>4. /\ \A x \in Layer : x # layer => (Recorded(x)' <=> Recorded(x)) /\ (Recorded(x) => layer # 0)
      /\ Recorded(layer)' /\ ~Recorded(layer)
  BY <1>n, <1>1 DEF Recorded, Layer
<1>5. CASE OneToken
  <2>1. expert_access_buffer' = [expert_access_buffer EXCEPT ![layer] = @ \cup {iter}] /\ cleared' = cleared
    BY <1>5 DEF RecordLayer, AddOneLayer
  <2>2. /\ \A x \in Layer : x # layer => expert_access_buffer'[x] = expert_access_buffer[x]
        /\ expert_access_buffer'[layer] = expert_access_buffer[layer] \cup {iter}
        /\ expert_access_buffer' \in [Layer -> SUBSET Nat]
    BY <1>n, <2>1
  <2>3. HistoryKept => HistoryKept'
    <3> SUFFICES ASSUME HistoryKept, NEW x \in Layer
                 PROVE  /\ expert_access_buffer'[x] \subseteq cleared .. iter
                        /\ iter \in expert_access_buffer'[x] => Recorded(x)'
                        /\ decoded \cap (cleared .. (iter - 1)) \subseteq expert_access_buffer'[x]
                        /\ iter \in decoded /\ Recorded(x)' => iter \in expert_access_buffer'[x]
      BY <1>1, <2>1 DEF HistoryKept
    <3>1. CASE x = layer
      <4>1. iter \in cleared .. iter
        BY <1>n
      <4>2. /\ expert_access_buffer[x] \subseteq cleared .. iter
            /\ decoded \cap (cleared .. (iter - 1)) \subseteq expert_access_buffer[x]
        BY DEF HistoryKept
      <4>3. expert_access_buffer'[x] = expert_access_buffer[x] \cup {iter} /\ Recorded(x)'
        BY <1>1, <2>2, <3>1 DEF Recorded
      <4> QED BY <4>1, <4>2, <4>3
    <3>2. CASE x # layer
      BY <1>4, <2>2, <3>2 DEF HistoryKept
    <3> QED BY <3>1, <3>2
  <2>4. TokenZeroed => TokenZeroed'
    <3> SUFFICES ASSUME TokenZeroed, NEW x \in Layer, pnext = NumLayer
                 PROVE  expert_access_buffer'[x] \subseteq {iter}
      BY <1>1, <1>3 DEF TokenZeroed
    <3>1. expert_access_buffer[x] \subseteq {iter}
      BY <1>3 DEF TokenZeroed
    <3> QED BY <2>2, <3>1
  <2> QED BY <1>1, <1>2, <1>n, <2>1, <2>2, <2>3, <2>4 DEF HistoryInv
<1>6. CASE ~OneToken
  <2>1. iter \notin decoded
    BY <1>2, <1>6, <1>n, HistoryAssumption DEF OneToken
  <2>2. CASE layer = 0 /\ predict_input_mode # "kOneToken"
    <3>1. expert_access_buffer' = [x \in Layer |-> {}] /\ cleared' = iter
      BY <1>6, <2>2 DEF RecordLayer, StartOfNewSequence
    <3>2. HistoryKept'
      <4> SUFFICES ASSUME NEW x \in Layer
                   PROVE  decoded \cap (iter .. (iter - 1)) = {} /\ expert_access_buffer'[x] = {}
        BY <1>1, <2>1, <3>1 DEF HistoryKept
      <4> QED BY <1>n, <3>1
    <3> QED BY <1>1, <1>2, <1>n, <2>2, <3>1, <3>2 DEF HistoryInv
  <2>3. CASE ~(layer = 0 /\ predict_input_mode # "kOneToken")
    <3>1. UNCHANGED <<expert_access_buffer, cleared>>
      BY <1>6, <2>3 DEF RecordLayer, StartOfNewSequence
    <3>2. HistoryKept => HistoryKept'
      <4> SUFFICES ASSUME HistoryKept, NEW x \in Layer PROVE iter \in expert_access_buffer[x] => Recorded(x)'
        BY <1>1, <2>1, <3>1 DEF HistoryKept
      <4> QED BY <1>4 DEF HistoryKept
    <3>3. TokenZeroed => TokenZeroed'
      BY <1>1, <3>1 DEF TokenZeroed
    <3> QED BY <1>1, <1>2, <1>n, <3>1, <3>2, <3>3 DEF HistoryInv
  <2> QED BY <2>2, <2>3
<1> QED BY <1>5, <1>6

LEMMA EndIteration ==
  ASSUME OneJobPerIteration, TypeInv, OneJobInv, HistoryInv, HookLayerDone, UNCHANGED historyVars
  PROVE  HistoryInv'
<1>n. /\ NumLayer \in Nat \ {0} /\ layer \in 0 .. (NumLayer - 1) /\ pnext \in 0 .. NumLayer
      /\ prefetch_layer_progress \in Nat /\ iter \in Nat
  BY ConstantsAssumption DEF TypeInv, TypeOK, Layer
<1>1. /\ hpc = "layer_done" /\ predict_jobs' = JobsAfter(layer + 1)
      /\ UNCHANGED <<pnext, pstop, prefetch_layer_progress>> /\ layer' = NextLayer
      /\ hpc' \in {"start", "done", "layer"}
      /\ iter' = IF layer = NumLayer - 1 THEN iter + 1 ELSE iter
      /\ UNCHANGED <<predict_input_mode, expert_access_buffer, ending, decoded, cleared>>
  BY DEF HookLayerDone, historyVars
<1>2. TokenExperts'
  BY <1>1 DEF TokenExperts, InLayer
<1>3. CASE layer # NumLayer - 1
  <2>1. predict_jobs' = predict_jobs /\ iter' = iter /\ layer' = layer + 1
    BY <1>n, <1>1, <1>3 DEF JobsAfter, OneJobPerIteration, NextLayer
  <2>2. \A x \in Layer : Recorded(x)' <=> Recorded(x)
    BY <1>n, <1>1, <2>1 DEF Recorded, Layer
  <2> QED BY <1>1, <1>2, <2>1, <2>2, HistoryFrame
<1>4. CASE layer = NumLayer - 1
  <2>1. /\ iter' = iter + 1 /\ predict_jobs' # << >> /\ predict_jobs = << >> /\ pnext = NumLayer
    <3>1. predict_jobs = << >> /\ pnext = Ahead
      BY <1>n, <1>1 DEF OneJobInv, Ahead
    <3>2. predict_jobs' = <<NumLayer>>
      BY <1>n, <1>1, <1>4, <3>1 DEF JobsAfter, OneJobPerIteration
    <3> QED BY <1>n, <1>1, <1>4, <3>1, <3>2 DEF Ahead
  <2>2. HistoryKept => HistoryKept'
    <3> SUFFICES ASSUME HistoryKept, NEW x \in Layer
                 PROVE  /\ expert_access_buffer[x] \subseteq cleared .. (iter + 1)
                        /\ ~(iter + 1 \in expert_access_buffer[x]) /\ ~Recorded(x)'
                        /\ decoded \cap (cleared .. ((iter + 1) - 1)) \subseteq expert_access_buffer[x]
      BY <1>1, <2>1 DEF HistoryKept
    <3>1. /\ expert_access_buffer[x] \subseteq cleared .. iter
          /\ decoded \cap (cleared .. (iter - 1)) \subseteq expert_access_buffer[x]
          /\ iter \in decoded => iter \in expert_access_buffer[x]
          /\ cleared \in 0 .. iter
      BY <1>n, <1>1, <1>4 DEF HistoryKept, Recorded, Layer, HistoryInv
    <3>2. ~Recorded(x)'
      BY <1>n, <1>1, <1>4 DEF Recorded, NextLayer, Layer
    <3>3. \A i \in cleared .. ((iter + 1) - 1) : i \in cleared .. (iter - 1) \/ i = iter
      BY <1>n
    <3> QED BY <1>n, <3>1, <3>2, <3>3
  <2>3. TokenZeroed => TokenZeroed'
    BY <1>n, <1>1, <2>1 DEF TokenZeroed
  <2>4. cleared \in 0 .. (iter + 1)
    BY <1>n DEF HistoryInv
  <2> QED BY <1>1, <1>2, <2>1, <2>2, <2>3, <2>4 DEF HistoryInv
<1> QED BY <1>3, <1>4

LEMMA PredictHistory ==
  ASSUME OneJobPerIteration, TypeInv, OneJobInv, HistoryInv,
         \/ PredictLayerDone /\ LayerPredicted
         \/ ~ending /\ PredictStart /\ UNCHANGED historyVars
         \/ PredictLayer /\ UNCHANGED historyVars
  PROVE  HistoryInv'
<1>n. NumLayer \in Nat \ {0} /\ pnext \in 0 .. NumLayer /\ (ppc = "submitted" => pnext < pstop)
  BY ConstantsAssumption DEF TypeInv, TypeOK, IndexInv
<1>t. /\ UNCHANGED <<iter, layer, hpc, idx, experts, predict_input_mode, expert_access_buffer, decoded,
                      cleared>>
  BY DEF PredictLayerDone, LayerPredicted, PredictStart, PredictLayer, historyVars
<1>r. TokenExperts' /\ \A x \in Layer : Recorded(x)' <=> Recorded(x)
  BY <1>t DEF HistoryInv, TokenExperts, InLayer, Recorded
<1>k. HistoryKept => HistoryKept'
  BY <1>t, <1>r DEF HistoryKept
<1>1. CASE PredictLayerDone /\ LayerPredicted
  <2>1. /\ pnext < pstop /\ UNCHANGED <<pstop, predict_jobs>> /\ pnext' = pnext + 1
        /\ ending' = (pnext' = pstop /\ pstop = NumLayer)
    BY <1>1, <1>n DEF PredictLayerDone, LayerPredicted
  <2>2. predict_jobs = << >> /\ pstop = NumLayer /\ ~ending /\ (ending' => pnext' = NumLayer /\ ~(pnext' < pstop'))
    BY <1>n, <2>1 DEF OneJobInv, HistoryInv
  <2>3. ~ending' => TokenZeroed'
    BY <2>1, <2>2 DEF TokenZeroed
  <2> QED BY <1>t, <1>r, <1>k, <2>1, <2>2, <2>3 DEF HistoryInv
<1>2. CASE ~ending /\ PredictStart /\ UNCHANGED historyVars
  <2>1. predict_jobs = <<NumLayer>> /\ ending' = ending /\ ~ending
    BY <1>2 DEF PredictStart, OneJobInv, historyVars
  <2>2. Head(predict_jobs) = NumLayer /\ Tail(predict_jobs) = << >>
    BY <2>1
  <2>3. predict_jobs' = << >> /\ pnext' = 0
    BY <1>2, <2>2 DEF PredictStart, OneJobPerIteration
  <2>4. TokenZeroed'
    BY <1>n, <2>3 DEF TokenZeroed
  <2> QED BY <1>t, <1>r, <1>k, <2>1, <2>4 DEF HistoryInv
<1>3. CASE PredictLayer /\ UNCHANGED historyVars
  <2>1. UNCHANGED <<predict_jobs, pnext, pstop, historyVars>>
    BY <1>3 DEF PredictLayer
  <2> QED BY <1>t, <1>r, <2>1, HistoryFrame
<1> QED BY <1>1, <1>2, <1>3

LEMMA HookHistory ==
  ASSUME TypeInv, HistoryInv,
         \/ HookReportLayer /\ Activated
         \/ HookReportExpert /\ idx # 1
         \/ HookExpertDone,
         UNCHANGED historyVars
  PROVE  HistoryInv'
<1>n. idx \in Nat \ {0} /\ layer \in Nat
  BY ConstantsAssumption DEF TypeInv, TypeOK, Layer
<1>1. UNCHANGED <<iter, layer, predict_jobs, pnext, pstop>>
  BY DEF HookReportLayer, HookReportExpert, HookExpertDone
<1>2. TokenExperts'
  BY DEF HookReportLayer, HookReportExpert, HookExpertDone, Activated, HistoryInv, TokenExperts, InLayer,
     historyVars
<1>3. \A x \in Layer : Recorded(x)' <=> Recorded(x)
  BY <1>n DEF HookReportLayer, HookReportExpert, HookExpertDone, Recorded
<1> QED BY <1>1, <1>2, <1>3, HistoryFrame

LEMMA OtherHistory ==
  ASSUME TypeInv, HistoryInv, Scheduler \/ Fetcher \/ StreamStep \/ Unlock, UNCHANGED historyVars
  PROVE  HistoryInv'
<1>1. UNCHANGED <<hpc, iter, layer, idx, predict_jobs, pnext, pstop>>
  BY DEF Scheduler, SchedPreempt, SchedPreemptExpert, SchedPreemptEnd, SchedPreemptOne,
     SchedPrefetchLayer, SchedFetchDone, SchedIdle, SchedIdleAgain, Fetcher, FetchStart, FetchEnd,
     StreamStep, Unlock
<1>2. Len(experts') = Len(experts)
  <2>1. experts' = experts \/ experts' \in [1 .. Len(experts) -> ExpertIdx]
    BY DEF Scheduler, SchedPreempt, SchedPreemptExpert, SchedPreemptEnd, SchedPreemptOne,
       SchedPrefetchLayer, SchedFetchDone, SchedIdle, SchedIdleAgain, Fetcher, FetchStart, FetchEnd,
       StreamStep, Unlock
  <2>2. Len(experts) \in Nat
    BY DEF TypeInv, TypeOK
  <2> QED BY <2>1, <2>2
<1>3. TokenExperts'
  BY <1>1, <1>2 DEF HistoryInv, TokenExperts, InLayer, historyVars
<1>4. \A x \in Layer : Recorded(x)' <=> Recorded(x)
  BY <1>1 DEF Recorded
<1> QED BY <1>1, <1>3, <1>4, HistoryFrame

LEMMA ZeroHistory ==
  ASSUME TypeInv, HistoryInv, EndOfOneTokenPrediction
  PROVE  HistoryInv'
<1>1. /\ UNCHANGED <<iter, hpc, layer, idx, experts, predict_jobs, pnext, pstop>>
      /\ UNCHANGED <<predict_input_mode, decoded, cleared>> /\ ending' = FALSE
      /\ expert_access_buffer' = IF predict_input_mode = "kOneToken" THEN Zeroed ELSE expert_access_buffer
  BY DEF EndOfOneTokenPrediction, vars
<1>2. TokenExperts' /\ \A x \in Layer : Recorded(x)' <=> Recorded(x)
  BY <1>1 DEF HistoryInv, TokenExperts, InLayer, Recorded
<1>3. CASE predict_input_mode = "kOneToken"
  <2>1. TokenZeroed' /\ expert_access_buffer' \in [Layer -> SUBSET Nat]
    BY <1>1, <1>3 DEF TokenZeroed, Zeroed
  <2> QED BY <1>1, <1>2, <1>3, <2>1 DEF HistoryInv
<1>4. CASE predict_input_mode # "kOneToken"
  BY <1>1, <1>2, <1>4 DEF HistoryInv, HistoryKept
<1> QED BY <1>3, <1>4

LEMMA NextHistoryInv ==
  ASSUME OneJobPerIteration, TypeInv, OneJobInv, HistoryInv, [NextHistory]_historyAndVars
  PROVE  HistoryInv'
<1>1. CASE HookStart /\ StartIteration
  BY <1>1, StartHistory
<1>2. CASE HookReportLayer /\ Activated /\ UNCHANGED historyVars
  BY <1>2, HookHistory
<1>3. CASE HookReportExpert /\ (IF idx = 1 THEN RecordLayer ELSE UNCHANGED historyVars)
  BY <1>3, RecordHistory, HookHistory
<1>4. CASE \/ PredictLayerDone /\ LayerPredicted
           \/ ~ending /\ PredictStart /\ UNCHANGED historyVars
           \/ PredictLayer /\ UNCHANGED historyVars
  BY <1>4, PredictHistory
<1>5. CASE EndOfOneTokenPrediction
  BY <1>5, ZeroHistory
<1>6. CASE HookExpertDone /\ UNCHANGED historyVars
  BY <1>6, HookHistory
<1>7. CASE HookLayerDone /\ UNCHANGED historyVars
  BY <1>7, EndIteration
<1>8. CASE (Scheduler \/ Fetcher \/ StreamStep \/ Unlock) /\ UNCHANGED historyVars
  BY <1>8, OtherHistory
<1>9. CASE UNCHANGED historyAndVars
  BY <1>9 DEF historyAndVars, historyVars, vars, HistoryInv, HistoryKept, TokenZeroed, TokenExperts,
     InLayer, Recorded
<1> QED BY <1>1, <1>2, <1>3, <1>4, <1>5, <1>6, <1>7, <1>8, <1>9 DEF NextHistory

LEMMA InitHistoryInv == OneJobPerIteration /\ InitHistory => HistoryInv
<1> SUFFICES ASSUME OneJobPerIteration, InitHistory PROVE HistoryInv
  OBVIOUS
<1>n. NumLayer \in Nat \ {0}
  BY ConstantsAssumption
<1>1. /\ hpc = "start" /\ iter = 0 /\ layer = 0 /\ pnext = 0
      /\ expert_access_buffer = [x \in Layer |-> {}] /\ ending = FALSE /\ decoded = {} /\ cleared = 0
  BY DEF InitHistory, Init
<1>2. HistoryKept /\ TokenZeroed
  BY <1>n, <1>1 DEF HistoryKept, TokenZeroed, Recorded
<1>3. TokenExperts /\ expert_access_buffer \in [Layer -> SUBSET Nat] /\ cleared \in 0 .. iter
  BY <1>1 DEF TokenExperts, InLayer
<1> QED BY <1>1, <1>2, <1>3 DEF HistoryInv

(* With one job per iteration *)
LEMMA HistoryInvariant == OneJobPerIteration => (SpecHistory => [](TypeInv /\ OneJobInv /\ HistoryInv))
<1> SUFFICES ASSUME OneJobPerIteration PROVE SpecHistory => [](TypeInv /\ OneJobInv /\ HistoryInv)
  OBVIOUS
<1> DEFINE I == TypeInv /\ OneJobInv /\ HistoryInv
<1>1. InitHistory => I
  BY InitTypeInv, InitOneJob, InitHistoryInv DEF InitHistory
<1>2. I /\ [NextHistory]_historyAndVars => I'
  BY NextTypeInv, NextOneJob, NextHistoryInv, HistoryRefinesNext
<1> QED BY <1>1, <1>2, PTL DEF SpecHistory

(* A prediction from the history of the whole sequence sees every whole token of it and       *)
(* nothing of the iteration the hook has gone on to.                                          *)
THEOREM TokensWhole ==
  ASSUME OneJobPerIteration
  PROVE  SpecHistory => WholeTokens
<1>1. SpecHistory => [](TypeInv /\ OneJobInv /\ HistoryInv)
  BY OneJobPerIteration, HistoryInvariant
<1>2. TypeInv /\ OneJobInv /\ HistoryInv /\ [NextHistory]_historyAndVars =>
        [Predicts /\ predict_input_mode # "kOneToken" =>
           \A x \in Layer : /\ decoded \cap (cleared .. iter - 1) \subseteq expert_access_buffer[x]
                            /\ expert_access_buffer[x] \subseteq cleared .. (iter - 1)]_historyAndVars
  <2> SUFFICES ASSUME TypeInv, OneJobInv, HistoryInv, predict_jobs # << >>,
                      predict_input_mode # "kOneToken", NEW x \in Layer
               PROVE  /\ decoded \cap (cleared .. iter - 1) \subseteq expert_access_buffer[x]
                      /\ expert_access_buffer[x] \subseteq cleared .. (iter - 1)
    BY DEF Predicts
  <2>n. NumLayer \in Nat \ {0} /\ layer \in Nat /\ prefetch_layer_progress \in Nat /\ iter \in Nat
    BY ConstantsAssumption DEF TypeInv, TypeOK, Layer
  <2>1. ~Recorded(x)
    BY <2>n DEF OneJobInv, Ahead, Recorded, Layer
  <2>2. HistoryKept /\ cleared \in 0 .. iter
    BY DEF HistoryInv
  <2>3. \A i \in cleared .. iter : i # iter => i \in cleared .. (iter - 1)
    BY <2>n, <2>2
  <2> QED BY <2>1, <2>2, <2>3 DEF HistoryKept
<1> QED BY <1>1, <1>2, PTL DEF SpecHistory, WholeTokens

(* With kOneToken a prediction sees no access but those of the last iteration.                *)
THEOREM TokensApart ==
  ASSUME OneJobPerIteration
  PROVE  SpecHistory => OneTokenAtMost
<1>1. SpecHistory => [](TypeInv /\ OneJobInv /\ HistoryInv)
  BY OneJobPerIteration, HistoryInvariant
<1>2. TypeInv /\ OneJobInv /\ HistoryInv /\ [NextHistory]_historyAndVars =>
        [Predicts /\ predict_input_mode = "kOneToken" =>
           \A x \in Layer : expert_access_buffer[x] \subseteq {iter - 1}]_historyAndVars
  <2> SUFFICES ASSUME TypeInv, OneJobInv, HistoryInv, NextHistory, Predicts,
                      predict_input_mode = "kOneToken", NEW x \in Layer
               PROVE  expert_access_buffer[x] \subseteq {iter - 1}
    OBVIOUS
  <2>1. predict_jobs = <<NumLayer>> /\ predict_jobs' = << >>
    <3>1. predict_jobs = <<NumLayer>>
      BY DEF Predicts, OneJobInv
    <3>2. Tail(predict_jobs) = << >>
      BY <3>1
    <3> QED BY <3>1, <3>2 DEF Predicts
  <2>2. ~ending
    <3>1. HookStart \/ HookLayerDone => predict_jobs' # << >>
      <4>1. \A t : JobsAfter(t) = predict_jobs \/ JobsAfter(t) = Append(predict_jobs, t)
        BY DEF JobsAfter
      <4>2. \A t : Append(predict_jobs, t) # << >>
        BY <2>1
      <4>3. \A t : JobsAfter(t) # << >>
        BY <2>1, <4>1, <4>2
      <4> QED BY <4>3 DEF HookStart, HookLayerDone
    <3>2. HookReportLayer \/ HookReportExpert \/ HookExpertDone \/ PredictLayer \/ PredictLayerDone \/
            EndOfOneTokenPrediction => predict_jobs' = predict_jobs
      BY DEF HookReportLayer, HookReportExpert, HookExpertDone, PredictLayer, PredictLayerDone,
         EndOfOneTokenPrediction, vars
    <3>3. Scheduler \/ Fetcher \/ StreamStep \/ Unlock => predict_jobs' = predict_jobs
      BY DEF Scheduler, SchedPreempt, SchedPreemptExpert, SchedPreemptEnd, SchedPreemptOne,
         SchedPrefetchLayer, SchedFetchDone, SchedIdle, SchedIdleAgain, Fetcher, FetchStart, FetchEnd,
         StreamStep, Unlock
    <3> QED BY <2>1, <3>1, <3>2, <3>3 DEF NextHistory
  <2> QED BY <2>1, <2>2 DEF HistoryInv, TokenZeroed
<1> QED BY <1>1, <1>2, PTL DEF SpecHistory, OneTokenAtMost

-----------------------------------------------------------------------------
(* Logits: recorded by the hook, read by the predict worker *)

LogitsTypes ==
  /\ logits_buffer \in [Index -> Int] /\ copying \in [Index -> Nat]
  /\ predicted \in [Layer -> Int]

(* The logits the hook has recorded since the iteration before are of this iteration.         *)
LogitsCurrent ==
  \A t \in Index : Rank(t) <= Rank(LastPosted) => logits_buffer[t] = iter

(* The job at hand has its logits, which are there and will not be replaced while it lasts.   *)
JobHasLogits ==
  pnext < pstop => /\ input \in Index /\ Rank(input) <= Rank(LastPosted)
                   /\ copying[input] = 0 /\ prediction = iter

(* What the hook has run, or has progress for, was predicted for this iteration.              *)
LayersPredicted ==
  /\ \A x \in Layer : x < Ahead => predicted[x] = iter
  /\ ppc = "submitted" => predicted[pnext] = iter

LogitsInv == LogitsTypes /\ LogitsCurrent /\ JobHasLogits /\ LayersPredicted

LEMMA RecordEffect ==
  ASSUME LogitsTypes, stream \in Seq(Expert), NEW t \in Index, NEW i \in Int, Record(t, i)
  PROVE  /\ logits_buffer' = [logits_buffer EXCEPT ![t] = i]
         /\ LogitsTypes'
         /\ \A x \in Index \ {t} : copying'[x] = copying[x]
         /\ UNCHANGED <<input, prediction, predicted>>
<1>1. Len(stream) \in Nat
  BY ElementsIn
<1> QED BY <1>1 DEF Record, Copy, Skip, LogitsTypes

LEMMA RanksKnown ==
  ASSUME NEW t \in Index
  PROVE  Rank(t) \in Nat /\ \A u \in Index : Rank(u) = Rank(t) => u = t
<1>1. NumLayer \in Nat \ {0}
  BY ConstantsAssumption
<1> QED BY <1>1 DEF Index, Rank

(* The hook records the next logits of the iteration. *)
LEMMA RecordNext ==
  ASSUME TypeInv, LogitsInv, NEW t \in Index, t # NumLayer, Before(t) = LastPosted,
         Record(t, iter), LastPosted' = t, Ahead' = Ahead, UNCHANGED <<iter, pnext, pstop, ppc>>
  PROVE  /\ LogitsInv'
         /\ \A u \in Index : logits_buffer'[u] # logits_buffer[u] => Rank(u) = Rank(LastPosted) + 1
<1>1. iter \in Int /\ stream \in Seq(Expert)
  BY DEF TypeInv, TypeOK
<1>2. /\ logits_buffer' = [logits_buffer EXCEPT ![t] = iter] /\ LogitsTypes'
      /\ \A x \in Index \ {t} : copying'[x] = copying[x]
      /\ UNCHANGED <<input, prediction, predicted>>
  BY <1>1, RecordEffect DEF LogitsInv
<1>3. /\ Rank(t) = Rank(LastPosted) + 1 /\ Rank(LastPosted) \in Nat
      /\ \A u \in Index : Rank(u) \in Nat /\ (u # t => Rank(u) # Rank(t))
  BY RankNext, RanksKnown DEF Index
<1>4. \A u \in Index : Rank(u) <= Rank(t) => u = t \/ Rank(u) <= Rank(LastPosted)
  BY <1>3
<1>5. \A u \in Index : u # t => logits_buffer'[u] = logits_buffer[u]
  BY <1>2 DEF LogitsInv, LogitsTypes
<1>6. LogitsCurrent'
  <2> SUFFICES ASSUME NEW u \in Index, Rank(u) <= Rank(t) PROVE logits_buffer'[u] = iter
    BY DEF LogitsCurrent, Rank, Index
  <2> QED BY <1>2, <1>4, <1>5 DEF LogitsInv, LogitsCurrent, LogitsTypes
<1>7. JobHasLogits'
  <2> SUFFICES ASSUME pnext < pstop
               PROVE  /\ input \in Index /\ Rank(input) <= Rank(t)
                      /\ copying'[input] = 0 /\ prediction = iter
    BY <1>2 DEF JobHasLogits, Rank, Index
  <2>1. input \in Index /\ Rank(input) <= Rank(LastPosted) /\ copying[input] = 0 /\ prediction = iter
    BY DEF LogitsInv, JobHasLogits
  <2>2. Rank(input) <= Rank(t) /\ input # t
    BY <1>3, <2>1
  <2> QED BY <1>2, <2>1, <2>2
<1>8. LayersPredicted'
  BY <1>2 DEF LogitsInv, LayersPredicted
<1> QED BY <1>2, <1>3, <1>5, <1>6, <1>7, <1>8 DEF LogitsInv

(* The hook records the last output, when no job is left. *)
LEMMA RecordLast ==
  ASSUME TypeInv, LogitsInv, Record(NumLayer, iter + 1), iter' = iter + 1,
         LastPosted' = NumLayer, Ahead' = 0, ~(pnext < pstop), UNCHANGED <<pnext, pstop, ppc>>
  PROVE  LogitsInv'
<1>1. /\ iter \in Nat /\ iter + 1 \in Int /\ stream \in Seq(Expert)
      /\ NumLayer \in Index /\ NumLayer \in Nat \ {0}
  BY ConstantsAssumption DEF TypeInv, TypeOK, Index
<1>2. /\ logits_buffer' = [logits_buffer EXCEPT ![NumLayer] = iter + 1] /\ LogitsTypes'
      /\ UNCHANGED <<input, prediction, predicted>>
  BY <1>1, RecordEffect DEF LogitsInv
<1>3. \A u \in Index : Rank(u) <= Rank(NumLayer) => u = NumLayer
  BY <1>1 DEF Rank, Index
<1>4. LogitsCurrent'
  <2> SUFFICES ASSUME NEW u \in Index, Rank(u) <= Rank(NumLayer) PROVE logits_buffer'[u] = iter + 1
    BY DEF LogitsCurrent, Rank, Index
  <2> QED BY <1>1, <1>2, <1>3 DEF LogitsInv, LogitsTypes
<1>5. ppc # "submitted"
  BY DEF TypeInv, IndexInv
<1>6. JobHasLogits' /\ LayersPredicted'
  <2>1. \A x \in Layer : ~(x < 0)
    BY <1>1 DEF Layer
  <2> QED BY <1>5, <2>1 DEF JobHasLogits, LayersPredicted
<1> QED BY <1>2, <1>4, <1>6 DEF LogitsInv

(* The predict worker. *)
LEMMA PredictLogits ==
  ASSUME TypeInv, NEW upto \in [0 .. NumLayer -> 0 .. NumLayer], JobsInv(upto), LogitsInv,
         \/ PredictStart /\ ReadFirst
         \/ PredictLayer /\ PredictedFrom
         \/ PredictLayerDone /\ ReadNext
  PROVE  LogitsInv'
<1>n. /\ NumLayer \in Nat \ {0} /\ pnext \in 0 .. NumLayer /\ pstop \in 0 .. NumLayer
      /\ layer \in 0 .. (NumLayer - 1) /\ prefetch_layer_progress \in Nat
      /\ (ppc = "submitted" => pnext < pstop)
  BY ConstantsAssumption DEF TypeInv, TypeOK, Layer, IndexInv
<1>1. CASE PredictStart /\ ReadFirst
  <2> DEFINE t == Head(predict_jobs)
  <2>1. /\ UNCHANGED <<iter, logits_buffer, copying, predicted, ppc>> /\ ppc = "ready"
        /\ Ahead' = Ahead /\ LastPosted' = LastPosted /\ predict_jobs # << >>
        /\ copying[t] = 0 /\ input' = t /\ prediction' = logits_buffer[t]
    BY <1>1 DEF PredictStart, ReadFirst, Ahead, LastPosted, LogitsRecorded, Read
  <2>2. t \in Index /\ Rank(t) <= Rank(LastPosted)
    <3>1. predict_jobs \in Seq(0 .. NumLayer)
      BY DEF TypeInv, TypeOK
    <3>2. Len(predict_jobs) \in Nat \ {0} /\ Head(predict_jobs) = predict_jobs[1]
      BY <2>1, <3>1, HeadTail
    <3>3. \A i \in 1 .. Len(predict_jobs) : predict_jobs[i] \in 0 .. NumLayer
      BY <3>1, ElementsIn
    <3>4. 1 \in 1 .. Len(predict_jobs) /\ t = predict_jobs[1] /\ t \in 0 .. NumLayer
      BY <3>2, <3>3
    <3> QED BY <3>4 DEF JobsInv, QueuedInOrder, Index
  <2>3. logits_buffer[t] = iter
    BY <2>2 DEF LogitsInv, LogitsCurrent
  <2>4. LogitsTypes' /\ LogitsCurrent' /\ LayersPredicted'
    BY <2>1 DEF LogitsInv, LogitsTypes, LogitsCurrent, LayersPredicted, Rank, Index
  <2>5. JobHasLogits'
    BY <2>1, <2>2, <2>3 DEF JobHasLogits, Rank, Index
  <2> QED BY <2>4, <2>5 DEF LogitsInv
<1>2. CASE PredictLayer /\ PredictedFrom
  <2>1. /\ UNCHANGED <<iter, logits_buffer, copying, input, prediction, pnext, pstop>>
        /\ Ahead' = Ahead /\ LastPosted' = LastPosted /\ pnext < pstop
        /\ predicted' = [predicted EXCEPT ![pnext] = prediction]
    BY <1>2 DEF PredictLayer, PredictedFrom, Ahead, LastPosted
  <2>2. prediction = iter /\ pnext = Ahead /\ pnext \in Layer /\ iter \in Int
    BY <1>n, <2>1 DEF LogitsInv, JobHasLogits, JobsInv, Layer, TypeInv, TypeOK
  <2>3. LogitsTypes' /\ LogitsCurrent' /\ JobHasLogits'
    BY <2>1, <2>2 DEF LogitsInv, LogitsTypes, LogitsCurrent, JobHasLogits, Rank, Index
  <2>4. LayersPredicted'
    BY <2>1, <2>2 DEF LogitsInv, LogitsTypes, LayersPredicted
  <2> QED BY <2>3, <2>4 DEF LogitsInv
<1>3. CASE PredictLayerDone /\ ReadNext
  <2>1. /\ UNCHANGED <<iter, logits_buffer, copying, input, predicted, pstop>>
        /\ Ahead' = Ahead + 1 /\ LastPosted' = LastPosted /\ pnext' = pnext + 1
        /\ pnext < pstop /\ ppc = "submitted" /\ ppc' = "ready"
    BY <1>3, <1>n DEF PredictLayerDone, ReadNext, Ahead, LastPosted
  <2>2. /\ pnext = Ahead /\ predicted[pnext] = iter
        /\ input \in Index /\ Rank(input) <= Rank(LastPosted) /\ copying[input] = 0 /\ prediction = iter
    BY <2>1 DEF LogitsInv, LayersPredicted, JobHasLogits, JobsInv
  <2>3. prediction' = iter
    <3>1. Read(input) = iter
      BY <2>2 DEF Read, LogitsInv, LogitsCurrent
    <3> QED BY <1>3, <2>2, <3>1 DEF ReadNext
  <2>4. LogitsTypes' /\ LogitsCurrent' /\ JobHasLogits'
    BY <2>1, <2>2, <2>3 DEF LogitsInv, LogitsTypes, LogitsCurrent, JobHasLogits, Rank, Index
  <2>5. LayersPredicted'
    <3> SUFFICES ASSUME NEW x \in Layer, x < pnext + 1 PROVE predicted[x] = iter
      BY <2>1, <2>2 DEF LayersPredicted
    <3>1. x < pnext \/ x = pnext
      BY <1>n DEF Layer
    <3> QED BY <2>2, <3>1 DEF LogitsInv, LayersPredicted
  <2> QED BY <2>4, <2>5 DEF LogitsInv
<1> QED BY <1>1, <1>2, <1>3

LEMMA OtherLogits ==
  ASSUME LogitsInv, UNCHANGED <<iter, layer, hpc, pnext, pstop, ppc>>, Ahead' = Ahead,
         CopyLogits \/ UNCHANGED logitsVars
  PROVE  LogitsInv'
<1>1. LogitsTypes' /\ \A t \in Index : copying[t] = 0 => copying'[t] = 0
  BY DEF LogitsInv, LogitsTypes, CopyLogits, logitsVars
<1>2. UNCHANGED <<logits_buffer, input, prediction, predicted>>
  BY DEF CopyLogits, logitsVars
<1> QED BY <1>1, <1>2 DEF LogitsInv, LogitsCurrent, JobHasLogits, LayersPredicted, Rank, Index,
                          LastPosted

LEMMA HookFrame ==
  TypeInv /\ (HookReportLayer \/ HookReportExpert \/ HookExpertDone) =>
    UNCHANGED <<iter, layer, pnext, pstop, ppc>> /\ Ahead' = Ahead /\ LastPosted' = LastPosted
<1> SUFFICES ASSUME TypeInv, HookReportLayer \/ HookReportExpert \/ HookExpertDone
             PROVE  /\ UNCHANGED <<iter, layer, pnext, pstop, ppc>> /\ Ahead' = Ahead
                    /\ LastPosted' = LastPosted
  OBVIOUS
<1>1. prefetch_layer_progress \in Nat /\ layer \in Int
  BY ConstantsAssumption DEF TypeInv, TypeOK, Layer
<1> QED BY <1>1 DEF HookReportLayer, HookReportExpert, HookExpertDone, Ahead, LastPosted

LEMMA HookLogits ==
  ASSUME TypeInv, NEW upto \in [0 .. NumLayer -> 0 .. NumLayer], Covers(PredictRange, NumLayer, upto), JobsInv(upto), LogitsInv,
         \/ HookStart /\ RecordInput
         \/ HookLayerDone /\ RecordOutput
  PROVE  /\ LogitsInv'
         /\ \A u \in Index : logits_buffer'[u] # logits_buffer[u] =>
              u \notin Queued(predict_jobs) /\ (pnext < pstop => u # input)
<1>n. /\ NumLayer \in Nat \ {0} /\ layer \in 0 .. (NumLayer - 1) /\ iter \in Nat
      /\ prefetch_layer_progress \in Nat
  BY ConstantsAssumption DEF TypeInv, TypeOK, Layer
<1>q. predict_jobs \in Seq(0 .. NumLayer)
  BY DEF TypeInv, TypeOK
<1>1. ASSUME NEW u \in Index, Rank(u) = Rank(LastPosted) + 1
      PROVE  u \notin Queued(predict_jobs) /\ (pnext < pstop => u # input)
  <2>1. Rank(LastPosted) \in Nat
    BY <1>n DEF LastPosted, Rank
  <2>2. \A i \in 1 .. Len(predict_jobs) : Rank(predict_jobs[i]) <= Rank(LastPosted)
    BY DEF JobsInv, QueuedInOrder
  <2>3. pnext < pstop => Rank(input) <= Rank(LastPosted)
    BY DEF LogitsInv, JobHasLogits
  <2>4. \A v : Rank(v) <= Rank(LastPosted) => v # u
    BY <1>1, <2>1
  <2> QED BY <2>2, <2>3, <2>4 DEF Queued
<1>2. CASE HookStart /\ RecordInput
  <2>1. /\ 0 \in Index /\ 0 # NumLayer /\ Before(0) = LastPosted /\ LastPosted' = 0 /\ Ahead' = Ahead
        /\ UNCHANGED <<iter, pnext, pstop, ppc>> /\ Record(0, iter)
    BY <1>2, <1>n DEF HookStart, RecordInput, JobsInv, AtStart, Before, LastPosted, Ahead, Index
  <2> QED BY <1>1, <2>1, RecordNext
<1>3. CASE HookLayerDone /\ RecordOutput /\ layer # NumLayer - 1
  <2>1. /\ layer + 1 \in Index /\ layer + 1 # NumLayer /\ Before(layer + 1) = LastPosted
        /\ LastPosted' = layer + 1 /\ Ahead' = Ahead
        /\ UNCHANGED <<iter, pnext, pstop, ppc>> /\ Record(layer + 1, iter)
    BY <1>3, <1>n DEF HookLayerDone, RecordOutput, Before, LastPosted, NextLayer, Ahead, Index
  <2> QED BY <1>1, <2>1, RecordNext
<1>4. CASE HookLayerDone /\ RecordOutput /\ layer = NumLayer - 1
  <2>1. predict_jobs = << >> /\ ~(pnext < pstop) /\ prefetch_layer_progress = 0
    BY <1>4, NothingLeft DEF HookLayerDone
  <2>2. /\ LastPosted' = NumLayer /\ Ahead' = 0 /\ UNCHANGED <<pnext, pstop, ppc>>
        /\ Record(NumLayer, iter + 1) /\ iter' = iter + 1
    BY <1>4, <1>n, <2>1 DEF HookLayerDone, RecordOutput, LastPosted, NextLayer, Ahead
  <2>3. LogitsInv'
    BY <2>1, <2>2, RecordLast
  <2> QED BY <2>1, <2>3 DEF Queued
<1> QED BY <1>2, <1>3, <1>4

LEMMA LogitsRefinesNext == [NextLogits]_logitsAndVars => [Next]_vars
BY DEF NextLogits, logitsAndVars, Next, Step, Hook, Predictor

LEMMA NextLogitsInv ==
  ASSUME NEW upto \in [0 .. NumLayer -> 0 .. NumLayer], Covers(PredictRange, NumLayer, upto), TypeInv, JobsInv(upto),
         LogitsInv, [NextLogits]_logitsAndVars
  PROVE  /\ LogitsInv'
         /\ \A u \in Index : logits_buffer'[u] # logits_buffer[u] =>
              u \notin Queued(predict_jobs) /\ (pnext < pstop => u # input)
<1>1. CASE (HookStart /\ RecordInput) \/ (HookLayerDone /\ RecordOutput)
  BY <1>1, HookLogits
<1>2. CASE (PredictStart /\ ReadFirst) \/ (PredictLayer /\ PredictedFrom) \/ (PredictLayerDone /\ ReadNext)
  <2>1. logits_buffer' = logits_buffer
    BY <1>2 DEF ReadFirst, PredictedFrom, ReadNext
  <2> QED BY <1>2, <2>1, PredictLogits
<1>3. CASE (HookReportLayer \/ HookReportExpert \/ HookExpertDone) /\ UNCHANGED logitsVars
  <2>1. /\ UNCHANGED <<iter, layer, pnext, pstop, ppc>> /\ Ahead' = Ahead /\ LastPosted' = LastPosted
        /\ UNCHANGED logitsVars
    BY <1>3, HookFrame
  <2> QED BY <2>1 DEF LogitsInv, LogitsTypes, LogitsCurrent, JobHasLogits, LayersPredicted, Rank,
                      Index, logitsVars
<1>4. CASE ((Scheduler \/ Fetcher \/ Unlock) /\ UNCHANGED logitsVars) \/ (StreamStep /\ CopyLogits)
  <2>1. UNCHANGED <<iter, layer, hpc, pnext, pstop, ppc, prefetch_layer_progress>>
    BY <1>4 DEF Scheduler, SchedPreempt, SchedPreemptExpert, SchedPreemptEnd, SchedPreemptOne,
       SchedPrefetchLayer, SchedFetchDone, SchedIdle, SchedIdleAgain, Fetcher, FetchStart, FetchEnd,
       StreamStep, Unlock
  <2>2. Ahead' = Ahead /\ logits_buffer' = logits_buffer
    BY <1>4, <2>1 DEF Ahead, CopyLogits, logitsVars
  <2> QED BY <1>4, <2>1, <2>2, OtherLogits
<1>5. CASE UNCHANGED logitsAndVars
  <2>1. UNCHANGED <<iter, layer, hpc, pnext, pstop, ppc>> /\ Ahead' = Ahead /\ UNCHANGED logitsVars
        /\ logits_buffer' = logits_buffer
    BY <1>5 DEF logitsAndVars, logitsVars, vars, Ahead
  <2> QED BY <2>1, OtherLogits
<1>6. NextLogits =>
        \/ (HookStart /\ RecordInput) \/ (HookLayerDone /\ RecordOutput)
        \/ (PredictStart /\ ReadFirst) \/ (PredictLayer /\ PredictedFrom) \/ (PredictLayerDone /\ ReadNext)
        \/ ((HookReportLayer \/ HookReportExpert \/ HookExpertDone) /\ UNCHANGED logitsVars)
        \/ ((Scheduler \/ Fetcher \/ Unlock) /\ UNCHANGED logitsVars) \/ (StreamStep /\ CopyLogits)
  BY DEF NextLogits
<1> QED BY <1>1, <1>2, <1>3, <1>4, <1>5, <1>6

LEMMA InitLogitsInv == InitLogits => LogitsInv
<1> SUFFICES ASSUME InitLogits PROVE LogitsInv
  OBVIOUS
<1>n. NumLayer \in Nat \ {0}
  BY ConstantsAssumption
<1>1. /\ hpc = "start" /\ iter = 0 /\ layer = 0 /\ pnext = 0 /\ pstop = 0 /\ ppc = "ready"
      /\ prefetch_layer_progress = 0 /\ Ahead = 0 /\ LastPosted = NumLayer
  BY DEF InitLogits, Init, Ahead, LastPosted
<1>2. LogitsTypes
  BY DEF InitLogits, LogitsTypes, Garbage
<1>3. LogitsCurrent
  BY <1>1, <1>n DEF InitLogits, LogitsCurrent, Rank, Index
<1>4. JobHasLogits /\ LayersPredicted
  BY <1>1, <1>n DEF JobHasLogits, LayersPredicted, Layer
<1> QED BY <1>2, <1>3, <1>4 DEF LogitsInv

LEMMA LogitsInvariant ==
  ASSUME NEW upto \in [0 .. NumLayer -> 0 .. NumLayer], Covers(PredictRange, NumLayer, upto)
  PROVE  SpecLogits => [](TypeInv /\ JobsInv(upto) /\ LogitsInv)
<1>1. SpecLogits => []TypeInv
  BY InitTypeInv, NextTypeInv, LogitsRefinesNext, PTL DEF SpecLogits, InitLogits
<1>2. SpecLogits => []JobsInv(upto)
  <2>1. Init => JobsInv(upto)
    BY InitJobs
  <2>2. TypeInv /\ JobsInv(upto) /\ [Next]_vars => JobsInv(upto)'
    BY NextJobs
  <2> QED BY <1>1, <2>1, <2>2, LogitsRefinesNext, PTL DEF SpecLogits, InitLogits
<1>3. TypeInv /\ JobsInv(upto) /\ LogitsInv /\ [NextLogits]_logitsAndVars => LogitsInv'
  BY NextLogitsInv
<1> QED BY <1>1, <1>2, <1>3, InitLogitsInv, PTL DEF SpecLogits

(* Every layer is prefetched for the iteration it is run in, if the jobs of an iteration      *)
(* cover its layers in order.                                                                 *)
THEOREM PredictedInTime ==
  ASSUME OncePerIteration
  PROVE  SpecLogits => []PredictedForThisIteration
<1>1. PICK upto \in [0 .. NumLayer -> 0 .. NumLayer] : Covers(PredictRange, NumLayer, upto)
  BY OncePerIteration DEF OncePerIteration, OnceInOrder
<1>2. SpecLogits => [](TypeInv /\ JobsInv(upto) /\ LogitsInv)
  BY <1>1, LogitsInvariant
<1>3. TypeInv /\ LogitsInv => PredictedForThisIteration
  <2> SUFFICES ASSUME TypeInv, LogitsInv, hpc \in {"expert", "wait", "layer_done"}
               PROVE  predicted[layer] = iter
    BY DEF PredictedForThisIteration
  <2>1. layer \in Layer /\ layer \in Int /\ prefetch_layer_progress \in Nat
    BY ConstantsAssumption DEF TypeInv, TypeOK, Layer
  <2>2. layer < Ahead
    BY <2>1 DEF Ahead
  <2> QED BY <2>1, <2>2 DEF LogitsInv, LayersPredicted
<1> QED BY <1>2, <1>3, PTL

(* Logits wait in their buffer until the job that reads them has ended: the hook never        *)
(* records over those of a job that is queued or at hand.                                     *)
THEOREM LogitsKept ==
  ASSUME OncePerIteration
  PROVE  SpecLogits => NoLogitsOverwritten
<1>1. PICK upto \in [0 .. NumLayer -> 0 .. NumLayer] : Covers(PredictRange, NumLayer, upto)
  BY OncePerIteration DEF OncePerIteration, OnceInOrder
<1>2. SpecLogits => [](TypeInv /\ JobsInv(upto) /\ LogitsInv)
  BY <1>1, LogitsInvariant
<1>3. TypeInv /\ JobsInv(upto) /\ LogitsInv /\ [NextLogits]_logitsAndVars =>
        [\A t \in Index : logits_buffer'[t] # logits_buffer[t] =>
           t \notin Queued(predict_jobs) /\ (pnext < pstop => t # input)]_logitsAndVars
  BY <1>1, NextLogitsInv
<1> QED BY <1>2, <1>3, PTL DEF SpecLogits, NoLogitsOverwritten

-----------------------------------------------------------------------------
(* Shutdown: the threads leave one after the other *)

(* A thread is told to leave only when its predecessor has left, and the predict worker       *)
(* leaves between two of its tasks.                                                           *)
ExitInv ==
  /\ stopped \subseteq exit_mark
  /\ down \in Nat /\ (down = 0 => exit_mark = {})
  /\ "predict" \in exit_mark => "fetch" \in stopped
  /\ "unlock" \in exit_mark => "predict" \in stopped
  /\ "schedule" \in exit_mark => "unlock" \in stopped
  /\ "predict" \in stopped => ppc = "ready"

LEMMA InitExit == InitShutdown => ExitInv
BY DEF InitShutdown, ExitInv

(* Only the predict worker submits a task of its own. *)
LEMMA OthersKeepPpc ==
  ASSUME Hook \/ StreamStep \/ Scheduler \/ Fetcher \/ Unlock
  PROVE  ppc' = ppc
<1>1. CASE Hook
  BY <1>1 DEF Hook, HookStart, HookReportLayer, HookReportExpert, HookExpertDone, HookLayerDone,
              predictVars
<1>2. CASE StreamStep
  BY <1>2 DEF StreamStep, predictVars
<1>3. CASE Scheduler
  BY <1>3 DEF Scheduler, SchedPreempt, SchedPreemptExpert, SchedPreemptEnd, SchedPreemptOne,
              SchedPrefetchLayer, SchedFetchDone, SchedIdle, SchedIdleAgain, predictVars
<1>4. CASE Fetcher
  BY <1>4 DEF Fetcher, FetchStart, FetchEnd, predictVars
<1>5. CASE Unlock
  BY <1>5 DEF Unlock, predictVars
<1> QED BY <1>1, <1>2, <1>3, <1>4, <1>5

LEMMA StepExit == ExitInv /\ [NextShutdown]_allVars => ExitInv'
<1> SUFFICES ASSUME ExitInv, [NextShutdown]_allVars PROVE ExitInv'
  OBVIOUS
<1>o. /\ Len(ExitOrder) = 4 /\ ExitOrder[1] = "fetch" /\ ExitOrder[2] = "predict"
      /\ ExitOrder[3] = "unlock" /\ ExitOrder[4] = "schedule"
  BY DEF ExitOrder
(* A step of a thread other than the predict worker. *)
<1>k. ASSUME UNCHANGED shutdownVars, ppc' = ppc PROVE ExitInv'
  BY <1>k DEF ExitInv, shutdownVars
<1>1. CASE (Hook \/ StreamStep) /\ UNCHANGED shutdownVars
  BY <1>1, <1>k, OthersKeepPpc
<1>2. CASE Running("schedule", Scheduler) \/ Running("fetch", Fetcher) \/ Running("unlock", Unlock)
  BY <1>2, <1>k, OthersKeepPpc DEF Running
<1>3. CASE Running("predict", Predictor) \/ Running("predict", PredictReturn)
  BY <1>3 DEF Running, ExitInv, shutdownVars
<1>4. CASE Destroy
  <2>1. down' = 1 /\ exit_mark' = {"fetch"} /\ stopped' = stopped /\ ppc' = ppc /\ stopped = {}
    BY <1>4, <1>o DEF Destroy, ExitInv, predictVars
  <2> QED BY <2>1 DEF ExitInv
<1>5. CASE Join
  <2>1. down \in 1 .. 4 /\ ExitOrder[down] \in stopped /\ down' = down + 1
        /\ stopped' = stopped /\ ppc' = ppc
    BY <1>5, <1>o DEF Join, vars, predictVars
  <2>2. exit_mark' = (IF down < 4 THEN exit_mark \cup {ExitOrder[down + 1]} ELSE exit_mark)
    BY <1>5, <1>o DEF Join
  <2>3. CASE down = 1
    BY <1>o, <2>1, <2>2, <2>3 DEF ExitInv
  <2>4. CASE down = 2
    BY <1>o, <2>1, <2>2, <2>4 DEF ExitInv
  <2>5. CASE down = 3
    BY <1>o, <2>1, <2>2, <2>5 DEF ExitInv
  <2>6. CASE down = 4
    BY <2>1, <2>2, <2>6 DEF ExitInv
  <2> QED BY <2>1, <2>3, <2>4, <2>5, <2>6
<1>6. ASSUME NEW w \in Thread, StopThread(w) PROVE ExitInv'
  <2>1. /\ w \in exit_mark /\ stopped' = stopped \cup {w} /\ UNCHANGED <<down, exit_mark>>
        /\ ppc' = ppc /\ (w = "predict" => ppc = "ready")
    BY <1>6 DEF StopThread, MayStop, vars, predictVars
  <2> QED BY <2>1 DEF ExitInv
<1>7. CASE UNCHANGED allVars
  BY <1>7 DEF allVars, vars, predictVars, shutdownVars, ExitInv
<1> QED BY <1>1, <1>2, <1>3, <1>4, <1>5, <1>6, <1>7 DEF NextShutdown

(* While the destructor of PrefetchMngr joins the threads one by one, a prefetch task the     *)
(* predict worker waits for and a victim the fetch worker waits for are still served, for     *)
(* every model size and every combination of modes.                                           *)
THEOREM NobodyOrphaned == SpecShutdown => []NoOrphanWait
<1>1. ExitInv => NoOrphanWait
  BY DEF ExitInv, NoOrphanWait
<1> QED BY InitExit, StepExit, <1>1, PTL DEF SpecShutdown
=============================================================================

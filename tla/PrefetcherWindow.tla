--------------------------- MODULE PrefetcherWindow ---------------------------
(***************************************************************************)
(* The prefetch window: proof that budget and progress, two semaphores     *)
(* without layer numbers, keep the predict worker and the hook in step,    *)
(* for every distance, number of layers and way to split an iteration into *)
(* jobs; and that one job at a time is handed to the fetch worker.         *)
(*                                                                         *)
(* Budget: PrefetchWindow counts the preempt task in the scheduler's       *)
(* queue, so PreemptInv says that it is there once, and while the hook     *)
(* waits.  Progress: ChainInv follows the jobs through the predict         *)
(* worker's queue, from the one being done to the last one posted.         *)
(***************************************************************************)
EXTENDS PrefetcherWeights, PredictMapping, FiniteSetTheorems

-----------------------------------------------------------------------------
(* The preempt task of the hook in the scheduler's queue: at most one, while the hook waits   *)
(* for its end.                                                                               *)
UniquePreempt ==
  \A i, j \in 1 .. Len(squeue) : squeue[i] = "Preempt" /\ squeue[j] = "Preempt" => i = j

PreemptInv ==
  /\ UniquePreempt
  /\ spc = "preempting" => EarlyPreempt /\ ~InQueue("Preempt")
  /\ InQueue("Preempt") \/ spc = "preempting" => hpc = "expert"

(* The queue keeps its preempt task. *)
SamePreempt == UniquePreempt' /\ (InQueue("Preempt")' <=> InQueue("Preempt"))

USE DEF hookVars, schedVars, cacheVars, fetchVars, unlockVars, memVars, predictVars

LEMMA PreemptAppend ==
  ASSUME squeue \in Seq(Kind), UniquePreempt, NEW k \in Kind, squeue' = Append(squeue, k)
  PROVE  /\ k # "Preempt" => SamePreempt
         /\ k = "Preempt" /\ ~InQueue("Preempt") => UniquePreempt' /\ InQueue("Preempt")'
<1>1. /\ Len(squeue) \in Nat /\ Len(squeue') = Len(squeue) + 1
      /\ \A i \in 1 .. Len(squeue) : squeue'[i] = squeue[i]
      /\ squeue'[Len(squeue) + 1] = k
  BY Appended
<1>2. Len(squeue) + 1 \in 1 .. Len(squeue') /\ \A i \in 1 .. Len(squeue) : i \in 1 .. Len(squeue')
  BY <1>1
<1>3. \A i \in 1 .. Len(squeue') : i \in 1 .. Len(squeue) \/ i = Len(squeue) + 1
  BY <1>1
<1>4. k # "Preempt" => SamePreempt
  BY <1>1, <1>2, <1>3 DEF SamePreempt, UniquePreempt, InQueue
<1>5. k = "Preempt" /\ ~InQueue("Preempt") => UniquePreempt' /\ InQueue("Preempt")'
  BY <1>1, <1>2, <1>3 DEF UniquePreempt, InQueue
<1> QED BY <1>4, <1>5

LEMMA PreemptTail ==
  ASSUME squeue \in Seq(Kind), squeue # << >>, UniquePreempt, squeue' = Tail(squeue)
  PROVE  /\ Head(squeue) # "Preempt" => SamePreempt
         /\ Head(squeue) = "Preempt" => UniquePreempt' /\ InQueue("Preempt") /\ ~InQueue("Preempt")'
<1>1. /\ Len(squeue) \in Nat \ {0} /\ Len(squeue') = Len(squeue) - 1
      /\ \A i \in 1 .. Len(squeue') : squeue'[i] = squeue[i + 1]
      /\ Head(squeue) = squeue[1]
  BY HeadTail
<1>2. \A i \in 1 .. Len(squeue') : i + 1 \in 1 .. Len(squeue) /\ i + 1 # 1
  BY <1>1
<1>3. 1 \in 1 .. Len(squeue) /\ \A i \in 1 .. Len(squeue) : i = 1 \/ i - 1 \in 1 .. Len(squeue')
  BY <1>1
<1>4. UniquePreempt'
  <2> SUFFICES ASSUME NEW i \in 1 .. Len(squeue'), NEW j \in 1 .. Len(squeue'),
                      squeue'[i] = "Preempt", squeue'[j] = "Preempt"
               PROVE  i = j
    BY DEF UniquePreempt
  <2>1. i + 1 = j + 1
    BY <1>1, <1>2 DEF UniquePreempt
  <2> QED BY <2>1
<1>5. InQueue("Preempt")' => InQueue("Preempt")
  BY <1>1, <1>2 DEF InQueue
<1>6. Head(squeue) # "Preempt" /\ InQueue("Preempt") => InQueue("Preempt")'
  <2> SUFFICES ASSUME Head(squeue) # "Preempt", NEW i \in 1 .. Len(squeue), squeue[i] = "Preempt"
               PROVE  InQueue("Preempt")'
    BY DEF InQueue
  <2>1. i - 1 \in 1 .. Len(squeue')
    BY <1>1, <1>3
  <2>2. squeue'[i - 1] = squeue[(i - 1) + 1] /\ (i - 1) + 1 = i
    BY <1>1, <2>1
  <2> QED BY <2>1, <2>2 DEF InQueue
<1>7. Head(squeue) = "Preempt" => InQueue("Preempt") /\ ~InQueue("Preempt")'
  BY <1>1, <1>2, <1>3 DEF UniquePreempt, InQueue
<1> QED BY <1>4, <1>5, <1>6, <1>7 DEF SamePreempt

LEMMA PreemptIdleAgain ==
  ASSUME squeue \in Seq(Kind), squeue # << >>, Head(squeue) # "Preempt", UniquePreempt,
         squeue' = IdleAgain
  PROVE  SamePreempt
<1>1. /\ Len(squeue) \in Nat \ {0} /\ Tail(squeue) \in Seq(Kind)
      /\ Len(Tail(squeue)) = Len(squeue) - 1
      /\ \A i \in 1 .. Len(Tail(squeue)) : Tail(squeue)[i] = squeue[i + 1]
      /\ Head(squeue) = squeue[1]
  BY HeadTail
<1>2. /\ Len(squeue') = Len(squeue)
      /\ \A i \in 1 .. (Len(squeue) - 1) : squeue'[i] = squeue[i + 1]
      /\ squeue'[Len(squeue)] = "Idle"
  BY <1>1, Appended DEF IdleAgain, Kind
<1>3. \A i \in 1 .. Len(squeue) : squeue'[i] = "Preempt" =>
        i + 1 \in 1 .. Len(squeue) /\ squeue[i + 1] = "Preempt"
  BY <1>1, <1>2
<1>4. \A i \in 1 .. Len(squeue) : squeue[i] = "Preempt" =>
        i - 1 \in 1 .. Len(squeue) /\ squeue'[i - 1] = "Preempt"
  <2> SUFFICES ASSUME NEW i \in 1 .. Len(squeue), squeue[i] = "Preempt"
               PROVE  i - 1 \in 1 .. Len(squeue) /\ squeue'[i - 1] = "Preempt"
    OBVIOUS
  <2>1. i # 1 /\ i - 1 \in 1 .. (Len(squeue) - 1) /\ (i - 1) + 1 = i
    BY <1>1
  <2> QED BY <1>2, <2>1
<1>5. UniquePreempt'
  <2> SUFFICES ASSUME NEW i \in 1 .. Len(squeue'), NEW j \in 1 .. Len(squeue'),
                      squeue'[i] = "Preempt", squeue'[j] = "Preempt"
               PROVE  i = j
    BY DEF UniquePreempt
  <2>1. i + 1 = j + 1
    BY <1>2, <1>3 DEF UniquePreempt
  <2> QED BY <2>1
<1> QED BY <1>2, <1>3, <1>4, <1>5 DEF SamePreempt, InQueue

(* Every way the scheduler's queue changes, but for the preempt task. *)
LEMMA PreemptSame ==
  ASSUME TypeInv, UniquePreempt, Next, ~HookReportLayer, ~SchedPreempt
  PROVE  SamePreempt
<1>t. squeue \in Seq(Kind)
  BY DEF TypeInv, TypeOK, Kind
<1>1. CASE squeue' = squeue
  BY <1>1 DEF SamePreempt, UniquePreempt, InQueue
<1>2. ASSUME NEW k \in Kind \ {"Preempt"}, squeue' = Append(squeue, k) PROVE SamePreempt
  BY <1>2, <1>t, PreemptAppend
<1>3. ASSUME NEW k \in Kind \ {"Preempt"}, Take(k), squeue' \in {Tail(squeue), IdleAgain}
      PROVE  SamePreempt
  BY <1>3, <1>t, PreemptTail, PreemptIdleAgain DEF Take
<1>k. \A k \in {"Idle", "FetchDone", "PreemptOne", "Prefetch"} : k \in Kind \ {"Preempt"}
  BY DEF Kind
<1>4. CASE Hook
  <2>1. squeue' = squeue \/ squeue' = Append(squeue, "PreemptOne")
    BY <1>4 DEF Hook, HookStart, HookReportExpert, HookExpertDone, HookLayerDone
  <2> QED BY <1>1, <1>2, <1>k, <2>1
<1>5. CASE Scheduler
  <2>1. CASE SchedPreemptExpert \/ SchedPreemptEnd
    BY <1>1, <2>1 DEF SchedPreemptExpert, SchedPreemptEnd
  <2>2. CASE SchedPreemptOne \/ SchedPrefetchLayer \/ SchedFetchDone \/ SchedIdleAgain
    BY <1>3, <1>k, <2>2 DEF SchedPreemptOne, SchedPrefetchLayer, SchedFetchDone, SchedIdleAgain
  <2>3. CASE SchedIdle
    <3>1. Take("Idle")
      BY <2>3 DEF SchedIdle
    <3>2. \A t : SendOneJob(t) => squeue' \in {squeue, Tail(squeue), IdleAgain}
      BY DEF SendOneJob, SendMissed, SendDuplicate, SendRest, Fetch
    <3>3. squeue' \in {squeue, Tail(squeue), IdleAgain}
      BY <2>3, <3>2 DEF SchedIdle, PopPrecise, PopLayer
    <3> QED BY <1>1, <1>3, <1>k, <3>1, <3>3
  <2> QED BY <1>5, <2>1, <2>2, <2>3 DEF Scheduler
<1>6. CASE Fetcher \/ StreamStep \/ Unlock \/ Predictor
  <2>1. squeue' = squeue \/ squeue' = Append(squeue, "FetchDone") \/ squeue' = Append(squeue, "Prefetch")
    BY <1>6 DEF Fetcher, FetchStart, FetchEnd, StreamStep, Unlock, Predictor, PredictStart,
       PredictLayer, PredictLayerDone
  <2> QED BY <1>1, <1>2, <1>k, <2>1
<1> QED BY <1>4, <1>5, <1>6 DEF Next, Step

(* The preempt task and the budget, together.                                                 *)
BudgetKept ==
  budget + prefetch_layer_progress + (IF ppc = "submitted" THEN 1 ELSE 0)
    + (IF Outstanding THEN 1 ELSE 0) = MaxPrefetchLayerDistance

BudgetInv == PreemptInv /\ BudgetKept

(* Steps that touch neither. *)
LEMMA BudgetFrame ==
  ASSUME BudgetInv, SamePreempt,
         UNCHANGED <<budget, prefetch_layer_progress, ppc, spc, hpc>>
  PROVE  BudgetInv'
<1>1. Outstanding' <=> Outstanding
  BY DEF Outstanding, SamePreempt
<1> QED BY <1>1 DEF BudgetInv, PreemptInv, BudgetKept, SamePreempt

(* Steps of the hook inside a layer, or outside all. *)
LEMMA BudgetFrameHook ==
  ASSUME BudgetInv, SamePreempt, UNCHANGED <<budget, prefetch_layer_progress, ppc, spc>>,
         \/ hpc = "start" /\ hpc' = "layer"
         \/ hpc = "expert" /\ hpc' = "wait" /\ ~InQueue("Preempt") /\ spc = "ready"
         \/ hpc = "wait" /\ hpc' \in {"expert", "layer_done"}
  PROVE  BudgetInv'
<1>1. ~InQueue("Preempt") /\ spc # "preempting"
  BY DEF BudgetInv, PreemptInv
<1>2. Outstanding' <=> Outstanding
  BY <1>1 DEF Outstanding, SamePreempt
<1> QED BY <1>1, <1>2 DEF BudgetInv, PreemptInv, BudgetKept, SamePreempt

LEMMA HookMovesHpc == Hook => ~SchedPreempt
BY DEF Hook, HookStart, HookReportLayer, HookReportExpert, HookExpertDone, HookLayerDone,
   SchedPreempt

LEMMA HookBudget == TypeInv /\ BudgetInv /\ Next /\ Hook => BudgetInv'
<1> SUFFICES ASSUME TypeInv, BudgetInv, Next, Hook PROVE BudgetInv'
  OBVIOUS
<1>t. /\ squeue \in Seq(Kind) /\ budget \in Nat /\ prefetch_layer_progress \in Nat
      /\ EarlyPreempt \in BOOLEAN /\ UniquePreempt
  BY ConstantsAssumption DEF TypeInv, TypeOK, Kind, BudgetInv, PreemptInv
<1>1. CASE HookReportLayer
  <2>1. ~InQueue("Preempt") /\ spc # "preempting" /\ ~Outstanding
    BY <1>1 DEF HookReportLayer, BudgetInv, PreemptInv, Outstanding
  <2>2. UniquePreempt' /\ InQueue("Preempt")'
    BY <1>1, <1>t, <2>1, PreemptAppend DEF HookReportLayer, Kind
  <2>3. Outstanding' /\ hpc' = "expert" /\ spc' = spc
    BY <1>1, <2>2 DEF HookReportLayer, Outstanding
  <2> QED BY <1>1, <1>t, <2>1, <2>2, <2>3 DEF HookReportLayer, BudgetInv, PreemptInv, BudgetKept
<1>2. CASE ~HookReportLayer
  <2>1. ~SchedPreempt
    BY HookMovesHpc
  <2>2. SamePreempt
    BY <1>2, <1>t, <2>1, PreemptSame
  <2>3. CASE HookStart
    BY <2>2, <2>3, BudgetFrameHook DEF HookStart
  <2>4. CASE HookReportExpert
    <3>1. ~InQueue("Preempt") /\ spc = "ready"
      BY <2>4 DEF HookReportExpert, HandlerEnded
    <3> QED BY <2>2, <2>4, <3>1, BudgetFrameHook DEF HookReportExpert
  <2>5. CASE HookExpertDone
    BY <2>2, <2>5, BudgetFrameHook DEF HookExpertDone
  <2>6. CASE HookLayerDone
    <3>1. ~InQueue("Preempt") /\ spc # "preempting" /\ hpc' \notin {"expert", "wait", "layer_done"}
      BY <2>6 DEF HookLayerDone, BudgetInv, PreemptInv
    <3>2. PreemptInv'
      BY <2>2, <2>6, <3>1 DEF HookLayerDone, PreemptInv, SamePreempt
    <3>3. CASE EarlyPreempt
      <4>1. ~Outstanding /\ ~Outstanding'
        BY <2>2, <2>6, <3>1, <3>3 DEF HookLayerDone, Outstanding, SamePreempt
      <4> QED BY <2>6, <3>2, <3>3, <4>1 DEF HookLayerDone, BudgetAfterLayer, BudgetInv, BudgetKept
    <3>4. CASE ~EarlyPreempt
      <4>1. Outstanding /\ ~Outstanding'
        BY <2>6, <3>1, <3>4 DEF HookLayerDone, Outstanding
      <4>2. budget' = budget + 1 /\ UNCHANGED <<prefetch_layer_progress, ppc>>
        BY <2>6, <3>4 DEF HookLayerDone, BudgetAfterLayer
      <4> QED BY <1>t, <3>2, <4>1, <4>2 DEF BudgetInv, BudgetKept
    <3> QED BY <3>3, <3>4
  <2> QED BY <1>2, <2>3, <2>4, <2>5, <2>6 DEF Hook
<1> QED BY <1>1, <1>2

LEMMA SchedulerBudget == TypeInv /\ BudgetInv /\ Next /\ Scheduler => BudgetInv'
<1> SUFFICES ASSUME TypeInv, BudgetInv, Next, Scheduler PROVE BudgetInv'
  OBVIOUS
<1>t. /\ squeue \in Seq(Kind) /\ budget \in Nat /\ prefetch_layer_progress \in Nat
      /\ UniquePreempt
  BY DEF TypeInv, TypeOK, Kind, BudgetInv, PreemptInv
<1>h. UNCHANGED <<hpc, prefetch_layer_progress, ppc>>
  BY DEF Scheduler, SchedPreempt, SchedPreemptExpert, SchedPreemptEnd, SchedPreemptOne,
     SchedPrefetchLayer, SchedFetchDone, SchedIdle, SchedIdleAgain
<1>1. CASE SchedPreempt
  <2>1. /\ squeue # << >> /\ Head(squeue) = "Preempt" /\ squeue' = Tail(squeue)
        /\ spc = "ready" /\ budget' = budget
        /\ spc' = IF EarlyPreempt THEN "preempting" ELSE "ready"
    BY <1>1 DEF SchedPreempt, Take
  <2>2. UniquePreempt' /\ InQueue("Preempt") /\ ~InQueue("Preempt")'
    BY <1>t, <2>1, PreemptTail
  <2>3. hpc = "expert"
    BY <2>2 DEF BudgetInv, PreemptInv
  <2>4. Outstanding /\ Outstanding'
    BY <1>h, <2>1, <2>2, <2>3 DEF Outstanding
  <2> QED BY <1>h, <2>1, <2>2, <2>3, <2>4 DEF BudgetInv, PreemptInv, BudgetKept
<1>2. CASE SchedPreemptEnd
  <2>1. /\ spc = "preempting" /\ spc' = "ready" /\ budget' = budget + 1
        /\ ~InQueue("Preempt") /\ ~InQueue("Preempt")' /\ UniquePreempt' /\ EarlyPreempt
    BY <1>2, <1>t DEF SchedPreemptEnd, BudgetInv, PreemptInv, InQueue, UniquePreempt
  <2>2. Outstanding /\ ~Outstanding'
    BY <2>1 DEF Outstanding
  <2> QED BY <1>h, <1>t, <2>1, <2>2 DEF BudgetInv, PreemptInv, BudgetKept
<1>3. CASE ~SchedPreempt /\ ~SchedPreemptEnd
  <2>1. UNCHANGED <<budget, spc>>
    BY <1>3 DEF Scheduler, SchedPreemptExpert, SchedPreemptOne, SchedPrefetchLayer,
       SchedFetchDone, SchedIdle, SchedIdleAgain
  <2>2. ~HookReportLayer
    BY <1>h DEF HookReportLayer
  <2> QED BY <1>3, <1>h, <1>t, <2>1, <2>2, PreemptSame, BudgetFrame
<1> QED BY <1>1, <1>2, <1>3

LEMMA OtherBudget ==
  TypeInv /\ BudgetInv /\ Next /\ (Fetcher \/ StreamStep \/ Unlock \/ Predictor) => BudgetInv'
<1> SUFFICES ASSUME TypeInv, BudgetInv, Next, Fetcher \/ StreamStep \/ Unlock \/ Predictor
             PROVE  BudgetInv'
  OBVIOUS
<1>t. budget \in Nat /\ prefetch_layer_progress \in Nat /\ UniquePreempt
  BY DEF TypeInv, TypeOK, BudgetInv, PreemptInv
<1>h. UNCHANGED <<hpc, spc>>
  BY DEF Fetcher, FetchStart, FetchEnd, StreamStep, Unlock, Predictor, PredictStart,
     PredictLayer, PredictLayerDone
<1>1. ~HookReportLayer
  BY <1>h DEF HookReportLayer
<1>2. ~SchedPreempt
  BY <1>1 DEF SchedPreempt, Take, Fetcher, FetchStart, FetchEnd, StreamStep, Unlock, Predictor,
     PredictStart, PredictLayer, PredictLayerDone
<1>3. SamePreempt
  BY <1>t, <1>1, <1>2, PreemptSame
<1>4. CASE UNCHANGED <<budget, prefetch_layer_progress, ppc>>
  BY <1>3, <1>4, <1>h, BudgetFrame
<1>5. CASE PredictLayer \/ PredictLayerDone
  <2>1. Outstanding' <=> Outstanding
    BY <1>3, <1>h DEF Outstanding, SamePreempt
  <2>2. PreemptInv'
    BY <1>3, <1>h DEF BudgetInv, PreemptInv, SamePreempt
  <2>3. BudgetKept'
    <3>1. CASE PredictLayer
      BY <3>1, <1>t, <2>1 DEF PredictLayer, BudgetInv, BudgetKept
    <3>2. CASE PredictLayerDone
      BY <3>2, <1>t, <2>1 DEF PredictLayerDone, BudgetInv, BudgetKept
    <3> QED BY <1>5, <3>1, <3>2
  <2> QED BY <2>2, <2>3 DEF BudgetInv
<1> QED BY <1>4, <1>5 DEF Fetcher, FetchStart, FetchEnd, StreamStep, Unlock, Predictor,
       PredictStart

LEMMA NextBudget == TypeInv /\ BudgetInv /\ [Next]_vars => BudgetInv'
<1>1. TypeInv /\ BudgetInv /\ Next => BudgetInv'
  BY HookBudget, SchedulerBudget, OtherBudget DEF Next, Step
<1>2. BudgetInv /\ UNCHANGED vars => BudgetInv'
  BY DEF vars, BudgetInv, PreemptInv, UniquePreempt, BudgetKept, Outstanding, InQueue
<1> QED BY <1>1, <1>2

LEMMA InitBudget == Init => BudgetInv
<1> SUFFICES ASSUME Init PROVE BudgetInv
  OBVIOUS
<1>1. squeue = <<"Idle">> /\ ~InQueue("Preempt") /\ UniquePreempt
  BY DEF Init, InQueue, UniquePreempt
<1> QED BY <1>1, ConstantsAssumption DEF Init, BudgetInv, PreemptInv, BudgetKept, Outstanding

-----------------------------------------------------------------------------
(* The steps of the two sides, modulo the number of layers. *)
Multiple(x) == \E k \in Int : x = k * NumLayer

LEMMA MultipleShift ==
  ASSUME NEW x \in Int, Multiple(x)
  PROVE  Multiple(x + NumLayer) /\ Multiple(x - NumLayer)
<1>1. PICK k \in Int : x = k * NumLayer
  BY DEF Multiple
<1>2. /\ k + 1 \in Int /\ x + NumLayer = (k + 1) * NumLayer
      /\ k - 1 \in Int /\ x - NumLayer = (k - 1) * NumLayer
  BY <1>1, ConstantsAssumption
<1> QED BY <1>2 DEF Multiple

LEMMA MultipleMod ==
  ASSUME NEW x \in Int, Multiple(x)
  PROVE  x % NumLayer = 0
<1>n. NumLayer \in Nat \ {0}
  BY ConstantsAssumption
<1>1. PICK k \in Int : x = k * NumLayer
  BY DEF Multiple
<1> DEFINE m == x \div NumLayer
           d == x % NumLayer
<1>2. m \in Int /\ d \in 0 .. (NumLayer - 1) /\ x = m * NumLayer + d
  BY <1>n
<1>3. (k - m) * NumLayer = d
  BY <1>1, <1>2, <1>n
<1>4. CASE k - m >= 1
  <2>1. (k - m) * NumLayer >= NumLayer
    BY <1>4, <1>n, <1>2
  <2> QED BY <1>2, <1>3, <1>n, <2>1
<1>5. CASE k - m <= -1
  <2>1. (k - m) * NumLayer <= -NumLayer
    BY <1>5, <1>n, <1>2
  <2> QED BY <1>2, <1>3, <1>n, <2>1
<1>6. CASE k - m = 0
  BY <1>3, <1>6, <1>n
<1> QED BY <1>2, <1>4, <1>5, <1>6

(* The layer after the i-th job in the queue; after job 0, the one that is being done.        *)
EndOfJob(i) == Wrap(IF i = 0 THEN pstop ELSE PredictRange[predict_jobs[i]][2])

LastPosted == IF hpc \in {"start", "done"} THEN NumLayer ELSE layer

ChainInv(upto) ==
  /\ \A i \in 1 .. Len(predict_jobs) :
       Wrap(PredictRange[predict_jobs[i]][1]) = EndOfJob(i - 1)
  /\ EndOfJob(Len(predict_jobs)) = upto[LastPosted]

(* The hook between layers is at layer 0.                                                     *)
AtStart == hpc \in {"start", "done"} => layer = 0

(* Layers run, being run or about to be, against layers predicted.                            *)
Ahead == layer + (IF hpc \in {"expert", "wait", "layer_done"} THEN 1 ELSE 0) + prefetch_layer_progress

InStep == Multiple(Ahead - pnext)

LEMMA PostJob ==
  ASSUME TypeInv, NEW upto \in [0 .. NumLayer -> Layer], Continues(upto), ChainInv(upto),
         NEW t \in 0 .. NumLayer, Before(t) = LastPosted, predict_jobs' = JobsAfter(t),
         pstop' = pstop, LastPosted' = t
  PROVE  ChainInv(upto)'
<1>t. predict_jobs \in Seq(0 .. NumLayer) /\ Len(predict_jobs) \in Nat
  BY DEF TypeInv, TypeOK
<1>1. CASE PredictRange[t][1] < PredictRange[t][2]
  <2>1. /\ Len(predict_jobs') = Len(predict_jobs) + 1
        /\ \A i \in 1 .. Len(predict_jobs) : predict_jobs'[i] = predict_jobs[i]
        /\ predict_jobs'[Len(predict_jobs) + 1] = t
    BY <1>1, <1>t, Appended DEF JobsAfter
  <2>2. \A i \in 0 .. Len(predict_jobs) : EndOfJob(i)' = EndOfJob(i)
    BY <2>1, <1>t DEF EndOfJob, Wrap
  <2>3. EndOfJob(Len(predict_jobs))' = Wrap(PredictRange[t][2])
    BY <2>1, <1>t DEF EndOfJob, Wrap
  <2>4. Wrap(PredictRange[t][1]) = EndOfJob(Len(predict_jobs)) /\ Wrap(PredictRange[t][2]) = upto[t]
    BY <1>1 DEF Continues, ChainInv
  <2>5. ASSUME NEW i \in 1 .. Len(predict_jobs')
        PROVE  Wrap(PredictRange[predict_jobs'[i]][1]) = EndOfJob(i - 1)'
    <3>1. CASE i = Len(predict_jobs) + 1
      BY <1>t, <2>1, <2>2, <2>4, <3>1
    <3>2. CASE i \in 1 .. Len(predict_jobs)
      <4>1. i - 1 \in 0 .. Len(predict_jobs)
        BY <1>t, <3>2
      <4> QED BY <2>1, <2>2, <3>2, <4>1 DEF ChainInv
    <3> QED BY <1>t, <2>1, <3>1, <3>2
  <2> QED BY <2>1, <2>3, <2>4, <2>5 DEF ChainInv, Wrap
<1>2. CASE ~(PredictRange[t][1] < PredictRange[t][2])
  <2>1. predict_jobs' = predict_jobs /\ upto[t] = upto[LastPosted]
    BY <1>2 DEF JobsAfter, Continues
  <2> QED BY <2>1 DEF ChainInv, EndOfJob, Wrap
<1> QED BY <1>1, <1>2

LEMMA TakeJob ==
  ASSUME TypeInv, NEW upto, ChainInv(upto), PredictStart
  PROVE  ChainInv(upto)' /\ Wrap(pnext') = Wrap(pnext)
<1>t. /\ predict_jobs \in Seq(0 .. NumLayer) /\ predict_jobs # << >>
      /\ predict_jobs' = Tail(predict_jobs)
      /\ pnext' = PredictRange[Head(predict_jobs)][1] /\ pstop' = PredictRange[Head(predict_jobs)][2]
      /\ pnext = pstop /\ LastPosted' = LastPosted
  BY DEF TypeInv, TypeOK, PredictStart, LastPosted
<1>1. /\ Len(predict_jobs) \in Nat \ {0} /\ Len(predict_jobs') = Len(predict_jobs) - 1
      /\ \A i \in 1 .. Len(predict_jobs') : predict_jobs'[i] = predict_jobs[i + 1]
      /\ Head(predict_jobs) = predict_jobs[1]
  BY <1>t, HeadTail
<1>2. Wrap(pnext') = Wrap(pnext)
  <2>1. Wrap(PredictRange[predict_jobs[1]][1]) = EndOfJob(1 - 1)
    BY <1>1 DEF ChainInv
  <2> QED BY <1>t, <1>1, <2>1 DEF EndOfJob
<1>3. \A i \in 0 .. Len(predict_jobs') : EndOfJob(i)' = EndOfJob(i + 1)
  BY <1>t, <1>1 DEF EndOfJob, Wrap
<1>4. ASSUME NEW i \in 1 .. Len(predict_jobs')
      PROVE  Wrap(PredictRange[predict_jobs'[i]][1]) = EndOfJob(i - 1)'
  <2>1. /\ i + 1 \in 1 .. Len(predict_jobs) /\ i - 1 \in 0 .. Len(predict_jobs')
        /\ (i + 1) - 1 = (i - 1) + 1
    BY <1>1
  <2> QED BY <1>1, <1>3, <2>1 DEF ChainInv
<1>5. EndOfJob(Len(predict_jobs))' = EndOfJob(Len(predict_jobs))
  <2>1. Len(predict_jobs') \in 0 .. Len(predict_jobs') /\ Len(predict_jobs') + 1 = Len(predict_jobs)
    BY <1>1
  <2>2. \A n \in 0 .. Len(predict_jobs') : n = Len(predict_jobs') => EndOfJob(n)' = EndOfJob(n + 1)
    BY <1>3
  <2> QED BY <2>1, <2>2 DEF EndOfJob
<1> QED BY <1>t, <1>2, <1>4, <1>5 DEF ChainInv, Wrap

StepInv(upto) == ChainInv(upto) /\ AtStart /\ InStep

LEMMA MultipleWrap ==
  ASSUME NEW x \in Int, NEW a \in 0 .. NumLayer, NEW b \in 0 .. NumLayer,
         Wrap(a) = Wrap(b), Multiple(x - a)
  PROVE  Multiple(x - b)
<1>n. NumLayer \in Nat \ {0}
  BY ConstantsAssumption
<1>1. CASE a = b
  BY <1>1
<1>2. CASE a = NumLayer /\ b = 0
  <2>1. Multiple((x - a) + NumLayer) /\ (x - a) + NumLayer = x - b
    BY <1>2, <1>n, MultipleShift
  <2> QED BY <2>1
<1>3. CASE a = 0 /\ b = NumLayer
  <2>1. Multiple((x - a) - NumLayer) /\ (x - a) - NumLayer = x - b
    BY <1>3, <1>n, MultipleShift
  <2> QED BY <2>1
<1> QED BY <1>1, <1>2, <1>3, <1>n DEF Wrap

LEMMA HookStep ==
  ASSUME TypeInv, NEW upto \in [0 .. NumLayer -> Layer], Continues(upto), StepInv(upto), Hook
  PROVE  StepInv(upto)'
<1>n. /\ NumLayer \in Nat \ {0} /\ layer \in 0 .. (NumLayer - 1) /\ pnext \in 0 .. NumLayer
      /\ prefetch_layer_progress \in Nat
  BY ConstantsAssumption DEF TypeInv, TypeOK, Layer
<1>1. CASE HookStart
  <2>1. /\ hpc = "start" /\ hpc' = "layer" /\ layer = 0 /\ predict_jobs' = JobsAfter(0)
        /\ UNCHANGED <<layer, pnext, pstop, prefetch_layer_progress>>
    BY <1>1 DEF HookStart, StepInv, AtStart
  <2>2. ChainInv(upto)'
    <3>1. 0 \in 0 .. NumLayer /\ Before(0) = LastPosted /\ LastPosted' = 0 /\ ChainInv(upto)
      BY <2>1, <1>n DEF Before, LastPosted, StepInv
    <3> QED BY <2>1, <3>1, PostJob
  <2>3. AtStart' /\ InStep'
    BY <2>1 DEF StepInv, AtStart, InStep, Ahead
  <2> QED BY <2>2, <2>3 DEF StepInv
<1>2. CASE HookReportLayer
  <2>1. /\ hpc = "layer" /\ hpc' = "expert" /\ prefetch_layer_progress' = prefetch_layer_progress - 1
        /\ UNCHANGED <<layer, pnext, pstop, predict_jobs>>
    BY <1>2 DEF HookReportLayer
  <2>2. Ahead' = Ahead
    BY <2>1, <1>n DEF Ahead
  <2>3. InStep'
    BY <2>1, <2>2 DEF StepInv, InStep
  <2> QED BY <2>1, <2>3 DEF StepInv, ChainInv, EndOfJob, Wrap, LastPosted, AtStart
<1>3. CASE HookReportExpert \/ HookExpertDone
  BY <1>3 DEF HookReportExpert, HookExpertDone, StepInv, ChainInv, EndOfJob, Wrap, LastPosted,
     AtStart, InStep, Ahead
<1>4. CASE HookLayerDone
  <2>1. /\ hpc = "layer_done" /\ predict_jobs' = JobsAfter(layer + 1)
        /\ UNCHANGED <<pnext, pstop, prefetch_layer_progress>>
        /\ layer' = NextLayer
        /\ hpc' \in IF layer = NumLayer - 1 THEN {"start", "done"} ELSE {"layer"}
    BY <1>4 DEF HookLayerDone
  <2>2. ChainInv(upto)'
    <3>1. /\ layer + 1 \in 0 .. NumLayer /\ Before(layer + 1) = LastPosted
          /\ LastPosted' = layer + 1 /\ ChainInv(upto)
      BY <2>1, <1>n DEF Before, LastPosted, NextLayer, StepInv
    <3> QED BY <2>1, <3>1, PostJob
  <2>3. AtStart'
    BY <2>1, <1>n DEF AtStart, NextLayer
  <2>4. InStep'
    <3>1. Ahead - pnext \in Int /\ Multiple(Ahead - pnext)
      BY <1>n DEF StepInv, InStep, Ahead
    <3>2. Multiple((Ahead - pnext) - NumLayer)
      BY <3>1, MultipleShift
    <3>3. Ahead' - pnext' \in {Ahead - pnext, (Ahead - pnext) - NumLayer}
      BY <2>1, <1>n DEF NextLayer, Ahead
    <3> QED BY <3>1, <3>2, <3>3 DEF InStep
  <2> QED BY <2>2, <2>3, <2>4 DEF StepInv
<1> QED BY <1>1, <1>2, <1>3, <1>4 DEF Hook

LEMMA PredictorStep ==
  ASSUME TypeInv, NEW upto \in [0 .. NumLayer -> Layer], Continues(upto), StepInv(upto), Predictor
  PROVE  StepInv(upto)'
<1>n. /\ NumLayer \in Nat \ {0} /\ layer \in 0 .. (NumLayer - 1) /\ pnext \in 0 .. NumLayer
      /\ prefetch_layer_progress \in Nat
  BY ConstantsAssumption DEF TypeInv, TypeOK, Layer
<1>1. CASE PredictStart
  <2>1. ChainInv(upto)' /\ Wrap(pnext') = Wrap(pnext)
    BY <1>1, TakeJob DEF StepInv
  <2>2. UNCHANGED <<layer, hpc, prefetch_layer_progress>> /\ pnext' \in 0 .. NumLayer
    BY <1>1, ConstantsAssumption, HeadTail DEF PredictStart, TypeInv, TypeOK
  <2>3. Ahead' = Ahead /\ Ahead \in Int
    BY <1>n, <2>2 DEF Ahead
  <2>4. InStep'
    <3>1. Multiple(Ahead - pnext)
      BY DEF StepInv, InStep
    <3>2. Multiple(Ahead - pnext')
      BY <1>n, <2>1, <2>2, <2>3, <3>1, MultipleWrap
    <3> QED BY <2>3, <3>2 DEF InStep
  <2> QED BY <2>1, <2>2, <2>4 DEF StepInv, AtStart
<1>2. CASE PredictLayer
  BY <1>2 DEF PredictLayer, StepInv, ChainInv, EndOfJob, Wrap, LastPosted, AtStart, InStep, Ahead
<1>3. CASE PredictLayerDone
  <2>1. /\ prefetch_layer_progress' = prefetch_layer_progress + 1 /\ pnext' = pnext + 1
        /\ UNCHANGED <<layer, hpc, pstop, predict_jobs>>
    BY <1>3 DEF PredictLayerDone
  <2>2. Ahead' - pnext' = Ahead - pnext
    BY <2>1, <1>n DEF Ahead
  <2>3. InStep'
    BY <2>2 DEF StepInv, InStep
  <2> QED BY <2>1, <2>3 DEF StepInv, ChainInv, EndOfJob, Wrap, LastPosted, AtStart
<1> QED BY <1>1, <1>2, <1>3 DEF Predictor

LEMMA NextStep ==
  ASSUME NEW upto \in [0 .. NumLayer -> Layer], Continues(upto)
  PROVE  TypeInv /\ StepInv(upto) /\ [Next]_vars => StepInv(upto)'
<1> SUFFICES ASSUME TypeInv, StepInv(upto), [Next]_vars PROVE StepInv(upto)'
  OBVIOUS
<1>1. CASE Hook \/ Predictor
  BY <1>1, HookStep, PredictorStep
<1>2. CASE UNCHANGED <<hpc, layer, predict_jobs, pnext, pstop, prefetch_layer_progress>>
  BY <1>2 DEF StepInv, ChainInv, EndOfJob, Wrap, LastPosted, AtStart, InStep, Ahead
<1>3. Scheduler => UNCHANGED <<hpc, layer, predict_jobs, pnext, pstop, prefetch_layer_progress>>
  BY DEF Scheduler, SchedPreempt, SchedPreemptExpert, SchedPreemptEnd, SchedPreemptOne,
     SchedPrefetchLayer, SchedFetchDone, SchedIdle, SchedIdleAgain
<1>4. Fetcher \/ StreamStep \/ Unlock =>
        UNCHANGED <<hpc, layer, predict_jobs, pnext, pstop, prefetch_layer_progress>>
  BY DEF Fetcher, FetchStart, FetchEnd, StreamStep, Unlock
<1>5. UNCHANGED vars => UNCHANGED <<hpc, layer, predict_jobs, pnext, pstop, prefetch_layer_progress>>
  BY DEF vars
<1> QED BY <1>1, <1>2, <1>3, <1>4, <1>5 DEF Next, Step

LEMMA InitStep ==
  ASSUME NEW upto \in [0 .. NumLayer -> Layer], Continues(upto)
  PROVE  Init => StepInv(upto)
<1> SUFFICES ASSUME Init PROVE StepInv(upto)
  OBVIOUS
<1>n. NumLayer \in Nat \ {0} /\ NumLayer \in 0 .. NumLayer /\ Before(NumLayer) = NumLayer - 1
  BY ConstantsAssumption DEF Before
<1>1. AtStart /\ InStep
  <2>1. 0 + 0 + 0 - 0 = 0 * NumLayer
    BY <1>n
  <2> QED BY <2>1 DEF Init, AtStart, InStep, Multiple, Ahead
<1>2. CASE PredictRange[NumLayer][1] < PredictRange[NumLayer][2]
  <2>1. /\ predict_jobs = <<NumLayer>> /\ Len(predict_jobs) = 1 /\ predict_jobs[1] = NumLayer
        /\ pstop = 0 /\ LastPosted = NumLayer
    BY <1>2 DEF Init, LastPosted
  <2>2. Wrap(PredictRange[NumLayer][1]) = 0 /\ Wrap(PredictRange[NumLayer][2]) = upto[NumLayer]
    BY <1>2, <1>n DEF Continues
  <2>3. EndOfJob(0) = 0 /\ EndOfJob(1) = upto[NumLayer]
    BY <1>n, <2>1, <2>2 DEF EndOfJob, Wrap
  <2> QED BY <1>1, <2>1, <2>2, <2>3 DEF StepInv, ChainInv
<1>3. CASE ~(PredictRange[NumLayer][1] < PredictRange[NumLayer][2])
  <2>1. predict_jobs = << >> /\ pstop = 0 /\ LastPosted = NumLayer /\ EndOfJob(0) = 0
    BY <1>3, <1>n DEF Init, LastPosted, EndOfJob, Wrap
  <2>2. upto[NumLayer] = 0
    BY <1>3, <1>n DEF Continues
  <2> QED BY <1>1, <2>1, <2>2 DEF StepInv, ChainInv
<1> QED BY <1>2, <1>3

(* Budget is neither lost nor made up, and the progress the hook consumes is that of the      *)
(* layer it is about to run, if the jobs continue one another.                                *)
THEOREM WindowKept ==
  ASSUME InOrder
  PROVE  Spec => []PrefetchWindow
<1>1. PICK upto \in [0 .. NumLayer -> Layer] : Continues(upto)
  BY InOrder DEF InOrder
<1>2. Spec => []TypeInv
  BY InitTypeInv, NextTypeInv, PTL DEF Spec
<1>3. Spec => []BudgetInv
  BY <1>2, InitBudget, NextBudget, PTL DEF Spec
<1>4. Spec => []StepInv(upto)
  <2>1. Init => StepInv(upto)
    BY <1>1, InitStep
  <2>2. TypeInv /\ StepInv(upto) /\ [Next]_vars => StepInv(upto)'
    BY <1>1, NextStep
  <2> QED BY <1>2, <2>1, <2>2, PTL DEF Spec
<1>5. TypeInv /\ BudgetInv /\ StepInv(upto) => PrefetchWindow
  <2> SUFFICES ASSUME TypeInv, BudgetInv, StepInv(upto) PROVE PrefetchWindow
    OBVIOUS
  <2> DEFINE x == Ahead - pnext
  <2>1. x \in Int
    BY ConstantsAssumption DEF TypeInv, TypeOK, Layer, Ahead
  <2>2. Multiple(x)
    BY DEF StepInv, InStep
  <2>3. x % NumLayer = 0
    BY <2>1, <2>2, MultipleMod
  <2>4. layer + (IF hpc \in {"expert", "wait", "layer_done"} THEN 1 ELSE 0)
          + prefetch_layer_progress - pnext = x
    BY ConstantsAssumption DEF TypeInv, TypeOK, Layer, Ahead
  <2> QED BY <2>3, <2>4 DEF PrefetchWindow, BudgetInv, BudgetKept
<1> QED BY <1>2, <1>3, <1>4, <1>5, PTL

-----------------------------------------------------------------------------
(* One job at a time: OneJobToken says there is at most one token; it is never lost either.      *)
Token == InQueue("Idle") \/ InQueue("FetchDone") \/ fpc # "idle"

LEMMA TokenKeptAppend ==
  ASSUME squeue \in Seq(Kind), NEW k \in Kind, squeue' = Append(squeue, k)
  PROVE  InQueue(k)' /\ \A kind : InQueue(kind) => InQueue(kind)'
<1>1. /\ Len(squeue) \in Nat /\ Len(squeue') = Len(squeue) + 1
      /\ \A i \in 1 .. Len(squeue) : squeue'[i] = squeue[i]
      /\ squeue'[Len(squeue) + 1] = k
  BY Appended
<1>2. Len(squeue) + 1 \in 1 .. Len(squeue') /\ \A i \in 1 .. Len(squeue) : i \in 1 .. Len(squeue')
  BY <1>1
<1> QED BY <1>1, <1>2 DEF InQueue

LEMMA TokenKeptTail ==
  ASSUME squeue \in Seq(Kind), squeue # << >>, squeue' = Tail(squeue), NEW kind, Head(squeue) # kind,
         InQueue(kind)
  PROVE  InQueue(kind)'
<1>1. /\ Len(squeue) \in Nat \ {0} /\ Len(squeue') = Len(squeue) - 1
      /\ \A i \in 1 .. Len(squeue') : squeue'[i] = squeue[i + 1]
      /\ Head(squeue) = squeue[1]
  BY HeadTail
<1>2. PICK i \in 1 .. Len(squeue) : squeue[i] = kind
  BY DEF InQueue
<1>3. i - 1 \in 1 .. Len(squeue') /\ (i - 1) + 1 = i
  BY <1>1, <1>2
<1> QED BY <1>1, <1>2, <1>3 DEF InQueue

LEMMA TokenBack ==
  ASSUME squeue \in Seq(Kind), squeue # << >>, squeue' = IdleAgain
  PROVE  InQueue("Idle")'
<1>1. Tail(squeue) \in Seq(Kind) /\ "Idle" \in Kind
  BY HeadTail DEF Kind
<1>2. /\ Len(squeue') = Len(Tail(squeue)) + 1 /\ Len(Tail(squeue)) \in Nat
      /\ squeue'[Len(Tail(squeue)) + 1] = "Idle"
  BY <1>1, Appended DEF IdleAgain
<1>3. Len(Tail(squeue)) + 1 \in 1 .. Len(squeue')
  BY <1>2
<1> QED BY <1>2, <1>3 DEF InQueue

LEMMA NextToken == TypeInv /\ Token /\ [Next]_vars => Token'
<1> SUFFICES ASSUME TypeInv, Token, [Next]_vars PROVE Token'
  OBVIOUS
<1>t. squeue \in Seq(Kind)
  BY DEF TypeInv, TypeOK, Kind
<1>1. CASE UNCHANGED <<squeue, fpc>>
  BY <1>1 DEF Token, InQueue
<1>2. ASSUME NEW k \in Kind, squeue' = Append(squeue, k), UNCHANGED fpc PROVE Token'
  BY <1>t, <1>2, TokenKeptAppend DEF Token
<1>3. ASSUME NEW k \in {"Preempt", "PreemptOne", "Prefetch"}, Take(k), squeue' = Tail(squeue),
             UNCHANGED fpc
      PROVE  Token'
  <2>1. squeue # << >> /\ Head(squeue) # "Idle" /\ Head(squeue) # "FetchDone"
    BY <1>3 DEF Take
  <2> QED BY <1>t, <1>3, <2>1, TokenKeptTail DEF Token
<1>4. ASSUME squeue # << >>, squeue' = IdleAgain PROVE Token'
  BY <1>t, <1>4, TokenBack DEF Token
<1>5. CASE Hook
  <2>1. /\ squeue' = squeue \/ squeue' = Append(squeue, "Preempt") \/ squeue' = Append(squeue, "PreemptOne")
        /\ fpc' = fpc
    BY <1>5 DEF Hook, HookStart, HookReportLayer, HookReportExpert, HookExpertDone, HookLayerDone
  <2> QED BY <1>1, <1>2, <2>1 DEF Kind
<1>6. CASE SchedPreempt \/ SchedPreemptOne \/ SchedPrefetchLayer
  BY <1>3, <1>6 DEF SchedPreempt, SchedPreemptOne, SchedPrefetchLayer
<1>7. CASE SchedPreemptExpert \/ SchedPreemptEnd
  BY <1>1, <1>7 DEF SchedPreemptExpert, SchedPreemptEnd
<1>8. CASE SchedFetchDone \/ SchedIdleAgain
  BY <1>4, <1>8 DEF SchedFetchDone, SchedIdleAgain, Take
<1>9. CASE SchedIdle
  <2>1. squeue # << >>
    BY <1>9 DEF SchedIdle, Take
  <2>2. \A t : SendOneJob(t) => UNCHANGED <<squeue, fpc>> \/ squeue' = IdleAgain \/ fpc' = "wait"
    BY DEF SendOneJob, SendMissed, SendDuplicate, SendRest, Fetch
  <2>3. UNCHANGED <<squeue, fpc>> \/ squeue' = IdleAgain \/ fpc' = "wait"
    BY <1>9, <2>2 DEF SchedIdle, PopPrecise, PopLayer
  <2> QED BY <1>1, <1>4, <2>1, <2>3 DEF Token
<1>10. CASE FetchStart
  BY <1>10 DEF FetchStart, Token
<1>11. CASE FetchEnd
  <2>1. squeue' = Append(squeue, "FetchDone") /\ "FetchDone" \in Kind
    BY <1>11 DEF FetchEnd, Kind
  <2> QED BY <1>t, <2>1, TokenKeptAppend DEF Token
<1>12. CASE StreamStep \/ Unlock \/ Predictor
  <2>1. (squeue' = squeue \/ squeue' = Append(squeue, "Prefetch")) /\ fpc' = fpc
    BY <1>12 DEF StreamStep, Unlock, Predictor, PredictStart, PredictLayer, PredictLayerDone
  <2> QED BY <1>1, <1>2, <2>1 DEF Kind
<1>13. UNCHANGED vars => UNCHANGED <<squeue, fpc>>
  BY DEF vars
<1> QED BY <1>1, <1>5, <1>6, <1>7, <1>8, <1>9, <1>10, <1>11, <1>12, <1>13
        DEF Next, Step, Scheduler, Fetcher

(* A token kind occurs once or not at all. *)
LEMMA TokenCount ==
  ASSUME TypeInv, OneJobToken, NEW kind \in TokenKind
  PROVE  Count(squeue, kind) = IF InQueue(kind) THEN 1 ELSE 0
<1> DEFINE places == {i \in 1 .. Len(squeue) : squeue[i] = kind}
<1>1. CASE InQueue(kind)
  <2>1. PICK i \in 1 .. Len(squeue) : squeue[i] = kind
    BY <1>1 DEF InQueue
  <2>2. places = {i}
    BY <2>1 DEF OneJobToken, UniqueToken
  <2>3. Cardinality(places) = 1
    BY <2>2, FS_Singleton
  <2> QED BY <1>1, <2>3 DEF Count
<1>2. CASE ~InQueue(kind)
  <2>1. places = {}
    BY <1>2 DEF InQueue
  <2>2. Cardinality(places) = 0
    BY <2>1, FS_EmptySet
  <2> QED BY <1>2, <2>2 DEF Count
<1> QED BY <1>1, <1>2

(* The scheduler pops no job while a copy is under way, and always gets its IdleTask back.    *)
THEOREM OneCopyAtATime == Spec => []OneJobInFlight
<1>1. Spec => []TypeInv
  BY InitTypeInv, NextTypeInv, PTL DEF Spec
<1>2. Spec => []WeightsInv
  BY <1>1, CachePartitionsBuffers, InitWeights, NextWeights, PTL DEF Spec
<1>3. Init => Token
  <2>1. ASSUME Init PROVE Len(squeue) = 1 /\ squeue[1] = "Idle"
    BY <2>1 DEF Init
  <2> QED BY <2>1 DEF Token, InQueue
<1>4. Spec => []Token
  BY <1>1, <1>3, NextToken, PTL DEF Spec
<1>5. TypeInv /\ WeightsInv /\ Token => OneJobInFlight
  <2> SUFFICES ASSUME TypeInv, WeightsInv, Token PROVE OneJobInFlight
    OBVIOUS
  <2>1. OneJobToken
    BY DEF WeightsInv
  <2>2. /\ Count(squeue, "Idle") = IF InQueue("Idle") THEN 1 ELSE 0
        /\ Count(squeue, "FetchDone") = IF InQueue("FetchDone") THEN 1 ELSE 0
    BY <2>1, TokenCount DEF TokenKind
  <2>3. ~(InQueue("Idle") /\ InQueue("FetchDone"))
    BY <2>1 DEF OneJobToken, UniqueToken, TokenKind, InQueue
  <2>4. fpc # "idle" => current.expert # NoExpert /\ gpu_data[current.expert] # NoBuffer
    <3>1. fpc # "idle" => current.expert \in Expert /\ gpu_data[current.expert] # NoBuffer
      BY DEF WeightsInv, CurrentInv, InFlight, CopyTask
    <3> QED BY <3>1, ConstantsAssumption
  <2>5. Count(squeue, "Idle") + Count(squeue, "FetchDone") + (IF fpc = "idle" THEN 0 ELSE 1) = 1
    BY <2>1, <2>2, <2>3 DEF OneJobToken, Token
  <2> QED BY <2>4, <2>5 DEF OneJobInFlight
<1> QED BY <1>1, <1>2, <1>4, <1>5, PTL

-----------------------------------------------------------------------------
(* The jobs of an iteration predict its layers once, in order: the hypothesis on the ranges.   *)
(* It implies InOrder, which only says that jobs continue one another around the layers.       *)
OncePerIteration == OnceInOrder(PredictRange, NumLayer)

LEMMA OnceIsInOrder == OncePerIteration => InOrder
<1> SUFFICES ASSUME OncePerIteration PROVE InOrder
  OBVIOUS
<1>n. NumLayer \in Nat \ {0} /\ PredictRange \in [0 .. NumLayer -> (0 .. NumLayer) \X (0 .. NumLayer)]
  BY ConstantsAssumption
<1>1. PICK upto \in [0 .. NumLayer -> 0 .. NumLayer] : Covers(PredictRange, NumLayer, upto)
  BY DEF OncePerIteration, OnceInOrder
<1> DEFINE wrapped == [t \in 0 .. NumLayer |-> Wrap(upto[t])]
<1>2. wrapped \in [0 .. NumLayer -> Layer]
  <2>1. \A x \in 0 .. NumLayer : Wrap(x) \in Layer
    BY <1>n DEF Wrap, Layer
  <2> QED BY <2>1
<1>3. Wrap(0) = 0 /\ Wrap(NumLayer) = 0
  BY DEF Wrap
<1>4. upto[NumLayer - 1] = NumLayer /\ NumLayer - 1 \in 0 .. NumLayer
  BY <1>1, <1>n DEF Covers
<1>5. wrapped[NumLayer - 1] = 0
  BY <1>3, <1>4
<1>6. ASSUME NEW t \in 0 .. NumLayer
      PROVE  /\ Before(t) \in 0 .. NumLayer
             /\ Wrap(Reached(NumLayer, upto, t)) = wrapped[Before(t)]
  <2>1. Before(t) \in 0 .. NumLayer
    BY <1>n DEF Before
  <2>2. CASE t = NumLayer
    BY <1>3, <1>5, <1>n, <2>2 DEF Reached, Before
  <2>3. CASE t # NumLayer
    BY <2>1, <2>3 DEF Reached, Before
  <2> QED BY <2>1, <2>2, <2>3
<1>7. ASSUME NEW t \in 0 .. NumLayer
      PROVE  IF PredictRange[t][1] < PredictRange[t][2]
               THEN /\ Wrap(PredictRange[t][1]) = wrapped[Before(t)]
                    /\ Wrap(PredictRange[t][2]) = wrapped[t]
               ELSE wrapped[t] = wrapped[Before(t)]
  BY <1>1, <1>6 DEF Covers
<1> HIDE DEF wrapped
<1>8. Continues(wrapped)
  BY <1>5, <1>7 DEF Continues
<1> QED BY <1>2, <1>8 DEF InOrder

(* The order of the logits in an iteration. *)
Rank(t) == IF t = NumLayer THEN 0 ELSE t + 1

(* The layers predicted when the i-th job of the queue is done; job 0 is the one at hand.     *)
StopOf(i) ==
  IF i # 0 THEN PredictRange[predict_jobs[i]][2] ELSE IF pnext < pstop THEN pstop ELSE Ahead

QueuedInOrder ==
  \A i \in 1 .. Len(predict_jobs) :
    /\ PredictRange[predict_jobs[i]][1] < PredictRange[predict_jobs[i]][2]
    /\ PredictRange[predict_jobs[i]][1] = StopOf(i - 1)
    /\ Rank(predict_jobs[i]) <= Rank(LastPosted)

(* The jobs of an iteration are done in its course: what the hook has run, and the progress   *)
(* it may still consume, is what has been predicted of this very iteration.                   *)
JobsInv(upto) ==
  /\ AtStart
  /\ Ahead \in 0 .. NumLayer
  /\ pnext < pstop => pnext = Ahead
  /\ QueuedInOrder
  /\ StopOf(Len(predict_jobs)) = upto[LastPosted]

LEMMA ElementsIn ==
  ASSUME NEW S, NEW q \in Seq(S)
  PROVE  Len(q) \in Nat /\ \A i \in 1 .. Len(q) : q[i] \in S
OBVIOUS

LEMMA RankNext ==
  ASSUME NEW t \in 0 .. NumLayer, t # NumLayer
  PROVE  /\ Rank(t) = Rank(Before(t)) + 1 /\ Rank(t) \in Nat /\ Rank(Before(t)) \in Nat
<1>1. NumLayer \in Nat \ {0}
  BY ConstantsAssumption
<1> QED BY <1>1 DEF Before, Rank

(* The hook posts the job of the next logits of the iteration. *)
LEMMA PostNext ==
  ASSUME TypeInv, NEW upto \in [0 .. NumLayer -> 0 .. NumLayer], Covers(PredictRange, NumLayer, upto), JobsInv(upto),
         NEW t \in 0 .. (NumLayer - 1), Before(t) = LastPosted, predict_jobs' = JobsAfter(t),
         UNCHANGED <<pnext, pstop>>, Ahead' = Ahead, LastPosted' = t, AtStart'
  PROVE  JobsInv(upto)'
<1>n. t \in 0 .. NumLayer /\ t # NumLayer /\ NumLayer \in Nat \ {0}
  BY ConstantsAssumption
<1>t. /\ predict_jobs \in Seq(0 .. NumLayer) /\ Len(predict_jobs) \in Nat
      /\ t \in 0 .. NumLayer /\ t # NumLayer
  BY <1>n DEF TypeInv, TypeOK
<1>e. \A i \in 1 .. Len(predict_jobs) : predict_jobs[i] \in 0 .. NumLayer
  BY <1>t, ElementsIn
<1>r. /\ Rank(t) = Rank(LastPosted) + 1 /\ Rank(t) \in Nat /\ Rank(LastPosted) \in Nat
      /\ \A x \in 0 .. NumLayer : Rank(x) \in Nat
  BY <1>n, RankNext DEF Rank
<1>u. Reached(NumLayer, upto, t) = upto[LastPosted]
  BY <1>t DEF Reached, Before
<1>1. CASE PredictRange[t][1] < PredictRange[t][2]
  <2>1. /\ Len(predict_jobs') = Len(predict_jobs) + 1
        /\ \A i \in 1 .. Len(predict_jobs) : predict_jobs'[i] = predict_jobs[i]
        /\ predict_jobs'[Len(predict_jobs) + 1] = t
    BY <1>1, <1>t, Appended DEF JobsAfter
  <2>2. \A i \in 0 .. Len(predict_jobs) : StopOf(i)' = StopOf(i)
    BY <2>1, <1>t DEF StopOf
  <2>3. StopOf(Len(predict_jobs))' = PredictRange[t][2]
    BY <2>1, <1>t DEF StopOf
  <2>4. PredictRange[t][1] = StopOf(Len(predict_jobs)) /\ PredictRange[t][2] = upto[t]
    BY <1>1, <1>t, <1>u DEF Covers, JobsInv
  <2>5. ASSUME NEW i \in 1 .. Len(predict_jobs')
        PROVE  /\ PredictRange[predict_jobs'[i]][1] < PredictRange[predict_jobs'[i]][2]
               /\ PredictRange[predict_jobs'[i]][1] = StopOf(i - 1)'
               /\ Rank(predict_jobs'[i]) <= Rank(t)
    <3>1. CASE i = Len(predict_jobs) + 1
      <4>1. i - 1 = Len(predict_jobs) /\ Len(predict_jobs) \in 0 .. Len(predict_jobs)
        BY <1>t, <3>1
      <4>2. StopOf(i - 1)' = StopOf(Len(predict_jobs))
        BY <2>2, <4>1
      <4> QED BY <1>1, <1>r, <2>1, <2>4, <3>1, <4>2
    <3>2. CASE i \in 1 .. Len(predict_jobs)
      <4>1. i - 1 \in 0 .. Len(predict_jobs) /\ predict_jobs[i] \in 0 .. NumLayer
        BY <1>t, <1>e, <3>2
      <4>2. StopOf(i - 1)' = StopOf(i - 1)
        BY <2>2, <4>1
      <4>3. /\ PredictRange[predict_jobs[i]][1] < PredictRange[predict_jobs[i]][2]
            /\ PredictRange[predict_jobs[i]][1] = StopOf(i - 1)
            /\ Rank(predict_jobs[i]) <= Rank(LastPosted)
        BY <3>2 DEF JobsInv, QueuedInOrder
      <4>4. Rank(predict_jobs[i]) \in Nat
        BY <4>1, <1>r
      <4> QED BY <1>r, <2>1, <3>2, <4>2, <4>3, <4>4
    <3> QED BY <1>t, <2>1, <3>1, <3>2
  <2>6. QueuedInOrder'
    BY <2>5 DEF QueuedInOrder, StopOf, Rank
  <2>7. StopOf(Len(predict_jobs))' = upto[LastPosted]'
    BY <2>3, <2>4
  <2> QED BY <2>6, <2>7 DEF JobsInv
<1>2. CASE ~(PredictRange[t][1] < PredictRange[t][2])
  <2>1. predict_jobs' = predict_jobs /\ upto[t] = upto[LastPosted]
    BY <1>2, <1>t, <1>u DEF JobsAfter, Covers
  <2>2. \A i \in Int : StopOf(i)' = StopOf(i)
    BY <2>1 DEF StopOf
  <2>3. QueuedInOrder'
    <3> SUFFICES ASSUME NEW i \in 1 .. Len(predict_jobs)
                 PROVE  /\ PredictRange[predict_jobs[i]][1] < PredictRange[predict_jobs[i]][2]
                        /\ PredictRange[predict_jobs[i]][1] = StopOf(i - 1)'
                        /\ Rank(predict_jobs[i]) <= Rank(t)
      BY <2>1 DEF QueuedInOrder, StopOf, Rank
    <3>1. /\ PredictRange[predict_jobs[i]][1] < PredictRange[predict_jobs[i]][2]
          /\ PredictRange[predict_jobs[i]][1] = StopOf(i - 1)
          /\ Rank(predict_jobs[i]) <= Rank(LastPosted)
      BY DEF JobsInv, QueuedInOrder
    <3>2. Rank(predict_jobs[i]) \in Nat /\ i - 1 \in Int
      BY <1>e, <1>r
    <3> QED BY <1>r, <2>2, <3>1, <3>2
  <2>4. StopOf(Len(predict_jobs))' = upto[LastPosted]'
    BY <2>1 DEF JobsInv, StopOf
  <2> QED BY <2>3, <2>4 DEF JobsInv
<1> QED BY <1>1, <1>2

(* The last layer of an iteration is run: all its jobs are done. *)
LEMMA NothingLeft ==
  ASSUME TypeInv, NEW upto \in [0 .. NumLayer -> 0 .. NumLayer], Covers(PredictRange, NumLayer, upto), JobsInv(upto),
         layer = NumLayer - 1, hpc \in {"expert", "wait", "layer_done"}
  PROVE  predict_jobs = << >> /\ ~(pnext < pstop) /\ prefetch_layer_progress = 0 /\ Ahead = NumLayer
<1>t. /\ predict_jobs \in Seq(0 .. NumLayer) /\ Len(predict_jobs) \in Nat
      /\ NumLayer \in Nat \ {0} /\ pnext \in 0 .. NumLayer /\ pstop \in 0 .. NumLayer
      /\ prefetch_layer_progress \in Nat
  BY ConstantsAssumption DEF TypeInv, TypeOK
<1>1. prefetch_layer_progress = 0 /\ Ahead = NumLayer
  BY <1>t DEF JobsInv, Ahead
<1>2. ~(pnext < pstop)
  BY <1>t, <1>1 DEF JobsInv
<1>3. ASSUME predict_jobs # << >> PROVE FALSE
  <2>e. \A i \in 1 .. Len(predict_jobs) : predict_jobs[i] \in 0 .. NumLayer
    BY <1>t, ElementsIn
  <2>l. Len(predict_jobs) \in Nat \ {0}
    BY <1>t, <1>3, HeadTail
  <2>o. 1 \in 1 .. Len(predict_jobs)
    BY <2>l
  <2>1. 1 \in 1 .. Len(predict_jobs) /\ predict_jobs[1] \in 0 .. NumLayer
    BY <2>e, <2>o
  <2>2. /\ PredictRange[predict_jobs[1]][1] < PredictRange[predict_jobs[1]][2]
        /\ PredictRange[predict_jobs[1]][1] = StopOf(1 - 1)
    BY <2>1 DEF JobsInv, QueuedInOrder
  <2>3. StopOf(1 - 1) = NumLayer
    BY <1>1, <1>2 DEF StopOf
  <2>4. PredictRange[predict_jobs[1]][2] \in 0 .. NumLayer
    BY <2>1, ConstantsAssumption
  <2> QED BY <1>t, <2>2, <2>3, <2>4
<1> QED BY <1>1, <1>2, <1>3

LEMMA PostFirst ==
  ASSUME TypeInv, NEW upto \in [0 .. NumLayer -> 0 .. NumLayer], Covers(PredictRange, NumLayer, upto),
         predict_jobs = << >>, ~(pnext < pstop), predict_jobs' = JobsAfter(NumLayer),
         UNCHANGED <<pnext, pstop>>, Ahead' = 0, LastPosted' = NumLayer, AtStart'
  PROVE  JobsInv(upto)'
<1>n. /\ NumLayer \in Nat \ {0} /\ NumLayer \in 0 .. NumLayer /\ Reached(NumLayer, upto, NumLayer) = 0
      /\ pnext \in 0 .. NumLayer /\ pstop \in 0 .. NumLayer
  BY ConstantsAssumption DEF Reached, Before, TypeInv, TypeOK
<1>1. StopOf(0)' = 0
  BY DEF StopOf
<1>2. CASE PredictRange[NumLayer][1] < PredictRange[NumLayer][2]
  <2>1. predict_jobs' = <<NumLayer>> /\ Len(predict_jobs') = 1 /\ predict_jobs'[1] = NumLayer
    BY <1>2 DEF JobsAfter
  <2>2. PredictRange[NumLayer][1] = 0 /\ PredictRange[NumLayer][2] = upto[NumLayer]
    BY <1>2, <1>n DEF Covers
  <2>3. QueuedInOrder'
    <3> SUFFICES ASSUME NEW i \in 1 .. Len(predict_jobs')
                 PROVE  /\ PredictRange[predict_jobs'[i]][1] < PredictRange[predict_jobs'[i]][2]
                        /\ PredictRange[predict_jobs'[i]][1] = StopOf(i - 1)'
                        /\ Rank(predict_jobs'[i]) <= Rank(NumLayer)
      BY DEF QueuedInOrder, StopOf, Rank
    <3>1. i = 1
      BY <2>1
    <3> QED BY <1>1, <1>2, <1>n, <2>1, <2>2, <3>1 DEF Rank
  <2>4. StopOf(Len(predict_jobs))' = upto[LastPosted]'
    BY <2>1, <2>2 DEF StopOf
  <2> QED BY <1>n, <2>3, <2>4 DEF JobsInv
<1>3. CASE ~(PredictRange[NumLayer][1] < PredictRange[NumLayer][2])
  <2>1. predict_jobs' = << >> /\ Len(predict_jobs') = 0 /\ upto[NumLayer] = 0
    BY <1>3, <1>n DEF JobsAfter, Covers
  <2>2. QueuedInOrder'
    BY <2>1 DEF QueuedInOrder
  <2>3. StopOf(Len(predict_jobs))' = upto[LastPosted]'
    BY <1>1, <2>1 DEF StopOf
  <2> QED BY <1>n, <2>2, <2>3 DEF JobsInv
<1> QED BY <1>2, <1>3

LEMMA HookJobs ==
  ASSUME TypeInv, NEW upto \in [0 .. NumLayer -> 0 .. NumLayer], Covers(PredictRange, NumLayer, upto), JobsInv(upto), Hook
  PROVE  JobsInv(upto)'
<1>n. /\ NumLayer \in Nat \ {0} /\ layer \in 0 .. (NumLayer - 1) /\ pnext \in 0 .. NumLayer
      /\ prefetch_layer_progress \in Nat /\ iter \in Nat
  BY ConstantsAssumption DEF TypeInv, TypeOK, Layer
<1>1. CASE HookStart
  <2>1. /\ hpc = "start" /\ hpc' = "layer" /\ layer = 0 /\ predict_jobs' = JobsAfter(0)
        /\ UNCHANGED <<layer, pnext, pstop, prefetch_layer_progress>>
    BY <1>1 DEF HookStart, JobsInv, AtStart
  <2>2. /\ Before(0) = LastPosted /\ LastPosted' = 0 /\ 0 \in 0 .. (NumLayer - 1)
        /\ AtStart' /\ Ahead' = Ahead
    BY <1>n, <2>1 DEF Before, LastPosted, AtStart, Ahead
  <2> QED BY <2>1, <2>2, PostNext
<1>2. CASE HookReportLayer
  <2>1. /\ hpc = "layer" /\ hpc' = "expert" /\ prefetch_layer_progress' = prefetch_layer_progress - 1
        /\ UNCHANGED <<layer, pnext, pstop, predict_jobs>>
    BY <1>2 DEF HookReportLayer
  <2>2. Ahead' = Ahead /\ LastPosted' = LastPosted /\ AtStart'
    BY <1>n, <2>1 DEF Ahead, LastPosted, AtStart
  <2> QED BY <2>1, <2>2 DEF JobsInv, QueuedInOrder, StopOf, Rank
<1>3. CASE HookReportExpert \/ HookExpertDone
  <2>1. UNCHANGED <<layer, pnext, pstop, predict_jobs>> /\ Ahead' = Ahead /\ LastPosted' = LastPosted
    BY <1>3 DEF HookReportExpert, HookExpertDone, Ahead, LastPosted
  <2>2. AtStart'
    BY <1>3 DEF HookReportExpert, HookExpertDone, AtStart
  <2> QED BY <2>1, <2>2 DEF JobsInv, QueuedInOrder, StopOf, Rank
<1>4. CASE HookLayerDone
  <2>1. /\ hpc = "layer_done" /\ predict_jobs' = JobsAfter(layer + 1)
        /\ UNCHANGED <<pnext, pstop, prefetch_layer_progress>>
        /\ layer' = NextLayer
        /\ hpc' \in IF layer = NumLayer - 1 THEN {"start", "done"} ELSE {"layer"}
    BY <1>4 DEF HookLayerDone
  <2>2. CASE layer # NumLayer - 1
    <3>1. /\ layer + 1 \in 0 .. (NumLayer - 1) /\ Before(layer + 1) = LastPosted
          /\ LastPosted' = layer + 1 /\ AtStart' /\ Ahead' = Ahead
      BY <1>n, <2>1, <2>2 DEF Before, LastPosted, NextLayer, AtStart, Ahead
    <3> QED BY <2>1, <3>1, PostNext
  <2>3. CASE layer = NumLayer - 1
    <3>1. predict_jobs = << >> /\ ~(pnext < pstop) /\ prefetch_layer_progress = 0
      BY <2>1, <2>3, NothingLeft
    <3>2. layer + 1 = NumLayer /\ LastPosted' = NumLayer /\ AtStart' /\ Ahead' = 0
      <4>1. layer' = 0 /\ hpc' \in {"start", "done"} /\ prefetch_layer_progress' = 0
        BY <2>1, <2>3, <3>1 DEF NextLayer
      <4> QED BY <1>n, <2>3, <4>1 DEF LastPosted, AtStart, Ahead
    <3> QED BY <2>1, <3>1, <3>2, PostFirst
  <2> QED BY <2>2, <2>3
<1> QED BY <1>1, <1>2, <1>3, <1>4 DEF Hook

LEMMA PredictorJobs ==
  ASSUME TypeInv, NEW upto \in [0 .. NumLayer -> 0 .. NumLayer], Covers(PredictRange, NumLayer, upto), JobsInv(upto), Predictor
  PROVE  JobsInv(upto)'
<1>n. /\ NumLayer \in Nat \ {0} /\ pnext \in 0 .. NumLayer /\ pstop \in 0 .. NumLayer
      /\ layer \in 0 .. (NumLayer - 1) /\ prefetch_layer_progress \in Nat
      /\ predict_jobs \in Seq(0 .. NumLayer) /\ (ppc = "submitted" => pnext < pstop)
  BY ConstantsAssumption DEF TypeInv, TypeOK, Layer, IndexInv
<1>1. CASE PredictStart
  <2>t. /\ predict_jobs # << >> /\ predict_jobs' = Tail(predict_jobs)
        /\ pnext' = PredictRange[Head(predict_jobs)][1] /\ pstop' = PredictRange[Head(predict_jobs)][2]
        /\ pnext = pstop /\ LastPosted' = LastPosted /\ Ahead' = Ahead /\ AtStart'
    BY <1>1 DEF PredictStart, LastPosted, Ahead, JobsInv, AtStart
  <2>1. /\ Len(predict_jobs) \in Nat \ {0} /\ Len(predict_jobs') = Len(predict_jobs) - 1
        /\ \A i \in 1 .. Len(predict_jobs') : predict_jobs'[i] = predict_jobs[i + 1]
        /\ Head(predict_jobs) = predict_jobs[1]
    BY <1>n, <2>t, HeadTail
  <2>2. pnext' = Ahead /\ pnext' < pstop'
    <3>1. /\ PredictRange[predict_jobs[1]][1] < PredictRange[predict_jobs[1]][2]
          /\ PredictRange[predict_jobs[1]][1] = StopOf(1 - 1)
      BY <2>1 DEF JobsInv, QueuedInOrder
    <3>2. StopOf(1 - 1) = Ahead
      BY <1>n, <2>t DEF StopOf
    <3> QED BY <2>t, <2>1, <3>1, <3>2
  <2>3. \A i \in 0 .. Len(predict_jobs') : StopOf(i)' = StopOf(i + 1)
    BY <2>t, <2>1, <2>2 DEF StopOf
  <2>4. QueuedInOrder'
    <3> SUFFICES ASSUME NEW i \in 1 .. Len(predict_jobs')
                 PROVE  /\ PredictRange[predict_jobs'[i]][1] < PredictRange[predict_jobs'[i]][2]
                        /\ PredictRange[predict_jobs'[i]][1] = StopOf(i - 1)'
                        /\ Rank(predict_jobs'[i]) <= Rank(LastPosted)
      BY <2>t DEF QueuedInOrder, StopOf, Rank
    <3>1. /\ i + 1 \in 1 .. Len(predict_jobs) /\ i - 1 \in 0 .. Len(predict_jobs')
          /\ (i + 1) - 1 = (i - 1) + 1
      BY <2>1
    <3>2. /\ PredictRange[predict_jobs[i + 1]][1] < PredictRange[predict_jobs[i + 1]][2]
          /\ PredictRange[predict_jobs[i + 1]][1] = StopOf((i + 1) - 1)
          /\ Rank(predict_jobs[i + 1]) <= Rank(LastPosted)
      BY <3>1 DEF JobsInv, QueuedInOrder
    <3>3. StopOf(i - 1)' = StopOf((i + 1) - 1)
      BY <2>3, <3>1
    <3> QED BY <2>1, <3>2, <3>3
  <2>5. StopOf(Len(predict_jobs))' = StopOf(Len(predict_jobs))
    <3>1. Len(predict_jobs') \in 0 .. Len(predict_jobs') /\ Len(predict_jobs') + 1 = Len(predict_jobs)
      BY <2>1
    <3>2. \A n \in 0 .. Len(predict_jobs') : n = Len(predict_jobs') => StopOf(n)' = StopOf(n + 1)
      BY <2>3
    <3> QED BY <3>1, <3>2 DEF StopOf
  <2> QED BY <2>t, <2>2, <2>4, <2>5 DEF JobsInv
<1>2. CASE PredictLayer
  <2>1. UNCHANGED <<layer, hpc, prefetch_layer_progress, pnext, pstop, predict_jobs>>
    BY <1>2 DEF PredictLayer
  <2> QED BY <2>1 DEF JobsInv, QueuedInOrder, StopOf, Rank, LastPosted, AtStart, Ahead
<1>3. CASE PredictLayerDone
  <2>1. /\ prefetch_layer_progress' = prefetch_layer_progress + 1 /\ pnext' = pnext + 1
        /\ UNCHANGED <<layer, hpc, pstop, predict_jobs>> /\ pnext < pstop
    BY <1>3, <1>n DEF PredictLayerDone
  <2>2. Ahead = pnext /\ Ahead' = Ahead + 1
    BY <1>n, <2>1 DEF JobsInv, Ahead
  <2>3. StopOf(0)' = StopOf(0)
    BY <1>n, <2>1, <2>2 DEF StopOf
  <2>4. \A i \in Int : StopOf(i)' = StopOf(i)
    BY <2>1, <2>3 DEF StopOf
  <2>5. QueuedInOrder'
    <3> SUFFICES ASSUME NEW i \in 1 .. Len(predict_jobs)
                 PROVE  /\ PredictRange[predict_jobs[i]][1] < PredictRange[predict_jobs[i]][2]
                        /\ PredictRange[predict_jobs[i]][1] = StopOf(i - 1)'
                        /\ Rank(predict_jobs[i]) <= Rank(LastPosted)
      BY <2>1 DEF QueuedInOrder, StopOf, Rank, LastPosted
    <3>1. i - 1 \in Int
      BY <1>n
    <3> QED BY <2>4, <3>1 DEF JobsInv, QueuedInOrder
  <2>6. StopOf(Len(predict_jobs))' = upto[LastPosted]'
    <3>1. Len(predict_jobs) \in Int
      BY <1>n
    <3>2. StopOf(Len(predict_jobs))' = StopOf(Len(predict_jobs))
      BY <2>1, <2>4, <3>1 DEF StopOf
    <3> QED BY <2>1, <3>2 DEF JobsInv, LastPosted
  <2>7. Ahead' \in 0 .. NumLayer /\ (pnext' < pstop' => pnext' = Ahead') /\ AtStart'
    BY <1>n, <2>1, <2>2 DEF AtStart, JobsInv
  <2> QED BY <2>5, <2>6, <2>7 DEF JobsInv
<1> QED BY <1>1, <1>2, <1>3 DEF Predictor

LEMMA NextJobs ==
  ASSUME NEW upto \in [0 .. NumLayer -> 0 .. NumLayer], Covers(PredictRange, NumLayer, upto)
  PROVE  TypeInv /\ JobsInv(upto) /\ [Next]_vars => JobsInv(upto)'
<1> SUFFICES ASSUME TypeInv, JobsInv(upto), [Next]_vars PROVE JobsInv(upto)'
  OBVIOUS
<1>1. CASE Hook \/ Predictor
  BY <1>1, HookJobs, PredictorJobs
<1>2. CASE UNCHANGED <<hpc, layer, predict_jobs, pnext, pstop, prefetch_layer_progress>>
  BY <1>2 DEF JobsInv, QueuedInOrder, StopOf, Rank, LastPosted, AtStart, Ahead
<1>3. Scheduler => UNCHANGED <<hpc, layer, predict_jobs, pnext, pstop, prefetch_layer_progress>>
  BY DEF Scheduler, SchedPreempt, SchedPreemptExpert, SchedPreemptEnd, SchedPreemptOne,
     SchedPrefetchLayer, SchedFetchDone, SchedIdle, SchedIdleAgain
<1>4. Fetcher \/ StreamStep \/ Unlock =>
        UNCHANGED <<hpc, layer, predict_jobs, pnext, pstop, prefetch_layer_progress>>
  BY DEF Fetcher, FetchStart, FetchEnd, StreamStep, Unlock
<1>5. UNCHANGED vars => UNCHANGED <<hpc, layer, predict_jobs, pnext, pstop, prefetch_layer_progress>>
  BY DEF vars
<1> QED BY <1>1, <1>2, <1>3, <1>4, <1>5 DEF Next, Step

LEMMA InitJobs ==
  ASSUME NEW upto \in [0 .. NumLayer -> 0 .. NumLayer], Covers(PredictRange, NumLayer, upto)
  PROVE  Init => JobsInv(upto)
<1> SUFFICES ASSUME Init PROVE JobsInv(upto)
  OBVIOUS
<1>n. /\ NumLayer \in Nat \ {0} /\ NumLayer \in 0 .. NumLayer /\ Reached(NumLayer, upto, NumLayer) = 0
  BY ConstantsAssumption DEF Reached, Before
<1>1. AtStart /\ Ahead = 0 /\ pnext = 0 /\ pstop = 0 /\ StopOf(0) = 0 /\ LastPosted = NumLayer
  BY DEF Init, AtStart, Ahead, StopOf, LastPosted
<1>2. CASE PredictRange[NumLayer][1] < PredictRange[NumLayer][2]
  <2>1. predict_jobs = <<NumLayer>> /\ Len(predict_jobs) = 1 /\ predict_jobs[1] = NumLayer
    BY <1>2 DEF Init
  <2>2. PredictRange[NumLayer][1] = 0 /\ PredictRange[NumLayer][2] = upto[NumLayer]
    BY <1>2, <1>n DEF Covers
  <2>3. QueuedInOrder
    <3> SUFFICES ASSUME NEW i \in 1 .. Len(predict_jobs)
                 PROVE  /\ PredictRange[predict_jobs[i]][1] < PredictRange[predict_jobs[i]][2]
                        /\ PredictRange[predict_jobs[i]][1] = StopOf(i - 1)
                        /\ Rank(predict_jobs[i]) <= Rank(LastPosted)
      BY DEF QueuedInOrder
    <3>1. i = 1
      BY <2>1
    <3> QED BY <1>1, <1>2, <1>n, <2>1, <2>2, <3>1, SMTT(30) DEF Rank
  <2>4. StopOf(Len(predict_jobs)) = upto[LastPosted]
    BY <1>1, <2>1, <2>2 DEF StopOf
  <2> QED BY <1>n, <1>1, <2>3, <2>4 DEF JobsInv
<1>3. CASE ~(PredictRange[NumLayer][1] < PredictRange[NumLayer][2])
  <2>1. predict_jobs = << >> /\ Len(predict_jobs) = 0 /\ upto[NumLayer] = 0
    BY <1>3, <1>n DEF Init, Covers
  <2>2. QueuedInOrder
    BY <2>1 DEF QueuedInOrder
  <2>3. StopOf(Len(predict_jobs)) = upto[LastPosted]
    BY <1>1, <2>1
  <2> QED BY <1>n, <1>1, <2>2, <2>3 DEF JobsInv
<1> QED BY <1>2, <1>3

-----------------------------------------------------------------------------
(* One job per iteration, posted with the last output: what on_one_iter_done does.            *)
OneJobPerIteration ==
  /\ PredictRange[NumLayer] = <<0, NumLayer>>
  /\ \A t \in 0 .. (NumLayer - 1) : ~(PredictRange[t][1] < PredictRange[t][2])

(* The job is queued when the hook has run the last layer, and no layer of the next iteration *)
(* is run before the job has begun.                                                           *)
OneJobInv ==
  /\ AtStart
  /\ predict_jobs = << >> => pnext = Ahead /\ pstop = NumLayer
  /\ predict_jobs # << >> => predict_jobs = <<NumLayer>> /\ ~(pnext < pstop) /\ Ahead = 0

LEMMA HookOneJob ==
  ASSUME OneJobPerIteration, TypeInv, OneJobInv, Hook
  PROVE  OneJobInv'
<1>n. /\ NumLayer \in Nat \ {0} /\ layer \in 0 .. (NumLayer - 1) /\ pnext \in 0 .. NumLayer
      /\ prefetch_layer_progress \in Nat
  BY ConstantsAssumption DEF TypeInv, TypeOK, Layer
<1>1. CASE HookStart
  <2>1. predict_jobs' = predict_jobs
    BY <1>1, <1>n DEF HookStart, JobsAfter, OneJobPerIteration
  <2> QED BY <1>1, <2>1 DEF HookStart, OneJobInv, AtStart, Ahead
<1>2. CASE HookReportLayer \/ HookReportExpert \/ HookExpertDone
  BY <1>2, <1>n DEF HookReportLayer, HookReportExpert, HookExpertDone, OneJobInv, AtStart, Ahead
<1>3. CASE HookLayerDone
  <2>1. /\ hpc = "layer_done" /\ predict_jobs' = JobsAfter(layer + 1)
        /\ UNCHANGED <<pnext, pstop, prefetch_layer_progress>>
        /\ layer' = NextLayer
        /\ hpc' \in IF layer = NumLayer - 1 THEN {"start", "done"} ELSE {"layer"}
    BY <1>3 DEF HookLayerDone
  <2>2. Ahead = layer + 1 + prefetch_layer_progress /\ predict_jobs = << >> /\ pnext = Ahead /\ pstop = NumLayer
    BY <1>n, <2>1 DEF Ahead, OneJobInv
  <2>3. CASE layer # NumLayer - 1
    <3>1. predict_jobs' = predict_jobs /\ Ahead' = Ahead
      BY <1>n, <2>1, <2>2, <2>3 DEF JobsAfter, OneJobPerIteration, NextLayer, Ahead
    <3> QED BY <2>1, <2>2, <2>3, <3>1 DEF OneJobInv, AtStart
  <2>4. CASE layer = NumLayer - 1
    <3>1. prefetch_layer_progress = 0 /\ Ahead' = 0 /\ ~(pnext < pstop)
      BY <1>n, <2>1, <2>2, <2>4 DEF NextLayer, Ahead
    <3>2. predict_jobs' = <<NumLayer>>
      BY <1>n, <2>1, <2>2, <2>4 DEF JobsAfter, OneJobPerIteration
    <3> QED BY <1>n, <2>1, <2>4, <3>1, <3>2 DEF OneJobInv, AtStart, NextLayer
  <2> QED BY <2>3, <2>4
<1> QED BY <1>1, <1>2, <1>3 DEF Hook

LEMMA PredictorOneJob ==
  ASSUME OneJobPerIteration, TypeInv, OneJobInv, Predictor
  PROVE  OneJobInv'
<1>n. /\ NumLayer \in Nat \ {0} /\ layer \in 0 .. (NumLayer - 1) /\ pnext \in 0 .. NumLayer
      /\ prefetch_layer_progress \in Nat /\ (ppc = "submitted" => pnext < pstop)
  BY ConstantsAssumption DEF TypeInv, TypeOK, Layer, IndexInv
<1>1. CASE PredictStart
  <2>1. predict_jobs = <<NumLayer>> /\ Ahead = 0
    BY <1>1 DEF PredictStart, OneJobInv
  <2>2. Head(predict_jobs) = NumLayer /\ Tail(predict_jobs) = << >>
    BY <2>1
  <2>3. predict_jobs' = << >> /\ pnext' = 0 /\ pstop' = NumLayer
    BY <1>1, <2>2 DEF PredictStart, OneJobPerIteration
  <2> QED BY <1>1, <2>1, <2>3 DEF PredictStart, OneJobInv, AtStart, Ahead
<1>2. CASE PredictLayer
  BY <1>2 DEF PredictLayer, OneJobInv, AtStart, Ahead
<1>3. CASE PredictLayerDone
  BY <1>3, <1>n DEF PredictLayerDone, OneJobInv, AtStart, Ahead
<1> QED BY <1>1, <1>2, <1>3 DEF Predictor

LEMMA NextOneJob == OneJobPerIteration /\ TypeInv /\ OneJobInv /\ [Next]_vars => OneJobInv'
<1> SUFFICES ASSUME OneJobPerIteration, TypeInv, OneJobInv, [Next]_vars PROVE OneJobInv'
  OBVIOUS
<1>1. CASE Hook \/ Predictor
  BY <1>1, HookOneJob, PredictorOneJob
<1>2. CASE UNCHANGED <<hpc, layer, predict_jobs, pnext, pstop, prefetch_layer_progress>>
  BY <1>2 DEF OneJobInv, AtStart, Ahead
<1>3. Scheduler => UNCHANGED <<hpc, layer, predict_jobs, pnext, pstop, prefetch_layer_progress>>
  BY DEF Scheduler, SchedPreempt, SchedPreemptExpert, SchedPreemptEnd, SchedPreemptOne,
     SchedPrefetchLayer, SchedFetchDone, SchedIdle, SchedIdleAgain
<1>4. Fetcher \/ StreamStep \/ Unlock =>
        UNCHANGED <<hpc, layer, predict_jobs, pnext, pstop, prefetch_layer_progress>>
  BY DEF Fetcher, FetchStart, FetchEnd, StreamStep, Unlock
<1>5. UNCHANGED vars => UNCHANGED <<hpc, layer, predict_jobs, pnext, pstop, prefetch_layer_progress>>
  BY DEF vars
<1> QED BY <1>1, <1>2, <1>3, <1>4, <1>5 DEF Next, Step

LEMMA InitOneJob == OneJobPerIteration /\ Init => OneJobInv
<1> SUFFICES ASSUME OneJobPerIteration, Init PROVE OneJobInv
  OBVIOUS
<1>1. NumLayer \in Nat \ {0}
  BY ConstantsAssumption
<1>2. predict_jobs = <<NumLayer>>
  BY <1>1 DEF Init, OneJobPerIteration
<1>3. predict_jobs # << >>
  BY <1>2
<1>4. hpc = "start" /\ layer = 0 /\ pnext = 0 /\ pstop = 0 /\ prefetch_layer_progress = 0
  BY DEF Init
<1>5. AtStart /\ Ahead = 0 /\ ~(pnext < pstop)
  BY <1>4 DEF AtStart, Ahead
<1> QED BY <1>2, <1>3, <1>5 DEF OneJobInv
=============================================================================

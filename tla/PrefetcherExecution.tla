-------------------------- MODULE PrefetcherExecution --------------------------
(***************************************************************************)
(* The hook gets what its gates asked for: proof that no pin leaks, and    *)
(* that the threads implement MoeExecution, for every number of layers,    *)
(* experts, chunks and buffers and every option.                           *)
(*                                                                         *)
(* NoPinLeak is not inductive.  It speaks of experts, but a pin is made    *)
(* for a place in the hook's array, and there is no pin for a place that   *)
(* the preempt handler has not reached (Asked).  PlaceInv says the places  *)
(* have different experts, and that the handler starts at the first one.   *)
(* PinInv says that an expert is pinned in one way at a time: when the     *)
(* hook uses it nothing else of it is left.                                *)
(*                                                                         *)
(* For the refinement, every step is matched with one of MoeExecution.     *)
(* The hook launches only what is resident by ComputeReadsOwnWeights, of   *)
(* which also the next state is needed: a copy must not touch what runs.   *)
(*                                                                         *)
(* The other half: what is asked for is served, and no circle of waiting   *)
(* threads closes.  ServedInv says of AwaitedServed which places it is     *)
(* about while the preempt handler runs.  It rests on the precise jobs:    *)
(* none is a duplicate (WholeInv), because what is missing comes last      *)
(* (SortedInv), and they are served in the order of the hook's array       *)
(* (OrderInv), so a miss evicts only what the hook reaches without it.     *)
(*                                                                         *)
(* Last, the CHECKs: only those about a late thread can fail.  QueuesInv   *)
(* says when a layer has jobs queued for prefetching, PartsInv that what   *)
(* comes before the chunks of a queued job is in the cache, or is on its   *)
(* way there, when the job is taken.                                       *)
(***************************************************************************)
EXTENDS PrefetcherWindow

(* The places of the layer's array whose experts have been preempted and not used yet. *)
Asked ==
  IF EarlyPreempt
    THEN {i \in idx .. Len(experts) : /\ hpc \in {"expert", "wait"} /\ ~InQueue("Preempt")
                                      /\ spc = "preempting" => i < sidx}
    ELSE {i \in {idx} : hpc = "wait" /\ ~InQueue("PreemptOne")}

AskedExperts == {<<layer, experts[i]>> : i \in Asked}

(* The hook's preempt task for one expert: at most one. *)
UniquePreemptOne ==
  \A i, j \in 1 .. Len(squeue) : squeue[i] = "PreemptOne" /\ squeue[j] = "PreemptOne" => i = j

DistinctExperts == \A i, j \in 1 .. Len(experts) : experts[i] = experts[j] => i = j

PlaceInv ==
  /\ DistinctExperts
  /\ InQueue("Preempt") \/ spc = "preempting" => idx = 1
  /\ UniquePreemptOne
  /\ InQueue("PreemptOne") => ~EarlyPreempt

(* The three ways an expert is pinned. *)
Launched == {e \in Expert : expert_status[e] = "Launching"}
Wanted == {precise_job_queue[i].expert : i \in 1 .. Len(precise_job_queue)}
Copied == IF current.is_precise THEN {current.expert} ELSE {}

WantedOnce ==
  \A i, j \in 1 .. Len(precise_job_queue) :
    precise_job_queue[i].expert = precise_job_queue[j].expert => i = j

(* A prefetched layer pins nothing. *)
PrefetchUnpinned ==
  \A l \in Layer : \A i \in 1 .. Len(per_layer_job_queues[l]) :
    ~per_layer_job_queues[l][i].is_precise

PinInv ==
  /\ Launched \cup Wanted \cup Copied \subseteq AskedExperts
  /\ Launched \cap (Wanted \cup Copied) = {}
  /\ WantedOnce
  /\ current.is_precise /\ current.stop = P => current.expert \notin Wanted
  /\ PrefetchUnpinned

USE DEF hookVars, schedVars, cacheVars, fetchVars, unlockVars, memVars, predictVars

-----------------------------------------------------------------------------
(* The preempt task for one expert in the scheduler's queue. *)
FewerPreemptOne == UniquePreemptOne' /\ (InQueue("PreemptOne")' => InQueue("PreemptOne"))

LEMMA PreemptOneAppend ==
  ASSUME squeue \in Seq(Kind), UniquePreemptOne, NEW k \in Kind, squeue' = Append(squeue, k)
  PROVE  /\ k # "PreemptOne" => FewerPreemptOne
         /\ ~InQueue("PreemptOne") => UniquePreemptOne'
<1>1. /\ Len(squeue) \in Nat /\ Len(squeue') = Len(squeue) + 1
      /\ \A i \in 1 .. Len(squeue) : squeue'[i] = squeue[i]
      /\ squeue'[Len(squeue) + 1] = k
  BY Appended
<1>2. \A i \in 1 .. Len(squeue') : i \in 1 .. Len(squeue) \/ i = Len(squeue) + 1
  BY <1>1
<1>3. k # "PreemptOne" => FewerPreemptOne
  BY <1>1, <1>2 DEF FewerPreemptOne, UniquePreemptOne, InQueue
<1>4. ~InQueue("PreemptOne") => UniquePreemptOne'
  BY <1>1, <1>2 DEF UniquePreemptOne, InQueue
<1> QED BY <1>3, <1>4

LEMMA PreemptOneTail ==
  ASSUME squeue \in Seq(Kind), squeue # << >>, UniquePreemptOne, squeue' = Tail(squeue)
  PROVE  FewerPreemptOne /\ (Head(squeue) = "PreemptOne" => ~InQueue("PreemptOne")')
<1>1. /\ Len(squeue) \in Nat \ {0} /\ Len(squeue') = Len(squeue) - 1
      /\ \A i \in 1 .. Len(squeue') : squeue'[i] = squeue[i + 1]
      /\ Head(squeue) = squeue[1]
  BY HeadTail
<1>2. \A i \in 1 .. Len(squeue') : i + 1 \in 1 .. Len(squeue) /\ i + 1 # 1
  BY <1>1
<1>3. UniquePreemptOne'
  <2> SUFFICES ASSUME NEW i \in 1 .. Len(squeue'), NEW j \in 1 .. Len(squeue'),
                      squeue'[i] = "PreemptOne", squeue'[j] = "PreemptOne"
               PROVE  i = j
    BY DEF UniquePreemptOne
  <2>1. i + 1 = j + 1
    BY <1>1, <1>2 DEF UniquePreemptOne
  <2> QED BY <2>1
<1>4. InQueue("PreemptOne")' => InQueue("PreemptOne")
  BY <1>1, <1>2 DEF InQueue
<1>5. 1 \in 1 .. Len(squeue)
  BY <1>1
<1>6. Head(squeue) = "PreemptOne" => ~InQueue("PreemptOne")'
  BY <1>1, <1>2, <1>5 DEF UniquePreemptOne, InQueue
<1> QED BY <1>3, <1>4, <1>6 DEF FewerPreemptOne

LEMMA PreemptOneIdleAgain ==
  ASSUME squeue \in Seq(Kind), squeue # << >>, UniquePreemptOne, squeue' = IdleAgain
  PROVE  FewerPreemptOne
<1>1. /\ Len(squeue) \in Nat \ {0} /\ Tail(squeue) \in Seq(Kind)
      /\ Len(Tail(squeue)) = Len(squeue) - 1
      /\ \A i \in 1 .. Len(Tail(squeue)) : Tail(squeue)[i] = squeue[i + 1]
  BY HeadTail
<1>2. /\ Len(squeue') = Len(squeue)
      /\ \A i \in 1 .. (Len(squeue) - 1) : squeue'[i] = squeue[i + 1]
      /\ squeue'[Len(squeue)] = "Idle"
  BY <1>1, Appended DEF IdleAgain, Kind
<1>3. \A i \in 1 .. Len(squeue) : squeue'[i] = "PreemptOne" =>
        i + 1 \in 1 .. Len(squeue) /\ squeue[i + 1] = "PreemptOne"
  BY <1>1, <1>2
<1>4. UniquePreemptOne'
  <2> SUFFICES ASSUME NEW i \in 1 .. Len(squeue'), NEW j \in 1 .. Len(squeue'),
                      squeue'[i] = "PreemptOne", squeue'[j] = "PreemptOne"
               PROVE  i = j
    BY DEF UniquePreemptOne
  <2>1. i + 1 = j + 1
    BY <1>2, <1>3 DEF UniquePreemptOne
  <2> QED BY <2>1
<1> QED BY <1>2, <1>3, <1>4 DEF FewerPreemptOne, InQueue

(* Only the hook adds such a task. *)
LEMMA PreemptOneFewer ==
  ASSUME TypeInv, UniquePreemptOne, Next, ~HookReportExpert
  PROVE  FewerPreemptOne
<1>t. squeue \in Seq(Kind)
  BY DEF TypeInv, TypeOK, Kind
<1>1. CASE squeue' = squeue
  BY <1>1 DEF FewerPreemptOne, UniquePreemptOne, InQueue
<1>2. ASSUME NEW k \in Kind \ {"PreemptOne"}, squeue' = Append(squeue, k) PROVE FewerPreemptOne
  BY <1>2, <1>t, PreemptOneAppend
<1>3. ASSUME squeue # << >>, squeue' \in {Tail(squeue), IdleAgain} PROVE FewerPreemptOne
  BY <1>3, <1>t, PreemptOneTail, PreemptOneIdleAgain
<1>k. {"Preempt", "FetchDone", "Prefetch"} \subseteq Kind \ {"PreemptOne"}
  BY DEF Kind
<1>4. CASE Hook
  <2>1. squeue' = squeue \/ squeue' = Append(squeue, "Preempt")
    BY <1>4 DEF Hook, HookStart, HookReportLayer, HookReportExpert, HookExpertDone, HookLayerDone
  <2> QED BY <1>1, <1>2, <1>k, <2>1
<1>5. CASE Scheduler
  <2>1. CASE SchedPreemptExpert \/ SchedPreemptEnd
    BY <1>1, <2>1 DEF SchedPreemptExpert, SchedPreemptEnd
  <2>2. CASE SchedPreempt \/ SchedPreemptOne \/ SchedPrefetchLayer \/ SchedFetchDone \/ SchedIdleAgain
    BY <1>3, <2>2 DEF SchedPreempt, SchedPreemptOne, SchedPrefetchLayer, SchedFetchDone,
       SchedIdleAgain, Take
  <2>3. CASE SchedIdle
    <3>1. squeue # << >>
      BY <2>3 DEF SchedIdle, Take
    <3>2. \A t : SendOneJob(t) => squeue' \in {squeue, Tail(squeue), IdleAgain}
      BY DEF SendOneJob, SendMissed, SendDuplicate, SendRest, Fetch
    <3>3. squeue' \in {squeue, Tail(squeue), IdleAgain}
      BY <2>3, <3>2 DEF SchedIdle, PopPrecise, PopLayer
    <3> QED BY <1>1, <1>3, <3>1, <3>3
  <2> QED BY <1>5, <2>1, <2>2, <2>3 DEF Scheduler
<1>6. CASE Fetcher \/ StreamStep \/ Unlock \/ Predictor
  <2>1. squeue' = squeue \/ squeue' = Append(squeue, "FetchDone") \/ squeue' = Append(squeue, "Prefetch")
    BY <1>6 DEF Fetcher, FetchStart, FetchEnd, StreamStep, Unlock, Predictor, PredictStart,
       PredictLayer, PredictLayerDone
  <2> QED BY <1>1, <1>2, <1>k, <2>1
<1> QED BY <1>4, <1>5, <1>6 DEF Next, Step

-----------------------------------------------------------------------------
(* The places asked for.  Nothing is asked before the preempt handler has begun, nor after    *)
(* the hook has used the last expert.                                                         *)
LEMMA NothingAsked ==
  /\ hpc \notin {"expert", "wait"} => AskedExperts = {}
  /\ InQueue("Preempt") /\ hpc = "expert" => AskedExperts = {}
  /\ ~EarlyPreempt /\ (hpc = "expert" \/ InQueue("PreemptOne")) => AskedExperts = {}
BY DEF AskedExperts, Asked

LEMMA AskedFrame ==
  ASSUME UNCHANGED <<hpc, layer, experts, idx, spc, sidx>>, SamePreempt, FewerPreemptOne
  PROVE  AskedExperts \subseteq AskedExperts'
<1>1. Asked \subseteq Asked'
  BY DEF Asked, SamePreempt, FewerPreemptOne
<1> QED BY <1>1 DEF AskedExperts

LEMMA PlaceFrame ==
  ASSUME PlaceInv, SamePreempt, FewerPreemptOne, UNCHANGED <<experts, idx, spc>>
  PROVE  PlaceInv'
BY DEF PlaceInv, SamePreempt, FewerPreemptOne, DistinctExperts

(* reorder_experts permutes the array. *)
LEMMA ReorderedDistinct ==
  ASSUME NEW r, Reordering(r), DistinctExperts, experts \in Seq(ExpertIdx)
  PROVE  /\ Len(r) = Len(experts)
         /\ \A i, j \in 1 .. Len(r) : r[i] = r[j] => i = j
<1> DEFINE n == Len(experts)
           class(i) == ReorderClass(<<layer, experts[i]>>)
<1>1. PICK p \in [1 .. n -> 1 .. n] :
        /\ \A i, j \in 1 .. n : i < j =>
             \/ class(p[i]) < class(p[j])
             \/ class(p[i]) = class(p[j]) /\ p[i] < p[j]
        /\ r = [i \in 1 .. n |-> experts[p[i]]]
  BY DEF Reordering
<1>n. n \in Nat
  OBVIOUS
<1>2. Len(r) = n
  BY <1>1, <1>n
<1>c. \A i : class(i) \in Nat
  BY DEF ReorderClass
<1> HIDE DEF class
<1>3. ASSUME NEW i \in 1 .. n, NEW j \in 1 .. n, i < j PROVE r[i] # r[j]
  <2>1. class(p[i]) < class(p[j]) \/ p[i] < p[j]
    BY <1>1, <1>3
  <2>2. p[i] \in 1 .. n /\ p[j] \in 1 .. n /\ class(p[i]) \in Nat
    BY <1>1, <1>c
  <2>3. p[i] # p[j]
    BY <2>1, <2>2
  <2>4. experts[p[i]] # experts[p[j]]
    BY <2>2, <2>3 DEF DistinctExperts
  <2> QED BY <1>1, <2>4
<1>4. \A i, j \in 1 .. n : r[i] = r[j] => i = j
  <2> SUFFICES ASSUME NEW i \in 1 .. n, NEW j \in 1 .. n, r[i] = r[j], i # j PROVE FALSE
    OBVIOUS
  <2>1. i < j \/ j < i
    BY <1>n
  <2> QED BY <1>3, <2>1
<1> QED BY <1>2, <1>4

LEMMA HookPlace == TypeInv /\ BudgetInv /\ PlaceInv /\ Next /\ Hook => PlaceInv'
<1> SUFFICES ASSUME TypeInv, BudgetInv, PlaceInv, Next, Hook PROVE PlaceInv'
  OBVIOUS
<1>t. squeue \in Seq(Kind) /\ UniquePreempt /\ UniquePreemptOne
  BY DEF TypeInv, TypeOK, Kind, BudgetInv, PreemptInv, PlaceInv
<1>s. ~SchedPreempt
  BY HookMovesHpc
<1>1. CASE HookReportLayer
  <2>1. FewerPreemptOne
    BY <1>1, <1>t, PreemptOneAppend DEF HookReportLayer, Kind
  <2>2. idx' = 1 /\ experts' \in Activations
    BY <1>1 DEF HookReportLayer
  <2>3. DistinctExperts'
    BY <2>2 DEF Activations, Ranked, DistinctExperts
  <2> QED BY <2>1, <2>2, <2>3 DEF PlaceInv, FewerPreemptOne
<1>2. CASE HookReportExpert
  <2>1. SamePreempt
    BY <1>2, <1>t, <1>s, PreemptSame DEF HookReportExpert, HookReportLayer
  <2>2. UNCHANGED <<experts, idx, spc>> /\ ~InQueue("PreemptOne")
    BY <1>2 DEF HookReportExpert, TypeInv, IndexInv
  <2>3. CASE EarlyPreempt
    <3>1. FewerPreemptOne
      BY <1>2, <1>t, <2>3 DEF HookReportExpert, FewerPreemptOne, UniquePreemptOne, InQueue
    <3> QED BY <2>1, <2>2, <3>1, PlaceFrame
  <2>4. CASE ~EarlyPreempt
    <3>1. UniquePreemptOne'
      BY <1>2, <1>t, <2>2, <2>4, PreemptOneAppend DEF HookReportExpert, Kind
    <3> QED BY <2>1, <2>2, <2>4, <3>1 DEF PlaceInv, SamePreempt, DistinctExperts
  <2> QED BY <2>3, <2>4
<1>3. CASE ~HookReportLayer /\ ~HookReportExpert
  <2>1. SamePreempt /\ FewerPreemptOne
    BY <1>3, <1>t, <1>s, PreemptSame, PreemptOneFewer
  <2>2. CASE HookStart
    BY <2>1, <2>2, PlaceFrame DEF HookStart
  <2>3. CASE HookExpertDone
    <3>1. ~InQueue("Preempt") /\ spc # "preempting" /\ UNCHANGED <<experts, spc>>
      BY <2>3 DEF HookExpertDone, BudgetInv, PreemptInv
    <3> QED BY <2>1, <3>1 DEF PlaceInv, SamePreempt, FewerPreemptOne, DistinctExperts
  <2>4. CASE HookLayerDone
    <3>1. idx' = 1 /\ experts' = << >>
      BY <2>4 DEF HookLayerDone
    <3> QED BY <2>1, <3>1 DEF PlaceInv, SamePreempt, FewerPreemptOne, DistinctExperts
  <2> QED BY <1>3, <2>2, <2>3, <2>4 DEF Hook
<1> QED BY <1>1, <1>2, <1>3

LEMMA NextPlace == TypeInv /\ BudgetInv /\ PlaceInv /\ [Next]_vars => PlaceInv'
<1> SUFFICES ASSUME TypeInv, BudgetInv, PlaceInv, [Next]_vars PROVE PlaceInv'
  OBVIOUS
<1>t. /\ squeue \in Seq(Kind) /\ UniquePreempt /\ UniquePreemptOne
      /\ experts \in Seq(ExpertIdx)
  BY DEF TypeInv, TypeOK, Kind, BudgetInv, PreemptInv, PlaceInv
<1>1. CASE Next /\ SchedPreempt
  <2>1. /\ squeue # << >> /\ squeue' = Tail(squeue) /\ idx' = idx /\ InQueue("Preempt")
    BY <1>1, <1>t, TakeInQueue DEF SchedPreempt, Take
  <2>2. FewerPreemptOne /\ idx' = 1
    BY <1>t, <2>1, PreemptOneTail DEF PlaceInv
  <2>3. DistinctExperts'
    <3>1. CASE ReorderExperts
      <4>1. Reordering(experts')
        BY <1>1, <3>1 DEF SchedPreempt
      <4>2. DistinctExperts
        BY DEF PlaceInv
      <4> QED BY <1>t, <4>1, <4>2, ReorderedDistinct DEF DistinctExperts
    <3>2. CASE ~ReorderExperts
      BY <1>1, <3>2 DEF SchedPreempt, PlaceInv, DistinctExperts
    <3> QED BY <3>1, <3>2
  <2> QED BY <2>2, <2>3 DEF PlaceInv, FewerPreemptOne
<1>2. CASE Next /\ (Scheduler \/ Fetcher \/ StreamStep \/ Unlock \/ Predictor) /\ ~SchedPreempt
  <2>1. UNCHANGED <<hpc, experts, idx>> /\ (spc' = spc \/ spc' = "ready")
    BY <1>2 DEF Scheduler, SchedPreemptExpert, SchedPreemptEnd, SchedPreemptOne,
       SchedPrefetchLayer, SchedFetchDone, SchedIdle, SchedIdleAgain, Fetcher, FetchStart,
       FetchEnd, StreamStep, Unlock, Predictor, PredictStart, PredictLayer, PredictLayerDone
  <2>2. ~HookReportLayer /\ ~HookReportExpert
    BY <2>1 DEF HookReportLayer, HookReportExpert
  <2>3. SamePreempt /\ FewerPreemptOne
    BY <1>2, <1>t, <2>2, PreemptSame, PreemptOneFewer
  <2> QED BY <2>1, <2>3 DEF PlaceInv, SamePreempt, FewerPreemptOne, DistinctExperts
<1>3. CASE UNCHANGED vars
  BY <1>3 DEF vars, PlaceInv, UniquePreemptOne, InQueue, DistinctExperts
<1> QED BY <1>1, <1>2, <1>3, HookPlace DEF Next, Step

-----------------------------------------------------------------------------
(* The pins.  A step that makes none, and takes back no place.                                *)
LEMMA PinsKept ==
  ASSUME PinInv, Launched' \subseteq Launched, UNCHANGED <<precise_job_queue, current>>,
         PrefetchUnpinned', AskedExperts \subseteq AskedExperts'
  PROVE  PinInv'
BY DEF PinInv, Wanted, Copied, WantedOnce

LEMMA UnpinnedCleared ==
  ASSUME TypeInv, PrefetchUnpinned, per_layer_job_queues' = Cleared
  PROVE  PrefetchUnpinned'
<1>1. layer \in Layer /\ per_layer_job_queues \in [Layer -> Seq(CopyTask)]
  BY DEF TypeInv, TypeOK
<1>2. SUFFICES ASSUME NEW l \in Layer, NEW i \in 1 .. Len(per_layer_job_queues'[l])
               PROVE  ~per_layer_job_queues'[l][i].is_precise
  BY DEF PrefetchUnpinned
<1>3. CASE l = layer
  <2>1. per_layer_job_queues'[l] = << >>
    BY <1>1, <1>3 DEF Cleared
  <2> QED BY <1>2, <2>1
<1>4. CASE l # layer
  <2>1. per_layer_job_queues'[l] = per_layer_job_queues[l]
    BY <1>1, <1>4 DEF Cleared
  <2> QED BY <1>2, <2>1 DEF PrefetchUnpinned
<1> QED BY <1>3, <1>4

(* preempt_one_expert and the loop of the layer: e gets its first pin. *)
LEMMA PreemptPins ==
  ASSUME TypeInv, PinInv, NEW e \in Expert, NEW behind, NEW line, PreemptExpert(e, behind, line),
         e \notin AskedExperts, AskedExperts \cup {e} \subseteq AskedExperts',
         UNCHANGED per_layer_job_queues
  PROVE  PinInv'
<1>t. /\ expert_status \in [Expert -> Status] /\ precise_job_queue \in Seq(CopyTask)
      /\ current \in CopyTask \cup {NoTask} /\ Len(precise_job_queue) \in Nat
  BY DEF TypeInv, TypeOK
<1>e. e \notin Launched \cup Wanted \cup Copied
  BY DEF PinInv
<1>u. PrefetchUnpinned'
  BY DEF PinInv, PrefetchUnpinned
<1>a. ASSUME NEW t, t.expert = e, precise_job_queue' = Append(precise_job_queue, t)
      PROVE  Wanted' = Wanted \cup {e} /\ WantedOnce'
  <2> DEFINE q == precise_job_queue
  <2>1. /\ Len(q') = Len(q) + 1 /\ \A i \in 1 .. Len(q) : q'[i] = q[i]
        /\ q'[Len(q) + 1] = t
    BY <1>t, <1>a
  <2>2. \A i \in 1 .. Len(q') : i \in 1 .. Len(q) \/ i = Len(q) + 1
    BY <1>t, <2>1
  <2>3. Len(q) + 1 \in 1 .. Len(q') /\ \A i \in 1 .. Len(q) : i \in 1 .. Len(q')
    BY <1>t, <2>1
  <2>4. Wanted' = Wanted \cup {e}
    BY <1>a, <2>1, <2>2, <2>3 DEF Wanted
  <2>5. \A i \in 1 .. Len(q) : q[i].expert # e
    BY <1>e DEF Wanted
  <2>6. WantedOnce'
    BY <1>a, <2>1, <2>2, <2>5 DEF WantedOnce, PinInv
  <2> QED BY <2>4, <2>6
<1>1. CASE \E start : AddPrecise(e, start)
  <2>1. PICK start : AddPrecise(e, start)
    BY <1>1
  <2>2. Wanted' = Wanted \cup {e} /\ WantedOnce'
    BY <1>a, <2>1 DEF AddPrecise, Task
  <2>3. UNCHANGED <<current, expert_status>>
    BY <2>1 DEF AddPrecise
  <2>4. Launched' = Launched /\ Copied' = Copied
    BY <2>3 DEF Launched, Copied
  <2>5. current.is_precise => current.expert # e
    BY <1>e DEF Copied
  <2> QED BY <1>e, <1>u, <2>2, <2>3, <2>4, <2>5 DEF PinInv
<1>2. CASE CheckedTransfer(e, "Ready", "Launching", line) /\ UNCHANGED <<precise_job_queue, current>>
  <2>1. Launched' \subseteq Launched \cup {e}
    BY <1>2, <1>t DEF CheckedTransfer, Transferred, Launched
  <2>2. Wanted' = Wanted /\ Copied' = Copied /\ WantedOnce'
    BY <1>2 DEF Wanted, Copied, WantedOnce, PinInv
  <2> QED BY <1>2, <1>e, <1>u, <2>1, <2>2 DEF PinInv
<1>3. CASE /\ e = current.expert /\ current' = [current EXCEPT !.is_precise = TRUE]
           /\ precise_job_queue' = IF current.stop = P THEN precise_job_queue
                                     ELSE Append(precise_job_queue, Task(e, current.stop, P, TRUE))
           /\ UNCHANGED <<expert_status, aborted>>
  <2>1. Launched' = Launched
    BY <1>3 DEF Launched
  <2>2. current'.expert = e /\ current'.stop = current.stop
    BY <1>3, <1>t DEF CopyTask, NoTask
  <2>3. Copied' \subseteq {e}
    BY <2>2 DEF Copied
  <2>4. CASE current.stop = P
    <3>1. Wanted' = Wanted /\ WantedOnce'
      BY <1>3, <2>4 DEF Wanted, WantedOnce, PinInv
    <3> QED BY <1>e, <1>u, <2>1, <2>2, <2>3, <3>1 DEF PinInv
  <2>5. CASE current.stop # P
    <3>1. Wanted' = Wanted \cup {e} /\ WantedOnce'
      BY <1>3, <1>a, <2>5 DEF Task
    <3> QED BY <1>e, <1>u, <2>1, <2>2, <2>3, <2>5, <3>1 DEF PinInv
  <2> QED BY <2>4, <2>5
<1> QED BY <1>1, <1>2, <1>3 DEF PreemptExpert

LEMMA SchedPreemptExpertPins ==
  TypeInv /\ BudgetInv /\ PlaceInv /\ PinInv /\ SchedPreemptExpert => PinInv'
<1> SUFFICES ASSUME TypeInv, BudgetInv, PlaceInv, PinInv, SchedPreemptExpert PROVE PinInv'
  OBVIOUS
<1> DEFINE e == <<layer, experts[sidx]>>
<1>t. /\ experts \in Seq(ExpertIdx) /\ sidx \in Nat \ {0} /\ layer \in Layer /\ idx \in Nat \ {0}
      /\ Len(experts) \in Nat
  BY DEF TypeInv, TypeOK
<1>s. /\ spc = "preempting" /\ sidx <= Len(experts) /\ sidx' = sidx + 1
      /\ PreemptExpert(e, BehindMiss(sidx), "prefetcher.cpp:105")
      /\ UNCHANGED <<hpc, layer, experts, idx, squeue, spc, per_layer_job_queues>>
  BY DEF SchedPreemptExpert
<1>h. EarlyPreempt /\ ~InQueue("Preempt") /\ ~InQueue("Preempt")' /\ hpc = "expert" /\ idx = 1
  BY <1>s DEF BudgetInv, PreemptInv, PlaceInv, InQueue
<1>p. sidx \in 1 .. Len(experts)
  BY <1>t, <1>s
<1>e. e \in Expert
  BY <1>t, <1>p DEF Expert
<1>1. Asked = {i \in 1 .. Len(experts) : i < sidx}
  BY <1>h, <1>s DEF Asked
<1>2. Asked' = {i \in 1 .. Len(experts) : i < sidx + 1}
  BY <1>h, <1>s DEF Asked
<1>3. Asked' = Asked \cup {sidx} /\ Asked \subseteq 1 .. Len(experts) /\ sidx \notin Asked
  BY <1>t, <1>p, <1>1, <1>2
<1>4. e \notin AskedExperts
  BY <1>p, <1>3 DEF AskedExperts, PlaceInv, DistinctExperts
<1>5. AskedExperts \cup {e} \subseteq AskedExperts'
  BY <1>s, <1>3 DEF AskedExperts
<1> QED BY <1>e, <1>s, <1>4, <1>5, PreemptPins

LEMMA SchedPreemptOnePins ==
  TypeInv /\ PlaceInv /\ PinInv /\ SchedPreemptOne => PinInv'
<1> SUFFICES ASSUME TypeInv, PlaceInv, PinInv, SchedPreemptOne PROVE PinInv'
  OBVIOUS
<1>t. squeue \in Seq(Kind) /\ UniquePreemptOne
  BY DEF TypeInv, TypeOK, Kind, PlaceInv
<1>s. /\ Take("PreemptOne") /\ squeue' = Tail(squeue)
      /\ PreemptExpert(HookExpert, FALSE, "prefetcher.cpp:55")
      /\ UNCHANGED <<hpc, layer, experts, idx, per_layer_job_queues>>
  BY DEF SchedPreemptOne
<1>1. InQueue("PreemptOne") /\ squeue # << >> /\ Head(squeue) = "PreemptOne"
  BY <1>t, <1>s, TakeInQueue DEF Take
<1>2. hpc = "wait" /\ ~EarlyPreempt
  BY <1>1 DEF TypeInv, IndexInv, PlaceInv
<1>3. ~InQueue("PreemptOne")'
  BY <1>t, <1>s, <1>1, PreemptOneTail
<1>4. AskedExperts = {}
  BY <1>1, <1>2, NothingAsked
<1>5. AskedExperts' = {HookExpert}
  BY <1>2, <1>3, <1>s DEF AskedExperts, Asked, HookExpert
<1>6. HookExpert \in Expert
  <2>1. /\ idx \in 1 .. Len(experts) /\ experts \in Seq(ExpertIdx) /\ layer \in Layer
    BY <1>2 DEF TypeInv, TypeOK, IndexInv
  <2> QED BY <2>1 DEF HookExpert, Expert
<1>7. HookExpert \notin AskedExperts /\ AskedExperts \cup {HookExpert} \subseteq AskedExperts'
  BY <1>4, <1>5
<1> QED BY <1>s, <1>6, <1>7, PreemptPins

(* The hook uses an expert: its pin is gone with its place. *)
LEMMA HookExpertDonePins ==
  TypeInv /\ BudgetInv /\ PlaceInv /\ PinInv /\ HookExpertDone => PinInv'
<1> SUFFICES ASSUME TypeInv, BudgetInv, PlaceInv, PinInv, HookExpertDone PROVE PinInv'
  OBVIOUS
<1>t. /\ expert_status \in [Expert -> Status] /\ experts \in Seq(ExpertIdx)
      /\ idx \in Nat \ {0} /\ idx <= Len(experts) /\ Len(experts) \in Nat /\ layer \in Layer
  BY DEF TypeInv, TypeOK, IndexInv, HookExpertDone
<1>s. /\ hpc = "wait" /\ expert_status[HookExpert] = "Launching"
      /\ expert_status' = [expert_status EXCEPT ![HookExpert] = "Using"]
      /\ idx' = idx + 1 /\ hpc' = IF idx < Len(experts) THEN "expert" ELSE "layer_done"
      /\ UNCHANGED <<layer, experts, squeue, spc, sidx, precise_job_queue, current,
                     per_layer_job_queues>>
  BY DEF HookExpertDone
<1>h. spc # "preempting" /\ ~InQueue("Preempt") /\ ~InQueue("Preempt")'
  BY <1>s DEF BudgetInv, PreemptInv, InQueue
<1>e. HookExpert \in Launched
  <2>1. HookExpert \in Expert
    BY <1>t DEF HookExpert, Expert
  <2> QED BY <2>1, <1>s DEF Launched
<1>1. Launched' = Launched \ {HookExpert}
  BY <1>t, <1>s DEF Launched
<1>2. Wanted' = Wanted /\ Copied' = Copied /\ WantedOnce' /\ PrefetchUnpinned'
  BY <1>s DEF Wanted, Copied, WantedOnce, PinInv, PrefetchUnpinned
<1>3. HookExpert \notin Wanted \cup Copied
  BY <1>e DEF PinInv
<1>4. Asked \ {idx} \subseteq Asked'
  <2>1. CASE EarlyPreempt
    <3>1. Asked \ {idx} = {i \in (idx + 1) .. Len(experts) : TRUE}
      BY <1>h, <1>s, <1>t, <2>1 DEF Asked
    <3>2. CASE idx < Len(experts)
      BY <1>h, <1>s, <2>1, <3>1, <3>2 DEF Asked
    <3>3. CASE ~(idx < Len(experts))
      BY <1>t, <3>1, <3>3
    <3> QED BY <3>2, <3>3
  <2>2. CASE ~EarlyPreempt
    BY <2>2 DEF Asked
  <2> QED BY <2>1, <2>2
<1>5. AskedExperts \ {HookExpert} \subseteq AskedExperts'
  BY <1>4, <1>s DEF AskedExperts, HookExpert
<1> QED BY <1>1, <1>2, <1>3, <1>5, <1>s DEF PinInv

(* The other steps of the hook, and the ends of the preempt handler. *)
LEMMA HookPins ==
  TypeInv /\ BudgetInv /\ PlaceInv /\ PinInv /\ Next /\ Hook => PinInv'
<1> SUFFICES ASSUME TypeInv, BudgetInv, PlaceInv, PinInv, Next, Hook PROVE PinInv'
  OBVIOUS
<1>1. CASE HookExpertDone
  BY <1>1, HookExpertDonePins
<1>2. CASE ~HookExpertDone
  <2>1. UNCHANGED <<expert_status, precise_job_queue, current, per_layer_job_queues, spc, sidx>>
    BY <1>2 DEF Hook, HookStart, HookReportLayer, HookReportExpert, HookLayerDone
  <2>2. Launched' = Launched /\ PrefetchUnpinned'
    BY <2>1 DEF Launched, PinInv, PrefetchUnpinned
  <2>3. AskedExperts \subseteq AskedExperts'
    <3>1. CASE HookReportExpert /\ EarlyPreempt
      <4>1. UNCHANGED <<layer, experts, idx, squeue>> /\ hpc' = "wait" /\ spc = "ready" /\ hpc = "expert"
        BY <3>1 DEF HookReportExpert, HandlerEnded
      <4>2. Asked' = Asked
        BY <2>1, <3>1, <4>1 DEF Asked, InQueue
      <4> QED BY <4>1, <4>2 DEF AskedExperts
    <3>2. CASE ~(HookReportExpert /\ EarlyPreempt)
      <4>1. hpc \notin {"expert", "wait"} \/ (hpc = "expert" /\ ~EarlyPreempt)
        BY <1>2, <3>2 DEF Hook, HookStart, HookReportLayer, HookReportExpert, HookLayerDone
      <4>2. AskedExperts = {}
        BY <4>1, NothingAsked
      <4> QED BY <4>2
    <3> QED BY <3>1, <3>2
  <2> QED BY <2>1, <2>2, <2>3, PinsKept
<1> QED BY <1>1, <1>2

LEMMA SchedPreemptPins ==
  TypeInv /\ BudgetInv /\ PinInv /\ SchedPreempt => PinInv'
<1> SUFFICES ASSUME TypeInv, BudgetInv, PinInv, SchedPreempt PROVE PinInv'
  OBVIOUS
<1>t. squeue \in Seq(Kind)
  BY DEF TypeInv, TypeOK, Kind
<1>1. InQueue("Preempt")
  BY <1>t, TakeInQueue DEF SchedPreempt
<1>2. AskedExperts = {}
  BY <1>1, NothingAsked DEF BudgetInv, PreemptInv
<1>3. PrefetchUnpinned
  BY DEF PinInv
<1>4. per_layer_job_queues' = Cleared \/ per_layer_job_queues' = per_layer_job_queues
  BY DEF SchedPreempt
<1>5. PrefetchUnpinned'
  BY <1>3, <1>4, UnpinnedCleared DEF PrefetchUnpinned
<1>6. UNCHANGED <<expert_status, precise_job_queue, current>>
  BY DEF SchedPreempt
<1>7. Launched' = Launched
  BY <1>6 DEF Launched
<1> QED BY <1>2, <1>5, <1>6, <1>7, PinsKept

LEMMA SchedPreemptEndPins ==
  TypeInv /\ BudgetInv /\ PlaceInv /\ PinInv /\ SchedPreemptEnd => PinInv'
<1> SUFFICES ASSUME TypeInv, BudgetInv, PlaceInv, PinInv, SchedPreemptEnd PROVE PinInv'
  OBVIOUS
<1>1. PrefetchUnpinned'
  BY UnpinnedCleared DEF PinInv, SchedPreemptEnd
<1>2. UNCHANGED <<expert_status, precise_job_queue, current, hpc, layer, experts, idx, squeue>>
      /\ spc' = "ready"
  BY DEF SchedPreemptEnd
<1>3. Launched' = Launched
  BY <1>2 DEF Launched
<1>4. Asked \subseteq Asked'
  BY <1>2 DEF Asked, InQueue
<1>5. AskedExperts \subseteq AskedExperts'
  BY <1>2, <1>4 DEF AskedExperts
<1> QED BY <1>1, <1>2, <1>3, <1>5, PinsKept

(* The copy has ended: if it was precise, the pin of the copy is now the expert's status. *)
LEMMA FetchDonePins ==
  ASSUME TypeInv, PinInv, SchedFetchDone, AskedExperts \subseteq AskedExperts'
  PROVE  PinInv'
<1>t. expert_status \in [Expert -> Status] /\ current \in CopyTask \cup {NoTask}
  BY DEF TypeInv, TypeOK
<1>s. /\ current' = NoTask /\ UNCHANGED <<precise_job_queue, per_layer_job_queues>>
      /\ \/ expert_status' = expert_status
         \/ /\ current.stop = P
            /\ expert_status' = Transferred(current.expert, "Fetching", FetchedStatus)
  BY DEF SchedFetchDone, CheckedTransfer
<1>1. Copied' = {} /\ Wanted' = Wanted /\ WantedOnce' /\ PrefetchUnpinned' /\ ~current'.is_precise
  BY <1>s DEF Copied, Wanted, WantedOnce, PinInv, PrefetchUnpinned, NoTask
<1>2. CASE Launched' \subseteq Launched
  BY <1>1, <1>2 DEF PinInv
<1>3. CASE ~(Launched' \subseteq Launched)
  <2>1. PICK e \in Launched' : e \notin Launched
    BY <1>3
  <2>2. /\ current.stop = P /\ FetchedStatus = "Launching"
        /\ Launched' \subseteq Launched \cup {current.expert}
    BY <1>s, <1>t, <2>1 DEF Launched, Transferred, FetchedStatus
  <2>3. current.is_precise
    BY <2>2 DEF FetchedStatus
  <2>4. current.expert \notin Wanted /\ current.expert \in AskedExperts
    BY <2>2, <2>3 DEF PinInv, Copied
  <2> QED BY <1>1, <2>2, <2>4 DEF PinInv
<1> QED BY <1>2, <1>3

(* A miss launches nothing. *)
LEMMA MissLaunchesNone ==
  ASSUME TypeInv, NEW t \in CopyTask, TakeUnused(t.expert) \/ (\E v \in Expert : Evict(t.expert, v))
  PROVE  Launched' \subseteq Launched
<1>t. expert_status \in [Expert -> Status] /\ t.expert \in Expert
  BY DEF TypeInv, TypeOK, CopyTask
<1>1. CASE TakeUnused(t.expert)
  BY <1>1, <1>t DEF TakeUnused, CheckedTransfer, Transferred, Launched
<1>2. ASSUME NEW v \in Expert, Evict(t.expert, v) PROVE Launched' \subseteq Launched
  BY <1>2, <1>t DEF Evict, Launched
<1> QED BY <1>1, <1>2

(* send_one_job of a job that is not queued any more. *)
LEMMA SendPins ==
  ASSUME TypeInv, PinInv, NEW t \in CopyTask, SendOneJob(t),
         Wanted' \subseteq Wanted, WantedOnce', PrefetchUnpinned', AskedExperts \subseteq AskedExperts',
         t.is_precise => t.expert \in AskedExperts \ (Launched \cup Wanted')
  PROVE  PinInv'
<1>t. expert_status \in [Expert -> Status] /\ t.expert \in Expert
  BY DEF TypeInv, TypeOK, CopyTask
<1>1. CASE UNCHANGED <<current, expert_status>>
  <2>1. Launched' = Launched /\ Copied' = Copied
    BY <1>1 DEF Launched, Copied
  <2> QED BY <1>1, <2>1 DEF PinInv
<1>2. ASSUME current'.expert = t.expert, current'.is_precise = t.is_precise, Launched' \subseteq Launched
      PROVE  PinInv'
  <2>1. Copied' = IF t.is_precise THEN {t.expert} ELSE {}
    BY <1>2 DEF Copied
  <2> QED BY <1>2, <2>1 DEF PinInv
<1>3. CASE SendMissed(t)
  <2>1. CASE TakeUnused(t.expert) /\ Fetch(t, NoExpert)
    <3>1. Launched' \subseteq Launched
      BY <2>1, MissLaunchesNone
    <3> QED BY <1>2, <2>1, <3>1 DEF Fetch
  <2>2. ASSUME NEW v \in InSlot(t.expert), Evict(t.expert, v), NEW w, Fetch(t, w) PROVE PinInv'
    <3>1. v \in Expert
      BY DEF InSlot
    <3>2. Launched' \subseteq Launched
      BY <2>2, <3>1, MissLaunchesNone
    <3> QED BY <1>2, <2>2, <3>2 DEF Fetch
  <2> QED BY <1>1, <1>3, <2>1, <2>2 DEF SendMissed
<1>4. CASE SendDuplicate(t)
  <2>1. Copied' = {} /\ ~current'.is_precise
    BY <1>4 DEF SendDuplicate, Copied, NoTask
  <2>2. CASE t.is_precise
    <3>1. Launched' \subseteq Launched \cup {t.expert}
      BY <1>4, <1>t, <2>2 DEF SendDuplicate, Transferred, Launched
    <3> QED BY <2>1, <2>2, <3>1 DEF PinInv
  <2>3. CASE ~t.is_precise
    <3>1. Launched' = Launched
      BY <1>4, <2>3 DEF SendDuplicate, Launched
    <3> QED BY <2>1, <3>1 DEF PinInv
  <2> QED BY <2>2, <2>3
<1>5. CASE SendRest(t)
  <2>1. current' = [t EXCEPT !.start = num_ready[t.expert]] /\ Launched' = Launched
    BY <1>5 DEF SendRest, Fetch, Launched
  <2>2. current'.expert = t.expert /\ current'.is_precise = t.is_precise
    BY <2>1 DEF CopyTask
  <2> QED BY <1>2, <2>1, <2>2
<1> QED BY <1>3, <1>4, <1>5 DEF SendOneJob

LEMMA SchedIdlePins ==
  ASSUME TypeInv, PinInv, SchedIdle, AskedExperts \subseteq AskedExperts'
  PROVE  PinInv'
<1> DEFINE q == precise_job_queue
           lq == per_layer_job_queues
<1>t. q \in Seq(CopyTask) /\ lq \in [Layer -> Seq(CopyTask)]
  BY DEF TypeInv, TypeOK
<1>1. CASE PopPrecise
  <2> DEFINE t == Head(q)
  <2>1. /\ q # << >> /\ q' = Tail(q) /\ lq' = lq /\ SendOneJob(t)
    BY <1>1 DEF PopPrecise
  <2>2. /\ Len(q) \in Nat \ {0} /\ Len(q') = Len(q) - 1
        /\ \A i \in 1 .. Len(q') : q'[i] = q[i + 1]
        /\ t = q[1] /\ t \in CopyTask
    BY <1>t, <2>1, HeadTail
  <2>3. \A i \in 1 .. Len(q') : i + 1 \in 1 .. Len(q) /\ i + 1 # 1
    BY <2>2
  <2>4. 1 \in 1 .. Len(q)
    BY <2>2
  <2>5. Wanted' \subseteq Wanted /\ t.expert \in Wanted
    BY <2>2, <2>3, <2>4 DEF Wanted
  <2>6. WantedOnce'
    <3> SUFFICES ASSUME NEW i \in 1 .. Len(q'), NEW j \in 1 .. Len(q'), q'[i].expert = q'[j].expert
                 PROVE  i = j
      BY DEF WantedOnce
    <3>1. i + 1 = j + 1
      BY <2>2, <2>3 DEF PinInv, WantedOnce
    <3> QED BY <3>1
  <2>7. t.expert \notin Wanted'
    BY <2>2, <2>3, <2>4 DEF Wanted, PinInv, WantedOnce
  <2>8. t.expert \in AskedExperts /\ t.expert \notin Launched
    BY <2>5 DEF PinInv
  <2>9. PrefetchUnpinned'
    BY <2>1 DEF PinInv, PrefetchUnpinned
  <2> QED BY <2>1, <2>2, <2>5, <2>6, <2>7, <2>8, <2>9, SendPins
<1>2. ASSUME NEW l \in Layer, PopLayer(l) PROVE PinInv'
  <2> DEFINE t == Head(lq[l])
  <2>1. lq[l] # << >> /\ lq' = [lq EXCEPT ![l] = Tail(@)] /\ q' = q /\ SendOneJob(t)
    BY <1>2 DEF PopLayer
  <2>2. /\ Len(lq[l]) \in Nat \ {0} /\ Len(Tail(lq[l])) = Len(lq[l]) - 1
        /\ \A i \in 1 .. Len(Tail(lq[l])) : Tail(lq[l])[i] = lq[l][i + 1]
        /\ t = lq[l][1] /\ t \in CopyTask
    BY <1>t, <2>1, HeadTail
  <2>3. \A i \in 1 .. Len(Tail(lq[l])) : i + 1 \in 1 .. Len(lq[l])
    BY <2>2
  <2>4. 1 \in 1 .. Len(lq[l])
    BY <2>2
  <2>5. ~t.is_precise
    BY <2>2, <2>4 DEF PinInv, PrefetchUnpinned
  <2>6. PrefetchUnpinned'
    <3> SUFFICES ASSUME NEW k \in Layer, NEW i \in 1 .. Len(lq'[k]) PROVE ~lq'[k][i].is_precise
      BY DEF PrefetchUnpinned
    <3>1. CASE k = l
      <4>1. lq'[k] = Tail(lq[l])
        BY <1>t, <2>1, <3>1
      <4> QED BY <2>2, <2>3, <4>1 DEF PinInv, PrefetchUnpinned
    <3>2. CASE k # l
      <4>1. lq'[k] = lq[k]
        BY <1>t, <2>1, <3>2
      <4> QED BY <4>1 DEF PinInv, PrefetchUnpinned
    <3> QED BY <3>1, <3>2
  <2>7. Wanted' = Wanted /\ WantedOnce'
    BY <2>1 DEF Wanted, WantedOnce, PinInv
  <2> QED BY <2>1, <2>2, <2>5, <2>6, <2>7, SendPins
<1> QED BY <1>1, <1>2 DEF SchedIdle

LEMMA PrefetchTasksUnpinned ==
  ASSUME NEW l, NEW es \in Seq(ExpertIdx), NEW i \in 1 .. Len(PrefetchTasks(l, es))
  PROVE  ~PrefetchTasks(l, es)[i].is_precise
<1>p. P \in Nat \ {0} /\ Len(es) \in Nat
  BY ConstantsAssumption DEF P
<1>1. CASE ChunkPrefetch
  <2>1. Len(es) * P \in Nat
    BY <1>p
  <2> HIDE <1>p
  <2> DEFINE n == Len(es) * P
             task(k) == Task(<<l, es[((k - 1) \div P) + 1]>>, (k - 1) % P, ((k - 1) % P) + 1, FALSE)
  <2>2. PrefetchTasks(l, es) = [k \in 1 .. n |-> task(k)]
    BY <1>1 DEF PrefetchTasks
  <2>3. \A k : ~task(k).is_precise
    BY DEF Task
  <2> HIDE DEF n, task
  <2>4. n \in Nat
    BY <2>1 DEF n
  <2>5. Len(PrefetchTasks(l, es)) = n
    BY <2>2, <2>4
  <2> QED BY <2>2, <2>3, <2>5
<1>2. CASE ~ChunkPrefetch
  BY <1>p, <1>2 DEF PrefetchTasks, Task
<1> QED BY <1>1, <1>2

LEMMA SchedPrefetchLayerPins ==
  ASSUME TypeInv, PinInv, SchedPrefetchLayer, AskedExperts \subseteq AskedExperts'
  PROVE  PinInv'
<1> DEFINE lq == per_layer_job_queues
           ts == PrefetchTasks(pnext, pexperts)
<1>t. /\ lq \in [Layer -> Seq(CopyTask)] /\ pexperts \in Seq(ExpertIdx)
  BY DEF TypeInv, TypeOK
<1>l. pnext \in Layer
  <2>1. squeue \in Seq(Kind)
    BY DEF TypeInv, TypeOK, Kind
  <2>2. InQueue("Prefetch")
    BY <2>1, TakeInQueue DEF SchedPrefetchLayer
  <2>3. pnext < pstop /\ pnext \in 0 .. NumLayer /\ pstop \in 0 .. NumLayer
    BY <2>2 DEF TypeInv, TypeOK, IndexInv
  <2> QED BY <2>3, ConstantsAssumption DEF Layer
<1>s. lq' = [lq EXCEPT ![pnext] = @ \o ts] /\ UNCHANGED <<precise_job_queue, current, expert_status>>
  BY DEF SchedPrefetchLayer
<1>q. ts \in Seq(CopyTask) /\ lq[pnext] \in Seq(CopyTask)
  BY <1>t, <1>l, PrefetchTasksType
<1>u. \A i \in 1 .. Len(ts) : ~ts[i].is_precise
  BY <1>t, PrefetchTasksUnpinned
<1>1. PrefetchUnpinned'
  <2> HIDE DEF ts
  <2> SUFFICES ASSUME NEW k \in Layer, NEW i \in 1 .. Len(lq'[k]) PROVE ~lq'[k][i].is_precise
    BY DEF PrefetchUnpinned
  <2>1. CASE k = pnext
    <3>1. lq'[k] = lq[pnext] \o ts
      BY <1>t, <1>s, <1>l, <2>1
    <3>2. CASE i \in 1 .. Len(lq[pnext])
      <4>1. lq'[k][i] = lq[pnext][i]
        BY <1>q, <3>1, <3>2
      <4> QED BY <1>l, <3>2, <4>1 DEF PinInv, PrefetchUnpinned
    <3>3. CASE i \notin 1 .. Len(lq[pnext])
      <4>1. lq'[k][i] = ts[i - Len(lq[pnext])] /\ i - Len(lq[pnext]) \in 1 .. Len(ts)
        BY <1>q, <3>1, <3>3
      <4> QED BY <1>u, <4>1
    <3> QED BY <3>2, <3>3
  <2>2. CASE k # pnext
    <3>1. lq'[k] = lq[k]
      BY <1>t, <1>s, <2>2
    <3> QED BY <3>1 DEF PinInv, PrefetchUnpinned
  <2> QED BY <2>1, <2>2
<1>2. Launched' = Launched
  BY <1>s DEF Launched
<1> QED BY <1>1, <1>2, <1>s, PinsKept

LEMMA NextPins == TypeInv /\ BudgetInv /\ PlaceInv /\ PinInv /\ [Next]_vars => PinInv'
<1> SUFFICES ASSUME TypeInv, BudgetInv, PlaceInv, PinInv, [Next]_vars PROVE PinInv'
  OBVIOUS
<1>t. UniquePreempt /\ UniquePreemptOne /\ expert_status \in [Expert -> Status] /\ uqueue \in Seq(Expert)
      /\ victim \in Expert \cup {NoExpert}
  BY DEF TypeInv, TypeOK, BudgetInv, PreemptInv, PlaceInv
<1>1. CASE /\ Next /\ ~SchedPreempt
           /\ \/ SchedPrefetchLayer \/ SchedFetchDone \/ SchedIdle \/ SchedIdleAgain
              \/ Fetcher \/ StreamStep \/ Unlock \/ Predictor
  <2>1. UNCHANGED <<hpc, layer, experts, idx, spc, sidx>>
    BY <1>1 DEF SchedPrefetchLayer, SchedFetchDone, SchedIdle, SchedIdleAgain, Fetcher,
       FetchStart, FetchEnd, StreamStep, Unlock, Predictor, PredictStart, PredictLayer,
       PredictLayerDone
  <2>2. ~HookReportLayer /\ ~HookReportExpert
    BY <2>1 DEF HookReportLayer, HookReportExpert
  <2>3. SamePreempt
    BY <1>1, <1>t, <2>2, PreemptSame
  <2>4. FewerPreemptOne
    BY <1>1, <1>t, <2>2, PreemptOneFewer
  <2>5. AskedExperts \subseteq AskedExperts'
    BY <2>1, <2>3, <2>4, AskedFrame
  <2>6. CASE SchedPrefetchLayer \/ SchedFetchDone \/ SchedIdle
    BY <2>5, <2>6, SchedPrefetchLayerPins, FetchDonePins, SchedIdlePins
  <2>7. CASE SchedIdleAgain \/ Fetcher \/ StreamStep \/ Unlock \/ Predictor
    <3>1. UNCHANGED <<precise_job_queue, current, per_layer_job_queues>>
      BY <2>7 DEF SchedIdleAgain, Fetcher, FetchStart, FetchEnd, StreamStep, Unlock, Predictor,
         PredictStart, PredictLayer, PredictLayerDone
    <3>2. PrefetchUnpinned'
      BY <3>1 DEF PinInv, PrefetchUnpinned
    <3>3. Launched' \subseteq Launched
      <4>1. CASE FetchStart
        BY <1>t, <4>1 DEF FetchStart, Launched
      <4>2. CASE Unlock
        BY <1>t, <4>2 DEF Unlock, CheckedTransfer, Transferred, Launched
      <4>3. CASE UNCHANGED expert_status
        BY <4>3 DEF Launched
      <4> QED BY <2>7, <4>1, <4>2, <4>3 DEF SchedIdleAgain, Fetcher, FetchEnd, StreamStep,
           Predictor, PredictStart, PredictLayer, PredictLayerDone
    <3> QED BY <2>5, <3>1, <3>2, <3>3, PinsKept
  <2> QED BY <1>1, <2>6, <2>7
<1>2. CASE Next /\ Hook
  BY <1>2, HookPins
<1>3. CASE SchedPreempt \/ SchedPreemptExpert \/ SchedPreemptEnd \/ SchedPreemptOne
  BY <1>3, SchedPreemptPins, SchedPreemptExpertPins, SchedPreemptEndPins, SchedPreemptOnePins
<1>4. CASE UNCHANGED vars
  <2>1. /\ UNCHANGED <<hpc, layer, experts, idx, squeue, spc, sidx>>
        /\ UNCHANGED <<current, precise_job_queue, per_layer_job_queues, expert_status>>
    BY <1>4 DEF vars
  <2>2. Asked' = Asked
    BY <2>1 DEF Asked, InQueue
  <2>3. AskedExperts' = AskedExperts
    BY <2>1, <2>2 DEF AskedExperts
  <2>4. Launched' = Launched /\ PrefetchUnpinned'
    BY <2>1 DEF Launched, PinInv, PrefetchUnpinned
  <2> QED BY <2>1, <2>3, <2>4, PinsKept
<1> QED BY <1>1, <1>2, <1>3, <1>4 DEF Next, Step, Scheduler

LEMMA InitPins == Init => PlaceInv /\ PinInv
<1> SUFFICES ASSUME Init PROVE PlaceInv /\ PinInv
  OBVIOUS
<1>1. /\ Len(squeue) = 1 /\ squeue[1] = "Idle" /\ spc = "ready" /\ experts = << >>
      /\ precise_job_queue = << >> /\ ~current.is_precise
      /\ \A l \in Layer : per_layer_job_queues[l] = << >>
      /\ \A e \in Expert : expert_status[e] = "Idle"
  BY DEF Init, NoTask
<1>2. \A k : InQueue(k) => k = "Idle"
  BY <1>1 DEF InQueue
<1>3. PlaceInv
  BY <1>1, <1>2 DEF PlaceInv, DistinctExperts, UniquePreemptOne
<1>4. Launched = {} /\ Wanted = {} /\ Copied = {}
  BY <1>1 DEF Launched, Wanted, Copied
<1>5. WantedOnce /\ PrefetchUnpinned
  BY <1>1 DEF WantedOnce, PrefetchUnpinned
<1> QED BY <1>1, <1>3, <1>4, <1>5 DEF PinInv

(* Only an expert the hook still has to use is launched, queued precisely or copied precisely *)
(* (preempt_one_expert, send_one_job, FetchDoneTask).                                         *)
THEOREM NoPinLeaks == Spec => []NoPinLeak
<1>1. Spec => []TypeInv
  BY InitTypeInv, NextTypeInv, PTL DEF Spec
<1>2. Spec => []BudgetInv
  BY <1>1, InitBudget, NextBudget, PTL DEF Spec
<1>3. Spec => []PlaceInv
  BY <1>1, <1>2, InitPins, NextPlace, PTL DEF Spec
<1>4. Spec => []PinInv
  BY <1>1, <1>2, <1>3, InitPins, NextPins, PTL DEF Spec
<1>5. TypeInv /\ PinInv => NoPinLeak
  <2> SUFFICES ASSUME TypeInv, PinInv PROVE NoPinLeak
    OBVIOUS
  <2>1. AskedExperts \subseteq Awaited
    <3>1. Asked \subseteq idx .. Len(experts) /\ (Asked # {} => hpc \in {"expert", "wait"})
      <4>1. hpc = "wait" => idx \in idx .. Len(experts)
        BY DEF TypeInv, TypeOK, IndexInv
      <4> QED BY <4>1 DEF Asked
    <3> QED BY <3>1 DEF AskedExperts, Awaited
  <2>2. \A t \in Queued(precise_job_queue) : t.expert \in Wanted
    BY DEF Queued, Wanted
  <2>3. \A e \in Expert : expert_status[e] = "Launching" => e \in Launched
    BY DEF Launched
  <2>4. current.is_precise => current.expert \in Copied
    BY DEF Copied
  <2> QED BY <2>1, <2>2, <2>3, <2>4 DEF NoPinLeak, PinInv
<1> QED BY <1>1, <1>4, <1>5, PTL

-----------------------------------------------------------------------------
(* The refinement.  reorder_experts moves the experts and loses none.                         *)
LEMMA ReorderedSame ==
  ASSUME NEW r, Reordering(r), experts \in Seq(ExpertIdx)
  PROVE  {r[i] : i \in 1 .. Len(r)} = {experts[i] : i \in 1 .. Len(experts)}
<1> DEFINE n == Len(experts)
           class(i) == ReorderClass(<<layer, experts[i]>>)
<1>1. PICK p \in [1 .. n -> 1 .. n] :
        /\ \A i, j \in 1 .. n : i < j =>
             \/ class(p[i]) < class(p[j])
             \/ class(p[i]) = class(p[j]) /\ p[i] < p[j]
        /\ r = [i \in 1 .. n |-> experts[p[i]]]
  BY DEF Reordering
<1>n. n \in Nat
  OBVIOUS
<1>2. Len(r) = n
  BY <1>1, <1>n
<1>c. \A i : class(i) \in Nat
  BY DEF ReorderClass
<1> HIDE DEF class
<1>3. ASSUME NEW i \in 1 .. n, NEW j \in 1 .. n, i < j PROVE p[i] # p[j]
  <2>1. class(p[i]) < class(p[j]) \/ p[i] < p[j]
    BY <1>1, <1>3
  <2>2. p[i] \in 1 .. n /\ p[j] \in 1 .. n /\ class(p[i]) \in Nat
    BY <1>1, <1>c
  <2> QED BY <2>1, <2>2
<1>4. \A i, j \in 1 .. n : p[i] = p[j] => i = j
  <2> SUFFICES ASSUME NEW i \in 1 .. n, NEW j \in 1 .. n, p[i] = p[j], i # j PROVE FALSE
    OBVIOUS
  <2>1. i < j \/ j < i
    BY <1>n
  <2> QED BY <1>3, <2>1
<1>5. p \in Injection(1 .. n, 1 .. n)
  BY <1>1, <1>4 DEF Injection, IsInjective
<1>6. IsFiniteSet(1 .. n)
  BY <1>n, FS_Interval
<1>7. p \in Surjection(1 .. n, 1 .. n)
  BY <1>5, <1>6, FS_Injection
<1>8. \A k \in 1 .. n : \E i \in 1 .. n : p[i] = k
  BY <1>7 DEF Surjection
<1> QED BY <1>1, <1>2, <1>8

Open == hpc \in {"expert", "wait", "layer_done"}
Running == {stream[i] : i \in 1 .. Len(stream)}

(* What the abstract state sees does not change. *)
Unseen == /\ UNCHANGED <<iter, layer, mapped, content>>
          /\ Open' = Open /\ Awaited' = Awaited /\ Running' = Running

LEMMA UnseenStutters == Unseen => UNCHANGED Execution!vars
<1> SUFFICES ASSUME Unseen PROVE UNCHANGED Execution!vars
  OBVIOUS
<1>1. Resident' = Resident
  BY DEF Unseen, Resident
<1> QED BY <1>1 DEF Unseen, Execution!vars, Open, Running

LEMMA ExecutionInit == Init => Execution!Init
<1> SUFFICES ASSUME Init PROVE Execution!Init
  OBVIOUS
<1>1. Awaited = {} /\ Running = {} /\ ~Open
  BY DEF Init, Awaited, Running, Open
<1>2. Resident = {}
  BY DEF Init, Resident
<1> QED BY <1>1, <1>2 DEF Init, Execution!Init, Open, Running

LEMMA HookReportLayerActivates == TypeInv /\ HookReportLayer => Execution!Activate
<1> SUFFICES ASSUME TypeInv, HookReportLayer PROVE Execution!Activate
  OBVIOUS
<1>1. Running = {} /\ Running' = {} /\ ~Open /\ Open' /\ UNCHANGED <<iter, layer>>
  BY DEF HookReportLayer, Running, Open
<1>2. Resident' = Resident
  BY DEF HookReportLayer, Resident
<1>3. PICK n \in 1 .. MaxActive : experts' \in Ranked(n)
  BY DEF HookReportLayer, Activations
<1>4. Len(experts') = n /\ 1 \in 1 .. n /\ \A i \in 1 .. n : experts'[i] \in ExpertIdx
  BY <1>3, ConstantsAssumption DEF Ranked
<1>5. Awaited' = {<<layer, experts'[i]>> : i \in 1 .. n}
  BY <1>4 DEF HookReportLayer, Awaited
<1>6. Awaited' \in (SUBSET ({layer} \X ExpertIdx)) \ {{}}
  <2>1. <<layer, experts'[1]>> \in Awaited'
    BY <1>4, <1>5
  <2>2. ASSUME NEW e \in Awaited' PROVE e \in {layer} \X ExpertIdx
    <3>1. PICK i \in 1 .. n : e = <<layer, experts'[i]>>
      BY <1>5
    <3> QED BY <1>4, <3>1
  <2>3. Awaited' # {} /\ Awaited' \subseteq {layer} \X ExpertIdx
    BY <2>1, <2>2
  <2> QED BY <2>3
<1> QED BY <1>1, <1>2, <1>6 DEF Execution!Activate, Open, Running

LEMMA HookExpertDoneLaunches ==
  TypeInv /\ PlaceInv /\ ComputeReadsOwnWeights /\ HookExpertDone => Execution!Launch
<1> SUFFICES ASSUME TypeInv, PlaceInv, ComputeReadsOwnWeights, HookExpertDone
             PROVE  Execution!Launch
  OBVIOUS
<1>t. /\ experts \in Seq(ExpertIdx) /\ layer \in Layer /\ stream \in Seq(Expert)
      /\ idx \in Nat \ {0} /\ idx <= Len(experts) /\ Len(experts) \in Nat
  BY DEF TypeInv, TypeOK, IndexInv, HookExpertDone
<1>s. /\ hpc = "wait" /\ expert_status[HookExpert] = "Launching"
      /\ stream' = Append(stream, HookExpert)
      /\ idx' = idx + 1 /\ hpc' = IF idx < Len(experts) THEN "expert" ELSE "layer_done"
      /\ UNCHANGED <<iter, layer, experts, mapped, content>>
  BY DEF HookExpertDone
<1>1. HookExpert \in Expert
  BY <1>t DEF HookExpert, Expert
<1>2. HookExpert \in Resident
  BY <1>1, <1>s DEF ComputeReadsOwnWeights, Resident
<1>3. Awaited = {<<layer, experts[i]>> : i \in idx .. Len(experts)}
  BY <1>s DEF Awaited
<1>4. Awaited' = {<<layer, experts[i]>> : i \in (idx + 1) .. Len(experts)}
  <2>1. CASE idx < Len(experts)
    BY <1>s, <2>1 DEF Awaited
  <2>2. CASE ~(idx < Len(experts))
    <3>1. (idx + 1) .. Len(experts) = {}
      BY <1>t, <2>2
    <3> QED BY <1>s, <2>2, <3>1 DEF Awaited
  <2> QED BY <2>1, <2>2
<1>5. HookExpert \in Awaited /\ Awaited' = Awaited \ {HookExpert}
  <2>1. idx .. Len(experts) = {idx} \cup (idx + 1) .. Len(experts) /\ idx \notin (idx + 1) .. Len(experts)
    BY <1>t
  <2>2. \A i \in (idx + 1) .. Len(experts) : experts[i] # experts[idx]
    BY <1>t, <2>1 DEF PlaceInv, DistinctExperts
  <2> QED BY <1>3, <1>4, <2>1, <2>2 DEF HookExpert
<1>6. Running' = Running \cup {HookExpert}
  <2>1. /\ Len(stream') = Len(stream) + 1 /\ Len(stream) \in Nat
        /\ \A i \in 1 .. Len(stream) : stream'[i] = stream[i]
        /\ stream'[Len(stream) + 1] = HookExpert
    BY <1>t, <1>s, <1>1, Appended
  <2>2. 1 .. Len(stream') = 1 .. Len(stream) \cup {Len(stream) + 1}
    BY <2>1
  <2> QED BY <2>1, <2>2 DEF Running
<1>7. Resident' = Resident /\ Open /\ Open'
  BY <1>s DEF Resident, Open
<1> QED BY <1>2, <1>5, <1>6, <1>7, <1>s DEF Execution!Launch, Open, Running

LEMMA HookLayerDoneCloses == TypeInv /\ HookLayerDone => Execution!CloseLayer
<1> SUFFICES ASSUME TypeInv, HookLayerDone PROVE Execution!CloseLayer
  OBVIOUS
<1>1. /\ hpc = "layer_done" /\ layer' = NextLayer
      /\ iter' = IF layer = NumLayer - 1 THEN iter + 1 ELSE iter
      /\ hpc' \in {"start", "done", "layer"}
      /\ UNCHANGED <<stream, mapped, content>>
  BY DEF HookLayerDone
<1>2. Awaited = {} /\ Awaited' = {} /\ Open /\ ~Open' /\ Resident' = Resident /\ Running' = Running
  BY <1>1 DEF Awaited, Open, Resident, Running
<1>3. layer \in 0 .. (NumLayer - 1) /\ NumLayer \in Nat \ {0}
  BY ConstantsAssumption DEF TypeInv, TypeOK, Layer
<1>4. layer' = (layer + 1) % NumLayer
  <2>1. CASE layer = NumLayer - 1
    BY <1>1, <1>3, <2>1 DEF NextLayer
  <2>2. CASE layer # NumLayer - 1
    <3>1. (layer + 1) % NumLayer = layer + 1
      BY <1>3, <2>2
    <3> QED BY <1>1, <2>2, <3>1 DEF NextLayer
  <2> QED BY <2>1, <2>2
<1>5. iter' = IF layer' = 0 THEN iter + 1 ELSE iter
  BY <1>1, <1>3 DEF NextLayer
<1>6. (hpc \in {"expert", "wait", "layer_done"})' = FALSE
  BY <1>2 DEF Open
<1>7. UNCHANGED <<Awaited, {stream[i] : i \in 1 .. Len(stream)}, Resident>>
  BY <1>2 DEF Running
<1> QED BY <1>2, <1>4, <1>5, <1>6, <1>7 DEF Execution!CloseLayer, Open

LEMMA StreamStepFinishes == TypeInv /\ StreamStep => Execution!Finish \/ Unseen
<1> SUFFICES ASSUME TypeInv, StreamStep PROVE Execution!Finish \/ Unseen
  OBVIOUS
<1>1. /\ stream # << >> /\ stream' = Tail(stream) /\ stream \in Seq(Expert)
      /\ UNCHANGED <<hpc, iter, layer, experts, idx, mapped, content>>
  BY DEF StreamStep, TypeInv, TypeOK
<1>2. /\ Len(stream) \in Nat \ {0} /\ Len(stream') = Len(stream) - 1
      /\ \A i \in 1 .. Len(stream') : stream'[i] = stream[i + 1]
      /\ Head(stream) = stream[1]
  BY <1>1, HeadTail
<1>3. /\ \A i \in 1 .. Len(stream') : i + 1 \in 1 .. Len(stream)
      /\ \A i \in 1 .. Len(stream) : i = 1 \/ (i - 1 \in 1 .. Len(stream') /\ (i - 1) + 1 = i)
      /\ 1 \in 1 .. Len(stream)
  BY <1>2
<1>4. Running = Running' \cup {stream[1]}
  <2>1. \A i \in 1 .. Len(stream') : stream'[i] \in Running
    BY <1>2, <1>3 DEF Running
  <2>2. \A i \in 1 .. Len(stream) : i # 1 => stream[i] \in Running'
    <3> SUFFICES ASSUME NEW i \in 1 .. Len(stream), i # 1 PROVE stream[i] \in Running'
      OBVIOUS
    <3>1. i - 1 \in 1 .. Len(stream') /\ stream'[i - 1] = stream[i]
      BY <1>2, <1>3
    <3> QED BY <3>1 DEF Running
  <2> QED BY <1>3, <2>1, <2>2 DEF Running
<1>5. Awaited' = Awaited /\ Open' = Open /\ Resident' = Resident
  BY <1>1 DEF Awaited, Open, Resident
<1>6. CASE stream[1] \in Running'
  BY <1>1, <1>4, <1>5, <1>6 DEF Unseen
<1>7. CASE stream[1] \notin Running'
  <2>1. stream[1] \in Running /\ Running' = Running \ {stream[1]}
    BY <1>4, <1>7
  <2> QED BY <1>1, <1>5, <2>1 DEF Execution!Finish, Open, Running
<1> QED BY <1>6, <1>7

(* A copy changes what is resident, and takes away nothing that runs. *)
LEMMA FetcherMoves ==
  TypeInv /\ ComputeReadsOwnWeights' /\ Fetcher => Execution!Move
<1> SUFFICES ASSUME TypeInv, ComputeReadsOwnWeights', Fetcher PROVE Execution!Move
  OBVIOUS
<1>1. UNCHANGED <<hpc, iter, layer, experts, idx, stream>>
  BY DEF Fetcher, FetchStart, FetchEnd
<1>2. Awaited' = Awaited /\ Open' = Open /\ Running' = Running
  BY <1>1 DEF Awaited, Open, Running
<1>3. Resident' \in SUBSET Expert
  BY DEF Resident
<1>4. Running \subseteq Resident'
  <2> SUFFICES ASSUME NEW i \in 1 .. Len(stream) PROVE stream[i] \in Resident'
    BY DEF Running
  <2>1. stream[i] \in Expert
    BY DEF TypeInv, TypeOK
  <2>2. \E j \in 1 .. Len(stream') : stream'[j] = stream[i]
    BY <1>1
  <2> QED BY <2>1, <2>2 DEF ComputeReadsOwnWeights, InStream, Resident
<1> QED BY <1>1, <1>2, <1>3, <1>4 DEF Execution!Move, Execution!Expert, Execution!Layer, Expert,
        Layer, Open, Running

(* The preempt handler may reorder what the hook has not used yet, which is everything. *)
LEMMA SchedPreemptUnseen == TypeInv /\ BudgetInv /\ PlaceInv /\ SchedPreempt => Unseen
<1> SUFFICES ASSUME TypeInv, BudgetInv, PlaceInv, SchedPreempt PROVE Unseen
  OBVIOUS
<1>1. squeue \in Seq(Kind) /\ experts \in Seq(ExpertIdx)
  BY DEF TypeInv, TypeOK, Kind
<1>2. InQueue("Preempt")
  BY <1>1, TakeInQueue DEF SchedPreempt
<1>3. hpc = "expert" /\ idx = 1
  BY <1>2 DEF BudgetInv, PreemptInv, PlaceInv
<1>4. UNCHANGED <<hpc, iter, layer, idx, stream, mapped, content>>
  BY DEF SchedPreempt
<1>5. {experts'[i] : i \in 1 .. Len(experts')} = {experts[i] : i \in 1 .. Len(experts)}
  <2>1. CASE ReorderExperts
    <3>1. Reordering(experts')
      BY <2>1 DEF SchedPreempt
    <3> QED BY <1>1, <3>1, ReorderedSame
  <2>2. CASE ~ReorderExperts
    BY <2>2 DEF SchedPreempt
  <2> QED BY <2>1, <2>2
<1>6. Awaited = {<<layer, x>> : x \in {experts[i] : i \in 1 .. Len(experts)}}
  BY <1>3 DEF Awaited
<1>7. Awaited' = {<<layer, x>> : x \in {experts'[i] : i \in 1 .. Len(experts')}}
  BY <1>3, <1>4 DEF Awaited
<1> QED BY <1>3, <1>4, <1>5, <1>6, <1>7 DEF Unseen, Open, Running

LEMMA ExecutionStep ==
  /\ TypeInv /\ BudgetInv /\ PlaceInv /\ ComputeReadsOwnWeights /\ ComputeReadsOwnWeights'
  /\ [Next]_vars
  => [Execution!Next]_(Execution!vars)
<1> SUFFICES ASSUME TypeInv, BudgetInv, PlaceInv, ComputeReadsOwnWeights,
                    ComputeReadsOwnWeights', [Next]_vars
             PROVE  Execution!Next \/ UNCHANGED Execution!vars
  OBVIOUS
<1>1. CASE UNCHANGED <<hpc, iter, layer, experts, idx, stream, mapped, content>>
  <2>1. Unseen
    BY <1>1 DEF Unseen, Open, Awaited, Running
  <2> QED BY <2>1, UnseenStutters
<1>2. CASE Hook
  <2>1. CASE HookStart \/ HookReportExpert
    <3>1. UNCHANGED <<iter, layer, experts, idx, stream, mapped, content>>
      BY <2>1 DEF HookStart, HookReportExpert
    <3>2. Open' = Open /\ Awaited' = Awaited
      BY <2>1, <3>1 DEF HookStart, HookReportExpert, Open, Awaited
    <3>3. Unseen
      BY <3>1, <3>2 DEF Unseen, Running
    <3> QED BY <3>3, UnseenStutters
  <2>2. CASE HookReportLayer
    BY <2>2, HookReportLayerActivates DEF Execution!Next
  <2>3. CASE HookExpertDone
    BY <2>3, HookExpertDoneLaunches DEF Execution!Next
  <2>4. CASE HookLayerDone
    BY <2>4, HookLayerDoneCloses DEF Execution!Next
  <2> QED BY <1>2, <2>1, <2>2, <2>3, <2>4 DEF Hook
<1>3. CASE Scheduler
  <2>1. CASE SchedPreempt
    BY <2>1, SchedPreemptUnseen, UnseenStutters
  <2>2. CASE ~SchedPreempt
    BY <1>1, <1>3, <2>2 DEF Scheduler, SchedPreemptExpert, SchedPreemptEnd, SchedPreemptOne,
       SchedPrefetchLayer, SchedFetchDone, SchedIdle, SchedIdleAgain
  <2> QED BY <2>1, <2>2
<1>4. CASE Fetcher
  BY <1>4, FetcherMoves DEF Execution!Next
<1>5. CASE StreamStep
  BY <1>5, StreamStepFinishes, UnseenStutters DEF Execution!Next
<1>6. CASE Unlock \/ Predictor
  BY <1>1, <1>6 DEF Unlock, Predictor, PredictStart, PredictLayer, PredictLayerDone
<1>7. CASE UNCHANGED vars
  BY <1>1, <1>7 DEF vars
<1> QED BY <1>2, <1>3, <1>4, <1>5, <1>6, <1>7 DEF Next, Step

(* The threads compute the experts the gates chose, each once, layer by layer, and with its   *)
(* own weights, whatever is reordered, promoted, evicted or prefetched meanwhile.             *)
THEOREM ThreadsImplementExecution == Spec => ImplementsExecution
<1>1. Spec => []TypeInv
  BY InitTypeInv, NextTypeInv, PTL DEF Spec
<1>2. Spec => []BudgetInv
  BY <1>1, InitBudget, NextBudget, PTL DEF Spec
<1>3. Spec => []PlaceInv
  BY <1>1, <1>2, InitPins, NextPlace, PTL DEF Spec
<1>4. Spec => []ComputeReadsOwnWeights
  BY ComputesWithOwnWeights
<1> QED BY <1>1, <1>2, <1>3, <1>4, ExecutionInit, ExecutionStep, PTL
        DEF Spec, ImplementsExecution, Execution!Spec

-----------------------------------------------------------------------------
(* Service.  What is asked for is launched, queued precisely, or about to be launched by the  *)
(* copy in flight.                                                                            *)
Finishing == IF current.is_precise /\ current.stop = P THEN {current.expert} ELSE {}

ServedInv == aborted = "none" => AskedExperts \subseteq Launched \cup Wanted \cup Finishing

(* Between two copies current_task is null; a precise job is for all that is missing.         *)
PreciseInv ==
  /\ ~InFlight => current = NoTask
  /\ \A a \in 1 .. Len(precise_job_queue) :
       precise_job_queue[a].is_precise /\ precise_job_queue[a].stop = P

HookAt(i) == <<layer, experts[i]>>
Missing(e) == gpu_data[e] = NoBuffer

(* Precise jobs are queued in the order of the hook's array, and nothing behind a missing     *)
(* expert of the queue is launched or about to be.                                            *)
OrderInv ==
  \A a \in 1 .. Len(precise_job_queue), j \in 1 .. Len(experts) :
    precise_job_queue[a].expert = HookAt(j) =>
      /\ \A b \in 1 .. (a - 1), i \in 1 .. Len(experts) :
           precise_job_queue[b].expert = HookAt(i) => i < j
      /\ \A i \in (j + 1) .. Len(experts) :
           HookAt(i) \in Launched \cup Copied => ~Missing(HookAt(j))

(* No precise job is a duplicate: the expert lacks chunks, and the copy in flight is not for  *)
(* the last of them.                                                                          *)
WholeInv ==
  \A a \in 1 .. Len(precise_job_queue) :
    /\ num_ready[precise_job_queue[a].expert] # P
    /\ precise_job_queue[a].expert = current.expert => current.stop # P

(* reorder_experts has put the missing experts last. *)
SortedInv ==
  spc = "preempting" =>
    \A i, j \in 1 .. Len(experts) : i < j /\ Missing(HookAt(i)) => Missing(HookAt(j))

(* The options with which no expert gets a job only because it may be evicted. *)
ReorderedOrLate == ReorderExperts \/ ~EarlyPreempt

-----------------------------------------------------------------------------
(* A task leaves the scheduler's queue only when it is taken. *)
LEMMA KeptIdleAgain ==
  ASSUME squeue \in Seq(Kind), squeue # << >>, squeue' = IdleAgain, NEW kind, Head(squeue) # kind,
         InQueue(kind)
  PROVE  InQueue(kind)'
<1>1. Tail(squeue) \in Seq(Kind) /\ "Idle" \in Kind
  BY HeadTail DEF Kind
<1>2. /\ Len(squeue) \in Nat \ {0} /\ Len(Tail(squeue)) = Len(squeue) - 1
      /\ \A i \in 1 .. Len(Tail(squeue)) : Tail(squeue)[i] = squeue[i + 1]
      /\ Head(squeue) = squeue[1]
  BY HeadTail
<1>3. /\ Len(squeue') = Len(Tail(squeue)) + 1
      /\ \A i \in 1 .. Len(Tail(squeue)) : squeue'[i] = Tail(squeue)[i]
  BY <1>1, Appended DEF IdleAgain
<1>4. PICK i \in 1 .. Len(squeue) : squeue[i] = kind
  BY DEF InQueue
<1>5. i - 1 \in 1 .. Len(Tail(squeue)) /\ i - 1 \in 1 .. Len(squeue') /\ (i - 1) + 1 = i
  BY <1>2, <1>3, <1>4
<1> QED BY <1>2, <1>3, <1>4, <1>5 DEF InQueue

LEMMA KeptUntilTaken ==
  ASSUME TypeInv, [Next]_vars, NEW kind, InQueue(kind), Scheduler => ~Take(kind)
  PROVE  InQueue(kind)'
<1>t. squeue \in Seq(Kind)
  BY DEF TypeInv, TypeOK, Kind
<1>1. CASE squeue' = squeue
  BY <1>1 DEF InQueue
<1>2. ASSUME NEW k \in Kind, squeue' = Append(squeue, k) PROVE InQueue(kind)'
  BY <1>2, <1>t, TokenKeptAppend
<1>3. ASSUME Scheduler, NEW k, Take(k), squeue' \in {Tail(squeue), IdleAgain} PROVE InQueue(kind)'
  <2>1. squeue # << >> /\ Head(squeue) # kind
    BY <1>3 DEF Take
  <2> QED BY <1>3, <1>t, <2>1, TokenKeptTail, KeptIdleAgain
<1>k. {"Preempt", "PreemptOne", "FetchDone", "Prefetch"} \subseteq Kind
  BY DEF Kind
<1>4. CASE Hook
  <2>1. squeue' \in {squeue, Append(squeue, "Preempt"), Append(squeue, "PreemptOne")}
    BY <1>4 DEF Hook, HookStart, HookReportLayer, HookReportExpert, HookExpertDone, HookLayerDone
  <2> QED BY <1>1, <1>2, <1>k, <2>1
<1>5. CASE Scheduler
  <2>1. CASE SchedPreemptExpert \/ SchedPreemptEnd
    BY <1>1, <2>1 DEF SchedPreemptExpert, SchedPreemptEnd
  <2>2. CASE SchedPreempt \/ SchedPreemptOne \/ SchedPrefetchLayer \/ SchedFetchDone \/ SchedIdleAgain
    BY <1>3, <1>5, <2>2 DEF SchedPreempt, SchedPreemptOne, SchedPrefetchLayer, SchedFetchDone, SchedIdleAgain
  <2>3. CASE SchedIdle
    <3>1. Take("Idle")
      BY <2>3 DEF SchedIdle
    <3>2. \A t : SendOneJob(t) => squeue' \in {squeue, Tail(squeue), IdleAgain}
      BY DEF SendOneJob, SendMissed, SendDuplicate, SendRest, Fetch
    <3>3. squeue' \in {squeue, Tail(squeue), IdleAgain}
      BY <2>3, <3>2 DEF SchedIdle, PopPrecise, PopLayer
    <3> QED BY <1>1, <1>3, <1>5, <3>1, <3>3
  <2> QED BY <1>5, <2>1, <2>2, <2>3 DEF Scheduler
<1>6. CASE Fetcher \/ StreamStep \/ Unlock \/ Predictor
  <2>1. squeue' \in {squeue, Append(squeue, "FetchDone"), Append(squeue, "Prefetch")}
    BY <1>6 DEF Fetcher, FetchStart, FetchEnd, StreamStep, Unlock, Predictor, PredictStart,
       PredictLayer, PredictLayerDone
  <2> QED BY <1>1, <1>2, <1>k, <2>1
<1>7. CASE UNCHANGED vars
  BY <1>1, <1>7 DEF vars
<1> QED BY <1>4, <1>5, <1>6, <1>7 DEF Next, Step

(* A copy in flight stays so until FetchDoneTask. *)
LEMMA FlightKept ==
  ASSUME TypeInv, WeightsInv, [Next]_vars, ~SchedFetchDone, InFlight
  PROVE  InFlight'
<1>t. squeue \in Seq(Kind)
  BY DEF TypeInv, TypeOK, Kind
<1>1. CASE InQueue("FetchDone")
  <2>1. Take("FetchDone") => ~Scheduler
    BY DEF Scheduler, SchedPreempt, SchedPreemptExpert, SchedPreemptEnd, SchedPreemptOne,
       SchedPrefetchLayer, SchedIdle, SchedIdleAgain, Take
  <2> QED BY <1>1, <2>1, KeptUntilTaken DEF InFlight
<1>3. CASE fpc # "idle"
  <2>1. CASE FetchEnd
    <3>1. squeue' = Append(squeue, "FetchDone") /\ "FetchDone" \in Kind
      BY <2>1 DEF FetchEnd, Kind
    <3> QED BY <1>t, <3>1, TokenKeptAppend DEF InFlight
  <2>2. CASE FetchStart
    BY <2>2 DEF FetchStart, InFlight
  <2>3. CASE SchedIdle
    BY <1>3, <2>3, IdleQuiet DEF SchedIdle
  <2>4. CASE ~FetchEnd /\ ~FetchStart /\ ~SchedIdle
    <3>1. fpc' = fpc
      BY <2>4 DEF Next, Step, Hook, HookStart, HookReportLayer, HookReportExpert, HookExpertDone,
         HookLayerDone, Scheduler, SchedPreempt, SchedPreemptExpert, SchedPreemptEnd, SchedPreemptOne,
         SchedPrefetchLayer, SchedFetchDone, SchedIdleAgain, Fetcher, StreamStep, Unlock, Predictor,
         PredictStart, PredictLayer, PredictLayerDone, vars
    <3> QED BY <1>3, <3>1 DEF InFlight
  <2> QED BY <2>1, <2>2, <2>3, <2>4
<1> QED BY <1>1, <1>3 DEF InFlight

-----------------------------------------------------------------------------
(* Places.  What is asked for is in the hook's array, and so is what is pinned.               *)
LEMMA AskedTyped == TypeInv => Asked \subseteq 1 .. Len(experts) /\ AskedExperts \subseteq Expert
<1> SUFFICES ASSUME TypeInv
             PROVE  Asked \subseteq 1 .. Len(experts) /\ AskedExperts \subseteq Expert
  OBVIOUS
<1>t. /\ experts \in Seq(ExpertIdx) /\ idx \in Nat \ {0} /\ layer \in Layer /\ Len(experts) \in Nat
      /\ hpc = "wait" => idx <= Len(experts)
  BY DEF TypeInv, TypeOK, IndexInv
<1>1. Asked \subseteq 1 .. Len(experts)
  BY <1>t DEF Asked
<1> QED BY <1>t, <1>1 DEF AskedExperts, Expert

LEMMA PlaceUnique ==
  ASSUME PlaceInv, NEW i \in 1 .. Len(experts), NEW j \in 1 .. Len(experts), HookAt(i) = HookAt(j)
  PROVE  i = j
BY DEF PlaceInv, DistinctExperts, HookAt

(* When nothing is asked for, nothing is pinned. *)
LEMMA NothingPinned ==
  ASSUME PinInv, AskedExperts = {}, precise_job_queue \in Seq(CopyTask)
  PROVE  Launched = {} /\ Copied = {} /\ Wanted = {} /\ precise_job_queue = << >>
<1>1. Launched = {} /\ Copied = {} /\ Wanted = {}
  BY DEF PinInv
<1>2. precise_job_queue # << >> => 1 \in 1 .. Len(precise_job_queue)
  OBVIOUS
<1> QED BY <1>1, <1>2 DEF Wanted

(* No step but those of the hook and of the preempt handlers asks for more. *)
LEMMA NoMoreAsked ==
  ASSUME UNCHANGED <<hpc, layer, experts, idx, spc, sidx>>,
         InQueue("Preempt") => InQueue("Preempt")', InQueue("PreemptOne") => InQueue("PreemptOne")'
  PROVE  AskedExperts' \subseteq AskedExperts
<1>1. Asked' \subseteq Asked
  BY DEF Asked
<1> QED BY <1>1 DEF AskedExperts

(* Steps that change no pin but those of experts used, and move no buffer. *)
LEMMA ServiceFrame ==
  ASSUME TypeInv, WeightsInv, PlaceInv, PinInv, [Next]_vars, ~SchedFetchDone,
         UNCHANGED <<precise_job_queue, current, layer, experts>>, Launched' \subseteq Launched
  PROVE  /\ PreciseInv => PreciseInv'
         /\ OrderInv /\ UNCHANGED gpu_data => OrderInv'
         /\ WholeInv /\ UNCHANGED num_ready => WholeInv'
         /\ SortedInv /\ UNCHANGED gpu_data /\ (spc' = "preempting" => spc = "preempting") => SortedInv'
<1>1. PreciseInv => PreciseInv'
  BY FlightKept DEF PreciseInv
<1>2. OrderInv /\ UNCHANGED gpu_data => OrderInv'
  BY DEF OrderInv, HookAt, Missing, Copied
<1>3. WholeInv /\ UNCHANGED num_ready => WholeInv'
  BY DEF WholeInv
<1>4. SortedInv /\ UNCHANGED gpu_data /\ (spc' = "preempting" => spc = "preempting") => SortedInv'
  BY DEF SortedInv, HookAt, Missing
<1> QED BY <1>1, <1>2, <1>3, <1>4

LEMMA ServedFrame ==
  ASSUME ServedInv, UNCHANGED <<precise_job_queue, current>>, aborted' = "none" => aborted = "none",
         AskedExperts' \subseteq AskedExperts, Launched \ Launched' \subseteq AskedExperts \ AskedExperts'
  PROVE  ServedInv'
<1>1. Wanted' = Wanted /\ Finishing' = Finishing
  BY DEF Wanted, Finishing
<1> QED BY <1>1 DEF ServedInv

-----------------------------------------------------------------------------
(* The preempt handlers: e, at place s, behind all places asked for so far. *)
LEMMA PreemptMoves ==
  ASSUME TypeInv, NEW e \in Expert, NEW behind, NEW line, line # "none",
         PreemptExpert(e, behind, line)
  PROVE  /\ \/ precise_job_queue' = precise_job_queue
            \/ /\ ~IsInCache(e) \/ behind \/ (num_ready[e] # P /\ (e = current.expert => current.stop # P))
               /\ \E start : precise_job_queue' = Append(precise_job_queue, Task(e, start, P, TRUE))
         /\ \/ current' = current
            \/ /\ e = current.expert /\ IsInCache(e) /\ ~behind
               /\ current' = [current EXCEPT !.is_precise = TRUE]
         /\ Launched \subseteq Launched'
         /\ \/ Launched' = Launched
            \/ Launched' = Launched \cup {e} /\ IsInCache(e) /\ ~behind
         /\ current'.expert = current.expert /\ current'.stop = current.stop
         /\ aborted' = "none" => e \in Launched' \cup Wanted' \cup Finishing'
<1>t. /\ expert_status \in [Expert -> Status] /\ precise_job_queue \in Seq(CopyTask)
      /\ current \in CopyTask \cup {NoTask}
  BY DEF TypeInv, TypeOK
<1>a. ASSUME NEW t, t.expert = e, precise_job_queue' = Append(precise_job_queue, t)
      PROVE  e \in Wanted'
  <2>1. Len(precise_job_queue) \in Nat
    BY <1>t
  <2>2. /\ Len(precise_job_queue') = Len(precise_job_queue) + 1
        /\ precise_job_queue'[Len(precise_job_queue) + 1] = t
    BY <1>t, <1>a, <2>1
  <2>3. Len(precise_job_queue) + 1 \in 1 .. Len(precise_job_queue')
    BY <2>1, <2>2
  <2> QED BY <1>a, <2>2, <2>3 DEF Wanted
<1>1. CASE \E start : AddPrecise(e, start) /\ (~IsInCache(e) \/ behind \/ (num_ready[e] # P /\ e # current.expert))
  <2>1. PICK start : AddPrecise(e, start) /\ (~IsInCache(e) \/ behind \/ (num_ready[e] # P /\ e # current.expert))
    BY <1>1
  <2>2. /\ precise_job_queue' = Append(precise_job_queue, Task(e, start, P, TRUE))
        /\ UNCHANGED <<current, expert_status>>
    BY <2>1 DEF AddPrecise
  <2>3. Launched' = Launched
    BY <2>2 DEF Launched
  <2>4. e \in Wanted'
    BY <1>a, <2>2 DEF Task
  <2> QED BY <2>1, <2>2, <2>3, <2>4
<1>2. CASE /\ IsInCache(e) /\ ~behind /\ CheckedTransfer(e, "Ready", "Launching", line)
           /\ UNCHANGED <<precise_job_queue, current>>
  <2>1. CASE expert_status[e] = "Ready"
    <3>1. expert_status' = [expert_status EXCEPT ![e] = "Launching"]
      BY <1>2, <2>1 DEF CheckedTransfer, Transferred
    <3>2. Launched' = Launched \cup {e}
      BY <1>t, <3>1 DEF Launched
    <3> QED BY <1>2, <3>2
  <2>2. CASE expert_status[e] # "Ready"
    <3>1. expert_status' = expert_status
      BY <1>2, <2>2 DEF CheckedTransfer, Transferred
    <3>2. Launched' = Launched
      BY <3>1 DEF Launched
    <3>3. aborted' = line
      BY <1>2, <2>2 DEF CheckedTransfer
    <3> QED BY <1>2, <3>2, <3>3
  <2> QED BY <2>1, <2>2
<1>3. CASE /\ IsInCache(e) /\ ~behind /\ num_ready[e] # P /\ e = current.expert
           /\ current' = [current EXCEPT !.is_precise = TRUE]
           /\ precise_job_queue' = IF current.stop = P THEN precise_job_queue
                                     ELSE Append(precise_job_queue, Task(e, current.stop, P, TRUE))
           /\ UNCHANGED <<expert_status, aborted>>
  <2>1. Launched' = Launched
    BY <1>3 DEF Launched
  <2>2. current'.expert = current.expert /\ current'.stop = current.stop /\ current'.is_precise
    BY <1>3, <1>t DEF CopyTask, NoTask
  <2>3. CASE current.stop = P
    BY <1>3, <2>1, <2>2, <2>3 DEF Finishing
  <2>4. CASE current.stop # P
    <3>1. precise_job_queue' = Append(precise_job_queue, Task(e, current.stop, P, TRUE))
      BY <1>3, <2>4
    <3>2. e \in Wanted'
      BY <1>a, <3>1 DEF Task
    <3> QED BY <1>3, <2>1, <2>2, <2>4, <3>1, <3>2
  <2> QED BY <2>3, <2>4
<1> QED BY <1>1, <1>2, <1>3 DEF PreemptExpert

(* e is preempted at place s, behind all places asked for: the queue stays in order. *)
LEMMA PreemptOrder ==
  ASSUME TypeInv, PlaceInv, PinInv, BuffersPartitioned, OrderInv, NEW s \in 1 .. Len(experts),
         \A i \in 1 .. Len(experts) : HookAt(i) \in AskedExperts => i < s,
         NEW behind, NEW line, line # "none", PreemptExpert(HookAt(s), behind, line),
         ~behind => \A i \in 1 .. (s - 1) : HookAt(i) \in AskedExperts => ~Missing(HookAt(i)),
         UNCHANGED <<layer, experts, gpu_data>>
  PROVE  OrderInv'
<1> DEFINE q == precise_job_queue
           e == HookAt(s)
           n == Len(q)
           Pins == Launched \cup Copied
<1>t. /\ q \in Seq(CopyTask) /\ n \in Nat /\ experts \in Seq(ExpertIdx) /\ layer \in Layer
      /\ Len(experts) \in Nat /\ current \in CopyTask \cup {NoTask}
  BY DEF TypeInv, TypeOK
<1>e. e \in Expert
  BY <1>t DEF HookAt, Expert
<1>m. /\ \/ q' = q
         \/ \E start : q' = Append(q, Task(e, start, P, TRUE))
      /\ \/ Launched' \subseteq Launched
         \/ Launched' \subseteq Launched \cup {e} /\ ~behind
      /\ \/ current' = current
         \/ e = current.expert /\ ~behind /\ current'.expert = e
  BY <1>e, PreemptMoves
<1>p. Pins' \subseteq Pins \/ (~behind /\ Pins' \subseteq Pins \cup {e})
  BY <1>m DEF Copied
<1>1. \A a \in 1 .. n : q[a].expert \in Wanted
  BY DEF Wanted
<1>2. \A i \in 1 .. Len(experts) : HookAt(i) \in Pins \cup Wanted => i < s
  BY DEF PinInv
<1>3. \A i \in 1 .. Len(experts) : HookAt(i) = e => i = s
  BY PlaceUnique
<1>h. \A i : HookAt(i)' = HookAt(i) /\ Missing(HookAt(i))' = Missing(HookAt(i))
  BY DEF HookAt, Missing
<1>4. PICK t : t.expert = e /\ (q' = q \/ q' = Append(q, t))
  <2>1. \A start : Task(e, start, P, TRUE).expert = e
    BY DEF Task
  <2> QED BY <1>m, <2>1
<1>5. \A a \in 1 .. Len(q') : \/ a \in 1 .. n /\ q'[a] = q[a]
                              \/ a = n + 1 /\ q'[a].expert = e
  <2>1. CASE q' = q
    BY <2>1
  <2>2. CASE q' = Append(q, t)
    <3>1. Len(q') = n + 1 /\ q'[n + 1] = t /\ \A a \in 1 .. n : q'[a] = q[a]
      BY <1>t, <2>2
    <3> QED BY <1>t, <1>4, <3>1
  <2> QED BY <1>4, <2>1, <2>2
<1> HIDE DEF Pins, q, n, e
<1>6. ASSUME NEW a \in 1 .. Len(q'), NEW j \in 1 .. Len(experts), q'[a].expert = HookAt(j)
      PROVE  /\ \A b \in 1 .. (a - 1), i \in 1 .. Len(experts) : q'[b].expert = HookAt(i) => i < j
             /\ \A i \in (j + 1) .. Len(experts) : HookAt(i) \in Pins' => ~Missing(HookAt(j))
  <2>l. \A b \in 1 .. (a - 1) : b \in 1 .. n /\ q'[b] = q[b]
    <3> SUFFICES ASSUME NEW b \in 1 .. (a - 1) PROVE b \in 1 .. n /\ q'[b] = q[b]
      OBVIOUS
    <3>n. n \in Nat /\ Len(q') \in Nat
      BY <1>t, <1>4 DEF n
    <3>1. b \in 1 .. Len(q') /\ b # n + 1
      BY <1>5, <1>6, <3>n
    <3> QED BY <1>5, <3>1
  <2>1. CASE a \in 1 .. n /\ q'[a] = q[a]
    <3>1. q[a].expert = HookAt(j) /\ j < s
      BY <1>1, <1>2, <1>6, <2>1 DEF q, n
    <3>2. \A b \in 1 .. (a - 1), i \in 1 .. Len(experts) : q'[b].expert = HookAt(i) => i < j
      BY <2>1, <2>l, <3>1 DEF OrderInv, q, n
    <3>3. \A i \in (j + 1) .. Len(experts) : HookAt(i) \in Pins => ~Missing(HookAt(j))
      BY <2>1, <3>1 DEF OrderInv, q, n, Pins
    <3>4. ~behind => ~Missing(HookAt(j))
      <4>1. HookAt(j) \in AskedExperts
        BY <1>1, <2>1, <3>1 DEF PinInv, q, n
      <4>2. j \in 1 .. (s - 1)
        BY <1>t, <3>1
      <4> QED BY <4>1, <4>2
    <3> QED BY <1>p, <3>2, <3>3, <3>4
  <2>2. CASE a = n + 1 /\ q'[a].expert = e
    <3>1. j = s
      BY <1>3, <1>6, <2>2
    <3>2. \A b \in 1 .. (a - 1), i \in 1 .. Len(experts) : q'[b].expert = HookAt(i) => i < j
      BY <1>1, <1>2, <2>l, <3>1 DEF q, n
    <3>3. ASSUME NEW i \in (j + 1) .. Len(experts), HookAt(i) \in Pins' PROVE FALSE
      <4>1. i \in 1 .. Len(experts) /\ i > s
        BY <1>t, <3>1
      <4>2. HookAt(i) \in Pins \/ HookAt(i) = e
        BY <1>p, <3>3
      <4> QED BY <1>2, <1>3, <1>t, <4>1, <4>2
    <3> QED BY <3>2, <3>3
  <2> QED BY <1>5, <2>1, <2>2
<1> QED BY <1>6, <1>h DEF OrderInv, Pins, q

LEMMA PreemptPrecise ==
  ASSUME TypeInv, WeightsInv, PreciseInv, [Next]_vars, ~SchedFetchDone, NEW e \in Expert, NEW behind,
         NEW line, line # "none", PreemptExpert(e, behind, line)
  PROVE  PreciseInv'
<1> DEFINE q == precise_job_queue
<1>t. q \in Seq(CopyTask) /\ Len(q) \in Nat
  BY DEF TypeInv, TypeOK
<1>1. ~InFlight' => current' = NoTask
  <2> SUFFICES ASSUME ~InFlight' PROVE current' = NoTask
    OBVIOUS
  <2>1. current = NoTask
    BY FlightKept DEF PreciseInv
  <2>2. e # current.expert
    BY <2>1, ConstantsAssumption DEF NoTask
  <2> QED BY <2>1, <2>2, PreemptMoves
<1>2. \A a \in 1 .. Len(q') : q'[a].is_precise /\ q'[a].stop = P
  <2>1. CASE q' = q
    BY <2>1 DEF PreciseInv
  <2>2. ASSUME NEW t, t.is_precise /\ t.stop = P, q' = Append(q, t)
        PROVE  \A a \in 1 .. Len(q') : q'[a].is_precise /\ q'[a].stop = P
    <3>1. Len(q') = Len(q) + 1 /\ q'[Len(q) + 1] = t /\ \A a \in 1 .. Len(q) : q'[a] = q[a]
      BY <1>t, <2>2
    <3>2. \A a \in 1 .. Len(q') : a \in 1 .. Len(q) \/ a = Len(q) + 1
      BY <1>t, <3>1
    <3> QED BY <2>2, <3>1, <3>2 DEF PreciseInv
  <2>3. \A start : Task(e, start, P, TRUE).is_precise /\ Task(e, start, P, TRUE).stop = P
    BY DEF Task
  <2> QED BY <2>1, <2>2, <2>3, PreemptMoves
<1> QED BY <1>1, <1>2 DEF PreciseInv

LEMMA PreemptWhole ==
  ASSUME TypeInv, BuffersPartitioned, WeightsInv, PreciseInv, WholeInv, UNCHANGED num_ready,
         NEW e \in Expert, NEW behind, behind => ~IsInCache(e),
         NEW line, line # "none", PreemptExpert(e, behind, line)
  PROVE  WholeInv'
<1> DEFINE q == precise_job_queue
<1>t. q \in Seq(CopyTask) /\ Len(q) \in Nat
  BY DEF TypeInv, TypeOK
<1>c. current'.expert = current.expert /\ current'.stop = current.stop
  BY PreemptMoves
<1>1. CASE q' = q
  BY <1>1, <1>c DEF WholeInv
<1>2. ASSUME NEW start, q' = Append(q, Task(e, start, P, TRUE)),
             ~IsInCache(e) \/ (num_ready[e] # P /\ (e = current.expert => current.stop # P))
      PROVE  WholeInv'
  <2>1. num_ready[e] # P /\ (e = current.expert => current.stop # P)
    <3> SUFFICES ASSUME ~IsInCache(e) PROVE num_ready[e] # P /\ e # current.expert
      BY <1>2
    <3>1. gpu_data[e] = NoBuffer
      BY DEF IsInCache, BuffersPartitioned
    <3>2. num_ready[e] = 0 /\ 0 # P
      BY <3>1, ConstantsAssumption DEF WeightsInv, EvictedInv, P
    <3>3. CASE InFlight
      BY <3>1, <3>2, <3>3 DEF WeightsInv, CurrentInv
    <3>4. CASE ~InFlight
      BY <3>2, <3>4, ConstantsAssumption DEF PreciseInv, NoTask
    <3> QED BY <3>3, <3>4
  <2>2. PICK t : t.expert = e /\ q' = Append(q, t)
    BY <1>2 DEF Task
  <2>3. Len(q') = Len(q) + 1 /\ q'[Len(q) + 1] = t /\ \A a \in 1 .. Len(q) : q'[a] = q[a]
    BY <1>t, <2>2
  <2>4. \A a \in 1 .. Len(q') : a \in 1 .. Len(q) \/ a = Len(q) + 1
    BY <1>t, <2>3
  <2> QED BY <1>c, <2>1, <2>2, <2>3, <2>4 DEF WholeInv
<1>3. \/ q' = q
      \/ /\ ~IsInCache(e) \/ behind \/ (num_ready[e] # P /\ (e = current.expert => current.stop # P))
         /\ \E start : q' = Append(q, Task(e, start, P, TRUE))
  BY PreemptMoves
<1>4. CASE q' # q
  <2>1. PICK start : q' = Append(q, Task(e, start, P, TRUE))
    BY <1>3, <1>4
  <2>2. ~IsInCache(e) \/ (num_ready[e] # P /\ (e = current.expert => current.stop # P))
    BY <1>3, <1>4
  <2> HIDE DEF q
  <2> QED BY <1>2, <2>1, <2>2
<1> QED BY <1>1, <1>4

LEMMA PreemptServed ==
  ASSUME TypeInv, ServedInv, NEW e \in Expert, NEW behind, NEW line, line # "none",
         PreemptExpert(e, behind, line), aborted = "none", AskedExperts' \subseteq AskedExperts \cup {e}
  PROVE  ServedInv'
<1>1. Wanted \subseteq Wanted'
  <2> DEFINE q == precise_job_queue
  <2>1. q \in Seq(CopyTask) /\ Len(q) \in Nat
    BY DEF TypeInv, TypeOK
  <2>2. PICK t : q' = q \/ q' = Append(q, t)
    BY PreemptMoves
  <2>3. Len(q') \in Nat /\ Len(q) <= Len(q') /\ \A a \in 1 .. Len(q) : q'[a] = q[a]
    <3>1. CASE q' = q
      BY <2>1, <3>1
    <3>2. CASE q' = Append(q, t)
      BY <2>1, <3>2
    <3> QED BY <2>2, <3>1, <3>2
  <2>4. \A a \in 1 .. Len(q) : a \in 1 .. Len(q')
    BY <2>1, <2>3
  <2> QED BY <2>3, <2>4 DEF Wanted
<1>2. Finishing \subseteq Finishing'
  <2>1. current \in CopyTask \cup {NoTask}
    BY DEF TypeInv, TypeOK
  <2>2. current.is_precise => current'.is_precise
    BY <2>1, PreemptMoves DEF CopyTask, NoTask
  <2> QED BY <2>2, PreemptMoves DEF Finishing
<1>3. Launched \subseteq Launched' /\ (aborted' = "none" => e \in Launched' \cup Wanted' \cup Finishing')
  BY PreemptMoves
<1> QED BY <1>1, <1>2, <1>3 DEF ServedInv

-----------------------------------------------------------------------------
(* Steps of one thread.  Those that ask for nothing, pin nothing and move no buffer.          *)
LEMMA FramePinned ==
  ASSUME TypeInv,
         \/ SchedPreemptEnd \/ SchedPrefetchLayer \/ SchedIdleAgain \/ Fetcher \/ StreamStep
         \/ Unlock \/ Predictor \/ UNCHANGED vars
  PROVE  /\ UNCHANGED <<precise_job_queue, current, hpc, layer, experts, idx, gpu_data, num_ready>>
         /\ Launched' = Launched
         /\ ~SchedPreemptEnd => UNCHANGED <<spc, sidx>>
         /\ spc' = "preempting" => spc = "preempting"
<1>t. /\ expert_status \in [Expert -> Status] /\ uqueue \in Seq(Expert)
      /\ victim \in Expert \cup {NoExpert}
  BY DEF TypeInv, TypeOK
<1>1. UNCHANGED <<precise_job_queue, current, hpc, layer, experts, idx, gpu_data, num_ready>>
  BY DEF SchedPreemptEnd, SchedPrefetchLayer, SchedIdleAgain, Fetcher, FetchStart, FetchEnd,
     StreamStep, Unlock, Predictor, PredictStart, PredictLayer, PredictLayerDone, vars
<1>2. /\ ~SchedPreemptEnd => UNCHANGED <<spc, sidx>>
      /\ spc' = "preempting" => spc = "preempting"
  BY DEF SchedPreemptEnd, SchedPrefetchLayer, SchedIdleAgain, Fetcher, FetchStart, FetchEnd,
     StreamStep, Unlock, Predictor, PredictStart, PredictLayer, PredictLayerDone, vars
<1>3. Launched' = Launched
  <2>1. CASE FetchStart
    <3>1. victim # NoExpert => /\ expert_status[victim] = "Ready"
                               /\ expert_status' = [expert_status EXCEPT ![victim] = "Idle"]
      BY <2>1 DEF FetchStart, VictimReleased
    <3>2. victim = NoExpert => expert_status' = expert_status
      BY <2>1 DEF FetchStart
    <3> QED BY <1>t, <3>1, <3>2 DEF Launched
  <2>2. CASE Unlock
    <3>1. /\ expert_status[Head(uqueue)] = "Using"
          /\ expert_status' = [expert_status EXCEPT ![Head(uqueue)] = "Ready"]
      BY <2>2 DEF Unlock, CheckedTransfer, Transferred
    <3> QED BY <1>t, <3>1 DEF Launched
  <2>3. CASE UNCHANGED expert_status
    BY <2>3 DEF Launched
  <2> QED BY <2>1, <2>2, <2>3 DEF SchedPreemptEnd, SchedPrefetchLayer, SchedIdleAgain, Fetcher, FetchEnd,
       StreamStep, Predictor, PredictStart, PredictLayer, PredictLayerDone, vars
<1> QED BY <1>1, <1>2, <1>3

(* A preempt task leaves the queue in its handler. *)
LEMMA PreemptStays ==
  ASSUME TypeInv, [Next]_vars, ~SchedPreempt, ~SchedPreemptOne
  PROVE  /\ InQueue("Preempt") => InQueue("Preempt")'
         /\ InQueue("PreemptOne") => InQueue("PreemptOne")'
<1>1. Scheduler => ~Take("Preempt") /\ ~Take("PreemptOne")
  BY DEF Scheduler, SchedPreemptExpert, SchedPreemptEnd, SchedPrefetchLayer, SchedFetchDone,
     SchedIdle, SchedIdleAgain, Take
<1> QED BY <1>1, KeptUntilTaken

LEMMA FrameService ==
  ASSUME TypeInv, BudgetInv, WeightsInv, PlaceInv, PinInv, [Next]_vars,
         ~SchedPreempt, ~SchedPreemptOne, ~SchedFetchDone,
         \/ SchedPreemptEnd \/ SchedPrefetchLayer \/ SchedIdleAgain \/ Fetcher \/ StreamStep
         \/ Unlock \/ Predictor \/ UNCHANGED vars
  PROVE  /\ PreciseInv => PreciseInv'
         /\ OrderInv => OrderInv'
         /\ WholeInv => WholeInv'
         /\ SortedInv => SortedInv'
         /\ ServedInv => ServedInv'
<1>1. /\ UNCHANGED <<precise_job_queue, current, hpc, layer, experts, idx, gpu_data, num_ready>>
      /\ Launched' = Launched
      /\ ~SchedPreemptEnd => UNCHANGED <<spc, sidx>>
      /\ spc' = "preempting" => spc = "preempting"
  BY FramePinned
<1>2. AskedExperts' \subseteq AskedExperts
  <2>1. CASE SchedPreemptEnd
    <3>t. /\ sidx \in Nat \ {0} /\ idx \in Nat \ {0} /\ Len(experts) \in Nat
      BY DEF TypeInv, TypeOK
    <3>1. /\ spc = "preempting" /\ sidx > Len(experts) /\ spc' = "ready" /\ squeue' = squeue
          /\ EarlyPreempt
      BY <2>1 DEF SchedPreemptEnd, BudgetInv, PreemptInv
    <3>2. \A i \in idx .. Len(experts) : i < sidx
      BY <3>t, <3>1
    <3>3. Asked' \subseteq Asked
      BY <1>1, <3>1, <3>2 DEF Asked, InQueue
    <3> QED BY <1>1, <3>3 DEF AskedExperts
  <2>2. CASE ~SchedPreemptEnd
    BY <1>1, <2>2, PreemptStays, NoMoreAsked
  <2> QED BY <2>1, <2>2
<1>3. aborted' = "none" => aborted = "none"
  BY DEF Next, vars
<1>4. ServedInv => ServedInv'
  BY <1>1, <1>2, <1>3, ServedFrame
<1> QED BY <1>1, <1>4, ServiceFrame

(* The hook uses an expert: it is not launched any more, and not asked for.                   *)
LEMMA HookUsesAsked ==
  ASSUME TypeInv, BudgetInv, PlaceInv, PinInv, HookExpertDone
  PROVE  /\ AskedExperts' \subseteq AskedExperts \ {HookExpert}
         /\ Launched' = Launched \ {HookExpert} /\ HookExpert \in AskedExperts
<1>t. /\ expert_status \in [Expert -> Status] /\ experts \in Seq(ExpertIdx)
      /\ idx \in Nat \ {0} /\ idx <= Len(experts) /\ Len(experts) \in Nat /\ layer \in Layer
  BY DEF TypeInv, TypeOK, IndexInv, HookExpertDone
<1>s. /\ hpc = "wait" /\ expert_status[HookExpert] = "Launching"
      /\ expert_status' = [expert_status EXCEPT ![HookExpert] = "Using"]
      /\ idx' = idx + 1 /\ hpc' = IF idx < Len(experts) THEN "expert" ELSE "layer_done"
      /\ UNCHANGED <<layer, experts, squeue, spc, sidx>>
  BY DEF HookExpertDone
<1>h. spc # "preempting" /\ ~InQueue("Preempt") /\ ~InQueue("Preempt")'
  BY <1>s DEF BudgetInv, PreemptInv, InQueue
<1>e. HookExpert \in Launched
  <2>1. HookExpert \in Expert
    BY <1>t DEF HookExpert, Expert
  <2> QED BY <2>1, <1>s DEF Launched
<1>1. Launched' = Launched \ {HookExpert}
  BY <1>t, <1>s DEF Launched
<1>2. Asked' \subseteq Asked \ {idx}
  <2>1. CASE EarlyPreempt /\ idx < Len(experts)
    <3>1. Asked = idx .. Len(experts) /\ Asked' = (idx + 1) .. Len(experts)
      BY <1>h, <1>s, <2>1 DEF Asked
    <3> QED BY <1>t, <3>1
  <2>2. CASE ~(EarlyPreempt /\ idx < Len(experts))
    <3>1. Asked' = {}
      BY <1>s, <2>2 DEF Asked
    <3> QED BY <3>1
  <2> QED BY <2>1, <2>2
<1>3. AskedExperts' \subseteq AskedExperts \ {HookExpert}
  <2>1. \A i \in Asked : i \in 1 .. Len(experts) /\ idx \in 1 .. Len(experts)
    BY <1>t, AskedTyped
  <2>2. \A i \in Asked \ {idx} : experts[i] # experts[idx]
    BY <2>1 DEF PlaceInv, DistinctExperts
  <2> QED BY <1>2, <1>s, <2>2 DEF AskedExperts, HookExpert
<1> QED BY <1>1, <1>3, <1>e DEF PinInv

LEMMA HookLeavesFlight == Hook => ~SchedFetchDone
BY DEF Hook, HookStart, HookReportLayer, HookReportExpert, HookExpertDone, HookLayerDone, SchedFetchDone

LEMMA HookService ==
  ASSUME TypeInv, BudgetInv, WeightsInv, PlaceInv, PinInv, Next,
         HookStart \/ HookReportExpert \/ HookExpertDone
  PROVE  /\ PreciseInv => PreciseInv'
         /\ OrderInv => OrderInv'
         /\ WholeInv => WholeInv'
         /\ SortedInv => SortedInv'
         /\ ServedInv => ServedInv'
<1>1. UNCHANGED <<precise_job_queue, current, layer, experts, gpu_data, num_ready, spc, aborted>>
  BY DEF HookStart, HookReportExpert, HookExpertDone
<1>2. CASE HookExpertDone
  <2>1. /\ Launched' \subseteq Launched /\ AskedExperts' \subseteq AskedExperts
        /\ Launched \ Launched' \subseteq AskedExperts \ AskedExperts'
    BY <1>2, HookUsesAsked
  <2>2. ServedInv => ServedInv'
    BY <1>1, <2>1, ServedFrame
  <2> QED BY <1>1, <1>2, <2>1, <2>2, ServiceFrame, HookLeavesFlight DEF Hook
<1>3. CASE HookStart \/ HookReportExpert
  <2>1. Launched' = Launched
    BY <1>3 DEF HookStart, HookReportExpert, Launched
  <2>2. Asked' \subseteq Asked
    <3>1. CASE HookStart
      BY <3>1 DEF HookStart, Asked
    <3>2. CASE HookReportExpert /\ EarlyPreempt
      <4>1. hpc = "expert" /\ hpc' = "wait" /\ UNCHANGED <<idx, experts, squeue, spc, sidx>>
        BY <3>2 DEF HookReportExpert
      <4> QED BY <3>2, <4>1 DEF Asked, InQueue
    <3>3. CASE HookReportExpert /\ ~EarlyPreempt
      <4>1. squeue \in Seq(Kind) /\ "PreemptOne" \in Kind
        BY DEF TypeInv, TypeOK, Kind
      <4>2. squeue' = Append(squeue, "PreemptOne")
        BY <3>3 DEF HookReportExpert
      <4>3. InQueue("PreemptOne")'
        BY <4>1, <4>2, TokenKeptAppend
      <4> QED BY <3>3, <4>3 DEF Asked
    <3> QED BY <1>3, <3>1, <3>2, <3>3
  <2>3. AskedExperts' \subseteq AskedExperts
    BY <1>1, <2>2 DEF AskedExperts
  <2>4. ServedInv => ServedInv'
    BY <1>1, <2>1, <2>3, ServedFrame
  <2> QED BY <1>1, <1>3, <2>1, <2>4, ServiceFrame, HookLeavesFlight DEF Hook
<1> QED BY <1>2, <1>3

(* Steps that change the array: nothing is asked for, so nothing is pinned. *)
LEMMA ArrayChanges ==
  ASSUME TypeInv, BudgetInv, PlaceInv, HookReportLayer \/ HookLayerDone \/ SchedPreempt
  PROVE  /\ AskedExperts = {} /\ AskedExperts' = {}
         /\ UNCHANGED <<precise_job_queue, current>>
         /\ ~SchedPreempt => spc # "preempting" /\ spc' = spc
<1>t. squeue \in Seq(Kind) /\ "Preempt" \in Kind /\ idx \in Nat \ {0}
  BY DEF TypeInv, TypeOK, Kind
<1>u. UNCHANGED <<precise_job_queue, current>>
  BY DEF HookReportLayer, HookLayerDone, SchedPreempt
<1>1. CASE HookReportLayer
  <2>1. /\ hpc = "layer" /\ hpc' = "expert" /\ squeue' = Append(squeue, "Preempt") /\ spc' = spc
    BY <1>1 DEF HookReportLayer
  <2>2. InQueue("Preempt")'
    BY <1>t, <2>1, TokenKeptAppend
  <2>3. Asked' = {}
    BY <2>1, <2>2 DEF Asked
  <2>4. spc # "preempting"
    BY <2>1 DEF BudgetInv, PreemptInv
  <2> QED BY <1>u, <2>1, <2>3, <2>4, NothingAsked DEF AskedExperts
<1>2. CASE HookLayerDone
  <2>1. hpc = "layer_done" /\ hpc' \in {"start", "done", "layer"} /\ spc' = spc
    BY <1>2 DEF HookLayerDone
  <2>2. Asked' = {}
    BY <2>1 DEF Asked
  <2>3. spc # "preempting"
    BY <2>1 DEF BudgetInv, PreemptInv
  <2> QED BY <1>u, <2>1, <2>2, <2>3, NothingAsked DEF AskedExperts
<1>3. CASE SchedPreempt
  <2>1. InQueue("Preempt")
    BY <1>t, <1>3, TakeInQueue DEF SchedPreempt
  <2>2. hpc = "expert" /\ hpc' = "expert" /\ idx' = idx /\ (EarlyPreempt => spc' = "preempting" /\ sidx' = 1)
    BY <1>3, <2>1 DEF SchedPreempt, BudgetInv, PreemptInv
  <2>3. \A i \in idx .. Len(experts') : ~(i < 1)
    BY <1>t
  <2>4. Asked' = {}
    BY <2>2, <2>3 DEF Asked
  <2> QED BY <1>3, <1>u, <2>1, <2>2, <2>4, NothingAsked DEF AskedExperts
<1> QED BY <1>1, <1>2, <1>3

(* reorder_experts puts the missing experts last. *)
LEMMA SortedReordered ==
  ASSUME TypeInv, BuffersPartitioned, WeightsInv, PreciseInv, NEW r, Reordering(r)
  PROVE  \A i, j \in 1 .. Len(r) :
           i < j /\ Missing(<<layer, r[i]>>) => Missing(<<layer, r[j]>>)
<1> DEFINE n == Len(experts)
           class(i) == ReorderClass(<<layer, experts[i]>>)
<1>t. experts \in Seq(ExpertIdx) /\ layer \in Layer
  BY DEF TypeInv, TypeOK
<1>1. PICK p \in [1 .. n -> 1 .. n] :
        /\ \A i, j \in 1 .. n : i < j =>
             \/ class(p[i]) < class(p[j])
             \/ class(p[i]) = class(p[j]) /\ p[i] < p[j]
        /\ r = [i \in 1 .. n |-> experts[p[i]]]
  BY DEF Reordering
<1>n. n \in Nat
  BY <1>t
<1>2. Len(r) = n
  BY <1>1, <1>n
<1>3. \A e \in Expert : Missing(e) <=> ReorderClass(e) = 4
  <2> SUFFICES ASSUME NEW e \in Expert PROVE Missing(e) <=> ReorderClass(e) = 4
    OBVIOUS
  <2>1. Missing(e) <=> ~IsInCache(e)
    BY DEF Missing, IsInCache, BuffersPartitioned
  <2>2. Missing(e) => e # current.expert
    <3>1. CASE InFlight
      BY <3>1 DEF WeightsInv, CurrentInv, Missing
    <3>2. CASE ~InFlight
      BY <3>2, ConstantsAssumption DEF PreciseInv, NoTask
    <3> QED BY <3>1, <3>2
  <2> QED BY <2>1, <2>2 DEF ReorderClass
<1>c. \A i : class(i) \in Nat /\ class(i) <= 4
  BY DEF ReorderClass
<1>4. \A i \in 1 .. n : p[i] \in 1 .. n /\ (Missing(<<layer, r[i]>>) <=> class(p[i]) = 4)
  <2> SUFFICES ASSUME NEW i \in 1 .. n
               PROVE  p[i] \in 1 .. n /\ (Missing(<<layer, r[i]>>) <=> class(p[i]) = 4)
    OBVIOUS
  <2>1. p[i] \in 1 .. n /\ r[i] = experts[p[i]]
    BY <1>1
  <2>2. <<layer, experts[p[i]]>> \in Expert
    BY <1>t, <2>1 DEF Expert
  <2> QED BY <1>3, <2>1, <2>2
<1> HIDE DEF class
<1>5. ASSUME NEW i \in 1 .. n, NEW j \in 1 .. n, i < j, Missing(<<layer, r[i]>>)
      PROVE  Missing(<<layer, r[j]>>)
  <2>1. class(p[i]) = 4
    BY <1>4, <1>5
  <2>2. class(p[i]) < class(p[j]) \/ class(p[i]) = class(p[j])
    BY <1>1, <1>5
  <2>3. class(p[j]) \in Nat /\ class(p[j]) <= 4
    BY <1>c
  <2>4. class(p[j]) = 4
    BY <2>1, <2>2, <2>3
  <2> QED BY <1>4, <2>4
<1> QED BY <1>2, <1>5

LEMMA ArrayService ==
  ASSUME TypeInv, BuffersPartitioned, BudgetInv, WeightsInv, PlaceInv, PinInv, Next,
         HookReportLayer \/ HookLayerDone \/ SchedPreempt
  PROVE  /\ PreciseInv => PreciseInv'
         /\ OrderInv => OrderInv'
         /\ WholeInv => WholeInv'
         /\ PreciseInv /\ SortedInv /\ ReorderedOrLate => SortedInv'
         /\ ServedInv => ServedInv'
<1>1. /\ AskedExperts = {} /\ AskedExperts' = {}
      /\ UNCHANGED <<precise_job_queue, current>>
      /\ ~SchedPreempt => spc # "preempting" /\ spc' = spc
  BY ArrayChanges
<1>2. precise_job_queue = << >>
  <2>1. precise_job_queue \in Seq(CopyTask)
    BY DEF TypeInv, TypeOK
  <2> QED BY <1>1, <2>1, NothingPinned
<1>3. precise_job_queue' = << >>
  BY <1>1, <1>2
<1>4. \A a \in 1 .. Len(precise_job_queue') : FALSE
  BY <1>3
<1>5. ~SchedFetchDone
  BY HookLeavesFlight DEF Hook, SchedPreempt, SchedFetchDone, Take
<1>6. PreciseInv => PreciseInv'
  BY <1>1, <1>4, <1>5, FlightKept DEF PreciseInv
<1>7. OrderInv' /\ WholeInv'
  BY <1>4 DEF OrderInv, WholeInv
<1>8. ServedInv'
  BY <1>1 DEF ServedInv
<1>9. PreciseInv /\ SortedInv /\ ReorderedOrLate => SortedInv'
  <2> SUFFICES ASSUME PreciseInv, ReorderedOrLate, spc' = "preempting" PROVE SortedInv'
    BY DEF SortedInv
  <2>1. SchedPreempt
    BY <1>1
  <2>2. EarlyPreempt
    <3>1. spc = "ready"
      BY <2>1 DEF SchedPreempt, Take
    <3> QED BY <2>1, <3>1 DEF SchedPreempt
  <2>3. Reordering(experts') /\ UNCHANGED <<layer, gpu_data>>
    BY <2>1, <2>2 DEF SchedPreempt, ReorderedOrLate
  <2>4. \A i, j \in 1 .. Len(experts') :
          i < j /\ Missing(<<layer, experts'[i]>>) => Missing(<<layer, experts'[j]>>)
    BY <2>3, SortedReordered
  <2> QED BY <2>3, <2>4 DEF SortedInv, HookAt, Missing
<1> QED BY <1>6, <1>7, <1>8, <1>9

(* One round of the loop: the experts before it are asked for, and now it is too.             *)
LEMMA SchedPreemptExpertService ==
  ASSUME TypeInv, BuffersPartitioned, BudgetInv, WeightsInv, PlaceInv, PinInv, Next,
         SchedPreemptExpert
  PROVE  /\ PreciseInv => PreciseInv'
         /\ OrderInv => OrderInv'
         /\ PreciseInv /\ WholeInv /\ SortedInv => WholeInv'
         /\ SortedInv => SortedInv'
         /\ ServedInv => ServedInv'
<1> DEFINE e == HookAt(sidx)
<1>t. /\ experts \in Seq(ExpertIdx) /\ sidx \in Nat \ {0} /\ layer \in Layer /\ idx \in Nat \ {0}
      /\ Len(experts) \in Nat
  BY DEF TypeInv, TypeOK
<1>s. /\ spc = "preempting" /\ sidx <= Len(experts) /\ sidx' = sidx + 1
      /\ PreemptExpert(e, BehindMiss(sidx), "prefetcher.cpp:105")
      /\ UNCHANGED <<hpc, layer, experts, idx, squeue, spc, gpu_data, num_ready>>
  BY DEF SchedPreemptExpert, HookAt
<1>h. EarlyPreempt /\ ~InQueue("Preempt") /\ ~InQueue("Preempt")' /\ hpc = "expert" /\ idx = 1
  BY <1>s DEF BudgetInv, PreemptInv, PlaceInv, InQueue
<1>p. sidx \in 1 .. Len(experts)
  BY <1>t, <1>s
<1>e. e \in Expert
  BY <1>t, <1>p DEF HookAt, Expert
<1>f. ~SchedFetchDone
  BY <1>s DEF SchedFetchDone, Take
<1>1. Asked = {i \in 1 .. Len(experts) : i < sidx} /\ Asked' = {i \in 1 .. Len(experts) : i < sidx + 1}
  BY <1>h, <1>s DEF Asked
<1>2. Asked' = Asked \cup {sidx}
  BY <1>t, <1>p, <1>1
<1>3. AskedExperts' \subseteq AskedExperts \cup {e}
  BY <1>s, <1>2 DEF AskedExperts, HookAt
<1>4. \A i \in 1 .. Len(experts) : HookAt(i) \in AskedExperts => i < sidx
  <2> SUFFICES ASSUME NEW i \in 1 .. Len(experts), HookAt(i) \in AskedExperts PROVE i < sidx
    OBVIOUS
  <2>1. PICK j \in 1 .. Len(experts) : j < sidx /\ HookAt(i) = HookAt(j)
    BY <1>1 DEF AskedExperts, HookAt
  <2> QED BY <2>1, PlaceUnique
<1>5. BehindMiss(sidx) <=> \E j \in 1 .. (sidx - 1) : Missing(HookAt(j))
  BY DEF BehindMiss, IsInCache, Missing, HookAt, BuffersPartitioned
<1>6. SortedInv /\ BehindMiss(sidx) => ~IsInCache(e)
  <2> SUFFICES ASSUME SortedInv, BehindMiss(sidx) PROVE ~IsInCache(e)
    OBVIOUS
  <2>1. PICK j \in 1 .. (sidx - 1) : Missing(HookAt(j))
    BY <1>5
  <2>2. j \in 1 .. Len(experts) /\ j < sidx
    BY <1>p, <1>t
  <2>3. Missing(e)
    BY <1>s, <1>p, <2>1, <2>2 DEF SortedInv
  <2> QED BY <2>3 DEF Missing, IsInCache, BuffersPartitioned
<1> HIDE DEF e
<1>7. PreciseInv => PreciseInv'
  BY <1>e, <1>f, <1>s, PreemptPrecise
<1>8. OrderInv => OrderInv'
  BY <1>p, <1>s, <1>4, <1>5, PreemptOrder DEF e
<1>9. PreciseInv /\ WholeInv /\ SortedInv => WholeInv'
  BY <1>e, <1>s, <1>6, PreemptWhole
<1>10. SortedInv => SortedInv'
  BY <1>s DEF SortedInv, HookAt, Missing
<1>11. ServedInv => ServedInv'
  BY <1>e, <1>s, <1>3, PreemptServed DEF Next
<1> QED BY <1>7, <1>8, <1>9, <1>10, <1>11

LEMMA SchedPreemptOneService ==
  ASSUME TypeInv, BuffersPartitioned, BudgetInv, WeightsInv, PlaceInv, PinInv, Next,
         SchedPreemptOne
  PROVE  /\ PreciseInv => PreciseInv'
         /\ OrderInv => OrderInv'
         /\ PreciseInv /\ WholeInv => WholeInv'
         /\ SortedInv => SortedInv'
         /\ ServedInv => ServedInv'
<1>t. squeue \in Seq(Kind) /\ experts \in Seq(ExpertIdx) /\ layer \in Layer /\ idx \in Nat \ {0}
  BY DEF TypeInv, TypeOK, Kind
<1>s. /\ Take("PreemptOne")
      /\ PreemptExpert(HookExpert, FALSE, "prefetcher.cpp:55")
      /\ UNCHANGED <<hpc, layer, experts, idx, spc, gpu_data, num_ready>>
  BY DEF SchedPreemptOne
<1>1. InQueue("PreemptOne")
  BY <1>t, <1>s, TakeInQueue
<1>2. hpc = "wait" /\ ~EarlyPreempt
  BY <1>1 DEF TypeInv, IndexInv, PlaceInv
<1>3. AskedExperts = {}
  BY <1>1, <1>2, NothingAsked
<1>4. AskedExperts' \subseteq AskedExperts \cup {HookExpert}
  BY <1>2, <1>s DEF AskedExperts, Asked, HookExpert
<1>p. idx \in 1 .. Len(experts)
  BY <1>2, <1>t DEF TypeInv, IndexInv
<1>e. HookExpert \in Expert /\ HookExpert = HookAt(idx)
  BY <1>p, <1>t DEF HookExpert, HookAt, Expert
<1>f. ~SchedFetchDone
  BY <1>s DEF SchedFetchDone, Take
<1>7. PreciseInv => PreciseInv'
  BY <1>e, <1>f, <1>s, PreemptPrecise
<1>8. OrderInv => OrderInv'
  BY <1>p, <1>e, <1>s, <1>3, PreemptOrder
<1>9. PreciseInv /\ WholeInv => WholeInv'
  BY <1>e, <1>s, PreemptWhole
<1>10. SortedInv => SortedInv'
  BY <1>s DEF SortedInv, HookAt, Missing
<1>11. ServedInv => ServedInv'
  BY <1>e, <1>s, <1>4, PreemptServed DEF Next
<1> QED BY <1>7, <1>8, <1>9, <1>10, <1>11

(* FetchDoneTask: the copy in flight launches its expert, or its chunks are counted. *)
LEMMA FetchDoneService ==
  ASSUME TypeInv, BudgetInv, WeightsInv, PlaceInv, PinInv, Next, SchedFetchDone
  PROVE  /\ PreciseInv => PreciseInv'
         /\ OrderInv => OrderInv'
         /\ WholeInv => WholeInv'
         /\ SortedInv => SortedInv'
         /\ ServedInv => ServedInv'
<1> DEFINE e == current.expert
<1>t. /\ squeue \in Seq(Kind) /\ expert_status \in [Expert -> Status]
      /\ num_ready \in [Expert -> 0 .. P]
  BY DEF TypeInv, TypeOK, Kind
<1>1. InQueue("FetchDone")
  BY <1>t, TakeInQueue DEF SchedFetchDone
<1>2. e \in Expert /\ expert_status[e] = "Fetching" /\ current \in CopyTask
  BY <1>1 DEF WeightsInv, CurrentInv, InFlight, CopyTask
<1>s. /\ current' = NoTask /\ num_ready' = [num_ready EXCEPT ![e] = current.stop]
      /\ expert_status' = IF current.stop = P THEN [expert_status EXCEPT ![e] = FetchedStatus]
                           ELSE expert_status
      /\ UNCHANGED <<precise_job_queue, hpc, layer, experts, idx, spc, sidx, gpu_data>>
  BY <1>2 DEF SchedFetchDone, CheckedTransfer, Transferred
<1>3. Launched' = Launched \cup Finishing
  <2>1. CASE current.stop = P
    BY <1>t, <1>2, <1>s, <2>1 DEF Launched, Finishing, FetchedStatus
  <2>2. CASE current.stop # P
    BY <1>t, <1>2, <1>s, <2>2 DEF Launched, Finishing
  <2> QED BY <2>1, <2>2
<1>n. NoTask.is_precise = FALSE /\ NoTask.expert \notin Expert
  BY ConstantsAssumption DEF NoTask
<1>4. PreciseInv => PreciseInv'
  BY <1>s DEF PreciseInv
<1>5. OrderInv => OrderInv'
  <2>1. (Launched \cup Copied)' \subseteq Launched \cup Copied
    BY <1>3, <1>s, <1>n DEF Copied, Finishing
  <2>2. UNCHANGED <<precise_job_queue, layer, experts, gpu_data>>
    BY <1>s
  <2> QED BY <2>1, <2>2 DEF OrderInv, HookAt, Missing
<1>6. WholeInv => WholeInv'
  <2> SUFFICES ASSUME WholeInv, NEW a \in 1 .. Len(precise_job_queue)
               PROVE  /\ num_ready'[precise_job_queue[a].expert] # P
                      /\ precise_job_queue[a].expert # NoTask.expert
    BY <1>s DEF WholeInv
  <2>1. precise_job_queue[a].expert \in Expert
    <3>1. precise_job_queue \in Seq(CopyTask)
      BY DEF TypeInv, TypeOK
    <3>2. precise_job_queue[a] \in CopyTask
      BY <3>1
    <3> QED BY <3>2 DEF CopyTask
  <2>2. /\ num_ready[precise_job_queue[a].expert] # P
        /\ precise_job_queue[a].expert = current.expert => current.stop # P
    BY DEF WholeInv
  <2> QED BY <1>t, <1>n, <1>s, <2>1, <2>2
<1>7. SortedInv => SortedInv'
  BY <1>s DEF SortedInv, HookAt, Missing
<1>8. ServedInv => ServedInv'
  <2>1. AskedExperts' \subseteq AskedExperts
    <3>1. ~SchedPreempt /\ ~SchedPreemptOne
      BY DEF SchedFetchDone, SchedPreempt, SchedPreemptOne, Take
    <3> QED BY <1>s, <3>1, PreemptStays, NoMoreAsked
  <2>2. Wanted' = Wanted
    BY <1>s DEF Wanted
  <2> QED BY <1>3, <2>1, <2>2 DEF ServedInv, Next
<1> QED BY <1>4, <1>5, <1>6, <1>7, <1>8

(* send_one_job of a job that has just been popped. *)
LEMMA SentJobMoves ==
  ASSUME TypeInv, BuffersPartitioned, WeightsInv, PreciseInv, Take("Idle"), NEW t \in CopyTask,
         SendOneJob(t)
  PROVE  /\ Launched \subseteq Launched'
         /\ Launched' \subseteq Launched \cup (IF t.is_precise THEN {t.expert} ELSE {})
         /\ \A f \in Expert : num_ready'[f] \in {num_ready[f], 0}
         /\ gpu_data' = gpu_data \/ Missing(t.expert)
         /\ \/ current' = current /\ aborted' # "none"
            \/ /\ current'.expert = t.expert /\ current'.is_precise = t.is_precise
               /\ current'.stop = t.stop /\ fpc' = "wait"
            \/ current' = NoTask /\ num_ready[t.expert] >= t.stop
<1> DEFINE e == t.expert
<1>t. /\ expert_status \in [Expert -> Status] /\ num_ready \in [Expert -> 0 .. P] /\ e \in Expert
  BY DEF TypeInv, TypeOK, CopyTask
<1>1. CASE SendMissed(t)
  <2>1. Missing(e) /\ expert_status[e] = "Idle"
    BY <1>1, <1>t, IdleQuiet DEF SendMissed, Missing
  <2>2. CASE t.start # 0 \/ num_ready[e] # 0
    <3>1. UNCHANGED <<current, num_ready, expert_status, gpu_data>> /\ aborted' # "none"
      BY <1>1, <2>2 DEF SendMissed
    <3>2. Launched' = Launched
      BY <3>1 DEF Launched
    <3> QED BY <3>1, <3>2
  <2>3. CASE TakeUnused(e) /\ Fetch(t, NoExpert)
    <3>1. /\ num_ready' = num_ready /\ current' = t /\ fpc' = "wait"
          /\ expert_status' = [expert_status EXCEPT ![e] = "Fetching"]
      BY <2>1, <2>3 DEF TakeUnused, CheckedTransfer, Transferred, Fetch
    <3>2. Launched' = Launched
      BY <1>t, <2>1, <3>1 DEF Launched
    <3> QED BY <2>1, <3>1, <3>2
  <2>4. ASSUME NEW v \in InSlot(e), Evict(e, v), NEW w, Fetch(t, w)
        PROVE  /\ Launched' = Launched /\ current' = t /\ fpc' = "wait"
               /\ \A f \in Expert : num_ready'[f] \in {num_ready[f], 0}
    <3>1. /\ num_ready' = [num_ready EXCEPT ![v] = 0] /\ v \in Expert
          /\ expert_status' = [expert_status EXCEPT ![v] = IF Pinned(v) THEN @ ELSE "Idle",
                                                    ![e] = "Fetching"]
      BY <2>4 DEF Evict, WithoutChunks, InSlot
    <3>2. Launched' = Launched
      BY <1>t, <2>1, <3>1 DEF Launched, Pinned
    <3>3. \A f \in Expert : num_ready'[f] \in {num_ready[f], 0}
      BY <1>t, <3>1
    <3> QED BY <2>4, <3>2, <3>3 DEF Fetch
  <2> QED BY <1>1, <2>1, <2>2, <2>3, <2>4 DEF SendMissed
<1>2. CASE SendDuplicate(t)
  <2>1. UNCHANGED <<gpu_data, num_ready>> /\ current' = NoTask /\ num_ready[e] >= t.stop
    BY <1>2 DEF SendDuplicate
  <2>2. CASE t.is_precise
    <3>1. Launched \subseteq Launched' /\ Launched' \subseteq Launched \cup {e}
      BY <1>2, <1>t, <2>2 DEF SendDuplicate, Transferred, Launched
    <3> QED BY <2>1, <2>2, <3>1
  <2>3. CASE ~t.is_precise
    <3>1. Launched' = Launched
      BY <1>2, <2>3 DEF SendDuplicate, Launched
    <3> QED BY <2>1, <2>3, <3>1
  <2> QED BY <2>2, <2>3
<1>3. CASE SendRest(t)
  <2>1. /\ current' = [t EXCEPT !.start = num_ready[e]] /\ fpc' = "wait"
        /\ UNCHANGED <<gpu_data, num_ready, expert_status>>
    BY <1>3 DEF SendRest, Fetch
  <2>2. current'.expert = e /\ current'.is_precise = t.is_precise /\ current'.stop = t.stop
    BY <2>1 DEF CopyTask
  <2>3. Launched' = Launched
    BY <2>1 DEF Launched
  <2> QED BY <2>1, <2>2, <2>3
<1> QED BY <1>1, <1>2, <1>3 DEF SendOneJob

LEMMA IdleAsks ==
  ASSUME TypeInv, Next, SchedIdle
  PROVE  /\ AskedExperts' \subseteq AskedExperts
         /\ UNCHANGED <<hpc, layer, experts, idx, spc, sidx>> /\ spc # "preempting"
<1>1. /\ UNCHANGED <<hpc, layer, experts, idx, spc, sidx>> /\ spc # "preempting"
      /\ ~SchedPreempt /\ ~SchedPreemptOne
  BY DEF SchedIdle, SchedPreempt, SchedPreemptOne, Take
<1> QED BY <1>1, PreemptStays, NoMoreAsked

(* The queue behind the precise job that is popped. *)
LEMMA PopQueue ==
  ASSUME TypeInv, PinInv, PopPrecise
  PROVE  LET q == precise_job_queue
             t == Head(q)
         IN /\ Len(q) \in Nat \ {0} /\ 1 \in 1 .. Len(q) /\ t = q[1] /\ t \in CopyTask
            /\ Len(q') = Len(q) - 1
            /\ \A a \in 1 .. Len(q') : q'[a] = q[a + 1] /\ a + 1 \in 1 .. Len(q) /\ q'[a].expert # t.expert
            /\ Wanted \subseteq Wanted' \cup {t.expert}
            /\ t.expert \in Wanted /\ t.expert \in Expert
<1> DEFINE q == precise_job_queue
           t == Head(q)
<1>t. q \in Seq(CopyTask)
  BY DEF TypeInv, TypeOK
<1>1. q # << >> /\ q' = Tail(q)
  BY DEF PopPrecise
<1>2. /\ Len(q) \in Nat \ {0} /\ Len(q') = Len(q) - 1
      /\ \A i \in 1 .. Len(q') : q'[i] = q[i + 1]
      /\ t = q[1] /\ t \in CopyTask
  BY <1>t, <1>1, HeadTail
<1>3. 1 \in 1 .. Len(q) /\ \A i \in 1 .. Len(q') : i + 1 \in 1 .. Len(q) /\ i + 1 # 1
  BY <1>2
<1> HIDE DEF t
<1>4. \A a \in 1 .. Len(q') : q'[a].expert # t.expert
  BY <1>2, <1>3 DEF PinInv, WantedOnce
<1>5. Wanted \subseteq Wanted' \cup {t.expert}
  <2> SUFFICES ASSUME NEW a \in 1 .. Len(q), a # 1 PROVE q[a].expert \in Wanted'
    BY <1>2 DEF Wanted
  <2>1. a - 1 \in 1 .. Len(q') /\ q'[a - 1] = q[a]
    BY <1>2
  <2> QED BY <2>1 DEF Wanted
<1>6. t.expert \in Wanted /\ t.expert \in Expert
  BY <1>2, <1>3 DEF Wanted, CopyTask
<1> QED BY <1>2, <1>3, <1>4, <1>5, <1>6 DEF t

LEMMA PopPreciseService ==
  ASSUME TypeInv, BuffersPartitioned, WeightsInv, PlaceInv, PinInv, PreciseInv, Next, SchedIdle,
         PopPrecise
  PROVE  /\ PreciseInv'
         /\ OrderInv => OrderInv'
         /\ WholeInv => WholeInv'
         /\ WholeInv /\ ServedInv => ServedInv'
<1> DEFINE q == precise_job_queue
           t == Head(q)
<1>q. /\ Len(q) \in Nat \ {0} /\ 1 \in 1 .. Len(q) /\ t = q[1] /\ t \in CopyTask
      /\ Len(q') = Len(q) - 1
      /\ \A a \in 1 .. Len(q') : q'[a] = q[a + 1] /\ a + 1 \in 1 .. Len(q) /\ q'[a].expert # t.expert
      /\ Wanted \subseteq Wanted' \cup {t.expert}
      /\ t.expert \in Wanted /\ t.expert \in Expert
  BY PopQueue
<1>s. Take("Idle") /\ SendOneJob(t)
  BY DEF SchedIdle, PopPrecise
<1>c. ~InFlight /\ current = NoTask /\ NoTask.expert \notin Expert /\ ~NoTask.is_precise
  BY <1>s, IdleQuiet, ConstantsAssumption DEF PreciseInv, NoTask
<1>m. /\ Launched \subseteq Launched' /\ Launched' \subseteq Launched \cup {t.expert}
      /\ \A f \in Expert : num_ready'[f] \in {num_ready[f], 0}
      /\ gpu_data' = gpu_data \/ Missing(t.expert)
      /\ \/ current' = NoTask /\ (aborted' # "none" \/ num_ready[t.expert] >= t.stop)
         \/ /\ current'.expert = t.expert /\ current'.is_precise = t.is_precise
            /\ current'.stop = t.stop /\ fpc' = "wait"
  BY <1>q, <1>s, <1>c, SentJobMoves
<1>p. t.is_precise /\ t.stop = P
  BY <1>q DEF PreciseInv
<1>a. UNCHANGED <<layer, experts>>
  BY IdleAsks
<1>x. \A a \in 1 .. Len(q') : q'[a].expert \in Expert
  <2>1. q \in Seq(CopyTask)
    BY DEF TypeInv, TypeOK
  <2>2. \A a \in 1 .. Len(q) : q[a] \in CopyTask
    BY <2>1
  <2>3. \A a \in 1 .. Len(q) : q[a].expert \in Expert
    BY <2>2 DEF CopyTask
  <2> QED BY <1>q, <2>3
<1> HIDE DEF t
<1>1. PreciseInv'
  <2>1. ~InFlight' => current' = NoTask
    BY <1>m DEF InFlight
  <2>2. \A a \in 1 .. Len(q') : q'[a].is_precise /\ q'[a].stop = P
    BY <1>q DEF PreciseInv
  <2> QED BY <2>1, <2>2 DEF PreciseInv
<1>2. ASSUME OrderInv PROVE OrderInv'
  <2> SUFFICES ASSUME NEW a \in 1 .. Len(q'), NEW j \in 1 .. Len(experts), q'[a].expert = HookAt(j)
               PROVE  /\ \A b \in 1 .. (a - 1), i \in 1 .. Len(experts) :
                           q'[b].expert = HookAt(i) => i < j
                      /\ \A i \in (j + 1) .. Len(experts) :
                           HookAt(i) \in (Launched \cup Copied)' => gpu_data'[HookAt(j)] # NoBuffer
    BY <1>a DEF OrderInv, HookAt, Missing
  <2>1. a + 1 \in 1 .. Len(q) /\ q[a + 1].expert = HookAt(j)
    BY <1>q
  <2>2. \A b \in 1 .. a, i \in 1 .. Len(experts) : q[b].expert = HookAt(i) => i < j
    <3>1. \A b \in 1 .. a : b \in 1 .. ((a + 1) - 1)
      BY <1>q
    <3> QED BY <2>1, <3>1, <1>2 DEF OrderInv
  <2>3. \A b \in 1 .. (a - 1), i \in 1 .. Len(experts) : q'[b].expert = HookAt(i) => i < j
    <3> SUFFICES ASSUME NEW b \in 1 .. (a - 1), NEW i \in 1 .. Len(experts), q'[b].expert = HookAt(i)
                 PROVE  i < j
      OBVIOUS
    <3>1. b \in 1 .. Len(q') /\ b + 1 \in 1 .. a
      BY <1>q
    <3>2. q'[b] = q[b + 1]
      BY <1>q, <3>1
    <3> QED BY <2>2, <3>1, <3>2
  <2>4. ASSUME NEW i \in (j + 1) .. Len(experts), HookAt(i) \in (Launched \cup Copied)'
        PROVE  gpu_data'[HookAt(j)] # NoBuffer
    <3>n. Len(experts) \in Nat /\ i \in 1 .. Len(experts) /\ 1 \in 1 .. a /\ ~(i < j)
      BY <1>q DEF TypeInv, TypeOK
    <3>1. HookAt(i) \in Launched \cup {t.expert}
      BY <1>m, <1>c, <2>4 DEF Copied
    <3>2. HookAt(i) # t.expert
      BY <1>q, <2>2, <3>n
    <3>3. HookAt(i) \in Launched
      BY <3>1, <3>2
    <3>4. ~Missing(HookAt(j))
      BY <1>2, <2>1, <3>3 DEF OrderInv
    <3>5. CASE Missing(t.expert)
      <4>1. PICK k \in 1 .. Len(experts) : t.expert = HookAt(k)
        <5>1. t.expert \in AskedExperts
          BY <1>q DEF PinInv
        <5> QED BY <5>1, AskedTyped DEF AskedExperts, HookAt
      <4>2. k < j
        BY <1>q, <2>2, <3>n, <4>1
      <4>3. i \in (k + 1) .. Len(experts)
        BY <3>n, <4>2
      <4>4. ~Missing(HookAt(k))
        BY <1>2, <1>q, <3>3, <4>1, <4>3 DEF OrderInv
      <4> QED BY <3>5, <4>1, <4>4
    <3> QED BY <1>m, <3>4, <3>5 DEF Missing
  <2> QED BY <2>3, <2>4
<1>3. ASSUME WholeInv PROVE WholeInv'
  <2> SUFFICES ASSUME NEW a \in 1 .. Len(q')
               PROVE  num_ready'[q'[a].expert] # P /\ q'[a].expert # current'.expert
    BY DEF WholeInv
  <2>1. num_ready[q'[a].expert] # P /\ 0 # P
    BY <1>3, <1>q, ConstantsAssumption DEF WholeInv, P
  <2>2. num_ready'[q'[a].expert] \in {num_ready[q'[a].expert], 0}
    BY <1>m, <1>x
  <2> QED BY <1>c, <1>m, <1>q, <1>x, <2>1, <2>2
<1>4. ASSUME WholeInv, ServedInv, aborted' = "none"
      PROVE  AskedExperts' \subseteq (Launched \cup Wanted \cup Finishing)'
  <2>1. num_ready[t.expert] # P /\ num_ready[t.expert] \in 0 .. P /\ P \in Nat
    BY <1>4, <1>q, ConstantsAssumption DEF WholeInv, TypeInv, TypeOK, P
  <2>2. ~(num_ready[t.expert] >= t.stop)
    BY <1>p, <2>1
  <2>3. t.expert \in Finishing'
    BY <1>4, <1>m, <1>p, <2>2 DEF Finishing
  <2>4. Finishing = {}
    BY <1>c DEF Finishing
  <2>5. AskedExperts \subseteq Launched \cup Wanted
    BY <1>4, <2>4 DEF ServedInv, Next
  <2> QED BY <1>m, <1>q, <2>3, <2>5, IdleAsks
<1> QED BY <1>1, <1>2, <1>3, <1>4 DEF ServedInv

LEMMA PopLayerService ==
  ASSUME TypeInv, BuffersPartitioned, WeightsInv, PinInv, PreciseInv, Next, SchedIdle,
         NEW l \in Layer, PopLayer(l)
  PROVE  PreciseInv' /\ OrderInv' /\ WholeInv' /\ (ServedInv => ServedInv')
<1> DEFINE t == Head(per_layer_job_queues[l])
<1>t. t \in CopyTask
  <2>1. per_layer_job_queues[l] \in Seq(CopyTask) /\ per_layer_job_queues[l] # << >>
    BY DEF TypeInv, TypeOK, PopLayer
  <2> QED BY <2>1, HeadTail
<1>s. Take("Idle") /\ SendOneJob(t) /\ precise_job_queue = << >> /\ precise_job_queue' = << >>
  BY DEF SchedIdle, PopLayer
<1>c. current = NoTask /\ ~NoTask.is_precise
  BY <1>s, IdleQuiet DEF PreciseInv, NoTask
<1> HIDE DEF t
<1>m. Launched \subseteq Launched' /\ (fpc' = "wait" \/ current' = NoTask)
  BY <1>t, <1>s, <1>c, SentJobMoves
<1>1. \A a \in 1 .. Len(precise_job_queue) : FALSE
  BY <1>s
<1>2. \A a \in 1 .. Len(precise_job_queue') : FALSE
  BY <1>s
<1>3. PreciseInv' /\ OrderInv' /\ WholeInv'
  BY <1>m, <1>2 DEF PreciseInv, OrderInv, WholeInv, InFlight
<1>4. ServedInv => ServedInv'
  <2>1. Wanted = {} /\ Finishing = {}
    BY <1>1, <1>c DEF Wanted, Finishing
  <2> QED BY <1>m, <2>1, IdleAsks DEF ServedInv, Next
<1> QED BY <1>3, <1>4

LEMMA IdleService ==
  ASSUME TypeInv, BuffersPartitioned, WeightsInv, PlaceInv, PinInv, PreciseInv, Next, SchedIdle
  PROVE  /\ PreciseInv'
         /\ OrderInv => OrderInv'
         /\ WholeInv => WholeInv'
         /\ SortedInv'
         /\ WholeInv /\ ServedInv => ServedInv'
<1>1. SortedInv'
  BY IdleAsks DEF SortedInv
<1> QED BY <1>1, PopPreciseService, PopLayerService DEF SchedIdle

-----------------------------------------------------------------------------
(* All steps.  The order of the queue does not depend on the options.                         *)
LEMMA NextService ==
  ASSUME TypeInv, BuffersPartitioned, BudgetInv, WeightsInv, PlaceInv, PinInv, PreciseInv,
         OrderInv, [Next]_vars
  PROVE  /\ PreciseInv' /\ OrderInv'
         /\ ReorderedOrLate /\ WholeInv /\ SortedInv /\ ServedInv =>
              WholeInv' /\ SortedInv' /\ ServedInv'
<1>1. CASE Next /\ (HookStart \/ HookReportExpert \/ HookExpertDone)
  BY <1>1, HookService
<1>2. CASE Next /\ (HookReportLayer \/ HookLayerDone \/ SchedPreempt)
  BY <1>2, ArrayService
<1>3. CASE Next /\ SchedPreemptExpert
  BY <1>3, SchedPreemptExpertService
<1>4. CASE Next /\ SchedPreemptOne
  BY <1>4, SchedPreemptOneService
<1>5. CASE Next /\ SchedFetchDone
  BY <1>5, FetchDoneService
<1>6. CASE Next /\ SchedIdle
  BY <1>6, IdleService
<1>7. CASE /\ ~SchedPreempt /\ ~SchedPreemptOne /\ ~SchedFetchDone
           /\ \/ SchedPreemptEnd \/ SchedPrefetchLayer \/ SchedIdleAgain \/ Fetcher \/ StreamStep
              \/ Unlock \/ Predictor \/ UNCHANGED vars
  BY <1>7, FrameService
<1>8. CASE UNCHANGED vars
  <2>1. /\ UNCHANGED <<hpc, layer, experts, idx, squeue, spc, sidx, current, precise_job_queue>>
        /\ UNCHANGED <<gpu_data, num_ready, expert_status, fpc, aborted>>
    BY <1>8 DEF vars
  <2>2. Asked' = Asked /\ Launched' = Launched
    BY <2>1 DEF Asked, Launched, InQueue
  <2>3. AskedExperts' = AskedExperts
    BY <2>1, <2>2 DEF AskedExperts
  <2>4. PreciseInv' /\ OrderInv'
    BY <2>1, <2>2 DEF PreciseInv, OrderInv, InFlight, InQueue, HookAt, Missing, Copied
  <2>5. WholeInv => WholeInv'
    BY <2>1 DEF WholeInv
  <2>6. SortedInv => SortedInv'
    BY <2>1 DEF SortedInv, HookAt, Missing
  <2>7. ServedInv => ServedInv'
    BY <2>1, <2>2, <2>3 DEF ServedInv, Wanted, Finishing
  <2> QED BY <2>4, <2>5, <2>6, <2>7
<1> QED BY <1>1, <1>2, <1>3, <1>4, <1>5, <1>6, <1>7, <1>8 DEF Next, Step, Hook, Scheduler

LEMMA InitService == Init => PreciseInv /\ OrderInv /\ WholeInv /\ SortedInv /\ ServedInv
<1> SUFFICES ASSUME Init PROVE PreciseInv /\ OrderInv /\ WholeInv /\ SortedInv /\ ServedInv
  OBVIOUS
<1>1. /\ precise_job_queue = << >> /\ current = NoTask /\ spc = "ready" /\ hpc = "start"
  BY DEF Init
<1>2. \A a \in 1 .. Len(precise_job_queue) : FALSE
  BY <1>1
<1>3. AskedExperts = {}
  BY <1>1, NothingAsked
<1> QED BY <1>1, <1>2, <1>3 DEF PreciseInv, OrderInv, WholeInv, SortedInv, ServedInv

LEMMA ServedAwaited == TypeInv /\ ServedInv => AwaitedServed
<1> SUFFICES ASSUME TypeInv, ServedInv, aborted = "none"
             PROVE  IF EarlyPreempt
                      THEN HandlerEnded("Preempt") => \A e \in Awaited : InService(e)
                      ELSE hpc = "wait" /\ HandlerEnded("PreemptOne") => InService(HookExpert)
  BY DEF AwaitedServed
<1>1. ASSUME NEW e \in AskedExperts PROVE InService(e)
  <2>1. CASE e \in Launched
    BY <2>1 DEF Launched, InService
  <2>2. CASE e \in Wanted
    BY <2>2 DEF Wanted, InService, Queued
  <2>3. CASE e \in Finishing
    BY <2>3 DEF Finishing, InService
  <2> QED BY <2>1, <2>2, <2>3 DEF ServedInv
<1>2. CASE EarlyPreempt /\ HandlerEnded("Preempt")
  <2>1. hpc \in {"expert", "wait"} => Asked = idx .. Len(experts)
    BY <1>2 DEF Asked, HandlerEnded
  <2>2. Awaited \subseteq AskedExperts
    BY <2>1 DEF Awaited, AskedExperts
  <2> QED BY <1>1, <1>2, <2>2
<1>3. CASE ~EarlyPreempt /\ hpc = "wait" /\ HandlerEnded("PreemptOne")
  <2>1. idx \in Asked
    BY <1>3 DEF Asked, HandlerEnded
  <2>2. HookExpert \in AskedExperts
    BY <2>1 DEF AskedExperts, HookExpert
  <2> QED BY <1>1, <1>3, <2>2
<1> QED BY <1>2, <1>3

(* Once the preempt handler has ended, each expert the hook waits for is launched or queued   *)
(* precisely, or the copy in flight will launch it: preempt_one_layer drops none, send_one_job *)
(* finds no precise job to be a duplicate.                                                    *)
THEOREM AwaitedAreServed ==
  ASSUME ReorderedOrLate
  PROVE  Spec => []AwaitedServed
<1>1. Spec => []TypeInv
  BY InitTypeInv, NextTypeInv, PTL DEF Spec
<1>2. Spec => []BuffersPartitioned
  BY CachePartitionsBuffers
<1>3. Spec => []BudgetInv
  BY <1>1, InitBudget, NextBudget, PTL DEF Spec
<1>4. Spec => []WeightsInv
  BY <1>1, <1>2, InitWeights, NextWeights, PTL DEF Spec
<1>5. Spec => []PlaceInv
  BY <1>1, <1>3, InitPins, NextPlace, PTL DEF Spec
<1>6. Spec => []PinInv
  BY <1>1, <1>3, <1>5, InitPins, NextPins, PTL DEF Spec
<1> DEFINE Inv == PreciseInv /\ OrderInv /\ WholeInv /\ SortedInv /\ ServedInv
<1>7. Init => Inv
  BY InitService
<1>8. /\ TypeInv /\ BuffersPartitioned /\ BudgetInv /\ WeightsInv /\ PlaceInv /\ PinInv /\ Inv
      /\ [Next]_vars
      => Inv'
  BY NextService
<1>9. Inv /\ TypeInv => AwaitedServed
  BY ServedAwaited
<1> HIDE DEF Inv
<1> QED BY <1>1, <1>2, <1>3, <1>4, <1>5, <1>6, <1>7, <1>8, <1>9, PTL DEF Spec

-----------------------------------------------------------------------------
(* No circle.  The fetch worker begins to wait for v.                                         *)
LEMMA EvictWaits ==
  ASSUME TypeInv, BuffersPartitioned, WeightsInv, PreciseInv, Take("Idle"), NEW t \in CopyTask,
         SendOneJob(t), fpc' = "wait", victim' # NoExpert
  PROVE  /\ victim' \in Expert /\ Missing(t.expert)
         /\ expert_status'[victim'] = expert_status[victim']
         /\ expert_status[victim'] \in {"Launching", "Using"}
         /\ Launched \subseteq Launched'
<1>t. expert_status \in [Expert -> Status] /\ t.expert \in Expert /\ fpc = "idle" /\ victim = NoExpert
  BY IdleQuiet DEF TypeInv, TypeOK, CopyTask
<1>1. PICK v \in InSlot(t.expert) :
        /\ gpu_data[t.expert] = NoBuffer
        /\ Evict(t.expert, v) /\ Fetch(t, IF Pinned(v) THEN v ELSE NoExpert)
  BY <1>t DEF SendOneJob, SendMissed, SendDuplicate, SendRest, Fetch
<1>2. v \in Expert /\ v # t.expert
  BY <1>1 DEF InSlot, IsInCache, BuffersPartitioned
<1>3. Pinned(v) /\ victim' = v
  BY <1>1 DEF Fetch
<1>4. expert_status'[v] = expert_status[v]
  BY <1>t, <1>1, <1>2, <1>3 DEF Evict
<1>5. Launched \subseteq Launched'
  BY SentJobMoves
<1> QED BY <1>1, <1>2, <1>3, <1>4, <1>5 DEF Pinned, Missing

LEMMA WaitBegins ==
  ASSUME TypeInv, BuffersPartitioned, WeightsInv, PlaceInv, PinInv, PreciseInv, OrderInv,
         AwaitedServed, Next, SchedIdle
  PROVE  NoCircularWait'
<1> SUFFICES ASSUME fpc' = "wait", victim' # NoExpert,
                    expert_status'[victim'] \notin {"Using", "Ready"}
             PROVE  \E i \in idx' .. Len(experts') :
                      /\ victim' = <<layer', experts'[i]>>
                      /\ \A j \in idx' .. i : expert_status'[<<layer', experts'[j]>>] = "Launching"
  BY DEF NoCircularWait
<1> DEFINE q == precise_job_queue
<1>t. Take("Idle") /\ q \in Seq(CopyTask) /\ per_layer_job_queues \in [Layer -> Seq(CopyTask)]
  BY DEF SchedIdle, TypeInv, TypeOK
<1>a. UNCHANGED <<layer, experts, idx>> /\ spc = "ready"
  BY IdleAsks DEF SchedIdle, Take
<1>c. current = NoTask /\ NoTask.is_precise = FALSE
  BY <1>t, IdleQuiet DEF PreciseInv, NoTask
<1>1. PICK t \in CopyTask : SendOneJob(t) /\ (q # << >> => PopPrecise /\ t = Head(q))
  <2>1. CASE PopPrecise
    BY <2>1, PopQueue DEF PopPrecise
  <2>2. ASSUME NEW l \in Layer, PopLayer(l)
        PROVE  \E t \in CopyTask : SendOneJob(t) /\ q = << >>
    <3>1. per_layer_job_queues[l] \in Seq(CopyTask) /\ per_layer_job_queues[l] # << >>
      BY <1>t, <2>2 DEF PopLayer
    <3>2. Head(per_layer_job_queues[l]) \in CopyTask
      BY <3>1, HeadTail
    <3> QED BY <2>2, <3>2 DEF PopLayer
  <2> QED BY <2>1, <2>2 DEF SchedIdle
<1>2. /\ victim' \in Expert /\ Missing(t.expert)
      /\ expert_status'[victim'] = expert_status[victim']
      /\ expert_status[victim'] \in {"Launching", "Using"}
      /\ Launched \subseteq Launched'
  BY <1>t, <1>1, EvictWaits
<1>3. victim' \in Launched
  BY <1>2 DEF Launched
<1>4. PICK i \in Asked : victim' = HookAt(i)
  BY <1>3 DEF PinInv, AskedExperts, HookAt
<1>n. idx \in Nat /\ Len(experts) \in Nat /\ i \in 1 .. Len(experts) /\ i \in idx .. Len(experts)
  BY <1>4, AskedTyped DEF TypeInv, TypeOK, Asked
<1>5. ASSUME NEW j \in idx .. i PROVE HookAt(j) \in Launched
  <2>n. j \in 1 .. Len(experts) /\ j \in idx .. Len(experts) /\ j <= i
    BY <1>n DEF TypeInv, TypeOK
  <2>1. CASE ~EarlyPreempt
    <3>1. j = i
      BY <1>n, <1>4, <2>1, <2>n DEF Asked
    <3> QED BY <1>3, <1>4, <3>1
  <2>2. CASE EarlyPreempt
    <3>1. HandlerEnded("Preempt") /\ hpc \in {"expert", "wait"}
      BY <1>a, <1>4, <2>2 DEF Asked, HandlerEnded
    <3>2. InService(HookAt(j))
      BY <2>2, <2>n, <3>1 DEF AwaitedServed, Awaited, HookAt, Next
    <3>3. HookAt(j) \in Launched \cup Wanted
      <4>1. HookAt(j) \in Expert
        BY <2>n DEF TypeInv, TypeOK, HookAt, Expert
      <4> QED BY <1>c, <3>2, <4>1 DEF InService, Launched, Wanted, Queued
    <3>4. CASE HookAt(j) \in Wanted
      <4>1. PICK a \in 1 .. Len(q) : q[a].expert = HookAt(j)
        BY <3>4 DEF Wanted
      <4>2. q # << >>
        BY <4>1
      <4>3. /\ Len(q) \in Nat \ {0} /\ 1 \in 1 .. Len(q) /\ t = q[1] /\ t.expert \in Wanted
        BY <1>1, <4>2, PopQueue
      <4>4. PICK k \in 1 .. Len(experts) : t.expert = HookAt(k)
        <5>1. t.expert \in AskedExperts
          BY <4>3 DEF PinInv
        <5> QED BY <5>1, AskedTyped DEF AskedExperts, HookAt
      <4>5. ~(i > k)
        <5>1. i > k => i \in (k + 1) .. Len(experts)
          BY <1>n
        <5> QED BY <1>2, <1>3, <1>4, <4>3, <4>4, <5>1 DEF OrderInv
      <4>6. i # k
        BY <1>3, <1>4, <4>3, <4>4 DEF PinInv
      <4>7. j < k
        BY <1>n, <2>n, <4>5, <4>6
      <4>8. a = 1 \/ 1 \in 1 .. (a - 1)
        BY <4>3
      <4>9. CASE a = 1
        <5>1. j = k
          BY <2>n, <4>1, <4>3, <4>4, <4>9, PlaceUnique
        <5> QED BY <4>7, <5>1
      <4>10. CASE 1 \in 1 .. (a - 1)
        <5>1. k < j
          BY <2>n, <4>1, <4>3, <4>4, <4>10 DEF OrderInv
        <5> QED BY <4>7, <5>1
      <4> QED BY <4>8, <4>9, <4>10
    <3> QED BY <3>3, <3>4
  <2> QED BY <2>1, <2>2
<1>6. \A j \in idx .. i : expert_status'[HookAt(j)] = "Launching"
  BY <1>2, <1>5 DEF Launched
<1> QED BY <1>a, <1>n, <1>4, <1>6 DEF HookAt

(* While it waits the hook comes nearer to v, and v is not launched anew. *)
LEMMA WaitGoesOn ==
  ASSUME TypeInv, BuffersPartitioned, BudgetInv, WeightsInv, PlaceInv, PinInv, NoCircularWait,
         [Next]_vars, ~SchedIdle
  PROVE  NoCircularWait'
<1> SUFFICES ASSUME fpc' = "wait", victim' # NoExpert PROVE NoCircularWait'
  BY DEF NoCircularWait
<1>t. squeue \in Seq(Kind) /\ expert_status \in [Expert -> Status]
  BY DEF TypeInv, TypeOK, Kind
<1>1. fpc = "wait" /\ victim' = victim
  BY DEF Next, Step, Hook, HookStart, HookReportLayer, HookReportExpert, HookExpertDone,
     HookLayerDone, Scheduler, SchedPreempt, SchedPreemptExpert, SchedPreemptEnd, SchedPreemptOne,
     SchedPrefetchLayer, SchedFetchDone, SchedIdleAgain, Fetcher, FetchStart, FetchEnd, StreamStep,
     Unlock, Predictor, PredictStart, PredictLayer, PredictLayerDone, vars
<1>v. victim \in Expert /\ gpu_data[victim] = NoBuffer
  <2>1. InFlight
    BY <1>1 DEF InFlight
  <2> QED BY <1>1, <2>1 DEF WeightsInv, CurrentInv, TypeInv, TypeOK
<1>f. ~SchedFetchDone
  <2> SUFFICES ASSUME SchedFetchDone PROVE FALSE
    OBVIOUS
  <2>1. InQueue("FetchDone")
    BY <1>t, TakeInQueue DEF SchedFetchDone
  <2> QED BY <1>1, <2>1 DEF WeightsInv, OneJobToken
<1>w. \/ expert_status[victim] \in {"Using", "Ready"}
      \/ \E i \in idx .. Len(experts) :
           /\ victim = HookAt(i) /\ \A j \in idx .. i : HookAt(j) \in Launched
  <2>1. \A i \in idx .. Len(experts) : HookAt(i) \in Expert
    BY DEF TypeInv, TypeOK, HookAt, Expert
  <2>2. idx \in Nat /\ Len(experts) \in Nat
    BY DEF TypeInv, TypeOK
  <2>3. \A i \in idx .. Len(experts) : \A j \in idx .. i : j \in idx .. Len(experts)
    BY <2>2
  <2> QED BY <1>1, <2>1, <2>3 DEF NoCircularWait, HookAt, Launched
<1>2. ASSUME UNCHANGED <<layer, experts, idx>>, Launched \subseteq Launched',
             expert_status[victim] \in {"Using", "Ready"} => expert_status'[victim] \in {"Using", "Ready"}
      PROVE  NoCircularWait'
  BY <1>1, <1>w, <1>2 DEF NoCircularWait, HookAt, Launched
<1>3. ASSUME NEW e \in Expert, NEW behind, NEW line, line # "none", PreemptExpert(e, behind, line),
             UNCHANGED <<layer, experts, idx>>
      PROVE  NoCircularWait'
  <2>1. Launched \subseteq Launched' /\ (Launched' = Launched \/ (Launched' = Launched \cup {e} /\ IsInCache(e)))
    BY <1>3, PreemptMoves
  <2>2. IsInCache(e) => e # victim
    BY <1>v DEF IsInCache, BuffersPartitioned
  <2>3. \/ expert_status'[victim] = expert_status[victim]
        \/ expert_status[victim] \in InUse /\ expert_status'[victim] \in InUse
    BY <1>3, <1>v, PreemptExpertStatus
  <2>4. expert_status[victim] \in {"Using", "Ready"} => expert_status'[victim] \in {"Using", "Ready"}
    <3> SUFFICES ASSUME expert_status[victim] \in {"Using", "Ready"}
                 PROVE  expert_status'[victim] \in {"Using", "Ready"}
      OBVIOUS
    <3>1. victim \notin Launched'
      BY <2>1, <2>2 DEF Launched
    <3> QED BY <1>v, <2>3, <3>1 DEF Launched, InUse
  <2> QED BY <1>2, <1>3, <2>1, <2>4
<1>4. CASE HookStart \/ HookReportExpert
  <2>1. UNCHANGED <<layer, experts, idx, expert_status>>
    BY <1>4 DEF HookStart, HookReportExpert
  <2> QED BY <1>2, <2>1 DEF Launched
<1>5. CASE HookReportLayer \/ HookLayerDone \/ SchedPreempt
  <2>1. AskedExperts = {}
    BY <1>5, ArrayChanges
  <2>2. Launched = {}
    BY <2>1 DEF PinInv
  <2>3. expert_status[victim] \in {"Using", "Ready"}
    <3>1. \A i \in idx .. Len(experts) : i \in idx .. i
      BY DEF TypeInv, TypeOK
    <3> QED BY <1>w, <2>2, <3>1
  <2>4. UNCHANGED expert_status
    BY <1>5 DEF HookReportLayer, HookLayerDone, SchedPreempt
  <2> QED BY <1>1, <2>3, <2>4 DEF NoCircularWait
<1>6. CASE HookExpertDone
  <2>1. /\ Launched' = Launched \ {HookExpert} /\ HookExpert \in AskedExperts
    BY <1>6, HookUsesAsked
  <2>2. /\ expert_status' = [expert_status EXCEPT ![HookExpert] = "Using"] /\ idx' = idx + 1
        /\ expert_status[HookExpert] = "Launching" /\ UNCHANGED <<layer, experts>>
    BY <1>6 DEF HookExpertDone
  <2>3. HookExpert \in Expert /\ idx \in Nat \ {0} /\ Len(experts) \in Nat /\ HookExpert = HookAt(idx)
    BY <2>1, AskedTyped DEF TypeInv, TypeOK, HookExpert, HookAt
  <2>4. CASE expert_status[victim] \in {"Using", "Ready"}
    BY <1>1, <1>t, <1>v, <2>2, <2>4 DEF NoCircularWait
  <2>5. ASSUME NEW i \in idx .. Len(experts), victim = HookAt(i),
               \A j \in idx .. i : HookAt(j) \in Launched
        PROVE  NoCircularWait'
    <3>1. CASE i = idx
      BY <1>1, <1>t, <2>2, <2>3, <2>5, <3>1 DEF NoCircularWait
    <3>2. CASE i # idx
      <4>1. i \in idx' .. Len(experts')
        BY <2>2, <2>3, <3>2
      <4>2. ASSUME NEW j \in idx' .. i PROVE HookAt(j) \in Launched'
        <5>1. j \in idx .. i /\ j # idx /\ j \in 1 .. Len(experts) /\ idx \in 1 .. Len(experts)
          BY <2>2, <2>3
        <5>2. HookAt(j) # HookExpert
          BY <2>3, <5>1, PlaceUnique
        <5> QED BY <2>1, <2>5, <5>1, <5>2
      <4> QED BY <1>1, <2>2, <2>5, <4>1, <4>2 DEF NoCircularWait, HookAt, Launched
    <3> QED BY <3>1, <3>2
  <2> QED BY <1>w, <2>4, <2>5
<1>7. CASE SchedPreemptExpert
  <2>1. <<layer, experts[sidx]>> \in Expert
    BY <1>7 DEF TypeInv, TypeOK, SchedPreemptExpert, Expert
  <2> QED BY <1>3, <1>7, <2>1 DEF SchedPreemptExpert
<1>8. CASE SchedPreemptOne
  <2>1. InQueue("PreemptOne")
    BY <1>8, <1>t, TakeInQueue DEF SchedPreemptOne
  <2>2. HookExpert \in Expert
    BY <2>1 DEF TypeInv, TypeOK, IndexInv, HookExpert, Expert
  <2> QED BY <1>3, <1>8, <2>2 DEF SchedPreemptOne
<1>9. CASE \/ SchedPreemptEnd \/ SchedPrefetchLayer \/ SchedIdleAgain \/ Fetcher \/ StreamStep
           \/ Unlock \/ Predictor \/ UNCHANGED vars
  <2>1. UNCHANGED <<layer, experts, idx>> /\ Launched' = Launched
    BY <1>9, FramePinned
  <2>2. ~Fetcher
    BY <1>1 DEF Fetcher, FetchStart, FetchEnd
  <2>3. expert_status[victim] \in {"Using", "Ready"} => expert_status'[victim] \in {"Using", "Ready"}
    <3>1. CASE Unlock
      <4>1. expert_status' = [expert_status EXCEPT ![Head(uqueue)] = "Ready"]
        BY <3>1 DEF Unlock, CheckedTransfer, Transferred
      <4> QED BY <1>t, <1>v, <4>1
    <3>2. CASE UNCHANGED expert_status
      BY <3>2
    <3> QED BY <1>9, <2>2, <3>1, <3>2 DEF SchedPreemptEnd, SchedPrefetchLayer, SchedIdleAgain,
         StreamStep, Predictor, PredictStart, PredictLayer, PredictLayerDone, vars
  <2> QED BY <1>2, <2>1, <2>3
<1> QED BY <1>f, <1>4, <1>5, <1>6, <1>7, <1>8, <1>9 DEF Next, Step, Hook, Scheduler

(* Where no awaited expert is dropped the fetch worker, waiting for an evicted expert, waits  *)
(* for nothing that waits for it: the hook reaches that expert with what is launched already  *)
(* (lambda_wait of CacheMngr::miss, wait_expert of the hook).                                 *)
THEOREM ServedWaitsEnd == Spec /\ []AwaitedServed => []NoCircularWait
<1>1. Spec => []TypeInv
  BY InitTypeInv, NextTypeInv, PTL DEF Spec
<1>2. Spec => []BuffersPartitioned
  BY CachePartitionsBuffers
<1>3. Spec => []BudgetInv
  BY <1>1, InitBudget, NextBudget, PTL DEF Spec
<1>4. Spec => []WeightsInv
  BY <1>1, <1>2, InitWeights, NextWeights, PTL DEF Spec
<1>5. Spec => []PlaceInv
  BY <1>1, <1>3, InitPins, NextPlace, PTL DEF Spec
<1>6. Spec => []PinInv
  BY <1>1, <1>3, <1>5, InitPins, NextPins, PTL DEF Spec
<1>7. Spec => [](PreciseInv /\ OrderInv)
  <2>1. Init => PreciseInv /\ OrderInv
    BY InitService
  <2>2. /\ TypeInv /\ BuffersPartitioned /\ BudgetInv /\ WeightsInv /\ PlaceInv /\ PinInv
        /\ (PreciseInv /\ OrderInv) /\ [Next]_vars
        => (PreciseInv /\ OrderInv)'
    BY NextService
  <2> QED BY <1>1, <1>2, <1>3, <1>4, <1>5, <1>6, <2>1, <2>2, PTL DEF Spec
<1>8. Init => NoCircularWait
  BY DEF Init, NoCircularWait
<1>9. /\ TypeInv /\ BuffersPartitioned /\ BudgetInv /\ WeightsInv /\ PlaceInv /\ PinInv
      /\ (PreciseInv /\ OrderInv) /\ AwaitedServed /\ NoCircularWait /\ [Next]_vars
      => NoCircularWait'
  <2> SUFFICES ASSUME TypeInv, BuffersPartitioned, BudgetInv, WeightsInv, PlaceInv, PinInv,
                      PreciseInv, OrderInv, AwaitedServed, NoCircularWait, [Next]_vars
               PROVE  NoCircularWait'
    OBVIOUS
  <2>1. CASE Next /\ SchedIdle
    BY <2>1, WaitBegins
  <2>2. CASE ~SchedIdle
    BY <2>2, WaitGoesOn
  <2>3. CASE UNCHANGED vars
    BY <2>3 DEF vars, NoCircularWait
  <2> QED BY <2>1, <2>2, <2>3
<1> QED BY <1>1, <1>2, <1>3, <1>4, <1>5, <1>6, <1>7, <1>8, <1>9, PTL DEF Spec

(* With reorder_experts or without early_preempt no circle closes: the hook and the fetch     *)
(* worker never wait for each other.                                                          *)
THEOREM NoCircle ==
  ASSUME ReorderedOrLate
  PROVE  Spec => []NoCircularWait
BY AwaitedAreServed, ServedWaitsEnd, PTL

-----------------------------------------------------------------------------
(* Prefetched layers.  The predict worker has one task in the scheduler's queue at most.      *)
UniquePrefetch ==
  \A i, j \in 1 .. Len(squeue) : squeue[i] = "Prefetch" /\ squeue[j] = "Prefetch" => i = j

FewerPrefetch == UniquePrefetch' /\ (InQueue("Prefetch")' => InQueue("Prefetch"))

LEMMA PrefetchAppend ==
  ASSUME squeue \in Seq(Kind), UniquePrefetch, NEW k \in Kind, squeue' = Append(squeue, k)
  PROVE  /\ k # "Prefetch" => FewerPrefetch
         /\ ~InQueue("Prefetch") => UniquePrefetch'
<1>1. /\ Len(squeue) \in Nat /\ Len(squeue') = Len(squeue) + 1
      /\ \A i \in 1 .. Len(squeue) : squeue'[i] = squeue[i]
      /\ squeue'[Len(squeue) + 1] = k
  BY Appended
<1>2. \A i \in 1 .. Len(squeue') : i \in 1 .. Len(squeue) \/ i = Len(squeue) + 1
  BY <1>1
<1>3. k # "Prefetch" => FewerPrefetch
  BY <1>1, <1>2 DEF FewerPrefetch, UniquePrefetch, InQueue
<1>4. ~InQueue("Prefetch") => UniquePrefetch'
  BY <1>1, <1>2 DEF UniquePrefetch, InQueue
<1> QED BY <1>3, <1>4

LEMMA PrefetchTail ==
  ASSUME squeue \in Seq(Kind), squeue # << >>, UniquePrefetch, squeue' = Tail(squeue)
  PROVE  FewerPrefetch /\ (Head(squeue) = "Prefetch" => ~InQueue("Prefetch")')
<1>1. /\ Len(squeue) \in Nat \ {0} /\ Len(squeue') = Len(squeue) - 1
      /\ \A i \in 1 .. Len(squeue') : squeue'[i] = squeue[i + 1]
      /\ Head(squeue) = squeue[1]
  BY HeadTail
<1>2. \A i \in 1 .. Len(squeue') : i + 1 \in 1 .. Len(squeue) /\ i + 1 # 1
  BY <1>1
<1>3. UniquePrefetch'
  <2> SUFFICES ASSUME NEW i \in 1 .. Len(squeue'), NEW j \in 1 .. Len(squeue'),
                      squeue'[i] = "Prefetch", squeue'[j] = "Prefetch"
               PROVE  i = j
    BY DEF UniquePrefetch
  <2>1. i + 1 = j + 1
    BY <1>1, <1>2 DEF UniquePrefetch
  <2> QED BY <2>1
<1>4. InQueue("Prefetch")' => InQueue("Prefetch")
  BY <1>1, <1>2 DEF InQueue
<1>5. 1 \in 1 .. Len(squeue)
  BY <1>1
<1>6. Head(squeue) = "Prefetch" => ~InQueue("Prefetch")'
  BY <1>1, <1>2, <1>5 DEF UniquePrefetch, InQueue
<1> QED BY <1>3, <1>4, <1>6 DEF FewerPrefetch

LEMMA PrefetchIdleAgain ==
  ASSUME squeue \in Seq(Kind), squeue # << >>, UniquePrefetch, squeue' = IdleAgain
  PROVE  FewerPrefetch
<1>1. /\ Len(squeue) \in Nat \ {0} /\ Tail(squeue) \in Seq(Kind)
      /\ Len(Tail(squeue)) = Len(squeue) - 1
      /\ \A i \in 1 .. Len(Tail(squeue)) : Tail(squeue)[i] = squeue[i + 1]
  BY HeadTail
<1>2. /\ Len(squeue') = Len(squeue)
      /\ \A i \in 1 .. (Len(squeue) - 1) : squeue'[i] = squeue[i + 1]
      /\ squeue'[Len(squeue)] = "Idle"
  BY <1>1, Appended DEF IdleAgain, Kind
<1>3. \A i \in 1 .. Len(squeue) : squeue'[i] = "Prefetch" =>
        i + 1 \in 1 .. Len(squeue) /\ squeue[i + 1] = "Prefetch"
  BY <1>1, <1>2
<1>4. UniquePrefetch'
  <2> SUFFICES ASSUME NEW i \in 1 .. Len(squeue'), NEW j \in 1 .. Len(squeue'),
                      squeue'[i] = "Prefetch", squeue'[j] = "Prefetch"
               PROVE  i = j
    BY DEF UniquePrefetch
  <2>1. i + 1 = j + 1
    BY <1>2, <1>3 DEF UniquePrefetch
  <2> QED BY <2>1
<1> QED BY <1>2, <1>3, <1>4 DEF FewerPrefetch, InQueue

(* Only the predict worker adds such a task. *)
LEMMA PrefetchFewer ==
  ASSUME TypeInv, UniquePrefetch, Next, ~PredictLayer
  PROVE  FewerPrefetch
<1>t. squeue \in Seq(Kind)
  BY DEF TypeInv, TypeOK, Kind
<1>1. CASE squeue' = squeue
  BY <1>1 DEF FewerPrefetch, UniquePrefetch, InQueue
<1>2. ASSUME NEW k \in Kind \ {"Prefetch"}, squeue' = Append(squeue, k) PROVE FewerPrefetch
  BY <1>2, <1>t, PrefetchAppend
<1>3. ASSUME squeue # << >>, squeue' \in {Tail(squeue), IdleAgain} PROVE FewerPrefetch
  BY <1>3, <1>t, PrefetchTail, PrefetchIdleAgain
<1>k. {"Preempt", "PreemptOne", "FetchDone"} \subseteq Kind \ {"Prefetch"}
  BY DEF Kind
<1>4. CASE Hook
  <2>1. squeue' \in {squeue, Append(squeue, "Preempt"), Append(squeue, "PreemptOne")}
    BY <1>4 DEF Hook, HookStart, HookReportLayer, HookReportExpert, HookExpertDone, HookLayerDone
  <2> QED BY <1>1, <1>2, <1>k, <2>1
<1>5. CASE Scheduler
  <2>1. CASE SchedPreemptExpert \/ SchedPreemptEnd
    BY <1>1, <2>1 DEF SchedPreemptExpert, SchedPreemptEnd
  <2>2. CASE SchedPreempt \/ SchedPreemptOne \/ SchedPrefetchLayer \/ SchedFetchDone \/ SchedIdleAgain
    BY <1>3, <2>2 DEF SchedPreempt, SchedPreemptOne, SchedPrefetchLayer, SchedFetchDone,
       SchedIdleAgain, Take
  <2>3. CASE SchedIdle
    <3>1. squeue # << >>
      BY <2>3 DEF SchedIdle, Take
    <3>2. \A t : SendOneJob(t) => squeue' \in {squeue, Tail(squeue), IdleAgain}
      BY DEF SendOneJob, SendMissed, SendDuplicate, SendRest, Fetch
    <3>3. squeue' \in {squeue, Tail(squeue), IdleAgain}
      BY <2>3, <3>2 DEF SchedIdle, PopPrecise, PopLayer
    <3> QED BY <1>1, <1>3, <3>1, <3>3
  <2> QED BY <1>5, <2>1, <2>2, <2>3 DEF Scheduler
<1>6. CASE Fetcher \/ StreamStep \/ Unlock \/ Predictor
  <2>1. squeue' = squeue \/ squeue' = Append(squeue, "FetchDone")
    BY <1>6 DEF Fetcher, FetchStart, FetchEnd, StreamStep, Unlock, Predictor, PredictStart,
       PredictLayerDone
  <2> QED BY <1>1, <1>2, <1>k, <2>1
<1> QED BY <1>4, <1>5, <1>6 DEF Next, Step

(* The hook's layer is not preempted yet.                                                     *)
Unpreempted == InQueue("Preempt") \/ spc = "preempting"

(* The job at hand predicts the layer that comes next in this iteration.                      *)
JobAhead == pnext < pstop => pnext = Ahead

(* What is queued for prefetching is of a layer that the hook has not preempted yet and the   *)
(* predict worker has been at in this iteration.                                              *)
QueuesInv ==
  /\ UniquePrefetch
  /\ \A l \in Layer : per_layer_job_queues[l] # << >> =>
       /\ layer <= l
       /\ (l = layer /\ Open => Unpreempted)
       /\ l < Ahead \/ (l = Ahead /\ ppc = "submitted" /\ ~InQueue("Prefetch"))

(* Steps that add nothing to a queue and leave hook and predict worker where they are. *)
LEMMA QueuesFrame ==
  ASSUME QueuesInv, UNCHANGED <<hpc, layer, prefetch_layer_progress, ppc, spc>>, SamePreempt, FewerPrefetch,
         \A l \in Layer : per_layer_job_queues'[l] # << >> => per_layer_job_queues[l] # << >>
  PROVE  QueuesInv'
<1>1. Unpreempted' = Unpreempted /\ Open' = Open /\ Ahead' = Ahead
  BY DEF Unpreempted, SamePreempt, Open, Ahead
<1> QED BY <1>1 DEF QueuesInv, FewerPrefetch

LEMMA HookQueues ==
  ASSUME TypeInv, BudgetInv, QueuesInv, Next, Hook
  PROVE  QueuesInv'
<1>n. /\ NumLayer \in Nat \ {0} /\ layer \in 0 .. (NumLayer - 1) /\ Layer = 0 .. (NumLayer - 1)
      /\ prefetch_layer_progress \in Nat
  BY ConstantsAssumption DEF TypeInv, TypeOK, Layer
<1>q. UNCHANGED <<per_layer_job_queues, ppc, spc>>
  BY DEF Hook, HookStart, HookReportLayer, HookReportExpert, HookExpertDone, HookLayerDone
<1>u. FewerPrefetch
  <2>1. ~PredictLayer
    BY DEF PredictLayer, Hook, HookStart, HookReportLayer, HookReportExpert, HookExpertDone, HookLayerDone
  <2> QED BY <2>1, PrefetchFewer DEF QueuesInv
<1>1. CASE HookStart
  <2>1. ~Open /\ ~Open' /\ Ahead' = Ahead /\ layer' = layer
    BY <1>1 DEF HookStart, Open, Ahead
  <2> QED BY <1>q, <1>u, <2>1 DEF QueuesInv, FewerPrefetch
<1>2. CASE HookReportLayer
  <2>1. Ahead' = Ahead /\ layer' = layer
    BY <1>2, <1>n DEF HookReportLayer, Ahead
  <2>2. InQueue("Preempt")'
    <3>1. squeue \in Seq(Kind) /\ squeue' = Append(squeue, "Preempt") /\ "Preempt" \in Kind
      BY <1>2 DEF HookReportLayer, TypeInv, TypeOK, Kind
    <3> QED BY <3>1, TokenKeptAppend
  <2> QED BY <1>q, <1>u, <2>1, <2>2 DEF QueuesInv, FewerPrefetch, Unpreempted
<1>3. CASE HookReportExpert \/ HookExpertDone
  <2>1. Open /\ Open' /\ Ahead' = Ahead /\ layer' = layer
    BY <1>3 DEF HookReportExpert, HookExpertDone, Open, Ahead
  <2>2. ~HookReportLayer /\ ~SchedPreempt
    BY <1>3, HookMovesHpc DEF HookReportExpert, HookExpertDone, HookReportLayer
  <2>3. SamePreempt
    BY <2>2, PreemptSame DEF BudgetInv, PreemptInv
  <2> QED BY <1>q, <1>u, <2>1, <2>3 DEF QueuesInv, FewerPrefetch, Unpreempted, SamePreempt
<1>4. CASE HookLayerDone
  <2>1. /\ hpc = "layer_done" /\ layer' = NextLayer /\ UNCHANGED prefetch_layer_progress
        /\ hpc' \in {"start", "layer", "done"}
    BY <1>4 DEF HookLayerDone
  <2>2. Open /\ ~Open' /\ ~Unpreempted
    BY <2>1 DEF Open, Unpreempted, BudgetInv, PreemptInv
  <2>3. \A l \in Layer : per_layer_job_queues[l] # << >> => layer < l
    BY <1>n, <2>2 DEF QueuesInv
  <2>4. CASE layer = NumLayer - 1
    <3>1. \A l \in Layer : per_layer_job_queues[l] = << >>
      BY <1>n, <2>3, <2>4
    <3> QED BY <1>q, <1>u, <3>1 DEF QueuesInv, FewerPrefetch
  <2>5. CASE layer # NumLayer - 1
    <3>1. layer' = layer + 1
      BY <2>1, <2>5 DEF NextLayer
    <3>2. Ahead' = Ahead
      BY <1>n, <2>1, <3>1 DEF Ahead
    <3>3. \A l \in Layer : per_layer_job_queues[l] # << >> => layer + 1 <= l
      BY <1>n, <2>3
    <3> QED BY <1>q, <1>u, <2>2, <3>1, <3>2, <3>3 DEF QueuesInv, FewerPrefetch
  <2> QED BY <2>4, <2>5
<1> QED BY <1>1, <1>2, <1>3, <1>4 DEF Hook

LEMMA ClearedQueues ==
  ASSUME TypeInv, QueuesInv, per_layer_job_queues' = Cleared,
         UNCHANGED <<hpc, layer, prefetch_layer_progress, ppc>>, FewerPrefetch
  PROVE  QueuesInv'
<1>1. per_layer_job_queues \in [Layer -> Seq(CopyTask)]
  BY DEF TypeInv, TypeOK
<1>2. \A l \in Layer : per_layer_job_queues'[l] = IF l = layer THEN << >> ELSE per_layer_job_queues[l]
  BY <1>1 DEF Cleared
<1>3. Ahead' = Ahead
  BY DEF Ahead
<1> QED BY <1>2, <1>3 DEF QueuesInv, FewerPrefetch

LEMMA PrefetchQueues ==
  ASSUME TypeInv, BudgetInv, JobAhead, QueuesInv, Next, SchedPrefetchLayer
  PROVE  QueuesInv'
<1>n. /\ NumLayer \in Nat \ {0} /\ layer \in 0 .. (NumLayer - 1) /\ Layer = 0 .. (NumLayer - 1)
      /\ prefetch_layer_progress \in Nat /\ squeue \in Seq(Kind)
  BY ConstantsAssumption DEF TypeInv, TypeOK, Layer, Kind
<1>s. UNCHANGED <<hpc, layer, prefetch_layer_progress, ppc, spc>>
  BY DEF SchedPrefetchLayer
<1>1. ppc = "submitted" /\ pnext < pstop
  <2>1. squeue # << >> /\ Head(squeue) = "Prefetch"
    BY DEF SchedPrefetchLayer, Take
  <2>2. Len(squeue) \in Nat \ {0} /\ squeue[1] = "Prefetch"
    BY <1>n, <2>1, HeadTail
  <2>3. 1 \in 1 .. Len(squeue)
    BY <2>2
  <2> QED BY <2>2, <2>3 DEF InQueue, TypeInv, IndexInv
<1>u. UniquePrefetch' /\ ~InQueue("Prefetch")'
  BY <1>n, PrefetchTail DEF SchedPrefetchLayer, Take, QueuesInv, FewerPrefetch
<1>2. pnext = Ahead
  BY <1>1 DEF JobAhead
<1>3. layer <= Ahead /\ (Open => layer < Ahead)
  BY <1>n DEF Ahead, Open
<1>4. SamePreempt
  <2>1. ~HookReportLayer /\ ~SchedPreempt
    BY DEF SchedPrefetchLayer, HookReportLayer, SchedPreempt, Take
  <2> QED BY <2>1, PreemptSame DEF BudgetInv, PreemptInv
<1>5. Unpreempted' = Unpreempted /\ Open' = Open /\ Ahead' = Ahead
  BY <1>s, <1>4 DEF Unpreempted, SamePreempt, Open, Ahead
<1>6. \A l \in Layer : l # pnext => per_layer_job_queues'[l] = per_layer_job_queues[l]
  <2>1. per_layer_job_queues \in [Layer -> Seq(CopyTask)]
    BY DEF TypeInv, TypeOK
  <2>2. per_layer_job_queues' =
          [per_layer_job_queues EXCEPT ![pnext] = per_layer_job_queues[pnext] \o PrefetchTasks(pnext, pexperts)]
    BY DEF SchedPrefetchLayer
  <2> QED BY <2>1, <2>2
<1>7. ASSUME NEW l \in Layer, per_layer_job_queues'[l] # << >>
      PROVE  /\ layer <= l
             /\ (l = layer /\ Open => Unpreempted)
             /\ l < Ahead \/ (l = Ahead /\ ppc = "submitted" /\ ~InQueue("Prefetch")')
  <2>1. CASE l = pnext
    BY <1>1, <1>2, <1>3, <1>n, <1>u, <2>1
  <2>2. CASE l # pnext
    BY <1>6, <1>7, <1>u, <2>2 DEF QueuesInv
  <2> QED BY <2>1, <2>2
<1> QED BY <1>s, <1>u, <1>5, <1>7 DEF QueuesInv

LEMMA PredictorQueues ==
  ASSUME TypeInv, BudgetInv, QueuesInv, Next, Predictor
  PROVE  QueuesInv'
<1>n. /\ NumLayer \in Nat \ {0} /\ layer \in 0 .. (NumLayer - 1) /\ Layer = 0 .. (NumLayer - 1)
      /\ prefetch_layer_progress \in Nat
  BY ConstantsAssumption DEF TypeInv, TypeOK, Layer
<1>s. UNCHANGED <<hpc, layer, spc, per_layer_job_queues>>
  BY DEF Predictor, PredictStart, PredictLayer, PredictLayerDone
<1>1. SamePreempt
  <2>1. ~HookReportLayer /\ ~SchedPreempt
    <3>1. experts' = experts /\ hpc' = hpc
      BY DEF Predictor, PredictStart, PredictLayer, PredictLayerDone
    <3>2. ~HookReportLayer
      BY <3>1 DEF HookReportLayer
    <3>3. UNCHANGED squeue \/ Len(squeue') = Len(squeue) + 1
      BY DEF Predictor, PredictStart, PredictLayer, PredictLayerDone, TypeInv, TypeOK
    <3>4. ~SchedPreempt
      <4>1. ASSUME SchedPreempt PROVE FALSE
        <5>1. squeue \in Seq(Kind) /\ squeue # << >> /\ squeue' = Tail(squeue)
          BY <4>1 DEF SchedPreempt, Take, TypeInv, TypeOK, Kind
        <5>2. Len(squeue) \in Nat \ {0} /\ Len(squeue') = Len(squeue) - 1
          BY <5>1, HeadTail
        <5> QED BY <3>3, <5>2
      <4> QED BY <4>1
    <3> QED BY <3>2, <3>4
  <2> QED BY <2>1, PreemptSame DEF BudgetInv, PreemptInv
<1>2. Unpreempted' = Unpreempted /\ Open' = Open
  BY <1>s, <1>1 DEF Unpreempted, SamePreempt, Open
<1>3. CASE PredictStart
  <2>1. FewerPrefetch
    BY <1>3 DEF PredictStart, FewerPrefetch, UniquePrefetch, InQueue, QueuesInv
  <2> QED BY <1>3, <1>s, <1>1, <2>1, QueuesFrame DEF PredictStart
<1>4. CASE PredictLayer
  <2>1. ppc = "ready" /\ Ahead' = Ahead
    BY <1>4 DEF PredictLayer, Ahead
  <2>2. UniquePrefetch'
    <3>1. squeue \in Seq(Kind) /\ squeue' = Append(squeue, "Prefetch") /\ "Prefetch" \in Kind
      BY <1>4 DEF PredictLayer, TypeInv, TypeOK, Kind
    <3>2. ~InQueue("Prefetch")
      BY <2>1 DEF TypeInv, IndexInv
    <3> QED BY <3>1, <3>2, PrefetchAppend DEF QueuesInv
  <2> QED BY <1>s, <1>2, <2>1, <2>2 DEF QueuesInv
<1>5. CASE PredictLayerDone
  <2>1. Ahead' = Ahead + 1 /\ Ahead \in Nat
    BY <1>5, <1>n DEF PredictLayerDone, Ahead
  <2>2. \A l \in Layer : l < Ahead \/ l = Ahead => l < Ahead'
    BY <1>n, <2>1
  <2>3. UniquePrefetch'
    BY <1>5 DEF PredictLayerDone, UniquePrefetch, QueuesInv
  <2> QED BY <1>s, <1>2, <2>2, <2>3 DEF QueuesInv
<1> QED BY <1>3, <1>4, <1>5 DEF Predictor

LEMMA NextQueues ==
  TypeInv /\ BudgetInv /\ JobAhead /\ QueuesInv /\ [Next]_vars => QueuesInv'
<1> SUFFICES ASSUME TypeInv, BudgetInv, JobAhead, QueuesInv, [Next]_vars
             PROVE  QueuesInv'
  OBVIOUS
<1>1. CASE UNCHANGED vars
  BY <1>1 DEF vars, QueuesInv, UniquePrefetch, Unpreempted, InQueue, Open, Ahead
<1>2. CASE Next
  <2>p. per_layer_job_queues \in [Layer -> Seq(CopyTask)]
    BY DEF TypeInv, TypeOK
  <2>1. CASE Hook \/ Predictor
    BY <1>2, <2>1, HookQueues, PredictorQueues
  <2>f. ASSUME UNCHANGED ppc PROVE FewerPrefetch
    <3>1. ~PredictLayer
      BY <2>f DEF PredictLayer
    <3> QED BY <1>2, <3>1, PrefetchFewer DEF QueuesInv
  <2>2. CASE SchedPreempt
    <3>1. UNCHANGED <<hpc, layer, prefetch_layer_progress, ppc>>
      BY <2>2 DEF SchedPreempt
    <3>2. CASE EarlyPreempt
      <4>1. spc' = "preempting" /\ per_layer_job_queues' = per_layer_job_queues
        BY <2>2, <3>2 DEF SchedPreempt
      <4> QED BY <2>f, <3>1, <4>1 DEF QueuesInv, FewerPrefetch, Unpreempted, Ahead, Open
    <3>3. CASE ~EarlyPreempt
      <4>1. per_layer_job_queues' = Cleared
        BY <2>2, <3>3 DEF SchedPreempt
      <4> QED BY <2>f, <3>1, <4>1, ClearedQueues
    <3> QED BY <3>2, <3>3
  <2>3. CASE SchedPreemptEnd
    BY <2>3, <2>f, ClearedQueues DEF SchedPreemptEnd
  <2>4. CASE SchedPrefetchLayer
    BY <1>2, <2>4, PrefetchQueues
  <2>5. CASE \/ SchedPreemptExpert \/ SchedPreemptOne \/ SchedFetchDone \/ SchedIdle \/ SchedIdleAgain
             \/ Fetcher \/ StreamStep \/ Unlock
    <3>1. UNCHANGED <<hpc, layer, experts, prefetch_layer_progress, ppc, spc>>
      BY <2>5 DEF SchedPreemptExpert, SchedPreemptOne, SchedFetchDone, SchedIdle, SchedIdleAgain,
         Fetcher, FetchStart, FetchEnd, StreamStep, Unlock
    <3>2. ~HookReportLayer /\ ~SchedPreempt
      <4>1. ~HookReportLayer
        BY <3>1 DEF HookReportLayer
      <4>2. ASSUME SchedPreempt PROVE FALSE
        <5>1. /\ squeue \in Seq(Kind) /\ squeue # << >> /\ squeue' = Tail(squeue) /\ Head(squeue) = "Preempt"
              /\ spc = "ready"
          BY <4>2 DEF SchedPreempt, Take, TypeInv, TypeOK, Kind
        <5>2. Len(squeue) \in Nat \ {0} /\ Len(squeue') = Len(squeue) - 1
          BY <5>1, HeadTail
        <5>3. Fetcher \/ StreamStep \/ Unlock
          BY <2>5, <5>1 DEF SchedPreemptExpert, SchedPreemptOne, SchedFetchDone, SchedIdle, SchedIdleAgain, Take
        <5>4. squeue' = squeue \/ Len(squeue') = Len(squeue) + 1
          BY <5>1, <5>3 DEF Fetcher, FetchStart, FetchEnd, StreamStep, Unlock
        <5> QED BY <5>2, <5>4
      <4> QED BY <4>1, <4>2
    <3>3. SamePreempt
      BY <1>2, <3>2, PreemptSame DEF BudgetInv, PreemptInv
    <3>4. ASSUME NEW l \in Layer, per_layer_job_queues'[l] # << >>
          PROVE  per_layer_job_queues[l] # << >>
      <4>1. CASE SchedIdle
        <5>1. PopPrecise \/ \E k \in Layer : PopLayer(k)
          BY <4>1 DEF SchedIdle
        <5>2. CASE PopPrecise
          BY <3>4, <5>2 DEF PopPrecise
        <5>3. ASSUME NEW k \in Layer, PopLayer(k) PROVE per_layer_job_queues[l] # << >>
          BY <2>p, <3>4, <5>3 DEF PopLayer
        <5> QED BY <5>1, <5>2, <5>3
      <4>2. CASE ~SchedIdle
        <5>1. per_layer_job_queues' = per_layer_job_queues
          BY <2>5, <4>2 DEF SchedPreemptExpert, SchedPreemptOne, SchedFetchDone, SchedIdleAgain,
             Fetcher, FetchStart, FetchEnd, StreamStep, Unlock
        <5> QED BY <3>4, <5>1
      <4> QED BY <4>1, <4>2
    <3> QED BY <2>f, <3>1, <3>3, <3>4, QueuesFrame
  <2> QED BY <1>2, <2>1, <2>2, <2>3, <2>4, <2>5 DEF Next, Step, Scheduler
<1> QED BY <1>1, <1>2

LEMMA InitQueues == Init => QueuesInv
<1> SUFFICES ASSUME Init PROVE QueuesInv
  OBVIOUS
<1>1. per_layer_job_queues = [l \in Layer |-> << >>]
  BY DEF Init
<1>2. squeue = <<"Idle">>
  BY DEF Init
<1> QED BY <1>1, <1>2 DEF QueuesInv, UniquePrefetch

-----------------------------------------------------------------------------
(* Parts of experts.  With no chunk tasks, or one chunk per expert, experts are whole.        *)
WholeExperts == ~ChunkPrefetch \/ P = 1

(* The options with which a partly fetched expert is not evicted before its next chunk.       *)
PartsStay == PerLayerCache \/ WholeExperts

(* The first n chunks of f are there, or will be when the copy in flight is done.             *)
HasChunks(f, n) ==
  /\ ~Missing(f)
  /\ num_ready[f] >= n \/ (current.expert = f /\ current.stop >= n)

(* The same in the next state. *)
WillHave(f, n) ==
  /\ gpu_data'[f] # NoBuffer
  /\ num_ready'[f] >= n \/ (current'.expert = f /\ current'.stop >= n)

(* A precise job for the rest of an expert: nothing before it needs a buffer.                 *)
PreciseParts ==
  \A a \in 1 .. Len(precise_job_queue) : precise_job_queue[a].start # 0 =>
    /\ HasChunks(precise_job_queue[a].expert, precise_job_queue[a].start)
    /\ \A b \in 1 .. (a - 1) : ~Missing(precise_job_queue[b].expert)

(* A job of a layer's queue for the rest of an expert continues the one before it.            *)
LayerParts ==
  \A l \in Layer : \A a \in 1 .. Len(per_layer_job_queues[l]) :
    LET t == per_layer_job_queues[l][a]
        before == per_layer_job_queues[l][a - 1]
    IN /\ t.expert[1] = l
       /\ t.start # 0 => IF a = 1 THEN HasChunks(t.expert, t.start)
                         ELSE before.expert = t.expert /\ before.stop >= t.start

(* Without parts: every job is for a whole expert. *)
WholeJobs ==
  /\ \A e \in Expert : num_ready[e] \in {0, P}
  /\ current # NoTask => current.stop = P
  /\ \A a \in 1 .. Len(precise_job_queue) : precise_job_queue[a].start = 0
  /\ \A l \in Layer : \A a \in 1 .. Len(per_layer_job_queues[l]) :
       per_layer_job_queues[l][a].start = 0 /\ per_layer_job_queues[l][a].stop = P

LEMMA DivModOf ==
  ASSUME NEW p \in Nat \ {0}, NEW d \in Nat, NEW r \in 0 .. (p - 1), NEW k \in Nat, k = p * d + r
  PROVE  k \div p = d /\ k % p = r
OBVIOUS

LEMMA DivModPrevious ==
  ASSUME NEW p \in Nat \ {0}, NEW k \in Nat, k % p # 0
  PROVE  k # 0 /\ (k - 1) \div p = k \div p /\ (k - 1) % p = (k % p) - 1
<1> DEFINE d == k \div p
           r == k % p
<1>1. d \in Nat /\ r \in 1 .. (p - 1) /\ k = p * d + r
  OBVIOUS
<1>2. k # 0
  OBVIOUS
<1> HIDE DEF d, r
<1>3. k - 1 \in Nat /\ r - 1 \in 0 .. (p - 1) /\ k - 1 = p * d + (r - 1)
  BY <1>1, <1>2
<1>4. (k - 1) \div p = d /\ (k - 1) % p = r - 1
  BY <1>1, <1>3, DivModOf
<1> QED BY <1>2, <1>4 DEF d, r

(* PrefetchLayerTask: the chunks of an expert follow one another. *)
LEMMA PrefetchTasksParts ==
  ASSUME NEW l \in Layer, NEW es \in Seq(ExpertIdx), NEW i \in 1 .. Len(PrefetchTasks(l, es))
  PROVE  LET ts == PrefetchTasks(l, es)
         IN /\ ts[i].expert[1] = l
            /\ ts[i].start # 0 => /\ i # 1 /\ ts[i - 1].expert = ts[i].expert
                                  /\ ts[i - 1].stop >= ts[i].start
            /\ WholeExperts => ts[i].start = 0 /\ ts[i].stop = P
<1> DEFINE ts == PrefetchTasks(l, es)
<1>p. P \in Nat \ {0} /\ Len(es) \in Nat
  BY ConstantsAssumption DEF P
<1>1. CASE ChunkPrefetch
  <2> DEFINE task(k) == Task(<<l, es[((k - 1) \div P) + 1]>>, (k - 1) % P, ((k - 1) % P) + 1, FALSE)
             n == Len(es) * P
  <2>1. n \in Nat
    BY <1>p
  <2>2. ts = [k \in 1 .. n |-> task(k)]
    BY <1>1 DEF PrefetchTasks
  <2>3. \A k : /\ task(k).expert = <<l, es[((k - 1) \div P) + 1]>>
               /\ task(k).start = (k - 1) % P /\ task(k).stop = ((k - 1) % P) + 1
    BY DEF Task
  <2> HIDE DEF n, task, ts
  <2>4. Len(ts) = n /\ i \in 1 .. n /\ \A k \in 1 .. n : ts[k] = task(k)
    BY <2>1, <2>2 DEF ts
  <2>5. ts[i].expert[1] = l
    BY <2>3, <2>4
  <2>6. i - 1 \in Nat /\ (i - 1) % P \in 0 .. (P - 1)
    BY <1>p, <2>1, <2>4
  <2>7. ASSUME ts[i].start # 0
        PROVE  i # 1 /\ ts[i - 1].expert = ts[i].expert /\ ts[i - 1].stop >= ts[i].start
    <3>1. (i - 1) % P # 0
      BY <2>3, <2>4, <2>7
    <3>2. /\ i - 1 # 0 /\ ((i - 1) - 1) \div P = (i - 1) \div P
          /\ ((i - 1) - 1) % P = ((i - 1) % P) - 1
      BY <1>p, <2>6, <3>1, DivModPrevious
    <3>3. i # 1 /\ i - 1 \in 1 .. n
      BY <2>1, <2>4, <3>2
    <3>4. ts[i - 1] = task(i - 1) /\ ts[i] = task(i)
      BY <2>4, <3>3
    <3>5. ts[i - 1].expert = ts[i].expert
      BY <2>3, <3>2, <3>4
    <3>6. ts[i - 1].stop = (i - 1) % P /\ ts[i].start = (i - 1) % P
      <4>1. ts[i - 1].stop = (((i - 1) - 1) % P) + 1
        BY <2>3, <3>4
      <4> QED BY <2>3, <2>6, <3>2, <3>4, <4>1
    <3> QED BY <2>6, <3>3, <3>5, <3>6
  <2>8. WholeExperts => ts[i].start = 0 /\ ts[i].stop = P
    <3> SUFFICES ASSUME P = 1 PROVE ts[i].start = 0 /\ ts[i].stop = P
      BY <1>1 DEF WholeExperts
    <3>1. (i - 1) % P = 0
      BY <2>6
    <3> QED BY <2>3, <2>4, <3>1
  <2> QED BY <2>5, <2>7, <2>8 DEF ts
<1>2. CASE ~ChunkPrefetch
  <2>1. ts = [k \in 1 .. Len(es) |-> Task(<<l, es[k]>>, 0, P, FALSE)]
    BY <1>2 DEF PrefetchTasks
  <2>2. Len(ts) = Len(es)
    BY <1>p, <2>1
  <2>3. ts[i] = Task(<<l, es[i]>>, 0, P, FALSE)
    BY <2>1, <2>2
  <2> QED BY <2>3 DEF Task
<1> QED BY <1>1, <1>2

-----------------------------------------------------------------------------
(* Steps that copy nothing and pop nothing. *)
LEMMA PartsFrame ==
  ASSUME UNCHANGED <<precise_job_queue, gpu_data, num_ready>>, current'.expert = current.expert,
         current'.stop = current.stop,
         \A l \in Layer : per_layer_job_queues'[l] \in {per_layer_job_queues[l], << >>}
  PROVE  /\ PreciseParts => PreciseParts'
         /\ LayerParts => LayerParts'
         /\ WholeJobs /\ (current' # NoTask => current # NoTask) => WholeJobs'
<1>1. \A f, n : HasChunks(f, n)' <=> HasChunks(f, n)
  BY DEF HasChunks, Missing
<1>2. PreciseParts => PreciseParts'
  BY <1>1 DEF PreciseParts, Missing
<1>3. LayerParts => LayerParts'
  BY <1>1 DEF LayerParts
<1>4. WholeJobs /\ (current' # NoTask => current # NoTask) => WholeJobs'
  BY DEF WholeJobs
<1> QED BY <1>2, <1>3, <1>4

(* The preempt handlers: a job for the rest of e is behind jobs that need no buffer.          *)
LEMMA PreemptParts ==
  ASSUME TypeInv, BuffersPartitioned, NEW e \in Expert, NEW behind, NEW line, line # "none",
         PreemptExpert(e, behind, line),
         UNCHANGED <<gpu_data, num_ready, per_layer_job_queues>>,
         ~behind => \A b \in 1 .. Len(precise_job_queue) : ~Missing(precise_job_queue[b].expert)
  PROVE  /\ PreciseParts => PreciseParts'
         /\ LayerParts => LayerParts'
         /\ WholeJobs => WholeJobs'
<1> DEFINE q == precise_job_queue
<1>t. q \in Seq(CopyTask) /\ current \in CopyTask \cup {NoTask} /\ Len(q) \in Nat
  BY DEF TypeInv, TypeOK
<1>m. current'.expert = current.expert /\ current'.stop = current.stop
  BY PreemptMoves
<1>h. \A f, n : HasChunks(f, n)' <=> HasChunks(f, n)
  BY <1>m DEF HasChunks, Missing
<1>n. current' # NoTask => current # NoTask
  <2>1. current' = current \/ e = current.expert
    BY PreemptMoves
  <2>2. e # NoTask.expert
    BY ConstantsAssumption DEF NoTask
  <2> QED BY <2>1, <2>2
<1>1. \/ q' = q
      \/ \E start : /\ q' = Append(q, Task(e, start, P, TRUE))
                    /\ \/ start = 0
                       \/ start = current.stop /\ e = current.expert /\ IsInCache(e) /\ ~behind /\ current.stop # P
                       \/ start = num_ready[e] /\ IsInCache(e) /\ ~behind /\ num_ready[e] # P
  BY DEF PreemptExpert, AddPrecise
<1>2. LayerParts => LayerParts'
  BY <1>h DEF LayerParts
<1>3. CASE q' = q
  <2>1. PreciseParts => PreciseParts'
    BY <1>h, <1>3 DEF PreciseParts, Missing
  <2>2. WholeJobs => WholeJobs'
    BY <1>3, <1>m, <1>n DEF WholeJobs
  <2> QED BY <1>2, <2>1, <2>2
<1>4. ASSUME NEW start, q' = Append(q, Task(e, start, P, TRUE)),
             \/ start = 0
             \/ start = current.stop /\ e = current.expert /\ IsInCache(e) /\ ~behind /\ current.stop # P
             \/ start = num_ready[e] /\ IsInCache(e) /\ ~behind /\ num_ready[e] # P
      PROVE  /\ PreciseParts => PreciseParts'
             /\ WholeJobs => WholeJobs'
  <2> DEFINE t == Task(e, start, P, TRUE)
  <2>1. t.expert = e /\ t.start = start
    BY DEF Task
  <2> HIDE DEF t
  <2>2. /\ Len(q') = Len(q) + 1 /\ q'[Len(q) + 1] = t
        /\ \A a \in 1 .. Len(q) : q'[a] = q[a]
    <3>1. q' = Append(q, t)
      BY <1>4 DEF t
    <3> QED BY <1>t, <3>1
  <2>3. \A a \in 1 .. Len(q') : a \in 1 .. Len(q) \/ a = Len(q) + 1
    BY <1>t, <2>2
  <2>4. start # 0 => /\ HasChunks(e, start)
                     /\ \A b \in 1 .. Len(q) : ~Missing(q[b].expert)
    <3>1. IsInCache(e) => ~Missing(e)
      BY DEF IsInCache, Missing, BuffersPartitioned
    <3>2. num_ready[e] >= num_ready[e] /\ (e = current.expert => current.stop >= current.stop)
      <4>1. num_ready[e] \in Nat
        BY ConstantsAssumption DEF TypeInv, TypeOK, P
      <4>2. e = current.expert => current.stop \in Nat
        BY <1>t, ConstantsAssumption DEF CopyTask, NoTask, P
      <4> QED BY <4>1, <4>2
    <3> QED BY <1>4, <3>1, <3>2 DEF HasChunks
  <2>5. ASSUME PreciseParts PROVE PreciseParts'
    <3> SUFFICES ASSUME NEW a \in 1 .. Len(q'), q'[a].start # 0
                 PROVE  /\ HasChunks(q'[a].expert, q'[a].start)
                        /\ \A b \in 1 .. (a - 1) : ~Missing(q'[b].expert)
      BY <1>h DEF PreciseParts, Missing
    <3>1. CASE a \in 1 .. Len(q)
      <4>1. \A b \in 1 .. (a - 1) : b \in 1 .. Len(q) /\ q'[b] = q[b]
        BY <1>t, <2>2, <3>1
      <4>2. q'[a] = q[a]
        BY <2>2, <3>1
      <4> QED BY <2>5, <3>1, <4>1, <4>2 DEF PreciseParts
    <3>2. CASE a = Len(q) + 1
      <4>1. \A b \in 1 .. (a - 1) : b \in 1 .. Len(q) /\ q'[b] = q[b]
        BY <1>t, <2>2, <3>2
      <4> QED BY <2>1, <2>2, <2>4, <3>2, <4>1
    <3> QED BY <2>3, <3>1, <3>2
  <2>6. ASSUME WholeJobs PROVE WholeJobs'
    <3>1. start = 0
      <4>1. e = current.expert => current # NoTask
        BY ConstantsAssumption DEF NoTask
      <4> QED BY <1>4, <2>6, <4>1 DEF WholeJobs
    <3>2. \A a \in 1 .. Len(q') : q'[a].start = 0
      BY <2>1, <2>2, <2>3, <2>6, <3>1 DEF WholeJobs
    <3> QED BY <1>m, <1>n, <2>6, <3>2 DEF WholeJobs
  <2> QED BY <2>5, <2>6
<1> QED BY <1>1, <1>2, <1>3, <1>4

(* FetchDoneTask: the chunks in flight have arrived. *)
LEMMA FetchDoneParts ==
  ASSUME TypeInv, WeightsInv, SchedFetchDone
  PROVE  /\ PreciseParts => PreciseParts'
         /\ LayerParts => LayerParts'
         /\ WholeJobs => WholeJobs'
<1>t. num_ready \in [Expert -> 0 .. P] /\ P \in Nat
  BY ConstantsAssumption DEF TypeInv, TypeOK, P
<1>1. InFlight
  <2>1. squeue \in Seq(Kind)
    BY DEF TypeInv, TypeOK, Kind
  <2>2. InQueue("FetchDone")
    BY <2>1, TakeInQueue DEF SchedFetchDone
  <2> QED BY <2>2 DEF InFlight
<1>2. /\ current \in CopyTask /\ current.expert \in Expert /\ current.stop \in 0 .. P
      /\ num_ready[current.expert] <= current.stop
  BY <1>1 DEF WeightsInv, CurrentInv, CopyTask
<1>3. /\ num_ready' = [num_ready EXCEPT ![current.expert] = current.stop] /\ current' = NoTask
      /\ UNCHANGED <<gpu_data, precise_job_queue, per_layer_job_queues>>
  BY DEF SchedFetchDone
<1>4. \A f \in Expert, n \in Nat : HasChunks(f, n) => HasChunks(f, n)'
  <2> SUFFICES ASSUME NEW f \in Expert, NEW n \in Nat, HasChunks(f, n) PROVE num_ready'[f] >= n
    BY <1>3 DEF HasChunks, Missing
  <2>1. CASE f = current.expert
    <3>1. num_ready'[f] = current.stop
      BY <1>3, <1>t, <2>1
    <3> QED BY <1>t, <1>2, <2>1, <3>1 DEF HasChunks
  <2>2. CASE f # current.expert
    BY <1>3, <1>t, <2>2 DEF HasChunks
  <2> QED BY <2>1, <2>2
<1>5. PreciseParts => PreciseParts'
  <2>1. precise_job_queue \in Seq(CopyTask)
    BY DEF TypeInv, TypeOK
  <2>2. \A a \in 1 .. Len(precise_job_queue) : precise_job_queue[a] \in CopyTask
    BY <2>1
  <2>3. \A a \in 1 .. Len(precise_job_queue) :
          precise_job_queue[a].expert \in Expert /\ precise_job_queue[a].start \in Nat
    BY <1>t, <2>2 DEF CopyTask
  <2> QED BY <1>3, <1>4, <2>3 DEF PreciseParts, Missing
<1>6. LayerParts => LayerParts'
  <2>1. \A l \in Layer : per_layer_job_queues[l] \in Seq(CopyTask)
    BY DEF TypeInv, TypeOK
  <2>2. \A l \in Layer : \A a \in 1 .. Len(per_layer_job_queues[l]) : per_layer_job_queues[l][a] \in CopyTask
    BY <2>1
  <2>3. \A l \in Layer : \A a \in 1 .. Len(per_layer_job_queues[l]) :
          per_layer_job_queues[l][a].expert \in Expert /\ per_layer_job_queues[l][a].start \in Nat
    BY <1>t, <2>2 DEF CopyTask
  <2> QED BY <1>3, <1>4, <2>3 DEF LayerParts
<1>7. WholeJobs => WholeJobs'
  <2> SUFFICES ASSUME WholeJobs PROVE WholeJobs'
    OBVIOUS
  <2>1. current.stop = P
    <3>1. current # NoTask
      BY <1>2, ConstantsAssumption DEF NoTask
    <3> QED BY <3>1 DEF WholeJobs
  <2>2. \A f \in Expert : num_ready'[f] \in {0, P}
    BY <1>3, <1>t, <2>1 DEF WholeJobs
  <2> QED BY <1>3, <2>2 DEF WholeJobs
<1> QED BY <1>5, <1>6, <1>7

(* send_one_job: no chunk is lost but those of an evicted expert of the same slot.            *)
LEMMA SendParts ==
  ASSUME TypeInv, BuffersPartitioned, WeightsInv, PreciseInv, Take("Idle"), NEW t \in CopyTask,
         SendOneJob(t), t.start = 0 \/ HasChunks(t.expert, t.start)
  PROVE  /\ aborted' \notin {"prefetcher.cpp:623", "prefetcher.cpp:649"} \/ aborted' = aborted
         /\ \A f \in Expert, n \in Nat :
              HasChunks(f, n) /\ (~Missing(t.expert) \/ SlotOf(f) # SlotOf(t.expert)) => WillHave(f, n)
         /\ \A n \in Nat : n <= t.stop => WillHave(t.expert, n)
<1> DEFINE e == t.expert
<1>t. /\ num_ready \in [Expert -> 0 .. P] /\ P \in Nat \ {0} /\ e \in Expert /\ t.stop \in 0 .. P
      /\ gpu_data \in [Expert -> Buffer \cup {NoBuffer}]
  BY ConstantsAssumption DEF TypeInv, TypeOK, P, CopyTask
<1>q. /\ current = NoTask /\ \A f \in Expert : f # NoTask.expert
      /\ \A f \in Expert : Missing(f) => expert_status[f] = "Idle" /\ num_ready[f] = 0
  <2>1. \A f \in Expert : f # NoTask.expert
    BY ConstantsAssumption DEF NoTask
  <2> QED BY <2>1, IdleQuiet DEF PreciseInv, WeightsInv, EvictedInv, Missing
<1>h. \A f \in Expert, n \in Nat : HasChunks(f, n) <=> ~Missing(f) /\ num_ready[f] >= n
  BY <1>q DEF HasChunks
<1>1. CASE SendMissed(t)
  <2>1. Missing(e) /\ t.start = 0 /\ num_ready[e] = 0
    BY <1>1, <1>q, <1>t DEF SendMissed, HasChunks, Missing
  <2>2. CASE TakeUnused(e) /\ Fetch(t, NoExpert)
    <3> DEFINE b == <<SlotOf(e), unused_mems[SlotOf(e)]>>
    <3>1. /\ num_ready' = num_ready /\ current' = t /\ gpu_data' = [gpu_data EXCEPT ![e] = b]
          /\ aborted' \in {aborted, "prefetcher.cpp:628"}
      BY <2>2 DEF TakeUnused, CheckedTransfer, Fetch
    <3>2. b # NoBuffer
      <4>1. SlotOf(e) \in Slot
        BY <1>t, SlotOfType
      <4>2. /\ unused_mems[SlotOf(e)] \in Nat /\ unused_mems[SlotOf(e)] > 0
            /\ SlotLen[SlotOf(e)] \in Nat
            /\ unused_mems[SlotOf(e)] <= SlotLen[SlotOf(e)]
        BY <2>2, <4>1, ConstantsAssumption DEF TypeInv, TypeOK, IndexInv, TakeUnused
      <4>3. b \in Buffer
        BY <4>1, <4>2 DEF Buffer
      <4> QED BY <4>3, ConstantsAssumption
    <3> HIDE DEF b
    <3>3. \A f \in Expert, n \in Nat : HasChunks(f, n) => WillHave(f, n)
      BY <1>h, <1>t, <2>1, <3>1 DEF HasChunks, WillHave, Missing
    <3>4. \A n \in Nat : n <= t.stop => WillHave(e, n)
      BY <1>t, <3>1, <3>2 DEF HasChunks, WillHave, Missing
    <3> QED BY <3>1, <3>3, <3>4
  <2>3. ASSUME NEW v \in InSlot(e), Evict(e, v), NEW w, Fetch(t, w)
        PROVE  /\ aborted' \notin {"prefetcher.cpp:623", "prefetcher.cpp:649"} \/ aborted' = aborted
               /\ \A f \in Expert, n \in Nat :
                    HasChunks(f, n) /\ SlotOf(f) # SlotOf(e) => WillHave(f, n)
               /\ \A n \in Nat : n <= t.stop => WillHave(e, n)
    <3>1. /\ v \in Expert /\ SlotOf(v) = SlotOf(e) /\ prefetched_experts[v] = gpu_data[v] /\ gpu_data[v] # NoBuffer
      BY DEF InSlot, IsInCache, BuffersPartitioned
    <3>2. /\ num_ready' = [num_ready EXCEPT ![v] = 0] /\ current' = t
          /\ gpu_data' = [gpu_data EXCEPT ![v] = NoBuffer, ![e] = gpu_data[v]]
          /\ aborted' \in {aborted, "cache.cpp:301", "cache.cpp:304", "prefetcher.cpp:628"}
      BY <2>3, <3>1 DEF Evict, WithoutChunks, Fetch
    <3>3. e # v
      BY <2>1, <3>1 DEF Missing
    <3>4. \A f \in Expert, n \in Nat : HasChunks(f, n) /\ SlotOf(f) # SlotOf(e) => WillHave(f, n)
      <4> SUFFICES ASSUME NEW f \in Expert, NEW n \in Nat, HasChunks(f, n), SlotOf(f) # SlotOf(e)
                   PROVE  WillHave(f, n)
        OBVIOUS
      <4>1. f # v /\ f # e
        BY <3>1
      <4>2. gpu_data'[f] = gpu_data[f] /\ num_ready'[f] = num_ready[f]
        BY <1>t, <3>2, <4>1
      <4> QED BY <1>h, <4>2 DEF HasChunks, WillHave, Missing
    <3>5. \A n \in Nat : n <= t.stop => WillHave(e, n)
      <4>1. gpu_data'[e] # NoBuffer
        BY <1>t, <3>1, <3>2, <3>3
      <4> QED BY <1>t, <3>2, <4>1 DEF HasChunks, WillHave, Missing
    <3> QED BY <3>2, <3>4, <3>5
  <2> QED BY <1>1, <2>1, <2>2, <2>3 DEF SendMissed
<1>2. CASE SendDuplicate(t)
  <2>1. /\ UNCHANGED <<gpu_data, num_ready>> /\ ~Missing(e) /\ num_ready[e] >= t.stop
        /\ aborted' \in {aborted, "prefetcher.cpp:641"}
    BY <1>2 DEF SendDuplicate, Missing
  <2>2. \A f \in Expert, n \in Nat : HasChunks(f, n) => WillHave(f, n)
    BY <1>h, <2>1 DEF HasChunks, WillHave, Missing
  <2>3. \A n \in Nat : n <= t.stop => HasChunks(e, n)
    BY <1>h, <1>t, <2>1
  <2> QED BY <1>t, <2>1, <2>2, <2>3
<1>3. CASE SendRest(t)
  <2>1. /\ UNCHANGED <<gpu_data, num_ready>> /\ ~Missing(e)
        /\ current' = [t EXCEPT !.start = num_ready[e]]
        /\ aborted' = IF num_ready[e] < t.start THEN "prefetcher.cpp:649" ELSE aborted
    BY <1>3 DEF SendRest, Fetch, Missing
  <2>2. ~(num_ready[e] < t.start)
    <3>1. t.start \in Nat
      BY <1>t DEF CopyTask
    <3>2. num_ready[e] >= t.start
      BY <1>h, <1>t, <3>1
    <3> QED BY <1>t, <3>1, <3>2
  <2>3. \A f \in Expert, n \in Nat : HasChunks(f, n) => WillHave(f, n)
    BY <1>h, <2>1 DEF HasChunks, WillHave, Missing
  <2>4. current'.expert = e /\ current'.stop = t.stop
    BY <2>1 DEF CopyTask
  <2>5. \A n \in Nat : n <= t.stop => WillHave(e, n)
    BY <1>t, <2>1, <2>4 DEF HasChunks, WillHave, Missing
  <2> QED BY <2>1, <2>2, <2>3, <2>5
<1> QED BY <1>1, <1>2, <1>3 DEF SendOneJob

(* Where precise jobs wait, the queue of the hook's layer has been dropped. *)
LEMMA AskedDropped ==
  ASSUME TypeInv, BudgetInv, QueuesInv, spc = "ready", AskedExperts # {}
  PROVE  per_layer_job_queues[layer] = << >>
<1>1. Asked # {}
  BY DEF AskedExperts
<1>2. hpc \in {"expert", "wait"} /\ ~InQueue("Preempt")
  BY <1>1 DEF Asked, BudgetInv, PreemptInv
<1>3. layer \in Layer
  BY DEF TypeInv, TypeOK
<1> QED BY <1>2, <1>3 DEF QueuesInv, Open, Unpreempted

(* The job that is popped can start. *)
Startable(t) == t.start = 0 \/ HasChunks(t.expert, t.start)

LEMMA HeadLayer ==
  ASSUME TypeInv, NEW l \in Layer, per_layer_job_queues[l] # << >>
  PROVE  LET q == per_layer_job_queues[l]
             rest == Tail(q)
         IN /\ Len(q) \in Nat \ {0} /\ 1 \in 1 .. Len(q) /\ Head(q) = q[1] /\ Head(q) \in CopyTask
            /\ Len(rest) = Len(q) - 1
            /\ \A a \in 1 .. Len(rest) : rest[a] = q[a + 1] /\ a + 1 \in 1 .. Len(q)
            /\ \A a \in 1 .. Len(q) : /\ q[a] \in CopyTask /\ q[a].expert \in Expert
                                      /\ q[a].start \in Nat /\ q[a].stop \in Nat
<1> DEFINE q == per_layer_job_queues[l]
<1>1. q \in Seq(CopyTask)
  BY DEF TypeInv, TypeOK
<1>2. /\ Len(q) \in Nat \ {0} /\ Len(Tail(q)) = Len(q) - 1
      /\ \A i \in 1 .. Len(Tail(q)) : Tail(q)[i] = q[i + 1]
      /\ Head(q) = q[1] /\ Head(q) \in CopyTask
  BY <1>1, HeadTail
<1>3. 1 \in 1 .. Len(q) /\ \A i \in 1 .. Len(Tail(q)) : i + 1 \in 1 .. Len(q)
  BY <1>2
<1>4. \A a \in 1 .. Len(q) : q[a] \in CopyTask
  BY <1>1
<1>5. P \in Nat
  BY ConstantsAssumption DEF P
<1>6. \A a \in 1 .. Len(q) : q[a].expert \in Expert /\ q[a].start \in Nat /\ q[a].stop \in Nat
  BY <1>4, <1>5 DEF CopyTask
<1> QED BY <1>2, <1>3, <1>4, <1>6

LEMMA PreciseTyped ==
  ASSUME TypeInv
  PROVE  \A a \in 1 .. Len(precise_job_queue) :
           /\ precise_job_queue[a] \in CopyTask /\ precise_job_queue[a].expert \in Expert
           /\ precise_job_queue[a].start \in Nat
<1>1. precise_job_queue \in Seq(CopyTask)
  BY DEF TypeInv, TypeOK
<1>2. \A a \in 1 .. Len(precise_job_queue) : precise_job_queue[a] \in CopyTask
  BY <1>1
<1>3. P \in Nat
  BY ConstantsAssumption DEF P
<1> QED BY <1>2, <1>3 DEF CopyTask

LEMMA PopPreciseParts ==
  ASSUME TypeInv, BuffersPartitioned, BudgetInv, WeightsInv, PinInv, PreciseInv, QueuesInv,
         PerLayerCache, PreciseParts, LayerParts, Take("Idle"), PopPrecise
  PROVE  Startable(Head(precise_job_queue)) /\ PreciseParts' /\ LayerParts'
<1> DEFINE q == precise_job_queue
           t == Head(q)
<1>q. /\ Len(q) \in Nat \ {0} /\ 1 \in 1 .. Len(q) /\ t = q[1] /\ t \in CopyTask
      /\ Len(q') = Len(q) - 1
      /\ \A a \in 1 .. Len(q') : q'[a] = q[a + 1] /\ a + 1 \in 1 .. Len(q)
      /\ t.expert \in Wanted /\ t.expert \in Expert
  BY PopQueue
<1>s. SendOneJob(t) /\ UNCHANGED per_layer_job_queues
  BY DEF PopPrecise
<1> HIDE DEF t
<1>1. Startable(t)
  BY <1>q DEF PreciseParts, Startable
<1>2. \A f \in Expert, n \in Nat :
        HasChunks(f, n) /\ (~Missing(t.expert) \/ SlotOf(f) # SlotOf(t.expert)) => WillHave(f, n)
  BY <1>q, <1>s, <1>1, SendParts DEF Startable
<1>3. PreciseParts'
  <2> SUFFICES ASSUME NEW a \in 1 .. Len(q'), q'[a].start # 0
               PROVE  /\ WillHave(q'[a].expert, q'[a].start)
                      /\ \A b \in 1 .. (a - 1) : gpu_data'[q'[b].expert] # NoBuffer
    BY DEF PreciseParts, HasChunks, WillHave, Missing
  <2>1. /\ q'[a] = q[a + 1] /\ a + 1 \in 1 .. Len(q)
        /\ q[a + 1].expert \in Expert /\ q[a + 1].start \in Nat
    BY <1>q, PreciseTyped
  <2>2. /\ HasChunks(q[a + 1].expert, q[a + 1].start)
        /\ \A b \in 1 .. a : ~Missing(q[b].expert)
    <3>1. \A b \in 1 .. a : b \in 1 .. ((a + 1) - 1)
      BY <1>q
    <3> QED BY <2>1, <3>1 DEF PreciseParts
  <2>3. ~Missing(t.expert)
    <3>1. 1 \in 1 .. a
      BY <1>q
    <3> QED BY <1>q, <2>2, <3>1
  <2>4. WillHave(q'[a].expert, q'[a].start)
    BY <1>2, <2>1, <2>2, <2>3
  <2>5. gpu_data' = gpu_data
    BY <1>q, <1>s, <2>3, SentJobMoves
  <2>6. \A b \in 1 .. (a - 1) : q'[b] = q[b + 1] /\ b + 1 \in 1 .. a
    BY <1>q
  <2> QED BY <2>2, <2>4, <2>5, <2>6 DEF Missing
<1>4. t.expert[1] = layer /\ per_layer_job_queues[layer] = << >>
  <2>1. t.expert \in AskedExperts
    BY <1>q DEF PinInv
  <2>2. t.expert[1] = layer
    BY <2>1 DEF AskedExperts
  <2> QED BY <2>1, <2>2, AskedDropped DEF Take
<1>5. LayerParts'
  <2> SUFFICES ASSUME NEW l \in Layer, NEW a \in 1 .. Len(per_layer_job_queues[l]), a = 1,
                      per_layer_job_queues[l][a].start # 0
               PROVE  WillHave(per_layer_job_queues[l][a].expert, per_layer_job_queues[l][a].start)
    BY <1>s DEF LayerParts, HasChunks, WillHave, Missing
  <2> DEFINE x == per_layer_job_queues[l][a]
  <2>1. per_layer_job_queues[l] # << >>
    OBVIOUS
  <2>2. x.expert \in Expert /\ x.start \in Nat
    BY <2>1, HeadLayer
  <2>3. HasChunks(x.expert, x.start) /\ x.expert[1] = l
    BY DEF LayerParts
  <2>4. SlotOf(x.expert) # SlotOf(t.expert)
    BY <1>4, <2>1, <2>3 DEF SlotOf
  <2> QED BY <1>2, <2>2, <2>3, <2>4
<1> QED BY <1>1, <1>3, <1>5 DEF t

LEMMA PopLayerParts ==
  ASSUME TypeInv, BuffersPartitioned, WeightsInv, PreciseInv, PerLayerCache, LayerParts,
         Take("Idle"), NEW l \in Layer, PopLayer(l)
  PROVE  Startable(Head(per_layer_job_queues[l])) /\ PreciseParts' /\ LayerParts'
<1> DEFINE q == per_layer_job_queues[l]
           t == Head(q)
           rest == Tail(q)
<1>0. q # << >> /\ SendOneJob(t) /\ precise_job_queue' = << >>
  BY DEF PopLayer
<1>q. /\ Len(q) \in Nat \ {0} /\ 1 \in 1 .. Len(q) /\ t = q[1] /\ t \in CopyTask
      /\ Len(rest) = Len(q) - 1
      /\ \A a \in 1 .. Len(rest) : rest[a] = q[a + 1] /\ a + 1 \in 1 .. Len(q)
      /\ \A a \in 1 .. Len(q) : q[a].expert \in Expert /\ q[a].start \in Nat /\ q[a].stop \in Nat
  BY <1>0, HeadLayer
<1>s. /\ \A k \in Layer : k # l => per_layer_job_queues'[k] = per_layer_job_queues[k]
      /\ per_layer_job_queues'[l] = rest
  <2>1. per_layer_job_queues \in [Layer -> Seq(CopyTask)]
    BY DEF TypeInv, TypeOK
  <2>2. per_layer_job_queues' = [per_layer_job_queues EXCEPT ![l] = Tail(per_layer_job_queues[l])]
    BY DEF PopLayer
  <2> QED BY <2>1, <2>2
<1>l. \A a \in 1 .. Len(q) :
        /\ q[a].expert[1] = l
        /\ q[a].start # 0 => IF a = 1 THEN HasChunks(q[a].expert, q[a].start)
                             ELSE q[a - 1].expert = q[a].expert /\ q[a - 1].stop >= q[a].start
  BY DEF LayerParts
<1> HIDE DEF t, rest
<1>1. Startable(t)
  BY <1>q, <1>l DEF Startable
<1>2. /\ \A f \in Expert, n \in Nat : HasChunks(f, n) /\ SlotOf(f) # SlotOf(t.expert) => WillHave(f, n)
      /\ \A n \in Nat : n <= t.stop => WillHave(t.expert, n)
  BY <1>0, <1>q, <1>1, SendParts DEF Startable
<1>3. PreciseParts'
  BY <1>0 DEF PreciseParts
<1>4. ASSUME NEW a \in 1 .. Len(rest)
      PROVE  /\ rest[a].expert[1] = l
             /\ rest[a].start # 0 => IF a = 1 THEN WillHave(rest[a].expert, rest[a].start)
                                     ELSE rest[a - 1].expert = rest[a].expert /\ rest[a - 1].stop >= rest[a].start
  <2>1. /\ rest[a] = q[a + 1] /\ a + 1 \in 1 .. Len(q) /\ a + 1 # 1 /\ (a + 1) - 1 = a
        /\ a \in 1 .. Len(q)
    BY <1>q
  <2>2. /\ rest[a].expert[1] = l
        /\ rest[a].start # 0 => q[a].expert = rest[a].expert /\ q[a].stop >= rest[a].start
    BY <1>l, <2>1
  <2>3. CASE a = 1
    <3>1. rest[a].start # 0 => WillHave(rest[a].expert, rest[a].start)
      BY <1>q, <1>2, <2>1, <2>2, <2>3
    <3> QED BY <2>2, <2>3, <3>1
  <2>4. CASE a # 1
    <3>1. a - 1 \in 1 .. Len(rest) /\ rest[a - 1] = q[a]
      <4>1. a - 1 \in 1 .. Len(rest) /\ (a - 1) + 1 = a
        BY <1>q, <2>4
      <4> QED BY <1>q, <4>1
    <3> QED BY <2>2, <2>4, <3>1
  <2> QED BY <2>3, <2>4
<1>5. ASSUME NEW k \in Layer, k # l, NEW a \in 1 .. Len(per_layer_job_queues[k]),
             per_layer_job_queues[k][a].start # 0, a = 1
      PROVE  WillHave(per_layer_job_queues[k][a].expert, per_layer_job_queues[k][a].start)
  <2> DEFINE x == per_layer_job_queues[k][a]
  <2>1. per_layer_job_queues[k] # << >>
    OBVIOUS
  <2>2. x.expert \in Expert /\ x.start \in Nat
    BY <2>1, HeadLayer
  <2>3. HasChunks(x.expert, x.start) /\ x.expert[1] = k
    BY <1>5 DEF LayerParts
  <2>4. SlotOf(x.expert) # SlotOf(t.expert)
    BY <1>5, <1>l, <1>q, <2>3 DEF SlotOf
  <2> QED BY <1>2, <2>2, <2>3, <2>4
<1>6. LayerParts'
  <2> SUFFICES ASSUME NEW k \in Layer, NEW a \in 1 .. Len(per_layer_job_queues'[k])
               PROVE  LET x == per_layer_job_queues'[k][a]
                          before == per_layer_job_queues'[k][a - 1]
                      IN /\ x.expert[1] = k
                         /\ x.start # 0 => IF a = 1 THEN WillHave(x.expert, x.start)
                                           ELSE before.expert = x.expert /\ before.stop >= x.start
    BY DEF LayerParts, HasChunks, WillHave, Missing
  <2>1. CASE k = l
    BY <1>s, <1>4, <2>1
  <2>2. CASE k # l
    <3>1. per_layer_job_queues'[k] = per_layer_job_queues[k]
      BY <1>s, <2>2
    <3> QED BY <1>5, <2>2, <3>1 DEF LayerParts
  <2> QED BY <2>1, <2>2
<1> QED BY <1>1, <1>3, <1>6 DEF t

PartsInv == IF WholeExperts THEN WholeJobs ELSE PreciseParts /\ LayerParts

(* IdleTask: the job it pops can start, and so can what it leaves. *)
LEMMA IdleParts ==
  ASSUME PartsStay, TypeInv, BuffersPartitioned, BudgetInv, WeightsInv, PinInv, PreciseInv,
         QueuesInv, PartsInv, SchedIdle
  PROVE  /\ PartsInv'
         /\ PopPrecise => Startable(Head(precise_job_queue))
         /\ \A l \in Layer : PopLayer(l) => Startable(Head(per_layer_job_queues[l]))
<1>s. Take("Idle") /\ (PopPrecise \/ \E l \in Layer : PopLayer(l))
  BY DEF SchedIdle
<1>1. CASE ~WholeExperts
  BY <1>1, <1>s, PopPreciseParts, PopLayerParts DEF PartsStay, PartsInv
<1>2. CASE WholeExperts
  <2> DEFINE q == precise_job_queue
             lq == per_layer_job_queues
  <2>w. WholeJobs
    BY <1>2 DEF PartsInv
  <2>c. current = NoTask
    BY <1>s, IdleQuiet DEF PreciseInv
  <2>t. lq \in [Layer -> Seq(CopyTask)]
    BY DEF TypeInv, TypeOK
  <2>1. CASE PopPrecise
    <3>1. /\ Len(q) \in Nat \ {0} /\ 1 \in 1 .. Len(q) /\ Head(q) = q[1] /\ Head(q) \in CopyTask
          /\ \A a \in 1 .. Len(q') : q'[a] = q[a + 1] /\ a + 1 \in 1 .. Len(q)
      BY <2>1, PopQueue
    <3>2. SendOneJob(Head(q)) /\ UNCHANGED lq /\ q # << >>
      BY <2>1 DEF PopPrecise
    <3>3. Head(q).start = 0 /\ Head(q).stop = P
      BY <2>w, <3>1 DEF WholeJobs, PreciseInv
    <3>4. /\ \A f \in Expert : num_ready'[f] \in {num_ready[f], 0}
          /\ current' \in {current, NoTask} \/ current'.stop = P
      BY <1>s, <3>1, <3>2, <3>3, SentJobMoves
    <3>5. WholeJobs'
      BY <2>w, <2>c, <3>1, <3>2, <3>4 DEF WholeJobs
    <3>6. \A l \in Layer : ~PopLayer(l)
      BY <3>2 DEF PopLayer
    <3> QED BY <1>2, <3>3, <3>5, <3>6 DEF PartsInv, Startable
  <2>2. ASSUME NEW l \in Layer, PopLayer(l)
        PROVE  WholeJobs' /\ Startable(Head(lq[l]))
    <3>1. lq[l] # << >> /\ SendOneJob(Head(lq[l])) /\ UNCHANGED q
      BY <2>2 DEF PopLayer
    <3>2. /\ 1 \in 1 .. Len(lq[l]) /\ Head(lq[l]) = lq[l][1] /\ Head(lq[l]) \in CopyTask
          /\ \A a \in 1 .. Len(Tail(lq[l])) : Tail(lq[l])[a] = lq[l][a + 1] /\ a + 1 \in 1 .. Len(lq[l])
      BY <3>1, HeadLayer
    <3>3. Head(lq[l]).start = 0 /\ Head(lq[l]).stop = P
      BY <2>w, <3>2 DEF WholeJobs
    <3>4. /\ \A f \in Expert : num_ready'[f] \in {num_ready[f], 0}
          /\ current' \in {current, NoTask} \/ current'.stop = P
      BY <1>s, <3>1, <3>2, <3>3, SentJobMoves
    <3>5. /\ \A k \in Layer : k # l => lq'[k] = lq[k]
          /\ lq'[l] = Tail(lq[l])
      <4>1. lq' = [lq EXCEPT ![l] = Tail(lq[l])]
        BY <2>2 DEF PopLayer
      <4> QED BY <2>t, <4>1
    <3>6. ASSUME NEW k \in Layer, NEW a \in 1 .. Len(lq'[k])
          PROVE  lq'[k][a].start = 0 /\ lq'[k][a].stop = P
      <4>1. CASE k = l
        <5>1. a \in 1 .. Len(Tail(lq[l])) /\ lq'[k][a] = Tail(lq[l])[a]
          BY <3>5, <4>1
        <5> QED BY <2>w, <3>2, <5>1 DEF WholeJobs
      <4>2. CASE k # l
        <5>1. lq'[k] = lq[k]
          BY <3>5, <4>2
        <5> QED BY <2>w, <5>1 DEF WholeJobs
      <4> QED BY <4>1, <4>2
    <3>7. WholeJobs'
      BY <2>w, <2>c, <3>1, <3>4, <3>6 DEF WholeJobs
    <3> QED BY <3>3, <3>7 DEF Startable
  <2> QED BY <1>2, <1>s, <2>1, <2>2 DEF PartsInv
<1> QED BY <1>1, <1>2

(* PrefetchLayerTask finds the queue of its layer empty. *)
LEMMA PrefetchFindsEmpty ==
  ASSUME TypeInv, JobAhead, QueuesInv, SchedPrefetchLayer
  PROVE  pnext \in Layer /\ per_layer_job_queues[pnext] = << >>
<1>1. squeue \in Seq(Kind)
  BY DEF TypeInv, TypeOK, Kind
<1>2. InQueue("Prefetch")
  BY <1>1, TakeInQueue DEF SchedPrefetchLayer
<1>3. pnext < pstop /\ pnext \in 0 .. NumLayer /\ pstop \in 0 .. NumLayer
  BY <1>2 DEF TypeInv, TypeOK, IndexInv
<1>4. pnext \in Layer
  BY <1>3, ConstantsAssumption DEF Layer
<1> QED BY <1>2, <1>3, <1>4 DEF JobAhead, QueuesInv, Layer

LEMMA PrefetchLayerParts ==
  ASSUME TypeInv, JobAhead, QueuesInv, SchedPrefetchLayer
  PROVE  /\ PreciseParts => PreciseParts'
         /\ LayerParts => LayerParts'
         /\ WholeExperts /\ WholeJobs => WholeJobs'
<1> DEFINE lq == per_layer_job_queues
           ts == PrefetchTasks(pnext, pexperts)
<1>t. pnext \in Layer /\ lq[pnext] = << >> /\ lq \in [Layer -> Seq(CopyTask)] /\ pexperts \in Seq(ExpertIdx)
  BY PrefetchFindsEmpty DEF TypeInv, TypeOK
<1>s. lq' = [lq EXCEPT ![pnext] = lq[pnext] \o ts] /\ UNCHANGED <<precise_job_queue, current, gpu_data, num_ready>>
  BY DEF SchedPrefetchLayer
<1>1. /\ \A k \in Layer : k # pnext => lq'[k] = lq[k]
      /\ lq'[pnext] = ts
  <2>1. ts \in Seq(CopyTask)
    BY <1>t, PrefetchTasksType
  <2> HIDE DEF ts
  <2>2. << >> \o ts = ts
    BY <2>1
  <2> QED BY <1>t, <1>s, <2>2
<1>2. \A i \in 1 .. Len(ts) :
        /\ ts[i].expert[1] = pnext
        /\ ts[i].start # 0 => i # 1 /\ ts[i - 1].expert = ts[i].expert /\ ts[i - 1].stop >= ts[i].start
        /\ WholeExperts => ts[i].start = 0 /\ ts[i].stop = P
  BY <1>t, PrefetchTasksParts
<1> HIDE DEF ts
<1>h. \A f, n : WillHave(f, n) <=> HasChunks(f, n)
  BY <1>s DEF WillHave, HasChunks, Missing
<1>3. PreciseParts => PreciseParts'
  BY <1>s DEF PreciseParts, HasChunks, Missing
<1>4. ASSUME LayerParts PROVE LayerParts'
  <2> SUFFICES ASSUME NEW k \in Layer, NEW a \in 1 .. Len(lq'[k])
               PROVE  LET x == lq'[k][a]
                          before == lq'[k][a - 1]
                      IN /\ x.expert[1] = k
                         /\ x.start # 0 => IF a = 1 THEN WillHave(x.expert, x.start)
                                           ELSE before.expert = x.expert /\ before.stop >= x.start
    BY DEF LayerParts, HasChunks, WillHave, Missing
  <2>1. CASE k = pnext
    BY <1>1, <1>2, <2>1
  <2>2. CASE k # pnext
    <3>1. lq'[k] = lq[k]
      BY <1>1, <2>2
    <3> QED BY <1>4, <1>h, <3>1 DEF LayerParts
  <2> QED BY <2>1, <2>2
<1>5. ASSUME WholeExperts, WholeJobs PROVE WholeJobs'
  <2>1. \A k \in Layer : \A a \in 1 .. Len(lq'[k]) : lq'[k][a].start = 0 /\ lq'[k][a].stop = P
    BY <1>1, <1>2, <1>5 DEF WholeJobs
  <2> QED BY <1>s, <1>5, <2>1 DEF WholeJobs
<1> QED BY <1>3, <1>4, <1>5

LEMMA NextParts ==
  ASSUME PartsStay, TypeInv, BuffersPartitioned, BudgetInv, WeightsInv, PlaceInv, PinInv, PreciseInv,
         JobAhead, QueuesInv, PartsInv, [Next]_vars
  PROVE  PartsInv'
<1>t. /\ squeue \in Seq(Kind) /\ layer \in Layer /\ experts \in Seq(ExpertIdx)
      /\ per_layer_job_queues \in [Layer -> Seq(CopyTask)] /\ precise_job_queue \in Seq(CopyTask)
  BY DEF TypeInv, TypeOK, Kind
<1>1. CASE SchedIdle
  BY <1>1, IdleParts
<1>2. CASE SchedFetchDone
  BY <1>2, FetchDoneParts DEF PartsInv
<1>3. CASE SchedPrefetchLayer
  BY <1>3, PrefetchLayerParts DEF PartsInv
<1>4. CASE SchedPreemptExpert
  <2>1. /\ PreemptExpert(HookAt(sidx), BehindMiss(sidx), "prefetcher.cpp:105")
        /\ spc = "preempting" /\ sidx \in 1 .. Len(experts)
        /\ UNCHANGED <<gpu_data, num_ready, per_layer_job_queues>>
    BY <1>4 DEF SchedPreemptExpert, HookAt, TypeInv, TypeOK
  <2>2. HookAt(sidx) \in Expert
    BY <1>t, <2>1 DEF HookAt, Expert
  <2>3. ASSUME ~BehindMiss(sidx), NEW b \in 1 .. Len(precise_job_queue)
        PROVE  ~Missing(precise_job_queue[b].expert)
    <3>1. precise_job_queue[b].expert \in AskedExperts
      BY DEF PinInv, Wanted
    <3>2. PICK j \in Asked : precise_job_queue[b].expert = HookAt(j)
      BY <3>1 DEF AskedExperts, HookAt
    <3>3. EarlyPreempt
      BY <2>1 DEF BudgetInv, PreemptInv
    <3>4. j < sidx /\ j \in 1 .. Len(experts)
      BY <2>1, <3>2, <3>3, AskedTyped DEF Asked
    <3>5. j \in 1 .. (sidx - 1)
      BY <2>1, <3>4
    <3>6. IsInCache(HookAt(j))
      BY <2>3, <3>5 DEF BehindMiss, HookAt
    <3> QED BY <3>2, <3>6 DEF IsInCache, Missing, BuffersPartitioned
  <2> QED BY <2>1, <2>2, <2>3, PreemptParts DEF PartsInv
<1>5. CASE SchedPreemptOne
  <2>1. InQueue("PreemptOne")
    BY <1>5, <1>t, TakeInQueue DEF SchedPreemptOne
  <2>2. HookExpert \in Expert
    BY <2>1 DEF TypeInv, TypeOK, IndexInv, HookExpert, Expert
  <2>3. AskedExperts = {}
    BY <2>1, NothingAsked DEF PlaceInv
  <2>4. precise_job_queue = << >>
    BY <1>t, <2>3, NothingPinned
  <2>5. /\ PreemptExpert(HookExpert, FALSE, "prefetcher.cpp:55")
        /\ UNCHANGED <<gpu_data, num_ready, per_layer_job_queues>>
    BY <1>5 DEF SchedPreemptOne
  <2>6. \A b \in 1 .. Len(precise_job_queue) : ~Missing(precise_job_queue[b].expert)
    BY <2>4
  <2> QED BY <2>2, <2>5, <2>6, PreemptParts DEF PartsInv
<1>6. CASE \/ Hook \/ SchedPreempt \/ SchedPreemptEnd \/ SchedIdleAgain \/ Fetcher \/ StreamStep
           \/ Unlock \/ Predictor \/ UNCHANGED vars
  <2>1. UNCHANGED <<precise_job_queue, gpu_data, num_ready, current>>
    BY <1>6 DEF Hook, HookStart, HookReportLayer, HookReportExpert, HookExpertDone,
       HookLayerDone, SchedPreempt, SchedPreemptEnd, SchedIdleAgain, Fetcher, FetchStart, FetchEnd,
       StreamStep, Unlock, Predictor, PredictStart, PredictLayer, PredictLayerDone, vars
  <2>2. per_layer_job_queues' \in {per_layer_job_queues, Cleared}
    BY <1>6 DEF Hook, HookStart, HookReportLayer, HookReportExpert, HookExpertDone,
       HookLayerDone, SchedPreempt, SchedPreemptEnd, SchedIdleAgain, Fetcher, FetchStart, FetchEnd,
       StreamStep, Unlock, Predictor, PredictStart, PredictLayer, PredictLayerDone, vars
  <2>3. \A l \in Layer : per_layer_job_queues'[l] \in {per_layer_job_queues[l], << >>}
    BY <1>t, <2>2 DEF Cleared
  <2> QED BY <2>1, <2>3, PartsFrame DEF PartsInv
<1> QED BY <1>1, <1>2, <1>3, <1>4, <1>5, <1>6 DEF Next, Step, Scheduler

LEMMA InitParts == Init => PartsInv
<1> SUFFICES ASSUME Init PROVE PartsInv
  OBVIOUS
<1>1. /\ precise_job_queue = << >> /\ current = NoTask
      /\ per_layer_job_queues = [l \in Layer |-> << >>] /\ num_ready = [e \in Expert |-> 0]
  BY DEF Init
<1>2. PreciseParts /\ LayerParts
  BY <1>1 DEF PreciseParts, LayerParts
<1>3. WholeJobs
  BY <1>1 DEF WholeJobs
<1> QED BY <1>2, <1>3 DEF PartsInv

(* send_one_job fails no CHECK. *)
LEMMA SendPasses ==
  ASSUME TypeInv, BuffersPartitioned, WeightsInv, PreciseInv, Take("Idle"), aborted = "none",
         NEW t \in CopyTask, SendOneJob(t), Startable(t), t.is_precise => t.stop = P, HandOverSafe'
  PROVE  aborted' = "none"
<1>1. t.expert \in Expert /\ num_ready[t.expert] \in 0 .. P /\ P \in Nat
  BY ConstantsAssumption DEF TypeInv, TypeOK, CopyTask, P
<1>2. aborted' \notin {"prefetcher.cpp:623", "prefetcher.cpp:649"}
  BY SendParts DEF Startable
<1>3. aborted' # "prefetcher.cpp:641"
  BY <1>1 DEF SendOneJob, SendMissed, SendDuplicate, SendRest, TakeUnused, CheckedTransfer, Evict
<1>4. aborted' \in HandOverChecks \cup {"none", "prefetcher.cpp:623", "prefetcher.cpp:641", "prefetcher.cpp:649"}
  BY DEF SendOneJob, SendMissed, SendDuplicate, SendRest, TakeUnused, CheckedTransfer, Evict, HandOverChecks
<1> QED BY <1>2, <1>3, <1>4 DEF HandOverSafe

LEMMA NextAborts ==
  ASSUME PartsStay, TypeInv, BuffersPartitioned, BudgetInv, WeightsInv, PinInv, PreciseInv,
         JobAhead, QueuesInv, PartsInv, HandOverSafe', OnlyLateThreadsAbort, [Next]_vars
  PROVE  OnlyLateThreadsAbort'
<1>1. CASE UNCHANGED aborted
  BY <1>1 DEF OnlyLateThreadsAbort
<1>2. CASE Next /\ SchedIdle
  <2>1. Take("Idle") /\ aborted = "none" /\ (PopPrecise \/ \E l \in Layer : PopLayer(l))
    BY <1>2 DEF SchedIdle, Next
  <2>2. CASE PopPrecise
    <3>1. /\ 1 \in 1 .. Len(precise_job_queue) /\ Head(precise_job_queue) = precise_job_queue[1]
          /\ Head(precise_job_queue) \in CopyTask
      BY <2>2, PopQueue
    <3>2. Startable(Head(precise_job_queue)) /\ Head(precise_job_queue).stop = P
      BY <1>2, <2>2, <3>1, IdleParts DEF PreciseInv
    <3>3. SendOneJob(Head(precise_job_queue))
      BY <2>2 DEF PopPrecise
    <3>4. aborted' = "none"
      BY <2>1, <3>1, <3>2, <3>3, SendPasses
    <3> QED BY <3>4 DEF OnlyLateThreadsAbort
  <2>3. ASSUME NEW l \in Layer, PopLayer(l) PROVE OnlyLateThreadsAbort'
    <3>1. per_layer_job_queues[l] # << >> /\ SendOneJob(Head(per_layer_job_queues[l]))
      BY <2>3 DEF PopLayer
    <3>2. /\ 1 \in 1 .. Len(per_layer_job_queues[l])
          /\ Head(per_layer_job_queues[l]) = per_layer_job_queues[l][1]
          /\ Head(per_layer_job_queues[l]) \in CopyTask
      BY <3>1, HeadLayer
    <3>3. Startable(Head(per_layer_job_queues[l])) /\ ~Head(per_layer_job_queues[l]).is_precise
      BY <1>2, <2>3, <3>2, IdleParts DEF PinInv, PrefetchUnpinned
    <3>4. aborted' = "none"
      BY <2>1, <3>1, <3>2, <3>3, SendPasses
    <3> QED BY <3>4 DEF OnlyLateThreadsAbort
  <2> QED BY <2>1, <2>2, <2>3
<1>3. CASE SchedPrefetchLayer
  <2>1. per_layer_job_queues[pnext] = << >>
    BY <1>3, PrefetchFindsEmpty
  <2>2. aborted' \in {aborted, "prefetcher.cpp:589"}
    BY <1>3, <2>1 DEF SchedPrefetchLayer
  <2> QED BY <2>2 DEF OnlyLateThreadsAbort
<1>4. CASE SchedFetchDone
  <2>1. aborted' \in {aborted, "prefetcher.cpp:566"}
    BY <1>4 DEF SchedFetchDone, CheckedTransfer
  <2> QED BY <2>1 DEF OnlyLateThreadsAbort, HandOverSafe, HandOverChecks
<1>5. CASE SchedPreemptExpert \/ SchedPreemptOne
  <2>1. aborted' \in {aborted, "prefetcher.cpp:55", "prefetcher.cpp:105"}
    BY <1>5 DEF SchedPreemptExpert, SchedPreemptOne, PreemptExpert, AddPrecise, CheckedTransfer
  <2> QED BY <2>1 DEF OnlyLateThreadsAbort
<1>6. CASE Unlock
  <2>1. aborted' \in {aborted, "worker.cpp:82"}
    BY <1>6 DEF Unlock, CheckedTransfer
  <2> QED BY <2>1 DEF OnlyLateThreadsAbort, HandOverSafe, HandOverChecks
<1>7. CASE Next /\ (SchedPreempt \/ SchedPreemptEnd \/ SchedIdleAgain)
  <2>1. UNCHANGED aborted
    BY <1>7 DEF SchedPreempt, SchedPreemptEnd, SchedIdleAgain
  <2> QED BY <2>1 DEF OnlyLateThreadsAbort
<1>8. CASE Hook \/ Fetcher \/ StreamStep \/ Predictor
  <2>1. Hook => UNCHANGED aborted
    BY DEF Hook, HookStart, HookReportLayer, HookReportExpert, HookExpertDone, HookLayerDone
  <2>2. Fetcher \/ StreamStep \/ Predictor => UNCHANGED aborted
    BY DEF Fetcher, FetchStart, FetchEnd, StreamStep, Predictor, PredictStart, PredictLayer,
       PredictLayerDone
  <2> QED BY <1>8, <2>1, <2>2 DEF OnlyLateThreadsAbort
<1>9. CASE UNCHANGED vars
  BY <1>9 DEF vars, OnlyLateThreadsAbort
<1>10. \/ UNCHANGED vars
       \/ Hook \/ Fetcher \/ StreamStep \/ Predictor \/ Unlock
       \/ Next /\ Scheduler
  BY DEF Next, Step
<1> QED BY <1>1, <1>2, <1>3, <1>4, <1>5, <1>6, <1>7, <1>8, <1>9, <1>10 DEF Scheduler

(* The jobs of an iteration keep to its layers. *)
LEMMA JobsAhead ==
  ASSUME OncePerIteration
  PROVE  Spec => []JobAhead
<1>1. PICK upto \in [0 .. NumLayer -> 0 .. NumLayer] : Covers(PredictRange, NumLayer, upto)
  BY DEF OncePerIteration, OnceInOrder
<1>2. Spec => []TypeInv
  BY InitTypeInv, NextTypeInv, PTL DEF Spec
<1>3. Init => JobsInv(upto)
  BY <1>1, InitJobs
<1>4. TypeInv /\ JobsInv(upto) /\ [Next]_vars => JobsInv(upto)'
  BY <1>1, NextJobs
<1>5. JobsInv(upto) => JobAhead
  BY DEF JobsInv, JobAhead
<1> HIDE DEF JobsInv
<1> QED BY <1>2, <1>3, <1>4, <1>5, PTL DEF Spec

(* The CHECKs of send_one_job, FetchDoneTask, PrefetchLayerTask, CacheMngr::miss and the      *)
(* unlock worker never fail, in any schedule, if the jobs of an iteration cover its layers    *)
(* once and no partly fetched expert is evicted before its rest is copied: what is left are   *)
(* the three CHECKs about a thread that is late (prefetcher.cpp:55, 105 and 589).             *)
THEOREM OnlyLateChecksFail ==
  ASSUME OncePerIteration, PartsStay
  PROVE  Spec => []OnlyLateThreadsAbort
<1>1. Spec => []TypeInv
  BY InitTypeInv, NextTypeInv, PTL DEF Spec
<1>2. Spec => []BuffersPartitioned
  BY CachePartitionsBuffers
<1>3. Spec => []BudgetInv
  BY <1>1, InitBudget, NextBudget, PTL DEF Spec
<1>4. Spec => []WeightsInv
  BY <1>1, <1>2, InitWeights, NextWeights, PTL DEF Spec
<1>5. Spec => []PlaceInv
  BY <1>1, <1>3, InitPins, NextPlace, PTL DEF Spec
<1>6. Spec => []PinInv
  BY <1>1, <1>3, <1>5, InitPins, NextPins, PTL DEF Spec
<1>7. Spec => [](PreciseInv /\ OrderInv)
  <2>1. Init => PreciseInv /\ OrderInv
    BY InitService
  <2>2. /\ TypeInv /\ BuffersPartitioned /\ BudgetInv /\ WeightsInv /\ PlaceInv /\ PinInv
        /\ (PreciseInv /\ OrderInv) /\ [Next]_vars
        => (PreciseInv /\ OrderInv)'
    BY NextService
  <2> QED BY <1>1, <1>2, <1>3, <1>4, <1>5, <1>6, <2>1, <2>2, PTL DEF Spec
<1>8. Spec => []JobAhead
  BY JobsAhead
<1>9. Spec => []QueuesInv
  BY <1>1, <1>3, <1>8, InitQueues, NextQueues, PTL DEF Spec
<1>10. Spec => []PartsInv
  <2>1. /\ TypeInv /\ BuffersPartitioned /\ BudgetInv /\ WeightsInv /\ PlaceInv /\ PinInv
        /\ PreciseInv /\ JobAhead /\ QueuesInv /\ PartsInv /\ [Next]_vars
        => PartsInv'
    BY NextParts
  <2> QED BY <1>1, <1>2, <1>3, <1>4, <1>5, <1>6, <1>7, <1>8, <1>9, <2>1, InitParts, PTL DEF Spec
<1>11. Init => OnlyLateThreadsAbort
  BY DEF Init, OnlyLateThreadsAbort
<1>12. /\ TypeInv /\ BuffersPartitioned /\ BudgetInv /\ WeightsInv /\ PinInv
       /\ PreciseInv /\ JobAhead /\ QueuesInv /\ PartsInv /\ HandOverSafe' /\ OnlyLateThreadsAbort
       /\ [Next]_vars
       => OnlyLateThreadsAbort'
  BY NextAborts
<1> QED BY <1>1, <1>2, <1>3, <1>4, <1>6, <1>7, <1>8, <1>9, <1>10, <1>11, <1>12,
           HandOverChecksHold, PTL DEF Spec
=============================================================================

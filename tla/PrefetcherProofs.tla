-------------------------- MODULE PrefetcherProofs --------------------------
(***************************************************************************)
(* Proofs about Prefetcher for every number of layers, experts, chunks and *)
(* buffers, and every combination of its modes.                            *)
(***************************************************************************)
EXTENDS Prefetcher, TLAPS

-----------------------------------------------------------------------------
(* Lemmas about the queues *)

(* Taking the head of a queue. *)
LEMMA HeadTail ==
  ASSUME NEW S, NEW q \in Seq(S), q # << >>
  PROVE  /\ Head(q) \in S
         /\ Tail(q) \in Seq(S)
         /\ Len(q) \in Nat \ {0}
         /\ Len(Tail(q)) = Len(q) - 1
         /\ \A i \in 1 .. Len(Tail(q)) : Tail(q)[i] = q[i + 1]
OBVIOUS

(* Adding to a queue. *)
LEMMA Appended ==
  ASSUME NEW S, NEW q \in Seq(S), NEW x \in S
  PROVE  /\ Append(q, x) \in Seq(S)
         /\ Len(Append(q, x)) = Len(q) + 1
         /\ \A i \in 1 .. Len(q) : Append(q, x)[i] = q[i]
         /\ Append(q, x)[Len(q) + 1] = x
OBVIOUS

(* The chunk tasks of a layer: task k is chunk (k - 1) % p of expert (k - 1) \div p + 1. *)
LEMMA DivMod ==
  ASSUME NEW p \in Nat \ {0}, NEW n \in Nat, NEW k \in 1 .. (n * p)
  PROVE  /\ (k - 1) \div p \in 0 .. (n - 1)
         /\ (k - 1) % p \in 0 .. (p - 1)
<1>1. (k - 1) % p \in 0 .. (p - 1)
  OBVIOUS
<1>2. (k - 1) \div p \in 0 .. (n - 1)
  OBVIOUS
<1> QED BY <1>1, <1>2

(* add_single_tasks_for_one_expert makes a task. *)
LEMMA TaskType ==
  ASSUME NEW e \in Expert, NEW i \in 0 .. P, NEW j \in 0 .. P, NEW b \in BOOLEAN
  PROVE  Task(e, i, j, b) \in CopyTask
BY DEF Task, CopyTask

(* A function on 1 .. n is a sequence. *)
LEMMA FunctionIsSeq ==
  ASSUME NEW S, NEW n \in Nat, NEW f \in [1 .. n -> S]
  PROVE  f \in Seq(S)
OBVIOUS

(* PrefetchLayerTask queues tasks of experts of its layer, with chunks in range. *)
LEMMA PrefetchTasksType ==
  ASSUME NEW l \in Layer, NEW es \in Seq(ExpertIdx)
  PROVE  PrefetchTasks(l, es) \in Seq(CopyTask)
<1>p. P \in Nat \ {0}
  BY ConstantsAssumption DEF P
<1>n. Len(es) \in Nat
  OBVIOUS
<1>e. \A k \in 1 .. Len(es) : <<l, es[k]>> \in Expert
  BY DEF Expert
<1>1. CASE ChunkPrefetch
  <2>1. ASSUME NEW k \in 1 .. (Len(es) * P)
        PROVE  Task(<<l, es[((k - 1) \div P) + 1]>>, (k - 1) % P, ((k - 1) % P) + 1, FALSE)
                 \in CopyTask
    <3>1. (k - 1) \div P \in 0 .. (Len(es) - 1) /\ (k - 1) % P \in 0 .. (P - 1)
      BY <1>p, <1>n, DivMod
    <3>2. ((k - 1) \div P) + 1 \in 1 .. Len(es)
      BY <3>1, <1>n
    <3>3. <<l, es[((k - 1) \div P) + 1]>> \in Expert
      BY <3>2, <1>e
    <3>4. (k - 1) % P \in 0 .. P /\ ((k - 1) % P) + 1 \in 0 .. P
      BY <3>1, <1>p
    <3> QED BY <3>3, <3>4, TaskType
  <2>2. Len(es) * P \in Nat
    BY <1>p, <1>n
  <2>3. PrefetchTasks(l, es) \in [1 .. (Len(es) * P) -> CopyTask]
    BY <1>1, <2>1 DEF PrefetchTasks
  <2> QED BY <2>2, <2>3, FunctionIsSeq
<1>2. CASE ~ChunkPrefetch
  <2>1. ASSUME NEW k \in 1 .. Len(es)
        PROVE  Task(<<l, es[k]>>, 0, P, FALSE) \in CopyTask
    <3>1. 0 \in 0 .. P /\ P \in 0 .. P
      BY <1>p
    <3> QED BY <1>e, <3>1, TaskType
  <2>2. PrefetchTasks(l, es) \in [1 .. Len(es) -> CopyTask]
    BY <1>2, <2>1 DEF PrefetchTasks
  <2> QED BY <1>n, <2>2, FunctionIsSeq
<1> QED BY <1>1, <1>2

-----------------------------------------------------------------------------
(* Type correctness.  The guards alone do not keep the indices in range: the scheduler reads *)
(* the hook's position and the predict worker's layer while their threads wait for it.       *)

Kind == {"Idle", "FetchDone", "Preempt", "PreemptOne", "Prefetch"}

IndexInv ==
  /\ hpc \in {"expert", "wait"} => idx <= Len(experts)
  /\ InQueue("PreemptOne") => hpc = "wait"
  /\ ppc = "submitted" => pnext < pstop
  /\ InQueue("Prefetch") => ppc = "submitted"
  /\ \A s \in Slot : unused_mems[s] <= SlotLen[s]

TypeInv == TypeOK /\ IndexInv

(* The queue after a step that adds, removes or replaces one task. *)
LEMMA QueueAppend ==
  ASSUME squeue \in Seq(Kind), NEW k \in Kind, squeue' = Append(squeue, k)
  PROVE  /\ squeue' \in Seq(Kind)
         /\ \A kind \in Kind \ {k} : InQueue(kind)' => InQueue(kind)
BY Appended DEF InQueue

LEMMA QueueTail ==
  ASSUME squeue \in Seq(Kind), squeue # << >>, squeue' = Tail(squeue)
  PROVE  /\ squeue' \in Seq(Kind)
         /\ \A kind : InQueue(kind)' => InQueue(kind)
BY HeadTail DEF InQueue

LEMMA QueueIdleAgain ==
  ASSUME squeue \in Seq(Kind), squeue # << >>, squeue' = IdleAgain
  PROVE  /\ squeue' \in Seq(Kind)
         /\ \A kind \in Kind \ {"Idle"} : InQueue(kind)' => InQueue(kind)
<1>1. Tail(squeue) \in Seq(Kind) /\ "Idle" \in Kind
  BY HeadTail DEF Kind
<1> QED BY <1>1, Appended, HeadTail DEF InQueue, IdleAgain

(* A handler runs for a task of the queue. *)
LEMMA TakeInQueue ==
  ASSUME squeue \in Seq(Kind), NEW k, Take(k)
  PROVE  squeue # << >> /\ InQueue(k)
BY DEF Take, InQueue

(* The initial state. *)
LEMMA InitTypeInv == Init => TypeInv
<1> SUFFICES ASSUME Init PROVE TypeInv
  OBVIOUS
<1>1. TypeOK
  <2>1. 0 \in Layer /\ 0 \in 0 .. NumLayer /\ NumLayer \in 0 .. NumLayer
    BY ConstantsAssumption DEF Layer
  <2>2. NoTask \in CopyTask \cup {NoTask} /\ 0 \in 0 .. P
    BY ConstantsAssumption DEF P
  <2>3. predict_jobs \in Seq(0 .. NumLayer)
    <3>1. << >> \in Seq(0 .. NumLayer) /\ <<NumLayer>> \in Seq(0 .. NumLayer)
      BY <2>1
    <3> QED BY <3>1 DEF Init
  <2>4. squeue \in Seq({"Idle", "FetchDone", "Preempt", "PreemptOne", "Prefetch"})
    BY DEF Init
  <2>5. unused_mems \in [Slot -> Nat] /\ budget \in Nat
    BY ConstantsAssumption DEF Init
  <2>6. content \in [Buffer -> [Chunk -> Expert \cup {NoExpert}]]
    BY DEF Init
  <2> QED BY <2>1, <2>2, <2>3, <2>4, <2>5, <2>6 DEF Init, TypeOK, Status
<1>2. IndexInv
  <2>1. ~InQueue("PreemptOne") /\ ~InQueue("Prefetch")
    <3>1. Len(squeue) = 1 /\ squeue[1] = "Idle"
      BY DEF Init
    <3> QED BY <3>1 DEF InQueue
  <2>2. \A s \in Slot : unused_mems[s] <= SlotLen[s]
    BY ConstantsAssumption DEF Init
  <2> QED BY <2>1, <2>2 DEF Init, IndexInv
<1> QED BY <1>1, <1>2 DEF TypeInv

-----------------------------------------------------------------------------
(* One lemma for each action: it preserves the types and the index ranges. *)

USE DEF hookVars, schedVars, cacheVars, fetchVars, unlockVars, memVars, predictVars

LEMMA JobsAfterType ==
  ASSUME predict_jobs \in Seq(0 .. NumLayer), NEW t \in 0 .. NumLayer
  PROVE  JobsAfter(t) \in Seq(0 .. NumLayer)
BY Appended DEF JobsAfter

LEMMA HookStartType == TypeInv /\ HookStart => TypeInv'
<1> SUFFICES ASSUME TypeInv, HookStart PROVE TypeInv'
  OBVIOUS
<1>1. predict_jobs' \in Seq(0 .. NumLayer)
  <2>1. 0 \in 0 .. NumLayer
    BY ConstantsAssumption
  <2> QED BY <2>1, JobsAfterType DEF TypeInv, TypeOK, HookStart
<1>2. TypeOK'
  BY <1>1 DEF TypeInv, TypeOK, HookStart
<1>3. IndexInv'
  BY DEF TypeInv, TypeOK, IndexInv, HookStart, InQueue
<1> QED BY <1>2, <1>3 DEF TypeInv

LEMMA HookReportLayerType == TypeInv /\ HookReportLayer => TypeInv'
<1> SUFFICES ASSUME TypeInv, HookReportLayer PROVE TypeInv'
  OBVIOUS
<1>1. experts' \in Seq(ExpertIdx) /\ 1 <= Len(experts')
  BY ConstantsAssumption, FunctionIsSeq DEF HookReportLayer, Activations, Ranked
<1>2. squeue' \in Seq(Kind) /\ \A kind \in Kind \ {"Preempt"} : InQueue(kind)' => InQueue(kind)
  BY QueueAppend DEF TypeInv, TypeOK, Kind, HookReportLayer
<1>3. TypeOK'
  BY <1>1, <1>2 DEF TypeInv, TypeOK, HookReportLayer, Kind
<1>4. IndexInv'
  BY <1>1, <1>2 DEF TypeInv, TypeOK, IndexInv, HookReportLayer, Kind
<1> QED BY <1>3, <1>4 DEF TypeInv

LEMMA HookReportExpertType == TypeInv /\ HookReportExpert => TypeInv'
<1> SUFFICES ASSUME TypeInv, HookReportExpert PROVE TypeInv'
  OBVIOUS
<1>1. /\ squeue' \in Seq(Kind)
      /\ \A kind \in Kind \ {"PreemptOne"} : InQueue(kind)' => InQueue(kind)
  BY QueueAppend DEF TypeInv, TypeOK, Kind, HookReportExpert, InQueue
<1>2. TypeOK'
  BY <1>1 DEF TypeInv, TypeOK, HookReportExpert, Kind
<1>3. IndexInv'
  BY <1>1 DEF TypeInv, TypeOK, IndexInv, HookReportExpert, Kind
<1> QED BY <1>2, <1>3 DEF TypeInv

LEMMA HookExpertDoneType == TypeInv /\ HookExpertDone => TypeInv'
<1> SUFFICES ASSUME TypeInv, HookExpertDone PROVE TypeInv'
  OBVIOUS
<1>1. HookExpert \in Expert
  BY DEF TypeInv, TypeOK, IndexInv, HookExpertDone, HookExpert, Expert
<1>2. stream' \in Seq(Expert) /\ uqueue' \in Seq(Expert)
  BY <1>1, Appended DEF TypeInv, TypeOK, HookExpertDone
<1>3. expert_status' \in [Expert -> Status]
  BY DEF TypeInv, TypeOK, HookExpertDone, Status
<1>p. hpc' \in {"expert", "layer_done"} /\ idx' \in Nat \ {0}
  BY DEF TypeInv, TypeOK, HookExpertDone
<1>4. TypeOK'
  BY <1>2, <1>3, <1>p DEF TypeInv, TypeOK, HookExpertDone
<1>5. IndexInv'
  BY DEF TypeInv, TypeOK, IndexInv, HookExpertDone, HandlerEnded, InQueue
<1> QED BY <1>4, <1>5 DEF TypeInv

LEMMA HookLayerDoneType == TypeInv /\ HookLayerDone => TypeInv'
<1> SUFFICES ASSUME TypeInv, HookLayerDone PROVE TypeInv'
  OBVIOUS
<1>1. layer' \in Layer /\ layer + 1 \in 0 .. NumLayer
  <2>1. layer \in 0 .. (NumLayer - 1) /\ layer' = NextLayer /\ NumLayer \in Nat
    BY ConstantsAssumption DEF TypeInv, TypeOK, HookLayerDone, Layer
  <2> QED BY <2>1 DEF NextLayer, Layer
<1>2. predict_jobs' \in Seq(0 .. NumLayer)
  BY <1>1, JobsAfterType DEF TypeInv, TypeOK, HookLayerDone
<1>3. budget' \in Nat
  BY DEF TypeInv, TypeOK, HookLayerDone, BudgetAfterLayer
<1>4. TypeOK'
  BY <1>1, <1>2, <1>3, SMTT(30) DEF TypeInv, TypeOK, HookLayerDone
<1>5. IndexInv'
  BY DEF TypeInv, TypeOK, IndexInv, HookLayerDone, InQueue
<1> QED BY <1>4, <1>5 DEF TypeInv

LEMMA SchedPreemptType == TypeInv /\ SchedPreempt => TypeInv'
<1> SUFFICES ASSUME TypeInv, SchedPreempt PROVE TypeInv'
  OBVIOUS
<1>1. experts' \in Seq(ExpertIdx) /\ Len(experts') = Len(experts)
  <2>1. experts \in Seq(ExpertIdx) /\ Len(experts) \in Nat
    BY DEF TypeInv, TypeOK
  <2>2. experts' = experts \/ experts' \in [1 .. Len(experts) -> ExpertIdx]
    BY DEF SchedPreempt
  <2> QED BY <2>1, <2>2
<1>2. squeue' \in Seq(Kind) /\ \A kind : InQueue(kind)' => InQueue(kind)
  BY QueueTail DEF TypeInv, TypeOK, Kind, SchedPreempt, Take
<1>3. per_layer_job_queues' \in [Layer -> Seq(CopyTask)]
  <2>1. per_layer_job_queues' \in {per_layer_job_queues, Cleared}
    BY DEF SchedPreempt
  <2>2. << >> \in Seq(CopyTask)
    OBVIOUS
  <2>3. per_layer_job_queues \in [Layer -> Seq(CopyTask)]
    BY DEF TypeInv, TypeOK
  <2> QED BY <2>1, <2>2, <2>3 DEF Cleared
<1>4. spc' \in {"ready", "preempting"} /\ sidx' \in Nat \ {0}
  BY SMTT(30) DEF TypeInv, TypeOK, SchedPreempt
<1>5. TypeOK'
  BY <1>1, <1>2, <1>3, <1>4 DEF TypeInv, TypeOK, SchedPreempt, Kind
<1>6. IndexInv'
  BY <1>1, <1>2 DEF TypeInv, TypeOK, IndexInv, SchedPreempt
<1> QED BY <1>5, <1>6 DEF TypeInv

(* What PreemptExpert does to the variables it changes. *)
LEMMA PreemptExpertType ==
  ASSUME TypeInv, NEW e \in Expert, NEW behind, NEW line, PreemptExpert(e, behind, line)
  PROVE  /\ precise_job_queue' \in Seq(CopyTask)
         /\ current' \in CopyTask \cup {NoTask}
         /\ expert_status' \in [Expert -> Status]
<1>p. P \in Nat /\ 0 \in 0 .. P /\ P \in 0 .. P /\ num_ready[e] \in 0 .. P
  BY ConstantsAssumption DEF P, TypeInv, TypeOK
<1>t. ASSUME NEW i \in 0 .. P
      PROVE  Append(precise_job_queue, Task(e, i, P, TRUE)) \in Seq(CopyTask)
  BY <1>p, TaskType, Appended DEF TypeInv, TypeOK
<1>1. CASE ~IsInCache(e) \/ behind
  <2>1. AddPrecise(e, 0)
    BY <1>1 DEF PreemptExpert
  <2> QED BY <2>1, <1>p, <1>t DEF AddPrecise, TypeInv, TypeOK
<1>2. CASE /\ IsInCache(e) /\ ~behind /\ num_ready[e] = P
           /\ CheckedTransfer(e, "Ready", "Launching", line)
           /\ UNCHANGED <<precise_job_queue, current>>
  BY <1>2 DEF CheckedTransfer, Transferred, TypeInv, TypeOK, Status
<1>3. CASE /\ IsInCache(e) /\ ~behind /\ num_ready[e] # P /\ e = current.expert
           /\ current' = [current EXCEPT !.is_precise = TRUE]
           /\ precise_job_queue' = IF current.stop = P THEN precise_job_queue
                               ELSE Append(precise_job_queue, Task(e, current.stop, P, TRUE))
           /\ UNCHANGED <<expert_status, aborted>>
  <2>1. current \in CopyTask
    BY <1>3, ConstantsAssumption DEF TypeInv, TypeOK, NoTask
  <2>2. current.stop \in 0 .. P /\ [current EXCEPT !.is_precise = TRUE] \in CopyTask
    BY <2>1 DEF CopyTask
  <2> QED BY <1>3, <1>t, <2>2 DEF TypeInv, TypeOK
<1>4. CASE ~behind /\ AddPrecise(e, num_ready[e])
  BY <1>4, <1>p, <1>t DEF AddPrecise, TypeInv, TypeOK
<1> QED BY <1>1, <1>2, <1>3, <1>4 DEF PreemptExpert

LEMMA SchedPreemptExpertType == TypeInv /\ SchedPreemptExpert => TypeInv'
<1> SUFFICES ASSUME TypeInv, SchedPreemptExpert PROVE TypeInv'
  OBVIOUS
<1>1. <<layer, experts[sidx]>> \in Expert
  BY DEF TypeInv, TypeOK, SchedPreemptExpert, Expert
<1>2. /\ precise_job_queue' \in Seq(CopyTask)
      /\ current' \in CopyTask \cup {NoTask}
      /\ expert_status' \in [Expert -> Status]
  BY <1>1, PreemptExpertType DEF SchedPreemptExpert
<1>3. sidx' \in Nat \ {0}
  BY DEF TypeInv, TypeOK, SchedPreemptExpert
<1>4. TypeOK'
  BY <1>2, <1>3 DEF TypeInv, TypeOK, SchedPreemptExpert
<1>5. IndexInv'
  BY DEF TypeInv, IndexInv, SchedPreemptExpert, InQueue
<1> QED BY <1>4, <1>5 DEF TypeInv

LEMMA SchedPreemptEndType == TypeInv /\ SchedPreemptEnd => TypeInv'
<1> SUFFICES ASSUME TypeInv, SchedPreemptEnd PROVE TypeInv'
  OBVIOUS
<1>1. per_layer_job_queues' \in [Layer -> Seq(CopyTask)]
  <2>1. << >> \in Seq(CopyTask)
    OBVIOUS
  <2>2. per_layer_job_queues \in [Layer -> Seq(CopyTask)] /\ per_layer_job_queues' = Cleared
    BY DEF TypeInv, TypeOK, SchedPreemptEnd
  <2> QED BY <2>1, <2>2 DEF Cleared
<1>2. TypeOK'
  BY <1>1, SMTT(30) DEF TypeInv, TypeOK, SchedPreemptEnd
<1>3. IndexInv'
  BY DEF TypeInv, IndexInv, SchedPreemptEnd, InQueue
<1> QED BY <1>2, <1>3 DEF TypeInv

LEMMA SchedPreemptOneType == TypeInv /\ SchedPreemptOne => TypeInv'
<1> SUFFICES ASSUME TypeInv, SchedPreemptOne PROVE TypeInv'
  OBVIOUS
<1>1. InQueue("PreemptOne")
  BY TakeInQueue DEF TypeInv, TypeOK, Kind, SchedPreemptOne
<1>2. HookExpert \in Expert
  BY <1>1 DEF TypeInv, TypeOK, IndexInv, HookExpert, Expert
<1>3. squeue' \in Seq(Kind) /\ \A kind : InQueue(kind)' => InQueue(kind)
  BY QueueTail DEF TypeInv, TypeOK, Kind, SchedPreemptOne, Take
<1>4. /\ precise_job_queue' \in Seq(CopyTask)
      /\ current' \in CopyTask \cup {NoTask}
      /\ expert_status' \in [Expert -> Status]
  BY <1>2, PreemptExpertType DEF SchedPreemptOne
<1>5. TypeOK'
  BY <1>3, <1>4 DEF TypeInv, TypeOK, SchedPreemptOne, Kind
<1>6. IndexInv'
  BY <1>3 DEF TypeInv, IndexInv, SchedPreemptOne
<1> QED BY <1>5, <1>6 DEF TypeInv

LEMMA SchedPrefetchLayerType == TypeInv /\ SchedPrefetchLayer => TypeInv'
<1> SUFFICES ASSUME TypeInv, SchedPrefetchLayer PROVE TypeInv'
  OBVIOUS
<1>1. InQueue("Prefetch")
  BY TakeInQueue DEF TypeInv, TypeOK, Kind, SchedPrefetchLayer
<1>2. pnext \in Layer
  BY <1>1, ConstantsAssumption DEF TypeInv, TypeOK, IndexInv, Layer
<1>3. per_layer_job_queues[pnext] \o PrefetchTasks(pnext, pexperts) \in Seq(CopyTask)
  BY <1>2, PrefetchTasksType DEF TypeInv, TypeOK
<1>4. squeue' \in Seq(Kind) /\ \A kind : InQueue(kind)' => InQueue(kind)
  BY QueueTail DEF TypeInv, TypeOK, Kind, SchedPrefetchLayer, Take
<1>5. per_layer_job_queues' \in [Layer -> Seq(CopyTask)]
  <2>1. /\ per_layer_job_queues \in [Layer -> Seq(CopyTask)]
        /\ per_layer_job_queues' =
             [per_layer_job_queues EXCEPT ![pnext] = @ \o PrefetchTasks(pnext, pexperts)]
    BY DEF TypeInv, TypeOK, SchedPrefetchLayer
  <2> QED BY <1>3, <2>1
<1>6. TypeOK'
  BY <1>4, <1>5, ZenonT(40) DEF TypeInv, TypeOK, SchedPrefetchLayer, Kind
<1>7. IndexInv'
  BY <1>4 DEF TypeInv, IndexInv, SchedPrefetchLayer
<1> QED BY <1>6, <1>7 DEF TypeInv

LEMMA SchedFetchDoneType == TypeInv /\ SchedFetchDone => TypeInv'
<1> SUFFICES ASSUME TypeInv, SchedFetchDone PROVE TypeInv'
  OBVIOUS
<1>1. /\ squeue' \in Seq(Kind)
      /\ \A kind \in Kind \ {"Idle"} : InQueue(kind)' => InQueue(kind)
  BY QueueIdleAgain DEF TypeInv, TypeOK, Kind, SchedFetchDone, Take
<1>2. current.stop \in 0 .. P
  <2>1. CASE current \in CopyTask
    BY <2>1 DEF CopyTask
  <2>2. CASE current = NoTask
    BY <2>2, ConstantsAssumption DEF NoTask, P
  <2> QED BY <2>1, <2>2 DEF TypeInv, TypeOK
<1>3. num_ready' \in [Expert -> 0 .. P]
  BY <1>2 DEF TypeInv, TypeOK, SchedFetchDone
<1>4. expert_status' \in [Expert -> Status]
  <2>1. FetchedStatus \in Status
    BY DEF FetchedStatus, Status
  <2>2. \/ expert_status' = expert_status
        \/ expert_status' = [expert_status EXCEPT ![current.expert] = FetchedStatus]
    BY DEF SchedFetchDone, CheckedTransfer, Transferred
  <2> QED BY <2>1, <2>2 DEF TypeInv, TypeOK
<1>5. TypeOK'
  BY <1>1, <1>3, <1>4 DEF TypeInv, TypeOK, SchedFetchDone, Kind
<1>6. IndexInv'
  BY <1>1 DEF TypeInv, IndexInv, SchedFetchDone, Kind
<1> QED BY <1>5, <1>6 DEF TypeInv

(* What send_one_job keeps: the types of what it changes, and the queue's other tasks. *)
SendTypes ==
  /\ squeue' \in Seq(Kind)
  /\ \A kind \in Kind \ {"Idle"} : InQueue(kind)' => InQueue(kind)
  /\ current' \in CopyTask \cup {NoTask}
  /\ prefetched_experts' \in [Expert -> Buffer \cup {NoBuffer}]
  /\ gpu_data' \in [Expert -> Buffer \cup {NoBuffer}]
  /\ unused_mems' \in [Slot -> Nat]
  /\ \A s \in Slot : unused_mems'[s] <= SlotLen[s]
  /\ num_ready' \in [Expert -> 0 .. P]
  /\ expert_status' \in [Expert -> Status]
  /\ fpc' \in {"idle", "wait", "copy"} /\ victim' \in Expert \cup {NoExpert}

(* SlotMapper::to_slot. *)
LEMMA SlotOfType == \A e \in Expert : SlotOf(e) \in Slot
BY DEF Expert, SlotOf, Slot

(* CacheMngr::miss, with a free buffer and without. *)
LEMMA TakeUnusedType ==
  ASSUME TypeInv, NEW e \in Expert, TakeUnused(e)
  PROVE  /\ prefetched_experts' \in [Expert -> Buffer \cup {NoBuffer}]
         /\ gpu_data' \in [Expert -> Buffer \cup {NoBuffer}]
         /\ unused_mems' \in [Slot -> Nat]
         /\ \A s \in Slot : unused_mems'[s] <= SlotLen[s]
         /\ num_ready' \in [Expert -> 0 .. P]
         /\ expert_status' \in [Expert -> Status]
<1>1. SlotOf(e) \in Slot
  BY SlotOfType
<1>2. /\ unused_mems[SlotOf(e)] \in Nat /\ unused_mems[SlotOf(e)] > 0
      /\ SlotLen[SlotOf(e)] \in Nat
      /\ unused_mems[SlotOf(e)] <= SlotLen[SlotOf(e)]
  BY <1>1, ConstantsAssumption DEF TypeInv, TypeOK, IndexInv, TakeUnused
<1>3. <<SlotOf(e), unused_mems[SlotOf(e)]>> \in Buffer
  BY <1>1, <1>2 DEF Buffer
<1>4. unused_mems' \in [Slot -> Nat] /\ \A s \in Slot : unused_mems'[s] <= SlotLen[s]
  <2>1. unused_mems' = [unused_mems EXCEPT ![SlotOf(e)] = unused_mems[SlotOf(e)] - 1]
    BY DEF TakeUnused, Popped
  <2>2. /\ unused_mems \in [Slot -> Nat] /\ SlotLen \in [Slot -> Nat]
        /\ \A s \in Slot : unused_mems[s] <= SlotLen[s]
    BY ConstantsAssumption DEF TypeInv, TypeOK, IndexInv
  <2> QED BY <1>1, <1>2, <2>1, <2>2
<1>5. expert_status' \in [Expert -> Status]
  BY DEF TypeInv, TypeOK, TakeUnused, CheckedTransfer, Transferred, Status
<1> QED BY <1>3, <1>4, <1>5 DEF TypeInv, TypeOK, TakeUnused

LEMMA EvictType ==
  ASSUME TypeInv, NEW e \in Expert, NEW v \in Expert, Evict(e, v)
  PROVE  /\ prefetched_experts' \in [Expert -> Buffer \cup {NoBuffer}]
         /\ gpu_data' \in [Expert -> Buffer \cup {NoBuffer}]
         /\ num_ready' \in [Expert -> 0 .. P]
         /\ expert_status' \in [Expert -> Status]
<1>1. prefetched_experts[v] \in Buffer \cup {NoBuffer} /\ 0 \in 0 .. P
  BY ConstantsAssumption DEF TypeInv, TypeOK, P
<1>2. expert_status' \in [Expert -> Status]
  BY DEF TypeInv, TypeOK, Evict, Pinned, Status
<1> QED BY <1>1, <1>2 DEF TypeInv, TypeOK, Evict, WithoutChunks

(* The three outcomes of send_one_job. *)
LEMMA SendMissedType ==
  ASSUME TypeInv, NEW t \in CopyTask, squeue # << >>, SendMissed(t)
  PROVE  SendTypes
<1>e. t.expert \in Expert
  BY DEF CopyTask
<1>q. ASSUME squeue' = Tail(squeue)
      PROVE  squeue' \in Seq(Kind) /\ \A kind : InQueue(kind)' => InQueue(kind)
  BY <1>q, QueueTail DEF TypeInv, TypeOK, Kind
<1>1. CASE UNCHANGED <<squeue, current, cacheVars, expert_status, fetchVars>>
  BY <1>1 DEF SendTypes, TypeInv, TypeOK, IndexInv, Kind, InQueue
<1>2. CASE TakeUnused(t.expert) /\ Fetch(t, NoExpert)
  BY <1>2, <1>e, <1>q, TakeUnusedType DEF SendTypes, Fetch
<1>3. ASSUME NEW v \in Expert,
             Evict(t.expert, v), Fetch(t, IF Pinned(v) THEN v ELSE NoExpert)
      PROVE  SendTypes
  <2>1. unused_mems' = unused_mems
    BY <1>3 DEF Evict
  <2> QED BY <1>3, <1>e, <1>q, <2>1, EvictType DEF SendTypes, Fetch, TypeInv, TypeOK, IndexInv
<1> QED BY <1>1, <1>2, <1>3 DEF SendMissed, InSlot

LEMMA SendDuplicateType ==
  ASSUME TypeInv, NEW t \in CopyTask, squeue # << >>, SendDuplicate(t)
  PROVE  SendTypes
<1>1. /\ squeue' \in Seq(Kind)
      /\ \A kind \in Kind \ {"Idle"} : InQueue(kind)' => InQueue(kind)
  BY QueueIdleAgain DEF TypeInv, TypeOK, Kind, SendDuplicate
<1>2. expert_status' \in [Expert -> Status]
  BY DEF TypeInv, TypeOK, SendDuplicate, Transferred, Status
<1> QED BY <1>1, <1>2 DEF SendTypes, SendDuplicate, TypeInv, TypeOK, IndexInv

LEMMA SendRestType ==
  ASSUME TypeInv, NEW t \in CopyTask, squeue # << >>, SendRest(t)
  PROVE  SendTypes
<1>1. squeue' \in Seq(Kind) /\ \A kind : InQueue(kind)' => InQueue(kind)
  BY QueueTail DEF TypeInv, TypeOK, Kind, SendRest, Fetch
<1>2. [t EXCEPT !.start = num_ready[t.expert]] \in CopyTask
  <2>1. num_ready[t.expert] \in 0 .. P
    BY DEF TypeInv, TypeOK, CopyTask
  <2> QED BY <2>1 DEF CopyTask
<1> QED BY <1>1, <1>2 DEF SendTypes, SendRest, Fetch, TypeInv, TypeOK, IndexInv

LEMMA SchedIdleType == TypeInv /\ SchedIdle => TypeInv'
<1> SUFFICES ASSUME TypeInv, SchedIdle PROVE TypeInv'
  OBVIOUS
<1>s. squeue # << >>
  BY DEF SchedIdle, Take
<1>1. ASSUME NEW t \in CopyTask, SendOneJob(t) PROVE SendTypes
  BY <1>1, <1>s, SendMissedType, SendDuplicateType, SendRestType DEF SendOneJob
<1>2. /\ SendTypes
      /\ precise_job_queue' \in Seq(CopyTask)
      /\ per_layer_job_queues' \in [Layer -> Seq(CopyTask)]
  <2>1. CASE PopPrecise
    <3>1. Head(precise_job_queue) \in CopyTask /\ Tail(precise_job_queue) \in Seq(CopyTask)
      BY <2>1, HeadTail DEF PopPrecise, TypeInv, TypeOK
    <3> QED BY <2>1, <3>1, <1>1 DEF PopPrecise, TypeInv, TypeOK
  <2>2. ASSUME NEW l \in Layer, PopLayer(l)
        PROVE  /\ SendTypes
               /\ precise_job_queue' \in Seq(CopyTask)
               /\ per_layer_job_queues' \in [Layer -> Seq(CopyTask)]
    <3>1. /\ Head(per_layer_job_queues[l]) \in CopyTask
          /\ Tail(per_layer_job_queues[l]) \in Seq(CopyTask)
      BY <2>2, HeadTail DEF PopLayer, TypeInv, TypeOK
    <3> QED BY <2>2, <3>1, <1>1 DEF PopLayer, TypeInv, TypeOK
  <2> QED BY <2>1, <2>2 DEF SchedIdle
<1>3. TypeOK'
  BY <1>2 DEF TypeInv, TypeOK, SchedIdle, SendTypes, Kind
<1>4. IndexInv'
  BY <1>2 DEF TypeInv, IndexInv, SchedIdle, SendTypes, Kind
<1> QED BY <1>3, <1>4 DEF TypeInv

LEMMA SchedIdleAgainType == TypeInv /\ SchedIdleAgain => TypeInv'
<1> SUFFICES ASSUME TypeInv, SchedIdleAgain PROVE TypeInv'
  OBVIOUS
<1>1. /\ squeue' \in Seq(Kind)
      /\ \A kind \in Kind \ {"Idle"} : InQueue(kind)' => InQueue(kind)
  BY QueueIdleAgain DEF TypeInv, TypeOK, Kind, SchedIdleAgain, Take
<1>2. TypeOK'
  BY <1>1 DEF TypeInv, TypeOK, SchedIdleAgain, Kind
<1>3. IndexInv'
  BY <1>1 DEF TypeInv, IndexInv, SchedIdleAgain, Kind
<1> QED BY <1>2, <1>3 DEF TypeInv

(* Overwriting chunks of a buffer. *)
LEMMA FilledType ==
  ASSUME TypeInv, NEW b, NEW e \in Expert \cup {NoExpert}
  PROVE  Filled(b, e) \in [Buffer -> [Chunk -> Expert \cup {NoExpert}]]
<1>1. CASE b \in Buffer
  BY <1>1 DEF TypeInv, TypeOK, Filled
<1>2. CASE b \notin Buffer
  BY <1>2 DEF TypeInv, TypeOK, Filled
<1> QED BY <1>1, <1>2

(* current_task names an expert or none. *)
LEMMA CurrentExpertType == TypeInv => current.expert \in Expert \cup {NoExpert}
<1> SUFFICES ASSUME TypeInv PROVE current.expert \in Expert \cup {NoExpert}
  OBVIOUS
<1>1. CASE current \in CopyTask
  BY <1>1 DEF CopyTask
<1>2. CASE current = NoTask
  BY <1>2 DEF NoTask
<1> QED BY <1>1, <1>2 DEF TypeInv, TypeOK

LEMMA FetchStartType == TypeInv /\ FetchStart => TypeInv'
<1> SUFFICES ASSUME TypeInv, FetchStart PROVE TypeInv'
  OBVIOUS
<1>1. expert_status' \in [Expert -> Status]
  BY DEF TypeInv, TypeOK, FetchStart, Status
<1>2. content' \in [Buffer -> [Chunk -> Expert \cup {NoExpert}]]
  BY FilledType DEF FetchStart
<1>3. mapped' \in [Expert -> Buffer \cup {NoBuffer}]
  <2>1. CASE current.expert \in Expert
    BY <2>1 DEF TypeInv, TypeOK, FetchStart
  <2>2. CASE current.expert \notin Expert
    BY <2>2 DEF TypeInv, TypeOK, FetchStart
  <2> QED BY <2>1, <2>2
<1>4. TypeOK'
  BY <1>1, <1>2, <1>3 DEF TypeInv, TypeOK, FetchStart
<1>5. IndexInv'
  BY DEF TypeInv, IndexInv, FetchStart, InQueue
<1> QED BY <1>4, <1>5 DEF TypeInv

LEMMA FetchEndType == TypeInv /\ FetchEnd => TypeInv'
<1> SUFFICES ASSUME TypeInv, FetchEnd PROVE TypeInv'
  OBVIOUS
<1>1. content' \in [Buffer -> [Chunk -> Expert \cup {NoExpert}]]
  BY FilledType, CurrentExpertType DEF FetchEnd
<1>2. /\ squeue' \in Seq(Kind)
      /\ \A kind \in Kind \ {"FetchDone"} : InQueue(kind)' => InQueue(kind)
  BY QueueAppend DEF TypeInv, TypeOK, Kind, FetchEnd
<1>3. TypeOK'
  BY <1>1, <1>2 DEF TypeInv, TypeOK, FetchEnd, Kind
<1>4. IndexInv'
  BY <1>2 DEF TypeInv, IndexInv, FetchEnd, Kind
<1> QED BY <1>3, <1>4 DEF TypeInv

LEMMA StreamStepType == TypeInv /\ StreamStep => TypeInv'
<1> SUFFICES ASSUME TypeInv, StreamStep PROVE TypeInv'
  OBVIOUS
<1>1. stream' \in Seq(Expert)
  BY HeadTail DEF TypeInv, TypeOK, StreamStep
<1>2. TypeOK'
  BY <1>1, ZenonT(40) DEF TypeInv, TypeOK, StreamStep
<1>3. IndexInv'
  BY DEF TypeInv, IndexInv, StreamStep, InQueue
<1> QED BY <1>2, <1>3 DEF TypeInv

LEMMA UnlockType == TypeInv /\ Unlock => TypeInv'
<1> SUFFICES ASSUME TypeInv, Unlock PROVE TypeInv'
  OBVIOUS
<1>1. uqueue' \in Seq(Expert)
  BY HeadTail DEF TypeInv, TypeOK, Unlock
<1>2. expert_status' \in [Expert -> Status]
  BY DEF TypeInv, TypeOK, Unlock, CheckedTransfer, Transferred, Status
<1>3. TypeOK'
  BY <1>1, <1>2, ZenonT(40) DEF TypeInv, TypeOK, Unlock
<1>4. IndexInv'
  BY DEF TypeInv, IndexInv, Unlock, InQueue
<1> QED BY <1>3, <1>4 DEF TypeInv

LEMMA PredictStartType == TypeInv /\ PredictStart => TypeInv'
<1> SUFFICES ASSUME TypeInv, PredictStart PROVE TypeInv'
  OBVIOUS
<1>1. Head(predict_jobs) \in 0 .. NumLayer /\ predict_jobs' \in Seq(0 .. NumLayer)
  BY HeadTail DEF TypeInv, TypeOK, PredictStart
<1>2. pnext' \in 0 .. NumLayer /\ pstop' \in 0 .. NumLayer
  BY <1>1, ConstantsAssumption DEF PredictStart
<1>3. TypeOK'
  BY <1>1, <1>2 DEF TypeInv, TypeOK, PredictStart
<1>4. IndexInv'
  BY DEF TypeInv, IndexInv, PredictStart, InQueue
<1> QED BY <1>3, <1>4 DEF TypeInv

LEMMA PredictLayerType == TypeInv /\ PredictLayer => TypeInv'
<1> SUFFICES ASSUME TypeInv, PredictLayer PROVE TypeInv'
  OBVIOUS
<1>1. /\ squeue' \in Seq(Kind)
      /\ \A kind \in Kind \ {"Prefetch"} : InQueue(kind)' => InQueue(kind)
  BY QueueAppend DEF TypeInv, TypeOK, Kind, PredictLayer
<1>2. pexperts' \in Seq(ExpertIdx)
  <2>1. pnext \in Layer
    <3>1. pnext < pstop /\ pnext \in 0 .. NumLayer /\ pstop \in 0 .. NumLayer
      BY DEF TypeInv, TypeOK, PredictLayer
    <3>2. NumLayer \in Nat
      BY ConstantsAssumption
    <3> QED BY <3>1, <3>2 DEF Layer
  <2>2. NumPredict[pnext] \in Nat
    BY <2>1, ConstantsAssumption
  <2>3. pexperts' = << >> \/ pexperts' \in [1 .. NumPredict[pnext] -> ExpertIdx]
    BY DEF PredictLayer, Predictions, Ranked
  <2>4. << >> \in Seq(ExpertIdx)
    OBVIOUS
  <2>5. ASSUME NEW f \in [1 .. NumPredict[pnext] -> ExpertIdx] PROVE f \in Seq(ExpertIdx)
    BY <2>2, FunctionIsSeq
  <2> QED BY <2>3, <2>4, <2>5
<1>3. budget' \in Nat
  BY DEF TypeInv, TypeOK, PredictLayer
<1>4. TypeOK'
  BY <1>1, <1>2, <1>3 DEF TypeInv, TypeOK, PredictLayer, Kind
<1>5. IndexInv'
  BY <1>1 DEF TypeInv, IndexInv, PredictLayer, Kind
<1> QED BY <1>4, <1>5 DEF TypeInv

LEMMA PredictLayerDoneType == TypeInv /\ PredictLayerDone => TypeInv'
<1> SUFFICES ASSUME TypeInv, PredictLayerDone PROVE TypeInv'
  OBVIOUS
<1>1. pnext' \in 0 .. NumLayer
  <2>1. pnext < pstop /\ pnext \in 0 .. NumLayer /\ pstop \in 0 .. NumLayer /\ pnext' = pnext + 1
    BY DEF TypeInv, TypeOK, IndexInv, PredictLayerDone
  <2>2. NumLayer \in Nat
    BY ConstantsAssumption
  <2> QED BY <2>1, <2>2
<1>2. TypeOK'
  BY <1>1 DEF TypeInv, TypeOK, PredictLayerDone
<1>3. IndexInv'
  BY DEF TypeInv, IndexInv, PredictLayerDone, HandlerEnded, InQueue
<1> QED BY <1>2, <1>3 DEF TypeInv

(* Every step preserves the types and the index ranges. *)
LEMMA NextTypeInv == TypeInv /\ [Next]_vars => TypeInv'
<1> SUFFICES ASSUME TypeInv, [Next]_vars PROVE TypeInv'
  OBVIOUS
<1>1. CASE Hook
  BY <1>1, HookStartType, HookReportLayerType, HookReportExpertType, HookExpertDoneType,
     HookLayerDoneType DEF Hook
<1>2. CASE Scheduler
  BY <1>2, SchedPreemptType, SchedPreemptExpertType, SchedPreemptEndType, SchedPreemptOneType,
     SchedPrefetchLayerType, SchedFetchDoneType, SchedIdleType, SchedIdleAgainType DEF Scheduler
<1>3. CASE Fetcher
  BY <1>3, FetchStartType, FetchEndType DEF Fetcher
<1>4. CASE StreamStep
  BY <1>4, StreamStepType
<1>5. CASE Unlock
  BY <1>5, UnlockType
<1>6. CASE Predictor
  BY <1>6, PredictStartType, PredictLayerType, PredictLayerDoneType DEF Predictor
<1>7. CASE UNCHANGED vars
  BY <1>7, SMTT(30) DEF vars, TypeInv, TypeOK, IndexInv, InQueue
<1> QED BY <1>1, <1>2, <1>3, <1>4, <1>5, <1>6, <1>7 DEF Next, Step

(* Every state of the prefetcher is type correct: no index into a layer, a queue or a buffer *)
(* leaves its range.                                                                        *)
THEOREM TypeCorrect == Spec => []TypeOK
<1>1. Spec => []TypeInv
  BY InitTypeInv, NextTypeInv, PTL DEF Spec
<1>2. TypeInv => TypeOK
  BY DEF TypeInv
<1> QED BY <1>1, <1>2, PTL

-----------------------------------------------------------------------------
(* The buffers of the cache *)

(* The buffer taken from the unused ones belongs to no expert yet. *)
LEMMA TakeUnusedPartitions ==
  ASSUME TypeInv, BuffersPartitioned, NEW e \in Expert, gpu_data[e] = NoBuffer, TakeUnused(e)
  PROVE  BuffersPartitioned'
<1> DEFINE s == SlotOf(e)
           u == unused_mems[s]
           b == <<s, u>>
<1>1. s \in Slot /\ u \in Nat /\ u > 0
  BY SlotOfType DEF TypeInv, TypeOK, TakeUnused
<1>2. unused_mems' = [unused_mems EXCEPT ![s] = u - 1]
  BY DEF TakeUnused, Popped
<1>3. /\ gpu_data' = [gpu_data EXCEPT ![e] = b]
      /\ prefetched_experts' = [prefetched_experts EXCEPT ![e] = b]
  BY DEF TakeUnused
<1>4. \A f \in Expert : gpu_data[f] # b
  <2> SUFFICES ASSUME NEW f \in Expert, gpu_data[f] = b PROVE FALSE
    OBVIOUS
  <2>1. b # NoBuffer
    <3>1. u <= SlotLen[s] /\ SlotLen[s] \in Nat
      BY <1>1, ConstantsAssumption DEF TypeInv, IndexInv
    <3>2. b \in Buffer
      BY <1>1, <3>1 DEF Buffer
    <3> QED BY <3>2, ConstantsAssumption
  <2>2. b[1] = SlotOf(f) /\ b[2] > unused_mems[SlotOf(f)]
    BY <2>1 DEF BuffersPartitioned
  <2> QED BY <2>2, <1>1
<1>5. \A e1, e2 \in Expert : gpu_data'[e1] = gpu_data'[e2] /\ gpu_data'[e1] # NoBuffer => e1 = e2
  BY <1>3, <1>4 DEF BuffersPartitioned, TypeInv, TypeOK
<1>6. ASSUME NEW f \in Expert, gpu_data'[f] # NoBuffer
      PROVE  gpu_data'[f][1] = SlotOf(f) /\ gpu_data'[f][2] > unused_mems'[SlotOf(f)]
  <2>1. SlotOf(f) \in Slot /\ unused_mems[SlotOf(f)] \in Nat
    BY SlotOfType DEF TypeInv, TypeOK
  <2>2. CASE f = e
    BY <2>2, <1>1, <1>2, <1>3 DEF TypeInv, TypeOK
  <2>3. CASE f # e
    <3>1. gpu_data'[f] = gpu_data[f]
      BY <2>3, <1>3 DEF TypeInv, TypeOK
    <3>2. gpu_data[f][1] = SlotOf(f) /\ gpu_data[f][2] > unused_mems[SlotOf(f)]
      BY <3>1, <1>6 DEF BuffersPartitioned
    <3>3. gpu_data[f] \in Buffer
      BY <3>1, <1>6 DEF TypeInv, TypeOK
    <3>4. gpu_data[f][2] \in Nat
      BY <3>3 DEF Buffer
    <3> QED BY <3>1, <3>2, <3>4, <2>1, <1>1, <1>2, SMTT(30) DEF TypeInv, TypeOK
  <2> QED BY <2>2, <2>3
<1>7. gpu_data' = prefetched_experts'
  BY <1>3 DEF BuffersPartitioned
<1> QED BY <1>5, <1>6, <1>7 DEF BuffersPartitioned

(* The buffer of the evicted expert changes hands. *)
LEMMA EvictPartitions ==
  ASSUME TypeInv, BuffersPartitioned, NEW e \in Expert, gpu_data[e] = NoBuffer,
         NEW v \in InSlot(e), Evict(e, v)
  PROVE  BuffersPartitioned'
<1> DEFINE b == prefetched_experts[v]
<1>1. /\ v \in Expert /\ v # e
      /\ b = gpu_data[v] /\ b # NoBuffer /\ SlotOf(v) = SlotOf(e)
  BY DEF InSlot, IsInCache, BuffersPartitioned
<1>2. /\ gpu_data' = [gpu_data EXCEPT ![v] = NoBuffer, ![e] = b]
      /\ prefetched_experts' = [prefetched_experts EXCEPT ![v] = NoBuffer, ![e] = b]
      /\ unused_mems' = unused_mems
  BY DEF Evict
<1>3. \A e1, e2 \in Expert : gpu_data'[e1] = gpu_data'[e2] /\ gpu_data'[e1] # NoBuffer => e1 = e2
  BY <1>1, <1>2 DEF BuffersPartitioned, TypeInv, TypeOK
<1>4. \A f \in Expert : gpu_data'[f] # NoBuffer =>
        gpu_data'[f][1] = SlotOf(f) /\ gpu_data'[f][2] > unused_mems'[SlotOf(f)]
  BY <1>1, <1>2 DEF BuffersPartitioned, TypeInv, TypeOK
<1>5. gpu_data' = prefetched_experts'
  BY <1>2 DEF BuffersPartitioned
<1> QED BY <1>3, <1>4, <1>5 DEF BuffersPartitioned

(* Whatever job is sent. *)
LEMMA SendPartitions ==
  ASSUME TypeInv, BuffersPartitioned, NEW t \in CopyTask, SendOneJob(t)
  PROVE  BuffersPartitioned'
<1>e. t.expert \in Expert
  BY DEF CopyTask
<1>1. CASE UNCHANGED cacheVars
  BY <1>1 DEF BuffersPartitioned
<1>2. CASE gpu_data[t.expert] = NoBuffer /\ TakeUnused(t.expert)
  BY <1>2, <1>e, TakeUnusedPartitions
<1>3. ASSUME gpu_data[t.expert] = NoBuffer, NEW v \in InSlot(t.expert), Evict(t.expert, v)
      PROVE  BuffersPartitioned'
  BY <1>3, <1>e, EvictPartitions
<1> QED BY <1>1, <1>2, <1>3 DEF SendOneJob, SendMissed, SendDuplicate, SendRest

(* Only IdleTask moves buffers. *)
LEMMA NextPartitions == TypeInv /\ BuffersPartitioned /\ [Next]_vars => BuffersPartitioned'
<1> SUFFICES ASSUME TypeInv, BuffersPartitioned, [Next]_vars PROVE BuffersPartitioned'
  OBVIOUS
<1>1. CASE SchedIdle
  <2>1. CASE PopPrecise
    <3>1. Head(precise_job_queue) \in CopyTask
      BY <2>1, HeadTail DEF PopPrecise, TypeInv, TypeOK
    <3> QED BY <2>1, <3>1, SendPartitions DEF PopPrecise
  <2>2. ASSUME NEW l \in Layer, PopLayer(l) PROVE BuffersPartitioned'
    <3>1. Head(per_layer_job_queues[l]) \in CopyTask
      BY <2>2, HeadTail DEF PopLayer, TypeInv, TypeOK
    <3> QED BY <2>2, <3>1, SendPartitions DEF PopLayer
  <2> QED BY <1>1, <2>1, <2>2 DEF SchedIdle
<1>2. CASE UNCHANGED <<prefetched_experts, gpu_data, unused_mems>>
  BY <1>2 DEF BuffersPartitioned
<1>3. Step => SchedIdle \/ UNCHANGED <<prefetched_experts, gpu_data, unused_mems>>
  <2>1. Hook => UNCHANGED <<prefetched_experts, gpu_data, unused_mems>>
    BY DEF Hook, HookStart, HookReportLayer, HookReportExpert, HookExpertDone, HookLayerDone
  <2>2. Scheduler => SchedIdle \/ UNCHANGED <<prefetched_experts, gpu_data, unused_mems>>
    BY DEF Scheduler, SchedPreempt, SchedPreemptExpert, SchedPreemptEnd, SchedPreemptOne,
       SchedPrefetchLayer, SchedFetchDone, SchedIdleAgain
  <2>3. Fetcher \/ StreamStep \/ Unlock \/ Predictor =>
          UNCHANGED <<prefetched_experts, gpu_data, unused_mems>>
    BY DEF Fetcher, FetchStart, FetchEnd, StreamStep, Unlock, Predictor, PredictStart,
       PredictLayer, PredictLayerDone
  <2> QED BY <2>1, <2>2, <2>3 DEF Step
<1>4. UNCHANGED vars => UNCHANGED <<prefetched_experts, gpu_data, unused_mems>>
  BY DEF vars
<1> QED BY <1>1, <1>2, <1>3, <1>4 DEF Next

(* At first no expert owns a buffer. *)
LEMMA InitPartitions == Init => BuffersPartitioned
BY ConstantsAssumption DEF Init, BuffersPartitioned

(* CacheMngr::miss never gives one buffer to two experts, whatever the replacement policy     *)
(* evicts and whatever the sizes of the slots.                                                *)
THEOREM CachePartitionsBuffers == Spec => []BuffersPartitioned
<1>1. Spec => []TypeInv
  BY InitTypeInv, NextTypeInv, PTL DEF Spec
<1>2. Spec => []BuffersPartitioned
  BY <1>1, InitPartitions, NextPartitions, PTL DEF Spec
<1> QED BY <1>2
=============================================================================

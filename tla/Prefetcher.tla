----------------------------- MODULE Prefetcher -----------------------------
(***************************************************************************)
(* The expert cache and prefetcher of promoe (src/cpp_worker): the hook    *)
(* thread that runs the model, the schedule, fetch, predict and unlock     *)
(* worker threads, the compute stream of the GPU, and the expert buffers   *)
(* they share.                                                             *)
(*                                                                         *)
(* One action is one handler of a worker thread, or the part of a handler  *)
(* between two waits.  A worker queue is a sequence; wait_progress returns *)
(* once the task has left the queue and its handler has ended (module      *)
(* WorkerThread).  The preempt and prefetch tasks of the scheduler live on *)
(* the stack of the thread that adds them, so the queue of the scheduler   *)
(* holds their kind and their fields are the variables of that thread.     *)
(*                                                                         *)
(* The replacement policy is its interface alone: select_for_evict returns *)
(* some expert of the slot.  A failed CHECK ends the process: it is the    *)
(* value of aborted, and nothing happens after it.                         *)
(***************************************************************************)
EXTENDS Integers, Sequences, FiniteSets

CONSTANTS
  NumLayer,                  \* metas->num_layer
  ExpertIdx,                 \* the experts of one layer
  NumPerExpertParam,         \* metas->num_per_expert_param, the chunks of an expert
  EarlyPreempt, ReorderExperts, ChunkPrefetch, PerLayerCache,
  SlotLen,                   \* cache slot -> number of buffers in the slot
  NumPredict,                \* layer -> experts predicted for the layer
  MaxActive,                 \* bound: experts the gate of one layer activates
  MaxPrefetchLayerDistance,  \* initial prefetch budget
  PredictRange,              \* 0 .. NumLayer -> <<first, stop>> layers of the job it triggers
  MaxIter,                   \* bound: iterations (tokens) the hook runs
  NoExpert, NoBuffer         \* the null pointers

P == NumPerExpertParam
Layer == 0 .. (NumLayer - 1)
Expert == Layer \X ExpertIdx
Slot == IF PerLayerCache THEN Layer ELSE {0}
Buffer == UNION {{s} \X (1 .. SlotLen[s]) : s \in Slot}
Chunk == 0 .. (P - 1)
SlotOf(e) == IF PerLayerCache THEN e[1] ELSE 0

ASSUME ConstantsAssumption ==
  /\ NumLayer \in Nat \ {0}
  /\ NumPerExpertParam \in Nat \ {0}
  /\ {EarlyPreempt, ReorderExperts, ChunkPrefetch, PerLayerCache} \subseteq BOOLEAN
  /\ SlotLen \in [Slot -> Nat \ {0}]
  /\ NumPredict \in [Layer -> Nat]
  /\ MaxActive \in Nat \ {0}
  /\ MaxPrefetchLayerDistance \in Nat
  /\ PredictRange \in [0 .. NumLayer -> (0 .. NumLayer) \X (0 .. NumLayer)]
  /\ \A t \in 0 .. NumLayer : PredictRange[t][1] <= PredictRange[t][2]
  /\ MaxIter \in Nat
  /\ NoExpert \notin Expert
  /\ NoBuffer \notin Buffer

VARIABLES
  \* hook thread (PrefetchMngr called from the python hooks)
  hpc, iter, layer, experts, idx,
  \* schedule worker
  squeue, spc, sidx, current, precise_job_queue, per_layer_job_queues, budget,
  \* expert handlers and cache
  prefetched_experts, gpu_data, unused_mems, num_ready, expert_status,
  \* fetch worker, with the expert its lambda_wait waits for
  fpc, victim,
  \* unlock worker, and the events the compute stream has not reached
  uqueue, stream,
  \* device memory: the buffer an expert's parameters are mapped to, and what a buffer holds
  mapped, content,
  \* predict worker
  predict_jobs, ppc, pnext, pstop, pexperts, prefetch_layer_progress,
  aborted

hookVars    == <<hpc, iter, layer, experts, idx>>
schedVars   == <<squeue, spc, sidx, current, precise_job_queue, per_layer_job_queues>>
cacheVars   == <<prefetched_experts, gpu_data, unused_mems, num_ready>>
fetchVars   == <<fpc, victim>>
unlockVars  == <<uqueue, stream>>
memVars     == <<mapped, content>>
predictVars == <<predict_jobs, ppc, pnext, pstop, pexperts>>
vars == <<hookVars, schedVars, budget, cacheVars, expert_status, fetchVars, unlockVars,
          memVars, predictVars, prefetch_layer_progress, aborted>>

CopyTask == [expert : Expert, start : 0 .. P, stop : 0 .. P, is_precise : BOOLEAN]
NoTask == [expert |-> NoExpert, start |-> 0, stop |-> 0, is_precise |-> FALSE]
Task(e, start, stop, precise) ==
  [expert |-> e, start |-> start, stop |-> stop, is_precise |-> precise]

Status == {"Idle", "Fetching", "Ready", "Launching", "Using"}

(* The experts a gate activates and those a predictor ranks first: distinct, in any order. *)
Ranked(n) ==
  {s \in [1 .. n -> ExpertIdx] : \A i, j \in 1 .. n : s[i] = s[j] => i = j}
Activations == UNION {Ranked(n) : n \in 1 .. MaxActive}
Predictions(l) == {<< >>} \cup Ranked(NumPredict[l])

Init ==
  /\ hpc = "start" /\ iter = 0 /\ layer = 0 /\ experts = << >> /\ idx = 1
  /\ squeue = <<"Idle">> /\ spc = "ready" /\ sidx = 1 /\ current = NoTask
  /\ precise_job_queue = << >> /\ per_layer_job_queues = [l \in Layer |-> << >>]
  /\ budget = MaxPrefetchLayerDistance
  /\ prefetched_experts = [e \in Expert |-> NoBuffer]
  /\ gpu_data = [e \in Expert |-> NoBuffer]
  /\ unused_mems = SlotLen
  /\ num_ready = [e \in Expert |-> 0]
  /\ expert_status = [e \in Expert |-> "Idle"]
  /\ fpc = "idle" /\ victim = NoExpert
  /\ uqueue = << >> /\ stream = << >>
  /\ mapped = [e \in Expert |-> NoBuffer]
  /\ content = [b \in Buffer |-> [c \in Chunk |-> NoExpert]]
  /\ predict_jobs = IF PredictRange[NumLayer][1] < PredictRange[NumLayer][2]
                      THEN <<NumLayer>> ELSE << >>
  /\ ppc = "ready" /\ pnext = 0 /\ pstop = 0 /\ pexperts = << >>
  /\ prefetch_layer_progress = 0
  /\ aborted = "none"

-----------------------------------------------------------------------------
(* AtomicMultiStatusLock::transfer.  In a checked transfer the caller's CHECK fails when the  *)
(* status is not the expected one; an unchecked one then changes nothing.                     *)
Transferred(e, from, to) ==
  IF expert_status[e] = from THEN [expert_status EXCEPT ![e] = to] ELSE expert_status

CheckedTransfer(e, from, to, line) ==
  /\ expert_status' = Transferred(e, from, to)
  /\ aborted' = IF expert_status[e] = from THEN aborted ELSE line

InQueue(kind) == \E i \in 1 .. Len(squeue) : squeue[i] = kind
(* wait_progress of the thread that added a task of this kind. *)
HandlerEnded(kind) == spc = "ready" /\ ~InQueue(kind)

IsInCache(e) == prefetched_experts[e] # NoBuffer
HookExpert == <<layer, experts[idx]>>

(* Mutation of JobsAfter: no job is added. *)
JobsLost(t) == predict_jobs

(* Mutation of JobsAfter: a job is added one layer too early. *)
JobsEarly(t) ==
  IF t < NumLayer /\ PredictRange[t + 1][1] < PredictRange[t + 1][2]
    THEN Append(predict_jobs, t + 1) ELSE predict_jobs

(* predict_thread->add_one_task, when logits of layer t (NumLayer: the last output, or the   *)
(* end of an iteration) enable a predict job.                                                *)
JobsAfter(t) ==
  IF PredictRange[t][1] < PredictRange[t][2] THEN Append(predict_jobs, t) ELSE predict_jobs

-----------------------------------------------------------------------------
(* Hook thread *)

(* MoeLayerHook.pre_forward of layer 0 reports the input logits of the iteration. *)
HookStart ==
  /\ hpc = "start"
  /\ predict_jobs' = JobsAfter(0)
  /\ hpc' = "layer"
  /\ UNCHANGED <<iter, layer, experts, idx, schedVars, budget, cacheVars, expert_status,
                 fetchVars, unlockVars, memVars, ppc, pnext, pstop, pexperts,
                 prefetch_layer_progress, aborted>>

(* report_one_layer: the gate's choice has reached the host, so the compute stream has run   *)
(* every earlier kernel; consume one prefetch progress, then preempt the layer.              *)
HookReportLayer ==
  /\ hpc = "layer"
  /\ stream = << >>
  /\ prefetch_layer_progress > 0
  /\ prefetch_layer_progress' = prefetch_layer_progress - 1
  /\ experts' \in Activations
  /\ idx' = 1
  /\ squeue' = Append(squeue, "Preempt")
  /\ hpc' = "expert"
  /\ UNCHANGED <<iter, layer, spc, sidx, current, precise_job_queue, per_layer_job_queues,
                 budget, cacheVars, expert_status, fetchVars, unlockVars, memVars,
                 predictVars, aborted>>

(* report_one_expert, up to the wait. *)
HookReportExpert ==
  /\ hpc = "expert"
  /\ HandlerEnded("Preempt")
  /\ squeue' = IF EarlyPreempt THEN squeue ELSE Append(squeue, "PreemptOne")
  /\ hpc' = "wait"
  /\ UNCHANGED <<iter, layer, experts, idx, spc, sidx, current, precise_job_queue,
                 per_layer_job_queues, budget, cacheVars, expert_status, fetchVars,
                 unlockVars, memVars, predictVars, prefetch_layer_progress, aborted>>

(* wait_expert returns, the kernels of the expert are launched, and one_expert_done records  *)
(* the event and hands the expert to the unlock worker.                                      *)
HookExpertDone ==
  /\ hpc = "wait"
  /\ HandlerEnded("PreemptOne")
  /\ expert_status[HookExpert] = "Launching"
  /\ expert_status' = [expert_status EXCEPT ![HookExpert] = "Using"]
  /\ stream' = Append(stream, HookExpert)
  /\ uqueue' = Append(uqueue, HookExpert)
  /\ idx' = idx + 1
  /\ hpc' = IF idx < Len(experts) THEN "expert" ELSE "layer_done"
  /\ UNCHANGED <<iter, layer, experts, schedVars, budget, cacheVars, fetchVars, memVars,
                 predictVars, prefetch_layer_progress, aborted>>

(* Mutation of NextLayer: the layer index is not wrapped. *)
NextLayerUnwrapped == layer + 1

NextLayer == IF layer = NumLayer - 1 THEN 0 ELSE layer + 1

(* Mutations of BudgetAfterLayer: the test of early_preempt dropped, or negated. *)
BudgetAlways == budget + 1
BudgetNever == budget

BudgetAfterLayer == IF EarlyPreempt THEN budget ELSE budget + 1

(* MoeLayerHook.post_forward: report the output logits, then one_moe_layer_done. *)
HookLayerDone ==
  /\ hpc = "layer_done"
  /\ predict_jobs' = JobsAfter(layer + 1)
  /\ budget' = BudgetAfterLayer
  /\ layer' = NextLayer
  /\ IF layer = NumLayer - 1
       THEN iter' = iter + 1 /\ hpc' = IF iter + 1 < MaxIter THEN "start" ELSE "done"
       ELSE iter' = iter /\ hpc' = "layer"
  /\ experts' = << >> /\ idx' = 1
  /\ UNCHANGED <<schedVars, cacheVars, expert_status, fetchVars, unlockVars, memVars,
                 ppc, pnext, pstop, pexperts, prefetch_layer_progress, aborted>>

Hook == HookStart \/ HookReportLayer \/ HookReportExpert \/ HookExpertDone \/ HookLayerDone

-----------------------------------------------------------------------------
(* Schedule worker *)

(* Mutation of IdleAgain: the task is not added again. *)
IdleDropped == Tail(squeue)

(* The task at the head is done, and IdleTask is added behind what other threads added. *)
IdleAgain == Append(Tail(squeue), "Idle")

Take(kind) == spc = "ready" /\ squeue # << >> /\ Head(squeue) = kind

(* reorder_experts: the class of an expert, and r the stable rearrangement of the hook's     *)
(* array by class.                                                                           *)
ReorderClass(e) ==
  CASE e = current.expert                       -> 2   \* going_experts
    [] e # current.expert /\ ~IsInCache(e)      -> 4   \* miss_experts
    [] e # current.expert /\ IsInCache(e) /\ num_ready[e] = P -> 1   \* done_experts
    [] OTHER                                    -> 3   \* partial_experts

Reordering(r) ==
  LET n == Len(experts)
      class(i) == ReorderClass(<<layer, experts[i]>>)
  IN \E p \in [1 .. n -> 1 .. n] :
       /\ \A i, j \in 1 .. n : i < j =>
            \/ class(p[i]) < class(p[j])
            \/ class(p[i]) = class(p[j]) /\ p[i] < p[j]
       /\ r = [i \in 1 .. n |-> experts[p[i]]]

(* Mutation of Cleared: what is queued for the layer stays. *)
NotCleared == per_layer_job_queues

Cleared == [per_layer_job_queues EXCEPT ![layer] = << >>]

(* PreemptTask up to its loop; without early_preempt there is none. *)
SchedPreempt ==
  /\ Take("Preempt")
  /\ squeue' = Tail(squeue)
  /\ IF ReorderExperts
       THEN \E r \in [1 .. Len(experts) -> ExpertIdx] : Reordering(r) /\ experts' = r
       ELSE experts' = experts
  /\ IF EarlyPreempt
       THEN spc' = "preempting" /\ sidx' = 1 /\ per_layer_job_queues' = per_layer_job_queues
       ELSE per_layer_job_queues' = Cleared /\ spc' = spc /\ sidx' = sidx
  /\ UNCHANGED <<hpc, iter, layer, idx, current, precise_job_queue, budget, cacheVars,
                 expert_status, fetchVars, unlockVars, memVars, predictVars,
                 prefetch_layer_progress, aborted>>

(* Mutation of AddPrecise: the newest task is served first. *)
AddPreciseFirst(e, start) ==
  /\ precise_job_queue' = <<Task(e, start, P, TRUE)>> \o precise_job_queue
  /\ UNCHANGED <<current, expert_status, aborted>>

AddPrecise(e, start) ==
  /\ precise_job_queue' = Append(precise_job_queue, Task(e, start, P, TRUE))
  /\ UNCHANGED <<current, expert_status, aborted>>

(* The cases of preempt_one_expert and of the loop of preempt_one_layer_without_reorder_;    *)
(* behindMiss: an earlier expert of the layer is not in the cache and may evict this one.    *)
(* An expert that is all there is launched at once, the copy in flight is promoted, and what *)
(* is missing gets a precise task.                                                           *)
PreemptExpert(e, behindMiss, line) ==
  \/ (~IsInCache(e) \/ behindMiss) /\ AddPrecise(e, 0)
  \/ /\ IsInCache(e) /\ ~behindMiss /\ num_ready[e] = P
     /\ CheckedTransfer(e, "Ready", "Launching", line)
     /\ UNCHANGED <<precise_job_queue, current>>
  \/ /\ IsInCache(e) /\ ~behindMiss /\ num_ready[e] # P /\ e = current.expert
     /\ current' = [current EXCEPT !.is_precise = TRUE]
     /\ precise_job_queue' = IF current.stop = P THEN precise_job_queue
                               ELSE Append(precise_job_queue, Task(e, current.stop, P, TRUE))
     /\ UNCHANGED <<expert_status, aborted>>
  \/ /\ IsInCache(e) /\ ~behindMiss /\ num_ready[e] # P /\ e # current.expert
     /\ AddPrecise(e, num_ready[e])

(* Mutation of BehindMiss: no redundant task for an expert that may be evicted. *)
NeverBehindMiss(i) == FALSE

(* preceeding_experts_in_cache is false when the loop reaches the expert at i. *)
BehindMiss(i) == \E j \in 1 .. (i - 1) : ~IsInCache(<<layer, experts[j]>>)

(* One round of the loop of preempt_one_layer_without_reorder_. *)
SchedPreemptExpert ==
  /\ spc = "preempting" /\ sidx <= Len(experts)
  /\ PreemptExpert(<<layer, experts[sidx]>>,
                   BehindMiss(sidx),
                   "prefetcher.cpp:105")
  /\ sidx' = sidx + 1
  /\ UNCHANGED <<hookVars, squeue, spc, per_layer_job_queues, budget, cacheVars, fetchVars,
                 unlockVars, memVars, predictVars, prefetch_layer_progress>>

(* The end of PreemptTask: one more layer may be prefetched, and what is still queued for    *)
(* this layer is dropped.                                                                    *)
SchedPreemptEnd ==
  /\ spc = "preempting" /\ sidx > Len(experts)
  /\ budget' = budget + 1
  /\ per_layer_job_queues' = Cleared
  /\ spc' = "ready" /\ sidx' = 1
  /\ UNCHANGED <<hookVars, squeue, current, precise_job_queue, cacheVars, expert_status,
                 fetchVars, unlockVars, memVars, predictVars, prefetch_layer_progress, aborted>>

SchedPreemptOne ==
  /\ Take("PreemptOne")
  /\ squeue' = Tail(squeue)
  /\ PreemptExpert(HookExpert, FALSE, "prefetcher.cpp:55")
  /\ UNCHANGED <<hookVars, spc, sidx, per_layer_job_queues, budget, cacheVars, fetchVars,
                 unlockVars, memVars, predictVars, prefetch_layer_progress>>

(* PrefetchLayerTask: P tasks of one chunk for each expert, or one task of P chunks. *)
PrefetchTasks(l, es) ==
  IF ChunkPrefetch
    THEN [k \in 1 .. (Len(es) * P) |->
            Task(<<l, es[((k - 1) \div P) + 1]>>, (k - 1) % P, ((k - 1) % P) + 1, FALSE)]
    ELSE [k \in 1 .. Len(es) |-> Task(<<l, es[k]>>, 0, P, FALSE)]

SchedPrefetchLayer ==
  /\ Take("Prefetch")
  /\ squeue' = Tail(squeue)
  /\ per_layer_job_queues' =
       [per_layer_job_queues EXCEPT ![pnext] = @ \o PrefetchTasks(pnext, pexperts)]
  /\ aborted' = IF per_layer_job_queues[pnext] # << >> THEN "prefetcher.cpp:588"
                ELSE IF current.expert # NoExpert /\ current.expert[1] = pnext
                       THEN "prefetcher.cpp:589" ELSE aborted
  /\ UNCHANGED <<hookVars, spc, sidx, current, precise_job_queue, budget, cacheVars,
                 expert_status, fetchVars, unlockVars, memVars, predictVars,
                 prefetch_layer_progress>>

(* Mutations of FetchedStatus: is_precise is ignored. *)
FetchedStatusPinned == "Launching"
FetchedStatusUnpinned == "Ready"

FetchedStatus == IF current.is_precise THEN "Launching" ELSE "Ready"

(* FetchDoneTask *)
SchedFetchDone ==
  /\ Take("FetchDone")
  /\ squeue' = IdleAgain
  /\ num_ready' = [num_ready EXCEPT ![current.expert] = current.stop]
  /\ IF current.stop = P
       THEN CheckedTransfer(current.expert, "Fetching", FetchedStatus, "prefetcher.cpp:566")
       ELSE UNCHANGED <<expert_status, aborted>>
  /\ current' = NoTask
  /\ UNCHANGED <<hookVars, spc, sidx, precise_job_queue, per_layer_job_queues, budget,
                 prefetched_experts, gpu_data, unused_mems, fetchVars, unlockVars, memVars,
                 predictVars, prefetch_layer_progress>>

(* The task is handed to the fetch worker, which first waits for the expert v. *)
Fetch(t, v) ==
  /\ current' = t
  /\ fpc' = "wait" /\ victim' = v
  /\ squeue' = Tail(squeue)

(* Mutation of Popped: the buffer stays among the unused. *)
NotPopped(s) == unused_mems

Popped(s) == [unused_mems EXCEPT ![s] = @ - 1]

(* CacheMngr::miss with a free buffer in the slot of e: its last one. *)
TakeUnused(e) ==
  LET s == SlotOf(e)
      b == <<s, unused_mems[s]>>
  IN /\ unused_mems[s] > 0
     /\ unused_mems' = Popped(s)
     /\ prefetched_experts' = [prefetched_experts EXCEPT ![e] = b]
     /\ gpu_data' = [gpu_data EXCEPT ![e] = b]
     /\ num_ready' = num_ready
     /\ CheckedTransfer(e, "Idle", "Fetching", "prefetcher.cpp:628")

WithoutChunks(v) == [num_ready EXCEPT ![v] = 0]
Pinned(v) == expert_status[v] \in {"Launching", "Using"}

(* CacheMngr::miss that evicts v: e takes its buffer at once, also when v is in use; then    *)
(* the fetch worker waits before it writes.                                                  *)
Evict(e, v) ==
  LET b == prefetched_experts[v]
  IN /\ unused_mems[SlotOf(e)] = 0
     /\ prefetched_experts' = [prefetched_experts EXCEPT ![v] = NoBuffer, ![e] = b]
     /\ gpu_data' = [gpu_data EXCEPT ![v] = NoBuffer, ![e] = b]
     /\ num_ready' = WithoutChunks(v)
     /\ expert_status' = [expert_status EXCEPT
                            ![v] = IF Pinned(v) THEN @ ELSE "Idle", ![e] = "Fetching"]
     /\ aborted' = IF expert_status[v] = "Idle" THEN "cache.cpp:301"
                   ELSE IF gpu_data[v] # b THEN "cache.cpp:304"
                   ELSE IF expert_status[e] # "Idle" THEN "prefetcher.cpp:628" ELSE aborted
     /\ UNCHANGED unused_mems

InSlot(e) == {v \in Expert : IsInCache(v) /\ SlotOf(v) = SlotOf(e)}

(* send_one_job for an expert without a buffer. *)
SendMissed(t) ==
  /\ gpu_data[t.expert] = NoBuffer
  /\ IF t.start # 0 \/ num_ready[t.expert] # 0
       THEN /\ aborted' = IF t.start # 0 THEN "prefetcher.cpp:623" ELSE "prefetcher.cpp:624"
            /\ UNCHANGED <<squeue, current, cacheVars, expert_status, fetchVars>>
       ELSE \/ TakeUnused(t.expert) /\ Fetch(t, NoExpert)
            \/ \E v \in InSlot(t.expert) :
                 Evict(t.expert, v) /\ Fetch(t, IF Pinned(v) THEN v ELSE NoExpert)

(* send_one_job for a task whose chunks are all there: nothing to copy, IdleTask again. *)
SendDuplicate(t) ==
  /\ gpu_data[t.expert] # NoBuffer
  /\ num_ready[t.expert] >= t.stop
  /\ expert_status' = IF t.is_precise THEN Transferred(t.expert, "Ready", "Launching")
                      ELSE expert_status
  /\ aborted' = IF t.is_precise /\ num_ready[t.expert] # P THEN "prefetcher.cpp:641"
                ELSE aborted
  /\ current' = NoTask
  /\ squeue' = IdleAgain
  /\ UNCHANGED <<cacheVars, fetchVars>>

(* send_one_job for the chunks that are still missing. *)
SendRest(t) ==
  /\ gpu_data[t.expert] # NoBuffer
  /\ num_ready[t.expert] < t.stop
  /\ aborted' = IF num_ready[t.expert] < t.start THEN "prefetcher.cpp:649" ELSE aborted
  /\ Fetch([t EXCEPT !.start = num_ready[t.expert]], NoExpert)
  /\ UNCHANGED <<cacheVars, expert_status>>

SendOneJob(t) == SendMissed(t) \/ SendDuplicate(t) \/ SendRest(t)

(* IdleTask: a precise job first, else the first job of the lowest layer that has one. *)
PopPrecise ==
  /\ precise_job_queue # << >>
  /\ precise_job_queue' = Tail(precise_job_queue)
  /\ UNCHANGED per_layer_job_queues
  /\ SendOneJob(Head(precise_job_queue))

PopLayer(l) ==
  /\ precise_job_queue = << >>
  /\ per_layer_job_queues[l] # << >>
  /\ \A k \in 0 .. (l - 1) : per_layer_job_queues[k] = << >>
  /\ per_layer_job_queues' = [per_layer_job_queues EXCEPT ![l] = Tail(@)]
  /\ UNCHANGED precise_job_queue
  /\ SendOneJob(Head(per_layer_job_queues[l]))

SchedIdle ==
  /\ Take("Idle")
  /\ PopPrecise \/ \E l \in Layer : PopLayer(l)
  /\ UNCHANGED <<hookVars, spc, sidx, budget, unlockVars, memVars, predictVars,
                 prefetch_layer_progress>>

(* IdleTask with nothing to do puts itself behind what other threads added. *)
SchedIdleAgain ==
  /\ Take("Idle")
  /\ precise_job_queue = << >> /\ \A l \in Layer : per_layer_job_queues[l] = << >>
  /\ squeue' = IdleAgain
  /\ UNCHANGED <<hookVars, spc, sidx, current, precise_job_queue, per_layer_job_queues, budget,
                 cacheVars, expert_status, fetchVars, unlockVars, memVars, predictVars,
                 prefetch_layer_progress, aborted>>

Scheduler ==
  \/ SchedPreempt \/ SchedPreemptExpert \/ SchedPreemptEnd \/ SchedPreemptOne
  \/ SchedPrefetchLayer \/ SchedFetchDone \/ SchedIdle \/ SchedIdleAgain

-----------------------------------------------------------------------------
(* Fetch worker *)

(* Mutation of CopyChunks: the last chunk is left out. *)
CopyChunksShort == {c \in Chunk : current.start <= c /\ c < current.stop - 1}

CopyChunks == {c \in Chunk : current.start <= c /\ c < current.stop}
Filled(b, e) ==
  [content EXCEPT ![b] = [c \in Chunk |-> IF c \in CopyChunks THEN e ELSE content[b][c]]]

(* Mutation of VictimReleased: no wait. *)
VictimIgnored == TRUE

VictimReleased == victim # NoExpert => expert_status[victim] = "Ready"

(* lambda_wait returns, the copies are issued, and a first chunk maps the parameters of the  *)
(* expert to the buffer: from now on the buffer is being overwritten.                        *)
FetchStart ==
  /\ fpc = "wait"
  /\ VictimReleased
  /\ expert_status' = IF victim = NoExpert THEN expert_status
                      ELSE [expert_status EXCEPT ![victim] = "Idle"]
  /\ content' = Filled(gpu_data[current.expert], NoExpert)
  /\ mapped' = IF current.start = 0
                 THEN [mapped EXCEPT ![current.expert] = gpu_data[current.expert]] ELSE mapped
  /\ fpc' = "copy" /\ victim' = NoExpert
  /\ UNCHANGED <<hookVars, schedVars, budget, cacheVars, unlockVars, predictVars,
                 prefetch_layer_progress, aborted>>

(* cudaStreamSynchronize returns. *)
FetchEnd ==
  /\ fpc = "copy"
  /\ content' = Filled(gpu_data[current.expert], current.expert)
  /\ squeue' = Append(squeue, "FetchDone")
  /\ fpc' = "idle"
  /\ UNCHANGED <<hookVars, spc, sidx, current, precise_job_queue, per_layer_job_queues, budget,
                 cacheVars, expert_status, victim, unlockVars, mapped, predictVars,
                 prefetch_layer_progress, aborted>>

Fetcher == FetchStart \/ FetchEnd

-----------------------------------------------------------------------------
(* The compute stream reaches the event of its oldest expert. *)
StreamStep ==
  /\ stream # << >>
  /\ stream' = Tail(stream)
  /\ UNCHANGED <<hookVars, schedVars, budget, cacheVars, expert_status, fetchVars, uqueue,
                 memVars, predictVars, prefetch_layer_progress, aborted>>

(* Unlock worker: the event of its oldest expert has been reached. *)
Unlock ==
  /\ uqueue # << >>
  /\ expert_status[Head(uqueue)] = "Using"
  /\ \A i \in 1 .. Len(stream) : stream[i] # Head(uqueue)
  /\ CheckedTransfer(Head(uqueue), "Using", "Ready", "worker.cpp:82")
  /\ uqueue' = Tail(uqueue)
  /\ UNCHANGED <<hookVars, schedVars, budget, cacheVars, fetchVars, stream, memVars,
                 predictVars, prefetch_layer_progress>>

-----------------------------------------------------------------------------
(* Predict worker *)

(* A job: the layers its prediction is about. *)
PredictStart ==
  /\ ppc = "ready" /\ pnext = pstop /\ predict_jobs # << >>
  /\ predict_jobs' = Tail(predict_jobs)
  /\ pnext' = PredictRange[Head(predict_jobs)][1]
  /\ pstop' = PredictRange[Head(predict_jobs)][2]
  /\ UNCHANGED <<hookVars, schedVars, budget, cacheVars, expert_status, fetchVars, unlockVars,
                 memVars, ppc, pexperts, prefetch_layer_progress, aborted>>

(* Wait for budget, then add the prefetch task of the next layer. *)
PredictLayer ==
  /\ ppc = "ready" /\ pnext < pstop
  /\ budget > 0
  /\ budget' = budget - 1
  /\ pexperts' \in Predictions(pnext)
  /\ squeue' = Append(squeue, "Prefetch")
  /\ ppc' = "submitted"
  /\ UNCHANGED <<hookVars, spc, sidx, current, precise_job_queue, per_layer_job_queues,
                 cacheVars, expert_status, fetchVars, unlockVars, memVars, predict_jobs,
                 pnext, pstop, prefetch_layer_progress, aborted>>

(* The scheduler has queued the layer: tell the hook. *)
PredictLayerDone ==
  /\ ppc = "submitted" /\ HandlerEnded("Prefetch")
  /\ prefetch_layer_progress' = prefetch_layer_progress + 1
  /\ pnext' = pnext + 1
  /\ ppc' = "ready" /\ pexperts' = << >>
  /\ UNCHANGED <<hookVars, schedVars, budget, cacheVars, expert_status, fetchVars, unlockVars,
                 memVars, predict_jobs, pstop, aborted>>

Predictor == PredictStart \/ PredictLayer \/ PredictLayerDone

-----------------------------------------------------------------------------
Step == Hook \/ Scheduler \/ Fetcher \/ StreamStep \/ Unlock \/ Predictor
Next == aborted = "none" /\ Step

Spec == Init /\ [][Next]_vars

(* Every thread is scheduled, and the device finishes its work. *)
Fairness ==
  /\ WF_vars(aborted = "none" /\ Hook) /\ WF_vars(aborted = "none" /\ Scheduler)
  /\ WF_vars(aborted = "none" /\ Fetcher) /\ WF_vars(aborted = "none" /\ StreamStep)
  /\ WF_vars(aborted = "none" /\ Unlock) /\ WF_vars(aborted = "none" /\ Predictor)
FairSpec == Spec /\ Fairness
-----------------------------------------------------------------------------
(* Properties *)

(* Every variable has its type, layer indices stay in range, and the hook's position stays    *)
(* inside the layer it runs (PrefetchMngr, FetchScheduleWorker and CacheMngr state).          *)
TypeOK ==
  /\ hpc \in {"start", "layer", "expert", "wait", "layer_done", "done"}
  /\ iter \in Nat /\ layer \in Layer
  /\ experts \in Seq(ExpertIdx) /\ idx \in Nat \ {0}
  /\ squeue \in Seq({"Idle", "FetchDone", "Preempt", "PreemptOne", "Prefetch"})
  /\ spc \in {"ready", "preempting"} /\ sidx \in Nat \ {0}
  /\ current \in CopyTask \cup {NoTask}
  /\ precise_job_queue \in Seq(CopyTask)
  /\ per_layer_job_queues \in [Layer -> Seq(CopyTask)]
  /\ budget \in Nat
  /\ prefetched_experts \in [Expert -> Buffer \cup {NoBuffer}]
  /\ gpu_data \in [Expert -> Buffer \cup {NoBuffer}]
  /\ unused_mems \in [Slot -> Nat]
  /\ num_ready \in [Expert -> 0 .. P]
  /\ expert_status \in [Expert -> Status]
  /\ fpc \in {"idle", "wait", "copy"} /\ victim \in Expert \cup {NoExpert}
  /\ uqueue \in Seq(Expert) /\ stream \in Seq(Expert)
  /\ mapped \in [Expert -> Buffer \cup {NoBuffer}]
  /\ content \in [Buffer -> [Chunk -> Expert \cup {NoExpert}]]
  /\ predict_jobs \in Seq(0 .. NumLayer)
  /\ ppc \in {"ready", "submitted"} /\ pnext \in 0 .. NumLayer /\ pstop \in 0 .. NumLayer
  /\ pexperts \in Seq(ExpertIdx)
  /\ prefetch_layer_progress \in Nat

(* The cache partitions the device buffers: two experts never own one buffer, an owned buffer *)
(* is of the expert's slot and not among the unused ones, and the expert's gpu_data is the    *)
(* buffer prefetched_experts records (CacheMngr::miss moves it between three places).         *)
BuffersPartitioned ==
  /\ \A e1, e2 \in Expert : gpu_data[e1] = gpu_data[e2] /\ gpu_data[e1] # NoBuffer => e1 = e2
  /\ \A e \in Expert : gpu_data[e] # NoBuffer =>
       gpu_data[e][1] = SlotOf(e) /\ gpu_data[e][2] > unused_mems[SlotOf(e)]
  /\ gpu_data = prefetched_experts

InStream(e) == \E i \in 1 .. Len(stream) : stream[i] = e

(* From the moment the hook may launch an expert until its kernels have ended, the buffer its *)
(* parameters are mapped to holds all its chunks and nothing else, although the cache may     *)
(* already have given the buffer to another expert (lambda_wait of CacheMngr::miss).          *)
ComputeReadsOwnWeights ==
  \A e \in Expert : expert_status[e] \in {"Launching", "Using"} \/ InStream(e) =>
    mapped[e] # NoBuffer /\ \A c \in Chunk : content[mapped[e]][c] = e

(* The experts of the layer the hook has not used yet. *)
Awaited ==
  IF hpc \in {"expert", "wait"} THEN {<<layer, experts[i]>> : i \in idx .. Len(experts)} ELSE {}

Queued(q) == {q[i] : i \in 1 .. Len(q)}

(* Only an expert the hook still has to use is pinned for it: no expert stays kLaunching, and *)
(* no precise job stays queued or in flight, once the hook is past the expert.  A leaked pin  *)
(* would block the fetch worker the next time the expert is evicted.                          *)
NoPinLeak ==
  /\ \A e \in Expert : expert_status[e] = "Launching" => e \in Awaited
  /\ \A t \in Queued(precise_job_queue) : t.expert \in Awaited
  /\ current.is_precise => current.expert \in Awaited

(* An expert the schedule worker will make kLaunching without being asked again. *)
InService(e) ==
  \/ expert_status[e] = "Launching"
  \/ \E t \in Queued(precise_job_queue) : t.expert = e
  \/ current.expert = e /\ current.is_precise /\ current.stop = P

(* Once the preempt handler of a layer (of an expert, without early_preempt) has ended, each  *)
(* expert the hook waits for is launched or has a precise job that will launch it: none is    *)
(* dropped as a duplicate, promoted too late or cleared with the layer's queue.               *)
AwaitedServed ==
  aborted = "none" =>
    IF EarlyPreempt
      THEN HandlerEnded("Preempt") => \A e \in Awaited : InService(e)
      ELSE hpc = "wait" /\ HandlerEnded("PreemptOne") => InService(HookExpert)

Count(q, x) == Cardinality({i \in 1 .. Len(q) : q[i] = x})

(* The fetch worker reads the scheduler's current_task through a pointer, so the scheduler    *)
(* must not pop another job while a copy is under way: of an IdleTask, a FetchDoneTask and a  *)
(* busy fetch worker there is always exactly one.                                             *)
OneJobInFlight ==
  /\ aborted = "none" =>
       Count(squeue, "Idle") + Count(squeue, "FetchDone") + (IF fpc = "idle" THEN 0 ELSE 1) = 1
  /\ fpc # "idle" => current.expert # NoExpert /\ gpu_data[current.expert] # NoBuffer

(* Layers follow each other in a ring. *)
Wrap(x) == IF x = NumLayer THEN 0 ELSE x

(* The logits before t, in the order of the hook: last output, input, outputs of the layers. *)
Before(t) == IF t = 0 THEN NumLayer ELSE t - 1

(* The predict jobs continue one another: upto[t] is the layer after the last one predicted   *)
(* when logits t are there.                                                                   *)
Continues(upto) ==
  /\ \A t \in 0 .. NumLayer :
       LET first == PredictRange[t][1]
           stop == PredictRange[t][2]
       IN IF first < stop THEN Wrap(first) = upto[Before(t)] /\ Wrap(stop) = upto[t]
          ELSE upto[t] = upto[Before(t)]
  /\ upto[NumLayer - 1] = 0

InOrder == \E upto \in [0 .. NumLayer -> Layer] : Continues(upto)

(* A layer preempted or, without early_preempt, being run, whose budget is not back yet. *)
Outstanding ==
  IF EarlyPreempt THEN InQueue("Preempt") \/ spc = "preempting"
  ELSE hpc \in {"expert", "wait", "layer_done"}

(* The two semaphores carry no layer number.  Budget is neither lost nor made up, so at most  *)
(* max_prefetch_layer_distance layers are prefetched ahead of the hook; and the progress the  *)
(* hook consumes is that of the layer it is about to run, in every iteration.                 *)
PrefetchWindow ==
  /\ budget + prefetch_layer_progress + (IF ppc = "submitted" THEN 1 ELSE 0)
       + (IF Outstanding THEN 1 ELSE 0) = MaxPrefetchLayerDistance
  /\ (layer + (IF hpc \in {"expert", "wait", "layer_done"} THEN 1 ELSE 0)
       + prefetch_layer_progress - pnext) % NumLayer = 0

(* While the fetch worker waits for an evicted expert that the hook has not used yet, the     *)
(* hook reaches that expert without needing the fetch worker: all it uses before it is        *)
(* launched.  Otherwise each would wait for the other.                                        *)
NoCircularWait ==
  fpc = "wait" /\ victim # NoExpert =>
    \/ expert_status[victim] \in {"Using", "Ready"}
    \/ \E i \in idx .. Len(experts) :
         /\ victim = <<layer, experts[i]>>
         /\ \A j \in idx .. i : expert_status[<<layer, experts[j]>>] = "Launching"

(* The only CHECKs that an unlucky schedule can fail are the three about another thread being *)
(* late: an expert reused before the unlock worker has released it, and a mispredicted copy   *)
(* in flight for a whole iteration.  No schedule fails any other CHECK of the handlers.       *)
OnlyLateThreadsAbort ==
  aborted \in {"none", "prefetcher.cpp:55", "prefetcher.cpp:105", "prefetcher.cpp:589"}

(* CHECK(transfer) of prefetcher.cpp:105: an expert of the layer that is all there is kReady. *)
FetchedExpertIsReady == aborted # "prefetcher.cpp:105"

(* CHECK(task->start_mem_buf_idx == 0) of prefetcher.cpp:623: no chunk but the first is sent  *)
(* for an expert without a buffer.                                                            *)
FirstChunkFirst == aborted # "prefetcher.cpp:623"

(* The hook gets through its iterations: no thread waits for another forever. *)
HookFinishes == <>(hpc = "done" \/ aborted # "none")

Resident ==
  {e \in Expert : mapped[e] # NoBuffer /\ \A c \in Chunk : content[mapped[e]][c] = e}

Execution == INSTANCE MoeExecution WITH
  open     <- hpc \in {"expert", "wait", "layer_done"},
  pending  <- Awaited,
  running  <- {stream[i] : i \in 1 .. Len(stream)},
  resident <- Resident

(* The threads implement MoeExecution: reordering, promotion, eviction and prefetching never  *)
(* change which experts are computed, nor the weights they are computed with.                 *)
ImplementsExecution == Execution!Spec
=============================================================================

# Verification of promoe's expert cache and prefetcher

promoe runs mixture-of-experts language models whose experts do not fit into device memory.
It keeps a cache of expert buffers on the device, predicts which experts the next layers will
use, and copies them from host memory while the layers before are still being computed. Most
of it is C++ in `src/src/cpp_worker` (five threads and shared expert handlers), driven by hooks
that Python code in `src/src/sparse_llm_cache` installs into the model.

This directory holds TLA+ models of that code, the TLC configurations that check them, and
TLAPS proofs of what matters most. Paths below are relative to `src/src/`.

## 1. Inventory

| Part | Where | State | Operations | What makes it correct |
|---|---|---|---|---|
| `PrefetchMngr`, hooks ("hook thread") | `cpp_worker/prefetcher.cpp`, `sparse_llm_cache/utils/hooks.py` | position in the model: iteration, layer, array of activated experts | report logits, report layer, wait for an expert, mark it in use, layer done | every activated expert is computed exactly once, with its own weights, and the hook never waits forever |
| `FetchScheduleWorker` | `prefetcher.cpp` | task queue, `current_task`, `precise_job_queue`, `per_layer_job_queues` | preempt a layer / an expert, prefetch a layer, fetch done, idle | one copy at a time; every awaited expert is launched or will be; nothing pinned for nobody |
| `CacheMngr`, `ExpertHandler` | `cache.cpp`, `model_loader.hpp` | `prefetched_experts`, `unused_mems`, per expert `gpu_data`, `num_ready`, `expert_status` | hit, miss (take an unused buffer or evict), deferred wait for the victim | buffers are partitioned; a buffer is overwritten only after the last kernel reading it |
| replacement policies | `cache.hpp`, `cache.cpp` | order or priorities of the experts of a slot | hit, miss, select a victim, update priorities | they track exactly the experts of the slot |
| `FetchWorker` | `worker.cpp` | the task it copies | wait for victim, copy chunks, map parameters | overwrites no buffer in use |
| `ExpertUnlockWorker` | `worker.cpp` | queue of experts in use | wait for the event, `kUsing` to `kReady` | releases only what the stream has finished |
| `PredictWorker` | `worker.cpp`, `worker.hpp` | jobs, budget and progress semaphores | predict, wait for budget, prefetch a layer, push progress | stays at most `max_prefetch_layer_distance` layers ahead, in step with the hook |
| `WorkerThread` | `worker.hpp`, `utils.hpp` | queue, ticket lock, `queued`, `progress`, exit mark | add a task, wait for a task, run, exit | FIFO, a waited-for task is really done, its memory is not read afterwards |
| containers | `utils.hpp` | ring queue, linked list, heap | push, pop, move, remove | order and size |
| slot sizing | `cache.cpp:57-132` | buffers per slot | distribute buffers over slots | uses what it is given, no slot is empty |
| predictors, predict mapping | `predictor.cpp` | windows of layers, recorded logits, access history | record, query jobs, predict | every layer of an iteration is prefetched once and in order, from what was recorded for it |
| model loader | `model_loader.cpp`, `model_loader.hpp` | host copies, chunks, parameter mapping | load, split, map | a parameter is read where it was copied to |
| Python managers | `sparse_llm_cache/*.py`, `prefetch/*.py` | LRU or oracle order, two jobs with a buffer each, two CUDA streams | get, evict, prefetch | a module is run with its own weights, the oracle stays in step |
| configuration | `utils.cpp` | options | parse, fill in defaults | the defaults give a system that serves the hook |
| profilers, bindings, tracing | `profiler.*`, `adapter*`, `logging.*` | counters | count, print | no influence on the rest |

Interactions. The hook thread adds tasks to the scheduler and waits for their end
(`wait_progress`), spins on the status word of an expert, posts predict jobs and takes one unit
of prefetch progress per layer. The predict worker takes budget, adds a prefetch task, waits for
it, and posts progress. The scheduler hands one copy at a time to the fetch worker, which reads
`current_task` through a pointer and answers with a FetchDone task. An evicted expert that is
launched or in use is waited for by the fetch worker, not by the scheduler. The hook hands
every used expert to the unlock worker, which waits for a CUDA event and changes its status.

The hard part is thus the status word of an expert (`kIdle, kFetching, kReady, kLaunching,
kUsing`), changed by four threads, and the buffers that change owners before the previous
owner has been read for the last time.

What is hard, and therefore what the properties are about:

- an expert is used again before the unlock worker has seen its previous use end;
- the buffer of an expert that is launched or running is given to another one at once, and only
  the fetch worker waits;
- the copy in flight is promoted, preempted or finished while the handlers of a layer run;
- two semaphores without layer numbers keep prefetching and computing in step;
- worker threads wait for each other, while they run and while they are being joined;
- the replacement policies and the oracle of `CachePolicyMIN` live on accesses that come from four
  handlers of the scheduler (the two preempt tasks, a layer to prefetch, a job to send), precise and imprecise ones;
- logits buffers, the access buffer of the history modes and the heaps of the `nn` policy are
  written and read by different threads without a lock;
- the layouts of host memory, device buffer and model parameter are computed in three places.

PROJECT.json lists every such hazard at its line with the properties that are about it.

## 2. Modules

| Module | Models | Composes |
|---|---|---|
| `MoeExecution` | abstract specification: what the model on top of the prefetcher is promised | |
| `Prefetcher` | hook thread, scheduler, cache, fetch, unlock and predict worker, compute stream | implements `MoeExecution` |
| `PrefetcherProofs`, `PrefetcherWeights`, `PrefetcherWindow`, `PrefetcherExecution` | theorems about `Prefetcher`: types and buffers; weights; the window and the jobs of an iteration; pins, the refinement, service and the CHECKs | each extends the one before |
| `TaskQueue` | abstract specification: an atomic queue of tasks with clients that wait | |
| `WorkerThread`, `WorkerThreadProofs` | `WorkerThreadSpin`, `AtomicQueueLock`; theorems | implements `TaskQueue`, on which `Prefetcher` relies |
| `Shutdown` | the destructor of `PrefetchMngr` | `Prefetcher` |
| `CachePolicies` | fifo, LRU, static, MIN and NN replacement, the oracle and its sequences | `Prefetcher` |
| `Logits` | the logits buffers of `LegacyPredictor` and `SepPredictor` | `Prefetcher`; its run also `PredictMapping` |
| `History` | the access buffer of the predictors that work from the tokens so far | `Prefetcher` |
| `PolicyProofs` | theorems about `CachePolicies` | extends `PrefetcherExecution` |
| `PredictionProofs` | theorems about `Logits`, `History` and `Shutdown` | extends `PrefetcherWindow` |
| `PredictMapping` | `build_predict_layer_mapping` | |
| `Predictors` | `load_model_from`, defaults of the options, one predict job from model to prefetched layers | `PredictMapping` |
| `ExpertMemory` | memory of experts: host, device buffers and parameters, in every implementation | |
| `Startup` | `bi_traverse`, `init_gpu_mem_buffer` | |
| `RingQueue`, `LinkedList`, `MinHeap` | the containers of `utils.hpp` | |
| `PythonManagers` | `ExpertCacheMngr`, `NaiveExpertPrefetchMngr` and their policies, written before the C++ worker | |
| `SequentialProofs` | theorems about the list, the heap, the ring, the predict mapping, the predictors' jobs and the Python managers | |
| `MCPrefetcher`, `MCShutdown`, `MCCachePolicies`, `MCLogits`, `MCHistory` | constants for TLC | |
| `MCSequential` | the parts that need no interleaving with the worker threads, one at a time | containers, `Startup`, `Predictors`, `ExpertMemory`, `PythonManagers` |

### Prefetcher

The state of each thread has its own group of variables, named after the code where the code
has a name. `hpc` is where the hook thread is, `idx` the next expert of `experts`, the array that
`reorder_experts` rewrites in place. `squeue` is the scheduler's task queue, `spc` and `sidx` its
place in the loop of `preempt_one_layer_without_reorder_`, `current` is `current_task`.
`prefetched_experts`, `gpu_data`, `num_ready` and `expert_status` are those of `CacheMngr` and
`ExpertHandler`; a slot hands out its unused buffers from the last one, so their number is
enough. `mapped` is the buffer that the parameters of an expert point to, `content` whose chunks
a buffer holds: a chunk that is being copied holds nobody's. `stream` has the experts whose
kernels have not ended. `fpc`, `victim` are the fetch worker and the expert its `lambda_wait`
waits for, `ppc`, `pnext`, `pstop`, `pexperts` the predict worker.

| Action | Code |
|---|---|
| `HookStart`, `HookReportLayer`, `HookReportExpert`, `HookExpertDone`, `HookLayerDone` | `MoeLayerHook`, `report_one_layer`, `report_one_expert`, `wait_expert` with `mark_expert_using` and `one_expert_done`, `one_moe_layer_done` |
| `SchedPreempt`, `SchedPreemptExpert`, `SchedPreemptEnd` | `PreemptTask`: reordering, one round of its loop, its end |
| `SchedPreemptOne` | `PreemptOneExpertTask` |
| `SchedPrefetchLayer` | `PrefetchLayerTask` |
| `SchedFetchDone` | `FetchDoneTask` |
| `SchedIdle`, `SchedIdleAgain` | `IdleTask` with `pop_next_task`, `send_one_job`, `CacheMngr::miss` |
| `FetchStart`, `FetchEnd` | `FetchWorker::do_one_task_impl` up to and after `cudaStreamSynchronize` |
| `Unlock` | `ExpertUnlockWorker::do_one_task_impl` |
| `PredictStart`, `PredictLayer`, `PredictLayerDone` | `PredictWorker::do_one_task_impl` between its waits |
| `StreamStep` | the device (external) |

A handler is one action unless it waits; the preempt handler is split because the fetch worker,
the unlock worker and the hook work between its rounds. A failed CHECK sets `aborted` to its
line and ends the behaviour. What a gate activates and what a predictor ranks is any choice; the
victim of a miss is any expert of the slot (`CachePolicies` says which).

Which job predicts which layers is the constant `PredictRange`: the modes that predict at the end
of a token have one job for all layers, those on logits have a job per layer.

### The modules on top of Prefetcher

`CachePolicies`, `Logits`, `History` and `Shutdown` extend `Prefetcher` with variables of their own;
each action of theirs is an action of `Prefetcher` conjoined with what the part adds.

`CachePolicies` derives the accesses of a step from what the step does: the handlers call `hit` in
`HitOnPreempt` and `HitOnSend`, a miss shows in `prefetched_experts`. With `promote_hit_in_prefetch` a `PrefetchLayerTask`
calls `hit`, imprecisely, for each predicted expert that is in the cache (`PromoteHits`); only LRU heeds it, and has them in the
order of their last access afterwards (`Promoted`). The module also restricts the victim
to what `select_for_evict` returns. For MIN the oracle is a function chosen when the application
starts a sequence (`SetCurSeq`), and the hook follows it. For NN the predict worker replaces
the priorities in two steps, `BeginUpdate` and `EndUpdate`, while the scheduler goes on:
nothing locks them. A float that no longer changes when one is added is `FloatLimit`.

`Logits` puts the copies of the logits into the stream: a copy is done when the kernels that were in
the stream before it are. `History` says of the access buffer only whose tokens it holds: the hook
adds those of a layer when it reports it, the predict worker clones the buffer when a job begins and,
with `kOneToken`, zeroes it when the job ends. `Shutdown` lets every thread stop between two handlers once
it is told to.

### WorkerThread

One action per access to shared memory: taking a ticket, seeing it served, counting, pushing,
unlocking, reading the exit mark, popping, running, counting progress. The ticket counters have
`TicketRange` values and wrap. `TaskQueue` is what the other modules take for granted.

### The parts of MCSequential

These run within one thread, or without the threads of `Prefetcher`, so a behaviour exercises
one of them (`exercised`) and leaves the others alone.

- `Startup`: `bi_traverse` is one action per round. `RingQueue` and `LinkedList` change in one action per
  operation; a heap operation takes several `Sift` actions, so the heap is also seen half sifted.
- `Predictors`: the options a user may set, the defaults that `handle_uninited_configs` gives the rest, the models
  that are loaded, and a predict job: its input, which rows of the output are for which layer, and
  the layers that `PredictWorker` asks for. `PredictMapping` is a function of the options.
- `ExpertMemory`: the parameters of two experts of any sizes are put in host memory, the device buffers
  are laid out like the largest expert, an expert gets a buffer and its parameters are mapped, for
  each of the five physical and three logical implementations that go together.
- `PythonManagers`: the cache with LRU or oracle policy does all its work in `pre_forward`. The
  prefetcher has two jobs that change roles, a copy stream and the default stream; a copy is a start,
  after which the buffer holds nobody's weights, and an end; an event is the number of kernels
  that are still in front of it. A trace is any sequence of modules, and the model may leave it.

## 3. Runs

| Run | Configuration | Shows |
|---|---|---|
| `prefetch_early` | 2 layers, 2 experts, 2 chunks, slots of 2 and 1 buffers, `early_preempt`, reordering, chunked prefetch, distance 1, 2 iterations | the threads implement `MoeExecution`; nothing is pinned for nobody, dropped or waited for forever; no CHECK fails but those of late threads |
| `prefetch_late` | the same without `early_preempt`, a job per layer, one buffer per slot | the hook finishes when it preempts each expert itself and returns the budget, and every miss evicts |
| `prefetch_shared` | one slot of 2 buffers for both layers, distance 2, whole experts | eviction across layers: buffers, weights, no circle of waits |
| `prefetch_unlock_late`, `prefetch_chunk_evicted`, `prefetch_duplicate_dropped` | as small as possible | the findings below |
| `worker_thread` | a waiting and a non-waiting producer, the worker, 3 ticket values, 2 tasks each | the worker thread is an atomic queue, also when the tickets wrap |
| `shutdown` | 3 layers, distance 1, 1 iteration | every join of the destructor returns |
| `cache_policies` | LRU, static-1, MIN and NN, a slot of 3 buffers shared by 2 layers, `promote_hit_in_prefetch` on, distance 1, 1 expert predicted for the second layer and none for the first (`limit_layer_0_num_predict` is 0), 2 iterations, 2 sequences | the policies track the cache, the oracle stays in step, LRU and NN spare what is launched, the unlocked update is undisturbed |
| `logits` | 3 layers, window 2, distance 2, 2 iterations, predictions layer by layer | no logits are overwritten or read too early |
| `history` | 2 layers, 3 iterations of prompts and single tokens, `kOneToken` and `kDecodeCumsum`, distance 2 | a prediction sees whole tokens, none of its own iteration, and with `kOneToken` no old ones |
| `sequential` | ring of 2 to 8 places, list and heap of 4 nodes, up to 12 slots, up to 4 layers with every option, 2 experts with 2 parameters, 3 modules in 2 sequences | each sequential part does what the others rely on |

Why the bounds are enough. Two layers make every layer both first or last and neighbour of
another; with two iterations an expert is used again, evicted in between or not, and the next
iteration is prefetched while this one runs. Two chunks distinguish not fetched, partly fetched
and fetched, and the copy in flight from the rest. Two activated experts give an order to
preempt and to use them in, an expert behind a miss, and a victim still awaited. One buffer per
slot makes every miss an eviction, two leave a choice. `MaxIter` ends the hook and is the only
bound that cuts the behaviours of `Prefetcher`; everything else is finite because of the
protocol. Three iterations of `History` put a token before and one after a prompt. Three ticket
values are the fewest the lock works with for three threads, and they wrap several times.
`Startup` needs more than five slots for an interval of one slot to be met while others wait;
twelve have it at two depths. Four layers with windows and intervals up to three have windows that overlap,
touch, leave gaps and run past the last layer. The ring doubles twice. Four heap nodes have two
levels of sifting. `FloatLimit` is 8 so that priorities reach it within two iterations. Three bytes
with units of two make parameters that are smaller than, equal to and larger than a unit. In
`PythonManagers` three modules do not fit into a cache of two, and four forwards reach into the second
sequence with jobs and cached modules left over from the first.

Deadlock is not checked where the hook ends after `MaxIter` iterations, after an abort, after
the destructor and in `sequential`, all of which stop the system; that it does not stop earlier is what
`HookFinishes`, `WaitReturns` and `DestructorReturns` say.

Fairness. Each worker spins in a loop of its own, so every thread is weakly fair, and the device
finishes what it was given. Nothing is assumed of one handler against another of the same
thread: the queue decides. In `Shutdown`, a thread sees its exit mark at the end of a handler, and
is not assumed to see it earlier. The producers of `WorkerThread` need not add tasks, but go on
with one they have started. In `sequential` only the traversal of `Startup` is fair: it is a loop.

## 4. Findings

- `prefetch_unlock_late`: an expert that is all in the cache is expected to be `kReady`
  (`prefetcher.cpp:103-105`), but nothing waits for the unlock worker to release its previous use.
- `prefetch_chunk_evicted`: with a shared slot a partly fetched expert can lose its buffer while the
  task of its next chunk is queued (`prefetcher.cpp:618-623`).
- `prefetch_duplicate_dropped`: the redundant task for an expert that may be evicted is dropped when
  the expert is still `kUsing` (`prefetcher.cpp:642`), and the hook waits for it forever. It needs
  three experts: one still in use behind one that is missing.

The other runs stay on the side of these: `HookFinishes` counts an abort as an end,
`OnlyLateThreadsAbort` lists the CHECKs that a late thread can fail.

What the models make precise about the options, without a finding of their own:

- The default window of layer 0 is one layer for most models. With a job for each layer's logits and a
  `layer_predict_interval` above 1 some layers are then predicted by nobody in time. The history modes and
  `kFirstMoeAttnInputLogits` have one job in an iteration, for layer 0 (`worker.cpp:112-119`, `133-134`): it predicts the window of
  that layer, and with the default window the hook waits at layer 1 (`PredictedOnce`). A model with one layer gets a
  distance of zero. In all these the hook is not served; `DefaultsServe` says which configurations serve it. The documentation of
  `max_prefetch_layer_distance` (`sparse_llm_cache/utils/__init__.py`) speaks of an infinite distance
  where the default is `num_layer - 1`, and that of `reorder_experts` of a default of true where it
  depends on `num_predict_expert_per_layer`.
- `kNoPredict`, and a prompt with `kFirstMoeAttnInputLogits`, give an output that starts at layer -1 and
  ends in the CHECK of `predictor.cpp:493` (`JobPostsItsLayers`). A single-file model
  (`predictor.cpp:274-279`) always ends in the CHECK of line 322: the loop over the layers goes up to `num_layer`, and only
  model 0 is there.
- LRU and NN spare experts that are launched only if a slot has room for what is activated plus
  what is predicted (`LaunchedSpared`; with one buffer less it does not hold), and NN only below 2^24
  accesses.
- `UpdatesUndisturbed` needs a job that predicts a whole iteration. With a job per layer started by the logits of
  layer 0 the scheduler pushes and evicts while the predict worker rebuilds the heaps (`worker.cpp:20`).
- With `kOneToken`, accesses of the next token can be zeroed together with those of the last
  (`OneTokenAtMost` says that the opposite never happens). A prompt that activates no more experts in layer 0
  than a single token is taken for one.
- MIN together with a history mode is not supported: `current_sequence` would be null.
- `ExpertCacheMngr.clear_cache(simulate_evict=True)` calls `_evict` with one argument too few and always raises;
  without it the tensors of the cleared modules stay on the device until they are missed again.

## 5. Proofs

Every theorem is about all values of the constants that satisfy the assumptions of its component:

- `Prefetcher`, `Shutdown`, `CachePolicies`, `Logits`, `History`: any number of layers, experts, chunks, buffers and iterations,
  every option and any prediction, under `ConstantsAssumption` (the counts are positive, every slot has a buffer, the
  ranges of jobs are layers) and the assumptions of the part (a static buffer for some, a positive limit of a float, and so on);
- `WorkerThread`: any number of producers and tasks, if the ticket counter has at least as many values as there
  are threads;
- `MinHeap`, `LinkedList`, `RingQueue`: any set of nodes, priorities or elements, any initial size and limit of the ring;
- `Predictors`: any number of layers, window, interval and distance; `PythonManagers`: any modules, any size of
  the cache, any trace.

Some theorems have a hypothesis of their own, on `PredictRange`, which says when which layers are predicted:

- `InOrder` (`WindowKept`): job for job, in the order of the hook, the ranges continue one another around the layers;
- `OncePerIteration` (`PredictedInTime`, `LogitsKept`, `OnlyLateChecksFail`, `LaunchedAreSpared`): moreover the jobs of one iteration predict each of its layers once.
  `OnceIsInOrder` shows that it implies `InOrder`, and `MappingCovers` that the ranges of `build_predict_layer_mapping` satisfy it
  when there is a job for every layer's logits and the windows leave no layer out; with one job its window has to be the whole model;
- `OneJobPerIteration` (`TokensWhole`, `TokensApart`, `UpdatesAlone`, and `LaunchedAreSpared` with NN): the last layer starts the only job,
  as it does in the modes that predict from the history (`on_one_iter_done`).

Three have one on the options. `ReorderedOrLate` (`AwaitedAreServed`, `NoCircle`) says that `reorder_experts` is on or `early_preempt`
off. With neither, the code drops a job that the hook waits for (`prefetch_duplicate_dropped`). `ServedWaitsEnd` has none; it
is about the behaviours in which `AwaitedServed` holds throughout, whatever the options. These include all of
the run `prefetch_shared`, which has neither option but only two experts in a layer.
`PartsStay` (`OnlyLateChecksFail`) says that `per_layer_cache` is on, or experts are not copied in parts (`chunk_prefetch` off, or
one chunk). Otherwise a partly fetched expert is evicted before its next chunk (`prefetch_chunk_evicted`).

One has a hypothesis on the sizes. `HasRoom` (`LaunchedAreSpared`) says that whatever the layer, a slot has a buffer for each of its
experts among those that the layer activates and those that are predicted for the next `max_prefetch_layer_distance` layers. The
instance of `cache_policies` satisfies it. With one buffer less it does not, and TLC finds `LaunchedSpared` violated.

| Theorem | Module | Says |
|---|---|---|
| `TypeCorrect` | `PrefetcherProofs` | `TypeOK` |
| `CachePartitionsBuffers` | `PrefetcherProofs` | `BuffersPartitioned` |
| `ComputesWithOwnWeights` | `PrefetcherWeights` | `ComputeReadsOwnWeights` |
| `HandOverChecksHold` | `PrefetcherWeights` | no CHECK on the hand-over of an expert or a buffer fails |
| `OneCopyAtATime` | `PrefetcherWindow` | `OneJobInFlight` |
| `WindowKept` | `PrefetcherWindow` | `PrefetchWindow`, if the predict jobs continue one another (`InOrder`) |
| `NoPinLeaks` | `PrefetcherExecution` | `NoPinLeak` |
| `AwaitedAreServed` | `PrefetcherExecution` | `AwaitedServed`, if `ReorderedOrLate` |
| `ServedWaitsEnd` | `PrefetcherExecution` | `NoCircularWait` as long as `AwaitedServed` holds, for every option |
| `NoCircle` | `PrefetcherExecution` | `NoCircularWait`, if `ReorderedOrLate` |
| `OnlyLateChecksFail` | `PrefetcherExecution` | `OnlyLateThreadsAbort`, if `OncePerIteration` and `PartsStay` |
| `ThreadsImplementExecution` | `PrefetcherExecution` | `ImplementsExecution`: every behaviour is one of `MoeExecution` |
| `ControlCorrect` | `WorkerThreadProofs` | `TypeOK` of `WorkerThread` |
| `LockCorrect` | `WorkerThreadProofs` | `OneHolder` |
| `TaskFramesLive` | `WorkerThreadProofs` | `NoDanglingTask` |
| `WorkerThreadImplementsTaskQueue` | `WorkerThreadProofs` | `ImplementsTaskQueue` |
| `PredictedInTime` | `PredictionProofs` | `PredictedForThisIteration`, if `OncePerIteration` |
| `LogitsKept` | `PredictionProofs` | `NoLogitsOverwritten`, if `OncePerIteration` |
| `TokensWhole`, `TokensApart` | `PredictionProofs` | `WholeTokens`, `OneTokenAtMost`, if `OneJobPerIteration` |
| `NobodyOrphaned` | `PredictionProofs` | `NoOrphanWait` |
| `PoliciesTrackCache` | `PolicyProofs` | `PolicyTracksCache` |
| `OracleKeepsCount`, `OracleAscends` | `PolicyProofs` | `OneAccessPerActivation`, `UseTimesAscend` |
| `UpdatesAlone` | `PolicyProofs` | `UpdatesUndisturbed`, if `OneJobPerIteration` |
| `LaunchedAreSpared` | `PolicyProofs` | `LaunchedSpared`, if `HasRoom`, `OncePerIteration` and, with NN, `OneJobPerIteration` |
| `PlacesKnown`, `FrontCorrect` | `SequentialProofs` | `NodesKnowPlace`, `FrontIsLeast` |
| `ChainsAgree`, `OrderOfInsertion` | `SequentialProofs` | `ListLinked`, `ListInOrder` |
| `RingIsQueue` | `SequentialProofs` | `QueueIsFifo` |
| `LayersPredictedOnce`, `DefaultsAreServed` | `SequentialProofs` | `PredictedOnce`, `DefaultsServe` |
| `MappingCovers` | `SequentialProofs` | the ranges of the predict mapping satisfy `OncePerIteration`, with a job for every layer, unless a layer is in no window |
| `JobsPostTheirLayers` | `SequentialProofs` | `JobPostsItsLayers` |
| `ManagersServe` | `SequentialProofs` | `ModulesServed` |

### Types, buffers and weights

`TypeOK` is not inductive: that an expert of the hook's array or a layer of the predict worker is
one depends on where these threads are and on what they have added to the scheduler's queue.
`TypeInv` adds the part that says so (`IndexInv`). `BuffersPartitioned` is inductive
on top of it: a miss moves a buffer from the unused ones, which are the lower numbered ones of
its slot, or from its victim.

`ComputeReadsOwnWeights` says that an expert which is launched or running reads its own weights
although its buffer may belong to another expert already. The induction goes through
`WeightsInv`:

- `OneJobToken`: of an IdleTask, a FetchDoneTask and a busy fetch worker there is at most one, so the
  job in flight is not replaced while the fetch worker reads it;
- `CurrentInv`: the job in flight copies the next missing chunks into the buffer of its expert,
  which is `kFetching`, and the victim it waits for has no buffer of its own;
- `CachedInv`: the status of a cached expert tells how many chunks are there, and they are its own;
- `EvictedInv`: an expert without a buffer is idle, or is the victim the fetch worker still waits
  for, and then the buffer it reads has not been touched.

Last, `StreamInv`: experts whose kernels have not ended are `kUsing`, or are so again. The lemmas go
action by action; `WeightsFrame` covers all steps that move no buffer.

### The copy in flight and the window

`OneCopyAtATime` adds to `OneJobToken` that the token is never lost: a step that takes it out of the
scheduler's queue puts it back, hands it to the fetch worker, or ends the process.

`PrefetchWindow` is about two semaphores that carry no layer number. For the budget, `PreemptInv`
says that the hook's preempt task is in the queue or running at most once, and only while the hook
waits for it; so a layer whose budget is not back yet is never counted twice. For the progress,
`ChainInv` follows the jobs from the one the predict worker is at, through its queue, to the last
one the hook has posted: each starts at the layer where the one before it stops. Then what the hook
has run plus the progress it may still consume differs from the layer being predicted by whole
iterations. Without the hypothesis `InOrder` the hook would consume the progress of another layer, or wait for one
that never comes. TLC evaluates it for the ranges of the runs (`RangesInOrder`).

### The jobs of an iteration

The whole-iteration distance of the window is not enough for what a job reads: the predict worker could be an iteration
ahead or behind. `JobsInv`, proved in `PrefetcherWindow` for the steps of `Prefetcher`, says that it is not. `Ahead` is how many
layers of this iteration the hook has run or may still consume the progress of; the jobs in the queue continue the
one at hand, which is at layer `Ahead`, and end with the layers that the logits recorded so far predict. With one job for an
iteration, `OneJobInv` is simpler: it is queued only when the hook is before the first layer, and until it begins no layer
is run.

`LogitsInv` adds which iteration things belong to: the logits recorded since the last iteration are of this one,
those of the job at hand are there and predict this iteration, and so was every layer below `Ahead` predicted
(`PredictedInTime`). The buffers of the job at hand and of queued jobs come, in the order of an iteration, before the one that
the hook records next (`LogitsKept`).

`HistoryInv` says whose tokens the access buffer holds of a layer: the iterations since it was cleared, and this iteration
only once the layer has been recorded. When a job begins, `OneJobInv` puts the hook before the first layer, so the
buffer holds all complete tokens and no other (`TokensWhole`). `kOneToken` zeroes the buffer when a job ends, in a step of the
predict worker that the hook does not wait for; `TokenZeroed` leaves that step out and is back before the next job
begins (`TokensApart`).

### Pins and the refinement

`NoPinLeak` is about the three ways in which an expert can be pinned: launched in its status word, in the
precise queue, or precise and in flight. `PlaceInv` says where the scheduler
and the hook are relative to each other: the hook's array has different experts, a preempt task in the queue
starts at the first of them, and the hook has at most one task of one expert under way. `PinInv` says that what is launched,
queued precisely or copied precisely is among the experts the hook still has to use
(`AskedExperts`), each in one of these ways at a time. Both are inductive together with
`WeightsInv`; preempting a layer moves experts from one way to another, `FetchedStatus` decides at the end of
a copy.

`ThreadsImplementExecution` takes each action to a step of `MoeExecution` or to a stutter. The report of a layer is the
choice of its experts, the rounds of the preempt task are their order (`reorder_experts` only
permutes the array, which is a statement about finite sets: an injection of a finite set into itself is onto),
launching and ending kernels are those of `MoeExecution`. Its guard that weights are resident while they are
read is `ComputeReadsOwnWeights`, here and in the next state. `MoeExecution` states no fairness, so the theorem is the whole
refinement; that the hook finishes is `HookFinishes`, which TLC checks.

### Service and the circle of waits

`AwaitedServed` is the converse of `NoPinLeak`: what the hook still has to use is also on its way. `ServedInv`
says it without the places of the threads: every expert that has been asked for is launched, queued precisely, or copied
precisely up to its last chunk. What can break it is a precise job that is taken from the queue and
dropped as a duplicate, since its expert is not launched then. `WholeInv` excludes that: an expert with a precise job
in the queue lacks a chunk, and the copy in flight is not one for its last chunk. It holds when
the job is queued; afterwards only the end of a copy or a new copy could change it, and both take
the job of that expert itself, *unless* the expert is evicted and fetched again by another job before. A layer's array is therefore
preempted in an order in which nothing that comes later needs a buffer from what comes before: reordered
(`SortedInv`: the experts without a buffer are the last ones, so a resident expert is pinned before anyone evicts), or late,
with one expert asked for at a time. That is where `ReorderedOrLate` comes from, and `prefetch_duplicate_dropped` is what happens without.

`NoCircularWait` is about a fetch worker that waits for an expert which the hook has not used yet. When the wait begins the victim is
launched, so it is in the hook's array (`PinInv`). `OrderInv` puts the experts in order: precise jobs are
queued in the order of the array, and nothing behind an expert that is queued and has no buffer is launched. The job
that waits was the first of the precise queue, or was sent with that queue empty, so all experts up to the victim are neither queued nor
in flight; as they are served, they are launched (`WaitBegins`). As long as the fetch worker waits, the
hook only moves forward through that part of the array (`WaitGoesOn`). `PreciseInv` and `OrderInv` hold for every
option; only service needs `ReorderedOrLate`, hence the two theorems `ServedWaitsEnd` and `NoCircle`.

### The CHECKs

`OnlyLateThreadsAbort` leaves three CHECKs that a late thread can fail: an expert that is all there and is preempted is
`kReady`, with one preempt task per expert (`prefetcher.cpp:55`) or per layer (105), which it is not until the unlock worker has
released its last use; and nothing of the layer that is prefetched is being copied any more (589), for which nobody waits. For the others:

- a layer that is prefetched has no jobs queued (588). `QueuesInv`: what is queued for prefetching is of a layer
  that the hook has not preempted and that the predict worker has been at in this iteration, which is why the jobs of
  an iteration have to cover its layers once (`JobAhead`); and the scheduler has at most one task for a layer;
- a job taken from the precise queue is precise (641), by `PreciseInv`;
- the job is not for the rest of an expert that is no longer there (623), and begins where the
  last one ended or is not sent again (649). With whole experts every job starts at chunk 0 and nothing is left half done
  (`WholeJobs`). With parts, a job for the rest of an expert is behind the job for what is before it, or that part is in the
  cache or in flight (`PreciseParts`, `LayerParts`). Only a miss in the same slot takes a part away. With `per_layer_cache` a
  slot is a layer. A prefetching job that misses is the first of its layer's queue, and in what is behind it a rest comes
  after the first chunk of the same expert. When a precise job misses, the prefetching jobs of its layer have been
  dropped (`QueuesInv`, `PinInv`), and no precise job behind it is for a rest, because such a job has nothing missing
  in front of it;
- the CHECKs on the hand-over are `HandOverChecksHold`.

### Worker threads and shutdown

`ThreadInv` has three parts. `Control` has the types and what the place of a thread says about the
shared counters. `LockInv` orders the tickets: what a waiting thread drew is ahead of the one that is
served by less than the number of threads, all distances are different, and so are the
tickets although they wrap. `QueueInv` says that `queued` and `progress` count what has been pushed and run,
so that the handle of a waiting producer is the number of its own task: as long as it waits, its task is in the queue or is being run.
The refinement maps the point of pushing to the abstract addition, and the increment of `progress` to the end of the task.

`ExitInv` of `PredictionProofs` follows the destructor: a thread has stopped only if it has been told
to, and it is told only when the one before it in `ExitOrder` has stopped. So the unlock worker, for which
the fetch worker may wait, leaves after it, and the scheduler, for which the predict worker may wait,
leaves last; the predict worker itself leaves only between two of its tasks.

### Replacement policies

`PolicyTracksCache` relates three pieces of state that one `send_one_job` changes together: the owners of the buffers of a slot,
the list of its policy, and the experts that a policy persists. It is inductive together with the types
(`PolicyInv`), on top of `TypeInv` and `BuffersPartitioned`; what is said about lists is said of sequences without repetition, from
which an element is removed or moved.

For `CachePolicyMIN` the invariant is `MinInv`. `HookInTime` and `Follows` say that the oracle is asked about the layer the hook is in and that
the gates follow it. `Accessed` are the experts of this layer that a precise access has been counted for: those that have been
used, and those preempted so far (`AskedExperts`), except those whose precise job is still queued. An expert has as many accesses as it has use
times that have passed, and one more if it is in `Accessed` (`Counts`). An expert enters `Accessed` once, by a hit in the preempt handler or when
IdleTask takes its precise job, hit or miss; so the count needs `PinInv`: of one expert there is no second precise job. When the hook is
between two layers `Accessed` is empty, which is `OneAccessPerActivation`. All accesses of a layer have the same time
(`Passed`), so the times of a slot ascend; a new sequence starts with nobody asked for.

`UpdatesAlone` is about a race that no lock prevents: the predict worker rewrites the priorities of `CachePolicyNN` at the beginning
of a job. By `QueuesInv`, what is queued for prefetching is of a layer which the hook has not preempted and which the predict
worker has been at in this iteration. While the priorities are rewritten (`UpdatingInv`) the predict worker has been at none,
the hook is before the first layer, and nobody is pinned (`NoPinLeak`); so all queues are empty and the scheduler has no handler left
that hits or misses. The handler that promotes serves a task for whose end the predict worker waits.

`LaunchedAreSpared` is about the experts whose kernels have been launched and have not ended: the policies do not know of them.
The argument is that they are recent. Of every expert in `Accessed`, launched ones included, `SparedInv` says which
experts are now more recent (`Recent`: behind it in the list of LRU, of no lower priority for NN): only experts of the layer
that the hook is in, and predicted ones of later layers in the prefetch window (`RecentOnes`). There is a choice `p` of what has been
predicted for each layer of the window, as many as `NumPredict` allows and with all that is still queued (`AsPredicted`):
a job of `IdleTask` is one of them, a preempt handler accesses an expert of the layer, and the window reaches no further than
`max_prefetch_layer_distance` (`WindowDistance`). The experts that a `PrefetchLayerTask` promotes become recent too; they are the choice for the layer the
predict worker is at, which is the next one, `Ahead`, and in the window (`PromoteRecent`). Priorities are lowered only when the predict worker begins a job, and then
nobody is launched (`UpdatingInv`, `PrioritiesGrow`). The expert that the fetch worker waits for cannot be launched
any more either, as it is no longer in the cache (`WaitLaunchesNone`).
A job that misses evicts the least recent cached expert. A slot without an unused buffer has as
many cached experts as buffers (`BuffersOwned`, `SlotFull`), so if the victim were launched, all experts of the slot
would be of the layer or still to come, and the expert to fetch is one more: more than `HasRoom` allows (`RoomForAll`).

### Containers

`SpecHeap`, `SpecList` and `SpecQueue` are the containers alone; what the run `sequential` does to them are the same
actions. No induction over the array or the chain is used. A front that is not the least gives a least place with
a smaller weight than the front, whose parent would have to be smaller still; a walk from the head that does not
agree with the walk from the tail has a first place where it fails. Both are instances of the well-founded order
of the natural numbers (`LeastElement`). The heap invariant names the one place where the order may be broken while an
operation is being sifted, and in which direction; the list invariant says that the chain is a sequence
of different nodes from guard to guard, linked both ways. That sequence is what `Listed` walks through, so the list grows at
its end and loses one place at a time (`OrderOfInsertion`).

`RingInv` only says that `start` and `stop` are places of a ring of some size within the limit. The queue is a function of
what is at the places from `start` on, modulo the size. When a full ring doubles, the wrapped part is copied behind the
rest: every element keeps its place in the queue, which is what the proof shows, with remainders replaced by a
subtraction where the ring wraps (`PlaceAt`).

### Mapping and predict jobs

How many layers are predicted after the first `p` layers only grows with `p`, by the windows of the layers that predict
(`LayersFacts`). The ranges of the mapping lie between two consecutive such numbers (`MappingFacts`), so they always continue one
another; that they end at the last layer is equivalent to every layer being in some window (`WindowsReach`, `OnceReaches`).
In the modes with one job only the first range counts, which is the window of layer 0 (`OneJobReaches`).
`DefaultsAreServed` puts in the defaults (`DefaultsReach`, `DefaultsReachOne`). `JobInv` follows one predict job: where in the model it has loaded the
layers of its mapping are, which layer the rows of the output begin at, and that what has been posted is the
beginning of the layers asked for.

### Python managers

`ManagersInv` relates the default stream, on which modules run, with the copy stream. A wait in the copy stream has the
number of kernels in front of it. The last wait is behind all kernels (a job that is launched waits for the
module just run); a copy into a buffer that a kernel still reads has a wait in front of it which that kernel holds up; and a
buffer has at most one copy on its way. Then a copy that starts overwrites nothing that is read (`StreamInv`), and the host, which
waits for the copies of a job before it runs the module, finds the module there (`PlaceInv`). `FollowInv` is about
a model that follows its trace: the job that is next holds the module that the oracle predicts, and the assertions of
`OraclePolicy` hold.

### Only model-checked

- Liveness: `HookFinishes`, `WaitReturns`, `ExitJoins`, `DestructorReturns`, `TraversalEnds`. Fairness and ENABLED are out of
  the prover's reach.
- `BuffersDistributed` (`Startup`) and `ReadWhereCopied` (`ExpertMemory`): sums over sequences of any length. A fold has no value
  the provers can work with except by induction over the sequence.
- `AwaitedServed` and `NoCircularWait` beyond `ReorderedOrLate`: without it the first does not hold for all constants
  (`prefetch_duplicate_dropped`), nor then the second, in slots that are too small for what is activated.
- `OnlyLateThreadsAbort` beyond `PartsStay` and `OncePerIteration`: with shared slots and chunks it does not hold
  (`prefetch_chunk_evicted`). `HandOverChecksHold` proves six of its CHECKs for all constants.
- `LaunchedSpared` beyond `HasRoom`: in slots that are too small it does not hold.

## 6. Not modelled

- The neural networks, tensors and dtypes: arithmetic. The dtype conversion of `predictor.cpp:84-129` is called by
  nobody. Reading weights, pinning and the CUDA driver are external.
- Of one parameter, a size in host memory (`nbytes`) that differs from the size to allocate (`alloc_nbytes`): `ExpertMemory` has one for
  both. They differ only if an expert is added with an `alloc_nbytes` of its own, for which it has to be the larger one; the layouts in
  `model_loader.cpp` use either (`Layout`).
- What `SepPredictor` makes of its first job, for which there are no logits yet: it converts an undefined tensor
  (`predictor.cpp:573`) before it looks whether the tensor is empty. `Logits` has the job go on as in `LegacyPredictor`, whose check comes first.
- Profilers, tracing and logging: nothing depends on them, and what they count is read by nobody in the system.
- Parsing of options and of the environment. What the options decide afterwards is in the constants
  and in `Predictors`.
- The llama.cpp adapter and the bindings, which forward calls. The functions that select the modules of a
  transformers model and install the hooks run once, before there is a thread.
- `WorkerThreadMutex` and `AtomicQueue`, `back` and `pop_back` of the list, `pop` of the heap: used by nobody.
- The recorded traces (`traverse_one_seq_time`) and `UntypedBuffer.separate_by` of the Python prefetcher: a trace is any sequence of
  modules, and modules of one class are assumed to have the same layout, as the code does.

## 7. Plan

Done: the core (`MoeExecution`, `Prefetcher`) with its four modules of theorems, the task queue, shutdown,
the policies with MIN's sequences and NN, logits, history, predictors and mapping, startup, memory, containers,
the Python managers; theorems about all of them but startup and memory.

Left: larger instances of `CachePolicies` (three layers, two slots), which need a smaller model of the threads above it.

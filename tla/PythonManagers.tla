---------------------------- MODULE PythonManagers ----------------------------
(***************************************************************************)
(* The managers of offloaded modules that came before the C++ worker:      *)
(* ExpertCacheMngr, a cache of modules with an LRU or an oracle policy     *)
(* (managers "lru" and "oracle"), and NaiveExpertPrefetchMngr (manager     *)
(* "prefetch"), which copies the next module of a recorded trace on a      *)
(* second CUDA stream while the default stream computes this one.          *)
(*                                                                         *)
(* The prefetcher has two jobs with a buffer each and exchanges them at    *)
(* every module.  No lock protects a buffer: only the events that one      *)
(* stream waits for keep a copy behind the kernels that read the buffer.   *)
(***************************************************************************)
EXTENDS Integers, Sequences, SequencesExt, FiniteSetsExt, Functions

CONSTANTS
  ModuleKey,   \* the offloaded modules
  NoModule,
  CacheLen,    \* cache_len
  MaxTime,     \* bound: modules of a trace
  MaxSequence, \* bound: sequences
  MaxForward   \* bound: modules run, all sequences together

ASSUME ManagersAssumption ==
  /\ NoModule \notin ModuleKey
  /\ CacheLen \in Nat \ {0} /\ MaxTime \in Nat \ {0}
  /\ MaxSequence \in Nat /\ MaxForward \in Nat

VARIABLES
  manager,
  sequence, forwards,  \* how many sequences and modules have been run
  trace,               \* time_to_module of the current sequence
  cur_time,
  next_use_time_map,   \* of OraclePolicy, which keeps next_use_time_queue sorted by it
  last_use_order,      \* of LRUPolicy, from old to new
  cached_map,          \* the modules in it
  on_device,           \* modules whose tensors set_module_tensor_to_device has not taken away
  ppos, module,        \* place in the forward of a module
  jobs,                \* cur_forward_job and cur_prefetch_job
  copies,              \* stream: copies into a buffer, and waits for kernels
  kernels,             \* default stream
  content,             \* whose weights a buffer holds
  raised,              \* an assertion has failed
  followed             \* the modules were those of the traces, each trace to its end

policyVars == <<cur_time, next_use_time_map, last_use_order>>
cacheVars == <<cached_map, on_device>>
streamVars == <<jobs, copies, kernels, content>>
managerVars == <<manager, sequence, forwards, trace, policyVars, cacheVars, ppos, module,
                 streamVars, raised, followed>>

Buffer == {"a", "b"}
Inf == MaxTime + 1

(* _find_next_use_time: the first use after cur_time. *)
NextUse(tr, key, t) == Min({i \in (t + 1) .. (Len(tr) - 1) : tr[i + 1] = key} \union {Inf})

(* _predict_next *)
PredictNext(t) == IF Len(trace) > t + 1 THEN trace[t + 2] ELSE NoModule

-----------------------------------------------------------------------------
(* OraclePolicy._access: a known module must be the first of the queue, and used right now. *)
InStep(key) ==
  IF key \in DOMAIN next_use_time_map
    THEN /\ next_use_time_map[key] = cur_time + 1
         /\ \A k \in DOMAIN next_use_time_map : next_use_time_map[k] >= cur_time + 1
    ELSE NextUse(trace, key, cur_time) = cur_time + 1

WithUse(map, key, t) ==
  [k \in (DOMAIN map) \union {key} |-> IF k = key THEN NextUse(trace, key, t) ELSE map[k]]

(* set_cur_seq_id: the cached modules get their first use in the new sequence. *)
SetCurSeq ==
  /\ ppos = "idle" /\ ~raised /\ manager # "lru" /\ sequence < MaxSequence
  /\ sequence' = sequence + 1
  /\ followed' = (followed /\ cur_time + 1 = Len(trace))
  /\ trace' \in UNION {[1 .. n -> ModuleKey] : n \in 1 .. MaxTime}
  /\ cur_time' = -1
  /\ next_use_time_map' = [k \in DOMAIN next_use_time_map |-> NextUse(trace', k, -1)]
  /\ UNCHANGED <<manager, forwards, last_use_order, cacheVars, ppos, module, streamVars, raised>>

(* A module of the model is called: the next of the trace, or another one. *)
Called(m) ==
  /\ ppos = "idle" /\ ~raised /\ forwards < MaxForward
  /\ forwards' = forwards + 1
  /\ module' = m
  /\ followed' = (followed /\ (manager = "lru" \/ PredictNext(cur_time) = m))
  /\ UNCHANGED <<manager, sequence, trace>>

-----------------------------------------------------------------------------
(* ExpertCacheMngr *)

(* _choose_to_evict: the oldest, or one that is used last. *)
Victim(v) ==
  IF manager = "lru" THEN v = Head(last_use_order)
  ELSE \A k \in DOMAIN next_use_time_map : next_use_time_map[k] <= next_use_time_map[v]

(* _evict at a full cache: the policy and the module forget the victim. *)
Evicted(v) ==
  /\ cached_map' = (cached_map \ {v}) \union {module'}
  /\ on_device' = (on_device \ {v}) \union {module'}

Accessed(known, order) ==
  IF manager = "lru"
    THEN /\ last_use_order' = Append(order, module')
         /\ UNCHANGED <<cur_time, next_use_time_map, raised>>
    ELSE /\ UNCHANGED last_use_order
         /\ IF InStep(module')
              THEN /\ cur_time' = cur_time + 1
                   /\ next_use_time_map' = WithUse(known, module', cur_time + 1)
                   /\ UNCHANGED raised
              ELSE raised' = TRUE /\ UNCHANGED <<cur_time, next_use_time_map>>

Hit(m) ==
  /\ manager # "prefetch" /\ m \in cached_map /\ Called(m)
  /\ Accessed(next_use_time_map, SelectSeq(last_use_order, LAMBDA k : k # m))
  /\ ppos' = "forward"
  /\ UNCHANGED <<cacheVars, streamVars>>

Miss(m) ==
  /\ manager # "prefetch" /\ m \notin cached_map /\ Called(m)
  /\ IF Cardinality(cached_map) < CacheLen
       THEN /\ cached_map' = cached_map \union {m} /\ on_device' = on_device \union {m}
            /\ Accessed(next_use_time_map, last_use_order)
       ELSE \E v \in cached_map :
              /\ Victim(v) /\ Evicted(v)
              /\ Accessed(Restrict(next_use_time_map, (DOMAIN next_use_time_map) \ {v}),
                          SelectSeq(last_use_order, LAMBDA k : k # v))
  /\ ppos' = "forward"
  /\ UNCHANGED streamVars

(* clear_cache without simulate_evict: the tensors stay where they are. *)
ClearCache ==
  /\ ppos = "idle" /\ ~raised /\ manager # "prefetch" /\ cached_map # {}
  /\ cached_map' = {} /\ last_use_order' = << >> /\ next_use_time_map' = << >>
  /\ UNCHANGED <<manager, sequence, forwards, trace, cur_time, on_device, ppos, module,
                 streamVars, raised, followed>>

CachedForward ==
  /\ ppos = "forward" /\ ~raised /\ manager # "prefetch"
  /\ ppos' = "idle"
  /\ UNCHANGED <<manager, sequence, forwards, trace, policyVars, cacheVars, module, streamVars,
                 raised, followed>>

-----------------------------------------------------------------------------
(* NaiveExpertPrefetchMngr *)

(* PrefetchJob.is_done: the event behind the job's copy has passed. *)
Done(job) == \A i \in DOMAIN copies : copies[i].buffer # job.buffer

CopyTo(job, m) == [kind |-> "copy", buffer |-> job.buffer, module |-> m, behind |-> 0]

(* create_launch_job on one of the two jobs. *)
Launched(job, m) == [job EXCEPT !.prefix = m]

Exchanged == [forward |-> jobs.prefetch, prefetch |-> jobs.forward]

(* The module is the one that was prefetched. *)
AsPredicted(m) ==
  /\ manager = "prefetch" /\ m = jobs.prefetch.prefix /\ Called(m)
  /\ jobs' = Exchanged
  /\ ppos' = "arriving"
  /\ UNCHANGED <<policyVars, cacheVars, copies, kernels, content, raised>>

(* It is another one: first let the job end that will be given another copy. *)
Mispredicted(m) ==
  /\ manager = "prefetch" /\ m # jobs.prefetch.prefix /\ cur_time # -1 /\ Called(m)
  /\ jobs' = Exchanged
  /\ ppos' = "mispredicted"
  /\ raised' = (~Done(jobs.forward) \/ jobs.prefetch.prefix = NoModule)
  /\ UNCHANGED <<policyVars, cacheVars, copies, kernels, content>>

Recopy ==
  /\ ppos = "mispredicted" /\ ~raised /\ Done(jobs.forward)
  /\ jobs' = [jobs EXCEPT !.forward = Launched(jobs.forward, module)]
  /\ copies' = Append(copies, CopyTo(jobs.forward, module))
  /\ ppos' = "recopied"
  /\ UNCHANGED <<manager, sequence, forwards, trace, policyVars, cacheVars, module, kernels,
                 content, raised, followed>>

Recopied ==
  /\ ppos = "recopied" /\ Done(jobs.forward)
  /\ ppos' = "forward"
  /\ UNCHANGED <<manager, sequence, forwards, trace, policyVars, cacheVars, module, streamVars,
                 raised, followed>>

(* The first of a sequence. *)
NewSequence(m) ==
  /\ manager = "prefetch" /\ m # jobs.prefetch.prefix /\ cur_time = -1 /\ Called(m)
  /\ IF Done(jobs.forward) /\ Done(jobs.prefetch) /\ PredictNext(-1) = m
       THEN /\ jobs' = [jobs EXCEPT !.forward = Launched(jobs.forward, m)]
            /\ copies' = Append(copies, CopyTo(jobs.forward, m))
            /\ ppos' = "arriving"
            /\ UNCHANGED raised
       ELSE raised' = TRUE /\ UNCHANGED <<jobs, copies, ppos>>
  /\ UNCHANGED <<policyVars, cacheVars, kernels, content>>

(* The weights are there: account for the access and prefetch the next module. *)
Arrived ==
  /\ ppos = "arriving" /\ ~raised /\ Done(jobs.forward)
  /\ IF InStep(module)
       THEN /\ cur_time' = cur_time + 1
            /\ next_use_time_map' = WithUse(next_use_time_map, module, cur_time + 1)
            /\ LET next == PredictNext(cur_time + 1)
               IN IF next = NoModule THEN UNCHANGED <<jobs, copies>>
                  ELSE /\ jobs' = [jobs EXCEPT !.prefetch = Launched(jobs.prefetch, next)]
                       /\ copies' = Append(copies, CopyTo(jobs.prefetch, next))
            /\ ppos' = "forward"
            /\ UNCHANGED raised
       ELSE raised' = TRUE /\ UNCHANGED <<cur_time, next_use_time_map, jobs, copies, ppos>>
  /\ UNCHANGED <<manager, sequence, forwards, trace, last_use_order, cacheVars, module, kernels,
                 content, followed>>

(* Mutation of WaitForKernels: the event is recorded before the module is run. *)
WaitForEarlierKernels == << [kind |-> "wait", buffer |-> "none", module |-> NoModule,
                             behind |-> Len(kernels)] >>

(* on_post_forward: what is copied from now on waits for the kernels enqueued so far. *)
WaitForKernels == << [kind |-> "wait", buffer |-> "none", module |-> NoModule,
                      behind |-> Len(kernels) + 1] >>

Forward ==
  /\ ppos = "forward" /\ manager = "prefetch"
  /\ kernels' = Append(kernels, [module |-> module, buffer |-> jobs.forward.buffer])
  /\ copies' = copies \o WaitForKernels
  /\ ppos' = "idle"
  /\ UNCHANGED <<manager, sequence, forwards, trace, policyVars, cacheVars, module, jobs,
                 content, raised, followed>>

(* The device. *)
KernelEnds ==
  /\ kernels # << >>
  /\ kernels' = Tail(kernels)
  /\ copies' = [i \in DOMAIN copies |-> [copies[i] EXCEPT !.behind = Max({0, @ - 1})]]
  /\ UNCHANGED <<manager, sequence, forwards, trace, policyVars, cacheVars, ppos, module, jobs,
                 content, raised, followed>>

StreamUnchanged == UNCHANGED <<manager, sequence, forwards, trace, policyVars, cacheVars, ppos,
                              module, jobs, kernels, raised, followed>>

WaitEnds ==
  /\ copies # << >> /\ Head(copies).kind = "wait" /\ Head(copies).behind = 0
  /\ copies' = Tail(copies)
  /\ UNCHANGED content
  /\ StreamUnchanged

CopyStarts ==
  /\ copies # << >> /\ Head(copies).kind = "copy" /\ content[Head(copies).buffer] # NoModule
  /\ content' = [content EXCEPT ![Head(copies).buffer] = NoModule]
  /\ UNCHANGED copies
  /\ StreamUnchanged

CopyEnds ==
  /\ copies # << >> /\ Head(copies).kind = "copy" /\ content[Head(copies).buffer] = NoModule
  /\ content' = [content EXCEPT ![Head(copies).buffer] = Head(copies).module]
  /\ copies' = Tail(copies)
  /\ StreamUnchanged

-----------------------------------------------------------------------------
(* No manager has run anything, no sequence is set. *)
IdleManagers ==
  /\ sequence = 0 /\ forwards = 0 /\ trace = << >> /\ cur_time = -1
  /\ next_use_time_map = << >> /\ last_use_order = << >>
  /\ cached_map = {} /\ on_device = {}
  /\ ppos = "idle" /\ module = NoModule
  /\ jobs = [forward |-> [prefix |-> NoModule, buffer |-> "a"],
             prefetch |-> [prefix |-> NoModule, buffer |-> "b"]]
  /\ copies = << >> /\ kernels = << >> /\ content = [b \in Buffer |-> NoModule]
  /\ raised = FALSE /\ followed = TRUE

InitManagers == IdleManagers /\ manager \in {"lru", "oracle", "prefetch"}

(* The oracle is asked about a sequence only: the runner sets one before the first module. *)
NextManagers ==
  \/ SetCurSeq
  \/ \E m \in ModuleKey :
       /\ manager = "lru" \/ sequence > 0
       /\ Hit(m) \/ Miss(m) \/ AsPredicted(m) \/ Mispredicted(m) \/ NewSequence(m)
  \/ ClearCache \/ CachedForward
  \/ Recopy \/ Recopied \/ Arrived \/ Forward
  \/ KernelEnds \/ WaitEnds \/ CopyStarts \/ CopyEnds

SpecManagers == InitManagers /\ [][NextManagers]_managerVars
-----------------------------------------------------------------------------
(* Whatever module is called, its kernels read its own weights, from when they are enqueued to *)
(* their end: neither the next prefetch nor a copy after a wrong prediction overwrites a buffer  *)
(* another module still reads, although the host waits for no kernel (expert_prefetch.py:190).  *)
(* A cached module that is run is on the device.  While the model follows the traces to their   *)
(* ends no assertion of OraclePolicy or of the prefetcher fails, whatever earlier sequences      *)
(* have left in the cache and in the two jobs.                                                  *)
ModulesServed ==
  /\ followed => ~raised
  /\ \A k \in DOMAIN kernels : content[kernels[k].buffer] = kernels[k].module
  /\ manager # "prefetch" /\ ppos = "forward" => module \in on_device
=============================================================================

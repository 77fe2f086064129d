---------------------------- MODULE CachePolicies ----------------------------
(***************************************************************************)
(* The replacement policies of cache.hpp below Prefetcher: which expert    *)
(* select_for_evict returns, and what every hit and miss of the scheduler  *)
(* does to the state of the policy.  All slots have the same policy.       *)
(*                                                                         *)
(* CachePolicyMIN has an oracle: the activations of each sequence,         *)
(* recorded in an earlier run.  Here they are chosen when the application  *)
(* starts the sequence (trace), and the hook follows them.                 *)
(*                                                                         *)
(* CachePolicyNN evicts by predicted probability: the predict worker       *)
(* replaces the priorities while the scheduler goes on.  The tensor and    *)
(* the heap nodes hold the same values; the largest is max_priority.       *)
(***************************************************************************)
EXTENDS Prefetcher, SequencesExt

CONSTANTS
  Policies,                 \* the values of metas->cache_policy to try
  MaxProb,                  \* bound: predicted probabilities are 0 .. MaxProb
  FloatLimit,               \* the float that stays the same when one is added (2^24)
  PromoteHitInPrefetch,     \* metas->promote_hit_in_prefetch
  MaxAlternativeBufferLen   \* of CachePolicyStatic: 1 (static-1) or 2 (static-2)

ASSUME PoliciesAssumption ==
  /\ Policies \subseteq {"fifo", "lru", "static", "min", "nn"}
  /\ MaxProb \in Nat /\ FloatLimit \in Nat /\ PromoteHitInPrefetch \in BOOLEAN
  /\ MaxAlternativeBufferLen \in Nat \ {0}

VARIABLES
  cache_policy,
  order,              \* slot -> its experts, the next to evict first (fifo_queue, linked_list)
  persisted_experts,  \* slot -> the experts that CachePolicyStatic will never evict
  trace,              \* the oracle: the experts of each layer of each iteration of a sequence
  first_iter,         \* the iteration the sequence began with
  next_use_time_idx,  \* expert -> how many of its use times have passed (CachePolicyMIN)
  current_time,       \* slot -> use time of the last precise access (CachePolicyMIN)
  priority,           \* expert -> its priority (CachePolicyNN)
  prob,               \* the prediction the predict worker is at
  updating            \* the predict worker is inside update_priority

minVars == <<trace, first_iter, next_use_time_idx, current_time>>
nnVars == <<priority, prob, updating>>
policyVars == <<cache_policy, order, persisted_experts, minVars, nnVars>>
tracedVars == <<vars, policyVars>>

(* The traces of a sequence of n iterations. *)
Traces(n) ==
  [0 .. (n * NumLayer - 1) -> {x \in SUBSET ExpertIdx : Cardinality(x) \in 1 .. MaxActive}]
Time == DOMAIN trace
Now == (iter - first_iter) * NumLayer + layer
Uses(e) == {t \in Time : t % NumLayer = e[1] /\ e[2] \in trace[t]}

(* use_times[i] of an expert; behind the last one the code pushes the largest integer. *)
UseTime(e, i) ==
  CHOOSE t \in Uses(e) \cup {MaxIter * NumLayer} : Cardinality({u \in Uses(e) : u < t}) = i

InitPolicies ==
  /\ Init
  /\ cache_policy \in Policies
  /\ order = [s \in Slot |-> << >>]
  /\ persisted_experts = [s \in Slot |-> {}]
  /\ trace = << >> /\ first_iter = 0
  /\ next_use_time_idx = [e \in Expert |-> 0]
  /\ current_time = [s \in Slot |-> -1]
  /\ priority = [e \in Expert |-> 0] /\ prob = << >> /\ updating = FALSE

-----------------------------------------------------------------------------
(* Mutation of Touched: an expert keeps its place, as in a FIFO queue. *)
NotTouched(q, e) == q

(* Mutation of Removed: evict does not tell the policy. *)
NotRemoved(q, v) == q

Removed(q, v) == RemoveAt(q, CHOOSE i \in 1 .. Len(q) : q[i] = v)

(* CachePolicyLRU::access_on_hit moves the expert to the back. *)
Touched(q, e) == Append(Removed(q, e), e)

(* CachePolicyMIN: the use time of a precise access has passed. *)
UsePassed(e, is_precise) ==
  IF cache_policy = "min" /\ is_precise
    THEN /\ current_time' = [current_time EXCEPT ![SlotOf(e)] = UseTime(e, next_use_time_idx[e])]
         /\ next_use_time_idx' = [next_use_time_idx EXCEPT ![e] = @ + 1]
    ELSE UNCHANGED <<current_time, next_use_time_idx>>

max_priority == Max(Range(priority))

(* max_priority += 1, in a float *)
NextPriority == IF max_priority < FloatLimit THEN max_priority + 1 ELSE max_priority

(* CacheMngr::hit and miss: after a precise access no expert has a higher priority. *)
Prioritised(e, is_precise) ==
  /\ priority' = IF cache_policy = "nn" /\ is_precise
                   THEN [priority EXCEPT ![e] = NextPriority] ELSE priority
  /\ UNCHANGED <<prob, updating>>

AccessOnHit(e, is_precise) ==
  /\ order' = IF cache_policy = "lru" THEN [order EXCEPT ![SlotOf(e)] = Touched(@, e)] ELSE order
  /\ UsePassed(e, is_precise) /\ Prioritised(e, is_precise)
  /\ UNCHANGED <<cache_policy, persisted_experts, trace, first_iter>>

(* CachePolicyStatic makes room in its short list: its first expert stays in the cache for good. *)
Persists(q) == cache_policy = "static" /\ Len(q) = MaxAlternativeBufferLen

(* access_on_miss on what evict has left of the slot's experts. *)
AccessOnMiss(e, q, is_precise) ==
  LET s == SlotOf(e)
  IN /\ order' = [order EXCEPT ![s] = Append(IF Persists(q) THEN Tail(q) ELSE q, e)]
     /\ persisted_experts' = IF Persists(q) THEN [persisted_experts EXCEPT ![s] = @ \cup {Head(q)}]
                               ELSE persisted_experts
     /\ UsePassed(e, is_precise) /\ Prioritised(e, is_precise)
     /\ UNCHANGED <<cache_policy, trace, first_iter>>

(* The front of a heap has the least value, unless the values are just being replaced. *)
HeapFront(s, value) ==
  {v \in ToSet(order[s]) : updating \/ \A w \in ToSet(order[s]) : value[v] <= value[w]}

(* select_for_evict.  For MIN an expert of the slot that is used again as late as any. *)
SelectForEvict(s) ==
  CASE cache_policy = "min" -> HeapFront(s, [e \in Expert |-> -UseTime(e, next_use_time_idx[e])])
    [] cache_policy = "nn"  -> HeapFront(s, priority)
    [] OTHER                -> {Head(order[s])}

-----------------------------------------------------------------------------
(* The cases of the preempt handlers that call cache_hit. *)
HitOnPreempt(e, behindMiss) ==
  /\ IsInCache(e) /\ ~behindMiss
  /\ num_ready[e] = P \/ (e = current.expert /\ current.stop = P)

PreemptHits(e, behindMiss) ==
  IF HitOnPreempt(e, behindMiss) THEN AccessOnHit(e, TRUE) ELSE UNCHANGED policyVars

(* The job that pop_next_task returns. *)
NextJob ==
  IF precise_job_queue # << >> THEN Head(precise_job_queue)
  ELSE LET first == CHOOSE l \in Layer : /\ per_layer_job_queues[l] # << >>
                                         /\ \A k \in 0 .. (l - 1) : per_layer_job_queues[k] = << >>
       IN Head(per_layer_job_queues[first])

(* Mutation of HitOnSend: the rest of a partly fetched expert is not a hit. *)
HitOnSendFirst(t) == t.start = 0

(* send_one_job for a cached expert. *)
HitOnSend(t) == t.is_precise \/ t.start = 0

(* send_one_job: a hit, or a miss that takes an unused buffer or evicts. *)
SendAccesses(t) ==
  LET e == t.expert
      q == order[SlotOf(e)]
      missed == prefetched_experts[e] = NoBuffer /\ prefetched_experts'[e] # NoBuffer
      evicted == {v \in Expert : IsInCache(v) /\ prefetched_experts'[v] = NoBuffer}
  IN \/ IsInCache(e) /\ HitOnSend(t) /\ AccessOnHit(e, t.is_precise)
     \/ missed /\ evicted = {} /\ AccessOnMiss(e, q, t.is_precise)
     \/ missed /\ \E v \in evicted :
                    v \in SelectForEvict(SlotOf(e)) /\ AccessOnMiss(e, Removed(q, v), t.is_precise)
     \/ ~missed /\ ~(IsInCache(e) /\ HitOnSend(t)) /\ UNCHANGED policyVars

(* y is accessed after every access to x in s. *)
AccessedAfter(s, y, x) == \E j \in 1 .. Len(s) : s[j] = y /\ \A k \in j .. Len(s) : s[k] # x

(* The list q when those of the experts es that are in it have been hit one after the other: *)
(* its experts in the order of their last access.                                            *)
Promoted(q, es) ==
  {r \in [1 .. Len(q) -> ToSet(q)] :
     /\ ToSet(r) = ToSet(q)
     /\ \A i, j \in 1 .. Len(q) : i < j => AccessedAfter(q \o es, r[j], r[i])}

PredictedExperts == [i \in 1 .. Len(pexperts) |-> <<pnext, pexperts[i]>>]

(* PrefetchLayerTask hits every predicted expert that is in the cache, imprecisely: of the     *)
(* policies only LRU notices.                                                                  *)
PromoteHits ==
  /\ IF PromoteHitInPrefetch /\ cache_policy = "lru"
       THEN LET s == IF PerLayerCache THEN pnext ELSE 0
            IN \E r \in Promoted(order[s], PredictedExperts) : order' = [order EXCEPT ![s] = r]
       ELSE order' = order
  /\ UNCHANGED <<cache_policy, persisted_experts, minVars, nnVars>>

-----------------------------------------------------------------------------
(* Mutation of Rewound: the next uses stay where the last sequence left them. *)
NotRewound == next_use_time_idx

Rewound == [e \in Expert |-> 0]

(* The application calls set_cur_seq before it generates the next sequence. *)
SetCurSeq ==
  /\ cache_policy = "min"
  /\ hpc = "start" /\ Now = Cardinality(Time)
  /\ trace' \in UNION {Traces(n) : n \in 1 .. (MaxIter - iter)}
  /\ first_iter' = iter
  /\ next_use_time_idx' = Rewound
  /\ current_time' = [s \in Slot |-> -1]
  /\ UNCHANGED <<vars, cache_policy, order, persisted_experts, nnVars>>

(* The gate chooses what the oracle says. *)
FollowsTrace == cache_policy = "min" => ToSet(experts') = trace[Now]

(* A job with a prediction rewrites one row for each of its layers; one without has no effect. *)
BeginUpdate ==
  /\ cache_policy = "nn" /\ updating' = TRUE
  /\ prob' \in [(pnext' .. (pstop' - 1)) \X ExpertIdx -> 0 .. MaxProb]
  /\ \A e, f \in DOMAIN prob' : e[1] = f[1] /\ prob'[e] = prob'[f] => e = f
  /\ priority' = [e \in Expert |-> IF e \in DOMAIN prob' THEN prob'[e] ELSE priority[e]]
  /\ UNCHANGED <<cache_policy, order, persisted_experts, minVars>>

(* rank_experts: the experts of the layer with the highest probabilities.  Before the first    *)
(* sequence of MIN there are no logits to predict from.                                        *)
RankExperts ==
  CASE cache_policy = "nn" /\ prob # << >> ->
         /\ Len(pexperts') = NumPredict[pnext]
         /\ \A i \in 1 .. Len(pexperts') : \A x \in ExpertIdx \ ToSet(SubSeq(pexperts', 1, i)) :
              prob[<<pnext, x>>] <= prob[<<pnext, pexperts'[i]>>]
    [] cache_policy = "nn" /\ prob = << >> -> pexperts' = << >>
    [] cache_policy # "nn" -> cache_policy = "min" /\ trace = << >> => pexperts' = << >>

(* The prediction ends with the job. *)
EndPrediction ==
  /\ prob' = IF pnext' = pstop THEN << >> ELSE prob
  /\ UNCHANGED <<cache_policy, order, persisted_experts, minVars, priority, updating>>

(* The heaps are in order again. *)
EndUpdate ==
  /\ updating /\ updating' = FALSE
  /\ UNCHANGED <<vars, cache_policy, order, persisted_experts, minVars, priority, prob>>

NextPolicies ==
  /\ aborted = "none"
  /\ \/ SchedPreemptExpert /\ PreemptHits(<<layer, experts[sidx]>>, BehindMiss(sidx))
     \/ SchedPreemptOne /\ PreemptHits(HookExpert, FALSE)
     \/ SchedIdle /\ SendAccesses(NextJob)
     \/ SchedPrefetchLayer /\ PromoteHits
     \/ HookStart /\ (cache_policy = "min" => Now \in Time) /\ UNCHANGED policyVars
     \/ HookReportLayer /\ FollowsTrace /\ UNCHANGED policyVars
     \/ PredictStart /\ (BeginUpdate \/ UNCHANGED policyVars)   \* no update without a prediction
     \/ ~updating /\ PredictLayer /\ RankExperts /\ UNCHANGED policyVars
     \/ PredictLayerDone /\ EndPrediction
     \/ SetCurSeq \/ EndUpdate
     \/ /\ \/ HookReportExpert \/ HookExpertDone \/ HookLayerDone
           \/ SchedPreempt \/ SchedPreemptEnd \/ SchedFetchDone \/ SchedIdleAgain
           \/ Fetcher \/ StreamStep \/ Unlock
        /\ UNCHANGED policyVars

SpecPolicies == InitPolicies /\ [][NextPolicies]_tracedVars
-----------------------------------------------------------------------------
(* The policy of a slot lists exactly the experts that own one of its buffers, each once: the *)
(* CHECKs of access_on_hit and access_on_miss on the policy's map hold, and what               *)
(* select_for_evict returns is really in the cache (cache.cpp:264-304).                        *)
PolicyTracksCache ==
  \A s \in Slot :
    /\ IsInjective(order[s])
    /\ ToSet(order[s]) \cap persisted_experts[s] = {}
    /\ ToSet(order[s]) \cup persisted_experts[s] =
         {e \in Expert : IsInCache(e) /\ SlotOf(e) = s}

(* The oracle of CachePolicyMIN stays in step with the model although precise accesses come    *)
(* from six calls of the scheduler (prefetcher.cpp:56, 62, 106, 115, 627 and 632), imprecise   *)
(* ones from three (594, 627, 634), and set_cur_seq from another thread: when the hook is      *)
(* between two layers, each expert has been accessed precisely as often as it has been         *)
(* activated in the sequence (comment of prefetcher.cpp:81-82 on which of them call cache hit).*)
OneAccessPerActivation ==
  cache_policy = "min" /\ Awaited = {} /\ hpc # "layer_done" =>
    \A e \in Expert : next_use_time_idx[e] = Cardinality({t \in Uses(e) : t < Now})

(* CHECK(current_time <= use_times[..]) of cache.cpp:497 and cache.cpp:532: within a sequence  *)
(* the use times a slot sees never go back, whatever is preempted, promoted or fetched again.  *)
UseTimesAscend ==
  [][\A s \in Slot : current_time'[s] >= current_time[s] \/ current_time'[s] = -1]_tracedVars

(* With a buffer for every expert that a layer activates or that is predicted for the layers  *)
(* within the prefetch distance, LRU and NN never give away the buffer of an expert that is    *)
(* launched and not used yet: no fetch waits for the model to get to another expert.  NN has   *)
(* this from the priorities of precise accesses, until they reach the limit of a float.        *)
LaunchedSpared ==
  cache_policy \in {"lru", "nn"} /\ max_priority < FloatLimit /\ fpc = "wait" /\ victim # NoExpert =>
    expert_status[victim] # "Launching"

(* When one job predicts a whole iteration, the scheduler neither hits, adds nor evicts an     *)
(* expert while the predict worker rewrites the priorities and the heaps of the slots, which   *)
(* no lock protects (worker.cpp:20): what is left to fetch of the iteration before has been    *)
(* dropped or done.                                                                            *)
UpdatesUndisturbed == [][updating => UNCHANGED <<order, priority>>]_tracedVars
=============================================================================

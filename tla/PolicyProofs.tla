------------------------------ MODULE PolicyProofs ------------------------------
(***************************************************************************)
(* The replacement policies, for every value of the constants:             *)
(*                                                                         *)
(*  - PoliciesTrackCache: the policy of a slot lists the owners of its     *)
(*    buffers, and select_for_evict only returns one of them.  The lists   *)
(*    and the buffers change together in one send_one_job; what has to be  *)
(*    invariant besides is PolicyTypes, and the types and the cache of     *)
(*    PrefetcherProofs.                                                    *)
(*  - OracleKeepsCount, OracleAscends: the next use times of               *)
(*    CachePolicyMIN are the ones of the activation that the model is at.  *)
(*    MinInv counts the uses of a layer while it goes on: an expert that   *)
(*    the hook asks for has one access more once its preempt handler has   *)
(*    done its work (Accessed), and no precise job is left for IdleTask    *)
(*    to access a second time.  That needs where the hook is between two   *)
(*    layers (RunInv) and which preempt requests are still queued          *)
(*    (PrefetcherWindow, PrefetcherExecution).                             *)
(*  - UpdatesAlone: nobody touches the lists and the priorities of         *)
(*    CachePolicyNN while the predict worker rewrites them.  QueuesInv of  *)
(*    PrefetcherExecution says that what is queued for prefetching is of a *)
(*    layer that the hook has not preempted yet and the predict worker has *)
(*    been at in this iteration.  When a job begins, it has not been at    *)
(*    any layer and the hook has finished the last one: all queues are     *)
(*    empty.                                                               *)
(*  - LaunchedAreSpared: LRU and NN never evict an expert that is launched *)
(*    and not used yet, if a slot has room for what a layer activates and  *)
(*    what is predicted within the prefetch distance (HasRoom).  Since the *)
(*    hook asked for the expert, only experts of the layer and predicted   *)
(*    ones of later layers have been accessed, the ones PrefetchLayerTask  *)
(*    promotes included (SparedInv, PromoteRecent): they are all           *)
(*    the policy keeps longer.  If it were the one to evict, the whole     *)
(*    slot would consist of those, and the expert to fetch is one more.    *)
(***************************************************************************)
EXTENDS CachePolicies, PrefetcherExecution, SequenceTheorems

USE DEF hookVars, schedVars, cacheVars, fetchVars, unlockVars, memVars, predictVars

(* A set of natural numbers has a least element: what stands in for induction. *)
LEMMA LeastElement ==
  ASSUME NEW T, T \subseteq Nat, T # {}
  PROVE  \E x \in T : \A y \in T : x <= y
<1> DEFINE R == {ss \in Nat \X Nat : ss[1] < ss[2]}
<1>1. IsWellFoundedOn(R, Nat)
  BY NatLessThanWellFounded, Zenon DEF OpToRel
<1>2. PICK x \in T : \A y \in T : ~(<<y, x>> \in R)
  BY <1>1, WFMin
<1>3. ASSUME NEW y \in T PROVE x <= y
  <2>1. x \in Nat /\ y \in Nat
    OBVIOUS
  <2>2. y < x => <<y, x>> \in R
    BY <2>1
  <2> QED BY <1>2, <2>1, <2>2
<1> QED BY <1>3

(* The list without v: what was behind it moves up. *)
LEMMA RemovedAt ==
  ASSUME NEW S, NEW q \in Seq(S), NEW v \in ToSet(q)
  PROVE  \E i \in 1 .. Len(q) :
           /\ q[i] = v
           /\ Removed(q, v) \in Seq(S) /\ Len(Removed(q, v)) = Len(q) - 1
           /\ \A k \in 1 .. (Len(q) - 1) : Removed(q, v)[k] = IF k < i THEN q[k] ELSE q[k + 1]
<1> DEFINE i == CHOOSE i \in 1 .. Len(q) : q[i] = v
           n == Len(q)
           r == Removed(q, v)
<1>n. n \in Nat /\ DOMAIN q = 1 .. n /\ \A k \in 1 .. n : q[k] \in S
  OBVIOUS
<1>1. i \in 1 .. n /\ q[i] = v
  BY <1>n DEF ToSet
<1>2. r = SubSeq(q, 1, i - 1) \o SubSeq(q, i + 1, n)
  BY DEF Removed, RemoveAt
<1> HIDE DEF i, r
<1>3. /\ SubSeq(q, 1, i - 1) \in Seq(S) /\ Len(SubSeq(q, 1, i - 1)) = i - 1
      /\ \A k \in 1 .. (i - 1) : SubSeq(q, 1, i - 1)[k] = q[k]
  <2>1. 1 \in Int /\ i - 1 \in Int /\ \A k \in 1 .. (i - 1) : q[k] \in S
    BY <1>n, <1>1
  <2>2. /\ SubSeq(q, 1, i - 1) \in Seq(S)
        /\ Len(SubSeq(q, 1, i - 1)) = IF 1 <= i - 1 THEN (i - 1) - 1 + 1 ELSE 0
        /\ \A k \in 1 .. ((i - 1) - 1 + 1) : SubSeq(q, 1, i - 1)[k] = q[1 + k - 1]
    BY <2>1, SubSeqProperties
  <2>3. (i - 1) - 1 + 1 = i - 1 /\ i - 1 \in Nat /\ \A k \in 1 .. (i - 1) : 1 + k - 1 = k
    BY <1>n, <1>1
  <2> QED BY <2>2, <2>3
<1>4. /\ SubSeq(q, i + 1, n) \in Seq(S) /\ Len(SubSeq(q, i + 1, n)) = n - i
      /\ \A k \in 1 .. (n - i) : SubSeq(q, i + 1, n)[k] = q[i + k]
  <2>1. i + 1 \in Int /\ n \in Int /\ \A k \in (i + 1) .. n : q[k] \in S
    BY <1>n, <1>1
  <2>2. /\ SubSeq(q, i + 1, n) \in Seq(S)
        /\ Len(SubSeq(q, i + 1, n)) = IF i + 1 <= n THEN n - (i + 1) + 1 ELSE 0
        /\ \A k \in 1 .. (n - (i + 1) + 1) : SubSeq(q, i + 1, n)[k] = q[(i + 1) + k - 1]
    BY <2>1, SubSeqProperties
  <2>3. n - (i + 1) + 1 = n - i /\ n - i \in Nat /\ \A k \in 1 .. (n - i) : (i + 1) + k - 1 = i + k
    BY <1>n, <1>1
  <2> QED BY <2>2, <2>3
<1>c. /\ r \in Seq(S) /\ Len(r) = (i - 1) + (n - i)
      /\ \A k \in 1 .. ((i - 1) + (n - i)) :
           r[k] = IF k <= i - 1 THEN SubSeq(q, 1, i - 1)[k] ELSE SubSeq(q, i + 1, n)[k - (i - 1)]
  BY <1>2, <1>3, <1>4, ConcatProperties, SMTT(30)
<1>s. (i - 1) + (n - i) = n - 1
  BY <1>n, <1>1
<1>5. r \in Seq(S) /\ Len(r) = n - 1
  BY <1>c, <1>s
<1>6. \A k \in 1 .. (n - 1) : r[k] = IF k < i THEN q[k] ELSE q[k + 1]
  <2> SUFFICES ASSUME NEW k \in 1 .. (n - 1) PROVE r[k] = IF k < i THEN q[k] ELSE q[k + 1]
    OBVIOUS
  <2>1. CASE k < i
    <3>1. k \in 1 .. (i - 1) /\ k <= i - 1
      BY <1>n, <1>1, <2>1
    <3> QED BY <1>c, <1>s, <1>3, <2>1, <3>1
  <2>2. CASE ~(k < i)
    <3>1. k - (i - 1) \in 1 .. (n - i) /\ i + (k - (i - 1)) = k + 1
      BY <1>n, <1>1, <2>2
    <3>2. r[k] = SubSeq(q, i + 1, n)[k - (i - 1)]
      <4>1. ~(k <= i - 1)
        BY <1>n, <1>1, <2>2
      <4> QED BY <1>c, <1>s, <4>1
    <3> QED BY <1>4, <2>2, <3>1, <3>2
  <2> QED BY <2>1, <2>2
<1> QED BY <1>1, <1>5, <1>6 DEF r, n

LEMMA RemoveLists ==
  ASSUME NEW S, NEW q \in Seq(S), IsInjective(q), NEW v \in ToSet(q)
  PROVE  /\ Removed(q, v) \in Seq(S) /\ IsInjective(Removed(q, v))
         /\ ToSet(Removed(q, v)) = ToSet(q) \ {v}
<1> DEFINE n == Len(q)
           r == Removed(q, v)
<1>n. n \in Nat /\ DOMAIN q = 1 .. n /\ \A k \in 1 .. n : q[k] \in S
  OBVIOUS
<1>j. \A k, l \in 1 .. n : q[k] = q[l] => k = l
  BY <1>n DEF IsInjective
<1>1. PICK i \in 1 .. n : /\ q[i] = v
                          /\ r \in Seq(S) /\ Len(r) = n - 1
                          /\ \A k \in 1 .. (n - 1) : r[k] = IF k < i THEN q[k] ELSE q[k + 1]
  BY RemovedAt
<1> HIDE DEF r
<1>5. r \in Seq(S) /\ Len(r) = n - 1
  BY <1>1
<1>6. \A k \in 1 .. (n - 1) : r[k] = IF k < i THEN q[k] ELSE q[k + 1]
  BY <1>1
<1>7. DOMAIN r = 1 .. (n - 1)
  BY <1>5, <1>n
<1>8. IsInjective(r)
  <2> SUFFICES ASSUME NEW k \in 1 .. (n - 1), NEW l \in 1 .. (n - 1), r[k] = r[l] PROVE k = l
    BY <1>7 DEF IsInjective
  <2> QED BY <1>n, <1>1, <1>6, <1>j
<1>9. ToSet(r) \subseteq ToSet(q) \ {v}
  <2> SUFFICES ASSUME NEW k \in 1 .. (n - 1) PROVE r[k] \in ToSet(q) /\ r[k] # v
    BY <1>7 DEF ToSet
  <2>1. k \in 1 .. n /\ k + 1 \in 1 .. n
    BY <1>n
  <2>2. q[k] \in ToSet(q) /\ q[k + 1] \in ToSet(q)
    BY <1>n, <2>1 DEF ToSet
  <2>3. k < i => q[k] # v
    BY <1>1, <1>j, <2>1
  <2>4. ~(k < i) => q[k + 1] # v
    BY <1>1, <1>j, <2>1
  <2> QED BY <1>6, <2>2, <2>3, <2>4
<1>10. ToSet(q) \ {v} \subseteq ToSet(r)
  <2> SUFFICES ASSUME NEW k \in 1 .. n, q[k] # v PROVE q[k] \in ToSet(r)
    BY <1>n DEF ToSet
  <2>1. k # i
    BY <1>1
  <2>2. CASE k < i
    <3>1. k \in 1 .. (n - 1)
      BY <1>n, <1>1, <2>2
    <3> QED BY <1>6, <1>7, <2>2, <3>1 DEF ToSet
  <2>3. CASE k > i
    <3>1. k - 1 \in 1 .. (n - 1) /\ ~(k - 1 < i) /\ (k - 1) + 1 = k
      BY <1>n, <1>1, <2>3
    <3> QED BY <1>6, <1>7, <3>1 DEF ToSet
  <2> QED BY <1>n, <1>1, <2>1, <2>2, <2>3
<1> QED BY <1>5, <1>8, <1>9, <1>10 DEF r

LEMMA AppendLists ==
  ASSUME NEW S, NEW q \in Seq(S), IsInjective(q), NEW e \in S, e \notin ToSet(q)
  PROVE  /\ Append(q, e) \in Seq(S) /\ IsInjective(Append(q, e)) /\ Append(q, e) # << >>
         /\ ToSet(Append(q, e)) = ToSet(q) \cup {e}
<1> DEFINE r == Append(q, e)
           n == Len(q)
<1>1. /\ n \in Nat /\ DOMAIN q = 1 .. n /\ r \in Seq(S) /\ DOMAIN r = 1 .. (n + 1) /\ r # << >>
      /\ \A k \in 1 .. n : r[k] = q[k]
      /\ r[n + 1] = e
  BY Appended
<1> HIDE DEF r, n
<1>2. ToSet(r) = ToSet(q) \cup {e}
  BY <1>1 DEF ToSet
<1>3. IsInjective(r)
  BY <1>1 DEF ToSet, IsInjective
<1> QED BY <1>1, <1>2, <1>3 DEF r

LEMMA TailLists ==
  ASSUME NEW S, NEW q \in Seq(S), IsInjective(q), q # << >>
  PROVE  /\ Tail(q) \in Seq(S) /\ IsInjective(Tail(q)) /\ Head(q) \in ToSet(q)
         /\ ToSet(Tail(q)) = ToSet(q) \ {Head(q)}
<1> DEFINE r == Tail(q)
           n == Len(q)
<1>1. /\ n \in Nat \ {0} /\ DOMAIN q = 1 .. n /\ r \in Seq(S) /\ DOMAIN r = 1 .. (n - 1)
      /\ \A k \in 1 .. (n - 1) : r[k] = q[k + 1]
      /\ Head(q) = q[1]
  OBVIOUS
<1> HIDE DEF r, n
<1>2. \A k, l \in 1 .. n : q[k] = q[l] => k = l
  BY <1>1 DEF IsInjective
<1>3. ToSet(r) \subseteq ToSet(q) \ {q[1]}
  <2> SUFFICES ASSUME NEW k \in 1 .. (n - 1) PROVE r[k] \in ToSet(q) /\ r[k] # q[1]
    BY <1>1 DEF ToSet
  <2>1. k + 1 \in 1 .. n /\ 1 \in 1 .. n /\ k + 1 # 1
    BY <1>1
  <2>2. q[k + 1] # q[1]
    BY <1>2, <2>1
  <2> QED BY <1>1, <2>1, <2>2 DEF ToSet
<1>4. ToSet(q) \ {q[1]} \subseteq ToSet(r)
  <2> SUFFICES ASSUME NEW k \in 1 .. n, q[k] # q[1] PROVE q[k] \in ToSet(r)
    BY <1>1 DEF ToSet
  <2>1. k - 1 \in 1 .. (n - 1) /\ (k - 1) + 1 = k
    BY <1>1
  <2> QED BY <1>1, <2>1 DEF ToSet
<1>5. IsInjective(r)
  <2> SUFFICES ASSUME NEW k \in 1 .. (n - 1), NEW l \in 1 .. (n - 1), r[k] = r[l] PROVE k = l
    BY <1>1 DEF IsInjective
  <2> QED BY <1>1, <1>2
<1>6. q[1] \in ToSet(q)
  BY <1>1 DEF ToSet
<1> QED BY <1>1, <1>3, <1>4, <1>5, <1>6 DEF r
(* The list after a series of hits has the same experts, each once. *)
LEMMA PromotedLists ==
  ASSUME NEW S, NEW q \in Seq(S), NEW es \in Seq(S), NEW r \in Promoted(q, es)
  PROVE  /\ r \in Seq(S) /\ IsInjective(r) /\ ToSet(r) = ToSet(q) /\ Len(r) = Len(q)
         /\ \A i, j \in 1 .. Len(q) : i < j => AccessedAfter(q \o es, r[j], r[i])
<1> DEFINE n == Len(q)
<1>1. /\ n \in Nat /\ DOMAIN q = 1 .. n
      /\ ToSet(q) \subseteq S
  BY DEF ToSet
<1>2. /\ r \in [1 .. n -> ToSet(q)] /\ ToSet(r) = ToSet(q)
      /\ \A i, j \in 1 .. n : i < j => AccessedAfter(q \o es, r[j], r[i])
  BY DEF Promoted
<1>3. r \in [1 .. n -> S]
  BY <1>1, <1>2
<1>4. r \in Seq(S) /\ Len(r) = n
  BY <1>1, <1>3
<1>5. \A x : ~AccessedAfter(q \o es, x, x)
  <2>1. Len(q \o es) \in Nat
    BY ConcatProperties
  <2>2. \A j \in 1 .. Len(q \o es) : j \in j .. Len(q \o es)
    BY <2>1
  <2> QED BY <2>2 DEF AccessedAfter
<1>6. IsInjective(r)
  <2> SUFFICES ASSUME NEW i \in 1 .. n, NEW j \in 1 .. n, r[i] = r[j], i < j PROVE FALSE
    BY <1>1, <1>2 DEF IsInjective
  <2> QED BY <1>2, <1>5
<1> QED BY <1>2, <1>4, <1>6

-----------------------------------------------------------------------------
(* Every step of SpecPolicies is one of Spec, or leaves the threads alone. *)
LEMMA PoliciesRefine == [NextPolicies]_tracedVars => [Next]_vars
<1>1. NextPolicies => Next \/ UNCHANGED vars
  <2> SUFFICES ASSUME NextPolicies PROVE Next \/ UNCHANGED vars
    OBVIOUS
  <2>1. aborted = "none"
    BY DEF NextPolicies
  <2>2. SetCurSeq \/ EndUpdate => UNCHANGED vars
    BY DEF SetCurSeq, EndUpdate
  <2> QED BY <2>1, <2>2 DEF NextPolicies, Next, Step, Hook, Scheduler, Predictor
<1>2. UNCHANGED tracedVars => UNCHANGED vars
  BY DEF tracedVars
<1> QED BY <1>1, <1>2

LEMMA PoliciesTyped == SpecPolicies => []TypeInv
BY InitTypeInv, NextTypeInv, PoliciesRefine, PTL DEF SpecPolicies, InitPolicies

LEMMA PoliciesPartition == SpecPolicies => []BuffersPartitioned
BY PoliciesTyped, InitPartitions, NextPartitions, PoliciesRefine, PTL DEF SpecPolicies, InitPolicies

(* What IdleTask does to the cache: nothing, a miss with an unused buffer, or an eviction.    *)
Moves(e) ==
  \/ UNCHANGED prefetched_experts
  \/ /\ ~IsInCache(e)
     /\ \E b : b # NoBuffer /\ prefetched_experts' = [prefetched_experts EXCEPT ![e] = b]
  \/ /\ ~IsInCache(e)
     /\ \E v \in InSlot(e) :
          prefetched_experts' =
            [prefetched_experts EXCEPT ![v] = NoBuffer, ![e] = prefetched_experts[v]]

LEMMA SendMoves ==
  ASSUME TypeInv, BuffersPartitioned, NEW t \in CopyTask, SendOneJob(t)
  PROVE  Moves(t.expert)
<1> DEFINE e == t.expert
<1>e. e \in Expert /\ gpu_data = prefetched_experts
  BY DEF CopyTask, BuffersPartitioned
<1>1. CASE UNCHANGED cacheVars
  BY <1>1 DEF Moves
<1>2. CASE gpu_data[e] = NoBuffer /\ TakeUnused(e)
  <2> DEFINE s == SlotOf(e)
             b == <<s, unused_mems[s]>>
  <2>1. s \in Slot /\ unused_mems[s] \in Nat /\ unused_mems[s] > 0
    BY <1>2, <1>e, SlotOfType DEF TypeInv, TypeOK, TakeUnused
  <2>2. unused_mems[s] <= SlotLen[s] /\ SlotLen[s] \in Nat
    BY <2>1, ConstantsAssumption DEF TypeInv, IndexInv
  <2>3. b \in Buffer
    BY <2>1, <2>2 DEF Buffer
  <2>4. prefetched_experts' = [prefetched_experts EXCEPT ![e] = b]
    BY <1>2 DEF TakeUnused
  <2> QED BY <1>2, <1>e, <2>3, <2>4, ConstantsAssumption DEF Moves, IsInCache
<1>3. ASSUME gpu_data[e] = NoBuffer, NEW v \in InSlot(e), Evict(e, v)
      PROVE  Moves(e)
  BY <1>3, <1>e DEF Evict, Moves, IsInCache
<1> QED BY <1>1, <1>2, <1>3 DEF SendOneJob, SendMissed, SendDuplicate, SendRest

(* NextJob is the job that IdleTask sends. *)
LEMMA IdleSends ==
  ASSUME TypeInv, SchedIdle
  PROVE  /\ NextJob \in CopyTask /\ SendOneJob(NextJob)
         /\ \/ PopPrecise /\ NextJob = Head(precise_job_queue)
            \/ \E l \in Layer : PopLayer(l) /\ NextJob = Head(per_layer_job_queues[l])
<1>1. CASE PopPrecise
  BY <1>1, HeadTail DEF PopPrecise, TypeInv, TypeOK, NextJob
<1>2. ASSUME NEW l \in Layer, PopLayer(l)
      PROVE  NextJob \in CopyTask /\ SendOneJob(NextJob) /\ NextJob = Head(per_layer_job_queues[l])
  <2> DEFINE First(x) == /\ per_layer_job_queues[x] # << >>
                         /\ \A k \in 0 .. (x - 1) : per_layer_job_queues[k] = << >>
  <2>n. Layer \subseteq Nat
    BY DEF Layer
  <2>1. First(l)
    BY <1>2 DEF PopLayer
  <2>2. \A x \in Layer : First(x) => x = l
    <3> SUFFICES ASSUME NEW x \in Layer, First(x), x # l PROVE FALSE
      OBVIOUS
    <3>1. x < l => x \in 0 .. (l - 1)
      BY <2>n
    <3>2. l < x => l \in 0 .. (x - 1)
      BY <2>n
    <3>3. x < l \/ l < x
      BY <2>n
    <3> QED BY <2>1, <3>1, <3>2, <3>3
  <2>3. (CHOOSE x \in Layer : First(x)) = l
    <3> HIDE DEF First
    <3> QED BY <2>1, <2>2
  <2>4. Head(per_layer_job_queues[l]) \in CopyTask
    BY <1>2, HeadTail DEF PopLayer, TypeInv, TypeOK
  <2>5. NextJob = Head(per_layer_job_queues[l])
    BY <1>2, <2>3 DEF PopLayer, NextJob
  <2> QED BY <1>2, <2>4, <2>5 DEF PopLayer
<1> QED BY <1>1, <1>2 DEF SchedIdle

LEMMA IdleMoves ==
  ASSUME TypeInv, BuffersPartitioned, SchedIdle
  PROVE  NextJob \in CopyTask /\ Moves(NextJob.expert)
BY IdleSends, SendMoves

LEMMA OthersKeepCache ==
  ASSUME Hook \/ Predictor \/ Fetcher \/ StreamStep \/ Unlock \/ SchedPreempt \/ SchedPreemptExpert
         \/ SchedPreemptEnd \/ SchedPreemptOne \/ SchedPrefetchLayer \/ SchedFetchDone \/ SchedIdleAgain
  PROVE  prefetched_experts' = prefetched_experts
BY DEF Hook, HookStart, HookReportLayer, HookReportExpert, HookExpertDone, HookLayerDone,
       SchedPreempt, SchedPreemptExpert, SchedPreemptEnd, SchedPreemptOne,
       SchedPrefetchLayer, SchedFetchDone, SchedIdleAgain, Fetcher, FetchStart, FetchEnd, StreamStep, Unlock,
       Predictor, PredictStart, PredictLayer, PredictLayerDone

-----------------------------------------------------------------------------
(* What the policy of a slot knows *)

PolicyTypes ==
  /\ order \in [Slot -> Seq(Expert)] /\ persisted_experts \in [Slot -> SUBSET Expert]
  /\ \A s \in Slot : order[s] = << >> \/ cache_policy # "static" => persisted_experts[s] = {}

PolicyInv == PolicyTypes /\ PolicyTracksCache

(* The list q and the set p of a slot have its experts, each once. *)
Tracks(q, p, T) == IsInjective(q) /\ ToSet(q) \cap p = {} /\ ToSet(q) \cup p = T

LEMMA HitKeepsOrder ==
  ASSUME TypeInv, PolicyInv, NEW e \in Expert, IsInCache(e), NEW precise, AccessOnHit(e, precise),
         UNCHANGED prefetched_experts
  PROVE  PolicyInv'
<1> DEFINE s == SlotOf(e)
<1>1. s \in Slot /\ order \in [Slot -> Seq(Expert)]
  BY SlotOfType DEF PolicyInv, PolicyTypes
<1>2. persisted_experts' = persisted_experts /\ cache_policy' = cache_policy
  BY DEF AccessOnHit
<1>3. CASE cache_policy # "lru"
  BY <1>2, <1>3 DEF AccessOnHit, PolicyInv, PolicyTypes, PolicyTracksCache, IsInCache
<1>4. CASE cache_policy = "lru"
  <2>1. order' = [order EXCEPT ![s] = Touched(order[s], e)]
    BY <1>1, <1>4 DEF AccessOnHit
  <2>2. persisted_experts[s] = {}
    BY <1>1, <1>4 DEF PolicyInv, PolicyTypes
  <2>3. order[s] \in Seq(Expert) /\ IsInjective(order[s]) /\ e \in ToSet(order[s])
    BY <1>1, <2>2 DEF PolicyInv, PolicyTracksCache
  <2> DEFINE r == Removed(order[s], e)
  <2>4. r \in Seq(Expert) /\ IsInjective(r) /\ ToSet(r) = ToSet(order[s]) \ {e}
    BY <2>3, RemoveLists
  <2>5. /\ Touched(order[s], e) \in Seq(Expert) /\ IsInjective(Touched(order[s], e))
        /\ ToSet(Touched(order[s], e)) = ToSet(order[s])
    <3> HIDE DEF r
    <3>1. e \notin ToSet(r)
      BY <2>4
    <3>2. /\ Append(r, e) \in Seq(Expert) /\ IsInjective(Append(r, e))
          /\ ToSet(Append(r, e)) = ToSet(r) \cup {e}
      BY <2>4, <3>1, AppendLists
    <3> QED BY <2>3, <2>4, <3>2 DEF Touched, r
  <2> HIDE DEF r
  <2>6. order' \in [Slot -> Seq(Expert)]
    BY <1>1, <2>1, <2>5
  <2>7. \A x \in Slot : persisted_experts[x] = {}
    BY <1>4 DEF PolicyInv, PolicyTypes
  <2>8. PolicyTypes'
    BY <1>2, <2>6, <2>7 DEF PolicyInv, PolicyTypes
  <2>9. \A x \in Slot : IsInjective(order'[x]) /\ ToSet(order'[x]) = ToSet(order[x])
    BY <1>1, <2>1, <2>5 DEF PolicyInv, PolicyTracksCache
  <2> QED BY <1>2, <2>8, <2>9 DEF PolicyInv, PolicyTracksCache, IsInCache
<1> QED BY <1>3, <1>4

(* What PrefetchLayerTask hits, and the slot of it. *)
LEMMA PredictedTypes ==
  ASSUME TypeInv, SchedPrefetchLayer
  PROVE  /\ pnext \in Layer /\ ppc = "submitted" /\ pnext < pstop /\ pexperts \in Seq(ExpertIdx)
         /\ PredictedExperts \in Seq(Expert)
         /\ ToSet(PredictedExperts) = {<<pnext, pexperts[k]>> : k \in 1 .. Len(pexperts)}
         /\ (IF PerLayerCache THEN pnext ELSE 0) \in Slot
<1>1. squeue \in Seq(Kind)
  BY DEF TypeInv, TypeOK, Kind
<1>2. InQueue("Prefetch")
  BY <1>1, TakeInQueue DEF SchedPrefetchLayer
<1>3. /\ ppc = "submitted" /\ pnext < pstop /\ pnext \in 0 .. NumLayer /\ pstop \in 0 .. NumLayer
      /\ pexperts \in Seq(ExpertIdx)
  BY <1>2 DEF TypeInv, TypeOK, IndexInv
<1>4. pnext \in Layer /\ (IF PerLayerCache THEN pnext ELSE 0) \in Slot
  <2>1. pnext \in Layer
    BY <1>3, ConstantsAssumption DEF Layer
  <2> QED BY <2>1, Zenon DEF Slot
<1>5. /\ PredictedExperts \in Seq(Expert) /\ DOMAIN PredictedExperts = 1 .. Len(pexperts)
      /\ \A k \in 1 .. Len(pexperts) : PredictedExperts[k] = <<pnext, pexperts[k]>>
  BY <1>3, <1>4 DEF PredictedExperts, Expert
<1>6. ToSet(PredictedExperts) = {<<pnext, pexperts[k]>> : k \in 1 .. Len(pexperts)}
  BY <1>5 DEF ToSet
<1> QED BY <1>3, <1>4, <1>5, <1>6

(* The hits of PrefetchLayerTask reorder one list of LRU. *)
LEMMA PromoteReorders ==
  ASSUME TypeInv, PolicyTypes, SchedPrefetchLayer, PromoteHits
  PROVE  /\ UNCHANGED <<cache_policy, persisted_experts, trace, first_iter, next_use_time_idx, current_time,
                        priority, prob, updating>>
         /\ order' \in [Slot -> Seq(Expert)] /\ (cache_policy = "static" => order' = order)
         /\ \A x \in Slot : order'[x] = order[x] \/ order'[x] \in Promoted(order[x], PredictedExperts)
<1>1. UNCHANGED <<cache_policy, persisted_experts, trace, first_iter, next_use_time_idx, current_time,
                  priority, prob, updating>>
  BY DEF PromoteHits, minVars, nnVars
<1>2. order \in [Slot -> Seq(Expert)]
  BY DEF PolicyTypes
<1>3. CASE order' = order
  <2>1. order' \in [Slot -> Seq(Expert)] /\ \A x \in Slot : order'[x] = order[x]
    BY <1>2, <1>3
  <2> QED BY <1>1, <1>3, <2>1
<1>4. CASE PromoteHitInPrefetch /\ cache_policy = "lru"
  <2> DEFINE s == IF PerLayerCache THEN pnext ELSE 0
  <2>1. s \in Slot /\ PredictedExperts \in Seq(Expert)
    BY PredictedTypes
  <2>2. PICK r \in Promoted(order[s], PredictedExperts) : order' = [order EXCEPT ![s] = r]
    BY <1>4 DEF PromoteHits
  <2> HIDE DEF s
  <2>3. order[s] \in Seq(Expert)
    BY <1>2, <2>1
  <2>4. r \in Seq(Expert)
    BY <2>1, <2>2, <2>3, PromotedLists
  <2>5. order' \in [Slot -> Seq(Expert)]
    BY <1>2, <2>1, <2>2, <2>4
  <2>6. \A x \in Slot : order'[x] = IF x = s THEN r ELSE order[x]
    BY <1>2, <2>1, <2>2
  <2>7. \A x \in Slot : order'[x] = order[x] \/ order'[x] \in Promoted(order[x], PredictedExperts)
    BY <2>2, <2>6
  <2> QED BY <1>1, <1>4, <2>5, <2>7
<1> QED BY <1>3, <1>4 DEF PromoteHits

LEMMA PromoteKeepsOrder ==
  ASSUME TypeInv, PolicyInv, SchedPrefetchLayer, PromoteHits
  PROVE  PolicyInv'
<1>1. /\ UNCHANGED <<cache_policy, persisted_experts>> /\ order' \in [Slot -> Seq(Expert)]
      /\ cache_policy = "static" => order' = order
      /\ \A x \in Slot : order'[x] = order[x] \/ order'[x] \in Promoted(order[x], PredictedExperts)
  BY PromoteReorders DEF PolicyInv
<1>2. /\ order \in [Slot -> Seq(Expert)] /\ PredictedExperts \in Seq(Expert)
      /\ UNCHANGED prefetched_experts
  BY PredictedTypes, OthersKeepCache DEF PolicyInv, PolicyTypes
<1>3. \A x \in Slot : ToSet(order'[x]) = ToSet(order[x]) /\ IsInjective(order'[x])
  <2> SUFFICES ASSUME NEW x \in Slot
               PROVE  ToSet(order'[x]) = ToSet(order[x]) /\ IsInjective(order'[x])
    OBVIOUS
  <2>1. CASE order'[x] = order[x]
    BY <2>1 DEF PolicyInv, PolicyTracksCache
  <2>2. CASE order'[x] \in Promoted(order[x], PredictedExperts)
    <3>1. order[x] \in Seq(Expert)
      BY <1>2
    <3> QED BY <1>2, <2>2, <3>1, PromotedLists
  <2> QED BY <1>1, <2>1, <2>2
<1>4. \A x \in Slot : order'[x] = << >> => cache_policy # "static" \/ persisted_experts[x] = {}
  <2> SUFFICES ASSUME NEW x \in Slot, order'[x] = << >>, cache_policy = "static"
               PROVE  persisted_experts[x] = {}
    OBVIOUS
  <2>1. order'[x] = order[x]
    BY <1>1
  <2> QED BY <2>1 DEF PolicyInv, PolicyTypes
<1>5. PolicyTypes'
  BY <1>1, <1>4 DEF PolicyInv, PolicyTypes
<1>6. PolicyTracksCache'
  BY <1>1, <1>2, <1>3 DEF PolicyInv, PolicyTracksCache, IsInCache
<1> QED BY <1>5, <1>6 DEF PolicyInv

(* access_on_miss on the list q, which has the experts of the slot but the evicted one. *)
LEMMA MissKeepsOrder ==
  ASSUME TypeInv, PolicyInv, NEW e \in Expert, NEW q \in Seq(Expert), NEW precise, AccessOnMiss(e, q, precise),
         NEW T, e \notin T, Tracks(q, persisted_experts[SlotOf(e)], T),
         {f \in Expert : prefetched_experts'[f] # NoBuffer /\ SlotOf(f) = SlotOf(e)} = T \cup {e},
         \A f \in Expert : SlotOf(f) # SlotOf(e) => prefetched_experts'[f] = prefetched_experts[f]
  PROVE  PolicyInv'
<1> DEFINE s == SlotOf(e)
           p == persisted_experts[s]
           r == IF Persists(q) THEN Tail(q) ELSE q
           pp == IF Persists(q) THEN p \cup {Head(q)} ELSE p
<1>1. /\ s \in Slot /\ order \in [Slot -> Seq(Expert)] /\ persisted_experts \in [Slot -> SUBSET Expert]
      /\ p \subseteq Expert
  BY SlotOfType DEF PolicyInv, PolicyTypes
<1>2. /\ order' = [order EXCEPT ![s] = Append(r, e)] /\ cache_policy' = cache_policy
      /\ persisted_experts' = [persisted_experts EXCEPT ![s] = pp]
  BY <1>1 DEF AccessOnMiss
<1>3. Persists(q) => q # << >> /\ cache_policy = "static"
  BY PoliciesAssumption DEF Persists
<1>4. /\ r \in Seq(Expert) /\ IsInjective(r) /\ ToSet(r) \cap pp = {} /\ ToSet(r) \cup pp = T
      /\ pp \subseteq Expert
  <2>1. CASE Persists(q)
    <3>1. /\ Tail(q) \in Seq(Expert) /\ IsInjective(Tail(q)) /\ Head(q) \in ToSet(q)
          /\ ToSet(Tail(q)) = ToSet(q) \ {Head(q)} /\ Head(q) \in Expert
      <4>1. Head(q) \in Expert
        BY <1>3, <2>1, HeadTail
      <4> QED BY <1>3, <2>1, <4>1, TailLists DEF Tracks
    <3> QED BY <1>1, <2>1, <3>1 DEF Tracks
  <2>2. CASE ~Persists(q)
    BY <1>1, <2>2 DEF Tracks
  <2> QED BY <2>1, <2>2
<1>p. ~(cache_policy = "static") => pp = {}
  BY <1>1, <1>3 DEF PolicyInv, PolicyTypes
<1> HIDE DEF r, pp, p
<1>5. /\ Append(r, e) \in Seq(Expert) /\ IsInjective(Append(r, e)) /\ Append(r, e) # << >>
      /\ ToSet(Append(r, e)) = ToSet(r) \cup {e}
  BY <1>4, AppendLists
<1>6. order'[s] = Append(r, e) /\ persisted_experts'[s] = pp
  BY <1>1, <1>2
<1>7. \A x \in Slot : x # s => order'[x] = order[x] /\ persisted_experts'[x] = persisted_experts[x]
  BY <1>1, <1>2
<1>8. PolicyTypes'
  <2>1. order' \in [Slot -> Seq(Expert)] /\ persisted_experts' \in [Slot -> SUBSET Expert]
    BY <1>1, <1>2, <1>4, <1>5
  <2>2. ASSUME NEW x \in Slot, order'[x] = << >> \/ cache_policy' # "static"
        PROVE  persisted_experts'[x] = {}
    BY <1>2, <1>5, <1>6, <1>7, <1>p, <2>2 DEF PolicyInv, PolicyTypes
  <2> QED BY <2>1, <2>2 DEF PolicyTypes
<1>9. ASSUME NEW x \in Slot
      PROVE  Tracks(order'[x], persisted_experts'[x],
                    {f \in Expert : prefetched_experts'[f] # NoBuffer /\ SlotOf(f) = x})
  <2>1. CASE x = s
    <3>1. e \notin pp
      BY <1>4
    <3>2. {f \in Expert : prefetched_experts'[f] # NoBuffer /\ SlotOf(f) = x} = T \cup {e}
      BY <2>1
    <3>3. Tracks(Append(r, e), pp, T \cup {e})
      BY <1>4, <1>5, <3>1 DEF Tracks
    <3> QED BY <1>6, <2>1, <3>2, <3>3
  <2>2. CASE x # s
    <3>1. Tracks(order[x], persisted_experts[x],
                 {f \in Expert : prefetched_experts[f] # NoBuffer /\ SlotOf(f) = x})
      BY DEF PolicyInv, PolicyTracksCache, Tracks, IsInCache
    <3> QED BY <1>7, <2>2, <3>1
  <2> QED BY <2>1, <2>2
<1>10. PolicyTracksCache'
  BY <1>9 DEF PolicyTracksCache, Tracks, IsInCache
<1> QED BY <1>8, <1>10 DEF PolicyInv

LEMMA EvictListed ==
  ASSUME PolicyInv, NEW s \in Slot, NEW v \in SelectForEvict(s),
         NEW w \in Expert, IsInCache(w), SlotOf(w) = s
  PROVE  v \in ToSet(order[s])
<1>1. order[s] \in Seq(Expert) /\ IsInjective(order[s])
  BY DEF PolicyInv, PolicyTypes, PolicyTracksCache
<1>2. order[s] # << >>
  <2> SUFFICES ASSUME order[s] = << >> PROVE FALSE
    OBVIOUS
  <2>1. persisted_experts[s] = {} /\ ToSet(order[s]) = {}
    BY DEF PolicyInv, PolicyTypes, ToSet
  <2> QED BY <2>1 DEF PolicyInv, PolicyTracksCache
<1>3. Head(order[s]) \in ToSet(order[s])
  BY <1>1, <1>2, TailLists
<1> QED BY <1>3 DEF SelectForEvict, HeapFront

LEMMA IdleTracks ==
  ASSUME TypeInv, BuffersPartitioned, PolicyInv, SchedIdle, SendAccesses(NextJob)
  PROVE  PolicyInv'
<1> DEFINE e == NextJob.expert
           s == SlotOf(e)
           T == {f \in Expert : IsInCache(f) /\ SlotOf(f) = s}
           evicted == {v \in Expert : IsInCache(v) /\ prefetched_experts'[v] = NoBuffer}
<1>1. e \in Expert /\ Moves(e) /\ s \in Slot
  BY IdleMoves, SlotOfType DEF CopyTask
<1>t. /\ prefetched_experts \in [Expert -> Buffer \cup {NoBuffer}]
      /\ order \in [Slot -> Seq(Expert)]
      /\ Tracks(order[s], persisted_experts[s], T)
  BY <1>1 DEF TypeInv, TypeOK, PolicyInv, PolicyTypes, PolicyTracksCache, Tracks
<1>2. CASE IsInCache(e) /\ AccessOnHit(e, NextJob.is_precise)
  <2>1. UNCHANGED prefetched_experts
    BY <1>1, <1>2 DEF Moves
  <2> QED BY <1>1, <1>2, <2>1, HitKeepsOrder
<1>3. CASE /\ ~IsInCache(e) /\ prefetched_experts'[e] # NoBuffer /\ evicted = {}
           /\ AccessOnMiss(e, order[s], NextJob.is_precise)
  <2>1. ASSUME NEW v \in InSlot(e),
               prefetched_experts' = [prefetched_experts EXCEPT ![v] = NoBuffer, ![e] = prefetched_experts[v]]
        PROVE  FALSE
    <3>1. v \in Expert /\ IsInCache(v) /\ v # e
      BY <1>3 DEF InSlot
    <3>2. prefetched_experts'[v] = NoBuffer
      BY <1>1, <1>t, <2>1, <3>1
    <3> QED BY <1>3, <3>1, <3>2
  <2>2. PICK b : b # NoBuffer /\ prefetched_experts' = [prefetched_experts EXCEPT ![e] = b]
    BY <1>1, <1>3, <2>1 DEF Moves, IsInCache
  <2>3. \A f \in Expert : prefetched_experts'[f] = IF f = e THEN b ELSE prefetched_experts[f]
    BY <1>1, <1>t, <2>2
  <2>4. {f \in Expert : prefetched_experts'[f] # NoBuffer /\ SlotOf(f) = s} = T \cup {e}
    BY <1>1, <2>2, <2>3 DEF IsInCache
  <2>5. order[s] \in Seq(Expert) /\ e \notin T
    BY <1>1, <1>3, <1>t
  <2>6. \A f \in Expert : SlotOf(f) # s => prefetched_experts'[f] = prefetched_experts[f]
    BY <2>3
  <2> HIDE DEF T
  <2> QED BY <1>1, <1>3, <1>t, <2>4, <2>5, <2>6, MissKeepsOrder
<1>4. ASSUME ~IsInCache(e), NEW v \in evicted, v \in SelectForEvict(s),
             AccessOnMiss(e, Removed(order[s], v), NextJob.is_precise)
      PROVE  PolicyInv'
  <2>1. v \in Expert /\ IsInCache(v) /\ prefetched_experts'[v] = NoBuffer /\ v # e
    BY <1>4
  <2>2. PICK w \in InSlot(e) :
          prefetched_experts' = [prefetched_experts EXCEPT ![w] = NoBuffer, ![e] = prefetched_experts[w]]
    <3>1. ~UNCHANGED prefetched_experts
      BY <2>1 DEF IsInCache
    <3>2. ASSUME NEW b, prefetched_experts' = [prefetched_experts EXCEPT ![e] = b] PROVE FALSE
      BY <1>t, <2>1, <3>2 DEF IsInCache
    <3> QED BY <1>1, <3>1, <3>2 DEF Moves
  <2>3. w \in Expert /\ IsInCache(w) /\ SlotOf(w) = s /\ w # e
    BY <1>4 DEF InSlot
  <2>4. \A f \in Expert : prefetched_experts'[f] =
          IF f = e THEN prefetched_experts[w] ELSE IF f = w THEN NoBuffer ELSE prefetched_experts[f]
    BY <1>1, <1>t, <2>2, <2>3
  <2>5. v = w
    BY <2>1, <2>4 DEF IsInCache
  <2>6. v \in ToSet(order[s])
    BY <1>1, <1>4, <2>3, EvictListed
  <2> DEFINE q == Removed(order[s], v)
  <2>7. q \in Seq(Expert) /\ IsInjective(q) /\ ToSet(q) = ToSet(order[s]) \ {v}
    BY <1>1, <1>t, <2>6, RemoveLists DEF Tracks
  <2> HIDE DEF q
  <2>8. Tracks(q, persisted_experts[s], T \ {v})
    BY <1>t, <2>6, <2>7 DEF Tracks
  <2>9. {f \in Expert : prefetched_experts'[f] # NoBuffer /\ SlotOf(f) = s} = (T \ {v}) \cup {e}
    BY <1>1, <2>3, <2>4, <2>5 DEF IsInCache
  <2>10. \A f \in Expert : SlotOf(f) # s => prefetched_experts'[f] = prefetched_experts[f]
    BY <2>3, <2>4
  <2>11. e \notin T \ {v}
    BY <1>4
  <2>12. AccessOnMiss(e, q, NextJob.is_precise)
    BY <1>4 DEF q
  <2> HIDE DEF T
  <2> QED BY <1>1, <2>7, <2>8, <2>9, <2>10, <2>11, <2>12, MissKeepsOrder
<1>5. CASE /\ ~(~IsInCache(e) /\ prefetched_experts'[e] # NoBuffer)
           /\ UNCHANGED policyVars
  <2>1. UNCHANGED prefetched_experts
    <3>1. ASSUME ~IsInCache(e), NEW b, b # NoBuffer,
                 prefetched_experts' = [prefetched_experts EXCEPT ![e] = b]
          PROVE  FALSE
      BY <1>1, <1>t, <1>5, <3>1
    <3>2. ASSUME ~IsInCache(e), NEW v \in InSlot(e),
                 prefetched_experts' = [prefetched_experts EXCEPT ![v] = NoBuffer, ![e] = prefetched_experts[v]]
          PROVE  FALSE
      <4>1. v \in Expert /\ v # e /\ prefetched_experts[v] # NoBuffer
        BY <3>2 DEF InSlot, IsInCache
      <4>2. prefetched_experts'[e] # NoBuffer
        BY <1>1, <1>t, <3>2, <4>1
      <4> QED BY <1>5, <3>2, <4>2
    <3> QED BY <1>1, <3>1, <3>2 DEF Moves
  <2> QED BY <1>5, <2>1 DEF policyVars, PolicyInv, PolicyTypes, PolicyTracksCache, IsInCache
<1> QED BY <1>2, <1>3, <1>4, <1>5 DEF SendAccesses, IsInCache

LEMMA NextTracks ==
  ASSUME TypeInv, BuffersPartitioned, PolicyInv, [NextPolicies]_tracedVars
  PROVE  PolicyInv'
<1>f. ASSUME UNCHANGED <<prefetched_experts, cache_policy, order, persisted_experts>> PROVE PolicyInv'
  BY <1>f DEF PolicyInv, PolicyTypes, PolicyTracksCache, IsInCache
<1>p. UNCHANGED policyVars => UNCHANGED <<cache_policy, order, persisted_experts>>
  BY DEF policyVars
<1>h. ASSUME NEW e \in Expert, NEW b, PreemptHits(e, b), UNCHANGED prefetched_experts PROVE PolicyInv'
  BY <1>f, <1>h, <1>p, HitKeepsOrder DEF PreemptHits, HitOnPreempt
<1>1. CASE SchedPreemptExpert /\ PreemptHits(<<layer, experts[sidx]>>, BehindMiss(sidx))
  <2>1. <<layer, experts[sidx]>> \in Expert
    BY <1>1 DEF SchedPreemptExpert, TypeInv, TypeOK, IndexInv, Expert
  <2> QED BY <1>1, <1>h, <2>1, OthersKeepCache
<1>2. CASE SchedPreemptOne /\ PreemptHits(HookExpert, FALSE)
  <2>1. HookExpert \in Expert
    <3>1. InQueue("PreemptOne")
      BY <1>2, TakeInQueue DEF TypeInv, TypeOK, Kind, SchedPreemptOne
    <3> QED BY <3>1 DEF TypeInv, TypeOK, IndexInv, HookExpert, Expert
  <2> QED BY <1>2, <1>h, <2>1, OthersKeepCache
<1>3. CASE SchedIdle /\ SendAccesses(NextJob)
  BY <1>3, IdleTracks
<1>4. CASE SetCurSeq \/ EndUpdate
  BY <1>4, <1>f DEF SetCurSeq, EndUpdate, vars
<1>5. CASE UNCHANGED tracedVars
  BY <1>5, <1>f, <1>p DEF tracedVars, vars
<1>6. ASSUME Hook \/ Predictor \/ Fetcher \/ StreamStep \/ Unlock \/ SchedPreempt
             \/ SchedPreemptEnd \/ SchedFetchDone \/ SchedIdleAgain,
             UNCHANGED policyVars \/ BeginUpdate \/ EndPrediction
      PROVE  PolicyInv'
  BY <1>6, <1>f, <1>p, OthersKeepCache DEF BeginUpdate, EndPrediction
<1>7. CASE SchedPrefetchLayer /\ PromoteHits
  BY <1>7, PromoteKeepsOrder
<1> QED BY <1>1, <1>2, <1>3, <1>4, <1>5, <1>6, <1>7 DEF NextPolicies, Hook, Predictor

LEMMA PoliciesList == SpecPolicies => []PolicyInv
<1>1. InitPolicies => PolicyInv
  <2>1. \A s \in Slot : IsInjective(<< >>) /\ ToSet(<< >>) = {} /\ << >> \in Seq(Expert)
    BY DEF IsInjective, ToSet
  <2> QED BY <2>1 DEF InitPolicies, Init, PolicyInv, PolicyTypes, PolicyTracksCache, IsInCache
<1> QED BY <1>1, NextTracks, PoliciesTyped, PoliciesPartition, PTL DEF SpecPolicies

(* For every policy, all sizes of the slots and whatever the threads do, the list of a slot's *)
(* policy has exactly the experts that own its buffers, each once.                            *)
THEOREM PoliciesTrackCache == SpecPolicies => []PolicyTracksCache
<1>1. PolicyInv => PolicyTracksCache
  BY DEF PolicyInv
<1> QED BY <1>1, PoliciesList, PTL

-----------------------------------------------------------------------------
(* The hook between two layers, and the jobs that count as accesses.                          *)
RunInv ==
  /\ ~Open => experts = << >> /\ idx = 1
  /\ hpc \in {"start", "done"} => layer = 0
  /\ hpc = "layer_done" => idx = Len(experts) + 1
  /\ \A i \in 1 .. Len(precise_job_queue) : precise_job_queue[i].is_precise

(* Only preempting adds a precise job, and only IdleTask takes one. *)
LEMMA PreemptAddsPrecise ==
  ASSUME TypeInv, RunInv, NEW e \in Expert, NEW behind, NEW line, PreemptExpert(e, behind, line)
  PROVE  \A i \in 1 .. Len(precise_job_queue') : precise_job_queue'[i].is_precise
<1>t. precise_job_queue \in Seq(CopyTask) /\ Len(precise_job_queue) \in Nat
  BY DEF TypeInv, TypeOK
<1>1. CASE precise_job_queue' = precise_job_queue
  BY <1>1 DEF RunInv
<1>2. ASSUME NEW start, precise_job_queue' = Append(precise_job_queue, Task(e, start, P, TRUE))
      PROVE  \A i \in 1 .. Len(precise_job_queue') : precise_job_queue'[i].is_precise
  <2> DEFINE q == precise_job_queue
  <2>1. /\ Len(q') = Len(q) + 1 /\ \A i \in 1 .. Len(q) : q'[i] = q[i]
        /\ q'[Len(q) + 1].is_precise
    BY <1>t, <1>2 DEF Task
  <2>2. \A i \in 1 .. Len(q') : i \in 1 .. Len(q) \/ i = Len(q) + 1
    BY <1>t, <2>1
  <2>3. \A i \in 1 .. Len(q) : q[i].is_precise
    BY DEF RunInv
  <2> HIDE DEF q
  <2>4. \A i \in 1 .. Len(q') : q'[i].is_precise
    BY <2>1, <2>2, <2>3
  <2> QED BY <2>4 DEF q
<1> QED BY <1>1, <1>2 DEF PreemptExpert, AddPrecise

LEMMA NextRun == TypeInv /\ BudgetInv /\ RunInv /\ [Next]_vars => RunInv'
<1> SUFFICES ASSUME TypeInv, BudgetInv, RunInv, [Next]_vars PROVE RunInv'
  OBVIOUS
<1>t. /\ precise_job_queue \in Seq(CopyTask) /\ Len(precise_job_queue) \in Nat
      /\ layer \in Layer /\ idx \in Nat \ {0} /\ Len(experts) \in Nat
  BY DEF TypeInv, TypeOK
<1>f. ASSUME UNCHANGED <<hpc, layer, experts, idx>>,
             \A i \in 1 .. Len(precise_job_queue') : precise_job_queue'[i].is_precise
      PROVE  RunInv'
  BY <1>f DEF RunInv, Open
<1>q. UNCHANGED precise_job_queue =>
        \A i \in 1 .. Len(precise_job_queue') : precise_job_queue'[i].is_precise
  BY DEF RunInv
<1>1. CASE HookStart
  BY <1>1, <1>q DEF HookStart, RunInv, Open
<1>2. CASE HookReportLayer
  BY <1>2, <1>q DEF HookReportLayer, RunInv, Open
<1>3. CASE HookReportExpert
  BY <1>3, <1>q DEF HookReportExpert, RunInv, Open
<1>4. CASE HookExpertDone
  <2>1. hpc' \in {"expert", "layer_done"} /\ UNCHANGED <<layer, experts, precise_job_queue>>
    BY <1>4 DEF HookExpertDone
  <2>2. hpc' = "layer_done" => idx' = Len(experts') + 1
    <3>1. idx <= Len(experts) /\ idx' = idx + 1
      BY <1>4 DEF HookExpertDone, TypeInv, IndexInv
    <3>2. hpc' = "layer_done" => ~(idx < Len(experts))
      BY <1>4 DEF HookExpertDone
    <3> QED BY <1>t, <2>1, <3>1, <3>2
  <2> QED BY <1>q, <2>1, <2>2 DEF RunInv, Open
<1>5. CASE HookLayerDone
  <2>1. /\ hpc' \in {"start", "done", "layer"} /\ experts' = << >> /\ idx' = 1
        /\ UNCHANGED precise_job_queue
    BY <1>5 DEF HookLayerDone
  <2>2. hpc' \in {"start", "done"} => layer' = 0
    BY <1>5 DEF HookLayerDone, NextLayer
  <2> QED BY <1>q, <2>1, <2>2 DEF RunInv, Open
<1>6. CASE SchedPreempt
  <2>1. squeue \in Seq(Kind) /\ InQueue("Preempt")
    BY <1>6, TakeInQueue DEF SchedPreempt, TypeInv, TypeOK, Kind
  <2>2. hpc = "expert" /\ UNCHANGED <<hpc, layer, idx, precise_job_queue>>
    BY <1>6, <2>1 DEF BudgetInv, PreemptInv, SchedPreempt
  <2> QED BY <1>q, <2>2 DEF RunInv, Open
<1>7. CASE SchedPreemptExpert
  <2>1. <<layer, experts[sidx]>> \in Expert
    BY <1>7 DEF SchedPreemptExpert, TypeInv, TypeOK, Expert
  <2>2. \A i \in 1 .. Len(precise_job_queue') : precise_job_queue'[i].is_precise
    BY <1>7, <2>1, PreemptAddsPrecise DEF SchedPreemptExpert
  <2> QED BY <1>7, <1>f, <2>2 DEF SchedPreemptExpert
<1>8. CASE SchedPreemptOne
  <2>1. HookExpert \in Expert
    <3>1. InQueue("PreemptOne")
      BY <1>8, TakeInQueue DEF TypeInv, TypeOK, Kind, SchedPreemptOne
    <3> QED BY <3>1 DEF TypeInv, TypeOK, IndexInv, HookExpert, Expert
  <2>2. \A i \in 1 .. Len(precise_job_queue') : precise_job_queue'[i].is_precise
    BY <1>8, <2>1, PreemptAddsPrecise DEF SchedPreemptOne
  <2> QED BY <1>8, <1>f, <2>2 DEF SchedPreemptOne
<1>9. CASE SchedIdle
  <2>1. \/ precise_job_queue' = precise_job_queue
        \/ precise_job_queue # << >> /\ precise_job_queue' = Tail(precise_job_queue)
    BY <1>9 DEF SchedIdle, PopPrecise, PopLayer
  <2>2. \A i \in 1 .. Len(precise_job_queue') : precise_job_queue'[i].is_precise
    BY <1>t, <1>q, <2>1, HeadTail DEF RunInv
  <2> QED BY <1>9, <1>f, <2>2 DEF SchedIdle
<1>10. CASE SchedPreemptEnd \/ SchedPrefetchLayer \/ SchedFetchDone \/ SchedIdleAgain
            \/ Fetcher \/ StreamStep \/ Unlock \/ Predictor
  <2>1. UNCHANGED <<hpc, layer, experts, idx, precise_job_queue>>
    BY <1>10 DEF SchedPreemptEnd, SchedPrefetchLayer, SchedFetchDone, SchedIdleAgain, Fetcher,
       FetchStart, FetchEnd, StreamStep, Unlock, Predictor, PredictStart, PredictLayer, PredictLayerDone
  <2> QED BY <1>f, <1>q, <2>1
<1>11. CASE UNCHANGED vars
  BY <1>11, <1>f, <1>q DEF vars
<1> QED BY <1>1, <1>2, <1>3, <1>4, <1>5, <1>6, <1>7, <1>8, <1>9, <1>10, <1>11
       DEF Next, Step, Hook, Scheduler

LEMMA InitRun == Init => RunInv
BY DEF Init, RunInv, Open
-----------------------------------------------------------------------------
(* The preempt task for one expert stays in the scheduler's queue until it is done.           *)
LEMMA KindKeptIdleAgain ==
  ASSUME squeue \in Seq(Kind), squeue # << >>, squeue' = IdleAgain, NEW kind, Head(squeue) # kind,
         InQueue(kind)
  PROVE  InQueue(kind)'
<1>1. /\ Len(squeue) \in Nat \ {0} /\ Tail(squeue) \in Seq(Kind)
      /\ Len(Tail(squeue)) = Len(squeue) - 1
      /\ \A i \in 1 .. Len(Tail(squeue)) : Tail(squeue)[i] = squeue[i + 1]
      /\ Head(squeue) = squeue[1]
  BY HeadTail
<1>2. /\ Len(squeue') = Len(squeue)
      /\ \A i \in 1 .. (Len(squeue) - 1) : squeue'[i] = squeue[i + 1]
  BY <1>1, Appended DEF IdleAgain, Kind
<1>3. PICK i \in 1 .. Len(squeue) : squeue[i] = kind
  BY DEF InQueue
<1>4. i - 1 \in 1 .. (Len(squeue) - 1) /\ (i - 1) + 1 = i /\ i - 1 \in 1 .. Len(squeue)
  BY <1>1, <1>3
<1> QED BY <1>2, <1>3, <1>4 DEF InQueue

LEMMA PreemptOneStays ==
  ASSUME TypeInv, Next, ~SchedPreemptOne, InQueue("PreemptOne")
  PROVE  InQueue("PreemptOne")'
<1>t. squeue \in Seq(Kind)
  BY DEF TypeInv, TypeOK, Kind
<1>1. CASE squeue' = squeue
  BY <1>1 DEF InQueue
<1>2. ASSUME NEW k \in Kind, squeue' = Append(squeue, k) PROVE InQueue("PreemptOne")'
  BY <1>2, <1>t, TokenKeptAppend
<1>3. ASSUME NEW k, k # "PreemptOne", Take(k), squeue' \in {Tail(squeue), IdleAgain}
      PROVE  InQueue("PreemptOne")'
  BY <1>3, <1>t, TokenKeptTail, KindKeptIdleAgain DEF Take
<1>k. {"Preempt", "PreemptOne", "FetchDone", "Prefetch"} \subseteq Kind
  BY DEF Kind
<1>4. CASE Hook \/ Fetcher \/ StreamStep \/ Unlock \/ Predictor
  <2>1. squeue' = squeue \/ \E k \in {"Preempt", "PreemptOne", "FetchDone", "Prefetch"} : squeue' = Append(squeue, k)
    BY <1>4 DEF Hook, HookStart, HookReportLayer, HookReportExpert, HookExpertDone, HookLayerDone,
       Fetcher, FetchStart, FetchEnd, StreamStep, Unlock, Predictor, PredictStart,
       PredictLayer, PredictLayerDone
  <2> QED BY <1>1, <1>2, <1>k, <2>1
<1>5. CASE SchedPreemptExpert \/ SchedPreemptEnd
  BY <1>1, <1>5 DEF SchedPreemptExpert, SchedPreemptEnd
<1>6. CASE SchedPreempt \/ SchedPrefetchLayer \/ SchedFetchDone \/ SchedIdleAgain
  BY <1>3, <1>6 DEF SchedPreempt, SchedPrefetchLayer, SchedFetchDone, SchedIdleAgain
<1>7. CASE SchedIdle
  <2>1. Take("Idle")
    BY <1>7 DEF SchedIdle
  <2>2. \A t : SendOneJob(t) => squeue' \in {squeue, Tail(squeue), IdleAgain}
    BY DEF SendOneJob, SendMissed, SendDuplicate, SendRest, Fetch
  <2>3. squeue' \in {squeue, Tail(squeue), IdleAgain}
    BY <1>7, <2>2 DEF SchedIdle, PopPrecise, PopLayer
  <2> QED BY <1>1, <1>3, <2>1, <2>3
<1> QED BY <1>4, <1>5, <1>6, <1>7 DEF Next, Step, Scheduler

-----------------------------------------------------------------------------
(* The accesses of a layer                                                                    *)

Used == {<<layer, experts[i]>> : i \in 1 .. (idx - 1)}

(* The experts of the layer that have been accessed precisely: the used ones, and what has    *)
(* been preempted and has no precise job left to do so.                                       *)
Accessed == (Used \cup AskedExperts) \ Wanted

LayerExperts == {<<layer, experts[i]>> : i \in 1 .. Len(experts)}

StateInv == TypeInv /\ BuffersPartitioned /\ BudgetInv /\ PlaceInv /\ PinInv /\ RunInv

LEMMA AskedPlaces ==
  ASSUME StateInv
  PROVE  /\ Asked \subseteq 1 .. Len(experts) /\ \A i \in Asked : i >= idx
         /\ 1 .. (idx - 1) \subseteq 1 .. Len(experts)
         /\ AskedExperts \cap Used = {} /\ AskedExperts \cup Used \subseteq LayerExperts
<1>t. idx \in Nat \ {0} /\ Len(experts) \in Nat
  BY DEF StateInv, TypeInv, TypeOK
<1>1. Asked \subseteq 1 .. Len(experts) /\ \A i \in Asked : i >= idx
  <2>1. CASE EarlyPreempt
    BY <1>t, <2>1 DEF Asked
  <2>2. CASE ~EarlyPreempt
    <3>1. hpc = "wait" => idx <= Len(experts)
      BY DEF StateInv, TypeInv, IndexInv
    <3> QED BY <1>t, <2>2, <3>1 DEF Asked
  <2> QED BY <2>1, <2>2
<1>2. 1 .. (idx - 1) \subseteq 1 .. Len(experts)
  <2>1. idx <= Len(experts) + 1
    <3>1. hpc \in {"expert", "wait"} => idx <= Len(experts)
      BY DEF StateInv, TypeInv, IndexInv
    <3>2. hpc = "layer_done" => idx = Len(experts) + 1
      BY DEF StateInv, RunInv
    <3>3. ~Open => idx = 1
      BY DEF StateInv, RunInv
    <3> QED BY <1>t, <3>1, <3>2, <3>3 DEF Open
  <2> QED BY <1>t, <2>1
<1>3. AskedExperts \cap Used = {}
  <2> SUFFICES ASSUME NEW i \in Asked, NEW j \in 1 .. (idx - 1), experts[i] = experts[j] PROVE FALSE
    BY DEF AskedExperts, Used
  <2>1. i = j
    BY <1>1, <1>2 DEF StateInv, PlaceInv, DistinctExperts
  <2> QED BY <1>t, <1>1, <2>1
<1>4. AskedExperts \cup Used \subseteq LayerExperts
  BY <1>1, <1>2 DEF AskedExperts, Used, LayerExperts
<1> QED BY <1>1, <1>2, <1>3, <1>4

LEMMA AccessedInLayer ==
  ASSUME StateInv
  PROVE  /\ Wanted \subseteq AskedExperts /\ Accessed \subseteq LayerExperts
         /\ ~Open => Accessed = {} /\ Wanted = {}
         /\ hpc = "layer_done" => Accessed = LayerExperts /\ Wanted = {}
<1>1. Wanted \subseteq AskedExperts
  BY DEF StateInv, PinInv
<1>2. Accessed \subseteq LayerExperts
  BY AskedPlaces DEF Accessed
<1>3. hpc \notin {"expert", "wait"} => AskedExperts = {}
  BY NothingAsked
<1>4. ~Open => Accessed = {} /\ Wanted = {}
  <2> SUFFICES ASSUME ~Open PROVE Used = {} /\ AskedExperts = {}
    BY <1>1 DEF Accessed
  <2>1. idx = 1
    BY DEF StateInv, RunInv
  <2> QED BY <1>3, <2>1 DEF Open, Used
<1>5. hpc = "layer_done" => Accessed = LayerExperts /\ Wanted = {}
  <2> SUFFICES ASSUME hpc = "layer_done" PROVE Used = LayerExperts /\ AskedExperts = {}
    BY <1>1 DEF Accessed
  <2>1. idx = Len(experts) + 1 /\ Len(experts) \in Nat
    BY DEF StateInv, RunInv, TypeInv, TypeOK
  <2>2. 1 .. (idx - 1) = 1 .. Len(experts)
    BY <2>1
  <2> QED BY <1>3, <2>2 DEF Used, LayerExperts
<1> QED BY <1>1, <1>2, <1>4, <1>5

LEMMA AskedSame ==
  ASSUME StateInv, Next, UNCHANGED <<hpc, layer, experts, idx, spc, sidx>>, ~SchedPreempt, ~SchedPreemptOne
  PROVE  Asked' = Asked
<1>1. ~HookReportLayer /\ ~HookReportExpert
  BY DEF HookReportLayer, HookReportExpert
<1>2. InQueue("Preempt")' <=> InQueue("Preempt")
  BY <1>1, PreemptSame DEF StateInv, BudgetInv, PreemptInv, SamePreempt
<1>3. InQueue("PreemptOne")' <=> InQueue("PreemptOne")
  BY <1>1, PreemptOneFewer, PreemptOneStays DEF StateInv, PlaceInv, FewerPreemptOne
<1> QED BY <1>2, <1>3 DEF Asked

LEMMA AccessedFrame ==
  ASSUME UNCHANGED <<layer, experts, idx>>, Asked' = Asked, Wanted' = Wanted
  PROVE  Accessed' = Accessed
BY DEF Accessed, Used, AskedExperts

(* Steps that access nothing; HookLayerDone is apart. *)
LEMMA HookKeepsAccessed ==
  ASSUME StateInv, Next, HookStart \/ HookReportLayer \/ HookReportExpert \/ HookExpertDone
  PROVE  Accessed' = Accessed
<1>t. /\ idx \in Nat \ {0} /\ Len(experts) \in Nat /\ squeue \in Seq(Kind)
      /\ TypeInv /\ BudgetInv /\ PlaceInv /\ RunInv
  BY DEF StateInv, TypeInv, TypeOK, Kind
<1>w. Wanted' = Wanted
  BY DEF HookStart, HookReportLayer, HookReportExpert, HookExpertDone, Wanted
<1>1. CASE HookStart
  <2>1. Asked = {} /\ Asked' = {}
    BY <1>1 DEF HookStart, Asked
  <2> QED BY <1>1, <1>w, <2>1, AccessedFrame DEF HookStart
<1>2. CASE HookReportLayer
  <2>1. Accessed = {}
    BY <1>2, AccessedInLayer DEF HookReportLayer, Open
  <2>2. idx' = 1 /\ hpc' = "expert" /\ squeue' = Append(squeue, "Preempt")
    BY <1>2 DEF HookReportLayer
  <2>3. InQueue("Preempt")'
    BY <1>t, <2>2, TokenKeptAppend DEF Kind
  <2>4. Asked' = {}
    BY <2>2, <2>3 DEF Asked
  <2>5. Used' = {} /\ AskedExperts' = {}
    BY <2>2, <2>4 DEF Used, AskedExperts
  <2> QED BY <2>1, <2>5 DEF Accessed
<1>3. CASE HookReportExpert
  <2>1. ~SchedPreempt /\ ~SchedPreemptOne /\ ~HookReportLayer
    BY <1>3 DEF HookReportExpert, SchedPreempt, SchedPreemptOne, HookReportLayer
  <2>2. InQueue("Preempt")' <=> InQueue("Preempt")
    BY <1>t, <2>1, PreemptSame, SMTT(30) DEF BudgetInv, PreemptInv, SamePreempt
  <2>3. hpc = "expert" /\ hpc' = "wait" /\ UNCHANGED <<layer, experts, idx, spc, sidx>>
    BY <1>3 DEF HookReportExpert
  <2>4. ~EarlyPreempt => InQueue("PreemptOne")'
    BY <1>3, <1>t, TokenKeptAppend DEF HookReportExpert, Kind
  <2>5. Asked' = Asked
    BY <2>2, <2>3, <2>4 DEF Asked
  <2> QED BY <1>w, <2>3, <2>5, AccessedFrame
<1>4. CASE HookExpertDone
  <2>1. /\ hpc = "wait" /\ spc = "ready" /\ ~InQueue("PreemptOne") /\ ~InQueue("Preempt")
        /\ idx' = idx + 1 /\ hpc' = IF idx < Len(experts) THEN "expert" ELSE "layer_done"
        /\ UNCHANGED <<layer, experts, squeue, spc, sidx>>
    BY <1>4, <1>t DEF HookExpertDone, HandlerEnded, BudgetInv, PreemptInv
  <2>2. idx <= Len(experts) /\ ~InQueue("Preempt")' /\ ~InQueue("PreemptOne")'
    BY <1>t, <2>1 DEF TypeInv, IndexInv, InQueue
  <2>3. Asked = Asked' \cup {idx}
    <3>1. CASE EarlyPreempt
      <4>1. Asked = idx .. Len(experts)
        BY <2>1, <3>1 DEF Asked
      <4>2. Asked' = {i \in (idx + 1) .. Len(experts) : hpc' = "expert"}
        BY <2>1, <2>2, <3>1 DEF Asked
      <4>3. hpc' # "expert" => idx = Len(experts)
        BY <1>t, <2>1, <2>2
      <4>4. \A i \in idx .. Len(experts) : i # idx => i \in (idx + 1) .. Len(experts)
        BY <1>t
      <4>5. \A i \in (idx + 1) .. Len(experts) : i \in idx .. Len(experts)
        BY <1>t
      <4>6. idx \in idx .. Len(experts) /\ \A i \in idx .. Len(experts) : i # idx => hpc' = "expert"
        BY <1>t, <2>2, <4>3
      <4> QED BY <4>1, <4>2, <4>4, <4>5, <4>6
    <3>2. CASE ~EarlyPreempt
      BY <2>1, <3>2 DEF Asked
    <3> QED BY <3>1, <3>2
  <2>4. AskedExperts = AskedExperts' \cup {HookExpert}
    BY <2>1, <2>3 DEF AskedExperts, HookExpert
  <2>5. 1 .. (idx' - 1) = 1 .. (idx - 1) \cup {idx}
    BY <1>t, <2>1
  <2>6. Used' = Used \cup {HookExpert}
    BY <2>1, <2>5 DEF Used, HookExpert
  <2> QED BY <1>w, <2>4, <2>6 DEF Accessed
<1> QED BY <1>1, <1>2, <1>3, <1>4

LEMMA OthersKeepAccessed ==
  ASSUME StateInv, Next,
         SchedPreempt \/ SchedPreemptEnd \/ SchedPrefetchLayer \/ SchedFetchDone
         \/ SchedIdleAgain \/ Fetcher \/ StreamStep \/ Unlock \/ Predictor
  PROVE  Accessed' = Accessed
<1>t. /\ TypeInv /\ BudgetInv /\ PlaceInv /\ squeue \in Seq(Kind) /\ Len(experts) \in Nat
      /\ sidx \in Nat
  BY SMTT(30) DEF StateInv, TypeInv, TypeOK, Kind
<1>w. Wanted' = Wanted /\ UNCHANGED <<hpc, layer, idx>>
  BY DEF SchedPreempt, SchedPreemptEnd, SchedPrefetchLayer, SchedFetchDone, SchedIdleAgain, Fetcher,
     FetchStart, FetchEnd, StreamStep, Unlock, Predictor, PredictStart, PredictLayer, PredictLayerDone,
     Wanted
<1>1. CASE SchedPreempt
  <2>1. InQueue("Preempt")
    BY <1>1, <1>t, TakeInQueue DEF SchedPreempt
  <2>2. hpc = "expert" /\ idx = 1
    BY <1>t, <2>1 DEF BudgetInv, PreemptInv, PlaceInv
  <2>3. AskedExperts = {}
    BY <2>1, <2>2, NothingAsked
  <2>4. Asked' = {}
    <3>1. EarlyPreempt => spc' = "preempting" /\ sidx' = 1
      BY <1>1 DEF SchedPreempt
    <3>2. hpc' = "expert" /\ idx' = 1
      BY <1>w, <2>2
    <3> QED BY <3>1, <3>2 DEF Asked
  <2>5. Used = {} /\ Used' = {} /\ AskedExperts' = {}
    BY <1>w, <2>2, <2>4 DEF Used, AskedExperts
  <2> QED BY <2>3, <2>5 DEF Accessed
<1>2. CASE SchedPreemptEnd
  <2>1. /\ spc = "preempting" /\ sidx > Len(experts) /\ spc' = "ready" /\ EarlyPreempt
        /\ UNCHANGED <<hpc, layer, experts, idx, squeue>>
    BY <1>2, <1>t DEF SchedPreemptEnd, BudgetInv, PreemptInv
  <2>2. \A i \in idx .. Len(experts) : i < sidx
    BY <1>t, <2>1 DEF TypeInv, TypeOK
  <2>3. Asked' = Asked
    BY <2>1, <2>2 DEF Asked, InQueue
  <2> QED BY <1>w, <2>1, <2>3, AccessedFrame
<1>3. CASE ~SchedPreempt /\ ~SchedPreemptEnd
  <2>1. UNCHANGED <<experts, spc, sidx>>
    BY <1>3 DEF SchedPrefetchLayer, SchedFetchDone, SchedIdleAgain, Fetcher,
     FetchStart, FetchEnd, StreamStep, Unlock, Predictor, PredictStart, PredictLayer, PredictLayerDone
  <2>2. CASE SchedPreemptOne
    <3>1. Take("PreemptOne") /\ squeue' = Tail(squeue) /\ fpc' = fpc /\ ppc' = ppc /\ pnext' = pnext
      BY <2>2 DEF SchedPreemptOne
    <3>2. spc = "ready" /\ squeue # << >> /\ Head(squeue) = "PreemptOne"
      BY <3>1 DEF Take
    <3>3. Len(squeue') # Len(squeue)
      BY <1>t, <3>1, <3>2
    <3>4. ~SchedPrefetchLayer /\ ~SchedFetchDone /\ ~SchedIdleAgain
      BY <3>2 DEF SchedPrefetchLayer, SchedFetchDone, SchedIdleAgain, Take
    <3>5. ~StreamStep /\ ~Unlock /\ ~Fetcher /\ ~Predictor
      BY <3>1, <3>3 DEF StreamStep, Unlock, Fetcher, FetchStart, FetchEnd, Predictor, PredictStart,
         PredictLayer, PredictLayerDone
    <3> QED BY <1>3, <3>4, <3>5
  <2>3. CASE ~SchedPreemptOne
    BY <1>3, <1>w, <2>1, <2>3, AskedSame, AccessedFrame
  <2> QED BY <2>2, <2>3
<1> QED BY <1>1, <1>2, <1>3

(* preempt_one_expert: an expert that is all there is accessed, another gets a precise job.   *)
LEMMA PreemptWants ==
  ASSUME TypeInv, NEW e \in Expert, NEW behind, NEW line, PreemptExpert(e, behind, line)
  PROVE  IF HitOnPreempt(e, behind) THEN Wanted' = Wanted ELSE Wanted' = Wanted \cup {e}
<1>t. precise_job_queue \in Seq(CopyTask) /\ Len(precise_job_queue) \in Nat
  BY DEF TypeInv, TypeOK
<1>a. ASSUME NEW t, t.expert = e, precise_job_queue' = Append(precise_job_queue, t)
      PROVE  Wanted' = Wanted \cup {e}
  <2> DEFINE q == precise_job_queue
  <2>1. /\ Len(q') = Len(q) + 1 /\ \A i \in 1 .. Len(q) : q'[i] = q[i]
        /\ q'[Len(q) + 1] = t
    BY <1>t, <1>a
  <2>2. \A i \in 1 .. Len(q') : i \in 1 .. Len(q) \/ i = Len(q) + 1
    BY <1>t, <2>1
  <2>3. Len(q) + 1 \in 1 .. Len(q') /\ \A i \in 1 .. Len(q) : i \in 1 .. Len(q')
    BY <1>t, <2>1
  <2> QED BY <1>a, <2>1, <2>2, <2>3 DEF Wanted
<1>1. CASE HitOnPreempt(e, behind)
  <2>1. precise_job_queue' = precise_job_queue
    BY <1>1 DEF PreemptExpert, HitOnPreempt
  <2> QED BY <1>1, <2>1 DEF Wanted
<1>2. CASE ~HitOnPreempt(e, behind)
  <2>1. \E start : precise_job_queue' = Append(precise_job_queue, Task(e, start, P, TRUE))
    BY <1>2 DEF PreemptExpert, HitOnPreempt, AddPrecise
  <2> QED BY <1>2, <1>a, <2>1 DEF Task
<1> QED BY <1>1, <1>2

(* An access: e is one of the layer's experts, and it is the first precise access to it.      *)
Accesses(e) == /\ e \in LayerExperts \ Accessed /\ Accessed' = Accessed \cup {e} /\ Open
               /\ UNCHANGED <<hpc, iter, layer, experts, idx>>

LEMMA PreemptAccesses ==
  ASSUME StateInv, NEW e \in LayerExperts, NEW behind, NEW line, PreemptExpert(e, behind, line),
         e \in Expert, Open, e \notin AskedExperts \cup Used, AskedExperts' = AskedExperts \cup {e},
         UNCHANGED <<hpc, iter, layer, experts, idx>>
  PROVE  IF HitOnPreempt(e, behind) THEN Accesses(e) ELSE Accessed' = Accessed
<1>1. Used' = Used /\ e \notin Wanted /\ e \notin Accessed
  BY DEF Used, StateInv, PinInv, Accessed
<1>2. IF HitOnPreempt(e, behind) THEN Wanted' = Wanted ELSE Wanted' = Wanted \cup {e}
  BY PreemptWants DEF StateInv
<1>3. CASE HitOnPreempt(e, behind)
  BY <1>1, <1>2, <1>3 DEF Accesses, Accessed
<1>4. CASE ~HitOnPreempt(e, behind)
  BY <1>1, <1>2, <1>4 DEF Accessed
<1> QED BY <1>3, <1>4

LEMMA PreemptExpertAccesses ==
  ASSUME StateInv, SchedPreemptExpert
  PROVE  LET e == <<layer, experts[sidx]>>
         IN IF HitOnPreempt(e, BehindMiss(sidx)) THEN Accesses(e) ELSE Accessed' = Accessed
<1> DEFINE e == <<layer, experts[sidx]>>
<1>t. /\ experts \in Seq(ExpertIdx) /\ sidx \in Nat \ {0} /\ layer \in Layer /\ idx \in Nat \ {0}
      /\ Len(experts) \in Nat /\ BudgetInv /\ PlaceInv
  BY DEF StateInv, TypeInv, TypeOK
<1>s. /\ spc = "preempting" /\ sidx <= Len(experts) /\ sidx' = sidx + 1
      /\ PreemptExpert(e, BehindMiss(sidx), "prefetcher.cpp:105")
      /\ UNCHANGED <<hpc, iter, layer, experts, idx, squeue, spc>>
  BY DEF SchedPreemptExpert
<1>h. EarlyPreempt /\ ~InQueue("Preempt") /\ ~InQueue("Preempt")' /\ hpc = "expert" /\ idx = 1
  BY <1>s, <1>t DEF BudgetInv, PreemptInv, PlaceInv, InQueue
<1>p. sidx \in 1 .. Len(experts)
  BY <1>t, <1>s
<1>e. e \in Expert /\ e \in LayerExperts
  BY <1>t, <1>p DEF Expert, LayerExperts
<1>1. Asked = {i \in 1 .. Len(experts) : i < sidx}
  BY <1>h, <1>s DEF Asked
<1>2. Asked' = {i \in 1 .. Len(experts) : i < sidx + 1}
  BY <1>h, <1>s DEF Asked
<1>3. Asked' = Asked \cup {sidx} /\ Asked \subseteq 1 .. Len(experts) /\ sidx \notin Asked
  BY <1>t, <1>p, <1>1, <1>2
<1>4. e \notin AskedExperts
  BY <1>p, <1>t, <1>3 DEF AskedExperts, PlaceInv, DistinctExperts
<1>5. AskedExperts' = AskedExperts \cup {e} /\ Used = {}
  <2>1. AskedExperts' = {<<layer, experts[i]>> : i \in Asked'}
    BY <1>s DEF AskedExperts
  <2>2. Used = {}
    BY <1>h DEF Used
  <2> QED BY <1>3, <2>1, <2>2 DEF AskedExperts
<1>6. Open
  BY <1>h DEF Open
<1> HIDE DEF e
<1>7. IF HitOnPreempt(e, BehindMiss(sidx)) THEN Accesses(e) ELSE Accessed' = Accessed
  BY <1>e, <1>s, <1>4, <1>5, <1>6, PreemptAccesses
<1> QED BY <1>7 DEF e

LEMMA PreemptOneAccesses ==
  ASSUME StateInv, SchedPreemptOne
  PROVE  IF HitOnPreempt(HookExpert, FALSE) THEN Accesses(HookExpert) ELSE Accessed' = Accessed
<1>t. squeue \in Seq(Kind) /\ UniquePreemptOne /\ TypeInv /\ PlaceInv
  BY DEF StateInv, TypeInv, TypeOK, Kind, PlaceInv
<1>s. /\ Take("PreemptOne") /\ squeue' = Tail(squeue)
      /\ PreemptExpert(HookExpert, FALSE, "prefetcher.cpp:55")
      /\ UNCHANGED <<hpc, iter, layer, experts, idx>>
  BY DEF SchedPreemptOne
<1>1. InQueue("PreemptOne") /\ squeue # << >> /\ Head(squeue) = "PreemptOne"
  BY <1>t, <1>s, TakeInQueue DEF Take
<1>2. hpc = "wait" /\ ~EarlyPreempt
  BY <1>1, <1>t DEF TypeInv, IndexInv, PlaceInv
<1>3. ~InQueue("PreemptOne")'
  BY <1>t, <1>s, <1>1, PreemptOneTail
<1>4. AskedExperts = {}
  BY <1>1, <1>2, NothingAsked
<1>5. AskedExperts' = {HookExpert}
  BY <1>2, <1>3, <1>s DEF AskedExperts, Asked, HookExpert
<1>6. HookExpert \in Expert /\ HookExpert \in LayerExperts
  <2>1. /\ idx \in 1 .. Len(experts) /\ experts \in Seq(ExpertIdx) /\ layer \in Layer
    BY <1>2, <1>t DEF TypeInv, TypeOK, IndexInv
  <2> QED BY <2>1 DEF HookExpert, Expert, LayerExperts
<1>7. HookExpert \notin Used
  <2>1. /\ idx \in 1 .. Len(experts) /\ \A i \in 1 .. (idx - 1) : i \in 1 .. Len(experts) /\ i # idx
    BY <1>2, <1>t DEF TypeInv, TypeOK, IndexInv
  <2> QED BY <1>t, <2>1 DEF HookExpert, Used, PlaceInv, DistinctExperts
<1>8. Open
  BY <1>2 DEF Open
<1> QED BY <1>s, <1>4, <1>5, <1>6, <1>7, <1>8, PreemptAccesses

(* IdleTask: the precise job of an expert is the last thing to do for the access. *)
LEMMA IdleAccesses ==
  ASSUME StateInv, Next, SchedIdle
  PROVE  IF NextJob.is_precise THEN Accesses(NextJob.expert) ELSE Accessed' = Accessed
<1>t. /\ TypeInv /\ PinInv /\ RunInv /\ precise_job_queue \in Seq(CopyTask)
      /\ Len(precise_job_queue) \in Nat
      /\ per_layer_job_queues \in [Layer -> Seq(CopyTask)]
  BY DEF StateInv, TypeInv, TypeOK
<1>u. UNCHANGED <<hpc, iter, layer, experts, idx, spc, sidx>>
  BY DEF SchedIdle
<1>n. ~SchedPreempt /\ ~SchedPreemptOne
  BY DEF SchedIdle, SchedPreempt, SchedPreemptOne, Take
<1>a. Asked' = Asked
  BY <1>n, <1>u, AskedSame
<1>1. CASE PopPrecise /\ NextJob = Head(precise_job_queue)
  <2> DEFINE q == precise_job_queue
             e == Head(q).expert
  <2>1. /\ Len(q) \in Nat \ {0} /\ Len(q') = Len(q) - 1 /\ Head(q) = q[1]
        /\ \A i \in 1 .. Len(q') : q'[i] = q[i + 1]
    BY <1>t, <1>1, HeadTail DEF PopPrecise
  <2>2. /\ \A i \in 1 .. Len(q') : i + 1 \in 1 .. Len(q) /\ i + 1 # 1
        /\ 1 \in 1 .. Len(q)
        /\ \A i \in 1 .. Len(q) : i = 1 \/ (i - 1 \in 1 .. Len(q') /\ (i - 1) + 1 = i)
    BY <2>1
  <2>3. NextJob.is_precise /\ e \in Wanted
    BY <1>1, <1>t, <2>1, <2>2 DEF RunInv, Wanted
  <2>4. Wanted' = Wanted \ {e}
    <3>1. \A i \in 1 .. Len(q') : q'[i].expert \in Wanted /\ q'[i].expert # e
      <4>1. \A i, j \in 1 .. Len(q) : q[i].expert = q[j].expert => i = j
        BY <1>t DEF PinInv, WantedOnce
      <4>2. \A i \in 1 .. Len(q) : q[i].expert \in Wanted
        BY DEF Wanted
      <4> HIDE DEF q
      <4> QED BY <2>1, <2>2, <4>1, <4>2, ZenonT(40)
    <3>2. \A i \in 1 .. Len(q) : q[i].expert # e => \E j \in 1 .. Len(q') : q'[j].expert = q[i].expert
      <4> HIDE DEF q
      <4> QED BY <2>1, <2>2, ZenonT(40)
    <3>3. Wanted' = {q'[i].expert : i \in 1 .. Len(q')} /\ Wanted = {q[i].expert : i \in 1 .. Len(q)}
      BY DEF Wanted
    <3> HIDE DEF q
    <3> QED BY <3>1, <3>2, <3>3
  <2>5. e \in AskedExperts
    BY <1>t, <2>3 DEF PinInv
  <2>6. Used' = Used /\ AskedExperts' = AskedExperts
    BY <1>a, <1>u DEF Used, AskedExperts
  <2>7. Accessed' = Accessed \cup {e} /\ e \notin Accessed
    <3> HIDE DEF e
    <3> QED BY <2>3, <2>4, <2>5, <2>6 DEF Accessed
  <2>8. e \in LayerExperts
    BY <2>5, AskedPlaces
  <2>9. Open
    BY <2>3, AccessedInLayer
  <2> QED BY <1>1, <1>u, <2>3, <2>7, <2>8, <2>9 DEF Accesses
<1>2. ASSUME NEW l \in Layer, PopLayer(l), NextJob = Head(per_layer_job_queues[l])
      PROVE  ~NextJob.is_precise /\ Accessed' = Accessed
  <2>1. per_layer_job_queues[l] \in Seq(CopyTask) /\ per_layer_job_queues[l] # << >>
    BY <1>t, <1>2 DEF PopLayer
  <2>2. /\ 1 \in 1 .. Len(per_layer_job_queues[l])
        /\ Head(per_layer_job_queues[l]) = per_layer_job_queues[l][1]
    BY <2>1
  <2>3. ~NextJob.is_precise
    BY <1>2, <1>t, <2>2 DEF PinInv, PrefetchUnpinned
  <2>4. Wanted' = Wanted
    BY <1>2 DEF PopLayer, Wanted
  <2> QED BY <1>a, <1>u, <2>3, <2>4, AccessedFrame
<1> QED BY <1>1, <1>2, <1>t, IdleSends
-----------------------------------------------------------------------------
(* Where the sequence is.  Layer l of iteration k of a sequence of n iterations.              *)
LEMMA TimeOf ==
  ASSUME NEW k \in Nat, NEW n \in Nat, NEW l \in Layer
  PROVE  /\ k * NumLayer + l \in Nat
         /\ k < n => k * NumLayer + l < n * NumLayer
         /\ (k * NumLayer + l) % NumLayer = l
<1>n. NumLayer \in Nat \ {0} /\ l \in 0 .. (NumLayer - 1)
  BY ConstantsAssumption DEF Layer
<1>p. k * NumLayer \in Nat /\ n * NumLayer \in Nat
  BY <1>n
<1>1. k * NumLayer + l \in Nat
  BY <1>n, <1>p
<1>2. ASSUME k < n PROVE k * NumLayer + l < n * NumLayer
  <2>1. n - k - 1 \in Nat
    BY <1>2
  <2>2. (n - k - 1) * NumLayer \in Nat
    BY <1>n, <2>1
  <2>3. n * NumLayer = k * NumLayer + NumLayer + (n - k - 1) * NumLayer
    BY <1>n
  <2> QED BY <1>n, <1>p, <2>2, <2>3
<1>3. (k * NumLayer + l) % NumLayer = l
  <2> DEFINE x == k * NumLayer + l
             m == x \div NumLayer
             d == x % NumLayer
  <2>1. m \in Int /\ d \in 0 .. (NumLayer - 1) /\ x = m * NumLayer + d
    BY <1>n, <1>1
  <2>2. (k - m) * NumLayer = d - l
    BY <1>n, <2>1
  <2> HIDE DEF m, d, x
  <2>3. CASE k - m >= 1
    <3>1. (k - m) * NumLayer >= NumLayer
      BY <1>n, <2>1, <2>3
    <3> QED BY <1>n, <2>1, <2>2, <3>1
  <2>4. CASE k - m <= -1
    <3>1. (k - m) * NumLayer <= -NumLayer
      BY <1>n, <2>1, <2>4
    <3> QED BY <1>n, <2>1, <2>2, <3>1
  <2>5. CASE k - m = 0
    <3>1. d = l
      BY <1>n, <2>1, <2>2, <2>5
    <3> QED BY <3>1 DEF d, x
  <2> QED BY <2>1, <2>3, <2>4, <2>5
<1> QED BY <1>1, <1>2, <1>3

(* The oracle knows the iterations the hook is at, and the gates follow it.                   *)
HookInTime ==
  \E n \in Nat : /\ Time = 0 .. (n * NumLayer - 1)
                 /\ first_iter + n <= MaxIter
                 /\ iter - first_iter \in 0 .. n
                 /\ hpc \notin {"start", "done"} => iter - first_iter < n

Follows == Open => ToSet(experts) = trace[Now]

(* No slot has seen a use time to come. *)
Passed == \A s \in Slot : current_time[s] <= Now

UsesBefore(e) == {t \in Uses(e) : t < Now}

(* An expert has been accessed at its use times, and now if it is in Accessed. *)
Counts ==
  \A e \in Expert :
    next_use_time_idx[e] = Cardinality(UsesBefore(e)) + (IF e \in Accessed THEN 1 ELSE 0)

Oracle == HookInTime /\ Follows /\ Passed

MinInv ==
  /\ first_iter \in Nat
  /\ next_use_time_idx \in [Expert -> Nat] /\ current_time \in [Slot -> Int]
  /\ cache_policy = "min" => Oracle /\ (aborted = "none" \/ Awaited = {} => Counts)

LEMMA NowKnown ==
  ASSUME StateInv, first_iter \in Nat, HookInTime
  PROVE  /\ Now \in Nat /\ Now % NumLayer = layer /\ IsFiniteSet(Time)
         /\ Time \subseteq Nat
         /\ hpc \notin {"start", "done"} => Now \in Time /\ Now < MaxIter * NumLayer
<1>t. iter \in Nat /\ layer \in Layer /\ NumLayer \in Nat \ {0} /\ MaxIter \in Nat
  BY ConstantsAssumption DEF StateInv, TypeInv, TypeOK
<1>1. PICK n \in Nat : /\ Time = 0 .. (n * NumLayer - 1)
                       /\ first_iter + n <= MaxIter
                       /\ iter - first_iter \in 0 .. n
                       /\ hpc \notin {"start", "done"} => iter - first_iter < n
  BY DEF HookInTime
<1> DEFINE k == iter - first_iter
<1>2. k \in Nat /\ n <= MaxIter /\ n * NumLayer - 1 \in Int
  BY <1>t, <1>1
<1>3. Now \in Nat /\ Now % NumLayer = layer /\ (k < n => Now < n * NumLayer)
  BY <1>t, <1>2, TimeOf DEF Now
<1>4. k < n => k < MaxIter
  BY <1>t, <1>2
<1>5. k < n => Now < MaxIter * NumLayer
  BY <1>t, <1>2, <1>4, TimeOf DEF Now
<1>6. IsFiniteSet(Time) /\ Time \subseteq Nat
  BY <1>1, <1>2, FS_Interval
<1>7. k < n => Now \in Time
  <2> HIDE DEF k
  <2>1. n * NumLayer \in Nat
    BY <1>t
  <2> QED BY <1>1, <1>3, <2>1
<1> QED BY <1>1, <1>3, <1>5, <1>6, <1>7

(* The experts of the layer are the ones used now. *)
LEMMA UsedNow ==
  ASSUME StateInv, MinInv, cache_policy = "min", Open, NEW e \in Expert
  PROVE  Now \in Uses(e) <=> e \in LayerExperts
<1>1. HookInTime /\ first_iter \in Nat /\ Follows
  BY DEF MinInv, Oracle
<1>2. Now \in Time /\ Now % NumLayer = layer
  BY <1>1, NowKnown DEF Open
<1>3. {experts[i] : i \in 1 .. Len(experts)} = trace[Now]
  BY <1>1, SMTT(30) DEF Follows, ToSet, StateInv, TypeInv, TypeOK
<1>4. Now \in Uses(e) <=> layer = e[1] /\ e[2] \in trace[Now]
  BY <1>2 DEF Uses
<1>5. \A i \in 1 .. Len(experts) : e = <<layer, experts[i]>> <=> e[1] = layer /\ e[2] = experts[i]
  BY DEF Expert
<1> QED BY <1>3, <1>4, <1>5 DEF LayerExperts

(* After the earlier uses comes the one now: what update_use_time finds. *)
LEMMA NextUse ==
  ASSUME NEW S \in SUBSET Nat, IsFiniteSet(S), NEW now \in S, NEW M \in Int, now < M
  PROVE  now = CHOOSE t \in S \cup {M} :
                 Cardinality({u \in S : u < t}) = Cardinality({u \in S : u < now})
<1> DEFINE Earlier(t) == {u \in S : u < t}
<1>1. \A t : Earlier(t) \in SUBSET S /\ IsFiniteSet(Earlier(t))
  BY FS_Subset
<1>2. \A t \in S \cup {M} : t \in Int
  OBVIOUS
<1>3. ASSUME NEW t \in S \cup {M}, NEW r \in S \cup {M}, r < t, r \in S
      PROVE  Cardinality(Earlier(t)) # Cardinality(Earlier(r))
  <2>1. r \in Int /\ t \in Int
    BY <1>2
  <2>2. r \in Earlier(t) /\ r \notin Earlier(r)
    <3>1. r \in Earlier(t)
      BY <1>3
    <3>2. ~(r < r)
      BY <2>1
    <3> QED BY <3>1, <3>2
  <2>3. Earlier(r) \in SUBSET Earlier(t)
    <3> SUFFICES ASSUME NEW u \in S, u < r PROVE u < t
      OBVIOUS
    <3>1. u \in Int
      BY <1>2
    <3> QED BY <1>3, <2>1, <3>1
  <2> HIDE DEF Earlier
  <2> QED BY <1>1, <2>2, <2>3, FS_Subset
<1>4. ASSUME NEW t \in S \cup {M}, Cardinality(Earlier(t)) = Cardinality(Earlier(now))
      PROVE  t = now
  <2>1. t \in Int /\ now \in Int
    BY <1>2
  <2>2. t < now => t \in S
    OBVIOUS
  <2> HIDE DEF Earlier
  <2>3. ~(t < now)
    BY <1>3, <1>4, <2>2
  <2>4. ~(now < t)
    BY <1>3, <1>4
  <2> QED BY <2>1, <2>3, <2>4
<1> HIDE DEF Earlier
<1>5. now = CHOOSE t \in S \cup {M} : Cardinality(Earlier(t)) = Cardinality(Earlier(now))
  BY <1>4
<1> QED BY <1>5 DEF Earlier

LEMMA UseTimeIsNow ==
  ASSUME StateInv, MinInv, cache_policy = "min", Open, NEW e \in Expert, e \in LayerExperts
  PROVE  UseTime(e, Cardinality(UsesBefore(e))) = Now
<1>1. Now \in Uses(e)
  BY UsedNow
<1>2. IsFiniteSet(Time) /\ Time \subseteq Nat /\ Now < MaxIter * NumLayer
  BY NowKnown DEF MinInv, Oracle, Open
<1>3. MaxIter * NumLayer \in Int
  BY ConstantsAssumption
<1>4. Uses(e) \in SUBSET Time
  BY DEF Uses
<1>5. Uses(e) \in SUBSET Nat /\ IsFiniteSet(Uses(e))
  BY <1>2, <1>4, FS_Subset
<1>6. Now = CHOOSE t \in Uses(e) \cup {MaxIter * NumLayer} :
              Cardinality({u \in Uses(e) : u < t}) = Cardinality({u \in Uses(e) : u < Now})
  BY <1>1, <1>2, <1>3, <1>5, NextUse
<1> QED BY <1>6 DEF UseTime, UsesBefore

-----------------------------------------------------------------------------
(* The steps of the oracle *)
Ascends == \A s \in Slot : current_time'[s] >= current_time[s] \/ current_time'[s] = -1

LEMMA UsesKept ==
  ASSUME UNCHANGED <<trace, first_iter, iter, layer>>
  PROVE  /\ Now' = Now /\ Time' = Time /\ \A e \in Expert : UsesBefore(e)' = UsesBefore(e)
BY DEF Now, Time, Uses, UsesBefore

(* Nothing is accessed. *)
LEMMA QuietKeepsMin ==
  ASSUME MinInv, aborted = "none",
         UNCHANGED <<cache_policy, trace, first_iter, next_use_time_idx, current_time, iter, layer>>,
         cache_policy = "min" => HookInTime' /\ Follows' /\
           (Accessed' = Accessed \/ ~(aborted' = "none" \/ Awaited' = {}))
  PROVE  MinInv' /\ Ascends
<1>1. Ascends
  BY DEF MinInv, Ascends
<1>2. cache_policy = "min" => Passed'
  BY UsesKept DEF MinInv, Oracle, Passed
<1>3. ASSUME cache_policy = "min", Accessed' = Accessed PROVE Counts'
  BY <1>3, UsesKept DEF MinInv, Counts
<1> QED BY <1>1, <1>2, <1>3 DEF MinInv, Oracle

LEMMA AccessKeepsMin ==
  ASSUME StateInv, MinInv, aborted = "none", NEW e \in Expert, Accesses(e), UsePassed(e, TRUE),
         UNCHANGED <<cache_policy, trace, first_iter>>
  PROVE  MinInv' /\ Ascends
<1>1. CASE cache_policy # "min"
  BY <1>1 DEF UsePassed, MinInv, Ascends
<1>2. CASE cache_policy = "min"
  <2> DEFINE s == SlotOf(e)
  <2>t. /\ first_iter \in Nat /\ next_use_time_idx \in [Expert -> Nat]
        /\ current_time \in [Slot -> Int] /\ s \in Slot
        /\ HookInTime /\ Follows /\ Passed /\ Counts
    BY <1>2, SlotOfType DEF MinInv, Oracle
  <2>a. /\ e \in LayerExperts /\ e \notin Accessed /\ Accessed' = Accessed \cup {e} /\ Open
        /\ UNCHANGED <<hpc, iter, layer, experts, idx>>
    BY DEF Accesses
  <2>n. Now \in Nat
    BY <2>t, NowKnown
  <2>k. Now' = Now /\ Time' = Time /\ \A x \in Expert : UsesBefore(x)' = UsesBefore(x)
    BY <2>a, UsesKept
  <2>1. next_use_time_idx[e] = Cardinality(UsesBefore(e))
    <3>1. next_use_time_idx[e] = Cardinality(UsesBefore(e)) + 0
      BY <2>t, <2>a DEF Counts
    <3>2. next_use_time_idx[e] \in Nat
      BY <2>t
    <3>3. UsesBefore(e) \in SUBSET Time /\ IsFiniteSet(Time)
      BY <2>t, NowKnown DEF UsesBefore, Uses
    <3>4. Cardinality(UsesBefore(e)) \in Nat
      BY <3>3, FS_Subset, FS_CardinalityType
    <3> QED BY <3>1, <3>4
  <2>2. UseTime(e, next_use_time_idx[e]) = Now
    BY <1>2, <2>1, <2>a, UseTimeIsNow
  <2>3. /\ current_time' = [current_time EXCEPT ![s] = Now]
        /\ next_use_time_idx' = [next_use_time_idx EXCEPT ![e] = next_use_time_idx[e] + 1]
    BY <1>2, <2>2 DEF UsePassed
  <2>4. current_time' \in [Slot -> Int] /\ next_use_time_idx' \in [Expert -> Nat]
    BY <2>t, <2>n, <2>3
  <2>5. \A x \in Slot : current_time'[x] = IF x = s THEN Now ELSE current_time[x]
    BY <2>t, <2>3
  <2>6. Passed' /\ Ascends
    BY <2>k, <2>n, <2>t, <2>5 DEF Passed, Ascends
  <2>7. Counts'
    <3> SUFFICES ASSUME NEW x \in Expert
                 PROVE  next_use_time_idx'[x]
                          = Cardinality(UsesBefore(x)') + (IF x \in Accessed' THEN 1 ELSE 0)
      BY DEF Counts
    <3>1. CASE x = e
      <4>1. next_use_time_idx'[x] = next_use_time_idx[e] + 1
        BY <2>t, <2>3, <3>1
      <4> QED BY <2>1, <2>a, <2>k, <3>1, <4>1
    <3>2. CASE x # e
      <4>1. next_use_time_idx'[x] = next_use_time_idx[x]
        BY <2>t, <2>3, <3>2
      <4>2. next_use_time_idx[x] = Cardinality(UsesBefore(x)) + (IF x \in Accessed THEN 1 ELSE 0)
        BY <2>t DEF Counts
      <4> QED BY <2>a, <2>k, <3>2, <4>1, <4>2
    <3> QED BY <3>1, <3>2
  <2>8. HookInTime' /\ Follows'
    <3>1. trace' = trace /\ first_iter' = first_iter
      OBVIOUS
    <3>2. HookInTime'
      BY <2>a, <2>k, <2>t, <3>1 DEF HookInTime
    <3>3. Follows'
      BY <2>a, <2>k, <2>t, <3>1 DEF Follows, Open
    <3> QED BY <3>2, <3>3
  <2> QED BY <1>2, <2>t, <2>4, <2>6, <2>7, <2>8 DEF MinInv, Oracle
<1> QED BY <1>1, <1>2

(* The hook is done with a layer: all its experts have been accessed. *)
LEMMA LayerDoneKeepsMin ==
  ASSUME StateInv, MinInv, aborted = "none", HookLayerDone, UNCHANGED policyVars, Accessed' = {}
  PROVE  MinInv' /\ Ascends
<1>p. UNCHANGED <<cache_policy, trace, first_iter, next_use_time_idx, current_time>>
  BY DEF policyVars, minVars
<1>1. Ascends
  BY <1>p DEF MinInv, Ascends
<1>m. /\ first_iter' \in Nat /\ next_use_time_idx' \in [Expert -> Nat] /\ current_time' \in [Slot -> Int]
      /\ cache_policy' = cache_policy
  BY <1>p DEF MinInv
<1>2. CASE cache_policy # "min"
  BY <1>m, <1>1, <1>2 DEF MinInv
<1>3. CASE cache_policy = "min"
  <2>t. /\ first_iter \in Nat /\ next_use_time_idx \in [Expert -> Nat]
        /\ current_time \in [Slot -> Int]
        /\ HookInTime /\ Follows /\ Passed /\ Counts
    BY <1>3 DEF MinInv, Oracle
  <2>y. iter \in Nat /\ layer \in Layer /\ NumLayer \in Nat \ {0}
    BY ConstantsAssumption DEF StateInv, TypeInv, TypeOK
  <2>s. hpc = "layer_done" /\ Open /\ ~Open'
    BY DEF HookLayerDone, Open
  <2>l. Accessed = LayerExperts
    BY <2>s, AccessedInLayer
  <2>1. PICK n \in Nat : /\ Time = 0 .. (n * NumLayer - 1)
                         /\ first_iter + n <= MaxIter
                         /\ iter - first_iter \in 0 .. n
                         /\ iter - first_iter < n
    BY <2>s, <2>t DEF HookInTime
  <2>2. Time' = Time
    BY <1>p DEF Time
  <2>3. HookInTime' /\ Now' = Now + 1
    <3>1. CASE layer = NumLayer - 1
      <4>1. iter' = iter + 1 /\ layer' = 0 /\ hpc' \in {"start", "done"}
        BY <3>1 DEF HookLayerDone, NextLayer
      <4>2. iter' - first_iter' \in 0 .. n
        BY <1>p, <2>t, <2>y, <2>1, <4>1
      <4>3. HookInTime'
        BY <1>p, <2>1, <2>2, <4>1, <4>2 DEF HookInTime
      <4>4. Now' = (iter + 1 - first_iter) * NumLayer + 0
        BY <1>p, <2>t, <2>y, <4>1 DEF Now
      <4>5. (iter + 1 - first_iter) * NumLayer = (iter - first_iter) * NumLayer + NumLayer
        BY <2>t, <2>y
      <4>6. (iter - first_iter) * NumLayer \in Int
        BY <2>t, <2>y
      <4>7. Now = (iter - first_iter) * NumLayer + (NumLayer - 1)
        BY <3>1 DEF Now
      <4> QED BY <2>y, <4>3, <4>4, <4>5, <4>6, <4>7
    <3>2. CASE layer # NumLayer - 1
      <4>1. iter' = iter /\ layer' = layer + 1 /\ hpc' = "layer"
        BY <3>2 DEF HookLayerDone, NextLayer
      <4>2. HookInTime'
        BY <1>p, <2>1, <2>2, <4>1 DEF HookInTime
      <4>3. Now' = (iter - first_iter) * NumLayer + (layer + 1)
        BY <1>p, <4>1 DEF Now
      <4>4. (iter - first_iter) * NumLayer \in Int /\ layer \in Int
        BY <2>t, <2>y DEF Layer
      <4> QED BY <4>2, <4>3, <4>4 DEF Now
    <3> QED BY <3>1, <3>2
  <2>4. Now \in Nat /\ IsFiniteSet(Time) /\ Time \subseteq Nat
    BY <2>t, NowKnown
  <2>5. Passed'
    <3> SUFFICES ASSUME NEW x \in Slot PROVE current_time'[x] <= Now'
      BY DEF Passed
    <3>1. current_time[x] \in Int /\ current_time[x] <= Now
      BY <2>t DEF Passed
    <3> QED BY <1>p, <2>3, <2>4, <3>1
  <2>6. Counts'
    <3> SUFFICES ASSUME NEW x \in Expert
                 PROVE  next_use_time_idx'[x]
                          = Cardinality(UsesBefore(x)') + (IF x \in Accessed' THEN 1 ELSE 0)
      BY DEF Counts
    <3>1. next_use_time_idx[x] = Cardinality(UsesBefore(x)) + (IF x \in LayerExperts THEN 1 ELSE 0)
      BY <2>t, <2>l DEF Counts
    <3>2. Now \in Uses(x) <=> x \in LayerExperts
      BY <1>3, <2>s, UsedNow
    <3>3. Uses(x)' = Uses(x)
      BY <1>p DEF Uses, Time
    <3>4. UsesBefore(x)' = {t \in Uses(x) : t < Now + 1}
      BY <2>3, <3>3 DEF UsesBefore
    <3>5. Uses(x) \in SUBSET Time /\ Uses(x) \subseteq Nat
      BY <2>4 DEF Uses
    <3>6. UsesBefore(x)' = IF x \in LayerExperts THEN UsesBefore(x) \cup {Now} ELSE UsesBefore(x)
      <4>1. \A t \in Uses(x) : t < Now + 1 <=> t < Now \/ t = Now
        BY <2>4, <3>5
      <4> QED BY <3>2, <3>4, <4>1 DEF UsesBefore
    <3>7. IsFiniteSet(UsesBefore(x)) /\ Now \notin UsesBefore(x)
      <4>1. UsesBefore(x) \in SUBSET Time
        BY <3>5 DEF UsesBefore
      <4>2. ~(Now < Now)
        BY <2>4
      <4> QED BY <2>4, <4>1, <4>2, FS_Subset DEF UsesBefore
    <3>8. Cardinality(UsesBefore(x) \cup {Now}) = Cardinality(UsesBefore(x)) + 1
      BY <3>7, FS_AddElement
    <3>9. Cardinality(UsesBefore(x)) \in Nat
      BY <3>7, FS_CardinalityType
    <3>10. Cardinality(UsesBefore(x)') = Cardinality(UsesBefore(x)) + (IF x \in LayerExperts THEN 1 ELSE 0)
      BY <3>6, <3>8, <3>9
    <3> QED BY <1>p, <3>1, <3>9, <3>10
  <2>7. Follows'
    BY <2>s DEF Follows
  <2> QED BY <1>m, <1>1, <2>3, <2>5, <2>6, <2>7 DEF MinInv, Oracle
<1> QED BY <1>1, <1>2, <1>3

(* set_cur_seq: nothing of the new sequence has been used. *)
LEMMA SetCurSeqKeepsMin ==
  ASSUME StateInv, MinInv, SetCurSeq
  PROVE  MinInv' /\ Ascends
<1>t. iter \in Nat /\ layer = 0 /\ NumLayer \in Nat \ {0} /\ MaxIter \in Nat /\ hpc = "start"
  BY ConstantsAssumption DEF StateInv, TypeInv, TypeOK, RunInv, SetCurSeq
<1>u. /\ UNCHANGED <<hpc, iter, layer, experts, idx, squeue, spc, sidx, precise_job_queue, aborted>>
      /\ cache_policy' = cache_policy /\ first_iter' = iter
      /\ next_use_time_idx' = [e \in Expert |-> 0] /\ current_time' = [s \in Slot |-> -1]
  BY DEF SetCurSeq, vars, Rewound
<1>1. current_time' \in [Slot -> Int] /\ next_use_time_idx' \in [Expert -> Nat] /\ first_iter' \in Nat
  BY <1>t, <1>u
<1>2. Ascends
  BY <1>u DEF Ascends
<1>3. Now' = 0
  BY <1>t, <1>u DEF Now
<1>4. Passed'
  BY <1>u, <1>3 DEF Passed
<1>5. Follows' /\ Accessed' = {}
  <2>1. ~Open' /\ Accessed' = Accessed
    BY <1>t, <1>u DEF Open, Accessed, Used, AskedExperts, Asked, Wanted, InQueue
  <2>2. Accessed = {}
    BY <1>t, AccessedInLayer DEF Open
  <2> QED BY <2>1, <2>2 DEF Follows
<1>6. HookInTime' /\ Time' \subseteq Nat
  <2>1. PICK n \in 1 .. (MaxIter - iter) : trace' \in Traces(n)
    BY DEF SetCurSeq
  <2>2. n \in Nat /\ iter + n <= MaxIter /\ iter - iter \in 0 .. n
    BY <1>t, <2>1
  <2>3. Time' = 0 .. (n * NumLayer - 1)
    BY <2>1 DEF Time, Traces
  <2>4. hpc' \in {"start", "done"}
    BY <1>t, <1>u
  <2>5. n * NumLayer \in Nat
    BY <1>t, <2>2
  <2> QED BY <1>u, <2>2, <2>3, <2>4, <2>5 DEF HookInTime
<1>7. Counts'
  <2> SUFFICES ASSUME NEW x \in Expert
               PROVE  next_use_time_idx'[x]
                        = Cardinality(UsesBefore(x)') + (IF x \in Accessed' THEN 1 ELSE 0)
    BY DEF Counts
  <2>1. UsesBefore(x)' = {}
    <3>1. \A t \in Time' : ~(t < 0)
      BY <1>6
    <3> QED BY <1>3, <3>1 DEF UsesBefore, Uses
  <2>2. next_use_time_idx'[x] = 0
    BY <1>u
  <2> QED BY <1>5, <2>1, <2>2, FS_EmptySet
<1> QED BY <1>1, <1>2, <1>4, <1>5, <1>6, <1>7 DEF MinInv, Oracle

LEMMA OracleFrame ==
  ASSUME MinInv, UNCHANGED <<trace, first_iter, iter, layer>>,
         hpc' \notin {"start", "done"} => hpc \notin {"start", "done"},
         Open' => Open /\ ToSet(experts') = ToSet(experts)
  PROVE  cache_policy = "min" => HookInTime' /\ Follows'
<1> SUFFICES ASSUME cache_policy = "min" PROVE HookInTime' /\ Follows'
  OBVIOUS
<1>1. HookInTime /\ Follows
  BY DEF MinInv, Oracle
<1>2. Now' = Now /\ Time' = Time
  BY UsesKept
<1>3. HookInTime'
  <2>1. PICK n \in Nat : /\ Time = 0 .. (n * NumLayer - 1)
                         /\ first_iter + n <= MaxIter
                         /\ iter - first_iter \in 0 .. n
                         /\ hpc \notin {"start", "done"} => iter - first_iter < n
    BY <1>1 DEF HookInTime
  <2> QED BY <1>2, <2>1 DEF HookInTime
<1>4. Follows'
  BY <1>1, <1>2 DEF Follows
<1> QED BY <1>3, <1>4

(* Only a failed CHECK takes a precise job without an access. *)
LEMMA NoMissFails ==
  ASSUME TypeInv, BuffersPartitioned, NEW t \in CopyTask, SendOneJob(t), aborted = "none",
         ~IsInCache(t.expert), prefetched_experts'[t.expert] = NoBuffer
  PROVE  aborted' # "none"
<1> DEFINE e == t.expert
<1>e. e \in Expert /\ gpu_data = prefetched_experts /\ gpu_data[e] = NoBuffer
  BY DEF CopyTask, BuffersPartitioned, IsInCache
<1>p. prefetched_experts \in [Expert -> Buffer \cup {NoBuffer}]
  BY DEF TypeInv, TypeOK
<1>1. CASE aborted' \in {"prefetcher.cpp:623", "prefetcher.cpp:624"}
  BY <1>1
<1>2. CASE TakeUnused(e)
  <2> DEFINE s == SlotOf(e)
             b == <<s, unused_mems[s]>>
  <2>1. s \in Slot /\ unused_mems[s] \in Nat /\ unused_mems[s] > 0
    BY <1>2, <1>e, SlotOfType DEF TypeInv, TypeOK, TakeUnused
  <2>2. unused_mems[s] <= SlotLen[s] /\ SlotLen[s] \in Nat
    BY <2>1, ConstantsAssumption DEF TypeInv, IndexInv
  <2>3. b \in Buffer
    BY <2>1, <2>2 DEF Buffer
  <2>4. prefetched_experts' = [prefetched_experts EXCEPT ![e] = b]
    BY <1>2 DEF TakeUnused
  <2>5. prefetched_experts'[e] = b
    BY <1>e, <1>p, <2>4
  <2>6. b # NoBuffer
    BY <2>3, ConstantsAssumption
  <2> QED BY <2>5, <2>6
<1>3. ASSUME NEW v \in InSlot(e), Evict(e, v) PROVE FALSE
  <2>1. v \in Expert /\ prefetched_experts[v] # NoBuffer /\ v # e
    BY <1>e, <1>3 DEF InSlot, IsInCache
  <2>2. prefetched_experts' = [prefetched_experts EXCEPT ![v] = NoBuffer, ![e] = prefetched_experts[v]]
    BY <1>3 DEF Evict
  <2>3. prefetched_experts'[e] = prefetched_experts[v]
    BY <1>e, <1>p, <2>1, <2>2
  <2> QED BY <2>1, <2>3
<1> QED BY <1>e, <1>1, <1>2, <1>3 DEF SendOneJob, SendMissed, SendDuplicate, SendRest

LEMMA IdleKeepsMin ==
  ASSUME StateInv, MinInv, Next, SchedIdle, SendAccesses(NextJob)
  PROVE  MinInv' /\ Ascends
<1> DEFINE t == NextJob
           e == NextJob.expert
<1>a. aborted = "none"
  BY DEF Next
<1>u. UNCHANGED <<hpc, iter, layer, experts, idx>>
  BY DEF SchedIdle
<1>t. t \in CopyTask /\ e \in Expert /\ SendOneJob(t) /\ TypeInv /\ BuffersPartitioned
  BY IdleSends DEF StateInv, CopyTask
<1>i. IF t.is_precise THEN Accesses(e) ELSE Accessed' = Accessed
  BY IdleAccesses
<1>f. UNCHANGED <<trace, first_iter>> => (cache_policy = "min" => HookInTime' /\ Follows')
  BY <1>u, OracleFrame DEF Open
<1>1. ASSUME UsePassed(e, t.is_precise), UNCHANGED <<cache_policy, trace, first_iter>>
      PROVE  MinInv' /\ Ascends
  <2>1. CASE t.is_precise
    <3>1. Accesses(e) /\ UsePassed(e, TRUE)
      BY <1>1, <1>i, <1>t, <2>1 DEF CopyTask
    <3> HIDE DEF e
    <3> QED BY <1>1, <1>a, <1>t, <3>1, AccessKeepsMin
  <2>2. CASE ~t.is_precise
    <3>1. UNCHANGED <<current_time, next_use_time_idx>> /\ Accessed' = Accessed
      BY <1>1, <1>i, <2>2 DEF UsePassed
    <3> QED BY <1>1, <1>a, <1>f, <1>u, <3>1, QuietKeepsMin
  <2> QED BY <2>1, <2>2
<1>2. CASE AccessOnHit(e, t.is_precise)
  BY <1>1, <1>2 DEF AccessOnHit
<1>3. ASSUME NEW q, AccessOnMiss(e, q, t.is_precise) PROVE MinInv' /\ Ascends
  BY <1>1, <1>3 DEF AccessOnMiss
<1>4. CASE /\ ~(prefetched_experts[e] = NoBuffer /\ prefetched_experts'[e] # NoBuffer)
           /\ ~(IsInCache(e) /\ HitOnSend(t)) /\ UNCHANGED policyVars
  <2>1. UNCHANGED <<cache_policy, trace, first_iter, next_use_time_idx, current_time>>
    BY <1>4 DEF policyVars, minVars
  <2>2. CASE ~t.is_precise
    BY <1>a, <1>f, <1>i, <1>u, <2>1, <2>2, QuietKeepsMin
  <2>3. CASE t.is_precise
    <3>1. ~IsInCache(e)
      BY <1>4, <2>3 DEF HitOnSend
    <3>2. prefetched_experts'[e] = NoBuffer
      BY <1>4, <3>1 DEF IsInCache
    <3>3. aborted' # "none"
      BY <1>a, <1>t, <3>1, <3>2, NoMissFails
    <3>4. Awaited' # {}
      <4>1. Open /\ e \in LayerExperts /\ e \notin Accessed
        BY <1>i, <2>3 DEF Accesses
      <4>2. hpc \in {"expert", "wait"}
        BY <4>1, AccessedInLayer DEF Open
      <4>3. idx \in idx .. Len(experts)
        BY <1>t, <4>2 DEF TypeInv, TypeOK, IndexInv
      <4> QED BY <1>u, <4>2, <4>3 DEF Awaited
    <3> QED BY <1>a, <1>f, <1>u, <2>1, <3>3, <3>4, QuietKeepsMin
  <2> QED BY <2>2, <2>3
<1> QED BY <1>2, <1>3, <1>4 DEF SendAccesses

LEMMA PreemptKeepsMin ==
  ASSUME StateInv, MinInv, aborted = "none", NEW e \in Expert, NEW behind, PreemptHits(e, behind),
         IF HitOnPreempt(e, behind) THEN Accesses(e) ELSE Accessed' = Accessed,
         UNCHANGED <<hpc, iter, layer, experts, idx>>
  PROVE  MinInv' /\ Ascends
<1>1. CASE HitOnPreempt(e, behind)
  <2>1. UsePassed(e, TRUE) /\ UNCHANGED <<cache_policy, trace, first_iter>> /\ Accesses(e)
    BY <1>1 DEF PreemptHits, AccessOnHit
  <2> QED BY <2>1, AccessKeepsMin
<1>2. CASE ~HitOnPreempt(e, behind)
  <2>1. /\ UNCHANGED <<cache_policy, trace, first_iter, next_use_time_idx, current_time>>
        /\ Accessed' = Accessed
    BY <1>2 DEF PreemptHits, policyVars, minVars
  <2>2. cache_policy = "min" => HookInTime' /\ Follows'
    BY <2>1, OracleFrame DEF Open
  <2> QED BY <2>1, <2>2, QuietKeepsMin
<1> QED BY <1>1, <1>2

LEMMA NextMin ==
  ASSUME StateInv, MinInv, [NextPolicies]_tracedVars
  PROVE  MinInv' /\ Ascends
<1>t. /\ TypeInv /\ BudgetInv /\ PlaceInv /\ squeue \in Seq(Kind) /\ experts \in Seq(ExpertIdx)
      /\ Len(experts) \in Nat /\ layer \in Layer
  BY DEF StateInv, TypeInv, TypeOK, Kind
<1>p. UNCHANGED policyVars =>
        UNCHANGED <<cache_policy, trace, first_iter, next_use_time_idx, current_time>>
  BY DEF policyVars, minVars
<1>q. ASSUME aborted = "none", Accessed' = Accessed,
             UNCHANGED <<cache_policy, trace, first_iter, next_use_time_idx, current_time, iter, layer>>,
             hpc' \notin {"start", "done"} => hpc \notin {"start", "done"},
             Open' => Open /\ ToSet(experts') = ToSet(experts)
      PROVE  MinInv' /\ Ascends
  BY <1>q, OracleFrame, QuietKeepsMin
<1>1. CASE NextPolicies /\ SchedPreemptExpert /\ PreemptHits(<<layer, experts[sidx]>>, BehindMiss(sidx))
  <2>1. <<layer, experts[sidx]>> \in Expert
    BY <1>1, <1>t DEF SchedPreemptExpert, TypeInv, TypeOK, Expert
  <2>2. IF HitOnPreempt(<<layer, experts[sidx]>>, BehindMiss(sidx))
          THEN Accesses(<<layer, experts[sidx]>>) ELSE Accessed' = Accessed
    BY <1>1, PreemptExpertAccesses
  <2>3. aborted = "none" /\ UNCHANGED <<hpc, iter, layer, experts, idx>>
    BY <1>1 DEF NextPolicies, SchedPreemptExpert
  <2> QED BY <1>1, <2>1, <2>2, <2>3, PreemptKeepsMin
<1>2. CASE NextPolicies /\ SchedPreemptOne /\ PreemptHits(HookExpert, FALSE)
  <2>1. HookExpert \in Expert
    <3>1. InQueue("PreemptOne")
      BY <1>2, <1>t, TakeInQueue DEF SchedPreemptOne
    <3> QED BY <3>1, <1>t DEF TypeInv, TypeOK, IndexInv, HookExpert, Expert
  <2>2. aborted = "none" /\ UNCHANGED <<hpc, iter, layer, experts, idx>>
    BY <1>2 DEF NextPolicies, SchedPreemptOne
  <2> QED BY <1>2, <2>1, <2>2, PreemptOneAccesses, PreemptKeepsMin
<1>3. CASE NextPolicies /\ SchedIdle /\ SendAccesses(NextJob)
  <2>1. Next
    BY <1>3 DEF NextPolicies, Next, Step, Scheduler
  <2> QED BY <1>3, <2>1, IdleKeepsMin
<1>4. CASE NextPolicies /\ HookStart /\ (cache_policy = "min" => Now \in Time) /\ UNCHANGED policyVars
  <2>1. /\ aborted = "none" /\ Next
        /\ hpc' = "layer" /\ UNCHANGED <<iter, layer>>
    BY <1>4 DEF NextPolicies, HookStart, Next, Step, Hook
  <2>2. Accessed' = Accessed
    BY <1>4, <2>1, HookKeepsAccessed
  <2>3. ASSUME cache_policy = "min" PROVE HookInTime' /\ Follows'
    <3>1. PICK n \in Nat : /\ Time = 0 .. (n * NumLayer - 1)
                           /\ first_iter + n <= MaxIter
                           /\ iter - first_iter \in 0 .. n
      BY <2>3 DEF MinInv, Oracle, HookInTime
    <3>n. NumLayer \in Nat \ {0} /\ iter - first_iter \in Nat
      BY <3>1, ConstantsAssumption
    <3>2. iter - first_iter < n
      <4> SUFFICES ASSUME iter - first_iter = n PROVE FALSE
        BY <3>1
      <4>1. Now = n * NumLayer + layer /\ layer \in Nat
        BY <1>t, <3>n DEF Now, Layer
      <4>2. n * NumLayer \in Nat
        BY <3>n
      <4>3. Now \notin 0 .. (n * NumLayer - 1)
        BY <4>1, <4>2
      <4> QED BY <1>4, <2>3, <3>1, <4>3
    <3>3. UNCHANGED <<trace, first_iter, iter>>
      BY <1>4, <1>p, <2>1
    <3>4. HookInTime'
      BY <3>1, <3>2, <3>3 DEF HookInTime, Time
    <3>5. Follows'
      BY <2>1 DEF Follows, Open
    <3> QED BY <3>4, <3>5
  <2> QED BY <1>4, <1>p, <2>1, <2>2, <2>3, QuietKeepsMin
<1>5. CASE NextPolicies /\ HookReportLayer /\ FollowsTrace /\ UNCHANGED policyVars
  <2>1. /\ aborted = "none" /\ Next /\ hpc = "layer"
        /\ hpc' = "expert" /\ UNCHANGED <<iter, layer>>
    BY <1>5 DEF NextPolicies, HookReportLayer, Next, Step, Hook
  <2>2. Accessed' = Accessed
    BY <1>5, <2>1, HookKeepsAccessed
  <2>3. ASSUME cache_policy = "min" PROVE HookInTime' /\ Follows'
    <3>1. PICK n \in Nat : /\ Time = 0 .. (n * NumLayer - 1)
                           /\ first_iter + n <= MaxIter
                           /\ iter - first_iter \in 0 .. n
                           /\ iter - first_iter < n
      BY <2>1, <2>3 DEF MinInv, Oracle, HookInTime
    <3>2. UNCHANGED <<trace, first_iter, iter, layer>>
      BY <1>5, <1>p, <2>1
    <3>3. HookInTime'
      BY <3>1, <3>2 DEF HookInTime, Time
    <3>4. Now' = Now
      BY <3>2 DEF Now
    <3>5. Follows'
      BY <1>5, <2>3, <3>2, <3>4 DEF Follows, FollowsTrace
    <3> QED BY <3>3, <3>5
  <2> QED BY <1>5, <1>p, <2>1, <2>2, <2>3, QuietKeepsMin
<1>6. CASE NextPolicies /\ (HookReportExpert \/ HookExpertDone) /\ UNCHANGED policyVars
  <2>1. /\ aborted = "none" /\ Next /\ hpc \in {"expert", "wait"}
        /\ UNCHANGED <<iter, layer, experts>>
    BY <1>6 DEF NextPolicies, HookReportExpert, HookExpertDone, Next, Step, Hook
  <2>2. Accessed' = Accessed
    BY <1>6, <2>1, HookKeepsAccessed
  <2> QED BY <1>6, <1>p, <1>q, <2>1, <2>2 DEF Open
<1>7. CASE NextPolicies /\ HookLayerDone /\ UNCHANGED policyVars
  <2>1. aborted = "none" /\ hpc' \notin {"expert", "wait"} /\ idx' = 1
    BY <1>7 DEF NextPolicies, HookLayerDone
  <2>2. Asked' = {} /\ Used' = {}
    BY <2>1 DEF Asked, Used
  <2>3. Accessed' = {}
    BY <2>2 DEF Accessed, AskedExperts
  <2> QED BY <1>7, <2>1, <2>3, LayerDoneKeepsMin
<1>8. CASE NextPolicies /\ SchedPreempt /\ UNCHANGED policyVars
  <2>1. /\ aborted = "none" /\ Next /\ UNCHANGED <<hpc, iter, layer>>
    BY <1>8 DEF NextPolicies, SchedPreempt, Next, Step, Scheduler
  <2>2. Accessed' = Accessed
    BY <1>8, <2>1, OthersKeepAccessed
  <2>3. ToSet(experts') = ToSet(experts)
    <3>1. CASE ReorderExperts
      <4>1. Reordering(experts') /\ DOMAIN experts' = 1 .. Len(experts)
        BY <1>8, <3>1 DEF SchedPreempt
      <4>2. {experts'[i] : i \in 1 .. Len(experts')} = {experts[i] : i \in 1 .. Len(experts)}
        BY <1>t, <4>1, ReorderedSame
      <4>3. Len(experts') = Len(experts)
        BY <1>t, <4>1, ReorderedDistinct DEF PlaceInv
      <4>4. ToSet(experts) = {experts[i] : i \in 1 .. Len(experts)}
        BY <1>t DEF ToSet
      <4>5. ToSet(experts') = {experts'[i] : i \in 1 .. Len(experts')}
        BY <4>1, <4>3 DEF ToSet
      <4> QED BY <4>2, <4>4, <4>5
    <3>2. CASE ~ReorderExperts
      BY <1>8, <3>2 DEF SchedPreempt
    <3> QED BY <3>1, <3>2
  <2> QED BY <1>8, <1>p, <1>q, <2>1, <2>2, <2>3 DEF Open
<1>9. CASE /\ NextPolicies /\ UNCHANGED <<cache_policy, trace, first_iter, next_use_time_idx, current_time>>
           /\ SchedPreemptEnd \/ SchedPrefetchLayer \/ SchedFetchDone
              \/ SchedIdleAgain \/ Fetcher \/ StreamStep \/ Unlock \/ Predictor
  <2>1. /\ aborted = "none" /\ Next
    BY <1>9 DEF NextPolicies, Next, Step, Scheduler
  <2>2. Accessed' = Accessed
    BY <1>9, <2>1, OthersKeepAccessed
  <2>3. UNCHANGED <<hpc, iter, layer, experts>>
    BY <1>9 DEF SchedPreemptEnd, SchedPrefetchLayer, SchedFetchDone, SchedIdleAgain, Fetcher,
       FetchStart, FetchEnd, StreamStep, Unlock, Predictor, PredictStart, PredictLayer, PredictLayerDone
  <2> QED BY <1>9, <1>q, <2>1, <2>2, <2>3 DEF Open
<1>10. CASE SetCurSeq
  BY <1>10, SetCurSeqKeepsMin
<1>11. CASE UNCHANGED vars /\ UNCHANGED <<cache_policy, trace, first_iter, next_use_time_idx, current_time>>
  <2>1. UNCHANGED <<hpc, iter, layer, experts, idx, aborted>> /\ Awaited' = Awaited
    BY <1>11 DEF vars, Awaited
  <2>2. Accessed' = Accessed
    BY <1>11 DEF vars, Accessed, Used, AskedExperts, Asked, Wanted, InQueue
  <2>3. cache_policy = "min" => HookInTime' /\ Follows'
    BY <1>11, <2>1, OracleFrame DEF Open
  <2>4. Ascends
    BY <1>11 DEF MinInv, Ascends
  <2>5. cache_policy = "min" => Passed'
    BY <1>11, <2>1, UsesKept DEF MinInv, Oracle, Passed
  <2>6. ASSUME Counts PROVE Counts'
    BY <1>11, <2>1, <2>2, <2>6, UsesKept DEF Counts
  <2> QED BY <1>11, <2>1, <2>3, <2>4, <2>5, <2>6 DEF MinInv, Oracle
<1>12. BeginUpdate \/ EndPrediction \/ EndUpdate \/ PromoteHits =>
         UNCHANGED <<cache_policy, trace, first_iter, next_use_time_idx, current_time>>
  BY DEF BeginUpdate, EndPrediction, EndUpdate, PromoteHits, minVars
<1>13. EndUpdate => UNCHANGED vars
  BY DEF EndUpdate
<1>14. UNCHANGED tracedVars => UNCHANGED vars /\ UNCHANGED policyVars
  BY DEF tracedVars
<1> QED BY <1>p, <1>1, <1>2, <1>3, <1>4, <1>5, <1>6, <1>7, <1>8, <1>9, <1>10, <1>11, <1>12, <1>13,
        <1>14 DEF NextPolicies, Predictor

-----------------------------------------------------------------------------
LEMMA PoliciesState == SpecPolicies => []StateInv
<1>1. SpecPolicies => []BudgetInv
  BY PoliciesTyped, InitBudget, NextBudget, PoliciesRefine, PTL DEF SpecPolicies, InitPolicies
<1>2. SpecPolicies => []PlaceInv
  BY <1>1, PoliciesTyped, InitPins, NextPlace, PoliciesRefine, PTL DEF SpecPolicies, InitPolicies
<1>3. SpecPolicies => []PinInv
  BY <1>1, <1>2, PoliciesTyped, InitPins, NextPins, PoliciesRefine, PTL DEF SpecPolicies, InitPolicies
<1>4. SpecPolicies => []RunInv
  BY <1>1, PoliciesTyped, InitRun, NextRun, PoliciesRefine, PTL DEF SpecPolicies, InitPolicies
<1> QED BY <1>1, <1>2, <1>3, <1>4, PoliciesTyped, PoliciesPartition, PTL DEF StateInv

LEMMA InitMin == InitPolicies => StateInv /\ MinInv
<1> SUFFICES ASSUME InitPolicies PROVE StateInv /\ MinInv
  OBVIOUS
<1>1. StateInv
  BY InitTypeInv, InitPartitions, InitBudget, InitPins, InitRun DEF InitPolicies, StateInv
<1>2. /\ hpc = "start" /\ iter = 0 /\ layer = 0 /\ trace = << >> /\ first_iter = 0
      /\ next_use_time_idx = [e \in Expert |-> 0] /\ current_time = [s \in Slot |-> -1]
  BY DEF InitPolicies, Init
<1>n. NumLayer \in Nat \ {0} /\ MaxIter \in Nat
  BY ConstantsAssumption
<1>3. Time = {} /\ Now = 0 /\ ~Open
  BY <1>2, <1>n DEF Time, Now, Open
<1>4. HookInTime
  <2>1. 0 .. (0 * NumLayer - 1) = {} /\ 0 \in Nat /\ first_iter + 0 <= MaxIter /\ iter - first_iter \in 0 .. 0
    BY <1>2, <1>n
  <2> QED BY <1>2, <1>3, <2>1 DEF HookInTime
<1>5. Follows /\ Passed
  BY <1>2, <1>3 DEF Follows, Passed
<1>6. Counts
  <2>1. Accessed = {}
    BY <1>1, <1>3, AccessedInLayer
  <2>2. \A e \in Expert : UsesBefore(e) = {}
    BY <1>3 DEF UsesBefore, Uses
  <2>3. \A e \in Expert : next_use_time_idx[e] = 0
    BY <1>2
  <2>4. Cardinality({}) = 0
    BY FS_EmptySet
  <2> QED BY <2>1, <2>2, <2>3, <2>4 DEF Counts
<1> QED BY <1>1, <1>2, <1>4, <1>5, <1>6 DEF MinInv, Oracle

LEMMA MinKept == SpecPolicies => []MinInv
BY InitMin, NextMin, PoliciesState, PTL DEF SpecPolicies

(* When the hook is between two layers, each expert has been accessed precisely as often as   *)
(* it has been activated in the sequence: whether it was ready, promoted, queued or fetched   *)
(* again, one handler has told CachePolicyMIN, and only one.                                  *)
THEOREM OracleKeepsCount == SpecPolicies => []OneAccessPerActivation
<1>1. StateInv /\ MinInv => OneAccessPerActivation
  <2> SUFFICES ASSUME StateInv, MinInv, cache_policy = "min", Awaited = {}, hpc # "layer_done",
                      NEW e \in Expert
               PROVE  next_use_time_idx[e] = Cardinality({t \in Uses(e) : t < Now})
    BY DEF OneAccessPerActivation
  <2>1. ~Open
    <3>1. hpc \in {"expert", "wait"} => idx \in idx .. Len(experts)
      BY DEF StateInv, TypeInv, TypeOK, IndexInv
    <3> QED BY <3>1 DEF Awaited, Open
  <2>2. Accessed = {}
    BY <2>1, AccessedInLayer
  <2>3. next_use_time_idx[e] = Cardinality(UsesBefore(e)) + 0
    BY <2>2 DEF MinInv, Counts
  <2>4. Cardinality(UsesBefore(e)) \in Nat
    <3>1. IsFiniteSet(Time)
      BY NowKnown DEF MinInv, Oracle
    <3>2. UsesBefore(e) \in SUBSET Time
      BY DEF UsesBefore, Uses
    <3> QED BY <3>1, <3>2, FS_Subset, FS_CardinalityType
  <2> QED BY <2>3, <2>4 DEF UsesBefore
<1> QED BY <1>1, MinKept, PoliciesState, PTL

(* The use times a slot sees within a sequence never go back: an access is always for the     *)
(* layer the hook is in, so no CHECK on them fails.                                           *)
THEOREM OracleAscends == SpecPolicies => UseTimesAscend
<1>1. StateInv /\ MinInv /\ [NextPolicies]_tracedVars
        => [\A s \in Slot : current_time'[s] >= current_time[s] \/ current_time'[s] = -1]_tracedVars
  BY NextMin DEF Ascends
<1> QED BY <1>1, MinKept, PoliciesState, PTL DEF SpecPolicies, UseTimesAscend

-----------------------------------------------------------------------------
(* While the priorities are rewritten, the job that does it has not prefetched a layer yet.   *)
UpdatingInv ==
  updating => ppc = "ready" /\ pnext = 0 /\ pstop = NumLayer /\ predict_jobs = << >>

(* Then nothing is queued that the scheduler could send, and no handler preempts. *)
LEMMA UpdatingIdle ==
  ASSUME TypeInv, BudgetInv, NoPinLeak, OneJobInv, QueuesInv, UpdatingInv, updating
  PROVE  /\ ~Open /\ layer = 0 /\ prefetch_layer_progress = 0
         /\ precise_job_queue = << >> /\ \A l \in Layer : per_layer_job_queues[l] = << >>
         /\ spc = "ready" /\ ~InQueue("PreemptOne")
<1>n. /\ NumLayer \in Nat \ {0} /\ layer \in 0 .. (NumLayer - 1) /\ Layer = 0 .. (NumLayer - 1)
      /\ prefetch_layer_progress \in Nat
  BY ConstantsAssumption DEF TypeInv, TypeOK, Layer
<1>1. Ahead = 0 /\ ppc = "ready"
  BY DEF UpdatingInv, OneJobInv
<1>2. ~Open /\ layer = 0 /\ prefetch_layer_progress = 0
  BY <1>n, <1>1 DEF Ahead, Open
<1>3. \A l \in Layer : per_layer_job_queues[l] = << >>
  BY <1>n, <1>1 DEF QueuesInv
<1>4. precise_job_queue = << >>
  <2>1. Awaited = {}
    BY <1>2 DEF Awaited, Open
  <2>2. \A t \in Queued(precise_job_queue) : FALSE
    BY <2>1 DEF NoPinLeak
  <2>3. precise_job_queue \in Seq(CopyTask)
    BY DEF TypeInv, TypeOK
  <2>4. precise_job_queue # << >> => 1 \in 1 .. Len(precise_job_queue)
    BY <2>3
  <2> QED BY <2>2, <2>4 DEF Queued
<1>5. spc = "ready" /\ ~InQueue("PreemptOne")
  BY <1>2 DEF Open, BudgetInv, PreemptInv, TypeInv, TypeOK, IndexInv
<1> QED BY <1>2, <1>3, <1>4, <1>5

LEMMA NextUpdating ==
  ASSUME OneJobPerIteration, TypeInv, BudgetInv, NoPinLeak, OneJobInv, QueuesInv, UpdatingInv,
         [NextPolicies]_tracedVars
  PROVE  UpdatingInv' /\ (updating => UNCHANGED <<order, priority>>)
<1>n. NumLayer \in Nat \ {0}
  BY ConstantsAssumption
<1>1. CASE UNCHANGED tracedVars
  BY <1>1 DEF tracedVars, vars, policyVars, nnVars, UpdatingInv
<1>2. CASE NextPolicies
  <2>1. CASE PredictStart /\ (BeginUpdate \/ UNCHANGED policyVars)
    <3>1. predict_jobs = <<NumLayer>>
      BY <2>1 DEF PredictStart, OneJobInv
    <3>2. Head(predict_jobs) = NumLayer /\ Tail(predict_jobs) = << >>
      BY <3>1
    <3>3. predict_jobs' = << >> /\ pnext' = 0 /\ pstop' = NumLayer /\ ppc' = "ready"
      BY <2>1, <3>2 DEF PredictStart, OneJobPerIteration
    <3>4. ~updating
      BY <2>1, <1>n DEF PredictStart, UpdatingInv
    <3> QED BY <3>3, <3>4 DEF UpdatingInv
  <2>2. CASE ~updating /\ PredictLayer /\ RankExperts /\ UNCHANGED policyVars
    BY <2>2 DEF policyVars, nnVars, UpdatingInv
  <2>3. CASE PredictLayerDone /\ EndPrediction
    BY <2>3 DEF PredictLayerDone, EndPrediction, UpdatingInv
  <2>4. CASE SetCurSeq \/ EndUpdate
    BY <2>4 DEF SetCurSeq, EndUpdate, vars, nnVars, UpdatingInv
  <2>5. CASE HookStart /\ UNCHANGED policyVars
    <3>1. predict_jobs' = predict_jobs
      BY <2>5, <1>n DEF HookStart, JobsAfter, OneJobPerIteration
    <3> QED BY <2>5, <3>1 DEF HookStart, policyVars, nnVars, UpdatingInv
  <2>6. CASE HookLayerDone /\ UNCHANGED policyVars
    <3>1. ~updating
      BY <2>6, UpdatingIdle DEF HookLayerDone, Open
    <3> QED BY <2>6, <3>1 DEF policyVars, nnVars, UpdatingInv
  <2>7. CASE /\ \/ HookReportLayer \/ HookReportExpert \/ HookExpertDone
                \/ SchedPreempt \/ SchedPreemptEnd \/ SchedFetchDone
                \/ SchedIdleAgain \/ Fetcher \/ StreamStep \/ Unlock
             /\ UNCHANGED policyVars
    <3>1. UNCHANGED <<ppc, pnext, pstop, predict_jobs>>
      BY <2>7 DEF HookReportLayer, HookReportExpert, HookExpertDone, SchedPreempt, SchedPreemptEnd,
         SchedFetchDone, SchedIdleAgain, Fetcher, FetchStart, FetchEnd, StreamStep, Unlock
    <3> QED BY <2>7, <3>1 DEF policyVars, nnVars, UpdatingInv
  <2>8. CASE \/ SchedPreemptExpert /\ PreemptHits(<<layer, experts[sidx]>>, BehindMiss(sidx))
             \/ SchedPreemptOne /\ PreemptHits(HookExpert, FALSE)
             \/ SchedIdle /\ SendAccesses(NextJob)
    <3>1. ~updating
      <4> SUFFICES ASSUME updating PROVE FALSE
        OBVIOUS
      <4>1. /\ precise_job_queue = << >> /\ \A l \in Layer : per_layer_job_queues[l] = << >>
            /\ spc = "ready" /\ ~InQueue("PreemptOne")
        BY UpdatingIdle
      <4>2. CASE SchedPreemptExpert
        BY <4>1, <4>2 DEF SchedPreemptExpert
      <4>3. CASE SchedPreemptOne
        <5>1. squeue \in Seq(Kind) /\ squeue # << >> /\ Head(squeue) = "PreemptOne"
          BY <4>3 DEF SchedPreemptOne, Take, TypeInv, TypeOK, Kind
        <5>2. Len(squeue) \in Nat \ {0} /\ squeue[1] = "PreemptOne"
          BY <5>1, HeadTail
        <5>3. 1 \in 1 .. Len(squeue)
          BY <5>2
        <5> QED BY <4>1, <5>2, <5>3 DEF InQueue
      <4>4. CASE SchedIdle
        BY <4>1, <4>4 DEF SchedIdle, PopPrecise, PopLayer
      <4> QED BY <2>8, <4>2, <4>3, <4>4
    <3>2. updating' = updating
      <4>1. CASE UNCHANGED policyVars
        BY <4>1 DEF policyVars, nnVars
      <4>2. ASSUME NEW e, NEW is_precise, AccessOnHit(e, is_precise) PROVE updating' = updating
        BY <4>2 DEF AccessOnHit, Prioritised
      <4>3. ASSUME NEW e, NEW q, NEW is_precise, AccessOnMiss(e, q, is_precise) PROVE updating' = updating
        BY <4>3 DEF AccessOnMiss, Prioritised
      <4> QED BY <2>8, <4>1, <4>2, <4>3, Zenon DEF PreemptHits, SendAccesses
    <3> QED BY <3>1, <3>2 DEF UpdatingInv
  <2>9. CASE SchedPrefetchLayer /\ PromoteHits
    <3>1. ppc = "submitted"
      BY <2>9, PredictedTypes
    <3>2. ~updating /\ updating' = updating
      BY <2>9, <3>1 DEF UpdatingInv, PromoteHits, nnVars
    <3> QED BY <3>2 DEF UpdatingInv
  <2> QED BY <1>2, <2>1, <2>2, <2>3, <2>4, <2>5, <2>6, <2>7, <2>8, <2>9 DEF NextPolicies
<1> QED BY <1>1, <1>2

LEMMA InitUpdating == InitPolicies => UpdatingInv
BY DEF InitPolicies, UpdatingInv

LEMMA PoliciesUpdating ==
  ASSUME OneJobPerIteration
  PROVE  SpecPolicies => [](BudgetInv /\ QueuesInv /\ NoPinLeak /\ OneJobInv /\ UpdatingInv)
<1>1. SpecPolicies => []OneJobInv
  BY PoliciesTyped, InitOneJob, NextOneJob, PoliciesRefine, PTL DEF SpecPolicies, InitPolicies
<1>2. SpecPolicies => []BudgetInv
  BY PoliciesTyped, InitBudget, NextBudget, PoliciesRefine, PTL DEF SpecPolicies, InitPolicies
<1>3. SpecPolicies => []QueuesInv
  <2>1. OneJobInv => JobAhead
    BY DEF OneJobInv, JobAhead
  <2> QED BY <1>1, <1>2, <2>1, PoliciesTyped, InitQueues, NextQueues, PoliciesRefine, PTL
         DEF SpecPolicies, InitPolicies
<1>4. SpecPolicies => []NoPinLeak
  BY NoPinLeaks, PoliciesRefine, PTL DEF Spec, SpecPolicies, InitPolicies
<1>5. SpecPolicies => []UpdatingInv
  BY <1>1, <1>2, <1>3, <1>4, PoliciesTyped, InitUpdating, NextUpdating, PTL DEF SpecPolicies
<1> QED BY <1>1, <1>2, <1>3, <1>4, <1>5, PTL

(* When one job predicts a whole iteration, the priorities and the heaps of the slots, which  *)
(* no lock protects, are touched by nobody else while the predict worker rewrites them: what  *)
(* is left of the iteration before has been dropped with the layer it was for.                *)
THEOREM UpdatesAlone ==
  ASSUME OneJobPerIteration
  PROVE  SpecPolicies => UpdatesUndisturbed
<1>1. TypeInv /\ BudgetInv /\ NoPinLeak /\ OneJobInv /\ QueuesInv /\ UpdatingInv /\ [NextPolicies]_tracedVars
        => [updating => UNCHANGED <<order, priority>>]_tracedVars
  BY NextUpdating
<1> QED BY <1>1, PoliciesUpdating, PoliciesTyped, PTL DEF SpecPolicies, UpdatesUndisturbed

-----------------------------------------------------------------------------
(* The end of a list                                                                          *)

(* The experts behind e in a list. *)
Behind(q, e) == {q[j] : j \in {k \in 1 .. Len(q) : \E i \in 1 .. (k - 1) : q[i] = e}}

LEMMA BehindRemoved ==
  ASSUME NEW S, NEW q \in Seq(S), IsInjective(q), NEW v \in ToSet(q), NEW f
  PROVE  Behind(Removed(q, v), f) \subseteq Behind(q, f)
<1> DEFINE r == Removed(q, v)
           n == Len(q)
<1>n. n \in Nat
  OBVIOUS
<1>1. PICK i \in 1 .. n : /\ r \in Seq(S) /\ Len(r) = n - 1
                          /\ \A k \in 1 .. (n - 1) : r[k] = IF k < i THEN q[k] ELSE q[k + 1]
  BY RemovedAt
<1> HIDE DEF r, n
<1> SUFFICES ASSUME NEW k \in 1 .. Len(r), NEW j \in 1 .. (k - 1), r[j] = f
             PROVE  \E x \in 1 .. n : r[k] = q[x] /\ \E y \in 1 .. (x - 1) : q[y] = f
  BY DEF Behind, r, n
<1> DEFINE x == IF k < i THEN k ELSE k + 1
           y == IF j < i THEN j ELSE j + 1
<1>2. k \in 1 .. (n - 1) /\ j \in 1 .. (n - 1)
  BY <1>n, <1>1
<1>3. x \in 1 .. n /\ y \in 1 .. (x - 1)
  BY <1>n, <1>2
<1>4. r[k] = q[x] /\ r[j] = q[y]
  BY <1>1, <1>2
<1> HIDE DEF x, y
<1> QED BY <1>3, <1>4

LEMMA BehindAppended ==
  ASSUME NEW S, NEW q \in Seq(S), NEW e \in S, NEW f
  PROVE  /\ Behind(Append(q, e), f) \subseteq Behind(q, f) \cup {e}
         /\ e \notin ToSet(q) => Behind(Append(q, e), e) = {}
<1> DEFINE r == Append(q, e)
           n == Len(q)
<1>1. /\ n \in Nat /\ DOMAIN q = 1 .. n /\ r \in Seq(S) /\ Len(r) = n + 1
      /\ \A k \in 1 .. n : r[k] = q[k]
      /\ r[n + 1] = e
  BY Appended
<1> HIDE DEF r, n
<1>2. ASSUME NEW k \in 1 .. (n + 1), NEW j \in 1 .. (k - 1)
      PROVE  /\ r[j] = q[j] /\ j \in 1 .. n
             /\ k = n + 1 => r[k] = e
             /\ k # n + 1 => r[k] = q[k] /\ k \in 1 .. n
  <2>1. j \in 1 .. n /\ (k # n + 1 => k \in 1 .. n)
    BY <1>1
  <2> QED BY <1>1, <2>1
<1>3. Behind(r, f) \subseteq Behind(q, f) \cup {e}
  <2> SUFFICES ASSUME NEW k \in 1 .. (n + 1), NEW j \in 1 .. (k - 1), r[j] = f
               PROVE  r[k] \in Behind(q, f) \cup {e}
    BY <1>1 DEF Behind
  <2>1. CASE k = n + 1
    BY <1>2, <2>1
  <2>2. CASE k # n + 1
    <3>1. r[k] = q[k] /\ k \in 1 .. n /\ q[j] = f
      BY <1>2, <2>2
    <3> QED BY <3>1 DEF Behind, n
  <2> QED BY <2>1, <2>2
<1>4. ASSUME e \notin ToSet(q) PROVE Behind(r, e) = {}
  <2> SUFFICES ASSUME NEW k \in 1 .. (n + 1), NEW j \in 1 .. (k - 1), r[j] = e PROVE FALSE
    BY <1>1 DEF Behind
  <2>1. q[j] = e /\ j \in DOMAIN q
    BY <1>1, <1>2
  <2> QED BY <1>4, <2>1 DEF ToSet
<1> QED BY <1>3, <1>4 DEF r

(* A series of hits brings none but the experts that are hit behind another one. *)
LEMMA BehindPromoted ==
  ASSUME NEW S, NEW q \in Seq(S), NEW es \in Seq(S), NEW r \in Promoted(q, es), NEW f
  PROVE  Behind(r, f) \subseteq Behind(q, f) \cup ToSet(es)
<1> DEFINE n == Len(q)
           s == q \o es
<1>1. /\ n \in Nat /\ Len(es) \in Nat /\ DOMAIN q = 1 .. n /\ DOMAIN es = 1 .. Len(es)
      /\ Len(s) = n + Len(es)
      /\ \A k \in 1 .. Len(s) : s[k] = IF k <= n THEN q[k] ELSE es[k - n]
  BY ConcatProperties
<1>2. /\ r \in Seq(S) /\ Len(r) = n /\ ToSet(r) = ToSet(q)
      /\ \A i, j \in 1 .. n : i < j => AccessedAfter(s, r[j], r[i])
  BY PromotedLists
<1> HIDE DEF n, s
<1> SUFFICES ASSUME NEW k \in 1 .. n, NEW j \in 1 .. (k - 1), r[j] = f, r[k] \notin ToSet(es)
             PROVE  r[k] \in Behind(q, f)
  BY <1>2 DEF Behind
<1>3. j \in 1 .. n /\ j < k
  BY <1>1
<1>4. PICK i \in 1 .. Len(s) : s[i] = r[k] /\ \A x \in i .. Len(s) : s[x] # f
  BY <1>2, <1>3 DEF AccessedAfter
<1>5. i <= n
  <2> SUFFICES ASSUME ~(i <= n) PROVE FALSE
    OBVIOUS
  <2>1. i - n \in 1 .. Len(es) /\ r[k] = es[i - n]
    BY <1>1, <1>4
  <2> QED BY <1>1, <2>1 DEF ToSet
<1>6. i \in 1 .. n /\ q[i] = r[k]
  BY <1>1, <1>4, <1>5
<1>7. PICK y \in 1 .. n : q[y] = f
  <2>1. f \in ToSet(r)
    BY <1>2, <1>3 DEF ToSet
  <2> QED BY <1>1, <1>2, <2>1 DEF ToSet
<1>8. y < i
  <2> SUFFICES ASSUME i <= y PROVE FALSE
    BY <1>1
  <2>1. y \in i .. Len(s) /\ s[y] = q[y]
    BY <1>1
  <2> QED BY <1>4, <1>7, <2>1
<1>9. y \in 1 .. (i - 1)
  BY <1>1, <1>8
<1>10. Behind(q, f) = {q[x] : x \in {z \in 1 .. n : \E w \in 1 .. (z - 1) : q[w] = f}}
  BY DEF Behind, n
<1> QED BY <1>6, <1>7, <1>9, <1>10

(* Everything is behind the first of a list. *)
LEMMA BehindFirst ==
  ASSUME NEW S, NEW q \in Seq(S), q # << >>
  PROVE  ToSet(q) \subseteq {Head(q)} \cup Behind(q, Head(q))
<1>1. Len(q) \in Nat \ {0} /\ DOMAIN q = 1 .. Len(q) /\ Head(q) = q[1]
  OBVIOUS
<1> SUFFICES ASSUME NEW k \in 1 .. Len(q), k # 1 PROVE q[k] \in Behind(q, q[1])
  BY <1>1 DEF ToSet
<1>2. 1 \in 1 .. (k - 1)
  BY <1>1
<1> QED BY <1>2 DEF Behind

(* The largest value of a bounded function. *)
LEMMA MaxBounds ==
  ASSUME NEW D, NEW pr \in [D -> Nat], NEW m \in Nat, \A d \in D : pr[d] <= m, NEW e \in D
  PROVE  Max(Range(pr)) \in Nat /\ pr[e] <= Max(Range(pr))
<1> DEFINE B == {n \in Nat : \A d \in D : pr[d] <= n}
           A == Range(pr)
<1>1. m \in B
  OBVIOUS
<1>2. PICK n \in B : \A x \in B : n <= x
  <2> HIDE DEF B
  <2> QED BY <1>1, LeastElement DEF B
<1>3. \E d \in D : pr[d] = n
  <2> SUFFICES ASSUME \A d \in D : pr[d] # n PROVE FALSE
    OBVIOUS
  <2>1. \A d \in D : pr[d] <= n - 1
    OBVIOUS
  <2>2. n - 1 \in Nat
    BY <2>1
  <2>3. n - 1 \in B
    BY <2>1, <2>2
  <2> QED BY <1>2, <2>3
<1>4. n \in A /\ \A x \in A : n >= x
  BY <1>2, <1>3 DEF Range
<1>5. Max(A) \in A /\ \A x \in A : Max(A) >= x
  BY <1>4 DEF Max
<1>6. pr[e] \in A /\ A \subseteq Nat
  BY DEF Range
<1> HIDE DEF A
<1>7. pr[e] <= Max(A)
  BY <1>5, <1>6
<1> QED BY <1>5, <1>6, <1>7 DEF A

-----------------------------------------------------------------------------
(* Every buffer that is not among the unused ones belongs to an expert. *)
BuffersOwned ==
  \A s \in Slot : \A k \in (unused_mems[s] + 1) .. SlotLen[s] : \E e \in Expert : gpu_data[e] = <<s, k>>

LEMMA SendOwns ==
  ASSUME TypeInv, BuffersPartitioned, BuffersOwned, NEW t \in CopyTask, SendOneJob(t)
  PROVE  BuffersOwned'
<1> DEFINE e == t.expert
<1>e. e \in Expert /\ SlotOf(e) \in Slot
  BY SlotOfType DEF CopyTask
<1>t. /\ gpu_data \in [Expert -> Buffer \cup {NoBuffer}] /\ unused_mems \in [Slot -> Nat]
      /\ SlotLen \in [Slot -> Nat \ {0}]
  BY ConstantsAssumption DEF TypeInv, TypeOK
<1> HIDE DEF e
<1>1. CASE UNCHANGED cacheVars
  BY <1>1 DEF BuffersOwned
<1>2. CASE gpu_data[e] = NoBuffer /\ TakeUnused(e)
  <2> DEFINE s0 == SlotOf(e)
             u == unused_mems[s0]
  <2>1. /\ u \in Nat \ {0} /\ unused_mems' = [unused_mems EXCEPT ![s0] = u - 1]
        /\ gpu_data' = [gpu_data EXCEPT ![e] = <<s0, u>>]
    BY <1>2, <1>e, <1>t DEF TakeUnused, Popped
  <2> HIDE DEF s0, u
  <2> SUFFICES ASSUME NEW s \in Slot, NEW k \in (unused_mems'[s] + 1) .. SlotLen[s]
               PROVE  \E f \in Expert : gpu_data'[f] = <<s, k>>
    BY DEF BuffersOwned
  <2>n. SlotLen[s] \in Nat /\ unused_mems[s] \in Nat /\ s0 \in Slot
    BY <1>t, <1>e DEF s0
  <2>2. CASE s = s0 /\ k = u
    <3>1. gpu_data'[e] = <<s, k>>
      BY <1>e, <1>t, <2>1, <2>2
    <3> QED BY <1>e, <3>1
  <2>3. CASE ~(s = s0 /\ k = u)
    <3>1. k \in (unused_mems[s] + 1) .. SlotLen[s]
      <4>1. s = s0 => unused_mems'[s] = u - 1 /\ unused_mems[s] = u
        BY <1>t, <2>1, <2>n DEF u
      <4>2. s # s0 => unused_mems'[s] = unused_mems[s]
        BY <1>t, <2>1, <2>n
      <4> QED BY <2>1, <2>3, <2>n, <4>1, <4>2
    <3>2. PICK f \in Expert : gpu_data[f] = <<s, k>>
      BY <3>1 DEF BuffersOwned
    <3>3. <<s, k>> # NoBuffer
      <4>1. k \in 1 .. SlotLen[s]
        BY <2>n, <3>1
      <4>2. <<s, k>> \in Buffer
        BY <4>1 DEF Buffer
      <4> QED BY <4>2, ConstantsAssumption
    <3>4. f # e
      BY <1>2, <3>2, <3>3
    <3> QED BY <1>t, <2>1, <3>2, <3>4
  <2> QED BY <2>2, <2>3
<1>3. ASSUME gpu_data[e] = NoBuffer, NEW v \in InSlot(e), Evict(e, v) PROVE BuffersOwned'
  <2>1. /\ v \in Expert /\ v # e /\ unused_mems' = unused_mems
        /\ gpu_data' = [gpu_data EXCEPT ![v] = NoBuffer, ![e] = gpu_data[v]]
    BY <1>3 DEF InSlot, IsInCache, BuffersPartitioned, Evict
  <2>2. /\ gpu_data'[e] = gpu_data[v]
        /\ \A f \in Expert : f # e /\ f # v => gpu_data'[f] = gpu_data[f]
    BY <1>e, <1>t, <2>1
  <2> SUFFICES ASSUME NEW s \in Slot, NEW k \in (unused_mems[s] + 1) .. SlotLen[s]
               PROVE  \E f \in Expert : gpu_data'[f] = <<s, k>>
    BY <2>1 DEF BuffersOwned
  <2>3. PICK f \in Expert : gpu_data[f] = <<s, k>>
    BY DEF BuffersOwned
  <2>4. <<s, k>> # NoBuffer
    <3>1. SlotLen[s] \in Nat /\ unused_mems[s] \in Nat
      BY <1>t
    <3>2. k \in 1 .. SlotLen[s]
      BY <3>1
    <3>3. <<s, k>> \in Buffer
      BY <3>2 DEF Buffer
    <3> QED BY <3>3, ConstantsAssumption
  <2>5. f # e
    BY <1>3, <2>3, <2>4
  <2>6. CASE f = v
    BY <1>e, <2>2, <2>3, <2>6
  <2>7. CASE f # v
    BY <2>2, <2>3, <2>5, <2>7
  <2> QED BY <2>6, <2>7
<1> QED BY <1>1, <1>2, <1>3 DEF SendOneJob, SendMissed, SendDuplicate, SendRest, e

LEMMA NextOwns == TypeInv /\ BuffersPartitioned /\ BuffersOwned /\ [Next]_vars => BuffersOwned'
<1> SUFFICES ASSUME TypeInv, BuffersPartitioned, BuffersOwned, [Next]_vars PROVE BuffersOwned'
  OBVIOUS
<1>1. CASE SchedIdle
  BY <1>1, IdleSends, SendOwns
<1>2. CASE UNCHANGED <<gpu_data, unused_mems>>
  BY <1>2 DEF BuffersOwned
<1>3. Step => SchedIdle \/ UNCHANGED <<gpu_data, unused_mems>>
  <2>1. Hook => UNCHANGED <<gpu_data, unused_mems>>
    BY DEF Hook, HookStart, HookReportLayer, HookReportExpert, HookExpertDone, HookLayerDone
  <2>2. Scheduler => SchedIdle \/ UNCHANGED <<gpu_data, unused_mems>>
    BY DEF Scheduler, SchedPreempt, SchedPreemptExpert, SchedPreemptEnd, SchedPreemptOne,
       SchedPrefetchLayer, SchedFetchDone, SchedIdleAgain
  <2>3. Fetcher \/ StreamStep \/ Unlock \/ Predictor => UNCHANGED <<gpu_data, unused_mems>>
    BY DEF Fetcher, FetchStart, FetchEnd, StreamStep, Unlock, Predictor, PredictStart,
       PredictLayer, PredictLayerDone
  <2> QED BY <2>1, <2>2, <2>3 DEF Step
<1>4. UNCHANGED vars => UNCHANGED <<gpu_data, unused_mems>>
  BY DEF vars
<1> QED BY <1>1, <1>2, <1>3, <1>4 DEF Next

LEMMA InitOwns == Init => BuffersOwned
<1> SUFFICES ASSUME Init, NEW s \in Slot, NEW k \in (unused_mems[s] + 1) .. SlotLen[s] PROVE FALSE
  BY DEF BuffersOwned
<1>1. unused_mems[s] = SlotLen[s] /\ SlotLen[s] \in Nat
  BY ConstantsAssumption DEF Init
<1> QED BY <1>1

-----------------------------------------------------------------------------
(* How many experts the gate activates and the predictor ranks for a layer. *)
SizesInv ==
  /\ Len(experts) <= MaxActive
  /\ ppc = "submitted" => Len(pexperts) <= NumPredict[pnext]

LEMMA RankedLen == ASSUME NEW n \in Nat, NEW s \in Ranked(n) PROVE Len(s) = n
BY DEF Ranked

LEMMA NextSizes == TypeInv /\ SizesInv /\ [Next]_vars => SizesInv'
<1> SUFFICES ASSUME TypeInv, SizesInv, [Next]_vars PROVE SizesInv'
  OBVIOUS
<1>n. MaxActive \in Nat /\ NumPredict \in [Layer -> Nat] /\ NumLayer \in Nat \ {0}
  BY ConstantsAssumption
<1>0. Len(<< >>) = 0
  OBVIOUS
<1>h. \/ UNCHANGED <<experts, ppc, pnext, pexperts>>
      \/ HookReportLayer \/ HookLayerDone \/ SchedPreempt \/ PredictStart \/ PredictLayer \/ PredictLayerDone
  BY DEF Next, Step, Hook, HookStart, HookReportExpert, HookExpertDone, Scheduler, SchedPreemptExpert,
     SchedPreemptEnd, SchedPreemptOne, SchedPrefetchLayer, SchedFetchDone, SchedIdle, SchedIdleAgain,
     Fetcher, FetchStart, FetchEnd, StreamStep, Unlock, Predictor, vars
<1>1. CASE UNCHANGED <<experts, ppc, pnext, pexperts>>
  BY <1>1 DEF SizesInv
<1>2. CASE HookReportLayer
  <2>1. experts' \in Activations /\ UNCHANGED <<ppc, pnext, pexperts>>
    BY <1>2 DEF HookReportLayer
  <2>2. PICK n \in 1 .. MaxActive : experts' \in Ranked(n)
    BY <2>1 DEF Activations
  <2>3. Len(experts') = n
    BY <1>n, <2>2, RankedLen
  <2> QED BY <1>n, <2>1, <2>3 DEF SizesInv
<1>3. CASE HookLayerDone
  BY <1>3, <1>n, <1>0 DEF HookLayerDone, SizesInv
<1>4. CASE SchedPreempt
  <2>1. UNCHANGED <<ppc, pnext, pexperts>>
    BY <1>4 DEF SchedPreempt
  <2>2. experts' = experts \/ experts' \in [1 .. Len(experts) -> ExpertIdx]
    BY <1>4 DEF SchedPreempt
  <2>3. Len(experts) \in Nat
    BY DEF TypeInv, TypeOK
  <2>4. Len(experts') = Len(experts)
    BY <2>2, <2>3
  <2> QED BY <2>1, <2>4 DEF SizesInv
<1>5. CASE PredictStart
  BY <1>5 DEF PredictStart, SizesInv
<1>6. CASE PredictLayer
  <2>1. experts' = experts /\ pnext' = pnext /\ pexperts' \in Predictions(pnext) /\ pnext \in Layer
    BY <1>6, <1>n DEF PredictLayer, TypeInv, TypeOK, Layer
  <2>2. NumPredict[pnext] \in Nat
    BY <1>n, <2>1
  <2>3. Len(pexperts') <= NumPredict[pnext]
    BY <1>0, <2>1, <2>2, RankedLen DEF Predictions
  <2> QED BY <2>1, <2>3 DEF SizesInv
<1>7. CASE PredictLayerDone
  BY <1>7 DEF PredictLayerDone, SizesInv
<1> QED BY <1>h, <1>1, <1>2, <1>3, <1>4, <1>5, <1>6, <1>7

LEMMA InitSizes == Init => SizesInv
BY ConstantsAssumption DEF Init, SizesInv

-----------------------------------------------------------------------------
(* The priorities of CachePolicyNN have a largest one. *)
PriorityInv ==
  /\ cache_policy \in Policies
  /\ priority \in [Expert -> Nat] /\ \E m \in Nat : \A e \in Expert : priority[e] <= m

LEMMA MaxPriority ==
  ASSUME PriorityInv, NEW e \in Expert
  PROVE  max_priority \in Nat /\ priority[e] <= max_priority /\ priority[e] \in Nat
BY MaxBounds DEF PriorityInv, max_priority

LEMMA PrecisePriority ==
  ASSUME PriorityInv, NEW e \in Expert, NEW precise, Prioritised(e, precise), cache_policy' = cache_policy
  PROVE  PriorityInv'
<1>1. CASE priority' = priority
  BY <1>1 DEF PriorityInv
<1>2. CASE priority' = [priority EXCEPT ![e] = NextPriority]
  <2>1. max_priority \in Nat /\ \A f \in Expert : priority[f] \in Nat /\ priority[f] <= max_priority
    BY MaxPriority
  <2>2. NextPriority \in Nat /\ NextPriority <= max_priority + 1
    <3> HIDE DEF max_priority
    <3> QED BY <2>1 DEF NextPriority
  <2> DEFINE m == max_priority
             n == NextPriority
  <2> HIDE DEF m, n
  <2>3. m \in Nat /\ n \in Nat /\ n <= m + 1 /\ \A f \in Expert : priority[f] \in Nat /\ priority[f] <= m
    BY <2>1, <2>2 DEF m, n
  <2>4. priority' = [priority EXCEPT ![e] = n]
    BY <1>2 DEF n
  <2>5. priority' \in [Expert -> Nat] /\ \A f \in Expert : priority'[f] <= m + 1
    BY <2>3, <2>4 DEF PriorityInv
  <2>6. m + 1 \in Nat
    BY <2>3
  <2> QED BY <2>5, <2>6 DEF PriorityInv
<1> QED BY <1>1, <1>2 DEF Prioritised

LEMMA NextPriorities ==
  ASSUME TypeInv, PriorityInv, [NextPolicies]_tracedVars
  PROVE  PriorityInv'
<1>f. ASSUME UNCHANGED <<cache_policy, priority>> PROVE PriorityInv'
  BY <1>f DEF PriorityInv
<1>p. UNCHANGED policyVars => UNCHANGED <<cache_policy, priority>>
  BY DEF policyVars, nnVars
<1>h. ASSUME NEW e \in Expert, NEW precise, AccessOnHit(e, precise) PROVE PriorityInv'
  BY <1>h, PrecisePriority DEF AccessOnHit
<1>m. ASSUME NEW e \in Expert, NEW q, NEW precise, AccessOnMiss(e, q, precise) PROVE PriorityInv'
  BY <1>m, PrecisePriority DEF AccessOnMiss
<1>1. CASE SchedPreemptExpert /\ PreemptHits(<<layer, experts[sidx]>>, BehindMiss(sidx))
  <2>1. <<layer, experts[sidx]>> \in Expert
    BY <1>1 DEF SchedPreemptExpert, TypeInv, TypeOK, IndexInv, Expert
  <2> QED BY <1>1, <1>f, <1>p, <1>h, <2>1 DEF PreemptHits
<1>2. CASE SchedPreemptOne /\ PreemptHits(HookExpert, FALSE)
  <2>1. HookExpert \in Expert
    <3>1. InQueue("PreemptOne")
      BY <1>2, TakeInQueue DEF TypeInv, TypeOK, Kind, SchedPreemptOne
    <3> QED BY <3>1 DEF TypeInv, TypeOK, IndexInv, HookExpert, Expert
  <2> QED BY <1>2, <1>f, <1>p, <1>h, <2>1 DEF PreemptHits
<1>3. CASE SchedIdle /\ SendAccesses(NextJob)
  <2>1. NextJob.expert \in Expert
    BY <1>3, IdleSends DEF CopyTask
  <2> QED BY <1>3, <1>f, <1>p, <1>h, <1>m, <2>1 DEF SendAccesses
<1>4. CASE SetCurSeq \/ EndUpdate
  BY <1>4, <1>f DEF SetCurSeq, EndUpdate, nnVars
<1>5. CASE UNCHANGED tracedVars
  BY <1>5, <1>f, <1>p DEF tracedVars
<1>6. CASE PredictStart /\ BeginUpdate
  <2> DEFINE D == (pnext' .. (pstop' - 1)) \X ExpertIdx
  <2>1. /\ cache_policy' = cache_policy /\ prob' \in [D -> 0 .. MaxProb]
        /\ priority' = [e \in Expert |-> IF e \in DOMAIN prob' THEN prob'[e] ELSE priority[e]]
    BY <1>6 DEF BeginUpdate
  <2>2. PICK m \in Nat : \A e \in Expert : priority[e] <= m
    BY DEF PriorityInv
  <2> HIDE DEF D
  <2>3. \A e \in Expert : priority'[e] = IF e \in D THEN prob'[e] ELSE priority[e]
    BY <2>1
  <2>4. \A e \in Expert : priority'[e] \in Nat /\ priority'[e] <= m + MaxProb
    <3> SUFFICES ASSUME NEW e \in Expert PROVE priority'[e] \in Nat /\ priority'[e] <= m + MaxProb
      OBVIOUS
    <3>1. priority[e] \in Nat /\ priority[e] <= m /\ MaxProb \in Nat
      BY <2>2, PoliciesAssumption DEF PriorityInv
    <3>2. e \in D => prob'[e] \in 0 .. MaxProb
      BY <2>1
    <3> QED BY <2>2, <2>3, <3>1, <3>2
  <2>5. m + MaxProb \in Nat
    BY <2>2, PoliciesAssumption
  <2>6. priority' \in [Expert -> Nat]
    BY <2>1, <2>4
  <2> QED BY <2>1, <2>4, <2>5, <2>6 DEF PriorityInv
<1>7. CASE EndPrediction \/ PromoteHits \/ UNCHANGED policyVars
  BY <1>7, <1>f, <1>p DEF EndPrediction, PromoteHits, nnVars
<1> QED BY <1>1, <1>2, <1>3, <1>4, <1>5, <1>6, <1>7 DEF NextPolicies

LEMMA InitPriorities == InitPolicies => PriorityInv
BY DEF InitPolicies, PriorityInv

-----------------------------------------------------------------------------
(* The scheduler has queued, or may have queued, the predicted experts of layer l for the     *)
(* iteration the hook is in.                                                                  *)
InWindow(l) == l < Ahead \/ (l = Ahead /\ ppc = "submitted" /\ ~InQueue("Prefetch"))

QueuedOf(l) == {per_layer_job_queues[l][i].expert : i \in 1 .. Len(per_layer_job_queues[l])}

Predicted(l, x) == x \subseteq {l} \X ExpertIdx /\ IsFiniteSet(x) /\ Cardinality(x) <= NumPredict[l]

(* p has the experts that have been predicted for the layers of the window. *)
AsPredicted(p) ==
  \A l \in Layer : /\ Predicted(l, p[l]) /\ QueuedOf(l) \subseteq p[l]
                   /\ p[l] # {} => InWindow(l)

LEMMA WindowGrows ==
  ASSUME TypeInv, UniquePrefetch, Next, ~HookLayerDone, NEW l \in Layer, InWindow(l)
  PROVE  InWindow(l)'
<1>n. Ahead \in Nat /\ l \in Nat
  BY ConstantsAssumption DEF Ahead, TypeInv, TypeOK, Layer
<1>1. CASE PredictLayer
  <2>1. ppc = "ready" /\ UNCHANGED <<layer, hpc, prefetch_layer_progress>>
    BY <1>1 DEF PredictLayer
  <2> QED BY <2>1 DEF InWindow, Ahead
<1>2. CASE PredictLayerDone
  <2>1. prefetch_layer_progress' = prefetch_layer_progress + 1 /\ UNCHANGED <<layer, hpc>>
    BY <1>2 DEF PredictLayerDone
  <2>2. Ahead' = Ahead + 1
    BY <2>1 DEF Ahead, TypeInv, TypeOK, Layer
  <2> QED BY <1>n, <2>2 DEF InWindow
<1>3. CASE ~PredictLayer /\ ~PredictLayerDone
  <2>1. ppc' = ppc
    BY <1>3 DEF Next, Step, Hook, HookStart, HookReportLayer, HookReportExpert, HookExpertDone,
       HookLayerDone, Scheduler, SchedPreempt, SchedPreemptExpert,
       SchedPreemptEnd, SchedPreemptOne, SchedPrefetchLayer, SchedFetchDone, SchedIdle, SchedIdleAgain,
       Fetcher, FetchStart, FetchEnd, StreamStep, Unlock, Predictor, PredictStart
  <2>2. Ahead' = Ahead
    <3>1. CASE HookReportLayer
      <4>1. /\ hpc = "layer" /\ hpc' = "expert" /\ layer' = layer
            /\ prefetch_layer_progress' = prefetch_layer_progress - 1
        BY <3>1 DEF HookReportLayer
      <4> QED BY <4>1 DEF Ahead, TypeInv, TypeOK, Layer
    <3>2. CASE HookStart \/ HookReportExpert \/ HookExpertDone
      BY <3>2 DEF HookStart, HookReportExpert, HookExpertDone, Ahead
    <3>3. CASE ~HookReportLayer /\ ~HookStart /\ ~HookReportExpert /\ ~HookExpertDone
      <4>1. UNCHANGED <<hpc, layer, prefetch_layer_progress>>
        BY <1>3, <3>3 DEF Next, Step, Hook, Scheduler, SchedPreempt, SchedPreemptExpert,
           SchedPreemptEnd, SchedPreemptOne, SchedPrefetchLayer, SchedFetchDone, SchedIdle, SchedIdleAgain,
           Fetcher, FetchStart, FetchEnd, StreamStep, Unlock, Predictor, PredictStart
      <4> QED BY <4>1 DEF Ahead
    <3> QED BY <3>1, <3>2, <3>3
  <2>3. InQueue("Prefetch")' => InQueue("Prefetch")
    BY <1>3, PrefetchFewer DEF FewerPrefetch
  <2> QED BY <2>1, <2>2, <2>3 DEF InWindow
<1> QED BY <1>1, <1>2, <1>3

(* Only PrefetchLayerTask adds to the queue of a layer. *)
LEMMA QueuedShrinks ==
  ASSUME TypeInv, Next, ~SchedPrefetchLayer, NEW l \in Layer
  PROVE  QueuedOf(l)' \subseteq QueuedOf(l)
<1>t. per_layer_job_queues \in [Layer -> Seq(CopyTask)] /\ layer \in Layer
  BY DEF TypeInv, TypeOK
<1>1. CASE per_layer_job_queues' = per_layer_job_queues
  BY <1>1 DEF QueuedOf
<1>2. CASE per_layer_job_queues' = Cleared
  <2>1. per_layer_job_queues'[l] = per_layer_job_queues[l] \/ per_layer_job_queues'[l] = << >>
    BY <1>2, <1>t DEF Cleared
  <2>2. Len(<< >>) = 0
    OBVIOUS
  <2> QED BY <2>1, <2>2 DEF QueuedOf
<1>3. ASSUME NEW k \in Layer, PopLayer(k) PROVE QueuedOf(l)' \subseteq QueuedOf(l)
  <2>1. CASE k = l
    <3> DEFINE q == per_layer_job_queues[l]
    <3>1. q # << >> /\ per_layer_job_queues'[l] = Tail(q)
      BY <1>3, <1>t, <2>1 DEF PopLayer
    <3>2. \A a \in 1 .. Len(Tail(q)) : Tail(q)[a] = q[a + 1] /\ a + 1 \in 1 .. Len(q)
      BY <3>1, HeadLayer
    <3> HIDE DEF q
    <3>3. QueuedOf(l)' = {Tail(q)[a].expert : a \in 1 .. Len(Tail(q))}
      BY <3>1 DEF QueuedOf
    <3>4. QueuedOf(l) = {q[a].expert : a \in 1 .. Len(q)}
      BY DEF QueuedOf, q
    <3> QED BY <3>2, <3>3, <3>4
  <2>2. CASE k # l
    <3>1. per_layer_job_queues'[l] = per_layer_job_queues[l]
      BY <1>3, <1>t, <2>2 DEF PopLayer
    <3> QED BY <3>1 DEF QueuedOf
  <2> QED BY <2>1, <2>2
<1>4. \/ per_layer_job_queues' = per_layer_job_queues \/ per_layer_job_queues' = Cleared
      \/ \E k \in Layer : PopLayer(k)
  BY DEF Next, Step, Hook, HookStart, HookReportLayer, HookReportExpert, HookExpertDone,
     HookLayerDone, Scheduler, SchedPreempt, SchedPreemptExpert, SchedPreemptEnd, SchedPreemptOne,
     SchedFetchDone, SchedIdle, PopPrecise, SchedIdleAgain, Fetcher, FetchStart, FetchEnd, StreamStep, Unlock,
     Predictor, PredictStart, PredictLayer, PredictLayerDone
<1> QED BY <1>1, <1>2, <1>3, <1>4

(* PrefetchLayerTask queues the experts of the prediction. *)
LEMMA PrefetchedExperts ==
  ASSUME NEW l \in Layer, NEW es \in Seq(ExpertIdx), NEW i \in 1 .. Len(PrefetchTasks(l, es))
  PROVE  PrefetchTasks(l, es)[i].expert \in {<<l, es[k]>> : k \in 1 .. Len(es)}
<1>p. P \in Nat \ {0} /\ Len(es) \in Nat
  BY ConstantsAssumption DEF P
<1>1. CASE ChunkPrefetch
  <2> DEFINE task(k) == Task(<<l, es[((k - 1) \div P) + 1]>>, (k - 1) % P, ((k - 1) % P) + 1, FALSE)
             n == Len(es) * P
  <2>1. n \in Nat
    BY <1>p
  <2>2. PrefetchTasks(l, es) = [k \in 1 .. n |-> task(k)]
    BY <1>1 DEF PrefetchTasks
  <2>3. i \in 1 .. n /\ PrefetchTasks(l, es)[i] = task(i)
    <3> HIDE DEF n, task
    <3> QED BY <2>1, <2>2
  <2>4. (i - 1) \div P \in 0 .. (Len(es) - 1)
    BY <1>p, <2>3, DivMod
  <2>5. ((i - 1) \div P) + 1 \in 1 .. Len(es)
    <3> DEFINE d == (i - 1) \div P
    <3> HIDE DEF d
    <3>1. d \in 0 .. (Len(es) - 1)
      BY <2>4 DEF d
    <3>2. d + 1 \in 1 .. Len(es)
      BY <1>p, <3>1
    <3> QED BY <3>2 DEF d
  <2>6. PrefetchTasks(l, es)[i].expert = <<l, es[((i - 1) \div P) + 1]>>
    BY <2>3 DEF Task
  <2> QED BY <2>5, <2>6
<1>2. CASE ~ChunkPrefetch
  <2>1. PrefetchTasks(l, es) = [k \in 1 .. Len(es) |-> Task(<<l, es[k]>>, 0, P, FALSE)]
    BY <1>2 DEF PrefetchTasks
  <2>2. i \in 1 .. Len(es)
    BY <1>p, <2>1
  <2> QED BY <2>1, <2>2 DEF Task
<1> QED BY <1>1, <1>2

(* The experts of a prediction of n are not more than n. *)
LEMMA PredictionSize ==
  ASSUME NEW l \in Layer, NEW es \in Seq(ExpertIdx), NEW n \in Nat, Len(es) <= n
  PROVE  LET x == {<<l, es[k]>> : k \in 1 .. Len(es)}
         IN x \subseteq {l} \X ExpertIdx /\ IsFiniteSet(x) /\ Cardinality(x) <= n
<1> DEFINE x == {<<l, es[k]>> : k \in 1 .. Len(es)}
           f == [k \in 1 .. Len(es) |-> <<l, es[k]>>]
<1>1. Len(es) \in Nat
  OBVIOUS
<1>2. IsFiniteSet(1 .. Len(es)) /\ Cardinality(1 .. Len(es)) = Len(es)
  <2> DEFINE m == Len(es)
  <2>1. m \in Nat /\ m \in Int /\ 1 \in Int /\ (IF 1 > m THEN 0 ELSE m - 1 + 1) = m
    BY <1>1
  <2> HIDE DEF m
  <2>2. IsFiniteSet(1 .. m) /\ Cardinality(1 .. m) = IF 1 > m THEN 0 ELSE m - 1 + 1
    BY <2>1, FS_Interval
  <2> QED BY <2>1, <2>2 DEF m
<1>3. f \in Surjection(1 .. Len(es), x)
  BY DEF Surjection
<1> HIDE DEF f
<1>4. IsFiniteSet(x) /\ Cardinality(x) <= Cardinality(1 .. Len(es))
  <2> HIDE DEF x
  <2> QED BY <1>2, <1>3, FS_Surjection
<1>5. Cardinality(x) \in Nat
  BY <1>4, FS_CardinalityType
<1>6. x \subseteq {l} \X ExpertIdx
  OBVIOUS
<1> HIDE DEF x
<1> QED BY <1>1, <1>2, <1>4, <1>5, <1>6 DEF x

(* What has been predicted, after a step. *)
LEMMA PredictionKept ==
  ASSUME TypeInv, JobAhead, QueuesInv, QueuesInv', SizesInv, Next,
         NEW p \in [Layer -> SUBSET Expert], AsPredicted(p)
  PROVE  \E r \in [Layer -> SUBSET Expert] :
           /\ AsPredicted(r)'
           /\ ~HookLayerDone => \A l \in Layer : p[l] \subseteq r[l]
           /\ SchedPrefetchLayer => \A k \in 1 .. Len(pexperts) : <<pnext, pexperts[k]>> \in r[pnext]
<1>u. UniquePrefetch /\ NumPredict \in [Layer -> Nat]
  BY ConstantsAssumption DEF QueuesInv
<1>1. CASE ~SchedPrefetchLayer
  <2>1. \E r \in [Layer -> SUBSET Expert] : \A l \in Layer : r[l] = IF InWindow(l)' THEN p[l] ELSE {}
    <3>1. WITNESS [l \in Layer |-> IF InWindow(l)' THEN p[l] ELSE {}] \in [Layer -> SUBSET Expert]
    <3> QED OBVIOUS
  <2>2. PICK r \in [Layer -> SUBSET Expert] : \A l \in Layer : r[l] = IF InWindow(l)' THEN p[l] ELSE {}
    BY <2>1
  <2>3. ASSUME NEW l \in Layer PROVE Predicted(l, r[l])
    <3>1. Predicted(l, p[l])
      BY DEF AsPredicted
    <3>2. Predicted(l, {})
      <4>1. NumPredict[l] \in Nat
        BY <1>u
      <4> QED BY <4>1, FS_EmptySet DEF Predicted
    <3> QED BY <2>2, <3>1, <3>2
  <2>4. ASSUME NEW l \in Layer PROVE QueuedOf(l)' \subseteq r[l]
    <3>1. QueuedOf(l)' \subseteq p[l]
      BY <1>1, QueuedShrinks DEF AsPredicted
    <3>2. ~InWindow(l)' => QueuedOf(l)' = {}
      <4>1. ~InWindow(l)' => per_layer_job_queues'[l] = << >>
        BY DEF QueuesInv, InWindow
      <4>2. Len(<< >>) = 0
        OBVIOUS
      <4> QED BY <4>1, <4>2 DEF QueuedOf
    <3> QED BY <2>2, <3>1, <3>2
  <2>5. ASSUME NEW l \in Layer PROVE r[l] # {} => InWindow(l)'
    BY <2>2
  <2>6. ASSUME NEW l \in Layer, ~HookLayerDone PROVE p[l] \subseteq r[l]
    <3>1. p[l] # {} => InWindow(l)'
      BY <1>u, <2>6, WindowGrows DEF AsPredicted
    <3> QED BY <2>2, <3>1
  <2>7. AsPredicted(r)'
    BY <2>3, <2>4, <2>5 DEF AsPredicted, Predicted
  <2> QED BY <1>1, <2>6, <2>7
<1>2. CASE SchedPrefetchLayer
  <2> DEFINE x == {<<pnext, pexperts[k]>> : k \in 1 .. Len(pexperts)}
  <2>t. /\ squeue \in Seq(Kind) /\ pexperts \in Seq(ExpertIdx)
        /\ per_layer_job_queues \in [Layer -> Seq(CopyTask)]
    BY DEF TypeInv, TypeOK, Kind
  <2>1. pnext \in Layer /\ per_layer_job_queues[pnext] = << >>
    BY <1>2, PrefetchFindsEmpty
  <2>2. InQueue("Prefetch") /\ ppc = "submitted" /\ pnext = Ahead
    <3>1. InQueue("Prefetch")
      BY <1>2, <2>t, TakeInQueue DEF SchedPrefetchLayer
    <3> QED BY <3>1 DEF TypeInv, IndexInv, JobAhead
  <2>3. p[pnext] = {}
    <3>1. ~InWindow(pnext)
      BY <2>1, <2>2 DEF InWindow, Layer
    <3> QED BY <2>1, <3>1 DEF AsPredicted
  <2>4. Predicted(pnext, x)
    <3>1. Len(pexperts) <= NumPredict[pnext] /\ NumPredict[pnext] \in Nat
      BY <1>u, <2>1, <2>2 DEF SizesInv
    <3> QED BY <2>t, <2>1, <3>1, PredictionSize DEF Predicted
  <2>5. x \in SUBSET Expert
    BY <2>t, <2>1 DEF Expert
  <2> HIDE DEF x
  <2>6. PICK r \in [Layer -> SUBSET Expert] : r = [p EXCEPT ![pnext] = x]
    BY <2>5
  <2>7. r[pnext] = x /\ \A l \in Layer : l # pnext => r[l] = p[l]
    BY <2>1, <2>6
  <2>8. ASSUME NEW l \in Layer PROVE Predicted(l, r[l]) /\ p[l] \subseteq r[l]
    BY <2>3, <2>4, <2>7 DEF AsPredicted
  <2>9. ASSUME NEW l \in Layer PROVE QueuedOf(l)' \subseteq r[l]
    <3>1. CASE l # pnext
      <4>1. per_layer_job_queues'[l] = per_layer_job_queues[l]
        BY <1>2, <2>t, <3>1 DEF SchedPrefetchLayer
      <4> QED BY <2>7, <3>1, <4>1 DEF AsPredicted, QueuedOf
    <3>2. CASE l = pnext
      <4> DEFINE ts == PrefetchTasks(pnext, pexperts)
      <4>1. per_layer_job_queues'[l] = << >> \o ts
        BY <1>2, <2>t, <2>1, <3>2 DEF SchedPrefetchLayer
      <4>2. << >> \o ts = ts
        <5>1. ts \in Seq(CopyTask)
          BY <2>t, <2>1, PrefetchTasksType
        <5> HIDE DEF ts
        <5> QED BY <5>1
      <4>3. \A i \in 1 .. Len(ts) : ts[i].expert \in x
        BY <2>t, <2>1, PrefetchedExperts DEF x
      <4> HIDE DEF ts
      <4>4. QueuedOf(l)' = {ts[i].expert : i \in 1 .. Len(ts)}
        BY <4>1, <4>2 DEF QueuedOf
      <4> QED BY <2>7, <3>2, <4>3, <4>4
    <3> QED BY <3>1, <3>2
  <2>10. ASSUME NEW l \in Layer PROVE r[l] # {} => InWindow(l)'
    <3>1. CASE l # pnext
      <4>1. ~HookLayerDone
        BY <1>2 DEF SchedPrefetchLayer, HookLayerDone
      <4> QED BY <1>u, <2>7, <3>1, <4>1, WindowGrows DEF AsPredicted
    <3>2. CASE l = pnext
      <4>1. ~InQueue("Prefetch")'
        BY <1>2, <2>t, <1>u, PrefetchTail DEF SchedPrefetchLayer, Take
      <4>2. UNCHANGED <<layer, hpc, prefetch_layer_progress, ppc>>
        BY <1>2 DEF SchedPrefetchLayer
      <4>3. Ahead' = Ahead /\ ppc' = "submitted"
        BY <2>2, <4>2 DEF Ahead
      <4> QED BY <2>2, <3>2, <4>1, <4>3 DEF InWindow
    <3> QED BY <3>1, <3>2
  <2>11. AsPredicted(r)'
    BY <2>8, <2>9, <2>10 DEF AsPredicted, Predicted
  <2>12. \A k \in 1 .. Len(pexperts) : <<pnext, pexperts[k]>> \in r[pnext]
    BY <2>7 DEF x
  <2> QED BY <2>8, <2>11, <2>12
<1> QED BY <1>1, <1>2

-----------------------------------------------------------------------------
(* What LRU and NN keep longer than e: the experts behind it in the list, and those that have *)
(* no lower priority.                                                                         *)
Recent(e) ==
  IF cache_policy = "nn" THEN {w \in Expert : priority[w] >= priority[e]}
  ELSE Behind(order[SlotOf(e)], e)

(* An access to e: it becomes recent, and nothing is more recent than it after a precise one. *)
RecentStep(e, precise) ==
  /\ cache_policy' = cache_policy /\ max_priority < FloatLimit
  /\ \A f \in Expert : Recent(f)' \subseteq Recent(f) \cup {e}
  /\ precise => Recent(e)' \subseteq {e}

LEMMA PriorityAccess ==
  ASSUME PriorityInv, PriorityInv', NEW e \in Expert, NEW precise \in BOOLEAN, Prioritised(e, precise),
         cache_policy' = cache_policy, (max_priority < FloatLimit)'
  PROVE  /\ max_priority < FloatLimit
         /\ cache_policy = "nn" => RecentStep(e, precise)
<1> DEFINE m == max_priority
<1>f. FloatLimit \in Nat
  BY PoliciesAssumption
<1>1. m \in Nat /\ \A f \in Expert : priority[f] \in Nat /\ priority[f] <= m
  BY MaxPriority
<1>2. m' \in Nat /\ priority'[e] <= m' /\ m' < FloatLimit
  <2>1. priority' \in [Expert -> Nat]
    BY DEF PriorityInv
  <2>2. PICK x \in Nat : \A f \in Expert : priority'[f] <= x
    BY DEF PriorityInv
  <2>3. Max(Range(priority')) \in Nat /\ priority'[e] <= Max(Range(priority'))
    BY <2>1, <2>2, MaxBounds
  <2> QED BY <2>3 DEF max_priority
<1>3. priority \in [Expert -> Nat]
  BY DEF PriorityInv
<1>4. CASE ~(cache_policy = "nn" /\ precise)
  <2>1. priority' = priority
    BY <1>4 DEF Prioritised
  <2>2. m' = m
    BY <2>1 DEF max_priority
  <2>3. cache_policy = "nn" => ~precise /\ \A f \in Expert : Recent(f)' = Recent(f)
    BY <1>4, <2>1 DEF Recent
  <2> QED BY <1>2, <2>2, <2>3 DEF RecentStep
<1>5. CASE cache_policy = "nn" /\ precise
  <2> DEFINE n == NextPriority
  <2>1. priority' = [priority EXCEPT ![e] = n]
    BY <1>5 DEF Prioritised
  <2>2. n = IF m < FloatLimit THEN m + 1 ELSE m
    BY DEF NextPriority
  <2> HIDE DEF n, m
  <2>3. priority'[e] = n /\ \A f \in Expert : f # e => priority'[f] = priority[f]
    BY <1>3, <2>1
  <2>4. m < FloatLimit /\ n = m + 1
    BY <1>1, <1>2, <1>f, <2>2, <2>3
  <2>5. ASSUME NEW f \in Expert PROVE Recent(f)' \subseteq Recent(f) \cup {e}
    <3> SUFFICES ASSUME NEW w \in Expert, priority'[w] >= priority'[f], w # e PROVE priority[w] >= priority[f]
      BY <1>5 DEF Recent
    <3>1. priority'[w] = priority[w] /\ priority[w] <= m /\ priority[w] \in Nat
      BY <1>1, <2>3
    <3>2. f # e
      BY <1>1, <2>3, <2>4, <3>1
    <3> QED BY <2>3, <3>1, <3>2
  <2>6. Recent(e)' \subseteq {e}
    <3> SUFFICES ASSUME NEW w \in Expert, priority'[w] >= priority'[e], w # e PROVE FALSE
      BY <1>5 DEF Recent
    <3>1. priority'[w] = priority[w] /\ priority[w] <= m /\ priority[w] \in Nat
      BY <1>1, <2>3
    <3> QED BY <1>1, <2>3, <2>4, <3>1
  <2> QED BY <2>4, <2>5, <2>6 DEF RecentStep, m
<1> QED BY <1>4, <1>5

LEMMA ListAccess ==
  ASSUME order \in [Slot -> Seq(Expert)], NEW e \in Expert, NEW q \in Seq(Expert), e \notin ToSet(q),
         \A f \in Expert : Behind(q, f) \subseteq Behind(order[SlotOf(e)], f),
         order' = [order EXCEPT ![SlotOf(e)] = Append(q, e)],
         cache_policy' = cache_policy, cache_policy # "nn"
  PROVE  /\ \A f \in Expert : Recent(f)' \subseteq Recent(f) \cup {e}
         /\ Recent(e)' \subseteq {e}
<1> DEFINE s == SlotOf(e)
<1>1. s \in Slot /\ order'[s] = Append(q, e)
  BY SlotOfType
<1> HIDE DEF s
<1>2. \A x \in Slot : x # s => order'[x] = order[x]
  BY <1>1 DEF s
<1>3. ASSUME NEW f \in Expert PROVE Recent(f)' \subseteq Recent(f) \cup {e}
  <2>1. SlotOf(f) \in Slot
    BY SlotOfType
  <2>2. CASE SlotOf(f) = s
    <3>1. Behind(Append(q, e), f) \subseteq Behind(q, f) \cup {e}
      BY BehindAppended
    <3>2. Recent(f)' = Behind(Append(q, e), f) /\ Recent(f) = Behind(order[s], f)
      BY <1>1, <2>2 DEF Recent
    <3>3. Behind(q, f) \subseteq Behind(order[s], f)
      BY DEF s
    <3> QED BY <3>1, <3>2, <3>3
  <2>3. CASE SlotOf(f) # s
    BY <1>2, <2>1, <2>3 DEF Recent
  <2> QED BY <2>2, <2>3
<1>4. Recent(e)' \subseteq {e}
  <2>1. Behind(Append(q, e), e) = {}
    BY BehindAppended
  <2>2. Recent(e)' = Behind(Append(q, e), e)
    BY <1>1 DEF Recent, s
  <2> QED BY <2>1, <2>2
<1> QED BY <1>3, <1>4

(* The list of a slot has its cached experts. *)
LEMMA CacheListed ==
  ASSUME PolicyInv, cache_policy # "static", NEW s \in Slot
  PROVE  /\ order[s] \in Seq(Expert) /\ IsInjective(order[s])
         /\ ToSet(order[s]) = {e \in Expert : IsInCache(e) /\ SlotOf(e) = s}
<1>1. persisted_experts[s] = {}
  BY DEF PolicyInv, PolicyTypes
<1> QED BY <1>1 DEF PolicyInv, PolicyTypes, PolicyTracksCache

LEMMA HitRecent ==
  ASSUME PolicyInv, PriorityInv, PriorityInv', cache_policy \in {"lru", "nn"}, NEW e \in Expert,
         NEW precise \in BOOLEAN, IsInCache(e), AccessOnHit(e, precise), (max_priority < FloatLimit)'
  PROVE  RecentStep(e, precise)
<1> DEFINE q == order[SlotOf(e)]
           r == Removed(q, e)
<1>t. order \in [Slot -> Seq(Expert)] /\ SlotOf(e) \in Slot
  BY SlotOfType DEF PolicyInv, PolicyTypes
<1>1. cache_policy' = cache_policy /\ Prioritised(e, precise)
  BY DEF AccessOnHit
<1>2. max_priority < FloatLimit /\ (cache_policy = "nn" => RecentStep(e, precise))
  BY <1>1, PriorityAccess
<1>3. CASE cache_policy = "lru"
  <2>1. q \in Seq(Expert) /\ IsInjective(q) /\ e \in ToSet(q)
    BY <1>3, <1>t, CacheListed
  <2>2. r \in Seq(Expert) /\ e \notin ToSet(r)
    BY <2>1, RemoveLists
  <2>3. \A f \in Expert : Behind(r, f) \subseteq Behind(q, f)
    BY <2>1, BehindRemoved
  <2>4. order' = [order EXCEPT ![SlotOf(e)] = Append(r, e)]
    BY <1>3 DEF AccessOnHit, Touched
  <2> HIDE DEF r
  <2>5. /\ \A f \in Expert : Recent(f)' \subseteq Recent(f) \cup {e}
        /\ Recent(e)' \subseteq {e}
    BY <1>t, <1>1, <1>3, <2>2, <2>3, <2>4, ListAccess
  <2> QED BY <1>1, <1>2, <2>5 DEF RecentStep
<1> QED BY <1>2, <1>3

LEMMA MissRecent ==
  ASSUME PolicyInv, PriorityInv, PriorityInv', cache_policy \in {"lru", "nn"}, NEW e \in Expert,
         NEW precise \in BOOLEAN, NEW q \in Seq(Expert), e \notin ToSet(q),
         \A f \in Expert : Behind(q, f) \subseteq Behind(order[SlotOf(e)], f),
         AccessOnMiss(e, q, precise), (max_priority < FloatLimit)'
  PROVE  RecentStep(e, precise)
<1>1. cache_policy' = cache_policy /\ Prioritised(e, precise)
  BY DEF AccessOnMiss
<1>2. max_priority < FloatLimit /\ (cache_policy = "nn" => RecentStep(e, precise))
  BY <1>1, PriorityAccess
<1>3. CASE cache_policy = "lru"
  <2>1. order \in [Slot -> Seq(Expert)]
    BY DEF PolicyInv, PolicyTypes
  <2>2. order' = [order EXCEPT ![SlotOf(e)] = Append(q, e)]
    BY <1>3 DEF AccessOnMiss, Persists
  <2>3. /\ \A f \in Expert : Recent(f)' \subseteq Recent(f) \cup {e}
        /\ Recent(e)' \subseteq {e}
    BY <1>1, <1>3, <2>1, <2>2, ListAccess
  <2> QED BY <1>1, <1>2, <2>3 DEF RecentStep
<1> QED BY <1>2, <1>3

(* The expert that IdleTask evicts is of the slot of the one it fetches. *)
LEMMA IdleEvicts ==
  ASSUME TypeInv, BuffersPartitioned, SchedIdle,
         NEW v \in Expert, IsInCache(v), prefetched_experts'[v] = NoBuffer
  PROVE  /\ SlotOf(v) = SlotOf(NextJob.expert) /\ ~IsInCache(NextJob.expert)
         /\ NextJob.expert \in Expert /\ NextJob.expert # v
         /\ \A w \in Expert : IsInCache(w) /\ prefetched_experts'[w] = NoBuffer => w = v
<1> DEFINE e == NextJob.expert
<1>1. e \in Expert /\ Moves(e)
  BY IdleMoves DEF CopyTask
<1>t. prefetched_experts \in [Expert -> Buffer \cup {NoBuffer}]
  BY DEF TypeInv, TypeOK
<1> HIDE DEF e
<1>2. ~UNCHANGED prefetched_experts
  BY DEF IsInCache
<1>3. ASSUME NEW b, b # NoBuffer, prefetched_experts' = [prefetched_experts EXCEPT ![e] = b] PROVE FALSE
  BY <1>t, <1>3 DEF IsInCache
<1>4. ~IsInCache(e) /\ \E w \in InSlot(e) :
        prefetched_experts' = [prefetched_experts EXCEPT ![w] = NoBuffer, ![e] = prefetched_experts[w]]
  BY <1>1, <1>2, <1>3 DEF Moves
<1>5. PICK w \in InSlot(e) :
        prefetched_experts' = [prefetched_experts EXCEPT ![w] = NoBuffer, ![e] = prefetched_experts[w]]
  BY <1>4
<1>6. w \in Expert /\ IsInCache(w) /\ SlotOf(w) = SlotOf(e)
  BY DEF InSlot
<1>7. \A f \in Expert : f # w /\ f # e => prefetched_experts'[f] = prefetched_experts[f]
  BY <1>1, <1>t, <1>5, <1>6
<1>8. \A f \in Expert : IsInCache(f) /\ prefetched_experts'[f] = NoBuffer => f = w
  BY <1>4, <1>7 DEF IsInCache
<1> QED BY <1>1, <1>4, <1>6, <1>8 DEF e

(* IdleTask: an access, or nothing happens to the policy. *)
LEMMA IdleRecent ==
  ASSUME TypeInv, BuffersPartitioned, PolicyInv, PriorityInv, PriorityInv', SchedIdle, SendAccesses(NextJob),
         aborted = "none", (aborted = "none")', cache_policy \in {"lru", "nn"}, (max_priority < FloatLimit)'
  PROVE  \/ RecentStep(NextJob.expert, NextJob.is_precise)
         \/ ~NextJob.is_precise /\ UNCHANGED policyVars
<1> DEFINE t == NextJob
           e == NextJob.expert
           s == SlotOf(e)
           q == order[s]
<1>1. t \in CopyTask /\ e \in Expert /\ SendOneJob(t) /\ s \in Slot /\ t.is_precise \in BOOLEAN
  BY IdleSends, SlotOfType DEF CopyTask
<1>2. q \in Seq(Expert) /\ IsInjective(q) /\ ToSet(q) = {f \in Expert : IsInCache(f) /\ SlotOf(f) = s}
  BY <1>1, CacheListed
<1> HIDE DEF q
<1>3. CASE IsInCache(e) /\ AccessOnHit(e, t.is_precise)
  BY <1>1, <1>3, HitRecent
<1>4. CASE ~IsInCache(e) /\ AccessOnMiss(e, q, t.is_precise)
  <2>1. e \notin ToSet(q)
    BY <1>2, <1>4
  <2> QED BY <1>1, <1>2, <1>4, <2>1, MissRecent DEF q
<1>5. ASSUME ~IsInCache(e), NEW v \in Expert, IsInCache(v), prefetched_experts'[v] = NoBuffer,
             AccessOnMiss(e, Removed(q, v), t.is_precise)
      PROVE  RecentStep(e, t.is_precise)
  <2>1. v \in ToSet(q)
    BY <1>2, <1>5, IdleEvicts
  <2> DEFINE r == Removed(q, v)
  <2>2. r \in Seq(Expert) /\ ToSet(r) = ToSet(q) \ {v}
    BY <1>2, <2>1, RemoveLists
  <2>3. \A f \in Expert : Behind(r, f) \subseteq Behind(q, f)
    BY <1>2, <2>1, BehindRemoved
  <2>4. e \notin ToSet(r)
    BY <1>2, <1>5, <2>2
  <2> HIDE DEF r
  <2>5. AccessOnMiss(e, r, t.is_precise)
    BY <1>5 DEF r
  <2> QED BY <1>1, <2>2, <2>3, <2>4, <2>5, MissRecent DEF q
<1>6. CASE /\ ~(prefetched_experts[e] = NoBuffer /\ prefetched_experts'[e] # NoBuffer)
           /\ ~(IsInCache(e) /\ HitOnSend(t)) /\ UNCHANGED policyVars
  <2>1. t.is_precise => ~IsInCache(e)
    BY <1>6 DEF HitOnSend
  <2>2. t.is_precise => prefetched_experts'[e] = NoBuffer
    BY <1>6, <2>1 DEF IsInCache
  <2>3. ~t.is_precise
    BY <1>1, <2>1, <2>2, NoMissFails
  <2> QED BY <1>6, <2>3
<1> QED BY <1>3, <1>4, <1>5, <1>6 DEF SendAccesses, IsInCache, q

-----------------------------------------------------------------------------
(* The experts predicted for the layers that the hook has still to run in this iteration. *)
ToCome(p) == {w \in Expert : w[1] > layer /\ w \in p[w[1]]}

(* Only the experts of the layer and those to come have been accessed since an expert that    *)
(* the hook has not used yet.                                                                 *)
RecentOnes(p) ==
  cache_policy \in {"lru", "nn"} /\ aborted = "none" /\ max_priority < FloatLimit =>
    \A e \in Accessed : Recent(e) \subseteq LayerExperts \cup ToCome(p)

SparedInv == \E p \in [Layer -> SUBSET Expert] : AsPredicted(p) /\ RecentOnes(p)

(* While priorities are rewritten no layer is open. *)
NNInv == cache_policy = "nn" => OneJobInv /\ UpdatingInv

LEMMA RecentQuiet ==
  ASSUME NEW p \in [Layer -> SUBSET Expert], NEW r \in [Layer -> SUBSET Expert], RecentOnes(p),
         aborted = "none",
         \/ Accessed' = {}
         \/ /\ Accessed' = Accessed /\ UNCHANGED <<layer, experts, order, priority, cache_policy>>
            /\ \A l \in Layer : p[l] \subseteq r[l]
  PROVE  RecentOnes(r)'
<1>1. CASE Accessed' = {}
  BY <1>1 DEF RecentOnes
<1>2. CASE /\ Accessed' = Accessed /\ UNCHANGED <<layer, experts, order, priority, cache_policy>>
           /\ \A l \in Layer : p[l] \subseteq r[l]
  <2>1. /\ LayerExperts' = LayerExperts /\ max_priority' = max_priority
        /\ \A e : Recent(e)' = Recent(e)
    BY <1>2 DEF LayerExperts, max_priority, Recent
  <2>2. ToCome(p) \subseteq ToCome(r)'
    BY <1>2 DEF ToCome, Expert
  <2> QED BY <1>2, <2>1, <2>2 DEF RecentOnes
<1> QED BY <1>1, <1>2

LEMMA RecentAccess ==
  ASSUME NEW p \in [Layer -> SUBSET Expert], NEW r \in [Layer -> SUBSET Expert], RecentOnes(p),
         \A l \in Layer : p[l] \subseteq r[l], aborted = "none",
         NEW e \in Expert, NEW precise, RecentStep(e, precise), UNCHANGED <<layer, experts>>,
         IF precise THEN Accesses(e)
         ELSE Accessed' = Accessed /\ (Accessed # {} => e \in LayerExperts \cup ToCome(p)),
         Accessed \subseteq Expert
  PROVE  RecentOnes(r)'
<1>1. LayerExperts' = LayerExperts
  BY DEF LayerExperts
<1>2. ToCome(p) \subseteq ToCome(r)'
  BY DEF ToCome, Expert
<1> SUFFICES ASSUME cache_policy' \in {"lru", "nn"}, NEW f \in Accessed'
             PROVE  Recent(f)' \subseteq LayerExperts \cup ToCome(p)
  BY <1>1, <1>2 DEF RecentOnes
<1>3. \A g \in Accessed : Recent(g) \subseteq LayerExperts \cup ToCome(p)
  BY DEF RecentOnes, RecentStep
<1>4. CASE f \in Accessed
  <2>1. e \in LayerExperts \cup ToCome(p)
    BY <1>4 DEF Accesses
  <2>2. Recent(f)' \subseteq Recent(f) \cup {e}
    BY <1>4 DEF RecentStep
  <2> QED BY <1>3, <1>4, <2>1, <2>2
<1>5. CASE f \notin Accessed
  <2>1. precise /\ f = e /\ e \in LayerExperts
    BY <1>5 DEF Accesses
  <2>2. Recent(e)' \subseteq {e}
    BY <2>1 DEF RecentStep
  <2> QED BY <2>1, <2>2
<1> QED BY <1>4, <1>5

(* An expert that is sent for prefetching while the hook runs a layer is of a later one. *)
LEMMA SentToCome ==
  ASSUME StateInv, QueuesInv, NEW p \in [Layer -> SUBSET Expert], AsPredicted(p), SchedIdle, Next,
         ~NextJob.is_precise, Accessed # {}
  PROVE  NextJob.expert \in ToCome(p)
<1>t. TypeInv /\ PlaceInv /\ RunInv /\ BudgetInv /\ layer \in Layer /\ precise_job_queue \in Seq(CopyTask)
  BY DEF StateInv, TypeInv, TypeOK
<1>1. Open
  BY AccessedInLayer
<1>2. ~PopPrecise \/ NextJob # Head(precise_job_queue)
  <2> SUFFICES ASSUME PopPrecise PROVE Head(precise_job_queue).is_precise
    OBVIOUS
  <2>1. precise_job_queue # << >>
    BY DEF PopPrecise
  <2>2. Len(precise_job_queue) \in Nat \ {0} /\ Head(precise_job_queue) = precise_job_queue[1]
    BY <1>t, <2>1
  <2> QED BY <1>t, <2>2 DEF RunInv
<1>3. PICK l \in Layer : PopLayer(l) /\ NextJob = Head(per_layer_job_queues[l])
  BY <1>2, <1>t, IdleSends
<1>4. /\ per_layer_job_queues[l] # << >> /\ 1 \in 1 .. Len(per_layer_job_queues[l])
      /\ NextJob = per_layer_job_queues[l][1]
  BY <1>3, <1>t, HeadLayer DEF PopLayer
<1>5. NextJob.expert \in p[l]
  BY <1>4 DEF AsPredicted, QueuedOf
<1>6. NextJob.expert \in Expert /\ NextJob.expert[1] = l
  <2>1. NextJob.expert \in {l} \X ExpertIdx
    BY <1>5 DEF AsPredicted, Predicted
  <2> QED BY <2>1 DEF Expert
<1>7. ~Unpreempted
  <2>1. spc = "ready"
    BY DEF SchedIdle, Take
  <2>2. ~InQueue("Preempt")
    <3> SUFFICES ASSUME InQueue("Preempt") PROVE FALSE
      OBVIOUS
    <3>1. hpc = "expert" /\ idx = 1
      BY <1>t DEF BudgetInv, PreemptInv, PlaceInv
    <3>2. AskedExperts = {} /\ Used = {}
      BY <3>1, NothingAsked DEF Used
    <3> QED BY <3>2 DEF Accessed
  <2> QED BY <2>1, <2>2 DEF Unpreempted
<1>8. l > layer
  <2>1. layer <= l /\ l # layer
    BY <1>1, <1>4, <1>7 DEF QueuesInv
  <2> QED BY <1>t, <2>1 DEF Layer
<1> QED BY <1>5, <1>6, <1>8 DEF ToCome

(* What PrefetchLayerTask makes recent while the hook runs a layer is of a later one. *)
LEMMA PromoteRecent ==
  ASSUME StateInv, PolicyInv, JobAhead, SchedPrefetchLayer, PromoteHits, aborted = "none",
         NEW p \in [Layer -> SUBSET Expert], NEW r \in [Layer -> SUBSET Expert], RecentOnes(p),
         \A l \in Layer : p[l] \subseteq r[l],
         \A k \in 1 .. Len(pexperts) : <<pnext, pexperts[k]>> \in r[pnext],
         Accessed' = Accessed, Accessed \subseteq Expert
  PROVE  RecentOnes(r)'
<1>1. /\ pnext \in Layer /\ pnext < pstop /\ PredictedExperts \in Seq(Expert)
      /\ ToSet(PredictedExperts) = {<<pnext, pexperts[k]>> : k \in 1 .. Len(pexperts)}
  BY PredictedTypes DEF StateInv
<1>2. /\ UNCHANGED <<cache_policy, priority>> /\ order \in [Slot -> Seq(Expert)]
      /\ \A x \in Slot : order'[x] = order[x] \/ order'[x] \in Promoted(order[x], PredictedExperts)
  BY PromoteReorders DEF StateInv, PolicyInv, PolicyTypes
<1>3. UNCHANGED <<layer, experts>> /\ LayerExperts' = LayerExperts /\ max_priority' = max_priority
  BY <1>2 DEF SchedPrefetchLayer, LayerExperts, max_priority
<1>4. ToCome(p) \subseteq ToCome(r)'
  BY <1>3 DEF ToCome, Expert
<1> SUFFICES ASSUME cache_policy \in {"lru", "nn"}, max_priority < FloatLimit, NEW f \in Accessed
             PROVE  Recent(f)' \subseteq LayerExperts \cup ToCome(r)'
  BY <1>2, <1>3 DEF RecentOnes
<1>5. Recent(f) \subseteq LayerExperts \cup ToCome(p)
  BY DEF RecentOnes
<1>6. ToSet(PredictedExperts) \subseteq ToCome(r)'
  <2>1. Open
    BY AccessedInLayer DEF StateInv
  <2>2. layer \in Nat /\ prefetch_layer_progress \in Nat
    BY ConstantsAssumption DEF StateInv, TypeInv, TypeOK, Layer
  <2>3. pnext > layer
    BY <1>1, <2>1, <2>2 DEF JobAhead, Ahead, Open
  <2> SUFFICES ASSUME NEW k \in 1 .. Len(pexperts) PROVE <<pnext, pexperts[k]>> \in ToCome(r)'
    BY <1>1
  <2>4. <<pnext, pexperts[k]>> \in Expert
    BY <1>1
  <2> QED BY <1>3, <2>3, <2>4 DEF ToCome
<1>7. Recent(f)' \subseteq Recent(f) \cup ToSet(PredictedExperts)
  <2>1. CASE cache_policy = "nn"
    BY <1>2, <2>1 DEF Recent
  <2>2. CASE cache_policy = "lru"
    <3> DEFINE s == SlotOf(f)
    <3>1. s \in Slot
      BY SlotOfType
    <3> HIDE DEF s
    <3>2. order[s] \in Seq(Expert)
      BY <1>2, <3>1
    <3>3. Behind(order'[s], f) \subseteq Behind(order[s], f) \cup ToSet(PredictedExperts)
      <4>1. CASE order'[s] = order[s]
        BY <4>1
      <4>2. CASE order'[s] \in Promoted(order[s], PredictedExperts)
        BY <1>1, <3>2, <4>2, BehindPromoted
      <4> QED BY <1>2, <3>1, <4>1, <4>2
    <3> QED BY <1>2, <2>2, <3>3 DEF Recent, s
  <2> QED BY <2>1, <2>2
<1> QED BY <1>4, <1>5, <1>6, <1>7

LEMMA RecentKept ==
  ASSUME StateInv, PolicyInv, PriorityInv, PriorityInv', JobAhead, QueuesInv, NNInv, NextPolicies,
         NEW p \in [Layer -> SUBSET Expert], NEW r \in [Layer -> SUBSET Expert],
         AsPredicted(p), RecentOnes(p), ~HookLayerDone => \A l \in Layer : p[l] \subseteq r[l],
         SchedPrefetchLayer => \A k \in 1 .. Len(pexperts) : <<pnext, pexperts[k]>> \in r[pnext]
  PROVE  RecentOnes(r)'
<1>a. aborted = "none"
  BY DEF NextPolicies
<1>t. TypeInv /\ BuffersPartitioned /\ BudgetInv /\ PlaceInv
  BY DEF StateInv
<1>l. Accessed \subseteq Expert
  <2>1. experts \in Seq(ExpertIdx) /\ layer \in Layer
    BY <1>t DEF TypeInv, TypeOK
  <2>2. \A i \in 1 .. Len(experts) : experts[i] \in ExpertIdx
    BY <2>1
  <2>3. LayerExperts \subseteq Expert
    BY <2>1, <2>2 DEF LayerExperts, Expert
  <2> QED BY <2>3, AccessedInLayer
<1>p. UNCHANGED policyVars => UNCHANGED <<order, priority, cache_policy>>
  BY DEF policyVars, nnVars
<1>n. NextPolicies => [Next]_vars
  BY PoliciesRefine
<1> SUFFICES ASSUME cache_policy' \in {"lru", "nn"}, (aborted = "none")', (max_priority < FloatLimit)'
             PROVE  RecentOnes(r)'
  BY DEF RecentOnes
<1>m. \A l \in Layer : HookLayerDone \/ p[l] \subseteq r[l]
  OBVIOUS
<1>1. ASSUME NEW e \in Expert, NEW behind, PreemptHits(e, behind), UNCHANGED <<layer, experts>>,
             \A l \in Layer : p[l] \subseteq r[l],
             IF HitOnPreempt(e, behind) THEN Accesses(e) ELSE Accessed' = Accessed
      PROVE  RecentOnes(r)'
  <2>1. CASE HitOnPreempt(e, behind)
    <3>1. IsInCache(e) /\ AccessOnHit(e, TRUE)
      BY <1>1, <2>1 DEF PreemptHits, HitOnPreempt
    <3>2. cache_policy \in {"lru", "nn"}
      BY <3>1 DEF AccessOnHit
    <3>3. RecentStep(e, TRUE)
      BY <3>1, <3>2, HitRecent
    <3> QED BY <1>a, <1>l, <1>1, <2>1, <3>3, RecentAccess
  <2>2. CASE ~HitOnPreempt(e, behind)
    BY <1>a, <1>p, <1>1, <2>2, RecentQuiet DEF PreemptHits
  <2> QED BY <2>1, <2>2
<1>2. CASE SchedPreemptExpert /\ PreemptHits(<<layer, experts[sidx]>>, BehindMiss(sidx))
  <2>1. <<layer, experts[sidx]>> \in Expert
    BY <1>t, <1>2 DEF SchedPreemptExpert, TypeInv, TypeOK, IndexInv, Expert
  <2>2. UNCHANGED <<layer, experts>> /\ ~HookLayerDone
    BY <1>2 DEF SchedPreemptExpert, HookLayerDone
  <2> DEFINE e == <<layer, experts[sidx]>>
  <2>3. IF HitOnPreempt(e, BehindMiss(sidx)) THEN Accesses(e) ELSE Accessed' = Accessed
    BY <1>2, PreemptExpertAccesses
  <2> HIDE DEF e
  <2> QED BY <1>1, <1>2, <1>m, <2>1, <2>2, <2>3 DEF e
<1>3. CASE SchedPreemptOne /\ PreemptHits(HookExpert, FALSE)
  <2>1. HookExpert \in Expert
    <3>1. InQueue("PreemptOne")
      BY <1>t, <1>3, TakeInQueue DEF TypeInv, TypeOK, Kind, SchedPreemptOne
    <3> QED BY <1>t, <3>1 DEF TypeInv, TypeOK, IndexInv, HookExpert, Expert
  <2>2. UNCHANGED <<layer, experts>> /\ ~HookLayerDone
    BY <1>3 DEF SchedPreemptOne, HookLayerDone
  <2>3. IF HitOnPreempt(HookExpert, FALSE) THEN Accesses(HookExpert) ELSE Accessed' = Accessed
    BY <1>3, PreemptOneAccesses
  <2> QED BY <1>1, <1>3, <1>m, <2>1, <2>2, <2>3
<1>4. CASE SchedIdle /\ SendAccesses(NextJob)
  <2> DEFINE e == NextJob.expert
  <2>x. Next
    BY <1>a, <1>4 DEF Next, Step, Scheduler
  <2>1. UNCHANGED <<layer, experts>> /\ ~HookLayerDone /\ e \in Expert
    <3>1. UNCHANGED <<layer, experts>> /\ ~HookLayerDone
      BY <1>4 DEF SchedIdle, HookLayerDone, Take
    <3> QED BY <1>t, <1>4, <3>1, IdleSends DEF CopyTask
  <2>2. IF NextJob.is_precise THEN Accesses(e) ELSE Accessed' = Accessed
    BY <1>4, <2>x, IdleAccesses
  <2>3. ~NextJob.is_precise /\ Accessed # {} => e \in ToCome(p)
    BY <1>4, <2>x, SentToCome
  <2>4. cache_policy' = cache_policy
    BY <1>4, <1>p DEF SendAccesses, AccessOnHit, AccessOnMiss
  <2>5. \/ RecentStep(e, NextJob.is_precise)
        \/ ~NextJob.is_precise /\ UNCHANGED policyVars
    BY <1>4, <1>a, <1>t, <2>4, IdleRecent
  <2> HIDE DEF e
  <2>6. CASE RecentStep(e, NextJob.is_precise)
    BY <1>a, <1>l, <1>m, <2>1, <2>2, <2>3, <2>6, RecentAccess
  <2>7. CASE ~NextJob.is_precise /\ UNCHANGED policyVars
    BY <1>a, <1>m, <1>p, <2>1, <2>2, <2>7, RecentQuiet
  <2> QED BY <2>5, <2>6, <2>7
<1>5. CASE /\ HookStart \/ HookReportLayer \/ HookReportExpert \/ HookExpertDone
           /\ UNCHANGED policyVars
  <2>x. Next
    BY <1>a, <1>5 DEF Next, Step, Hook
  <2>1. Accessed' = Accessed
    BY <1>5, <2>x, HookKeepsAccessed
  <2>2. ~HookLayerDone
    BY <1>5 DEF HookStart, HookReportLayer, HookReportExpert, HookExpertDone, HookLayerDone
  <2>3. UNCHANGED <<layer, experts>> \/ Accessed = {}
    <3>1. HookReportLayer => ~Open
      BY DEF HookReportLayer, Open
    <3> QED BY <1>5, <3>1, AccessedInLayer DEF HookStart, HookReportExpert, HookExpertDone
  <2> QED BY <1>5, <1>a, <1>m, <1>p, <2>1, <2>2, <2>3, RecentQuiet
<1>6. CASE HookLayerDone
  <2>1. hpc' \notin {"expert", "wait"} /\ idx' = 1
    BY <1>6 DEF HookLayerDone
  <2>2. Used' = {} /\ AskedExperts' = {}
    BY <2>1 DEF Used, AskedExperts, Asked
  <2>3. Accessed' = {}
    BY <2>2 DEF Accessed
  <2> QED BY <1>a, <2>3, RecentQuiet
<1>7. CASE PredictStart /\ BeginUpdate
  <2>1. cache_policy = "nn" /\ predict_jobs # << >>
    BY <1>7 DEF BeginUpdate, PredictStart
  <2>2. Ahead = 0
    BY <2>1 DEF NNInv, OneJobInv
  <2>3. ~Open
    <3>1. layer \in Nat /\ prefetch_layer_progress \in Nat
      BY <1>t, ConstantsAssumption DEF TypeInv, TypeOK, Layer
    <3> QED BY <2>2, <3>1 DEF Ahead, Open
  <2>4. Next
    BY <1>a, <1>7 DEF Next, Step, Predictor
  <2>5. Accessed' = {}
    BY <1>7, <2>3, <2>4, AccessedInLayer, OthersKeepAccessed DEF Predictor
  <2> QED BY <1>a, <2>5, RecentQuiet
<1>8. CASE /\ SchedPreempt \/ SchedPreemptEnd \/ SchedPrefetchLayer \/ SchedFetchDone
              \/ SchedIdleAgain \/ Fetcher \/ StreamStep \/ Unlock \/ Predictor
           /\ UNCHANGED <<order, priority, cache_policy>>
  <2>x. Next
    BY <1>a, <1>8 DEF Next, Step, Scheduler
  <2>1. Accessed' = Accessed
    BY <1>8, <2>x, OthersKeepAccessed
  <2>2. ~HookLayerDone /\ layer' = layer
    <3>1. hpc' = hpc /\ layer' = layer
      BY <1>8 DEF SchedPreempt, SchedPreemptEnd, SchedPrefetchLayer, SchedFetchDone, SchedIdleAgain, Fetcher,
         FetchStart, FetchEnd, StreamStep, Unlock, Predictor, PredictStart, PredictLayer, PredictLayerDone
    <3>2. HookLayerDone => hpc' # hpc
      BY DEF HookLayerDone
    <3> QED BY <3>1, <3>2
  <2>3. experts' = experts \/ Accessed = {}
    <3>1. CASE SchedPreempt
      <4>1. squeue \in Seq(Kind)
        BY <1>t DEF TypeInv, TypeOK, Kind
      <4>2. InQueue("Preempt")
        BY <3>1, <4>1, TakeInQueue DEF SchedPreempt
      <4>3. hpc = "expert" /\ idx = 1
        BY <1>t, <4>2 DEF BudgetInv, PreemptInv, PlaceInv
      <4>4. AskedExperts = {} /\ Used = {}
        BY <4>2, <4>3, NothingAsked DEF Used
      <4> QED BY <4>4 DEF Accessed
    <3>2. CASE ~SchedPreempt
      BY <1>8, <3>2 DEF SchedPreemptEnd, SchedPrefetchLayer, SchedFetchDone, SchedIdleAgain, Fetcher,
         FetchStart, FetchEnd, StreamStep, Unlock, Predictor, PredictStart, PredictLayer, PredictLayerDone
    <3> QED BY <3>1, <3>2
  <2> QED BY <1>8, <1>a, <1>m, <2>1, <2>2, <2>3, RecentQuiet
<1>9. CASE SetCurSeq
  BY <1>9 DEF SetCurSeq
<1>10. CASE EndUpdate
  <2>1. UNCHANGED <<order, priority, cache_policy, layer, experts, hpc, idx, squeue, spc, sidx, precise_job_queue>>
    BY <1>10 DEF EndUpdate, vars
  <2>2. Accessed' = Accessed
    BY <2>1 DEF Accessed, Used, AskedExperts, Asked, Wanted, InQueue
  <2>3. ~HookLayerDone
    BY <2>1 DEF HookLayerDone
  <2> QED BY <1>a, <1>m, <2>1, <2>2, <2>3, RecentQuiet
<1>11. CASE PredictStart /\ UNCHANGED policyVars
  BY <1>p, <1>8, <1>11 DEF Predictor
<1>12. CASE PredictLayer /\ UNCHANGED policyVars
  BY <1>p, <1>8, <1>12 DEF Predictor
<1>13. CASE PredictLayerDone /\ EndPrediction
  BY <1>8, <1>13 DEF Predictor, EndPrediction
<1>14. CASE /\ SchedPreempt \/ SchedPreemptEnd \/ SchedFetchDone
               \/ SchedIdleAgain \/ Fetcher \/ StreamStep \/ Unlock
            /\ UNCHANGED policyVars
  BY <1>p, <1>8, <1>14
<1>15. CASE SchedPrefetchLayer /\ PromoteHits
  <2>x. Next
    BY <1>a, <1>15 DEF Next, Step, Scheduler
  <2>1. Accessed' = Accessed
    BY <1>15, <2>x, OthersKeepAccessed
  <2>2. ~HookLayerDone
    BY <1>15 DEF SchedPrefetchLayer, HookLayerDone
  <2> QED BY <1>a, <1>l, <1>m, <1>15, <2>1, <2>2, PromoteRecent
<1> QED BY <1>2, <1>3, <1>4, <1>5, <1>6, <1>7, <1>9, <1>10, <1>11, <1>12, <1>13, <1>14, <1>15 DEF NextPolicies

-----------------------------------------------------------------------------
(* How many experts of layer k there are, at most, among those of the layer l that the hook   *)
(* runs and those predicted within the prefetch distance.                                     *)
Kept(l, k) ==
  CASE k = l -> MaxActive
    [] k \in (l + 1) .. (l + MaxPrefetchLayerDistance) -> NumPredict[k]
    [] OTHER -> 0

(* A slot has a buffer for each of its experts among them, whatever the layer.                *)
HasRoom ==
  \A s \in Slot, l \in Layer : \A U \in SUBSET {e \in Expert : SlotOf(e) = s} :
    IsFiniteSet(U) /\ (\A k \in Layer : Cardinality({e \in U : e[1] = k}) <= Kept(l, k))
      => Cardinality(U) <= SlotLen[s]

LEMMA WindowDistance ==
  ASSUME StateInv, Open, NEW k \in Layer, k > layer, InWindow(k)
  PROVE  k \in (layer + 1) .. (layer + MaxPrefetchLayerDistance)
<1> DEFINE sub == IF ppc = "submitted" THEN 1 ELSE 0
           out == IF Outstanding THEN 1 ELSE 0
<1>1. /\ layer \in Nat /\ k \in Nat /\ prefetch_layer_progress \in Nat /\ budget \in Nat
      /\ MaxPrefetchLayerDistance \in Nat
  <2>1. Layer \subseteq Nat /\ MaxPrefetchLayerDistance \in Nat
    BY ConstantsAssumption DEF Layer
  <2>2. layer \in Layer /\ prefetch_layer_progress \in Nat /\ budget \in Nat
    BY DEF StateInv, TypeInv, TypeOK
  <2> QED BY <2>1, <2>2
<1>2. sub \in {0, 1} /\ out \in {0, 1}
  OBVIOUS
<1>3. budget + prefetch_layer_progress + sub + out = MaxPrefetchLayerDistance
  BY DEF StateInv, BudgetInv, BudgetKept
<1>4. Ahead = layer + 1 + prefetch_layer_progress
  BY DEF Ahead, Open
<1>5. k < Ahead \/ (k = Ahead /\ sub = 1)
  BY DEF InWindow
<1> HIDE DEF sub, out
<1> QED BY <1>1, <1>2, <1>3, <1>4, <1>5

(* What the layer uses and what is still to come fits into a slot. *)
LEMMA RoomForAll ==
  ASSUME HasRoom, StateInv, SizesInv, NEW p \in [Layer -> SUBSET Expert], AsPredicted(p), Open,
         NEW s \in Slot, NEW U \in SUBSET {e \in Expert : SlotOf(e) = s},
         U \subseteq LayerExperts \cup ToCome(p)
  PROVE  IsFiniteSet(U) /\ Cardinality(U) <= SlotLen[s]
<1>t. /\ layer \in Layer /\ Layer \subseteq Nat /\ experts \in Seq(ExpertIdx)
      /\ MaxActive \in Nat /\ NumPredict \in [Layer -> Nat]
  <2>1. MaxActive \in Nat /\ NumPredict \in [Layer -> Nat]
    BY ConstantsAssumption
  <2>2. Layer \subseteq Nat
    BY DEF Layer
  <2>3. layer \in Layer /\ experts \in Seq(ExpertIdx)
    BY DEF StateInv, TypeInv, TypeOK
  <2> QED BY <2>1, <2>2, <2>3
<1>p. \A l \in Layer : Predicted(l, p[l]) /\ (p[l] # {} => InWindow(l))
  BY DEF AsPredicted
<1>1. IsFiniteSet(Layer)
  <2> DEFINE n == NumLayer - 1
  <2>1. n \in Int /\ 0 \in Int
    BY ConstantsAssumption
  <2> HIDE DEF n
  <2>2. IsFiniteSet(0 .. n)
    BY <2>1, FS_Interval
  <2> QED BY <2>2 DEF Layer, n
<1> DEFINE Q == {p[l] : l \in Layer}
<1>2. IsFiniteSet(Q)
  <2> DEFINE f == [l \in Layer |-> p[l]]
  <2>1. f \in Surjection(Layer, Q)
    BY DEF Surjection
  <2> HIDE DEF f, Q
  <2> QED BY <1>1, <2>1, FS_Surjection
<1>3. IsFiniteSet(UNION Q)
  <2>1. \A T \in Q : IsFiniteSet(T)
    BY <1>p DEF Predicted
  <2> HIDE DEF Q
  <2> QED BY <1>2, <2>1, FS_UNION
<1>4. /\ LayerExperts \subseteq {layer} \X ExpertIdx /\ IsFiniteSet(LayerExperts)
      /\ Cardinality(LayerExperts) <= MaxActive
  BY <1>t, PredictionSize DEF LayerExperts, SizesInv
<1>5. ToCome(p) \subseteq UNION Q
  BY DEF ToCome, Expert
<1>6. IsFiniteSet(U)
  <2> HIDE DEF Q
  <2>1. IsFiniteSet(LayerExperts \cup UNION Q)
    BY <1>3, <1>4, FS_Union
  <2>2. U \in SUBSET (LayerExperts \cup UNION Q)
    BY <1>5
  <2> QED BY <2>1, <2>2, FS_Subset
<1>7. ASSUME NEW k \in Layer PROVE Cardinality({e \in U : e[1] = k}) <= Kept(layer, k)
  <2> DEFINE V == {e \in U : e[1] = k}
  <2>1. CASE k = layer
    <3>1. V \in SUBSET LayerExperts
      BY <1>t, <2>1 DEF ToCome
    <3> HIDE DEF V
    <3>2. Cardinality(V) <= Cardinality(LayerExperts) /\ Cardinality(V) \in Nat /\ Cardinality(LayerExperts) \in Nat
      BY <1>4, <3>1, FS_Subset, FS_CardinalityType
    <3>3. Cardinality(V) <= MaxActive
      BY <1>4, <1>t, <3>2
    <3> QED BY <2>1, <3>3 DEF V, Kept
  <2>2. CASE k # layer
    <3>1. V \in SUBSET p[k]
      BY <1>4, <2>2 DEF ToCome
    <3>2. Cardinality(V) <= NumPredict[k]
      <4> HIDE DEF V
      <4>1. IsFiniteSet(p[k]) /\ Cardinality(p[k]) <= NumPredict[k] /\ NumPredict[k] \in Nat
        BY <1>p, <1>t DEF Predicted
      <4>2. Cardinality(V) <= Cardinality(p[k]) /\ Cardinality(V) \in Nat /\ Cardinality(p[k]) \in Nat
        BY <3>1, <4>1, FS_Subset, FS_CardinalityType
      <4> QED BY <4>1, <4>2
    <3>3. V = {} \/ k \in (layer + 1) .. (layer + MaxPrefetchLayerDistance)
      <4> SUFFICES ASSUME NEW w \in V PROVE k \in (layer + 1) .. (layer + MaxPrefetchLayerDistance)
        OBVIOUS
      <4>1. w \in ToCome(p) /\ w[1] = k
        BY <1>4, <2>2
      <4>2. k > layer /\ w \in p[k]
        BY <4>1 DEF ToCome
      <4>3. InWindow(k)
        BY <1>p, <4>2
      <4> QED BY <4>2, <4>3, WindowDistance
    <3>4. CASE k \in (layer + 1) .. (layer + MaxPrefetchLayerDistance)
      <4> HIDE DEF V
      <4> QED BY <2>2, <3>2, <3>4 DEF V, Kept
    <3>5. CASE V = {} /\ k \notin (layer + 1) .. (layer + MaxPrefetchLayerDistance)
      <4>1. Cardinality(V) = 0
        BY <3>5, FS_EmptySet
      <4> HIDE DEF V
      <4> QED BY <2>2, <3>5, <4>1 DEF V, Kept
    <3> QED BY <3>3, <3>4, <3>5
  <2> QED BY <2>1, <2>2
<1> QED BY <1>t, <1>6, <1>7 DEF HasRoom

(* A slot without unused buffers has as many experts as buffers. *)
LEMMA SlotFull ==
  ASSUME StateInv, BuffersOwned, NEW s \in Slot, unused_mems[s] = 0,
         IsFiniteSet({e \in Expert : IsInCache(e) /\ SlotOf(e) = s})
  PROVE  Cardinality({e \in Expert : IsInCache(e) /\ SlotOf(e) = s}) >= SlotLen[s]
<1> DEFINE T == {e \in Expert : IsInCache(e) /\ SlotOf(e) = s}
           n == SlotLen[s]
           f == [k \in 1 .. n |-> CHOOSE e \in Expert : gpu_data[e] = <<s, k>>]
<1>n. n \in Nat \ {0} /\ NoBuffer \notin Buffer
  BY ConstantsAssumption
<1>b. /\ \A e \in Expert : gpu_data[e] # NoBuffer => gpu_data[e][1] = SlotOf(e)
      /\ gpu_data = prefetched_experts
  BY DEF StateInv, BuffersPartitioned
<1>1. \A k \in 1 .. n : f[k] \in Expert /\ gpu_data[f[k]] = <<s, k>>
  <2>0. unused_mems[s] + 1 = 1
    OBVIOUS
  <2>1. \A k \in 1 .. n : \E e \in Expert : gpu_data[e] = <<s, k>>
    BY <2>0 DEF BuffersOwned
  <2> QED BY <2>1
<1>2. \A k \in 1 .. n : <<s, k>> # NoBuffer
  BY <1>n DEF Buffer
<1> HIDE DEF f
<1>3. \A k \in 1 .. n : f[k] \in T
  BY <1>b, <1>1, <1>2 DEF IsInCache
<1>4. f \in Injection(1 .. n, T)
  <2>1. f \in [1 .. n -> T]
    BY <1>3 DEF f
  <2>2. \A i, j \in 1 .. n : f[i] = f[j] => i = j
    BY <1>1
  <2> QED BY <2>1, <2>2 DEF Injection, IsInjective
<1>5. Cardinality(1 .. n) = n
  <2> HIDE DEF n
  <2>1. n \in Int /\ 1 \in Int /\ (IF 1 > n THEN 0 ELSE n - 1 + 1) = n
    BY <1>n
  <2>2. Cardinality(1 .. n) = IF 1 > n THEN 0 ELSE n - 1 + 1
    BY <2>1, FS_Interval
  <2> QED BY <2>1, <2>2
<1>6. IsFiniteSet(T)
  OBVIOUS
<1> HIDE DEF T, f, n
<1>7. Cardinality(1 .. n) <= Cardinality(T) /\ Cardinality(T) \in Nat
  BY <1>4, <1>6, FS_Injection, FS_CardinalityType
<1> QED BY <1>5, <1>7, <1>n DEF T, n

(* Then the expert that LRU or NN evicts is not one that the hook has still to use. *)
LEMMA EvictSpares ==
  ASSUME HasRoom, StateInv, PolicyInv, BuffersOwned, SizesInv, QueuesInv, NNInv, NoPinLeak,
         NEW p \in [Layer -> SUBSET Expert], AsPredicted(p), RecentOnes(p),
         cache_policy \in {"lru", "nn"}, max_priority < FloatLimit, Next, SchedIdle,
         NEW v \in Expert, IsInCache(v), SlotOf(v) = SlotOf(NextJob.expert),
         v \in SelectForEvict(SlotOf(NextJob.expert)),
         ~IsInCache(NextJob.expert), unused_mems[SlotOf(NextJob.expert)] = 0
  PROVE  expert_status[v] # "Launching"
<1> SUFFICES ASSUME v \in Launched PROVE FALSE
  BY DEF Launched
<1> DEFINE e == NextJob.expert
           s == SlotOf(e)
           T == {w \in Expert : IsInCache(w) /\ SlotOf(w) = s}
<1>t. TypeInv /\ BudgetInv /\ PinInv
  BY DEF StateInv
<1>e. e \in Expert /\ s \in Slot
  BY <1>t, IdleSends, SlotOfType DEF CopyTask
<1>1. v \in Accessed /\ v \in LayerExperts /\ Open
  <2>1. v \in AskedExperts /\ v \notin Wanted
    BY <1>t DEF PinInv
  <2> QED BY <2>1, AccessedInLayer DEF Accessed
<1>2. order[s] \in Seq(Expert) /\ ToSet(order[s]) = T
  BY <1>e, CacheListed
<1>3. Recent(v) \subseteq LayerExperts \cup ToCome(p)
  BY <1>1 DEF RecentOnes, Next
<1> HIDE DEF e, T
<1>4. ToSet(order[s]) \subseteq {v} \cup Recent(v)
  <2>v. v \in ToSet(order[s])
    BY <1>2 DEF T, e
  <2>1. CASE cache_policy = "lru"
    <3>1. order[s] # << >>
      BY <2>v DEF ToSet
    <3>2. v = Head(order[s])
      BY <2>1 DEF SelectForEvict, e
    <3>3. Recent(v) = Behind(order[s], v)
      BY <2>1 DEF Recent, e
    <3> QED BY <1>2, <3>1, <3>2, <3>3, BehindFirst
  <2>2. CASE cache_policy = "nn"
    <3>1. ~updating
      BY <1>t, <1>1, <2>2, UpdatingIdle DEF NNInv
    <3>2. \A w \in ToSet(order[s]) : priority[v] <= priority[w]
      BY <2>2, <3>1 DEF SelectForEvict, HeapFront, e
    <3>3. ToSet(order[s]) \subseteq Expert
      BY <1>2 DEF T
    <3> QED BY <2>2, <3>2, <3>3 DEF Recent
  <2> QED BY <2>1, <2>2
<1>5. e \in LayerExperts \cup ToCome(p)
  <2>1. CASE NextJob.is_precise
    BY <2>1, IdleAccesses DEF Accesses, e
  <2>2. CASE ~NextJob.is_precise
    BY <1>1, <2>2, SentToCome DEF e
  <2> QED BY <2>1, <2>2
<1>6. e \notin T
  BY DEF T, e
<1> DEFINE U == T \cup {e}
<1>7. U \subseteq LayerExperts \cup ToCome(p)
  BY <1>1, <1>2, <1>3, <1>4, <1>5
<1>8. U \in SUBSET {w \in Expert : SlotOf(w) = s}
  BY <1>e DEF T
<1> HIDE DEF U, s
<1>9. IsFiniteSet(U) /\ Cardinality(U) <= SlotLen[s]
  BY <1>e, <1>1, <1>7, <1>8, RoomForAll
<1>10. IsFiniteSet(T)
  <2>1. T \in SUBSET U
    BY DEF U
  <2> QED BY <1>9, <2>1, FS_Subset
<1>11. Cardinality(T) >= SlotLen[s]
  BY <1>e, <1>10, SlotFull DEF T, s, e
<1>12. Cardinality(U) = Cardinality(T) + 1 /\ Cardinality(T) \in Nat
  BY <1>6, <1>10, FS_AddElement, FS_CardinalityType DEF U
<1>13. SlotLen[s] \in Nat
  BY <1>e, ConstantsAssumption
<1> QED BY <1>9, <1>11, <1>12, <1>13

(* The eviction of IdleTask. *)
LEMMA IdleSpares ==
  ASSUME HasRoom, StateInv, WeightsInv, PreciseInv, PolicyInv, PriorityInv, PriorityInv', BuffersOwned,
         SizesInv, QueuesInv, NNInv, NoPinLeak, SparedInv, Next, SchedIdle, SendAccesses(NextJob),
         cache_policy' \in {"lru", "nn"}, (max_priority < FloatLimit)', fpc' = "wait", victim' # NoExpert
  PROVE  expert_status'[victim'] # "Launching"
<1> DEFINE e == NextJob.expert
<1>t. TypeInv /\ BuffersPartitioned
  BY DEF StateInv
<1>p. PICK p \in [Layer -> SUBSET Expert] : AsPredicted(p) /\ RecentOnes(p)
  BY DEF SparedInv
<1>e. /\ NextJob \in CopyTask /\ SendOneJob(NextJob) /\ Take("Idle")
      /\ e \in Expert /\ NextJob.is_precise \in BOOLEAN
  BY <1>t, IdleSends DEF SchedIdle, CopyTask
<1>0. fpc = "idle" /\ victim = NoExpert
  BY <1>t, <1>e, IdleQuiet
<1>1. PICK v \in InSlot(e) :
        /\ gpu_data[e] = NoBuffer
        /\ Evict(e, v) /\ Fetch(NextJob, IF Pinned(v) THEN v ELSE NoExpert)
  BY <1>e, <1>0 DEF SendOneJob, SendMissed, SendDuplicate, SendRest, Fetch
<1>2. victim' = v /\ v \in Expert /\ IsInCache(v) /\ SlotOf(v) = SlotOf(e)
  BY <1>1 DEF Fetch, InSlot
<1>3. ~IsInCache(e) /\ v # e /\ unused_mems[SlotOf(e)] = 0
  BY <1>t, <1>1, <1>2 DEF IsInCache, BuffersPartitioned, Evict
<1>4. prefetched_experts'[v] = NoBuffer /\ prefetched_experts'[e] = prefetched_experts[v]
  <2>1. prefetched_experts' = [prefetched_experts EXCEPT ![v] = NoBuffer, ![e] = prefetched_experts[v]]
    BY <1>1 DEF Evict
  <2>2. prefetched_experts \in [Expert -> Buffer \cup {NoBuffer}]
    BY <1>t DEF TypeInv, TypeOK
  <2> QED BY <1>e, <1>2, <1>3, <2>1, <2>2
<1>5. \A w \in Expert : IsInCache(w) /\ prefetched_experts'[w] = NoBuffer => w = v
  <2>1. \A w \in Expert : IsInCache(w) /\ prefetched_experts'[w] = NoBuffer =>
          \A x \in Expert : IsInCache(x) /\ prefetched_experts'[x] = NoBuffer => x = w
    BY <1>t, IdleEvicts
  <2> QED BY <1>2, <1>4, <2>1
<1>6. PICK w \in Expert : /\ IsInCache(w) /\ prefetched_experts'[w] = NoBuffer /\ w \in SelectForEvict(SlotOf(e))
                          /\ AccessOnMiss(e, Removed(order[SlotOf(e)], w), NextJob.is_precise)
  BY <1>2, <1>3, <1>4 DEF SendAccesses, IsInCache
<1>7. v \in SelectForEvict(SlotOf(e))
  BY <1>5, <1>6
<1>8. cache_policy' = cache_policy /\ Prioritised(e, NextJob.is_precise)
  BY <1>6 DEF AccessOnMiss
<1>9. max_priority < FloatLimit
  <2> HIDE DEF e
  <2> QED BY <1>e, <1>8, PriorityAccess
<1>10. expert_status[v] # "Launching"
  BY <1>p, <1>2, <1>3, <1>7, <1>8, <1>9, EvictSpares
<1>11. expert_status'[victim'] = expert_status[victim']
  BY <1>t, <1>e, EvictWaits
<1> QED BY <1>2, <1>10, <1>11

(* The steps that send no job. *)
NoSend ==
  \/ Hook \/ SchedPreempt \/ SchedPreemptExpert \/ SchedPreemptEnd \/ SchedPreemptOne
  \/ SchedPrefetchLayer \/ SchedFetchDone \/ SchedIdleAgain
  \/ Fetcher \/ StreamStep \/ Unlock \/ Predictor \/ UNCHANGED vars

(* None of them launches the expert that the fetch worker waits for. *)
LEMMA WaitLaunchesNone ==
  ASSUME StateInv, WeightsInv, NoSend, fpc' = "wait", victim' # NoExpert,
         expert_status'[victim'] = "Launching"
  PROVE  fpc = "wait" /\ victim' = victim /\ expert_status[victim] = "Launching"
<1>t. /\ TypeInv /\ BuffersPartitioned /\ BudgetInv /\ PlaceInv /\ PinInv
      /\ squeue \in Seq(Kind) /\ expert_status \in [Expert -> Status]
  BY DEF StateInv, TypeInv, TypeOK, Kind
<1>1. fpc = "wait" /\ victim' = victim
  BY DEF NoSend, Hook, HookStart, HookReportLayer, HookReportExpert, HookExpertDone,
     HookLayerDone, SchedPreempt, SchedPreemptExpert, SchedPreemptEnd, SchedPreemptOne,
     SchedPrefetchLayer, SchedFetchDone, SchedIdleAgain, Fetcher, FetchStart, FetchEnd, StreamStep,
     Unlock, Predictor, PredictStart, PredictLayer, PredictLayerDone, vars
<1>v. victim \in Expert /\ gpu_data[victim] = NoBuffer
  <2>1. InFlight
    BY <1>1 DEF InFlight
  <2> QED BY <1>t, <1>1, <2>1 DEF WeightsInv, CurrentInv, TypeInv, TypeOK
<1>f. ~SchedFetchDone
  <2> SUFFICES ASSUME SchedFetchDone PROVE FALSE
    OBVIOUS
  <2>1. InQueue("FetchDone")
    BY <1>t, TakeInQueue DEF SchedFetchDone
  <2> QED BY <1>1, <2>1 DEF WeightsInv, OneJobToken
<1>l. victim \in Launched'
  BY <1>1, <1>v DEF Launched
<1> SUFFICES victim \in Launched
  BY <1>1 DEF Launched
<1>2. ASSUME NEW e \in Expert, NEW behind, NEW line, line # "none", PreemptExpert(e, behind, line)
      PROVE  victim \in Launched
  <2>1. Launched' = Launched \/ (Launched' = Launched \cup {e} /\ IsInCache(e))
    BY <1>t, <1>2, PreemptMoves
  <2>2. IsInCache(e) => e # victim
    BY <1>t, <1>v DEF IsInCache, BuffersPartitioned
  <2> QED BY <1>l, <2>1, <2>2
<1>3. CASE HookStart \/ HookReportExpert \/ HookReportLayer \/ HookLayerDone \/ SchedPreempt
  <2>1. UNCHANGED expert_status
    BY <1>3 DEF HookStart, HookReportExpert, HookReportLayer, HookLayerDone, SchedPreempt
  <2> QED BY <1>l, <2>1 DEF Launched
<1>4. CASE HookExpertDone
  <2>1. Launched' = Launched \ {HookExpert}
    BY <1>t, <1>4, HookUsesAsked
  <2> QED BY <1>l, <2>1
<1>5. CASE SchedPreemptExpert
  <2>1. <<layer, experts[sidx]>> \in Expert
    <3>1. layer \in Layer /\ experts \in Seq(ExpertIdx) /\ sidx \in Nat \ {0} /\ sidx <= Len(experts)
      BY <1>t, <1>5 DEF SchedPreemptExpert, TypeInv, TypeOK
    <3>2. experts[sidx] \in ExpertIdx
      BY <3>1
    <3> QED BY <3>1, <3>2 DEF Expert
  <2> QED BY <1>2, <1>5, <2>1 DEF SchedPreemptExpert
<1>6. CASE SchedPreemptOne
  <2>1. InQueue("PreemptOne")
    BY <1>6, <1>t, TakeInQueue DEF SchedPreemptOne
  <2>2. HookExpert \in Expert
    BY <1>t, <2>1 DEF TypeInv, TypeOK, IndexInv, HookExpert, Expert
  <2> QED BY <1>2, <1>6, <2>2 DEF SchedPreemptOne
<1>7. CASE \/ SchedPreemptEnd \/ SchedPrefetchLayer \/ SchedIdleAgain \/ Fetcher \/ StreamStep
           \/ Unlock \/ Predictor \/ UNCHANGED vars
  <2>1. Launched' = Launched
    BY <1>t, <1>7, FramePinned
  <2> QED BY <1>l, <2>1
<1> QED BY <1>f, <1>3, <1>4, <1>5, <1>6, <1>7 DEF NoSend, Hook

(* Priorities only grow, but for a new prediction: then nothing is launched. *)
LEMMA PrioritiesGrow ==
  ASSUME StateInv, PolicyInv, PriorityInv, PriorityInv', NNInv, [NextPolicies]_tracedVars,
         ~(SchedIdle /\ SendAccesses(NextJob)), cache_policy' \in {"lru", "nn"}, (max_priority < FloatLimit)', Launched' # {}
  PROVE  cache_policy' = cache_policy /\ max_priority < FloatLimit
<1>t. TypeInv /\ BuffersPartitioned
  BY DEF StateInv
<1>1. CASE UNCHANGED <<cache_policy, priority>>
  BY <1>1 DEF max_priority
<1>p. UNCHANGED policyVars => UNCHANGED <<cache_policy, priority>>
  BY DEF policyVars, nnVars
<1>2. ASSUME NEW e \in Expert, NEW behind, PreemptHits(e, behind)
      PROVE  cache_policy' = cache_policy /\ max_priority < FloatLimit
  <2>1. CASE HitOnPreempt(e, behind)
    <3>1. IsInCache(e) /\ AccessOnHit(e, TRUE)
      BY <1>2, <2>1 DEF PreemptHits, HitOnPreempt
    <3>2. cache_policy' = cache_policy
      BY <3>1 DEF AccessOnHit
    <3> QED BY <3>1, <3>2, HitRecent DEF RecentStep
  <2>2. CASE ~HitOnPreempt(e, behind)
    BY <1>1, <1>2, <1>p, <2>2 DEF PreemptHits
  <2> QED BY <2>1, <2>2
<1>3. CASE SchedPreemptExpert /\ PreemptHits(<<layer, experts[sidx]>>, BehindMiss(sidx))
  <2>1. <<layer, experts[sidx]>> \in Expert
    BY <1>t, <1>3 DEF SchedPreemptExpert, TypeInv, TypeOK, IndexInv, Expert
  <2> QED BY <1>2, <1>3, <2>1
<1>4. CASE SchedPreemptOne /\ PreemptHits(HookExpert, FALSE)
  <2>1. InQueue("PreemptOne")
    BY <1>t, <1>4, TakeInQueue DEF TypeInv, TypeOK, Kind, SchedPreemptOne
  <2>2. HookExpert \in Expert
    BY <1>t, <2>1 DEF TypeInv, TypeOK, IndexInv, HookExpert, Expert
  <2> QED BY <1>2, <1>4, <2>2
<1>5. CASE PredictStart /\ BeginUpdate
  <2>1. cache_policy = "nn" /\ predict_jobs # << >>
    BY <1>5 DEF BeginUpdate, PredictStart
  <2>2. Ahead = 0
    BY <2>1 DEF NNInv, OneJobInv
  <2>3. ~Open
    <3>1. layer \in Nat /\ prefetch_layer_progress \in Nat
      BY <1>t, ConstantsAssumption DEF TypeInv, TypeOK, Layer
    <3> QED BY <2>2, <3>1 DEF Ahead, Open
  <2>4. AskedExperts = {}
    BY <2>3, NothingAsked DEF Open
  <2>5. Launched = {} /\ Launched' = Launched
    BY <1>5, <2>4 DEF StateInv, PinInv, Launched, PredictStart
  <2> QED BY <2>5
<1>6. CASE SetCurSeq
  BY <1>1, <1>6 DEF SetCurSeq, nnVars
<1>7. CASE EndUpdate
  BY <1>1, <1>7 DEF EndUpdate
<1>8. CASE PredictLayerDone /\ EndPrediction
  BY <1>1, <1>8 DEF EndPrediction
<1>9. CASE UNCHANGED policyVars
  BY <1>1, <1>9, <1>p
<1>10. CASE UNCHANGED tracedVars
  BY <1>9, <1>10 DEF tracedVars
<1>11. CASE SchedPrefetchLayer /\ PromoteHits
  BY <1>1, <1>11 DEF PromoteHits, nnVars
<1> QED BY <1>3, <1>4, <1>5, <1>6, <1>7, <1>8, <1>9, <1>10, <1>11 DEF NextPolicies

LEMMA NextSpared ==
  ASSUME HasRoom, StateInv, WeightsInv, PreciseInv, PolicyInv, PriorityInv, PriorityInv', BuffersOwned,
         SizesInv, QueuesInv, NNInv, NoPinLeak, SparedInv, LaunchedSpared, [NextPolicies]_tracedVars
  PROVE  LaunchedSpared'
<1> SUFFICES ASSUME cache_policy' \in {"lru", "nn"}, (max_priority < FloatLimit)', fpc' = "wait",
                    victim' # NoExpert, expert_status'[victim'] = "Launching"
             PROVE  FALSE
  BY DEF LaunchedSpared
<1>1. CASE SchedIdle /\ SendAccesses(NextJob)
  <2>1. UNCHANGED tracedVars => UNCHANGED fetchVars
    BY DEF tracedVars, vars
  <2>2. SchedIdle => fpc = "idle"
    BY IdleQuiet DEF StateInv, SchedIdle
  <2>3. Next
    BY <1>1, <2>1, <2>2 DEF NextPolicies, Next, Step, Scheduler
  <2> QED BY <1>1, <2>3, IdleSpares
<1>2. CASE ~(SchedIdle /\ SendAccesses(NextJob))
  <2>1. NoSend
    <3>1. UNCHANGED tracedVars \/ SetCurSeq \/ EndUpdate => UNCHANGED vars
      BY DEF tracedVars, SetCurSeq, EndUpdate
    <3> QED BY <1>2, <3>1 DEF NextPolicies, NoSend, Hook, Predictor
  <2>2. fpc = "wait" /\ victim' = victim /\ expert_status[victim] = "Launching"
    BY <2>1, WaitLaunchesNone
  <2>3. Launched' # {}
    <3>1. victim \in Expert
      BY <2>2 DEF StateInv, TypeInv, TypeOK
    <3> QED BY <2>2, <3>1 DEF Launched
  <2>4. cache_policy' = cache_policy /\ max_priority < FloatLimit
    BY <1>2, <2>3, PrioritiesGrow
  <2> QED BY <2>2, <2>4 DEF LaunchedSpared
<1> QED BY <1>1, <1>2

-----------------------------------------------------------------------------
LEMMA SparedKept ==
  ASSUME StateInv, PolicyInv, PriorityInv, PriorityInv', JobAhead, QueuesInv, QueuesInv', SizesInv, NNInv,
         SparedInv, [NextPolicies]_tracedVars
  PROVE  SparedInv'
<1>t. TypeInv
  BY DEF StateInv
<1>p. PICK p \in [Layer -> SUBSET Expert] : AsPredicted(p) /\ RecentOnes(p)
  BY DEF SparedInv
<1>1. CASE UNCHANGED tracedVars
  <2>1. UNCHANGED <<vars, cache_policy, order, priority>>
    BY <1>1 DEF tracedVars, policyVars, nnVars
  <2>2. AsPredicted(p)'
    BY <1>p, <2>1 DEF vars, AsPredicted, Predicted, QueuedOf, InWindow, Ahead, InQueue
  <2>3. RecentOnes(p)'
    <3>1. /\ Accessed' = Accessed /\ LayerExperts' = LayerExperts /\ ToCome(p)' = ToCome(p)
          /\ max_priority' = max_priority /\ \A e : Recent(e)' = Recent(e)
      BY <2>1 DEF vars, Accessed, Used, AskedExperts, Asked, Wanted, InQueue, LayerExperts, ToCome,
         max_priority, Recent
    <3>2. UNCHANGED <<cache_policy, aborted>>
      BY <2>1 DEF vars
    <3> QED BY <1>p, <3>1, <3>2 DEF RecentOnes
  <2> QED BY <2>2, <2>3 DEF SparedInv
<1>2. CASE NextPolicies /\ Next
  <2>1. PICK r \in [Layer -> SUBSET Expert] :
          /\ AsPredicted(r)'
          /\ ~HookLayerDone => \A l \in Layer : p[l] \subseteq r[l]
          /\ SchedPrefetchLayer => \A k \in 1 .. Len(pexperts) : <<pnext, pexperts[k]>> \in r[pnext]
    BY <1>t, <1>p, <1>2, PredictionKept
  <2>2. RecentOnes(r)'
    BY <1>p, <1>2, <2>1, RecentKept
  <2> QED BY <2>1, <2>2 DEF SparedInv
<1>3. CASE NextPolicies /\ UNCHANGED vars
  <2>1. AsPredicted(p)'
    BY <1>p, <1>3 DEF vars, AsPredicted, Predicted, QueuedOf, InWindow, Ahead, InQueue
  <2>2. ~SchedPrefetchLayer
    <3>1. squeue \in Seq(Kind) /\ squeue' = squeue
      BY <1>t, <1>3 DEF TypeInv, TypeOK, Kind, vars
    <3>2. SchedPrefetchLayer => squeue # << >> /\ squeue' = Tail(squeue)
      BY DEF SchedPrefetchLayer, Take
    <3>3. squeue # << >> => Len(Tail(squeue)) # Len(squeue)
      BY <3>1
    <3> QED BY <3>1, <3>2, <3>3
  <2>3. RecentOnes(p)'
    BY <1>p, <1>3, <2>2, RecentKept
  <2> QED BY <2>1, <2>3 DEF SparedInv
<1> QED BY <1>1, <1>2, <1>3, PoliciesRefine

LEMMA InitSpared == InitPolicies => SparedInv /\ LaunchedSpared
<1> SUFFICES ASSUME InitPolicies PROVE SparedInv /\ LaunchedSpared
  OBVIOUS
<1>1. Init
  BY DEF InitPolicies
<1>2. /\ hpc = "start" /\ idx = 1 /\ fpc = "idle"
      /\ per_layer_job_queues = [l \in Layer |-> << >>]
  BY <1>1 DEF Init
<1>3. PICK p \in [Layer -> SUBSET Expert] : \A l \in Layer : p[l] = {}
  <2>1. [l \in Layer |-> {}] \in [Layer -> SUBSET Expert] /\ \A l \in Layer : [k \in Layer |-> {}][l] = {}
    OBVIOUS
  <2> QED BY <2>1
<1>4. AsPredicted(p)
  <2> SUFFICES ASSUME NEW l \in Layer PROVE Predicted(l, {}) /\ QueuedOf(l) = {}
    BY <1>3 DEF AsPredicted
  <2>1. NumPredict[l] \in Nat
    BY ConstantsAssumption
  <2>2. Predicted(l, {})
    BY <2>1, FS_EmptySet DEF Predicted
  <2>3. Len(<< >>) = 0
    OBVIOUS
  <2> QED BY <1>2, <2>2, <2>3 DEF QueuedOf
<1>5. RecentOnes(p)
  <2>1. AskedExperts = {} /\ Used = {}
    BY <1>2, NothingAsked DEF Used
  <2> QED BY <2>1 DEF RecentOnes, Accessed
<1> QED BY <1>2, <1>4, <1>5 DEF SparedInv, LaunchedSpared

LEMMA PoliciesUpdate ==
  ASSUME "nn" \in Policies => OneJobPerIteration
  PROVE  SpecPolicies => []NNInv
<1>1. SpecPolicies => []PriorityInv
  BY PoliciesTyped, InitPriorities, NextPriorities, PTL DEF SpecPolicies
<1>2. CASE "nn" \in Policies
  <2>1. SpecPolicies => [](BudgetInv /\ QueuesInv /\ NoPinLeak /\ OneJobInv /\ UpdatingInv)
    BY <1>2, PoliciesUpdating
  <2>2. OneJobInv /\ UpdatingInv => NNInv
    BY DEF NNInv
  <2> QED BY <2>1, <2>2, PTL
<1>3. CASE "nn" \notin Policies
  <2>1. PriorityInv => NNInv
    BY <1>3 DEF PriorityInv, NNInv
  <2> QED BY <1>1, <2>1, PTL
<1> QED BY <1>2, <1>3

(* Whatever the threads do, LRU and NN (until priorities reach the limit of a float) never    *)
(* give away the buffer of an expert that is launched and not used yet: the fetch worker      *)
(* never waits for the model to get to another expert.  The jobs of an iteration cover its    *)
(* layers once, with NN one job does, and each slot has a buffer for every expert that a      *)
(* layer activates or that is predicted within the prefetch distance.  Then it makes no       *)
(* difference whether PrefetchLayerTask promotes the predicted experts in the cache of LRU.   *)
THEOREM LaunchedAreSpared ==
  ASSUME OncePerIteration, "nn" \in Policies => OneJobPerIteration, HasRoom
  PROVE  SpecPolicies => []LaunchedSpared
<1>s. SpecPolicies => Spec
  BY PoliciesRefine, PTL DEF Spec, SpecPolicies, InitPolicies
<1>n. [NextPolicies]_tracedVars => [Next]_vars
  BY PoliciesRefine
<1>i. InitPolicies => Init
  BY DEF InitPolicies
<1>1. StateInv => TypeInv /\ BuffersPartitioned /\ BudgetInv /\ PlaceInv /\ PinInv
  BY DEF StateInv
<1>2. Spec => []WeightsInv
  BY InitTypeInv, NextTypeInv, CachePartitionsBuffers, InitWeights, NextWeights, PTL DEF Spec
<1>3. SpecPolicies => [](PreciseInv /\ OrderInv)
  <2>1. Init => PreciseInv /\ OrderInv
    BY InitService
  <2>2. /\ TypeInv /\ BuffersPartitioned /\ BudgetInv /\ WeightsInv /\ PlaceInv /\ PinInv
        /\ (PreciseInv /\ OrderInv) /\ [Next]_vars
        => (PreciseInv /\ OrderInv)'
    BY NextService
  <2> QED BY <1>s, <1>n, <1>i, <1>1, <1>2, PoliciesState, <2>1, <2>2, PTL DEF SpecPolicies
<1>4. SpecPolicies => []JobAhead
  BY <1>s, JobsAhead
<1>5. SpecPolicies => []QueuesInv
  BY <1>n, <1>i, <1>1, <1>4, PoliciesState, InitQueues, NextQueues, PTL DEF SpecPolicies
<1>6. SpecPolicies => []SizesInv
  BY <1>n, <1>i, PoliciesTyped, InitSizes, NextSizes, PTL DEF SpecPolicies
<1>7. SpecPolicies => []BuffersOwned
  BY <1>n, <1>i, PoliciesTyped, PoliciesPartition, InitOwns, NextOwns, PTL DEF SpecPolicies
<1>8. SpecPolicies => []PriorityInv
  BY PoliciesTyped, InitPriorities, NextPriorities, PTL DEF SpecPolicies
<1>9. SpecPolicies => []NoPinLeak
  BY <1>s, NoPinLeaks, PTL
<1>10. SpecPolicies => []SparedInv
  <2>1. /\ StateInv /\ PolicyInv /\ PriorityInv /\ PriorityInv' /\ JobAhead /\ QueuesInv /\ QueuesInv'
        /\ SizesInv /\ NNInv /\ SparedInv /\ [NextPolicies]_tracedVars
        => SparedInv'
    BY SparedKept
  <2> QED BY <1>4, <1>5, <1>6, <1>8, <2>1, PoliciesState, PoliciesList, PoliciesUpdate, InitSpared, PTL
         DEF SpecPolicies
<1>11. /\ StateInv /\ WeightsInv /\ PreciseInv /\ PolicyInv /\ PriorityInv /\ PriorityInv' /\ BuffersOwned
       /\ SizesInv /\ QueuesInv /\ NNInv /\ NoPinLeak /\ SparedInv /\ LaunchedSpared
       /\ [NextPolicies]_tracedVars
       => LaunchedSpared'
  BY NextSpared
<1> QED BY <1>s, <1>2, <1>3, <1>5, <1>6, <1>7, <1>8, <1>9, <1>10, <1>11, PoliciesState, PoliciesList,
           PoliciesUpdate, InitSpared, PTL DEF SpecPolicies
=============================================================================
